--------------------------- MODULE DocumentedClaims ---------------------------
(***************************************************************************)
(* What the comments of the code say of the engine and its callers may     *)
(* expect, where the code does something else.                             *)
(***************************************************************************)
EXTENDS MCMatchingEngine

Returned(call) == pc = "done" /\ op = call

\* types.h: FOK is "Fill-Or-Kill".  A FOK order trades in full or not at all;
\* the matching loop treats it as an IOC order.
FillOrKill ==
  Returned("process") /\ taker.type = "FOK" => trades = << >> \/ left = 0

\* matching_engine.h: cancel_order cancels "an order by ID".  What it cancels and
\* reports has the id it was given.
CancelHitsItsOrder ==
  Returned("cancel") => \A k \in DOMAIN reports : reports[k].id = taker.id

\* matching_engine.cpp, where cancel_order finds no entry: "Order not found -
\* already filled or cancelled".  No order of that id rests.
NotFoundIsGone ==
  Returned("cancel") /\ reports = << >> => taker.id \notin RestingIds

\* matching_engine.h: process_order "returns trade events and execution reports".
\* A call that has begun comes to its end; once cancels have gone through a stale
\* entry it may spin for ever on a level whose bit is set and whose head is null.
CallReturns == pc \in {"match", "level"} ~> pc = "done"

\* Buyers at one price, another at a price without a level, and a seller.
FewOrders ==
  {Order(1, "Buy", "Limit", MaxLevels, 1), Order(5, "Sell", "IOC", 1, 1)}
  \cup {Order(id, "Buy", "Limit", 1, 1) : id \in {2, 3, 4}}
=============================================================================
