----------------------------- MODULE PriceTimeBook -----------------------------
(***************************************************************************)
(* What an order book with price-time priority promises its callers.  Each *)
(* side is one queue of resting orders in the order in which they trade;   *)
(* there are no levels, no bitset, no map from ids and no pool, only a     *)
(* bound on how many orders may rest.                                      *)
(***************************************************************************)
EXTENDS Events

CONSTANTS
  Orders,      \* the orders callers may submit
  Ids,         \* the ids callers may cancel
  Capacity,    \* how many orders may rest
  MaxPrice     \* an order rests at a price up to this one

VARIABLES
  book,        \* book[side]: the resting orders of a side, first to trade first
  phase,       \* "idle", "matching", "done"
  call,        \* what was called: "none", "process", "cancel"
  taker,       \* the order being processed
  left,        \* what it has still to fill
  trades,      \* what the call has traded
  reports      \* and reported

vars == <<book, phase, call, taker, left, trades, reports>>

Smaller(a, b) == IF a < b THEN a ELSE b

\* Would an order of that side at price p trade no later than one at price q?
AtLeastAsGood(side, p, q) == IF side = "Buy" THEN p >= q ELSE p <= q

Valid(o) == o.quantity > 0 /\ o.id # 0 /\ (o.type = "Limit" => o.price > 0)

Agrees(o, price) == o.type = "Market" \/ AtLeastAsGood(o.side, o.price, price)

\* The queue with an entry put behind the last that is as good.
Enqueue(side, queue, entry) ==
  LET asGood == {k \in DOMAIN queue : AtLeastAsGood(side, queue[k].price, entry.price)}
  IN InsertAt(queue, Max({0} \cup asGood) + 1, entry)

Init ==
  /\ book = [side \in Sides |-> << >>]
  /\ phase = "idle"
  /\ call = "none"
  /\ taker = NoOrder
  /\ left = 0
  /\ trades = << >>
  /\ reports = << >>

RestingAt(side) == {book[side][k].id : k \in DOMAIN book[side]}

Submit(o) ==
  /\ phase = "idle"
  /\ o.id \notin RestingAt("Buy") \cup RestingAt("Sell")
  /\ call' = "process"
  /\ taker' = o
  /\ left' = o.quantity
  /\ IF Valid(o)
     THEN phase' = "matching" /\ UNCHANGED reports
     ELSE /\ phase' = "done"
          /\ reports' = <<Report(o.id, "Cancelled", o.side, o.price, 0, o.quantity)>>
  /\ UNCHANGED <<book, trades>>

Contra == Opposite(taker.side)

CanFill ==
  /\ left > 0
  /\ book[Contra] # << >>
  /\ Agrees(taker, Head(book[Contra]).price)

\* The first order of the other side trades, at its own price.
Fill ==
  /\ phase = "matching"
  /\ CanFill
  /\ LET maker == Head(book[Contra])
         quantity == Smaller(left, maker.remaining)
         usedUp == quantity = maker.remaining
     IN
     /\ trades' = Append(trades, Trade(taker, maker, quantity))
     /\ left' = left - quantity
     /\ book' = [book EXCEPT ![Contra] =
          IF usedUp THEN Tail(@)
          ELSE <<[maker EXCEPT !.remaining = @ - quantity]>> \o Tail(@)]
     /\ reports' = IF usedUp
          THEN Append(reports, Report(maker.id, "Filled", Contra, maker.price,
                                      maker.quantity, 0))
          ELSE reports
  /\ UNCHANGED <<phase, call, taker>>

\* What nobody trades with rests, if it is a Limit order and there is room.
Finish ==
  /\ phase = "matching"
  /\ ~CanFill
  /\ LET rests == /\ left > 0
                  /\ taker.type = "Limit"
                  /\ Len(book["Buy"]) + Len(book["Sell"]) < Capacity
         status == IF left = 0 THEN "Filled" ELSE IF rests THEN "Resting" ELSE "Cancelled"
         entry == [id |-> taker.id, price |-> taker.price,
                   quantity |-> taker.quantity, remaining |-> left]
     IN
     /\ rests => taker.price <= MaxPrice
     /\ book' = IF rests THEN [book EXCEPT ![taker.side] = Enqueue(taker.side, @, entry)]
                ELSE book
     /\ reports' = Append(reports, Report(taker.id, status, taker.side, taker.price,
                                          taker.quantity - left, left))
  /\ phase' = "done"
  /\ UNCHANGED <<call, taker, left, trades>>

\* An order that rests leaves the queue and is reported; the others stay as they
\* stand, and an id nobody rests under changes nothing.
Cancel(id) ==
  /\ phase = "idle"
  /\ phase' = "done"
  /\ call' = "cancel"
  /\ taker' = [NoOrder EXCEPT !.id = id]
  /\ \/ /\ id \notin RestingAt("Buy") \cup RestingAt("Sell")
        /\ UNCHANGED <<book, reports>>
     \/ \E side \in Sides : \E k \in DOMAIN book[side] :
          LET order == book[side][k] IN
          /\ order.id = id
          /\ book' = [book EXCEPT ![side] = RemoveAt(@, k)]
          /\ reports' = <<Report(id, "Cancelled", side, order.price,
                                 order.quantity - order.remaining, order.remaining)>>
  /\ UNCHANGED <<left, trades>>

Return ==
  /\ phase = "done"
  /\ phase' = "idle"
  /\ call' = "none"
  /\ taker' = NoOrder
  /\ left' = 0
  /\ trades' = << >>
  /\ reports' = << >>
  /\ UNCHANGED book

Next ==
  \/ \E o \in Orders : Submit(o)
  \/ Fill
  \/ Finish
  \/ \E id \in Ids : Cancel(id)
  \/ Return

Spec == Init /\ [][Next]_vars

\* A call that has begun is carried through.
Fairness == WF_vars(Fill \/ Finish)
=============================================================================
