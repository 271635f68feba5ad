--------------------------- MODULE MCReferenceEngine ---------------------------
(***************************************************************************)
(* Instances of ReferenceEngine for TLC, and the book it implements.       *)
(***************************************************************************)
EXTENDS ReferenceEngine

CONSTANTS Ids, LimitPrices, Quantities

Order(id, side, type, price, quantity) ==
  [NoOrder EXCEPT !.id = id, !.side = side, !.type = type, !.price = price,
                  !.quantity = quantity]

\* The id of a Limit order decides its quantity.
LimitOrders ==
  {Order(id, side, "Limit", price, 1 + (id % Max(Quantities))) :
     id \in Ids, side \in Sides, price \in LimitPrices}

Sweepers ==
  {Order(1 + Max(Ids), side, type, price, Max(Quantities)) :
     side \in Sides, type \in {"IOC", "FOK"}, price \in LimitPrices}
  \cup
  {Order(1 + Max(Ids), side, "Market", 0, 1 + Max(Quantities)) : side \in Sides}

\* What process_order turns away.
Unusual == {Order(0, "Buy", "Limit", 1, 1), Order(1, "Buy", "Limit", 1, 0)}

MCOrders == LimitOrders \cup Sweepers \cup Unusual

-----------------------------------------------------------------------------
Entry(n) ==
  [id |-> nodes[n].id, price |-> nodes[n].price,
   quantity |-> nodes[n].quantity, remaining |-> nodes[n].remaining]

Ascending == SetToSortSeq(LimitPrices, LAMBDA p, q : p < q)

Descending == Reverse(Ascending)

ByPriority(side) ==
  LET prices == IF side = "Buy" THEN Descending ELSE Ascending
  IN [k \in DOMAIN prices |->
        IF prices[k] \in Prices(side) THEN lists[side][prices[k]] ELSE << >>]

\* The orders of a side without the cancelled ones, the first to trade first.
AbstractQueue(side) ==
  LET live == SelectSeq(FlattenSeq(ByPriority(side)),
                        LAMBDA n : nodes[n].status # "Cancelled")
  IN [k \in DOMAIN live |-> Entry(live[k])]

Book == INSTANCE PriceTimeBook WITH
  Ids <- OrderIds,
  Capacity <- MaxNodes,
  MaxPrice <- Max(LimitPrices),
  book <- [side \in Sides |-> AbstractQueue(side)],
  phase <- IF pc \in {"match", "level"} THEN "matching" ELSE pc,
  call <- op

\* The engine with lazy cancels is the same price-time book as MatchingEngine: a
\* cancelled order neither trades nor moves anybody, whenever its node goes.
\* PriceTimeBook leaves a call no choice, so the two engines answer alike.
ImplementsPriceTimeBook == Book!Spec

\* A call that the abstract book could carry on with is carried on with: lists
\* that hold cancelled orders only do not keep the loops busy for ever.
CarriesCallsThrough == Book!Fairness
=============================================================================
