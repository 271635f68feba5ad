--------------------------- MODULE MCMatchingEngine ---------------------------
(***************************************************************************)
(* Instances of MatchingEngine for TLC.                                    *)
(***************************************************************************)
EXTENDS MatchingEngineRefinement, MarketSnapshot

CONSTANTS Ids, Prices, Quantities

Order(id, side, type, price, quantity) ==
  [NoOrder EXCEPT !.id = id, !.side = side, !.type = type, !.price = price,
                  !.quantity = quantity]

\* Orders that can rest.
LimitOrders ==
  {Order(id, side, "Limit", price, quantity) :
     id \in Ids, side \in Sides, price \in Prices, quantity \in Quantities}

\* Orders that never rest; one id that no Limit order has stands for theirs.  A
\* Market order carries no price, and is large enough to clear several orders.
Sweepers ==
  {Order(1 + Max(Ids), side, "IOC", price, Max(Quantities)) : side \in Sides, price \in Prices}
  \cup {Order(1 + Max(Ids), side, "FOK", Max(Prices), Max(Quantities)) : side \in Sides}
  \cup {Order(1 + Max(Ids), side, "Market", 0, 1 + Max(Quantities)) : side \in Sides}

\* What validate_order turns away, and an IOC order at a price no level has,
\* which it lets through.
Unusual ==
  {Order(0, "Buy", "Limit", 1, 1), Order(1, "Buy", "Limit", 1, 0),
   Order(1, "Sell", "Limit", 0, 1), Order(1, "Sell", "IOC", 0, 1),
   Order(1, "Buy", "IOC", MaxLevels, 1)}

MCOrders == LimitOrders \cup Sweepers \cup Unusual

\* A smaller set: the id decides the quantity of a Limit order.
Contenders == {o \in LimitOrders : o.quantity = 1 + (o.id % 2)} \cup Sweepers

SizedOrders == Contenders \cup Unusual
=============================================================================
