------------------------------ MODULE MCPipeline ------------------------------
(***************************************************************************)
(* Instances of Pipeline for TLC.                                          *)
(***************************************************************************)
EXTENDS Pipeline

Order(id, side, type, price, quantity) ==
  [NoOrder EXCEPT !.id = id, !.side = side, !.type = type, !.price = price,
                  !.quantity = quantity]

\* Two sellers at one price, a buyer who takes what both want to sell, or rests, or
\* takes one piece at any price, or forgets the price, which validate finds.
MCClientOrders ==
  {Order(1, "Sell", "Limit", 1, 2), Order(2, "Sell", "Limit", 1, 1),
   Order(3, "Buy", "Limit", 2, 3), Order(3, "Buy", "Market", 0, 1),
   Order(3, "Buy", "Limit", 0, 1)}

MCOrders == {Stamp(o, number) : o \in MCClientOrders, number \in 1 .. MaxSubmissions}
=============================================================================
