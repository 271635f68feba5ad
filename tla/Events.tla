-------------------------------- MODULE Events --------------------------------
(***************************************************************************)
(* What the parts of the system pass to each other (include/matching/      *)
(* types.h and events.h): incoming orders, trades and execution reports.   *)
(***************************************************************************)
EXTENDS Integers, Sequences, FiniteSetsExt, SequencesExt

Sides == {"Buy", "Sell"}

Opposite(side) == IF side = "Buy" THEN "Sell" ELSE "Buy"

OrderTypes == {"Limit", "Market", "IOC", "FOK"}

Statuses == {"New", "Resting", "PartiallyFilled", "Filled", "Cancelled"}

IncomingOrder ==
  [id : Nat, side : Sides, type : OrderTypes, price : Int, quantity : Int, timestamp : Nat]

NoOrder ==
  [id |-> 0, side |-> "Buy", type |-> "Limit", price |-> 0, quantity |-> 0, timestamp |-> 0]

Report(id, status, side, price, filled, remaining) ==
  [id |-> id, status |-> status, side |-> side, price |-> price,
   filled |-> filled, remaining |-> remaining]

\* A trade of an incoming order with a resting one, at the resting one's price and
\* with the incoming one's timestamp.
Trade(order, maker, quantity) ==
  [buy  |-> IF order.side = "Buy" THEN order.id ELSE maker.id,
   sell |-> IF order.side = "Buy" THEN maker.id ELSE order.id,
   price |-> maker.price, quantity |-> quantity, timestamp |-> order.timestamp]

\* Would an incoming order trade at this price?
CrossesBeyond(o, price) ==
  \/ o.type = "Market"
  \/ o.side = "Buy"  /\ o.price > price
  \/ o.side = "Sell" /\ o.price < price

Crosses(o, price) ==
  \/ o.type = "Market"
  \/ o.side = "Buy"  /\ o.price >= price
  \/ o.side = "Sell" /\ o.price <= price

TradeType == [buy : Nat, sell : Nat, price : Int, quantity : Int, timestamp : Nat]

ReportType == [id : Nat, status : Statuses, side : Sides, price : Int,
               filled : Int, remaining : Int]

\* The sum of a sequence of numbers.
Total(numbers) ==
  LET sum[k \in 0 .. Len(numbers)] == IF k = 0 THEN 0 ELSE sum[k - 1] + numbers[k]
  IN sum[Len(numbers)]

SumQuantity(ts) == Total([k \in DOMAIN ts |-> ts[k].quantity])
=============================================================================
