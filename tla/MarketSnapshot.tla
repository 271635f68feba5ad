----------------------------- MODULE MarketSnapshot -----------------------------
(***************************************************************************)
(* MarketDataHandler::get_top_of_book (include/matching/market_data.h): it *)
(* asks the engine, between calls, and keeps nothing.                      *)
(***************************************************************************)
EXTENDS MatchingEngine

TopOfBook ==
  [bid |-> BestPrice("Buy"), bidQuantity |-> RestingQuantity("Buy", BestPrice("Buy")),
   ask |-> BestPrice("Sell"), askQuantity |-> RestingQuantity("Sell", BestPrice("Sell")),
   spread |-> Spread]

-----------------------------------------------------------------------------
\* What rests on a side, at its best price.
BestOf(side) ==
  LET there == {s \in Resting : orders[s].side = side}
      prices == {orders[s].price : s \in there}
      best == IF side = "Buy" THEN Max(prices) ELSE Min(prices)
  IN IF there = {} THEN [price |-> 0, quantity |-> 0]
     ELSE [price |-> best,
           quantity |-> MapThenSumSet(LAMBDA s : orders[s].remaining,
                                      {s \in there : orders[s].price = best})]

\* A snapshot shows the best prices at which orders rest and all that rests there,
\* 0 for a side without orders, and a spread that is 0 only for want of a side.
TopOfBookShown ==
  pc \in {"idle", "done"} =>
    /\ TopOfBook.bid = BestOf("Buy").price
    /\ TopOfBook.bidQuantity = BestOf("Buy").quantity
    /\ TopOfBook.ask = BestOf("Sell").price
    /\ TopOfBook.askQuantity = BestOf("Sell").quantity
    /\ TopOfBook.spread > 0 <=> BestOf("Buy").price > 0 /\ BestOf("Sell").price > 0
=============================================================================
