--------------------------- MODULE MarketDataHandler ---------------------------
(***************************************************************************)
(* MarketDataHandler (include/matching/market_data.h): what it keeps of    *)
(* the engine's events, and the subscriber it calls for each trade.        *)
(***************************************************************************)
EXTENDS Events

VARIABLES
  recentTrades,    \* recent_trades_
  recentReports,   \* recent_reports_
  subscribed,      \* is trade_callback_ set?
  feed             \* the trades trade_callback_ has been called with

handlerVars == <<recentTrades, recentReports, subscribed, feed>>

HandlerInit ==
  /\ recentTrades = << >>
  /\ recentReports = << >>
  /\ subscribed = FALSE
  /\ feed = << >>

\* on_match_event, the callback's calls included.
FirstTradeOnly(trades, reports) ==
  /\ recentTrades' = recentTrades \o trades
  /\ recentReports' = recentReports \o reports
  /\ feed' = IF subscribed /\ trades # << >> THEN Append(feed, Head(trades)) ELSE feed
  /\ UNCHANGED subscribed

OnMatchEvent(trades, reports) ==
  /\ recentTrades' = recentTrades \o trades
  /\ recentReports' = recentReports \o reports
  /\ feed' = IF subscribed THEN feed \o trades ELSE feed
  /\ UNCHANGED subscribed

Clear ==
  /\ recentTrades' = << >>
  /\ recentReports' = << >>
  /\ UNCHANGED <<subscribed, feed>>

SetTradeCallback ==
  /\ subscribed' = TRUE
  /\ UNCHANGED <<recentTrades, recentReports, feed>>
=============================================================================
