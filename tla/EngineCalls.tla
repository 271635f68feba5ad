----------------------------- MODULE EngineCalls -----------------------------
(***************************************************************************)
(* A call of process_order or cancel_order as a run of steps, in the form  *)
(* that MatchingEngine and ReferenceEngine share: its arguments, its place *)
(* in the code, and the MatchEvent it builds.                              *)
(***************************************************************************)
EXTENDS Events

CONSTANTS
  Orders,      \* the IncomingOrders callers may submit, malformed ones included
  ReuseIds     \* may a caller submit an id that a resting order still has?

ASSUME OrdersAssumption == Orders \subseteq IncomingOrder /\ ReuseIds \in BOOLEAN

OrderIds == {o.id : o \in Orders}

VARIABLES
  pc,          \* "idle", "match" (outer loop), "level" (inner loop), "done"
  op,          \* the call in progress: "none", "process", "cancel"
  taker,       \* process_order's argument; for cancel_order only its id counts
  left,        \* incoming.quantity, what the taker has still to fill
  trades,      \* event.trades
  reports      \* event.reports

argVars == <<op, taker>>
eventVars == <<trades, reports>>
callVars == <<argVars, pc, left, eventVars>>

NoCall ==
  /\ pc = "idle"
  /\ op = "none"
  /\ taker = NoOrder
  /\ left = 0
  /\ trades = << >>
  /\ reports = << >>

Contra == Opposite(taker.side)

-----------------------------------------------------------------------------
EnterProcess(o) ==
  /\ pc = "idle"
  /\ op' = "process"
  /\ taker' = o
  /\ left' = o.quantity
  /\ UNCHANGED trades

TurnAway(o) ==
  /\ reports' = <<Report(o.id, "Cancelled", o.side, o.price, 0, o.quantity)>>
  /\ pc' = "done"

StartMatching ==
  /\ pc' = "match"
  /\ UNCHANGED reports

\* One pass of the inner loop: a trade with the order at the front.
TradeWith(maker, quantity) ==
  /\ trades' = Append(trades, Trade(taker, maker, quantity))
  /\ left' = left - quantity

KeepSilent(maker) == UNCHANGED reports

ReportFilled(maker) ==
  reports' = Append(reports, Report(maker.id, "Filled", Contra, maker.price, maker.quantity, 0))

ShouldRest == left > 0 /\ taker.type = "Limit"

\* The end of process_order.
ReportTaker(status) ==
  /\ reports' = Append(reports, Report(taker.id, status, taker.side, taker.price,
                                       taker.quantity - left, left))
  /\ pc' = "done"

EnterCancel(id) ==
  /\ pc = "idle"
  /\ op' = "cancel"
  /\ taker' = [NoOrder EXCEPT !.id = id]
  /\ pc' = "done"
  /\ UNCHANGED <<left, trades>>

ReportCancelled(order) ==
  reports' = <<Report(order.id, "Cancelled", order.side, order.price,
                      order.quantity - order.remaining, order.remaining)>>

\* The caller takes the MatchEvent; the call's locals go out of scope.
EndCall ==
  /\ pc = "done"
  /\ pc' = "idle"
  /\ op' = "none"
  /\ taker' = NoOrder
  /\ left' = 0
  /\ trades' = << >>
  /\ reports' = << >>

-----------------------------------------------------------------------------
CallTypeOK ==
  /\ pc \in {"idle", "match", "level", "done"}
  /\ op \in {"none", "process", "cancel"}
  /\ taker \in IncomingOrder
  /\ left \in Int
  /\ trades \in Seq(TradeType)
  /\ reports \in Seq(ReportType)
=============================================================================
