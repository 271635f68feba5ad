------------------------------- MODULE Pipeline -------------------------------
(***************************************************************************)
(* The parts together, as the repository's README draws them: an ingress   *)
(* thread that submits orders through the OrderGateway, the SPSCQueue (by  *)
(* its abstraction BoundedFifo), and the thread of the MatchingEngine,     *)
(* which takes an order from the queue, or submits one directly, or        *)
(* cancels, and hands every MatchEvent to the MarketDataHandler.           *)
(*                                                                         *)
(* `sent', `received' and `told' are history variables.                    *)
(***************************************************************************)
EXTENDS MatchingEngine, OrderGateway, MarketDataHandler, MarketSnapshot

CONSTANT QueueCapacity

\* The engine meets client orders as the gateway numbers them.
ASSUME StampedAssumption ==
  \A o \in ClientOrders, number \in 1 .. MaxSubmissions : Stamp(o, number) \in Orders

VARIABLES
  waiting,     \* the orders in the queue
  sent,        \* all that went into it
  received,    \* all that came out
  headView,    \* the head_ that the producer has last loaded
  told         \* told[id]: the last report of that order, or NoReport

Queue == INSTANCE BoundedFifo WITH Capacity <- QueueCapacity, Items <- Orders

queueVars == <<waiting, sent, received, headView>>
ingressVars == <<gatewayVars, queueVars>>
pipelineVars == <<vars, ingressVars, handlerVars, told>>

NoReport == Report(0, "New", "Buy", 0, 0, 0)

PipelineInit ==
  /\ Init
  /\ GatewayInit
  /\ HandlerInit
  /\ Queue!Init
  /\ headView = 0
  /\ told = [id \in OrderIds |-> NoReport]

-----------------------------------------------------------------------------
\* Clients use an id once, unless the queue refused the order: they try again.
Fresh(id) ==
  /\ told[id] = NoReport
  /\ ~(op = "process" /\ taker.id = id)
  /\ \A k \in DOMAIN sent : sent[k].id # id

(***************************************************************************)
(* The ingress thread.                                                     *)
(***************************************************************************)
TakeNumber(o) ==
  /\ Fresh(o.id)
  /\ BeginSubmit(o)
  /\ UNCHANGED <<vars, queueVars, handlerVars, told>>

\* try_push may go by an old head_ and refuse an order although there is room.
Push(h) ==
  /\ h \in headView .. Len(received)
  /\ headView' = h
  /\ EndSubmit
  /\ IF Len(sent) - h < QueueCapacity THEN Queue!Push(inFlight)
     ELSE UNCHANGED <<waiting, sent, received>>
  /\ UNCHANGED <<vars, handlerVars, told>>

(***************************************************************************)
(* The engine's thread.                                                    *)
(***************************************************************************)
Pop ==
  /\ Queue!Pop
  /\ Submit(Head(waiting))
  /\ UNCHANGED <<gatewayVars, headView, handlerVars, told>>

\* submit_direct: the order overtakes those in the queue, and is not validated.
SubmitDirect(o) ==
  /\ Fresh(o.id)
  /\ inFlight # NoOrder => o.id # inFlight.id
  /\ FetchAdd
  /\ Submit(Stamp(o, nextSequence))
  /\ UNCHANGED <<inFlight, queueVars, handlerVars, told>>

Cancel(id) ==
  /\ CancelUnknown(id) \/ CancelKnown(id)
  /\ UNCHANGED <<ingressVars, handlerVars, told>>

Advance ==
  /\ Match \/ Conclude \/ Rest
  /\ UNCHANGED <<ingressVars, handlerVars, told>>

\* The last report about the id in this event.
News(id) ==
  LET about == {k \in DOMAIN reports : reports[k].id = id}
  IN IF about = {} THEN told[id] ELSE reports[Max(about)]

Publish ==
  /\ Return
  /\ OnMatchEvent(trades, reports)
  /\ told' = [id \in OrderIds |-> News(id)]
  /\ UNCHANGED ingressVars

ClearRecent ==
  /\ pc = "idle"
  /\ Clear
  /\ UNCHANGED <<vars, ingressVars, told>>

\* The callback is part of the set-up: it may not change while events come in.
Subscribe ==
  /\ nextSequence = 1
  /\ SetTradeCallback
  /\ UNCHANGED <<vars, ingressVars, told>>

-----------------------------------------------------------------------------
PipelineNext ==
  \/ \E o \in ClientOrders : TakeNumber(o)
  \/ \E h \in 0 .. MaxSubmissions : Push(h)
  \/ Pop
  \/ \E o \in ClientOrders : SubmitDirect(o)
  \/ \E id \in OrderIds : Cancel(id)
  \/ Advance
  \/ Publish
  \/ ClearRecent
  \/ Subscribe

PipelineSpec == PipelineInit /\ [][PipelineNext]_pipelineVars

\* The engine's thread finishes what it has begun and does not only cancel: it
\* comes back to the queue again and again.
PipelineFairness ==
  /\ WF_pipelineVars(Advance)
  /\ WF_pipelineVars(Publish)
  /\ SF_pipelineVars(Pop)

PipelineFairSpec == PipelineSpec /\ PipelineFairness

-----------------------------------------------------------------------------
(***************************************************************************)
(* Properties                                                              *)
(***************************************************************************)
\* The queued orders' way: through the engine, waiting, about to be pushed.
Line == received \o waiting \o (IF inFlight = NoOrder THEN << >> ELSE <<inFlight>>)

\* The queue's orders carry increasing numbers, from the first the engine took to
\* the one about to be pushed, although refused and direct orders use up numbers.
InSequence ==
  \A j, k \in DOMAIN Line :
    /\ Line[k].timestamp < nextSequence
    /\ j < k => Line[j].timestamp < Line[k].timestamp

Queued(s) == \E k \in DOMAIN received : received[k].timestamp = orders[s].timestamp

\* Time priority is by number: of two orders at one level that came through the
\* queue, the one the gateway saw first stands first.  Direct orders are exempt.
FirstNumberedFirst ==
  \A side \in Sides, i \in Levels :
    LET queue == queues[side][i] IN
    \A j, k \in DOMAIN queue :
      j < k /\ Queued(queue[j]) /\ Queued(queue[k]) =>
        orders[queue[j]].timestamp < orders[queue[k]].timestamp

\* An order that the gateway let pass is never rejected by the engine, which
\* validates a second time and by other rules.
ValidatedIsMatched ==
  op = "process" /\ (\E k \in DOMAIN received : received[k] = taker) => ValidateOrder(taker)

\* What the subscriber has heard of an order's trades.
Heard(id) ==
  Total([k \in DOMAIN feed |->
           IF feed[k].buy = id \/ feed[k].sell = id THEN feed[k].quantity ELSE 0])

\* Between events the reports and the book tell the same story: an order rests
\* exactly when the last report of it says so, also after fills that its owner is
\* not sent a report of, and after a cancel that came before its order.
LastReportHolds ==
  pc = "idle" =>
    \A id \in OrderIds : told[id].status = "Resting" <=> id \in RestingIds

\* A subscriber can keep the book by its feed: what it heard of an order's trades
\* is what a resting order has lost and what the last report of an order that is
\* gone says it filled.  recent_trades_ is the end of that feed.
FeedReconciles ==
  pc = "idle" /\ subscribed =>
    /\ IsSuffix(recentTrades, feed)
    /\ \A id \in OrderIds :
         IF id \in RestingIds
         THEN Heard(id) = orders[orderMap[id]].quantity - orders[orderMap[id]].remaining
         ELSE Heard(id) = told[id].filled

\* Every order that went into the queue is answered.
EveryOrderAnswered ==
  \A id \in OrderIds :
    (\E k \in DOMAIN sent : sent[k].id = id) ~> told[id] # NoReport
=============================================================================
