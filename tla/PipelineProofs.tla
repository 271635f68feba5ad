---------------------------- MODULE PipelineProofs ----------------------------
(***************************************************************************)
(* Proofs about Pipeline.  Whatever the gateway, the queue and the handler *)
(* do, the engine in the pipeline behaves as MatchingEngine says, so what  *)
(* is proved of it holds here too; and the queue's orders reach it valid   *)
(* and in the order of their numbers, for every capacity of the queue and  *)
(* whatever orders clients submit.                                         *)
(***************************************************************************)
EXTENDS Pipeline, MatchingEngineProofs

\* What is on its way is orders, as the gateway numbers them.
FlowTypeOK ==
  /\ nextSequence \in Nat \ {0}
  /\ inFlight \in Orders \cup {NoOrder}
  /\ waiting \in Seq(Orders)
  /\ received \in Seq(Orders)

LEMMA StampProperties ==
  ASSUME NEW o \in ClientOrders, NEW n \in Nat \ {0}
  PROVE  /\ Stamp(o, n).timestamp = n
         /\ Stamp(o, n) # NoOrder
         /\ Validate(o) => Validate(Stamp(o, n))
         /\ n <= MaxSubmissions => Stamp(o, n) \in Orders
<1>1. o \in IncomingOrder
  BY GatewayAssumption
<1>2. n <= MaxSubmissions => n \in 1 .. MaxSubmissions
  BY GatewayAssumption
<1>3. n <= MaxSubmissions => Stamp(o, n) \in Orders
  BY <1>2, StampedAssumption
<1> QED
  BY <1>1, <1>3 DEF Stamp, Validate, IncomingOrder, NoOrder

LEMMA InitFlow == PipelineInit => FlowTypeOK
BY DEF PipelineInit, GatewayInit, Queue!Init, FlowTypeOK

\* The queue's end of a push and of a pop.
LEMMA PushedAndPopped ==
  ASSUME FlowTypeOK
  PROVE  /\ \A h : Push(h) => FlowTypeOK'
         /\ Pop => FlowTypeOK' /\ Head(waiting) \in Orders
<1>1. ASSUME NEW h, Push(h)
      PROVE  FlowTypeOK'
  <2>1. inFlight \in Orders
    BY <1>1 DEF Push, EndSubmit, FlowTypeOK
  <2>2. waiting' \in Seq(Orders) /\ received' = received
    BY <1>1, <2>1, AppendType DEF Push, Queue!Push, FlowTypeOK
  <2> QED
    BY <1>1, <2>2 DEF Push, EndSubmit, FlowTypeOK
<1>2. ASSUME Pop
      PROVE  FlowTypeOK' /\ Head(waiting) \in Orders
  <2>1. waiting # << >> /\ waiting \in Seq(Orders)
    BY <1>2 DEF Pop, Queue!Pop, FlowTypeOK
  <2>2. Head(waiting) \in Orders /\ Tail(waiting) \in Seq(Orders)
    BY <2>1, HeadTailProperties
  <2>3. received' \in Seq(Orders)
    BY <1>2, <2>2, AppendType DEF Pop, Queue!Pop, FlowTypeOK
  <2> QED
    BY <1>2, <2>2, <2>3 DEF Pop, Queue!Pop, FlowTypeOK, gatewayVars
<1> QED
  BY <1>1, <1>2

LEMMA NextFlow == FlowTypeOK /\ [PipelineNext]_pipelineVars => FlowTypeOK'
<1> SUFFICES ASSUME FlowTypeOK, [PipelineNext]_pipelineVars
             PROVE  FlowTypeOK'
  OBVIOUS
<1>1. ASSUME NEW o \in ClientOrders, TakeNumber(o)
      PROVE  FlowTypeOK'
  BY <1>1, StampProperties DEF TakeNumber, BeginSubmit, FetchAdd, FlowTypeOK, queueVars
<1>2. ASSUME NEW o \in ClientOrders, SubmitDirect(o)
      PROVE  FlowTypeOK'
  BY <1>2 DEF SubmitDirect, FetchAdd, FlowTypeOK, queueVars
<1>3. CASE Pop \/ \E h \in 0 .. MaxSubmissions : Push(h)
  BY <1>3, PushedAndPopped
<1>4. CASE UNCHANGED ingressVars
  BY <1>4 DEF FlowTypeOK, ingressVars, gatewayVars, queueVars
<1>5. CASE \/ \E id \in OrderIds : Cancel(id)
           \/ Advance \/ Publish \/ ClearRecent \/ Subscribe
  BY <1>4, <1>5 DEF Cancel, Advance, Publish, ClearRecent, Subscribe
<1>6. CASE UNCHANGED pipelineVars
  BY <1>4, <1>6 DEF pipelineVars
<1> QED
  BY <1>1, <1>2, <1>3, <1>5, <1>6 DEF PipelineNext

-----------------------------------------------------------------------------
\* A step of the pipeline is a step of the engine or leaves it alone.
LEMMA StepsOfTheEngine == FlowTypeOK /\ [PipelineNext]_pipelineVars => [Next]_vars
<1> SUFFICES ASSUME FlowTypeOK, [PipelineNext]_pipelineVars
             PROVE  [Next]_vars
  OBVIOUS
<1>1. ASSUME NEW o \in ClientOrders, SubmitDirect(o)
      PROVE  Next
  BY <1>1, StampProperties DEF SubmitDirect, FetchAdd, FlowTypeOK, Next
<1>2. CASE Pop
  BY <1>2, PushedAndPopped DEF Pop, Next
<1>3. CASE Advance \/ Publish \/ \E id \in OrderIds : Cancel(id)
  BY <1>3 DEF Advance, Publish, Cancel, Next
<1>4. CASE \/ \E o \in ClientOrders : TakeNumber(o)
           \/ \E h \in 0 .. MaxSubmissions : Push(h)
           \/ ClearRecent \/ Subscribe
  BY <1>4 DEF TakeNumber, Push, ClearRecent, Subscribe
<1>5. CASE UNCHANGED pipelineVars
  BY <1>5 DEF pipelineVars
<1> QED
  BY <1>1, <1>2, <1>3, <1>4, <1>5 DEF PipelineNext

THEOREM FlowCorrect == PipelineSpec => []FlowTypeOK
BY InitFlow, NextFlow, PTL DEF PipelineSpec

\* The pipeline adds nothing to what the engine does: in particular the queue only
\* ever gives it orders it may be given.
THEOREM EngineInPipeline == PipelineSpec => Spec
<1>1. PipelineInit => Init
  BY DEF PipelineInit
<1> QED
  BY <1>1, StepsOfTheEngine, FlowCorrect, PTL DEF PipelineSpec, Spec

-----------------------------------------------------------------------------
(***************************************************************************)
(* The order of the queue's orders.  Seen as one line from the engine back *)
(* to the gateway, they stay where they are when one is pushed or popped:  *)
(* the line grows at its end by the next number, and loses its last order  *)
(* when the queue refuses it.                                              *)
(***************************************************************************)
LineOf(in, queue, out) == out \o queue \o (IF in = NoOrder THEN << >> ELSE <<in>>)

LEMMA LineAfter == Line' = LineOf(inFlight', waiting', received')
BY DEF Line, LineOf

LEMMA LineOfType ==
  ASSUME NEW in \in Orders \cup {NoOrder}, NEW queue \in Seq(Orders), NEW out \in Seq(Orders)
  PROVE  LineOf(in, queue, out) \in Seq(Orders)
<1> DEFINE last == IF in = NoOrder THEN << >> ELSE <<in>>
<1>1. last \in Seq(Orders)
  OBVIOUS
<1> HIDE DEF last
<1>2. out \o queue \in Seq(Orders)
  BY ConcatProperties
<1>3. (out \o queue) \o last \in Seq(Orders)
  BY <1>1, <1>2, ConcatProperties
<1> QED
  BY <1>3 DEF LineOf, last

LEMMA LineType ==
  /\ FlowTypeOK => Line \in Seq(Orders)
  /\ FlowTypeOK' => Line' \in Seq(Orders)
<1>1. Line = LineOf(inFlight, waiting, received)
  BY DEF Line, LineOf
<1> QED
  BY <1>1, LineAfter, LineOfType DEF FlowTypeOK

LEMMA HeadThenTail ==
  ASSUME NEW S, NEW seq \in Seq(S), seq # << >>
  PROVE  <<Head(seq)>> \o Tail(seq) = seq
<1>1. /\ Head(seq) \in S
      /\ Tail(seq) \in Seq(S)
      /\ Len(Tail(seq)) = Len(seq) - 1
      /\ \A i \in 1 .. Len(Tail(seq)) : Tail(seq)[i] = seq[i + 1]
  BY HeadTailProperties
<1>2. Len(seq) \in Nat \ {0} /\ Head(seq) = seq[1]
  BY EmptySeq
<1> DEFINE first == <<Head(seq)>>
           rest == Tail(seq)
<1>3. first \in Seq(S) /\ Len(first) = 1 /\ first[1] = seq[1]
  BY <1>1, <1>2
<1>4. rest \in Seq(S) /\ Len(rest) = Len(seq) - 1
      /\ \A i \in 1 .. Len(rest) : rest[i] = seq[i + 1]
  BY <1>1
<1> HIDE DEF first, rest
<1>5. /\ first \o rest \in Seq(S)
      /\ Len(first \o rest) = Len(first) + Len(rest)
      /\ \A i \in 1 .. Len(first) + Len(rest) :
           (first \o rest)[i] = IF i <= Len(first) THEN first[i] ELSE rest[i - Len(first)]
  <2>1. first \in Seq(S) /\ rest \in Seq(S)
    BY <1>3, <1>4
  <2> QED
    BY <2>1, ConcatProperties
<1>6. Len(first \o rest) = Len(seq)
  BY <1>2, <1>3, <1>4, <1>5
<1>7. \A i \in 1 .. Len(seq) : (first \o rest)[i] = seq[i]
  BY <1>2, <1>3, <1>4, <1>5
<1>8. first \o rest = seq
  BY <1>5, <1>6, <1>7, SeqEqual
<1> QED
  BY <1>8 DEF first, rest

\* A pop moves an order along the line.
LEMMA PopKeepsLine == FlowTypeOK /\ Pop => Line' = Line
<1> SUFFICES ASSUME FlowTypeOK, Pop
             PROVE  Line' = Line
  OBVIOUS
<1>1. /\ waiting \in Seq(Orders) /\ waiting # << >> /\ received \in Seq(Orders)
      /\ received' = Append(received, Head(waiting))
      /\ waiting' = Tail(waiting)
      /\ inFlight' = inFlight
  BY DEF Pop, Queue!Pop, FlowTypeOK, gatewayVars
<1>2. Head(waiting) \in Orders /\ Tail(waiting) \in Seq(Orders)
  BY <1>1, HeadTailProperties
<1>3. Append(received, Head(waiting)) = received \o <<Head(waiting)>>
  BY <1>1, <1>2, AppendIsConcat
<1>4. <<Head(waiting)>> \in Seq(Orders)
  BY <1>2
<1>5. (received \o <<Head(waiting)>>) \o Tail(waiting) =
      received \o (<<Head(waiting)>> \o Tail(waiting))
  BY <1>1, <1>2, <1>4, ConcatAssociative
<1>6. received' \o waiting' = received \o waiting
  BY <1>1, <1>3, <1>5, HeadThenTail
<1> QED
  BY <1>1, <1>6, LineAfter DEF LineOf, Line

\* A push moves the last order of the line into the queue, or loses it.
LEMMA PushOnLine ==
  ASSUME FlowTypeOK, NEW h, Push(h)
  PROVE  \/ Line' = Line
         \/ \E x \in Orders : Line' \in Seq(Orders) /\ Line = Append(Line', x)
<1> DEFINE before == received \o waiting
<1>1. /\ inFlight \in Orders /\ inFlight # NoOrder /\ inFlight' = NoOrder
      /\ waiting \in Seq(Orders) /\ received \in Seq(Orders)
  BY DEF Push, EndSubmit, FlowTypeOK
<1>2. before \in Seq(Orders)
  BY <1>1, ConcatProperties
<1>3. Line = before \o <<inFlight>>
  BY <1>1 DEF Line
<1>4. CASE UNCHANGED <<waiting, sent, received>>
  <2>1. Line' = before \o << >>
    BY <1>1, <1>4, LineAfter DEF LineOf
  <2> HIDE DEF before
  <2>2. Line' = before
    BY <1>2, <2>1, ConcatEmptySeq
  <2>3. Line = Append(Line', inFlight)
    BY <1>1, <1>2, <1>3, <2>2, AppendIsConcat
  <2> QED
    BY <1>1, <1>2, <2>2, <2>3
<1>5. CASE Queue!Push(inFlight)
  <2>1. waiting' = Append(waiting, inFlight) /\ received' = received
    BY <1>5 DEF Queue!Push
  <2>2. Append(waiting, inFlight) = waiting \o <<inFlight>> /\ <<inFlight>> \in Seq(Orders)
    BY <1>1, AppendIsConcat
  <2>3. received \o (waiting \o <<inFlight>>) = (received \o waiting) \o <<inFlight>>
    BY <1>1, <2>2, ConcatAssociative
  <2>4. Line' = (received' \o waiting') \o << >>
    BY <1>1, LineAfter DEF LineOf
  <2>5. Line' = (before \o <<inFlight>>) \o << >>
    BY <2>1, <2>2, <2>3, <2>4
  <2>6. before \o <<inFlight>> \in Seq(Orders)
    BY <1>2, <2>2, ConcatProperties
  <2> HIDE DEF before
  <2> QED
    BY <1>3, <2>5, <2>6, ConcatEmptySeq
<1> QED
  BY <1>4, <1>5 DEF Push

\* submit puts its order at the end of the line.
LEMMA TakeNumberOnLine ==
  ASSUME FlowTypeOK, NEW o \in ClientOrders, TakeNumber(o)
  PROVE  LET stamped == Stamp(o, nextSequence) IN
         /\ stamped \in Orders /\ Validate(stamped)
         /\ stamped.timestamp = nextSequence
         /\ nextSequence' = nextSequence + 1
         /\ Line' = Append(Line, stamped)
<1> DEFINE stamped == Stamp(o, nextSequence)
           before == received \o waiting
<1>1. /\ inFlight = NoOrder /\ inFlight' = stamped /\ Validate(o)
      /\ nextSequence <= MaxSubmissions /\ nextSequence' = nextSequence + 1
      /\ nextSequence \in Nat \ {0}
      /\ waiting' = waiting /\ received' = received
      /\ waiting \in Seq(Orders) /\ received \in Seq(Orders)
  BY DEF TakeNumber, BeginSubmit, FetchAdd, FlowTypeOK, queueVars
<1>2. stamped \in Orders /\ Validate(stamped) /\ stamped # NoOrder
      /\ stamped.timestamp = nextSequence
  BY <1>1, StampProperties
<1> HIDE DEF stamped
<1>3. before \in Seq(Orders)
  BY <1>1, ConcatProperties
<1>4. Line = before \o << >>
  BY <1>1 DEF Line
<1>5. Line' = before \o <<stamped>>
  BY <1>1, <1>2, LineAfter DEF LineOf
<1> HIDE DEF before
<1>6. Line = before
  BY <1>3, <1>4, ConcatEmptySeq
<1>7. Line' = Append(Line, stamped)
  BY <1>2, <1>3, <1>5, <1>6, AppendIsConcat
<1> QED
  BY <1>1, <1>2, <1>7 DEF stamped

\* The invariant: the line is valid and numbered upwards.
LineInv == InSequence /\ \A k \in DOMAIN Line : Validate(Line[k])

\* The same of any line and any next number.
LineOK(line, number) ==
  \A j, k \in 1 .. Len(line) :
    /\ line[k].timestamp < number
    /\ j < k => line[j].timestamp < line[k].timestamp
    /\ Validate(line[k])

LEMMA LineInvIsLineOK == FlowTypeOK => (LineInv <=> LineOK(Line, nextSequence))
<1> SUFFICES ASSUME FlowTypeOK
             PROVE  LineInv <=> LineOK(Line, nextSequence)
  OBVIOUS
<1>1. DOMAIN Line = 1 .. Len(Line)
  BY LineType
<1> QED
  BY <1>1 DEF LineInv, InSequence, LineOK

LEMMA LineInvIsLineOKAfter == FlowTypeOK' => (LineInv' <=> LineOK(Line', nextSequence'))
<1> SUFFICES ASSUME FlowTypeOK'
             PROVE  LineInv' <=> LineOK(Line', nextSequence')
  OBVIOUS
<1>1. DOMAIN Line' = 1 .. Len(Line')
  BY LineType
<1> QED
  BY <1>1 DEF LineInv, InSequence, LineOK

LEMMA OrderStamps == \A o \in Orders : o.timestamp \in Nat
BY OrdersAssumption DEF IncomingOrder

\* The line grows by the next number, and shrinks at its end.
LEMMA LineGrows ==
  ASSUME NEW line \in Seq(Orders), NEW n \in Nat, LineOK(line, n),
         NEW x \in Orders, x.timestamp = n, Validate(x)
  PROVE  LineOK(Append(line, x), n + 1)
<1> DEFINE len == Len(line)
           longer == Append(line, x)
<1>1. /\ len \in Nat /\ Len(longer) = len + 1 /\ longer[len + 1] = x
      /\ \A k \in 1 .. len : longer[k] = line[k]
  OBVIOUS
<1>2. \A k \in 1 .. len : line[k] \in Orders
  OBVIOUS
<1> HIDE DEF longer
<1>3. ASSUME NEW j \in 1 .. len + 1, NEW k \in 1 .. len + 1
      PROVE  /\ longer[k].timestamp < n + 1
             /\ j < k => longer[j].timestamp < longer[k].timestamp
             /\ Validate(longer[k])
  <2>1. CASE k = len + 1
    <3>1. longer[k] = x
      BY <1>1, <2>1
    <3>2. j < k => j \in 1 .. len
      BY <1>1, <2>1
    <3>3. j < k => longer[j].timestamp < n
      BY <1>1, <3>2 DEF LineOK
    <3> QED
      BY <3>1, <3>3
  <2>2. CASE k # len + 1
    <3>1. k \in 1 .. len /\ (j < k => j \in 1 .. len)
      BY <1>1, <2>2
    <3>2. line[k].timestamp \in Nat /\ line[k].timestamp < n
      BY <1>2, <3>1, OrderStamps DEF LineOK
    <3>3. longer[k] = line[k] /\ (j < k => longer[j] = line[j])
      BY <1>1, <3>1
    <3>4. longer[k].timestamp < n + 1
      BY <3>2, <3>3
    <3>5. j < k => longer[j].timestamp < longer[k].timestamp
      BY <3>1, <3>3 DEF LineOK
    <3>6. Validate(longer[k])
      BY <3>1, <3>3 DEF LineOK
    <3> QED
      BY <3>4, <3>5, <3>6
  <2> QED
    BY <2>1, <2>2
<1>4. LineOK(longer, n + 1)
  BY <1>1, <1>3 DEF LineOK
<1> QED
  BY <1>4 DEF longer

LEMMA LineShrinks ==
  ASSUME NEW line \in Seq(Orders), NEW n, NEW x, LineOK(Append(line, x), n)
  PROVE  LineOK(line, n)
<1>1. /\ Len(line) \in Nat /\ Len(Append(line, x)) = Len(line) + 1
      /\ \A k \in 1 .. Len(line) : Append(line, x)[k] = line[k]
  OBVIOUS
<1>2. \A k \in 1 .. Len(line) : k \in 1 .. Len(Append(line, x))
  BY <1>1
<1> QED
  BY <1>1, <1>2 DEF LineOK

\* Numbers used up by direct orders leave gaps only.
LEMMA LineSpreads ==
  ASSUME NEW line \in Seq(Orders), NEW n \in Nat, LineOK(line, n)
  PROVE  LineOK(line, n + 1)
<1>1. \A k \in 1 .. Len(line) : line[k].timestamp \in Nat
  BY OrderStamps
<1> QED
  BY <1>1 DEF LineOK

LEMMA NextKeepsLine == FlowTypeOK /\ LineInv /\ [PipelineNext]_pipelineVars => LineInv'
<1> SUFFICES ASSUME FlowTypeOK, LineInv, [PipelineNext]_pipelineVars
             PROVE  LineInv'
  OBVIOUS
<1>1. FlowTypeOK'
  BY NextFlow
<1>2. LineOK(Line, nextSequence) /\ Line \in Seq(Orders) /\ nextSequence \in Nat
  BY LineInvIsLineOK, LineType DEF FlowTypeOK
<1> SUFFICES LineOK(Line', nextSequence')
  BY <1>1, LineInvIsLineOKAfter
<1>3. ASSUME NEW o \in ClientOrders, TakeNumber(o)
      PROVE  LineOK(Line', nextSequence')
  BY <1>2, <1>3, TakeNumberOnLine, LineGrows
<1>4. ASSUME NEW h, Push(h)
      PROVE  LineOK(Line', nextSequence')
  <2>1. nextSequence' = nextSequence
    BY <1>4 DEF Push, EndSubmit
  <2> QED
    BY <1>2, <1>4, <2>1, PushOnLine, LineShrinks
<1>5. CASE Pop
  <2>1. nextSequence' = nextSequence
    BY <1>5 DEF Pop, gatewayVars
  <2> QED
    BY <1>2, <1>5, <2>1, PopKeepsLine
<1>6. ASSUME NEW o \in ClientOrders, SubmitDirect(o)
      PROVE  LineOK(Line', nextSequence')
  <2>1. Line' = Line /\ nextSequence' = nextSequence + 1
    BY <1>6, LineAfter DEF SubmitDirect, FetchAdd, queueVars, LineOf, Line
  <2> QED
    BY <1>2, <2>1, LineSpreads
<1>7. CASE UNCHANGED ingressVars
  BY <1>2, <1>7, LineAfter DEF ingressVars, gatewayVars, queueVars, LineOf, Line
<1>8. CASE \/ \E id \in OrderIds : Cancel(id)
           \/ Advance \/ Publish \/ ClearRecent \/ Subscribe
  BY <1>7, <1>8 DEF Cancel, Advance, Publish, ClearRecent, Subscribe
<1>9. CASE UNCHANGED pipelineVars
  BY <1>7, <1>9 DEF pipelineVars
<1> QED
  BY <1>3, <1>4, <1>5, <1>6, <1>8, <1>9 DEF PipelineNext

THEOREM LineCorrect == PipelineSpec => []LineInv
<1>1. PipelineInit => LineInv
  <2> SUFFICES ASSUME PipelineInit
               PROVE  LineInv
    OBVIOUS
  <2>1. Line = (<< >> \o << >>) \o << >>
    BY DEF PipelineInit, GatewayInit, Queue!Init, Line
  <2>2. Line = << >>
    BY <2>1
  <2> QED
    BY <2>2 DEF LineInv, InSequence
<1> QED
  BY <1>1, NextKeepsLine, FlowCorrect, PTL DEF PipelineSpec

\* Orders come out of the queue in the order of their numbers, each number once.
THEOREM SequenceCorrect == PipelineSpec => []InSequence
<1>1. LineInv => InSequence
  BY DEF LineInv
<1> QED
  BY <1>1, LineCorrect, PTL

\* What the gateway lets pass the engine matches: no capacity, price or type of
\* order makes the two validations disagree on an order that came by the queue.
THEOREM ValidationCorrect == PipelineSpec => []ValidatedIsMatched
<1>1. FlowTypeOK /\ LineInv => ValidatedIsMatched
  <2> SUFFICES ASSUME FlowTypeOK, LineInv, NEW k \in DOMAIN received, received[k] = taker
               PROVE  ValidateOrder(taker)
    BY DEF ValidatedIsMatched
  <2> DEFINE last == IF inFlight = NoOrder THEN << >> ELSE <<inFlight>>
  <2>1. received \in Seq(Orders) /\ waiting \in Seq(Orders) /\ last \in Seq(Orders)
    BY DEF FlowTypeOK
  <2>2. Line = (received \o waiting) \o last
    BY DEF Line
  <2> HIDE DEF last
  <2>3. k \in 1 .. Len(received) /\ Len(received) \in Nat /\ Len(waiting) \in Nat
        /\ Len(last) \in Nat
    BY <2>1
  <2>4. /\ received \o waiting \in Seq(Orders)
        /\ Len(received \o waiting) = Len(received) + Len(waiting)
        /\ (received \o waiting)[k] = received[k]
    BY <2>1, <2>3, ConcatProperties
  <2>5. Line[k] = received[k] /\ k \in DOMAIN Line
    <3> DEFINE both == received \o waiting
    <3>1. both \in Seq(Orders) /\ k \in 1 .. Len(both) /\ Len(both) \in Nat
      BY <2>3, <2>4
    <3> HIDE DEF both
    <3>2. Len(both \o last) = Len(both) + Len(last) /\ both \o last \in Seq(Orders)
          /\ (both \o last)[k] = both[k]
      BY <2>1, <2>3, <3>1, ConcatProperties
    <3>3. k \in DOMAIN (both \o last)
      BY <2>3, <3>1, <3>2
    <3>4. Line = both \o last
      BY <2>2 DEF both
    <3>5. both[k] = received[k]
      BY <2>4 DEF both
    <3> QED
      BY <3>2, <3>3, <3>4, <3>5
  <2>6. Validate(taker)
    BY <2>5 DEF LineInv
  <2> QED
    BY <2>6 DEF Validate, ValidateOrder
<1> QED
  BY <1>1, LineCorrect, FlowCorrect, PTL
-----------------------------------------------------------------------------
(***************************************************************************)
(* Time priority by number.  An order that came through the queue has the  *)
(* highest number of all that did when it rests, and no number is given    *)
(* twice, so a direct order's number never turns up in the queue later.    *)
(***************************************************************************)
CameIn(out, t) == \E k \in DOMAIN out : out[k].timestamp = t

ComingIn(in, queue, t) ==
  \/ in # NoOrder /\ in.timestamp = t
  \/ \E k \in DOMAIN queue : queue[k].timestamp = t

\* A resting order's number has been given out and is not on its way any more.
RestingNumbers ==
  \A s \in Resting :
    /\ orders[s].timestamp < nextSequence
    /\ ~ComingIn(inFlight, waiting, orders[s].timestamp)

\* Nor is that of the order in the engine, which nobody who rests has; if it came
\* through the queue it is the last that did.
TakerNumber ==
  pc \in {"match", "level"} =>
    /\ taker.timestamp < nextSequence
    /\ ~ComingIn(inFlight, waiting, taker.timestamp)
    /\ \A s \in Resting : orders[s].timestamp # taker.timestamp
    /\ CameIn(received, taker.timestamp) =>
         \A k \in DOMAIN received : received[k].timestamp <= taker.timestamp

NumberInv == RestingNumbers /\ TakerNumber /\ FirstNumberedFirst

\* Orders may leave the queues; those that stay keep their numbers and their order.
Embeds(queue, r) ==
  \A j, k \in DOMAIN r : \E m, n \in DOMAIN queue :
    queue[m] = r[j] /\ queue[n] = r[k] /\ (j < k => m < n)

Thinned ==
  /\ \A s \in Slots : orders'[s].timestamp = orders[s].timestamp
  /\ \A side \in Sides, i \in Levels : Embeds(queues[side][i], queues'[side][i])

LEMMA WithoutThins ==
  ASSUME NEW S, NEW q \in Seq(S), IsInjective(q), NEW p \in 1 .. Len(q)
  PROVE  Embeds(q, Without(q, q[p]))
<1> DEFINE r == Without(q, q[p])
           at(x) == IF x < p THEN x ELSE x + 1
<1>1. /\ Len(q) \in Nat /\ DOMAIN q = 1 .. Len(q) /\ DOMAIN r = 1 .. Len(q) - 1
      /\ \A k \in 1 .. Len(q) - 1 : r[k] = IF k < p THEN q[k] ELSE q[k + 1]
  BY WithoutProperties
<1> HIDE DEF r
<1>2. \A x \in DOMAIN r : at(x) \in DOMAIN q /\ q[at(x)] = r[x]
  BY <1>1
<1>3. \A x, y \in DOMAIN r : x < y => at(x) < at(y)
  BY <1>1
<1> HIDE DEF at
<1>4. Embeds(q, r)
  BY <1>2, <1>3 DEF Embeds
<1> QED
  BY <1>4 DEF r

LEMMA RemovalThins ==
  ASSUME TypeOK, BookConsistent, NEW side \in Sides, NEW i \in Levels, NEW s \in Slots,
         InLevel(s, side, i), RemoveFrom(side, i, s),
         \A t \in Slots : orders'[t].timestamp = orders[t].timestamp
  PROVE  Thinned
<1> SUFFICES ASSUME NEW sd \in Sides, NEW lv \in Levels
             PROVE  Embeds(queues[sd][lv], queues'[sd][lv])
  BY DEF Thinned
<1>0. PICK q : q = queues[sd][lv]
  OBVIOUS
<1>1. queues'[sd][lv] = IF sd = side /\ lv = i THEN Without(q, s) ELSE q
  BY <1>0 DEF RemoveFrom, TypeOK, LadderTypeOK
<1>2. CASE ~(sd = side /\ lv = i)
  BY <1>0, <1>1, <1>2 DEF Embeds
<1>3. CASE sd = side /\ lv = i
  <2>1. q \in Seq(Slots) /\ IsInjective(q)
    BY <1>0, LevelTypes DEF BookConsistent
  <2>2. PICK p \in 1 .. Len(q) : q[p] = s
    BY <1>0, <1>3, <2>1, LenProperties DEF InLevel
  <2>3. Embeds(q, Without(q, q[p]))
    BY <2>1, WithoutThins
  <2> QED
    BY <1>0, <1>1, <1>3, <2>2, <2>3
<1> QED
  BY <1>2, <1>3

\* Every step of the engine but one thins its queues, if anything.
LEMMA MostStepsThin ==
  ASSUME TypeOK, CursorOK, BookInv, [Next]_vars, ~Rest
  PROVE  Thinned
<1>1. ASSUME UNCHANGED <<queues, orders>>
      PROVE  Thinned
  BY <1>1 DEF Thinned, Embeds
<1>2. CASE FillMaker
  <2> DEFINE s == FirstSlot
  <2>1. s \in Slots /\ Contra \in Sides /\ cursor \in Levels /\ InLevel(s, Contra, cursor)
    BY <1>2, FirstStandsFirst DEF FillMaker, BookInv
  <2>2. orders' = [orders EXCEPT ![s] = Reduced(orders[s], 0, "Filled")] /\ RemoveFrom(Contra, cursor, s)
    BY <1>2 DEF FillMaker
  <2>3. \A t \in Slots : orders'[t].timestamp = orders[t].timestamp
    BY <2>1, <2>2 DEF TypeOK, SlotType, Reduced
  <2> QED
    BY <2>1, <2>2, <2>3, RemovalThins DEF BookInv
<1>3. CASE FillTaker
  <2> DEFINE s == FirstSlot
  <2>1. s \in Slots
    BY <1>3, FirstIsSlot DEF FillTaker
  <2>2. \E r : orders' = [orders EXCEPT ![s] = Reduced(orders[s], r, "PartiallyFilled")]
    BY <1>3 DEF FillTaker
  <2>3. \A t \in Slots : orders'[t].timestamp = orders[t].timestamp
    BY <2>1, <2>2 DEF TypeOK, SlotType, Reduced
  <2>4. queues' = queues
    BY <1>3 DEF FillTaker, ladderVars, linkVars
  <2> QED
    BY <2>3, <2>4 DEF Thinned, Embeds
<1>4. ASSUME NEW id \in OrderIds, CancelKnown(id)
      PROVE  Thinned
  <2>1. PICK s \in Slots :
          /\ orders[s].side \in Sides /\ orders[s].price \in Levels
          /\ InLevel(s, orders[s].side, orders[s].price)
          /\ RemoveFrom(orders[s].side, orders[s].price, s)
          /\ UNCHANGED orders
    BY <1>4, CancelRemoves
  <2> QED
    BY <2>1, RemovalThins DEF BookInv
<1>5. CASE UNCHANGED bookVars
  BY <1>1, <1>5 DEF bookVars, ladderVars, linkVars
<1>6. CASE UNCHANGED vars
  BY <1>5, <1>6 DEF vars
<1>7. ASSUME NEW o \in Orders, Submit(o)
      PROVE  Thinned
  BY <1>5, <1>7 DEF Submit, Accept, Reject, Enter
<1>8. ASSUME NEW id \in OrderIds, CancelUnknown(id)
      PROVE  Thinned
  BY <1>5, <1>8 DEF CancelUnknown
<1>9. CASE BeginLevel \/ EndLevel \/ Conclude \/ Return
  BY <1>5, <1>9 DEF BeginLevel, EndLevel, Conclude, Return
<1> QED
  BY <1>2, <1>3, <1>4, <1>6, <1>7, <1>8, <1>9 DEF Next, Match

LEMMA RestAppends ==
  ASSUME PricesFit, TypeOK, PoolPermutation, BookConsistent, CallInv, Rest
  PROVE  \E slot \in Slots, side \in Sides, i \in Levels :
           /\ slot \notin Resting
           /\ orders'[slot].timestamp = taker.timestamp
           /\ \A t \in Slots \ {slot} : orders'[t] = orders[t]
           /\ queues' = [queues EXCEPT ![side][i] = Append(@, slot)]
<1>1. taker.side \in Sides /\ taker.price \in Levels
  BY RestPushes
<1>2. PICK slot \in Slots :
        /\ Allocate(slot)
        /\ PushBack(taker.side, taker.price, slot)
        /\ orders' = [orders EXCEPT ![slot] =
             [id |-> taker.id, side |-> taker.side, price |-> taker.price,
              quantity |-> taker.quantity, remaining |-> left,
              timestamp |-> taker.timestamp, status |-> "Resting"]]
  BY RestPushes
<1>3. slot \notin Resting
  BY <1>2, FreshSlot DEF Resting
<1>4. orders'[slot].timestamp = taker.timestamp /\ \A t \in Slots \ {slot} : orders'[t] = orders[t]
  BY <1>2 DEF TypeOK
<1>5. queues' = [queues EXCEPT ![taker.side][taker.price] = Append(@, slot)]
  BY <1>2 DEF PushBack
<1> QED
  BY <1>1, <1>3, <1>4, <1>5
\* Where the elements of two sequences are in the one they make.
LEMMA ConcatParts ==
  ASSUME NEW S, NEW a \in Seq(S), NEW b \in Seq(S)
  PROVE  /\ a \o b \in Seq(S) /\ Len(a) \in Nat /\ Len(b) \in Nat
         /\ Len(a \o b) = Len(a) + Len(b)
         /\ \A k \in DOMAIN a : k \in DOMAIN (a \o b) /\ (a \o b)[k] = a[k]
         /\ \A k \in DOMAIN b : Len(a) + k \in DOMAIN (a \o b) /\ (a \o b)[Len(a) + k] = b[k]
<1>1. /\ a \o b \in Seq(S) /\ Len(a \o b) = Len(a) + Len(b)
      /\ \A k \in 1 .. Len(a) + Len(b) :
           (a \o b)[k] = IF k <= Len(a) THEN a[k] ELSE b[k - Len(a)]
  BY ConcatProperties
<1>2. /\ Len(a) \in Nat /\ DOMAIN a = 1 .. Len(a)
      /\ Len(b) \in Nat /\ DOMAIN b = 1 .. Len(b)
  BY LenProperties
<1> DEFINE both == a \o b
<1>3. DOMAIN both = 1 .. Len(a) + Len(b)
  BY <1>1, LenProperties
<1>4. \A k \in 1 .. Len(a) + Len(b) : both[k] = IF k <= Len(a) THEN a[k] ELSE b[k - Len(a)]
  BY <1>1
<1> HIDE DEF both
<1>5. \A k \in DOMAIN a : k \in DOMAIN both /\ both[k] = a[k]
  BY <1>2, <1>3, <1>4
<1>6. ASSUME NEW k \in DOMAIN b
      PROVE  Len(a) + k \in DOMAIN both /\ both[Len(a) + k] = b[k]
  <2>1. Len(a) + k \in 1 .. Len(a) + Len(b) /\ ~(Len(a) + k <= Len(a)) /\ Len(a) + k - Len(a) = k
    BY <1>2
  <2> QED
    BY <1>3, <1>4, <2>1
<1> QED
  BY <1>1, <1>2, <1>5, <1>6 DEF both

\* The line cut into its three parts.
LEMMA LineParts ==
  ASSUME FlowTypeOK, LineInv
  PROVE  /\ \A j \in DOMAIN received, k \in DOMAIN waiting :
              received[j].timestamp < waiting[k].timestamp
         /\ \A j, k \in DOMAIN waiting :
              j < k => waiting[j].timestamp < waiting[k].timestamp
         /\ \A k \in DOMAIN waiting :
              /\ waiting[k].timestamp < nextSequence
              /\ inFlight # NoOrder => waiting[k].timestamp < inFlight.timestamp
         /\ \A k \in DOMAIN received : received[k].timestamp < nextSequence
         /\ inFlight # NoOrder => inFlight.timestamp < nextSequence
<1>0. PICK both, last :
        both = received \o waiting /\ last = IF inFlight = NoOrder THEN << >> ELSE <<inFlight>>
  OBVIOUS
<1>1. /\ received \in Seq(Orders) /\ waiting \in Seq(Orders) /\ last \in Seq(Orders)
      /\ inFlight # NoOrder => 1 \in DOMAIN last /\ last[1] = inFlight
  BY <1>0 DEF FlowTypeOK
<1>2. PICK r, w : r = Len(received) /\ w = Len(waiting)
  OBVIOUS
<1>3. /\ r \in Nat /\ DOMAIN received = 1 .. r
      /\ w \in Nat /\ DOMAIN waiting = 1 .. w
  BY <1>1, <1>2, LenProperties
<1>4. /\ both \in Seq(Orders) /\ Len(both) = r + w
      /\ \A k \in DOMAIN received : k \in DOMAIN both /\ both[k] = received[k]
      /\ \A k \in DOMAIN waiting : r + k \in DOMAIN both /\ both[r + k] = waiting[k]
  BY <1>0, <1>1, <1>2, ConcatParts
<1>5. Line = both \o last
  BY <1>0 DEF Line
<1>6. /\ \A k \in DOMAIN both : k \in DOMAIN Line /\ Line[k] = both[k]
      /\ \A k \in DOMAIN last : r + w + k \in DOMAIN Line /\ Line[r + w + k] = last[k]
  BY <1>1, <1>4, <1>5, ConcatParts
<1>7. \A k \in DOMAIN received : k \in DOMAIN Line /\ k <= r /\ Line[k] = received[k]
  BY <1>3, <1>4, <1>6
<1>8. \A k \in DOMAIN waiting : r + k \in DOMAIN Line /\ Line[r + k] = waiting[k]
  BY <1>4, <1>6
<1>9. inFlight # NoOrder => r + w + 1 \in DOMAIN Line /\ Line[r + w + 1] = inFlight
  BY <1>1, <1>6
<1>10. \A j, k \in DOMAIN Line :
         /\ Line[k].timestamp < nextSequence
         /\ j < k => Line[j].timestamp < Line[k].timestamp
  BY DEF LineInv, InSequence
<1>11. \A j \in DOMAIN received, k \in DOMAIN waiting :
         received[j].timestamp < waiting[k].timestamp
  <2> TAKE j \in DOMAIN received, k \in DOMAIN waiting
  <2>1. j < r + k
    BY <1>3
  <2> QED
    BY <1>7, <1>8, <1>10, <2>1
<1>12. \A j, k \in DOMAIN waiting : j < k => waiting[j].timestamp < waiting[k].timestamp
  <2> TAKE j, k \in DOMAIN waiting
  <2>1. j < k => r + j < r + k
    BY <1>3
  <2> QED
    BY <1>8, <1>10, <2>1
<1>13. ASSUME NEW k \in DOMAIN waiting
       PROVE  /\ waiting[k].timestamp < nextSequence
              /\ inFlight # NoOrder => waiting[k].timestamp < inFlight.timestamp
  <2>1. r + k < r + w + 1
    BY <1>3
  <2> QED
    BY <1>8, <1>9, <1>10, <2>1
<1> QED
  BY <1>7, <1>9, <1>10, <1>11, <1>12, <1>13

\* The ingress side of a step that leaves the book alone.
LEMMA NumbersStay ==
  ASSUME FlowTypeOK, TypeOK, NumberInv, UNCHANGED <<queues, orders>>,
         nextSequence' \in Nat, nextSequence <= nextSequence',
         \A s \in Resting :
           /\ CameIn(received', orders[s].timestamp) => CameIn(received, orders[s].timestamp)
           /\ ~ComingIn(inFlight', waiting', orders[s].timestamp),
         TakerNumber'
  PROVE  NumberInv'
<1>1. Resting' = Resting
  BY DEF Resting, InLevel
<1>2. \A s \in Resting : s \in Slots /\ orders[s].timestamp \in Nat
  BY DEF Resting, TypeOK, SlotType
<1>3. RestingNumbers'
  <2> SUFFICES ASSUME NEW s \in Resting
               PROVE  /\ orders[s].timestamp < nextSequence'
                      /\ ~ComingIn(inFlight', waiting', orders[s].timestamp)
    BY <1>1 DEF RestingNumbers, ComingIn
  <2>1. orders[s].timestamp < nextSequence /\ orders[s].timestamp \in Nat
    BY <1>2 DEF NumberInv, RestingNumbers
  <2> QED
    BY <2>1 DEF FlowTypeOK
<1>4. FirstNumberedFirst'
  <2> SUFFICES ASSUME NEW side \in Sides, NEW i \in Levels,
                      NEW j \in DOMAIN queues[side][i], NEW k \in DOMAIN queues[side][i],
                      j < k,
                      CameIn(received', orders[queues[side][i][j]].timestamp),
                      CameIn(received', orders[queues[side][i][k]].timestamp)
               PROVE  orders[queues[side][i][j]].timestamp < orders[queues[side][i][k]].timestamp
    BY DEF FirstNumberedFirst, Queued, CameIn
  <2>1. queues[side][i][j] \in Resting /\ queues[side][i][k] \in Resting
    BY LevelTypes DEF Resting, InLevel
  <2> QED
    BY <2>1 DEF NumberInv, FirstNumberedFirst, Queued, CameIn
<1> QED
  BY <1>3, <1>4 DEF NumberInv

\* Steps of the engine that leave no order behind.
LEMMA ThinningKeepsNumbers ==
  ASSUME TypeOK, TypeOK', NumberInv, Thinned, UNCHANGED ingressVars,
         pc' \in {"match", "level"} => pc \in {"match", "level"} /\ taker' = taker
  PROVE  NumberInv'
<1>1. /\ nextSequence' = nextSequence /\ inFlight' = inFlight
      /\ waiting' = waiting /\ received' = received
  BY DEF ingressVars, gatewayVars, queueVars
<1>2. \A side \in Sides, i \in Levels : \A k \in DOMAIN queues'[side][i] :
        \E n \in DOMAIN queues[side][i] : queues[side][i][n] = queues'[side][i][k]
  BY DEF Thinned, Embeds
<1>3. \A s \in Resting' : s \in Resting /\ s \in Slots /\ orders'[s].timestamp = orders[s].timestamp
  BY <1>2, RestingIsAfter DEF Resting, RestingAfter, InLevel, InLevelAfter, Thinned
<1>4. RestingNumbers'
  BY <1>1, <1>3 DEF NumberInv, RestingNumbers
<1>5. TakerNumber'
  BY <1>1, <1>3 DEF NumberInv, TakerNumber
<1>6. FirstNumberedFirst'
  <2> SUFFICES ASSUME NEW side \in Sides, NEW i \in Levels,
                      NEW j \in DOMAIN queues'[side][i], NEW k \in DOMAIN queues'[side][i],
                      j < k,
                      CameIn(received, orders'[queues'[side][i][j]].timestamp),
                      CameIn(received, orders'[queues'[side][i][k]].timestamp)
               PROVE  orders'[queues'[side][i][j]].timestamp < orders'[queues'[side][i][k]].timestamp
    BY <1>1 DEF FirstNumberedFirst, Queued, CameIn
  <2>1. PICK m \in DOMAIN queues[side][i], n \in DOMAIN queues[side][i] :
          queues[side][i][m] = queues'[side][i][j] /\ queues[side][i][n] = queues'[side][i][k] /\ m < n
    BY DEF Thinned, Embeds
  <2>2. queues[side][i][m] \in Slots /\ queues[side][i][n] \in Slots
    BY LevelTypes
  <2>3. /\ orders'[queues'[side][i][j]].timestamp = orders[queues[side][i][m]].timestamp
        /\ orders'[queues'[side][i][k]].timestamp = orders[queues[side][i][n]].timestamp
    BY <2>1, <2>2 DEF Thinned
  <2> QED
    BY <2>1, <2>3 DEF NumberInv, FirstNumberedFirst, Queued, CameIn
<1> QED
  BY <1>4, <1>5, <1>6 DEF NumberInv
\* What rests stands last, and has the last number if it came through the queue.
LEMMA RestKeepsNumbers ==
  ASSUME PricesFit, TypeOK, PoolPermutation, BookInv, CallInv, FlowTypeOK, NumberInv,
         Rest, UNCHANGED ingressVars
  PROVE  NumberInv'
<1>1. /\ nextSequence' = nextSequence /\ inFlight' = inFlight
      /\ waiting' = waiting /\ received' = received
      /\ pc = "match" /\ pc' = "done"
  BY DEF ingressVars, gatewayVars, queueVars, Rest, MatchOver, ReportTaker
<1>2. PICK slot \in Slots, sd \in Sides, lv \in Levels :
        /\ slot \notin Resting
        /\ orders'[slot].timestamp = taker.timestamp
        /\ \A t \in Slots \ {slot} : orders'[t] = orders[t]
        /\ queues' = [queues EXCEPT ![sd][lv] = Append(@, slot)]
  BY RestAppends DEF BookInv
<1>3. /\ taker.timestamp < nextSequence /\ ~ComingIn(inFlight, waiting, taker.timestamp)
      /\ \A s \in Resting : orders[s].timestamp # taker.timestamp
      /\ CameIn(received, taker.timestamp) =>
           \A k \in DOMAIN received : received[k].timestamp <= taker.timestamp
  BY <1>1 DEF NumberInv, TakerNumber
<1>4. taker.timestamp \in Nat /\ \A k \in DOMAIN received : received[k].timestamp \in Nat
  <2>1. taker \in Orders
    BY <1>1 DEF CallInv
  <2>2. \A k \in DOMAIN received : received[k] \in Orders
    BY ElementOfSeq DEF FlowTypeOK
  <2> QED
    BY <2>1, <2>2, OrderStamps
\* What stands in a queue stood there before, or is the slot at its end.
<1>5. ASSUME NEW side \in Sides, NEW i \in Levels
      PROVE  LET q == queues[side][i] IN
             /\ \A k \in DOMAIN q : q[k] \in Resting /\ orders'[q[k]] = orders[q[k]]
             /\ \/ queues'[side][i] = q
                \/ /\ DOMAIN queues'[side][i] = 1 .. Len(q) + 1
                   /\ DOMAIN q = 1 .. Len(q) /\ Len(q) \in Nat
                   /\ \A k \in 1 .. Len(q) : queues'[side][i][k] = q[k]
                   /\ queues'[side][i][Len(q) + 1] = slot
  <2>0. PICK q : q = queues[side][i]
    OBVIOUS
  <2>1. q \in Seq(Slots) /\ Len(q) \in Nat /\ DOMAIN q = 1 .. Len(q)
        /\ \A k \in DOMAIN q : q[k] \in Slots
    BY <2>0, LevelTypes
  <2>2. \A k \in DOMAIN q : q[k] \in Resting
    BY <2>0, <2>1 DEF Resting, InLevel
  <2>3. \A k \in DOMAIN q : orders'[q[k]] = orders[q[k]]
    BY <1>2, <2>1, <2>2
  <2>4. queues'[side][i] = IF side = sd /\ i = lv THEN Append(q, slot) ELSE q
    BY <1>2, <2>0 DEF TypeOK, LadderTypeOK
  <2>5. /\ DOMAIN Append(q, slot) = 1 .. Len(q) + 1
        /\ \A k \in 1 .. Len(q) : Append(q, slot)[k] = q[k]
        /\ Append(q, slot)[Len(q) + 1] = slot
    BY <2>1, AppendProperties, LenProperties
  <2>6. \/ queues'[side][i] = q
        \/ /\ DOMAIN queues'[side][i] = 1 .. Len(q) + 1
           /\ \A k \in 1 .. Len(q) : queues'[side][i][k] = q[k]
           /\ queues'[side][i][Len(q) + 1] = slot
    BY <2>4, <2>5
  <2> QED
    BY <2>0, <2>1, <2>2, <2>3, <2>6
<1>6. \A s \in Resting' : s = slot \/ (s \in Resting /\ orders'[s] = orders[s])
  <2> SUFFICES ASSUME NEW s \in Slots, NEW side \in Sides, NEW i \in Levels,
                      NEW k \in DOMAIN queues'[side][i], queues'[side][i][k] = s, s # slot
               PROVE  s \in Resting /\ orders'[s] = orders[s]
    BY RestingIsAfter DEF RestingAfter, InLevelAfter
  <2>0. PICK q : q = queues[side][i]
    OBVIOUS
  <2>1. \/ queues'[side][i] = q
        \/ /\ DOMAIN queues'[side][i] = 1 .. Len(q) + 1
           /\ DOMAIN q = 1 .. Len(q) /\ Len(q) \in Nat
           /\ \A x \in 1 .. Len(q) : queues'[side][i][x] = q[x]
           /\ queues'[side][i][Len(q) + 1] = slot
    BY <1>5, <2>0
  <2>2. \E j \in DOMAIN q : q[j] = s
    <3>1. CASE queues'[side][i] = q
      BY <3>1
    <3>2. CASE queues'[side][i] # q
      <4>1. k \in 1 .. Len(q) + 1 /\ k # Len(q) + 1 /\ Len(q) \in Nat
        BY <2>1, <3>2
      <4> QED
        BY <2>1, <3>2, <4>1
    <3> QED
      BY <3>1, <3>2
  <2> QED
    BY <1>2, <2>0, <2>2 DEF Resting, InLevel
<1>7. RestingNumbers'
  <2> SUFFICES ASSUME NEW s \in Resting'
               PROVE  /\ orders'[s].timestamp < nextSequence
                      /\ ~ComingIn(inFlight, waiting, orders'[s].timestamp)
    BY <1>1 DEF RestingNumbers
  <2> QED
    BY <1>2, <1>3, <1>6 DEF NumberInv, RestingNumbers
<1>8. FirstNumberedFirst'
  <2> SUFFICES ASSUME NEW side \in Sides, NEW i \in Levels,
                      NEW j \in DOMAIN queues'[side][i], NEW k \in DOMAIN queues'[side][i],
                      j < k,
                      CameIn(received, orders'[queues'[side][i][j]].timestamp),
                      CameIn(received, orders'[queues'[side][i][k]].timestamp)
               PROVE  orders'[queues'[side][i][j]].timestamp < orders'[queues'[side][i][k]].timestamp
    BY <1>1 DEF FirstNumberedFirst, Queued, CameIn
  <2>0. PICK q : q = queues[side][i]
    OBVIOUS
  <2>1. \A x, y \in DOMAIN q :
          x < y /\ CameIn(received, orders[q[x]].timestamp) /\ CameIn(received, orders[q[y]].timestamp) =>
            orders[q[x]].timestamp < orders[q[y]].timestamp
    BY <2>0 DEF NumberInv, FirstNumberedFirst, Queued, CameIn
  <2>2. \A x \in DOMAIN q : q[x] \in Resting /\ orders'[q[x]] = orders[q[x]]
    BY <1>5, <2>0
  <2>3. CASE queues'[side][i] = q
    BY <2>1, <2>2, <2>3
  <2>4. CASE /\ DOMAIN queues'[side][i] = 1 .. Len(q) + 1
             /\ DOMAIN q = 1 .. Len(q) /\ Len(q) \in Nat
             /\ \A x \in 1 .. Len(q) : queues'[side][i][x] = q[x]
             /\ queues'[side][i][Len(q) + 1] = slot
    <3>1. j \in DOMAIN q /\ queues'[side][i][j] = q[j] /\ orders'[q[j]] = orders[q[j]]
          /\ (k = Len(q) + 1 \/ (k \in DOMAIN q /\ queues'[side][i][k] = q[k] /\ orders'[q[k]] = orders[q[k]]))
      BY <2>2, <2>4
    <3>2. CASE k \in DOMAIN q /\ queues'[side][i][k] = q[k] /\ orders'[q[k]] = orders[q[k]]
      BY <2>1, <3>1, <3>2
    <3>3. CASE k = Len(q) + 1
      <4>1. orders'[queues'[side][i][k]].timestamp = taker.timestamp
        BY <1>2, <2>4, <3>3
      <4>2. PICK x \in DOMAIN received : received[x].timestamp = orders[q[j]].timestamp
        BY <3>1 DEF CameIn
      <4>3. orders[q[j]].timestamp <= taker.timestamp
        BY <1>3, <4>1, <4>2
      <4>4. orders[q[j]].timestamp # taker.timestamp
        BY <1>3, <2>2, <3>1
      <4> QED
        BY <1>4, <3>1, <4>1, <4>2, <4>3, <4>4
    <3> QED
      BY <3>1, <3>2, <3>3
  <2> QED
    BY <1>5, <2>0, <2>3, <2>4
<1> QED
  BY <1>1, <1>7, <1>8 DEF NumberInv, TakerNumber
LEMMA NextKeepsNumbers ==
  ASSUME PricesFit, TypeOK, TypeOK', CursorOK, PoolPermutation, BookInv, CallInv,
         FlowTypeOK, FlowTypeOK', LineInv, NumberInv, [PipelineNext]_pipelineVars
  PROVE  NumberInv'
<1>1. [Next]_vars
  BY StepsOfTheEngine
<1>2. /\ nextSequence \in Nat /\ nextSequence' \in Nat
      /\ RestingNumbers /\ TakerNumber
  BY DEF FlowTypeOK, NumberInv
<1>3. \A s \in Resting : orders[s].timestamp \in Nat /\ orders[s].timestamp < nextSequence
  BY <1>2 DEF Resting, TypeOK, SlotType, RestingNumbers
<1>4. ASSUME NEW o \in ClientOrders, TakeNumber(o)
      PROVE  NumberInv'
  <2>1. /\ inFlight = NoOrder /\ inFlight' = Stamp(o, nextSequence)
        /\ nextSequence' = nextSequence + 1
        /\ UNCHANGED <<vars, waiting, received>>
    BY <1>4 DEF TakeNumber, BeginSubmit, FetchAdd, queueVars
  <2>2. inFlight'.timestamp = nextSequence
    BY <1>4, <2>1, TakeNumberOnLine
  <2>3. \A t : ComingIn(inFlight', waiting', t) => ComingIn(inFlight, waiting, t) \/ t = nextSequence
    BY <2>1, <2>2 DEF ComingIn
  <2>4. UNCHANGED <<queues, orders, pc, taker>> /\ Resting' = Resting
    BY <2>1 DEF vars, bookVars, ladderVars, linkVars, callVars, argVars, Resting, InLevel
  <2>5. TakerNumber'
    <3> SUFFICES ASSUME pc \in {"match", "level"}
                 PROVE  /\ taker.timestamp < nextSequence'
                        /\ ~ComingIn(inFlight', waiting', taker.timestamp)
                        /\ \A s \in Resting : orders[s].timestamp # taker.timestamp
                        /\ CameIn(received, taker.timestamp) =>
                             \A k \in DOMAIN received : received[k].timestamp <= taker.timestamp
      BY <2>1, <2>4 DEF TakerNumber
    <3>1. taker.timestamp \in Nat
      BY OrderStamps DEF CallInv
    <3> QED
      BY <1>2, <2>1, <2>3, <3>1 DEF TakerNumber
  <2>6. \A s \in Resting :
          /\ CameIn(received', orders[s].timestamp) => CameIn(received, orders[s].timestamp)
          /\ ~ComingIn(inFlight', waiting', orders[s].timestamp)
    BY <1>2, <1>3, <2>1, <2>3 DEF RestingNumbers
  <2> QED
    BY <1>2, <2>1, <2>4, <2>5, <2>6, NumbersStay
<1>5. ASSUME NEW h, Push(h)
      PROVE  NumberInv'
  <2>1. /\ inFlight # NoOrder /\ inFlight' = NoOrder /\ inFlight \in Orders
        /\ nextSequence' = nextSequence /\ received' = received
        /\ waiting' = waiting \/ waiting' = Append(waiting, inFlight)
        /\ waiting \in Seq(Orders) /\ UNCHANGED vars
    BY <1>5 DEF Push, EndSubmit, Queue!Push, FlowTypeOK
  <2>2. \A t : ComingIn(inFlight', waiting', t) => ComingIn(inFlight, waiting, t)
    <3>1. CASE waiting' = waiting
      BY <2>1, <3>1 DEF ComingIn
    <3>2. CASE waiting' = Append(waiting, inFlight)
      <4>1. /\ Len(waiting) \in Nat /\ DOMAIN waiting = 1 .. Len(waiting)
            /\ DOMAIN waiting' = 1 .. Len(waiting) + 1
            /\ \A k \in 1 .. Len(waiting) : waiting'[k] = waiting[k]
            /\ waiting'[Len(waiting) + 1] = inFlight
        BY <2>1, <3>2, AppendProperties, LenProperties
      <4>2. \A k \in DOMAIN waiting' : waiting'[k] = inFlight \/ (k \in DOMAIN waiting /\ waiting'[k] = waiting[k])
        BY <4>1
      <4> QED
        BY <2>1, <4>2 DEF ComingIn
    <3> QED
      BY <2>1, <3>1, <3>2
  <2>3. UNCHANGED <<queues, orders, pc, taker>> /\ Resting' = Resting
    BY <2>1 DEF vars, bookVars, ladderVars, linkVars, callVars, argVars, Resting, InLevel
  <2>4. TakerNumber'
    BY <1>2, <2>1, <2>2, <2>3 DEF TakerNumber
  <2>5. \A s \in Resting :
          /\ CameIn(received', orders[s].timestamp) => CameIn(received, orders[s].timestamp)
          /\ ~ComingIn(inFlight', waiting', orders[s].timestamp)
    BY <1>2, <2>1, <2>2 DEF RestingNumbers
  <2> QED
    BY <1>2, <2>1, <2>3, <2>4, <2>5, NumbersStay
<1>6. CASE Pop
  <2>1. /\ waiting # << >> /\ waiting \in Seq(Orders) /\ received \in Seq(Orders)
        /\ waiting' = Tail(waiting) /\ received' = Append(received, Head(waiting))
        /\ nextSequence' = nextSequence /\ inFlight' = inFlight
        /\ Submit(Head(waiting))
    BY <1>6 DEF Pop, Queue!Pop, FlowTypeOK, gatewayVars
  <2>2. PICK first : first = Head(waiting)
    OBVIOUS
  <2>3. /\ first \in Orders /\ first = waiting[1] /\ 1 \in DOMAIN waiting
        /\ \A k \in DOMAIN waiting' : k + 1 \in DOMAIN waiting /\ 1 < k + 1 /\ waiting'[k] = waiting[k + 1]
    <3>1. /\ first \in Orders /\ Tail(waiting) \in Seq(Orders)
          /\ Len(Tail(waiting)) = Len(waiting) - 1
          /\ \A k \in 1 .. Len(Tail(waiting)) : Tail(waiting)[k] = waiting[k + 1]
      BY <2>1, <2>2, HeadTailProperties
    <3>2. /\ Len(waiting) \in Nat \ {0} /\ DOMAIN waiting = 1 .. Len(waiting)
          /\ first = waiting[1]
      BY <2>1, <2>2, EmptySeq, LenProperties
    <3>3. DOMAIN waiting' = 1 .. Len(waiting) - 1
      BY <2>1, <3>1, LenProperties
    <3> QED
      BY <2>1, <3>1, <3>2, <3>3
  <2>4. \A k \in DOMAIN received' : received'[k] = first \/ (k \in DOMAIN received /\ received'[k] = received[k])
    <3>1. /\ Len(received) \in Nat /\ DOMAIN received = 1 .. Len(received)
          /\ DOMAIN received' = 1 .. Len(received) + 1
          /\ \A k \in 1 .. Len(received) : received'[k] = received[k]
          /\ received'[Len(received) + 1] = first
      BY <2>1, <2>2, <2>3, AppendProperties, LenProperties
    <3> QED
      BY <3>1
  <2>5. /\ UNCHANGED <<queues, orders>> /\ Resting' = Resting
        /\ taker' = first
    BY <2>1, <2>2 DEF Submit, Accept, Reject, Enter, EnterProcess, bookVars, ladderVars, linkVars, Resting, InLevel
  <2>6. first.timestamp \in Nat /\ \A k \in DOMAIN received : received[k].timestamp \in Nat
    <3>1. \A k \in DOMAIN received : received[k] \in Orders
      BY <2>1, ElementOfSeq
    <3> QED
      BY <2>3, <3>1, OrderStamps
  <2>7. \A s \in Resting : orders[s].timestamp # first.timestamp
    BY <1>2, <2>3 DEF RestingNumbers, ComingIn
  <2>8. \A t : ComingIn(inFlight', waiting', t) => ComingIn(inFlight, waiting, t)
    BY <2>1, <2>3 DEF ComingIn
  <2>9. ~ComingIn(inFlight', waiting', first.timestamp)
    <3>1. \A k \in DOMAIN waiting' : first.timestamp < waiting'[k].timestamp
      BY <2>3, LineParts
    <3>2. inFlight # NoOrder => first.timestamp < inFlight.timestamp
      BY <2>3, LineParts
    <3> QED
      BY <2>1, <2>6, <3>1, <3>2 DEF ComingIn
  <2>10. \A k \in DOMAIN received' : received'[k].timestamp <= first.timestamp
    <3>1. \A k \in DOMAIN received : received[k].timestamp < first.timestamp
      BY <2>3, LineParts
    <3> QED
      BY <2>4, <2>6, <3>1
  <2>11. first.timestamp < nextSequence
    BY <2>3, LineParts
  <2>12. TakerNumber'
    BY <2>1, <2>5, <2>7, <2>9, <2>10, <2>11 DEF TakerNumber
  <2>13. \A s \in Resting :
           /\ CameIn(received', orders[s].timestamp) => CameIn(received, orders[s].timestamp)
           /\ ~ComingIn(inFlight', waiting', orders[s].timestamp)
    BY <1>2, <2>4, <2>7, <2>8 DEF RestingNumbers, CameIn
  <2> QED
    BY <1>2, <2>1, <2>5, <2>12, <2>13, NumbersStay
<1>7. ASSUME NEW o \in ClientOrders, SubmitDirect(o)
      PROVE  NumberInv'
  <2>1. PICK direct : direct = Stamp(o, nextSequence)
    OBVIOUS
  <2>2. /\ nextSequence' = nextSequence + 1 /\ Submit(direct)
        /\ inFlight' = inFlight /\ waiting' = waiting /\ received' = received
    BY <1>7, <2>1 DEF SubmitDirect, FetchAdd, queueVars
  <2>3. direct.timestamp = nextSequence
    BY <2>1, StampProperties DEF FlowTypeOK
  <2>4. /\ UNCHANGED <<queues, orders>> /\ Resting' = Resting /\ taker' = direct
    BY <2>2 DEF Submit, Accept, Reject, Enter, EnterProcess, bookVars, ladderVars, linkVars, Resting, InLevel
  <2>5. ~ComingIn(inFlight, waiting, nextSequence) /\ ~CameIn(received, nextSequence)
    BY <1>2, LineParts DEF ComingIn, CameIn
  <2>6. \A s \in Resting : orders[s].timestamp # nextSequence
    BY <1>2, <1>3
  <2>7. TakerNumber'
    BY <1>2, <2>2, <2>3, <2>4, <2>5, <2>6 DEF TakerNumber
  <2>8. \A s \in Resting :
          /\ CameIn(received', orders[s].timestamp) => CameIn(received, orders[s].timestamp)
          /\ ~ComingIn(inFlight', waiting', orders[s].timestamp)
    BY <1>2, <2>2 DEF RestingNumbers
  <2> QED
    BY <1>2, <2>2, <2>4, <2>7, <2>8, NumbersStay
<1>8. ASSUME UNCHANGED ingressVars,
             pc' \in {"match", "level"} => pc \in {"match", "level"} /\ taker' = taker
      PROVE  NumberInv'
  <2>1. CASE Rest
    BY <1>8, <2>1, RestKeepsNumbers
  <2>2. CASE ~Rest
    BY <1>1, <1>8, <2>2, MostStepsThin, ThinningKeepsNumbers
  <2> QED
    BY <2>1, <2>2
<1>9. ASSUME NEW id \in OrderIds, Cancel(id)
      PROVE  NumberInv'
  BY <1>8, <1>9 DEF Cancel, CancelUnknown, CancelKnown, EnterCancel
<1>10. CASE Advance
  BY <1>8, <1>10 DEF Advance, Match, BeginLevel, EndLevel, FillMaker, FillTaker, Conclude, Rest,
                     ReportTaker, argVars
<1>11. CASE Publish
  BY <1>8, <1>11 DEF Publish, Return, EndCall
<1>12. CASE ClearRecent \/ Subscribe \/ UNCHANGED pipelineVars
  BY <1>8, <1>12 DEF ClearRecent, Subscribe, pipelineVars, vars, callVars, argVars
<1> QED
  BY <1>4, <1>5, <1>6, <1>7, <1>9, <1>10, <1>11, <1>12 DEF PipelineNext

\* Of two orders at one level that came through the queue, the one with the lower
\* number stands first, whatever was refused, cancelled or submitted directly.
THEOREM PriorityByNumber == ASSUME PricesFit PROVE PipelineSpec => []FirstNumberedFirst
<1>1. PipelineInit => NumberInv
  <2> SUFFICES ASSUME PipelineInit
               PROVE  NumberInv
    OBVIOUS
  <2>1. queues = [side \in Sides |-> [i \in Levels |-> << >>]] /\ pc = "idle"
    BY DEF PipelineInit, Init, LadderInit, NoCall
  <2>2. \A side \in Sides, i \in Levels : DOMAIN queues[side][i] = {}
    BY <2>1
  <2>3. Resting = {}
    BY <2>2 DEF Resting, InLevel
  <2>4. FirstNumberedFirst
    BY <2>2 DEF FirstNumberedFirst
  <2> QED
    BY <2>1, <2>3, <2>4 DEF NumberInv, RestingNumbers, TakerNumber
<1>2. Spec => [](TypeOK /\ CursorOK) /\ []PoolPermutation /\ [](BookInv /\ CallInv)
  BY TypeCorrect, PoolCorrect, BookInvCorrect, PTL
<1>3. NumberInv => FirstNumberedFirst
  BY DEF NumberInv
<1>4. TypeOK /\ TypeOK' /\ CursorOK /\ PoolPermutation /\ BookInv /\ CallInv
      /\ FlowTypeOK /\ FlowTypeOK' /\ LineInv /\ NumberInv /\ [PipelineNext]_pipelineVars
      => NumberInv'
  BY NextKeepsNumbers
<1> QED
  BY <1>1, <1>2, <1>3, <1>4, EngineInPipeline, FlowCorrect, LineCorrect, PTL DEF PipelineSpec

-----------------------------------------------------------------------------
(***************************************************************************)
(* Orders by their ids.  With ids unique, the book is a set of ids, each   *)
(* with its order; a step adds one, takes one away, or fills one.          *)
(***************************************************************************)
IdsInv == TypeOK /\ CursorOK /\ PoolPermutation /\ BookInv /\ CallInv /\ MapComplete /\ TakerFresh

OrderOf(id) == orders[orderMap[id]]

OrderAfter(id) == orders'[orderMap'[id]]

IdsAfter == {orders'[s].id : s \in RestingAfter}

LEMMA RestingIdsPrimed == RestingIds' = IdsAfter
BY RestingIsAfter DEF RestingIds, IdsAfter

LEMMA OrdersById ==
  ASSUME IdsInv, NEW id \in RestingIds
  PROVE  /\ orderMap[id] \in Resting /\ orderMap[id] \in Slots
         /\ OrderOf(id).id = id
         /\ 0 < OrderOf(id).remaining /\ OrderOf(id).remaining <= OrderOf(id).quantity
         /\ OrderOf(id).quantity \in Int /\ OrderOf(id).remaining \in Int
<1>1. PICK s \in Resting : orders[s].id = id
  BY DEF RestingIds
<1>2. orderMap[id] = s
  BY <1>1 DEF IdsInv, MapComplete
<1>3. s \in Slots /\ Belongs(s, orders[s].side, orders[s].price)
  BY <1>1, RestingStands DEF IdsInv, BookInv
<1> QED
  BY <1>1, <1>2, <1>3, FieldTypes DEF IdsInv, OrderOf, Belongs, OrderAfter

LEMMA SameIds ==
  ASSUME UNCHANGED bookVars
  PROVE  RestingIds' = RestingIds /\ \A id : OrderAfter(id) = OrderOf(id)
<1>1. RestingAfter = Resting /\ orders' = orders /\ orderMap' = orderMap
  BY DEF bookVars, ladderVars, linkVars, RestingAfter, Resting, InLevelAfter, InLevel
<1> QED
  BY <1>1, RestingIsAfter DEF RestingIds, OrderOf, OrderAfter

\* An order that leaves the book takes its id along, and the others stay.
LEMMA RemovalOnIds ==
  ASSUME IdsInv, NEW side \in Sides, NEW i \in Levels, NEW s \in Slots, InLevel(s, side, i),
         RemoveFrom(side, i, s), Erase(orders[s].id),
         \A t \in Slots \ {s} : orders'[t] = orders[t]
  PROVE  LET id == orders[s].id IN
         /\ id \in RestingIds /\ orderMap[id] = s /\ OrderOf(id) = orders[s]
         /\ RestingIds' = RestingIds \ {id}
         /\ \A other \in RestingIds \ {id} : OrderAfter(other) = OrderOf(other)
<1> DEFINE id == orders[s].id
<1>1. RestingAfter = Resting \ {s} /\ s \in Resting
  BY RemovalOnResting, StandsWhereItBelongs DEF IdsInv, BookInv
<1>2. id \in RestingIds /\ orderMap[id] = s /\ OrderOf(id) = orders[s]
  BY <1>1 DEF RestingIds, IdsInv, MapComplete, OrderOf, OrderAfter
<1>3. \A t \in Resting \ {s} : t \in Slots \ {s} /\ orders'[t] = orders[t] /\ orders[t].id # id
  BY <1>1 DEF IdsInv, MapComplete, Resting
<1>4. RestingIds' = RestingIds \ {id}
  BY <1>1, <1>3, RestingIdsPrimed DEF RestingIds, IdsAfter
<1>5. ASSUME NEW other \in RestingIds \ {id}
      PROVE  OrderAfter(other) = OrderOf(other)
  <2>1. PICK t \in Resting \ {s} : orders[t].id = other
    BY <1>5 DEF RestingIds
  <2>2. orderMap[other] = t
    BY <2>1 DEF IdsInv, MapComplete
  <2>3. orderMap'[other] = orderMap[other]
    BY <1>5 DEF Erase, IdsInv, TypeOK
  <2> QED
    BY <1>3, <2>1, <2>2, <2>3 DEF OrderOf, OrderAfter
<1> QED
  BY <1>2, <1>4, <1>5

LEMMA FillMakerOnIds ==
  ASSUME IdsInv, FillMaker
  PROVE  LET maker == orders[FirstSlot] IN
         /\ maker.id \in RestingIds /\ maker.id # taker.id /\ OrderOf(maker.id) = maker
         /\ RestingIds' = RestingIds \ {maker.id}
         /\ \A id \in RestingIds \ {maker.id} : OrderAfter(id) = OrderOf(id)
<1> DEFINE s == FirstSlot
<1>1. /\ s \in Slots /\ Contra \in Sides /\ cursor \in Levels /\ pc = "level"
      /\ InLevel(s, Contra, cursor)
  BY FirstStandsFirst DEF FillMaker, BookInv, IdsInv
<1>2. /\ orders' = [orders EXCEPT ![s] = Reduced(orders[s], 0, "Filled")]
      /\ RemoveFrom(Contra, cursor, s)
      /\ Erase(orders[s].id)
  BY DEF FillMaker
<1> HIDE DEF s, Contra
<1>3. \A t \in Slots \ {s} : orders'[t] = orders[t]
  BY <1>1, <1>2 DEF TypeOK, IdsInv
<1>4. taker.id \notin RestingIds
  BY <1>1 DEF IdsInv, TakerFresh
<1> QED
  BY <1>1, <1>2, <1>3, <1>4, RemovalOnIds DEF s

LEMMA FillTakerOnIds ==
  ASSUME IdsInv, FillTaker
  PROVE  LET maker == orders[FirstSlot] IN
         /\ maker.id \in RestingIds /\ maker.id # taker.id /\ OrderOf(maker.id) = maker
         /\ RestingIds' = RestingIds
         /\ OrderAfter(maker.id) = Reduced(maker, maker.remaining - left, "PartiallyFilled")
         /\ \A id \in RestingIds \ {maker.id} : OrderAfter(id) = OrderOf(id)
<1> DEFINE s == FirstSlot
           new == Reduced(orders[s], orders[s].remaining - left, "PartiallyFilled")
<1>1. /\ s \in Slots /\ s \in Resting /\ pc = "level"
  BY FirstStandsFirst, StandsWhereItBelongs DEF FillTaker, BookInv, IdsInv
<1>2. /\ orders' = [orders EXCEPT ![s] = new]
      /\ UNCHANGED <<ladderVars, orderMap, taker, pc>>
  BY DEF FillTaker, argVars
<1> HIDE DEF s
<1>3. orders[s].remaining - left \in Int /\ orders[s] \in SlotType /\ "PartiallyFilled" \in Statuses
  BY <1>1, FieldTypes DEF Statuses, IdsInv
<1>4. new.id = orders[s].id
  BY ONLY <1>3, ReducedProperties
<1> HIDE DEF new
<1>5. orders'[s] = new /\ \A t \in Slots \ {s} : orders'[t] = orders[t]
  BY <1>1, <1>2 DEF TypeOK, IdsInv
<1>6. RestingAfter = Resting /\ Resting \subseteq Slots
  BY <1>2 DEF ladderVars, linkVars, RestingAfter, Resting, InLevelAfter, InLevel
<1>7. RestingIds' = RestingIds
  <2>1. \A t \in Resting : orders'[t].id = orders[t].id
    BY <1>4, <1>5, <1>6
  <2> QED
    BY <1>6, <2>1, RestingIdsPrimed DEF RestingIds, IdsAfter
<1>8. /\ orders[s].id \in RestingIds /\ orderMap[orders[s].id] = s
      /\ taker.id \notin RestingIds
  BY <1>1 DEF RestingIds, IdsInv, MapComplete, TakerFresh
<1>9. OrderAfter(orders[s].id) = new /\ OrderOf(orders[s].id) = orders[s]
  BY <1>2, <1>5, <1>8 DEF OrderOf, OrderAfter
<1>10. ASSUME NEW id \in RestingIds \ {orders[s].id}
       PROVE  OrderAfter(id) = OrderOf(id)
  <2>1. orderMap[id] \in Slots /\ orderMap[id] # s
    BY <1>10, OrdersById DEF OrderOf, OrderAfter
  <2> QED
    BY <1>2, <1>5, <2>1 DEF OrderOf, OrderAfter
<1> QED
  BY <1>7, <1>8, <1>9, <1>10 DEF s, new

LEMMA RestOnIds ==
  ASSUME PricesFit, IdsInv, Rest
  PROVE  /\ taker.id \notin RestingIds
         /\ RestingIds' = RestingIds \cup {taker.id}
         /\ OrderAfter(taker.id).quantity = taker.quantity
         /\ OrderAfter(taker.id).remaining = left
         /\ \A id \in RestingIds : OrderAfter(id) = OrderOf(id)
<1>1. PICK slot \in Slots :
        /\ Allocate(slot)
        /\ PushBack(taker.side, taker.price, slot)
        /\ orders' = [orders EXCEPT ![slot] =
             [id |-> taker.id, side |-> taker.side, price |-> taker.price,
              quantity |-> taker.quantity, remaining |-> left,
              timestamp |-> taker.timestamp, status |-> "Resting"]]
        /\ orderMap' = [orderMap EXCEPT ![taker.id] = slot]
  BY RestPushes DEF IdsInv
<1>2. /\ taker.side \in Sides /\ taker.price \in Levels /\ taker \in Orders
      /\ taker.id \notin RestingIds
  BY RestPushes DEF IdsInv, CallInv, TakerFresh, Rest, MatchOver
<1>3. \A sd \in Sides, n \in Levels : ~InLevel(slot, sd, n)
  BY <1>1, FreshSlot DEF BookInv, IdsInv
<1>4. RestingAfter = Resting \cup {slot}
  BY <1>1, <1>2, <1>3, PushOnResting DEF BookInv, IdsInv
<1>5. /\ orders'[slot].id = taker.id /\ orders'[slot].quantity = taker.quantity
      /\ orders'[slot].remaining = left
      /\ orderMap'[taker.id] = slot
  BY <1>1, <1>2 DEF TypeOK, OrderIds, IdsInv
<1>6. ASSUME NEW t \in Resting
      PROVE  t \in Slots /\ t # slot /\ orders'[t] = orders[t]
  <2>1. t \in Slots /\ t # slot
    BY <1>3 DEF Resting
  <2> QED
    BY <1>1, <2>1 DEF TypeOK, IdsInv
<1>7. RestingIds' = RestingIds \cup {taker.id}
  <2>1. \A t \in Resting : orders'[t].id = orders[t].id
    BY <1>6
  <2>2. IdsAfter = {orders'[t].id : t \in Resting} \cup {orders'[slot].id}
    BY <1>4 DEF IdsAfter
  <2>3. {orders'[t].id : t \in Resting} = RestingIds
    BY <2>1 DEF RestingIds
  <2> QED
    BY <1>5, <2>2, <2>3, RestingIdsPrimed
<1>8. ASSUME NEW id \in RestingIds
      PROVE  OrderAfter(id) = OrderOf(id)
  <2>1. orderMap[id] \in Resting
    BY <1>8, OrdersById
  <2>2. orderMap'[id] = orderMap[id]
    BY <1>1, <1>2, <1>8 DEF TypeOK, IdsInv
  <2> QED
    BY <1>6, <2>1, <2>2 DEF OrderOf, OrderAfter
<1>9. OrderAfter(taker.id) = orders'[slot]
  BY <1>5 DEF OrderOf, OrderAfter
<1> QED
  BY <1>2, <1>5, <1>7, <1>8, <1>9

LEMMA CancelOnIds ==
  ASSUME IdsInv, NEW id \in OrderIds, CancelKnown(id)
  PROVE  /\ id \in RestingIds /\ orders[orderMap[id]] = OrderOf(id)
         /\ RestingIds' = RestingIds \ {id}
         /\ \A other \in RestingIds \ {id} : OrderAfter(other) = OrderOf(other)
<1> DEFINE s == orderMap[id]
<1>1. /\ s \in Slots /\ orders[s].id = id
      /\ orders[s].side \in Sides /\ orders[s].price \in Levels
      /\ InLevel(s, orders[s].side, orders[s].price)
      /\ RemoveFrom(orders[s].side, orders[s].price, s)
      /\ Erase(orders[s].id)
      /\ UNCHANGED orders
  BY CancelRemoves DEF IdsInv
<1> HIDE DEF s
<1>2. LET x == orders[s].id IN
      /\ x \in RestingIds
      /\ RestingIds' = RestingIds \ {x}
      /\ \A other \in RestingIds \ {x} : OrderAfter(other) = OrderOf(other)
  BY <1>1, RemovalOnIds
<1> QED
  BY <1>1, <1>2 DEF OrderOf, s, OrderAfter

-----------------------------------------------------------------------------
(***************************************************************************)
(* What the reports say.                                                   *)
(***************************************************************************)
\* The last report of rs about an id, or what was known of it before.
NewsIn(rs, id, old) ==
  LET about == {k \in DOMAIN rs : rs[k].id = id}
  IN IF about = {} THEN old ELSE rs[Max(about)]

LEMMA NewsIsNewsIn == \A id : News(id) = NewsIn(reports, id, told[id])
BY DEF News, NewsIn

LEMMA NewsOfNone == \A id, old : NewsIn(<< >>, id, old) = old
BY DEF NewsIn

LEMMA NewsOfAppend ==
  ASSUME NEW rs \in Seq(ReportType), NEW r \in ReportType
  PROVE  /\ \A old : NewsIn(Append(rs, r), r.id, old) = r
         /\ \A id, old : id # r.id => NewsIn(Append(rs, r), id, old) = NewsIn(rs, id, old)
<1> DEFINE new == Append(rs, r)
           last == Len(rs) + 1
<1>1. /\ Len(rs) \in Nat /\ DOMAIN rs = 1 .. Len(rs) /\ DOMAIN new = 1 .. last
      /\ \A k \in 1 .. Len(rs) : new[k] = rs[k]
      /\ new[last] = r
  BY LenProperties
<1> HIDE DEF new
<1>2. ASSUME NEW old
      PROVE  NewsIn(new, r.id, old) = r
  <2> DEFINE about == {k \in DOMAIN new : new[k].id = r.id}
  <2>1. last \in about /\ about \in SUBSET (0 .. last) /\ last \in Nat
    BY <1>1
  <2>2. Max(about) \in about /\ last <= Max(about)
    BY <2>1, MaxExists
  <2>3. Max(about) = last
    BY <2>1, <2>2
  <2> QED
    BY <1>1, <2>1, <2>3 DEF NewsIn
<1>3. ASSUME NEW id, NEW old, id # r.id
      PROVE  NewsIn(new, id, old) = NewsIn(rs, id, old)
  <2> DEFINE before == {k \in DOMAIN rs : rs[k].id = id}
             about == {k \in DOMAIN new : new[k].id = id}
  <2>1. about = before
    BY <1>1, <1>3
  <2>2. CASE before = {}
    BY <2>1, <2>2 DEF NewsIn
  <2>3. CASE before # {}
    <3>1. before \in SUBSET (0 .. Len(rs)) /\ Len(rs) \in Nat
      BY <1>1
    <3>2. Max(before) \in before
      BY <2>3, <3>1, MaxExists
    <3>3. new[Max(before)] = rs[Max(before)]
      BY <1>1, <3>2
    <3> HIDE DEF before, about
    <3>4. NewsIn(new, id, old) = new[Max(about)] /\ NewsIn(rs, id, old) = rs[Max(before)]
      BY <2>1, <2>3 DEF NewsIn, about, before
    <3> QED
      BY <2>1, <3>3, <3>4
  <2> QED
    BY <2>2, <2>3
<1> QED
  BY <1>2, <1>3 DEF new

\* The news of an event of one report.
LEMMA NewsOfOne ==
  ASSUME NEW r \in ReportType
  PROVE  /\ \A old : NewsIn(<<r>>, r.id, old) = r
         /\ \A id, old : id # r.id => NewsIn(<<r>>, id, old) = old
<1>1. << >> \in Seq(ReportType) /\ <<r>> = Append(<< >>, r)
  OBVIOUS
<1>2. /\ \A old : NewsIn(Append(<< >>, r), r.id, old) = r
      /\ \A id, old : id # r.id => NewsIn(Append(<< >>, r), id, old) = NewsIn(<< >>, id, old)
  BY ONLY <1>1, NewsOfAppend
<1> QED
  BY <1>1, <1>2, NewsOfNone

\* What each step that reports changes of that.
LEMMA NewsOfFill ==
  ASSUME IdsInv, FillMaker
  PROVE  LET maker == orders[FirstSlot] IN
         /\ \A old : /\ NewsIn(reports', maker.id, old).status = "Filled"
                     /\ NewsIn(reports', maker.id, old).filled = maker.quantity
         /\ \A id, old : id # maker.id => NewsIn(reports', id, old) = NewsIn(reports, id, old)
<1> DEFINE maker == orders[FirstSlot]
           r == Report(maker.id, "Filled", Contra, maker.price, maker.quantity, 0)
<1>1. /\ maker.id \in Nat /\ maker.price \in Int /\ maker.quantity \in Int /\ Contra \in Sides
      /\ "Filled" \in Statuses /\ 0 \in Int
  BY FirstIsSlot, FieldTypes, ContraIsSide DEF FillMaker, IdsInv, Statuses
<1>2. reports' = Append(reports, r) /\ reports \in Seq(ReportType)
  BY DEF FillMaker, ReportFilled, IdsInv, TypeOK, CallTypeOK
<1> HIDE DEF maker, Contra
<1>3. r \in ReportType
  BY ONLY <1>1, ReportIsTyped
<1>4. r.id = maker.id /\ r.status = "Filled" /\ r.filled = maker.quantity
  BY DEF Report
<1> HIDE DEF r
<1> QED
  BY <1>2, <1>3, <1>4, NewsOfAppend DEF maker

LEMMA NewsOfEnd ==
  ASSUME IdsInv, Conclude \/ Rest
  PROVE  /\ \A old : /\ NewsIn(reports', taker.id, old).status \in {"Filled", "Cancelled", "Resting"}
                     /\ NewsIn(reports', taker.id, old).status = "Resting" <=> Rest
                     /\ NewsIn(reports', taker.id, old).filled = taker.quantity - left
         /\ \A id, old : id # taker.id => NewsIn(reports', id, old) = NewsIn(reports, id, old)
<1>1. Rest => ~Conclude
  BY DEF Rest, Conclude, Allocate
<1>2. PICK status \in {"Filled", "Cancelled", "Resting"} :
        ReportTaker(status) /\ (status = "Resting" <=> Rest)
  BY <1>1 DEF Conclude, Rest
<1> DEFINE r == Report(taker.id, status, taker.side, taker.price, taker.quantity - left, left)
<1>3. /\ taker.id \in Nat /\ taker.side \in Sides /\ taker.price \in Int
      /\ taker.quantity - left \in Int /\ left \in Int /\ status \in Statuses
  BY FieldTypes DEF IdsInv, Statuses
<1>4. reports' = Append(reports, r) /\ reports \in Seq(ReportType)
  BY <1>2 DEF ReportTaker, IdsInv, TypeOK, CallTypeOK
<1>5. r \in ReportType
  BY ONLY <1>3, ReportIsTyped
<1>6. r.id = taker.id /\ r.status = status /\ r.filled = taker.quantity - left
  BY DEF Report
<1> HIDE DEF r
<1> QED
  BY <1>2, <1>4, <1>5, <1>6, NewsOfAppend

LEMMA NewsOfRejection ==
  ASSUME NEW o \in Orders, Reject(o)
  PROVE  /\ \A old : /\ NewsIn(reports', o.id, old).status = "Cancelled"
                     /\ NewsIn(reports', o.id, old).filled = 0
         /\ \A id, old : id # o.id => NewsIn(reports', id, old) = old
<1> DEFINE r == Report(o.id, "Cancelled", o.side, o.price, 0, o.quantity)
<1>1. /\ o.id \in Nat /\ o.side \in Sides /\ o.price \in Int /\ o.quantity \in Int
      /\ "Cancelled" \in Statuses /\ 0 \in Int
  BY OrdersAssumption DEF IncomingOrder, Statuses
<1>2. r \in ReportType
  BY ONLY <1>1, ReportIsTyped
<1>3. r.id = o.id /\ r.status = "Cancelled" /\ r.filled = 0
  BY DEF Report
<1>4. reports' = <<r>>
  BY DEF Reject, TurnAway
<1> HIDE DEF r
<1> QED
  BY <1>2, <1>3, <1>4, NewsOfOne

LEMMA NewsOfCancel ==
  ASSUME IdsInv, NEW id \in OrderIds, CancelKnown(id)
  PROVE  /\ \A old : /\ NewsIn(reports', id, old).status = "Cancelled"
                     /\ NewsIn(reports', id, old).filled
                          = OrderOf(id).quantity - OrderOf(id).remaining
         /\ \A other, old : other # id => NewsIn(reports', other, old) = old
<1> DEFINE order == orders[orderMap[id]]
           r == Report(order.id, "Cancelled", order.side, order.price,
                       order.quantity - order.remaining, order.remaining)
<1>1. order.id = id /\ orderMap[id] \in Slots
  BY CancelRemoves DEF IdsInv
<1>2. /\ order.id \in Nat /\ order.side \in Sides /\ order.price \in Int
      /\ order.quantity - order.remaining \in Int /\ order.remaining \in Int
      /\ "Cancelled" \in Statuses
  BY <1>1, FieldTypes DEF IdsInv, Statuses
<1>3. reports' = <<r>>
  BY DEF CancelKnown, ReportCancelled
<1>4. order = OrderOf(id)
  BY DEF OrderOf
<1> HIDE DEF order
<1>5. r \in ReportType
  BY ONLY <1>2, ReportIsTyped
<1>6. r.id = id /\ r.status = "Cancelled" /\ r.filled = order.quantity - order.remaining
  BY <1>1 DEF Report
<1> HIDE DEF r
<1> QED
  BY <1>3, <1>4, <1>5, <1>6, NewsOfOne

\* At any time the latest news of an order says Resting exactly when it rests.
NewsInv ==
  /\ pc = "idle" => reports = << >>
  /\ \A id \in OrderIds : News(id).status = "Resting" <=> id \in RestingIds
  /\ op = "process" /\ pc = "done" => News(taker.id).status # "New"

NewsAfter(id) == NewsIn(reports', id, told'[id])

NewsHeld == \A id \in OrderIds : NewsAfter(id).status = "Resting" <=> id \in RestingIds'

LEMMA NewsInvAfter ==
  ASSUME pc' = "idle" => reports' = << >>, NewsHeld,
         op' = "process" /\ pc' = "done" => NewsAfter(taker'.id).status # "New"
  PROVE  NewsInv'
BY DEF NewsInv, NewsHeld, NewsAfter, News, NewsIn

\* The steps by what they do to the engine.
LEMMA StepKinds ==
  ASSUME FlowTypeOK, [PipelineNext]_pipelineVars
  PROVE  \/ UNCHANGED <<vars, told>>
         \/ Publish
         \/ /\ UNCHANGED <<told, handlerVars>>
            /\ \/ \E o \in Orders : Submit(o)
               \/ BeginLevel \/ EndLevel \/ FillMaker \/ FillTaker \/ Conclude \/ Rest
               \/ \E id \in OrderIds : CancelUnknown(id) \/ CancelKnown(id)
<1>1. ASSUME NEW o \in ClientOrders, SubmitDirect(o)
      PROVE  UNCHANGED <<told, handlerVars>> /\ \E order \in Orders : Submit(order)
  BY <1>1, StampProperties DEF SubmitDirect, FetchAdd, FlowTypeOK
<1>2. CASE Pop
  BY <1>2, PushedAndPopped DEF Pop
<1>3. CASE Advance \/ \E id \in OrderIds : Cancel(id)
  BY <1>3 DEF Advance, Cancel, Match
<1>4. CASE \/ \E o \in ClientOrders : TakeNumber(o)
           \/ \E h \in 0 .. MaxSubmissions : Push(h)
           \/ ClearRecent \/ Subscribe
  BY <1>4 DEF TakeNumber, Push, ClearRecent, Subscribe
<1>5. CASE UNCHANGED pipelineVars
  BY <1>5 DEF pipelineVars
<1> QED
  BY <1>1, <1>2, <1>3, <1>4, <1>5 DEF PipelineNext

LEMMA NewsStaysTrue ==
  ASSUME PricesFit, ~ReuseIds, FlowTypeOK, IdsInv, NewsInv, [PipelineNext]_pipelineVars
  PROVE  NewsInv'
<1>1. ASSUME told' = told, reports' = reports, RestingIds' = RestingIds,
             pc' = "idle" => pc = "idle",
             op' = "process" /\ pc' = "done" => op = "process" /\ pc = "done" /\ taker' = taker
      PROVE  NewsInv'
  <2>1. \A id : NewsAfter(id) = News(id)
    BY <1>1, NewsIsNewsIn DEF NewsAfter
  <2>2. NewsHeld
    BY <1>1, <2>1 DEF NewsHeld, NewsInv
  <2> QED
    BY <1>1, <2>1, <2>2, NewsInvAfter DEF NewsInv
<1>2. CASE UNCHANGED <<vars, told>>
  BY <1>1, <1>2, SameIds DEF vars, callVars, argVars, eventVars
<1>3. CASE Publish
  <2>1. /\ UNCHANGED bookVars /\ pc' = "idle" /\ op' = "none" /\ reports' = << >>
        /\ told' = [id \in OrderIds |-> News(id)]
    BY <1>3 DEF Publish, Return, EndCall
  <2>2. \A id \in OrderIds : NewsAfter(id) = News(id)
    BY <2>1, NewsOfNone DEF NewsAfter
  <2>3. NewsHeld
    BY <2>1, <2>2, SameIds DEF NewsHeld, NewsInv
  <2> QED
    BY <2>1, <2>3, NewsInvAfter
<1>4. ASSUME NEW o \in Orders, Submit(o), told' = told
      PROVE  NewsInv'
  <2>1. /\ UNCHANGED bookVars /\ pc = "idle" /\ taker' = o /\ o.id \notin RestingIds
        /\ o.id \in OrderIds
    BY <1>4 DEF Submit, Accept, Reject, Enter, EnterProcess, OrderIds
  <2>2. CASE Accept(o)
    BY <1>1, <1>4, <2>1, <2>2, SameIds DEF Accept, StartMatching
  <2>3. CASE Reject(o)
    <3>1. pc' = "done" /\ reports = << >>
      BY <2>1, <2>3 DEF Reject, TurnAway, NewsInv
    <3>2. NewsAfter(o.id).status = "Cancelled"
      BY <2>3, NewsOfRejection DEF NewsAfter
    <3>3. \A id : id # o.id => NewsAfter(id) = News(id)
      BY <1>4, <2>3, <3>1, NewsOfRejection, NewsOfNone, NewsIsNewsIn DEF NewsAfter
    <3>4. NewsHeld
      BY <2>1, <3>2, <3>3, SameIds DEF NewsHeld, NewsInv
    <3> QED
      BY <2>1, <3>1, <3>2, <3>4, NewsInvAfter
  <2> QED
    BY <1>4, <2>2, <2>3 DEF Submit
<1>5. CASE (BeginLevel \/ EndLevel \/ FillTaker) /\ told' = told
  <2>1. RestingIds' = RestingIds
    BY <1>5, SameIds, FillTakerOnIds DEF BeginLevel, EndLevel
  <2>2. reports' = reports /\ pc' \in {"match", "level"}
    BY <1>5 DEF BeginLevel, EndLevel, FillTaker, eventVars
  <2> QED
    BY <1>1, <1>5, <2>1, <2>2
<1>6. CASE FillMaker /\ told' = told
  <2> DEFINE id == orders[FirstSlot].id
  <2>1. id \in RestingIds /\ RestingIds' = RestingIds \ {id} /\ pc' = "level"
    BY <1>6, FillMakerOnIds DEF FillMaker
  <2>2. /\ NewsAfter(id).status = "Filled"
        /\ \A other : other # id => NewsAfter(other) = News(other)
    BY <1>6, NewsOfFill, NewsIsNewsIn DEF NewsAfter
  <2> HIDE DEF id
  <2>3. NewsHeld
    BY <2>1, <2>2 DEF NewsHeld, NewsInv
  <2> QED
    BY <2>1, <2>3, NewsInvAfter
<1>7. CASE (Conclude \/ Rest) /\ told' = told
  <2>1. /\ NewsAfter(taker.id).status \in {"Filled", "Cancelled", "Resting"}
        /\ NewsAfter(taker.id).status = "Resting" <=> Rest
        /\ \A id : id # taker.id => NewsAfter(id) = News(id)
    BY <1>7, NewsOfEnd, NewsIsNewsIn DEF NewsAfter
  <2>2. taker.id \notin RestingIds /\ pc' = "done" /\ taker' = taker
    BY <1>7 DEF IdsInv, TakerFresh, Conclude, Rest, MatchOver, ReportTaker, argVars
  <2>3. RestingIds' = IF Rest THEN RestingIds \cup {taker.id} ELSE RestingIds
    BY <1>7, RestOnIds, SameIds DEF Conclude
  <2>4. NewsHeld
    BY <2>1, <2>2, <2>3 DEF NewsHeld, NewsInv
  <2> QED
    BY <2>1, <2>2, <2>4, NewsInvAfter
<1>8. ASSUME NEW id \in OrderIds, CancelUnknown(id), told' = told
      PROVE  NewsInv'
  BY <1>1, <1>8, SameIds DEF CancelUnknown, EnterCancel
<1>9. ASSUME NEW id \in OrderIds, CancelKnown(id), told' = told
      PROVE  NewsInv'
  <2>1. pc = "idle" /\ pc' = "done" /\ op' = "cancel" /\ reports = << >>
    BY <1>9 DEF CancelKnown, EnterCancel, NewsInv
  <2>2. /\ NewsAfter(id).status = "Cancelled"
        /\ \A other : other # id => NewsAfter(other) = News(other)
    BY <1>9, <2>1, NewsOfCancel, NewsOfNone, NewsIsNewsIn DEF NewsAfter
  <2>3. RestingIds' = RestingIds \ {id}
    BY <1>9, CancelOnIds
  <2>4. NewsHeld
    BY <2>2, <2>3 DEF NewsHeld, NewsInv
  <2> QED
    BY <2>1, <2>4, NewsInvAfter
<1> QED
  BY <1>2, <1>3, <1>4, <1>5, <1>6, <1>7, <1>8, <1>9, StepKinds

LEMMA IdsInvHolds == ASSUME PricesFit, ~ReuseIds PROVE Spec => []IdsInv
<1>1. TypeOK /\ CursorOK /\ PoolPermutation /\ BookInv /\ CallInv /\ MapComplete /\ TakerFresh
        => IdsInv
  BY DEF IdsInv
<1> QED
  BY <1>1, TypeCorrect, PoolCorrect, BookInvCorrect, IdsStayUnique, PTL

LEMMA InitNews == PipelineInit => NewsInv
<1> SUFFICES ASSUME PipelineInit
             PROVE  NewsInv
  OBVIOUS
<1>1. /\ pc = "idle" /\ op = "none" /\ reports = << >> /\ RestingIds = {}
      /\ \A id \in OrderIds : told[id] = NoReport
  BY DEF PipelineInit, Init, NoCall, LadderInit, RestingIds, Resting, InLevel
<1>2. \A id \in OrderIds : News(id) = NoReport
  BY <1>1, NewsIsNewsIn, NewsOfNone
<1> QED
  BY <1>1, <1>2 DEF NewsInv, NoReport, Report

\* Between events the reports and the book tell the same story: an order rests
\* exactly when the last report of it says so, whatever fills and cancels came
\* between and in whatever order they came.
THEOREM ReportsHold == ASSUME PricesFit, ~ReuseIds PROVE PipelineSpec => []LastReportHolds
<1>1. NewsInv => LastReportHolds
  BY NewsIsNewsIn, NewsOfNone DEF NewsInv, LastReportHolds
<1>2. FlowTypeOK /\ IdsInv /\ NewsInv /\ [PipelineNext]_pipelineVars => NewsInv'
  BY NewsStaysTrue
<1> QED
  BY <1>1, <1>2, InitNews, FlowCorrect, EngineInPipeline, IdsInvHolds, PTL DEF PipelineSpec

-----------------------------------------------------------------------------
(***************************************************************************)
(* What the subscriber hears.                                              *)
(***************************************************************************)
\* An order's part in a trade, its parts in a sequence of trades, and their sum.
PartIn(t, id) == IF t.buy = id \/ t.sell = id THEN t.quantity ELSE 0

PartsIn(ts, id) == [k \in DOMAIN ts |-> PartIn(ts[k], id)]

Amount(ts, id) == Total(PartsIn(ts, id))

LEMMA HeardIsAmount == \A id : Heard(id) = Amount(feed, id)
BY DEF Heard, Amount, PartsIn, PartIn

LEMMA PartIsInt ==
  ASSUME NEW t \in TradeType, NEW id
  PROVE  PartIn(t, id) \in Int
BY DEF PartIn, TradeType

LEMMA PartsAreInts ==
  ASSUME NEW ts \in Seq(TradeType), NEW id
  PROVE  PartsIn(ts, id) \in Seq(Int) /\ Len(PartsIn(ts, id)) = Len(ts)
<1>1. /\ Len(ts) \in Nat /\ DOMAIN ts = 1 .. Len(ts)
      /\ \A k \in 1 .. Len(ts) : PartIn(ts[k], id) \in Int
  BY LenProperties, ElementOfSeq, PartIsInt
<1> DEFINE n == Len(ts)
           q == [k \in 1 .. n |-> PartIn(ts[k], id)]
<1>2. q \in [1 .. n -> Int]
  BY <1>1
<1>3. q = PartsIn(ts, id)
  BY <1>1 DEF PartsIn
<1> HIDE DEF q
<1>4. q \in Seq(Int) /\ Len(q) = n
  BY <1>1, <1>2
<1> QED
  BY <1>3, <1>4

LEMMA AmountOfNone == \A id : Amount(<< >>, id) = 0
<1> TAKE id
<1>1. PartsIn(<< >>, id) = << >>
  <2>1. << >> \in Seq(TradeType) /\ Len(<< >>) = 0
    OBVIOUS
  <2>2. PartsIn(<< >>, id) \in Seq(Int) /\ Len(PartsIn(<< >>, id)) = 0
    BY ONLY <2>1, PartsAreInts
  <2> QED
    BY <2>2, EmptySeq
<1> QED
  BY <1>1, TotalEmpty DEF Amount

LEMMA AmountOfAppend ==
  ASSUME NEW ts \in Seq(TradeType), NEW t \in TradeType, NEW id
  PROVE  Amount(ts, id) \in Int /\ Amount(Append(ts, t), id) = Amount(ts, id) + PartIn(t, id)
<1> DEFINE longer == Append(ts, t)
           q == PartsIn(ts, id)
           r == PartsIn(longer, id)
           x == PartIn(t, id)
<1>1. /\ longer \in Seq(TradeType) /\ Len(longer) = Len(ts) + 1
      /\ Len(ts) \in Nat /\ DOMAIN ts = 1 .. Len(ts)
      /\ DOMAIN longer = 1 .. Len(ts) + 1
      /\ \A k \in 1 .. Len(ts) : longer[k] = ts[k]
      /\ longer[Len(ts) + 1] = t
  BY LenProperties
<1>2. q \in Seq(Int) /\ Len(q) = Len(ts)
  BY ONLY ts \in Seq(TradeType), PartsAreInts
<1> HIDE DEF longer
<1>3. r \in Seq(Int) /\ Len(r) = Len(ts) + 1
  BY <1>1, PartsAreInts
<1>4. x \in Int
  BY PartIsInt
<1>5. /\ \A k \in 1 .. Len(ts) : q[k] = PartIn(ts[k], id) /\ r[k] = PartIn(ts[k], id)
      /\ r[Len(ts) + 1] = x
  <2>1. \A k \in 1 .. Len(ts) + 1 : r[k] = PartIn(longer[k], id)
    BY <1>1 DEF PartsIn
  <2>2. \A k \in 1 .. Len(ts) : q[k] = PartIn(ts[k], id)
    BY <1>1 DEF PartsIn
  <2>3. Len(ts) + 1 \in 1 .. Len(ts) + 1 /\ \A k \in 1 .. Len(ts) : k \in 1 .. Len(ts) + 1
    BY <1>1
  <2> HIDE DEF q, r, x
  <2>4. r[Len(ts) + 1] = PartIn(longer[Len(ts) + 1], id)
    BY <2>1, <2>3
  <2> QED
    BY <1>1, <2>1, <2>2, <2>3, <2>4 DEF x
<1> HIDE DEF q, r, x
<1>6. Append(q, x) \in Seq(Int) /\ Len(Append(q, x)) = Len(ts) + 1
  BY <1>2, <1>4
<1>7. \A k \in 1 .. Len(ts) + 1 : r[k] = Append(q, x)[k]
  BY <1>1, <1>2, <1>4, <1>5
<1>8. r = Append(q, x)
  BY <1>3, <1>6, <1>7, SeqEqual
<1> QED
  BY <1>2, <1>4, <1>8, TotalAppend, TotalInt DEF Amount, q, r, x, longer

LEMMA AmountOfConcat ==
  ASSUME NEW p \in Seq(TradeType), NEW q \in Seq(TradeType), NEW id
  PROVE  Amount(p \o q, id) = Amount(p, id) + Amount(q, id)
<1> DEFINE all == p \o q
           a == PartsIn(p, id)
           b == PartsIn(q, id)
           c == PartsIn(all, id)
<1>1. /\ all \in Seq(TradeType) /\ Len(all) = Len(p) + Len(q)
      /\ \A i \in 1 .. Len(p) + Len(q) : all[i] = IF i <= Len(p) THEN p[i] ELSE q[i - Len(p)]
      /\ Len(p) \in Nat /\ Len(q) \in Nat
  BY ConcatProperties
<1>2. /\ a \in Seq(Int) /\ Len(a) = Len(p)
      /\ b \in Seq(Int) /\ Len(b) = Len(q)
  BY ONLY p \in Seq(TradeType), q \in Seq(TradeType), PartsAreInts
<1>3. /\ DOMAIN p = 1 .. Len(p) /\ DOMAIN q = 1 .. Len(q)
  BY LenProperties
<1> HIDE DEF all
<1>4. c \in Seq(Int) /\ Len(c) = Len(p) + Len(q) /\ DOMAIN all = 1 .. Len(p) + Len(q)
  BY <1>1, PartsAreInts, LenProperties
<1>5. /\ \A i \in 1 .. Len(p) : a[i] = PartIn(p[i], id)
      /\ \A i \in 1 .. Len(q) : b[i] = PartIn(q[i], id)
      /\ \A i \in 1 .. Len(p) + Len(q) : c[i] = PartIn(all[i], id)
  BY <1>3, <1>4 DEF PartsIn
<1> HIDE DEF a, b, c
<1>6. /\ a \o b \in Seq(Int) /\ Len(a \o b) = Len(p) + Len(q)
      /\ \A i \in 1 .. Len(p) + Len(q) :
           (a \o b)[i] = IF i <= Len(p) THEN a[i] ELSE b[i - Len(p)]
  <2>1. /\ a \o b \in Seq(Int) /\ Len(a \o b) = Len(a) + Len(b)
        /\ \A i \in 1 .. Len(a) + Len(b) :
             (a \o b)[i] = IF i <= Len(a) THEN a[i] ELSE b[i - Len(a)]
    <3>1. a \in Seq(Int) /\ b \in Seq(Int)
      BY <1>2
    <3> QED
      BY ONLY <3>1, ConcatProperties
  <2> QED
    BY <1>2, <2>1
<1>7. ASSUME NEW i \in 1 .. Len(p) + Len(q)
      PROVE  c[i] = (a \o b)[i]
  <2>1. CASE i <= Len(p)
    <3>1. i \in 1 .. Len(p)
      BY <1>1, <2>1
    <3> QED
      BY <1>1, <1>5, <1>6, <2>1, <3>1
  <2>2. CASE ~(i <= Len(p))
    <3>1. i - Len(p) \in 1 .. Len(q)
      BY <1>1, <2>2
    <3>2. c[i] = PartIn(q[i - Len(p)], id)
      BY <1>1, <1>5, <2>2
    <3>3. b[i - Len(p)] = PartIn(q[i - Len(p)], id)
      BY <1>5, <3>1
    <3> QED
      BY <1>6, <2>2, <3>2, <3>3
  <2> QED
    BY <2>1, <2>2
<1>8. c = a \o b
  BY <1>4, <1>6, <1>7, SeqEqual
<1>9. Total(a \o b) = Total(a) + Total(b)
  BY <1>2, TotalConcat
<1> QED
  BY <1>8, <1>9 DEF Amount, a, b, c, all

\* What is appended to both leaves one the end of the other.
LEMMA SuffixMeans ==
  ASSUME NEW S, NEW s \in Seq(S), NEW t \in Seq(S)
  PROVE  IsSuffix(s, t) <=>
           /\ Len(s) <= Len(t)
           /\ \A i \in 1 .. Len(s) : s[i] = t[Len(t) - Len(s) + i]
<1> DEFINE rs == [i \in 1 .. Len(s) |-> s[(Len(s) - i) + 1]]
           rt == [i \in 1 .. Len(t) |-> t[(Len(t) - i) + 1]]
<1>1. Len(s) \in Nat /\ Len(t) \in Nat
  BY LenProperties
<1>2. rs \in [1 .. Len(s) -> S] /\ rt \in [1 .. Len(t) -> S]
  <2>1. \A i \in 1 .. Len(s) : s[(Len(s) - i) + 1] \in S
    BY <1>1, ElementOfSeq
  <2>2. \A i \in 1 .. Len(t) : t[(Len(t) - i) + 1] \in S
    BY <1>1, ElementOfSeq
  <2> QED
    BY <2>1, <2>2
<1>3. \A i \in 1 .. Len(s) : rs[i] = s[(Len(s) - i) + 1]
  OBVIOUS
<1>4. \A i \in 1 .. Len(t) : rt[i] = t[(Len(t) - i) + 1]
  OBVIOUS
<1>5. IsSuffix(s, t) <=> Len(rs) <= Len(rt) /\ SubSeq(rs, 1, Len(rs)) = SubSeq(rt, 1, Len(rs))
  BY DEF IsSuffix, IsPrefix, Reverse
<1> HIDE DEF rs, rt
<1>6. rs \in Seq(S) /\ Len(rs) = Len(s) /\ rt \in Seq(S) /\ Len(rt) = Len(t)
  <2>1. rs \in Seq(S) /\ Len(rs) = Len(s)
    BY <1>1, <1>2
  <2>2. rt \in Seq(S) /\ Len(rt) = Len(t)
    BY <1>1, <1>2
  <2> QED
    BY <2>1, <2>2
<1>7. ASSUME Len(s) <= Len(t)
      PROVE  IsSuffix(s, t) <=> \A i \in 1 .. Len(s) : rs[i] = rt[i]
  <2>1. /\ SubSeq(rs, 1, Len(s)) \in Seq(S) /\ Len(SubSeq(rs, 1, Len(s))) = Len(s)
        /\ \A i \in 1 .. Len(s) : SubSeq(rs, 1, Len(s))[i] = rs[i]
    BY <1>1, <1>6
  <2>2. /\ SubSeq(rt, 1, Len(s)) \in Seq(S) /\ Len(SubSeq(rt, 1, Len(s))) = Len(s)
        /\ \A i \in 1 .. Len(s) : SubSeq(rt, 1, Len(s))[i] = rt[i]
    BY <1>1, <1>6, <1>7
  <2>3. SubSeq(rs, 1, Len(s)) = SubSeq(rt, 1, Len(s)) <=> \A i \in 1 .. Len(s) : rs[i] = rt[i]
    BY <2>1, <2>2, SeqEqual
  <2> QED
    BY <1>5, <1>6, <1>7, <2>3
<1>8. ASSUME Len(s) <= Len(t)
      PROVE  (\A i \in 1 .. Len(s) : rs[i] = rt[i])
               <=> \A i \in 1 .. Len(s) : s[i] = t[Len(t) - Len(s) + i]
  <2>1. \A i \in 1 .. Len(s) : /\ (Len(s) - i) + 1 \in 1 .. Len(s)
                               /\ i \in 1 .. Len(t)
                               /\ (Len(s) - ((Len(s) - i) + 1)) + 1 = i
                               /\ (Len(t) - ((Len(s) - i) + 1)) + 1 = Len(t) - Len(s) + i
                               /\ Len(t) - Len(s) + ((Len(s) - i) + 1) = (Len(t) - i) + 1
    BY <1>1, <1>8
  <2>2. ASSUME \A i \in 1 .. Len(s) : rs[i] = rt[i], NEW i \in 1 .. Len(s)
        PROVE  s[i] = t[Len(t) - Len(s) + i]
    <3> DEFINE j == (Len(s) - i) + 1
    <3>1. j \in 1 .. Len(s) /\ j \in 1 .. Len(t)
      BY <2>1
    <3>2. rs[j] = s[i] /\ rt[j] = t[Len(t) - Len(s) + i]
      BY <1>3, <1>4, <2>1, <3>1
    <3> QED
      BY <2>2, <3>1, <3>2
  <2>3. ASSUME \A i \in 1 .. Len(s) : s[i] = t[Len(t) - Len(s) + i], NEW i \in 1 .. Len(s)
        PROVE  rs[i] = rt[i]
    <3> DEFINE j == (Len(s) - i) + 1
    <3>1. j \in 1 .. Len(s) /\ rs[i] = s[j] /\ rt[i] = t[(Len(t) - i) + 1]
      BY <1>3, <1>4, <2>1
    <3>2. s[j] = t[Len(t) - Len(s) + j] /\ Len(t) - Len(s) + j = (Len(t) - i) + 1
      BY <2>1, <2>3, <3>1
    <3> QED
      BY <3>1, <3>2
  <2> QED
    BY <2>2, <2>3
<1> QED
  BY <1>5, <1>6, <1>7, <1>8

LEMMA SuffixGrows ==
  ASSUME NEW S, NEW s \in Seq(S), NEW t \in Seq(S), NEW u \in Seq(S), IsSuffix(s, t)
  PROVE  IsSuffix(s \o u, t \o u)
<1>1. /\ Len(s) \in Nat /\ Len(t) \in Nat /\ Len(u) \in Nat
      /\ Len(s) <= Len(t) /\ \A i \in 1 .. Len(s) : s[i] = t[Len(t) - Len(s) + i]
  BY SuffixMeans, LenProperties
<1>2. /\ s \o u \in Seq(S) /\ Len(s \o u) = Len(s) + Len(u)
      /\ \A i \in 1 .. Len(s) + Len(u) :
           (s \o u)[i] = IF i <= Len(s) THEN s[i] ELSE u[i - Len(s)]
  BY ConcatProperties
<1>3. /\ t \o u \in Seq(S) /\ Len(t \o u) = Len(t) + Len(u)
      /\ \A i \in 1 .. Len(t) + Len(u) :
           (t \o u)[i] = IF i <= Len(t) THEN t[i] ELSE u[i - Len(t)]
  BY ConcatProperties
<1>4. ASSUME NEW i \in 1 .. Len(s) + Len(u)
      PROVE  (s \o u)[i] = (t \o u)[Len(t) - Len(s) + i]
  <2> DEFINE j == Len(t) - Len(s) + i
  <2>1. j \in 1 .. Len(t) + Len(u) /\ (j <= Len(t) <=> i <= Len(s)) /\ j - Len(t) = i - Len(s)
    BY <1>1
  <2>2. (t \o u)[j] = IF i <= Len(s) THEN t[j] ELSE u[i - Len(s)]
    BY <1>3, <2>1
  <2>3. i <= Len(s) => s[i] = t[j]
    BY <1>1
  <2> QED
    BY <1>2, <2>2, <2>3
<1>5. Len(t \o u) - Len(s \o u) = Len(t) - Len(s) /\ Len(s \o u) <= Len(t \o u)
  BY <1>1, <1>2, <1>3
<1>6. \A i \in 1 .. Len(s \o u) : (s \o u)[i] = (t \o u)[Len(t \o u) - Len(s \o u) + i]
  BY <1>2, <1>4, <1>5
<1> QED
  BY <1>2, <1>3, <1>5, <1>6, SuffixMeans

LEMMA NothingIsSuffix ==
  ASSUME NEW S, NEW t \in Seq(S)
  PROVE  IsSuffix(<< >>, t)
<1> DEFINE none == << >>
<1>1. none \in Seq(S) /\ Len(none) = 0 /\ Len(t) \in Nat
  BY LenProperties
<1> HIDE DEF none
<1>2. Len(none) <= Len(t) /\ \A i \in 1 .. Len(none) : none[i] = t[Len(t) - Len(none) + i]
  BY <1>1
<1>3. IsSuffix(none, t)
  BY ONLY <1>1, <1>2, t \in Seq(S), SuffixMeans
<1> QED
  BY <1>3 DEF none

-----------------------------------------------------------------------------
(***************************************************************************)
(* Ids are used once: what waits in the queue or is about to has not been  *)
(* heard of, and no two of these orders share an id.                       *)
(***************************************************************************)
\* The caller has been told of the id, or its order is being processed.
Touched(id) == told[id] # NoReport \/ (op = "process" /\ taker.id = id)

PlaceInv ==
  /\ pc = "idle" => op = "none"
  /\ pc \in {"match", "level"} => op = "process"
  /\ \A id \in OrderIds : News(id) # NoReport => Touched(id)

OnTheWay(queue, in, out) ==
  /\ \A k \in DOMAIN queue : ~Touched(queue[k].id) /\ \E j \in DOMAIN out : out[j].id = queue[k].id
  /\ \A j, k \in DOMAIN queue : j # k => queue[j].id # queue[k].id
  /\ in # NoOrder => ~Touched(in.id) /\ \A k \in DOMAIN queue : queue[k].id # in.id

FreshInv == PlaceInv /\ sent \in Seq(Orders) /\ OnTheWay(waiting, inFlight, sent)

TouchedAfter(id) == told'[id] # NoReport \/ (op' = "process" /\ taker'.id = id)

LEMMA RestingIsNews ==
  ASSUME NewsInv, NEW id \in OrderIds
  PROVE  /\ id \in RestingIds => News(id) # NoReport
         /\ op = "process" /\ pc = "done" /\ id = taker.id => News(id) # NoReport
BY DEF NewsInv, NoReport, Report

LEMMA SubmitsStart ==
  ASSUME NEW o \in Orders, Submit(o)
  PROVE  /\ pc = "idle" /\ pc' \in {"match", "done"} /\ op' = "process" /\ taker' = o
         /\ left' = o.quantity /\ trades' = trades /\ UNCHANGED bookVars
         /\ o.id \in OrderIds /\ (~ReuseIds => o.id \notin RestingIds)
BY DEF Submit, Accept, Reject, Enter, EnterProcess, StartMatching, TurnAway, OrderIds

\* Only a new call touches an id.
LEMMA TouchGrows ==
  ASSUME FlowTypeOK, NewsInv, PlaceInv, [PipelineNext]_pipelineVars,
         NEW id \in OrderIds, TouchedAfter(id)
  PROVE  Touched(id) \/ \E o \in Orders : Submit(o) /\ id = o.id
<1>1. CASE UNCHANGED <<vars, told>>
  BY <1>1 DEF vars, callVars, argVars, Touched, TouchedAfter
<1>2. CASE Publish
  BY <1>2 DEF Publish, Return, EndCall, PlaceInv, TouchedAfter
<1>3. ASSUME NEW o \in Orders, Submit(o), told' = told
      PROVE  Touched(id) \/ id = o.id
  BY <1>3, SubmitsStart DEF Touched, TouchedAfter
<1>4. CASE (BeginLevel \/ EndLevel \/ FillMaker \/ FillTaker \/ Conclude \/ Rest) /\ told' = told
  BY <1>4 DEF BeginLevel, EndLevel, FillMaker, FillTaker, Conclude, Rest, argVars, Touched, TouchedAfter
<1>5. ASSUME NEW other \in OrderIds, CancelUnknown(other) \/ CancelKnown(other), told' = told
      PROVE  Touched(id)
  BY <1>5 DEF CancelUnknown, CancelKnown, EnterCancel, Touched, TouchedAfter
<1> QED
  BY <1>1, <1>2, <1>3, <1>4, <1>5, StepKinds

LEMMA PlaceStays ==
  ASSUME PricesFit, FlowTypeOK, IdsInv, NewsInv, PlaceInv, [PipelineNext]_pipelineVars
  PROVE  PlaceInv'
<1>1. ASSUME \A id \in OrderIds : NewsAfter(id) # NoReport => TouchedAfter(id),
             pc' = "idle" => op' = "none", pc' \in {"match", "level"} => op' = "process"
      PROVE  PlaceInv'
  BY <1>1 DEF PlaceInv, Touched, TouchedAfter, News, NewsAfter, NewsIn
<1>2. CASE UNCHANGED <<vars, told>>
  BY <1>1, <1>2, NewsIsNewsIn DEF vars, callVars, argVars, eventVars, PlaceInv, Touched, TouchedAfter, NewsAfter
<1>3. CASE Publish
  <2>1. /\ pc' = "idle" /\ op' = "none" /\ reports' = << >>
        /\ told' = [id \in OrderIds |-> News(id)]
    BY <1>3 DEF Publish, Return, EndCall
  <2>2. \A id \in OrderIds : NewsAfter(id) = told'[id]
    BY <2>1, NewsOfNone DEF NewsAfter
  <2> QED
    BY <1>1, <2>1, <2>2 DEF TouchedAfter
<1>4. ASSUME NEW o \in Orders, Submit(o), told' = told
      PROVE  PlaceInv'
  <2>1. pc = "idle" /\ pc' \in {"match", "done"} /\ op' = "process" /\ taker' = o /\ reports = << >>
    BY <1>4, SubmitsStart DEF NewsInv
  <2>2. \A id \in OrderIds : id # o.id => NewsAfter(id) = News(id)
    <3>1. CASE Accept(o)
      BY <1>4, <3>1, NewsIsNewsIn DEF NewsAfter, Accept, StartMatching
    <3>2. CASE Reject(o)
      BY <1>4, <2>1, <3>2, NewsOfRejection, NewsOfNone, NewsIsNewsIn DEF NewsAfter
    <3> QED
      BY <1>4, <3>1, <3>2 DEF Submit
  <2>3. \A id \in OrderIds : NewsAfter(id) # NoReport => TouchedAfter(id)
    BY <1>4, <2>1, <2>2 DEF TouchedAfter, Touched, PlaceInv
  <2> QED
    BY <1>1, <2>1, <2>3
<1>5. CASE (BeginLevel \/ EndLevel \/ FillTaker \/ FillMaker \/ Conclude \/ Rest) /\ told' = told
  <2>1. /\ op = "process" /\ op' = op /\ taker' = taker
        /\ pc' \in {"match", "level", "done"}
    BY <1>5 DEF BeginLevel, EndLevel, FillMaker, FillTaker, Conclude, Rest, MatchOver, ReportTaker,
                argVars, PlaceInv
  <2>2. \A id \in OrderIds : TouchedAfter(id) <=> Touched(id)
    BY <1>5, <2>1 DEF TouchedAfter, Touched
  <2>3. ASSUME NEW id \in OrderIds, NewsAfter(id) # News(id)
        PROVE  Touched(id)
    <3>1. CASE BeginLevel \/ EndLevel \/ FillTaker
      BY <1>5, <2>3, <3>1, NewsIsNewsIn DEF BeginLevel, EndLevel, FillTaker, eventVars, NewsAfter
    <3>2. CASE FillMaker
      <4>1. id = orders[FirstSlot].id
        BY <1>5, <2>3, <3>2, NewsOfFill, NewsIsNewsIn DEF NewsAfter
      <4>2. id \in RestingIds
        BY <3>2, <4>1, FillMakerOnIds
      <4> QED
        BY <4>2, RestingIsNews DEF PlaceInv
    <3>3. CASE Conclude \/ Rest
      <4>1. id = taker.id
        BY <1>5, <2>3, <3>3, NewsOfEnd, NewsIsNewsIn DEF NewsAfter
      <4> QED
        BY <2>1, <4>1 DEF Touched
    <3> QED
      BY <1>5, <3>1, <3>2, <3>3
  <2>4. \A id \in OrderIds : NewsAfter(id) # NoReport => TouchedAfter(id)
    BY <2>2, <2>3 DEF PlaceInv
  <2> QED
    BY <1>1, <2>1, <2>4
<1>6. ASSUME NEW id \in OrderIds, CancelUnknown(id) \/ CancelKnown(id), told' = told
      PROVE  PlaceInv'
  <2>1. pc = "idle" /\ pc' = "done" /\ op' = "cancel" /\ op = "none" /\ reports = << >>
    BY <1>6 DEF CancelUnknown, CancelKnown, EnterCancel, PlaceInv, NewsInv
  <2>2. ASSUME NEW other \in OrderIds, NewsAfter(other) # News(other)
        PROVE  other \in RestingIds
    <3>1. CancelKnown(id)
      BY <1>6, <2>2, NewsIsNewsIn DEF CancelUnknown, NewsAfter
    <3>2. other = id
      BY <1>6, <2>1, <2>2, <3>1, NewsOfCancel, NewsOfNone, NewsIsNewsIn DEF NewsAfter
    <3> QED
      BY <3>1, <3>2, CancelOnIds
  <2>3. \A other \in OrderIds : NewsAfter(other) # NoReport => Touched(other)
    BY <2>2, RestingIsNews DEF PlaceInv
  <2>4. \A other \in OrderIds : NewsAfter(other) # NoReport => TouchedAfter(other)
    BY <1>6, <2>1, <2>3 DEF Touched, TouchedAfter
  <2> QED
    BY <1>1, <2>1, <2>4
<1> QED
  BY <1>2, <1>3, <1>4, <1>5, <1>6, StepKinds

LEMMA FreshIsUntouched == \A id : Fresh(id) => ~Touched(id)
BY DEF Fresh, Touched

LEMMA WayAfter ==
  ASSUME PlaceInv', sent' \in Seq(Orders),
         \A k \in DOMAIN waiting' : /\ ~TouchedAfter(waiting'[k].id)
                                    /\ \E j \in DOMAIN sent' : sent'[j].id = waiting'[k].id,
         \A j, k \in DOMAIN waiting' : j # k => waiting'[j].id # waiting'[k].id,
         inFlight' # NoOrder => /\ ~TouchedAfter(inFlight'.id)
                                /\ \A k \in DOMAIN waiting' : waiting'[k].id # inFlight'.id
  PROVE  FreshInv'
BY DEF FreshInv, OnTheWay, Touched, TouchedAfter

\* Of what the queue gives to the engine, and of what overtakes it, nothing has been
\* heard before.
LEMMA SubmittedIsUntouched ==
  ASSUME FlowTypeOK, FreshInv, [PipelineNext]_pipelineVars, NEW o \in Orders, Submit(o)
  PROVE  /\ ~Touched(o.id)
         /\ Pop \/ \E c \in ClientOrders : SubmitDirect(c)
<1>1. pc = "idle" /\ pc' # "idle" /\ op' = "process" /\ taker' = o
  BY SubmitsStart
<1>2. CASE Pop
  <2>1. waiting # << >> /\ waiting \in Seq(Orders) /\ Submit(Head(waiting))
    BY <1>2 DEF Pop, Queue!Pop, FlowTypeOK
  <2>2. Head(waiting) = waiting[1] /\ 1 \in DOMAIN waiting /\ Head(waiting) \in Orders
    BY <2>1, HeadTailProperties, EmptySeq, LenProperties
  <2>3. taker' = Head(waiting)
    BY <2>1, <2>2, SubmitsStart
  <2> QED
    BY <1>1, <1>2, <2>2, <2>3 DEF FreshInv, OnTheWay
<1>3. ASSUME NEW c \in ClientOrders, SubmitDirect(c)
      PROVE  ~Touched(o.id)
  <2>1. /\ Stamp(c, nextSequence) \in Orders /\ Submit(Stamp(c, nextSequence)) /\ Fresh(c.id)
    BY <1>3, StampProperties DEF SubmitDirect, FetchAdd, FlowTypeOK
  <2>2. o = Stamp(c, nextSequence)
    BY <1>1, <2>1, SubmitsStart
  <2>3. o.id = c.id
    BY <2>2, GatewayAssumption DEF Stamp, IncomingOrder
  <2> QED
    BY <2>1, <2>3, FreshIsUntouched
<1>4. CASE Advance \/ Publish \/ \E id \in OrderIds : Cancel(id)
  BY <1>1, <1>4 DEF Advance, Match, BeginLevel, EndLevel, FillMaker, FillTaker, Conclude, Rest,
                    MatchOver, Publish, Return, EndCall, Cancel, CancelUnknown, CancelKnown, EnterCancel
<1>5. CASE \/ \E c \in ClientOrders : TakeNumber(c)
           \/ \E h \in 0 .. MaxSubmissions : Push(h)
           \/ ClearRecent \/ Subscribe
  BY <1>1, <1>5 DEF TakeNumber, Push, ClearRecent, Subscribe, vars, callVars
<1>6. CASE UNCHANGED pipelineVars
  BY <1>1, <1>6 DEF pipelineVars, vars, callVars
<1> QED
  BY <1>2, <1>3, <1>4, <1>5, <1>6 DEF PipelineNext

LEMMA FreshStays ==
  ASSUME PricesFit, FlowTypeOK, IdsInv, NewsInv, FreshInv, [PipelineNext]_pipelineVars
  PROVE  FreshInv'
<1>1. PlaceInv' /\ FlowTypeOK'
  BY PlaceStays, NextFlow DEF FreshInv
<1>2. /\ waiting \in Seq(Orders) /\ sent \in Seq(Orders) /\ inFlight \in Orders \cup {NoOrder}
      /\ Len(waiting) \in Nat /\ DOMAIN waiting = 1 .. Len(waiting) /\ DOMAIN sent = 1 .. Len(sent)
      /\ Len(sent) \in Nat
      /\ \A k \in DOMAIN waiting : waiting[k].id \in OrderIds
      /\ inFlight # NoOrder => inFlight.id \in OrderIds
  BY LenProperties, ElementOfSeq DEF FlowTypeOK, FreshInv, OrderIds
<1>3. /\ \A k \in DOMAIN waiting : ~Touched(waiting[k].id) /\ \E j \in DOMAIN sent : sent[j].id = waiting[k].id
      /\ \A j, k \in DOMAIN waiting : j # k => waiting[j].id # waiting[k].id
      /\ inFlight # NoOrder => ~Touched(inFlight.id) /\ \A k \in DOMAIN waiting : waiting[k].id # inFlight.id
  BY DEF FreshInv, OnTheWay
<1>4. \A id \in OrderIds : TouchedAfter(id) => Touched(id) \/ \E o \in Orders : Submit(o) /\ id = o.id
  BY TouchGrows DEF FreshInv
<1>5. CASE UNCHANGED ingressVars /\ ~\E o \in Orders : Submit(o)
  <2>1. UNCHANGED <<waiting, sent, inFlight>>
    BY <1>5 DEF ingressVars, queueVars, gatewayVars
  <2>2. \A id \in OrderIds : TouchedAfter(id) => Touched(id)
    BY <1>4, <1>5
  <2> QED
    BY <1>1, <1>2, <1>3, <2>1, <2>2, WayAfter
<1>6. ASSUME UNCHANGED <<vars, told>>
      PROVE  \A id : TouchedAfter(id) <=> Touched(id)
  BY <1>6 DEF Touched, TouchedAfter, vars, callVars, argVars
<1>7. ASSUME NEW o \in ClientOrders, TakeNumber(o)
      PROVE  FreshInv'
  <2>1. /\ Fresh(o.id) /\ inFlight' = Stamp(o, nextSequence) /\ UNCHANGED <<waiting, sent>>
        /\ UNCHANGED <<vars, told>>
    BY <1>7 DEF TakeNumber, BeginSubmit, queueVars
  <2>2. Stamp(o, nextSequence).id = o.id
    BY GatewayAssumption DEF Stamp, IncomingOrder
  <2>3. ~Touched(o.id) /\ \A k \in DOMAIN sent : sent[k].id # o.id
    BY <2>1, FreshIsUntouched DEF Fresh
  <2> QED
    BY <1>1, <1>2, <1>3, <1>6, <2>1, <2>2, <2>3, WayAfter
<1>8. ASSUME NEW h, Push(h)
      PROVE  FreshInv'
  <2>1. inFlight # NoOrder /\ inFlight' = NoOrder /\ UNCHANGED <<vars, told>> /\ inFlight \in Orders
    BY <1>2, <1>8 DEF Push, EndSubmit
  <2>2. CASE UNCHANGED <<waiting, sent>>
    BY <1>1, <1>2, <1>3, <1>6, <2>1, <2>2, WayAfter
  <2>3. CASE Queue!Push(inFlight)
    <3> DEFINE n == Len(waiting)
               m == Len(sent)
    <3>1. waiting' = Append(waiting, inFlight) /\ sent' = Append(sent, inFlight)
      BY <2>3 DEF Queue!Push
    <3>2. /\ DOMAIN waiting' = 1 .. n + 1 /\ DOMAIN sent' = 1 .. m + 1 /\ sent' \in Seq(Orders)
          /\ \A k \in 1 .. n : waiting'[k] = waiting[k]
          /\ \A k \in 1 .. m : sent'[k] = sent[k]
          /\ waiting'[n + 1] = inFlight /\ sent'[m + 1] = inFlight
      BY <1>2, <2>1, <3>1
    <3>3. ASSUME NEW k \in DOMAIN waiting'
          PROVE  /\ ~TouchedAfter(waiting'[k].id)
                 /\ \E j \in DOMAIN sent' : sent'[j].id = waiting'[k].id
      <4>1. CASE k \in 1 .. n
        BY <1>2, <1>3, <1>6, <2>1, <3>2, <4>1
      <4>2. CASE k = n + 1
        <5>1. m + 1 \in DOMAIN sent'
          BY <1>2, <3>2
        <5> QED
          BY <1>3, <1>6, <2>1, <3>2, <4>2, <5>1
      <4> QED
        BY <1>2, <3>2, <4>1, <4>2
    <3>4. ASSUME NEW j \in DOMAIN waiting', NEW k \in DOMAIN waiting', j # k
          PROVE  waiting'[j].id # waiting'[k].id
      <4>1. (j \in 1 .. n \/ j = n + 1) /\ (k \in 1 .. n \/ k = n + 1)
        BY <1>2, <3>2
      <4> QED
        BY <1>2, <1>3, <2>1, <3>2, <3>4, <4>1
    <3> QED
      BY <1>1, <2>1, <3>2, <3>3, <3>4, WayAfter
  <2> QED
    BY <1>8, <2>2, <2>3 DEF Push
<1>9. CASE Pop
  <2> DEFINE n == Len(waiting)
             o == Head(waiting)
  <2>1. /\ waiting # << >> /\ waiting' = Tail(waiting) /\ UNCHANGED <<sent, inFlight>> /\ Submit(o)
    BY <1>9 DEF Pop, Queue!Pop, gatewayVars
  <2>2. /\ o \in Orders /\ o = waiting[1] /\ 1 \in DOMAIN waiting
        /\ DOMAIN waiting' = 1 .. n - 1
        /\ \A k \in 1 .. n - 1 : waiting'[k] = waiting[k + 1] /\ k + 1 \in DOMAIN waiting
    <3>1. /\ o \in Orders /\ o = waiting[1] /\ Tail(waiting) \in Seq(Orders) /\ Len(Tail(waiting)) = n - 1
          /\ \A k \in 1 .. Len(Tail(waiting)) : Tail(waiting)[k] = waiting[k + 1]
      BY <1>2, <2>1, HeadTailProperties, EmptySeq
    <3>2. n # 0 /\ n \in Nat
      BY <1>2, <2>1, EmptySeq
    <3>3. DOMAIN Tail(waiting) = 1 .. n - 1
      BY <3>1, LenProperties
    <3> QED
      BY <1>2, <2>1, <3>1, <3>2, <3>3
  <2>3. \A id \in OrderIds : TouchedAfter(id) => Touched(id) \/ id = o.id
    <3>1. \A x \in Orders : Submit(x) => x = o
      BY <2>1, <2>2, SubmitsStart
    <3> QED
      BY <1>4, <3>1
  <2> HIDE DEF o, n
  <2>4. ASSUME NEW k \in DOMAIN waiting'
        PROVE  /\ ~TouchedAfter(waiting'[k].id)
               /\ \E j \in DOMAIN sent' : sent'[j].id = waiting'[k].id
    <3>1. k + 1 \in DOMAIN waiting /\ waiting'[k] = waiting[k + 1] /\ k + 1 # 1
      BY <2>2
    <3>2. waiting[k + 1].id # o.id
      BY <1>3, <2>2, <3>1
    <3> QED
      BY <1>2, <1>3, <2>1, <2>3, <3>1, <3>2
  <2>5. \A j, k \in DOMAIN waiting' : j # k => waiting'[j].id # waiting'[k].id
    <3> TAKE j, k \in DOMAIN waiting'
    <3>1. /\ waiting'[j] = waiting[j + 1] /\ waiting'[k] = waiting[k + 1]
          /\ j + 1 \in DOMAIN waiting /\ k + 1 \in DOMAIN waiting
          /\ j # k => j + 1 # k + 1
      BY <2>2
    <3> QED
      BY <1>3, <3>1
  <2>6. inFlight' # NoOrder => /\ ~TouchedAfter(inFlight'.id)
                               /\ \A k \in DOMAIN waiting' : waiting'[k].id # inFlight'.id
    BY <1>2, <1>3, <2>1, <2>2, <2>3
  <2> QED
    BY <1>1, <1>2, <2>1, <2>4, <2>5, <2>6, WayAfter
<1>10. ASSUME NEW c \in ClientOrders, SubmitDirect(c)
       PROVE  FreshInv'
  <2> DEFINE o == Stamp(c, nextSequence)
  <2>1. /\ UNCHANGED <<waiting, sent, inFlight>> /\ Submit(o) /\ o \in Orders
        /\ Fresh(c.id) /\ (inFlight # NoOrder => c.id # inFlight.id)
    BY <1>10, StampProperties DEF SubmitDirect, queueVars, FetchAdd, FlowTypeOK
  <2>2. o.id = c.id
    BY GatewayAssumption DEF Stamp, IncomingOrder
  <2>3. \A id \in OrderIds : TouchedAfter(id) => Touched(id) \/ id = c.id
    <3>1. \A x \in Orders : Submit(x) => x = o
      BY <2>1, SubmitsStart
    <3> QED
      BY <1>4, <2>2, <3>1
  <2>4. \A k \in DOMAIN waiting : waiting[k].id # c.id
    BY <1>3, <2>1 DEF Fresh
  <2> QED
    BY <1>1, <1>2, <1>3, <2>1, <2>3, <2>4, WayAfter
<1>11. CASE \/ Advance \/ Publish \/ ClearRecent \/ Subscribe
            \/ \E id \in OrderIds : Cancel(id)
            \/ UNCHANGED pipelineVars
  <2>1. UNCHANGED ingressVars
    BY <1>11 DEF Advance, Publish, ClearRecent, Subscribe, Cancel, pipelineVars
  <2>2. ~\E o \in Orders : Submit(o)
    <3> SUFFICES ASSUME NEW o \in Orders, Submit(o)
                 PROVE  FALSE
      OBVIOUS
    <3>1. pc = "idle" /\ pc' # "idle" /\ op' = "process"
      BY SubmitsStart
    <3> QED
      BY <1>11, <3>1 DEF Advance, Match, BeginLevel, EndLevel, FillMaker, FillTaker, Conclude, Rest,
            MatchOver, Publish, Return, EndCall, Cancel, CancelUnknown, CancelKnown, EnterCancel,
            ClearRecent, Subscribe, pipelineVars, vars, callVars
  <2> QED
    BY <1>5, <2>1, <2>2
<1> QED
  BY <1>7, <1>8, <1>9, <1>10, <1>11 DEF PipelineNext

LEMMA InitFresh == PipelineInit => FreshInv
<1> SUFFICES ASSUME PipelineInit
             PROVE  FreshInv
  OBVIOUS
<1>1. /\ pc = "idle" /\ op = "none" /\ reports = << >> /\ inFlight = NoOrder
      /\ waiting = << >> /\ sent = << >>
      /\ \A id \in OrderIds : told[id] = NoReport
  BY DEF PipelineInit, Init, NoCall, GatewayInit, Queue!Init
<1>2. \A id \in OrderIds : News(id) = NoReport
  BY <1>1, NewsIsNewsIn, NewsOfNone
<1>3. sent \in Seq(Orders)
  BY <1>1
<1>4. DOMAIN waiting = {}
  BY <1>1
<1> QED
  BY <1>1, <1>2, <1>3, <1>4 DEF FreshInv, PlaceInv, OnTheWay

-----------------------------------------------------------------------------
(***************************************************************************)
(* The feed, the book and the reports.                                     *)
(***************************************************************************)
\* Nothing has been submitted yet: the moment to subscribe.
Silence ==
  /\ feed = << >> /\ recentTrades = << >> /\ trades = << >> /\ reports = << >>
  /\ RestingIds = {} /\ pc \in {"idle", "done"}
  /\ waiting = << >> /\ inFlight = NoOrder
  /\ \A id \in OrderIds : told[id] = NoReport

\* What an order has traded, by the book, by the call in progress, or by the news.
Traded(id) ==
  IF id \in RestingIds THEN OrderOf(id).quantity - OrderOf(id).remaining
  ELSE IF pc \in {"match", "level"} /\ id = taker.id THEN taker.quantity - left
  ELSE News(id).filled

FeedInv ==
  /\ feed \in Seq(TradeType) /\ recentTrades \in Seq(TradeType)
  /\ pc = "idle" => trades = << >>
  /\ nextSequence = 1 => Silence
  /\ subscribed =>
       /\ IsSuffix(recentTrades, feed)
       /\ \A id \in OrderIds : Amount(feed, id) + Amount(trades, id) = Traded(id)

TradedAfter(id) ==
  IF id \in RestingIds' THEN OrderAfter(id).quantity - OrderAfter(id).remaining
  ELSE IF pc' \in {"match", "level"} /\ id = taker'.id THEN taker'.quantity - left'
  ELSE NewsAfter(id).filled

SumsHold == \A id \in OrderIds : Amount(feed', id) + Amount(trades', id) = TradedAfter(id)

LEMMA FeedAfter ==
  ASSUME feed' \in Seq(TradeType), recentTrades' \in Seq(TradeType),
         pc' = "idle" => trades' = << >>,
         nextSequence' = 1 => Silence',
         subscribed' => IsSuffix(recentTrades', feed') /\ SumsHold
  PROVE  FeedInv'
<1>1. \A id : Traded(id)' = TradedAfter(id)
  BY DEF Traded, TradedAfter, OrderOf, OrderAfter, News, NewsAfter, NewsIn
<1>2. \A id : Amount(feed, id)' = Amount(feed', id) /\ Amount(trades, id)' = Amount(trades', id)
  BY DEF Amount, PartsIn, PartIn
<1> QED
  BY <1>1, <1>2 DEF FeedInv, SumsHold

LEMMA SilenceStays ==
  ASSUME PricesFit, FlowTypeOK, IdsInv, NewsInv, FeedInv, [PipelineNext]_pipelineVars, nextSequence' = 1
  PROVE  Silence'
<1>1. nextSequence = 1 /\ Silence
  <2>1. ASSUME NEW o \in ClientOrders, TakeNumber(o) \/ SubmitDirect(o)
        PROVE  FALSE
    BY <2>1 DEF TakeNumber, BeginSubmit, SubmitDirect, FetchAdd, FlowTypeOK
  <2>2. nextSequence' = nextSequence
    BY <2>1 DEF PipelineNext, Push, EndSubmit, Pop, gatewayVars, Cancel, Advance, Publish, ClearRecent,
                Subscribe, ingressVars, pipelineVars
  <2> QED
    BY <2>2 DEF FeedInv
<1>2. CASE UNCHANGED <<vars, told>> /\ UNCHANGED ingressVars
           /\ (UNCHANGED feed /\ recentTrades' \in {recentTrades, << >>})
  <2>1. RestingIds' = RestingIds
    BY <1>2, SameIds DEF vars
  <2> QED
    BY <1>1, <1>2, <2>1 DEF Silence, vars, callVars, eventVars, ingressVars, gatewayVars, queueVars
<1>3. CASE ClearRecent \/ Subscribe \/ UNCHANGED pipelineVars
  BY <1>2, <1>3 DEF ClearRecent, Clear, Subscribe, SetTradeCallback, pipelineVars, handlerVars
<1>4. CASE Publish
  <2>1. /\ UNCHANGED bookVars /\ UNCHANGED ingressVars /\ pc' = "idle" /\ reports' = << >> /\ trades' = << >>
        /\ told' = [id \in OrderIds |-> News(id)]
        /\ recentTrades' = recentTrades \o trades
        /\ feed' = IF subscribed THEN feed \o trades ELSE feed
    BY <1>4 DEF Publish, Return, EndCall, OnMatchEvent
  <2>2. \A id \in OrderIds : News(id) = NoReport
    BY <1>1, NewsIsNewsIn, NewsOfNone DEF Silence
  <2>3. << >> \o << >> = << >>
    OBVIOUS
  <2>4. RestingIds' = RestingIds
    BY <2>1, SameIds
  <2> QED
    BY <1>1, <2>1, <2>2, <2>3, <2>4 DEF Silence, ingressVars, gatewayVars, queueVars
<1>5. ASSUME NEW id \in OrderIds, Cancel(id)
      PROVE  Silence'
  <2>1. ~CancelKnown(id)
    BY <1>1, CancelOnIds DEF Silence
  <2>2. CancelUnknown(id) /\ UNCHANGED <<ingressVars, handlerVars, told>>
    BY <1>5, <2>1 DEF Cancel
  <2>3. UNCHANGED <<bookVars, reports, trades>> /\ pc' = "done"
    BY <2>2 DEF CancelUnknown, EnterCancel
  <2>4. RestingIds' = RestingIds
    BY <2>3, SameIds
  <2> QED
    BY <1>1, <2>2, <2>3, <2>4 DEF Silence, ingressVars, gatewayVars, queueVars, handlerVars
<1>6. ASSUME NEW o \in ClientOrders, TakeNumber(o) \/ SubmitDirect(o)
      PROVE  FALSE
  BY <1>1, <1>6 DEF TakeNumber, BeginSubmit, SubmitDirect, FetchAdd
<1>7. ~Pop /\ ~Advance /\ \A h : ~Push(h)
  BY <1>1 DEF Silence, Pop, Queue!Pop, Advance, Match, BeginLevel, EndLevel, FillMaker, FillTaker,
              Conclude, Rest, MatchOver, Push, EndSubmit
<1> QED
  BY <1>3, <1>4, <1>5, <1>6, <1>7 DEF PipelineNext

\* A trade counts for its two orders.
LEMMA AmountOfTrade ==
  ASSUME IdsInv, NEW maker, NEW quantity \in Int,
         Trade(taker, maker, quantity) \in TradeType,
         trades' = Append(trades, Trade(taker, maker, quantity)), NEW id
  PROVE  /\ Amount(trades, id) \in Int
         /\ Amount(trades', id) = Amount(trades, id)
              + (IF id = taker.id \/ id = maker.id THEN quantity ELSE 0)
<1>1. trades \in Seq(TradeType)
  BY DEF IdsInv, TypeOK, CallTypeOK
<1>2. PartIn(Trade(taker, maker, quantity), id)
        = IF id = taker.id \/ id = maker.id THEN quantity ELSE 0
  BY DEF PartIn, Trade
<1> DEFINE t == Trade(taker, maker, quantity)
<1> HIDE DEF t
<1>3. t \in TradeType /\ trades' = Append(trades, t)
  BY DEF t
<1>4. Amount(trades, id) \in Int /\ Amount(Append(trades, t), id) = Amount(trades, id) + PartIn(t, id)
  BY ONLY <1>1, <1>3, AmountOfAppend
<1> QED
  BY <1>2, <1>3, <1>4 DEF t

LEMMA AmountsAreInts ==
  ASSUME TypeOK, FeedInv, NEW id
  PROVE  Amount(feed, id) \in Int /\ Amount(trades, id) \in Int
<1>1. feed \in Seq(TradeType) /\ trades \in Seq(TradeType)
  BY DEF FeedInv, TypeOK, CallTypeOK
<1> QED
  BY <1>1, PartsAreInts, TotalInt DEF Amount

\* What a fill adds to the trades, the book, the call and the news account for.
LEMMA FillKeepsSums ==
  ASSUME IdsInv, NewsInv, FeedInv, FillMaker \/ FillTaker, subscribed, told' = told, feed' = feed
  PROVE  SumsHold
<1> DEFINE maker == orders[FirstSlot]
           quantity == IF FillMaker THEN maker.remaining ELSE left
<1>1. /\ trades' = Append(trades, Trade(taker, maker, quantity)) /\ left' = left - quantity
      /\ UNCHANGED <<taker, pc>> /\ pc = "level"
  BY DEF FillMaker, FillTaker, TradeWith, argVars
<1>2. FirstSlot \in Slots
  BY <1>1, FirstIsSlot DEF FillMaker, FillTaker, IdsInv
<1>3. /\ quantity \in Int /\ Trade(taker, maker, quantity) \in TradeType /\ left \in Int
      /\ taker.quantity \in Int /\ maker.quantity \in Int /\ maker.remaining \in Int /\ maker \in SlotType
  BY <1>2, FieldTypes, TradeIsTyped DEF IdsInv
<1>4. maker.id \in RestingIds /\ maker.id # taker.id /\ OrderOf(maker.id) = maker
  BY FillMakerOnIds, FillTakerOnIds
<1>5. taker.id \notin RestingIds /\ taker.id \notin RestingIds'
  BY <1>1, <1>4, FillMakerOnIds, FillTakerOnIds DEF IdsInv, TakerFresh
<1>6. ASSUME FillTaker
      PROVE  /\ RestingIds' = RestingIds /\ quantity = left
             /\ OrderAfter(maker.id).quantity = maker.quantity
             /\ OrderAfter(maker.id).remaining = maker.remaining - left
             /\ \A id \in RestingIds \ {maker.id} : OrderAfter(id) = OrderOf(id)
             /\ reports' = reports
  <2>1. maker.remaining - left \in Int /\ "PartiallyFilled" \in Statuses
    BY <1>3 DEF Statuses
  <2>2. /\ Reduced(maker, maker.remaining - left, "PartiallyFilled").remaining = maker.remaining - left
        /\ Reduced(maker, maker.remaining - left, "PartiallyFilled").quantity = maker.quantity
    BY ONLY <1>3, <2>1, ReducedProperties
  <2>3. ~FillMaker
    BY <1>3, <1>6 DEF FillMaker, FillTaker
  <2>4. reports' = reports
    BY <1>6 DEF FillTaker
  <2> QED
    BY <1>6, <2>2, <2>3, <2>4, FillTakerOnIds
<1>7. ASSUME FillMaker
      PROVE  /\ RestingIds' = RestingIds \ {maker.id} /\ quantity = maker.remaining
             /\ NewsAfter(maker.id).filled = maker.quantity
             /\ \A id : id # maker.id => NewsAfter(id) = News(id)
             /\ \A id \in RestingIds \ {maker.id} : OrderAfter(id) = OrderOf(id)
  BY <1>7, FillMakerOnIds, NewsOfFill, NewsIsNewsIn DEF NewsAfter
<1>8. FillTaker => \A id : NewsAfter(id) = News(id)
  BY <1>6, NewsIsNewsIn DEF NewsAfter
<1> HIDE DEF maker, quantity
<1>9. SUFFICES ASSUME NEW id \in OrderIds
               PROVE  Amount(feed', id) + Amount(trades', id) = TradedAfter(id)
  BY DEF SumsHold
<1>10. /\ Amount(feed, id) + Amount(trades, id) = Traded(id)
       /\ Amount(feed, id) \in Int /\ Amount(trades, id) \in Int
       /\ Amount(feed', id) = Amount(feed, id)
  BY AmountsAreInts DEF FeedInv, IdsInv
<1>11. Amount(trades', id) = Amount(trades, id)
         + (IF id = taker.id \/ id = maker.id THEN quantity ELSE 0)
  BY <1>1, <1>3, AmountOfTrade
<1>12. CASE id = taker.id
  <2>1. Traded(id) = taker.quantity - left /\ TradedAfter(id) = taker.quantity - (left - quantity)
    BY <1>1, <1>5, <1>12 DEF Traded, TradedAfter
  <2> QED
    BY <1>3, <1>10, <1>11, <1>12, <2>1
<1>13. CASE id = maker.id
  <2>1. Traded(id) = maker.quantity - maker.remaining
    BY <1>4, <1>13 DEF Traded
  <2>2. TradedAfter(id) = maker.quantity - (maker.remaining - quantity)
    <3>1. CASE FillMaker
      <4>1. TradedAfter(id) = maker.quantity
        BY <1>1, <1>4, <1>7, <1>13, <3>1 DEF TradedAfter
      <4> QED
        BY <1>3, <1>7, <3>1, <4>1
    <3>2. CASE FillTaker
      BY <1>4, <1>6, <1>13, <3>2 DEF TradedAfter
    <3> QED
      BY <3>1, <3>2
  <2> QED
    BY <1>3, <1>10, <1>11, <1>13, <2>1, <2>2
<1>14. CASE id # taker.id /\ id # maker.id
  <2>1. TradedAfter(id) = Traded(id)
    BY <1>1, <1>6, <1>7, <1>8, <1>14 DEF Traded, TradedAfter
  <2> QED
    BY <1>10, <1>11, <1>14, <2>1
<1> QED
  BY <1>12, <1>13, <1>14

LEMMA EndKeepsSums ==
  ASSUME PricesFit, IdsInv, NewsInv, FeedInv, Conclude \/ Rest, subscribed, told' = told, feed' = feed
  PROVE  SumsHold
<1>1. /\ pc = "match" /\ pc' = "done" /\ trades' = trades
      /\ taker.id \notin RestingIds
  BY DEF IdsInv, TakerFresh, Conclude, Rest, MatchOver, ReportTaker
<1>2. /\ NewsAfter(taker.id).filled = taker.quantity - left
      /\ \A id : id # taker.id => NewsAfter(id) = News(id)
  BY NewsOfEnd, NewsIsNewsIn DEF NewsAfter
<1>3. /\ RestingIds' = IF Rest THEN RestingIds \cup {taker.id} ELSE RestingIds
      /\ \A id \in RestingIds : OrderAfter(id) = OrderOf(id)
      /\ Rest => /\ OrderAfter(taker.id).quantity = taker.quantity
                 /\ OrderAfter(taker.id).remaining = left
  BY RestOnIds, SameIds DEF Conclude
<1>4. ASSUME NEW id \in OrderIds
      PROVE  TradedAfter(id) = Traded(id)
  <2>1. CASE id = taker.id
    BY <1>1, <1>2, <1>3, <2>1 DEF Traded, TradedAfter
  <2>2. CASE id # taker.id
    BY <1>1, <1>2, <1>3, <2>2 DEF Traded, TradedAfter
  <2> QED
    BY <2>1, <2>2
<1> QED
  BY <1>1, <1>4 DEF SumsHold, FeedInv

LEMMA StartKeepsSums ==
  ASSUME ~ReuseIds, IdsInv, NewsInv, FeedInv, NEW o \in Orders, Submit(o), ~Touched(o.id),
         subscribed, told' = told, feed' = feed
  PROVE  SumsHold
<1>1. /\ pc = "idle" /\ pc' \in {"match", "done"} /\ taker' = o
      /\ left' = o.quantity /\ trades' = trades /\ UNCHANGED bookVars
      /\ o.id \in OrderIds /\ o.id \notin RestingIds /\ reports = << >>
  BY SubmitsStart DEF NewsInv
<1>2. RestingIds' = RestingIds /\ \A id : OrderAfter(id) = OrderOf(id)
  BY <1>1, SameIds
<1>3. News(o.id).filled = 0 /\ \A id : News(id) = told[id]
  BY <1>1, NewsIsNewsIn, NewsOfNone DEF Touched, NoReport, Report
<1>4. o.quantity - o.quantity = 0
  BY OrdersAssumption DEF IncomingOrder
<1>5. /\ \A id : id # o.id => NewsAfter(id) = News(id)
      /\ pc' = "done" => NewsAfter(o.id).filled = 0
  <2>1. CASE Accept(o)
    <3>1. reports' = reports /\ pc' = "match"
      BY <2>1 DEF Accept, StartMatching
    <3> QED
      BY <3>1, NewsIsNewsIn DEF NewsAfter
  <2>2. CASE Reject(o)
    BY <1>1, <1>3, <2>2, NewsOfRejection DEF NewsAfter
  <2> QED
    BY <2>1, <2>2 DEF Submit
<1>6. ASSUME NEW id \in OrderIds
      PROVE  TradedAfter(id) = Traded(id)
  <2>1. CASE id = o.id
    <3>1. Traded(id) = 0
      BY <1>1, <1>3, <2>1 DEF Traded
    <3>2. TradedAfter(id) = 0
      BY <1>1, <1>2, <1>4, <1>5, <2>1 DEF TradedAfter
    <3> QED
      BY <3>1, <3>2
  <2>2. CASE id # o.id
    BY <1>1, <1>2, <1>5, <2>2 DEF Traded, TradedAfter
  <2> QED
    BY <2>1, <2>2
<1> QED
  BY <1>1, <1>6 DEF SumsHold, FeedInv

LEMMA CancelKeepsSums ==
  ASSUME IdsInv, NewsInv, FeedInv, NEW id \in OrderIds, CancelUnknown(id) \/ CancelKnown(id),
         subscribed, told' = told, feed' = feed
  PROVE  SumsHold
<1>1. pc = "idle" /\ pc' = "done" /\ trades' = trades /\ reports = << >>
  BY DEF CancelUnknown, CancelKnown, EnterCancel, NewsInv
<1>2. ASSUME NEW other \in OrderIds
      PROVE  TradedAfter(other) = Traded(other)
  <2>1. CASE CancelUnknown(id)
    <3>1. /\ RestingIds' = RestingIds /\ \A x : OrderAfter(x) = OrderOf(x)
          /\ NewsAfter(other) = News(other)
      BY <2>1, SameIds, NewsIsNewsIn DEF CancelUnknown, NewsAfter
    <3> QED
      BY <1>1, <3>1 DEF Traded, TradedAfter
  <2>2. CASE CancelKnown(id)
    <3>1. /\ id \in RestingIds /\ RestingIds' = RestingIds \ {id}
          /\ \A x \in RestingIds \ {id} : OrderAfter(x) = OrderOf(x)
      BY <2>2, CancelOnIds
    <3>2. /\ NewsAfter(id).filled = OrderOf(id).quantity - OrderOf(id).remaining
          /\ \A x : x # id => NewsAfter(x) = News(x)
      BY <1>1, <2>2, NewsOfCancel, NewsOfNone, NewsIsNewsIn DEF NewsAfter
    <3>3. CASE other = id
      BY <1>1, <3>1, <3>2, <3>3 DEF Traded, TradedAfter
    <3>4. CASE other # id
      BY <1>1, <3>1, <3>2, <3>4 DEF Traded, TradedAfter
    <3> QED
      BY <3>3, <3>4
  <2> QED
    BY <2>1, <2>2
<1> QED
  BY <1>1, <1>2 DEF SumsHold, FeedInv

LEMMA PublishKeepsSums ==
  ASSUME IdsInv, NewsInv, FeedInv, Publish, subscribed
  PROVE  SumsHold /\ IsSuffix(recentTrades', feed')
<1>1. /\ UNCHANGED bookVars /\ pc = "done" /\ pc' = "idle" /\ reports' = << >> /\ trades' = << >>
      /\ told' = [id \in OrderIds |-> News(id)]
      /\ recentTrades' = recentTrades \o trades /\ feed' = feed \o trades
  BY DEF Publish, Return, EndCall, OnMatchEvent
<1>2. trades \in Seq(TradeType) /\ feed \in Seq(TradeType) /\ recentTrades \in Seq(TradeType)
  BY DEF IdsInv, TypeOK, CallTypeOK, FeedInv
<1>3. IsSuffix(recentTrades', feed')
  BY <1>1, <1>2, SuffixGrows DEF FeedInv
<1>4. /\ RestingIds' = RestingIds /\ \A id : OrderAfter(id) = OrderOf(id)
      /\ \A id \in OrderIds : NewsAfter(id) = News(id)
  BY <1>1, SameIds, NewsOfNone DEF NewsAfter
<1>5. ASSUME NEW id \in OrderIds
      PROVE  Amount(feed', id) + Amount(trades', id) = TradedAfter(id)
  <2>1. Amount(feed', id) = Amount(feed, id) + Amount(trades, id)
    BY <1>1, <1>2, AmountOfConcat
  <2>2. Amount(trades', id) = 0
    BY <1>1, AmountOfNone
  <2>3. TradedAfter(id) = Traded(id)
    BY <1>1, <1>4 DEF Traded, TradedAfter
  <2>4. Amount(feed, id) \in Int /\ Amount(trades, id) \in Int
    BY AmountsAreInts DEF IdsInv
  <2> QED
    BY <2>1, <2>2, <2>3, <2>4 DEF FeedInv
<1> QED
  BY <1>3, <1>5 DEF SumsHold

LEMMA FeedStays ==
  ASSUME PricesFit, ~ReuseIds, FlowTypeOK, IdsInv, NewsInv, FreshInv, FeedInv,
         [PipelineNext]_pipelineVars
  PROVE  FeedInv'
<1>1. nextSequence' = 1 => Silence'
  BY SilenceStays
<1>2. /\ trades \in Seq(TradeType) /\ feed \in Seq(TradeType) /\ recentTrades \in Seq(TradeType)
      /\ << >> \in Seq(TradeType)
  BY DEF IdsInv, TypeOK, CallTypeOK, FeedInv
<1>3. ASSUME UNCHANGED <<vars, told, feed, subscribed>>, recentTrades' \in {recentTrades, << >>}
      PROVE  FeedInv'
  <2>1. /\ RestingIds' = RestingIds /\ \A id : OrderAfter(id) = OrderOf(id)
    BY <1>3, SameIds DEF vars
  <2>2. UNCHANGED <<pc, taker, left, trades, reports>>
    BY <1>3 DEF vars, callVars, argVars, eventVars
  <2>3. \A id : NewsAfter(id) = News(id)
    BY <1>3, <2>2, NewsIsNewsIn DEF NewsAfter
  <2>4. \A id : TradedAfter(id) = Traded(id)
    BY <2>1, <2>2, <2>3 DEF Traded, TradedAfter
  <2>5. subscribed' => IsSuffix(recentTrades', feed')
    BY <1>2, <1>3, NothingIsSuffix DEF FeedInv
  <2>6. subscribed' => SumsHold
    BY <1>3, <2>2, <2>4 DEF FeedInv, SumsHold
  <2> QED
    BY <1>1, <1>2, <1>3, <2>2, <2>5, <2>6, FeedAfter DEF FeedInv
<1>4. CASE Subscribe
  <2>1. Silence /\ UNCHANGED <<vars, ingressVars, told, feed, recentTrades>>
    BY <1>4 DEF Subscribe, SetTradeCallback, FeedInv
  <2>2. RestingIds' = {} /\ pc' \in {"idle", "done"} /\ reports' = << >> /\ trades' = << >>
    BY <2>1, SameIds DEF Silence, vars, callVars, eventVars
  <2>3. \A id \in OrderIds : NewsAfter(id) = NoReport
    BY <2>1, <2>2, NewsOfNone DEF Silence, NewsAfter
  <2>4. \A id \in OrderIds : TradedAfter(id) = 0
    BY <2>2, <2>3 DEF TradedAfter, NoReport, Report
  <2>5. feed' = << >> /\ recentTrades' = << >>
    BY <2>1 DEF Silence
  <2>6. SumsHold
    BY <2>2, <2>4, <2>5, AmountOfNone DEF SumsHold
  <2>7. IsSuffix(recentTrades', feed')
    BY <1>2, <2>5, NothingIsSuffix
  <2> QED
    BY <1>1, <1>2, <2>2, <2>5, <2>6, <2>7, FeedAfter
<1>5. CASE Publish
  <2>1. /\ trades' = << >> /\ subscribed' = subscribed
        /\ recentTrades' = recentTrades \o trades
        /\ feed' = IF subscribed THEN feed \o trades ELSE feed
    BY <1>5 DEF Publish, Return, EndCall, OnMatchEvent
  <2>2. recentTrades \o trades \in Seq(TradeType) /\ feed \o trades \in Seq(TradeType)
    BY <1>2, ConcatProperties
  <2> QED
    BY <1>1, <1>2, <1>5, <2>1, <2>2, PublishKeepsSums, FeedAfter
<1>6. ASSUME UNCHANGED <<told, handlerVars>>,
             \/ \E o \in Orders : Submit(o)
             \/ BeginLevel \/ EndLevel \/ FillMaker \/ FillTaker \/ Conclude \/ Rest
             \/ \E id \in OrderIds : CancelUnknown(id) \/ CancelKnown(id)
      PROVE  FeedInv'
  <2>1. UNCHANGED <<recentTrades, feed, subscribed>>
    BY <1>6 DEF handlerVars
  <2>2. pc' # "idle"
    BY <1>6, SubmitsStart DEF BeginLevel, EndLevel, FillMaker, FillTaker, Conclude, Rest, ReportTaker,
                              CancelUnknown, CancelKnown, EnterCancel
  <2>3. ASSUME subscribed
        PROVE  SumsHold
    <3>1. ASSUME NEW o \in Orders, Submit(o)
          PROVE  SumsHold
      BY <1>6, <2>1, <2>3, <3>1, SubmittedIsUntouched, StartKeepsSums
    <3>2. CASE BeginLevel \/ EndLevel
      <4>1. /\ UNCHANGED <<bookVars, taker, left, trades, reports>>
            /\ pc \in {"match", "level"} /\ pc' \in {"match", "level"}
        BY <3>2 DEF BeginLevel, EndLevel, argVars, eventVars
      <4>2. /\ RestingIds' = RestingIds /\ \A id : OrderAfter(id) = OrderOf(id)
            /\ \A id : NewsAfter(id) = News(id)
        BY <1>6, <4>1, SameIds, NewsIsNewsIn DEF NewsAfter
      <4>3. \A id : TradedAfter(id) = Traded(id)
        BY <4>1, <4>2 DEF Traded, TradedAfter
      <4> QED
        BY <2>1, <2>3, <4>1, <4>3 DEF SumsHold, FeedInv
    <3>3. CASE FillMaker \/ FillTaker
      BY <1>6, <2>1, <2>3, <3>3, FillKeepsSums
    <3>4. CASE Conclude \/ Rest
      BY <1>6, <2>1, <2>3, <3>4, EndKeepsSums
    <3>5. ASSUME NEW id \in OrderIds, CancelUnknown(id) \/ CancelKnown(id)
          PROVE  SumsHold
      BY <1>6, <2>1, <2>3, <3>5, CancelKeepsSums
    <3> QED
      BY <1>6, <3>1, <3>2, <3>3, <3>4, <3>5
  <2> QED
    BY <1>1, <1>2, <2>1, <2>2, <2>3, FeedAfter DEF FeedInv
<1>7. CASE ClearRecent \/ (\E o \in ClientOrders : TakeNumber(o))
           \/ (\E h \in 0 .. MaxSubmissions : Push(h)) \/ UNCHANGED pipelineVars
  BY <1>3, <1>7 DEF ClearRecent, Clear, TakeNumber, Push, pipelineVars, handlerVars
<1>8. CASE Pop
  BY <1>6, <1>8, PushedAndPopped DEF Pop
<1>9. ASSUME NEW o \in ClientOrders, SubmitDirect(o)
      PROVE  FeedInv'
  BY <1>6, <1>9, StampProperties DEF SubmitDirect, FetchAdd, FlowTypeOK
<1>10. CASE Advance \/ \E id \in OrderIds : Cancel(id)
  BY <1>6, <1>10 DEF Advance, Match, Cancel
<1> QED
  BY <1>4, <1>5, <1>7, <1>8, <1>9, <1>10 DEF PipelineNext

LEMMA InitFeed == PipelineInit => FeedInv
<1> SUFFICES ASSUME PipelineInit
             PROVE  FeedInv
  OBVIOUS
<1>1. /\ pc = "idle" /\ trades = << >> /\ reports = << >> /\ RestingIds = {}
      /\ inFlight = NoOrder /\ waiting = << >> /\ feed = << >> /\ recentTrades = << >> /\ ~subscribed
      /\ \A id \in OrderIds : told[id] = NoReport
  BY DEF PipelineInit, Init, NoCall, LadderInit, RestingIds, Resting, InLevel, GatewayInit,
         HandlerInit, Queue!Init
<1>2. << >> \in Seq(TradeType)
  OBVIOUS
<1> QED
  BY <1>1, <1>2 DEF FeedInv, Silence

\* The invariants of the reports and of the feed hold together.
LEMMA FlowOfNews ==
  ASSUME PricesFit, ~ReuseIds PROVE PipelineSpec => [](IdsInv /\ NewsInv /\ FreshInv /\ FeedInv)
<1>1. FlowTypeOK /\ IdsInv /\ NewsInv /\ [PipelineNext]_pipelineVars => NewsInv'
  BY NewsStaysTrue
<1>2. FlowTypeOK /\ IdsInv /\ NewsInv /\ FreshInv /\ [PipelineNext]_pipelineVars => FreshInv'
  BY FreshStays
<1>3. FlowTypeOK /\ IdsInv /\ NewsInv /\ FreshInv /\ FeedInv /\ [PipelineNext]_pipelineVars => FeedInv'
  BY FeedStays
<1> QED
  BY <1>1, <1>2, <1>3, InitNews, InitFresh, InitFeed, FlowCorrect, EngineInPipeline, IdsInvHolds, PTL
     DEF PipelineSpec

\* A subscriber can keep the book by its feed: between events, what it heard of an
\* order's trades is what the resting order has lost, or what the last report of an
\* order that is gone says it filled.
THEOREM FeedIsComplete == ASSUME PricesFit, ~ReuseIds PROVE PipelineSpec => []FeedReconciles
<1>1. IdsInv /\ NewsInv /\ FeedInv => FeedReconciles
  <2> SUFFICES ASSUME IdsInv, NewsInv, FeedInv, pc = "idle", subscribed
               PROVE  /\ IsSuffix(recentTrades, feed)
                      /\ \A id \in OrderIds :
                           IF id \in RestingIds
                           THEN Heard(id) = orders[orderMap[id]].quantity - orders[orderMap[id]].remaining
                           ELSE Heard(id) = told[id].filled
    BY DEF FeedReconciles
  <2>1. trades = << >> /\ reports = << >>
    BY DEF FeedInv, NewsInv
  <2>2. ASSUME NEW id \in OrderIds
        PROVE  Heard(id) = Traded(id)
    <3>1. Amount(feed, id) + Amount(trades, id) = Traded(id) /\ Amount(feed, id) \in Int
      BY AmountsAreInts DEF FeedInv, IdsInv
    <3> QED
      BY <2>1, <3>1, AmountOfNone, HeardIsAmount
  <2>3. \A id \in OrderIds : News(id) = told[id]
    BY <2>1, NewsIsNewsIn, NewsOfNone
  <2> QED
    BY <2>2, <2>3 DEF FeedInv, Traded, OrderOf
<1> QED
  BY <1>1, FlowOfNews, PTL

-----------------------------------------------------------------------------
(***************************************************************************)
(* What a snapshot shows.                                                  *)
(***************************************************************************)
\* The way along a level's links comes by the orders of the level.
LEMMA ChainOfLevel ==
  ASSUME TypeOK, BookConsistent, Linked, NEW side \in Sides, NEW i \in Levels
  PROVE  \A s : s \in Chain(side, i) <=> InLevel(s, side, i)
<1> DEFINE q == queues[side][i]
           Visits(f) == f = [n \in Slots |-> IF n = 0 THEN heads[side][i]
                                             ELSE IF f[n - 1] = NoSlot THEN NoSlot
                                             ELSE next[f[n - 1]]]
           At(n) == IF n < Len(q) THEN q[n + 1] ELSE NoSlot
           c == [n \in Slots |-> At(n)]
           v == CHOOSE f : Visits(f)
<1>1. /\ q \in Seq(Slots) /\ Len(q) \in Nat /\ DOMAIN q = 1 .. Len(q)
      /\ \A k \in 1 .. Len(q) : q[k] \in Slots
      /\ q = << >> <=> Len(q) = 0
  BY LevelTypes, EmptySeq
<1>2. Holds(q, heads[side][i], tails[side][i], prev, next)
  BY LevelHolds
<1>3. Len(q) <= PoolCapacity
  <2>1. IsInjective(q)
    BY DEF BookConsistent
  <2> QED
    BY ONLY <1>1, <2>1, SlotsFit
<1> HIDE DEF q
<1>4. At(0) = heads[side][i]
  BY <1>1, <1>2 DEF Holds
<1>5. \A n \in Slots : n # 0 => At(n) = IF At(n - 1) = NoSlot THEN NoSlot ELSE next[At(n - 1)]
  <2> SUFFICES ASSUME NEW n \in Slots, n # 0
               PROVE  At(n) = IF At(n - 1) = NoSlot THEN NoSlot ELSE next[At(n - 1)]
    OBVIOUS
  <2>1. n \in Nat \ {0}
    BY PoolCapacityAssumption DEF Slots
  <2>2. CASE n - 1 < Len(q)
    <3>1. n \in DOMAIN q /\ At(n - 1) = q[n] /\ q[n] # NoSlot
      BY <1>1, <2>1, <2>2 DEF Slots, NoSlot
    <3>2. next[q[n]] = IF n = Len(q) THEN NoSlot ELSE q[n + 1]
      BY <1>1, <1>2, <3>1 DEF Holds
    <3>3. n < Len(q) <=> n # Len(q)
      <4>1. Len(q) \in Nat
        BY <1>1
      <4> QED
        BY ONLY <2>1, <2>2, <4>1
    <3>4. At(n) = IF n = Len(q) THEN NoSlot ELSE q[n + 1]
      BY ONLY <3>3 DEF At
    <3> QED
      BY <3>1, <3>2, <3>4
  <2>3. CASE ~(n - 1 < Len(q))
    BY <1>1, <2>1, <2>3
  <2> QED
    BY <2>2, <2>3
<1> HIDE DEF At
<1>6. \A n \in Slots : n # 0 => n - 1 \in Slots
  BY PoolCapacityAssumption DEF Slots
<1>7. c = [n \in Slots |-> IF n = 0 THEN heads[side][i]
                           ELSE IF c[n - 1] = NoSlot THEN NoSlot ELSE next[c[n - 1]]]
  BY <1>4, <1>5, <1>6
<1> HIDE DEF c
<1>8. Visits(c)
  BY <1>7
<1>9. Chain(side, i) = {v[n] : n \in Slots} \ {NoSlot}
  BY DEF Chain
<1> HIDE DEF Visits
<1>10. Visits(v)
  BY <1>8
<1> HIDE DEF v
<1>11. \A n \in Slots : v[n] = IF n = 0 THEN heads[side][i]
                               ELSE IF v[n - 1] = NoSlot THEN NoSlot ELSE next[v[n - 1]]
  BY <1>10 DEF Visits
<1> DEFINE P == {n \in Nat : n \in Slots => v[n] = At(n)}
<1>12. 0 \in P
  BY <1>4, <1>11
<1>13. \A n \in P : n + 1 \in P
  <2> SUFFICES ASSUME NEW n \in P, n + 1 \in Slots
               PROVE  v[n + 1] = At(n + 1)
    OBVIOUS
  <2>1. n + 1 # 0 /\ (n + 1) - 1 = n /\ n \in Slots
    BY <1>6
  <2> QED
    BY <2>1, <1>5, <1>11
<1>14. P \in SUBSET Nat
  OBVIOUS
<1> HIDE DEF P
<1>15. \A n \in Nat : n \in P
  BY ONLY <1>12, <1>13, <1>14, SetInduction
<1>16. \A n \in Slots : v[n] = At(n)
  BY <1>15, PoolCapacityAssumption DEF P, Slots
<1>17. ASSUME NEW s, s \in Chain(side, i)
       PROVE  \E k \in DOMAIN q : q[k] = s
  <2>1. PICK n \in Slots : s = At(n) /\ s # NoSlot
    BY <1>9, <1>16, <1>17
  <2>2. n < Len(q) /\ s = q[n + 1] /\ n \in Nat
    BY <2>1, PoolCapacityAssumption DEF At, Slots
  <2> QED
    BY <1>1, <2>2
<1>18. ASSUME NEW k \in DOMAIN q
       PROVE  q[k] \in Chain(side, i)
  <2>1. k - 1 \in Slots /\ At(k - 1) = q[k] /\ q[k] # NoSlot
    BY <1>1, <1>3, PoolCapacityAssumption DEF At, Slots, NoSlot
  <2> QED
    BY <2>1, <1>9, <1>16
<1> QED
  BY <1>17, <1>18 DEF InLevel, q

\* What rests in these slots.
QuantityOf(S) == MapThenSumSet(LAMBDA s : orders[s].remaining, S)

LEMMA NoQuantity == QuantityOf({}) = 0
<1> DEFINE IsIt(f) == f = [s \in SUBSET {} |->
                             IF s = {} THEN 0
                             ELSE orders[CHOOSE x \in s : TRUE].remaining + f[s \ {CHOOSE x \in s : TRUE}]]
           g == CHOOSE f : IsIt(f)
<1>1. QuantityOf({}) = g[{}]
  BY DEF QuantityOf, MapThenSumSet, MapThenFoldSet
<1>2. IsIt([s \in SUBSET {} |-> 0])
  OBVIOUS
<1>3. IsIt(g)
  BY <1>2
<1> QED
  BY <1>1, <1>3

LEMMA RestingQuantityIs ==
  ASSUME NEW side, NEW price
  PROVE  RestingQuantity(side, price) =
           IF PriceToIndex(price) < 0 THEN 0 ELSE QuantityOf(Chain(side, PriceToIndex(price)))
BY DEF RestingQuantity, QuantityOf

LEMMA BestOfIs ==
  ASSUME NEW side
  PROVE  LET there == {s \in Resting : orders[s].side = side}
             prices == {orders[s].price : s \in there}
             best == IF side = "Buy" THEN Max(prices) ELSE Min(prices)
         IN  /\ BestOf(side).price = IF there = {} THEN 0 ELSE best
             /\ BestOf(side).quantity = IF there = {} THEN 0
                                        ELSE QuantityOf({s \in there : orders[s].price = best})
BY DEF BestOf, QuantityOf

\* No order rests for nothing, so a best price of 0 means that none rests.
NoneAtZero == \A side \in Sides : 0 \notin Occupied(side)

LEMMA InitNoneAtZero == Init => NoneAtZero
BY NoBitsEmpty DEF Init, LadderInit, NoneAtZero, Occupied, SetBits

LEMMA NextNoneAtZero == TypeOK /\ CursorOK /\ CallInv /\ NoneAtZero /\ [Next]_vars => NoneAtZero'
<1> SUFFICES ASSUME TypeOK, CursorOK, CallInv, NoneAtZero, [Next]_vars, NEW side \in Sides
             PROVE  0 \notin SetBits(bits'[side])
  BY DEF NoneAtZero, Occupied
<1>1. CASE Rest
  <2>1. taker.price > 0 /\ taker.price \in Int
    BY <1>1, FieldTypes DEF Rest, MatchOver, ShouldRest, CallInv, ValidateOrder
  <2> QED
    BY <1>1, <2>1, RestSetsOneBit DEF NoneAtZero
<1>2. CASE ~Rest
  BY <1>2, OnlyRestSetsBits DEF NoneAtZero
<1> QED
  BY <1>1, <1>2

\* What rests on a side stands in its occupied levels, and each of these has some.
LEMMA LevelsOfSide ==
  ASSUME TypeOK, BookInv, NEW side \in Sides
  PROVE  LET there == {s \in Resting : orders[s].side = side} IN
         /\ \A s \in there : orders[s].price \in Occupied(side)
         /\ \A i \in Occupied(side) : \E s \in there : orders[s].price = i
<1>1. ASSUME NEW s \in Resting, orders[s].side = side
      PROVE  orders[s].price \in Occupied(side)
  BY <1>1, RestingStands DEF BookInv
<1>2. ASSUME NEW i \in Occupied(side)
      PROVE  \E s \in Resting : orders[s].side = side /\ orders[s].price = i
  <2>1. i \in Levels /\ heads[side][i] # NoSlot
    BY <1>2 DEF BookInv, OccupiedIffNonEmpty, Occupied, SetBits
  <2>2. queues[side][i] # << >>
    BY <2>1, LevelHolds DEF BookInv, Holds
  <2>3. 1 \in DOMAIN queues[side][i]
    BY <2>1, <2>2, LevelTypes, EmptySeq
  <2>4. InLevel(queues[side][i][1], side, i)
    BY <2>3 DEF InLevel
  <2> DEFINE s == queues[side][i][1]
  <2>5. s \in Slots /\ s \in Resting /\ Belongs(s, side, i)
    BY <2>1, <2>4, StandsWhereItBelongs DEF BookInv
  <2>6. orders[s].price = i
    BY <2>1, <2>5, FieldTypes, PriceToIndexProperties DEF Belongs, Levels
  <2> QED
    BY <2>5, <2>6 DEF Belongs
<1> QED
  BY <1>1, <1>2

LEMMA BestOfRight ==
  ASSUME TypeOK, BookInv, NoneAtZero, NEW side \in Sides
  PROVE  /\ BestPrice(side) = BestOf(side).price
         /\ RestingQuantity(side, BestPrice(side)) = BestOf(side).quantity
         /\ BestPrice(side) \in Int
         /\ BestPrice(side) # 0 => BestPrice(side) > 0 /\ BestPrice(side) \in Occupied(side)
<1> DEFINE there == {s \in Resting : orders[s].side = side}
           prices == {orders[s].price : s \in there}
           best == IF side = "Buy" THEN Max(prices) ELSE Min(prices)
<1>1. /\ \A s \in there : orders[s].price \in Occupied(side)
      /\ \A i \in Occupied(side) : \E s \in there : orders[s].price = i
  BY LevelsOfSide
<1>2. prices = Occupied(side)
  BY <1>1
<1>3. Occupied(side) \subseteq Levels /\ 0 \notin Occupied(side)
  BY DEF NoneAtZero, Occupied, SetBits
<1>4. /\ BestOf(side).price = IF there = {} THEN 0 ELSE best
      /\ BestOf(side).quantity = IF there = {} THEN 0
                                 ELSE QuantityOf({s \in there : orders[s].price = best})
  BY BestOfIs
<1>5. MaxLevels \in Nat \ {0} /\ Levels = 0 .. MaxLevels - 1
  BY BitsetAssumption DEF Levels
<1>6. CASE there = {}
  <2>1. Occupied(side) = {}
    BY <1>1, <1>6
  <2>2. BestPrice(side) = 0
    BY <2>1, FindBestFindsNone DEF TypeOK, BestPrice
  <2>3. PriceToIndex(0) = 0 /\ 0 \in Levels
    BY <1>5 DEF PriceToIndex, TruncDiv, BasePrice, TickSize
  <2>4. \A s : ~InLevel(s, side, 0)
    BY <1>6, <2>3, StandsWhereItBelongs DEF BookInv, Belongs
  <2>5. Chain(side, 0) = {}
    BY <2>3, <2>4, ChainOfLevel DEF BookInv
  <2>6. RestingQuantity(side, 0) = QuantityOf({})
    BY <2>3, <2>5, RestingQuantityIs
  <2> QED
    BY <1>4, <1>6, <2>2, <2>6, NoQuantity
<1>7. CASE there # {}
  <2>1. PICK i \in Occupied(side) : TRUE
    BY <1>1, <1>7
  <2>2. /\ FindBest(side) \in Occupied(side) /\ FindBest(side) \in Levels
        /\ \A j \in Occupied(side) : /\ side = "Buy" => j <= FindBest(side)
                                     /\ side = "Sell" => FindBest(side) <= j
    BY <2>1, FindBestIsBest DEF TypeOK
  <2>3. BestPrice(side) = FindBest(side)
    BY <2>2, <1>5 DEF BestPrice, IndexToPrice, BasePrice, TickSize
  <2> DEFINE i0 == FindBest(side)
  <2>4. /\ prices \in SUBSET Int /\ prices # {}
        /\ \A x \in prices : -MaxLevels <= x /\ x <= MaxLevels
    <3>1. /\ Occupied(side) \in SUBSET Int /\ Occupied(side) # {}
          /\ \A x \in Occupied(side) : -MaxLevels <= x /\ x <= MaxLevels
      BY <1>3, <1>5, <2>1
    <3> HIDE DEF prices
    <3> QED
      BY <1>2, <3>1
  <2>5. best = i0
    <3>1. CASE side = "Buy"
      <4>1. Max(prices) \in prices /\ \A x \in prices : x <= Max(prices)
        BY <2>4, <1>5, BoundedMax
      <4> HIDE DEF prices
      <4>2. Max(prices) = i0
        BY <3>1, <4>1, <2>2, <2>4, <1>2
      <4> QED
        BY <3>1, <4>2
    <3>2. CASE side = "Sell"
      <4>1. Min(prices) \in prices /\ \A x \in prices : Min(prices) <= x
        BY <2>4, <1>5, BoundedMin
      <4> HIDE DEF prices
      <4>2. Min(prices) = i0
        BY <3>2, <4>1, <2>2, <2>4, <1>2
      <4> QED
        BY <3>2, <4>2
    <3> QED
      BY <3>1, <3>2 DEF Sides
  <2> HIDE DEF best
  <2>6. \A s : InLevel(s, side, i0) <=> s \in there /\ orders[s].price = i0
    <3>1. ASSUME NEW s, InLevel(s, side, i0)
          PROVE  s \in there /\ orders[s].price = i0
      <4>1. s \in Slots /\ s \in Resting /\ Belongs(s, side, i0)
        BY <3>1, <2>2, StandsWhereItBelongs DEF BookInv
      <4> QED
        BY <4>1, <2>2, <1>5, FieldTypes, PriceToIndexProperties DEF Belongs
    <3>2. ASSUME NEW s \in there, orders[s].price = i0
          PROVE  InLevel(s, side, i0)
      BY <3>2, RestingStands DEF BookInv
    <3> QED
      BY <3>1, <3>2
  <2>7. Chain(side, i0) = {s \in there : orders[s].price = best}
    <3>1. \A s : s \in Chain(side, i0) <=> InLevel(s, side, i0)
      BY <2>2, ChainOfLevel DEF BookInv
    <3> QED
      BY <3>1, <2>5, <2>6
  <2>8. PriceToIndex(i0) = i0 /\ ~(i0 < 0) /\ i0 > 0
    BY <2>2, <1>3, <1>5 DEF PriceToIndex, TruncDiv, BasePrice, TickSize
  <2>9. RestingQuantity(side, i0) = QuantityOf({s \in there : orders[s].price = best})
    BY <2>7, <2>8, RestingQuantityIs
  <2> QED
    BY <1>4, <1>7, <2>2, <2>3, <2>5, <2>8, <2>9, <1>5
<1> QED
  BY <1>6, <1>7

\* A snapshot shows the best prices at which orders rest and all that rests there,
\* and a spread that is 0 only for want of a side.
THEOREM TopOfBookRight == ASSUME PricesFit PROVE Spec => []TopOfBookShown
<1>1. TypeOK /\ BookInv /\ NotCrossed /\ NoneAtZero => TopOfBookShown
  <2> SUFFICES ASSUME TypeOK, BookInv, NotCrossed, NoneAtZero
               PROVE  TopOfBookShown
    OBVIOUS
  <2>1. "Buy" \in Sides /\ "Sell" \in Sides
    BY DEF Sides
  <2>2. Spread > 0 <=> BestPrice("Buy") > 0 /\ BestPrice("Sell") > 0
    BY <2>1, BestOfRight DEF Spread, NotCrossed
  <2>3. /\ TopOfBook.bid = BestPrice("Buy") /\ TopOfBook.ask = BestPrice("Sell")
        /\ TopOfBook.bidQuantity = RestingQuantity("Buy", BestPrice("Buy"))
        /\ TopOfBook.askQuantity = RestingQuantity("Sell", BestPrice("Sell"))
        /\ TopOfBook.spread = Spread
    BY DEF TopOfBook
  <2> QED
    BY <2>1, <2>2, <2>3, BestOfRight DEF TopOfBookShown
<1>2. Spec => []NoneAtZero
  BY InitNoneAtZero, NextNoneAtZero, TypeCorrect, BookInvCorrect, PTL DEF Spec
<1> QED
  BY <1>1, <1>2, TypeCorrect, BookInvCorrect, NeverCrossed, PTL

\* The same of the engine that the gateway, the queue and the handler work with.
THEOREM TopOfBookInPipeline == ASSUME PricesFit PROVE PipelineSpec => []TopOfBookShown
BY TopOfBookRight, EngineInPipeline, PTL
=============================================================================
