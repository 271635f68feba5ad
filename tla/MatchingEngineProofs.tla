------------------------- MODULE MatchingEngineProofs -------------------------
(***************************************************************************)
(* Proofs of the safety properties of MatchingEngine, for every number of  *)
(* slots and levels, every width of a bitset's words and every set of      *)
(* orders, malformed ones included.                                        *)
(*                                                                         *)
(* Types, the pool and NotCrossed need no hypothesis.  The rest assumes    *)
(* PricesFit: an order that rests at a price without a level leaves an     *)
(* entry in order_map_ which the pool's recycling turns stale.             *)
(***************************************************************************)
EXTENDS MatchingEngine, PriceLadderProofs, EventsProofs, FiniteSetTheorems

PricesFit == \A o \in Orders : o.type = "Limit" => o.price < MaxLevels

\* In the inner loop best_idx is a level.
CursorOK == pc = "level" => cursor \in Levels

LEMMA ContraIsSide ==
  ASSUME TypeOK
  PROVE  taker.side \in Sides /\ Contra \in Sides /\ Contra # taker.side
BY DEF TypeOK, CallTypeOK, IncomingOrder, Contra, Opposite, Sides

\* What the inner loop looks at is a slot.
LEMMA FirstIsSlot ==
  ASSUME TypeOK, CursorOK, pc = "level", MoreAtLevel
  PROVE  FirstSlot \in Slots
<1>1. Contra \in Sides /\ cursor \in Levels
  BY ContraIsSide DEF CursorOK
<1> HIDE DEF Contra
<1> QED
  BY <1>1 DEF FirstSlot, MoreAtLevel, TypeOK, LadderTypeOK, SlotOrNone

\* The types of the fields the steps compute with.
LEMMA FieldTypes ==
  ASSUME TypeOK
  PROVE  /\ taker.id \in Nat /\ taker.side \in Sides /\ taker.price \in Int
         /\ taker.quantity \in Int /\ taker.timestamp \in Nat /\ left \in Int
         /\ \A s \in Slots :
              /\ orders[s] \in SlotType
              /\ orders[s].id \in Nat /\ orders[s].side \in Sides /\ orders[s].price \in Int
              /\ orders[s].quantity \in Int /\ orders[s].remaining \in Int
BY DEF TypeOK, CallTypeOK, IncomingOrder, SlotType

LEMMA PoolSteps ==
  ASSUME PoolTypeOK, NEW slot \in Slots, Allocate(slot) \/ Deallocate(slot)
  PROVE  PoolTypeOK' /\ (PoolPermutation => PoolPermutation')
<1>1. CASE Allocate(slot)
  <2>1. PoolTypeOK'
    BY <1>1 DEF PoolTypeOK, Allocate
  <2>2. ASSUME PoolPermutation PROVE PoolPermutation'
    BY <1>1, <2>2 DEF PoolTypeOK, Allocate, PoolPermutation
  <2> QED
    BY <2>1, <2>2
<1>2. CASE Deallocate(slot)
  <2>1. PoolTypeOK'
    BY <1>2 DEF PoolTypeOK, Deallocate
  <2>2. ASSUME PoolPermutation PROVE PoolPermutation'
    BY <1>2, <2>2 DEF PoolTypeOK, Deallocate, PoolPermutation
  <2> QED
    BY <2>1, <2>2
<1> QED
  BY <1>1, <1>2

LEMMA InitTypes == Init => TypeOK /\ CursorOK
<1> SUFFICES ASSUME Init PROVE TypeOK /\ CursorOK
  OBVIOUS
<1>1. PoolTypeOK
  BY PoolCapacityAssumption DEF Init, PoolInit, PoolTypeOK, Slots, NoSlot
<1>2. LadderTypeOK
  <2>1. << >> \in Seq(Slots)
    BY EmptySeq
  <2> QED
    BY <2>1, NoBitsEmpty DEF Init, LadderInit, LadderTypeOK, SlotOrNone
<1>3. /\ orders \in [Slots -> SlotType]
      /\ orderMap \in [OrderIds -> SlotOrNone]
  BY DEF Init, BlankSlot, SlotType, Statuses, Sides, SlotOrNone
<1>4. trades \in Seq(TradeType) /\ reports \in Seq(ReportType)
  BY EmptySeq DEF Init, NoCall
<1>5. /\ pc = "idle" /\ op = "none" /\ left = 0 /\ cursor = -1
      /\ taker \in IncomingOrder
  BY DEF Init, NoCall, NoOrder, IncomingOrder, OrderTypes, Sides
<1>6. CallTypeOK
  BY <1>4, <1>5 DEF CallTypeOK
<1> QED
  BY <1>1, <1>2, <1>3, <1>5, <1>6 DEF TypeOK, CursorOK

LEMMA AppendType ==
  ASSUME NEW S, NEW seq \in Seq(S), NEW e \in S
  PROVE  Append(seq, e) \in Seq(S)
OBVIOUS

LEMMA SingletonType ==
  ASSUME NEW S, NEW e \in S
  PROVE  <<e>> \in Seq(S)
OBVIOUS

LEMMA ReportIsTyped ==
  ASSUME NEW id \in Nat, NEW status \in Statuses, NEW side \in Sides, NEW price \in Int,
         NEW filled \in Int, NEW remaining \in Int
  PROVE  Report(id, status, side, price, filled, remaining) \in ReportType
BY DEF Report, ReportType

LEMMA TradeIsTyped ==
  ASSUME TypeOK, NEW s \in Slots, NEW quantity \in Int
  PROVE  Trade(taker, orders[s], quantity) \in TradeType
BY FieldTypes DEF Trade, TradeType

LEMMA ReducedProperties ==
  ASSUME NEW order \in SlotType, NEW remaining \in Int, NEW status \in Statuses
  PROVE  LET new == Reduced(order, remaining, status) IN
         /\ new \in SlotType
         /\ new.remaining = remaining
         /\ new.status = status
         /\ new.id = order.id /\ new.side = order.side
         /\ new.price = order.price /\ new.quantity = order.quantity
<1> DEFINE reduced == [order EXCEPT !.remaining = remaining]
           new == [reduced EXCEPT !.status = status]
<1>1. /\ reduced \in SlotType
      /\ reduced.remaining = remaining
      /\ reduced.id = order.id /\ reduced.side = order.side
      /\ reduced.price = order.price /\ reduced.quantity = order.quantity
  BY DEF SlotType
<1>2. Reduced(order, remaining, status) = new
  BY DEF Reduced
<1> HIDE DEF reduced
<1>3. /\ new \in SlotType
      /\ new.status = status
      /\ new.remaining = reduced.remaining
      /\ new.id = reduced.id /\ new.side = reduced.side
      /\ new.price = reduced.price /\ new.quantity = reduced.quantity
  BY <1>1 DEF SlotType
<1> QED
  BY <1>1, <1>2, <1>3

\* The order that rests takes a slot, with a level or without one.
LEMMA RestSteps ==
  ASSUME TypeOK, NEW slot \in Slots, InsertOrder(slot, taker)
  PROVE  LET i == PriceToIndex(taker.price)
             new == [id |-> taker.id, side |-> taker.side, price |-> taker.price,
                     quantity |-> taker.quantity, remaining |-> left,
                     timestamp |-> taker.timestamp,
                     status |-> IF i < 0 THEN "Cancelled" ELSE "Resting"]
         IN /\ orders' = [orders EXCEPT ![slot] = new]
            /\ new \in SlotType
            /\ i \in Levels \cup {-1}
            /\ i \in Levels => PushBack(taker.side, i, slot)
            /\ i \notin Levels => Detach(slot)
<1>1. PriceToIndex(taker.price) \in Levels \cup {-1}
  BY FieldTypes, PriceToIndexProperties
<1>2. \A i \in Levels : ~(i < 0)
  BY DEF Levels
<1> QED
  BY <1>1, <1>2, FieldTypes DEF InsertOrder, SlotType, Statuses

\* The step that an action is, or that each of its cases is, on the book.
LEMMA CancelSteps ==
  ASSUME TypeOK, NEW s \in Slots, RemoveOrderFromBook(s)
  PROVE  LET i == PriceToIndex(orders[s].price) IN
         \/ i \in Levels /\ RemoveFrom(orders[s].side, i, s) /\ Erase(orders[s].id)
         \/ i \notin Levels /\ UNCHANGED <<ladderVars, orderMap>>
<1>1. PriceToIndex(orders[s].price) \in Levels \cup {-1}
  BY FieldTypes, PriceToIndexProperties
<1>2. \A i \in Levels : ~(i < 0)
  BY DEF Levels
<1> QED
  BY <1>1, <1>2 DEF RemoveOrderFromBook

LEMMA NextTypes == TypeOK /\ CursorOK /\ [Next]_vars => TypeOK' /\ CursorOK'
<1> SUFFICES ASSUME TypeOK, CursorOK, [Next]_vars
             PROVE  TypeOK' /\ CursorOK'
  OBVIOUS
<1> USE FieldTypes
<1>1. ASSUME NEW o \in Orders, Submit(o)
      PROVE  TypeOK' /\ CursorOK'
  <2>1. /\ o \in IncomingOrder
        /\ o.id \in Nat /\ o.side \in Sides /\ o.price \in Int /\ o.quantity \in Int
    BY OrdersAssumption DEF IncomingOrder
  <2>2. Report(o.id, "Cancelled", o.side, o.price, 0, o.quantity) \in ReportType
    BY <2>1, ReportIsTyped DEF Statuses
  <2>3. reports' \in Seq(ReportType) /\ pc' \in {"match", "done"}
    BY <1>1, <2>2, SingletonType
       DEF Submit, Accept, Reject, TurnAway, StartMatching, TypeOK, CallTypeOK
  <2>4. CallTypeOK' /\ UNCHANGED <<bookVars, cursor>>
    BY <1>1, <2>1, <2>3
       DEF Submit, Accept, Reject, Enter, EnterProcess, TypeOK, CallTypeOK
  <2> QED
    BY <2>3, <2>4 DEF TypeOK, CursorOK, PoolTypeOK, LadderTypeOK, bookVars, poolVars,
                      ladderVars, linkVars
<1>2. CASE BeginLevel
  <2>1. cursor' \in Levels
    <3>1. FindBest(Contra) # -1 /\ cursor' = FindBest(Contra)
      BY <1>2 DEF BeginLevel, CanMatch
    <3>2. Contra \in Sides
      BY ContraIsSide
    <3> HIDE DEF Contra
    <3>3. PICK i \in Occupied(Contra) : TRUE
      BY <3>1, <3>2, FindBestFindsNone DEF TypeOK
    <3> QED
      BY <3>1, <3>2, <3>3, FindBestIsBest DEF TypeOK
  <2> QED
    BY <1>2, <2>1
       DEF BeginLevel, TypeOK, CursorOK, PoolTypeOK, LadderTypeOK, CallTypeOK, bookVars,
           poolVars, ladderVars, linkVars, argVars, eventVars
<1>3. CASE EndLevel
  BY <1>3 DEF EndLevel, TypeOK, CursorOK, PoolTypeOK, LadderTypeOK, CallTypeOK, bookVars,
              poolVars, ladderVars, linkVars, argVars, eventVars
<1>4. CASE FillMaker
  <2> DEFINE s == FirstSlot
  <2>1. s \in Slots /\ Contra \in Sides /\ cursor \in Levels
    BY <1>4, FirstIsSlot, ContraIsSide DEF FillMaker, CursorOK
  <2>2. /\ trades' = Append(trades, Trade(taker, orders[s], orders[s].remaining))
        /\ left' = left - orders[s].remaining
        /\ orders' = [orders EXCEPT ![s] = Reduced(orders[s], 0, "Filled")]
        /\ RemoveFrom(Contra, cursor, s)
        /\ Erase(orders[s].id)
        /\ reports' = Append(reports, Report(orders[s].id, "Filled", Contra,
                                orders[s].price, orders[s].quantity, 0))
        /\ Deallocate(s)
        /\ UNCHANGED <<op, taker, pc, cursor>>
    BY <1>4 DEF FillMaker, TradeWith, ReportFilled, argVars
  <2> HIDE DEF s, Contra
  <2>3. PoolTypeOK'
    BY <2>1, <2>2, PoolSteps DEF TypeOK
  <2>4. LadderTypeOK'
    BY <2>1, <2>2, RemoveFromSteps DEF TypeOK
  <2>5. orders' \in [Slots -> SlotType]
    <3>1. Reduced(orders[s], 0, "Filled") \in SlotType
      BY <2>1, ReducedProperties DEF Statuses
    <3> QED
      BY <2>1, <2>2, <3>1 DEF TypeOK
  <2>6. orderMap' \in [OrderIds -> SlotOrNone]
    BY <2>2 DEF Erase, TypeOK, SlotOrNone
  <2>7. trades' \in Seq(TradeType)
    BY <2>1, <2>2, TradeIsTyped, AppendType DEF TypeOK, CallTypeOK
  <2>8. reports' \in Seq(ReportType)
    <3>1. Report(orders[s].id, "Filled", Contra, orders[s].price, orders[s].quantity, 0)
            \in ReportType
      BY <2>1, ReportIsTyped DEF Statuses
    <3> QED
      BY <2>2, <3>1, AppendType DEF TypeOK, CallTypeOK
  <2>9. left' \in Int
    BY <2>1, <2>2
  <2> QED
    BY <2>1, <2>2, <2>3, <2>4, <2>5, <2>6, <2>7, <2>8, <2>9
       DEF TypeOK, CallTypeOK, CursorOK
<1>5. CASE FillTaker
  <2> DEFINE s == FirstSlot
  <2>1. s \in Slots
    BY <1>5, FirstIsSlot DEF FillTaker
  <2>2. /\ trades' = Append(trades, Trade(taker, orders[s], left))
        /\ left' = left - left
        /\ orders' = [orders EXCEPT ![s] =
                        Reduced(orders[s], orders[s].remaining - left, "PartiallyFilled")]
        /\ UNCHANGED <<poolVars, ladderVars, orderMap, op, taker, reports, pc, cursor>>
    BY <1>5 DEF FillTaker, TradeWith, argVars
  <2> HIDE DEF s
  <2>3. orders' \in [Slots -> SlotType]
    <3>1. Reduced(orders[s], orders[s].remaining - left, "PartiallyFilled") \in SlotType
      <4>1. orders[s].remaining - left \in Int /\ "PartiallyFilled" \in Statuses
        BY <2>1 DEF Statuses
      <4> QED
        BY <2>1, <4>1, ReducedProperties
    <3> QED
      BY <2>1, <2>2, <3>1 DEF TypeOK
  <2>4. trades' \in Seq(TradeType) /\ left' \in Int
    BY <2>1, <2>2, TradeIsTyped, AppendType DEF TypeOK, CallTypeOK
  <2> QED
    BY <2>2, <2>3, <2>4
       DEF TypeOK, CursorOK, PoolTypeOK, LadderTypeOK, CallTypeOK, poolVars, ladderVars,
           linkVars
<1>6. ASSUME NEW status \in Statuses, ReportTaker(status)
      PROVE  reports' \in Seq(ReportType) /\ pc' = "done"
  <2>1. Report(taker.id, status, taker.side, taker.price, taker.quantity - left, left)
          \in ReportType
    BY ReportIsTyped
  <2> QED
    BY <1>6, <2>1, AppendType DEF ReportTaker, TypeOK, CallTypeOK
<1>7. CASE Conclude
  <2>1. (IF left = 0 THEN "Filled" ELSE "Cancelled") \in Statuses
    BY DEF Statuses
  <2>2. reports' \in Seq(ReportType) /\ pc' = "done"
    BY <1>6, <1>7, <2>1 DEF Conclude
  <2> QED
    BY <1>7, <2>2
       DEF Conclude, TypeOK, CursorOK, PoolTypeOK, LadderTypeOK, CallTypeOK, bookVars,
           poolVars, ladderVars, linkVars, argVars
<1>8. CASE Rest
  <2>1. PICK slot \in Slots :
          /\ Allocate(slot)
          /\ InsertOrder(slot, taker)
          /\ orderMap' = [orderMap EXCEPT ![taker.id] = slot]
    BY <1>8 DEF Rest
  <2>2. PoolTypeOK'
    BY <2>1, PoolSteps DEF TypeOK
  <2>3. LadderTypeOK'
    BY <2>1, RestSteps, PushBackSteps, DetachSteps DEF TypeOK
  <2>4. orders' \in [Slots -> SlotType]
    BY <2>1, RestSteps DEF TypeOK
  <2>5. orderMap' \in [OrderIds -> SlotOrNone]
    BY <2>1 DEF TypeOK, SlotOrNone
  <2>6. reports' \in Seq(ReportType) /\ pc' = "done"
    BY <1>6, <1>8 DEF Rest, Statuses
  <2>7. UNCHANGED <<op, taker, left, trades, cursor>>
    BY <1>8 DEF Rest, argVars
  <2> QED
    BY <2>2, <2>3, <2>4, <2>5, <2>6, <2>7 DEF TypeOK, CallTypeOK, CursorOK
<1>9. ASSUME NEW id \in OrderIds, CancelUnknown(id) \/ CancelKnown(id)
      PROVE  TypeOK' /\ CursorOK'
  <2>1. /\ op' = "cancel"
        /\ taker' \in IncomingOrder
        /\ pc' = "done"
        /\ UNCHANGED <<left, cursor, trades>>
    <3>1. EnterCancel(id) /\ UNCHANGED cursor
      BY <1>9 DEF CancelUnknown, CancelKnown
    <3>2. id \in Nat
      BY OrdersAssumption DEF OrderIds, IncomingOrder
    <3>3. [NoOrder EXCEPT !.id = id] \in IncomingOrder
      BY <3>2 DEF NoOrder, IncomingOrder, Sides, OrderTypes
    <3> QED
      BY <3>1, <3>3 DEF EnterCancel
  <2>2. CASE CancelUnknown(id)
    BY <2>1, <2>2
       DEF CancelUnknown, TypeOK, CursorOK, PoolTypeOK, LadderTypeOK, CallTypeOK,
           bookVars, poolVars, ladderVars, linkVars
  <2>3. CASE CancelKnown(id)
    <3> DEFINE s == orderMap[id]
    <3>1. s \in Slots
      BY <2>3 DEF CancelKnown, TypeOK, SlotOrNone
    <3>2. /\ RemoveOrderFromBook(s)
          /\ reports' = <<Report(orders[s].id, "Cancelled", orders[s].side, orders[s].price,
                                 orders[s].quantity - orders[s].remaining,
                                 orders[s].remaining)>>
          /\ Deallocate(s)
          /\ UNCHANGED orders
      BY <2>3 DEF CancelKnown, ReportCancelled
    <3> HIDE DEF s
    <3>3. PoolTypeOK'
      BY <3>1, <3>2, PoolSteps DEF TypeOK
    <3>4. LadderTypeOK'
      <4>1. CASE UNCHANGED ladderVars
        BY <4>1 DEF ladderVars, linkVars, TypeOK, LadderTypeOK
      <4> QED
        BY <3>1, <3>2, <4>1, CancelSteps, RemoveFromSteps DEF TypeOK
    <3>5. orderMap' \in [OrderIds -> SlotOrNone]
      BY <3>1, <3>2, CancelSteps DEF Erase, TypeOK, SlotOrNone
    <3>6. reports' \in Seq(ReportType)
      <4> DEFINE filled == orders[s].quantity - orders[s].remaining
      <4>1. filled \in Int /\ "Cancelled" \in Statuses
        BY <3>1 DEF Statuses
      <4>2. reports' = <<Report(orders[s].id, "Cancelled", orders[s].side, orders[s].price,
                                filled, orders[s].remaining)>>
        BY <3>2
      <4> HIDE DEF filled
      <4>3. Report(orders[s].id, "Cancelled", orders[s].side, orders[s].price,
                   filled, orders[s].remaining) \in ReportType
        BY <3>1, <4>1, ReportIsTyped
      <4> QED
        BY <4>2, <4>3, SingletonType
    <3> QED
      BY <2>1, <3>2, <3>3, <3>4, <3>5, <3>6 DEF TypeOK, CallTypeOK, CursorOK
  <2> QED
    BY <1>9, <2>2, <2>3
<1>10. CASE Return
  <2>1. NoOrder \in IncomingOrder
    BY DEF NoOrder, IncomingOrder, Sides, OrderTypes
  <2>2. << >> \in Seq(TradeType) /\ << >> \in Seq(ReportType)
    BY EmptySeq
  <2> QED
    BY <1>10, <2>1, <2>2
       DEF Return, EndCall, TypeOK, CursorOK, PoolTypeOK, LadderTypeOK, CallTypeOK,
           bookVars, poolVars, ladderVars, linkVars
<1>11. CASE UNCHANGED vars
  BY <1>11 DEF vars, TypeOK, CursorOK, PoolTypeOK, LadderTypeOK, CallTypeOK, bookVars,
               poolVars, ladderVars, linkVars, callVars, argVars, eventVars
<1> QED
  BY <1>1, <1>2, <1>3, <1>4, <1>5, <1>7, <1>8, <1>9, <1>10, <1>11 DEF Next, Match

\* Every variable keeps the type of the field it stands for, and best_idx is a
\* level whenever the inner loop indexes an array with it.
THEOREM TypeCorrect == Spec => [](TypeOK /\ CursorOK)
<1>1. Init => TypeOK /\ CursorOK
  BY InitTypes
<1>2. TypeOK /\ CursorOK /\ [Next]_vars => (TypeOK /\ CursorOK)'
  BY NextTypes
<1> QED
  BY <1>1, <1>2, PTL DEF Spec

-----------------------------------------------------------------------------
(***************************************************************************)
(* The pool, and the bits, whatever prices callers name.                   *)
(***************************************************************************)
LEMMA NextOnPool ==
  ASSUME TypeOK, CursorOK, [Next]_vars
  PROVE  UNCHANGED poolVars \/ \E slot \in Slots : Allocate(slot) \/ Deallocate(slot)
<1>1. CASE FillMaker
  BY <1>1, FirstIsSlot DEF FillMaker
<1>2. CASE Rest
  BY <1>2 DEF Rest
<1>3. ASSUME NEW id \in OrderIds, CancelUnknown(id) \/ CancelKnown(id)
      PROVE  UNCHANGED poolVars \/ \E slot \in Slots : Deallocate(slot)
  BY <1>3 DEF CancelUnknown, CancelKnown, TypeOK, bookVars, SlotOrNone
<1>4. ASSUME NEW o \in Orders, Submit(o)
      PROVE  UNCHANGED poolVars
  BY <1>4 DEF Submit, Accept, Reject, Enter, bookVars
<1>5. CASE BeginLevel \/ FillTaker \/ EndLevel \/ Conclude \/ Return \/ UNCHANGED vars
  BY <1>5 DEF BeginLevel, FillTaker, EndLevel, Conclude, Return, vars, bookVars
<1> QED
  BY <1>1, <1>2, <1>3, <1>4, <1>5 DEF Next, Match

\* free_head_ and the pool_index fields always are a permutation of the slots and
\* the end marker: allocate() never hands out a slot that the book holds.
THEOREM PoolCorrect == Spec => []PoolPermutation
<1>1. Init => PoolPermutation
  BY PoolCapacityAssumption DEF Init, PoolInit, PoolPermutation, Slots, NoSlot
<1>2. TypeOK /\ CursorOK /\ PoolPermutation /\ [Next]_vars => PoolPermutation'
  <2> SUFFICES ASSUME TypeOK, CursorOK, PoolPermutation, [Next]_vars
               PROVE  PoolPermutation'
    OBVIOUS
  <2>1. CASE UNCHANGED poolVars
    BY <2>1 DEF poolVars, PoolPermutation
  <2>2. ASSUME NEW slot \in Slots, Allocate(slot) \/ Deallocate(slot)
        PROVE  PoolPermutation'
    BY <2>2, PoolSteps DEF TypeOK
  <2> QED
    BY <2>1, <2>2, NextOnPool
<1> QED
  BY <1>1, <1>2, TypeCorrect, PTL DEF Spec

\* Only a Rest sets bits.
LEMMA OnlyRestSetsBits ==
  ASSUME TypeOK, CursorOK, [Next]_vars, ~Rest, NEW side \in Sides
  PROVE  SetBits(bits'[side]) \subseteq Occupied(side)
<1>1. ASSUME UNCHANGED ladderVars
      PROVE  SetBits(bits'[side]) \subseteq Occupied(side)
  BY <1>1 DEF ladderVars, Occupied
<1>2. ASSUME NEW sd \in Sides, NEW i \in Levels, NEW slot \in Slots, RemoveFrom(sd, i, slot)
      PROVE  SetBits(bits'[side]) \subseteq Occupied(side)
  BY <1>2, RemoveFromSteps DEF TypeOK, SetBits, Occupied
<1>3. CASE FillMaker
  <2>1. FirstSlot \in Slots /\ Contra \in Sides /\ cursor \in Levels
    BY <1>3, FirstIsSlot, ContraIsSide DEF FillMaker, CursorOK
  <2> QED
    BY <1>2, <1>3, <2>1 DEF FillMaker
<1>4. ASSUME NEW id \in OrderIds, CancelKnown(id)
      PROVE  SetBits(bits'[side]) \subseteq Occupied(side)
  <2>1. orderMap[id] \in Slots /\ RemoveOrderFromBook(orderMap[id])
    BY <1>4 DEF CancelKnown, TypeOK, SlotOrNone
  <2>2. orders[orderMap[id]].side \in Sides
    BY <2>1, FieldTypes
  <2>3. CASE UNCHANGED ladderVars
    BY <1>1, <2>3
  <2> QED
    BY <1>2, <2>1, <2>2, <2>3, CancelSteps
<1>5. ASSUME NEW id \in OrderIds, CancelUnknown(id)
      PROVE  UNCHANGED ladderVars
  BY <1>5 DEF CancelUnknown, bookVars
<1>6. ASSUME NEW o \in Orders, Submit(o)
      PROVE  UNCHANGED ladderVars
  BY <1>6 DEF Submit, Accept, Reject, Enter, bookVars
<1>7. CASE BeginLevel \/ FillTaker \/ EndLevel \/ Conclude \/ Return \/ UNCHANGED vars
  BY <1>1, <1>7 DEF BeginLevel, FillTaker, EndLevel, Conclude, Return, vars, bookVars
<1> QED
  BY <1>1, <1>3, <1>4, <1>5, <1>6, <1>7 DEF Next, Match

LEMMA RestSetsOneBit ==
  ASSUME TypeOK, Rest, NEW side \in Sides
  PROVE  \A i \in SetBits(bits'[side]) :
           \/ i \in Occupied(side)
           \/ side = taker.side /\ i = taker.price
<1>1. PICK slot \in Slots : InsertOrder(slot, taker)
  BY DEF Rest
<1>2. CASE PriceToIndex(taker.price) \in Levels
  <2>1. PriceToIndex(taker.price) = taker.price
    BY <1>2, FieldTypes, PriceToIndexProperties DEF Levels
  <2>2. PushBack(taker.side, taker.price, slot) /\ taker.price \in Levels
    BY <1>1, <1>2, <2>1, RestSteps
  <2> QED
    BY <2>2, FieldTypes, PushBackSteps DEF TypeOK, SetBits, Occupied
<1>3. CASE PriceToIndex(taker.price) \notin Levels
  <2>1. bits' = bits
    BY <1>1, <1>3, RestSteps DEF Detach
  <2> QED
    BY <2>1 DEF Occupied
<1> QED
  BY <1>2, <1>3

-----------------------------------------------------------------------------
(***************************************************************************)
(* The book never crosses.                                                 *)
(***************************************************************************)
\* When the loops are over and the order still wants quantity, no occupied level
\* of the other side is one it would trade at.
LEMMA NothingLeftToMatch ==
  ASSUME TypeOK, left > 0, ~CanMatch, NEW i \in Occupied(Contra)
  PROVE  ~Crosses(taker, IndexToPrice(i))
<1>1. /\ Contra \in Sides /\ Contra = Opposite(taker.side)
      /\ taker.side \in Sides /\ taker.price \in Int /\ left \in Int
  BY ContraIsSide, FieldTypes DEF Contra
<1>2. /\ FindBest(Contra) \in Levels
      /\ Contra = "Buy" => i <= FindBest(Contra)
      /\ Contra = "Sell" => FindBest(Contra) <= i
  <2> HIDE DEF Contra
  <2> QED
    BY <1>1, FindBestIsBest DEF TypeOK
<1>3. i \in Int /\ FindBest(Contra) \in Int /\ FindBest(Contra) >= 0
  BY <1>2 DEF Occupied, SetBits, Levels
<1>4. ~Crosses(taker, IndexToPrice(FindBest(Contra)))
  BY <1>3 DEF CanMatch
<1> QED
  BY <1>1, <1>2, <1>3, <1>4
     DEF Crosses, IndexToPrice, BasePrice, TickSize, Opposite, Sides

LEMMA RestDoesNotCross ==
  ASSUME TypeOK, NotCrossed, Rest
  PROVE  \A bid \in SetBits(bits'["Buy"]), ask \in SetBits(bits'["Sell"]) : bid < ask
<1>0. /\ taker.side \in Sides /\ taker.price \in Int
      /\ left > 0 /\ ~CanMatch /\ taker.type = "Limit"
  BY FieldTypes DEF Rest, MatchOver, ShouldRest
<1>1. ASSUME NEW i \in Occupied(Contra)
      PROVE  /\ taker.side = "Buy" => taker.price < i
             /\ taker.side = "Sell" => i < taker.price
  <2>1. ~Crosses(taker, IndexToPrice(i))
    BY <1>0, NothingLeftToMatch
  <2>2. i \in Int
    BY DEF Occupied, SetBits, Levels
  <2> QED
    BY <1>0, <2>1, <2>2 DEF Crosses, IndexToPrice, BasePrice, TickSize
<1>2. SUFFICES ASSUME NEW bid \in SetBits(bits'["Buy"]), NEW ask \in SetBits(bits'["Sell"])
               PROVE  bid < ask
  OBVIOUS
<1>3. /\ bid \in Occupied("Buy") \/ (taker.side = "Buy" /\ bid = taker.price)
      /\ ask \in Occupied("Sell") \/ (taker.side = "Sell" /\ ask = taker.price)
  BY <1>2, RestSetsOneBit DEF Sides
<1> QED
  BY <1>1, <1>3 DEF NotCrossed, Contra, Opposite

\* No bid at or above an ask at any moment, in the midst of a call too.
THEOREM NeverCrossed == Spec => []NotCrossed
<1>1. Init => NotCrossed
  BY NoBitsEmpty DEF Init, LadderInit, NotCrossed, Occupied, SetBits, Sides
<1>2. TypeOK /\ CursorOK /\ NotCrossed /\ [Next]_vars => NotCrossed'
  <2> SUFFICES ASSUME TypeOK, CursorOK, NotCrossed, [Next]_vars
               PROVE  \A bid \in SetBits(bits'["Buy"]), ask \in SetBits(bits'["Sell"]) : bid < ask
    BY DEF NotCrossed, Occupied
  <2>1. CASE Rest
    BY <2>1, RestDoesNotCross
  <2>2. CASE ~Rest
    BY <2>2, OnlyRestSetsBits DEF NotCrossed, Sides
  <2> QED
    BY <2>1, <2>2
<1> QED
  BY <1>1, <1>2, TypeCorrect, PTL DEF Spec

-----------------------------------------------------------------------------
(***************************************************************************)
(* The book: the levels hold the right slots, the links agree with them,   *)
(* the bits with the heads, and the map with the slots.                    *)
(*                                                                         *)
(* The parts hold up each other.  A cancel follows the map to a slot, and  *)
(* removes it from the level of its price: it stands there because the map *)
(* is sound, and the map stays sound because no slot stands in two levels. *)
(* The inner loop follows a head to the first of a queue because the links *)
(* agree, and these stay right because only what stands in a level is      *)
(* removed from it.                                                        *)
(***************************************************************************)
BookInv == BookConsistent /\ Linked /\ OccupiedIffNonEmpty /\ MapSound

\* The order that is matched is valid and wants no more than it came with.
CallInv ==
  pc \in {"match", "level"} =>
    /\ taker \in Orders /\ ValidateOrder(taker)
    /\ 0 <= left /\ left <= taker.quantity

LEMMA LevelTypes ==
  ASSUME TypeOK, NEW side \in Sides, NEW i \in Levels
  PROVE  /\ queues[side][i] \in Seq(Slots)
         /\ Len(queues[side][i]) \in Nat
         /\ DOMAIN queues[side][i] = 1 .. Len(queues[side][i])
         /\ \A k \in DOMAIN queues[side][i] : queues[side][i][k] \in Slots
<1>1. queues[side][i] \in Seq(Slots)
  BY DEF TypeOK, LadderTypeOK
<1> QED
  BY <1>1, LenProperties, ElementOfSeq

\* The properties after a step, in terms of what it leaves.
BelongsAfter(s, side, i) ==
  /\ poolIndex'[s] = s
  /\ orders'[s].side = side
  /\ PriceToIndex(orders'[s].price) = i
  /\ 0 < orders'[s].remaining
  /\ orders'[s].remaining <= orders'[s].quantity
  /\ orders'[s].status \in {"Resting", "PartiallyFilled"}

InLevelAfter(s, side, i) == \E k \in DOMAIN queues'[side][i] : queues'[side][i][k] = s

RestingAfter == {s \in Slots : \E side \in Sides, i \in Levels : InLevelAfter(s, side, i)}

LEMMA BookAfter ==
  ASSUME \A side \in Sides, i \in Levels :
           /\ IsInjective(queues'[side][i])
           /\ \A k \in DOMAIN queues'[side][i] : BelongsAfter(queues'[side][i][k], side, i)
  PROVE  BookConsistent'
BY DEF BookConsistent, Belongs, BelongsAfter

LEMMA LinkedAfter ==
  ASSUME \A side \in Sides, i \in Levels :
           Holds(queues'[side][i], heads'[side][i], tails'[side][i], prev', next')
  PROVE  Linked'
BY DEF Linked, Represents, Holds

LEMMA RestingIsAfter == Resting' = RestingAfter
BY DEF Resting, RestingAfter, InLevel, InLevelAfter

LEMMA MapAfter ==
  ASSUME \A id \in OrderIds :
           orderMap'[id] # NoSlot =>
             orderMap'[id] \in RestingAfter /\ orders'[orderMap'[id]].id = id
  PROVE  MapSound'
BY RestingIsAfter DEF MapSound

LEMMA BitsAfter ==
  ASSUME \A side \in Sides, i \in Levels : Test(bits'[side], i) <=> heads'[side][i] # NoSlot
  PROVE  OccupiedIffNonEmpty'
BY DEF OccupiedIffNonEmpty, Test

LEMMA LevelHolds ==
  ASSUME Linked, NEW side \in Sides, NEW i \in Levels
  PROVE  Holds(queues[side][i], heads[side][i], tails[side][i], prev, next)
BY DEF Linked, Represents, Holds

\* What Belongs says of a slot depends on the slot's own fields only.
LEMMA BelongsFrame ==
  ASSUME NEW s, NEW side, NEW i, Belongs(s, side, i),
         poolIndex'[s] = poolIndex[s], orders'[s] = orders[s]
  PROVE  BelongsAfter(s, side, i)
BY DEF Belongs, BelongsAfter

LEMMA StandsWhereItBelongs ==
  ASSUME TypeOK, BookConsistent, NEW s, NEW side \in Sides, NEW i \in Levels,
         InLevel(s, side, i)
  PROVE  s \in Slots /\ s \in Resting /\ Belongs(s, side, i)
BY LevelTypes DEF InLevel, BookConsistent, Resting

\* A resting order stands in the occupied level of its own side and price, and in
\* no other.
LEMMA RestingStands ==
  ASSUME TypeOK, BookConsistent, Linked, OccupiedIffNonEmpty, NEW s \in Resting
  PROVE  /\ s \in Slots
         /\ orders[s].side \in Sides
         /\ orders[s].price \in Levels
         /\ orders[s].price \in Occupied(orders[s].side)
         /\ InLevel(s, orders[s].side, orders[s].price)
         /\ PriceToIndex(orders[s].price) = orders[s].price
         /\ Belongs(s, orders[s].side, orders[s].price)
<1>1. s \in Slots
  BY DEF Resting
<1>2. PICK side \in Sides, i \in Levels : InLevel(s, side, i)
  BY DEF Resting
<1>3. Belongs(s, side, i)
  BY <1>2, StandsWhereItBelongs
<1>4. orders[s].side = side /\ PriceToIndex(orders[s].price) = i
  BY <1>3 DEF Belongs
<1>5. orders[s].price = i
  BY <1>1, <1>4, FieldTypes, PriceToIndexProperties DEF Levels
<1>6. i \in Occupied(side)
  <2>1. PICK k \in DOMAIN queues[side][i] : queues[side][i][k] = s
    BY <1>2 DEF InLevel
  <2>2. queues[side][i] # << >> /\ 1 \in DOMAIN queues[side][i]
    BY <2>1, LevelTypes, EmptySeq
  <2>3. heads[side][i] = queues[side][i][1] /\ queues[side][i][1] \in Slots
    BY <2>2, LevelHolds, LevelTypes DEF Holds
  <2> QED
    BY <2>3 DEF OccupiedIffNonEmpty, Occupied, SetBits, Slots, NoSlot
<1> QED
  BY <1>1, <1>2, <1>3, <1>4, <1>5, <1>6

\* The inner loop looks at the first order of the level at best_idx.
LEMMA FirstStandsFirst ==
  ASSUME TypeOK, CursorOK, Linked, pc = "level", MoreAtLevel
  PROVE  /\ FirstSlot \in Slots /\ Contra \in Sides /\ cursor \in Levels
         /\ 1 \in DOMAIN queues[Contra][cursor]
         /\ FirstSlot = queues[Contra][cursor][1]
         /\ InLevel(FirstSlot, Contra, cursor)
<1>1. Contra \in Sides /\ cursor \in Levels /\ FirstSlot \in Slots
  BY ContraIsSide, FirstIsSlot DEF CursorOK
<1>2. FirstSlot = heads[Contra][cursor] /\ FirstSlot # NoSlot
  BY DEF FirstSlot, MoreAtLevel
<1> HIDE DEF Contra, FirstSlot
<1> DEFINE q == queues[Contra][cursor]
<1>3. Holds(q, FirstSlot, tails[Contra][cursor], prev, next)
  BY <1>1, <1>2, LevelHolds
<1>4. /\ q \in Seq(Slots) /\ Len(q) \in Nat /\ DOMAIN q = 1 .. Len(q)
      /\ q = << >> <=> Len(q) = 0
  BY <1>1, LevelTypes, EmptySeq
<1> HIDE DEF q
<1>5. q # << >> /\ FirstSlot = q[1]
  BY <1>2, <1>3 DEF Holds
<1>6. 1 \in DOMAIN q
  BY <1>4, <1>5
<1> QED
  BY <1>1, <1>5, <1>6 DEF q, InLevel

-----------------------------------------------------------------------------
\* Taking an order out of its level: of the queues, only that slot is gone.
LEMMA RemovalOnQueues ==
  ASSUME TypeOK, BookConsistent, NEW side \in Sides, NEW i \in Levels, NEW s \in Slots,
         InLevel(s, side, i), RemoveFrom(side, i, s)
  PROVE  \A sd \in Sides, n \in Levels :
           /\ queues'[sd][n] \in Seq(Slots)
           /\ IsInjective(queues'[sd][n])
           /\ \A t : InLevelAfter(t, sd, n) <=> InLevel(t, sd, n) /\ t # s
<1> TAKE sd \in Sides, n \in Levels
<1> DEFINE q == queues[sd][n]
<1>1. queues'[sd][n] = IF sd = side /\ n = i THEN Without(q, s) ELSE q
  BY DEF RemoveFrom, TypeOK, LadderTypeOK
<1>2. q \in Seq(Slots) /\ IsInjective(q)
  BY LevelTypes DEF BookConsistent
<1>3. CASE sd = side /\ n = i
  <2>1. PICK k \in DOMAIN q : q[k] = s
    BY <1>3 DEF InLevel
  <2> DEFINE r == Without(q, q[k])
  <2> HIDE DEF q
  <2>2. k \in 1 .. Len(q)
    BY <1>2, <2>1, LenProperties
  <2>3. /\ r \in Seq(Slots)
        /\ Len(q) \in Nat /\ DOMAIN q = 1 .. Len(q)
        /\ DOMAIN r = 1 .. Len(q) - 1
        /\ \A m \in 1 .. Len(q) - 1 : r[m] = IF m < k THEN q[m] ELSE q[m + 1]
        /\ IsInjective(r)
        /\ \A m \in 1 .. Len(q) - 1 : r[m] # q[k]
    BY <1>2, <2>2, WithoutProperties
  <2>4. queues'[sd][n] = r
    BY <1>1, <1>3, <2>1
  <2> HIDE DEF r
  <2>5. ASSUME NEW m \in DOMAIN r
        PROVE  \E j \in DOMAIN q : q[j] = r[m]
    <3>1. m < k => m \in DOMAIN q /\ r[m] = q[m]
      BY <2>3
    <3>2. ~(m < k) => m + 1 \in DOMAIN q /\ r[m] = q[m + 1]
      BY <2>3
    <3> QED
      BY <3>1, <3>2
  <2>6. ASSUME NEW j \in DOMAIN q, q[j] # q[k]
        PROVE  \E m \in DOMAIN r : r[m] = q[j]
    <3>0. j # k /\ j \in 1 .. Len(q) /\ k \in 1 .. Len(q)
      BY <2>2, <2>3, <2>6
    <3>1. j < k => j \in DOMAIN r /\ r[j] = q[j]
      BY <2>3, <3>0
    <3>2. ~(j < k) => j - 1 \in DOMAIN r /\ r[j - 1] = q[j]
      <4>1. ~(j < k) => j - 1 \in 1 .. Len(q) - 1 /\ ~(j - 1 < k) /\ j - 1 + 1 = j
        BY <2>3, <3>0
      <4> QED
        BY <2>3, <4>1
    <3> QED
      BY <3>1, <3>2
  <2>7. \A t : (\E m \in DOMAIN r : r[m] = t) <=> (\E j \in DOMAIN q : q[j] = t) /\ t # s
    BY <2>1, <2>3, <2>5, <2>6
  <2> QED
    BY <2>3, <2>4, <2>7 DEF InLevel, InLevelAfter, q
<1>4. CASE ~(sd = side /\ n = i)
  <2>1. Belongs(s, side, i)
    BY StandsWhereItBelongs
  <2>2. ~InLevel(s, sd, n)
    BY <1>4, <2>1, StandsWhereItBelongs DEF Belongs
  <2> QED
    BY <1>1, <1>2, <1>4, <2>2 DEF InLevel, InLevelAfter
<1> QED
  BY <1>3, <1>4

LEMMA RemovalOnResting ==
  ASSUME TypeOK, BookConsistent, NEW side \in Sides, NEW i \in Levels, NEW s \in Slots,
         InLevel(s, side, i), RemoveFrom(side, i, s)
  PROVE  RestingAfter = Resting \ {s}
BY RemovalOnQueues DEF RestingAfter, Resting

LEMMA RemovalKeepsBook ==
  ASSUME TypeOK, BookConsistent, NEW side \in Sides, NEW i \in Levels, NEW s \in Slots,
         InLevel(s, side, i), RemoveFrom(side, i, s), Deallocate(s),
         \A t \in Slots \ {s} : orders'[t] = orders[t]
  PROVE  BookConsistent'
<1> SUFFICES ASSUME NEW sd \in Sides, NEW n \in Levels
             PROVE  /\ IsInjective(queues'[sd][n])
                    /\ \A k \in DOMAIN queues'[sd][n] : BelongsAfter(queues'[sd][n][k], sd, n)
  BY BookAfter
<1>1. ASSUME NEW k \in DOMAIN queues'[sd][n]
      PROVE  BelongsAfter(queues'[sd][n][k], sd, n)
  <2> DEFINE t == queues'[sd][n][k]
  <2>1. InLevelAfter(t, sd, n)
    BY DEF InLevelAfter
  <2> HIDE DEF t
  <2>2. InLevel(t, sd, n) /\ t # s
    BY <2>1, RemovalOnQueues
  <2>3. t \in Slots /\ Belongs(t, sd, n)
    BY <2>2, StandsWhereItBelongs
  <2>4. orders'[t] = orders[t] /\ poolIndex'[t] = poolIndex[t]
    BY <2>2, <2>3 DEF Deallocate, TypeOK, PoolTypeOK
  <2>5. BelongsAfter(t, sd, n)
    BY <2>3, <2>4, BelongsFrame
  <2> QED
    BY <2>5 DEF t
<1> QED
  BY <1>1, RemovalOnQueues

LEMMA RemovalKeepsLinks ==
  ASSUME TypeOK, BookConsistent, Linked, NEW side \in Sides, NEW i \in Levels,
         NEW s \in Slots, InLevel(s, side, i), RemoveFrom(side, i, s)
  PROVE  Linked'
<1>0. /\ prev \in [Slots -> SlotOrNone] /\ next \in [Slots -> SlotOrNone]
      /\ heads \in [Sides -> [Levels -> SlotOrNone]]
      /\ tails \in [Sides -> [Levels -> SlotOrNone]]
      /\ queues \in [Sides -> [Levels -> Seq(Slots)]]
  BY DEF TypeOK, LadderTypeOK
<1> DEFINE h(sd, n) == IF sd = side /\ n = i
                       THEN IF prev[s] = NoSlot THEN next[s] ELSE heads[sd][n] ELSE heads[sd][n]
           t(sd, n) == IF sd = side /\ n = i
                       THEN IF next[s] = NoSlot THEN prev[s] ELSE tails[sd][n] ELSE tails[sd][n]
           q(sd, n) == IF sd = side /\ n = i THEN Without(queues[sd][n], s) ELSE queues[sd][n]
           prv == [x \in Slots |-> IF x = s THEN NoSlot
                                   ELSE IF x = next[s] THEN prev[s] ELSE prev[x]]
           nxt == [x \in Slots |-> IF x = s THEN NoSlot
                                   ELSE IF x = prev[s] THEN next[s] ELSE next[x]]
<1>1. /\ prev' = prv /\ next' = nxt
      /\ \A sd \in Sides, n \in Levels :
           heads'[sd][n] = h(sd, n) /\ tails'[sd][n] = t(sd, n) /\ queues'[sd][n] = q(sd, n)
  BY <1>0 DEF RemoveFrom, Unlink
<1>2. PICK k \in DOMAIN queues[side][i] : queues[side][i][k] = s
  BY DEF InLevel
<1> SUFFICES ASSUME NEW sd \in Sides, NEW n \in Levels
             PROVE  Holds(q(sd, n), h(sd, n), t(sd, n), prv, nxt)
  BY <1>1, LinkedAfter
<1>3. /\ queues[sd][n] \in Seq(Slots) /\ IsInjective(queues[sd][n])
      /\ Holds(queues[sd][n], heads[sd][n], tails[sd][n], prev, next)
  BY LevelTypes, LevelHolds DEF BookConsistent
<1>4. CASE sd = side /\ n = i
  <2>1. Holds(Without(queues[sd][n], s),
              IF prev[s] = NoSlot THEN next[s] ELSE heads[sd][n],
              IF next[s] = NoSlot THEN prev[s] ELSE tails[sd][n], prv, nxt)
    <3> DEFINE q0 == queues[sd][n]
               h0 == heads[sd][n]
               t0 == tails[sd][n]
               h2 == IF prev[s] = NoSlot THEN next[s] ELSE h0
               t2 == IF next[s] = NoSlot THEN prev[s] ELSE t0
    <3>1. /\ q0 \in Seq(Slots) /\ IsInjective(q0) /\ Holds(q0, h0, t0, prev, next)
          /\ \E m \in DOMAIN q0 : q0[m] = s
      BY <1>2, <1>3, <1>4
    <3>2. Unlinks(s, h0, t0, prev, next, h2, t2, prv, nxt)
      BY DEF Unlinks
    <3> HIDE DEF q0, h0, t0, h2, t2, prv, nxt
    <3>3. Holds(Without(q0, s), h2, t2, prv, nxt)
      BY <1>0, <3>1, <3>2, RemoveHolds
    <3> QED
      BY <3>3 DEF h2, t2, q0, h0, t0
  <2> QED
    BY <1>4, <2>1
<1>5. CASE ~(sd = side /\ n = i)
  \* The neighbours that remove() mends stand in the slot's own level.
  <2>1. ASSUME NEW m \in DOMAIN queues[sd][n]
        PROVE  LET x == queues[sd][n][m] IN
               x \in Slots /\ x # s /\ x # prev[s] /\ x # next[s]
    <3> DEFINE x == queues[sd][n][m]
    <3>1. InLevel(x, sd, n)
      BY DEF InLevel
    <3>2. ASSUME NEW y \in DOMAIN queues[side][i]
          PROVE  x # queues[side][i][y]
      <4>1. InLevel(queues[side][i][y], side, i)
        BY DEF InLevel
      <4>2. Belongs(x, sd, n) /\ Belongs(queues[side][i][y], side, i)
        BY <3>1, <4>1, StandsWhereItBelongs
      <4> QED
        BY <1>5, <4>2 DEF Belongs
    <3>3. x \in Slots /\ x # NoSlot
      BY LevelTypes DEF Slots, NoSlot
    <3> HIDE DEF x
    <3> DEFINE u == queues[side][i]
    <3>4. /\ u \in Seq(Slots) /\ Len(u) \in Nat /\ DOMAIN u = 1 .. Len(u) /\ k \in DOMAIN u
          /\ u[k] = s /\ u # << >>
          /\ Holds(u, heads[side][i], tails[side][i], prev, next)
      BY <1>2, LevelTypes, LevelHolds, EmptySeq
    <3>4a. \A y \in DOMAIN u : x # u[y]
      BY <3>2
    <3> HIDE DEF u
    <3>5. /\ prev[s] = IF k = 1 THEN NoSlot ELSE u[k - 1]
          /\ next[s] = IF k = Len(u) THEN NoSlot ELSE u[k + 1]
      BY <3>4 DEF Holds
    <3>6. (k # 1 => k - 1 \in DOMAIN u) /\ (k # Len(u) => k + 1 \in DOMAIN u)
      BY <3>4
    <3>7. x # s /\ x # prev[s] /\ x # next[s]
      BY <3>3, <3>4, <3>4a, <3>5, <3>6
    <3> QED
      BY <3>3, <3>7 DEF x
  <2>2. \A m \in DOMAIN queues[sd][n] :
          prv[queues[sd][n][m]] = prev[queues[sd][n][m]] /\
          nxt[queues[sd][n][m]] = next[queues[sd][n][m]]
    BY <2>1
  <2> HIDE DEF prv, nxt
  <2>3. Holds(queues[sd][n], heads[sd][n], tails[sd][n], prv, nxt)
    BY <1>3, <2>2, OtherLinksDoNotMatter
  <2> QED
    BY <1>5, <2>3
<1> QED
  BY <1>4, <1>5

LEMMA RemovalKeepsBits ==
  ASSUME TypeOK, OccupiedIffNonEmpty, BookConsistent, Linked, NEW side \in Sides,
         NEW i \in Levels, NEW s \in Slots, InLevel(s, side, i), RemoveFrom(side, i, s)
  PROVE  OccupiedIffNonEmpty'
<1> SUFFICES ASSUME NEW sd \in Sides, NEW n \in Levels
             PROVE  Test(bits'[sd], n) <=> heads'[sd][n] # NoSlot
  BY BitsAfter
<1>1. Test(bits'[sd], n) <=> Test(bits[sd], n) /\ (sd = side /\ n = i => heads'[side][i] # NoSlot)
  BY RemoveFromSteps DEF TypeOK
<1>2. Test(bits[sd], n) <=> heads[sd][n] # NoSlot
  BY DEF OccupiedIffNonEmpty
<1>3. CASE sd = side /\ n = i
  <2>1. s \in Resting /\ Belongs(s, side, i)
    BY StandsWhereItBelongs
  <2>2. i \in Occupied(side)
    <3>1. orders[s].side = side /\ orders[s].price = i
      BY <2>1, FieldTypes, PriceToIndexProperties DEF Belongs, Levels
    <3> QED
      BY <2>1, <3>1, RestingStands
  <2> QED
    BY <1>1, <1>3, <2>2 DEF Occupied, SetBits
<1>4. CASE ~(sd = side /\ n = i)
  <2>1. heads'[sd][n] = heads[sd][n]
    BY <1>4 DEF RemoveFrom, Unlink, TypeOK, LadderTypeOK
  <2> QED
    BY <1>1, <1>2, <1>4, <2>1
<1> QED
  BY <1>3, <1>4

LEMMA RemovalKeepsMap ==
  ASSUME TypeOK, BookConsistent, MapSound, NEW side \in Sides, NEW i \in Levels,
         NEW s \in Slots, InLevel(s, side, i), RemoveFrom(side, i, s),
         Erase(orders[s].id), \A t \in Slots \ {s} : orders'[t] = orders[t]
  PROVE  MapSound'
<1> SUFFICES ASSUME NEW id \in OrderIds, orderMap'[id] # NoSlot
             PROVE  orderMap'[id] \in RestingAfter /\ orders'[orderMap'[id]].id = id
  BY MapAfter
<1>1. id # orders[s].id /\ orderMap'[id] = orderMap[id]
  BY DEF Erase, TypeOK
<1>2. orderMap[id] \in Resting /\ orders[orderMap[id]].id = id
  BY <1>1 DEF MapSound
<1>3. orderMap[id] # s /\ orderMap[id] \in Slots
  BY <1>1, <1>2 DEF Resting
<1> QED
  BY <1>1, <1>2, <1>3, RemovalOnResting

LEMMA RemovalKeepsAll ==
  ASSUME TypeOK, BookInv, NEW side \in Sides, NEW i \in Levels, NEW s \in Slots,
         InLevel(s, side, i), RemoveFrom(side, i, s), Erase(orders[s].id), Deallocate(s),
         \A t \in Slots \ {s} : orders'[t] = orders[t]
  PROVE  BookInv'
BY RemovalKeepsBook, RemovalKeepsLinks, RemovalKeepsBits, RemovalKeepsMap DEF BookInv

-----------------------------------------------------------------------------
\* With prices that fit, what rests goes to the level of its price.
LEMMA RestPushes ==
  ASSUME PricesFit, TypeOK, CallInv, Rest
  PROVE  /\ taker.side \in Sides /\ taker.price \in Levels
         /\ PriceToIndex(taker.price) = taker.price
         /\ 0 < left /\ left <= taker.quantity
         /\ \E slot \in Slots :
              /\ Allocate(slot)
              /\ PushBack(taker.side, taker.price, slot)
              /\ orders' = [orders EXCEPT ![slot] =
                   [id |-> taker.id, side |-> taker.side, price |-> taker.price,
                    quantity |-> taker.quantity, remaining |-> left,
                    timestamp |-> taker.timestamp, status |-> "Resting"]]
              /\ orderMap' = [orderMap EXCEPT ![taker.id] = slot]
<1>1. /\ taker \in Orders /\ taker.type = "Limit" /\ taker.price > 0
      /\ 0 < left /\ left <= taker.quantity
  BY DEF CallInv, Rest, MatchOver, ShouldRest, ValidateOrder
<1>2. taker.price \in Levels
  <2>1. taker.price < MaxLevels
    BY <1>1 DEF PricesFit
  <2> QED
    BY <1>1, <2>1, FieldTypes, BitsetAssumption DEF Levels
<1>3. PriceToIndex(taker.price) = taker.price
  BY <1>2 DEF PriceToIndex, TruncDiv, BasePrice, TickSize, Levels
<1>4. PICK slot \in Slots :
        /\ Allocate(slot)
        /\ InsertOrder(slot, taker)
        /\ orderMap' = [orderMap EXCEPT ![taker.id] = slot]
  BY DEF Rest
<1>5. ~(taker.price < 0)
  BY <1>2 DEF Levels
<1>6. PushBack(taker.side, taker.price, slot)
  BY <1>2, <1>3, <1>4, RestSteps
<1>7. orders' = [orders EXCEPT ![slot] =
        [id |-> taker.id, side |-> taker.side, price |-> taker.price,
         quantity |-> taker.quantity, remaining |-> left,
         timestamp |-> taker.timestamp, status |-> "Resting"]]
  BY <1>3, <1>4, <1>5 DEF InsertOrder
<1> QED
  BY <1>1, <1>2, <1>3, <1>4, <1>6, <1>7, FieldTypes

\* The slot the pool hands out stands in no level.
LEMMA FreshSlot ==
  ASSUME TypeOK, PoolPermutation, BookConsistent, NEW slot \in Slots, Allocate(slot)
  PROVE  \A side \in Sides, i \in Levels : ~InLevel(slot, side, i)
<1>1. \A side, i : ~Belongs(slot, side, i)
  BY DEF Allocate, PoolPermutation, Belongs
<1> QED
  BY <1>1, StandsWhereItBelongs

\* Pushing a fresh slot: of the queues, only that slot is new.
LEMMA PushOnQueues ==
  ASSUME TypeOK, BookConsistent, NEW side \in Sides, NEW i \in Levels, NEW s \in Slots,
         \A sd \in Sides, n \in Levels : ~InLevel(s, sd, n), PushBack(side, i, s)
  PROVE  \A sd \in Sides, n \in Levels :
           /\ IsInjective(queues'[sd][n])
           /\ \A t : InLevelAfter(t, sd, n) <=>
                       InLevel(t, sd, n) \/ (sd = side /\ n = i /\ t = s)
<1> TAKE sd \in Sides, n \in Levels
<1> DEFINE q == queues[sd][n]
<1>1. queues'[sd][n] = IF sd = side /\ n = i THEN Append(q, s) ELSE q
  BY DEF PushBack, TypeOK, LadderTypeOK
<1>2. /\ q \in Seq(Slots) /\ IsInjective(q) /\ Len(q) \in Nat /\ DOMAIN q = 1 .. Len(q)
      /\ \A k \in DOMAIN q : q[k] # s
  BY LevelTypes DEF BookConsistent, InLevel
<1>3. CASE sd = side /\ n = i
  <2> DEFINE r == Append(q, s)
  <2> HIDE DEF q
  <2>1. /\ r \in Seq(Slots) /\ DOMAIN r = 1 .. Len(q) + 1
        /\ \A k \in 1 .. Len(q) : r[k] = q[k]
        /\ r[Len(q) + 1] = s
    BY <1>2
  <2> HIDE DEF r
  <2>2. IsInjective(r)
    <3>1. SUFFICES ASSUME NEW j \in DOMAIN r, NEW k \in DOMAIN r, r[j] = r[k]
                   PROVE  j = k
      BY DEF IsInjective
    <3>2. CASE j \in DOMAIN q /\ k \in DOMAIN q
      BY <1>2, <2>1, <3>1, <3>2 DEF IsInjective
    <3>3. CASE j \notin DOMAIN q \/ k \notin DOMAIN q
      BY <1>2, <2>1, <3>1, <3>3
    <3> QED
      BY <3>2, <3>3
  <2>3. \A t : (\E k \in DOMAIN r : r[k] = t) <=> (\E k \in DOMAIN q : q[k] = t) \/ t = s
    <3>1. ASSUME NEW k \in DOMAIN r
          PROVE  (\E j \in DOMAIN q : q[j] = r[k]) \/ r[k] = s
      BY <1>2, <2>1
    <3>2. ASSUME NEW j \in DOMAIN q
          PROVE  \E k \in DOMAIN r : r[k] = q[j]
      BY <1>2, <2>1
    <3>3. \E k \in DOMAIN r : r[k] = s
      BY <1>2, <2>1
    <3> QED
      BY <3>1, <3>2, <3>3
  <2>4. queues'[sd][n] = r
    BY <1>1, <1>3 DEF r
  <2> QED
    BY <1>3, <2>2, <2>3, <2>4 DEF InLevel, InLevelAfter, q
<1>4. CASE ~(sd = side /\ n = i)
  BY <1>1, <1>2, <1>4 DEF InLevel, InLevelAfter
<1> QED
  BY <1>3, <1>4

LEMMA PushOnResting ==
  ASSUME TypeOK, BookConsistent, NEW side \in Sides, NEW i \in Levels, NEW s \in Slots,
         \A sd \in Sides, n \in Levels : ~InLevel(s, sd, n), PushBack(side, i, s)
  PROVE  RestingAfter = Resting \cup {s}
BY PushOnQueues DEF RestingAfter, Resting

LEMMA PushKeepsLinks ==
  ASSUME TypeOK, BookConsistent, Linked, NEW side \in Sides, NEW i \in Levels,
         NEW s \in Slots, \A sd \in Sides, n \in Levels : ~InLevel(s, sd, n),
         PushBack(side, i, s)
  PROVE  Linked'
<1>0. /\ prev \in [Slots -> SlotOrNone] /\ next \in [Slots -> SlotOrNone]
      /\ heads \in [Sides -> [Levels -> SlotOrNone]]
      /\ tails \in [Sides -> [Levels -> SlotOrNone]]
      /\ queues \in [Sides -> [Levels -> Seq(Slots)]]
  BY DEF TypeOK, LadderTypeOK
<1> DEFINE tail == tails[side][i]
           prv == [prev EXCEPT ![s] = tail]
           nxt == [x \in Slots |-> IF x = tail THEN s ELSE IF x = s THEN NoSlot ELSE next[x]]
           h(sd, n) == IF sd = side /\ n = i
                       THEN IF tail = NoSlot THEN s ELSE heads[sd][n] ELSE heads[sd][n]
           t(sd, n) == IF sd = side /\ n = i THEN s ELSE tails[sd][n]
           q(sd, n) == IF sd = side /\ n = i THEN Append(queues[sd][n], s) ELSE queues[sd][n]
<1>1. /\ prev' = prv /\ next' = nxt
      /\ \A sd \in Sides, n \in Levels :
           heads'[sd][n] = h(sd, n) /\ tails'[sd][n] = t(sd, n) /\ queues'[sd][n] = q(sd, n)
  BY <1>0 DEF PushBack
<1> SUFFICES ASSUME NEW sd \in Sides, NEW n \in Levels
             PROVE  Holds(q(sd, n), h(sd, n), t(sd, n), prv, nxt)
  BY <1>1, LinkedAfter
<1>2. /\ queues[sd][n] \in Seq(Slots) /\ IsInjective(queues[sd][n])
      /\ Holds(queues[sd][n], heads[sd][n], tails[sd][n], prev, next)
      /\ \A k \in DOMAIN queues[sd][n] :
           queues[sd][n][k] \in Slots /\ queues[sd][n][k] # s
  BY LevelTypes, LevelHolds DEF BookConsistent, InLevel
<1>3. CASE sd = side /\ n = i
  <2> DEFINE q0 == queues[sd][n]
             h0 == heads[sd][n]
             h2 == IF tail = NoSlot THEN s ELSE h0
  <2>1. /\ q0 \in Seq(Slots) /\ IsInjective(q0) /\ Holds(q0, h0, tail, prev, next)
        /\ \A k \in DOMAIN q0 : q0[k] # s
    BY <1>2, <1>3
  <2>2. Pushes(s, h0, tail, prev, next, h2, prv, nxt)
    BY <1>0 DEF Pushes
  <2> HIDE DEF q0, h0, h2, tail, prv, nxt
  <2>3. Holds(Append(q0, s), h2, s, prv, nxt)
    BY <1>0, <2>1, <2>2, PushBackHolds
  <2> QED
    BY <1>3, <2>3 DEF h2, q0, h0
<1>4. CASE ~(sd = side /\ n = i)
  \* The tail that push_back mends stands in the slot's own level.
  <2>1. ASSUME NEW m \in DOMAIN queues[sd][n]
        PROVE  queues[sd][n][m] # tail
    <3> DEFINE x == queues[sd][n][m]
               u == queues[side][i]
    <3>1. /\ u \in Seq(Slots) /\ Len(u) \in Nat /\ DOMAIN u = 1 .. Len(u)
          /\ u = << >> <=> Len(u) = 0
          /\ Holds(u, heads[side][i], tail, prev, next)
      BY LevelTypes, LevelHolds, EmptySeq
    <3>2. x \in Slots /\ x # NoSlot
      BY <1>2 DEF Slots, NoSlot
    <3>3. ASSUME NEW y \in DOMAIN u
          PROVE  x # u[y]
      <4>1. InLevel(x, sd, n) /\ InLevel(u[y], side, i)
        BY DEF InLevel
      <4>2. Belongs(x, sd, n) /\ Belongs(u[y], side, i)
        BY <4>1, StandsWhereItBelongs
      <4> QED
        BY <1>4, <4>2 DEF Belongs
    <3> HIDE DEF x, u, tail
    <3>4. tail = NoSlot \/ (tail = u[Len(u)] /\ Len(u) \in DOMAIN u)
      BY <3>1 DEF Holds
    <3>5. x # tail
      BY <3>2, <3>3, <3>4
    <3> QED
      BY <3>5 DEF x
  <2>2. \A m \in DOMAIN queues[sd][n] :
          prv[queues[sd][n][m]] = prev[queues[sd][n][m]] /\
          nxt[queues[sd][n][m]] = next[queues[sd][n][m]]
    BY <1>0, <1>2, <2>1
  <2> HIDE DEF prv, nxt
  <2>3. Holds(queues[sd][n], heads[sd][n], tails[sd][n], prv, nxt)
    BY <1>2, <2>2, OtherLinksDoNotMatter
  <2> QED
    BY <1>4, <2>3
<1> QED
  BY <1>3, <1>4

LEMMA PushKeepsBits ==
  ASSUME TypeOK, OccupiedIffNonEmpty, Linked, NEW side \in Sides, NEW i \in Levels,
         NEW s \in Slots, PushBack(side, i, s)
  PROVE  OccupiedIffNonEmpty'
<1> SUFFICES ASSUME NEW sd \in Sides, NEW n \in Levels
             PROVE  Test(bits'[sd], n) <=> heads'[sd][n] # NoSlot
  BY BitsAfter
<1>1. Test(bits'[sd], n) <=> Test(bits[sd], n) \/ (sd = side /\ n = i)
  BY PushBackSteps DEF TypeOK
<1>2. Test(bits[sd], n) <=> heads[sd][n] # NoSlot
  BY DEF OccupiedIffNonEmpty
<1>3. heads'[sd][n] = IF sd = side /\ n = i
                      THEN IF tails[sd][n] = NoSlot THEN s ELSE heads[sd][n]
                      ELSE heads[sd][n]
  BY DEF PushBack, TypeOK, LadderTypeOK
<1>4. tails[sd][n] # NoSlot => heads[sd][n] # NoSlot
  <2> DEFINE q == queues[sd][n]
  <2>1. Holds(q, heads[sd][n], tails[sd][n], prev, next)
    BY LevelHolds
  <2>2. /\ q \in Seq(Slots) /\ Len(q) \in Nat /\ DOMAIN q = 1 .. Len(q)
        /\ q = << >> <=> Len(q) = 0
        /\ \A k \in DOMAIN q : q[k] \in Slots
    BY LevelTypes, EmptySeq
  <2> HIDE DEF q
  <2>3. q # << >> => heads[sd][n] \in Slots
    BY <2>1, <2>2 DEF Holds
  <2> QED
    BY <2>1, <2>3 DEF Holds, Slots, NoSlot
<1>5. s # NoSlot
  BY DEF Slots, NoSlot
<1> QED
  BY <1>1, <1>2, <1>3, <1>4, <1>5

LEMMA RestKeepsAll ==
  ASSUME PricesFit, TypeOK, PoolPermutation, BookInv, CallInv, Rest
  PROVE  BookInv'
<1> USE DEF BookInv
<1>1. /\ taker.side \in Sides /\ taker.price \in Levels
      /\ PriceToIndex(taker.price) = taker.price
      /\ 0 < left /\ left <= taker.quantity
  BY RestPushes
<1>2. PICK slot \in Slots :
        /\ Allocate(slot)
        /\ PushBack(taker.side, taker.price, slot)
        /\ orders' = [orders EXCEPT ![slot] =
             [id |-> taker.id, side |-> taker.side, price |-> taker.price,
              quantity |-> taker.quantity, remaining |-> left,
              timestamp |-> taker.timestamp, status |-> "Resting"]]
        /\ orderMap' = [orderMap EXCEPT ![taker.id] = slot]
  BY RestPushes
<1>3. \A sd \in Sides, n \in Levels : ~InLevel(slot, sd, n)
  BY <1>2, FreshSlot
<1>4. \A t \in Slots \ {slot} : orders'[t] = orders[t] /\ poolIndex'[t] = poolIndex[t]
  BY <1>2 DEF Allocate, TypeOK, PoolTypeOK
<1>5. BookConsistent'
  <2> SUFFICES ASSUME NEW sd \in Sides, NEW n \in Levels
               PROVE  /\ IsInjective(queues'[sd][n])
                      /\ \A k \in DOMAIN queues'[sd][n] :
                           BelongsAfter(queues'[sd][n][k], sd, n)
    BY BookAfter
  <2>1. BelongsAfter(slot, taker.side, taker.price)
    <3>1. poolIndex'[slot] = slot
      BY <1>2 DEF Allocate, TypeOK, PoolTypeOK
    <3>2. orders'[slot] = [id |-> taker.id, side |-> taker.side, price |-> taker.price,
                           quantity |-> taker.quantity, remaining |-> left,
                           timestamp |-> taker.timestamp, status |-> "Resting"]
      BY <1>2 DEF TypeOK
    <3> QED
      BY <1>1, <3>1, <3>2 DEF BelongsAfter
  <2>2. ASSUME NEW k \in DOMAIN queues'[sd][n]
        PROVE  BelongsAfter(queues'[sd][n][k], sd, n)
    <3> DEFINE t == queues'[sd][n][k]
    <3>1. InLevelAfter(t, sd, n)
      BY DEF InLevelAfter
    <3> HIDE DEF t
    <3>2. InLevel(t, sd, n) \/ (sd = taker.side /\ n = taker.price /\ t = slot)
      BY <1>1, <1>2, <1>3, <3>1, PushOnQueues
    <3>3. ASSUME InLevel(t, sd, n)
          PROVE  BelongsAfter(t, sd, n)
      <4>1. t \in Slots /\ Belongs(t, sd, n) /\ t # slot
        BY <1>3, <3>3, StandsWhereItBelongs
      <4> QED
        BY <1>4, <4>1, BelongsFrame
    <3>4. BelongsAfter(t, sd, n)
      BY <2>1, <3>2, <3>3
    <3> QED
      BY <3>4 DEF t
  <2> QED
    BY <1>1, <1>2, <1>3, <2>2, PushOnQueues
<1>6. Linked' /\ OccupiedIffNonEmpty'
  BY <1>1, <1>2, <1>3, PushKeepsLinks, PushKeepsBits
<1>7. MapSound'
  <2> SUFFICES ASSUME NEW id \in OrderIds, orderMap'[id] # NoSlot
               PROVE  orderMap'[id] \in RestingAfter /\ orders'[orderMap'[id]].id = id
    BY MapAfter
  <2>1. RestingAfter = Resting \cup {slot}
    BY <1>1, <1>2, <1>3, PushOnResting
  <2>2. CASE id = taker.id
    <3>1. orderMap'[id] = slot
      BY <1>2, <2>2 DEF TypeOK
    <3>2. orders'[slot].id = taker.id
      BY <1>2 DEF TypeOK
    <3> QED
      BY <2>1, <2>2, <3>1, <3>2
  <2>3. CASE id # taker.id
    <3>1. orderMap'[id] = orderMap[id]
      BY <1>2, <2>3 DEF TypeOK
    <3>2. orderMap[id] \in Resting /\ orders[orderMap[id]].id = id
      BY <3>1 DEF MapSound
    <3>3. orderMap[id] # slot /\ orderMap[id] \in Slots
      BY <1>3, <3>2 DEF Resting
    <3> QED
      BY <1>4, <2>1, <3>1, <3>2, <3>3
  <2> QED
    BY <2>2, <2>3
<1> QED
  BY <1>5, <1>6, <1>7

-----------------------------------------------------------------------------
\* The fills, and the cancel.
LEMMA FillMakerKeepsAll ==
  ASSUME TypeOK, CursorOK, BookInv, CallInv, FillMaker
  PROVE  BookInv' /\ CallInv'
<1> DEFINE s == FirstSlot
<1>1. /\ s \in Slots /\ Contra \in Sides /\ cursor \in Levels /\ pc = "level"
      /\ InLevel(s, Contra, cursor)
  BY FirstStandsFirst DEF FillMaker, BookInv
<1>2. /\ orders[s].remaining <= left
      /\ left' = left - orders[s].remaining
      /\ orders' = [orders EXCEPT ![s] = Reduced(orders[s], 0, "Filled")]
      /\ RemoveFrom(Contra, cursor, s)
      /\ Erase(orders[s].id)
      /\ Deallocate(s)
      /\ UNCHANGED <<taker, pc>>
  BY DEF FillMaker, TradeWith, argVars
<1> HIDE DEF s, Contra
<1>3. \A t \in Slots \ {s} : orders'[t] = orders[t]
  BY <1>1, <1>2 DEF TypeOK
<1>4. BookInv'
  BY <1>1, <1>2, <1>3, RemovalKeepsAll
<1>5. CallInv'
  <2>1. 0 < orders[s].remaining
    BY <1>1, StandsWhereItBelongs DEF BookInv, Belongs
  <2> QED
    BY <1>1, <1>2, <2>1, FieldTypes DEF CallInv, ValidateOrder
<1> QED
  BY <1>4, <1>5

LEMMA FillTakerKeepsAll ==
  ASSUME TypeOK, CursorOK, BookInv, CallInv, FillTaker
  PROVE  BookInv' /\ CallInv'
<1> USE DEF BookInv
<1> DEFINE s == FirstSlot
           remaining == orders[s].remaining - left
<1>1. s \in Slots
  BY FirstIsSlot DEF FillTaker
<1>2. /\ left > 0
      /\ orders[s].remaining > left
      /\ left' = left - left
      /\ orders' = [orders EXCEPT ![s] = Reduced(orders[s], remaining, "PartiallyFilled")]
      /\ UNCHANGED <<poolVars, ladderVars, orderMap, taker, pc>>
  BY DEF FillTaker, MoreAtLevel, TradeWith, argVars
<1> HIDE DEF s
<1>3. /\ left \in Int /\ taker.quantity \in Int
      /\ orders[s].remaining \in Int /\ orders[s].quantity \in Int
      /\ orders[s] \in SlotType
      /\ orders \in [Slots -> SlotType]
  BY <1>1, FieldTypes DEF TypeOK
<1>4. /\ orders'[s].remaining = remaining
      /\ orders'[s].status = "PartiallyFilled"
      /\ orders'[s].id = orders[s].id
      /\ orders'[s].side = orders[s].side
      /\ orders'[s].price = orders[s].price
      /\ orders'[s].quantity = orders[s].quantity
  <2>1. remaining \in Int /\ "PartiallyFilled" \in Statuses
    BY <1>3 DEF Statuses
  <2>2. orders'[s] = Reduced(orders[s], remaining, "PartiallyFilled")
    BY <1>1, <1>2, <1>3
  <2> HIDE DEF remaining
  <2> QED
    BY <1>3, <2>1, <2>2, ReducedProperties
<1>5. \A t \in Slots \ {s} : orders'[t] = orders[t]
  BY <1>2, <1>3
<1>6. /\ queues' = queues /\ heads' = heads /\ tails' = tails /\ prev' = prev
      /\ next' = next /\ bits' = bits /\ orderMap' = orderMap /\ poolIndex' = poolIndex
  BY <1>2 DEF ladderVars, linkVars, poolVars
<1>7. ASSUME NEW side \in Sides, NEW i \in Levels, NEW t \in Slots, Belongs(t, side, i)
      PROVE  BelongsAfter(t, side, i)
  <2>1. CASE t = s
    BY <1>2, <1>3, <1>4, <1>6, <1>7, <2>1 DEF Belongs, BelongsAfter
  <2>2. CASE t # s
    BY <1>5, <1>6, <1>7, <2>2, BelongsFrame
  <2> QED
    BY <2>1, <2>2
<1>8. BookConsistent'
  <2> SUFFICES ASSUME NEW side \in Sides, NEW i \in Levels
               PROVE  /\ IsInjective(queues[side][i])
                      /\ \A k \in DOMAIN queues[side][i] :
                           BelongsAfter(queues[side][i][k], side, i)
    BY <1>6, BookAfter
  <2> QED
    BY <1>7, LevelTypes DEF BookConsistent
<1>9. Linked' /\ OccupiedIffNonEmpty'
  BY <1>6 DEF Linked, Represents, OccupiedIffNonEmpty
<1>10. MapSound'
  <2>1. RestingAfter = Resting
    BY <1>6 DEF RestingAfter, Resting, InLevelAfter, InLevel
  <2> SUFFICES ASSUME NEW id \in OrderIds, orderMap[id] # NoSlot
               PROVE  orderMap[id] \in Resting /\ orders'[orderMap[id]].id = id
    BY <1>6, <2>1, MapAfter
  <2>2. orderMap[id] \in Resting /\ orderMap[id] \in Slots /\ orders[orderMap[id]].id = id
    BY DEF MapSound, Resting
  <2> QED
    BY <1>4, <1>5, <2>2
<1>11. CallInv'
  BY <1>2, <1>3 DEF CallInv, ValidateOrder
<1> QED
  BY <1>8, <1>9, <1>10, <1>11

\* A cancel takes the order it names out of the one level where that order stands.
LEMMA CancelRemoves ==
  ASSUME TypeOK, BookInv, NEW id \in OrderIds, CancelKnown(id)
  PROVE  LET s == orderMap[id] IN
         /\ s \in Slots /\ orders[s].id = id
         /\ orders[s].side \in Sides /\ orders[s].price \in Levels
         /\ InLevel(s, orders[s].side, orders[s].price)
         /\ RemoveFrom(orders[s].side, orders[s].price, s)
         /\ Erase(orders[s].id)
         /\ Deallocate(s)
         /\ UNCHANGED orders
<1> DEFINE s == orderMap[id]
<1>1. /\ s \in Resting /\ orders[s].id = id
      /\ RemoveOrderFromBook(s) /\ Deallocate(s) /\ UNCHANGED orders
  BY DEF CancelKnown, BookInv, MapSound
<1> HIDE DEF s
<1>2. /\ s \in Slots /\ orders[s].side \in Sides /\ orders[s].price \in Levels
      /\ InLevel(s, orders[s].side, orders[s].price)
      /\ PriceToIndex(orders[s].price) = orders[s].price
  BY <1>1, RestingStands DEF BookInv
<1>3. RemoveFrom(orders[s].side, orders[s].price, s) /\ Erase(orders[s].id)
  BY <1>1, <1>2, CancelSteps
<1> QED
  BY <1>1, <1>2, <1>3 DEF s

LEMMA CancelKeepsAll ==
  ASSUME TypeOK, BookInv, NEW id \in OrderIds, CancelKnown(id)
  PROVE  BookInv' /\ CallInv'
<1>1. BookInv'
  BY CancelRemoves, RemovalKeepsAll
<1>2. CallInv'
  BY DEF CancelKnown, EnterCancel, CallInv
<1> QED
  BY <1>1, <1>2

LEMMA SameBook ==
  ASSUME BookInv, UNCHANGED bookVars
  PROVE  BookInv'
<1>1. /\ queues' = queues /\ heads' = heads /\ tails' = tails /\ prev' = prev
      /\ next' = next /\ bits' = bits /\ orderMap' = orderMap /\ poolIndex' = poolIndex
      /\ orders' = orders
  BY DEF bookVars, poolVars, ladderVars, linkVars
<1>2. BookConsistent'
  BY <1>1 DEF BookInv, BookConsistent, Belongs
<1>3. Linked'
  BY <1>1 DEF BookInv, Linked, Represents
<1>4. OccupiedIffNonEmpty'
  BY <1>1 DEF BookInv, OccupiedIffNonEmpty
<1>5. MapSound'
  BY <1>1 DEF BookInv, MapSound, Resting, InLevel
<1> QED
  BY <1>2, <1>3, <1>4, <1>5 DEF BookInv

LEMMA NextKeepsAll ==
  ASSUME PricesFit, TypeOK, CursorOK, PoolPermutation, BookInv, CallInv, [Next]_vars
  PROVE  BookInv' /\ CallInv'
<1>1. ASSUME NEW o \in Orders, Submit(o)
      PROVE  BookInv' /\ CallInv'
  <2>1. o.quantity \in Int
    BY OrdersAssumption DEF IncomingOrder
  <2>2. CallInv'
    BY <1>1, <2>1 DEF Submit, Accept, Reject, Enter, EnterProcess, StartMatching, TurnAway,
                      ValidateOrder, CallInv
  <2> QED
    BY <1>1, <2>2, SameBook DEF Submit, Accept, Reject, Enter
<1>2. CASE BeginLevel \/ EndLevel
  <2>1. CallInv'
    BY <1>2 DEF BeginLevel, EndLevel, CallInv, ValidateOrder, argVars
  <2> QED
    BY <1>2, <2>1, SameBook DEF BeginLevel, EndLevel
<1>3. CASE Conclude
  BY <1>3, SameBook DEF Conclude, ReportTaker, CallInv
<1>4. CASE Rest
  BY <1>4, RestKeepsAll DEF Rest, ReportTaker, CallInv
<1>5. ASSUME NEW id \in OrderIds, CancelUnknown(id)
      PROVE  BookInv' /\ CallInv'
  BY <1>5, SameBook DEF CancelUnknown, EnterCancel, CallInv
<1>6. CASE Return
  BY <1>6, SameBook DEF Return, EndCall, CallInv
<1>7. CASE UNCHANGED vars
  <2>1. CallInv'
    BY <1>7 DEF vars, callVars, argVars, CallInv, ValidateOrder
  <2> QED
    BY <1>7, <2>1, SameBook DEF vars
<1> QED
  BY <1>1, <1>2, <1>3, <1>4, <1>5, <1>6, <1>7, FillMakerKeepsAll, FillTakerKeepsAll,
     CancelKeepsAll DEF Next, Match

LEMMA InitBook == Init => BookInv /\ CallInv
<1> SUFFICES ASSUME Init PROVE BookInv /\ CallInv
  OBVIOUS
<1>1. /\ queues = [side \in Sides |-> [i \in Levels |-> << >>]]
      /\ heads = [side \in Sides |-> [i \in Levels |-> NoSlot]]
      /\ tails = [side \in Sides |-> [i \in Levels |-> NoSlot]]
      /\ bits = [side \in Sides |-> NoBits]
      /\ orderMap = [id \in OrderIds |-> NoSlot]
      /\ pc = "idle"
  BY DEF Init, LadderInit, NoCall
<1>2. BookConsistent
  BY <1>1 DEF BookConsistent, IsInjective
<1>3. Linked
  BY <1>1 DEF Linked, Represents
<1>4. OccupiedIffNonEmpty
  BY <1>1, NoBitsEmpty DEF OccupiedIffNonEmpty
<1> QED
  BY <1>1, <1>2, <1>3, <1>4 DEF BookInv, MapSound, CallInv

\* The inductive invariant of the whole book.
THEOREM BookInvCorrect == ASSUME PricesFit PROVE Spec => [](BookInv /\ CallInv)
<1>1. Init => BookInv /\ CallInv
  BY InitBook
<1>2. TypeOK /\ CursorOK /\ PoolPermutation /\ BookInv /\ CallInv /\ [Next]_vars
        => (BookInv /\ CallInv)'
  BY NextKeepsAll
<1> QED
  BY <1>1, <1>2, TypeCorrect, PoolCorrect, PTL DEF Spec

\* A level only ever holds allocated slots, each once, whose orders are on its
\* side, at its price, open and not used up - also when callers reuse ids.
THEOREM BookCorrect == ASSUME PricesFit PROVE Spec => []BookConsistent
<1>1. BookInv => BookConsistent
  BY DEF BookInv
<1> QED
  BY <1>1, BookInvCorrect, PTL

\* The links of every level hold its queue, in both directions, at every moment.
THEOREM ListsCorrect == ASSUME PricesFit PROVE Spec => []Linked
<1>1. BookInv => Linked
  BY DEF BookInv
<1> QED
  BY <1>1, BookInvCorrect, PTL

\* An entry of order_map_ always leads to a resting order with that id.
THEOREM MapCorrect == ASSUME PricesFit PROVE Spec => []MapSound
<1>1. BookInv => MapSound
  BY DEF BookInv
<1> QED
  BY <1>1, BookInvCorrect, PTL

\* verify_invariants never fails, in the midst of a call either.
THEOREM VerifyCorrect == ASSUME PricesFit PROVE Spec => []VerifyInvariants
<1>1. TypeOK /\ NotCrossed /\ BookInv => VerifyInvariants
  <2> SUFFICES ASSUME TypeOK, NotCrossed, BookInv PROVE VerifyInvariants
    OBVIOUS
  <2>1. ASSUME NEW side \in Sides, BestPrice(side) > 0
        PROVE  BestPrice(side) \in Occupied(side)
    <3>1. FindBest(side) # -1
      BY <2>1 DEF BestPrice
    <3>2. PICK i \in Occupied(side) : TRUE
      BY <3>1, FindBestFindsNone DEF TypeOK
    <3>3. FindBest(side) \in Occupied(side) /\ FindBest(side) \in Levels
      BY <3>2, FindBestIsBest DEF TypeOK
    <3> QED
      BY <3>3 DEF BestPrice, IndexToPrice, BasePrice, TickSize, Levels
  <2>2. ASSUME NEW id \in OrderIds, orderMap[id] # NoSlot
        PROVE  /\ orders[orderMap[id]].id = id
               /\ orders[orderMap[id]].status \in {"Resting", "PartiallyFilled"}
    <3>1. orderMap[id] \in Resting /\ orders[orderMap[id]].id = id
      BY <2>2 DEF BookInv, MapSound
    <3> QED
      BY <3>1, RestingStands DEF BookInv, Belongs
  <2> QED
    BY <2>1, <2>2 DEF VerifyInvariants, NotCrossed, BookInv, Sides
<1> QED
  BY <1>1, BookInvCorrect, TypeCorrect, NeverCrossed, PTL

-----------------------------------------------------------------------------
(***************************************************************************)
(* Every resting order can be cancelled, if callers do not reuse ids.      *)
(***************************************************************************)
\* The id of the order that is matched is not that of a resting one.
TakerFresh == pc \in {"match", "level"} => taker.id \notin RestingIds

LEMMA RestingIdsAfter ==
  ASSUME MapComplete, TakerFresh, RestingAfter \subseteq Resting,
         \A t \in RestingAfter : orders'[t].id = orders[t].id,
         \A t \in RestingAfter : orderMap'[orders[t].id] = orderMap[orders[t].id],
         pc' \notin {"match", "level"} \/ (pc \in {"match", "level"} /\ taker' = taker)
  PROVE  MapComplete' /\ TakerFresh'
<1>1. MapComplete'
  BY RestingIsAfter DEF MapComplete
<1>2. TakerFresh'
  BY RestingIsAfter DEF TakerFresh, RestingIds
<1> QED
  BY <1>1, <1>2

LEMMA NextKeepsMapComplete ==
  ASSUME PricesFit, ~ReuseIds, TypeOK, CursorOK, PoolPermutation, BookInv, CallInv,
         MapComplete, TakerFresh, [Next]_vars
  PROVE  MapComplete' /\ TakerFresh'
<1>1. ASSUME UNCHANGED bookVars,
             \/ pc' \notin {"match", "level"}
             \/ pc \in {"match", "level"} /\ taker' = taker
      PROVE  MapComplete' /\ TakerFresh'
  <2>1. RestingAfter = Resting /\ orders' = orders /\ orderMap' = orderMap
    BY <1>1 DEF bookVars, ladderVars, linkVars, RestingAfter, Resting, InLevelAfter, InLevel
  <2> QED
    BY <1>1, <2>1, RestingIdsAfter
<1>2. ASSUME NEW side \in Sides, NEW i \in Levels, NEW s \in Slots, InLevel(s, side, i),
             RemoveFrom(side, i, s), Erase(orders[s].id),
             \A t \in Slots \ {s} : orders'[t] = orders[t],
             \/ pc' \notin {"match", "level"}
             \/ pc \in {"match", "level"} /\ taker' = taker
      PROVE  MapComplete' /\ TakerFresh'
  <2>1. RestingAfter = Resting \ {s} /\ s \in Resting
    BY <1>2, RemovalOnResting, StandsWhereItBelongs DEF BookInv
  <2>2. ASSUME NEW t \in RestingAfter
        PROVE  /\ orders'[t] = orders[t]
               /\ orderMap'[orders[t].id] = orderMap[orders[t].id]
    <3>1. t \in Resting /\ t # s /\ t \in Slots
      BY <2>1 DEF Resting
    <3>2. orders[t].id # orders[s].id
      BY <2>1, <3>1 DEF MapComplete
    <3> QED
      BY <1>2, <3>1, <3>2 DEF Erase, TypeOK
  <2> QED
    BY <1>2, <2>1, <2>2, RestingIdsAfter
<1>3. ASSUME NEW o \in Orders, Submit(o)
      PROVE  MapComplete' /\ TakerFresh'
  <2>1. UNCHANGED bookVars /\ taker' = o /\ o.id \notin RestingIds
    BY <1>3 DEF Submit, Accept, Reject, Enter, EnterProcess
  <2>2. RestingAfter = Resting /\ orders' = orders /\ orderMap' = orderMap
    BY <2>1 DEF bookVars, ladderVars, linkVars, RestingAfter, Resting, InLevelAfter, InLevel
  <2>3. MapComplete'
    BY <2>2, RestingIsAfter DEF MapComplete
  <2>4. TakerFresh'
    BY <2>1, <2>2, RestingIsAfter DEF TakerFresh, RestingIds
  <2> QED
    BY <2>3, <2>4
<1>4. CASE BeginLevel \/ EndLevel \/ Conclude \/ Return
  BY <1>1, <1>4 DEF BeginLevel, EndLevel, Conclude, ReportTaker, Return, EndCall, argVars
<1>5. CASE FillMaker
  <2> DEFINE s == FirstSlot
  <2>1. /\ s \in Slots /\ Contra \in Sides /\ cursor \in Levels /\ pc = "level"
        /\ InLevel(s, Contra, cursor)
    BY <1>5, FirstStandsFirst DEF FillMaker, BookInv
  <2>2. /\ orders' = [orders EXCEPT ![s] = Reduced(orders[s], 0, "Filled")]
        /\ RemoveFrom(Contra, cursor, s)
        /\ Erase(orders[s].id)
        /\ UNCHANGED <<taker, pc>>
    BY <1>5 DEF FillMaker, argVars
  <2> HIDE DEF s, Contra
  <2>3. \A t \in Slots \ {s} : orders'[t] = orders[t]
    BY <2>1, <2>2 DEF TypeOK
  <2> QED
    BY <1>2, <2>1, <2>2, <2>3
<1>6. CASE FillTaker
  <2> DEFINE s == FirstSlot
             remaining == orders[s].remaining - left
  <2>1. s \in Slots /\ pc = "level"
    BY <1>6, FirstIsSlot DEF FillTaker
  <2>2. /\ orders' = [orders EXCEPT ![s] = Reduced(orders[s], remaining, "PartiallyFilled")]
        /\ UNCHANGED <<ladderVars, orderMap, taker, pc>>
    BY <1>6 DEF FillTaker, argVars
  <2> HIDE DEF s
  <2>3. remaining \in Int /\ orders[s] \in SlotType /\ "PartiallyFilled" \in Statuses
    BY <2>1, FieldTypes DEF Statuses
  <2> HIDE DEF remaining
  <2>4. \A t \in Slots : orders'[t].id = orders[t].id
    BY <2>1, <2>2, <2>3, ReducedProperties DEF TypeOK
  <2>5. RestingAfter = Resting
    BY <2>2 DEF ladderVars, linkVars, RestingAfter, Resting, InLevelAfter, InLevel
  <2> QED
    BY <2>1, <2>2, <2>4, <2>5, RestingIdsAfter DEF Resting
<1>7. CASE Rest
  <2>1. PICK slot \in Slots :
          /\ Allocate(slot)
          /\ PushBack(taker.side, taker.price, slot)
          /\ orders' = [orders EXCEPT ![slot] =
               [id |-> taker.id, side |-> taker.side, price |-> taker.price,
                quantity |-> taker.quantity, remaining |-> left,
                timestamp |-> taker.timestamp, status |-> "Resting"]]
          /\ orderMap' = [orderMap EXCEPT ![taker.id] = slot]
    BY <1>7, RestPushes
  <2>2. /\ taker.side \in Sides /\ taker.price \in Levels /\ taker \in Orders
        /\ taker.id \notin RestingIds /\ pc' = "done"
    BY <1>7, RestPushes DEF CallInv, TakerFresh, Rest, MatchOver, ReportTaker
  <2>3. \A sd \in Sides, n \in Levels : ~InLevel(slot, sd, n)
    BY <2>1, FreshSlot DEF BookInv
  <2>4. RestingAfter = Resting \cup {slot}
    BY <2>1, <2>2, <2>3, PushOnResting DEF BookInv
  <2>5. orders'[slot].id = taker.id /\ orderMap'[taker.id] = slot
    BY <2>1, <2>2 DEF TypeOK, OrderIds
  <2>6. ASSUME NEW t \in Resting
        PROVE  orderMap'[orders'[t].id] = t
    <3>1. t \in Slots /\ t # slot
      BY <2>3 DEF Resting
    <3>2. orders'[t] = orders[t] /\ orders[t].id # taker.id
      BY <2>1, <2>2, <3>1 DEF TypeOK, RestingIds
    <3> QED
      BY <2>1, <3>2 DEF MapComplete, TypeOK
  <2>7. MapComplete'
    BY <2>4, <2>5, <2>6, RestingIsAfter DEF MapComplete
  <2> QED
    BY <2>2, <2>7 DEF TakerFresh
<1>8. ASSUME NEW id \in OrderIds, CancelUnknown(id) \/ CancelKnown(id)
      PROVE  MapComplete' /\ TakerFresh'
  <2>1. pc' = "done"
    BY <1>8 DEF CancelUnknown, CancelKnown, EnterCancel
  <2>2. CASE CancelUnknown(id)
    BY <1>1, <2>1, <2>2 DEF CancelUnknown
  <2>3. CASE CancelKnown(id)
    BY <1>2, <2>1, <2>3, CancelRemoves
  <2> QED
    BY <1>8, <2>2, <2>3
<1>9. CASE UNCHANGED vars
  <2>1. RestingAfter = Resting /\ UNCHANGED <<orders, orderMap, pc, taker>>
    BY <1>9 DEF vars, callVars, argVars, bookVars, ladderVars, linkVars, RestingAfter,
                Resting, InLevelAfter, InLevel
  <2>2. MapComplete'
    BY <2>1, RestingIsAfter DEF MapComplete
  <2>3. TakerFresh'
    BY <2>1, RestingIsAfter DEF TakerFresh, RestingIds
  <2> QED
    BY <2>2, <2>3
<1> QED
  BY <1>3, <1>4, <1>5, <1>6, <1>7, <1>8, <1>9 DEF Next, Match

LEMMA IdsStayUnique == ASSUME PricesFit, ~ReuseIds PROVE Spec => [](MapComplete /\ TakerFresh)
<1>1. Init => MapComplete /\ TakerFresh
  <2> SUFFICES ASSUME Init PROVE MapComplete /\ TakerFresh
    OBVIOUS
  <2>1. Resting = {} /\ pc = "idle"
    BY DEF Init, LadderInit, NoCall, Resting, InLevel
  <2> QED
    BY <2>1 DEF MapComplete, TakerFresh
<1>2. TypeOK /\ CursorOK /\ PoolPermutation /\ BookInv /\ CallInv /\ MapComplete
        /\ TakerFresh /\ [Next]_vars => (MapComplete /\ TakerFresh)'
  BY NextKeepsMapComplete
<1> QED
  BY <1>1, <1>2, TypeCorrect, PoolCorrect, BookInvCorrect, PTL DEF Spec

\* Every resting order can be cancelled: its id leads to its slot.
THEOREM CancelFinds == ASSUME PricesFit, ~ReuseIds PROVE Spec => []MapComplete
BY IdsStayUnique, PTL

-----------------------------------------------------------------------------
(***************************************************************************)
(* Price-time priority.                                                    *)
(***************************************************************************)
\* While the inner loop runs, no occupied level is better than its level: what
\* find_best returned stays right although it is asked once per level only.
CursorBest ==
  pc = "level" =>
    \A i \in Occupied(Contra) : IF Contra = "Buy" THEN i <= cursor ELSE cursor <= i

LEMMA NextKeepsCursorBest ==
  ASSUME TypeOK, CursorOK, CursorBest, [Next]_vars
  PROVE  CursorBest'
<1>1. ASSUME taker' = taker, pc' = "level",
             \A i \in SetBits(bits'[Contra]) :
               IF Contra = "Buy" THEN i <= cursor' ELSE cursor' <= i
      PROVE  CursorBest'
  <2>1. Contra' = Contra
    BY <1>1 DEF Contra
  <2>2. SetBits(bits'[Contra']) = SetBits(bits'[Contra])
    BY <2>1
  <2> HIDE DEF Contra
  <2> QED
    BY <1>1, <2>1, <2>2 DEF CursorBest, Occupied
<1>2. CASE BeginLevel
  <2>1. /\ cursor' = FindBest(Contra) /\ taker' = taker /\ bits' = bits /\ pc' = "level"
    BY <1>2 DEF BeginLevel, bookVars, ladderVars, argVars
  <2>2. Contra \in Sides
    BY ContraIsSide
  <2>3. ASSUME NEW i \in SetBits(bits'[Contra])
        PROVE  IF Contra = "Buy" THEN i <= cursor' ELSE cursor' <= i
    <3> HIDE DEF Contra
    <3>1. i \in Occupied(Contra)
      BY <2>1 DEF Occupied
    <3> QED
      BY <2>1, <2>2, <3>1, FindBestIsBest DEF TypeOK, Sides
  <2> QED
    BY <1>1, <2>1, <2>3
<1>3. CASE FillMaker \/ FillTaker
  <2>1. UNCHANGED <<cursor, taker, pc>> /\ pc = "level"
    BY <1>3 DEF FillMaker, FillTaker, argVars
  <2>2. ~Rest
    BY <2>1 DEF Rest, MatchOver
  <2>3. SetBits(bits'[Contra]) \subseteq Occupied(Contra)
    BY <2>2, ContraIsSide, OnlyRestSetsBits
  <2> QED
    BY <1>1, <2>1, <2>3 DEF CursorBest
<1>4. CASE UNCHANGED vars
  BY <1>4 DEF vars, callVars, argVars, bookVars, ladderVars, CursorBest, Contra, Occupied
<1>5. CASE pc' # "level"
  BY <1>5 DEF CursorBest
<1>6. CASE /\ pc' = "level"
           /\ ~(BeginLevel \/ FillMaker \/ FillTaker \/ UNCHANGED vars)
  BY <1>6 DEF Next, Match, Submit, Accept, Reject, TurnAway, StartMatching, EndLevel, Conclude,
              Rest, ReportTaker, CancelUnknown, CancelKnown, EnterCancel, Return, EndCall
<1> QED
  BY <1>2, <1>3, <1>4, <1>5, <1>6

\* The order the inner loop trades with stands before all others of its side.
LEMMA FirstIsFirst ==
  ASSUME TypeOK, CursorOK, BookInv, CursorBest, pc = "level", MoreAtLevel,
         NEW r \in Resting, r # FirstSlot, orders[r].side = orders[FirstSlot].side
  PROVE  Before(FirstSlot, r)
<1> USE DEF BookInv
<1> DEFINE s == FirstSlot
<1>1. /\ s \in Slots /\ Contra \in Sides /\ cursor \in Levels
      /\ 1 \in DOMAIN queues[Contra][cursor] /\ s = queues[Contra][cursor][1]
      /\ InLevel(s, Contra, cursor)
  BY FirstStandsFirst
<1>2. s \in Resting /\ Belongs(s, Contra, cursor)
  BY <1>1, StandsWhereItBelongs
<1>3. \A i \in Occupied(Contra) : IF Contra = "Buy" THEN i <= cursor ELSE cursor <= i
  BY DEF CursorBest
<1>4. r # s /\ orders[r].side = orders[s].side
  OBVIOUS
<1> SUFFICES Before(s, r)
  OBVIOUS
<1> HIDE DEF s, Contra
<1>5. /\ orders[s].side = Contra /\ orders[s].price = cursor
      /\ PriceToIndex(orders[s].price) = cursor
  BY <1>2, RestingStands DEF Belongs
<1>6. /\ orders[r].price \in Occupied(Contra)
      /\ orders[r].price \in Levels
      /\ InLevel(r, Contra, orders[r].price)
  BY <1>4, <1>5, RestingStands
<1>7. CASE orders[r].price = cursor
  <2>1. PICK k \in DOMAIN queues[Contra][cursor] : queues[Contra][cursor][k] = r
    BY <1>6, <1>7 DEF InLevel
  <2>2. k \in Nat /\ k > 1
    BY <1>1, <1>4, <2>1, LevelTypes
  <2> QED
    BY <1>1, <1>5, <1>7, <2>1, <2>2 DEF Before, Precedes
<1>8. CASE orders[r].price # cursor
  <2>1. IF Contra = "Buy" THEN orders[r].price <= cursor ELSE cursor <= orders[r].price
    BY <1>3, <1>6
  <2>2. orders[r].price \in Int /\ cursor \in Int
    BY <1>1, <1>6 DEF Levels
  <2> QED
    BY <1>1, <1>5, <1>8, <2>1, <2>2 DEF Before, Sides
<1> QED
  BY <1>7, <1>8

\* Every trade takes from the resting order that stands first on its side, in
\* price and then in time.
THEOREM PriorityCorrect == ASSUME PricesFit PROVE Spec => PriceTimePriority
<1> DEFINE Step == \A s \in Slots :
             Len(trades') > Len(trades) /\ orders'[s].remaining < orders[s].remaining =>
               \A r \in Resting \ {s} : orders[r].side = orders[s].side => Before(s, r)
<1>1. Init => CursorBest
  BY DEF Init, NoCall, CursorBest
<1>2. TypeOK /\ CursorOK /\ CursorBest /\ [Next]_vars => CursorBest'
  BY NextKeepsCursorBest
<1>3. TypeOK /\ CursorOK /\ BookInv /\ CursorBest /\ [Next]_vars => [Step]_vars
  <2> SUFFICES ASSUME TypeOK, CursorOK, BookInv, CursorBest, Next,
                      NEW s \in Slots, Len(trades') > Len(trades),
                      orders'[s].remaining < orders[s].remaining,
                      NEW r \in Resting \ {s}, orders[r].side = orders[s].side
               PROVE  Before(s, r)
    BY DEF vars
  <2>0. /\ Len(trades) \in Nat /\ orders[s].remaining \in Int
        /\ orders \in [Slots -> SlotType]
    BY LenProperties, FieldTypes DEF TypeOK, CallTypeOK
  <2>1. FillMaker \/ FillTaker
    <3>1. trades' # trades /\ trades' # << >>
      BY <2>0, EmptySeq
    <3> QED
      BY <3>1 DEF Next, Match, Submit, Accept, Reject, Enter, EnterProcess, BeginLevel,
                  EndLevel, Conclude, Rest, CancelUnknown, CancelKnown, EnterCancel, Return,
                  EndCall, eventVars
  <2>2. /\ pc = "level" /\ MoreAtLevel
        /\ \E new : orders' = [orders EXCEPT ![FirstSlot] = new]
    BY <2>1 DEF FillMaker, FillTaker
  <2>3. s = FirstSlot
    BY <2>0, <2>2
  <2> QED
    BY <2>2, <2>3, FirstIsFirst
<1>4. Spec => [][Step]_vars
  BY <1>1, <1>2, <1>3, TypeCorrect, BookInvCorrect, PTL DEF Spec
<1> QED
  BY <1>4 DEF PriceTimePriority

-----------------------------------------------------------------------------
(***************************************************************************)
(* What a call promises when it returns.                                   *)
(***************************************************************************)
NoMissedLevel ==
  pc = "done" /\ op = "process" /\ ValidateOrder(taker) /\ left > 0 =>
    \A i \in Occupied(Contra) : ~Crosses(taker, IndexToPrice(i))

LEMMA NextMissesNoLevel ==
  ASSUME TypeOK, CursorOK, NoMissedLevel, [Next]_vars
  PROVE  NoMissedLevel'
<1>1. ASSUME ~CanMatch, UNCHANGED <<taker, left>>,
             SetBits(bits'[Contra]) \subseteq Occupied(Contra)
      PROVE  NoMissedLevel'
  <2>1. left > 0 => \A i \in Occupied(Contra) : ~Crosses(taker, IndexToPrice(i))
    BY <1>1, NothingLeftToMatch
  <2>2. Contra' = Contra
    BY <1>1 DEF Contra
  <2>3. Occupied(Contra)' \subseteq Occupied(Contra)
    BY <1>1, <2>2 DEF Occupied
  <2> HIDE DEF Contra
  <2>4. \A i : Crosses(taker, IndexToPrice(i))' <=> Crosses(taker, IndexToPrice(i))
    BY <1>1 DEF Crosses, IndexToPrice, BasePrice, TickSize
  <2> QED
    BY <1>1, <2>1, <2>3, <2>4 DEF NoMissedLevel
<1>2. CASE Conclude
  BY <1>1, <1>2 DEF Conclude, MatchOver, bookVars, ladderVars, argVars, Occupied
<1>3. CASE Rest
  <2>1. ~CanMatch /\ UNCHANGED <<taker, left>>
    BY <1>3 DEF Rest, MatchOver, argVars
  <2>2. SetBits(bits'[Contra]) \subseteq Occupied(Contra)
    BY <1>3, ContraIsSide, RestSetsOneBit
  <2> QED
    BY <1>1, <2>1, <2>2
<1>4. ASSUME NEW o \in Orders, Submit(o)
      PROVE  NoMissedLevel'
  BY <1>4 DEF Submit, Accept, Reject, StartMatching, Enter, EnterProcess, NoMissedLevel,
              ValidateOrder
<1>5. CASE UNCHANGED vars
  BY <1>5 DEF vars, bookVars, ladderVars, callVars, argVars, NoMissedLevel, Contra,
              ValidateOrder, Crosses, Occupied, IndexToPrice, BasePrice, TickSize
<1>6. ASSUME NEW id \in OrderIds, CancelUnknown(id) \/ CancelKnown(id)
      PROVE  NoMissedLevel'
  BY <1>6 DEF CancelUnknown, CancelKnown, EnterCancel, NoMissedLevel
<1>7. CASE Match \/ Return
  <2>1. pc' # "done"
    BY <1>7 DEF Match, BeginLevel, EndLevel, FillMaker, FillTaker, Return, EndCall
  <2> QED
    BY <2>1 DEF NoMissedLevel
<1> QED
  BY <1>2, <1>3, <1>4, <1>5, <1>6, <1>7 DEF Next

\* A valid order that is not filled leaves no resting order it would trade with.
THEOREM NothingMissed == ASSUME PricesFit PROVE Spec => []NoMissedTrade
<1>1. Init => NoMissedLevel
  BY DEF Init, NoCall, NoMissedLevel
<1>2. TypeOK /\ CursorOK /\ NoMissedLevel /\ [Next]_vars => NoMissedLevel'
  BY NextMissesNoLevel
<1>3. TypeOK /\ BookInv /\ NoMissedLevel => NoMissedTrade
  <2> SUFFICES ASSUME TypeOK, BookInv, NoMissedLevel,
                      pc = "done", op = "process", ValidateOrder(taker), left > 0,
                      NEW s \in Resting, orders[s].side = Contra
               PROVE  ~Crosses(taker, orders[s].price)
    BY DEF NoMissedTrade
  <2>1. orders[s].price \in Occupied(Contra) /\ orders[s].price \in Int
    BY RestingStands DEF BookInv, Levels
  <2>2. ~Crosses(taker, IndexToPrice(orders[s].price))
    BY <2>1 DEF NoMissedLevel
  <2>3. IndexToPrice(orders[s].price) = orders[s].price
    BY <2>1 DEF IndexToPrice, BasePrice, TickSize
  <2> QED
    BY <2>2, <2>3
<1> QED
  BY <1>1, <1>2, <1>3, TypeCorrect, BookInvCorrect, PTL DEF Spec

LEMMA LastOfAppend ==
  ASSUME NEW S, NEW seq \in Seq(S), NEW e \in S
  PROVE  Last(Append(seq, e)) = e
BY DEF Last

LEMMA NextReportsResting ==
  ASSUME PricesFit, TypeOK, CursorOK, CallInv, RestingReported, [Next]_vars
  PROVE  RestingReported'
<1>1. ASSUME NEW status \in Statuses, ReportTaker(status)
      PROVE  Last(reports').status = status
  <2> DEFINE report == Report(taker.id, status, taker.side, taker.price,
                              taker.quantity - left, left)
  <2>1. taker.quantity - left \in Int
    BY FieldTypes
  <2>2. report \in ReportType /\ report.status = status
    BY <2>1, FieldTypes, ReportIsTyped DEF Report
  <2>3. reports' = Append(reports, report) /\ reports \in Seq(ReportType)
    BY <1>1 DEF ReportTaker, TypeOK, CallTypeOK
  <2> HIDE DEF report
  <2> QED
    BY <2>2, <2>3, LastOfAppend
<1>2. CASE Rest
  <2>1. /\ taker.side \in Sides /\ taker.price \in Levels
        /\ PriceToIndex(taker.price) = taker.price
    BY <1>2, RestPushes
  <2>2. PICK slot \in Slots :
          /\ PushBack(taker.side, taker.price, slot)
          /\ orders' = [orders EXCEPT ![slot] =
               [id |-> taker.id, side |-> taker.side, price |-> taker.price,
                quantity |-> taker.quantity, remaining |-> left,
                timestamp |-> taker.timestamp, status |-> "Resting"]]
    BY <1>2, RestPushes
  <2>3. tails'[taker.side][taker.price] = slot /\ slot # NoSlot
    BY <2>1, <2>2 DEF PushBack, TypeOK, LadderTypeOK, Slots, NoSlot
  <2>4. orders'[slot].id = taker.id /\ orders'[slot].remaining = left
    BY <2>2 DEF TypeOK
  <2>5. taker' = taker /\ left' = left
    BY <1>2 DEF Rest, argVars
  <2> QED
    BY <2>1, <2>3, <2>4, <2>5 DEF RestingReported
<1>3. CASE Conclude
  <2> DEFINE status == IF left = 0 THEN "Filled" ELSE "Cancelled"
  <2>1. status \in Statuses /\ status # "Resting" /\ ReportTaker(status)
    BY <1>3 DEF Conclude, Statuses
  <2> HIDE DEF status
  <2> QED
    BY <1>1, <2>1 DEF RestingReported
<1>4. ASSUME NEW o \in Orders, Reject(o)
      PROVE  RestingReported'
  <2> DEFINE report == Report(o.id, "Cancelled", o.side, o.price, 0, o.quantity)
  <2>1. reports' = <<report>> /\ report.status = "Cancelled"
    BY <1>4 DEF Reject, TurnAway, Report
  <2> HIDE DEF report
  <2>2. Last(reports') = report
    BY <2>1 DEF Last
  <2> QED
    BY <2>1, <2>2 DEF RestingReported
<1>5. CASE UNCHANGED vars
  BY <1>5 DEF vars, callVars, argVars, eventVars, bookVars, ladderVars, linkVars,
              RestingReported
<1>6. CASE Match \/ Return \/ \E o \in Orders : Accept(o)
  <2>1. pc' # "done"
    BY <1>6 DEF Match, BeginLevel, EndLevel, FillMaker, FillTaker, Return, EndCall, Accept,
                StartMatching
  <2> QED
    BY <2>1 DEF RestingReported
<1>7. ASSUME NEW id \in OrderIds, CancelUnknown(id) \/ CancelKnown(id)
      PROVE  RestingReported'
  BY <1>7 DEF CancelUnknown, CancelKnown, EnterCancel, RestingReported
<1> QED
  BY <1>2, <1>3, <1>4, <1>5, <1>6, <1>7 DEF Next, Submit

\* A caller that is told its order rests finds it at the back of its level.
THEOREM RestingReportCorrect == ASSUME PricesFit PROVE Spec => []RestingReported
<1>1. Init => RestingReported
  BY DEF Init, NoCall, RestingReported
<1>2. TypeOK /\ CursorOK /\ CallInv /\ RestingReported /\ [Next]_vars => RestingReported'
  BY NextReportsResting
<1> QED
  BY <1>1, <1>2, TypeCorrect, BookInvCorrect, PTL DEF Spec

-----------------------------------------------------------------------------
(***************************************************************************)
(* The free list.                                                          *)
(***************************************************************************)
\* The slots of the list are threaded through their pool_index fields, from head on.
Threads(list, head, index) ==
  /\ list \in Seq(Slots)
  /\ IsInjective(list)
  /\ head = IF list = << >> THEN NoSlot ELSE list[1]
  /\ \A k \in DOMAIN list :
       index[list[k]] = IF k = Len(list) THEN NoSlot ELSE list[k + 1]

Lists(list, S) == \A s \in Slots : s \in S <=> \E k \in DOMAIN list : list[k] = s

\* Every slot is in the book or, once, on the free list.
NothingLost ==
  \E list \in Seq(Slots) : Threads(list, freeHead, poolIndex) /\ Lists(list, Slots \ Resting)

LEMMA SlotsFit ==
  ASSUME NEW list \in Seq(Slots), IsInjective(list)
  PROVE  Len(list) <= PoolCapacity
<1>1. /\ Len(list) \in Nat /\ DOMAIN list = 1 .. Len(list)
      /\ list \in [1 .. Len(list) -> Slots]
  BY LenProperties
<1>2. list \in Injection(1 .. Len(list), Slots)
  BY <1>1 DEF Injection
<1>3. IsFiniteSet(Slots) /\ Cardinality(Slots) = PoolCapacity
  BY FS_Interval, PoolCapacityAssumption DEF Slots
<1>4. Cardinality(1 .. Len(list)) <= Cardinality(Slots)
  BY <1>2, <1>3, FS_Injection
<1>5. Cardinality(1 .. Len(list)) = IF 1 > Len(list) THEN 0 ELSE Len(list) - 1 + 1
  BY <1>1, FS_Interval
<1> QED
  BY <1>1, <1>3, <1>4, <1>5, PoolCapacityAssumption

\* allocate() takes the first slot of the list.
LEMMA AllocateThreads ==
  ASSUME PoolTypeOK, NEW list, Threads(list, freeHead, poolIndex), NEW slot \in Slots, Allocate(slot)
  PROVE  /\ Threads(Tail(list), freeHead', poolIndex')
         /\ \A S : Lists(list, S) => Lists(Tail(list), S \ {slot})
<1>1. list \in Seq(Slots) /\ IsInjective(list)
  BY DEF Threads
<1>2. freeHead = slot /\ slot # NoSlot /\ freeHead' = poolIndex[slot]
      /\ poolIndex' = [poolIndex EXCEPT ![slot] = slot]
  BY DEF Allocate
<1>3. list # << >> /\ list[1] = slot
  BY <1>2 DEF Threads
<1>4. /\ Len(list) \in Nat \ {0} /\ DOMAIN list = 1 .. Len(list)
      /\ Tail(list) \in Seq(Slots) /\ Len(Tail(list)) = Len(list) - 1
      /\ \A k \in 1 .. Len(list) - 1 : Tail(list)[k] = list[k + 1]
      /\ \A k \in 1 .. Len(list) : list[k] \in Slots
  BY <1>1, <1>3, EmptySeq, LenProperties, HeadTailProperties, ElementOfSeq
<1> DEFINE rest == Tail(list)
           n == Len(list)
<1>5. /\ rest \in Seq(Slots) /\ Len(rest) = n - 1 /\ n \in Nat \ {0} /\ DOMAIN rest = 1 .. n - 1
      /\ \A k \in 1 .. n - 1 : rest[k] = list[k + 1]
      /\ \A k \in 1 .. n : list[k] \in Slots
      /\ \A j, k \in 1 .. n : list[j] = list[k] => j = k
  BY <1>1, <1>4, LenProperties DEF IsInjective
<1>6. \A k \in 1 .. n : poolIndex[list[k]] = IF k = n THEN NoSlot ELSE list[k + 1]
  BY <1>4 DEF Threads
<1> HIDE DEF rest, n
<1>7. rest = << >> <=> n = 1
  <2>1. rest = << >> <=> Len(rest) = 0
    BY <1>5, EmptySeq
  <2> QED
    BY <1>5, <2>1
<1>8. freeHead' = IF rest = << >> THEN NoSlot ELSE rest[1]
  <2>1. 1 \in 1 .. n
    BY <1>5
  <2>2. freeHead' = IF 1 = n THEN NoSlot ELSE list[1 + 1]
    BY <1>2, <1>3, <1>6, <2>1
  <2>3. n # 1 => rest[1] = list[1 + 1]
    BY <1>5
  <2> QED
    BY <1>7, <2>2, <2>3
<1>9. \A k \in DOMAIN rest : poolIndex'[rest[k]] = IF k = Len(rest) THEN NoSlot ELSE rest[k + 1]
  <2> TAKE k \in DOMAIN rest
  <2>1. k + 1 \in 1 .. n /\ k + 1 # 1 /\ rest[k] = list[k + 1]
    BY <1>5
  <2>2. rest[k] # slot /\ rest[k] \in Slots
    BY <1>3, <1>5, <2>1
  <2>3. poolIndex'[rest[k]] = poolIndex[list[k + 1]]
    BY <1>2, <2>1, <2>2 DEF PoolTypeOK
  <2>4. k # Len(rest) => rest[k + 1] = list[(k + 1) + 1]
    BY <1>5, <2>1
  <2> QED
    BY <1>5, <1>6, <2>1, <2>3, <2>4
<1>10. IsInjective(rest)
  BY <1>5 DEF IsInjective
<1>11. ASSUME NEW S, Lists(list, S)
       PROVE  Lists(rest, S \ {slot})
  <2> SUFFICES ASSUME NEW s \in Slots
               PROVE  s \in S \ {slot} <=> \E k \in DOMAIN rest : rest[k] = s
    BY DEF Lists
  <2>1. ASSUME s \in S, s # slot
        PROVE  \E k \in DOMAIN rest : rest[k] = s
    <3>1. PICK k \in 1 .. n : list[k] = s
      BY <1>4, <1>11, <2>1 DEF Lists, n
    <3>2. k # 1 /\ k - 1 \in DOMAIN rest /\ rest[k - 1] = s
      BY <1>3, <1>5, <2>1, <3>1
    <3> QED
      BY <3>2
  <2>2. ASSUME NEW k \in DOMAIN rest, rest[k] = s
        PROVE  s \in S /\ s # slot
    <3>1. k + 1 \in 1 .. n /\ k + 1 # 1 /\ list[k + 1] = s
      BY <1>5, <2>2
    <3>2. s # slot
      BY <1>3, <1>5, <3>1
    <3> QED
      BY <1>4, <1>11, <3>1, <3>2 DEF Lists, n
  <2> QED
    BY <2>1, <2>2
<1> QED
  BY <1>5, <1>8, <1>9, <1>10, <1>11 DEF Threads, rest

\* deallocate() puts its slot before the list, if it was not on it.
LEMMA DeallocateThreads ==
  ASSUME PoolTypeOK, NEW list, Threads(list, freeHead, poolIndex), NEW slot \in Slots, Deallocate(slot),
         poolIndex[slot] = slot, \A k \in DOMAIN list : list[k] # slot
  PROVE  /\ Threads(<<slot>> \o list, freeHead', poolIndex')
         /\ \A S : Lists(list, S) => Lists(<<slot>> \o list, S \cup {slot})
<1>1. /\ list \in Seq(Slots) /\ Len(list) \in Nat /\ DOMAIN list = 1 .. Len(list)
      /\ \A k \in 1 .. Len(list) : list[k] \in Slots
  BY LenProperties, ElementOfSeq DEF Threads
<1> DEFINE new == <<slot>> \o list
           n == Len(list)
<1>2. /\ new \in Seq(Slots) /\ Len(new) = n + 1 /\ DOMAIN new = 1 .. n + 1
      /\ new[1] = slot /\ \A k \in 1 .. n : new[k + 1] = list[k]
      /\ n \in Nat /\ new # << >>
  <2>1. <<slot>> \in Seq(Slots) /\ Len(<<slot>>) = 1 /\ <<slot>>[1] = slot
    OBVIOUS
  <2>2. /\ new \in Seq(Slots) /\ Len(new) = 1 + n
        /\ \A k \in 1 .. 1 + n : new[k] = IF k <= 1 THEN <<slot>>[k] ELSE list[k - 1]
    BY <1>1, <2>1, ConcatProperties
  <2> HIDE DEF new, n
  <2>3. n \in Nat
    BY <1>1 DEF n
  <2> QED
    BY <2>1, <2>2, <2>3, LenProperties, EmptySeq
<1>3. /\ freeHead' = slot /\ poolIndex' = [poolIndex EXCEPT ![slot] = freeHead]
  BY DEF Deallocate
<1>4. \A k \in 1 .. n : list[k] \in Slots /\ list[k] # slot
  BY <1>1
<1>5. \A k \in 1 .. n : poolIndex[list[k]] = IF k = n THEN NoSlot ELSE list[k + 1]
  BY <1>1 DEF Threads
<1>5a. freeHead = IF n = 0 THEN NoSlot ELSE list[1]
  BY <1>1, EmptySeq DEF Threads
<1>5b. \A j, k \in 1 .. n : list[j] = list[k] => j = k
  BY <1>1 DEF Threads, IsInjective
<1>5c. \A S : Lists(list, S) => \A s \in Slots : s \in S <=> \E k \in 1 .. n : list[k] = s
  BY <1>1 DEF Lists
<1> HIDE DEF new, n
<1>6. \A k \in 2 .. n + 1 : k - 1 \in 1 .. n /\ new[k] = list[k - 1] /\ new[k] # slot /\ new[k] \in Slots
  <2> TAKE k \in 2 .. n + 1
  <2>1. k - 1 \in 1 .. n /\ (k - 1) + 1 = k
    BY <1>2
  <2> QED
    BY <2>1, <1>2, <1>4
<1>7. \A k \in 1 .. n + 1 : poolIndex'[new[k]] = IF k = Len(new) THEN NoSlot ELSE new[k + 1]
  <2> TAKE k \in 1 .. n + 1
  <2>1. CASE k = 1
    <3>1. poolIndex'[new[k]] = freeHead
      BY <1>2, <1>3, <2>1 DEF PoolTypeOK
    <3>2. n # 0 => 1 \in 1 .. n /\ new[2] = list[1]
      BY <1>2
    <3> QED
      BY <1>2, <1>5a, <2>1, <3>1, <3>2
  <2>2. CASE k # 1
    <3>1. k \in 2 .. n + 1
      BY <2>2, <1>2
    <3>2. poolIndex'[new[k]] = poolIndex[list[k - 1]]
      BY <1>3, <1>6, <3>1 DEF PoolTypeOK
    <3>3. k # n + 1 => k \in 1 .. n /\ new[k + 1] = list[k]
      BY <1>2, <3>1
    <3> QED
      BY <1>2, <1>5, <1>6, <3>1, <3>2, <3>3
  <2> QED
    BY <2>1, <2>2
<1>8. IsInjective(new)
  <2> SUFFICES ASSUME NEW j \in 1 .. n + 1, NEW k \in 1 .. n + 1, new[j] = new[k]
               PROVE  j = k
    BY <1>2 DEF IsInjective
  <2>1. CASE j = 1 \/ k = 1
    BY <1>2, <1>6, <2>1
  <2>2. CASE j # 1 /\ k # 1
    <3>1. j \in 2 .. n + 1 /\ k \in 2 .. n + 1
      BY <2>2, <1>2
    <3>2. j - 1 = k - 1
      BY <1>5b, <1>6, <3>1
    <3> QED
      BY <3>2
  <2> QED
    BY <2>1, <2>2
<1>9. ASSUME NEW S, Lists(list, S)
      PROVE  Lists(new, S \cup {slot})
  <2> SUFFICES ASSUME NEW s \in Slots
               PROVE  s \in S \cup {slot} <=> \E k \in 1 .. n + 1 : new[k] = s
    BY <1>2 DEF Lists
  <2>1. ASSUME s \in S
        PROVE  \E k \in 1 .. n + 1 : new[k] = s
    <3>1. PICK k \in 1 .. n : list[k] = s
      BY <1>5c, <1>9, <2>1
    <3> QED
      BY <1>2, <3>1
  <2>2. 1 \in 1 .. n + 1 /\ new[1] = slot
    BY <1>2
  <2>3. ASSUME NEW k \in 1 .. n + 1, new[k] = s
        PROVE  s \in S \/ s = slot
    <3>1. CASE k = 1
      BY <1>2, <2>3, <3>1
    <3>2. CASE k # 1
      <4>1. k \in 2 .. n + 1
        BY <1>2, <3>2
      <4> QED
        BY <1>5c, <1>6, <1>9, <2>3, <4>1
    <3> QED
      BY <3>1, <3>2
  <2> QED
    BY <2>1, <2>2, <2>3
<1> QED
  BY <1>2, <1>3, <1>7, <1>8, <1>9 DEF Threads, new

LEMMA LostAfter ==
  ASSUME NEW list \in Seq(Slots), Threads(list, freeHead', poolIndex'),
         Lists(list, Slots \ RestingAfter)
  PROVE  NothingLost'
BY RestingIsAfter DEF NothingLost, Threads, Lists

\* A slot that leaves its level goes to the free list.
LEMMA RemovalLosesNothing ==
  ASSUME TypeOK, BookInv, NothingLost, NEW side \in Sides, NEW i \in Levels, NEW s \in Slots,
         InLevel(s, side, i), RemoveFrom(side, i, s), Deallocate(s)
  PROVE  NothingLost'
<1>1. PICK list \in Seq(Slots) : Threads(list, freeHead, poolIndex) /\ Lists(list, Slots \ Resting)
  BY DEF NothingLost
<1>2. s \in Resting /\ poolIndex[s] = s
  BY StandsWhereItBelongs DEF BookInv, Belongs
<1>3. RestingAfter = Resting \ {s}
  BY RemovalOnResting DEF BookInv
<1>4. \A k \in DOMAIN list : list[k] # s
  BY <1>1, <1>2 DEF Lists
<1>5. /\ Threads(<<s>> \o list, freeHead', poolIndex')
      /\ Lists(<<s>> \o list, (Slots \ Resting) \cup {s})
  BY <1>1, <1>2, <1>4, DeallocateThreads DEF TypeOK
<1>6. (Slots \ Resting) \cup {s} = Slots \ RestingAfter
  BY <1>3
<1>7. <<s>> \o list \in Seq(Slots)
  BY <1>5 DEF Threads
<1> QED
  BY <1>5, <1>6, <1>7, LostAfter

LEMMA SameLists ==
  ASSUME NothingLost, UNCHANGED <<poolVars, queues>>
  PROVE  NothingLost'
<1>1. Resting' = Resting
  BY DEF Resting, InLevel
<1> QED
  BY <1>1 DEF NothingLost, poolVars, Threads, Lists

LEMMA NextLosesNothing ==
  ASSUME PricesFit, TypeOK, CursorOK, PoolPermutation, BookInv, CallInv, NothingLost, [Next]_vars
  PROVE  NothingLost'
<1>1. CASE UNCHANGED bookVars
  BY <1>1, SameLists DEF bookVars, ladderVars, linkVars
<1>2. CASE FillTaker
  BY <1>2, SameLists DEF FillTaker, ladderVars, linkVars
<1>3. CASE FillMaker
  <2> DEFINE s == FirstSlot
  <2>1. /\ s \in Slots /\ Contra \in Sides /\ cursor \in Levels
        /\ InLevel(s, Contra, cursor)
    BY <1>3, FirstStandsFirst DEF FillMaker, BookInv
  <2>2. RemoveFrom(Contra, cursor, s) /\ Deallocate(s)
    BY <1>3 DEF FillMaker
  <2> HIDE DEF s, Contra
  <2> QED
    BY <2>1, <2>2, RemovalLosesNothing
<1>4. CASE Rest
  <2>1. PICK slot \in Slots : Allocate(slot) /\ PushBack(taker.side, taker.price, slot)
    BY <1>4, RestPushes
  <2>2. taker.side \in Sides /\ taker.price \in Levels
    BY <1>4, RestPushes
  <2>3. RestingAfter = Resting \cup {slot}
    BY <2>1, <2>2, FreshSlot, PushOnResting DEF BookInv
  <2>4. PICK list \in Seq(Slots) : Threads(list, freeHead, poolIndex) /\ Lists(list, Slots \ Resting)
    BY DEF NothingLost
  <2>5. /\ Threads(Tail(list), freeHead', poolIndex')
        /\ Lists(Tail(list), (Slots \ Resting) \ {slot})
    BY <2>1, <2>4, AllocateThreads DEF TypeOK
  <2>6. (Slots \ Resting) \ {slot} = Slots \ RestingAfter
    BY <2>3
  <2>7. Tail(list) \in Seq(Slots)
    BY <2>5 DEF Threads
  <2> QED
    BY <2>5, <2>6, <2>7, LostAfter
<1>5. ASSUME NEW id \in OrderIds, CancelKnown(id)
      PROVE  NothingLost'
  BY <1>5, CancelRemoves, RemovalLosesNothing
<1> QED
  BY <1>1, <1>2, <1>3, <1>4, <1>5 DEF Next, Match, Submit, Accept, Reject, Enter, BeginLevel, EndLevel,
     Conclude, CancelUnknown, Return, vars

LEMMA InitLosesNothing == Init => NothingLost
<1> SUFFICES ASSUME Init PROVE NothingLost
  OBVIOUS
<1> DEFINE list == [k \in 1 .. PoolCapacity |-> k - 1]
<1>0. PoolCapacity \in Nat \ {0}
  BY PoolCapacityAssumption
<1>1. list \in Seq(Slots) /\ Len(list) = PoolCapacity /\ DOMAIN list = 1 .. PoolCapacity
  BY <1>0 DEF Slots
<1>2. \A k \in 1 .. PoolCapacity : list[k] = k - 1
  OBVIOUS
<1>3. list # << >>
  BY <1>0, <1>1, EmptySeq
<1> HIDE DEF list
<1>4. freeHead = 0 /\ \A s \in Slots : poolIndex[s] = IF s < PoolCapacity - 1 THEN s + 1 ELSE NoSlot
  BY DEF Init, PoolInit
<1>5. \A k \in 1 .. PoolCapacity : k - 1 \in Slots
  BY <1>0 DEF Slots
<1>6. Threads(list, freeHead, poolIndex)
  BY <1>0, <1>1, <1>2, <1>3, <1>4, <1>5 DEF Threads, IsInjective
<1>7. Resting = {}
  BY DEF Init, LadderInit, Resting, InLevel
<1>8. \A s \in Slots : s + 1 \in 1 .. PoolCapacity
  BY <1>0 DEF Slots
<1>9. \A s \in Slots : s + 1 \in DOMAIN list /\ list[s + 1] = s
  BY <1>1, <1>2, <1>8 DEF Slots
<1>10. Lists(list, Slots \ Resting)
  BY <1>7, <1>9 DEF Lists
<1> QED
  BY <1>1, <1>6, <1>10 DEF NothingLost

\* Following the free list goes through the list and stays at its end.
LEMMA ChainIsList ==
  ASSUME NEW list, Threads(list, freeHead, poolIndex)
  PROVE  \A n \in 0 .. PoolCapacity : FreeChain[n] = IF n < Len(list) THEN list[n + 1] ELSE NoSlot
<1> DEFINE Follows(f) == f = [n \in 0 .. PoolCapacity |-> IF n = 0 THEN freeHead
                                ELSE IF f[n - 1] \in Slots THEN poolIndex[f[n - 1]] ELSE NoSlot]
           At(n) == IF n < Len(list) THEN list[n + 1] ELSE NoSlot
           c == [n \in 0 .. PoolCapacity |-> At(n)]
<1>1. /\ list \in Seq(Slots) /\ Len(list) \in Nat /\ DOMAIN list = 1 .. Len(list)
      /\ \A k \in 1 .. Len(list) : list[k] \in Slots
      /\ PoolCapacity \in Nat \ {0}
  BY LenProperties, ElementOfSeq, PoolCapacityAssumption DEF Threads
<1>2. At(0) = freeHead
  BY <1>1, EmptySeq DEF Threads
<1>3. \A n \in 1 .. PoolCapacity : At(n) = IF At(n - 1) \in Slots THEN poolIndex[At(n - 1)] ELSE NoSlot
  <2> TAKE n \in 1 .. PoolCapacity
  <2>1. NoSlot \notin Slots
    BY DEF Slots, NoSlot
  <2>2. CASE n - 1 < Len(list)
    <3>1. n \in DOMAIN list /\ At(n - 1) = list[n] /\ list[n] \in Slots
      BY <1>1, <2>2
    <3>2. poolIndex[list[n]] = IF n = Len(list) THEN NoSlot ELSE list[n + 1]
      BY <3>1 DEF Threads
    <3> QED
      BY <1>1, <2>2, <3>1, <3>2
  <2>3. CASE ~(n - 1 < Len(list))
    BY <1>1, <2>1, <2>3
  <2> QED
    BY <2>2, <2>3
<1> HIDE DEF At
<1>4. \A n \in 0 .. PoolCapacity : c[n] = At(n)
  OBVIOUS
<1>5. \A n \in 0 .. PoolCapacity : n # 0 => n \in 1 .. PoolCapacity /\ n - 1 \in 0 .. PoolCapacity
  BY <1>1
<1>6. c = [n \in 0 .. PoolCapacity |-> IF n = 0 THEN freeHead
                                ELSE IF c[n - 1] \in Slots THEN poolIndex[c[n - 1]] ELSE NoSlot]
  BY <1>2, <1>3, <1>4, <1>5
<1> HIDE DEF c
<1>7. Follows(c)
  BY <1>6
<1>8. FreeChain = CHOOSE f : Follows(f)
  BY DEF FreeChain
<1> HIDE DEF Follows
<1>9. Follows(FreeChain)
  BY <1>7, <1>8
<1>10. FreeChain = [n \in 0 .. PoolCapacity |-> IF n = 0 THEN freeHead
                                ELSE IF FreeChain[n - 1] \in Slots THEN poolIndex[FreeChain[n - 1]] ELSE NoSlot]
  BY <1>9 DEF Follows
<1>11. \A n \in 0 .. PoolCapacity : FreeChain[n] = IF n = 0 THEN freeHead
                                ELSE IF FreeChain[n - 1] \in Slots THEN poolIndex[FreeChain[n - 1]] ELSE NoSlot
  BY <1>10
<1> DEFINE P == {n \in Nat : n \in 0 .. PoolCapacity => FreeChain[n] = At(n)}
<1>12. 0 \in P
  BY <1>1, <1>2, <1>11
<1>13. \A n \in P : n + 1 \in P
  <2> SUFFICES ASSUME NEW n \in P, n + 1 \in 0 .. PoolCapacity
               PROVE  FreeChain[n + 1] = At(n + 1)
    OBVIOUS
  <2>1. n + 1 # 0 /\ (n + 1) - 1 = n /\ n + 1 \in 1 .. PoolCapacity /\ n \in 0 .. PoolCapacity
    BY <1>1
  <2> QED
    BY <2>1, <1>3, <1>11
<1>14. P \in SUBSET Nat
  OBVIOUS
<1> HIDE DEF P
<1>15. \A n \in Nat : n \in P
  BY ONLY <1>12, <1>13, <1>14, SetInduction
<1> QED
  BY <1>15, <1>1 DEF P, At

LEMMA NothingIsLost == ASSUME PricesFit PROVE Spec => []NothingLost
<1>1. Init => NothingLost
  BY InitLosesNothing
<1>2. TypeOK /\ CursorOK /\ PoolPermutation /\ BookInv /\ CallInv /\ NothingLost /\ [Next]_vars
        => NothingLost'
  BY NextLosesNothing
<1> QED
  BY <1>1, <1>2, TypeCorrect, PoolCorrect, BookInvCorrect, PTL DEF Spec

\* No slot is ever lost: the free list reaches every slot that no level holds, and
\* none that one does.
THEOREM NoLeakHolds == ASSUME PricesFit PROVE Spec => []NoLeak
<1>1. NothingLost => NoLeak
  <2> SUFFICES ASSUME NEW list \in Seq(Slots), Threads(list, freeHead, poolIndex),
                      Lists(list, Slots \ Resting)
               PROVE  NoLeak
    BY DEF NothingLost
  <2>1. \A n \in 0 .. PoolCapacity : FreeChain[n] = IF n < Len(list) THEN list[n + 1] ELSE NoSlot
    BY ChainIsList
  <2>2. /\ Len(list) \in Nat /\ DOMAIN list = 1 .. Len(list) /\ Len(list) <= PoolCapacity
        /\ PoolCapacity \in Nat
    BY LenProperties, SlotsFit, PoolCapacityAssumption DEF Threads
  <2>3. ASSUME NEW s \in Slots
        PROVE  s \in FreeSlots <=> s \notin Resting
    <3>1. ASSUME s \notin Resting
          PROVE  s \in FreeSlots
      <4>1. PICK k \in 1 .. Len(list) : list[k] = s
        BY <3>1, <2>2 DEF Lists
      <4>2. k - 1 \in 0 .. PoolCapacity /\ k - 1 < Len(list) /\ (k - 1) + 1 = k
        BY <2>2
      <4>3. FreeChain[k - 1] = s
        BY <2>1, <4>1, <4>2
      <4> QED
        BY <4>2, <4>3 DEF FreeSlots
    <3>2. ASSUME s \in FreeSlots
          PROVE  s \notin Resting
      <4>1. PICK n \in 0 .. PoolCapacity : FreeChain[n] = s
        BY <3>2 DEF FreeSlots
      <4>2. n < Len(list) /\ list[n + 1] = s
        BY <2>1, <4>1 DEF Slots, NoSlot
      <4>3. n + 1 \in DOMAIN list
        BY <2>2, <4>2
      <4> QED
        BY <4>2, <4>3 DEF Lists
    <3> QED
      BY <3>1, <3>2
  <2> QED
    BY <2>3 DEF NoLeak, FreeSlots, Resting
<1> QED
  BY <1>1, NothingIsLost, PTL

-----------------------------------------------------------------------------
(***************************************************************************)
(* The MatchEvent adds up.                                                 *)
(***************************************************************************)
\* Would the order trade no later at price p than at price q?
NoWorse(o, p, q) == IF o.side = "Buy" THEN p <= q ELSE p >= q

GoodTrades(ts, o) ==
  \A k \in DOMAIN ts :
    /\ ts[k].quantity > 0
    /\ Crosses(o, ts[k].price)
    /\ \A j \in 1 .. k - 1 : NoWorse(o, ts[j].price, ts[k].price)

FinalReport(rs, ts, o, rest) ==
  LET final == Last(rs) IN
  /\ final.id = o.id
  /\ final.filled = SumQuantity(ts)
  /\ final.remaining = rest
  /\ final.status = "Filled" <=> rest = 0 /\ o.quantity > 0

LEMMA ReconcilesMeans ==
  EventReconciles <=>
    (op = "process" => /\ SumQuantity(trades) = taker.quantity - left
                       /\ GoodTrades(trades, taker)
                       /\ pc = "done" => FinalReport(reports, trades, taker, left))
BY DEF EventReconciles, GoodTrades, FinalReport, NoWorse

\* Where a call is, and what it has traded before: at prices that no occupied level
\* of the other side is better than.
TradesInv ==
  /\ pc = "idle" => op = "none" /\ trades = << >>
  /\ pc \in {"match", "level"} =>
       /\ op = "process"
       /\ \A k \in DOMAIN trades, i \in Occupied(Contra) : NoWorse(taker, trades[k].price, i)
  /\ pc = "level" => Crosses(taker, cursor)

\* The quantity of the next trade.
LEMMA AddTrade ==
  ASSUME NEW ts \in Seq(TradeType), NEW t \in TradeType, NEW o, GoodTrades(ts, o),
         t.quantity > 0, Crosses(o, t.price),
         \A k \in DOMAIN ts : NoWorse(o, ts[k].price, t.price)
  PROVE  GoodTrades(Append(ts, t), o)
<1> DEFINE new == Append(ts, t)
<1>1. /\ Len(ts) \in Nat /\ DOMAIN ts = 1 .. Len(ts) /\ DOMAIN new = 1 .. Len(ts) + 1
      /\ \A k \in 1 .. Len(ts) : new[k] = ts[k]
      /\ new[Len(ts) + 1] = t
  BY LenProperties
<1> HIDE DEF new
<1>2. \A k \in DOMAIN ts : /\ ts[k].quantity > 0 /\ Crosses(o, ts[k].price)
                           /\ \A j \in 1 .. k - 1 : NoWorse(o, ts[j].price, ts[k].price)
  BY DEF GoodTrades
<1>3. ASSUME NEW k \in DOMAIN new
      PROVE  /\ new[k].quantity > 0 /\ Crosses(o, new[k].price)
             /\ \A j \in 1 .. k - 1 : NoWorse(o, new[j].price, new[k].price)
  <2>1. \A j \in 1 .. k - 1 : j \in 1 .. Len(ts) /\ new[j] = ts[j]
    BY <1>1
  <2>2. CASE k \in 1 .. Len(ts)
    BY <1>1, <1>2, <2>1, <2>2
  <2>3. CASE k = Len(ts) + 1
    BY <1>1, <2>1, <2>3
  <2> QED
    BY <1>1, <2>2, <2>3
<1>4. GoodTrades(new, o)
  BY <1>3 DEF GoodTrades
<1> QED
  BY <1>4 DEF new

\* A pass of the inner loop.
LEMMA FillReconciles ==
  ASSUME TypeOK, CursorOK, BookInv, CallInv, CursorBest, EventReconciles, TradesInv,
         FillMaker \/ FillTaker
  PROVE  EventReconciles' /\ TradesInv'
<1> DEFINE s == FirstSlot
           maker == orders[s]
           quantity == IF FillMaker THEN maker.remaining ELSE left
           trade == Trade(taker, maker, quantity)
<1>1. /\ s \in Slots /\ Contra \in Sides /\ cursor \in Levels
      /\ pc = "level" /\ InLevel(s, Contra, cursor) /\ left > 0
  BY FirstStandsFirst DEF FillMaker, FillTaker, BookInv, MoreAtLevel
<1>2. /\ trades' = Append(trades, trade)
      /\ left' = left - quantity
      /\ UNCHANGED <<op, taker, pc, cursor>>
  BY DEF FillMaker, FillTaker, TradeWith, argVars
<1>3. Belongs(s, Contra, cursor)
  BY <1>1, StandsWhereItBelongs DEF BookInv
<1>4. maker.price = cursor /\ quantity > 0
  <2>1. 0 < maker.remaining /\ PriceToIndex(maker.price) = cursor
    BY <1>3 DEF Belongs
  <2>2. maker.price \in Int
    BY <1>1, FieldTypes
  <2>3. maker.price = cursor
    BY <1>1, <2>1, <2>2, PriceToIndexProperties DEF Levels
  <2> QED
    BY <1>1, <2>1, <2>3, FieldTypes
<1>5. quantity \in Int /\ trade \in TradeType
  BY <1>1, FieldTypes, TradeIsTyped
<1>6. trade.quantity = quantity /\ trade.price = cursor
  BY <1>4 DEF Trade
<1>7. cursor \in Occupied(Contra)
  <2>1. s \in Resting /\ maker.side = Contra
    BY <1>1, <1>3, StandsWhereItBelongs DEF BookInv, Belongs
  <2> QED
    BY <1>4, <2>1, RestingStands DEF BookInv
<1>8. /\ op = "process" /\ Crosses(taker, cursor)
      /\ \A k \in DOMAIN trades, i \in Occupied(Contra) : NoWorse(taker, trades[k].price, i)
  BY <1>1 DEF TradesInv
<1>9. ~Rest
  BY <1>1 DEF Rest, MatchOver
<1>10. SetBits(bits'[Contra]) \subseteq Occupied(Contra)
  <2>1. [Next]_vars
    BY DEF Next, Match
  <2> QED
    BY <1>1, <1>9, <2>1, OnlyRestSetsBits
<1>11. \A i \in Occupied(Contra) : NoWorse(taker, cursor, i)
  <2>1. \A i \in Occupied(Contra) : IF Contra = "Buy" THEN i <= cursor ELSE cursor <= i
    BY <1>1 DEF CursorBest
  <2>2. taker.side = "Buy" <=> Contra = "Sell"
    BY ContraIsSide DEF Sides, Contra, Opposite
  <2>3. Contra = "Buy" \/ Contra = "Sell"
    BY <1>1 DEF Sides
  <2>4. \A i \in Occupied(Contra) : i \in Int
    BY <1>1 DEF Occupied, SetBits, Levels
  <2> HIDE DEF Contra
  <2> QED
    BY <1>1, <2>1, <2>2, <2>3, <2>4 DEF NoWorse, Levels
<1>12. /\ SumQuantity(trades) = taker.quantity - left /\ GoodTrades(trades, taker)
       /\ trades \in Seq(TradeType)
  BY <1>8, ReconcilesMeans DEF TypeOK, CallTypeOK
<1> HIDE DEF s, maker, quantity, trade, Contra
<1>13. SumQuantity(trades') = taker.quantity - left'
  <2>1. SumQuantity(trades') = SumQuantity(trades) + quantity
    BY <1>2, <1>5, <1>6, <1>12, SumOfAppend
  <2> QED
    BY <1>2, <1>5, <1>12, <2>1, FieldTypes
<1>14. GoodTrades(trades', taker)
  <2>1. trade.quantity > 0
    BY <1>4, <1>6
  <2>2. Crosses(taker, trade.price)
    BY <1>6, <1>8
  <2>3. \A k \in DOMAIN trades : NoWorse(taker, trades[k].price, trade.price)
    BY <1>6, <1>7, <1>8
  <2> QED
    BY <1>2, <1>5, <1>12, <2>1, <2>2, <2>3, AddTrade
<1>15. \A k \in DOMAIN trades', i \in SetBits(bits'[Contra]) : NoWorse(taker, trades'[k].price, i)
  <2>1. /\ Len(trades) \in Nat /\ DOMAIN trades = 1 .. Len(trades)
        /\ DOMAIN Append(trades, trade) = 1 .. Len(trades) + 1
        /\ \A k \in 1 .. Len(trades) : Append(trades, trade)[k] = trades[k]
        /\ Append(trades, trade)[Len(trades) + 1] = trade
    BY <1>5, <1>12, LenProperties
  <2>2. \A k \in DOMAIN trades' : (k \in DOMAIN trades /\ trades'[k] = trades[k]) \/ trades'[k] = trade
    BY <1>2, <2>1
  <2> QED
    BY <1>6, <1>8, <1>10, <1>11, <2>2
<1>16. SumQuantity(trades)' = SumQuantity(trades')
  OBVIOUS
<1>17. EventReconciles'
  <2>1. pc' # "done"
    BY <1>1, <1>2
  <2> QED
    BY <1>2, <1>13, <1>14, <2>1 DEF EventReconciles, GoodTrades, NoWorse
<1>18. TradesInv'
  <2>1. Contra' = Contra
    BY <1>2 DEF Contra
  <2>2. Occupied(Contra)' = SetBits(bits'[Contra])
    BY <2>1 DEF Occupied
  <2>3. Crosses(taker, cursor)'
    BY <1>2, <1>8 DEF Crosses
  <2>4. \A k \in DOMAIN trades', i \in Occupied(Contra)' : NoWorse(taker', trades'[k].price, i)
    BY <1>2, <1>15, <2>2
  <2> QED
    BY <1>1, <1>2, <1>8, <2>3, <2>4 DEF TradesInv, NoWorse
<1> QED
  BY <1>17, <1>18

\* The last report of the call states what the trades say.
LEMMA ConclusionReconciles ==
  ASSUME TypeOK, CallInv, EventReconciles, TradesInv, Conclude \/ Rest
  PROVE  EventReconciles' /\ TradesInv'
<1>1. PICK status \in Statuses : /\ ReportTaker(status)
                                 /\ status = "Filled" <=> left = 0
  BY DEF Conclude, Rest, ShouldRest, Statuses
<1>2. /\ UNCHANGED <<op, taker, left, trades>> /\ pc = "match" /\ pc' = "done"
      /\ reports' = Append(reports, Report(taker.id, status, taker.side, taker.price,
                                           taker.quantity - left, left))
  BY <1>1 DEF Conclude, Rest, MatchOver, argVars, ReportTaker
<1> DEFINE report == Report(taker.id, status, taker.side, taker.price, taker.quantity - left, left)
<1>3. /\ report.id = taker.id /\ report.status = status
      /\ report.filled = taker.quantity - left /\ report.remaining = left
  BY DEF Report
<1>4. report \in ReportType /\ reports \in Seq(ReportType)
  <2>1. /\ taker.id \in Nat /\ taker.side \in Sides /\ taker.price \in Int
        /\ taker.quantity - left \in Int /\ left \in Int
    BY FieldTypes
  <2>2. report \in ReportType
    BY ONLY <1>1, <2>1, ReportIsTyped
  <2> QED
    BY <2>2 DEF TypeOK, CallTypeOK
<1>5. /\ op = "process" /\ SumQuantity(trades) = taker.quantity - left
      /\ GoodTrades(trades, taker) /\ taker.quantity > 0
  BY <1>2, ReconcilesMeans DEF TradesInv, CallInv, ValidateOrder
<1> HIDE DEF report
<1>6. Last(reports') = report
  BY <1>2, <1>4, LastOfAppend DEF report
<1>7. FinalReport(reports', trades, taker, left)
  BY <1>1, <1>3, <1>5, <1>6 DEF FinalReport
<1>8. EventReconciles'
  <2>1. /\ SumQuantity(trades') = taker'.quantity - left'
        /\ GoodTrades(trades', taker')
        /\ FinalReport(reports', trades', taker', left')
    BY <1>2, <1>5, <1>7
  <2> QED
    BY <2>1 DEF EventReconciles, GoodTrades, FinalReport, NoWorse
<1>9. TradesInv'
  BY <1>2 DEF TradesInv
<1> QED
  BY <1>8, <1>9

LEMMA NextReconciles ==
  ASSUME PricesFit, TypeOK, CursorOK, BookInv, CallInv, CursorBest, EventReconciles, TradesInv,
         [Next]_vars
  PROVE  EventReconciles' /\ TradesInv'
<1>1. ASSUME NEW o \in Orders, Accept(o) \/ Reject(o)
      PROVE  EventReconciles' /\ TradesInv'
  <2>1. /\ op' = "process" /\ taker' = o /\ left' = o.quantity /\ trades' = << >>
        /\ pc' \in {"match", "done"}
    BY <1>1 DEF Accept, Reject, Enter, EnterProcess, StartMatching, TurnAway, TradesInv
  <2>2. o.quantity \in Int
    BY OrdersAssumption DEF IncomingOrder
  <2>3. SumQuantity(trades') = o.quantity - left' /\ GoodTrades(trades', o)
    BY <2>1, <2>2, SumOfNone DEF GoodTrades
  <2>4. pc' = "done" => FinalReport(reports', trades', o, left')
    <3>1. SUFFICES ASSUME pc' = "done" PROVE FinalReport(reports', trades', o, left')
      OBVIOUS
    <3> DEFINE report == Report(o.id, "Cancelled", o.side, o.price, 0, o.quantity)
    <3>2. reports' = <<report>> /\ ~ValidateOrder(o)
      BY <1>1, <3>1 DEF Accept, Reject, TurnAway, StartMatching
    <3>3. /\ report.id = o.id /\ report.filled = 0 /\ report.remaining = o.quantity
          /\ report.status = "Cancelled"
      BY DEF Report
    <3> HIDE DEF report
    <3>4. Last(reports') = report
      BY <3>2 DEF Last
    <3> QED
      BY <2>1, <2>2, <3>3, <3>4, SumOfNone DEF FinalReport
  <2>5. EventReconciles'
    BY <2>1, <2>3, <2>4 DEF EventReconciles, GoodTrades, FinalReport, NoWorse
  <2>6. TradesInv'
    BY <2>1 DEF TradesInv
  <2> QED
    BY <2>5, <2>6
<1>2. CASE BeginLevel
  <2>1. /\ UNCHANGED <<op, taker, left, trades, bits>> /\ pc = "match" /\ pc' = "level"
        /\ CanMatch /\ cursor' = FindBest(Contra)
    BY <1>2 DEF BeginLevel, argVars, eventVars, bookVars, ladderVars
  <2>2. FindBest(Contra) \in Levels
    BY <1>2, NextTypes, <2>1 DEF CursorOK
  <2>3. IndexToPrice(FindBest(Contra)) = FindBest(Contra)
    BY <2>2 DEF IndexToPrice, BasePrice, TickSize, Levels
  <2>4. Crosses(taker, cursor')
    BY <2>1, <2>3 DEF CanMatch
  <2>5. EventReconciles'
    BY <2>1 DEF EventReconciles, TradesInv
  <2>6. Occupied(Contra)' = Occupied(Contra)
    BY <2>1 DEF Occupied, Contra
  <2>7. Crosses(taker, cursor)'
    BY <2>1, <2>4 DEF Crosses
  <2> QED
    BY <2>1, <2>5, <2>6, <2>7 DEF TradesInv, NoWorse
<1>3. CASE EndLevel
  <2>1. UNCHANGED <<op, taker, left, trades, bits>> /\ pc = "level" /\ pc' = "match"
    BY <1>3 DEF EndLevel, argVars, eventVars, bookVars, ladderVars
  <2>2. EventReconciles'
    BY <2>1 DEF EventReconciles, TradesInv
  <2>3. Occupied(Contra)' = Occupied(Contra)
    BY <2>1 DEF Occupied, Contra
  <2> QED
    BY <2>1, <2>2, <2>3 DEF TradesInv, NoWorse
<1>4. CASE Return
  BY <1>4 DEF Return, EndCall, EventReconciles, TradesInv
<1>5. ASSUME NEW id \in OrderIds, CancelUnknown(id) \/ CancelKnown(id)
      PROVE  EventReconciles' /\ TradesInv'
  BY <1>5 DEF CancelUnknown, CancelKnown, EnterCancel, EventReconciles, TradesInv
<1>6. CASE UNCHANGED vars
  <2>1. UNCHANGED <<op, taker, left, trades, reports, bits, pc, cursor>>
    BY <1>6 DEF vars, callVars, argVars, eventVars, bookVars, ladderVars
  <2>2. EventReconciles'
    BY <2>1 DEF EventReconciles, Crosses
  <2>3. Occupied(Contra)' = Occupied(Contra)
    BY <2>1 DEF Occupied, Contra
  <2> QED
    BY <2>1, <2>2, <2>3 DEF TradesInv, NoWorse, Crosses
<1> QED
  BY <1>1, <1>2, <1>3, <1>4, <1>5, <1>6, FillReconciles, ConclusionReconciles
     DEF Next, Match, Submit

LEMMA TradesStayGood ==
  ASSUME PricesFit
  PROVE  Spec => [](CursorBest /\ TradesInv /\ EventReconciles)
<1>1. Init => EventReconciles /\ TradesInv /\ CursorBest
  BY DEF Init, NoCall, EventReconciles, TradesInv, CursorBest
<1>2. TypeOK /\ CursorOK /\ BookInv /\ CallInv /\ CursorBest /\ EventReconciles /\ TradesInv
        /\ [Next]_vars => (EventReconciles /\ TradesInv)'
  BY NextReconciles
<1>3. TypeOK /\ CursorOK /\ CursorBest /\ [Next]_vars => CursorBest'
  BY NextKeepsCursorBest
<1> QED
  BY <1>1, <1>2, <1>3, TypeCorrect, BookInvCorrect, PTL DEF Spec

\* The trades of an event account for exactly what the taker lost, each at a price
\* it accepts and no better one after it, and its last report states these figures.
THEOREM EventAddsUp == ASSUME PricesFit PROVE Spec => []EventReconciles
BY TradesStayGood, PTL
=============================================================================
