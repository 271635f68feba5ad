---------------------------- MODULE MatchingEngine ----------------------------
(***************************************************************************)
(* MatchingEngine (include/matching/matching_engine.h and                  *)
(* src/matching_engine.cpp): a single-threaded price-time priority engine  *)
(* over an OrderPool and two PriceLadders.                                 *)
(*                                                                         *)
(* The engine runs one call at a time.  A call of process_order is a run   *)
(* of steps: entry, one step per pass of the matching loops, and the       *)
(* resting or dropping of what is left; `pc' is the place in the code, so  *)
(* no step is optional.  A call of cancel_order is one step.  Either ends  *)
(* with pc = "done", the MatchEvent in `trades' and `reports', until the   *)
(* caller takes it (Return).                                               *)
(***************************************************************************)
EXTENDS PriceLadder, EngineCalls

VARIABLES
  orders,      \* orders[s] is the Order in slot s of the pool
  orderMap,    \* order_map_: id -> slot, NoSlot where the map has no entry
  cursor       \* best_idx of the matching loop

bookVars == <<poolVars, ladderVars, orders, orderMap>>
vars == <<bookVars, callVars, cursor>>

\* A slot the pool never handed out: Order's fields are value-initialised.  Its
\* type is left out, as only Limit orders rest.
BlankSlot == [id |-> 0, side |-> "Buy", price |-> 0, quantity |-> 0,
              remaining |-> 0, timestamp |-> 0, status |-> "New"]

Init ==
  /\ PoolInit
  /\ LadderInit
  /\ NoCall
  /\ orders = [s \in Slots |-> BlankSlot]
  /\ orderMap = [id \in OrderIds |-> NoSlot]
  /\ cursor = -1

-----------------------------------------------------------------------------
\* What callers know to rest.
InLevel(s, side, i) == \E k \in DOMAIN queues[side][i] : queues[side][i][k] = s

Resting == {s \in Slots : \E side \in Sides, i \in Levels : InLevel(s, side, i)}

RestingIds == {orders[s].id : s \in Resting}

ValidateOrder(o) ==
  /\ o.quantity > 0
  /\ o.type = "Limit" => o.price > 0
  /\ o.id # 0

\* The guard of the outer loop and its two breaks.
CanMatch ==
  /\ left > 0
  /\ FindBest(Contra) >= 0
  /\ Crosses(taker, IndexToPrice(FindBest(Contra)))

\* The guard of the inner loop, and the order it looks at.
FirstSlot == heads[Contra][cursor]

MoreAtLevel == left > 0 /\ FirstSlot # NoSlot

\* A resting order after a fill.
Reduced(order, remaining, status) ==
  [order EXCEPT !.remaining = remaining, !.status = status]

\* order_map_.erase(id), which erases whatever entry the id has.
KeepEntry(id) == UNCHANGED orderMap

Erase(id) == orderMap' = [orderMap EXCEPT ![id] = NoSlot]

-----------------------------------------------------------------------------
(***************************************************************************)
(* process_order                                                           *)
(***************************************************************************)
Enter(o) ==
  /\ EnterProcess(o)
  /\ UNCHANGED <<bookVars, cursor>>

Reject(o) == Enter(o) /\ ~ValidateOrder(o) /\ TurnAway(o)

Accept(o) == Enter(o) /\ ValidateOrder(o) /\ StartMatching

\* Outer loop: fix the best level of the other side for the inner loop.
BeginLevel ==
  /\ pc = "match"
  /\ CanMatch
  /\ cursor' = FindBest(Contra)
  /\ pc' = "level"
  /\ UNCHANGED <<bookVars, argVars, left, eventVars>>

EndLevel ==
  /\ pc = "level"
  /\ ~MoreAtLevel
  /\ pc' = "match"
  /\ UNCHANGED <<bookVars, argVars, left, eventVars, cursor>>

\* Inner loop, the order at the front is used up: it leaves its level, its
\* level's bit, the map and the pool, and is reported Filled.
FillMaker ==
  /\ pc = "level"
  /\ MoreAtLevel
  /\ LET maker == orders[FirstSlot] IN
     /\ maker.remaining <= left
     /\ TradeWith(maker, maker.remaining)
     /\ orders' = [orders EXCEPT ![FirstSlot] = Reduced(@, 0, "Filled")]
     /\ RemoveFrom(Contra, cursor, FirstSlot)
     /\ Erase(maker.id)
     /\ ReportFilled(maker)
     /\ Deallocate(FirstSlot)
  /\ UNCHANGED <<argVars, pc, cursor>>

\* Inner loop, the taker is used up: the maker keeps its place.
FillTaker ==
  /\ pc = "level"
  /\ MoreAtLevel
  /\ orders[FirstSlot].remaining > left
  /\ TradeWith(orders[FirstSlot], left)
  /\ orders' = [orders EXCEPT ![FirstSlot] = Reduced(@, @.remaining - left, "PartiallyFilled")]
  /\ UNCHANGED <<poolVars, ladderVars, orderMap, argVars, pc, reports, cursor>>

MatchOver == pc = "match" /\ ~CanMatch

\* Nothing rests: the taker is filled, or is not a Limit order, or the pool has
\* no slot left.
Conclude ==
  /\ MatchOver
  /\ ShouldRest => freeHead = NoSlot
  /\ ReportTaker(IF left = 0 THEN "Filled" ELSE "Cancelled")
  /\ UNCHANGED <<bookVars, argVars, left, trades, cursor>>

\* insert_order: the slot's order joins the back of its level, or is marked
\* Cancelled and joins none when its price has no level.
InsertOrder(slot, o) ==
  LET i == PriceToIndex(o.price) IN
  /\ IF i < 0 THEN Detach(slot) ELSE PushBack(o.side, i, slot)
  /\ orders' = [orders EXCEPT ![slot] =
       [id |-> o.id, side |-> o.side, price |-> o.price, quantity |-> o.quantity,
        remaining |-> left, timestamp |-> o.timestamp,
        status |-> IF i < 0 THEN "Cancelled" ELSE "Resting"]]

\* What is left of a Limit order takes a slot.  order_map_ gets its entry and
\* the caller its Resting report even when insert_order put it in no level.
Rest ==
  /\ MatchOver
  /\ ShouldRest
  /\ \E slot \in Slots :
       /\ Allocate(slot)
       /\ InsertOrder(slot, taker)
       /\ orderMap' = [orderMap EXCEPT ![taker.id] = slot]
  /\ ReportTaker("Resting")
  /\ UNCHANGED <<argVars, left, trades, cursor>>

-----------------------------------------------------------------------------
(***************************************************************************)
(* cancel_order                                                            *)
(***************************************************************************)
CancelUnknown(id) ==
  /\ EnterCancel(id)
  /\ orderMap[id] = NoSlot
  /\ UNCHANGED <<bookVars, reports, cursor>>

\* remove_order_from_book: an order whose price has no level stays in the map.
RemoveOrderFromBook(s) ==
  LET i == PriceToIndex(orders[s].price) IN
  IF i < 0 THEN UNCHANGED <<ladderVars, orderMap>>
  ELSE RemoveFrom(orders[s].side, i, s) /\ Erase(orders[s].id)

CancelKnown(id) ==
  /\ EnterCancel(id)
  /\ orderMap[id] # NoSlot
  /\ RemoveOrderFromBook(orderMap[id])
  /\ ReportCancelled(orders[orderMap[id]])
  /\ Deallocate(orderMap[id])
  /\ UNCHANGED <<orders, cursor>>

Return == EndCall /\ cursor' = -1 /\ UNCHANGED bookVars

-----------------------------------------------------------------------------
(***************************************************************************)
(* What the engine shows of its book.                                      *)
(***************************************************************************)
Spread ==
  IF BestPrice("Buy") = 0 \/ BestPrice("Sell") = 0 THEN 0
  ELSE BestPrice("Sell") - BestPrice("Buy")

\* The orders for_each comes by on its way along the links.
Chain(side, i) ==
  LET visit[n \in Slots] == IF n = 0 THEN heads[side][i]
                            ELSE IF visit[n - 1] = NoSlot THEN NoSlot
                            ELSE next[visit[n - 1]]
  IN {visit[n] : n \in Slots} \ {NoSlot}

RestingQuantity(side, price) ==
  LET i == PriceToIndex(price) IN
  IF i < 0 THEN 0 ELSE MapThenSumSet(LAMBDA s : orders[s].remaining, Chain(side, i))

-----------------------------------------------------------------------------
Match == BeginLevel \/ FillMaker \/ FillTaker \/ EndLevel

Submit(o) == (ReuseIds \/ o.id \notin RestingIds) /\ (Accept(o) \/ Reject(o))

Next ==
  \/ \E o \in Orders : Submit(o)
  \/ Match
  \/ Conclude
  \/ Rest
  \/ \E id \in OrderIds : CancelUnknown(id) \/ CancelKnown(id)
  \/ Return

Spec == Init /\ [][Next]_vars

\* A call that has begun runs on until it returns; nobody is obliged to call.
Fairness == WF_vars(Match \/ Conclude \/ Rest)

FairSpec == Spec /\ Fairness

-----------------------------------------------------------------------------
(***************************************************************************)
(* Properties                                                              *)
(***************************************************************************)
SlotType == [id : Nat, side : Sides, price : Int, quantity : Int, remaining : Int,
             timestamp : Nat, status : Statuses]

\* Every variable has the type of the field it stands for.
TypeOK ==
  /\ PoolTypeOK
  /\ LadderTypeOK
  /\ CallTypeOK
  /\ orders \in [Slots -> SlotType]
  /\ orderMap \in [OrderIds -> SlotOrNone]
  /\ cursor \in Levels \cup {-1}

\* The slot is allocated and its order is one for level i of that side.
Belongs(s, side, i) ==
  /\ poolIndex[s] = s
  /\ orders[s].side = side
  /\ PriceToIndex(orders[s].price) = i
  /\ 0 < orders[s].remaining
  /\ orders[s].remaining <= orders[s].quantity
  /\ orders[s].status \in {"Resting", "PartiallyFilled"}

\* A slot that a level holds is an allocated slot whose order is on that side, at
\* that price and still wants quantity, and it is held once: cancels, fills and
\* the recycling of slots never leave a level with a slot twice, a slot that the
\* pool can hand out again, or an order that belongs elsewhere.
BookConsistent ==
  \A side \in Sides, i \in Levels :
    /\ IsInjective(queues[side][i])
    /\ \A k \in DOMAIN queues[side][i] : Belongs(queues[side][i][k], side, i)

\* The first check of verify_invariants: no bid at or above an ask, at any
\* moment, although what a Limit order leaves over rests after matching only.
NotCrossed ==
  \A bid \in Occupied("Buy"), ask \in Occupied("Sell") : bid < ask

\* An entry of order_map_ leads to a resting order with that id, so cancel_order
\* never follows a pointer to a slot that was recycled.
MapSound ==
  \A id \in OrderIds :
    orderMap[id] # NoSlot =>
      orderMap[id] \in Resting /\ orders[orderMap[id]].id = id

\* Every resting order can be cancelled: its id leads to its slot.
MapComplete == \A s \in Resting : orderMap[orders[s].id] = s

\* No slot is lost: each is in the book or on the free list, and not in both.
NoLeak ==
  /\ Resting \cap FreeSlots = {}
  /\ Resting \cup FreeSlots = Slots

\* The MatchEvent adds up: the trades account for exactly what the taker lost,
\* each has a positive quantity at a price the taker accepts and no better one
\* comes after it, and the last report of a finished call states these figures.
EventReconciles ==
  op = "process" =>
    /\ SumQuantity(trades) = taker.quantity - left
    /\ \A k \in DOMAIN trades :
         /\ trades[k].quantity > 0
         /\ Crosses(taker, trades[k].price)
         /\ \A j \in 1 .. k - 1 :
              IF taker.side = "Buy" THEN trades[j].price <= trades[k].price
                                    ELSE trades[j].price >= trades[k].price
    /\ pc = "done" =>
         LET final == Last(reports) IN
         /\ final.id = taker.id
         /\ final.filled = SumQuantity(trades)
         /\ final.remaining = left
         /\ final.status = "Filled" <=> left = 0 /\ taker.quantity > 0

\* An order the caller is told is Resting stands at the back of its level with
\* what is left of it.
RestingReported ==
  op = "process" /\ pc = "done" /\ Last(reports).status = "Resting" =>
    LET last == tails[taker.side][PriceToIndex(taker.price)] IN
    /\ last # NoSlot
    /\ orders[last].id = taker.id
    /\ orders[last].remaining = left

\* A taker stops short only when nothing is left that it would trade with: the
\* loops never stop at a level too early and no level is invisible to them.
NoMissedTrade ==
  pc = "done" /\ op = "process" /\ ValidateOrder(taker) /\ left > 0 =>
    \A s \in Resting : orders[s].side = Contra => ~Crosses(taker, orders[s].price)

\* MatchingEngine::verify_invariants, as the tests call it after every order: the
\* best prices do not cross, bits and levels agree, and every entry of order_map_
\* leads to an order with that id that is still open.
VerifyInvariants ==
  /\ BestPrice("Buy") > 0 /\ BestPrice("Sell") > 0 =>
       BestPrice("Buy") < BestPrice("Sell")
  /\ OccupiedIffNonEmpty
  /\ \A id \in OrderIds :
       orderMap[id] # NoSlot =>
         /\ orders[orderMap[id]].id = id
         /\ orders[orderMap[id]].status \in {"Resting", "PartiallyFilled"}

Precedes(queue, r, s) == \E j, k \in DOMAIN queue : j < k /\ queue[j] = r /\ queue[k] = s

\* r stands before s in the price-time priority of their side.
Before(r, s) ==
  \/ orders[r].side = "Buy"  /\ orders[r].price > orders[s].price
  \/ orders[r].side = "Sell" /\ orders[r].price < orders[s].price
  \/ /\ orders[r].price = orders[s].price
     /\ Precedes(queues[orders[r].side][PriceToIndex(orders[r].price)], r, s)

\* Price-time priority: a trade takes from a resting order only when no other
\* order of its side stands before it, even though best_idx is looked up once per
\* level and not once per trade.
PriceTimePriority ==
  [][\A s \in Slots :
       Len(trades') > Len(trades) /\ orders'[s].remaining < orders[s].remaining =>
         \A r \in Resting \ {s} : orders[r].side = orders[s].side => Before(s, r)]_vars

\* Every call that starts matching returns: the loops cannot spin on a level
\* whose bit is set and whose queue is empty.
EveryCallReturns == pc \in {"match", "level"} ~> pc = "done"
=============================================================================
