---------------------------- MODULE ReferenceEngine ----------------------------
(***************************************************************************)
(* ReferenceEngine (include/matching/reference_engine.h and                *)
(* src/reference_engine.cpp), the oracle of the differential tests: each   *)
(* side is an ordered map from prices to lists of orders.  A cancel only   *)
(* marks the order; it stays in its list until a taker comes by.           *)
(*                                                                         *)
(* The nodes of the lists have names, because order_map_ points at them.   *)
(* Calls run in steps, as in MatchingEngine.                               *)
(***************************************************************************)
EXTENDS EngineCalls

CONSTANT MaxNodes   \* bound of the model: orders in the lists, cancelled ones included

ASSUME MaxNodesAssumption == MaxNodes \in Nat \ {0}

Nodes == 1 .. MaxNodes
NoNode == 0

VARIABLES
  lists,       \* lists[side] is bids_ or asks_: a function of the prices it has
  nodes,       \* nodes[n] is the RefOrder in node n
  orderMap     \* order_map_: id -> node, NoNode where the map has no entry

bookVars == <<lists, nodes, orderMap>>
vars == <<bookVars, callVars>>

\* What stands for the memory of a node that is in no list.  A node's type and
\* timestamp, which nothing reads, are left out.
BlankNode == [id |-> 0, side |-> "Buy", price |-> 0, quantity |-> 0,
              remaining |-> 0, status |-> "New"]

Init ==
  /\ NoCall
  /\ lists = [side \in Sides |-> << >>]
  /\ nodes = [n \in Nodes |-> BlankNode]
  /\ orderMap = [id \in OrderIds |-> NoNode]

-----------------------------------------------------------------------------
Prices(side) == DOMAIN lists[side]

\* begin() of the side's map, whose order is by price.
LowestFirst(side) == Min(Prices(side))

Best(side) == IF side = "Buy" THEN Max(Prices(side)) ELSE Min(Prices(side))

\* best_bid and best_ask: levels of cancelled orders count.
BestPrice(side) == IF Prices(side) = {} THEN 0 ELSE Best(side)

InList(n) ==
  \E side \in Sides : \E p \in Prices(side) :
    \E k \in DOMAIN lists[side][p] : lists[side][p][k] = n

Linked == {n \in Nodes : InList(n)}

Resting == {n \in Linked : nodes[n].status # "Cancelled"}

(***************************************************************************)
(* The loops' iterators need no variables.  The loops erase whatever they  *)
(* pass, save for the order that uses the taker up: as long as they go on  *)
(* they stand at the first level and its first order.                      *)
(***************************************************************************)
CanMatch == left > 0 /\ Prices(Contra) # {} /\ Crosses(taker, Best(Contra))

Level == lists[Contra][Best(Contra)]

MoreAtLevel == left > 0 /\ Level # << >>

\* The inner loop's test for orders to drop.
NeverGone(n) == FALSE

Gone(n) == nodes[n].status \in {"Filled", "Cancelled"}

FillQuantity(n) == IF left < nodes[n].remaining THEN left ELSE nodes[n].remaining

\* level.erase(rest_it) at the front: the node is destroyed.
EraseFront ==
  /\ lists' = [lists EXCEPT ![Contra][Best(Contra)] = Tail(@)]
  /\ nodes' = [nodes EXCEPT ![Head(Level)] = BlankNode]

KeepEntry(id) == UNCHANGED orderMap

Forget(id) == orderMap' = [orderMap EXCEPT ![id] = NoNode]

KeepLevel(side, p) == UNCHANGED lists

EraseEmptyLevel(side, p) ==
  lists' = [lists EXCEPT ![side] =
              IF lists[side][p] = << >> THEN [q \in Prices(side) \ {p} |-> @[q]] ELSE @]

-----------------------------------------------------------------------------
(***************************************************************************)
(* process_order.  Prices are not validated.                               *)
(***************************************************************************)
Enter(o) ==
  /\ o.type = "Limit" => Linked # Nodes    \* the bound MaxNodes
  /\ ReuseIds \/ \A n \in Resting : nodes[n].id # o.id
  /\ EnterProcess(o)
  /\ UNCHANGED bookVars

Malformed(o) == o.quantity <= 0 \/ o.id = 0

Reject(o) == Enter(o) /\ Malformed(o) /\ TurnAway(o)

Accept(o) == Enter(o) /\ ~Malformed(o) /\ StartMatching

BeginLevel ==
  /\ pc = "match"
  /\ CanMatch
  /\ pc' = "level"
  /\ UNCHANGED <<bookVars, argVars, left, eventVars>>

\* A cancelled order is dropped; its entry in order_map_ went when it was cancelled.
DropCancelled ==
  /\ pc = "level"
  /\ MoreAtLevel
  /\ Gone(Head(Level))
  /\ EraseFront
  /\ UNCHANGED <<orderMap, callVars>>

Fill ==
  /\ pc = "level"
  /\ MoreAtLevel
  /\ LET n == Head(Level)
         maker == nodes[n]
         quantity == FillQuantity(n)
     IN
     /\ ~Gone(n)
     /\ TradeWith(maker, quantity)
     /\ \/ /\ quantity = maker.remaining
           /\ EraseFront
           /\ Forget(maker.id)
           /\ ReportFilled(maker)
        \/ /\ quantity # maker.remaining
           /\ nodes' = [nodes EXCEPT ![n] = [maker EXCEPT !.status = "PartiallyFilled",
                                                  !.remaining = maker.remaining - quantity]]
           /\ UNCHANGED <<lists, orderMap, reports>>
  /\ UNCHANGED <<pc, argVars>>

EndLevel ==
  /\ pc = "level"
  /\ ~MoreAtLevel
  /\ EraseEmptyLevel(Contra, Best(Contra))
  /\ pc' = "match"
  /\ UNCHANGED <<nodes, orderMap, argVars, left, eventVars>>

MatchOver == pc = "match" /\ ~CanMatch

Conclude ==
  /\ MatchOver
  /\ ~ShouldRest
  /\ ReportTaker(IF left = 0 THEN "Filled" ELSE "Cancelled")
  /\ UNCHANGED <<bookVars, argVars, left, trades>>

\* insert_order: a new node at the back of its price's list, which is created if
\* need be.
PushBack(n, queue) == Append(queue, n)

InsertOrder(n) ==
  LET side == taker.side
      queue == IF taker.price \in Prices(side) THEN lists[side][taker.price] ELSE << >>
  IN
  /\ lists' = [lists EXCEPT ![side] =
       [p \in Prices(side) \cup {taker.price} |->
          IF p = taker.price THEN PushBack(n, queue) ELSE @[p]]]
  /\ nodes' = [nodes EXCEPT ![n] =
       [id |-> taker.id, side |-> side, price |-> taker.price, quantity |-> taker.quantity,
        remaining |-> left, status |-> "Resting"]]
  /\ orderMap' = [orderMap EXCEPT ![taker.id] = n]

Rest ==
  /\ MatchOver
  /\ ShouldRest
  /\ InsertOrder(Min(Nodes \ Linked))
  /\ ReportTaker("Resting")
  /\ UNCHANGED <<argVars, left, trades>>

-----------------------------------------------------------------------------
(***************************************************************************)
(* cancel_order                                                            *)
(***************************************************************************)
CancelUnknown(id) ==
  /\ EnterCancel(id)
  /\ orderMap[id] = NoNode
  /\ UNCHANGED <<bookVars, reports>>

CancelKnown(id) ==
  /\ EnterCancel(id)
  /\ orderMap[id] # NoNode
  /\ nodes' = [nodes EXCEPT ![orderMap[id]].status = "Cancelled"]
  /\ ReportCancelled(nodes[orderMap[id]])
  /\ Forget(id)
  /\ UNCHANGED lists

Return == EndCall /\ UNCHANGED bookVars

-----------------------------------------------------------------------------
Match == BeginLevel \/ DropCancelled \/ Fill \/ EndLevel

Next ==
  \/ \E o \in Orders : Accept(o) \/ Reject(o)
  \/ Match
  \/ Conclude
  \/ Rest
  \/ \E id \in OrderIds : CancelUnknown(id) \/ CancelKnown(id)
  \/ Return

Spec == Init /\ [][Next]_vars

\* A call that has begun runs on until it returns; nobody is obliged to call.
Fairness == WF_vars(Match \/ Conclude \/ Rest)

FairSpec == Spec /\ Fairness

-----------------------------------------------------------------------------
(***************************************************************************)
(* Properties                                                              *)
(***************************************************************************)
\* The first check of verify_invariants: the best prices do not cross, although
\* levels that hold cancelled orders only still count.
NotCrossed ==
  BestPrice("Buy") > 0 /\ BestPrice("Sell") > 0 => BestPrice("Buy") < BestPrice("Sell")

\* verify_invariants in full: the loop over the asks starts from a previous price
\* of 0 and so wants every price of an ask to be positive.
VerifyInvariants == NotCrossed /\ \A p \in Prices("Sell") : p > 0

\* An entry of order_map_ points at a node that is still in a list, under its id
\* and not cancelled: cancel_order never follows a pointer to a destroyed node,
\* also when ids are reused and when an id comes back while its cancelled order
\* still lingers.
MapNeverDangles ==
  \A id \in OrderIds :
    orderMap[id] # NoNode =>
      orderMap[id] \in Resting /\ nodes[orderMap[id]].id = id

\* Between calls a price is in a map only with orders, and what is in its list is
\* on that side, at that price, and wants quantity.
ListsConsistent ==
  \A side \in Sides : \A p \in Prices(side) :
    /\ lists[side][p] = << >> => pc = "level" /\ side = Contra /\ p = Best(side)
    /\ \A k \in DOMAIN lists[side][p] :
         LET order == nodes[lists[side][p][k]] IN
         /\ order.side = side
         /\ order.price = p
         /\ 0 < order.remaining
         /\ order.remaining <= order.quantity

\* A taker that stops short has been through every level it crosses and left
\* none, of lingering cancelled orders either.
NoneLeftBehind ==
  pc = "done" /\ op = "process" /\ ~Malformed(taker) /\ left > 0 =>
    \A p \in Prices(Contra) : ~Crosses(taker, p)
=============================================================================
