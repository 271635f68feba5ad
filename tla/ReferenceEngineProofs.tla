------------------------- MODULE ReferenceEngineProofs -------------------------
(***************************************************************************)
(* Proofs about ReferenceEngine: for any number of nodes, any prices and   *)
(* any use of ids, the lists, the nodes and order_map_ stay in step.       *)
(***************************************************************************)
EXTENDS ReferenceEngine, EventsProofs

NodeType == [id : Nat, side : Sides, price : Int, quantity : Int, remaining : Int,
             status : Statuses]

\* The types of the three containers.
BookTypeOK ==
  /\ DOMAIN lists = Sides
  /\ \A side \in Sides :
       /\ Prices(side) \subseteq Int
       /\ \A p \in Prices(side) : lists[side][p] \in Seq(Nodes)
  /\ nodes \in [Nodes -> NodeType]
  /\ orderMap \in [OrderIds -> Nodes \cup {NoNode}]

\* The maps hold finitely many prices: there is a bound that none exceeds.
Bounded == \E b \in Nat : \A side \in Sides : \A p \in Prices(side) : -b <= p /\ p <= b

\* The matching loop starts at the best price there is.
LEMMA BestIsBest ==
  ASSUME BookTypeOK, Bounded, NEW side \in Sides, Prices(side) # {}
  PROVE  /\ Best(side) \in Prices(side)
         /\ \A p \in Prices(side) :
              /\ side = "Buy" => p <= Best(side)
              /\ side = "Sell" => Best(side) <= p
<1>1. Prices(side) \in SUBSET Int
  BY DEF BookTypeOK
<1>2. PICK b \in Nat : \A p \in Prices(side) : -b <= p /\ p <= b
  BY DEF Bounded
<1>3. /\ Max(Prices(side)) \in Prices(side)
      /\ \A p \in Prices(side) : p <= Max(Prices(side))
  BY <1>1, <1>2, BoundedMax
<1>4. /\ Min(Prices(side)) \in Prices(side)
      /\ \A p \in Prices(side) : Min(Prices(side)) <= p
  BY <1>1, <1>2, BoundedMin
<1> QED
  BY <1>3, <1>4 DEF Best, Sides

\* What is left of a list without its first element.
LEMMA TailOfList ==
  ASSUME NEW S, NEW q \in Seq(S), q # << >>, IsInjective(q)
  PROVE  /\ Head(q) \in S /\ 1 \in DOMAIN q /\ q[1] = Head(q)
         /\ Tail(q) \in Seq(S)
         /\ IsInjective(Tail(q))
         /\ \A k \in DOMAIN Tail(q) :
              k + 1 \in DOMAIN q /\ Tail(q)[k] = q[k + 1] /\ Tail(q)[k] # Head(q)
         /\ \A k \in DOMAIN q :
              q[k] # Head(q) => k - 1 \in DOMAIN Tail(q) /\ Tail(q)[k - 1] = q[k]
<1>1. /\ Head(q) \in S
      /\ Tail(q) \in Seq(S)
      /\ Len(Tail(q)) = Len(q) - 1
      /\ \A i \in 1 .. Len(Tail(q)) : Tail(q)[i] = q[i + 1]
  BY HeadTailProperties
<1>2. Len(q) \in Nat \ {0} /\ DOMAIN q = 1 .. Len(q) /\ Head(q) = q[1]
  BY EmptySeq
<1> DEFINE rest == Tail(q)
<1>3. DOMAIN rest = 1 .. Len(q) - 1
  BY <1>1, <1>2
<1>4. \A k \in DOMAIN rest : k + 1 \in DOMAIN q /\ rest[k] = q[k + 1]
  BY <1>1, <1>2, <1>3
<1> HIDE DEF rest
<1>5. \A k \in DOMAIN rest : rest[k] # q[1]
  BY <1>2, <1>3, <1>4 DEF IsInjective
<1>6. IsInjective(rest)
  BY <1>2, <1>3, <1>4 DEF IsInjective
<1>7. \A k \in DOMAIN q : k # 1 => k - 1 \in DOMAIN rest /\ rest[k - 1] = q[k]
  <2> TAKE k \in DOMAIN q
  <2> HAVE k # 1
  <2>1. k - 1 \in DOMAIN rest /\ k - 1 + 1 = k
    BY <1>2, <1>3
  <2> QED
    BY <1>4, <2>1
<1> QED
  BY <1>1, <1>2, <1>4, <1>5, <1>6, <1>7 DEF rest

-----------------------------------------------------------------------------
(***************************************************************************)
(* The invariant.  Fits is what ListsConsistent says of an order in a      *)
(* list, and that it is not Filled; it gives a node one place in one list, *)
(* which injective lists make the only one.                                *)
(***************************************************************************)
Fits(order, side, p) ==
  /\ order.side = side
  /\ order.price = p
  /\ 0 < order.remaining
  /\ order.remaining <= order.quantity
  /\ order.status \in {"Resting", "PartiallyFilled", "Cancelled"}

Filed ==
  \A side \in Sides : \A p \in Prices(side) :
    /\ IsInjective(lists[side][p])
    /\ \A k \in DOMAIN lists[side][p] : Fits(nodes[lists[side][p][k]], side, p)

\* Also where prices are not positive.
Uncrossed == \A bid \in Prices("Buy"), ask \in Prices("Sell") : bid < ask

BookInv == BookTypeOK /\ Bounded /\ Filed /\ MapNeverDangles /\ Uncrossed

\* A list is empty only while the loop is at it.
NoneEmpty ==
  \A side \in Sides : \A p \in Prices(side) :
    lists[side][p] = << >> => pc = "level" /\ side = Contra /\ p = Best(side)

\* The call in progress; there is a node for what may rest of it.
CallInv ==
  /\ pc \in {"match", "level"} =>
       /\ taker \in Orders /\ ~Malformed(taker)
       /\ left \in Nat /\ left <= taker.quantity
       /\ taker.type = "Limit" => Linked # Nodes
  /\ pc = "level" => Prices(Contra) # {}

RefInv == BookInv /\ NoneEmpty /\ CallInv

LEMMA ContraIsSide == CallInv /\ pc \in {"match", "level"} => Contra \in Sides /\ taker.side \in Sides /\ Contra # taker.side
BY OrdersAssumption DEF CallInv, Contra, Opposite, Sides, IncomingOrder

\* A node is in one place.
LEMMA OnePlace ==
  ASSUME Filed,
         NEW s \in Sides, NEW p \in Prices(s), NEW k \in DOMAIN lists[s][p],
         NEW t \in Sides, NEW q \in Prices(t), NEW j \in DOMAIN lists[t][q],
         lists[s][p][k] = lists[t][q][j]
  PROVE  s = t /\ p = q /\ k = j
<1>1. s = t /\ p = q
  BY DEF Filed, Fits
<1> QED
  BY <1>1 DEF Filed, IsInjective

LEMMA ListedIsNode ==
  ASSUME BookTypeOK, NEW s \in Sides, NEW p \in Prices(s), NEW k \in DOMAIN lists[s][p]
  PROVE  lists[s][p][k] \in Nodes /\ InList(lists[s][p][k])
<1>1. lists[s][p] \in Seq(Nodes)
  BY DEF BookTypeOK
<1> QED
  BY <1>1, ElementOfSeq DEF InList

\* The lists after level.erase at the front of the best level.
LEMMA FrontErased ==
  ASSUME BookTypeOK, Filed, Contra \in Sides, Best(Contra) \in Prices(Contra),
         Level # << >>, EraseFront
  PROVE  LET n == Head(Level) IN
         /\ n \in Nodes /\ InList(n) /\ Fits(nodes[n], Contra, Best(Contra))
         /\ nodes' = [nodes EXCEPT ![n] = BlankNode]
         /\ DOMAIN lists' = Sides
         /\ \A s \in Sides : Prices(s)' = Prices(s)
         /\ \A s \in Sides : \A p \in Prices(s) :
              lists'[s][p] = IF s = Contra /\ p = Best(Contra) THEN Tail(Level) ELSE lists[s][p]
<1> DEFINE c == Contra
           b == Best(Contra)
<1>1. lists[c][b] = Level /\ c \in Sides /\ b \in Prices(c)
  BY DEF Level
<1>2. Level \in Seq(Nodes) /\ IsInjective(Level)
  BY <1>1 DEF BookTypeOK, Filed
<1>3. Head(Level) \in Nodes /\ 1 \in DOMAIN Level /\ Level[1] = Head(Level)
  BY <1>2, TailOfList
<1>4. InList(Head(Level)) /\ Fits(nodes[Head(Level)], c, b)
  BY <1>1, <1>3 DEF InList, Filed
<1>5. lists' = [lists EXCEPT ![c][b] = Tail(Level)]
  BY <1>1 DEF EraseFront
<1>6. nodes' = [nodes EXCEPT ![Head(Level)] = BlankNode]
  BY DEF EraseFront
<1> HIDE DEF c, b
<1>7. /\ DOMAIN lists' = Sides
      /\ \A s \in Sides : DOMAIN lists'[s] = DOMAIN lists[s]
      /\ \A s \in Sides : \A p \in Prices(s) :
           lists'[s][p] = IF s = c /\ p = b THEN Tail(Level) ELSE lists[s][p]
  BY <1>1, <1>5 DEF BookTypeOK, Prices
<1> QED
  BY <1>3, <1>4, <1>6, <1>7 DEF c, b, Prices

LEMMA FrontGone ==
  ASSUME BookInv, Contra \in Sides, Best(Contra) \in Prices(Contra), Level # << >>, EraseFront
  PROVE  /\ Filed'
         /\ \A m : InList(m)' <=> InList(m) /\ m # Head(Level)
<1> DEFINE c == Contra
           b == Best(Contra)
           n == Head(Level)
           rest == Tail(Level)
<1>1. BookTypeOK /\ Filed
  BY DEF BookInv
<1>2. /\ \A s \in Sides : Prices(s)' = Prices(s)
      /\ \A s \in Sides : \A p \in Prices(s) :
           lists'[s][p] = IF s = c /\ p = b THEN rest ELSE lists[s][p]
      /\ n \in Nodes
      /\ nodes' = [nodes EXCEPT ![n] = BlankNode]
  BY <1>1, FrontErased
<1>3. /\ lists[c][b] = Level /\ c \in Sides /\ b \in Prices(c)
      /\ Level \in Seq(Nodes) /\ IsInjective(Level)
  BY <1>1 DEF Level, BookTypeOK, Filed
<1>4. /\ 1 \in DOMAIN Level /\ Level[1] = n
      /\ IsInjective(rest)
      /\ \A k \in DOMAIN rest : k + 1 \in DOMAIN Level /\ rest[k] = Level[k + 1] /\ rest[k] # n
      /\ \A k \in DOMAIN Level :
           Level[k] # n => k - 1 \in DOMAIN rest /\ rest[k - 1] = Level[k]
  BY <1>3, TailOfList
<1> HIDE DEF c, b, n, rest
\* What is in a list now was in that list before, and is not n.
<1>5. ASSUME NEW s \in Sides, NEW p \in Prices(s), NEW k \in DOMAIN lists'[s][p]
      PROVE  /\ \E j \in DOMAIN lists[s][p] : lists[s][p][j] = lists'[s][p][k]
             /\ lists'[s][p][k] # n
  <2>1. CASE s = c /\ p = b
    <3>1. lists'[s][p] = rest /\ lists[s][p] = Level
      BY <1>2, <1>3, <2>1
    <3> QED
      BY <1>4, <3>1
  <2>2. CASE ~(s = c /\ p = b)
    <3>1. lists'[s][p] = lists[s][p]
      BY <1>2, <2>2
    <3>2. lists[s][p][k] # n
      <4> SUFFICES ASSUME lists[s][p][k] = n PROVE FALSE
        OBVIOUS
      <4>1. lists[s][p][k] = lists[c][b][1] /\ 1 \in DOMAIN lists[c][b] /\ k \in DOMAIN lists[s][p]
        BY <1>3, <1>4, <3>1
      <4> QED
        BY <1>1, <1>3, <2>2, <4>1, OnePlace
    <3> QED
      BY <3>1, <3>2
  <2> QED
    BY <2>1, <2>2
<1>6. Filed'
  <2> SUFFICES ASSUME NEW s \in Sides, NEW p \in Prices(s)
               PROVE  /\ IsInjective(lists'[s][p])
                      /\ \A k \in DOMAIN lists'[s][p] : Fits(nodes'[lists'[s][p][k]], s, p)
    BY <1>2 DEF Filed
  <2>1. IsInjective(lists'[s][p])
    <3>1. CASE s = c /\ p = b
      BY <1>2, <1>4, <3>1
    <3>2. CASE ~(s = c /\ p = b)
      BY <1>1, <1>2, <3>2 DEF Filed
    <3> QED
      BY <3>1, <3>2
  <2>2. ASSUME NEW k \in DOMAIN lists'[s][p]
        PROVE  Fits(nodes'[lists'[s][p][k]], s, p)
    <3>1. PICK j \in DOMAIN lists[s][p] : lists[s][p][j] = lists'[s][p][k]
      BY <1>5
    <3>2. lists[s][p][j] # n /\ lists[s][p][j] \in Nodes
      BY <1>1, <1>5, <3>1, ListedIsNode
    <3>3. nodes'[lists[s][p][j]] = nodes[lists[s][p][j]]
      BY <1>1, <1>2, <3>2 DEF BookTypeOK
    <3> QED
      BY <1>1, <3>1, <3>3 DEF Filed
  <2> QED
    BY <2>1, <2>2
<1>7. ASSUME NEW m
      PROVE  InList(m)' <=> InList(m) /\ m # n
  <2>1. ASSUME InList(m)' PROVE InList(m) /\ m # n
    <3>0. PICK s \in Sides : \E p \in Prices(s) : \E k \in DOMAIN lists'[s][p] :
            lists'[s][p][k] = m
      BY <1>2, <2>1 DEF InList
    <3>1. PICK p \in Prices(s) : \E k \in DOMAIN lists'[s][p] : lists'[s][p][k] = m
      BY <3>0
    <3> QED
      BY <1>5, <3>1 DEF InList
  <2>2. ASSUME InList(m), m # n PROVE InList(m)'
    <3>0. PICK s \in Sides : \E p \in Prices(s) : \E k \in DOMAIN lists[s][p] :
            lists[s][p][k] = m
      BY <2>2 DEF InList
    <3>1. PICK p \in Prices(s) : \E k \in DOMAIN lists[s][p] : lists[s][p][k] = m
      BY <3>0
    <3>2. \E j \in DOMAIN lists'[s][p] : lists'[s][p][j] = m
      <4>1. CASE s = c /\ p = b
        <5>1. lists'[s][p] = rest /\ lists[s][p] = Level
          BY <1>2, <1>3, <4>1
        <5> QED
          BY <1>4, <2>2, <3>1, <5>1
      <4>2. CASE ~(s = c /\ p = b)
        <5>1. lists'[s][p] = lists[s][p]
          BY <1>2, <4>2
        <5> QED
          BY <3>1, <5>1
      <4> QED
        BY <4>1, <4>2
    <3> QED
      BY <1>2, <3>2 DEF InList
  <2> QED
    BY <2>1, <2>2
<1> QED
  BY <1>6, <1>7 DEF n

\* At a level there is a best price, and it is the level's.
LEMMA LevelIsThere ==
  ASSUME RefInv, pc = "level"
  PROVE  /\ Contra \in Sides
         /\ Best(Contra) \in Prices(Contra)
<1>1. BookTypeOK /\ Bounded /\ CallInv
  BY DEF RefInv, BookInv
<1>2. Contra \in Sides /\ Prices(Contra) # {}
  BY <1>1, ContraIsSide DEF CallInv
<1> QED
  BY <1>1, <1>2, BestIsBest

\* Whatever changes in the lists, a node that is in none stays so.
LEMMA RoomStays ==
  ASSUME \A m : InList(m)' => InList(m), Linked # Nodes
  PROVE  Linked' # Nodes
BY DEF Linked

\* Erasing the front of the best level keeps the book in step if no entry of
\* order_map_ is left that leads to it.
LEMMA FrontForgotten ==
  ASSUME RefInv, pc = "level", Level # << >>, EraseFront,
         orderMap' \in [OrderIds -> Nodes \cup {NoNode}],
         \A id \in OrderIds : orderMap'[id] # NoNode =>
           orderMap'[id] = orderMap[id] /\ orderMap[id] # Head(Level)
  PROVE  /\ BookInv'
         /\ \A s \in Sides : Prices(s)' = Prices(s) /\ Best(s)' = Best(s)
         /\ \A s \in Sides : \A p \in Prices(s) :
              lists'[s][p] = << >> => lists[s][p] = << >> \/ (s = Contra /\ p = Best(Contra))
         /\ \A m : InList(m)' => InList(m)
<1> DEFINE n == Head(Level)
<1>1. BookInv /\ Contra \in Sides /\ Best(Contra) \in Prices(Contra)
  BY LevelIsThere DEF RefInv
<1>2. BookTypeOK /\ Filed /\ Bounded /\ Uncrossed /\ MapNeverDangles
  BY <1>1 DEF BookInv
<1>3. /\ n \in Nodes
      /\ nodes' = [nodes EXCEPT ![n] = BlankNode]
      /\ DOMAIN lists' = Sides
      /\ \A s \in Sides : Prices(s)' = Prices(s)
      /\ \A s \in Sides : \A p \in Prices(s) :
           lists'[s][p] = IF s = Contra /\ p = Best(Contra) THEN Tail(Level) ELSE lists[s][p]
  BY <1>1, <1>2, FrontErased
<1>4. Filed' /\ \A m : InList(m)' <=> InList(m) /\ m # n
  BY <1>1, FrontGone
<1>5. Tail(Level) \in Seq(Nodes)
  <2>1. Level \in Seq(Nodes)
    BY <1>1, <1>2 DEF Level, BookTypeOK
  <2> QED
    BY <2>1, HeadTailProperties
<1> HIDE DEF n
<1>6. BlankNode \in NodeType
  BY DEF BlankNode, NodeType, Sides, Statuses
<1>7. BookTypeOK'
  <2>1. nodes' \in [Nodes -> NodeType]
    BY <1>2, <1>3, <1>6 DEF BookTypeOK
  <2>2. \A s \in Sides : Prices(s)' \subseteq Int /\ \A p \in Prices(s)' : lists'[s][p] \in Seq(Nodes)
    BY <1>2, <1>3, <1>5 DEF BookTypeOK
  <2> QED
    BY <1>3, <2>1, <2>2 DEF BookTypeOK
<1>8. Bounded'
  BY <1>2, <1>3 DEF Bounded
<1>9. Uncrossed'
  BY <1>2, <1>3 DEF Uncrossed, Sides
<1>10. MapNeverDangles'
  <2> SUFFICES ASSUME NEW id \in OrderIds, orderMap'[id] # NoNode
               PROVE  orderMap'[id] \in Resting' /\ nodes'[orderMap'[id]].id = id
    BY DEF MapNeverDangles
  <2> DEFINE m == orderMap[id]
  <2>1. orderMap'[id] = m /\ m # n
    BY DEF n
  <2>2. m \in Nodes /\ InList(m) /\ nodes[m].status # "Cancelled" /\ nodes[m].id = id
    BY <1>2, <2>1 DEF MapNeverDangles, Resting, Linked
  <2>3. InList(m)' /\ nodes'[m] = nodes[m]
    BY <1>2, <1>3, <1>4, <2>1, <2>2 DEF BookTypeOK
  <2> QED
    BY <2>1, <2>2, <2>3 DEF Resting, Linked
<1>11. \A s \in Sides : Best(s)' = Best(s)
  BY <1>3 DEF Best
<1> QED
  BY <1>3, <1>4, <1>7, <1>8, <1>9, <1>10, <1>11 DEF BookInv

-----------------------------------------------------------------------------
(***************************************************************************)
(* Every step keeps RefInv.                                                *)
(***************************************************************************)
\* Between the levels no list is empty, and a step that leaves the book alone
\* keeps it so.
LEMMA BookStays ==
  ASSUME RefInv, pc # "level", UNCHANGED bookVars
  PROVE  /\ BookInv' /\ NoneEmpty'
         /\ Linked' = Linked
         /\ \A s \in Sides : Prices(s)' = Prices(s) /\ Best(s)' = Best(s)
<1>1. /\ \A s \in Sides : Prices(s)' = Prices(s) /\ Best(s)' = Best(s)
      /\ \A m : InList(m)' <=> InList(m)
  BY DEF bookVars, Prices, Best, InList
<1>2. Linked' = Linked /\ Resting' = Resting
  BY <1>1 DEF bookVars, Linked, Resting
<1>3. BookTypeOK' /\ Bounded' /\ Filed' /\ Uncrossed'
  BY <1>1 DEF RefInv, BookInv, bookVars, BookTypeOK, Bounded, Filed, Uncrossed, Prices
<1>4. MapNeverDangles'
  BY <1>2 DEF RefInv, BookInv, bookVars, MapNeverDangles
<1>5. NoneEmpty'
  BY DEF RefInv, NoneEmpty, bookVars, Prices
<1> QED
  BY <1>1, <1>2, <1>3, <1>4, <1>5 DEF BookInv

\* Changing one node's status or remaining keeps the book in step.
LEMMA NodeEdited ==
  ASSUME BookInv, UNCHANGED lists,
         orderMap' \in [OrderIds -> Nodes \cup {NoNode}],
         NEW n \in Nodes, NEW order \in NodeType,
         nodes' = [nodes EXCEPT ![n] = order],
         order.id = nodes[n].id,
         \A s \in Sides : \A p \in Prices(s) : Fits(nodes[n], s, p) => Fits(order, s, p),
         \A id \in OrderIds : orderMap'[id] # NoNode =>
           /\ orderMap'[id] = orderMap[id]
           /\ orderMap[id] = n => order.status # "Cancelled"
  PROVE  /\ BookInv'
         /\ Linked' = Linked
         /\ \A s \in Sides : Prices(s)' = Prices(s) /\ Best(s)' = Best(s)
<1>0. BookTypeOK /\ Bounded /\ Filed /\ Uncrossed /\ MapNeverDangles
  BY DEF BookInv
<1>1. /\ \A s \in Sides : Prices(s)' = Prices(s) /\ Best(s)' = Best(s)
      /\ \A m : InList(m)' <=> InList(m)
  BY DEF Prices, Best, InList
<1>2. Linked' = Linked
  BY <1>1 DEF Linked
<1>3. nodes' \in [Nodes -> NodeType] /\ \A m \in Nodes : nodes'[m] = IF m = n THEN order ELSE nodes[m]
  BY <1>0 DEF BookTypeOK
<1>4. BookTypeOK'
  BY <1>0, <1>1, <1>3 DEF BookTypeOK
<1>5. Bounded' /\ Uncrossed'
  BY <1>0, <1>1 DEF Bounded, Uncrossed, Sides
<1>6. Filed'
  <2> SUFFICES ASSUME NEW s \in Sides, NEW p \in Prices(s)
               PROVE  /\ IsInjective(lists[s][p])
                      /\ \A k \in DOMAIN lists[s][p] : Fits(nodes'[lists[s][p][k]], s, p)
    BY <1>1 DEF Filed
  <2>1. IsInjective(lists[s][p])
    BY <1>0 DEF Filed
  <2>2. ASSUME NEW k \in DOMAIN lists[s][p]
        PROVE  Fits(nodes'[lists[s][p][k]], s, p)
    <3>1. lists[s][p][k] \in Nodes /\ Fits(nodes[lists[s][p][k]], s, p)
      BY <1>0, ListedIsNode DEF Filed
    <3> QED
      BY <1>3, <3>1
  <2> QED
    BY <2>1, <2>2
<1>7. MapNeverDangles'
  <2> SUFFICES ASSUME NEW id \in OrderIds, orderMap'[id] # NoNode
               PROVE  orderMap'[id] \in Resting' /\ nodes'[orderMap'[id]].id = id
    BY DEF MapNeverDangles
  <2> DEFINE m == orderMap[id]
  <2>1. orderMap'[id] = m /\ (m = n => order.status # "Cancelled")
    OBVIOUS
  <2>2. m \in Nodes /\ m \in Linked /\ nodes[m].status # "Cancelled" /\ nodes[m].id = id
    BY <1>0, <2>1 DEF MapNeverDangles, Resting, Linked
  <2>3. nodes'[m].status # "Cancelled" /\ nodes'[m].id = id
    BY <1>3, <2>1, <2>2
  <2> QED
    BY <1>2, <2>1, <2>2, <2>3 DEF Resting
<1> QED
  BY <1>1, <1>2, <1>4, <1>5, <1>6, <1>7 DEF BookInv

\* The front goes, and the call stays at the level.
LEMMA FrontStep ==
  ASSUME RefInv, pc = "level", Level # << >>, EraseFront,
         UNCHANGED <<pc, argVars>>, left' \in Nat, left' <= left,
         orderMap' \in [OrderIds -> Nodes \cup {NoNode}],
         \A id \in OrderIds : orderMap'[id] # NoNode =>
           orderMap'[id] = orderMap[id] /\ orderMap[id] # Head(Level)
  PROVE  RefInv'
<1>1. /\ BookInv'
      /\ \A s \in Sides : Prices(s)' = Prices(s) /\ Best(s)' = Best(s)
      /\ \A s \in Sides : \A p \in Prices(s) :
           lists'[s][p] = << >> => lists[s][p] = << >> \/ (s = Contra /\ p = Best(Contra))
      /\ \A m : InList(m)' => InList(m)
  BY FrontForgotten
<1>2. Contra' = Contra /\ Contra \in Sides /\ taker' = taker /\ pc' = pc
  BY LevelIsThere DEF argVars, Contra
<1>2a. Best(Contra)' = Best(Contra) /\ Prices(Contra)' = Prices(Contra)
  BY <1>1, <1>2 DEF Best, Prices
<1>3. NoneEmpty'
  BY <1>1, <1>2, <1>2a DEF RefInv, NoneEmpty
<1>4. taker \in Orders /\ ~Malformed(taker) /\ left \in Nat /\ left <= taker.quantity
      /\ (taker.type = "Limit" => Linked # Nodes) /\ Prices(Contra) # {}
  BY DEF RefInv, CallInv
<1>5. taker.quantity \in Int
  BY <1>4, OrdersAssumption DEF IncomingOrder
<1>6. left' <= taker.quantity
  BY <1>4, <1>5
<1>7. taker.type = "Limit" => Linked' # Nodes
  BY <1>1, <1>4, RoomStays
<1>8. CallInv'
  BY <1>2, <1>2a, <1>4, <1>6, <1>7 DEF CallInv, Malformed
<1> QED
  BY <1>1, <1>3, <1>8 DEF RefInv
\* The order at the front of the level fits it.
LEMMA FrontFits ==
  ASSUME RefInv, pc = "level", Level # << >>
  PROVE  /\ Head(Level) \in Nodes /\ InList(Head(Level))
         /\ nodes[Head(Level)] \in NodeType
         /\ Fits(nodes[Head(Level)], Contra, Best(Contra))
<1>1. Contra \in Sides /\ Best(Contra) \in Prices(Contra) /\ BookTypeOK /\ Filed
  BY LevelIsThere DEF RefInv, BookInv
<1>2. Level = lists[Contra][Best(Contra)] /\ Level \in Seq(Nodes) /\ IsInjective(Level)
  BY <1>1 DEF Level, BookTypeOK, Filed
<1>3. Head(Level) \in Nodes /\ 1 \in DOMAIN Level /\ Level[1] = Head(Level)
  BY <1>2, TailOfList
<1> QED
  BY <1>1, <1>2, <1>3 DEF InList, Filed, BookTypeOK

LEMMA DropCancelledKeeps ==
  ASSUME RefInv, DropCancelled
  PROVE  RefInv'
<1> DEFINE n == Head(Level)
<1>1. pc = "level" /\ Level # << >> /\ Gone(n) /\ EraseFront /\ UNCHANGED <<orderMap, callVars>>
  BY DEF DropCancelled, MoreAtLevel
<1>2. Fits(nodes[n], Contra, Best(Contra))
  BY <1>1, FrontFits
<1>3. nodes[n].status = "Cancelled"
  BY <1>1, <1>2 DEF Gone, Fits
<1>4. orderMap \in [OrderIds -> Nodes \cup {NoNode}] /\ MapNeverDangles
  BY DEF RefInv, BookInv, BookTypeOK
<1>5. \A id \in OrderIds : orderMap[id] # NoNode => orderMap[id] # n
  BY <1>3, <1>4 DEF MapNeverDangles, Resting
<1>6. left \in Nat
  BY <1>1 DEF RefInv, CallInv
<1> QED
  BY <1>1, <1>4, <1>5, <1>6, FrontStep DEF callVars, argVars

LEMMA FillKeeps ==
  ASSUME RefInv, Fill
  PROVE  RefInv'
<1> DEFINE n == Head(Level)
           maker == nodes[n]
           quantity == FillQuantity(n)
<1>1. /\ pc = "level" /\ left > 0 /\ Level # << >> /\ ~Gone(n)
      /\ left' = left - quantity /\ UNCHANGED <<pc, argVars>>
  BY DEF Fill, MoreAtLevel, TradeWith
<1>2. /\ n \in Nodes /\ InList(n) /\ maker \in NodeType
      /\ Fits(maker, Contra, Best(Contra))
      /\ Contra \in Sides
  BY <1>1, FrontFits, LevelIsThere
<1>3. orderMap \in [OrderIds -> Nodes \cup {NoNode}] /\ MapNeverDangles
  BY DEF RefInv, BookInv, BookTypeOK
<1>4. left \in Nat /\ left > 0 /\ maker.remaining \in Int /\ 0 < maker.remaining
  BY <1>1, <1>2 DEF RefInv, CallInv, NodeType, Fits
<1>5. /\ quantity \in Nat /\ 0 < quantity /\ quantity <= left /\ quantity <= maker.remaining
      /\ quantity # maker.remaining => quantity = left
  BY <1>4 DEF FillQuantity
<1>6. left' \in Nat /\ left' <= left
  BY <1>1, <1>4, <1>5
<1>7. \/ quantity = maker.remaining /\ EraseFront /\ Forget(maker.id)
      \/ /\ quantity # maker.remaining
         /\ nodes' = [nodes EXCEPT ![n] = [maker EXCEPT !.status = "PartiallyFilled",
                                                !.remaining = maker.remaining - quantity]]
         /\ UNCHANGED <<lists, orderMap>>
  BY DEF Fill
<1>8. CASE EraseFront /\ Forget(maker.id)
  <2>1. orderMap' = [orderMap EXCEPT ![maker.id] = NoNode]
    BY <1>8 DEF Forget
  <2>2. orderMap' \in [OrderIds -> Nodes \cup {NoNode}]
    BY <1>3, <2>1
  <2>3. ASSUME NEW id \in OrderIds, orderMap'[id] # NoNode
        PROVE  orderMap'[id] = orderMap[id] /\ orderMap[id] # n
    <3>1. id # maker.id /\ orderMap'[id] = orderMap[id]
      BY <1>3, <2>1, <2>3
    <3>2. nodes[orderMap[id]].id = id
      BY <1>3, <2>3, <3>1 DEF MapNeverDangles
    <3> QED
      BY <3>1, <3>2
  <2> QED
    BY <1>1, <1>6, <1>8, <2>2, <2>3, FrontStep
<1>9. CASE /\ quantity # maker.remaining
           /\ nodes' = [nodes EXCEPT ![n] = [maker EXCEPT !.status = "PartiallyFilled",
                                                  !.remaining = maker.remaining - quantity]]
           /\ UNCHANGED <<lists, orderMap>>
  <2> DEFINE order == [maker EXCEPT !.status = "PartiallyFilled",
                                    !.remaining = maker.remaining - quantity]
  <2>1. /\ maker.remaining - quantity \in Int
        /\ 0 < maker.remaining - quantity /\ maker.remaining - quantity <= maker.remaining
    BY <1>4, <1>5, <1>9
  <2>2. /\ order \in NodeType
        /\ order.id = maker.id /\ order.side = maker.side /\ order.price = maker.price
        /\ order.quantity = maker.quantity /\ order.status = "PartiallyFilled"
        /\ order.remaining = maker.remaining - quantity
    BY <1>2, <2>1 DEF NodeType, Statuses
  <2>3. maker.quantity \in Int
    BY <1>2 DEF NodeType
  <2>4. nodes' = [nodes EXCEPT ![n] = order]
    BY <1>9
  <2> HIDE DEF order, quantity
  <2>5. \A s \in Sides : \A p \in Prices(s) : Fits(maker, s, p) => Fits(order, s, p)
    BY <1>4, <2>1, <2>2, <2>3 DEF Fits
  <2>6. BookInv
    BY DEF RefInv
  <2>7. /\ BookInv' /\ Linked' = Linked
        /\ \A s \in Sides : Prices(s)' = Prices(s) /\ Best(s)' = Best(s)
    BY <1>2, <1>3, <1>9, <2>2, <2>4, <2>5, <2>6, NodeEdited
  <2>8. Contra' = Contra /\ taker' = taker /\ pc' = pc
    BY <1>1 DEF argVars, Contra
  <2>9. Best(Contra)' = Best(Contra) /\ Prices(Contra)' = Prices(Contra)
    BY <1>2, <2>7, <2>8 DEF Best, Prices
  <2>10. NoneEmpty'
    BY <1>9, <2>7, <2>8, <2>9 DEF RefInv, NoneEmpty, Prices
  <2>11. /\ taker \in Orders /\ ~Malformed(taker) /\ left <= taker.quantity
         /\ (taker.type = "Limit" => Linked # Nodes) /\ Prices(Contra) # {}
    BY <1>1 DEF RefInv, CallInv
  <2>12. taker.quantity \in Int
    BY <2>11, OrdersAssumption DEF IncomingOrder
  <2>13. left' <= taker.quantity
    BY <1>4, <1>6, <2>11, <2>12
  <2>14. CallInv'
    BY <1>6, <2>7, <2>8, <2>9, <2>11, <2>13 DEF CallInv, Malformed
  <2> QED
    BY <2>7, <2>10, <2>14 DEF RefInv
<1> QED
  BY <1>7, <1>8, <1>9
LEMMA BeginLevelKeeps ==
  ASSUME RefInv, BeginLevel
  PROVE  RefInv'
<1>1. pc = "match" /\ pc' = "level" /\ CanMatch /\ UNCHANGED <<bookVars, argVars, left>>
  BY DEF BeginLevel
<1>2. BookInv' /\ NoneEmpty' /\ Linked' = Linked
  BY <1>1, BookStays
<1>3. Contra' = Contra /\ Prices(Contra)' = Prices(Contra) /\ Prices(Contra) # {}
  BY <1>1 DEF argVars, bookVars, Contra, Prices, CanMatch
<1>4. CallInv'
  BY <1>1, <1>2, <1>3 DEF RefInv, CallInv, argVars, Malformed
<1> QED
  BY <1>2, <1>4 DEF RefInv

LEMMA EndLevelKeeps ==
  ASSUME RefInv, EndLevel
  PROVE  RefInv'
<1> DEFINE c == Contra
           b == Best(Contra)
           empty == lists[c][b] = << >>
<1>1. /\ pc = "level" /\ pc' = "match" /\ ~MoreAtLevel /\ EraseEmptyLevel(c, b)
      /\ UNCHANGED <<nodes, orderMap, argVars, left>>
  BY DEF EndLevel
<1>2. /\ BookTypeOK /\ Bounded /\ Filed /\ Uncrossed /\ MapNeverDangles
      /\ c \in Sides /\ b \in Prices(c)
  BY <1>1, LevelIsThere DEF RefInv, BookInv
<1>3. lists' = [lists EXCEPT ![c] = IF empty THEN [q \in Prices(c) \ {b} |-> lists[c][q]] ELSE @]
  BY <1>1 DEF EraseEmptyLevel
<1>4. NoneEmpty /\ CallInv
  BY DEF RefInv
<1> HIDE DEF c, b
<1>5. /\ DOMAIN lists' = Sides
      /\ \A s \in Sides : DOMAIN lists'[s] = IF s = c /\ empty THEN Prices(c) \ {b} ELSE Prices(s)
      /\ \A s \in Sides : \A p \in DOMAIN lists'[s] : lists'[s][p] = lists[s][p]
  BY <1>2, <1>3 DEF BookTypeOK, Prices
<1>6. \A s \in Sides : Prices(s)' \subseteq Prices(s) /\ \A p \in Prices(s)' : lists'[s][p] = lists[s][p]
  BY <1>5 DEF Prices
<1>7. ASSUME NEW s \in Sides, NEW p \in Prices(s), lists[s][p] # << >>
      PROVE  p \in Prices(s)'
  BY <1>5, <1>7 DEF Prices
<1>8. \A s \in Sides : \A p \in Prices(s)' : lists'[s][p] # << >>
  <2> SUFFICES ASSUME NEW s \in Sides, NEW p \in Prices(s)', lists'[s][p] = << >>
               PROVE  FALSE
    OBVIOUS
  <2>1. p \in Prices(s) /\ lists[s][p] = << >>
    BY <1>6
  <2>2. s = c /\ p = b
    BY <1>4, <2>1 DEF NoneEmpty, c, b
  <2>3. p \notin Prices(s)'
    BY <1>5, <2>1, <2>2 DEF Prices
  <2> QED
    BY <2>3
<1>9. \A m : InList(m)' <=> InList(m)
  <2> TAKE m
  <2>1. ASSUME InList(m)' PROVE InList(m)
    <3>0. PICK s \in Sides : \E p \in Prices(s)' : \E k \in DOMAIN lists'[s][p] : lists'[s][p][k] = m
      BY <2>1 DEF InList
    <3>1. PICK p \in Prices(s)' : \E k \in DOMAIN lists'[s][p] : lists'[s][p][k] = m
      BY <3>0
    <3> QED
      BY <1>6, <3>1 DEF InList
  <2>2. ASSUME InList(m) PROVE InList(m)'
    <3>0. PICK s \in Sides : \E p \in Prices(s) : \E k \in DOMAIN lists[s][p] : lists[s][p][k] = m
      BY <2>2 DEF InList
    <3>1. PICK p \in Prices(s) : \E k \in DOMAIN lists[s][p] : lists[s][p][k] = m
      BY <3>0
    <3>2. lists[s][p] # << >>
      BY <3>1
    <3>3. p \in Prices(s)' /\ lists'[s][p] = lists[s][p]
      BY <1>6, <1>7, <3>2
    <3> QED
      BY <3>1, <3>3 DEF InList
  <2> QED
    BY <2>1, <2>2
<1>10. Linked' = Linked /\ Resting' = Resting
  BY <1>1, <1>9 DEF Linked, Resting
<1>11. BookTypeOK'
  <2>1. \A s \in Sides : Prices(s)' \subseteq Int /\ \A p \in Prices(s)' : lists'[s][p] \in Seq(Nodes)
    BY <1>2, <1>6 DEF BookTypeOK
  <2> QED
    BY <1>1, <1>2, <1>5, <2>1 DEF BookTypeOK
<1>12. Bounded' /\ Uncrossed'
  BY <1>2, <1>6 DEF Bounded, Uncrossed, Sides
<1>13. Filed'
  BY <1>1, <1>2, <1>6 DEF Filed
<1>14. MapNeverDangles'
  BY <1>1, <1>2, <1>10 DEF MapNeverDangles
<1>15. NoneEmpty'
  BY <1>8 DEF NoneEmpty
<1>16. CallInv'
  BY <1>1, <1>4, <1>10 DEF CallInv, argVars, Malformed
<1> QED
  BY <1>11, <1>12, <1>13, <1>14, <1>15, <1>16 DEF RefInv, BookInv

\* The steps that leave the book alone, and are not in the loops.
LEMMA CallKeeps ==
  ASSUME RefInv,
         \/ \E o \in Orders : Accept(o) \/ Reject(o)
         \/ Conclude
         \/ \E id \in OrderIds : CancelUnknown(id)
         \/ Return
  PROVE  RefInv'
<1>1. CASE \E o \in Orders : Accept(o)
  <2>0. PICK o \in Orders : Accept(o)
    BY <1>1
  <2>1. /\ pc = "idle" /\ pc' = "match" /\ UNCHANGED bookVars
        /\ taker' = o /\ left' = o.quantity /\ ~Malformed(o)
        /\ o.type = "Limit" => Linked # Nodes
    BY <2>0 DEF Accept, Enter, EnterProcess, StartMatching
  <2>2. BookInv' /\ NoneEmpty' /\ Linked' = Linked
    BY <2>1, BookStays
  <2>3. o.quantity \in Nat /\ o.quantity <= o.quantity
    BY <2>1, OrdersAssumption DEF Malformed, IncomingOrder
  <2>4. CallInv'
    BY <2>1, <2>2, <2>3 DEF CallInv, Malformed
  <2> QED
    BY <2>2, <2>4 DEF RefInv
<1>2. ASSUME pc # "level", pc' \notin {"match", "level"}, UNCHANGED bookVars
      PROVE  RefInv'
  <2>1. BookInv' /\ NoneEmpty'
    BY <1>2, BookStays
  <2> QED
    BY <1>2, <2>1 DEF RefInv, CallInv
<1>3. CASE \E o \in Orders : Reject(o)
  BY <1>2, <1>3 DEF Reject, Enter, EnterProcess, TurnAway
<1>4. CASE Conclude
  BY <1>2, <1>4 DEF Conclude, MatchOver, ReportTaker
<1>5. CASE \E id \in OrderIds : CancelUnknown(id)
  BY <1>2, <1>5 DEF CancelUnknown, EnterCancel
<1>6. CASE Return
  BY <1>2, <1>6 DEF Return, EndCall
<1> QED
  BY <1>1, <1>3, <1>4, <1>5, <1>6

LEMMA CancelKeeps ==
  ASSUME RefInv, NEW id \in OrderIds, CancelKnown(id)
  PROVE  RefInv'
<1> DEFINE n == orderMap[id]
           order == [nodes[n] EXCEPT !.status = "Cancelled"]
<1>1. /\ pc = "idle" /\ pc' = "done" /\ n # NoNode /\ UNCHANGED lists
      /\ nodes' = [nodes EXCEPT ![n].status = "Cancelled"]
      /\ orderMap' = [orderMap EXCEPT ![id] = NoNode]
  BY DEF CancelKnown, EnterCancel, Forget
<1>2. BookInv /\ BookTypeOK /\ MapNeverDangles /\ NoneEmpty
  BY DEF RefInv, BookInv
<1>3. n \in Nodes /\ nodes[n].id = id
  BY <1>1, <1>2 DEF MapNeverDangles, Resting, Linked
<1>4. nodes[n] \in NodeType
  BY <1>2, <1>3 DEF BookTypeOK
<1>5. /\ order \in NodeType
      /\ order.id = nodes[n].id /\ order.side = nodes[n].side /\ order.price = nodes[n].price
      /\ order.quantity = nodes[n].quantity /\ order.remaining = nodes[n].remaining
      /\ order.status = "Cancelled"
  BY <1>4 DEF NodeType, Statuses
<1>6. nodes' = [nodes EXCEPT ![n] = order]
  BY <1>1
<1>7. orderMap \in [OrderIds -> Nodes \cup {NoNode}] /\ orderMap' \in [OrderIds -> Nodes \cup {NoNode}]
  BY <1>1, <1>2 DEF BookTypeOK
<1>8. \A i \in OrderIds : orderMap'[i] # NoNode => orderMap'[i] = orderMap[i] /\ orderMap[i] # n
  <2> SUFFICES ASSUME NEW i \in OrderIds, orderMap'[i] # NoNode
               PROVE  orderMap'[i] = orderMap[i] /\ orderMap[i] # n
    OBVIOUS
  <2>1. i # id /\ orderMap'[i] = orderMap[i]
    BY <1>1, <1>7
  <2>2. nodes[orderMap[i]].id = i
    BY <1>2, <2>1 DEF MapNeverDangles
  <2> QED
    BY <1>3, <2>1, <2>2
<1> HIDE DEF n, order
<1>9. \A s \in Sides : \A p \in Prices(s) : Fits(nodes[n], s, p) => Fits(order, s, p)
  BY <1>5 DEF Fits
<1>10. BookInv'
  BY <1>1, <1>2, <1>3, <1>5, <1>6, <1>7, <1>8, <1>9, NodeEdited
<1>11. NoneEmpty' /\ CallInv'
  BY <1>1, <1>2 DEF NoneEmpty, CallInv, Prices
<1> QED
  BY <1>10, <1>11 DEF RefInv
\* A node that is not in use goes to the back of a list.
LEMMA PushedBack ==
  ASSUME NEW S, NEW q \in Seq(S), IsInjective(q), NEW n \in S, \A k \in DOMAIN q : q[k] # n
  PROVE  LET longer == PushBack(n, q) IN
         /\ longer \in Seq(S) /\ longer # << >> /\ IsInjective(longer)
         /\ \A k \in DOMAIN longer : longer[k] = n \/ (k \in DOMAIN q /\ longer[k] = q[k])
         /\ \A k \in DOMAIN q : k \in DOMAIN longer /\ longer[k] = q[k]
         /\ \E k \in DOMAIN longer : longer[k] = n
<1> DEFINE longer == Append(q, n)
<1>1. /\ longer \in Seq(S) /\ longer # << >>
      /\ Len(longer) = Len(q) + 1
      /\ \A i \in 1 .. Len(q) : longer[i] = q[i]
      /\ longer[Len(q) + 1] = n
  BY AppendProperties
<1>2. Len(q) \in Nat /\ DOMAIN q = 1 .. Len(q) /\ DOMAIN longer = 1 .. Len(q) + 1
  BY <1>1
<1> HIDE DEF longer
<1>3. \A k \in DOMAIN longer : k = Len(q) + 1 \/ (k \in DOMAIN q /\ longer[k] = q[k])
  BY <1>1, <1>2
<1>4. IsInjective(longer)
  BY <1>1, <1>2, <1>3 DEF IsInjective
<1>5. Len(q) + 1 \in DOMAIN longer /\ \A k \in DOMAIN q : k \in DOMAIN longer
  BY <1>2
<1> QED
  BY <1>1, <1>2, <1>3, <1>4, <1>5 DEF PushBack, longer

LEMMA FreeNode ==
  ASSUME Linked # Nodes
  PROVE  Min(Nodes \ Linked) \in Nodes /\ ~InList(Min(Nodes \ Linked))
<1>1. Nodes \ Linked \in SUBSET Int /\ Nodes \ Linked # {} /\ MaxNodes \in Nat
      /\ \A x \in Nodes \ Linked : -MaxNodes <= x /\ x <= MaxNodes
  BY MaxNodesAssumption DEF Nodes, Linked
<1>2. Min(Nodes \ Linked) \in Nodes \ Linked
  BY <1>1, BoundedMin
<1> QED
  BY <1>2 DEF Linked

\* What rests does not cross the other side: the loop has been through that.
LEMMA RestsShort ==
  ASSUME BookInv, CallInv, MatchOver, ShouldRest
  PROVE  /\ taker \in Orders /\ taker.side \in Sides /\ taker.price \in Int
         /\ \A p \in Prices(Contra) :
              /\ taker.side = "Buy" => taker.price < p
              /\ taker.side = "Sell" => p < taker.price
<1>1. taker \in Orders /\ taker.side \in Sides /\ taker.price \in Int /\ left > 0 /\ taker.type = "Limit"
  BY OrdersAssumption DEF CallInv, MatchOver, ShouldRest, IncomingOrder
<1>2. BookTypeOK /\ Bounded
  BY DEF BookInv
<1>3. Contra \in Sides /\ (taker.side = "Buy" => Contra = "Sell") /\ (taker.side = "Sell" => Contra = "Buy")
  BY <1>1 DEF Contra, Opposite, Sides
<1>4. SUFFICES ASSUME NEW p \in Prices(Contra)
               PROVE  /\ taker.side = "Buy" => taker.price < p
                      /\ taker.side = "Sell" => p < taker.price
  BY <1>1
<1>5. /\ Best(Contra) \in Prices(Contra)
      /\ Contra = "Buy" => p <= Best(Contra)
      /\ Contra = "Sell" => Best(Contra) <= p
  BY <1>2, <1>3, BestIsBest
<1>6. p \in Int /\ Best(Contra) \in Int
  BY <1>2, <1>3, <1>5 DEF BookTypeOK
<1>7. ~Crosses(taker, Best(Contra))
  BY <1>1 DEF MatchOver, CanMatch
<1> QED
  BY <1>1, <1>3, <1>5, <1>6, <1>7 DEF Crosses

LEMMA InsertKeeps ==
  ASSUME RefInv, MatchOver, ShouldRest, pc' = "done",
         NEW n \in Nodes, ~InList(n), InsertOrder(n)
  PROVE  RefInv'
<1> DEFINE c == taker.side
           P == taker.price
           queue == IF P \in Prices(c) THEN lists[c][P] ELSE << >>
           longer == PushBack(n, queue)
           order == [id |-> taker.id, side |-> c, price |-> P, quantity |-> taker.quantity,
                     remaining |-> left, status |-> "Resting"]
<1>1. pc = "match"
  BY DEF MatchOver
<1>2. /\ BookInv /\ CallInv /\ NoneEmpty
      /\ BookTypeOK /\ Bounded /\ Filed /\ Uncrossed /\ MapNeverDangles
  BY DEF RefInv, BookInv
<1>3. /\ taker \in Orders /\ c \in Sides /\ P \in Int
      /\ \A p \in Prices(Contra) :
           /\ c = "Buy" => P < p
           /\ c = "Sell" => p < P
  BY <1>1, <1>2, RestsShort
<1>4. /\ left \in Nat /\ left > 0 /\ left <= taker.quantity /\ taker.quantity \in Int
      /\ taker.id \in Nat /\ taker.id \in OrderIds
  BY <1>1, <1>2, OrdersAssumption DEF CallInv, ShouldRest, IncomingOrder, OrderIds
<1>5. n \in Nodes /\ ~InList(n)
  OBVIOUS
<1>6. /\ lists' = [lists EXCEPT ![c] = [p \in Prices(c) \cup {P} |-> IF p = P THEN longer ELSE lists[c][p]]]
      /\ nodes' = [nodes EXCEPT ![n] = order]
      /\ orderMap' = [orderMap EXCEPT ![taker.id] = n]
  BY DEF InsertOrder
<1>7. queue \in Seq(Nodes) /\ IsInjective(queue) /\ \A k \in DOMAIN queue : queue[k] # n
  <2>1. CASE P \in Prices(c)
    BY <1>2, <1>3, <1>5, <2>1 DEF BookTypeOK, Filed, InList
  <2>2. CASE P \notin Prices(c)
    <3>1. queue = << >>
      BY <2>2
    <3>2. << >> \in Seq(Nodes) /\ DOMAIN << >> = {}
      OBVIOUS
    <3> QED
      BY <3>1, <3>2 DEF IsInjective
  <2> QED
    BY <2>1, <2>2
<1> HIDE DEF queue
<1>8. /\ longer \in Seq(Nodes) /\ longer # << >> /\ IsInjective(longer)
      /\ \A k \in DOMAIN longer : longer[k] = n \/ (k \in DOMAIN queue /\ longer[k] = queue[k])
      /\ \A k \in DOMAIN queue : k \in DOMAIN longer /\ longer[k] = queue[k]
      /\ \E k \in DOMAIN longer : longer[k] = n
  <2> HIDE DEF longer
  <2>1. longer = PushBack(n, queue)
    BY DEF longer
  <2> QED
    BY <1>5, <1>7, <2>1, PushedBack
<1>9. /\ order \in NodeType /\ Fits(order, c, P)
      /\ order.id = taker.id /\ order.status = "Resting"
  BY <1>3, <1>4 DEF NodeType, Fits, Statuses
<1> HIDE DEF c, P, longer, order
<1>10. /\ DOMAIN lists' = Sides
       /\ \A s \in Sides : DOMAIN lists'[s] = IF s = c THEN Prices(s) \cup {P} ELSE Prices(s)
       /\ \A s \in Sides : \A p \in DOMAIN lists'[s] :
            lists'[s][p] = IF s = c /\ p = P THEN longer ELSE lists[s][p]
  BY <1>2, <1>3, <1>6 DEF BookTypeOK, Prices
<1>11. /\ \A s \in Sides : Prices(s)' = IF s = c THEN Prices(s) \cup {P} ELSE Prices(s)
       /\ \A s \in Sides : \A p \in Prices(s)' :
            lists'[s][p] = IF s = c /\ p = P THEN longer ELSE lists[s][p]
  BY <1>10 DEF Prices
<1>12. \A s \in Sides : \A p \in Prices(s)' : ~(s = c /\ p = P) => p \in Prices(s)
  BY <1>11
<1>13. \A m \in Nodes : nodes'[m] = IF m = n THEN order ELSE nodes[m]
  BY <1>2, <1>5, <1>6 DEF BookTypeOK
<1>14. BookTypeOK'
  <2>1. nodes' \in [Nodes -> NodeType] /\ orderMap' \in [OrderIds -> Nodes \cup {NoNode}]
    BY <1>2, <1>4, <1>5, <1>6, <1>9 DEF BookTypeOK
  <2>2. \A s \in Sides : Prices(s)' \subseteq Int
    BY <1>2, <1>3, <1>11 DEF BookTypeOK
  <2>3. \A s \in Sides : \A p \in Prices(s)' : lists'[s][p] \in Seq(Nodes)
    BY <1>2, <1>8, <1>11, <1>12 DEF BookTypeOK
  <2> QED
    BY <1>10, <2>1, <2>2, <2>3 DEF BookTypeOK
<1>15. Bounded'
  <2>1. PICK b \in Nat : \A s \in Sides : \A p \in Prices(s) : -b <= p /\ p <= b
    BY <1>2 DEF Bounded
  <2>2. PICK d \in Nat : b <= d /\ -d <= P /\ P <= d
    <3>1. CASE P >= 0
      <4>1. b + P \in Nat /\ b <= b + P /\ -(b + P) <= P /\ P <= b + P
        BY <1>3, <3>1
      <4> QED
        BY <4>1
    <3>2. CASE P < 0
      <4>1. b - P \in Nat /\ b <= b - P /\ -(b - P) <= P /\ P <= b - P
        BY <1>3, <3>2
      <4> QED
        BY <4>1
    <3> QED
      BY <1>3, <3>1, <3>2
  <2>3. ASSUME NEW s \in Sides, NEW p \in Prices(s)'
        PROVE  -d <= p /\ p <= d
    <3>1. CASE p = P
      BY <2>2, <3>1
    <3>2. CASE p # P
      <4>1. p \in Prices(s) /\ p \in Int
        BY <1>2, <1>12, <3>2 DEF BookTypeOK
      <4>2. -b <= p /\ p <= b
        BY <2>1, <4>1
      <4> QED
        BY <2>2, <4>1, <4>2
    <3> QED
      BY <3>1, <3>2
  <2> QED
    BY <2>3 DEF Bounded
<1>16. Filed'
  <2> SUFFICES ASSUME NEW s \in Sides, NEW p \in Prices(s)'
               PROVE  /\ IsInjective(lists'[s][p])
                      /\ \A k \in DOMAIN lists'[s][p] : Fits(nodes'[lists'[s][p][k]], s, p)
    BY DEF Filed
  <2>1. ASSUME NEW q \in Prices(s), NEW k \in DOMAIN lists[s][q]
        PROVE  Fits(nodes'[lists[s][q][k]], s, q)
    <3>1. lists[s][q][k] \in Nodes /\ InList(lists[s][q][k]) /\ Fits(nodes[lists[s][q][k]], s, q)
      BY <1>2, ListedIsNode DEF Filed
    <3> QED
      BY <1>5, <1>13, <3>1
  <2>2. CASE s = c /\ p = P
    <3>1. lists'[s][p] = longer
      BY <1>11, <2>2
    <3>2. ASSUME NEW k \in DOMAIN longer
          PROVE  Fits(nodes'[longer[k]], s, p)
      <4>1. CASE longer[k] = n
        BY <1>5, <1>9, <1>13, <2>2, <4>1
      <4>2. CASE k \in DOMAIN queue /\ longer[k] = queue[k]
        <5>1. p \in Prices(s) /\ queue = lists[s][p]
          BY <2>2, <4>2 DEF queue, c, P
        <5> QED
          BY <2>1, <4>2, <5>1
      <4> QED
        BY <1>8, <4>1, <4>2
    <3> QED
      BY <1>8, <3>1, <3>2
  <2>3. CASE ~(s = c /\ p = P)
    <3>1. p \in Prices(s) /\ lists'[s][p] = lists[s][p]
      BY <1>11, <1>12, <2>3
    <3> QED
      BY <1>2, <2>1, <3>1 DEF Filed
  <2> QED
    BY <2>2, <2>3
<1>17. Uncrossed'
  <2> SUFFICES ASSUME NEW bid \in Prices("Buy")', NEW ask \in Prices("Sell")'
               PROVE  bid < ask
    BY DEF Uncrossed
  <2>1. CASE c = "Buy"
    <3>1. Contra = "Sell" /\ ask \in Prices("Sell") /\ (bid = P \/ bid \in Prices("Buy"))
      BY <1>11, <2>1 DEF c, Contra, Opposite, Sides
    <3> QED
      BY <1>2, <1>3, <2>1, <3>1 DEF Uncrossed
  <2>2. CASE c = "Sell"
    <3>1. Contra = "Buy" /\ bid \in Prices("Buy") /\ (ask = P \/ ask \in Prices("Sell"))
      BY <1>11, <2>2 DEF c, Contra, Opposite, Sides
    <3> QED
      BY <1>2, <1>3, <2>2, <3>1 DEF Uncrossed
  <2> QED
    BY <1>3, <2>1, <2>2 DEF Sides
<1>18. \A m : InList(m) => InList(m)'
  <2> SUFFICES ASSUME NEW m, InList(m) PROVE InList(m)'
    OBVIOUS
  <2>1. PICK s \in Sides : \E p \in Prices(s) : \E k \in DOMAIN lists[s][p] : lists[s][p][k] = m
    BY DEF InList
  <2>2. PICK p \in Prices(s) : \E k \in DOMAIN lists[s][p] : lists[s][p][k] = m
    BY <2>1
  <2>3. p \in Prices(s)'
    BY <1>11
  <2>4. \E k \in DOMAIN lists'[s][p] : lists'[s][p][k] = m
    <3>1. CASE s = c /\ p = P
      <4>1. lists'[s][p] = longer /\ queue = lists[s][p]
        BY <1>11, <2>3, <3>1 DEF queue, c, P
      <4> QED
        BY <1>8, <2>2, <4>1
    <3>2. CASE ~(s = c /\ p = P)
      BY <1>11, <2>2, <2>3, <3>2
    <3> QED
      BY <3>1, <3>2
  <2> QED
    BY <2>3, <2>4 DEF InList
<1>19. InList(n)'
  <2>1. c \in Sides /\ P \in DOMAIN lists'[c] /\ lists'[c][P] = longer
    BY <1>3, <1>10
  <2> QED
    BY <1>8, <2>1 DEF InList, Prices
<1>20. MapNeverDangles'
  <2> SUFFICES ASSUME NEW id \in OrderIds, orderMap'[id] # NoNode
               PROVE  orderMap'[id] \in Resting' /\ nodes'[orderMap'[id]].id = id
    BY DEF MapNeverDangles
  <2>1. CASE id = taker.id
    <3>1. orderMap'[id] = n /\ nodes'[n] = order
      BY <1>2, <1>4, <1>5, <1>6, <1>13, <2>1 DEF BookTypeOK
    <3> QED
      BY <1>5, <1>9, <1>19, <2>1, <3>1 DEF Resting, Linked
  <2>2. CASE id # taker.id
    <3>0. PICK m : m = orderMap[id]
      OBVIOUS
    <3>1. orderMap'[id] = m
      BY <1>2, <1>6, <2>2, <3>0 DEF BookTypeOK
    <3>2. m \in Nodes /\ InList(m) /\ nodes[m].status # "Cancelled" /\ nodes[m].id = id
      BY <1>2, <3>0, <3>1 DEF MapNeverDangles, Resting, Linked
    <3>3. nodes'[m] = nodes[m] /\ InList(m)'
      BY <1>5, <1>13, <1>18, <3>2
    <3> QED
      BY <3>1, <3>2, <3>3 DEF Resting, Linked
  <2> QED
    BY <2>1, <2>2
<1>21. NoneEmpty'
  <2> SUFFICES ASSUME NEW s \in Sides, NEW p \in Prices(s)', lists'[s][p] = << >>
               PROVE  FALSE
    BY DEF NoneEmpty
  <2>1. p \in Prices(s) /\ lists[s][p] = << >>
    BY <1>8, <1>11, <1>12
  <2> QED
    BY <1>1, <1>2, <2>1 DEF NoneEmpty
<1>22. CallInv'
  BY <1>1 DEF CallInv
<1> QED
  BY <1>14, <1>15, <1>16, <1>17, <1>20, <1>21, <1>22 DEF RefInv, BookInv
LEMMA RestKeeps ==
  ASSUME RefInv, Rest
  PROVE  RefInv'
<1>1. MatchOver /\ ShouldRest /\ pc = "match" /\ pc' = "done" /\ InsertOrder(Min(Nodes \ Linked))
  BY DEF Rest, MatchOver, ReportTaker
<1>2. Linked # Nodes
  BY <1>1 DEF RefInv, CallInv, ShouldRest
<1>3. PICK n : n = Min(Nodes \ Linked)
  OBVIOUS
<1>4. n \in Nodes /\ ~InList(n) /\ InsertOrder(n)
  BY <1>1, <1>2, <1>3, FreeNode
<1> QED
  BY <1>1, <1>4, InsertKeeps
-----------------------------------------------------------------------------
(***************************************************************************)
(* The theorems.                                                           *)
(***************************************************************************)
LEMMA RefInvInit == Init => RefInv
<1> SUFFICES ASSUME Init PROVE RefInv
  OBVIOUS
<1>1. /\ lists = [side \in Sides |-> << >>] /\ nodes = [n \in Nodes |-> BlankNode]
      /\ orderMap = [id \in OrderIds |-> NoNode] /\ pc = "idle"
  BY DEF Init, NoCall
<1>2. \A side \in Sides : Prices(side) = {}
  <2>1. DOMAIN << >> = {}
    OBVIOUS
  <2> QED
    BY <1>1, <2>1 DEF Prices
<1>3. BlankNode \in NodeType
  BY DEF BlankNode, NodeType, Sides, Statuses
<1>4. BookTypeOK
  BY <1>1, <1>2, <1>3 DEF BookTypeOK
<1>5. Bounded
  BY <1>2 DEF Bounded
<1>6. Filed /\ NoneEmpty
  BY <1>2 DEF Filed, NoneEmpty
<1>7. Uncrossed
  BY <1>2 DEF Uncrossed, Sides
<1>8. MapNeverDangles
  BY <1>1 DEF MapNeverDangles
<1>9. CallInv
  BY <1>1 DEF CallInv
<1> QED
  BY <1>4, <1>5, <1>6, <1>7, <1>8, <1>9 DEF RefInv, BookInv

LEMMA RefInvStep == RefInv /\ [Next]_vars => RefInv'
<1> SUFFICES ASSUME RefInv, [Next]_vars PROVE RefInv'
  OBVIOUS
<1>1. CASE BeginLevel
  BY <1>1, BeginLevelKeeps
<1>2. CASE DropCancelled
  BY <1>2, DropCancelledKeeps
<1>3. CASE Fill
  BY <1>3, FillKeeps
<1>4. CASE EndLevel
  BY <1>4, EndLevelKeeps
<1>5. CASE Rest
  BY <1>5, RestKeeps
<1>6. CASE \E id \in OrderIds : CancelKnown(id)
  BY <1>6, CancelKeeps
<1>7. CASE \/ \E o \in Orders : Accept(o) \/ Reject(o)
           \/ Conclude
           \/ \E id \in OrderIds : CancelUnknown(id)
           \/ Return
  BY <1>7, CallKeeps
<1>8. CASE UNCHANGED vars
  <2>1. UNCHANGED <<lists, nodes, orderMap, taker, pc, left>>
    BY <1>8 DEF vars, bookVars, callVars, argVars
  <2>2. /\ BookTypeOK' /\ Bounded' /\ Filed' /\ Uncrossed'
        /\ Linked' = Linked /\ Resting' = Resting
    BY <2>1 DEF RefInv, BookInv, BookTypeOK, Bounded, Filed, Uncrossed, Prices, Linked, InList, Resting
  <2>3. MapNeverDangles'
    BY <2>1, <2>2 DEF RefInv, BookInv, MapNeverDangles
  <2>4. NoneEmpty' /\ CallInv'
    BY <2>1, <2>2 DEF RefInv, NoneEmpty, CallInv, Prices, Best, Contra, Malformed
  <2> QED
    BY <2>2, <2>3, <2>4 DEF RefInv, BookInv
<1> QED
  BY <1>1, <1>2, <1>3, <1>4, <1>5, <1>6, <1>7, <1>8 DEF Next, Match

\* The lists, the nodes, order_map_ and the call in progress stay in step.
THEOREM RefInvHolds == Spec => []RefInv
BY RefInvInit, RefInvStep, PTL DEF Spec

\* cancel_order never follows a pointer to a destroyed node, nor to one it has
\* cancelled before, however ids are reused.
THEOREM MapNeverDanglesHolds == Spec => []MapNeverDangles
<1>1. RefInv => MapNeverDangles
  BY DEF RefInv, BookInv
<1> QED
  BY <1>1, RefInvHolds, PTL

\* The best prices never cross, prices of cancelled orders included, at any step
\* of a call: the first check of verify_invariants cannot fail.
THEOREM NotCrossedHolds == Spec => []NotCrossed
<1>1. RefInv => NotCrossed
  <2> SUFFICES ASSUME RefInv, BestPrice("Buy") > 0, BestPrice("Sell") > 0
               PROVE  BestPrice("Buy") < BestPrice("Sell")
    BY DEF NotCrossed
  <2>1. BookTypeOK /\ Bounded /\ Uncrossed /\ "Buy" \in Sides /\ "Sell" \in Sides
    BY DEF RefInv, BookInv, Sides
  <2>2. Prices("Buy") # {} /\ Prices("Sell") # {}
    BY DEF BestPrice
  <2>3. Best("Buy") \in Prices("Buy") /\ Best("Sell") \in Prices("Sell")
    BY <2>1, <2>2, BestIsBest
  <2> QED
    BY <2>1, <2>2, <2>3 DEF BestPrice, Uncrossed
<1> QED
  BY <1>1, RefInvHolds, PTL

\* A price is in a map only with orders, but for the level the loop is emptying,
\* and every order in a list is on that side, at that price, and wants quantity.
THEOREM ListsConsistentHolds == Spec => []ListsConsistent
<1>1. RefInv => ListsConsistent
  BY DEF RefInv, BookInv, NoneEmpty, Filed, Fits, ListsConsistent
<1> QED
  BY <1>1, RefInvHolds, PTL

\* What is left of a taker when process_order is done crosses no price of the
\* other side, one of lingering cancelled orders neither.
THEOREM NoneLeftBehindHolds == Spec => []NoneLeftBehind
<1>1. Init => NoneLeftBehind
  BY DEF Init, NoCall, NoneLeftBehind
<1>2. RefInv /\ NoneLeftBehind /\ [Next]_vars => NoneLeftBehind'
  <2> SUFFICES ASSUME RefInv, NoneLeftBehind, [Next]_vars,
                      pc' = "done", op' = "process", ~Malformed(taker'), left' > 0
               PROVE  \A p \in Prices(Contra)' : ~Crosses(taker', p)
    BY DEF NoneLeftBehind, Malformed
  <2>1. CASE Conclude \/ Rest
    <3>1. MatchOver /\ taker' = taker /\ left' = left /\ Contra' = Contra
      BY <2>1 DEF Conclude, Rest, argVars, Contra
    <3>2. taker.side \in Sides /\ Contra \in Sides /\ Contra # taker.side
      BY <3>1, ContraIsSide DEF MatchOver, RefInv
    <3>3. Prices(Contra)' = Prices(Contra)
      <4>1. CASE Conclude
        BY <3>1, <4>1 DEF Conclude, bookVars, Prices
      <4>2. CASE Rest
        <5>1. \E S : lists' = [lists EXCEPT ![taker.side] = S]
          BY <4>2 DEF Rest, InsertOrder
        <5>2. lists'[Contra] = lists[Contra]
          BY <3>2, <5>1 DEF RefInv, BookInv, BookTypeOK
        <5> QED
          BY <3>1, <5>2 DEF Prices
      <4> QED
        BY <2>1, <4>1, <4>2
    <3>4. SUFFICES ASSUME NEW p \in Prices(Contra) PROVE ~Crosses(taker, p)
      BY <3>1, <3>3
    <3>5. /\ Best(Contra) \in Prices(Contra)
          /\ Contra = "Buy" => p <= Best(Contra)
          /\ Contra = "Sell" => Best(Contra) <= p
      BY <3>2, BestIsBest DEF RefInv, BookInv
    <3>6. ~Crosses(taker, Best(Contra))
      BY <3>1 DEF MatchOver, CanMatch
    <3>7. p \in Int /\ Best(Contra) \in Int /\ taker.price \in Int
      BY <3>1, <3>2, <3>5, OrdersAssumption DEF RefInv, BookInv, BookTypeOK, CallInv, MatchOver, IncomingOrder
    <3> QED
      BY <3>2, <3>5, <3>6, <3>7 DEF Crosses, Contra, Opposite, Sides
  <2>2. CASE UNCHANGED vars
    BY <2>2 DEF vars, bookVars, callVars, argVars, NoneLeftBehind, Contra, Prices, Malformed
  <2>3. CASE \E o \in Orders : Accept(o) \/ Reject(o)
    BY <2>3 DEF Accept, Reject, Enter, EnterProcess, StartMatching, Malformed
  <2>4. CASE Match
    BY <2>4 DEF Match, BeginLevel, DropCancelled, Fill, EndLevel, callVars
  <2>5. CASE \/ Return
             \/ \E id \in OrderIds : CancelUnknown(id) \/ CancelKnown(id)
    BY <2>5 DEF Return, EndCall, CancelUnknown, CancelKnown, EnterCancel
  <2> QED
    BY <2>1, <2>2, <2>3, <2>4, <2>5 DEF Next
<1> QED
  BY <1>1, <1>2, RefInvHolds, PTL DEF Spec
=============================================================================
