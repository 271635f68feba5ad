--------------------- MODULE MatchingEngineRefinementProofs ---------------------
(***************************************************************************)
(* MatchingEngine implements PriceTimeBook.                                *)
(*                                                                         *)
(* The abstract book of a state is its levels one after the other.  A step *)
(* of the engine changes one level, so what has to be shown is where in    *)
(* the whole that change appears.  The proof does not calculate with the   *)
(* concatenation: it shows that the whole is the only list that has the    *)
(* right slots in price-time order (OnlyOneList), and that the list with   *)
(* one slot taken out or put in is again in that order.                    *)
(***************************************************************************)
EXTENDS MatchingEngineRefinement, MatchingEngineProofs
-----------------------------------------------------------------------------
(***************************************************************************)
(* A side's levels one after the other.  Here `queues' of a side is a      *)
(* value qs and `price' gives the price of each slot, so that a fact holds *)
(* of the state before a step and of the state after it.                   *)
(***************************************************************************)
Rows(sd, qs) == [n \in 1 .. MaxLevels |-> qs[IF sd = "Buy" THEN MaxLevels - n ELSE n - 1]]

Flat(sd, qs) == FlattenSeq(Rows(sd, qs))

\* Each level holds slots of its own price, each once.
Proper(price, qs) ==
  /\ price \in [Slots -> Int]
  /\ qs \in [Levels -> Seq(Slots)]
  /\ \A i \in Levels : /\ IsInjective(qs[i])
                       /\ \A k \in DOMAIN qs[i] : price[qs[i][k]] = i

Stands(s, qs) == \E i \in Levels : \E k \in DOMAIN qs[i] : qs[i][k] = s

\* r trades before s.
Sooner(sd, price, qs, r, s) ==
  \/ sd = "Buy" /\ price[r] > price[s]
  \/ sd = "Sell" /\ price[r] < price[s]
  \/ price[r] = price[s] /\ Precedes(qs[price[r]], r, s)

Listed(s, list) == \E k \in DOMAIN list : list[k] = s

Sorted(list, sd, price, qs) ==
  \A j, k \in DOMAIN list : j < k => Sooner(sd, price, qs, list[j], list[k])

\* The list has the slots of the levels, the first to trade first.
InOrder(list, sd, price, qs) ==
  /\ list \in Seq(Slots)
  /\ \A s \in Slots : Listed(s, list) <=> Stands(s, qs)
  /\ Sorted(list, sd, price, qs)

\* Of two slots that stand on a side not both trade before the other.
LEMMA SoonerIsStrict ==
  ASSUME NEW sd \in Sides, NEW price, NEW qs, Proper(price, qs),
         NEW r \in Slots, NEW s \in Slots, Stands(r, qs), Sooner(sd, price, qs, r, s)
  PROVE  r # s /\ ~Sooner(sd, price, qs, s, r)
<1>1. price[r] \in Int /\ price[s] \in Int
  BY DEF Proper
<1>1a. price[r] \in Levels
  BY DEF Stands, Proper
<1>2. CASE price[r] = price[s] /\ Precedes(qs[price[r]], r, s)
  <2> DEFINE q == qs[price[r]]
  <2>1. PICK j, k \in DOMAIN q : j < k /\ q[j] = r /\ q[k] = s
    BY <1>2 DEF Precedes
  <2>2. r # s /\ ~Precedes(q, s, r)
    <3>1. q \in Seq(Slots) /\ IsInjective(q)
      BY <1>1a DEF Proper
    <3>2. j \in Nat /\ k \in Nat
      BY <2>1, <3>1, LenProperties
    <3>3. \A m, n \in DOMAIN q : q[m] = q[n] => m = n
      BY <3>1 DEF IsInjective
    <3> HIDE DEF q
    <3>4. r # s
      BY <2>1, <3>2, <3>3
    <3>5. ~Precedes(q, s, r)
      <4> SUFFICES ASSUME NEW m \in DOMAIN q, NEW n \in DOMAIN q, m < n, q[m] = s, q[n] = r
                   PROVE  FALSE
        BY DEF Precedes
      <4>1. m = k /\ n = j
        BY <2>1, <3>3
      <4> QED
        BY <2>1, <3>2, <4>1
    <3> QED
      BY <3>4, <3>5
  <2> QED
    BY <1>1, <1>2, <2>2 DEF Sooner
<1>3. CASE price[r] # price[s]
  BY <1>1, <1>3 DEF Sooner, Sides
<1> QED
  BY <1>2, <1>3, <1>1 DEF Sooner, Sides

\* So the list is the only one: lists of the same slots in order are the same.
LEMMA OneIsPartOfOther ==
  ASSUME NEW sd \in Sides, NEW price, NEW qs, Proper(price, qs),
         NEW p, InOrder(p, sd, price, qs), NEW q, InOrder(q, sd, price, qs)
  PROVE  \A n \in DOMAIN p : n \in DOMAIN q /\ q[n] = p[n]
<1> DEFINE Differs == {n \in DOMAIN p : ~(n \in DOMAIN q /\ q[n] = p[n])}
<1>1. /\ p \in Seq(Slots) /\ Len(p) \in Nat /\ DOMAIN p = 1 .. Len(p)
      /\ q \in Seq(Slots) /\ Len(q) \in Nat /\ DOMAIN q = 1 .. Len(q)
      /\ \A k \in DOMAIN p : p[k] \in Slots
      /\ \A k \in DOMAIN q : q[k] \in Slots
  BY LenProperties, ElementOfSeq DEF InOrder
<1>2. /\ \A k \in DOMAIN p : Stands(p[k], qs) /\ \E m \in DOMAIN q : q[m] = p[k]
      /\ \A k \in DOMAIN q : Stands(q[k], qs) /\ \E m \in DOMAIN p : p[m] = q[k]
  BY <1>1 DEF InOrder, Listed
<1>3. /\ \A j, k \in DOMAIN p : j < k => Sooner(sd, price, qs, p[j], p[k])
      /\ \A j, k \in DOMAIN q : j < k => Sooner(sd, price, qs, q[j], q[k])
  BY DEF InOrder, Sorted
<1>4. \A r, s \in Slots : Stands(r, qs) /\ Sooner(sd, price, qs, r, s)
                            => r # s /\ ~Sooner(sd, price, qs, s, r)
  BY SoonerIsStrict
<1>5. SUFFICES ASSUME Differs # {}
               PROVE  FALSE
  OBVIOUS
<1>6. PICK n \in Differs : \A m \in Differs : n <= m
  <2>1. Differs \in SUBSET Nat
    BY <1>1
  <2> HIDE DEF Differs
  <2> QED
    BY <1>5, <2>1, LeastNatural
<1>7. \A m \in DOMAIN p : m < n => m \in DOMAIN q /\ q[m] = p[m]
  BY <1>1, <1>6
<1>8. n \in DOMAIN p /\ ~(n \in DOMAIN q /\ q[n] = p[n])
  OBVIOUS
<1>9. PICK m \in DOMAIN q : q[m] = p[n]
  BY <1>2, <1>8
<1> HIDE DEF Differs
<1>10. ~(m < n)
  <2> SUFFICES ASSUME m < n
               PROVE  FALSE
    OBVIOUS
  <2>1. m \in DOMAIN p /\ p[m] = p[n]
    BY <1>1, <1>7, <1>8, <1>9
  <2> QED
    BY <2>1, <1>1, <1>2, <1>3, <1>4, <1>8
<1>11. n \in DOMAIN q /\ n < m
  BY <1>1, <1>8, <1>9, <1>10
<1>12. Sooner(sd, price, qs, q[n], p[n])
  BY <1>3, <1>9, <1>11
<1>13. PICK l \in DOMAIN p : p[l] = q[n]
  BY <1>2, <1>11
<1>14. ~(l < n)
  <2> SUFFICES ASSUME l < n
               PROVE  FALSE
    OBVIOUS
  <2>1. l \in DOMAIN q /\ q[l] = q[n]
    BY <1>7, <1>13
  <2> QED
    BY <2>1, <1>1, <1>2, <1>3, <1>4, <1>11
<1>15. n < l
  BY <1>1, <1>8, <1>11, <1>13, <1>14
<1>16. Sooner(sd, price, qs, p[n], q[n])
  BY <1>3, <1>8, <1>13, <1>15
<1> QED
  BY <1>1, <1>2, <1>4, <1>8, <1>11, <1>12, <1>16

LEMMA OnlyOneList ==
  ASSUME NEW sd \in Sides, NEW price, NEW qs, Proper(price, qs),
         NEW p, InOrder(p, sd, price, qs), NEW q, InOrder(q, sd, price, qs)
  PROVE  p = q
<1>1. /\ \A n \in DOMAIN p : n \in DOMAIN q /\ q[n] = p[n]
      /\ \A n \in DOMAIN q : n \in DOMAIN p /\ p[n] = q[n]
  BY OneIsPartOfOther
<1>2. /\ p \in Seq(Slots) /\ Len(p) \in Nat /\ DOMAIN p = 1 .. Len(p)
      /\ q \in Seq(Slots) /\ Len(q) \in Nat /\ DOMAIN q = 1 .. Len(q)
  BY LenProperties DEF InOrder
<1>3. Len(p) = Len(q)
  <2>1. Len(p) \in Nat /\ Len(q) \in Nat
    BY <1>2
  <2>2. \A n \in 1 .. Len(p) : n \in 1 .. Len(q)
    BY <1>1, <1>2
  <2>3. \A n \in 1 .. Len(q) : n \in 1 .. Len(p)
    BY <1>1, <1>2
  <2>4. \A m, n \in Nat : (\A k \in 1 .. m : k \in 1 .. n) => m <= n
    <3> SUFFICES ASSUME NEW m \in Nat, NEW n \in Nat, \A k \in 1 .. m : k \in 1 .. n, m > n
                 PROVE  FALSE
      OBVIOUS
    <3>1. m \in 1 .. m
      OBVIOUS
    <3> QED
      BY <3>1
  <2>5. Len(p) <= Len(q) /\ Len(q) <= Len(p)
    BY ONLY <2>1, <2>2, <2>3, <2>4
  <2> QED
    BY ONLY <2>1, <2>5
<1> QED
  BY <1>1, <1>2, <1>3, SeqEqual

LEMMA RowsProperties ==
  ASSUME NEW sd \in Sides, NEW qs \in [Levels -> Seq(Slots)]
  PROVE  /\ Len(Rows(sd, qs)) = MaxLevels /\ MaxLevels \in Nat \ {0}
         /\ \A n \in 1 .. MaxLevels :
              LET i == IF sd = "Buy" THEN MaxLevels - n ELSE n - 1 IN
              i \in Levels /\ Rows(sd, qs)[n] = qs[i] /\ qs[i] \in Seq(Slots)
         /\ \A i \in Levels : \E n \in 1 .. MaxLevels :
              i = IF sd = "Buy" THEN MaxLevels - n ELSE n - 1
<1>1. MaxLevels \in Nat \ {0} /\ Levels = 0 .. MaxLevels - 1
  BY BitsetAssumption DEF Levels
<1>2. \A n \in 1 .. MaxLevels : MaxLevels - n \in Levels /\ n - 1 \in Levels
  BY <1>1
<1>3. Len(Rows(sd, qs)) = MaxLevels
  <2>1. Rows(sd, qs) \in Seq(Seq(Slots)) /\ Len(Rows(sd, qs)) = MaxLevels
    <3> DEFINE e(n) == qs[IF sd = "Buy" THEN MaxLevels - n ELSE n - 1]
    <3>1. \A n \in 1 .. MaxLevels : e(n) \in Seq(Slots)
      BY <1>2
    <3> HIDE DEF e
    <3>2. [n \in 1 .. MaxLevels |-> e(n)] \in Seq(Seq(Slots))
      BY <1>1, <3>1
    <3>3. Len([n \in 1 .. MaxLevels |-> e(n)]) = MaxLevels
      BY <1>1, <3>2, LenProperties
    <3> QED
      BY <3>2, <3>3 DEF Rows, e
  <2> QED
    BY <2>1
<1>4. ASSUME NEW i \in Levels
      PROVE  \E n \in 1 .. MaxLevels : i = IF sd = "Buy" THEN MaxLevels - n ELSE n - 1
  <2>1. MaxLevels - i \in 1 .. MaxLevels /\ i + 1 \in 1 .. MaxLevels
        /\ i = MaxLevels - (MaxLevels - i) /\ i = (i + 1) - 1
    BY <1>1
  <2> QED
    BY <2>1
<1> QED
  BY <1>1, <1>2, <1>3, <1>4 DEF Rows

\* Flat takes the rows one after the other.
LEMMA FlatRuns ==
  ASSUME NEW sd \in Sides, NEW qs \in [Levels -> Seq(Slots)]
  PROVE  \E g \in [0 .. MaxLevels -> Seq(Slots)] :
           /\ g[0] = << >>
           /\ \A k \in 1 .. MaxLevels : g[k] = g[k - 1] \o Rows(sd, qs)[k]
           /\ Flat(sd, qs) = g[MaxLevels]
<1> DEFINE R == Rows(sd, qs)
           N == MaxLevels
           Flattens(f) == f = [i \in 1 .. Len(R) |-> IF i = 1 THEN R[i] ELSE f[i - 1] \o R[i]]
           flat == CHOOSE f : Flattens(f)
           step == [x \in Seq(Slots) \X Nat |-> IF x[2] \in 1 .. N THEN x[1] \o R[x[2]] ELSE x[1]]
<1>1. N \in Nat \ {0} /\ Len(R) = N /\ \A n \in 1 .. N : R[n] \in Seq(Slots)
  BY RowsProperties
<1>2. Flat(sd, qs) = flat[Len(R)]
  BY <1>1 DEF Flat, FlattenSeq
<1> HIDE DEF R, N
<1>3. step \in [Seq(Slots) \X Nat -> Seq(Slots)]
  <2>1. ASSUME NEW x \in Seq(Slots), NEW n \in 1 .. N
        PROVE  x \o R[n] \in Seq(Slots)
    BY <1>1, ConcatProperties
  <2>2. ASSUME NEW x \in Seq(Slots) \X Nat
        PROVE  (IF x[2] \in 1 .. N THEN x[1] \o R[x[2]] ELSE x[1]) \in Seq(Slots)
    <3>1. x[1] \in Seq(Slots)
      OBVIOUS
    <3> QED
      BY <2>1, <3>1
  <2> QED
    BY <2>2
<1>4. \A x \in Seq(Slots), k \in 1 .. N : step[<<x, k>>] = x \o R[k]
  <2> TAKE x \in Seq(Slots), k \in 1 .. N
  <2>1. k \in Nat
    BY <1>1
  <2>2. <<x, k>> \in Seq(Slots) \X Nat /\ <<x, k>>[1] = x /\ <<x, k>>[2] = k
    BY <2>1
  <2> DEFINE pair == <<x, k>>
  <2> HIDE DEF pair
  <2>3. step[pair] = IF pair[2] \in 1 .. N THEN pair[1] \o R[pair[2]] ELSE pair[1]
    BY <2>2 DEF pair
  <2> QED
    BY <2>2, <2>3 DEF pair
<1> HIDE DEF step
<1>5. PICK g \in [0 .. N -> Seq(Slots)] :
        g[0] = << >> /\ \A k \in 1 .. N : g[k] = step[<<g[k - 1], k>>]
  <2>1. << >> \in Seq(Slots)
    OBVIOUS
  <2>2. HasRun(Seq(Slots), << >>, step, N)
    BY ONLY <2>1, <1>1, <1>3, RecursionExists
  <2> QED
    BY <2>2 DEF HasRun
<1>6. \A k \in 1 .. N : g[k] = g[k - 1] \o R[k] /\ g[k - 1] \in Seq(Slots)
  <2> TAKE k \in 1 .. N
  <2>1. k - 1 \in 0 .. N /\ g[k - 1] \in Seq(Slots)
    BY <1>1
  <2> QED
    BY <2>1, <1>4, <1>5
<1>7. g[1] = R[1]
  <2>1. 1 \in 1 .. N /\ 1 - 1 = 0
    BY <1>1
  <2>2. g[1] = << >> \o R[1]
    BY <2>1, <1>5, <1>6
  <2> QED
    BY <2>1, <2>2, <1>1
<1> DEFINE c == [i \in 1 .. N |-> g[i]]
<1>8. c = [i \in 1 .. N |-> IF i = 1 THEN R[i] ELSE c[i - 1] \o R[i]]
  <2>1. \A i \in 1 .. N : i # 1 => i - 1 \in 1 .. N
    BY <1>1
  <2> QED
    BY <2>1, <1>6, <1>7
<1>9. Flattens(flat)
  <2>1. Flattens(c)
    BY <1>1, <1>8
  <2> QED
    BY <2>1
<1> HIDE DEF flat
<1>10. \A i \in 1 .. N : flat[i] = IF i = 1 THEN R[i] ELSE flat[i - 1] \o R[i]
  BY <1>1, <1>9
<1> DEFINE P == {n \in Nat : n \in 1 .. N => flat[n] = g[n]}
<1>11. 0 \in P
  BY <1>1
<1>12. \A n \in P : n + 1 \in P
  <2> SUFFICES ASSUME NEW n \in P, n + 1 \in 1 .. N
               PROVE  flat[n + 1] = g[n + 1]
    OBVIOUS
  <2>1. CASE n = 0
    BY <1>7, <1>10, <2>1
  <2>2. CASE n # 0
    <3>1. n \in 1 .. N /\ n + 1 # 1 /\ (n + 1) - 1 = n
      BY <1>1, <2>2
    <3>2. flat[n] = g[n]
      BY <3>1
    <3>3. g[n + 1] = g[n] \o R[n + 1]
      BY <3>1, <1>6
    <3>4. flat[n + 1] = flat[n] \o R[n + 1]
      BY <3>1, <1>10
    <3> QED
      BY <3>2, <3>3, <3>4
  <2> QED
    BY <2>1, <2>2
<1>13. P \in SUBSET Nat
  OBVIOUS
<1> HIDE DEF P
<1>14. \A n \in Nat : n \in P
  BY ONLY <1>11, <1>12, <1>13, SetInduction
<1>15. flat[N] = g[N]
  BY <1>1, <1>14 DEF P
<1> QED
  BY <1>1, <1>2, <1>5, <1>6, <1>15 DEF R, N

LEMMA ConcatParts ==
  ASSUME NEW S, NEW p \in Seq(S), NEW q \in Seq(S)
  PROVE  /\ p \o q \in Seq(S)
         /\ Len(p) \in Nat /\ Len(q) \in Nat
         /\ DOMAIN p = 1 .. Len(p) /\ DOMAIN q = 1 .. Len(q)
         /\ DOMAIN (p \o q) = 1 .. Len(p) + Len(q)
         /\ \A k \in 1 .. Len(p) : (p \o q)[k] = p[k]
         /\ \A k \in 1 .. Len(q) : (p \o q)[Len(p) + k] = q[k]
         /\ \A k \in 1 .. Len(p) + Len(q) :
              \/ k \in 1 .. Len(p)
              \/ k - Len(p) \in 1 .. Len(q) /\ k = Len(p) + (k - Len(p))
<1>1. /\ p \o q \in Seq(S) /\ Len(p \o q) = Len(p) + Len(q)
      /\ Len(p) \in Nat /\ Len(q) \in Nat
      /\ \A k \in 1 .. Len(p) + Len(q) : (p \o q)[k] = IF k <= Len(p) THEN p[k] ELSE q[k - Len(p)]
  BY ConcatProperties, LenProperties
<1> DEFINE m == Len(p)
           n == Len(q)
           r == p \o q
<1>2. /\ DOMAIN p = 1 .. m /\ DOMAIN q = 1 .. n /\ DOMAIN r = 1 .. Len(r)
  BY <1>1, LenProperties
<1> HIDE DEF m, n, r
<1>3. m \in Nat /\ n \in Nat /\ \A k \in 1 .. m + n : r[k] = IF k <= m THEN p[k] ELSE q[k - m]
  BY <1>1 DEF m, n, r
<1>4. \A k \in 1 .. m : r[k] = p[k]
  BY <1>3
<1>5. \A k \in 1 .. n : r[m + k] = q[k]
  <2> TAKE k \in 1 .. n
  <2>1. m + k \in 1 .. m + n /\ ~(m + k <= m) /\ (m + k) - m = k
    BY <1>3
  <2> QED
    BY <1>3, <2>1
<1>6. \A k \in 1 .. m + n : k \in 1 .. m \/ (k - m \in 1 .. n /\ k = m + (k - m))
  BY <1>3
<1> QED
  BY <1>1, <1>2, <1>4, <1>5, <1>6 DEF m, n, r

LEMMA ConcatLists ==
  ASSUME NEW S, NEW p \in Seq(S), NEW q \in Seq(S), NEW s
  PROVE  Listed(s, p \o q) <=> Listed(s, p) \/ Listed(s, q)
<1>1. ASSUME Listed(s, p \o q)
      PROVE  Listed(s, p) \/ Listed(s, q)
  <2>1. PICK k \in 1 .. Len(p) + Len(q) : (p \o q)[k] = s
    BY <1>1, ConcatParts DEF Listed
  <2>2. CASE k \in 1 .. Len(p)
    BY <2>1, <2>2, ConcatParts DEF Listed
  <2>3. CASE k \notin 1 .. Len(p)
    <3>1. k - Len(p) \in 1 .. Len(q) /\ k = Len(p) + (k - Len(p))
      BY <2>3, ConcatParts
    <3> DEFINE j == k - Len(p)
    <3> HIDE DEF j
    <3>2. j \in 1 .. Len(q) /\ q[j] = s
      BY <2>1, <3>1, ConcatParts DEF j
    <3> QED
      BY <3>2, ConcatParts DEF Listed
  <2> QED
    BY <2>2, <2>3
<1>2. ASSUME Listed(s, p)
      PROVE  Listed(s, p \o q)
  <2>1. PICK k \in 1 .. Len(p) : p[k] = s
    BY <1>2, ConcatParts DEF Listed
  <2>2. k \in DOMAIN (p \o q) /\ (p \o q)[k] = s
    BY <2>1, ConcatParts
  <2> QED
    BY <2>2 DEF Listed
<1>3. ASSUME Listed(s, q)
      PROVE  Listed(s, p \o q)
  <2>1. PICK k \in 1 .. Len(q) : q[k] = s
    BY <1>3, ConcatParts DEF Listed
  <2>2. Len(p) + k \in DOMAIN (p \o q) /\ (p \o q)[Len(p) + k] = s
    BY <2>1, ConcatParts
  <2> QED
    BY <2>2 DEF Listed
<1> QED
  BY <1>1, <1>2, <1>3

LEMMA ConcatSorted ==
  ASSUME NEW sd, NEW price, NEW qs, NEW p \in Seq(Slots), NEW q \in Seq(Slots),
         Sorted(p, sd, price, qs), Sorted(q, sd, price, qs),
         \A j \in DOMAIN p, k \in DOMAIN q : Sooner(sd, price, qs, p[j], q[k])
  PROVE  Sorted(p \o q, sd, price, qs)
<1> DEFINE m == Len(p)
           n == Len(q)
           r == p \o q
<1>1. /\ m \in Nat /\ n \in Nat /\ DOMAIN p = 1 .. m /\ DOMAIN q = 1 .. n /\ DOMAIN r = 1 .. m + n
      /\ \A k \in 1 .. m : r[k] = p[k]
      /\ \A k \in 1 .. n : r[m + k] = q[k]
      /\ \A k \in 1 .. m + n : k \in 1 .. m \/ (k - m \in 1 .. n /\ k = m + (k - m))
  BY ConcatParts
<1> HIDE DEF m, n, r
<1> SUFFICES ASSUME NEW j \in 1 .. m + n, NEW k \in 1 .. m + n, j < k
             PROVE  Sooner(sd, price, qs, r[j], r[k])
  BY <1>1 DEF Sorted, r
<1>2. CASE k \in 1 .. m
  <2>1. j \in 1 .. m
    BY <1>1, <1>2
  <2> QED
    BY <1>1, <1>2, <2>1 DEF Sorted
<1>3. CASE k \notin 1 .. m
  <2> DEFINE k2 == k - m
  <2>1. k2 \in 1 .. n /\ r[k] = q[k2]
    BY <1>1, <1>3
  <2>2. CASE j \in 1 .. m
    <3> HIDE DEF k2
    <3> QED
      BY <1>1, <2>1, <2>2
  <2>3. CASE j \notin 1 .. m
    <3> DEFINE j2 == j - m
    <3>1. j2 \in 1 .. n /\ r[j] = q[j2] /\ j2 < k2
      BY <1>1, <1>3, <2>3
    <3> HIDE DEF j2, k2
    <3> QED
      BY <1>1, <2>1, <3>1 DEF Sorted
  <2> QED
    BY <2>2, <2>3
<1> QED
  BY <1>2, <1>3

\* A side's levels, from the best on, are the slots of the side in the order in
\* which they trade.
LEMMA FlatInOrder ==
  ASSUME NEW sd \in Sides, NEW price, NEW qs, Proper(price, qs)
  PROVE  InOrder(Flat(sd, qs), sd, price, qs)
<1> DEFINE R == Rows(sd, qs)
           N == MaxLevels
           At(n) == IF sd = "Buy" THEN MaxLevels - n ELSE n - 1
           Upto(list, n) ==
             /\ list \in Seq(Slots)
             /\ \A s : Listed(s, list) <=> \E m \in 1 .. n : Listed(s, R[m])
             /\ Sorted(list, sd, price, qs)
<1>1. /\ N \in Nat \ {0}
      /\ \A n \in 1 .. N : At(n) \in Levels /\ R[n] = qs[At(n)] /\ R[n] \in Seq(Slots)
      /\ \A i \in Levels : \E n \in 1 .. N : i = At(n)
  BY RowsProperties DEF Proper
<1>2. PICK g \in [0 .. N -> Seq(Slots)] :
        /\ g[0] = << >>
        /\ \A k \in 1 .. N : g[k] = g[k - 1] \o R[k]
        /\ Flat(sd, qs) = g[N]
  BY FlatRuns DEF Proper
<1>3. \A n \in 1 .. N : \A k \in DOMAIN R[n] : R[n][k] \in Slots /\ price[R[n][k]] = At(n)
  BY <1>1, ElementOfSeq, LenProperties DEF Proper
<1>4. ASSUME NEW n \in 1 .. N
      PROVE  Sorted(R[n], sd, price, qs)
  <2> SUFFICES ASSUME NEW j \in DOMAIN R[n], NEW k \in DOMAIN R[n], j < k
               PROVE  Sooner(sd, price, qs, R[n][j], R[n][k])
    BY DEF Sorted
  <2>1. Precedes(R[n], R[n][j], R[n][k])
    BY DEF Precedes
  <2>2. price[R[n][j]] = At(n) /\ price[R[n][k]] = At(n) /\ R[n] = qs[At(n)]
    BY <1>1, <1>3
  <2> QED
    BY <2>1, <2>2 DEF Sooner
<1>5. ASSUME NEW m \in 1 .. N, NEW n \in 1 .. N, m < n, NEW r, NEW s, Listed(r, R[m]), Listed(s, R[n])
      PROVE  Sooner(sd, price, qs, r, s)
  <2>1. price[r] = At(m) /\ price[s] = At(n)
    BY <1>3, <1>5 DEF Listed
  <2>2. sd = "Buy" => At(m) > At(n)
    BY <1>1, <1>5
  <2>3. sd = "Sell" => At(m) < At(n)
    BY <1>1, <1>5
  <2> QED
    BY <2>1, <2>2, <2>3 DEF Sooner, Sides
<1> HIDE DEF R, N, At
<1> DEFINE P == {n \in Nat : n \in 0 .. N => Upto(g[n], n)}
<1>6. 0 \in P
  <2>1. g[0] = << >> /\ g[0] \in Seq(Slots) /\ \A s : ~Listed(s, << >>)
    BY <1>2 DEF Listed
  <2>2. Sorted(<< >>, sd, price, qs)
    BY DEF Sorted
  <2> QED
    BY <2>1, <2>2
<1>7. \A n \in P : n + 1 \in P
  <2> SUFFICES ASSUME NEW n \in P, n + 1 \in 0 .. N
               PROVE  Upto(g[n + 1], n + 1)
    OBVIOUS
  <2>1. n \in Nat /\ n \in 0 .. N /\ n + 1 \in 1 .. N /\ (n + 1) - 1 = n
    BY <1>1
  <2> DEFINE list == g[n]
             row == R[n + 1]
  <2>2. g[n + 1] = list \o row /\ row \in Seq(Slots) /\ list \in Seq(Slots)
    BY <1>1, <1>2, <2>1
  <2>3. Upto(list, n)
    BY <2>1
  <2>4. \A s : Listed(s, row) <=> Listed(s, R[n + 1])
    OBVIOUS
  <2>5. Sorted(row, sd, price, qs)
    BY <1>4, <2>1
  <2> HIDE DEF list, row
  <2>6. \A s : Listed(s, list \o row) <=> Listed(s, list) \/ Listed(s, row)
    BY <2>2, ConcatLists
  <2>7. \A s : Listed(s, list \o row) <=> \E m \in 1 .. n + 1 : Listed(s, R[m])
    <3>1. \A m : m \in 1 .. n + 1 <=> m \in 1 .. n \/ m = n + 1
      BY <2>1
    <3> QED
      BY <2>3, <2>4, <2>6, <3>1
  <2>8. \A j \in DOMAIN list, k \in DOMAIN row : Sooner(sd, price, qs, list[j], row[k])
    <3> TAKE j \in DOMAIN list, k \in DOMAIN row
    <3>1. PICK m \in 1 .. n : Listed(list[j], R[m])
      BY <2>3 DEF Listed
    <3>2. m \in 1 .. N /\ m < n + 1
      BY <1>1, <2>1
    <3>3. Listed(row[k], R[n + 1])
      BY <2>4 DEF Listed
    <3> QED
      BY <1>5, <2>1, <3>1, <3>2, <3>3
  <2>9. Sorted(list \o row, sd, price, qs)
    BY <2>2, <2>3, <2>5, <2>8, ConcatSorted
  <2>10. list \o row \in Seq(Slots)
    BY <2>2, ConcatProperties
  <2> QED
    BY <2>2, <2>7, <2>9, <2>10
<1>8. P \in SUBSET Nat
  OBVIOUS
<1> HIDE DEF P
<1>9. \A n \in Nat : n \in P
  BY ONLY <1>6, <1>7, <1>8, SetInduction
<1>10. Upto(g[N], N)
  <2>1. N \in P /\ N \in 0 .. N
    BY <1>1, <1>9
  <2> QED
    BY <2>1 DEF P
<1>11. \A s : Stands(s, qs) <=> \E m \in 1 .. N : Listed(s, R[m])
  <2>1. \A s : Stands(s, qs) <=> \E i \in Levels : Listed(s, qs[i])
    BY DEF Stands, Listed
  <2>2. \A m \in 1 .. N : At(m) \in Levels /\ R[m] = qs[At(m)]
    BY <1>1
  <2>3. \A i \in Levels : \E m \in 1 .. N : i = At(m)
    BY <1>1
  <2> HIDE DEF At
  <2> QED
    BY ONLY <2>1, <2>2, <2>3
<1> QED
  BY <1>2, <1>10, <1>11 DEF InOrder

\* Whatever list of the right slots is in order is the side's levels in a row.
LEMMA FlatIs ==
  ASSUME NEW sd \in Sides, NEW price, NEW qs, Proper(price, qs),
         NEW list, InOrder(list, sd, price, qs)
  PROVE  Flat(sd, qs) = list
BY FlatInOrder, OnlyOneList

\* No slot is listed twice.
LEMMA ListedOnce ==
  ASSUME NEW sd \in Sides, NEW price, NEW qs, Proper(price, qs),
         NEW list, InOrder(list, sd, price, qs)
  PROVE  /\ list \in Seq(Slots) /\ Len(list) \in Nat /\ DOMAIN list = 1 .. Len(list)
         /\ \A k \in 1 .. Len(list) : list[k] \in Slots /\ Stands(list[k], qs)
         /\ \A j, k \in 1 .. Len(list) : list[j] = list[k] => j = k
<1>1. /\ list \in Seq(Slots) /\ Len(list) \in Nat /\ DOMAIN list = 1 .. Len(list)
      /\ \A k \in 1 .. Len(list) : list[k] \in Slots
  BY LenProperties, ElementOfSeq DEF InOrder
<1>2. \A k \in 1 .. Len(list) : Stands(list[k], qs)
  BY <1>1 DEF InOrder, Listed
<1>3. \A j, k \in 1 .. Len(list) : j < k => list[j] # list[k]
  BY <1>1, <1>2, SoonerIsStrict DEF InOrder, Sorted
<1> QED
  BY <1>1, <1>2, <1>3

\* Taking a slot out of its level takes it out of the row of levels.
LEMMA FlatOfRemoval ==
  ASSUME NEW sd \in Sides, NEW price, NEW qs, Proper(price, qs), NEW qs2, Proper(price, qs2),
         NEW k \in DOMAIN Flat(sd, qs),
         \A t \in Slots : Stands(t, qs2) <=> Stands(t, qs) /\ t # Flat(sd, qs)[k],
         \A i \in Levels, r, t \in Slots \ {Flat(sd, qs)[k]} :
           Precedes(qs[i], r, t) => Precedes(qs2[i], r, t)
  PROVE  Flat(sd, qs2) = RemoveAt(Flat(sd, qs), k)
<1> DEFINE F == Flat(sd, qs)
           G == RemoveAt(F, k)
           n == Len(F)
<1>1. InOrder(F, sd, price, qs)
  BY FlatInOrder
<1>2. /\ F \in Seq(Slots) /\ n \in Nat /\ DOMAIN F = 1 .. n
      /\ \A j \in 1 .. n : F[j] \in Slots /\ Stands(F[j], qs)
      /\ \A i, j \in 1 .. n : F[i] = F[j] => i = j
  BY <1>1, ListedOnce
<1>3. /\ \A t \in Slots : Stands(t, qs2) <=> Stands(t, qs) /\ t # F[k]
      /\ \A i \in Levels, r, t \in Slots \ {F[k]} : Precedes(qs[i], r, t) => Precedes(qs2[i], r, t)
      /\ k \in 1 .. n
  BY <1>2
<1> HIDE DEF F
<1>4. /\ G \in Seq(Slots) /\ Len(G) = n - 1
      /\ \A j \in 1 .. n - 1 : G[j] = IF j < k THEN F[j] ELSE F[j + 1]
  BY <1>2, <1>3, RemoveAtProperties
<1>5. DOMAIN G = 1 .. n - 1
  BY <1>4, LenProperties
<1> HIDE DEF G
<1> DEFINE at(j) == IF j < k THEN j ELSE j + 1
<1>6. /\ \A j \in 1 .. n - 1 : at(j) \in 1 .. n /\ G[j] = F[at(j)] /\ at(j) # k
      /\ \A i, j \in 1 .. n - 1 : i < j => at(i) < at(j)
      /\ \A m \in 1 .. n : m # k => \E j \in 1 .. n - 1 : m = at(j)
  <2>1. \A j \in 1 .. n - 1 : at(j) \in 1 .. n /\ G[j] = F[at(j)] /\ at(j) # k
    BY <1>2, <1>3, <1>4
  <2>2. \A i, j \in 1 .. n - 1 : i < j => at(i) < at(j)
    BY <1>2, <1>3
  <2>3. ASSUME NEW m \in 1 .. n, m # k
        PROVE  \E j \in 1 .. n - 1 : m = at(j)
    <3>1. CASE m < k
      BY <1>2, <1>3, <3>1
    <3>2. CASE ~(m < k)
      <4>1. m - 1 \in 1 .. n - 1 /\ ~(m - 1 < k) /\ (m - 1) + 1 = m
        BY <1>2, <1>3, <2>3, <3>2
      <4> QED
        BY <4>1
    <3> QED
      BY <3>1, <3>2
  <2> QED
    BY <2>1, <2>2, <2>3
<1> HIDE DEF at
<1>7. ASSUME NEW t \in Slots
      PROVE  Listed(t, G) <=> Stands(t, qs2)
  <2>1. ASSUME NEW j \in 1 .. n - 1, G[j] = t
        PROVE  Stands(t, qs2)
    <3>1. F[at(j)] = t /\ at(j) \in 1 .. n /\ at(j) # k
      BY <1>6, <2>1
    <3>2. t # F[k] /\ Stands(t, qs)
      BY <1>2, <1>3, <3>1
    <3> QED
      BY <1>3, <3>2
  <2>2. ASSUME Stands(t, qs2)
        PROVE  \E j \in 1 .. n - 1 : G[j] = t
    <3>1. Stands(t, qs) /\ t # F[k]
      BY <1>3, <2>2
    <3>2. PICK m \in 1 .. n : F[m] = t
      BY <1>1, <1>2, <3>1 DEF InOrder, Listed
    <3> QED
      BY <1>6, <3>1, <3>2
  <2> QED
    BY <1>5, <2>1, <2>2 DEF Listed
<1>8. ASSUME NEW i \in 1 .. n - 1, NEW j \in 1 .. n - 1, i < j
      PROVE  Sooner(sd, price, qs2, G[i], G[j])
  <2>1. /\ at(i) \in 1 .. n /\ at(j) \in 1 .. n /\ at(i) < at(j) /\ at(i) # k /\ at(j) # k
        /\ G[i] = F[at(i)] /\ G[j] = F[at(j)]
    BY <1>6, <1>8
  <2>2. Sooner(sd, price, qs, G[i], G[j])
    BY <1>1, <1>2, <2>1 DEF InOrder, Sorted
  <2>3. G[i] \in Slots \ {F[k]} /\ G[j] \in Slots \ {F[k]} /\ Stands(G[i], qs)
    BY <1>2, <1>3, <2>1
  <2>4. price[G[i]] \in Levels
    BY <2>3 DEF Stands, Proper
  <2> QED
    BY <1>3, <2>2, <2>3, <2>4 DEF Sooner
<1>9. InOrder(G, sd, price, qs2)
  BY <1>4, <1>5, <1>7, <1>8 DEF InOrder, Sorted
<1> QED
  BY <1>9, FlatIs DEF G, F

LEMMA InsertAtProperties ==
  ASSUME NEW S, NEW q \in Seq(S), NEW i \in 1 .. Len(q) + 1, NEW e \in S
  PROVE  /\ InsertAt(q, i, e) \in Seq(S)
         /\ Len(q) \in Nat /\ Len(InsertAt(q, i, e)) = Len(q) + 1
         /\ DOMAIN InsertAt(q, i, e) = 1 .. Len(q) + 1
         /\ \A k \in 1 .. Len(q) + 1 :
              InsertAt(q, i, e)[k] = IF k < i THEN q[k] ELSE IF k = i THEN e ELSE q[k - 1]
<1> DEFINE front == SubSeq(q, 1, i - 1)
           back  == SubSeq(q, i, Len(q))
           n == Len(q)
           r == InsertAt(q, i, e)
<1>0. /\ Len(q) \in Nat
      /\ \A k \in 1 .. Len(q) : q[k] \in S
  BY LenProperties, ElementOfSeq
<1>1. /\ front \in Seq(S) /\ Len(front) = i - 1
      /\ \A k \in 1 .. i - 1 : front[k] = q[k]
  BY <1>0
<1>2. /\ back \in Seq(S) /\ Len(back) = n + 1 - i
      /\ \A k \in 1 .. n + 1 - i : back[k] = q[i - 1 + k]
  BY <1>0
<1>3. <<e>> \in Seq(S) /\ Len(<<e>>) = 1 /\ <<e>>[1] = e
  OBVIOUS
<1>4. r = (front \o <<e>>) \o back
  BY DEF InsertAt
<1> HIDE DEF front, back, r
<1> DEFINE one == <<e>>
<1> HIDE DEF one
<1>5. /\ front \o one \in Seq(S) /\ Len(front \o one) = i
      /\ \A k \in 1 .. i : (front \o one)[k] = IF k < i THEN q[k] ELSE e
  <2>1. one \in Seq(S) /\ Len(one) = 1 /\ one[1] = e
    BY <1>3 DEF one
  <2>1a. /\ front \o one \in Seq(S) /\ Len(front \o one) = Len(front) + Len(one)
         /\ \A k \in 1 .. Len(front) + Len(one) :
              (front \o one)[k] = IF k <= Len(front) THEN front[k] ELSE one[k - Len(front)]
    BY <1>1, <2>1, ConcatProperties
  <2>2. front \o one \in Seq(S) /\ Len(front \o one) = i
    <3>1. Len(front) + Len(one) = i
      BY <1>0, <1>1, <2>1
    <3> QED
      BY <2>1a, <3>1
  <2>3. \A k \in 1 .. (i - 1) + 1 : (front \o one)[k] = IF k <= i - 1 THEN front[k] ELSE one[k - (i - 1)]
    BY <1>1, <2>1, <2>1a
  <2>4. ASSUME NEW k \in 1 .. i
        PROVE  (front \o one)[k] = IF k < i THEN q[k] ELSE e
    <3>1. k \in 1 .. (i - 1) + 1 /\ (k < i => k \in 1 .. i - 1 /\ k <= i - 1)
          /\ (~(k < i) => ~(k <= i - 1) /\ k - (i - 1) = 1)
      BY <1>0
    <3> QED
      BY <1>1, <2>1, <2>3, <3>1
  <2> QED
    BY <2>2, <2>4
<1> DEFINE head == front \o one
<1> HIDE DEF head
<1>6. /\ r \in Seq(S) /\ Len(r) = n + 1
      /\ \A k \in 1 .. n + 1 : r[k] = IF k <= i THEN head[k] ELSE back[k - i]
  <2>1. head \in Seq(S) /\ Len(head) = i
    BY <1>5 DEF head
  <2>2. r = head \o back
    BY <1>4 DEF head, one
  <2>3. r \in Seq(S) /\ Len(r) = i + (n + 1 - i)
    BY <1>2, <2>1, <2>2, ConcatProperties
  <2>4. i + (n + 1 - i) = n + 1
    BY <1>0
  <2>5. \A k \in 1 .. i + (n + 1 - i) : r[k] = IF k <= i THEN head[k] ELSE back[k - i]
    BY <1>2, <2>1, <2>2, ConcatProperties
  <2> QED
    BY <2>3, <2>4, <2>5
<1>7. \A k \in 1 .. n + 1 : r[k] = IF k < i THEN q[k] ELSE IF k = i THEN e ELSE q[k - 1]
  <2> TAKE k \in 1 .. n + 1
  <2>1. CASE k <= i
    <3>1. k \in 1 .. i /\ r[k] = head[k]
      BY <1>0, <1>6, <2>1
    <3>2. head[k] = IF k < i THEN q[k] ELSE e
      BY <1>5, <3>1 DEF head
    <3> QED
      BY <1>0, <2>1, <3>1, <3>2
  <2>2. CASE ~(k <= i)
    <3>1. k - i \in 1 .. n + 1 - i /\ i - 1 + (k - i) = k - 1
      BY <1>0, <2>2
    <3>2. r[k] = q[k - 1]
      BY <1>2, <1>6, <2>2, <3>1
    <3> QED
      BY <1>0, <2>2, <3>2
  <2> QED
    BY <2>1, <2>2
<1>8. DOMAIN r = 1 .. n + 1
  BY <1>6, LenProperties
<1> QED
  BY <1>0, <1>6, <1>7, <1>8 DEF r

\* The position behind the last slot that is as good as s, and s put there.
AsGood(sd, list, price, p) ==
  {k \in DOMAIN list : Book!AtLeastAsGood(sd, price[list[k]], p)}

LastAsGood(sd, list, price, p) == Max({0} \cup AsGood(sd, list, price, p))

\* Of a list in order, the slots up to there are as good, and no others.
LEMMA LastAsGoodSplits ==
  ASSUME NEW sd \in Sides, NEW price, NEW qs, Proper(price, qs),
         NEW list, InOrder(list, sd, price, qs), NEW p \in Int
  PROVE  LET m == LastAsGood(sd, list, price, p) IN
         /\ m \in 0 .. Len(list)
         /\ \A k \in 1 .. Len(list) : Book!AtLeastAsGood(sd, price[list[k]], p) <=> k <= m
<1> DEFINE A == {0} \cup AsGood(sd, list, price, p)
           m == Max(A)
           n == Len(list)
<1>1. /\ list \in Seq(Slots) /\ n \in Nat /\ DOMAIN list = 1 .. n
      /\ \A k \in 1 .. n : list[k] \in Slots /\ Stands(list[k], qs)
  BY ListedOnce
<1> HIDE DEF n
<1>2. A \in SUBSET Int /\ A # {} /\ \A x \in A : -n <= x /\ x <= n
  BY <1>1 DEF AsGood
<1>3. m \in A /\ \A x \in A : x <= m
  <2> HIDE DEF A
  <2> QED
    BY <1>1, <1>2, BoundedMax
<1>4. \A k : k \in A <=> k = 0 \/ (k \in 1 .. n /\ Book!AtLeastAsGood(sd, price[list[k]], p))
  BY <1>1 DEF AsGood
<1> HIDE DEF m, A
<1>5. m \in 0 .. n
  BY <1>1, <1>3, <1>4
<1>6. ASSUME NEW k \in 1 .. n, k <= m
      PROVE  Book!AtLeastAsGood(sd, price[list[k]], p)
  <2>1. m \in 1 .. n /\ Book!AtLeastAsGood(sd, price[list[m]], p)
    BY <1>1, <1>3, <1>4, <1>5, <1>6
  <2>2. CASE k = m
    BY <2>1, <2>2
  <2>3. CASE k < m
    <3>1. Sooner(sd, price, qs, list[k], list[m])
      BY <1>1, <2>1, <2>3 DEF InOrder, Sorted
    <3>2. price[list[k]] \in Int /\ price[list[m]] \in Int
      BY <1>1, <2>1 DEF Proper
    <3> QED
      BY <2>1, <3>1, <3>2 DEF Sooner, Book!AtLeastAsGood, Sides
  <2> QED
    BY <1>5, <1>6, <1>1, <2>2, <2>3
<1>7. ASSUME NEW k \in 1 .. n, Book!AtLeastAsGood(sd, price[list[k]], p)
      PROVE  k <= m
  BY <1>3, <1>4, <1>7
<1> QED
  BY <1>5, <1>6, <1>7 DEF LastAsGood, m, A, n

\* Putting a slot behind its level puts it behind all that are as good.
LEMMA FlatOfPush ==
  ASSUME NEW sd \in Sides, NEW price, NEW qs, Proper(price, qs),
         NEW price2, NEW qs2, Proper(price2, qs2),
         NEW s \in Slots, ~Stands(s, qs), \A t \in Slots \ {s} : price2[t] = price[t],
         \A t \in Slots : Stands(t, qs2) <=> Stands(t, qs) \/ t = s,
         \A i \in Levels, r, t \in Slots : Precedes(qs[i], r, t) => Precedes(qs2[i], r, t),
         \A r \in Slots : Stands(r, qs) /\ price[r] = price2[s] => Precedes(qs2[price2[s]], r, s)
  PROVE  LET F == Flat(sd, qs) IN
         Flat(sd, qs2) = InsertAt(F, LastAsGood(sd, F, price, price2[s]) + 1, s)
<1> DEFINE F == Flat(sd, qs)
           m == LastAsGood(sd, F, price, price2[s])
           G == InsertAt(F, m + 1, s)
           n == Len(F)
<1>1. InOrder(F, sd, price, qs)
  BY FlatInOrder
<1> HIDE DEF F
<1>2. /\ F \in Seq(Slots) /\ n \in Nat /\ DOMAIN F = 1 .. n
      /\ \A j \in 1 .. n : F[j] \in Slots /\ Stands(F[j], qs)
  BY <1>1, ListedOnce
<1>3. \A t \in Slots : price[t] \in Int /\ price2[t] \in Int
  BY DEF Proper
<1>4. /\ m \in 0 .. n
      /\ \A k \in 1 .. n : Book!AtLeastAsGood(sd, price[F[k]], price2[s]) <=> k <= m
  BY <1>1, <1>3, LastAsGoodSplits
<1> HIDE DEF m
<1>5. /\ G \in Seq(Slots) /\ DOMAIN G = 1 .. n + 1
      /\ \A k \in 1 .. n + 1 : G[k] = IF k < m + 1 THEN F[k] ELSE IF k = m + 1 THEN s ELSE F[k - 1]
  <2> DEFINE i == m + 1
  <2>1. i \in 1 .. Len(F) + 1 /\ F \in Seq(Slots) /\ s \in Slots
    BY <1>2, <1>4
  <2> HIDE DEF i, n, G
  <2>2. /\ InsertAt(F, i, s) \in Seq(Slots)
        /\ Len(F) \in Nat /\ Len(InsertAt(F, i, s)) = Len(F) + 1
        /\ DOMAIN InsertAt(F, i, s) = 1 .. Len(F) + 1
        /\ \A k \in 1 .. Len(F) + 1 :
             InsertAt(F, i, s)[k] = IF k < i THEN F[k] ELSE IF k = i THEN s ELSE F[k - 1]
    <3>1. ASSUME NEW q \in Seq(Slots), NEW h \in 1 .. Len(q) + 1, NEW x \in Slots
          PROVE  /\ InsertAt(q, h, x) \in Seq(Slots)
                 /\ Len(q) \in Nat /\ Len(InsertAt(q, h, x)) = Len(q) + 1
                 /\ DOMAIN InsertAt(q, h, x) = 1 .. Len(q) + 1
                 /\ \A k \in 1 .. Len(q) + 1 :
                      InsertAt(q, h, x)[k] = IF k < h THEN q[k] ELSE IF k = h THEN x ELSE q[k - 1]
      BY ONLY InsertAtProperties, SMTT(60)
    <3> QED
      BY ONLY <2>1, <3>1, SMTT(60)
  <2>3. n = Len(F) /\ i = m + 1 /\ G = InsertAt(F, i, s)
    BY DEF n, i, G
  <2> QED
    BY ONLY <2>2, <2>3, SMTT(60)
<1> HIDE DEF G, n
<1> DEFINE at(j) == IF j < m + 1 THEN j ELSE j - 1
<1>6. /\ \A j \in 1 .. n + 1 : j # m + 1 => at(j) \in 1 .. n /\ G[j] = F[at(j)]
      /\ G[m + 1] = s /\ m + 1 \in 1 .. n + 1
      /\ \A i, j \in 1 .. n + 1 : i < j /\ i # m + 1 /\ j # m + 1 => at(i) < at(j)
      /\ \A j \in 1 .. n + 1 : j # m + 1 => (at(j) <= m <=> j < m + 1)
      /\ \A k \in 1 .. n : \E j \in 1 .. n + 1 : j # m + 1 /\ k = at(j)
  <2>1. \A j \in 1 .. n + 1 : j # m + 1 => at(j) \in 1 .. n /\ G[j] = F[at(j)]
    BY <1>2, <1>4, <1>5
  <2>2. G[m + 1] = s /\ m + 1 \in 1 .. n + 1
    BY <1>2, <1>4, <1>5
  <2>3. \A i, j \in 1 .. n + 1 : i < j /\ i # m + 1 /\ j # m + 1 => at(i) < at(j)
    BY <1>2, <1>4
  <2>4. \A j \in 1 .. n + 1 : j # m + 1 => (at(j) <= m <=> j < m + 1)
    BY <1>2, <1>4
  <2>5. ASSUME NEW k \in 1 .. n
        PROVE  \E j \in 1 .. n + 1 : j # m + 1 /\ k = at(j)
    <3>1. CASE k <= m
      <4>1. k \in 1 .. n + 1 /\ k # m + 1 /\ k < m + 1
        BY <1>2, <1>4, <3>1
      <4> QED
        BY <4>1
    <3>2. CASE ~(k <= m)
      <4>1. k + 1 \in 1 .. n + 1 /\ k + 1 # m + 1 /\ ~(k + 1 < m + 1) /\ (k + 1) - 1 = k
        BY <1>2, <1>4, <3>2
      <4> QED
        BY <4>1
    <3> QED
      BY <3>1, <3>2
  <2> QED
    BY <2>1, <2>2, <2>3, <2>4, <2>5
<1> HIDE DEF at
<1>7. ASSUME NEW t \in Slots
      PROVE  Listed(t, G) <=> Stands(t, qs2)
  <2>1. ASSUME NEW j \in 1 .. n + 1, G[j] = t
        PROVE  Stands(t, qs2)
    <3>1. j # m + 1 => Stands(t, qs)
      BY <1>2, <1>6, <2>1
    <3> QED
      BY <1>6, <2>1, <3>1
  <2>2. ASSUME Stands(t, qs2)
        PROVE  \E j \in 1 .. n + 1 : G[j] = t
    <3>1. CASE t = s
      BY <1>6, <3>1
    <3>2. CASE t # s
      <4>1. PICK k \in 1 .. n : F[k] = t
        BY <1>1, <1>2, <2>2, <3>2 DEF InOrder, Listed
      <4> QED
        BY <1>6, <4>1
    <3> QED
      BY <3>1, <3>2
  <2> QED
    BY <1>5, <2>1, <2>2 DEF Listed
<1>8. ASSUME NEW i \in 1 .. n + 1, NEW j \in 1 .. n + 1, i < j
      PROVE  Sooner(sd, price2, qs2, G[i], G[j])
  <2>0. i \in Int /\ j \in Int /\ m \in Int
    BY <1>4
  <2>1. ASSUME NEW k \in 1 .. n + 1, k # m + 1
        PROVE  /\ at(k) \in 1 .. n /\ G[k] = F[at(k)]
               /\ F[at(k)] \in Slots /\ F[at(k)] # s /\ Stands(F[at(k)], qs)
               /\ price2[F[at(k)]] = price[F[at(k)]]
               /\ price[F[at(k)]] \in Int /\ price[F[at(k)]] \in Levels
               /\ price2[s] \in Int
    <3>1. at(k) \in 1 .. n /\ G[k] = F[at(k)]
      BY <1>6, <2>1
    <3>2. F[at(k)] \in Slots /\ Stands(F[at(k)], qs)
      BY <1>2, <3>1
    <3>3. price[F[at(k)]] \in Levels
      <4>1. \A t : Stands(t, qs) => price[t] \in Levels
        BY DEF Stands, Proper
      <4> QED
        BY <3>2, <4>1
    <3> QED
      BY <1>3, <3>1, <3>2, <3>3
  <2>2. CASE i # m + 1 /\ j # m + 1
    <3>1. at(i) < at(j) /\ at(i) \in 1 .. n /\ at(j) \in 1 .. n
      BY <1>6, <1>8, <2>2
    <3>2. Sooner(sd, price, qs, F[at(i)], F[at(j)])
      BY <1>1, <1>2, <3>1 DEF InOrder, Sorted
    <3> QED
      BY <2>1, <2>2, <3>2 DEF Sooner
  <2>3. CASE i = m + 1
    <3>1. j # m + 1 /\ ~(j < m + 1)
      BY <1>8, <2>0, <2>3
    <3>2. ~Book!AtLeastAsGood(sd, price[F[at(j)]], price2[s])
      BY <1>4, <1>6, <2>1, <3>1
    <3>3. G[i] = s /\ G[j] = F[at(j)] /\ price2[F[at(j)]] = price[F[at(j)]]
      BY <1>6, <2>1, <2>3, <3>1
    <3> QED
      BY <2>1, <3>1, <3>2, <3>3 DEF Sooner, Book!AtLeastAsGood, Sides
  <2>4. CASE j = m + 1
    <3>1. i # m + 1 /\ i < m + 1
      BY <1>8, <2>0, <2>4
    <3>2. Book!AtLeastAsGood(sd, price[F[at(i)]], price2[s])
      BY <1>4, <1>6, <2>1, <3>1
    <3>3. G[j] = s /\ G[i] = F[at(i)] /\ price2[F[at(i)]] = price[F[at(i)]]
      BY <1>6, <2>1, <2>4, <3>1
    <3>4. price[F[at(i)]] = price2[s] => Precedes(qs2[price2[s]], F[at(i)], s)
      BY <2>1, <3>1
    <3> QED
      BY <2>1, <3>1, <3>2, <3>3, <3>4 DEF Sooner, Book!AtLeastAsGood, Sides
  <2> QED
    BY <2>2, <2>3, <2>4
<1>9. InOrder(G, sd, price2, qs2)
  BY <1>5, <1>7, <1>8 DEF InOrder, Sorted
<1> QED
  BY <1>9, FlatIs DEF G, F, m

-----------------------------------------------------------------------------
(***************************************************************************)
(* Lists of slots as lists of entries.                                     *)
(***************************************************************************)
EntryType == [id : Nat, price : Int, quantity : Int, remaining : Int]

Entries(list, entry) == [k \in DOMAIN list |-> entry[list[k]]]

LEMMA EntriesProperties ==
  ASSUME NEW list \in Seq(Slots), NEW entry \in [Slots -> EntryType]
  PROVE  /\ Entries(list, entry) \in Seq(EntryType)
         /\ Len(list) \in Nat /\ Len(Entries(list, entry)) = Len(list)
         /\ DOMAIN list = 1 .. Len(list)
         /\ DOMAIN Entries(list, entry) = 1 .. Len(list)
         /\ \A k \in 1 .. Len(list) : /\ list[k] \in Slots
                                      /\ Entries(list, entry)[k] = entry[list[k]]
<1>1. /\ Len(list) \in Nat /\ DOMAIN list = 1 .. Len(list)
      /\ \A k \in 1 .. Len(list) : list[k] \in Slots
  BY LenProperties, ElementOfSeq
<1> DEFINE e(k) == entry[list[k]]
<1>2. \A k \in 1 .. Len(list) : e(k) \in EntryType
  BY <1>1
<1> HIDE DEF e
<1>3. [k \in 1 .. Len(list) |-> e(k)] \in Seq(EntryType)
  BY <1>1, <1>2
<1>4. Entries(list, entry) = [k \in 1 .. Len(list) |-> e(k)]
  BY <1>1 DEF Entries, e
<1>5. Len(Entries(list, entry)) = Len(list)
  BY <1>1, <1>3, <1>4, LenProperties
<1> QED
  BY <1>1, <1>3, <1>4, <1>5 DEF e

LEMMA EntriesOfRemoval ==
  ASSUME NEW list \in Seq(Slots), NEW entry \in [Slots -> EntryType],
         NEW entry2 \in [Slots -> EntryType], NEW k \in 1 .. Len(list),
         \A j \in 1 .. Len(list) : j # k => entry2[list[j]] = entry[list[j]]
  PROVE  Entries(RemoveAt(list, k), entry2) = RemoveAt(Entries(list, entry), k)
<1> DEFINE n == Len(list)
           es == Entries(list, entry)
           less == RemoveAt(list, k)
           es2 == Entries(less, entry2)
<1>1. /\ es \in Seq(EntryType) /\ n \in Nat /\ Len(es) = n
      /\ \A j \in 1 .. n : es[j] = entry[list[j]]
  BY EntriesProperties
<1>2. /\ less \in Seq(Slots) /\ Len(less) = n - 1
      /\ \A j \in 1 .. n - 1 : less[j] = IF j < k THEN list[j] ELSE list[j + 1]
  BY RemoveAtProperties
<1> HIDE DEF n, es, less
<1>3. /\ es2 \in Seq(EntryType) /\ Len(es2) = n - 1
      /\ \A j \in 1 .. n - 1 : es2[j] = entry2[less[j]]
  BY <1>2, EntriesProperties
<1> HIDE DEF es2
<1>4. /\ RemoveAt(es, k) \in Seq(EntryType) /\ Len(RemoveAt(es, k)) = n - 1
      /\ \A j \in 1 .. n - 1 : RemoveAt(es, k)[j] = IF j < k THEN es[j] ELSE es[j + 1]
  <2>1. k \in 1 .. Len(es)
    BY <1>1 DEF n
  <2> QED
    BY <1>1, <2>1, RemoveAtProperties
<1>5. ASSUME NEW j \in 1 .. n - 1
      PROVE  es2[j] = RemoveAt(es, k)[j]
  <2>0. k \in 1 .. n /\ \A i \in 1 .. n : i # k => entry2[list[i]] = entry[list[i]]
    BY DEF n
  <2>1. CASE j < k
    <3>1. j \in 1 .. n /\ j # k
      BY <1>1, <2>0, <2>1
    <3> QED
      BY <1>1, <1>2, <1>3, <1>4, <2>0, <2>1, <3>1
  <2>2. CASE ~(j < k)
    <3>1. j + 1 \in 1 .. n /\ j + 1 # k
      BY <1>1, <2>0, <2>2
    <3>2. es2[j] = entry2[list[j + 1]]
      BY <1>2, <1>3, <2>2
    <3>3. entry2[list[j + 1]] = entry[list[j + 1]] /\ es[j + 1] = entry[list[j + 1]]
      BY <1>1, <2>0, <3>1
    <3>4. RemoveAt(es, k)[j] = es[j + 1]
      BY <1>4, <2>2
    <3> QED
      BY <3>2, <3>3, <3>4
  <2> QED
    BY <2>1, <2>2
<1>6. es2 = RemoveAt(es, k)
  BY <1>3, <1>4, <1>5, SeqEqual
<1> QED
  BY <1>6 DEF es2, es, less

LEMMA EntriesOfInsertion ==
  ASSUME NEW list \in Seq(Slots), NEW entry \in [Slots -> EntryType],
         NEW entry2 \in [Slots -> EntryType], NEW i \in 1 .. Len(list) + 1, NEW s \in Slots,
         \A j \in 1 .. Len(list) : entry2[list[j]] = entry[list[j]]
  PROVE  Entries(InsertAt(list, i, s), entry2) = InsertAt(Entries(list, entry), i, entry2[s])
<1> DEFINE n == Len(list)
           es == Entries(list, entry)
           more == InsertAt(list, i, s)
           es2 == Entries(more, entry2)
           new == InsertAt(es, i, entry2[s])
<1>1. /\ es \in Seq(EntryType) /\ n \in Nat /\ Len(es) = n
      /\ \A j \in 1 .. n : es[j] = entry[list[j]]
  BY EntriesProperties
<1>2. /\ more \in Seq(Slots) /\ Len(more) = n + 1
      /\ \A j \in 1 .. n + 1 : more[j] = IF j < i THEN list[j] ELSE IF j = i THEN s ELSE list[j - 1]
  BY InsertAtProperties
<1> HIDE DEF n, es, more
<1>3. /\ es2 \in Seq(EntryType) /\ Len(es2) = n + 1
      /\ \A j \in 1 .. n + 1 : es2[j] = entry2[more[j]]
  BY <1>2, EntriesProperties
<1> HIDE DEF es2
<1>0. i \in 1 .. n + 1 /\ \A j \in 1 .. n : entry2[list[j]] = entry[list[j]]
  BY DEF n
<1>4. /\ new \in Seq(EntryType) /\ Len(new) = n + 1
      /\ \A j \in 1 .. n + 1 : new[j] = IF j < i THEN es[j] ELSE IF j = i THEN entry2[s] ELSE es[j - 1]
  <2> DEFINE e == entry2[s]
  <2>0. Len(es) = n
    BY <1>1
  <2>1. i \in 1 .. Len(es) + 1 /\ e \in EntryType /\ es \in Seq(EntryType)
    BY <1>0, <1>1
  <2> HIDE DEF e, new
  <2>2. /\ InsertAt(es, i, e) \in Seq(EntryType)
        /\ Len(es) \in Nat /\ Len(InsertAt(es, i, e)) = Len(es) + 1
        /\ DOMAIN InsertAt(es, i, e) = 1 .. Len(es) + 1
        /\ \A k \in 1 .. Len(es) + 1 :
             InsertAt(es, i, e)[k] = IF k < i THEN es[k] ELSE IF k = i THEN e ELSE es[k - 1]
    <3>1. ASSUME NEW q \in Seq(EntryType), NEW m \in 1 .. Len(q) + 1, NEW x \in EntryType
          PROVE  /\ InsertAt(q, m, x) \in Seq(EntryType)
                 /\ Len(q) \in Nat /\ Len(InsertAt(q, m, x)) = Len(q) + 1
                 /\ DOMAIN InsertAt(q, m, x) = 1 .. Len(q) + 1
                 /\ \A k \in 1 .. Len(q) + 1 :
                      InsertAt(q, m, x)[k] = IF k < m THEN q[k] ELSE IF k = m THEN x ELSE q[k - 1]
      BY InsertAtProperties
    <3> QED
      BY ONLY <2>1, <3>1, SMTT(60)
  <2>3. new = InsertAt(es, i, e) /\ Len(es) = n
    BY <2>0 DEF e, new
  <2>4. /\ new \in Seq(EntryType) /\ Len(new) = n + 1
        /\ \A j \in 1 .. n + 1 : new[j] = IF j < i THEN es[j] ELSE IF j = i THEN e ELSE es[j - 1]
    BY ONLY <2>2, <2>3
  <2> QED
    BY <2>4 DEF e
<1> HIDE DEF new
<1>5. ASSUME NEW j \in 1 .. n + 1
      PROVE  es2[j] = new[j]
  <2>1. CASE j < i
    <3>1. j \in 1 .. n
      BY <1>0, <1>1, <2>1
    <3>2. es2[j] = entry2[list[j]]
      BY <1>2, <1>3, <2>1
    <3>3. new[j] = es[j] /\ es[j] = entry[list[j]]
      BY <1>1, <1>4, <2>1, <3>1
    <3> QED
      BY <1>0, <3>1, <3>2, <3>3
  <2>2. CASE j = i
    BY <1>0, <1>2, <1>3, <1>4, <2>2
  <2>3. CASE ~(j < i) /\ j # i
    <3>1. j - 1 \in 1 .. n
      BY <1>0, <1>1, <2>3
    <3> QED
      BY <1>0, <1>1, <1>2, <1>3, <1>4, <2>3, <3>1
  <2> QED
    BY <2>1, <2>2, <2>3
<1>6. es2 = new
  BY <1>3, <1>4, <1>5, SeqEqual
<1> QED
  BY <1>6 DEF es2, es, more, new

-----------------------------------------------------------------------------
(***************************************************************************)
(* The abstract book of a state.                                           *)
(***************************************************************************)
PriceOf == [s \in Slots |-> orders[s].price]

EntryOf == [s \in Slots |-> Entry(s)]

BookIsFlat ==
  /\ EntryOf \in [Slots -> EntryType]
  /\ \A side \in Sides :
       /\ Proper(PriceOf, queues[side])
       /\ AbstractBook[side] = Entries(Flat(side, queues[side]), EntryOf)
       /\ InOrder(Flat(side, queues[side]), side, PriceOf, queues[side])
       /\ \A s : Stands(s, queues[side]) <=> s \in Resting /\ orders[s].side = side

LEMMA BookFlat == TypeOK /\ BookInv => BookIsFlat
<1> SUFFICES ASSUME TypeOK, BookInv PROVE BookIsFlat
  OBVIOUS
<1>1. EntryOf \in [Slots -> EntryType]
  <2>1. \A s \in Slots : Entry(s) \in EntryType
    BY FieldTypes DEF Entry, EntryType
  <2> QED
    BY <2>1 DEF EntryOf
<1>2. ASSUME NEW side \in Sides
      PROVE  Proper(PriceOf, queues[side])
  <2>1. PriceOf \in [Slots -> Int]
    BY FieldTypes DEF PriceOf
  <2>2. queues[side] \in [Levels -> Seq(Slots)]
    BY DEF TypeOK, LadderTypeOK
  <2>3. ASSUME NEW i \in Levels, NEW k \in DOMAIN queues[side][i]
        PROVE  PriceOf[queues[side][i][k]] = i
    <3> DEFINE s == queues[side][i][k]
    <3>1. InLevel(s, side, i)
      BY DEF InLevel
    <3> HIDE DEF s
    <3>2. s \in Slots /\ Belongs(s, side, i)
      BY <3>1, StandsWhereItBelongs DEF BookInv
    <3>3. orders[s].price = i
      BY <3>2, FieldTypes, PriceToIndexProperties DEF Belongs, Levels
    <3> QED
      BY <3>2, <3>3 DEF PriceOf, s
  <2> QED
    BY <2>1, <2>2, <2>3 DEF Proper, BookInv, BookConsistent
<1>3. ASSUME NEW side \in Sides
      PROVE  /\ AbstractBook[side] = Entries(Flat(side, queues[side]), EntryOf)
             /\ InOrder(Flat(side, queues[side]), side, PriceOf, queues[side])
  <2> DEFINE F == Flat(side, queues[side])
  <2>1. InOrder(F, side, PriceOf, queues[side])
    BY <1>2, FlatInOrder
  <2>2. AbstractBook[side] = [k \in DOMAIN F |-> Entry(F[k])]
    BY DEF AbstractBook, AbstractQueue, ByPriority, Flat, Rows
  <2> HIDE DEF F
  <2>3. \A k \in DOMAIN F : F[k] \in Slots
    BY <1>2, <2>1, ListedOnce
  <2>4. AbstractBook[side] = Entries(F, EntryOf)
    BY <2>2, <2>3 DEF Entries, EntryOf
  <2> QED
    BY <2>1, <2>4 DEF F
<1>4. ASSUME NEW side \in Sides, NEW s
      PROVE  Stands(s, queues[side]) <=> s \in Resting /\ orders[s].side = side
  <2>1. Stands(s, queues[side]) <=> \E i \in Levels : InLevel(s, side, i)
    BY DEF Stands, InLevel
  <2>2. ASSUME NEW i \in Levels, InLevel(s, side, i)
        PROVE  s \in Resting /\ orders[s].side = side
    BY <2>2, StandsWhereItBelongs DEF BookInv, Belongs
  <2>3. ASSUME s \in Resting, orders[s].side = side
        PROVE  \E i \in Levels : InLevel(s, side, i)
    BY <2>3, RestingStands DEF BookInv
  <2> QED
    BY <2>1, <2>2, <2>3
<1> QED
  BY <1>1, <1>2, <1>3, <1>4 DEF BookIsFlat

LEMMA BookFlatAfter == TypeOK' /\ BookInv' => BookIsFlat'
BY BookFlat, PTL

\* What a step does to the abstract book, in terms of the queues.
BookIsFlatAfter ==
  /\ EntryOf' \in [Slots -> EntryType]
  /\ \A side \in Sides :
       /\ Proper(PriceOf', queues'[side])
       /\ AbstractBook'[side] = Entries(Flat(side, queues'[side]), EntryOf')

LEMMA FlatAfter == TypeOK' /\ BookInv' => BookIsFlatAfter
BY BookFlatAfter DEF BookIsFlat, BookIsFlatAfter

LEMMA EntriesSame ==
  ASSUME NEW list \in Seq(Slots), NEW entry, NEW entry2,
         \A k \in DOMAIN list : entry2[list[k]] = entry[list[k]]
  PROVE  Entries(list, entry2) = Entries(list, entry)
BY DEF Entries

\* What remove() leaves stands as it stood.
LEMMA PrecedesWithout ==
  ASSUME NEW q \in Seq(Slots), IsInjective(q), NEW s, \E k \in DOMAIN q : q[k] = s,
         NEW r, NEW t, r # s, t # s, Precedes(q, r, t)
  PROVE  Precedes(Without(q, s), r, t)
<1>1. PICK m \in DOMAIN q : q[m] = s
  OBVIOUS
<1>2. PICK j \in DOMAIN q, k \in DOMAIN q : j < k /\ q[j] = r /\ q[k] = t
  BY DEF Precedes
<1> DEFINE w == Without(q, q[m])
           at(i) == IF i < m THEN i ELSE i - 1
<1>3. m \in 1 .. Len(q)
  BY <1>1, LenProperties
<1>4. /\ Len(q) \in Nat /\ DOMAIN q = 1 .. Len(q) /\ DOMAIN w = 1 .. Len(q) - 1
      /\ \A i \in 1 .. Len(q) - 1 : w[i] = IF i < m THEN q[i] ELSE q[i + 1]
  <2> DEFINE W(i) == Without(q, q[i])
  <2>1. ASSUME NEW i \in 1 .. Len(q)
        PROVE  /\ Len(q) \in Nat /\ DOMAIN q = 1 .. Len(q) /\ DOMAIN W(i) = 1 .. Len(q) - 1
               /\ \A h \in 1 .. Len(q) - 1 : W(i)[h] = IF h < i THEN q[h] ELSE q[h + 1]
    BY WithoutProperties
  <2>2. w = W(m)
    OBVIOUS
  <2> HIDE DEF w, W
  <2> QED
    BY <1>3, <2>1, <2>2
<1> HIDE DEF w
<1>5. ASSUME NEW i \in DOMAIN q, i # m
      PROVE  at(i) \in DOMAIN w /\ w[at(i)] = q[i]
  <2>1. CASE i < m
    BY <1>3, <1>4, <2>1
  <2>2. CASE ~(i < m)
    <3>1. i - 1 \in 1 .. Len(q) - 1 /\ ~(i - 1 < m) /\ (i - 1) + 1 = i
      BY <1>3, <1>4, <1>5, <2>2
    <3> QED
      BY <1>4, <2>2, <3>1
  <2> QED
    BY <2>1, <2>2
<1>6. at(j) < at(k) /\ j # m /\ k # m
  BY <1>1, <1>2, <1>3, <1>4
<1> HIDE DEF at
<1>7. Precedes(w, r, t)
  BY <1>2, <1>5, <1>6 DEF Precedes
<1> QED
  BY <1>1, <1>7 DEF w

LEMMA PrecedesInAppend ==
  ASSUME NEW q \in Seq(Slots), NEW s \in Slots
  PROVE  /\ \A r, t : Precedes(q, r, t) => Precedes(Append(q, s), r, t)
         /\ \A k \in DOMAIN q : Precedes(Append(q, s), q[k], s)
<1> DEFINE a == Append(q, s)
<1>1. /\ Len(q) \in Nat /\ DOMAIN q = 1 .. Len(q) /\ DOMAIN a = 1 .. Len(q) + 1
      /\ \A k \in 1 .. Len(q) : a[k] = q[k]
      /\ a[Len(q) + 1] = s
  BY LenProperties
<1> HIDE DEF a
<1>2. \A r, t : Precedes(q, r, t) => Precedes(a, r, t)
  BY <1>1 DEF Precedes
<1>3. ASSUME NEW k \in DOMAIN q
      PROVE  Precedes(a, q[k], s)
  <2>1. k \in DOMAIN a /\ Len(q) + 1 \in DOMAIN a /\ k < Len(q) + 1
    BY <1>1
  <2> QED
    BY <1>1, <2>1 DEF Precedes
<1> QED
  BY <1>2, <1>3 DEF a

\* A slot that leaves its level leaves the abstract book.
LEMMA RemovalOnBook ==
  ASSUME TypeOK, BookInv, TypeOK', BookInv', NEW side \in Sides, NEW i \in Levels, NEW s \in Slots,
         InLevel(s, side, i), RemoveFrom(side, i, s),
         \A t \in Slots \ {s} : orders'[t] = orders[t], orders'[s].price = orders[s].price
  PROVE  \E k \in DOMAIN AbstractBook[side] :
           /\ Flat(side, queues[side])[k] = s
           /\ AbstractBook[side][k] = EntryOf[s]
           /\ AbstractBook' = [AbstractBook EXCEPT ![side] = RemoveAt(@, k)]
<1> DEFINE F == Flat(side, queues[side])
<1>1. BookIsFlat /\ BookIsFlatAfter
  BY BookFlat, FlatAfter
<1>2. /\ s \in Resting /\ orders[s].side = side
      /\ PriceOf' = PriceOf
      /\ \A t \in Slots \ {s} : EntryOf'[t] = EntryOf[t]
  <2>1. s \in Resting /\ Belongs(s, side, i)
    BY StandsWhereItBelongs DEF BookInv
  <2> QED
    BY <2>1 DEF Belongs, PriceOf, EntryOf, Entry
<1>3. Stands(s, queues[side]) /\ \A sd \in Sides : sd # side => ~Stands(s, queues[sd])
  BY <1>1, <1>2 DEF BookIsFlat
<1>4. /\ InOrder(F, side, PriceOf, queues[side]) /\ Proper(PriceOf, queues[side])
      /\ AbstractBook[side] = Entries(F, EntryOf)
  BY <1>1 DEF BookIsFlat
<1>5. /\ F \in Seq(Slots) /\ Len(F) \in Nat /\ DOMAIN F = 1 .. Len(F)
      /\ \A j \in 1 .. Len(F) : F[j] \in Slots /\ Stands(F[j], queues[side])
      /\ \A j, k \in 1 .. Len(F) : F[j] = F[k] => j = k
  BY <1>4, ListedOnce
<1>6. PICK k \in 1 .. Len(F) : F[k] = s
  BY <1>3, <1>4, <1>5 DEF InOrder, Listed
<1>7. \A sd \in Sides, n \in Levels :
        queues'[sd][n] = IF sd = side /\ n = i THEN Without(queues[sd][n], s) ELSE queues[sd][n]
  BY DEF RemoveFrom, TypeOK, LadderTypeOK
<1>8. Flat(side, queues'[side]) = RemoveAt(F, k)
  <2>1. \A t \in Slots : Stands(t, queues'[side]) <=> Stands(t, queues[side]) /\ t # F[k]
    <3>1. \A n \in Levels, t \in Slots : InLevelAfter(t, side, n) <=> InLevel(t, side, n) /\ t # s
      BY RemovalOnQueues DEF BookInv
    <3> QED
      BY <1>6, <3>1 DEF Stands, InLevel, InLevelAfter
  <2>2. ASSUME NEW n \in Levels, NEW r \in Slots \ {F[k]}, NEW t \in Slots \ {F[k]},
               Precedes(queues[side][n], r, t)
        PROVE  Precedes(queues'[side][n], r, t)
    <3>1. CASE n = i
      <4>1. /\ queues[side][i] \in Seq(Slots) /\ IsInjective(queues[side][i])
            /\ \E j \in DOMAIN queues[side][i] : queues[side][i][j] = s
        BY LevelTypes DEF BookInv, BookConsistent, InLevel
      <4> QED
        BY <1>6, <1>7, <2>2, <3>1, <4>1, PrecedesWithout
    <3>2. CASE n # i
      BY <1>7, <2>2, <3>2
    <3> QED
      BY <3>1, <3>2
  <2>3. Proper(PriceOf, queues'[side])
    BY <1>1, <1>2 DEF BookIsFlatAfter
  <2>4. k \in DOMAIN Flat(side, queues[side])
    BY <1>5
  <2> QED
    BY <1>4, <2>1, <2>2, <2>3, <2>4, FlatOfRemoval
<1> HIDE DEF F
<1>9. AbstractBook'[side] = RemoveAt(AbstractBook[side], k)
  <2>1. EntryOf \in [Slots -> EntryType] /\ EntryOf' \in [Slots -> EntryType]
    BY <1>1 DEF BookIsFlat, BookIsFlatAfter
  <2>2. \A j \in 1 .. Len(F) : j # k => EntryOf'[F[j]] = EntryOf[F[j]]
    BY <1>2, <1>5, <1>6
  <2>3. Entries(RemoveAt(F, k), EntryOf') = RemoveAt(Entries(F, EntryOf), k)
    BY <1>5, <2>1, <2>2, EntriesOfRemoval
  <2> QED
    BY <1>1, <1>4, <1>8, <2>3 DEF BookIsFlatAfter
<1>10. ASSUME NEW sd \in Sides, sd # side
       PROVE  AbstractBook'[sd] = AbstractBook[sd]
  <2> DEFINE L == Flat(sd, queues[sd])
  <2>1. queues'[sd] = queues[sd]
    BY <1>10 DEF RemoveFrom, TypeOK, LadderTypeOK
  <2>2. /\ InOrder(L, sd, PriceOf, queues[sd]) /\ Proper(PriceOf, queues[sd])
        /\ AbstractBook[sd] = Entries(L, EntryOf)
        /\ AbstractBook'[sd] = Entries(L, EntryOf')
    BY <1>1, <2>1 DEF BookIsFlat, BookIsFlatAfter
  <2>3. L \in Seq(Slots) /\ \A j \in DOMAIN L : L[j] \in Slots \ {s}
    <3>1. L \in Seq(Slots) /\ \A j \in DOMAIN L : L[j] \in Slots /\ Stands(L[j], queues[sd])
      BY <2>2, ListedOnce
    <3> QED
      BY <3>1, <1>3, <1>10
  <2> HIDE DEF L
  <2>4. Entries(L, EntryOf') = Entries(L, EntryOf)
    BY <1>2, <2>3, EntriesSame
  <2> QED
    BY <2>2, <2>4
<1>11. AbstractBook' = [AbstractBook EXCEPT ![side] = RemoveAt(@, k)]
  BY <1>9, <1>10 DEF AbstractBook
<1>12. k \in DOMAIN AbstractBook[side] /\ AbstractBook[side][k] = EntryOf[s]
  <2>1. EntryOf \in [Slots -> EntryType]
    BY <1>1 DEF BookIsFlat
  <2> QED
    BY <1>4, <1>5, <1>6, <2>1, EntriesProperties
<1> QED
  BY <1>6, <1>11, <1>12 DEF F

\* A slot that joins its level joins the abstract book behind those as good.
LEMMA PushOnBook ==
  ASSUME TypeOK, BookInv, TypeOK', BookInv', NEW side \in Sides, NEW i \in Levels, NEW s \in Slots,
         \A sd \in Sides, n \in Levels : ~InLevel(s, sd, n), PushBack(side, i, s),
         \A t \in Slots \ {s} : orders'[t] = orders[t], orders'[s].price = i
  PROVE  AbstractBook' = [AbstractBook EXCEPT ![side] = Book!Enqueue(side, @, EntryOf'[s])]
<1> DEFINE F == Flat(side, queues[side])
           m == LastAsGood(side, F, PriceOf, i)
<1>1. BookIsFlat /\ BookIsFlatAfter
  BY BookFlat, FlatAfter
<1>2. /\ PriceOf'[s] = i
      /\ \A t \in Slots \ {s} : PriceOf'[t] = PriceOf[t] /\ EntryOf'[t] = EntryOf[t]
      /\ EntryOf'[s].price = i
      /\ \A t \in Slots : EntryOf[t].price = PriceOf[t]
  BY DEF PriceOf, EntryOf, Entry
<1>3. \A sd \in Sides : ~Stands(s, queues[sd])
  BY DEF Stands, InLevel
<1>4. /\ InOrder(F, side, PriceOf, queues[side]) /\ Proper(PriceOf, queues[side])
      /\ AbstractBook[side] = Entries(F, EntryOf)
      /\ EntryOf \in [Slots -> EntryType] /\ EntryOf' \in [Slots -> EntryType]
  BY <1>1 DEF BookIsFlat, BookIsFlatAfter
<1>5. /\ F \in Seq(Slots) /\ Len(F) \in Nat /\ DOMAIN F = 1 .. Len(F)
      /\ \A j \in 1 .. Len(F) : F[j] \in Slots /\ Stands(F[j], queues[side])
  BY <1>4, ListedOnce
<1>6. \A j \in 1 .. Len(F) : F[j] \in Slots \ {s}
  BY <1>3, <1>5
<1>7. m \in 0 .. Len(F)
  <2>1. i \in Int
    BY DEF Levels
  <2> HIDE DEF F
  <2> QED
    BY <1>4, <2>1, LastAsGoodSplits
<1>8. \A sd \in Sides, n \in Levels :
        queues'[sd][n] = IF sd = side /\ n = i THEN Append(queues[sd][n], s) ELSE queues[sd][n]
  BY DEF PushBack, TypeOK, LadderTypeOK
<1>9. Flat(side, queues'[side]) = InsertAt(F, m + 1, s)
  <2>1. \A t \in Slots : Stands(t, queues'[side]) <=> Stands(t, queues[side]) \/ t = s
    <3>1. \A n \in Levels, t \in Slots :
            InLevelAfter(t, side, n) <=> InLevel(t, side, n) \/ (n = i /\ t = s)
      BY PushOnQueues DEF BookInv
    <3> QED
      BY <3>1 DEF Stands, InLevel, InLevelAfter
  <2>2. queues[side][i] \in Seq(Slots)
    BY LevelTypes
  <2>3. ASSUME NEW n \in Levels, NEW r \in Slots, NEW t \in Slots, Precedes(queues[side][n], r, t)
        PROVE  Precedes(queues'[side][n], r, t)
    <3>1. CASE n = i
      BY <1>8, <2>2, <2>3, <3>1, PrecedesInAppend
    <3>2. CASE n # i
      BY <1>8, <2>3, <3>2
    <3> QED
      BY <3>1, <3>2
  <2>4. ASSUME NEW r \in Slots, Stands(r, queues[side]), PriceOf[r] = i
        PROVE  Precedes(queues'[side][i], r, s)
    <3>1. PICK n \in Levels : \E k \in DOMAIN queues[side][n] : queues[side][n][k] = r
      BY <2>4 DEF Stands
    <3>2. n = i
      BY <1>4, <2>4, <3>1 DEF Proper
    <3>3. PICK k \in DOMAIN queues[side][i] : queues[side][i][k] = r
      BY <3>1, <3>2
    <3>4. Precedes(Append(queues[side][i], s), r, s)
      BY <2>2, <3>3, PrecedesInAppend
    <3> QED
      BY <1>8, <3>4
  <2>5. Proper(PriceOf', queues'[side])
    BY <1>1 DEF BookIsFlatAfter
  <2>6. \A r \in Slots : Stands(r, queues[side]) /\ PriceOf[r] = PriceOf'[s]
                           => Precedes(queues'[side][PriceOf'[s]], r, s)
    BY <1>2, <2>4
  <2>7. \A t \in Slots \ {s} : PriceOf'[t] = PriceOf[t]
    BY <1>2
  <2>8. Flat(side, queues'[side]) = InsertAt(F, LastAsGood(side, F, PriceOf, PriceOf'[s]) + 1, s)
    BY <1>3, <1>4, <2>1, <2>3, <2>5, <2>6, <2>7, FlatOfPush
  <2> QED
    BY <1>2, <2>8
<1> HIDE DEF F
<1>10. AbstractBook'[side] = InsertAt(AbstractBook[side], m + 1, EntryOf'[s])
  <2>1. m + 1 \in 1 .. Len(F) + 1
    BY <1>5, <1>7
  <2> HIDE DEF m
  <2>2. \A j \in 1 .. Len(F) : EntryOf'[F[j]] = EntryOf[F[j]]
    BY <1>2, <1>6
  <2>3. Entries(InsertAt(F, m + 1, s), EntryOf') = InsertAt(Entries(F, EntryOf), m + 1, EntryOf'[s])
    BY <1>4, <1>5, <2>1, <2>2, EntriesOfInsertion
  <2> QED
    BY <1>1, <1>4, <1>9, <2>3 DEF BookIsFlatAfter
<1>11. Book!Enqueue(side, AbstractBook[side], EntryOf'[s])
         = InsertAt(AbstractBook[side], m + 1, EntryOf'[s])
  <2> DEFINE es == Entries(F, EntryOf)
             asGood == {k \in DOMAIN es : Book!AtLeastAsGood(side, es[k].price, EntryOf'[s].price)}
  <2>1. /\ DOMAIN es = 1 .. Len(F)
        /\ \A k \in 1 .. Len(F) : es[k] = EntryOf[F[k]]
    BY <1>4, <1>5, EntriesProperties
  <2> HIDE DEF es
  <2>2. \A k \in 1 .. Len(F) : es[k].price = PriceOf[F[k]]
    BY <1>2, <1>5, <2>1
  <2>3. asGood = AsGood(side, F, PriceOf, i)
    BY <1>2, <1>5, <2>1, <2>2 DEF AsGood
  <2>4. Book!Enqueue(side, es, EntryOf'[s]) = InsertAt(es, Max({0} \cup asGood) + 1, EntryOf'[s])
    BY DEF Book!Enqueue, Book!InsertAt, Book!Max, InsertAt, Max
  <2> HIDE DEF asGood
  <2> QED
    BY <1>4, <2>3, <2>4 DEF es, LastAsGood
<1>12. ASSUME NEW sd \in Sides, sd # side
       PROVE  AbstractBook'[sd] = AbstractBook[sd]
  <2> DEFINE L == Flat(sd, queues[sd])
  <2>1. queues'[sd] = queues[sd]
    BY <1>12 DEF PushBack, TypeOK, LadderTypeOK
  <2>2. /\ InOrder(L, sd, PriceOf, queues[sd]) /\ Proper(PriceOf, queues[sd])
        /\ AbstractBook[sd] = Entries(L, EntryOf)
        /\ AbstractBook'[sd] = Entries(L, EntryOf')
    BY <1>1, <2>1 DEF BookIsFlat, BookIsFlatAfter
  <2>3. L \in Seq(Slots) /\ \A j \in DOMAIN L : L[j] \in Slots \ {s}
    BY <2>2, <1>3, ListedOnce
  <2> HIDE DEF L
  <2>4. Entries(L, EntryOf') = Entries(L, EntryOf)
    BY <1>2, <2>3, EntriesSame
  <2> QED
    BY <2>2, <2>4
<1> HIDE DEF m
<1> QED
  BY <1>10, <1>11, <1>12 DEF AbstractBook

-----------------------------------------------------------------------------
(***************************************************************************)
(* The head of the other side's queue, and room for one more.              *)
(***************************************************************************)
\* The entries of a side and its slots.
LEMMA BookEntries ==
  ASSUME TypeOK, BookInv, NEW side \in Sides
  PROVE  LET F == Flat(side, queues[side]) IN
         /\ F \in Seq(Slots) /\ Len(F) \in Nat /\ DOMAIN F = 1 .. Len(F)
         /\ AbstractBook[side] \in Seq(EntryType)
         /\ Len(AbstractBook[side]) = Len(F)
         /\ DOMAIN AbstractBook[side] = 1 .. Len(F)
         /\ \A k \in 1 .. Len(F) : /\ F[k] \in Slots /\ F[k] \in Resting
                                   /\ orders[F[k]].side = side
                                   /\ AbstractBook[side][k] = EntryOf[F[k]]
         /\ \A j, k \in 1 .. Len(F) : F[j] = F[k] => j = k
         /\ \A s \in Resting : orders[s].side = side => \E k \in 1 .. Len(F) : F[k] = s
<1> DEFINE F == Flat(side, queues[side])
<1>1. /\ InOrder(F, side, PriceOf, queues[side]) /\ Proper(PriceOf, queues[side])
      /\ AbstractBook[side] = Entries(F, EntryOf)
      /\ EntryOf \in [Slots -> EntryType]
      /\ \A s : Stands(s, queues[side]) <=> s \in Resting /\ orders[s].side = side
  BY BookFlat DEF BookIsFlat
<1> HIDE DEF F
<1>2. /\ F \in Seq(Slots) /\ Len(F) \in Nat /\ DOMAIN F = 1 .. Len(F)
      /\ \A k \in 1 .. Len(F) : F[k] \in Slots /\ Stands(F[k], queues[side])
      /\ \A j, k \in 1 .. Len(F) : F[j] = F[k] => j = k
  BY <1>1, ListedOnce
<1>3. /\ AbstractBook[side] \in Seq(EntryType)
      /\ Len(AbstractBook[side]) = Len(F)
      /\ DOMAIN AbstractBook[side] = 1 .. Len(F)
      /\ \A k \in 1 .. Len(F) : AbstractBook[side][k] = EntryOf[F[k]]
  BY <1>1, <1>2, EntriesProperties
<1>4. \A s \in Resting : orders[s].side = side => \E k \in 1 .. Len(F) : F[k] = s
  BY <1>1, <1>2 DEF InOrder, Listed, Resting
<1>5. \A k \in 1 .. Len(F) : F[k] \in Resting /\ orders[F[k]].side = side
  BY <1>1, <1>2
<1> QED
  BY <1>2, <1>3, <1>4, <1>5 DEF F

\* The order the inner loop looks at heads the queue.
LEMMA FirstHeadsBook ==
  ASSUME TypeOK, CursorOK, BookInv, CursorBest, pc = "level", MoreAtLevel
  PROVE  /\ 1 \in DOMAIN AbstractBook[Contra]
         /\ Flat(Contra, queues[Contra])[1] = FirstSlot
         /\ AbstractBook[Contra][1] = EntryOf[FirstSlot]
<1> DEFINE s == FirstSlot
           side == Contra
           F == Flat(side, queues[side])
<1>1. s \in Slots /\ side \in Sides /\ cursor \in Levels /\ InLevel(s, side, cursor)
  BY FirstStandsFirst DEF BookInv
<1>2. s \in Resting /\ orders[s].side = side
  BY <1>1, StandsWhereItBelongs DEF BookInv, Belongs
<1>3. /\ Len(F) \in Nat /\ DOMAIN F = 1 .. Len(F)
      /\ DOMAIN AbstractBook[side] = 1 .. Len(F)
      /\ \A k \in 1 .. Len(F) : /\ F[k] \in Slots /\ F[k] \in Resting
                                /\ orders[F[k]].side = side
                                /\ AbstractBook[side][k] = EntryOf[F[k]]
      /\ \A j, k \in 1 .. Len(F) : F[j] = F[k] => j = k
      /\ \A t \in Resting : orders[t].side = side => \E k \in 1 .. Len(F) : F[k] = t
  BY <1>1, BookEntries
<1>4. /\ Proper(PriceOf, queues[side])
      /\ \A t : Stands(t, queues[side]) <=> t \in Resting /\ orders[t].side = side
      /\ Sorted(F, side, PriceOf, queues[side])
  BY <1>1, BookFlat DEF BookIsFlat, InOrder
<1>5. ASSUME NEW r \in Resting, r # s, orders[r].side = side
      PROVE  Sooner(side, PriceOf, queues[side], s, r)
  <2>1. Before(s, r)
    BY <1>2, <1>5, FirstIsFirst
  <2>2. PriceToIndex(orders[s].price) = orders[s].price /\ s \in Slots /\ r \in Slots
    BY <1>2, RestingStands DEF BookInv, Resting
  <2> QED
    BY <1>2, <2>1, <2>2 DEF Before, Sooner, PriceOf
<1> HIDE DEF s, side, F
<1>6. PICK k \in 1 .. Len(F) : F[k] = s
  BY <1>2, <1>3
<1>7. k = 1
  <2> SUFFICES ASSUME k # 1 PROVE FALSE
    OBVIOUS
  <2>1. 1 \in 1 .. Len(F) /\ 1 < k
    BY <1>3
  <2> DEFINE r == F[1]
  <2>2. r # s /\ r \in Resting /\ r \in Slots /\ orders[r].side = side
    BY <1>3, <1>6, <2>1
  <2>3. Sooner(side, PriceOf, queues[side], r, s)
    BY <1>3, <1>4, <1>6, <2>1 DEF Sorted
  <2> HIDE DEF r
  <2>4. Sooner(side, PriceOf, queues[side], s, r) /\ Stands(s, queues[side])
    BY <1>2, <1>4, <1>5, <2>2
  <2> QED
    BY <1>1, <1>4, <2>2, <2>3, <2>4, SoonerIsStrict
<1>8. /\ 1 \in DOMAIN AbstractBook[side] /\ F[1] = s /\ AbstractBook[side][1] = EntryOf[s]
  BY <1>3, <1>6, <1>7
<1> QED
  BY <1>8 DEF s, side, F

LEMMA AgreesMeansCrosses ==
  ASSUME NEW o \in IncomingOrder, NEW price \in Int
  PROVE  Book!Agrees(o, price) <=> Crosses(o, price)
BY DEF Book!Agrees, Book!AtLeastAsGood, Crosses, IncomingOrder, Sides

LEMMA ContraMeans == Book!Contra = Contra
BY DEF Book!Contra, Contra, Book!Opposite, Opposite

\* The inner loop trades when the abstract book can fill ...
LEMMA LoopCanFill ==
  ASSUME TypeOK, CursorOK, BookInv, CursorBest, TradesInv, pc = "level", MoreAtLevel
  PROVE  Book!CanFill
<1> DEFINE es == AbstractBook[Contra]
<1>1. 1 \in DOMAIN es /\ es[1] = EntryOf[FirstSlot] /\ Contra \in Sides
  BY FirstHeadsBook, ContraIsSide
<1>2. FirstSlot \in Slots /\ orders[FirstSlot].price = cursor /\ cursor \in Int
  <2>1. /\ FirstSlot \in Slots /\ Contra \in Sides /\ cursor \in Levels
        /\ InLevel(FirstSlot, Contra, cursor)
    BY FirstStandsFirst DEF BookInv
  <2>2. FirstSlot \in Resting /\ Belongs(FirstSlot, Contra, cursor)
    BY <2>1, StandsWhereItBelongs DEF BookInv
  <2> QED
    BY <2>1, <2>2, RestingStands DEF Belongs, Levels, BookInv
<1>3. es \in Seq(EntryType)
  BY <1>1, BookEntries
<1>4. Book!Agrees(taker, cursor)
  BY <1>2, AgreesMeansCrosses DEF TradesInv, TypeOK, CallTypeOK
<1>5. Head(es).price = cursor /\ es # << >>
  BY <1>1, <1>2, <1>3 DEF EntryOf, Entry
<1> QED
  BY <1>4, <1>5, ContraMeans DEF Book!CanFill, MoreAtLevel

\* ... and is over only when it cannot.
LEMMA OverCannotFill ==
  ASSUME TypeOK, BookInv, ~CanMatch
  PROVE  ~Book!CanFill
<1> SUFFICES ASSUME Book!CanFill PROVE FALSE
  OBVIOUS
<1> DEFINE es == AbstractBook[Contra]
           F == Flat(Contra, queues[Contra])
<1>1. left > 0 /\ es # << >> /\ Book!Agrees(taker, Head(es).price)
  BY ContraMeans DEF Book!CanFill
<1>2. Contra \in Sides
  BY ContraIsSide
<1>3. /\ es \in Seq(EntryType) /\ Len(F) \in Nat /\ Len(es) = Len(F) /\ DOMAIN es = 1 .. Len(F)
      /\ \A k \in 1 .. Len(F) : /\ F[k] \in Resting /\ F[k] \in Slots
                                /\ orders[F[k]].side = Contra
                                /\ es[k] = EntryOf[F[k]]
  BY <1>2, BookEntries
<1> DEFINE r == F[1]
<1> HIDE DEF F, es
<1>4. 1 \in DOMAIN es /\ Head(es) = es[1]
  BY <1>1, <1>3
<1>5. r \in Resting /\ r \in Slots /\ orders[r].side = Contra /\ es[1] = EntryOf[r]
  BY <1>3, <1>4
<1> HIDE DEF r
<1>6. orders[r].price \in Occupied(Contra) /\ orders[r].price \in Int
  BY <1>5, RestingStands DEF BookInv, Levels
<1>7. ~Crosses(taker, IndexToPrice(orders[r].price))
  BY <1>1, <1>6, NothingLeftToMatch
<1>8. IndexToPrice(orders[r].price) = orders[r].price
  BY <1>6 DEF IndexToPrice, BasePrice, TickSize
<1>9. Head(es).price = orders[r].price
  BY <1>4, <1>5 DEF EntryOf, Entry
<1> QED
  BY <1>1, <1>6, <1>7, <1>8, <1>9, AgreesMeansCrosses DEF TypeOK, CallTypeOK

LEMMA SlotsCovered ==
  ASSUME NEW list \in Seq(Slots), \A s \in Slots : \E k \in DOMAIN list : list[k] = s
  PROVE  PoolCapacity <= Len(list)
<1>1. /\ Len(list) \in Nat /\ DOMAIN list = 1 .. Len(list)
      /\ list \in [1 .. Len(list) -> Slots]
  BY LenProperties
<1>2. list \in Surjection(1 .. Len(list), Slots)
  BY <1>1 DEF Surjection
<1>3. Cardinality(Slots) = PoolCapacity
  BY FS_Interval, PoolCapacityAssumption DEF Slots
<1>4. /\ IsFiniteSet(1 .. Len(list))
      /\ Cardinality(1 .. Len(list)) = IF 1 > Len(list) THEN 0 ELSE Len(list) - 1 + 1
  BY <1>1, FS_Interval
<1>5. Cardinality(Slots) <= Cardinality(1 .. Len(list))
  BY <1>2, <1>4, FS_Surjection
<1> QED
  BY <1>1, <1>3, <1>4, <1>5, PoolCapacityAssumption

\* The pool has a slot exactly as long as fewer orders rest than it has slots.
LEMMA RoomLeft ==
  ASSUME TypeOK, BookInv, NothingLost
  PROVE  Len(AbstractBook["Buy"]) + Len(AbstractBook["Sell"]) < PoolCapacity
           <=> freeHead # NoSlot
<1> DEFINE B == Flat("Buy", queues["Buy"])
           A == Flat("Sell", queues["Sell"])
           C == B \o A
           b == Len(B)
           a == Len(A)
<1>1. /\ B \in Seq(Slots) /\ b \in Nat /\ DOMAIN B = 1 .. b /\ Len(AbstractBook["Buy"]) = b
      /\ \A k \in 1 .. b : B[k] \in Slots /\ B[k] \in Resting /\ orders[B[k]].side = "Buy"
      /\ \A j, k \in 1 .. b : B[j] = B[k] => j = k
      /\ \A s \in Resting : orders[s].side = "Buy" => \E k \in 1 .. b : B[k] = s
  BY BookEntries DEF Sides
<1>2. /\ A \in Seq(Slots) /\ a \in Nat /\ DOMAIN A = 1 .. a /\ Len(AbstractBook["Sell"]) = a
      /\ \A k \in 1 .. a : A[k] \in Slots /\ A[k] \in Resting /\ orders[A[k]].side = "Sell"
      /\ \A j, k \in 1 .. a : A[j] = A[k] => j = k
      /\ \A s \in Resting : orders[s].side = "Sell" => \E k \in 1 .. a : A[k] = s
  BY BookEntries DEF Sides
<1> HIDE DEF A, B
<1>3. /\ C \in Seq(Slots) /\ Len(C) = b + a /\ DOMAIN C = 1 .. b + a
      /\ \A k \in 1 .. b : C[k] = B[k]
      /\ \A k \in b + 1 .. b + a : C[k] = A[k - b]
  BY <1>1, <1>2
<1> HIDE DEF C, a, b
<1>4. \A k \in 1 .. b + a : k \in 1 .. b \/ (k \in b + 1 .. b + a /\ k - b \in 1 .. a)
  BY <1>1, <1>2
<1>5. \A k \in 1 .. b + a : C[k] \in Resting
  BY <1>1, <1>2, <1>3, <1>4
<1>6. IsInjective(C)
  <2> SUFFICES ASSUME NEW j \in 1 .. b + a, NEW k \in 1 .. b + a, C[j] = C[k]
               PROVE  j = k
    BY <1>3 DEF IsInjective
  <2>1. CASE j \in 1 .. b /\ k \in 1 .. b
    BY <1>1, <1>3, <2>1
  <2>2. CASE j \in b + 1 .. b + a /\ k \in b + 1 .. b + a
    <3>1. j - b \in 1 .. a /\ k - b \in 1 .. a /\ A[j - b] = A[k - b]
      BY <1>1, <1>2, <1>3, <2>2
    <3>2. j - b = k - b
      BY <1>2, <3>1
    <3> QED
      BY <1>1, <3>2
  <2>3. CASE j \in 1 .. b /\ k \in b + 1 .. b + a
    <3>1. k - b \in 1 .. a /\ B[j] = A[k - b]
      BY <1>1, <1>2, <1>3, <2>3
    <3> QED
      BY <1>1, <1>2, <2>3, <3>1
  <2>4. CASE k \in 1 .. b /\ j \in b + 1 .. b + a
    <3>1. j - b \in 1 .. a /\ B[k] = A[j - b]
      BY <1>1, <1>2, <1>3, <2>4
    <3> QED
      BY <1>1, <1>2, <2>4, <3>1
  <2> QED
    BY <1>4, <2>1, <2>2, <2>3, <2>4
<1>7. PICK list \in Seq(Slots) : Threads(list, freeHead, poolIndex) /\ Lists(list, Slots \ Resting)
  BY DEF NothingLost
<1>8. Len(list) \in Nat /\ DOMAIN list = 1 .. Len(list) /\ (list = << >> <=> Len(list) = 0)
  BY LenProperties, EmptySeq
<1>9. ASSUME freeHead # NoSlot
      PROVE  b + a < PoolCapacity
  <2>1. 1 \in DOMAIN list /\ list[1] \in Slots
    BY <1>7, <1>8, <1>9, ElementOfSeq DEF Threads
  <2>2. list[1] \notin Resting
    BY <1>7, <2>1 DEF Lists
  <2> DEFINE D == Append(C, list[1])
  <2>3. /\ D \in Seq(Slots) /\ Len(D) = b + a + 1 /\ DOMAIN D = 1 .. b + a + 1
        /\ \A k \in 1 .. b + a : D[k] = C[k]
        /\ D[b + a + 1] = list[1]
    <3> DEFINE s == list[1]
    <3>1. s \in Slots
      BY <2>1
    <3> HIDE DEF s
    <3>2. /\ D \in Seq(Slots) /\ Len(D) = Len(C) + 1 /\ DOMAIN D = 1 .. Len(C) + 1
          /\ \A k \in 1 .. Len(C) : Append(C, s)[k] = C[k]
          /\ Append(C, s)[Len(C) + 1] = s
      <4>1. C \in Seq(Slots)
        BY <1>3
      <4> HIDE DEF D
      <4>2. D = Append(C, s)
        BY DEF D, s
      <4>3. /\ Append(C, s) \in Seq(Slots) /\ Len(Append(C, s)) = Len(C) + 1
            /\ DOMAIN Append(C, s) = 1 .. Len(C) + 1
            /\ \A k \in 1 .. Len(C) : Append(C, s)[k] = C[k]
            /\ Append(C, s)[Len(C) + 1] = s
        BY ONLY <3>1, <4>1, LenProperties
      <4> QED
        BY <4>2, <4>3
    <3>3. D = Append(C, s)
      BY DEF s
    <3> HIDE DEF D
    <3> QED
      BY <1>3, <3>2, <3>3 DEF s
  <2> HIDE DEF D
  <2>4. IsInjective(D)
    <3> SUFFICES ASSUME NEW j \in DOMAIN D, NEW k \in DOMAIN D, D[j] = D[k]
                 PROVE  j = k
      BY DEF IsInjective
    <3>1. \A n \in DOMAIN D : n \in 1 .. b + a \/ n = b + a + 1
      <4>1. b \in Nat /\ a \in Nat /\ DOMAIN D = 1 .. b + a + 1
        BY <1>1, <1>2, <2>3
      <4> QED
        BY ONLY <4>1
    <3>2. \A n \in 1 .. b + a : D[n] # list[1]
      BY <1>5, <2>2, <2>3
    <3>3. CASE j \in 1 .. b + a /\ k \in 1 .. b + a
      BY <1>3, <1>6, <2>3, <3>3 DEF IsInjective
    <3> QED
      BY <2>3, <3>1, <3>2, <3>3
  <2>5. b + a + 1 <= PoolCapacity
    BY <2>3, <2>4, SlotsFit
  <2> QED
    BY <1>1, <1>2, <2>5, PoolCapacityAssumption
<1>10. ASSUME freeHead = NoSlot
       PROVE  ~(b + a < PoolCapacity)
  <2>1. list = << >>
    <3> SUFFICES ASSUME list # << >> PROVE FALSE
      OBVIOUS
    <3>1. list[1] \in Slots /\ freeHead = list[1]
      BY <1>7, <1>8, ElementOfSeq DEF Threads
    <3> QED
      BY <1>10, <3>1, PoolCapacityAssumption DEF Slots, NoSlot
  <2>2. \A s \in Slots : s \in Resting
    BY <1>7, <1>8, <2>1 DEF Lists
  <2>3. ASSUME NEW s \in Slots
        PROVE  \E k \in DOMAIN C : C[k] = s
    <3>1. s \in Resting /\ orders[s].side \in {"Buy", "Sell"}
      BY <2>2, FieldTypes DEF Sides
    <3>2. CASE orders[s].side = "Buy"
      <4>1. PICK k \in 1 .. b : B[k] = s
        BY <1>1, <3>1, <3>2
      <4>2. k \in 1 .. b + a
        BY <1>1, <1>2
      <4> QED
        BY <1>3, <4>1, <4>2
    <3>3. CASE orders[s].side = "Sell"
      <4>1. PICK k \in 1 .. a : A[k] = s
        BY <1>2, <3>1, <3>3
      <4>2. k + b \in b + 1 .. b + a /\ k + b \in 1 .. b + a /\ (k + b) - b = k
        BY <1>1, <1>2
      <4> QED
        BY <1>3, <4>1, <4>2
    <3> QED
      BY <3>1, <3>2, <3>3
  <2>4. PoolCapacity <= b + a
    BY <1>3, <2>3, SlotsCovered
  <2> QED
    BY <1>1, <1>2, <2>4, PoolCapacityAssumption
<1>11. Len(AbstractBook["Buy"]) + Len(AbstractBook["Sell"]) = b + a
  BY <1>1, <1>2
<1> QED
  BY <1>9, <1>10, <1>11

-----------------------------------------------------------------------------
(***************************************************************************)
(* Every step of the engine is a step of the abstract book or leaves it as *)
(* it is.                                                                  *)
(***************************************************************************)
SameCall == UNCHANGED <<op, taker, left, trades, reports>>

LEMMA SameAbstractBook == ASSUME UNCHANGED <<queues, orders>> PROVE UNCHANGED AbstractBook
BY DEF AbstractBook, AbstractQueue, ByPriority, Entry

LEMMA BookUnchanged == ASSUME UNCHANGED bookVars PROVE UNCHANGED AbstractBook
BY SameAbstractBook DEF bookVars, ladderVars, linkVars

LEMMA EventsMean ==
  /\ \A id, status, side, price, filled, remaining :
       Book!Report(id, status, side, price, filled, remaining)
         = Report(id, status, side, price, filled, remaining)
  /\ Book!NoOrder = NoOrder
BY DEF Book!Report, Report, Book!NoOrder, NoOrder

\* The ids that rest are the same.
LEMMA IdsOnBook ==
  ASSUME TypeOK, BookInv, NEW id
  PROVE  id \in Book!RestingAt("Buy") \cup Book!RestingAt("Sell") <=> id \in RestingIds
<1>1. ASSUME NEW side \in Sides
      PROVE  id \in Book!RestingAt(side) <=>
               \E s \in Resting : orders[s].side = side /\ orders[s].id = id
  <2> DEFINE F == Flat(side, queues[side])
  <2>1. /\ DOMAIN AbstractBook[side] = 1 .. Len(F)
        /\ \A k \in 1 .. Len(F) : /\ F[k] \in Slots /\ F[k] \in Resting
                                  /\ orders[F[k]].side = side
                                  /\ AbstractBook[side][k] = EntryOf[F[k]]
        /\ \A s \in Resting : orders[s].side = side => \E k \in 1 .. Len(F) : F[k] = s
    BY BookEntries
  <2> HIDE DEF F
  <2>2. \A k \in 1 .. Len(F) : AbstractBook[side][k].id = orders[F[k]].id
    <3>1. \A s \in Slots : EntryOf[s].id = orders[s].id
      BY DEF EntryOf, Entry
    <3> QED
      BY <2>1, <3>1
  <2>3. id \in Book!RestingAt(side) <=>
          \E k \in DOMAIN AbstractBook[side] : AbstractBook[side][k].id = id
    BY DEF Book!RestingAt
  <2> QED
    BY <2>1, <2>2, <2>3
<1>2. \A s \in Resting : orders[s].side \in {"Buy", "Sell"}
  BY FieldTypes DEF Resting, Sides
<1> QED
  BY <1>1, <1>2 DEF RestingIds, Sides

LEMMA SubmitOnBook ==
  ASSUME ~ReuseIds, TypeOK, BookInv, NEW o \in Orders, Submit(o)
  PROVE  Book!Submit(o)
<1>1. /\ pc = "idle" /\ op' = "process" /\ taker' = o /\ left' = o.quantity
      /\ UNCHANGED trades /\ UNCHANGED bookVars /\ o.id \notin RestingIds
      /\ \/ ValidateOrder(o) /\ StartMatching
         \/ ~ValidateOrder(o) /\ TurnAway(o)
  BY DEF Submit, Accept, Reject, Enter, EnterProcess
<1>2. o.id \notin Book!RestingAt("Buy") \cup Book!RestingAt("Sell")
  BY <1>1, IdsOnBook
<1>3. Book!Valid(o) <=> ValidateOrder(o)
  BY DEF Book!Valid, ValidateOrder
<1>4. IF Book!Valid(o)
      THEN AbstractPhase' = "matching" /\ UNCHANGED reports
      ELSE /\ AbstractPhase' = "done"
           /\ reports' = <<Book!Report(o.id, "Cancelled", o.side, o.price, 0, o.quantity)>>
  BY <1>1, <1>3, EventsMean DEF AbstractPhase, StartMatching, TurnAway
<1> QED
  BY <1>1, <1>2, <1>4, BookUnchanged DEF Book!Submit, AbstractPhase

LEMMA LevelOnBook ==
  ASSUME BeginLevel \/ EndLevel
  PROVE  UNCHANGED Book!vars
<1>1. /\ UNCHANGED bookVars /\ UNCHANGED argVars /\ UNCHANGED left /\ UNCHANGED eventVars
      /\ pc \in {"match", "level"} /\ pc' \in {"match", "level"}
  BY DEF BeginLevel, EndLevel
<1> QED
  BY <1>1, BookUnchanged DEF Book!vars, AbstractPhase, argVars, eventVars

LEMMA ConcludeOnBook ==
  ASSUME TypeOK, BookInv, NothingLost, Conclude
  PROVE  Book!Finish
<1>1. /\ pc = "match" /\ ~CanMatch /\ (ShouldRest => freeHead = NoSlot)
      /\ UNCHANGED bookVars /\ UNCHANGED <<op, taker, left, trades>>
      /\ pc' = "done"
      /\ reports' = Append(reports, Report(taker.id, IF left = 0 THEN "Filled" ELSE "Cancelled",
                                           taker.side, taker.price, taker.quantity - left, left))
  BY DEF Conclude, MatchOver, argVars, ReportTaker
<1>2. ~Book!CanFill
  BY <1>1, OverCannotFill
<1>3. ~(/\ left > 0 /\ taker.type = "Limit"
        /\ Len(AbstractBook["Buy"]) + Len(AbstractBook["Sell"]) < PoolCapacity)
  BY <1>1, RoomLeft DEF ShouldRest
<1>4. UNCHANGED AbstractBook
  BY <1>1, BookUnchanged
<1>5. AbstractPhase = "matching" /\ AbstractPhase' = "done"
  BY <1>1 DEF AbstractPhase
<1> QED
  BY <1>1, <1>2, <1>3, <1>4, <1>5, EventsMean DEF Book!Finish

LEMMA RestOnBook ==
  ASSUME PricesFit, TypeOK, PoolPermutation, BookInv, CallInv, NothingLost,
         TypeOK', BookInv', Rest
  PROVE  Book!Finish
<1>1. /\ pc = "match" /\ ~CanMatch /\ left > 0 /\ taker.type = "Limit"
      /\ UNCHANGED <<op, taker, left, trades>> /\ pc' = "done"
      /\ reports' = Append(reports, Report(taker.id, "Resting", taker.side, taker.price,
                                           taker.quantity - left, left))
  BY DEF Rest, MatchOver, ShouldRest, argVars, ReportTaker
<1>2. PICK slot \in Slots :
        /\ Allocate(slot)
        /\ PushBack(taker.side, taker.price, slot)
        /\ orders' = [orders EXCEPT ![slot] =
             [id |-> taker.id, side |-> taker.side, price |-> taker.price,
              quantity |-> taker.quantity, remaining |-> left,
              timestamp |-> taker.timestamp, status |-> "Resting"]]
  BY RestPushes
<1>3. taker.side \in Sides /\ taker.price \in Levels
  BY RestPushes
<1>4. \A sd \in Sides, n \in Levels : ~InLevel(slot, sd, n)
  BY <1>2, FreshSlot DEF BookInv
<1>5. /\ \A t \in Slots \ {slot} : orders'[t] = orders[t]
      /\ orders'[slot].price = taker.price
      /\ EntryOf'[slot] = [id |-> taker.id, price |-> taker.price,
                           quantity |-> taker.quantity, remaining |-> left]
  BY <1>2 DEF TypeOK, EntryOf, Entry
<1>6. AbstractBook' = [AbstractBook EXCEPT ![taker.side] = Book!Enqueue(taker.side, @, EntryOf'[slot])]
  BY <1>2, <1>3, <1>4, <1>5, PushOnBook
<1>7. ~Book!CanFill
  BY <1>1, OverCannotFill
<1>8. Len(AbstractBook["Buy"]) + Len(AbstractBook["Sell"]) < PoolCapacity
  BY <1>2, RoomLeft DEF Allocate
<1>9. taker.price <= MaxLevels - 1
  BY <1>3, BitsetAssumption DEF Levels
<1>10. AbstractPhase = "matching" /\ AbstractPhase' = "done"
  BY <1>1 DEF AbstractPhase
<1>11. left # 0
  BY <1>1, FieldTypes
<1> QED
  BY <1>1, <1>5, <1>6, <1>7, <1>8, <1>9, <1>10, <1>11, EventsMean DEF Book!Finish

LEMMA CancelUnknownOnBook ==
  ASSUME TypeOK, BookInv, MapComplete, NEW id \in OrderIds, CancelUnknown(id)
  PROVE  Book!Cancel(id)
<1>1. /\ pc = "idle" /\ pc' = "done" /\ op' = "cancel" /\ taker' = [NoOrder EXCEPT !.id = id]
      /\ UNCHANGED <<left, trades, reports>> /\ UNCHANGED bookVars /\ orderMap[id] = NoSlot
  BY DEF CancelUnknown, EnterCancel
<1>2. id \notin RestingIds
  <2> SUFFICES ASSUME NEW s \in Resting, orders[s].id = id
               PROVE  FALSE
    BY DEF RestingIds
  <2>1. s = NoSlot /\ s \in Slots
    BY <1>1 DEF MapComplete, Resting
  <2> QED
    BY <2>1, PoolCapacityAssumption DEF Slots, NoSlot
<1>3. id \notin Book!RestingAt("Buy") \cup Book!RestingAt("Sell")
  BY <1>2, IdsOnBook
<1> QED
  BY <1>1, <1>3, BookUnchanged, EventsMean DEF Book!Cancel, AbstractPhase

LEMMA CancelKnownOnBook ==
  ASSUME TypeOK, BookInv, TypeOK', BookInv', NEW id \in OrderIds, CancelKnown(id)
  PROVE  Book!Cancel(id)
<1> DEFINE s == orderMap[id]
           side == orders[s].side
<1>1. /\ pc = "idle" /\ pc' = "done" /\ op' = "cancel" /\ taker' = [NoOrder EXCEPT !.id = id]
      /\ UNCHANGED <<left, trades>>
      /\ reports' = <<Report(orders[s].id, "Cancelled", side, orders[s].price,
                             orders[s].quantity - orders[s].remaining, orders[s].remaining)>>
  BY DEF CancelKnown, EnterCancel, ReportCancelled
<1>2. /\ s \in Slots /\ orders[s].id = id /\ side \in Sides /\ orders[s].price \in Levels
      /\ InLevel(s, side, orders[s].price)
      /\ RemoveFrom(side, orders[s].price, s)
      /\ UNCHANGED orders
  BY CancelRemoves
<1> HIDE DEF s, side
<1>3. PICK k \in DOMAIN AbstractBook[side] :
        /\ AbstractBook[side][k] = EntryOf[s]
        /\ AbstractBook' = [AbstractBook EXCEPT ![side] = RemoveAt(@, k)]
  BY <1>2, RemovalOnBook
<1>4. \A q, n : Book!RemoveAt(q, n) = RemoveAt(q, n)
  BY DEF Book!RemoveAt, RemoveAt
<1>5. /\ AbstractBook[side][k].id = id
      /\ AbstractBook[side][k].price = orders[s].price
      /\ AbstractBook[side][k].quantity = orders[s].quantity
      /\ AbstractBook[side][k].remaining = orders[s].remaining
  BY <1>2, <1>3 DEF EntryOf, Entry
<1>6. \E sd \in Book!Sides : \E n \in DOMAIN AbstractBook[sd] :
        /\ AbstractBook[sd][n].id = id
        /\ AbstractBook' = [AbstractBook EXCEPT ![sd] = Book!RemoveAt(@, n)]
        /\ reports' = <<Book!Report(id, "Cancelled", sd, AbstractBook[sd][n].price,
                          AbstractBook[sd][n].quantity - AbstractBook[sd][n].remaining,
                          AbstractBook[sd][n].remaining)>>
  <2>1. side \in Book!Sides
    BY <1>2 DEF Book!Sides, Sides
  <2> QED
    BY <1>1, <1>2, <1>3, <1>4, <1>5, <2>1, EventsMean
<1> QED
  BY <1>1, <1>6, EventsMean DEF Book!Cancel, AbstractPhase

LEMMA ReturnOnBook ==
  ASSUME Return
  PROVE  Book!Return
BY BookUnchanged, EventsMean DEF Return, EndCall, Book!Return, AbstractPhase

LEMMA RemovalOfHead ==
  ASSUME NEW S, NEW q \in Seq(S), 1 \in DOMAIN q
  PROVE  RemoveAt(q, 1) = Tail(q)
<1>1. /\ Len(q) \in Nat /\ DOMAIN q = 1 .. Len(q) /\ 1 <= Len(q)
      /\ \A k \in 1 .. Len(q) : q[k] \in S
  BY LenProperties, ElementOfSeq
<1> DEFINE n == Len(q)
           r == RemoveAt(q, 1)
           t == Tail(q)
<1>2. /\ r \in Seq(S) /\ Len(r) = n - 1
      /\ \A j \in 1 .. n - 1 : r[j] = q[j + 1]
  <2>1. 1 \in 1 .. n
    BY <1>1
  <2>2. /\ r \in Seq(S) /\ Len(r) = n - 1
        /\ \A j \in 1 .. n - 1 : r[j] = IF j < 1 THEN q[j] ELSE q[j + 1]
    BY <2>1, RemoveAtProperties
  <2> HIDE DEF r
  <2>3. \A j \in 1 .. n - 1 : ~(j < 1)
    BY <1>1
  <2> QED
    BY <2>2, <2>3
<1>3. /\ t \in Seq(S) /\ Len(t) = n - 1
      /\ \A j \in 1 .. n - 1 : t[j] = q[j + 1]
  <2>1. q # << >>
    BY <1>1, EmptySeq
  <2> QED
    BY <1>1, <2>1, HeadTailProperties
<1> HIDE DEF r, t
<1>4. r = t
  BY <1>1, <1>2, <1>3, SeqEqual
<1> QED
  BY <1>4 DEF r, t

LEMMA FillMakerOnBook ==
  ASSUME TypeOK, CursorOK, BookInv, CursorBest, TradesInv, TypeOK', BookInv', FillMaker
  PROVE  Book!Fill
<1> DEFINE s == FirstSlot
           side == Contra
           maker == orders[s]
<1>1. /\ pc = "level" /\ MoreAtLevel /\ maker.remaining <= left
      /\ trades' = Append(trades, Trade(taker, maker, maker.remaining))
      /\ left' = left - maker.remaining
      /\ orders' = [orders EXCEPT ![s] = Reduced(orders[s], 0, "Filled")]
      /\ RemoveFrom(side, cursor, s)
      /\ reports' = Append(reports, Report(maker.id, "Filled", side, maker.price, maker.quantity, 0))
      /\ UNCHANGED <<op, taker, pc>>
  BY DEF FillMaker, TradeWith, ReportFilled, argVars
<1>2. /\ s \in Slots /\ side \in Sides /\ cursor \in Levels /\ InLevel(s, side, cursor)
  BY <1>1, FirstStandsFirst DEF BookInv
<1>3. /\ 1 \in DOMAIN AbstractBook[side]
      /\ Flat(side, queues[side])[1] = s
      /\ AbstractBook[side][1] = EntryOf[s]
  BY <1>1, FirstHeadsBook
<1>4. Book!CanFill
  BY <1>1, LoopCanFill
<1>5. Book!Contra = side
  BY ContraMeans
<1> HIDE DEF s, side
<1>6. /\ \A t \in Slots \ {s} : orders'[t] = orders[t]
      /\ orders'[s].price = orders[s].price
  <2>1. /\ \A t \in Slots \ {s} : orders'[t] = orders[t]
        /\ orders'[s] = Reduced(orders[s], 0, "Filled")
    BY <1>1, <1>2 DEF TypeOK
  <2>2. orders[s] \in SlotType /\ 0 \in Int /\ "Filled" \in Statuses
    BY <1>2, FieldTypes DEF Statuses
  <2>3. Reduced(orders[s], 0, "Filled").price = orders[s].price
    BY <2>2, ReducedProperties
  <2> QED
    BY <2>1, <2>3
<1>7. PICK k \in DOMAIN AbstractBook[side] :
        /\ Flat(side, queues[side])[k] = s
        /\ AbstractBook' = [AbstractBook EXCEPT ![side] = RemoveAt(@, k)]
  BY <1>1, <1>2, <1>6, RemovalOnBook
<1>8. /\ AbstractBook[side] \in Seq(EntryType)
      /\ k = 1
  BY <1>2, <1>3, <1>7, BookEntries
<1>9. AbstractBook' = [AbstractBook EXCEPT ![side] = Tail(@)]
  <2>1. RemoveAt(AbstractBook[side], 1) = Tail(AbstractBook[side])
    BY <1>3, <1>8, RemovalOfHead
  <2> QED
    BY <1>7, <1>8, <2>1
<1>10. Head(AbstractBook[side]) = EntryOf[s]
  BY <1>3, <1>8
<1>11. /\ EntryOf[s].id = maker.id /\ EntryOf[s].price = maker.price
       /\ EntryOf[s].quantity = maker.quantity /\ EntryOf[s].remaining = maker.remaining
  BY <1>2 DEF EntryOf, Entry
<1>12. Book!Smaller(left, maker.remaining) = maker.remaining
  BY <1>1, <1>2, FieldTypes DEF Book!Smaller
<1>13. Book!Trade(taker, EntryOf[s], maker.remaining) = Trade(taker, maker, maker.remaining)
  BY <1>11 DEF Book!Trade, Trade
<1>14. AbstractPhase = "matching" /\ UNCHANGED AbstractPhase
  BY <1>1 DEF AbstractPhase
<1> HIDE DEF maker
<1> QED
  BY <1>1, <1>4, <1>5, <1>9, <1>10, <1>11, <1>12, <1>13, <1>14, EventsMean DEF Book!Fill

\* The first entry changed.
LEMMA EntriesOfFill ==
  ASSUME NEW list \in Seq(Slots), NEW entry \in [Slots -> EntryType],
         NEW entry2 \in [Slots -> EntryType], 1 \in DOMAIN list,
         \A j \in 1 .. Len(list) : j # 1 => entry2[list[j]] = entry[list[j]]
  PROVE  Entries(list, entry2) = <<entry2[list[1]]>> \o Tail(Entries(list, entry))
<1> DEFINE n == Len(list)
           es == Entries(list, entry)
           es2 == Entries(list, entry2)
           t == Tail(es)
           e == entry2[list[1]]
           new == <<e>> \o t
<1>1. /\ n \in Nat /\ DOMAIN list = 1 .. n
      /\ es \in Seq(EntryType) /\ Len(es) = n /\ DOMAIN es = 1 .. n
      /\ \A j \in 1 .. n : list[j] \in Slots /\ es[j] = entry[list[j]]
  BY EntriesProperties
<1>2. /\ es2 \in Seq(EntryType) /\ Len(es2) = n
      /\ \A j \in 1 .. n : es2[j] = entry2[list[j]]
  BY EntriesProperties
<1> HIDE DEF es, es2
<1>3. 1 <= n /\ es # << >>
  BY <1>1, EmptySeq
<1>4. /\ t \in Seq(EntryType) /\ Len(t) = n - 1
      /\ \A j \in 1 .. n - 1 : t[j] = es[j + 1]
  BY <1>1, <1>3, HeadTailProperties
<1>5. e \in EntryType
  BY <1>1, <1>3
<1> HIDE DEF t, e
<1>6. /\ new \in Seq(EntryType) /\ Len(new) = 1 + Len(t)
      /\ new[1] = e
      /\ \A j \in 1 .. Len(t) : new[j + 1] = t[j]
  BY <1>4, <1>5
<1> HIDE DEF new
<1>7. Len(new) = n
  BY <1>1, <1>4, <1>6
<1>8. ASSUME NEW j \in 1 .. n
      PROVE  es2[j] = new[j]
  <2>1. CASE j = 1
    BY <1>2, <1>3, <1>6, <2>1 DEF e
  <2>2. CASE j # 1
    <3>1. j - 1 \in 1 .. n - 1 /\ (j - 1) + 1 = j /\ 1 .. Len(t) = 1 .. n - 1
      BY <1>1, <1>4, <1>8, <2>2
    <3>2. new[j] = t[j - 1] /\ t[j - 1] = es[j]
      BY <1>4, <1>6, <3>1
    <3> QED
      BY <1>1, <1>2, <2>2, <3>2
  <2> QED
    BY <2>1, <2>2
<1>9. es2 = new
  BY <1>2, <1>6, <1>7, <1>8, SeqEqual
<1> QED
  BY <1>9 DEF es2, new, t, e, es

LEMMA FillTakerOnBook ==
  ASSUME TypeOK, CursorOK, BookInv, CursorBest, TradesInv, TypeOK', BookInv', FillTaker
  PROVE  Book!Fill
<1> DEFINE s == FirstSlot
           side == Contra
           maker == orders[s]
           F == Flat(side, queues[side])
           after == [EntryOf[s] EXCEPT !.remaining = EntryOf[s].remaining - left]
<1>1. /\ pc = "level" /\ MoreAtLevel /\ maker.remaining > left
      /\ trades' = Append(trades, Trade(taker, maker, left))
      /\ left' = left - left
      /\ orders' = [orders EXCEPT ![s] = Reduced(orders[s], orders[s].remaining - left, "PartiallyFilled")]
      /\ UNCHANGED <<queues, op, taker, pc, reports>>
  BY DEF FillTaker, TradeWith, argVars, ladderVars, linkVars
<1>2. /\ s \in Slots /\ side \in Sides /\ cursor \in Levels /\ InLevel(s, side, cursor)
  BY <1>1, FirstStandsFirst DEF BookInv
<1>3. /\ 1 \in DOMAIN AbstractBook[side] /\ F[1] = s
      /\ AbstractBook[side][1] = EntryOf[s]
  BY <1>1, FirstHeadsBook
<1>4. Book!CanFill
  BY <1>1, LoopCanFill
<1>5. Book!Contra = side
  BY ContraMeans
<1>6. s \in Resting /\ orders[s].side = side
  BY <1>2, StandsWhereItBelongs DEF BookInv, Belongs
<1> HIDE DEF s, side
<1>7. /\ \A t \in Slots \ {s} : EntryOf'[t] = EntryOf[t]
      /\ EntryOf'[s] = after
  <2>1. \A t \in Slots \ {s} : orders'[t] = orders[t]
    BY <1>1, <1>2 DEF TypeOK
  <2>2. /\ orders'[s].id = orders[s].id /\ orders'[s].price = orders[s].price
        /\ orders'[s].quantity = orders[s].quantity
        /\ orders'[s].remaining = orders[s].remaining - left
    BY <1>1, <1>2, FieldTypes DEF TypeOK, SlotType, Reduced
  <2> QED
    BY <1>2, <2>1, <2>2 DEF EntryOf, Entry
<1>8. /\ BookIsFlat /\ BookIsFlatAfter
  BY BookFlat, FlatAfter
<1>9. /\ F \in Seq(Slots) /\ Len(F) \in Nat /\ DOMAIN F = 1 .. Len(F)
      /\ DOMAIN AbstractBook[side] = 1 .. Len(F)
      /\ \A k \in 1 .. Len(F) : F[k] \in Slots
      /\ \A j, k \in 1 .. Len(F) : F[j] = F[k] => j = k
      /\ AbstractBook[side] \in Seq(EntryType)
  BY <1>2, BookEntries
<1>10. AbstractBook'[side] = <<after>> \o Tail(AbstractBook[side])
  <2>1. /\ AbstractBook[side] = Entries(F, EntryOf)
        /\ AbstractBook'[side] = Entries(F, EntryOf')
        /\ EntryOf \in [Slots -> EntryType] /\ EntryOf' \in [Slots -> EntryType]
    BY <1>1, <1>2, <1>8 DEF BookIsFlat, BookIsFlatAfter
  <2> HIDE DEF F
  <2>2. 1 \in DOMAIN F /\ \A j \in 1 .. Len(F) : j # 1 => EntryOf'[F[j]] = EntryOf[F[j]]
    BY <1>3, <1>7, <1>9
  <2>3. Entries(F, EntryOf') = <<EntryOf'[F[1]]>> \o Tail(Entries(F, EntryOf))
    BY <1>9, <2>1, <2>2, EntriesOfFill
  <2> QED
    BY <1>3, <1>7, <2>1, <2>3
<1>11. ASSUME NEW sd \in Sides, sd # side
       PROVE  AbstractBook'[sd] = AbstractBook[sd]
  <2> DEFINE L == Flat(sd, queues[sd])
  <2>1. /\ AbstractBook[sd] = Entries(L, EntryOf)
        /\ AbstractBook'[sd] = Entries(L, EntryOf')
    BY <1>1, <1>8 DEF BookIsFlat, BookIsFlatAfter
  <2>2. L \in Seq(Slots) /\ \A j \in DOMAIN L : L[j] \in Slots \ {s}
    BY <1>6, <1>11, BookEntries
  <2> HIDE DEF L
  <2>3. Entries(L, EntryOf') = Entries(L, EntryOf)
    BY <1>7, <2>2, EntriesSame
  <2> QED
    BY <2>1, <2>3
<1> HIDE DEF F, after
<1>12. AbstractBook' = [AbstractBook EXCEPT ![side] = <<after>> \o Tail(@)]
  BY <1>10, <1>11 DEF AbstractBook
<1>13. Head(AbstractBook[side]) = EntryOf[s]
  BY <1>3, <1>9
<1>14. EntryOf[s].id = maker.id /\ EntryOf[s].price = maker.price /\ EntryOf[s].remaining = maker.remaining
  BY <1>2 DEF EntryOf, Entry
<1>15. /\ left # maker.remaining
       /\ Book!Smaller(left, maker.remaining) = left
  BY <1>1, <1>2, FieldTypes DEF Book!Smaller
<1>16. Book!Trade(taker, EntryOf[s], left) = Trade(taker, maker, left)
  BY <1>14 DEF Book!Trade, Trade
<1>17. AbstractPhase = "matching" /\ UNCHANGED AbstractPhase
  BY <1>1 DEF AbstractPhase
<1> HIDE DEF maker
<1> QED
  BY <1>1, <1>4, <1>5, <1>12, <1>13, <1>14, <1>15, <1>16, <1>17 DEF Book!Fill, after

-----------------------------------------------------------------------------
LEMMA InitOnBook == Init => Book!Init
<1> SUFFICES ASSUME Init PROVE Book!Init
  OBVIOUS
<1>1. TypeOK /\ BookInv
  BY InitTypes, InitBook
<1>2. Resting = {}
  BY DEF Init, LadderInit, Resting, InLevel
<1>3. ASSUME NEW side \in Sides
      PROVE  AbstractBook[side] = << >>
  <2> DEFINE F == Flat(side, queues[side])
  <2>1. /\ Len(F) \in Nat /\ AbstractBook[side] \in Seq(EntryType)
        /\ Len(AbstractBook[side]) = Len(F)
        /\ \A k \in 1 .. Len(F) : F[k] \in Resting
    BY <1>1, BookEntries
  <2> HIDE DEF F
  <2>2. Len(F) = 0
    <3>1. 1 \notin 1 .. Len(F)
      BY <1>2, <2>1
    <3> QED
      BY <2>1, <3>1
  <2> QED
    BY <2>1, <2>2, EmptySeq
<1>4. AbstractBook = [side \in Sides |-> << >>]
  BY <1>3 DEF AbstractBook
<1>5. /\ AbstractPhase = "idle" /\ op = "none" /\ taker = NoOrder /\ left = 0
      /\ trades = << >> /\ reports = << >>
  BY DEF Init, NoCall, AbstractPhase
<1> QED
  BY <1>4, <1>5, EventsMean DEF Book!Init, Book!Sides, Sides

LEMMA NextOnBook ==
  ASSUME PricesFit, ~ReuseIds, TypeOK, CursorOK, PoolPermutation, BookInv, CallInv,
         MapComplete, CursorBest, TradesInv, NothingLost, TypeOK', BookInv', [Next]_vars
  PROVE  [Book!Next]_(Book!vars)
<1>1. CASE UNCHANGED vars
  BY <1>1, BookUnchanged DEF vars, callVars, argVars, eventVars, Book!vars, AbstractPhase
<1>2. ASSUME NEW o \in Orders, Submit(o)
      PROVE  Book!Next
  BY <1>2, SubmitOnBook DEF Book!Next
<1>3. CASE BeginLevel \/ EndLevel
  BY <1>3, LevelOnBook
<1>4. CASE FillMaker \/ FillTaker
  BY <1>4, FillMakerOnBook, FillTakerOnBook DEF Book!Next
<1>5. CASE Conclude \/ Rest
  BY <1>5, ConcludeOnBook, RestOnBook DEF Book!Next
<1>6. ASSUME NEW id \in OrderIds, CancelUnknown(id) \/ CancelKnown(id)
      PROVE  Book!Next
  <2>1. Book!Cancel(id)
    BY <1>6, CancelUnknownOnBook, CancelKnownOnBook
  <2> QED
    BY <2>1 DEF Book!Next
<1>7. CASE Return
  BY <1>7, ReturnOnBook DEF Book!Next
<1> QED
  BY <1>1, <1>2, <1>3, <1>4, <1>5, <1>6, <1>7 DEF Next, Match

\* Levels, links, bitsets, map and pool together behave as one queue per side in
\* price-time order: every step is one of that book's, or leaves it as it is.
THEOREM EngineIsBook == ASSUME PricesFit, ~ReuseIds PROVE Spec => ImplementsPriceTimeBook
<1>1. Init => Book!Init
  BY InitOnBook
<1>2. /\ TypeOK /\ CursorOK /\ PoolPermutation /\ BookInv /\ CallInv
      /\ MapComplete /\ CursorBest /\ TradesInv /\ NothingLost /\ TypeOK' /\ BookInv'
      /\ [Next]_vars
      => [Book!Next]_(Book!vars)
  BY NextOnBook
<1> QED
  BY <1>1, <1>2, TypeCorrect, PoolCorrect, BookInvCorrect, IdsStayUnique, TradesStayGood,
     NothingIsLost, PTL DEF Spec, Book!Spec, ImplementsPriceTimeBook
=================================================================================
