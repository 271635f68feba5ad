--------------------------- MODULE PriceLadderProofs ---------------------------
(***************************************************************************)
(* What the operators of PriceLadder return, for every number of levels    *)
(* and every level of any length: the bitset finds the best level, and the *)
(* links of the intrusive lists hold the queues they should.               *)
(***************************************************************************)
EXTENDS PriceLadder, DynamicBitsetProofs, SequenceTheorems

\* The level the matching loop looks at first is an occupied one, and the best
\* of them.
LEMMA FindBestIsBest ==
  ASSUME LadderTypeOK, NEW side \in Sides, NEW i \in Occupied(side)
  PROVE  /\ FindBest(side) \in Occupied(side)
         /\ FindBest(side) \in Levels
         /\ side = "Buy" => i <= FindBest(side)
         /\ side = "Sell" => FindBest(side) <= i
<1>1. i \in Levels /\ Test(bits[side], i) /\ bits[side] \in BitArrays
  BY DEF Occupied, SetBits, LadderTypeOK
<1>2. CASE side = "Buy"
  BY <1>1, <1>2, FindHighestRight DEF FindBest, Occupied, SetBits
<1>3. CASE side = "Sell"
  BY <1>1, <1>3, FindLowestRight DEF FindBest, Occupied, SetBits
<1> QED
  BY <1>2, <1>3 DEF Sides

LEMMA FindBestFindsNone ==
  ASSUME LadderTypeOK, NEW side \in Sides, Occupied(side) = {}
  PROVE  FindBest(side) = -1
<1>1. bits[side] \in BitArrays /\ \A i \in Levels : ~Test(bits[side], i)
  BY DEF Occupied, SetBits, LadderTypeOK
<1> QED
  BY <1>1, FindNothing DEF FindBest

\* A price has the level of its own number, or none.
LEMMA PriceToIndexProperties ==
  ASSUME NEW price \in Int
  PROVE  /\ PriceToIndex(price) \in Levels \cup {-1}
         /\ PriceToIndex(price) >= 0 => PriceToIndex(price) = price
<1>1. TruncDiv(price - BasePrice, TickSize) = price
  BY DEF TruncDiv, BasePrice, TickSize
<1> QED
  BY <1>1, BitsetAssumption DEF PriceToIndex, Levels

\* Removing position i leaves the rest in its order.
LEMMA RemoveAtProperties ==
  ASSUME NEW S, NEW q \in Seq(S), NEW i \in 1 .. Len(q)
  PROVE  /\ RemoveAt(q, i) \in Seq(S)
         /\ Len(RemoveAt(q, i)) = Len(q) - 1
         /\ \A k \in 1 .. Len(q) - 1 :
              RemoveAt(q, i)[k] = IF k < i THEN q[k] ELSE q[k + 1]
<1> DEFINE front == SubSeq(q, 1, i - 1)
           back  == SubSeq(q, i + 1, Len(q))
<1>0. /\ Len(q) \in Nat
      /\ \A k \in 1 .. Len(q) : q[k] \in S
  BY LenProperties, ElementOfSeq
<1>1. /\ front \in Seq(S)
      /\ Len(front) = i - 1
      /\ \A k \in 1 .. i - 1 : front[k] = q[k]
  <2>1. \A k \in 1 .. i - 1 : q[k] \in S
    BY <1>0
  <2> QED
    BY <1>0, <2>1, SubSeqProperties
<1>2. /\ back \in Seq(S)
      /\ Len(back) = Len(q) - i
      /\ \A k \in 1 .. Len(q) - i : back[k] = q[k + i]
  <2>1. \A k \in i + 1 .. Len(q) : q[k] \in S
    BY <1>0
  <2>2. /\ back \in Seq(S)
        /\ Len(back) = IF i + 1 <= Len(q) THEN Len(q) - (i + 1) + 1 ELSE 0
        /\ \A k \in 1 .. Len(q) - (i + 1) + 1 : back[k] = q[i + 1 + k - 1]
    BY <1>0, <2>1, SubSeqProperties
  <2> QED
    BY <1>0, <2>2
<1> HIDE DEF front, back
<1>3. /\ front \o back \in Seq(S)
      /\ Len(front \o back) = Len(front) + Len(back)
      /\ \A k \in 1 .. Len(front) + Len(back) :
           (front \o back)[k] = IF k <= Len(front) THEN front[k] ELSE back[k - Len(front)]
  BY <1>1, <1>2, ConcatProperties
<1>4. RemoveAt(q, i) = front \o back
  BY DEF RemoveAt, front, back
<1>5. Len(front \o back) = Len(q) - 1
  BY <1>0, <1>1, <1>2, <1>3
<1>6. ASSUME NEW k \in 1 .. Len(q) - 1
      PROVE  (front \o back)[k] = IF k < i THEN q[k] ELSE q[k + 1]
  <2>0. k \in 1 .. Len(front) + Len(back)
    BY <1>0, <1>1, <1>2
  <2>1. CASE k < i
    BY <1>0, <1>1, <1>3, <2>0, <2>1
  <2>2. CASE ~(k < i)
    <3>1. k - Len(front) \in 1 .. Len(q) - i /\ k - Len(front) + i = k + 1
      BY <1>0, <1>1, <2>2
    <3>2. (front \o back)[k] = back[k - Len(front)]
      BY <1>0, <1>1, <1>3, <2>0, <2>2
    <3> QED
      BY <1>2, <2>2, <3>1, <3>2
  <2> QED
    BY <2>1, <2>2
<1> QED
  BY <1>3, <1>4, <1>5, <1>6

\* What remove() leaves of a queue: the other slots, in their order.
LEMMA WithoutProperties ==
  ASSUME NEW S, NEW q \in Seq(S), NEW i \in 1 .. Len(q), IsInjective(q)
  PROVE  LET r == Without(q, q[i]) IN
         /\ r \in Seq(S)
         /\ Len(q) \in Nat /\ DOMAIN q = 1 .. Len(q)
         /\ Len(r) = Len(q) - 1 /\ DOMAIN r = 1 .. Len(q) - 1
         /\ \A k \in 1 .. Len(q) - 1 : r[k] = IF k < i THEN q[k] ELSE q[k + 1]
         /\ IsInjective(r)
         /\ \A k \in 1 .. Len(q) - 1 : r[k] # q[i]
<1> DEFINE r == RemoveAt(q, i)
<1>0. Len(q) \in Nat /\ DOMAIN q = 1 .. Len(q)
  BY LenProperties
<1>1. \A k \in DOMAIN q : q[k] = q[i] => k = i
  BY <1>0 DEF IsInjective
<1>2. (CHOOSE k \in DOMAIN q : q[k] = q[i]) = i
  BY <1>0, <1>1
<1>3. Without(q, q[i]) = r
  BY <1>0, <1>2 DEF Without
<1>4. /\ r \in Seq(S)
      /\ Len(r) = Len(q) - 1
      /\ \A k \in 1 .. Len(q) - 1 : r[k] = IF k < i THEN q[k] ELSE q[k + 1]
  BY RemoveAtProperties
<1> HIDE DEF r
<1>5. DOMAIN r = 1 .. Len(q) - 1
  BY <1>4, LenProperties
<1>6. ASSUME NEW j \in DOMAIN r, NEW k \in DOMAIN r, r[j] = r[k]
      PROVE  j = k
  <2> DEFINE at(n) == IF n < i THEN n ELSE n + 1
  <2>1. /\ at(j) \in DOMAIN q /\ r[j] = q[at(j)]
        /\ at(k) \in DOMAIN q /\ r[k] = q[at(k)]
    BY <1>0, <1>4, <1>5
  <2>2. at(j) = at(k)
    BY <1>6, <2>1 DEF IsInjective
  <2> QED
    BY <1>0, <1>5, <2>2
<1>7. IsInjective(r)
  BY <1>6 DEF IsInjective
<1>8. ASSUME NEW k \in DOMAIN r
      PROVE  r[k] # q[i]
  <2>1. k < i => r[k] = q[k] /\ k \in DOMAIN q
    BY <1>0, <1>4, <1>5
  <2>2. ~(k < i) => r[k] = q[k + 1] /\ k + 1 \in DOMAIN q /\ k + 1 # i
    BY <1>0, <1>4, <1>5
  <2> QED
    BY <1>0, <1>1, <1>5, <2>1, <2>2
<1>9. \A k \in 1 .. Len(q) - 1 : r[k] # q[i]
  BY <1>5, <1>8
<1> QED
  BY <1>0, <1>3, <1>4, <1>5, <1>7, <1>9

-----------------------------------------------------------------------------
(***************************************************************************)
(* The links.  Holds is Represents of any links, so that it can be said of *)
(* those after a step.                                                     *)
(***************************************************************************)
Holds(queue, head, tail, prv, nxt) ==
  IF queue = << >> THEN head = NoSlot /\ tail = NoSlot
  ELSE /\ head = queue[1]
       /\ tail = queue[Len(queue)]
       /\ \A k \in DOMAIN queue :
            /\ prv[queue[k]] = IF k = 1 THEN NoSlot ELSE queue[k - 1]
            /\ nxt[queue[k]] = IF k = Len(queue) THEN NoSlot ELSE queue[k + 1]

\* A list is held by its own slots' links only.
LEMMA OtherLinksDoNotMatter ==
  ASSUME NEW q, NEW h, NEW t, NEW prv, NEW nxt, NEW prv2, NEW nxt2,
         Holds(q, h, t, prv, nxt),
         \A k \in DOMAIN q : prv2[q[k]] = prv[q[k]] /\ nxt2[q[k]] = nxt[q[k]]
  PROVE  Holds(q, h, t, prv2, nxt2)
BY DEF Holds

\* What push_back and remove do to the ends of a list and to all links.
Pushes(slot, h, t, prv, nxt, h2, prv2, nxt2) ==
  /\ h2 = IF t = NoSlot THEN slot ELSE h
  /\ \A s \in Slots : prv2[s] = IF s = slot THEN t ELSE prv[s]
  /\ \A s \in Slots :
       nxt2[s] = IF s = t THEN slot ELSE IF s = slot THEN NoSlot ELSE nxt[s]

Unlinks(slot, h, t, prv, nxt, h2, t2, prv2, nxt2) ==
  /\ h2 = IF prv[slot] = NoSlot THEN nxt[slot] ELSE h
  /\ t2 = IF nxt[slot] = NoSlot THEN prv[slot] ELSE t
  /\ \A s \in Slots :
       prv2[s] = IF s = slot THEN NoSlot ELSE IF s = nxt[slot] THEN prv[slot] ELSE prv[s]
  /\ \A s \in Slots :
       nxt2[s] = IF s = slot THEN NoSlot ELSE IF s = prv[slot] THEN nxt[slot] ELSE nxt[s]

\* push_back of a slot that stands in no list.
LEMMA PushBackHolds ==
  ASSUME NEW q \in Seq(Slots), NEW h, NEW t, NEW prv \in [Slots -> SlotOrNone],
         NEW nxt \in [Slots -> SlotOrNone], Holds(q, h, t, prv, nxt), IsInjective(q),
         NEW slot \in Slots, \A k \in DOMAIN q : q[k] # slot,
         NEW h2, NEW prv2, NEW nxt2, Pushes(slot, h, t, prv, nxt, h2, prv2, nxt2)
  PROVE  Holds(Append(q, slot), h2, slot, prv2, nxt2)
<1> DEFINE r == Append(q, slot)
           n == Len(q)
<1>0. /\ n \in Nat /\ DOMAIN q = 1 .. n
      /\ \A k \in 1 .. n : q[k] \in Slots
      /\ q # << >> <=> n # 0
  BY LenProperties, ElementOfSeq, EmptySeq
<1>1. /\ DOMAIN r = 1 .. n + 1 /\ Len(r) = n + 1
      /\ \A k \in 1 .. n : r[k] = q[k]
      /\ r[n + 1] = slot /\ r # << >>
  <2>1. r \in Seq(Slots) /\ Len(r) = n + 1
    BY <1>0
  <2> HIDE DEF r
  <2>2. r # << >> /\ DOMAIN r = 1 .. n + 1
    BY <1>0, <2>1, LenProperties, EmptySeq
  <2>3. r[n + 1] = slot /\ \A k \in 1 .. n : r[k] = q[k]
    BY <1>0 DEF r
  <2> QED
    BY <2>1, <2>2, <2>3
<1> HIDE DEF n, r
<1>2. slot # NoSlot /\ \A k \in 1 .. n : q[k] # NoSlot
  BY <1>0 DEF Slots, NoSlot
<1>3. IF n = 0 THEN h = NoSlot /\ t = NoSlot ELSE h = q[1] /\ t = q[n]
  BY <1>0 DEF Holds, n
<1>4. h2 = r[1]
  BY <1>0, <1>1, <1>2, <1>3 DEF Pushes
<1>5. ASSUME NEW k \in 1 .. n + 1
      PROVE  /\ prv2[r[k]] = IF k = 1 THEN NoSlot ELSE r[k - 1]
             /\ nxt2[r[k]] = IF k = n + 1 THEN NoSlot ELSE r[k + 1]
  <2>1. CASE k = n + 1
    <3>1. prv2[slot] = t /\ nxt2[slot] = NoSlot
      BY <1>0, <1>1, <1>2, <1>3 DEF Pushes
    <3>2. t = IF k = 1 THEN NoSlot ELSE r[k - 1]
      BY <1>0, <1>1, <1>3, <2>1
    <3> QED
      BY <1>0, <1>1, <2>1, <3>1, <3>2
  <2>2. CASE k # n + 1
    <3>1. k \in 1 .. n /\ r[k] = q[k] /\ q[k] # slot /\ q[k] \in Slots /\ q # << >>
      BY <1>0, <1>1, <2>2
    <3>2. /\ prv[q[k]] = IF k = 1 THEN NoSlot ELSE q[k - 1]
          /\ nxt[q[k]] = IF k = n THEN NoSlot ELSE q[k + 1]
      BY <1>0, <3>1 DEF Holds, n
    <3>3. prv2[r[k]] = IF k = 1 THEN NoSlot ELSE r[k - 1]
      <4>1. k # 1 => k - 1 \in 1 .. n
        BY <1>0, <1>1, <3>1
      <4> QED
        BY <1>0, <1>1, <3>1, <3>2, <4>1 DEF Pushes
    <3>4. q[k] = t <=> k = n
      BY <1>0, <1>3, <3>1 DEF IsInjective
    <3>5. nxt2[r[k]] = r[k + 1]
      <4>1. CASE k = n
        BY <1>0, <1>1, <3>1, <3>4, <4>1 DEF Pushes
      <4>2. CASE k # n
        <5>1. k + 1 \in 1 .. n
          BY <1>0, <1>1, <3>1, <4>2
        <5> QED
          BY <1>0, <1>1, <3>1, <3>2, <3>4, <4>2, <5>1 DEF Pushes
      <4> QED
        BY <4>1, <4>2
    <3> QED
      BY <1>0, <1>1, <2>2, <3>3, <3>5
  <2> QED
    BY <2>1, <2>2
<1>6. Holds(r, h2, slot, prv2, nxt2)
  BY <1>1, <1>4, <1>5 DEF Holds
<1> QED
  BY <1>6 DEF r

\* remove of a slot that stands anywhere in its list.
LEMMA RemoveHolds ==
  ASSUME NEW q \in Seq(Slots), NEW h, NEW t, NEW prv \in [Slots -> SlotOrNone],
         NEW nxt \in [Slots -> SlotOrNone], Holds(q, h, t, prv, nxt), IsInjective(q),
         NEW slot, \E k \in DOMAIN q : q[k] = slot,
         NEW h2, NEW t2, NEW prv2, NEW nxt2,
         Unlinks(slot, h, t, prv, nxt, h2, t2, prv2, nxt2)
  PROVE  Holds(Without(q, slot), h2, t2, prv2, nxt2)
<1> DEFINE r == Without(q, slot)
           n == Len(q)
           before == prv[slot]
           after == nxt[slot]
<1>0a. /\ h2 = IF before = NoSlot THEN after ELSE h
       /\ t2 = IF after = NoSlot THEN before ELSE t
       /\ \A s \in Slots :
            /\ prv2[s] = IF s = slot THEN NoSlot ELSE IF s = after THEN before ELSE prv[s]
            /\ nxt2[s] = IF s = slot THEN NoSlot ELSE IF s = before THEN after ELSE nxt[s]
  BY DEF Unlinks
<1>0b. PICK i \in 1 .. Len(q) : slot = q[i]
  BY LenProperties
<1>0. /\ n \in Nat /\ DOMAIN q = 1 .. n
      /\ \A k \in 1 .. n : q[k] \in Slots
      /\ q # << >>
  BY <1>0b, LenProperties, ElementOfSeq, EmptySeq
<1>1. /\ DOMAIN r = 1 .. n - 1 /\ Len(r) = n - 1
      /\ \A k \in 1 .. n - 1 : r[k] = IF k < i THEN q[k] ELSE q[k + 1]
      /\ r = << >> <=> n = 1
  <2>1. /\ r \in Seq(Slots) /\ DOMAIN r = 1 .. n - 1 /\ Len(r) = n - 1
        /\ \A k \in 1 .. n - 1 : r[k] = IF k < i THEN q[k] ELSE q[k + 1]
    BY <1>0b, WithoutProperties
  <2> HIDE DEF r
  <2>2. r = << >> <=> n = 1
    BY <1>0, <2>1, EmptySeq
  <2> QED
    BY <2>1, <2>2
<1>2. \A k \in 1 .. n : q[k] # NoSlot
  BY <1>0 DEF Slots, NoSlot
<1>3. h = q[1] /\ t = q[n]
  BY <1>0 DEF Holds
<1>4. \A k \in 1 .. n : /\ prv[q[k]] = IF k = 1 THEN NoSlot ELSE q[k - 1]
                        /\ nxt[q[k]] = IF k = n THEN NoSlot ELSE q[k + 1]
  BY <1>0 DEF Holds
<1>5. i \in 1 .. n /\ slot = q[i] /\ slot \in Slots
  BY <1>0, <1>0b
<1>6. \A j, k \in 1 .. n : q[j] = q[k] => j = k
  BY <1>0 DEF IsInjective
<1> HIDE DEF n, r
<1>7. /\ before = IF i = 1 THEN NoSlot ELSE q[i - 1]
      /\ after = IF i = n THEN NoSlot ELSE q[i + 1]
  BY <1>4, <1>5
<1>8. ASSUME NEW k \in 1 .. n, k # i
      PROVE  /\ q[k] # slot
             /\ q[k] = before <=> k = i - 1
             /\ q[k] = after <=> k = i + 1
  <2>1. i # 1 => i - 1 \in 1 .. n
    BY <1>0, <1>5
  <2>2. i # n => i + 1 \in 1 .. n
    BY <1>0, <1>5
  <2>3. q[k] = before <=> k = i - 1
    BY <1>0, <1>2, <1>5, <1>6, <1>7, <2>1
  <2>4. q[k] = after <=> k = i + 1
    BY <1>0, <1>2, <1>5, <1>6, <1>7, <2>2
  <2> QED
    BY <1>5, <1>6, <1>8, <2>3, <2>4
<1> HIDE DEF before, after
<1>9. ASSUME n # 1
      PROVE  h2 = r[1] /\ t2 = r[n - 1]
  <2>1. 1 \in 1 .. n - 1 /\ n - 1 \in 1 .. n - 1
    BY <1>0, <1>9
  <2>2. h2 = r[1]
    <3>1. CASE i = 1
      BY <1>0, <1>0a, <1>1, <1>7, <1>9, <2>1, <3>1
    <3>2. CASE i # 1
      <4>1. i - 1 \in 1 .. n /\ 1 < i
        BY <1>0, <1>5, <3>2
      <4>2. before # NoSlot
        BY <1>2, <1>7, <3>2, <4>1
      <4> QED
        BY <1>0a, <1>1, <1>3, <2>1, <4>1, <4>2
    <3> QED
      BY <3>1, <3>2
  <2>3. t2 = r[n - 1]
    <3>1. CASE i = n
      BY <1>0, <1>0a, <1>1, <1>7, <1>9, <2>1, <3>1
    <3>2. CASE i # n
      <4>1. i + 1 \in 1 .. n /\ ~(n - 1 < i) /\ n - 1 + 1 = n
        BY <1>0, <1>5, <3>2
      <4>2. after # NoSlot
        BY <1>2, <1>7, <3>2, <4>1
      <4> QED
        BY <1>0a, <1>1, <1>3, <2>1, <4>1, <4>2
    <3> QED
      BY <3>1, <3>2
  <2> QED
    BY <2>2, <2>3
<1>10. ASSUME n = 1
       PROVE  h2 = NoSlot /\ t2 = NoSlot
  BY <1>0a, <1>5, <1>7, <1>10
<1>11. ASSUME NEW k \in 1 .. n - 1
       PROVE  /\ prv2[r[k]] = IF k = 1 THEN NoSlot ELSE r[k - 1]
              /\ nxt2[r[k]] = IF k = n - 1 THEN NoSlot ELSE r[k + 1]
  <2> DEFINE m == IF k < i THEN k ELSE k + 1
  <2>1. m \in 1 .. n /\ m # i /\ r[k] = q[m]
    BY <1>0, <1>1, <1>5
  <2>2. q[m] \in Slots /\ q[m] # slot
    BY <1>0, <1>8, <2>1
  <2>3. prv2[q[m]] = IF m = i + 1 THEN before ELSE IF m = 1 THEN NoSlot ELSE q[m - 1]
    BY <1>0a, <1>4, <1>8, <2>1, <2>2
  <2>4. nxt2[q[m]] = IF m = i - 1 THEN after ELSE IF m = n THEN NoSlot ELSE q[m + 1]
    BY <1>0a, <1>4, <1>8, <2>1, <2>2
  <2>5. k # 1 => k - 1 \in 1 .. n - 1 /\ r[k - 1] = IF k - 1 < i THEN q[k - 1] ELSE q[k]
    BY <1>0, <1>1
  <2>6. k # n - 1 => k + 1 \in 1 .. n - 1 /\ r[k + 1] = IF k + 1 < i THEN q[k + 1] ELSE q[k + 2]
    BY <1>0, <1>1
  <2>7. prv2[r[k]] = IF k = 1 THEN NoSlot ELSE r[k - 1]
    <3>1. CASE k < i
      BY <1>0, <1>5, <2>1, <2>3, <2>5, <3>1
    <3>2. CASE k = i
      BY <1>0, <1>5, <1>7, <2>1, <2>3, <2>5, <3>2
    <3>3. CASE k > i
      BY <1>0, <1>5, <2>1, <2>3, <2>5, <3>3
    <3> QED
      BY <1>0, <1>5, <3>1, <3>2, <3>3
  <2>8. nxt2[r[k]] = IF k = n - 1 THEN NoSlot ELSE r[k + 1]
    <3>1. CASE k < i - 1
      BY <1>0, <1>5, <2>1, <2>4, <2>6, <3>1
    <3>2. CASE k = i - 1
      BY <1>0, <1>5, <1>7, <2>1, <2>4, <2>6, <3>2
    <3>3. CASE k >= i
      BY <1>0, <1>5, <2>1, <2>4, <2>6, <3>3
    <3> QED
      BY <1>0, <1>5, <3>1, <3>2, <3>3
  <2> QED
    BY <2>7, <2>8
<1>12. Holds(r, h2, t2, prv2, nxt2)
  BY <1>0, <1>1, <1>9, <1>10, <1>11 DEF Holds
<1> QED
  BY <1>12 DEF r
-----------------------------------------------------------------------------
(***************************************************************************)
(* The operations keep the ladders' types, and set or clear one bit.       *)
(***************************************************************************)
LEMMA WithoutType ==
  ASSUME NEW S, NEW q \in Seq(S), NEW s
  PROVE  Without(q, s) \in Seq(S)
<1>1. CASE \E k \in DOMAIN q : q[k] = s
  <2>1. (CHOOSE k \in DOMAIN q : q[k] = s) \in 1 .. Len(q)
    BY <1>1, LenProperties
  <2> QED
    BY <1>1, <2>1, RemoveAtProperties DEF Without
<1> QED
  BY <1>1 DEF Without

\* The bits after mark_empty: the level's own bit may go, no other changes.
LEMMA MarkEmptyProperties ==
  ASSUME NEW data \in BitArrays, NEW i \in Levels, NEW head
  PROVE  /\ MarkEmpty(data, i, head) \in BitArrays
         /\ \A b \in Levels : Test(MarkEmpty(data, i, head), b) <=>
                               Test(data, b) /\ (b = i => head # NoSlot)
BY ClearBitClears DEF MarkEmpty

LEMMA RemoveFromSteps ==
  ASSUME LadderTypeOK, NEW side \in Sides, NEW i \in Levels, NEW slot \in Slots,
         RemoveFrom(side, i, slot)
  PROVE  /\ LadderTypeOK'
         /\ \A sd \in Sides, n \in Levels :
              Test(bits'[sd], n) <=>
                Test(bits[sd], n) /\ (sd = side /\ n = i => heads'[side][i] # NoSlot)
<1> USE DEF SlotOrNone
<1>1. /\ next' = [s \in Slots |-> IF s = slot THEN NoSlot
                              ELSE IF s = prev[slot] THEN next[slot] ELSE next[s]]
      /\ prev' = [s \in Slots |-> IF s = slot THEN NoSlot
                              ELSE IF s = next[slot] THEN prev[slot] ELSE prev[s]]
      /\ heads' = [heads EXCEPT ![side] = [heads[side] EXCEPT
                     ![i] = IF prev[slot] = NoSlot THEN next[slot] ELSE heads[side][i]]]
      /\ tails' = [tails EXCEPT ![side] = [tails[side] EXCEPT
                     ![i] = IF next[slot] = NoSlot THEN prev[slot] ELSE tails[side][i]]]
      /\ bits' = [bits EXCEPT ![side] = MarkEmpty(bits[side], i, heads'[side][i])]
      /\ queues' = [queues EXCEPT ![side] = [queues[side] EXCEPT
                     ![i] = Without(queues[side][i], slot)]]
  BY DEF RemoveFrom, Unlink
<1>2. prev[slot] \in SlotOrNone /\ next[slot] \in SlotOrNone
  BY DEF LadderTypeOK
<1>3. next' \in [Slots -> SlotOrNone] /\ prev' \in [Slots -> SlotOrNone]
  BY <1>1, <1>2 DEF LadderTypeOK
<1>4. heads' \in [Sides -> [Levels -> SlotOrNone]] /\ tails' \in [Sides -> [Levels -> SlotOrNone]]
  <2>1. /\ heads[side] \in [Levels -> SlotOrNone] /\ heads[side][i] \in SlotOrNone
        /\ tails[side] \in [Levels -> SlotOrNone] /\ tails[side][i] \in SlotOrNone
    BY DEF LadderTypeOK
  <2> DEFINE h == [heads[side] EXCEPT
                     ![i] = IF prev[slot] = NoSlot THEN next[slot] ELSE heads[side][i]]
             t == [tails[side] EXCEPT
                     ![i] = IF next[slot] = NoSlot THEN prev[slot] ELSE tails[side][i]]
  <2>2. h \in [Levels -> SlotOrNone] /\ t \in [Levels -> SlotOrNone]
    BY <1>2, <2>1
  <2>3. heads' = [heads EXCEPT ![side] = h] /\ tails' = [tails EXCEPT ![side] = t]
    BY <1>1
  <2> HIDE DEF h, t
  <2> QED
    BY <2>2, <2>3 DEF LadderTypeOK
<1>5. queues' \in [Sides -> [Levels -> Seq(Slots)]]
  <2>1. queues[side] \in [Levels -> Seq(Slots)] /\ queues[side][i] \in Seq(Slots)
    BY DEF LadderTypeOK
  <2>2. Without(queues[side][i], slot) \in Seq(Slots)
    BY <2>1, WithoutType
  <2>3. [queues[side] EXCEPT ![i] = Without(queues[side][i], slot)] \in [Levels -> Seq(Slots)]
    BY <2>1, <2>2
  <2> QED
    BY <1>1, <2>3 DEF LadderTypeOK
<1>6. bits \in [Sides -> BitArrays] /\ bits[side] \in BitArrays
  BY DEF LadderTypeOK
<1>7. /\ MarkEmpty(bits[side], i, heads'[side][i]) \in BitArrays
      /\ \A b \in Levels : Test(MarkEmpty(bits[side], i, heads'[side][i]), b) <=>
                            Test(bits[side], b) /\ (b = i => heads'[side][i] # NoSlot)
  BY <1>6, MarkEmptyProperties
<1>8. \A sd \in Sides : bits'[sd] = IF sd = side THEN MarkEmpty(bits[side], i, heads'[side][i])
                                                ELSE bits[sd]
  BY <1>1, <1>6
<1>9. bits' \in [Sides -> BitArrays]
  BY <1>1, <1>6, <1>7
<1>10. LadderTypeOK'
  BY <1>3, <1>4, <1>5, <1>9 DEF LadderTypeOK
<1> QED
  BY <1>7, <1>8, <1>10

LEMMA PushBackSteps ==
  ASSUME LadderTypeOK, NEW side \in Sides, NEW i \in Levels, NEW slot \in Slots,
         PushBack(side, i, slot)
  PROVE  /\ LadderTypeOK'
         /\ \A sd \in Sides, n \in Levels :
              Test(bits'[sd], n) <=> Test(bits[sd], n) \/ (sd = side /\ n = i)
<1> USE DEF SlotOrNone
<1>1. /\ prev' = [prev EXCEPT ![slot] = tails[side][i]]
      /\ next' = [s \in Slots |-> IF s = tails[side][i] THEN slot
                                  ELSE IF s = slot THEN NoSlot ELSE next[s]]
      /\ heads' = [heads EXCEPT ![side] = [heads[side] EXCEPT
                     ![i] = IF tails[side][i] = NoSlot THEN slot ELSE heads[side][i]]]
      /\ tails' = [tails EXCEPT ![side] = [tails[side] EXCEPT ![i] = slot]]
      /\ bits' = [bits EXCEPT ![side] = SetBit(bits[side], i)]
      /\ queues' = [queues EXCEPT ![side] = [queues[side] EXCEPT
                     ![i] = Append(queues[side][i], slot)]]
  BY DEF PushBack
<1>2. /\ heads[side] \in [Levels -> SlotOrNone] /\ heads[side][i] \in SlotOrNone
      /\ tails[side] \in [Levels -> SlotOrNone] /\ tails[side][i] \in SlotOrNone
      /\ queues[side] \in [Levels -> Seq(Slots)] /\ queues[side][i] \in Seq(Slots)
      /\ bits \in [Sides -> BitArrays] /\ bits[side] \in BitArrays
  BY DEF LadderTypeOK
<1>3. next' \in [Slots -> SlotOrNone] /\ prev' \in [Slots -> SlotOrNone]
  BY <1>1, <1>2 DEF LadderTypeOK
<1>4. heads' \in [Sides -> [Levels -> SlotOrNone]]
  <2> DEFINE h == [heads[side] EXCEPT
                     ![i] = IF tails[side][i] = NoSlot THEN slot ELSE heads[side][i]]
  <2>1. h \in [Levels -> SlotOrNone]
    BY <1>2
  <2>2. heads' = [heads EXCEPT ![side] = h]
    BY <1>1
  <2> HIDE DEF h
  <2> QED
    BY <2>1, <2>2 DEF LadderTypeOK
<1>5. tails' \in [Sides -> [Levels -> SlotOrNone]]
  <2>1. [tails[side] EXCEPT ![i] = slot] \in [Levels -> SlotOrNone]
    BY <1>2
  <2> QED
    BY <1>1, <2>1 DEF LadderTypeOK
<1>6. queues' \in [Sides -> [Levels -> Seq(Slots)]]
  <2>1. Append(queues[side][i], slot) \in Seq(Slots)
    BY <1>2
  <2>2. [queues[side] EXCEPT ![i] = Append(queues[side][i], slot)] \in [Levels -> Seq(Slots)]
    BY <1>2, <2>1
  <2> QED
    BY <1>1, <2>2 DEF LadderTypeOK
<1>7. /\ SetBit(bits[side], i) \in BitArrays
      /\ \A b \in Levels : Test(SetBit(bits[side], i), b) <=> Test(bits[side], b) \/ b = i
  BY <1>2, SetBitSets
<1>8. \A sd \in Sides : bits'[sd] = IF sd = side THEN SetBit(bits[side], i) ELSE bits[sd]
  BY <1>1, <1>2
<1>9. bits' \in [Sides -> BitArrays]
  BY <1>1, <1>2, <1>7
<1>10. LadderTypeOK'
  BY <1>3, <1>4, <1>5, <1>6, <1>9 DEF LadderTypeOK
<1> QED
  BY <1>7, <1>8, <1>10

LEMMA DetachSteps ==
  ASSUME LadderTypeOK, NEW slot \in Slots, Detach(slot)
  PROVE  LadderTypeOK'
BY DEF LadderTypeOK, Detach, SlotOrNone
=============================================================================
