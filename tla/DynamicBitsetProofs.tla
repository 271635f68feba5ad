-------------------------- MODULE DynamicBitsetProofs --------------------------
(***************************************************************************)
(* What the operations of DynamicBitset do to the set of the bits that are *)
(* 1, for every number of bits and every width of a word.                  *)
(***************************************************************************)
EXTENDS DynamicBitset, WellFoundedInduction, TLAPS

LEMMA MinExists ==
  ASSUME NEW S \in SUBSET Nat, S # {}
  PROVE  Min(S) \in S /\ \A x \in S : Min(S) <= x
<1> DEFINE R == OpToRel(<, Nat)
<1>1. IsWellFoundedOn(R, Nat)
  BY NatLessThanWellFounded
<1> HIDE DEF R
<1>2. PICK m \in S : \A y \in S : ~(<<y, m>> \in R)
  BY <1>1, WFMin
<1>3. \A y \in S : ~(y < m)
  BY <1>2 DEF R, OpToRel
<1>4. \A y \in S : m <= y
  BY <1>3
<1> QED
  BY <1>4 DEF Min

LEMMA MaxExists ==
  ASSUME NEW n \in Nat, NEW S \in SUBSET (0 .. n), S # {}
  PROVE  Max(S) \in S /\ \A x \in S : x <= Max(S)
<1> DEFINE T == {n - x : x \in S}
<1>1. T \in SUBSET Nat
  OBVIOUS
<1>1a. T # {}
  OBVIOUS
<1>2. PICK t \in T : \A y \in T : t <= y
  BY <1>1, <1>1a, MinExists
<1>3. PICK m \in S : t = n - m
  OBVIOUS
<1>4. \A x \in S : n - x \in T
  OBVIOUS
<1>5. \A x \in S : n - m <= n - x
  BY <1>2, <1>3, <1>4
<1>6. \A x \in S : m >= x
  BY <1>5
<1> QED
  BY <1>6 DEF Max

\* A bit is a bit of a word, and the only one at that place.
LEMMA DivMod ==
  ASSUME NEW b \in Nat
  PROVE  /\ b \div WordBits \in Nat
         /\ (b % WordBits) \in 0 .. WordBits - 1
         /\ b = (b \div WordBits) * WordBits + (b % WordBits)
<1> DEFINE W == WordBits
<1>0. W \in Nat \ {0}
  BY BitsetAssumption
<1> HIDE DEF W
<1>1. b \div W \in Nat /\ (b % W) \in 0 .. W - 1 /\ b = (b \div W) * W + (b % W)
  BY <1>0
<1> QED
  BY <1>1 DEF W

LEMMA Split ==
  ASSUME NEW w \in Nat, NEW r \in 0 .. WordBits - 1
  PROVE  (w * WordBits + r) \div WordBits = w /\ ((w * WordBits + r) % WordBits) = r
<1> DEFINE W == WordBits
           b == w * W + r
           q == b \div W
<1>0. W \in Nat \ {0} /\ r \in 0 .. W - 1
  BY BitsetAssumption
<1>1. w * W \in Nat
  BY <1>0
<1>2. b \in Nat
  BY <1>0, <1>1
<1>3. q \in Nat /\ (b % W) \in 0 .. W - 1 /\ b = q * W + (b % W)
  BY <1>2, DivMod
<1>4. ~(q > w)
  <2> SUFFICES ASSUME q > w PROVE FALSE
    OBVIOUS
  <2>1. q * W >= (w + 1) * W
    BY <1>0, <1>3
  <2> QED
    BY <1>0, <1>3, <2>1
<1>5. ~(q < w)
  <2> SUFFICES ASSUME q < w PROVE FALSE
    OBVIOUS
  <2>1. w * W >= (q + 1) * W
    BY <1>0, <1>3
  <2> QED
    BY <1>0, <1>3, <2>1
<1>6. q = w
  BY <1>3, <1>4, <1>5
<1> QED
  BY <1>0, <1>3, <1>6

\* The word of a level is one of the words there are.
LEMMA LevelHasWord ==
  ASSUME NEW b \in Levels
  PROVE  /\ b \in Nat
         /\ b \div WordBits \in Words
         /\ (b % WordBits) \in 0 .. WordBits - 1
         /\ b = (b \div WordBits) * WordBits + (b % WordBits)
<1> DEFINE W == WordBits
           M == MaxLevels
           w == b \div W
           sum == M + W - 1
           words == sum \div W
<1>0. W \in Nat \ {0} /\ M \in Nat \ {0} /\ b \in 0 .. M - 1
  BY BitsetAssumption DEF Levels
<1>1. w \in Nat /\ (b % W) \in 0 .. W - 1 /\ b = w * W + (b % W)
  BY <1>0, DivMod
<1>2. words \in Nat /\ (sum % W) \in 0 .. W - 1 /\ sum = words * W + (sum % W)
  BY <1>0, DivMod
<1>3. w < words
  <2> SUFFICES ASSUME w >= words PROVE FALSE
    BY <1>1, <1>2
  <2>1. w * W >= words * W
    BY <1>0, <1>1, <1>2
  <2> QED
    BY <1>0, <1>1, <1>2, <2>1
<1> QED
  BY <1>0, <1>1, <1>2, <1>3 DEF Words

LEMMA WordProperties == Words \subseteq Nat /\ \E n \in Nat : Words \subseteq 0 .. n
<1> DEFINE words == (MaxLevels + WordBits - 1) \div WordBits
<1>1. words \in Nat
  BY BitsetAssumption, DivMod
<1> QED
  BY <1>1 DEF Words

\* set() and clear() change the bit they are given and no other.
LEMMA SetBitSets ==
  ASSUME NEW data \in BitArrays, NEW bit \in Levels
  PROVE  /\ SetBit(data, bit) \in BitArrays
         /\ \A b \in Levels : Test(SetBit(data, bit), b) <=> Test(data, b) \/ b = bit
<1> DEFINE w == bit \div WordBits
           r == bit % WordBits
           after == [data EXCEPT ![w] = data[w] \cup {r}]
<1>1. w \in Words /\ r \in 0 .. WordBits - 1 /\ bit = w * WordBits + r
  BY LevelHasWord
<1>2. SetBit(data, bit) = after
  BY DEF SetBit
<1>3. data \in [Words -> SUBSET (0 .. WordBits - 1)]
  BY DEF BitArrays
<1> HIDE DEF w, r
<1>4. after \in BitArrays
  <2>1. after \in [Words -> SUBSET (0 .. WordBits - 1)]
    BY <1>1, <1>3
  <2>2. ASSUME NEW v \in Words, NEW b \in after[v]
        PROVE  v * WordBits + b \in Levels
    <3>1. b \in data[v] \/ (v = w /\ b = r)
      BY <1>1, <1>3
    <3> QED
      BY <1>1, <3>1 DEF BitArrays
  <2> HIDE DEF after
  <2> QED
    BY <2>1, <2>2 DEF BitArrays
<1>5. ASSUME NEW b \in Levels
      PROVE  Test(after, b) <=> Test(data, b) \/ b = bit
  <2> DEFINE v == b \div WordBits
             q == b % WordBits
  <2>1. v \in Words /\ b = v * WordBits + q
    BY LevelHasWord
  <2>2. Test(after, b) <=> q \in after[v]
    BY DEF Test
  <2>3. Test(data, b) <=> q \in data[v]
    BY DEF Test
  <2>4. b = bit <=> v = w /\ q = r
    BY <1>1, <2>1 DEF w, r
  <2> HIDE DEF v, q
  <2>5. q \in after[v] <=> q \in data[v] \/ (v = w /\ q = r)
    BY <1>1, <1>3, <2>1
  <2> QED
    BY <2>2, <2>3, <2>4, <2>5
<1> QED
  BY <1>2, <1>4, <1>5

LEMMA ClearBitClears ==
  ASSUME NEW data \in BitArrays, NEW bit \in Levels
  PROVE  /\ ClearBit(data, bit) \in BitArrays
         /\ \A b \in Levels : Test(ClearBit(data, bit), b) <=> Test(data, b) /\ b # bit
<1> DEFINE w == bit \div WordBits
           r == bit % WordBits
           after == [data EXCEPT ![w] = data[w] \ {r}]
<1>1. w \in Words /\ r \in 0 .. WordBits - 1 /\ bit = w * WordBits + r
  BY LevelHasWord
<1>2. ClearBit(data, bit) = after
  BY DEF ClearBit
<1>3. data \in [Words -> SUBSET (0 .. WordBits - 1)]
  BY DEF BitArrays
<1> HIDE DEF w, r
<1>4. after \in BitArrays
  <2>1. after \in [Words -> SUBSET (0 .. WordBits - 1)]
    BY <1>1, <1>3
  <2>2. \A v \in Words : after[v] \subseteq data[v]
    BY <1>1, <1>3
  <2> HIDE DEF after
  <2> QED
    BY <2>1, <2>2 DEF BitArrays
<1>5. ASSUME NEW b \in Levels
      PROVE  Test(after, b) <=> Test(data, b) /\ b # bit
  <2> DEFINE v == b \div WordBits
             q == b % WordBits
  <2>1. v \in Words /\ b = v * WordBits + q
    BY LevelHasWord
  <2>2. Test(after, b) <=> q \in after[v]
    BY DEF Test
  <2>3. Test(data, b) <=> q \in data[v]
    BY DEF Test
  <2>4. b = bit <=> v = w /\ q = r
    BY <1>1, <2>1 DEF w, r
  <2> HIDE DEF v, q
  <2>5. q \in after[v] <=> q \in data[v] /\ ~(v = w /\ q = r)
    BY <1>1, <1>3, <2>1
  <2> QED
    BY <2>2, <2>3, <2>4, <2>5
<1> QED
  BY <1>2, <1>4, <1>5

\* No bit is 1 in a fresh array.
LEMMA NoBitsEmpty == NoBits \in BitArrays /\ \A b \in Levels : ~Test(NoBits, b)
<1>1. NoBits \in BitArrays
  BY DEF NoBits, BitArrays
<1>2. \A b \in Levels : ~Test(NoBits, b)
  BY LevelHasWord DEF NoBits, Test
<1> QED
  BY <1>1, <1>2

\* find_highest() and find_lowest(): the highest and the lowest bit that is 1,
\* whatever word it is in, and -1 only when there is none.
LEMMA FindHighestRight ==
  ASSUME NEW data \in BitArrays, NEW bit \in Levels, Test(data, bit)
  PROVE  /\ FindHighest(data) \in Levels
         /\ Test(data, FindHighest(data))
         /\ bit <= FindHighest(data)
<1> DEFINE W == WordBits
           v == bit \div W
           q == bit % W
           w == Max(NonZero(data))
           r == Max(data[w])
<1>0. W \in Nat \ {0}
  BY BitsetAssumption
<1>1. v \in Words /\ q \in 0 .. W - 1 /\ bit = v * W + q /\ q \in data[v]
  BY LevelHasWord DEF Test
<1>2. v \in NonZero(data) /\ NonZero(data) \subseteq Words
  BY <1>1 DEF NonZero
<1>3. w \in NonZero(data) /\ v <= w
  BY <1>2, WordProperties, MaxExists
<1>4. w \in Words /\ data[w] # {} /\ data[w] \subseteq 0 .. W - 1
  BY <1>3 DEF NonZero, BitArrays
<1>5. r \in data[w] /\ \A b \in data[w] : b <= r
  <2> HIDE DEF w
  <2>1. W - 1 \in Nat /\ data[w] \in SUBSET (0 .. W - 1)
    BY <1>0, <1>4
  <2> HIDE DEF W
  <2> QED
    BY <1>4, <2>1, MaxExists
<1>6. FindHighest(data) = w * W + r
  BY <1>2 DEF FindHighest
<1> HIDE DEF v, q, w, r
<1>7. w \in Nat /\ v \in Nat /\ r \in 0 .. W - 1
  BY <1>1, <1>4, <1>5, WordProperties
<1>8. w * W + r \in Levels
  BY <1>4, <1>5 DEF BitArrays
<1>9. Test(data, w * W + r)
  BY <1>5, <1>7, <1>8, Split DEF Test
<1>10. bit <= w * W + r
  <2>1. CASE v = w
    BY <1>0, <1>1, <1>5, <1>7, <2>1
  <2>2. CASE v < w
    <3>1. (v + 1) * W <= w * W
      BY <1>0, <1>7, <2>2
    <3> QED
      BY <1>0, <1>1, <1>7, <3>1
  <2> QED
    BY <1>3, <1>7, <2>1, <2>2
<1> QED
  BY <1>6, <1>8, <1>9, <1>10

LEMMA FindLowestRight ==
  ASSUME NEW data \in BitArrays, NEW bit \in Levels, Test(data, bit)
  PROVE  /\ FindLowest(data) \in Levels
         /\ Test(data, FindLowest(data))
         /\ FindLowest(data) <= bit
<1> DEFINE W == WordBits
           v == bit \div W
           q == bit % W
           w == Min(NonZero(data))
           r == Min(data[w])
<1>0. W \in Nat \ {0}
  BY BitsetAssumption
<1>1. v \in Words /\ q \in 0 .. W - 1 /\ bit = v * W + q /\ q \in data[v]
  BY LevelHasWord DEF Test
<1>2. v \in NonZero(data) /\ NonZero(data) \subseteq Words
  BY <1>1 DEF NonZero
<1>3. w \in NonZero(data) /\ w <= v
  BY <1>2, WordProperties, MinExists
<1>4. w \in Words /\ data[w] # {} /\ data[w] \subseteq 0 .. W - 1
  BY <1>3 DEF NonZero, BitArrays
<1>5. r \in data[w] /\ \A b \in data[w] : r <= b
  <2> HIDE DEF w
  <2> QED
    BY <1>0, <1>4, MinExists
<1>6. FindLowest(data) = w * W + r
  BY <1>2 DEF FindLowest
<1> HIDE DEF v, q, w, r
<1>7. w \in Nat /\ v \in Nat /\ r \in 0 .. W - 1
  BY <1>1, <1>4, <1>5, WordProperties
<1>8. w * W + r \in Levels
  BY <1>4, <1>5 DEF BitArrays
<1>9. Test(data, w * W + r)
  BY <1>5, <1>7, <1>8, Split DEF Test
<1>10. w * W + r <= bit
  <2>1. CASE v = w
    BY <1>0, <1>1, <1>5, <1>7, <2>1
  <2>2. CASE w < v
    <3>1. (w + 1) * W <= v * W
      BY <1>0, <1>7, <2>2
    <3> QED
      BY <1>0, <1>1, <1>7, <3>1
  <2> QED
    BY <1>3, <1>7, <2>1, <2>2
<1> QED
  BY <1>6, <1>8, <1>9, <1>10

LEMMA FindNothing ==
  ASSUME NEW data \in BitArrays, \A bit \in Levels : ~Test(data, bit)
  PROVE  FindHighest(data) = -1 /\ FindLowest(data) = -1
<1>1. ASSUME NEW w \in Words, NEW b \in data[w]
      PROVE  FALSE
  <2>1. w \in Nat /\ b \in 0 .. WordBits - 1 /\ w * WordBits + b \in Levels
    BY WordProperties DEF BitArrays
  <2> QED
    BY <2>1, Split DEF Test
<1>2. NonZero(data) = {}
  BY <1>1 DEF NonZero
<1> QED
  BY <1>2 DEF FindHighest, FindLowest
=============================================================================
