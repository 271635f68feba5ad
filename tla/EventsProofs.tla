----------------------------- MODULE EventsProofs -----------------------------
(***************************************************************************)
(* Induction over numbers and what it gives: functions defined by          *)
(* recursion exist, and sums are what they should be.  Induction is stated *)
(* for a set of numbers, so that a statement is proved for every number by *)
(* collecting the numbers it holds of.                                     *)
(***************************************************************************)
EXTENDS Events, SequenceTheorems, WellFoundedInduction, TLAPS

\* A set of numbers that is not empty has a least one.
LEMMA LeastNatural ==
  ASSUME NEW S \in SUBSET Nat, S # {}
  PROVE  \E m \in S : \A x \in S : m <= x
<1> DEFINE R == OpToRel(<, Nat)
<1>1. IsWellFoundedOn(R, Nat)
  BY NatLessThanWellFounded
<1> HIDE DEF R
<1>2. PICK m \in S : \A y \in S : ~(<<y, m>> \in R)
  BY <1>1, WFMin
<1>3. \A y \in S : ~(y < m)
  BY <1>2 DEF R, OpToRel
<1> QED
  BY <1>3

\* A set of integers that has a bound has a maximum and a minimum.
LEMMA BoundedMin ==
  ASSUME NEW S \in SUBSET Int, S # {}, NEW b \in Nat, \A x \in S : -b <= x /\ x <= b
  PROVE  Min(S) \in S /\ \A x \in S : Min(S) <= x
<1> DEFINE T == {x + b : x \in S}
<1>0. \A x \in S : x \in Int /\ x + b \in Nat
  OBVIOUS
<1>1. T \in SUBSET Nat
  BY <1>0
<1>1a. T # {}
  OBVIOUS
<1>2. PICK t \in T : \A y \in T : t <= y
  BY <1>1, <1>1a, LeastNatural
<1>3. PICK m \in S : t = m + b
  OBVIOUS
<1>4. \A x \in S : m + b <= x + b
  BY <1>2, <1>3
<1>5. \A x \in S : m <= x
  BY <1>0, <1>4
<1> QED
  BY <1>5 DEF Min

LEMMA BoundedMax ==
  ASSUME NEW S \in SUBSET Int, S # {}, NEW b \in Nat, \A x \in S : -b <= x /\ x <= b
  PROVE  Max(S) \in S /\ \A x \in S : x <= Max(S)
<1> DEFINE T == {b - x : x \in S}
<1>0. \A x \in S : x \in Int /\ b - x \in Nat
  OBVIOUS
<1>1. T \in SUBSET Nat
  BY <1>0
<1>1a. T # {}
  OBVIOUS
<1>2. PICK t \in T : \A y \in T : t <= y
  BY <1>1, <1>1a, LeastNatural
<1>3. PICK m \in S : t = b - m
  OBVIOUS
<1>4. \A x \in S : b - m <= b - x
  BY <1>2, <1>3
<1>5. \A x \in S : x <= m
  BY <1>0, <1>4
<1> QED
  BY <1>5 DEF Max

\* Induction: a set that has 0, and with a number the next, has them all.
LEMMA SetInduction ==
  ASSUME NEW P \in SUBSET Nat, 0 \in P, \A n \in P : n + 1 \in P
  PROVE  \A n \in Nat : n \in P
<1> SUFFICES ASSUME Nat \ P # {}
             PROVE  FALSE
  OBVIOUS
<1>1. PICK m \in Nat \ P : \A x \in Nat \ P : m <= x
  BY LeastNatural
<1>2. m - 1 \in P
  BY <1>1
<1> QED
  BY <1>2

\* Up to any n there is a function that starts with base and goes on by step.
HasRun(S, base, step, n) ==
  \E f \in [0 .. n -> S] : f[0] = base /\ \A k \in 1 .. n : f[k] = step[<<f[k - 1], k>>]

\* A function that starts with base and goes on by step exists.
LEMMA RecursionExists ==
  ASSUME NEW S, NEW base \in S, NEW step \in [S \X Nat -> S], NEW n \in Nat
  PROVE  HasRun(S, base, step, n)
<1> DEFINE Runs(f, m) == f[0] = base /\ \A k \in 1 .. m : f[k] = step[<<f[k - 1], k>>]
           P == {m \in Nat : \E f \in [0 .. m -> S] : Runs(f, m)}
<1>1. 0 \in P
  <2>1. [k \in 0 .. 0 |-> base] \in [0 .. 0 -> S]
    OBVIOUS
  <2>2. Runs([k \in 0 .. 0 |-> base], 0)
    OBVIOUS
  <2> QED
    BY <2>1, <2>2
<1>2. \A m \in P : m + 1 \in P
  <2> TAKE m \in P
  <2>1. PICK f \in [0 .. m -> S] : Runs(f, m)
    OBVIOUS
  <2> DEFINE g == [k \in 0 .. m + 1 |-> IF k = m + 1 THEN step[<<f[m], m + 1>>] ELSE f[k]]
  <2>2. m \in Nat /\ f[m] \in S /\ step[<<f[m], m + 1>>] \in S
    <3>1. m \in Nat /\ f[m] \in S
      OBVIOUS
    <3> QED
      BY <3>1
  <2>3. \A k \in 0 .. m + 1 : k # m + 1 => k \in 0 .. m
    BY <2>2
  <2>4. g \in [0 .. m + 1 -> S]
    BY <2>2, <2>3
  <2>5. g[0] = base
    BY <2>1, <2>2
  <2>6. \A k \in 1 .. m + 1 : g[k] = step[<<g[k - 1], k>>]
    <3> TAKE k \in 1 .. m + 1
    <3>1. k - 1 \in 0 .. m /\ g[k - 1] = f[k - 1]
      BY <2>2
    <3>2. CASE k = m + 1
      <4>1. g[k] = step[<<f[m], m + 1>>]
        BY <3>2
      <4>2. k - 1 = m
        BY <3>2, <2>2
      <4> QED
        BY <4>1, <4>2, <3>1, <3>2
    <3>3. CASE k # m + 1
      <4>1. k \in 1 .. m /\ g[k] = f[k]
        BY <3>3, <2>2
      <4> QED
        BY <4>1, <3>1, <2>1
    <3> QED
      BY <3>2, <3>3
  <2>7. Runs(g, m + 1)
    BY <2>5, <2>6
  <2> HIDE DEF g, Runs
  <2> QED
    BY <2>2, <2>4, <2>7
<1> HIDE DEF P
<1>3. n \in P
  BY <1>1, <1>2, SetInduction DEF P
<1> QED
  BY <1>3 DEF P, HasRun

-----------------------------------------------------------------------------
(***************************************************************************)
(* Sums                                                                    *)
(***************************************************************************)
\* The partial sums of a sequence.
IsSum(f, numbers) ==
  f = [k \in 0 .. Len(numbers) |-> IF k = 0 THEN 0 ELSE f[k - 1] + numbers[k]]

LEMMA TotalIsSum ==
  ASSUME NEW numbers \in Seq(Int)
  PROVE  \E f \in [0 .. Len(numbers) -> Int] :
           IsSum(f, numbers) /\ Total(numbers) = f[Len(numbers)]
<1> DEFINE n == Len(numbers)
           step == [x \in Int \X Nat |-> IF x[2] \in 1 .. n THEN x[1] + numbers[x[2]] ELSE 0]
           sum == CHOOSE f : IsSum(f, numbers)
<1>1. n \in Nat /\ \A k \in 1 .. n : numbers[k] \in Int
  OBVIOUS
<1>2. step \in [Int \X Nat -> Int]
  BY <1>1
<1>3. \A x \in Int, k \in 1 .. n : step[<<x, k>>] = x + numbers[k]
  BY <1>1
<1>4. Total(numbers) = sum[n]
  BY DEF Total, IsSum
<1> HIDE DEF n, step
<1>5. PICK f \in [0 .. n -> Int] : f[0] = 0 /\ \A k \in 1 .. n : f[k] = step[<<f[k - 1], k>>]
  <2>1. 0 \in Int
    OBVIOUS
  <2>2. HasRun(Int, 0, step, n)
    BY ONLY <2>1, <1>1, <1>2, RecursionExists
  <2> QED
    BY <2>2 DEF HasRun
<1>6. \A k \in 1 .. n : f[k] = f[k - 1] + numbers[k]
  <2> TAKE k \in 1 .. n
  <2>1. k - 1 \in 0 .. n /\ f[k - 1] \in Int
    BY <1>1
  <2> QED
    BY <2>1, <1>3, <1>5
<1>7. f = [k \in 0 .. n |-> IF k = 0 THEN 0 ELSE f[k - 1] + numbers[k]]
  BY <1>1, <1>5, <1>6
<1>8. IsSum(f, numbers)
  BY <1>7 DEF IsSum, n
<1>9. IsSum(sum, numbers)
  BY <1>8
<1> HIDE DEF sum
<1>10. sum = [k \in 0 .. n |-> IF k = 0 THEN 0 ELSE sum[k - 1] + numbers[k]]
  BY <1>9 DEF IsSum, n
<1> DEFINE P == {k \in Nat : k \in 0 .. n => sum[k] = f[k]}
<1>11. 0 \in P
  BY <1>1, <1>10, <1>5
<1>12. \A k \in P : k + 1 \in P
  <2> SUFFICES ASSUME NEW k \in P, k + 1 \in 0 .. n
               PROVE  sum[k + 1] = f[k + 1]
    OBVIOUS
  <2>1. k \in 0 .. n /\ k + 1 \in 1 .. n /\ k + 1 # 0 /\ (k + 1) - 1 = k
    BY <1>1
  <2>2. sum[k] = f[k]
    BY <2>1
  <2>3. f[k + 1] = f[k] + numbers[k + 1]
    BY <2>1, <1>6
  <2>4. sum[k + 1] = sum[k] + numbers[k + 1]
    BY <2>1, <1>10
  <2> QED
    BY <2>2, <2>3, <2>4
<1> HIDE DEF P
<1>13. \A k \in Nat : k \in P
  BY <1>11, <1>12, SetInduction DEF P
<1>14. sum = f
  <2>1. DOMAIN sum = 0 .. n
    BY <1>10
  <2>2. \A k \in 0 .. n : sum[k] = f[k]
    BY <1>13, <1>1 DEF P
  <2>3. sum = [k \in 0 .. n |-> sum[k]]
    BY <1>10
  <2> QED
    BY <2>2, <2>3
<1> QED
  BY <1>4, <1>8, <1>14 DEF n

LEMMA TotalInt == \A numbers \in Seq(Int) : Total(numbers) \in Int
<1> TAKE numbers \in Seq(Int)
<1>1. PICK f \in [0 .. Len(numbers) -> Int] : Total(numbers) = f[Len(numbers)]
  BY TotalIsSum
<1> QED
  BY <1>1

LEMMA TotalEmpty == Total(<< >>) = 0
<1>1. << >> \in Seq(Int) /\ Len(<< >>) = 0
  OBVIOUS
<1>2. PICK f \in [0 .. 0 -> Int] : IsSum(f, << >>) /\ Total(<< >>) = f[0]
  BY <1>1, TotalIsSum
<1> QED
  BY <1>1, <1>2 DEF IsSum

\* Partial sums depend on the numbers up to there only.
LEMMA SumsAgree ==
  ASSUME NEW p \in Seq(Int), NEW q \in Seq(Int), Len(p) <= Len(q),
         \A k \in 1 .. Len(p) : p[k] = q[k],
         NEW f \in [0 .. Len(p) -> Int], IsSum(f, p),
         NEW g \in [0 .. Len(q) -> Int], IsSum(g, q)
  PROVE  g[Len(p)] = f[Len(p)]
<1> DEFINE P == {k \in Nat : k \in 0 .. Len(p) => g[k] = f[k]}
<1>1. Len(p) \in Nat /\ Len(q) \in Nat
  OBVIOUS
<1>2. 0 \in P
  BY <1>1 DEF IsSum
<1>3. \A k \in P : k + 1 \in P
  <2> SUFFICES ASSUME NEW k \in P, k + 1 \in 0 .. Len(p)
               PROVE  g[k + 1] = f[k + 1]
    OBVIOUS
  <2>1. k \in 0 .. Len(p) /\ k + 1 \in 1 .. Len(p) /\ k + 1 \in 0 .. Len(q) /\ k + 1 # 0 /\ (k + 1) - 1 = k
    BY <1>1
  <2>2. g[k + 1] = g[k] + q[k + 1]
    BY <2>1 DEF IsSum
  <2>3. f[k + 1] = f[k] + p[k + 1]
    BY <2>1 DEF IsSum
  <2> QED
    BY <2>1, <2>2, <2>3
<1> HIDE DEF P
<1>4. Len(p) \in P
  BY <1>1, <1>2, <1>3, SetInduction DEF P
<1> QED
  BY <1>1, <1>4 DEF P

LEMMA TotalAppend ==
  ASSUME NEW p \in Seq(Int), NEW x \in Int
  PROVE  Total(Append(p, x)) = Total(p) + x
<1> DEFINE q == Append(p, x)
<1>1. q \in Seq(Int) /\ Len(q) = Len(p) + 1 /\ q[Len(q)] = x /\ \A k \in 1 .. Len(p) : q[k] = p[k]
  OBVIOUS
<1> HIDE DEF q
<1>2. PICK f \in [0 .. Len(p) -> Int] : IsSum(f, p) /\ Total(p) = f[Len(p)]
  BY TotalIsSum
<1>3. PICK g \in [0 .. Len(q) -> Int] : IsSum(g, q) /\ Total(q) = g[Len(q)]
  BY <1>1, TotalIsSum
<1>4. g[Len(p)] = f[Len(p)]
  BY <1>1, <1>2, <1>3, SumsAgree
<1>5. g[Len(q)] = g[Len(q) - 1] + q[Len(q)]
  BY <1>1, <1>3 DEF IsSum
<1> QED
  BY <1>1, <1>2, <1>3, <1>4, <1>5 DEF q

\* A sequence followed by another has the sum of both.
LEMMA TotalConcat ==
  ASSUME NEW p \in Seq(Int), NEW q \in Seq(Int)
  PROVE  Total(p \o q) = Total(p) + Total(q)
<1> DEFINE P == {n \in Nat : \A r \in Seq(Int) : Len(r) = n => Total(p \o r) = Total(p) + Total(r)}
<1>1. 0 \in P
  <2> SUFFICES ASSUME NEW r \in Seq(Int), Len(r) = 0
               PROVE  Total(p \o r) = Total(p) + Total(r)
    OBVIOUS
  <2>1. r = << >> /\ p \o r = p
    OBVIOUS
  <2> QED
    BY <2>1, TotalEmpty, TotalInt
<1>2. \A n \in P : n + 1 \in P
  <2> TAKE n \in P
  <2> SUFFICES ASSUME NEW r \in Seq(Int), Len(r) = n + 1
               PROVE  Total(p \o r) = Total(p) + Total(r)
    <3>1. n + 1 \in Nat
      OBVIOUS
    <3> QED
      BY <3>1
  <2> DEFINE front == SubSeq(r, 1, n)
             x == r[n + 1]
  <2>0. n \in Nat
    OBVIOUS
  <2>1. front \in Seq(Int) /\ Len(front) = n /\ x \in Int /\ r = Append(front, x)
    <3>1. front \in Seq(Int) /\ Len(front) = n /\ \A k \in 1 .. n : front[k] = r[k]
      BY <2>0
    <3>2. x \in Int
      BY <2>0
    <3> HIDE DEF front
    <3>3. Append(front, x) \in Seq(Int) /\ Len(Append(front, x)) = n + 1
      BY <3>1, <3>2
    <3>4. \A k \in 1 .. n + 1 : Append(front, x)[k] = r[k]
      BY <3>1, <3>2, <2>0
    <3>5. r = Append(front, x)
      BY <3>3, <3>4, <2>0, SeqEqual
    <3> QED
      BY <3>1, <3>2, <3>5
  <2>2. p \o front \in Seq(Int) /\ p \o r = Append(p \o front, x)
    <3> HIDE DEF front, x
    <3>1. p \o front \in Seq(Int) /\ p \o Append(front, x) \in Seq(Int)
      BY <2>1
    <3>2. Append(p \o front, x) \in Seq(Int)
      BY <3>1, <2>1
    <3>3. Len(p \o Append(front, x)) = Len(Append(p \o front, x))
      BY <2>1
    <3>4. \A k \in 1 .. Len(p \o Append(front, x)) : (p \o Append(front, x))[k] = Append(p \o front, x)[k]
      <4> TAKE k \in 1 .. Len(p \o Append(front, x))
      <4>1. Len(p \o Append(front, x)) = Len(p) + n + 1 /\ Len(p) \in Nat /\ Len(p \o front) = Len(p) + n
        <5>1. Append(front, x) \in Seq(Int) /\ Len(Append(front, x)) = n + 1 /\ Len(p) \in Nat
          BY <2>1
        <5>2. Len(p \o Append(front, x)) = Len(p) + Len(Append(front, x))
          BY <5>1, ConcatProperties
        <5>3. Len(p \o front) = Len(p) + n
          BY <2>1, ConcatProperties
        <5> QED
          BY <5>1, <5>2, <5>3, <2>0
      <4>2. CASE k <= Len(p)
        <5>1. (p \o Append(front, x))[k] = p[k]
          BY <4>1, <4>2, <2>1, <2>0
        <5>2. Append(p \o front, x)[k] = (p \o front)[k]
          BY <4>1, <4>2, <2>1, <2>0, <3>1
        <5>3. (p \o front)[k] = p[k]
          BY <4>1, <4>2, <2>1, <2>0
        <5> QED
          BY <5>1, <5>2, <5>3
      <4>3. CASE k > Len(p) /\ k <= Len(p) + n
        <5>1. (p \o Append(front, x))[k] = front[k - Len(p)]
          BY <4>1, <4>3, <2>1, <2>0
        <5>2. Append(p \o front, x)[k] = (p \o front)[k]
          BY <4>1, <4>3, <2>1, <2>0, <3>1
        <5>3. (p \o front)[k] = front[k - Len(p)]
          BY <4>1, <4>3, <2>1, <2>0
        <5> QED
          BY <5>1, <5>2, <5>3
      <4>4. CASE k = Len(p) + n + 1
        <5>1. (p \o Append(front, x))[k] = Append(front, x)[n + 1]
          BY <4>1, <4>4, <2>1, <2>0
        <5>2. Append(p \o front, x)[k] = x
          BY <4>1, <4>4, <2>1, <2>0, <3>1
        <5> QED
          BY <5>1, <5>2, <2>1, <2>0
      <4> QED
        BY <4>1, <4>2, <4>3, <4>4, <2>0
    <3>5. p \o Append(front, x) = Append(p \o front, x)
      BY <3>1, <3>2, <3>3, <3>4, SeqEqual
    <3> QED
      BY <3>1, <3>5, <2>1
  <2>3. Total(p \o front) = Total(p) + Total(front)
    BY <2>1
  <2> HIDE DEF front, x
  <2>4. Total(r) = Total(front) + x
    BY <2>1, TotalAppend
  <2>5. Total(p \o r) = Total(p \o front) + x
    BY <2>1, <2>2, TotalAppend
  <2>6. Total(p) \in Int /\ Total(front) \in Int
    BY <2>1, TotalInt
  <2> QED
    BY <2>1, <2>3, <2>4, <2>5, <2>6
<1>2a. P \in SUBSET Nat
  OBVIOUS
<1> HIDE DEF P
<1>3. Len(q) \in P
  <2>1. \A n \in Nat : n \in P
    BY ONLY <1>1, <1>2, <1>2a, SetInduction
  <2> QED
    BY <2>1
<1> QED
  BY <1>3 DEF P

\* And for trades.
LEMMA SumOfNone == SumQuantity(<< >>) = 0
<1>1. [k \in DOMAIN << >> |-> << >>[k].quantity] = << >>
  OBVIOUS
<1> QED
  BY <1>1, TotalEmpty DEF SumQuantity

LEMMA QuantitiesAreInts ==
  ASSUME NEW ts \in Seq(TradeType)
  PROVE  LET q == [k \in DOMAIN ts |-> ts[k].quantity] IN q \in Seq(Int) /\ Len(q) = Len(ts)
<1>1. /\ Len(ts) \in Nat /\ DOMAIN ts = 1 .. Len(ts)
      /\ \A k \in 1 .. Len(ts) : ts[k].quantity \in Int
  <2>1. Len(ts) \in Nat /\ DOMAIN ts = 1 .. Len(ts)
    BY LenProperties
  <2>2. \A k \in 1 .. Len(ts) : ts[k] \in TradeType
    BY ElementOfSeq
  <2> QED
    BY <2>1, <2>2 DEF TradeType
<1> DEFINE n == Len(ts)
           q == [k \in 1 .. n |-> ts[k].quantity]
<1>2. q \in [1 .. n -> Int]
  BY <1>1
<1>3. q = [k \in DOMAIN ts |-> ts[k].quantity]
  BY <1>1
<1> HIDE DEF q
<1>4. q \in Seq(Int) /\ Len(q) = n
  BY <1>1, <1>2
<1> QED
  BY <1>3, <1>4

LEMMA SumOfAppend ==
  ASSUME NEW ts \in Seq(TradeType), NEW t \in TradeType
  PROVE  SumQuantity(ts) \in Int /\ SumQuantity(Append(ts, t)) = SumQuantity(ts) + t.quantity
<1> DEFINE q == [k \in DOMAIN ts |-> ts[k].quantity]
           r == [k \in DOMAIN Append(ts, t) |-> Append(ts, t)[k].quantity]
<1>1. q \in Seq(Int) /\ Len(q) = Len(ts) /\ r \in Seq(Int) /\ Len(r) = Len(ts) + 1
  <2>1. Append(ts, t) \in Seq(TradeType) /\ Len(Append(ts, t)) = Len(ts) + 1
    OBVIOUS
  <2>2. q \in Seq(Int) /\ Len(q) = Len(ts)
    BY QuantitiesAreInts
  <2>3. r \in Seq(Int) /\ Len(r) = Len(Append(ts, t))
    BY ONLY <2>1, QuantitiesAreInts
  <2> QED
    BY <2>1, <2>2, <2>3
<1>2. /\ Len(ts) \in Nat /\ DOMAIN ts = 1 .. Len(ts)
      /\ DOMAIN Append(ts, t) = 1 .. Len(ts) + 1
      /\ \A k \in 1 .. Len(ts) : Append(ts, t)[k] = ts[k]
      /\ Append(ts, t)[Len(ts) + 1] = t
  BY LenProperties
<1>3. t.quantity \in Int
  BY DEF TradeType
<1>4. \A k \in 1 .. Len(ts) : q[k] = ts[k].quantity /\ r[k] = ts[k].quantity
  BY <1>2
<1>5. r[Len(ts) + 1] = t.quantity
  <2>1. Len(ts) + 1 \in DOMAIN Append(ts, t)
    BY <1>2
  <2> QED
    BY <1>2, <2>1
<1>6. SumQuantity(ts) = Total(q) /\ SumQuantity(Append(ts, t)) = Total(r)
  BY DEF SumQuantity
<1> HIDE DEF q, r
<1>7. Append(q, t.quantity) \in Seq(Int) /\ Len(Append(q, t.quantity)) = Len(ts) + 1
  BY <1>1, <1>3
<1>8. \A k \in 1 .. Len(ts) + 1 : r[k] = Append(q, t.quantity)[k]
  BY <1>1, <1>2, <1>3, <1>4, <1>5
<1>9. r = Append(q, t.quantity)
  BY <1>1, <1>7, <1>8, SeqEqual
<1> QED
  BY <1>1, <1>3, <1>6, <1>9, TotalAppend, TotalInt
=============================================================================
