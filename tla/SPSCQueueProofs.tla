---------------------------- MODULE SPSCQueueProofs ----------------------------
(***************************************************************************)
(* Proofs about SPSCQueue, for every capacity that is a power of 2 and any *)
(* number of items: the two counters alone keep the threads from racing on *)
(* the buffer, and the queue is a bounded FIFO.                            *)
(***************************************************************************)
EXTENDS SPSCQueue, TLAPS

\* Different items of a window as long as the buffer have different slots.
LEMMA SlotsDiffer ==
  ASSUME NEW C \in Nat \ {0}, NEW m \in Nat, NEW n \in Nat, m < n, n < m + C
  PROVE  m % C # n % C
<1> SUFFICES ASSUME m % C = n % C
             PROVE  FALSE
  OBVIOUS
<1> DEFINE a == m \div C
           b == n \div C
           r == m % C
<1>1. a \in Int /\ b \in Int /\ r \in Int
  OBVIOUS
<1>2. m = C * a + r /\ n = C * b + r
  OBVIOUS
<1> HIDE DEF a, b, r
<1>3. C * (b - a) = n - m
  BY <1>1, <1>2, Z3
<1>4. CASE b - a <= 0
  <2>1. C * (b - a) <= 0
    BY <1>1, <1>4, Z3
  <2> QED
    BY <1>3, <2>1
<1>5. CASE b - a >= 1
  <2>1. C * (b - a) >= C
    BY <1>1, <1>5, Z3
  <2> QED
    BY <1>3, <2>1
<1> QED
  BY <1>1, <1>4, <1>5

LEMMA CapacityIsPositive == Capacity \in Nat \ {0}
<1>1. Capacity \in Nat /\ 1 .. Capacity # {}
  BY CapacityAssumption
<1> QED
  BY <1>1

LEMMA SlotProperties ==
  ASSUME NEW m \in Nat
  PROVE  /\ Slot(m) \in 0 .. Capacity - 1
         /\ \A n \in Nat : m < n /\ n < m + Capacity => Slot(m) # Slot(n)
<1>1. Capacity \in Nat \ {0}
  BY CapacityIsPositive
<1>2. m % Capacity \in 0 .. Capacity - 1
  BY <1>1, Z3
<1>3. \A n \in Nat : m < n /\ n < m + Capacity => m % Capacity # n % Capacity
  BY <1>1, SlotsDiffer
<1> QED
  BY <1>2, <1>3 DEF Slot

LEMMA CountsProperties ==
  /\ MaxPushes \in Nat
  /\ \A c : c \in Counts <=> c \in Nat /\ c <= MaxPushes
BY MaxPushesAssumption DEF Counts

LEMMA JoinProperties ==
  ASSUME NEW v \in Views, NEW w \in Views
  PROVE  /\ Join(v, w) \in Views
         /\ v.head <= Join(v, w).head /\ w.head <= Join(v, w).head
         /\ v.tail <= Join(v, w).tail /\ w.tail <= Join(v, w).tail
         /\ Join(v, w).head \in {v.head, w.head}
         /\ Join(v, w).tail \in {v.tail, w.tail}
BY CountsProperties DEF Views, Join, View, Larger

LEMMA ViewProperties ==
  ASSUME NEW h \in Counts, NEW t \in Counts
  PROVE  View(h, t) \in Views /\ View(h, t).head = h /\ View(h, t).tail = t
BY DEF View, Views

-----------------------------------------------------------------------------
(***************************************************************************)
(* The inductive invariant.  A thread knows no more than what is, and each *)
(* of the two counters carries what the other thread needs: the store of t *)
(* into tail_ that slots up to t - Capacity have been read, the store of h *)
(* into head_ that items up to h had been written.                         *)
(***************************************************************************)
CountersOK == head <= tail /\ tail <= head + Capacity

KnowledgeOK ==
  /\ \A thread \in Threads : knows[thread].head <= head /\ knows[thread].tail <= tail
  /\ knows[Producer].tail = tail
  /\ knows[Consumer].head = head

MessagesOK ==
  /\ \A h \in 0 .. head : headMessage[h].head = h /\ headMessage[h].tail <= tail
  /\ \A t \in 0 .. tail :
       /\ tailMessage[t].tail = t
       /\ tailMessage[t].head <= head
       /\ t <= tailMessage[t].head + Capacity

PlacesOK ==
  /\ at[Producer] # "idle" => tail < MaxPushes /\ tail < knows[Producer].head + Capacity
  /\ at[Consumer] # "idle" => head < knows[Consumer].tail
  /\ at[Observer] # "idle" => first <= knows[Observer].head + Capacity
  /\ size <= Capacity

ItemsOK ==
  /\ ItemsInPlace
  /\ at[Producer] = "store" => buffer[Slot(tail)] = tail
  /\ at[Consumer] \in {"commit", "looked"} => item = head
  /\ received = [n \in 1 .. head |-> n - 1]

QueueInv == TypeOK /\ CountersOK /\ KnowledgeOK /\ MessagesOK /\ PlacesOK /\ ItemsOK

\* What follows from the types, for arithmetic.
LEMMA Numbers ==
  ASSUME TypeOK
  PROVE  /\ MaxPushes \in Nat /\ Capacity \in Nat \ {0}
         /\ head \in Nat /\ head <= MaxPushes /\ tail \in Nat /\ tail <= MaxPushes
         /\ first \in Nat /\ size \in Nat
         /\ \A thread \in Threads : /\ knows[thread] \in Views
                                    /\ knows[thread].head \in Nat
                                    /\ knows[thread].tail \in Nat
         /\ \A c \in Counts : /\ headMessage[c] \in Views
                              /\ headMessage[c].head \in Nat /\ headMessage[c].tail \in Nat
                              /\ tailMessage[c] \in Views
                              /\ tailMessage[c].head \in Nat /\ tailMessage[c].tail \in Nat
BY CountsProperties, CapacityIsPositive DEF TypeOK, Views

LEMMA ThreadsDiffer ==
  /\ Producer \in Threads /\ Consumer \in Threads /\ Observer \in Threads
  /\ Producer # Consumer /\ Producer # Observer /\ Consumer # Observer
BY DEF Threads, Producer, Consumer, Observer

\* An acquire load of head_ (of tail_) teaches a thread at least what it loads, and
\* nothing that is not so.
Learns(thread, h, t) ==
  /\ knows' \in [Threads -> Views]
  /\ \A other \in Threads \ {thread} : knows'[other] = knows[other]
  /\ h <= knows'[thread].head /\ knows[thread].head <= knows'[thread].head
  /\ t <= knows'[thread].tail /\ knows[thread].tail <= knows'[thread].tail
  /\ knows'[thread].head <= head /\ knows'[thread].tail <= tail
  /\ knows'[thread].head \in Nat /\ knows'[thread].tail \in Nat

LEMMA AcquireHeadLearns ==
  ASSUME TypeOK, KnowledgeOK, MessagesOK, NEW thread \in Threads, NEW h \in Counts,
         AcquireHead(thread, h)
  PROVE  Learns(thread, h, 0) /\ h <= head /\ knows[thread].head <= h
<1> DEFINE message == headMessage[h]
           joined == Join(knows[thread], message)
<1>1. h \in 0 .. head /\ h <= head /\ knows[thread].head <= h
  BY Numbers, CountsProperties DEF AcquireHead
<1>2. /\ message \in Views /\ message.head = h /\ message.tail <= tail
      /\ message.tail \in Nat /\ knows[thread] \in Views
      /\ knows[thread].head \in Nat /\ knows[thread].tail \in Nat
      /\ knows[thread].head <= head /\ knows[thread].tail <= tail
  BY <1>1, Numbers DEF MessagesOK, KnowledgeOK
<1>3. knows' = [knows EXCEPT ![thread] = joined]
  BY DEF AcquireHead
<1> HIDE DEF message
<1>4. /\ joined \in Views
      /\ knows[thread].head <= joined.head /\ h <= joined.head /\ joined.head \in Nat
      /\ knows[thread].tail <= joined.tail /\ joined.tail <= tail /\ joined.tail \in Nat
      /\ joined.head <= head
  BY <1>1, <1>2, JoinProperties
<1> HIDE DEF joined
<1>5. knows \in [Threads -> Views]
  BY DEF TypeOK
<1> QED
  BY <1>1, <1>3, <1>4, <1>5 DEF Learns

LEMMA AcquireTailLearns ==
  ASSUME TypeOK, KnowledgeOK, MessagesOK, NEW thread \in Threads, NEW t \in Counts,
         AcquireTail(thread, t)
  PROVE  /\ Learns(thread, tailMessage[t].head, t)
         /\ t <= tailMessage[t].head + Capacity
         /\ tailMessage[t].head \in Nat
<1> DEFINE message == tailMessage[t]
           joined == Join(knows[thread], message)
<1>1. t \in 0 .. tail
  BY Numbers, CountsProperties DEF AcquireTail
<1>2. /\ message \in Views /\ message.tail = t /\ message.head <= head
      /\ message.head \in Nat /\ knows[thread] \in Views
      /\ knows[thread].head \in Nat /\ knows[thread].tail \in Nat
      /\ knows[thread].head <= head /\ knows[thread].tail <= tail
      /\ t <= message.head + Capacity
  BY <1>1, Numbers DEF MessagesOK, KnowledgeOK
<1>3. knows' = [knows EXCEPT ![thread] = joined]
  BY DEF AcquireTail
<1>4. t <= tail /\ t \in Nat
  BY <1>1, Numbers
<1> HIDE DEF message
<1>5. /\ joined \in Views
      /\ knows[thread].head <= joined.head /\ message.head <= joined.head
      /\ joined.head \in Nat /\ joined.head <= head
      /\ knows[thread].tail <= joined.tail /\ t <= joined.tail /\ joined.tail <= tail
      /\ joined.tail \in Nat
  <2>1. /\ joined \in Views
        /\ knows[thread].head <= joined.head /\ message.head <= joined.head
        /\ knows[thread].tail <= joined.tail /\ message.tail <= joined.tail
        /\ joined.head \in {knows[thread].head, message.head}
        /\ joined.tail \in {knows[thread].tail, message.tail}
    BY <1>2, JoinProperties
  <2> HIDE DEF joined
  <2> QED
    BY <1>2, <1>4, <2>1
<1> HIDE DEF joined
<1>6. knows \in [Threads -> Views]
  BY DEF TypeOK
<1>7. Learns(thread, message.head, t)
  BY <1>3, <1>5, <1>6 DEF Learns
<1> QED
  BY <1>2, <1>7 DEF message

LEMMA LearningKeepsKnowledge ==
  ASSUME TypeOK, KnowledgeOK, NEW thread \in Threads, NEW h \in Nat, NEW t \in Nat,
         Learns(thread, h, t), UNCHANGED <<head, tail>>
  PROVE  KnowledgeOK'
<1>1. \A other \in Threads : knows'[other].head <= head /\ knows'[other].tail <= tail
  BY DEF Learns, KnowledgeOK
<1>2. knows'[Producer].tail = tail
  <2>1. CASE thread = Producer
    BY <2>1, Numbers, ThreadsDiffer DEF Learns, KnowledgeOK
  <2>2. CASE thread # Producer
    BY <2>2, ThreadsDiffer DEF Learns, KnowledgeOK
  <2> QED
    BY <2>1, <2>2
<1>3. knows'[Consumer].head = head
  <2>1. CASE thread = Consumer
    BY <2>1, Numbers, ThreadsDiffer DEF Learns, KnowledgeOK
  <2>2. CASE thread # Consumer
    BY <2>2, ThreadsDiffer DEF Learns, KnowledgeOK
  <2> QED
    BY <2>1, <2>2
<1> QED
  BY <1>1, <1>2, <1>3 DEF KnowledgeOK

-----------------------------------------------------------------------------
\* The producer may call try_push with any value of head_ that it may load.
LEMMA TryPushKeeps ==
  ASSUME QueueInv, NEW h \in Counts, TryPush(h)
  PROVE  QueueInv'
<1> USE DEF QueueInv
<1>1. Learns(Producer, h, 0) /\ h <= head
  BY AcquireHeadLearns, ThreadsDiffer DEF TryPush
<1>2. /\ UNCHANGED <<buffer, head, tail, headMessage, tailMessage, item, first, size, received>>
      /\ at' = [at EXCEPT ![Producer] = IF Full(tail, h) THEN "idle" ELSE "write"]
      /\ at[Producer] = "idle" /\ tail < MaxPushes
  BY DEF TryPush, Go
<1>3. \A thread \in Threads \ {Producer} : at'[thread] = at[thread]
  BY <1>2 DEF TypeOK
<1>4. /\ at'[Producer] \in {"idle", "write"}
      /\ at'[Producer] = "write" => ~Full(tail, h)
      /\ at' \in [Threads -> {"idle", "write", "store", "read", "commit", "checked",
                                "peeked", "looked", "size"}]
  BY <1>2, ThreadsDiffer DEF TypeOK
<1>5. TypeOK'
  BY <1>1, <1>2, <1>3, <1>4, ThreadsDiffer DEF TypeOK, Learns
<1>6. KnowledgeOK'
  BY <1>1, <1>2, LearningKeepsKnowledge, ThreadsDiffer, CountsProperties
<1>7. PlacesOK'
  <2>1. at'[Producer] # "idle" => tail < knows'[Producer].head + Capacity
    BY <1>1, <1>4, Numbers, CountsProperties DEF Full, Learns
  <2>2. knows'[Consumer] = knows[Consumer] /\ knows'[Observer] = knows[Observer]
    BY <1>1, ThreadsDiffer DEF Learns
  <2> QED
    BY <1>2, <1>3, <2>1, <2>2, ThreadsDiffer DEF PlacesOK
<1>8. CountersOK' /\ MessagesOK'
  BY <1>2 DEF CountersOK, MessagesOK
<1>9. ItemsOK'
  <2>1. at'[Producer] # "store" /\ at'[Consumer] = at[Consumer]
    BY <1>3, <1>4, ThreadsDiffer
  <2>2. ItemsInPlace'
    BY <1>2 DEF ItemsOK, ItemsInPlace
  <2> QED
    BY <1>2, <2>1, <2>2 DEF ItemsOK
<1> QED
  BY <1>5, <1>6, <1>7, <1>8, <1>9

LEMMA WriteItemKeeps ==
  ASSUME QueueInv, WriteItem
  PROVE  QueueInv'
<1> USE DEF QueueInv
<1>1. /\ UNCHANGED <<head, tail, headMessage, tailMessage, knows, item, first, size, received>>
      /\ buffer' = [buffer EXCEPT ![Slot(tail)] = tail]
      /\ at' = [at EXCEPT ![Producer] = "store"]
      /\ at[Producer] = "write"
  BY DEF WriteItem, Go
<1>2. \A thread \in Threads \ {Producer} : at'[thread] = at[thread]
  BY <1>1 DEF TypeOK
<1>3. at'[Producer] = "store"
  BY <1>1, ThreadsDiffer DEF TypeOK
<1>4. Slot(tail) \in 0 .. Capacity - 1
  BY Numbers, SlotProperties
<1>5. TypeOK'
  <2>1. buffer' \in [0 .. Capacity - 1 -> Counts \cup {-1}]
    BY <1>1, <1>4 DEF TypeOK
  <2>2. at' \in [Threads -> {"idle", "write", "store", "read", "commit", "checked",
                              "peeked", "looked", "size"}]
    BY <1>1 DEF TypeOK
  <2> QED
    BY <1>1, <1>2, <1>3, <2>1, <2>2, ThreadsDiffer DEF TypeOK
<1>6. CountersOK' /\ KnowledgeOK' /\ MessagesOK'
  BY <1>1 DEF CountersOK, KnowledgeOK, MessagesOK
<1>7. PlacesOK'
  BY <1>1, <1>2, ThreadsDiffer DEF PlacesOK
<1>8. ItemsOK'
  <2>1. tail < head + Capacity
    BY <1>1, Numbers, ThreadsDiffer DEF PlacesOK, KnowledgeOK
  <2>2. ASSUME NEW n \in head .. tail - 1
        PROVE  buffer'[Slot(n)] = n
    <3>1. n \in Nat /\ n < tail /\ tail < n + Capacity
      BY <2>1, Numbers
    <3>2. Slot(n) # Slot(tail) /\ Slot(n) \in 0 .. Capacity - 1
      BY <3>1, Numbers, SlotProperties
    <3>3. buffer[Slot(n)] = n
      BY DEF ItemsOK, ItemsInPlace
    <3> QED
      BY <1>1, <3>2, <3>3 DEF TypeOK
  <2>3. buffer'[Slot(tail)] = tail
    BY <1>1, <1>4 DEF TypeOK
  <2>4. ItemsInPlace'
    BY <1>1, <2>2 DEF ItemsInPlace, Slot
  <2>5. at'[Consumer] = at[Consumer]
    BY <1>2, ThreadsDiffer
  <2> QED
    BY <1>1, <2>3, <2>4, <2>5 DEF ItemsOK, Slot
<1> QED
  BY <1>5, <1>6, <1>7, <1>8

LEMMA PublishItemKeeps ==
  ASSUME QueueInv, PublishItem
  PROVE  QueueInv'
<1> USE DEF QueueInv
<1> DEFINE was == knows[Producer].head
           message == View(was, tail + 1)
<1>1. /\ UNCHANGED <<buffer, head, headMessage, item, first, size, received>>
      /\ tail' = tail + 1
      /\ knows' = [knows EXCEPT ![Producer] = message]
      /\ tailMessage' = [tailMessage EXCEPT ![tail + 1] = message]
      /\ at' = [at EXCEPT ![Producer] = "idle"]
      /\ at[Producer] = "store"
  BY ThreadsDiffer DEF PublishItem, StoreTail, Go, TypeOK
<1>2. /\ tail < MaxPushes /\ tail < was + Capacity /\ was <= head /\ was \in Nat
      /\ was \in Counts /\ tail + 1 \in Counts
  BY <1>1, Numbers, CountsProperties, ThreadsDiffer DEF PlacesOK, KnowledgeOK
<1>3. message \in Views /\ message.head = was /\ message.tail = tail + 1
  BY <1>2, ViewProperties
<1> HIDE DEF message
<1>4. \A thread \in Threads \ {Producer} : at'[thread] = at[thread] /\ knows'[thread] = knows[thread]
  BY <1>1 DEF TypeOK
<1>5. at'[Producer] = "idle" /\ knows'[Producer] = message
  BY <1>1, ThreadsDiffer DEF TypeOK
<1>6. TypeOK'
  <2>1. /\ knows' \in [Threads -> Views] /\ tailMessage' \in [Counts -> Views]
        /\ tail' \in Counts
    BY <1>1, <1>2, <1>3 DEF TypeOK
  <2>2. at' \in [Threads -> {"idle", "write", "store", "read", "commit", "checked",
                              "peeked", "looked", "size"}]
    BY <1>1 DEF TypeOK
  <2> QED
    BY <1>1, <1>4, <1>5, <2>1, <2>2, ThreadsDiffer DEF TypeOK
<1>7. CountersOK'
  BY <1>1, <1>2, Numbers DEF CountersOK
<1>8. KnowledgeOK'
  <2>1. ASSUME NEW thread \in Threads
        PROVE  knows'[thread].head <= head /\ knows'[thread].tail <= tail + 1
    BY <1>2, <1>3, <1>4, <1>5, Numbers DEF KnowledgeOK
  <2>2. knows'[Producer].tail = tail + 1 /\ knows'[Consumer].head = head
    BY <1>3, <1>4, <1>5, ThreadsDiffer DEF KnowledgeOK
  <2> QED
    BY <1>1, <2>1, <2>2 DEF KnowledgeOK
<1>9. MessagesOK'
  <2>1. ASSUME NEW h \in 0 .. head
        PROVE  headMessage[h].head = h /\ headMessage[h].tail <= tail + 1
    BY Numbers, CountsProperties DEF MessagesOK
  <2>2. ASSUME NEW t \in 0 .. tail + 1
        PROVE  /\ tailMessage'[t].tail = t /\ tailMessage'[t].head <= head
               /\ t <= tailMessage'[t].head + Capacity
    <3>1. CASE t = tail + 1
      <4>1. tailMessage'[t] = message
        BY <1>1, <1>2, <3>1 DEF TypeOK
      <4> QED
        BY <1>2, <1>3, <3>1, <4>1, Numbers
    <3>2. CASE t # tail + 1
      <4>1. t \in 0 .. tail /\ t \in Counts
        BY <3>2, Numbers, CountsProperties
      <4>2. tailMessage'[t] = tailMessage[t]
        BY <1>1, <3>2, <4>1 DEF TypeOK
      <4> QED
        BY <4>1, <4>2 DEF MessagesOK
    <3> QED
      BY <3>1, <3>2
  <2> QED
    BY <1>1, <2>1, <2>2 DEF MessagesOK
<1>10. PlacesOK'
  BY <1>1, <1>4, <1>5, ThreadsDiffer DEF PlacesOK
<1>11. ItemsOK'
  <2>1. \A n \in head .. (tail + 1) - 1 : buffer[Slot(n)] = n
    BY <1>1, Numbers DEF ItemsOK, ItemsInPlace
  <2>2. ItemsInPlace'
    BY <1>1, <2>1 DEF ItemsInPlace
  <2>3. at'[Producer] = "idle" /\ at'[Consumer] = at[Consumer]
    BY <1>4, <1>5, ThreadsDiffer
  <2> QED
    BY <1>1, <2>2, <2>3 DEF ItemsOK
<1> QED
  BY <1>6, <1>7, <1>8, <1>9, <1>10, <1>11

-----------------------------------------------------------------------------
\* What the consumer calls to learn whether there is an item.
LEMMA LookForItemKeeps ==
  ASSUME QueueInv, NEW t \in Counts, NEW place \in {"read", "peeked", "checked"},
         LookForItem(t, place)
  PROVE  QueueInv'
<1> USE DEF QueueInv
<1>1. Learns(Consumer, tailMessage[t].head, t) /\ tailMessage[t].head \in Nat
  BY AcquireTailLearns, ThreadsDiffer DEF LookForItem
<1>2. /\ UNCHANGED <<buffer, head, tail, headMessage, tailMessage, item, first, size, received>>
      /\ at' = [at EXCEPT ![Consumer] = IF Empty(head, t) THEN "idle" ELSE place]
  BY DEF LookForItem, Go
<1>3. \A thread \in Threads \ {Consumer} : at'[thread] = at[thread]
  BY <1>2 DEF TypeOK
<1>4. /\ at'[Consumer] \in {"idle", "read", "peeked", "checked"}
      /\ at'[Consumer] # "idle" => ~Empty(head, t)
      /\ at' \in [Threads -> {"idle", "write", "store", "read", "commit", "checked",
                                "peeked", "looked", "size"}]
  BY <1>2, ThreadsDiffer DEF TypeOK
<1>5. TypeOK'
  BY <1>1, <1>2, <1>3, <1>4, ThreadsDiffer DEF TypeOK, Learns
<1>6. KnowledgeOK'
  BY <1>1, <1>2, LearningKeepsKnowledge, ThreadsDiffer, CountsProperties
<1>7. PlacesOK'
  <2>1. at'[Consumer] # "idle" => head < knows'[Consumer].tail
    BY <1>1, <1>4, Numbers, CountsProperties DEF Empty, Learns
  <2>2. knows'[Producer] = knows[Producer] /\ knows'[Observer] = knows[Observer]
    BY <1>1, ThreadsDiffer DEF Learns
  <2> QED
    BY <1>2, <1>3, <2>1, <2>2, ThreadsDiffer DEF PlacesOK
<1>8. CountersOK' /\ MessagesOK'
  BY <1>2 DEF CountersOK, MessagesOK
<1>9. ItemsOK'
  <2>1. at'[Consumer] \notin {"commit", "looked"} /\ at'[Producer] = at[Producer]
    BY <1>3, <1>4, ThreadsDiffer
  <2>2. ItemsInPlace'
    BY <1>2 DEF ItemsOK, ItemsInPlace
  <2> QED
    BY <1>2, <2>1, <2>2 DEF ItemsOK
<1> QED
  BY <1>5, <1>6, <1>7, <1>8, <1>9

LEMMA ReadItemKeeps ==
  ASSUME QueueInv, ReadItem
  PROVE  QueueInv'
<1> USE DEF QueueInv
<1>1. /\ UNCHANGED <<buffer, head, tail, headMessage, tailMessage, knows, first, size, received>>
      /\ item' = buffer[Slot(head)]
      /\ at' = [at EXCEPT ![Consumer] = IF at[Consumer] = "read" THEN "commit" ELSE "looked"]
      /\ at[Consumer] \in {"read", "peeked"}
  BY DEF ReadItem, Go
<1>2. \A thread \in Threads \ {Consumer} : at'[thread] = at[thread]
  BY <1>1 DEF TypeOK
<1>3. /\ at'[Consumer] \in {"commit", "looked"}
      /\ at' \in [Threads -> {"idle", "write", "store", "read", "commit", "checked",
                                "peeked", "looked", "size"}]
  BY <1>1, ThreadsDiffer DEF TypeOK
<1>4. item' = head
  <2>1. head < tail
    BY <1>1, Numbers, ThreadsDiffer DEF PlacesOK, KnowledgeOK
  <2>2. head \in head .. tail - 1
    BY <2>1, Numbers
  <2> QED
    BY <1>1, <2>2 DEF ItemsOK, ItemsInPlace
<1>5. TypeOK'
  BY <1>1, <1>2, <1>3, <1>4, ThreadsDiffer DEF TypeOK
<1>6. CountersOK' /\ KnowledgeOK' /\ MessagesOK'
  BY <1>1 DEF CountersOK, KnowledgeOK, MessagesOK
<1>7. PlacesOK'
  BY <1>1, <1>2, ThreadsDiffer DEF PlacesOK
<1>8. ItemsOK'
  <2>1. at'[Producer] = at[Producer]
    BY <1>2, ThreadsDiffer
  <2>2. ItemsInPlace'
    BY <1>1 DEF ItemsOK, ItemsInPlace
  <2> QED
    BY <1>1, <1>4, <2>1, <2>2 DEF ItemsOK
<1> QED
  BY <1>5, <1>6, <1>7, <1>8

LEMMA PopCommitKeeps ==
  ASSUME QueueInv, PopCommit
  PROVE  QueueInv'
<1> USE DEF QueueInv
<1> DEFINE was == knows[Consumer].tail
           message == View(head + 1, was)
<1>1. /\ UNCHANGED <<buffer, tail, tailMessage, first, size>>
      /\ head' = head + 1
      /\ knows' = [knows EXCEPT ![Consumer] = message]
      /\ headMessage' = [headMessage EXCEPT ![head + 1] = message]
      /\ at' = [at EXCEPT ![Consumer] = "idle"]
      /\ at[Consumer] \in {"commit", "looked"}
      /\ received' = Append(received, item)
      /\ item' = -1
  BY ThreadsDiffer DEF PopCommit, StoreHead, Go, TypeOK
<1>2. /\ head < was /\ was <= tail /\ was \in Nat
      /\ was \in Counts /\ head + 1 \in Counts
  <2>1. head < was /\ was <= tail /\ was \in Nat
    BY <1>1, Numbers, ThreadsDiffer DEF PlacesOK, KnowledgeOK
  <2> HIDE DEF was
  <2> QED
    BY <2>1, Numbers, CountsProperties
<1>3. message \in Views /\ message.head = head + 1 /\ message.tail = was
  BY <1>2, ViewProperties
<1> HIDE DEF message
<1>4. \A thread \in Threads \ {Consumer} : at'[thread] = at[thread] /\ knows'[thread] = knows[thread]
  BY <1>1 DEF TypeOK
<1>5. at'[Consumer] = "idle" /\ knows'[Consumer] = message
  BY <1>1, ThreadsDiffer DEF TypeOK
<1>6. TypeOK'
  <2>1. /\ knows' \in [Threads -> Views] /\ headMessage' \in [Counts -> Views]
        /\ head' \in Counts
    BY <1>1, <1>2, <1>3 DEF TypeOK
  <2>2. at' \in [Threads -> {"idle", "write", "store", "read", "commit", "checked",
                              "peeked", "looked", "size"}]
    BY <1>1 DEF TypeOK
  <2>3. received' \in Seq(Counts \cup {-1})
    BY <1>1 DEF TypeOK
  <2> QED
    BY <1>1, <1>4, <1>5, <2>1, <2>2, <2>3, ThreadsDiffer DEF TypeOK
<1>7. CountersOK'
  BY <1>1, <1>2, Numbers DEF CountersOK
<1>8. KnowledgeOK'
  <2>1. ASSUME NEW thread \in Threads
        PROVE  knows'[thread].head <= head + 1 /\ knows'[thread].tail <= tail
    BY <1>2, <1>3, <1>4, <1>5, Numbers DEF KnowledgeOK
  <2>2. knows'[Producer].tail = tail /\ knows'[Consumer].head = head + 1
    BY <1>3, <1>4, <1>5, ThreadsDiffer DEF KnowledgeOK
  <2> QED
    BY <1>1, <2>1, <2>2 DEF KnowledgeOK
<1>9. MessagesOK'
  <2>1. ASSUME NEW h \in 0 .. head + 1
        PROVE  headMessage'[h].head = h /\ headMessage'[h].tail <= tail
    <3>1. CASE h = head + 1
      <4>1. headMessage'[h] = message
        BY <1>1, <1>2, <3>1 DEF TypeOK
      <4> QED
        BY <1>2, <1>3, <3>1, <4>1
    <3>2. CASE h # head + 1
      <4>1. h \in 0 .. head /\ h \in Counts
        BY <3>2, Numbers, CountsProperties
      <4>2. headMessage'[h] = headMessage[h]
        BY <1>1, <3>2, <4>1 DEF TypeOK
      <4> QED
        BY <4>1, <4>2 DEF MessagesOK
    <3> QED
      BY <3>1, <3>2
  <2>2. ASSUME NEW t \in 0 .. tail
        PROVE  /\ tailMessage[t].tail = t /\ tailMessage[t].head <= head + 1
               /\ t <= tailMessage[t].head + Capacity
    BY Numbers, CountsProperties DEF MessagesOK
  <2> QED
    BY <1>1, <2>1, <2>2 DEF MessagesOK
<1>10. PlacesOK'
  BY <1>1, <1>4, <1>5, ThreadsDiffer DEF PlacesOK
<1>11. ItemsOK'
  <2>1. \A n \in head + 1 .. tail - 1 : buffer[Slot(n)] = n
    BY Numbers DEF ItemsOK, ItemsInPlace
  <2>2. ItemsInPlace'
    BY <1>1, <2>1 DEF ItemsInPlace
  <2>3. at'[Consumer] = "idle" /\ at'[Producer] = at[Producer]
    BY <1>4, <1>5, ThreadsDiffer
  <2>4. Append([n \in 1 .. head |-> n - 1], head) = [n \in 1 .. head + 1 |-> n - 1]
    BY Numbers
  <2>5. received' = [n \in 1 .. head + 1 |-> n - 1]
    BY <1>1, <2>4 DEF ItemsOK
  <2> QED
    BY <1>1, <2>2, <2>3, <2>5 DEF ItemsOK
<1> QED
  BY <1>6, <1>7, <1>8, <1>9, <1>10, <1>11

\* The two loads of size_approx.
LEMMA SizeLoadTailKeeps ==
  ASSUME QueueInv, NEW t \in Counts, SizeLoadTail(t)
  PROVE  QueueInv'
<1> USE DEF QueueInv
<1>1. /\ Learns(Observer, tailMessage[t].head, t) /\ tailMessage[t].head \in Nat
      /\ t <= tailMessage[t].head + Capacity
  BY AcquireTailLearns, ThreadsDiffer DEF SizeLoadTail
<1>2. /\ UNCHANGED <<buffer, head, tail, headMessage, tailMessage, item, size, received>>
      /\ at' = [at EXCEPT ![Observer] = "size"]
      /\ first' = t
  BY DEF SizeLoadTail, Go
<1>3. \A thread \in Threads \ {Observer} : at'[thread] = at[thread]
  BY <1>2 DEF TypeOK
<1>4. /\ at'[Observer] = "size"
      /\ at' \in [Threads -> {"idle", "write", "store", "read", "commit", "checked",
                                "peeked", "looked", "size"}]
  BY <1>2, ThreadsDiffer DEF TypeOK
<1>5. TypeOK'
  BY <1>1, <1>2, <1>3, <1>4, ThreadsDiffer DEF TypeOK, Learns
<1>6. KnowledgeOK'
  BY <1>1, <1>2, LearningKeepsKnowledge, ThreadsDiffer, CountsProperties
<1>7. PlacesOK'
  <2>1. t <= knows'[Observer].head + Capacity
    BY <1>1, Numbers, CountsProperties DEF Learns
  <2>2. knows'[Producer] = knows[Producer] /\ knows'[Consumer] = knows[Consumer]
    BY <1>1, ThreadsDiffer DEF Learns
  <2> QED
    BY <1>2, <1>3, <2>1, <2>2, ThreadsDiffer DEF PlacesOK
<1>8. CountersOK' /\ MessagesOK'
  BY <1>2 DEF CountersOK, MessagesOK
<1>9. ItemsOK'
  <2>1. at'[Consumer] = at[Consumer] /\ at'[Producer] = at[Producer]
    BY <1>3, ThreadsDiffer
  <2>2. ItemsInPlace'
    BY <1>2 DEF ItemsOK, ItemsInPlace
  <2> QED
    BY <1>2, <2>1, <2>2 DEF ItemsOK
<1> QED
  BY <1>5, <1>6, <1>7, <1>8, <1>9

LEMMA SizeLoadHeadKeeps ==
  ASSUME QueueInv, NEW h \in Counts, SizeLoadHead(h)
  PROVE  QueueInv'
<1> USE DEF QueueInv
<1>1. Learns(Observer, h, 0) /\ knows[Observer].head <= h
  BY AcquireHeadLearns, ThreadsDiffer DEF SizeLoadHead
<1>2. /\ UNCHANGED <<buffer, head, tail, headMessage, tailMessage, item, received>>
      /\ at' = [at EXCEPT ![Observer] = "idle"]
      /\ first' = 0 /\ size' = Difference(first, h)
      /\ at[Observer] = "size"
  BY DEF SizeLoadHead, Go
<1>3. \A thread \in Threads \ {Observer} : at'[thread] = at[thread]
  BY <1>2 DEF TypeOK
<1>4. /\ at'[Observer] = "idle"
      /\ at' \in [Threads -> {"idle", "write", "store", "read", "commit", "checked",
                                "peeked", "looked", "size"}]
  BY <1>2, ThreadsDiffer DEF TypeOK
<1>5. size' \in Counts /\ size' <= Capacity
  <2>1. first <= knows[Observer].head + Capacity /\ knows[Observer].head \in Nat
    BY <1>2, Numbers, ThreadsDiffer DEF PlacesOK
  <2> QED
    <3>1. h \in Nat /\ first \in Nat /\ first <= MaxPushes /\ MaxPushes \in Nat
          /\ Capacity \in Nat
      BY Numbers, CountsProperties DEF TypeOK
    <3>2. Difference(first, h) \in Nat /\ Difference(first, h) <= MaxPushes
          /\ Difference(first, h) <= Capacity
      BY <1>1, <2>1, <3>1 DEF Difference
    <3> QED
      BY <1>2, <3>2, CountsProperties
<1>6. TypeOK'
  <2>1. first' \in Counts
    BY <1>2, CountsProperties
  <2> QED
    BY <1>1, <1>2, <1>3, <1>4, <1>5, <2>1, ThreadsDiffer DEF TypeOK, Learns
<1>7. KnowledgeOK'
  BY <1>1, <1>2, LearningKeepsKnowledge, ThreadsDiffer, CountsProperties
<1>8. PlacesOK'
  <2>1. knows'[Producer] = knows[Producer] /\ knows'[Consumer] = knows[Consumer]
    BY <1>1, ThreadsDiffer DEF Learns
  <2> QED
    BY <1>2, <1>3, <1>4, <1>5, <2>1, ThreadsDiffer DEF PlacesOK
<1>9. CountersOK' /\ MessagesOK'
  BY <1>2 DEF CountersOK, MessagesOK
<1>10. ItemsOK'
  <2>1. at'[Consumer] = at[Consumer] /\ at'[Producer] = at[Producer]
    BY <1>3, ThreadsDiffer
  <2>2. ItemsInPlace'
    BY <1>2 DEF ItemsOK, ItemsInPlace
  <2> QED
    BY <1>2, <2>1, <2>2 DEF ItemsOK
<1> QED
  BY <1>6, <1>7, <1>8, <1>9, <1>10

-----------------------------------------------------------------------------
LEMMA InitQueue == Init => QueueInv
<1> SUFFICES ASSUME Init
             PROVE  QueueInv
  OBVIOUS
<1>1. 0 \in Counts /\ Capacity \in Nat \ {0} /\ View(0, 0) \in Views
      /\ View(0, 0).head = 0 /\ View(0, 0).tail = 0
  BY CountsProperties, CapacityIsPositive, ViewProperties
<1>2. TypeOK
  BY <1>1, ThreadsDiffer DEF Init, TypeOK
<1>3. CountersOK /\ PlacesOK
  BY <1>1, ThreadsDiffer DEF Init, CountersOK, PlacesOK
<1>4. KnowledgeOK /\ MessagesOK
  BY <1>1, ThreadsDiffer DEF Init, KnowledgeOK, MessagesOK
<1>5. ItemsOK
  BY ThreadsDiffer DEF Init, ItemsOK, ItemsInPlace
<1> QED
  BY <1>2, <1>3, <1>4, <1>5 DEF QueueInv

LEMMA NextQueue == QueueInv /\ [Next]_vars => QueueInv'
<1> SUFFICES ASSUME QueueInv, [Next]_vars
             PROVE  QueueInv'
  OBVIOUS
<1>1. CASE \E h \in Counts : TryPush(h)
  BY <1>1, TryPushKeeps
<1>2. CASE WriteItem
  BY <1>2, WriteItemKeeps
<1>3. CASE PublishItem
  BY <1>3, PublishItemKeeps
<1>4. CASE \E t \in Counts : TryPop(t) \/ Peek(t) \/ CheckEmpty(t)
  BY <1>4, LookForItemKeeps DEF TryPop, Peek, CheckEmpty
<1>5. CASE ReadItem
  BY <1>5, ReadItemKeeps
<1>6. CASE PopCommit
  BY <1>6, PopCommitKeeps
<1>7. CASE \E t \in Counts : SizeLoadTail(t)
  BY <1>7, SizeLoadTailKeeps
<1>8. CASE \E h \in Counts : SizeLoadHead(h)
  BY <1>8, SizeLoadHeadKeeps
<1>9. CASE UNCHANGED vars
  BY <1>9 DEF vars, QueueInv, TypeOK, CountersOK, KnowledgeOK, MessagesOK, PlacesOK, ItemsOK,
              ItemsInPlace
<1> QED
  BY <1>1, <1>2, <1>3, <1>4, <1>5, <1>6, <1>7, <1>8, <1>9 DEF Next

THEOREM QueueInvCorrect == Spec => []QueueInv
BY InitQueue, NextQueue, PTL DEF Spec

\* The counters, what the threads know of them, and the rest have their types.
THEOREM QueueTypes == Spec => []TypeOK
<1>1. QueueInv => TypeOK
  BY DEF QueueInv
<1> QED
  BY <1>1, QueueInvCorrect, PTL

\* Producer and consumer never race on a slot of the buffer.
THEOREM NoRace == Spec => []NoDataRace
<1>1. QueueInv => NoDataRace
  BY ThreadsDiffer DEF QueueInv, PlacesOK, NoDataRace
<1> QED
  BY <1>1, QueueInvCorrect, PTL

\* No item is overwritten before it has been read.
THEOREM NothingOverwritten == Spec => []ItemsInPlace
<1>1. QueueInv => ItemsInPlace
  BY DEF QueueInv, ItemsOK
<1> QED
  BY <1>1, QueueInvCorrect, PTL

\* size_approx() keeps to the capacity.
THEOREM SizeCorrect == Spec => []SizeWithinCapacity
<1>1. QueueInv => SizeWithinCapacity
  BY DEF QueueInv, PlacesOK, SizeWithinCapacity
<1> QED
  BY <1>1, QueueInvCorrect, PTL

-----------------------------------------------------------------------------
(***************************************************************************)
(* The queue implements BoundedFifo.  Only the two stores show outside.    *)
(***************************************************************************)
Held(h, t) == [n \in 1 .. t - h |-> h + n - 1]

Given(t) == [n \in 1 .. t |-> n - 1]

FifoWaiting == [n \in 1 .. tail - head |-> buffer[Slot(head + n - 1)]]

LEMMA WaitingIsHeld ==
  ASSUME QueueInv
  PROVE  FifoWaiting = Held(head, tail)
<1>1. ASSUME NEW n \in 1 .. tail - head
      PROVE  buffer[Slot(head + n - 1)] = head + n - 1
  <2>1. head + n - 1 \in head .. tail - 1
    BY Numbers DEF QueueInv
  <2> QED
    BY <2>1 DEF QueueInv, ItemsOK, ItemsInPlace
<1> QED
  BY <1>1 DEF FifoWaiting, Held

LEMMA Shift ==
  ASSUME NEW h \in Int, NEW t \in Int, NEW n \in 1 .. t - h
  PROVE  h + n - 1 \in h .. t - 1
OBVIOUS

LEMMA WaitingIsHeldAfter == QueueInv' => FifoWaiting' = Held(head', tail')
<1> SUFFICES ASSUME QueueInv'
             PROVE  FifoWaiting' = Held(head', tail')
  OBVIOUS
<1>1. ASSUME NEW n \in 1 .. tail' - head'
      PROVE  buffer'[Slot(head' + n - 1)] = head' + n - 1
  <2>1. head' \in Int /\ tail' \in Int
    BY CountsProperties DEF QueueInv, TypeOK
  <2>2. head' + n - 1 \in head' .. tail' - 1
    BY <2>1, Shift
  <2> QED
    BY <2>2 DEF QueueInv, ItemsOK, ItemsInPlace, Slot
<1> QED
  BY <1>1 DEF FifoWaiting, Held, Slot

\* What the store of tail_ and that of head_ are to the FIFO.
LEMMA HeldPushed ==
  ASSUME NEW h \in Nat, NEW t \in Nat, h <= t
  PROVE  /\ Held(h, t + 1) = Append(Held(h, t), t)
         /\ Given(t + 1) = Append(Given(t), t)
         /\ Len(Held(h, t)) = t - h
<1>1. Held(h, t) \in Seq(Nat) /\ Len(Held(h, t)) = t - h
  BY DEF Held
<1>2. Given(t) \in Seq(Nat) /\ Len(Given(t)) = t
  BY DEF Given
<1>3. Held(h, t + 1) = Append(Held(h, t), t)
  BY <1>1 DEF Held
<1>4. Given(t + 1) = Append(Given(t), t)
  BY <1>2 DEF Given
<1> QED
  BY <1>1, <1>3, <1>4

LEMMA HeldPopped ==
  ASSUME NEW h \in Nat, NEW t \in Nat, h < t
  PROVE  /\ Held(h, t) # << >>
         /\ Head(Held(h, t)) = h
         /\ Tail(Held(h, t)) = Held(h + 1, t)
<1>1. /\ Held(h, t) \in Seq(Nat) /\ Len(Held(h, t)) = t - h
      /\ Held(h, t)[1] = h
  BY DEF Held
<1>2. Held(h, t) # << >> /\ Head(Held(h, t)) = h
  BY <1>1
<1>3. Tail(Held(h, t)) = Held(h + 1, t)
  BY <1>1 DEF Held
<1> QED
  BY <1>2, <1>3

LEMMA PublishIsPush == QueueInv /\ QueueInv' /\ PublishItem => Fifo!Next
<1> SUFFICES ASSUME QueueInv, QueueInv', PublishItem
             PROVE  Fifo!Next
  OBVIOUS
<1>1. /\ head' = head /\ tail' = tail + 1 /\ received' = received
      /\ head \in Nat /\ tail \in Nat /\ head <= tail /\ Capacity \in Nat
  BY Numbers DEF PublishItem, StoreTail, QueueInv, CountersOK
<1>2. tail < head + Capacity /\ tail \in Counts
  BY <1>1, Numbers, CountsProperties, ThreadsDiffer
  DEF PublishItem, QueueInv, PlacesOK, KnowledgeOK
<1>3. Len(FifoWaiting) < Capacity /\ FifoWaiting' = Append(FifoWaiting, tail)
  <2>1. FifoWaiting = Held(head, tail) /\ FifoWaiting' = Held(head, tail + 1)
    BY <1>1, WaitingIsHeld, WaitingIsHeldAfter
  <2>2. Held(head, tail + 1) = Append(Held(head, tail), tail)
    BY <1>1, HeldPushed
  <2>3. Len(Held(head, tail)) = tail - head
    BY <1>1, HeldPushed
  <2>4. tail - head < Capacity
    BY <1>1, <1>2
  <2> QED
    BY <2>1, <2>2, <2>3, <2>4
<1>4. Given(tail') = Append(Given(tail), tail)
  BY <1>1, HeldPushed
<1>5. \E pushed \in Counts : Fifo!Push(pushed)
  BY <1>1, <1>2, <1>3, <1>4 DEF Fifo!Push, FifoWaiting, Given
<1> QED
  BY <1>5 DEF Fifo!Next

LEMMA CommitIsPop == QueueInv /\ QueueInv' /\ PopCommit => Fifo!Next
<1> SUFFICES ASSUME QueueInv, QueueInv', PopCommit
             PROVE  Fifo!Next
  OBVIOUS
<1>1. /\ head' = head + 1 /\ tail' = tail /\ received' = Append(received, item)
      /\ head \in Nat /\ tail \in Nat /\ item = head
  BY Numbers DEF PopCommit, StoreHead, QueueInv, ItemsOK
<1>2. head < tail
  BY <1>1, Numbers, ThreadsDiffer DEF PopCommit, QueueInv, PlacesOK, KnowledgeOK
<1>3. /\ FifoWaiting # << >> /\ Head(FifoWaiting) = item
      /\ FifoWaiting' = Tail(FifoWaiting)
  BY <1>1, <1>2, WaitingIsHeld, WaitingIsHeldAfter, HeldPopped
<1>4. Fifo!Pop
  BY <1>1, <1>3 DEF Fifo!Pop, FifoWaiting
<1> QED
  BY <1>4 DEF Fifo!Next

LEMMA OthersStutter ==
  ASSUME QueueInv, QueueInv', UNCHANGED <<head, tail, received>>
  PROVE  UNCHANGED Fifo!vars
<1>1. FifoWaiting' = FifoWaiting
  BY WaitingIsHeld, WaitingIsHeldAfter
<1> QED
  BY <1>1 DEF Fifo!vars, FifoWaiting

\* Whatever the threads' loads of the counters return, the queue is a FIFO that
\* holds at most Capacity items, loses none and delivers each once.
THEOREM QueueIsFifo == Spec => ImplementsFifo
<1>1. Init => Fifo!Init
  BY DEF Init, Fifo!Init
<1>2. QueueInv /\ QueueInv' /\ [Next]_vars => [Fifo!Next]_Fifo!vars
  <2> SUFFICES ASSUME QueueInv, QueueInv', [Next]_vars
               PROVE  [Fifo!Next]_Fifo!vars
    OBVIOUS
  <2>1. CASE PublishItem
    BY <2>1, PublishIsPush
  <2>2. CASE PopCommit
    BY <2>2, CommitIsPop
  <2>3. CASE UNCHANGED <<head, tail, received>>
    BY <2>3, OthersStutter
  <2>4. CASE \/ \E h \in Counts : TryPush(h) \/ SizeLoadHead(h)
             \/ \E t \in Counts : TryPop(t) \/ Peek(t) \/ CheckEmpty(t) \/ SizeLoadTail(t)
             \/ WriteItem \/ ReadItem \/ UNCHANGED vars
    <3>1. UNCHANGED <<head, tail, received>>
      BY <2>4 DEF TryPush, SizeLoadHead, TryPop, Peek, CheckEmpty, LookForItem, SizeLoadTail,
                  WriteItem, ReadItem, vars
    <3> QED
      BY <2>3, <3>1
  <2> QED
    BY <2>1, <2>2, <2>4 DEF Next
<1> QED
  BY <1>1, <1>2, QueueInvCorrect, PTL DEF Spec, ImplementsFifo, Fifo!Spec
=============================================================================
