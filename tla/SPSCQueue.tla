------------------------------- MODULE SPSCQueue -------------------------------
(***************************************************************************)
(* SPSCQueue (include/matching/spsc_queue.h): a ring buffer between one    *)
(* producer and one consumer thread, synchronised by two counters only.    *)
(*                                                                         *)
(* A thread may load an old value of the other thread's counter, but never *)
(* one older than what happened before the load.  An acquire load that     *)
(* takes a value from a release store learns what the storing thread knew. *)
(* `knows' is that knowledge, `headMessage' and `tailMessage' carry it:    *)
(* each counter has one writer that only counts up, so a counter's value   *)
(* names the store it comes from.                                          *)
(*                                                                         *)
(* Items are named by their position: the n-th accepted is n - 1.  Nothing *)
(* but the counters and their knowledge orders the accesses to the buffer. *)
(***************************************************************************)
EXTENDS Integers, Sequences

CONSTANTS
  Capacity,    \* the template parameter
  MaxPushes    \* bound of the model: items the producer ever pushes

\* The static_asserts.  `index & mask()' is a remainder for powers of 2 only.
ASSUME CapacityAssumption ==
  Capacity \in Nat /\ \E n \in 1 .. Capacity : Capacity = 2 ^ n

ASSUME MaxPushesAssumption == MaxPushes \in Nat

VARIABLES
  buffer,      \* buffer_, -1 for a value-initialised slot
  head,        \* head_, the latest value stored
  tail,        \* tail_, the latest value stored
  headMessage, \* headMessage[h]: what the store of h into head_ releases
  tailMessage, \* tailMessage[t]: what the store of t into tail_ releases
  knows,       \* knows[thread]: the counter values that happened before
  at,          \* at[thread]: where the thread is in the code
  item,        \* what the consumer has copied out of the buffer
  first,       \* size_approx: the value of tail_ loaded first
  size,        \* size_approx: its last result
  received     \* all that the consumer has popped

vars == <<buffer, head, tail, headMessage, tailMessage, knows, at, item, first, size,
          received>>

Producer == "producer"
Consumer == "consumer"
Observer == "observer"   \* a third thread, which only asks for the size
Threads  == {Producer, Consumer, Observer}

Counts == 0 .. MaxPushes

View(h, t) == [head |-> h, tail |-> t]

Larger(a, b) == IF a > b THEN a ELSE b

Join(v, w) == View(Larger(v.head, w.head), Larger(v.tail, w.tail))

Slot(count) == count % Capacity

Init ==
  /\ buffer = [i \in 0 .. Capacity - 1 |-> -1]
  /\ head = 0
  /\ tail = 0
  /\ headMessage = [h \in Counts |-> View(0, 0)]
  /\ tailMessage = [t \in Counts |-> View(0, 0)]
  /\ knows = [thread \in Threads |-> View(0, 0)]
  /\ at = [thread \in Threads |-> "idle"]
  /\ item = -1
  /\ first = 0
  /\ size = 0
  /\ received = << >>

-----------------------------------------------------------------------------
(***************************************************************************)
(* The atomic loads and stores.                                            *)
(***************************************************************************)
AcquireHead(thread, h) ==
  /\ h \in knows[thread].head .. head
  /\ knows' = [knows EXCEPT ![thread] = Join(@, headMessage[h])]

AcquireTail(thread, t) ==
  /\ t \in knows[thread].tail .. tail
  /\ knows' = [knows EXCEPT ![thread] = Join(@, tailMessage[t])]

RelaxedStoreHead(h) ==
  /\ head' = h
  /\ knows' = [knows EXCEPT ![Consumer] = View(h, @.tail)]
  /\ UNCHANGED headMessage

StoreHead(h) ==
  /\ head' = h
  /\ knows' = [knows EXCEPT ![Consumer] = View(h, @.tail)]
  /\ headMessage' = [headMessage EXCEPT ![h] = View(h, knows[Consumer].tail)]

RelaxedStoreTail(t) ==
  /\ tail' = t
  /\ knows' = [knows EXCEPT ![Producer] = View(@.head, t)]
  /\ UNCHANGED tailMessage

StoreTail(t) ==
  /\ tail' = t
  /\ knows' = [knows EXCEPT ![Producer] = View(@.head, t)]
  /\ tailMessage' = [tailMessage EXCEPT ![t] = View(knows[Producer].head, t)]

Go(thread, place) == at' = [at EXCEPT ![thread] = place]

-----------------------------------------------------------------------------
(***************************************************************************)
(* The producer.  Full and Empty are the tests of the two counters.        *)
(***************************************************************************)
FullLate(t, h) == t - h > Capacity

FullForGood(t, h) == t >= Capacity

Full(t, h) == t - h >= Capacity

\* try_push up to its test: it returns false, or goes on to write.
TryPush(h) ==
  /\ at[Producer] = "idle"
  /\ tail < MaxPushes
  /\ AcquireHead(Producer, h)
  /\ Go(Producer, IF Full(tail, h) THEN "idle" ELSE "write")
  /\ UNCHANGED <<buffer, head, tail, headMessage, tailMessage, item, first, size, received>>

WriteItem ==
  /\ at[Producer] = "write"
  /\ buffer' = [buffer EXCEPT ![Slot(tail)] = tail]
  /\ Go(Producer, "store")
  /\ UNCHANGED <<head, tail, headMessage, tailMessage, knows, item, first, size, received>>

PublishItem ==
  /\ at[Producer] = "store"
  /\ StoreTail(tail + 1)
  /\ Go(Producer, "idle")
  /\ UNCHANGED <<buffer, head, headMessage, item, first, size, received>>

-----------------------------------------------------------------------------
(***************************************************************************)
(* The consumer.  peek() hands out a pointer into the buffer; the caller   *)
(* reads the item through it and then calls pop_commit(), or calls         *)
(* something else and the item stays.                                      *)
(***************************************************************************)
CanCall == at[Consumer] \in {"idle", "checked", "peeked", "looked"}

EmptyLate(h, t) == h > t

Empty(h, t) == h >= t

LookForItem(t, place) ==
  /\ CanCall
  /\ AcquireTail(Consumer, t)
  /\ Go(Consumer, IF Empty(head, t) THEN "idle" ELSE place)
  /\ UNCHANGED <<buffer, head, tail, headMessage, tailMessage, item, first, size, received>>

TryPop(t) == LookForItem(t, "read")

Peek(t) == LookForItem(t, "peeked")

\* empty(), which does not commit the consumer to anything.
CheckEmpty(t) == LookForItem(t, "checked")

\* The copy in try_pop, or the caller's read through the pointer.
ReadItem ==
  /\ at[Consumer] \in {"read", "peeked"}
  /\ item' = buffer[Slot(head)]
  /\ Go(Consumer, IF at[Consumer] = "read" THEN "commit" ELSE "looked")
  /\ UNCHANGED <<buffer, head, tail, headMessage, tailMessage, knows, first, size, received>>

\* The store in try_pop, or pop_commit().
PopCommit ==
  /\ at[Consumer] \in {"commit", "looked"}
  /\ StoreHead(head + 1)
  /\ received' = Append(received, item)
  /\ item' = -1
  /\ Go(Consumer, "idle")
  /\ UNCHANGED <<buffer, tail, tailMessage, first, size>>

-----------------------------------------------------------------------------
(***************************************************************************)
(* size_approx() loads tail_ first and head_ after it.                     *)
(***************************************************************************)
SizeLoadTail(t) ==
  /\ at[Observer] = "idle"
  /\ AcquireTail(Observer, t)
  /\ first' = t
  /\ Go(Observer, "size")
  /\ UNCHANGED <<buffer, head, tail, headMessage, tailMessage, item, size, received>>

Unchecked(t, h) == t - h

Difference(t, h) == IF t >= h THEN t - h ELSE 0

SizeLoadHead(h) ==
  /\ at[Observer] = "size"
  /\ AcquireHead(Observer, h)
  /\ size' = Difference(first, h)
  /\ first' = 0
  /\ Go(Observer, "idle")
  /\ UNCHANGED <<buffer, head, tail, headMessage, tailMessage, item, received>>

-----------------------------------------------------------------------------
Next ==
  \/ \E h \in Counts : TryPush(h)
  \/ WriteItem
  \/ PublishItem
  \/ \E t \in Counts : TryPop(t)
  \/ \E t \in Counts : Peek(t)
  \/ \E t \in Counts : CheckEmpty(t)
  \/ ReadItem
  \/ PopCommit
  \/ \E t \in Counts : SizeLoadTail(t)
  \/ \E h \in Counts : SizeLoadHead(h)

Spec == Init /\ [][Next]_vars

\* Both threads call again until they succeed, as the threads of the tests do,
\* and a thread that keeps loading a counter comes to see its latest value.
Fairness ==
  /\ WF_vars(TryPush(head)) /\ WF_vars(WriteItem) /\ WF_vars(PublishItem)
  /\ WF_vars(TryPop(tail))  /\ WF_vars(ReadItem)  /\ WF_vars(PopCommit)

FairSpec == Spec /\ Fairness

-----------------------------------------------------------------------------
(***************************************************************************)
(* Properties                                                              *)
(***************************************************************************)
Views == [head : Counts, tail : Counts]

\* Every variable has its type, and no thread is where its code does not go.
TypeOK ==
  /\ buffer \in [0 .. Capacity - 1 -> Counts \cup {-1}]
  /\ head \in Counts
  /\ tail \in Counts
  /\ headMessage \in [Counts -> Views]
  /\ tailMessage \in [Counts -> Views]
  /\ knows \in [Threads -> Views]
  /\ at \in [Threads -> {"idle", "write", "store", "read", "commit", "checked",
                          "peeked", "looked", "size"}]
  /\ at[Producer] \in {"idle", "write", "store"}
  /\ at[Consumer] \in {"idle", "read", "commit", "checked", "peeked", "looked"}
  /\ at[Observer] \in {"idle", "size"}
  /\ item \in Counts \cup {-1}
  /\ first \in Counts
  /\ size \in Counts
  /\ received \in Seq(Counts \cup {-1})

\* No data race on the buffer: before the producer overwrites a slot, the
\* consumer's read of what was in it happened before; before the consumer reads a
\* slot, the producer's write of it happened before.
NoDataRace ==
  /\ at[Producer] = "write" => tail < knows[Producer].head + Capacity
  /\ at[Consumer] \in {"read", "peeked"} => head < knows[Consumer].tail

\* The slots between head_ and tail_ hold the items pushed and not yet popped:
\* none was overwritten before its time.
ItemsInPlace == \A n \in head .. tail - 1 : buffer[Slot(n)] = n

\* size_approx() never reports more than the queue can hold, although its two
\* loads are of different moments.
SizeWithinCapacity == size <= Capacity

Fifo == INSTANCE BoundedFifo WITH
  Items <- Counts,
  waiting <- [n \in 1 .. tail - head |-> buffer[Slot(head + n - 1)]],
  sent <- [n \in 1 .. tail |-> n - 1]

\* The queue is a bounded FIFO: a push takes effect when tail_ is stored, a pop
\* when head_ is stored.
ImplementsFifo == Fifo!Spec

\* Polling from both ends gets every item through: neither side is left with an
\* old view of the other for good.
AllDelivered == <>(Len(received) = MaxPushes)
=============================================================================
