------------------------------ MODULE BoundedFifo ------------------------------
(***************************************************************************)
(* What SPSCQueue promises its two clients: items come out in the order    *)
(* they went in, each once, and no more than Capacity wait at a time.      *)
(***************************************************************************)
EXTENDS Integers, Sequences

CONSTANTS Capacity, Items

VARIABLES
  waiting,     \* the items in the queue
  sent,        \* all that ever went in
  received     \* all that came out

vars == <<waiting, sent, received>>

Init ==
  /\ waiting = << >>
  /\ sent = << >>
  /\ received = << >>

Push(item) ==
  /\ Len(waiting) < Capacity
  /\ waiting' = Append(waiting, item)
  /\ sent' = Append(sent, item)
  /\ UNCHANGED received

Pop ==
  /\ waiting # << >>
  /\ received' = Append(received, Head(waiting))
  /\ waiting' = Tail(waiting)
  /\ UNCHANGED sent

Next == Pop \/ \E item \in Items : Push(item)

Spec == Init /\ [][Next]_vars
=============================================================================
