------------------------------ MODULE OrderPool ------------------------------
(***************************************************************************)
(* OrderPool of include/matching/order.h: the pre-allocated array of Order *)
(* slots and the free list threaded through their pool_index fields.       *)
(*                                                                         *)
(* pool_index plays two roles.  In a free slot it is the index of the next *)
(* free slot; in an allocated slot it is the slot's own index, which       *)
(* deallocate() trusts.                                                    *)
(***************************************************************************)
EXTENDS Integers

CONSTANT PoolCapacity   \* number of slots the pool is built with

\* A pool of no slots is outside the code's domain: capacity_ - 1 wraps around
\* in the constructor's loop.
ASSUME PoolCapacityAssumption == PoolCapacity \in Nat \ {0}

VARIABLES
  poolIndex,   \* poolIndex[s] is pool_[s].pool_index
  freeHead     \* free_head_

poolVars == <<poolIndex, freeHead>>

Slots  == 0 .. PoolCapacity - 1
NoSlot == -1            \* UINT32_MAX, and the nullptr allocate() returns for it

PoolInit ==
  /\ poolIndex = [s \in Slots |-> IF s < PoolCapacity - 1 THEN s + 1 ELSE NoSlot]
  /\ freeHead = 0

(***************************************************************************)
(* allocate() pops the head of the free list and stamps the slot with its  *)
(* own index.                                                              *)
(***************************************************************************)
AllocateUnstamped(slot) ==
  /\ freeHead # NoSlot
  /\ slot = freeHead
  /\ freeHead' = poolIndex[slot]
  /\ UNCHANGED poolIndex

Allocate(slot) ==
  /\ freeHead # NoSlot
  /\ slot = freeHead
  /\ freeHead' = poolIndex[slot]
  /\ poolIndex' = [poolIndex EXCEPT ![slot] = slot]

(***************************************************************************)
(* deallocate() reads the slot's pool_index before overwriting it, so it   *)
(* exchanges pool_index and free_head_, whether or not the slot is free.   *)
(***************************************************************************)
DeallocateHeadFirst(slot) ==
  /\ freeHead' = poolIndex[slot]
  /\ poolIndex' = [poolIndex EXCEPT ![slot] = poolIndex[slot]]

LoseSlot(slot) == UNCHANGED poolVars

Deallocate(slot) ==
  /\ freeHead' = poolIndex[slot]
  /\ poolIndex' = [poolIndex EXCEPT ![slot] = freeHead]

-----------------------------------------------------------------------------
(***************************************************************************)
(* The slots the free list still reaches from free_head_.                  *)
(***************************************************************************)
FreeChain[n \in 0 .. PoolCapacity] ==
  IF n = 0 THEN freeHead
  ELSE IF FreeChain[n - 1] \in Slots THEN poolIndex[FreeChain[n - 1]]
  ELSE NoSlot

FreeSlots == {FreeChain[n] : n \in 0 .. PoolCapacity} \cap Slots

PoolTypeOK ==
  /\ poolIndex \in [Slots -> Slots \cup {NoSlot}]
  /\ freeHead \in Slots \cup {NoSlot}

\* No two slots carry the same pool_index and none carries free_head_: whatever
\* sequence of allocations and deallocations ran, free_head_ and the pool_index
\* fields are a permutation of the slots and the end marker.  So the free list
\* never runs into an allocated slot and allocate() never hands one out twice.
PoolPermutation ==
  /\ \A s \in Slots : poolIndex[s] # freeHead
  /\ \A s, t \in Slots : poolIndex[s] = poolIndex[t] => s = t
=============================================================================
