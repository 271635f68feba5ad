----------------------------- MODULE PriceLadder -----------------------------
(***************************************************************************)
(* The two PriceLadders of the engine (include/matching/price_ladder.h):   *)
(* one array of price levels per side, and the DynamicBitset that records  *)
(* which of them are occupied.  A level is a PriceLevelList of             *)
(* include/matching/order.h: a head and a tail, and links in the orders.   *)
(*                                                                         *)
(* `queues' is a history variable: which orders were put into a level and  *)
(* not yet taken out, by order of arrival.  The code has no such variable  *)
(* and none of its steps reads it; `Linked' says that the links agree.     *)
(***************************************************************************)
EXTENDS OrderPool, DynamicBitset, Events

VARIABLES
  heads,       \* heads[side][i] is head_ of level i of that side's ladder
  tails,       \* and this its tail_
  prev,        \* prev[s] is the prev of the order in slot s, NoSlot for nullptr
  next,        \* and this its next
  bits,        \* bits[side] is occupied_bits_
  queues       \* history: what the level was given to hold, the first come first

linkVars == <<heads, tails, prev, next, queues>>
ladderVars == <<linkVars, bits>>

LadderInit ==
  /\ heads = [side \in Sides |-> [i \in Levels |-> NoSlot]]
  /\ tails = [side \in Sides |-> [i \in Levels |-> NoSlot]]
  /\ prev = [s \in Slots |-> NoSlot]
  /\ next = [s \in Slots |-> NoSlot]
  /\ bits = [side \in Sides |-> NoBits]
  /\ queues = [side \in Sides |-> [i \in Levels |-> << >>]]

\* The engine builds its ladders with these and never changes them.
BasePrice == 0
TickSize  == 1

\* Integer division of C++, which truncates towards zero.
TruncDiv(a, b) == IF a >= 0 THEN a \div b ELSE -((-a) \div b)

IndexToPrice(i) == BasePrice + i * TickSize

PriceToIndex(price) ==
  LET offset == TruncDiv(price - BasePrice, TickSize) IN
  IF offset \in Levels THEN offset ELSE -1

\* find_best_bid and find_best_ask.
FindWorst(side) == IF side = "Buy" THEN FindLowest(bits[side]) ELSE FindHighest(bits[side])

FindBest(side) == IF side = "Buy" THEN FindHighest(bits[side]) ELSE FindLowest(bits[side])

\* best_bid_price and best_ask_price: 0 also stands for "no order".
BestPrice(side) == IF FindBest(side) >= 0 THEN IndexToPrice(FindBest(side)) ELSE 0

-----------------------------------------------------------------------------
(***************************************************************************)
(* PriceLevelList::push_back with mark_occupied, and PriceLevelList::remove *)
(* with mark_empty.                                                        *)
(***************************************************************************)
\* A slot fresh from the pool has no neighbours.
Detach(slot) ==
  /\ prev' = [prev EXCEPT ![slot] = NoSlot]
  /\ next' = [next EXCEPT ![slot] = NoSlot]
  /\ UNCHANGED <<heads, tails, queues, bits>>

PushFront(side, i, slot) ==
  LET head == heads[side][i] IN
  /\ next' = [next EXCEPT ![slot] = head]
  /\ prev' = [s \in Slots |-> IF s = head THEN slot ELSE IF s = slot THEN NoSlot ELSE prev[s]]
  /\ tails' = [tails EXCEPT ![side][i] = IF head = NoSlot THEN slot ELSE @]
  /\ heads' = [heads EXCEPT ![side][i] = slot]
  /\ bits' = [bits EXCEPT ![side] = SetBit(@, i)]
  /\ queues' = [queues EXCEPT ![side][i] = Append(@, slot)]

PushBack(side, i, slot) ==
  LET tail == tails[side][i] IN
  /\ prev' = [prev EXCEPT ![slot] = tail]
  /\ next' = [s \in Slots |-> IF s = tail THEN slot ELSE IF s = slot THEN NoSlot ELSE next[s]]
  /\ heads' = [heads EXCEPT ![side][i] = IF tail = NoSlot THEN slot ELSE @]
  /\ tails' = [tails EXCEPT ![side][i] = slot]
  /\ bits' = [bits EXCEPT ![side] = SetBit(@, i)]
  /\ queues' = [queues EXCEPT ![side][i] = Append(@, slot)]

\* The queue without the slot, if it has it.
Without(queue, slot) ==
  IF \E k \in DOMAIN queue : queue[k] = slot
  THEN RemoveAt(queue, CHOOSE k \in DOMAIN queue : queue[k] = slot)
  ELSE queue

\* mark_empty clears the bit of a level that has become empty, and only then.
KeepBit(data, i, head) == data

ClearAnyway(data, i, head) == ClearBit(data, i)

MarkEmpty(data, i, head) == IF head = NoSlot THEN ClearBit(data, i) ELSE data

\* remove() mends its neighbours' links, or the list's ends where it has none.
UnlinkForwardOnly(side, i, slot) ==
  /\ next' = [s \in Slots |-> IF s = slot THEN NoSlot
                              ELSE IF s = prev[slot] THEN next[slot] ELSE next[s]]
  /\ prev' = [prev EXCEPT ![slot] = NoSlot]
  /\ heads' = [heads EXCEPT ![side][i] = IF prev[slot] = NoSlot THEN next[slot] ELSE @]
  /\ tails' = [tails EXCEPT ![side][i] = IF next[slot] = NoSlot THEN prev[slot] ELSE @]

Unlink(side, i, slot) ==
  /\ next' = [s \in Slots |-> IF s = slot THEN NoSlot
                              ELSE IF s = prev[slot] THEN next[slot] ELSE next[s]]
  /\ prev' = [s \in Slots |-> IF s = slot THEN NoSlot
                              ELSE IF s = next[slot] THEN prev[slot] ELSE prev[s]]
  /\ heads' = [heads EXCEPT ![side][i] = IF prev[slot] = NoSlot THEN next[slot] ELSE @]
  /\ tails' = [tails EXCEPT ![side][i] = IF next[slot] = NoSlot THEN prev[slot] ELSE @]

RemoveFrom(side, i, slot) ==
  /\ Unlink(side, i, slot)
  /\ bits' = [bits EXCEPT ![side] = MarkEmpty(@, i, heads'[side][i])]
  /\ queues' = [queues EXCEPT ![side][i] = Without(@, slot)]

-----------------------------------------------------------------------------
SlotOrNone == Slots \cup {NoSlot}

LadderTypeOK ==
  /\ heads \in [Sides -> [Levels -> SlotOrNone]]
  /\ tails \in [Sides -> [Levels -> SlotOrNone]]
  /\ prev \in [Slots -> SlotOrNone]
  /\ next \in [Slots -> SlotOrNone]
  /\ bits \in [Sides -> BitArrays]
  /\ queues \in [Sides -> [Levels -> Seq(Slots)]]

Occupied(side) == SetBits(bits[side])

\* PriceLadder::verify_invariants: a bit is set exactly when its level holds
\* an order.  A bit too many sends the matching loop round an empty level for
\* ever, a bit too few hides resting orders from it.
OccupiedIffNonEmpty ==
  \A side \in Sides, i \in Levels : Test(bits[side], i) <=> heads[side][i] # NoSlot

\* A doubly linked list that holds exactly this queue, in both directions.
Represents(queue, head, tail) ==
  IF queue = << >> THEN head = NoSlot /\ tail = NoSlot
  ELSE /\ head = queue[1]
       /\ tail = queue[Len(queue)]
       /\ \A k \in DOMAIN queue :
            /\ prev[queue[k]] = IF k = 1 THEN NoSlot ELSE queue[k - 1]
            /\ next[queue[k]] = IF k = Len(queue) THEN NoSlot ELSE queue[k + 1]

\* Each level's links hold the orders it was given and not yet asked to remove,
\* in their order of arrival: no pattern of pushes at the back, fills at the front
\* and cancels anywhere, with slots recycled between levels, breaks a chain, turns
\* it round or leaves an end pointing at an order that has gone.
Linked ==
  \A side \in Sides, i \in Levels :
    Represents(queues[side][i], heads[side][i], tails[side][i])
=============================================================================
