# TLA+ models and proofs of the order book engine

This directory holds a verification development of the C++ order book engine in
`src/`: TLA+ modules translated from its source, TLC configurations that check
them on small instances, and TLAPS proofs that hold for every size of pool,
ladder, word and queue. All paths below are relative to the repository.

    tlc -workers 2 -config core.cfg MCMatchingEngine   # one run
    tlapm MatchingEngineProofs.tla                     # the proofs

## 1. The system

An order goes from a client through the `OrderGateway`, which stamps it with a
sequence number, into an `SPSCQueue`; an engine thread pops it and calls
`MatchingEngine::process_order`, which returns a `MatchEvent` (trades and
execution reports) that the `MarketDataHandler` records and passes on. `README.md`
(the diagram at its top) draws them so; no code of the repository runs the whole, the
tests connect the parts two by two.

| part | state | operations | talks to |
|---|---|---|---|
| `DynamicBitset` (bitset.h) | 64-bit words | set, clear, test, find_highest, find_lowest | called by PriceLadder |
| `PriceLevelList` (order.h) | head, tail; prev/next in each Order | push_back, remove, front, empty, for_each | called by MatchingEngine through PriceLadder |
| `OrderPool` (order.h) | array of Orders, free list through `pool_index` | allocate, deallocate | called by MatchingEngine |
| `PriceLadder` (price_ladder.h) | array of levels, bitset, base, tick | level_at, mark_occupied, mark_empty, best bid/ask, price/index conversions | called by MatchingEngine, one per side |
| `MatchingEngine` (matching_engine.cpp) | pool, two ladders, `order_map_` (id -> Order*) | process_order, cancel_order, queries, verify_invariants | returns MatchEvents |
| `SPSCQueue` (spsc_queue.h) | ring buffer, two atomic counters | try_push, try_pop, peek, pop_commit, empty, size_approx | two threads |
| `OrderGateway` (order_gateway.cpp) | atomic next_sequence_ | validate, submit, submit_direct | pushes into the queue, or calls the engine |
| `MarketDataHandler` (market_data.h) | recent trades and reports, a callback | on_match_event, clear, set_trade_callback, get_top_of_book | reads the engine, calls the subscriber |
| `ReferenceEngine` (reference_engine.cpp) | two ordered maps of lists, id map | as MatchingEngine, with lazy cancels | the oracle of the differential tests |

Everything but the queue and the gateway's counter is single-threaded.

What makes each part correct:

* pool: no slot is handed out twice or lost, whatever is deallocated;
* levels and ladder: the links hold the orders given to a level, in both directions and in
  order of arrival; a bit is set exactly when its level holds an order (a bit too many
  makes the matching loop spin, a bit too few hides orders);
* engine: price-time priority, no missed trade, never a crossed book, the three views
  of a resting order (level, id map, pool) agree, the event adds up, every call returns;
* queue: FIFO, no data race, nothing lost, each side eventually sees the other;
* gateway: numbers in the order of the queue, whatever is refused, retried or submitted
  directly; what it validated is not rejected later;
* market data: the tape and the reports tell what the book shows;
* reference engine: the same promises as the engine's, although cancelled orders linger,
  and no pointer to a destroyed list node.

What is hard here (`PROJECT.json`, "hazards", with lines):

* **Pointers that outlive what they point to.** `order_map_`, the levels and the pool
  refer to the same slots, and slots are recycled. The fill path and the cancel path
  have to leave all three in step.
* **Prices without a level.** `insert_order` cannot place an order priced at or above
  `max_levels`, but `process_order` enters it in `order_map_` all the same and reports
  it Resting. Cancelling it frees the slot and leaves the entry, so a later cancel of
  that id cancels another order, or frees a free slot, or removes a node of no list,
  which moves one end of the level it is aimed at.
* **Ids that still rest** are not rejected.
* **The index held across fills**: `best_idx` is looked up once per level.
* **Release and acquire** are all that keeps the two threads of the queue apart, and
  each may act on an old value of the other's counter.
* **Two ways into the engine.** Orders wait in the queue while `submit_direct` and
  `cancel_order` go past them; a push may fail after its number was taken.

## 2. Modules

| module | models | how |
|---|---|---|
| `Events` | types.h, events.h | what the parts pass to each other; the crossing test |
| `EngineCalls` | the frame of a call | what the two engines' process_order and cancel_order have in common: arguments, place in the code, the event being built |
| `OrderPool` | `OrderPool` | `poolIndex`, `freeHead`; `Allocate`, `Deallocate`. `pool_index` is kept in both its roles, so a second deallocation of a slot does what the code does: it exchanges the two indices again. |
| `DynamicBitset` | `DynamicBitset` | a function from words to the sets of their 1 bits, `WordBits` wide |
| `PriceLadder` | two `PriceLadder`s with their `PriceLevelList`s | `heads`, `tails`, `prev`, `next` and `bits`, and the history `queues` |
| `MatchingEngine` | `MatchingEngine` | extends these; adds `orders` (the slots), `orderMap` and `cursor` (`best_idx`) |
| `MCMatchingEngine` | | sets of orders for TLC; extends `MatchingEngineRefinement` and `MarketSnapshot` |
| `PriceTimeBook` | the promise | one queue per side in price-time order, no levels, bits, map or pool |
| `MatchingEngineRefinement` | | the engine's state mapped to `PriceTimeBook`: the levels of a side one after the other, best first |
| `ReferenceEngine` | `ReferenceEngine` | a side is a function from its prices to lists of nodes; `order_map_` names nodes, so a pointer to a destroyed one is visible |
| `MCReferenceEngine` | | its orders for TLC, and its state mapped to `PriceTimeBook` |
| `DocumentedClaims` | | four comments of the source, as properties the code does not have |
| `SPSCQueue` | `SPSCQueue` | producer, consumer and an observer that calls `size_approx` |
| `BoundedFifo` | the promise | a bounded FIFO |
| `OrderGateway` | `OrderGateway` | `nextSequence`, and `inFlight`, the local copy in `submit` |
| `MarketSnapshot` | `get_top_of_book` | what a snapshot shows of the engine, and what rests |
| `MarketDataHandler` | `MarketDataHandler` | the recent trades and reports, and `feed`, what the callback was called with |
| `Pipeline` | the parts together | gateway, queue (as `BoundedFifo`), engine and market data |
| `MCPipeline` | | client orders for TLC |
| `EventsProofs`, `DynamicBitsetProofs`, `PriceLadderProofs`, `MatchingEngineProofs`, `MatchingEngineRefinementProofs`, `ReferenceEngineProofs`, `PipelineProofs`, `SPSCQueueProofs` | | lemmas and theorems |

### MatchingEngine, action by action

`process_order` is a run of steps, and `pc` says where in the code it is:
`Accept` or `Reject` (validate_order), then `BeginLevel` (outer loop: best level,
crossing test, `best_idx`), `FillMaker` and `FillTaker` (one pass of the inner loop,
split by `resting->remaining == 0`), `EndLevel`, and at the end `Conclude` or `Rest`
(final status, allocate, insert_order, map entry, last report). The two
functions `match_buy` and `match_sell` mirror each other and are one set of actions
over `Contra`, the side opposite to the taker's. `cancel_order` is one step,
`CancelKnown` or `CancelUnknown`. `Return` hands the event to the caller and clears
the locals. Nothing else runs while a call does; the steps exist so that properties
also hold in the middle of a call.

`PushBack`, `Unlink` and `Allocate` assign the links as the code does, so `remove` of a
node that is in another list, or in none, does what it does in the code: where a link is
null it takes the end of the level it was called on. Nothing that follows a stale cancel is left
out, in the runs or in the unconditional theorems.

`queues[side][i]` is a history variable: the slots that were pushed to a level and not
yet removed from it. No step reads it, save for the assumption on callers (below); `Linked` says
that heads, tails, prev and next represent it.

Left out: `size_` of a level, and the order type of a resting order (only Limit orders
rest). `IncomingOrder.price` and quantities are integers; sums that exceed 64 bits are
out of reach of the tests and of the model. Base price and tick are the constants 0 and 1
that the engine's constructor and `PriceLadder`'s give them.

**What callers do.** With `ReuseIds = FALSE` callers do not submit an id that rests,
as the tests do not; with `TRUE` they may. Orders include malformed ones (zero id,
quantity or price), IOC and FOK orders priced at zero or above the ladder, and
Market orders.

### ReferenceEngine

The same shape as `MatchingEngine`: `Accept` or `Reject`, `BeginLevel`, then per order
`DropCancelled` or `Fill`, `EndLevel` (which erases an emptied level), `Conclude` or `Rest`;
cancels are one step and only mark the node. The two iterators of the C++ loops have no
variable: the loops erase what they pass, except for the order that uses the taker up,
so while they go on they stand at the first level and its first order. `MaxNodes` bounds
the nodes in the lists, cancelled ones included: it holds back a Limit order when
it is submitted, so that no call is cut short.

`MatchingEngine` and `ReferenceEngine` are shown to implement one abstract book, whose answers are
determined by its calls (but for the number of orders that may rest). So for unique ids and prices with
a level both give the same trades, timestamps included, and the same reports, which is what
the differential tests sample.

### SPSCQueue

The counters are modelled with release and acquire ordering as *knowledge*: a thread
may load any value of the other thread's counter between the newest that happened
before the load and the latest stored, and an acquire load of a value joins what the
storing thread knew at that store. Each counter has one writer and only counts up, so
a value names its store. The buffer accesses are separate steps from the tests and the
stores (`TryPush`, `WriteItem`, `PublishItem`; `TryPop` or `Peek`, `ReadItem`,
`PopCommit`), and nothing but this knowledge orders them, so a missing release shows as
a violated `NoDataRace`. `peek`'s pointer is read by the caller (`ReadItem`) and the
caller may commit, or call again instead. `CheckEmpty` is `empty()`: its acquire load
teaches the consumer something, but commits it to nothing.

### Pipeline

Two threads, as the diagram in `README.md` has them. The **ingress thread** validates and
stamps an order (`TakeNumber`: `validate`, and `submit` up to the push), then pushes it
(`Push`). In between the engine's thread may do anything. The queue is `BoundedFifo`, which
`SPSCQueue` is proved to implement, with one thing added: `Push` decides on any value of `head_`
between the last it loaded and the latest (`headView`), so `try_push` may refuse an order
although there is room, as the real one may. A refused order's number is gone; its client may
submit it again. The **engine's thread** pops an order, or takes one by `submit_direct`, or
a cancel, carries the call through (`Advance`) and hands the event to the handler (`Publish`:
`on_match_event` with every call of the callback). `clear()` may come at any time between
calls. The callback is set during set-up only (`Subscribe`): `on_match_event` reads it without a
lock. Clients use an id once, unless the queue refused it; they may cancel any id at
any time, also before the order has left the queue.

`sent`, `received` and `told` (per id, the last report published) are history variables,
and so is `feed`.

## 3. Runs

| run | instance | distinct states | what it shows |
|---|---|---|---|
| `core` | pool 2, prices 1-2, levels 0-2 in words of 2 bits, 3 ids, quantities 1-2, every order type | 266 244 | `Linked`, `BookConsistent`, `NotCrossed`, `MapSound`, `MapComplete`, `NoLeak`, `EventReconciles`, `NoMissedTrade`, `VerifyInvariants`, `TopOfBookShown`, `PriceTimePriority` with unique ids and prices that have a level; the refinement `ImplementsPriceTimeBook`, and with the engine's fairness the book's, `CarriesCallsThrough` |
| `reused_ids` | pool 3, one price, 2 ids, ids reused | 571 322 | three orders in one level: the middle one can be cancelled and its slot recycled at the back; `Linked`, `BookConsistent`, `NoLeak`, `NotCrossed`, `RestingReported` survive reused ids (`MapComplete` does not); under fairness every call returns |
| `out_of_range` | pool 2, levels 0-1, prices 1-2: price 2 has no level | 1.1 million | stale entries, double deallocation and broken links occur; types, the pool's permutation and the absence of crossed books survive, `NoLeak`, `MapSound` and `Linked` do not |
| `reference` | 3 nodes, 2 ids, prices 1-2, unique ids | 134 219 | `ImplementsPriceTimeBook` and `CarriesCallsThrough`: lingering cancelled orders never show in an event and never hold a call up |
| `reference_reused_ids` | the same, ids reused | 541 000 | `MapNeverDangles`, `ListsConsistent`, and, with levels of cancelled orders counted, `NotCrossed` and `NoneLeftBehind` |
| `spsc_queue` | capacity 2, 5 items | 79 014 | `NoDataRace`, `ItemsInPlace`, `SizeWithinCapacity`, `ImplementsFifo`, and under fairness `AllDelivered` |
| `pipeline` | 3 clients' ids, queue of 2, pool of 2, 4 numbers | 248 546 | `InSequence`, `FirstNumberedFirst`, `ValidatedIsMatched`; between events `LastReportHolds`, `FeedReconciles`; and under fairness `EveryOrderAnswered` |
| `claim_fok` | pool 2 | violated | a FOK order trades in part (types.h:22) |
| `claim_cancel` | pool 2, a price without a level | violated | a cancel cancels the order of another id (matching_engine.h:24) |
| `claim_not_found` | pool 2, ids reused | violated | "already filled or cancelled" is said of an id that rests (matching_engine.cpp:277) |
| `claim_returns` | pool 3, a price without a level | violated, under `FairSpec` | process_order never returns (matching_engine.h:20) |
| `claim_reference_verify` | prices 0-1 | violated | a Limit order at price 0 is accepted and verify_invariants fails (reference_engine.cpp:331) |

*Bounds.* Two slots are enough for a book with two levels on a side, two orders in a
level, one order on each side, exhaustion of the pool, and recycling a slot while
another order rests; a slot more (`reused_ids`) gives a level with an order between two
others. Two prices with a level give a taker that clears one level and goes on to the
next, and one that stops at the first. Quantities 1 and 2 (Market: 3) give exact,
partial and over-fills of one and two makers; in `core` the id decides the quantity of
a Limit order. Three ids for Limit orders and one for
those that never rest leave an id to submit while the pool is full; level 0 is never
used by a valid order and stands for prices that have a level and no order. Three levels
in words of two bits fill one word and part of a second.
In `reference`, three nodes give a level with a cancelled order between two live
ones. `Capacity = 2` with 5 pushes wraps the ring twice and lets the consumer lag by
a full ring. In `pipeline`, `MaxSubmissions = 4` gives the three orders and one retry
after a refusal, in a queue that two orders fill; the two sellers, a buyer of both and a buyer
of part meet the engine in every order, directly or through the queue; the fifth client order is a
Limit order without a price: `validate` finds it, and submitted directly it is rejected by the engine. The sellers
ask 1 and the buyer bids 2, so in this run the book never rests on both sides; what depends on that, a snapshot with its best
prices and its spread, is checked in `core`, where a bid of 1 rests with an ask of 2, and orders of a side at two prices or two at
one. The engine's runs have no bound on the number of calls: the
state is finite because ids, slots and the call in progress are.

*Fairness.* `FairSpec` of the engine is weak fairness of the steps of a call in
progress: the code runs on until it returns. Calling and returning are not fair. For
the queue, each thread repeats try_push or try_pop until it succeeds, as the threads
in tests/test_spsc_queue.cpp (lines 89-103) do, and a load that is repeated for ever
eventually takes the latest value; `WF(TryPush(head))` and `WF(TryPop(tail))` say this.
In the pipeline, a call that has begun is carried through and published (weak fairness of
`Advance` and `Publish`), and the engine's thread polls the queue between direct orders and
cancels: `SF(Pop)`, because an endless stream of cancels disables `Pop` again and again while
each is served. That loop is not in the repository; it is what the diagram and the queue's
tests suppose. The ingress thread need not do anything.

*Mutants.* Next to some definitions stands a second one with the bug a slip in the code
would make (`PushFront` for `PushBack`, `KeepBit` for `MarkEmpty`, a relaxed store for a
release store, `ReuseNumber` for `FetchAdd`). Every property of every passing run fails
under one of them (`PROJECT.json`, "mutants").

## 4. Proofs

The theorems assume only what the modules do: `PoolCapacity`, `MaxLevels` and `WordBits` are
positive, orders are well typed, `Capacity` is a power of 2, and numbered client orders are
among the engine's `Orders`. Ids may be reused except where said.

**The engine.** Three theorems hold for every price and id:

| theorem | property | argument |
|---|---|---|
| `TypeCorrect` | `TypeOK` | with `CursorOK`: in the inner loop best_idx is a level, because `FindHighest` and `FindLowest` return one |
| `PoolCorrect` | `PoolPermutation` | inductive with the types: deallocate exchanges two values, allocate rotates them |
| `NeverCrossed` | `NotCrossed` | it is the bits that it speaks of, so it does not need the links: whoever is about to rest has matched until it crosses nothing (`MatchOver`), and no bit of the other side is set in between |

The others have the hypothesis `PricesFit`: Limit orders are priced below `MaxLevels`. Without it
they are false (runs `claim_cancel` and `claim_returns`).

| theorem | property | argument |
|---|---|---|
| `BookCorrect`, `ListsCorrect`, `MapCorrect`, `VerifyCorrect` | `BookConsistent`, `Linked`, `MapSound`, `VerifyInvariants` | parts or consequences of `BookInv` |
| `CancelFinds` | `MapComplete` | also `~ReuseIds`; with `TakerFresh`: nobody who rests has the taker's id |
| `PriorityCorrect` | `PriceTimePriority` | while the inner loop is at a level it is the best one unless it is empty, and `Linked`: its head is the first to arrive |
| `NothingMissed` | `NoMissedTrade` | at the end of a call, `~CanMatch` of the best level extends to all by `BookInv` |
| `RestingReportCorrect` | `RestingReported` | what `Rest` pushed last stands at the tail, and `Return` comes before the next push |
| `NoLeakHolds` | `NoLeak` | `NothingLost`: some list of slots, threaded through `poolIndex` from `freeHead`, holds what no level does; allocate drops its head, deallocate puts a slot in front |
| `EventAddsUp` | `EventReconciles` | `TradesInv`: no occupied level is better than the price of a trade already made, so prices only get worse; the quantities add up by the sums of `EventsProofs` |
| `EngineIsBook` | `ImplementsPriceTimeBook` | also `~ReuseIds`; see below |

`BookInv == BookConsistent /\ Linked /\ OccupiedIffNonEmpty /\ MapSound`, with `CallInv` (what is
left of the taker is positive and at most its quantity), is inductive, and none of
its parts is by itself: `Unlink` keeps `Linked` only if the node is in its level, which for a cancel is
`MapSound`; `MapSound` survives recycling only if a slot handed out is in no level, which is
`BookConsistent` (a slot in a level carries its own index) with `PoolPermutation`; and the order
removed from the map is the one removed from the level only if its price leads to that level,
`BookConsistent` again. Each step of `Next` disturbs the links of one level;
`PriceLadderProofs` shows that `PushBack` and `RemoveFrom` carry `Linked` over for every other level
because the queues share no slot. `DynamicBitsetProofs` shows that the words with their shifts are the
set of set bits, and `FindHighest` and `FindLowest` its maximum and minimum, for any width.

`EngineIsBook` (`MatchingEngineRefinementProofs`) takes the steps of `Next` one by one: `Submit`, `Conclude`
or `Rest`, the two fills, the two cancels and `Return` are steps of `PriceTimeBook`, `BeginLevel` and `EndLevel`
stutters. What is hard is that the engine changes one level, and the abstract book is all the levels of a side one
after the other. The proof does not calculate with the concatenation. `InOrder` says of a list that
it holds the slots of a side, each once, in price-time order; the concatenation is such a list (`FlatInOrder`), and no two lists are
(`OnlyOneList`). So it is enough that the list with a slot taken out (`RemovalOnBook`) or put behind
all that are as good (`PushOnBook`) is again in order for the levels after the step. Then the head of the book is the first slot of the
best level (`FirstHeadsBook`), which a fill takes; a loop that is over cannot fill and one that goes on can
(`OverCannotFill`, `LoopCanFill`); and the pool has a free slot exactly while fewer than
`PoolCapacity` orders rest (`RoomLeft`, from `NothingLost`), so the engine turns a remainder away exactly when the book does.
Unique ids are needed because the book refuses an id that rests, and a cancel takes the order the map
leads to; `PricesFit`, because an order without a level is in the map and not in the book.

**Induction over data.** The library's induction rules take an operator, which the
provers cannot instantiate. `EventsProofs` states induction for a *set* of numbers (`SetInduction`: a set that has
0 and with n also n + 1 has all of them), and proves from it that functions defined by recursion exist
(`RecursionExists`). This gives sums over a sequence of trades (`TotalAppend`, `TotalConcat`), the walk along the
free list (`ChainIsList`) and the walk along a level's links (`ChainOfLevel`).

**The reference engine.** Here nothing is asked of prices or ids, and the number of nodes is any.

| theorem | property | argument |
|---|---|---|
| `MapNeverDanglesHolds` | `MapNeverDangles` | part of `BookInv`: a filled order's own id is erased from the map as its node goes (no other entry can lead to it, ids differ), and nothing leads to a cancelled one that lingers |
| `NotCrossedHolds` | `NotCrossed` | `Uncrossed`: every price of one side against every price of the other, from `~CanMatch` of the best when a taker rests |
| `ListsConsistentHolds` | `ListsConsistent` | from `Filed` and `NoneEmpty`: between calls no list is empty |
| `NoneLeftBehindHolds` | `NoneLeftBehind` | `~CanMatch` of the best price extends to all of them |

They rest on `RefInv == BookInv /\ NoneEmpty /\ CallInv`. A node has one place in the book because `Filed`
says that what is in a list fits its side and price and stands there once; without it a destroyed node
could linger in a second list. `Bounded` (the prices in use have a bound, so the best one
exists) is needed because a best price is a maximum or a minimum, and prices are any number.

**The queue.** `QueueInv` is inductive, for every capacity that is a power of 2 and any number of pushes.
`CountersOK` bounds the distance of the counters; `KnowledgeOK` and `MessagesOK` say what a thread
can know (never more than was stored, of its own counter everything) and that a message is
consistent (the store of t was made by a producer that knew t <= head + Capacity); `PlacesOK` that a
thread past its test still has what the test saw; `ItemsOK` what is in the buffer. From it
`QueueTypes`, `NoRace`, `NothingOverwritten` and `SizeCorrect` follow, and `QueueIsFifo`: each step
is a step of `BoundedFifo` or a stutter.

**The pipeline.** `EngineInPipeline` shows that a behaviour of the pipeline is a behaviour of the engine, so
every theorem above holds inside it. `SequenceCorrect` and `ValidationCorrect` follow from
`LineInv`: the orders along `Line` (received, waiting, about to be pushed) have increasing numbers below the next
one, and `Validate` holds of each; `TakeNumber` appends to `Line`, `Push` and `Pop` leave it as it is or drop its
last element (a refusal). `PriorityByNumber` (`FirstNumberedFirst`, under `PricesFit`) adds `NumberInv`: the number of
a resting order has been given out and is no longer along `Line`, and a taker that came through the queue is
the last received; so it goes behind lower numbers, and filling or cancelling only thins a level.

`ReportsHold` (`LastReportHolds`), `FeedIsComplete` (`FeedReconciles`), both under `PricesFit` and `~ReuseIds`, and
`TopOfBookRight` (`TopOfBookShown`, under `PricesFit`; of the engine, and `TopOfBookInPipeline` of the engine in the
pipeline) are about what the outside sees between events, and their invariants
hold inside a call too:

* `NewsInv`: the latest `News` of an id, a report of the event being built or else the last published one,
  says Resting exactly when the id rests. A filled maker is reported in the step that takes it off its level, a cancelled one in
  the step that cancels it; an order that a cancel overtook has news only when it comes.
* `FeedInv`: what the feed holds of an id's trades and what the event in progress adds to it is what
  the book, the call or the news say it traded. An order starts from nothing because nobody heard of its id
  before: `FreshInv`, what waits in the queue or is about to be pushed has an id without news, and no two share one. A subscriber
  misses nothing because it subscribes in `Silence`, before the first number is given out.
* a snapshot adds up the slots along the links of the best level, and these are the orders of that level
  (`ChainOfLevel`); 0 stands for "none" without confusion because no order rests at level 0 (`NoneAtZero`).

Each is proved as `Init => I`, `I /\ [Next]_vars => I'` (one step per action), `I =>
property`, joined by temporal logic.

**Only model-checked.** Liveness (`EveryCallReturns`, `CarriesCallsThrough`, `AllDelivered`, `EveryOrderAnswered`),
because there is no reasoning about ENABLED here, and the refinement of `PriceTimeBook` by `ReferenceEngine` (run `reference`),
which has not been proved. Every invariant that a passing run checks is a theorem.

## 5. Findings

1. FOK orders are handled as IOC (matching_engine.cpp:73 and 82; run `claim_fok`).
2. A price without a level leaves a stale map entry, and a cancel through it cancels
   another order (matching_engine.cpp:108 and 265; run `claim_cancel`).
3. The same stale entry can end in an endless loop: `remove` (order.h:55-69) of a node that is not in
   the level leaves one end of it null and the other not, the next `push_back` sets the bit and leaves
   `head_` null, and process_order spins (run `claim_returns`).
4. A resting id can be submitted again; the first order then cannot be cancelled (run
   `claim_not_found`).
5. `ReferenceEngine` accepts Limit orders at price 0, which its own verify_invariants
   rules out and `MatchingEngine` rejects (reference_engine.cpp:51; run
   `claim_reference_verify`).

Met on the way and not checked: `max_levels` must exceed the highest expected price, where
price_ladder.h:16 says "at least"; the FIFO check of `PriceLadder::verify_invariants`
(price_ladder.cpp:14-20) compares nothing; the comment at price_ladder.h:28 puts the
base price in the middle of the ladder, the code puts it at the bottom; an order cancelled
while it waits in the queue rests all the same (matching_engine.cpp:276), and its canceller is
told nothing.

## 6. Not modelled

* `OrderPool(0)`, pools of 2^32 slots (order.h:98) and queue counters at 2^64 (spsc_queue.h:34): outside what the code is
  built for or can reach.
* `pop_commit` without a `peek`, several producers, callbacks that call back: errors of callers that the
  repository does not have; what follows is undefined behaviour.
* `DynamicBitset::empty` and `reset`, `ReferenceEngine::spread` and `resting_quantity`: read-only or called by tests alone.
* Other base prices and ticks: nobody sets them.
* Tests and benchmarks (clients and measurements), the build files, and the .cpp files that only
  instantiate templates (market_data.cpp, spsc_queue.cpp, order_pool.cpp).

## 7. Plan

Done: the engine with its links, words and pool, proved to be one queue per side; the reference engine; the
queue with its proofs; the gateway and market data composed with them. Next:

1. The proof that `ReferenceEngine` implements `PriceTimeBook`: its lists without the cancelled nodes, in the
   order of their prices. With `EngineIsBook` it gives the agreement of the two engines, which the differential tests sample, for every
   sequence of calls.
2. The differential test as a module of its own: both engines on the same calls, with the inputs on
   which they part (prices of 0, ids reused, a full pool, prices without a level).
