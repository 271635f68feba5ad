----------------------- MODULE MatchingEngineRefinement -----------------------
(***************************************************************************)
(* MatchingEngine implements PriceTimeBook, as long as callers keep ids    *)
(* unique and prices below MaxLevels.                                      *)
(***************************************************************************)
EXTENDS MatchingEngine

\* A resting order as the abstract book sees it.
Entry(s) ==
  [id |-> orders[s].id, price |-> orders[s].price,
   quantity |-> orders[s].quantity, remaining |-> orders[s].remaining]

\* The levels of a side, the first to trade first.
ByPriority(side) ==
  [n \in 1 .. MaxLevels |->
     queues[side][IF side = "Buy" THEN MaxLevels - n ELSE n - 1]]

AbstractQueue(side) ==
  LET slots == FlattenSeq(ByPriority(side)) IN
  [k \in DOMAIN slots |-> Entry(slots[k])]

AbstractBook == [side \in Sides |-> AbstractQueue(side)]

\* Between two levels and inside one, the abstract book is matching.
AbstractPhase == IF pc \in {"match", "level"} THEN "matching" ELSE pc

Book == INSTANCE PriceTimeBook WITH
  Ids <- OrderIds,
  Capacity <- PoolCapacity,
  MaxPrice <- MaxLevels - 1,
  book <- AbstractBook,
  phase <- AbstractPhase,
  call <- op

\* The engine's levels, bitsets, id map and pool together behave as one queue
\* per side in price-time order: every trade takes the head of the queue, every
\* remainder joins it behind the orders that are as good, a cancel removes the
\* named order and moves no other, and an order is turned away only when
\* PoolCapacity orders rest.
ImplementsPriceTimeBook == Book!Spec

\* A call that the abstract book could carry on with is carried on with: the
\* loops do not go round between levels for ever without a trade.
CarriesCallsThrough == Book!Fairness
=============================================================================
