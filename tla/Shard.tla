-------------------------------- MODULE Shard --------------------------------
(***************************************************************************)
(* shard_task (dispatcher/shard.py) and what becomes of its slices: each   *)
(* is run by the handler of its task type as if it were a task of its own. *)
(*                                                                         *)
(* A spec is a record of the fields that are split.  split is the strategy *)
(* and type the task type; grid lists the values of each parameter, in the *)
(* order of param_grid; strategies lists the keys of that dict; fees is    *)
(* <<>> for None; workers is 0 for None; id is 0 for the spec itself and   *)
(* k + 1 for the clone "-sk".                                              *)
(***************************************************************************)
EXTENDS Integers, Sequences, FiniteSets, SequencesExt, FiniteSetsExt

CONSTANTS
  Specs,      \* the specs that may be submitted
  NoFee,      \* None, in place of a fee model
  DefaultFee  \* the fee model the handler takes for None

IsList(list) == list \in Seq(ToSet(list))

(* The fields of a TaskSpec that are split.  Fee models are given by name, *)
(* none of them by None.                                                   *)
IsSpec(s) ==
  /\ {"id", "split", "type", "workers", "grid", "strategies", "fees", "n",
      "seed", "symbols"} \subseteq DOMAIN s
  /\ s.n \in Nat /\ s.workers \in Nat /\ s.seed \in Int
  /\ IsList(s.grid) /\ \A j \in DOMAIN s.grid : IsList(s.grid[j])
  /\ IsList(s.strategies) /\ IsList(s.symbols)
  /\ IsList(s.fees) /\ NoFee \notin ToSet(s.fees)

ASSUME ShardAssumption == \A s \in Specs : IsSpec(s)

VARIABLES
  spec,      \* the submitted spec
  submitted, \* shard_task has returned
  slices     \* its slices

vars == <<spec, submitted, slices>>

MaxWorkers(s) == IF s.workers = 0 THEN 1 ELSE s.workers

ChunkSize(n, s) == Max({1, n \div MaxWorkers(s)})

Chunks_Full(seq, size) ==  \* mutant: a remainder is dropped
  [i \in 1 .. Len(seq) \div size |->
     SubSeq(seq, (i - 1) * size + 1, i * size)]

Chunks(seq, size) ==
  [i \in 1 .. (Len(seq) + size - 1) \div size |->
     SubSeq(seq, (i - 1) * size + 1, Min({i * size, Len(seq)}))]

(* Every row, the k-th column behind it.                                   *)
Times(rows, column, k) ==
  [n \in 1 .. Len(rows) * Len(column) |->
     [j \in 1 .. k |-> IF j = k THEN column[1 + ((n - 1) % Len(column))]
                      ELSE rows[1 + (n - 1) \div Len(column)][j]]]

(* itertools.product, the last column varying fastest.                     *)
Product(columns) ==
  LET rows[k \in 0 .. Len(columns)] ==
        IF k = 0 THEN <<(<<>>)>> ELSE Times(rows[k - 1], columns[k], k)
  IN  rows[Len(columns)]

Fees(s, none) == IF s.fees = <<>> THEN <<none>> ELSE s.fees

(* _clone_slice: the k-th clone; its overrides follow as EXCEPTs.          *)
Clone(s, k) == [s EXCEPT !.id = k]

-----------------------------------------------------------------------------
(* One operator per way of splitting.                                      *)

(* The values a chunk uses, parameter by parameter.                        *)
GridSlices(s) ==
  LET combos == Product(s.grid)
      chunks == Chunks(combos, ChunkSize(Len(combos), s))
  IN  [k \in DOMAIN chunks |->
         [Clone(s, k) EXCEPT !.grid =
            [j \in DOMAIN s.grid |->
               [c \in DOMAIN chunks[k] |-> chunks[k][c][j]]]]]

(* The strategies and the fee models a chunk uses, each once (the order of *)
(* both is left open).                                                     *)
BatchSlices(s) ==
  LET combos == Product(<<s.strategies, Fees(s, NoFee)>>)
      chunks == Chunks(combos, ChunkSize(Len(combos), s))
      Names(k) == {combo[1] : combo \in ToSet(chunks[k])}
      FeesOf(k) == {combo[2] : combo \in ToSet(chunks[k])} \ {NoFee}
  IN  [k \in DOMAIN chunks |->
         [Clone(s, k) EXCEPT
            !.strategies = SetToSeq(Names(k)),
            !.fees = SetToSeq(FeesOf(k))]]

SimulationSlices_SameSeed(s) ==  \* mutant: every slice keeps the seed
  LET size == ChunkSize(s.n, s)
  IN  [k \in 1 .. Min({MaxWorkers(s), (s.n + size - 1) \div size}) |->
         [Clone(s, k) EXCEPT !.n = Min({size, s.n - (k - 1) * size})]]

(* At most one slice per worker, while there are simulations left.         *)
SimulationSlices(s) ==
  LET size == ChunkSize(s.n, s)
  IN  [k \in 1 .. Min({MaxWorkers(s), (s.n + size - 1) \div size}) |->
         [Clone(s, k) EXCEPT !.n = Min({size, s.n - (k - 1) * size}),
                             !.seed = s.seed + (k - 1) * size]]

SymbolSlices(s) ==
  [k \in DOMAIN s.symbols |-> [Clone(s, k) EXCEPT !.symbols = <<s.symbols[k]>>]]

IsGrid(s)       == s.type = "grid_search" /\ s.grid # <<>>
IsBatch(s)      == s.type = "batch_backtest" /\ s.strategies # <<>>
IsSimulation(s) == s.type = "monte_carlo"

ShardTask(s) ==
  CASE s.split = "param_wise" /\ IsGrid(s)       -> GridSlices(s)
    [] s.split = "param_wise" /\ IsBatch(s)      -> BatchSlices(s)
    [] s.split = "param_wise" /\ IsSimulation(s) -> SimulationSlices(s)
    [] s.split = "symbol_wise" /\ Len(s.symbols) > 1 -> SymbolSlices(s)
    [] OTHER -> <<s>>

(* What the handler of a task type computes, in order: a combination, a    *)
(* strategy under a fee model, or (of any type) the data of a symbol.      *)
Work(s) ==
  IF s.split = "symbol_wise" THEN s.symbols
  ELSE IF IsGrid(s) THEN Product(s.grid)
  ELSE IF IsBatch(s) THEN Product(<<s.strategies, Fees(s, DefaultFee)>>)
  ELSE <<>>

-----------------------------------------------------------------------------
Init == spec \in Specs /\ submitted = FALSE /\ slices = <<>>

Submit ==
  /\ ~submitted
  /\ submitted' = TRUE
  /\ slices' = ShardTask(spec)
  /\ UNCHANGED spec

Spec == Init /\ [][Submit]_vars

-----------------------------------------------------------------------------
(* Dispatcher tells the slices of a task apart by id: they are the spec    *)
(* itself or clones with suffixes of their own, in a row.  (This is what   *)
(* SlicingAssumption of module Dispatcher assumes of SliceList.)           *)
SliceIdsDiffer ==
  \/ slices = <<spec>>
  \/ \A k \in DOMAIN slices : slices[k].id = k

Runs(unit, work) == Cardinality({n \in DOMAIN work : work[n] = unit})

RunsOf(unit) ==
  LET sum[k \in 0 .. Len(slices)] ==
        IF k = 0 THEN 0 ELSE sum[k - 1] + Runs(unit, Work(slices[k]))
  IN  sum[Len(slices)]

(* With fewer than two combinations per worker, and for symbols, the       *)
(* slices compute everything as often as the unsliced task.  (A chunk of   *)
(* several combinations of two parameters is expanded again by grid_search *)
(* and computes some more than once.)                                      *)
OnceInSmallChunks ==
  spec.split = "symbol_wise" \/ Len(Work(spec)) < 2 * MaxWorkers(spec) =>
    \A unit \in ToSet(Work(spec)) : RunsOf(unit) = Runs(unit, Work(spec))

(* Whatever the numbers of combinations and workers, the slices have ids   *)
(* of their own and compute together what the unsliced task would: a       *)
(* remainder of the division is not left out, nothing else is computed,    *)
(* and in small chunks nothing is computed twice.  (Simulations apart.)    *)
SameWork ==
  submitted =>
    /\ SliceIdsDiffer
    /\ UNION {ToSet(Work(slices[k])) : k \in DOMAIN slices} = ToSet(Work(spec))
    /\ OnceInSmallChunks

(* How many simulations the slices of a task run together.                 *)
Simulated ==
  LET first[k \in 0 .. Len(slices)] ==
        IF k = 0 THEN 0 ELSE first[k - 1] + slices[k].n
  IN  first[Len(slices)]

IsSplitSimulation ==
  submitted /\ IsSimulation(spec) /\ spec.split = "param_wise"

(* Every slice simulates something and has a seed of its own (a slice is   *)
(* one stream of random numbers: with the same seed two would be one       *)
(* sample counted twice), and together they run no more than was asked     *)
(* for, and less only by fewer than there are workers.                     *)
SimulationsDiffer ==
  IsSplitSimulation =>
    /\ \A k, m \in DOMAIN slices : k # m => slices[k].seed # slices[m].seed
    /\ \A k \in DOMAIN slices : slices[k].n > 0
    /\ spec.n - MaxWorkers(spec) < Simulated /\ Simulated <= spec.n

(* What docs/USAGE.md says: the simulations are split across the workers,  *)
(* that is, all of them.  (The code drops the remainder of the division.)  *)
AllSimulationsRun == IsSplitSimulation => Simulated = spec.n
=============================================================================
