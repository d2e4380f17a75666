----------------------------- MODULE MCPrefetch -----------------------------
(***************************************************************************)
(* Instances of Prefetch for TLC: tasks that name symbols, tasks with      *)
(* inline data, which most calls submit with an empty data_spec, hence     *)
(* under one key, and a task with both, as backtest and grid_search with   *)
(* symbols submit it.                                                      *)
(***************************************************************************)
EXTENDS Prefetch, TLC

CONSTANTS
  bars, other, \* tasks on different symbols
  both,        \* a task on the symbols of other, with inline data
  inline1, inline2,  \* tasks with inline data alone
  kBars, kOther, kEmpty,  \* their keys
  old, new, wide, mine, yours, nothing

MCKeyOf == [t \in Tasks |-> CASE t = bars -> kBars
                              [] t \in {other, both} -> kOther
                              [] OTHER -> kEmpty]
MCInlineOf == [t \in Tasks |-> CASE t \in {inline1, both} -> mine
                                 [] t = inline2 -> yours
                                 [] OTHER -> None]
MCFromStorage == Tasks \cap {bars, other, both}
MCVersions == [key \in Keys |-> CASE key = kBars -> {old, new}
                                  [] key = kOther -> {wide}
                                  [] OTHER -> {nothing}]
(* wide is more than the limit of 3, new and mine just fit together.       *)
MCSize == [d \in Data |-> CASE d = wide -> 4
                            [] d = new -> 2
                            [] OTHER -> 1]

Symmetric == Permutations(Threads)
=============================================================================
