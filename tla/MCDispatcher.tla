---------------------------- MODULE MCDispatcher ----------------------------
(***************************************************************************)
(* Instances of Dispatcher for TLC.  "sharded" is a task of two slices,    *)
(* "single" one that shard_task leaves whole.                              *)
(***************************************************************************)
EXTENDS DispatcherProperties, TLC

CONSTANTS sharded, single, w1, w2, th1, th2

MCSliceList == [t \in Tasks |-> IF t = sharded THEN <<1, 2>> ELSE <<0>>]
MCTypeOf == [t \in Tasks |-> IF t = sharded THEN "grid_search" ELSE "indicator"]

MCPriorities == {-1, 0}
SingleFirst == [t \in Tasks |-> IF t = sharded THEN 0 ELSE -1]
ShardedFirst == [t \in Tasks |-> IF t = sharded THEN -1 ELSE 0]

AllCapabilities == [w \in Workers |-> {"grid_search", "indicator"}]
(* w2 cannot run the sharded task: the scan of its poll skips those items. *)
MixedCapabilities ==
  [w \in Workers |-> IF w = w2 THEN {"indicator"} ELSE {"custom"}]

OneSlot == [w \in Workers |-> 1]
(* Handler threads, and workers of equal capabilities, are interchangeable. *)
Symmetric == Permutations(Threads) \cup Permutations(Workers)

TwoSlots == [w \in Workers |-> 2]
=============================================================================
