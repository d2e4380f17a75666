\* A worker crashes at any point; the others finish the work.
SPECIFICATION FairSpec
CONSTANTS
  sharded = sharded
  single = single
  w1 = w1
  w2 = w2
  th1 = th1
  th2 = th2
  None = None
  Tasks = {sharded, single}
  Workers = {w1, w2}
  Threads = {th1}
  SliceList <- MCSliceList
  Mergeable = {sharded}
  Priorities <- MCPriorities
  Priority <- SingleFirst
  TypeOf <- MCTypeOf
  Capabilities <- AllCapabilities
  Concurrency <- OneSlot
  HistoryMax = 2
  Events = {"crash"}
  MaxEvents = 1
  MaxTimeouts = 2
INVARIANTS
  CrashRecoverable
PROPERTIES
  EveryTaskEnds
CHECK_DEADLOCK FALSE
