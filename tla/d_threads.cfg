\* A Dispatcher called from two threads at once.
SPECIFICATION Spec
CONSTANTS
  sharded = sharded
  single = single
  w1 = w1
  w2 = w2
  th1 = th1
  th2 = th2
  None = None
  Tasks = {sharded}
  Workers = {w1}
  Threads = {th1, th2}
  SliceList <- MCSliceList
  Mergeable = {sharded}
  Priorities <- MCPriorities
  Priority <- SingleFirst
  TypeOf <- MCTypeOf
  Capabilities <- AllCapabilities
  Concurrency <- TwoSlots
  HistoryMax = 2
  Events = {"cancel", "retryableFail", "silence", "resubmit"}
  MaxEvents = 2
  MaxTimeouts = 1
SYMMETRY Symmetric
INVARIANTS
  CountsCoverPartials
  CompletedHasResult
PROPERTIES
  ResultWriteOnce
CHECK_DEADLOCK FALSE
