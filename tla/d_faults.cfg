\* Every fault, at the HTTP server, which serves one call at a time.
SPECIFICATION Spec
CONSTANTS
  sharded = sharded
  single = single
  w1 = w1
  w2 = w2
  th1 = th1
  th2 = th2
  None = None
  Tasks = {sharded, single}
  Workers = {w1, w2}
  Threads = {th1}
  SliceList <- MCSliceList
  Mergeable = {sharded}
  Priorities <- MCPriorities
  Priority <- ShardedFirst
  TypeOf <- MCTypeOf
  Capabilities <- MixedCapabilities
  Concurrency <- OneSlot
  HistoryMax = 2
  Events = {"cancel", "fail", "retryableFail", "drain", "stop", "lateCount", "lateFlag", "crash", "silence", "slowPrefetch", "prefetchError", "lostReply", "lostAck"}
  MaxEvents = 2
  MaxTimeouts = 1
INVARIANTS
  TypeOK
  BusyMeansFull
  CompletedMeansWhole
  NoSliceLost
PROPERTIES
  LifecycleKept
CHECK_DEADLOCK FALSE
