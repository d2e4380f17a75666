\* Two slices on two pool threads, three futures, every call may fail.
SPECIFICATION FairSpec
CONSTANTS
  None = None
  Slices = {s1, s2}
  Futures = {f1, f2, f3}
  Concurrency = 2
  Faults = {"register", "complete"}
INVARIANTS
  EntriesAreTasks
  DrainKeepsResults
PROPERTIES
  DrainEnds
CHECK_DEADLOCK FALSE
