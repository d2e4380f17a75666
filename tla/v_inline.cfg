\* Two tasks with inline data, on one thread.
SPECIFICATION Spec
CONSTANTS
  None = None
  bars = bars
  other = other
  both = both
  inline1 = inline1
  inline2 = inline2
  kBars = kBars
  kOther = kOther
  kEmpty = kEmpty
  old = old
  new = new
  wide = wide
  mine = mine
  yours = yours
  nothing = nothing
  Threads = {th1}
  Tasks = {inline1, inline2}
  Keys = {kBars, kOther, kEmpty}
  Data = {mine, yours, nothing, old, new, wide}
  KeyOf <- MCKeyOf
  InlineOf <- MCInlineOf
  FromStorage <- MCFromStorage
  NoData = nothing
  Versions <- MCVersions
  Size <- MCSize
  Limit = 3
  MaxLoads = 3
  MaxChanges = 0
INVARIANTS
  InlineDataIsDelivered
CHECK_DEADLOCK FALSE
