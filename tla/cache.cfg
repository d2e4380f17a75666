\* Two threads of handlers on a cache that is too small for all the data.
SPECIFICATION Spec
CONSTANTS
  None = None
  bars = bars
  other = other
  both = both
  inline1 = inline1
  inline2 = inline2
  kBars = kBars
  kOther = kOther
  kEmpty = kEmpty
  old = old
  new = new
  wide = wide
  mine = mine
  yours = yours
  nothing = nothing
  Threads = {th1, th2}
  Tasks = {bars, other, both, inline1}
  Keys = {kBars, kOther, kEmpty}
  Data = {old, new, wide, mine, nothing}
  KeyOf <- MCKeyOf
  InlineOf <- MCInlineOf
  FromStorage <- MCFromStorage
  NoData = nothing
  Versions <- MCVersions
  Size <- MCSize
  Limit = 3
  MaxLoads = 3
  MaxChanges = 1
INVARIANTS
  TotalIsHeld
  LoadedOncePerHandler
  StorageDataIsOwn
SYMMETRY Symmetric
CHECK_DEADLOCK FALSE
