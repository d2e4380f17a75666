CONSTANTS
  Writers = {1, 2, 3}
  Jobs <- MCJobs
  Requests <- MCRequests
  Symbols = {"s1", "s2"}
  Times = {1, 2}
  Columns = {"open", "close"}
  Values = {1, 2}
  Edits <- MCEdits
  None = None
  Unread = Unread
  MaxClears = 1
  Subs = {"a", "b"}
  MaxCalls = 4
  MaxSubs = 3
SPECIFICATION MCSpec
INVARIANTS
  AnswerIsCommitted
  MetadataHasData
PROPERTIES
  LoopsEnd
  SubscribedIsTried
CHECK_DEADLOCK FALSE
