CONSTANTS
  Ids = {r1, r2}
  Tasks = {t1, t2, t3}
  Processes = {p1, p2}
SPECIFICATION MCSpec
INVARIANTS
  WokenHasReply
  ReplyIsOnce
  DequeueOrder
PROPERTIES
  RequestEnds
CHECK_DEADLOCK FALSE
