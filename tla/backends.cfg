\* Local: two submissions of one id, two clients, two calls in any order.
\* Remote: every kind of call, one id submitted again and again, two retries,
\* two events.
SPECIFICATION MCSpec
CONSTANTS
  None = None
  Ids = {id1}
  TaskIds = {id1}
  Submissions = {s1, s2}
  Clients = {c1, c2}
  MaxCalls = 2
  MaxRetries = 2
  MaxEvents = 2
INVARIANTS
  ResultIsStored
  WaitTellsTheOutcome
  ErrorIsNoResult
  RouteFindsTask
PROPERTIES
  LifecycleUntilCancel
  WaitComesBack
  CallsComeBack
CHECK_DEADLOCK FALSE
