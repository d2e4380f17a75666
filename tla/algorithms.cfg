\* Sharding, indicators, windows and messages, case by case.
SPECIFICATION MCSpec
CONSTANTS
  Specs <- MCSpecs
  NoFee = NoFee
  DefaultFee = DefaultFee
  Bars = 7
  Holes = 2
  Lookback = 4
  Rows = 24
  Longest = 5
INVARIANTS
  SameWork
  SimulationsDiffer
  NoLookAhead
  WindowsFit
  MessageArrives
CHECK_DEADLOCK FALSE
