CONSTANTS
  BarSeqs <- MCBarSeqs
  Orders <- MCOrders
  Objects = {1, 2, 3}
  FillModels <- MCFillModels
  CellSeqs <- MCCellSeqs
  InitialCash = 12
SPECIFICATION Spec
INVARIANTS
  LongOnly
  PnlReconciles
  SameOrdersSameRow
  DrawdownsAgree
CHECK_DEADLOCK FALSE
