SPECIFICATION StoreSpec
CONSTANTS
  a1 = a1
  a2 = a2
  q1 = q1
  c1 = c1
  c2 = c2
  bash = bash
  edit = edit
  k1 = k1
  None = None
  Request <- MCRequest
  Command <- MCCommand
  Correlation <- MCCorrelation
  CorrelationOf <- MCCorrelationOf
  Tool <- MCTool
  Turn <- MCTurn
  KindOf <- MCKindOf
  TitleTools <- MCTitleTools
  ReceivedAt <- MCReceivedAt
  DeadlineAt <- MCDeadlineAt
  SnoozeDelay = 1
  MaxTime = 2
  CommitDelay = 1
SYMMETRY StoreSymmetry
INVARIANTS
  OneWinner
  ItemBackedByCommand
  OpenMeansUndecided
PROPERTIES
  SettledNeverReopens
CHECK_DEADLOCK FALSE
