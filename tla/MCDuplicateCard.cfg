SPECIFICATION SessionSpec
CONSTANTS
  a1 = a1
  c1 = c1
  bash = bash
  k1 = k1
  n1 = n1
  None = None
  Synthetic = synthetic
  PermissionTool = request_permissions
  Request <- MCRequest
  Command <- MCCommand
  Correlation <- MCCorrelation
  CorrelationOf <- MCCorrelationOf
  Tool <- MCTool
  Turn <- MCTurn
  KindOf <- MCKindOf
  TitleTools <- MCTitleTools
  ReceivedAt <- MCReceivedAt
  DeadlineAt <- MCDeadlineAt
  NativeCall <- MCNativeCall
  MaxTurns = 1
  IdleAfter = 1
  SnoozeDelay = 1
  MaxTime = 1
  CommitDelay = 1
INVARIANT
  NoDuplicateCard
CHECK_DEADLOCK FALSE
