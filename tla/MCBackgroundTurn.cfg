SPECIFICATION HookSpec
CONSTANTS
  a1 = a1
  c1 = c1
  bash = bash
  k1 = k1
  n1 = n1
  n2 = n2
  None = None
  Synthetic = synthetic
  PermissionTool = request_permissions
  Request <- MCNoRequest
  Command <- MCCommand
  Correlation <- MCCorrelation
  CorrelationOf <- MCCorrelationOf
  Tool <- MCTool
  Turn <- MCTurn
  KindOf <- MCKindOf
  TitleTools <- MCTitleTools
  ReceivedAt <- MCReceivedAt
  DeadlineAt <- MCDeadlineAt
  NativeCall <- MCNoCall
  InOrder = TRUE
  Parallel = FALSE
  MaxEvents = 6
  MaxTurns = 2
  IdleAfter = 1
  SnoozeDelay = 1
  MaxTime = 1
  CommitDelay = 1
PROPERTY
  TurnsStartWithPrompt
CHECK_DEADLOCK FALSE
