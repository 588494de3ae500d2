SPECIFICATION CodexSpec
CONSTANTS
  a1 = a1
  k1 = k1
  p1 = p1
  None = None
  Synthetic = synthetic
  PermissionTool = request_permissions
  Request <- MCRequest
  Ticket <- MCRequest
  RequestOf <- MCRequestOf
  Interactive <- NoOne
  Command <- NoOne
  Correlation <- MCCorrelation
  CorrelationOf <- MCCorrelationOf
  Tool <- MCTool
  Turn <- MCTurn
  KindOf <- MCKindOf
  TitleTools <- MCTitleTools
  ReceivedAt <- MCReceivedAt
  DeadlineAt <- MCDeadlineAt
  NativeCall <- NoOne
  MaxTurns = 1
  IdleAfter = 1
  SnoozeDelay = 1
  MaxTime = 1
  CommitDelay = 1
  Client <- OneClient
  SessionNews <- News
  MaxChanges = 1
  MaxAsks = 1
  MaxAttaches = 0
  MaxFailures = 0
PROPERTY
  UncoveredWaitIsShown
CHECK_DEADLOCK FALSE
