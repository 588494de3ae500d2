SPECIFICATION RuntimeSpec
CONSTANTS
  r1 = r1
  r2 = r2
  c1 = c1
  c2 = c2
  e1 = e1
  k1 = k1
  k2 = k2
  bash = bash
  turn1 = turn1
  None = None
  Request <- OneRequest
  Ticket <- OneRequest
  RequestOf <- OwnTicket
  Command <- TwoCommands
  Event <- NoEvents
  EventKindOf <- StoppedEvent
  EventToolOf <- EventTool
  EventCallOf <- EventOfNoCall
  Correlation <- AllCorrelations
  CorrelationOf <- SameCorrelation
  Interactive <- NoEvents
  KindOf <- AllApprovals
  Tool <- OneTool
  TitleTools <- TitleNamesTool
  Turn <- OneTurn
  ReceivedAt <- ReceivedAtOnce
  DeadlineAt <- DueAtTwo
  SnoozeDelay = 1
  MaxTime = 3
  CommitDelay = 1
  MaxCrashes = 0
PROPERTIES
  DeliveredDecisionAwaitsEvidence
CHECK_DEADLOCK FALSE
