SPECIFICATION RuntimeSpec
CONSTANTS
  r1 = r1
  r2 = r2
  c1 = c1
  c2 = c2
  e1 = e1
  k1 = k1
  k2 = k2
  bash = bash
  turn1 = turn1
  None = None
  Request <- TwoRequests
  Ticket <- TwoRequests
  RequestOf <- OwnTicket
  Command <- OneCommand
  Event <- OneEvent
  EventKindOf <- ToolStartedEvent
  EventToolOf <- EventTool
  EventCallOf <- EventOfSecondCall
  Correlation <- AllCorrelations
  CorrelationOf <- OwnCorrelation
  Interactive <- NoEvents
  KindOf <- AllApprovals
  Tool <- OneTool
  TitleTools <- TitleNamesTool
  Turn <- OneTurn
  ReceivedAt <- SecondReceivedLater
  DeadlineAt <- DueAtTwo
  SnoozeDelay = 1
  MaxTime = 2
  CommitDelay = 1
  MaxCrashes = 0
INVARIANTS
  ToolProgressReleasesItsOwnCall
CHECK_DEADLOCK FALSE
