SPECIFICATION RegFairSpec
CONSTANTS
  r1 = r1
  r2 = r2
  r3 = r3
  t1 = t1
  t2 = t2
  t3 = t3
  t4 = t4
  k1 = k1
  k2 = k2
  None = None
  Request <- MCRequest
  Correlation <- MCCorrelation
  Ticket <- MCTicket
  RequestOf <- MCRequestOf
  CorrelationOf <- MCCorrelationOf
  ReceivedAt <- MCReceivedAt
  DeadlineAt <- MCDeadlineAt
  Interactive <- MCInteractive
  MaxTime = 2
  CommitDelay = 1
INVARIANTS
  RegTypeOK
  IndexConsistent
  ExactlyOneOutcome
PROPERTY
  EveryTicketAnswered
CHECK_DEADLOCK FALSE
