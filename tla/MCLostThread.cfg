SPECIFICATION ConnectorSpec
CONSTANTS
  thread1 = thread1
  thread2 = thread2
  panel1 = panel1
  question1 = question1
  None = None
  Thread <- TwoThreads
  Panel <- OnePanel
  Question <- OneQuestion
  MaxCalls = 4
  SlowIngest = FALSE
INVARIANT ManagedPersists
CHECK_DEADLOCK FALSE
