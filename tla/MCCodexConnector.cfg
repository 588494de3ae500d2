SPECIFICATION ConnectorSpec
CONSTANTS
  thread1 = thread1
  thread2 = thread2
  panel1 = panel1
  question1 = question1
  None = None
  Thread <- OneThread
  Panel <- OnePanel
  Question <- OneQuestion
  MaxCalls = 4
  SlowIngest = FALSE
INVARIANTS
  OwnAnswer
  PendingIsWaiting
  OneReply
PROPERTIES
  LostIsShown
  EveryQuestionReplied
  OverIsClosed
CHECK_DEADLOCK FALSE
