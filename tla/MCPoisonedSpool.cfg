SPECIFICATION DeliveryFairSpec
CONSTANTS
  None = None
  Note <- TwoNotes
  Runtime <- OneRuntime
  Poison <- FirstNote
  Old <- NoNotes
  MaxFiles = 2
  Heavy <- NoneHeavy
  MaxFailures = 1
PROPERTY ValidIsReplayed
CHECK_DEADLOCK FALSE
