SPECIFICATION DeliveryFairSpec
CONSTANTS
  None = None
  Note <- ThreeNotes
  Runtime <- TwoRuntimes
  Poison <- NoNotes
  Old <- NoNotes
  MaxFiles = 1
  Heavy <- SecondIsHeavy
  MaxFailures = 1
INVARIANTS
  ServingOwnsSocket
PROPERTIES
  ImplementsLedger
  RuntimeRemovesOnlyStored
  PrunedForNewer
  SpooledIsReplayed
CHECK_DEADLOCK FALSE
