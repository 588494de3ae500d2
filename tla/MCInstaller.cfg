SPECIFICATION Spec
CONSTANTS
  panel = panel
  cli = cli
  line1 = line1
  line2 = line2
  None = None
  Managed = Managed
  Process <- TwoProcesses
  Line <- TwoLines
  MaxOps = 3
  MaxEdits = 2
  LateEdits = FALSE
SYMMETRY Symmetry
INVARIANTS
  CompletedHolds
  RecordedHooksRun
  UserLineKept
PROPERTIES
  UserHooksKept
CHECK_DEADLOCK FALSE
