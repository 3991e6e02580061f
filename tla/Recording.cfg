CONSTANTS
  None = None
  MaxCommands = 3
  MaxConfigs = 1
  MaxLosses = 1
  MaxKicks = 1
SPECIFICATION Spec
INVARIANTS EncodersOwned RecordingIsLawful
CHECK_DEADLOCK FALSE
