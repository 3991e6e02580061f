SPECIFICATION MCSpec
CONSTANTS
  Sources = {u1}
  Nobody = Nobody
  InputSize = 1
  MaxQueued = 1
  FrameSize = 1
  Buffers = 2
  MaxPackets = 2
INVARIANTS AllReleased GainFollows StopTellsTheTruth
PROPERTY CallsReturn
CHECK_DEADLOCK FALSE
