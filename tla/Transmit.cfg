SPECIFICATION Spec
CONSTANTS
  MaxBursts = 2
  MaxPlays = 2
  MaxStreams = 1
  UI = UI
  Net = Net
  QueueSize = 1
INVARIANTS CaptureOwned OnAirIsCapturing PlayerHasOneWorker
PROPERTY CommandsReturn
