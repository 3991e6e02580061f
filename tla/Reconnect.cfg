CONSTANTS
  l1 = l1
  l2 = l2
  UI = UI
  None = None
  Loops <- MCLoops
  MaxDials = 3
  MaxFaults = 2
SPECIFICATION FairSpec
INVARIANTS StreamsOwned OneReconnectLoop AppAgrees
PROPERTIES Recovers ClosedClientEnds
