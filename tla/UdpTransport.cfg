CONSTANTS
  s1 = s1
  s2 = s2
  Pinger = Pinger
  KeepAlive = KeepAlive
  NoWriter = NoWriter
  Senders <- MCSenders
  FrameStep = 1
  MaxKeys = 2
  MaxPackets = 2
  MaxUnsent = 1
SPECIFICATION FairSpec
PROPERTIES WireInOrder MessagesAreWhole RoutinesEnd
