CONSTANTS
  tcp = tcp
  udp = udp
  s1 = s1
  s2 = s2
  alice = alice
  bob = bob
  Outside = Outside
  Dispatchers <- MCDispatchers
  Streams <- MCStreams
  Users <- MCOneUser
  Capacity = 1
  MaxPackets = 2
SPECIFICATION FairSpec
INVARIANT ChannelsAreSound
PROPERTIES StreamsStartOnce PlayersEnd
