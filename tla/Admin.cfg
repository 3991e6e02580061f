SPECIFICATION AdminSpec
CONSTANTS
  UserSlots = {u1}
  ChannelSlots = {c1}
  Bans = {b1}
  Nobody = Nobody
  QueueSize = 1
  MaxObjects = 2
  MaxLosses = 1
  MaxRequests = 1
  MaxOpens = 2
  MaxBans = 2
INVARIANT MenuAgrees
PROPERTIES ActsOnMembers 
CHECK_DEADLOCK FALSE
