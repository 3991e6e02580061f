SPECIFICATION ReceiveFairSpec
CONSTANTS
  Paths = {"dispatchOpus15", "handleUDPTunnel"}
  Step = 1
  Reach = 1
  Capacity = 1
  Delay = 2
  MaxPackets = 2
  LateResync = 2
  ResyncJump = 3
  FirstFrames = {4}
  MaxSent = 6
  MaxRestarts = 1
  MaxMutes = 1
INVARIANT SilenceIsShort
PROPERTIES HeardInOrder OnlyRestartsResync EndsWhenClosed
