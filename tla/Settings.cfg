SPECIFICATION SettingsSpec
CONSTANTS
  Names = {n1, n2}
  root = root
  sub = sub
  Channels <- MCChannels
  Nobody = Nobody
  Torn = Torn
  Files <- MCFiles
  MaxLines = 3
  MaxLevel = 1
  MaxUsers = 2
  MaxMoves = 1
  MaxKeys = 2
SYMMETRY MCSymmetry
INVARIANTS FileIsWhole SavedIsCurrent UsersFollowSettings ListCatchesUp
CHECK_DEADLOCK FALSE
