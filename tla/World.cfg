CONSTANTS
  c0 = c0
  c1 = c1
  c2 = c2
  u1 = u1
  u2 = u2
  Ids <- MCIds
  Root = 0
  Chans <- MCChans
  Sessions <- MCSessions
  WildSessions <- MCWildSessions
  Users <- MCUsers
  MaxDepth = 1
  LinkSets <- MCLinkSets
  None = None
  Absent = Absent
SPECIFICATION Spec
SYMMETRY MCSymmetry
INVARIANTS CyclesAreLong MapsAgree PictureIsWhole
PROPERTY NoticesAreRight
CHECK_DEADLOCK FALSE
