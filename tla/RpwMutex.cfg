CONSTANTS
  p1 = p1
  p2 = p2
  p3 = p3
  Free = Free
  Procs <- MCProcs
  MaxDepth = 2
SPECIFICATION FairSpec
PROPERTIES ImplementsRwLock ReadersGetIn
