CONSTANTS
  LowValues = 8
  HighValues = 4
  Late = 4
  FirstIV = 20
  MaxSent = 15
SPECIFICATION WindowSpec
INVARIANTS WindowFollows NoReplay
