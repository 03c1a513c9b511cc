SPECIFICATION ConfigurationSpec
CONSTANTS
  player1 = player1
  player2 = player2
  regsvr32 = regsvr32
  absent = absent
  Players <- MCPlayers
  Unregistering = {regsvr32}
  Settings = 2
  Values = {0, 1}
  default = 0
  long = 1
  MaxKeys = 2
  MaxEdits = 1
SYMMETRY MCSymmetry
INVARIANTS Settled UserKept
CHECK_DEADLOCK FALSE
