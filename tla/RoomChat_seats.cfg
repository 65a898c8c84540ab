CONSTANTS
  c1 = c1
  c2 = c2
  c3 = c3
  r1 = r1
  r2 = r2
  player = player
  NoThread = NoThread
  Conn <- ThreeConns
  Port <- OneRoom
  Base <- Bases
  Name <- Plain
  MaxMembers = 2
  MaxSuffix = 4
  Kinds = {"join"}
  MaxAccepts = 4
  MaxJoins = 3
  MaxLines = 0
  SendBuf = 2
  Rejoin = TRUE
SPECIFICATION ChatSpec
SYMMETRY Symmetry
INVARIANTS
  OwnSeat
  RowsShowRoom
