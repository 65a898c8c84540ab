CONSTANTS
  c1 = c1
  c2 = c2
  c3 = c3
  r1 = r1
  r2 = r2
  player = player
  NoThread = NoThread
  Conn <- TwoConns
  Port <- TwoRooms
  Base <- Bases
  Name <- Suffixed
  MaxMembers = 3
  MaxSuffix = 4
  Kinds = {"join", "chat", "auth", "other"}
  MaxAccepts = 2
  MaxJoins = 2
  MaxLines = 1
  SendBuf = 1
  Rejoin = TRUE
SPECIFICATION Spec
SYMMETRY Symmetry
INVARIANTS
  UniqueIds
