CONSTANTS
  c1 = c1
  c2 = c2
  c3 = c3
  r1 = r1
  r2 = r2
  player = player
  NoThread = NoThread
  Conn <- TwoConns
  Port <- OneRoom
  Base <- Bases
  Name <- Plain
  MaxMembers = 2
  MaxSuffix = 4
  Kinds = {"join"}
  MaxAccepts = 4
  MaxJoins = 3
  MaxLines = 1
  SendBuf = 3
  Rejoin = FALSE
SPECIFICATION Spec
INVARIANTS
  FramesIntact
