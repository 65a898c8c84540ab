CONSTANTS
  c1 = c1
  c2 = c2
  c3 = c3
  r1 = r1
  r2 = r2
  player = player
  NoThread = NoThread
  Conn <- TwoConns
  Port <- OneRoom
  Base <- Bases
  Name <- Plain
  MaxMembers = 2
  MaxSuffix = 4
  Kinds = {"join", "chat"}
  MaxAccepts = 3
  MaxJoins = 2
  MaxLines = 2
  SendBuf = 1
  Rejoin = TRUE
SPECIFICATION FairChatSpec
INVARIANT
  SameOrder
PROPERTIES
  ThreadsReturn
  SeatsFreed
  OwnLineShown
