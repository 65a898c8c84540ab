CONSTANTS
  c1 = c1
  c2 = c2
  c3 = c3
  NoSession = NoSession
  Nobody = Nobody
  Conn <- ThreeConns
  MaxSessions = 2
  IdWidth = 3
  MaxAccepts = 4
  MaxKeys = 3
SPECIFICATION Spec
SYMMETRY Symmetry
INVARIANTS
  TypeOK
  SessionsResume
  Kept
