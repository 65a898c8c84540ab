CONSTANTS
  CD_MAX_QUEUED = 10
  Track <- TwoTracks
  Maps <- Shifted
  MaxCalls = 3
CHECK_DEADLOCK FALSE
SPECIFICATION FairSpec
INVARIANTS
  TypeOK
  WakeupPending
  Muted
PROPERTIES
  InOrder
  EveryCommandRun
