SPECIFICATION FairSpec
CONSTANTS
  Servers = 3
  MaxOutstanding = 2
  MaxRetries = 1
  Extras = TRUE
  SelectFails = FALSE
INVARIANTS
  TypeOK
  SlotsCounted
  Verdict
  AllReturned
PROPERTY PassEnds
