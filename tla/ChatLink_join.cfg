SPECIFICATION FairSpec
CONSTANTS
  Header = 2
  Message = 4
  MaxUnread = 2
  MaxRetries = 0
INVARIANTS
  TypeOK
  Framed
  RoomWatched
  JoinedHere
PROPERTIES
  LossHandled
  JoinEnds
