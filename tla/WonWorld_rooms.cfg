CONSTANTS
  w1 = w1
  w2 = w2
  lobby = lobby
  den = den
  cave = cave
  loft = loft
  NoPassword = none
  NoName = NoName
  NoPort = 0
  ServicePort = 6002
  Nobody = Nobody
  Worker <- TwoWorkers
  Name <- FourNames
  Password = {none, secret}
  DefaultRooms <- Lobby
  FactoryPorts <- Ports
  MaxRooms = 3
  MaxPorts = 3
  Taken <- HeldPort
  MaxMade = 3
  MaxFailed = 1
SPECIFICATION FairSpec
INVARIANTS
  TypeOK
  NamesUnique
  AllPublished
  Heard
  NoRoomSkipped
  PasswordKept
  DefaultsOpen
PROPERTY
  EveryPortAnswered
