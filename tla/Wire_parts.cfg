\* bus: one unexplained failure, and two stops or changes of the peer; up to two
\* pings, one of them of a stopped service.  hub: two machines, two addresses they
\* exchange, two camps they switch between.
CONSTANTS
  Pings = {p1}
  Apps = {a1}
  ConnCount = 2
  MaxStarts = 2
  Budget = 1
  Changes = 1
  PingFailLimit = 2
  EvictGrace = 3
  Camps <- TwoCamps
  Pubs <- TwoPubs
  Endpoints <- TwoEndpoints
  EvictAfter = 1
  MaxMoves = 4
  MaxInFlight = 2
SPECIFICATION WireSpec
INVARIANTS
  WireTypeOK
  ConnectionsAccountedFor
  SourceNamesItsPeer
  RelayStaysInCamp
PROPERTIES
  LosesSourceOnlyToSharer
  WireSettles
CHECK_DEADLOCK FALSE
