\* engine: three services, two rebinds, one failing start.  pairing: two changes.
\* client: two other machines.  round: two peers, two scopes.
\* gossip: two starts, three stamps, two pushes on their way, three changes.
\* firewall: two camps, two starts, two changes of the ports, one crash or failure.
CONSTANTS
  Services = 3
  Camp = 1
  Async = {2}
  Triggers = 2
  Faults = 1
  RelayAfter = 1
  KeepAlive = 3
  Fresh = 4
  PairChanges = 2
  PeerTotal = 2
  Grace = 1
  WindowMisses = 3
  Restarts = 1
  Peer <- TwoPeers
  Scope <- TwoScopes
  MaxWrites = 3
  MaxFlaps = 3
  Loops = 2
  ClockMax = 3
  PushMax = 2
  GossipChanges = 3
  FwCamps = {1, 2}
  UserPorts = {1}
  Anchors = 2
  Settings = 2
  FwFaults = 1
SPECIFICATION MeshFairSpec
INVARIANTS
  MeshTypeOK
  RestartsAreClean
  UnexpiredRoundIsComplete
  FilterIsAccountedFor
PROPERTIES
  TableIsTrue
  NewerStays
  MeshSettles
CHECK_DEADLOCK FALSE
