\* tunnel: a zone and a name under it, two addresses, two intercepts.  drop: five
\* changes and a missed dial.  sfu: two participants, three joins, one failure.
\* dns: four changes.  pki: two peers, three changes.  egress: two processes one after the other,
\* two addresses, two resolves, two failures.  secrets: two vaults, environments and
\* secrets, four requests.  calls: one participant besides the host, two calls, three
\* changes.  oidc: two apps, one sign-in, two codes, four changes.  camps: a known
\* camp and a new one, two commands, one crash.
CONSTANTS
  Addresses = {1, 2}
  MaxIds = 2
  Busy = 2
  Turns = 1
  Changes = 5
  Misses = 1
  Ips = {1, 2}
  MaxJoins = 3
  MaxFails = 1
  DnsChanges = 4
  CaTotal = 2
  PkiChanges = 3
  Pids = 2
  NatTargets = {1, 2}
  Resolves = 2
  EgressFaults = 2
  VaultIds = 2
  EnvIds = 2
  SecretIds = 2
  SecretChanges = 4
  Callers = {1}
  MaxCalls = 2
  CallChanges = 3
  Apps = {1, 2}
  MaxSignIns = 1
  MaxCodes = 2
  OidcChanges = 4
  Camps = {1, 2}
  Commands = 2
  Stops = 1
SPECIFICATION ServicesSpec
INVARIANTS
  ServicesTypeOK
  RoutesHaveOneOwner
  OnlyWhatWasAskedFor
  SentToAllOthers
  ChangesAreAccountedFor
  TablesAgree
  NobodyInLostCall
  SignInsAreSound
PROPERTIES
  CampsSurvive
  ServicesSettle
CHECK_DEADLOCK FALSE
