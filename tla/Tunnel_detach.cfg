\* A zone is removed while a name under it is resolved.
CONSTANTS
  Addresses = {1, 2}
  MaxIds = 2
  Busy = 2
  Turns = 1
SPECIFICATION TunnelSpec
INVARIANTS
  DetachedIsGone
CHECK_DEADLOCK FALSE
