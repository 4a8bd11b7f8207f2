SPECIFICATION FairSpec
CONSTANTS
  n1 = n1 n2 = n2 n3 = n3 n4 = n4
  start = start list = list
  Nodes = {n1, n2, n3, n4}
  Requests = {start, list}
  Validated = {list}
  ClientOf <- Clients
  TargetOf <- Targets
  Topologies <- Shapes
  MaxSent = 1
  MaxFaults = 1
  MaxUps = 1
INVARIANTS TypeOK WayBack RelayedOnce
PROPERTIES Delivered RemoteCallSpec
CHECK_DEADLOCK FALSE
