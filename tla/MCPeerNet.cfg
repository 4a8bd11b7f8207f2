SPECIFICATION FairSpec
CONSTANTS
  e1 = e1
  e2 = e2
  n1 = n1
  n2 = n2
  NoNode = NoNode
  Self = Self
  NoSid = NoSid
  NoEndpoint = NoEndpoint
  Endpoints = {e1, e2}
  Nodes = {n1, n2}
  NodeAt <- NodesByEndpoint
  Seeds = {e1}
  ClientSids = {1, 2}
  ServerSids = {3, 4}
  SidPools <- Pairs
  Requests <- SomeRequests
  Lists <- SomeLists
  MaxCandidates = 2
  MinCandidates = 1
  MaxReconnect = 1
  MaxOut = 1
  MinAvailable = 1
  MaxIn = 0
INVARIANTS
  TypeOK
  
  
  
  ReadyIsPeer
  
 
CHECK_DEADLOCK FALSE
