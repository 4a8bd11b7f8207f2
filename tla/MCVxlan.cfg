SPECIFICATION FairSpec
CONSTANTS
  n1 = n1 n2 = n2 n3 = n3
  t1 = t1 t2 = t2
  w1 = w1 w2 = w2
  NoRec = NoRec NoTask = NoTask
  Nodes = {n1, n2}
  Tasks = {t1}
  WalletOf <- OneWallet
  MaxVni = 2
  MaxFaults = 1
  MaxInbox = 1
INVARIANTS TypeOK  OwnerKnows
 
CHECK_DEADLOCK FALSE
