SPECIFICATION Spec
CONSTANTS
  t1 = t1
  t2 = t2
  w1 = w1
  w2 = w2
  NoWallet = NoWallet
  NoTask = NoTask
  Tasks = {t1, t2}
  CheckTasks = {}
  PxeTasks = {t2}
  Wallets = {w1}
  Gpus = {1}
  Faults = {"libvirt"}
  Requests = {"Create", "Delete"}
  GuestEvents = FALSE
  Statuses = {"Rented"}
  ChainEvents = FALSE
  MaxEvents = 1
  MaxCrash = 2
INVARIANTS
  Owned
  PendingCreatesDisjoint
  CleanDelete
PROPERTIES
  NoResurrection
