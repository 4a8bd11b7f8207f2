SPECIFICATION Spec
CONSTANTS
  t1 = t1
  t2 = t2
  w1 = w1
  w2 = w2
  NoWallet = NoWallet
  NoTask = NoTask
  Tasks = {t1}
  CheckTasks = {}
  PxeTasks = {}
  Wallets = {w1}
  Gpus = {1}
  Faults = {}
  Requests = {"Create", "Restart"}
  GuestEvents = FALSE
  Statuses = {"Rented"}
  ChainEvents = FALSE
  MaxEvents = 1
  MaxCrash = 0
INVARIANTS
  RunningTaskRestarts
