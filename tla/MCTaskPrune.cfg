SPECIFICATION Spec
CONSTANTS
  t1 = t1
  t2 = t2
  w1 = w1
  w2 = w2
  NoWallet = NoWallet
  NoTask = NoTask
  Tasks = {t2}
  CheckTasks = {t2}
  PxeTasks = {}
  Wallets = {w1, w2}
  Gpus = {}
  Faults = {"chain"}
  Requests = {"Create", "Poweroff"}
  GuestEvents = FALSE
  Statuses = {"Verify", "Rented", "Online"}
  ChainEvents = TRUE
  MaxEvents = 1
  MaxCrash = 0
INVARIANTS
  CleanDelete
