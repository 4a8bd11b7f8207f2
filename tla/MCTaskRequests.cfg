SPECIFICATION Spec
CONSTANTS
  t1 = t1
  t2 = t2
  w1 = w1
  w2 = w2
  NoWallet = NoWallet
  NoTask = NoTask
  Tasks = {t1}
  CheckTasks = {}
  PxeTasks = {}
  Wallets = {w1}
  Gpus = {1}
  Faults = {"libvirt", "network"}
  Requests = {"Create", "Start", "Shutdown", "Poweroff", "Restart", "ForceReboot", "Reset", "Delete"}
  GuestEvents = TRUE
  Statuses = {"Rented", "Online"}
  ChainEvents = FALSE
  MaxEvents = 2
  MaxCrash = 0
INVARIANTS
  TypeOK
  WaitingBacked
  NoDomainStatus
