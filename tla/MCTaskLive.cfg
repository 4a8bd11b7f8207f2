SPECIFICATION FairSpec
CONSTANTS
  t1 = t1
  t2 = t2
  w1 = w1
  w2 = w2
  NoWallet = NoWallet
  NoTask = NoTask
  Tasks = {t1}
  CheckTasks = {}
  PxeTasks = {}
  Wallets = {w1}
  Gpus = {}
  Faults = {"network"}
  Requests = {"Create", "Start"}
  GuestEvents = FALSE
  Statuses = {"Rented", "Online"}
  ChainEvents = TRUE
  MaxEvents = 1
  MaxCrash = 0
PROPERTIES
  TaskSettles
  RentOver
