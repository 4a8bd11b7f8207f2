-------------------------- MODULE TaskStatusProofs --------------------------
(***************************************************************************)
(* More proofs about TaskManager, on top of its types and the ownership of *)
(* tasks: a status that announces an outcome is owed one, a task without a *)
(* domain shows it, no GPU is given to two tasks that wait to be created,  *)
(* and a deleted task leaves nothing behind.  They hold for any tasks,     *)
(* wallets and GPUs, any faults and any number of crashes.                 *)
(***************************************************************************)
EXTENDS TaskManagerProofs

USE TaskSets, NoTaskAssumption, NoWalletAssumption, StatusesAssumption, BoundsAssumption
USE DEF vmVars, mgrVars, procVars, dbVars, svcVars, envVars

Queued(e) == \E i \in DOMAIN events : events[i] = e

\* The places of the process thread at which it has an event in hand.
Handlers == {"vm", "vm2", "net", "undo", "finish"}
AtWork   == Handlers \cup {"job"}

-----------------------------------------------------------------------------
(***************************************************************************)
(* The steps, sorted by what they do to the tasks.  Most of them only move *)
(* a thread on: they are quiet.                                            *)
(***************************************************************************)

\* No task changes, and a thread other than the process thread may take up
\* the deletion or the closing of a task.
Quiet ==
  /\ UNCHANGED <<info, taskDb, dom, gpus, rent, ipt, rules, events, procEv, procOk, svcNew, raced>>
  /\ procPc' = procPc \/ (procPc \notin AtWork /\ procPc' \notin AtWork)
  /\ svcPc' = "create" <=> svcPc = "create"
  /\ \A th \in Threads :
       \/ jobs'[th] = jobs[th]
       \/ th # "P" /\ jobs[th] = NoJob /\ jobs'[th].op \in {"delete.vm", "close.vm"}

\* A handler calls libvirt.  Only the one that creates the domain can turn
\* a task without one into a task with one, and it is the only one whose
\* success the status Creating waits for.
Creates(r, pc) ==
  /\ procPc = "vm" /\ procEv.type = "Create" /\ pc # "vm2"
  /\ r[2] => r[1] # "ABSENT"

Keeps(r, pc) ==
  /\ r[1] = "ABSENT" <=> dom[procEv.task] = "ABSENT"
  /\ procPc = "vm2" \/ procEv.type # "Create" \/ (procPc = "undo" /\ r[2] = FALSE)
  /\ pc = "vm2" => procEv.type # "Create"

Calls(r, pc) ==
  /\ Busy /\ pc \in {"vm2", "net", "undo", "finish"}
  /\ VmCall(r, pc)
  /\ Creates(r, pc) \/ Keeps(r, pc)

\* process_restart_task finds the domain neither running nor shut off.
RestartSkipped ==
  /\ Handler({"Restart"})
  /\ procPc' = "update" /\ procEv' = NoEvent
  /\ UNCHANGED <<info, dom, mgrVars, events, procOk, toWrite, dbVars, svcVars, jobs, prune,
                 envVars, raced>>

\* What libvirt does to a domain that is not there, and to one that is.
LEMMA OutcomesKeep ==
  ASSUME TypeInv, NEW t \in Tasks
  PROVE  \A r \in StartDomain(t) \cup DestroyDomain(t) \cup RebootDomain(t) \cup ResetDomain(t) :
           r[1] = "ABSENT" <=> dom[t] = "ABSENT"
  <1>1. dom[t] \in {"ABSENT", "SHUTOFF", "RUNNING", "PMSUSPENDED"}
    BY DEF TypeInv, TypeOK, DomainState
  <1>2. \A d : <<d, TRUE>>[1] = d /\ <<d, FALSE>>[1] = d
    OBVIOUS
  <1>3. \A r \in StartDomain(t) : r[1] = "ABSENT" <=> dom[t] = "ABSENT"
    <2>1. CASE dom[t] = "ABSENT"
      BY <1>2, <2>1, Zenon DEF StartDomain
    <2>2. CASE dom[t] = "RUNNING"
      <3>1. StartDomain(t) = {<<"RUNNING", TRUE>>}
        BY <2>2 DEF StartDomain
      <3> QED BY <1>2, <2>2, <3>1
    <2>3. CASE dom[t] \in {"SHUTOFF", "PMSUSPENDED"}
      <3>1. StartDomain(t) \subseteq {<<"RUNNING", TRUE>>, <<dom[t], FALSE>>}
        BY <2>3 DEF StartDomain
      <3> QED BY <1>2, <2>3, <3>1
    <2> QED BY <1>1, <2>1, <2>2, <2>3
  <1>4. \A r \in DestroyDomain(t) : r[1] = "ABSENT" <=> dom[t] = "ABSENT"
    <2>1. CASE dom[t] = "ABSENT"
      BY <1>2, <2>1, Zenon DEF DestroyDomain
    <2>2. CASE dom[t] = "SHUTOFF"
      <3>1. DestroyDomain(t) = {<<"SHUTOFF", TRUE>>}
        BY <2>2 DEF DestroyDomain
      <3> QED BY <1>2, <2>2, <3>1
    <2>3. CASE dom[t] \in {"RUNNING", "PMSUSPENDED"}
      <3>1. DestroyDomain(t) \subseteq {<<"SHUTOFF", TRUE>>, <<dom[t], FALSE>>}
        BY <2>3 DEF DestroyDomain
      <3> QED BY <1>2, <2>3, <3>1
    <2> QED BY <1>1, <2>1, <2>2, <2>3
  <1>5. \A r \in RebootDomain(t) \cup ResetDomain(t) : r[1] = dom[t]
    <2>1. RebootDomain(t) \subseteq {<<dom[t], TRUE>>, <<dom[t], FALSE>>}
      BY DEF RebootDomain
    <2>2. ResetDomain(t) \subseteq {<<dom[t], TRUE>>, <<dom[t], FALSE>>}
      BY Zenon DEF ResetDomain
    <2> QED BY <1>2, <2>1, <2>2
  <1> QED BY <1>3, <1>4, <1>5

\* The handlers' calls.
LEMMA HandlerCalls ==
  ASSUME TypeInv,
         \/ ProcessCreate \/ ProcessStart \/ ProcessStop \/ ProcessRestart \/ ProcessForceReboot
         \/ ForceRebootStart \/ ProcessReset \/ ProcessUndo
  PROVE  RestartSkipped \/ \E r, pc : Calls(r, pc)
  <1>t. PICK t : t = procEv.task
    OBVIOUS
  <1>0. Busy /\ t \in Tasks
    <2>1. Busy
      BY DEF ProcessCreate, ProcessStart, ProcessStop, ProcessRestart, ProcessForceReboot,
             ForceRebootStart, ProcessReset, ProcessUndo, Handler, Busy
    <2> QED BY <1>t, <2>1 DEF TypeInv, Locals
  <1>1. CASE ProcessCreate
    <2>1. PICK r \in CreateDomain(t) : VmCall(r, IF r[2] /\ t \notin PxeTasks THEN "net" ELSE "finish")
      BY <1>1, <1>t DEF ProcessCreate
    <2>2. PICK pc \in {"net", "finish"} : VmCall(r, pc)
      BY <2>1
    <2>3. r[2] => r[1] # "ABSENT"
      <3>1. r = <<"RUNNING", TRUE>> \/ r = <<"SHUTOFF", FALSE>> \/ r = <<"ABSENT", FALSE>>
        BY <2>1, Zenon DEF CreateDomain
      <3>2. r[1] = "RUNNING" \/ r[1] = "SHUTOFF" \/ ~r[2]
        <4>1. CASE r = <<"RUNNING", TRUE>>
          BY <4>1
        <4>2. CASE r = <<"SHUTOFF", FALSE>>
          BY <4>2
        <4>3. CASE r = <<"ABSENT", FALSE>>
          BY <4>3
        <4> QED BY <3>1, <4>1, <4>2, <4>3, Zenon
      <3> QED BY <3>2
    <2>4. Creates(r, pc)
      BY <1>1, <2>2, <2>3 DEF Creates, ProcessCreate, Handler
    <2>5. Calls(r, pc)
      BY <1>0, <2>2, <2>4 DEF Calls
    <2> QED BY <2>5
  <1>2. ASSUME NEW r \in StartDomain(t) \cup DestroyDomain(t) \cup RebootDomain(t) \cup ResetDomain(t),
               NEW pc \in {"vm2", "net", "undo", "finish"}, VmCall(r, pc),
               procPc = "vm2" \/ procEv.type # "Create", pc = "vm2" => procEv.type # "Create"
        PROVE  Calls(r, pc)
    <2>1. Keeps(r, pc)
      BY <1>0, <1>2, <1>t, OutcomesKeep DEF Keeps
    <2> QED BY <1>0, <1>2, <2>1 DEF Calls
  <1>3. CASE ProcessStart
    <2>1. PICK r \in StartDomain(t), pc \in {"net", "finish"} : VmCall(r, pc)
      BY <1>3, <1>t DEF ProcessStart
    <2> QED BY <1>2, <1>3, <2>1 DEF ProcessStart, Handler
  <1>4. CASE ProcessStop
    <2>1. PICK r \in DestroyDomain(t) : VmCall(r, "finish")
      BY <1>4, <1>t DEF ProcessStop
    <2> QED BY <1>2, <1>4, <2>1 DEF ProcessStop, Handler
  <1>5. CASE ProcessRestart
    <2>1. CASE \E r \in StartDomain(t) \cup RebootDomain(t) : VmCall(r, "finish")
      BY <1>2, <1>5, <2>1 DEF ProcessRestart, Handler
    <2>2. CASE RestartSkipped
      BY <2>2
    <2> QED BY <1>5, <1>t, <2>1, <2>2 DEF ProcessRestart, RestartSkipped
  <1>6. CASE ProcessForceReboot
    <2>1. PICK r \in StartDomain(t) \cup DestroyDomain(t), pc \in {"vm2", "finish"} : VmCall(r, pc)
      BY <1>6, <1>t DEF ProcessForceReboot
    <2> QED BY <1>2, <1>6, <2>1 DEF ProcessForceReboot, Handler
  <1>7. CASE ForceRebootStart
    <2>1. PICK r \in StartDomain(t) : VmCall(r, "finish")
      BY <1>7, <1>t DEF ForceRebootStart
    <2> QED BY <1>2, <1>7, <2>1 DEF ForceRebootStart
  <1>8. CASE ProcessReset
    <2>1. PICK r \in ResetDomain(t) : VmCall(r, "finish")
      BY <1>8, <1>t DEF ProcessReset
    <2> QED BY <1>2, <1>8, <2>1 DEF ProcessReset, Handler
  <1>9. CASE ProcessUndo
    <2>1. PICK q \in DestroyDomain(t) : VmCall(<<q[1], FALSE>>, "finish")
      BY <1>9, <1>t DEF ProcessUndo
    <2>2. PICK r : r = <<q[1], FALSE>>
      OBVIOUS
    <2>3. r[1] = "ABSENT" <=> dom[t] = "ABSENT"
      BY <1>0, <2>1, <2>2, OutcomesKeep
    <2>4. Keeps(r, "finish")
      BY <1>9, <1>t, <2>2, <2>3 DEF Keeps, ProcessUndo
    <2>5. Calls(r, "finish")
      BY <1>0, <2>1, <2>2, <2>4 DEF Calls
    <2> QED BY <2>5
  <1> QED BY <1>1, <1>3, <1>4, <1>5, <1>6, <1>7, <1>8, <1>9

\* Every step is of one of these kinds.
LEMMA StepKinds ==
  ASSUME TypeInv, [Next]_vars
  PROVE  \/ Quiet
         \/ \E t \in Tasks, n \in 0 .. Cardinality(Gpus) : CreateTask(t, n)
         \/ CreateTaskRecords
         \/ \E t \in Tasks, type \in EventType \ {"Create"} : Request(type, t)
         \/ \E t \in Tasks : QueryTaskStatus(t)
         \/ \E th \in Threads : DeleteVm(th) \/ DeleteInfo(th) \/ DeleteRest(th)
         \/ CloseVm("R") \/ CloseRecord("R")
         \/ PopEvent
         \/ \E r, pc : Calls(r, pc)
         \/ RestartSkipped \/ ProcessNetwork \/ ProcessFinish \/ ProcessDeleted
         \/ \E t \in Tasks, d \in {"SHUTOFF", "PMSUSPENDED"} : GuestStop(t, d)
         \/ \E host \in BOOLEAN : Crash(host)
  <1>0. /\ \A t \in Tasks : Job("delete.vm", t).op = "delete.vm" /\ Job("close.vm", t).op = "close.vm"
        /\ jobs \in [Threads -> [op : JobOp, task : Tasks \cup {NoTask}]]
    BY DEF Job, TypeInv, TypeOK
  <1>1. CASE UNCHANGED vars
    BY <1>1 DEF vars, Quiet
  <1>2. ASSUME NEW w \in Wallets, CheckAuthority(w) PROVE Quiet
    BY <1>2 DEF CheckAuthority, Quiet
  <1>3. ASSUME NEW t \in Tasks, DeleteCheckTask(t) PROVE Quiet
    <2>1. jobs'["S"] = Job("delete.vm", t) /\ \A x \in Threads \ {"S"} : jobs'[x] = jobs[x]
      BY <1>3, JobValue DEF DeleteCheckTask, Threads
    <2> QED BY <1>0, <1>3, <2>1 DEF DeleteCheckTask, Quiet
  <1>4. CASE Authorised \/ RequestDone
    BY <1>4 DEF Authorised, RequestDone, Quiet
  <1>5. ASSUME NEW t \in Tasks,
               \/ StartTask(t) \/ ShutdownTask(t) \/ PoweroffTask(t)
               \/ ResetTask(t) \/ DeleteTask(t)
               \/ \E force \in BOOLEAN : RestartTask(t, force)
        PROVE  \E type \in EventType \ {"Create"} : Request(type, t)
    BY <1>5 DEF StartTask, ShutdownTask, PoweroffTask, ResetTask, DeleteTask, RestartTask,
                EventType
  <1>6. CASE UpdateRunningTasks \/ RunningDbClear \/ RunningDbWrite
    BY <1>6 DEF UpdateRunningTasks, RunningDbClear, RunningDbWrite, Quiet, AtWork, Handlers
  <1>7. ASSUME NEW t \in Tasks, PruneTask(t) PROVE Quiet
    <2>1. PICK op \in {"delete.vm", "close.vm"} : jobs' = [jobs EXCEPT !["R"] = Job(op, t)]
      BY <1>7 DEF PruneTask
    <2>2. jobs'["R"] = Job(op, t) /\ \A x \in Threads \ {"R"} : jobs'[x] = jobs[x]
      BY <2>1, JobValue DEF Threads
    <2> QED BY <1>0, <1>7, <2>2 DEF PruneTask, Quiet
  <1>8. CASE PruneBegin \/ PruneRenter \/ PruneNextPhase \/ PruneEnd \/ (\E w \in Wallets : PruneWallet(w))
    BY <1>8 DEF PruneBegin, PruneRenter, PruneNextPhase, PruneEnd, PruneWallet, Quiet
  <1>9. CASE ChainChange
    BY <1>9 DEF ChainChange, Quiet
  <1>10. CASE ServiceNext
    BY <1>2, <1>3, <1>4, <1>5, <1>10 DEF ServiceNext
  <1>11. CASE ProcessNext
    BY <1>6, <1>11, HandlerCalls DEF ProcessNext
  <1>12. CASE PruneNext
    BY <1>7, <1>8, <1>12 DEF PruneNext
  <1>13. CASE Environment
    BY <1>9, <1>13 DEF Environment
  <1> QED BY <1>1, <1>10, <1>11, <1>12, <1>13 DEF Next, DeleteStep

\* An event is queued at the end and taken from the front.
LEMMA QueuedPush ==
  ASSUME NEW type \in EventType, NEW t \in Tasks, events \in Seq(Event), Push(type, t)
  PROVE  \A e : Queued(e)' <=> Queued(e) \/ e = [type |-> type, task |-> t]
  <1>1. PICK new : new = [type |-> type, task |-> t]
    OBVIOUS
  <1>2. new \in Event /\ events' = Append(events, new)
    BY <1>1 DEF Push, Event
  <1>3. /\ Len(events) \in Nat /\ DOMAIN events = 1 .. Len(events)
        /\ DOMAIN events' = 1 .. Len(events) + 1
        /\ \A i \in 1 .. Len(events) : events'[i] = events[i]
        /\ events'[Len(events) + 1] = new
    BY <1>2
  <1>4. \A i \in DOMAIN events' : i \in DOMAIN events \/ i = Len(events) + 1
    BY <1>3
  <1>5. DOMAIN events \subseteq DOMAIN events' /\ Len(events) + 1 \in DOMAIN events'
    BY <1>3
  <1> QED BY <1>1, <1>3, <1>4, <1>5 DEF Queued

LEMMA QueuedPop ==
  ASSUME events \in Seq(Event), events # <<>>, events' = Tail(events)
  PROVE  /\ Head(events) \in Event /\ Queued(Head(events))
         /\ \A e : Queued(e)' => Queued(e)
         /\ \A e : Queued(e) => Queued(e)' \/ e = Head(events)
  <1>1. Len(events) \in Nat /\ DOMAIN events = 1 .. Len(events) /\ Len(events) # 0
    BY EmptySeq, LenProperties
  <1>2. events' \in Seq(Event) /\ Head(events) \in Event /\ Len(events') = Len(events) - 1
    BY HeadTailProperties
  <1>3. DOMAIN events' = 1 .. Len(events')
    BY <1>2, LenProperties
  <1>4. \A i \in DOMAIN events' : i + 1 \in DOMAIN events /\ events'[i] = events[i + 1]
    BY <1>1, <1>2, <1>3, HeadTailProperties
  <1>5. 1 \in DOMAIN events /\ Head(events) = events[1]
    BY <1>1
  <1>6. \A i \in DOMAIN events : i = 1 \/ (i - 1 \in DOMAIN events' /\ events'[i - 1] = events[i])
    <2> SUFFICES ASSUME NEW i \in DOMAIN events, i # 1
                 PROVE  i - 1 \in DOMAIN events' /\ events'[i - 1] = events[i]
      OBVIOUS
    <2>1. i - 1 \in DOMAIN events' /\ (i - 1) + 1 = i
      BY <1>1, <1>2, <1>3
    <2> QED BY <1>4, <2>1
  <1>7. Queued(Head(events))
    BY <1>5, Zenon DEF Queued
  <1>8. \A e : Queued(e)' => Queued(e)
    BY <1>4 DEF Queued
  <1>9. \A e : Queued(e) => Queued(e)' \/ e = Head(events)
    BY <1>5, <1>6 DEF Queued
  <1> QED BY <1>2, <1>7, <1>8, <1>9

-----------------------------------------------------------------------------
(***************************************************************************)
(* A status that announces an outcome is owed one.  WaitingBacked needs to *)
(* know, of process_delete_task, that the task is gone when delete_task    *)
(* returns: whoever deleted it first.                                      *)
(***************************************************************************)

\* The event that settles the status s of a task is queued, in hand, or
\* about to be queued by createTask.
Backed(t, s) ==
  \/ \E e \in Event : Queued(e) /\ e.task = t /\ Awaited[e.type] = s
  \/ procPc \in AtWork /\ procEv.task = t /\ Awaited[procEv.type] = s
  \/ Adding(t)

Owed == \A t \in Tasks, s \in Waiting \ {"Restarting"} : info[t] = s => Backed(t, s)

DeleteJob ==
  procPc = "job" =>
    /\ procEv \in Event /\ procEv.type = "Delete"
    /\ \/ jobs["P"].op = "none" /\ info[procEv.task] = "absent"
       \/ jobs["P"].op \in Deletes /\ jobs["P"].task = procEv.task

NoDeleteJob == procPc # "job" => jobs["P"].op = "none"

WaitInv == Owed /\ DeleteJob /\ NoDeleteJob

\* Owed is WaitingBacked, with the queued event named.
LEMMA OwedBacked == TypeInv /\ Owed => WaitingBacked
  <1> SUFFICES ASSUME TypeInv, Owed, NEW t \in Tasks, info[t] \in Waiting \ {"Restarting"}
               PROVE  \/ \E i \in DOMAIN events :
                           events[i].task = t /\ Awaited[events[i].type] = info[t]
                      \/ /\ procPc \in {"vm", "vm2", "net", "undo", "finish", "job"}
                         /\ procEv.task = t /\ Awaited[procEv.type] = info[t]
                      \/ svcPc = "create" /\ svcNew.task = t
    BY DEF WaitingBacked
  <1>1. PICK s \in Waiting \ {"Restarting"} : s = info[t]
    OBVIOUS
  <1>2. Backed(t, s)
    BY <1>1 DEF Owed
  <1> QED BY <1>1, <1>2 DEF Backed, Queued, Adding, AtWork, Handlers

\* No status waits and no event is handled initially.
LEMMA InitWait == Init => WaitInv
  BY DEF Init, WaitInv, Owed, DeleteJob, NoDeleteJob, Waiting, Threads, NoJob

\* A step that neither queues nor takes an event, keeps the handler that is
\* at work, and gives no task a status that waits.
LEMMA WaitFrame ==
  ASSUME WaitInv, UNCHANGED <<events, procEv>>,
         \A t \in Tasks : info'[t] = info[t] \/ info'[t] \notin Waiting,
         \A t \in Tasks : info[t] = "absent" => info'[t] = "absent",
         procPc \in Handlers => procPc' \in Handlers,
         procPc = "job" => procPc' = "job",
         procPc' = "job" => procPc = "job",
         jobs'["P"] = jobs["P"],
         \A t \in Tasks : Adding(t) => Adding(t)'
  PROVE  WaitInv'
  <1>1. \A t \in Tasks, s \in Waiting : Backed(t, s) => Backed(t, s)'
    BY DEF Backed, Queued, AtWork
  <1>2. Owed'
    BY <1>1 DEF WaitInv, Owed
  <1>3. DeleteJob'
    BY DEF WaitInv, DeleteJob, Event
  <1>4. NoDeleteJob'
    BY DEF WaitInv, NoDeleteJob
  <1> QED BY <1>2, <1>3, <1>4 DEF WaitInv

\* The status of a task after a crash is settled, or the task is gone.
LEMMA CrashSettles ==
  ASSUME TypeInv, NEW host \in BOOLEAN, Crash(host), NEW t \in Tasks
  PROVE  info'[t] \in Settled \cup {"unborn", "absent"}
  <1>1. CASE t \notin Loaded
    BY <1>1, CrashStatus
  <1>2. CASE t \in Loaded
    <2> DEFINE off == IF host /\ dom[t] \in Active THEN "SHUTOFF" ELSE dom[t]
    <2>1. StatusOf[off] \in Settled
      <3>1. off \in DomainState \ {"ABSENT"}
        BY <1>2 DEF Loaded, TypeInv, TypeOK, DomainState
      <3> QED BY <3>1, StatusOfSettled
    <2>2. "Running" \in Settled
      BY DEF Settled
    <2> HIDE DEF off
    <2>3. info'[t] = CASE t \in runDb \cap Loaded -> "Running"
                       [] t \in Loaded \ (runDb \cap Loaded) -> StatusOf[off]
                       [] t \notin Loaded /\ info[t] = "unborn" -> "unborn"
                       [] OTHER -> "absent"
      BY DEF Crash, off
    <2>4. CASE t \in runDb
      BY <1>2, <2>2, <2>3, <2>4
    <2>5. CASE t \notin runDb
      BY <1>2, <2>1, <2>3, <2>5
    <2> QED BY <2>4, <2>5
  <1> QED BY <1>1, <1>2

\* delete_task in any thread.
LEMMA DeleteWait ==
  ASSUME TypeInv, OwnInv, WaitInv, NEW th \in Threads,
         DeleteVm(th) \/ DeleteInfo(th) \/ DeleteRest(th)
  PROVE  WaitInv'
  <1>t. PICK t : t = jobs[th].task
    OBVIOUS
  <1>0. "absent" \notin Waiting /\ "absent" \notin Known
    BY DEF Waiting, Known, Settled
  <1>1. t \in Tasks /\ info[t] # "unborn"
    <2>1. t \in Tasks
      BY <1>t DEF DeleteVm, DeleteInfo, DeleteRest, TypeInv, Locals
    <2> QED BY <1>t, <2>1 DEF OwnInv, Fresh, Untouched
  <1>2. /\ UNCHANGED <<events, procEv, procPc, svcPc, svcNew>>
        /\ \A u \in Tasks : info'[u] = info[u] \/ info'[u] = "absent"
    BY <1>1, <1>t DEF DeleteVm, DeleteInfo, DeleteRest, TypeInv, TypeOK
  <1>3. \A u \in Tasks, s \in Waiting : Backed(u, s) => Backed(u, s)'
    BY <1>2 DEF Backed, Queued, Adding
  <1>4. Owed'
    BY <1>0, <1>2, <1>3 DEF WaitInv, Owed
  <1>5. DeleteJob'
    <2>1. CASE th # "P"
      <3>1. jobs'["P"] = jobs["P"]
        BY <2>1, JobValue DEF DeleteVm, DeleteInfo, DeleteRest, Threads
      <3> QED BY <1>2, <3>1 DEF WaitInv, DeleteJob, Event
    <2>2. CASE th = "P"
      <3> SUFFICES ASSUME procPc = "job"
                   PROVE  /\ procEv \in Event /\ procEv.type = "Delete"
                          /\ \/ jobs'["P"].op = "none" /\ info'[procEv.task] = "absent"
                             \/ jobs'["P"].op \in Deletes /\ jobs'["P"].task = procEv.task
        BY <1>2 DEF DeleteJob
      <3>1. procEv \in Event /\ procEv.type = "Delete" /\ procEv.task = t
        BY <1>t, <2>2 DEF WaitInv, DeleteJob, DeleteVm, DeleteInfo, DeleteRest
      <3>2. NoJob.op = "none" /\ \A op \in Deletes : Job(op, t).op = op /\ Job(op, t).task = t
        BY DEF NoJob, Job
      <3>3. \/ \E op \in Deletes : jobs' = [jobs EXCEPT !["P"] = Job(op, t)]
            \/ jobs' = [jobs EXCEPT !["P"] = NoJob] /\ info'[t] = "absent"
        <4>1. CASE DeleteVm("P")
          BY <1>t, <2>2, <4>1 DEF DeleteVm, Deletes
        <4>2. CASE DeleteInfo("P")
          <5>1. CASE Exists(t)
            BY <1>t, <2>2, <4>2, <5>1 DEF DeleteInfo, Deletes
          <5>2. CASE ~Exists(t)
            <6>1. info[t] = "absent"
              BY <1>1, <5>2 DEF Exists, TypeInv, TypeOK, Gone
            <6> QED BY <1>t, <2>2, <4>2, <5>2, <6>1 DEF DeleteInfo
          <5> QED BY <5>1, <5>2
        <4>3. CASE DeleteRest("P")
          BY <1>t, <2>2, <4>3 DEF DeleteRest, OwnInv, RestGone
        <4> QED BY <2>2, <4>1, <4>2, <4>3
      <3>4. CASE jobs' = [jobs EXCEPT !["P"] = NoJob] /\ info'[t] = "absent"
        <4>1. jobs'["P"] = NoJob
          BY <3>4, JobValue DEF Threads
        <4> QED BY <3>1, <3>2, <3>4, <4>1
      <3>5. ASSUME NEW op \in Deletes, jobs' = [jobs EXCEPT !["P"] = Job(op, t)]
            PROVE  jobs'["P"].op \in Deletes /\ jobs'["P"].task = t
        <4>1. jobs'["P"] = Job(op, t)
          BY <3>5, JobValue DEF Threads
        <4> QED BY <3>2, <4>1
      <3> QED BY <3>1, <3>3, <3>4, <3>5
    <2> QED BY <2>1, <2>2
  <1>6. NoDeleteJob'
    <2>1. CASE procPc = "job"
      BY <1>2, <2>1 DEF NoDeleteJob
    <2>2. CASE procPc # "job"
      <3>1. th # "P"
        BY <2>2 DEF WaitInv, NoDeleteJob, DeleteVm, DeleteInfo, DeleteRest
      <3>2. jobs'["P"] = jobs["P"]
        BY <3>1, JobValue DEF DeleteVm, DeleteInfo, DeleteRest, Threads
      <3> QED BY <1>2, <3>2 DEF WaitInv, NoDeleteJob
    <2> QED BY <2>1, <2>2
  <1> QED BY <1>4, <1>5, <1>6 DEF WaitInv

\* Every step keeps what is owed.
LEMMA NextWait == TypeInv /\ OwnInv /\ WaitInv /\ [Next]_vars => WaitInv'
  <1> SUFFICES ASSUME TypeInv, OwnInv, WaitInv, [Next]_vars PROVE WaitInv'
    OBVIOUS
  <1>0. /\ {"unborn", "absent", "Shutoff"} \cap Waiting = {} /\ Settled \cap Waiting = {}
        /\ \A t \in Tasks : info[t] = "absent" => info'[t] = "absent"
    BY AbsentStays DEF Waiting, Settled
  <1>1. CASE Quiet
    <2>1. jobs'["P"] = jobs["P"]
      BY <1>1 DEF Quiet, Threads
    <2> QED BY <1>0, <1>1, <2>1, WaitFrame DEF Quiet, AtWork, Handlers, Adding
  <1>2. ASSUME NEW t \in Tasks, NEW n, CreateTask(t, n) PROVE WaitInv'
    <2>1. /\ UNCHANGED <<events, procPc, procEv, jobs>> /\ Adding(t)'
          /\ \A u \in Tasks : ~Adding(u)
          /\ \A u \in Tasks \ {t} : info'[u] = info[u]
      BY <1>2 DEF CreateTask, Adding, TypeInv, TypeOK
    <2>2. \A u \in Tasks, s \in Waiting : Backed(u, s) => Backed(u, s)'
      BY <2>1 DEF Backed, Queued
    <2>3. Owed'
      BY <2>1, <2>2 DEF WaitInv, Owed, Backed
    <2>4. DeleteJob'
      BY <1>0, <2>1 DEF WaitInv, DeleteJob, Event
    <2> QED BY <2>1, <2>3, <2>4 DEF WaitInv, NoDeleteJob
  <1>3. CASE CreateTaskRecords
    <2>t. PICK t : t = svcNew.task
      OBVIOUS
    <2>1. t \in Tasks /\ Adding(t) /\ info[t] = "Creating"
      BY <1>3, <2>t DEF CreateTaskRecords, Adding, TypeInv, Locals, OwnInv, OnDisk
    <2>2. UNCHANGED <<info, procPc, procEv, jobs>> /\ Push("Create", t)
      BY <1>3, <2>t DEF CreateTaskRecords
    <2>3. \A e : Queued(e)' <=> Queued(e) \/ e = [type |-> "Create", task |-> t]
      BY <2>1, <2>2, QueuedPush DEF TypeInv, TypeOK, EventType
    <2>4. \A u \in Tasks \ {t} : ~Adding(u)
      BY <2>t DEF Adding
    <2>5. \A u \in Tasks \ {t}, s \in Waiting : Backed(u, s) => Backed(u, s)'
      BY <2>2, <2>3, <2>4 DEF Backed
    <2>6. Backed(t, "Creating")'
      <3>1. PICK e \in Event : e = [type |-> "Create", task |-> t]
        BY <2>1 DEF Event, EventType
      <3>2. Queued(e)' /\ e.task = t /\ Awaited[e.type] = "Creating"
        BY <2>3, <3>1 DEF Awaited
      <3> QED BY <3>2 DEF Backed
    <2>7. Owed'
      BY <2>1, <2>2, <2>5, <2>6 DEF WaitInv, Owed
    <2>8. DeleteJob'
      BY <2>2 DEF WaitInv, DeleteJob, Event
    <2> QED BY <2>2, <2>7, <2>8 DEF WaitInv, NoDeleteJob
  <1>4. ASSUME NEW t \in Tasks, NEW type \in EventType, Request(type, t) PROVE WaitInv'
    <2>1. /\ UNCHANGED <<procPc, procEv, jobs>> /\ Push(type, t)
          /\ info'[t] = Awaited[type] /\ \A u \in Tasks \ {t} : info'[u] = info[u]
          /\ \A u \in Tasks : ~Adding(u)
      BY <1>4 DEF Request, Adding, TypeInv, TypeOK
    <2>2. \A e : Queued(e)' <=> Queued(e) \/ e = [type |-> type, task |-> t]
      BY <2>1, QueuedPush DEF TypeInv, TypeOK
    <2>3. \A u \in Tasks, s \in Waiting : Backed(u, s) => Backed(u, s)'
      BY <2>1, <2>2 DEF Backed
    <2>4. \A s : s = Awaited[type] => Backed(t, s)'
      <3>1. PICK e \in Event : e = [type |-> type, task |-> t]
        BY DEF Event
      <3>2. Queued(e)' /\ e.task = t /\ Awaited[e.type] = Awaited[type]
        BY <2>2, <3>1
      <3> QED BY <3>2 DEF Backed
    <2>5. Owed'
      BY <2>1, <2>3, <2>4 DEF WaitInv, Owed
    <2>6. DeleteJob'
      BY <1>0, <2>1 DEF WaitInv, DeleteJob, Event
    <2> QED BY <2>1, <2>5, <2>6 DEF WaitInv, NoDeleteJob
  <1>5. ASSUME NEW t \in Tasks, QueryTaskStatus(t) PROVE WaitInv'
    <2>1. StatusOf[dom[t]] \notin Waiting
      BY <1>0, <1>5, StatusOfSettled DEF QueryTaskStatus, TypeInv, TypeOK
    <2>2. \A u \in Tasks : info'[u] = info[u] \/ info'[u] \notin Waiting
      BY <1>5, <2>1 DEF QueryTaskStatus, TypeInv, TypeOK
    <2> QED BY <1>0, <1>5, <2>2, WaitFrame DEF QueryTaskStatus, Adding
  <1>6. CASE CloseVm("R") \/ CloseRecord("R")
    <2>1. jobs'["P"] = jobs["P"]
      BY <1>6, JobValue DEF CloseVm, CloseRecord, Threads
    <2>2. \A u \in Tasks : info'[u] = info[u] \/ info'[u] \notin Waiting
      BY <1>0, <1>6 DEF CloseVm, CloseRecord, TypeInv, TypeOK
    <2>3. UNCHANGED <<events, procEv, procPc, svcPc, svcNew>>
      BY <1>6 DEF CloseVm, CloseRecord
    <2> QED BY <1>0, <2>1, <2>2, <2>3, WaitFrame DEF Adding
  <1>7. CASE PopEvent
    <2>e. PICK ev : ev = Head(events)
      OBVIOUS
    <2>1. procPc = "idle" /\ events \in Seq(Event) /\ events # <<>> /\ events' = Tail(events)
      BY <1>7 DEF PopEvent, TypeInv, TypeOK
    <2>2. ev \in Event /\ \A e : Queued(e) => Queued(e)' \/ e = ev
      BY <2>e, <2>1, QueuedPop
    <2>3. /\ UNCHANGED <<info, svcPc, svcNew>>
          /\ \/ info[ev.task] \notin Known /\ procPc' = "update" /\ procEv' = NoEvent /\ UNCHANGED jobs
             \/ procEv' = ev /\ procPc' = "vm" /\ UNCHANGED jobs
             \/ /\ procEv' = ev /\ procPc' = "job" /\ ev.type = "Delete"
                /\ jobs' = [jobs EXCEPT !["P"] = Job("delete.vm", ev.task)]
      BY <1>7, <2>e DEF PopEvent, Exists
    <2>4. \A u \in Tasks, s \in Waiting : info[u] = s /\ Backed(u, s) => Backed(u, s)'
      BY <2>1, <2>2, <2>3 DEF Backed, Adding, AtWork, Handlers, Known
    <2>5. Owed'
      BY <2>3, <2>4 DEF WaitInv, Owed
    <2>6. CASE procPc' = "job" /\ jobs' = [jobs EXCEPT !["P"] = Job("delete.vm", ev.task)]
      <3>1. jobs'["P"] = Job("delete.vm", ev.task)
        BY <2>6, JobValue DEF Threads
      <3>2. jobs'["P"].op \in Deletes /\ jobs'["P"].task = ev.task
        BY <3>1 DEF Job, Deletes
      <3>3. DeleteJob'
        BY <2>2, <2>3, <3>2 DEF DeleteJob
      <3>4. NoDeleteJob'
        BY <2>6 DEF NoDeleteJob
      <3> QED BY <2>5, <3>3, <3>4 DEF WaitInv
    <2>7. CASE procPc' # "job"
      BY <2>1, <2>3, <2>5, <2>7 DEF WaitInv, DeleteJob, NoDeleteJob
    <2> QED BY <2>3, <2>6, <2>7
  <1>8. ASSUME NEW r, NEW pc, Calls(r, pc) PROVE WaitInv'
    <2>1. procPc \in Handlers /\ procPc' \in Handlers
      BY <1>8 DEF Calls, VmCall, Busy, Handlers
    <2>2. UNCHANGED <<info, events, procEv, jobs, svcPc, svcNew>>
      BY <1>8 DEF Calls, VmCall
    <2> QED BY <2>1, <2>2, WaitFrame DEF Adding, Handlers
  <1>9. CASE ProcessNetwork
    <2>1. procPc \in Handlers /\ procPc' \in Handlers
      BY <1>9 DEF ProcessNetwork, Handlers
    <2>2. UNCHANGED <<info, events, procEv, jobs, svcPc, svcNew>>
      BY <1>9 DEF ProcessNetwork
    <2> QED BY <2>1, <2>2, WaitFrame DEF Adding, Handlers
  <1>10. ASSUME UNCHANGED <<events, svcPc, svcNew, jobs>>, procPc' = "update", jobs["P"].op = "none",
                \A u \in Tasks : info'[u] = info[u] \/ info'[u] \notin Waiting,
                info'[procEv.task] \in Waiting \ {"Restarting"} =>
                  info'[procEv.task] # Awaited[procEv.type]
         PROVE  WaitInv'
    <2>1. \A u \in Tasks, s \in Waiting \ {"Restarting"} :
            info'[u] = s /\ Backed(u, s) => Backed(u, s)'
      BY <1>10 DEF Backed, Queued, Adding
    <2>2. Owed'
      BY <1>10, <2>1 DEF WaitInv, Owed
    <2> QED BY <1>10, <2>2 DEF WaitInv, DeleteJob, NoDeleteJob
  <1>11. CASE RestartSkipped
    <2>1. Awaited[procEv.type] = "Restarting"
      BY <1>11 DEF RestartSkipped, Handler, Awaited
    <2> QED BY <1>10, <1>11, <2>1 DEF RestartSkipped, Handler, WaitInv, NoDeleteJob
  <1>12. CASE ProcessFinish
    <2>1. procEv.task \in Tasks /\ procEv.type \in EventType \ {"Delete"}
      BY <1>12 DEF ProcessFinish, TypeInv, TypeOK, Locals, Busy
    <2>2. Success[procEv.type] \notin Waiting /\ Failure[procEv.type] \notin Waiting
      BY <1>0, <2>1, OutcomeSettled
    <2>3. \/ info[procEv.task] # Awaited[procEv.type] /\ info' = info
          \/ info' = [info EXCEPT ![procEv.task] = Success[procEv.type]]
          \/ info' = [info EXCEPT ![procEv.task] = Failure[procEv.type]]
      BY <1>12 DEF ProcessFinish
    <2>4. /\ \A u \in Tasks : info'[u] = info[u] \/ info'[u] \notin Waiting
          /\ info'[procEv.task] \in Waiting => info'[procEv.task] # Awaited[procEv.type]
      BY <2>1, <2>2, <2>3 DEF TypeInv, TypeOK
    <2> QED BY <1>10, <1>12, <2>4 DEF ProcessFinish, WaitInv, NoDeleteJob
  <1>13. CASE ProcessDeleted
    <2>1. info[procEv.task] = "absent"
      <3>1. jobs["P"].op = "none"
        BY <1>13 DEF ProcessDeleted, NoJob
      <3> QED BY <1>13, <3>1 DEF ProcessDeleted, WaitInv, DeleteJob, Deletes
    <2> QED BY <1>0, <1>10, <1>13, <2>1 DEF ProcessDeleted, NoJob
  <1>14. ASSUME NEW t \in Tasks, NEW d, GuestStop(t, d) PROVE WaitInv'
    BY <1>14, WaitFrame DEF GuestStop, Adding
  <1>15. ASSUME NEW host \in BOOLEAN, Crash(host) PROVE WaitInv'
    <2>1. \A u \in Tasks : info'[u] \notin Waiting
      BY <1>0, <1>15, CrashSettles
    <2>2. procPc' = "idle" /\ jobs'["P"].op = "none"
      BY <1>15 DEF Crash, Threads, NoJob
    <2> QED BY <2>1, <2>2 DEF WaitInv, Owed, DeleteJob, NoDeleteJob
  <1> QED
    BY <1>1, <1>2, <1>3, <1>4, <1>5, <1>6, <1>7, <1>8, <1>9, <1>11, <1>12, <1>13, <1>14, <1>15,
       StepKinds, DeleteWait

\* A status that announces an outcome has the event that will bring it,
\* queued, being handled or about to be queued, for any interleaving of
\* requests, close_task, queries, deletions and crashes: no task waits for
\* an answer that nobody is going to give.
THEOREM WaitingIsBacked == Spec => []WaitingBacked
  <1>1. Init => TypeInv /\ OwnInv /\ WaitInv
    BY InitTypes, InitOwn, InitWait
  <1>2. (TypeInv /\ OwnInv /\ WaitInv) /\ [Next]_vars => (TypeInv /\ OwnInv /\ WaitInv)'
    BY NextTypes, NextOwn, NextWait
  <1>3. TypeInv /\ OwnInv /\ WaitInv => WaitingBacked
    BY OwedBacked DEF WaitInv
  <1> QED BY <1>1, <1>2, <1>3, PTL DEF Spec

-----------------------------------------------------------------------------
(***************************************************************************)
(* Domains.  A task is created once, by one event, and has no domain until *)
(* that event is handled; afterwards only delete_task takes the domain     *)
(* away.  So a task that is known and has no domain while nobody deletes   *)
(* it has had none since it was created, and what would show another       *)
(* status - close_task recording Shutoff, process_create recording         *)
(* Running - acts on tasks that are not of this kind.                      *)
(***************************************************************************)
Unique == \A i, j \in DOMAIN events : events[i] = events[j] /\ events[i].type = "Create" => i = j

HandledOnce == Busy /\ procEv.type = "Create" => ~Queued(procEv)

CreateFirst == \A t \in Tasks : PendingCreate(t) => dom[t] = "ABSENT"

NoVm(t) == Exists(t) /\ dom[t] = "ABSENT" /\ ~InDelete(t)

Closing  == \A th \in Threads, t \in Tasks :
              jobs[th].op = "close.record" /\ jobs[th].task = t => ~NoVm(t)

Creating ==
  /\ procPc = "vm2" => procEv.type # "Create"
  /\ \A t \in Tasks :
       procPc \in {"net", "undo", "finish"} /\ procEv.type = "Create" /\ procOk /\ procEv.task = t
         => ~NoVm(t)

Shown == \A t \in Tasks : NoVm(t) => info[t] \in {"Creating", "CreateTaskError"}

VmInv == Unique /\ HandledOnce /\ CreateFirst /\ Closing /\ Creating /\ Shown

\* No event and no task is there initially.
LEMMA InitVm == Init => VmInv
  <1> SUFFICES ASSUME Init PROVE VmInv
    OBVIOUS
  <1>1. \A t \in Tasks : ~NoVm(t)
    BY DEF Init, NoVm, Exists, Known, Waiting, Settled
  <1>2. DOMAIN events = {} /\ procPc = "idle" /\ \A t \in Tasks : dom[t] = "ABSENT"
    BY DEF Init
  <1> QED
    BY <1>1, <1>2 DEF VmInv, Unique, HandledOnce, CreateFirst, Closing, Creating, Shown, Busy

\* The Create events of a queue stay different from one another.
LEMMA UniquePush ==
  ASSUME NEW type \in EventType, NEW t \in Tasks, events \in Seq(Event), Push(type, t), Unique,
         type = "Create" => ~Queued([type |-> type, task |-> t])
  PROVE  Unique'
  <1>1. PICK new : new = [type |-> type, task |-> t]
    OBVIOUS
  <1>2. new \in Event /\ events' = Append(events, new) /\ new.type = type
    BY <1>1 DEF Push, Event
  <1>3. /\ Len(events) \in Nat /\ DOMAIN events = 1 .. Len(events)
        /\ \A i \in 1 .. Len(events) : events'[i] = events[i]
        /\ events'[Len(events) + 1] = new
    BY <1>2
  <1>4. \A i \in DOMAIN events' : i \in DOMAIN events \/ i = Len(events) + 1
    BY <1>2, <1>3
  <1>5. new.type = "Create" => \A i \in DOMAIN events : events[i] # new
    BY <1>1, <1>2 DEF Queued
  <1> QED BY <1>3, <1>4, <1>5 DEF Unique

LEMMA UniquePop ==
  ASSUME events \in Seq(Event), events # <<>>, events' = Tail(events), Unique
  PROVE  Unique' /\ \A e : e = Head(events) /\ e.type = "Create" => ~Queued(e)'
  <1>1. Len(events) \in Nat /\ DOMAIN events = 1 .. Len(events) /\ Len(events) # 0
    BY EmptySeq, LenProperties
  <1>2. events' \in Seq(Event) /\ Len(events') = Len(events) - 1
    BY HeadTailProperties
  <1>3. DOMAIN events' = 1 .. Len(events')
    BY <1>2, LenProperties
  <1>4. \A i \in DOMAIN events' : /\ i \in Nat /\ i # 0 /\ i + 1 \in DOMAIN events
                                  /\ events'[i] = events[i + 1]
    BY <1>1, <1>2, <1>3, HeadTailProperties
  <1>5. 1 \in DOMAIN events /\ Head(events) = events[1]
    BY <1>1
  <1>6. Unique'
    <2> SUFFICES ASSUME NEW i \in DOMAIN events', NEW j \in DOMAIN events',
                        events'[i] = events'[j], events'[i].type = "Create"
                 PROVE  i = j
      BY DEF Unique
    <2>1. i + 1 = j + 1
      BY <1>4 DEF Unique
    <2> QED BY <1>4, <2>1
  <1>7. ASSUME NEW e, e = Head(events), e.type = "Create", NEW i \in DOMAIN events', events'[i] = e
        PROVE  FALSE
    <2>1. i + 1 = 1
      BY <1>4, <1>5, <1>7 DEF Unique
    <2> QED BY <1>4, <2>1
  <1> QED BY <1>6, <1>7 DEF Queued

\* Only createTask adds a task to those that wait to be created.
LEMMA PendingStep ==
  ASSUME TypeInv, [Next]_vars, NEW t \in Tasks, PendingCreate(t)'
  PROVE  PendingCreate(t) \/ (CreateTaskRecords /\ Adding(t))
  <1>e. PICK e : e = [type |-> "Create", task |-> t]
    OBVIOUS
  <1>0. e.type = "Create" /\ e.task = t
    BY <1>e
  <1>1. /\ PendingCreate(t) <=> Queued(e) \/ (procPc = "vm" /\ procEv = e)
        /\ PendingCreate(t)' <=> Queued(e)' \/ (procPc' = "vm" /\ procEv' = e)
    BY <1>e DEF PendingCreate, Queued
  <1>2. ASSUME UNCHANGED events, procPc' = "vm" => procPc = "vm" /\ procEv' = procEv
        PROVE  PendingCreate(t)
    BY <1>1, <1>2 DEF Queued
  <1>3. CASE CreateTaskRecords
    <2>s. PICK s : s = svcNew.task
      OBVIOUS
    <2>1. s \in Tasks /\ Push("Create", s) /\ UNCHANGED <<procPc, procEv>>
      BY <1>3, <2>s DEF CreateTaskRecords, TypeInv, Locals
    <2>2. Queued(e)' => Queued(e) \/ e = [type |-> "Create", task |-> s]
      BY <2>1, QueuedPush DEF TypeInv, TypeOK, EventType
    <2>3. e = [type |-> "Create", task |-> s] => s = t
      BY <1>0
    <2>4. s = t => Adding(t)
      BY <1>3, <2>s DEF CreateTaskRecords, Adding
    <2> QED BY <1>1, <1>3, <2>1, <2>2, <2>3, <2>4
  <1>4. ASSUME NEW u \in Tasks, NEW type \in EventType \ {"Create"}, Request(type, u)
        PROVE  PendingCreate(t)
    <2>1. Push(type, u) /\ UNCHANGED <<procPc, procEv>>
      BY <1>4 DEF Request
    <2>2. Queued(e)' => Queued(e) \/ e = [type |-> type, task |-> u]
      BY <2>1, QueuedPush DEF TypeInv, TypeOK
    <2> QED BY <1>0, <1>1, <2>1, <2>2
  <1>5. CASE PopEvent
    <2>1. events \in Seq(Event) /\ events # <<>> /\ events' = Tail(events)
      BY <1>5 DEF PopEvent, TypeInv, TypeOK
    <2>2. Queued(Head(events)) /\ (Queued(e)' => Queued(e))
      BY <2>1, QueuedPop
    <2>3. procPc' = "vm" => procEv' = Head(events)
      BY <1>5 DEF PopEvent
    <2>4. procPc' = "vm" /\ procEv' = e => Queued(e)
      BY <2>2, <2>3
    <2> QED BY <1>1, <2>2, <2>4
  <1>6. CASE Quiet
    BY <1>2, <1>6 DEF Quiet, AtWork, Handlers
  <1>7. ASSUME NEW u \in Tasks, NEW n, CreateTask(u, n) PROVE PendingCreate(t)
    BY <1>2, <1>7 DEF CreateTask
  <1>8. ASSUME NEW u \in Tasks, QueryTaskStatus(u) PROVE PendingCreate(t)
    BY <1>2, <1>8 DEF QueryTaskStatus
  <1>9. ASSUME NEW th \in Threads,
               DeleteVm(th) \/ DeleteInfo(th) \/ DeleteRest(th) \/ CloseVm(th) \/ CloseRecord(th)
        PROVE  PendingCreate(t)
    BY <1>2, <1>9 DEF DeleteVm, DeleteInfo, DeleteRest, CloseVm, CloseRecord
  <1>10. ASSUME NEW r, NEW pc, Calls(r, pc) PROVE PendingCreate(t)
    BY <1>2, <1>10 DEF Calls, VmCall
  <1>11. CASE RestartSkipped \/ ProcessNetwork \/ ProcessFinish \/ ProcessDeleted
    BY <1>2, <1>11 DEF RestartSkipped, ProcessNetwork, ProcessFinish, ProcessDeleted
  <1>12. ASSUME NEW u \in Tasks, NEW d, GuestStop(u, d) PROVE PendingCreate(t)
    BY <1>2, <1>12 DEF GuestStop
  <1>13. ASSUME NEW host \in BOOLEAN, Crash(host) PROVE PendingCreate(t)
    <2>1. events' = <<>> /\ procPc' = "idle"
      BY <1>13 DEF Crash
    <2> QED BY <1>1, <2>1 DEF Queued
  <1> QED
    BY <1>3, <1>4, <1>5, <1>6, <1>7, <1>8, <1>9, <1>10, <1>11, <1>12, <1>13, StepKinds DEF Threads

\* A crash neither makes nor removes a domain.
LEMMA CrashDomain ==
  ASSUME TypeInv, NEW host \in BOOLEAN, Crash(host), NEW t \in Tasks
  PROVE  dom'[t] = "ABSENT" <=> dom[t] = "ABSENT"
  <1> DEFINE off == [u \in Tasks |-> IF host /\ dom[u] \in Active THEN "SHUTOFF" ELSE dom[u]]
  <1>1. off[t] = "ABSENT" <=> dom[t] = "ABSENT"
    BY DEF Active
  <1>2. PICK up : /\ up \subseteq {u \in runDb \cap Loaded : off[u] # "RUNNING"}
                  /\ dom' = [u \in Tasks |-> IF u \in up THEN "RUNNING" ELSE off[u]]
    BY DEF Crash
  <1>3. t \in up => dom[t] # "ABSENT"
    BY <1>2 DEF Loaded
  <1> HIDE DEF off
  <1> QED BY <1>1, <1>2, <1>3

\* A domain appears when process_create defines it and goes when delete_task
\* undefines it.
LEMMA DomainStep ==
  ASSUME TypeInv, [Next]_vars, NEW t \in Tasks
  PROVE  \/ dom'[t] = "ABSENT" <=> dom[t] = "ABSENT"
         \/ dom'[t] = "ABSENT" /\ InDelete(t)
         \/ /\ procPc = "vm" /\ procEv.type = "Create" /\ procEv.task = t
            /\ procPc' # "vm" /\ UNCHANGED <<events, procEv>>
  <1>0. dom \in [Tasks -> DomainState]
    BY DEF TypeInv, TypeOK
  <1>1. CASE UNCHANGED dom
    BY <1>1
  <1>2. ASSUME NEW th \in Threads, DeleteVm(th)
        PROVE  (dom'[t] = "ABSENT" <=> dom[t] = "ABSENT") \/ (dom'[t] = "ABSENT" /\ InDelete(t))
    <2>u. PICK u : u = jobs[th].task
      OBVIOUS
    <2>1. PICK d \in DestroyAndUndefineDomain(u) : dom' = [dom EXCEPT ![u] = d]
      BY <1>2, <2>u, Zenon DEF DeleteVm
    <2>2. CASE u # t
      BY <1>0, <2>1, <2>2
    <2>3. CASE u = t
      <3>1. dom'[t] = d /\ InDelete(t)
        BY <1>0, <1>2, <2>u, <2>1, <2>3 DEF InDelete, DeleteVm, Deletes
      <3>2. dom[t] = "ABSENT" => d = "ABSENT"
        BY <2>1, <2>3 DEF DestroyAndUndefineDomain
      <3> QED BY <3>1, <3>2
    <2> QED BY <2>2, <2>3
  <1>3. CASE CloseVm("R")
    <2>u. PICK u : u = jobs["R"].task
      OBVIOUS
    <2>1. u \in Tasks
      BY <1>3, <2>u DEF CloseVm, TypeInv, Locals, Threads
    <2>2. UNCHANGED dom \/ \E r \in DestroyDomain(u) : dom' = [dom EXCEPT ![u] = r[1]]
      BY <1>3, <2>u, Zenon DEF CloseVm
    <2>3. ASSUME NEW r \in DestroyDomain(u), dom' = [dom EXCEPT ![u] = r[1]]
          PROVE  dom'[t] = "ABSENT" <=> dom[t] = "ABSENT"
      BY <1>0, <2>1, <2>3, OutcomesKeep
    <2> QED BY <1>1, <2>2, <2>3
  <1>4. ASSUME NEW r, NEW pc, Calls(r, pc)
        PROVE  \/ dom'[t] = "ABSENT" <=> dom[t] = "ABSENT"
               \/ /\ procPc = "vm" /\ procEv.type = "Create" /\ procEv.task = t
                  /\ procPc' # "vm" /\ UNCHANGED <<events, procEv>>
    <2>1. /\ dom' = [dom EXCEPT ![procEv.task] = r[1]] /\ UNCHANGED <<events, procEv>>
          /\ procPc' # "vm" /\ procEv.task \in Tasks
          /\ Creates(r, pc) \/ Keeps(r, pc)
      BY <1>4 DEF Calls, VmCall, TypeInv, Locals
    <2>2. CASE procEv.task # t
      BY <1>0, <2>1, <2>2
    <2>3. CASE procEv.task = t
      BY <1>0, <2>1, <2>3 DEF Creates, Keeps
    <2> QED BY <2>2, <2>3
  <1>5. ASSUME NEW u \in Tasks, NEW d \in {"SHUTOFF", "PMSUSPENDED"}, GuestStop(u, d)
        PROVE  dom'[t] = "ABSENT" <=> dom[t] = "ABSENT"
    BY <1>0, <1>5 DEF GuestStop
  <1>6. ASSUME NEW host \in BOOLEAN, Crash(host)
        PROVE  dom'[t] = "ABSENT" <=> dom[t] = "ABSENT"
    BY <1>6, CrashDomain
  <1>7. \/ UNCHANGED dom
        \/ \E th \in Threads : DeleteVm(th)
        \/ CloseVm("R")
        \/ \E r, pc : Calls(r, pc)
        \/ \E u \in Tasks, d \in {"SHUTOFF", "PMSUSPENDED"} : GuestStop(u, d)
        \/ \E host \in BOOLEAN : Crash(host)
    BY StepKinds DEF Quiet, CreateTask, CreateTaskRecords, Request, QueryTaskStatus, DeleteInfo,
         DeleteRest, CloseRecord, PopEvent, RestartSkipped, ProcessNetwork, ProcessFinish,
         ProcessDeleted
  <1> QED BY <1>1, <1>2, <1>3, <1>4, <1>5, <1>6, <1>7

\* A deletion that is under way goes on until the task is gone; after a
\* crash a task without a domain is gone.
LEMMA DeleteStays ==
  ASSUME TypeInv, OwnInv, WaitInv, [Next]_vars, NEW t \in Tasks, InDelete(t)
  PROVE  InDelete(t)' \/ ~Exists(t)' \/ dom'[t] # "ABSENT"
  <1>d. PICK x \in Threads : jobs[x].op \in Deletes /\ jobs[x].task = t
    BY DEF InDelete
  <1>0. jobs[x].op # "none" /\ jobs[x] # NoJob /\ "absent" \notin Known
    BY <1>d DEF Deletes, NoJob, Known, Waiting, Settled
  <1>1. CASE jobs'[x] = jobs[x]
    BY <1>d, <1>1 DEF InDelete
  <1>2. ASSUME NEW th \in Threads, DeleteVm(th) \/ DeleteInfo(th) \/ DeleteRest(th)
        PROVE  InDelete(t)' \/ ~Exists(t)'
    <2>1. CASE th # x
      <3>1. jobs'[x] = jobs[x]
        BY <1>2, <2>1, JobValue DEF DeleteVm, DeleteInfo, DeleteRest
      <3> QED BY <1>d, <3>1 DEF InDelete
    <2>2. CASE th = x
      <3>1. ASSUME NEW op \in Deletes, jobs' = [jobs EXCEPT ![x] = Job(op, t)] PROVE InDelete(t)'
        <4>1. jobs'[x] = Job(op, t) /\ Job(op, t).op = op /\ Job(op, t).task = t
          BY <3>1, JobValue DEF Job
        <4> QED BY <4>1 DEF InDelete
      <3>2. CASE DeleteVm(x)
        BY <1>d, <3>1, <3>2 DEF DeleteVm, Deletes
      <3>3. CASE DeleteInfo(x)
        BY <1>d, <3>1, <3>3 DEF DeleteInfo, Deletes, Exists
      <3>4. CASE DeleteRest(x)
        BY <1>d, <1>0, <3>4 DEF DeleteRest, Exists, OwnInv, RestGone
      <3> QED BY <1>2, <2>2, <3>2, <3>3, <3>4
    <2> QED BY <2>1, <2>2
  <1>3. CASE CloseVm("R") \/ CloseRecord("R")
    <2>1. x # "R"
      BY <1>d, <1>3 DEF CloseVm, CloseRecord, Deletes
    <2>2. jobs'[x] = jobs[x]
      BY <1>3, <2>1, JobValue DEF CloseVm, CloseRecord, Threads
    <2> QED BY <1>1, <2>2
  <1>4. CASE Quiet
    BY <1>0, <1>1, <1>4 DEF Quiet
  <1>5. CASE PopEvent
    <2>1. CASE x # "P"
      <3>1. UNCHANGED jobs \/ jobs' = [jobs EXCEPT !["P"] = Job("delete.vm", Head(events).task)]
        BY <1>5 DEF PopEvent
      <3>2. jobs'[x] = jobs[x]
        BY <2>1, <3>1, JobValue DEF Threads
      <3> QED BY <1>1, <3>2
    <2>2. CASE x = "P"
      BY <1>0, <1>5, <2>2 DEF PopEvent, WaitInv, NoDeleteJob
    <2> QED BY <2>1, <2>2
  <1>6. ASSUME NEW host \in BOOLEAN, Crash(host) PROVE ~Exists(t)' \/ dom'[t] # "ABSENT"
    <2>1. t \notin Loaded => ~Exists(t)'
      BY <1>0, <1>6, CrashStatus DEF Exists, Known, Waiting, Settled
    <2>2. dom'[t] = "ABSENT" <=> dom[t] = "ABSENT"
      BY <1>6, CrashDomain
    <2> QED BY <2>1, <2>2 DEF Loaded
  <1>7. \/ UNCHANGED jobs
        \/ Quiet \/ PopEvent \/ CloseVm("R") \/ CloseRecord("R")
        \/ \E th \in Threads : DeleteVm(th) \/ DeleteInfo(th) \/ DeleteRest(th)
        \/ \E host \in BOOLEAN : Crash(host)
    BY StepKinds DEF CreateTask, CreateTaskRecords, Request, QueryTaskStatus, Calls, VmCall,
         RestartSkipped, ProcessNetwork, ProcessFinish, ProcessDeleted, GuestStop
  <1> QED BY <1>1, <1>2, <1>3, <1>4, <1>5, <1>6, <1>7

\* A known task without a domain that nobody deletes has just been created
\* or was such a task before.
LEMMA NoVmStep ==
  ASSUME TypeInv, OwnInv, WaitInv, CreateFirst, [Next]_vars, NEW t \in Tasks, NoVm(t)'
  PROVE  NoVm(t) \/ info[t] = "unborn"
  <1>1. Exists(t)' /\ dom'[t] = "ABSENT" /\ ~InDelete(t)'
    BY DEF NoVm
  <1>2. ~InDelete(t)
    BY <1>1, DeleteStays
  <1>3. Exists(t) \/ info[t] = "unborn"
    BY <1>1, AbsentStays DEF Exists, TypeInv, TypeOK, Gone, Known, Waiting, Settled
  <1>4. dom[t] = "ABSENT"
    <2>1. CASE procPc = "vm" /\ procEv.type = "Create" /\ procEv.task = t
      <3>1. procEv = [type |-> "Create", task |-> t]
        BY <2>1 DEF TypeInv, TypeOK
      <3>2. PendingCreate(t)
        BY <2>1, <3>1 DEF PendingCreate
      <3> QED BY <3>2 DEF CreateFirst
    <2> QED BY <1>1, <1>2, <2>1, DomainStep
  <1> QED BY <1>2, <1>3, <1>4 DEF NoVm

\* The queue, and what the process thread has in hand.
LEMMA NextUnique ==
  ASSUME TypeInv, OwnInv, VmInv, [Next]_vars
  PROVE  Unique' /\ HandledOnce'
  <1>0. events \in Seq(Event)
    BY DEF TypeInv, TypeOK
  <1>1. ASSUME UNCHANGED events, procPc' \in Handlers => procPc \in Handlers /\ procEv' = procEv
        PROVE  Unique' /\ HandledOnce'
    BY <1>1 DEF VmInv, Unique, HandledOnce, Queued, Busy, Handlers
  <1>2. CASE CreateTaskRecords
    <2>s. PICK s : s = svcNew.task
      OBVIOUS
    <2>1. s \in Tasks /\ Push("Create", s) /\ UNCHANGED <<procPc, procEv>> /\ Adding(s)
      BY <1>2, <2>s DEF CreateTaskRecords, TypeInv, Locals, Adding
    <2>2. procEv.task # s /\ \A i \in DOMAIN events : events[i].task # s
      BY <2>1 DEF OwnInv, Fresh, Untouched
    <2>3. ~Queued([type |-> "Create", task |-> s])
      BY <2>2 DEF Queued
    <2>4. Unique'
      BY <1>0, <2>1, <2>3, UniquePush DEF VmInv, EventType
    <2>5. \A e : Queued(e)' => Queued(e) \/ e.task = s
      BY <1>0, <2>1, QueuedPush DEF EventType
    <2>6. HandledOnce'
      BY <2>1, <2>2, <2>5 DEF VmInv, HandledOnce, Busy, Queued
    <2> QED BY <2>4, <2>6
  <1>3. ASSUME NEW t \in Tasks, NEW type \in EventType \ {"Create"}, Request(type, t)
        PROVE  Unique' /\ HandledOnce'
    <2>1. Push(type, t) /\ UNCHANGED <<procPc, procEv>>
      BY <1>3 DEF Request
    <2>2. Unique'
      BY <1>0, <2>1, UniquePush DEF VmInv
    <2>3. \A e : Queued(e)' => Queued(e) \/ e.type = type
      BY <1>0, <2>1, QueuedPush
    <2>4. HandledOnce'
      BY <2>1, <2>3 DEF VmInv, HandledOnce, Busy, Queued
    <2> QED BY <2>2, <2>4
  <1>4. CASE PopEvent
    <2>e. PICK ev : ev = Head(events)
      OBVIOUS
    <2>1. events # <<>> /\ events' = Tail(events)
      BY <1>4 DEF PopEvent
    <2>2. Unique' /\ (ev.type = "Create" => ~Queued(ev)')
      BY <1>0, <2>e, <2>1, UniquePop DEF VmInv
    <2>3. Busy' => procEv' = ev
      BY <1>4, <2>e DEF PopEvent, Busy
    <2>4. HandledOnce'
      BY <2>2, <2>3 DEF HandledOnce, Queued
    <2> QED BY <2>2, <2>4
  <1>5. CASE Quiet
    BY <1>1, <1>5 DEF Quiet, AtWork, Handlers
  <1>6. ASSUME NEW t \in Tasks, NEW n, CreateTask(t, n) PROVE Unique' /\ HandledOnce'
    BY <1>1, <1>6 DEF CreateTask
  <1>7. ASSUME NEW t \in Tasks, QueryTaskStatus(t) PROVE Unique' /\ HandledOnce'
    BY <1>1, <1>7 DEF QueryTaskStatus
  <1>8. ASSUME NEW th \in Threads,
               DeleteVm(th) \/ DeleteInfo(th) \/ DeleteRest(th) \/ CloseVm(th) \/ CloseRecord(th)
        PROVE  Unique' /\ HandledOnce'
    BY <1>1, <1>8 DEF DeleteVm, DeleteInfo, DeleteRest, CloseVm, CloseRecord
  <1>9. ASSUME NEW r, NEW pc, Calls(r, pc) PROVE Unique' /\ HandledOnce'
    BY <1>1, <1>9 DEF Calls, VmCall, Busy, Handlers
  <1>10. CASE ProcessNetwork
    BY <1>1, <1>10 DEF ProcessNetwork, Handlers
  <1>11. CASE RestartSkipped \/ ProcessFinish \/ ProcessDeleted
    BY <1>1, <1>11 DEF RestartSkipped, ProcessFinish, ProcessDeleted, Handlers
  <1>12. ASSUME NEW t \in Tasks, NEW d, GuestStop(t, d) PROVE Unique' /\ HandledOnce'
    BY <1>1, <1>12 DEF GuestStop
  <1>13. ASSUME NEW host \in BOOLEAN, Crash(host) PROVE Unique' /\ HandledOnce'
    <2>1. events' = <<>> /\ procPc' = "idle"
      BY <1>13 DEF Crash
    <2> QED BY <2>1 DEF Unique, HandledOnce, Busy
  <1> QED
    BY <1>2, <1>3, <1>4, <1>5, <1>6, <1>7, <1>8, <1>9, <1>10, <1>11, <1>12, <1>13, StepKinds
    DEF Threads

\* A task that waits to be created has no domain.
LEMMA NextCreateFirst ==
  ASSUME TypeInv, OwnInv, VmInv, [Next]_vars
  PROVE  CreateFirst'
  <1> SUFFICES ASSUME NEW t \in Tasks, PendingCreate(t)'
               PROVE  dom'[t] = "ABSENT"
    BY DEF CreateFirst
  <1>1. CASE CreateTaskRecords /\ Adding(t)
    BY <1>1 DEF CreateTaskRecords, OwnInv, Fresh, Untouched
  <1>2. CASE PendingCreate(t)
    <2>1. dom[t] = "ABSENT"
      BY <1>2 DEF VmInv, CreateFirst
    <2>2. CASE /\ procPc = "vm" /\ procEv.type = "Create" /\ procEv.task = t
               /\ procPc' # "vm" /\ UNCHANGED <<events, procEv>>
      <3>1. procEv = [type |-> "Create", task |-> t]
        BY <2>2 DEF TypeInv, TypeOK
      <3>2. Queued(procEv)
        BY <2>2, <3>1 DEF PendingCreate, Queued
      <3> QED BY <2>2, <3>2 DEF VmInv, HandledOnce, Busy
    <2> QED BY <2>1, <2>2, DomainStep
  <1> QED BY <1>1, <1>2, PendingStep

\* close_task records Shutoff for a task whose domain it has destroyed.
LEMMA NextClosing ==
  ASSUME TypeInv, OwnInv, WaitInv, VmInv, [Next]_vars
  PROVE  Closing'
  <1> SUFFICES ASSUME NEW th \in Threads, NEW t \in Tasks,
                      jobs'[th].op = "close.record", jobs'[th].task = t, NoVm(t)'
               PROVE  FALSE
    BY DEF Closing
  <1>1. CASE jobs'[th] = jobs[th]
    <2>1. ~NoVm(t)
      BY <1>1 DEF VmInv, Closing
    <2>2. info[t] # "unborn"
      BY <1>1 DEF OwnInv, Fresh, Untouched
    <2> QED BY <2>1, <2>2, NoVmStep DEF VmInv
  <1>0. NoJob.op = "none" /\ \A op, u : Job(op, u).op = op /\ Job(op, u).task = u
    BY DEF NoJob, Job
  <1>2. CASE CloseVm("R")
    <2>u. PICK u : u = jobs["R"].task
      OBVIOUS
    <2>1. CASE th # "R"
      <3>1. jobs'[th] = jobs[th]
        BY <1>2, <2>1, JobValue DEF CloseVm, Threads
      <3> QED BY <1>1, <3>1
    <2>2. CASE th = "R"
      <3>1. u \in Tasks
        BY <1>2, <2>u DEF CloseVm, TypeInv, Locals, Threads
      <3>2. \/ jobs' = [jobs EXCEPT !["R"] = NoJob]
            \/ /\ jobs' = [jobs EXCEPT !["R"] = Job("close.record", u)]
               /\ \E r \in DestroyDomain(u) : r[2] /\ dom' = [dom EXCEPT ![u] = r[1]]
        BY <1>2, <2>u DEF CloseVm
      <3>3. jobs' # [jobs EXCEPT !["R"] = NoJob]
        BY <1>0, <2>2, JobValue DEF Threads
      <3>4. PICK r \in DestroyDomain(u) : r[2] /\ dom' = [dom EXCEPT ![u] = r[1]]
        BY <3>2, <3>3
      <3>5. u = t
        <4>1. jobs'["R"] = Job("close.record", u)
          BY <3>2, <3>3, JobValue DEF Threads
        <4> QED BY <1>0, <2>2, <4>1
      <3>6. dom[u] # "ABSENT"
        <4> SUFFICES ASSUME dom[u] = "ABSENT" PROVE FALSE
          OBVIOUS
        <4>1. r = <<"ABSENT", FALSE>>
          BY <3>4, Zenon DEF DestroyDomain
        <4> QED BY <3>4, <4>1
      <3>7. dom'[t] # "ABSENT"
        BY <3>1, <3>4, <3>5, <3>6, OutcomesKeep DEF TypeInv, TypeOK
      <3> QED BY <3>7 DEF NoVm
    <2> QED BY <2>1, <2>2
  <1>3. CASE CloseRecord("R")
    <2>1. jobs'["R"] = NoJob /\ \A x \in Threads \ {"R"} : jobs'[x] = jobs[x]
      BY <1>3, JobValue DEF CloseRecord, Threads
    <2> QED BY <1>0, <1>1, <2>1
  <1>4. CASE Quiet
    BY <1>1, <1>4 DEF Quiet
  <1>5. CASE PopEvent
    <2>u. PICK u : u = Head(events).task
      OBVIOUS
    <2>1. UNCHANGED jobs \/ jobs' = [jobs EXCEPT !["P"] = Job("delete.vm", u)]
      BY <1>5, <2>u DEF PopEvent
    <2>2. UNCHANGED jobs \/ (jobs'["P"].op = "delete.vm" /\ \A x \in Threads \ {"P"} : jobs'[x] = jobs[x])
      BY <1>0, <2>1, JobValue DEF Threads
    <2> QED BY <1>1, <2>2
  <1>6. ASSUME NEW x \in Threads, DeleteVm(x) \/ DeleteInfo(x) \/ DeleteRest(x) PROVE FALSE
    <2>u. PICK u : u = jobs[x].task
      OBVIOUS
    <2>1. \/ jobs' = [jobs EXCEPT ![x] = NoJob]
          \/ \E op \in Deletes : jobs' = [jobs EXCEPT ![x] = Job(op, u)]
      BY <1>6, <2>u DEF DeleteVm, DeleteInfo, DeleteRest, Deletes
    <2>2. CASE th # x
      <3>1. jobs'[th] = jobs[th]
        BY <2>1, <2>2, JobValue
      <3> QED BY <1>1, <3>1
    <2>3. CASE th = x
      <3>1. jobs'[x] = NoJob \/ \E op \in Deletes : jobs'[x] = Job(op, u)
        BY <2>1, JobValue
      <3> QED BY <1>0, <2>3, <3>1 DEF Deletes
    <2> QED BY <2>2, <2>3
  <1>7. ASSUME NEW host \in BOOLEAN, Crash(host) PROVE FALSE
    BY <1>0, <1>7 DEF Crash
  <1>8. \/ UNCHANGED jobs
        \/ Quiet \/ PopEvent \/ CloseVm("R") \/ CloseRecord("R")
        \/ \E x \in Threads : DeleteVm(x) \/ DeleteInfo(x) \/ DeleteRest(x)
        \/ \E host \in BOOLEAN : Crash(host)
    BY StepKinds DEF CreateTask, CreateTaskRecords, Request, QueryTaskStatus, Calls, VmCall,
         RestartSkipped, ProcessNetwork, ProcessFinish, ProcessDeleted, GuestStop
  <1> QED BY <1>1, <1>2, <1>3, <1>4, <1>5, <1>6, <1>7, <1>8

\* process_create records Running for a task whose domain it has started.
LEMMA NextCreating ==
  ASSUME TypeInv, OwnInv, WaitInv, VmInv, [Next]_vars
  PROVE  Creating'
  <1> DEFINE Past == {"net", "undo", "finish"}
  <1>1. ASSUME NEW t \in Tasks, NoVm(t)', procEv.task = t PROVE NoVm(t)
    <2>1. info[t] # "unborn"
      BY <1>1 DEF OwnInv, Fresh, Untouched
    <2> QED BY <1>1, <2>1, NoVmStep DEF VmInv
  <1>2. ASSUME procPc' = procPc \/ (procPc \in Past /\ procPc' \in Past) \/ procPc' \notin Handlers,
               procPc' \in Handlers => UNCHANGED <<procEv, procOk>>
        PROVE  Creating'
    BY <1>1, <1>2 DEF VmInv, Creating, Handlers
  <1>3. ASSUME NEW r, NEW pc, Calls(r, pc) PROVE Creating'
    <2>1. /\ procPc' = pc /\ procOk' = r[2] /\ UNCHANGED procEv
          /\ dom' = [dom EXCEPT ![procEv.task] = r[1]]
          /\ procEv.task \in Tasks /\ dom \in [Tasks -> DomainState]
          /\ Creates(r, pc) \/ Keeps(r, pc)
      BY <1>3 DEF Calls, VmCall, TypeInv, TypeOK, Locals
    <2>2. CASE Creates(r, pc)
      <3>1. procOk' => dom'[procEv.task] # "ABSENT"
        BY <2>1, <2>2 DEF Creates
      <3> QED BY <2>1, <2>2, <3>1 DEF Creating, Creates, NoVm
    <2>3. CASE Keeps(r, pc)
      <3>1. procEv.type # "Create" \/ procOk' = FALSE
        BY <2>1, <2>3 DEF Keeps, VmInv, Creating
      <3>2. pc = "vm2" => procEv.type # "Create"
        BY <2>3 DEF Keeps
      <3> QED BY <2>1, <3>1, <3>2 DEF Creating
    <2> QED BY <2>1, <2>2, <2>3
  <1>4. CASE PopEvent
    BY <1>4 DEF PopEvent, Creating
  <1>5. CASE Quiet
    BY <1>2, <1>5 DEF Quiet, AtWork
  <1>6. ASSUME NEW t \in Tasks, NEW n, CreateTask(t, n) PROVE Creating'
    BY <1>2, <1>6 DEF CreateTask
  <1>7. ASSUME NEW t \in Tasks, NEW type, Request(type, t) \/ QueryTaskStatus(t) PROVE Creating'
    BY <1>2, <1>7 DEF Request, QueryTaskStatus
  <1>8. ASSUME NEW th \in Threads,
               DeleteVm(th) \/ DeleteInfo(th) \/ DeleteRest(th) \/ CloseVm(th) \/ CloseRecord(th)
        PROVE  Creating'
    BY <1>2, <1>8 DEF DeleteVm, DeleteInfo, DeleteRest, CloseVm, CloseRecord
  <1>9. CASE CreateTaskRecords
    BY <1>2, <1>9 DEF CreateTaskRecords
  <1>10. CASE ProcessNetwork
    BY <1>2, <1>10 DEF ProcessNetwork
  <1>11. CASE RestartSkipped \/ ProcessFinish \/ ProcessDeleted
    BY <1>2, <1>11 DEF RestartSkipped, ProcessFinish, ProcessDeleted, Handlers
  <1>12. ASSUME NEW t \in Tasks, NEW d, GuestStop(t, d) PROVE Creating'
    BY <1>2, <1>12 DEF GuestStop
  <1>13. ASSUME NEW host \in BOOLEAN, Crash(host) PROVE Creating'
    BY <1>2, <1>13 DEF Crash, Handlers
  <1> QED
    BY <1>3, <1>4, <1>5, <1>6, <1>7, <1>8, <1>9, <1>10, <1>11, <1>12, <1>13, StepKinds
    DEF Threads

\* A task without a domain keeps a status that says so.
LEMMA NextShown ==
  ASSUME TypeInv, OwnInv, WaitInv, VmInv, [Next]_vars
  PROVE  Shown'
  <1> SUFFICES ASSUME NEW t \in Tasks, NoVm(t)'
               PROVE  info'[t] \in {"Creating", "CreateTaskError"}
    BY DEF Shown
  <1>0. info \in [Tasks -> Known \cup Gone] /\ "absent" \notin Known /\ "unborn" \notin Known
    BY DEF TypeInv, TypeOK, Known, Waiting, Settled
  <1>1. Exists(t)' /\ (NoVm(t) \/ info[t] = "unborn")
    BY NoVmStep DEF VmInv, NoVm
  <1>2. CASE info'[t] = info[t]
    BY <1>0, <1>1, <1>2 DEF Exists, VmInv, Shown
  <1>3. ASSUME NEW u \in Tasks, NEW n, CreateTask(u, n)
        PROVE  info'[t] \in {"Creating", "CreateTaskError"}
    <2>1. info' = [info EXCEPT ![u] = "Creating"]
      BY <1>3 DEF CreateTask
    <2> QED BY <1>0, <1>2, <2>1
  <1>4. ASSUME NEW u \in Tasks, NEW type, Request(type, u) \/ QueryTaskStatus(u)
        PROVE  info'[t] = info[t]
    <2>1. dom[u] # "ABSENT" /\ info[u] # "unborn" /\ \A x \in Tasks \ {u} : info'[x] = info[x]
      BY <1>0, <1>4 DEF Request, QueryTaskStatus, Exists
    <2> QED BY <1>1, <2>1 DEF NoVm
  <1>5. ASSUME NEW th \in Threads, DeleteInfo(th) PROVE info'[t] = info[t]
    BY <1>0, <1>1, <1>5 DEF DeleteInfo, Exists
  <1>6. CASE CloseRecord("R")
    <2>u. PICK u : u = jobs["R"].task
      OBVIOUS
    <2>1. u \in Tasks /\ ~NoVm(u) /\ info[u] # "unborn"
      BY <1>6, <2>u DEF CloseRecord, TypeInv, Locals, VmInv, Closing, OwnInv, Fresh, Untouched, Threads
    <2>2. \A x \in Tasks \ {u} : info'[x] = info[x]
      BY <1>0, <1>6, <2>u DEF CloseRecord
    <2> QED BY <1>1, <1>2, <2>1, <2>2
  <1>7. CASE ProcessFinish
    <2>1. /\ procPc = "finish" /\ procEv.task \in Tasks /\ procEv.type \in EventType \ {"Delete"}
          /\ info[procEv.task] # "unborn"
      BY <1>7 DEF ProcessFinish, TypeInv, TypeOK, Locals, Busy, OwnInv, Fresh, Untouched
    <2>2. \/ info' = info
          \/ /\ info[procEv.task] = Awaited[procEv.type]
             /\ info' = [info EXCEPT ![procEv.task] = IF procOk THEN Success[procEv.type]
                                                               ELSE Failure[procEv.type]]
      BY <1>7 DEF ProcessFinish
    <2>3. CASE procEv.task # t \/ info' = info
      BY <1>0, <1>2, <2>2, <2>3
    <2>4. CASE procEv.task = t /\ info[t] = Awaited[procEv.type]
      <3>1. NoVm(t) /\ info[t] \in {"Creating", "CreateTaskError"}
        BY <1>1, <2>1, <2>4 DEF VmInv, Shown
      <3>2. procEv.type = "Create"
        BY <2>1, <2>4, <3>1 DEF Awaited, EventType
      <3>3. ~procOk
        BY <2>1, <2>4, <3>1, <3>2 DEF VmInv, Creating
      <3>4. Failure[procEv.type] = "CreateTaskError"
        BY <3>2 DEF Failure
      <3>5. info' = info \/ info' = [info EXCEPT ![t] = "CreateTaskError"]
        BY <2>2, <2>4, <3>3, <3>4
      <3> QED BY <1>0, <1>2, <3>5
    <2> QED BY <2>2, <2>3, <2>4
  <1>8. ASSUME NEW host \in BOOLEAN, Crash(host) PROVE FALSE
    <2>1. t \in Loaded
      BY <1>0, <1>1, <1>8, CrashStatus DEF Exists
    <2>2. dom'[t] # "ABSENT"
      BY <1>8, <2>1, CrashDomain DEF Loaded
    <2> QED BY <2>2 DEF NoVm
  <1>9. \/ UNCHANGED info
        \/ \E u \in Tasks, n \in 0 .. Cardinality(Gpus) : CreateTask(u, n)
        \/ \E u \in Tasks, type \in EventType : Request(type, u)
        \/ \E u \in Tasks : QueryTaskStatus(u)
        \/ \E th \in Threads : DeleteInfo(th)
        \/ CloseRecord("R") \/ ProcessFinish
        \/ \E host \in BOOLEAN : Crash(host)
    BY StepKinds DEF Quiet, CreateTaskRecords, DeleteVm, DeleteRest, CloseVm, PopEvent, Calls, VmCall,
         RestartSkipped, ProcessNetwork, ProcessDeleted, GuestStop
  <1> QED BY <1>2, <1>3, <1>4, <1>5, <1>6, <1>7, <1>8, <1>9

\* The types, ownership, what is owed, and the domains.
TaskInv == TypeInv /\ OwnInv /\ WaitInv /\ VmInv

LEMMA NextVm == TaskInv /\ [Next]_vars => TaskInv'
  BY NextTypes, NextOwn, NextWait, NextUnique, NextCreateFirst, NextClosing, NextCreating, NextShown
  DEF TaskInv, VmInv

LEMMA TaskInvHolds == Spec => []TaskInv
  <1>1. Init => TaskInv
    BY InitTypes, InitOwn, InitWait, InitVm DEF TaskInv
  <1> QED BY <1>1, NextVm, PTL DEF Spec

\* A task without a domain that nobody deletes shows that it is being
\* created or could not be: no interleaving of the threads lets the status
\* promise a machine that is not there.
THEOREM StatusTellsDomain == Spec => []NoDomainStatus
  <1>1. TaskInv => NoDomainStatus
    BY DEF TaskInv, VmInv, Shown, NoVm, NoDomainStatus
  <1> QED BY <1>1, TaskInvHolds, PTL

-----------------------------------------------------------------------------
(***************************************************************************)
(* GPUs.  allocate_gpu takes what no task holds whose domain is not shut   *)
(* off, and createTask records the GPUs only later; a task that waits to   *)
(* be created has no domain, so its GPUs count, and a task that is gone    *)
(* holds none.                                                             *)
(***************************************************************************)
GoneHoldsNone == \A t \in Tasks : ~Exists(t) => gpus[t] = {}

NewApart == svcPc = "create" => \A t \in Tasks : PendingCreate(t) => svcNew.gpus \cap gpus[t] = {}

GpuInv == GoneHoldsNone /\ NewApart /\ PendingCreatesDisjoint

\* No GPU is given initially.
LEMMA InitGpus == Init => GpuInv
  BY DEF Init, GpuInv, GoneHoldsNone, NewApart, PendingCreatesDisjoint

\* A known task stays known but for delete_task and a crash.
LEMMA KnownStays ==
  ASSUME TypeInv, [Next]_vars, NEW t \in Tasks, Exists(t)
  PROVE  \/ Exists(t)'
         \/ \E th \in Threads : DeleteInfo(th) /\ jobs[th].task = t
         \/ \E host \in BOOLEAN : Crash(host)
  <1>0. /\ info \in [Tasks -> Known \cup Gone] /\ info[t] \in Known
        /\ {"Creating", "Shutoff"} \subseteq Known
    BY DEF TypeInv, TypeOK, Exists, Known, Waiting, Settled
  <1>1. ASSUME NEW u \in Tasks, NEW s \in Known, info' = [info EXCEPT ![u] = s] PROVE Exists(t)'
    BY <1>0, <1>1 DEF Exists
  <1>2. ASSUME NEW u \in Tasks, NEW n, CreateTask(u, n) PROVE Exists(t)'
    BY <1>0, <1>1, <1>2 DEF CreateTask
  <1>3. ASSUME NEW u \in Tasks, NEW type \in EventType, Request(type, u) PROVE Exists(t)'
    BY <1>1, <1>3, AwaitedWaiting DEF Request, Known
  <1>4. ASSUME NEW u \in Tasks, QueryTaskStatus(u) PROVE Exists(t)'
    BY <1>1, <1>4, StatusOfSettled DEF QueryTaskStatus, Known, TypeInv, TypeOK
  <1>5. ASSUME NEW th \in Threads, DeleteInfo(th), jobs[th].task # t PROVE Exists(t)'
    BY <1>0, <1>5 DEF DeleteInfo, Exists
  <1>6. CASE CloseRecord("R")
    <2>1. jobs["R"].task \in Tasks
      BY <1>6 DEF CloseRecord, TypeInv, Locals, Threads
    <2> QED BY <1>0, <1>1, <1>6, <2>1 DEF CloseRecord, Exists
  <1>7. CASE ProcessFinish
    <2>1. procEv.task \in Tasks /\ procEv.type \in EventType \ {"Delete"}
      BY <1>7 DEF ProcessFinish, TypeInv, TypeOK, Locals, Busy
    <2>2. Success[procEv.type] \in Known /\ Failure[procEv.type] \in Known
      BY <2>1, OutcomeSettled DEF Known
    <2>3. \/ info' = info
          \/ info' = [info EXCEPT ![procEv.task] = Success[procEv.type]]
          \/ info' = [info EXCEPT ![procEv.task] = Failure[procEv.type]]
      BY <1>7 DEF ProcessFinish
    <2> QED BY <1>0, <1>1, <2>1, <2>2, <2>3 DEF Exists
  <1>8. CASE UNCHANGED info
    BY <1>0, <1>8 DEF Exists
  <1>9. \/ UNCHANGED info
        \/ \E u \in Tasks, n \in 0 .. Cardinality(Gpus) : CreateTask(u, n)
        \/ \E u \in Tasks, type \in EventType : Request(type, u)
        \/ \E u \in Tasks : QueryTaskStatus(u)
        \/ \E th \in Threads : DeleteInfo(th)
        \/ CloseRecord("R") \/ ProcessFinish
        \/ \E host \in BOOLEAN : Crash(host)
    BY StepKinds DEF Quiet, CreateTaskRecords, DeleteVm, DeleteRest, CloseVm, PopEvent, Calls, VmCall,
         RestartSkipped, ProcessNetwork, ProcessDeleted, GuestStop
  <1> QED BY <1>2, <1>3, <1>4, <1>5, <1>6, <1>7, <1>8, <1>9

\* No step gives a GPU to a second task that waits to be created.
LEMMA NextGpus ==
  ASSUME TaskInv, GpuInv, [Next]_vars
  PROVE  GpuInv'
  <1>0. /\ TypeInv /\ OwnInv /\ WaitInv /\ VmInv
        /\ info \in [Tasks -> Known \cup Gone] /\ gpus \in [Tasks -> SUBSET Gpus]
        /\ "absent" \notin Known /\ "unborn" \notin Known /\ "Creating" \in Known
    BY DEF TaskInv, TypeInv, TypeOK, Known, Waiting, Settled
  <1>1. \A t \in Tasks : PendingCreate(t)' => PendingCreate(t) \/ (CreateTaskRecords /\ Adding(t))
    BY <1>0, PendingStep
  <1>2. ASSUME NEW t \in Tasks, NEW n, CreateTask(t, n) PROVE GpuInv'
    <2>1. /\ UNCHANGED gpus /\ svcNew'.gpus = AllocateGpu(n)
          /\ \A u \in Tasks \ {t} : info'[u] = info[u]
          /\ Exists(t)' /\ ~CreateTaskRecords
      BY <1>0, <1>2 DEF CreateTask, CreateTaskRecords, Exists
    <2>2. \A u \in Tasks : PendingCreate(u) => gpus[u] \subseteq UsedGpus
      <3> SUFFICES ASSUME NEW u \in Tasks, PendingCreate(u) PROVE gpus[u] \subseteq UsedGpus
        OBVIOUS
      <3>1. dom[u] # "SHUTOFF"
        BY <1>0 DEF VmInv, CreateFirst
      <3>2. CASE Exists(u)
        BY <3>1, <3>2 DEF UsedGpus
      <3>3. CASE ~Exists(u)
        BY <3>3 DEF GpuInv, GoneHoldsNone
      <3> QED BY <3>2, <3>3
    <2>3. AllocateGpu(n) \cap UsedGpus = {}
      BY DEF AllocateGpu
    <2>4. NewApart'
      BY <1>1, <2>1, <2>2, <2>3 DEF NewApart
    <2>5. GoneHoldsNone'
      BY <2>1 DEF GpuInv, GoneHoldsNone, Exists
    <2>6. PendingCreatesDisjoint'
      BY <1>1, <2>1 DEF GpuInv, PendingCreatesDisjoint
    <2> QED BY <2>4, <2>5, <2>6 DEF GpuInv
  <1>3. CASE CreateTaskRecords
    <2>t. PICK t : t = svcNew.task
      OBVIOUS
    <2>1. /\ t \in Tasks /\ Adding(t) /\ info[t] = "Creating" /\ svcPc = "create"
          /\ \A u \in Tasks : Adding(u) => u = t
      BY <1>0, <1>3, <2>t DEF CreateTaskRecords, TypeInv, Locals, Adding, OwnInv, OnDisk
    <2>2. /\ gpus' = [gpus EXCEPT ![t] = svcNew.gpus] /\ UNCHANGED info /\ svcPc' = "idle"
      BY <1>3, <2>t DEF CreateTaskRecords
    <2>3. gpus'[t] = svcNew.gpus /\ \A u \in Tasks \ {t} : gpus'[u] = gpus[u]
      BY <1>0, <2>1, <2>2
    <2>4. \A u \in Tasks \ {t} : PendingCreate(u)' => PendingCreate(u) /\ gpus'[t] \cap gpus'[u] = {}
      BY <1>1, <2>1, <2>3 DEF GpuInv, NewApart
    <2>5. PendingCreatesDisjoint'
      BY <2>3, <2>4 DEF GpuInv, PendingCreatesDisjoint
    <2>6. GoneHoldsNone'
      BY <1>0, <2>1, <2>2, <2>3 DEF GpuInv, GoneHoldsNone, Exists
    <2> QED BY <2>2, <2>5, <2>6 DEF GpuInv, NewApart
  <1>4. ASSUME ~CreateTaskRecords,
               \A t \in Tasks : gpus'[t] = gpus[t] \/ gpus'[t] = {},
               \A t \in Tasks : ~Exists(t)' => ~Exists(t) \/ gpus'[t] = {},
               svcPc' = "create" => svcPc = "create" /\ UNCHANGED svcNew
        PROVE  GpuInv'
    <2>1. \A t \in Tasks : PendingCreate(t)' => PendingCreate(t)
      BY <1>1, <1>4
    <2>2. GoneHoldsNone'
      BY <1>4 DEF GpuInv, GoneHoldsNone
    <2>3. NewApart'
      BY <1>4, <2>1 DEF GpuInv, NewApart
    <2>4. PendingCreatesDisjoint'
      BY <1>4, <2>1 DEF GpuInv, PendingCreatesDisjoint
    <2> QED BY <2>2, <2>3, <2>4 DEF GpuInv
  <1>5. ASSUME NEW host \in BOOLEAN, Crash(host) PROVE GpuInv'
    <2>1. /\ events' = <<>> /\ procPc' = "idle" /\ svcPc' = "idle"
          /\ gpus' = [t \in Tasks |-> IF t \in Loaded THEN hostdev[t] ELSE {}]
      BY <1>5 DEF Crash
    <2>2. \A t \in Tasks : ~PendingCreate(t)'
      BY <2>1 DEF PendingCreate
    <2>3. \A t \in Loaded : Exists(t)'
      BY <1>0, <1>5, CrashStatus DEF Exists, Loaded, TypeInv, TypeOK
    <2> QED BY <2>1, <2>2, <2>3 DEF GpuInv, GoneHoldsNone, NewApart, PendingCreatesDisjoint
  <1>6. ASSUME NEW th \in Threads, DeleteInfo(th) PROVE GpuInv'
    <2>1. /\ \A t \in Tasks : gpus'[t] = gpus[t] \/ gpus'[t] = {}
          /\ Exists(jobs[th].task) => gpus' = [gpus EXCEPT ![jobs[th].task] = {}]
          /\ \A t \in Tasks : t # jobs[th].task => info'[t] = info[t]
          /\ ~Exists(jobs[th].task) => info' = info
          /\ UNCHANGED <<svcPc, svcNew, events>>
      BY <1>0, <1>6 DEF DeleteInfo
    <2>2. \A t \in Tasks : ~Exists(t)' => ~Exists(t) \/ gpus'[t] = {}
      BY <1>0, <2>1 DEF Exists
    <2>3. ~CreateTaskRecords
      BY <2>1 DEF CreateTaskRecords
    <2> QED BY <1>4, <2>1, <2>2, <2>3
  <1>7. ASSUME ~CreateTaskRecords, \A host \in BOOLEAN : ~Crash(host), \A th \in Threads : ~DeleteInfo(th),
               UNCHANGED gpus, svcPc' = "create" => svcPc = "create" /\ UNCHANGED svcNew
        PROVE  GpuInv'
    <2>1. \A t \in Tasks : ~Exists(t)' => ~Exists(t)
      BY <1>0, <1>7, KnownStays
    <2> QED BY <1>4, <1>7, <2>1
  <1>8. \/ CreateTaskRecords
        \/ \E t \in Tasks, n \in 0 .. Cardinality(Gpus) : CreateTask(t, n)
        \/ \E th \in Threads : DeleteInfo(th)
        \/ \E host \in BOOLEAN : Crash(host)
        \/ UNCHANGED gpus /\ (svcPc' = "create" => svcPc = "create" /\ UNCHANGED svcNew)
    BY <1>0, StepKinds DEF Quiet, Request, QueryTaskStatus, DeleteVm, DeleteRest, CloseVm, CloseRecord,
         PopEvent, Calls, VmCall, RestartSkipped, ProcessNetwork, ProcessFinish, ProcessDeleted, GuestStop
  <1> QED BY <1>2, <1>3, <1>5, <1>6, <1>7, <1>8

\* No GPU is held by two tasks that wait to be created, however requests,
\* deletions, failures and crashes interleave, although neither has a
\* domain that would claim it.
THEOREM PendingCreatesApart == Spec => []PendingCreatesDisjoint
  <1>1. TaskInv /\ GpuInv /\ [Next]_vars => GpuInv'
    BY NextGpus
  <1>2. GpuInv => PendingCreatesDisjoint
    BY DEF GpuInv
  <1> QED BY <1>1, <1>2, InitGpus, TaskInvHolds, PTL DEF Spec

-----------------------------------------------------------------------------
(***************************************************************************)
(* Deletion.  When the TaskInfo goes, the domain has to be gone already    *)
(* and no handler may be about to define it again or to add an iptable     *)
(* record; both are known of a task that is not raced from the moment      *)
(* delete_task has undefined its domain.  The rules go only because every  *)
(* rule has its iptable record: delete_task finds them through it.         *)
(***************************************************************************)
Stored == \A t \in Tasks : Exists(t) => t \in taskDb

Mapped == rules \subseteq ipt

Undefined ==
  \A th \in Threads, t \in Tasks :
    jobs[th].op = "delete.info" /\ jobs[th].task = t /\ t \notin raced =>
      dom[t] = "ABSENT" /\ ~Handling(t)

\* delete_task has the iptable record and the rent list still to do.
Resting(t) == \E th \in Threads : jobs[th].op = "delete.rest" /\ jobs[th].task = t

Erased(t) == t \notin ipt /\ \A w \in Wallets : t \notin rent[w]

Dead ==
  \A t \in Tasks :
    info[t] = "absent" /\ t \notin raced =>
      /\ dom[t] = "ABSENT" /\ t \notin taskDb /\ ~Handling(t)
      /\ Resting(t) \/ Erased(t)

CleanInv == Stored /\ Mapped /\ Undefined /\ Dead

\* No task is known or gone initially.
LEMMA InitClean == Init => CleanInv
  BY DEF Init, CleanInv, Stored, Mapped, Undefined, Dead, Exists, Known, Waiting, Settled, NoJob

\* A race is never forgotten.
LEMMA RacedGrows ==
  ASSUME TypeInv, [Next]_vars
  PROVE  raced \subseteq raced'
  BY StepKinds DEF Quiet, CreateTask, CreateTaskRecords, Request, QueryTaskStatus, DeleteVm, DeleteInfo,
       DeleteRest, CloseVm, CloseRecord, PopEvent, Calls, VmCall, RestartSkipped, ProcessNetwork,
       ProcessFinish, ProcessDeleted, GuestStop, Crash

\* A handler begins for a task that is known, and if the task is being
\* deleted then it is raced.
LEMMA HandlingStep ==
  ASSUME TypeInv, [Next]_vars, NEW t \in Tasks, Handling(t)'
  PROVE  Handling(t) \/ (Exists(t) /\ UNCHANGED info /\ (InDelete(t) => t \in raced'))
  <1>0. procPc' \in Handlers /\ procEv'.task = t
    BY DEF Handling, Handlers
  <1>1. ASSUME procPc \in Handlers, procEv' = procEv PROVE Handling(t)
    BY <1>0, <1>1 DEF Handling, Handlers
  <1>2. CASE PopEvent
    BY <1>0, <1>2 DEF PopEvent, Handlers
  <1>3. CASE Quiet
    BY <1>0, <1>1, <1>3 DEF Quiet, AtWork
  <1>4. ASSUME NEW r, NEW pc, Calls(r, pc) PROVE Handling(t)
    BY <1>1, <1>4 DEF Calls, VmCall, Busy, Handlers
  <1>5. CASE ProcessNetwork
    BY <1>1, <1>5 DEF ProcessNetwork, Handlers
  <1>6. CASE UNCHANGED <<procPc, procEv>>
    BY <1>0, <1>1, <1>6
  <1>7. \/ PopEvent \/ Quiet \/ (\E r, pc : Calls(r, pc)) \/ ProcessNetwork
        \/ UNCHANGED <<procPc, procEv>>
        \/ procPc' = "update" \/ procPc' = "idle"
    BY StepKinds DEF CreateTask, CreateTaskRecords, Request, QueryTaskStatus, DeleteVm, DeleteInfo,
         DeleteRest, CloseVm, CloseRecord, RestartSkipped, ProcessFinish, ProcessDeleted, GuestStop, Crash
  <1> QED BY <1>0, <1>2, <1>3, <1>4, <1>5, <1>6, <1>7 DEF Handlers

\* The TaskInfo of a known task is in task.db.
LEMMA NextStored ==
  ASSUME TypeInv, OwnInv, CleanInv, [Next]_vars
  PROVE  Stored'
  <1> SUFFICES ASSUME NEW t \in Tasks, Exists(t)' PROVE t \in taskDb'
    BY DEF Stored
  <1>0. info \in [Tasks -> Known \cup Gone] /\ "absent" \notin Known /\ "unborn" \notin Known
    BY DEF TypeInv, TypeOK, Known, Waiting, Settled
  <1>1. Exists(t) => t \in taskDb
    BY DEF CleanInv, Stored
  <1>2. Exists(t) \/ info[t] = "unborn"
    BY <1>0, AbsentStays DEF Exists, Gone
  <1>3. ASSUME NEW u \in Tasks, NEW n, CreateTask(u, n) PROVE t \in taskDb'
    BY <1>0, <1>1, <1>3 DEF CreateTask, Exists
  <1>4. ASSUME NEW th \in Threads, DeleteInfo(th) PROVE t \in taskDb'
    BY <1>0, <1>1, <1>4 DEF DeleteInfo, Exists
  <1>5. ASSUME NEW host \in BOOLEAN, Crash(host) PROVE t \in taskDb'
    <2>1. t \in Loaded
      BY <1>0, <1>5, CrashStatus DEF Exists
    <2> QED BY <1>5, <2>1 DEF Loaded, Crash
  <1>6. \/ \E u \in Tasks, n \in 0 .. Cardinality(Gpus) : CreateTask(u, n)
        \/ \E th \in Threads : DeleteInfo(th)
        \/ \E host \in BOOLEAN : Crash(host)
        \/ UNCHANGED taskDb /\ (info[t] = "unborn" => info'[t] = "unborn")
    <2>1. ASSUME NEW u \in Tasks, NEW type, Request(type, u) \/ QueryTaskStatus(u)
          PROVE  UNCHANGED taskDb /\ (info[t] = "unborn" => info'[t] = "unborn")
      BY <1>0, <2>1 DEF Request, QueryTaskStatus, Exists
    <2>2. CASE CloseRecord("R")
      BY <1>0, <2>2 DEF CloseRecord, Exists
    <2>3. CASE ProcessFinish
      <3>1. procEv.type \in EventType
        BY DEF TypeInv, TypeOK
      <3>2. Awaited[procEv.type] # "unborn"
        BY <1>0, <3>1, AwaitedWaiting DEF Known
      <3> QED BY <1>0, <2>3, <3>2 DEF ProcessFinish
    <2> QED
      BY <2>1, <2>2, <2>3, StepKinds DEF Quiet, CreateTaskRecords, DeleteVm, DeleteRest, CloseVm, PopEvent,
         Calls, VmCall, RestartSkipped, ProcessNetwork, ProcessDeleted, GuestStop
  <1> QED BY <1>0, <1>1, <1>2, <1>3, <1>4, <1>5, <1>6 DEF Exists

\* Every rule has its iptable record.
LEMMA NextMapped ==
  ASSUME TypeInv, CleanInv, [Next]_vars
  PROVE  Mapped'
  <1>0. rules \subseteq ipt
    BY DEF CleanInv, Mapped
  <1>1. CASE UNCHANGED <<ipt, rules>>
    BY <1>0, <1>1 DEF Mapped
  <1>2. ASSUME NEW th \in Threads, DeleteRest(th) PROVE Mapped'
    BY <1>0, <1>2 DEF DeleteRest, Mapped
  <1>3. CASE CloseRecord("R")
    BY <1>0, <1>3 DEF CloseRecord, Mapped
  <1>4. CASE ProcessNetwork
    BY <1>0, <1>4 DEF ProcessNetwork, Mapped
  <1>5. CASE ProcessFinish
    <2>1. rules' \subseteq rules \cup (IF procEv.task \in ipt THEN {procEv.task} ELSE {}) /\ UNCHANGED ipt
      BY <1>5 DEF ProcessFinish
    <2> QED BY <1>0, <2>1 DEF Mapped
  <1>6. ASSUME NEW host \in BOOLEAN, Crash(host) PROVE Mapped'
    BY <1>0, <1>6 DEF Crash, Mapped
  <1> QED
    BY <1>1, <1>2, <1>3, <1>4, <1>5, <1>6, StepKinds DEF Quiet, CreateTask, CreateTaskRecords, Request,
       QueryTaskStatus, DeleteVm, DeleteInfo, CloseVm, PopEvent, Calls, VmCall, RestartSkipped,
       ProcessDeleted, GuestStop

\* Between the domain's going and the TaskInfo's, the domain stays away.
LEMMA NextUndefined ==
  ASSUME TaskInv, CleanInv, [Next]_vars
  PROVE  Undefined'
  <1> SUFFICES ASSUME NEW th \in Threads, NEW t \in Tasks,
                      jobs'[th].op = "delete.info", jobs'[th].task = t, t \notin raced'
               PROVE  dom'[t] = "ABSENT" /\ ~Handling(t)'
    BY DEF Undefined
  <1>0. /\ TypeInv /\ OwnInv /\ WaitInv /\ t \notin raced
        /\ NoJob.op = "none" /\ \A op, u : Job(op, u).op = op /\ Job(op, u).task = u
    BY RacedGrows DEF TaskInv, NoJob, Job
  <1>1. CASE jobs'[th] = jobs[th]
    <2>1. dom[t] = "ABSENT" /\ ~Handling(t) /\ InDelete(t)
      BY <1>0, <1>1 DEF CleanInv, Undefined, InDelete, Deletes
    <2>2. ~Handling(t)'
      BY <1>0, <2>1, HandlingStep
    <2>3. dom'[t] = "ABSENT"
      <3>1. ~(procPc = "vm" /\ procEv.task = t)
        BY <2>1 DEF Handling
      <3> QED BY <1>0, <2>1, <3>1, DomainStep
    <2> QED BY <2>2, <2>3
  <1>2. ASSUME NEW x \in Threads, DeleteVm(x)
        PROVE  dom'[t] = "ABSENT" /\ ~Handling(t)'
    <2>u. PICK u : u = jobs[x].task
      OBVIOUS
    <2>1. CASE th # x
      <3>1. jobs'[th] = jobs[th]
        BY <1>0, <1>2, <2>1, JobValue DEF DeleteVm
      <3> QED BY <1>1, <3>1
    <2>2. CASE th = x
      <3>1. /\ jobs' = [jobs EXCEPT ![x] = Job("delete.info", u)]
            /\ UNCHANGED <<procPc, procEv>>
        BY <1>2, <2>u DEF DeleteVm
      <3>2. u = t
        <4>1. jobs'[x] = Job("delete.info", u)
          BY <1>0, <3>1, JobValue
        <4> QED BY <1>0, <2>2, <4>1
      <3>3. PICK d : /\ dom' = [dom EXCEPT ![u] = d]
                     /\ raced' = IF d # "ABSENT" \/ Handling(u) THEN raced \cup {u} ELSE raced
        BY <1>2, <2>u, Zenon DEF DeleteVm
      <3>4. d = "ABSENT" /\ ~Handling(t)
        BY <3>2, <3>3
      <3>5. dom'[t] = "ABSENT"
        BY <1>0, <3>2, <3>3, <3>4 DEF TypeInv, TypeOK
      <3> QED BY <3>1, <3>4, <3>5 DEF Handling
    <2> QED BY <2>1, <2>2
  <1>3. ASSUME NEW x \in Threads, DeleteInfo(x) \/ DeleteRest(x)
        PROVE  jobs'[th] = jobs[th]
    <2>u. PICK u : u = jobs[x].task
      OBVIOUS
    <2>1. jobs' = [jobs EXCEPT ![x] = NoJob] \/ jobs' = [jobs EXCEPT ![x] = Job("delete.rest", u)]
      BY <1>3, <2>u DEF DeleteInfo, DeleteRest
    <2>2. /\ jobs'[x] = NoJob \/ jobs'[x] = Job("delete.rest", u)
          /\ \A y \in Threads \ {x} : jobs'[y] = jobs[y]
      BY <1>0, <2>1, JobValue
    <2> QED BY <1>0, <2>2
  <1>4. CASE CloseVm("R") \/ CloseRecord("R")
    <2>u. PICK u : u = jobs["R"].task
      OBVIOUS
    <2>1. jobs' = [jobs EXCEPT !["R"] = NoJob] \/ jobs' = [jobs EXCEPT !["R"] = Job("close.record", u)]
      BY <1>4, <2>u DEF CloseVm, CloseRecord
    <2>2. /\ jobs'["R"] = NoJob \/ jobs'["R"] = Job("close.record", u)
          /\ \A y \in Threads \ {"R"} : jobs'[y] = jobs[y]
      BY <1>0, <2>1, JobValue DEF Threads
    <2> QED BY <1>0, <1>1, <2>2
  <1>5. CASE PopEvent
    <2>u. PICK u : u = Head(events).task
      OBVIOUS
    <2>1. UNCHANGED jobs \/ jobs' = [jobs EXCEPT !["P"] = Job("delete.vm", u)]
      BY <1>5, <2>u DEF PopEvent
    <2>2. UNCHANGED jobs \/ (jobs'["P"].op = "delete.vm" /\ \A x \in Threads \ {"P"} : jobs'[x] = jobs[x])
      BY <1>0, <2>1, JobValue DEF Threads
    <2> QED BY <1>1, <2>2
  <1>6. CASE Quiet
    BY <1>1, <1>6 DEF Quiet
  <1>7. ASSUME NEW host \in BOOLEAN, Crash(host) PROVE FALSE
    BY <1>0, <1>7 DEF Crash
  <1>8. \/ UNCHANGED jobs
        \/ Quiet \/ PopEvent \/ CloseVm("R") \/ CloseRecord("R")
        \/ \E x \in Threads : DeleteVm(x) \/ DeleteInfo(x) \/ DeleteRest(x)
        \/ \E host \in BOOLEAN : Crash(host)
    BY <1>0, StepKinds DEF CreateTask, CreateTaskRecords, Request, QueryTaskStatus, Calls, VmCall,
         RestartSkipped, ProcessNetwork, ProcessFinish, ProcessDeleted, GuestStop
  <1> QED BY <1>1, <1>2, <1>3, <1>4, <1>5, <1>6, <1>7, <1>8

\* delete_task gets to its end, or a crash cuts it.
LEMMA RestingStep ==
  ASSUME TypeInv, WaitInv, [Next]_vars, NEW t \in Tasks, Resting(t)
  PROVE  Resting(t)' \/ Erased(t)' \/ t \in raced'
  <1>d. PICK x \in Threads : jobs[x].op = "delete.rest" /\ jobs[x].task = t
    BY DEF Resting
  <1>0. jobs[x] # NoJob
    BY <1>d DEF NoJob
  <1>1. CASE jobs'[x] = jobs[x]
    BY <1>d, <1>1 DEF Resting
  <1>2. ASSUME NEW th \in Threads, DeleteVm(th) \/ DeleteInfo(th)
        PROVE  jobs'[x] = jobs[x]
    <2>1. th # x
      BY <1>d, <1>2 DEF DeleteVm, DeleteInfo
    <2> QED BY <1>2, <2>1, JobValue DEF DeleteVm, DeleteInfo
  <1>3. ASSUME NEW th \in Threads, DeleteRest(th)
        PROVE  jobs'[x] = jobs[x] \/ Erased(t)'
    <2>1. CASE th # x
      BY <1>3, <2>1, JobValue DEF DeleteRest
    <2>2. CASE th = x
      BY <1>d, <1>3, <2>2 DEF DeleteRest, Erased
    <2> QED BY <2>1, <2>2
  <1>4. CASE CloseVm("R") \/ CloseRecord("R")
    <2>1. x # "R"
      BY <1>d, <1>4 DEF CloseVm, CloseRecord
    <2>2. jobs'[x] = jobs[x]
      BY <1>4, <2>1, JobValue DEF CloseVm, CloseRecord, Threads
    <2> QED BY <1>1, <2>2
  <1>5. CASE PopEvent
    <2>1. x # "P"
      BY <1>d, <1>5 DEF PopEvent, WaitInv, NoDeleteJob
    <2>2. UNCHANGED jobs \/ jobs' = [jobs EXCEPT !["P"] = Job("delete.vm", Head(events).task)]
      BY <1>5 DEF PopEvent
    <2>3. jobs'[x] = jobs[x]
      BY <2>1, <2>2, JobValue DEF Threads
    <2> QED BY <1>1, <2>3
  <1>6. CASE Quiet
    BY <1>0, <1>1, <1>6 DEF Quiet
  <1>7. ASSUME NEW host \in BOOLEAN, Crash(host) PROVE t \in raced'
    BY <1>d, <1>7 DEF Crash
  <1>8. \/ UNCHANGED jobs
        \/ Quiet \/ PopEvent \/ CloseVm("R") \/ CloseRecord("R")
        \/ \E th \in Threads : DeleteVm(th) \/ DeleteInfo(th) \/ DeleteRest(th)
        \/ \E host \in BOOLEAN : Crash(host)
    BY StepKinds DEF CreateTask, CreateTaskRecords, Request, QueryTaskStatus, Calls, VmCall,
         RestartSkipped, ProcessNetwork, ProcessFinish, ProcessDeleted, GuestStop
  <1> QED BY <1>1, <1>2, <1>3, <1>4, <1>5, <1>6, <1>7, <1>8

\* What is erased stays erased: only createTask and a handler would add to
\* the records of a task, and a task that is gone meets neither.
LEMMA ErasedStays ==
  ASSUME TypeInv, OwnInv, [Next]_vars, NEW t \in Tasks, info[t] = "absent", ~Handling(t), Erased(t)
  PROVE  Erased(t)'
  <1>1. CASE UNCHANGED <<ipt, rent>>
    BY <1>1 DEF Erased
  <1>2. CASE CreateTaskRecords
    <2>s. PICK s : s = svcNew.task
      OBVIOUS
    <2>1. s \in Tasks /\ Adding(s) /\ svcUser.wallet \in Wallets
      BY <1>2, <2>s DEF CreateTaskRecords, TypeInv, Locals, Adding
    <2>2. s # t
      BY <2>1 DEF OwnInv, OnDisk
    <2>3. rent' = [rent EXCEPT ![svcUser.wallet] = @ \cup {s}] /\ UNCHANGED ipt
      BY <1>2, <2>s DEF CreateTaskRecords
    <2> QED BY <2>1, <2>2, <2>3 DEF Erased, TypeInv, TypeOK
  <1>3. ASSUME NEW th \in Threads, DeleteRest(th) PROVE Erased(t)'
    BY <1>3 DEF DeleteRest, Erased
  <1>4. CASE ProcessNetwork
    <2>1. procEv.task # t
      BY <1>4 DEF ProcessNetwork, Handling
    <2> QED BY <1>4, <2>1 DEF ProcessNetwork, Erased
  <1> QED
    BY <1>1, <1>2, <1>3, <1>4, StepKinds DEF Quiet, CreateTask, Request, QueryTaskStatus, DeleteVm,
       DeleteInfo, CloseVm, CloseRecord, PopEvent, Calls, VmCall, RestartSkipped, ProcessFinish,
       ProcessDeleted, GuestStop, Crash

\* A task that was never created does not become one that was deleted.
LEMMA UnbornStep ==
  ASSUME TypeInv, [Next]_vars, NEW t \in Tasks, info[t] = "unborn"
  PROVE  info'[t] # "absent"
  <1>0. /\ info \in [Tasks -> Known \cup Gone] /\ "unborn" \notin Known
        /\ "unborn" # "absent" /\ "absent" # "Creating"
    BY DEF TypeInv, TypeOK, Known, Waiting, Settled
  <1>1. ASSUME NEW u \in Tasks, NEW n, CreateTask(u, n) PROVE info'[t] # "absent"
    BY <1>0, <1>1 DEF CreateTask
  <1>2. ASSUME NEW u \in Tasks, NEW type, Request(type, u) \/ QueryTaskStatus(u) PROVE info'[t] = "unborn"
    BY <1>0, <1>2 DEF Request, QueryTaskStatus, Exists
  <1>3. ASSUME NEW th \in Threads, DeleteInfo(th) PROVE info'[t] = "unborn"
    BY <1>0, <1>3 DEF DeleteInfo, Exists
  <1>4. CASE CloseRecord("R")
    BY <1>0, <1>4 DEF CloseRecord, Exists
  <1>5. CASE ProcessFinish
    <2>1. procEv.type \in EventType
      BY DEF TypeInv, TypeOK
    <2>2. Awaited[procEv.type] # "unborn"
      BY <1>0, <2>1, AwaitedWaiting DEF Known
    <2> QED BY <1>0, <1>5, <2>2 DEF ProcessFinish
  <1>6. ASSUME NEW host \in BOOLEAN, Crash(host) PROVE info'[t] # "absent"
    <2>1. t \in Loaded => info'[t] \in Known
      BY <1>6, CrashStatus
    <2>2. "absent" \notin Known
      BY DEF Known, Waiting, Settled
    <2>3. t \notin Loaded => info'[t] = "unborn"
      BY <1>6, CrashStatus
    <2> QED BY <1>0, <2>1, <2>2, <2>3
  <1> QED
    BY <1>0, <1>1, <1>2, <1>3, <1>4, <1>5, <1>6, StepKinds DEF Quiet, CreateTaskRecords, DeleteVm,
       DeleteRest, CloseVm, PopEvent, Calls, VmCall, RestartSkipped, ProcessNetwork, ProcessDeleted,
       GuestStop

\* A TaskInfo enters task.db only when createTask adds a new task.
LEMMA TaskDbStep ==
  ASSUME TypeInv, [Next]_vars, NEW t \in Tasks, info[t] # "unborn", t \notin taskDb
  PROVE  t \notin taskDb'
  <1>1. ASSUME NEW u \in Tasks, NEW n, CreateTask(u, n) PROVE t \notin taskDb'
    BY <1>1 DEF CreateTask
  <1>2. ASSUME NEW th \in Threads, DeleteInfo(th) PROVE t \notin taskDb'
    BY <1>2 DEF DeleteInfo
  <1> QED
    BY <1>1, <1>2, StepKinds DEF Quiet, CreateTaskRecords, Request, QueryTaskStatus, DeleteVm, DeleteRest,
       CloseVm, CloseRecord, PopEvent, Calls, VmCall, RestartSkipped, ProcessNetwork, ProcessFinish,
       ProcessDeleted, GuestStop, Crash

\* A task that is gone has no domain and no TaskInfo on disk, and what else
\* it had is erased or delete_task is about to erase it.
LEMMA NextDead ==
  ASSUME TaskInv, CleanInv, [Next]_vars
  PROVE  Dead'
  <1> SUFFICES ASSUME NEW t \in Tasks, info'[t] = "absent", t \notin raced'
               PROVE  /\ dom'[t] = "ABSENT" /\ t \notin taskDb' /\ ~Handling(t)'
                      /\ Resting(t)' \/ Erased(t)'
    BY DEF Dead
  <1>0. /\ TypeInv /\ OwnInv /\ WaitInv /\ t \notin raced
        /\ info \in [Tasks -> Known \cup Gone]
        /\ "absent" \notin Known
    BY RacedGrows DEF TaskInv, TypeInv, TypeOK, Known, Waiting, Settled
  <1>1. CASE info[t] = "absent"
    <2>1. dom[t] = "ABSENT" /\ t \notin taskDb /\ ~Handling(t) /\ (Resting(t) \/ Erased(t))
      BY <1>0, <1>1 DEF CleanInv, Dead
    <2>2. ~Handling(t)'
      BY <1>0, <1>1, <2>1, HandlingStep DEF Exists
    <2>3. dom'[t] = "ABSENT"
      <3>1. ~(procPc = "vm" /\ procEv.task = t)
        BY <2>1 DEF Handling
      <3> QED BY <1>0, <2>1, <3>1, DomainStep
    <2>4. t \notin taskDb'
      BY <1>0, <1>1, <2>1, TaskDbStep
    <2>5. Resting(t)' \/ Erased(t)'
      BY <1>0, <1>1, <2>1, RestingStep, ErasedStays
    <2> QED BY <2>2, <2>3, <2>4, <2>5
  <1>2. CASE info[t] # "absent"
    <2>1. Exists(t) /\ ~Exists(t)'
      BY <1>0, <1>2, UnbornStep DEF Exists, Gone
    <2>2. ASSUME NEW host \in BOOLEAN, Crash(host) PROVE FALSE
      <3>1. t \in taskDb \ Loaded
        BY <1>0, <2>1, <2>2, CrashStatus DEF CleanInv, Stored
      <3> QED BY <2>2, <3>1 DEF Crash
    <2>3. PICK th \in Threads : DeleteInfo(th) /\ jobs[th].task = t
      BY <1>0, <2>1, <2>2, KnownStays
    <2>4. /\ taskDb' = taskDb \ {t} /\ UNCHANGED <<dom, procPc, procEv>>
          /\ jobs' = [jobs EXCEPT ![th] = Job("delete.rest", t)]
          /\ jobs[th].op = "delete.info"
      BY <2>1, <2>3 DEF DeleteInfo
    <2>5. dom[t] = "ABSENT" /\ ~Handling(t)
      BY <1>0, <2>3, <2>4 DEF CleanInv, Undefined
    <2>6. Resting(t)'
      <3>1. jobs'[th] = Job("delete.rest", t)
        BY <1>0, <2>4, JobValue
      <3> QED BY <3>1 DEF Resting, Job
    <2> QED BY <2>4, <2>5, <2>6 DEF Handling
  <1> QED BY <1>1, <1>2

LEMMA NextClean ==
  ASSUME TaskInv, CleanInv, [Next]_vars
  PROVE  CleanInv'
  BY NextStored, NextMapped, NextUndefined, NextDead DEF CleanInv, TaskInv

\* A deleted task leaves no domain, TaskInfo, GPU, iptables rule, iptable
\* record or rent entry behind, unless libvirt refused, another handler of
\* the task overlapped the deletion or a crash cut it, and this however many
\* deletions of the same task run at the same time in the three threads.
THEOREM CleanDeletion == Spec => []CleanDelete
  <1>1. TaskInv /\ CleanInv /\ [Next]_vars => CleanInv'
    BY NextClean
  <1>2. TaskInv /\ GpuInv /\ [Next]_vars => GpuInv'
    BY NextGpus
  <1>3. GpuInv /\ CleanInv => CleanDelete
    <2> SUFFICES ASSUME GpuInv, CleanInv, NEW t \in Tasks,
                        info[t] = "absent", ~InDelete(t), t \notin raced
                 PROVE  /\ dom[t] = "ABSENT" /\ t \notin taskDb
                        /\ gpus[t] = {}
                        /\ t \notin ipt /\ t \notin rules
                        /\ t \notin Rented
      BY DEF CleanDelete
    <2>1. gpus[t] = {}
      BY DEF GpuInv, GoneHoldsNone, Exists, Known, Waiting, Settled
    <2>2. ~Resting(t)
      BY DEF Resting, InDelete, Deletes
    <2>3. dom[t] = "ABSENT" /\ t \notin taskDb /\ Erased(t)
      BY <2>2 DEF CleanInv, Dead
    <2>4. t \notin Rented
      BY <2>3 DEF Erased, Rented
    <2> QED BY <2>1, <2>3, <2>4 DEF Erased, CleanInv, Mapped
  <1> QED BY <1>1, <1>2, <1>3, InitClean, InitGpus, TaskInvHolds, PTL DEF Spec
=============================================================================
