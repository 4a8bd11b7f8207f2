------------------------- MODULE TaskManagerProofs -------------------------
(***************************************************************************)
(* Proofs about TaskManager, for any tasks, wallets and GPUs, any choice   *)
(* of faults and any number of crashes: its types, that every known task   *)
(* has an owner, and that a task that is gone does not come back.          *)
(***************************************************************************)
EXTENDS TaskManager, TLAPS, SequenceTheorems

USE TaskSets, NoTaskAssumption, NoWalletAssumption, StatusesAssumption, BoundsAssumption

Busy == procPc \in {"vm", "vm2", "net", "undo", "finish"}

\* What a thread's program counter says about its local variables.
Locals ==
  /\ \A th \in Threads : jobs[th].op # "none" => jobs[th].task \in Tasks
  /\ Busy => procEv.task \in Tasks /\ procEv.type # "Delete"
  /\ svcUser # Nobody => svcUser.wallet \in Wallets
  /\ svcPc \in {"ready", "create"} => svcUser # Nobody
  /\ svcPc = "create" => svcNew.task \in Tasks
  /\ prune.pc \in {"status", "close", "delete"} => prune.wallet \in Wallets

TypeInv == TypeOK /\ Locals

\* The status tables map to statuses.
LEMMA AwaitedWaiting == \A e \in EventType : Awaited[e] \in Waiting
  BY DEF EventType, Awaited, Waiting

LEMMA OutcomeSettled ==
  \A e \in EventType \ {"Delete"} : Success[e] \in Settled /\ Failure[e] \in Settled
  BY DEF EventType, Success, Failure, Settled

LEMMA StatusOfSettled == \A d \in DomainState \ {"ABSENT"} : StatusOf[d] \in Settled
  BY DEF DomainState, StatusOf, Settled

\* An event is queued at the end and taken from the front.
LEMMA PushEvents ==
  ASSUME NEW type \in EventType, NEW t \in Tasks, events \in Seq(Event), Push(type, t)
  PROVE  /\ events' \in Seq(Event)
         /\ \A i \in DOMAIN events' : events'[i].task = t \/ \E j \in DOMAIN events : events'[i] = events[j]
  BY DEF Push, Event

LEMMA PopEvents ==
  ASSUME events \in Seq(Event), events # <<>>, events' = Tail(events)
  PROVE  /\ events' \in Seq(Event)
         /\ Head(events) \in Event
         /\ 1 \in DOMAIN events /\ Head(events) = events[1]
         /\ \A i \in DOMAIN events' : \E j \in DOMAIN events : events'[i] = events[j]
  <1>1. Len(events) \in Nat /\ DOMAIN events = 1 .. Len(events) /\ Len(events) # 0
    BY EmptySeq, LenProperties
  <1>2. events' \in Seq(Event) /\ Head(events) \in Event /\ Len(events') = Len(events) - 1
    BY HeadTailProperties
  <1>3. \A i \in 1 .. Len(events') : events'[i] = events[i + 1]
    BY HeadTailProperties
  <1>4. DOMAIN events' = 1 .. Len(events')
    BY <1>2, LenProperties
  <1>5. Head(events) = events[1]
    OBVIOUS
  <1>6. \A i \in DOMAIN events' : i + 1 \in DOMAIN events
    BY <1>1, <1>2, <1>4
  <1> QED BY <1>1, <1>2, <1>3, <1>4, <1>5, <1>6

-----------------------------------------------------------------------------
(***************************************************************************)
(* Types.                                                                  *)
(***************************************************************************)

USE DEF vmVars, mgrVars, procVars, dbVars, svcVars, envVars

\* The initial state has its types.
LEMMA InitTypes == Init => TypeInv
  BY SMT DEF Init, TypeInv, TypeOK, Locals, Busy, Known, Gone, DomainState, EventType, NoEvent,
         Nobody, Role, NoNew, NoJob, JobOp, NoPrune, MachineStatus, Threads

\* The record values the threads store have their types.
LEMMA Records ==
  /\ NoEvent \in [type : EventType, task : Tasks \cup {NoTask}]
  /\ Nobody \in [wallet : Wallets \cup {NoWallet}, role : Role]
  /\ NoNew \in [task : Tasks \cup {NoTask}, gpus : SUBSET Gpus]
  /\ NoJob \in [op : JobOp, task : Tasks \cup {NoTask}] /\ NoJob.op = "none"
  /\ \A op \in JobOp, t \in Tasks :
       /\ Job(op, t) \in [op : JobOp, task : Tasks \cup {NoTask}]
       /\ Job(op, t).task = t /\ Job(op, t).op = op
  BY DEF NoEvent, EventType, Nobody, Role, NoNew, NoJob, JobOp, Job

\* A request that reaches the queue.
LEMMA RequestTypes ==
  ASSUME TypeInv, NEW type \in EventType, NEW t \in Tasks, Request(type, t)
  PROVE  TypeInv'
  <1>1. events' \in Seq(Event)
    BY PushEvents DEF Request, TypeInv, TypeOK
  <1>2. info' \in [Tasks -> Known \cup Gone]
    BY AwaitedWaiting DEF Request, TypeInv, TypeOK, Known
  <1>3. TypeOK'
    BY <1>1, <1>2, Records DEF Request, TypeInv, TypeOK
  <1>4. Locals'
    BY DEF Request, TypeInv, Locals, Busy
  <1> QED BY <1>3, <1>4 DEF TypeInv

\* The request thread.
LEMMA ServiceTypes == TypeInv /\ ServiceNext => TypeInv'
  <1> SUFFICES ASSUME TypeInv, ServiceNext PROVE TypeInv'
    OBVIOUS
  <1>1. ASSUME NEW w \in Wallets, CheckAuthority(w) PROVE TypeInv'
    <2>1. svcTodo' \subseteq Tasks
      BY <1>1 DEF CheckAuthority
    <2>2. /\ svcUser' \in [wallet : Wallets \cup {NoWallet}, role : Role]
          /\ svcUser' # Nobody => svcUser'.wallet \in Wallets
      BY <1>1, Records DEF CheckAuthority, Role
    <2>3. TypeOK'
      BY <1>1, <2>1, <2>2 DEF CheckAuthority, TypeInv, TypeOK
    <2>4. Locals'
      BY <1>1, <2>2 DEF CheckAuthority, TypeInv, Locals, Busy
    <2> QED BY <2>3, <2>4 DEF TypeInv
  <1>2. ASSUME NEW t \in Tasks, DeleteCheckTask(t) PROVE TypeInv'
    <2>1. TypeOK'
      BY <1>2, Records DEF DeleteCheckTask, TypeInv, TypeOK, JobOp, Threads
    <2>2. Locals'
      BY <1>2, Records DEF DeleteCheckTask, TypeInv, TypeOK, Locals, Busy, JobOp, Threads
    <2> QED BY <2>1, <2>2 DEF TypeInv
  <1>3. ASSUME Authorised PROVE TypeInv'
    <2>1. \/ svcPc' = "ready" /\ svcUser # Nobody /\ UNCHANGED svcUser
          \/ svcPc' = "idle" /\ svcUser' = Nobody
      BY <1>3 DEF Authorised
    <2> QED BY <1>3, <2>1, Records DEF Authorised, TypeInv, TypeOK, Locals, Busy
  <1>4. ASSUME RequestDone PROVE TypeInv'
    BY <1>4, Records DEF RequestDone, TypeInv, TypeOK, Locals, Busy
  <1>5. ASSUME NEW t \in Tasks, NEW n, CreateTask(t, n) PROVE TypeInv'
    <2>1. AllocateGpu(n) \subseteq Gpus
      BY DEF AllocateGpu
    <2>2. TypeOK'
      BY <1>5, <2>1 DEF CreateTask, TypeInv, TypeOK, Known, Waiting
    <2>3. Locals'
      BY <1>5 DEF CreateTask, TypeInv, Locals, Busy
    <2> QED BY <2>2, <2>3 DEF TypeInv
  <1>6. ASSUME CreateTaskRecords PROVE TypeInv'
    <2>1. svcNew.task \in Tasks /\ svcNew.gpus \subseteq Gpus
      BY <1>6 DEF CreateTaskRecords, TypeInv, TypeOK, Locals
    <2>2. events' \in Seq(Event)
      BY <1>6, <2>1, PushEvents DEF CreateTaskRecords, TypeInv, TypeOK, EventType
    <2>3. gpus' \in [Tasks -> SUBSET Gpus] /\ rent' \in [Wallets -> SUBSET Tasks]
      BY <1>6, <2>1 DEF CreateTaskRecords, TypeInv, TypeOK
    <2>4. TypeOK'
      BY <1>6, <2>2, <2>3, Records DEF CreateTaskRecords, TypeInv, TypeOK
    <2>5. Locals'
      BY <1>6 DEF CreateTaskRecords, TypeInv, Locals, Busy
    <2> QED BY <2>4, <2>5 DEF TypeInv
  <1>7. ASSUME NEW t \in Tasks, NEW type \in EventType, Request(type, t) PROVE TypeInv'
    BY <1>7, RequestTypes
  <1>8. ASSUME NEW t \in Tasks,
               \/ StartTask(t) \/ ShutdownTask(t) \/ PoweroffTask(t)
               \/ ResetTask(t) \/ DeleteTask(t)
               \/ \E force \in BOOLEAN : RestartTask(t, force)
        PROVE  \E type \in EventType : Request(type, t)
    BY <1>8 DEF StartTask, ShutdownTask, PoweroffTask, ResetTask, DeleteTask, RestartTask,
                EventType
  <1>9. ASSUME NEW t \in Tasks, QueryTaskStatus(t) PROVE TypeInv'
    <2>1. StatusOf[dom[t]] \in Known
      BY <1>9, StatusOfSettled DEF QueryTaskStatus, TypeInv, TypeOK, Known
    <2>2. TypeOK'
      BY <1>9, <2>1, Records DEF QueryTaskStatus, TypeInv, TypeOK
    <2>3. Locals'
      BY <1>9 DEF QueryTaskStatus, TypeInv, Locals, Busy
    <2> QED BY <2>2, <2>3 DEF TypeInv
  <1> QED BY <1>1, <1>2, <1>3, <1>4, <1>5, <1>6, <1>7, <1>8, <1>9 DEF ServiceNext

\* The outcomes of the libvirt calls are states of a domain.
LEMMA DomainOutcomes ==
  ASSUME TypeInv, NEW t \in Tasks
  PROVE  \A r \in StartDomain(t) \cup DestroyDomain(t) \cup RebootDomain(t)
                  \cup ResetDomain(t) \cup CreateDomain(t) :
           r[1] \in DomainState /\ r[2] \in BOOLEAN
  <1>1. DomainState = {"ABSENT", "SHUTOFF", "RUNNING", "PMSUSPENDED"} /\ dom[t] \in DomainState
    BY DEF DomainState, TypeInv, TypeOK
  <1>2. \A d \in DomainState :
          <<d, TRUE>> \in DomainState \X BOOLEAN /\ <<d, FALSE>> \in DomainState \X BOOLEAN
    OBVIOUS
  <1>3. StartDomain(t) \subseteq DomainState \X BOOLEAN
    <2>1. CASE dom[t] = "ABSENT"
      BY <1>1, <1>2, <2>1, Zenon DEF StartDomain
    <2>2. CASE dom[t] = "RUNNING"
      BY <1>1, <1>2, <2>2 DEF StartDomain
    <2>3. CASE dom[t] \notin {"ABSENT", "RUNNING"}
      BY <1>1, <1>2, <2>3 DEF StartDomain
    <2> QED BY <2>1, <2>2, <2>3
  <1>4. DestroyDomain(t) \subseteq DomainState \X BOOLEAN
    <2>1. CASE dom[t] = "ABSENT"
      BY <1>1, <1>2, <2>1, Zenon DEF DestroyDomain
    <2>2. CASE dom[t] = "SHUTOFF"
      BY <1>1, <1>2, <2>2 DEF DestroyDomain
    <2>3. CASE dom[t] \notin {"ABSENT", "SHUTOFF"}
      BY <1>1, <1>2, <2>3 DEF DestroyDomain
    <2> QED BY <2>1, <2>2, <2>3
  <1>5. RebootDomain(t) \cup ResetDomain(t) \subseteq DomainState \X BOOLEAN
    <2>1. RebootDomain(t) \subseteq {<<dom[t], TRUE>>, <<dom[t], FALSE>>}
      BY DEF RebootDomain
    <2>2. ResetDomain(t) \subseteq {<<dom[t], TRUE>>, <<dom[t], FALSE>>}
      BY Zenon DEF ResetDomain
    <2>3. <<dom[t], TRUE>> \in DomainState \X BOOLEAN /\ <<dom[t], FALSE>> \in DomainState \X BOOLEAN
      BY <1>1, <1>2, Zenon
    <2> QED BY <2>1, <2>2, <2>3, Zenon
  <1>6. CreateDomain(t) \subseteq DomainState \X BOOLEAN
    BY <1>1, <1>2 DEF CreateDomain
  <1>7. \A r \in DomainState \X BOOLEAN : r[1] \in DomainState /\ r[2] \in BOOLEAN
    OBVIOUS
  <1> QED BY <1>3, <1>4, <1>5, <1>6, <1>7

\* A thread takes up or gives up a job.
LEMMA JobUpdate ==
  ASSUME TypeInv, NEW th \in Threads, NEW j \in [op : JobOp, task : Tasks \cup {NoTask}],
         j.op # "none" => j.task \in Tasks, jobs' = [jobs EXCEPT ![th] = j]
  PROVE  /\ jobs' \in [Threads -> [op : JobOp, task : Tasks \cup {NoTask}]]
         /\ \A x \in Threads : jobs'[x].op # "none" => jobs'[x].task \in Tasks
  <1>1. jobs \in [Threads -> [op : JobOp, task : Tasks \cup {NoTask}]]
    BY DEF TypeInv, TypeOK
  <1>2. \A x \in Threads : jobs'[x] = IF x = th THEN j ELSE jobs[x]
    BY <1>1
  <1>3. \A x \in Threads : jobs[x].op # "none" => jobs[x].task \in Tasks
    BY DEF TypeInv, Locals
  <1> QED BY <1>1, <1>2, <1>3

LEMMA JobTaken ==
  ASSUME TypeInv, NEW th \in Threads, NEW op \in JobOp, NEW t \in Tasks,
         jobs' = [jobs EXCEPT ![th] = Job(op, t)]
  PROVE  /\ jobs' \in [Threads -> [op : JobOp, task : Tasks \cup {NoTask}]]
         /\ \A x \in Threads : jobs'[x].op # "none" => jobs'[x].task \in Tasks
  <1>1. /\ Job(op, t) \in [op : JobOp, task : Tasks \cup {NoTask}]
        /\ Job(op, t).op # "none" => Job(op, t).task \in Tasks
    BY Records
  <1> QED BY <1>1, JobUpdate

\* delete_task and close_task in any thread.
LEMMA JobTypes ==
  ASSUME TypeInv, NEW th \in Threads, DeleteStep(th) \/ CloseVm(th) \/ CloseRecord(th)
  PROVE  TypeInv'
  <1> DEFINE t == jobs[th].task
  <1>1. t \in Tasks
    BY DEF DeleteStep, DeleteVm, DeleteInfo, DeleteRest, CloseVm, CloseRecord, TypeInv, Locals
  <1>2. /\ jobs' \in [Threads -> [op : JobOp, task : Tasks \cup {NoTask}]]
        /\ \A x \in Threads : jobs'[x].op # "none" => jobs'[x].task \in Tasks
    <2>1. \/ jobs' = [jobs EXCEPT ![th] = NoJob]
          \/ \E op \in JobOp : jobs' = [jobs EXCEPT ![th] = Job(op, t)]
      BY DEF DeleteStep, DeleteVm, DeleteInfo, DeleteRest, CloseVm, CloseRecord, JobOp
    <2>2. CASE jobs' = [jobs EXCEPT ![th] = NoJob]
      BY <2>2, Records, JobUpdate
    <2>3. CASE \E op \in JobOp : jobs' = [jobs EXCEPT ![th] = Job(op, t)]
      BY <1>1, <2>3, JobTaken
    <2> QED BY <2>1, <2>2, <2>3
  <1>3. ASSUME TypeOK', UNCHANGED <<svcVars, prune, procVars>> PROVE TypeInv'
    BY <1>2, <1>3 DEF TypeInv, Locals, Busy
  <1>4. CASE DeleteVm(th)
    <2>1. DestroyAndUndefineDomain(t) \subseteq DomainState
      BY <1>1 DEF DestroyAndUndefineDomain, DomainState, TypeInv, TypeOK
    <2>2. TypeOK'
      BY <1>1, <1>2, <1>4, <2>1 DEF DeleteVm, TypeInv, TypeOK
    <2> QED BY <1>3, <1>4, <2>2 DEF DeleteVm
  <1>5. CASE DeleteInfo(th)
    <2>1. /\ info' \in [Tasks -> Known \cup Gone] /\ taskDb' \subseteq Tasks
          /\ gpus' \in [Tasks -> SUBSET Gpus]
      BY <1>5 DEF DeleteInfo, TypeInv, TypeOK, Gone
    <2>2. UNCHANGED <<vmVars, rent, ipt, rules, events, procVars, svcVars, prune, envVars, raced>>
      BY <1>5 DEF DeleteInfo
    <2>3. TypeOK'
      BY <1>2, <2>1, <2>2 DEF TypeInv, TypeOK
    <2> QED BY <1>3, <2>2, <2>3
  <1>6. CASE DeleteRest(th)
    <2>1. TypeOK'
      BY <1>2, <1>6 DEF DeleteRest, TypeInv, TypeOK
    <2> QED BY <1>3, <1>6, <2>1 DEF DeleteRest
  <1>7. CASE CloseVm(th)
    <2>1. \A r \in DestroyDomain(t) : r[1] \in DomainState
      BY <1>1, DomainOutcomes
    <2>2. dom' \in [Tasks -> DomainState]
      BY <1>1, <1>7, <2>1 DEF CloseVm, TypeInv, TypeOK
    <2>3. TypeOK'
      BY <1>2, <1>7, <2>2 DEF CloseVm, TypeInv, TypeOK
    <2> QED BY <1>3, <1>7, <2>3 DEF CloseVm
  <1>8. CASE CloseRecord(th)
    <2>1. info' \in [Tasks -> Known \cup Gone] /\ rules' \subseteq Tasks
      BY <1>8 DEF CloseRecord, TypeInv, TypeOK, Known, Settled
    <2>2. UNCHANGED <<taskDb, gpus, rent, ipt, vmVars, events, procVars, svcVars, prune, envVars, raced>>
      BY <1>8 DEF CloseRecord
    <2>3. TypeOK'
      BY <1>2, <2>1, <2>2 DEF TypeInv, TypeOK
    <2> QED BY <1>3, <2>2, <2>3
  <1> QED BY <1>4, <1>5, <1>6, <1>7, <1>8 DEF DeleteStep

\* A handler of the process thread after one of its libvirt calls.
LEMMA VmCallTypes ==
  ASSUME TypeInv, Busy, NEW r, NEW pc, VmCall(r, pc),
         r[1] \in DomainState, r[2] \in BOOLEAN, hostdev' \in [Tasks -> SUBSET Gpus],
         pc \in {"vm2", "net", "undo", "finish"}
  PROVE  TypeInv'
  <1>1. dom' \in [Tasks -> DomainState]
    BY DEF VmCall, TypeInv, TypeOK
  <1>2. procPc' \in {"vm2", "net", "undo", "finish"} /\ procOk' \in BOOLEAN
    BY DEF VmCall
  <1>3. UNCHANGED <<info, mgrVars, events, procEv, toWrite, dbVars, svcVars, jobs, prune, envVars,
                    raced>>
    BY DEF VmCall
  <1>4. TypeOK'
    BY <1>1, <1>2, <1>3 DEF TypeInv, TypeOK
  <1>5. Locals'
    BY <1>2, <1>3 DEF TypeInv, Locals, Busy
  <1> QED BY <1>4, <1>5 DEF TypeInv

\* The process thread.
LEMMA ProcessTypes == TypeInv /\ ProcessNext => TypeInv'
  <1> SUFFICES ASSUME TypeInv, ProcessNext PROVE TypeInv'
    OBVIOUS
  <1> DEFINE t == procEv.task
  <1>1. ASSUME Busy PROVE t \in Tasks
    BY <1>1 DEF TypeInv, Locals
  <1>2. hostdev \in [Tasks -> SUBSET Gpus] /\ gpus \in [Tasks -> SUBSET Gpus]
    BY DEF TypeInv, TypeOK
  <1>3. CASE PopEvent
    <2>1. events' \in Seq(Event) /\ Head(events) \in Event
      BY <1>3, PopEvents DEF PopEvent, TypeInv, TypeOK
    <2>2. Head(events).task \in Tasks /\ Head(events).type \in EventType
      BY <2>1 DEF Event
    <2>3. /\ jobs' \in [Threads -> [op : JobOp, task : Tasks \cup {NoTask}]]
          /\ \A x \in Threads : jobs'[x].op # "none" => jobs'[x].task \in Tasks
      <3>1. CASE UNCHANGED jobs
        BY <3>1 DEF TypeInv, TypeOK, Locals
      <3>2. CASE jobs' = [jobs EXCEPT !["P"] = Job("delete.vm", Head(events).task)]
        BY <2>2, <3>2, JobTaken DEF JobOp, Threads
      <3> QED BY <1>3, <3>1, <3>2 DEF PopEvent
    <2>4. procEv' \in [type : EventType, task : Tasks \cup {NoTask}]
      BY <1>3, <2>1, <2>2, Records DEF PopEvent, Event
    <2>5. TypeOK'
      BY <1>3, <2>1, <2>2, <2>3, <2>4 DEF PopEvent, TypeInv, TypeOK
    <2>6. Locals'
      BY <1>3, <2>2, <2>3 DEF PopEvent, TypeInv, Locals, Busy
    <2> QED BY <2>5, <2>6 DEF TypeInv
  <1>4. CASE ProcessCreate
    <2>1. Busy
      BY <1>4 DEF ProcessCreate, Handler, Busy
    <2>2. PICK r \in CreateDomain(t) :
            /\ hostdev' = [hostdev EXCEPT ![t] = IF r[1] = "ABSENT" THEN {} ELSE gpus[t]]
            /\ VmCall(r, IF r[2] /\ t \notin PxeTasks THEN "net" ELSE "finish")
      BY <1>4 DEF ProcessCreate
    <2>3. hostdev' \in [Tasks -> SUBSET Gpus]
      BY <1>1, <1>2, <2>1, <2>2
    <2> QED BY <1>1, <2>1, <2>2, <2>3, DomainOutcomes, VmCallTypes
  <1>5. CASE \E r \in StartDomain(t) \cup DestroyDomain(t) \cup RebootDomain(t) \cup ResetDomain(t),
                pc \in {"vm2", "net", "undo", "finish"} :
               Busy /\ UNCHANGED hostdev /\ VmCall(r, pc)
    BY <1>1, <1>2, <1>5, DomainOutcomes, VmCallTypes
  <1>6. CASE ProcessStart \/ ProcessStop \/ ProcessForceReboot \/ ForceRebootStart \/ ProcessReset
    BY <1>5, <1>6 DEF ProcessStart, ProcessStop, ProcessForceReboot, ForceRebootStart,
                      ProcessReset, Handler, Busy
  <1>7. ASSUME procPc' = "update", procEv' = NoEvent \/ UNCHANGED procEv, procOk' \in BOOLEAN,
               toWrite' \subseteq Tasks,
               info' \in [Tasks -> Known \cup Gone], rules' \subseteq Tasks,
               UNCHANGED <<gpus, rent, ipt, vmVars, events, dbVars, svcVars, jobs, prune,
                           envVars, raced>>
        PROVE  TypeInv'
    <2>1. TypeOK'
      BY <1>7, Records DEF TypeInv, TypeOK
    <2>2. Locals'
      BY <1>7 DEF TypeInv, Locals, Busy
    <2> QED BY <2>1, <2>2 DEF TypeInv
  <1>8. CASE ProcessRestart
    <2>1. CASE procPc' = "finish"
      BY <1>5, <1>8, <2>1 DEF ProcessRestart, Handler, Busy
    <2>2. CASE procPc' = "update"
      BY <1>7, <1>8, <2>2 DEF ProcessRestart, VmCall, TypeInv, TypeOK
    <2> QED BY <1>8, <2>1, <2>2 DEF ProcessRestart, VmCall
  <1>9. CASE ProcessNetwork
    <2>1. Busy
      BY <1>9 DEF ProcessNetwork, Busy
    <2>2. TypeOK'
      BY <1>1, <1>9, <2>1 DEF ProcessNetwork, TypeInv, TypeOK
    <2>3. Locals'
      BY <1>9 DEF ProcessNetwork, TypeInv, Locals, Busy
    <2> QED BY <2>2, <2>3 DEF TypeInv
  <1>10. CASE ProcessUndo
    <2>1. Busy
      BY <1>10 DEF ProcessUndo, Busy
    <2>2. PICK r \in DestroyDomain(t) : VmCall(<<r[1], FALSE>>, "finish")
      BY <1>10 DEF ProcessUndo
    <2>3. <<r[1], FALSE>>[1] \in DomainState /\ <<r[1], FALSE>>[2] \in BOOLEAN
      BY <1>1, <2>1, <2>2, DomainOutcomes
    <2> QED BY <1>2, <1>10, <2>1, <2>2, <2>3, VmCallTypes DEF ProcessUndo
  <1>11. CASE ProcessFinish
    <2>1. Busy /\ procEv.type \in EventType \ {"Delete"}
      BY <1>11 DEF ProcessFinish, Busy, TypeInv, TypeOK, Locals
    <2>2. info' \in [Tasks -> Known \cup Gone]
      BY <1>11, <2>1, OutcomeSettled DEF ProcessFinish, TypeInv, TypeOK, Known
    <2>3. rules' \subseteq Tasks
      BY <1>11 DEF ProcessFinish, TypeInv, TypeOK
    <2> QED BY <1>7, <1>11, <2>2, <2>3 DEF ProcessFinish, TypeInv, TypeOK
  <1>12. CASE ProcessDeleted
    BY <1>7, <1>12 DEF ProcessDeleted, TypeInv, TypeOK
  <1>13. CASE UpdateRunningTasks \/ RunningDbClear \/ RunningDbWrite
    <2>1. TypeOK'
      BY <1>13 DEF UpdateRunningTasks, RunningDbClear, RunningDbWrite, TypeInv, TypeOK
    <2>2. Locals'
      BY <1>13 DEF UpdateRunningTasks, RunningDbClear, RunningDbWrite, TypeInv, Locals, Busy
    <2> QED BY <2>1, <2>2 DEF TypeInv
  <1> QED BY <1>3, <1>4, <1>6, <1>8, <1>9, <1>10, <1>11, <1>12, <1>13 DEF ProcessNext

\* The prune thread.
LEMMA PruneTypes == TypeInv /\ PruneNext => TypeInv'
  <1> SUFFICES ASSUME TypeInv, PruneNext PROVE TypeInv'
    OBVIOUS
  <1> DEFINE PruneType == [pc : {"wait", "renter", "wallets", "status", "close", "delete"},
                           status : MachineStatus, renter : Wallets \cup {NoWallet},
                           wallets : SUBSET Wallets, wallet : Wallets \cup {NoWallet},
                           todo : SUBSET Tasks]
  <1> HIDE DEF PruneType
  <1>1. prune \in PruneType
    BY DEF TypeInv, TypeOK, PruneType
  <1>2. ASSUME prune' \in PruneType,
               prune'.pc \in {"status", "close", "delete"} => prune'.wallet \in Wallets,
               UNCHANGED <<info, mgrVars, vmVars, events, procVars, taskDb, svcVars, jobs,
                           envVars, raced>>
        PROVE  TypeInv'
    <2>1. TypeOK'
      BY <1>2 DEF TypeInv, TypeOK, PruneType
    <2>2. Locals'
      BY <1>2 DEF TypeInv, Locals, Busy
    <2> QED BY <2>1, <2>2 DEF TypeInv
  <1>3. CASE PruneBegin \/ PruneRenter
    <2>1. chain.status \in MachineStatus /\ chain.wallet \in Wallets \cup {NoWallet}
      BY DEF TypeInv, TypeOK, ChainStates, MachineStatus
    <2>2. CASE PruneBegin
      <3>1. prune' \in PruneType /\ prune'.pc = "renter"
        BY <1>1, <2>1, <2>2 DEF PruneBegin, PruneType
      <3> QED BY <1>2, <2>2, <3>1 DEF PruneBegin
    <2>3. CASE PruneRenter
      <3>1. PICK renter \in Wallets \cup {NoWallet} :
              prune' = [prune EXCEPT !.pc = "wallets", !.renter = renter,
                                     !.wallets = {w \in Wallets : rent[w] # {}}]
        BY <2>1, <2>3 DEF PruneRenter
      <3>2. prune' \in PruneType /\ prune'.pc = "wallets"
        BY <1>1, <3>1 DEF PruneType
      <3> QED BY <1>2, <2>3, <3>2 DEF PruneRenter
    <2> QED BY <1>3, <2>2, <2>3
  <1>4. ASSUME NEW w \in Wallets, PruneWallet(w) PROVE TypeInv'
    <2>1. prune.status \in MachineStatus /\ rent[w] \subseteq Tasks
      BY <1>1 DEF PruneType, TypeInv, TypeOK
    <2>2. ByStatus(rent[w]) \subseteq Tasks
      BY <2>1 DEF ByStatus, MachineStatus
    <2>3. prune' \in PruneType /\ prune'.wallet = w
      BY <1>1, <1>4, <2>2 DEF PruneWallet, PruneType
    <2> QED BY <1>2, <1>4, <2>3 DEF PruneWallet
  <1>5. ASSUME NEW t \in Tasks, PruneTask(t) PROVE TypeInv'
    <2>1. /\ jobs' \in [Threads -> [op : JobOp, task : Tasks \cup {NoTask}]]
          /\ \A x \in Threads : jobs'[x].op # "none" => jobs'[x].task \in Tasks
      <3>1. \E op \in JobOp : jobs' = [jobs EXCEPT !["R"] = Job(op, t)]
        BY <1>5 DEF PruneTask, JobOp
      <3> QED BY <3>1, JobTaken DEF Threads
    <2>2. prune' \in PruneType /\ prune'.pc = prune.pc /\ prune'.wallet = prune.wallet
      BY <1>1, <1>5 DEF PruneTask, PruneType
    <2>3. UNCHANGED <<info, mgrVars, vmVars, events, procVars, taskDb, svcVars, envVars, raced>>
      BY <1>5 DEF PruneTask
    <2>4. TypeOK'
      BY <2>1, <2>2, <2>3 DEF TypeInv, TypeOK, PruneType
    <2>5. Locals'
      BY <2>1, <2>2, <2>3 DEF TypeInv, Locals, Busy
    <2> QED BY <2>4, <2>5 DEF TypeInv
  <1>6. CASE PruneNextPhase
    <2>1. prune.pc \in {"status", "close", "delete"} /\ prune.wallet \in Wallets
      BY <1>6 DEF PruneNextPhase, TypeInv, Locals
    <2>2. rent[prune.wallet] \subseteq Tasks
      BY <2>1 DEF TypeInv, TypeOK
    <2>3. /\ prune' \in PruneType
          /\ prune'.pc = "wallets" \/ prune'.wallet = prune.wallet
      BY <1>1, <1>6, <2>2 DEF PruneNextPhase, PruneType
    <2> QED BY <1>2, <1>6, <2>1, <2>3 DEF PruneNextPhase
  <1>7. CASE PruneEnd
    <2>1. prune' \in PruneType /\ prune'.pc = "wait"
      BY <1>7 DEF PruneEnd, NoPrune, PruneType, MachineStatus
    <2> QED BY <1>2, <1>7, <2>1 DEF PruneEnd
  <1>8. CASE CloseVm("R") \/ CloseRecord("R")
    BY <1>8, JobTypes DEF Threads
  <1> QED BY <1>3, <1>4, <1>5, <1>6, <1>7, <1>8 DEF PruneNext

\* The environment and the recovery from a crash.
LEMMA EnvironmentTypes == TypeInv /\ Environment => TypeInv'
  <1> SUFFICES ASSUME TypeInv, Environment PROVE TypeInv'
    OBVIOUS
  <1>1. ASSUME NEW t \in Tasks, NEW d \in {"SHUTOFF", "PMSUSPENDED"}, GuestStop(t, d)
        PROVE  TypeInv'
    <2>1. TypeOK'
      BY <1>1 DEF GuestStop, TypeInv, TypeOK, DomainState
    <2>2. Locals'
      BY <1>1 DEF GuestStop, TypeInv, Locals, Busy
    <2> QED BY <2>1, <2>2 DEF TypeInv
  <1>2. CASE ChainChange
    <2>1. TypeOK'
      BY <1>2 DEF ChainChange, TypeInv, TypeOK
    <2>2. Locals'
      BY <1>2 DEF ChainChange, TypeInv, Locals, Busy
    <2> QED BY <2>1, <2>2 DEF TypeInv
  <1>3. ASSUME NEW host \in BOOLEAN, Crash(host) PROVE TypeInv'
    <2>1. dom' \in [Tasks -> DomainState]
      BY <1>3 DEF Crash, TypeInv, TypeOK, DomainState
    <2>2. info' \in [Tasks -> Known \cup Gone]
      <3> DEFINE off == [t \in Tasks |-> IF host /\ dom[t] \in Active THEN "SHUTOFF" ELSE dom[t]]
      <3>1. \A t \in Loaded : StatusOf[off[t]] \in Known
        <4>1. \A t \in Loaded : off[t] \in DomainState \ {"ABSENT"}
          BY DEF Loaded, TypeInv, TypeOK, DomainState
        <4> QED BY <4>1, StatusOfSettled DEF Known
      <3> HIDE DEF off
      <3>2. "Running" \in Known /\ {"unborn", "absent"} \subseteq Known \cup Gone
        BY DEF Known, Settled, Gone
      <3>3. \A t \in Tasks : (CASE t \in runDb \cap Loaded -> "Running"
                                [] t \in Loaded \ (runDb \cap Loaded) -> StatusOf[off[t]]
                                [] t \notin Loaded /\ info[t] = "unborn" -> "unborn"
                                [] OTHER -> "absent") \in Known \cup Gone
        BY <3>1, <3>2
      <3> QED BY <1>3, <3>3 DEF Crash, off
    <2>3. gpus' \in [Tasks -> SUBSET Gpus]
      BY <1>3 DEF Crash, TypeInv, TypeOK
    <2>4. /\ jobs' \in [Threads -> [op : JobOp, task : Tasks \cup {NoTask}]]
          /\ \A x \in Threads : jobs'[x].op = "none"
      BY <1>3, Records DEF Crash
    <2>5. raced' \subseteq Tasks /\ rules' \subseteq Tasks /\ toWrite' \subseteq Tasks
      BY <1>3 DEF Crash, TypeInv, TypeOK, Locals
    <2>6. /\ prune' = NoPrune /\ NoPrune.pc = "wait"
          /\ NoPrune \in [pc : {"wait", "renter", "wallets", "status", "close", "delete"},
                          status : MachineStatus, renter : Wallets \cup {NoWallet},
                          wallets : SUBSET Wallets, wallet : Wallets \cup {NoWallet},
                          todo : SUBSET Tasks]
      BY <1>3 DEF Crash, NoPrune, MachineStatus
    <2>7. /\ crashes' \in Nat
          /\ events' = <<>> /\ procPc' = "idle" /\ procEv' = NoEvent /\ procOk' = TRUE
          /\ svcPc' = "idle" /\ svcTodo' = {} /\ svcUser' = Nobody /\ svcNew' = NoNew
          /\ UNCHANGED <<hostdev, rent, ipt, dbVars, chain>>
      BY <1>3 DEF Crash, TypeInv, TypeOK
    <2>8. TypeOK'
      BY <2>1, <2>2, <2>3, <2>4, <2>5, <2>6, <2>7, Records DEF TypeInv, TypeOK
    <2>9. Locals'
      BY <2>4, <2>6, <2>7 DEF Locals, Busy
    <2> QED BY <2>8, <2>9 DEF TypeInv
  <1> QED BY <1>1, <1>2, <1>3 DEF Environment

\* Every step keeps the types.
LEMMA NextTypes == TypeInv /\ [Next]_vars => TypeInv'
  <1> SUFFICES ASSUME TypeInv, [Next]_vars PROVE TypeInv'
    OBVIOUS
  <1>1. CASE UNCHANGED vars
    BY <1>1 DEF vars, TypeInv, TypeOK, Locals, Busy
  <1>2. ASSUME NEW th \in Threads, DeleteStep(th) PROVE TypeInv'
    BY <1>2, JobTypes
  <1> QED BY <1>1, <1>2, ServiceTypes, ProcessTypes, PruneTypes, EnvironmentTypes DEF Next

\* Every reachable state has its types, and the program counters agree with
\* the local variables of the threads.
THEOREM TypeCorrect == Spec => []TypeOK
  <1>1. TypeInv => TypeOK
    BY DEF TypeInv
  <1> QED BY <1>1, InitTypes, NextTypes, PTL DEF Spec

-----------------------------------------------------------------------------
(***************************************************************************)
(* Ownership and deletion.  Owned is not inductive: a crash brings back    *)
(* the tasks of task.db that have a domain, delete_task takes a task out   *)
(* of the rent lists by its id.  So it has to be known that a task still   *)
(* outside the rent lists has no domain and is nobody's business, that     *)
(* the record of a task that is gone is off the disk or has no domain and  *)
(* never gets one, and that delete_task reaches the rent lists only after  *)
(* the task is gone.                                                       *)
(***************************************************************************)

\* createTask has stored the TaskInfo but not yet the rest.
Adding(t) == svcPc = "create" /\ svcNew.task = t

\* No thread, queue or list refers to the task, and it has no domain.
Untouched(t) ==
  /\ dom[t] = "ABSENT"
  /\ \A w \in Wallets : t \notin rent[w]
  /\ \A i \in DOMAIN events : events[i].task # t
  /\ \A th \in Threads : jobs[th].task # t
  /\ procEv.task # t
  /\ t \notin prune.todo /\ t \notin svcTodo

Fresh == \A t \in Tasks : info[t] = "unborn" \/ Adding(t) => Untouched(t)

OnDisk ==
  \A t \in Tasks :
    /\ info[t] = "unborn" => t \notin taskDb
    /\ Adding(t) => info[t] = "Creating"
    /\ info[t] = "absent" /\ t \in taskDb => dom[t] = "ABSENT" /\ ~Handling(t)

RestGone == \A th \in Threads : jobs[th].op = "delete.rest" => info[jobs[th].task] = "absent"

OwnInv == Fresh /\ OnDisk /\ RestGone /\ Owned

\* No task is anyone's initially.
LEMMA InitOwn == Init => OwnInv
  BY DEF Init, OwnInv, Fresh, OnDisk, RestGone, Owned, Adding, Untouched, Handling, Exists, Known,
         Waiting, Settled, NoJob, NoEvent, NoPrune, Threads

\* A request that reaches the queue concerns a task that is known, and none
\* is being added.
LEMMA RequestOwn ==
  ASSUME TypeInv, OwnInv, NEW type \in EventType, NEW t \in Tasks, Request(type, t)
  PROVE  OwnInv'
  <1>1. info[t] \in Known /\ info'[t] \in Known /\ \A u \in Tasks \ {t} : info'[u] = info[u]
    BY AwaitedWaiting DEF Request, Exists, TypeInv, TypeOK, Known
  <1>2. "unborn" \notin Known /\ "absent" \notin Known
    BY DEF Known, Waiting, Settled
  <1>3. \A i \in DOMAIN events' : events'[i].task = t \/ \E j \in DOMAIN events : events'[i] = events[j]
    BY PushEvents DEF Request, TypeInv, TypeOK
  <1>4. \A u \in Tasks : ~Adding(u) /\ ~Adding(u)'
    BY DEF Request, Adding
  <1>5. UNCHANGED <<taskDb, vmVars, mgrVars, procVars, svcTodo, jobs, prune>>
    BY DEF Request
  <1>6. Fresh'
    BY <1>1, <1>2, <1>3, <1>4, <1>5 DEF OwnInv, Fresh, Untouched
  <1>7. OnDisk'
    BY <1>1, <1>2, <1>4, <1>5 DEF OwnInv, OnDisk, Handling
  <1>8. RestGone'
    BY <1>1, <1>2, <1>5 DEF OwnInv, RestGone, TypeInv, Locals
  <1>9. Owned'
    BY <1>1, <1>4, <1>5 DEF OwnInv, Owned, Exists, Rented, Adding
  <1> QED BY <1>6, <1>7, <1>8, <1>9 DEF OwnInv

\* A step that leaves the records, the domains and the queue alone, lets no
\* thread turn to another task and does not begin a handler.
LEMMA QuietOwn ==
  ASSUME OwnInv, UNCHANGED <<info, taskDb, dom, rent, events, jobs>>,
         \A t \in Tasks : Adding(t)' => Adding(t),
         \A t \in Tasks : Adding(t) => Adding(t)',
         \A t \in Tasks : Handling(t)' => Handling(t),
         \A t \in Tasks : procEv'.task = t => procEv.task = t,
         \A t \in Tasks : t \in prune'.todo =>
            t \in prune.todo \/ \E w \in Wallets : t \in rent[w],
         \A t \in Tasks : t \in svcTodo' => t \in svcTodo \/ (Exists(t) /\ svcPc # "create")
  PROVE  OwnInv'
  <1>1. "unborn" \notin Known
    BY DEF Known, Waiting, Settled
  <1>2. Fresh'
    BY <1>1 DEF OwnInv, Fresh, Untouched, Adding, Exists
  <1>3. OnDisk'
    BY DEF OwnInv, OnDisk
  <1>4. RestGone'
    BY DEF OwnInv, RestGone
  <1>5. Owned'
    BY DEF OwnInv, Owned, Exists, Rented, Adding
  <1> QED BY <1>2, <1>3, <1>4, <1>5 DEF OwnInv

\* The request thread.
LEMMA ServiceOwn == TypeInv /\ OwnInv /\ ServiceNext => OwnInv'
  <1> SUFFICES ASSUME TypeInv, OwnInv, ServiceNext PROVE OwnInv'
    OBVIOUS
  <1>0. "unborn" \notin Known /\ "absent" \notin Known /\ "Creating" \in Known
    BY DEF Known, Waiting, Settled
  <1>1. ASSUME NEW w \in Wallets, CheckAuthority(w) PROVE OwnInv'
    BY <1>1, QuietOwn DEF CheckAuthority, Adding, Handling
  <1>2. ASSUME NEW t \in Tasks, DeleteCheckTask(t) PROVE OwnInv'
    <2>1. /\ jobs'["S"] = Job("delete.vm", t)
          /\ \A th \in Threads \ {"S"} : jobs'[th] = jobs[th]
      BY <1>2 DEF DeleteCheckTask, TypeInv, TypeOK, Threads
    <2>2. Job("delete.vm", t).task = t /\ Job("delete.vm", t).op = "delete.vm"
      BY DEF Job
    <2>3. UNCHANGED <<info, taskDb, dom, rent, events, procPc, procEv, prune, svcPc, svcNew>>
          /\ t \in svcTodo /\ svcTodo' \subseteq svcTodo
      BY <1>2 DEF DeleteCheckTask
    <2>4. Fresh'
      BY <2>1, <2>2, <2>3 DEF OwnInv, Fresh, Untouched, Adding
    <2>5. RestGone'
      BY <2>1, <2>2, <2>3 DEF OwnInv, RestGone
    <2>6. OnDisk'
      BY <2>3 DEF OwnInv, OnDisk, Adding, Handling
    <2>7. Owned'
      BY <2>3 DEF OwnInv, Owned, Exists, Rented
    <2> QED BY <2>4, <2>5, <2>6, <2>7 DEF OwnInv
  <1>3. CASE Authorised
    BY <1>3, QuietOwn DEF Authorised, Adding, Handling
  <1>4. CASE RequestDone
    BY <1>4, QuietOwn DEF RequestDone, Adding, Handling
  <1>5. ASSUME NEW t \in Tasks, NEW n, CreateTask(t, n) PROVE OwnInv'
    <2>1. /\ info[t] = "unborn" /\ info'[t] = "Creating"
          /\ \A u \in Tasks \ {t} : info'[u] = info[u]
      BY <1>5 DEF CreateTask, TypeInv, TypeOK
    <2>2. \A u \in Tasks : ~Adding(u) /\ (Adding(u)' <=> u = t)
      BY <1>5 DEF CreateTask, Adding
    <2>3. /\ UNCHANGED <<dom, rent, events, procPc, procEv, prune, jobs, svcTodo>>
          /\ taskDb' = taskDb \cup {t}
      BY <1>5 DEF CreateTask
    <2>4. Fresh'
      BY <2>1, <2>2, <2>3 DEF OwnInv, Fresh, Untouched
    <2>5. OnDisk'
      BY <2>1, <2>2, <2>3 DEF OwnInv, OnDisk, Handling
    <2>6. RestGone'
      BY <2>1, <2>3 DEF OwnInv, RestGone, Fresh, Untouched, TypeInv, Locals
    <2>7. Owned'
      BY <1>0, <2>1, <2>2, <2>3 DEF OwnInv, Owned, Exists, Rented, Adding
    <2> QED BY <2>4, <2>5, <2>6, <2>7 DEF OwnInv
  <1>6. CASE CreateTaskRecords
    <2> DEFINE t == svcNew.task
    <2>1. Adding(t) /\ t \in Tasks /\ svcUser.wallet \in Wallets
      BY <1>6 DEF CreateTaskRecords, Adding, TypeInv, Locals
    <2>2. /\ UNCHANGED <<info, taskDb, dom, procPc, procEv, prune, jobs, svcTodo>>
          /\ \A u \in Tasks : ~Adding(u)'
      BY <1>6 DEF CreateTaskRecords, Adding
    <2>3. /\ t \in rent'[svcUser.wallet]
          /\ \A w \in Wallets : \A u \in Tasks \ {t} : u \in rent'[w] <=> u \in rent[w]
          /\ \A w \in Wallets : rent[w] \subseteq rent'[w]
      BY <1>6, <2>1 DEF CreateTaskRecords, TypeInv, TypeOK
    <2>4. \A i \in DOMAIN events' : events'[i].task = t \/ \E j \in DOMAIN events : events'[i] = events[j]
      BY <1>6, <2>1, PushEvents DEF CreateTaskRecords, TypeInv, TypeOK, EventType
    <2>5. info[t] = "Creating"
      BY <2>1 DEF OwnInv, OnDisk
    <2>6. Fresh'
      BY <2>2, <2>3, <2>4, <2>5 DEF OwnInv, Fresh, Untouched
    <2>7. OnDisk' /\ RestGone'
      BY <2>2 DEF OwnInv, OnDisk, RestGone, Handling
    <2>8. Owned'
      BY <2>1, <2>2, <2>3 DEF OwnInv, Owned, Exists, Rented, Adding
    <2> QED BY <2>6, <2>7, <2>8 DEF OwnInv
  <1>7. ASSUME NEW t \in Tasks,
               \/ StartTask(t) \/ ShutdownTask(t) \/ PoweroffTask(t)
               \/ ResetTask(t) \/ DeleteTask(t)
               \/ \E force \in BOOLEAN : RestartTask(t, force)
        PROVE  \E type \in EventType : Request(type, t)
    BY <1>7 DEF StartTask, ShutdownTask, PoweroffTask, ResetTask, DeleteTask, RestartTask,
                EventType
  <1>8. ASSUME NEW t \in Tasks, QueryTaskStatus(t) PROVE OwnInv'
    <2>1. /\ info[t] \in Known /\ info'[t] \in Known
          /\ \A u \in Tasks \ {t} : info'[u] = info[u]
      BY <1>8, StatusOfSettled DEF QueryTaskStatus, TypeInv, TypeOK, Known, Settled
    <2>2. /\ UNCHANGED <<taskDb, dom, rent, events, procPc, procEv, prune, jobs, svcTodo>>
          /\ \A u \in Tasks : ~Adding(u) /\ ~Adding(u)'
      BY <1>8 DEF QueryTaskStatus, Adding
    <2>3. Fresh'
      BY <1>0, <2>1, <2>2 DEF OwnInv, Fresh, Untouched
    <2>4. OnDisk'
      BY <1>0, <2>1, <2>2 DEF OwnInv, OnDisk, Handling
    <2>5. RestGone'
      BY <1>0, <2>1, <2>2 DEF OwnInv, RestGone, TypeInv, Locals
    <2>6. Owned'
      BY <2>1, <2>2 DEF OwnInv, Owned, Exists, Rented, Adding
    <2> QED BY <2>3, <2>4, <2>5, <2>6 DEF OwnInv
  <1> QED BY <1>1, <1>2, <1>3, <1>4, <1>5, <1>6, <1>7, <1>8, RequestOwn DEF ServiceNext

\* The job a thread has after it took one up or gave one up.
LEMMA JobValue ==
  ASSUME TypeInv, NEW th \in Threads, NEW j, jobs' = [jobs EXCEPT ![th] = j]
  PROVE  jobs'[th] = j /\ \A x \in Threads \ {th} : jobs'[x] = jobs[x]
  BY DEF TypeInv, TypeOK

\* delete_task and close_task in any thread.
LEMMA JobOwn ==
  ASSUME TypeInv, OwnInv, NEW th \in Threads, DeleteStep(th) \/ CloseVm(th) \/ CloseRecord(th)
  PROVE  OwnInv'
  <1> DEFINE t == jobs[th].task
  <1>0. "unborn" \notin Known /\ "absent" \notin Known /\ "Shutoff" \in Known
    BY DEF Known, Waiting, Settled
  <1>1. t \in Tasks /\ info[t] # "unborn" /\ ~Adding(t)
    <2>1. t \in Tasks
      BY DEF DeleteStep, DeleteVm, DeleteInfo, DeleteRest, CloseVm, CloseRecord, TypeInv, Locals
    <2> QED BY <2>1 DEF OwnInv, Fresh, Untouched
  <1>2. /\ \A x \in Threads \ {th} : jobs'[x] = jobs[x]
        /\ jobs'[th].task \in {t, NoTask}
        /\ jobs'[th].op = "delete.rest" =>
             DeleteInfo(th) /\ Exists(t) /\ jobs'[th].task = t
    <2>1. /\ NoJob.task = NoTask /\ NoJob.op = "none"
          /\ \A op \in JobOp : Job(op, t).task = t /\ Job(op, t).op = op
      BY DEF NoJob, Job
    <2>2. \/ jobs' = [jobs EXCEPT ![th] = NoJob]
          \/ \E op \in JobOp : /\ jobs' = [jobs EXCEPT ![th] = Job(op, t)]
                               /\ op = "delete.rest" => DeleteInfo(th) /\ Exists(t)
      BY DEF DeleteStep, DeleteVm, DeleteInfo, DeleteRest, CloseVm, CloseRecord, JobOp
    <2>3. CASE jobs' = [jobs EXCEPT ![th] = NoJob]
      BY <2>1, <2>3, JobValue
    <2>4. CASE \E op \in JobOp : /\ jobs' = [jobs EXCEPT ![th] = Job(op, t)]
                                 /\ op = "delete.rest" => DeleteInfo(th) /\ Exists(t)
      <3>1. PICK op \in JobOp : /\ jobs' = [jobs EXCEPT ![th] = Job(op, t)]
                                /\ op = "delete.rest" => DeleteInfo(th) /\ Exists(t)
        BY <2>4
      <3>2. jobs'[th] = Job(op, t) /\ \A x \in Threads \ {th} : jobs'[x] = jobs[x]
        BY <3>1, JobValue
      <3> QED BY <2>1, <3>1, <3>2
    <2> QED BY <2>2, <2>3, <2>4
  <1>3. UNCHANGED <<events, procPc, procEv, svcPc, svcNew, svcTodo, prune>>
    BY DEF DeleteStep, DeleteVm, DeleteInfo, DeleteRest, CloseVm, CloseRecord
  <1>4. /\ \A u \in Tasks \ {t} : info'[u] = info[u] /\ dom'[u] = dom[u]
        /\ \A u \in Tasks \ {t} : u \in taskDb' <=> u \in taskDb
        /\ \A u \in Tasks \ {t}, w \in Wallets : u \in rent'[w] <=> u \in rent[w]
    BY <1>1 DEF DeleteStep, DeleteVm, DeleteInfo, DeleteRest, CloseVm, CloseRecord, TypeInv, TypeOK
  <1>5. /\ taskDb' \subseteq taskDb
        /\ info[t] = "absent" => info'[t] = "absent"
        /\ info'[t] = "absent" => info[t] = "absent" \/ t \notin taskDb'
        /\ info'[t] # "unborn"
        /\ DeleteInfo(th) /\ Exists(t) => info'[t] = "absent"
        /\ info'[t] \in Known => Exists(t)
    BY <1>0, <1>1 DEF DeleteStep, DeleteVm, DeleteInfo, DeleteRest, CloseVm, CloseRecord, TypeInv,
                      TypeOK, Exists
  <1>6. dom[t] = "ABSENT" => dom'[t] = "ABSENT"
    <2> SUFFICES ASSUME dom[t] = "ABSENT" PROVE dom'[t] = "ABSENT"
      OBVIOUS
    <2>1. CASE DeleteVm(th)
      BY <1>1, <2>1 DEF DeleteVm, DestroyAndUndefineDomain, TypeInv, TypeOK
    <2>2. CASE CloseVm(th)
      <3>1. \A r \in DestroyDomain(t) : r[1] = "ABSENT"
        BY DEF DestroyDomain
      <3> QED BY <1>1, <2>2, <3>1 DEF CloseVm, TypeInv, TypeOK
    <2> QED BY <2>1, <2>2 DEF DeleteStep, DeleteInfo, DeleteRest, CloseRecord
  <1>7. info'[t] \in Known => \A w \in Wallets : rent'[w] = rent[w]
    BY <1>0, <1>5 DEF DeleteStep, DeleteVm, DeleteInfo, DeleteRest, CloseVm, CloseRecord, OwnInv,
                      RestGone, Exists
  <1>8. Fresh'
    BY <1>1, <1>2, <1>3, <1>4, <1>5 DEF OwnInv, Fresh, Untouched, Adding
  <1>9. OnDisk'
    BY <1>1, <1>3, <1>4, <1>5, <1>6 DEF OwnInv, OnDisk, Adding, Handling
  <1>10. RestGone'
    BY <1>2, <1>4, <1>5 DEF OwnInv, RestGone, TypeInv, Locals
  <1>11. Owned'
    BY <1>1, <1>3, <1>4, <1>5, <1>7 DEF OwnInv, Owned, Exists, Rented, Adding
  <1> QED BY <1>8, <1>9, <1>10, <1>11 DEF OwnInv

\* A handler of the process thread calls libvirt: its task is not fresh, and
\* if the task is gone so is its record.
LEMMA VmCallOwn ==
  ASSUME TypeInv, OwnInv, Busy, NEW r, NEW pc, VmCall(r, pc)
  PROVE  OwnInv'
  <1> DEFINE t == procEv.task
  <1>1. t \in Tasks /\ Handling(t) /\ info[t] # "unborn" /\ ~Adding(t)
    BY DEF TypeInv, Locals, Busy, Handling, OwnInv, Fresh, Untouched
  <1>2. /\ \A u \in Tasks \ {t} : dom'[u] = dom[u]
        /\ UNCHANGED <<info, taskDb, rent, events, procEv, jobs, prune, svcPc, svcNew, svcTodo>>
    BY <1>1 DEF VmCall, TypeInv, TypeOK
  <1>3. Fresh'
    BY <1>1, <1>2 DEF OwnInv, Fresh, Untouched, Adding
  <1>4. OnDisk'
    BY <1>1, <1>2 DEF OwnInv, OnDisk, Adding, Handling
  <1>5. RestGone' /\ Owned'
    BY <1>2 DEF OwnInv, RestGone, Owned, Exists, Rented, Adding
  <1> QED BY <1>3, <1>4, <1>5 DEF OwnInv

\* The process thread.
LEMMA ProcessOwn == TypeInv /\ OwnInv /\ ProcessNext => OwnInv'
  <1> SUFFICES ASSUME TypeInv, OwnInv, ProcessNext PROVE OwnInv'
    OBVIOUS
  <1>0. NoEvent.task = NoTask /\ "unborn" \notin Known /\ "absent" \notin Known
    BY DEF NoEvent, Known, Waiting, Settled
  <1>1. CASE PopEvent
    <2> DEFINE t == Head(events).task
    <2>1. /\ t \in Tasks
          /\ \A u \in Tasks : Untouched(u) => t # u
          /\ \A i \in DOMAIN events' : \E j \in DOMAIN events : events'[i] = events[j]
      BY <1>1, PopEvents DEF PopEvent, TypeInv, TypeOK, Event, Untouched
    <2>2. UNCHANGED <<info, taskDb, dom, rent, prune, svcPc, svcNew, svcTodo>>
      BY <1>1 DEF PopEvent
    <2>3. \A u \in Tasks : Handling(u)' => u = t /\ Exists(t)
      BY <1>0, <1>1, <2>1 DEF PopEvent, Handling
    <2>4. procEv'.task \in {t, NoTask}
      BY <1>0, <1>1 DEF PopEvent
    <2>5. /\ \A x \in Threads : jobs'[x].task = jobs[x].task \/ jobs'[x].task = t
          /\ \A x \in Threads : jobs'[x].op = "delete.rest" => jobs'[x] = jobs[x]
      <3>1. CASE UNCHANGED jobs
        BY <3>1
      <3>2. CASE jobs' = [jobs EXCEPT !["P"] = Job("delete.vm", t)]
        <4>1. jobs'["P"] = Job("delete.vm", t) /\ \A x \in Threads \ {"P"} : jobs'[x] = jobs[x]
          BY <3>2, JobValue DEF Threads
        <4>2. Job("delete.vm", t).op = "delete.vm" /\ Job("delete.vm", t).task = t
          BY DEF Job
        <4> QED BY <4>1, <4>2
      <3> QED BY <1>1, <3>1, <3>2 DEF PopEvent
    <2>6. Fresh'
      BY <2>1, <2>2, <2>4, <2>5 DEF OwnInv, Fresh, Untouched, Adding
    <2>7. OnDisk'
      BY <1>0, <2>2, <2>3 DEF OwnInv, OnDisk, Adding, Exists
    <2>8. RestGone' /\ Owned'
      BY <2>2, <2>5 DEF OwnInv, RestGone, Owned, Exists, Rented, Adding
    <2> QED BY <2>6, <2>7, <2>8 DEF OwnInv
  <1>2. CASE Busy /\ \E r, pc : VmCall(r, pc)
    BY <1>2, VmCallOwn
  <1>3. CASE \/ ProcessCreate \/ ProcessStart \/ ProcessStop \/ ProcessForceReboot
             \/ ForceRebootStart \/ ProcessReset \/ ProcessUndo
    BY <1>2, <1>3 DEF ProcessCreate, ProcessStart, ProcessStop, ProcessForceReboot,
                      ForceRebootStart, ProcessReset, ProcessUndo, Handler, Busy
  <1>4. CASE ProcessRestart
    <2>1. CASE \E r, pc : VmCall(r, pc)
      BY <1>2, <1>4, <2>1 DEF ProcessRestart, Handler, Busy
    <2>2. CASE /\ procPc' = "update" /\ procEv' = NoEvent
               /\ UNCHANGED <<info, dom, mgrVars, events, procOk, toWrite, dbVars,
                              svcVars, jobs, prune, envVars, raced>>
      BY <1>0, <2>2, QuietOwn DEF Adding, Handling
    <2> QED BY <1>4, <2>1, <2>2 DEF ProcessRestart
  <1>5. CASE ProcessNetwork
    BY <1>5, QuietOwn DEF ProcessNetwork, Adding, Handling
  <1>6. CASE ProcessFinish
    <2> DEFINE t == procEv.task
    <2>1. t \in Tasks /\ info[t] # "unborn" /\ ~Adding(t)
      BY <1>6 DEF ProcessFinish, TypeInv, Locals, Busy, OwnInv, Fresh, Untouched
    <2>2. /\ \A u \in Tasks \ {t} : info'[u] = info[u]
          /\ \/ info'[t] = info[t]
             \/ info[t] \in Known /\ info'[t] \in Known
      <3>1. procEv.type \in EventType \ {"Delete"}
        BY <1>6 DEF ProcessFinish, TypeInv, TypeOK, Locals, Busy
      <3>2. CASE info' = info
        BY <3>2
      <3>3. CASE /\ info[t] = Awaited[procEv.type]
                 /\ info' = [info EXCEPT ![t] = IF procOk THEN Success[procEv.type]
                                                          ELSE Failure[procEv.type]]
        BY <2>1, <3>1, <3>3, AwaitedWaiting, OutcomeSettled DEF TypeInv, TypeOK, Known
      <3> QED BY <1>6, <3>2, <3>3 DEF ProcessFinish
    <2>3. /\ UNCHANGED <<taskDb, dom, rent, events, jobs, prune, svcPc, svcNew, svcTodo>>
          /\ procPc' = "update" /\ procEv'.task = NoTask
      BY <1>0, <1>6 DEF ProcessFinish
    <2>4. Fresh'
      BY <1>0, <2>1, <2>2, <2>3 DEF OwnInv, Fresh, Untouched, Adding
    <2>5. OnDisk'
      BY <1>0, <2>1, <2>2, <2>3 DEF OwnInv, OnDisk, Adding, Handling
    <2>6. RestGone'
      BY <1>0, <2>2, <2>3 DEF OwnInv, RestGone, TypeInv, Locals
    <2>7. Owned'
      BY <2>2, <2>3 DEF OwnInv, Owned, Exists, Rented, Adding
    <2> QED BY <2>4, <2>5, <2>6, <2>7 DEF OwnInv
  <1>7. CASE ProcessDeleted
    BY <1>0, <1>7, QuietOwn DEF ProcessDeleted, Adding, Handling
  <1>8. CASE UpdateRunningTasks \/ RunningDbClear \/ RunningDbWrite
    BY <1>8, QuietOwn DEF UpdateRunningTasks, RunningDbClear, RunningDbWrite, Adding, Handling
  <1> QED BY <1>1, <1>3, <1>4, <1>5, <1>6, <1>7, <1>8 DEF ProcessNext

\* The prune thread works on the rent lists, which hold no fresh task.
LEMMA PruneOwn == TypeInv /\ OwnInv /\ PruneNext => OwnInv'
  <1> SUFFICES ASSUME TypeInv, OwnInv, PruneNext PROVE OwnInv'
    OBVIOUS
  <1>1. CASE PruneBegin \/ PruneRenter \/ PruneEnd
    <2>1. prune'.todo \subseteq prune.todo
      <3>1. CASE PruneBegin
        BY <3>1 DEF PruneBegin, TypeInv, TypeOK
      <3>2. CASE PruneRenter
        BY <3>2 DEF PruneRenter, TypeInv, TypeOK
      <3>3. CASE PruneEnd
        BY <3>3 DEF PruneEnd, NoPrune
      <3> QED BY <1>1, <3>1, <3>2, <3>3
    <2>2. UNCHANGED <<info, mgrVars, vmVars, events, procVars, taskDb, svcVars, jobs>>
      BY <1>1 DEF PruneBegin, PruneRenter, PruneEnd
    <2> QED BY <2>1, <2>2, QuietOwn DEF Adding, Handling
  <1>2. ASSUME NEW w \in Wallets, PruneWallet(w) PROVE OwnInv'
    <2>1. prune.status \in MachineStatus
      BY DEF TypeInv, TypeOK
    <2>2. ByStatus(rent[w]) \subseteq rent[w]
      BY <2>1 DEF ByStatus, MachineStatus
    <2>3. prune'.todo = ByStatus(rent[w])
      BY <1>2 DEF PruneWallet, TypeInv, TypeOK
    <2>4. UNCHANGED <<info, mgrVars, vmVars, events, procVars, taskDb, svcVars, jobs>>
      BY <1>2 DEF PruneWallet
    <2> QED BY <2>2, <2>3, <2>4, QuietOwn DEF Adding, Handling
  <1>3. ASSUME NEW t \in Tasks, PruneTask(t) PROVE OwnInv'
    <2>1. PICK op \in {"delete.vm", "close.vm"} : jobs' = [jobs EXCEPT !["R"] = Job(op, t)]
      BY <1>3 DEF PruneTask
    <2>2. /\ jobs'["R"].task = t /\ jobs'["R"].op # "delete.rest"
          /\ \A x \in Threads \ {"R"} : jobs'[x] = jobs[x]
      <3>1. jobs'["R"] = Job(op, t) /\ \A x \in Threads \ {"R"} : jobs'[x] = jobs[x]
        BY <2>1, JobValue DEF Threads
      <3>2. Job(op, t).task = t /\ Job(op, t).op = op
        BY DEF Job
      <3> QED BY <3>1, <3>2
    <2>3. t \in prune.todo /\ prune'.todo \subseteq prune.todo
      BY <1>3 DEF PruneTask, TypeInv, TypeOK
    <2>4. UNCHANGED <<info, taskDb, dom, rent, events, procPc, procEv, svcPc, svcNew, svcTodo>>
      BY <1>3 DEF PruneTask
    <2>5. Fresh'
      BY <2>2, <2>3, <2>4 DEF OwnInv, Fresh, Untouched, Adding
    <2>6. OnDisk' /\ Owned'
      BY <2>4 DEF OwnInv, OnDisk, Owned, Exists, Rented, Adding, Handling
    <2>7. RestGone'
      BY <2>2, <2>4 DEF OwnInv, RestGone
    <2> QED BY <2>5, <2>6, <2>7 DEF OwnInv
  <1>4. CASE PruneNextPhase
    <2>1. prune.wallet \in Wallets
      BY <1>4 DEF PruneNextPhase, TypeInv, Locals
    <2>2. prune'.todo = rent[prune.wallet] \/ prune'.todo = prune.todo
      BY <1>4 DEF PruneNextPhase, TypeInv, TypeOK
    <2>3. UNCHANGED <<info, mgrVars, vmVars, events, procVars, taskDb, svcVars, jobs>>
      BY <1>4 DEF PruneNextPhase
    <2> QED BY <2>1, <2>2, <2>3, QuietOwn DEF Adding, Handling
  <1>5. CASE CloseVm("R") \/ CloseRecord("R")
    BY <1>5, JobOwn DEF Threads
  <1> QED BY <1>1, <1>2, <1>3, <1>4, <1>5 DEF PruneNext

\* The status of a task after a crash, by what is left of it.
LEMMA CrashStatus ==
  ASSUME TypeInv, NEW host \in BOOLEAN, Crash(host), NEW t \in Tasks
  PROVE  /\ t \in Loaded => info'[t] \in Known
         /\ t \notin Loaded => info'[t] = IF info[t] = "unborn" THEN "unborn" ELSE "absent"
         /\ t \notin Loaded /\ dom[t] = "ABSENT" => dom'[t] = "ABSENT"
  <1> DEFINE off == [u \in Tasks |-> IF host /\ dom[u] \in Active THEN "SHUTOFF" ELSE dom[u]]
  <1>1. t \in Loaded => StatusOf[off[t]] \in Known
    <2>1. t \in Loaded => off[t] \in DomainState \ {"ABSENT"}
      BY DEF Loaded, TypeInv, TypeOK, DomainState
    <2> QED BY <2>1, StatusOfSettled DEF Known
  <1>2. "Running" \in Known
    BY DEF Known, Settled
  <1> HIDE DEF off
  <1>3. info'[t] = CASE t \in runDb \cap Loaded -> "Running"
                     [] t \in Loaded \ (runDb \cap Loaded) -> StatusOf[off[t]]
                     [] t \notin Loaded /\ info[t] = "unborn" -> "unborn"
                     [] OTHER -> "absent"
    BY DEF Crash, off
  <1>4. t \notin Loaded /\ dom[t] = "ABSENT" => dom'[t] = "ABSENT"
    BY DEF Crash, Active
  <1>5. t \in Loaded => info'[t] \in Known
    <2>1. CASE t \in runDb \cap Loaded
      BY <1>2, <1>3, <2>1
    <2>2. CASE t \in Loaded /\ t \notin runDb
      BY <1>1, <1>3, <2>2
    <2> QED BY <2>1, <2>2
  <1>6. t \notin Loaded => info'[t] = IF info[t] = "unborn" THEN "unborn" ELSE "absent"
    BY <1>3
  <1> QED BY <1>4, <1>5, <1>6

\* The environment.  A crash brings back exactly the tasks of task.db that
\* have a domain, and those were known and owned before.
LEMMA EnvironmentOwn == TypeInv /\ OwnInv /\ Environment => OwnInv'
  <1> SUFFICES ASSUME TypeInv, OwnInv, Environment PROVE OwnInv'
    OBVIOUS
  <1>0. "unborn" \notin Known /\ "absent" \notin Known
    BY DEF Known, Waiting, Settled
  <1>1. ASSUME NEW t \in Tasks, NEW d \in {"SHUTOFF", "PMSUSPENDED"}, GuestStop(t, d)
        PROVE  OwnInv'
    <2>1. dom[t] = "RUNNING" /\ \A u \in Tasks \ {t} : dom'[u] = dom[u]
      BY <1>1 DEF GuestStop, TypeInv, TypeOK
    <2>2. UNCHANGED <<info, taskDb, rent, events, procPc, procEv, jobs, prune, svcPc, svcNew, svcTodo>>
      BY <1>1 DEF GuestStop
    <2>3. Fresh'
      BY <2>1, <2>2 DEF OwnInv, Fresh, Untouched, Adding
    <2>4. OnDisk'
      BY <2>1, <2>2 DEF OwnInv, OnDisk, Adding, Handling
    <2>5. RestGone' /\ Owned'
      BY <2>2 DEF OwnInv, RestGone, Owned, Exists, Rented, Adding
    <2> QED BY <2>3, <2>4, <2>5 DEF OwnInv
  <1>2. CASE ChainChange
    BY <1>2, QuietOwn DEF ChainChange, Adding, Handling
  <1>3. ASSUME NEW host \in BOOLEAN, Crash(host) PROVE OwnInv'
    <2>1. /\ events' = <<>> /\ procPc' = "idle" /\ procEv'.task = NoTask
          /\ svcPc' = "idle" /\ svcTodo' = {} /\ prune'.todo = {}
          /\ \A th \in Threads : jobs'[th].task = NoTask /\ jobs'[th].op = "none"
          /\ UNCHANGED <<taskDb, rent>>
      BY <1>3 DEF Crash, NoEvent, NoPrune, NoJob
    <2>2. \A t \in Loaded : Exists(t) /\ ~Adding(t)
      BY DEF Loaded, OwnInv, OnDisk, Fresh, Untouched, Exists, TypeInv, TypeOK, Gone
    <2>3. \A t \in Tasks : /\ t \in Loaded => info'[t] \in Known
                           /\ t \notin Loaded => info'[t] = IF info[t] = "unborn" THEN "unborn"
                                                                                  ELSE "absent"
                           /\ t \notin Loaded /\ dom[t] = "ABSENT" => dom'[t] = "ABSENT"
      BY <1>3, CrashStatus
    <2>4. \A t \in Tasks : ~Adding(t)' /\ ~Handling(t)'
      BY <2>1 DEF Adding, Handling
    <2>5. Fresh'
      BY <1>0, <2>1, <2>2, <2>3, <2>4 DEF OwnInv, Fresh, Untouched
    <2>6. OnDisk'
      BY <1>0, <2>1, <2>2, <2>3, <2>4 DEF OwnInv, OnDisk, Loaded
    <2>7. RestGone'
      BY <2>1 DEF RestGone
    <2>8. Owned'
      BY <1>0, <2>1, <2>2, <2>3 DEF OwnInv, Owned, Exists, Rented, Adding
    <2> QED BY <2>5, <2>6, <2>7, <2>8 DEF OwnInv
  <1> QED BY <1>1, <1>2, <1>3 DEF Environment

\* Ownership is inductive with the types.
LEMMA NextOwn == TypeInv /\ OwnInv /\ [Next]_vars => OwnInv'
  <1> SUFFICES ASSUME TypeInv, OwnInv, [Next]_vars PROVE OwnInv'
    OBVIOUS
  <1>1. CASE UNCHANGED vars
    BY <1>1, QuietOwn DEF vars, Adding, Handling
  <1>2. ASSUME NEW th \in Threads, DeleteStep(th) PROVE OwnInv'
    BY <1>2, JobOwn
  <1> QED BY <1>1, <1>2, ServiceOwn, ProcessOwn, PruneOwn, EnvironmentOwn DEF Next

\* Both invariants hold in every reachable state.
LEMMA InvHolds == Spec => [](TypeInv /\ OwnInv)
  BY InitTypes, NextTypes, InitOwn, NextOwn, PTL DEF Spec

\* A task the node knows is in the rent list of a wallet, or is just being
\* added, whatever the threads, the crashes and the failures of libvirt do:
\* the prune thread can reach it.
THEOREM EveryTaskOwned == Spec => []Owned
  <1>1. TypeInv /\ OwnInv => Owned
    BY DEF OwnInv
  <1> QED BY <1>1, InvHolds, PTL

\* No step brings back a task that is gone.
LEMMA AbsentStays ==
  ASSUME TypeInv, OwnInv, [Next]_vars, NEW t \in Tasks, info[t] = "absent"
  PROVE  info'[t] = "absent"
  <1>0. "absent" \notin Known /\ "absent" # "unborn"
    BY DEF Known, Waiting, Settled
  <1>1. CASE ServiceNext
    BY <1>0, <1>1 DEF ServiceNext, CheckAuthority, DeleteCheckTask, Authorised, RequestDone, CreateTask,
                CreateTaskRecords, StartTask, ShutdownTask, PoweroffTask, RestartTask, ResetTask,
                DeleteTask, QueryTaskStatus, Request, Exists, TypeInv, TypeOK
  <1>2. CASE ProcessNext
    <2>1. CASE ProcessFinish
      <3>1. procEv.type \in EventType
        BY DEF TypeInv, TypeOK
      <3>2. Awaited[procEv.type] # "absent"
        BY <1>0, <3>1, AwaitedWaiting DEF Known
      <3> QED BY <2>1, <3>2 DEF ProcessFinish, TypeInv, TypeOK
    <2>2. CASE ~ProcessFinish
      <3>1. UNCHANGED info
        BY <1>2, <2>2 DEF ProcessNext, PopEvent, ProcessCreate, ProcessStart, ProcessStop,
                          ProcessRestart, ProcessForceReboot, ForceRebootStart, ProcessReset,
                          ProcessNetwork, ProcessUndo, ProcessDeleted, UpdateRunningTasks,
                          RunningDbClear, RunningDbWrite, VmCall
      <3> QED BY <3>1
    <2> QED BY <2>1, <2>2
  <1>3. ASSUME NEW th \in Threads, DeleteStep(th) \/ CloseVm(th) \/ CloseRecord(th)
        PROVE  info'[t] = "absent"
    BY <1>0, <1>3 DEF DeleteStep, DeleteVm, DeleteInfo, DeleteRest, CloseVm, CloseRecord, Exists,
                      TypeInv, TypeOK
  <1>4. CASE PruneNext
    BY <1>3, <1>4 DEF PruneNext, PruneBegin, PruneRenter, PruneWallet, PruneTask, PruneNextPhase, PruneEnd, Threads
  <1>5. CASE Environment
    <2>1. ASSUME NEW host \in BOOLEAN, Crash(host) PROVE info'[t] = "absent"
      <3>1. t \notin Loaded
        BY DEF Loaded, OwnInv, OnDisk
      <3> QED BY <1>0, <2>1, <3>1, CrashStatus
    <2> QED BY <1>5, <2>1 DEF Environment, GuestStop, ChainChange
  <1>6. CASE UNCHANGED vars
    BY <1>6 DEF vars
  <1> QED BY <1>1, <1>2, <1>3, <1>4, <1>5, <1>6 DEF Next

\* A task that is gone never comes back, not even from the databases after a
\* crash in the middle of its creation or its deletion.
THEOREM GoneForGood == Spec => NoResurrection
  <1>1. TypeInv /\ OwnInv /\ [Next]_vars =>
          [\A t \in Tasks : info[t] = "absent" => info'[t] = "absent"]_vars
    BY AbsentStays
  <1> QED BY <1>1, InvHolds, PTL DEF Spec, NoResurrection
=============================================================================
