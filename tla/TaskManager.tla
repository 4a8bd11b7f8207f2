---------------------------- MODULE TaskManager ----------------------------
(***************************************************************************)
(* The virtual machine tasks of one DBC compute node.                      *)
(*                                                                         *)
(* Three threads work on the same managers (TaskInfoMgr, TaskGpuMgr,       *)
(* TaskIptableMgr, WalletRentTaskMgr), each manager locking only its own   *)
(* map, and on the libvirt domains:                                        *)
(*   "S"  the node_request_service thread: authorises a request, deletes   *)
(*        check tasks while doing so, records the request in the status    *)
(*        of the task and queues an event;                                 *)
(*   "P"  the process_task thread: takes the events one by one, calls      *)
(*        libvirt and records the outcome;                                 *)
(*   "R"  the prune thread: closes and deletes the tasks of wallets that   *)
(*        do not rent the machine any more.                                *)
(* A handler is split into steps where it calls libvirt or leaves one      *)
(* manager's lock for another's, so the threads interleave there.          *)
(* A crash of dbc or of the host loses everything but the databases, the   *)
(* domains and (for dbc alone) the iptables rules.                         *)
(***************************************************************************)
EXTENDS Naturals, Sequences, FiniteSets

CONSTANTS
  Tasks,        \* task ids the node can hand out; an id is used once
  CheckTasks,   \* the ids that begin with vm_check_ (made for a verifier)
  PxeTasks,     \* the tasks that boot by pxe: no local ip, no port mapping
  Wallets,      \* wallets that rent or verify the machine
  NoWallet,     \* the empty renter string
  NoTask,       \* no task
  Gpus,         \* GPUs of the host
  Faults,       \* what may fail: calls to "libvirt", look-ups of the guest's
                \* address ("network"), queries to the "chain"
  Requests,     \* the requests users send, as the events they lead to
  GuestEvents,  \* whether a guest may shut down or suspend by itself
  Statuses,     \* the statuses the machine has on the chain
  ChainEvents,  \* whether its status and renter there change
  MaxEvents,    \* bound on the events waiting in m_events
  MaxCrash      \* bound on the crashes of dbc or of its host

ASSUME TaskSets == CheckTasks \subseteq Tasks /\ PxeTasks \subseteq Tasks
ASSUME NoTaskAssumption == NoTask \notin Tasks
ASSUME NoWalletAssumption == NoWallet \notin Wallets
ASSUME StatusesAssumption == Statuses \subseteq {"Verify", "Online", "Rented"}
ASSUME BoundsAssumption ==
  /\ MaxEvents \in Nat \ {0}
  /\ MaxCrash \in Nat
  /\ {GuestEvents, ChainEvents} \subseteq BOOLEAN

VARIABLES
  info,      \* TaskInfoMgr: the status of each task it knows
  taskDb,    \* task.db: the tasks whose TaskInfo is on disk
  dom,       \* libvirt: the state of the task's domain
  hostdev,   \* libvirt: the GPUs in the domain's XML
  gpus,      \* TaskGpuMgr: the GPUs given to the task
  rent,      \* WalletRentTaskMgr and rent_task.db: the tasks of a wallet
  ipt,       \* TaskIptableMgr and its database: tasks with an iptable record
  rules,     \* tasks whose rules are in the kernel's iptables
  events,    \* m_events
  runDb,     \* runningtasks.db
  procPc,    \* where the process thread is
  procEv,    \* the event it handles
  procOk,    \* what the libvirt calls of the handler returned
  toWrite,   \* m_running_tasks not yet written to runningtasks.db
  svcPc,     \* where the request thread is
  svcTodo,   \* check tasks check_authority still has to delete
  svcUser,   \* the wallet and role check_authority granted, if any
  svcNew,    \* the task createTask is adding, with its GPUs
  jobs,      \* per thread: the delete_task or close_task it executes
  prune,     \* the local variables of the prune thread
  chain,     \* external: machine status, and who rents or verifies
  crashes,   \* number of crashes so far
  raced      \* history: tasks whose deletion or creation was interrupted

dbVars    == <<taskDb, runDb>>
vmVars    == <<dom, hostdev>>
mgrVars   == <<gpus, rent, ipt, rules>>
procVars  == <<procPc, procEv, procOk, toWrite, runDb>>
svcVars   == <<svcPc, svcTodo, svcUser, svcNew>>
envVars   == <<chain, crashes>>
vars == <<info, taskDb, dom, hostdev, gpus, rent, ipt, rules, events, runDb,
          procPc, procEv, procOk, toWrite, svcPc, svcTodo, svcUser, svcNew,
          jobs, prune, chain, crashes, raced>>

-----------------------------------------------------------------------------
\* The values of the state.

Waiting == {"Creating", "Starting", "BeingShutdown", "BeingPoweroff",
            "Restarting", "Resetting", "Deleting"}

Settled == {"Running", "Shutoff", "PMSuspend", "CreateTaskError",
            "StartTaskError", "ShutdownTaskError", "PoweroffTaskError",
            "RestartTaskError", "ResetTaskError"}

\* "unborn" tasks have not been created, "absent" ones are known no more.
Known == Waiting \cup Settled
Gone  == {"unborn", "absent"}

DomainState == {"ABSENT", "SHUTOFF", "RUNNING", "PMSUSPENDED"}
Active      == {"RUNNING", "PMSUSPENDED"}

EventType == {"Create", "Start", "Shutdown", "Poweroff", "Restart",
              "ForceReboot", "Reset", "Delete"}

Event == [type : EventType, task : Tasks]

\* The status a request leaves and its handler looks for before it records
\* the outcome.
Awaited == [Create |-> "Creating", Start |-> "Starting",
            Shutdown |-> "BeingShutdown", Poweroff |-> "BeingPoweroff",
            Restart |-> "Restarting", ForceReboot |-> "Restarting",
            Reset |-> "Resetting", Delete |-> "Deleting"]

Success == [Create |-> "Running", Start |-> "Running", Shutdown |-> "Shutoff",
            Poweroff |-> "Shutoff", Restart |-> "Running",
            ForceReboot |-> "Running", Reset |-> "Running"]

Failure == [Create |-> "CreateTaskError", Start |-> "StartTaskError",
            Shutdown |-> "ShutdownTaskError",
            Poweroff |-> "PoweroffTaskError", Restart |-> "RestartTaskError",
            ForceReboot |-> "RestartTaskError", Reset |-> "ResetTaskError"]

Threads == {"S", "P", "R"}
JobOp   == {"none", "close.vm", "close.record",
            "delete.vm", "delete.info", "delete.rest"}
NoEvent == [type |-> "Delete", task |-> NoTask]
NoJob   == [op |-> "none", task |-> NoTask]
Job(op, t) == [op |-> op, task |-> t]

MachineStatus == {"Verify", "Online", "Rented"}
Role          == {"Verifier", "Renter", "None"}
Nobody        == [wallet |-> NoWallet, role |-> "None"]
NoNew         == [task |-> NoTask, gpus |-> {}]

NoPrune == [pc |-> "wait", status |-> "Online", renter |-> NoWallet,
            wallets |-> {}, wallet |-> NoWallet, todo |-> {}]

Exists(t)  == info[t] \in Known
Rented     == UNION {rent[w] : w \in Wallets}
Deletes    == {"delete.vm", "delete.info", "delete.rest"}
InDelete(t) == \E th \in Threads : jobs[th].op \in Deletes /\ jobs[th].task = t

\* The process thread is inside a handler (other than delete) for the task.
Handling(t) == procPc \in {"vm", "vm2", "net", "undo", "finish"}
               /\ procEv.task = t

-----------------------------------------------------------------------------
(***************************************************************************)
(* libvirt, as VmClient uses it.  Each operator is the set of pairs of the *)
(* domain's next state and whether the call succeeds.  A host device can   *)
(* belong to one active domain only, so libvirt refuses to start a domain  *)
(* whose GPUs another active domain holds.                                 *)
(***************************************************************************)
CanRun(t, g) == \A u \in Tasks \ {t} : dom[u] \in Active => hostdev[u] \cap g = {}

StartDomain(t) ==
  CASE dom[t] = "ABSENT" -> {<<"ABSENT", FALSE>>}
    [] dom[t] = "RUNNING" -> {<<"RUNNING", TRUE>>}
    [] OTHER ->
         {r \in {<<"RUNNING", TRUE>>, <<dom[t], FALSE>>} :
            \/ r[2] /\ (dom[t] = "PMSUSPENDED" \/ CanRun(t, hostdev[t]))
            \/ ~r[2] /\ ("libvirt" \in Faults \/ (dom[t] = "SHUTOFF" /\ ~CanRun(t, hostdev[t])))}

DestroyDomain(t) ==
  CASE dom[t] = "ABSENT" -> {<<"ABSENT", FALSE>>}
    [] dom[t] = "SHUTOFF" -> {<<"SHUTOFF", TRUE>>}
    [] OTHER -> {<<"SHUTOFF", TRUE>>}
                \cup (IF "libvirt" \in Faults THEN {<<dom[t], FALSE>>} ELSE {})

\* A reboot or a reset acts on a running domain only and leaves it running.
RebootDomain(t) == {<<dom[t], TRUE>>} \cup (IF "libvirt" \in Faults THEN {<<dom[t], FALSE>>} ELSE {})

ResetDomain(t) ==
  IF dom[t] = "ABSENT" THEN {<<"ABSENT", FALSE>>} ELSE
    {<<dom[t], TRUE>>} \cup
    (IF "libvirt" \in Faults /\ dom[t] = "RUNNING" THEN {<<dom[t], FALSE>>} ELSE {})

\* Defining the domain may fail, and so may starting what was defined.
CreateDomain(t) ==
  {r \in {<<"RUNNING", TRUE>>, <<"SHUTOFF", FALSE>>, <<"ABSENT", FALSE>>} :
     \/ r[2] /\ CanRun(t, gpus[t])
     \/ r[1] = "SHUTOFF" /\ ("libvirt" \in Faults \/ ~CanRun(t, gpus[t]))
     \/ r[1] = "ABSENT" /\ "libvirt" \in Faults}

\* The states DestroyAndUndefineDomain can leave: a failed destroy of an
\* active domain leaves it active, a failed undefine leaves it shut off.
DestroyAndUndefineDomain(t) ==
  {"ABSENT"} \cup (IF "libvirt" \in Faults /\ dom[t] # "ABSENT" THEN {"SHUTOFF", dom[t]} ELSE {})

-----------------------------------------------------------------------------
(***************************************************************************)
(* The request thread.                                                     *)
(***************************************************************************)

\* check_authority: which check tasks are deleted, and who may go on.
CheckAuthority(w) ==
  /\ svcPc = "idle"
  /\ \/ /\ chain.status = "Verify"
        /\ w = chain.wallet
        /\ svcTodo' = {t \in CheckTasks : Exists(t) /\
                         \E v \in Wallets \ {w} : t \in rent[v]}
        /\ svcUser' = [wallet |-> w, role |-> "Verifier"]
     \/ /\ chain.status = "Online"
        /\ svcTodo' = {t \in CheckTasks : Exists(t)}
        /\ svcUser' = Nobody
     \/ /\ chain.status = "Rented"
        /\ svcTodo' = {t \in CheckTasks : Exists(t)}
        /\ svcUser' = [wallet |-> w, role |-> "Renter"]
  /\ svcPc' = "delete"
  /\ UNCHANGED <<info, vmVars, mgrVars, events, procVars, taskDb, svcNew,
                 jobs, prune, envVars, raced>>

\* deleteAllCheckTasks and deleteOtherCheckTasks: the next check task.
DeleteCheckTask(t) ==
  /\ svcPc = "delete" /\ t \in svcTodo /\ jobs["S"] = NoJob
  /\ jobs' = [jobs EXCEPT !["S"] = Job("delete.vm", t)]
  /\ svcTodo' = svcTodo \ {t}
  /\ UNCHANGED <<info, vmVars, mgrVars, events, procVars, taskDb, svcPc,
                 svcUser, svcNew, prune, envVars, raced>>

\* check_authority ends once the last of them is deleted; a renter is asked
\* for only then (request_rent_end).
Authorised ==
  LET granted == /\ svcUser # Nobody
                 /\ svcUser.role = "Renter" =>
                      chain.status = "Rented" /\ chain.wallet = svcUser.wallet IN
  /\ svcPc = "delete" /\ svcTodo = {} /\ jobs["S"] = NoJob
  /\ svcPc' = IF granted THEN "ready" ELSE "idle"
  /\ svcUser' = IF granted THEN svcUser ELSE Nobody
  /\ UNCHANGED <<info, vmVars, mgrVars, events, procVars, taskDb, svcTodo,
                 svcNew, jobs, prune, envVars, raced>>

\* A request that is refused or only reads.
RequestDone ==
  /\ svcPc = "ready"
  /\ svcPc' = "idle" /\ svcUser' = Nobody
  /\ UNCHANGED <<info, vmVars, mgrVars, events, procVars, taskDb, svcTodo,
                 svcNew, jobs, prune, envVars, raced>>

\* A domain without a TaskInfo is running on the host.
FoundOtherRunningDomains == \E t \in Tasks : dom[t] = "RUNNING" /\ ~Exists(t)

\* Fault seeded for PendingCreatesDisjoint: only running domains count.
UsedGpusRunning == UNION {gpus[u] : u \in {v \in Tasks : Exists(v) /\ dom[v] = "RUNNING"}}

\* The GPUs of tasks whose domain is not shut off.  The state of a domain
\* that does not exist is NOSTATE, so a task waiting to be created counts.
UsedGpus == UNION {gpus[u] : u \in {v \in Tasks : Exists(v) /\ dom[v] # "SHUTOFF"}}

\* The first n of the free GPUs.
AllocateGpu(n) ==
  {g \in Gpus \ UsedGpus :
     Cardinality({h \in Gpus \ UsedGpus : h <= g}) <= n}

CheckGpu(t) == gpus[t] \cap UsedGpus = {}

\* createTask up to TaskInfoMgr.add, which writes task.db.
CreateTask(t, n) ==
  /\ svcPc = "ready" /\ "Create" \in Requests
  /\ ~FoundOtherRunningDomains
  /\ info[t] = "unborn"
  /\ (t \in CheckTasks) <=> (svcUser.role = "Verifier")
  /\ Cardinality(AllocateGpu(n)) = n
  /\ svcNew' = [task |-> t, gpus |-> AllocateGpu(n)]
  /\ info' = [info EXCEPT ![t] = "Creating"]
  /\ taskDb' = taskDb \cup {t}
  /\ svcPc' = "create"
  /\ UNCHANGED <<vmVars, mgrVars, events, procVars, svcTodo, svcUser, jobs,
                 prune, envVars, raced>>

Push(type, t) ==
  /\ Len(events) < MaxEvents
  /\ events' = Append(events, [type |-> type, task |-> t])

\* Fault seeded for Owned: the wallet's rent list is not updated.
CreateTaskRecordsNoRent ==
  /\ svcPc = "create"
  /\ gpus' = [gpus EXCEPT ![svcNew.task] = svcNew.gpus]
  /\ Push("Create", svcNew.task)
  /\ svcPc' = "idle" /\ svcUser' = Nobody /\ svcNew' = NoNew
  /\ UNCHANGED <<info, taskDb, vmVars, rent, ipt, rules, procVars, svcTodo, jobs,
                 prune, envVars, raced>>

\* The rest of createTask: GPUs, the wallet's rent list, the event.
CreateTaskRecords ==
  /\ svcPc = "create"
  /\ gpus' = [gpus EXCEPT ![svcNew.task] = svcNew.gpus]
  /\ rent' = [rent EXCEPT ![svcUser.wallet] = @ \cup {svcNew.task}]
  /\ Push("Create", svcNew.task)
  /\ svcPc' = "idle" /\ svcUser' = Nobody /\ svcNew' = NoNew
  /\ UNCHANGED <<info, taskDb, vmVars, ipt, rules, procVars, svcTodo, jobs,
                 prune, envVars, raced>>

\* Fault seeded for NoDomainStatus: IsExistDomain is not asked.
RequestNoDomainCheck(type, t) ==
  /\ svcPc = "ready" /\ type \in Requests
  /\ Exists(t)
  /\ info' = [info EXCEPT ![t] = Awaited[type]]
  /\ Push(type, t)
  /\ svcPc' = "idle" /\ svcUser' = Nobody
  /\ UNCHANGED <<taskDb, vmVars, mgrVars, procVars, svcTodo, svcNew, jobs,
                 prune, envVars, raced>>

\* The common end of the requests that wait for the process thread.
Request(type, t) ==
  /\ svcPc = "ready" /\ type \in Requests
  /\ Exists(t) /\ dom[t] # "ABSENT"
  /\ info' = [info EXCEPT ![t] = Awaited[type]]
  /\ Push(type, t)
  /\ svcPc' = "idle" /\ svcUser' = Nobody
  /\ UNCHANGED <<taskDb, vmVars, mgrVars, procVars, svcTodo, svcNew, jobs,
                 prune, envVars, raced>>

StartTask(t) ==
  /\ ~FoundOtherRunningDomains
  /\ CheckGpu(t)
  /\ dom[t] \in {"SHUTOFF", "PMSUSPENDED"}
  /\ Request("Start", t)

ShutdownTask(t) == dom[t] # "SHUTOFF" /\ Request("Shutdown", t)

PoweroffTask(t) == dom[t] # "SHUTOFF" /\ Request("Poweroff", t)

RestartTask(t, force) ==
  /\ ~FoundOtherRunningDomains
  /\ CheckGpu(t)
  /\ dom[t] \in {"SHUTOFF", "RUNNING"}
  /\ Request(IF force THEN "ForceReboot" ELSE "Restart", t)

ResetTask(t) == dom[t] = "RUNNING" /\ Request("Reset", t)

DeleteTask(t) == Request("Delete", t)

\* Fault seeded for TypeOK: no branch for a suspended domain.
StatusOfNoSuspend == [SHUTOFF |-> "Shutoff", RUNNING |-> "Running",
                      PMSUSPENDED |-> "None", ABSENT |-> "Shutoff"]

\* The status a domain state stands for when none is awaited.  A domain that
\* does not exist counts as shut off at start-up (init_tasks_status); a
\* query leaves the status of its task alone.
StatusOf == [SHUTOFF |-> "Shutoff", RUNNING |-> "Running",
             PMSUSPENDED |-> "PMSuspend", ABSENT |-> "Shutoff"]

QueryTaskStatus(t) ==
  /\ svcPc = "ready"
  /\ info[t] \in {"Running", "Shutoff", "PMSuspend"}
  /\ dom[t] # "ABSENT"
  /\ info' = [info EXCEPT ![t] = StatusOf[dom[t]]]
  /\ svcPc' = "idle" /\ svcUser' = Nobody
  /\ UNCHANGED <<taskDb, vmVars, mgrVars, events, procVars, svcTodo, svcNew,
                 jobs, prune, envVars, raced>>

ServiceNext ==
  \/ \E w \in Wallets : CheckAuthority(w)
  \/ \E t \in Tasks : DeleteCheckTask(t)
  \/ Authorised
  \/ RequestDone
  \/ \E t \in Tasks, n \in 0 .. Cardinality(Gpus) : CreateTask(t, n)
  \/ CreateTaskRecords
  \/ \E t \in Tasks : StartTask(t)
  \/ \E t \in Tasks : ShutdownTask(t)
  \/ \E t \in Tasks : PoweroffTask(t)
  \/ \E t \in Tasks, force \in BOOLEAN : RestartTask(t, force)
  \/ \E t \in Tasks : ResetTask(t)
  \/ \E t \in Tasks : DeleteTask(t)
  \/ \E t \in Tasks : QueryTaskStatus(t)

-----------------------------------------------------------------------------
(***************************************************************************)
(* delete_task and close_task, executed by whichever thread called them.   *)
(***************************************************************************)

\* DestroyAndUndefineDomain: its result is ignored.
DeleteVm(th) ==
  LET t == jobs[th].task IN
  /\ jobs[th].op = "delete.vm"
  /\ \E d \in DestroyAndUndefineDomain(t) :
       /\ dom' = [dom EXCEPT ![t] = d]
       /\ hostdev' = [hostdev EXCEPT ![t] = IF d = "ABSENT" THEN {} ELSE @]
       /\ raced' = IF d # "ABSENT" \/ Handling(t) THEN raced \cup {t} ELSE raced
  /\ jobs' = [jobs EXCEPT ![th] = Job("delete.info", t)]
  /\ UNCHANGED <<info, mgrVars, events, procVars, taskDb, svcVars, prune, envVars>>

\* Fault seeded for NoResurrection: the record stays in task.db.
DeleteInfoKeepDb(th) ==
  LET t == jobs[th].task IN
  /\ jobs[th].op = "delete.info"
  /\ IF Exists(t)
       THEN /\ info' = [info EXCEPT ![t] = "absent"]
            /\ gpus' = [gpus EXCEPT ![t] = {}]
            /\ jobs' = [jobs EXCEPT ![th] = Job("delete.rest", t)]
       ELSE /\ jobs' = [jobs EXCEPT ![th] = NoJob]
            /\ UNCHANGED <<info, gpus>>
  /\ UNCHANGED <<taskDb, vmVars, rent, ipt, rules, events, procVars, svcVars,
                 prune, envVars, raced>>

\* Nothing more is deleted when the TaskInfo is gone already.
DeleteInfo(th) ==
  LET t == jobs[th].task IN
  /\ jobs[th].op = "delete.info"
  /\ IF Exists(t)
       THEN /\ info' = [info EXCEPT ![t] = "absent"]
            /\ taskDb' = taskDb \ {t}
            /\ gpus' = [gpus EXCEPT ![t] = {}]
            /\ jobs' = [jobs EXCEPT ![th] = Job("delete.rest", t)]
       ELSE /\ jobs' = [jobs EXCEPT ![th] = NoJob]
            /\ UNCHANGED <<info, taskDb, gpus>>
  /\ UNCHANGED <<vmVars, rent, ipt, rules, events, procVars, svcVars, prune,
                 envVars, raced>>

\* Fault seeded for CleanDelete: the record goes before the rules that are
\* found through it.
DeleteRestRecordFirst(th) ==
  LET t == jobs[th].task IN
  /\ jobs[th].op = "delete.rest"
  /\ ipt' = ipt \ {t}
  /\ rent' = [w \in Wallets |-> rent[w] \ {t}]
  /\ jobs' = [jobs EXCEPT ![th] = NoJob]
  /\ UNCHANGED <<info, taskDb, gpus, vmVars, rules, events, procVars, svcVars,
                 prune, envVars, raced>>

\* The rules are found through the iptable record; then the record and the
\* entry in the wallet's rent list go.
DeleteRest(th) ==
  LET t == jobs[th].task IN
  /\ jobs[th].op = "delete.rest"
  /\ rules' = IF t \in ipt THEN rules \ {t} ELSE rules
  /\ ipt' = ipt \ {t}
  /\ rent' = [w \in Wallets |-> rent[w] \ {t}]
  /\ jobs' = [jobs EXCEPT ![th] = NoJob]
  /\ UNCHANGED <<info, taskDb, gpus, vmVars, events, procVars, svcVars, prune,
                 envVars, raced>>

\* Fault seeded for RentOver: the test of the domain's state is inverted.
CloseVmInverted(th) ==
  LET t == jobs[th].task IN
  /\ jobs[th].op = "close.vm"
  /\ IF dom[t] # "SHUTOFF"
       THEN jobs' = [jobs EXCEPT ![th] = NoJob] /\ UNCHANGED dom
       ELSE \E r \in DestroyDomain(t) :
              /\ dom' = [dom EXCEPT ![t] = r[1]]
              /\ jobs' = [jobs EXCEPT ![th] =
                            IF r[2] THEN Job("close.record", t) ELSE NoJob]
  /\ UNCHANGED <<info, hostdev, mgrVars, events, procVars, taskDb, svcVars,
                 prune, envVars, raced>>

CloseVm(th) ==
  LET t == jobs[th].task IN
  /\ jobs[th].op = "close.vm"
  /\ IF dom[t] = "SHUTOFF"
       THEN jobs' = [jobs EXCEPT ![th] = NoJob] /\ UNCHANGED dom
       ELSE \E r \in DestroyDomain(t) :
              /\ dom' = [dom EXCEPT ![t] = r[1]]
              /\ jobs' = [jobs EXCEPT ![th] =
                            IF r[2] THEN Job("close.record", t) ELSE NoJob]
  /\ UNCHANGED <<info, hostdev, mgrVars, events, procVars, taskDb, svcVars,
                 prune, envVars, raced>>

CloseRecord(th) ==
  LET t == jobs[th].task IN
  /\ jobs[th].op = "close.record"
  /\ info' = IF Exists(t) THEN [info EXCEPT ![t] = "Shutoff"] ELSE info
  /\ rules' = IF t \in ipt THEN rules \ {t} ELSE rules
  /\ jobs' = [jobs EXCEPT ![th] = NoJob]
  /\ UNCHANGED <<taskDb, gpus, rent, ipt, vmVars, events, procVars, svcVars,
                 prune, envVars, raced>>

DeleteStep(th) == DeleteVm(th) \/ DeleteInfo(th) \/ DeleteRest(th)

-----------------------------------------------------------------------------
(***************************************************************************)
(* The process thread.                                                     *)
(***************************************************************************)

\* Fault seeded for CleanDelete: the handlers do not look for the TaskInfo.
PopEventNoLookup ==
  LET ev == Head(events) IN
  /\ procPc = "idle" /\ events # <<>>
  /\ events' = Tail(events)
  /\ procEv' = ev
  /\ IF ev.type = "Delete"
       THEN /\ procPc' = "job"
            /\ jobs' = [jobs EXCEPT !["P"] = Job("delete.vm", ev.task)]
       ELSE procPc' = "vm" /\ UNCHANGED jobs
  /\ raced' = IF ev.type # "Delete" /\ InDelete(ev.task) THEN raced \cup {ev.task} ELSE raced
  /\ UNCHANGED <<info, vmVars, mgrVars, procOk, toWrite, dbVars, svcVars, prune,
                 envVars>>

\* process_task: the event is taken and the handler looks up the TaskInfo.
PopEvent ==
  LET ev == Head(events) IN
  /\ procPc = "idle" /\ events # <<>>
  /\ events' = Tail(events)
  /\ procEv' = IF Exists(ev.task) THEN ev ELSE NoEvent
  /\ \/ /\ ~Exists(ev.task)
        /\ procPc' = "update"
        /\ UNCHANGED <<jobs, raced>>
     \/ /\ Exists(ev.task) /\ ev.type = "Delete"
        /\ procPc' = "job"
        /\ jobs' = [jobs EXCEPT !["P"] = Job("delete.vm", ev.task)]
        /\ UNCHANGED raced
     \/ /\ Exists(ev.task) /\ ev.type # "Delete"
        /\ procPc' = "vm"
        /\ raced' = IF InDelete(ev.task) THEN raced \cup {ev.task} ELSE raced
        /\ UNCHANGED jobs
  /\ UNCHANGED <<info, vmVars, mgrVars, procOk, toWrite, dbVars, svcVars, prune,
                 envVars>>

\* The handler of events of one of the types starts with a libvirt call.
Handler(types) == procPc = "vm" /\ procEv.type \in types

\* A libvirt call on the handler's task gave outcome r; it goes on at pc.
VmCall(r, pc) ==
  /\ dom' = [dom EXCEPT ![procEv.task] = r[1]]
  /\ procOk' = r[2]
  /\ procPc' = pc
  /\ UNCHANGED <<info, mgrVars, events, procEv, toWrite, dbVars, svcVars, jobs,
                 prune, envVars, raced>>

\* DefineNWFilter and CreateDomain.
ProcessCreate ==
  LET t == procEv.task IN
  /\ Handler({"Create"})
  /\ \E r \in CreateDomain(t) :
       /\ hostdev' = [hostdev EXCEPT ![t] = IF r[1] = "ABSENT" THEN {} ELSE gpus[t]]
       /\ VmCall(r, IF r[2] /\ t \notin PxeTasks THEN "net" ELSE "finish")

\* A task whose creation failed has no iptable record: a successful start
\* makes up for it.
ProcessStart ==
  LET t == procEv.task IN
  /\ Handler({"Start"})
  /\ \E r \in StartDomain(t) :
       VmCall(r, IF r[2] /\ t \notin PxeTasks /\ t \notin ipt
                   THEN "net" ELSE "finish")
  /\ UNCHANGED hostdev

ProcessStop ==
  /\ Handler({"Shutdown", "Poweroff"})
  /\ \E r \in DestroyDomain(procEv.task) : VmCall(r, "finish")
  /\ UNCHANGED hostdev

\* A domain that is neither shut off nor running is left alone, and so is
\* the status of its task.
ProcessRestart ==
  LET t == procEv.task IN
  /\ Handler({"Restart"})
  /\ \/ dom[t] = "SHUTOFF" /\ \E r \in StartDomain(t) : VmCall(r, "finish")
     \/ dom[t] = "RUNNING" /\ \E r \in RebootDomain(t) : VmCall(r, "finish")
     \/ /\ dom[t] \notin {"SHUTOFF", "RUNNING"}
        /\ procPc' = "update" /\ procEv' = NoEvent
        /\ UNCHANGED <<info, dom, mgrVars, events, procOk, toWrite, dbVars,
                       svcVars, jobs, prune, envVars, raced>>
  /\ UNCHANGED hostdev

ProcessForceReboot ==
  LET t == procEv.task IN
  /\ Handler({"ForceReboot"})
  /\ \/ dom[t] = "SHUTOFF" /\ \E r \in StartDomain(t) : VmCall(r, "finish")
     \/ /\ dom[t] # "SHUTOFF"
        /\ \E r \in DestroyDomain(t) : VmCall(r, IF r[2] THEN "vm2" ELSE "finish")
  /\ UNCHANGED hostdev

\* Three seconds after the domain was destroyed.
ForceRebootStart ==
  /\ procPc = "vm2"
  /\ \E r \in StartDomain(procEv.task) : VmCall(r, "finish")
  /\ UNCHANGED hostdev

ProcessReset ==
  /\ Handler({"Reset"})
  /\ \E r \in ResetDomain(procEv.task) : VmCall(r, "finish")
  /\ UNCHANGED hostdev

\* The guest's address is found and create_task_iptable adds the record, or
\* one of the two fails.
ProcessNetwork ==
  /\ procPc = "net"
  /\ \/ ipt' = ipt \cup {procEv.task} /\ procPc' = "finish"
     \/ /\ "network" \in Faults \/ dom[procEv.task] # "RUNNING"
        /\ ipt' = ipt /\ procPc' = "undo"
  /\ UNCHANGED <<info, gpus, rent, rules, vmVars, events, procEv, procOk,
                 toWrite, dbVars, svcVars, jobs, prune, envVars, raced>>

\* Fault seeded for WaitingBacked and TaskSettles: the handler returns
\* without recording the failure.
ProcessUndoSilent ==
  /\ procPc = "undo"
  /\ \E r \in DestroyDomain(procEv.task) : dom' = [dom EXCEPT ![procEv.task] = r[1]]
  /\ procPc' = "update" /\ procEv' = NoEvent
  /\ UNCHANGED <<info, hostdev, mgrVars, events, procOk, toWrite, dbVars,
                 svcVars, jobs, prune, envVars, raced>>

\* Without an address the domain is destroyed again; the handler has failed
\* whatever that call returns.
ProcessUndo ==
  /\ procPc = "undo"
  /\ \E r \in DestroyDomain(procEv.task) : VmCall(<<r[1], FALSE>>, "finish")
  /\ UNCHANGED hostdev

\* The handler records the outcome, unless the status is no longer the one
\* its request left, and adds or removes the rules of the iptable record.
ProcessFinish ==
  LET t == procEv.task
      mapped == IF t \in ipt THEN {t} ELSE {} IN
  /\ procPc = "finish"
  /\ info' = IF info[t] = Awaited[procEv.type]
               THEN [info EXCEPT ![t] = IF procOk THEN Success[procEv.type]
                                                  ELSE Failure[procEv.type]]
               ELSE info
  /\ rules' = CASE procOk /\ procEv.type \in {"Shutdown", "Poweroff"} -> rules \ mapped
                [] procOk /\ procEv.type \in {"Create", "Start", "Restart", "ForceReboot"}
                     -> rules \cup mapped
                [] OTHER -> rules
  /\ procPc' = "update" /\ procEv' = NoEvent /\ procOk' = TRUE
  /\ UNCHANGED <<gpus, rent, ipt, vmVars, events, toWrite,
                 dbVars, svcVars, jobs, prune, envVars, raced>>

\* process_delete_task returns from delete_task.
ProcessDeleted ==
  /\ procPc = "job" /\ jobs["P"] = NoJob
  /\ procPc' = "update" /\ procEv' = NoEvent
  /\ UNCHANGED <<info, mgrVars, vmVars, events, procOk, toWrite,
                 dbVars, svcVars, jobs, prune, envVars, raced>>

\* update_running_tasks collects the running tasks; the database is then
\* cleared key by key and written key by key.
UpdateRunningTasks ==
  /\ procPc = "update"
  /\ toWrite' = {t \in Tasks : info[t] = "Running"}
  /\ procPc' = "clear"
  /\ UNCHANGED <<info, mgrVars, vmVars, events, procEv, procOk, dbVars,
                 svcVars, jobs, prune, envVars, raced>>

RunningDbClear ==
  /\ procPc = "clear"
  /\ \/ \E t \in runDb : runDb' = runDb \ {t} /\ UNCHANGED procPc
     \/ runDb = {} /\ procPc' = "write" /\ UNCHANGED runDb
  /\ UNCHANGED <<info, mgrVars, vmVars, events, procEv, procOk, toWrite,
                 taskDb, svcVars, jobs, prune, envVars, raced>>

RunningDbWrite ==
  /\ procPc = "write"
  /\ \/ \E t \in toWrite : /\ runDb' = runDb \cup {t}
                           /\ toWrite' = toWrite \ {t}
                           /\ UNCHANGED procPc
     \/ toWrite = {} /\ procPc' = "idle" /\ UNCHANGED <<runDb, toWrite>>
  /\ UNCHANGED <<info, mgrVars, vmVars, events, procEv, procOk, taskDb,
                 svcVars, jobs, prune, envVars, raced>>

ProcessNext ==
  \/ PopEvent \/ ProcessCreate \/ ProcessStart \/ ProcessStop
  \/ ProcessRestart \/ ProcessForceReboot \/ ForceRebootStart \/ ProcessReset
  \/ ProcessNetwork \/ ProcessUndo \/ ProcessFinish \/ ProcessDeleted
  \/ UpdateRunningTasks \/ RunningDbClear \/ RunningDbWrite

-----------------------------------------------------------------------------
(***************************************************************************)
(* The prune thread.  Whether a wallet's ten days of grace are over is     *)
(* left open: rent_end only matters to that test.                          *)
(***************************************************************************)

\* A pass begins with the machine's status.
PruneBegin ==
  /\ prune.pc = "wait"
  /\ prune' = [prune EXCEPT !.pc = "renter", !.status = chain.status]
  /\ UNCHANGED <<info, mgrVars, vmVars, events, procVars, taskDb, svcVars,
                 jobs, envVars, raced>>

\* The current renter (the empty string when the query fails), and a copy of
\* the wallet map.
PruneRenter ==
  /\ prune.pc = "renter"
  /\ \E renter \in {IF chain.status = "Rented" THEN chain.wallet ELSE NoWallet}
                   \cup (IF "chain" \in Faults THEN {NoWallet} ELSE {}) :
       prune' = [prune EXCEPT !.pc = "wallets", !.renter = renter,
                              !.wallets = {w \in Wallets : rent[w] # {}}]
  /\ UNCHANGED <<info, mgrVars, vmVars, events, procVars, taskDb, svcVars,
                 jobs, envVars, raced>>

\* What the machine's status alone demands of a wallet's tasks.
ByStatus(ids) == CASE prune.status = "Verify" -> ids \ CheckTasks
                   [] prune.status = "Online" -> ids
                   [] prune.status = "Rented" -> ids \cap CheckTasks

PruneWallet(w) ==
  /\ prune.pc = "wallets" /\ w \in prune.wallets
  /\ prune' = [prune EXCEPT !.pc = "status", !.wallet = w,
                            !.wallets = @ \ {w}, !.todo = ByStatus(rent[w])]
  /\ UNCHANGED <<info, mgrVars, vmVars, events, procVars, taskDb, svcVars,
                 jobs, envVars, raced>>

\* Check tasks are deleted for the machine's status; any other task, and
\* every task of a wallet that is not the renter, is closed, and deleted
\* when the wallet's time is over.
PruneTask(t) ==
  LET delete == prune.pc = "delete" \/ (prune.pc = "status" /\ t \in CheckTasks)
  IN
  /\ prune.pc \in {"status", "close", "delete"} /\ t \in prune.todo
  /\ jobs["R"] = NoJob
  /\ jobs' = [jobs EXCEPT !["R"] = Job(IF delete THEN "delete.vm" ELSE "close.vm", t)]
  /\ prune' = [prune EXCEPT !.todo = @ \ {t}]
  /\ UNCHANGED <<info, mgrVars, vmVars, events, procVars, taskDb, svcVars,
                 envVars, raced>>

PruneNextPhase ==
  LET ids == rent[prune.wallet]
      stranger == prune.status # "Verify" /\ prune.wallet # prune.renter IN
  /\ prune.todo = {} /\ jobs["R"] = NoJob
  /\ \/ /\ prune.pc = "status" /\ stranger
        /\ prune' = [prune EXCEPT !.pc = "close", !.todo = ids]
     \/ /\ prune.pc = "close"
        /\ prune' = [prune EXCEPT !.pc = "delete", !.todo = ids]
     \/ /\ prune.pc \in {"close", "delete"} \/ (prune.pc = "status" /\ ~stranger)
        /\ prune' = [prune EXCEPT !.pc = "wallets", !.wallet = NoWallet]
  /\ UNCHANGED <<info, mgrVars, vmVars, events, procVars, taskDb, svcVars,
                 jobs, envVars, raced>>

PruneEnd ==
  /\ prune.pc = "wallets" /\ prune.wallets = {}
  /\ prune' = NoPrune
  /\ UNCHANGED <<info, mgrVars, vmVars, events, procVars, taskDb, svcVars,
                 jobs, envVars, raced>>

PruneNext ==
  \/ PruneBegin
  \/ PruneRenter
  \/ \E w \in Wallets : PruneWallet(w)
  \/ \E t \in Tasks : PruneTask(t)
  \/ PruneNextPhase
  \/ PruneEnd
  \/ CloseVm("R") \/ CloseRecord("R")

-----------------------------------------------------------------------------
(***************************************************************************)
(* The environment, and the recovery of the state after a crash.           *)
(***************************************************************************)

\* A guest powers itself off or suspends itself.
GuestStop(t, d) ==
  /\ GuestEvents
  /\ dom[t] = "RUNNING"
  /\ dom' = [dom EXCEPT ![t] = d]
  /\ UNCHANGED <<info, hostdev, mgrVars, events, procVars, taskDb, svcVars,
                 jobs, prune, envVars, raced>>

ChainStates == [status : Statuses \ {"Online"}, wallet : Wallets]
               \cup [status : Statuses \cap {"Online"}, wallet : {NoWallet}]

ChainChange ==
  /\ ChainEvents
  /\ chain' \in ChainStates
  /\ UNCHANGED <<info, mgrVars, vmVars, events, procVars, taskDb, svcVars,
                 jobs, prune, crashes, raced>>

\* Fault seeded for Owned: init does not ask whether the domain exists.
LoadedNoDomainCheck == taskDb

\* TaskInfoManager.init: the tasks of task.db whose domain exists.
Loaded == {t \in taskDb : dom[t] # "ABSENT"}

\* dbc dies (and the host with it, or not) and is started again: init loads
\* the databases and init_tasks_status starts what was running.
Crash(host) ==
  LET off     == [t \in Tasks |-> IF host /\ dom[t] \in Active
                                    THEN "SHUTOFF" ELSE dom[t]]
      restore == runDb \cap Loaded
  IN
  /\ crashes < MaxCrash
  /\ crashes' = crashes + 1
  /\ \E up \in SUBSET {t \in restore : off[t] # "RUNNING"} :
       /\ \A t \in up : \A u \in Tasks \ {t} :
            (u \in up \/ off[u] \in Active) => hostdev[u] \cap hostdev[t] = {}
       /\ dom' = [t \in Tasks |-> IF t \in up THEN "RUNNING" ELSE off[t]]
       /\ rules' = (IF host THEN {} ELSE rules) \cup (up \cap ipt)
  /\ info' = [t \in Tasks |-> CASE t \in restore -> "Running"
                                [] t \in Loaded \ restore -> StatusOf[off[t]]
                                [] t \notin Loaded /\ info[t] = "unborn" -> "unborn"
                                [] OTHER -> "absent"]
  /\ gpus' = [t \in Tasks |-> IF t \in Loaded THEN hostdev[t] ELSE {}]
  /\ events' = <<>> /\ procPc' = "idle" /\ toWrite' = {}
  /\ svcPc' = "idle" /\ svcTodo' = {} /\ svcUser' = Nobody /\ svcNew' = NoNew
  /\ jobs' = [th \in Threads |-> NoJob]
  /\ prune' = NoPrune
  /\ raced' = raced \cup (taskDb \ Loaded)
                    \cup {jobs[th].task : th \in {x \in Threads : jobs[x].op = "delete.rest"}}
  /\ procEv' = NoEvent /\ procOk' = TRUE
  /\ UNCHANGED <<hostdev, rent, ipt, dbVars, chain>>

Environment ==
  \/ \E t \in Tasks, d \in {"SHUTOFF", "PMSUSPENDED"} : GuestStop(t, d)
  \/ ChainChange
  \/ \E host \in BOOLEAN : Crash(host)

-----------------------------------------------------------------------------
Init ==
  /\ info = [t \in Tasks |-> "unborn"]
  /\ taskDb = {} /\ runDb = {}
  /\ dom = [t \in Tasks |-> "ABSENT"]
  /\ hostdev = [t \in Tasks |-> {}]
  /\ gpus = [t \in Tasks |-> {}]
  /\ rent = [w \in Wallets |-> {}]
  /\ ipt = {} /\ rules = {}
  /\ events = <<>>
  /\ procPc = "idle" /\ procOk = TRUE /\ toWrite = {}
  /\ procEv = NoEvent
  /\ svcPc = "idle" /\ svcTodo = {} /\ svcUser = Nobody /\ svcNew = NoNew
  /\ jobs = [th \in Threads |-> NoJob]
  /\ prune = NoPrune
  /\ chain \in ChainStates
  /\ crashes = 0
  /\ raced = {}

Next == \/ ServiceNext \/ ProcessNext \/ PruneNext \/ Environment
        \/ \E th \in Threads : DeleteStep(th)

Spec == Init /\ [][Next]_vars

\* The process and the prune thread never stop: both loop on a condition
\* variable, the second with a time-out of 900 seconds.  The request thread
\* gets to the end of a createTask it has begun, and need do nothing else.
Fairness == /\ WF_vars(ProcessNext \/ DeleteStep("P"))
            /\ WF_vars(PruneNext \/ DeleteStep("R"))
            /\ WF_vars(CreateTaskRecords)

FairSpec == Spec /\ Fairness

-----------------------------------------------------------------------------
(***************************************************************************)
(* Properties.                                                             *)
(***************************************************************************)

\* Every variable has its type, and the program counters agree with the
\* jobs the threads execute.
TypeOK ==
  /\ info \in [Tasks -> Known \cup Gone]
  /\ taskDb \subseteq Tasks /\ runDb \subseteq Tasks
  /\ dom \in [Tasks -> DomainState]
  /\ hostdev \in [Tasks -> SUBSET Gpus]
  /\ gpus \in [Tasks -> SUBSET Gpus]
  /\ rent \in [Wallets -> SUBSET Tasks]
  /\ ipt \subseteq Tasks /\ rules \subseteq Tasks
  /\ events \in Seq(Event)
  /\ procPc \in {"idle", "vm", "vm2", "net", "undo", "finish", "job",
                 "update", "clear", "write"}
  /\ procEv \in [type : EventType, task : Tasks \cup {NoTask}]
  /\ procOk \in BOOLEAN
  /\ toWrite \subseteq Tasks
  /\ svcPc \in {"idle", "delete", "ready", "create"}
  /\ svcTodo \subseteq Tasks
  /\ svcUser \in [wallet : Wallets \cup {NoWallet}, role : Role]
  /\ svcNew \in [task : Tasks \cup {NoTask}, gpus : SUBSET Gpus]
  /\ jobs \in [Threads -> [op : JobOp, task : Tasks \cup {NoTask}]]
  /\ prune \in [pc : {"wait", "renter", "wallets", "status", "close", "delete"},
                status : MachineStatus, renter : Wallets \cup {NoWallet},
                wallets : SUBSET Wallets, wallet : Wallets \cup {NoWallet},
                todo : SUBSET Tasks]
  /\ chain \in ChainStates
  /\ crashes \in Nat
  /\ raced \subseteq Tasks

\* A task the node knows is in the rent list of a wallet, whatever the three
\* threads do and wherever a crash falls: prune works on the rent lists only,
\* so a task outside them would run for ever.  createTask writes task.db
\* before rent_task.db, delete_task deletes in the same order.
Owned ==
  \A t \in Tasks : Exists(t) => t \in Rented \/ (svcPc = "create" /\ svcNew.task = t)

\* The tasks whose creation is queued or about to call libvirt.
PendingCreate(t) ==
  \/ \E i \in DOMAIN events : events[i] = [type |-> "Create", task |-> t]
  \/ procPc = "vm" /\ procEv = [type |-> "Create", task |-> t]

\* allocate_gpu gives no GPU to two tasks that wait to be created, although
\* neither has a domain yet.
PendingCreatesDisjoint ==
  \A t, u \in Tasks :
    t # u /\ PendingCreate(t) /\ PendingCreate(u) => gpus[t] \cap gpus[u] = {}

\* A status that announces an outcome has the event that will bring it,
\* queued or being handled: later requests, close_task and queries
\* overwrite statuses but never leave one that nothing will settle.
\* Restarting is excepted: process_restart_task ignores a domain that is
\* neither running nor shut off.
WaitingBacked ==
  \A t \in Tasks :
    info[t] \in Waiting \ {"Restarting"} =>
      \/ \E i \in DOMAIN events :
           events[i].task = t /\ Awaited[events[i].type] = info[t]
      \/ /\ procPc \in {"vm", "vm2", "net", "undo", "finish", "job"}
         /\ procEv.task = t /\ Awaited[procEv.type] = info[t]
      \/ svcPc = "create" /\ svcNew.task = t

\* A task without a domain is being created, has failed to be, or is being
\* deleted: no other request gets past IsExistDomain, so the status shown to
\* the user never promises a machine that is not there.
NoDomainStatus ==
  \A t \in Tasks :
    Exists(t) /\ dom[t] = "ABSENT" /\ ~InDelete(t)
      => info[t] \in {"Creating", "CreateTaskError"}

\* A deleted task leaves nothing behind: no domain, database record, GPU,
\* iptables rule, iptable record or rent entry - unless libvirt refused to
\* undefine the domain, the deletion overlapped the handling of another
\* event of the task, or a crash cut the creation or the deletion.
CleanDelete ==
  \A t \in Tasks :
    info[t] = "absent" /\ ~InDelete(t) /\ t \notin raced =>
      /\ dom[t] = "ABSENT" /\ t \notin taskDb
      /\ gpus[t] = {}
      /\ t \notin ipt /\ t \notin rules
      /\ t \notin Rented

\* A task that is gone does not come back, across crashes too.
NoResurrection ==
  [][\A t \in Tasks : info[t] = "absent" => info'[t] = "absent"]_vars

\* The GPU check of restartTask lets a running task be rebooted when no
\* other task uses its GPUs, as the event's "reboot domain" and the RUNNING
\* state restartTask accepts say.
RunningTaskRestarts ==
  \A t \in Tasks :
    Exists(t) /\ dom[t] = "RUNNING"
    /\ (\A u \in Tasks \ {t} : Exists(u) => gpus[t] \cap gpus[u] = {})
      => CheckGpu(t)

\* A task does not wait for ever for the outcome of a request: it leaves the
\* status the request gave it, however often it returns to it.
TaskSettles ==
  \A t \in Tasks : \A s \in Waiting \ {"Restarting"} :
    info[t] = s ~> info[t] # s

\* Once the machine is on line and not rented any more, the virtual machines
\* of the tasks the node knows are off in the end and stay off, whatever was
\* queued when the rent ended.
RentOver ==
  <>[](chain.status = "Online")
    => <>[](\A t \in Tasks : Exists(t) => dom[t] \notin Active)
=============================================================================
