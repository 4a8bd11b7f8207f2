-------------------------- MODULE TaskDiskManager --------------------------
(***************************************************************************)
(* The disks and the snapshots of one task.                                *)
(*                                                                         *)
(* TaskDiskManager keeps the names of a task's disks and the records of    *)
(* its snapshots; ImageManager keeps the uploads.  Four threads use them:  *)
(*   the request thread checks a request, and queues an event or ends an   *)
(*     upload;                                                             *)
(*   the process thread of TaskManager handles the events, one at a time;  *)
(*   the check thread of ImageManager looks for uploads that have ended    *)
(*     and calls their callbacks, holding m_upload_mtx;                    *)
(*   the prune thread may delete the task at any time.                     *)
(* The domain, the disk files and the rsync children are external.  Disks  *)
(* are numbered as their names are lettered: vda is 1, vdb is 2.           *)
(***************************************************************************)
EXTENDS Naturals, Sequences, FiniteSets, FiniteSetsExt, SequencesExt

CONSTANTS
  Names,        \* names of snapshots
  NoName,
  MaxRequests,  \* bound: number of requests
  MaxCrash      \* bound: number of times dbc is killed

ASSUME NamesAssumption == NoName \notin Names
ASSUME DiskBounds == {MaxRequests, MaxCrash} \subseteq Nat

Disks == 1 .. MaxRequests + 2
Files == 1 .. MaxRequests      \* snapshot files: each request makes a new one
NoFile == 0

VARIABLES
  task,     \* the task has a TaskInfo
  domain,   \* the state of its libvirt domain
  xml,      \* the disks in the definition of the domain
  disks,    \* m_task_disks: the disks of the task, none if there is no entry
  files,    \* the disks whose file exists
  record,   \* m_task_snapshots and snapshot.db have an entry for the task
  snaps,    \* its list of snapshots, the same in memory and in snapshot.db
  status,   \* m_snapshots_status
  sfiles,   \* snapshot files that exist
  upload,   \* m_upload_images, by file
  nameOf,   \* the snapshot a file is made for, as its event and callback know it
  events,   \* m_events of TaskManager
  cur,      \* the event the process thread handles
  pc,       \* what each thread does next
  copy,     \* the definition AttachDisk or DetachDisk has read
  victim,   \* the snapshot the request thread ends
  called,   \* the file whose callback the check thread is about to call
  down,     \* dbc has died, and of what
  nreq, ncrash,
  over      \* history: files whose upload ended, or was ended, before the
            \* process thread was done with their event

vars == <<task, domain, xml, disks, files, record, snaps, status, sfiles, upload,
          nameOf, events, cur, pc, copy, victim, called, down, nreq, ncrash, over>>

diskVars == <<task, domain, xml, disks, files, copy>>
snapVars == <<record, snaps, status, sfiles, upload, nameOf, victim, called, over>>

Event == [type : {"none", "start", "resize", "add", "delete", "snapshot"},
          disk : Disks \cup {0}, name : Names \cup {NoName}, file : Files \cup {NoFile},
          warm : BOOLEAN]   \* history: a start was under way at the request

NoEvent == [type |-> "none", disk |-> 0, name |-> NoName, file |-> NoFile, warm |-> FALSE]

Init ==
  /\ task = TRUE /\ domain = "shutoff"
  /\ xml = {1, 2} /\ disks = {1, 2} /\ files = {1, 2}
  /\ record = FALSE /\ snaps = <<>> /\ status = [n \in Names |-> "absent"]
  /\ sfiles = {} /\ upload = [f \in Files |-> "none"]
  /\ nameOf = [f \in Files |-> NoName]
  /\ events = <<>> /\ cur = NoEvent
  /\ pc = [req |-> "idle", proc |-> "idle", check |-> "idle", prune |-> "idle"]
  /\ copy = {} /\ victim = NoName /\ called = NoFile
  /\ down = "no" /\ nreq = 0 /\ ncrash = 0
  /\ over = {}

At(t, step) == down = "no" /\ pc[t] = step
Goto(t, step) == pc' = [pc EXCEPT ![t] = step]

\* The two mutexes: terminateUploadSnapshot holds m_snapshot_mtx while it
\* waits for m_upload_mtx, the check thread holds the latter while the
\* callback waits for the former.  All other uses are single steps.
SnapshotMtxFree == pc.req # "term" /\ pc.proc # "term"
UploadMtxFree == pc.check # "callback"

Recorded(f) == \E i \in DOMAIN snaps : snaps[i].file = f
\* The event of the file is queued or is being handled.
Pending(f) == cur.file = f \/ \E i \in DOMAIN events : events[i].file = f

-----------------------------------------------------------------------------
(***************************************************************************)
(* The request thread.                                                     *)
(***************************************************************************)
Warm == cur.type = "start" \/ \E i \in DOMAIN events : events[i].type = "start"

\* A request passed the checks; its event is queued.
Push(e) ==
  /\ At("req", "idle") /\ nreq < MaxRequests
  /\ events' = Append(events, [e EXCEPT !.warm = Warm])
  /\ nreq' = nreq + 1
  /\ UNCHANGED <<cur, pc, down, ncrash>>

StartTask ==
  /\ task /\ domain = "shutoff"
  /\ Push([NoEvent EXCEPT !.type = "start"])
  /\ UNCHANGED <<diskVars, snapVars>>

ResizeDisk(d) ==
  /\ d \in disks /\ domain = "shutoff"
  /\ Push([NoEvent EXCEPT !.type = "resize", !.disk = d])
  /\ UNCHANGED <<diskVars, snapVars>>

AddNewDisk ==
  /\ disks # {} /\ domain = "shutoff"
  /\ Push([NoEvent EXCEPT !.type = "add"])
  /\ UNCHANGED <<diskVars, snapVars>>

DeleteDisk(d) ==
  /\ d \in disks /\ domain = "shutoff" /\ d # 1
  /\ Push([NoEvent EXCEPT !.type = "delete", !.disk = d])
  /\ UNCHANGED <<diskVars, snapVars>>

\* Fault seeded for ColdDisk: the state of the domain is not looked at.
CreateAndUploadSnapshotAnytime(n) ==
  /\ 1 \in disks /\ task /\ SnapshotMtxFree
  /\ Push([NoEvent EXCEPT !.type = "snapshot", !.name = n, !.file = nreq + 1])
  /\ record' = TRUE
  /\ snaps' = Append(snaps, [name |-> n, file |-> nreq + 1])
  /\ status' = [status EXCEPT ![n] = "creating"]
  /\ nameOf' = [nameOf EXCEPT ![nreq + 1] = n]
  /\ UNCHANGED <<diskVars, sfiles, upload, victim, called, over>>

\* The record is written before the event is queued.  A second snapshot may
\* have the name of an earlier one.
CreateAndUploadSnapshot(n) ==
  /\ 1 \in disks /\ domain = "shutoff" /\ task /\ SnapshotMtxFree
  /\ Push([NoEvent EXCEPT !.type = "snapshot", !.name = n, !.file = nreq + 1])
  /\ record' = TRUE
  /\ snaps' = Append(snaps, [name |-> n, file |-> nreq + 1])
  /\ status' = [status EXCEPT ![n] = "creating"]
  /\ nameOf' = [nameOf EXCEPT ![nreq + 1] = n]
  /\ UNCHANGED <<diskVars, sfiles, upload, victim, called, over>>

\* snapshot_delete: terminateUploadSnapshot takes m_snapshot_mtx.
DeleteSnapshot(n) ==
  /\ At("req", "idle") /\ SnapshotMtxFree /\ nreq < MaxRequests
  /\ \E i \in DOMAIN snaps : snaps[i].name = n
  /\ Goto("req", "term") /\ victim' = n /\ nreq' = nreq + 1
  /\ UNCHANGED <<diskVars, record, snaps, status, sfiles, upload, nameOf, called, over,
                 events, cur, down, ncrash>>

\* Fault seeded for UploadRecorded: the upload goes on.
TerminatedKeepsUpload(n) ==
  LET i == SelectInSeq(snaps, LAMBDA r : r.name = n)
      f == snaps[i].file IN
  /\ UploadMtxFree
  /\ sfiles' = sfiles \ {f}
  /\ snaps' = RemoveAt(snaps, i)
  /\ status' = [status EXCEPT ![n] = "absent"]
  /\ over' = IF Pending(f) THEN over \cup {f} ELSE over
  /\ UNCHANGED upload

\* terminateUploadSnapshot, once it has m_upload_mtx too: the first snapshot
\* of this name and its upload go.
Terminated(n) ==
  LET i == SelectInSeq(snaps, LAMBDA r : r.name = n)
      f == snaps[i].file IN
  /\ UploadMtxFree
  /\ upload' = [upload EXCEPT ![f] = "none"]
  /\ sfiles' = sfiles \ {f}
  /\ snaps' = RemoveAt(snaps, i)
  /\ status' = [status EXCEPT ![n] = "absent"]
  /\ over' = IF Pending(f) THEN over \cup {f} ELSE over

\* Fault seeded for CrashOnlyAfterDelete: the SnapshotInfo goes with the last
\* snapshot.
TerminateUploadSnapshotForget ==
  /\ At("req", "term") /\ Terminated(victim)
  /\ Goto("req", "idle") /\ victim' = NoName
  /\ record' = (Len(snaps) > 1)
  /\ UNCHANGED <<diskVars, nameOf, called, events, cur, down, nreq, ncrash>>

TerminateUploadSnapshot ==
  /\ At("req", "term") /\ Terminated(victim)
  /\ Goto("req", "idle") /\ victim' = NoName
  /\ UNCHANGED <<diskVars, record, nameOf, called, events, cur, down, nreq, ncrash>>

-----------------------------------------------------------------------------
(***************************************************************************)
(* The process thread.  A step that is cut off by other threads' steps is  *)
(* one that reads shared state the next one uses, or that waits for a lock. *)
(***************************************************************************)
Done == Goto("proc", "idle") /\ cur' = NoEvent

rest == <<events, down, nreq, ncrash>>

PopEvent ==
  /\ At("proc", "idle") /\ events # <<>>
  /\ cur' = Head(events) /\ events' = Tail(events)
  /\ Goto("proc", Head(events).type)
  /\ UNCHANGED <<diskVars, snapVars, down, nreq, ncrash>>

\* StartDomain, which may fail.
ProcessStart ==
  /\ At("proc", "start") /\ Done
  /\ domain' \in {domain} \cup (IF domain = "shutoff" THEN {"running"} ELSE {})
  /\ UNCHANGED <<task, xml, disks, files, copy, snapVars, rest>>

\* The size is not modelled.
ProcessResizeDisk ==
  /\ At("proc", "resize") /\ Done
  /\ UNCHANGED <<diskVars, snapVars, rest>>

\* Fault seeded for TypeOK: a letter is left out.
NextDiskSkip == Max(disks) + 2

\* The name follows the last one.
NextDisk == Max(disks) + 1

\* Without a disk (the task was deleted) the
\* code reads before the beginning of the map: dbc dies, or goes on with some
\* name and finds no domain.
ProcessAddDisk ==
  /\ At("proc", "add")
  /\ \/ /\ disks = {}
        /\ Done /\ down' \in {"no", "null"}
        /\ UNCHANGED diskVars
     \/ LET d == NextDisk IN
        /\ disks # {}
        /\ cur' = [cur EXCEPT !.disk = d] /\ files' = files \cup {d}
        /\ Goto("proc", "attach")
        /\ UNCHANGED <<task, domain, xml, disks, copy, down>>
  /\ UNCHANGED <<snapVars, events, nreq, ncrash>>

\* AttachDisk and DetachDisk read the definition of the domain ...
LookupDomain ==
  /\ At("proc", "attach") \/ At("proc", "delete")
  /\ IF domain = "none"
       THEN /\ Done
            /\ files' = IF pc.proc = "attach" THEN files \ {cur.disk} ELSE files
            /\ UNCHANGED copy
       ELSE /\ copy' = xml
            /\ Goto("proc", IF pc.proc = "attach" THEN "defineAttached" ELSE "defineDetached")
            /\ UNCHANGED <<cur, files>>
  /\ UNCHANGED <<task, domain, xml, disks, snapVars, rest>>

\* virDomainDefineXML: a domain that has been undefined meanwhile is defined
\* again.
DefineXML(ds) ==
  /\ xml' = ds
  /\ domain' = IF domain = "none" THEN "shutoff" ELSE domain

\* Fault seeded for DisksMatch: the result of AttachDisk is not looked at.
AttachDiskUnchecked ==
  /\ At("proc", "defineAttached")
  /\ Goto("proc", "insert")
  /\ DefineXML(copy \cup {cur.disk}) \/ UNCHANGED <<xml, domain>>
  /\ copy' = {}
  /\ UNCHANGED <<cur, task, disks, files, snapVars, rest>>

\* ... and define it with the disk, or fail and remove the file.
AttachDisk ==
  /\ At("proc", "defineAttached")
  /\ \/ /\ DefineXML(copy \cup {cur.disk})
        /\ Goto("proc", "insert")
        /\ UNCHANGED <<cur, files>>
     \/ /\ Done /\ files' = files \ {cur.disk}
        /\ UNCHANGED <<xml, domain>>
  /\ copy' = {}
  /\ UNCHANGED <<task, disks, snapVars, rest>>

InsertDisk ==
  /\ At("proc", "insert") /\ Done
  /\ disks' = disks \cup {cur.disk}
  /\ UNCHANGED <<task, domain, xml, files, copy, snapVars, rest>>

\* Fault seeded for DisksHaveFiles: the result of DetachDisk is not looked
\* at.
DetachDiskUnchecked ==
  /\ At("proc", "defineDetached")
  /\ Goto("proc", "erase")
  /\ DefineXML(copy \ {cur.disk}) \/ UNCHANGED <<xml, domain>>
  /\ copy' = {}
  /\ UNCHANGED <<cur, task, disks, files, snapVars, rest>>

DetachDisk ==
  /\ At("proc", "defineDetached")
  /\ \/ DefineXML(copy \ {cur.disk}) /\ Goto("proc", "erase") /\ UNCHANGED cur
     \/ Done /\ UNCHANGED <<xml, domain>>
  /\ copy' = {}
  /\ UNCHANGED <<task, disks, files, snapVars, rest>>

EraseDisk ==
  /\ At("proc", "erase") /\ Done
  /\ disks' = disks \ {cur.disk}
  /\ files' = IF cur.disk \in disks THEN files \ {cur.disk} ELSE files
  /\ UNCHANGED <<task, domain, xml, copy, snapVars, rest>>

\* qemu-img convert, which needs the file of vda and may fail all the same.
ConvertDisk ==
  /\ At("proc", "snapshot") /\ Goto("proc", "upload")
  /\ sfiles' \in {sfiles} \cup (IF 1 \in files THEN {sfiles \cup {cur.file}} ELSE {})
  /\ UNCHANGED <<diskVars, record, snaps, status, upload, nameOf, victim, called, over, cur, rest>>

\* ImageManager::upload starts the child.  The size of a file that does not
\* exist is an exception nobody catches.
StartUpload ==
  /\ At("proc", "upload")
  /\ IF cur.file \in sfiles
       THEN Goto("proc", "register") /\ UNCHANGED down
       ELSE down' = "nofile" /\ UNCHANGED pc
  /\ UNCHANGED <<diskVars, snapVars, cur, events, nreq, ncrash>>

\* ... and enters it in m_upload_images.
RegisterUpload ==
  /\ At("proc", "register") /\ UploadMtxFree /\ Goto("proc", "mark")
  /\ upload' = [upload EXCEPT ![cur.file] = "running"]
  /\ UNCHANGED <<diskVars, record, snaps, status, sfiles, nameOf, victim, called, over, cur, rest>>

\* Fault seeded for SnapshotSettles: the status stays.
MarkUploadingNot ==
  /\ At("proc", "mark") /\ SnapshotMtxFree
  /\ Done /\ UNCHANGED <<status, down>>
  /\ UNCHANGED <<diskVars, record, snaps, sfiles, upload, nameOf, victim, called, over,
                 events, nreq, ncrash>>

\* m_task_snapshots[task_id] is null if the task was deleted.
MarkUploading ==
  /\ At("proc", "mark") /\ SnapshotMtxFree
  /\ IF record
       THEN Done /\ status' = [status EXCEPT ![cur.name] = "uploading"] /\ UNCHANGED down
       ELSE down' = "null" /\ UNCHANGED <<pc, cur, status>>
  /\ UNCHANGED <<diskVars, record, snaps, sfiles, upload, nameOf, victim, called, over,
                 events, nreq, ncrash>>

\* The image server of the request is invalid: terminateUploadSnapshot.
UploadRefused ==
  /\ At("proc", "upload") /\ SnapshotMtxFree
  /\ IF \E i \in DOMAIN snaps : snaps[i].name = cur.name
       THEN Goto("proc", "term") /\ UNCHANGED cur
       ELSE Done
  /\ UNCHANGED <<diskVars, snapVars, rest>>

TerminateRefused ==
  /\ At("proc", "term") /\ Terminated(cur.name) /\ Done
  /\ UNCHANGED <<diskVars, record, nameOf, victim, called, rest>>

-----------------------------------------------------------------------------
(***************************************************************************)
(* The check thread, the prune thread and the environment.                 *)
(***************************************************************************)
noProc == <<events, cur, nreq, ncrash>>

\* An rsync child ends, with or without success.
ChildEnds(f) ==
  /\ down = "no" /\ upload[f] = "running"
  /\ upload' = [upload EXCEPT ![f] = "ended"]
  /\ UNCHANGED <<diskVars, record, snaps, status, sfiles, nameOf, victim, called, over, pc, down, noProc>>

\* thread_check_handle finds an upload whose process has ended.
CheckUpload(f) ==
  /\ At("check", "idle") /\ upload[f] = "ended"
  /\ Goto("check", "callback") /\ called' = f
  /\ UNCHANGED <<diskVars, record, snaps, status, sfiles, upload, nameOf, victim, over, down, noProc>>

\* Fault seeded for UploadingBacked: the callback leaves the status alone.
FinishCallbackSilent ==
  /\ At("check", "callback") /\ SnapshotMtxFree
  /\ Goto("check", "idle") /\ called' = NoFile
  /\ upload' = [upload EXCEPT ![called] = "none"]
  /\ over' = IF Pending(called) THEN over \cup {called} ELSE over
  /\ UNCHANGED <<diskVars, record, snaps, status, sfiles, nameOf, victim, down, noProc>>

\* The callback of process_create_snapshot, and the removal of the upload.
FinishCallback ==
  /\ At("check", "callback") /\ SnapshotMtxFree
  /\ IF record
       THEN /\ Goto("check", "idle") /\ called' = NoFile
            /\ status' = [status EXCEPT ![nameOf[called]] = "none"]
            /\ upload' = [upload EXCEPT ![called] = "none"]
            /\ over' = IF Pending(called) THEN over \cup {called} ELSE over
            /\ UNCHANGED down
       ELSE /\ down' = "null"
            /\ UNCHANGED <<pc, called, status, upload, over>>
  /\ UNCHANGED <<diskVars, record, snaps, sfiles, nameOf, victim, noProc>>

\* delete_task: the domain, the TaskInfo, the disks, the snapshots.
DeleteDomain ==
  /\ At("prune", "idle") /\ task
  /\ domain' = "none" /\ xml' = {}
  /\ Goto("prune", "info")
  /\ UNCHANGED <<task, disks, files, copy, snapVars, down, noProc>>

DeleteInfo ==
  /\ At("prune", "info") /\ Goto("prune", "disks")
  /\ task' = FALSE
  /\ UNCHANGED <<domain, xml, disks, files, copy, snapVars, down, noProc>>

DelDisks ==
  /\ At("prune", "disks") /\ Goto("prune", "snapshots")
  /\ disks' = {} /\ files' = files \ disks
  /\ UNCHANGED <<task, domain, xml, copy, snapVars, down, noProc>>

\* The uploads are not ended.
DelSnapshots ==
  /\ At("prune", "snapshots") /\ SnapshotMtxFree /\ Goto("prune", "idle")
  /\ record' = FALSE /\ snaps' = <<>>
  /\ status' = [n \in Names |-> "absent"]
  /\ sfiles' = sfiles \ {snaps[i].file : i \in DOMAIN snaps}
  /\ over' = over \cup {f \in Files : Recorded(f) /\ Pending(f)}
  /\ UNCHANGED <<diskVars, upload, nameOf, victim, called, down, noProc>>

\* The guest shuts down.
GuestStops ==
  /\ domain = "running" /\ domain' = "shutoff"
  /\ UNCHANGED <<task, xml, disks, files, copy, snapVars, pc, down, noProc>>

Killed ==
  /\ down = "no" /\ ncrash < MaxCrash
  /\ down' = "killed" /\ ncrash' = ncrash + 1
  /\ UNCHANGED <<diskVars, snapVars, pc, events, cur, nreq>>

\* init: the disks are read from the domain of a task, the snapshots from
\* snapshot.db; events and uploads are lost.
Restart ==
  /\ down # "no" /\ down' = "no"
  /\ disks' = IF task THEN xml ELSE {}
  /\ status' = [n \in Names |-> IF \E i \in DOMAIN snaps : snaps[i].name = n THEN "none" ELSE "absent"]
  /\ upload' = [f \in Files |-> "none"]
  /\ events' = <<>> /\ cur' = NoEvent
  /\ pc' = [t \in DOMAIN pc |-> "idle"]
  /\ copy' = {} /\ victim' = NoName /\ called' = NoFile
  /\ UNCHANGED <<task, domain, xml, files, record, snaps, sfiles, nameOf, nreq, ncrash, over>>

-----------------------------------------------------------------------------
Request ==
  \/ StartTask \/ AddNewDisk
  \/ \E d \in Disks : ResizeDisk(d) \/ DeleteDisk(d)
  \/ \E n \in Names : CreateAndUploadSnapshot(n) \/ DeleteSnapshot(n)

Process ==
  \/ PopEvent \/ ProcessStart \/ ProcessResizeDisk
  \/ ProcessAddDisk \/ LookupDomain \/ AttachDisk \/ InsertDisk
  \/ DetachDisk \/ EraseDisk
  \/ ConvertDisk \/ StartUpload \/ RegisterUpload \/ MarkUploading
  \/ UploadRefused \/ TerminateRefused

Check == FinishCallback \/ \E f \in Files : CheckUpload(f)

Prune == DeleteDomain \/ DeleteInfo \/ DelDisks \/ DelSnapshots

Next ==
  \/ Request \/ TerminateUploadSnapshot \/ Process \/ Check \/ Prune
  \/ (\E f \in Files : ChildEnds(f)) \/ GuestStops \/ Killed \/ Restart

Spec == Init /\ [][Next]_vars

\* The process and the check thread go on, and the request thread completes
\* what it began.
FairSpec ==
  Spec /\ WF_vars(Process) /\ WF_vars(Check) /\ WF_vars(TerminateUploadSnapshot)

-----------------------------------------------------------------------------
(***************************************************************************)
(* Properties.                                                             *)
(***************************************************************************)
Steps == [req : {"idle", "term"},
          proc : {"idle", "start", "resize", "add", "attach", "defineAttached", "insert",
                  "delete", "defineDetached", "erase",
                  "snapshot", "upload", "register", "mark", "term"},
          check : {"idle", "callback"},
          prune : {"idle", "info", "disks", "snapshots"}]

\* Every variable has its type.
TypeOK ==
  /\ task \in BOOLEAN /\ record \in BOOLEAN
  /\ domain \in {"none", "shutoff", "running"}
  /\ xml \subseteq Disks /\ disks \subseteq Disks /\ files \subseteq Disks /\ copy \subseteq Disks
  /\ snaps \in Seq([name : Names, file : Files])
  /\ status \in [Names -> {"absent", "none", "creating", "uploading"}]
  /\ sfiles \subseteq Files /\ over \subseteq Files
  /\ upload \in [Files -> {"none", "running", "ended"}]
  /\ nameOf \in [Files -> Names \cup {NoName}]
  /\ events \in Seq(Event) /\ cur \in Event
  /\ pc \in Steps
  /\ victim \in Names \cup {NoName} /\ called \in Files \cup {NoFile}
  /\ down \in {"no", "null", "nofile", "killed"}
  /\ nreq \in 0 .. MaxRequests /\ ncrash \in 0 .. MaxCrash

\* The disks TaskDiskManager lists are those of the domain, whatever fails
\* and whenever dbc dies, except while an event changes both and while the
\* task is deleted.
DisksMatch ==
  task /\ down = "no" /\ pc.prune = "idle" /\ pc.proc \notin {"insert", "erase"} => disks = xml

\* A domain is defined only with disks whose file exists: a failed detach
\* keeps the file.
DisksHaveFiles == task /\ pc.prune = "idle" => xml \subseteq files

\* The process thread works on the disk of a running domain (the requests
\* refuse that with "please close task first and try again") only for a
\* request that came while a start was queued or being handled.
ColdDisk ==
  domain = "running" /\ pc.proc \notin {"idle", "start"} => cur.warm

\* A snapshot that is shown as uploading is being uploaded, unless its upload
\* was over before the process thread set the status.
UploadingBacked ==
  down = "no" =>
    \A i \in DOMAIN snaps : status[snaps[i].name] = "uploading" =>
      \E f \in Files : nameOf[f] = snaps[i].name /\ (upload[f] # "none" \/ f \in over)

\* An upload belongs to a recorded snapshot, unless the snapshot was deleted
\* before the process thread was done with it or its task is deleted.
UploadRecorded ==
  \A f \in Files : upload[f] # "none" => Recorded(f) \/ f \in over \/ ~record

\* dbc dies of a missing SnapshotInfo or of a task without disks only when
\* the task was deleted under an upload or a queued event.
CrashOnlyAfterDelete == down = "null" => ~task

\* The check thread and a thread in terminateUploadSnapshot wait for each
\* other's mutex.
Deadlocked == pc.check = "callback" /\ ~SnapshotMtxFree

\* A snapshot does not stay in creation, unless dbc dies or the two mutexes
\* are taken in opposite orders.
SnapshotSettles ==
  \A n \in Names : status[n] = "creating" ~> status[n] # "creating" \/ Deadlocked \/ down # "no"
=============================================================================
