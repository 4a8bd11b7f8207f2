----------------------- MODULE TaskDiskManagerProofs -----------------------
(***************************************************************************)
(* Proofs about TaskDiskManager, for any names, any number of requests and *)
(* of kills: its types, the agreement of the disk list with the domain and *)
(* with the files, and what the records say of the uploads.                *)
(***************************************************************************)
EXTENDS TaskDiskManager, SequenceTheorems, WellFoundedInduction, NaturalsInduction, TLAPS

USE NamesAssumption, DiskBounds

\* An event as a request queues it.
Queued ==
  {e \in Event :
     /\ e.type # "none"
     /\ e.type = "delete" => e.disk \in Disks \ {1}
     /\ IF e.type = "snapshot" THEN e.name \in Names /\ e.file \in Files ELSE e.file = NoFile}

\* The steps of the handler of each type of event.
Phase == [none |-> {"idle"}, start |-> {"start"}, resize |-> {"resize"},
          add |-> {"add", "attach", "defineAttached", "insert"},
          delete |-> {"delete", "defineDetached", "erase"},
          snapshot |-> {"snapshot", "upload", "register", "mark", "term"}]

Named(n) == \E i \in DOMAIN snaps : snaps[i].name = n

\* What a thread's program counter says about its local variables, and that
\* one thread at a time is in terminateUploadSnapshot, whose snapshot stays.
Locals ==
  /\ events \in Seq(Queued) /\ cur \in Queued \cup {NoEvent}
  /\ pc.proc \in Phase[cur.type]
  /\ pc.req = "term" => pc.proc # "term" /\ Named(victim)
  /\ pc.proc = "term" => Named(cur.name)
  /\ pc.check = "callback" => called \in Files

\* The events that may still add a disk.
Owed == Len(events) + (IF pc.proc = "add" THEN 1 ELSE 0)

\* Every request allows for one disk more.
Numbered ==
  /\ \A d \in disks \cup xml \cup copy : d + Owed <= nreq + 2
  /\ pc.proc \in {"attach", "defineAttached", "insert"} =>
       cur.disk \in Disks /\ cur.disk + Owed <= nreq + 2

TypeInv == TypeOK /\ Locals /\ Numbered

-----------------------------------------------------------------------------
(***************************************************************************)
(* Operators on sets and sequences.                                        *)
(***************************************************************************)

\* A set of natural numbers has a least element, a bounded one a greatest.
LEMMA MinProperty ==
  ASSUME NEW S \in SUBSET Nat, S # {}
  PROVE  Min(S) \in S /\ \A y \in S : Min(S) <= y
  <1>1. IsWellFoundedOn(OpToRel(<, Nat), Nat)
    BY NatLessThanWellFounded
  <1>2. PICK x \in S : \A y \in S : ~(<<y, x>> \in OpToRel(<, Nat))
    BY <1>1, WFMin, Zenon
  <1>3. \A y \in S : x <= y
    <2>1. \A y \in S : y \in Nat /\ x \in Nat
      OBVIOUS
    <2>2. \A y \in S : ~(y < x)
      BY <1>2, <2>1, Zenon DEF OpToRel
    <2> QED BY <2>1, <2>2
  <1> QED BY <1>3, Zenon DEF Min

LEMMA MaxProperty ==
  ASSUME NEW N \in Nat, NEW S \in SUBSET (0 .. N), S # {}
  PROVE  Max(S) \in S /\ \A y \in S : y <= Max(S)
  <1> DEFINE T == {N - y : y \in S}
  <1>1. T \in SUBSET Nat /\ T # {}
    <2>1. \A y \in S : N - y \in Nat
      OBVIOUS
    <2> QED BY <2>1, Zenon
  <1>2. Min(T) \in T /\ \A z \in T : Min(T) <= z
    BY <1>1, MinProperty
  <1>3. PICK x \in S : Min(T) = N - x
    BY <1>2
  <1>4. \A y \in S : x >= y
    <2>1. \A y \in S : N - x <= N - y
      BY <1>2, <1>3, Zenon
    <2> QED BY <2>1
  <1>5. Max(S) \in S /\ \A y \in S : Max(S) >= y
    BY <1>4, Zenon DEF Max
  <1> QED BY <1>5

\* RemoveAt leaves all the other elements.
LEMMA RemoveAtProperty ==
  ASSUME NEW S, NEW s \in Seq(S), NEW i \in DOMAIN s
  PROVE  /\ RemoveAt(s, i) \in Seq(S)
         /\ \A j \in DOMAIN RemoveAt(s, i) : \E k \in DOMAIN s \ {i} : RemoveAt(s, i)[j] = s[k]
         /\ \A k \in DOMAIN s \ {i} : \E j \in DOMAIN RemoveAt(s, i) : RemoveAt(s, i)[j] = s[k]
  <1> DEFINE a == SubSeq(s, 1, i - 1)
             b == SubSeq(s, i + 1, Len(s))
  <1>1. Len(s) \in Nat /\ i \in 1 .. Len(s) /\ DOMAIN s = 1 .. Len(s)
    BY LenProperties
  <1>2. a \in Seq(S) /\ Len(a) = i - 1 /\ \A j \in 1 .. i - 1 : a[j] = s[j]
    BY <1>1
  <1>3. b \in Seq(S) /\ Len(b) = Len(s) - i /\ \A j \in 1 .. Len(s) - i : b[j] = s[i + j]
    BY <1>1
  <1> HIDE DEF a, b
  <1>4. /\ a \o b \in Seq(S) /\ Len(a \o b) = Len(s) - 1
        /\ \A j \in 1 .. Len(s) - 1 : (a \o b)[j] = IF j <= i - 1 THEN s[j] ELSE s[j + 1]
    <2>1. /\ a \o b \in Seq(S) /\ Len(a \o b) = Len(a) + Len(b)
          /\ \A j \in 1 .. Len(a) + Len(b) : (a \o b)[j] = IF j <= Len(a) THEN a[j] ELSE b[j - Len(a)]
      BY <1>2, <1>3, ConcatProperties
    <2>2. Len(a) + Len(b) = Len(s) - 1
      BY <1>1, <1>2, <1>3
    <2>3. ASSUME NEW j \in 1 .. Len(s) - 1
          PROVE  (a \o b)[j] = IF j <= i - 1 THEN s[j] ELSE s[j + 1]
      <3>1. CASE j <= i - 1
        BY <1>1, <1>2, <1>3, <2>1, <2>2, <3>1
      <3>2. CASE ~(j <= i - 1)
        <4>1. j - Len(a) \in 1 .. Len(s) - i /\ ~(j <= Len(a)) /\ i + (j - Len(a)) = j + 1
          BY <1>1, <1>2, <2>2, <3>2
        <4>2. b[j - Len(a)] = s[j + 1]
          BY <1>3, <4>1
        <4> QED BY <2>1, <2>2, <3>2, <4>1, <4>2
      <3> QED BY <3>1, <3>2
    <2> QED BY <2>1, <2>2, <2>3
  <1>5. RemoveAt(s, i) = a \o b
    BY DEF RemoveAt, a, b
  <1> DEFINE r == RemoveAt(s, i)
  <1> HIDE DEF r
  <1>6. /\ r \in Seq(S) /\ DOMAIN r = 1 .. Len(s) - 1
        /\ \A j \in 1 .. Len(s) - 1 : r[j] = IF j <= i - 1 THEN s[j] ELSE s[j + 1]
    BY <1>4, <1>5, LenProperties DEF r
  <1>7. ASSUME NEW j \in DOMAIN r PROVE \E k \in DOMAIN s \ {i} : r[j] = s[k]
    <2> DEFINE k == IF j <= i - 1 THEN j ELSE j + 1
    <2>1. k \in DOMAIN s \ {i} /\ r[j] = s[k]
      BY <1>1, <1>6
    <2> QED BY <2>1
  <1>8. ASSUME NEW k \in DOMAIN s \ {i} PROVE \E j \in DOMAIN r : r[j] = s[k]
    <2> DEFINE j == IF k < i THEN k ELSE k - 1
    <2>1. j \in DOMAIN r /\ r[j] = s[k]
      BY <1>1, <1>6
    <2> QED BY <2>1
  <1> QED BY <1>6, <1>7, <1>8 DEF r

\* terminateUploadSnapshot finds the snapshot.
LEMMA Found ==
  ASSUME TypeOK, NEW n, Named(n)
  PROVE  LET i == SelectInSeq(snaps, LAMBDA r : r.name = n)
         IN  i \in DOMAIN snaps /\ snaps[i].name = n /\ snaps[i].file \in Files /\ n \in Names
  <1> DEFINE I == {i \in 1 .. Len(snaps) : snaps[i].name = n}
  <1>1. snaps \in Seq([name : Names, file : Files])
    BY DEF TypeOK
  <1>2. Len(snaps) \in Nat /\ DOMAIN snaps = 1 .. Len(snaps)
    BY <1>1, LenProperties
  <1>3. I \in SUBSET Nat /\ I # {}
    BY <1>2 DEF Named
  <1>4. Min(I) \in I
    BY <1>3, MinProperty
  <1>5. SelectInSeq(snaps, LAMBDA r : r.name = n) = Min(I)
    BY <1>3, Zenon DEF SelectInSeq
  <1>6. \A i \in DOMAIN snaps : snaps[i].file \in Files /\ snaps[i].name \in Names
    <2>1. \A i \in 1 .. Len(snaps) : snaps[i] \in [name : Names, file : Files]
      BY <1>1, ElementOfSeq
    <2> QED BY <1>2, <2>1
  <1> QED BY <1>2, <1>4, <1>5, <1>6

-----------------------------------------------------------------------------
(***************************************************************************)
(* Types.                                                                  *)
(***************************************************************************)
USE DEF diskVars, snapVars, rest, noProc

\* A thread goes to another step.
LEMMA GotoProperty ==
  ASSUME TypeOK, NEW t \in {"req", "proc", "check", "prune"}, NEW step, Goto(t, step)
  PROVE  /\ pc'.req = IF t = "req" THEN step ELSE pc.req
         /\ pc'.proc = IF t = "proc" THEN step ELSE pc.proc
         /\ pc'.check = IF t = "check" THEN step ELSE pc.check
         /\ pc'.prune = IF t = "prune" THEN step ELSE pc.prune
         /\ pc' = [req |-> pc'.req, proc |-> pc'.proc, check |-> pc'.check, prune |-> pc'.prune]
  BY DEF TypeOK, Goto, Steps

\* What the types say of the sequences.
LEMMA SequenceParts ==
  ASSUME TypeInv
  PROVE  /\ nreq \in Nat /\ MaxRequests \in Nat /\ MaxCrash \in Nat
         /\ Len(events) \in Nat /\ DOMAIN events = 1 .. Len(events)
         /\ \A i \in DOMAIN events : events[i] \in Queued
         /\ Len(snaps) \in Nat /\ DOMAIN snaps = 1 .. Len(snaps)
         /\ \A i \in DOMAIN snaps : snaps[i].name \in Names /\ snaps[i].file \in Files
         /\ Owed \in Nat
  <1>1. events \in Seq(Queued) /\ snaps \in Seq([name : Names, file : Files])
    BY DEF TypeInv, TypeOK, Locals
  <1>2. /\ Len(events) \in Nat /\ DOMAIN events = 1 .. Len(events)
        /\ Len(snaps) \in Nat /\ DOMAIN snaps = 1 .. Len(snaps)
    BY <1>1, LenProperties
  <1>3. \A i \in DOMAIN events : events[i] \in Queued
    BY <1>1, <1>2, ElementOfSeq
  <1>4. \A i \in DOMAIN snaps : snaps[i] \in [name : Names, file : Files]
    BY <1>1, <1>2, ElementOfSeq
  <1> QED BY <1>2, <1>3, <1>4 DEF TypeInv, TypeOK, Owed

\* A request is queued at the end.
LEMMA PushProperty ==
  ASSUME TypeInv, NEW e \in Queued, Push(e)
  PROVE  /\ events' \in Seq(Queued) /\ Len(events') = Len(events) + 1
         /\ nreq' = nreq + 1 /\ nreq' \in 0 .. MaxRequests
         /\ pc.req = "idle" /\ down = "no" /\ UNCHANGED <<cur, pc, down, ncrash>>
         /\ \A i \in DOMAIN events' :
              \/ i \in DOMAIN events /\ events'[i] = events[i]
              \/ i = Len(events) + 1 /\ events'[i] = [e EXCEPT !.warm = Warm]
         /\ DOMAIN events \subseteq DOMAIN events' /\ Len(events) + 1 \in DOMAIN events'
  <1> DEFINE q == [e EXCEPT !.warm = Warm]
  <1>1. q \in Queued
    BY DEF Queued, Event, Warm
  <1>2. events \in Seq(Queued) /\ events' = Append(events, q)
    BY DEF TypeInv, Locals, Push
  <1> HIDE DEF q
  <1>3. /\ events' \in Seq(Queued) /\ Len(events') = Len(events) + 1
        /\ \A i \in 1 .. Len(events) : events'[i] = events[i]
        /\ events'[Len(events) + 1] = q
    BY <1>1, <1>2, AppendProperties
  <1>4. DOMAIN events' = 1 .. Len(events) + 1
    BY <1>3, LenProperties
  <1>5. nreq' = nreq + 1 /\ nreq' \in 0 .. MaxRequests
    BY SequenceParts DEF Push, TypeInv, TypeOK
  <1>6. pc.req = "idle" /\ down = "no" /\ UNCHANGED <<cur, pc, down, ncrash>>
    BY DEF Push, At
  <1>7. \A i \in DOMAIN events' : (i \in DOMAIN events /\ events'[i] = events[i]) \/ i = Len(events) + 1
    BY <1>3, <1>4, SequenceParts
  <1>8. DOMAIN events \subseteq DOMAIN events' /\ Len(events) + 1 \in DOMAIN events'
    BY <1>4, SequenceParts
  <1> QED BY <1>3, <1>5, <1>6, <1>7, <1>8 DEF q

\* The step of the process thread tells the type of its event.
LEMMA HandlerType ==
  ASSUME TypeInv
  PROVE  /\ cur.type = "none" <=> pc.proc = "idle"
         /\ cur.type = "start" <=> pc.proc = "start"
         /\ cur.type = "resize" <=> pc.proc = "resize"
         /\ cur.type = "add" <=> pc.proc \in {"add", "attach", "defineAttached", "insert"}
         /\ cur.type = "delete" <=> pc.proc \in {"delete", "defineDetached", "erase"}
         /\ cur.type = "snapshot" <=> pc.proc \in {"snapshot", "upload", "register", "mark", "term"}
  <1>1. cur.type \in {"none", "start", "resize", "add", "delete", "snapshot"}
    BY DEF TypeInv, TypeOK, Event
  <1>2. pc.proc \in Phase[cur.type]
    BY DEF TypeInv, Locals
  <1>3. CASE cur.type = "none"
    BY <1>2, <1>3 DEF Phase
  <1>4. CASE cur.type = "start"
    BY <1>2, <1>4 DEF Phase
  <1>5. CASE cur.type = "resize"
    BY <1>2, <1>5 DEF Phase
  <1>6. CASE cur.type = "add"
    BY <1>2, <1>6 DEF Phase
  <1>7. CASE cur.type = "delete"
    BY <1>2, <1>7 DEF Phase
  <1>8. CASE cur.type = "snapshot"
    BY <1>2, <1>8 DEF Phase
  <1> QED BY <1>1, <1>3, <1>4, <1>5, <1>6, <1>7, <1>8

\* The process thread takes the first event.
LEMMA PopProperty ==
  ASSUME TypeInv, PopEvent
  PROVE  /\ events' \in Seq(Queued) /\ Len(events') = Len(events) - 1
         /\ 1 \in DOMAIN events /\ cur' = events[1] /\ cur' \in Queued
         /\ cur = NoEvent /\ pc.proc = "idle" /\ pc'.proc = cur'.type
         /\ pc'.req = pc.req /\ pc'.check = pc.check /\ pc'.prune = pc.prune
         /\ \A i \in DOMAIN events' : i + 1 \in DOMAIN events /\ events'[i] = events[i + 1]
         /\ down = "no" /\ UNCHANGED <<diskVars, snapVars, down, nreq, ncrash>>
  <1>1. events \in Seq(Queued) /\ events # <<>> /\ events' = Tail(events) /\ cur' = Head(events)
    BY DEF TypeInv, Locals, PopEvent
  <1>2. /\ Head(events) \in Queued /\ events' \in Seq(Queued) /\ Len(events') = Len(events) - 1
        /\ \A i \in 1 .. Len(events') : events'[i] = events[i + 1]
    BY <1>1, HeadTailProperties
  <1>3. Len(events) \in Nat \ {0} /\ Head(events) = events[1]
    BY <1>1, EmptySeq
  <1>4. DOMAIN events' = 1 .. Len(events')
    BY <1>2, LenProperties
  <1>5. pc.proc = "idle" /\ pc'.proc = cur'.type /\ pc'.req = pc.req /\ pc'.check = pc.check /\ pc'.prune = pc.prune
    BY GotoProperty DEF PopEvent, At, TypeInv
  <1>6. cur = NoEvent
    <2>1. cur.type = "none"
      BY <1>5, HandlerType
    <2> QED BY <2>1 DEF TypeInv, Locals, Queued
  <1>7. down = "no" /\ UNCHANGED <<diskVars, snapVars, down, nreq, ncrash>>
    BY DEF PopEvent, At
  <1> QED BY <1>1, <1>2, <1>3, <1>4, <1>5, <1>6, <1>7, SequenceParts

\* Initially the types are right.
LEMMA InitTypes == Init => TypeInv
  <1> SUFFICES ASSUME Init PROVE TypeInv
    OBVIOUS
  <1>1. NoEvent \in Event /\ NoEvent.type = "none"
    BY DEF NoEvent, Event
  <1>2. events \in Seq(Queued) /\ events \in Seq(Event) /\ Len(events) = 0
        /\ snaps \in Seq([name : Names, file : Files]) /\ DOMAIN snaps = {}
    BY DEF Init
  <1>3. pc \in Steps
    BY DEF Init, Steps
  <1>4. {1, 2} \subseteq Disks
    BY DEF Disks
  <1>5. TypeOK
    <2>1. nreq \in 0 .. MaxRequests /\ ncrash \in 0 .. MaxCrash
      BY DEF Init
    <2>2. /\ status \in [Names -> {"absent", "none", "creating", "uploading"}]
          /\ upload \in [Files -> {"none", "running", "ended"}]
          /\ nameOf \in [Files -> Names \cup {NoName}]
      BY DEF Init
    <2> QED BY <1>1, <1>2, <1>3, <1>4, <2>1, <2>2 DEF Init, TypeOK
  <1>6. Locals
    BY <1>1, <1>2 DEF Init, Locals, Phase
  <1>7. Numbered
    BY <1>2 DEF Init, Numbered, Owed
  <1> QED BY <1>5, <1>6, <1>7 DEF TypeInv

\* A request that reaches the queue.
LEMMA PushTypes ==
  ASSUME TypeInv, NEW e \in Queued, Push(e), UNCHANGED diskVars, UNCHANGED <<sfiles, upload, victim, called, over>>,
         record' \in BOOLEAN, status' \in [Names -> {"absent", "none", "creating", "uploading"}],
         nameOf' \in [Files -> Names \cup {NoName}], snaps' \in Seq([name : Names, file : Files]),
         pc.proc = "term" => UNCHANGED snaps
  PROVE  TypeInv'
  <1>1. events' \in Seq(Event)
    <2>1. Queued \subseteq Event
      BY DEF Queued
    <2> QED BY <2>1, PushProperty, SeqMonotonic
  <1>2. TypeOK'
    BY <1>1, PushProperty DEF TypeInv, TypeOK
  <1>3. Locals'
    BY PushProperty DEF TypeInv, Locals, Named
  <1>4. Owed' = Owed + 1 /\ nreq' + 2 = nreq + 2 + 1 /\ Owed \in Nat /\ nreq \in Nat
    BY PushProperty, SequenceParts DEF Owed
  <1>5. Numbered'
    <2>1. \A d \in Disks : d + Owed <= nreq + 2 => d + Owed' <= nreq' + 2
      BY <1>4 DEF Disks
    <2>2. disks \cup xml \cup copy \subseteq Disks
      BY DEF TypeInv, TypeOK
    <2> QED BY <2>1, <2>2, PushProperty DEF TypeInv, Numbered
  <1> QED BY <1>2, <1>3, <1>5 DEF TypeInv

\* The requests.
LEMMA RequestTypes == TypeInv /\ Request => TypeInv'
  <1> SUFFICES ASSUME TypeInv, Request PROVE TypeInv'
    OBVIOUS
  <1>1. /\ [NoEvent EXCEPT !.type = "start"] \in Queued
        /\ [NoEvent EXCEPT !.type = "add"] \in Queued
        /\ \A d \in Disks : [NoEvent EXCEPT !.type = "resize", !.disk = d] \in Queued
        /\ \A d \in Disks \ {1} : [NoEvent EXCEPT !.type = "delete", !.disk = d] \in Queued
        /\ \A n \in Names, f \in Files :
             [NoEvent EXCEPT !.type = "snapshot", !.name = n, !.file = f] \in Queued
    BY DEF NoEvent, Queued, Event
  <1>2. ASSUME NEW e \in Queued, Push(e), UNCHANGED <<diskVars, snapVars>> PROVE TypeInv'
    BY <1>2, PushTypes DEF TypeInv, TypeOK
  <1>3. CASE StartTask \/ AddNewDisk
    BY <1>1, <1>2, <1>3 DEF StartTask, AddNewDisk
  <1>4. ASSUME NEW d \in Disks, ResizeDisk(d) \/ DeleteDisk(d) PROVE TypeInv'
    BY <1>1, <1>2, <1>4 DEF ResizeDisk, DeleteDisk
  <1>5. ASSUME NEW n \in Names, CreateAndUploadSnapshot(n) PROVE TypeInv'
    <2>1. nreq + 1 \in Files /\ pc.proc # "term"
      BY <1>5, SequenceParts DEF CreateAndUploadSnapshot, Push, Files, SnapshotMtxFree
    <2>2. snaps' \in Seq([name : Names, file : Files])
      <3>1. [name |-> n, file |-> nreq + 1] \in [name : Names, file : Files]
        BY <2>1
      <3> QED BY <1>5, <3>1, AppendProperties DEF CreateAndUploadSnapshot, TypeInv, TypeOK
    <2>3. /\ record' \in BOOLEAN /\ status' \in [Names -> {"absent", "none", "creating", "uploading"}]
          /\ nameOf' \in [Files -> Names \cup {NoName}]
      BY <1>5, <2>1 DEF CreateAndUploadSnapshot, TypeInv, TypeOK
    <2> QED BY <1>1, <1>5, <2>1, <2>2, <2>3, PushTypes DEF CreateAndUploadSnapshot
  <1>6. ASSUME NEW n \in Names, DeleteSnapshot(n) PROVE TypeInv'
    <2>1. /\ pc'.req = "term" /\ pc'.proc = pc.proc /\ pc'.check = pc.check /\ pc'.prune = pc.prune
          /\ pc' = [req |-> pc'.req, proc |-> pc'.proc, check |-> pc'.check, prune |-> pc'.prune]
      BY <1>6, GotoProperty DEF DeleteSnapshot, TypeInv
    <2>2. pc' \in Steps
      BY <2>1 DEF TypeInv, TypeOK, Steps
    <2>3. TypeOK'
      BY <1>6, <2>2, SequenceParts DEF DeleteSnapshot, TypeInv, TypeOK
    <2>4. Locals'
      BY <1>6, <2>1 DEF DeleteSnapshot, TypeInv, Locals, SnapshotMtxFree, Named
    <2>5. Owed' = Owed /\ nreq' = nreq + 1 /\ Owed \in Nat /\ nreq \in Nat
      BY <1>6, <2>1, SequenceParts DEF DeleteSnapshot, Owed
    <2>6. Numbered'
      <3>1. \A d \in Disks : d + Owed <= nreq + 2 => d + Owed' <= nreq' + 2
        BY <2>5 DEF Disks
      <3>2. disks \cup xml \cup copy \subseteq Disks
        BY DEF TypeInv, TypeOK
      <3> QED BY <1>6, <2>1, <3>1, <3>2 DEF DeleteSnapshot, TypeInv, Numbered
    <2> QED BY <2>3, <2>4, <2>6 DEF TypeInv
  <1> QED BY <1>3, <1>4, <1>5, <1>6 DEF Request

\* A step of a handler.  The disks it enters are the ones it knows or the
\* new one.
LEMMA HandlerTypes ==
  ASSUME TypeInv, NEW step, Goto("proc", step), step \in Phase[cur'.type],
         cur' \in Queued \cup {NoEvent},
         UNCHANGED <<events, task, record, nameOf, victim, called, nreq, ncrash>>,
         pc.req = "term" => UNCHANGED snaps /\ step # "term",
         step = "term" => Named(cur.name)',
         domain' \in {"none", "shutoff", "running"}, files' \subseteq Disks,
         \A d \in disks' \cup xml' \cup copy' :
           \/ d \in disks \cup xml \cup copy
           \/ pc.proc \in {"attach", "defineAttached", "insert"} /\ d = cur.disk,
         step # "add",
         step \in {"attach", "defineAttached", "insert"} =>
           cur'.disk \in Disks /\ cur'.disk + Len(events) <= nreq + 2,
         snaps' \in Seq([name : Names, file : Files]),
         status' \in [Names -> {"absent", "none", "creating", "uploading"}],
         sfiles' \subseteq Files, over' \subseteq Files,
         upload' \in [Files -> {"none", "running", "ended"}],
         down' \in {"no", "null", "nofile", "killed"}
  PROVE  TypeInv'
  <1>1. /\ pc'.req = pc.req /\ pc'.proc = step /\ pc'.check = pc.check /\ pc'.prune = pc.prune
        /\ pc' = [req |-> pc'.req, proc |-> pc'.proc, check |-> pc'.check, prune |-> pc'.prune]
    BY GotoProperty DEF TypeInv
  <1>2. cur' \in Event
    <2>1. NoEvent \in Event
      BY DEF NoEvent, Event
    <2> QED BY <2>1 DEF Queued
  <1>3. step \in {"idle", "start", "resize", "add", "attach", "defineAttached", "insert",
                  "delete", "defineDetached", "erase",
                  "snapshot", "upload", "register", "mark", "term"}
    <2>1. cur'.type \in {"none", "start", "resize", "add", "delete", "snapshot"}
      BY <1>2 DEF Event
    <2> QED BY <2>1 DEF Phase
  <1>4. pc' \in Steps
    BY <1>1, <1>3 DEF TypeInv, TypeOK, Steps
  <1>5. /\ Owed' = Len(events) /\ Owed >= Len(events)
        /\ Owed \in Nat /\ nreq \in Nat /\ Len(events) \in Nat
    BY <1>1, SequenceParts DEF Owed
  <1>6. \A d \in disks' \cup xml' \cup copy' : d \in Disks /\ d + Owed <= nreq + 2
    BY DEF TypeInv, TypeOK, Numbered
  <1>7. TypeOK'
    BY <1>2, <1>4, <1>6 DEF TypeInv, TypeOK
  <1>8. Locals'
    BY <1>1 DEF TypeInv, Locals, Named
  <1>9. Numbered'
    <2>1. \A d \in Disks : d + Owed <= nreq + 2 => d + Owed' <= nreq' + 2
      BY <1>5 DEF Disks
    <2> QED BY <1>1, <1>5, <1>6, <2>1 DEF Numbered
  <1> QED BY <1>7, <1>8, <1>9 DEF TypeInv

\* The handler ends.
LEMMA DoneProperty ==
  ASSUME TypeInv, Done
  PROVE  Goto("proc", "idle") /\ cur' = NoEvent /\ "idle" \in Phase[cur'.type]
  BY DEF Done, NoEvent, Phase

\* The first snapshot of a name goes.
LEMMA TerminatedProperty ==
  ASSUME TypeInv, NEW n, Named(n), Terminated(n)
  PROVE  /\ snaps' \in Seq([name : Names, file : Files]) /\ n \in Names
         /\ pc.check # "callback"
         /\ \E i \in DOMAIN snaps :
              LET f == snaps[i].file IN
              /\ snaps[i].name = n /\ f \in Files
              /\ upload' = [upload EXCEPT ![f] = "none"]
              /\ sfiles' = sfiles \ {f} /\ status' = [status EXCEPT ![n] = "absent"]
              /\ over' = IF Pending(f) THEN over \cup {f} ELSE over
              /\ \A j \in DOMAIN snaps' : \E k \in DOMAIN snaps : snaps'[j] = snaps[k]
              /\ \A k \in DOMAIN snaps : snaps[k].file # f => \E j \in DOMAIN snaps' : snaps'[j] = snaps[k]
  <1> DEFINE i == SelectInSeq(snaps, LAMBDA r : r.name = n)
             f == snaps[i].file
  <1>1. i \in DOMAIN snaps /\ snaps[i].name = n /\ f \in Files /\ n \in Names
    BY Found DEF TypeInv
  <1>2. /\ pc.check # "callback" /\ upload' = [upload EXCEPT ![f] = "none"]
        /\ sfiles' = sfiles \ {f} /\ status' = [status EXCEPT ![n] = "absent"]
        /\ over' = (IF Pending(f) THEN over \cup {f} ELSE over)
        /\ snaps' = RemoveAt(snaps, i)
    BY DEF Terminated, UploadMtxFree
  <1> HIDE DEF i
  <1>3. snaps \in Seq([name : Names, file : Files])
    BY DEF TypeInv, TypeOK
  <1>4. /\ snaps' \in Seq([name : Names, file : Files])
        /\ \A j \in DOMAIN snaps' : \E k \in DOMAIN snaps \ {i} : snaps'[j] = snaps[k]
        /\ \A k \in DOMAIN snaps \ {i} : \E j \in DOMAIN snaps' : snaps'[j] = snaps[k]
    BY <1>1, <1>2, <1>3, RemoveAtProperty
  <1>5. /\ snaps[i].name = n /\ f \in Files
        /\ \A j \in DOMAIN snaps' : \E k \in DOMAIN snaps : snaps'[j] = snaps[k]
        /\ \A k \in DOMAIN snaps : snaps[k].file # f => \E j \in DOMAIN snaps' : snaps'[j] = snaps[k]
    BY <1>1, <1>4
  <1> QED BY <1>1, <1>2, <1>4, <1>5

LEMMA TerminatedTypes ==
  ASSUME TypeInv, NEW n, Named(n), Terminated(n)
  PROVE  /\ snaps' \in Seq([name : Names, file : Files])
         /\ status' \in [Names -> {"absent", "none", "creating", "uploading"}]
         /\ sfiles' \subseteq Files /\ over' \subseteq Files
         /\ upload' \in [Files -> {"none", "running", "ended"}]
  <1>1. PICK i \in DOMAIN snaps :
          LET f == snaps[i].file IN
          /\ f \in Files
          /\ upload' = [upload EXCEPT ![f] = "none"]
          /\ sfiles' = sfiles \ {f} /\ status' = [status EXCEPT ![n] = "absent"]
          /\ over' = IF Pending(f) THEN over \cup {f} ELSE over
    BY TerminatedProperty, Zenon
  <1>2. snaps' \in Seq([name : Names, file : Files])
    BY TerminatedProperty
  <1> QED BY <1>1, <1>2 DEF TypeInv, TypeOK

\* dbc dies, or only what the types do not depend on changes.
LEMMA QuietTypes ==
  ASSUME TypeInv, UNCHANGED <<events, cur, pc, snaps, victim, called, nreq, disks, xml, copy>>, TypeOK'
  PROVE  TypeInv'
  BY DEF TypeInv, Locals, Numbered, Owed, Named

\* The next disk has the next number, which a request allows for.
LEMMA NextDiskProperty ==
  ASSUME TypeInv, pc.proc = "add", disks # {}
  PROVE  /\ NextDisk \in Disks /\ NextDisk + Len(events) <= nreq + 2
         /\ NextDisk \notin disks
  <1>1. disks \in SUBSET (0 .. MaxRequests + 2) /\ MaxRequests + 2 \in Nat
    BY SequenceParts DEF TypeInv, TypeOK, Disks
  <1>2. Max(disks) \in disks /\ \A d \in disks : d <= Max(disks)
    BY <1>1, MaxProperty
  <1>3. Max(disks) + Owed <= nreq + 2 /\ Max(disks) \in Disks
    BY <1>2 DEF TypeInv, TypeOK, Numbered
  <1>4. Owed = Len(events) + 1 /\ Len(events) \in Nat /\ nreq \in 0 .. MaxRequests /\ MaxRequests \in Nat
    BY SequenceParts DEF Owed, TypeInv, TypeOK
  <1>5. Max(disks) \in Nat /\ Max(disks) >= 1
    BY <1>3, <1>4 DEF Disks
  <1>6. Max(disks) + 1 + Len(events) <= nreq + 2
    BY <1>3, <1>4, <1>5
  <1>7. Max(disks) + 1 \in Disks
    BY <1>4, <1>5, <1>6 DEF Disks
  <1>8. Max(disks) + 1 \notin disks
    BY <1>2, <1>5
  <1> QED BY <1>6, <1>7, <1>8 DEF NextDisk

\* The process thread.
LEMMA ProcessTypes == TypeInv /\ Process => TypeInv'
  <1> SUFFICES ASSUME TypeInv, Process PROVE TypeInv'
    OBVIOUS
  <1> USE DEF At
  <1>a. cur \in Queued \cup {NoEvent} /\ pc.proc \in Phase[cur.type] /\ "idle" \in Phase["none"]
    BY DEF TypeInv, Locals, Phase
  <1>b. /\ files \subseteq Disks /\ domain \in {"none", "shutoff", "running"}
        /\ snaps \in Seq([name : Names, file : Files])
        /\ status \in [Names -> {"absent", "none", "creating", "uploading"}]
        /\ sfiles \subseteq Files /\ over \subseteq Files
        /\ upload \in [Files -> {"none", "running", "ended"}]
        /\ down \in {"no", "null", "nofile", "killed"}
    BY DEF TypeInv, TypeOK
  <1>c. NoEvent \in Queued \cup {NoEvent} /\ NoEvent.type = "none"
    BY DEF NoEvent
  <1>d. pc.req = "term" => pc.proc # "term"
    BY DEF TypeInv, Locals
  <1>1. CASE PopEvent
    <2>1. cur' \in Event /\ events' \in Seq(Event)
      <3>1. Queued \subseteq Event
        BY DEF Queued
      <3> QED BY <1>1, <3>1, PopProperty, SeqMonotonic
    <2>2. cur'.type \in {"start", "resize", "add", "delete", "snapshot"}
      BY <1>1, PopProperty DEF Queued, Event
    <2>3. pc' \in Steps
      <3>1. pc' = [req |-> pc'.req, proc |-> pc'.proc, check |-> pc'.check, prune |-> pc'.prune]
        BY <1>1, GotoProperty DEF PopEvent, TypeInv
      <3> QED BY <1>1, <2>2, <3>1, PopProperty DEF TypeInv, TypeOK, Steps
    <2>4. TypeOK'
      BY <1>1, <2>1, <2>3, PopProperty DEF TypeInv, TypeOK
    <2>5. pc'.proc \in Phase[cur'.type]
      BY <1>1, <2>2, PopProperty DEF Phase
    <2>6. Locals'
      BY <1>1, <2>2, <2>5, PopProperty DEF TypeInv, Locals, Named
    <2>7. Owed' <= Owed /\ Owed \in Nat /\ Owed' \in Nat /\ nreq \in Nat
      BY <1>1, PopProperty, SequenceParts DEF Owed
    <2>8. Numbered'
      <3>1. \A d \in Disks : d + Owed <= nreq + 2 => d + Owed' <= nreq + 2
        <4>1. \A a, b, c, d \in Nat : b <= a /\ d + a <= c => d + b <= c
          OBVIOUS
        <4>2. Disks \subseteq Nat /\ nreq + 2 \in Nat
          BY <2>7 DEF Disks
        <4> QED BY <2>7, <4>1, <4>2
      <3>2. disks \cup xml \cup copy \subseteq Disks
        BY DEF TypeInv, TypeOK
      <3> QED BY <1>1, <2>2, <3>1, <3>2, PopProperty DEF TypeInv, Numbered
    <2> QED BY <2>4, <2>6, <2>8 DEF TypeInv
  <1>2. CASE ProcessStart \/ ProcessResizeDisk
    <2>1. domain' \in {"none", "shutoff", "running"}
      BY <1>2, <1>b DEF ProcessStart, ProcessResizeDisk
    <2> QED BY <1>2, <1>a, <1>b, <1>c, <2>1, DoneProperty, HandlerTypes DEF ProcessStart, ProcessResizeDisk
  <1>3. CASE ProcessAddDisk
    <2>1. CASE disks = {}
      BY <1>3, <1>a, <1>b, <1>c, <2>1, DoneProperty, HandlerTypes DEF ProcessAddDisk
    <2>2. CASE disks # {}
      <3>1. cur.type = "add" /\ cur \in Queued
        BY <1>3, <1>a, HandlerType DEF ProcessAddDisk, NoEvent
      <3>2. /\ cur' = [cur EXCEPT !.disk = NextDisk] /\ files' = files \cup {NextDisk} /\ pc.proc = "add"
            /\ Goto("proc", "attach") /\ UNCHANGED <<task, domain, xml, disks, copy, down, snapVars, events, nreq, ncrash>>
        BY <1>3, <2>2 DEF ProcessAddDisk
      <3>3. NextDisk \in Disks /\ NextDisk + Len(events) <= nreq + 2
        BY <2>2, <3>2, NextDiskProperty
      <3>4. cur' \in Queued /\ cur'.type = "add" /\ cur'.disk = NextDisk
        BY <3>1, <3>2, <3>3 DEF Queued, Event
      <3>5. "attach" \in Phase[cur'.type]
        BY <3>4 DEF Phase
      <3> QED BY <1>b, <3>2, <3>3, <3>4, <3>5, HandlerTypes
    <2> QED BY <2>1, <2>2
  <1>4. CASE LookupDomain
    <2>1. CASE domain = "none"
      BY <1>4, <1>a, <1>b, <1>c, <2>1, DoneProperty, HandlerTypes DEF LookupDomain
    <2>2. CASE domain # "none" /\ pc.proc = "attach"
      <3>1. "defineAttached" \in Phase[cur.type] /\ cur.disk \in Disks /\ cur.disk + Len(events) <= nreq + 2
        BY <2>2, HandlerType DEF Phase, TypeInv, Numbered, Owed
      <3> QED BY <1>4, <1>a, <1>b, <2>2, <3>1, HandlerTypes DEF LookupDomain
    <2>3. CASE domain # "none" /\ pc.proc = "delete"
      <3>1. "defineDetached" \in Phase[cur.type]
        BY <2>3, HandlerType DEF Phase
      <3> QED BY <1>4, <1>a, <1>b, <2>3, <3>1, HandlerTypes DEF LookupDomain
    <2> QED BY <1>4, <2>1, <2>2, <2>3 DEF LookupDomain
  <1>5. CASE AttachDisk
    <2>1. CASE Goto("proc", "insert") /\ DefineXML(copy \cup {cur.disk}) /\ UNCHANGED <<cur, files>>
      <3>1. pc.proc = "defineAttached" /\ copy' = {} /\ UNCHANGED <<task, disks, snapVars, events, down, nreq, ncrash>>
        BY <1>5 DEF AttachDisk
      <3>2. "insert" \in Phase[cur.type] /\ cur.disk \in Disks /\ cur.disk + Len(events) <= nreq + 2
        BY <3>1, HandlerType DEF Phase, TypeInv, Numbered, Owed
      <3>3. xml' = copy \cup {cur.disk} /\ domain' \in {"none", "shutoff", "running"}
        BY <1>b, <2>1 DEF DefineXML
      <3> QED BY <1>a, <1>b, <2>1, <3>1, <3>2, <3>3, HandlerTypes
    <2>2. CASE Done /\ files' = files \ {cur.disk} /\ UNCHANGED <<xml, domain>>
      BY <1>5, <1>a, <1>b, <1>c, <2>2, DoneProperty, HandlerTypes DEF AttachDisk
    <2> QED BY <1>5, <2>1, <2>2 DEF AttachDisk
  <1>6. CASE InsertDisk \/ EraseDisk
    BY <1>6, <1>a, <1>b, <1>c, DoneProperty, HandlerTypes DEF InsertDisk, EraseDisk
  <1>7. CASE DetachDisk
    <2>1. CASE Goto("proc", "erase") /\ DefineXML(copy \ {cur.disk}) /\ UNCHANGED cur
      <3>1. "erase" \in Phase[cur.type]
        BY <1>7, HandlerType DEF DetachDisk, Phase
      <3>2. xml' = copy \ {cur.disk} /\ domain' \in {"none", "shutoff", "running"}
        BY <1>b, <2>1 DEF DefineXML
      <3> QED BY <1>7, <1>a, <1>b, <2>1, <3>1, <3>2, HandlerTypes DEF DetachDisk
    <2>2. CASE Done /\ UNCHANGED <<xml, domain>>
      BY <1>7, <1>a, <1>b, <1>c, <2>2, DoneProperty, HandlerTypes DEF DetachDisk
    <2> QED BY <1>7, <2>1, <2>2 DEF DetachDisk
  <1>8. CASE ConvertDisk
    <2>1. "upload" \in Phase[cur.type] /\ cur.file \in Files
      BY <1>8, <1>a, HandlerType DEF ConvertDisk, Phase, Queued, NoEvent
    <2>2. sfiles' \subseteq Files
      BY <1>8, <1>b, <2>1 DEF ConvertDisk
    <2> QED BY <1>8, <1>a, <1>b, <2>1, <2>2, HandlerTypes DEF ConvertDisk
  <1>9. CASE StartUpload
    <2>1. CASE cur.file \in sfiles
      <3>1. "register" \in Phase[cur.type]
        BY <1>9, HandlerType DEF StartUpload, Phase
      <3> QED BY <1>9, <1>a, <1>b, <2>1, <3>1, HandlerTypes DEF StartUpload
    <2>2. CASE cur.file \notin sfiles
      <3>1. TypeOK'
        BY <1>9, <2>2 DEF StartUpload, TypeInv, TypeOK
      <3> QED BY <1>9, <2>2, <3>1, QuietTypes DEF StartUpload
    <2> QED BY <2>1, <2>2
  <1>10. CASE RegisterUpload
    <2>1. "mark" \in Phase[cur.type]
      BY <1>10, HandlerType DEF RegisterUpload, Phase
    <2>2. upload' \in [Files -> {"none", "running", "ended"}]
      BY <1>10, <1>b DEF RegisterUpload
    <2> QED BY <1>10, <1>a, <1>b, <2>1, <2>2, HandlerTypes DEF RegisterUpload
  <1>11. CASE MarkUploading
    <2>1. CASE record
      <3>1. status' \in [Names -> {"absent", "none", "creating", "uploading"}]
        BY <1>11, <1>b, <2>1 DEF MarkUploading
      <3> QED BY <1>11, <1>a, <1>b, <1>c, <2>1, <3>1, DoneProperty, HandlerTypes DEF MarkUploading
    <2>2. CASE ~record
      <3>1. TypeOK'
        BY <1>11, <2>2 DEF MarkUploading, TypeInv, TypeOK
      <3> QED BY <1>11, <2>2, <3>1, QuietTypes DEF MarkUploading
    <2> QED BY <2>1, <2>2
  <1>12. CASE UploadRefused
    <2>1. CASE Named(cur.name)
      <3>1. "term" \in Phase[cur.type] /\ pc.req # "term"
        BY <1>12, HandlerType DEF UploadRefused, Phase, SnapshotMtxFree
      <3>2. Goto("proc", "term") /\ UNCHANGED <<cur, diskVars, snapVars, rest>>
        BY <1>12, <2>1 DEF UploadRefused, Named
      <3>3. Named(cur.name)'
        BY <2>1, <3>2 DEF Named
      <3> QED BY <1>a, <1>b, <3>1, <3>2, <3>3, HandlerTypes
    <2>2. CASE ~Named(cur.name)
      BY <1>12, <1>a, <1>b, <1>c, <2>2, DoneProperty, HandlerTypes DEF UploadRefused, Named
    <2> QED BY <2>1, <2>2
  <1>13. CASE TerminateRefused
    <2>1. Named(cur.name) /\ pc.proc = "term"
      BY <1>13 DEF TerminateRefused, TypeInv, Locals
    <2>2. Terminated(cur.name) /\ Done /\ UNCHANGED <<diskVars, record, nameOf, victim, called, rest>>
      BY <1>13 DEF TerminateRefused
    <2>3. /\ snaps' \in Seq([name : Names, file : Files])
          /\ status' \in [Names -> {"absent", "none", "creating", "uploading"}]
          /\ sfiles' \subseteq Files /\ over' \subseteq Files
          /\ upload' \in [Files -> {"none", "running", "ended"}]
      BY <2>1, <2>2, TerminatedTypes
    <2> QED BY <1>a, <1>b, <1>c, <1>d, <2>1, <2>2, <2>3, DoneProperty, HandlerTypes
  <1> QED BY <1>1, <1>2, <1>3, <1>4, <1>5, <1>6, <1>7, <1>8, <1>9, <1>10, <1>11, <1>12, <1>13 DEF Process

\* A step of the other threads.
LEMMA OtherTypes ==
  ASSUME TypeInv, NEW t \in {"req", "check", "prune"}, NEW step, Goto(t, step),
         t = "req" => step = "idle",
         t = "check" => step \in {"idle", "callback"} /\ (step = "callback" => called' \in Files),
         t # "check" => UNCHANGED called,
         t = "prune" => step \in {"idle", "info", "disks", "snapshots"},
         t # "req" => UNCHANGED victim, victim' \in Names \cup {NoName},
         called' \in Files \cup {NoFile},
         SnapshotMtxFree \/ (t = "req" /\ pc.req = "term") \/ UNCHANGED snaps,
         snaps' \in Seq([name : Names, file : Files]),
         xml' \subseteq xml, disks' \subseteq disks, files' \subseteq Disks,
         task' \in BOOLEAN, record' \in BOOLEAN, domain' \in {"none", "shutoff", "running"},
         status' \in [Names -> {"absent", "none", "creating", "uploading"}],
         sfiles' \subseteq Files, over' \subseteq Files,
         upload' \in [Files -> {"none", "running", "ended"}],
         UNCHANGED <<events, cur, copy, nameOf, down, nreq, ncrash>>
  PROVE  TypeInv'
  <1>1. /\ pc'.req = (IF t = "req" THEN step ELSE pc.req) /\ pc'.proc = pc.proc
        /\ pc'.check = (IF t = "check" THEN step ELSE pc.check)
        /\ pc'.prune = (IF t = "prune" THEN step ELSE pc.prune)
        /\ pc' = [req |-> pc'.req, proc |-> pc'.proc, check |-> pc'.check, prune |-> pc'.prune]
    BY GotoProperty DEF TypeInv
  <1>2. pc' \in Steps
    BY <1>1 DEF TypeInv, TypeOK, Steps
  <1>3. TypeOK'
    BY <1>2 DEF TypeInv, TypeOK
  <1>4. Locals'
    BY <1>1 DEF TypeInv, Locals, Named, SnapshotMtxFree
  <1>5. Numbered'
    BY <1>1 DEF TypeInv, Numbered, Owed
  <1> QED BY <1>3, <1>4, <1>5 DEF TypeInv

\* Every step keeps the types.
LEMMA NextTypes == TypeInv /\ [Next]_vars => TypeInv'
  <1> SUFFICES ASSUME TypeInv, [Next]_vars PROVE TypeInv'
    OBVIOUS
  <1> USE DEF At
  <1>b. /\ files \subseteq Disks /\ domain \in {"none", "shutoff", "running"}
        /\ snaps \in Seq([name : Names, file : Files])
        /\ status \in [Names -> {"absent", "none", "creating", "uploading"}]
        /\ sfiles \subseteq Files /\ over \subseteq Files
        /\ upload \in [Files -> {"none", "running", "ended"}]
        /\ victim \in Names \cup {NoName} /\ called \in Files \cup {NoFile}
        /\ task \in BOOLEAN /\ record \in BOOLEAN
    BY DEF TypeInv, TypeOK
  <1>1. CASE UNCHANGED vars
    <2>1. TypeOK'
      BY <1>1 DEF vars, TypeInv, TypeOK
    <2> QED BY <1>1, <2>1, QuietTypes DEF vars
  <1>2. CASE TerminateUploadSnapshot
    <2>1. Named(victim) /\ pc.req = "term"
      BY <1>2 DEF TerminateUploadSnapshot, TypeInv, Locals
    <2>2. /\ Terminated(victim) /\ Goto("req", "idle") /\ victim' = NoName
          /\ UNCHANGED <<diskVars, record, nameOf, called, events, cur, down, nreq, ncrash>>
      BY <1>2 DEF TerminateUploadSnapshot
    <2>3. /\ snaps' \in Seq([name : Names, file : Files])
          /\ status' \in [Names -> {"absent", "none", "creating", "uploading"}]
          /\ sfiles' \subseteq Files /\ over' \subseteq Files
          /\ upload' \in [Files -> {"none", "running", "ended"}]
      BY <2>1, <2>2, TerminatedTypes
    <2> QED BY <1>b, <2>1, <2>2, <2>3, OtherTypes
  <1>3. CASE FinishCallback
    <2>0. pc.check = "callback" /\ called \in Files
      BY <1>3 DEF FinishCallback, TypeInv, Locals
    <2>1. CASE record
      <3>1. /\ status' \in [Names -> {"absent", "none", "creating", "uploading"}]
            /\ upload' \in [Files -> {"none", "running", "ended"}] /\ over' \subseteq Files
        BY <1>3, <1>b, <2>0, <2>1 DEF FinishCallback
      <3> QED BY <1>3, <1>b, <2>1, <3>1, OtherTypes DEF FinishCallback
    <2>2. CASE ~record
      <3>1. TypeOK'
        BY <1>3, <2>2 DEF FinishCallback, TypeInv, TypeOK
      <3> QED BY <1>3, <2>2, <3>1, QuietTypes DEF FinishCallback
    <2> QED BY <2>1, <2>2
  <1>4. ASSUME NEW f \in Files, CheckUpload(f) PROVE TypeInv'
    BY <1>4, <1>b, OtherTypes DEF CheckUpload
  <1>5. CASE DeleteDomain \/ DeleteInfo \/ DelDisks
    BY <1>5, <1>b, OtherTypes DEF DeleteDomain, DeleteInfo, DelDisks
  <1>6. CASE DelSnapshots
    <2>1. /\ snaps' \in Seq([name : Names, file : Files])
          /\ status' \in [Names -> {"absent", "none", "creating", "uploading"}]
          /\ sfiles' \subseteq Files /\ over' \subseteq Files
      BY <1>6, <1>b DEF DelSnapshots
    <2> QED BY <1>6, <1>b, <2>1, OtherTypes DEF DelSnapshots
  <1>7. ASSUME NEW f \in Files, ChildEnds(f) PROVE TypeInv'
    <2>1. TypeOK'
      BY <1>7 DEF ChildEnds, TypeInv, TypeOK
    <2> QED BY <1>7, <2>1, QuietTypes DEF ChildEnds
  <1>8. CASE GuestStops
    <2>1. TypeOK'
      BY <1>8 DEF GuestStops, TypeInv, TypeOK
    <2> QED BY <1>8, <2>1, QuietTypes DEF GuestStops
  <1>9. CASE Killed
    <2>1. TypeOK'
      BY <1>9, SequenceParts DEF Killed, TypeInv, TypeOK
    <2> QED BY <1>9, <2>1, QuietTypes DEF Killed
  <1>10. CASE Restart
    <2>1. NoEvent \in Event /\ NoEvent.type = "none"
      BY DEF NoEvent, Event
    <2>2. /\ events' = <<>> /\ events' \in Seq(Event) /\ events' \in Seq(Queued) /\ Len(events') = 0
      BY <1>10 DEF Restart
    <2>3. pc' \in Steps /\ pc'.proc = "idle" /\ pc'.req = "idle" /\ pc'.check = "idle"
      BY <1>10 DEF Restart, TypeInv, TypeOK, Steps
    <2>4. /\ status' \in [Names -> {"absent", "none", "creating", "uploading"}]
          /\ upload' \in [Files -> {"none", "running", "ended"}]
      BY <1>10 DEF Restart
    <2>5. TypeOK'
      BY <1>10, <2>1, <2>2, <2>3, <2>4 DEF Restart, TypeInv, TypeOK
    <2>6. Locals'
      BY <1>10, <2>1, <2>2, <2>3 DEF Restart, Locals, Phase
    <2>7. Owed' = 0 /\ Owed \in Nat /\ nreq \in Nat
      BY <2>2, <2>3, SequenceParts DEF Owed
    <2>8. Numbered'
      <3>1. \A d \in xml : d \in Nat /\ d + Owed <= nreq + 2
        BY DEF TypeInv, TypeOK, Numbered, Disks
      <3>2. disks' \cup xml' \cup copy' \subseteq xml /\ nreq' = nreq
        BY <1>10 DEF Restart
      <3> QED BY <2>3, <2>7, <3>1, <3>2 DEF Numbered
    <2> QED BY <2>5, <2>6, <2>8 DEF TypeInv
  <1> QED BY <1>1, <1>2, <1>3, <1>4, <1>5, <1>6, <1>7, <1>8, <1>9, <1>10, RequestTypes, ProcessTypes
          DEF Next, Check, Prune

\* Every reachable state has its types; the disk letters stay within the
\* number of requests.
THEOREM TypeCorrect == Spec => []TypeOK
  <1>1. TypeInv => TypeOK
    BY DEF TypeInv
  <1> QED BY <1>1, InitTypes, NextTypes, PTL DEF Spec

-----------------------------------------------------------------------------
(***************************************************************************)
(* Disks.  That the list, the definition and the files agree depends on    *)
(* what the process thread has read and not yet used, while the prune      *)
(* thread may delete the domain, and a kill may make that the last thing   *)
(* the deletion did.                                                       *)
(***************************************************************************)
Defining == pc.proc \in {"defineAttached", "defineDetached"}
NoDiskStep == {"idle", "start", "resize", "add", "delete",
               "snapshot", "upload", "register", "mark", "term"}

\* vda is in every definition, and never deleted alone.
FirstDisk ==
  /\ IF domain = "none" THEN xml = {} ELSE 1 \in xml
  /\ Defining => 1 \in copy

\* Past its second step a deletion has removed the TaskInfo.
DeletionGone == pc.prune \in {"disks", "snapshots"} => ~task

\* The definition the process thread has read has the disks of the list.
Copied == task /\ Defining => copy = disks /\ copy \subseteq files

\* The disk an event adds is new until it is defined.
NewDisk == task /\ pc.proc \in {"attach", "defineAttached"} => cur.disk \in files \ disks

FilesKept == task => xml \subseteq files

\* The list lags behind the definition by one step of the process thread.
Listed == CASE pc.proc = "insert" -> disks \cup {cur.disk}
            [] pc.proc = "erase" -> disks \ {cur.disk}
            [] OTHER -> disks

Match == task => xml = Listed \/ (pc.prune # "idle" /\ xml = {})

\* A task has vda, or it lost all disks at a start after a deletion that was
\* cut off; then no request for its disks was accepted.
WithDisks ==
  task => \/ 1 \in disks
          \/ /\ disks = {} /\ cur.type \in {"none", "start"}
             /\ \A i \in DOMAIN events : events[i].type = "start"

DiskInv == FirstDisk /\ DeletionGone /\ Copied /\ NewDisk /\ FilesKept /\ Match /\ WithDisks

LEMMA InitDisks == Init => DiskInv
  BY DEF Init, DiskInv, FirstDisk, DeletionGone, Copied, NewDisk, FilesKept, Match, Listed, WithDisks, Defining

\* A step that leaves the disks alone.
LEMMA QuietDisks ==
  ASSUME TypeInv, DiskInv, UNCHANGED <<task, xml, disks, files, copy>>,
         domain' = "none" <=> domain = "none", pc'.prune = pc.prune,
         \/ UNCHANGED cur /\ pc'.proc = pc.proc
         \/ pc.proc \in NoDiskStep /\ pc'.proc \in NoDiskStep,
         WithDisks'
  PROVE  DiskInv'
  <1>1. FirstDisk' /\ DeletionGone' /\ Copied'
    BY DEF DiskInv, FirstDisk, DeletionGone, Copied, Defining, NoDiskStep
  <1>2. NewDisk' /\ FilesKept'
    BY DEF DiskInv, NewDisk, FilesKept, NoDiskStep
  <1>3. Match'
    BY DEF DiskInv, Match, Listed, NoDiskStep
  <1> QED BY <1>1, <1>2, <1>3 DEF DiskInv

\* Every step of the process thread keeps the disks in agreement.
LEMMA ProcessDisks == TypeInv /\ DiskInv /\ Process => DiskInv'
  <1> SUFFICES ASSUME TypeInv, DiskInv, Process PROVE DiskInv'
    OBVIOUS
  <1> USE DEF At
  <1>a. cur \in Queued \cup {NoEvent} /\ NoEvent.type = "none"
    BY DEF TypeInv, Locals, NoEvent
  <1>b. ASSUME NEW step, Goto("proc", step)
        PROVE  pc'.proc = step /\ pc'.prune = pc.prune
    BY <1>b, GotoProperty DEF TypeInv
  <1>1. CASE PopEvent
    <2>1. pc'.proc \in NoDiskStep
      BY <1>1, PopProperty DEF Queued, Event, NoDiskStep
    <2>2. WithDisks'
      BY <1>1, PopProperty DEF DiskInv, WithDisks
    <2> QED BY <1>1, <2>1, <2>2, PopProperty, QuietDisks DEF NoDiskStep
  <1>2. ASSUME UNCHANGED <<task, xml, disks, files, copy, events>>, domain' = "none" <=> domain = "none",
               \/ Done /\ pc.proc \in NoDiskStep
               \/ /\ pc.proc \in {"snapshot", "upload", "register", "mark", "term"}
                  /\ \E step \in {"snapshot", "upload", "register", "mark", "term"} : Goto("proc", step)
                  /\ UNCHANGED cur
               \/ UNCHANGED <<cur, pc>>
        PROVE  DiskInv'
    <2>1. /\ pc'.prune = pc.prune
          /\ \/ UNCHANGED cur /\ pc'.proc = pc.proc
             \/ pc.proc \in NoDiskStep /\ pc'.proc \in NoDiskStep
      BY <1>2, <1>b DEF NoDiskStep, Done
    <2>2. WithDisks'
      BY <1>2, <1>a DEF DiskInv, WithDisks, Done
    <2> QED BY <1>2, <2>1, <2>2, QuietDisks
  <1>3. CASE ProcessStart \/ ProcessResizeDisk
    <2>1. domain' = "none" <=> domain = "none"
      BY <1>3 DEF ProcessStart, ProcessResizeDisk
    <2> QED BY <1>2, <1>3, <2>1 DEF ProcessStart, ProcessResizeDisk, NoDiskStep
  <1>4. CASE \/ ConvertDisk \/ StartUpload \/ RegisterUpload \/ MarkUploading
             \/ UploadRefused \/ TerminateRefused
    <2>1. UNCHANGED <<task, xml, disks, files, copy, events, domain>>
      BY <1>4 DEF ConvertDisk, StartUpload, RegisterUpload, MarkUploading, UploadRefused, TerminateRefused
    <2>2. \/ Done /\ pc.proc \in NoDiskStep
          \/ /\ pc.proc \in {"snapshot", "upload", "register", "mark", "term"}
             /\ \E step \in {"snapshot", "upload", "register", "mark", "term"} : Goto("proc", step)
             /\ UNCHANGED cur
          \/ UNCHANGED <<cur, pc>>
      BY <1>4 DEF ConvertDisk, StartUpload, RegisterUpload, MarkUploading, UploadRefused, TerminateRefused, NoDiskStep
    <2> QED BY <1>2, <2>1, <2>2
  <1>5. CASE ProcessAddDisk
    <2>1. CASE disks = {}
      BY <1>2, <1>5, <2>1 DEF ProcessAddDisk, NoDiskStep
    <2>2. CASE disks # {}
      <3>1. /\ cur' = [cur EXCEPT !.disk = NextDisk] /\ files' = files \cup {NextDisk} /\ pc.proc = "add"
            /\ Goto("proc", "attach") /\ UNCHANGED <<task, domain, xml, disks, copy, down, snapVars, events, nreq, ncrash>>
        BY <1>5, <2>2 DEF ProcessAddDisk
      <3>2. pc'.proc = "attach" /\ pc'.prune = pc.prune /\ cur'.disk = NextDisk /\ cur'.type = cur.type
        BY <1>b, <3>1 DEF TypeInv, TypeOK, Event
      <3>3. NextDisk \notin disks
        BY <2>2, <3>1, NextDiskProperty
      <3>4. FirstDisk' /\ DeletionGone' /\ Copied' /\ WithDisks'
        BY <3>1, <3>2 DEF DiskInv, FirstDisk, DeletionGone, Copied, WithDisks, Defining
      <3>5. NewDisk' /\ FilesKept' /\ Match'
        BY <3>1, <3>2, <3>3 DEF DiskInv, NewDisk, FilesKept, Match, Listed
      <3> QED BY <3>4, <3>5 DEF DiskInv
    <2> QED BY <2>1, <2>2
  <1>6. CASE LookupDomain
    <2>1. pc.proc \in {"attach", "delete"} /\ UNCHANGED <<task, domain, xml, disks, events>>
      BY <1>6 DEF LookupDomain
    <2>2. CASE domain = "none"
      <3>1. /\ pc'.proc = "idle" /\ pc'.prune = pc.prune /\ cur' = NoEvent /\ copy' = copy
            /\ files' = files \/ (pc.proc = "attach" /\ files' = files \ {cur.disk})
        BY <1>6, <1>b, <2>2 DEF LookupDomain, Done
      <3>2. FirstDisk' /\ DeletionGone' /\ Copied' /\ WithDisks'
        BY <1>a, <2>1, <3>1 DEF DiskInv, FirstDisk, DeletionGone, Copied, WithDisks, Defining
      <3>3. NewDisk' /\ FilesKept' /\ Match'
        BY <2>1, <2>2, <3>1 DEF DiskInv, FirstDisk, NewDisk, FilesKept, Match, Listed
      <3> QED BY <3>2, <3>3 DEF DiskInv
    <2>3. CASE domain # "none"
      <3>1. /\ pc'.prune = pc.prune /\ copy' = xml /\ UNCHANGED <<cur, files>>
            /\ pc'.proc = IF pc.proc = "attach" THEN "defineAttached" ELSE "defineDetached"
        BY <1>6, <1>b, <2>3 DEF LookupDomain
      <3>2. task => xml = disks
        BY <2>1, <2>3 DEF DiskInv, FirstDisk, Match, Listed
      <3>3. FirstDisk' /\ DeletionGone' /\ Copied' /\ WithDisks'
        BY <2>1, <2>3, <3>1, <3>2 DEF DiskInv, FirstDisk, DeletionGone, Copied, FilesKept, WithDisks, Defining
      <3>4. NewDisk' /\ FilesKept' /\ Match'
        BY <2>1, <2>3, <3>1, <3>2 DEF DiskInv, NewDisk, FilesKept, Match, Listed
      <3> QED BY <3>3, <3>4 DEF DiskInv
    <2> QED BY <2>2, <2>3
  <1>7. CASE AttachDisk
    <2>1. /\ pc.proc = "defineAttached" /\ pc'.prune = pc.prune /\ copy' = {} /\ UNCHANGED <<task, disks, events>>
          /\ \/ /\ pc'.proc = "insert" /\ xml' = copy \cup {cur.disk} /\ UNCHANGED <<cur, files>>
                /\ domain' # "none"
             \/ /\ pc'.proc = "idle" /\ cur' = NoEvent /\ files' = files \ {cur.disk}
                /\ UNCHANGED <<xml, domain>>
      BY <1>7, <1>b DEF AttachDisk, Done, DefineXML
    <2>2. FirstDisk' /\ DeletionGone' /\ Copied' /\ WithDisks'
      BY <1>a, <2>1 DEF DiskInv, FirstDisk, DeletionGone, Copied, WithDisks, Defining
    <2>3. NewDisk' /\ FilesKept' /\ Match'
      BY <2>1 DEF DiskInv, Copied, NewDisk, FilesKept, Match, Listed, Defining
    <2> QED BY <2>2, <2>3 DEF DiskInv
  <1>8. CASE InsertDisk
    <2>1. /\ pc.proc = "insert" /\ pc'.proc = "idle" /\ pc'.prune = pc.prune /\ cur' = NoEvent
          /\ disks' = disks \cup {cur.disk} /\ UNCHANGED <<task, domain, xml, files, copy, events>>
      BY <1>8, <1>b DEF InsertDisk, Done
    <2>2. cur.type = "add"
      BY <2>1, HandlerType
    <2>3. FirstDisk' /\ DeletionGone' /\ Copied' /\ WithDisks'
      BY <1>a, <2>1, <2>2 DEF DiskInv, FirstDisk, DeletionGone, Copied, WithDisks, Defining
    <2>4. NewDisk' /\ FilesKept' /\ Match'
      BY <2>1 DEF DiskInv, NewDisk, FilesKept, Match, Listed
    <2> QED BY <2>3, <2>4 DEF DiskInv
  <1>9. CASE DetachDisk
    <2>1. /\ pc.proc = "defineDetached" /\ pc'.prune = pc.prune /\ copy' = {}
          /\ UNCHANGED <<task, disks, files, events>>
          /\ \/ /\ pc'.proc = "erase" /\ xml' = copy \ {cur.disk} /\ UNCHANGED cur
                /\ domain' # "none"
             \/ pc'.proc = "idle" /\ cur' = NoEvent /\ UNCHANGED <<xml, domain>>
      BY <1>9, <1>b DEF DetachDisk, Done, DefineXML
    <2>2. cur.disk # 1
      <3>1. pc.proc = "defineDetached"
        BY <2>1
      <3>2. cur.type = "delete"
        BY <1>a, <3>1 DEF TypeInv, Locals, Phase, Queued, Event
      <3> QED BY <1>a, <3>2 DEF Queued, Event
    <2>3. FirstDisk' /\ DeletionGone' /\ Copied' /\ WithDisks'
      BY <1>a, <2>1, <2>2 DEF DiskInv, FirstDisk, DeletionGone, Copied, WithDisks, Defining
    <2>4. NewDisk' /\ FilesKept' /\ Match'
      BY <2>1 DEF DiskInv, Copied, NewDisk, FilesKept, Match, Listed, Defining
    <2> QED BY <2>3, <2>4 DEF DiskInv
  <1>10. CASE EraseDisk
    <2>1. /\ pc.proc = "erase" /\ pc'.proc = "idle" /\ pc'.prune = pc.prune /\ cur' = NoEvent
          /\ disks' = disks \ {cur.disk} /\ files \ {cur.disk} \subseteq files' /\ UNCHANGED <<task, domain, xml, copy, events>>
      BY <1>10, <1>b DEF EraseDisk, Done
    <2>2. cur.disk # 1 /\ cur.type = "delete"
      BY <1>a, <2>1 DEF TypeInv, Locals, Phase, Queued, Event
    <2>3. FirstDisk' /\ DeletionGone' /\ Copied' /\ WithDisks'
      BY <1>a, <2>1, <2>2 DEF DiskInv, FirstDisk, DeletionGone, Copied, WithDisks, Defining
    <2>4. NewDisk' /\ FilesKept' /\ Match'
      BY <2>1 DEF DiskInv, NewDisk, FilesKept, Match, Listed
    <2> QED BY <2>3, <2>4 DEF DiskInv
  <1> QED BY <1>1, <1>3, <1>4, <1>5, <1>6, <1>7, <1>8, <1>9, <1>10 DEF Process

\* An event that needs a disk is queued only if the task has one.
LEMMA RequestDisks == TypeInv /\ DiskInv /\ Request => DiskInv'
  <1> SUFFICES ASSUME TypeInv, DiskInv, Request PROVE DiskInv'
    OBVIOUS
  <1>1. ASSUME NEW n \in Names, DeleteSnapshot(n) PROVE DiskInv'
    <2>1. pc'.proc = pc.proc /\ pc'.prune = pc.prune
      BY <1>1, GotoProperty DEF DeleteSnapshot, TypeInv
    <2>2. UNCHANGED <<task, domain, xml, disks, files, copy, cur, events>>
      BY <1>1 DEF DeleteSnapshot, diskVars
    <2>3. WithDisks'
      BY <2>2 DEF DiskInv, WithDisks
    <2> QED BY <2>1, <2>2, <2>3, QuietDisks
  <1>2. ASSUME NEW e \in Event, Push(e), UNCHANGED diskVars, e.type = "start" \/ disks # {} PROVE DiskInv'
    <2>1. /\ UNCHANGED <<task, domain, xml, disks, files, copy, cur, pc>>
      BY <1>2 DEF Push, diskVars
    <2>2. WithDisks'
      <3>1. events \in Seq(Event) /\ events' = Append(events, [e EXCEPT !.warm = Warm])
        BY <1>2 DEF Push, TypeInv, TypeOK
      <3>2. [e EXCEPT !.warm = Warm].type = e.type
        BY DEF Event
      <3> HIDE DEF Warm
      <3>3. \A i \in DOMAIN events' : events'[i].type = e.type \/ (i \in DOMAIN events /\ events'[i] = events[i])
        BY <3>1, <3>2
      <3> QED BY <1>2, <2>1, <3>3 DEF DiskInv, WithDisks
    <2> QED BY <2>1, <2>2, QuietDisks
  <1>3. NoEvent \in Event
    BY DEF NoEvent, Event
  <1>4. CASE StartTask
    <2>1. [NoEvent EXCEPT !.type = "start"] \in Event /\ [NoEvent EXCEPT !.type = "start"].type = "start"
      BY <1>3 DEF Event
    <2> QED BY <1>2, <1>4, <2>1 DEF StartTask
  <1>5. CASE AddNewDisk
    <2>1. [NoEvent EXCEPT !.type = "add"] \in Event
      BY <1>3 DEF Event
    <2> QED BY <1>2, <1>5, <2>1 DEF AddNewDisk
  <1>6. ASSUME NEW d \in Disks, ResizeDisk(d) PROVE DiskInv'
    <2>1. [NoEvent EXCEPT !.type = "resize", !.disk = d] \in Event
      BY <1>3 DEF Event
    <2> QED BY <1>2, <1>6, <2>1 DEF ResizeDisk
  <1>7. ASSUME NEW d \in Disks, DeleteDisk(d) PROVE DiskInv'
    <2>1. [NoEvent EXCEPT !.type = "delete", !.disk = d] \in Event
      BY <1>3 DEF Event
    <2> QED BY <1>2, <1>7, <2>1 DEF DeleteDisk
  <1>8. ASSUME NEW n \in Names, CreateAndUploadSnapshot(n) PROVE DiskInv'
    <2>1. nreq + 1 \in Files
      BY <1>8 DEF CreateAndUploadSnapshot, Push, Files, TypeInv, TypeOK
    <2>2. [NoEvent EXCEPT !.type = "snapshot", !.name = n, !.file = nreq + 1] \in Event
      BY <1>3, <2>1 DEF Event
    <2> QED BY <1>2, <1>8, <2>2 DEF CreateAndUploadSnapshot
  <1> QED BY <1>1, <1>4, <1>5, <1>6, <1>7, <1>8 DEF Request

\* Every step keeps the disks in agreement.
LEMMA NextDisks == TypeInv /\ DiskInv /\ [Next]_vars => DiskInv'
  <1> SUFFICES ASSUME TypeInv, DiskInv, [Next]_vars PROVE DiskInv'
    OBVIOUS
  <1> USE DEF At
  <1>a. ASSUME NEW t \in {"req", "check", "prune"}, NEW step, Goto(t, step)
        PROVE  pc'.proc = pc.proc /\ pc'.prune = IF t = "prune" THEN step ELSE pc.prune
    BY <1>a, GotoProperty DEF TypeInv
  <1>1. CASE \/ UNCHANGED vars \/ TerminateUploadSnapshot \/ Check
             \/ (\E f \in Files : ChildEnds(f)) \/ GuestStops \/ Killed
    <2>1. UNCHANGED <<task, xml, disks, files, copy, cur, events>> /\ (domain' = "none" <=> domain = "none")
      BY <1>1 DEF vars, TerminateUploadSnapshot, Check, FinishCallback, CheckUpload, ChildEnds, GuestStops, Killed, noProc, diskVars
    <2>2. pc'.proc = pc.proc /\ pc'.prune = pc.prune
      BY <1>1, <1>a DEF vars, TerminateUploadSnapshot, Check, FinishCallback, CheckUpload, ChildEnds, GuestStops, Killed
    <2>3. WithDisks'
      BY <2>1 DEF DiskInv, WithDisks
    <2> QED BY <2>1, <2>2, <2>3, QuietDisks
  <1>2. CASE Prune
    <2>1. UNCHANGED <<copy, cur, events>> /\ pc'.proc = pc.proc
      BY <1>2, <1>a DEF Prune, DeleteDomain, DeleteInfo, DelDisks, DelSnapshots, noProc, diskVars
    <2>2. CASE DeleteDomain
      <3>1. /\ pc.prune = "idle" /\ pc'.prune = "info" /\ domain' = "none" /\ xml' = {}
            /\ UNCHANGED <<task, disks, files>>
        BY <1>a, <2>2 DEF DeleteDomain
      <3>2. FirstDisk' /\ DeletionGone' /\ Copied' /\ WithDisks'
        BY <2>1, <3>1 DEF DiskInv, FirstDisk, DeletionGone, Copied, WithDisks, Defining
      <3>3. NewDisk' /\ FilesKept' /\ Match'
        BY <2>1, <3>1 DEF DiskInv, NewDisk, FilesKept, Match
      <3> QED BY <3>2, <3>3 DEF DiskInv
    <2>3. CASE DeleteInfo \/ DelDisks \/ DelSnapshots
      <3>1. ~task' /\ UNCHANGED <<domain, xml>>
        BY <2>3 DEF DeleteInfo, DelDisks, DelSnapshots, DiskInv, DeletionGone, diskVars
      <3> QED BY <2>1, <3>1 DEF DiskInv, FirstDisk, DeletionGone, Copied, NewDisk, FilesKept, Match, WithDisks, Defining
    <2> QED BY <1>2, <2>2, <2>3 DEF Prune
  <1>3. CASE Restart
    <2>1. /\ pc'.proc = "idle" /\ pc'.prune = "idle" /\ events' = <<>> /\ cur'.type = "none" /\ copy' = {}
          /\ disks' = (IF task THEN xml ELSE {}) /\ UNCHANGED <<task, domain, xml, files>>
      BY <1>3 DEF Restart, TypeInv, TypeOK, Steps, NoEvent
    <2>2. FirstDisk' /\ DeletionGone' /\ Copied' /\ WithDisks'
      BY <2>1 DEF DiskInv, FirstDisk, DeletionGone, Copied, WithDisks, Defining
    <2>3. NewDisk' /\ FilesKept' /\ Match'
      BY <2>1 DEF DiskInv, NewDisk, FilesKept, Match, Listed
    <2> QED BY <2>2, <2>3 DEF DiskInv
  <1> QED BY <1>1, <1>2, <1>3, ProcessDisks, RequestDisks DEF Next

\* The disks TaskDiskManager lists are those of the domain, whatever fails and
\* whenever dbc dies, except while an event changes both and while the task
\* is deleted.
THEOREM DisksAgree == Spec => []DisksMatch
  <1>1. TypeInv /\ DiskInv => DisksMatch
    BY DEF DiskInv, Match, Listed, DisksMatch
  <1> QED BY <1>1, InitTypes, NextTypes, InitDisks, NextDisks, PTL DEF Spec

\* A domain is defined only with disks whose file exists.
THEOREM FilesExist == Spec => []DisksHaveFiles
  <1>1. TypeInv /\ DiskInv => DisksHaveFiles
    BY DEF DiskInv, FilesKept, DisksHaveFiles
  <1> QED BY <1>1, InitTypes, NextTypes, InitDisks, NextDisks, PTL DEF Spec

-----------------------------------------------------------------------------
(***************************************************************************)
(* The disk of a running domain.  Only a start makes a domain run, and an   *)
(* event that was queued with no start before it has none before it still. *)
(***************************************************************************)
Cold ==
  /\ \A i \in DOMAIN events : ~events[i].warm =>
       /\ domain # "running" /\ cur.type # "start"
       /\ \A j \in 1 .. i - 1 : events[j].type # "start"
  /\ cur.type \notin {"none", "start"} /\ ~cur.warm => domain # "running"

LEMMA InitCold == Init => Cold
  BY DEF Init, Cold, NoEvent

\* A step that neither queues an event nor makes the domain run.
LEMMA QuietCold ==
  ASSUME Cold, UNCHANGED events, domain' = "running" => domain = "running",
         cur'.type = "none" \/ (cur'.type = cur.type /\ cur'.warm = cur.warm)
  PROVE  Cold'
  BY DEF Cold

LEMMA PushCold ==
  ASSUME TypeInv, Cold, NEW e \in Event, Push(e), UNCHANGED domain, domain = "shutoff"
  PROVE  Cold'
  <1>1. /\ events \in Seq(Event) /\ events' = Append(events, [e EXCEPT !.warm = Warm])
        /\ UNCHANGED cur
    BY DEF Push, TypeInv, TypeOK
  <1>2. [e EXCEPT !.warm = Warm].warm = Warm
    BY DEF Event
  <1>3. /\ DOMAIN events' = 1 .. Len(events) + 1 /\ Len(events) \in Nat /\ DOMAIN events = 1 .. Len(events)
        /\ \A i \in 1 .. Len(events) : events'[i] = events[i]
        /\ events'[Len(events) + 1].warm = Warm
    <2> HIDE DEF Warm
    <2> QED BY <1>1, <1>2
  <1>4. ASSUME NEW i \in DOMAIN events', ~events'[i].warm
        PROVE  cur.type # "start" /\ \A j \in 1 .. i - 1 : events'[j].type # "start"
    <2>1. CASE i \in 1 .. Len(events)
      BY <1>3, <1>4, <2>1 DEF Cold
    <2>2. CASE i = Len(events) + 1
      <3>1. ~Warm
        BY <1>3, <1>4, <2>2, Zenon
      <3>2. cur.type # "start" /\ \A j \in DOMAIN events : events[j].type # "start"
        BY <3>1 DEF Warm
      <3> QED BY <1>3, <2>2, <3>2
    <2> QED BY <1>3, <2>1, <2>2
  <1> QED BY <1>1, <1>4 DEF Cold

LEMMA NextCold == TypeInv /\ Cold /\ [Next]_vars => Cold'
  <1> SUFFICES ASSUME TypeInv, Cold, [Next]_vars PROVE Cold'
    OBVIOUS
  <1> USE DEF At
  <1>0. NoEvent \in Event /\ NoEvent.type = "none"
    BY DEF NoEvent, Event
  <1>1. CASE \/ UNCHANGED vars \/ TerminateUploadSnapshot \/ Check \/ Prune
             \/ (\E f \in Files : ChildEnds(f)) \/ GuestStops \/ Killed
             \/ (\E n \in Names : DeleteSnapshot(n))
    <2>1. UNCHANGED <<events, cur>> /\ (domain' = "running" => domain = "running")
      BY <1>1 DEF vars, TerminateUploadSnapshot, Check, FinishCallback, CheckUpload, Prune, DeleteDomain, DeleteInfo,
                  DelDisks, DelSnapshots, ChildEnds, GuestStops, Killed, DeleteSnapshot, noProc, diskVars
    <2> QED BY <2>1, QuietCold
  <1>2. CASE Restart
    BY <1>0, <1>2 DEF Restart, Cold
  <1>3. CASE StartTask \/ AddNewDisk
    <2>1. [NoEvent EXCEPT !.type = "start"] \in Event /\ [NoEvent EXCEPT !.type = "add"] \in Event
      BY <1>0 DEF Event
    <2> QED BY <1>3, <2>1, PushCold DEF StartTask, AddNewDisk, diskVars
  <1>4. ASSUME NEW d \in Disks, ResizeDisk(d) \/ DeleteDisk(d) PROVE Cold'
    <2>1. [NoEvent EXCEPT !.type = "resize", !.disk = d] \in Event /\ [NoEvent EXCEPT !.type = "delete", !.disk = d] \in Event
      BY <1>0 DEF Event
    <2> QED BY <1>4, <2>1, PushCold DEF ResizeDisk, DeleteDisk, diskVars
  <1>5. ASSUME NEW n \in Names, CreateAndUploadSnapshot(n) PROVE Cold'
    <2>1. nreq + 1 \in Files
      BY <1>5 DEF CreateAndUploadSnapshot, Push, Files, TypeInv, TypeOK
    <2>2. [NoEvent EXCEPT !.type = "snapshot", !.name = n, !.file = nreq + 1] \in Event
      BY <1>0, <2>1 DEF Event
    <2> QED BY <1>5, <2>2, PushCold DEF CreateAndUploadSnapshot, diskVars
  <1>6. CASE PopEvent
    <2>1. /\ events \in Seq(Event) /\ events # <<>> /\ cur' = events[1] /\ events' = Tail(events) /\ UNCHANGED domain
      BY <1>6 DEF PopEvent, TypeInv, TypeOK, diskVars
    <2>2. /\ Len(events) \in Nat \ {0} /\ DOMAIN events = 1 .. Len(events)
          /\ DOMAIN events' = 1 .. Len(events) - 1
          /\ \A i \in 1 .. Len(events) - 1 : events'[i] = events[i + 1]
      BY <2>1
    <2>3. ASSUME NEW i \in DOMAIN events', ~events'[i].warm
          PROVE  domain # "running" /\ cur'.type # "start" /\ \A j \in 1 .. i - 1 : events'[j].type # "start"
      <3>1. /\ i + 1 \in DOMAIN events /\ ~events[i + 1].warm /\ 1 \in 1 .. (i + 1) - 1
            /\ \A j \in 1 .. i - 1 : j + 1 \in 1 .. (i + 1) - 1 /\ events'[j] = events[j + 1]
        BY <2>2, <2>3
      <3> QED BY <2>1, <3>1 DEF Cold
    <2>4. ~cur'.warm => domain # "running"
      BY <2>1, <2>2 DEF Cold
    <2> QED BY <2>1, <2>3, <2>4 DEF Cold
  <1>7. CASE ProcessStart
    BY <1>0, <1>7, HandlerType DEF ProcessStart, Done, Cold, rest
  <1>8. CASE ProcessAddDisk
    <2>1. UNCHANGED <<events, domain>> /\ (cur' = NoEvent \/ cur' = [cur EXCEPT !.disk = NextDisk])
      BY <1>8 DEF ProcessAddDisk, Done, diskVars
    <2>2. cur'.type = "none" \/ (cur'.type = cur.type /\ cur'.warm = cur.warm)
      BY <1>0, <2>1 DEF TypeInv, TypeOK, Event
    <2> QED BY <2>1, <2>2, QuietCold
  <1>9. CASE \/ ProcessResizeDisk \/ LookupDomain \/ AttachDisk \/ InsertDisk \/ DetachDisk \/ EraseDisk
             \/ ConvertDisk \/ StartUpload \/ RegisterUpload \/ MarkUploading \/ UploadRefused \/ TerminateRefused
    <2>1. UNCHANGED events /\ (domain' = "running" => domain = "running")
      BY <1>9 DEF ProcessResizeDisk, LookupDomain, AttachDisk, InsertDisk, DetachDisk, EraseDisk, DefineXML,
                  ConvertDisk, StartUpload, RegisterUpload, MarkUploading, UploadRefused, TerminateRefused, rest, diskVars
    <2>2. cur' \in {cur, NoEvent}
      BY <1>9 DEF ProcessResizeDisk, LookupDomain, AttachDisk, InsertDisk, DetachDisk, EraseDisk, Done,
                  ConvertDisk, StartUpload, RegisterUpload, MarkUploading, UploadRefused, TerminateRefused
    <2> QED BY <1>0, <2>1, <2>2, QuietCold
  <1> QED BY <1>1, <1>2, <1>3, <1>4, <1>5, <1>6, <1>7, <1>8, <1>9 DEF Next, Request, Process

\* The process thread works on the disk of a running domain only for a
\* request that came while a start was queued or being handled.
THEOREM ColdDisks == Spec => []ColdDisk
  <1>1. TypeInv /\ Cold => ColdDisk
    BY HandlerType DEF TypeInv, Cold, ColdDisk
  <1> QED BY <1>1, InitTypes, NextTypes, InitCold, NextCold, PTL DEF Spec

-----------------------------------------------------------------------------
(***************************************************************************)
(* Snapshots.  An upload is tied to its record by the file, the status by  *)
(* the name, and both may be gone before the event is handled: over says   *)
(* for which files.                                                        *)
(***************************************************************************)
SnapNames == \A i \in DOMAIN snaps : nameOf[snaps[i].file] = snaps[i].name

\* A file that no request has named yet is known nowhere.
FreshFiles ==
  \A f \in Files : f > nreq => upload[f] = "none" /\ f \notin over /\ ~Recorded(f) /\ ~Pending(f)

EventNames ==
  /\ cur.file \in Files => nameOf[cur.file] = cur.name
  /\ \A i \in DOMAIN events : events[i].file \in Files => nameOf[events[i].file] = events[i].name

\* A task without SnapshotInfo never had a snapshot since dbc started.
NoSnapshots ==
  task /\ ~record =>
    /\ snaps = <<>> /\ pc.check = "idle" /\ cur.type # "snapshot"
    /\ \A i \in DOMAIN events : events[i].type # "snapshot"
    /\ \A f \in Files : upload[f] = "none"

\* UploadRecorded, also for the uploads to come.
PendingRecorded ==
  \A f \in Files : upload[f] # "none" \/ Pending(f) => Recorded(f) \/ f \in over \/ ~record

Marking == pc.proc = "mark" => upload[cur.file] # "none" \/ cur.file \in over

Backed ==
  \A i \in DOMAIN snaps : status[snaps[i].name] = "uploading" =>
    \E f \in Files : nameOf[f] = snaps[i].name /\ (upload[f] # "none" \/ f \in over)

SnapInv ==
  /\ SnapNames /\ FreshFiles /\ EventNames /\ NoSnapshots
  /\ PendingRecorded /\ Marking /\ Backed

LEMMA InitSnaps == Init => SnapInv
  <1> SUFFICES ASSUME Init PROVE SnapInv
    OBVIOUS
  <1>1. /\ snaps = <<>> /\ events = <<>> /\ cur.file = 0 /\ cur.type = "none" /\ over = {}
        /\ pc.proc = "idle" /\ pc.check = "idle" /\ \A f \in Files : upload[f] = "none"
    BY DEF Init, NoEvent, NoFile
  <1>2. 0 \notin Files
    BY DEF Files
  <1> QED BY <1>1, <1>2 DEF SnapInv, SnapNames, FreshFiles, EventNames, NoSnapshots, PendingRecorded,
          Marking, Backed, Recorded, Pending

\* Only an event of a snapshot has a file.
LEMMA EventFiles ==
  ASSUME TypeInv
  PROVE  /\ 0 \notin Files /\ NoEvent.file = 0 /\ NoEvent.type = "none"
         /\ cur.file \in Files <=> cur.type = "snapshot"
         /\ \A i \in DOMAIN events : events[i].file \in Files <=> events[i].type = "snapshot"
  <1>1. 0 \notin Files /\ NoFile = 0
    BY DEF Files, NoFile
  <1>2. NoEvent.file = 0 /\ NoEvent.type = "none"
    BY DEF NoEvent, NoFile
  <1>3. \A e \in Queued \cup {NoEvent} : e.file \in Files <=> e.type = "snapshot"
    BY <1>1, <1>2 DEF Queued
  <1> QED BY <1>1, <1>2, <1>3, SequenceParts DEF TypeInv, Locals

\* A step that changes no record and starts or ends no upload.
LEMMA QuietSnaps ==
  ASSUME TypeInv, SnapInv, UNCHANGED <<record, snaps, status, nameOf, over>>, task' => task,
         \A f \in Files : upload'[f] = "none" <=> upload[f] = "none",
         nreq' \in {nreq, nreq + 1},
         \A i \in DOMAIN events' :
           \/ events'[i].file = 0 /\ events'[i].type # "snapshot"
           \/ \E j \in DOMAIN events : events'[i] = events[j],
         \/ cur'.file = 0 /\ cur'.type # "snapshot"
         \/ cur'.file = cur.file /\ cur'.name = cur.name /\ cur'.type = cur.type
         \/ \E j \in DOMAIN events : cur' = events[j],
         pc'.check = pc.check \/ \E f \in Files : upload[f] # "none",
         pc'.proc = "mark" => pc.proc = "mark" /\ UNCHANGED cur
  PROVE  SnapInv'
  <1>0. nreq \in Nat /\ 0 \notin Files
    BY SequenceParts, EventFiles
  <1>1. \A f \in Files : Pending(f)' => Pending(f)
    BY <1>0 DEF Pending
  <1>2. \A f \in Files : Recorded(f)' = Recorded(f)
    BY DEF Recorded
  <1>3. SnapNames' /\ Backed'
    BY DEF SnapInv, SnapNames, Backed
  <1>4. FreshFiles'
    <2>1. ASSUME NEW f \in Files, f > nreq' PROVE f > nreq
      BY <1>0, <2>1 DEF Files
    <2> QED BY <1>1, <1>2, <2>1 DEF SnapInv, FreshFiles
  <1>5. EventNames'
    BY <1>0 DEF SnapInv, EventNames
  <1>6. NoSnapshots'
    BY DEF SnapInv, NoSnapshots
  <1>7. PendingRecorded'
    BY <1>1, <1>2 DEF SnapInv, PendingRecorded
  <1>8. Marking'
    <2>1. pc.proc = "mark" => cur.file \in Files
      BY HandlerType, EventFiles
    <2> QED BY <2>1 DEF SnapInv, Marking
  <1> QED BY <1>3, <1>4, <1>5, <1>6, <1>7, <1>8 DEF SnapInv

\* The upload of a file ends: its callback, or terminateUploadSnapshot.
LEMMA EndedSnaps ==
  ASSUME TypeInv, SnapInv, NEW f \in Files, record \/ ~task,
         upload' = [upload EXCEPT ![f] = "none"],
         over' = IF Pending(f) THEN over \cup {f} ELSE over,
         \A n \in Names : status'[n] = "uploading" => status[n] = "uploading" /\ n # nameOf[f],
         \A j \in DOMAIN snaps' : \E k \in DOMAIN snaps : snaps'[j] = snaps[k],
         \A k \in DOMAIN snaps : snaps[k].file # f => \E j \in DOMAIN snaps' : snaps'[j] = snaps[k],
         UNCHANGED <<task, record, nameOf, events, nreq>>, cur' \in {cur, NoEvent},
         pc'.proc = "mark" => pc.proc = "mark" /\ UNCHANGED cur
  PROVE  SnapInv'
  <1>0. /\ nreq \in Nat /\ 0 \notin Files /\ NoEvent.file = 0 /\ NoEvent.type = "none"
        /\ \A g \in Files : upload'[g] = IF g = f THEN "none" ELSE upload[g]
    BY SequenceParts, EventFiles DEF TypeInv, TypeOK
  <1>1. \A g \in Files : Pending(g)' => Pending(g)
    BY <1>0 DEF Pending
  <1>2. \A g \in Files : Recorded(g)' => Recorded(g)
    BY DEF Recorded
  <1>3. \A g \in Files : g # f /\ Recorded(g) => Recorded(g)'
    BY DEF Recorded
  <1>4. SnapNames'
    BY DEF SnapInv, SnapNames
  <1>5. FreshFiles'
    BY <1>0, <1>1, <1>2 DEF SnapInv, FreshFiles
  <1>6. EventNames'
    BY <1>0 DEF SnapInv, EventNames
  <1>7. NoSnapshots'
    BY DEF NoSnapshots
  <1>8. PendingRecorded'
    BY <1>0, <1>1, <1>3 DEF SnapInv, PendingRecorded
  <1>9. Marking'
    <2>1. pc.proc = "mark" => cur.file \in Files /\ Pending(cur.file)
      BY HandlerType, EventFiles DEF Pending
    <2> QED BY <1>0, <2>1 DEF SnapInv, Marking
  <1>10. Backed'
    <2> SUFFICES ASSUME NEW j \in DOMAIN snaps', status'[snaps'[j].name] = "uploading"
                 PROVE  \E g \in Files : nameOf[g] = snaps'[j].name /\ (upload'[g] # "none" \/ g \in over')
      BY DEF Backed
    <2>1. PICK k \in DOMAIN snaps : snaps'[j] = snaps[k]
      OBVIOUS
    <2>2. snaps[k].name \in Names /\ status[snaps[k].name] = "uploading" /\ snaps[k].name # nameOf[f]
      BY <2>1, SequenceParts
    <2>3. PICK g \in Files : nameOf[g] = snaps[k].name /\ (upload[g] # "none" \/ g \in over)
      BY <2>2 DEF SnapInv, Backed
    <2> QED BY <1>0, <2>1, <2>2, <2>3
  <1> QED BY <1>4, <1>5, <1>6, <1>7, <1>8, <1>9, <1>10 DEF SnapInv

\* A new snapshot: its file is fresh, its name may not be.
LEMMA CreateSnaps ==
  ASSUME TypeInv, SnapInv, NEW n \in Names, CreateAndUploadSnapshot(n)
  PROVE  SnapInv'
  <1> DEFINE new == nreq + 1
             e == [NoEvent EXCEPT !.type = "snapshot", !.name = n, !.file = new]
  <1>1. /\ Push(e) /\ record' = TRUE /\ snaps' = Append(snaps, [name |-> n, file |-> new]) /\ task
        /\ status' = [status EXCEPT ![n] = "creating"] /\ nameOf' = [nameOf EXCEPT ![new] = n]
        /\ UNCHANGED <<upload, over, cur, pc>>
    BY DEF CreateAndUploadSnapshot, Push
  <1>2. new \in Files /\ nreq \in Nat /\ new > nreq /\ nreq' = new
    BY SequenceParts DEF CreateAndUploadSnapshot, Push, Files
  <1>3. NoEvent \in Event
    BY DEF NoEvent, Event
  <1>4. e \in Queued /\ e.name = n /\ e.file = new
    BY <1>2, <1>3 DEF Queued, Event
  <1>4a. [e EXCEPT !.warm = Warm].name = n /\ [e EXCEPT !.warm = Warm].file = new
    BY <1>4 DEF Queued, Event
  <1> HIDE DEF e
  <1>5. /\ \A i \in DOMAIN events' :
             \/ i \in DOMAIN events /\ events'[i] = events[i]
             \/ events'[i].name = n /\ events'[i].file = new
    BY <1>1, <1>4, <1>4a, PushProperty
  <1>6. /\ DOMAIN snaps \subseteq DOMAIN snaps' /\ \A i \in DOMAIN snaps : snaps'[i] = snaps[i]
        /\ \A i \in DOMAIN snaps' : i \in DOMAIN snaps \/ (snaps'[i].name = n /\ snaps'[i].file = new)
        /\ \E i \in DOMAIN snaps' : snaps'[i].file = new
    <2>1. snaps \in Seq([name : Names, file : Files]) /\ [name |-> n, file |-> new] \in [name : Names, file : Files]
      BY <1>2 DEF TypeInv, TypeOK
    <2>2. /\ Len(snaps) \in Nat /\ DOMAIN snaps = 1 .. Len(snaps) /\ DOMAIN snaps' = 1 .. Len(snaps) + 1
          /\ \A i \in 1 .. Len(snaps) : snaps'[i] = snaps[i]
          /\ snaps'[Len(snaps) + 1] = [name |-> n, file |-> new]
      BY <1>1, <2>1
    <2> QED BY <2>2
  <1>7. upload[new] = "none" /\ new \notin over /\ ~Recorded(new) /\ ~Pending(new)
    BY <1>2 DEF SnapInv, FreshFiles
  <1>8. \A g \in Files : nameOf'[g] = IF g = new THEN n ELSE nameOf[g]
    BY <1>1, <1>2 DEF TypeInv, TypeOK
  <1>9. /\ \A g \in Files : Recorded(g)' <=> Recorded(g) \/ g = new
        /\ \A g \in Files : Pending(g)' => Pending(g) \/ g = new
    BY <1>1, <1>5, <1>6 DEF Recorded, Pending
  <1> HIDE DEF new
  <1>10. SnapNames'
    <2>1. \A i \in DOMAIN snaps : snaps[i].file # new /\ snaps[i].file \in Files
      BY <1>7, SequenceParts DEF Recorded
    <2> QED BY <1>2, <1>6, <1>8, <2>1 DEF SnapInv, SnapNames
  <1>11. FreshFiles'
    <2>1. ASSUME NEW g \in Files, g > nreq' PROVE g > nreq /\ g # new
      BY <1>2, <2>1 DEF new, Files
    <2> QED BY <1>1, <1>9, <2>1 DEF SnapInv, FreshFiles
  <1>12. EventNames'
    <2>1. cur.file # new /\ \A i \in DOMAIN events : events[i].file # new
      BY <1>7 DEF Pending
    <2> QED BY <1>1, <1>2, <1>5, <1>8, <2>1 DEF SnapInv, EventNames
  <1>13. NoSnapshots'
    BY <1>1 DEF NoSnapshots
  <1>14. PendingRecorded'
    <2>1. ~record => \A g \in Files : upload[g] = "none" /\ ~Pending(g)
      BY <1>1, EventFiles DEF SnapInv, NoSnapshots, Pending
    <2> QED BY <1>1, <1>9, <2>1 DEF SnapInv, PendingRecorded
  <1>15. Marking'
    BY <1>1 DEF SnapInv, Marking
  <1>16. Backed'
    <2> SUFFICES ASSUME NEW i \in DOMAIN snaps', status'[snaps'[i].name] = "uploading"
                 PROVE  \E g \in Files : nameOf'[g] = snaps'[i].name /\ (upload[g] # "none" \/ g \in over)
      BY <1>1 DEF Backed
    <2>1. i \in DOMAIN snaps /\ snaps'[i] = snaps[i] /\ status[snaps[i].name] = "uploading"
      BY <1>1, <1>6, SequenceParts DEF TypeInv, TypeOK
    <2>2. PICK g \in Files : nameOf[g] = snaps[i].name /\ (upload[g] # "none" \/ g \in over)
      BY <2>1 DEF SnapInv, Backed
    <2> QED BY <1>7, <1>8, <2>1, <2>2
  <1> QED BY <1>10, <1>11, <1>12, <1>13, <1>14, <1>15, <1>16 DEF SnapInv

LEMMA TerminatedSnaps ==
  ASSUME TypeInv, SnapInv, NEW n, Named(n), Terminated(n),
         UNCHANGED <<task, record, nameOf, events, nreq>>, cur' \in {cur, NoEvent},
         pc'.proc = "mark" => pc.proc = "mark" /\ UNCHANGED cur
  PROVE  SnapInv'
  <1>1. PICK i \in DOMAIN snaps :
          LET f == snaps[i].file IN
          /\ snaps[i].name = n /\ f \in Files
          /\ upload' = [upload EXCEPT ![f] = "none"]
          /\ sfiles' = sfiles \ {f} /\ status' = [status EXCEPT ![n] = "absent"]
          /\ over' = IF Pending(f) THEN over \cup {f} ELSE over
          /\ \A j \in DOMAIN snaps' : \E k \in DOMAIN snaps : snaps'[j] = snaps[k]
          /\ \A k \in DOMAIN snaps : snaps[k].file # f => \E j \in DOMAIN snaps' : snaps'[j] = snaps[k]
    BY TerminatedProperty, Zenon
  <1>2. record \/ ~task
    BY <1>1 DEF SnapInv, NoSnapshots
  <1>3. \A m \in Names : status'[m] = "uploading" => status[m] = "uploading" /\ m # nameOf[snaps[i].file]
    <2>1. nameOf[snaps[i].file] = n
      BY <1>1 DEF SnapInv, SnapNames
    <2>2. status' = [status EXCEPT ![n] = "absent"]
      BY <1>1
    <2> QED BY <2>1, <2>2 DEF TypeInv, TypeOK
  <1> QED BY <1>1, <1>2, <1>3, EndedSnaps

\* RegisterUpload: the upload is that of the event being handled.
LEMMA RegisterSnaps == TypeInv /\ SnapInv /\ RegisterUpload => SnapInv'
  <1> SUFFICES ASSUME TypeInv, SnapInv, RegisterUpload PROVE SnapInv'
    OBVIOUS
  <1>1. /\ pc.proc = "register" /\ pc'.proc = "mark" /\ pc'.check = pc.check
        /\ upload' = [upload EXCEPT ![cur.file] = "running"]
        /\ UNCHANGED <<task, record, snaps, status, nameOf, over, cur, events, nreq>>
    BY GotoProperty DEF RegisterUpload, At, rest, diskVars, TypeInv
  <1>2. cur.type = "snapshot" /\ cur.file \in Files
    BY <1>1, HandlerType, EventFiles
  <1>3. \A f \in Files : upload'[f] = IF f = cur.file THEN "running" ELSE upload[f]
    BY <1>1, <1>2 DEF TypeInv, TypeOK
  <1>4. \A f \in Files : Recorded(f)' = Recorded(f) /\ Pending(f)' = Pending(f)
    BY <1>1 DEF Recorded, Pending
  <1>5. Pending(cur.file)
    BY DEF Pending
  <1>6. SnapNames' /\ EventNames'
    BY <1>1 DEF SnapInv, SnapNames, EventNames
  <1>7. FreshFiles' /\ PendingRecorded'
    BY <1>1, <1>2, <1>3, <1>4, <1>5 DEF SnapInv, FreshFiles, PendingRecorded
  <1>8. NoSnapshots'
    BY <1>1, <1>2 DEF SnapInv, NoSnapshots
  <1>9. Marking' /\ Backed'
    BY <1>1, <1>2, <1>3 DEF SnapInv, Marking, Backed
  <1> QED BY <1>6, <1>7, <1>8, <1>9 DEF SnapInv

\* MarkUploading: the status is set for an upload that is there or was over
\* before.
LEMMA MarkSnaps == TypeInv /\ SnapInv /\ MarkUploading /\ record => SnapInv'
  <1> SUFFICES ASSUME TypeInv, SnapInv, MarkUploading, record PROVE SnapInv'
    OBVIOUS
  <1>1. /\ pc.proc = "mark" /\ pc'.proc = "idle" /\ pc'.check = pc.check /\ cur' = NoEvent
        /\ status' = [status EXCEPT ![cur.name] = "uploading"]
        /\ UNCHANGED <<task, record, snaps, upload, nameOf, over, events, nreq>>
    BY GotoProperty DEF MarkUploading, Done, At, diskVars, TypeInv
  <1>2. cur.type = "snapshot" /\ cur.file \in Files
    BY <1>1, HandlerType, EventFiles
  <1>3. NoEvent.file = 0 /\ 0 \notin Files
    BY EventFiles
  <1>4. \A f \in Files : Recorded(f)' = Recorded(f) /\ (Pending(f)' => Pending(f))
    BY <1>1, <1>3 DEF Recorded, Pending
  <1>5. SnapNames' /\ EventNames'
    BY <1>1, <1>3 DEF SnapInv, SnapNames, EventNames
  <1>6. FreshFiles' /\ PendingRecorded'
    BY <1>1, <1>4 DEF SnapInv, FreshFiles, PendingRecorded
  <1>7. NoSnapshots' /\ Marking'
    BY <1>1 DEF NoSnapshots, Marking
  <1>8. nameOf[cur.file] = cur.name /\ (upload[cur.file] # "none" \/ cur.file \in over)
    BY <1>1, <1>2 DEF SnapInv, EventNames, Marking
  <1>9. \A n \in Names : status'[n] = "uploading" => n = cur.name \/ status[n] = "uploading"
    BY <1>1 DEF TypeInv, TypeOK
  <1>10. Backed'
    BY <1>1, <1>2, <1>8, <1>9, SequenceParts DEF SnapInv, Backed
  <1> QED BY <1>5, <1>6, <1>7, <1>10 DEF SnapInv

\* Every step keeps what is said of the snapshots.
LEMMA NextSnaps == TypeInv /\ DiskInv /\ SnapInv /\ [Next]_vars => SnapInv'
  <1> SUFFICES ASSUME TypeInv, DiskInv, SnapInv, [Next]_vars PROVE SnapInv'
    OBVIOUS
  <1> USE DEF At
  <1>a. /\ 0 \notin Files /\ NoEvent.file = 0 /\ NoEvent.type = "none" /\ NoEvent \in Event
        /\ nreq \in Nat
    BY EventFiles, SequenceParts DEF NoEvent, Event
  <1>b. ASSUME NEW t \in {"req", "proc", "check", "prune"}, NEW step, Goto(t, step)
        PROVE  /\ pc'.proc = IF t = "proc" THEN step ELSE pc.proc
               /\ pc'.check = IF t = "check" THEN step ELSE pc.check
    BY <1>b, GotoProperty DEF TypeInv
  <1>1. CASE \/ UNCHANGED vars \/ DeleteDomain \/ DeleteInfo \/ DelDisks \/ GuestStops \/ Killed
             \/ (\E f \in Files : ChildEnds(f) \/ CheckUpload(f))
             \/ (\E n \in Names : DeleteSnapshot(n))
             \/ ~record /\ (FinishCallback \/ MarkUploading)
    <2> USE DEF vars, DeleteDomain, DeleteInfo, DelDisks, GuestStops, Killed, ChildEnds, CheckUpload,
                DeleteSnapshot, FinishCallback, MarkUploading, noProc, diskVars, snapVars
    <2>1. /\ UNCHANGED <<record, snaps, status, nameOf, over, events, cur>> /\ (task' => task)
          /\ nreq' \in {nreq, nreq + 1}
      BY <1>1
    <2>2. \A f \in Files : upload'[f] = "none" <=> upload[f] = "none"
      BY <1>1 DEF TypeInv, TypeOK
    <2>3. pc'.proc = pc.proc /\ (pc'.check = pc.check \/ \E f \in Files : upload[f] # "none")
      BY <1>1, <1>b
    <2> QED BY <2>1, <2>2, <2>3, QuietSnaps
  <1>2. ASSUME NEW e \in Queued, Push(e), e.type # "snapshot", UNCHANGED <<diskVars, snapVars>>
        PROVE  SnapInv'
    <2>1. [e EXCEPT !.warm = Warm].file = 0 /\ [e EXCEPT !.warm = Warm].type # "snapshot"
      BY <1>2 DEF Queued, Event, NoFile
    <2>2. \A i \in DOMAIN events' : \/ events'[i].file = 0 /\ events'[i].type # "snapshot"
                                    \/ \E j \in DOMAIN events : events'[i] = events[j]
      BY <1>2, <2>1, PushProperty
    <2>3. /\ UNCHANGED <<task, record, snaps, status, nameOf, over, upload, cur, pc>>
          /\ nreq' = nreq + 1
      BY <1>2, PushProperty DEF diskVars, snapVars
    <2> QED BY <2>2, <2>3, QuietSnaps
  <1>3. CASE StartTask \/ AddNewDisk
    <2>1. [NoEvent EXCEPT !.type = "start"] \in Queued /\ [NoEvent EXCEPT !.type = "start"].type = "start"
      BY <1>a DEF Event, Queued, NoFile
    <2>2. [NoEvent EXCEPT !.type = "add"] \in Queued /\ [NoEvent EXCEPT !.type = "add"].type = "add"
      BY <1>a DEF Event, Queued, NoFile
    <2> QED BY <1>2, <1>3, <2>1, <2>2 DEF StartTask, AddNewDisk
  <1>4. ASSUME NEW d \in Disks, ResizeDisk(d) PROVE SnapInv'
    <2>1. /\ [NoEvent EXCEPT !.type = "resize", !.disk = d] \in Queued
          /\ [NoEvent EXCEPT !.type = "resize", !.disk = d].type = "resize"
      BY <1>a DEF Event, Queued, NoFile
    <2> QED BY <1>2, <1>4, <2>1 DEF ResizeDisk
  <1>5. ASSUME NEW d \in Disks, DeleteDisk(d) PROVE SnapInv'
    <2>1. /\ [NoEvent EXCEPT !.type = "delete", !.disk = d] \in Queued
          /\ [NoEvent EXCEPT !.type = "delete", !.disk = d].type = "delete"
      BY <1>5, <1>a DEF Event, Queued, NoFile, DeleteDisk
    <2> QED BY <1>2, <1>5, <2>1 DEF DeleteDisk
  <1>6. CASE TerminateUploadSnapshot
    <2>1. Named(victim)
      BY <1>6 DEF TerminateUploadSnapshot, TypeInv, Locals
    <2> QED BY <1>6, <1>b, <2>1, TerminatedSnaps DEF TerminateUploadSnapshot, diskVars
  <1>7. CASE TerminateRefused
    <2>1. Named(cur.name)
      BY <1>7 DEF TerminateRefused, TypeInv, Locals
    <2> QED BY <1>7, <1>b, <2>1, TerminatedSnaps DEF TerminateRefused, Done, diskVars, rest
  <1>8. CASE FinishCallback /\ record
    <2>1. called \in Files
      BY <1>8 DEF FinishCallback, TypeInv, Locals
    <2>2. /\ status' = [status EXCEPT ![nameOf[called]] = "none"]
          /\ upload' = [upload EXCEPT ![called] = "none"]
          /\ over' = IF Pending(called) THEN over \cup {called} ELSE over
          /\ UNCHANGED <<task, record, snaps, nameOf, events, cur, nreq>>
      BY <1>8 DEF FinishCallback, diskVars, noProc
    <2>3. \A n \in Names : status'[n] = "uploading" => status[n] = "uploading" /\ n # nameOf[called]
      BY <2>2 DEF TypeInv, TypeOK
    <2>4. pc'.proc = pc.proc
      BY <1>8, <1>b DEF FinishCallback
    <2> QED BY <1>8, <2>1, <2>2, <2>3, <2>4, EndedSnaps
  <1>9. CASE DelSnapshots
    <2>1. /\ record' = FALSE /\ snaps' = <<>> /\ over' = over \cup {f \in Files : Recorded(f) /\ Pending(f)}
          /\ UNCHANGED <<task, upload, nameOf, events, cur, nreq>> /\ ~task /\ pc'.proc = pc.proc
      BY <1>9, <1>b DEF DelSnapshots, diskVars, noProc, DiskInv, DeletionGone
    <2>2. \A f \in Files : ~Recorded(f)' /\ Pending(f)' = Pending(f)
      BY <2>1 DEF Recorded, Pending
    <2>3. SnapNames' /\ EventNames' /\ NoSnapshots' /\ PendingRecorded' /\ Backed'
      BY <2>1 DEF SnapInv, SnapNames, EventNames, NoSnapshots, PendingRecorded, Backed
    <2>4. FreshFiles'
      BY <2>1, <2>2 DEF SnapInv, FreshFiles
    <2>5. Marking'
      BY <2>1 DEF SnapInv, Marking
    <2> QED BY <2>3, <2>4, <2>5 DEF SnapInv
  <1>10. CASE Restart
    <2>1. /\ events' = <<>> /\ cur'.file = 0 /\ cur'.type = "none"
          /\ pc'.proc = "idle" /\ pc'.check = "idle" /\ \A f \in Files : upload'[f] = "none"
          /\ UNCHANGED <<task, record, snaps, nameOf, nreq, over>>
          /\ \A n \in Names : status'[n] # "uploading"
      BY <1>10, <1>a DEF Restart, TypeInv, TypeOK, Steps
    <2>2. \A f \in Files : Recorded(f)' = Recorded(f) /\ ~Pending(f)'
      BY <1>a, <2>1 DEF Recorded, Pending
    <2>3. SnapNames' /\ EventNames' /\ NoSnapshots' /\ Marking'
      BY <1>a, <2>1 DEF SnapInv, SnapNames, EventNames, NoSnapshots, Marking
    <2>4. FreshFiles' /\ PendingRecorded'
      BY <2>1, <2>2 DEF SnapInv, FreshFiles, PendingRecorded
    <2>5. Backed'
      BY <2>1, SequenceParts DEF Backed
    <2> QED BY <2>3, <2>4, <2>5 DEF SnapInv
  <1>11. CASE PopEvent
    <2>1. pc'.proc # "mark"
      BY <1>11, PopProperty DEF Queued, Event
    <2> QED BY <1>11, <2>1, PopProperty, QuietSnaps DEF diskVars, snapVars
  <1>12. CASE \/ ProcessStart \/ ProcessResizeDisk \/ ProcessAddDisk \/ LookupDomain \/ AttachDisk \/ InsertDisk
              \/ DetachDisk \/ EraseDisk \/ ConvertDisk \/ StartUpload \/ UploadRefused
    <2>1. UNCHANGED <<task, record, snaps, status, nameOf, over, upload, events, nreq>>
      BY <1>12 DEF ProcessStart, ProcessResizeDisk, ProcessAddDisk, LookupDomain, AttachDisk, InsertDisk,
         DetachDisk, EraseDisk, ConvertDisk, StartUpload, UploadRefused, diskVars, snapVars, rest
    <2>2. cur' \in {cur, NoEvent, [cur EXCEPT !.disk = NextDisk]}
      BY <1>12 DEF ProcessStart, ProcessResizeDisk, ProcessAddDisk, LookupDomain, AttachDisk, InsertDisk,
         DetachDisk, EraseDisk, ConvertDisk, StartUpload, UploadRefused, Done
    <2>3. \/ cur'.file = 0 /\ cur'.type # "snapshot"
          \/ cur'.file = cur.file /\ cur'.name = cur.name /\ cur'.type = cur.type
      BY <1>a, <2>2 DEF TypeInv, TypeOK, Event
    <2>4. pc'.check = pc.check /\ pc'.proc # "mark"
      BY <1>12, <1>b DEF ProcessStart, ProcessResizeDisk, ProcessAddDisk, LookupDomain, AttachDisk, InsertDisk,
         DetachDisk, EraseDisk, ConvertDisk, StartUpload, UploadRefused, Done
    <2> QED BY <2>1, <2>3, <2>4, QuietSnaps
  <1> QED BY <1>1, <1>3, <1>4, <1>5, <1>6, <1>7, <1>8, <1>9, <1>10, <1>11, <1>12,
             CreateSnaps, RegisterSnaps, MarkSnaps DEF Next, Request, Process, Check, Prune

\* An upload belongs to a recorded snapshot, unless the snapshot was deleted
\* before the process thread was done with it or its task is deleted.
THEOREM UploadsRecorded == Spec => []UploadRecorded
  <1>1. TypeInv /\ DiskInv /\ SnapInv => UploadRecorded
    BY DEF SnapInv, PendingRecorded, UploadRecorded
  <1> QED BY <1>1, InitTypes, NextTypes, InitDisks, NextDisks, InitSnaps, NextSnaps, PTL DEF Spec

\* A snapshot that is shown as uploading is being uploaded, unless its upload
\* was over before the process thread set the status.
THEOREM UploadsBacked == Spec => []UploadingBacked
  <1>1. TypeInv /\ DiskInv /\ SnapInv => UploadingBacked
    BY DEF SnapInv, Backed, UploadingBacked
  <1> QED BY <1>1, InitTypes, NextTypes, InitDisks, NextDisks, InitSnaps, NextSnaps, PTL DEF Spec

\* The three places where dbc dies of what it does not find: each finds it
\* unless the task has lost its TaskInfo.
LEMMA NextCrash == TypeInv /\ DiskInv /\ SnapInv /\ CrashOnlyAfterDelete /\ [Next]_vars => CrashOnlyAfterDelete'
  <1> SUFFICES ASSUME TypeInv, DiskInv, SnapInv, CrashOnlyAfterDelete, [Next]_vars, down' = "null"
               PROVE  ~task'
    BY DEF CrashOnlyAfterDelete
  <1> USE DEF At
  <1>1. task' => task
    <2>1. CASE Process
      BY <2>1 DEF Process, PopEvent, ProcessStart, ProcessResizeDisk, ProcessAddDisk, LookupDomain, AttachDisk, InsertDisk,
         DetachDisk, EraseDisk, ConvertDisk, StartUpload, RegisterUpload, MarkUploading, UploadRefused, TerminateRefused, diskVars
    <2>2. CASE Request
      BY <2>2 DEF Request, StartTask, AddNewDisk, ResizeDisk, DeleteDisk, CreateAndUploadSnapshot, DeleteSnapshot, diskVars
    <2> QED BY <2>1, <2>2 DEF vars, Next, TerminateUploadSnapshot, Check, FinishCallback, CheckUpload, Prune, DeleteDomain,
         DeleteInfo, DelDisks, DelSnapshots, ChildEnds, GuestStops, Killed, Restart, diskVars
  <1>2. \/ UNCHANGED down
        \/ ProcessAddDisk /\ disks = {}
        \/ MarkUploading /\ ~record
        \/ FinishCallback /\ ~record
    <2>1. CASE Process
      BY <2>1 DEF Process, PopEvent, ProcessStart, ProcessResizeDisk, ProcessAddDisk, LookupDomain, AttachDisk, InsertDisk,
         DetachDisk, EraseDisk, ConvertDisk, StartUpload, RegisterUpload, MarkUploading, UploadRefused, TerminateRefused, rest
    <2>2. CASE Request
      BY <2>2 DEF Request, StartTask, AddNewDisk, ResizeDisk, DeleteDisk, CreateAndUploadSnapshot, DeleteSnapshot, Push
    <2>3. CASE Check
      BY <2>3 DEF Check, FinishCallback, CheckUpload, noProc
    <2>4. CASE Prune \/ TerminateUploadSnapshot
      BY <2>4 DEF Prune, DeleteDomain, DeleteInfo, DelDisks, DelSnapshots, TerminateUploadSnapshot
    <2>5. CASE UNCHANGED vars \/ GuestStops \/ \E f \in Files : ChildEnds(f)
      BY <2>5 DEF vars, ChildEnds, GuestStops
    <2>6. ~Killed /\ ~Restart
      BY DEF Killed, Restart
    <2> QED BY <2>1, <2>2, <2>3, <2>4, <2>5, <2>6 DEF Next
  <1>3. CASE ProcessAddDisk /\ disks = {}
    BY <1>1, <1>3, HandlerType DEF ProcessAddDisk, DiskInv, WithDisks
  <1>4. CASE MarkUploading /\ ~record
    BY <1>1, <1>4, HandlerType DEF MarkUploading, SnapInv, NoSnapshots
  <1>5. CASE FinishCallback /\ ~record
    BY <1>1, <1>5 DEF FinishCallback, SnapInv, NoSnapshots
  <1> QED BY <1>1, <1>2, <1>3, <1>4, <1>5 DEF CrashOnlyAfterDelete

\* dbc dies of a missing SnapshotInfo or of a task without disks only when
\* the task was deleted under an upload or a queued event.
THEOREM CrashesExplained == Spec => []CrashOnlyAfterDelete
  <1>1. Init => CrashOnlyAfterDelete
    BY DEF Init, CrashOnlyAfterDelete
  <1> QED BY <1>1, InitTypes, NextTypes, InitDisks, NextDisks, InitSnaps, NextSnaps, NextCrash, PTL DEF Spec
=============================================================================
