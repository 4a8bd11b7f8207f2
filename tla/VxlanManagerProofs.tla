------------------------- MODULE VxlanManagerProofs -------------------------
(***************************************************************************)
(* Proofs about VxlanManager, for any nodes, wallets and tasks, any number *)
(* of creations and of faults, and inboxes of any length: its types, that  *)
(* a record flagged as built has its device, and that an owner knows the   *)
(* tasks in its network.                                                   *)
(***************************************************************************)
EXTENDS VxlanManager, SequenceTheorems, TLAPS

USE VxlanBounds, NamesAssumption

Boxes == [Nodes -> [Nodes -> Seq(Message)]]

\* The datagrams on their way from s to n.
Mails(box, n, s) == {box[n][s][i] : i \in DOMAIN box[n][s]}

\* What a datagram from s to n says of its sender and its task.
Good(of, n, s, m) ==
  /\ m.type \in {"create", "list"} => m.net \in Network /\ m.net.owner = s /\ s # n
  /\ m.type \in {"join", "leave"} => m.task \in Tasks
  /\ m.type = "leave" => of[m.task] = "gone"

MailOK == \A n, s \in Nodes : \A m \in Mails(inbox, n, s) : Good(task, n, s, m)

\* The networkInfo the request thread works on.
Info(n) == IF held[n] = NoRec THEN nets[n] ELSE held[n]

\* A node builds as a server its own network, as a client another's.
Threads ==
  \A n \in Nodes :
    /\ pc[n] = "server" => held[n] \in Network /\ held[n].owner = n /\ held[n].members = {}
    /\ pc[n] = "client" => Info(n) \in Network /\ Info(n).owner # n
    /\ pc[n] = "client" /\ Known(n) => nets[n].owner # n
    /\ pc[n] \in {"idle", "join"} => held[n] = NoRec

TypeInv == TypeOK /\ inbox \in Boxes /\ MailOK /\ Threads

-----------------------------------------------------------------------------
(***************************************************************************)
(* Multicast.                                                              *)
(***************************************************************************)

\* A datagram is added at the end of the queues of its receivers.
LEMMA SentMail ==
  ASSUME NEW box \in Boxes, NEW n \in Nodes, NEW m \in Message
  PROVE  /\ Sent(box, n, m) \in Boxes
         /\ \A k, s \in Nodes :
              Mails(Sent(box, n, m), k, s) =
                Mails(box, k, s) \cup (IF s = n /\ k \in Receivers(n, m) THEN {m} ELSE {})
  <1>1. \A k, s \in Nodes : box[k][s] \in Seq(Message)
    BY DEF Boxes
  <1>2. Sent(box, n, m) \in Boxes
    BY <1>1 DEF Sent, Boxes
  <1>3. \A k, s \in Nodes :
          Sent(box, n, m)[k][s] = IF s = n /\ k \in Receivers(n, m) THEN Append(box[k][s], m) ELSE box[k][s]
    BY DEF Sent, Boxes
  <1>4. ASSUME NEW q \in Seq(Message)
        PROVE  {Append(q, m)[i] : i \in DOMAIN Append(q, m)} = {q[i] : i \in DOMAIN q} \cup {m}
    <2>1. /\ DOMAIN q = 1 .. Len(q) /\ DOMAIN Append(q, m) = 1 .. Len(q) + 1 /\ Len(q) \in Nat
          /\ \A i \in 1 .. Len(q) : Append(q, m)[i] = q[i]
          /\ Append(q, m)[Len(q) + 1] = m
      OBVIOUS
    <2> QED BY <2>1
  <1>5. ASSUME NEW k \in Nodes, NEW s \in Nodes
        PROVE  Mails(Sent(box, n, m), k, s) =
                 Mails(box, k, s) \cup (IF s = n /\ k \in Receivers(n, m) THEN {m} ELSE {})
    <2>1. CASE s = n /\ k \in Receivers(n, m)
      <3>1. Sent(box, n, m)[k][s] = Append(box[k][s], m) /\ box[k][s] \in Seq(Message)
        BY <1>1, <1>3, <2>1
      <3> QED BY <1>4, <2>1, <3>1 DEF Mails
    <2>2. CASE ~(s = n /\ k \in Receivers(n, m))
      <3>1. Sent(box, n, m)[k][s] = box[k][s]
        BY <1>3, <2>2
      <3> QED BY <2>2, <3>1 DEF Mails
    <2> QED BY <2>1, <2>2
  <1> QED BY <1>2, <1>5

\* The first datagram of a queue is taken.
LEMMA TailMail ==
  ASSUME NEW box \in Boxes, NEW n \in Nodes, NEW s \in Nodes, box[n][s] # <<>>,
         NEW rest \in Boxes, rest[n][s] = Tail(box[n][s]),
         \A k, r \in Nodes : (k # n \/ r # s) => rest[k][r] = box[k][r]
  PROVE  /\ Head(box[n][s]) \in Mails(box, n, s) /\ Head(box[n][s]) \in Message
         /\ \A k, r \in Nodes : (k # n \/ r # s) => Mails(rest, k, r) = Mails(box, k, r)
         /\ Mails(rest, n, s) \subseteq Mails(box, n, s)
         /\ Mails(box, n, s) \subseteq Mails(rest, n, s) \cup {Head(box[n][s])}
  <1>1. box[n][s] \in Seq(Message)
    BY DEF Boxes
  <1> DEFINE q == box[n][s]
  <1>4. /\ Len(q) \in Nat \ {0} /\ DOMAIN q = 1 .. Len(q) /\ Head(q) = q[1] /\ q[1] \in Message
        /\ DOMAIN Tail(q) = 1 .. Len(q) - 1
        /\ \A i \in 1 .. Len(q) - 1 : Tail(q)[i] = q[i + 1]
    BY <1>1
  <1> HIDE DEF q
  <1>5. {Tail(q)[i] : i \in DOMAIN Tail(q)} \subseteq {q[i] : i \in DOMAIN q}
    BY <1>4
  <1>6. {q[i] : i \in DOMAIN q} \subseteq {Tail(q)[i] : i \in DOMAIN Tail(q)} \cup {Head(q)}
    <2>1. ASSUME NEW i \in DOMAIN q, i # 1
          PROVE  i - 1 \in DOMAIN Tail(q) /\ Tail(q)[i - 1] = q[i]
      BY <1>4, <2>1
    <2>2. \A i \in DOMAIN q : q[i] \in {Tail(q)[j] : j \in DOMAIN Tail(q)} \cup {Head(q)}
      BY <1>4, <2>1
    <2> QED BY <2>2
  <1>7. Head(q) \in {q[i] : i \in DOMAIN q}
    BY <1>4
  <1>8. /\ Mails(rest, n, s) = {Tail(q)[i] : i \in DOMAIN Tail(q)} /\ Mails(box, n, s) = {q[i] : i \in DOMAIN q}
    <2>1. rest[n][s] = Tail(q) /\ box[n][s] = q
      BY DEF q
    <2> QED BY <2>1 DEF Mails
  <1>9. ASSUME NEW k \in Nodes, NEW r \in Nodes, (k # n \/ r # s)
        PROVE  Mails(rest, k, r) = Mails(box, k, r)
    <2>1. rest[k][r] = box[k][r]
      BY <1>9
    <2> QED BY <2>1 DEF Mails
  <1> QED BY <1>4, <1>5, <1>6, <1>7, <1>8, <1>9 DEF q

LEMMA JoinsMail ==
  ASSUME inbox \in Boxes, NEW n \in Nodes, NEW s \in Nodes
  PROVE  Joins(n, s) = {t \in Tasks : Msg("join", NoRec, t) \in Mails(inbox, n, s)}
  BY DEF Joins, Mails

\* A datagram stays good.
LEMMA GoodStays ==
  ASSUME NEW n, NEW s, NEW m, Good(task, n, s, m), \A t \in Tasks : task[t] = "gone" => task'[t] = "gone"
  PROVE  Good(task', n, s, m)
  BY DEF Good

LEMMA MulticastMail ==
  ASSUME TypeInv, NEW n \in Nodes, NEW m \in Message, inbox' = Sent(inbox, n, m),
         \A k \in Receivers(n, m) : Good(task', k, n, m),
         \A t \in Tasks : task[t] = "gone" => task'[t] = "gone"
  PROVE  inbox' \in Boxes /\ MailOK'
  <1>1. /\ inbox' \in Boxes
        /\ \A k, s \in Nodes :
             Mails(inbox', k, s) = Mails(inbox, k, s) \cup (IF s = n /\ k \in Receivers(n, m) THEN {m} ELSE {})
    BY SentMail DEF TypeInv
  <1>2. ASSUME NEW k \in Nodes, NEW s \in Nodes, NEW x \in Mails(inbox', k, s)
        PROVE  Good(task', k, s, x)
    <2>1. CASE x \in Mails(inbox, k, s)
      BY <2>1, GoodStays DEF TypeInv, MailOK
    <2>2. CASE s = n /\ k \in Receivers(n, m) /\ x = m
      BY <2>2
    <2> QED BY <1>1, <2>1, <2>2
  <1> QED BY <1>1, <1>2 DEF MailOK

LEMMA ReceiveMail ==
  ASSUME TypeInv, NEW n \in Nodes, NEW s \in Nodes, inbox[n][s] # <<>>,
         inbox' = [inbox EXCEPT ![n][s] = Tail(inbox[n][s])], UNCHANGED task
  PROVE  /\ inbox' \in Boxes /\ MailOK'
         /\ Head(inbox[n][s]) \in Message /\ Good(task, n, s, Head(inbox[n][s]))
  <1>1. /\ inbox' \in Boxes
        /\ Head(inbox[n][s]) \in Mails(inbox, n, s) /\ Head(inbox[n][s]) \in Message
        /\ \A k, r \in Nodes : (k # n \/ r # s) => Mails(inbox', k, r) = Mails(inbox, k, r)
        /\ Mails(inbox', n, s) \subseteq Mails(inbox, n, s)
    <2>1. inbox \in Boxes /\ inbox[n][s] \in Seq(Message)
      BY DEF TypeInv, Boxes
    <2>2. /\ inbox' \in Boxes /\ inbox'[n][s] = Tail(inbox[n][s])
          /\ \A k, r \in Nodes : (k # n \/ r # s) => inbox'[k][r] = inbox[k][r]
      BY <2>1 DEF Boxes
    <2>3. \A rest \in Boxes :
            /\ rest[n][s] = Tail(inbox[n][s])
            /\ \A k, r \in Nodes : (k # n \/ r # s) => rest[k][r] = inbox[k][r]
            => /\ Head(inbox[n][s]) \in Mails(inbox, n, s) /\ Head(inbox[n][s]) \in Message
               /\ \A k, r \in Nodes : (k # n \/ r # s) => Mails(rest, k, r) = Mails(inbox, k, r)
               /\ Mails(rest, n, s) \subseteq Mails(inbox, n, s)
      BY <2>1, TailMail
    <2> QED BY <2>2, <2>3, Zenon
  <1>2. \A k, r \in Nodes : Mails(inbox', k, r) \subseteq Mails(inbox, k, r)
    BY <1>1
  <1>3. ASSUME NEW k \in Nodes, NEW r \in Nodes, NEW x \in Mails(inbox', k, r)
        PROVE  Good(task', k, r, x)
    BY <1>2, GoodStays DEF TypeInv, MailOK
  <1> QED BY <1>1, <1>3 DEF TypeInv, MailOK

LEMMA Messages ==
  ASSUME NEW net \in Network \cup {NoRec}, NEW t \in Tasks \cup {NoTask},
         NEW type \in {"create", "list", "join", "leave", "delete", "query"}
  PROVE  /\ Msg(type, net, t) \in Message /\ Msg(type, net, t).type = type
         /\ Msg(type, net, t).net = net /\ Msg(type, net, t).task = t
  BY DEF Msg, Message

LEMMA InitTypes == Init => TypeInv
  <1> SUFFICES ASSUME Init PROVE TypeInv
    OBVIOUS
  <1>1. inbox \in Boxes /\ \A n, s \in Nodes : inbox[n][s] = <<>>
    BY DEF Init, Boxes
  <1>2. TypeOK
    BY <1>1 DEF Init, TypeOK
  <1>3. MailOK /\ Threads
    BY <1>1 DEF Init, MailOK, Mails, Threads
  <1> QED BY <1>1, <1>2, <1>3 DEF TypeInv

\* What a step of the request thread does to the types, multicast aside.
LEMMA RequestTypes ==
  ASSUME TypeInv, NEW n \in Nodes, inbox' \in Boxes, MailOK',
         \/ CreateNetworkServer(n) \/ CreateNetworkClient(n) \/ Build(n)
         \/ Fail(n, "server") \/ Fail(n, "client")
         \/ (\E t \in Tasks : CreateTask(n, t)) \/ RefuseTask(n)
  PROVE  TypeInv'
  <1>a. /\ nets \in [Nodes -> Network \cup {NoRec}] /\ db \in [Nodes -> Network \cup {NoRec}]
        /\ held \in [Nodes -> Network \cup {NoRec}] /\ dev \in [Nodes -> Vnis \cup {NoDevice}]
        /\ task \in [Tasks -> Nodes \cup {"new", "gone"}]
        /\ pc \in [Nodes -> {"idle", "server", "client", "join"}]
        /\ nvni \in 0 .. MaxVni /\ nfaults \in 0 .. MaxFaults
        /\ missed \subseteq Nodes \X Tasks /\ raced \subseteq Nodes
    BY DEF TypeInv, TypeOK
  <1>b. \A k, s \in Nodes : inbox'[k][s] \in Seq(Message)
    BY DEF Boxes
  <1>1. CASE CreateNetworkServer(n)
    <2>1. CASE dev[n] = NoDevice
      <3>1. /\ nvni' = nvni + 1 /\ nvni + 1 \in Vnis /\ nvni' \in 0 .. MaxVni
            /\ dev' = [dev EXCEPT ![n] = nvni + 1] /\ pc' = [pc EXCEPT ![n] = "server"]
            /\ held' = [held EXCEPT ![n] = [owner |-> n, vni |-> nvni + 1, members |-> {}, native |-> TRUE]]
            /\ UNCHANGED <<nets, db, raced, task, nfaults, missed>>
        BY <1>1, <1>a, <2>1 DEF CreateNetworkServer, Goto, VniLeft, Vnis
      <3>2. [owner |-> n, vni |-> nvni + 1, members |-> {}, native |-> TRUE] \in Network
        BY <3>1 DEF Network
      <3>3. TypeOK'
        BY <1>a, <1>b, <3>1, <3>2 DEF TypeOK
      <3>4. Threads'
        BY <1>a, <3>1, <3>2 DEF TypeInv, Threads, Info, Known
      <3> QED BY <3>3, <3>4 DEF TypeInv
    <2>2. CASE dev[n] # NoDevice
      <3>1. dev' = [dev EXCEPT ![n] = NoDevice] /\ UNCHANGED <<nvni, held, pc, nets, db, raced, task, nfaults, missed>>
        BY <1>1, <2>2 DEF CreateNetworkServer
      <3>2. TypeOK'
        BY <1>a, <1>b, <3>1 DEF TypeOK
      <3>3. Threads'
        BY <1>a, <3>1 DEF TypeInv, Threads, Info, Known
      <3> QED BY <3>2, <3>3 DEF TypeInv
    <2> QED BY <2>1, <2>2
  <1>2. CASE CreateNetworkClient(n)
    <2>1. /\ nets[n] \in Network /\ pc[n] = "idle"
          /\ \/ /\ nets[n].native \/ nets[n].owner = n
                /\ pc' = [pc EXCEPT ![n] = "join"] /\ UNCHANGED dev
             \/ /\ ~(nets[n].native \/ nets[n].owner = n)
                /\ \/ pc' = [pc EXCEPT ![n] = "client"] /\ dev' = [dev EXCEPT ![n] = nets[n].vni]
                   \/ dev' = [dev EXCEPT ![n] = NoDevice] /\ UNCHANGED pc
          /\ UNCHANGED <<nets, db, held, raced, task, nvni, nfaults, missed>>
      BY <1>2, <1>a DEF CreateNetworkClient, Goto, Known, bounds
    <2>2. nets[n].vni \in Vnis
      BY <2>1 DEF Network
    <2>3. TypeOK'
      BY <1>a, <1>b, <2>1, <2>2 DEF TypeOK
    <2>4. held[n] = NoRec => Info(n)' = nets[n]
      BY <2>1 DEF Info
    <2>5. Threads'
      BY <1>a, <2>1 DEF TypeInv, Threads, Info, Known
    <2> QED BY <2>3, <2>5 DEF TypeInv
  <1>3. CASE AnnounceNetwork(n)
    <2>1. /\ pc[n] = "server" /\ pc' = [pc EXCEPT ![n] = "idle"] /\ nets' = [nets EXCEPT ![n] = held[n]]
          /\ db' = [db EXCEPT ![n] = held[n]] /\ held' = [held EXCEPT ![n] = NoRec]
          /\ UNCHANGED <<dev, raced, task, nvni, nfaults>>
          /\ missed' \subseteq missed \cup ({n} \X (Tasks \cap Live))
      BY <1>3 DEF AnnounceNetwork, Goto, Miss, bounds
    <2>2. missed' \subseteq Nodes \X Tasks
      BY <1>a, <2>1
    <2>3. TypeOK'
      BY <1>a, <1>b, <2>1, <2>2 DEF TypeOK
    <2>4. Threads'
      BY <1>a, <2>1 DEF TypeInv, Threads, Info, Known
    <2> QED BY <2>3, <2>4 DEF TypeInv
  <1>4. CASE ClientReady(n)
    <2>1. /\ pc[n] = "client" /\ pc' = [pc EXCEPT ![n] = "join"] /\ db' = [db EXCEPT ![n] = Info(n)]
          /\ nets' = [nets EXCEPT ![n] = [Info(n) EXCEPT !.native = TRUE]]
          /\ held' = [held EXCEPT ![n] = NoRec]
          /\ UNCHANGED <<dev, raced, task, nvni, nfaults, missed>>
      BY <1>4 DEF ClientReady, Goto, Info, bounds
    <2>2. Info(n) \in Network
      BY <2>1 DEF TypeInv, Threads
    <2>3. [Info(n) EXCEPT !.native = TRUE] \in Network
      BY <2>2 DEF Network
    <2> HIDE DEF Info
    <2>4. TypeOK'
      BY <1>a, <1>b, <2>1, <2>2, <2>3 DEF TypeOK
    <2>5. Threads'
      BY <1>a, <2>1 DEF TypeInv, Threads, Info, Known
    <2> QED BY <2>4, <2>5 DEF TypeInv
  <1>5. CASE Fail(n, "server") \/ Fail(n, "client")
    <2>1. /\ pc' = [pc EXCEPT ![n] = "idle"] /\ dev' = [dev EXCEPT ![n] = NoDevice] /\ held' = [held EXCEPT ![n] = NoRec]
          /\ UNCHANGED <<nets, db, raced, task, nvni, nfaults, missed>>
      BY <1>5 DEF Fail, Goto, bounds
    <2>2. TypeOK'
      BY <1>a, <1>b, <2>1 DEF TypeOK
    <2>3. Threads'
      BY <1>a, <2>1 DEF TypeInv, Threads, Info, Known
    <2> QED BY <2>2, <2>3 DEF TypeInv
  <1>6. CASE (\E t \in Tasks : CreateTask(n, t)) \/ RefuseTask(n)
    <2>1. /\ pc[n] = "join" /\ pc' = [pc EXCEPT ![n] = "idle"]
          /\ UNCHANGED <<nets, db, dev, held, raced, nvni, nfaults, missed>>
          /\ UNCHANGED task \/ \E t \in Tasks : task' = [task EXCEPT ![t] = n]
      BY <1>6 DEF CreateTask, RefuseTask, Goto, table, bounds
    <2>2. TypeOK'
      BY <1>a, <1>b, <2>1 DEF TypeOK
    <2>3. Threads'
      BY <1>a, <2>1 DEF TypeInv, Threads, Info, Known
    <2> QED BY <2>2, <2>3 DEF TypeInv
  <1> QED BY <1>1, <1>2, <1>3, <1>4, <1>5, <1>6 DEF Build

\* The table without the network, or with another record of it.
LEMMA TableTypes ==
  ASSUME TypeInv, NEW n \in Nodes, UNCHANGED pc,
         \/ Known(n) /\ Remove(n)
         \/ /\ UNCHANGED dev /\ Keep(n) /\ raced' \subseteq raced
            /\ \E info \in Network : /\ info.owner # n
                                     /\ nets' = [nets EXCEPT ![n] = info] /\ db' = [db EXCEPT ![n] = info]
  PROVE  /\ nets' \in [Nodes -> Network \cup {NoRec}] /\ db' \in [Nodes -> Network \cup {NoRec}]
         /\ held' \in [Nodes -> Network \cup {NoRec}] /\ dev' \in [Nodes -> Vnis \cup {NoDevice}]
         /\ raced' \subseteq Nodes /\ Threads'
  <1>a. /\ nets \in [Nodes -> Network \cup {NoRec}] /\ db \in [Nodes -> Network \cup {NoRec}]
        /\ held \in [Nodes -> Network \cup {NoRec}] /\ dev \in [Nodes -> Vnis \cup {NoDevice}]
        /\ raced \subseteq Nodes /\ pc \in [Nodes -> {"idle", "server", "client", "join"}]
    BY DEF TypeInv, TypeOK
  <1>1. held' = [held EXCEPT ![n] = IF pc[n] = "client" THEN Info(n) ELSE held[n]]
    BY <1>a DEF Remove, Keep, Info
  <1>2. /\ nets' \in [Nodes -> Network \cup {NoRec}] /\ db' \in [Nodes -> Network \cup {NoRec}]
        /\ dev' \in [Nodes -> Vnis \cup {NoDevice}] /\ raced' \subseteq Nodes
        /\ nets'[n] # NoRec => nets'[n].owner # n
        /\ \A k \in Nodes \ {n} : nets'[k] = nets[k]
    BY <1>a DEF Remove
  <1>3. pc[n] = "client" => Info(n) \in Network /\ Info(n).owner # n
    BY DEF TypeInv, Threads
  <1>4. held' \in [Nodes -> Network \cup {NoRec}]
    BY <1>1, <1>3, <1>a
  <1>5. ASSUME NEW k \in Nodes
        PROVE  /\ pc'[k] = "server" => held'[k] \in Network /\ held'[k].owner = k /\ held'[k].members = {}
               /\ pc'[k] = "client" => Info(k)' \in Network /\ Info(k)'.owner # k
               /\ pc'[k] = "client" /\ Known(k)' => nets'[k].owner # k
               /\ pc'[k] \in {"idle", "join"} => held'[k] = NoRec
    <2>1. CASE k = n
      <3>1. pc[n] = "client" => held'[n] = Info(n) /\ held'[n] # NoRec
        BY <1>1, <1>3, <1>a
      <3>2. pc[n] = "client" => Info(n)' = held'[n]
        BY <3>1 DEF Info
      <3>3. pc[n] # "client" => held'[n] = held[n]
        BY <1>1, <1>a
      <3> QED BY <1>2, <1>3, <2>1, <3>1, <3>2, <3>3 DEF TypeInv, Threads, Known
    <2>2. CASE k # n
      <3>1. held'[k] = held[k] /\ nets'[k] = nets[k] /\ Info(k)' = Info(k)
        BY <1>1, <1>2, <1>a, <2>2 DEF Info
      <3> QED BY <3>1 DEF TypeInv, Threads, Known
    <2> QED BY <2>1, <2>2
  <1>6. Threads'
    BY <1>5 DEF Threads
  <1> QED BY <1>2, <1>4, <1>6

\* A step that leaves the request thread where it is, its queue aside.
LEMMA FrameTypes ==
  ASSUME TypeInv, inbox' \in Boxes, MailOK', UNCHANGED pc,
         nets' \in [Nodes -> Network \cup {NoRec}], db' \in [Nodes -> Network \cup {NoRec}],
         held' \in [Nodes -> Network \cup {NoRec}], dev' \in [Nodes -> Vnis \cup {NoDevice}],
         raced' \subseteq Nodes, Threads',
         task' \in [Tasks -> Nodes \cup {"new", "gone"}],
         nvni' = nvni, nfaults' \in 0 .. MaxFaults, missed' \subseteq Nodes \X Tasks
  PROVE  TypeInv'
  <1>1. \A k, s \in Nodes : inbox'[k][s] \in Seq(Message)
    BY DEF Boxes
  <1>2. TypeOK'
    BY <1>1 DEF TypeInv, TypeOK
  <1> QED BY <1>2 DEF TypeInv

LEMMA ThreadsStay ==
  ASSUME TypeInv, UNCHANGED <<nets, held, pc>> PROVE Threads'
  BY DEF TypeInv, Threads, Info, Known

\* The members of a record change.
LEMMA MembersTypes ==
  ASSUME TypeInv, NEW n \in Nodes, Known(n), NEW ms \in SUBSET Tasks, SetMembers(n, ms), UNCHANGED <<held, pc>>
  PROVE  /\ nets' \in [Nodes -> Network \cup {NoRec}] /\ db' \in [Nodes -> Network \cup {NoRec}]
         /\ Threads'
         /\ nets'[n] = [nets[n] EXCEPT !.members = ms] /\ db'[n] = nets'[n] /\ nets[n] \in Network
         /\ nets'[n].owner = nets[n].owner /\ nets'[n].vni = nets[n].vni /\ nets'[n].members = ms
         /\ nets'[n].native = nets[n].native /\ nets'[n] # NoRec
         /\ \A k \in Nodes \ {n} : nets'[k] = nets[k] /\ db'[k] = db[k]
  <1>a. /\ nets \in [Nodes -> Network \cup {NoRec}] /\ db \in [Nodes -> Network \cup {NoRec}] /\ nets[n] \in Network
    BY DEF TypeInv, TypeOK, Known
  <1>1. [nets[n] EXCEPT !.members = ms] \in Network
    BY <1>a DEF Network
  <1>2. /\ nets' = [nets EXCEPT ![n] = [nets[n] EXCEPT !.members = ms]]
        /\ db' = [db EXCEPT ![n] = [nets[n] EXCEPT !.members = ms]]
    BY <1>a DEF SetMembers
  <1>3. /\ nets' \in [Nodes -> Network \cup {NoRec}] /\ db' \in [Nodes -> Network \cup {NoRec}]
        /\ nets'[n] = [nets[n] EXCEPT !.members = ms] /\ db'[n] = nets'[n]
        /\ \A k \in Nodes \ {n} : nets'[k] = nets[k] /\ db'[k] = db[k]
    BY <1>1, <1>2, <1>a
  <1>4. /\ nets'[n].owner = nets[n].owner /\ nets'[n].vni = nets[n].vni /\ nets'[n].members = ms
        /\ nets'[n].native = nets[n].native /\ nets'[n] # NoRec /\ nets'[n] \in Network
    BY <1>1, <1>3, <1>a DEF Network
  <1>5. Threads'
    <2>1. ASSUME NEW k \in Nodes, pc[k] = "client"
          PROVE  Info(k)' \in Network /\ Info(k)'.owner # k /\ (Known(k)' => nets'[k].owner # k)
      <3>1. CASE k = n
        BY <1>3, <1>4, <2>1, <3>1 DEF TypeInv, Threads, Info, Known
      <3>2. CASE k # n
        BY <1>3, <2>1, <3>2 DEF TypeInv, Threads, Info, Known
      <3> QED BY <3>1, <3>2
    <2> QED BY <2>1 DEF TypeInv, Threads
  <1> QED BY <1>3, <1>4, <1>5, <1>a

\* What dbc has not taken from its sockets dies with it.
LEMMA MuteMail ==
  ASSUME NEW box \in Boxes, NEW n \in Nodes
  PROVE  LET mute == [box EXCEPT ![n] = [s \in Nodes |-> <<>>]] IN
         /\ mute \in Boxes
         /\ \A k, s \in Nodes : Mails(mute, k, s) = IF k = n THEN {} ELSE Mails(box, k, s)
  <1> DEFINE mute == [box EXCEPT ![n] = [s \in Nodes |-> <<>>]]
  <1>1. mute \in Boxes
    BY DEF Boxes
  <1>2. \A k, s \in Nodes : mute[k][s] = IF k = n THEN <<>> ELSE box[k][s]
    BY DEF Boxes
  <1> HIDE DEF mute
  <1>3. ASSUME NEW k \in Nodes, NEW s \in Nodes
        PROVE  Mails(mute, k, s) = IF k = n THEN {} ELSE Mails(box, k, s)
    <2>1. CASE k = n
      <3>1. mute[k][s] = <<>>
        BY <1>2, <2>1
      <3> QED BY <2>1, <3>1 DEF Mails
    <2>2. CASE k # n
      <3>1. mute[k][s] = box[k][s]
        BY <1>2, <2>2
      <3> QED BY <2>2, <3>1 DEF Mails
    <2> QED BY <2>1, <2>2
  <1> QED BY <1>1, <1>3 DEF mute

\* The inboxes after a restart of n.
LEMMA RestartMail ==
  ASSUME TypeInv, NEW n \in Nodes, Restart(n)
  PROVE  /\ inbox' \in Boxes /\ MailOK'
         /\ \A k \in Nodes \ {n}, s \in Nodes : Mails(inbox, k, s) \subseteq Mails(inbox', k, s)
  <1> DEFINE mute == [inbox EXCEPT ![n] = [s \in Nodes |-> <<>>]]
             m == Msg("query", NoRec, NoTask)
  <1>1. /\ mute \in Boxes
        /\ \A k, s \in Nodes : Mails(mute, k, s) = IF k = n THEN {} ELSE Mails(inbox, k, s)
    BY MuteMail DEF TypeInv
  <1>2. inbox' \in {mute, Sent(mute, n, m)} /\ UNCHANGED task
    BY DEF Restart
  <1> HIDE DEF mute
  <1>3. m \in Message /\ m.type = "query"
    BY Messages
  <1> HIDE DEF m
  <1>4. /\ Sent(mute, n, m) \in Boxes
        /\ \A k, s \in Nodes :
             /\ Mails(mute, k, s) \subseteq Mails(Sent(mute, n, m), k, s)
             /\ Mails(Sent(mute, n, m), k, s) \subseteq Mails(mute, k, s) \cup {m}
    BY <1>1, <1>3, SentMail
  <1>5. \A k, s \in Nodes :
          /\ Mails(mute, k, s) \subseteq Mails(inbox', k, s)
          /\ Mails(inbox', k, s) \subseteq Mails(mute, k, s) \cup {m}
    BY <1>2, <1>4
  <1>6. ASSUME NEW k \in Nodes, NEW s \in Nodes, NEW x \in Mails(inbox', k, s)
        PROVE  Good(task', k, s, x)
    <2>1. CASE x = m
      BY <1>3, <2>1 DEF Good
    <2>2. CASE x \in Mails(inbox, k, s)
      BY <1>2, <2>2, GoodStays DEF TypeInv, MailOK
    <2> QED BY <1>1, <1>5, <2>1, <2>2
  <1>7. MailOK'
    BY <1>6 DEF MailOK
  <1> QED BY <1>1, <1>2, <1>4, <1>5, <1>7

\* Every step keeps the types.
LEMMA NextTypes == TypeInv /\ [Next]_vars => TypeInv'
  <1> SUFFICES ASSUME TypeInv, [Next]_vars PROVE TypeInv'
    OBVIOUS
  <1>a. /\ nets \in [Nodes -> Network \cup {NoRec}] /\ db \in [Nodes -> Network \cup {NoRec}]
        /\ held \in [Nodes -> Network \cup {NoRec}] /\ dev \in [Nodes -> Vnis \cup {NoDevice}]
        /\ task \in [Tasks -> Nodes \cup {"new", "gone"}]
        /\ pc \in [Nodes -> {"idle", "server", "client", "join"}]
        /\ nvni \in 0 .. MaxVni /\ nfaults \in 0 .. MaxFaults
        /\ missed \subseteq Nodes \X Tasks /\ raced \subseteq Nodes /\ inbox \in Boxes /\ MailOK /\ Threads
    BY DEF TypeInv, TypeOK
  <1>b. ASSUME NEW n \in Nodes, NEW ts, Miss(n, ts) PROVE missed' \subseteq Nodes \X Tasks
    BY <1>a, <1>b DEF Miss, Live
  <1>c. /\ UNCHANGED <<nets, held, pc>> => Threads'
        /\ UNCHANGED <<inbox, task>> => inbox' \in Boxes /\ MailOK'
    <2>1. ASSUME UNCHANGED <<inbox, task>> PROVE inbox' \in Boxes /\ MailOK'
      BY <1>a, <2>1 DEF MailOK, Good
    <2> QED BY <2>1, ThreadsStay
  <1>1. CASE UNCHANGED vars
    BY <1>1, <1>a, <1>c, FrameTypes DEF vars
  <1>2. ASSUME NEW n \in Nodes,
               \/ CreateNetworkServer(n) \/ CreateNetworkClient(n) \/ ClientReady(n)
               \/ Fail(n, "server") \/ Fail(n, "client") \/ RefuseTask(n)
        PROVE  TypeInv'
    <2>1. UNCHANGED <<inbox, task>>
      BY <1>2 DEF CreateNetworkServer, CreateNetworkClient, ClientReady, Fail, RefuseTask
    <2> QED BY <1>2, <1>c, <2>1, RequestTypes DEF Build
  <1>3. ASSUME NEW n \in Nodes, AnnounceNetwork(n) PROVE TypeInv'
    <2> DEFINE m == Msg("create", held[n], NoTask)
    <2>1. held[n] \in Network /\ held[n].owner = n /\ inbox' = Sent(inbox, n, m) /\ UNCHANGED task
      BY <1>3 DEF AnnounceNetwork, TypeInv, Threads, Multicast
    <2>2. m \in Message /\ m.type = "create" /\ m.net = held[n]
      BY <2>1, Messages
    <2> HIDE DEF m
    <2>3. \A k \in Receivers(n, m) : k # n /\ Good(task', k, n, m)
      BY <2>1, <2>2 DEF Receivers, Good
    <2>4. inbox' \in Boxes /\ MailOK'
      BY <2>1, <2>2, <2>3, MulticastMail
    <2> QED BY <1>3, <2>4, RequestTypes DEF Build
  <1>4. ASSUME NEW n \in Nodes, NEW t \in Tasks, CreateTask(n, t) PROVE TypeInv'
    <2> DEFINE m == Msg("join", NoRec, t)
    <2>1. inbox' = Sent(inbox, n, m) /\ task[t] = "new" /\ task' = [task EXCEPT ![t] = n]
      BY <1>4 DEF CreateTask, Multicast
    <2>2. m \in Message /\ m.type = "join" /\ m.task = t
      BY Messages
    <2> HIDE DEF m
    <2>3. \A k \in Receivers(n, m) : Good(task', k, n, m)
      BY <2>2 DEF Good
    <2>4. \A u \in Tasks : task[u] = "gone" => task'[u] = "gone"
      BY <1>a, <2>1
    <2>5. inbox' \in Boxes /\ MailOK'
      BY <2>1, <2>2, <2>3, <2>4, MulticastMail
    <2> QED BY <1>4, <2>5, RequestTypes
  <1>5. ASSUME NEW t \in Tasks, DeleteTask(t) PROVE TypeInv'
    <2> DEFINE n == task[t]
               m == Msg("leave", NoRec, t)
    <2>1. /\ n \in Nodes /\ inbox' = Sent(inbox, n, m) /\ task' = [task EXCEPT ![t] = "gone"]
          /\ missed' \subseteq missed /\ UNCHANGED <<nets, db, dev, held, raced, pc, nvni, nfaults>>
      BY <1>5 DEF DeleteTask, Multicast, table, bounds
    <2>2. m \in Message /\ m.type = "leave" /\ m.task = t
      BY Messages
    <2> HIDE DEF m, n
    <2>3. \A k \in Receivers(n, m) : Good(task', k, n, m)
      BY <1>a, <2>1, <2>2 DEF Good
    <2>4. \A u \in Tasks : task[u] = "gone" => task'[u] = "gone"
      BY <1>a, <2>1
    <2>5. inbox' \in Boxes /\ MailOK'
      BY <2>1, <2>2, <2>3, <2>4, MulticastMail
    <2> QED BY <1>a, <1>c, <2>1, <2>5, FrameTypes
  <1>6. ASSUME NEW n \in Nodes, DeleteNetwork(n) PROVE TypeInv'
    <2> DEFINE m == Msg("delete", NoRec, NoTask)
    <2>1. /\ Known(n) /\ Remove(n) /\ inbox' = Sent(inbox, n, m)
          /\ UNCHANGED missed \/ Miss(n, Tasks)
          /\ UNCHANGED <<task, pc, nvni, nfaults>>
      BY <1>6 DEF DeleteNetwork, Multicast, bounds
    <2>2. m \in Message /\ m.type = "delete"
      BY Messages
    <2> HIDE DEF m
    <2>3. \A k \in Receivers(n, m) : Good(task', k, n, m)
      BY <2>2 DEF Good
    <2>4. inbox' \in Boxes /\ MailOK'
      BY <2>1, <2>2, <2>3, MulticastMail
    <2> QED BY <1>a, <1>b, <2>1, <2>4, TableTypes, FrameTypes
  <1>7. ASSUME NEW n \in Nodes, ClearExpiredNetwork(n) PROVE TypeInv'
    BY <1>7, <1>a, <1>b, <1>c, TableTypes, FrameTypes DEF ClearExpiredNetwork, bounds
  <1>8. ASSUME NEW n \in Nodes, ListTimer(n) PROVE TypeInv'
    <2> DEFINE m == Msg("list", nets[n], NoTask)
    <2>1. /\ nets[n] \in Network /\ nets[n].owner = n /\ inbox' = Sent(inbox, n, m)
          /\ UNCHANGED <<nets, db, dev, held, raced, task, pc, nvni, nfaults, missed>>
      BY <1>8, <1>a DEF ListTimer, Owns, Known, Multicast, table, bounds
    <2>2. m \in Message /\ m.type = "list" /\ m.net = nets[n]
      BY <2>1, Messages
    <2> HIDE DEF m
    <2>3. \A k \in Receivers(n, m) : Good(task', k, n, m)
      BY <2>1, <2>2 DEF Receivers, Good
    <2>4. inbox' \in Boxes /\ MailOK'
      BY <2>1, <2>2, <2>3, MulticastMail
    <2> QED BY <1>a, <1>c, <2>1, <2>4, FrameTypes
  <1>9. ASSUME NEW n \in Nodes, Restart(n) PROVE TypeInv'
    <2>1. inbox' \in Boxes /\ MailOK'
      BY <1>9, RestartMail
    <2>2. /\ nets' = [nets EXCEPT ![n] = db[n]] /\ held' = [held EXCEPT ![n] = NoRec]
          /\ pc' = [pc EXCEPT ![n] = "idle"] /\ nfaults' \in 0 .. MaxFaults
          /\ missed' \subseteq Nodes \X Tasks
          /\ UNCHANGED <<db, dev, raced, task, nvni>>
      BY <1>9, <1>a, <1>b DEF Restart, Goto
    <2>3. Threads'
      BY <1>a, <2>2 DEF Threads, Info, Known
    <2>4. \A k, s \in Nodes : inbox'[k][s] \in Seq(Message)
      BY <2>1 DEF Boxes
    <2>5. TypeOK'
      BY <1>a, <2>2, <2>4 DEF TypeOK
    <2> QED BY <2>1, <2>3, <2>5 DEF TypeInv
  <1>10. ASSUME NEW n \in Nodes, NEW s \in Nodes, OnMulticastReceive(n, s) \/ Lose(n, s) PROVE TypeInv'
    <2> DEFINE h == Head(inbox[n][s])
               after == [inbox EXCEPT ![n][s] = Tail(inbox[n][s])]
    <2>a. ASSUME inbox[n][s] # <<>>, inbox' = after, UNCHANGED task
          PROVE  inbox' \in Boxes /\ MailOK' /\ h \in Message /\ Good(task, n, s, h)
      BY <2>a, ReceiveMail
    <2>1. CASE AddNetworkFromMulticast(n, s)
      <3>1. /\ inbox[n][s] # <<>> /\ inbox' = after /\ h.type \in {"create", "list"}
            /\ UNCHANGED <<dev, task, pc, nvni, nfaults>>
            /\ \/ UNCHANGED <<nets, db, held, raced, missed>>
               \/ Replace(n, [h.net EXCEPT !.native = FALSE])
        BY <2>1 DEF AddNetworkFromMulticast, Receive, bounds
      <3>2. inbox' \in Boxes /\ MailOK' /\ h.net \in Network /\ h.net.owner = s /\ s # n
        BY <2>a, <3>1 DEF Good
      <3> HIDE DEF h, after
      <3>3. [h.net EXCEPT !.native = FALSE] \in Network /\ [h.net EXCEPT !.native = FALSE].owner # n
        BY <3>2 DEF Network
      <3>4. CASE UNCHANGED <<nets, db, held, raced, missed>>
        BY <1>a, <1>c, <3>1, <3>2, <3>4, FrameTypes
      <3>5. CASE Replace(n, [h.net EXCEPT !.native = FALSE])
        <4> DEFINE info == [h.net EXCEPT !.native = FALSE]
        <4>1. /\ nets' = [nets EXCEPT ![n] = info] /\ db' = [db EXCEPT ![n] = info] /\ Keep(n)
              /\ raced' \subseteq raced
              /\ UNCHANGED missed \/ Miss(n, Tasks)
          BY <3>5 DEF Replace
        <4>2. info \in Network /\ info.owner # n
          BY <3>3
        <4> HIDE DEF info
        <4> QED BY <1>a, <1>b, <3>1, <3>2, <4>1, <4>2, TableTypes, FrameTypes
      <3> QED BY <3>1, <3>4, <3>5
    <2>2. CASE DeleteNetworkFromMulticast(n, s)
      <3>1. /\ inbox[n][s] # <<>> /\ inbox' = after /\ UNCHANGED <<task, pc, nvni, nfaults>>
            /\ \/ Known(n) /\ Remove(n) /\ Miss(n, Tasks)
               \/ UNCHANGED <<nets, db, dev, held, raced, missed>>
        BY <2>2 DEF DeleteNetworkFromMulticast, Receive, table, bounds
      <3>2. inbox' \in Boxes /\ MailOK'
        BY <2>a, <3>1
      <3> HIDE DEF h, after
      <3>3. CASE Known(n) /\ Remove(n) /\ Miss(n, Tasks)
        BY <1>a, <1>b, <3>1, <3>2, <3>3, TableTypes, FrameTypes
      <3>4. CASE UNCHANGED <<nets, db, dev, held, raced, missed>>
        BY <1>a, <1>c, <3>1, <3>2, <3>4, FrameTypes
      <3> QED BY <3>1, <3>3, <3>4
    <2>3. CASE JoinNetwork(n, s) \/ LeaveNetwork(n, s)
      <3>1. /\ inbox[n][s] # <<>> /\ inbox' = after /\ h.type \in {"join", "leave"}
            /\ UNCHANGED <<dev, held, raced, task, pc, nvni, nfaults>>
            /\ UNCHANGED missed \/ Miss(n, {h.task})
            /\ \/ UNCHANGED <<nets, db>>
               \/ Known(n) /\ SetMembers(n, nets[n].members \cup {h.task})
               \/ Known(n) /\ SetMembers(n, nets[n].members \ {h.task})
        BY <2>3 DEF JoinNetwork, LeaveNetwork, Receive, bounds
      <3>2. inbox' \in Boxes /\ MailOK' /\ h.task \in Tasks
        BY <2>a, <3>1 DEF Good
      <3> HIDE DEF h, after
      <3>3. missed' \subseteq Nodes \X Tasks
        BY <1>a, <1>b, <3>1
      <3>4. CASE UNCHANGED <<nets, db>>
        BY <1>a, <1>c, <3>1, <3>2, <3>3, <3>4, FrameTypes
      <3>5. ASSUME Known(n), NEW ms \in SUBSET Tasks, SetMembers(n, ms) PROVE TypeInv'
        BY <1>a, <3>1, <3>2, <3>3, <3>5, MembersTypes, FrameTypes
      <3>6. Known(n) => nets[n].members \subseteq Tasks
        BY <1>a DEF Known, Network
      <3> QED BY <3>1, <3>2, <3>4, <3>5, <3>6
    <2>4. CASE OnQuery(n, s)
      <3>1. /\ inbox[n][s] # <<>> /\ UNCHANGED <<nets, db, dev, held, raced, task, pc, nvni, nfaults, missed>>
            /\ inbox' = after \/ (Owns(n) /\ inbox' = Sent(after, n, Msg("list", nets[n], NoTask)))
        BY <2>4 DEF OnQuery, table, bounds
      <3>2. inbox' \in Boxes /\ MailOK'
        <4>1. CASE inbox' = after
          BY <2>a, <3>1, <4>1
        <4>2. CASE Owns(n) /\ inbox' = Sent(after, n, Msg("list", nets[n], NoTask))
          <5> DEFINE m == Msg("list", nets[n], NoTask)
          <5>1. nets[n] \in Network /\ nets[n].owner = n
            BY <1>a, <4>2 DEF Owns, Known
          <5>2. m \in Message /\ m.type = "list" /\ m.net = nets[n]
            BY <5>1, Messages
          <5> HIDE DEF m
          <5>3. \A k \in Receivers(n, m) : Good(task', k, n, m)
            BY <5>1, <5>2 DEF Receivers, Good
          <5>4. /\ after \in Boxes /\ after[n][s] = Tail(inbox[n][s])
                /\ \A k, r \in Nodes : (k # n \/ r # s) => after[k][r] = inbox[k][r]
            <6>1. inbox[n][s] \in Seq(Message)
              BY <1>a DEF Boxes
            <6> QED BY <1>a, <3>1, <6>1 DEF Boxes
          <5> HIDE DEF h, after
          <5>5. \A k, r \in Nodes : Mails(after, k, r) \subseteq Mails(inbox, k, r)
            <6>1. /\ \A k, r \in Nodes : (k # n \/ r # s) => Mails(after, k, r) = Mails(inbox, k, r)
                  /\ Mails(after, n, s) \subseteq Mails(inbox, n, s)
              BY <1>a, <3>1, <5>4, TailMail
            <6> QED BY <6>1
          <5>6. /\ inbox' \in Boxes
                /\ \A k, r \in Nodes :
                     Mails(inbox', k, r) = Mails(after, k, r) \cup (IF r = n /\ k \in Receivers(n, m) THEN {m} ELSE {})
            BY <4>2, <5>2, <5>4, SentMail DEF m
          <5>7. ASSUME NEW k \in Nodes, NEW r \in Nodes, NEW x \in Mails(inbox', k, r) PROVE Good(task', k, r, x)
            <6>1. CASE x \in Mails(inbox, k, r)
              BY <1>a, <3>1, <6>1, GoodStays DEF MailOK
            <6>2. CASE r = n /\ k \in Receivers(n, m) /\ x = m
              BY <5>3, <6>2
            <6> QED BY <5>5, <5>6, <6>1, <6>2
          <5> QED BY <5>6, <5>7 DEF MailOK
        <4> QED BY <3>1, <4>1, <4>2
      <3> HIDE DEF h, after
      <3> QED BY <1>a, <1>c, <3>1, <3>2, FrameTypes
    <2>5. CASE Lose(n, s)
      <3>1. /\ inbox[n][s] # <<>> /\ inbox' = after /\ UNCHANGED <<nets, db, dev, held, raced, task, pc, nvni>>
            /\ nfaults' \in 0 .. MaxFaults /\ Miss(n, {h.task})
        BY <1>a, <2>5 DEF Lose, table
      <3>2. inbox' \in Boxes /\ MailOK'
        BY <2>a, <3>1
      <3> HIDE DEF h, after
      <3> QED BY <1>a, <1>b, <1>c, <3>1, <3>2, FrameTypes
    <2> HIDE DEF h, after
    <2> QED BY <1>10, <2>1, <2>2, <2>3, <2>4, <2>5 DEF OnMulticastReceive
  <1> QED BY <1>1, <1>2, <1>3, <1>4, <1>5, <1>6, <1>7, <1>8, <1>9, <1>10
          DEF Next, Build, DeleteRequest, ClearEmptyNetwork

\* Every reachable state has its types.
THEOREM TypeCorrect == Spec => []TypeOK
  <1>1. TypeInv => TypeOK
    BY DEF TypeInv
  <1> QED BY <1>1, InitTypes, NextTypes, PTL DEF Spec

-----------------------------------------------------------------------------
(***************************************************************************)
(* Devices.  network.db lags behind the table by the flag alone, so that a *)
(* restart brings back nothing else; while the request thread builds the   *)
(* device of the record it holds, no record in the table is flagged.       *)
(***************************************************************************)
Saved(n) ==
  /\ Known(n) <=> db[n] # NoRec
  /\ Known(n) => /\ db[n].owner = nets[n].owner /\ db[n].vni = nets[n].vni
                 /\ db[n].members = nets[n].members
                 /\ (db[n].native => nets[n].native)

DeviceOf(n) ==
  /\ Saved(n)
  /\ Building(n) /\ Known(n) => ~nets[n].native
  /\ n \notin raced =>
       /\ pc[n] = "server" => dev[n] = held[n].vni
       /\ pc[n] = "client" => dev[n] = Info(n).vni
       /\ Known(n) /\ nets[n].native => dev[n] = nets[n].vni

DeviceInv == \A n \in Nodes : DeviceOf(n)

LEMMA InitDevice == Init => DeviceInv
  BY DEF Init, DeviceInv, DeviceOf, Saved, Known, Building

\* A step changes the table of one node.
LEMMA OtherDevice ==
  ASSUME DeviceInv, NEW n \in Nodes, DeviceOf(n)',
         \A k \in Nodes \ {n} : /\ nets'[k] = nets[k] /\ db'[k] = db[k] /\ dev'[k] = dev[k]
                                /\ held'[k] = held[k] /\ pc'[k] = pc[k] /\ (k \in raced' <=> k \in raced)
  PROVE  DeviceInv'
  BY DEF DeviceInv, DeviceOf, Saved, Known, Building, Info

\* The network is removed, also under the request thread.
LEMMA RemoveDevice ==
  ASSUME TypeInv, DeviceInv, NEW n \in Nodes, Known(n), Remove(n), UNCHANGED pc
  PROVE  DeviceInv'
  <1>1. /\ nets'[n] = NoRec /\ db'[n] = NoRec /\ (Building(n) => n \in raced')
        /\ \A k \in Nodes \ {n} : /\ nets'[k] = nets[k] /\ db'[k] = db[k] /\ dev'[k] = dev[k]
                                  /\ held'[k] = held[k] /\ pc'[k] = pc[k] /\ (k \in raced' <=> k \in raced)
    BY DEF Remove, Keep, TypeInv, TypeOK
  <1>2. DeviceOf(n)'
    BY <1>1 DEF DeviceOf, Saved, Known, Building
  <1> QED BY <1>1, <1>2, OtherDevice

LEMMA NextDevice == TypeInv /\ DeviceInv /\ [Next]_vars => DeviceInv'
  <1> SUFFICES ASSUME TypeInv, DeviceInv, [Next]_vars PROVE DeviceInv'
    OBVIOUS
  <1>a. /\ nets \in [Nodes -> Network \cup {NoRec}] /\ db \in [Nodes -> Network \cup {NoRec}]
        /\ held \in [Nodes -> Network \cup {NoRec}] /\ dev \in [Nodes -> Vnis \cup {NoDevice}]
        /\ pc \in [Nodes -> {"idle", "server", "client", "join"}] /\ raced \subseteq Nodes /\ Threads
    BY DEF TypeInv, TypeOK
  <1>b. ASSUME UNCHANGED <<nets, db, dev, held, raced, pc>> PROVE DeviceInv'
    BY <1>b DEF DeviceInv, DeviceOf, Saved, Known, Building, Info
  <1>1. CASE UNCHANGED vars \/ \E t \in Tasks : DeleteTask(t)
    BY <1>1, <1>b DEF vars, DeleteTask, table
  <1>2. ASSUME NEW n \in Nodes, ListTimer(n) \/ (\E s \in Nodes : OnQuery(n, s) \/ Lose(n, s)) PROVE DeviceInv'
    BY <1>2, <1>b DEF ListTimer, OnQuery, Lose, table
  <1>3. ASSUME NEW n \in Nodes, CreateNetworkServer(n) PROVE DeviceInv'
    <2>1. /\ pc[n] = "idle" /\ ~Known(n) /\ UNCHANGED <<nets, db, raced>>
          /\ \/ /\ dev' = [dev EXCEPT ![n] = nvni + 1] /\ pc' = [pc EXCEPT ![n] = "server"]
                /\ held' = [held EXCEPT ![n] = [owner |-> n, vni |-> nvni + 1, members |-> {}, native |-> TRUE]]
             \/ dev' = [dev EXCEPT ![n] = NoDevice] /\ UNCHANGED <<held, pc>>
      BY <1>3 DEF CreateNetworkServer, Goto
    <2>2. DeviceOf(n)'
      BY <1>a, <2>1 DEF DeviceInv, DeviceOf, Saved, Known, Building
    <2> QED BY <1>a, <2>1, <2>2, OtherDevice
  <1>4. ASSUME NEW n \in Nodes, CreateNetworkClient(n) PROVE DeviceInv'
    <2>1. /\ pc[n] = "idle" /\ Known(n) /\ UNCHANGED <<nets, db, held, raced>>
          /\ \/ pc' = [pc EXCEPT ![n] = "join"] /\ UNCHANGED dev
             \/ /\ ~nets[n].native
                /\ \/ pc' = [pc EXCEPT ![n] = "client"] /\ dev' = [dev EXCEPT ![n] = nets[n].vni]
                   \/ dev' = [dev EXCEPT ![n] = NoDevice] /\ UNCHANGED pc
      BY <1>4 DEF CreateNetworkClient, Goto
    <2>2. held[n] = NoRec
      BY <1>a, <2>1 DEF Threads
    <2>3. Saved(n)' /\ (n \notin raced /\ nets[n].native => dev[n] = nets[n].vni)
      BY <1>a, <2>1 DEF DeviceInv, DeviceOf, Saved, Known
    <2>4. CASE pc' = [pc EXCEPT ![n] = "join"] /\ UNCHANGED dev
      BY <1>a, <2>1, <2>3, <2>4, OtherDevice DEF DeviceOf, Known, Building
    <2>5. CASE ~nets[n].native /\ pc' = [pc EXCEPT ![n] = "client"] /\ dev' = [dev EXCEPT ![n] = nets[n].vni]
      <3>1. Info(n)' = nets[n] /\ pc'[n] = "client" /\ dev'[n] = nets[n].vni
        BY <1>a, <2>1, <2>2, <2>5 DEF Info
      <3>2. DeviceOf(n)'
        BY <2>1, <2>3, <2>5, <3>1 DEF DeviceOf, Known, Building
      <3> QED BY <1>a, <2>1, <2>5, <3>2, OtherDevice
    <2>6. CASE ~nets[n].native /\ dev' = [dev EXCEPT ![n] = NoDevice] /\ UNCHANGED pc
      <3>1. DeviceOf(n)'
        BY <2>1, <2>3, <2>6 DEF DeviceOf, Known, Building
      <3> QED BY <1>a, <2>1, <2>6, <3>1, OtherDevice
    <2> QED BY <2>1, <2>4, <2>5, <2>6
  <1>5. ASSUME NEW n \in Nodes, AnnounceNetwork(n) PROVE DeviceInv'
    <2>1. /\ pc[n] = "server" /\ pc' = [pc EXCEPT ![n] = "idle"] /\ nets' = [nets EXCEPT ![n] = held[n]]
          /\ db' = [db EXCEPT ![n] = held[n]] /\ held' = [held EXCEPT ![n] = NoRec] /\ UNCHANGED <<dev, raced>>
      BY <1>5 DEF AnnounceNetwork, Goto
    <2>2. DeviceOf(n)'
      BY <1>a, <2>1 DEF DeviceInv, DeviceOf, Saved, Known, Building
    <2> QED BY <1>a, <2>1, <2>2, OtherDevice
  <1>6. ASSUME NEW n \in Nodes, ClientReady(n) PROVE DeviceInv'
    <2>1. /\ pc[n] = "client" /\ pc' = [pc EXCEPT ![n] = "join"] /\ db' = [db EXCEPT ![n] = Info(n)]
          /\ nets' = [nets EXCEPT ![n] = [Info(n) EXCEPT !.native = TRUE]]
          /\ held' = [held EXCEPT ![n] = NoRec] /\ UNCHANGED <<dev, raced>>
      BY <1>6 DEF ClientReady, Goto, Info
    <2>2. Info(n) \in Network
      BY <1>a, <2>1 DEF Threads
    <2> DEFINE new == [Info(n) EXCEPT !.native = TRUE]
    <2>3. /\ new \in Network /\ new.owner = Info(n).owner /\ new.vni = Info(n).vni
          /\ new.members = Info(n).members /\ new.native
      BY <2>2 DEF Network
    <2>4. n \notin raced => dev[n] = Info(n).vni
      BY <2>1 DEF DeviceInv, DeviceOf
    <2> HIDE DEF new, Info
    <2>5. /\ nets'[n] = new /\ db'[n] = Info(n) /\ pc'[n] = "join"
          /\ \A k \in Nodes \ {n} : nets'[k] = nets[k] /\ db'[k] = db[k] /\ held'[k] = held[k] /\ pc'[k] = pc[k]
      BY <1>a, <2>1 DEF new
    <2>6. DeviceOf(n)'
      BY <2>1, <2>2, <2>3, <2>4, <2>5 DEF DeviceOf, Saved, Known, Building
    <2> QED BY <2>1, <2>5, <2>6, OtherDevice
  <1>7. ASSUME NEW n \in Nodes, Fail(n, "server") \/ Fail(n, "client") PROVE DeviceInv'
    <2>1. /\ Building(n) /\ pc' = [pc EXCEPT ![n] = "idle"] /\ dev' = [dev EXCEPT ![n] = NoDevice]
          /\ held' = [held EXCEPT ![n] = NoRec] /\ UNCHANGED <<nets, db, raced>>
      BY <1>7 DEF Fail, Goto, Building
    <2>2. DeviceOf(n)'
      BY <1>a, <2>1 DEF DeviceInv, DeviceOf, Saved, Known, Building
    <2> QED BY <1>a, <2>1, <2>2, OtherDevice
  <1>8. ASSUME NEW n \in Nodes, RefuseTask(n) \/ \E t \in Tasks : CreateTask(n, t) PROVE DeviceInv'
    <2>1. pc[n] = "join" /\ pc' = [pc EXCEPT ![n] = "idle"] /\ UNCHANGED <<nets, db, dev, held, raced>>
      BY <1>8 DEF RefuseTask, CreateTask, Goto, table
    <2>2. DeviceOf(n)'
      BY <1>a, <2>1 DEF DeviceInv, DeviceOf, Saved, Known, Building
    <2> QED BY <1>a, <2>1, <2>2, OtherDevice
  <1>9. ASSUME NEW n \in Nodes, DeleteNetwork(n) \/ ClearExpiredNetwork(n) PROVE DeviceInv'
    BY <1>9, RemoveDevice DEF DeleteNetwork, ClearExpiredNetwork
  <1>10. ASSUME NEW n \in Nodes, Restart(n) PROVE DeviceInv'
    <2>1. /\ nets' = [nets EXCEPT ![n] = db[n]] /\ held' = [held EXCEPT ![n] = NoRec]
          /\ pc' = [pc EXCEPT ![n] = "idle"] /\ UNCHANGED <<db, dev, raced>>
      BY <1>10 DEF Restart, Goto
    <2>2. DeviceOf(n)'
      BY <1>a, <2>1 DEF DeviceInv, DeviceOf, Saved, Known, Building
    <2> QED BY <1>a, <2>1, <2>2, OtherDevice
  <1>11. ASSUME NEW n \in Nodes, NEW s \in Nodes, AddNetworkFromMulticast(n, s) PROVE DeviceInv'
    <2> DEFINE info == [Head(inbox[n][s]).net EXCEPT !.native = FALSE]
    <2>1. /\ UNCHANGED <<dev, pc, task>> /\ inbox[n][s] # <<>> /\ Head(inbox[n][s]).type \in {"create", "list"}
          /\ inbox' = [inbox EXCEPT ![n][s] = Tail(inbox[n][s])]
          /\ UNCHANGED <<nets, db, held, raced>> \/ Replace(n, info)
      BY <1>11 DEF AddNetworkFromMulticast, Receive
    <2>2. Head(inbox[n][s]).net \in Network
      BY <2>1, ReceiveMail DEF Good
    <2>3. info \in Network /\ ~info.native
      BY <2>2 DEF Network
    <2> HIDE DEF info
    <2>4. CASE Replace(n, info)
      <3>1. /\ nets'[n] = info /\ db'[n] = info /\ (Building(n) => (n \in raced' <=> n \in raced))
            /\ held'[n] = IF pc[n] = "client" THEN Info(n) ELSE held[n]
            /\ \A k \in Nodes \ {n} : /\ nets'[k] = nets[k] /\ db'[k] = db[k] /\ dev'[k] = dev[k]
                                      /\ held'[k] = held[k] /\ pc'[k] = pc[k] /\ (k \in raced' <=> k \in raced)
        BY <1>a, <2>1, <2>4 DEF Replace, Keep, Info
      <3>2. pc[n] = "client" => Info(n)' = Info(n)
        <4>1. pc[n] = "client" => Info(n) \in Network
          BY <1>a DEF Threads
        <4>2. pc[n] = "client" => held'[n] = Info(n) /\ held'[n] # NoRec
          BY <3>1, <4>1
        <4> QED BY <4>2 DEF Info
      <3>3. DeviceOf(n)'
        BY <2>1, <2>3, <3>1, <3>2 DEF DeviceInv, DeviceOf, Saved, Known, Building
      <3> QED BY <3>1, <3>3, OtherDevice
    <2> QED BY <1>b, <2>1, <2>4
  <1>12. ASSUME NEW n \in Nodes, NEW s \in Nodes, DeleteNetworkFromMulticast(n, s) PROVE DeviceInv'
    BY <1>12, <1>b, RemoveDevice DEF DeleteNetworkFromMulticast, table
  <1>13. ASSUME NEW n \in Nodes, NEW s \in Nodes, JoinNetwork(n, s) \/ LeaveNetwork(n, s) PROVE DeviceInv'
    <2> DEFINE h == Head(inbox[n][s])
    <2>1. /\ UNCHANGED <<dev, held, raced, pc, task>> /\ inbox[n][s] # <<>> /\ h.type \in {"join", "leave"}
          /\ inbox' = [inbox EXCEPT ![n][s] = Tail(inbox[n][s])]
          /\ \/ UNCHANGED <<nets, db>>
             \/ Known(n) /\ SetMembers(n, nets[n].members \cup {h.task})
             \/ Known(n) /\ SetMembers(n, nets[n].members \ {h.task})
      BY <1>13 DEF JoinNetwork, LeaveNetwork, Receive
    <2>2. h.task \in Tasks
      BY <2>1, ReceiveMail DEF Good
    <2> HIDE DEF h
    <2>3. Known(n) => nets[n].members \subseteq Tasks
      BY <1>a DEF Known, Network
    <2>4. ASSUME Known(n), NEW ms \in SUBSET Tasks, SetMembers(n, ms) PROVE DeviceInv'
      <3>1. /\ db'[n] = nets'[n] /\ nets'[n].owner = nets[n].owner /\ nets'[n].vni = nets[n].vni
            /\ nets'[n].native = nets[n].native /\ nets'[n] # NoRec
            /\ \A k \in Nodes \ {n} : nets'[k] = nets[k] /\ db'[k] = db[k]
        BY <2>1, <2>4, MembersTypes
      <3>2. pc[n] = "client" => Info(n)'.vni = Info(n).vni
        BY <2>1, <3>1 DEF Info
      <3>3. DeviceOf(n)'
        BY <2>1, <2>4, <3>1, <3>2 DEF DeviceInv, DeviceOf, Saved, Known, Building
      <3> QED BY <2>1, <3>1, <3>3, OtherDevice
    <2> QED BY <1>b, <2>1, <2>2, <2>3, <2>4
  <1> QED BY <1>1, <1>2, <1>3, <1>4, <1>5, <1>6, <1>7, <1>8, <1>9, <1>10, <1>11, <1>12, <1>13
          DEF Next, Build, OnMulticastReceive, DeleteRequest, ClearEmptyNetwork

\* A record that says the device is there is right, and it is the device of
\* this network, except on nodes that removed the device while the request
\* thread built it.
THEOREM DevicesBacked == Spec => []DeviceBacked
  <1>1. DeviceInv => DeviceBacked
    BY DEF DeviceInv, DeviceOf, DeviceBacked
  <1> QED BY <1>1, InitTypes, NextTypes, InitDevice, NextDevice, PTL DEF Spec

-----------------------------------------------------------------------------
(***************************************************************************)
(* Members.  An owner must have known its tasks all along, so the property *)
(* is kept for a node that does not know the network too, with no members: *)
(* what it hears then of tasks is missed.                                  *)
(***************************************************************************)
Own(n) == Known(n) => nets[n].owner = n
Members(n) == IF Known(n) THEN nets[n].members ELSE {}

\* The announcement of a task is on its way to the node.
Coming(n, t) == Msg("join", NoRec, t) \in Mails(inbox, n, task[t])

KnowsTask(n, t) ==
  Own(n) /\ task[t] \in Nodes /\ <<n, t>> \notin missed => t \in Members(n) \/ Coming(n, t)

KnowInv == \A n \in Nodes, t \in Tasks : KnowsTask(n, t)

LEMMA InitKnow == Init => KnowInv
  BY DEF Init, KnowInv, KnowsTask

\* The announcements under way when a node has sent.
LEMMA SentComing ==
  ASSUME TypeInv, NEW n \in Nodes, NEW m \in Message, inbox' = Sent(inbox, n, m)
  PROVE  \A k, s \in Nodes : /\ Mails(inbox, k, s) \subseteq Mails(inbox', k, s)
                             /\ s = n /\ k \in Receivers(n, m) => m \in Mails(inbox', k, s)
  <1>1. \A k, s \in Nodes :
          Mails(inbox', k, s) = Mails(inbox, k, s) \cup (IF s = n /\ k \in Receivers(n, m) THEN {m} ELSE {})
    BY SentMail DEF TypeInv
  <1> QED BY <1>1

\* ... and when the first datagram of a queue is taken.
LEMMA TakenComing ==
  ASSUME TypeInv, NEW n \in Nodes, NEW s \in Nodes, inbox[n][s] # <<>>,
         NEW rest, rest = [inbox EXCEPT ![n][s] = Tail(inbox[n][s])]
  PROVE  /\ rest \in Boxes
         /\ \A k, r \in Nodes : k # n \/ r # s => Mails(rest, k, r) = Mails(inbox, k, r)
         /\ Mails(inbox, n, s) \subseteq Mails(rest, n, s) \cup {Head(inbox[n][s])}
  <1>1. inbox \in Boxes /\ inbox[n][s] \in Seq(Message)
    BY DEF TypeInv, Boxes
  <1>2. /\ rest \in Boxes /\ rest[n][s] = Tail(inbox[n][s])
        /\ \A k, r \in Nodes : k # n \/ r # s => rest[k][r] = inbox[k][r]
    BY <1>1 DEF Boxes
  <1>3. /\ \A k, r \in Nodes : k # n \/ r # s => Mails(rest, k, r) = Mails(inbox, k, r)
        /\ Mails(inbox, n, s) \subseteq Mails(rest, n, s) \cup {Head(inbox[n][s])}
    <2>1. \A b \in Boxes :
            /\ b[n][s] = Tail(inbox[n][s])
            /\ \A k, r \in Nodes : (k # n \/ r # s) => b[k][r] = inbox[k][r]
            => /\ \A k, r \in Nodes : (k # n \/ r # s) => Mails(b, k, r) = Mails(inbox, k, r)
               /\ Mails(inbox, n, s) \subseteq Mails(b, n, s) \cup {Head(inbox[n][s])}
      BY <1>1, TailMail
    <2> QED BY <1>2, <2>1, Zenon
  <1> QED BY <1>2, <1>3

\* A network that is removed had no members its node knew of, or the node is
\* not the owner and misses the tasks from then on.
LEMMA RemoveKnow ==
  ASSUME TypeInv, KnowInv, NEW n \in Nodes, Known(n), Remove(n), UNCHANGED task,
         \A k, s \in Nodes : k = n \/ Mails(inbox, k, s) \subseteq Mails(inbox', k, s),
         \/ Miss(n, Tasks)
         \/ /\ Owns(n) /\ nets[n].members = {} /\ UNCHANGED missed
            /\ \A s \in Nodes : Mails(inbox, n, s) \subseteq Mails(inbox', n, s)
  PROVE  KnowInv'
  <1>a. nets \in [Nodes -> Network \cup {NoRec}] /\ nets'[n] = NoRec /\ \A k \in Nodes \ {n} : nets'[k] = nets[k]
    BY DEF TypeInv, TypeOK, Remove
  <1>1. ASSUME NEW k \in Nodes, NEW t \in Tasks PROVE KnowsTask(k, t)'
    <2>1. CASE k # n
      <3>1. Own(k)' = Own(k) /\ Members(k)' = Members(k)
        BY <1>a, <2>1 DEF Own, Members, Known
      <3>2. task[t] \in Nodes => (Coming(k, t) => Coming(k, t)')
        BY <2>1 DEF Coming
      <3>3. <<k, t>> \in missed => <<k, t>> \in missed'
        BY DEF Miss
      <3> QED BY <3>1, <3>2, <3>3 DEF KnowInv, KnowsTask
    <2>2. CASE k = n /\ Miss(n, Tasks)
      BY <2>2 DEF Miss, Live, KnowsTask
    <2>3. CASE /\ k = n /\ Owns(n) /\ nets[n].members = {} /\ UNCHANGED missed
               /\ \A s \in Nodes : Mails(inbox, n, s) \subseteq Mails(inbox', n, s)
      <3>1. Own(n) /\ Members(n) = {}
        BY <2>3 DEF Own, Owns, Members
      <3>2. task[t] \in Nodes => (Coming(n, t) => Coming(n, t)')
        BY <2>3 DEF Coming
      <3> QED BY <2>3, <3>1, <3>2 DEF KnowInv, KnowsTask
    <2> QED BY <2>1, <2>2, <2>3
  <1> QED BY <1>1 DEF KnowInv

\* A step that leaves the tables alone and takes no announcement.
LEMMA QuietKnow ==
  ASSUME KnowInv, UNCHANGED <<nets, task>>, missed \subseteq missed',
         \A k \in Nodes, t \in Tasks : task[t] \in Nodes /\ Coming(k, t) => Coming(k, t)' \/ <<k, t>> \in missed'
  PROVE  KnowInv'
  BY DEF KnowInv, KnowsTask, Own, Members, Known

LEMMA NextKnow == TypeInv /\ DeviceInv /\ KnowInv /\ [Next]_vars => KnowInv'
  <1> SUFFICES ASSUME TypeInv, DeviceInv, KnowInv, [Next]_vars PROVE KnowInv'
    OBVIOUS
  <1>a. /\ nets \in [Nodes -> Network \cup {NoRec}] /\ db \in [Nodes -> Network \cup {NoRec}]
        /\ held \in [Nodes -> Network \cup {NoRec}] /\ task \in [Tasks -> Nodes \cup {"new", "gone"}]
        /\ inbox \in Boxes /\ MailOK /\ Threads
    BY DEF TypeInv, TypeOK
  <1>1. CASE \/ UNCHANGED vars
             \/ \E n \in Nodes : \/ CreateNetworkServer(n) \/ CreateNetworkClient(n) \/ RefuseTask(n)
                                 \/ Fail(n, "server") \/ Fail(n, "client")
    <2>1. UNCHANGED <<nets, task, inbox, missed>>
      BY <1>1 DEF vars, CreateNetworkServer, CreateNetworkClient, RefuseTask, Fail, table
    <2> QED BY <2>1, QuietKnow DEF Coming
  <1>2. ASSUME NEW n \in Nodes, AnnounceNetwork(n) PROVE KnowInv'
    <2>1. /\ pc[n] = "server" /\ nets' = [nets EXCEPT ![n] = held[n]] /\ UNCHANGED task
          /\ inbox' = Sent(inbox, n, Msg("create", held[n], NoTask))
          /\ IF Known(n) THEN Miss(n, Tasks) ELSE UNCHANGED missed
      BY <1>2 DEF AnnounceNetwork, Multicast
    <2>2. Msg("create", held[n], NoTask) \in Message
      BY <1>a, Messages
    <2>3. \A k, s \in Nodes : Mails(inbox, k, s) \subseteq Mails(inbox', k, s)
      BY <2>1, <2>2, SentComing
    <2>4. \A k \in Nodes, t \in Tasks : task[t] \in Nodes /\ Coming(k, t) => Coming(k, t)'
      BY <2>1, <2>3 DEF Coming
    <2>5. missed \subseteq missed'
      BY <2>1 DEF Miss
    <2>6. ASSUME NEW k \in Nodes, NEW t \in Tasks PROVE KnowsTask(k, t)'
      <3>1. CASE k # n
        <4>1. Own(k)' = Own(k) /\ Members(k)' = Members(k)
          BY <1>a, <2>1, <3>1 DEF Own, Members, Known
        <4> QED BY <2>1, <2>4, <2>5, <4>1 DEF KnowInv, KnowsTask
      <3>2. CASE k = n /\ Known(n)
        BY <2>1, <3>2 DEF KnowsTask, Miss, Live
      <3>3. CASE k = n /\ ~Known(n)
        <4>1. Own(n) /\ Members(n) = {}
          BY <3>3 DEF Own, Members
        <4> QED BY <2>1, <2>4, <3>3, <4>1 DEF KnowInv, KnowsTask
      <3> QED BY <3>1, <3>2, <3>3
    <2> QED BY <2>6 DEF KnowInv
  <1>3. ASSUME NEW n \in Nodes, UNCHANGED <<task>>, missed \subseteq missed',
               \A k \in Nodes \ {n} : nets'[k] = nets[k],
               \A k \in Nodes \ {n}, t \in Tasks : task[t] \in Nodes /\ Coming(k, t) => Coming(k, t)',
               nets'[n] \in Network /\ nets'[n].owner # n
        PROVE  KnowInv'
    <2>1. ~Own(n)'
      BY <1>3 DEF Own, Known
    <2>2. \A k \in Nodes \ {n} : Own(k)' = Own(k) /\ Members(k)' = Members(k)
      BY <1>3 DEF Own, Members, Known
    <2> QED BY <1>3, <2>1, <2>2 DEF KnowInv, KnowsTask
  <1>4. ASSUME NEW n \in Nodes, ClientReady(n) PROVE KnowInv'
    <2>1. /\ pc[n] = "client" /\ nets' = [nets EXCEPT ![n] = [Info(n) EXCEPT !.native = TRUE]]
          /\ UNCHANGED <<task, inbox, missed>>
      BY <1>4 DEF ClientReady, Info
    <2>2. Info(n) \in Network /\ Info(n).owner # n
      BY <1>a, <2>1 DEF Threads
    <2>3. [Info(n) EXCEPT !.native = TRUE] \in Network /\ [Info(n) EXCEPT !.native = TRUE].owner # n
      BY <2>2 DEF Network
    <2> HIDE DEF Info
    <2>4. nets'[n] = [Info(n) EXCEPT !.native = TRUE] /\ \A k \in Nodes \ {n} : nets'[k] = nets[k]
      BY <1>a, <2>1
    <2>5. \A k \in Nodes, t \in Tasks : Coming(k, t) => Coming(k, t)'
      BY <2>1 DEF Coming
    <2> QED BY <1>3, <2>1, <2>3, <2>4, <2>5
  <1>5. ASSUME NEW n \in Nodes, NEW t \in Tasks, CreateTask(n, t) PROVE KnowInv'
    <2> DEFINE m == Msg("join", NoRec, t)
    <2>1. task[t] = "new" /\ task' = [task EXCEPT ![t] = n] /\ inbox' = Sent(inbox, n, m) /\ UNCHANGED <<nets, missed>>
      BY <1>5 DEF CreateTask, Multicast, table
    <2>2. m \in Message /\ m.type = "join"
      BY Messages
    <2>3. \A k \in Nodes : k \in Receivers(n, m)
      BY <2>2 DEF Receivers
    <2>4. \A k, s \in Nodes : /\ Mails(inbox, k, s) \subseteq Mails(inbox', k, s)
                              /\ s = n => m \in Mails(inbox', k, s)
      BY <2>1, <2>2, <2>3, SentComing
    <2>5. ASSUME NEW k \in Nodes, NEW u \in Tasks PROVE KnowsTask(k, u)'
      <3>1. CASE u = t
        <4>1. task'[t] = n
          BY <1>a, <2>1
        <4>2. Coming(k, t)'
          BY <2>4, <4>1 DEF Coming
        <4> QED BY <3>1, <4>2 DEF KnowsTask
      <3>2. CASE u # t
        <4>1. task'[u] = task[u]
          BY <1>a, <2>1, <3>2
        <4>2. task[u] \in Nodes => (Coming(k, u) => Coming(k, u)')
          BY <2>4, <4>1 DEF Coming
        <4>3. Own(k)' = Own(k) /\ Members(k)' = Members(k)
          BY <2>1 DEF Own, Members, Known
        <4> QED BY <2>1, <4>1, <4>2, <4>3 DEF KnowInv, KnowsTask
      <3> QED BY <3>1, <3>2
    <2> QED BY <2>5 DEF KnowInv
  <1>6. ASSUME NEW t \in Tasks, DeleteTask(t) PROVE KnowInv'
    <2> DEFINE n == task[t]
               m == Msg("leave", NoRec, t)
    <2>1. /\ n \in Nodes /\ task' = [task EXCEPT ![t] = "gone"] /\ inbox' = Sent(inbox, n, m)
          /\ UNCHANGED nets /\ missed' = missed \ (Nodes \X {t})
      BY <1>6 DEF DeleteTask, Multicast, table
    <2>2. m \in Message
      BY Messages
    <2>3. \A k, s \in Nodes : Mails(inbox, k, s) \subseteq Mails(inbox', k, s)
      BY <2>1, <2>2, SentComing
    <2>4. ASSUME NEW k \in Nodes, NEW u \in Tasks PROVE KnowsTask(k, u)'
      <3>1. CASE u = t
        <4>1. task'[t] \notin Nodes
          BY <1>a, <2>1
        <4> QED BY <3>1, <4>1 DEF KnowsTask
      <3>2. CASE u # t
        <4>1. task'[u] = task[u] /\ (<<k, u>> \in missed => <<k, u>> \in missed')
          BY <1>a, <2>1, <3>2
        <4>2. task[u] \in Nodes => (Coming(k, u) => Coming(k, u)')
          BY <2>3, <4>1 DEF Coming
        <4>3. Own(k)' = Own(k) /\ Members(k)' = Members(k)
          BY <2>1 DEF Own, Members, Known
        <4> QED BY <4>1, <4>2, <4>3 DEF KnowInv, KnowsTask
      <3> QED BY <3>1, <3>2
    <2> QED BY <2>4 DEF KnowInv
  <1>7. ASSUME NEW n \in Nodes, DeleteNetwork(n) PROVE KnowInv'
    <2>1. /\ Known(n) /\ nets[n].members = {} /\ Remove(n) /\ UNCHANGED task
          /\ inbox' = Sent(inbox, n, Msg("delete", NoRec, NoTask))
          /\ IF Owns(n) THEN UNCHANGED missed ELSE Miss(n, Tasks)
      BY <1>7 DEF DeleteNetwork, Multicast
    <2>2. Msg("delete", NoRec, NoTask) \in Message
      BY Messages
    <2>3. \A k, s \in Nodes : Mails(inbox, k, s) \subseteq Mails(inbox', k, s)
      BY <2>1, <2>2, SentComing
    <2> QED BY <2>1, <2>3, RemoveKnow
  <1>8. ASSUME NEW n \in Nodes, ClearExpiredNetwork(n) PROVE KnowInv'
    <2>1. Known(n) /\ Remove(n) /\ Miss(n, Tasks) /\ UNCHANGED <<task, inbox>>
      BY <1>8 DEF ClearExpiredNetwork
    <2> QED BY <2>1, RemoveKnow
  <1>9. ASSUME NEW n \in Nodes, ListTimer(n) PROVE KnowInv'
    <2>1. /\ UNCHANGED <<nets, task, missed>> /\ inbox' = Sent(inbox, n, Msg("list", nets[n], NoTask))
      BY <1>9 DEF ListTimer, Multicast, table
    <2>2. Msg("list", nets[n], NoTask) \in Message
      BY <1>a, Messages
    <2>3. \A k, s \in Nodes : Mails(inbox, k, s) \subseteq Mails(inbox', k, s)
      BY <2>1, <2>2, SentComing
    <2> QED BY <2>1, <2>3, QuietKnow DEF Coming
  <1>10. ASSUME NEW n \in Nodes, Restart(n) PROVE KnowInv'
    <2>1. /\ nets' = [nets EXCEPT ![n] = db[n]] /\ UNCHANGED task
          /\ Miss(n, UNION {Joins(n, s) : s \in Nodes})
      BY <1>10 DEF Restart
    <2>2. \A k \in Nodes \ {n}, s \in Nodes : Mails(inbox, k, s) \subseteq Mails(inbox', k, s)
      BY <1>10, RestartMail
    <2>3. ASSUME NEW k \in Nodes, NEW t \in Tasks PROVE KnowsTask(k, t)'
      <3>1. Own(k)' = Own(k) /\ Members(k)' = Members(k)
        <4>1. Saved(k) /\ nets'[k] = IF k = n THEN db[k] ELSE nets[k]
          BY <1>a, <2>1 DEF DeviceInv, DeviceOf
        <4> QED BY <4>1 DEF Own, Members, Known, Saved
      <3>2. <<k, t>> \in missed => <<k, t>> \in missed'
        BY <2>1 DEF Miss
      <3>3. task[t] \in Nodes /\ Coming(k, t) => Coming(k, t)' \/ <<k, t>> \in missed'
        <4>1. CASE k # n
          BY <2>1, <2>2, <4>1 DEF Coming
        <4>2. CASE k = n
          <5> SUFFICES ASSUME task[t] \in Nodes, Coming(n, t) PROVE <<n, t>> \in missed'
            BY <4>2
          <5>1. t \in Joins(n, task[t])
            BY <1>a, JoinsMail DEF Coming
          <5>2. t \in Live
            BY DEF Live
          <5> QED BY <2>1, <5>1, <5>2 DEF Miss
        <4> QED BY <4>1, <4>2
      <3> QED BY <2>1, <3>1, <3>2, <3>3 DEF KnowInv, KnowsTask
    <2> QED BY <2>3 DEF KnowInv
  <1>11. ASSUME NEW n \in Nodes, NEW s \in Nodes, OnMulticastReceive(n, s) \/ Lose(n, s) PROVE KnowInv'
    <2> DEFINE h == Head(inbox[n][s])
               after == [inbox EXCEPT ![n][s] = Tail(inbox[n][s])]
    <2>0. inbox[n][s] # <<>> /\ UNCHANGED task /\ (inbox' = after \/ OnQuery(n, s))
      BY <1>11 DEF OnMulticastReceive, AddNetworkFromMulticast, DeleteNetworkFromMulticast, JoinNetwork,
                   LeaveNetwork, OnQuery, Lose, Receive
    <2>a. /\ after \in Boxes
          /\ \A k, r \in Nodes : k # n \/ r # s => Mails(after, k, r) = Mails(inbox, k, r)
          /\ Mails(inbox, n, s) \subseteq Mails(after, n, s) \cup {h}
      BY <2>0, TakenComing
    <2>b. inbox' = after => h \in Message /\ Good(task, n, s, h)
      BY <2>0, ReceiveMail
    <2> HIDE DEF h, after
    <2>c. ASSUME NEW k \in Nodes, NEW t \in Tasks, task[t] \in Nodes, Coming(k, t)
          PROVE  \/ Msg("join", NoRec, t) \in Mails(after, k, task[t])
                 \/ k = n /\ s = task[t] /\ h = Msg("join", NoRec, t)
      BY <2>a, <2>c DEF Coming
    <2>d. ASSUME NEW k \in Nodes, NEW t \in Tasks, task[t] \in Nodes, Coming(k, t), inbox' = after
          PROVE  Coming(k, t)' \/ (k = n /\ h.type = "join" /\ h.task = t)
      BY <2>0, <2>c, <2>d, Messages DEF Coming
    <2>1. CASE AddNetworkFromMulticast(n, s)
      <3> DEFINE info == [h.net EXCEPT !.native = FALSE]
      <3>1. /\ h.type \in {"create", "list"} /\ inbox' = after
            /\ \/ UNCHANGED <<nets, missed>>
               \/ Replace(n, info)
        BY <2>1 DEF AddNetworkFromMulticast, Receive, h, after
      <3>2. h.net \in Network /\ h.net.owner # n
        BY <2>b, <3>1 DEF Good
      <3>3. info \in Network /\ info.owner # n
        BY <3>2 DEF Network
      <3> HIDE DEF info
      <3>4. \A k \in Nodes, t \in Tasks : task[t] \in Nodes /\ Coming(k, t) => Coming(k, t)'
        BY <2>d, <3>1
      <3>5. CASE UNCHANGED <<nets, missed>>
        BY <2>0, <3>4, <3>5, QuietKnow
      <3>6. CASE Replace(n, info)
        <4>1. nets' = [nets EXCEPT ![n] = info] /\ missed \subseteq missed'
          BY <3>6 DEF Replace, Miss
        <4>2. nets'[n] = info /\ \A k \in Nodes \ {n} : nets'[k] = nets[k]
          BY <1>a, <4>1
        <4> QED BY <1>3, <2>0, <3>3, <3>4, <4>1, <4>2
      <3> QED BY <3>1, <3>5, <3>6
    <2>2. CASE DeleteNetworkFromMulticast(n, s)
      <3>1. /\ h.type = "delete" /\ inbox' = after
            /\ \/ Known(n) /\ Remove(n) /\ Miss(n, Tasks)
               \/ UNCHANGED <<nets, missed>>
        BY <2>2 DEF DeleteNetworkFromMulticast, Receive, table, h, after
      <3>2. CASE Known(n) /\ Remove(n) /\ Miss(n, Tasks)
        <4>1. \A k, r \in Nodes : k = n \/ Mails(inbox, k, r) \subseteq Mails(inbox', k, r)
          BY <2>a, <3>1
        <4> QED BY <2>0, <3>2, <4>1, RemoveKnow
      <3>3. CASE UNCHANGED <<nets, missed>>
        BY <2>0, <2>d, <3>1, <3>3, QuietKnow
      <3> QED BY <3>1, <3>2, <3>3
    <2>3. CASE JoinNetwork(n, s)
      <3>1. /\ h.type = "join" /\ inbox' = after
            /\ \/ Known(n) /\ SetMembers(n, nets[n].members \cup {h.task}) /\ UNCHANGED <<missed, held, pc>>
               \/ ~Known(n) /\ Miss(n, {h.task}) /\ UNCHANGED nets
        BY <2>3 DEF JoinNetwork, Receive, h, after
      <3>2. h.task \in Tasks
        BY <2>b, <3>1 DEF Good
      <3>3. CASE Known(n) /\ SetMembers(n, nets[n].members \cup {h.task}) /\ UNCHANGED <<missed, held, pc>>
        <4>1. nets[n].members \cup {h.task} \in SUBSET Tasks
          BY <1>a, <3>2, <3>3 DEF Known, Network
        <4>2. /\ nets'[n].owner = nets[n].owner /\ nets'[n].members = nets[n].members \cup {h.task}
              /\ nets'[n] # NoRec /\ \A k \in Nodes \ {n} : nets'[k] = nets[k]
          BY <3>3, <4>1, MembersTypes
        <4>3. ASSUME NEW k \in Nodes, NEW t \in Tasks PROVE KnowsTask(k, t)'
          <5>1. /\ Own(k)' = Own(k) /\ Members(k) \subseteq Members(k)'
                /\ k = n => h.task \in Members(k)'
            BY <3>3, <4>2 DEF Own, Members, Known
          <5>2. task[t] \in Nodes /\ Coming(k, t) => Coming(k, t)' \/ t \in Members(k)'
            BY <2>d, <3>1, <5>1
          <5> QED BY <2>0, <3>3, <5>1, <5>2 DEF KnowInv, KnowsTask
        <4> QED BY <4>3 DEF KnowInv
      <3>4. CASE ~Known(n) /\ Miss(n, {h.task}) /\ UNCHANGED nets
        <4>1. ASSUME NEW k \in Nodes, NEW t \in Tasks, task[t] \in Nodes, Coming(k, t)
              PROVE  Coming(k, t)' \/ <<k, t>> \in missed'
          BY <2>d, <3>1, <3>4, <4>1 DEF Miss, Live
        <4>2. missed \subseteq missed'
          BY <3>4 DEF Miss
        <4> QED BY <2>0, <3>4, <4>1, <4>2, QuietKnow
      <3> QED BY <3>1, <3>3, <3>4
    <2>4. CASE LeaveNetwork(n, s)
      <3>1. /\ h.type = "leave" /\ inbox' = after
            /\ \/ Known(n) /\ SetMembers(n, nets[n].members \ {h.task}) /\ UNCHANGED <<held, pc>>
               \/ UNCHANGED nets
            /\ UNCHANGED missed
        BY <2>4 DEF LeaveNetwork, Receive, h, after
      <3>2. h.task \in Tasks /\ task[h.task] = "gone"
        BY <2>b, <3>1 DEF Good
      <3>3. \A k \in Nodes, t \in Tasks : task[t] \in Nodes /\ Coming(k, t) => Coming(k, t)'
        BY <2>d, <3>1
      <3>4. CASE Known(n) /\ SetMembers(n, nets[n].members \ {h.task}) /\ UNCHANGED <<held, pc>>
        <4>1. nets[n].members \ {h.task} \in SUBSET Tasks
          BY <1>a, <3>4 DEF Known, Network
        <4>2. /\ nets'[n].owner = nets[n].owner /\ nets'[n].members = nets[n].members \ {h.task}
              /\ nets'[n] # NoRec /\ \A k \in Nodes \ {n} : nets'[k] = nets[k]
          BY <3>4, <4>1, MembersTypes
        <4>3. ASSUME NEW k \in Nodes, NEW t \in Tasks PROVE KnowsTask(k, t)'
          <5>1. /\ Own(k)' = Own(k) /\ Members(k) \subseteq Members(k)' \cup {h.task}
            BY <3>4, <4>2 DEF Own, Members, Known
          <5>2. task[t] \in Nodes => t # h.task
            BY <3>2
          <5> QED BY <2>0, <3>1, <3>3, <5>1, <5>2 DEF KnowInv, KnowsTask
        <4> QED BY <4>3 DEF KnowInv
      <3>5. CASE UNCHANGED nets
        BY <2>0, <3>1, <3>3, <3>5, QuietKnow
      <3> QED BY <3>1, <3>4, <3>5
    <2>5. CASE OnQuery(n, s)
      <3> DEFINE m == Msg("list", nets[n], NoTask)
      <3>1. /\ h.type = "query" /\ UNCHANGED <<nets, missed>>
            /\ inbox' = after \/ inbox' = Sent(after, n, m)
        BY <2>5 DEF OnQuery, table, h, after
      <3>2. m \in Message
        BY <1>a, Messages
      <3> HIDE DEF m
      <3>3. \A k, r \in Nodes : Mails(after, k, r) \subseteq Mails(inbox', k, r)
        <4>1. \A k, r \in Nodes : Mails(after, k, r) \subseteq Mails(Sent(after, n, m), k, r)
          BY <2>a, <3>2, SentMail
        <4> QED BY <3>1, <4>1
      <3>4. ASSUME NEW k \in Nodes, NEW t \in Tasks, task[t] \in Nodes, Coming(k, t)
            PROVE  Coming(k, t)'
        <4>1. h # Msg("join", NoRec, t)
          BY <3>1, Messages
        <4> QED BY <2>0, <2>c, <3>3, <3>4, <4>1 DEF Coming
      <3> QED BY <2>0, <3>1, <3>4, QuietKnow
    <2>6. CASE Lose(n, s)
      <3>1. inbox' = after /\ UNCHANGED nets /\ Miss(n, {h.task})
        BY <2>6 DEF Lose, table, h, after
      <3>2. ASSUME NEW k \in Nodes, NEW t \in Tasks, task[t] \in Nodes, Coming(k, t)
            PROVE  Coming(k, t)' \/ <<k, t>> \in missed'
        BY <2>d, <3>1, <3>2 DEF Miss, Live
      <3>3. missed \subseteq missed'
        BY <3>1 DEF Miss
      <3> QED BY <2>0, <3>1, <3>2, <3>3, QuietKnow
    <2> QED BY <1>11, <2>1, <2>2, <2>3, <2>4, <2>5, <2>6 DEF OnMulticastReceive
  <1> QED BY <1>1, <1>2, <1>4, <1>5, <1>6, <1>7, <1>8, <1>9, <1>10, <1>11
          DEF Next, Build, DeleteRequest, ClearEmptyNetwork

\* The owner knows every task that uses its network, or the task's
\* announcement is on its way, except for announcements that were lost or
\* found no network, and what the owner was told by others to forget.
THEOREM OwnersKnow == Spec => []OwnerKnows
  <1>1. TypeInv /\ KnowInv => OwnerKnows
    <2> SUFFICES ASSUME TypeInv, KnowInv, NEW n \in Nodes, NEW t \in Tasks,
                        Owns(n), task[t] \in Nodes, <<n, t>> \notin missed
                 PROVE  t \in nets[n].members \/ t \in Joins(n, task[t])
      BY DEF OwnerKnows
    <2>1. t \in Members(n) \/ Coming(n, t)
      BY DEF KnowInv, KnowsTask, Own, Owns
    <2> QED BY <2>1, JoinsMail DEF TypeInv, Members, Owns, Coming
  <1> QED BY <1>1, InitTypes, NextTypes, InitDevice, NextDevice, InitKnow, NextKnow, PTL DEF Spec
=============================================================================
