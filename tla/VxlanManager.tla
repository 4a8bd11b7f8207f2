---------------------------- MODULE VxlanManager ----------------------------
(***************************************************************************)
(* The virtual networks of a local net of compute nodes.                   *)
(*                                                                         *)
(* A network is created on one node, its owner, which has a DHCP server    *)
(* for it; the other nodes hear of it by multicast and build a bridge when *)
(* a task of theirs wants to join.  Tasks announce by multicast that they  *)
(* join and leave, the owner announces its networks every two minutes, and *)
(* a node that starts asks for those it knows.  A datagram may be lost on  *)
(* the way to any receiver, may overtake those of other senders, and comes *)
(* back to the sender too.                                                 *)
(*                                                                         *)
(* Three threads of a node work on its table: the request thread creates   *)
(* and deletes networks and lets tasks join, the I/O thread of             *)
(* p2p_lan_service handles what it receives, and its timer thread          *)
(* announces and cleans up.  The model has the nodes' tables for one name  *)
(* of a network; the nodes are hosts of their own.  DHCP servers are left  *)
(* out: that one does not start makes a creation fail, as any other cause. *)
(***************************************************************************)
EXTENDS Naturals, Sequences, FiniteSets

CONSTANTS
  Nodes,
  WalletOf,     \* the wallet that rents a node
  Tasks,
  NoTask,
  NoRec,        \* no networkInfo
  MaxVni,       \* bound: number of creations; each draws a VNI of its own
  MaxFaults,    \* bound: datagrams lost, counted per receiver, and times dbc
                \* of a node is killed
  MaxInbox      \* bound: datagrams under way from a node to another

ASSUME VxlanBounds == {MaxVni, MaxFaults, MaxInbox} \subseteq Nat

Vnis == 1 .. MaxVni
NoDevice == 0

\* networkInfo: machineId, vxlanVni, members, and NATIVE_FLAGS_DEVICE of
\* nativeFlags.  The wallet is that of the owner.
Network == [owner : Nodes, vni : Vnis, members : SUBSET Tasks, native : BOOLEAN]

ASSUME NamesAssumption ==
  NoRec \notin Network /\ NoTask \notin Tasks /\ {"new", "gone"} \cap Nodes = {}

VARIABLES
  nets,     \* m_networks of each node
  db,       \* its network.db
  dev,      \* the VNI of its vxlan device and bridge
  task,     \* a task is "new", on a node, or "gone"
  inbox,    \* datagrams on their way to a node's I/O thread, by sender
  pc,       \* what the node's request thread does
  held,     \* the networkInfo that thread works on, if it is not
            \* in m_networks
  nvni, nfaults,
  missed,   \* history: <<node, task>> where the node did not get to know, or
            \* was made to forget, that the task joined
  raced     \* history: nodes that removed the device while their request
            \* thread was building it

vars == <<nets, db, dev, task, inbox, pc, held, nvni, nfaults, missed, raced>>

\* What receiving and sending leave alone.
table == <<nets, db, dev, held, raced>>
bounds == <<nvni, nfaults>>

Init ==
  /\ nets = [n \in Nodes |-> NoRec] /\ db = [n \in Nodes |-> NoRec]
  /\ dev = [n \in Nodes |-> NoDevice]
  /\ task = [t \in Tasks |-> "new"]
  /\ inbox = [n \in Nodes |-> [s \in Nodes |-> <<>>]]
  /\ pc = [n \in Nodes |-> "idle"] /\ held = [n \in Nodes |-> NoRec]
  /\ nvni = 0 /\ nfaults = 0
  /\ missed = {} /\ raced = {}

Known(n) == nets[n] # NoRec
\* The node takes itself for the owner.
Owns(n) == Known(n) /\ nets[n].owner = n

-----------------------------------------------------------------------------
(***************************************************************************)
(* Multicast.                                                              *)
(***************************************************************************)
Msg(type, net, t) == [type |-> type, net |-> net, task |-> t]

\* What comes back to its sender and is ignored there is left out.
Receivers(n, m) == IF m.type \in {"create", "list", "query"} THEN Nodes \ {n} ELSE Nodes

\* The inboxes when node n has sent the message.
Sent(box, n, m) ==
  [k \in Nodes |-> IF k \in Receivers(n, m) THEN [box[k] EXCEPT ![n] = Append(@, m)] ELSE box[k]]

Multicast(n, m) ==
  /\ \A k \in Nodes : Len(inbox[k][n]) < MaxInbox
  /\ inbox' = Sent(inbox, n, m)

\* The joins among a node's datagrams from a sender.
Joins(n, s) == {t \in Tasks : \E i \in DOMAIN inbox[n][s] : inbox[n][s][i] = Msg("join", NoRec, t)}

Live == {t \in Tasks : task[t] \in Nodes}

\* Node n does not know of these tasks, as far as they live.
Miss(n, ts) == missed' = missed \cup ({n} \X (ts \cap Live))

Lose(n, s) ==
  /\ inbox[n][s] # <<>> /\ nfaults < MaxFaults
  /\ inbox' = [inbox EXCEPT ![n][s] = Tail(inbox[n][s])]
  /\ nfaults' = nfaults + 1
  /\ Miss(n, {Head(inbox[n][s]).task})
  /\ UNCHANGED <<table, task, pc, nvni>>

-----------------------------------------------------------------------------
(***************************************************************************)
(* The request thread.                                                     *)
(***************************************************************************)
Goto(n, step) == pc' = [pc EXCEPT ![n] = step]

\* Fault seeded for TypeOK: one number too many.
VniLeftAtLimit == nvni <= MaxVni

\* RandomVni has a number that no network uses.
VniLeft == nvni < MaxVni

\* CreateNetworkServer refuses a name it knows and builds the device.  One
\* that is left of an earlier network makes that fail, and is deleted then.
CreateNetworkServer(n) ==
  /\ pc[n] = "idle" /\ ~Known(n)
  /\ \/ /\ dev[n] = NoDevice /\ VniLeft
        /\ nvni' = nvni + 1
        /\ dev' = [dev EXCEPT ![n] = nvni + 1]
        /\ held' = [held EXCEPT ![n] = [owner |-> n, vni |-> nvni + 1, members |-> {}, native |-> TRUE]]
        /\ Goto(n, "server")
     \/ /\ dev[n] # NoDevice
        /\ dev' = [dev EXCEPT ![n] = NoDevice]
        /\ UNCHANGED <<nvni, held, pc>>
  /\ UNCHANGED <<nets, db, raced, task, inbox, nfaults, missed>>

\* The DHCP server or the database fails: the device goes.
Fail(n, step) ==
  /\ pc[n] = step /\ Goto(n, "idle")
  /\ dev' = [dev EXCEPT ![n] = NoDevice] /\ held' = [held EXCEPT ![n] = NoRec]
  /\ UNCHANGED <<nets, db, raced, task, inbox, bounds, missed>>

\* ... or the network is entered and announced.
AnnounceNetwork(n) ==
  /\ pc[n] = "server" /\ Goto(n, "idle")
  /\ nets' = [nets EXCEPT ![n] = held[n]] /\ db' = [db EXCEPT ![n] = held[n]]
  /\ held' = [held EXCEPT ![n] = NoRec]
  /\ Multicast(n, Msg("create", held[n], NoTask))
  /\ IF Known(n) THEN Miss(n, Tasks) ELSE UNCHANGED missed
  /\ UNCHANGED <<dev, raced, task, bounds>>

\* CreateNetworkClient, called by createTask: nothing is to be done on the
\* owner or when the flag is set.
CreateNetworkClient(n) ==
  /\ pc[n] = "idle" /\ Known(n)
  /\ IF nets[n].native \/ nets[n].owner = n
       THEN Goto(n, "join") /\ UNCHANGED dev
       ELSE IF dev[n] = NoDevice
       THEN Goto(n, "client") /\ dev' = [dev EXCEPT ![n] = nets[n].vni]
       ELSE dev' = [dev EXCEPT ![n] = NoDevice] /\ UNCHANGED pc
  /\ UNCHANGED <<nets, db, held, raced, task, inbox, bounds, missed>>

\* Fault seeded for DeviceBacked: the flag is set in the record there is now.
ClientReadyCurrent(n) ==
  LET info == IF Known(n) THEN nets[n] ELSE held[n] IN
  /\ pc[n] = "client" /\ Goto(n, "join")
  /\ db' = [db EXCEPT ![n] = info]
  /\ nets' = [nets EXCEPT ![n] = [info EXCEPT !.native = TRUE]]
  /\ held' = [held EXCEPT ![n] = NoRec]
  /\ UNCHANGED <<dev, raced, task, inbox, bounds, missed>>

\* With the device built, the networkInfo read before is saved, flagged and
\* entered, also when it has been replaced or deleted since.
ClientReady(n) ==
  LET info == IF held[n] = NoRec THEN nets[n] ELSE held[n] IN
  /\ pc[n] = "client" /\ Goto(n, "join")
  /\ db' = [db EXCEPT ![n] = info]
  /\ nets' = [nets EXCEPT ![n] = [info EXCEPT !.native = TRUE]]
  /\ held' = [held EXCEPT ![n] = NoRec]
  /\ UNCHANGED <<dev, raced, task, inbox, bounds, missed>>

\* createTask goes on and announces the task, or refuses it.
CreateTask(n, t) ==
  /\ pc[n] = "join" /\ task[t] = "new" /\ Goto(n, "idle")
  /\ task' = [task EXCEPT ![t] = n]
  /\ Multicast(n, Msg("join", NoRec, t))
  /\ UNCHANGED <<table, bounds, missed>>

RefuseTask(n) ==
  /\ pc[n] = "join" /\ Goto(n, "idle")
  /\ UNCHANGED <<table, task, inbox, bounds, missed>>

\* delete_task, of any thread.
DeleteTask(t) ==
  /\ task[t] \in Nodes
  /\ Multicast(task[t], Msg("leave", NoRec, t))
  /\ task' = [task EXCEPT ![t] = "gone"]
  /\ missed' = missed \ (Nodes \X {t})
  /\ UNCHANGED <<table, pc, bounds>>

-----------------------------------------------------------------------------
\* The entry goes or is replaced; the request thread keeps the object it has.
Keep(n) == held' = [held EXCEPT ![n] = IF pc[n] = "client" /\ @ = NoRec THEN nets[n] ELSE @]

Building(n) == pc[n] \in {"server", "client"}

\* StopDhcpServer, DeleteVxlanDevice, and the entry.
Remove(n) ==
  /\ dev' = [dev EXCEPT ![n] = NoDevice]
  /\ nets' = [nets EXCEPT ![n] = NoRec] /\ db' = [db EXCEPT ![n] = NoRec]
  /\ Keep(n)
  /\ raced' = IF Building(n) THEN raced \cup {n} ELSE raced \ {n}

\* Fault seeded for OwnerKnows: networks with members are deleted too.
DeleteNetworkInUse(n) ==
  /\ Known(n) /\ Remove(n)
  /\ Multicast(n, Msg("delete", NoRec, NoTask))
  /\ IF Owns(n) THEN UNCHANGED missed ELSE Miss(n, Tasks)
  /\ UNCHANGED <<task, pc, bounds>>

DeleteNetwork(n) ==
  /\ Known(n) /\ nets[n].members = {} /\ Remove(n)
  /\ Multicast(n, Msg("delete", NoRec, NoTask))
  /\ IF Owns(n) THEN UNCHANGED missed ELSE Miss(n, Tasks)
  /\ UNCHANGED <<task, pc, bounds>>

\* A request of the wallet that created the network.
DeleteRequest(n) ==
  /\ pc[n] = "idle" /\ Known(n) /\ WalletOf[n] = WalletOf[nets[n].owner]
  /\ DeleteNetwork(n)

-----------------------------------------------------------------------------
(***************************************************************************)
(* The timer thread.                                                       *)
(***************************************************************************)

\* A list of the node is under way; lists are two minutes apart.
Listed(n) == \E k \in Nodes : \E i \in DOMAIN inbox[k][n] : inbox[k][n][i].type = "list"

ListTimer(n) ==
  /\ Owns(n) /\ ~Listed(n)
  /\ Multicast(n, Msg("list", nets[n], NoTask))
  /\ UNCHANGED <<table, task, pc, bounds, missed>>

\* ClearEmptyNetwork: three days without a task.
ClearEmptyNetwork(n) == Owns(n) /\ DeleteNetwork(n)

\* The node hears of the network every two minutes.
Announced(n) ==
  \/ Owns(nets[n].owner)
  \/ \E s \in Nodes : \E i \in DOMAIN inbox[n][s] : inbox[n][s][i].type \in {"list", "create"}

\* ClearExpiredNetwork: three days without an announcement.
ClearExpiredNetwork(n) ==
  /\ Known(n) /\ nets[n].owner # n /\ nets[n].members = {}
  /\ ~Announced(n) /\ Remove(n)
  /\ Miss(n, Tasks)
  /\ UNCHANGED <<task, inbox, pc, bounds>>

-----------------------------------------------------------------------------
(***************************************************************************)
(* The I/O thread: on_multicast_receive.                                   *)
(***************************************************************************)

\* The next datagram of sender s has one of these types and is taken.
Receive(n, s, types) ==
  /\ inbox[n][s] # <<>> /\ Head(inbox[n][s]).type \in types
  /\ inbox' = [inbox EXCEPT ![n][s] = Tail(inbox[n][s])]

\* The table gets another object for the network.
Replace(n, info) ==
  /\ nets' = [nets EXCEPT ![n] = info] /\ db' = [db EXCEPT ![n] = info]
  /\ Keep(n)
  /\ raced' = IF Building(n) THEN raced ELSE raced \ {n}
  /\ IF Owns(n) THEN Miss(n, Tasks) ELSE UNCHANGED missed

\* Fault seeded for Agreement: an owner does not give way to another.
AddNetworkFromMulticastUnlessOwner(n, s) ==
  LET info == [Head(inbox[n][s]).net EXCEPT !.native = FALSE] IN
  /\ Receive(n, s, {"create", "list"})
  /\ \/ /\ nets[n] = info \/ Owns(n)
        /\ UNCHANGED <<nets, db, held, raced, missed>>
     \/ ~Owns(n) /\ Replace(n, info)
  /\ UNCHANGED <<dev, task, pc, bounds>>

\* A network another node announces replaces what the node knows of it, its
\* flag included, even its own network.  The same record again is left, if
\* lastUseTime agrees too.
AddNetworkFromMulticast(n, s) ==
  LET info == [Head(inbox[n][s]).net EXCEPT !.native = FALSE] IN
  /\ Receive(n, s, {"create", "list"})
  /\ \/ nets[n] = info /\ UNCHANGED <<nets, db, held, raced, missed>>
     \/ Replace(n, info)
  /\ UNCHANGED <<dev, task, pc, bounds>>

DeleteNetworkFromMulticast(n, s) ==
  /\ Receive(n, s, {"delete"})
  /\ IF Known(n)
       THEN Remove(n) /\ Miss(n, Tasks)
       ELSE UNCHANGED <<table, missed>>
  /\ UNCHANGED <<task, pc, bounds>>

\* JoinNetwork and LeaveNetwork change the members and save the record.
SetMembers(n, members) ==
  /\ nets' = [nets EXCEPT ![n].members = members]
  /\ db' = [db EXCEPT ![n] = [nets[n] EXCEPT !.members = members]]

JoinNetwork(n, s) ==
  LET t == Head(inbox[n][s]).task IN
  /\ Receive(n, s, {"join"})
  /\ IF Known(n)
       THEN SetMembers(n, nets[n].members \cup {t}) /\ UNCHANGED missed
       ELSE Miss(n, {t}) /\ UNCHANGED <<nets, db>>
  /\ UNCHANGED <<dev, held, raced, task, pc, bounds>>

LeaveNetwork(n, s) ==
  /\ Receive(n, s, {"leave"})
  /\ IF Known(n) THEN SetMembers(n, nets[n].members \ {Head(inbox[n][s]).task})
                 ELSE UNCHANGED <<nets, db>>
  /\ UNCHANGED <<dev, held, raced, task, pc, bounds, missed>>

\* The owner answers another node's query with a list.
OnQuery(n, s) ==
  LET rest == [inbox EXCEPT ![n][s] = Tail(inbox[n][s])] IN
  /\ inbox[n][s] # <<>> /\ Head(inbox[n][s]).type = "query"
  /\ inbox' = IF Owns(n) /\ ~Listed(n)
                THEN Sent(rest, n, Msg("list", nets[n], NoTask)) ELSE rest
  /\ UNCHANGED <<table, task, pc, bounds, missed>>

OnMulticastReceive(n, s) ==
  \/ AddNetworkFromMulticast(n, s) \/ DeleteNetworkFromMulticast(n, s)
  \/ JoinNetwork(n, s) \/ LeaveNetwork(n, s) \/ OnQuery(n, s)

-----------------------------------------------------------------------------
\* dbc of a node is killed and starts again: it loads network.db and asks for
\* the networks of others.  The device stays, what was on its way is lost.
Restart(n) ==
  LET mute == [inbox EXCEPT ![n] = [s \in Nodes |-> <<>>]] IN
  /\ nfaults < MaxFaults /\ nfaults' = nfaults + 1
  /\ nets' = [nets EXCEPT ![n] = db[n]]
  /\ held' = [held EXCEPT ![n] = NoRec] /\ Goto(n, "idle")
  /\ inbox' = IF db[n] # NoRec /\ db[n].owner # n
                THEN Sent(mute, n, Msg("query", NoRec, NoTask)) ELSE mute
  /\ Miss(n, UNION {Joins(n, s) : s \in Nodes})
  /\ UNCHANGED <<db, dev, raced, task, nvni>>

-----------------------------------------------------------------------------
Build(n) == AnnounceNetwork(n) \/ ClientReady(n)

Next ==
  \/ \E n \in Nodes :
       \/ CreateNetworkServer(n) \/ CreateNetworkClient(n) \/ Build(n)
       \/ Fail(n, "server") \/ Fail(n, "client")
       \/ (\E t \in Tasks : CreateTask(n, t)) \/ RefuseTask(n)
       \/ DeleteRequest(n) \/ ClearEmptyNetwork(n) \/ ClearExpiredNetwork(n)
       \/ ListTimer(n) \/ Restart(n)
       \/ \E s \in Nodes : OnMulticastReceive(n, s) \/ Lose(n, s)
  \/ \E t \in Tasks : DeleteTask(t)

Spec == Init /\ [][Next]_vars

\* The I/O thread handles what is received, and the timers come.  The timer
\* thread has one thing to do: an owner announces, another node cleans up.
Fairness ==
  /\ \A n, s \in Nodes : WF_vars(OnMulticastReceive(n, s))
  /\ \A n \in Nodes : WF_vars(ListTimer(n) \/ ClearExpiredNetwork(n))

FairSpec == Spec /\ Fairness

-----------------------------------------------------------------------------
(***************************************************************************)
(* Properties.                                                             *)
(***************************************************************************)
Message == [type : {"create", "list", "join", "leave", "delete", "query"},
            net : Network \cup {NoRec}, task : Tasks \cup {NoTask}]

\* Every variable has its type.
TypeOK ==
  /\ nets \in [Nodes -> Network \cup {NoRec}] /\ db \in [Nodes -> Network \cup {NoRec}]
  /\ held \in [Nodes -> Network \cup {NoRec}]
  /\ dev \in [Nodes -> Vnis \cup {NoDevice}]
  /\ task \in [Tasks -> Nodes \cup {"new", "gone"}]
  /\ \A n, s \in Nodes : inbox[n][s] \in Seq(Message)
  /\ pc \in [Nodes -> {"idle", "server", "client", "join"}]
  /\ nvni \in 0 .. MaxVni /\ nfaults \in 0 .. MaxFaults
  /\ missed \subseteq Nodes \X Tasks /\ raced \subseteq Nodes

\* A record that says the device is there is right, and it is the device of
\* this network and not of an earlier one of the name: tasks are connected to
\* it without another look.  Excepted are nodes that removed the device while
\* the request thread built it.
DeviceBacked ==
  \A n \in Nodes \ raced : Known(n) /\ nets[n].native => dev[n] = nets[n].vni

\* The owner, which deletes the network once it has no members, knows every
\* task that uses it, or the task's announcement is on its way.  Excepted
\* are announcements that were lost or found no network, and what the owner
\* was told by others to forget.
OwnerKnows ==
  \A n \in Nodes, t \in Tasks :
    Owns(n) /\ task[t] \in Nodes /\ <<n, t>> \notin missed =>
      t \in nets[n].members \/ t \in Joins(n, task[t])

\* Node n has what node o has.
Agrees(n, o) ==
  Known(n) /\ nets[n].owner = nets[o].owner /\ nets[n].vni = nets[o].vni /\ nets[n].members = nets[o].members

\* The nodes come to agree, again and again, also when two nodes created the
\* network at the same time, announcements were lost or a node restarted:
\* either all know the owner, the VNI and the members as the owner does, or
\* nobody owns the network and it is left only where tasks seem to use it.
Agreement ==
  []<>(\/ \E o \in Nodes : Owns(o) /\ \A n \in Nodes : Agrees(n, o)
       \/ \A n \in Nodes : Known(n) => ~Owns(n) /\ nets[n].members # {})
=============================================================================
