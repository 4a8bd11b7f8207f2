------------------------------ MODULE PeerNet ------------------------------
(***************************************************************************)
(* The peer connections of one DBC node.                                   *)
(*                                                                         *)
(* Four threads meet here:                                                 *)
(*   the worker thread of the I/O pool runs the callbacks of all channels  *)
(*     (connected, read, sent, timers, posted stops);                      *)
(*   the acceptor thread starts an accepted channel and then enters it in  *)
(*     connection_manager's m_channels;                                    *)
(*   the p2p_net_service thread handles version messages, connection       *)
(*     results and channel errors, and runs the timers that connect        *)
(*     candidates;                                                         *)
(*   the connection_manager thread stops the channels that report errors.  *)
(* The two services have a message queue each: an error is published to    *)
(* both, and they handle it in either order.                               *)
(*                                                                         *)
(* The remote ends are the environment.  They send version requests on     *)
(* connections they opened and version responses on the ones they          *)
(* accepted, perhaps too often or with a signature that does not verify,   *)
(* and they may send anything else too early, stay silent or disconnect.   *)
(***************************************************************************)
EXTENDS Naturals, Sequences, FiniteSets, Functions

CONSTANTS
  Endpoints,      \* addresses a peer candidate can have
  NoEndpoint,     \* the address of an inbound connection: nobody's candidate
  Nodes,          \* ids of other nodes
  NoNode,         \* the empty node id
  Self,           \* the node's own id
  NodeAt,         \* the node that answers at an endpoint
  Seeds,          \* the configured seed addresses
  ClientSids,     \* socket ids of outbound connections; ids are used once
  ServerSids,     \* socket ids of inbound connections
  NoSid,
  SidPools,       \* bound: the sets of connections a behaviour may have
  Requests,       \* bound: the ver_req that arrive on a connection,
                  \* <<socket id, node id, signature verifies>>
  Lists,          \* bound: the lists of nodes that arrive,
                  \* <<socket id, endpoint, one entry>>
  MaxCandidates,  \* max_peer_candidates_count, 64 in the code
  MinCandidates,  \* min_peer_candidates_count, 8
  MaxReconnect,   \* max_reconnect_times, 1
  MaxOut,         \* max_connected_peer_nodes_count, 16
  MinAvailable,   \* MIN_NORMAL_AVAILABLE_NODE_COUNT, 2
  MaxIn           \* m_max_connect - MAX_OUTBOUND_CONNECTIONS

Sids == ClientSids \cup ServerSids

ASSUME SidsAssumption ==
  ClientSids \subseteq Nat /\ ServerSids \subseteq Nat
  /\ ClientSids \cap ServerSids = {} /\ NoSid \notin Sids
ASSUME EndpointsAssumption == NoEndpoint \notin Endpoints /\ Seeds \subseteq Endpoints
ASSUME NodesAssumption ==
  NoNode \notin Nodes /\ Self \notin Nodes \cup {NoNode}
  /\ NodeAt \in [Endpoints -> Nodes \cup {Self}]
ASSUME BoundsAssumption ==
  /\ SidPools \subseteq SUBSET Sids
  /\ Requests \subseteq ServerSids \X (Nodes \cup {Self}) \X BOOLEAN
  /\ Lists \subseteq Sids \X Endpoints \X BOOLEAN
ASSUME PeerLimitsAssumption ==
  /\ {MaxCandidates, MinCandidates, MaxReconnect, MaxOut, MinAvailable, MaxIn} \subseteq Nat
  /\ MaxReconnect # 0

VARIABLES
  cand,    \* m_peer_candidates, by endpoint: state, reconn_cnt, node_id
  peers,   \* m_peer_nodes_map: the channel of each connected node
  p2pQ,    \* messages for p2p_net_service
  cmQ,     \* channel errors for connection_manager
  ch,      \* the channels, see Channel
  ghosts,  \* history: channels that became a peer node's after
           \* p2p_net_service had handled their error
  early,   \* history: channels whose error connection_manager handled
           \* before they were in m_channels
  leaked   \* history: candidates left in use when their connection was
           \* stopped without an error

vars == <<cand, peers, p2pQ, cmQ, ch, ghosts, early, leaked>>

-----------------------------------------------------------------------------
NetState    == {"none", "idle", "in_use", "failed", "zombie", "available"}
NoCandidate == [st |-> "none", cnt |-> 0, id |-> NoNode]

\* A channel is connecting, started (it reads, and is not in m_channels yet),
\* on (in m_channels), off (removed, the stop is posted) or stopped.  ver
\* follows the version message this side sends.
Channel == [st : {"unused", "connecting", "started", "on", "off", "stopped"},
            ep : Endpoints \cup {NoEndpoint},
            reading : BOOLEAN,                        \* async_read is pending
            timer : {"none", "version", "shake"},
            ver : {"none", "writing", "sent", "failed"},
            got : BOOLEAN,                            \* m_recv_ver_req
            login : BOOLEAN,                          \* m_login_success
            err : BOOLEAN]    \* history: p2p_net_service handled an error of it

Unused == [st |-> "unused", ep |-> NoEndpoint, reading |-> FALSE, timer |-> "none",
           ver |-> "none", got |-> FALSE, login |-> FALSE, err |-> FALSE]
Gone(e) == [Unused EXCEPT !.st = "stopped", !.ep = e]

\* ok: the connection succeeded, the signature verifies, the list of nodes
\* has one entry.
Message == [type : {"connect", "error", "ver_req", "ver_resp", "nodes"},
            sid : Sids, ep : Endpoints \cup {NoEndpoint},
            node : Nodes \cup {NoNode, Self}, ok : BOOLEAN]

Msg(type, s, e, n, ok) == [type |-> type, sid |-> s, ep |-> e, node |-> n, ok |-> ok]

Init ==
  /\ cand = [e \in Endpoints |-> NoCandidate]
  /\ peers = [n \in Nodes |-> NoSid]
  /\ p2pQ = <<>> /\ cmQ = <<>>
  /\ \E pool \in SidPools :
       ch = [s \in Sids |-> IF s \in pool THEN Unused ELSE Gone(NoEndpoint)]
  /\ ghosts = {} /\ early = {} /\ leaked = {}

\* Callbacks still run for the channel: m_state is not CHANNEL_STOPPED.
Live(s) == ch[s].st \in {"started", "on", "off"}

\* error_notify: both services get the message.
Publish(s) ==
  /\ p2pQ' = Append(p2pQ, Msg("error", s, ch[s].ep, NoNode, FALSE))
  /\ cmQ' = Append(cmQ, s)

serviceVars == <<cand, peers, ghosts, early, leaked>>

-----------------------------------------------------------------------------
(***************************************************************************)
(* The acceptor thread and the callbacks of the worker thread.             *)
(***************************************************************************)

\* tcp_connector: the socket is connected and the channel entered, in one
\* callback; or the last retry failed.
OnConnect(s) ==
  /\ ch[s].st = "connecting"
  /\ \E ok \in BOOLEAN :
       /\ ch' = [ch EXCEPT ![s].st = IF ok THEN "on" ELSE "stopped", ![s].reading = ok]
       /\ p2pQ' = Append(p2pQ, Msg("connect", s, ch[s].ep, NoNode, ok))
  /\ UNCHANGED <<cmQ, serviceVars>>

\* tcp_acceptor: the accepted channel is started, and waits for a ver_req.
OnAccept(s) ==
  /\ s \in ServerSids /\ ch[s].st = "unused"
  /\ ch' = [ch EXCEPT ![s].st = "started", ![s].reading = TRUE, ![s].timer = "version"]
  /\ UNCHANGED <<p2pQ, cmQ, serviceVars>>

\* Inbound channels in m_channels.
InConnectNum == Cardinality({s \in ServerSids : ch[s].st = "on"})

\* Fault seeded for InboundBounded: the count leaves out the channels that
\* have not logged in.
CheckOverMaxConnectLoggedIn == Cardinality({s \in ServerSids : ch[s].st = "on" /\ ch[s].login}) <= MaxIn

CheckOverMaxConnect == InConnectNum <= MaxIn

\* The acceptor thread enters the channel in m_channels, or closes it.
AddChannel(s) ==
  /\ s \in ServerSids /\ ch[s].st = "started"
  /\ IF CheckOverMaxConnect
       THEN ch' = [ch EXCEPT ![s].st = "on"] /\ UNCHANGED <<p2pQ, cmQ>>
       ELSE ch' = [ch EXCEPT ![s] = Gone(NoEndpoint)] /\ Publish(s)
  /\ UNCHANGED serviceVars

\* on_read ends without another async_read and reports an error.
ReadFailed(s) ==
  /\ ch' = [ch EXCEPT ![s].reading = FALSE]
  /\ Publish(s)
  /\ UNCHANGED serviceVars

\* The remote end disconnects, or the socket fails.
SocketError(s) == Live(s) /\ ch[s].reading /\ ReadFailed(s)

\* Fault seeded for OnePeerPerChannel: m_recv_ver_req is not looked at.
ReadVerReqAgain(s, n, ok) ==
  /\ s \in ServerSids /\ Live(s) /\ ch[s].reading
  /\ IF n = Self
       THEN ReadFailed(s)
       ELSE /\ ch' = [ch EXCEPT ![s].got = TRUE, ![s].timer = "none"]
            /\ p2pQ' = Append(p2pQ, Msg("ver_req", s, NoEndpoint, n, ok))
            /\ UNCHANGED <<cmQ, serviceVars>>

\* A ver_req arrives at the accepting side.
ReadVerReq(s, n, ok) ==
  /\ s \in ServerSids /\ Live(s) /\ ch[s].reading
  /\ IF ch[s].got \/ n = Self
       THEN ReadFailed(s)
       ELSE /\ ch' = [ch EXCEPT ![s].got = TRUE, ![s].timer = "none"]
            /\ p2pQ' = Append(p2pQ, Msg("ver_req", s, NoEndpoint, n, ok))
            /\ UNCHANGED <<cmQ, serviceVars>>

\* A ver_resp arrives at the connecting side: the handler logs in before the
\* service has looked at the signature.
ReadVerResp(s, ok) ==
  /\ s \in ClientSids /\ Live(s) /\ ch[s].reading /\ ch[s].ver = "sent"
  /\ IF ch[s].login
       THEN ReadFailed(s)
       ELSE /\ ch' = [ch EXCEPT ![s].login = TRUE, ![s].timer = "none"]
            /\ p2pQ' = Append(p2pQ, Msg("ver_resp", s, ch[s].ep, NodeAt[ch[s].ep], ok))
            /\ UNCHANGED <<cmQ, serviceVars>>

\* Any other message is an error before the login.
ReadOther(s) == Live(s) /\ ch[s].reading /\ ~ch[s].login /\ ReadFailed(s)

\* After it a list of peer nodes is for p2p_net_service, and the others are
\* not its concern.
ReadPeerNodes(s, e, single) ==
  /\ Live(s) /\ ch[s].reading /\ ch[s].login
  /\ \A i \in DOMAIN p2pQ : p2pQ[i].type # "nodes"             \* bound: one at a time
  /\ p2pQ' = Append(p2pQ, Msg("nodes", s, e, NodeAt[e], single))
  /\ UNCHANGED <<ch, cmQ, serviceVars>>

\* Fault seeded for ChannelDecided: nobody waits for the ver_resp.
VersionSentNoTimer(s) ==
  /\ Live(s) /\ ch[s].ver = "writing"
  /\ ch' = [ch EXCEPT ![s].ver = "sent",
                      ![s].timer = IF s \in ServerSids THEN "shake" ELSE @,
                      ![s].login = IF s \in ServerSids THEN TRUE ELSE @]
  /\ UNCHANGED <<p2pQ, cmQ, serviceVars>>

\* on_after_msg_sent: after a ver_req the client waits for the answer, after
\* a ver_resp the server is logged in and watches the shake hands.
VersionSent(s) ==
  /\ Live(s) /\ ch[s].ver = "writing"
  /\ ch' = [ch EXCEPT ![s].ver = "sent",
                      ![s].timer = IF s \in ServerSids THEN "shake" ELSE "version",
                      ![s].login = IF s \in ServerSids THEN TRUE ELSE @]
  /\ UNCHANGED <<p2pQ, cmQ, serviceVars>>

WriteError(s) ==
  /\ Live(s) /\ ch[s].ver = "writing"
  /\ ch' = [ch EXCEPT ![s].ver = "failed"]
  /\ Publish(s)
  /\ UNCHANGED serviceVars

\* The version message did not come in time, or (server side) shake hands
\* were lost too often.  The channel goes on reading until it is stopped.
TimerExpired(s) ==
  /\ Live(s) /\ ch[s].timer # "none"
  /\ ch' = [ch EXCEPT ![s].timer = "none"]
  /\ Publish(s)
  /\ UNCHANGED serviceVars

\* The posted part of tcp_socket_channel::stop.
StopPosted(s) ==
  /\ ch[s].st = "off"
  /\ ch' = [ch EXCEPT ![s] = Gone(ch[s].ep)]
  /\ UNCHANGED <<p2pQ, cmQ, serviceVars>>

\* m_channels of stop_channel: nothing happens if the channel is not there.
Stopped(s) == IF ch[s].st = "on" THEN [ch EXCEPT ![s].st = "off"] ELSE ch

\* connection_manager::on_tcp_channel_error.
CmChannelError ==
  LET s == Head(cmQ) IN
  /\ cmQ # <<>>
  /\ cmQ' = Tail(cmQ)
  /\ ch' = Stopped(s)
  /\ early' = IF ch[s].st = "started" THEN early \cup {s} ELSE early
  /\ UNCHANGED <<cand, peers, p2pQ, ghosts, leaked>>

-----------------------------------------------------------------------------
(***************************************************************************)
(* p2p_net_service: the messages.                                          *)
(***************************************************************************)

\* The candidate a message is about.
Known(e) == e \in Endpoints /\ cand[e].st # "none"

\* The next message has this type and is taken out of the queue.
Handle(type) ==
  /\ p2pQ # <<>> /\ Head(p2pQ).type = type
  /\ p2pQ' = Tail(p2pQ)

OnClientTcpConnectNotify ==
  LET m == Head(p2pQ) IN
  /\ Handle("connect")
  /\ ch' = IF ~Known(m.ep) THEN Stopped(m.sid)
             ELSE IF m.ok /\ ch[m.sid].st = "on" THEN [ch EXCEPT ![m.sid].ver = "writing"]
             ELSE ch
  /\ cand' = IF Known(m.ep) /\ ~m.ok THEN [cand EXCEPT ![m.ep].st = "failed"] ELSE cand
  /\ UNCHANGED <<peers, cmQ, ghosts, early, leaked>>

Without(s) == [n \in Nodes |-> IF peers[n] = s THEN NoSid ELSE peers[n]]

\* Fault seeded for PeerBacked: the peer node of the channel stays.
OnTcpChannelErrorKeepNode ==
  LET m == Head(p2pQ) IN
  /\ Handle("error")
  /\ cand' = IF Known(m.ep) /\ cand[m.ep].st \notin {"zombie", "available"}
               THEN [cand EXCEPT ![m.ep].st = "failed"] ELSE cand
  /\ ch' = [ch EXCEPT ![m.sid].err = Live(m.sid)]
  /\ UNCHANGED <<peers, cmQ, ghosts, early, leaked>>

\* The error names a channel and its endpoint; the candidate is found by the
\* latter.
OnTcpChannelError ==
  LET m == Head(p2pQ) IN
  /\ Handle("error")
  /\ cand' = IF Known(m.ep) /\ cand[m.ep].st \notin {"zombie", "available"}
               THEN [cand EXCEPT ![m.ep].st = "failed"] ELSE cand
  /\ peers' = Without(m.sid)
  /\ ch' = [ch EXCEPT ![m.sid].err = Live(m.sid)]
  /\ UNCHANGED <<cmQ, ghosts, early, leaked>>

\* add_peer_node succeeds.
CanAdd(m) == m.node \in Nodes /\ peers[m.node] = NoSid /\ ch[m.sid].st = "on"

Add(m) ==
  /\ peers' = [peers EXCEPT ![m.node] = m.sid]
  /\ ghosts' = IF ch[m.sid].err THEN ghosts \cup {m.sid} ELSE ghosts

\* Fault seeded for ReadyIsPeer: the answer is sent before add_peer_node.
OnVerReqAnswerFirst ==
  LET m == Head(p2pQ) IN
  /\ Handle("ver_req")
  /\ IF CanAdd(m) THEN Add(m) ELSE UNCHANGED <<peers, ghosts>>
  /\ ch' = IF ch[m.sid].st = "on" /\ m.ok THEN [ch EXCEPT ![m.sid].ver = "writing"] ELSE ch
  /\ UNCHANGED <<cand, cmQ, early, leaked>>

\* A request whose signature does not verify has been entered as peer node
\* by then; it gets no answer.
OnVerReq ==
  LET m == Head(p2pQ) IN
  /\ Handle("ver_req")
  /\ IF CanAdd(m)
       THEN /\ Add(m)
            /\ ch' = IF m.ok THEN [ch EXCEPT ![m.sid].ver = "writing"] ELSE ch
       ELSE /\ ch' = Stopped(m.sid)
            /\ UNCHANGED <<peers, ghosts>>
  /\ UNCHANGED <<cand, cmQ, early, leaked>>

OutNum == Cardinality({n \in Nodes : peers[n] \in ClientSids})

\* Fault seeded for InUseBacked: no state is set when there are enough
\* connections.
OnVerRespNoState ==
  LET m == Head(p2pQ) IN
  /\ Handle("ver_resp")
  /\ IF ~m.ok \/ ch[m.sid].st # "on"
       THEN UNCHANGED <<cand, peers, ghosts, ch, leaked>>
       ELSE LET c == IF Known(m.ep) THEN [cand EXCEPT ![m.ep].id = m.node] ELSE cand IN
            \/ /\ OutNum >= MaxOut
               /\ cand' = c
               /\ ch' = Stopped(m.sid) /\ UNCHANGED <<peers, ghosts, leaked>>
            \/ /\ OutNum < MaxOut /\ ~CanAdd(m)
               /\ cand' = c /\ leaked' = leaked \cup {m.ep}
               /\ ch' = Stopped(m.sid) /\ UNCHANGED <<peers, ghosts>>
            \/ /\ OutNum < MaxOut /\ CanAdd(m)
               /\ Add(m)
               /\ cand' = IF Known(m.ep) THEN [c EXCEPT ![m.ep].cnt = 0] ELSE c
               /\ UNCHANGED <<ch, leaked>>
  /\ UNCHANGED <<cmQ, early>>

\* With enough connections the candidate becomes available; when the node
\* cannot be added (it is connected already) the candidate stays in use.
OnVerResp ==
  LET m == Head(p2pQ) IN
  /\ Handle("ver_resp")
  /\ IF ~m.ok \/ ch[m.sid].st # "on"
       THEN UNCHANGED <<cand, peers, ghosts, ch, leaked>>
       ELSE LET c == IF Known(m.ep) THEN [cand EXCEPT ![m.ep].id = m.node] ELSE cand IN
            \/ /\ OutNum >= MaxOut
               /\ cand' = IF Known(m.ep) THEN [c EXCEPT ![m.ep].st = "available"] ELSE c
               /\ ch' = Stopped(m.sid) /\ UNCHANGED <<peers, ghosts, leaked>>
            \/ /\ OutNum < MaxOut /\ ~CanAdd(m)
               /\ cand' = c /\ leaked' = leaked \cup {m.ep}
               /\ ch' = Stopped(m.sid) /\ UNCHANGED <<peers, ghosts>>
            \/ /\ OutNum < MaxOut /\ CanAdd(m)
               /\ Add(m)
               /\ cand' = IF Known(m.ep) THEN [c EXCEPT ![m.ep].cnt = 0] ELSE c
               /\ UNCHANGED <<ch, leaked>>
  /\ UNCHANGED <<cmQ, early>>

CandidateCount == Cardinality({e \in Endpoints : cand[e].st # "none"})

\* A list of one node names a candidate that is available, a longer one
\* candidates to be tried.
OnBroadcastPeerNodes ==
  LET m == Head(p2pQ)
      c == cand[m.ep] IN
  /\ Handle("nodes")
  /\ cand' = IF CandidateCount >= MaxCandidates THEN cand
               ELSE [cand EXCEPT ![m.ep] =
                 IF m.ok THEN [c EXCEPT !.st = IF @ = "none" THEN "available" ELSE @, !.id = m.node]
                 ELSE IF c.st = "none" THEN [NoCandidate EXCEPT !.st = "idle"]
                 ELSE [c EXCEPT !.id = IF @ = NoNode THEN m.node ELSE @]]
  /\ UNCHANGED <<peers, cmQ, ch, ghosts, early, leaked>>

-----------------------------------------------------------------------------
(***************************************************************************)
(* p2p_net_service: the timers.                                            *)
(***************************************************************************)
FreshSids == {s \in ClientSids : ch[s].st = "unused"}

\* start_connect to each of the endpoints, over fresh socket ids in order.
Connect(es, base) ==
  \E f \in Injection(es, FreshSids) :
    /\ \A s \in Range(f), t \in FreshSids : t < s => t \in Range(f)
    /\ ch' = [s \in Sids |->
                IF s \in Range(f)
                  THEN [Unused EXCEPT !.st = "connecting", !.ep = CHOOSE e \in es : f[e] = s]
                  ELSE base[s]]

\* exist_peer_node, by the endpoint of the connection.
Connected(e) == \E n \in Nodes : peers[n] \in Sids /\ ch[peers[n]].ep = e

ConnectedNode(n) == n \in Nodes /\ peers[n] # NoSid

\* Fault seeded for TypeOK: the limit is off by one.
ExpiredLater(e) == cand[e].st = "failed" /\ cand[e].cnt > MaxReconnect

Expired(e) == cand[e].st = "failed" /\ cand[e].cnt >= MaxReconnect

\* Candidates that failed too often are dropped, seeds are added when few
\* are left (as many as the list holds), and all that can be tried are
\* connected (the code stops after 17, more than an instance has).
OnTimerCheckPeerCandidates ==
  LET kept  == [e \in Endpoints |-> IF Expired(e) THEN NoCandidate ELSE cand[e]]
      there == {e \in Endpoints : kept[e].st # "none"}
      few   == Cardinality({e \in there : kept[e].st # "zombie"}) < MinCandidates IN
  \E new \in SUBSET (Seeds \ there) :
    LET c     == [e \in Endpoints |-> IF e \in new THEN [NoCandidate EXCEPT !.st = "idle"] ELSE kept[e]]
        try   == {e \in Endpoints : c[e].st \in {"idle", "failed"}}
        known == {e \in try : ConnectedNode(c[e].id) \/ Connected(e)}
        mine  == {e \in try \ known : c[e].id = Self}
        go    == try \ (known \cup mine) IN
    /\ IF few THEN new = Seeds \ there \/ Cardinality(there \cup new) = MaxCandidates
              ELSE new = {}
    /\ Connect(go, ch)
    /\ cand' = [e \in Endpoints |->
                  CASE e \in known -> [c[e] EXCEPT !.cnt = 0]
                    [] e \in mine -> [c[e] EXCEPT !.st = "zombie"]
                    [] e \in go -> [c[e] EXCEPT !.st = "in_use", !.cnt = @ + 1]
                    [] OTHER -> c[e]]
    /\ leaked' = leaked \ go
    /\ UNCHANGED <<peers, p2pQ, cmQ, ghosts, early>>

Available == {e \in Endpoints : cand[e].st = "available"}

\* on_timer_dyanmic_adjust_network with too few connections: as many
\* available candidates as are missing are connected.
AdjustConnect ==
  /\ OutNum < MaxOut
  /\ \E es \in SUBSET Available :
       /\ es = Available \/ Cardinality(es) = MaxOut - OutNum
       /\ Cardinality(es) <= MaxOut - OutNum
       /\ Connect({e \in es : ~Connected(e)}, ch)
       /\ cand' = [e \in Endpoints |->
                     IF e \in es THEN [cand[e] EXCEPT !.st = IF Connected(e) THEN "failed" ELSE "in_use"]
                     ELSE cand[e]]
       /\ leaked' = leaked \ es
  /\ UNCHANGED <<peers, p2pQ, cmQ, ghosts, early>>

\* ... and with enough: one node, a seed or now and then any other, makes
\* room for an available candidate that is not connected, seeds last.  Without
\* such a candidate the one of the disconnected node stays in use.
AdjustReplace(n) ==
  LET s     == peers[n]
      e     == ch[s].ep
      other == {f \in Available : ~(cand[f].id # n /\ ConnectedNode(cand[f].id))}
      pick  == IF other \subseteq Seeds THEN other ELSE other \ Seeds IN
  /\ OutNum >= MaxOut
  /\ s \in ClientSids
  /\ Cardinality(Available \ Seeds) >= MinAvailable
  /\ peers' = [peers EXCEPT ![n] = NoSid]
  /\ \/ /\ other = {}
        /\ ch' = Stopped(s) /\ leaked' = leaked \cup {e}
        /\ UNCHANGED cand
     \/ \E f \in pick :
          LET c == IF Known(e) THEN [cand EXCEPT ![e].st = "available"] ELSE cand
              there == \E m \in Nodes \ {n} : peers[m] \in Sids /\ ch[peers[m]].ep = f IN
          /\ Connect(IF there THEN {} ELSE {f}, Stopped(s))
          /\ cand' = [c EXCEPT ![f].st = IF there THEN "failed" ELSE "in_use"]
          /\ leaked' = leaked \ {f}
  /\ UNCHANGED <<p2pQ, cmQ, ghosts, early>>

-----------------------------------------------------------------------------
P2pMessage == \/ OnClientTcpConnectNotify \/ OnTcpChannelError
              \/ OnVerReq \/ OnVerResp \/ OnBroadcastPeerNodes

P2pTimer == \/ OnTimerCheckPeerCandidates \/ AdjustConnect
            \/ \E n \in Nodes : AdjustReplace(n)

Remote(s) ==
  \/ SocketError(s)
  \/ \E r \in Requests : s = r[1] /\ ReadVerReq(s, r[2], r[3])
  \/ \E ok \in BOOLEAN : ReadVerResp(s, ok)
  \/ ReadOther(s)
  \/ \E l \in Lists : s = l[1] /\ ReadPeerNodes(s, l[2], l[3])

Next ==
  \/ P2pMessage \/ P2pTimer \/ CmChannelError
  \/ \E s \in Sids : \/ OnConnect(s) \/ OnAccept(s) \/ AddChannel(s) \/ Remote(s)
                     \/ VersionSent(s) \/ WriteError(s) \/ TimerExpired(s) \/ StopPosted(s)

Spec == Init /\ [][Next]_vars

\* What the worker thread owes the channels: each of these happens finitely
\* often to a channel.
Worker ==
  \E s \in Sids : \/ OnConnect(s) \/ VersionSent(s) \/ WriteError(s) \/ StopPosted(s)
                  \/ ch[s].timer = "version" /\ TimerExpired(s)

\* The four threads keep running and the version timers expire.  A remote node
\* that opened a connection gives it up when its ver_req is not answered: its
\* own handler waits five seconds for the ver_resp.
Fairness ==
  /\ WF_vars(P2pMessage) /\ WF_vars(CmChannelError) /\ WF_vars(Worker)
  /\ WF_vars(\E s \in ServerSids : AddChannel(s))
  /\ WF_vars(\E s \in ServerSids : ~ch[s].login /\ SocketError(s))

FairSpec == Spec /\ Fairness

-----------------------------------------------------------------------------
(***************************************************************************)
(* Properties.                                                             *)
(***************************************************************************)
PendingError(s) == \E i \in DOMAIN p2pQ : p2pQ[i].type = "error" /\ p2pQ[i].sid = s

\* Every variable has its type.
TypeOK ==
  /\ cand \in [Endpoints -> [st : NetState, cnt : 0 .. MaxReconnect, id : Nodes \cup {NoNode, Self}]]
  /\ peers \in [Nodes -> Sids \cup {NoSid}]
  /\ p2pQ \in Seq(Message) /\ cmQ \in Seq(Sids)
  /\ ch \in [Sids -> Channel]
  /\ ghosts \subseteq Sids /\ early \subseteq Sids /\ leaked \subseteq Endpoints

\* A channel stands for one node: on_tcp_channel_error removes one entry of
\* m_peer_nodes_map per error, so a second one would stay for ever.
OnePeerPerChannel ==
  \A n, m \in Nodes : n # m /\ peers[n] # NoSid => peers[n] # peers[m]

\* The channel of a peer node is in m_channels, or its error is still to be
\* handled by p2p_net_service, whatever the order in which the two services
\* handle it.  Excepted is a version message that is read after the channel
\* reported an error and handled after that error.
PeerBacked ==
  \A n \in Nodes : peers[n] # NoSid =>
    ch[peers[n]].st = "on" \/ PendingError(peers[n]) \/ peers[n] \in ghosts

\* A candidate in use is being connected or is connected: one of its
\* channels is on its way, in m_channels, or has its outcome queued.
\* Excepted are the two places where the code stops the channel and sets no
\* state.
InUseBacked ==
  \A e \in Endpoints \ leaked : cand[e].st = "in_use" =>
    \E s \in ClientSids : /\ ch[s].ep = e
                          /\ \/ ch[s].st \in {"connecting", "on"}
                             \/ \E i \in DOMAIN p2pQ : p2pQ[i].sid = s /\ p2pQ[i].type \in {"connect", "error"}

\* An inbound channel that is ready for use (broadcast_message sends to it
\* and its messages are delivered) belongs to a peer node, or
\* connection_manager is about to stop it.  Excepted is a channel whose error
\* was handled before the acceptor thread entered it.
ReadyIsPeer ==
  \A s \in ServerSids \ early : ch[s].st = "on" /\ ch[s].login =>
    (\E n \in Nodes : peers[n] = s) \/ (\E i \in DOMAIN cmQ : cmQ[i] = s)

\* The limits on inbound channels (one more than the difference of the
\* limits in the code) and on outbound peer nodes hold.
InboundBounded == InConnectNum <= MaxIn + 1 /\ OutNum <= MaxOut

\* A channel in m_channels logs in and stays readable, or is removed and
\* stopped: with the connections of a behaviour all opened, a moment comes at
\* which this holds of every one of them.  Excepted are channels whose error
\* was handled before the acceptor thread entered them.
ChannelDecided ==
  []<>(\A s \in Sids \ early : Live(s) => ch[s].st = "on" /\ ch[s].login /\ ch[s].reading)
=============================================================================
