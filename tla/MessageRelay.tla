---------------------------- MODULE MessageRelay ----------------------------
(***************************************************************************)
(* How a remote command travels through the peer network.                  *)
(*                                                                         *)
(* rest_api_service of the client broadcasts the request to all connected  *)
(* nodes.  node_request_service of a node that sees the nonce for the      *)
(* first time runs the command if it is the target, and otherwise adds     *)
(* itself to the path in the header and broadcasts the request to all but  *)
(* the channel it came from.  The response takes the path backwards: each  *)
(* node hands it to the first node of the path it is connected to, until   *)
(* the client finds the session.                                           *)
(*                                                                         *)
(* A message waits in the send queue of its channel, is then on the wire,  *)
(* is read by the I/O thread, which drops what went over the channel       *)
(* before, and then waits for the thread of the service.  It is late there *)
(* if its channel is gone.  Connections break and are made, messages are   *)
(* dropped by flow control and full queues, nodes are restarted, calls     *)
(* time out.  The order of the messages of a channel is left open; both    *)
(* ends of a connection notice at once that it is broken.                  *)
(***************************************************************************)
EXTENDS Naturals, Sequences, SequencesExt, FiniteSets

CONSTANTS
  Nodes,
  Requests,
  ClientOf,     \* the node whose gateway sends a request
  TargetOf,     \* the compute node it is for: peer_nodes_list[0]
  Validated,    \* requests whose path the channels validate: list_task, logs
  Topologies,   \* bound: the connections a behaviour may begin with
  MaxSent,      \* bound on requests
  MaxFaults,    \* bound on broken connections, dropped messages, restarts
  MaxUps        \* bound on new connections

ASSUME RoutesAssumption ==
  /\ ClientOf \in [Requests -> Nodes] /\ TargetOf \in [Requests -> Nodes]
  /\ Validated \subseteq Requests
ASSUME TopologiesAssumption ==
  \A t \in Topologies : \A l \in t : \E a, b \in Nodes : a # b /\ l = {a, b}
ASSUME RelayBoundsAssumption == MaxSent \in Nat /\ MaxFaults \in Nat /\ MaxUps \in Nat

VARIABLES
  links,      \* ready channels, as pairs of nodes
  msgs,       \* messages, see Message
  known,      \* m_nonce_filter of the channels: <<node, peer, request, run>>
  seen,       \* m_nonce_filter of each node_request_service
  sessions,   \* open sessions of the gateways
  sent,       \* requests that were broadcast
  runs,       \* history: how often a request was run
  answers,    \* history: how often it was answered by a response
  restarts,   \* history: how often a node was restarted
  faults, ups

vars == <<links, msgs, known, seen, sessions, sent, runs, answers, restarts, faults, ups>>

\* A request has run 0; the response of the i-th run has run i, for each
\* response has a nonce of its own.
Message == [req : Requests, run : Nat, from : Nodes, to : Nodes,
            path : Seq(Nodes), at : {"queue", "wire", "inbox", "late"}]

Msg(r, run, n, k, path) ==
  [req |-> r, run |-> run, from |-> n, to |-> k, path |-> path, at |-> "queue"]

Init ==
  /\ links \in Topologies
  /\ msgs = {} /\ known = {}
  /\ seen = [n \in Nodes |-> {}]
  /\ sessions = {} /\ sent = {}
  /\ runs = [r \in Requests |-> 0] /\ answers = [r \in Requests |-> 0]
  /\ restarts = [n \in Nodes |-> 0]
  /\ faults = 0 /\ ups = 0

Neighbours(n) == {k \in Nodes \ {n} : {n, k} \in links}

-----------------------------------------------------------------------------
\* broadcast_message, to all ready channels but those to the nodes in except.
Broadcast(n, r, path, except) ==
  {Msg(r, 0, n, k, path) : k \in Neighbours(n) \ except}

\* A rest_ function has opened the session; the path begins with the client.
Send(r) ==
  /\ r \notin sent /\ Cardinality(sent) < MaxSent
  /\ sent' = sent \cup {r} /\ sessions' = sessions \cup {r}
  /\ msgs' = msgs \cup Broadcast(ClientOf[r], r, <<ClientOf[r]>>, {})
  /\ UNCHANGED <<links, known, seen, runs, answers, restarts, faults, ups>>

\* tcp_socket_channel encodes the next message of its queue: the channel
\* will not take it back.
Write(m) ==
  /\ m.at = "queue"
  /\ msgs' = (msgs \ {m}) \cup {[m EXCEPT !.at = "wire"]}
  /\ known' = known \cup {<<m.from, m.to, m.req, m.run>>}
  /\ UNCHANGED <<links, seen, sessions, sent, runs, answers, restarts, faults, ups>>

\* write finds the send queue full.
Refuse(m) ==
  /\ m.at = "queue" /\ faults < MaxFaults
  /\ msgs' = msgs \ {m} /\ faults' = faults + 1
  /\ UNCHANGED <<links, known, seen, sessions, sent, runs, answers, restarts, ups>>

\* Fault seeded for RelayedOnce: a node does not look for itself in the path.
ValidPathNoSelf(m) ==
  /\ \A i \in 1..Len(m.path) - 1 : m.path[i] # m.path[i + 1]
  /\ m.run = 0 => Len(m.path) \in 1..100 /\ Last(m.path) = m.from

\* validate_req_path and validate_resp_path.
ValidPath(m) ==
  /\ \A i \in 1..Len(m.path) - 1 : m.path[i] # m.path[i + 1]
  /\ IF m.run = 0
       THEN /\ Len(m.path) \in 1..100 /\ Last(m.path) = m.from
            /\ m.to \notin Range(m.path)
       ELSE Len(m.path) <= 20

\* on_read of the channel's handler: the message goes to the service, unless
\* its path is not valid, its nonce went over the channel before, or flow
\* control drops it.
Read(m) ==
  LET key == <<m.to, m.from, m.req, m.run>> IN
  /\ m.at = "wire"
  /\ IF m.req \in Validated /\ ~ValidPath(m)
       THEN msgs' = msgs \ {m} /\ UNCHANGED <<known, faults>>
       ELSE /\ known' = known \cup {key}
            /\ \/ key \in known /\ msgs' = msgs \ {m} /\ UNCHANGED faults
               \/ /\ key \notin known
                  /\ msgs' = (msgs \ {m}) \cup {[m EXCEPT !.at = "inbox"]}
                  /\ UNCHANGED faults
               \/ /\ key \notin known /\ faults < MaxFaults
                  /\ msgs' = msgs \ {m} /\ faults' = faults + 1
  /\ UNCHANGED <<links, seen, sessions, sent, runs, answers, restarts, ups>>

\* The channel a message came in by, if it is still there.
Source(m) == IF m.at = "late" THEN {} ELSE {m.from}

\* find_fast_path: the first place of the path with a ready channel, if any.
NextHop(n, path) ==
  LET hops == {i \in DOMAIN path : path[i] \in Neighbours(n)}
  IN  {i \in hops : \A j \in hops : i <= j}

\* Fault seeded for WayBack: the node found stays on the path.
SendRespKeepsHop(n, r, run, path) ==
  {Msg(r, run, n, path[i], SubSeq(path, 1, i)) : i \in NextHop(n, path)}

\* send_resp_message: to that node, with the path cut off before it.  Without
\* one nothing is sent.
SendResp(n, r, run, path) ==
  {Msg(r, run, n, path[i], SubSeq(path, 1, i - 1)) : i \in NextHop(n, path)}

Handled(m) == m \in msgs /\ m.at \in {"inbox", "late"}

\* Fault seeded for Delivered: a relay does not put itself on the path.
RunOrRelayNoPath(m, n) ==
  IF n = TargetOf[m.req]
    THEN /\ runs' = [runs EXCEPT ![m.req] = runs[m.req] + 1]
         /\ msgs' = (msgs \ {m}) \cup SendResp(n, m.req, runs[m.req] + 1, m.path)
    ELSE /\ msgs' = (msgs \ {m}) \cup Broadcast(n, m.req, m.path, Source(m))
         /\ UNCHANGED runs

\* The target runs the command and answers it; any other node relays it.
RunOrRelay(m, n) ==
  IF n = TargetOf[m.req]
    THEN /\ runs' = [runs EXCEPT ![m.req] = runs[m.req] + 1]
         /\ msgs' = (msgs \ {m}) \cup SendResp(n, m.req, runs[m.req] + 1, m.path)
    ELSE /\ msgs' = (msgs \ {m}) \cup
                      Broadcast(n, m.req, Append(m.path, n), Source(m))
         /\ UNCHANGED runs

\* Fault seeded for RemoteCallSpec: the nonce is looked up and not kept.
OnNodeReqForgets(m) ==
  /\ Handled(m) /\ m.run = 0
  /\ RunOrRelay(m, m.to)
  /\ UNCHANGED <<links, known, seen, sessions, sent, answers, restarts, faults, ups>>

\* The on_node_..._req functions: a nonce that was seen is dropped.
OnNodeReq(m) ==
  LET n == m.to IN
  /\ Handled(m) /\ m.run = 0
  /\ IF m.req \in seen[n]
       THEN msgs' = msgs \ {m} /\ UNCHANGED <<seen, runs>>
       ELSE seen' = [seen EXCEPT ![n] = seen[n] \cup {m.req}] /\ RunOrRelay(m, n)
  /\ UNCHANGED <<links, known, sessions, sent, answers, restarts, faults, ups>>

\* on_call_rsp_handler: the session's node answers and closes the session,
\* any other node passes the response on.
OnCallRsp(m) ==
  LET n == m.to IN
  /\ Handled(m) /\ m.run > 0
  /\ IF n = ClientOf[m.req] /\ m.req \in sessions
       THEN /\ answers' = [answers EXCEPT ![m.req] = answers[m.req] + 1]
            /\ sessions' = sessions \ {m.req}
            /\ msgs' = msgs \ {m}
       ELSE /\ msgs' = (msgs \ {m}) \cup SendResp(n, m.req, m.run, m.path)
            /\ UNCHANGED <<answers, sessions>>
  /\ UNCHANGED <<links, known, seen, sent, runs, restarts, faults, ups>>

\* The timer of the session fires.
Timeout(r) ==
  /\ r \in sessions
  /\ sessions' = sessions \ {r}
  /\ UNCHANGED <<links, msgs, known, seen, sent, runs, answers, restarts, faults, ups>>

-----------------------------------------------------------------------------
\* Fault seeded for TypeOK: what is queued outlives its channel.
CutKeeps(ls) == msgs

\* Without the given connections: what is queued or on the wire is lost, and
\* what was read is late.
Cut(ls) ==
  {IF {m.from, m.to} \in ls THEN [m EXCEPT !.at = "late"] ELSE m :
     m \in {m \in msgs : {m.from, m.to} \in ls => m.at \in {"inbox", "late"}}}

LinkDown(l) ==
  /\ faults < MaxFaults /\ l \in links
  /\ faults' = faults + 1
  /\ links' = links \ {l}
  /\ msgs' = Cut({l})
  /\ known' = {k \in known : {k[1], k[2]} # l}
  /\ UNCHANGED <<seen, sessions, sent, runs, answers, restarts, ups>>

\* p2p_net_service has made a peer node of a new channel.
LinkUp(a, b) ==
  /\ ups < MaxUps /\ a # b /\ {a, b} \notin links
  /\ ups' = ups + 1
  /\ links' = links \cup {{a, b}}
  /\ UNCHANGED <<msgs, known, seen, sessions, sent, runs, answers, restarts, faults>>

\* dbc of a node ends and starts again: its queues, filters, sessions and
\* connections are gone.
Restart(n) ==
  /\ faults < MaxFaults
  /\ faults' = faults + 1
  /\ restarts' = [restarts EXCEPT ![n] = restarts[n] + 1]
  /\ links' = {l \in links : n \notin l}
  /\ msgs' = {m \in Cut({l \in links : n \in l}) : m.to # n}
  /\ known' = {k \in known : n \notin {k[1], k[2]}}
  /\ seen' = [seen EXCEPT ![n] = {}]
  /\ sessions' = {r \in sessions : ClientOf[r] # n}
  /\ UNCHANGED <<sent, runs, answers, ups>>

-----------------------------------------------------------------------------
Progress == \E m \in msgs : Write(m) \/ Read(m) \/ OnNodeReq(m) \/ OnCallRsp(m)

Next ==
  \/ Progress \/ \E m \in msgs : Refuse(m)
  \/ \E r \in Requests : Send(r) \/ Timeout(r)
  \/ \E l \in links : LinkDown(l)
  \/ \E a, b \in Nodes : LinkUp(a, b)
  \/ \E n \in Nodes : Restart(n)

Spec == Init /\ [][Next]_vars

\* The I/O threads and the services go on with the messages they have.
FairSpec == Spec /\ WF_vars(Progress)

-----------------------------------------------------------------------------
\* What is queued, on the wire or in an inbox came over a channel that is
\* still there, and a filter ends with its channel.
ChannelsOK ==
  /\ \A l \in links : \E a, b \in Nodes : a # b /\ l = {a, b}
  /\ msgs \subseteq Message
  /\ \A m \in msgs : m.at # "late" => {m.from, m.to} \in links
  /\ known \subseteq Nodes \X Nodes \X Requests \X Nat
  /\ \A k \in known : {k[1], k[2]} \in links

\* Every variable has its type, and remove_channel leaves nothing behind.
TypeOK ==
  /\ ChannelsOK
  /\ seen \in [Nodes -> SUBSET Requests]
  /\ sessions \subseteq sent /\ sent \subseteq Requests
  /\ runs \in [Requests -> Nat] /\ answers \in [Requests -> Nat]
  /\ restarts \in [Nodes -> Nat]
  /\ faults \in 0..MaxFaults /\ ups \in 0..MaxUps

\* find_fast_path leaves a response a way back: as long as no connection
\* broke and nothing was dropped, the last node of what is left of its path
\* is connected to the node it goes to, and a response without a path goes
\* to the client.
WayBack ==
  faults = 0 => \A m \in msgs : m.run > 0 =>
    IF m.path = <<>> THEN m.to = ClientOf[m.req]
                     ELSE Last(m.path) \in Neighbours(m.to)

\* The filter of node_request_service ends the flood: a node relays a request
\* once between two restarts, and the client, which does not put its own
\* requests into the filter, once more.  Where the channels validate the
\* path no node is on it twice, restarted or not.
RelayedOnce ==
  \A m \in msgs : m.run = 0 => \A n \in Nodes :
    Cardinality({i \in DOMAIN m.path : m.path[i] = n})
      <= IF m.req \in Validated THEN 1
         ELSE 1 + restarts[n] + (IF n = ClientOf[m.req] THEN 1 ELSE 0)

\* The nodes a request of n may get to over the connections there are.
Reachable(n) ==
  {k \in Nodes : \A S \in SUBSET Nodes :
     n \in S /\ (\A a \in S : Neighbours(a) \subseteq S) => k \in S}

\* While nothing fails, a request whose target can be reached when it is sent
\* is answered, or its session is closed by the timer: no filter, on no
\* channel and no node, swallows the only copy.
Delivered ==
  \A r \in Requests :
    r \in sessions /\ TargetOf[r] \in Reachable(ClientOf[r]) /\ TargetOf[r] # ClientOf[r]
      ~> r \notin sessions \/ faults > 0

\* A call as the caller sees it.
CallOf(r) ==
  IF r \notin sent THEN "new"
  ELSE IF r \in sessions THEN "open"
  ELSE IF answers[r] > 0 THEN "answered" ELSE "closed"

RC == INSTANCE RemoteCall
        WITH Calls <- Requests, Servers <- Nodes, ServerOf <- TargetOf,
             state <- [r \in Requests |-> CallOf(r)]

\* The flood implements a remote call: the command runs only after the call,
\* at most once per life of its node, and is answered at most once, by a run.
RemoteCallSpec == RC!Spec
=============================================================================
