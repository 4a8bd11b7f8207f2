--------------------------- MODULE PeerNetProofs ---------------------------
(***************************************************************************)
(* Proofs about PeerNet, for any endpoints, nodes, connections, requests,  *)
(* lists and limits, and queues of any length: its types, that a channel   *)
(* stands for one node, that peer nodes, ready channels and candidates in  *)
(* use are backed by a channel or by a message still to be handled, and    *)
(* the limits on connections.                                              *)
(***************************************************************************)
EXTENDS PeerNet, SequenceTheorems, FiniteSetTheorems, TLAPS

USE SidsAssumption, EndpointsAssumption, NodesAssumption, BoundsAssumption,
    PeerLimitsAssumption

\* The messages of a socket id in a queue of p2p_net_service.
Of(q, s) == {q[i] : i \in {j \in DOMAIN q : q[j].sid = s}}

In(q, s) == \E i \in DOMAIN q : q[i] = s

\* Some peer node has the channel.
HasNode(p, s) == \E n \in Nodes : p[n] = s

IsVer(m) == m.type \in {"ver_req", "ver_resp"}

Ver(M)  == \E m \in M : IsVer(m)
Conn(M) == \E m \in M : m.type = "connect"
Err(M)  == \E m \in M : m.type = "error"

\* A connection's first message is its only result, and it brings one version
\* message.
Order(q) ==
  \A i, j \in DOMAIN q : q[i].sid = q[j].sid =>
    /\ q[j].type = "connect" /\ i <= j => i = j
    /\ IsVer(q[i]) /\ IsVer(q[j]) => i = j

\* The version message was read, once.
Greeted(s, c) == c.st = "stopped" \/ (IF s \in ServerSids THEN c.got ELSE c.login)

\* A channel c of socket id s, the messages M that p2p_net_service has for it,
\* and whether it is a peer node's.
ChanType(s, c, M, p) ==
  /\ c.st = "unused" => c = Unused
  /\ c.st = "connecting" => s \in ClientSids /\ c.ver = "none" /\ ~c.login /\ ~c.err
  /\ s \in ClientSids /\ c.st \in {"connecting", "on", "off"} => c.ep \in Endpoints
  /\ s \in ServerSids => c.ep = NoEndpoint
  /\ c.st = "started" => s \in ServerSids
  /\ p => c.st \in {"on", "off", "stopped"}
  /\ p /\ s \in ClientSids => c.ep \in Endpoints
  /\ \A m \in M : /\ c.st \notin {"unused", "connecting"}
                  /\ m.type \in {"connect", "error", "ver_resp"} => m.ep = c.ep
                  /\ m.type \in {"connect", "ver_resp"} => s \in ClientSids
                  /\ m.type \in {"connect", "ver_resp", "nodes"} => m.ep \in Endpoints
                  /\ m.type = "ver_req" => s \in ServerSids

\* How far a channel has come.  cm: connection_manager has an error of it.
ChanStep(s, c, M, p, cm, ghost, soon) ==
  /\ Ver(M) \/ p => Greeted(s, c)
  /\ p => ~Ver(M)
  /\ Conn(M) => ~p /\ ~Ver(M) /\ ~c.login /\ c.ver = "none" /\ ~c.err
  /\ (\E m \in M : m.type = "connect" /\ m.ok) => c.st = "on" \/ Err(M)
  /\ cm => Err(M) \/ c.err \/ c.st = "stopped"
  /\ p /\ c.err => ghost
  /\ p => c.st = "on" \/ Err(M) \/ ghost
  /\ c.st \in {"started", "on"} /\ Err(M) => cm \/ soon

\* The version message of an inbound channel: it is answered when the channel
\* is a peer node's.
ChanVer(s, c, M, p, cm, soon) ==
  /\ c.st = "started" => c.ver = "none"
  /\ c.login => c.ver = "sent"
  /\ c.ver # "none" => c.got
  /\ Ver(M) => c.ver = "none"
  /\ c.st = "on" /\ c.ver \in {"writing", "sent"} /\ ~soon => p \/ cm

ChanOf(s, c, M, p, cm, ghost, soon) ==
  /\ ChanType(s, c, M, p)
  /\ ChanStep(s, c, M, p, cm, ghost, soon)
  /\ s \in ServerSids => ChanVer(s, c, M, p, cm, soon)

ChanOK(s) ==
  ChanOf(s, ch[s], Of(p2pQ, s), HasNode(peers, s), In(cmQ, s), s \in ghosts, s \in early)

Chans == \A s \in Sids : ChanOK(s)

Candidate == [st : NetState, cnt : 0 .. MaxReconnect, id : Nodes \cup {NoNode, Self}]

\* A candidate that is not tried yet has not failed.
IdleCnt == \A e \in Endpoints : cand[e].st \in {"none", "idle"} => cand[e].cnt = 0

NetInv == TypeOK /\ IdleCnt /\ Order(p2pQ) /\ OnePeerPerChannel /\ Chans

-----------------------------------------------------------------------------
(***************************************************************************)
(* The queues.                                                             *)
(***************************************************************************)

LEMMA OfMessage ==
  ASSUME NEW q \in Seq(Message), NEW s
  PROVE  Of(q, s) \in SUBSET Message /\ \A m \in Of(q, s) : m.sid = s
  <1>1. \A i \in DOMAIN q : q[i] \in Message
    BY LenProperties, ElementOfSeq
  <1> QED
    BY <1>1 DEF Of

\* A message is added for its socket id only.
LEMMA OfAppend ==
  ASSUME NEW q \in Seq(Message), NEW m \in Message, NEW s
  PROVE  /\ m.sid = s => Of(Append(q, m), s) = Of(q, s) \cup {m}
         /\ m.sid # s => Of(Append(q, m), s) = Of(q, s)
  <1>1. /\ DOMAIN q = 1 .. Len(q) /\ DOMAIN Append(q, m) = 1 .. Len(q) + 1 /\ Len(q) \in Nat
        /\ \A i \in 1 .. Len(q) : Append(q, m)[i] = q[i]
        /\ Append(q, m)[Len(q) + 1] = m
    BY LenProperties, AppendProperties
  <1>2. ASSUME NEW x
        PROVE  x \in Of(Append(q, m), s) <=> x \in Of(q, s) \/ (x = m /\ m.sid = s)
    <2>1. x \in Of(Append(q, m), s) <=>
            \E i \in 1 .. Len(q) + 1 : Append(q, m)[i].sid = s /\ x = Append(q, m)[i]
      BY <1>1 DEF Of
    <2>2. x \in Of(q, s) <=> \E i \in 1 .. Len(q) : q[i].sid = s /\ x = q[i]
      BY <1>1 DEF Of
    <2>3. \A i \in 1 .. Len(q) + 1 : i \in 1 .. Len(q) \/ i = Len(q) + 1
      BY <1>1
    <2>4. \A i \in 1 .. Len(q) : i \in 1 .. Len(q) + 1
      BY <1>1
    <2>5. Len(q) + 1 \in 1 .. Len(q) + 1
      BY <1>1
    <2> QED
      BY <1>1, <2>1, <2>2, <2>3, <2>4, <2>5, Zenon
  <1> QED
    BY <1>2

LEMMA OfGrows ==
  ASSUME NEW q \in Seq(Message), NEW m \in Message
  PROVE  /\ \A s : Of(q, s) \subseteq Of(Append(q, m), s)
         /\ m \in Of(Append(q, m), m.sid)
  <1>1. ASSUME NEW s
        PROVE  Of(q, s) \subseteq Of(Append(q, m), s)
    <2>1. /\ m.sid = s => Of(Append(q, m), s) = Of(q, s) \cup {m}
          /\ m.sid # s => Of(Append(q, m), s) = Of(q, s)
      BY OfAppend
    <2> QED
      BY <2>1
  <1>2. m \in Of(Append(q, m), m.sid)
    <2>1. Of(Append(q, m), m.sid) = Of(q, m.sid) \cup {m}
      BY OfAppend
    <2> QED
      BY <2>1
  <1> QED
    BY <1>1, <1>2

LEMMA OfTail ==
  ASSUME NEW q \in Seq(Message), q # <<>>, NEW s
  PROVE  /\ Head(q).sid = s => Of(q, s) = Of(Tail(q), s) \cup {Head(q)}
         /\ Head(q).sid # s => Of(q, s) = Of(Tail(q), s)
  <1>1. /\ DOMAIN q = 1 .. Len(q) /\ DOMAIN Tail(q) = 1 .. Len(q) - 1 /\ Len(q) \in Nat \ {0}
        /\ \A i \in 1 .. Len(q) - 1 : Tail(q)[i] = q[i + 1]
        /\ Head(q) = q[1]
    BY LenProperties, HeadTailProperties, EmptySeq
  <1>2. ASSUME NEW x
        PROVE  x \in Of(q, s) <=> x \in Of(Tail(q), s) \/ (x = q[1] /\ q[1].sid = s)
    <2>1. x \in Of(q, s) <=> \E i \in 1 .. Len(q) : q[i].sid = s /\ x = q[i]
      BY <1>1 DEF Of
    <2>2. x \in Of(Tail(q), s) <=> \E i \in 1 .. Len(q) - 1 : q[i + 1].sid = s /\ x = q[i + 1]
      <3>1. x \in Of(Tail(q), s) <=>
              \E i \in 1 .. Len(q) - 1 : Tail(q)[i].sid = s /\ x = Tail(q)[i]
        BY <1>1 DEF Of
      <3> QED
        BY <1>1, <3>1, Zenon
    <2>3. \A i \in 1 .. Len(q) : i = 1 \/ (i - 1 \in 1 .. Len(q) - 1 /\ i = (i - 1) + 1)
      BY <1>1
    <2>4. 1 \in 1 .. Len(q) /\ \A i \in 1 .. Len(q) - 1 : i + 1 \in 1 .. Len(q)
      BY <1>1
    <2> QED
      BY <2>1, <2>2, <2>3, <2>4
  <1> QED
    BY <1>1, <1>2

LEMMA OrderAppend ==
  ASSUME NEW q \in Seq(Message), NEW m \in Message, Order(q),
         m.type = "connect" => Of(q, m.sid) = {},
         IsVer(m) => ~Ver(Of(q, m.sid))
  PROVE  Order(Append(q, m))
  <1>1. /\ DOMAIN q = 1 .. Len(q) /\ DOMAIN Append(q, m) = 1 .. Len(q) + 1 /\ Len(q) \in Nat
        /\ \A i \in 1 .. Len(q) : Append(q, m)[i] = q[i]
        /\ Append(q, m)[Len(q) + 1] = m
    BY LenProperties, AppendProperties
  <1>2. \A i \in 1 .. Len(q) : q[i].sid = m.sid => q[i] \in Of(q, m.sid)
    BY <1>1 DEF Of
  <1>3. \A i \in 1 .. Len(q) : q[i].sid = m.sid => m.type # "connect" /\ ~(IsVer(m) /\ IsVer(q[i]))
    BY <1>2 DEF Ver
  <1> QED
    BY <1>1, <1>3 DEF Order

LEMMA OrderTail ==
  ASSUME NEW q \in Seq(Message), q # <<>>, Order(q)
  PROVE  /\ Order(Tail(q))
         /\ IsVer(Head(q)) => ~Ver(Of(Tail(q), Head(q).sid))
         /\ ~Conn(Of(Tail(q), Head(q).sid))
  <1>1. /\ DOMAIN q = 1 .. Len(q) /\ DOMAIN Tail(q) = 1 .. Len(q) - 1 /\ Len(q) \in Nat \ {0}
        /\ \A i \in 1 .. Len(q) - 1 : Tail(q)[i] = q[i + 1]
        /\ Head(q) = q[1]
    BY LenProperties, HeadTailProperties, EmptySeq
  <1>2. \A i \in 1 .. Len(q) - 1 : i + 1 \in 1 .. Len(q) /\ i + 1 # 1 /\ 1 <= i + 1 /\ 1 \in 1 .. Len(q)
    BY <1>1
  <1>3. Order(Tail(q))
    BY <1>1, <1>2 DEF Order
  <1>4. \A x \in Of(Tail(q), q[1].sid) :
          \E i \in 1 .. Len(q) - 1 : x = q[i + 1] /\ q[i + 1].sid = q[1].sid
    BY <1>1 DEF Of
  <1>5. \A i \in 1 .. Len(q) - 1 : q[i + 1].sid = q[1].sid =>
          q[i + 1].type # "connect" /\ ~(IsVer(q[1]) /\ IsVer(q[i + 1]))
    BY <1>1, <1>2 DEF Order
  <1> QED
    BY <1>1, <1>3, <1>4, <1>5 DEF Ver, Conn

LEMMA InAppend ==
  ASSUME NEW q \in Seq(Sids), NEW s \in Sids, NEW t
  PROVE  /\ Append(q, s) \in Seq(Sids)
         /\ In(Append(q, s), t) <=> In(q, t) \/ t = s
  <1>1. /\ DOMAIN q = 1 .. Len(q) /\ DOMAIN Append(q, s) = 1 .. Len(q) + 1 /\ Len(q) \in Nat
        /\ \A i \in 1 .. Len(q) : Append(q, s)[i] = q[i]
        /\ Append(q, s)[Len(q) + 1] = s
        /\ Append(q, s) \in Seq(Sids)
    BY LenProperties, AppendProperties
  <1>2. /\ \A i \in 1 .. Len(q) + 1 : i \in 1 .. Len(q) \/ i = Len(q) + 1
        /\ \A i \in 1 .. Len(q) : i \in 1 .. Len(q) + 1
        /\ Len(q) + 1 \in 1 .. Len(q) + 1
    BY <1>1
  <1> QED
    BY <1>1, <1>2, Zenon DEF In

LEMMA InTail ==
  ASSUME NEW q \in Seq(Sids), q # <<>>, NEW t
  PROVE  /\ Tail(q) \in Seq(Sids) /\ Head(q) \in Sids
         /\ In(q, t) <=> In(Tail(q), t) \/ t = Head(q)
  <1>1. /\ DOMAIN q = 1 .. Len(q) /\ DOMAIN Tail(q) = 1 .. Len(q) - 1 /\ Len(q) \in Nat \ {0}
        /\ \A i \in 1 .. Len(q) - 1 : Tail(q)[i] = q[i + 1]
        /\ Head(q) = q[1] /\ Tail(q) \in Seq(Sids) /\ Head(q) \in Sids
    BY LenProperties, HeadTailProperties, EmptySeq
  <1>2. /\ \A i \in 1 .. Len(q) : i = 1 \/ (i - 1 \in 1 .. Len(q) - 1 /\ i = (i - 1) + 1)
        /\ 1 \in 1 .. Len(q) /\ \A i \in 1 .. Len(q) - 1 : i + 1 \in 1 .. Len(q)
    BY <1>1
  <1>3. In(q, t) <=> \E i \in 1 .. Len(q) : q[i] = t
    BY <1>1, Zenon DEF In
  <1>4. In(Tail(q), t) <=> \E i \in 1 .. Len(q) - 1 : q[i + 1] = t
    BY <1>1, Zenon DEF In
  <1> QED
    BY <1>1, <1>2, <1>3, <1>4

-----------------------------------------------------------------------------
(***************************************************************************)
(* What the steps of a channel do to ChanOf.                               *)
(***************************************************************************)

\* The channel reports an error to both services.
LEMMA ChanPublish ==
  ASSUME NEW s \in Sids, NEW c \in Channel, NEW d \in Channel, NEW M \in SUBSET Message,
         NEW p, NEW k, NEW g, NEW e,
         ChanOf(s, c, M, p, k, g, e),
         NEW x \in Message, x.type = "error", x.ep = c.ep,
         c.st \in {"started", "on", "off"},
         d.st = c.st, d.ep = c.ep, d.got = c.got, d.login = c.login, d.err = c.err,
         d.ver = c.ver \/ (c.ver = "writing" /\ d.ver = "failed")
  PROVE  ChanOf(s, d, M \cup {x}, p, TRUE, g, e)
  <1>1. ChanType(s, d, M \cup {x}, p)
    BY DEF ChanOf, ChanType, Channel
  <1>2. /\ Ver(M \cup {x}) <=> Ver(M)
        /\ Conn(M \cup {x}) <=> Conn(M)
        /\ Err(M \cup {x})
        /\ (\E m \in M \cup {x} : m.type = "connect" /\ m.ok) <=> (\E m \in M : m.type = "connect" /\ m.ok)
    BY DEF Ver, Conn, Err, IsVer
  <1>3. ChanStep(s, d, M \cup {x}, p, TRUE, g, e)
    BY <1>2 DEF ChanOf, ChanStep, Greeted, Channel
  <1>4. s \in ServerSids => ChanVer(s, d, M \cup {x}, p, TRUE, e)
    BY <1>2 DEF ChanOf, ChanVer, Channel
  <1> QED
    BY <1>1, <1>3, <1>4 DEF ChanOf

\* The acceptor thread closes an accepted channel.
LEMMA ChanRefuse ==
  ASSUME NEW s \in ServerSids, NEW c \in Channel, NEW M \in SUBSET Message,
         NEW p, NEW k, NEW g, NEW e,
         ChanOf(s, c, M, p, k, g, e),
         NEW x \in Message, x.type = "error", x.ep = c.ep, c.st = "started"
  PROVE  ChanOf(s, Gone(NoEndpoint), M \cup {x}, p, TRUE, g, e)
  <1>0. s \in Sids /\ s \notin ClientSids
    BY DEF Sids
  <1>d. /\ Gone(NoEndpoint).st = "stopped" /\ Gone(NoEndpoint).ep = NoEndpoint
        /\ Gone(NoEndpoint).ver = "none" /\ Gone(NoEndpoint).login = FALSE
        /\ Gone(NoEndpoint).got = FALSE /\ Gone(NoEndpoint).err = FALSE
    BY DEF Gone, Unused
  <1>1. ChanType(s, Gone(NoEndpoint), M \cup {x}, p)
    BY <1>0, <1>d DEF ChanOf, ChanType, Channel
  <1>2. /\ Ver(M \cup {x}) <=> Ver(M)
        /\ ~Conn(M \cup {x})
        /\ Err(M \cup {x})
        /\ ~(\E m \in M \cup {x} : m.type = "connect" /\ m.ok)
    BY <1>0 DEF Ver, Conn, Err, IsVer, ChanOf, ChanType
  <1>3. ChanStep(s, Gone(NoEndpoint), M \cup {x}, p, TRUE, g, e)
    BY <1>d, <1>2 DEF ChanOf, ChanStep, ChanType, Greeted, Channel
  <1>4. ChanVer(s, Gone(NoEndpoint), M \cup {x}, p, TRUE, e)
    BY <1>d, <1>2 DEF ChanVer
  <1> QED
    BY <1>1, <1>3, <1>4 DEF ChanOf

\* tcp_connector has a result.
LEMMA ChanConnect ==
  ASSUME NEW s \in Sids, NEW c \in Channel, NEW d \in Channel, NEW M \in SUBSET Message,
         NEW p, NEW k, NEW g, NEW e,
         ChanOf(s, c, M, p, k, g, e),
         NEW x \in Message, x.type = "connect", x.ep = c.ep, c.st = "connecting",
         x.ok => d.st = "on", ~x.ok => d.st = "stopped",
         d.ep = c.ep, d.ver = c.ver, d.login = c.login, d.err = c.err
  PROVE  ChanOf(s, d, M \cup {x}, p, k, g, e) /\ M = {} /\ ~k /\ ~p
  <1>1. M = {} /\ ~p /\ ~k /\ s \in ClientSids /\ s \notin ServerSids
    BY DEF ChanOf, ChanType, ChanStep, Err
  <1>2. ~Ver({x}) /\ Conn({x}) /\ ~Err({x})
    BY DEF Ver, Conn, Err, IsVer
  <1>3. ChanType(s, d, {x}, FALSE)
    BY <1>1 DEF ChanOf, ChanType, Channel
  <1>4. ChanStep(s, d, {x}, FALSE, FALSE, g, e)
    BY <1>1, <1>2 DEF ChanOf, ChanType, ChanStep, Channel, Message
  <1>5. M \cup {x} = {x}
    BY <1>1
  <1>6. ChanOf(s, d, {x}, p, k, g, e)
    BY <1>1, <1>3, <1>4 DEF ChanOf, ChanType, ChanStep
  <1> QED
    BY <1>1, <1>5, <1>6, Zenon

\* A version message is read.
LEMMA ChanReadVer ==
  ASSUME NEW s \in Sids, NEW c \in Channel, NEW d \in Channel, NEW M \in SUBSET Message,
         NEW p, NEW k, NEW g, NEW e,
         ChanOf(s, c, M, p, k, g, e),
         NEW x \in Message, IsVer(x), c.st \in {"started", "on", "off"},
         x.type = "ver_req" => s \in ServerSids /\ ~c.got /\ d.got /\ d.login = c.login,
         x.type = "ver_resp" =>
           s \in ClientSids /\ x.ep = c.ep /\ c.ver = "sent" /\ ~c.login /\ d.login,
         d.st = c.st, d.ep = c.ep, d.ver = c.ver, d.err = c.err
  PROVE  ChanOf(s, d, M \cup {x}, p, k, g, e) /\ ~Ver(M)
  <1>1. ~Ver(M) /\ ~p /\ ~Conn(M)
    BY DEF ChanOf, ChanType, ChanStep, Greeted, Conn, IsVer
  <1>2. /\ Ver(M \cup {x}) /\ ~Conn(M \cup {x})
        /\ Err(M \cup {x}) <=> Err(M)
        /\ ~(\E m \in M \cup {x} : m.type = "connect" /\ m.ok)
    BY <1>1 DEF Ver, Conn, Err, IsVer
  <1>3. ChanType(s, d, M \cup {x}, p)
    BY DEF ChanOf, ChanType, Channel, IsVer
  <1>4. ChanStep(s, d, M \cup {x}, p, k, g, e)
    BY <1>1, <1>2 DEF ChanOf, ChanStep, Greeted, Channel, IsVer
  <1>5. s \in ServerSids => ChanVer(s, d, M \cup {x}, p, k, e)
    BY <1>1, <1>2 DEF ChanOf, ChanVer, Channel, IsVer
  <1> QED
    BY <1>1, <1>3, <1>4, <1>5 DEF ChanOf

\* A list of nodes is read.
LEMMA ChanReadNodes ==
  ASSUME NEW s \in Sids, NEW c \in Channel, NEW M \in SUBSET Message,
         NEW p, NEW k, NEW g, NEW e,
         ChanOf(s, c, M, p, k, g, e),
         NEW x \in Message, x.type = "nodes", x.ep \in Endpoints, c.st \in {"started", "on", "off"}
  PROVE  ChanOf(s, c, M \cup {x}, p, k, g, e)
  <1>1. /\ Ver(M \cup {x}) <=> Ver(M)
        /\ Conn(M \cup {x}) <=> Conn(M)
        /\ Err(M \cup {x}) <=> Err(M)
        /\ (\E m \in M \cup {x} : m.type = "connect" /\ m.ok) <=> (\E m \in M : m.type = "connect" /\ m.ok)
    BY DEF Ver, Conn, Err, IsVer
  <1>2. ChanType(s, c, M \cup {x}, p)
    BY DEF ChanOf, ChanType
  <1> QED
    BY <1>1, <1>2 DEF ChanOf, ChanStep, ChanVer

\* The channel is accepted.
LEMMA ChanAccept ==
  ASSUME NEW s \in ServerSids, NEW c \in Channel, NEW d \in Channel, NEW M \in SUBSET Message,
         NEW p, NEW k, NEW g, NEW e,
         ChanOf(s, c, M, p, k, g, e), c.st = "unused",
         d.st = "started", d.ep = c.ep, d.ver = c.ver, d.login = c.login, d.got = c.got
  PROVE  ChanOf(s, d, M, p, k, g, e)
  <1>1. c = Unused /\ M = {} /\ ~p /\ ~k
    BY DEF ChanOf, ChanType, ChanStep, Err, Unused
  <1>2. /\ d.st = "started" /\ d.ep = NoEndpoint /\ d.ver = "none" /\ ~d.login /\ ~d.got
        /\ s \notin ClientSids
    BY <1>1 DEF Unused
  <1> QED
    BY <1>1, <1>2 DEF ChanOf, ChanType, ChanStep, ChanVer, Ver, Conn, Err

\* The acceptor thread enters it in m_channels.
LEMMA ChanEnter ==
  ASSUME NEW s \in ServerSids, NEW c \in Channel, NEW d \in Channel, NEW M \in SUBSET Message,
         NEW p, NEW k, NEW g, NEW e,
         ChanOf(s, c, M, p, k, g, e), c.st = "started",
         d.st = "on", d.ep = c.ep, d.ver = c.ver, d.login = c.login, d.got = c.got, d.err = c.err
  PROVE  ChanOf(s, d, M, p, k, g, e)
  <1>1. s \notin ClientSids
    OBVIOUS
  <1> QED
    BY <1>1 DEF ChanOf, ChanType, ChanStep, ChanVer, Greeted

\* The version message is sent.
LEMMA ChanSent ==
  ASSUME NEW s \in Sids, NEW c \in Channel, NEW d \in Channel, NEW M \in SUBSET Message,
         NEW p, NEW k, NEW g, NEW e,
         ChanOf(s, c, M, p, k, g, e),
         c.st \in {"started", "on", "off"}, c.ver = "writing",
         d.st = c.st, d.ep = c.ep, d.got = c.got, d.err = c.err, d.ver = "sent",
         s \notin ServerSids => d.login = c.login
  PROVE  ChanOf(s, d, M, p, k, g, e)
  <1>1. ChanType(s, d, M, p)
    BY DEF ChanOf, ChanType
  <1>2. ChanStep(s, d, M, p, k, g, e)
    BY DEF ChanOf, ChanStep, Greeted
  <1>3. s \in ServerSids => ChanVer(s, d, M, p, k, e)
    BY DEF ChanOf, ChanVer
  <1> QED
    BY <1>1, <1>2, <1>3 DEF ChanOf

\* The channel is stopped.
LEMMA ChanStop ==
  ASSUME NEW s \in Sids, NEW c \in Channel, NEW M \in SUBSET Message,
         NEW p, NEW k, NEW g, NEW e,
         ChanOf(s, c, M, p, k, g, e), c.st = "off"
  PROVE  ChanOf(s, Gone(c.ep), M, p, k, g, e)
  <1> DEFINE d == Gone(c.ep)
  <1>1. d.st = "stopped" /\ d.ep = c.ep /\ d.ver = "none" /\ ~d.login /\ ~d.got /\ ~d.err
    BY DEF Gone, Unused
  <1> HIDE DEF d
  <1>2. ChanType(s, d, M, p)
    BY <1>1 DEF ChanOf, ChanType
  <1>3. ChanStep(s, d, M, p, k, g, e)
    BY <1>1 DEF ChanOf, ChanStep, Greeted
  <1>4. ChanOf(s, d, M, p, k, g, e)
    BY <1>1, <1>2, <1>3 DEF ChanOf, ChanVer
  <1> QED
    BY <1>4 DEF d

\* A fresh socket id is given to a connection.
LEMMA ChanFresh ==
  ASSUME NEW s \in ClientSids, NEW c \in Channel, NEW x \in Endpoints, NEW M \in SUBSET Message,
         NEW p, NEW k, NEW g, NEW e,
         ChanOf(s, c, M, p, k, g, e), c.st = "unused"
  PROVE  /\ [Unused EXCEPT !.st = "connecting", !.ep = x] \in Channel
         /\ ChanOf(s, [Unused EXCEPT !.st = "connecting", !.ep = x], M, p, k, g, e)
  <1> DEFINE d == [Unused EXCEPT !.st = "connecting", !.ep = x]
  <1>1. c = Unused /\ M = {} /\ ~p /\ ~k
    BY DEF ChanOf, ChanType, ChanStep, Err, Unused
  <1>2. /\ d.st = "connecting" /\ d.ep = x /\ d.ver = "none" /\ ~d.login /\ ~d.err
        /\ s \notin ServerSids /\ d \in Channel
    BY DEF Unused, Channel
  <1> HIDE DEF d
  <1>3. ChanOf(s, d, M, p, k, g, e)
    BY <1>1, <1>2 DEF ChanOf, ChanType, ChanStep, Ver, Conn, Err
  <1> QED
    BY <1>2, <1>3 DEF d

\* A peer node that stops makes room for another.
LEMMA ChanDrop ==
  ASSUME NEW s \in ClientSids, NEW c \in Channel, NEW d \in Channel, NEW M \in SUBSET Message,
         NEW k, NEW g, NEW e,
         ChanOf(s, c, M, TRUE, k, g, e),
         d = IF c.st = "on" THEN [c EXCEPT !.st = "off"] ELSE c
  PROVE  ChanOf(s, d, M, FALSE, k, g, e)
  <1>1. /\ d.st = IF c.st = "on" THEN "off" ELSE c.st
        /\ d.ep = c.ep /\ d.ver = c.ver /\ d.login = c.login /\ d.err = c.err
        /\ s \notin ServerSids
    BY DEF Channel
  <1>2. c.st \in {"on", "off", "stopped"} /\ c.ep \in Endpoints /\ ~Ver(M) /\ ~Conn(M)
        /\ ~(\E m \in M : m.type = "connect" /\ m.ok)
    BY DEF ChanOf, ChanType, ChanStep, Conn
  <1>3. ChanType(s, d, M, FALSE)
    BY <1>1, <1>2 DEF ChanOf, ChanType
  <1>4. ChanStep(s, d, M, FALSE, k, g, e)
    BY <1>1, <1>2 DEF ChanOf, ChanStep
  <1> QED
    BY <1>1, <1>3, <1>4 DEF ChanOf

\* connection_manager handles an error.
LEMMA ChanCm ==
  ASSUME NEW s \in Sids, NEW c \in Channel, NEW d \in Channel, NEW M \in SUBSET Message,
         NEW p, NEW k, NEW g, NEW e,
         ChanOf(s, c, M, p, TRUE, g, e),
         d = IF c.st = "on" THEN [c EXCEPT !.st = "off"] ELSE c,
         NEW f, f <=> e \/ c.st = "started"
  PROVE  ChanOf(s, d, M, p, k, g, f)
  <1>1. /\ d.st = IF c.st = "on" THEN "off" ELSE c.st
        /\ d.ep = c.ep /\ d.ver = c.ver /\ d.login = c.login /\ d.err = c.err /\ d.got = c.got
    BY DEF Channel
  <1>2. ChanType(s, d, M, p)
    <2>1. c.st # "on" => d = c
      OBVIOUS
    <2> QED
      BY <1>1, <2>1 DEF ChanOf, ChanType
  <1>3. ChanStep(s, d, M, p, k, g, f)
    BY <1>1 DEF ChanOf, ChanStep, Greeted, Conn
  <1>4. s \in ServerSids => ChanVer(s, d, M, p, k, f)
    BY <1>1 DEF ChanOf, ChanVer
  <1> QED
    BY <1>2, <1>3, <1>4 DEF ChanOf

\* p2p_net_service handles the result of a connection.
LEMMA ChanPopConnect ==
  ASSUME NEW s \in Sids, NEW c \in Channel, NEW d \in Channel, NEW N \in SUBSET Message,
         NEW p, NEW k, NEW g, NEW e,
         NEW x \in Message, x.type = "connect", ~Conn(N),
         ChanOf(s, c, N \cup {x}, p, k, g, e),
         d.st = c.st \/ (c.st = "on" /\ d.st = "off"),
         d.ep = c.ep, d.login = c.login, d.err = c.err
  PROVE  ChanOf(s, d, N, p, k, g, e)
  <1>1. d.st = c.st \/ (c.st = "on" /\ d.st = "off")
    OBVIOUS
  <1>2. /\ s \in ClientSids /\ s \notin ServerSids
        /\ c.st \notin {"unused", "connecting"}
    BY DEF ChanOf, ChanType
  <1>3. /\ Conn(N \cup {x}) /\ (Err(N \cup {x}) <=> Err(N)) /\ (Ver(N \cup {x}) <=> Ver(N))
        /\ ~(\E m \in N : m.type = "connect" /\ m.ok)
    BY DEF Conn, Err, Ver, IsVer
  <1>4. ~p /\ ~Ver(N)
    BY <1>3 DEF ChanOf, ChanStep
  <1>5. ChanType(s, d, N, p)
    BY <1>1, <1>2, <1>4 DEF ChanOf, ChanType
  <1>6. ChanStep(s, d, N, p, k, g, e)
    BY <1>1, <1>3, <1>4 DEF ChanOf, ChanStep
  <1> QED
    BY <1>2, <1>5, <1>6 DEF ChanOf

\* p2p_net_service handles an error.
LEMMA ChanPopError ==
  ASSUME NEW s \in Sids, NEW c \in Channel, NEW d \in Channel, NEW N \in SUBSET Message,
         NEW p, NEW k, NEW g, NEW e,
         NEW x \in Message, x.type = "error", ~Conn(N),
         ChanOf(s, c, N \cup {x}, p, k, g, e),
         d.st = c.st, d.ver = c.ver, d.ep = c.ep, d.login = c.login, d.got = c.got,
         c.st \in {"started", "on", "off"} => d.err
  PROVE  ChanOf(s, d, N, FALSE, k, g, e)
  <1>1. c.st \in {"started", "on", "off"} => d.err
    OBVIOUS
  <1>2. c.st \in {"started", "on", "off", "stopped"}
    BY DEF ChanOf, ChanType, Channel
  <1>3. /\ Err(N \cup {x}) /\ (Ver(N \cup {x}) <=> Ver(N))
        /\ ~(\E m \in N : m.type = "connect" /\ m.ok)
        /\ Err(N) => Err(N \cup {x})
    BY DEF Conn, Err, Ver, IsVer
  <1>4. ChanType(s, d, N, FALSE)
    BY <1>1, <1>2 DEF ChanOf, ChanType
  <1>5. ChanStep(s, d, N, FALSE, k, g, e)
    BY <1>1, <1>2, <1>3 DEF ChanOf, ChanStep, Greeted
  <1>6. s \in ServerSids => ChanVer(s, d, N, FALSE, k, e)
    BY <1>1, <1>3 DEF ChanOf, ChanVer, ChanStep
  <1> QED
    BY <1>4, <1>5, <1>6 DEF ChanOf

\* p2p_net_service handles a version message: the channel becomes a peer node's,
\* and a request is answered.
LEMMA ChanPopAdd ==
  ASSUME NEW s \in Sids, NEW c \in Channel, NEW d \in Channel, NEW N \in SUBSET Message,
         NEW p, NEW k, NEW g, NEW e,
         NEW x \in Message, IsVer(x), ~Conn(N), ~Ver(N),
         ChanOf(s, c, N \cup {x}, p, k, g, e), c.st = "on",
         d.st = c.st, d.ep = c.ep, d.login = c.login, d.got = c.got, d.err = c.err,
         d.ver = c.ver \/ (x.type = "ver_req" /\ d.ver = "writing"),
         NEW h, h <=> g \/ c.err
  PROVE  ChanOf(s, d, N, TRUE, k, h, e) /\ ~p
  <1>1. d.ver = c.ver \/ (x.type = "ver_req" /\ d.ver = "writing")
    OBVIOUS
  <1>2. Ver(N \cup {x}) /\ (Err(N \cup {x}) <=> Err(N)) /\ ~(\E m \in N : m.type = "connect" /\ m.ok)
    BY DEF Conn, Err, Ver, IsVer
  <1>3. ~p
    BY <1>2 DEF ChanOf, ChanStep
  <1>4. ChanType(s, d, N, TRUE)
    BY <1>1 DEF ChanOf, ChanType
  <1>5. ChanStep(s, d, N, TRUE, k, h, e)
    BY <1>1, <1>2, <1>3 DEF ChanOf, ChanStep, Greeted
  <1>6. s \in ServerSids => ChanVer(s, d, N, TRUE, k, e)
    BY <1>1, <1>2 DEF ChanOf, ChanVer, Greeted, ChanStep, Channel
  <1> QED
    BY <1>3, <1>4, <1>5, <1>6 DEF ChanOf

\* ... or it does not, and the channel may be stopped.
LEMMA ChanPopVer ==
  ASSUME NEW s \in Sids, NEW c \in Channel, NEW d \in Channel, NEW N \in SUBSET Message,
         NEW p, NEW k, NEW g, NEW e,
         NEW x \in Message, IsVer(x), ~Conn(N), ~Ver(N),
         ChanOf(s, c, N \cup {x}, p, k, g, e),
         d.st = c.st \/ (c.st = "on" /\ d.st = "off"),
         d.ep = c.ep, d.login = c.login, d.got = c.got, d.err = c.err, d.ver = c.ver
  PROVE  ChanOf(s, d, N, p, k, g, e)
  <1>1. d.st = c.st \/ (c.st = "on" /\ d.st = "off")
    OBVIOUS
  <1>2. Ver(N \cup {x}) /\ (Err(N \cup {x}) <=> Err(N)) /\ ~(\E m \in N : m.type = "connect" /\ m.ok)
    BY DEF Conn, Err, Ver, IsVer
  <1>3. ~p
    BY <1>2 DEF ChanOf, ChanStep
  <1>4. ChanType(s, d, N, p)
    BY <1>1, <1>3 DEF ChanOf, ChanType
  <1>5. ChanStep(s, d, N, p, k, g, e)
    BY <1>1, <1>2, <1>3 DEF ChanOf, ChanStep, Greeted
  <1>6. s \in ServerSids => ChanVer(s, d, N, p, k, e)
    BY <1>1, <1>2 DEF ChanOf, ChanVer
  <1> QED
    BY <1>4, <1>5, <1>6 DEF ChanOf

\* p2p_net_service handles a list of nodes.
LEMMA ChanPopNodes ==
  ASSUME NEW s \in Sids, NEW c \in Channel, NEW N \in SUBSET Message,
         NEW p, NEW k, NEW g, NEW e,
         NEW x \in Message, x.type = "nodes",
         ChanOf(s, c, N \cup {x}, p, k, g, e)
  PROVE  ChanOf(s, c, N, p, k, g, e)
  <1>1. /\ Ver(N \cup {x}) <=> Ver(N)
        /\ Conn(N \cup {x}) <=> Conn(N)
        /\ Err(N \cup {x}) <=> Err(N)
        /\ (\E m \in N \cup {x} : m.type = "connect" /\ m.ok) <=> (\E m \in N : m.type = "connect" /\ m.ok)
    BY DEF Ver, Conn, Err, IsVer
  <1>2. ChanType(s, c, N, p)
    BY DEF ChanOf, ChanType
  <1> QED
    BY <1>1, <1>2 DEF ChanOf, ChanStep, ChanVer

-----------------------------------------------------------------------------
(***************************************************************************)
(* The steps of the worker, the acceptor and connection_manager.           *)
(***************************************************************************)

\* A step that does not concern the channel.
Same(t) ==
  /\ ch'[t] = ch[t] /\ Of(p2pQ', t) = Of(p2pQ, t)
  /\ HasNode(peers', t) = HasNode(peers, t) /\ In(cmQ', t) = In(cmQ, t)
  /\ (t \in ghosts') = (t \in ghosts) /\ (t \in early') = (t \in early)

LEMMA SameChan ==
  ASSUME NEW t, ChanOK(t), Same(t)
  PROVE  ChanOK(t)'
  BY Zenon DEF ChanOK, Same

LEMMA OneChan ==
  ASSUME Chans, NEW s \in Sids, \A t \in Sids : t # s => Same(t), ChanOK(s)'
  PROVE  Chans'
  <1>1. ASSUME NEW t \in Sids
        PROVE  ChanOK(t)'
    <2>1. CASE t = s
      BY <2>1
    <2>2. CASE t # s
      BY <2>2, SameChan DEF Chans
    <2> QED
      BY <2>1, <2>2
  <1> QED
    BY <1>1 DEF Chans

LEMMA ChanParts ==
  ASSUME TypeOK
  PROVE  \A s \in Sids : ch[s] \in Channel /\ Of(p2pQ, s) \in SUBSET Message
  BY OfMessage DEF TypeOK

LEMMA ErrorMessage ==
  ASSUME TypeOK, NEW s \in Sids
  PROVE  LET x == Msg("error", s, ch[s].ep, NoNode, FALSE) IN
         x \in Message /\ x.type = "error" /\ x.sid = s /\ x.ep = ch[s].ep
  BY DEF TypeOK, Msg, Message, Channel

\* A message is appended to the queue of p2p_net_service.
LEMMA AppendP2p ==
  ASSUME TypeOK, Order(p2pQ), NEW x \in Message, p2pQ' = Append(p2pQ, x),
         x.type = "connect" => Of(p2pQ, x.sid) = {},
         IsVer(x) => ~Ver(Of(p2pQ, x.sid))
  PROVE  /\ p2pQ' \in Seq(Message) /\ Order(p2pQ)'
         /\ Of(p2pQ', x.sid) = Of(p2pQ, x.sid) \cup {x}
         /\ \A t \in Sids : t # x.sid => Of(p2pQ', t) = Of(p2pQ, t)
  <1>1. p2pQ \in Seq(Message)
    BY DEF TypeOK
  <1>2. p2pQ' \in Seq(Message)
    BY <1>1, AppendProperties
  <1>3. Order(Append(p2pQ, x))
    BY <1>1, OrderAppend
  <1>4. \A t : /\ x.sid = t => Of(Append(p2pQ, x), t) = Of(p2pQ, t) \cup {x}
               /\ x.sid # t => Of(Append(p2pQ, x), t) = Of(p2pQ, t)
    BY <1>1, OfAppend
  <1> QED
    BY <1>2, <1>3, <1>4

\* The channel s reports an error and becomes d.
LEMMA PublishStep ==
  ASSUME NetInv, NEW s \in Sids, NEW d \in Channel, Publish(s), UNCHANGED serviceVars,
         ch' = [ch EXCEPT ![s] = d],
         \/ /\ Live(s)
            /\ d.st = ch[s].st /\ d.ep = ch[s].ep /\ d.got = ch[s].got
            /\ d.login = ch[s].login /\ d.err = ch[s].err
            /\ d.ver = ch[s].ver \/ (ch[s].ver = "writing" /\ d.ver = "failed")
         \/ s \in ServerSids /\ ch[s].st = "started" /\ d = Gone(NoEndpoint)
  PROVE  NetInv'
  <1> DEFINE x == Msg("error", s, ch[s].ep, NoNode, FALSE)
  <1>0. TypeOK /\ Order(p2pQ) /\ Chans
    BY DEF NetInv
  <1>1. x \in Message /\ x.type = "error" /\ x.sid = s /\ x.ep = ch[s].ep
    BY <1>0, ErrorMessage
  <1>2. p2pQ' = Append(p2pQ, x) /\ cmQ' = Append(cmQ, s)
    BY DEF Publish
  <1> HIDE DEF x
  <1>3. /\ p2pQ' \in Seq(Message) /\ Order(p2pQ)'
        /\ Of(p2pQ', s) = Of(p2pQ, s) \cup {x}
        /\ \A t \in Sids : t # s => Of(p2pQ', t) = Of(p2pQ, t)
    <2>1. x.type # "connect" /\ ~IsVer(x)
      BY <1>1 DEF IsVer
    <2> QED
      BY <1>0, <1>1, <1>2, <2>1, AppendP2p
  <1>4. /\ cmQ' \in Seq(Sids) /\ In(cmQ', s) = TRUE
        /\ \A t \in Sids : t # s => In(cmQ', t) = In(cmQ, t)
    <2>1. cmQ \in Seq(Sids)
      BY <1>0 DEF TypeOK
    <2>2. /\ Append(cmQ, s) \in Seq(Sids)
          /\ \A t : In(Append(cmQ, s), t) <=> In(cmQ, t) \/ t = s
      BY <2>1, InAppend
    <2> QED
      BY <1>2, <2>2 DEF In
  <1>5. UNCHANGED <<cand, peers, ghosts, early, leaked>>
    BY DEF serviceVars
  <1>6. ch' \in [Sids -> Channel] /\ ch'[s] = d /\ \A t \in Sids : t # s => ch'[t] = ch[t]
    BY <1>0 DEF TypeOK
  <1>7. TypeOK'
    BY <1>0, <1>3, <1>4, <1>5, <1>6 DEF TypeOK
  <1>8. \A t \in Sids : t # s => Same(t)
    BY <1>3, <1>4, <1>5, <1>6 DEF Same
  <1>9. ChanOK(s)'
    <2> DEFINE c == ch[s]
               M == Of(p2pQ, s)
               p == HasNode(peers, s)
               k == In(cmQ, s)
               g == s \in ghosts
               e == s \in early
    <2>1. ChanOf(s, c, M, p, k, g, e)
      BY <1>0 DEF Chans, ChanOK
    <2>p. c \in Channel /\ M \in SUBSET Message
      BY <1>0, ChanParts, Zenon
    <2>l. Live(s) => c.st \in {"started", "on", "off"}
      BY DEF Live
    <2>x. x.ep = c.ep
      BY <1>1
    <2>c. \/ /\ c.st \in {"started", "on", "off"}
             /\ d.st = c.st /\ d.ep = c.ep /\ d.got = c.got
             /\ d.login = c.login /\ d.err = c.err
             /\ d.ver = c.ver \/ (c.ver = "writing" /\ d.ver = "failed")
          \/ s \in ServerSids /\ c.st = "started" /\ d = Gone(NoEndpoint)
      BY <2>l
    <2>2. ChanOf(s, d, M \cup {x}, p, TRUE, g, e)
      <3> HIDE DEF c, M, p, k, g, e
      <3>1. CASE /\ c.st \in {"started", "on", "off"}
                 /\ d.st = c.st /\ d.ep = c.ep /\ d.got = c.got
                 /\ d.login = c.login /\ d.err = c.err
                 /\ d.ver = c.ver \/ (c.ver = "writing" /\ d.ver = "failed")
        BY <3>1, <2>1, <2>p, <2>x, <1>1, ChanPublish
      <3>2. CASE s \in ServerSids /\ c.st = "started" /\ d = Gone(NoEndpoint)
        BY <3>2, <2>1, <2>p, <2>x, <1>1, ChanRefuse
      <3> QED
        BY <2>c, <3>1, <3>2
    <2> QED
      BY <2>2, <1>3, <1>4, <1>5, <1>6, Zenon DEF ChanOK
  <1>10. Chans'
    BY <1>0, <1>8, <1>9, OneChan
  <1>11. IdleCnt' /\ OnePeerPerChannel'
    BY <1>5 DEF NetInv, IdleCnt, OnePeerPerChannel
  <1> QED
    BY <1>3, <1>7, <1>10, <1>11 DEF NetInv

\* A message x of the channel s arrives at p2p_net_service and the channel
\* becomes d.
LEMMA ReadStep ==
  ASSUME NetInv, NEW s \in Sids, NEW d \in Channel, NEW x \in Message, x.sid = s,
         p2pQ' = Append(p2pQ, x), UNCHANGED <<cmQ, serviceVars>>,
         ch' = [ch EXCEPT ![s] = d],
         x.type = "connect" => Of(p2pQ, s) = {}, IsVer(x) => ~Ver(Of(p2pQ, s)),
         ChanOf(s, d, Of(p2pQ, s) \cup {x}, HasNode(peers, s), In(cmQ, s), s \in ghosts, s \in early)
  PROVE  NetInv'
  <1>0. TypeOK /\ Order(p2pQ) /\ Chans
    BY DEF NetInv
  <1>3. /\ p2pQ' \in Seq(Message) /\ Order(p2pQ)'
        /\ Of(p2pQ', s) = Of(p2pQ, s) \cup {x}
        /\ \A t \in Sids : t # s => Of(p2pQ', t) = Of(p2pQ, t)
    BY <1>0, AppendP2p
  <1>5. UNCHANGED <<cand, peers, ghosts, early, leaked, cmQ>>
    BY DEF serviceVars
  <1>6. ch' \in [Sids -> Channel] /\ ch'[s] = d /\ \A t \in Sids : t # s => ch'[t] = ch[t]
    BY <1>0 DEF TypeOK
  <1>7. TypeOK'
    BY <1>0, <1>3, <1>5, <1>6 DEF TypeOK
  <1>8. \A t \in Sids : t # s => Same(t)
    BY <1>3, <1>5, <1>6 DEF Same
  <1>9. ChanOK(s)'
    BY <1>3, <1>5, <1>6, Zenon DEF ChanOK
  <1>10. Chans'
    BY <1>0, <1>8, <1>9, OneChan
  <1>11. IdleCnt' /\ OnePeerPerChannel'
    BY <1>5 DEF NetInv, IdleCnt, OnePeerPerChannel
  <1> QED
    BY <1>3, <1>7, <1>10, <1>11 DEF NetInv

\* The channel s becomes d and nothing else changes.
LEMMA AloneStep ==
  ASSUME NetInv, NEW s \in Sids, NEW d \in Channel,
         UNCHANGED <<p2pQ, cmQ, serviceVars>>, ch' = [ch EXCEPT ![s] = d],
         ChanOf(s, d, Of(p2pQ, s), HasNode(peers, s), In(cmQ, s), s \in ghosts, s \in early)
  PROVE  NetInv'
  <1>0. TypeOK /\ Order(p2pQ) /\ Chans
    BY DEF NetInv
  <1>5. UNCHANGED <<cand, peers, ghosts, early, leaked, cmQ, p2pQ>>
    BY DEF serviceVars
  <1>6. ch' \in [Sids -> Channel] /\ ch'[s] = d /\ \A t \in Sids : t # s => ch'[t] = ch[t]
    BY <1>0 DEF TypeOK
  <1>7. TypeOK'
    BY <1>0, <1>5, <1>6 DEF TypeOK
  <1>8. \A t \in Sids : t # s => Same(t)
    BY <1>5, <1>6 DEF Same
  <1>9. ChanOK(s)'
    BY <1>5, <1>6, Zenon DEF ChanOK
  <1>10. Chans'
    BY <1>0, <1>8, <1>9, OneChan
  <1>11. IdleCnt' /\ OnePeerPerChannel' /\ Order(p2pQ)'
    BY <1>0, <1>5 DEF NetInv, IdleCnt, OnePeerPerChannel, Order
  <1> QED
    BY <1>7, <1>10, <1>11 DEF NetInv

LEMMA ReadFailedStep ==
  ASSUME NetInv, NEW s \in Sids, Live(s), ReadFailed(s)
  PROVE  NetInv'
  <1> DEFINE d == [ch[s] EXCEPT !.reading = FALSE]
  <1>1. ch[s] \in Channel /\ ch \in [Sids -> Channel]
    BY DEF NetInv, TypeOK
  <1>2. /\ d \in Channel /\ d.st = ch[s].st /\ d.ep = ch[s].ep /\ d.got = ch[s].got
        /\ d.login = ch[s].login /\ d.err = ch[s].err /\ d.ver = ch[s].ver
    BY <1>1 DEF Channel
  <1>3. ch' = [ch EXCEPT ![s] = d] /\ Publish(s) /\ UNCHANGED serviceVars
    BY DEF ReadFailed
  <1> HIDE DEF d
  <1> QED
    BY <1>2, <1>3, PublishStep

LEMMA WorkerErrors ==
  ASSUME NetInv, NEW s \in Sids, WriteError(s) \/ TimerExpired(s)
  PROVE  NetInv'
  <1>1. ch[s] \in Channel /\ ch \in [Sids -> Channel]
    BY DEF NetInv, TypeOK
  <1>2. CASE WriteError(s)
    <2> DEFINE d == [ch[s] EXCEPT !.ver = "failed"]
    <2>1. /\ d \in Channel /\ d.st = ch[s].st /\ d.ep = ch[s].ep /\ d.got = ch[s].got
          /\ d.login = ch[s].login /\ d.err = ch[s].err /\ d.ver = "failed"
      BY <1>1 DEF Channel
    <2>2. /\ ch' = [ch EXCEPT ![s] = d] /\ Publish(s) /\ UNCHANGED serviceVars
          /\ Live(s) /\ ch[s].ver = "writing"
      BY <1>2 DEF WriteError
    <2> HIDE DEF d
    <2> QED
      BY <2>1, <2>2, PublishStep
  <1>3. CASE TimerExpired(s)
    <2> DEFINE d == [ch[s] EXCEPT !.timer = "none"]
    <2>1. /\ d \in Channel /\ d.st = ch[s].st /\ d.ep = ch[s].ep /\ d.got = ch[s].got
          /\ d.login = ch[s].login /\ d.err = ch[s].err /\ d.ver = ch[s].ver
      BY <1>1 DEF Channel
    <2>2. /\ ch' = [ch EXCEPT ![s] = d] /\ Publish(s) /\ UNCHANGED serviceVars
          /\ Live(s)
      BY <1>3 DEF TimerExpired
    <2> HIDE DEF d
    <2> QED
      BY <2>1, <2>2, PublishStep
  <1> QED
    BY <1>2, <1>3

\* The channel and its messages, ready for the lemmas on ChanOf.
LEMMA ChanFacts ==
  ASSUME NetInv, NEW s \in Sids
  PROVE  /\ ch \in [Sids -> Channel] /\ ch[s] \in Channel /\ Of(p2pQ, s) \in SUBSET Message
         /\ ChanOf(s, ch[s], Of(p2pQ, s), HasNode(peers, s), In(cmQ, s), s \in ghosts, s \in early)
  BY ChanParts DEF NetInv, TypeOK, Chans, ChanOK

LEMMA ConnectStep ==
  ASSUME NetInv, NEW s \in Sids, OnConnect(s)
  PROVE  NetInv'
  <1>1. PICK ok \in BOOLEAN :
          /\ ch' = [ch EXCEPT ![s].st = IF ok THEN "on" ELSE "stopped", ![s].reading = ok]
          /\ p2pQ' = Append(p2pQ, Msg("connect", s, ch[s].ep, NoNode, ok))
    BY DEF OnConnect
  <1> DEFINE x == Msg("connect", s, ch[s].ep, NoNode, ok)
             d == [ch[s] EXCEPT !.st = IF ok THEN "on" ELSE "stopped", !.reading = ok]
  <1>2. /\ ch \in [Sids -> Channel] /\ ch[s] \in Channel /\ Of(p2pQ, s) \in SUBSET Message
        /\ ChanOf(s, ch[s], Of(p2pQ, s), HasNode(peers, s), In(cmQ, s), s \in ghosts, s \in early)
    BY ChanFacts
  <1>3. ch[s].st = "connecting" /\ UNCHANGED <<cmQ, serviceVars>>
    BY DEF OnConnect
  <1>4. /\ x \in Message /\ x.type = "connect" /\ x.ep = ch[s].ep /\ x.sid = s /\ x.ok = ok
    BY <1>2 DEF Msg, Message, Channel
  <1>5. /\ d \in Channel /\ (x.ok => d.st = "on") /\ (~x.ok => d.st = "stopped")
        /\ d.ep = ch[s].ep /\ d.ver = ch[s].ver /\ d.login = ch[s].login /\ d.err = ch[s].err
    BY <1>2, <1>4 DEF Channel
  <1>6. ch' = [ch EXCEPT ![s] = d]
    BY <1>1, <1>2
  <1>7. p2pQ' = Append(p2pQ, x)
    BY <1>1
  <1>8. ~IsVer(x)
    BY <1>4 DEF IsVer
  <1> HIDE DEF x, d
  <1>9. /\ ChanOf(s, d, Of(p2pQ, s) \cup {x}, HasNode(peers, s), In(cmQ, s), s \in ghosts, s \in early)
        /\ Of(p2pQ, s) = {}
    BY <1>2, <1>3, <1>4, <1>5, ChanConnect
  <1> QED
    BY <1>3, <1>4, <1>5, <1>6, <1>7, <1>8, <1>9, ReadStep

LEMMA ReadVerReqStep ==
  ASSUME NetInv, NEW s \in Sids, NEW n \in Nodes \cup {Self}, NEW ok \in BOOLEAN, ReadVerReq(s, n, ok)
  PROVE  NetInv'
  <1>1. CASE ch[s].got \/ n = Self
    BY <1>1, ReadFailedStep DEF ReadVerReq
  <1>2. CASE ~(ch[s].got \/ n = Self)
    <2> DEFINE x == Msg("ver_req", s, NoEndpoint, n, ok)
               d == [ch[s] EXCEPT !.got = TRUE, !.timer = "none"]
    <2>2. /\ ch \in [Sids -> Channel] /\ ch[s] \in Channel /\ Of(p2pQ, s) \in SUBSET Message
          /\ ChanOf(s, ch[s], Of(p2pQ, s), HasNode(peers, s), In(cmQ, s), s \in ghosts, s \in early)
      BY ChanFacts
    <2>3. /\ s \in ServerSids /\ ~ch[s].got /\ UNCHANGED <<cmQ, serviceVars>>
          /\ ch[s].st \in {"started", "on", "off"}
      BY <1>2 DEF ReadVerReq, Live
    <2>4. /\ x \in Message /\ x.type = "ver_req" /\ x.sid = s
      BY <1>2 DEF Msg, Message
    <2>5. /\ d \in Channel /\ d.st = ch[s].st /\ d.got
          /\ d.ep = ch[s].ep /\ d.ver = ch[s].ver /\ d.login = ch[s].login /\ d.err = ch[s].err
      BY <2>2 DEF Channel
    <2>6. ch' = [ch EXCEPT ![s] = d]
      BY <1>2, <2>2 DEF ReadVerReq
    <2>7. p2pQ' = Append(p2pQ, x)
      BY <1>2 DEF ReadVerReq
    <2> HIDE DEF x, d
    <2>8. /\ IsVer(x) /\ x.type # "ver_resp"
          /\ s \in ServerSids /\ ~ch[s].got /\ d.got /\ d.login = ch[s].login
      BY <2>3, <2>4, <2>5 DEF IsVer
    <2>9. /\ ChanOf(s, d, Of(p2pQ, s) \cup {x}, HasNode(peers, s), In(cmQ, s), s \in ghosts, s \in early)
          /\ ~Ver(Of(p2pQ, s))
      BY <2>2, <2>3, <2>4, <2>5, <2>8, ChanReadVer
    <2> QED
      BY <2>3, <2>4, <2>5, <2>6, <2>7, <2>9, ReadStep
  <1> QED
    BY <1>1, <1>2

LEMMA ReadVerRespStep ==
  ASSUME NetInv, NEW s \in Sids, NEW ok \in BOOLEAN, ReadVerResp(s, ok)
  PROVE  NetInv'
  <1>1. CASE ch[s].login
    BY <1>1, ReadFailedStep DEF ReadVerResp
  <1>2. CASE ~ch[s].login
    <2> DEFINE x == Msg("ver_resp", s, ch[s].ep, NodeAt[ch[s].ep], ok)
               d == [ch[s] EXCEPT !.login = TRUE, !.timer = "none"]
    <2>2. /\ ch \in [Sids -> Channel] /\ ch[s] \in Channel /\ Of(p2pQ, s) \in SUBSET Message
          /\ ChanOf(s, ch[s], Of(p2pQ, s), HasNode(peers, s), In(cmQ, s), s \in ghosts, s \in early)
      BY ChanFacts
    <2>3. /\ s \in ClientSids /\ s \notin ServerSids /\ ch[s].ver = "sent" /\ UNCHANGED <<cmQ, serviceVars>>
          /\ ch[s].st \in {"started", "on", "off"}
      BY <1>2 DEF ReadVerResp, Live
    <2>e. ch[s].ep \in Endpoints
      BY <2>2, <2>3 DEF ChanOf, ChanType
    <2>4. /\ x \in Message /\ x.type = "ver_resp" /\ x.sid = s /\ x.ep = ch[s].ep
      BY <1>2, <2>2, <2>e DEF Msg, Message, Channel
    <2>5. /\ d \in Channel /\ d.st = ch[s].st /\ d.got = ch[s].got
          /\ d.ep = ch[s].ep /\ d.ver = ch[s].ver /\ d.login /\ d.err = ch[s].err
      BY <2>2 DEF Channel
    <2>6. ch' = [ch EXCEPT ![s] = d]
      BY <1>2, <2>2 DEF ReadVerResp
    <2>7. p2pQ' = Append(p2pQ, x)
      BY <1>2 DEF ReadVerResp
    <2> HIDE DEF x, d
    <2>8. IsVer(x) /\ x.type # "ver_req"
      BY <2>4 DEF IsVer
    <2>9. /\ ChanOf(s, d, Of(p2pQ, s) \cup {x}, HasNode(peers, s), In(cmQ, s), s \in ghosts, s \in early)
          /\ ~Ver(Of(p2pQ, s))
      BY <1>2, <2>2, <2>3, <2>4, <2>5, <2>8, ChanReadVer
    <2> QED
      BY <2>3, <2>4, <2>5, <2>6, <2>7, <2>9, ReadStep
  <1> QED
    BY <1>1, <1>2

LEMMA ReadPeerNodesStep ==
  ASSUME NetInv, NEW s \in Sids, NEW e \in Endpoints, NEW single \in BOOLEAN, ReadPeerNodes(s, e, single)
  PROVE  NetInv'
  <1> DEFINE x == Msg("nodes", s, e, NodeAt[e], single)
  <1>2. /\ ch \in [Sids -> Channel] /\ ch[s] \in Channel /\ Of(p2pQ, s) \in SUBSET Message
        /\ ChanOf(s, ch[s], Of(p2pQ, s), HasNode(peers, s), In(cmQ, s), s \in ghosts, s \in early)
    BY ChanFacts
  <1>3. UNCHANGED <<cmQ, serviceVars>> /\ ch[s].st \in {"started", "on", "off"}
    BY DEF ReadPeerNodes, Live
  <1>4. x \in Message /\ x.type = "nodes" /\ x.sid = s /\ x.ep = e
    BY DEF Msg, Message
  <1>5. ch' = [ch EXCEPT ![s] = ch[s]] /\ p2pQ' = Append(p2pQ, x)
    BY <1>2 DEF ReadPeerNodes
  <1>6. ~IsVer(x)
    BY <1>4 DEF IsVer
  <1> HIDE DEF x
  <1>7. ChanOf(s, ch[s], Of(p2pQ, s) \cup {x}, HasNode(peers, s), In(cmQ, s), s \in ghosts, s \in early)
    BY <1>2, <1>3, <1>4, ChanReadNodes
  <1> QED
    BY <1>2, <1>3, <1>4, <1>5, <1>6, <1>7, ReadStep

LEMMA AloneSteps ==
  ASSUME NetInv, NEW s \in Sids,
         \/ OnAccept(s) \/ VersionSent(s) \/ StopPosted(s)
         \/ AddChannel(s) /\ CheckOverMaxConnect
  PROVE  NetInv'
  <1>1. /\ ch \in [Sids -> Channel] /\ ch[s] \in Channel /\ Of(p2pQ, s) \in SUBSET Message
        /\ ChanOf(s, ch[s], Of(p2pQ, s), HasNode(peers, s), In(cmQ, s), s \in ghosts, s \in early)
    BY ChanFacts
  <1>2. \A e \in Endpoints \cup {NoEndpoint} : Gone(e) \in Channel
    BY DEF Gone, Unused, Channel
  <1>3. CASE OnAccept(s)
    <2> DEFINE d == [ch[s] EXCEPT !.st = "started", !.reading = TRUE, !.timer = "version"]
    <2>1. /\ d \in Channel /\ d.st = "started" /\ d.ep = ch[s].ep /\ d.ver = ch[s].ver
          /\ d.login = ch[s].login /\ d.got = ch[s].got
      BY <1>1 DEF Channel
    <2>2. /\ ch' = [ch EXCEPT ![s] = d] /\ UNCHANGED <<p2pQ, cmQ, serviceVars>>
          /\ s \in ServerSids /\ ch[s].st = "unused"
      BY <1>1, <1>3 DEF OnAccept
    <2> HIDE DEF d
    <2>3. ChanOf(s, d, Of(p2pQ, s), HasNode(peers, s), In(cmQ, s), s \in ghosts, s \in early)
      BY <1>1, <2>1, <2>2, ChanAccept
    <2> QED
      BY <2>1, <2>2, <2>3, AloneStep
  <1>4. CASE VersionSent(s)
    <2> DEFINE d == [ch[s] EXCEPT !.ver = "sent",
                                  !.timer = IF s \in ServerSids THEN "shake" ELSE "version",
                                  !.login = IF s \in ServerSids THEN TRUE ELSE @]
    <2>1. /\ d \in Channel /\ d.st = ch[s].st /\ d.ep = ch[s].ep /\ d.got = ch[s].got
          /\ d.err = ch[s].err /\ d.ver = "sent"
          /\ s \notin ServerSids => d.login = ch[s].login
      BY <1>1 DEF Channel
    <2>2. /\ ch' = [ch EXCEPT ![s] = d] /\ UNCHANGED <<p2pQ, cmQ, serviceVars>>
          /\ ch[s].st \in {"started", "on", "off"} /\ ch[s].ver = "writing"
      BY <1>1, <1>4 DEF VersionSent, Live
    <2> HIDE DEF d
    <2>3. ChanOf(s, d, Of(p2pQ, s), HasNode(peers, s), In(cmQ, s), s \in ghosts, s \in early)
      BY <1>1, <2>1, <2>2, ChanSent
    <2> QED
      BY <2>1, <2>2, <2>3, AloneStep
  <1>5. CASE StopPosted(s)
    <2>1. /\ ch' = [ch EXCEPT ![s] = Gone(ch[s].ep)] /\ UNCHANGED <<p2pQ, cmQ, serviceVars>>
          /\ ch[s].st = "off" /\ Gone(ch[s].ep) \in Channel
      BY <1>1, <1>2, <1>5 DEF StopPosted, Channel
    <2>2. ChanOf(s, Gone(ch[s].ep), Of(p2pQ, s), HasNode(peers, s), In(cmQ, s), s \in ghosts, s \in early)
      BY <1>1, <2>1, ChanStop
    <2> QED
      BY <2>1, <2>2, AloneStep
  <1>6. CASE AddChannel(s) /\ CheckOverMaxConnect
    <2> DEFINE d == [ch[s] EXCEPT !.st = "on"]
    <2>1. /\ d \in Channel /\ d.st = "on" /\ d.ep = ch[s].ep /\ d.ver = ch[s].ver
          /\ d.login = ch[s].login /\ d.got = ch[s].got /\ d.err = ch[s].err
      BY <1>1 DEF Channel
    <2>2. /\ ch' = [ch EXCEPT ![s] = d] /\ UNCHANGED <<p2pQ, cmQ, serviceVars>>
          /\ ch[s].st = "started" /\ s \in ServerSids
      BY <1>1, <1>6 DEF AddChannel
    <2> HIDE DEF d
    <2>3. ChanOf(s, d, Of(p2pQ, s), HasNode(peers, s), In(cmQ, s), s \in ghosts, s \in early)
      BY <1>1, <2>1, <2>2, ChanEnter
    <2> QED
      BY <2>1, <2>2, <2>3, AloneStep
  <1> QED
    BY <1>3, <1>4, <1>5, <1>6

LEMMA RefuseStep ==
  ASSUME NetInv, NEW s \in Sids, AddChannel(s), ~CheckOverMaxConnect
  PROVE  NetInv'
  <1>1. Gone(NoEndpoint) \in Channel
    BY DEF Gone, Unused, Channel
  <1>2. /\ s \in ServerSids /\ ch[s].st = "started" /\ Publish(s) /\ UNCHANGED serviceVars
        /\ ch' = [ch EXCEPT ![s] = Gone(NoEndpoint)]
    BY DEF AddChannel
  <1> QED
    BY <1>1, <1>2, PublishStep

\* m_channels of stop_channel.
Off(c) == IF c.st = "on" THEN [c EXCEPT !.st = "off"] ELSE c

LEMMA StoppedChan ==
  ASSUME TypeOK, NEW s \in Sids
  PROVE  /\ Stopped(s) = [ch EXCEPT ![s] = Off(ch[s])] /\ Off(ch[s]) \in Channel
         /\ Stopped(s) \in [Sids -> Channel] /\ Stopped(s)[s] = Off(ch[s])
         /\ \A t \in Sids : t # s => Stopped(s)[t] = ch[t]
  <1>1. ch \in [Sids -> Channel] /\ ch[s] \in Channel
    BY DEF TypeOK
  <1>2. Off(ch[s]) \in Channel
    BY <1>1 DEF Off, Channel
  <1>3. Stopped(s) = [ch EXCEPT ![s] = Off(ch[s])]
    BY <1>1 DEF Stopped, Off
  <1> QED
    BY <1>1, <1>2, <1>3

LEMMA CmStep ==
  ASSUME NetInv, CmChannelError
  PROVE  NetInv'
  <1>s. PICK s : s = Head(cmQ)
    OBVIOUS
  <1> DEFINE d == Off(ch[s])
  <1>0. TypeOK /\ Order(p2pQ) /\ Chans
    BY DEF NetInv
  <1>1. /\ cmQ # <<>> /\ cmQ' = Tail(cmQ) /\ ch' = Stopped(s)
        /\ early' = IF ch[s].st = "started" THEN early \cup {s} ELSE early
        /\ UNCHANGED <<cand, peers, p2pQ, ghosts, leaked>>
    BY <1>s DEF CmChannelError
  <1>2. /\ cmQ' \in Seq(Sids) /\ s \in Sids /\ In(cmQ, s)
        /\ \A t \in Sids : t # s => In(cmQ', t) = In(cmQ, t)
    <2>1. cmQ \in Seq(Sids)
      BY <1>0 DEF TypeOK
    <2>2. /\ Tail(cmQ) \in Seq(Sids) /\ Head(cmQ) \in Sids
          /\ \A t : In(cmQ, t) <=> In(Tail(cmQ), t) \/ t = Head(cmQ)
      BY <1>1, <2>1, InTail
    <2> QED
      BY <1>s, <1>1, <2>2 DEF In
  <1>3. /\ ch' \in [Sids -> Channel] /\ d \in Channel /\ ch'[s] = d
        /\ \A t \in Sids : t # s => ch'[t] = ch[t]
    BY <1>0, <1>1, <1>2, StoppedChan
  <1>4. early' \subseteq Sids /\ \A t \in Sids : t # s => (t \in early') = (t \in early)
    BY <1>0, <1>1, <1>2 DEF TypeOK
  <1>5. s \in early' <=> s \in early \/ ch[s].st = "started"
    BY <1>1
  <1>6. /\ ch \in [Sids -> Channel] /\ ch[s] \in Channel /\ Of(p2pQ, s) \in SUBSET Message
        /\ ChanOf(s, ch[s], Of(p2pQ, s), HasNode(peers, s), In(cmQ, s), s \in ghosts, s \in early)
    BY <1>2, ChanFacts
  <1>d. d = IF ch[s].st = "on" THEN [ch[s] EXCEPT !.st = "off"] ELSE ch[s]
    BY DEF Off
  <1> HIDE DEF d
  <1>7. ChanOf(s, d, Of(p2pQ, s), HasNode(peers, s), In(cmQ', s), s \in ghosts, s \in early')
    BY <1>2, <1>3, <1>5, <1>6, <1>d, ChanCm
  <1>8. ChanOK(s)'
    BY <1>1, <1>3, <1>7, Zenon DEF ChanOK
  <1>9. \A t \in Sids : t # s => Same(t)
    BY <1>1, <1>2, <1>3, <1>4 DEF Same
  <1>10. Chans'
    BY <1>0, <1>2, <1>8, <1>9, OneChan
  <1>11. TypeOK'
    BY <1>0, <1>1, <1>2, <1>3, <1>4 DEF TypeOK
  <1>12. IdleCnt' /\ OnePeerPerChannel' /\ Order(p2pQ)'
    BY <1>0, <1>1 DEF NetInv, IdleCnt, OnePeerPerChannel, Order
  <1> QED
    BY <1>10, <1>11, <1>12 DEF NetInv

-----------------------------------------------------------------------------
(***************************************************************************)
(* The messages of p2p_net_service.                                        *)
(***************************************************************************)

\* The next message, and its channel without it.
LEMMA HeadFacts ==
  ASSUME NetInv, p2pQ # <<>>, p2pQ' = Tail(p2pQ)
  PROVE  LET m == Head(p2pQ) IN
         /\ m \in Message /\ m.sid \in Sids /\ p2pQ' \in Seq(Message) /\ Order(p2pQ)'
         /\ Of(p2pQ', m.sid) \in SUBSET Message
         /\ ~Conn(Of(p2pQ', m.sid)) /\ (IsVer(m) => ~Ver(Of(p2pQ', m.sid)))
         /\ \A t \in Sids : t # m.sid => Of(p2pQ', t) = Of(p2pQ, t)
         /\ ChanOf(m.sid, ch[m.sid], Of(p2pQ', m.sid) \cup {m}, HasNode(peers, m.sid),
                   In(cmQ, m.sid), m.sid \in ghosts, m.sid \in early)
  <1> DEFINE m == Head(p2pQ)
  <1>1. p2pQ \in Seq(Message) /\ Order(p2pQ)
    BY DEF NetInv, TypeOK
  <1>2. m \in Message /\ Tail(p2pQ) \in Seq(Message)
    BY <1>1, HeadTailProperties
  <1>3. m.sid \in Sids
    BY <1>2 DEF Message
  <1>4. /\ Order(Tail(p2pQ)) /\ (IsVer(m) => ~Ver(Of(Tail(p2pQ), m.sid)))
        /\ ~Conn(Of(Tail(p2pQ), m.sid))
    BY <1>1, OrderTail
  <1>5. /\ Of(p2pQ, m.sid) = Of(p2pQ', m.sid) \cup {m}
        /\ \A t \in Sids : t # m.sid => Of(p2pQ', t) = Of(p2pQ, t)
    BY <1>1, OfTail
  <1>6. ChanOf(m.sid, ch[m.sid], Of(p2pQ, m.sid), HasNode(peers, m.sid), In(cmQ, m.sid),
               m.sid \in ghosts, m.sid \in early)
    BY <1>3, ChanFacts
  <1>7. Of(Tail(p2pQ), m.sid) \in SUBSET Message
    BY <1>2, OfMessage
  <1> HIDE DEF m
  <1>8. ChanOf(m.sid, ch[m.sid], Of(p2pQ', m.sid) \cup {m}, HasNode(peers, m.sid), In(cmQ, m.sid),
               m.sid \in ghosts, m.sid \in early)
    BY <1>5, <1>6, Zenon
  <1>9. Order(p2pQ)'
    BY <1>4, Zenon DEF Order
  <1> QED
    BY <1>2, <1>3, <1>4, <1>5, <1>7, <1>8, <1>9 DEF m

\* A step on the peer node of s.
NodesButFor(s) ==
  \A t \in Sids : t # s => /\ HasNode(peers', t) = HasNode(peers, t)
                           /\ (t \in ghosts') = (t \in ghosts)

\* A message of s is taken out of the queue, and s becomes d.
LEMMA PopStep ==
  ASSUME NetInv, p2pQ # <<>>, p2pQ' = Tail(p2pQ), NEW s, s = Head(p2pQ).sid,
         NEW d \in Channel, ch' = [ch EXCEPT ![s] = d], UNCHANGED <<cmQ, early>>,
         cand' \in [Endpoints -> Candidate],
         peers' \in [Nodes -> Sids \cup {NoSid}], ghosts' \subseteq Sids, leaked' \subseteq Endpoints,
         IdleCnt', OnePeerPerChannel',
         NodesButFor(s),
         ChanOf(s, d, Of(p2pQ', s), HasNode(peers', s), In(cmQ, s), s \in ghosts', s \in early)
  PROVE  NetInv'
  <1>0. TypeOK /\ Chans
    BY DEF NetInv
  <1>1. /\ s \in Sids /\ p2pQ' \in Seq(Message) /\ Order(p2pQ)'
        /\ \A t \in Sids : t # s => Of(p2pQ', t) = Of(p2pQ, t)
    BY HeadFacts
  <1>2. ch' \in [Sids -> Channel] /\ ch'[s] = d /\ \A t \in Sids : t # s => ch'[t] = ch[t]
    BY <1>0, <1>1 DEF TypeOK
  <1>3. TypeOK'
    BY <1>0, <1>1, <1>2 DEF TypeOK, Candidate
  <1>4. \A t \in Sids : t # s => Same(t)
    BY <1>1, <1>2 DEF Same, NodesButFor
  <1>5. ChanOK(s)'
    BY <1>2, Zenon DEF ChanOK
  <1>6. Chans'
    BY <1>0, <1>1, <1>4, <1>5, OneChan
  <1> QED
    BY <1>1, <1>3, <1>6 DEF NetInv

\* A candidate's state is set.
LEMMA CandState ==
  ASSUME NetInv, NEW e \in Endpoints, NEW v \in NetState \ {"none", "idle"},
         cand' = [cand EXCEPT ![e].st = v]
  PROVE  cand' \in [Endpoints -> Candidate] /\ IdleCnt'
  <1>1. cand \in [Endpoints -> Candidate] /\ IdleCnt
    BY DEF NetInv, TypeOK, Candidate
  <1>2. [cand[e] EXCEPT !.st = v] \in Candidate
    BY <1>1 DEF Candidate
  <1>3. cand' = [cand EXCEPT ![e] = [cand[e] EXCEPT !.st = v]]
    BY <1>1
  <1>4. cand' \in [Endpoints -> Candidate]
    BY <1>1, <1>2, <1>3
  <1>5. cand'[e].st = v /\ \A x \in Endpoints : x # e => cand'[x] = cand[x]
    BY <1>1, <1>3 DEF Candidate
  <1> QED
    BY <1>1, <1>4, <1>5 DEF IdleCnt

LEMMA CandSame ==
  ASSUME NetInv, cand' = cand
  PROVE  cand' \in [Endpoints -> Candidate] /\ IdleCnt'
  BY DEF NetInv, TypeOK, Candidate, IdleCnt

LEMMA ConnectNotifyStep ==
  ASSUME NetInv, OnClientTcpConnectNotify
  PROVE  NetInv'
  <1>s. PICK m : m = Head(p2pQ)
    OBVIOUS
  <1>p. PICK s : s = m.sid
    OBVIOUS
  <1>0. TypeOK
    BY DEF NetInv
  <1>1. /\ p2pQ # <<>> /\ p2pQ' = Tail(p2pQ) /\ m.type = "connect"
        /\ ch' = (IF ~Known(m.ep) THEN Stopped(s)
                  ELSE IF m.ok /\ ch[s].st = "on" THEN [ch EXCEPT ![s].ver = "writing"]
                  ELSE ch)
        /\ cand' = (IF Known(m.ep) /\ ~m.ok THEN [cand EXCEPT ![m.ep].st = "failed"] ELSE cand)
        /\ UNCHANGED <<peers, cmQ, ghosts, early, leaked>>
    BY <1>s, <1>p DEF OnClientTcpConnectNotify, Handle
  <1>2. /\ m \in Message /\ s \in Sids
        /\ Of(p2pQ', s) \in SUBSET Message /\ ~Conn(Of(p2pQ', s))
        /\ ChanOf(s, ch[s], Of(p2pQ', s) \cup {m}, HasNode(peers, s), In(cmQ, s), s \in ghosts, s \in early)
    BY <1>s, <1>p, <1>1, HeadFacts
  <1>3. ch \in [Sids -> Channel] /\ ch[s] \in Channel
    BY <1>0, <1>2 DEF TypeOK
  <1>4. \E d \in Channel : /\ ch' = [ch EXCEPT ![s] = d]
                           /\ d.st = ch[s].st \/ (ch[s].st = "on" /\ d.st = "off")
                           /\ d.ep = ch[s].ep /\ d.login = ch[s].login /\ d.err = ch[s].err
    <2>1. CASE ~Known(m.ep)
      <3>1. ch' = [ch EXCEPT ![s] = Off(ch[s])] /\ Off(ch[s]) \in Channel
        BY <1>0, <1>1, <1>2, <2>1, StoppedChan
      <3>2. /\ Off(ch[s]).st = ch[s].st \/ (ch[s].st = "on" /\ Off(ch[s]).st = "off")
            /\ Off(ch[s]).ep = ch[s].ep /\ Off(ch[s]).login = ch[s].login /\ Off(ch[s]).err = ch[s].err
        BY <1>3 DEF Off, Channel
      <3> QED
        BY <3>1, <3>2
    <2>2. CASE Known(m.ep) /\ m.ok /\ ch[s].st = "on"
      <3> DEFINE d == [ch[s] EXCEPT !.ver = "writing"]
      <3>1. ch' = [ch EXCEPT ![s] = d]
        BY <1>1, <1>3, <2>2
      <3>2. d \in Channel /\ d.st = ch[s].st /\ d.ep = ch[s].ep /\ d.login = ch[s].login /\ d.err = ch[s].err
        BY <1>3 DEF Channel
      <3> QED
        BY <3>1, <3>2
    <2>3. CASE Known(m.ep) /\ ~(m.ok /\ ch[s].st = "on")
      <3>1. ch' = [ch EXCEPT ![s] = ch[s]]
        BY <1>1, <1>3, <2>3
      <3> QED
        BY <1>3, <3>1
    <2> QED
      BY <2>1, <2>2, <2>3
  <1>5. PICK d \in Channel : /\ ch' = [ch EXCEPT ![s] = d]
                             /\ d.st = ch[s].st \/ (ch[s].st = "on" /\ d.st = "off")
                             /\ d.ep = ch[s].ep /\ d.login = ch[s].login /\ d.err = ch[s].err
    BY <1>4
  <1>6. ChanOf(s, d, Of(p2pQ', s), HasNode(peers, s), In(cmQ, s), s \in ghosts, s \in early)
    BY <1>1, <1>2, <1>3, <1>5, ChanPopConnect
  <1>7. ChanOf(s, d, Of(p2pQ', s), HasNode(peers', s), In(cmQ, s), s \in ghosts', s \in early)
    BY <1>1, <1>6, Zenon
  <1>8. cand' \in [Endpoints -> Candidate] /\ IdleCnt'
    <2>1. "failed" \in NetState \ {"none", "idle"}
      BY DEF NetState
    <2> QED
      BY <1>1, <2>1, CandState, CandSame DEF Known
  <1>9. OnePeerPerChannel' /\ peers' \in [Nodes -> Sids \cup {NoSid}] /\ ghosts' \subseteq Sids
        /\ leaked' \subseteq Endpoints
    BY <1>1 DEF NetInv, TypeOK, OnePeerPerChannel
  <1>10. NodesButFor(s)
    BY <1>1 DEF NodesButFor
  <1>11. UNCHANGED <<cmQ, early>> /\ s = Head(p2pQ).sid
    BY <1>s, <1>p, <1>1
  <1> QED
    BY <1>1, <1>5, <1>7, <1>8, <1>9, <1>10, <1>11, PopStep

LEMMA ErrorStep ==
  ASSUME NetInv, OnTcpChannelError
  PROVE  NetInv'
  <1>s. PICK m : m = Head(p2pQ)
    OBVIOUS
  <1>p. PICK s : s = m.sid
    OBVIOUS
  <1>a. Live(s) \in BOOLEAN
    BY DEF Live
  <1>b. PICK b \in BOOLEAN : b = Live(s)
    BY <1>a, Zenon
  <1> DEFINE d == [ch[s] EXCEPT !.err = b]
  <1>0. TypeOK
    BY DEF NetInv
  <1>1. /\ p2pQ # <<>> /\ p2pQ' = Tail(p2pQ) /\ m.type = "error"
        /\ ch' = [ch EXCEPT ![s].err = Live(s)]
        /\ cand' = (IF Known(m.ep) /\ cand[m.ep].st \notin {"zombie", "available"}
                      THEN [cand EXCEPT ![m.ep].st = "failed"] ELSE cand)
        /\ peers' = Without(s)
        /\ UNCHANGED <<cmQ, ghosts, early, leaked>>
    BY <1>s, <1>p DEF OnTcpChannelError, Handle
  <1>2. /\ m \in Message /\ s \in Sids
        /\ Of(p2pQ', s) \in SUBSET Message /\ ~Conn(Of(p2pQ', s))
        /\ ChanOf(s, ch[s], Of(p2pQ', s) \cup {m}, HasNode(peers, s), In(cmQ, s), s \in ghosts, s \in early)
    BY <1>s, <1>p, <1>1, HeadFacts
  <1>3. ch \in [Sids -> Channel] /\ ch[s] \in Channel
    BY <1>0, <1>2 DEF TypeOK
  <1>4. ch' = [ch EXCEPT ![s] = d]
    BY <1>1, <1>3, <1>b
  <1>5. /\ d \in Channel /\ d.err = b /\ d.st = ch[s].st /\ d.ver = ch[s].ver
        /\ d.ep = ch[s].ep /\ d.login = ch[s].login /\ d.got = ch[s].got
    BY <1>3 DEF Channel
  <1>l. ch[s].st \in {"started", "on", "off"} => d.err
    BY <1>5, <1>b DEF Live
  <1> HIDE DEF d
  <1>6. ChanOf(s, d, Of(p2pQ', s), FALSE, In(cmQ, s), s \in ghosts, s \in early)
    BY <1>1, <1>2, <1>3, <1>5, <1>l, ChanPopError
  <1>7. /\ peers' \in [Nodes -> Sids \cup {NoSid}]
        /\ \A n \in Nodes : peers'[n] = IF peers[n] = s THEN NoSid ELSE peers[n]
        /\ s # NoSid
    BY <1>0, <1>1, <1>2 DEF TypeOK, Without
  <1>8. HasNode(peers', s) = FALSE
    BY <1>7 DEF HasNode
  <1>9. ChanOf(s, d, Of(p2pQ', s), HasNode(peers', s), In(cmQ, s), s \in ghosts', s \in early)
    BY <1>1, <1>6, <1>8, Zenon
  <1>10. NodesButFor(s)
    <2>1. ASSUME NEW t \in Sids, t # s
          PROVE  HasNode(peers', t) = HasNode(peers, t)
      <3>1. t # NoSid
        OBVIOUS
      <3> QED
        BY <3>1, <1>7, <2>1 DEF HasNode
    <2> QED
      BY <2>1, <1>1 DEF NodesButFor
  <1>11. cand' \in [Endpoints -> Candidate] /\ IdleCnt'
    <2>1. "failed" \in NetState \ {"none", "idle"}
      BY DEF NetState
    <2> QED
      BY <1>1, <2>1, CandState, CandSame DEF Known
  <1>12. OnePeerPerChannel' /\ ghosts' \subseteq Sids /\ leaked' \subseteq Endpoints
    BY <1>1, <1>7 DEF NetInv, TypeOK, OnePeerPerChannel
  <1>13. UNCHANGED <<cmQ, early>> /\ s = Head(p2pQ).sid
    BY <1>s, <1>p, <1>1
  <1> QED
    BY <1>1, <1>4, <1>5, <1>7, <1>9, <1>10, <1>11, <1>12, <1>13, PopStep

\* add_peer_node enters a channel that no node has.
LEMMA AddNode ==
  ASSUME NetInv, NEW m \in Message, CanAdd(m), Add(m), ~HasNode(peers, m.sid)
  PROVE  /\ peers' \in [Nodes -> Sids \cup {NoSid}] /\ ghosts' \subseteq Sids
         /\ OnePeerPerChannel' /\ HasNode(peers', m.sid) = TRUE /\ NodesButFor(m.sid)
         /\ m.sid \in ghosts' <=> m.sid \in ghosts \/ ch[m.sid].err
  <1>0. /\ peers \in [Nodes -> Sids \cup {NoSid}] /\ ghosts \subseteq Sids /\ OnePeerPerChannel
        /\ m.sid \in Sids /\ m.node \in Nodes /\ peers[m.node] = NoSid
    BY DEF NetInv, TypeOK, Message, CanAdd
  <1>1. /\ peers' \in [Nodes -> Sids \cup {NoSid}]
        /\ peers'[m.node] = m.sid /\ \A n \in Nodes : n # m.node => peers'[n] = peers[n]
    BY <1>0 DEF Add
  <1>2. OnePeerPerChannel'
    BY <1>0, <1>1 DEF OnePeerPerChannel, HasNode
  <1>3. ghosts' \subseteq Sids /\ (m.sid \in ghosts' <=> m.sid \in ghosts \/ ch[m.sid].err)
        /\ \A t : t # m.sid => (t \in ghosts') = (t \in ghosts)
    BY <1>0 DEF Add
  <1>4. HasNode(peers', m.sid) = TRUE
    BY <1>0, <1>1 DEF HasNode
  <1>5. ASSUME NEW t \in Sids, t # m.sid
        PROVE  HasNode(peers', t) = HasNode(peers, t)
    <2>1. t # NoSid
      OBVIOUS
    <2> QED
      BY <2>1, <1>0, <1>1, <1>5 DEF HasNode
  <1> QED
    BY <1>1, <1>2, <1>3, <1>4, <1>5 DEF NodesButFor

LEMMA NodesSame ==
  ASSUME NetInv, UNCHANGED <<peers, ghosts>>
  PROVE  /\ peers' \in [Nodes -> Sids \cup {NoSid}] /\ ghosts' \subseteq Sids
         /\ OnePeerPerChannel' /\ \A s : NodesButFor(s)
  BY DEF NetInv, TypeOK, OnePeerPerChannel, NodesButFor

LEMMA VerReqStep ==
  ASSUME NetInv, OnVerReq
  PROVE  NetInv'
  <1>s. PICK m : m = Head(p2pQ)
    OBVIOUS
  <1>p. PICK s : s = m.sid
    OBVIOUS
  <1>0. TypeOK
    BY DEF NetInv
  <1>1. /\ p2pQ # <<>> /\ p2pQ' = Tail(p2pQ) /\ m.type = "ver_req"
        /\ IF CanAdd(m)
             THEN Add(m) /\ ch' = IF m.ok THEN [ch EXCEPT ![s].ver = "writing"] ELSE ch
             ELSE ch' = Stopped(s) /\ UNCHANGED <<peers, ghosts>>
        /\ UNCHANGED <<cand, cmQ, early, leaked>>
    BY <1>s, <1>p DEF OnVerReq, Handle
  <1>v. IsVer(m)
    BY <1>1 DEF IsVer
  <1>2. /\ m \in Message /\ s \in Sids
        /\ Of(p2pQ', s) \in SUBSET Message /\ ~Conn(Of(p2pQ', s)) /\ ~Ver(Of(p2pQ', s))
        /\ ChanOf(s, ch[s], Of(p2pQ', s) \cup {m}, HasNode(peers, s), In(cmQ, s), s \in ghosts, s \in early)
    BY <1>s, <1>p, <1>1, <1>v, HeadFacts
  <1>3. ch \in [Sids -> Channel] /\ ch[s] \in Channel
    BY <1>0, <1>2 DEF TypeOK
  <1>4. cand' \in [Endpoints -> Candidate] /\ IdleCnt' /\ leaked' \subseteq Endpoints
    BY <1>0, <1>1, CandSame DEF TypeOK
  <1>5. UNCHANGED <<cmQ, early>> /\ s = Head(p2pQ).sid
    BY <1>s, <1>p, <1>1
  <1>6. CASE CanAdd(m)
    <2> DEFINE d == IF m.ok THEN [ch[s] EXCEPT !.ver = "writing"] ELSE ch[s]
    <2>1. ch' = [ch EXCEPT ![s] = d]
      BY <1>1, <1>3, <1>6
    <2>2. /\ d \in Channel /\ d.st = ch[s].st /\ d.ep = ch[s].ep /\ d.login = ch[s].login
          /\ d.got = ch[s].got /\ d.err = ch[s].err
          /\ d.ver = ch[s].ver \/ (m.type = "ver_req" /\ d.ver = "writing")
      BY <1>1, <1>3 DEF Channel
    <2> HIDE DEF d
    <2>3. ch[s].st = "on"
      BY <1>6, <1>p DEF CanAdd
    <2>4. ~HasNode(peers, s)
      <3>1. Ver(Of(p2pQ', s) \cup {m})
        BY <1>v DEF Ver
      <3> QED
        BY <1>2, <3>1 DEF ChanOf, ChanStep
    <2>5. /\ peers' \in [Nodes -> Sids \cup {NoSid}] /\ ghosts' \subseteq Sids
          /\ OnePeerPerChannel' /\ HasNode(peers', s) = TRUE /\ NodesButFor(s)
          /\ s \in ghosts' <=> s \in ghosts \/ ch[s].err
      BY <1>1, <1>2, <1>6, <1>p, <2>4, AddNode
    <2>6. ChanOf(s, d, Of(p2pQ', s), TRUE, In(cmQ, s), s \in ghosts', s \in early)
      BY <1>2, <1>3, <1>v, <2>2, <2>3, <2>5, ChanPopAdd
    <2>7. ChanOf(s, d, Of(p2pQ', s), HasNode(peers', s), In(cmQ, s), s \in ghosts', s \in early)
      BY <2>5, <2>6, Zenon
    <2> QED
      BY <1>1, <1>4, <1>5, <2>1, <2>2, <2>5, <2>7, PopStep
  <1>7. CASE ~CanAdd(m)
    <2> DEFINE d == Off(ch[s])
    <2>1. ch' = [ch EXCEPT ![s] = d] /\ d \in Channel
      BY <1>0, <1>1, <1>2, <1>7, StoppedChan
    <2>2. /\ d.st = ch[s].st \/ (ch[s].st = "on" /\ d.st = "off")
          /\ d.ep = ch[s].ep /\ d.login = ch[s].login
          /\ d.got = ch[s].got /\ d.err = ch[s].err /\ d.ver = ch[s].ver
      BY <1>3 DEF Channel, Off
    <2> HIDE DEF d
    <2>3. UNCHANGED <<peers, ghosts>>
      BY <1>1, <1>7
    <2>4. ChanOf(s, d, Of(p2pQ', s), HasNode(peers, s), In(cmQ, s), s \in ghosts, s \in early)
      BY <1>2, <1>3, <1>v, <2>1, <2>2, ChanPopVer
    <2>5. ChanOf(s, d, Of(p2pQ', s), HasNode(peers', s), In(cmQ, s), s \in ghosts', s \in early)
      BY <2>3, <2>4, Zenon
    <2>6. /\ peers' \in [Nodes -> Sids \cup {NoSid}] /\ ghosts' \subseteq Sids
          /\ OnePeerPerChannel' /\ NodesButFor(s)
      BY <2>3, NodesSame
    <2> QED
      BY <1>1, <1>4, <1>5, <2>1, <2>5, <2>6, PopStep
  <1> QED
    BY <1>6, <1>7

\* A candidate is replaced by r.
LEMMA CandSet ==
  ASSUME NetInv, NEW e \in Endpoints, NEW r \in Candidate,
         r.st \in {"none", "idle"} => r.cnt = 0, cand' = [cand EXCEPT ![e] = r]
  PROVE  cand' \in [Endpoints -> Candidate] /\ IdleCnt'
  <1>1. cand \in [Endpoints -> Candidate] /\ IdleCnt
    BY DEF NetInv, TypeOK, Candidate
  <1>2. /\ cand' \in [Endpoints -> Candidate] /\ cand'[e] = r
        /\ \A x \in Endpoints : x # e => cand'[x] = cand[x]
    BY <1>1
  <1> QED
    BY <1>1, <1>2 DEF IdleCnt

LEMMA VerRespCand ==
  ASSUME NetInv, NEW e \in Endpoints, NEW n \in Nodes \cup {NoNode, Self},
         LET c == IF Known(e) THEN [cand EXCEPT ![e].id = n] ELSE cand IN
         \/ cand' = IF Known(e) THEN [c EXCEPT ![e].st = "available"] ELSE c
         \/ cand' = c
         \/ cand' = IF Known(e) THEN [c EXCEPT ![e].cnt = 0] ELSE c
  PROVE  cand' \in [Endpoints -> Candidate] /\ IdleCnt'
  <1>1. cand \in [Endpoints -> Candidate] /\ cand[e] \in Candidate /\ IdleCnt
    BY DEF NetInv, TypeOK, Candidate
  <1>2. CASE ~Known(e)
    BY <1>2, CandSame
  <1>3. CASE Known(e)
    <2> DEFINE r1 == [cand[e] EXCEPT !.id = n, !.st = "available"]
               r2 == [cand[e] EXCEPT !.id = n]
               r3 == [cand[e] EXCEPT !.id = n, !.cnt = 0]
    <2>m. 0 \in 0 .. MaxReconnect
      OBVIOUS
    <2>a. r1 \in Candidate /\ r1.st = "available"
      BY <1>1 DEF Candidate, NetState
    <2>b. r2 \in Candidate /\ r2.st = cand[e].st /\ r2.cnt = cand[e].cnt
      BY <1>1 DEF Candidate
    <2>1. r3 \in Candidate /\ r3.cnt = 0
      BY <1>1, <2>m DEF Candidate
    <2>2. \/ cand' = [cand EXCEPT ![e] = r1]
          \/ cand' = [cand EXCEPT ![e] = r2]
          \/ cand' = [cand EXCEPT ![e] = r3]
      BY <1>1, <1>3
    <2>3. cand[e].st \in {"none", "idle"} => cand[e].cnt = 0
      BY <1>1 DEF IdleCnt
    <2> HIDE DEF r1, r2, r3
    <2> QED
      BY <2>a, <2>b, <2>1, <2>2, <2>3, CandSet
  <1> QED
    BY <1>2, <1>3

LEMMA VerRespStep ==
  ASSUME NetInv, OnVerResp
  PROVE  NetInv'
  <1>s. PICK m : m = Head(p2pQ)
    OBVIOUS
  <1>p. PICK s : s = m.sid
    OBVIOUS
  <1>0. TypeOK
    BY DEF NetInv
  <1>1. /\ p2pQ # <<>> /\ p2pQ' = Tail(p2pQ) /\ m.type = "ver_resp"
        /\ UNCHANGED <<cmQ, early>>
    BY <1>s, <1>p DEF OnVerResp, Handle
  <1>v. IsVer(m)
    BY <1>1 DEF IsVer
  <1>2. /\ m \in Message /\ s \in Sids
        /\ Of(p2pQ', s) \in SUBSET Message /\ ~Conn(Of(p2pQ', s)) /\ ~Ver(Of(p2pQ', s))
        /\ ChanOf(s, ch[s], Of(p2pQ', s) \cup {m}, HasNode(peers, s), In(cmQ, s), s \in ghosts, s \in early)
    BY <1>s, <1>p, <1>1, <1>v, HeadFacts
  <1>3. ch \in [Sids -> Channel] /\ ch[s] \in Channel
    BY <1>0, <1>2 DEF TypeOK
  <1>e. m.ep \in Endpoints /\ m.node \in Nodes \cup {NoNode, Self}
    BY <1>1, <1>2 DEF ChanOf, ChanType, Message
  <1>4. cand' \in [Endpoints -> Candidate] /\ IdleCnt'
    <2>1. \/ cand' = cand
          \/ LET c == IF Known(m.ep) THEN [cand EXCEPT ![m.ep].id = m.node] ELSE cand IN
             \/ cand' = IF Known(m.ep) THEN [c EXCEPT ![m.ep].st = "available"] ELSE c
             \/ cand' = c
             \/ cand' = IF Known(m.ep) THEN [c EXCEPT ![m.ep].cnt = 0] ELSE c
      BY <1>s, Zenon DEF OnVerResp
    <2> QED
      BY <2>1, <1>e, CandSame, VerRespCand
  <1>5. leaked' \subseteq Endpoints
    <2>1. leaked' = leaked \/ leaked' = leaked \cup {m.ep}
      BY <1>s, Zenon DEF OnVerResp
    <2> QED
      BY <2>1, <1>0, <1>e DEF TypeOK
  <1>6. s = Head(p2pQ).sid
    BY <1>s, <1>p
  <1>7. CASE CanAdd(m) /\ Add(m) /\ ch' = ch
    <2>1. ch' = [ch EXCEPT ![s] = ch[s]]
      BY <1>7, <1>3
    <2>3. ch[s].st = "on"
      BY <1>7, <1>p DEF CanAdd
    <2>4. ~HasNode(peers, s)
      <3>1. Ver(Of(p2pQ', s) \cup {m})
        BY <1>v DEF Ver
      <3> QED
        BY <1>2, <3>1 DEF ChanOf, ChanStep
    <2>5. /\ peers' \in [Nodes -> Sids \cup {NoSid}] /\ ghosts' \subseteq Sids
          /\ OnePeerPerChannel' /\ HasNode(peers', s) = TRUE /\ NodesButFor(s)
          /\ s \in ghosts' <=> s \in ghosts \/ ch[s].err
      BY <1>7, <1>2, <1>p, <2>4, AddNode
    <2>6. ChanOf(s, ch[s], Of(p2pQ', s), TRUE, In(cmQ, s), s \in ghosts', s \in early)
      BY <1>2, <1>3, <1>v, <2>3, <2>5, ChanPopAdd
    <2>7. ChanOf(s, ch[s], Of(p2pQ', s), HasNode(peers', s), In(cmQ, s), s \in ghosts', s \in early)
      BY <2>5, <2>6, Zenon
    <2> QED
      BY <1>1, <1>3, <1>4, <1>5, <1>6, <2>1, <2>5, <2>7, PopStep
  <1>8. CASE UNCHANGED <<peers, ghosts>> /\ (ch' = ch \/ ch' = Stopped(s))
    <2>1. \E d \in Channel :
            /\ ch' = [ch EXCEPT ![s] = d]
            /\ d.st = ch[s].st \/ (ch[s].st = "on" /\ d.st = "off")
            /\ d.ep = ch[s].ep /\ d.login = ch[s].login
            /\ d.got = ch[s].got /\ d.err = ch[s].err /\ d.ver = ch[s].ver
      <3>1. CASE ch' = ch
        <4>1. ch' = [ch EXCEPT ![s] = ch[s]]
          BY <3>1, <1>3
        <4> QED
          BY <4>1, <1>3
      <3>2. CASE ch' = Stopped(s)
        <4>1. ch' = [ch EXCEPT ![s] = Off(ch[s])] /\ Off(ch[s]) \in Channel
          BY <1>0, <1>2, <3>2, StoppedChan
        <4>2. /\ Off(ch[s]).st = ch[s].st \/ (ch[s].st = "on" /\ Off(ch[s]).st = "off")
              /\ Off(ch[s]).ep = ch[s].ep /\ Off(ch[s]).login = ch[s].login
              /\ Off(ch[s]).got = ch[s].got /\ Off(ch[s]).err = ch[s].err /\ Off(ch[s]).ver = ch[s].ver
          BY <1>3 DEF Channel, Off
        <4> QED
          BY <4>1, <4>2
      <3> QED
        BY <1>8, <3>1, <3>2
    <2>2. PICK d \in Channel :
            /\ ch' = [ch EXCEPT ![s] = d]
            /\ d.st = ch[s].st \/ (ch[s].st = "on" /\ d.st = "off")
            /\ d.ep = ch[s].ep /\ d.login = ch[s].login
            /\ d.got = ch[s].got /\ d.err = ch[s].err /\ d.ver = ch[s].ver
      BY <2>1
    <2>3. UNCHANGED <<peers, ghosts>>
      BY <1>8
    <2>4. ChanOf(s, d, Of(p2pQ', s), HasNode(peers, s), In(cmQ, s), s \in ghosts, s \in early)
      BY <1>2, <1>3, <1>v, <2>2, ChanPopVer
    <2>5. ChanOf(s, d, Of(p2pQ', s), HasNode(peers', s), In(cmQ, s), s \in ghosts', s \in early)
      BY <2>3, <2>4, Zenon
    <2>6. /\ peers' \in [Nodes -> Sids \cup {NoSid}] /\ ghosts' \subseteq Sids
          /\ OnePeerPerChannel' /\ NodesButFor(s)
      BY <2>3, NodesSame
    <2> QED
      BY <1>1, <1>4, <1>5, <1>6, <2>2, <2>5, <2>6, PopStep
  <1>9. \/ CanAdd(m) /\ Add(m) /\ ch' = ch
        \/ UNCHANGED <<peers, ghosts>> /\ (ch' = ch \/ ch' = Stopped(s))
    BY <1>s, <1>p, Zenon DEF OnVerResp
  <1> QED
    BY <1>7, <1>8, <1>9

LEMMA NodesStep ==
  ASSUME NetInv, OnBroadcastPeerNodes
  PROVE  NetInv'
  <1>s. PICK m : m = Head(p2pQ)
    OBVIOUS
  <1>p. PICK s : s = m.sid
    OBVIOUS
  <1>0. TypeOK
    BY DEF NetInv
  <1>1. /\ p2pQ # <<>> /\ p2pQ' = Tail(p2pQ) /\ m.type = "nodes"
        /\ UNCHANGED <<peers, cmQ, ch, ghosts, early, leaked>>
    BY <1>s, <1>p DEF OnBroadcastPeerNodes, Handle
  <1>2. /\ m \in Message /\ s \in Sids /\ Of(p2pQ', s) \in SUBSET Message
        /\ ChanOf(s, ch[s], Of(p2pQ', s) \cup {m}, HasNode(peers, s), In(cmQ, s), s \in ghosts, s \in early)
    BY <1>s, <1>p, <1>1, HeadFacts
  <1>3. ch \in [Sids -> Channel] /\ ch[s] \in Channel
    BY <1>0, <1>2 DEF TypeOK
  <1>e. m.ep \in Endpoints /\ m.node \in Nodes \cup {NoNode, Self}
    BY <1>1, <1>2 DEF ChanOf, ChanType, Message
  <1>4. cand' \in [Endpoints -> Candidate] /\ IdleCnt'
    <2>1. cand[m.ep] \in Candidate /\ (cand[m.ep].st \in {"none", "idle"} => cand[m.ep].cnt = 0)
      BY <1>0, <1>e DEF NetInv, TypeOK, Candidate, IdleCnt
    <2>2. CASE cand' = cand
      BY <2>2, CandSame
    <2>3. CASE cand' # cand
      <3> DEFINE c == cand[m.ep]
                 r1 == [c EXCEPT !.st = IF @ = "none" THEN "available" ELSE @, !.id = m.node]
                 r2 == [NoCandidate EXCEPT !.st = "idle"]
                 r3 == [c EXCEPT !.id = IF @ = NoNode THEN m.node ELSE @]
      <3>1. /\ r1 \in Candidate /\ r1.cnt = c.cnt /\ (r1.st = c.st \/ r1.st = "available")
            /\ r3 \in Candidate /\ r3.cnt = c.cnt /\ r3.st = c.st
        BY <1>e, <2>1 DEF Candidate, NetState
      <3>2. r2 \in Candidate /\ r2.cnt = 0
        BY DEF Candidate, NetState, NoCandidate
      <3>3. \/ cand' = [cand EXCEPT ![m.ep] = r1]
            \/ cand' = [cand EXCEPT ![m.ep] = r2]
            \/ cand' = [cand EXCEPT ![m.ep] = r3]
        BY <1>s, <2>3, Zenon DEF OnBroadcastPeerNodes
      <3>4. c.st \in {"none", "idle"} => c.cnt = 0
        BY <2>1
      <3> HIDE DEF c, r1, r2, r3
      <3> QED
        BY <1>e, <3>1, <3>2, <3>3, <3>4, CandSet
    <2> QED
      BY <2>2, <2>3
  <1>5. ChanOf(s, ch[s], Of(p2pQ', s), HasNode(peers, s), In(cmQ, s), s \in ghosts, s \in early)
    BY <1>1, <1>2, <1>3, ChanPopNodes
  <1>6. ChanOf(s, ch[s], Of(p2pQ', s), HasNode(peers', s), In(cmQ, s), s \in ghosts', s \in early)
    BY <1>1, <1>5, Zenon
  <1>7. /\ peers' \in [Nodes -> Sids \cup {NoSid}] /\ ghosts' \subseteq Sids
        /\ OnePeerPerChannel' /\ NodesButFor(s)
    BY <1>1, NodesSame
  <1>8. /\ s = Head(p2pQ).sid /\ leaked' \subseteq Endpoints /\ UNCHANGED <<cmQ, early>>
        /\ ch' = [ch EXCEPT ![s] = ch[s]]
    BY <1>0, <1>s, <1>p, <1>1, <1>3 DEF TypeOK
  <1> QED
    BY <1>1, <1>3, <1>4, <1>6, <1>7, <1>8, PopStep

-----------------------------------------------------------------------------
(***************************************************************************)
(* The timers of p2p_net_service.                                          *)
(***************************************************************************)
Connecting(e) == [Unused EXCEPT !.st = "connecting", !.ep = e]

\* start_connect takes a fresh socket id for each endpoint, and no other
\* channel changes.
LEMMA ConnectChans ==
  ASSUME NEW es, NEW base, Connect(es, base)
  PROVE  /\ \A s \in Sids : \/ ch'[s] = base[s]
                            \/ s \in FreshSids /\ \E e \in es : ch'[s] = Connecting(e)
         /\ \A e \in es : \E s \in FreshSids : ch'[s] = Connecting(e)
         /\ ch' = [s \in Sids |-> ch'[s]]
  <1>1. PICK f \in Injection(es, FreshSids) :
          ch' = [s \in Sids |->
                  IF s \in Range(f)
                    THEN [Unused EXCEPT !.st = "connecting", !.ep = CHOOSE e \in es : f[e] = s]
                    ELSE base[s]]
    BY DEF Connect
  <1>2. /\ f \in [es -> FreshSids] /\ \A a, b \in es : f[a] = f[b] => a = b
        /\ \A s : s \in Range(f) <=> \E e \in es : f[e] = s
    BY DEF Injection, IsInjective, Range
  <1>3. \A e \in es : f[e] \in Range(f) /\ f[e] \in FreshSids /\ f[e] \in Sids
    BY <1>2 DEF FreshSids, Sids
  <1>4. ASSUME NEW e \in es
        PROVE  (CHOOSE x \in es : f[x] = f[e]) = e
    BY <1>2
  <1>5. \A e \in es : ch'[f[e]] = Connecting(e)
    BY <1>1, <1>3, <1>4 DEF Connecting
  <1>6. \A s \in Sids : s \notin Range(f) => ch'[s] = base[s]
    BY <1>1
  <1>7. ch' = [s \in Sids |-> ch'[s]]
    <2> DEFINE F(s) == IF s \in Range(f)
                         THEN [Unused EXCEPT !.st = "connecting", !.ep = CHOOSE e \in es : f[e] = s]
                         ELSE base[s]
    <2>1. ch' = [s \in Sids |-> F(s)]
      BY <1>1
    <2> HIDE DEF F
    <2> QED
      BY <2>1
  <1> QED
    BY <1>2, <1>3, <1>5, <1>6, <1>7

\* The channels of the base are right, and so are the ones that connect.
LEMMA ConnectRight ==
  ASSUME NetInv, NEW es \in SUBSET Endpoints, NEW base \in [Sids -> Channel], Connect(es, base),
         UNCHANGED <<p2pQ, cmQ, ghosts, early>>,
         \A t \in Sids : /\ HasNode(peers', t) => HasNode(peers, t)
                         /\ t \in FreshSids => base[t] = ch[t]
                         /\ ChanOf(t, base[t], Of(p2pQ, t), HasNode(peers', t), In(cmQ, t),
                                   t \in ghosts, t \in early)
  PROVE  ch' \in [Sids -> Channel] /\ Chans'
  <1>1. /\ \A s \in Sids : \/ ch'[s] = base[s]
                           \/ s \in FreshSids /\ \E e \in es : ch'[s] = Connecting(e)
        /\ ch' = [s \in Sids |-> ch'[s]]
    BY ConnectChans
  <1>2. ASSUME NEW t \in Sids
        PROVE  /\ ch'[t] \in Channel
               /\ ChanOf(t, ch'[t], Of(p2pQ, t), HasNode(peers', t), In(cmQ, t),
                         t \in ghosts, t \in early)
    <2>1. CASE ch'[t] = base[t]
      BY <2>1, Zenon
    <2>2. CASE t \in FreshSids /\ \E e \in es : ch'[t] = Connecting(e)
      <3>1. PICK e \in es : ch'[t] = Connecting(e)
        BY <2>2
      <3>2. /\ t \in ClientSids /\ base[t] \in Channel /\ base[t].st = "unused"
            /\ Of(p2pQ, t) \in SUBSET Message /\ e \in Endpoints
        <4>1. Of(p2pQ, t) \in SUBSET Message
          BY ChanParts DEF NetInv
        <4> QED
          BY <2>2, <4>1 DEF FreshSids
      <3>3. ChanOf(t, base[t], Of(p2pQ, t), HasNode(peers', t), In(cmQ, t), t \in ghosts, t \in early)
        OBVIOUS
      <3>4. /\ Connecting(e) \in Channel
            /\ ChanOf(t, Connecting(e), Of(p2pQ, t), HasNode(peers', t), In(cmQ, t), t \in ghosts, t \in early)
        BY <3>2, <3>3, ChanFresh DEF Connecting
      <3> QED
        BY <3>1, <3>4, Zenon
    <2> QED
      BY <1>1, <2>1, <2>2
  <1>3. ch' \in [Sids -> Channel]
    BY <1>1, <1>2
  <1>4. \A t \in Sids : ChanOK(t)'
    BY <1>2, Zenon DEF ChanOK
  <1> QED
    BY <1>3, <1>4 DEF Chans

\* A timer that connects over the channels as they are.
LEMMA ConnectNow ==
  ASSUME NetInv, NEW es \in SUBSET Endpoints, Connect(es, ch),
         UNCHANGED <<peers, p2pQ, cmQ, ghosts, early>>,
         cand' \in [Endpoints -> Candidate], IdleCnt', leaked' \subseteq Endpoints
  PROVE  NetInv'
  <1>1. ch \in [Sids -> Channel]
    BY DEF NetInv, TypeOK
  <1>2. \A t \in Sids : /\ HasNode(peers', t) => HasNode(peers, t)
                        /\ t \in FreshSids => ch[t] = ch[t]
                        /\ ChanOf(t, ch[t], Of(p2pQ, t), HasNode(peers', t), In(cmQ, t),
                                  t \in ghosts, t \in early)
    BY Zenon DEF NetInv, Chans, ChanOK
  <1>3. ch' \in [Sids -> Channel] /\ Chans'
    BY <1>1, <1>2, ConnectRight
  <1>4. TypeOK'
    BY <1>3 DEF NetInv, TypeOK, Candidate
  <1>5. Order(p2pQ)' /\ OnePeerPerChannel'
    BY DEF NetInv, Order, OnePeerPerChannel
  <1> QED
    BY <1>3, <1>4, <1>5 DEF NetInv

LEMMA CheckStep ==
  ASSUME NetInv, OnTimerCheckPeerCandidates
  PROVE  NetInv'
  <1> DEFINE kept == [e \in Endpoints |-> IF Expired(e) THEN NoCandidate ELSE cand[e]]
             there == {e \in Endpoints : kept[e].st # "none"}
             c(new) == [e \in Endpoints |-> IF e \in new THEN [NoCandidate EXCEPT !.st = "idle"] ELSE kept[e]]
             try(new) == {e \in Endpoints : c(new)[e].st \in {"idle", "failed"}}
             known(new) == {e \in try(new) : ConnectedNode(c(new)[e].id) \/ Connected(e)}
             mine(new) == {e \in try(new) \ known(new) : c(new)[e].id = Self}
             go(new) == try(new) \ (known(new) \cup mine(new))
  <1>1. PICK new \in SUBSET (Seeds \ there) :
          /\ Connect(go(new), ch)
          /\ cand' = [e \in Endpoints |->
                        CASE e \in known(new) -> [c(new)[e] EXCEPT !.cnt = 0]
                          [] e \in mine(new) -> [c(new)[e] EXCEPT !.st = "zombie"]
                          [] e \in go(new) -> [c(new)[e] EXCEPT !.st = "in_use", !.cnt = @ + 1]
                          [] OTHER -> c(new)[e]]
          /\ leaked' = leaked \ go(new)
          /\ UNCHANGED <<peers, p2pQ, cmQ, ghosts, early>>
    BY Zenon DEF OnTimerCheckPeerCandidates
  <1>2. cand \in [Endpoints -> Candidate] /\ IdleCnt
    BY DEF NetInv, TypeOK, Candidate
  <1>3. ASSUME NEW e \in Endpoints
        PROVE  /\ c(new)[e] \in Candidate
               /\ c(new)[e].st \in {"none", "idle"} => c(new)[e].cnt = 0
               /\ c(new)[e].st = "failed" => c(new)[e].cnt < MaxReconnect
    <2>0. NoCandidate \in Candidate /\ NoCandidate.st = "none" /\ NoCandidate.cnt = 0
          /\ [NoCandidate EXCEPT !.st = "idle"] \in Candidate
          /\ [NoCandidate EXCEPT !.st = "idle"].st = "idle" /\ [NoCandidate EXCEPT !.st = "idle"].cnt = 0
      BY DEF NoCandidate, Candidate, NetState
    <2>1. /\ kept[e] \in Candidate
          /\ kept[e].st \in {"none", "idle"} => kept[e].cnt = 0
          /\ kept[e].st = "failed" => kept[e].cnt < MaxReconnect
      <3>1. CASE Expired(e)
        BY <3>1, <2>0
      <3>2. CASE ~Expired(e)
        BY <3>2, <1>2 DEF Expired, IdleCnt, Candidate
      <3> QED
        BY <3>1, <3>2
    <2>2. c(new)[e] = [NoCandidate EXCEPT !.st = "idle"] \/ c(new)[e] = kept[e]
      OBVIOUS
    <2> HIDE DEF c, kept
    <2> QED
      BY <2>0, <2>1, <2>2
  <1>4. ASSUME NEW e \in Endpoints
        PROVE  cand'[e] \in Candidate /\ (cand'[e].st \in {"none", "idle"} => cand'[e].cnt = 0)
    <2>1. /\ e \in known(new) => cand'[e] = [c(new)[e] EXCEPT !.cnt = 0]
          /\ e \notin known(new) /\ e \in mine(new) => cand'[e] = [c(new)[e] EXCEPT !.st = "zombie"]
          /\ e \notin known(new) /\ e \notin mine(new) /\ e \in go(new) =>
               cand'[e] = [c(new)[e] EXCEPT !.st = "in_use", !.cnt = @ + 1]
          /\ e \notin known(new) /\ e \notin mine(new) /\ e \notin go(new) => cand'[e] = c(new)[e]
      <3>0. /\ e \in known(new) => e \notin mine(new) /\ e \notin go(new)
            /\ e \in mine(new) => e \notin go(new)
        OBVIOUS
      <3> HIDE DEF known, mine, go, c
      <3>1. cand'[e] = CASE e \in known(new) -> [c(new)[e] EXCEPT !.cnt = 0]
                         [] e \in mine(new) -> [c(new)[e] EXCEPT !.st = "zombie"]
                         [] e \in go(new) -> [c(new)[e] EXCEPT !.st = "in_use", !.cnt = @ + 1]
                         [] OTHER -> c(new)[e]
        BY <1>1, Zenon
      <3>2. e \in known(new) => cand'[e] = [c(new)[e] EXCEPT !.cnt = 0]
        BY <3>0, <3>1
      <3>3. e \notin known(new) /\ e \in mine(new) => cand'[e] = [c(new)[e] EXCEPT !.st = "zombie"]
        BY <3>0, <3>1
      <3>4. e \notin known(new) /\ e \notin mine(new) /\ e \in go(new) =>
              cand'[e] = [c(new)[e] EXCEPT !.st = "in_use", !.cnt = @ + 1]
        BY <3>1
      <3> QED
        BY <3>1, <3>2, <3>3, <3>4
    <2>2. e \in go(new) => c(new)[e].st \in {"idle", "failed"}
      OBVIOUS
    <2> HIDE DEF known, mine, go, c
    <2>3. c(new)[e] \in Candidate
      BY <1>3
    <2>4. e \in go(new) => c(new)[e].cnt + 1 \in 0 .. MaxReconnect
      BY <1>3, <2>2 DEF Candidate
    <2>5. CASE e \in known(new)
      BY <2>5, <2>1, <2>3 DEF Candidate
    <2>6. CASE e \notin known(new) /\ e \in mine(new)
      BY <2>6, <2>1, <2>3 DEF Candidate, NetState
    <2>7. CASE e \notin known(new) /\ e \notin mine(new) /\ e \in go(new)
      BY <2>7, <2>1, <2>3, <2>4 DEF Candidate, NetState
    <2>8. CASE e \notin known(new) /\ e \notin mine(new) /\ e \notin go(new)
      BY <2>8, <2>1, <1>3
    <2> QED
      BY <2>5, <2>6, <2>7, <2>8
  <1>5. go(new) \in SUBSET Endpoints
    OBVIOUS
  <1> HIDE DEF known, mine, go, c
  <1>6. cand' \in [Endpoints -> Candidate] /\ IdleCnt'
    <2>1. cand' \in [Endpoints -> Candidate]
      BY <1>1, <1>4
    <2> QED
      BY <2>1, <1>4 DEF IdleCnt
  <1>7. leaked' \subseteq Endpoints
    BY <1>1 DEF NetInv, TypeOK
  <1> QED
    BY <1>1, <1>5, <1>6, <1>7, ConnectNow

LEMMA AdjustConnectStep ==
  ASSUME NetInv, AdjustConnect
  PROVE  NetInv'
  <1>1. PICK es \in SUBSET Available :
          /\ Connect({e \in es : ~Connected(e)}, ch)
          /\ cand' = [e \in Endpoints |->
                        IF e \in es THEN [cand[e] EXCEPT !.st = IF Connected(e) THEN "failed" ELSE "in_use"]
                        ELSE cand[e]]
          /\ leaked' = leaked \ es
    BY Zenon DEF AdjustConnect
  <1>2. UNCHANGED <<peers, p2pQ, cmQ, ghosts, early>>
    BY DEF AdjustConnect
  <1>3. cand \in [Endpoints -> Candidate] /\ IdleCnt
    BY DEF NetInv, TypeOK, Candidate
  <1>4. ASSUME NEW e \in Endpoints
        PROVE  cand'[e] \in Candidate /\ (cand'[e].st \in {"none", "idle"} => cand'[e].cnt = 0)
    BY <1>1, <1>3 DEF Candidate, NetState, IdleCnt
  <1>5. cand' \in [Endpoints -> Candidate] /\ IdleCnt'
    <2>1. cand' \in [Endpoints -> Candidate]
      BY <1>1, <1>4
    <2> QED
      BY <2>1, <1>4 DEF IdleCnt
  <1>6. leaked' \subseteq Endpoints /\ {e \in es : ~Connected(e)} \in SUBSET Endpoints
    BY <1>1 DEF NetInv, TypeOK, Available
  <1> QED
    BY <1>1, <1>2, <1>5, <1>6, ConnectNow

LEMMA AdjustReplaceStep ==
  ASSUME NetInv, NEW n \in Nodes, AdjustReplace(n)
  PROVE  NetInv'
  <1>s. PICK s : s = peers[n]
    OBVIOUS
  <1> DEFINE e == ch[s].ep
             there(f) == \E m \in Nodes \ {n} : peers[m] \in Sids /\ ch[peers[m]].ep = f
             c == IF Known(e) THEN [cand EXCEPT ![e].st = "available"] ELSE cand
  <1>0. TypeOK /\ OnePeerPerChannel
    BY DEF NetInv
  <1>1. /\ s \in ClientSids /\ peers' = [peers EXCEPT ![n] = NoSid]
        /\ UNCHANGED <<p2pQ, cmQ, ghosts, early>>
    BY <1>s DEF AdjustReplace
  <1>2. \/ ch' = Stopped(s) /\ leaked' = leaked \cup {e} /\ UNCHANGED cand
        \/ \E f \in Available :
             /\ Connect(IF there(f) THEN {} ELSE {f}, Stopped(s))
             /\ cand' = [c EXCEPT ![f].st = IF there(f) THEN "failed" ELSE "in_use"]
             /\ leaked' = leaked \ {f}
    BY <1>s, Zenon DEF AdjustReplace
  <1>3. s \in Sids /\ s # NoSid
    BY <1>1 DEF Sids
  <1>4. /\ peers' \in [Nodes -> Sids \cup {NoSid}] /\ peers'[n] = NoSid
        /\ \A m \in Nodes : m # n => peers'[m] = peers[m]
    BY <1>0, <1>1 DEF TypeOK
  <1>5. OnePeerPerChannel'
    BY <1>0, <1>4 DEF OnePeerPerChannel
  <1>6. HasNode(peers, s) = TRUE /\ HasNode(peers', s) = FALSE
    BY <1>0, <1>s, <1>3, <1>4 DEF HasNode, OnePeerPerChannel
  <1>7. ASSUME NEW t \in Sids, t # s
        PROVE  HasNode(peers', t) = HasNode(peers, t)
    <2>1. t # NoSid
      OBVIOUS
    <2> QED
      BY <2>1, <1>s, <1>4, <1>7 DEF HasNode
  <1>8. /\ ch \in [Sids -> Channel] /\ ch[s] \in Channel /\ Of(p2pQ, s) \in SUBSET Message
        /\ ChanOf(s, ch[s], Of(p2pQ, s), HasNode(peers, s), In(cmQ, s), s \in ghosts, s \in early)
    BY <1>3, ChanFacts
  <1>9. /\ Stopped(s) \in [Sids -> Channel] /\ Stopped(s)[s] = Off(ch[s]) /\ Off(ch[s]) \in Channel
        /\ \A t \in Sids : t # s => Stopped(s)[t] = ch[t]
    BY <1>0, <1>3, StoppedChan
  <1>10. ChanOf(s, Off(ch[s]), Of(p2pQ, s), FALSE, In(cmQ, s), s \in ghosts, s \in early)
    <2>1. ChanOf(s, ch[s], Of(p2pQ, s), TRUE, In(cmQ, s), s \in ghosts, s \in early)
      BY <1>6, <1>8, Zenon
    <2>2. Off(ch[s]) = IF ch[s].st = "on" THEN [ch[s] EXCEPT !.st = "off"] ELSE ch[s]
      BY DEF Off
    <2> QED
      BY <1>1, <1>8, <1>9, <2>1, <2>2, ChanDrop
  <1>11. ASSUME NEW t \in Sids
         PROVE  ChanOf(t, Stopped(s)[t], Of(p2pQ, t), HasNode(peers', t), In(cmQ, t), t \in ghosts, t \in early)
    <2>1. CASE t = s
      BY <2>1, <1>6, <1>9, <1>10, Zenon
    <2>2. CASE t # s
      BY <2>2, <1>7, <1>9, Zenon DEF NetInv, Chans, ChanOK
    <2> QED
      BY <2>1, <2>2
  <1>12. e \in Endpoints
    BY <1>1, <1>6, <1>8 DEF ChanOf, ChanType
  <1>13. Order(p2pQ)'
    BY <1>1 DEF NetInv, Order
  <1>14. CASE ch' = Stopped(s) /\ leaked' = leaked \cup {e} /\ UNCHANGED cand
    <2>1. TypeOK'
      BY <1>0, <1>1, <1>4, <1>9, <1>12, <1>14 DEF TypeOK
    <2>2. ASSUME NEW t \in Sids
          PROVE  ChanOK(t)'
      BY <1>1, <1>11, <1>14, Zenon DEF ChanOK
    <2>3. Chans' /\ IdleCnt'
      BY <2>2, <1>14 DEF Chans, NetInv, IdleCnt
    <2> QED
      BY <2>1, <2>3, <1>5, <1>13 DEF NetInv
  <1>15. ASSUME NEW f \in Available,
                Connect(IF there(f) THEN {} ELSE {f}, Stopped(s)),
                cand' = [c EXCEPT ![f].st = IF there(f) THEN "failed" ELSE "in_use"],
                leaked' = leaked \ {f}
         PROVE  NetInv'
    <2> DEFINE v == IF there(f) THEN "failed" ELSE "in_use"
               es == IF there(f) THEN {} ELSE {f}
    <2>1. f \in Endpoints /\ cand[f] \in Candidate /\ cand[e] \in Candidate /\ cand \in [Endpoints -> Candidate]
      BY <1>0, <1>12 DEF TypeOK, Available, Candidate
    <2>2. v \in NetState \ {"none", "idle"} /\ es \in SUBSET Endpoints
      BY <2>1 DEF NetState
    <2>3. /\ c \in [Endpoints -> Candidate]
          /\ \A x \in Endpoints : c[x] = cand[x] \/ (x = e /\ c[x].st = "available")
      BY <1>12, <2>1 DEF Candidate, NetState
    <2>4. /\ cand' = [c EXCEPT ![f].st = v] /\ Connect(es, Stopped(s))
      BY <1>15
    <2> HIDE DEF c, v, es, e
    <2>5. /\ cand' \in [Endpoints -> Candidate] /\ cand'[f].st = v
          /\ \A x \in Endpoints : x # f => cand'[x] = c[x]
      BY <2>1, <2>2, <2>3, <2>4 DEF Candidate
    <2>6. IdleCnt'
      BY <2>2, <2>3, <2>5 DEF NetInv, IdleCnt
    <2>7. \A t \in Sids : /\ HasNode(peers', t) => HasNode(peers, t)
                          /\ t \in FreshSids => Stopped(s)[t] = ch[t]
                          /\ ChanOf(t, Stopped(s)[t], Of(p2pQ, t), HasNode(peers', t), In(cmQ, t),
                                    t \in ghosts, t \in early)
      <3>1. s \notin FreshSids
        BY <1>6, <1>8 DEF FreshSids, ChanOf, ChanType
      <3>2. \A t \in Sids : HasNode(peers', t) => HasNode(peers, t)
        BY <1>6, <1>7
      <3>3. \A t \in Sids : t \in FreshSids => Stopped(s)[t] = ch[t]
        BY <1>9, <3>1
      <3> QED
        BY <1>11, <3>2, <3>3, Zenon
    <2>8. ch' \in [Sids -> Channel] /\ Chans'
      BY <1>1, <1>9, <2>2, <2>4, <2>7, ConnectRight
    <2>9. TypeOK'
      BY <1>0, <1>1, <1>4, <1>15, <2>5, <2>8 DEF TypeOK, Candidate
    <2> QED
      BY <2>6, <2>8, <2>9, <1>5, <1>13 DEF NetInv
  <1> QED
    BY <1>2, <1>14, <1>15

-----------------------------------------------------------------------------
(***************************************************************************)
(* The invariant.                                                          *)
(***************************************************************************)
LEMMA InitNet == Init => NetInv
  <1> SUFFICES ASSUME Init
               PROVE  NetInv
    OBVIOUS
  <1>1. PICK pool \in SidPools : ch = [s \in Sids |-> IF s \in pool THEN Unused ELSE Gone(NoEndpoint)]
    BY DEF Init
  <1>2. Unused \in Channel /\ Gone(NoEndpoint) \in Channel
    BY DEF Unused, Gone, Channel
  <1>3. /\ cand = [e \in Endpoints |-> NoCandidate] /\ peers = [n \in Nodes |-> NoSid]
        /\ p2pQ = <<>> /\ cmQ = <<>> /\ ghosts = {} /\ early = {} /\ leaked = {}
    BY DEF Init
  <1>4. TypeOK
    <2>1. NoCandidate \in [st : NetState, cnt : 0 .. MaxReconnect, id : Nodes \cup {NoNode, Self}]
      BY DEF NoCandidate, NetState
    <2>2. ch \in [Sids -> Channel]
      <3> HIDE DEF Unused, Gone
      <3> QED
        BY <1>1, <1>2
    <2> QED
      BY <1>3, <2>1, <2>2, EmptySeq DEF TypeOK
  <1>5. IdleCnt /\ OnePeerPerChannel /\ Order(p2pQ)
    BY <1>3 DEF IdleCnt, OnePeerPerChannel, Order, NoCandidate
  <1>6. ASSUME NEW s \in Sids
        PROVE  ChanOK(s)
    <2>1. Of(p2pQ, s) = {} /\ ~HasNode(peers, s) /\ ~In(cmQ, s)
      BY <1>3 DEF Of, HasNode, In
    <2>2. ch[s] = Unused \/ ch[s] = Gone(NoEndpoint)
      BY <1>1
    <2>3. /\ ch[s].st \in {"unused", "stopped"} /\ ch[s].ep = NoEndpoint /\ ch[s].ver = "none"
          /\ ~ch[s].login /\ ~ch[s].err /\ (ch[s].st = "unused" => ch[s] = Unused)
      <3>1. CASE ch[s] = Unused
        BY <3>1 DEF Unused
      <3>2. CASE ch[s] = Gone(NoEndpoint)
        BY <3>2 DEF Unused, Gone
      <3> QED
        BY <2>2, <3>1, <3>2
    <2> QED
      BY <2>1, <2>3 DEF ChanOK, ChanOf, ChanType, ChanStep, ChanVer, Ver, Conn, Err
  <1> QED
    BY <1>4, <1>5, <1>6 DEF NetInv, Chans

LEMMA NextNet == NetInv /\ [Next]_vars => NetInv'
  <1> SUFFICES ASSUME NetInv, [Next]_vars
               PROVE  NetInv'
    OBVIOUS
  <1>1. CASE UNCHANGED vars
    BY <1>1 DEF vars, NetInv, TypeOK, IdleCnt, Order, OnePeerPerChannel, Chans, ChanOK, ChanOf,
                ChanType, ChanStep, ChanVer, Greeted, Ver, Conn, Err, Of, HasNode, In
  <1>2. CASE P2pMessage
    BY <1>2, ConnectNotifyStep, ErrorStep, VerReqStep, VerRespStep, NodesStep DEF P2pMessage
  <1>3. CASE P2pTimer
    BY <1>3, CheckStep, AdjustConnectStep, AdjustReplaceStep DEF P2pTimer
  <1>4. CASE CmChannelError
    BY <1>4, CmStep
  <1>5. ASSUME NEW s \in Sids, Remote(s)
        PROVE  NetInv'
    <2>1. CASE SocketError(s) \/ ReadOther(s)
      BY <2>1, ReadFailedStep DEF SocketError, ReadOther
    <2>2. ASSUME NEW r \in Requests, ReadVerReq(s, r[2], r[3])
          PROVE  NetInv'
      <3>1. r[2] \in Nodes \cup {Self} /\ r[3] \in BOOLEAN
        OBVIOUS
      <3> QED
        BY <2>2, <3>1, ReadVerReqStep
    <2>3. ASSUME NEW ok \in BOOLEAN, ReadVerResp(s, ok)
          PROVE  NetInv'
      BY <2>3, ReadVerRespStep
    <2>4. ASSUME NEW l \in Lists, ReadPeerNodes(s, l[2], l[3])
          PROVE  NetInv'
      <3>1. l[2] \in Endpoints /\ l[3] \in BOOLEAN
        OBVIOUS
      <3> QED
        BY <2>4, <3>1, ReadPeerNodesStep
    <2> QED
      BY <1>5, <2>1, <2>2, <2>3, <2>4 DEF Remote
  <1>6. ASSUME NEW s \in Sids,
               \/ OnConnect(s) \/ OnAccept(s) \/ AddChannel(s)
               \/ VersionSent(s) \/ WriteError(s) \/ TimerExpired(s) \/ StopPosted(s)
        PROVE  NetInv'
    BY <1>6, ConnectStep, AloneSteps, RefuseStep, WorkerErrors
  <1> QED
    BY <1>1, <1>2, <1>3, <1>4, <1>5, <1>6 DEF Next

LEMMA Net == Spec => []NetInv
  BY InitNet, NextNet, PTL DEF Spec

\* Every variable keeps its type: candidates have failed at most as often as
\* the limit on reconnections says, and every message is about a channel.
THEOREM TypeCorrect == Spec => []TypeOK
  <1>1. NetInv => TypeOK
    BY DEF NetInv
  <1> QED
    BY <1>1, Net, PTL

\* m_peer_nodes_map never has two nodes with one channel: an inbound channel
\* reads one ver_req, an outbound one one ver_resp, and on_tcp_channel_error
\* removes the node before another can come.
THEOREM OneNodePerChannel == Spec => []OnePeerPerChannel
  <1>1. NetInv => OnePeerPerChannel
    BY DEF NetInv
  <1> QED
    BY <1>1, Net, PTL

\* The channel of a peer node is in m_channels, or its error is still in the
\* queue of p2p_net_service, in whatever order the two services handle the
\* error.
THEOREM PeersBacked == Spec => []PeerBacked
  <1>1. NetInv => PeerBacked
    <2> SUFFICES ASSUME NetInv, NEW n \in Nodes, peers[n] # NoSid
                 PROVE  ch[peers[n]].st = "on" \/ PendingError(peers[n]) \/ peers[n] \in ghosts
      BY DEF PeerBacked
    <2>1. PICK s : s = peers[n]
      OBVIOUS
    <2>2. s \in Sids /\ HasNode(peers, s)
      BY <2>1 DEF NetInv, TypeOK, HasNode
    <2>3. ch[s].st = "on" \/ Err(Of(p2pQ, s)) \/ s \in ghosts
      BY <2>2 DEF NetInv, Chans, ChanOK, ChanOf, ChanStep
    <2>4. Err(Of(p2pQ, s)) => PendingError(s)
      BY DEF Err, Of, PendingError
    <2> QED
      BY <2>1, <2>3, <2>4
  <1> QED
    BY <1>1, Net, PTL

\* An inbound channel that broadcast_message may use belongs to a peer node, or
\* connection_manager has its error: the answer that logs it in is sent after
\* add_peer_node, and an error that takes the node away reaches both services.
THEOREM ReadyHasNode == Spec => []ReadyIsPeer
  <1>1. NetInv => ReadyIsPeer
    <2> SUFFICES ASSUME NetInv, NEW s \in ServerSids \ early, ch[s].st = "on" /\ ch[s].login
                 PROVE  (\E n \in Nodes : peers[n] = s) \/ (\E i \in DOMAIN cmQ : cmQ[i] = s)
      BY DEF ReadyIsPeer
    <2>1. s \in Sids
      BY DEF Sids
    <2>2. HasNode(peers, s) \/ In(cmQ, s)
      BY <2>1 DEF NetInv, Chans, ChanOK, ChanOf, ChanVer
    <2> QED
      BY <2>2 DEF HasNode, In
  <1> QED
    BY <1>1, Net, PTL

-----------------------------------------------------------------------------
(***************************************************************************)
(* Candidates in use.  A channel in m_channels counts only as long as      *)
(* p2p_net_service has not handled an error of it: connection_manager may  *)
(* stop it then, and no message of it would be left.                       *)
(***************************************************************************)
Holds(c, M) ==
  \/ c.st = "connecting" \/ (c.st = "on" /\ ~c.err)
  \/ Conn(M) \/ Err(M)

Backed(e) == \E s \in ClientSids : ch[s].ep = e /\ Holds(ch[s], Of(p2pQ, s))

InUse == \A e \in Endpoints \ leaked : cand[e].st = "in_use" => Backed(e)

InUseInv == NetInv /\ InUse

\* The channel goes on backing its candidate.
Keeps(s) ==
  Holds(ch[s], Of(p2pQ, s)) => ch'[s].ep = ch[s].ep /\ Holds(ch'[s], Of(p2pQ', s))

LEMMA BackedStays ==
  ASSUME NEW e, Backed(e), \A s \in ClientSids : ch[s].ep = e => Keeps(s)
  PROVE  Backed(e)'
  BY DEF Backed, Keeps

LEMMA InUseStays ==
  ASSUME InUse, UNCHANGED <<cand, leaked>>, \A s \in ClientSids : Keeps(s)
  PROVE  InUse'
  BY BackedStays DEF InUse

\* Reports, reads and sent messages leave the candidates backed.
LEMMA PublishKeeps ==
  ASSUME NetInv, NEW s \in Sids, Publish(s), ch' \in [Sids -> Channel],
         \A t \in Sids : t # s => ch'[t] = ch[t],
         s \in ServerSids \/ (ch'[s].st = ch[s].st /\ ch'[s].ep = ch[s].ep /\ ch'[s].err = ch[s].err)
  PROVE  \A t \in ClientSids : Keeps(t)
  <1> DEFINE x == Msg("error", s, ch[s].ep, NoNode, FALSE)
  <1>1. TypeOK /\ p2pQ \in Seq(Message)
    BY DEF NetInv, TypeOK
  <1>2. x \in Message /\ x.sid = s /\ p2pQ' = Append(p2pQ, x)
    BY <1>1, ErrorMessage DEF Publish
  <1> HIDE DEF x
  <1>3. \A t : Of(p2pQ, t) \subseteq Of(p2pQ', t)
    BY <1>1, <1>2, OfGrows
  <1> QED
    BY <1>3 DEF Keeps, Holds, Conn, Err, Sids

LEMMA ReadKeeps ==
  ASSUME NetInv, NEW s \in Sids, NEW x \in Message, p2pQ' = Append(p2pQ, x),
         ch' \in [Sids -> Channel], \A t \in Sids : t # s => ch'[t] = ch[t],
         ch'[s].st = ch[s].st /\ ch'[s].ep = ch[s].ep /\ ch'[s].err = ch[s].err
  PROVE  \A t \in ClientSids : Keeps(t)
  <1>1. p2pQ \in Seq(Message)
    BY DEF NetInv, TypeOK
  <1>2. \A t : Of(p2pQ, t) \subseteq Of(p2pQ', t)
    BY <1>1, OfGrows
  <1> QED
    BY <1>2 DEF Keeps, Holds, Conn, Err, Sids

LEMMA ReadFailedKeeps ==
  ASSUME NetInv, NEW s \in Sids, ReadFailed(s)
  PROVE  (\A t \in ClientSids : Keeps(t)) /\ UNCHANGED <<cand, leaked>>
  <1>1. ch \in [Sids -> Channel] /\ ch[s] \in Channel
    BY DEF NetInv, TypeOK
  <1>2. /\ ch' \in [Sids -> Channel] /\ \A t \in Sids : t # s => ch'[t] = ch[t]
        /\ ch'[s].st = ch[s].st /\ ch'[s].ep = ch[s].ep /\ ch'[s].err = ch[s].err
    BY <1>1 DEF ReadFailed, Channel
  <1> QED
    BY <1>2, PublishKeeps DEF ReadFailed, serviceVars

LEMMA ConnectKeeps ==
  ASSUME NetInv, NEW s \in Sids, OnConnect(s)
  PROVE  \A t \in ClientSids : Keeps(t)
  <1>1. PICK ok \in BOOLEAN :
          /\ ch' = [ch EXCEPT ![s].st = IF ok THEN "on" ELSE "stopped", ![s].reading = ok]
          /\ p2pQ' = Append(p2pQ, Msg("connect", s, ch[s].ep, NoNode, ok))
    BY DEF OnConnect
  <1> DEFINE x == Msg("connect", s, ch[s].ep, NoNode, ok)
  <1>2. ch \in [Sids -> Channel] /\ ch[s] \in Channel /\ p2pQ \in Seq(Message)
    BY DEF NetInv, TypeOK
  <1>3. x \in Message /\ x.type = "connect" /\ x.sid = s
    BY <1>2 DEF Msg, Message, Channel
  <1>4. ch'[s].ep = ch[s].ep /\ \A t \in Sids : t # s => ch'[t] = ch[t]
    BY <1>1, <1>2 DEF Channel
  <1>5. p2pQ' = Append(p2pQ, x)
    BY <1>1
  <1> HIDE DEF x
  <1>6. (\A t : Of(p2pQ, t) \subseteq Of(p2pQ', t)) /\ x \in Of(p2pQ', s)
    BY <1>2, <1>3, <1>5, OfGrows
  <1> QED
    BY <1>3, <1>4, <1>6 DEF Keeps, Holds, Conn, Err, Sids

LEMMA AloneKeeps ==
  ASSUME NetInv, NEW s \in Sids,
         OnAccept(s) \/ VersionSent(s) \/ StopPosted(s)
  PROVE  \A t \in ClientSids : Keeps(t)
  <1>1. ch \in [Sids -> Channel] /\ ch[s] \in Channel
    BY DEF NetInv, TypeOK
  <1>2. p2pQ' = p2pQ /\ \A t \in Sids : t # s => ch'[t] = ch[t]
    BY <1>1 DEF OnAccept, VersionSent, StopPosted
  <1>3. CASE OnAccept(s)
    BY <1>2, <1>3 DEF OnAccept, Keeps, Holds, Sids
  <1>4. CASE VersionSent(s)
    <2>1. ch'[s].ep = ch[s].ep /\ ch'[s].st = ch[s].st /\ ch'[s].err = ch[s].err
      BY <1>1, <1>4 DEF VersionSent, Channel
    <2> QED
      BY <2>1, <1>2 DEF Keeps, Holds, Sids
  <1>5. CASE StopPosted(s)
    <2>1. ch'[s] = Gone(ch[s].ep) /\ ch[s].st = "off"
      BY <1>1, <1>5 DEF StopPosted
    <2>2. ch'[s].ep = ch[s].ep
      BY <2>1 DEF Gone, Unused
    <2> QED
      BY <2>1, <2>2, <1>2 DEF Keeps, Holds, Sids
  <1> QED
    BY <1>3, <1>4, <1>5

LEMMA AddChannelKeeps ==
  ASSUME NetInv, NEW s \in Sids, AddChannel(s)
  PROVE  \A t \in ClientSids : Keeps(t)
  <1>1. ch \in [Sids -> Channel] /\ s \in ServerSids /\ Gone(NoEndpoint) \in Channel
    BY DEF NetInv, TypeOK, AddChannel, Gone, Unused, Channel
  <1>2. CASE CheckOverMaxConnect
    BY <1>1, <1>2 DEF AddChannel, Keeps, Holds, Sids
  <1>3. CASE ~CheckOverMaxConnect
    <2>1. ch' = [ch EXCEPT ![s] = Gone(NoEndpoint)] /\ Publish(s)
      BY <1>3 DEF AddChannel
    <2>2. ch' \in [Sids -> Channel] /\ \A t \in Sids : t # s => ch'[t] = ch[t]
      BY <1>1, <2>1
    <2> QED
      BY <1>1, <2>1, <2>2, PublishKeeps
  <1> QED
    BY <1>2, <1>3

\* connection_manager stops a channel whose error is still to be handled by
\* p2p_net_service, or has been.
LEMMA CmKeeps ==
  ASSUME NetInv, CmChannelError
  PROVE  \A t \in ClientSids : Keeps(t)
  <1>s. PICK s : s = Head(cmQ)
    OBVIOUS
  <1>1. cmQ # <<>> /\ ch' = Stopped(s) /\ p2pQ' = p2pQ
    BY <1>s DEF CmChannelError
  <1>2. s \in Sids /\ In(cmQ, s)
    <2>1. cmQ \in Seq(Sids)
      BY DEF NetInv, TypeOK
    <2> QED
      BY <1>s, <1>1, <2>1, InTail
  <1>3. ch'[s] = Off(ch[s]) /\ \A t \in Sids : t # s => ch'[t] = ch[t]
    BY <1>1, <1>2, StoppedChan DEF NetInv
  <1>4. ch[s] \in Channel /\ (Err(Of(p2pQ, s)) \/ ch[s].err \/ ch[s].st = "stopped")
    BY <1>2, ChanFacts DEF ChanOf, ChanStep
  <1>5. Off(ch[s]).ep = ch[s].ep /\ (ch[s].st # "on" => Off(ch[s]) = ch[s])
    BY <1>4 DEF Off, Channel
  <1> QED
    BY <1>1, <1>3, <1>4, <1>5 DEF Keeps, Holds, Sids

\* The worker, the acceptor and connection_manager.
LEMMA InUseWorker ==
  ASSUME InUseInv, NEW s \in Sids,
         \/ OnConnect(s) \/ OnAccept(s) \/ AddChannel(s) \/ Remote(s)
         \/ VersionSent(s) \/ WriteError(s) \/ TimerExpired(s) \/ StopPosted(s)
         \/ CmChannelError
  PROVE  InUse'
  <1>0. NetInv /\ InUse
    BY DEF InUseInv
  <1>c. ch \in [Sids -> Channel] /\ ch[s] \in Channel
    BY <1>0 DEF NetInv, TypeOK
  <1>1. CASE \/ OnConnect(s) \/ OnAccept(s) \/ AddChannel(s) \/ VersionSent(s) \/ StopPosted(s)
    <2>1. UNCHANGED <<cand, leaked>>
      BY <1>1 DEF OnConnect, OnAccept, AddChannel, VersionSent, StopPosted, serviceVars
    <2>2. \A t \in ClientSids : Keeps(t)
      BY <1>0, <1>1, ConnectKeeps, AloneKeeps, AddChannelKeeps
    <2> QED
      BY <1>0, <2>1, <2>2, InUseStays
  <1>2. CASE CmChannelError
    <2>1. UNCHANGED <<cand, leaked>>
      BY <1>2 DEF CmChannelError
    <2> QED
      BY <1>0, <1>2, <2>1, CmKeeps, InUseStays
  <1>3. CASE ReadFailed(s)
    BY <1>0, <1>3, ReadFailedKeeps, InUseStays
  <1>4. CASE WriteError(s) \/ TimerExpired(s)
    <2>1. /\ ch' \in [Sids -> Channel] /\ \A t \in Sids : t # s => ch'[t] = ch[t]
          /\ ch'[s].st = ch[s].st /\ ch'[s].ep = ch[s].ep /\ ch'[s].err = ch[s].err
      BY <1>c, <1>4 DEF WriteError, TimerExpired, Channel
    <2>2. Publish(s) /\ UNCHANGED <<cand, leaked>>
      BY <1>4 DEF WriteError, TimerExpired, serviceVars
    <2> QED
      BY <1>0, <2>1, <2>2, PublishKeeps, InUseStays
  <1>5. ASSUME NEW r \in Requests, ReadVerReq(s, r[2], r[3]), ~ReadFailed(s)
        PROVE  InUse'
    <2> DEFINE x == Msg("ver_req", s, NoEndpoint, r[2], r[3])
    <2>1. x \in Message
      BY DEF Msg, Message
    <2>2. /\ ch' = [ch EXCEPT ![s].got = TRUE, ![s].timer = "none"]
          /\ p2pQ' = Append(p2pQ, x) /\ UNCHANGED <<cand, leaked>>
      BY <1>5 DEF ReadVerReq, serviceVars
    <2>3. /\ ch' \in [Sids -> Channel] /\ \A t \in Sids : t # s => ch'[t] = ch[t]
          /\ ch'[s].st = ch[s].st /\ ch'[s].ep = ch[s].ep /\ ch'[s].err = ch[s].err
      BY <1>c, <2>2 DEF Channel
    <2> HIDE DEF x
    <2> QED
      BY <1>0, <2>1, <2>2, <2>3, ReadKeeps, InUseStays
  <1>6. ASSUME NEW ok \in BOOLEAN, ReadVerResp(s, ok), ~ReadFailed(s)
        PROVE  InUse'
    <2> DEFINE x == Msg("ver_resp", s, ch[s].ep, NodeAt[ch[s].ep], ok)
    <2>e. ch[s].ep \in Endpoints
      <3>1. s \in ClientSids /\ ch[s].st \in {"started", "on", "off"}
        BY <1>6 DEF ReadVerResp, Live
      <3> QED
        BY <1>0, <3>1, ChanFacts DEF ChanOf, ChanType
    <2>1. x \in Message
      BY <2>e DEF Msg, Message
    <2>2. /\ ch' = [ch EXCEPT ![s].login = TRUE, ![s].timer = "none"]
          /\ p2pQ' = Append(p2pQ, x) /\ UNCHANGED <<cand, leaked>>
      BY <1>6 DEF ReadVerResp, serviceVars
    <2>3. /\ ch' \in [Sids -> Channel] /\ \A t \in Sids : t # s => ch'[t] = ch[t]
          /\ ch'[s].st = ch[s].st /\ ch'[s].ep = ch[s].ep /\ ch'[s].err = ch[s].err
      BY <1>c, <2>2 DEF Channel
    <2> HIDE DEF x
    <2> QED
      BY <1>0, <2>1, <2>2, <2>3, ReadKeeps, InUseStays
  <1>7. ASSUME NEW l \in Lists, ReadPeerNodes(s, l[2], l[3])
        PROVE  InUse'
    <2> DEFINE x == Msg("nodes", s, l[2], NodeAt[l[2]], l[3])
    <2>1. x \in Message
      BY DEF Msg, Message
    <2>2. ch' = ch /\ p2pQ' = Append(p2pQ, x) /\ UNCHANGED <<cand, leaked>>
      BY <1>7 DEF ReadPeerNodes, serviceVars
    <2> HIDE DEF x
    <2> QED
      BY <1>0, <1>c, <2>1, <2>2, ReadKeeps, InUseStays
  <1>8. CASE Remote(s)
    BY <1>8, <1>3, <1>5, <1>6, <1>7 DEF Remote, SocketError, ReadOther
  <1> QED
    BY <1>1, <1>2, <1>4, <1>8

\* A message m is taken out of the queue: the candidates of other endpoints
\* stay backed.
LEMMA PopBacked ==
  ASSUME NetInv, p2pQ # <<>>, p2pQ' = Tail(p2pQ), NEW m, m = Head(p2pQ),
         m.type \in {"connect", "error", "ver_resp"}, \A t \in Sids : t # m.sid => ch'[t] = ch[t],
         NEW e, e # m.ep, Backed(e)
  PROVE  Backed(e)'
  <1>1. m \in Message /\ \A t \in Sids : t # m.sid => Of(p2pQ', t) = Of(p2pQ, t)
    BY HeadFacts
  <1>2. m.ep = ch[m.sid].ep
    <2>1. ChanOf(m.sid, ch[m.sid], Of(p2pQ', m.sid) \cup {m}, HasNode(peers, m.sid),
                 In(cmQ, m.sid), m.sid \in ghosts, m.sid \in early)
      BY HeadFacts
    <2> QED
      BY <2>1 DEF ChanOf, ChanType
  <1>3. \A t \in ClientSids : ch[t].ep = e => Keeps(t)
    BY <1>1, <1>2 DEF Keeps, Sids
  <1> QED
    BY <1>3, BackedStays

LEMMA ConnectNotifyInUse ==
  ASSUME InUseInv, OnClientTcpConnectNotify
  PROVE  InUse'
  <1>s. PICK m : m = Head(p2pQ)
    OBVIOUS
  <1>p. PICK s : s = m.sid
    OBVIOUS
  <1>0. NetInv /\ TypeOK /\ InUse
    BY DEF InUseInv, NetInv
  <1>1. /\ p2pQ # <<>> /\ p2pQ' = Tail(p2pQ) /\ m.type = "connect"
        /\ ch' = (IF ~Known(m.ep) THEN Stopped(s)
                  ELSE IF m.ok /\ ch[s].st = "on" THEN [ch EXCEPT ![s].ver = "writing"]
                  ELSE ch)
        /\ cand' = (IF Known(m.ep) /\ ~m.ok THEN [cand EXCEPT ![m.ep].st = "failed"] ELSE cand)
        /\ leaked' = leaked
    BY <1>s, <1>p DEF OnClientTcpConnectNotify, Handle
  <1>2. /\ m \in Message /\ s \in Sids
        /\ ChanOf(s, ch[s], Of(p2pQ', s) \cup {m}, HasNode(peers, s), In(cmQ, s), s \in ghosts, s \in early)
    BY <1>0, <1>s, <1>p, <1>1, HeadFacts
  <1>3. /\ ch \in [Sids -> Channel] /\ ch[s] \in Channel
        /\ cand \in [Endpoints -> Candidate] /\ \A e \in Endpoints : cand[e] \in Candidate
    BY <1>0, <1>2 DEF TypeOK, Candidate
  <1>4. \A t \in Sids : t # s => ch'[t] = ch[t]
    BY <1>0, <1>1, <1>2, <1>3, StoppedChan
  <1>5. ASSUME NEW e \in Endpoints \ leaked, cand'[e].st = "in_use"
        PROVE  Backed(e)'
    <2>1. cand[e].st = "in_use"
      BY <1>1, <1>3, <1>5 DEF Candidate, Known
    <2>2. Backed(e)
      BY <1>0, <2>1 DEF InUse
    <2>3. CASE e # m.ep
      BY <2>2, <2>3, <1>0, <1>s, <1>p, <1>1, <1>4, PopBacked
    <2>4. CASE e = m.ep
      <3>1. Known(e)
        BY <2>1 DEF Known
      <3>2. m.ok
        BY <1>1, <1>3, <1>5, <2>4, <3>1 DEF Candidate, Message
      <3>3. /\ s \in ClientSids /\ ch[s].ep = e /\ ~ch[s].err
            /\ ch[s].st = "on" \/ Err(Of(p2pQ', s) \cup {m})
        BY <1>1, <1>2, <2>4, <3>2 DEF ChanOf, ChanType, ChanStep, Conn
      <3>4. Err(Of(p2pQ', s) \cup {m}) => Err(Of(p2pQ', s))
        BY <1>1 DEF Err
      <3>5. ch'[s].ep = ch[s].ep /\ ch'[s].st = ch[s].st /\ ch'[s].err = ch[s].err
        BY <1>1, <1>2, <1>3, <2>4, <3>1 DEF Channel
      <3> QED
        BY <3>3, <3>4, <3>5 DEF Backed, Holds
    <2> QED
      BY <2>3, <2>4
  <1> QED
    BY <1>1, <1>5 DEF InUse

LEMMA ErrorInUse ==
  ASSUME InUseInv, OnTcpChannelError
  PROVE  InUse'
  <1>s. PICK m : m = Head(p2pQ)
    OBVIOUS
  <1>0. NetInv /\ TypeOK /\ InUse
    BY DEF InUseInv, NetInv
  <1>1. /\ p2pQ # <<>> /\ p2pQ' = Tail(p2pQ) /\ m.type = "error"
        /\ ch' = [ch EXCEPT ![m.sid].err = Live(m.sid)]
        /\ cand' = (IF Known(m.ep) /\ cand[m.ep].st \notin {"zombie", "available"}
                      THEN [cand EXCEPT ![m.ep].st = "failed"] ELSE cand)
        /\ leaked' = leaked
    BY <1>s DEF OnTcpChannelError, Handle
  <1>3. /\ ch \in [Sids -> Channel]
        /\ cand \in [Endpoints -> Candidate] /\ \A e \in Endpoints : cand[e] \in Candidate
    BY <1>0 DEF TypeOK, Candidate
  <1>4. \A t \in Sids : t # m.sid => ch'[t] = ch[t]
    BY <1>1, <1>3
  <1>5. ASSUME NEW e \in Endpoints \ leaked, cand'[e].st = "in_use"
        PROVE  Backed(e)'
    <2>1. cand[e].st = "in_use" /\ e # m.ep
      BY <1>1, <1>3, <1>5 DEF Candidate, Known
    <2>2. Backed(e)
      BY <1>0, <2>1 DEF InUse
    <2> QED
      BY <2>1, <2>2, <1>0, <1>s, <1>1, <1>4, PopBacked
  <1> QED
    BY <1>1, <1>5 DEF InUse

\* A message that is neither a connection's result nor an error.
LEMMA PopKeeps ==
  ASSUME NetInv, p2pQ # <<>>, p2pQ' = Tail(p2pQ), Head(p2pQ).type \notin {"connect", "error"},
         \A t \in ClientSids : ch'[t] = ch[t]
  PROVE  \A t \in ClientSids : Keeps(t)
  <1>1. p2pQ \in Seq(Message)
    BY DEF NetInv, TypeOK
  <1>2. ASSUME NEW t
        PROVE  (Conn(Of(p2pQ, t)) <=> Conn(Of(p2pQ', t))) /\ (Err(Of(p2pQ, t)) <=> Err(Of(p2pQ', t)))
    <2>1. /\ Head(p2pQ).sid = t => Of(p2pQ, t) = Of(p2pQ', t) \cup {Head(p2pQ)}
          /\ Head(p2pQ).sid # t => Of(p2pQ, t) = Of(p2pQ', t)
      BY <1>1, OfTail
    <2> QED
      BY <2>1 DEF Conn, Err
  <1> QED
    BY <1>2 DEF Keeps, Holds

LEMMA VerReqInUse ==
  ASSUME InUseInv, OnVerReq
  PROVE  InUse'
  <1>s. PICK m : m = Head(p2pQ)
    OBVIOUS
  <1>0. NetInv /\ TypeOK /\ InUse
    BY DEF InUseInv, NetInv
  <1>1. /\ p2pQ # <<>> /\ p2pQ' = Tail(p2pQ) /\ m.type = "ver_req"
        /\ ch' = [ch EXCEPT ![m.sid].ver = "writing"] \/ ch' = ch \/ ch' = Stopped(m.sid)
        /\ UNCHANGED <<cand, leaked>>
    BY <1>s, Zenon DEF OnVerReq, Handle
  <1>2. m.sid \in ServerSids /\ m.sid \in Sids
    <2>1. /\ m.sid \in Sids
          /\ ChanOf(m.sid, ch[m.sid], Of(p2pQ', m.sid) \cup {m}, HasNode(peers, m.sid),
                    In(cmQ, m.sid), m.sid \in ghosts, m.sid \in early)
      BY <1>0, <1>s, <1>1, HeadFacts
    <2> QED
      BY <1>1, <2>1 DEF ChanOf, ChanType
  <1>3. \A t \in Sids : t # m.sid => ch'[t] = ch[t]
    BY <1>0, <1>1, <1>2, StoppedChan DEF TypeOK
  <1>4. \A t \in ClientSids : ch'[t] = ch[t]
    BY <1>2, <1>3 DEF Sids
  <1>5. Head(p2pQ).type \notin {"connect", "error"}
    BY <1>s, <1>1
  <1> QED
    BY <1>0, <1>1, <1>4, <1>5, PopKeeps, InUseStays

LEMMA NodesInUse ==
  ASSUME InUseInv, OnBroadcastPeerNodes
  PROVE  InUse'
  <1>s. PICK m : m = Head(p2pQ)
    OBVIOUS
  <1>0. NetInv /\ TypeOK /\ InUse
    BY DEF InUseInv, NetInv
  <1>1. p2pQ # <<>> /\ p2pQ' = Tail(p2pQ) /\ m.type = "nodes" /\ ch' = ch /\ leaked' = leaked
    BY <1>s DEF OnBroadcastPeerNodes, Handle
  <1>2. \A t \in ClientSids : Keeps(t)
    <2>1. Head(p2pQ).type \notin {"connect", "error"}
      BY <1>s, <1>1
    <2> QED
      BY <1>0, <1>1, <2>1, PopKeeps
  <1>3. cand \in [Endpoints -> Candidate] /\ \A e \in Endpoints : cand[e] \in Candidate
    BY <1>0 DEF TypeOK, Candidate
  <1>4. ASSUME NEW e \in Endpoints, cand'[e].st = "in_use"
        PROVE  cand[e].st = "in_use"
    <2> DEFINE c == cand[m.ep]
               r == IF m.ok THEN [c EXCEPT !.st = IF @ = "none" THEN "available" ELSE @, !.id = m.node]
                    ELSE IF c.st = "none" THEN [NoCandidate EXCEPT !.st = "idle"]
                    ELSE [c EXCEPT !.id = IF @ = NoNode THEN m.node ELSE @]
    <2>1. cand' = cand \/ cand' = [cand EXCEPT ![m.ep] = r]
      BY <1>s DEF OnBroadcastPeerNodes
    <2>2. cand' = cand \/ e # m.ep \/ cand'[e] = r
      <3> HIDE DEF r
      <3> QED
        BY <1>3, <2>1
    <2>3. cand' = cand \/ e # m.ep => cand'[e] = cand[e]
      <3> HIDE DEF r
      <3> QED
        BY <1>3, <2>1
    <2>4. e = m.ep /\ r.st = "in_use" => c.st = "in_use"
      BY <1>3 DEF Candidate, NoCandidate
    <2> HIDE DEF r
    <2> QED
      BY <1>4, <2>2, <2>3, <2>4
  <1> QED
    BY <1>0, <1>1, <1>2, <1>4, BackedStays DEF InUse

LEMMA VerRespInUse ==
  ASSUME InUseInv, OnVerResp
  PROVE  InUse'
  <1>s. PICK m : m = Head(p2pQ)
    OBVIOUS
  <1>0. NetInv /\ TypeOK /\ InUse
    BY DEF InUseInv, NetInv
  <1>1. p2pQ # <<>> /\ p2pQ' = Tail(p2pQ) /\ m.type = "ver_resp"
    BY <1>s DEF OnVerResp, Handle
  <1>2. m.sid \in Sids /\ m.ep \in Endpoints
    <2>1. /\ m.sid \in Sids
          /\ ChanOf(m.sid, ch[m.sid], Of(p2pQ', m.sid) \cup {m}, HasNode(peers, m.sid),
                    In(cmQ, m.sid), m.sid \in ghosts, m.sid \in early)
      BY <1>0, <1>s, <1>1, HeadFacts
    <2> QED
      BY <1>1, <2>1 DEF ChanOf, ChanType
  <1>3. cand \in [Endpoints -> Candidate] /\ \A e \in Endpoints : cand[e] \in Candidate
    BY <1>0 DEF TypeOK, Candidate
  <1> DEFINE c == IF Known(m.ep) THEN [cand EXCEPT ![m.ep].id = m.node] ELSE cand
  <1>4. /\ c \in [Endpoints -> [st : NetState, cnt : 0 .. MaxReconnect, id : {cand[e].id : e \in Endpoints} \cup {m.node}]]
        /\ \A e \in Endpoints : c[e].st = cand[e].st
    BY <1>2, <1>3 DEF Candidate
  <1>5. CASE cand' = IF Known(m.ep) THEN [c EXCEPT ![m.ep].st = "available"] ELSE c
    <2>1. ASSUME NEW e \in Endpoints, cand'[e].st = "in_use"
          PROVE  cand[e].st = "in_use" /\ e # m.ep
      <3>1. CASE Known(m.ep)
        <4> HIDE DEF c
        <4> QED
          BY <1>2, <1>4, <1>5, <2>1, <3>1
      <3>2. CASE ~Known(m.ep)
        BY <1>2, <1>5, <2>1, <3>2 DEF Known
      <3> QED
        BY <3>1, <3>2
    <2>2. leaked' = leaked \/ leaked' = leaked \cup {m.ep}
      BY <1>s, Zenon DEF OnVerResp
    <2>3. \A t \in Sids : t # m.sid => ch'[t] = ch[t]
      <3>1. ch' = ch \/ ch' = Stopped(m.sid)
        BY <1>s, Zenon DEF OnVerResp
      <3> QED
        BY <1>0, <1>2, <3>1, StoppedChan
    <2>4. ASSUME NEW e \in Endpoints \ leaked', cand'[e].st = "in_use"
          PROVE  Backed(e)'
      <3>1. e # m.ep /\ Backed(e)
        BY <2>1, <2>2, <2>4, <1>0 DEF InUse
      <3> QED
        BY <3>1, <2>3, <1>0, <1>s, <1>1, PopBacked
    <2> QED
      BY <2>4 DEF InUse
  <1>6. CASE cand' = c /\ leaked' = leaked \cup {m.ep} /\ ch' = Stopped(m.sid)
    <2>1. \A t \in Sids : t # m.sid => ch'[t] = ch[t]
      BY <1>0, <1>2, <1>6, StoppedChan
    <2>2. ASSUME NEW e \in Endpoints \ leaked', cand'[e].st = "in_use"
          PROVE  Backed(e)'
      <3>1. e # m.ep /\ Backed(e)
        <4> HIDE DEF c
        <4> QED
          BY <1>0, <1>4, <1>6, <2>2 DEF InUse
      <3> QED
        BY <3>1, <2>1, <1>0, <1>s, <1>1, PopBacked
    <2> QED
      BY <2>2 DEF InUse
  <1>7. CASE /\ cand' = cand \/ cand' = IF Known(m.ep) THEN [c EXCEPT ![m.ep].cnt = 0] ELSE c
             /\ ch' = ch /\ leaked' = leaked
    <2>1. \A t \in ClientSids : Keeps(t)
      <3>1. Head(p2pQ).type \notin {"connect", "error"}
        BY <1>s, <1>1
      <3> QED
        BY <1>0, <1>1, <1>7, <3>1, PopKeeps
    <2>2. \A e \in Endpoints : cand'[e].st = cand[e].st
      <3> HIDE DEF c
      <3> QED
        BY <1>2, <1>4, <1>7
    <2> QED
      BY <2>1, <2>2, <1>0, <1>7, BackedStays DEF InUse
  <1>8. \/ cand' = IF Known(m.ep) THEN [c EXCEPT ![m.ep].st = "available"] ELSE c
        \/ cand' = c /\ leaked' = leaked \cup {m.ep} /\ ch' = Stopped(m.sid)
        \/ /\ cand' = cand \/ cand' = IF Known(m.ep) THEN [c EXCEPT ![m.ep].cnt = 0] ELSE c
           /\ ch' = ch /\ leaked' = leaked
    BY <1>s, Zenon DEF OnVerResp
  <1> QED
    BY <1>5, <1>6, <1>7, <1>8

\* start_connect leaves the other channels, and backs its endpoints.
LEMMA ConnectBacks ==
  ASSUME NetInv, NEW es \in SUBSET Endpoints, NEW base, Connect(es, base), p2pQ' = p2pQ
  PROVE  /\ \A e \in es : Backed(e)'
         /\ \A t \in ClientSids : base[t] = ch[t] => Keeps(t)
  <1>1. /\ \A s \in Sids : \/ ch'[s] = base[s]
                           \/ s \in FreshSids /\ \E e \in es : ch'[s] = Connecting(e)
        /\ \A e \in es : \E s \in FreshSids : ch'[s] = Connecting(e)
    BY ConnectChans
  <1>2. \A e \in Endpoints : Connecting(e).st = "connecting" /\ Connecting(e).ep = e
    BY DEF Connecting, Unused
  <1>3. \A e \in es : Backed(e)'
    BY <1>1, <1>2 DEF Backed, Holds, FreshSids
  <1>4. ASSUME NEW t \in FreshSids
        PROVE  ~Holds(ch[t], Of(p2pQ, t))
    <2>1. t \in Sids /\ ch[t].st = "unused"
      BY DEF FreshSids, Sids
    <2>2. Of(p2pQ, t) = {}
      BY <2>1, ChanFacts DEF ChanOf, ChanType
    <2> QED
      BY <2>1, <2>2 DEF Holds, Conn, Err
  <1> QED
    BY <1>1, <1>3, <1>4 DEF Keeps, Sids

LEMMA CheckInUse ==
  ASSUME InUseInv, OnTimerCheckPeerCandidates
  PROVE  InUse'
  <1> DEFINE kept == [e \in Endpoints |-> IF Expired(e) THEN NoCandidate ELSE cand[e]]
             there == {e \in Endpoints : kept[e].st # "none"}
             c(new) == [e \in Endpoints |-> IF e \in new THEN [NoCandidate EXCEPT !.st = "idle"] ELSE kept[e]]
             try(new) == {e \in Endpoints : c(new)[e].st \in {"idle", "failed"}}
             known(new) == {e \in try(new) : ConnectedNode(c(new)[e].id) \/ Connected(e)}
             mine(new) == {e \in try(new) \ known(new) : c(new)[e].id = Self}
             go(new) == try(new) \ (known(new) \cup mine(new))
  <1>0. NetInv /\ TypeOK /\ InUse
    BY DEF InUseInv, NetInv
  <1>1. PICK new \in SUBSET (Seeds \ there) :
          /\ Connect(go(new), ch)
          /\ cand' = [e \in Endpoints |->
                        CASE e \in known(new) -> [c(new)[e] EXCEPT !.cnt = 0]
                          [] e \in mine(new) -> [c(new)[e] EXCEPT !.st = "zombie"]
                          [] e \in go(new) -> [c(new)[e] EXCEPT !.st = "in_use", !.cnt = @ + 1]
                          [] OTHER -> c(new)[e]]
          /\ leaked' = leaked \ go(new)
          /\ UNCHANGED <<peers, p2pQ, cmQ, ghosts, early>>
    BY Zenon DEF OnTimerCheckPeerCandidates
  <1>2. cand \in [Endpoints -> Candidate]
    BY <1>0 DEF TypeOK, Candidate
  <1>3. go(new) \in SUBSET Endpoints
    OBVIOUS
  <1>4. ASSUME NEW e \in Endpoints, e \notin try(new), cand'[e].st = "in_use"
        PROVE  cand[e].st = "in_use"
    <2>1. e \notin known(new) /\ e \notin mine(new) /\ e \notin go(new)
      BY <1>4
    <2>2. cand'[e] = c(new)[e]
      <3> HIDE DEF known, mine, go, c
      <3>1. cand'[e] = CASE e \in known(new) -> [c(new)[e] EXCEPT !.cnt = 0]
                         [] e \in mine(new) -> [c(new)[e] EXCEPT !.st = "zombie"]
                         [] e \in go(new) -> [c(new)[e] EXCEPT !.st = "in_use", !.cnt = @ + 1]
                         [] OTHER -> c(new)[e]
        BY <1>1, Zenon
      <3> QED
        BY <3>1, <2>1
    <2>3. c(new)[e] = [NoCandidate EXCEPT !.st = "idle"] \/ c(new)[e] = NoCandidate \/ c(new)[e] = cand[e]
      OBVIOUS
    <2>4. [NoCandidate EXCEPT !.st = "idle"].st = "idle" /\ NoCandidate.st = "none"
      BY DEF NoCandidate
    <2> HIDE DEF c
    <2> QED
      BY <1>4, <2>2, <2>3, <2>4
  <1>5. ASSUME NEW e \in Endpoints, e \in try(new), e \notin go(new)
        PROVE  cand'[e].st # "in_use"
    <2>1. /\ e \in known(new) \/ e \in mine(new)
          /\ e \in known(new) => e \notin mine(new)
          /\ c(new)[e].st \in {"idle", "failed"}
      BY <1>5
    <2>2. c(new)[e] \in Candidate
      <3>1. NoCandidate \in Candidate /\ [NoCandidate EXCEPT !.st = "idle"] \in Candidate
        BY DEF NoCandidate, Candidate, NetState
      <3> QED
        BY <1>2, <3>1
    <2> HIDE DEF known, mine, go, c
    <2>3. cand'[e] = CASE e \in known(new) -> [c(new)[e] EXCEPT !.cnt = 0]
                       [] e \in mine(new) -> [c(new)[e] EXCEPT !.st = "zombie"]
                       [] e \in go(new) -> [c(new)[e] EXCEPT !.st = "in_use", !.cnt = @ + 1]
                       [] OTHER -> c(new)[e]
      BY <1>1, Zenon
    <2>4. cand'[e] = [c(new)[e] EXCEPT !.cnt = 0] \/ cand'[e] = [c(new)[e] EXCEPT !.st = "zombie"]
      BY <1>5, <2>1, <2>3
    <2> QED
      BY <2>1, <2>2, <2>4 DEF Candidate
  <1> HIDE DEF go, try, c, known, mine
  <1>6. (\A e \in go(new) : Backed(e)') /\ \A t \in ClientSids : Keeps(t)
    BY <1>0, <1>1, <1>3, ConnectBacks
  <1> QED
    BY <1>0, <1>1, <1>4, <1>5, <1>6, BackedStays DEF InUse

LEMMA AdjustConnectInUse ==
  ASSUME InUseInv, AdjustConnect
  PROVE  InUse'
  <1>0. NetInv /\ TypeOK /\ InUse
    BY DEF InUseInv, NetInv
  <1>1. PICK es \in SUBSET Available :
          /\ Connect({e \in es : ~Connected(e)}, ch)
          /\ cand' = [e \in Endpoints |->
                        IF e \in es THEN [cand[e] EXCEPT !.st = IF Connected(e) THEN "failed" ELSE "in_use"]
                        ELSE cand[e]]
          /\ leaked' = leaked \ es
    BY Zenon DEF AdjustConnect
  <1>2. p2pQ' = p2pQ
    BY DEF AdjustConnect
  <1>3. {e \in es : ~Connected(e)} \in SUBSET Endpoints
    BY DEF Available
  <1>4. (\A e \in {x \in es : ~Connected(x)} : Backed(e)') /\ \A t \in ClientSids : Keeps(t)
    BY <1>0, <1>1, <1>2, <1>3, ConnectBacks
  <1>5. ASSUME NEW e \in Endpoints, cand'[e].st = "in_use"
        PROVE  (e \in es /\ ~Connected(e)) \/ (e \notin es /\ cand[e].st = "in_use")
    BY <1>0, <1>1, <1>5 DEF TypeOK
  <1> QED
    BY <1>0, <1>1, <1>4, <1>5, BackedStays DEF InUse

LEMMA AdjustReplaceInUse ==
  ASSUME InUseInv, NEW n \in Nodes, AdjustReplace(n)
  PROVE  InUse'
  <1>s. PICK s : s = peers[n]
    OBVIOUS
  <1> DEFINE e == ch[s].ep
             there(f) == \E m \in Nodes \ {n} : peers[m] \in Sids /\ ch[peers[m]].ep = f
             c == IF Known(e) THEN [cand EXCEPT ![e].st = "available"] ELSE cand
  <1>0. NetInv /\ TypeOK /\ InUse
    BY DEF InUseInv, NetInv
  <1>1. s \in ClientSids /\ p2pQ' = p2pQ
    BY <1>s DEF AdjustReplace
  <1>2. \/ ch' = Stopped(s) /\ leaked' = leaked \cup {e} /\ UNCHANGED cand
        \/ \E f \in Available :
             /\ Connect(IF there(f) THEN {} ELSE {f}, Stopped(s))
             /\ cand' = [c EXCEPT ![f].st = IF there(f) THEN "failed" ELSE "in_use"]
             /\ leaked' = leaked \ {f}
    BY <1>s, Zenon DEF AdjustReplace
  <1>3. s \in Sids /\ HasNode(peers, s)
    BY <1>s, <1>1 DEF Sids, HasNode
  <1>4. e \in Endpoints /\ cand \in [Endpoints -> Candidate]
    BY <1>0, <1>1, <1>3, ChanFacts DEF ChanOf, ChanType, TypeOK, Candidate
  <1>5. \A t \in Sids : t # s => Stopped(s)[t] = ch[t]
    BY <1>0, <1>3, StoppedChan
  <1>6. CASE ch' = Stopped(s) /\ leaked' = leaked \cup {e} /\ UNCHANGED cand
    <2>1. \A t \in ClientSids : ch[t].ep # e => Keeps(t)
      BY <1>1, <1>5, <1>6 DEF Keeps, Sids
    <2> QED
      BY <1>0, <1>6, <2>1, BackedStays DEF InUse
  <1>7. ASSUME NEW f \in Available,
               Connect(IF there(f) THEN {} ELSE {f}, Stopped(s)),
               cand' = [c EXCEPT ![f].st = IF there(f) THEN "failed" ELSE "in_use"],
               leaked' = leaked \ {f}
        PROVE  InUse'
    <2> DEFINE v == IF there(f) THEN "failed" ELSE "in_use"
               es == IF there(f) THEN {} ELSE {f}
    <2>1. f \in Endpoints /\ es \in SUBSET Endpoints /\ (v = "in_use" => f \in es)
      BY DEF Available
    <2>2. /\ c \in [Endpoints -> Candidate]
          /\ \A x \in Endpoints : c[x].st = "in_use" => cand[x].st = "in_use" /\ x # e
      BY <1>4 DEF Candidate, NetState, Known
    <2>3. cand' = [c EXCEPT ![f].st = v] /\ Connect(es, Stopped(s))
      BY <1>7
    <2> HIDE DEF c, v, es
    <2>4. (\A x \in es : Backed(x)') /\ \A t \in ClientSids : Stopped(s)[t] = ch[t] => Keeps(t)
      BY <1>0, <1>1, <2>1, <2>3, ConnectBacks
    <2>5. \A t \in ClientSids : ch[t].ep # e => Keeps(t)
      BY <1>5, <2>4 DEF Sids
    <2>6. ASSUME NEW x \in Endpoints, cand'[x].st = "in_use"
          PROVE  (x = f /\ f \in es) \/ (x # f /\ cand[x].st = "in_use" /\ x # e)
      BY <2>1, <2>2, <2>3, <2>6 DEF Candidate
    <2> QED
      BY <1>0, <1>7, <2>4, <2>5, <2>6, BackedStays DEF InUse
  <1> QED
    BY <1>2, <1>6, <1>7

LEMMA InitInUse == Init => InUse
  BY DEF Init, InUse, NoCandidate

LEMMA NextInUse == InUseInv /\ [Next]_vars => InUseInv'
  <1> SUFFICES ASSUME InUseInv, [Next]_vars
               PROVE  InUse'
    BY NextNet DEF InUseInv
  <1>1. CASE UNCHANGED vars
    BY <1>1 DEF vars, InUseInv, InUse, Backed, Holds, Of, Conn, Err
  <1>2. CASE P2pMessage
    BY <1>2, ConnectNotifyInUse, ErrorInUse, VerReqInUse, VerRespInUse, NodesInUse DEF P2pMessage
  <1>3. CASE P2pTimer
    BY <1>3, CheckInUse, AdjustConnectInUse, AdjustReplaceInUse DEF P2pTimer
  <1>4. CASE CmChannelError
    BY <1>4, CmKeeps, InUseStays DEF CmChannelError, InUseInv
  <1>5. ASSUME NEW s \in Sids,
               \/ OnConnect(s) \/ OnAccept(s) \/ AddChannel(s) \/ Remote(s)
               \/ VersionSent(s) \/ WriteError(s) \/ TimerExpired(s) \/ StopPosted(s)
        PROVE  InUse'
    BY <1>5, InUseWorker
  <1> QED
    BY <1>1, <1>2, <1>3, <1>4, <1>5 DEF Next

\* A candidate in use has a channel that is connecting, in m_channels, or has
\* its outcome queued: its state will be set again.
THEOREM CandidatesBacked == Spec => []InUseBacked
  <1>1. Init => InUseInv
    BY InitNet, InitInUse DEF InUseInv
  <1>2. InUseInv => InUseBacked
    <2>1. ASSUME NEW e, Backed(e)
          PROVE  \E s \in ClientSids :
                   /\ ch[s].ep = e
                   /\ \/ ch[s].st \in {"connecting", "on"}
                      \/ \E i \in DOMAIN p2pQ : p2pQ[i].sid = s /\ p2pQ[i].type \in {"connect", "error"}
      BY <2>1 DEF Backed, Holds, Of, Conn, Err
    <2> QED
      BY <2>1 DEF InUseInv, InUse, InUseBacked
  <1> QED
    BY <1>1, <1>2, NextInUse, PTL DEF Spec

-----------------------------------------------------------------------------
(***************************************************************************)
(* The limits.  The sets of socket ids and of nodes may be infinite; the   *)
(* connections are not.                                                    *)
(***************************************************************************)
On  == {s \in ServerSids : ch[s].st = "on"}
Out == {n \in Nodes : peers[n] \in ClientSids}

Limits ==
  /\ IsFiniteSet(On) /\ Cardinality(On) <= MaxIn + 1
  /\ IsFiniteSet(Out) /\ Cardinality(Out) <= MaxOut

LEMMA LimitStays ==
  ASSUME NEW S, NEW T, NEW k \in Nat, IsFiniteSet(S), Cardinality(S) <= k, T \subseteq S
  PROVE  IsFiniteSet(T) /\ Cardinality(T) <= k
  <1>1. IsFiniteSet(T) /\ Cardinality(T) <= Cardinality(S)
    BY FS_Subset
  <1>2. Cardinality(S) \in Nat /\ Cardinality(T) \in Nat
    BY <1>1, FS_CardinalityType
  <1> QED
    BY <1>1, <1>2

LEMMA LimitReached ==
  ASSUME NEW S, NEW T, NEW x, NEW k \in Nat, IsFiniteSet(S), Cardinality(S) <= k, T \subseteq S \cup {x}
  PROVE  IsFiniteSet(T) /\ Cardinality(T) <= k + 1
  <1>1. /\ IsFiniteSet(S \cup {x})
        /\ Cardinality(S \cup {x}) = IF x \in S THEN Cardinality(S) ELSE Cardinality(S) + 1
    BY FS_AddElement
  <1>2. Cardinality(S) \in Nat
    BY FS_CardinalityType
  <1>3. k + 1 \in Nat /\ Cardinality(S \cup {x}) <= k + 1
    BY <1>1, <1>2
  <1> QED
    BY <1>1, <1>3, LimitStays

\* Only the acceptor thread enters inbound channels in m_channels.
LEMMA OnShrinks ==
  ASSUME NetInv, [Next]_vars, ~(\E s \in Sids : AddChannel(s))
  PROVE  On' \subseteq On
  <1>0. TypeOK /\ ch \in [Sids -> Channel]
    BY DEF NetInv, TypeOK
  <1>1. SUFFICES ASSUME NEW t \in ServerSids, ch'[t].st = "on"
                 PROVE  ch[t].st = "on"
    BY DEF On
  <1>t. t \in Sids /\ t \notin ClientSids /\ ch[t] \in Channel
    BY <1>0 DEF Sids
  <1>2. CASE UNCHANGED vars
    BY <1>1, <1>2 DEF vars
  <1>3. ASSUME NEW s \in Sids, ch' = Stopped(s)
        PROVE  ch[t].st = "on"
    <2>1. Stopped(s)[s] = Off(ch[s]) /\ \A u \in Sids : u # s => Stopped(s)[u] = ch[u]
      BY <1>0, StoppedChan
    <2> QED
      BY <1>1, <1>3, <1>t, <2>1 DEF Off
  <1>4. CASE P2pMessage
    <2>s. PICK m : m = Head(p2pQ)
      OBVIOUS
    <2>1. p2pQ # <<>> /\ p2pQ' = Tail(p2pQ)
      BY <1>4 DEF P2pMessage, OnClientTcpConnectNotify, OnTcpChannelError, OnVerReq, OnVerResp,
                  OnBroadcastPeerNodes, Handle
    <2>2. m.sid \in Sids
      BY <2>s, <2>1, HeadFacts
    <2>3. CASE OnClientTcpConnectNotify
      <3>1. ch' = Stopped(m.sid) \/ ch' = [ch EXCEPT ![m.sid].ver = "writing"] \/ ch' = ch
        BY <2>3, <2>s DEF OnClientTcpConnectNotify
      <3>2. CASE ch' = [ch EXCEPT ![m.sid].ver = "writing"]
        BY <1>0, <1>1, <1>t, <2>2, <3>2 DEF Channel
      <3> QED
        BY <1>1, <1>3, <2>2, <3>1, <3>2
    <2>4. CASE OnTcpChannelError
      <3>1. ch' = [ch EXCEPT ![m.sid].err = Live(m.sid)]
        BY <2>4, <2>s DEF OnTcpChannelError
      <3> QED
        BY <1>0, <1>1, <1>t, <2>2, <3>1 DEF Channel
    <2>5. CASE OnVerReq
      <3>1. ch' = Stopped(m.sid) \/ ch' = [ch EXCEPT ![m.sid].ver = "writing"] \/ ch' = ch
        BY <2>5, <2>s, Zenon DEF OnVerReq
      <3>2. CASE ch' = [ch EXCEPT ![m.sid].ver = "writing"]
        BY <1>0, <1>1, <1>t, <2>2, <3>2 DEF Channel
      <3> QED
        BY <1>1, <1>3, <2>2, <3>1, <3>2
    <2>6. CASE OnVerResp
      <3>1. ch' = Stopped(m.sid) \/ ch' = ch
        BY <2>6, <2>s, Zenon DEF OnVerResp
      <3> QED
        BY <1>1, <1>3, <2>2, <3>1
    <2>7. CASE OnBroadcastPeerNodes
      BY <1>1, <2>7 DEF OnBroadcastPeerNodes
    <2> QED
      BY <1>4, <2>3, <2>4, <2>5, <2>6, <2>7 DEF P2pMessage
  <1>5. ASSUME NEW es, NEW base, Connect(es, base), base[t] = ch[t]
        PROVE  ch[t].st = "on"
    <2>1. ch'[t] = base[t] \/ t \in FreshSids
      BY <1>5, <1>t, ConnectChans
    <2> QED
      BY <1>1, <1>5, <1>t, <2>1 DEF FreshSids
  <1>6. CASE P2pTimer
    <2>1. CASE OnTimerCheckPeerCandidates
      <3>1. \E es : Connect(es, ch)
        BY <2>1, Zenon DEF OnTimerCheckPeerCandidates
      <3> QED
        BY <3>1, <1>5
    <2>2. CASE AdjustConnect
      <3>1. \E es : Connect(es, ch)
        BY <2>2, Zenon DEF AdjustConnect
      <3> QED
        BY <3>1, <1>5
    <2>3. ASSUME NEW n \in Nodes, AdjustReplace(n)
          PROVE  ch[t].st = "on"
      <3>s. PICK s : s = peers[n]
        OBVIOUS
      <3>1. s \in ClientSids /\ (ch' = Stopped(s) \/ \E es : Connect(es, Stopped(s)))
        BY <2>3, <3>s, Zenon DEF AdjustReplace
      <3>2. s \in Sids /\ t # s
        BY <1>t, <3>1 DEF Sids
      <3>3. Stopped(s)[t] = ch[t]
        BY <1>0, <1>t, <3>2, StoppedChan
      <3> QED
        BY <1>3, <1>5, <3>1, <3>2, <3>3
    <2> QED
      BY <1>6, <2>1, <2>2, <2>3 DEF P2pTimer
  <1>7. CASE CmChannelError
    <2>1. ch' = Stopped(Head(cmQ)) /\ cmQ # <<>>
      BY <1>7 DEF CmChannelError
    <2>2. Head(cmQ) \in Sids
      BY <1>0, <2>1, InTail DEF TypeOK
    <2> QED
      BY <1>3, <2>1, <2>2
  <1>8. ASSUME NEW s \in Sids, OnConnect(s)
        PROVE  ch[t].st = "on"
    <2>1. s \in ClientSids
      <3>1. ch[s].st = "connecting"
        BY <1>8 DEF OnConnect
      <3> QED
        BY <3>1, ChanFacts DEF ChanOf, ChanType
    <2>2. ch'[t] = ch[t]
      <3>1. PICK ok \in BOOLEAN :
              ch' = [ch EXCEPT ![s].st = IF ok THEN "on" ELSE "stopped", ![s].reading = ok]
        BY <1>8 DEF OnConnect
      <3> QED
        BY <1>0, <1>t, <2>1, <3>1
    <2> QED
      BY <1>1, <2>2
  <1>9. ASSUME NEW s \in Sids,
               OnAccept(s) \/ Remote(s) \/ VersionSent(s) \/ WriteError(s) \/ TimerExpired(s) \/ StopPosted(s)
        PROVE  ch[t].st = "on"
    <2>1. CASE OnAccept(s)
      <3>1. ch' = [ch EXCEPT ![s].st = "started", ![s].reading = TRUE, ![s].timer = "version"]
        BY <2>1 DEF OnAccept
      <3>2. ch'[t] = ch[t] \/ ch'[t].st = "started"
        BY <1>0, <1>t, <3>1 DEF Channel
      <3> QED
        BY <1>1, <3>2
    <2>2. CASE StopPosted(s)
      <3>c. PICK c : c = Gone(ch[s].ep)
        OBVIOUS
      <3>1. ch' = [ch EXCEPT ![s] = c]
        BY <2>2, <3>c, Zenon DEF StopPosted
      <3>2. c.st = "stopped"
        BY <3>c DEF Gone, Unused
      <3>3. ch'[t] = ch[t] \/ ch'[t] = c
        BY <1>0, <1>t, <3>1
      <3> QED
        BY <1>1, <3>2, <3>3
    <2>3. CASE VersionSent(s)
      <3>1. PICK timer, login : ch' = [ch EXCEPT ![s].ver = "sent", ![s].timer = timer, ![s].login = login]
        <4>1. ch' = [ch EXCEPT ![s].ver = "sent",
                               ![s].timer = IF s \in ServerSids THEN "shake" ELSE "version",
                               ![s].login = IF s \in ServerSids THEN TRUE ELSE ch[s].login]
          BY <1>0, <1>9, <2>3 DEF VersionSent, Channel
        <4> QED
          BY <4>1
      <3>2. ch'[t].st = ch[t].st
        BY <1>0, <1>t, <1>9, <3>1 DEF Channel
      <3> QED
        BY <1>1, <3>2
    <2>4. CASE WriteError(s)
      <3>1. ch' = [ch EXCEPT ![s].ver = "failed"]
        BY <2>4 DEF WriteError
      <3>2. ch'[t].st = ch[t].st
        BY <1>0, <1>t, <1>9, <3>1 DEF Channel
      <3> QED
        BY <1>1, <3>2
    <2>5. CASE TimerExpired(s)
      <3>1. ch' = [ch EXCEPT ![s].timer = "none"]
        BY <2>5 DEF TimerExpired
      <3>2. ch'[t].st = ch[t].st
        BY <1>0, <1>t, <1>9, <3>1 DEF Channel
      <3> QED
        BY <1>1, <3>2
    <2>6. CASE Remote(s)
      <3>1. \/ ch' = [ch EXCEPT ![s].reading = FALSE]
            \/ ch' = [ch EXCEPT ![s].got = TRUE, ![s].timer = "none"]
            \/ ch' = [ch EXCEPT ![s].login = TRUE, ![s].timer = "none"]
            \/ ch' = ch
        BY <2>6, Zenon DEF Remote, SocketError, ReadOther, ReadFailed, ReadVerReq, ReadVerResp, ReadPeerNodes
      <3>2. ch'[t].st = ch[t].st
        BY <1>0, <1>t, <1>9, <3>1 DEF Channel
      <3> QED
        BY <1>1, <3>2
    <2> QED
      BY <1>9, <2>1, <2>2, <2>3, <2>4, <2>5, <2>6
  <1> QED
    BY <1>2, <1>4, <1>6, <1>7, <1>8, <1>9 DEF Next

\* Only an accepted ver_resp adds an outbound peer node.
LEMMA OutShrinks ==
  ASSUME NetInv, [Next]_vars, ~OnVerResp
  PROVE  Out' \subseteq Out
  <1>0. peers \in [Nodes -> Sids \cup {NoSid}]
    BY DEF NetInv, TypeOK
  <1>1. SUFFICES ASSUME NEW n \in Nodes, peers'[n] \in ClientSids
                 PROVE  peers[n] \in ClientSids
    BY DEF Out
  <1>2. CASE peers' = peers
    BY <1>1, <1>2
  <1>3. CASE OnTcpChannelError
    <2>1. peers' = Without(Head(p2pQ).sid)
      BY <1>3 DEF OnTcpChannelError
    <2>2. peers'[n] = NoSid \/ peers'[n] = peers[n]
      BY <2>1 DEF Without
    <2> QED
      BY <1>1, <2>2 DEF Sids
  <1>4. CASE OnVerReq
    <2>s. PICK m : m = Head(p2pQ)
      OBVIOUS
    <2>1. p2pQ # <<>> /\ p2pQ' = Tail(p2pQ) /\ m.type = "ver_req" /\ (peers' = peers \/ Add(m))
      BY <1>4, <2>s, Zenon DEF OnVerReq, Handle
    <2>2. m.sid \notin ClientSids
      <3>1. ChanOf(m.sid, ch[m.sid], Of(p2pQ', m.sid) \cup {m}, HasNode(peers, m.sid),
                   In(cmQ, m.sid), m.sid \in ghosts, m.sid \in early)
        BY <2>s, <2>1, HeadFacts
      <3> QED
        BY <2>1, <3>1 DEF ChanOf, ChanType
    <2>3. peers'[n] = peers[n] \/ peers'[n] = m.sid
      BY <1>0, <2>1 DEF Add
    <2> QED
      BY <1>1, <2>2, <2>3
  <1>5. ASSUME NEW k \in Nodes, AdjustReplace(k)
        PROVE  peers[n] \in ClientSids
    <2>1. peers' = [peers EXCEPT ![k] = NoSid]
      BY <1>5 DEF AdjustReplace
    <2>2. peers'[n] = NoSid \/ peers'[n] = peers[n]
      BY <1>0, <2>1
    <2> QED
      BY <1>1, <2>2 DEF Sids
  <1>6. \/ peers' = peers \/ OnTcpChannelError \/ OnVerReq \/ \E k \in Nodes : AdjustReplace(k)
    <2>1. CASE UNCHANGED vars
      BY <2>1 DEF vars
    <2>2. CASE P2pMessage
      BY <2>2 DEF P2pMessage, OnClientTcpConnectNotify, OnBroadcastPeerNodes
    <2>3. CASE P2pTimer
      BY <2>3, Zenon DEF P2pTimer, OnTimerCheckPeerCandidates, AdjustConnect
    <2>4. CASE CmChannelError
      BY <2>4 DEF CmChannelError
    <2>5. ASSUME NEW s \in Sids,
                 \/ OnConnect(s) \/ OnAccept(s) \/ AddChannel(s) \/ Remote(s)
                 \/ VersionSent(s) \/ WriteError(s) \/ TimerExpired(s) \/ StopPosted(s)
          PROVE  peers' = peers
      BY <2>5 DEF OnConnect, OnAccept, AddChannel, Remote, VersionSent, WriteError, TimerExpired, StopPosted,
           SocketError, ReadOther, ReadFailed, ReadVerReq, ReadVerResp, ReadPeerNodes, serviceVars
    <2> QED
      BY <2>1, <2>2, <2>3, <2>4, <2>5 DEF Next
  <1> QED
    BY <1>2, <1>3, <1>4, <1>5, <1>6

LEMMA InitLimits == Init => Limits
  <1> SUFFICES ASSUME Init
               PROVE  Limits
    OBVIOUS
  <1>1. On = {}
    <2>1. PICK pool \in SidPools : ch = [s \in Sids |-> IF s \in pool THEN Unused ELSE Gone(NoEndpoint)]
      BY DEF Init
    <2>2. \A s \in ServerSids : ch[s] = Unused \/ ch[s] = Gone(NoEndpoint)
      BY <2>1 DEF Sids
    <2>3. Unused.st = "unused" /\ Gone(NoEndpoint).st = "stopped"
      BY DEF Unused, Gone
    <2> HIDE DEF Unused, Gone
    <2> QED
      BY <2>2, <2>3 DEF On
  <1>2. Out = {}
    BY DEF Init, Out, Sids
  <1> QED
    BY <1>1, <1>2, FS_EmptySet DEF Limits

LEMMA NextLimits == NetInv /\ Limits /\ [Next]_vars => Limits'
  <1> SUFFICES ASSUME NetInv, Limits, [Next]_vars
               PROVE  Limits'
    OBVIOUS
  <1>0. MaxIn \in Nat /\ MaxIn + 1 \in Nat /\ MaxOut \in Nat
    OBVIOUS
  <1>1. IsFiniteSet(On') /\ Cardinality(On') <= MaxIn + 1
    <2>1. CASE ~(\E s \in Sids : AddChannel(s))
      BY <2>1, <1>0, OnShrinks, LimitStays DEF Limits
    <2>2. ASSUME NEW s \in Sids, AddChannel(s)
          PROVE  IsFiniteSet(On') /\ Cardinality(On') <= MaxIn + 1
      <3>0. ch \in [Sids -> Channel] /\ s \in ServerSids
        BY <2>2 DEF NetInv, TypeOK, AddChannel
      <3>1. CASE CheckOverMaxConnect
        <4>1. Cardinality(On) <= MaxIn
          BY <3>1 DEF CheckOverMaxConnect, InConnectNum, On
        <4>2. \A t \in ServerSids : t # s => ch'[t] = ch[t]
          BY <2>2, <3>0, <3>1 DEF AddChannel, Sids
        <4>3. On' \subseteq On \cup {s}
          BY <4>2 DEF On
        <4> QED
          BY <1>0, <4>1, <4>3, LimitReached DEF Limits
      <3>2. CASE ~CheckOverMaxConnect
        <4>1. ch' = [ch EXCEPT ![s] = Gone(NoEndpoint)]
          BY <2>2, <3>2 DEF AddChannel
        <4>2. ch'[s].st = "stopped" /\ \A t \in ServerSids : t # s => ch'[t] = ch[t]
          BY <3>0, <4>1 DEF Gone, Unused, Sids
        <4>3. On' \subseteq On
          BY <4>2 DEF On
        <4> QED
          BY <1>0, <4>3, LimitStays DEF Limits
      <3> QED
        BY <3>1, <3>2
    <2> QED
      BY <2>1, <2>2
  <1>2. IsFiniteSet(Out') /\ Cardinality(Out') <= MaxOut
    <2>1. CASE ~OnVerResp
      BY <2>1, <1>0, OutShrinks, LimitStays DEF Limits
    <2>2. CASE OnVerResp
      <3>s. PICK m : m = Head(p2pQ)
        OBVIOUS
      <3>0. peers \in [Nodes -> Sids \cup {NoSid}]
        BY DEF NetInv, TypeOK
      <3>1. peers' = peers \/ (OutNum < MaxOut /\ Add(m))
        BY <2>2, <3>s, Zenon DEF OnVerResp
      <3>2. CASE peers' = peers
        <4>1. Out' \subseteq Out
          BY <3>2 DEF Out
        <4> QED
          BY <4>1, <1>0, LimitStays DEF Limits
      <3>3. CASE OutNum < MaxOut /\ Add(m)
        <4>1. Cardinality(Out) < MaxOut /\ Cardinality(Out) \in Nat
          BY <3>3, FS_CardinalityType DEF OutNum, Out, Limits
        <4>2. MaxOut - 1 \in Nat /\ Cardinality(Out) <= MaxOut - 1 /\ (MaxOut - 1) + 1 = MaxOut
          BY <1>0, <4>1
        <4>3. Out' \subseteq Out \cup {m.node}
          BY <3>0, <3>3 DEF Out, Add
        <4>4. IsFiniteSet(Out') /\ Cardinality(Out') <= (MaxOut - 1) + 1
          BY <4>2, <4>3, LimitReached DEF Limits
        <4> QED
          BY <4>2, <4>4
      <3> QED
        BY <3>1, <3>2, <3>3
    <2> QED
      BY <2>1, <2>2
  <1> QED
    BY <1>1, <1>2 DEF Limits

\* The inbound channels in m_channels are at most one more than the code's
\* difference of its limits, and the outbound peer nodes at most
\* max_connected_peer_nodes_count, however the connections come and go.
THEOREM LimitsHold == Spec => []InboundBounded
  <1>1. Init => NetInv /\ Limits
    BY InitNet, InitLimits
  <1>2. NetInv /\ Limits /\ [Next]_vars => (NetInv /\ Limits)'
    BY NextNet, NextLimits
  <1>3. Limits => InboundBounded
    BY DEF Limits, InboundBounded, InConnectNum, OutNum, On, Out
  <1> QED
    BY <1>1, <1>2, <1>3, PTL DEF Spec
=============================================================================
