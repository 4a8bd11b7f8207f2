------------------------- MODULE MessageRelayProofs -------------------------
(***************************************************************************)
(* MessageRelay implements RemoteCall, and responses keep their way back,  *)
(* for any nodes, requests, connections and number of faults.              *)
(***************************************************************************)
EXTENDS MessageRelay, FiniteSetTheorems, TLAPS

\* Only requests that were broadcast travel, and only runs are answered.
Caused == \A m \in msgs : m.req \in sent /\ (m.run > 0 => runs[m.req] > 0)

\* The filter of the target remembers the one run since its last restart.
RunsRemembered ==
  \A r \in Requests :
    runs[r] <= restarts[TargetOf[r]] + (IF r \in seen[TargetOf[r]] THEN 1 ELSE 0)

\* An answered call has no session any more.
AnswerCloses == \A r \in Requests : answers[r] > 0 => r \in sent \ sessions

\* The inductive invariant behind the refinement.
Inv == TypeOK /\ Caused /\ RunsRemembered /\ AnswerCloses

USE RoutesAssumption, RelayBoundsAssumption

-----------------------------------------------------------------------------
\* New messages: well formed, on connections, with request and run as given.
Proper(new, r, k) ==
  \A m \in new : m \in Message /\ {m.from, m.to} \in links /\ m.req = r /\ m.run = k

\* The messages of a broadcast and of a response are well formed, and lie on
\* connections.
LEMMA BroadcastType ==
  ASSUME NEW n \in Nodes, NEW r \in Requests, NEW path \in Seq(Nodes),
         NEW x \in SUBSET Nodes
  PROVE  Proper(Broadcast(n, r, path, x), r, 0)
  <1> SUFFICES ASSUME NEW k \in Neighbours(n) \ x
               PROVE  LET m == Msg(r, 0, n, k, path)
                      IN  m \in Message /\ {m.from, m.to} \in links /\ m.req = r /\ m.run = 0
    BY Zenon DEF Broadcast, Proper
  <1>1. k \in Nodes /\ {n, k} \in links
    BY DEF Neighbours
  <1> QED BY <1>1 DEF Msg, Message

LEMMA SendRespType ==
  ASSUME NEW n \in Nodes, NEW r \in Requests, NEW k \in Nat, NEW path \in Seq(Nodes)
  PROVE  Proper(SendResp(n, r, k, path), r, k)
  <1> SUFFICES ASSUME NEW i \in NextHop(n, path)
               PROVE  LET m == Msg(r, k, n, path[i], SubSeq(path, 1, i - 1))
                      IN  m \in Message /\ {m.from, m.to} \in links /\ m.req = r /\ m.run = k
    BY Zenon DEF SendResp, Proper
  <1>1. i \in 1 .. Len(path) /\ path[i] \in Nodes /\ {n, path[i]} \in links
    BY DEF NextHop, Neighbours
  <1>2. SubSeq(path, 1, i - 1) \in Seq(Nodes)
    BY <1>1
  <1> QED BY <1>1, <1>2 DEF Msg, Message

\* What a broken connection leaves of the messages.
LEMMA CutType ==
  ASSUME TypeOK, NEW ls
  PROVE  \A m \in Cut(ls) :
           /\ m \in Message
           /\ m.at # "late" => {m.from, m.to} \in links \ ls
           /\ \E o \in msgs : m.req = o.req /\ m.run = o.run
  <1> SUFFICES ASSUME NEW m \in msgs, {m.from, m.to} \in ls => m.at \in {"inbox", "late"}
               PROVE  LET o == IF {m.from, m.to} \in ls THEN [m EXCEPT !.at = "late"] ELSE m
                      IN  /\ o \in Message /\ o.req = m.req /\ o.run = m.run
                          /\ o.at # "late" => {o.from, o.to} \in links \ ls
    BY Zenon DEF Cut
  <1>1. m \in Message /\ (m.at # "late" => {m.from, m.to} \in links)
    BY DEF TypeOK, ChannelsOK
  <1> QED BY <1>1 DEF Message

\* The invariant holds initially.
LEMMA InitInv == Init => Inv
  <1> SUFFICES ASSUME Init PROVE Inv
    OBVIOUS
  <1>1. ChannelsOK
    BY TopologiesAssumption DEF Init, ChannelsOK
  <1>2. TypeOK
    BY <1>1 DEF Init, TypeOK
  <1>3. Caused /\ RunsRemembered /\ AnswerCloses
    BY DEF Init, Caused, RunsRemembered, AnswerCloses
  <1> QED BY <1>2, <1>3 DEF Inv

\* A step that only adds well-formed messages on connections, and no
\* connection, keeps the channels in order.
LEMMA ChannelsKept ==
  ASSUME NEW new, NEW r, NEW k, ChannelsOK, msgs' \subseteq msgs \cup new,
         Proper(new, r, k), links' = links, known' = known
  PROVE  ChannelsOK'
  BY DEF ChannelsOK, Proper

\* A step that adds only messages of runs of requests that were sent.
LEMMA CausedKept ==
  ASSUME NEW new, NEW r, NEW k, Inv, msgs' \subseteq msgs \cup new,
         Proper(new, r, k), r \in sent', k > 0 => runs'[r] > 0,
         sent \subseteq sent', \A q \in Requests : runs[q] > 0 => runs'[q] > 0
  PROVE  Caused'
  <1> SUFFICES ASSUME NEW m \in msgs'
               PROVE  m.req \in sent' /\ (m.run > 0 => runs'[m.req] > 0)
    BY DEF Caused
  <1>1. CASE m \in new
    BY <1>1 DEF Proper
  <1>2. CASE m \in msgs
    <2>1. m.req \in sent /\ (m.run > 0 => runs[m.req] > 0) /\ m.req \in Requests
      BY <1>2 DEF Inv, Caused, TypeOK
    <2> QED BY <2>1
  <1> QED BY <1>1, <1>2

\* Every step preserves the invariant.
LEMMA NextInv == Inv /\ [Next]_vars => Inv'
  <1> SUFFICES ASSUME Inv, [Next]_vars PROVE Inv'
    OBVIOUS
  <1>0. TypeOK /\ ChannelsOK
    BY DEF Inv, TypeOK
  <1>a. ASSUME NEW m \in msgs
        PROVE  /\ m \in Message /\ m.to \in Nodes /\ m.from \in Nodes /\ m.req \in Requests
               /\ m.path \in Seq(Nodes) /\ m.run \in Nat /\ m.req \in sent
               /\ m.run > 0 => runs[m.req] > 0
               /\ m.at # "late" => {m.from, m.to} \in links
    BY DEF Inv, TypeOK, ChannelsOK, Caused, Message
  <1>1. ASSUME NEW r \in Requests, Send(r) PROVE Inv'
    <2> DEFINE new == Broadcast(ClientOf[r], r, <<ClientOf[r]>>, {})
    <2>0. ClientOf[r] \in Nodes /\ <<ClientOf[r]>> \in Seq(Nodes)
      OBVIOUS
    <2>1. Proper(new, r, 0)
      BY <2>0, BroadcastType
    <2>2. msgs' = msgs \cup new
      BY <1>1 DEF Send
    <2> HIDE DEF new
    <2>3. ChannelsOK'
      <3>1. links' = links /\ known' = known
        BY <1>1 DEF Send
      <3> QED BY <1>0, <2>1, <2>2, <3>1, ChannelsKept
    <2>4. TypeOK'
      BY <1>0, <1>1, <2>3 DEF Send, TypeOK
    <2>5. Caused'
      <3>1. sent' = sent \cup {r} /\ runs' = runs
        BY <1>1 DEF Send
      <3>2. msgs' \subseteq msgs \cup new
        BY <2>2
      <3> QED BY <2>1, <3>1, <3>2, CausedKept
    <2>6. (RunsRemembered /\ AnswerCloses)'
      BY <1>1 DEF Inv, Send, RunsRemembered, AnswerCloses
    <2> QED BY <2>4, <2>5, <2>6 DEF Inv
  <1>2. ASSUME NEW m \in msgs, Write(m) PROVE Inv'
    <2>0. /\ m \in Message /\ m.to \in Nodes /\ m.from \in Nodes /\ m.req \in Requests
          /\ m.path \in Seq(Nodes) /\ m.run \in Nat /\ m.req \in sent
          /\ m.run > 0 => runs[m.req] > 0
          /\ m.at # "late" => {m.from, m.to} \in links
      BY <1>a
    <2> DEFINE out == [m EXCEPT !.at = "wire"]
    <2>1. Proper({out}, m.req, m.run)
      BY <1>2, <2>0 DEF Write, Message, Proper
    <2>2. msgs' \subseteq msgs \cup {out}
      BY <1>2 DEF Write
    <2> HIDE DEF out
    <2>3. ChannelsOK'
      <3>1. known' = known \cup {<<m.from, m.to, m.req, m.run>>} /\ links' = links
        BY <1>2 DEF Write
      <3>2. /\ <<m.from, m.to, m.req, m.run>> \in Nodes \X Nodes \X Requests \X Nat
            /\ {m.from, m.to} \in links
        BY <1>2, <2>0 DEF Write
      <3>3. known' \subseteq Nodes \X Nodes \X Requests \X Nat
        BY <1>0, <3>1, <3>2 DEF ChannelsOK
      <3>5. \A k \in known' : {k[1], k[2]} \in links'
        <4> DEFINE key == <<m.from, m.to, m.req, m.run>>
        <4>1. key[1] = m.from /\ key[2] = m.to
          OBVIOUS
        <4>2. {key[1], key[2]} \in links
          BY <3>2, <4>1
        <4>3. \A k \in known' : k \in known \/ k = key
          BY <3>1
        <4> HIDE DEF key
        <4> QED BY <1>0, <3>1, <4>2, <4>3 DEF ChannelsOK
      <3>4. /\ msgs' \subseteq Message
            /\ \A o \in msgs' : o.at # "late" => {o.from, o.to} \in links'
        BY <1>0, <2>1, <2>2, <3>1 DEF ChannelsOK, Proper
      <3> QED BY <1>0, <3>1, <3>3, <3>4, <3>5 DEF ChannelsOK
    <2>4. TypeOK'
      BY <1>0, <1>2, <2>3 DEF Write, TypeOK
    <2>5. Caused'
      <3>1. sent' = sent /\ runs' = runs
        BY <1>2 DEF Write
      <3> QED BY <2>0, <2>1, <2>2, <3>1, CausedKept
    <2>6. (RunsRemembered /\ AnswerCloses)'
      BY <1>2 DEF Inv, Write, RunsRemembered, AnswerCloses
    <2> QED BY <2>4, <2>5, <2>6 DEF Inv
  <1>3. ASSUME NEW m \in msgs, Read(m) PROVE Inv'
    <2>0. /\ m \in Message /\ m.to \in Nodes /\ m.from \in Nodes /\ m.req \in Requests
          /\ m.path \in Seq(Nodes) /\ m.run \in Nat /\ m.req \in sent
          /\ m.run > 0 => runs[m.req] > 0
          /\ m.at # "late" => {m.from, m.to} \in links
      BY <1>a
    <2> DEFINE in == [m EXCEPT !.at = "inbox"]
    <2>1. Proper({in}, m.req, m.run)
      BY <1>3, <2>0 DEF Read, Message, Proper
    <2>2. msgs' \subseteq msgs \cup {in}
      BY <1>3 DEF Read
    <2> HIDE DEF in
    <2>3. ChannelsOK'
      <3>1. known' \subseteq known \cup {<<m.to, m.from, m.req, m.run>>} /\ links' = links
        BY <1>3 DEF Read
      <3>2. /\ <<m.to, m.from, m.req, m.run>> \in Nodes \X Nodes \X Requests \X Nat
            /\ {m.to, m.from} \in links
        BY <1>3, <2>0 DEF Read
      <3>3. known' \subseteq Nodes \X Nodes \X Requests \X Nat
        BY <1>0, <3>1, <3>2 DEF ChannelsOK
      <3>5. \A k \in known' : {k[1], k[2]} \in links'
        <4> DEFINE key == <<m.to, m.from, m.req, m.run>>
        <4>1. key[1] = m.to /\ key[2] = m.from
          OBVIOUS
        <4>2. {key[1], key[2]} \in links
          BY <3>2, <4>1
        <4>3. \A k \in known' : k \in known \/ k = key
          BY <3>1
        <4> HIDE DEF key
        <4> QED BY <1>0, <3>1, <4>2, <4>3 DEF ChannelsOK
      <3>4. /\ msgs' \subseteq Message
            /\ \A o \in msgs' : o.at # "late" => {o.from, o.to} \in links'
        BY <1>0, <2>1, <2>2, <3>1 DEF ChannelsOK, Proper
      <3> QED BY <1>0, <3>1, <3>3, <3>4, <3>5 DEF ChannelsOK
    <2>4. faults' \in 0 .. MaxFaults
      BY <1>0, <1>3 DEF Read, TypeOK
    <2>5. TypeOK'
      BY <1>0, <1>3, <2>3, <2>4 DEF Read, TypeOK
    <2>6. Caused'
      <3>1. sent' = sent /\ runs' = runs
        BY <1>3 DEF Read
      <3> QED BY <2>0, <2>1, <2>2, <3>1, CausedKept
    <2>7. (RunsRemembered /\ AnswerCloses)'
      BY <1>3 DEF Inv, Read, RunsRemembered, AnswerCloses
    <2> QED BY <2>5, <2>6, <2>7 DEF Inv
  <1>4. ASSUME NEW m \in msgs, OnNodeReq(m) PROVE Inv'
    <2>0. /\ m \in Message /\ m.to \in Nodes /\ m.from \in Nodes /\ m.req \in Requests
          /\ m.path \in Seq(Nodes) /\ m.run \in Nat /\ m.req \in sent
          /\ m.run > 0 => runs[m.req] > 0
          /\ m.at # "late" => {m.from, m.to} \in links
      BY <1>a
    <2>1. CASE m.req \in seen[m.to]
      <3>1. ChannelsOK'
        <4>1. msgs' \subseteq msgs \cup {} /\ links' = links /\ known' = known
          BY <1>4, <2>1 DEF OnNodeReq
        <4>2. Proper({}, 0, 0)
          BY DEF Proper
        <4> QED BY <1>0, <4>1, <4>2, ChannelsKept
      <3>2. TypeOK'
        BY <1>0, <1>4, <2>1, <3>1 DEF OnNodeReq, TypeOK
      <3>3. Caused'
        BY <1>4, <2>1 DEF OnNodeReq, Inv, Caused
      <3>4. (RunsRemembered /\ AnswerCloses)'
        BY <1>4, <2>1 DEF OnNodeReq, Inv, RunsRemembered, AnswerCloses
      <3> QED BY <3>2, <3>3, <3>4 DEF Inv
    <2>2. CASE m.req \notin seen[m.to] /\ m.to = TargetOf[m.req]
      <3> DEFINE new == SendResp(m.to, m.req, runs[m.req] + 1, m.path)
      <3>1. /\ runs' = [runs EXCEPT ![m.req] = runs[m.req] + 1]
            /\ msgs' = (msgs \ {m}) \cup new
            /\ seen' = [seen EXCEPT ![m.to] = seen[m.to] \cup {m.req}]
            /\ UNCHANGED <<links, known, sessions, sent, answers, restarts, faults, ups>>
        BY <1>4, <2>2 DEF OnNodeReq, RunOrRelay
      <3>2. runs[m.req] + 1 \in Nat
        BY <1>0, <2>0 DEF TypeOK
      <3>3. Proper(new, m.req, runs[m.req] + 1)
        BY <2>0, <3>2, SendRespType
      <3> HIDE DEF new
      <3>4. ChannelsOK'
        BY <1>0, <3>1, <3>3, ChannelsKept
      <3>5. TypeOK'
        BY <1>0, <2>0, <3>1, <3>4 DEF TypeOK
      <3>6. \A r \in Requests : runs[r] > 0 => runs'[r] > 0
        BY <1>0, <2>0, <3>1 DEF TypeOK
      <3>7. runs'[m.req] > 0
        BY <1>0, <2>0, <3>1 DEF TypeOK
      <3>8. Caused'
        BY <2>0, <3>1, <3>3, <3>6, <3>7, CausedKept
      <3>9. RunsRemembered'
        BY <1>0, <2>0, <2>2, <3>1 DEF Inv, TypeOK, RunsRemembered
      <3>10. AnswerCloses'
        BY <3>1 DEF Inv, AnswerCloses
      <3> QED BY <3>5, <3>8, <3>9, <3>10 DEF Inv
    <2>3. CASE m.req \notin seen[m.to] /\ m.to # TargetOf[m.req]
      <3> DEFINE new == Broadcast(m.to, m.req, Append(m.path, m.to), Source(m))
      <3>1. /\ msgs' = (msgs \ {m}) \cup new
            /\ seen' = [seen EXCEPT ![m.to] = seen[m.to] \cup {m.req}]
            /\ UNCHANGED <<links, known, sessions, sent, runs, answers, restarts, faults, ups>>
        BY <1>4, <2>3 DEF OnNodeReq, RunOrRelay
      <3>2. Proper(new, m.req, 0)
        <4>1. Append(m.path, m.to) \in Seq(Nodes)
          BY <2>0
        <4>2. Source(m) \in SUBSET Nodes
          BY <2>0 DEF Source
        <4> QED BY <2>0, <4>1, <4>2, BroadcastType
      <3> HIDE DEF new
      <3>3. ChannelsOK'
        BY <1>0, <3>1, <3>2, ChannelsKept
      <3>4. TypeOK'
        BY <1>0, <2>0, <3>1, <3>3 DEF TypeOK
      <3>5. Caused'
        <4>1. msgs' \subseteq msgs \cup new
          BY <3>1
        <4> QED BY <2>0, <3>1, <3>2, <4>1, CausedKept
      <3>6. RunsRemembered'
        BY <1>0, <2>0, <3>1 DEF Inv, TypeOK, RunsRemembered
      <3>7. AnswerCloses'
        BY <3>1 DEF Inv, AnswerCloses
      <3> QED BY <3>4, <3>5, <3>6, <3>7 DEF Inv
    <2> QED BY <2>1, <2>2, <2>3
  <1>5. ASSUME NEW m \in msgs, OnCallRsp(m) PROVE Inv'
    <2>0. /\ m \in Message /\ m.to \in Nodes /\ m.from \in Nodes /\ m.req \in Requests
          /\ m.path \in Seq(Nodes) /\ m.run \in Nat /\ m.req \in sent
          /\ m.run > 0 => runs[m.req] > 0
          /\ m.at # "late" => {m.from, m.to} \in links
      BY <1>a
    <2> DEFINE new == SendResp(m.to, m.req, m.run, m.path)
    <2>1. Proper(new, m.req, m.run)
      BY <2>0, SendRespType
    <2>2. msgs' \subseteq msgs \cup new
      BY <1>5 DEF OnCallRsp
    <2> HIDE DEF new
    <2>3. UNCHANGED <<links, known, seen, sent, runs, restarts, faults, ups>>
      BY <1>5 DEF OnCallRsp
    <2>4. ChannelsOK'
      BY <1>0, <2>1, <2>2, <2>3, ChannelsKept
    <2>5. /\ sessions' \subseteq sent /\ answers' \in [Requests -> Nat] /\ AnswerCloses'
      <3>1. CASE m.to = ClientOf[m.req] /\ m.req \in sessions
        <4>1. /\ answers' = [answers EXCEPT ![m.req] = answers[m.req] + 1]
              /\ sessions' = sessions \ {m.req} /\ sent' = sent
          BY <1>5, <3>1 DEF OnCallRsp
        <4> QED BY <1>0, <2>0, <4>1 DEF Inv, TypeOK, AnswerCloses
      <3>2. CASE ~(m.to = ClientOf[m.req] /\ m.req \in sessions)
        <4>1. answers' = answers /\ sessions' = sessions /\ sent' = sent
          BY <1>5, <3>2 DEF OnCallRsp
        <4> QED BY <1>0, <4>1 DEF Inv, TypeOK, AnswerCloses
      <3> QED BY <3>1, <3>2
    <2>6. TypeOK'
      BY <1>0, <2>3, <2>4, <2>5 DEF TypeOK
    <2>7. Caused'
      BY <2>0, <2>1, <2>2, <2>3, CausedKept
    <2>8. RunsRemembered'
      BY <2>3 DEF Inv, RunsRemembered
    <2> QED BY <2>5, <2>6, <2>7, <2>8 DEF Inv
  <1>6. ASSUME NEW r \in Requests, Timeout(r) PROVE Inv'
    <2>1. ChannelsOK'
      BY <1>0, <1>6 DEF Timeout, ChannelsOK
    <2>2. TypeOK'
      BY <1>0, <1>6, <2>1 DEF Timeout, TypeOK
    <2>3. (Caused /\ RunsRemembered /\ AnswerCloses)'
      BY <1>6 DEF Inv, Timeout, Caused, RunsRemembered, AnswerCloses
    <2> QED BY <2>2, <2>3 DEF Inv
  <1>7. ASSUME NEW m \in msgs, Refuse(m) PROVE Inv'
    <2>1. ChannelsOK'
      <3>1. msgs' \subseteq msgs \cup {} /\ links' = links /\ known' = known
        BY <1>7 DEF Refuse
      <3>2. Proper({}, 0, 0)
        BY DEF Proper
      <3> QED BY <1>0, <3>1, <3>2, ChannelsKept
    <2>2. TypeOK'
      BY <1>0, <1>7, <2>1 DEF Refuse, TypeOK
    <2>3. (Caused /\ RunsRemembered /\ AnswerCloses)'
      BY <1>7 DEF Inv, Refuse, Caused, RunsRemembered, AnswerCloses
    <2> QED BY <2>2, <2>3 DEF Inv
  <1>8. ASSUME NEW l \in links, LinkDown(l) PROVE Inv'
    <2>1. msgs' = Cut({l}) /\ links' = links \ {l} /\ sent' = sent /\ runs' = runs
      BY <1>8 DEF LinkDown
    <2>2. /\ msgs' \subseteq Message
          /\ \A m \in msgs' : m.at # "late" => {m.from, m.to} \in links'
      BY <1>0, <2>1, CutType
    <2>3. known' \subseteq known /\ \A k \in known' : {k[1], k[2]} # l
      BY <1>8 DEF LinkDown
    <2>4. ChannelsOK'
      BY <1>0, <2>1, <2>2, <2>3 DEF ChannelsOK
    <2>5. TypeOK'
      BY <1>0, <1>8, <2>4 DEF LinkDown, TypeOK
    <2>6. Caused'
      <3>1. \A m \in Cut({l}) : \E o \in msgs : m.req = o.req /\ m.run = o.run
        BY <1>0, CutType
      <3> QED BY <2>1, <3>1 DEF Inv, Caused
    <2>7. (RunsRemembered /\ AnswerCloses)'
      BY <1>8 DEF Inv, LinkDown, RunsRemembered, AnswerCloses
    <2> QED BY <2>5, <2>6, <2>7 DEF Inv
  <1>9. ASSUME NEW a \in Nodes, NEW b \in Nodes, LinkUp(a, b) PROVE Inv'
    <2>1. a # b /\ links' = links \cup {{a, b}} /\ msgs' = msgs /\ known' = known
      BY <1>9 DEF LinkUp
    <2>2. ChannelsOK'
      BY <1>0, <2>1 DEF ChannelsOK
    <2>3. TypeOK'
      BY <1>0, <1>9, <2>2 DEF LinkUp, TypeOK
    <2>4. (Caused /\ RunsRemembered /\ AnswerCloses)'
      BY <1>9 DEF Inv, LinkUp, Caused, RunsRemembered, AnswerCloses
    <2> QED BY <2>3, <2>4 DEF Inv
  <1>10. ASSUME NEW n \in Nodes, Restart(n) PROVE Inv'
    <2> DEFINE ls == {l \in links : n \in l}
    <2>1. msgs' \subseteq Cut(ls) /\ links' = links \ ls /\ sent' = sent /\ runs' = runs
      BY <1>10 DEF Restart
    <2>2. known' \subseteq known /\ \A k \in known' : {k[1], k[2]} \notin ls
      BY <1>10 DEF Restart
    <2> HIDE DEF ls
    <2>3. /\ msgs' \subseteq Message
          /\ \A m \in msgs' : m.at # "late" => {m.from, m.to} \in links'
      BY <1>0, <2>1, CutType
    <2>4. ChannelsOK'
      BY <1>0, <2>1, <2>2, <2>3 DEF ChannelsOK
    <2>5. TypeOK'
      BY <1>0, <1>10, <2>4 DEF Restart, TypeOK
    <2>6. Caused'
      <3>1. \A m \in Cut(ls) : \E o \in msgs : m.req = o.req /\ m.run = o.run
        BY <1>0, CutType
      <3> QED BY <2>1, <3>1 DEF Inv, Caused
    <2>7. RunsRemembered'
      BY <1>0, <1>10 DEF Inv, Restart, TypeOK, RunsRemembered
    <2>8. AnswerCloses'
      BY <1>10 DEF Inv, Restart, AnswerCloses
    <2> QED BY <2>5, <2>6, <2>7, <2>8 DEF Inv
  <1>11. ASSUME UNCHANGED vars PROVE Inv'
    <2>1. TypeOK'
      BY <1>0, <1>11 DEF vars, TypeOK, ChannelsOK
    <2>2. (Caused /\ RunsRemembered /\ AnswerCloses)'
      BY <1>11 DEF vars, Inv, Caused, RunsRemembered, AnswerCloses
    <2> QED BY <2>1, <2>2 DEF Inv
  <1> QED
    BY <1>1, <1>2, <1>3, <1>4, <1>5, <1>6, <1>7, <1>8, <1>9, <1>10, <1>11 DEF Next, Progress

\* The inductive invariant holds in every reachable state.
LEMMA InvAlways == Spec => []Inv
  BY InitInv, NextInv, PTL DEF Spec

\* The variables keep their types, and closing a channel leaves none of its
\* messages and no entry of its filter, for any network.
THEOREM TypeCorrect == Spec => []TypeOK
  <1>1. Inv => TypeOK
    BY DEF Inv
  <1> QED BY <1>1, InvAlways, PTL

-----------------------------------------------------------------------------
\* A call changes only with its sent and session flags and its answers.
LEMMA CallKept ==
  ASSUME UNCHANGED <<sent, sessions, answers, runs, restarts>>
  PROVE  UNCHANGED RC!vars
  BY DEF RC!vars, CallOf

\* Every step of the relay is a step of RemoteCall, or none.
LEMMA NextRefines == Inv /\ [Next]_vars => [RC!Next]_(RC!vars)
  <1> SUFFICES ASSUME Inv, [Next]_vars PROVE [RC!Next]_(RC!vars)
    OBVIOUS
  <1> DEFINE st == [r \in Requests |-> CallOf(r)]
  <1>0. TypeOK /\ Caused /\ RunsRemembered /\ AnswerCloses
    BY DEF Inv
  <1>a. \A r \in Requests : answers[r] \in Nat /\ (r \in sessions => r \in sent /\ answers[r] = 0)
    BY <1>0 DEF TypeOK, AnswerCloses
  <1>b. \A m \in msgs : m.req \in Requests /\ m.req \in sent
    BY <1>0 DEF TypeOK, Caused
  <1>1. ASSUME NEW r \in Requests, Send(r) PROVE RC!Next
    <2>1. /\ r \notin sent /\ sent' = sent \cup {r} /\ sessions' = sessions \cup {r}
          /\ UNCHANGED <<answers, runs, restarts>>
      BY <1>1 DEF Send
    <2>2. st[r] = "new" /\ st' = [st EXCEPT ![r] = "open"]
      BY <2>1 DEF CallOf
    <2>3. RC!Call(r)
      BY <2>1, <2>2 DEF RC!Call
    <2> QED BY <2>3 DEF RC!Next
  <1>2. ASSUME NEW m \in msgs, OnNodeReq(m) PROVE RC!Next \/ UNCHANGED RC!vars
    <2>0. m.req \in Requests /\ m.req \in sent /\ m.to \in Nodes
      BY <1>0, <1>b DEF TypeOK, ChannelsOK, Message
    <2>1. UNCHANGED <<sent, sessions, answers, restarts>>
      BY <1>2 DEF OnNodeReq
    <2>2. CASE m.req \notin seen[m.to] /\ m.to = TargetOf[m.req]
      <3>1. runs' = [runs EXCEPT ![m.req] = runs[m.req] + 1]
        BY <1>2, <2>2 DEF OnNodeReq, RunOrRelay
      <3>2. runs[m.req] <= restarts[TargetOf[m.req]]
        BY <1>0, <2>0, <2>2 DEF RunsRemembered, TypeOK
      <3>3. st[m.req] # "new" /\ st' = st
        BY <2>0, <2>1 DEF CallOf
      <3>4. RC!Run(m.req)
        BY <2>1, <3>1, <3>2, <3>3 DEF RC!Run
      <3> QED BY <2>0, <3>4 DEF RC!Next
    <2>3. CASE ~(m.req \notin seen[m.to] /\ m.to = TargetOf[m.req])
      <3>1. runs' = runs
        BY <1>2, <2>3 DEF OnNodeReq, RunOrRelay
      <3> QED BY <2>1, <3>1, CallKept
    <2> QED BY <2>2, <2>3
  <1>3. ASSUME NEW m \in msgs, OnCallRsp(m) PROVE RC!Next \/ UNCHANGED RC!vars
    <2>0. m.req \in Requests /\ m.req \in sent /\ runs[m.req] > 0
      BY <1>0, <1>3, <1>b DEF Caused, OnCallRsp
    <2>1. UNCHANGED <<sent, runs, restarts>>
      BY <1>3 DEF OnCallRsp
    <2>2. CASE m.to = ClientOf[m.req] /\ m.req \in sessions
      <3>1. /\ answers' = [answers EXCEPT ![m.req] = answers[m.req] + 1]
            /\ sessions' = sessions \ {m.req}
        BY <1>3, <2>2 DEF OnCallRsp
      <3>2. answers'[m.req] > 0 /\ \A r \in Requests \ {m.req} : answers'[r] = answers[r]
        BY <1>0, <1>a, <2>0, <3>1 DEF TypeOK
      <3>3. st[m.req] = "open" /\ st' = [st EXCEPT ![m.req] = "answered"]
        BY <2>0, <2>1, <2>2, <3>1, <3>2 DEF CallOf
      <3>4. RC!Answer(m.req)
        BY <2>0, <2>1, <3>3 DEF RC!Answer
      <3> QED BY <2>0, <3>4 DEF RC!Next
    <2>3. CASE ~(m.to = ClientOf[m.req] /\ m.req \in sessions)
      <3>1. answers' = answers /\ sessions' = sessions
        BY <1>3, <2>3 DEF OnCallRsp
      <3> QED BY <2>1, <3>1, CallKept
    <2> QED BY <2>2, <2>3
  <1>4. ASSUME NEW r \in Requests, Timeout(r) PROVE RC!Next
    <2>1. /\ r \in sessions /\ sessions' = sessions \ {r}
          /\ UNCHANGED <<sent, answers, runs, restarts>>
      BY <1>4 DEF Timeout
    <2>2. /\ {r} \subseteq {q \in Requests : st[q] = "open"}
          /\ st' = [q \in Requests |-> IF q \in {r} THEN "closed" ELSE st[q]]
      BY <1>a, <2>1 DEF CallOf
    <2>3. RC!Close({r})
      BY <2>1, <2>2 DEF RC!Close
    <2> QED BY <2>3 DEF RC!Next
  <1>5. ASSUME NEW n \in Nodes, Restart(n) PROVE RC!Next
    <2> DEFINE cs == {r \in sessions : ClientOf[r] = n}
    <2>1. /\ sessions' = sessions \ cs
          /\ restarts' = [restarts EXCEPT ![n] = restarts[n] + 1]
          /\ UNCHANGED <<sent, answers, runs>>
      BY <1>5 DEF Restart
    <2>2. cs \subseteq sessions /\ cs \subseteq Requests
      BY <1>0 DEF TypeOK
    <2> HIDE DEF cs
    <2>3. /\ cs \subseteq {q \in Requests : st[q] = "open"}
          /\ st' = [q \in Requests |-> IF q \in cs THEN "closed" ELSE st[q]]
      BY <1>a, <2>1, <2>2 DEF CallOf
    <2>4. RC!Restart(n, cs)
      BY <2>1, <2>3 DEF RC!Restart
    <2> QED BY <2>2, <2>4 DEF RC!Next
  <1>6. ASSUME NEW m \in msgs, Write(m) \/ Read(m) \/ Refuse(m) PROVE UNCHANGED RC!vars
    BY <1>6, CallKept DEF Write, Read, Refuse
  <1>7. ASSUME NEW l \in links, LinkDown(l) PROVE UNCHANGED RC!vars
    BY <1>7, CallKept DEF LinkDown
  <1>8. ASSUME NEW a \in Nodes, NEW b \in Nodes, LinkUp(a, b) PROVE UNCHANGED RC!vars
    BY <1>8, CallKept DEF LinkUp
  <1>9. ASSUME UNCHANGED vars PROVE UNCHANGED RC!vars
    BY <1>9, CallKept DEF vars
  <1> QED
    BY <1>1, <1>2, <1>3, <1>4, <1>5, <1>6, <1>7, <1>8, <1>9 DEF Next, Progress

\* The flood implements RemoteCall, whatever the network, the faults and the
\* restarts: no command runs twice in one life of its node, and no caller
\* gets two answers, or one without a run.
THEOREM RelayImplementsRemoteCall == Spec => RemoteCallSpec
  <1>1. Init => RC!Init
    BY DEF Init, RC!Init, CallOf
  <1> QED
    BY <1>1, NextRefines, InvAlways, PTL DEF Spec, RemoteCallSpec, RC!Spec

-----------------------------------------------------------------------------
\* A path that leads from the client, over connections, to node n: it begins
\* with the client, or is empty at the client.
Leads(path, r, n) ==
  /\ path = <<>> => n = ClientOf[r]
  /\ path # <<>> => path[1] = ClientOf[r] /\ path[Len(path)] \in Neighbours(n)
  /\ \A i \in 1 .. Len(path) - 1 : path[i] \in Neighbours(path[i + 1])

\* The strengthening of WayBack: it speaks of the whole path, and of requests.
PathsLead == faults = 0 => \A m \in msgs : Leads(m.path, m.req, m.to)

\* With more connections and the same path nothing is lost.
LEMMA LeadsMonotone ==
  ASSUME NEW path, NEW r, NEW n, links \subseteq links', Leads(path, r, n)
  PROVE  Leads(path, r, n)'
  BY DEF Leads, Neighbours

\* find_fast_path cuts a path that leads to n down to one that leads to the
\* node it found.
LEMMA SendRespLeads ==
  ASSUME NEW n \in Nodes, NEW r \in Requests, NEW k \in Nat, NEW path \in Seq(Nodes),
         Leads(path, r, n)
  PROVE  \A m \in SendResp(n, r, k, path) : Leads(m.path, m.req, m.to)
  <1> SUFFICES ASSUME NEW i \in NextHop(n, path)
               PROVE  Leads(SubSeq(path, 1, i - 1), r, path[i])
    <2>1. \A i \in NextHop(n, path) :
            LET m == Msg(r, k, n, path[i], SubSeq(path, 1, i - 1))
            IN  m.path = SubSeq(path, 1, i - 1) /\ m.req = r /\ m.to = path[i]
      BY DEF Msg
    <2> QED BY <2>1, Zenon DEF SendResp
  <1>1. i \in 1 .. Len(path)
    BY DEF NextHop
  <1> DEFINE p == SubSeq(path, 1, i - 1)
  <1>2. Len(p) = i - 1 /\ p \in Seq(Nodes) /\ \A j \in 1 .. i - 1 : p[j] = path[j]
    BY <1>1
  <1> HIDE DEF p
  <1>3. CASE i = 1
    BY <1>1, <1>2, <1>3 DEF Leads
  <1>4. CASE i > 1
    <2>1. p # <<>> /\ p[1] = path[1] /\ p[Len(p)] = path[i - 1] /\ path # <<>>
      BY <1>1, <1>2, <1>4
    <2>2. path[i - 1] \in Neighbours(path[i])
      <3>1. path[i - 1] \in Neighbours(path[i - 1 + 1]) /\ i - 1 + 1 = i
        BY <1>1, <1>4 DEF Leads
      <3> QED BY <3>1
    <2>3. \A j \in 1 .. Len(p) - 1 : p[j] \in Neighbours(p[j + 1])
      BY <1>1, <1>2, <1>4 DEF Leads
    <2>4. path[1] = ClientOf[r]
      BY <2>1 DEF Leads
    <2>5. Leads(p, r, path[i])
      BY <2>1, <2>2, <2>3, <2>4 DEF Leads
    <2> QED BY <2>5 DEF p
  <1> QED BY <1>1, <1>3, <1>4 DEF p

\* A broadcast with a path that leads to n, with n added, leads on.
LEMMA BroadcastLeads ==
  ASSUME NEW n \in Nodes, NEW r \in Requests, NEW path \in Seq(Nodes),
         NEW x \in SUBSET Nodes, Leads(path, r, n)
  PROVE  \A m \in Broadcast(n, r, Append(path, n), x) : Leads(m.path, m.req, m.to)
  <1> SUFFICES ASSUME NEW k \in Neighbours(n)
               PROVE  Leads(Append(path, n), r, k)
    <2>1. \A k \in Neighbours(n) : LET m == Msg(r, 0, n, k, Append(path, n))
                                   IN  m.path = Append(path, n) /\ m.req = r /\ m.to = k
      BY DEF Msg
    <2> QED BY <2>1, Zenon DEF Broadcast
  <1> DEFINE p == Append(path, n)
  <1>1. /\ Len(p) = Len(path) + 1 /\ p[Len(p)] = n /\ p # <<>>
        /\ \A j \in 1 .. Len(path) : p[j] = path[j]
    OBVIOUS
  <1>2. n \in Neighbours(k)
    BY DEF Neighbours
  <1>3. p[1] = ClientOf[r]
    BY <1>1 DEF Leads
  <1> HIDE DEF p
  <1>4. \A j \in 1 .. Len(p) - 1 : p[j] \in Neighbours(p[j + 1])
    <2> SUFFICES ASSUME NEW j \in 1 .. Len(path) PROVE p[j] \in Neighbours(p[j + 1])
      BY <1>1
    <2>1. CASE j = Len(path)
      BY <1>1, <2>1 DEF Leads
    <2>2. CASE j < Len(path)
      BY <1>1, <2>2 DEF Leads
    <2> QED BY <2>1, <2>2
  <1>5. Leads(p, r, k)
    BY <1>1, <1>2, <1>3, <1>4 DEF Leads
  <1> QED BY <1>5 DEF p

\* A step that adds only messages that lead somewhere keeps all leading.
LEMMA PathsKept ==
  ASSUME NEW new, PathsLead, msgs' \subseteq msgs \cup new, links \subseteq links',
         faults' = 0 => faults = 0,
         faults = 0 => \A m \in new : Leads(m.path, m.req, m.to)
  PROVE  PathsLead'
  <1> SUFFICES ASSUME faults' = 0, NEW m \in msgs' PROVE Leads(m.path, m.req, m.to)'
    BY DEF PathsLead
  <1>1. Leads(m.path, m.req, m.to)
    BY DEF PathsLead
  <1> QED BY <1>1, LeadsMonotone

\* Every step keeps the paths leading to the client.
LEMMA NextLeads == Inv /\ PathsLead /\ [Next]_vars => PathsLead'
  <1> SUFFICES ASSUME Inv, PathsLead, [Next]_vars PROVE PathsLead'
    OBVIOUS
  <1>0. TypeOK
    BY DEF Inv
  <1>a. ASSUME NEW m \in msgs
        PROVE  /\ m.to \in Nodes /\ m.from \in Nodes /\ m.req \in Requests
               /\ m.path \in Seq(Nodes) /\ m.run \in Nat /\ m \in Message
               /\ faults = 0 => Leads(m.path, m.req, m.to)
    BY <1>0 DEF TypeOK, ChannelsOK, Message, PathsLead
  <1>b. ASSUME NEW new, msgs' \subseteq msgs \cup new, links' = links, faults' = faults,
               faults = 0 => \A m \in new : Leads(m.path, m.req, m.to)
        PROVE  PathsLead'
    <2>1. links \subseteq links' /\ (faults' = 0 => faults = 0)
      BY <1>b
    <2> QED BY <1>b, <2>1, PathsKept
  <1>1. ASSUME NEW r \in Requests, Send(r) PROVE PathsLead'
    <2> DEFINE c == ClientOf[r]
    <2>1. c \in Nodes /\ <<>> \in Seq(Nodes) /\ Append(<<>>, c) = <<c>> /\ {} \in SUBSET Nodes
      OBVIOUS
    <2>2. Leads(<<>>, r, c)
      BY DEF Leads
    <2>3. \A m \in Broadcast(c, r, Append(<<>>, c), {}) : Leads(m.path, m.req, m.to)
      BY <2>1, <2>2, BroadcastLeads
    <2> DEFINE new == Broadcast(c, r, <<c>>, {})
    <2>4. \A m \in new : Leads(m.path, m.req, m.to)
      BY <2>1, <2>3
    <2>5. msgs' \subseteq msgs \cup new /\ links' = links /\ faults' = faults
      BY <1>1 DEF Send
    <2> HIDE DEF new
    <2> QED BY <1>b, <2>4, <2>5
  <1>2. ASSUME NEW m \in msgs, Write(m) PROVE PathsLead'
    <2>m. /\ m.to \in Nodes /\ m.from \in Nodes /\ m.req \in Requests
          /\ m.path \in Seq(Nodes) /\ m.run \in Nat
          /\ faults = 0 => Leads(m.path, m.req, m.to)
      BY <1>a
    <2> DEFINE out == [m EXCEPT !.at = "wire"]
    <2>1. out.path = m.path /\ out.req = m.req /\ out.to = m.to
      BY <1>a DEF Message
    <2>2. msgs' \subseteq msgs \cup {out} /\ links' = links /\ faults' = faults
      BY <1>2 DEF Write
    <2> HIDE DEF out
    <2>3. faults = 0 => \A o \in {out} : Leads(o.path, o.req, o.to)
      BY <2>m, <2>1
    <2> QED BY <1>b, <2>2, <2>3
  <1>3. ASSUME NEW m \in msgs, Read(m) PROVE PathsLead'
    <2>m. /\ m.to \in Nodes /\ m.from \in Nodes /\ m.req \in Requests
          /\ m.path \in Seq(Nodes) /\ m.run \in Nat
          /\ faults = 0 => Leads(m.path, m.req, m.to)
      BY <1>a
    <2> DEFINE in == [m EXCEPT !.at = "inbox"]
    <2>1. in.path = m.path /\ in.req = m.req /\ in.to = m.to
      BY <1>a DEF Message
    <2>2. msgs' \subseteq msgs \cup {in} /\ links \subseteq links'
      BY <1>3 DEF Read
    <2>3. faults' = 0 => faults = 0
      BY <1>0, <1>3 DEF Read, TypeOK
    <2> HIDE DEF in
    <2>4. faults = 0 => \A o \in {in} : Leads(o.path, o.req, o.to)
      BY <2>m, <2>1
    <2> QED BY <2>2, <2>3, <2>4, PathsKept
  <1>4. ASSUME NEW m \in msgs, OnNodeReq(m) PROVE PathsLead'
    <2>m. /\ m.to \in Nodes /\ m.from \in Nodes /\ m.req \in Requests
          /\ m.path \in Seq(Nodes) /\ m.run \in Nat
          /\ faults = 0 => Leads(m.path, m.req, m.to)
      BY <1>a
    <2>0. links' = links /\ faults' = faults
      BY <1>4 DEF OnNodeReq
    <2> DEFINE rsp == SendResp(m.to, m.req, runs[m.req] + 1, m.path)
               req == Broadcast(m.to, m.req, Append(m.path, m.to), Source(m))
    <2>1. msgs' \subseteq msgs \cup (rsp \cup req)
      BY <1>4 DEF OnNodeReq, RunOrRelay
    <2>2. Source(m) \in SUBSET Nodes /\ runs[m.req] + 1 \in Nat
      BY <1>0, <2>m DEF Source, TypeOK
    <2>3. faults = 0 => \A o \in rsp : Leads(o.path, o.req, o.to)
      BY <2>m, <2>2, SendRespLeads
    <2>4. faults = 0 => \A o \in req : Leads(o.path, o.req, o.to)
      BY <2>m, <2>2, BroadcastLeads
    <2> HIDE DEF rsp, req
    <2>5. faults = 0 => \A o \in rsp \cup req : Leads(o.path, o.req, o.to)
      BY <2>3, <2>4
    <2> QED BY <1>b, <2>0, <2>1, <2>5
  <1>5. ASSUME NEW m \in msgs, OnCallRsp(m) PROVE PathsLead'
    <2>m. /\ m.to \in Nodes /\ m.from \in Nodes /\ m.req \in Requests
          /\ m.path \in Seq(Nodes) /\ m.run \in Nat
          /\ faults = 0 => Leads(m.path, m.req, m.to)
      BY <1>a
    <2>0. links' = links /\ faults' = faults
      BY <1>5 DEF OnCallRsp
    <2> DEFINE rsp == SendResp(m.to, m.req, m.run, m.path)
    <2>1. msgs' \subseteq msgs \cup rsp
      BY <1>5 DEF OnCallRsp
    <2>2. faults = 0 => \A o \in rsp : Leads(o.path, o.req, o.to)
      BY <2>m, SendRespLeads
    <2> HIDE DEF rsp
    <2> QED BY <1>b, <2>0, <2>1, <2>2
  <1>6. ASSUME NEW r \in Requests, Timeout(r) PROVE PathsLead'
    BY <1>6 DEF Timeout, PathsLead, Leads, Neighbours
  <1>7. ASSUME NEW a \in Nodes, NEW b \in Nodes, LinkUp(a, b) PROVE PathsLead'
    <2> DEFINE none == {}
    <2>1. msgs' \subseteq msgs \cup none /\ links \subseteq links' /\ (faults' = 0 => faults = 0)
      BY <1>7 DEF LinkUp
    <2>2. \A m \in none : Leads(m.path, m.req, m.to)
      OBVIOUS
    <2> HIDE DEF none
    <2> QED BY <2>1, <2>2, PathsKept
  <1>8. ASSUME faults' = faults + 1 PROVE PathsLead'
    BY <1>0, <1>8 DEF TypeOK, PathsLead
  <1>9. ASSUME UNCHANGED vars PROVE PathsLead'
    BY <1>9 DEF vars, PathsLead, Leads, Neighbours
  <1> QED
    BY <1>1, <1>2, <1>3, <1>4, <1>5, <1>6, <1>7, <1>8, <1>9
       DEF Next, Progress, Refuse, LinkDown, Restart

\* In any network in which nothing breaks, a response is always where the
\* next step of find_fast_path finds a connection, or at its client.
THEOREM ResponsesFindBack == Spec => []WayBack
  <1>1. Init => PathsLead
    BY DEF Init, PathsLead
  <1>2. Inv /\ PathsLead => WayBack
    <2> SUFFICES ASSUME Inv, PathsLead, faults = 0, NEW m \in msgs
                 PROVE  IF m.path = <<>> THEN m.to = ClientOf[m.req]
                                         ELSE Last(m.path) \in Neighbours(m.to)
      BY DEF WayBack
    <2> QED BY DEF PathsLead, Leads, Last
  <1> QED BY <1>1, <1>2, NextLeads, InvAlways, PTL DEF Spec

-----------------------------------------------------------------------------
(***************************************************************************)
(* The flood.  A node may add itself to the path of a request as often as  *)
(* its filter lets it: once now if it does not know the nonce, and once    *)
(* for each restart that emptied the filter.  What it may still add and    *)
(* what is on the path already keep within one budget.  Of a validated     *)
(* request the node that has read it is not on the path, so it can add     *)
(* itself without coming up twice.                                         *)
(***************************************************************************)
Visits(path, n) == {i \in DOMAIN path : path[i] = n}

Budget(r, n) == restarts[n] + (IF r \in seen[n] THEN 1 ELSE 0)
                            + (IF n = ClientOf[r] THEN 1 ELSE 0)

NoRepeats(path) == \A i, j \in DOMAIN path : path[i] = path[j] => i = j

Fresh(m) == NoRepeats(m.path) /\ (m.at \in {"inbox", "late"} => m.to \notin Range(m.path))

Thrifty(m) == \A n \in Nodes : Cardinality(Visits(m.path, n)) <= Budget(m.req, n)

FloodInv == \A m \in msgs : m.run = 0 => Thrifty(m) /\ (m.req \in Validated => Fresh(m))

\* A path has a number of places a node is at.
LEMMA VisitsFinite ==
  ASSUME NEW path \in Seq(Nodes), NEW n
  PROVE  IsFiniteSet(Visits(path, n)) /\ Cardinality(Visits(path, n)) \in Nat
  <1>1. IsFiniteSet(1 .. Len(path))
    BY FS_Interval
  <1>2. Visits(path, n) \subseteq 1 .. Len(path)
    BY DEF Visits
  <1> QED BY <1>1, <1>2, FS_Subset, FS_CardinalityType

\* A node that is put on the path is there once more, the others as before.
LEMMA VisitsAppend ==
  ASSUME NEW path \in Seq(Nodes), NEW x \in Nodes, NEW n \in Nodes
  PROVE  Cardinality(Visits(Append(path, x), n))
           = Cardinality(Visits(path, n)) + (IF x = n THEN 1 ELSE 0)
  <1> DEFINE p == Append(path, x)
  <1>1. /\ DOMAIN p = DOMAIN path \cup {Len(path) + 1}
        /\ p[Len(path) + 1] = x
        /\ \A i \in DOMAIN path : p[i] = path[i]
        /\ Len(path) + 1 \notin DOMAIN path
    OBVIOUS
  <1> HIDE DEF p
  <1>2. IsFiniteSet(Visits(path, n)) /\ Cardinality(Visits(path, n)) \in Nat
    BY VisitsFinite
  <1>3. Len(path) + 1 \notin Visits(path, n)
    BY <1>1 DEF Visits
  <1>4. CASE x = n
    <2>1. Visits(p, n) = Visits(path, n) \cup {Len(path) + 1}
      BY <1>1, <1>4 DEF Visits
    <2>2. Cardinality(Visits(path, n) \cup {Len(path) + 1}) = Cardinality(Visits(path, n)) + 1
      BY <1>2, <1>3, FS_AddElement
    <2> QED BY <1>4, <2>1, <2>2 DEF p
  <1>5. CASE x # n
    <2>1. Visits(p, n) = Visits(path, n)
      BY <1>1, <1>5 DEF Visits
    <2> QED BY <1>2, <1>5, <2>1 DEF p
  <1> QED BY <1>4, <1>5

\* The path a client begins with.
LEMMA VisitsFirst ==
  ASSUME NEW x \in Nodes, NEW n \in Nodes
  PROVE  Cardinality(Visits(<<x>>, n)) = IF x = n THEN 1 ELSE 0
  <1>1. Visits(<<>>, n) = {}
    BY DEF Visits
  <1>2. Cardinality(Visits(<<>>, n)) = 0
    BY <1>1, FS_EmptySet
  <1>3. Append(<<>>, x) = <<x>> /\ <<>> \in Seq(Nodes)
    OBVIOUS
  <1>4. Cardinality(Visits(Append(<<>>, x), n))
          = Cardinality(Visits(<<>>, n)) + (IF x = n THEN 1 ELSE 0)
    BY <1>3, VisitsAppend
  <1> QED BY <1>2, <1>3, <1>4

\* A step that spends no budget and leaves old messages, moved at most, and
\* sound new ones.
LEMMA FloodKept ==
  ASSUME Inv, FloodInv, NEW new,
         \A r \in Requests, n \in Nodes : Budget(r, n) <= Budget(r, n)',
         \A r \in Requests, n \in Nodes : Budget(r, n) \in Nat /\ Budget(r, n)' \in Nat,
         \A m \in msgs' : \/ m \in new
                          \/ \E o \in msgs : /\ m.req = o.req /\ m.run = o.run /\ m.path = o.path
                                             /\ m.to = o.to
                                             /\ m.at \in {"inbox", "late"} => o.at \in {"inbox", "late"},
         \A m \in new : m.run = 0 => Thrifty(m)' /\ (m.req \in Validated => Fresh(m))
  PROVE  FloodInv'
  <1> SUFFICES ASSUME NEW m \in msgs', m.run = 0
               PROVE  Thrifty(m)' /\ (m.req \in Validated => Fresh(m))
    BY DEF FloodInv, Fresh
  <1>1. CASE m \in new
    BY <1>1
  <1>2. ASSUME NEW o \in msgs, m.req = o.req, m.run = o.run, m.path = o.path, m.to = o.to,
               m.at \in {"inbox", "late"} => o.at \in {"inbox", "late"}
        PROVE  Thrifty(m)' /\ (m.req \in Validated => Fresh(m))
    <2>1. Thrifty(o) /\ (o.req \in Validated => Fresh(o))
      BY <1>2 DEF FloodInv
    <2>2. m.req \in Validated => Fresh(m)
      BY <1>2, <2>1 DEF Fresh
    <2>3. Thrifty(m)'
      <3> SUFFICES ASSUME NEW n \in Nodes
                   PROVE  Cardinality(Visits(m.path, n)) <= Budget(m.req, n)'
        BY DEF Thrifty, Visits
      <3>1. o.req \in Requests /\ o.path \in Seq(Nodes)
        BY DEF Inv, TypeOK, ChannelsOK, Message
      <3>2. Cardinality(Visits(o.path, n)) <= Budget(o.req, n)
        BY <2>1 DEF Thrifty
      <3>3. Cardinality(Visits(o.path, n)) \in Nat
        BY <3>1, VisitsFinite
      <3>4. Budget(o.req, n) <= Budget(o.req, n)' /\ Budget(o.req, n) \in Nat /\ Budget(o.req, n)' \in Nat
        BY <3>1
      <3> QED BY <1>2, <3>2, <3>3, <3>4
    <2> QED BY <2>2, <2>3
  <1> QED BY <1>1, <1>2

\* What a broken connection leaves of the messages, they were before.
LEMMA CutOld ==
  ASSUME TypeOK, NEW ls
  PROVE  \A m \in Cut(ls) :
           \E o \in msgs : /\ m.req = o.req /\ m.run = o.run /\ m.path = o.path /\ m.to = o.to
                           /\ m.at \in {"inbox", "late"} => o.at \in {"inbox", "late"}
  <1> SUFFICES ASSUME NEW m \in msgs, {m.from, m.to} \in ls => m.at \in {"inbox", "late"}
               PROVE  LET o == IF {m.from, m.to} \in ls THEN [m EXCEPT !.at = "late"] ELSE m
                      IN  /\ o.req = m.req /\ o.run = m.run /\ o.path = m.path /\ o.to = m.to
                          /\ o.at \in {"inbox", "late"} => m.at \in {"inbox", "late"}
    BY Zenon DEF Cut
  <1>1. m \in Message
    BY DEF TypeOK, ChannelsOK
  <1> QED BY <1>1 DEF Message

\* What a node broadcasts carries the path it was given, and is queued.
LEMMA BroadcastFields ==
  ASSUME NEW n, NEW r, NEW path, NEW x
  PROVE  \A m \in Broadcast(n, r, path, x) :
           m.req = r /\ m.run = 0 /\ m.path = path /\ m.at = "queue"
  <1>1. \A k : LET m == Msg(r, 0, n, k, path)
               IN  m.req = r /\ m.run = 0 /\ m.path = path /\ m.at = "queue"
    BY DEF Msg
  <1> QED BY <1>1, Zenon DEF Broadcast

\* Every step keeps the flood within its budget.
LEMMA NextFlood == Inv /\ FloodInv /\ [Next]_vars => FloodInv'
  <1> SUFFICES ASSUME Inv, FloodInv, [Next]_vars PROVE FloodInv'
    OBVIOUS
  <1>0. TypeOK /\ TypeOK'
    BY NextInv DEF Inv
  <1>a. ASSUME NEW m \in msgs
        PROVE  /\ m.to \in Nodes /\ m.from \in Nodes /\ m.req \in Requests
               /\ m.path \in Seq(Nodes) /\ m.run \in Nat /\ m \in Message
    BY <1>0 DEF TypeOK, ChannelsOK, Message
  <1>b. \A r \in Requests, n \in Nodes : Budget(r, n) \in Nat /\ Budget(r, n)' \in Nat
    BY <1>0 DEF TypeOK, Budget
  <1>c. ASSUME NEW new, restarts' = restarts, \A n \in Nodes : seen[n] \subseteq seen'[n],
               msgs' \subseteq msgs \cup new,
               \A m \in new : m.run = 0 => Thrifty(m)' /\ (m.req \in Validated => Fresh(m))
        PROVE  FloodInv'
    <2>1. \A r \in Requests, n \in Nodes : Budget(r, n) <= Budget(r, n)'
      BY <1>0, <1>c DEF TypeOK, Budget
    <2>2. \A m \in msgs' : \/ m \in new
                           \/ \E o \in msgs : /\ m.req = o.req /\ m.run = o.run /\ m.path = o.path
                                              /\ m.to = o.to
                                              /\ m.at \in {"inbox", "late"} => o.at \in {"inbox", "late"}
      BY <1>c
    <2> QED BY <1>b, <1>c, <2>1, <2>2, FloodKept
  <1>d. ASSUME restarts' = restarts, \A n \in Nodes : seen[n] \subseteq seen'[n], msgs' \subseteq msgs
        PROVE  FloodInv'
    <2> DEFINE none == {}
    <2>1. msgs' \subseteq msgs \cup none /\ \A m \in none : Thrifty(m)' /\ Fresh(m)
      BY <1>d
    <2> HIDE DEF none
    <2> QED BY <1>c, <1>d, <2>1
  <1>e. ASSUME \A r \in Requests, n \in Nodes : Budget(r, n) <= Budget(r, n)',
               NEW ls, msgs' \subseteq Cut(ls)
        PROVE  FloodInv'
    <2> DEFINE none == {}
    <2>1. \A m \in none : Thrifty(m)' /\ Fresh(m)
      OBVIOUS
    <2> HIDE DEF none
    <2>2. \A m \in msgs' :
            \E o \in msgs : /\ m.req = o.req /\ m.run = o.run /\ m.path = o.path /\ m.to = o.to
                            /\ m.at \in {"inbox", "late"} => o.at \in {"inbox", "late"}
      BY <1>0, <1>e, CutOld
    <2> QED BY <1>b, <1>e, <2>1, <2>2, FloodKept
  <1>1. ASSUME NEW r \in Requests, Send(r) PROVE FloodInv'
    <2> DEFINE c == ClientOf[r]
               new == Broadcast(c, r, <<c>>, {})
    <2>1. \A m \in new : m.req = r /\ m.run = 0 /\ m.path = <<c>> /\ m.at = "queue"
      BY BroadcastFields
    <2>2. msgs' \subseteq msgs \cup new /\ restarts' = restarts /\ seen' = seen
      BY <1>1 DEF Send
    <2> HIDE DEF new
    <2>3. \A n \in Nodes : Cardinality(Visits(<<c>>, n)) <= Budget(r, n)'
      <3> SUFFICES ASSUME NEW n \in Nodes PROVE Cardinality(Visits(<<c>>, n)) <= Budget(r, n)'
        OBVIOUS
      <3>1. Cardinality(Visits(<<c>>, n)) = IF c = n THEN 1 ELSE 0
        BY VisitsFirst
      <3>2. Budget(r, n)' >= IF c = n THEN 1 ELSE 0
        BY <1>0 DEF TypeOK, Budget
      <3> QED BY <1>b, <3>1, <3>2
    <2>4. NoRepeats(<<c>>)
      BY DEF NoRepeats
    <2>5. \A m \in new : Thrifty(m)' /\ Fresh(m)
      BY <2>1, <2>3, <2>4 DEF Thrifty, Visits, Fresh
    <2> QED BY <1>c, <2>2, <2>5
  <1>2. ASSUME NEW m \in msgs, Write(m) PROVE FloodInv'
    <2> DEFINE out == [m EXCEPT !.at = "wire"]
    <2>1. out.path = m.path /\ out.req = m.req /\ out.run = m.run /\ out.at = "wire"
      BY <1>a DEF Message
    <2> DEFINE new == {out}
    <2>2. msgs' \subseteq msgs \cup new /\ restarts' = restarts /\ seen' = seen
      BY <1>2 DEF Write
    <2> HIDE DEF out
    <2>3. \A o \in new : o.run = 0 => Thrifty(o)' /\ (o.req \in Validated => Fresh(o))
      BY <2>1, <2>2 DEF FloodInv, Thrifty, Visits, Budget, Fresh
    <2> HIDE DEF new
    <2> QED BY <1>c, <2>2, <2>3
  <1>3. ASSUME NEW m \in msgs, Read(m) PROVE FloodInv'
    <2> DEFINE in == [m EXCEPT !.at = "inbox"]
    <2>1. in.path = m.path /\ in.req = m.req /\ in.run = m.run /\ in.to = m.to
      BY <1>a DEF Message
    <2>2. restarts' = restarts /\ seen' = seen
      BY <1>3 DEF Read
    <2>3. CASE m.req \in Validated /\ ~ValidPath(m)
      <3>1. msgs' \subseteq msgs
        BY <1>3, <2>3 DEF Read
      <3> QED BY <1>d, <2>2, <3>1
    <2>4. CASE m.req \in Validated => ValidPath(m)
      <3> DEFINE new == {in}
      <3>1. msgs' \subseteq msgs \cup new
        BY <1>3 DEF Read
      <3> HIDE DEF in
      <3>2. in.run = 0 => Thrifty(in)'
        BY <2>1, <2>2 DEF FloodInv, Thrifty, Visits, Budget
      <3>3. in.run = 0 /\ in.req \in Validated => Fresh(in)
        BY <2>1, <2>4 DEF FloodInv, Fresh, ValidPath
      <3>4. \A o \in new : o.run = 0 => Thrifty(o)' /\ (o.req \in Validated => Fresh(o))
        BY <3>2, <3>3
      <3> HIDE DEF new
      <3> QED BY <1>c, <2>2, <3>1, <3>4
    <2> QED BY <2>3, <2>4
  <1>4. ASSUME NEW m \in msgs, OnNodeReq(m) PROVE FloodInv'
    <2> DEFINE n == m.to
    <2>0. m.req \in Requests /\ m.path \in Seq(Nodes) /\ n \in Nodes /\ m.run = 0 /\ m.at \in {"inbox", "late"}
      BY <1>4, <1>a DEF OnNodeReq, Handled
    <2>1. restarts' = restarts /\ \A k \in Nodes : seen[k] \subseteq seen'[k]
      BY <1>0, <1>4, <2>0 DEF OnNodeReq, TypeOK
    <2>2. CASE m.req \in seen[n]
      <3>1. msgs' \subseteq msgs
        BY <1>4, <2>2 DEF OnNodeReq
      <3> QED BY <1>d, <2>1, <3>1
    <2>3. CASE m.req \notin seen[n] /\ n = TargetOf[m.req]
      <3> DEFINE new == SendResp(n, m.req, runs[m.req] + 1, m.path)
      <3>1. msgs' \subseteq msgs \cup new
        BY <1>4, <2>3 DEF OnNodeReq, RunOrRelay
      <3>2. runs[m.req] + 1 \in Nat /\ runs[m.req] + 1 # 0
        BY <1>0, <2>0 DEF TypeOK
      <3>3. Proper(new, m.req, runs[m.req] + 1)
        BY <2>0, <3>2, SendRespType
      <3> HIDE DEF new
      <3>4. \A o \in new : o.run # 0
        BY <3>2, <3>3 DEF Proper
      <3> QED BY <1>c, <2>1, <3>1, <3>4
    <2>4. CASE m.req \notin seen[n] /\ n # TargetOf[m.req]
      <3> DEFINE p == Append(m.path, n)
                 new == Broadcast(n, m.req, p, Source(m))
      <3>1. msgs' \subseteq msgs \cup new /\ seen' = [seen EXCEPT ![n] = seen[n] \cup {m.req}]
        BY <1>4, <2>4 DEF OnNodeReq, RunOrRelay
      <3>2. \A o \in new : o.req = m.req /\ o.run = 0 /\ o.path = p /\ o.at = "queue"
        <4>1. \A k, r, path, x : \A o \in Broadcast(k, r, path, x) :
                o.req = r /\ o.run = 0 /\ o.path = path /\ o.at = "queue"
          BY BroadcastFields
        <4> HIDE DEF p
        <4> QED BY <4>1
      <3>3. \A k \in Nodes : Cardinality(Visits(p, k)) <= Budget(m.req, k)'
        <4> SUFFICES ASSUME NEW k \in Nodes PROVE Cardinality(Visits(p, k)) <= Budget(m.req, k)'
          OBVIOUS
        <4>1. Cardinality(Visits(p, k)) = Cardinality(Visits(m.path, k)) + (IF n = k THEN 1 ELSE 0)
          BY <2>0, VisitsAppend
        <4>2. Cardinality(Visits(m.path, k)) \in Nat
          BY <2>0, VisitsFinite
        <4>3. Cardinality(Visits(m.path, k)) <= Budget(m.req, k)
          BY <2>0 DEF FloodInv, Thrifty
        <4>4. Budget(m.req, k)' = Budget(m.req, k) + (IF n = k THEN 1 ELSE 0)
          BY <1>0, <2>0, <2>1, <2>4, <3>1 DEF TypeOK, Budget
        <4> QED BY <1>b, <2>0, <4>1, <4>2, <4>3, <4>4
      <3>4. m.req \in Validated => NoRepeats(p)
        <4> SUFFICES ASSUME m.req \in Validated PROVE NoRepeats(p)
          OBVIOUS
        <4>1. NoRepeats(m.path) /\ n \notin Range(m.path)
          BY <2>0 DEF FloodInv, Fresh
        <4>2. \A i \in DOMAIN m.path : m.path[i] # n
          BY <4>1 DEF Range
        <4>3. /\ DOMAIN p = DOMAIN m.path \cup {Len(m.path) + 1}
              /\ p[Len(m.path) + 1] = n
              /\ \A i \in DOMAIN m.path : p[i] = m.path[i]
          BY <2>0
        <4> HIDE DEF p
        <4> QED BY <4>1, <4>2, <4>3 DEF NoRepeats
      <3> HIDE DEF new, p
      <3>5. \A o \in new : Thrifty(o)' /\ (o.req \in Validated => Fresh(o))
        BY <3>2, <3>3, <3>4 DEF Thrifty, Visits, Fresh
      <3> QED BY <1>c, <2>1, <3>1, <3>5
    <2> QED BY <2>2, <2>3, <2>4
  <1>5. ASSUME NEW m \in msgs, OnCallRsp(m) PROVE FloodInv'
    <2> DEFINE new == SendResp(m.to, m.req, m.run, m.path)
    <2>1. msgs' \subseteq msgs \cup new /\ restarts' = restarts /\ seen' = seen
      BY <1>5 DEF OnCallRsp
    <2>2. m.to \in Nodes /\ m.req \in Requests /\ m.run \in Nat /\ m.path \in Seq(Nodes) /\ m.run # 0
      BY <1>5, <1>a DEF OnCallRsp
    <2>3. Proper(new, m.req, m.run)
      BY <2>2, SendRespType
    <2> HIDE DEF new
    <2>4. \A o \in new : o.run # 0
      BY <2>2, <2>3 DEF Proper
    <2> QED BY <1>c, <2>1, <2>4
  <1>6. ASSUME restarts' = restarts, seen' = seen, msgs' \subseteq msgs PROVE FloodInv'
    BY <1>6, <1>d
  <1>7. ASSUME NEW l \in links, LinkDown(l) PROVE FloodInv'
    <2>1. msgs' = Cut({l}) /\ restarts' = restarts /\ seen' = seen
      BY <1>7 DEF LinkDown
    <2>2. \A r \in Requests, n \in Nodes : Budget(r, n) <= Budget(r, n)'
      BY <1>0, <2>1 DEF TypeOK, Budget
    <2> QED BY <1>e, <2>1, <2>2
  <1>8. ASSUME NEW k \in Nodes, Restart(k) PROVE FloodInv'
    <2>1. /\ msgs' \subseteq Cut({l \in links : k \in l})
          /\ restarts' = [restarts EXCEPT ![k] = restarts[k] + 1]
          /\ seen' = [seen EXCEPT ![k] = {}]
      BY <1>8 DEF Restart
    <2>2. \A r \in Requests, n \in Nodes : Budget(r, n) <= Budget(r, n)'
      BY <1>0, <2>1 DEF TypeOK, Budget
    <2> QED BY <1>e, <2>1, <2>2
  <1> QED
    BY <1>1, <1>2, <1>3, <1>4, <1>5, <1>6, <1>7, <1>8
       DEF Next, Progress, Refuse, Timeout, LinkUp, vars

\* In any network a request goes through a node once between two restarts of
\* it (the client once more), and where the channels validate its path, once
\* for ever, however connections break and messages are reordered: the flood
\* of a request comes to an end.
THEOREM FloodEnds == Spec => []RelayedOnce
  <1>1. Init => FloodInv
    BY DEF Init, FloodInv
  <1>2. Inv /\ FloodInv => RelayedOnce
    <2> SUFFICES ASSUME Inv, FloodInv, NEW m \in msgs, m.run = 0, NEW n \in Nodes
                 PROVE  Cardinality(Visits(m.path, n))
                          <= IF m.req \in Validated THEN 1
                             ELSE 1 + restarts[n] + (IF n = ClientOf[m.req] THEN 1 ELSE 0)
      BY DEF RelayedOnce, Visits
    <2>0. m.req \in Requests /\ m.path \in Seq(Nodes) /\ restarts[n] \in Nat
      BY DEF Inv, TypeOK, ChannelsOK, Message
    <2>1. CASE m.req \in Validated
      <3>1. \A i, j \in Visits(m.path, n) : i = j
        BY <2>1 DEF FloodInv, Fresh, NoRepeats, Visits
      <3>2. CASE Visits(m.path, n) = {}
        BY <2>1, <3>2, FS_EmptySet
      <3>3. ASSUME NEW i \in Visits(m.path, n)
            PROVE  Cardinality(Visits(m.path, n)) = 1
        <4>1. Visits(m.path, n) = {i}
          BY <3>1, <3>3
        <4> QED BY <4>1, FS_Singleton
      <3> QED BY <2>1, <3>2, <3>3
    <2>2. CASE m.req \notin Validated
      <3>1. Cardinality(Visits(m.path, n)) <= Budget(m.req, n)
        BY DEF FloodInv, Thrifty
      <3>2. Cardinality(Visits(m.path, n)) \in Nat
        BY <2>0, VisitsFinite
      <3> QED BY <2>0, <2>2, <3>1, <3>2 DEF Budget
    <2> QED BY <2>1, <2>2
  <1> QED BY <1>1, <1>2, NextFlood, InvAlways, PTL DEF Spec
=============================================================================
