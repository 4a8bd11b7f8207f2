------------------------ MODULE RestApiServiceProofs ------------------------
(***************************************************************************)
(* The safety properties of RestApiService for any number of requests and  *)
(* commands and any limits.                                                *)
(***************************************************************************)
EXTENDS RestApiService, TLAPS, FiniteSetTheorems

\* What the HTTP thread knows of the request it works on: no one has
\* answered it yet, and its timer, its session and its broadcast come in
\* this order.
CurrentFresh ==
  step # "idle" =>
    /\ replies[current] = 0
    /\ current \notin sent \cup failed
    /\ current \in sessions <=> step = "send"
    /\ step = "timer" => timer[current] = 0

\* Only an open session whose broadcast failed has been answered, and a
\* request not taken up has not.
OpenUnanswered ==
  \A r \in Requests : (r \notin arrived \/ r \in sessions \ failed) => replies[r] = 0

\* The inductive invariant.
Inv == TypeOK /\ CurrentFresh /\ OpenUnanswered /\ TimerHasSession
       /\ RepliedOnce /\ NotLost

USE RequestsAssumption, CommandsAssumption, LimitsAssumption

\* The invariant holds initially.
LEMMA InitInv == Init => Inv
  BY SMT DEF Init, Inv, TypeOK, CurrentFresh, OpenUnanswered, TimerHasSession,
             RepliedOnce, NotLost

\* What Reply and RemoveTimers leave has the right type.
LEMMA ReplyType ==
  ASSUME TypeOK, NEW rs, Reply(rs)
  PROVE  replies' \in [Requests -> Nat]
  BY DEF TypeOK, Reply

LEMMA RemoveTimersType ==
  ASSUME TypeOK, NEW rs, RemoveTimers(rs)
  PROVE  timer' \in [Requests -> 0 .. MaxTimerId] /\ invokers' \subseteq Commands
  BY DEF TypeOK, RemoveTimers

\* Every step of the HTTP thread preserves the invariant.
LEMMA HttpInv == Inv /\ HttpNext => Inv'
  <1> SUFFICES ASSUME Inv, HttpNext PROVE Inv'
    OBVIOUS
  <1> USE DEF Inv
  <1>1. ASSUME NEW r \in Requests, RestRequest(r) PROVE Inv'
    <2>1. TypeOK'
      BY <1>1, ReplyType DEF RestRequest, TypeOK
    <2>2. (CurrentFresh /\ OpenUnanswered)'
      BY <1>1 DEF RestRequest, TypeOK, CurrentFresh, OpenUnanswered, TimerHasSession, Reply
    <2>3. (TimerHasSession /\ RepliedOnce /\ NotLost)'
      BY <1>1 DEF RestRequest, TypeOK, OpenUnanswered, TimerHasSession, RepliedOnce,
                  NotLost, Reply
    <2> QED BY <2>1, <2>2, <2>3
  <1>2. ASSUME AddTimer PROVE Inv'
    <2>1. TypeOK'
      BY <1>2, ReplyType DEF AddTimer, TypeOK, HttpIdle
    <2>2. (CurrentFresh /\ OpenUnanswered)'
      BY <1>2 DEF AddTimer, TypeOK, CurrentFresh, OpenUnanswered, Reply, HttpIdle
    <2>3. (TimerHasSession /\ RepliedOnce /\ NotLost)'
      BY <1>2 DEF AddTimer, TypeOK, CurrentFresh, TimerHasSession, RepliedOnce,
                  NotLost, Reply, HttpIdle
    <2> QED BY <2>1, <2>2, <2>3
  <1>3. ASSUME CreateRequestSession PROVE Inv'
    <2>1. TypeOK'
      BY <1>3, ReplyType, RemoveTimersType DEF CreateRequestSession, TypeOK, HttpIdle
    <2>2. (CurrentFresh /\ OpenUnanswered)'
      BY <1>3 DEF CreateRequestSession, TypeOK, CurrentFresh, OpenUnanswered, Reply,
                  HttpIdle
    <2>3. (TimerHasSession /\ RepliedOnce /\ NotLost)'
      BY <1>3 DEF CreateRequestSession, TypeOK, CurrentFresh, TimerHasSession,
                  RepliedOnce, NotLost, Reply, RemoveTimers, HttpIdle
    <2> QED BY <2>1, <2>2, <2>3
  <1>4. ASSUME BroadcastMessage PROVE Inv'
    <2>1. TypeOK'
      BY <1>4, ReplyType DEF BroadcastMessage, TypeOK, HttpIdle
    <2>2. (CurrentFresh /\ OpenUnanswered)'
      BY <1>4 DEF BroadcastMessage, TypeOK, CurrentFresh, OpenUnanswered, Reply, HttpIdle
    <2>3. (TimerHasSession /\ RepliedOnce /\ NotLost)'
      BY <1>4 DEF BroadcastMessage, TypeOK, CurrentFresh, TimerHasSession, RepliedOnce,
                  NotLost, Reply, HttpIdle
    <2> QED BY <2>1, <2>2, <2>3
  <1> QED BY <1>1, <1>2, <1>3, <1>4 DEF HttpNext

\* A response preserves it: the session is closed with its timer, and the
\* request was unanswered unless its broadcast had failed.
LEMMA RspInv ==
  ASSUME Inv, NEW r \in Requests, OnCallRsp(r)
  PROVE  Inv'
  <1> USE DEF Inv
  <1>1. TypeOK'
    BY ReplyType, RemoveTimersType DEF OnCallRsp, OnNodeRsp, TypeOK
  <1>2. r # current
    BY DEF OnCallRsp, OnNodeRsp, TypeOK, CurrentFresh
  <1>3. (CurrentFresh /\ OpenUnanswered)'
    BY <1>2 DEF OnCallRsp, OnNodeRsp, TypeOK, CurrentFresh, OpenUnanswered, Reply, RemoveTimers
  <1>4. (TimerHasSession /\ RepliedOnce /\ NotLost)'
    BY <1>2 DEF OnCallRsp, OnNodeRsp, TypeOK, OpenUnanswered, TimerHasSession, RepliedOnce, NotLost,
                Reply, RemoveTimers
  <1> QED BY <1>1, <1>3, <1>4

\* A tick preserves it: a session whose function is missing keeps its place
\* but loses its timer, every other due one is answered and closed.
LEMMA TickInv == Inv /\ Tick => Inv'
  <1> SUFFICES ASSUME Inv, NEW id \in 1 .. MaxTimerId, OnTimerTick(Due(id))
               PROVE  Inv'
    BY DEF Tick
  <1> USE DEF Inv
  <1>1. TypeOK'
    BY ReplyType, RemoveTimersType DEF OnTimerTick, OnNodeTimer, TypeOK
  <1>2. (CurrentFresh /\ OpenUnanswered)'
    BY DEF OnTimerTick, OnNodeTimer, Due, TypeOK, CurrentFresh, OpenUnanswered, Reply, RemoveTimers
  <1>3. (TimerHasSession /\ RepliedOnce /\ NotLost)'
    BY DEF OnTimerTick, OnNodeTimer, Due, TypeOK, OpenUnanswered, TimerHasSession, RepliedOnce, NotLost,
           Reply, RemoveTimers
  <1> QED BY <1>1, <1>2, <1>3

\* The invariant is inductive.
LEMMA NextInv == Inv /\ [Next]_vars => Inv'
  <1> SUFFICES ASSUME Inv, [Next]_vars PROVE Inv'
    OBVIOUS
  <1>1. CASE HttpNext
    BY <1>1, HttpInv
  <1>2. CASE Tick
    BY <1>2, TickInv
  <1>3. ASSUME NEW r \in Requests, OnCallRsp(r) PROVE Inv'
    BY <1>3, RspInv
  <1>4. CASE UNCHANGED vars
    BY <1>4 DEF vars, Inv, TypeOK, CurrentFresh, OpenUnanswered, TimerHasSession,
                RepliedOnce, NotLost
  <1> QED BY <1>1, <1>2, <1>3, <1>4 DEF Next

\* The invariant holds in every reachable state.
LEMMA InvHolds == Spec => []Inv
  BY InitInv, NextInv, PTL DEF Spec

\* Every reachable state has its type.
THEOREM TypeCorrect == Spec => []TypeOK
  <1>1. Inv => TypeOK
    BY DEF Inv
  <1> QED BY <1>1, InvHolds, PTL

\* No timer outlives its session, for any set of requests.
THEOREM TimersHaveSessions == Spec => []TimerHasSession
  <1>1. Inv => TimerHasSession
    BY DEF Inv
  <1> QED BY <1>1, InvHolds, PTL

\* A request whose broadcast succeeded is answered at most once, whatever
\* responses, duplicates and time-outs follow each other.
THEOREM AtMostOneReply == Spec => []RepliedOnce
  <1>1. Inv => RepliedOnce
    BY DEF Inv
  <1> QED BY <1>1, InvHolds, PTL

\* A request that has no answer yet can still get one.
THEOREM NoRequestLost == Spec => []NotLost
  <1>1. Inv => NotLost
    BY DEF Inv
  <1> QED BY <1>1, InvHolds, PTL

\* The pool of sessions is finite and within its limit.
PoolBounded == IsFiniteSet(sessions) /\ SessionsBounded

\* Only create_request_session adds a session, one at a time.
LEMMA PoolInv == Inv /\ PoolBounded /\ [Next]_vars => PoolBounded'
  <1> SUFFICES ASSUME Inv, PoolBounded, [Next]_vars PROVE PoolBounded'
    OBVIOUS
  <1> USE DEF PoolBounded, SessionsBounded
  <1>1. Cardinality(sessions) \in Nat
    BY FS_CardinalityType
  <1>2. ASSUME sessions' \subseteq sessions PROVE PoolBounded'
    <2>1. IsFiniteSet(sessions') /\ Cardinality(sessions') <= Cardinality(sessions)
      BY <1>2, FS_Subset
    <2>2. Cardinality(sessions') \in Nat
      BY <2>1, FS_CardinalityType
    <2> QED BY <1>1, <2>1, <2>2
  <1>3. CASE CreateRequestSession
    <2>1. CASE Cardinality(sessions) >= MaxSessions
      BY <1>2, <1>3, <2>1 DEF CreateRequestSession
    <2>2. CASE ~(Cardinality(sessions) >= MaxSessions)
      <3>1. sessions' = sessions \cup {current}
        BY <1>3, <2>2 DEF CreateRequestSession
      <3>2. IsFiniteSet(sessions \cup {current})
            /\ Cardinality(sessions \cup {current}) <= Cardinality(sessions) + 1
        <4>1. IsFiniteSet(sessions \cup {current})
              /\ Cardinality(sessions \cup {current}) =
                    IF current \in sessions THEN Cardinality(sessions)
                                            ELSE Cardinality(sessions) + 1
          BY FS_AddElement
        <4> QED BY <1>1, <4>1
      <3>3. Cardinality(sessions \cup {current}) \in Nat
        BY <3>2, FS_CardinalityType
      <3> QED BY <1>1, <2>2, <3>1, <3>2, <3>3
    <2> QED BY <2>1, <2>2
  <1>4. CASE ~CreateRequestSession
    <2>1. sessions' \subseteq sessions
      BY <1>4 DEF Next, vars, HttpNext, RestRequest, AddTimer, BroadcastMessage, Tick,
                  OnTimerTick, OnNodeTimer, OnCallRsp
    <2> QED BY <1>2, <2>1
  <1> QED BY <1>3, <1>4

\* The session pool keeps its limit, whatever the limit is.
THEOREM PoolWithinLimit == Spec => []SessionsBounded
  <1>1. Init => PoolBounded
    BY FS_EmptySet DEF Init, PoolBounded, SessionsBounded
  <1>2. PoolBounded => SessionsBounded
    BY DEF PoolBounded
  <1> QED BY <1>1, <1>2, InvHolds, PoolInv, PTL DEF Spec
=============================================================================
