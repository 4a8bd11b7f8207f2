--------------------------- MODULE RestApiService ---------------------------
(***************************************************************************)
(* The REST gateway: rest_api_service on top of service_module.            *)
(*                                                                         *)
(* The dbc-http thread turns an HTTP request into a node request: it adds  *)
(* a 30 second timer, opens a session that holds the HTTP request, and     *)
(* broadcasts the message.  The service thread handles the node's response *)
(* and the timer ticks; whichever comes first answers the HTTP request     *)
(* and closes the session.  All of the some forty commands are built this  *)
(* way; the timers of one command share a name, and service_module finds   *)
(* the function to call by that name.                                      *)
(*                                                                         *)
(* A request stands for its HTTP request, its session id and its timer.    *)
(* Timer ids grow and all timers run for the same time, so the timers due  *)
(* at a tick are the ones with the smallest ids.                           *)
(***************************************************************************)
EXTENDS Naturals, FiniteSets

CONSTANTS
  Requests,       \* HTTP requests of remote commands
  NoRequest,      \* the HTTP thread is idle
  Commands,       \* the names of the timers, one per command
  CommandOf,      \* the command of a request
  MaxSessions,    \* MAX_SESSION_COUNT, 1024 in the code
  MaxTimerId,     \* MAX_TIMER_ID, 2^32 - 1 in the code
  SendFails       \* whether a broadcast may fail (no peer is connected)

ASSUME RequestsAssumption == NoRequest \notin Requests
ASSUME CommandsAssumption == CommandOf \in [Requests -> Commands]
ASSUME LimitsAssumption   == MaxSessions \in Nat /\ MaxTimerId \in Nat
ASSUME FaultsAssumption   == SendFails \in BOOLEAN

VARIABLES
  arrived,    \* requests the HTTP thread has taken up
  current,    \* the one it works on
  step,       \* what it does next for that request
  allocId,    \* m_timer_alloc_id
  timer,      \* m_timer_queue: the id of a request's timer, 0 if it has none
  invokers,   \* keys of m_timer_invokers
  sessions,   \* keys of m_sessions
  sent,       \* requests that were broadcast
  failed,     \* history: requests whose broadcast failed
  replies     \* calls of write_reply for a request

vars == <<arrived, current, step, allocId, timer, invokers, sessions, sent,
          failed, replies>>

Init ==
  /\ arrived = {} /\ current = NoRequest /\ step = "idle"
  /\ allocId = 0
  /\ timer = [r \in Requests |-> 0]
  /\ invokers = {} /\ sessions = {} /\ sent = {} /\ failed = {}
  /\ replies = [r \in Requests |-> 0]

-----------------------------------------------------------------------------
\* One more reply to each of the requests.
Reply(rs) == replies' = [r \in Requests |-> IF r \in rs THEN replies[r] + 1
                                                        ELSE replies[r]]

\* Fault seeded for TimerHasSession: the timer stays in the queue.
RemoveTimersLeft(rs) ==
  /\ UNCHANGED timer
  /\ invokers' = invokers \ {CommandOf[r] : r \in {q \in rs : timer[q] > 0}}

\* remove_timer, of each of the requests: besides the timer it takes away
\* the function of every timer with the same name.
RemoveTimers(rs) ==
  /\ timer' = [r \in Requests |-> IF r \in rs THEN 0 ELSE timer[r]]
  /\ invokers' = invokers \ {CommandOf[r] : r \in {q \in rs : timer[q] > 0}}

HttpIdle == current' = NoRequest /\ step' = "idle"

\* A rest_... function up to the node request: an error is answered at once.
RestRequest(r) ==
  /\ step = "idle" /\ r \notin arrived
  /\ arrived' = arrived \cup {r}
  /\ \/ Reply({r}) /\ UNCHANGED <<current, step>>
     \/ current' = r /\ step' = "timer" /\ UNCHANGED replies
  /\ UNCHANGED <<allocId, timer, invokers, sessions, sent, failed>>

\* Fault seeded for AnsweredUnlessShared: the function is not registered.
AddTimerNoHandle ==
  /\ step = "timer"
  /\ IF allocId = MaxTimerId
       THEN /\ Reply({current}) /\ HttpIdle
            /\ UNCHANGED <<allocId, timer>>
       ELSE /\ allocId' = allocId + 1
            /\ timer' = [timer EXCEPT ![current] = allocId + 1]
            /\ step' = "session"
            /\ UNCHANGED <<replies, current>>
  /\ UNCHANGED <<arrived, invokers, sessions, sent, failed>>

\* Fault seeded for TypeOK: the test lets the last id be passed.
AddTimerOverLimit ==
  /\ step = "timer"
  /\ IF allocId > MaxTimerId
       THEN /\ Reply({current}) /\ HttpIdle
            /\ UNCHANGED <<allocId, timer, invokers>>
       ELSE /\ allocId' = allocId + 1
            /\ timer' = [timer EXCEPT ![current] = allocId + 1]
            /\ invokers' = invokers \cup {CommandOf[current]}
            /\ step' = "session"
            /\ UNCHANGED <<replies, current>>
  /\ UNCHANGED <<arrived, sessions, sent, failed>>

AddTimer ==
  /\ step = "timer"
  /\ IF allocId = MaxTimerId
       THEN /\ Reply({current}) /\ HttpIdle
            /\ UNCHANGED <<allocId, timer, invokers>>
       ELSE /\ allocId' = allocId + 1
            /\ timer' = [timer EXCEPT ![current] = allocId + 1]
            /\ invokers' = invokers \cup {CommandOf[current]}
            /\ step' = "session"
            /\ UNCHANGED <<replies, current>>
  /\ UNCHANGED <<arrived, sessions, sent, failed>>

\* Fault seeded for SessionsBounded: the limit itself is let through.
CreateRequestSessionOffByOne ==
  /\ step = "session"
  /\ IF Cardinality(sessions) > MaxSessions
       THEN RemoveTimers({current}) /\ Reply({current}) /\ HttpIdle
            /\ UNCHANGED sessions
       ELSE /\ sessions' = sessions \cup {current}
            /\ step' = "send"
            /\ UNCHANGED <<timer, invokers, replies, current>>
  /\ UNCHANGED <<arrived, allocId, sent, failed>>

\* create_request_session, and what the caller does when it fails.
CreateRequestSession ==
  /\ step = "session"
  /\ IF Cardinality(sessions) >= MaxSessions
       THEN RemoveTimers({current}) /\ Reply({current}) /\ HttpIdle
            /\ UNCHANGED sessions
       ELSE /\ sessions' = sessions \cup {current}
            /\ step' = "send"
            /\ UNCHANGED <<timer, invokers, replies, current>>
  /\ UNCHANGED <<arrived, allocId, sent, failed>>

\* A failed broadcast is answered, but session and timer stay.
BroadcastMessage ==
  /\ step = "send"
  /\ HttpIdle
  /\ \/ sent' = sent \cup {current} /\ UNCHANGED <<replies, failed>>
     \/ /\ SendFails
        /\ Reply({current}) /\ failed' = failed \cup {current}
        /\ UNCHANGED sent
  /\ UNCHANGED <<arrived, allocId, timer, invokers, sessions>>

\* Fault seeded for RepliedOnce: the session is kept.
OnCallRspKeepSession(r) ==
  /\ r \in sent \cap sessions
  /\ Reply({r})
  /\ RemoveTimers({r})
  /\ UNCHANGED <<arrived, current, step, allocId, sessions, sent, failed>>

\* Fault seeded for NotLost: a request destroyed unanswered stays so.
OnCallRspUnanswered(r) ==
  /\ r \in sent \cap sessions
  /\ Reply({r}) \/ UNCHANGED replies
  /\ RemoveTimers({r})
  /\ sessions' = sessions \ {r}
  /\ UNCHANGED <<arrived, current, step, allocId, sent, failed>>

\* An on_..._rsp function answers; if it gives up on the content, the HTTP
\* request answers itself when it is destroyed with its session.
OnNodeRsp(r) == Reply({r}) \/ (replies[r] > 0 /\ UNCHANGED replies)

\* on_call_rsp_handler, for a response whose header and signature are right;
\* any other, and one without a session (late or duplicated), changes
\* nothing.
OnCallRsp(r) ==
  /\ r \in sent \cap sessions
  /\ OnNodeRsp(r)
  /\ RemoveTimers({r})
  /\ sessions' = sessions \ {r}
  /\ UNCHANGED <<arrived, current, step, allocId, sent, failed>>

\* The on_..._timer functions answer and close the sessions.
OnNodeTimer(rs) == Reply(rs) /\ sessions' = sessions \ rs

\* on_timer_tick: the functions of the due timers are called, where they are
\* known; then the timers, which run once, are removed.
OnTimerTick(due) ==
  /\ due # {}
  /\ OnNodeTimer({r \in due \cap sessions : CommandOf[r] \in invokers})
  /\ RemoveTimers(due)
  /\ UNCHANGED <<arrived, current, step, allocId, sent, failed>>

\* The timers that have run for their 30 seconds.  The HTTP thread needs far
\* less from add_timer to the end of the broadcast.
Due(id) == {r \in Requests \ {current} : timer[r] > 0 /\ timer[r] <= id}

HttpNext == \/ \E r \in Requests : RestRequest(r)
            \/ AddTimer \/ CreateRequestSession \/ BroadcastMessage

Tick == \E id \in 1 .. MaxTimerId : OnTimerTick(Due(id))

Next == HttpNext \/ Tick \/ \E r \in Requests : OnCallRsp(r)

Spec == Init /\ [][Next]_vars

\* The HTTP thread gets on with the request it has, and a timer that is in
\* the queue becomes due: ticks come every 100 milliseconds.  Responses may
\* be lost.
FairSpec == /\ Spec
            /\ WF_vars(AddTimer \/ CreateRequestSession \/ BroadcastMessage)
            /\ WF_vars(Tick)

-----------------------------------------------------------------------------
\* Every variable has its type.
TypeOK ==
  /\ arrived \subseteq Requests
  /\ step \in {"idle", "timer", "session", "send"}
  /\ current \in (IF step = "idle" THEN {NoRequest} ELSE arrived)
  /\ allocId \in 0 .. MaxTimerId
  /\ timer \in [Requests -> 0 .. MaxTimerId]
  /\ invokers \subseteq Commands
  /\ sessions \subseteq arrived /\ sent \subseteq arrived /\ failed \subseteq arrived
  /\ replies \in [Requests -> Nat]

\* The pool of sessions keeps its limit: the check and the insertion of
\* create_request_session are not one critical section.
SessionsBounded == Cardinality(sessions) <= MaxSessions

\* A timer in the queue has a session to answer, except while the HTTP
\* thread is between add_timer and create_request_session: neither the
\* response nor the time-out of a session leaves its timer behind.
TimerHasSession ==
  \A r \in Requests :
    timer[r] > 0 => r \in sessions \/ (step = "session" /\ current = r)

\* write_reply is called at most once for a request whose broadcast did not
\* fail, whatever the order of response, duplicate response and time-out.
RepliedOnce == \A r \in Requests \ failed : replies[r] <= 1

\* A request that is not answered yet is still worked on by the HTTP thread
\* or has its session, so the response can be delivered.
NotLost ==
  \A r \in arrived : replies[r] = 0 => r \in sessions \/ current = r

\* The assertion of write_reply: no reply was sent before.
NeverRepliedTwice == \A r \in Requests : replies[r] <= 1

\* A request is answered in the end, by a response, a time-out or an error,
\* unless another request of the same command arrives: they share the entry
\* of m_timer_invokers, which the first that ends takes away.
AnsweredUnlessShared ==
  \A r \in Requests :
    r \in arrived ~>
      replies[r] > 0 \/ \E q \in arrived \ {r} : CommandOf[q] = CommandOf[r]

\* Every HTTP request is answered in the end, by a response or a time-out.
AllAnswered == \A r \in Requests : r \in arrived ~> replies[r] > 0
=============================================================================
