----------------------------- MODULE RemoteCall -----------------------------
(***************************************************************************)
(* What the gateway and the compute nodes expect of the relay: a remote    *)
(* command runs only after it was called, at most once while its node      *)
(* stays up, and its caller gets at most one answer, of a run that took    *)
(* place, unless the call is given up before.                              *)
(***************************************************************************)
EXTENDS Naturals

CONSTANTS Calls, Servers, ServerOf

VARIABLES
  state,      \* of a call: new, open, answered or closed
  runs,       \* how often its command ran
  restarts    \* how often a server was restarted

vars == <<state, runs, restarts>>

Init ==
  /\ state = [c \in Calls |-> "new"]
  /\ runs = [c \in Calls |-> 0]
  /\ restarts = [s \in Servers |-> 0]

Call(c) ==
  /\ state[c] = "new"
  /\ state' = [state EXCEPT ![c] = "open"]
  /\ UNCHANGED <<runs, restarts>>

\* A server that was restarted has forgotten which commands it ran.
Run(c) ==
  /\ state[c] # "new"
  /\ runs[c] <= restarts[ServerOf[c]]
  /\ runs' = [runs EXCEPT ![c] = runs[c] + 1]
  /\ UNCHANGED <<state, restarts>>

Answer(c) ==
  /\ state[c] = "open" /\ runs[c] > 0
  /\ state' = [state EXCEPT ![c] = "answered"]
  /\ UNCHANGED <<runs, restarts>>

\* Time-out, or the end of the caller: some open calls are given up.
Close(cs) ==
  /\ cs \subseteq {c \in Calls : state[c] = "open"}
  /\ state' = [c \in Calls |-> IF c \in cs THEN "closed" ELSE state[c]]
  /\ UNCHANGED <<runs, restarts>>

Restart(s, cs) ==
  /\ cs \subseteq {c \in Calls : state[c] = "open"}
  /\ state' = [c \in Calls |-> IF c \in cs THEN "closed" ELSE state[c]]
  /\ restarts' = [restarts EXCEPT ![s] = restarts[s] + 1]
  /\ UNCHANGED runs

Next ==
  \/ \E c \in Calls : Call(c) \/ Run(c) \/ Answer(c)
  \/ \E cs \in SUBSET Calls : Close(cs) \/ \E s \in Servers : Restart(s, cs)

Spec == Init /\ [][Next]_vars
=============================================================================
