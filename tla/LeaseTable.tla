----------------------------- MODULE LeaseTable ------------------------------
(***************************************************************************)
(* What GPU Steward promises to the people who share a host, without       *)
(* sessions, locks, processes or a planner: a task asks once, waits, holds *)
(* a set of devices exclusively from one atomic grant on, and gives all of *)
(* them back at once, never to hold any again.                             *)
(***************************************************************************)
CONSTANTS Tasks, Gpus

VARIABLES phase,   \* what a task is in the middle of
          holds    \* the devices it holds
vars == <<phase, holds>>

Phases == {"new", "waiting", "holding", "over"}

TypeOK ==
    /\ phase \in [Tasks -> Phases]
    /\ holds \in [Tasks -> SUBSET Gpus]

Init ==
    /\ phase = [t \in Tasks |-> "new"]
    /\ holds = [t \in Tasks |-> {}]

Ask(t) ==
    /\ phase[t] = "new"
    /\ phase' = [phase EXCEPT ![t] = "waiting"]
    /\ UNCHANGED holds

\* One batch: each task that gets devices was waiting, and no device is given
\* out twice or taken from a holder.
Grant ==
    \E given \in [Tasks -> SUBSET Gpus] :
        /\ \A t \in Tasks : given[t] # {} => phase[t] = "waiting"
        /\ \A t, u \in Tasks :
             /\ given[t] \cap holds[u] = {}
             /\ t # u => given[t] \cap given[u] = {}
        /\ phase' = [t \in Tasks |-> IF given[t] # {} THEN "holding" ELSE phase[t]]
        /\ holds' = [t \in Tasks |-> IF given[t] # {} THEN given[t] ELSE holds[t]]

\* Tasks end, alone or several at once.
Drop ==
    \E S \in SUBSET {t \in Tasks : phase[t] \in {"waiting", "holding"}} :
        /\ phase' = [t \in Tasks |-> IF t \in S THEN "over" ELSE phase[t]]
        /\ holds' = [t \in Tasks |-> IF t \in S THEN {} ELSE holds[t]]

Next == (\E t \in Tasks : Ask(t)) \/ Grant \/ Drop

Spec == Init /\ [][Next]_vars

\* No device has two holders, and only holding tasks have devices.
Exclusive ==
    /\ \A t, u \in Tasks : t # u => holds[t] \cap holds[u] = {}
    /\ \A t \in Tasks : holds[t] # {} <=> phase[t] = "holding"
=============================================================================
