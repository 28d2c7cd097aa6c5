------------------------------ MODULE Processes ------------------------------
(***************************************************************************)
(* The operating system as src/gpu_steward/processes.py sees it: for each  *)
(* task its supervisor (the `gpu-steward run` process) and its child (the  *)
(* leader of the session subprocess.Popen starts).                         *)
(*                                                                         *)
(*   none    not started                                                   *)
(*   alive   running                                                       *)
(*   zombie  exited, not yet reaped by its parent; /proc/<pid> exists      *)
(*   gone    the pid names no process                                      *)
(*   reused  the pid names an unrelated process, which has its own start   *)
(*           time                                                          *)
(***************************************************************************)
CONSTANTS Tasks,     \* task ids, one per `run` invocation
          Leaders,  \* tasks whose supervisor leads its own process group
          ProcFs    \* the host has /proc

VARIABLES supervisor, child,
          signalled,  \* <<t, who>>: SIGTERM was sent to the process, which runs
          strangers   \* tasks through whose lease an unrelated process was hit
processVars == <<supervisor, child, signalled, strangers>>

ProcessStates == {"none", "alive", "zombie", "gone", "reused"}

ProcessTypeOK ==
    /\ supervisor \in [Tasks -> {"none", "alive", "gone", "reused"}]
    /\ child \in [Tasks -> ProcessStates]
    /\ signalled \subseteq Tasks \X {"supervisor", "child"}
    /\ strangers \subseteq Tasks

ProcessInit ==
    /\ supervisor = [t \in Tasks |-> "none"]
    /\ child = [t \in Tasks |-> "none"]
    /\ signalled = {}
    /\ strangers = {}

\* The state of the process that has the recorded pid, if one is recorded.
ProcessState(t, who) ==
    CASE who = "supervisor" -> supervisor[t]
      [] who = "child" -> child[t]
      [] OTHER -> "none"

\* Bug: the recorded start time never equals the one in /proc.
PidMatches_Never(t, who) == FALSE

\* pid_matches: /proc/<pid> exists and carries the recorded start time.  Without
\* /proc no start time was recorded, and any process with the pid matches.
PidMatches(t, who) ==
    \/ ProcessState(t, who) \in {"alive", "zombie"}
    \/ ~ProcFs /\ ProcessState(t, who) = "reused"

\* A process is the leader of its group: a child always, a supervisor only when
\* it was started as a job of its own.
LeadsGroup(t, who) == who = "child" \/ t \in Leaders

\* os.killpg(pid) finds a group.  A stranger that was given the pid may lead one.
GroupMayExist(t, who) ==
    \/ ProcessState(t, who) \in {"alive", "zombie"} /\ LeadsGroup(t, who)
    \/ ProcessState(t, who) = "reused"

\* os.killpg(pid) raises ProcessLookupError.
GroupMayLack(t, who) ==
    ~(ProcessState(t, who) \in {"alive", "zombie"} /\ LeadsGroup(t, who))

\* Bug: the signal is decided on and never sent.
Signal_Lost(t, who) == UNCHANGED <<signalled, strangers>>

\* SIGTERM to the group.  Its effect on the target is a later step of its own.
\* Whoever has the pid by now is hit.
Signal(t, who) ==
    /\ signalled' = signalled \cup {<<t, who>>}
    /\ strangers' = IF ProcessState(t, who) = "reused"
                    THEN strangers \cup {t} ELSE strangers

\* A process ends.  An orphan is reaped by init at once; a child of a live
\* supervisor waits for child.wait().
ChildExits(t) ==
    /\ child[t] = "alive"
    /\ child' = [child EXCEPT ![t] = IF supervisor[t] = "alive"
                                     THEN "zombie" ELSE "gone"]
    /\ signalled' = signalled \ {<<t, "child">>}
    /\ UNCHANGED <<supervisor, strangers>>

SupervisorEnds(t) ==
    /\ supervisor' = [supervisor EXCEPT ![t] = "gone"]
    /\ child' = [child EXCEPT ![t] = IF @ = "zombie" THEN "gone" ELSE @]
    /\ signalled' = signalled \ {<<t, "supervisor">>}
    /\ UNCHANGED strangers

\* The kernel hands a free pid out again.
PidReused(t, who) ==
    /\ ProcessState(t, who) = "gone"
    /\ IF who = "supervisor"
       THEN supervisor' = [supervisor EXCEPT ![t] = "reused"] /\ UNCHANGED child
       ELSE child' = [child EXCEPT ![t] = "reused"] /\ UNCHANGED supervisor
    /\ UNCHANGED <<signalled, strangers>>
=============================================================================
