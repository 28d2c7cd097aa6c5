---------------------------- MODULE StewardProof ----------------------------
(***************************************************************************)
(* Proofs about module Steward, for every set of tasks, every number of    *)
(* devices and every choice of the faults that may happen.                 *)
(***************************************************************************)
EXTENDS Steward, SchedulerProof

-----------------------------------------------------------------------------
(* Types *)

\* A call of _release_lease_tx, whatever tasks it is made for, keeps the types
\* of the columns it writes.
LEMMA ReleaseTypes ==
    ASSUME TypeOK, NEW S, ReleaseLeases(S)
    PROVE  /\ lease' \in [Tasks -> {"none", "active", "released"}]
           /\ rows' \in [Tasks -> SUBSET Gpus]
           /\ overdue' \in [Tasks -> BOOLEAN]
BY DEF TypeOK, StoreTypeOK, ReleaseLeases

\* So does recover_stale, and the statuses it writes are known to the schema.
LEMMA RecoverTypes ==
    ASSUME TypeOK, RecoverStale
    PROVE  /\ status' \in [Tasks -> Statuses]
           /\ lease' \in [Tasks -> {"none", "active", "released"}]
           /\ rows' \in [Tasks -> SUBSET Gpus]
           /\ overdue' \in [Tasks -> BOOLEAN]
<1>1. status' \in [Tasks -> Statuses]
  BY DEF TypeOK, StoreTypeOK, RecoverStale, RecoveredStatus, Statuses,
         LeasedStatuses, TerminalStatuses
<1> QED BY <1>1, ReleaseTypes DEF RecoverStale

\* A new row's created_at is the number of rows before it.
LEMMA AddTypes ==
    ASSUME TypeOK, NEW t \in Tasks, NEW shape \in Shapes, AddTask(t, shape)
    PROVE  StoreTypeOK'
<1> DEFINE others == {u \in Tasks : status[u] # "absent"}
<1>1. Cardinality(others) \in Nat
  <2>1. others \in SUBSET Tasks
    OBVIOUS
  <2> QED BY <2>1, TasksAssumption, FS_Subset, FS_CardinalityType
<1> HIDE DEF others
<1>2. shape \in [min : Nat \ {0}, max : Nat, priority : Int]
  BY StoreAssumption
<1>3. /\ status' = [status EXCEPT ![t] = "queued"]
      /\ request' = [request EXCEPT ![t] =
                       [min |-> shape.min, max |-> shape.max,
                        priority |-> shape.priority,
                        created |-> Cardinality(others)]]
      /\ UNCHANGED <<lease, rows, owner, overdue, signature>>
  BY DEF AddTask, others
<1>4. request' \in [Tasks -> [min : Nat \ {0}, max : Nat,
                              priority : Int, created : Nat]]
  BY <1>1, <1>2, <1>3 DEF TypeOK, StoreTypeOK
<1> QED BY <1>3, <1>4 DEF TypeOK, StoreTypeOK, Statuses

-----------------------------------------------------------------------------
(* Each group of actions keeps the types *)

\* The initial state has them.
LEMMA InitTypes == Init => TypeOK
<1> SUFFICES ASSUME Init PROVE TypeOK
  OBVIOUS
<1>1. StoreTypeOK
  BY DEF Init, StoreInit, StoreTypeOK, Statuses, Owners, NoRequest, NoMaximum
<1>2. ProcessTypeOK
  BY DEF Init, ProcessInit, ProcessTypeOK, ProcessStates
<1>3. present \in Inventories /\ Inventories \subseteq SUBSET Gpus
  BY StewardAssumption DEF Init
<1> QED BY <1>1, <1>2, <1>3 DEF Init, TypeOK, Places, NoSnap, NoView

\* A session that ends keeps them.
LEMMA EndTypes ==
    ASSUME TypeOK, NEW t \in Tasks, NEW how \in Ended, End(t, how)
    PROVE  /\ ProcessTypeOK'
           /\ pc' \in [Tasks -> Places]
           /\ passes' \in [Tasks -> 0 .. 2]
           /\ bound' \in [Tasks -> BOOLEAN]
           /\ code' \in [Tasks -> {"none", "zero", "nonzero"}]
           /\ lock' \in Tasks \cup {Nobody, Canceller}
           /\ aim' \in Tasks \cup {Nobody}
           /\ snap' \in [gpus : SUBSET Gpus, busy : SUBSET Gpus]
           /\ view' \in [free : SUBSET Gpus, external : SUBSET Gpus,
                         total : SUBSET Gpus]
<1>1. ProcessTypeOK'
  BY DEF TypeOK, ProcessTypeOK, End, SupervisorEnds, ProcessStates
<1>2. /\ lock' \in Tasks \cup {Nobody, Canceller}
      /\ aim' \in Tasks \cup {Nobody}
      /\ snap' \in [gpus : SUBSET Gpus, busy : SUBSET Gpus]
      /\ view' \in [free : SUBSET Gpus, external : SUBSET Gpus,
                    total : SUBSET Gpus]
  BY DEF TypeOK, End, Unlock, lockVars, NoSnap, NoView
<1> QED BY <1>1, <1>2 DEF TypeOK, End, Goto, Places

\* The scheduling section keeps them.
LEMMA SchedulingTypes ==
    ASSUME TypeOK, NEW t \in Tasks, Scheduling(t)
    PROVE  TypeOK'
<1> USE DEF Goto, Places, Sections, Ended, Unlock, NoSnap, NoView
<1>1. CASE Query(t)
  BY <1>1 DEF Query, TypeOK, StoreTypeOK, storeVars, ProcessTypeOK, processVars, hostVars
<1>2. CASE QueryFails(t)
  BY <1>2 DEF QueryFails, TypeOK, StoreTypeOK, storeVars, ProcessTypeOK, processVars, hostVars
<1>3. CASE View(t)
  <2>1. /\ status' \in [Tasks -> Statuses]
        /\ lease' \in [Tasks -> {"none", "active", "released"}]
        /\ rows' \in [Tasks -> SUBSET Gpus]
        /\ overdue' \in [Tasks -> BOOLEAN]
    BY <1>3, RecoverTypes DEF View
  <2>2. StoreTypeOK'
    BY <1>3, <2>1 DEF View, TypeOK, StoreTypeOK
  <2> QED BY <1>3, <2>2 DEF View, ViewOf, TypeOK, ProcessTypeOK, processVars, hostVars
<1>4. CASE ViewFails(t)
  BY <1>4 DEF ViewFails, TypeOK, StoreTypeOK, storeVars, ProcessTypeOK, processVars, hostVars
<1>5. CASE Allocate(t)
  <2>1. PICK grants \in [Tasks -> SUBSET Gpus] :
            /\ AllocateBatch(grants)
            /\ IF Insertable(grants)
               THEN Goto(t, "claim") /\ UNCHANGED lockVars
               ELSE Goto(t, "cleanup") /\ Unlock
    BY <1>5 DEF Allocate, GrantsOf
  <2>2. StoreTypeOK'
    BY <2>1 DEF AllocateBatch, TypeOK, StoreTypeOK, Statuses, LeasedStatuses
  <2> QED BY <1>5, <2>1, <2>2 DEF Allocate, TypeOK, ProcessTypeOK, processVars,
             lockVars, hostVars
<1>6. CASE AllocateRaises(t)
  BY <1>6, EndTypes DEF AllocateRaises, TypeOK, StoreTypeOK, storeVars, hostVars
<1>7. CASE Claim(t)
  <2>1. StoreTypeOK'
    BY <1>7 DEF Claim, ClaimTask, TypeOK, StoreTypeOK, Statuses, LeasedStatuses, Owners
  <2> QED BY <1>7, <2>1 DEF Claim, TypeOK, StoreTypeOK, ProcessTypeOK, processVars, hostVars
<1>8. CASE ClaimNothing(t)
  BY <1>8 DEF ClaimNothing, TypeOK, StoreTypeOK, storeVars, ProcessTypeOK, processVars, hostVars
<1> QED BY <1>1, <1>2, <1>3, <1>4, <1>5, <1>6, <1>7, <1>8 DEF Scheduling

\* request_cancel of an unclaimed task, and the session's own call of it.
LEMMA CancelTypes ==
    ASSUME TypeOK, NEW t \in Tasks, CancelUnclaimed(t) \/ CancelOwn(t)
    PROVE  StoreTypeOK'
<1>1. CASE CancelUnclaimed(t)
  <2>1. ReleaseLeases({t})
    BY <1>1 DEF CancelUnclaimed
  <2> QED BY <1>1, <2>1, ReleaseTypes
          DEF CancelUnclaimed, TypeOK, StoreTypeOK, Statuses, TerminalStatuses
<1>2. CASE UNCHANGED storeVars
  BY <1>2 DEF storeVars, TypeOK, StoreTypeOK
<1> QED BY <1>1, <1>2 DEF CancelOwn

\* So do the steps of a waiting session.
LEMMA WaitingTypes ==
    ASSUME TypeOK, NEW t \in Tasks, Waiting(t) \/ WaitTimeout(t)
    PROVE  TypeOK'
<1> USE DEF Goto, Places, Sections, Ended
<1>1. CASE Poll(t)
  BY <1>1 DEF Poll, TypeOK, StoreTypeOK, storeVars, ProcessTypeOK, processVars, hostVars
<1>2. CASE PollEnded(t)
  BY <1>2, EndTypes DEF PollEnded, TypeOK, StoreTypeOK, storeVars, hostVars
<1>3. CASE Cleanup(t)
  BY <1>3, EndTypes, CancelTypes DEF Cleanup, TypeOK, hostVars
<1>4. CASE WaitTimeout(t)
  BY <1>4, CancelTypes DEF WaitTimeout, TypeOK, ProcessTypeOK, processVars, lockVars, hostVars
<1> QED BY <1>1, <1>2, <1>3, <1>4 DEF Waiting

\* So do the steps from the claim to the release.
LEMMA SupervisingTypes ==
    ASSUME TypeOK, NEW t \in Tasks, Supervising(t)
    PROVE  TypeOK'
<1> USE DEF Goto, Places, Sections, Ended, lockVars, hostVars
<1>1. CASE Spawn(t)
  BY <1>1 DEF Spawn, TypeOK, StoreTypeOK, storeVars, ProcessTypeOK, ProcessStates
<1>2. CASE Bind(t)
  <2>1. StoreTypeOK'
    BY <1>2 DEF Bind, UpdateLeasePid, TypeOK, StoreTypeOK, Owners
  <2> QED BY <1>2, <2>1 DEF Bind, TypeOK, ProcessTypeOK, processVars
<1>3. CASE SetBound(t)
  BY <1>3 DEF SetBound, TypeOK, StoreTypeOK, storeVars, ProcessTypeOK, processVars
<1>4. ASSUME NEW result \in {"zero", "nonzero"}, Reap(t, result)
      PROVE  TypeOK'
  BY <1>4 DEF Reap, TypeOK, StoreTypeOK, storeVars, ProcessTypeOK, ProcessStates
<1>5. CASE Finish(t)
  <2>1. ReleaseLeases({t})
    BY <1>5 DEF Finish, FinishTask
  <2>2. StoreTypeOK'
    BY <1>5, <2>1, ReleaseTypes
       DEF Finish, FinishTask, FinishedStatus, TypeOK, StoreTypeOK, Statuses,
           TerminalStatuses
  <2> QED BY <1>5, <2>2, EndTypes DEF Finish, TypeOK
<1>6. CASE FinishBusy(t)
  BY <1>6, EndTypes DEF FinishBusy, TypeOK, StoreTypeOK, storeVars
<1> QED BY <1>1, <1>2, <1>3, <1>4, <1>5, <1>6 DEF Supervising

\* So do the failures of a session.
LEMMA FailingTypes ==
    ASSUME TypeOK, NEW t \in Tasks, Failing(t)
    PROVE  TypeOK'
<1> USE DEF Goto, Places, Sections, Ended, lockVars, hostVars
<1>1. CASE WaitTimeout(t)
  BY <1>1, WaitingTypes
<1>2. CASE SpawnFails(t)
  BY <1>2 DEF SpawnFails, TypeOK, StoreTypeOK, storeVars, ProcessTypeOK, ProcessStates
<1>3. CASE Abort(t)
  BY <1>3, SMTT(30) DEF Abort, TerminateChild, Signal, TypeOK, StoreTypeOK, storeVars,
              ProcessTypeOK, ProcessStates
<1>4. CASE LockFails(t)
  <2>1. CASE End(t, "blocked")
    BY <1>4, <2>1, EndTypes DEF LockFails, TypeOK, StoreTypeOK, storeVars
  <2>2. CASE Goto(t, "cleanup") /\ UNCHANGED <<processVars, lockVars, passes, bound, code>>
    BY <1>4, <2>2 DEF LockFails, TypeOK, StoreTypeOK, storeVars, ProcessTypeOK, processVars
  <2> QED BY <1>4, <2>1, <2>2 DEF LockFails
<1>5. CASE Dies(t)
  BY <1>5, EndTypes DEF Dies, TypeOK, StoreTypeOK, storeVars
<1> QED BY <1>1, <1>2, <1>3, <1>4, <1>5 DEF Failing

\* A signal keeps them: only a recorded process is ever signalled through a lease.
LEMMA SignalTypes ==
    ASSUME TypeOK, NEW t \in Tasks, GroupMayExist(t, owner[t]), Signal(t, owner[t])
    PROVE  /\ signalled' \subseteq Tasks \X {"supervisor", "child"}
           /\ strangers' \subseteq Tasks
<1>1. owner[t] \in {"supervisor", "child"}
  BY DEF GroupMayExist, ProcessState, TypeOK, StoreTypeOK, Owners
<1> QED BY <1>1 DEF Signal, TypeOK, ProcessTypeOK

\* So do the other commands.
LEMMA CommandTypes ==
    ASSUME TypeOK, Gc \/ Observe \/ \E t \in Tasks : Cancel(t)
    PROVE  TypeOK'
<1> USE DEF sessionVars, lockVars, hostVars
<1>1. ASSUME NEW t \in Tasks, CancelWaiting(t)
      PROVE  TypeOK'
  BY <1>1, CancelTypes DEF CancelWaiting, TypeOK, ProcessTypeOK, processVars
<1>2. ASSUME NEW t \in Tasks, CancelSignalled(t)
      PROVE  TypeOK'
  BY <1>2, SignalTypes DEF CancelSignalled, Cancelling, Unlock, NoSnap, NoView, TypeOK,
     StoreTypeOK, Statuses, LeasedStatuses, ProcessTypeOK
<1>3. ASSUME NEW t \in Tasks, CancelDies(t)
      PROVE  TypeOK'
  BY <1>3, SignalTypes DEF CancelDies, Unlock, NoSnap, NoView, TypeOK, StoreTypeOK,
     storeVars, ProcessTypeOK
<1>4. ASSUME NEW t \in Tasks, CancelRecovers(t)
      PROVE  TypeOK'
  <2>1. /\ ReleaseLeases(StaleLeases)
        /\ status' \in [Tasks -> Statuses]
    BY <1>4 DEF CancelRecovers, Cancelling, RecoveredStatus, TypeOK, StoreTypeOK,
                Statuses, LeasedStatuses, TerminalStatuses
  <2> QED BY <1>4, <2>1, ReleaseTypes DEF CancelRecovers, Unlock, NoSnap, NoView, TypeOK,
             StoreTypeOK, ProcessTypeOK, processVars
<1>5. CASE Gc
  <2>1. RecoverStale
    BY <1>5 DEF Gc
  <2> QED BY <1>5, <2>1, RecoverTypes DEF Gc, TypeOK, StoreTypeOK, ProcessTypeOK, processVars
<1>6. CASE Observe
  <2>1. RecoverStale
    BY <1>6 DEF Observe
  <2> QED BY <1>6, <2>1, RecoverTypes DEF Observe, TypeOK, StoreTypeOK, ProcessTypeOK, processVars
<1>7. ASSUME NEW t \in Tasks, CancelLooks(t)
      PROVE  TypeOK'
  BY <1>7 DEF CancelLooks, TypeOK, StoreTypeOK, storeVars, ProcessTypeOK, processVars
<1> QED BY <1>1, <1>2, <1>3, <1>4, <1>5, <1>6, <1>7 DEF Cancel

\* So does the host.
LEMMA HostTypes ==
    ASSUME TypeOK,
           \/ \E t \in Tasks : Host(t)
           \/ \E g \in Gpus : ExternalComes(g) \/ ExternalGoes(g)
           \/ InventoryChanges
    PROVE  TypeOK'
<1> USE DEF sessionVars, lockVars, storeVars, processVars
<1>1. ASSUME NEW t \in Tasks, LaunchTimesOut(t)
      PROVE  TypeOK'
  BY <1>1 DEF LaunchTimesOut, TypeOK, StoreTypeOK, ProcessTypeOK, hostVars
<1>2. ASSUME NEW t \in Tasks, ChildEnds(t)
      PROVE  TypeOK'
  BY <1>2 DEF ChildEnds, ChildExits, TypeOK, StoreTypeOK, ProcessTypeOK,
              ProcessStates, hostVars
<1>3. ASSUME NEW t \in Tasks, PidRecycled(t)
      PROVE  TypeOK'
  BY <1>3 DEF PidRecycled, PidReused, TypeOK, StoreTypeOK, ProcessTypeOK,
              ProcessStates, hostVars
<1>4. ASSUME NEW g \in Gpus, ExternalComes(g) \/ ExternalGoes(g)
      PROVE  TypeOK'
  BY <1>4 DEF ExternalComes, ExternalGoes, TypeOK, StoreTypeOK, ProcessTypeOK
<1>5. CASE InventoryChanges
  BY <1>5, StewardAssumption DEF InventoryChanges, TypeOK, StoreTypeOK, ProcessTypeOK
<1> QED BY <1>1, <1>2, <1>3, <1>4, <1>5 DEF Host

\* So does a session's arrival.
LEMMA ArrivalTypes ==
    ASSUME TypeOK, NEW t \in Tasks, NEW shape \in Shapes, Arrive(t, shape)
    PROVE  TypeOK'
<1>1. StoreTypeOK'
  BY AddTypes DEF Arrive
<1> QED BY <1>1 DEF Arrive, Goto, Places, Sections, TypeOK, ProcessTypeOK, hostVars

\* Every step keeps the types.
LEMMA NextTypes == TypeOK /\ [Next]_vars => TypeOK'
<1> SUFFICES ASSUME TypeOK, [Next]_vars PROVE TypeOK'
  OBVIOUS
<1>1. CASE UNCHANGED vars
  BY <1>1 DEF vars, storeVars, processVars, sessionVars, lockVars, hostVars,
              TypeOK, StoreTypeOK, ProcessTypeOK
<1> QED
  BY <1>1, ArrivalTypes, SchedulingTypes, WaitingTypes, SupervisingTypes, FailingTypes,
     CommandTypes, HostTypes DEF Next

\* The state of the database, the processes, the sessions and the host keeps
\* its types: in particular no status outside the schema's CHECK constraint is
\* written, whatever fails.
THEOREM TypeCorrect == Spec => []TypeOK
BY InitTypes, NextTypes, PTL DEF Spec

-----------------------------------------------------------------------------
(* The inductive invariant *)

Waits == {"wait", "cleanup"} \cup Sections
Supervises == {"spawn", "bind", "flag", "watch", "finish"}

\* Where a session stands says which of its processes exist and which of them
\* the lease names.
SessionInv(t) ==
    /\ supervisor[t] = "alive" <=> pc[t] \in Waits \cup Supervises
    /\ pc[t] \in {"idle"} \cup Waits => owner[t] = "none"
    /\ pc[t] \in Supervises => owner[t] # "none"
    /\ pc[t] \in {"spawn", "bind"} => owner[t] = "supervisor"
    /\ pc[t] \in {"flag", "watch"} => owner[t] = "child"
    /\ pc[t] = "spawn" => child[t] = "none"
    /\ pc[t] \in {"bind", "flag", "watch"} => child[t] \in {"alive", "zombie"}
    /\ pc[t] = "finish" => \/ child[t] \notin {"alive", "zombie"} \/ t \in Stubborn
                           \/ owner[t] = "supervisor"
    /\ owner[t] = "none" => child[t] = "none"

\* Tasks and leases agree as far as no planner is needed to see it.
TableInv(t) ==
    /\ status[t] \in LeasedStatuses => lease[t] = "active"
    /\ rows[t] # {} => lease[t] = "active"
    /\ status[t] \in {"absent", "queued"} => owner[t] = "none"
    /\ status[t] \in {"running", "cancelling"} => owner[t] # "none"
    /\ owner[t] # "none" => lease[t] # "none"

\* The lease names the supervisor, whose child may run; or it names the child,
\* which has been neither reaped nor given up.
Needed(t) ==
    \/ pc[t] \in {"spawn", "bind", "finish"} /\ owner[t] = "supervisor"
    \/ /\ owner[t] = "child" /\ child[t] \in {"alive", "zombie"}
       /\ t \in Stubborn => pc[t] \in {"flag", "watch"}

\* As long as that is so nothing releases the lease, and its devices are the
\* child's.
CoverInv(t) == Needed(t) => lease[t] = "active" /\ rows[t] = claimed[t]

\* Leases are exclusive.
RowsInv(t, u) == t # u => rows[t] \cap rows[u] = {}

\* The file lock excludes.
LockInv(t) ==
    /\ pc[t] \in Sections => lock = t
    /\ pc[t] = "wait" => passes[t] # 0

TaskInv(t) == SessionInv(t) /\ TableInv(t) /\ CoverInv(t) /\ LockInv(t)

IInv ==
    /\ TypeOK
    /\ \A t \in Tasks : TaskInv(t)
    /\ \A t, u \in Tasks : RowsInv(t, u)

\* It holds initially: nobody has asked for anything.
LEMMA InitInv == Init => IInv
<1> SUFFICES ASSUME Init PROVE IInv
  OBVIOUS
<1>1. TypeOK
  BY InitTypes
<1>2. ASSUME NEW t \in Tasks
      PROVE  TaskInv(t)
  BY DEF Init, StoreInit, ProcessInit, TaskInv, SessionInv, TableInv, CoverInv, Needed,
         LockInv, Waits, Sections, Supervises, LeasedStatuses
<1>3. ASSUME NEW t \in Tasks, NEW u \in Tasks
      PROVE  RowsInv(t, u)
  BY DEF Init, StoreInit, RowsInv
<1> QED BY <1>1, <1>2, <1>3 DEF IInv

-----------------------------------------------------------------------------
(* The transactions *)

\* A transaction leaves the tables in order, and takes no lease that is needed and
\* stays so.
Undisturbed ==
    /\ UNCHANGED <<owner, claimed>>
    /\ \A t \in Tasks : TableInv(t)'
    /\ \A t, u \in Tasks : RowsInv(t, u)'
    /\ \A t \in Tasks :
         Needed(t) /\ Needed(t)' => lease'[t] = lease[t] /\ rows'[t] = rows[t]

\* No transaction at all is one.
LEMMA NoTransaction ==
    ASSUME IInv, UNCHANGED storeVars, UNCHANGED claimed
    PROVE  Undisturbed
<1>1. UNCHANGED <<status, lease, rows, owner>>
  BY DEF storeVars
<1>2. ASSUME NEW t \in Tasks
      PROVE  TableInv(t)'
  BY <1>1 DEF IInv, TaskInv, TableInv
<1>3. ASSUME NEW t \in Tasks, NEW u \in Tasks
      PROVE  RowsInv(t, u)'
  BY <1>1 DEF IInv, RowsInv
<1> QED BY <1>1, <1>2, <1>3 DEF Undisturbed

\* The tasks of S end, and of the others some may be marked for a cancel.
Ending(S) ==
    /\ ReleaseLeases(S) /\ UNCHANGED <<owner, claimed>>
    /\ \A t \in Tasks :
         IF t \in S THEN status'[t] \in TerminalStatuses
         ELSE \/ status'[t] = status[t]
              \/ status[t] = "running" /\ status'[t] = "cancelling"

\* Releasing the leases of tasks that do not need them, or not any more, is one.
LEMMA EndingUndisturbed ==
    ASSUME IInv, NEW S, Ending(S),
           \A t \in Tasks : t \in S => ~Needed(t) \/ ~Needed(t)'
    PROVE  Undisturbed
<1>1. ASSUME NEW t \in Tasks
      PROVE  /\ TableInv(t)'
             /\ Needed(t) /\ Needed(t)' => lease'[t] = lease[t] /\ rows'[t] = rows[t]
  <2>1. TableInv(t) /\ TypeOK
    BY DEF IInv, TaskInv
  <2>2. TableInv(t)'
    BY <2>1 DEF Ending, TableInv, ReleaseLeases, LeasedStatuses, TerminalStatuses
  <2> QED BY <2>1, <2>2 DEF Ending, ReleaseLeases, TypeOK, StoreTypeOK
<1>2. ASSUME NEW t \in Tasks, NEW u \in Tasks
      PROVE  RowsInv(t, u)'
  BY DEF Ending, IInv, RowsInv, ReleaseLeases
<1> QED BY <1>1, <1>2 DEF Ending, Undisturbed

\* Recovery never takes the devices of a process it can see.
LEMMA StaleNotNeeded ==
    ASSUME IInv, NEW t \in Tasks, t \in StaleLeases
    PROVE  ~Needed(t)
<1>1. TaskInv(t) /\ TypeOK
  BY DEF IInv
<1> QED BY <1>1 DEF Needed, TaskInv, SessionInv, Supervises, StaleLeases, PidMatches,
           ProcessState

\* So recover_stale is one, ...
LEMMA RecoverUndisturbed ==
    ASSUME IInv, RecoverStale, UNCHANGED <<owner, claimed>>
    PROVE  Undisturbed
<1>1. Ending(StaleLeases)
  BY DEF Ending, RecoverStale, RecoveredStatus, TerminalStatuses
<1> QED BY <1>1, StaleNotNeeded, EndingUndisturbed

\* ... so is a cancel before the claim, ...
LEMMA CancelUndisturbed ==
    ASSUME IInv, NEW t \in Tasks, CancelUnclaimed(t), Unclaimed(t), UNCHANGED claimed
    PROVE  Undisturbed
<1>1. TaskInv(t) /\ TypeOK
  BY DEF IInv
<1>2. ~Needed(t)
  BY <1>1 DEF Unclaimed, Needed, TaskInv, SessionInv, Supervises
<1>3. Ending({t})
  BY <1>1 DEF Ending, CancelUnclaimed, TerminalStatuses, TypeOK, StoreTypeOK
<1> QED BY <1>2, <1>3, EndingUndisturbed

\* ... and when the session makes it, ...
LEMMA CancelOwnUndisturbed ==
    ASSUME IInv, NEW t \in Tasks, CancelOwn(t), UNCHANGED claimed
    PROVE  Undisturbed
BY CancelUndisturbed, NoTransaction DEF CancelOwn

\* ... the release at the end of a task, ...
LEMMA FinishUndisturbed ==
    ASSUME IInv, NEW t \in Tasks, pc[t] = "finish", NEW c, FinishTask(t, c),
           End(t, "done"), UNCHANGED claimed
    PROVE  Undisturbed
<1>1. TaskInv(t) /\ TypeOK
  BY DEF IInv
<1>2. ~Needed(t)'
  BY <1>1 DEF Needed, TaskInv, SessionInv, FinishTask, End, Goto, SupervisorEnds, TypeOK,
     ProcessTypeOK
<1>3. Ending({t})
  BY <1>1 DEF Ending, FinishTask, FinishedStatus, TerminalStatuses, TypeOK, StoreTypeOK
<1> QED BY <1>2, <1>3, EndingUndisturbed

\* ... and any batch, whatever the planner came up with: the UNIQUE constraints
\* reject a device that is taken or wanted twice, and a second lease.
LEMMA BatchUndisturbed ==
    ASSUME IInv, NEW grants \in [Tasks -> SUBSET Gpus], AllocateBatch(grants),
           UNCHANGED claimed
    PROVE  Undisturbed
<1>1. ASSUME NEW t \in Tasks
      PROVE  /\ TableInv(t)'
             /\ Needed(t) => lease'[t] = lease[t] /\ rows'[t] = rows[t]
  <2>1. TaskInv(t) /\ TypeOK
    BY DEF IInv
  <2>2. TableInv(t)'
    BY <2>1 DEF AllocateBatch, TaskInv, TableInv, LeasedStatuses
  <2>3. Needed(t) => lease[t] = "active"
    BY <2>1 DEF TaskInv, CoverInv
  <2> QED BY <2>1, <2>2, <2>3 DEF AllocateBatch, Insertable, TypeOK, StoreTypeOK
<1>2. ASSUME NEW t \in Tasks, NEW u \in Tasks
      PROVE  RowsInv(t, u)'
  BY DEF IInv, RowsInv, AllocateBatch, Insertable
<1> QED BY <1>1, <1>2 DEF AllocateBatch, Undisturbed

-----------------------------------------------------------------------------
(* The steps *)

\* What is left to show of a step with an undisturbed transaction concerns the
\* sessions and their processes.
LEMMA Assemble ==
    ASSUME IInv, TypeOK', Undisturbed,
           \A t \in Tasks : /\ SessionInv(t)' /\ LockInv(t)'
                            /\ Needed(t)' => Needed(t)
    PROVE  IInv'
<1>1. ASSUME NEW t \in Tasks
      PROVE  CoverInv(t)'
  <2>1. Needed(t)' => lease[t] = "active" /\ rows[t] = claimed[t] /\ Needed(t)
    BY DEF IInv, TaskInv, CoverInv
  <2> QED BY <2>1 DEF Undisturbed, CoverInv
<1> QED BY <1>1 DEF IInv, TaskInv, Undisturbed

\* A session's end: its lease, if it is claimed, stays with the process that is
\* recorded there.
LEMMA EndInv ==
    ASSUME IInv, TypeOK', Undisturbed, NEW t \in Tasks, NEW how \in Ended, End(t, how)
    PROVE  IInv'
<1>1. ASSUME NEW u \in Tasks
      PROVE  /\ SessionInv(u)' /\ LockInv(u)'
             /\ Needed(u)' => Needed(u)
  <2>1. TaskInv(u) /\ TaskInv(t) /\ TypeOK
    BY DEF IInv
  <2>2. UNCHANGED owner
    BY DEF Undisturbed
  <2>3. SessionInv(u)'
    BY <2>1, <2>2 DEF TaskInv, SessionInv, End, Goto, SupervisorEnds, Ended, Waits,
       Supervises, Sections, TypeOK, ProcessTypeOK
  <2>4. LockInv(u)'
    BY <2>1, NobodyAssumption DEF TaskInv, LockInv, End, Goto, Unlock, lockVars,
       Sections, Ended, TypeOK
  <2>5. Needed(u)' => Needed(u)
    BY <2>1, <2>2 DEF Needed, End, Goto, SupervisorEnds, Ended, TypeOK, ProcessTypeOK
  <2> QED BY <2>3, <2>4, <2>5
<1> QED BY <1>1, Assemble

\* A waiting session that goes on waiting, or cleans up, has no process beside
\* its own; its part of the invariant is about the lock.
LEMMA WaitInv ==
    ASSUME IInv, TypeOK', Undisturbed, UNCHANGED processVars,
           NEW t \in Tasks, pc[t] \in Waits, NEW place \in Waits, Goto(t, place),
           \A u \in Tasks : LockInv(u)'
    PROVE  IInv'
<1>1. ASSUME NEW u \in Tasks
      PROVE  /\ SessionInv(u)'
             /\ Needed(u)' => Needed(u)
  <2>1. TaskInv(u) /\ TaskInv(t) /\ TypeOK
    BY DEF IInv
  <2>2. UNCHANGED <<owner, supervisor, child>>
    BY DEF Undisturbed, processVars
  <2>3. SessionInv(u)'
    BY <2>1, <2>2 DEF TaskInv, SessionInv, Goto, Waits, Supervises, Sections, TypeOK
  <2>4. Needed(u)' => Needed(u)
    BY <2>1, <2>2 DEF Needed, Goto, Waits, Sections, TypeOK
  <2> QED BY <2>3, <2>4
<1> QED BY <1>1, Assemble

\* It may move within the section it holds the lock for, or take a free lock, ...
LEMMA LockTaken ==
    ASSUME IInv, NEW t \in Tasks, NEW place \in Sections, Goto(t, place),
           lock' = t, lock \in {t, Nobody}, UNCHANGED passes
    PROVE  \A u \in Tasks : LockInv(u)'
<1>1. ASSUME NEW u \in Tasks
      PROVE  LockInv(u)'
  <2>1. TaskInv(u) /\ TypeOK
    BY DEF IInv
  <2> QED BY <2>1, NobodyAssumption DEF TaskInv, LockInv, Goto, Sections, TypeOK
<1> QED BY <1>1

\* ... give the lock up, ...
LEMMA LockGivenUp ==
    ASSUME IInv, NEW t \in Tasks, pc[t] \in Sections, NEW place, place \notin Sections,
           Goto(t, place), Unlock,
           \A u \in Tasks : passes[u] # 0 => passes'[u] # 0,
           place = "wait" => passes'[t] # 0
    PROVE  \A u \in Tasks : LockInv(u)'
<1>1. ASSUME NEW u \in Tasks
      PROVE  LockInv(u)'
  <2>1. TaskInv(u) /\ TaskInv(t) /\ TypeOK
    BY DEF IInv
  <2> QED BY <2>1, NobodyAssumption DEF TaskInv, LockInv, Goto, Unlock, TypeOK
<1> QED BY <1>1

\* ... or move without it.
LEMMA LockLeft ==
    ASSUME IInv, NEW t \in Tasks, NEW place, place \notin Sections \cup {"wait"},
           pc[t] \notin Sections, Goto(t, place), UNCHANGED <<lock, passes>>
    PROVE  \A u \in Tasks : LockInv(u)'
<1>1. ASSUME NEW u \in Tasks
      PROVE  LockInv(u)'
  <2>1. TaskInv(u) /\ TypeOK
    BY DEF IInv
  <2> QED BY <2>1 DEF TaskInv, LockInv, Goto, TypeOK
<1> QED BY <1>1

\* The scheduling section, up to the claim.
LEMMA SchedulingInv ==
    ASSUME IInv, TypeOK', NEW t \in Tasks, Scheduling(t)
    PROVE  IInv'
<1>1. TaskInv(t) /\ TypeOK
  BY DEF IInv
<1> USE DEF Waits, Sections
<1>2. CASE Query(t)
  <2>1. Undisturbed
    BY <1>2, NoTransaction DEF Query
  <2>2. \A u \in Tasks : LockInv(u)'
    BY <1>1, <1>2, LockTaken DEF Query, TaskInv, LockInv
  <2> QED BY <1>2, <2>1, <2>2, WaitInv DEF Query
<1>3. CASE QueryFails(t)
  <2>1. Undisturbed
    BY <1>3, NoTransaction DEF QueryFails
  <2>2. \A u \in Tasks : LockInv(u)'
    BY <1>3, LockGivenUp DEF QueryFails
  <2> QED BY <1>3, <2>1, <2>2, WaitInv DEF QueryFails
<1>4. CASE View(t)
  <2>1. Undisturbed
    BY <1>4, RecoverUndisturbed DEF View
  <2>2. \A u \in Tasks : LockInv(u)'
    BY <1>1, <1>4, LockTaken DEF View, TaskInv, LockInv
  <2> QED BY <1>4, <2>1, <2>2, WaitInv DEF View
<1>5. CASE ViewFails(t)
  <2>1. Undisturbed
    BY <1>5, NoTransaction DEF ViewFails
  <2>2. \A u \in Tasks : LockInv(u)'
    BY <1>5, LockGivenUp DEF ViewFails
  <2> QED BY <1>5, <2>1, <2>2, WaitInv DEF ViewFails
<1>6. CASE Allocate(t)
  <2>1. PICK grants \in [Tasks -> SUBSET Gpus] :
            /\ AllocateBatch(grants)
            /\ IF Insertable(grants)
               THEN Goto(t, "claim") /\ UNCHANGED lockVars
               ELSE Goto(t, "cleanup") /\ Unlock
    BY <1>6 DEF Allocate, GrantsOf
  <2>2. /\ pc[t] = "allocate"
        /\ UNCHANGED processVars /\ UNCHANGED claimed /\ UNCHANGED passes
    BY <1>6 DEF Allocate
  <2>3. Undisturbed
    BY <2>1, <2>2, BatchUndisturbed
  <2>4. CASE Goto(t, "claim") /\ UNCHANGED lockVars
    <3>1. \A u \in Tasks : LockInv(u)'
      BY <1>1, <2>2, <2>4, LockTaken DEF TaskInv, LockInv, lockVars
    <3> QED BY <2>2, <2>3, <2>4, <3>1, WaitInv
  <2>5. CASE Goto(t, "cleanup") /\ Unlock
    <3>1. \A u \in Tasks : LockInv(u)'
      BY <2>2, <2>5, LockGivenUp
    <3> QED BY <2>2, <2>3, <2>5, <3>1, WaitInv
  <2> QED BY <2>1, <2>4, <2>5
<1>7. CASE AllocateRaises(t)
  <2>1. Undisturbed
    BY <1>7, NoTransaction DEF AllocateRaises
  <2> QED BY <1>7, <2>1, EndInv DEF AllocateRaises, Ended
<1>8. CASE Claim(t)
  <2>1. ASSUME NEW u \in Tasks
        PROVE  TaskInv(u)'
    <3>1. TaskInv(u)
      BY DEF IInv
    <3>2. lease[t] = "active"
      BY <1>1, <1>8 DEF Claim, Claimable, TaskInv, TableInv, LeasedStatuses
    <3>3. UNCHANGED <<supervisor, child, lease, rows, passes>>
      BY <1>8 DEF Claim, ClaimTask, processVars
    <3>4. /\ pc[t] = "claim"
          /\ pc' = [pc EXCEPT ![t] = "spawn"]
          /\ owner' = [owner EXCEPT ![t] = "supervisor"]
          /\ status' = [status EXCEPT ![t] = "running"]
          /\ claimed' = [claimed EXCEPT ![t] = rows[t]]
      BY <1>8 DEF Claim, ClaimTask, Goto
    <3>5. SessionInv(u)'
      BY <1>1, <3>1, <3>3, <3>4 DEF TaskInv, SessionInv, Supervises, TypeOK, StoreTypeOK
    <3>6. TableInv(u)'
      BY <1>1, <3>1, <3>2, <3>3, <3>4
         DEF TaskInv, TableInv, LeasedStatuses, TypeOK, StoreTypeOK
    <3>7. CoverInv(u)'
      BY <1>1, <3>1, <3>2, <3>3, <3>4
         DEF TaskInv, CoverInv, Needed, TypeOK, StoreTypeOK
    <3>8. LockInv(u)'
      BY <1>8, LockGivenUp DEF Claim
    <3> QED BY <3>5, <3>6, <3>7, <3>8 DEF TaskInv
  <2>2. UNCHANGED rows
    BY <1>8 DEF Claim, ClaimTask
  <2> QED BY <2>1, <2>2 DEF IInv, RowsInv
<1>9. CASE ClaimNothing(t)
  <2>1. Undisturbed
    BY <1>9, NoTransaction DEF ClaimNothing
  <2>2. /\ \A u \in Tasks : passes[u] # 0 => passes'[u] # 0
        /\ passes'[t] # 0
    BY <1>1, <1>9 DEF ClaimNothing, TypeOK
  <2>3. \A u \in Tasks : LockInv(u)'
    BY <1>9, <2>2, LockGivenUp DEF ClaimNothing
  <2> QED BY <1>9, <2>1, <2>3, WaitInv DEF ClaimNothing
<1> QED BY <1>2, <1>3, <1>4, <1>5, <1>6, <1>7, <1>8, <1>9 DEF Scheduling

\* A new session's task has neither a lease nor a process.
LEMMA ArrivalInv ==
    ASSUME IInv, TypeOK', NEW t \in Tasks, NEW shape \in Shapes, Arrive(t, shape)
    PROVE  IInv'
<1>1. /\ pc[t] = "idle" /\ lock = Nobody
      /\ pc' = [pc EXCEPT ![t] = "query"]
      /\ supervisor' = [supervisor EXCEPT ![t] = "alive"]
      /\ lock' = t
      /\ status' = [status EXCEPT ![t] = "queued"]
      /\ UNCHANGED <<lease, rows, owner, child, claimed, passes>>
  BY DEF Arrive, AddTask, Goto
<1>2. ASSUME NEW u \in Tasks
      PROVE  TaskInv(u)'
  <2>1. TaskInv(u) /\ TypeOK
    BY DEF IInv
  <2>2. SessionInv(u)'
    BY <1>1, <2>1 DEF TaskInv, SessionInv, Waits, Supervises, Sections, TypeOK, ProcessTypeOK
  <2>3. TableInv(u)'
    BY <1>1, <2>1 DEF TaskInv, SessionInv, TableInv, LeasedStatuses, TypeOK, StoreTypeOK
  <2>4. CoverInv(u)'
    BY <1>1, <2>1 DEF TaskInv, CoverInv, Needed, TypeOK
  <2>5. LockInv(u)'
    BY <1>1, <2>1, NobodyAssumption DEF TaskInv, LockInv, Sections, TypeOK
  <2> QED BY <2>2, <2>3, <2>4, <2>5 DEF TaskInv
<1> QED BY <1>1, <1>2 DEF IInv, RowsInv

\* The waiting loop and its cleanup.
LEMMA WaitingInv ==
    ASSUME IInv, TypeOK', NEW t \in Tasks, Waiting(t) \/ WaitTimeout(t)
    PROVE  IInv'
<1> USE DEF Waits, Sections, Ended
<1>1. CASE Poll(t)
  <2>1. Undisturbed
    BY <1>1, NoTransaction DEF Poll
  <2>2. \A u \in Tasks : LockInv(u)'
    BY <1>1, LockTaken DEF Poll
  <2> QED BY <1>1, <2>1, <2>2, WaitInv DEF Poll
<1>2. CASE PollEnded(t)
  <2>1. Undisturbed
    BY <1>2, NoTransaction DEF PollEnded
  <2> QED BY <1>2, <2>1, EndInv DEF PollEnded
<1>3. CASE Cleanup(t)
  <2>1. Undisturbed
    BY <1>3, CancelOwnUndisturbed DEF Cleanup
  <2> QED BY <1>3, <2>1, EndInv DEF Cleanup
<1>4. CASE WaitTimeout(t)
  <2>1. Undisturbed
    BY <1>4, CancelOwnUndisturbed DEF WaitTimeout
  <2>2. \A u \in Tasks : LockInv(u)'
    BY <1>4, LockLeft DEF WaitTimeout, lockVars
  <2> QED BY <1>4, <2>1, <2>2, WaitInv DEF WaitTimeout
<1> QED BY <1>1, <1>2, <1>3, <1>4 DEF Waiting

\* A supervisor's moves: the process it starts, records and reaps.
LEMMA SupervisingInv ==
    ASSUME IInv, TypeOK', NEW t \in Tasks, Supervising(t)
    PROVE  IInv'
<1>1. TaskInv(t) /\ TypeOK
  BY DEF IInv
<1>2. CASE Spawn(t)
  <2>1. Undisturbed
    BY <1>2, NoTransaction DEF Spawn
  <2>2. /\ pc[t] = "spawn" /\ Goto(t, "bind")
        /\ child' = [child EXCEPT ![t] = "alive"]
        /\ UNCHANGED <<supervisor, owner, lock, passes>>
    BY <1>2 DEF Spawn, storeVars, lockVars
  <2>3. \A u \in Tasks : LockInv(u)'
    BY <2>2, LockLeft DEF Sections
  <2>4. ASSUME NEW u \in Tasks
        PROVE  SessionInv(u)' /\ (Needed(u)' => Needed(u))
    <3>1. TaskInv(u)
      BY DEF IInv
    <3> QED BY <1>1, <2>2, <3>1 DEF TaskInv, SessionInv, Needed, Goto, Waits, Supervises,
               Sections, TypeOK, ProcessTypeOK
  <2> QED BY <2>1, <2>3, <2>4, Assemble
<1>3. CASE Bind(t)
  <2>1. /\ pc[t] = "bind" /\ Goto(t, "flag")
        /\ owner' = [owner EXCEPT ![t] = "child"]
        /\ UNCHANGED <<supervisor, child, status, lease, rows, claimed, lock, passes>>
    BY <1>3 DEF Bind, UpdateLeasePid, processVars, lockVars
  <2>2. ASSUME NEW u \in Tasks
        PROVE  TaskInv(u)'
    <3>1. TaskInv(u)
      BY DEF IInv
    <3>2. SessionInv(u)'
      BY <1>1, <2>1, <3>1 DEF TaskInv, SessionInv, Goto, Waits, Supervises, Sections,
                              TypeOK, StoreTypeOK
    <3>3. TableInv(u)'
      BY <1>1, <2>1, <3>1 DEF TaskInv, TableInv, SessionInv, Supervises, TypeOK, StoreTypeOK
    <3>4. CoverInv(u)'
      BY <1>1, <2>1, <3>1 DEF TaskInv, SessionInv, CoverInv, Needed, Goto, TypeOK, StoreTypeOK
    <3>5. LockInv(u)'
      BY <2>1, LockLeft DEF Sections
    <3> QED BY <3>2, <3>3, <3>4, <3>5 DEF TaskInv
  <2> QED BY <2>1, <2>2 DEF IInv, RowsInv
<1>4. CASE SetBound(t)
  <2>1. Undisturbed
    BY <1>4, NoTransaction DEF SetBound
  <2>2. /\ pc[t] = "flag" /\ Goto(t, "watch")
        /\ UNCHANGED <<supervisor, child, owner, lock, passes>>
    BY <1>4 DEF SetBound, storeVars, processVars, lockVars
  <2>3. \A u \in Tasks : LockInv(u)'
    BY <2>2, LockLeft DEF Sections
  <2>4. ASSUME NEW u \in Tasks
        PROVE  SessionInv(u)' /\ (Needed(u)' => Needed(u))
    <3>1. TaskInv(u)
      BY DEF IInv
    <3> QED BY <1>1, <2>2, <3>1 DEF TaskInv, SessionInv, Needed, Goto, Waits, Supervises,
               Sections, TypeOK
  <2> QED BY <2>1, <2>3, <2>4, Assemble
<1>5. ASSUME NEW result \in {"zero", "nonzero"}, Reap(t, result)
      PROVE  IInv'
  <2>1. Undisturbed
    BY <1>5, NoTransaction DEF Reap
  <2>2. /\ pc[t] = "watch" /\ Goto(t, "finish")
        /\ child' = [child EXCEPT ![t] = "gone"]
        /\ UNCHANGED <<supervisor, owner, lock, passes>>
    BY <1>5 DEF Reap, storeVars, lockVars
  <2>3. \A u \in Tasks : LockInv(u)'
    BY <2>2, LockLeft DEF Sections
  <2>4. ASSUME NEW u \in Tasks
        PROVE  SessionInv(u)' /\ (Needed(u)' => Needed(u))
    <3>1. TaskInv(u)
      BY DEF IInv
    <3> QED BY <1>1, <2>2, <3>1 DEF TaskInv, SessionInv, Needed, Goto, Waits, Supervises,
               Sections, TypeOK, ProcessTypeOK
  <2> QED BY <2>1, <2>3, <2>4, Assemble
<1>6. CASE Finish(t)
  <2>1. Undisturbed
    BY <1>6, FinishUndisturbed DEF Finish
  <2> QED BY <1>6, <2>1, EndInv DEF Finish, Ended
<1>7. CASE FinishBusy(t)
  <2>1. Undisturbed
    BY <1>7, NoTransaction DEF FinishBusy
  <2> QED BY <1>7, <2>1, EndInv DEF FinishBusy, Ended
<1> QED BY <1>2, <1>3, <1>4, <1>5, <1>6, <1>7 DEF Supervising

\* The failures of a session.
LEMMA FailingInv ==
    ASSUME IInv, TypeOK', NEW t \in Tasks, Failing(t)
    PROVE  IInv'
<1>1. TaskInv(t) /\ TypeOK
  BY DEF IInv
<1>2. CASE WaitTimeout(t)
  BY <1>2, WaitingInv
<1>3. CASE SpawnFails(t)
  <2>1. Undisturbed
    BY <1>3, NoTransaction DEF SpawnFails
  <2>2. /\ pc[t] = "spawn" /\ Goto(t, "finish")
        /\ UNCHANGED child \/ child' = [child EXCEPT ![t] = "alive"]
        /\ UNCHANGED <<supervisor, owner, lock, passes>>
    BY <1>3 DEF SpawnFails, storeVars, lockVars
  <2>3. \A u \in Tasks : LockInv(u)'
    BY <2>2, LockLeft DEF Sections
  <2>4. ASSUME NEW u \in Tasks
        PROVE  SessionInv(u)' /\ (Needed(u)' => Needed(u))
    <3>1. TaskInv(u)
      BY DEF IInv
    <3> QED BY <1>1, <2>2, <3>1 DEF TaskInv, SessionInv, Needed, Goto, Waits, Supervises,
               Sections, TypeOK, ProcessTypeOK
  <2> QED BY <2>1, <2>3, <2>4, Assemble
<1>4. CASE Abort(t)
  <2>1. Undisturbed
    BY <1>4, NoTransaction DEF Abort
  <2>2. /\ pc[t] \in {"bind", "flag", "watch"} /\ Goto(t, "finish")
        /\ \/ child' = [child EXCEPT ![t] = "gone"]
           \/ t \in Stubborn /\ UNCHANGED child
        /\ UNCHANGED <<supervisor, owner, lock, passes>>
    BY <1>4 DEF Abort, TerminateChild, storeVars, lockVars
  <2>3. \A u \in Tasks : LockInv(u)'
    BY <2>2, LockLeft DEF Sections
  <2>4. ASSUME NEW u \in Tasks
        PROVE  SessionInv(u)' /\ (Needed(u)' => Needed(u))
    <3>1. TaskInv(u)
      BY DEF IInv
    <3> QED BY <1>1, <2>2, <3>1 DEF TaskInv, SessionInv, Needed, Goto, Waits, Supervises,
               Sections, TypeOK, ProcessTypeOK
  <2> QED BY <2>1, <2>3, <2>4, Assemble
<1>5. CASE LockFails(t)
  <2>1. Undisturbed
    BY <1>5, NoTransaction DEF LockFails
  <2>2. CASE End(t, "blocked")
    BY <2>1, <2>2, EndInv DEF Ended
  <2>3. CASE pc[t] = "wait" /\ Goto(t, "cleanup") /\ UNCHANGED <<processVars, lockVars, passes>>
    <3>1. \A u \in Tasks : LockInv(u)'
      BY <2>3, LockLeft DEF lockVars, Sections
    <3> QED BY <2>1, <2>3, <3>1, WaitInv DEF Waits
  <2> QED BY <1>5, <2>2, <2>3 DEF LockFails
<1>6. CASE Dies(t)
  <2>1. Undisturbed
    BY <1>6, NoTransaction DEF Dies
  <2> QED BY <1>6, <2>1, EndInv DEF Dies, Ended
<1> QED BY <1>2, <1>3, <1>4, <1>5, <1>6 DEF Failing

\* A step that moves no session and no process, and leaves a session its lock.
LEMMA TransactionInv ==
    ASSUME IInv, TypeOK', Undisturbed, UNCHANGED <<supervisor, child, pc, passes>>,
           lock' = lock \/ lock \notin Tasks
    PROVE  IInv'
<1>1. ASSUME NEW u \in Tasks
      PROVE  /\ SessionInv(u)' /\ LockInv(u)'
             /\ Needed(u)' => Needed(u)
  <2>1. TaskInv(u) /\ UNCHANGED owner
    BY DEF IInv, Undisturbed
  <2> QED BY <2>1 DEF TaskInv, SessionInv, LockInv, Needed
<1> QED BY <1>1, Assemble

\* The other commands: nothing they do takes a lease that is needed.
LEMMA CommandInv ==
    ASSUME IInv, TypeOK', Gc \/ Observe \/ \E t \in Tasks : Cancel(t)
    PROVE  IInv'
<1> USE DEF sessionVars, lockVars, processVars
<1>1. ASSUME NEW t \in Tasks, CancelWaiting(t)
      PROVE  IInv'
  <2>1. Undisturbed
    BY <1>1, CancelUndisturbed DEF CancelWaiting
  <2> QED BY <1>1, <2>1, TransactionInv DEF CancelWaiting
<1>2. ASSUME NEW t \in Tasks, CancelSignalled(t)
      PROVE  IInv'
  <2>1. ASSUME NEW u \in Tasks
        PROVE  TableInv(u)'
    <3>1. TaskInv(u) /\ TypeOK
      BY DEF IInv
    <3> QED BY <1>2, <3>1 DEF CancelSignalled, Cancelling, TaskInv, TableInv,
               LeasedStatuses, TypeOK, StoreTypeOK
  <2>2. Undisturbed
    BY <1>2, <2>1 DEF CancelSignalled, Undisturbed, IInv, RowsInv
  <2> QED BY <1>2, <2>2, TransactionInv, NobodyAssumption DEF CancelSignalled, Aimed
<1>3. ASSUME NEW t \in Tasks, CancelDies(t)
      PROVE  IInv'
  <2>1. Undisturbed
    BY <1>3, NoTransaction DEF CancelDies
  <2> QED BY <1>3, <2>1, TransactionInv, NobodyAssumption DEF CancelDies, Aimed
<1>4. ASSUME NEW t \in Tasks, CancelRecovers(t)
      PROVE  IInv'
  <2>1. TypeOK
    BY DEF IInv
  <2>2. Ending(StaleLeases)
    BY <1>4, <2>1 DEF CancelRecovers, Ending, Cancelling, RecoveredStatus,
       TerminalStatuses, TypeOK, StoreTypeOK
  <2>3. Undisturbed
    BY <2>2, StaleNotNeeded, EndingUndisturbed
  <2> QED BY <1>4, <2>3, TransactionInv, NobodyAssumption
          DEF CancelRecovers, CancelOwned, Aimed
<1>5. CASE Gc
  <2>1. Undisturbed
    BY <1>5, RecoverUndisturbed DEF Gc
  <2> QED BY <1>5, <2>1, TransactionInv DEF Gc
<1>6. CASE Observe
  <2>1. Undisturbed
    BY <1>6, RecoverUndisturbed DEF Observe
  <2> QED BY <1>6, <2>1, TransactionInv DEF Observe
<1>7. ASSUME NEW t \in Tasks, CancelLooks(t)
      PROVE  IInv'
  <2>1. Undisturbed
    BY <1>7, NoTransaction DEF CancelLooks
  <2> QED BY <1>7, <2>1, TransactionInv, NobodyAssumption DEF CancelLooks, CancelOwned
<1> QED BY <1>1, <1>2, <1>3, <1>4, <1>5, <1>6, <1>7 DEF Cancel

\* The host: time, exits, pids and devices.
LEMMA HostInv ==
    ASSUME IInv, TypeOK',
           \/ \E t \in Tasks : Host(t)
           \/ \E g \in Gpus : ExternalComes(g) \/ ExternalGoes(g)
           \/ InventoryChanges
    PROVE  IInv'
<1> USE DEF sessionVars, lockVars, processVars
<1>1. ASSUME NEW t \in Tasks, LaunchTimesOut(t)
      PROVE  IInv'
  <2>1. Undisturbed
    BY <1>1 DEF LaunchTimesOut, Undisturbed, IInv, TaskInv, TableInv, RowsInv
  <2> QED BY <1>1, <2>1, TransactionInv DEF LaunchTimesOut
<1>2. ASSUME NEW t \in Tasks, ChildEnds(t)
      PROVE  IInv'
  <2>1. Undisturbed
    BY <1>2, NoTransaction DEF ChildEnds
  <2>2. ASSUME NEW u \in Tasks
        PROVE  /\ SessionInv(u)' /\ LockInv(u)'
               /\ Needed(u)' => Needed(u)
    <3>1. TaskInv(u) /\ TypeOK
      BY DEF IInv
    <3> QED BY <1>2, <3>1 DEF ChildEnds, ChildExits, storeVars, TaskInv, SessionInv, LockInv,
               Needed, Supervises, TypeOK, ProcessTypeOK
  <2> QED BY <2>1, <2>2, Assemble
<1>3. ASSUME NEW t \in Tasks, PidRecycled(t)
      PROVE  IInv'
  <2>1. Undisturbed
    BY <1>3, NoTransaction DEF PidRecycled
  <2>2. ASSUME NEW u \in Tasks
        PROVE  /\ SessionInv(u)' /\ LockInv(u)'
               /\ Needed(u)' => Needed(u)
    <3>1. TaskInv(u) /\ TypeOK
      BY DEF IInv
    <3> QED BY <1>3, <3>1 DEF PidRecycled, PidReused, ProcessState, storeVars, TaskInv,
               SessionInv, LockInv, Needed, TypeOK, StoreTypeOK, ProcessTypeOK
  <2> QED BY <2>1, <2>2, Assemble
<1>4. ASSUME NEW g \in Gpus, ExternalComes(g) \/ ExternalGoes(g)
      PROVE  IInv'
  <2>1. Undisturbed
    BY <1>4, NoTransaction DEF ExternalComes, ExternalGoes
  <2> QED BY <1>4, <2>1, TransactionInv DEF ExternalComes, ExternalGoes
<1>5. CASE InventoryChanges
  <2>1. Undisturbed
    BY <1>5, NoTransaction DEF InventoryChanges
  <2> QED BY <1>5, <2>1, TransactionInv DEF InventoryChanges
<1> QED BY <1>1, <1>2, <1>3, <1>4, <1>5 DEF Host

\* The invariant is inductive.
LEMMA NextInv == IInv /\ [Next]_vars => IInv'
<1> SUFFICES ASSUME IInv, [Next]_vars PROVE IInv'
  OBVIOUS
<1>1. TypeOK'
  BY NextTypes DEF IInv
<1>2. CASE UNCHANGED vars
  <2>1. Undisturbed
    BY <1>2, NoTransaction DEF vars, sessionVars
  <2> QED BY <1>1, <1>2, <2>1, TransactionInv DEF vars, processVars, sessionVars, lockVars
<1> QED
  BY <1>1, <1>2, ArrivalInv, SchedulingInv, WaitingInv, SupervisingInv, FailingInv,
     CommandInv, HostInv DEF Next

\* The invariant holds in every state that can be reached.
THEOREM Invariant == Spec => []IInv
BY InitInv, NextInv, PTL DEF Spec

-----------------------------------------------------------------------------
(* What follows from the invariant *)

\* A managed child's session still needs the lease.
LEMMA Covered == IInv => ChildCovered
<1> SUFFICES ASSUME IInv, NEW t \in Tasks, Managed(t)
             PROVE  lease[t] = "active" /\ rows[t] = claimed[t]
  BY DEF ChildCovered
<1>1. TaskInv(t)
  BY DEF IInv
<1>2. Needed(t)
  BY <1>1 DEF Managed, Needed, TaskInv, SessionInv, Waits, Supervises
<1> QED BY <1>1, <1>2 DEF TaskInv, CoverInv

\* As long as a child runs under a live supervisor, or under a lease that names
\* it, no cancel, gc, status, timeout or other session releases its lease or
\* changes its devices.
THEOREM ChildCoveredAlways == Spec => []ChildCovered
BY Invariant, Covered, PTL

\* Two managed children never see the same device, whatever the planner plans:
\* the UNIQUE constraint on lease_gpus and the cover above are enough.
THEOREM NoSharedDeviceAlways == Spec => []NoSharedDevice
<1>1. IInv => NoSharedDevice
  BY Covered DEF IInv, RowsInv, ChildCovered, NoSharedDevice
<1> QED BY <1>1, Invariant, PTL

\* A task that was cancelled, or whose reservation expired, before its session
\* claimed it has no process and will not be spawned.
THEOREM CancelledBeforeStartAlways == Spec => []CancelledBeforeStart
<1>1. IInv => CancelledBeforeStart
  BY DEF IInv, TaskInv, SessionInv, Supervises, CancelledBeforeStart
<1> QED BY <1>1, Invariant, PTL

\* Arrivals are scheduled one by one: a live session that has not made its first
\* pass holds the lock for it, or is cleaning up.
THEOREM ArrivalScheduledAtOnceAlways == Spec => []ArrivalScheduledAtOnce
<1>1. IInv => ArrivalScheduledAtOnce
  <2> SUFFICES ASSUME IInv, NEW t \in Tasks, status[t] = "queued",
                      supervisor[t] = "alive", passes[t] = 0
               PROVE  lock = t \/ pc[t] = "cleanup"
    BY DEF ArrivalScheduledAtOnce
  <2>1. TaskInv(t)
    BY DEF IInv
  <2> QED BY <2>1 DEF TaskInv, SessionInv, TableInv, LockInv, Waits, Supervises
<1> QED BY <1>1, Invariant, PTL

-----------------------------------------------------------------------------
(* Where a session may have come from *)

\* Nothing is written, but for the launch timeouts.
Quiet == UNCHANGED <<status, request, lease, rows, owner, signature>>

\* The places the second invariant speaks of are entered by these steps only, and
\* nobody writes while a session is about to allocate.
Entered(t) ==
    /\ pc'[t] = "idle" => pc[t] = "idle"
    /\ pc'[t] = "raised" => pc[t] = "raised" \/ Cleanup(t) \/ FinishBusy(t)
    /\ pc'[t] = "done" => pc[t] = "done" \/ PollEnded(t) \/ Finish(t)
    /\ pc'[t] = "error" => pc[t] = "error" \/ AllocateRaises(t)
    /\ pc'[t] = "view" => Query(t) \/ (pc[t] = "view" /\ UNCHANGED snap)
    /\ pc'[t] = "allocate" =>
         View(t) \/ (pc[t] = "allocate" /\ Quiet /\ UNCHANGED <<snap, view>>)

\* One session at a time is in a section, and none while the lock is free.
LEMMA SectionsExclude ==
    ASSUME IInv, NEW t \in Tasks, pc[t] \in Sections
    PROVE  lock = t /\ lock \notin {Nobody, Canceller} /\ \A u \in Tasks : pc[u] \in Sections => u = t
BY NobodyAssumption DEF IInv, TaskInv, LockInv

\* A session that ends takes no other session to one of these places.
LEMMA EnteredByEnd ==
    ASSUME IInv, NEW t \in Tasks, NEW u \in Tasks, NEW how \in Ended, End(u, how),
           how = "raised" => t # u \/ Cleanup(t) \/ FinishBusy(t),
           how = "done" => t # u \/ PollEnded(t) \/ Finish(t),
           how = "error" => t # u \/ AllocateRaises(t),
           pc[t] = "allocate" /\ t # u => Quiet
    PROVE  Entered(t)
<1>1. TypeOK /\ (pc[t] \in Sections => lock = t)
  BY SectionsExclude DEF IInv
<1>2. CASE t = u
  BY <1>1, <1>2 DEF End, Goto, Ended, Entered, TypeOK
<1>3. CASE t # u
  BY <1>1, <1>3 DEF End, Goto, Ended, Entered, TypeOK, lockVars, Sections
<1> QED BY <1>2, <1>3

\* Nor do the steps under the lock, ...
LEMMA EnteredScheduling ==
    ASSUME IInv, NEW t \in Tasks, NEW u \in Tasks, Scheduling(u)
    PROVE  Entered(t)
<1>1. TypeOK /\ (pc[t] \in Sections /\ pc[u] \in Sections => t = u)
  BY SectionsExclude DEF IInv
<1> USE DEF Sections, Goto, TypeOK, Entered
<1>2. CASE Query(u)
  BY <1>1, <1>2 DEF Query
<1>3. CASE QueryFails(u)
  BY <1>1, <1>3 DEF QueryFails
<1>4. CASE View(u)
  BY <1>1, <1>4 DEF View
<1>5. CASE ViewFails(u)
  BY <1>1, <1>5 DEF ViewFails
<1>6. CASE Allocate(u)
  BY <1>1, <1>6 DEF Allocate
<1>7. CASE AllocateRaises(u)
  <2>1. End(u, "error") /\ "error" \in Ended /\ pc[u] = "allocate"
    BY <1>7 DEF AllocateRaises, Ended
  <2> HIDE DEF Entered
  <2> QED BY <1>1, <1>7, <2>1, EnteredByEnd
<1>8. CASE Claim(u)
  BY <1>1, <1>8 DEF Claim
<1>9. CASE ClaimNothing(u)
  BY <1>1, <1>9 DEF ClaimNothing
<1> QED BY <1>2, <1>3, <1>4, <1>5, <1>6, <1>7, <1>8, <1>9 DEF Scheduling

\* ... those of the waiting loop and its handler, ...
LEMMA EnteredWaiting ==
    ASSUME IInv, NEW t \in Tasks, NEW u \in Tasks, Waiting(u) \/ WaitTimeout(u)
    PROVE  Entered(t)
<1>1. TypeOK /\ (pc[t] \in Sections => lock # Nobody)
  BY SectionsExclude DEF IInv
<1>2. CASE Poll(u)
  BY <1>1, <1>2 DEF Poll, Sections, Goto, TypeOK, Entered
<1>3. CASE PollEnded(u)
  <2>1. End(u, "done") /\ "done" \in Ended /\ pc[t] # "allocate"
    BY <1>1, <1>3 DEF PollEnded, Ended, Sections
  <2> QED BY <1>3, <2>1, EnteredByEnd
<1>4. CASE Cleanup(u)
  <2>1. End(u, "raised") /\ "raised" \in Ended /\ pc[t] # "allocate"
    BY <1>1, <1>4 DEF Cleanup, Ended, Sections
  <2> QED BY <1>4, <2>1, EnteredByEnd
<1>5. CASE WaitTimeout(u)
  BY <1>1, <1>5 DEF WaitTimeout, Sections, Goto, TypeOK, Entered
<1> QED BY <1>2, <1>3, <1>4, <1>5 DEF Waiting

\* ... those of a supervisor, ...
LEMMA EnteredSupervising ==
    ASSUME IInv, NEW t \in Tasks, NEW u \in Tasks, Supervising(u)
    PROVE  Entered(t)
<1>1. TypeOK /\ (pc[t] \in Sections => lock # Nobody)
  BY SectionsExclude DEF IInv
<1> USE DEF Sections, Goto, TypeOK
<1>2. CASE Spawn(u)
  BY <1>1, <1>2 DEF Spawn, storeVars, lockVars, Entered, Quiet
<1>3. CASE Bind(u)
  BY <1>1, <1>3 DEF Bind, Entered
<1>4. CASE SetBound(u)
  BY <1>1, <1>4 DEF SetBound, storeVars, lockVars, Entered, Quiet
<1>5. ASSUME NEW result, Reap(u, result)
      PROVE  Entered(t)
  BY <1>1, <1>5 DEF Reap, storeVars, lockVars, Entered, Quiet
<1>6. CASE Finish(u)
  <2>1. End(u, "done") /\ "done" \in Ended /\ pc[t] # "allocate"
    BY <1>1, <1>6 DEF Finish, Ended
  <2> QED BY <1>6, <2>1, EnteredByEnd
<1>7. CASE FinishBusy(u)
  <2>1. End(u, "raised") /\ "raised" \in Ended /\ pc[t] # "allocate"
    BY <1>1, <1>7 DEF FinishBusy, Ended
  <2> QED BY <1>7, <2>1, EnteredByEnd
<1> QED BY <1>2, <1>3, <1>4, <1>5, <1>6, <1>7 DEF Supervising

\* ... and those that fail.
LEMMA EnteredFailing ==
    ASSUME IInv, NEW t \in Tasks, NEW u \in Tasks, Failing(u)
    PROVE  Entered(t)
<1>1. TypeOK
  BY DEF IInv
<1> USE DEF Goto, TypeOK
<1>2. CASE WaitTimeout(u)
  BY <1>2, EnteredWaiting
<1>3. CASE SpawnFails(u)
  BY <1>1, <1>3 DEF SpawnFails, storeVars, lockVars, Entered, Quiet
<1>4. CASE Abort(u)
  BY <1>1, <1>4 DEF Abort, storeVars, lockVars, Entered, Quiet
<1>5. CASE LockFails(u)
  <2>1. CASE End(u, "blocked")
    <3>1. Quiet /\ "blocked" \in Ended
      BY <1>5 DEF LockFails, storeVars, Quiet, Ended
    <3> QED BY <2>1, <3>1, EnteredByEnd
  <2>2. CASE pc[u] = "wait" /\ Goto(u, "cleanup") /\ UNCHANGED lockVars
    BY <1>1, <1>5, <2>2 DEF LockFails, storeVars, lockVars, Entered, Quiet
  <2> QED BY <1>5, <2>1, <2>2 DEF LockFails, lockVars
<1>6. CASE Dies(u)
  <2>1. End(u, "dead") /\ Quiet /\ "dead" \in Ended
    BY <1>6 DEF Dies, storeVars, Quiet, Ended
  <2> QED BY <2>1, EnteredByEnd
<1> QED BY <1>2, <1>3, <1>4, <1>5, <1>6 DEF Failing

\* So no step does.
LEMMA EnteredNext ==
    ASSUME IInv, [Next]_vars, NEW t \in Tasks
    PROVE  Entered(t)
<1>1. TypeOK /\ (pc[t] \in Sections => lock \notin {Nobody, Canceller})
  BY SectionsExclude DEF IInv
<1>2. ASSUME NEW u \in Tasks, NEW shape, Arrive(u, shape)
      PROVE  Entered(t)
  BY <1>1, <1>2 DEF Arrive, Goto, TypeOK, Sections, Entered
<1>3. ASSUME UNCHANGED sessionVars, lock \in {Nobody, Canceller}
      PROVE  Entered(t)
  BY <1>1, <1>3 DEF sessionVars, Entered, Sections
<1>4. ASSUME UNCHANGED <<sessionVars, lockVars>>, Quiet
      PROVE  Entered(t)
  BY <1>4 DEF sessionVars, lockVars, Entered
<1>5. ASSUME NEW u \in Tasks, Cancel(u)
      PROVE  Entered(t)
  BY <1>3, <1>5 DEF Cancel, CancelWaiting, CancelLooks, CancelSignalled, CancelDies,
     CancelRecovers, CancelOwned, Aimed
<1>6. ASSUME NEW u \in Tasks, Host(u)
      PROVE  Entered(t)
  BY <1>4, <1>6 DEF Host, LaunchTimesOut, ChildEnds, PidRecycled, storeVars, Quiet
<1>7. CASE Gc \/ Observe
  BY <1>3, <1>7 DEF Gc, Observe
<1>8. CASE InventoryChanges \/ \E g \in Gpus : ExternalComes(g) \/ ExternalGoes(g)
  BY <1>4, <1>8 DEF InventoryChanges, ExternalComes, ExternalGoes, storeVars, Quiet
<1>9. CASE UNCHANGED vars
  BY <1>4, <1>9 DEF vars, storeVars, Quiet
<1> QED BY <1>2, <1>5, <1>6, <1>7, <1>8, <1>9, EnteredScheduling, EnteredWaiting,
           EnteredSupervising, EnteredFailing DEF Next

-----------------------------------------------------------------------------
(* What a step does to the database *)

\* The tasks with a row.
NonAbsent == {u \in Tasks : status[u] # "absent"}

\* The locked view describes the host and the database, and is not out of date.
ViewFresh ==
    /\ snap.gpus \in Inventories /\ snap.gpus = signature
    /\ view = [free |-> snap.gpus \ (ActiveGpus \cup snap.busy),
               external |-> snap.busy \ ActiveGpus, total |-> snap.gpus]

\* What the database says of a task.
RowInv(t) ==
    /\ status[t] \in {"absent", "queued"} => lease[t] = "none"
    /\ lease[t] = "active" => status[t] \in LeasedStatuses /\ rows[t] # {}
    /\ status[t] = "launching" => owner[t] = "none"
    /\ rows[t] \subseteq signature

\* A task row is one of the requests that arrive, and has an age of its own.
QueueInv(t) ==
    status[t] # "absent" =>
        /\ \E shape \in Shapes : request[t].min = shape.min /\ request[t].max = shape.max
        /\ request[t].created < Cardinality(NonAbsent)
        /\ \A u \in NonAbsent : request[u].created = request[t].created => u = t

\* What the database says of the session of a task.
PlaceInv(t) ==
    /\ pc[t] = "idle" => status[t] = "absent"
    /\ pc[t] \in {"raised", "done"} => status[t] \notin {"queued", "launching"}
    /\ pc[t] = "view" => snap.gpus \in Inventories
    /\ pc[t] = "allocate" => ViewFresh

DataInv ==
    /\ \A t \in Tasks : RowInv(t) /\ QueueInv(t) /\ PlaceInv(t)
    /\ present \in Inventories

\* A row is added, ...
Adds(t, shape) == pc[t] = "idle" /\ pc'[t] # "idle" /\ AddTask(t, shape)

\* ... rows end, with the leases they have, when the inventory may be replaced by
\* another one with all leased devices, ...
Ends(S) ==
    /\ Ending(S) /\ UNCHANGED request
    /\ \A t \in Tasks : t \in S => status[t] # "absent"
    /\ signature' = signature \/ \A t \in Tasks : rows'[t] \subseteq signature'

\* ... the planner's batch is inserted, ...
Plans(t) == pc[t] = "allocate" /\ Allocate(t)

\* ... a lease is claimed, or its process is replaced by the child.
Claims(t) == Claimable(t) /\ ClaimTask(t)
Binds(t) == owner[t] = "supervisor" /\ UpdateLeasePid(t)

\* One of these, or nothing the proofs look at.
Transaction ==
    \/ Quiet
    \/ \E t \in Tasks : \E shape \in Shapes : Adds(t, shape)
    \/ \E S \in SUBSET Tasks : Ends(S)
    \/ \E t \in Tasks : Plans(t) \/ Claims(t) \/ Binds(t)

\* Recovering the stale leases ends rows.
LEMMA StaleEnds ==
    ASSUME IInv, DataInv, UNCHANGED <<owner, claimed, request>>,
           RecoverStale,
           \/ UNCHANGED signature
           \/ KeptGpus \subseteq signature'
    PROVE  StaleLeases \in SUBSET Tasks /\ Ends(StaleLeases)
<1>1. Ending(StaleLeases)
  BY DEF Ending, RecoverStale, RecoveredStatus, TerminalStatuses
<1>2. ASSUME NEW t \in Tasks, t \in StaleLeases
      PROVE  status[t] # "absent"
  <2>1. lease[t] = "active"
    BY <1>2 DEF StaleLeases, ActiveLeases
  <2> QED BY <2>1 DEF DataInv, RowInv, LeasedStatuses
<1>3. ASSUME NEW t \in Tasks, KeptGpus \subseteq signature'
      PROVE  rows'[t] \subseteq signature'
  <2>1. CASE t \in StaleLeases \/ rows[t] = {}
    BY <2>1 DEF RecoverStale, ReleaseLeases
  <2>2. CASE t \notin StaleLeases /\ rows[t] # {}
    <3>1. lease[t] = "active"
      BY <2>2 DEF IInv, TaskInv, TableInv
    <3>2. rows[t] \subseteq KeptGpus
      BY <2>2, <3>1 DEF KeptGpus, KeptLeases, ActiveLeases
    <3>3. rows'[t] = rows[t]
      BY <2>2 DEF RecoverStale, ReleaseLeases
    <3> QED BY <1>3, <3>2, <3>3
  <2> QED BY <2>1, <2>2
<1>4. StaleLeases \in SUBSET Tasks
  BY DEF StaleLeases, ActiveLeases
<1> QED BY <1>1, <1>2, <1>3, <1>4 DEF Ends

\* So does cancelling an unclaimed task.
LEMMA CancelEnds ==
    ASSUME IInv, NEW t \in Tasks, CancelUnclaimed(t), Unclaimed(t), UNCHANGED claimed
    PROVE  {t} \in SUBSET Tasks /\ Ends({t})
<1>1. TypeOK
  BY DEF IInv
<1>2. Ending({t})
  BY <1>1 DEF Ending, CancelUnclaimed, TerminalStatuses, TypeOK, StoreTypeOK
<1> QED BY <1>2 DEF Ends, CancelUnclaimed, Unclaimed

\* So does the handler of an error with the session's own task, if anything.
LEMMA CancelOwnEnds ==
    ASSUME IInv, NEW t \in Tasks, CancelOwn(t), UNCHANGED claimed
    PROVE  Transaction
BY CancelEnds DEF CancelOwn, Transaction, Quiet, storeVars

\* Every step of the system is a transaction of one of these kinds.
LEMMA StepKinds ==
    ASSUME IInv, DataInv, [Next]_vars
    PROVE  Transaction
<1>1. TypeOK
  BY DEF IInv
<1>2. ASSUME UNCHANGED storeVars
      PROVE  Transaction
  BY <1>2 DEF storeVars, Transaction, Quiet
<1>3. ASSUME NEW u \in Tasks, NEW shape \in Shapes, Arrive(u, shape)
      PROVE  Transaction
  BY <1>1, <1>3 DEF Arrive, Goto, TypeOK, Transaction, Adds
<1>4. ASSUME NEW u \in Tasks, Scheduling(u)
      PROVE  Transaction
  <2>1. CASE View(u)
    BY <2>1, StaleEnds DEF View, InventoryAccepted, Transaction
  <2>2. CASE Allocate(u)
    BY <2>2 DEF Allocate, Transaction, Plans
  <2>3. CASE Claim(u)
    BY <2>3 DEF Claim, Transaction, Claims
  <2> QED BY <1>2, <1>4, <2>1, <2>2, <2>3 DEF Scheduling, Query, QueryFails, ViewFails,
             AllocateRaises, ClaimNothing
<1>5. ASSUME NEW u \in Tasks, Waiting(u) \/ WaitTimeout(u)
      PROVE  Transaction
  BY <1>2, <1>5, CancelOwnEnds DEF Waiting, Poll, PollEnded, Cleanup, WaitTimeout
<1>6. ASSUME NEW u \in Tasks, Supervising(u)
      PROVE  Transaction
  <2>1. CASE Bind(u)
    BY <2>1 DEF Bind, LeasePidUpdatable, Transaction, Binds
  <2>2. CASE Finish(u)
    <3>1. Ending({u}) /\ UNCHANGED <<request, signature>>
      BY <1>1, <2>2 DEF Finish, FinishTask, FinishedStatus, Ending, TerminalStatuses, TypeOK,
         StoreTypeOK
    <3>2. status[u] # "absent"
      BY <2>2 DEF Finish, IInv, TaskInv, SessionInv, TableInv, Supervises
    <3> QED BY <3>1, <3>2 DEF Ends, Transaction
  <2> QED BY <1>2, <1>6, <2>1, <2>2 DEF Supervising, Spawn, SetBound, Reap, FinishBusy
<1>7. ASSUME NEW u \in Tasks, Failing(u)
      PROVE  Transaction
  BY <1>2, <1>5, <1>7 DEF Failing, SpawnFails, Abort, LockFails, Dies
<1>8. ASSUME NEW u \in Tasks, Cancel(u)
      PROVE  Transaction
  <2>1. CASE CancelWaiting(u)
    BY <2>1, CancelEnds DEF CancelWaiting, sessionVars, Transaction
  <2>2. CASE CancelSignalled(u)
    <3>1. ReleaseLeases({})
      BY <1>1, <2>2 DEF CancelSignalled, ReleaseLeases, TypeOK, StoreTypeOK
    <3>2. Ending({})
      BY <1>1, <2>2, <3>1 DEF CancelSignalled, Cancelling, sessionVars, Ending,
         TypeOK, StoreTypeOK
    <3>3. Ends({})
      BY <2>2, <3>2 DEF CancelSignalled, Ends
    <3> QED BY <3>3 DEF Transaction
  <2>3. CASE CancelDies(u) \/ CancelLooks(u)
    BY <1>2, <2>3 DEF CancelDies, CancelLooks
  <2>4. CASE CancelRecovers(u)
    <3>1. Ending(StaleLeases)
      BY <1>1, <2>4 DEF CancelRecovers, Ending, Cancelling, RecoveredStatus,
         TerminalStatuses, sessionVars, TypeOK, StoreTypeOK
    <3>2. StaleLeases \in SUBSET Tasks
      BY DEF StaleLeases, ActiveLeases
    <3>3. ASSUME NEW t \in Tasks, t \in StaleLeases
          PROVE  status[t] # "absent"
      BY <3>3 DEF StaleLeases, ActiveLeases, DataInv, RowInv, LeasedStatuses
    <3> QED BY <2>4, <3>1, <3>2, <3>3 DEF CancelRecovers, Ends, Transaction
  <2> QED BY <1>8, <2>1, <2>2, <2>3, <2>4 DEF Cancel
<1>9. CASE Gc
  BY <1>9, StaleEnds DEF Gc, sessionVars, Transaction
<1>10. CASE Observe
  BY <1>10, StaleEnds DEF Observe, InventoryAccepted, sessionVars, Transaction
<1>11. ASSUME NEW u \in Tasks, Host(u)
       PROVE  Transaction
  BY <1>2, <1>11 DEF Host, LaunchTimesOut, ChildEnds, PidRecycled, Transaction, Quiet
<1>12. CASE InventoryChanges \/ \E g \in Gpus : ExternalComes(g) \/ ExternalGoes(g)
  BY <1>2, <1>12 DEF InventoryChanges, ExternalComes, ExternalGoes
<1>13. CASE UNCHANGED vars
  BY <1>2, <1>13 DEF vars
<1> QED BY <1>3, <1>4, <1>5, <1>6, <1>7, <1>8, <1>9, <1>10, <1>11, <1>12, <1>13 DEF Next

-----------------------------------------------------------------------------
(* The planner's arguments *)

\* The devices of a set, in nvidia-smi order: each of them once.
LEMMA InOrderLists ==
    ASSUME NEW S \in SUBSET Gpus
    PROVE  /\ InOrder(S) \in Seq(Gpus) /\ Len(InOrder(S)) = Cardinality(S)
           /\ Cardinality(S) \in Nat
           /\ \A i \in 1 .. Cardinality(S) : InOrder(S)[i] \in S
           /\ \A i, j \in 1 .. Cardinality(S) : InOrder(S)[i] = InOrder(S)[j] => i = j
<1> DEFINE B == [g \in S |-> {h \in S : h < g}]
           n == Cardinality(S)
<1>1. IsFiniteSet(S) /\ n \in Nat
  <2>1. 1 \in Int /\ GpuCount \in Int
    BY StoreAssumption
  <2>2. IsFiniteSet(Gpus)
    BY <2>1, FS_Interval DEF Gpus
  <2> QED BY <2>2, FS_Subset, FS_CardinalityType
<1>2. \A g \in S : g \in Int
  BY DEF Gpus
<1>3. /\ B \in [S -> SUBSET S]
      /\ \A x \in S : x \notin B[x]
      /\ \A x, y \in S : x # y => x \in B[y] \/ y \in B[x]
      /\ \A x, y \in S : x \in B[y] => B[x] \subseteq B[y]
  BY <1>2
<1>4. \A i \in 1 .. n : \E x \in S : Cardinality(B[x]) = i - 1
  <2> HIDE DEF B
  <2> QED BY <1>1, <1>3, Ranking
<1>5. ASSUME NEW i \in 1 .. n
      PROVE  InOrder(S)[i] \in S /\ Cardinality({h \in S : h < InOrder(S)[i]}) = i - 1
  <2>1. \E g \in S : Cardinality({h \in S : h < g}) = i - 1
    BY <1>4
  <2>2. InOrder(S)[i] = CHOOSE g \in S : Cardinality({h \in S : h < g}) = i - 1
    BY DEF InOrder
  <2> QED BY <2>1, <2>2
<1>6. InOrder(S) \in [1 .. n -> Gpus]
  BY <1>5 DEF InOrder
<1>7. InOrder(S) \in Seq(Gpus) /\ Len(InOrder(S)) = n
  BY <1>1, <1>6
<1>8. ASSUME NEW i \in 1 .. n, NEW j \in 1 .. n, InOrder(S)[i] = InOrder(S)[j]
      PROVE  i = j
  <2>1. i - 1 = j - 1
    BY <1>5, <1>8
  <2> QED BY <2>1
<1> QED BY <1>1, <1>5, <1>7, <1>8

\* The queue of a database whose rows are in order.
LEMMA QueueRequests ==
    ASSUME IInv, DataInv
    PROVE  /\ QueuedRequests \in SUBSET Requests(Tasks)
           /\ IsFiniteSet(QueuedRequests)
           /\ Ordered(QueuedRequests)
           /\ \A r, s \in QueuedRequests : r.id = s.id => r = s
           /\ \A r \in QueuedRequests : status[r.id] = "queued"
<1> DEFINE Q == {u \in Tasks : status[u] = "queued"}
           R(t) == [id |-> t, min |-> request[t].min, max |-> request[t].max,
                    priority |-> request[t].priority, created |-> request[t].created]
<1>1. QueuedRequests = {R(t) : t \in Q}
  BY DEF QueuedRequests
<1>2. \A t \in Tasks : request[t] \in [min : Nat \ {0}, max : Nat, priority : Int, created : Nat]
  BY DEF IInv, TypeOK, StoreTypeOK
<1>3. ASSUME NEW t \in Q
      PROVE  R(t) \in Requests(Tasks) /\ R(t).id = t /\ R(t).created = request[t].created
  BY <1>2 DEF Requests
<1>4. QueuedRequests \in SUBSET Requests(Tasks)
  BY <1>1, <1>3
<1>5. IsFiniteSet(QueuedRequests)
  <2>1. IsFiniteSet(Q)
    BY TasksAssumption, FS_Subset
  <2> DEFINE f == [t \in Q |-> R(t)]
  <2>2. f \in Surjection(Q, QueuedRequests)
    BY <1>1 DEF Surjection
  <2> HIDE DEF Q, f
  <2> QED BY <2>1, <2>2, FS_Surjection
<1>6. ASSUME NEW r \in QueuedRequests
      PROVE  r.id \in Q /\ r = R(r.id) /\ r.created = request[r.id].created
  <2>1. PICK t \in Q : r = R(t)
    BY <1>1
  <2> QED BY <1>3, <2>1
<1>7. ASSUME NEW r \in QueuedRequests, NEW s \in QueuedRequests, r.created = s.created
      PROVE  r = s
  <2> DEFINE a == r.id
             b == s.id
  <2>1. a \in Q /\ b \in Q /\ r = R(a) /\ s = R(b) /\ request[a].created = request[b].created
    BY <1>6, <1>7
  <2>2. a \in NonAbsent /\ b \in NonAbsent
    BY <2>1 DEF NonAbsent
  <2>3. QueueInv(b)
    BY <2>1 DEF DataInv
  <2> HIDE DEF a, b
  <2>4. a = b
    BY <2>1, <2>2, <2>3 DEF QueueInv
  <2> QED BY <2>1, <2>4
<1>8. Ordered(QueuedRequests)
  BY <1>4, <1>7, OrderedByAge
<1>9. ASSUME NEW r \in QueuedRequests, NEW s \in QueuedRequests, r.id = s.id
      PROVE  r = s
  <2> HIDE DEF R
  <2> QED BY <1>6, <1>9
<1> QED BY <1>4, <1>5, <1>6, <1>8, <1>9

\* Whatever the planner gives out under the lock goes to queued tasks, is free, and
\* goes to one task only.
LEMMA BatchGrants ==
    ASSUME IInv, DataInv, NEW t \in Tasks, pc[t] = "allocate",
           ~BatchRaises(view.free, view.external, view.total)
    PROVE  /\ GrantsOf(Batch) \in [Tasks -> SUBSET Gpus]
           /\ \A u \in Tasks : /\ GrantsOf(Batch)[u] \subseteq view.free
                               /\ GrantsOf(Batch)[u] # {} => status[u] = "queued"
           /\ \A u, w \in Tasks : u # w => GrantsOf(Batch)[u] \cap GrantsOf(Batch)[w] = {}
<1> DEFINE free == InOrder(view.free)
           total == Cardinality(view.total)
           plan == Batch
<1>1. view.free \in SUBSET Gpus /\ view.total \in SUBSET Gpus
  BY DEF IInv, TypeOK
<1>2. /\ free \in Seq(Gpus) /\ Len(free) = Cardinality(view.free)
      /\ \A i \in 1 .. Len(free) : free[i] \in view.free
      /\ \A i, j \in 1 .. Len(free) : free[i] = free[j] => i = j
  BY <1>1, InOrderLists
<1>3. total \in Nat
  BY <1>1, InOrderLists
<1>4. /\ QueuedRequests \in SUBSET Requests(Tasks) /\ IsFiniteSet(QueuedRequests)
      /\ Ordered(QueuedRequests)
      /\ \A r, s \in QueuedRequests : r.id = s.id => r = s
      /\ \A r \in QueuedRequests : status[r.id] = "queued"
  BY QueueRequests
<1>5. Accepted(Tasks, Gpus, free, QueuedRequests, total, Cardinality(ActiveLeases),
               Cardinality(view.external), Reserve, StrictFifo)
  BY <1>2, <1>3, <1>4, StoreAssumption DEF Accepted, BatchRaises
<1>6. IsBatch(plan, QueuedRequests, free, total)
  BY <1>5, PlanIsBatch DEF Batch, BatchPlan
<1>7. Separate(plan, QueuedRequests, free, total)
  BY <1>2, <1>4, <1>6, BatchSeparate
<1> HIDE DEF free, total, plan
<1> DEFINE grants == GrantsOf(plan)
<1>8. ASSUME NEW u \in Tasks, NEW g \in grants[u]
      PROVE  /\ g \in Gpus /\ g \in view.free /\ status[u] = "queued"
             /\ \E i \in DOMAIN plan : plan[i].id = u /\ \E k \in DOMAIN plan[i].gpus : plan[i].gpus[k] = g
  <2>1. g \in Gpus
    BY <1>8 DEF GrantsOf
  <2>2. PICK i \in DOMAIN plan : plan[i].id = u /\ \E k \in DOMAIN plan[i].gpus : plan[i].gpus[k] = g
    BY <1>8 DEF GrantsOf
  <2>3. PICK k \in DOMAIN plan[i].gpus : plan[i].gpus[k] = g
    BY <2>2
  <2>4. \E f \in 1 .. Len(free) : plan[i].gpus[k] = free[f]
    BY <1>7, <2>2, <2>3, Zenon DEF Separate
  <2>5. \E r \in QueuedRequests : plan[i].id = r.id
    BY <1>7, <2>2 DEF Separate
  <2> QED BY <1>2, <1>4, <2>1, <2>2, <2>3, <2>4, <2>5
<1>9. ASSUME NEW u \in Tasks, NEW w \in Tasks, NEW g \in grants[u] \cap grants[w]
      PROVE  u = w
  <2>1. PICK i \in DOMAIN plan : plan[i].id = u /\ \E k \in DOMAIN plan[i].gpus : plan[i].gpus[k] = g
    BY <1>8, <1>9
  <2>2. PICK j \in DOMAIN plan : plan[j].id = w /\ \E k \in DOMAIN plan[j].gpus : plan[j].gpus[k] = g
    BY <1>8, <1>9
  <2>3. i = j
    BY <1>7, <2>1, <2>2 DEF Separate
  <2> QED BY <2>1, <2>2, <2>3
<1>10. grants \in [Tasks -> SUBSET Gpus]
  BY DEF GrantsOf
<1> HIDE DEF grants
<1>11. \A u \in Tasks : grants[u] \subseteq view.free /\ (grants[u] # {} => status[u] = "queued")
  BY <1>8
<1>12. \A u, w \in Tasks : u # w => grants[u] \cap grants[w] = {}
  BY <1>9
<1> QED BY <1>10, <1>11, <1>12 DEF grants, plan

\* It is therefore inserted.
LEMMA BatchInsertable ==
    ASSUME IInv, DataInv, NEW t \in Tasks, pc[t] = "allocate",
           ~BatchRaises(view.free, view.external, view.total)
    PROVE  Insertable(GrantsOf(Batch))
<1> DEFINE grants == GrantsOf(Batch)
<1>1. /\ \A u \in Tasks : grants[u] \subseteq view.free /\ (grants[u] # {} => status[u] = "queued")
      /\ \A u, w \in Tasks : u # w => grants[u] \cap grants[w] = {}
  BY BatchGrants
<1> HIDE DEF grants
<1>2. ASSUME NEW u \in Tasks, grants[u] # {}
      PROVE  lease[u] = "none"
  BY <1>1, <1>2 DEF DataInv, RowInv
<1>3. view.free \cap ActiveGpus = {}
  BY DEF DataInv, PlaceInv, ViewFresh
<1>4. ASSUME NEW u \in Tasks, NEW w \in Tasks
      PROVE  grants[u] \cap rows[w] = {}
  <2>1. CASE rows[w] = {}
    BY <2>1
  <2>2. CASE rows[w] # {}
    <3>1. lease[w] = "active"
      BY <2>2 DEF IInv, TaskInv, TableInv
    <3>2. rows[w] \subseteq ActiveGpus
      BY <3>1 DEF ActiveGpus, ActiveLeases
    <3> QED BY <1>1, <1>3, <3>2
  <2> QED BY <2>1, <2>2
<1>5. Insertable(grants)
  BY <1>1, <1>2, <1>4 DEF Insertable
<1> QED BY <1>5 DEF grants

-----------------------------------------------------------------------------
(* The second invariant *)

\* The batch is inserted as a whole: the tasks of grants start, on the devices the
\* planner gave them.
Starts(grants) ==
    /\ grants \in [Tasks -> SUBSET Gpus]
    /\ \A u \in Tasks : grants[u] \subseteq view.free /\ (grants[u] # {} => status[u] = "queued")
    /\ Insertable(grants)
    /\ status' = [u \in Tasks |-> IF grants[u] # {} THEN "launching" ELSE status[u]]
    /\ lease' = [u \in Tasks |-> IF grants[u] # {} THEN "active" ELSE lease[u]]
    /\ rows' = [u \in Tasks |-> IF grants[u] # {} THEN grants[u] ELSE rows[u]]
    /\ UNCHANGED <<request, owner, signature>>

\* That is what a session that allocates does: it never fails.
LEMMA PlansStarts ==
    ASSUME IInv, DataInv, NEW t \in Tasks, Plans(t)
    PROVE  Starts(GrantsOf(Batch))
<1> DEFINE grants == GrantsOf(Batch)
<1>1. /\ ~BatchRaises(view.free, view.external, view.total)
      /\ pc[t] = "allocate" /\ AllocateBatch(grants)
  BY DEF Plans, Allocate
<1>2. Insertable(grants)
  BY <1>1, BatchInsertable
<1>3. /\ grants \in [Tasks -> SUBSET Gpus]
      /\ \A u \in Tasks : grants[u] \subseteq view.free /\ (grants[u] # {} => status[u] = "queued")
  BY <1>1, BatchGrants
<1> HIDE DEF grants
<1>4. /\ status' = [u \in Tasks |-> IF grants[u] # {} /\ status[u] = "queued"
                                    THEN "launching" ELSE status[u]]
      /\ lease' = [u \in Tasks |-> IF grants[u] # {} THEN "active" ELSE lease[u]]
      /\ rows' = [u \in Tasks |-> IF grants[u] # {} THEN grants[u] ELSE rows[u]]
      /\ UNCHANGED <<request, owner, signature>>
  BY <1>1, <1>2 DEF AllocateBatch
<1>5. Starts(grants)
  BY <1>2, <1>3, <1>4 DEF Starts
<1> QED BY <1>5 DEF grants

\* What is recorded of a task stays in order.
LEMMA RowsKept ==
    ASSUME IInv, DataInv, Transaction, NEW u \in Tasks
    PROVE  RowInv(u)'
<1>1. TypeOK /\ TableInv(u) /\ RowInv(u) /\ QueueInv(u) /\ PlaceInv(u)
  BY DEF IInv, TaskInv, DataInv
<1>2. CASE Quiet
  BY <1>1, <1>2 DEF Quiet, RowInv
<1>3. ASSUME NEW t \in Tasks, NEW shape \in Shapes, Adds(t, shape)
      PROVE  RowInv(u)'
  BY <1>1, <1>3 DEF Adds, AddTask, RowInv, PlaceInv, TypeOK, StoreTypeOK, LeasedStatuses
<1>4. ASSUME NEW S \in SUBSET Tasks, Ends(S)
      PROVE  RowInv(u)'
  <2>1. /\ lease' = [t \in Tasks |-> IF t \in S /\ lease[t] = "active" THEN "released" ELSE lease[t]]
        /\ rows' = [t \in Tasks |-> IF t \in S THEN {} ELSE rows[t]]
        /\ UNCHANGED owner
    BY <1>4 DEF Ends, Ending, ReleaseLeases
  <2>2. rows'[u] \subseteq signature'
    BY <1>1, <1>4, <2>1 DEF Ends, RowInv
  <2>3. CASE u \in S
    BY <1>4, <2>1, <2>2, <2>3 DEF Ends, Ending, RowInv, TerminalStatuses
  <2>4. CASE u \notin S
    BY <1>1, <1>4, <2>1, <2>2, <2>4 DEF Ends, Ending, RowInv, LeasedStatuses
  <2> QED BY <2>3, <2>4
<1>5. ASSUME NEW t \in Tasks, Plans(t)
      PROVE  RowInv(u)'
  <2> DEFINE grants == GrantsOf(Batch)
  <2>1. Starts(grants)
    BY <1>5, PlansStarts
  <2>2. view.free \subseteq signature
    BY <1>5 DEF Plans, DataInv, PlaceInv, ViewFresh
  <2> HIDE DEF grants
  <2>3. CASE grants[u] # {}
    BY <1>1, <2>1, <2>2, <2>3 DEF Starts, RowInv, TableInv, LeasedStatuses
  <2>4. CASE grants[u] = {}
    BY <1>1, <2>1, <2>2, <2>4 DEF Starts, RowInv
  <2> QED BY <2>3, <2>4
<1>6. ASSUME NEW t \in Tasks, Claims(t)
      PROVE  RowInv(u)'
  BY <1>1, <1>6 DEF Claims, Claimable, ClaimTask, RowInv, TypeOK, StoreTypeOK, LeasedStatuses
<1>7. ASSUME NEW t \in Tasks, Binds(t)
      PROVE  RowInv(u)'
  BY <1>1, <1>7 DEF Binds, UpdateLeasePid, RowInv, TypeOK, StoreTypeOK
<1> QED BY <1>2, <1>3, <1>4, <1>5, <1>6, <1>7 DEF Transaction

\* Unless a row is added, the same tasks have one; nothing starts to wait; and a task
\* is started only if it waits.
LEMMA SameTasks ==
    ASSUME IInv, DataInv, Transaction,
           \A t \in Tasks : \A shape \in Shapes : ~Adds(t, shape)
    PROVE  /\ UNCHANGED request
           /\ \A u \in Tasks :
                /\ status'[u] = "absent" <=> status[u] = "absent"
                /\ status'[u] = "queued" => status[u] = "queued"
                /\ status'[u] = "launching" => status[u] \in {"queued", "launching"}
<1>1. TypeOK /\ \A u \in Tasks : PlaceInv(u)
  BY DEF IInv, DataInv
<1>2. CASE Quiet
  BY <1>2 DEF Quiet
<1>3. ASSUME NEW S \in SUBSET Tasks, Ends(S)
      PROVE  /\ UNCHANGED request
             /\ \A u \in Tasks :
                  /\ status'[u] = "absent" <=> status[u] = "absent"
                  /\ status'[u] = "queued" => status[u] = "queued"
                  /\ status'[u] = "launching" => status[u] \in {"queued", "launching"}
  BY <1>3 DEF Ends, Ending, TerminalStatuses
<1>4. ASSUME NEW t \in Tasks, Plans(t)
      PROVE  /\ UNCHANGED request
             /\ \A u \in Tasks :
                  /\ status'[u] = "absent" <=> status[u] = "absent"
                  /\ status'[u] = "queued" => status[u] = "queued"
                  /\ status'[u] = "launching" => status[u] \in {"queued", "launching"}
  BY <1>4, PlansStarts DEF Starts
<1>5. ASSUME NEW t \in Tasks, Claims(t) \/ Binds(t)
      PROVE  /\ UNCHANGED request
             /\ \A u \in Tasks :
                  /\ status'[u] = "absent" <=> status[u] = "absent"
                  /\ status'[u] = "queued" => status[u] = "queued"
                  /\ status'[u] = "launching" => status[u] \in {"queued", "launching"}
  BY <1>1, <1>5 DEF Claims, Claimable, ClaimTask, Binds, UpdateLeasePid, TypeOK, StoreTypeOK
<1> QED BY <1>2, <1>3, <1>4, <1>5 DEF Transaction

\* A new request is younger than all others.
LEMMA QueueKept ==
    ASSUME IInv, DataInv, Transaction, NEW u \in Tasks
    PROVE  QueueInv(u)'
<1>1. TypeOK /\ \A w \in Tasks : QueueInv(w) /\ PlaceInv(w)
  BY DEF IInv, DataInv
<1>2. CASE \A t \in Tasks : \A shape \in Shapes : ~Adds(t, shape)
  <2>1. UNCHANGED request /\ \A w \in Tasks : status'[w] = "absent" <=> status[w] = "absent"
    BY <1>2, SameTasks
  <2>2. NonAbsent' = NonAbsent
    BY <2>1 DEF NonAbsent
  <2> QED BY <1>1, <2>1, <2>2 DEF QueueInv
<1>3. ASSUME NEW t \in Tasks, NEW shape \in Shapes, Adds(t, shape)
      PROVE  QueueInv(u)'
  <2> DEFINE age == Cardinality(NonAbsent)
  <2>1. /\ IsFiniteSet(NonAbsent) /\ age \in Nat
    BY TasksAssumption, FS_Subset, FS_CardinalityType DEF NonAbsent
  <2>2. status[t] = "absent"
    BY <1>1, <1>3 DEF Adds, PlaceInv
  <2>3. /\ status' = [status EXCEPT ![t] = "queued"]
        /\ request' = [request EXCEPT ![t] =
                         [min |-> shape.min, max |-> shape.max,
                          priority |-> shape.priority, created |-> age]]
    BY <1>3 DEF Adds, AddTask, NonAbsent
  <2>4. NonAbsent' = NonAbsent \cup {t} /\ t \notin NonAbsent
    BY <1>1, <2>2, <2>3 DEF NonAbsent, TypeOK, StoreTypeOK
  <2>5. Cardinality(NonAbsent') = age + 1
    BY <2>1, <2>4, FS_AddElement
  <2>6. \A w \in Tasks : request[w].created \in Nat
    BY <1>1 DEF TypeOK, StoreTypeOK
  <2>7. \A w \in Tasks : w # t => request'[w] = request[w]
    BY <1>1, <2>3 DEF TypeOK, StoreTypeOK
  <2>8. /\ request'[t].min = shape.min /\ request'[t].max = shape.max
        /\ request'[t].created = age
    BY <1>1, <2>3 DEF TypeOK, StoreTypeOK
  <2>9. \A w \in NonAbsent : w \in Tasks /\ QueueInv(w) /\ request[w].created < age
    BY <1>1 DEF NonAbsent, QueueInv
  <2> HIDE DEF age
  <2>10. CASE u = t
    <3>1. ASSUME NEW w \in NonAbsent', request'[w].created = age
          PROVE  w = t
      <4>1. CASE w \in NonAbsent
        <5>1. w # t /\ request'[w].created = request[w].created
          BY <2>4, <2>7, <2>9, <4>1
        <5> QED BY <2>1, <2>6, <2>9, <3>1, <4>1, <5>1
      <4> QED BY <2>4, <4>1
    <3>2. request'[t].created < Cardinality(NonAbsent')
      BY <2>1, <2>5, <2>8
    <3> QED BY <2>8, <2>10, <3>1, <3>2 DEF QueueInv
  <2>11. CASE u # t
    <3> SUFFICES ASSUME status'[u] # "absent" PROVE QueueInv(u)'
      BY DEF QueueInv
    <3>1. u \in NonAbsent /\ request'[u] = request[u]
      BY <1>1, <2>3, <2>7, <2>11 DEF NonAbsent, TypeOK, StoreTypeOK
    <3>2. request[u].created < age /\ request[u].created \in Nat
      BY <2>6, <2>9, <3>1
    <3>3. ASSUME NEW w \in NonAbsent', request'[w].created = request[u].created
          PROVE  w = u
      <4>1. w # t
        BY <2>1, <2>8, <3>2, <3>3
      <4>2. w \in NonAbsent /\ request'[w] = request[w]
        BY <2>4, <2>7, <2>9, <4>1
      <4> QED BY <2>9, <3>1, <3>3, <4>2 DEF QueueInv, NonAbsent
    <3>4. request'[u].created < Cardinality(NonAbsent')
      BY <2>1, <2>5, <3>1, <3>2
    <3>5. \E s \in Shapes : request'[u].min = s.min /\ request'[u].max = s.max
      BY <2>9, <3>1, ZenonT(30) DEF QueueInv, NonAbsent
    <3> QED BY <3>1, <3>3, <3>4, <3>5 DEF QueueInv
  <2> QED BY <2>10, <2>11
<1> QED BY <1>2, <1>3

\* A session that has returned or raised has no unclaimed request left, and the view is as
\* fresh as the lock promises.
LEMMA PlaceKept ==
    ASSUME IInv, DataInv, [Next]_vars, NEW u \in Tasks
    PROVE  PlaceInv(u)'
<1>1. TypeOK /\ PlaceInv(u) /\ RowInv(u) /\ TableInv(u) /\ SessionInv(u) /\ present \in Inventories
  BY DEF IInv, TaskInv, DataInv
<1>2. Transaction /\ Entered(u)
  BY StepKinds, EnteredNext
<1>3. pc'[u] = "idle" => status'[u] = "absent"
  <2> SUFFICES ASSUME pc'[u] = "idle" PROVE status'[u] = "absent"
    OBVIOUS
  <2>1. pc[u] = "idle" /\ status[u] = "absent"
    BY <1>1, <1>2 DEF Entered, PlaceInv
  <2>2. CASE \A t \in Tasks : \A shape \in Shapes : ~Adds(t, shape)
    BY <1>2, <2>1, <2>2, SameTasks
  <2>3. ASSUME NEW t \in Tasks, NEW shape \in Shapes, Adds(t, shape)
        PROVE  status'[u] = "absent"
    BY <1>1, <2>1, <2>3 DEF Adds, AddTask, TypeOK, StoreTypeOK
  <2> QED BY <2>2, <2>3
<1>4. pc'[u] \in {"raised", "done"} => status'[u] \notin {"queued", "launching"}
  <2> SUFFICES ASSUME pc'[u] \in {"raised", "done"} PROVE status'[u] \notin {"queued", "launching"}
    OBVIOUS
  <2>1. CASE pc[u] \in {"raised", "done"}
    <3>1. status[u] \notin {"queued", "launching"}
      BY <1>1, <2>1 DEF PlaceInv
    <3>2. CASE \A t \in Tasks : \A shape \in Shapes : ~Adds(t, shape)
      BY <1>2, <3>1, <3>2, SameTasks
    <3>3. ASSUME NEW t \in Tasks, NEW shape \in Shapes, Adds(t, shape)
          PROVE  status'[u] \notin {"queued", "launching"}
      <4>1. t # u
        BY <2>1, <3>3 DEF Adds
      <4> QED BY <1>1, <3>1, <3>3, <4>1 DEF Adds, AddTask, TypeOK, StoreTypeOK
    <3> QED BY <3>2, <3>3
  <2>2. CASE Cleanup(u)
    <3>1. owner[u] = "none" /\ CancelOwn(u)
      BY <1>1, <2>2 DEF Cleanup, SessionInv, Waits
    <3> QED BY <1>1, <3>1 DEF CancelOwn, Unclaimed, CancelUnclaimed, TypeOK, StoreTypeOK, storeVars
  <2>3. CASE FinishBusy(u)
    <3>1. owner[u] # "none" /\ UNCHANGED status
      BY <1>1, <2>3 DEF FinishBusy, SessionInv, Supervises, storeVars
    <3> QED BY <1>1, <3>1 DEF TableInv, RowInv
  <2>4. CASE PollEnded(u) \/ Finish(u)
    BY <1>1, <2>4 DEF PollEnded, Finish, FinishTask, FinishedStatus, TerminalStatuses, storeVars,
       TypeOK, StoreTypeOK
  <2> QED BY <1>2, <2>1, <2>2, <2>3, <2>4 DEF Entered
<1>5. pc'[u] = "view" => snap'.gpus \in Inventories
  BY <1>1, <1>2 DEF Entered, PlaceInv, Query
<1>6. pc'[u] = "allocate" => ViewFresh'
  <2>1. CASE View(u)
    <3>1. /\ snap' = snap /\ signature' = snap.gpus /\ view' = ViewOf(snap)
          /\ snap.gpus \in Inventories /\ RecoverStale
      BY <1>1, <2>1 DEF View, PlaceInv
    <3>2. \A t \in Tasks : /\ rows'[t] = IF t \in StaleLeases THEN {} ELSE rows[t]
                           /\ lease'[t] = IF t \in StaleLeases THEN "released" ELSE lease[t]
      BY <3>1 DEF RecoverStale, ReleaseLeases, StaleLeases, ActiveLeases
    <3>3. ActiveGpus' = KeptGpus
      BY <3>2 DEF ActiveGpus, ActiveLeases, KeptGpus, KeptLeases
    <3> QED BY <3>1, <3>3 DEF ViewFresh, ViewOf
  <2>2. CASE pc[u] = "allocate" /\ Quiet /\ UNCHANGED <<snap, view>>
    <3>1. ViewFresh
      BY <1>1, <2>2 DEF PlaceInv
    <3>2. ActiveGpus' = ActiveGpus
      BY <2>2 DEF Quiet, ActiveGpus, ActiveLeases
    <3> QED BY <2>2, <3>1, <3>2 DEF ViewFresh, Quiet
  <2> QED BY <1>2, <2>1, <2>2 DEF Entered
<1> QED BY <1>3, <1>4, <1>5, <1>6 DEF PlaceInv

\* The driver reports one of the inventories.
LEMMA PresentKept ==
    ASSUME IInv, DataInv, [Next]_vars
    PROVE  present' \in Inventories
<1>1. present \in Inventories
  BY DEF DataInv
<1>2. CASE InventoryChanges
  BY <1>2 DEF InventoryChanges
<1>3. CASE UNCHANGED present
  BY <1>1, <1>3
<1> QED BY <1>2, <1>3, ZenonT(30) DEF Next, vars, hostVars, Arrive, Scheduling, Query, QueryFails, View,
           ViewFails, Allocate, AllocateRaises, Claim, ClaimNothing, Waiting, Poll, PollEnded,
           Cleanup, Supervising, Spawn, Bind, SetBound, Reap, Finish, FinishBusy, Failing,
           WaitTimeout, SpawnFails, Abort, LockFails, Dies, Cancel, CancelWaiting,
           CancelLooks, CancelSignalled, CancelDies, CancelRecovers, Host, LaunchTimesOut, ChildEnds,
           PidRecycled, Gc, Observe, ExternalComes, ExternalGoes

\* An empty database is in order.
LEMMA InitData == Init => DataInv
<1> SUFFICES ASSUME Init PROVE DataInv
  OBVIOUS
<1>1. ASSUME NEW t \in Tasks
      PROVE  RowInv(t) /\ QueueInv(t) /\ PlaceInv(t)
  BY DEF Init, StoreInit, RowInv, QueueInv, PlaceInv, LeasedStatuses
<1> QED BY <1>1 DEF Init, DataInv

\* Whatever sessions, commands and the host do, in whatever order: task rows and lease
\* rows agree, leased devices are in the recorded inventory, and the view a session
\* plans from is still true when it plans.
THEOREM DataInvariant == Spec => []DataInv
<1>1. IInv /\ DataInv /\ [Next]_vars => DataInv'
  <2> SUFFICES ASSUME IInv, DataInv, [Next]_vars PROVE DataInv'
    OBVIOUS
  <2>1. \A t \in Tasks : RowInv(t)' /\ QueueInv(t)' /\ PlaceInv(t)'
    BY StepKinds, RowsKept, QueueKept, PlaceKept
  <2> QED BY <2>1, PresentKept DEF DataInv
<1> QED BY <1>1, InitData, Invariant, PTL DEF Spec

-----------------------------------------------------------------------------
(* What follows from both invariants *)

\* The task row and the lease row of a task agree.
THEOREM StatusMatchesLeaseAlways == Spec => []StatusMatchesLease
<1>1. IInv /\ DataInv => StatusMatchesLease
  <2> SUFFICES ASSUME IInv, DataInv, NEW t \in Tasks
               PROVE  /\ status[t] \in LeasedStatuses <=> lease[t] = "active"
                      /\ lease[t] = "active" <=> rows[t] # {}
                      /\ lease[t] = "active" => (owner[t] = "none" <=> status[t] = "launching")
    BY DEF StatusMatchesLease
  <2>1. TableInv(t) /\ RowInv(t)
    BY DEF IInv, TaskInv, DataInv
  <2> QED BY <2>1 DEF TableInv, RowInv, LeasedStatuses
<1> QED BY <1>1, Invariant, DataInvariant, PTL

\* Devices under an active lease are in the recorded inventory, however devices come
\* and go.
THEOREM LeasesInInventoryAlways == Spec => []LeasesInInventory
<1>1. DataInv => LeasesInInventory
  BY DEF DataInv, RowInv, LeasesInInventory, ActiveGpus, ActiveLeases
<1> QED BY <1>1, DataInvariant, PTL

\* No batch planned under the lock runs into the UNIQUE constraints: processes and
\* devices may change between the view and the allocation, the database does not.
THEOREM BatchAcceptedAlways == Spec => []BatchAccepted
<1>1. IInv /\ DataInv => BatchAccepted
  BY BatchInsertable DEF BatchAccepted
<1> QED BY <1>1, Invariant, DataInvariant, PTL

\* A device is given out only if the snapshot taken under the same lock lists it with
\* neither a process nor a lease, and the snapshot is the recorded inventory.
THEOREM OnlyFreeDevicesAlways == Spec => OnlyFreeDevices
<1>1. ASSUME IInv, DataInv, [Next]_vars, NEW t \in Tasks, NEW g \in rows'[t] \ rows[t]
      PROVE  g \in snap.gpus \ (snap.busy \cup ActiveGpus) /\ snap.gpus = signature
  <2>1. Transaction /\ TypeOK
    BY <1>1, StepKinds DEF IInv
  <2>2. ~Quiet /\ ~(\E u \in Tasks : Claims(u) \/ Binds(u))
    BY <1>1 DEF Quiet, Claims, ClaimTask, Binds, UpdateLeasePid
  <2>3. ~(\E u \in Tasks : \E shape \in Shapes : Adds(u, shape))
    BY <1>1 DEF Adds, AddTask
  <2>4. ~(\E S \in SUBSET Tasks : Ends(S))
    BY <1>1 DEF Ends, Ending, ReleaseLeases
  <2>5. PICK u \in Tasks : Plans(u)
    BY <2>1, <2>2, <2>3, <2>4 DEF Transaction
  <2>6. g \in view.free
    BY <1>1, <2>5, PlansStarts DEF Starts
  <2>7. ViewFresh
    BY <1>1, <2>5 DEF Plans, DataInv, PlaceInv
  <2> QED BY <2>6, <2>7 DEF ViewFresh
<1>2. IInv /\ DataInv /\ [Next]_vars =>
        [\A t \in Tasks : \A g \in rows'[t] \ rows[t] :
           /\ g \in snap.gpus \ (snap.busy \cup ActiveGpus)
           /\ snap.gpus = signature]_vars
  BY <1>1
<1> QED BY <1>2, Invariant, DataInvariant, PTL DEF Spec, OnlyFreeDevices

\* What the lease table makes of a status.
LEMMA PhaseOf ==
    /\ Phase("absent") = "new" /\ Phase("queued") = "waiting"
    /\ \A s \in LeasedStatuses : Phase(s) = "holding"
    /\ \A s \in TerminalStatuses : Phase(s) = "over"
BY DEF Phase, LeasedStatuses, TerminalStatuses

\* A transaction is one step of the lease table, or none.
LEMMA TransactionRefines ==
    ASSUME IInv, DataInv, Transaction
    PROVE  [Table!Next]_(Table!vars)
<1> DEFINE phase == [t \in Tasks |-> Phase(status[t])]
           phaseNext == [t \in Tasks |-> Phase(status'[t])]
<1>1. TypeOK /\ \A t \in Tasks : TableInv(t) /\ RowInv(t) /\ PlaceInv(t)
  BY DEF IInv, TaskInv, DataInv
<1>2. CASE Quiet
  BY <1>2 DEF Quiet, Table!vars
<1>3. ASSUME NEW t \in Tasks, NEW shape \in Shapes, Adds(t, shape)
      PROVE  Table!Ask(t)
  <2>1. status[t] = "absent" /\ UNCHANGED rows /\ status' = [status EXCEPT ![t] = "queued"]
    BY <1>1, <1>3 DEF Adds, AddTask, PlaceInv
  <2>2. phase[t] = "new" /\ phaseNext = [phase EXCEPT ![t] = "waiting"]
    BY <1>1, <2>1, PhaseOf DEF TypeOK, StoreTypeOK
  <2> QED BY <2>1, <2>2 DEF Table!Ask
<1>4. ASSUME NEW S \in SUBSET Tasks, Ends(S)
      PROVE  Table!Drop
  <2> DEFINE D == {t \in S : phase[t] \in {"waiting", "holding"}}
  <2>1. ASSUME NEW t \in Tasks
        PROVE  /\ phaseNext[t] = IF t \in D THEN "over" ELSE phase[t]
               /\ rows'[t] = IF t \in D THEN {} ELSE rows[t]
    <3>1. /\ rows'[t] = IF t \in S THEN {} ELSE rows[t]
          /\ t \in S => status'[t] \in TerminalStatuses /\ status[t] # "absent"
          /\ t \notin S => \/ status'[t] = status[t]
                           \/ status[t] = "running" /\ status'[t] = "cancelling"
      BY <1>4 DEF Ends, Ending, ReleaseLeases
    <3>2. CASE t \in D
      BY <3>1, <3>2, PhaseOf
    <3>3. CASE t \in S /\ t \notin D
      <4>1. status[t] \in TerminalStatuses
        BY <1>1, <3>1, <3>3, PhaseOf DEF TypeOK, StoreTypeOK, Statuses
      <4>2. rows[t] = {}
        BY <1>1, <4>1 DEF TableInv, RowInv, TerminalStatuses, LeasedStatuses
      <4> QED BY <3>1, <3>3, <4>1, <4>2, PhaseOf
    <3>4. CASE t \notin S
      BY <3>1, <3>4, PhaseOf DEF LeasedStatuses
    <3> QED BY <3>2, <3>3, <3>4
  <2>2. rows' \in [Tasks -> SUBSET Gpus] /\ rows' = [t \in Tasks |-> rows'[t]]
    BY <1>1, <1>4 DEF Ends, Ending, ReleaseLeases, TypeOK, StoreTypeOK
  <2>3. D \in SUBSET {t \in Tasks : phase[t] \in {"waiting", "holding"}}
    OBVIOUS
  <2>4. /\ phaseNext = [t \in Tasks |-> IF t \in D THEN "over" ELSE phase[t]]
        /\ rows' = [t \in Tasks |-> IF t \in D THEN {} ELSE rows[t]]
    <3> HIDE DEF D
    <3> QED BY <2>1, <2>2
  <2> HIDE DEF D
  <2> QED BY <2>3, <2>4 DEF Table!Drop
<1>5. ASSUME NEW t \in Tasks, Plans(t)
      PROVE  Table!Grant
  <2> DEFINE grants == GrantsOf(Batch)
  <2>1. Starts(grants)
    BY <1>5, PlansStarts
  <2> HIDE DEF grants
  <2>2. /\ grants \in [Tasks -> SUBSET Gpus]
        /\ \A u \in Tasks : grants[u] # {} => phase[u] = "waiting"
        /\ \A u, w \in Tasks : /\ grants[u] \cap rows[w] = {}
                               /\ u # w => grants[u] \cap grants[w] = {}
    BY <2>1, PhaseOf DEF Starts, Insertable
  <2>3. phaseNext = [u \in Tasks |-> IF grants[u] # {} THEN "holding" ELSE phase[u]]
    BY <2>1, PhaseOf DEF Starts, LeasedStatuses
  <2>4. rows' = [u \in Tasks |-> IF grants[u] # {} THEN grants[u] ELSE rows[u]]
    BY <2>1 DEF Starts
  <2> QED BY <2>2, <2>3, <2>4 DEF Table!Grant
<1>6. ASSUME NEW t \in Tasks, Claims(t) \/ Binds(t)
      PROVE  UNCHANGED Table!vars
  <2>1. UNCHANGED rows /\ (status' = status \/ (/\ status[t] \in {"launching", "running"}
                                                /\ status' = [status EXCEPT ![t] = "running"]))
    BY <1>6 DEF Claims, Claimable, ClaimTask, Binds, UpdateLeasePid
  <2>2. phaseNext = phase
    BY <1>1, <2>1, PhaseOf DEF TypeOK, StoreTypeOK, LeasedStatuses
  <2> QED BY <2>1, <2>2 DEF Table!vars
<1> QED BY <1>2, <1>3, <1>4, <1>5, <1>6 DEF Transaction, Table!Next

\* The database of a host under GPU Steward, whatever sessions crash and whatever the
\* planner plans, is a lease table: a task asks once, gets its devices by one atomic
\* and exclusive grant, and gives all of them back at once.
THEOREM LeaseTableImplemented == Spec => ImplementsLeaseTable
<1>1. Init => Table!Init
  BY PhaseOf DEF Init, StoreInit, Table!Init
<1>2. IInv /\ DataInv /\ [Next]_vars => [Table!Next]_(Table!vars)
  BY StepKinds, TransactionRefines
<1> QED BY <1>1, <1>2, Invariant, DataInvariant, PTL DEF Spec, ImplementsLeaseTable, Table!Spec

-----------------------------------------------------------------------------
(* The lease table *)

\* The types are needed to speak of the devices of a task.
HoldersInv == Table!TypeOK /\ Table!Exclusive

\* What the abstract table promises is a consequence of its own steps: a grant
\* takes only what nobody holds, and who ends gives all back.
LEMMA TableKeepsHolders == HoldersInv /\ [Table!Next]_(Table!vars) => HoldersInv'
<1> DEFINE phase == [t \in Tasks |-> Phase(status[t])]
           phaseNext == [t \in Tasks |-> Phase(status'[t])]
           Holders(ph, held) ==
             /\ ph \in [Tasks -> Table!Phases] /\ held \in [Tasks -> SUBSET Gpus]
             /\ \A t, u \in Tasks : t # u => held[t] \cap held[u] = {}
             /\ \A t \in Tasks : held[t] # {} <=> ph[t] = "holding"
<1> SUFFICES ASSUME Holders(phase, rows), [Table!Next]_(Table!vars)
             PROVE  Holders(phaseNext, rows')
  BY DEF HoldersInv, Table!TypeOK, Table!Exclusive
<1> HIDE DEF phase, phaseNext
<1> USE DEF Table!Phases
<1>1. ASSUME NEW t \in Tasks, phase[t] = "new", phaseNext = [phase EXCEPT ![t] = "waiting"],
             rows' = rows
      PROVE  Holders(phaseNext, rows')
  BY <1>1
<1>2. ASSUME NEW given \in [Tasks -> SUBSET Gpus],
             \A t \in Tasks : given[t] # {} => phase[t] = "waiting",
             \A t, u \in Tasks : /\ given[t] \cap rows[u] = {}
                                 /\ t # u => given[t] \cap given[u] = {},
             phaseNext = [t \in Tasks |-> IF given[t] # {} THEN "holding" ELSE phase[t]],
             rows' = [t \in Tasks |-> IF given[t] # {} THEN given[t] ELSE rows[t]]
      PROVE  Holders(phaseNext, rows')
  <2>1. phaseNext \in [Tasks -> Table!Phases] /\ rows' \in [Tasks -> SUBSET Gpus]
    BY <1>2
  <2>2. \A t, u \in Tasks : t # u => rows'[t] \cap rows'[u] = {}
    BY <1>2
  <2>3. \A t \in Tasks : rows'[t] # {} <=> phaseNext[t] = "holding"
    BY <1>2
  <2> QED BY <2>1, <2>2, <2>3
<1>3. ASSUME NEW S \in SUBSET {t \in Tasks : phase[t] \in {"waiting", "holding"}},
             phaseNext = [t \in Tasks |-> IF t \in S THEN "over" ELSE phase[t]],
             rows' = [t \in Tasks |-> IF t \in S THEN {} ELSE rows[t]]
      PROVE  Holders(phaseNext, rows')
  BY <1>3
<1>4. ASSUME phaseNext = phase, rows' = rows
      PROVE  Holders(phaseNext, rows')
  BY <1>4
<1> HIDE DEF Holders
<1> QED
  <2>1. CASE \E t \in Tasks : Table!Ask(t)
    BY <2>1, <1>1 DEF Table!Ask, phase, phaseNext
  <2>2. CASE Table!Grant
    BY <2>2, <1>2 DEF Table!Grant, phase, phaseNext
  <2>3. CASE Table!Drop
    BY <2>3, <1>3 DEF Table!Drop, phase, phaseNext
  <2>4. CASE UNCHANGED Table!vars
    BY <2>4, <1>4 DEF Table!vars, phase, phaseNext
  <2> QED BY <2>1, <2>2, <2>3, <2>4 DEF Table!Next

\* In the table that the database implements no device has two holders, and a
\* task has devices exactly while it is between its grant and its end.
THEOREM TableExclusive == Table!Spec => []Table!Exclusive
<1>1. Table!Init => HoldersInv
  BY DEF Table!Init, HoldersInv, Table!TypeOK, Table!Exclusive, Table!Phases
<1>2. HoldersInv => Table!Exclusive
  BY DEF HoldersInv
<1> QED BY <1>1, <1>2, TableKeepsHolders, PTL DEF Table!Spec

-----------------------------------------------------------------------------
(* Calls, outcomes and cancels *)

\* The store accepts what a session calls it with: a lease that was granted to it is
\* still its own when it claims it, and still names it when its child is recorded.
THEOREM CallsAcceptedAlways == Spec => []CallsAccepted
<1>1. IInv => CallsAccepted
  <2> SUFFICES ASSUME IInv, NEW t \in Tasks
               PROVE  /\ pc[t] = "claim" /\ status[t] \in {"launching", "running"} =>
                           lease[t] = "active" /\ owner[t] = "none"
                      /\ pc[t] = "bind" => LeasePidUpdatable(t)
    BY DEF CallsAccepted
  <2>1. SessionInv(t) /\ TableInv(t) /\ CoverInv(t)
    BY DEF IInv, TaskInv
  <2> QED BY <2>1 DEF SessionInv, TableInv, CoverInv, Needed, LeasePidUpdatable, Waits, Sections,
             LeasedStatuses
<1> QED BY <1>1, Invariant, PTL

\* A cancelled task ends in no other outcome, and an outcome is rewritten at most by
\* the task's own session.
Holds(t) ==
    /\ status[t] = "cancelling" => status'[t] \in {"cancelling", "cancelled"}
    /\ status[t] \in TerminalStatuses => status'[t] = status[t] \/ Finish(t)

\* recover_stale ends no task that has ended.
LEMMA RecoverHolds ==
    ASSUME DataInv, RecoverStale, NEW t \in Tasks
    PROVE  Holds(t)
<1>1. status[t] \in TerminalStatuses => t \notin StaleLeases
  BY DEF DataInv, RowInv, StaleLeases, ActiveLeases, TerminalStatuses, LeasedStatuses
<1> QED BY <1>1 DEF RecoverStale, RecoveredStatus, Holds

\* Nor does any other step.
LEMMA NextHolds ==
    ASSUME IInv, DataInv, Next, NEW t \in Tasks
    PROVE  Holds(t)
<1>1. TaskInv(t) /\ TypeOK /\ RowInv(t) /\ PlaceInv(t)
  BY DEF IInv, DataInv
<1>2. /\ status[t] = "cancelling" => owner[t] # "none" /\ pc[t] # "idle"
      /\ status[t] \in TerminalStatuses => pc[t] # "idle" /\ t \notin StaleLeases
  BY <1>1 DEF TaskInv, TableInv, SessionInv, PlaceInv, RowInv, StaleLeases, ActiveLeases,
     TerminalStatuses, LeasedStatuses
<1> USE DEF TypeOK, StoreTypeOK, TerminalStatuses
<1>3. ASSUME NEW u \in Tasks, NEW shape \in Shapes, Arrive(u, shape)
      PROVE  Holds(t)
  BY <1>1, <1>2, <1>3 DEF Arrive, AddTask, Holds
<1>4. ASSUME UNCHANGED status
      PROVE  Holds(t)
  BY <1>4 DEF Holds
<1>5. ASSUME NEW u \in Tasks, Scheduling(u)
      PROVE  Holds(t)
  <2>1. CASE View(u)
    BY <2>1, RecoverHolds DEF View
  <2>2. CASE Allocate(u)
    BY <1>1, <2>2 DEF Allocate, AllocateBatch, Holds
  <2>3. CASE Claim(u)
    BY <1>1, <2>3 DEF Claim, Claimable, ClaimTask, Holds
  <2> QED BY <1>4, <1>5, <2>1, <2>2, <2>3 DEF Scheduling, Query, QueryFails, ViewFails,
             AllocateRaises, ClaimNothing, storeVars
<1>6. ASSUME NEW u \in Tasks, Unclaimed(u), CancelUnclaimed(u)
      PROVE  Holds(t)
  BY <1>1, <1>6 DEF Unclaimed, CancelUnclaimed, Holds
<1>7. ASSUME NEW u \in Tasks, Waiting(u) \/ WaitTimeout(u)
      PROVE  Holds(t)
  BY <1>4, <1>6, <1>7 DEF Waiting, Poll, PollEnded, Cleanup, WaitTimeout, CancelOwn, storeVars
<1>8. ASSUME NEW u \in Tasks, Supervising(u)
      PROVE  Holds(t)
  <2>1. CASE Finish(u)
    BY <1>1, <2>1 DEF Finish, FinishTask, FinishedStatus, Holds
  <2> QED BY <1>4, <1>8, <2>1 DEF Supervising, Spawn, Bind, UpdateLeasePid, SetBound, Reap,
             FinishBusy, storeVars
<1>9. ASSUME NEW u \in Tasks, Failing(u)
      PROVE  Holds(t)
  BY <1>4, <1>7, <1>9 DEF Failing, SpawnFails, Abort, LockFails, Dies, storeVars
<1>10. ASSUME NEW u \in Tasks, Cancel(u)
       PROVE  Holds(t)
  <2>1. CASE CancelSignalled(u)
    BY <1>1, <2>1 DEF CancelSignalled, Cancelling, Holds
  <2>2. CASE CancelRecovers(u)
    BY <1>1, <1>2, <2>2 DEF CancelRecovers, Cancelling, RecoveredStatus, Holds
  <2> QED BY <1>4, <1>6, <1>10, <2>1, <2>2 DEF Cancel, CancelWaiting, CancelLooks, CancelDies,
             storeVars
<1>11. CASE Gc \/ Observe
  BY <1>11, RecoverHolds DEF Gc, Observe
<1>12. ASSUME NEW u \in Tasks, Host(u)
       PROVE  Holds(t)
  BY <1>4, <1>12 DEF Host, LaunchTimesOut, ChildEnds, PidRecycled, storeVars
<1>13. CASE InventoryChanges \/ \E g \in Gpus : ExternalComes(g) \/ ExternalGoes(g)
  BY <1>4, <1>13 DEF InventoryChanges, ExternalComes, ExternalGoes, storeVars
<1> QED BY <1>3, <1>5, <1>7, <1>8, <1>9, <1>10, <1>11, <1>12, <1>13 DEF Next

\* A cancel under way ends as cancelled; and no cancel, gc, timeout or other session
\* rewrites an outcome: the task's own session may, once, as it returns, after somebody
\* has recovered its lease, and the lease stays released.
THEOREM OutcomesHoldAlways == Spec => OutcomesHold
<1>1. ASSUME IInv, DataInv, Next, NEW t \in Tasks,
             status[t] \in TerminalStatuses, status'[t] # status[t]
      PROVE  /\ pc[t] = "finish" /\ pc'[t] = "done"
             /\ status'[t] \in TerminalStatuses
             /\ lease[t] = "released" /\ lease'[t] = "released"
  <2>1. Finish(t)
    BY <1>1, NextHolds DEF Holds
  <2>2. TaskInv(t) /\ TypeOK /\ RowInv(t)
    BY <1>1 DEF IInv, DataInv
  <2>3. lease[t] = "released"
    BY <1>1, <2>1, <2>2 DEF Finish, TaskInv, SessionInv, TableInv, RowInv, Supervises,
       TerminalStatuses, LeasedStatuses, TypeOK, StoreTypeOK
  <2> QED BY <2>1, <2>2, <2>3 DEF Finish, FinishTask, FinishedStatus, ReleaseLeases, End, Goto,
             TerminalStatuses, TypeOK, StoreTypeOK
<1>2. IInv /\ DataInv /\ [Next]_vars =>
        [\A t \in Tasks :
           /\ status[t] = "cancelling" => status'[t] \in {"cancelling", "cancelled"}
           /\ status[t] \in TerminalStatuses /\ status'[t] # status[t] =>
                /\ pc[t] = "finish" /\ pc'[t] = "done"
                /\ status'[t] \in TerminalStatuses
                /\ lease[t] = "released" /\ lease'[t] = "released"]_vars
  BY <1>1, NextHolds DEF Holds
<1> QED BY <1>2, Invariant, DataInvariant, PTL DEF Spec, OutcomesHold

\* The lease names a process that nobody can signal: a supervisor without a group of
\* its own or, without /proc, a pid that was given away.
Unreachable(t) ==
    \/ owner[t] = "supervisor" /\ t \notin Leaders
    \/ ~ProcFs /\ ProcessState(t, owner[t]) = "reused"

\* A step that marks a running task signals the process in its lease, if it can.
LEMMA NextSignals ==
    ASSUME IInv, Next, NEW t \in Tasks, status[t] = "running", status'[t] = "cancelling"
    PROVE  <<t, owner[t]>> \in signalled' \/ Unreachable(t)
<1>1. TaskInv(t) /\ TypeOK
  BY DEF IInv
<1>2. lease[t] = "active" /\ owner[t] # "none" /\ pc[t] # "idle"
  BY <1>1 DEF TaskInv, TableInv, SessionInv, LeasedStatuses
<1> USE DEF storeVars, TypeOK, StoreTypeOK
<1>3. ASSUME NEW u \in Tasks, NEW shape \in Shapes, Arrive(u, shape)
      PROVE  FALSE
  BY <1>1, <1>2, <1>3 DEF Arrive, AddTask
<1>4. ASSUME RecoverStale
      PROVE  FALSE
  BY <1>4 DEF RecoverStale, RecoveredStatus
<1>5. ASSUME NEW u \in Tasks, Scheduling(u)
      PROVE  FALSE
  <2>1. CASE Allocate(u)
    BY <1>1, <2>1 DEF Allocate, AllocateBatch
  <2>2. CASE Claim(u)
    BY <1>1, <2>2 DEF Claim, Claimable, ClaimTask
  <2> QED BY <1>4, <1>5, <2>1, <2>2 DEF Scheduling, Query, QueryFails, View, ViewFails,
             AllocateRaises, ClaimNothing
<1>6. ASSUME NEW u \in Tasks, Waiting(u) \/ WaitTimeout(u)
      PROVE  FALSE
  BY <1>1, <1>2, <1>6 DEF Waiting, Poll, PollEnded, Cleanup, WaitTimeout, CancelOwn, Unclaimed,
     CancelUnclaimed
<1>7. ASSUME NEW u \in Tasks, Supervising(u)
      PROVE  FALSE
  BY <1>1, <1>7 DEF Supervising, Spawn, Bind, UpdateLeasePid, SetBound, Reap, Finish, FinishTask,
     FinishedStatus, FinishBusy
<1>8. ASSUME NEW u \in Tasks, Failing(u)
      PROVE  FALSE
  BY <1>6, <1>8 DEF Failing, SpawnFails, Abort, LockFails, Dies
<1>9. ASSUME NEW u \in Tasks, Cancel(u)
      PROVE  <<t, owner[t]>> \in signalled' \/ Unreachable(t)
  <2>1. CASE CancelWaiting(u) \/ CancelLooks(u) \/ CancelDies(u)
    BY <1>1, <2>1 DEF CancelWaiting, Unclaimed, CancelUnclaimed, CancelLooks, CancelDies
  <2>2. CASE CancelSignalled(u)
    BY <1>1, <2>2 DEF CancelSignalled, Cancelling, Signal
  <2>3. CASE CancelRecovers(u)
    <3>1. u = t /\ t \notin StaleLeases
      BY <1>1, <2>3 DEF CancelRecovers, Cancelling, RecoveredStatus
    <3>2. PidMatches(t, owner[t])
      BY <1>2, <3>1 DEF StaleLeases, ActiveLeases
    <3>3. GroupMayLack(t, owner[t])
      BY <2>3, <3>1, <3>2 DEF CancelRecovers
    <3> QED BY <1>1, <1>2, <3>2, <3>3 DEF PidMatches, GroupMayLack, LeadsGroup, Unreachable,
               Owners
  <2> QED BY <1>9, <2>1, <2>2, <2>3 DEF Cancel
<1>10. CASE Gc \/ Observe
  BY <1>4, <1>10 DEF Gc, Observe
<1>11. ASSUME NEW u \in Tasks, Host(u)
       PROVE  FALSE
  BY <1>11 DEF Host, LaunchTimesOut, ChildEnds, PidRecycled
<1>12. CASE InventoryChanges \/ \E g \in Gpus : ExternalComes(g) \/ ExternalGoes(g)
  BY <1>12 DEF InventoryChanges, ExternalComes, ExternalGoes
<1> QED BY <1>3, <1>5, <1>6, <1>7, <1>8, <1>9, <1>10, <1>11, <1>12 DEF Next

\* No cancel of a running task is accepted without a SIGTERM for the process in its
\* lease, whatever happens to that process before the signal, but for a supervisor
\* without a group of its own and, without /proc, a pid that was given away.
THEOREM CancelSignalsAlways == Spec => CancelSignals
<1>1. IInv /\ [Next]_vars =>
        [\A t \in Tasks : status[t] = "running" /\ status'[t] = "cancelling" =>
            \/ <<t, owner[t]>> \in signalled'
            \/ owner[t] = "supervisor" /\ t \notin Leaders
            \/ ~ProcFs /\ ProcessState(t, owner[t]) = "reused"]_vars
  BY NextSignals DEF Unreachable
<1> QED BY <1>1, Invariant, PTL DEF Spec, CancelSignals

-----------------------------------------------------------------------------
(* Errors *)

\* A session that has returned or raised, and could clean up, leaves no unclaimed
\* request behind, whatever failed.
THEOREM CleanedUpAlways == Spec => []CleanedUp
<1>1. DataInv => CleanedUp
  BY DEF DataInv, PlaceInv, CleanedUp, Unclaimed
<1> QED BY <1>1, DataInvariant, PTL

\* A fresh view gives the planner a list without repetitions that is no longer than
\* the number of devices: if it raises, then for a request.
LEMMA PlannerRaises ==
    ASSUME IInv, DataInv, NEW t \in Tasks, pc[t] = "allocate",
           BatchRaises(view.free, view.external, view.total)
    PROVE  \E r \in QueuedRequests : ~CapacityDefined(r, Cardinality(view.total))
<1> DEFINE free == InOrder(view.free)
           total == Cardinality(view.total)
<1>1. /\ view.free \in SUBSET Gpus /\ view.total \in SUBSET Gpus
      /\ view.external \in SUBSET Gpus
  BY DEF IInv, TypeOK
<1>2. /\ view.total \in Inventories /\ view.free \subseteq view.total
  BY DEF DataInv, PlaceInv, ViewFresh
<1>3. IsFiniteSet(view.total) /\ IsFiniteSet(ActiveLeases) /\ view.total # {}
  <2>1. 1 \in Int /\ GpuCount \in Int
    BY StoreAssumption
  <2>2. IsFiniteSet(Gpus)
    BY <2>1, FS_Interval DEF Gpus
  <2> QED BY <1>1, <1>2, <2>2, TasksAssumption, FS_Subset, StewardAssumption DEF ActiveLeases
<1>4. /\ free \in Seq(Gpus) /\ Len(free) = Cardinality(view.free)
      /\ \A i, j \in 1 .. Len(free) : free[i] = free[j] => i = j
  BY <1>1, InOrderLists
<1>5. /\ total \in Nat /\ Cardinality(view.free) <= total /\ total # 0
      /\ Cardinality(view.external) \in Nat /\ Cardinality(ActiveLeases) \in Nat
  <2>1. /\ total \in Nat /\ Cardinality(view.external) \in Nat
        /\ Cardinality(ActiveLeases) \in Nat
    BY <1>1, <1>3, InOrderLists, FS_CardinalityType
  <2>2. total # 0
    BY <1>3, FS_EmptySet
  <2>3. Cardinality(view.free) <= total
    BY <1>2, <1>3, FS_Subset
  <2> QED BY <2>1, <2>2, <2>3
<1>6. IsInjective(free)
  <2>1. DOMAIN free = 1 .. Len(free)
    BY <1>4, LenProperties
  <2> HIDE DEF free
  <2> QED BY <1>4, <2>1 DEF IsInjective
<1> HIDE DEF free, total
<1>7. ArgumentsValid(free, total, Cardinality(ActiveLeases), Cardinality(view.external), Reserve)
  BY <1>4, <1>5, <1>6, StoreAssumption DEF ArgumentsValid
<1> QED BY <1>7 DEF BatchRaises, PlanRaises, free, total

\* The planner raises for no other reason than a queued request that has no capacity
\* on the host as it is now: what add_task cannot check.
THEOREM OnlyUnfitRaisesAlways == Spec => OnlyUnfitRaises
<1>1. ASSUME IInv, DataInv, [Next]_vars, NEW t \in Tasks, pc[t] # "error", pc'[t] = "error"
      PROVE  \E r \in QueuedRequests : ~CapacityDefined(r, Cardinality(view.total))
  <2>1. AllocateRaises(t)
    BY <1>1, EnteredNext DEF Entered
  <2> QED BY <1>1, <2>1, PlannerRaises DEF AllocateRaises
<1>2. IInv /\ DataInv /\ [Next]_vars =>
        [\A t \in Tasks : pc[t] # "error" /\ pc'[t] = "error" =>
           \E r \in QueuedRequests : ~CapacityDefined(r, Cardinality(view.total))]_vars
  BY <1>1
<1> QED BY <1>2, Invariant, DataInvariant, PTL DEF Spec, OnlyUnfitRaises
=============================================================================
