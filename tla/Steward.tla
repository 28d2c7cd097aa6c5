------------------------------- MODULE Steward -------------------------------
(***************************************************************************)
(* The coordinator of src/gpu_steward/runtime.py: one session per          *)
(* `gpu-steward run`, the other commands (cancel, gc, status), the         *)
(* per-user file lock they serialize on, the children they start, and the  *)
(* host around them.                                                       *)
(*                                                                         *)
(* One action is one transaction, or one step outside any transaction.     *)
(* The first section of run_task and each turn of its polling loop hold    *)
(* the lock over four actions                                              *)
(*                                                                         *)
(*   Query   inventory.query(), before any transaction                     *)
(*   View    recover_stale and validate_inventory_signature                *)
(*   Allocate  allocate_batch                                              *)
(*   Claim   claim_task                                                    *)
(*                                                                         *)
(* so that processes and devices may change, and the session may die,      *)
(* between any two of them.  Commands with a single transaction are one    *)
(* action, enabled while nobody holds the lock, but for cancel, which      *)
(* looks at a process and signals it in two.                               *)
(***************************************************************************)
EXTENDS StateStore

CONSTANTS
    Crashable,     \* sessions that may die at any point
    Interruptible, \* sessions whose user may type Ctrl-C once they launch
    Impatient,     \* sessions run with --wait-timeout
    Stubborn,      \* children that may outlive both rounds of _terminate_child
    Cancellable,   \* tasks a user may cancel
    ExternalGpus,  \* devices unmanaged processes may use
    Inventories,   \* sets of devices the driver may report
    QueryFaults,   \* nvidia-smi may fail
    LockFaults,    \* the lock file may fail to open
    ExecFaults     \* the command may fail to start

ASSUME StewardAssumption ==
    /\ Crashable \subseteq Tasks /\ Interruptible \subseteq Tasks
    /\ Impatient \subseteq Tasks /\ Stubborn \subseteq Tasks
    /\ Cancellable \subseteq Tasks /\ Leaders \subseteq Tasks
    /\ ExternalGpus \subseteq Gpus
    /\ Inventories \subseteq SUBSET Gpus /\ {} \notin Inventories
    /\ QueryFaults \in BOOLEAN /\ LockFaults \in BOOLEAN /\ ExecFaults \in BOOLEAN
    /\ ProcFs \in BOOLEAN

Nobody == "nobody"
Canceller == "canceller"
ASSUME NobodyAssumption == Nobody \notin Tasks /\ Canceller \notin Tasks

VARIABLES
    pc,        \* where the session's run_task stands
    passes,    \* scheduling passes it has made: none, the first, more
    claimed,   \* claimed.gpu_ids, the child's CUDA_VISIBLE_DEVICES
    bound,     \* child_bound
    code,      \* return_code
    lock,      \* the session, or the cancel, holding the file lock between two
               \* actions
    aim,       \* the task a cancel is about to signal
    snap,      \* the holder's InventorySnapshot
    view,      \* the holder's RuntimeView
    present,   \* the devices the driver sees
    external   \* the devices with processes nobody leased
sessionVars == <<pc, passes, claimed, bound, code>>
lockVars == <<lock, aim, snap, view>>
hostVars == <<present, external>>
vars == <<storeVars, processVars, sessionVars, lockVars, hostVars>>

Ended == {"done",      \* returned the command's result
          "raised",    \* raised a StewardError, after its cleanup
          "blocked",   \* raised a StewardError, its cleanup failed too
          "error",     \* ended by an exception nothing catches
          "dead"}      \* killed or interrupted
Sections == {"query", "view", "allocate", "claim"}
Places == {"idle", "wait", "cleanup", "spawn", "bind", "flag", "watch", "finish"}
            \cup Sections \cup Ended

NoSnap == [gpus |-> {}, busy |-> {}]
NoView == [free |-> {}, external |-> {}, total |-> {}]

TypeOK ==
    /\ StoreTypeOK
    /\ ProcessTypeOK
    /\ pc \in [Tasks -> Places]
    /\ passes \in [Tasks -> 0 .. 2]
    /\ claimed \in [Tasks -> SUBSET Gpus]
    /\ bound \in [Tasks -> BOOLEAN]
    /\ code \in [Tasks -> {"none", "zero", "nonzero"}]
    /\ lock \in Tasks \cup {Nobody, Canceller}
    /\ aim \in Tasks \cup {Nobody}
    /\ snap \in [gpus : SUBSET Gpus, busy : SUBSET Gpus]
    /\ view \in [free : SUBSET Gpus, external : SUBSET Gpus, total : SUBSET Gpus]
    /\ present \subseteq Gpus
    /\ external \subseteq Gpus

Init ==
    /\ StoreInit
    /\ ProcessInit
    /\ pc = [t \in Tasks |-> "idle"]
    /\ passes = [t \in Tasks |-> 0]
    /\ claimed = [t \in Tasks |-> {}]
    /\ bound = [t \in Tasks |-> FALSE]
    /\ code = [t \in Tasks |-> "none"]
    /\ lock = Nobody /\ aim = Nobody /\ snap = NoSnap /\ view = NoView
    /\ present \in Inventories
    /\ external = {}

-----------------------------------------------------------------------------
Goto(t, place) == pc' = [pc EXCEPT ![t] = place]

Unlock == lock' = Nobody /\ aim' = Nobody /\ snap' = NoSnap /\ view' = NoView

\* The session's process ends: a lock it holds is dropped and its local
\* variables are gone.  What it put into its child's environment stays.
End(t, how) ==
    /\ Goto(t, how)
    /\ SupervisorEnds(t)
    /\ passes' = [passes EXCEPT ![t] = 0]
    /\ bound' = [bound EXCEPT ![t] = FALSE]
    /\ code' = [code EXCEPT ![t] = "none"]
    /\ IF lock = t THEN Unlock ELSE UNCHANGED lockVars

-----------------------------------------------------------------------------
(* run_task up to the claim *)

\* Bug: the task is enqueued in a critical section of its own.
Arrive_Alone(t, shape) ==
    /\ pc[t] = "idle" /\ lock = Nobody
    /\ AddTask(t, shape)
    /\ supervisor' = [supervisor EXCEPT ![t] = "alive"]
    /\ Goto(t, "wait")
    /\ UNCHANGED <<child, signalled, strangers, lockVars, passes, claimed,
                   bound, code, hostVars>>

\* The session starts, takes the lock and enqueues; it keeps the lock for its
\* first schedule and claim.
Arrive(t, shape) ==
    /\ pc[t] = "idle" /\ lock = Nobody
    /\ AddTask(t, shape)
    /\ supervisor' = [supervisor EXCEPT ![t] = "alive"]
    /\ lock' = t
    /\ Goto(t, "query")
    /\ UNCHANGED <<child, signalled, strangers, aim, snap, view, passes, claimed,
                   bound, code, hostVars>>

\* inventory.query() succeeds: the devices, and the devices with a compute
\* process.  A child that has not opened its devices yet does not show.
Query(t) ==
    /\ pc[t] = "query"
    /\ \E shown \in SUBSET {u \in Tasks : child[u] = "alive"} :
         LET busy == external \cup UNION {claimed[u] : u \in shown}
         IN  /\ busy \subseteq present
             /\ snap' = [gpus |-> present, busy |-> busy]
    /\ Goto(t, "view")
    /\ UNCHANGED <<storeVars, processVars, lock, aim, view, passes, claimed, bound,
                   code, hostVars>>

\* inventory.query() raises InventoryError: nvidia-smi fails, or it reports a
\* process on a device it does not list.
QueryFails(t) ==
    /\ pc[t] = "query"
    /\ \/ QueryFaults
       \/ ~(external \subseteq present)
       \/ \E u \in Tasks : child[u] = "alive" /\ ~(claimed[u] \subseteq present)
    /\ Unlock
    /\ Goto(t, "cleanup")
    /\ UNCHANGED <<storeVars, processVars, passes, claimed, bound, code, hostVars>>

\* Bug: leased devices are taken for free ones.
ViewOf_LeasedAreFree(s) ==
    [free |-> s.gpus \ s.busy, external |-> s.busy \ KeptGpus, total |-> s.gpus]

\* Bug: external processes do not make a device ineligible.
ViewOf_ExternalAreFree(s) ==
    [free |-> s.gpus \ KeptGpus, external |-> s.busy \ KeptGpus, total |-> s.gpus]

\* Bug: the free devices are those of the recorded inventory.
ViewOf_Recorded(s) ==
    [free |-> signature \ (KeptGpus \cup s.busy),
     external |-> s.busy \ KeptGpus,
     total |-> s.gpus]

\* A process on a leased device is the lease's, any other one is external.
ViewOf(s) ==
    [free |-> s.gpus \ (KeptGpus \cup s.busy),
     external |-> s.busy \ KeptGpus,
     total |-> s.gpus]

\* The view's transaction: recovery and the inventory check succeed together.
View(t) ==
    /\ pc[t] = "view"
    /\ InventoryAccepted(snap.gpus)
    /\ RecoverStale
    /\ signature' = snap.gpus
    /\ view' = ViewOf(snap)
    /\ Goto(t, "allocate")
    /\ UNCHANGED <<request, owner, processVars, lock, aim, snap, passes, claimed,
                   bound, code, hostVars>>

\* ... or InventoryChangedError rolls both back.
ViewFails(t) ==
    /\ pc[t] = "view"
    /\ ~InventoryAccepted(snap.gpus)
    /\ Unlock
    /\ Goto(t, "cleanup")
    /\ UNCHANGED <<storeVars, processVars, passes, claimed, bound, code, hostVars>>

Batch == BatchPlan(view.free, view.external, view.total)

\* The allocation's transaction.  A batch the UNIQUE constraints reject raises
\* StateError.
Allocate(t) ==
    /\ pc[t] = "allocate"
    /\ ~BatchRaises(view.free, view.external, view.total)
    /\ \E plan \in {Batch} : \E grants \in {GrantsOf(plan)} :
         /\ AllocateBatch(grants)
         /\ IF Insertable(grants)
            THEN Goto(t, "claim") /\ UNCHANGED lockVars
            ELSE Goto(t, "cleanup") /\ Unlock
    /\ UNCHANGED <<processVars, passes, claimed, bound, code, hostVars>>

\* The planner's ValueError is not a StewardError: nothing catches it.
AllocateRaises(t) ==
    /\ pc[t] = "allocate"
    /\ BatchRaises(view.free, view.external, view.total)
    /\ End(t, "error")
    /\ UNCHANGED <<storeVars, claimed, hostVars>>

\* The claim's transaction, after which the lock is released.
Claim(t) ==
    /\ pc[t] = "claim"
    /\ Claimable(t)
    /\ ClaimTask(t)
    /\ claimed' = [claimed EXCEPT ![t] = rows[t]]
    /\ Goto(t, "spawn")
    /\ Unlock
    /\ UNCHANGED <<processVars, passes, bound, code, hostVars>>

ClaimNothing(t) ==
    /\ pc[t] = "claim"
    /\ ~Claimable(t)
    /\ passes' = [passes EXCEPT ![t] = IF @ = 0 THEN 1 ELSE 2]
    /\ Goto(t, "wait")
    /\ Unlock
    /\ UNCHANGED <<storeVars, processVars, claimed, bound, code, hostVars>>

\* A turn of the waiting loop.
Poll(t) ==
    /\ pc[t] = "wait" /\ lock = Nobody
    /\ status[t] \notin TerminalStatuses
    /\ lock' = t
    /\ Goto(t, "query")
    /\ UNCHANGED <<storeVars, processVars, aim, snap, view, passes, claimed, bound,
                   code, hostVars>>

\* Somebody else ended the task: run_task returns its result.
PollEnded(t) ==
    /\ pc[t] = "wait" /\ lock = Nobody
    /\ status[t] \in TerminalStatuses
    /\ End(t, "done")
    /\ UNCHANGED <<storeVars, claimed, hostVars>>

\* request_cancel by the session itself, whose task nobody can have claimed.
CancelOwn(t) ==
    IF Unclaimed(t) THEN CancelUnclaimed(t) ELSE UNCHANGED storeVars

\* wait_timeout is looked at after a turn of the loop; QueueError follows.
WaitTimeout(t) ==
    /\ pc[t] = "wait" /\ lock = Nobody
    /\ t \in Impatient /\ passes[t] = 2
    /\ CancelOwn(t)
    /\ Goto(t, "cleanup")
    /\ UNCHANGED <<processVars, passes, claimed, bound, code, lockVars, hostVars>>

\* Bug: the handler forgets the queued task.
Cleanup_Nothing(t) ==
    /\ pc[t] = "cleanup" /\ lock = Nobody
    /\ End(t, "raised")
    /\ UNCHANGED <<storeVars, claimed, hostVars>>

\* The handler of a StewardError before the claim.
Cleanup(t) ==
    /\ pc[t] = "cleanup" /\ lock = Nobody
    /\ CancelOwn(t)
    /\ End(t, "raised")
    /\ UNCHANGED <<claimed, hostVars>>

-----------------------------------------------------------------------------
(* run_task from the claim on *)

Spawn(t) ==
    /\ pc[t] = "spawn"
    /\ child' = [child EXCEPT ![t] = "alive"]
    /\ Goto(t, "bind")
    /\ UNCHANGED <<storeVars, supervisor, signalled, strangers, passes, claimed,
                   bound, code, lockVars, hostVars>>

\* Popen raises OSError, or the user interrupts before it returns a child: after
\* the fork the command runs and nothing in the supervisor knows it.
SpawnFails(t) ==
    /\ pc[t] = "spawn"
    /\ \/ (ExecFaults \/ t \in Interruptible) /\ UNCHANGED child
       \/ /\ t \in Interruptible
          /\ child' = [child EXCEPT ![t] = "alive"]
    /\ code' = [code EXCEPT ![t] = "nonzero"]
    /\ Goto(t, "finish")
    /\ UNCHANGED <<storeVars, supervisor, signalled, strangers, passes, claimed,
                   bound, lockVars, hostVars>>

\* The child's identity replaces the supervisor's in the lease.  The refusals of
\* update_lease_pid and of claim_task are no steps: CallsAccepted.
Bind(t) ==
    /\ pc[t] = "bind" /\ lock = Nobody
    /\ LeasePidUpdatable(t)
    /\ UpdateLeasePid(t)
    /\ Goto(t, "flag")
    /\ UNCHANGED <<processVars, passes, claimed, bound, code, lockVars, hostVars>>

\* The assignment of child_bound, after the lock has been released.
SetBound(t) ==
    /\ pc[t] = "flag"
    /\ bound' = [bound EXCEPT ![t] = TRUE]
    /\ Goto(t, "watch")
    /\ UNCHANGED <<storeVars, processVars, passes, claimed, code, lockVars, hostVars>>

\* Bug: the supervisor does not wait for its child.
Reap_Early(t, result) ==
    /\ pc[t] = "watch"
    /\ code' = [code EXCEPT ![t] = result]
    /\ Goto(t, "finish")
    /\ UNCHANGED <<storeVars, processVars, passes, claimed, bound, lockVars, hostVars>>

\* child.wait() returns.
Reap(t, result) ==
    /\ pc[t] = "watch" /\ child[t] = "zombie"
    /\ child' = [child EXCEPT ![t] = "gone"]
    /\ code' = [code EXCEPT ![t] = result]
    /\ Goto(t, "finish")
    /\ UNCHANGED <<storeVars, supervisor, signalled, strangers, passes, claimed,
                   bound, lockVars, hostVars>>

\* _terminate_child, with the second round of the finally clause: the child is
\* reaped, or (a stubborn one) survives.  Nobody else can reap it, so its pid is
\* not given away between a look and a signal: one step loses nothing.
TerminateChild(t) ==
    /\ \/ /\ child' = [child EXCEPT ![t] = "gone"]
          /\ signalled' = signalled \ {<<t, "child">>}
          /\ UNCHANGED strangers
       \/ /\ t \in Stubborn /\ child[t] = "alive"
          /\ Signal(t, "child")
          /\ UNCHANGED child
    /\ UNCHANGED supervisor

\* KeyboardInterrupt once there is a child, or a lock that fails to open when
\* the child is to be bound: the child is terminated and the task finished.
Abort(t) ==
    /\ \/ pc[t] \in {"bind", "flag", "watch"} /\ t \in Interruptible
       \/ pc[t] = "bind" /\ LockFaults
    /\ TerminateChild(t)
    /\ code' = [code EXCEPT ![t] = "nonzero"]
    /\ Goto(t, "finish")
    /\ UNCHANGED <<storeVars, passes, claimed, bound, lockVars, hostVars>>

\* Bug: child_bound is never set.
Believed_Supervisor(t) == "supervisor"

\* The identity the supervisor finishes the lease with.
Believed(t) == IF bound[t] THEN "child" ELSE "supervisor"

Finish(t) ==
    /\ pc[t] = "finish" /\ lock = Nobody
    /\ FinishAllowed(t, Believed(t))
    /\ FinishTask(t, code[t])
    /\ End(t, "done")
    /\ UNCHANGED <<claimed, hostVars>>

\* TaskBusyError: the lease stays until it is recovered.
FinishBusy(t) ==
    /\ pc[t] = "finish" /\ lock = Nobody
    /\ ~FinishAllowed(t, Believed(t))
    /\ End(t, "raised")
    /\ UNCHANGED <<storeVars, claimed, hostVars>>

\* The lock file fails to open: while waiting this is a StewardError like any
\* other, in the cleanup it is swallowed, at the end it loses the release.
LockFails(t) ==
    /\ LockFaults
    /\ \/ /\ pc[t] = "wait"
          /\ Goto(t, "cleanup")
          /\ UNCHANGED <<processVars, lockVars, passes, bound, code>>
       \/ /\ pc[t] \in {"cleanup", "finish"}
          /\ End(t, "blocked")
    /\ UNCHANGED <<storeVars, claimed, hostVars>>

\* SIGKILL, SIGHUP, SIGTERM from cancel, an interrupt while it waits, or an
\* error nothing catches.  An open transaction is rolled back.
Dies(t) ==
    /\ t \in Crashable \/ <<t, "supervisor">> \in signalled
    /\ supervisor[t] = "alive"
    /\ End(t, "dead")
    /\ UNCHANGED <<storeVars, claimed, hostVars>>

-----------------------------------------------------------------------------
(* Other commands *)

\* cancel of a task nobody has claimed.
CancelWaiting(t) ==
    /\ t \in Cancellable /\ lock = Nobody
    /\ Unclaimed(t)
    /\ CancelUnclaimed(t)
    /\ UNCHANGED <<processVars, sessionVars, lockVars, hostVars>>

CancelOwned(t) ==
    t \in Cancellable /\ lock = Nobody /\ status[t] \in {"running", "cancelling"}

\* cancel of a claimed task: pid_matches finds the process in the lease.  The
\* lock is held, and the transaction open, until the cancel ends.
CancelLooks(t) ==
    /\ CancelOwned(t)
    /\ PidMatches(t, owner[t])
    /\ lock' = Canceller /\ aim' = t
    /\ UNCHANGED <<storeVars, processVars, sessionVars, snap, view, hostVars>>

Aimed(t) == lock = Canceller /\ aim = t

\* os.killpg reaches whoever has the pid by now, and the transaction commits.
CancelSignalled(t) ==
    /\ Aimed(t) /\ GroupMayExist(t, owner[t])
    /\ Signal(t, owner[t])
    /\ status' = Cancelling(t)
    /\ Unlock
    /\ UNCHANGED <<request, lease, rows, owner, overdue, signature, supervisor,
                   child, sessionVars, hostVars>>

\* The command may die before the signal, or between signal and commit.
CancelDies(t) ==
    /\ t \in Crashable /\ Aimed(t)
    /\ \/ GroupMayExist(t, owner[t]) /\ Signal(t, owner[t])
       \/ UNCHANGED <<signalled, strangers>>
    /\ Unlock
    /\ UNCHANGED <<storeVars, supervisor, child, sessionVars, hostVars>>

\* cancel finds nothing to signal, when it looks or when it signals: every stale
\* lease is recovered instead, this one with its new status.
CancelRecovers(t) ==
    /\ \/ CancelOwned(t) /\ ~PidMatches(t, owner[t])
       \/ Aimed(t) /\ GroupMayLack(t, owner[t])
    /\ status' = [u \in Tasks |-> IF u \in StaleLeases
                                  THEN RecoveredStatus(Cancelling(t)[u])
                                  ELSE Cancelling(t)[u]]
    /\ ReleaseLeases(StaleLeases)
    /\ Unlock
    /\ UNCHANGED <<request, owner, signature, processVars, sessionVars, hostVars>>

Gc ==
    /\ lock = Nobody
    /\ RecoverStale
    /\ UNCHANGED <<request, owner, signature, processVars, sessionVars, lockVars,
                   hostVars>>

\* status, inventory and doctor: the view without an allocation.
Observe ==
    /\ lock = Nobody
    /\ InventoryAccepted(present)
    /\ RecoverStale
    /\ signature' = present
    /\ UNCHANGED <<request, owner, processVars, sessionVars, lockVars, hostVars>>

-----------------------------------------------------------------------------
(* The host *)

\* launch_timeout passes for a reservation nobody has claimed.
LaunchTimesOut(t) ==
    /\ lease[t] = "active" /\ owner[t] = "none" /\ ~overdue[t]
    /\ overdue' = [overdue EXCEPT ![t] = TRUE]
    /\ UNCHANGED <<status, request, lease, rows, owner, signature, processVars,
                   sessionVars, lockVars, hostVars>>

ChildEnds(t) ==
    ChildExits(t) /\ UNCHANGED <<storeVars, sessionVars, lockVars, hostVars>>

\* Only a pid an active lease records is ever looked at.
PidRecycled(t) ==
    /\ lease[t] = "active" /\ owner[t] # "none"
    /\ PidReused(t, owner[t])
    /\ UNCHANGED <<storeVars, sessionVars, lockVars, hostVars>>

ExternalComes(g) ==
    /\ g \in ExternalGpus \ external
    /\ external' = external \cup {g}
    /\ UNCHANGED <<storeVars, processVars, sessionVars, lockVars, present>>

ExternalGoes(g) ==
    /\ g \in external
    /\ external' = external \ {g}
    /\ UNCHANGED <<storeVars, processVars, sessionVars, lockVars, present>>

InventoryChanges ==
    /\ \E gpus \in Inventories \ {present} : present' = gpus
    /\ UNCHANGED <<storeVars, processVars, sessionVars, lockVars, external>>

-----------------------------------------------------------------------------
Scheduling(t) ==
    \/ Query(t) \/ QueryFails(t) \/ View(t) \/ ViewFails(t)
    \/ Allocate(t) \/ AllocateRaises(t) \/ Claim(t) \/ ClaimNothing(t)

Waiting(t) == Poll(t) \/ PollEnded(t) \/ Cleanup(t)

Supervising(t) ==
    \/ Spawn(t) \/ Bind(t) \/ SetBound(t)
    \/ \E result \in {"zero", "nonzero"} : Reap(t, result)
    \/ Finish(t) \/ FinishBusy(t)

Failing(t) ==
    WaitTimeout(t) \/ SpawnFails(t) \/ Abort(t) \/ LockFails(t) \/ Dies(t)

Cancel(t) ==
    \/ CancelWaiting(t) \/ CancelLooks(t)
    \/ CancelSignalled(t) \/ CancelDies(t) \/ CancelRecovers(t)

Host(t) == LaunchTimesOut(t) \/ ChildEnds(t) \/ PidRecycled(t)

Next ==
    \/ \E t \in Tasks :
         \/ \E shape \in Shapes : Arrive(t, shape)
         \/ Scheduling(t) \/ Waiting(t) \/ Supervising(t) \/ Failing(t)
         \/ Cancel(t) \/ Host(t)
    \/ Gc \/ Observe
    \/ \E g \in Gpus : ExternalComes(g) \/ ExternalGoes(g)
    \/ InventoryChanges

Spec == Init /\ [][Next]_vars

-----------------------------------------------------------------------------
(* Safety *)

\* A child the system answers for: its supervisor runs, or the lease names it.
\* A stubborn child counts until its supervisor has given it up or died.
Managed(t) ==
    /\ child[t] = "alive"
    /\ t \in Stubborn => pc[t] \in {"bind", "flag", "watch"}
    /\ supervisor[t] = "alive" \/ owner[t] = "child"

\* A managed child runs under an active lease on exactly the devices of its
\* CUDA_VISIBLE_DEVICES, whatever cancel, gc, status and other sessions do
\* meanwhile (state.py, request_cancel: "GPU rows remain reserved until the
\* supervisor or gc observes process exit").
ChildCovered ==
    \A t \in Tasks : Managed(t) => lease[t] = "active" /\ rows[t] = claimed[t]

\* Two managed children never see the same device ("A GPU UUID cannot belong
\* to two live GPU Steward leases at the same time", architecture, invariant 2).
NoSharedDevice ==
    \A t, u \in Tasks :
        t # u /\ Managed(t) /\ Managed(u) => claimed[t] \cap claimed[u] = {}

\* The batch planned from the locked view never runs into the UNIQUE
\* constraints of allocate_batch: no StateError, no rolled back batch.
BatchAccepted ==
    \A t \in Tasks :
        pc[t] = "allocate" /\ ~BatchRaises(view.free, view.external, view.total)
            => \A plan \in {Batch} : Insertable(GrantsOf(plan))

\* A device is leased only if the snapshot taken under the same lock lists it
\* without a process and without a lease, and that snapshot's inventory is the
\* recorded one (architecture, invariants 3 and 6).
OnlyFreeDevices ==
    [][\A t \in Tasks : \A g \in rows'[t] \ rows[t] :
         /\ g \in snap.gpus \ (snap.busy \cup ActiveGpus)
         /\ snap.gpus = signature]_vars

\* Devices under an active lease belong to the recorded inventory, however
\* devices come and go (validate_inventory_signature).
LeasesInInventory == ActiveGpus \subseteq signature

\* The task row and the lease row agree: launching, running and cancelling
\* tasks and only they have an active lease, it has devices, and it is claimed
\* exactly if the task has left launching.
StatusMatchesLease ==
    \A t \in Tasks :
        /\ status[t] \in LeasedStatuses <=> lease[t] = "active"
        /\ lease[t] = "active" <=> rows[t] # {}
        /\ lease[t] = "active" => (owner[t] = "none" <=> status[t] = "launching")

\* A task cancelled before its session claimed it never has a process.
CancelledBeforeStart ==
    \A t \in Tasks :
        status[t] \in TerminalStatuses /\ owner[t] = "none"
            => child[t] = "none" /\ pc[t] \notin {"spawn", "bind"}

\* The store accepts what a session calls it with, whatever cancel, gc, timeouts
\* and other sessions did since: claim_task finds the lease of a task that was
\* granted one, unclaimed, and update_lease_pid finds the claim of this very
\* supervisor (state.py, 515-523 and 537-541: StateError, TaskBusyError).
CallsAccepted ==
    \A t \in Tasks :
        /\ pc[t] = "claim" /\ status[t] \in {"launching", "running"} =>
             lease[t] = "active" /\ owner[t] = "none"
        /\ pc[t] = "bind" => LeasePidUpdatable(t)

\* A cancel that is under way ends as cancelled, whoever ends the task; and an
\* outcome, once written, is changed by nobody but the task's own session, in its
\* last step, after somebody else recovered the lease: no cancel, gc, timeout or
\* other session's view rewrites one, and that session does so once, without
\* bringing the lease back.  (What it writes then may contradict the recovery:
\* OutcomeWrittenOnce.)
OutcomesHold ==
    [][\A t \in Tasks :
         /\ status[t] = "cancelling" => status'[t] \in {"cancelling", "cancelled"}
         /\ status[t] \in TerminalStatuses /\ status'[t] # status[t] =>
              /\ pc[t] = "finish" /\ pc'[t] = "done"
              /\ status'[t] \in TerminalStatuses
              /\ lease[t] = "released" /\ lease'[t] = "released"]_vars

\* A session that has ended and could clean up, by a StewardError or with its
\* command's result, leaves no unclaimed request behind, whichever step failed
\* (runtime.py, 269-285).
CleanedUp == \A t \in Tasks : pc[t] \in {"raised", "done"} => ~Unclaimed(t)

\* The planner raises for no other reason than a queued request without a
\* capacity: the arguments a session computes from its view, after devices came
\* and went and leases were recovered, are always accepted (scheduler.py, 54-63).
OnlyUnfitRaises ==
    [][\A t \in Tasks : pc[t] # "error" /\ pc'[t] = "error" =>
         \E r \in QueuedRequests : ~CapacityDefined(r, Cardinality(view.total))]_vars

\* No session sees the queued task of a live session that has not made its own
\* first pass yet: arrivals are scheduled one by one (runtime.py, 228-231).
ArrivalScheduledAtOnce ==
    \A t \in Tasks :
        status[t] = "queued" /\ supervisor[t] = "alive" /\ passes[t] = 0
            => lock = t \/ pc[t] = "cleanup"

\* A running task becomes cancelling together with a SIGTERM for the process its
\* lease names, whatever happened between the cancel's look and its signal, unless
\* that is a supervisor outside a group of its own or, on a host without /proc,
\* another process that was given the pid.
CancelSignals ==
    [][\A t \in Tasks : status[t] = "running" /\ status'[t] = "cancelling" =>
         \/ <<t, owner[t]>> \in signalled'
         \/ owner[t] = "supervisor" /\ t \notin Leaders
         \/ ~ProcFs /\ ProcessState(t, owner[t]) = "reused"]_vars

-----------------------------------------------------------------------------
(* What the documents say, and the code does not keep *)

\* Nothing is signalled through a lease whose pid now names another process
\* ("Unknown processes are never killed by `cancel`, garbage collection, or normal
\* reconciliation", architecture, invariant 7).
NoStrangerHit == strangers = {}

\* No error of the coordinator leaves an unclaimed request behind (runtime.py,
\* run_task: it "cancels this invocation's unclaimed request instead of leaving an
\* orphan queue entry").
NoOrphanAfterError ==
    \A t \in Tasks : pc[t] \in {"raised", "error"} => ~Unclaimed(t)

\* A cancel of a running task is never accepted without a signal
\* (request_cancel: "The caller must signal the returned PID while still holding
\* the outer file lock").
CancelAlwaysSignals ==
    [][\A t \in Tasks : status[t] = "running" /\ status'[t] = "cancelling" =>
         <<t, owner[t]>> \in signalled']_vars

\* What request_cancel's docstring concludes: "GPU rows remain reserved until
\* the supervisor or gc observes process exit, so cancellation never races a
\* live child".
LiveChildKeepsLease ==
    \A t \in Tasks : child[t] = "alive" => lease[t] = "active"

\* The outcome of a task is written once (on exit, "record the exit code and
\* release its UUIDs in an idempotent transaction", architecture, run, step 7).
OutcomeWrittenOnce ==
    [][\A t \in Tasks : status[t] \in TerminalStatuses =>
         status'[t] = status[t]]_vars

-----------------------------------------------------------------------------
(* Refinement *)

Phase(s) ==
    CASE s = "absent" -> "new"
      [] s = "queued" -> "waiting"
      [] s \in LeasedStatuses -> "holding"
      [] s \in TerminalStatuses -> "over"

Table == INSTANCE LeaseTable WITH
            Gpus <- Gpus,
            phase <- [t \in Tasks |-> Phase(status[t])],
            holds <- rows

\* The database, seen as a lease table, is one: each transaction is a request,
\* an exclusive grant or a return, or changes nothing there (architecture,
\* invariants 2 and 4).
ImplementsLeaseTable == Table!Spec

-----------------------------------------------------------------------------
(* Liveness *)

\* A session waits for the lock as long as it takes, and polls; nvidia-smi and
\* SQLite answer; time passes; a process that was sent SIGTERM acts on it; and
\* the users' commands end.
Fairness ==
    \A t \in Tasks :
        /\ WF_vars(Scheduling(t))
        /\ SF_vars(Waiting(t))
        /\ SF_vars(Supervising(t))
        /\ WF_vars(LaunchTimesOut(t))
        /\ WF_vars(ChildEnds(t))
        /\ WF_vars(Aimed(t) /\ (CancelSignalled(t) \/ CancelRecovers(t)))
        /\ WF_vars(<<t, "supervisor">> \in signalled /\ Dies(t))

FairSpec == Spec /\ Fairness

Queueing(t) == pc[t] \in Sections \cup {"wait"}

\* Every waiting session is served, cancelled or fails: it does not wait for
\* ever, even behind tasks whose session died ("stale leases do not block the
\* queue forever", architecture, component model).
EveryWaiterLeaves == \A t \in Tasks : Queueing(t) ~> ~Queueing(t)

\* Every lease that is granted is given back or, when its session was killed,
\* interrupted or could not release it, becomes stale, so that the next command of
\* anybody gives it back (on a host with /proc); and a session nobody kills or
\* interrupts, by a signal from outside or by a cancel that finds the supervisor's
\* pid in the lease, gives it back by itself.
EveryLeaseReturns ==
    /\ \A t \in Tasks :
         lease[t] = "active" ~> lease[t] # "active" \/ t \in StaleLeases
    /\ \A t \in Tasks \ (Crashable \cup Interruptible \cup Leaders) :
         lease[t] = "active" ~> lease[t] # "active"
=============================================================================
