------------------------------ MODULE StateStore -----------------------------
(***************************************************************************)
(* The SQLite state of src/gpu_steward/state.py: tasks, leases, lease_gpus *)
(* and the stored inventory signature, with one operator per method that   *)
(* writes.  Each operator is the effect of one transaction; who may open   *)
(* one, and when, is module Steward's business.                            *)
(*                                                                         *)
(* A lease's recorded process identity (pid and start time) is abstracted  *)
(* to owner: no process yet, the task's supervisor, or the task's child.   *)
(* Module Processes says whether the process so identified still exists.   *)
(***************************************************************************)
EXTENDS Scheduler, Processes

CONSTANTS GpuCount,    \* bound: devices the host can ever have
          Shapes,      \* requests that arrive: [min, max, priority]
          Reserve,     \* --reserve
          StrictFifo   \* --strict-fifo

Gpus == 1 .. GpuCount

ASSUME TasksAssumption == IsFiniteSet(Tasks)

ASSUME StoreAssumption ==
    /\ GpuCount \in Nat \ {0}
    /\ Shapes \subseteq [min : Nat \ {0}, max : Nat, priority : Int]
    /\ Reserve \in Nat
    /\ StrictFifo \in BOOLEAN

VARIABLES
    status,     \* tasks.status; "absent" before the row exists
    request,    \* the row's min_gpus, max_gpus, priority, created_at
    lease,      \* leases.status; "none" before the row exists
    rows,       \* lease_gpus: the devices recorded for the task's lease
    owner,      \* leases.pid and pid_start_time
    overdue,    \* launch_timeout has passed since reserved_at
    signature   \* metadata.inventory_uuids; {} when never written
storeVars == <<status, request, lease, rows, owner, overdue, signature>>

TerminalStatuses == {"completed", "failed", "cancelled"}
LeasedStatuses == {"launching", "running", "cancelling"}
Statuses == {"absent", "queued"} \cup LeasedStatuses \cup TerminalStatuses
Owners == {"none", "supervisor", "child"}
NoRequest == [min |-> 1, max |-> NoMaximum, priority |-> 0, created |-> 0]

StoreTypeOK ==
    /\ status \in [Tasks -> Statuses]
    /\ request \in [Tasks -> [min : Nat \ {0}, max : Nat,
                              priority : Int, created : Nat]]
    /\ lease \in [Tasks -> {"none", "active", "released"}]
    /\ rows \in [Tasks -> SUBSET Gpus]
    /\ owner \in [Tasks -> Owners]
    /\ overdue \in [Tasks -> BOOLEAN]
    /\ signature \subseteq Gpus

StoreInit ==
    /\ status = [t \in Tasks |-> "absent"]
    /\ request = [t \in Tasks |-> NoRequest]
    /\ lease = [t \in Tasks |-> "none"]
    /\ rows = [t \in Tasks |-> {}]
    /\ owner = [t \in Tasks |-> "none"]
    /\ overdue = [t \in Tasks |-> FALSE]
    /\ signature = {}

-----------------------------------------------------------------------------
(* Reads *)

ActiveLeases == {t \in Tasks : lease[t] = "active"}

ActiveGpus == UNION {rows[t] : t \in ActiveLeases}

QueuedRequests ==
    {[id |-> t, min |-> request[t].min, max |-> request[t].max,
      priority |-> request[t].priority, created |-> request[t].created] :
        t \in {u \in Tasks : status[u] = "queued"}}

\* A task whose lease, if it has one, nobody has claimed.
Unclaimed(t) == status[t] \in {"queued", "launching"} /\ owner[t] = "none"

-----------------------------------------------------------------------------
(* add_task *)

AddTask(t, shape) ==
    /\ status' = [status EXCEPT ![t] = "queued"]
    /\ request' = [request EXCEPT ![t] =
                     [min |-> shape.min, max |-> shape.max,
                      priority |-> shape.priority,
                      created |-> Cardinality({u \in Tasks : status[u] # "absent"})]]
    /\ UNCHANGED <<lease, rows, owner, overdue, signature>>

-----------------------------------------------------------------------------
(* _release_lease_tx, for the leases of the tasks in S *)

\* Bug: the GPU rows of a released lease are left behind.
ReleaseLeases_KeepingRows(S) ==
    /\ lease' = [t \in Tasks |-> IF t \in S /\ lease[t] = "active"
                                 THEN "released" ELSE lease[t]]
    /\ overdue' = [t \in Tasks |-> overdue[t] /\ t \notin S]
    /\ UNCHANGED rows

ReleaseLeases(S) ==
    /\ lease' = [t \in Tasks |-> IF t \in S /\ lease[t] = "active"
                                 THEN "released" ELSE lease[t]]
    /\ rows' = [t \in Tasks |-> IF t \in S THEN {} ELSE rows[t]]
    /\ overdue' = [t \in Tasks |-> overdue[t] /\ t \notin S]

-----------------------------------------------------------------------------
(* recover_stale, for the set of leases found stale *)

\* Bug: a cancelled task that is recovered is recorded as failed.
RecoveredStatus_Failed(s) == "failed"

RecoveredStatus(s) == IF s = "cancelling" THEN "cancelled" ELSE "failed"

\* Bug: a reservation nobody claims is never stale.
StaleLeases_ClaimedOnly ==
    {t \in ActiveLeases : owner[t] # "none" /\ ~PidMatches(t, owner[t])}

\* A lease is stale when its process no longer exists or, if nobody claimed it,
\* when launch_timeout has passed.
StaleLeases ==
    {t \in ActiveLeases : IF owner[t] = "none" THEN overdue[t]
                          ELSE ~PidMatches(t, owner[t])}

RecoverStale ==
    /\ status' = [t \in Tasks |-> IF t \in StaleLeases
                                  THEN RecoveredStatus(status[t]) ELSE status[t]]
    /\ ReleaseLeases(StaleLeases)

-----------------------------------------------------------------------------
(* validate_inventory_signature and the view's own check, in a transaction *)
(* that has already recovered the stale leases                             *)

KeptLeases == ActiveLeases \ StaleLeases
KeptGpus == UNION {rows[t] : t \in KeptLeases}

\* Bug: active leases are not looked at.
InventoryAccepted_Always(gpus) == gpus # {}

InventoryAccepted(gpus) ==
    /\ gpus # {}
    /\ signature \in {{}, gpus} \/ KeptLeases = {}
    /\ KeptGpus \subseteq gpus

-----------------------------------------------------------------------------
(* allocate_batch *)

\* The devices in nvidia-smi order.
InOrder(S) ==
    [i \in 1 .. Cardinality(S) |->
        CHOOSE g \in S : Cardinality({h \in S : h < g}) = i - 1]

BatchRaises(free, external, total) ==
    PlanRaises(InOrder(free), QueuedRequests, Cardinality(total),
               Cardinality(ActiveLeases), Cardinality(external), Reserve)

BatchPlan(free, external, total) ==
    Plan(InOrder(free), QueuedRequests, Cardinality(total),
         Cardinality(ActiveLeases), Cardinality(external), Reserve, StrictFifo)

\* The rows the batch wants to insert, by task.
GrantsOf(plan) ==
    [t \in Tasks |->
        {g \in Gpus : \E i \in DOMAIN plan :
            plan[i].id = t /\ \E k \in DOMAIN plan[i].gpus : plan[i].gpus[k] = g}]

\* leases.task_id and lease_gpus.gpu_uuid are UNIQUE: no second lease for a
\* task, and no device that has a row already or that two leases want.
Insertable(grants) ==
    /\ \A t \in Tasks : grants[t] # {} => lease[t] = "none"
    /\ \A t, u \in Tasks :
         /\ grants[t] \cap rows[u] = {}
         /\ t # u => grants[t] \cap grants[u] = {}

\* A batch that violates a constraint raises StateError and is rolled back as
\* a whole.
AllocateBatch(grants) ==
    LET starts(t) == Insertable(grants) /\ grants[t] # {}
    IN  /\ status' = [t \in Tasks |-> IF starts(t) /\ status[t] = "queued"
                                      THEN "launching" ELSE status[t]]
        /\ lease' = [t \in Tasks |-> IF starts(t) THEN "active" ELSE lease[t]]
        /\ rows' = [t \in Tasks |-> IF starts(t) THEN grants[t] ELSE rows[t]]
        /\ UNCHANGED <<request, owner, overdue, signature>>

-----------------------------------------------------------------------------
(* claim_task, called by the supervisor of t *)

\* What claim_task returns a lease for.  Terminal, cancelling and still queued
\* tasks return None.  A task without a lease (StateError) or with one somebody has
\* claimed (TaskBusyError) does not occur here: Steward!CallsAccepted.
Claimable(t) == status[t] \in {"launching", "running"} /\ owner[t] = "none"

ClaimTask(t) ==
    /\ owner' = [owner EXCEPT ![t] = "supervisor"]
    /\ status' = [status EXCEPT ![t] = "running"]
    /\ overdue' = [overdue EXCEPT ![t] = FALSE]
    /\ UNCHANGED <<request, lease, rows, signature>>

-----------------------------------------------------------------------------
(* update_lease_pid, called by the supervisor of t once it has a child *)

LeasePidUpdatable(t) == lease[t] = "active" /\ owner[t] = "supervisor"

UpdateLeasePid(t) ==
    /\ owner' = [owner EXCEPT ![t] = "child"]
    /\ UNCHANGED <<status, request, lease, rows, overdue, signature>>

-----------------------------------------------------------------------------
(* finish_task, called by the supervisor of t with the identity it thinks  *)
(* the lease has                                                           *)

\* Without an active lease there is nothing to compare: no TaskBusyError.
FinishAllowed(t, who) == lease[t] = "active" => owner[t] = who

FinishedStatus(t, code) ==
    IF status[t] = "cancelling" THEN "cancelled"
    ELSE IF code = "zero" THEN "completed" ELSE "failed"

FinishTask(t, code) ==
    /\ status' = [status EXCEPT ![t] = FinishedStatus(t, code)]
    /\ ReleaseLeases({t})
    /\ UNCHANGED <<request, owner, signature>>

-----------------------------------------------------------------------------
(* request_cancel *)

\* Bug: the reservation of a cancelled task stays.
CancelUnclaimed_KeepingLease(t) ==
    /\ status' = [status EXCEPT ![t] = "cancelled"]
    /\ UNCHANGED <<request, lease, rows, owner, overdue, signature>>

\* A queued task, or a reservation nobody has claimed, ends at once.
CancelUnclaimed(t) ==
    /\ status' = [status EXCEPT ![t] = "cancelled"]
    /\ ReleaseLeases({t})
    /\ UNCHANGED <<request, owner, signature>>

\* A claimed task is marked, once, and its lease row returned to the caller.
Cancelling(t) ==
    [status EXCEPT ![t] = IF @ = "running" THEN "cancelling" ELSE @]
=============================================================================
