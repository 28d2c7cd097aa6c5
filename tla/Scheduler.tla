------------------------------ MODULE Scheduler ------------------------------
(***************************************************************************)
(* The pure planner of src/gpu_steward/scheduler.py: plan_allocations and  *)
(* the Request it works on.  A request is a record                         *)
(*                                                                         *)
(*   [id, min, max, priority, created]                                     *)
(*                                                                         *)
(* whose max is NoMaximum when the caller gave none.  A plan is the code's *)
(* list of Allocation objects: a sequence of records [id, gpus], where     *)
(* gpus is the tuple of devices of one launch decision.                    *)
(***************************************************************************)
EXTENDS Integers, Sequences, FiniteSets, Functions

\* max_gpus = None.
NoMaximum == 0

Lesser(a, b) == IF a <= b THEN a ELSE b
Greater(a, b) == IF a >= b THEN a ELSE b

-----------------------------------------------------------------------------
(* Request.capacity *)

Maximum(r, total) == IF r.max = NoMaximum THEN total ELSE r.max

\* False when capacity raises ValueError.
CapacityDefined(r, total) == r.min >= 1 /\ Maximum(r, total) >= r.min

Capacity(r, total) == Lesser(Maximum(r, total), total)

\* The arguments plan_allocations refuses before it looks at the queue.
ArgumentsValid(free, total, activeJobs, externalBusy, reserve) ==
    /\ IsInjective(free)
    /\ total >= 1
    /\ Len(free) <= total
    /\ activeJobs >= 0 /\ externalBusy >= 0 /\ reserve >= 0

\* The planner raises ValueError: for its own arguments, or because one
\* request of the queue has no capacity on this host.  Capacities are computed
\* for the whole queue, before the planner looks at what is free.
PlanRaises(free, waiting, total, activeJobs, externalBusy, reserve) ==
    \/ ~ArgumentsValid(free, total, activeJobs, externalBusy, reserve)
    \/ \E r \in waiting : ~CapacityDefined(r, total)

-----------------------------------------------------------------------------
(* Queue order: (-priority, created_at, request_id) *)

Before(a, b) ==
    \/ a.priority > b.priority
    \/ a.priority = b.priority /\ a.created < b.created
    \/ a.priority = b.priority /\ a.created = b.created /\ a.id < b.id

Ahead(r, waiting) == {s \in waiting \ {r} : Before(s, r)}

\* The sorted queue: the i-th request has i - 1 others ahead.
QueueOrder(waiting) ==
    [i \in 1 .. Cardinality(waiting) |->
        CHOOSE r \in waiting : Cardinality(Ahead(r, waiting)) = i - 1]

-----------------------------------------------------------------------------
(* The branch for one waiter on an idle host *)

\* Bug: the reserve is not capped at total - 1.
SoloBudget_Uncapped(total, reserve) == total - reserve

SoloBudget(total, reserve) == Greater(1, total - Lesser(reserve, total - 1))

SoloPlan(r, free, total, reserve) ==
    LET grant == Lesser(Len(free),
                        Lesser(Capacity(r, total), SoloBudget(total, reserve)))
    IN  IF grant < r.min THEN <<>>
        ELSE <<[id |-> r.id, gpus |-> SubSeq(free, 1, grant)]>>

-----------------------------------------------------------------------------
(* The fair branch: minimums in queue order, then one GPU per pass *)

\* Bug: a request whose minimum is exactly what is left is passed over.
Admit_OffByOne(acc, r, strict) ==
    IF acc.open /\ r.min < acc.left
    THEN [acc EXCEPT !.chosen = Append(@, r), !.left = @ - r.min]
    ELSE [acc EXCEPT !.open = @ /\ ~strict]

\* One step of the selection loop.  acc.open is false after the strict mode's
\* break.
Admit(acc, r, strict) ==
    IF acc.open /\ r.min <= acc.left
    THEN [acc EXCEPT !.chosen = Append(@, r), !.left = @ - r.min]
    ELSE [acc EXCEPT !.open = @ /\ ~strict]

\* The requests that get their minimum, and what is left of n free devices.
Selection(queue, n, strict) ==
    LET after[i \in 0 .. Len(queue)] ==
            IF i = 0 THEN [chosen |-> <<>>, left |-> n, open |-> TRUE]
            ELSE Admit(after[i - 1], queue[i], strict)
    IN  after[Len(queue)]

\* Bug: the first request takes all it can before the next one gets any.
Grow_Greedy(acc, i, chosen, total) ==
    LET more == Lesser(acc.left, Capacity(chosen[i], total) - acc.grants[i])
    IN  [left |-> acc.left - more,
         grants |-> [acc.grants EXCEPT ![i] = @ + more]]

\* One step of a round-robin pass: chosen[i] gets one more GPU.
Grow(acc, i, chosen, total) ==
    IF acc.left > 0 /\ acc.grants[i] < Capacity(chosen[i], total)
    THEN [left |-> acc.left - 1, grants |-> [acc.grants EXCEPT ![i] = @ + 1]]
    ELSE acc

Pass(acc, chosen, total) ==
    LET after[i \in 0 .. Len(chosen)] ==
            IF i = 0 THEN acc ELSE Grow(after[i - 1], i, chosen, total)
    IN  after[Len(chosen)]

Minimums(chosen) == [i \in DOMAIN chosen |-> chosen[i].min]

\* The passes.  One that hands out nothing ends the code's loop and changes
\* nothing here, so `left` passes are always enough.
Grants(chosen, left, total) ==
    LET after[k \in 0 .. left] ==
            IF k = 0 THEN [left |-> left, grants |-> Minimums(chosen)]
            ELSE Pass(after[k - 1], chosen, total)
    IN  after[left].grants

\* Bug: the cursor does not move past the slice just taken.
Slices_FixedCursor(chosen, grants, free) ==
    [i \in DOMAIN chosen |->
        [id |-> chosen[i].id, gpus |-> SubSeq(free, 1, grants[i])]]

\* Consecutive slices of the free devices, one per selected request.
Slices(chosen, grants, free) ==
    LET cursor[i \in 0 .. Len(chosen)] ==
            IF i = 0 THEN 0 ELSE cursor[i - 1] + grants[i]
    IN  [i \in DOMAIN chosen |->
            [id |-> chosen[i].id,
             gpus |-> SubSeq(free, cursor[i - 1] + 1, cursor[i])]]

FairPlan(queue, free, total, strict) ==
    LET picked == Selection(queue, Len(free), strict)
    IN  Slices(picked.chosen, Grants(picked.chosen, picked.left, total), free)

-----------------------------------------------------------------------------
(* plan_allocations, for arguments on which it does not raise *)

IsSolo(waiting, activeJobs, externalBusy) ==
    /\ activeJobs = 0 /\ externalBusy = 0
    /\ Cardinality(waiting) = 1

Plan(free, waiting, total, activeJobs, externalBusy, reserve, strict) ==
    IF free = <<>> \/ waiting = {} THEN <<>>
    ELSE IF IsSolo(waiting, activeJobs, externalBusy)
         THEN SoloPlan(CHOOSE r \in waiting : TRUE, free, total, reserve)
         ELSE FairPlan(QueueOrder(waiting), free, total, strict)
=============================================================================
