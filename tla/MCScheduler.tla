----------------------------- MODULE MCScheduler -----------------------------
(***************************************************************************)
(* Every call of plan_allocations with small arguments, one state per call *)
(* and one for its answer, checked against what the README and the         *)
(* docstring promise of a launch batch.                                    *)
(***************************************************************************)
EXTENDS Scheduler

CONSTANTS MaxTotal,    \* bound: GPUs on the host
          MaxWaiters,  \* bound: requests in the queue
          MaxMin,      \* bound: a request's min_gpus
          Reserves     \* values of reserve_gpus

ASSUME PlannerAssumption ==
    MaxTotal \in Nat /\ MaxWaiters \in Nat /\ MaxMin \in Nat /\ Reserves \subseteq Nat

VARIABLES call,      \* the arguments
          plan,      \* the list returned
          returned   \* the call returned, rather than not made yet or raised
vars == <<call, plan, returned>>

NoCall == [waiting |-> {}, free |-> <<>>, total |-> 0,
           active |-> 0, external |-> 0, reserve |-> 0, strict |-> FALSE]

\* (min, max) as add_task accepts them: max is NoMaximum or at least min.
Ranges == {g \in [min : 1 .. MaxMin, max : 0 .. MaxMin + 1] :
             g.max = NoMaximum \/ g.max >= g.min}

\* Request 1 is the first one for the identifier and the last one, or as old as the
\* others, for the age.
Ranks(n) == {p \in [1 .. n -> 0 .. 1] : \A i \in 2 .. n - 1 : p[i] = p[n]}
Ages(n) == {c \in [1 .. n -> 0 .. 1] : \A i \in 1 .. n - 1 : c[i] >= c[i + 1]}

Queue(n, range, rank, age) ==
    {[id |-> i, min |-> range[i].min, max |-> range[i].max,
      priority |-> rank[i], created |-> age[i]] : i \in 1 .. n}

\* The queues of n requests.
Queues(n) ==
    {Queue(n, range, rank, age) :
        range \in [1 .. n -> Ranges], rank \in Ranks(n), age \in Ages(n)}

\* k free devices of a host with `total`: the last ones.
FreeList(k, total) == [i \in 1 .. k |-> total - k + i]

Init == call = NoCall /\ plan = <<>> /\ returned = FALSE

\* A host whose other devices are leased or externally busy.
Choose ==
    /\ call = NoCall
    /\ \E total \in 1 .. MaxTotal, n \in 1 .. MaxWaiters, strict \in BOOLEAN,
          active \in 0 .. 1 :
         \E k \in 0 .. total, waiting \in Queues(n),
            reserve \in IF n = 1 THEN Reserves ELSE {1} :
            /\ active <= total - k
            /\ call' = [waiting |-> waiting, free |-> FreeList(k, total),
                        total |-> total, active |-> active,
                        external |-> total - k - active,
                        reserve |-> reserve, strict |-> strict]
    /\ UNCHANGED <<plan, returned>>

Answer ==
    /\ call # NoCall /\ ~returned
    /\ ~PlanRaises(call.free, call.waiting, call.total,
                   call.active, call.external, call.reserve)
    /\ plan' = Plan(call.free, call.waiting, call.total, call.active,
                    call.external, call.reserve, call.strict)
    /\ returned' = TRUE
    /\ UNCHANGED call

Next == Choose \/ Answer
Spec == Init /\ [][Next]_vars

-----------------------------------------------------------------------------
Started == {plan[i].id : i \in DOMAIN plan}
Devices(i) == {plan[i].gpus[k] : k \in DOMAIN plan[i].gpus}
RequestOf(id) == CHOOSE r \in call.waiting : r.id = id
GrantOf(id) == LET i == CHOOSE j \in DOMAIN plan : plan[j].id = id
               IN  Len(plan[i].gpus)
Solo == Cardinality(call.waiting) = 1 /\ call.active = 0 /\ call.external = 0
Free == {call.free[k] : k \in DOMAIN call.free}
HandedOut == UNION {Devices(i) : i \in DOMAIN plan}
Left == Cardinality(Free \ HandedOut)

\* The GPUs the minimums of the requests in S need, each under the name of the
\* request that needs it.
Needs(S) == UNION {{r.id} \X (1 .. r.min) : r \in S}

\* A batch hands out each free device at most once and nothing that is not
\* free, and every request it starts gets between its minimum and its maximum
\* (README: "GPUs are never oversubscribed by the coordinator").
BatchSound ==
    /\ \A i \in DOMAIN plan :
         /\ Devices(i) \subseteq Free
         /\ Cardinality(Devices(i)) = Len(plan[i].gpus)
         /\ LET r == RequestOf(plan[i].id)
            IN  /\ Len(plan[i].gpus) >= r.min
                /\ r.max # NoMaximum => Len(plan[i].gpus) <= r.max
    /\ \A i, j \in DOMAIN plan : i # j =>
         plan[i].id # plan[j].id /\ Devices(i) \cap Devices(j) = {}

\* Outside the reserve rule no device stays idle that a request could use: what
\* is left over is too small for every request passed over (for the oldest of
\* them in strict mode), and every started request is at its maximum.
NothingIdle ==
    returned /\ ~Solo /\ Left > 0 =>
        LET passed == {r \in call.waiting : r.id \notin Started}
        IN  /\ \A id \in Started :
                  RequestOf(id).max # NoMaximum /\ GrantOf(id) = RequestOf(id).max
            /\ \A r \in passed :
                  \/ r.min > Left
                  \/ call.strict /\ \E s \in passed : s # r /\ Before(s, r)

\* With strict_fifo nobody overtakes: the batch is a prefix of the queue by
\* priority, then age, then identifier (README, rule 5).
StrictKeepsOrder ==
    call.strict /\ returned =>
        \A s \in call.waiting, r \in call.waiting :
            s.id \in Started /\ r.id \notin Started =>
                \/ s.priority > r.priority
                \/ s.priority = r.priority /\ s.created <= r.created

\* Without strict_fifo a request is overtaken only when its minimum does not
\* fit beside the minimums of the requests started ahead of it.
OvertakenOnlyIfInfeasible ==
    returned =>
        \A s \in call.waiting, r \in call.waiting :
            s.id \in Started /\ r.id \notin Started /\ Before(r, s) =>
                r.min + Cardinality(Needs({q \in call.waiting :
                                             q.id \in Started /\ Before(q, r)}))
                  > Len(call.free)

\* Round robin: a request gets a GPU more than another one over its minimum
\* only if it is ahead in the queue or the other is at its maximum, and two
\* GPUs more only in the second case (README, rule 4).
EvenGrowth ==
    \A a, b \in Started :
        LET extra(id) == GrantOf(id) - RequestOf(id).min
            full(id) == GrantOf(id) = Capacity(RequestOf(id), call.total)
        IN  extra(a) > extra(b) =>
              \/ full(b)
              \/ extra(a) = extra(b) + 1 /\ Before(RequestOf(a), RequestOf(b))

\* The first job of an idle host leaves a GPU for the second request whenever
\* there is more than one and a reserve is configured (README, rule 1).
FirstJobLeavesRoom ==
    Solo /\ call.reserve > 0 /\ call.total > 1 => Cardinality(HandedOut) < call.total

\* ... and however large the reserve, a lone request for one GPU is started
\* (README: "the reserve becomes 0" on a host with one GPU).
LoneRequestStarts ==
    returned /\ Solo /\ call.free # <<>> /\ (\E r \in call.waiting : r.min = 1)
        => plan # <<>>

\* What the docstring says of the batch: "the batch starts as many feasible
\* jobs as possible" (scheduler.py).  Selection is greedy in queue order.
StartsAsManyAsPossible ==
    returned /\ ~Solo /\ ~call.strict =>
        \A S \in SUBSET call.waiting :
            Cardinality(Needs(S)) <= Len(call.free)
                => Cardinality(S) <= Cardinality(Started)

\* What remains after the minimums is given out, as far and as evenly as the
\* maximums allow (README, rule 4).
LeftoverShared == NothingIdle /\ EvenGrowth

\* Who starts is decided by the queue alone, strict or backfilling (README,
\* rule 5).
QueueOrderKept == StrictKeepsOrder /\ OvertakenOnlyIfInfeasible

\* The reserve leaves room for a second job, and never the host idle (README,
\* rule 1).
ReserveRule == FirstJobLeavesRoom /\ LoneRequestStarts
=============================================================================
