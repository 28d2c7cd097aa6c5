----------------------------- MODULE PlannerProof ----------------------------
(***************************************************************************)
(* What module MCScheduler checks of plan_allocations on small queues,     *)
(* proved for every number of devices, every number of requests, every     *)
(* minimum and every reserve.                                              *)
(***************************************************************************)
EXTENDS MCScheduler, SchedulerProof

-----------------------------------------------------------------------------
(* The calls *)

\* A queue of distinct requests, a list of devices and the settings.
WellFormed ==
    /\ call.waiting \in SUBSET Requests(Int) /\ IsFiniteSet(call.waiting)
    /\ \A r, s \in call.waiting : r.id = s.id => r = s
    /\ call.free \in Seq(Int) /\ call.total \in Nat /\ call.reserve \in Nat
    /\ call.strict \in BOOLEAN

\* The planner has answered the call, which it did not refuse.
Answered ==
    /\ ~PlanRaises(call.free, call.waiting, call.total,
                   call.active, call.external, call.reserve)
    /\ plan = Plan(call.free, call.waiting, call.total, call.active,
                   call.external, call.reserve, call.strict)

CallInv ==
    /\ WellFormed
    /\ returned \in BOOLEAN
    /\ IF returned THEN Answered ELSE plan = <<>>

\* The queues of the calls are such queues.
LEMMA QueuesWellFormed ==
    ASSUME NEW n \in Nat, NEW waiting \in Queues(n)
    PROVE  /\ waiting \in SUBSET Requests(Int) /\ IsFiniteSet(waiting)
           /\ \A r, s \in waiting : r.id = s.id => r = s
<1>1. PICK range \in [1 .. n -> Ranges], rank \in Ranks(n), age \in Ages(n) :
        waiting = Queue(n, range, rank, age)
  BY DEF Queues
<1> DEFINE f == [i \in 1 .. n |->
                   [id |-> i, min |-> range[i].min, max |-> range[i].max,
                    priority |-> rank[i], created |-> age[i]]]
<1>2. ASSUME NEW i \in 1 .. n
      PROVE  f[i] \in Requests(Int) /\ f[i].id = i
  <2>1. range[i] \in [min : 1 .. MaxMin, max : 0 .. MaxMin + 1]
    BY DEF Ranges
  <2>2. range[i].min \in Nat \ {0} /\ range[i].max \in Nat
    BY <2>1, PlannerAssumption
  <2>3. rank[i] \in Int /\ age[i] \in Int
    BY DEF Ranks, Ages
  <2> QED BY <2>2, <2>3 DEF Requests
<1>3. waiting = {f[i] : i \in 1 .. n}
  BY <1>1 DEF Queue
<1>4. IsFiniteSet(waiting)
  <2>1. f \in Surjection(1 .. n, waiting)
    BY <1>3 DEF Surjection
  <2>2. IsFiniteSet(1 .. n)
    BY FS_Interval
  <2> HIDE DEF f
  <2> QED BY <2>1, <2>2, FS_Surjection
<1> HIDE DEF f
<1> QED BY <1>2, <1>3, <1>4

\* A call, and its answer.
LEMMA InitCall == Init => CallInv
<1> SUFFICES ASSUME Init PROVE CallInv
  OBVIOUS
<1>1. /\ call.waiting = {} /\ call.free = <<>> /\ call.total = 0 /\ call.reserve = 0
      /\ call.strict \in BOOLEAN /\ plan = <<>> /\ returned = FALSE
  BY DEF Init, NoCall
<1>2. <<>> \in Seq(Int) /\ IsFiniteSet({})
  BY FS_EmptySet
<1>3. WellFormed
  BY <1>1, <1>2 DEF WellFormed
<1> QED BY <1>1, <1>3 DEF CallInv

\* Making a call and answering it keep this so.
LEMMA NextCall == CallInv /\ [Next]_vars => CallInv'
<1> SUFFICES ASSUME CallInv, [Next]_vars PROVE CallInv'
  OBVIOUS
<1>1. CASE Choose
  <2>1. PICK total \in 1 .. MaxTotal, n \in 1 .. MaxWaiters, strict \in BOOLEAN,
             active \in 0 .. 1 :
               \E k \in 0 .. total, waiting \in Queues(n),
                  reserve \in IF n = 1 THEN Reserves ELSE {1} :
                    call' = [waiting |-> waiting, free |-> FreeList(k, total),
                             total |-> total, active |-> active,
                             external |-> total - k - active,
                             reserve |-> reserve, strict |-> strict]
    BY <1>1 DEF Choose
  <2>2. PICK k \in 0 .. total, waiting \in Queues(n),
             reserve \in IF n = 1 THEN Reserves ELSE {1} :
               call' = [waiting |-> waiting, free |-> FreeList(k, total),
                        total |-> total, active |-> active,
                        external |-> total - k - active,
                        reserve |-> reserve, strict |-> strict]
    BY <2>1
  <2>3. total \in Nat /\ n \in Nat /\ reserve \in Nat /\ k \in Nat
    BY PlannerAssumption
  <2>4. FreeList(k, total) \in Seq(Int)
    <3>1. FreeList(k, total) \in [1 .. k -> Int]
      BY <2>3 DEF FreeList
    <3> QED BY <2>3, <3>1
  <2>5. WellFormed'
    BY <2>2, <2>3, <2>4, QueuesWellFormed DEF WellFormed
  <2>6. ~returned
    BY <1>1, FS_EmptySet DEF Choose, CallInv, Answered, NoCall, PlanRaises, ArgumentsValid
  <2> QED BY <1>1, <2>5, <2>6 DEF Choose, CallInv
<1>2. CASE Answer
  BY <1>2 DEF Answer, CallInv, WellFormed, Answered
<1>3. CASE UNCHANGED vars
  BY <1>3 DEF vars, CallInv, WellFormed, Answered
<1> QED BY <1>1, <1>2, <1>3 DEF Next

\* Every call is well formed and every answer is the planner's.
LEMMA CallInvariant == Spec => []CallInv
BY InitCall, NextCall, PTL DEF Spec

-----------------------------------------------------------------------------
(* The answers *)

\* The plan starts len requests of the queue with the grants g, the next slice of the
\* free devices each.
Sliced(len, chosen, g, c) ==
    /\ len \in Nat /\ chosen \in [1 .. len -> call.waiting]
    /\ \A i, j \in 1 .. len : i # j => chosen[i] # chosen[j]
    /\ g \in [1 .. len -> Nat] /\ IsSums(c, g, len) /\ c[len] <= Len(call.free)
    /\ \A i \in 1 .. len : /\ chosen[i].min \in Nat /\ chosen[i].min <= g[i]
                           /\ Capacity(chosen[i], call.total) \in Nat
                           /\ g[i] <= Capacity(chosen[i], call.total)
    /\ plan = [i \in 1 .. len |-> [id |-> chosen[i].id,
                                   gpus |-> SubSeq(call.free, c[i - 1] + 1, c[i])]]

\* The queue in order.
Listed(m, queue) ==
    /\ m \in Nat /\ queue \in [1 .. m -> call.waiting]
    /\ \A r \in call.waiting : \E i \in 1 .. m : queue[i] = r
    /\ \A i, j \in 1 .. m : i < j => queue[i] # queue[j] /\ Before(queue[i], queue[j])

\* The requests that start are those at the places pos, their minimums have the sums
\* low, and all others were passed over.
Selected(m, queue, len, chosen, pos, low) ==
    /\ IsPlaces(pos, len, m) /\ \A k \in 1 .. len : chosen[k] = queue[pos[k]]
    /\ IsSums(low, [k \in 1 .. len |-> chosen[k].min], len)
    /\ \A p \in 1 .. m :
         \/ Taken(pos, len, p)
         \/ PassedOver(pos, low, len, queue, Len(call.free), call.strict, p)
    /\ call.strict => \A p \in 1 .. m : \A q \in 1 .. p - 1 :
                        Taken(pos, len, p) => Taken(pos, len, q)

\* The grants are where the passes of the round robin end.
Evened(len, chosen, g, c) ==
    /\ \E k \in Nat, i \in 0 .. len : \A j \in 1 .. len :
         g[j] = Lesser(Capacity(chosen[j], call.total),
                       chosen[j].min + k + (IF j <= i THEN 1 ELSE 0))
    /\ c[len] < Len(call.free) =>
         \A j \in 1 .. len : g[j] = Capacity(chosen[j], call.total)

Fair ==
    \E m, queue, len, chosen, pos, low, g, c :
        /\ Listed(m, queue) /\ Sliced(len, chosen, g, c)
        /\ Selected(m, queue, len, chosen, pos, low) /\ Evened(len, chosen, g, c)

\* The fair branch answers so.
LEMMA FairAnswer ==
    ASSUME WellFormed, Answered, call.free # <<>>, call.waiting # {}, ~Solo
    PROVE  Fair
<1> DEFINE waiting == call.waiting
           free == call.free
           total == call.total
           strict == call.strict
           n == Len(free)
           m == Cardinality(waiting)
           queue == QueueOrder(waiting)
           picked == Selection(queue, n, strict)
           chosen == picked.chosen
           len == Len(chosen)
           g == Grants(chosen, picked.left, total)
<1>1. /\ waiting \in SUBSET Requests(Int) /\ IsFiniteSet(waiting)
      /\ \A r, s \in waiting : r.id = s.id => r = s
      /\ free \in Seq(Int) /\ total \in Nat /\ strict \in BOOLEAN
      /\ n <= total /\ \A r \in waiting : CapacityDefined(r, total)
  BY DEF WellFormed, Answered, PlanRaises, ArgumentsValid
<1>2. Ordered(waiting)
  BY <1>1, OrderedByIds
<1>3. Listed(m, queue)
  BY <1>1, <1>2, QueueSorted DEF Listed
<1>4. m \in Nat /\ queue \in [1 .. m -> waiting] /\ Len(queue) = m
  BY <1>3, LenProperties DEF Listed
<1>5. /\ picked \in Picks(waiting)
      /\ FairShape(picked, g, queue, free, total, strict)
      /\ FairPlan(queue, free, total, strict) = Slices(chosen, g, free)
  <2> DEFINE Ids == Int
  <2>1. /\ waiting \in SUBSET Requests(Ids) /\ free \in Seq(Ids) /\ Len(free) <= total
        /\ total \in Nat /\ strict \in BOOLEAN /\ \A r \in waiting : CapacityDefined(r, total)
    BY <1>1
  <2> HIDE DEF waiting, free, total, strict, m, queue, Ids
  <2> QED BY <1>4, <2>1, FairPlanShape
<1>6. plan = FairPlan(queue, free, total, strict)
  BY DEF Answered, Plan, IsSolo, Solo
<1> HIDE DEF waiting, free, total, strict, n, m, queue, picked, g
<1>7. chosen \in Seq(waiting) /\ len \in Nat /\ chosen \in [1 .. len -> waiting]
  <2>1. chosen \in Seq(waiting)
    BY <1>5 DEF Picks
  <2> QED BY <2>1, LenProperties
<1>8. PICK pos, low : ChosenSum(pos, low, picked, queue, n, m)
                      /\ ChosenRule(pos, low, picked, queue, n, m, strict)
  BY <1>4, <1>5 DEF FairShape, Chosen, n
<1>9. PICK k \in Nat, i \in 0 .. len : g = Level(chosen, total, k, i)
  BY <1>5 DEF FairShape, Granted
<1>10. PICK c : /\ IsSums(c, g, len) /\ c[len] <= n
                /\ c[len] < n => \A j \in 1 .. len : g[j] = Capacity(chosen[j], total)
  BY <1>5 DEF FairShape, Granted, n
<1>11. g \in [1 .. len -> Nat]
  BY <1>5 DEF FairShape, Granted
<1>12. plan = [j \in 1 .. len |-> [id |-> chosen[j].id,
                                   gpus |-> SubSeq(free, c[j - 1] + 1, c[j])]]
  <2> HIDE DEF chosen
  <2> QED BY <1>5, <1>6, <1>7, <1>10, <1>11, SlicesAt DEF len
<1>13. ASSUME NEW j \in 1 .. len
       PROVE  /\ chosen[j].min \in Nat /\ Capacity(chosen[j], total) \in Nat
              /\ chosen[j].min <= Capacity(chosen[j], total)
              /\ g[j] = Lesser(Capacity(chosen[j], total),
                               chosen[j].min + k + (IF j <= i THEN 1 ELSE 0))
  <2>1. /\ chosen[j].min \in Nat /\ Capacity(chosen[j], total) \in Nat
        /\ chosen[j].min <= Capacity(chosen[j], total)
    BY <1>5 DEF FairShape, Fitting
  <2> QED BY <1>9, <2>1 DEF Level
<1> HIDE DEF chosen, len
<1>14. /\ IsPlaces(pos, len, m) /\ \A a \in 1 .. len : chosen[a] = queue[pos[a]]
       /\ IsSums(low, Minimums(chosen), len)
  BY <1>8 DEF ChosenSum, chosen, len
<1>15. Minimums(chosen) = [a \in 1 .. len |-> chosen[a].min]
  BY <1>7 DEF Minimums
<1>16. Selected(m, queue, len, chosen, pos, low)
  <2>1. /\ \A p \in 1 .. m : Taken(pos, len, p) \/ PassedOver(pos, low, len, queue, n, strict, p)
        /\ strict => \A p \in 1 .. m : \A q \in 1 .. p - 1 :
                       Taken(pos, len, p) => Taken(pos, len, q)
    BY <1>8 DEF ChosenRule, chosen, len
  <2> QED BY <1>14, <1>15, <2>1 DEF Selected, n, free, strict
<1>17. ASSUME NEW a \in 1 .. len, NEW b \in 1 .. len, a # b
       PROVE  chosen[a] # chosen[b]
  <2>1. pos[a] \in 1 .. m /\ pos[b] \in 1 .. m /\ (pos[a] < pos[b] \/ pos[b] < pos[a])
    <3>1. a < b \/ b < a
      BY <1>7, <1>17
    <3> QED BY <1>14, <3>1 DEF IsPlaces
  <2>2. queue[pos[a]] # queue[pos[b]]
    BY <1>3, <2>1 DEF Listed
  <2> QED BY <1>14, <2>2
<1>18. Evened(len, chosen, g, c)
  BY <1>10, <1>13 DEF Evened, n, free, total
<1>19. ASSUME NEW j \in 1 .. len
       PROVE  chosen[j].min <= g[j] /\ g[j] <= Capacity(chosen[j], total)
  BY <1>13 DEF Lesser
<1>20. Sliced(len, chosen, g, c)
  BY <1>7, <1>10, <1>11, <1>12, <1>13, <1>17, <1>19 DEF Sliced, n, free, total, waiting
<1> QED BY <1>3, <1>16, <1>18, <1>20 DEF Fair

\* The branch for one waiter.
Lone(r, grant) ==
    /\ call.waiting = {r}
    /\ grant = Lesser(Len(call.free),
                      Lesser(Capacity(r, call.total), SoloBudget(call.total, call.reserve)))
    /\ grant < r.min => plan = <<>>
    /\ ~(grant < r.min) =>
          plan = [i \in 1 .. 1 |-> [id |-> r.id, gpus |-> SubSeq(call.free, 1, grant)]]

\* It answers so.
LEMMA SoloAnswer ==
    ASSUME WellFormed, Answered, call.free # <<>>, Solo
    PROVE  \E r \in call.waiting : \E grant \in Nat : Lone(r, grant)
<1> DEFINE r == CHOOSE q \in call.waiting : TRUE
           grant == Lesser(Len(call.free),
                           Lesser(Capacity(r, call.total), SoloBudget(call.total, call.reserve)))
<1>1. PICK q : call.waiting = {q}
  BY FS_Singleton DEF WellFormed, Solo
<1>2. r \in call.waiting /\ call.waiting = {r}
  BY <1>1
<1>3. /\ Len(call.free) \in Nat /\ r.min \in Nat \ {0} /\ r.max \in Nat
      /\ call.total \in Nat \ {0} /\ call.reserve \in Nat
  BY <1>2, LenProperties DEF WellFormed, Requests, Answered, PlanRaises, ArgumentsValid
<1>4. grant \in Nat
  <2>1. Capacity(r, call.total) \in Nat /\ SoloBudget(call.total, call.reserve) \in Nat
    BY <1>3 DEF Capacity, Maximum, SoloBudget, Lesser, Greater
  <2> QED BY <1>3, <2>1 DEF Lesser
<1>5. plan = IF grant < r.min THEN <<>>
             ELSE <<[id |-> r.id, gpus |-> SubSeq(call.free, 1, grant)]>>
  BY <1>2 DEF Answered, Plan, IsSolo, Solo, SoloPlan
<1>6. \A x : [i \in 1 .. 1 |-> x] = <<x>>
  OBVIOUS
<1>7. call.waiting = {r} /\ grant = Lesser(Len(call.free),
                      Lesser(Capacity(r, call.total), SoloBudget(call.total, call.reserve)))
  BY <1>2
<1> HIDE DEF r, grant
<1>8. Lone(r, grant)
  BY <1>5, <1>6, <1>7 DEF Lone
<1> QED BY <1>2, <1>4, <1>8

\* An empty answer, ...
LEMMA SlicedNone ==
    ASSUME WellFormed, plan = <<>>
    PROVE  \E chosen, g, c : Sliced(0, chosen, g, c)
<1> DEFINE chosen == [i \in 1 .. 0 |-> 0]
           g == [i \in 1 .. 0 |-> 0]
           c == [i \in 0 .. 0 |-> 0]
<1>1. Len(call.free) \in Nat
  BY LenProperties DEF WellFormed
<1>2. chosen \in [1 .. 0 -> call.waiting] /\ g \in [1 .. 0 -> Nat]
  OBVIOUS
<1>3. IsSums(c, g, 0) /\ c[0] <= Len(call.free)
  BY <1>1 DEF IsSums
<1>4. plan = [i \in 1 .. 0 |-> [id |-> chosen[i].id,
                                gpus |-> SubSeq(call.free, c[i - 1] + 1, c[i])]]
  OBVIOUS
<1> HIDE DEF chosen, g, c
<1>5. Sliced(0, chosen, g, c)
  BY <1>2, <1>3, <1>4 DEF Sliced
<1> QED BY <1>5

\* ... a single decision ...
LEMMA SlicedOne ==
    ASSUME WellFormed, Answered, NEW r \in call.waiting, NEW grant \in Nat,
           Lone(r, grant), ~(grant < r.min)
    PROVE  \E chosen, g, c : Sliced(1, chosen, g, c) /\ g[1] = grant
<1> DEFINE chosen == [i \in 1 .. 1 |-> r]
           g == [i \in 1 .. 1 |-> grant]
           c == [i \in 0 .. 1 |-> IF i = 0 THEN 0 ELSE grant]
<1>1. /\ Len(call.free) \in Nat /\ r.min \in Nat \ {0} /\ r.max \in Nat
      /\ call.total \in Nat \ {0} /\ call.reserve \in Nat
  BY LenProperties DEF WellFormed, Requests, Answered, PlanRaises, ArgumentsValid
<1>2. Capacity(r, call.total) \in Nat /\ SoloBudget(call.total, call.reserve) \in Nat
  BY <1>1 DEF Capacity, Maximum, SoloBudget, Lesser, Greater
<1>3. grant <= Len(call.free) /\ grant <= Capacity(r, call.total) /\ r.min <= grant
  BY <1>1, <1>2 DEF Lone, Lesser
<1>4. chosen \in [1 .. 1 -> call.waiting] /\ g \in [1 .. 1 -> Nat] /\ g[1] = grant
  OBVIOUS
<1>5. IsSums(c, g, 1) /\ c[1] = grant /\ c[0] = 0
  BY DEF IsSums
<1>6. \A i \in 1 .. 1 : i = 1 /\ chosen[i] = r /\ g[i] = grant /\ i - 1 = 0
  OBVIOUS
<1> HIDE DEF chosen, g, c
<1>7. plan = [i \in 1 .. 1 |-> [id |-> chosen[i].id,
                                gpus |-> SubSeq(call.free, c[i - 1] + 1, c[i])]]
  BY <1>5, <1>6 DEF Lone
<1>8. Sliced(1, chosen, g, c)
  BY <1>1, <1>2, <1>3, <1>4, <1>5, <1>6, <1>7 DEF Sliced
<1> QED BY <1>4, <1>8

\* ... or a fair one: every answer is a list of slices.
LEMMA AnswerSliced ==
    ASSUME WellFormed, Answered
    PROVE  \E len, chosen, g, c : Sliced(len, chosen, g, c)
<1>1. CASE call.free = <<>> \/ call.waiting = {}
  <2>1. plan = <<>>
    BY <1>1 DEF Answered, Plan
  <2> QED BY <2>1, SlicedNone
<1>2. CASE call.free # <<>> /\ call.waiting # {} /\ ~Solo
  BY <1>2, FairAnswer DEF Fair
<1>3. CASE call.free # <<>> /\ Solo
  <2>1. PICK r \in call.waiting, grant \in Nat : Lone(r, grant)
    BY <1>3, SoloAnswer
  <2>2. CASE grant < r.min
    BY <2>1, <2>2, SlicedNone DEF Lone
  <2>3. CASE ~(grant < r.min)
    BY <2>1, <2>3, SlicedOne
  <2> QED BY <2>2, <2>3
<1> QED BY <1>1, <1>2, <1>3

-----------------------------------------------------------------------------
(* Reading an answer *)

\* The devices at the places from lo + 1 to hi of the list.
Slice(lo, hi) == {call.free[x] : x \in lo + 1 .. hi}

\* There are hi - lo of them.
LEMMA SliceSize ==
    ASSUME WellFormed, Answered, NEW lo \in Nat, NEW hi \in Nat, lo <= hi, hi <= Len(call.free)
    PROVE  IsFiniteSet(Slice(lo, hi)) /\ Cardinality(Slice(lo, hi)) = hi - lo
<1> DEFINE f == [x \in lo + 1 .. hi |-> call.free[x]]
<1>1. Len(call.free) \in Nat /\ DOMAIN call.free = 1 .. Len(call.free)
  BY LenProperties DEF WellFormed
<1>2. \A x, y \in 1 .. Len(call.free) : call.free[x] = call.free[y] => x = y
  BY <1>1 DEF Answered, PlanRaises, ArgumentsValid, IsInjective
<1>3. \A x \in lo + 1 .. hi : x \in 1 .. Len(call.free)
  BY <1>1
<1>4. f \in Surjection(lo + 1 .. hi, Slice(lo, hi))
  BY DEF Surjection, Slice
<1>5. f \in Injection(lo + 1 .. hi, Slice(lo, hi))
  BY <1>2, <1>3, <1>4 DEF Injection, IsInjective, Surjection
<1>6. IsFiniteSet(lo + 1 .. hi) /\ Cardinality(lo + 1 .. hi) = hi - lo
  <2>1. lo + 1 \in Int /\ hi \in Int
    OBVIOUS
  <2>2. /\ IsFiniteSet(lo + 1 .. hi)
        /\ Cardinality(lo + 1 .. hi) = IF lo + 1 > hi THEN 0 ELSE hi - (lo + 1) + 1
    BY <2>1, FS_Interval, Zenon
  <2> QED BY <2>2
<1> HIDE DEF f
<1> QED BY <1>4, <1>5, <1>6, FS_Surjection

\* What the operators that look at a plan find in a list of slices.
Reads(len, chosen, g, c) ==
    /\ DOMAIN plan = 1 .. len
    /\ \A i \in 1 .. len :
         /\ plan[i].id = chosen[i].id /\ Len(plan[i].gpus) = g[i]
         /\ Devices(i) = Slice(c[i - 1], c[i])
         /\ RequestOf(chosen[i].id) = chosen[i] /\ GrantOf(chosen[i].id) = g[i]
    /\ Started = {chosen[i].id : i \in 1 .. len}

\* They find this.
LEMMA SlicedReads ==
    ASSUME WellFormed, Answered, NEW len, NEW chosen, NEW g, NEW c, Sliced(len, chosen, g, c)
    PROVE  Reads(len, chosen, g, c)
<1>1. /\ len \in Nat /\ chosen \in [1 .. len -> call.waiting]
      /\ \A i, j \in 1 .. len : i # j => chosen[i] # chosen[j]
      /\ g \in [1 .. len -> Nat] /\ IsSums(c, g, len) /\ c[len] <= Len(call.free)
      /\ plan = [i \in 1 .. len |-> [id |-> chosen[i].id,
                                     gpus |-> SubSeq(call.free, c[i - 1] + 1, c[i])]]
      /\ call.free \in Seq(Int) /\ \A r, s \in call.waiting : r.id = s.id => r = s
  BY DEF Sliced, WellFormed
<1>2. DOMAIN plan = 1 .. len /\ \A i \in 1 .. len : plan[i].id = chosen[i].id
  BY <1>1
<1>3. \A i, j \in 0 .. len : i <= j => c[i] <= c[j]
  BY <1>1, SumsGrow
<1>4. ASSUME NEW i \in 1 .. len
      PROVE  Len(plan[i].gpus) = g[i] /\ Devices(i) = Slice(c[i - 1], c[i])
  <2> DEFINE lo == c[i - 1]
             hi == c[i]
             gpus == plan[i].gpus
  <2>1. i \in 0 .. len /\ i - 1 \in 0 .. len /\ len \in 0 .. len /\ i <= len
    BY <1>1
  <2>2. lo \in Nat /\ hi \in Nat /\ hi = lo + g[i] /\ g[i] \in Nat
    BY <1>1, <2>1 DEF IsSums
  <2>3. hi <= Len(call.free) /\ Len(call.free) \in Nat
        /\ \A x \in 1 .. Len(call.free) : call.free[x] \in Int
    <3>1. hi <= c[len] /\ c[len] \in Nat
      BY <1>1, <1>3, <2>1 DEF IsSums
    <3>2. Len(call.free) \in Nat /\ \A x \in 1 .. Len(call.free) : call.free[x] \in Int
      BY <1>1, LenProperties
    <3>3. c[len] <= Len(call.free)
      BY <1>1
    <3> HIDE DEF lo, hi, gpus
    <3> QED BY <2>2, <3>1, <3>2, <3>3
  <2>4. gpus = SubSeq(call.free, lo + 1, hi)
    BY <1>1
  <2> HIDE DEF lo, hi, gpus
  <2> DEFINE gi == g[i]
  <2>5. gi \in Nat /\ hi = lo + gi
    BY <2>2
  <2> HIDE DEF gi
  <2>6. /\ gpus \in Seq(Int) /\ Len(gpus) = gi
        /\ \A k \in 1 .. gi : gpus[k] = call.free[lo + k]
    <3>1. \A x \in lo + 1 .. hi : call.free[x] \in Int
      BY <2>2, <2>3
    <3>2. lo + 1 \in Int /\ hi \in Int
      BY <2>2
    <3>3. /\ gpus \in Seq(Int)
          /\ Len(gpus) = IF lo + 1 <= hi THEN hi - (lo + 1) + 1 ELSE 0
          /\ \A k \in 1 .. hi - (lo + 1) + 1 : gpus[k] = call.free[lo + 1 + k - 1]
      BY <2>4, <3>1, <3>2, SubSeqProperties
    <3>4. /\ (IF lo + 1 <= hi THEN hi - (lo + 1) + 1 ELSE 0) = gi
          /\ hi - (lo + 1) + 1 = gi /\ \A k \in 1 .. gi : lo + 1 + k - 1 = lo + k
      BY <2>2, <2>5
    <3> QED BY <3>3, <3>4
  <2>7. DOMAIN gpus = 1 .. gi
    BY <2>6, LenProperties
  <2>8. {gpus[k] : k \in 1 .. gi} = {call.free[x] : x \in lo + 1 .. hi}
    <3>1. ASSUME NEW k \in 1 .. gi
          PROVE  gpus[k] \in {call.free[x] : x \in lo + 1 .. hi}
      <4>1. lo + k \in lo + 1 .. hi
        BY <2>2, <2>5
      <4> QED BY <2>6, <4>1
    <3>2. ASSUME NEW x \in lo + 1 .. hi
          PROVE  call.free[x] \in {gpus[k] : k \in 1 .. gi}
      <4>1. x - lo \in 1 .. gi /\ lo + (x - lo) = x
        BY <2>2, <2>5
      <4> QED BY <2>6, <4>1
    <3> QED BY <3>1, <3>2
  <2> QED BY <2>6, <2>7, <2>8 DEF Devices, Slice, lo, hi, gpus, gi
<1>5. ASSUME NEW i \in 1 .. len
      PROVE  RequestOf(chosen[i].id) = chosen[i] /\ GrantOf(chosen[i].id) = g[i]
  <2>1. chosen[i] \in call.waiting
    BY <1>1
  <2>2. RequestOf(chosen[i].id) = chosen[i]
    BY <1>1, <2>1 DEF RequestOf
  <2>3. \A j \in 1 .. len : plan[j].id = chosen[i].id => j = i
    BY <1>1, <1>2
  <2>4. (CHOOSE j \in DOMAIN plan : plan[j].id = chosen[i].id) = i
    BY <1>2, <2>3
  <2> QED BY <1>4, <2>2, <2>4 DEF GrantOf
<1>6. Started = {chosen[i].id : i \in 1 .. len}
  BY <1>2 DEF Started
<1> QED BY <1>2, <1>4, <1>5, <1>6 DEF Reads

\* The slices lie one behind the other.
LEMMA SlicePlaces ==
    ASSUME WellFormed, NEW len, NEW chosen, NEW g, NEW c, Sliced(len, chosen, g, c)
    PROVE  /\ c[0] = 0 /\ c[len] \in Nat /\ Len(call.free) \in Nat
           /\ \A i \in 1 .. len :
                /\ c[i - 1] \in Nat /\ c[i] \in Nat /\ g[i] \in Nat /\ c[i] = c[i - 1] + g[i]
                /\ c[i] <= c[len] /\ c[i] <= Len(call.free)
           /\ \A i, j \in 1 .. len : i < j => c[i] <= c[j - 1]
<1>1. /\ len \in Nat /\ g \in [1 .. len -> Nat] /\ IsSums(c, g, len) /\ c[len] <= Len(call.free)
      /\ Len(call.free) \in Nat
  BY LenProperties DEF Sliced, WellFormed
<1>2. \A i, j \in 0 .. len : i <= j => c[i] <= c[j]
  BY <1>1, SumsGrow
<1>3. c[0] = 0 /\ c[len] \in Nat
  BY <1>1 DEF IsSums
<1>4. ASSUME NEW i \in 1 .. len
      PROVE  /\ c[i - 1] \in Nat /\ c[i] \in Nat /\ g[i] \in Nat /\ c[i] = c[i - 1] + g[i]
             /\ c[i] <= c[len] /\ c[i] <= Len(call.free)
  <2>1. i \in 0 .. len /\ i - 1 \in 0 .. len /\ len \in 0 .. len /\ i <= len
    BY <1>1
  <2>2. c[i - 1] \in Nat /\ c[i] \in Nat /\ g[i] \in Nat /\ c[i] = c[i - 1] + g[i]
    BY <1>1, <2>1 DEF IsSums
  <2>3. c[i] <= c[len]
    BY <1>2, <2>1
  <2> QED BY <1>1, <1>3, <2>2, <2>3
<1>5. ASSUME NEW i \in 1 .. len, NEW j \in 1 .. len, i < j
      PROVE  c[i] <= c[j - 1]
  <2>1. i \in 0 .. len /\ j - 1 \in 0 .. len /\ i <= j - 1
    BY <1>1, <1>5
  <2> QED BY <1>2, <2>1
<1> QED BY <1>1, <1>3, <1>4, <1>5

\* Slices that do not overlap share no device.
LEMMA SlicesApart ==
    ASSUME WellFormed, Answered, NEW a \in Nat, NEW b \in Nat, NEW d \in Nat, NEW e \in Nat,
           b <= d, b <= Len(call.free), e <= Len(call.free)
    PROVE  Slice(a, b) \cap Slice(d, e) = {}
<1>1. Len(call.free) \in Nat /\ DOMAIN call.free = 1 .. Len(call.free)
  BY LenProperties DEF WellFormed
<1>2. \A x, y \in 1 .. Len(call.free) : call.free[x] = call.free[y] => x = y
  BY <1>1 DEF Answered, PlanRaises, ArgumentsValid, IsInjective
<1>3. ASSUME NEW x \in a + 1 .. b, NEW y \in d + 1 .. e, call.free[x] = call.free[y]
      PROVE  FALSE
  <2>1. x \in 1 .. Len(call.free) /\ y \in 1 .. Len(call.free) /\ x < y
    BY <1>1
  <2> QED BY <1>2, <1>3, <2>1
<1> QED BY <1>3 DEF Slice

-----------------------------------------------------------------------------
(* What the answers promise *)

\* A list of slices is a sound batch.
LEMMA AnswerSound ==
    ASSUME WellFormed, Answered
    PROVE  BatchSound
<1>1. PICK len, chosen, g, c : Sliced(len, chosen, g, c)
  BY AnswerSliced
<1>2. /\ Reads(len, chosen, g, c)
      /\ len \in Nat /\ chosen \in [1 .. len -> call.waiting]
      /\ \A i, j \in 1 .. len : i # j => chosen[i] # chosen[j]
  BY <1>1, SlicedReads DEF Sliced
<1>3. ASSUME NEW i \in 1 .. len
      PROVE  /\ c[i - 1] \in Nat /\ c[i] \in Nat /\ g[i] \in Nat /\ c[i] = c[i - 1] + g[i]
             /\ c[i - 1] <= c[i] /\ c[i] <= Len(call.free) /\ Len(call.free) \in Nat
  BY <1>1, SlicePlaces
<1>4. ASSUME NEW i \in 1 .. len
      PROVE  /\ Devices(i) \subseteq Free
             /\ Cardinality(Devices(i)) = Len(plan[i].gpus)
             /\ LET r == RequestOf(plan[i].id)
                IN  /\ Len(plan[i].gpus) >= r.min
                    /\ r.max # NoMaximum => Len(plan[i].gpus) <= r.max
  <2> DEFINE lo == c[i - 1]
             hi == c[i]
             gi == g[i]
             r == chosen[i]
  <2>1. /\ Devices(i) = Slice(lo, hi) /\ Len(plan[i].gpus) = gi
        /\ plan[i].id = r.id /\ RequestOf(r.id) = r /\ r \in call.waiting
    BY <1>2 DEF Reads
  <2>2. /\ lo \in Nat /\ hi \in Nat /\ gi \in Nat /\ hi = lo + gi /\ lo <= hi
        /\ hi <= Len(call.free) /\ Len(call.free) \in Nat
    BY <1>3
  <2>3. /\ r.min \in Nat /\ r.min <= gi /\ Capacity(r, call.total) \in Nat
        /\ gi <= Capacity(r, call.total)
    BY <1>1 DEF Sliced
  <2>4. r.max \in Nat /\ call.total \in Nat
    BY <2>1 DEF WellFormed, Requests
  <2> HIDE DEF lo, hi, gi, r
  <2>5. Slice(lo, hi) \subseteq Free
    <3>1. DOMAIN call.free = 1 .. Len(call.free)
      BY LenProperties DEF WellFormed
    <3>2. \A x \in lo + 1 .. hi : x \in 1 .. Len(call.free)
      BY <2>2
    <3> QED BY <3>1, <3>2 DEF Slice, Free
  <2>6. Cardinality(Slice(lo, hi)) = gi
    <3>1. Cardinality(Slice(lo, hi)) = hi - lo
      BY <2>2, SliceSize
    <3> QED BY <2>2, <3>1
  <2>7. r.max # NoMaximum => gi <= r.max
    BY <2>2, <2>3, <2>4 DEF Capacity, Maximum, Lesser
  <2>8. gi >= r.min
    BY <2>2, <2>3
  <2> QED BY <2>1, <2>5, <2>6, <2>7, <2>8
<1>5. ASSUME NEW i \in 1 .. len, NEW j \in 1 .. len, i < j
      PROVE  Devices(i) \cap Devices(j) = {}
  <2>1. c[i] <= c[j - 1]
    BY <1>1, <1>5, SlicePlaces
  <2>2. Slice(c[i - 1], c[i]) \cap Slice(c[j - 1], c[j]) = {}
    BY <1>3, <2>1, SlicesApart
  <2> QED BY <1>2, <2>2 DEF Reads
<1>6. ASSUME NEW i \in 1 .. len, NEW j \in 1 .. len, i # j
      PROVE  plan[i].id # plan[j].id /\ Devices(i) \cap Devices(j) = {}
  <2>1. plan[i].id # plan[j].id
    <3>1. RequestOf(plan[i].id) = chosen[i] /\ RequestOf(plan[j].id) = chosen[j]
      BY <1>2 DEF Reads
    <3> QED BY <1>2, <1>6, <3>1
  <2>2. i < j \/ j < i
    BY <1>2, <1>6
  <2> QED BY <1>5, <2>1, <2>2
<1> QED BY <1>2, <1>4, <1>6 DEF BatchSound, Reads

\* Of every call that returns: no device is handed out twice or without being free,
\* and every request that starts gets between its minimum and its maximum.
THEOREM BatchSoundAlways == Spec => []BatchSound
<1>1. CallInv => BatchSound
  BY AnswerSound DEF CallInv, BatchSound
<1> QED BY <1>1, CallInvariant, PTL

-----------------------------------------------------------------------------
(* What is left *)

\* Together the slices are the beginning of the list, ...
LEMMA HandedOutSlice ==
    ASSUME WellFormed, Answered, NEW len, NEW chosen, NEW g, NEW c, Sliced(len, chosen, g, c)
    PROVE  HandedOut = Slice(0, c[len])
<1>1. /\ Reads(len, chosen, g, c) /\ len \in Nat
      /\ c[0] = 0
      /\ \A i \in 1 .. len :
           /\ c[i - 1] \in Nat /\ c[i] \in Nat /\ c[i] <= c[len] /\ c[len] \in Nat
           /\ Devices(i) = Slice(c[i - 1], c[i])
  <2>1. Reads(len, chosen, g, c)
    BY SlicedReads
  <2>2. /\ c[0] = 0
        /\ \A i \in 1 .. len :
             /\ c[i - 1] \in Nat /\ c[i] \in Nat /\ c[i] <= c[len] /\ c[len] \in Nat
    BY SlicePlaces
  <2>3. \A i \in 1 .. len : Devices(i) = Slice(c[i - 1], c[i])
    BY <2>1 DEF Reads
  <2>4. len \in Nat
    BY DEF Sliced
  <2> QED BY <2>1, <2>2, <2>3, <2>4
<1> DEFINE A == {j \in 0 .. len :
                   \A x \in 1 .. c[j] : \E i \in 1 .. len : x \in c[i - 1] + 1 .. c[i]}
<1>2. 0 \in A
  BY <1>1
<1>3. ASSUME NEW j \in 1 .. len, j - 1 \in A
      PROVE  j \in A
  <2>1. c[j - 1] \in Nat /\ c[j] \in Nat
    BY <1>1
  <2>2. ASSUME NEW x \in 1 .. c[j]
        PROVE  \E i \in 1 .. len : x \in c[i - 1] + 1 .. c[i]
    <3>1. x \in 1 .. c[j - 1] \/ x \in c[j - 1] + 1 .. c[j]
      BY <2>1
    <3> QED BY <1>3, <3>1
  <2> QED BY <2>2
<1>4. ASSUME NEW x \in 1 .. c[len]
      PROVE  \E i \in 1 .. len : x \in c[i - 1] + 1 .. c[i]
  <2>1. \A j \in 0 .. len : j \in A
    <3> HIDE DEF A
    <3> QED BY <1>1, <1>2, <1>3, Induct
  <2>2. len \in A
    <3> HIDE DEF A
    <3> QED BY <1>1, <2>1
  <2> QED BY <2>2
<1>5. Slice(0, c[len]) \subseteq HandedOut
  <2> SUFFICES ASSUME NEW x \in 0 + 1 .. c[len]
               PROVE  call.free[x] \in HandedOut
    BY DEF Slice
  <2>1. PICK i \in 1 .. len : x \in c[i - 1] + 1 .. c[i]
    BY <1>4
  <2>2. call.free[x] \in Devices(i) /\ i \in DOMAIN plan
    BY <1>1, <2>1 DEF Slice, Reads
  <2> QED BY <2>2 DEF HandedOut
<1>6. HandedOut \subseteq Slice(0, c[len])
  <2> SUFFICES ASSUME NEW i \in 1 .. len, NEW x \in c[i - 1] + 1 .. c[i]
               PROVE  call.free[x] \in Slice(0, c[len])
    BY <1>1, SMTT(30) DEF HandedOut, Slice, Reads
  <2>1. c[i - 1] \in Nat /\ c[i] \in Nat /\ c[len] \in Nat /\ c[i] <= c[len]
    BY <1>1
  <2>2. x \in 0 + 1 .. c[len]
    BY <2>1
  <2> QED BY <2>2 DEF Slice
<1> QED BY <1>5, <1>6

\* ... and what is left over is the rest of it.
LEMMA LeftCount ==
    ASSUME WellFormed, Answered, NEW len, NEW chosen, NEW g, NEW c, Sliced(len, chosen, g, c)
    PROVE  /\ Cardinality(HandedOut) = c[len] /\ Left = Len(call.free) - c[len]
           /\ c[len] \in Nat /\ Len(call.free) \in Nat /\ c[len] <= Len(call.free)
<1> DEFINE m == c[len]
           n == Len(call.free)
<1>1. m \in Nat /\ n \in Nat /\ m <= n
  BY SlicePlaces DEF Sliced
<1>2. HandedOut = Slice(0, m)
  BY HandedOutSlice
<1>3. Free = Slice(0, n)
  <2>1. DOMAIN call.free = 1 .. n
    BY LenProperties DEF WellFormed
  <2> QED BY <2>1 DEF Free, Slice
<1> HIDE DEF m
<1>4. /\ IsFiniteSet(Slice(0, m)) /\ Cardinality(Slice(0, m)) = m
      /\ IsFiniteSet(Slice(0, n)) /\ Cardinality(Slice(0, n)) = n
  BY <1>1, SliceSize
<1>5. Slice(0, n) \cap Slice(0, m) = Slice(0, m)
  BY <1>1 DEF Slice
<1>6. Cardinality(Slice(0, n) \ Slice(0, m)) = n - m
  <2>1. Cardinality(Slice(0, n) \ Slice(0, m))
          = Cardinality(Slice(0, n)) - Cardinality(Slice(0, n) \cap Slice(0, m))
    BY <1>4, FS_Difference
  <2> QED BY <1>4, <1>5, <2>1
<1> QED BY <1>1, <1>2, <1>3, <1>4, <1>6 DEF Left, m

-----------------------------------------------------------------------------
(* The reserve *)

\* The lone waiter of an idle host leaves a device, if it is to leave one, and starts
\* on any free device, if it needs no more.
LEMMA AnswerReserves ==
    ASSUME WellFormed, Answered
    PROVE  ReserveRule
<1> SUFFICES ASSUME Solo
             PROVE  /\ call.reserve > 0 /\ call.total > 1 => Cardinality(HandedOut) < call.total
                    /\ call.free # <<>> /\ (\E r \in call.waiting : r.min = 1) => plan # <<>>
  BY DEF ReserveRule, FirstJobLeavesRoom, LoneRequestStarts
<1>1. plan = <<>> => Cardinality(HandedOut) = 0
  <2> SUFFICES ASSUME plan = <<>> PROVE Cardinality(HandedOut) = 0
    OBVIOUS
  <2>1. HandedOut = {}
    BY DEF HandedOut
  <2> QED BY <2>1, FS_EmptySet
<1>2. CASE call.free = <<>>
  <2>1. plan = <<>>
    BY <1>2 DEF Answered, Plan
  <2>2. call.total > 1 => 0 < call.total
    BY DEF WellFormed
  <2> QED BY <1>1, <1>2, <2>1, <2>2
<1>3. CASE call.free # <<>>
  <2>1. PICK r \in call.waiting, grant \in Nat : Lone(r, grant)
    BY <1>3, SoloAnswer
  <2>2. /\ Len(call.free) \in Nat \ {0} /\ r.min \in Nat \ {0} /\ r.max \in Nat
        /\ call.total \in Nat \ {0} /\ call.reserve \in Nat /\ CapacityDefined(r, call.total)
    <3>1. call.free \in Seq(Int) /\ r \in Requests(Int)
      BY DEF WellFormed
    <3>2. Len(call.free) \in Nat /\ Len(call.free) # 0
      BY <1>3, <3>1, EmptySeq, LenProperties
    <3> QED BY <3>1, <3>2 DEF WellFormed, Requests, Answered, PlanRaises, ArgumentsValid
  <2>3. /\ Capacity(r, call.total) \in Nat \ {0}
        /\ SoloBudget(call.total, call.reserve) \in Nat \ {0}
        /\ call.reserve > 0 /\ call.total > 1 =>
             SoloBudget(call.total, call.reserve) < call.total
    BY <2>2 DEF Capacity, CapacityDefined, Maximum, SoloBudget, Lesser, Greater
  <2>4. grant >= 1 /\ grant <= SoloBudget(call.total, call.reserve)
    BY <2>1, <2>2, <2>3 DEF Lone, Lesser
  <2>5. CASE grant < r.min
    <3>1. plan = <<>>
      BY <2>1, <2>5 DEF Lone
    <3>2. ~(\E q \in call.waiting : q.min = 1)
      BY <2>1, <2>2, <2>4, <2>5 DEF Lone
    <3> QED BY <1>1, <2>2, <3>1, <3>2
  <2>6. CASE ~(grant < r.min)
    <3>1. PICK chosen, g, c : Sliced(1, chosen, g, c) /\ g[1] = grant
      BY <2>1, <2>6, SlicedOne
    <3>2. Cardinality(HandedOut) = c[1]
      BY <3>1, LeftCount
    <3>3. c[1] = grant
      BY <3>1 DEF Sliced, IsSums
    <3>4. plan # <<>>
      <4>1. DOMAIN plan = 1 .. 1
        BY <3>1 DEF Sliced
      <4> QED BY <4>1
    <3> QED BY <2>2, <2>3, <2>4, <3>2, <3>3, <3>4
  <2> QED BY <2>5, <2>6
<1> QED BY <1>2, <1>3

\* The first job of an idle host leaves room for a second one, and no reserve, however
\* large, keeps a request for one GPU from starting there.
THEOREM ReserveRuleAlways == Spec => []ReserveRule
<1>1. CallInv => ReserveRule
  <2> SUFFICES ASSUME CallInv, ~returned PROVE ReserveRule
    BY AnswerReserves DEF CallInv
  <2>1. HandedOut = {}
    BY DEF CallInv, HandedOut
  <2>2. Cardinality(HandedOut) = 0
    BY <2>1, FS_EmptySet
  <2> QED BY <2>2 DEF CallInv, WellFormed, ReserveRule, FirstJobLeavesRoom, LoneRequestStarts
<1> QED BY <1>1, CallInvariant, PTL

-----------------------------------------------------------------------------
(* Who starts and who does not *)

\* The request at a place of the queue starts if the place is taken.
LEMMA StartedTaken ==
    ASSUME WellFormed, Answered, NEW m, NEW queue, Listed(m, queue),
           NEW len, NEW chosen, NEW g, NEW c, Sliced(len, chosen, g, c),
           NEW pos, NEW low, Selected(m, queue, len, chosen, pos, low), NEW p \in 1 .. m
    PROVE  queue[p].id \in Started <=> Taken(pos, len, p)
<1>1. /\ Started = {chosen[i].id : i \in 1 .. len}
      /\ chosen \in [1 .. len -> call.waiting] /\ queue \in [1 .. m -> call.waiting] /\ m \in Nat
      /\ \A r, s \in call.waiting : r.id = s.id => r = s
  <2>1. Reads(len, chosen, g, c)
    BY SlicedReads
  <2>2. Started = {chosen[i].id : i \in 1 .. len}
    BY <2>1 DEF Reads
  <2> QED BY <2>2 DEF Sliced, Listed, WellFormed
<1>2. \A k \in 1 .. len : pos[k] \in 1 .. m /\ chosen[k] = queue[pos[k]]
  BY DEF Selected, IsPlaces
<1>3. \A x, y \in 1 .. m : queue[x] = queue[y] => x = y
  <2> SUFFICES ASSUME NEW x \in 1 .. m, NEW y \in 1 .. m, queue[x] = queue[y], x # y
               PROVE  FALSE
    OBVIOUS
  <2>1. x < y \/ y < x
    OBVIOUS
  <2> QED BY <2>1 DEF Listed
<1>4. ASSUME queue[p].id \in Started
      PROVE  Taken(pos, len, p)
  <2>1. PICK k \in 1 .. len : queue[p].id = chosen[k].id
    BY <1>1, <1>4
  <2>2. queue[p] = queue[pos[k]] /\ pos[k] \in 1 .. m
    BY <1>1, <1>2, <2>1
  <2> QED BY <1>3, <2>2 DEF Taken
<1>5. ASSUME Taken(pos, len, p)
      PROVE  queue[p].id \in Started
  <2>1. PICK k \in 1 .. len : pos[k] = p
    BY <1>5 DEF Taken
  <2> QED BY <1>1, <1>2, <2>1
<1> QED BY <1>4, <1>5

\* Sums of smaller numbers are smaller.
LEMMA SumsBelow ==
    ASSUME NEW m \in Nat, NEW g \in [1 .. m -> Nat], NEW h \in [1 .. m -> Nat],
           NEW c, IsSums(c, g, m), NEW d, IsSums(d, h, m),
           \A j \in 1 .. m : g[j] <= h[j]
    PROVE  \A j \in 0 .. m : c[j] <= d[j]
<1> DEFINE A == {j \in 0 .. m : c[j] <= d[j]}
<1>1. 0 \in A
  BY DEF IsSums
<1>2. ASSUME NEW j \in 1 .. m, j - 1 \in A
      PROVE  j \in A
  <2>1. j \in 0 .. m /\ j - 1 \in 0 .. m
    OBVIOUS
  <2>2. /\ c[j] = c[j - 1] + g[j] /\ d[j] = d[j - 1] + h[j]
        /\ c[j - 1] \in Nat /\ d[j - 1] \in Nat /\ g[j] \in Nat /\ h[j] \in Nat
    BY <2>1 DEF IsSums
  <2>3. c[j - 1] <= d[j - 1] /\ g[j] <= h[j]
    BY <1>2
  <2>4. c[j] <= d[j]
    BY <2>2, <2>3
  <2> QED BY <2>1, <2>4
<1>3. \A j \in 0 .. m : j \in A
  <2> HIDE DEF A
  <2> QED BY <1>1, <1>2, Induct
<1> QED BY <1>3

\* The minimums of the first requests that start sum up to no more than what is
\* handed out.
LEMMA LowBelow ==
    ASSUME WellFormed, NEW m, NEW queue, NEW len, NEW chosen, NEW g, NEW c,
           Sliced(len, chosen, g, c), NEW pos, NEW low,
           Selected(m, queue, len, chosen, pos, low), NEW k \in 0 .. len
    PROVE  low[k] \in Nat /\ c[len] \in Nat /\ low[k] <= c[len]
<1> DEFINE h == [i \in 1 .. len |-> chosen[i].min]
<1>1. /\ len \in Nat /\ g \in [1 .. len -> Nat] /\ IsSums(c, g, len)
      /\ \A i \in 1 .. len : chosen[i].min \in Nat /\ chosen[i].min <= g[i]
  BY DEF Sliced
<1>2. h \in [1 .. len -> Nat] /\ \A i \in 1 .. len : h[i] <= g[i]
  BY <1>1
<1>3. IsSums(low, h, len)
  BY DEF Selected
<1> HIDE DEF h
<1>4. \A j \in 0 .. len : low[j] <= c[j]
  BY <1>1, <1>2, <1>3, SumsBelow
<1>5. k \in 0 .. len /\ len \in 0 .. len /\ k <= len
  BY <1>1
<1>6. c[k] <= c[len]
  BY <1>1, <1>5, SumsGrow
<1>7. low[k] \in Nat /\ c[k] \in Nat /\ c[len] \in Nat
  BY <1>1, <1>3, <1>5 DEF IsSums
<1>8. low[k] <= c[k]
  BY <1>4
<1> QED BY <1>6, <1>7, <1>8

-----------------------------------------------------------------------------
(* What is left is shared *)

\* A fair answer that leaves a device over leaves it because nobody can use it.
LEMMA FairLeaves ==
    ASSUME WellFormed, Answered, NEW m, NEW queue, Listed(m, queue),
           NEW len, NEW chosen, NEW g, NEW c, Sliced(len, chosen, g, c),
           NEW pos, NEW low, Selected(m, queue, len, chosen, pos, low),
           Evened(len, chosen, g, c)
    PROVE  NothingIdle
<1> SUFFICES ASSUME Left > 0
             PROVE  /\ \A id \in Started :
                         RequestOf(id).max # NoMaximum /\ GrantOf(id) = RequestOf(id).max
                    /\ \A r \in {q \in call.waiting : q.id \notin Started} :
                         \/ r.min > Left
                         \/ call.strict /\ \E s \in {q \in call.waiting : q.id \notin Started} :
                                             s # r /\ Before(s, r)
  BY DEF NothingIdle
<1>1. /\ Left = Len(call.free) - c[len] /\ c[len] \in Nat /\ Len(call.free) \in Nat
      /\ c[len] <= Len(call.free)
  BY LeftCount
<1>2. c[len] < Len(call.free)
  BY <1>1
<1>3. ASSUME NEW i \in 1 .. len
      PROVE  LET r == chosen[i] IN
             /\ RequestOf(r.id) = r /\ GrantOf(r.id) = g[i]
             /\ r.max # NoMaximum /\ g[i] = r.max
  <2> DEFINE r == chosen[i]
             gi == g[i]
             total == call.total
  <2>1. RequestOf(r.id) = r /\ GrantOf(r.id) = gi
    BY SlicedReads DEF Reads
  <2>2. gi = Capacity(r, total)
    BY <1>2 DEF Evened
  <2>3. gi \in Nat /\ gi <= c[len]
    <3>1. /\ c[i - 1] \in Nat /\ c[i] \in Nat /\ g[i] \in Nat /\ c[i] = c[i - 1] + g[i]
          /\ c[i] <= c[len]
      BY SlicePlaces
    <3> HIDE DEF gi
    <3> QED BY <1>1, <3>1 DEF gi
  <2>4. r.max \in Nat /\ total \in Nat /\ Len(call.free) <= total
    BY DEF Sliced, WellFormed, Requests, Answered, PlanRaises, ArgumentsValid
  <2> HIDE DEF r, gi, total
  <2>5. gi < total
    BY <1>1, <1>2, <2>3, <2>4
  <2>6. r.max # NoMaximum /\ gi = r.max
    BY <2>2, <2>3, <2>4, <2>5 DEF Capacity, Maximum, Lesser
  <2> QED BY <2>1, <2>6 DEF r, gi
<1>4. \A id \in Started : RequestOf(id).max # NoMaximum /\ GrantOf(id) = RequestOf(id).max
  <2>1. Started = {chosen[i].id : i \in 1 .. len}
    BY SlicedReads DEF Reads
  <2> QED BY <1>3, <2>1
<1>5. ASSUME NEW r \in call.waiting, r.id \notin Started
      PROVE  \/ r.min > Left
             \/ call.strict /\ \E s \in {q \in call.waiting : q.id \notin Started} :
                                 s # r /\ Before(s, r)
  <2>1. PICK p \in 1 .. m : queue[p] = r
    BY DEF Listed
  <2>2. PassedOver(pos, low, len, queue, Len(call.free), call.strict, p)
    <3>1. ~Taken(pos, len, p)
      BY <1>5, <2>1, StartedTaken
    <3> QED BY <3>1 DEF Selected
  <2>3. CASE \E k \in 0 .. len : low[k] + queue[p].min > Len(call.free)
    <3>1. PICK k \in 0 .. len : low[k] + r.min > Len(call.free)
      BY <2>1, <2>3
    <3>2. low[k] \in Nat /\ low[k] <= c[len]
      BY LowBelow
    <3>3. r.min \in Nat
      BY DEF WellFormed, Requests
    <3>4. r.min > Left
      BY <1>1, <3>1, <3>2, <3>3
    <3> QED BY <3>4
  <2>4. CASE call.strict /\ \E q \in 1 .. p - 1 : ~Taken(pos, len, q)
    <3>1. PICK q \in 1 .. p - 1 : ~Taken(pos, len, q)
      BY <2>4
    <3>2. q \in 1 .. m /\ q < p
      BY <3>1 DEF Listed
    <3>3. queue[q] \in call.waiting /\ queue[q] # r /\ Before(queue[q], r)
      BY <2>1, <3>2 DEF Listed
    <3>4. queue[q].id \notin Started
      BY <3>1, <3>2, StartedTaken
    <3> QED BY <2>4, <3>3, <3>4
  <2> QED BY <2>2, <2>3, <2>4 DEF PassedOver
<1> QED BY <1>4, <1>5


\* A batch of at most one request grows evenly.
LEMMA SoleIsEven ==
    ASSUME WellFormed, Answered, NEW len, NEW chosen, NEW g, NEW c,
           Sliced(len, chosen, g, c), len <= 1
    PROVE  EvenGrowth
<1>0. Reads(len, chosen, g, c)
  BY SlicedReads
<1>1. Started = {chosen[i].id : i \in 1 .. len} /\ len \in Nat
  BY <1>0 DEF Reads, Sliced
<1>2. \A i \in 1 .. len : i = 1 /\ GrantOf(chosen[i].id) = g[i] /\ g[i] \in Nat
                          /\ RequestOf(chosen[i].id) = chosen[i] /\ chosen[i].min \in Nat
  BY <1>0, <1>1 DEF Reads, Sliced
<1>3. ASSUME NEW a \in Started, NEW b \in Started
      PROVE  a = b /\ GrantOf(a) - RequestOf(a).min \in Int
  BY <1>1, <1>2
<1>4. ASSUME NEW a \in Started, NEW b \in Started
      PROVE  ~(GrantOf(a) - RequestOf(a).min > GrantOf(b) - RequestOf(b).min)
  <2>1. a = b /\ GrantOf(a) - RequestOf(a).min \in Int
    BY <1>3
  <2> DEFINE extra == GrantOf(a) - RequestOf(a).min
  <2>2. extra \in Int /\ GrantOf(b) - RequestOf(b).min = extra
    BY <2>1
  <2> HIDE DEF extra
  <2>3. ~(extra > extra)
    BY <2>2
  <2> QED BY <2>2, <2>3 DEF extra
<1> QED BY <1>4 DEF EvenGrowth

\* A fair answer grows evenly.
LEMMA FairEven ==
    ASSUME WellFormed, Answered, NEW m, NEW queue, Listed(m, queue),
           NEW len, NEW chosen, NEW g, NEW c, Sliced(len, chosen, g, c),
           NEW pos, NEW low, Selected(m, queue, len, chosen, pos, low),
           Evened(len, chosen, g, c)
    PROVE  EvenGrowth
<1>1. PICK k \in Nat, i \in 0 .. len : \A j \in 1 .. len :
        g[j] = Lesser(Capacity(chosen[j], call.total),
                      chosen[j].min + k + (IF j <= i THEN 1 ELSE 0))
  BY DEF Evened
<1>2. ASSUME NEW a \in 1 .. len, NEW b \in 1 .. len,
             g[a] - chosen[a].min > g[b] - chosen[b].min,
             g[b] # Capacity(chosen[b], call.total)
      PROVE  /\ g[a] - chosen[a].min = g[b] - chosen[b].min + 1
             /\ Before(chosen[a], chosen[b])
  <2>1. /\ Capacity(chosen[a], call.total) \in Nat /\ Capacity(chosen[b], call.total) \in Nat
        /\ chosen[a].min \in Nat /\ chosen[b].min \in Nat /\ len \in Nat
    BY DEF Sliced
  <2>2. a \in Nat /\ b \in Nat /\ i \in Nat
    BY <2>1
  <2>3. /\ g[a] = Lesser(Capacity(chosen[a], call.total),
                         chosen[a].min + k + (IF a <= i THEN 1 ELSE 0))
        /\ g[b] = Lesser(Capacity(chosen[b], call.total),
                         chosen[b].min + k + (IF b <= i THEN 1 ELSE 0))
    BY <1>1
  <2>4. g[a] - chosen[a].min = g[b] - chosen[b].min + 1 /\ a < b
    <3> DEFINE capA == Capacity(chosen[a], call.total)
               capB == Capacity(chosen[b], call.total)
               minA == chosen[a].min
               minB == chosen[b].min
               gA == g[a]
               gB == g[b]
    <3>1. /\ capA \in Nat /\ capB \in Nat /\ minA \in Nat /\ minB \in Nat
          /\ gA = Lesser(capA, minA + k + (IF a <= i THEN 1 ELSE 0))
          /\ gB = Lesser(capB, minB + k + (IF b <= i THEN 1 ELSE 0))
          /\ gA - minA > gB - minB /\ gB # capB
      BY <1>2, <2>1, <2>3
    <3> HIDE DEF capA, capB, minA, minB, gA, gB
    <3>2. gA - minA = gB - minB + 1 /\ a < b
      BY <2>2, <3>1 DEF Lesser
    <3> QED BY <3>2 DEF minA, minB, gA, gB
  <2>5. pos[a] \in 1 .. m /\ pos[b] \in 1 .. m /\ pos[a] < pos[b]
    BY <2>4 DEF Selected, IsPlaces
  <2>6. Before(queue[pos[a]], queue[pos[b]])
    BY <2>5 DEF Listed
  <2> QED BY <2>4, <2>6 DEF Selected
<1>3. /\ Started = {chosen[j].id : j \in 1 .. len}
      /\ \A j \in 1 .. len : GrantOf(chosen[j].id) = g[j] /\ RequestOf(chosen[j].id) = chosen[j]
  BY SlicedReads DEF Reads
<1>4. ASSUME NEW x \in Started, NEW y \in Started,
             GrantOf(x) - RequestOf(x).min > GrantOf(y) - RequestOf(y).min,
             GrantOf(y) # Capacity(RequestOf(y), call.total)
      PROVE  /\ GrantOf(x) - RequestOf(x).min = GrantOf(y) - RequestOf(y).min + 1
             /\ Before(RequestOf(x), RequestOf(y))
  <2>1. PICK a \in 1 .. len : x = chosen[a].id
    BY <1>3
  <2>2. PICK b \in 1 .. len : y = chosen[b].id
    BY <1>3
  <2>3. /\ GrantOf(x) = g[a] /\ RequestOf(x) = chosen[a]
        /\ GrantOf(y) = g[b] /\ RequestOf(y) = chosen[b]
    BY <1>3, <2>1, <2>2
  <2>4. /\ g[a] - chosen[a].min > g[b] - chosen[b].min
        /\ g[b] # Capacity(chosen[b], call.total)
    BY <1>4, <2>3
  <2>5. g[a] - chosen[a].min = g[b] - chosen[b].min + 1 /\ Before(chosen[a], chosen[b])
    BY <1>2, <2>4
  <2> QED BY <2>3, <2>5
<1> QED BY <1>4 DEF EvenGrowth

\* So does every answer, and it leaves nothing idle.
LEMMA AnswerShares ==
    ASSUME WellFormed, Answered
    PROVE  LeftoverShared
<1>1. PICK len, chosen, g, c : Sliced(len, chosen, g, c)
  BY AnswerSliced
<1>2. CASE call.free # <<>> /\ call.waiting # {} /\ ~Solo
  BY <1>2, FairAnswer, FairLeaves, FairEven DEF Fair, LeftoverShared
<1>3. CASE call.free = <<>> \/ call.waiting = {}
  <2>1. plan = <<>>
    BY <1>3 DEF Answered, Plan
  <2>2. EvenGrowth /\ Started = {}
    BY <2>1 DEF EvenGrowth, Started
  <2>3. call.free = <<>> => ~(Left > 0)
    <3> SUFFICES ASSUME call.free = <<>> PROVE Left = 0
      OBVIOUS
    <3>1. Free \ HandedOut = {}
      BY DEF Free
    <3> QED BY <3>1, FS_EmptySet DEF Left
  <2>4. NothingIdle
    BY <1>3, <2>2, <2>3 DEF NothingIdle
  <2> QED BY <2>2, <2>4 DEF LeftoverShared
<1>4. CASE call.free # <<>> /\ Solo
  <2>1. NothingIdle
    BY <1>4 DEF NothingIdle
  <2>2. EvenGrowth
    <3>1. PICK r \in call.waiting, grant \in Nat : Lone(r, grant)
      BY <1>4, SoloAnswer
    <3>2. CASE grant < r.min
      <4>1. plan = <<>>
        BY <3>1, <3>2 DEF Lone
      <4> QED BY <4>1 DEF EvenGrowth, Started
    <3>3. CASE ~(grant < r.min)
      <4>1. PICK one, h, d : Sliced(1, one, h, d)
        BY <3>1, <3>3, SlicedOne
      <4> QED BY <4>1, SoleIsEven
    <3> QED BY <3>2, <3>3
  <2> QED BY <2>1, <2>2 DEF LeftoverShared
<1> QED BY <1>2, <1>3, <1>4

\* Of every call that returns: what is left over nobody passed over could have used,
\* and what is handed out above the minimums is handed out evenly.
THEOREM LeftoverSharedAlways == Spec => []LeftoverShared
<1>1. CallInv => LeftoverShared
  <2> SUFFICES ASSUME CallInv, ~returned PROVE LeftoverShared
    BY AnswerShares DEF CallInv
  <2>1. plan = <<>>
    BY DEF CallInv
  <2> QED BY <2>1 DEF LeftoverShared, NothingIdle, EvenGrowth, Started
<1> QED BY <1>1, CallInvariant, PTL

-----------------------------------------------------------------------------
(* The order of the queue is kept *)

\* The minimums of the first requests that start are what those need.
LEMMA NeedsSum ==
    ASSUME WellFormed, NEW m, NEW queue, NEW len, NEW chosen, NEW g, NEW c,
           Sliced(len, chosen, g, c), NEW pos, NEW low,
           Selected(m, queue, len, chosen, pos, low), NEW k \in 0 .. len
    PROVE  Cardinality(Needs({chosen[l] : l \in 1 .. k})) = low[k]
<1> DEFINE First(j) == Needs({chosen[l] : l \in 1 .. j})
           One(j) == {chosen[j].id} \X (1 .. chosen[j].min)
           A == {j \in 0 .. len : IsFiniteSet(First(j)) /\ Cardinality(First(j)) = low[j]}
<1>1. /\ len \in Nat /\ chosen \in [1 .. len -> call.waiting]
      /\ \A i, j \in 1 .. len : i # j => chosen[i] # chosen[j]
      /\ \A i \in 1 .. len : chosen[i].min \in Nat
      /\ \A r, s \in call.waiting : r.id = s.id => r = s
  BY DEF Sliced, WellFormed
<1>2. low \in [0 .. len -> Nat] /\ low[0] = 0
      /\ \A j \in 1 .. len : low[j] = low[j - 1] + chosen[j].min
  BY DEF Selected, IsSums
<1>3. 0 \in A
  <2>1. First(0) = {}
    BY DEF Needs
  <2>2. 0 \in 0 .. len
    BY <1>1
  <2> HIDE DEF First
  <2>3. IsFiniteSet(First(0)) /\ Cardinality(First(0)) = low[0]
    BY <1>2, <2>1, FS_EmptySet
  <2> QED BY <2>2, <2>3
<1>4. ASSUME NEW j \in 1 .. len, j - 1 \in A
      PROVE  j \in A
  <2>1. j \in 0 .. len /\ j - 1 \in 0 .. len /\ 1 .. j = (1 .. j - 1) \cup {j}
    BY <1>1
  <2>2. First(j) = First(j - 1) \cup One(j)
    BY <2>1 DEF Needs
  <2>3. First(j - 1) \cap One(j) = {}
    <3>1. \A l \in 1 .. j - 1 : chosen[l].id # chosen[j].id
      <4> TAKE l \in 1 .. j - 1
      <4>1. l \in 1 .. len /\ l # j
        BY <1>1
      <4> QED BY <1>1, <4>1
    <3> QED BY <3>1 DEF Needs
  <2>4. IsFiniteSet(One(j)) /\ Cardinality(One(j)) = chosen[j].min
    <3> DEFINE x == chosen[j].min
               S == {chosen[j].id}
    <3>1. x \in Nat
      BY <1>1
    <3>2. IsFiniteSet(S) /\ Cardinality(S) = 1
      BY FS_Singleton
    <3> HIDE DEF x, S
    <3>3. /\ IsFiniteSet(1 .. x)
          /\ Cardinality(1 .. x) = IF 1 > x THEN 0 ELSE x - 1 + 1
      <4>1. 1 \in Int /\ x \in Int
        BY <3>1
      <4> QED BY <4>1, FS_Interval, Zenon
    <3>4. Cardinality(1 .. x) = x
      BY <3>1, <3>3
    <3>5. IsFiniteSet(S \X (1 .. x)) /\ Cardinality(S \X (1 .. x)) = 1 * x
      <4>1. /\ IsFiniteSet(S \X (1 .. x))
            /\ Cardinality(S \X (1 .. x)) = Cardinality(S) * Cardinality(1 .. x)
        BY <3>2, <3>3, FS_Product, ZenonT(30)
      <4> QED BY <3>2, <3>4, <4>1
    <3>6. 1 * x = x
      BY <3>1
    <3> QED BY <3>5, <3>6 DEF x, S
  <2>5. IsFiniteSet(First(j - 1)) /\ Cardinality(First(j - 1)) = low[j - 1]
    BY <1>4
  <2>6. low[j] = low[j - 1] + chosen[j].min /\ low[j - 1] \in Nat /\ chosen[j].min \in Nat
    BY <1>1, <1>2, <2>1
  <2> HIDE DEF First, One
  <2>7. /\ IsFiniteSet(First(j))
        /\ Cardinality(First(j)) = Cardinality(First(j - 1)) + Cardinality(One(j))
                                     - Cardinality(First(j - 1) \cap One(j))
    BY <2>2, <2>4, <2>5, FS_Union
  <2>8. Cardinality(First(j - 1) \cap One(j)) = 0
    BY <2>3, FS_EmptySet
  <2>9. Cardinality(First(j)) = low[j]
    BY <2>4, <2>5, <2>6, <2>7, <2>8
  <2> QED BY <2>1, <2>7, <2>9
<1>5. \A j \in 0 .. len : j \in A
  <2> HIDE DEF A
  <2> QED BY <1>1, <1>3, <1>4, Induct
<1> QED BY <1>5

\* In strict mode a fair answer starts the first requests of the queue.
LEMMA FairStrict ==
    ASSUME WellFormed, Answered, NEW m, NEW queue, Listed(m, queue),
           NEW len, NEW chosen, NEW g, NEW c, Sliced(len, chosen, g, c),
           NEW pos, NEW low, Selected(m, queue, len, chosen, pos, low)
    PROVE  StrictKeepsOrder
<1> SUFFICES ASSUME call.strict, NEW s \in call.waiting, NEW r \in call.waiting,
                    s.id \in Started, r.id \notin Started
             PROVE  \/ s.priority > r.priority
                    \/ s.priority = r.priority /\ s.created <= r.created
  BY DEF StrictKeepsOrder
<1>1. PICK p \in 1 .. m : queue[p] = s
  BY DEF Listed
<1>2. PICK q \in 1 .. m : queue[q] = r
  BY DEF Listed
<1>3. Taken(pos, len, p) /\ ~Taken(pos, len, q) /\ p # q
  BY <1>1, <1>2, StartedTaken
<1>4. ~(q < p)
  <2> SUFFICES ASSUME q < p PROVE FALSE
    OBVIOUS
  <2>1. q \in 1 .. p - 1
    OBVIOUS
  <2> QED BY <1>3, <2>1 DEF Selected
<1>5. Before(s, r)
  <2>1. p < q
    BY <1>3, <1>4
  <2> QED BY <1>1, <1>2, <2>1 DEF Listed
<1>6. s.created \in Int /\ r.created \in Int
  BY DEF WellFormed, Requests
<1> QED BY <1>5, <1>6 DEF Before

\* A fair answer overtakes only who does not fit.
LEMMA FairOvertakes ==
    ASSUME WellFormed, Answered, NEW m, NEW queue, Listed(m, queue),
           NEW len, NEW chosen, NEW g, NEW c, Sliced(len, chosen, g, c),
           NEW pos, NEW low, Selected(m, queue, len, chosen, pos, low)
    PROVE  OvertakenOnlyIfInfeasible
<1> SUFFICES ASSUME NEW s \in call.waiting, NEW r \in call.waiting,
                    s.id \in Started, r.id \notin Started, Before(r, s)
             PROVE  r.min + Cardinality(Needs({q \in call.waiting :
                                                 q.id \in Started /\ Before(q, r)}))
                      > Len(call.free)
  BY DEF OvertakenOnlyIfInfeasible
<1>0. \A a, b \in call.waiting : ~(Before(a, b) /\ Before(b, a))
  <2> TAKE a, b \in call.waiting
  <2>1. a \in Requests(Int) /\ b \in Requests(Int)
    BY DEF WellFormed
  <2>2. /\ a.id \in Int /\ a.priority \in Int /\ a.created \in Int
        /\ b.id \in Int /\ b.priority \in Int /\ b.created \in Int
    BY <2>1 DEF Requests
  <2> QED BY <2>2 DEF Before
<1>1. PICK p \in 1 .. m : queue[p] = s
  BY DEF Listed
<1>2. PICK q \in 1 .. m : queue[q] = r
  BY DEF Listed
<1>3. Taken(pos, len, p) /\ ~Taken(pos, len, q) /\ p # q
  BY <1>1, <1>2, StartedTaken
<1>4. q < p
  <2>1. ~(p < q)
    <3> SUFFICES ASSUME p < q PROVE FALSE
      OBVIOUS
    <3>1. Before(s, r)
      BY <1>1, <1>2 DEF Listed
    <3> QED BY <1>0, <3>1
  <2> QED BY <1>3, <2>1
<1>5. ~(call.strict /\ \E x \in 1 .. q - 1 : ~Taken(pos, len, x))
  <2> SUFFICES ASSUME call.strict PROVE FALSE
    OBVIOUS
  <2>1. q \in 1 .. p - 1
    BY <1>4
  <2> QED BY <1>3, <2>1 DEF Selected
<1>6. PICK k \in 0 .. len : /\ \A l \in 1 .. len : pos[l] < q <=> l <= k
                            /\ low[k] + r.min > Len(call.free)
  <2>1. PassedOver(pos, low, len, queue, Len(call.free), call.strict, q)
    BY <1>3 DEF Selected
  <2> QED BY <1>2, <1>5, <2>1 DEF PassedOver
<1>7. {x \in call.waiting : x.id \in Started /\ Before(x, r)} = {chosen[l] : l \in 1 .. k}
  <2>1. len \in Nat /\ m \in Nat /\ chosen \in [1 .. len -> call.waiting]
        /\ \A l \in 1 .. len : pos[l] \in 1 .. m /\ chosen[l] = queue[pos[l]]
    BY DEF Sliced, Listed, Selected, IsPlaces
  <2>2. ASSUME NEW l \in 1 .. k
        PROVE  chosen[l] \in {x \in call.waiting : x.id \in Started /\ Before(x, r)}
    <3>1. l \in 1 .. len /\ l <= k
      BY <2>1
    <3>2. pos[l] < q /\ pos[l] \in 1 .. m /\ chosen[l] = queue[pos[l]]
          /\ chosen[l] \in call.waiting
      BY <1>6, <2>1, <3>1
    <3>3. Before(chosen[l], r)
      BY <1>2, <3>2 DEF Listed
    <3>4. chosen[l].id \in Started
      <4>1. Taken(pos, len, pos[l])
        BY <3>1 DEF Taken
      <4> QED BY <3>2, <4>1, StartedTaken
    <3> QED BY <3>2, <3>3, <3>4
  <2>3. ASSUME NEW x \in call.waiting, x.id \in Started, Before(x, r)
        PROVE  \E l \in 1 .. k : x = chosen[l]
    <3>1. PICK y \in 1 .. m : queue[y] = x
      BY DEF Listed
    <3>2. Taken(pos, len, y)
      BY <2>3, <3>1, StartedTaken
    <3>3. PICK l \in 1 .. len : pos[l] = y
      BY <3>2 DEF Taken
    <3>4. y < q
      <4>1. ~(q < y)
        <5> SUFFICES ASSUME q < y PROVE FALSE
          OBVIOUS
        <5>1. Before(r, x)
          BY <1>2, <3>1 DEF Listed
        <5> QED BY <1>0, <2>3, <5>1
      <4>2. y # q
        BY <1>3, <3>2
      <4> QED BY <4>1, <4>2
    <3>5. l <= k
      BY <1>6, <3>3, <3>4
    <3>6. l \in 1 .. k /\ x = chosen[l]
      BY <2>1, <3>1, <3>3, <3>5
    <3> QED BY <3>6
  <2> QED BY <2>2, <2>3
<1>8. Cardinality(Needs({x \in call.waiting : x.id \in Started /\ Before(x, r)})) = low[k]
  <2>1. Cardinality(Needs({chosen[l] : l \in 1 .. k})) = low[k]
    BY NeedsSum
  <2> QED BY <1>7, <2>1
<1>9. low[k] \in Nat /\ r.min \in Nat
  BY LowBelow DEF WellFormed, Requests
<1>10. r.min + low[k] > Len(call.free)
  BY <1>6, <1>9
<1> QED BY <1>8, <1>10

\* Every answer keeps the order: where there is one waiter or none, there is nobody
\* to overtake.
LEMMA AnswerKeepsOrder ==
    ASSUME WellFormed, Answered
    PROVE  QueueOrderKept
<1>1. CASE call.free # <<>> /\ call.waiting # {} /\ ~Solo
  BY <1>1, FairAnswer, FairStrict, FairOvertakes DEF Fair, QueueOrderKept
<1>2. CASE call.free = <<>> \/ call.waiting = {}
  <2>1. plan = <<>>
    BY <1>2 DEF Answered, Plan
  <2> QED BY <2>1 DEF QueueOrderKept, StrictKeepsOrder, OvertakenOnlyIfInfeasible, Started
<1>3. CASE Solo
  <2>1. PICK q : call.waiting = {q}
    BY <1>3, FS_Singleton DEF WellFormed, Solo
  <2>2. \A s, r \in call.waiting : s = r
    BY <2>1
  <2> QED BY <2>2 DEF QueueOrderKept, StrictKeepsOrder, OvertakenOnlyIfInfeasible
<1> QED BY <1>1, <1>2, <1>3

\* Of every call that returns: with strict_fifo nobody is overtaken, without it only
\* who does not fit beside the minimums of those started ahead.
THEOREM QueueOrderKeptAlways == Spec => []QueueOrderKept
<1>1. CallInv => QueueOrderKept
  <2> SUFFICES ASSUME CallInv, ~returned PROVE QueueOrderKept
    BY AnswerKeepsOrder DEF CallInv
  <2>1. plan = <<>>
    BY DEF CallInv
  <2> QED BY <2>1 DEF QueueOrderKept, StrictKeepsOrder, OvertakenOnlyIfInfeasible, Started
<1> QED BY <1>1, CallInvariant, PTL
=============================================================================
