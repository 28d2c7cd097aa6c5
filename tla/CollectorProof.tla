---------------------------- MODULE CollectorProof ----------------------------
(***************************************************************************)
(* Proof about Collector, for any hosts, configurations and faults.        *)
(***************************************************************************)
EXTENDS Collector, DataInduction

\* The smaller of two numbers.
LEMMA MinOfTwo ==
    ASSUME NEW a \in Nat, NEW b \in Nat
    PROVE  Min({a, b}) = IF a <= b THEN a ELSE b
<1>1. \E x \in {a, b} : \A y \in {a, b} : x <= y
  OBVIOUS
<1> QED
  BY <1>1 DEF Min

\* The pause after a failure is the entry of the schedule that the counter shows.
PauseOnSchedule ==
    /\ config \in Configs
    /\ failures \in 0 .. Len(config.backoff)
    /\ failures > 0 => pause = config.backoff[failures]

\* The pause after a failure is one of the schedule, no shorter than the last.
LEMMA NextDelay ==
    ASSUME PauseOnSchedule
    PROVE  /\ Min({failures + 1, Len(config.backoff)}) \in 1 .. Len(config.backoff)
           /\ failures > 0 => FailureDelay >= pause
<1> DEFINE n == Len(config.backoff)
           m == Min({failures + 1, n})
<1>1. config.backoff \in Seq(Nat) /\ n \in Nat /\ n > 0
  BY ConfigsAssumption DEF PauseOnSchedule
<1>2. failures \in Nat /\ failures <= n
  BY <1>1 DEF PauseOnSchedule
<1>3. m = IF failures + 1 <= n THEN failures + 1 ELSE n
  BY <1>1, <1>2, MinOfTwo
<1>4. m \in 1 .. n /\ (failures > 0 => m = failures \/ m = failures + 1)
  BY <1>1, <1>2, <1>3
<1>5. ASSUME failures > 0 PROVE FailureDelay >= pause
  <2>1. \A i \in 1 .. n : config.backoff[i] \in Nat
    BY <1>1
  <2>2. \A i \in 2 .. n : config.backoff[i - 1] <= config.backoff[i]
    BY ConfigsAssumption DEF PauseOnSchedule
  <2>3. FailureDelay = config.backoff[m] /\ pause = config.backoff[failures]
    BY <1>5 DEF FailureDelay, PauseOnSchedule
  <2>4. CASE m = failures
    <3>1. failures \in 1 .. n /\ config.backoff[failures] \in Nat
      BY <1>2, <1>5, <2>1
    <3>2. FailureDelay = config.backoff[failures]
      BY <2>3, <2>4, Zenon
    <3> QED
      BY <2>3, <3>1, <3>2
  <2>5. CASE m = failures + 1
    <3>1. failures + 1 \in 2 .. n /\ failures \in 1 .. n /\ (failures + 1) - 1 = failures
      BY <1>2, <1>4, <1>5, <2>5
    <3>2. config.backoff[failures] <= config.backoff[failures + 1]
      BY <2>2, <3>1
    <3>3. FailureDelay = config.backoff[failures + 1]
      BY <2>3, <2>5, Zenon
    <3> QED
      BY <2>1, <2>3, <3>1, <3>2, <3>3
  <2> QED
    BY <1>4, <1>5, <2>4, <2>5
<1> QED
  BY <1>4, <1>5

\* Only the start of the process and the decision after a pass set the pause.
LEMMA Others ==
    ASSUME Next, ~Start, ~Decide
    PROVE  UNCHANGED <<config, failures, pause>>
BY DEF Next, Change, Wake, Collect, QueryStatus, QueryGpus, QueryProcesses, Failed, Goto,
       Record, Refused, Tick, Die, sleepVars

\* The pause is always that of the number of failures so far.
LEMMA PauseInvariant == Spec => []PauseOnSchedule
<1>1. Init => PauseOnSchedule
  BY ConfigsAssumption DEF Init, PauseOnSchedule
<1>2. PauseOnSchedule /\ [Next]_collectorVars => PauseOnSchedule'
  <2> SUFFICES ASSUME PauseOnSchedule, [Next]_collectorVars PROVE PauseOnSchedule'
    OBVIOUS
  <2>0. Len(config.backoff) \in Nat
    BY ConfigsAssumption DEF PauseOnSchedule
  <2>1. CASE Start
    BY <2>0, <2>1 DEF Start, PauseOnSchedule
  <2>2. CASE Decide
    <3>1. CASE ok
      BY <2>0, <2>2, <3>1 DEF Decide, PauseOnSchedule
    <3>2. CASE ~ok
      BY <2>2, <3>2, NextDelay DEF Decide, PauseOnSchedule, FailureDelay
    <3> QED
      BY <3>1, <3>2
  <2>3. CASE Next /\ ~Start /\ ~Decide
    BY <2>3, Others DEF PauseOnSchedule
  <2>4. CASE UNCHANGED collectorVars
    BY <2>4 DEF collectorVars, sleepVars, PauseOnSchedule
  <2> QED
    BY <2>1, <2>2, <2>3, <2>4
<1> QED
  BY <1>1, <1>2, PTL DEF Spec

\* However often a pass fails, the pause after it is at least the one before,
\* for every schedule that the collector accepts (ExponentialBackoff).
THEOREM CollectorBacksOff == Spec => BackoffNeverShrinks
<1>1. PauseOnSchedule /\ [Next]_collectorVars
        => [stage = "decide" /\ ~ok /\ failures > 0 => pause' >= pause]_collectorVars
  <2> SUFFICES ASSUME PauseOnSchedule, Next, stage = "decide", ~ok, failures > 0
               PROVE  pause' >= pause
    OBVIOUS
  <2>1. ~Start
    BY DEF Start, Ended
  <2>2. CASE Decide
    BY <2>2, NextDelay DEF Decide
  <2>3. CASE ~Decide
    <3>1. pause' = pause /\ pause \in Nat
      BY <2>1, <2>3, Others, ConfigsAssumption DEF PauseOnSchedule
    <3> QED
      BY <3>1
  <2> QED
    BY <2>2, <2>3
<1> QED
  BY <1>1, PauseInvariant, PTL DEF Spec, BackoffNeverShrinks

-----------------------------------------------------------------------------
(* What a host answers *)

\* Each GPU has a place in the order of nvidia-smi, and a place shows one GPU.
LEMMA Ordered ==
    ASSUME NEW S \in SUBSET Nat, IsFiniteSet(S)
    PROVE  /\ \A i \in DOMAIN InOrder(S) : InOrder(S)[i] \in S
           /\ \A g \in S : \E i \in DOMAIN InOrder(S) : InOrder(S)[i] = g
           /\ \A i, j \in DOMAIN InOrder(S) : InOrder(S)[i] = InOrder(S)[j] => i = j
           /\ DOMAIN InOrder(S) \subseteq Nat
<1> DEFINE n == Cardinality(S)
           B == [g \in S |-> {k \in S : k < g}]
<1>1. n \in Nat
  BY FS_CardinalityType
<1>2. /\ B \in [S -> SUBSET S]
      /\ \A x \in S : x \notin B[x]
      /\ \A x, y \in S : x # y => x \in B[y] \/ y \in B[x]
      /\ \A x, y \in S : x \in B[y] => B[x] \subseteq B[y]
  <2>1. B \in [S -> SUBSET S] /\ \A x, y \in S : x \in B[y] <=> x < y
    OBVIOUS
  <2>2. \A x, y \in S : x \in B[y] => B[x] \subseteq B[y]
    <3> SUFFICES ASSUME NEW x \in S, NEW y \in S, x \in B[y], NEW z \in B[x]
                 PROVE  z \in B[y]
      OBVIOUS
    <3>1. z \in S
      BY <2>1
    <3> HIDE DEF B
    <3> QED BY <2>1, <3>1
  <2> HIDE DEF B
  <2> QED BY <2>1, <2>2
<1>3. /\ \A x \in S : Cardinality(B[x]) \in 0 .. n - 1
      /\ \A x, y \in S : x \in B[y] => Cardinality(B[x]) < Cardinality(B[y])
      /\ \A i \in 1 .. n : \E x \in S : Cardinality(B[x]) = i - 1
  <2> HIDE DEF B
  <2> QED BY <1>2, Ranking
<1>4. ASSUME NEW i \in 1 .. n
      PROVE  InOrder(S)[i] \in S /\ Cardinality(B[InOrder(S)[i]]) = i - 1
  <2>1. \E x \in S : Cardinality({k \in S : k < x}) = i - 1
    BY <1>3
  <2>2. InOrder(S)[i] = CHOOSE x \in S : Cardinality({k \in S : k < x}) = i - 1
    BY DEF InOrder
  <2> QED BY <2>1, <2>2
<1>5. ASSUME NEW g \in S
      PROVE  \E i \in 1 .. n : InOrder(S)[i] = g
  <2> DEFINE i == Cardinality(B[g]) + 1
             x == InOrder(S)[i]
  <2>1. Cardinality(B[g]) \in 0 .. n - 1
    BY <1>3
  <2>2. i \in 1 .. n /\ i - 1 = Cardinality(B[g])
    BY <1>1, <2>1
  <2>3. x \in S /\ Cardinality(B[x]) = Cardinality(B[g])
    BY <1>4, <2>2
  <2> HIDE DEF B, x
  <2>4. ~(Cardinality(B[g]) < Cardinality(B[g]))
    BY <1>1, <2>1
  <2>5. x = g
    BY <1>2, <1>3, <2>3, <2>4
  <2> QED BY <2>2, <2>5 DEF x
<1>6. DOMAIN InOrder(S) = 1 .. n
  BY DEF InOrder
<1>7. \A i, j \in 1 .. n : InOrder(S)[i] = InOrder(S)[j] => i = j
  <2> SUFFICES ASSUME NEW i \in 1 .. n, NEW j \in 1 .. n, InOrder(S)[i] = InOrder(S)[j]
               PROVE  i = j
    OBVIOUS
  <2>1. i - 1 = j - 1
    BY <1>4
  <2> QED BY <1>1, <2>1
<1>8. 1 .. n \subseteq Nat
  OBVIOUS
<1> HIDE DEF n, B
<1> QED BY <1>4, <1>5, <1>6, <1>7, <1>8

\* A row is true of its host if its GPU was so since the pass began.
TrueRow(h, sample) ==
    sample.state \notin {"disabled", "unknown"} =>
        \E seen \in past[h] : seen[1] = sample.index /\ Shows(sample, seen[2])
Truthful(h, samples) == \A sample \in samples : TrueRow(h, sample)

\* The rows of a host: it is unknown, or there is one for every GPU.
Complete(h, samples) ==
    \/ samples = {Unknown}
    \/ /\ \A s, r \in samples : s.index = r.index => s = r
       /\ \A g \in Gpus[h] : <<g, None>> \notin past[h] =>
             \E s \in samples : s.index = g

\* What is known of a list of GPUs when the processes are asked for.
Lists(h, gpus) ==
    /\ \A i \in DOMAIN gpus :
          gpus[i].index \in Gpus[h] /\ gpus[i].uuid = <<h, gpus[i].index>>
    /\ \A g \in Gpus[h] : <<g, None>> \notin past[h] =>
          \E i \in DOMAIN gpus : gpus[i].index = g

HostTypes ==
    /\ truth = [h \in Hosts |-> truth[h]]
    /\ \A h \in Hosts : truth[h] \in [Gpus[h] -> Conditions[h]]

\* The GPUs that are there, by their places.
LEMMA PresentInOrder ==
    ASSUME NEW h \in Hosts, HostTypes, Now(h) \subseteq past[h]
    PROVE  /\ Present(h) \in SUBSET Nat /\ IsFiniteSet(Present(h))
           /\ \A g \in Present(h) :
                 /\ g \in Gpus[h]
                 /\ truth[h][g] # None /\ truth[h][g].started \in BOOLEAN
                 /\ <<g, truth[h][g]>> \in past[h]
           /\ \A g \in Gpus[h] : <<g, None>> \notin past[h] => g \in Present(h)
<1>1. Present(h) \in SUBSET Gpus[h] /\ Gpus[h] \in SUBSET Nat /\ IsFiniteSet(Gpus[h])
  BY GpusAssumption DEF Present
<1>2. IsFiniteSet(Present(h))
  BY <1>1, FS_Subset
<1>3. ASSUME NEW g \in Gpus[h] PROVE <<g, truth[h][g]>> \in past[h]
  BY DEF Now
<1>4. \A g \in Present(h) : truth[h][g] \in Conditions[h] \ {None}
  BY DEF Present, HostTypes
<1> QED BY <1>1, <1>2, <1>3, <1>4, ConditionsAssumption DEF Present

\* A row names its GPU, disabled or not.
LEMMA VisibleRow ==
    ASSUME NEW index, NEW state, NEW task, NEW attribution, NEW process, NEW disabled
    PROVE  LET row == Visible(Sample(index, state, task, attribution, process), disabled)
           IN  row.index = index /\ row.state \in {"disabled", state}
BY DEF Visible, Sample

\* What becomes of a GPU in gpu-steward's status, with or without the leases.
StatusState(status, gpu) ==
    LET held == {i \in DOMAIN status.leases : Holds(status.leases[i], gpu.uuid)} IN
    CASE held # {} -> LeaseState(status.leases[Max(held)])
      [] held = {} /\ (gpu.processes # {} \/ gpu.state \in ExternalStates) -> "external"
      [] held = {} /\ gpu.processes = {} /\ gpu.state \in ManagedStates -> "managed-other"
      [] held = {} /\ gpu.processes = {} /\ gpu.state \in FreeStates -> "idle"
      [] OTHER -> "unknown"

\* A row made from the status shows its own GPU.
LEMMA StatusRow ==
    ASSUME NEW status, NEW gpu, NEW disabled
    PROVE  LET row == Visible(StatusSample(status, gpu), disabled)
           IN  row.index = gpu.index /\ row.state \in {"disabled", StatusState(status, gpu)}
<1> DEFINE held == {i \in DOMAIN status.leases : Holds(status.leases[i], gpu.uuid)}
           process == ProcessName(gpu.processes)
<1>1. CASE held # {}
  <2>1. StatusSample(status, gpu) =
           Sample(gpu.index, LeaseState(status.leases[Max(held)]),
                  TaskName(status, status.leases[Max(held)].task), "explicit", process)
    BY <1>1 DEF StatusSample
  <2>2. StatusState(status, gpu) = LeaseState(status.leases[Max(held)])
    BY <1>1 DEF StatusState
  <2> QED BY <2>1, <2>2, VisibleRow
<1>2. CASE held = {} /\ (gpu.processes # {} \/ gpu.state \in ExternalStates)
  <2>1. StatusSample(status, gpu) =
           Sample(gpu.index, "external", process, "inferred", process)
    BY <1>2 DEF StatusSample, ExternalStates, ManagedStates, FreeStates
  <2>2. StatusState(status, gpu) = "external"
    BY <1>2 DEF StatusState, ExternalStates, ManagedStates, FreeStates
  <2> QED BY <2>1, <2>2, VisibleRow
<1>3. CASE held = {} /\ gpu.processes = {} /\ gpu.state \in ManagedStates
  <2>1. StatusSample(status, gpu) = Sample(gpu.index, "managed-other", None, "none", None)
    BY <1>3 DEF StatusSample, ExternalStates, ManagedStates, FreeStates
  <2>2. StatusState(status, gpu) = "managed-other"
    BY <1>3 DEF StatusState, ExternalStates, ManagedStates, FreeStates
  <2> QED BY <2>1, <2>2, VisibleRow
<1>4. CASE held = {} /\ gpu.processes = {} /\ gpu.state \in FreeStates
  <2>1. StatusSample(status, gpu) = Sample(gpu.index, "idle", None, "none", None)
    BY <1>4 DEF StatusSample, ExternalStates, ManagedStates, FreeStates
  <2>2. StatusState(status, gpu) = "idle"
    BY <1>4 DEF StatusState, ExternalStates, ManagedStates, FreeStates
  <2> QED BY <2>1, <2>2, VisibleRow
<1>5. CASE ~(held # {}) /\ ~(gpu.processes # {} \/ gpu.state \in ExternalStates)
           /\ gpu.state \notin ManagedStates /\ gpu.state \notin FreeStates
  <2>1. StatusSample(status, gpu) = Sample(gpu.index, "unknown", None, "unknown", None)
    BY <1>5 DEF StatusSample
  <2>2. StatusState(status, gpu) = "unknown"
    BY <1>5 DEF StatusState
  <2> QED BY <2>1, <2>2, VisibleRow
<1> QED BY <1>1, <1>2, <1>3, <1>4, <1>5

\* The answer of gpu-steward, whole or in part, shows the GPUs as they are.
LEMMA StatusRows ==
    ASSUME NEW h \in Hosts, HostTypes, Now(h) \subseteq past[h], NEW disabled,
           NEW answer \in {Status(h), [Status(h) EXCEPT !.leases = <<>>],
                           [Status(h) EXCEPT !.labels = <<>>]}
    PROVE  LET rows0 == SamplesFromStatus(answer, disabled)
           IN  Truthful(h, rows0) /\ Complete(h, rows0)
<1> DEFINE here == InOrder(Present(h))
           leased == InOrder({g \in Present(h) : truth[h][g].lease # None})
           row(g) == [index |-> g, uuid |-> <<h, g>>, processes |-> truth[h][g].processes,
                      state |-> CASE truth[h][g].lease # None -> "managed_busy"
                                  [] truth[h][g].lease = None /\ truth[h][g].processes # {}
                                       -> "external_busy"
                                  [] OTHER -> "free"]
           lease(i) == [task |-> TaskOf(leased[i]), status |-> "active",
                        pid |-> IF truth[h][leased[i]].started THEN 1 ELSE None,
                        uuids |-> {<<h, leased[i]>>}]
           sample(g) == Visible(StatusSample(answer, row(g)), disabled)
           rows0 == SamplesFromStatus(answer, disabled)
<1>1. /\ answer.gpus = [i \in DOMAIN here |-> row(here[i])]
      /\ \/ answer.leases = <<>>
         \/ answer.leases = [i \in DOMAIN leased |-> lease(i)]
  <2> DEFINE gpus == [i \in DOMAIN here |-> row(here[i])]
             leases == [i \in DOMAIN leased |-> lease(i)]
             labels == [task \in {TaskOf(leased[i]) : i \in DOMAIN leased} |->
                          truth[h][task.gpu].lease]
  <2>1. Status(h) = [gpus |-> gpus, leases |-> leases, labels |-> labels]
    BY DEF Status
  <2> HIDE DEF gpus, leases, labels
  <2>2. answer.gpus = gpus /\ (answer.leases = <<>> \/ answer.leases = leases)
    BY <2>1
  <2> QED BY <2>2 DEF gpus, leases
<1>2. /\ Present(h) \in SUBSET Nat /\ IsFiniteSet(Present(h))
      /\ \A g \in Present(h) :
            /\ g \in Gpus[h]
            /\ truth[h][g] # None /\ truth[h][g].started \in BOOLEAN
            /\ <<g, truth[h][g]>> \in past[h]
      /\ \A g \in Gpus[h] : <<g, None>> \notin past[h] => g \in Present(h)
  BY PresentInOrder
<1>3. /\ \A i \in DOMAIN here : here[i] \in Present(h)
      /\ \A g \in Present(h) : \E i \in DOMAIN here : here[i] = g
  BY <1>2, Ordered
<1>4. /\ \A i \in DOMAIN leased : leased[i] \in Present(h) /\ truth[h][leased[i]].lease # None
      /\ \A i, j \in DOMAIN leased : leased[i] = leased[j] => i = j
      /\ DOMAIN leased \subseteq Nat
  <2> DEFINE L == {g \in Present(h) : truth[h][g].lease # None}
  <2>1. L \in SUBSET Present(h) /\ L \in SUBSET Nat
    BY <1>2
  <2>2. IsFiniteSet(L)
    BY <1>2, <2>1, FS_Subset
  <2> QED BY <2>1, <2>2, Ordered
<1>5. rows0 = {sample(g) : g \in Present(h)}
  <2> HIDE DEF row, here
  <2>1. rows0 = {sample(here[i]) : i \in DOMAIN here}
    BY <1>1, SMTT(30) DEF SamplesFromStatus
  <2> HIDE DEF rows0, sample
  <2> QED BY <1>3, <2>1
<1>6. ASSUME NEW g \in Present(h)
      PROVE  /\ sample(g).index = g
             /\ sample(g).state \in {"disabled", StatusState(answer, row(g))}
  <2>1. row(g).index = g
    OBVIOUS
  <2> HIDE DEF row
  <2> QED BY <2>1, StatusRow
<1>7. ASSUME NEW g \in Present(h), NEW s, s.state = StatusState(answer, row(g)),
             s.state # "unknown"
      PROVE  Shows(s, truth[h][g])
  <2> DEFINE held == {i \in DOMAIN answer.leases : Holds(answer.leases[i], row(g).uuid)}
             c == truth[h][g]
  <2>1. CASE held # {}
    <3>1. PICK i \in held : TRUE
      BY <2>1
    <3>2. answer.leases = [k \in DOMAIN leased |-> lease(k)]
      <4>1. DOMAIN <<>> = {}
        OBVIOUS
      <4> HIDE DEF lease
      <4> QED BY <1>1, <3>1, <4>1
    <3>3. \A k \in held : k \in DOMAIN leased /\ leased[k] = g
      <4> SUFFICES ASSUME NEW k \in held
                   PROVE  k \in DOMAIN leased /\ leased[k] = g
        OBVIOUS
      <4>1. k \in DOMAIN leased /\ answer.leases[k] = lease(k)
        BY <3>2
      <4>2. <<h, g>> \in lease(k).uuids
        BY <4>1 DEF Holds
      <4>3. <<h, g>> = <<h, leased[k]>>
        BY <4>2
      <4> QED BY <4>1, <4>3
    <3>4. held = {i} /\ i \in Nat /\ i \in DOMAIN leased /\ leased[i] = g
      BY <1>4, <3>1, <3>3
    <3>5. Max(held) = i
      BY <3>4 DEF Max
    <3>6. s.state = LeaseState(lease(i))
      BY <1>7, <2>1, <3>2, <3>4, <3>5 DEF StatusState
    <3>7. s.state = IF c.started THEN "training" ELSE "reserved"
      <4>1. lease(i).pid = IF c.started THEN 1 ELSE None
        BY <3>4
      <4>2. lease(i).pid = None <=> ~c.started
        <5>1. 1 # None
          BY NoneAssumption
        <5>2. c.started \in BOOLEAN
          BY <1>2
        <5> HIDE DEF lease, c
        <5> QED BY <4>1, <5>1, <5>2
      <4> HIDE DEF lease
      <4> QED BY <1>2, <3>6, <4>2 DEF LeaseState
    <3>8. c.lease # None /\ c # None
      BY <1>2, <1>4, <3>4
    <3> QED BY <1>2, <3>7, <3>8 DEF Shows
  <2>2. CASE held = {}
    <3>1. \/ s.state = "external" /\ c.processes # {}
          \/ s.state = "managed-other" /\ c.lease # None
          \/ s.state = "idle" /\ c.processes = {}
      BY <1>7, <2>2 DEF StatusState, ExternalStates, ManagedStates, FreeStates
    <3> QED BY <1>2, <3>1 DEF Shows
  <2> QED BY <2>1, <2>2
<1> HIDE DEF sample, rows0, row
<1>8. Truthful(h, rows0)
  <2> SUFFICES ASSUME NEW g \in Present(h), sample(g).state \notin {"disabled", "unknown"}
               PROVE  \E seen \in past[h] :
                         seen[1] = sample(g).index /\ Shows(sample(g), seen[2])
    BY <1>5 DEF Truthful, TrueRow
  <2>1. Shows(sample(g), truth[h][g])
    BY <1>6, <1>7
  <2>2. <<g, truth[h][g]>>[1] = g /\ <<g, truth[h][g]>>[2] = truth[h][g]
    OBVIOUS
  <2> QED BY <1>2, <1>6, <2>1, <2>2
<1>9. Complete(h, rows0)
  <2>1. \A s, r \in rows0 : s.index = r.index => s = r
    BY <1>5, <1>6
  <2>2. \A g \in Gpus[h] : <<g, None>> \notin past[h] => \E s \in rows0 : s.index = g
    BY <1>2, <1>5, <1>6
  <2> QED BY <2>1, <2>2 DEF Complete
<1> QED BY <1>8, <1>9 DEF rows0

\* The first answer of nvidia-smi lists the GPUs that are there.
LEMMA GpusListed ==
    ASSUME NEW h \in Hosts, HostTypes, Now(h) \subseteq past[h]
    PROVE  Lists(h, GpuList(h))
<1> DEFINE here == InOrder(Present(h))
<1>1. GpuList(h) = [i \in DOMAIN here |-> [index |-> here[i], uuid |-> <<h, here[i]>>]]
  BY DEF GpuList
<1>2. /\ Present(h) \in SUBSET Nat /\ IsFiniteSet(Present(h)) /\ Present(h) \subseteq Gpus[h]
      /\ \A g \in Gpus[h] : <<g, None>> \notin past[h] => g \in Present(h)
  BY PresentInOrder DEF Present
<1>3. /\ \A i \in DOMAIN here : here[i] \in Present(h)
      /\ \A g \in Present(h) : \E i \in DOMAIN here : here[i] = g
  BY <1>2, Ordered
<1> HIDE DEF here
<1>4. /\ DOMAIN GpuList(h) = DOMAIN here
      /\ \A i \in DOMAIN here :
            GpuList(h)[i].index = here[i] /\ GpuList(h)[i].uuid = <<h, here[i]>>
  BY <1>1
<1> QED BY <1>2, <1>3, <1>4 DEF Lists

\* The second answer, taken later, shows the listed GPUs as they are by now;
\* one that is gone meanwhile shows no process.
LEMMA SmiRows ==
    ASSUME NEW h \in Hosts, HostTypes, Now(h) \subseteq past[h], NEW disabled,
           NEW gpus, Lists(h, gpus), ProcessList(h) # Bad
    PROVE  LET rows0 == SamplesFromSmi(gpus, ProcessList(h), disabled)
           IN  Truthful(h, rows0) /\ Complete(h, rows0)
<1> DEFINE own(g) == {p \in ProcessList(h) : p.uuid = <<h, g>>}
           sample(g) == Visible(IF own(g) = {} THEN Sample(g, "idle", None, "none", None)
                                ELSE Sample(g, "external", ProcessName(own(g)), "inferred",
                                            ProcessName(own(g))), disabled)
           rows0 == SamplesFromSmi(gpus, ProcessList(h), disabled)
           indices == {gpus[i].index : i \in DOMAIN gpus}
<1>1. \A i \in DOMAIN gpus : /\ gpus[i].index \in Gpus[h]
                             /\ gpus[i].uuid = <<h, gpus[i].index>>
  BY DEF Lists
<1>2. rows0 = {sample(g) : g \in indices}
  <2>1. ASSUME NEW i \in DOMAIN gpus
        PROVE  Visible(SmiSample(gpus[i], ProcessList(h)), disabled) = sample(gpus[i].index)
    BY <1>1 DEF SmiSample
  <2> HIDE DEF sample
  <2> QED BY <2>1 DEF SamplesFromSmi
<1>3. ASSUME NEW g \in indices
      PROVE  /\ sample(g).index = g
             /\ sample(g).state \in {"disabled", IF own(g) = {} THEN "idle" ELSE "external"}
  <2> HIDE DEF own
  <2> QED BY VisibleRow
<1>4. indices \subseteq Gpus[h]
  BY <1>1
<1> HIDE DEF sample, rows0, indices
<1>5. ASSUME NEW g \in indices, NEW s,
             s.state = IF own(g) = {} THEN "idle" ELSE "external"
      PROVE  Shows(s, truth[h][g])
  <2>1. g \in Gpus[h]
    BY <1>4
  <2>2. CASE truth[h][g] = None
    <3>1. own(g) = {}
      <4> SUFFICES ASSUME NEW p \in own(g) PROVE FALSE
        OBVIOUS
      <4>1. PICK k \in Present(h) : p.uuid = <<h, k>>
        BY DEF ProcessList
      <4>2. k = g
        BY <4>1
      <4> QED BY <2>2, <4>1, <4>2 DEF Present
    <3> HIDE DEF own
    <3> QED BY <1>5, <2>2, <3>1 DEF Shows
  <2>3. CASE truth[h][g] # None
    <3>1. g \in Present(h)
      BY <2>1, <2>3 DEF Present
    <3>2. own(g) = {} => truth[h][g].processes = {}
      <4> SUFFICES ASSUME NEW p \in truth[h][g].processes PROVE own(g) # {}
        OBVIOUS
      <4> DEFINE entry == [uuid |-> <<h, g>>, pid |-> p.pid, name |-> p.name]
      <4>1. entry \in ProcessList(h)
        <5> DEFINE of(k) == {[uuid |-> <<h, k>>, pid |-> q.pid, name |-> q.name] :
                                q \in truth[h][k].processes}
        <5>1. entry \in of(g)
          OBVIOUS
        <5>2. ProcessList(h) = UNION {of(k) : k \in Present(h)}
          BY DEF ProcessList
        <5> HIDE DEF of, entry
        <5> QED BY <3>1, <5>1, <5>2
      <4> QED BY <4>1
    <3>3. own(g) # {} => truth[h][g].processes # {}
      <4> SUFFICES ASSUME NEW p \in own(g) PROVE truth[h][g].processes # {}
        OBVIOUS
      <4>1. PICK k \in Present(h) : p.uuid = <<h, k>> /\ truth[h][k].processes # {}
        BY DEF ProcessList
      <4>2. k = g
        BY <4>1
      <4> QED BY <4>1, <4>2
    <3> HIDE DEF own
    <3> QED BY <1>5, <2>3, <3>2, <3>3 DEF Shows
  <2> QED BY <2>2, <2>3
<1> HIDE DEF own
<1>6. Truthful(h, rows0)
  <2> SUFFICES ASSUME NEW g \in indices, sample(g).state \notin {"disabled", "unknown"}
               PROVE  \E seen \in past[h] :
                         seen[1] = sample(g).index /\ Shows(sample(g), seen[2])
    BY <1>2 DEF Truthful, TrueRow
  <2>1. Shows(sample(g), truth[h][g])
    BY <1>3, <1>5
  <2>2. <<g, truth[h][g]>>[1] = g /\ <<g, truth[h][g]>>[2] = truth[h][g]
    OBVIOUS
  <2>3. <<g, truth[h][g]>> \in past[h]
    BY <1>4 DEF Now
  <2> QED BY <1>3, <2>1, <2>2, <2>3
<1>7. Complete(h, rows0)
  <2>1. \A s, r \in rows0 : s.index = r.index => s = r
    BY <1>2, <1>3
  <2>2. \A g \in Gpus[h] : <<g, None>> \notin past[h] => g \in indices
    BY DEF Lists, indices
  <2>3. \A g \in Gpus[h] : <<g, None>> \notin past[h] => \E s \in rows0 : s.index = g
    BY <1>2, <1>3, <2>2
  <2> QED BY <2>1, <2>3 DEF Complete
<1> QED BY <1>6, <1>7 DEF rows0

\* A host that could not be probed shows as unknown, which is always right.
LEMMA UnknownRow ==
    ASSUME NEW h
    PROVE  Truthful(h, {Unknown}) /\ Complete(h, {Unknown})
BY DEF Truthful, TrueRow, Complete, Unknown, Sample

-----------------------------------------------------------------------------
(* The invariant *)

Types ==
    /\ HostTypes
    /\ past = [h \in Hosts |-> past[h]]
    /\ recorded = [h \in Hosts |-> recorded[h]]
    /\ age \in [Hosts -> Nat]
    /\ timer \in Nat
    /\ fresh \subseteq Hosts
    /\ turn \in 1 .. Len(config.hosts) + 1

\* What the pass has done so far, and what its rows are worth.
PassInv ==
    stage \in InPass =>
        /\ \A h \in Hosts : Now(h) \subseteq past[h]
        /\ stage # "decide" <=> turn <= Len(config.hosts)
        /\ \A i \in 1 .. Len(config.hosts) : i < turn => config.hosts[i] \in fresh
        /\ \A h \in fresh :
              /\ Truthful(h, recorded[h]) /\ Complete(h, recorded[h])
              /\ age[h] = 0
              /\ \A s \in recorded[h] : s.state \in visible
        /\ stage = "processes" => Lists(Host, listed)
        /\ stage = "write" => Truthful(Host, rows) /\ Complete(Host, rows)

IInv == PauseOnSchedule /\ Types /\ PassInv /\ BusySampledSoon

\* The host whose turn it is.
LEMMA HostOfTurn ==
    ASSUME PauseOnSchedule, Types, PassInv, stage \in InPass, stage # "decide"
    PROVE  Host \in Hosts /\ turn \in 1 .. Len(config.hosts)
<1>1. config.hosts \in Seq(Hosts) /\ Len(config.hosts) \in Nat
  BY ConfigsAssumption DEF PauseOnSchedule
<1>2. turn \in 1 .. Len(config.hosts)
  BY <1>1 DEF Types, PassInv
<1> QED BY <1>1, <1>2 DEF Host

\* The hosts of a pass are those of the configuration.
LEMMA ProbedHosts ==
    ASSUME config \in Configs
    PROVE  /\ Probed \subseteq Hosts
           /\ \A h \in Probed : \E i \in 1 .. Len(config.hosts) : h = config.hosts[i]
<1>1. config.hosts \in Seq(Hosts)
  BY ConfigsAssumption
<1> QED BY <1>1 DEF Probed

\* What a pass knows grows with what it has seen.
LEMMA RowsKept ==
    ASSUME NEW h, past[h] \subseteq past'[h], NEW samples
    PROVE  /\ Truthful(h, samples) => Truthful(h, samples)'
           /\ Complete(h, samples) => Complete(h, samples)'
<1>1. \A sample : TrueRow(h, sample) => TrueRow(h, sample)'
  BY DEF TrueRow, Shows
<1> QED BY <1>1 DEF Truthful, Complete

\* The times of a configuration; none of its pauses after a failure exceeds
\* the last.
LEMMA ScheduleTypes ==
    ASSUME config \in Configs, failures \in 0 .. Len(config.backoff)
    PROVE  /\ Len(config.backoff) \in Nat \ {0}
           /\ config.backoff[Len(config.backoff)] \in Nat
           /\ config.interval \in Nat /\ config.idleInterval \in Nat
           /\ config.interval <= config.idleInterval
           /\ failures \in Nat
           /\ \A h : (CASE failures > 0 -> config.backoff[Len(config.backoff)]
                        [] failures = 0 /\ Busy(h) -> config.interval
                        [] failures = 0 /\ ~Busy(h) -> config.idleInterval) \in Nat
<1>1. config.backoff \in Seq(Nat) /\ config.backoff # <<>>
      /\ config.interval \in Nat /\ config.idleInterval \in Nat
      /\ config.interval <= config.idleInterval
  BY ConfigsAssumption
<1>2. Len(config.backoff) \in Nat \ {0} /\ config.backoff[Len(config.backoff)] \in Nat
  BY <1>1
<1>3. failures \in Nat /\ (failures > 0 \/ failures = 0)
  BY <1>2
<1> DEFINE last == config.backoff[Len(config.backoff)]
<1>4. last \in Nat
  BY <1>2
<1> HIDE DEF last
<1>5. \A h : (CASE failures > 0 -> last
                [] failures = 0 /\ Busy(h) -> config.interval
                [] failures = 0 /\ ~Busy(h) -> config.idleInterval) \in Nat
  BY <1>1, <1>3, <1>4
<1> QED BY <1>1, <1>2, <1>3, <1>5 DEF last

\* The longest time a host may be left alone is a number.
LEMMA LongestType ==
    ASSUME config \in Configs
    PROVE  Longest(config) + 1 \in Nat
<1> DEFINE a == config.idleInterval
           b == config.backoff[Len(config.backoff)]
<1>1. a \in Nat /\ b \in Nat
  BY ConfigsAssumption
<1>2. Longest(config) = Max({a, b})
  BY DEF Longest
<1> HIDE DEF a, b
<1>3. \E x \in {a, b} : \A y \in {a, b} : x >= y
  BY <1>1
<1>4. Max({a, b}) \in {a, b}
  BY <1>3 DEF Max
<1> QED BY <1>1, <1>2, <1>4

\* IInv holds when the process starts.
LEMMA InitIInv == Init => IInv
<1> SUFFICES ASSUME Init PROVE IInv
  OBVIOUS
<1>1. config.hosts \in Seq(Hosts) /\ config.backoff \in Seq(Nat) /\ config.backoff # <<>>
      /\ config.idleInterval \in Nat
  BY ConfigsAssumption DEF Init
<1>2. PauseOnSchedule
  BY <1>1 DEF Init, PauseOnSchedule
<1>3. Longest(config) + 1 \in Nat
  BY LongestType DEF Init
<1>4. Types
  <2>1. age \in [Hosts -> Nat]
    BY <1>3 DEF Init
  <2>2. HostTypes
    BY DEF Init, HostTypes
  <2>3. Len(config.hosts) \in Nat
    BY <1>1
  <2> QED BY <2>1, <2>2, <2>3 DEF Init, Types
<1>5. PassInv
  BY DEF Init, PassInv, InPass
<1>6. BusySampledSoon
  BY DEF Init, BusySampledSoon
<1> QED BY <1>2, <1>4, <1>5, <1>6 DEF IInv

\* A change of a host is something the pass has seen.
LEMMA ChangeKeepsIInv ==
    ASSUME IInv, NEW h0 \in Hosts, NEW g0 \in Gpus[h0], Change(h0, g0)
    PROVE  IInv'
<1> USE DEF IInv
<1>1. PICK c \in Conditions[h0] :
        /\ truth' = [truth EXCEPT ![h0][g0] = c]
        /\ past' = IF stage \in InPass THEN [past EXCEPT ![h0] = @ \cup {<<g0, c>>}]
                   ELSE past
  BY DEF Change
<1>2. UNCHANGED <<config, stage, turn, listed, rows, ok, visible, failures, pause, timer,
                  recorded, fresh, age>>
  BY DEF Change, passVars, sleepVars, storeVars
<1>3. PauseOnSchedule'
  BY <1>2 DEF PauseOnSchedule
<1>4. \A h \in Hosts : \A g \in Gpus[h] :
        truth'[h][g] = IF h = h0 /\ g = g0 THEN c ELSE truth[h][g]
  BY <1>1 DEF Types, HostTypes
<1>5. Types'
  <2>1. HostTypes'
    BY <1>1 DEF Types, HostTypes
  <2>2. past' = [h \in Hosts |-> past'[h]]
    BY <1>1 DEF Types
  <2> QED BY <1>2, <2>1, <2>2 DEF Types
<1>6. PassInv'
  <2> SUFFICES ASSUME stage \in InPass PROVE PassInv'
    BY <1>2 DEF PassInv
  <2>1. \A h \in Hosts : past'[h] = past[h] \cup (IF h = h0 THEN {<<g0, c>>} ELSE {})
    BY <1>1 DEF Types
  <2>2. \A h \in Hosts : past[h] \subseteq past'[h]
    BY <2>1
  <2>3. ASSUME NEW h \in Hosts PROVE Now(h)' \subseteq past'[h]
    <3> SUFFICES ASSUME NEW g \in Gpus[h] PROVE <<g, truth'[h][g]>> \in past'[h]
      BY DEF Now
    <3>1. <<g, truth[h][g]>> \in past[h]
      BY DEF PassInv, Now
    <3> QED BY <1>4, <2>1, <3>1
  <2>4. ASSUME NEW h \in fresh
        PROVE  (Truthful(h, recorded[h]) /\ Complete(h, recorded[h]))'
    BY <1>2, <2>2, RowsKept DEF PassInv, Types
  <2>5. stage = "processes" => Lists(Host, listed)'
    <3> SUFFICES ASSUME stage = "processes" PROVE Lists(Host, listed)'
      OBVIOUS
    <3>1. Host \in Hosts
      BY HostOfTurn
    <3> QED BY <1>2, <2>2, <3>1 DEF PassInv, Lists, Host
  <2>6. stage = "write" => (Truthful(Host, rows) /\ Complete(Host, rows))'
    <3> SUFFICES ASSUME stage = "write" PROVE (Truthful(Host, rows) /\ Complete(Host, rows))'
      OBVIOUS
    <3>1. Host \in Hosts
      BY HostOfTurn
    <3>2. Host' = Host
      BY <1>2 DEF Host
    <3> QED BY <1>2, <2>2, <3>1, <3>2, RowsKept DEF PassInv
  <2> QED BY <1>2, <2>3, <2>4, <2>5, <2>6 DEF PassInv
<1>7. BusySampledSoon'
  BY <1>2 DEF BusySampledSoon, Probed, Busy
<1> QED BY <1>3, <1>5, <1>6, <1>7

\* Between two hosts, and between two questions to a host, only the answer of
\* the host is new.
LEMMA AnswerKeepsIInv ==
    ASSUME IInv, stage \in InPass \ {"decide"}, stage' \in InPass \ {"decide"},
           UNCHANGED <<config, truth, turn, visible, sleepVars, storeVars, past>>,
           stage' = "processes" => Lists(Host, listed'),
           stage' = "write" => Truthful(Host, rows') /\ Complete(Host, rows')
    PROVE  IInv'
<1> USE DEF IInv, sleepVars, storeVars
<1>1. PauseOnSchedule'
  BY DEF PauseOnSchedule
<1>2. Types'
  BY DEF Types, HostTypes
<1>3. PassInv'
  <2>1. Host' = Host
    BY DEF Host
  <2>2. stage' = "processes" => Lists(Host, listed)'
    BY <2>1 DEF Lists
  <2>3. stage' = "write" => (Truthful(Host, rows) /\ Complete(Host, rows))'
    BY <2>1 DEF Truthful, TrueRow, Shows, Complete
  <2>4. \A h \in fresh : (Truthful(h, recorded[h]) /\ Complete(h, recorded[h]))'
    BY DEF Truthful, TrueRow, Shows, Complete, PassInv
  <2>5. \A h \in Hosts : (Now(h) \subseteq past[h])'
    BY DEF PassInv, Now
  <2> QED BY <2>2, <2>3, <2>4, <2>5 DEF PassInv
<1>4. BusySampledSoon'
  BY DEF BusySampledSoon, InPass
<1> QED BY <1>1, <1>2, <1>3, <1>4

\* The three questions of a probe, and the passing of time, keep IInv.
LEMMA QueryStatusKeepsIInv ==
    ASSUME IInv, QueryStatus
    PROVE  IInv'
<1>1. PICK answer \in {Status(Host), [Status(Host) EXCEPT !.leases = <<>>],
                       [Status(Host) EXCEPT !.labels = <<>>], Bad} :
        IF StatusParses(answer)
        THEN /\ rows' = SamplesFromStatus(answer, config.disabled[Host])
             /\ Goto("write")
        ELSE /\ rows' = rows
             /\ Goto("gpus")
  BY DEF QueryStatus
<1>2. stage = "status" /\ Host \in Hosts
  BY HostOfTurn DEF IInv, QueryStatus, InPass
<1>3. stage' \in {"write", "gpus"}
      /\ UNCHANGED <<config, truth, turn, visible, sleepVars, storeVars, past>>
  BY <1>1 DEF Goto
<1>4. ASSUME stage' = "write"
      PROVE  Truthful(Host, rows') /\ Complete(Host, rows')
  <2>1. StatusParses(answer) /\ rows' = SamplesFromStatus(answer, config.disabled[Host])
    BY <1>1, <1>4 DEF Goto
  <2>2. answer \in {Status(Host), [Status(Host) EXCEPT !.leases = <<>>],
                    [Status(Host) EXCEPT !.labels = <<>>]}
    BY <2>1 DEF StatusParses
  <2>3. HostTypes /\ Now(Host) \subseteq past[Host]
    BY <1>2 DEF IInv, Types, PassInv, InPass
  <2> QED BY <1>2, <2>1, <2>2, <2>3, StatusRows
<1> QED BY <1>2, <1>3, <1>4, AnswerKeepsIInv DEF InPass

\* The question for the GPUs of a host keeps IInv, answered or not.
LEMMA QueryGpusKeepsIInv ==
    ASSUME IInv, QueryGpus
    PROVE  IInv'
<1>1. stage = "gpus" /\ Host \in Hosts
  BY HostOfTurn DEF IInv, QueryGpus, InPass
<1>2. \/ listed' = GpuList(Host) /\ stage' = "processes"
      \/ rows' = {Unknown} /\ stage' = "write"
  BY DEF QueryGpus, GpusParse, Failed, Goto
<1>3. UNCHANGED <<config, truth, turn, visible, sleepVars, storeVars, past>>
  BY DEF QueryGpus, Failed, Goto
<1>4. HostTypes /\ Now(Host) \subseteq past[Host]
  BY <1>1 DEF IInv, Types, PassInv, InPass
<1>5. stage' = "processes" => Lists(Host, listed')
  BY <1>1, <1>2, <1>4, GpusListed
<1>6. stage' = "write" => Truthful(Host, rows') /\ Complete(Host, rows')
  BY <1>2, UnknownRow
<1> QED BY <1>1, <1>2, <1>3, <1>5, <1>6, AnswerKeepsIInv DEF InPass

\* So does the question for its processes.
LEMMA QueryProcessesKeepsIInv ==
    ASSUME IInv, QueryProcesses
    PROVE  IInv'
<1>1. stage = "processes" /\ Host \in Hosts
  BY HostOfTurn DEF IInv, QueryProcesses, InPass
<1>2. /\ stage' = "write"
      /\ \/ /\ ProcessList(Host) # Bad
            /\ rows' = SamplesFromSmi(listed, ProcessList(Host), config.disabled[Host])
         \/ rows' = {Unknown}
  BY DEF QueryProcesses, ProcessesParse, Failed, Goto
<1>3. UNCHANGED <<config, truth, turn, visible, sleepVars, storeVars, past>>
  BY DEF QueryProcesses, Failed, Goto
<1>4. HostTypes /\ Now(Host) \subseteq past[Host] /\ Lists(Host, listed)
  BY <1>1 DEF IInv, Types, PassInv, InPass
<1>5. Truthful(Host, rows') /\ Complete(Host, rows')
  BY <1>1, <1>2, <1>4, SmiRows, UnknownRow
<1> QED BY <1>1, <1>2, <1>3, <1>5, AnswerKeepsIInv DEF InPass

\* A pass begins with a look at all hosts, and has recorded nothing.
LEMMA BeginKeepsIInv ==
    ASSUME IInv, Begin, PauseOnSchedule', timer' \in Nat,
           UNCHANGED <<config, truth, recorded, age>>
    PROVE  IInv'
<1> USE DEF IInv
<1>1. Len(config.hosts) \in Nat /\ (config.hosts = <<>> <=> Len(config.hosts) = 0)
  BY ConfigsAssumption DEF PauseOnSchedule
<1>2. Types'
  BY <1>1 DEF Types, HostTypes, Begin
<1>3. PassInv'
  <2>1. \A h \in Hosts : (Now(h) \subseteq past[h])'
    BY DEF Begin, Now
  <2>2. stage' \in {"decide", "status"} /\ (stage' = "decide" <=> config.hosts = <<>>)
        /\ turn' = 1 /\ fresh' = {}
    BY DEF Begin
  <2> QED BY <1>1, <2>1, <2>2 DEF PassInv
<1>4. BusySampledSoon'
  BY DEF BusySampledSoon, Begin
<1> QED BY <1>2, <1>3, <1>4

\* The transaction of a host's rows: the host is done.
LEMMA RecordKeepsIInv ==
    ASSUME IInv, Record
    PROVE  IInv'
<1> USE DEF IInv
<1>1. stage = "write" /\ Host \in Hosts /\ turn \in 1 .. Len(config.hosts)
      /\ Len(config.hosts) \in Nat
  BY HostOfTurn, ConfigsAssumption DEF Record, InPass, PauseOnSchedule
<1>2. /\ turn' = turn + 1
      /\ stage' = IF turn = Len(config.hosts) THEN "decide" ELSE "status"
      /\ UNCHANGED <<config, truth, past, failures, pause, timer>>
  BY DEF Record, sleepVars
<1>3. /\ \A h \in Hosts : recorded'[h] = IF h = Host THEN rows ELSE recorded[h]
      /\ \A h \in Hosts : age'[h] = IF h = Host THEN 0 ELSE age[h]
      /\ fresh' = fresh \cup {Host}
      /\ \A state \in visible \cup {sample.state : sample \in rows} : state \in visible'
  BY DEF Record, SeenWith, Types
<1>4. PauseOnSchedule'
  BY <1>2 DEF PauseOnSchedule
<1>5. Types'
  <2>1. recorded' = [h \in Hosts |-> recorded'[h]] /\ age' \in [Hosts -> Nat]
    BY DEF Record, Types
  <2>2. turn' \in 1 .. Len(config'.hosts) + 1
    BY <1>1, <1>2
  <2> QED BY <1>1, <1>2, <1>3, <2>1, <2>2 DEF Types, HostTypes
<1>6. PassInv'
  <2>1. \A h \in Hosts : (Now(h) \subseteq past[h])'
    BY <1>1, <1>2 DEF PassInv, Now, InPass
  <2>2. stage' # "decide" <=> turn' <= Len(config.hosts)
    BY <1>1, <1>2
  <2>3. ASSUME NEW i \in 1 .. Len(config.hosts), i < turn'
        PROVE  config.hosts[i] \in fresh'
    <3>1. i < turn \/ i = turn
      BY <1>1, <1>2, <2>3
    <3> QED BY <1>1, <1>3, <3>1 DEF PassInv, InPass, Host
  <2>4. ASSUME NEW h \in fresh'
        PROVE  /\ (Truthful(h, recorded[h]) /\ Complete(h, recorded[h]))'
               /\ age'[h] = 0
               /\ \A s \in recorded'[h] : s.state \in visible'
    <3>1. h \in Hosts /\ past'[h] = past[h]
      BY <1>1, <1>2, <1>3 DEF Types
    <3>2. Truthful(h, recorded'[h]) /\ Complete(h, recorded'[h])
      BY <1>1, <1>3, <2>4, <3>1 DEF PassInv, InPass
    <3>3. (Truthful(h, recorded[h]) /\ Complete(h, recorded[h]))'
      BY <1>2, <3>2 DEF Truthful, TrueRow, Shows, Complete
    <3>4. age'[h] = 0 /\ \A s \in recorded'[h] : s.state \in visible'
      BY <1>1, <1>3, <2>4, <3>1 DEF PassInv, InPass
    <3> QED BY <3>3, <3>4
  <2> QED BY <1>2, <2>1, <2>2, <2>3, <2>4 DEF PassInv
<1>7. BusySampledSoon'
  BY <1>2 DEF BusySampledSoon
<1> QED BY <1>4, <1>5, <1>6, <1>7

\* Time that passes keeps IInv.
LEMMA TickKeepsIInv ==
    ASSUME IInv, Tick
    PROVE  IInv'
<1> USE DEF IInv
<1>1. /\ stage = "sleep" /\ timer > 0 /\ timer' = timer - 1
      /\ age' = [h \in Hosts |-> Min({age[h] + 1, Longest(config) + 1})]
      /\ UNCHANGED <<config, truth, stage, turn, failures, pause, recorded, fresh, past>>
  BY DEF Tick, passVars
<1>2. PauseOnSchedule' /\ PassInv'
  BY <1>1 DEF PauseOnSchedule, PassInv, InPass
<1>3. Longest(config) + 1 \in Nat
  BY LongestType DEF PauseOnSchedule
<1>4. ASSUME NEW h \in Hosts
      PROVE  age'[h] \in Nat /\ age'[h] <= age[h] + 1
  <2>1. age[h] \in Nat
    BY DEF Types
  <2>2. age'[h] = IF age[h] + 1 <= Longest(config) + 1 THEN age[h] + 1 ELSE Longest(config) + 1
    BY <1>1, <1>3, <2>1, MinOfTwo
  <2> QED BY <1>3, <2>1, <2>2
<1>5. Types'
  <2>1. age' \in [Hosts -> Nat]
    <3>1. age' = [h \in Hosts |-> age'[h]]
      BY <1>1
    <3> QED BY <1>4, <3>1
  <2>2. timer' \in Nat
    BY <1>1 DEF Types
  <2> QED BY <1>1, <2>1, <2>2 DEF Types, HostTypes
<1>6. BusySampledSoon'
  <2> SUFFICES ASSUME NEW h \in Probed
               PROVE  age'[h] + timer' <=
                        CASE failures > 0 -> config.backoff[Len(config.backoff)]
                          [] failures = 0 /\ Busy(h) -> config.interval
                          [] failures = 0 /\ ~Busy(h) -> config.idleInterval
    BY <1>1 DEF BusySampledSoon, Probed, Busy
  <2> DEFINE limit == CASE failures > 0 -> config.backoff[Len(config.backoff)]
                        [] failures = 0 /\ Busy(h) -> config.interval
                        [] failures = 0 /\ ~Busy(h) -> config.idleInterval
  <2>1. h \in Hosts /\ age[h] \in Nat /\ timer \in Nat
    BY ProbedHosts DEF PauseOnSchedule, Types
  <2>2. age[h] + timer <= limit
    BY <1>1 DEF BusySampledSoon
  <2>3. limit \in Nat
    BY ScheduleTypes DEF PauseOnSchedule
  <2> HIDE DEF limit
  <2>4. age'[h] + timer' <= limit
    BY <1>1, <1>4, <2>1, <2>2, <2>3
  <2> QED BY <2>4 DEF limit
<1> QED BY <1>2, <1>5, <1>6

\* The schedule of pauses is sorted, so that its last is its longest.
LEMMA LastPauseLongest ==
    ASSUME config \in Configs, NEW i \in 1 .. Len(config.backoff)
    PROVE  config.backoff[i] <= config.backoff[Len(config.backoff)]
<1> DEFINE n == Len(config.backoff)
           delay == config.backoff
           A == {k \in 0 .. n - 1 : delay[n - k] <= delay[n]}
<1>1. n \in Nat /\ n > 0 /\ \A j \in 1 .. n : delay[j] \in Nat
  BY ConfigsAssumption
<1>2. \A j \in 2 .. n : delay[j - 1] <= delay[j]
  BY ConfigsAssumption
<1> HIDE DEF n, delay
<1>3. 0 \in A
  <2>1. n - 0 = n /\ n \in 1 .. n
    BY <1>1
  <2> QED BY <1>1, <2>1
<1>4. ASSUME NEW k \in 1 .. n - 1, k - 1 \in A PROVE k \in A
  <2> DEFINE j == n - (k - 1)
  <2>1. j \in 2 .. n /\ n - k = j - 1 /\ j - 1 \in 1 .. n /\ j \in 1 .. n /\ n \in 1 .. n
    BY <1>1
  <2>2. delay[j] <= delay[n]
    BY <1>4
  <2>3. delay[j - 1] <= delay[j] /\ delay[j] \in Nat /\ delay[j - 1] \in Nat /\ delay[n] \in Nat
    BY <1>1, <1>2, <2>1
  <2> HIDE DEF j
  <2>4. delay[j - 1] <= delay[n]
    BY <2>2, <2>3
  <2> QED BY <1>1, <2>1, <2>4
<1>5. \A k \in 0 .. n - 1 : k \in A
  <2>1. n - 1 \in Nat
    BY <1>1
  <2> HIDE DEF A
  <2> QED BY <1>3, <1>4, <2>1, Induct
<1>6. i \in 1 .. n
  BY DEF n
<1>7. n - i \in 0 .. n - 1 /\ n - (n - i) = i
  BY <1>1, <1>6
<1> QED BY <1>5, <1>7 DEF n, delay

\* The pace after a pass, with every host just recorded.
LEMMA DecideKeepsIInv ==
    ASSUME IInv, Decide
    PROVE  IInv'
<1> USE DEF IInv
<1>1. /\ stage = "decide" /\ stage' = "sleep" /\ timer' = pause'
      /\ failures' = IF ok THEN 0 ELSE Min({failures + 1, Len(config.backoff)})
      /\ pause' = CASE ~ok -> FailureDelay
                    [] ok /\ Idle(visible) -> config.idleInterval
                    [] ok /\ ~Idle(visible) -> config.interval
      /\ UNCHANGED <<config, truth, recorded, fresh, age>>
      /\ turn' = 1 /\ past' = [h \in Hosts |-> {}]
  BY DEF Decide, Forget, storeVars
<1>2. /\ config \in Configs /\ failures \in 0 .. Len(config.backoff)
      /\ config.interval \in Nat /\ config.idleInterval \in Nat
      /\ config.interval <= config.idleInterval
  BY ScheduleTypes DEF PauseOnSchedule
<1> DEFINE last == config.backoff[Len(config.backoff)]
           m == Min({failures + 1, Len(config.backoff)})
<1>3. /\ m \in 1 .. Len(config.backoff) /\ m > 0
      /\ FailureDelay = config.backoff[m]
      /\ config.backoff[m] \in Nat /\ config.backoff[m] <= last
  <2>1. m \in 1 .. Len(config.backoff)
    BY NextDelay
  <2>2. config.backoff[m] \in Nat
    <3>1. \A i \in 1 .. Len(config.backoff) : config.backoff[i] \in Nat
      BY ConfigsAssumption DEF PauseOnSchedule
    <3> HIDE DEF m
    <3> QED BY <2>1, <3>1
  <2>3. FailureDelay = config.backoff[m]
    BY DEF FailureDelay
  <2> HIDE DEF m
  <2>4. Len(config.backoff) \in Nat
    BY ScheduleTypes DEF PauseOnSchedule
  <2> QED BY <1>2, <2>1, <2>2, <2>3, <2>4, LastPauseLongest DEF last
<1> HIDE DEF m, last
<1>4. PauseOnSchedule'
  <2>1. CASE ok
    BY <1>1, <1>2, <2>1 DEF PauseOnSchedule
  <2>2. CASE ~ok
    <3>1. failures' = m /\ pause' = config.backoff[m]
      BY <1>1, <1>3, <2>2 DEF m
    <3>2. m \in 0 .. Len(config.backoff)
      BY <1>3
    <3> QED BY <1>1, <1>2, <3>1, <3>2 DEF PauseOnSchedule
  <2> QED BY <2>1, <2>2
<1>5. pause' \in Nat
  BY <1>1, <1>2, <1>3
<1>6. Types'
  <2>1. Len(config.hosts) \in Nat
    BY ConfigsAssumption DEF PauseOnSchedule
  <2> QED BY <1>1, <1>5, <2>1 DEF Types, HostTypes
<1>7. PassInv'
  BY <1>1 DEF PassInv, InPass
<1>8. BusySampledSoon'
  <2> SUFFICES ASSUME NEW h \in Probed
               PROVE  age[h] + pause' <=
                        CASE failures' > 0 -> last
                          [] failures' = 0 /\ Busy(h) -> config.interval
                          [] failures' = 0 /\ ~Busy(h) -> config.idleInterval
    BY <1>1 DEF BusySampledSoon, Probed, Busy, last
  <2>1. h \in fresh
    <3>1. ~(turn <= Len(config.hosts)) /\ turn \in Nat /\ Len(config.hosts) \in Nat
      BY <1>1, ConfigsAssumption DEF PassInv, InPass, Types, PauseOnSchedule
    <3> QED BY <1>1, <1>2, <3>1, ProbedHosts DEF PassInv, InPass
  <2>2. age[h] = 0 /\ \A s \in recorded[h] : s.state \in visible
    BY <1>1, <2>1 DEF PassInv, InPass
  <2>3. age[h] + pause' = pause'
    <3>1. \A p \in Nat : 0 + p = p
      OBVIOUS
    <3> QED BY <1>5, <2>2, <3>1, Zenon
  <2>4. CASE ~ok
    <3>1. failures' > 0 /\ pause' = config.backoff[m]
      BY <1>1, <1>3, <2>4 DEF m
    <3> QED BY <1>3, <2>3, <3>1
  <2>5. CASE ok
    <3>1. failures' = 0 /\ pause' = IF Idle(visible) THEN config.idleInterval ELSE config.interval
      BY <1>1, <2>5
    <3>2. Idle(visible) => ~Busy(h)
      BY <2>2 DEF Idle, Busy
    <3> QED BY <1>2, <2>3, <3>1, <3>2
  <2> QED BY <2>4, <2>5
<1> QED BY <1>4, <1>6, <1>7, <1>8

\* A collector that ends forgets its pass; what is recorded stays.
LEMMA EndKeepsIInv ==
    ASSUME IInv, Refused \/ Die
    PROVE  IInv'
<1> USE DEF IInv
<1>1. /\ stage' \in Ended /\ turn' = 1 /\ past' = [h \in Hosts |-> {}]
      /\ UNCHANGED <<config, truth, failures, pause, timer, recorded, fresh, age>>
  BY DEF Refused, Die, Forget, Ended, sleepVars, storeVars
<1>2. Len(config.hosts) \in Nat
  BY ConfigsAssumption DEF PauseOnSchedule
<1>3. PauseOnSchedule' /\ Types'
  BY <1>1, <1>2 DEF PauseOnSchedule, Types, HostTypes
<1>4. PassInv' /\ BusySampledSoon'
  BY <1>1 DEF PassInv, BusySampledSoon, InPass, Ended
<1> QED BY <1>3, <1>4

\* Every step keeps IInv.
LEMMA NextKeepsIInv == IInv /\ [Next]_collectorVars => IInv'
<1> SUFFICES ASSUME IInv, [Next]_collectorVars PROVE IInv'
  OBVIOUS
<1>1. ASSUME NEW h \in Hosts, NEW g \in Gpus[h], Change(h, g) PROVE IInv'
  BY <1>1, ChangeKeepsIInv
<1>2. CASE Start
  <2>1. Len(config.backoff) \in Nat
    BY ScheduleTypes DEF IInv, PauseOnSchedule
  <2>2. PauseOnSchedule'
    BY <1>2, <2>1 DEF Start, IInv, PauseOnSchedule
  <2> QED BY <1>2, <2>2, BeginKeepsIInv DEF Start
<1>3. CASE Wake
  <2>1. PauseOnSchedule'
    BY <1>3 DEF Wake, IInv, PauseOnSchedule, sleepVars
  <2> QED BY <1>3, <2>1, BeginKeepsIInv DEF Wake, IInv, Types, sleepVars
<1>4. CASE Collect
  BY <1>4, QueryStatusKeepsIInv, QueryGpusKeepsIInv, QueryProcessesKeepsIInv,
     RecordKeepsIInv, DecideKeepsIInv, EndKeepsIInv DEF Collect
<1>5. CASE Tick \/ Die
  BY <1>5, TickKeepsIInv, EndKeepsIInv
<1>6. CASE UNCHANGED collectorVars
  <2>1. UNCHANGED <<config, truth, stage, turn, listed, rows, visible, failures, pause,
                    timer, recorded, fresh, age, past>>
    BY <1>6 DEF collectorVars, passVars, sleepVars, storeVars
  <2>2. PauseOnSchedule' /\ Types'
    BY <2>1 DEF IInv, PauseOnSchedule, Types, HostTypes
  <2>3. BusySampledSoon'
    BY <2>1 DEF IInv, BusySampledSoon, Probed, Busy
  <2>4. PassInv'
    <3> SUFFICES ASSUME stage \in InPass PROVE PassInv'
      BY <2>1 DEF PassInv
    <3>1. \A h \in Hosts : (Now(h) \subseteq past[h])'
      BY <2>1 DEF IInv, PassInv, Now
    <3>2. \A h \in fresh : (Truthful(h, recorded[h]) /\ Complete(h, recorded[h]))'
      <4> SUFFICES ASSUME NEW h \in fresh
                   PROVE  (Truthful(h, recorded[h]) /\ Complete(h, recorded[h]))'
        OBVIOUS
      <4>1. Truthful(h, recorded[h]) /\ Complete(h, recorded[h])
        BY DEF IInv, PassInv
      <4> QED BY <2>1, <4>1, RowsKept
    <3>3. stage = "processes" => Lists(Host, listed)'
      BY <2>1 DEF IInv, PassInv, Lists, Host
    <3>4. stage = "write" => (Truthful(Host, rows) /\ Complete(Host, rows))'
      <4>1. stage = "write" => Truthful(Host, rows) /\ Complete(Host, rows)
        BY DEF IInv, PassInv
      <4>2. Host' = Host
        BY <2>1 DEF Host
      <4> QED BY <2>1, <4>1, <4>2, RowsKept
    <3> QED BY <2>1, <3>1, <3>2, <3>3, <3>4 DEF IInv, PassInv
  <2> QED BY <2>2, <2>3, <2>4 DEF IInv
<1> QED BY <1>1, <1>2, <1>3, <1>4, <1>5, <1>6 DEF Next

\* What the collector knows of the hosts, their rows and the pace agree at all times.
THEOREM CollectorInvariant == Spec => []IInv
<1>1. Init => IInv
  BY InitIInv
<1>2. IInv /\ [Next]_collectorVars => IInv'
  BY NextKeepsIInv
<1> QED BY <1>1, <1>2, PTL DEF Spec

\* However the hosts change between the questions of a pass, and whatever part
\* of the answers is lost, no row shows a GPU in a state it was not in since
\* the pass began (GPUProbe.sample, CollectorLoop.collect_once).
THEOREM SampledStatesAreTrue == Spec => []SampledStateWasTrue
<1>1. IInv => SampledStateWasTrue
  BY DEF IInv, PassInv, SampledStateWasTrue, Truthful, TrueRow
<1> QED BY <1>1, CollectorInvariant, PTL

\* A pass that ends has accounted for every host, whichever probes failed.
THEOREM EveryHostAccountedFor == Spec => []HostsAccountedFor
<1>1. IInv => HostsAccountedFor
  <2> SUFFICES ASSUME IInv, stage = "decide", NEW h \in Probed
               PROVE  h \in fresh /\ Complete(h, recorded[h])
    BY DEF HostsAccountedFor, Complete
  <2>1. config \in Configs
    BY DEF IInv, PauseOnSchedule
  <2>2. ~(turn <= Len(config.hosts)) /\ turn \in Nat /\ Len(config.hosts) \in Nat
    BY <2>1, ConfigsAssumption DEF IInv, PassInv, InPass, Types
  <2>3. h \in fresh
    BY <2>1, <2>2, ProbedHosts DEF IInv, PassInv, InPass
  <2> QED BY <2>3 DEF IInv, PassInv, InPass
<1> QED BY <1>1, CollectorInvariant, PTL

\* A busy host is sampled again after the interval of active hosts, and none
\* is left alone longer than the configuration says.
THEOREM BusyHostsSampledSoon == Spec => []BusySampledSoon
<1>1. IInv => BusySampledSoon
  BY DEF IInv
<1> QED BY <1>1, CollectorInvariant, PTL
=============================================================================
