------------------------------ MODULE Collector -------------------------------
(***************************************************************************)
(* The collector agent: src/gpu_steward/timeline/collector.py and the      *)
(* collect-loop command of cli.py, which probe one host after the other,   *)
(* record what each shows and sleep; launchd starts the process again      *)
(* whenever it ends.  The hosts change all the time, also between two      *)
(* questions to the same host.                                             *)
(*                                                                         *)
(* Time passes in units while the collector sleeps; a pass takes none.     *)
(***************************************************************************)
EXTENDS GpuProbe

CONSTANTS Hosts,
          Gpus,          \* [Hosts -> sets of GPU indices]
          Conditions,    \* [Hosts -> what a GPU of it can be in]: a condition is
                         \* [lease (a label or None), started, processes], or
                         \* None for a GPU that is gone
          Configs,       \* [hosts, disabled, interval, idleInterval, backoff]
          Mishaps,       \* bound on killed processes and locked databases
          Changes        \* bound on the changes of a host in a pass

Longest(config) == Max({config.idleInterval, config.backoff[Len(config.backoff)]})

ASSUME GpusAssumption ==
    Gpus \in [Hosts -> SUBSET Nat] /\ \A h \in Hosts : IsFiniteSet(Gpus[h])

ASSUME ConditionsAssumption ==
    \A h \in Hosts : \A condition \in Conditions[h] \ {None} :
        condition.started \in BOOLEAN

\* What TimelineConfig and CollectorLoop accept.
ASSUME ConfigsAssumption ==
    \A config \in Configs :
        /\ config.hosts \in Seq(Hosts)
        /\ config.interval \in Nat \ {0}
        /\ config.idleInterval \in Nat /\ config.idleInterval >= config.interval
        /\ config.backoff \in Seq(Nat)
        /\ config.backoff # <<>> /\ config.backoff[1] > 0
        /\ \A i \in 2 .. Len(config.backoff) : config.backoff[i - 1] <= config.backoff[i]

VARIABLES
    config,      \* constant in a behaviour
    truth,       \* [Hosts -> [GPU -> its condition, or None when it is gone]]
    stage,       \* of the collector
    turn,        \* the index in config.hosts of the host it probes
    listed,      \* nvidia-smi's list of GPUs, once asked
    rows,        \* what the probe returned, to be recorded
    ok,          \* no probe of this pass failed
    visible,     \* the states this pass has seen
    failures,    \* ExponentialBackoff.failure_count
    pause,       \* the next_delay_seconds of its last result
    timer,       \* what is left of that
    recorded,    \* [Hosts -> the last rows recorded]
    fresh,       \* the hosts recorded since the pass began
    age,         \* [Hosts -> units since the last row]
    past,        \* [Hosts -> the conditions of its GPUs since the pass began]
    mishaps
passVars == <<turn, listed, rows, ok, visible>>
storeVars == <<recorded, fresh, age>>
sleepVars == <<failures, pause, timer>>
collectorVars == <<config, truth, stage, passVars, sleepVars, storeVars, past, mishaps>>

InPass == {"status", "gpus", "processes", "write", "decide"}
Ended == {"killed", "refused"}
Stages == InPass \cup {"sleep", "down"} \cup Ended
Host == config.hosts[turn]

TypeOK ==
    /\ config \in Configs
    /\ truth \in [Hosts -> UNION {[Gpus[h] -> Conditions[h]] : h \in Hosts}]
    /\ stage \in Stages
    /\ turn \in 1 .. Len(config.hosts) + 1
    /\ ok \in BOOLEAN
    /\ failures \in 0 .. Len(config.backoff)
    /\ pause \in 0 .. Longest(config)
    /\ timer \in 0 .. pause
    /\ fresh \subseteq Hosts
    /\ age \in [Hosts -> 0 .. Longest(config) + 1]
    /\ mishaps \in 0 .. Mishaps
    /\ rows # {} <=> stage = "write"

Now(h) == {<<g, truth[h][g]>> : g \in Gpus[h]}

Init ==
    /\ config \in Configs
    /\ truth \in {t \in [Hosts -> UNION {[Gpus[h] -> Conditions[h]] : h \in Hosts}] :
                    \A h \in Hosts : t[h] \in [Gpus[h] -> Conditions[h]]}
    /\ stage = "down"
    /\ turn = 1 /\ listed = None /\ rows = {} /\ ok = TRUE /\ visible = {}
    /\ failures = 0
    /\ pause = 0 /\ timer = 0
    /\ recorded = [h \in Hosts |-> {}]
    /\ fresh = {}
    /\ age = [h \in Hosts |-> Longest(config) + 1]
    /\ past = [h \in Hosts |-> {}]
    /\ mishaps = 0

-----------------------------------------------------------------------------
(* The hosts, and what they answer *)

Change(h, g) ==
    \E condition \in Conditions[h] \ {truth[h][g]} :
        /\ Cardinality(past[h]) < Cardinality(Gpus[h]) + Changes
        /\ truth' = [truth EXCEPT ![h][g] = condition]
        /\ past' = IF stage \in InPass THEN [past EXCEPT ![h] = @ \cup {<<g, condition>>}]
                   ELSE past
        /\ UNCHANGED <<config, stage, passVars, sleepVars, storeVars, mishaps>>

Present(h) == {g \in Gpus[h] : truth[h][g] # None}
InOrder(indices) ==
    [i \in 1 .. Cardinality(indices) |->
        CHOOSE g \in indices : Cardinality({k \in indices : k < g}) = i - 1]

GpuList(h) ==
    LET order == InOrder(Present(h)) IN
    [i \in DOMAIN order |-> [index |-> order[i], uuid |-> <<h, order[i]>>]]

\* What `gpu-steward status --json` prints on the host: under its lock one
\* snapshot of nvidia-smi and the leases.  Every leased GPU is of a task of its own.
TaskOf(g) == [id |-> Word, gpu |-> g]
Status(h) ==
    LET order == InOrder(Present(h))
        row(g) == [index |-> g, uuid |-> <<h, g>>, processes |-> truth[h][g].processes,
                   state |-> CASE truth[h][g].lease # None -> "managed_busy"
                               [] truth[h][g].lease = None /\ truth[h][g].processes # {}
                                    -> "external_busy"
                               [] OTHER -> "free"]
        leased == InOrder({g \in Present(h) : truth[h][g].lease # None})
    IN  [gpus |-> [i \in DOMAIN order |-> row(order[i])],
         leases |-> [i \in DOMAIN leased |->
                        [task |-> TaskOf(leased[i]), status |-> "active",
                         pid |-> IF truth[h][leased[i]].started THEN 1 ELSE None,
                         uuids |-> {<<h, leased[i]>>}]],
         labels |-> [task \in {TaskOf(leased[i]) : i \in DOMAIN leased} |->
                        truth[h][task.gpu].lease]]

ProcessList(h) ==
    UNION {{[uuid |-> <<h, g>>, pid |-> p.pid, name |-> p.name] :
               p \in truth[h][g].processes} : g \in Present(h)}

-----------------------------------------------------------------------------
(* A pass *)

Begin ==
    /\ turn' = 1 /\ listed' = None /\ rows' = {} /\ ok' = TRUE /\ visible' = {}
    /\ stage' = IF config.hosts = <<>> THEN "decide" ELSE "status"
    /\ fresh' = {}
    /\ past' = [h \in Hosts |-> Now(h)]

\* Mutant: launchd only restarts what ended without an error.
KeepAlive_OnSuccess == FALSE
KeepAlive == TRUE

Start ==
    /\ stage = "down" \/ (stage \in Ended /\ KeepAlive)
    /\ Begin
    /\ failures' = 0 /\ pause' = 0 /\ timer' = 0
    /\ UNCHANGED <<config, truth, recorded, age, mishaps>>

Wake ==
    /\ stage = "sleep" /\ timer = 0
    /\ Begin
    /\ UNCHANGED <<config, truth, sleepVars, recorded, age, mishaps>>

Goto(next) ==
    /\ stage' = next
    /\ UNCHANGED <<config, truth, turn, visible, sleepVars, storeVars, past, mishaps>>

\* Any failure of an ssh command, or an answer that makes no sense, is Bad.
QueryStatus ==
    /\ stage = "status"
    /\ \E answer \in {Status(Host), [Status(Host) EXCEPT !.leases = <<>>],
                      [Status(Host) EXCEPT !.labels = <<>>], Bad} :
          IF StatusParses(answer)
          THEN /\ rows' = SamplesFromStatus(answer, config.disabled[Host])
               /\ Goto("write")
          ELSE /\ rows' = rows
               /\ Goto("gpus")
    /\ UNCHANGED <<listed, ok>>

\* Mutant: a host that cannot be probed leaves no row.
Failed_Silent == /\ rows' = {} /\ listed' = None /\ ok' = FALSE /\ Goto("write")

Failed ==
    /\ rows' = {Unknown} /\ listed' = None /\ ok' = FALSE
    /\ Goto("write")

QueryGpus ==
    /\ stage = "gpus"
    /\ \E answer \in {GpuList(Host), Bad} :
          IF GpusParse(answer)
          THEN /\ listed' = answer /\ UNCHANGED <<rows, ok>>
               /\ Goto("processes")
          ELSE Failed

QueryProcesses ==
    /\ stage = "processes"
    /\ \E answer \in {ProcessList(Host), Bad} :
          IF ProcessesParse(listed, answer)
          THEN /\ rows' = SamplesFromSmi(listed, answer, config.disabled[Host])
               /\ listed' = None /\ ok' = ok
               /\ Goto("write")
          ELSE Failed

\* Mutant: only the last host decides the pace.
SeenWith_Last(states) == states
SeenWith(states) == visible \cup states

Forget ==
    /\ turn' = 1 /\ listed' = None /\ rows' = {} /\ ok' = TRUE /\ visible' = {}
    /\ past' = [h \in Hosts |-> {}]

\* The transaction of record_gpu_samples.
Record ==
    /\ stage = "write"
    /\ \A sample \in rows : Storable(sample)
    /\ recorded' = [recorded EXCEPT ![Host] = rows]
    /\ fresh' = fresh \cup {Host}
    /\ age' = [age EXCEPT ![Host] = 0]
    /\ visible' = SeenWith({sample.state : sample \in rows})
    /\ rows' = {}
    /\ turn' = turn + 1
    /\ stage' = IF turn = Len(config.hosts) THEN "decide" ELSE "status"
    /\ UNCHANGED <<config, truth, listed, ok, sleepVars, past, mishaps>>

\* Any exception of the store ends the loop, and with it the process.
Refused ==
    /\ stage = "write"
    /\ \E sample \in rows : ~Storable(sample)
    /\ stage' = "refused"
    /\ Forget
    /\ UNCHANGED <<config, truth, sleepVars, storeVars, mishaps>>

\* Mutant: the schedule starts again after its end.
FailureDelay_Wraps == config.backoff[(failures % Len(config.backoff)) + 1]
FailureDelay == config.backoff[Min({failures + 1, Len(config.backoff)})]

Idle(states) == states # {} /\ states \subseteq {"idle", "disabled"}

Decide ==
    /\ stage = "decide"
    /\ failures' = IF ok THEN 0 ELSE Min({failures + 1, Len(config.backoff)})
    /\ pause' = CASE ~ok -> FailureDelay
                  [] ok /\ Idle(visible) -> config.idleInterval
                  [] ok /\ ~Idle(visible) -> config.interval
    /\ timer' = pause'
    /\ stage' = "sleep"
    /\ Forget
    /\ UNCHANGED <<config, truth, storeVars, mishaps>>

Tick ==
    /\ stage = "sleep" /\ timer > 0
    /\ timer' = timer - 1
    /\ age' = [h \in Hosts |-> Min({age[h] + 1, Longest(config) + 1})]
    /\ UNCHANGED <<config, truth, stage, passVars, failures, pause, recorded, fresh,
                   past, mishaps>>

\* Killed, or out of patience with a locked database.
Die ==
    /\ stage \in InPass \cup {"sleep"}
    /\ mishaps < Mishaps
    /\ mishaps' = mishaps + 1
    /\ stage' = "killed"
    /\ Forget
    /\ UNCHANGED <<config, truth, sleepVars, storeVars>>

Collect == QueryStatus \/ QueryGpus \/ QueryProcesses \/ Record \/ Refused \/ Decide

Next ==
    \/ \E h \in Hosts : \E g \in Gpus[h] : Change(h, g)
    \/ Start \/ Wake \/ Collect \/ Tick \/ Die

Spec == Init /\ [][Next]_collectorVars
FairSpec ==
    /\ Spec
    /\ WF_collectorVars(Start \/ Wake \/ Collect)
    /\ WF_collectorVars(Tick)

-----------------------------------------------------------------------------
(* Properties *)

Probed == {config.hosts[i] : i \in DOMAIN config.hosts}

\* A GPU that is gone between two questions has no processes, and counts as idle.
Shows(sample, condition) ==
    IF condition = None THEN sample.state = "idle"
    ELSE
    CASE sample.state = "training" -> condition.lease # None /\ condition.started
      [] sample.state = "reserved" -> condition.lease # None /\ ~condition.started
      [] sample.state = "managed-other" -> condition.lease # None
      [] sample.state = "external" -> condition.processes # {}
      [] sample.state = "idle" -> condition.processes = {}
      [] OTHER -> FALSE

\* Whatever the hosts do between the questions of a pass, a GPU is only
\* recorded in a state that it was in between the time of the sample, the
\* beginning of the pass, and its recording; never, say, as idle because a
\* list of processes was lost (collect_once, sample).
SampledStateWasTrue ==
    stage \in InPass =>
        \A h \in fresh : \A sample \in recorded[h] :
            sample.state \notin {"disabled", "unknown"} =>
                \E seen \in past[h] : /\ seen[1] = sample.index
                                       /\ Shows(sample, seen[2])

\* A pass that ends has recorded of every host either one row for every GPU
\* that was there, or that the host is unknown; nothing of it is older.
HostsAccountedFor ==
    stage = "decide" =>
        \A h \in Probed :
            /\ h \in fresh
            /\ \/ recorded[h] = {Unknown}
               \/ /\ \A s, r \in recorded[h] : s.index = r.index => s = r
                  /\ \A g \in Gpus[h] : <<g, None>> \notin past[h] =>
                        \E s \in recorded[h] : s.index = g

Busy(h) == \E s \in recorded[h] : s.state \notin {"idle", "disabled", "unknown"}

\* As long as no probe fails, a host that was seen busy is sampled again after
\* the interval of active hosts, whatever the others show; in no case does the
\* collector leave a host alone longer than the configured times.
BusySampledSoon ==
    stage = "sleep" =>
        \A h \in Probed :
            age[h] + timer <= CASE failures > 0 -> config.backoff[Len(config.backoff)]
                                [] failures = 0 /\ Busy(h) -> config.interval
                                [] failures = 0 /\ ~Busy(h) -> config.idleInterval

\* A host that stays down is asked at ever longer intervals, until a pass
\* succeeds or the process is started again.
BackoffNeverShrinks ==
    [][stage = "decide" /\ ~ok /\ failures > 0 => pause' >= pause]_collectorVars

Spoilt(condition) ==
    condition # None /\ \E p \in condition.processes : p.name.kept = "mark"

\* However the hosts fail, and if the process is killed only so often, every
\* host is sampled, or recorded as unknown, again and again; unless there is
\* time and again a process whose name the store refuses.
EveryHostSampledAgain ==
    <>[](\A h \in Hosts : \A g \in Gpus[h] : ~Spoilt(truth[h][g]))
        => \A h \in Hosts : []<>(h \in Probed => h \in fresh)

\* _safe_display_label: "never let a remote status payload make the local
\* collector fail".  No answer of a host ends the process.
LabelNeverKillsCollector == stage # "refused"

\* Design document: while a GPU is busy, a sample every 60 seconds.
ActiveSampledEveryMinute ==
    stage = "sleep" => \A h \in Probed : Busy(h) => age[h] + timer <= config.interval

\* TimelineConfig: "transient failures cannot make a loop sample more
\* aggressively than its healthy cadence".
BackoffNotFasterThanHealthy ==
    stage = "sleep" /\ failures > 0 => pause >= config.interval
=============================================================================
