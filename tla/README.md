# GPU Steward in TLA+

A TLA+ development kept beside the Python sources of GPU Steward: models of the
coordinator that shares the GPUs of one host among the sessions of one user, and
of the timeline that records what the GPUs and the Codex sessions did; TLC
configurations that check them on small instances; TLAPS proofs about them.
Paths below are relative to the repository; `timeline/` is
`src/gpu_steward/timeline/`.

## 1. The system and its parts

| Part | Source | State | Operations | What makes it correct |
|---|---|---|---|---|
| Planner | `src/gpu_steward/scheduler.py` | none | `plan_allocations` | sound, fair batches; the reserve rule; queue order |
| State store | `src/gpu_steward/state.py` | SQLite: tasks, leases, lease_gpus, metadata; a file lock | `add_task`, `allocate_batch`, `claim_task`, `update_lease_pid`, `finish_task`, `request_cancel`, `recover_stale`, `validate_inventory_signature` | exclusive leases, task and lease rows agree, an accepted cancel ends as one, no call of a session is refused |
| Process identity | `src/gpu_steward/processes.py` | `/proc` | `pid_matches`, `terminate_if_matches` | a process with `/proc` is told from its pid's successor when it is looked at |
| Coordinator | `src/gpu_steward/runtime.py` | one `run_task` per session | `run_task`, `cancel_task`, `gc`, `status_payload`, `inventory_payload` | a live command keeps its devices; nobody waits for ever |
| Inventory probe | `src/gpu_steward/inventory.py` | none | `NvidiaSMI.query` | a snapshot or an error |
| Steward CLI | `src/gpu_steward/cli.py` | none | argument parsing, exit codes | catches `StewardError`, nothing else |
| Timeline store | `timeline/store.py` | SQLite: the salt, events, samples, overrides | opening, `record_codex_event`, `record_gpu_samples`, `record_overrides`, `current_overrides` | idempotent append, conflicts, all-or-nothing passes, one salt |
| Codex hooks | `timeline/codex.py`, the plugin's `timeline-hook.py` | none | `normalize_hook`, `ingest_hook` | one row per delivered hook; nothing normalised is refused |
| Timeline GPU probe | `timeline/gpu.py` | none that decides | `sample` | status first, `nvidia-smi` as fallback, else one unknown row; nothing that was not so |
| Timeline collector | `timeline/collector.py`, `collect-loop` of `timeline/cli.py` | backoff, last result | `collect_once`, `run_forever` | every host accounted for in each pass, pace, backoff, goes on |
| Timeline aggregation | `timeline/aggregate.py`, `phases.py` | none | `build_day`, `derive_stalls` | disjoint intervals inside the day, each instant counted once, settled history |
| LaunchAgents | `timeline/launchd.py`, `timeline/cli.py` | the plist, launchd's service, the port | `open`, `dashboard install/start/stop/uninstall` | what runs is what is installed; a foreign plist is left alone |
| Web app | `timeline/web.py`, `assets/` | a port | `serve`, health check | input and output |
| Configuration | `timeline/config.py` | none | validation | the constraints the collector relies on |

**The coordinator.** Each `gpu-steward run` is a process of its own. It serializes
with the others, and with `cancel`, `gc` and `status`, on one exclusive file
lock (`StateStore.locked`); inside it opens SQLite transactions, and outside it
starts and waits for its child. A first pass enqueues, queries `nvidia-smi`,
recovers stale leases, plans for the **whole** queue and claims its own lease,
all under one acquisition of the lock; a session that got nothing polls with the
same sequence. So a session's devices are often granted by another session, and
its lease may be recovered by another session. The collector calls
`gpu-steward status` over SSH from time to time, which also recovers leases.

**The timeline.** Every Codex hook is a process that normalises one payload and
appends one row; the collector, a launchd agent, probes one host after the other
over SSH and appends the rows of each in one transaction; editors append
overrides. None of them knows of the others: they meet in SQLite's locks. The
dashboard, a second launchd agent, and the report commands read the tables and
build the report of a day. Any number of `timeline open` and `dashboard ...`
commands share the plist, the launchd service and the port.

What is hard here: a lease outlives the process that made it; the lock covers
several transactions but not the child; processes die, and devices and other
users' processes come and go between any two steps; the identity in the lease
moves from the supervisor to the child. On the timeline's side writers wait for
each other's locks, give up or are killed inside a transaction; hooks arrive
twice, late, in any order, or within the same second; a probe asks several
questions of a host that changes in between; one refused row ends the collector;
two invocations read and change the service at the same time. `PROJECT.json`
lists each such hazard at its line.

## 2. The modules

| Module | Models |
|---|---|
| `Scheduler` | `plan_allocations` and `Request.capacity`, as operators and recursive functions |
| `MCScheduler` | every call of it with small arguments, and the README's policy stated declaratively |
| `Processes` | supervisors and children, pids, zombies, reuse, SIGTERM |
| `StateStore` | the coordinator's database: one operator per writing transaction of `state.py` |
| `Steward` | the sessions, the lock, the other commands and the host: one action per transaction or per step outside one |
| `LeaseTable` | the abstract promise of the coordinator: ask, wait, hold exclusively, end |
| `TimelineStore` | the processes that write the timeline database, statement by statement over SQLite's locks |
| `EventLog` | the abstract promise of the timeline store: an append-only log |
| `CodexHook` | `normalize_hook` and the store's validation of an event, as operators |
| `HookDelivery` | composes the two: payloads delivered by processes beside passes and editors |
| `GpuProbe` | what `sample` makes of the answers of a host, as operators |
| `Collector` | the loop over hosts that change, with its failures and launchd's restarts |
| `Aggregate` | override resolution, `build_day` and `derive_stalls`, as operators and recursive functions |
| `Timeline` | rows that arrive, and the report at every moment |
| `LaunchAgent` | invocations of the dashboard commands, launchd and the port |
| `MCSteward`, `MCHookDelivery`, `MCTimeline`, `MCCollector`, `MCLaunchAgent` | the instances for TLC |
| `DataInduction` | lemmas: induction over numbers, ranks of finite sets, sums |
| `SchedulerProof`, `PlannerProof`, `StewardProof`, `TimelineStoreProof`, `CollectorProof`, `LaunchAgentProof`, `TimelineProof` | the theorems and their proofs |

`Steward` extends `StateStore`, which extends `Scheduler` and `Processes`;
`HookDelivery` extends `TimelineStore` and instantiates `CodexHook`;
`Collector` extends `GpuProbe`; `Timeline` extends `Aggregate`. Of the proofs,
`SchedulerProof` extends `Scheduler`, `PlannerProof` and `StewardProof` extend
it with `MCScheduler` and with `Steward` (and the abstract `LeaseTable`),
`TimelineStoreProof` extends `HookDelivery`; the others extend the module of
their name.

### The coordinator

**A session** (`pc[t]`): `idle`, `wait` (in the polling loop, no lock), the four
steps under the lock `query`, `view`, `allocate`, `claim`, then `spawn`
(`Popen`), `bind` (`update_lease_pid`), `flag` (`child_bound = True`), `watch`
(`child.wait()`), `finish` (`finish_task`), or `cleanup` (the `except
StewardError` before the claim). It ends `done`, `raised`, `blocked` (the
cleanup itself failed), `error` (an exception nothing catches) or `dead`.
An error of `Popen` and an interrupt between the fork and its return are both
`SpawnFails`; the child the latter leaves has no lease of its own.

**The other commands.** `gc`, `status` and a cancel of an unclaimed task have one
critical section and are one action each. A cancel of a claimed task looks at the
recorded process (`CancelLooks`), and in a later step, with the lock held and
`aim` set, signals its group and commits (`CancelSignalled`), finds no group and
recovers instead (`CancelRecovers`), or dies before or after the signal
(`CancelDies`). Between the two the child may end, be reaped and its pid be given
away, since the supervisor needs no lock for that. The refusals of `claim_task`
and `update_lease_pid` are no steps: `CallsAccepted` says they do not happen.

**The database**: `status`, `request`, `lease`, `rows`, `owner`, `overdue`,
`signature`. `owner` abstracts `(pid, pid_start_time)` to nobody, the supervisor
or the child; `Processes` says whether that process still exists, and `ProcFs`
whether the host has `/proc`: without it any process with the pid passes for the
recorded one. `request`'s
`created` is the rank of arrival. `overdue` says that `launch_timeout` has
passed. Uniqueness violations are modelled: `Insertable` is what the `UNIQUE`
constraints accept, and a rejected batch is rolled back as a whole.

**The host**: `present`, `external`, the exits of children, the reuse of pids.

Abstractions, all of them on purpose: the two `nvidia-smi` commands of one query
sample the host once, and a child may or may not show up in the process list
while it runs; a supervisor that exited is gone at once (its parent reaps it);
`_terminate_child` with its second round in the `finally` clause is one step
(only this session can reap the child, so its pid cannot be given away in
between), and the children that could survive both are the constant `Stubborn`; an
interrupt, hang-up or unexpected SQLite error while a session waits is `Dies`
(the code has no handler for it there); a SIGTERM takes effect in a later step
of its target; wall-clock time, JSON, the wording of errors, log output and file
modes are left out.

### The timeline store and the hooks

**A process** of `TimelineStore` records the rows `job[w]`: one event (a hook),
the samples of one host (a pass, one transaction), the overrides of one
observation (an editor, one statement each). Its `stage` is the statement it is
at: `schema` and `salt` (`_initialise`: read the salt, else draw and insert
one), then for each row `row` (validate, SELECT) and `insert`. `own` is the salt
it holds in memory, `draft` its uncommitted rows, `result` what its caller is
told.

**SQLite** is external: `readers` (SHARED), `writer` (RESERVED), `pending`
(PENDING, waiting for the readers to leave). A lone statement waits with the
busy handler and may give up; one in a transaction that has read fails at once
when another process holds RESERVED (`Busy`), since waiting could deadlock. A
kill at any step rolls back (`Killed`).

**A payload** is a record of fields at two levels, each absent, good or `Bad`;
`CodexHook` says what `normalize_hook` makes of it. The digest that serves as
event id is the content it covers, the time included; with a salt that differs
it would be another digest, which is why rows carry the salt they were made
with. An id may hold a lone surrogate (`Unencodable`), which normalisation keeps
and the store's UTF-8 cannot encode. `HookDelivery` gives each delivery a second of its own on the clock.

### The probe and the collector

**A host** is a condition per GPU: its lease's label (or none), whether the
leased command has started, the processes on it; or gone. It changes between any
two questions. `GpuProbe` translates the two ways to rows: from `status`
(leases, labels, states) and from `nvidia-smi`'s two queries, with the checks
that make an answer unusable. A state of `status` is one of its spellings
(`FreeStates`, `ManagedStates`, `ExternalStates`); an empty list of processes is
the empty set, an answer like any other. A label is what `_safe_display_label` keeps of it
(nothing, a word, or a word with a leading mark) and whether it was altered.

**The collector** (`stage`): `status`, `gpus`, `processes` (the questions),
`write` (the transaction), `decide` (delay and backoff), `sleep`, `down` before
its first start, `killed` and `refused` after which launchd starts it again
(`KeepAlive`). `past` and `age` are history: what each GPU went through since
the pass began, how long ago each host was recorded. Each ssh command may fail
or be cut short (`Bad`, or an answer without its leases or labels).

A pass takes no time (`Tick` only in `sleep`); the probes' own timeouts are one
of the ways to fail. A GPU that vanishes between the two queries of `nvidia-smi`
is recorded as idle, and `SampledStateWasTrue` says so.

### The reports

`Aggregate` translates `aggregate.py` function by function: `CurrentOverrides`
and `Overridden`, the state a hook leaves (`EventState`), the pieces of a lane
with their cuts at `stall_seconds`, the sample gap, the day and `as_of`, the
merging of display segments (`Coalesce`), the intersection of training and
active time, and the stalls. `Timeline` appends hooks (at any earlier time),
samples and overrides while time passes; ids order rows of the same second one
way or the other. Time zones, rounding and formatting are left out; a unit of
the model is the finest time the properties tell apart.

### The LaunchAgent

**An invocation** is a command and its next step: `check` (health), `exists`,
`read` (the label), `write` (the plist), `replace` (bootout, then) `load`
(bootstrap), `status`, `again` (the second look of `ensure_started`), `stop`,
`unlink`, `wait`, `browser`; it may be killed before any of them. A `bootout`
may fail and leave the service loaded; `swallowed` holds the invocations this
happened to: a `stop` fails, the others go on. `seen` records what
others did to plist and service meanwhile, so that a property can name the one
thing that undoes a command. `load` stands for `collector start`,
the one command of the collector's agent whose steps differ.

**launchd** is external: `loaded` is the version it has read, `process` whether
the service runs; a crash is followed by a restart (`KeepAlive`), and a `timeline
serve` of the user may hold the port.

## 3. The runs

| Run | Instance | Question |
|---|---|---|
| `planner` | up to 4 devices, 3 requests, every state of the other devices | does each batch follow the policy? |
| `sessions` | 2 sessions, 2 devices, crashes, interrupts, cancels, a wait timeout, a failing lock file, a failing `exec`, a child that cannot be killed, a supervisor without a group of its own, pid reuse | is the lease table exact, exclusive and covering, and does it implement `LeaseTable`; does the store accept every call; who may rewrite an outcome; does a cancel signal; is everybody's request cleaned up? |
| `host` | 2 sessions, a device that vanishes, an external process, a failing `nvidia-smi`, a request that no longer fits, a crash and a cancel, no `/proc` | is a device leased only when it is free and known; do batches fit the database; are arrivals scheduled one by one; does the planner raise only for a request without a capacity? |
| `liveness` | 2 sessions, one is killed or interrupted at any step, one may be cancelled | does every waiter leave; does every lease come back? |
| `store` | a lone hook of every payload at two levels; 2 deliveries of the payloads whose identity differs; a hook with 2 passes, with a pass and an editor, 2 hooks with an editor; a kill; every lock may time out | is the table the append-only log `EventLog`; one salt; one row per dated hook; is nothing normalised refused but ids that UTF-8 cannot encode; does nobody wait for ever? |
| `timeline` | 3 hooks of a session, 2 of two; 3 samples of a GPU, 2 of two; 2 overrides with every order of creation, effect and expiry; days of 4 units, horizons up to 5 | are the reports true of every instant, now and later? |
| `collector` | up to 2 hosts, 4 configurations (a disabled GPU, no host at all), a change of each host during a pass, one kill, every answer lost or cut | is what is recorded true and complete, and does the loop go on at its pace? |
| `agent` | 2 invocations of 2 versions, any of six commands, every fault, a failing `bootout` among them, killed anywhere, every initial plist and service | does the service follow the plist; do successful commands mean what they say; does everything end? |

Four runs end in a violation on purpose; each checks what a document, a comment
or a docstring says, and the findings in `PROJECT.json` quote it:

- `orphaned_child`: a cancel between `Popen` and `update_lease_pid` leaves a live
  child without a lease;
- `redelivered_hook`: the same payload without a timestamp, delivered twice, is
  two rows (or a conflict, with an explicit id);
- `label_ends_collector`: a process or label that begins with a dot passes the
  probe, is refused by the store, and ends the collector again after every
  restart;
- `two_opens`: of two first `timeline open`s the second fails although the
  dashboard runs.

Every property of a passing run has a mutant of the code that violates it; the
faulty variants are the operators named `X_Y` before the operator `X`.

### Bounds

*Coordinator.* A hazard here involves two sessions (one acts, the other recovers
or competes) and at most two devices. `passes` is bounded by 2 because the code
only distinguishes none, the first and a later pass. A task id is used once, as
in the code. The requests are one that takes what it gets and one that needs two
devices at a higher priority; in `host` its maximum is automatic, so that it
loses its capacity when a device vanishes. In `sessions` one supervisor leads its
process group and the other does not; `host` has no `/proc`, so that reused pids
pass for the recorded process. `liveness` sets the reserve to 0
(either request can then take both devices, so that sessions really wait), see
section 6.

*Store.* A conflict over a lock or a key needs two processes, a third to be
between them; more only repeat. A pass has two rows, the least that can be half
written. Fields are good, absent or bad, since the code does nothing else with
them; the scenes vary the fields of the identity and those of the declaration
separately, as `normalize_hook` reads them separately.

*Reports.* Two neighbouring rows decide a piece, three a merge and a fold; stall
and sample gap are two units and the day four, so that a cut falls before, at
and after each limit, at midnight and at `as_of`.

*Collector.* `Changes` bounds how often a host changes within a pass (one change
between any two questions; without a bound every answer would be true of
something); the backoff has two delays, so that it grows, is capped and resets.
`Mishaps` bounds kills, without which no progress could be promised.

*LaunchAgent.* Every hazard is between two invocations; either may run any
command, after any state that earlier ones, killed anywhere, have left.

The coordinator's runs stop where every session has ended, and there always
remains `Gc`; the store and the reports have `Done`, the collector and launchd
never stop. Deadlock checking stays on
everywhere but in `planner`, which stops after each answer.

### Fairness

`Steward!FairSpec`: per session, weak fairness of the steps under the lock, and
strong fairness of the steps that need the lock: a session blocks in `flock` and
retries every `poll_interval`, so it gets the lock again and again. Time passes
(`LaunchTimesOut`), commands end (`ChildEnds`: the user's command is assumed to
terminate, since a lease is held as long as it does not), a signalled supervisor
dies, and a cancel that holds the lock goes on. Nothing is assumed of `gc`,
`status` or of a cancel being started: a stale lease is recovered by a polling
session alone. When none polls, nobody returns the lease of a session that was
killed or interrupted (`bound` is still false after an interrupt at `flag`):
`EveryLeaseReturns` says of it that it is returned or becomes stale, which the
next command finds, and of the other sessions that theirs are returned.

`HookDelivery!DeliverySpec`: weak fairness of each process's own steps, that is,
of the operating system's scheduler and of SQLite answering. Timeouts
(`GiveUp`) and kills are not assumed, so that `EveryoneFinishes` is about the
locks: nobody depends on a busy timeout to be freed.

`Collector!FairSpec`: the loop goes on, time passes, and launchd starts a
`KeepAlive` job that ended (`LaunchAgentSpec.mapping`). `EveryHostSampledAgain`
leaves out hosts that show again and again a process name the store refuses: for
those `label_ends_collector` is the answer.

`LaunchAgent!FairSpec`: each invocation takes its next step (all its waits have
deadlines, `_wait_for_dashboard`), launchd restarts the service and the service
binds its port. Crashes and a manual `serve` are not fair: they may or may not
happen.

## 4. What is proved

Every safety property that a run checks, for every value of the constants that
the named assumptions allow; TLC evaluates these in the runs. They are

- of the coordinator: the tasks are a finite set (`TasksAssumption`), requests
  are what `add_task` accepts (`StoreAssumption`), the faults concern tasks and
  devices that exist, the driver reports at least one device
  (`StewardAssumption`), and two names differ (`NobodyAssumption`); of the
  planner's calls: the bounds are numbers (`PlannerAssumption`);
- of the store and the hooks: hooks, passes and editors are different processes
  (`KindsAssumption`) with rows to record (`JobsAssumption`); the rows hooks make
  are among those considered (`HookRowsAssumption`) and have ids of a table of
  their own (`TablesAssumption`); times are numbers (`TimesAssumption`);
- of the collector: hosts have finitely many numbered GPUs (`GpusAssumption`),
  each with conditions that exist (`ConditionsAssumption`), and the
  configuration is one `TimelineConfig` accepts (`ConfigsAssumption`);
- of the reports: limits are positive, the folding limit may be 0
  (`LimitsAssumption`), a scene has an end (`ScenesAssumption`); of the
  LaunchAgent: the versions' plists are no foreign ones (`InstallsAssumption`);
- and three times `NoneAssumption`: the mark for "nothing" is not a value.

| Module | Theorem | States |
|---|---|---|
| `SchedulerProof` | `PlanIsBatch` | what `plan_allocations` starts are requests of the queue, each once, on disjoint slices of the free devices, between minimum and capacity |
| `PlannerProof` | `BatchSoundAlways` | `BatchSound` |
| | `LeftoverSharedAlways` | `LeftoverShared`: nothing idle that somebody could use; the rest is shared evenly |
| | `QueueOrderKeptAlways` | `QueueOrderKept`: nobody overtakes without need, with `strict_fifo` nobody at all |
| | `ReserveRuleAlways` | `ReserveRule`: the first job leaves the reserve, a lone small one starts |
| `StewardProof` | `TypeCorrect` | `TypeOK`: in particular only statuses the schema knows |
| | `Invariant` | the inductive invariant of processes, leases and the lock |
| | `ChildCoveredAlways` | `ChildCovered`: a managed child runs under an active lease on exactly its devices |
| | `NoSharedDeviceAlways` | `NoSharedDevice`: two managed children never share a device |
| | `CancelledBeforeStartAlways` | `CancelledBeforeStart`: a task that ended unclaimed has no process |
| | `ArrivalScheduledAtOnceAlways` | `ArrivalScheduledAtOnce`: arrivals do not see each other unscheduled |
| | `CallsAcceptedAlways` | `CallsAccepted`: the store refuses no claim and no recording of a child |
| | `OutcomesHoldAlways` | `OutcomesHold`: a cancel under way ends in cancelled; a written outcome is rewritten by its own session alone, in its last step after a recovery |
| | `CancelSignalsAlways` | `CancelSignals`: a cancel of a running task signals, but for a supervisor without a group and, without `/proc`, a reused pid |
| | `CleanedUpAlways` | `CleanedUp`: who could clean up leaves no request behind |
| | `DataInvariant` | the inductive invariant of the tables' contents |
| | `StatusMatchesLeaseAlways` | `StatusMatchesLease` |
| | `LeasesInInventoryAlways` | `LeasesInInventory`: leases are on devices of the signature in force |
| | `BatchAcceptedAlways` | `BatchAccepted`: the database takes every batch |
| | `OnlyFreeDevicesAlways` | `OnlyFreeDevices`: a grant is of unleased devices just seen free |
| | `OnlyUnfitRaisesAlways` | `OnlyUnfitRaises`: the planner raises only for a queued request without a capacity |
| | `LeaseTableImplemented` | `ImplementsLeaseTable`: the coordinator is the lease table |
| | `TableExclusive` | the abstract table is exclusive |
| `TimelineStoreProof` | `Invariance` | the inductive invariant of the store |
| | `PassesAreAtomic` | `PassAtomic`: a pass is stored whole or not at all, one that failed not at all |
| | `PassesAreIsolated` | `PassIsolated`: the row a pass did not find is nobody else's before its INSERT |
| | `SaltIsUnique` | `OneSalt`: all digests were made with the committed salt |
| | `StoreImplementsEventLog` | `ImplementsEventLog`: the store is the append-only log |
| | `StoreRefusesOnlyUnencodable` | `OnlyUnencodableRefused`: of what is normalised, only ids without a UTF-8 form are refused |
| | `StampedHooksAreOneRow` | `StampedHookIsOneRow`: a dated hook is one row, however often delivered |
| `CollectorProof` | `CollectorInvariant` | the inductive invariant of the passes |
| | `CollectorBacksOff` | `BackoffNeverShrinks`: a further failure never shortens the pause |
| | `SampledStatesAreTrue` | `SampledStateWasTrue`: a row shows a state the GPU was in during the pass |
| | `EveryHostAccountedFor` | `HostsAccountedFor`: a pass ends with a row or a failure of each host |
| | `BusyHostsSampledSoon` | `BusySampledSoon`: a busy host is due again after the short interval |
| `LaunchAgentProof` | `AgentTypes` | `TypeOK` |
| | `AgentNotStale` | `NoStaleService`: what is loaded is what the plist says, unless the one that wrote it failed or is not done |
| | `AgentSparesForeign` | `ForeignUntouched`: another's plist stays as it is |
| | `AgentStartsAgree` | `StartsAgree`: concurrent starts all succeed |
| | `AgentSuccessIsReal` | `SuccessIsReal`: a success left plist and service as it says, whatever others do; uninstall may leave the service whose `bootout` failed |
| `TimelineProof` | `TimelineTypes` | rows keep their form, their times and different ids |
| | `LatestOverrideIsRead` | `LatestOverrideReads`: a field reads an override from its effect on until a later one takes effect or it expires |
| | `HistoryIsSettled` | `HistorySettled`: what the same rows show of the past does not depend on the moment of the report |
| | `LateHooksAreLocal` | `LateHookIsLocal`: a late hook changes its session from its time on |
| | `StallsAreOneStory` | `StallsAgree`: the list of stalls and the instants agree |
| | `LanesAreWellFormed` | `LanesWellFormed`: lanes are ordered, disjoint, inside day and past |
| | `BarsKeepTheBooks` | `BarsKeepTime`: folding bars neither makes nor loses training time |
| | `TotalsAreTheSeconds` | `TotalsAreSeconds`: totals and overlap of all days are what counting instants gives |

**Data.** The library's induction principles take an operator, which no prover
here can instantiate. `DataInduction` has them for sets and functions instead,
all from `LeastNat` (a set of numbers has a least element): a set that contains 0
and with each number the next contains all up to n (`Induct`), a recursive
function on `0 .. n` exists (`RecursionDefined`), finite sets of numbers have
ranks (`Ranking`, `Sorting`), and sums over finite sets exist, are unique, split,
add and agree with the folds of the community modules (`IterationSums`), and
count what is apart (`CountsAddUp`). Loops of the code are then proved like
loops, with an invariant over the index.

**The planner.** Selection keeps `Chosen`: the chosen are at increasing places of
the queue, their minimums have partial sums and leave what is left, and whoever
is not among them was passed over: its minimum exceeded what was left at its
place, or the queue is strict and somebody ahead of it is not chosen either. The
round robin keeps `Shared`: the grants are those of level `k` with the first `i`
raised (`Level`), clipped at each capacity, and nothing is lost; it ends when
nothing is left or all are at their capacity. Slicing then gives disjoint
consecutive parts.

**The coordinator.** None of the properties is inductive alone: that a child is
covered depends on where its supervisor stands, on which process the lease names
and on whether that process exists. `IInv` adds these links:

- `SessionInv`: the place of a session determines which processes exist and
  which one owns the lease (`spawn`, `bind`: the supervisor; `flag`, `watch`: the
  child, unreaped; before the claim: nobody);
- `CoverInv`: a lease that is `Needed` (its child is still to be recorded, or
  recorded and unreaped) is active and its rows are the claimed devices;
- `TableInv`, `RowsInv`: leased statuses have an active lease, rows belong to
  active leases and are disjoint;
- `LockInv`: who is in the section holds the lock, and a session in the waiting
  loop has made a pass.

The proof first shows that every transaction is `Undisturbed`: it leaves the
tables in order and takes no lease that is needed. For recovery this rests on
`pid_matches` seeing the process (`StaleNotNeeded`); for a batch it rests on the
`UNIQUE` constraints alone (`BatchUndisturbed`), so exclusion does not depend on
the planner. What remains of each step concerns the sessions (`Assemble`,
`EndInv`, `WaitInv`). A `Stubborn` child counts in `ChildCovered` and
`NoSharedDevice` only until its supervisor has given it up: the code releases
its lease by design after two rounds of termination.

`DataInv` needs `IInv` and the planner (`PlanIsBatch`). It says that status and
lease of a row agree and its leases lie in the signature (`RowInv`), that
requests are well formed and no two rows have the same age (`QueueInv`),
and that what a session under the lock has read of devices and queue is still
so, although processes die and commands commit between its transactions
(`PlaceInv`). Every step makes one `Transaction`: it adds a row, ends some,
grants a planned batch, claims, binds, or does nothing to them; the refinement
of `LeaseTable` maps these to asking, ending, granting and stuttering.
`OnlyUnfitRaises` follows from it and the planner's own guards; what such an
exception leaves behind is `MCPoison.cfg` below, and `CleanedUp` is about
the sessions that could clean up.

A cancel that looked at a process holds the lock until it signals, so that the
lease names the same process in both steps; whether that process is the one it
was is another matter (`MCStranger.cfg`). An outcome is rewritten only from
`finish`, where `IInv` knows that no lease is active.

**The timeline store.** Its `IInv` says who may hold which lock at which stage
(`LockInv`), that a draft belongs to the holder of RESERVED, holds only rows of
its job and keys the table does not have (`DraftInv`), that the salt of every
digest, in the table, a draft or a process, is the committed one (`SaltInv`),
how far each process is (`RowInv`) and what a pass has left to do when it
commits (`PassInv`). The heart of it is that COMMIT waits until no other
transaction reads, so that nothing a pass has looked up changes before its
INSERT. The refinement maps the table without its annotations to the log;
each step then appends the rows of one write, answers, or stutters.

The hooks use both: `HookDelivery` adds the jobs to the store's steps, and `HookInv` is proved of the log's few steps rather than of SQLite's
many: every logged row is some process's row, who was told "invalid" has an
invalid row, and a dated payload conflicts with nobody. That a normalised hook
with ids that can be encoded is valid (`NormalizedIsStorable`), and that a dated
one has one digest, are lemmas about `normalize_hook`.

**The collector.** `IInv` consists of the pause (`PauseOnSchedule`: the entry of
the schedule at the failure count; schedules are monotonic by
`ConfigsAssumption`, which `TimelineConfig` checks), of types, of what the pass
has (`PassInv`: the rows read so far are true of `past` and `Complete`, i.e.
have one row of each GPU that was there throughout, or are one unknown row; the
list of GPUs before the processes `Lists` those), and of `BusySampledSoon`,
which is inductive beside them.

**The LaunchAgent.** `IInv` strengthens `NoStaleService` by three facts: each
command stays on its own path through the code (`Routes`); an
invocation about to write or unlink has found no foreign plist and there never
is one later (`WriterLooked`); a start that was refused, and whose others did
nothing but load, has lost to a start that succeeded (`RefusedMeansLoaded`).
`SuccessIsReal` is about whole paths: what a command has brought about so far, a
plist written or a service unloaded, is there unless somebody did the one thing
that takes it away (`DoneSoFar`).

**The reports.** The steps only append, so that the types are the whole
inductive invariant; the rest is about what the report computes from any rows.
A lane's rows have ranks, the piece of a row reaches to the next row and its cuts
at the stall or sample limit, at `as_of` and at midnight; so pieces are in order
and the instant a piece covers is decided by the last row before it
(`SessionShown` and its like for GPUs and days). That is what `HistorySettled`
and `LateHookIsLocal` come down to: the last row before an instant does not
depend on the day and the moment of the report, and a row that arrives changes it
only for its own session and from the row it follows on (a stall that has been
shown may become activity so). Of the overrides in force, a finite set, one
overtakes all others (`OneIsTop`), so that a field reads one value; recording
replaces it only by the new one, and time only by one whose effect begins or that
is left when it expires. Folding
is proved as the code's loop: each turn drops, merges or keeps a bar, and
`GoodLoop` says that what has been passed and what is to come have the training
time of all segments and at most their idle time, and that result and rest still
join at the ends.

The totals are proved by counting. The seconds of a tidy lane are as many as the
instants it covers (`TidyCount`), those of a day's lanes are the pairs of a
session or GPU and an instant of that day at which it is in the state
(`CodexOfDay`, `GpuOfDay`, `TotalCounts`), and every instant of the past is in
exactly one day (`DaysDivide`), so that the days add up. For the overlap, the
loop of `_union` keeps a list of intervals with time between them that covers
what was put in (`JoinedTo`, `JoinedCover`). The loop over two such lists has
added up the instants that both cover before its two places (`Met`): the
interval that ends first shares nothing with what comes after (`FirstEnds`), so
that leaving it loses nothing, and each turn leaves one, so that one list is
used up at the end (`SharedTime`).

## 5. What is only model-checked

- Liveness (`EveryWaiterLeaves`, `EveryLeaseReturns`, `EveryoneFinishes`,
  `EveryHostSampledAgain`, `DashboardProgress`): out of the prover's reach. All
  safety properties of the passing runs are theorems.

`Collector!TypeOK` can be added to `MCCollector.cfg`, where it holds;
`CancelledBeforeStart` and `PassAtomic` likewise hold in `MCSessions.cfg` and
`MCStore.cfg`.

Some configurations are not among the runs and are to be started by hand
(`tlc -config X.cfg M`). Each shows, by a violation, where the code and what is
said of it part:

| Configuration (module) | Property | What is violated |
|---|---|---|
| `MCSchedulerGreedy.cfg` (`MCScheduler`) | `StartsAsManyAsPossible` | "the batch starts as many feasible jobs as possible" (`scheduler.py:51`): selection is greedy |
| `MCStranger.cfg` (`MCSteward`) | `NoStrangerHit` | a cancel looks at the recorded child, which ends and is reaped, its pid is given away, and the signal hits the group of a stranger (`architecture-and-scheduling.md:26`) |
| `MCPoison.cfg` (`MCSteward`) | `NoOrphanAfterError` | one request without a capacity makes every session's planner raise a `ValueError`, which leaves queued rows behind (`runtime.py:219-221`) |
| `MCOutcome.cfg` (`MCSteward`) | `OutcomeWrittenOnce` | a lease recovered between `child.wait()` and `finish_task` has its task's outcome written twice (`architecture-and-scheduling.md:167`) |
| `MCCancel.cfg` (`MCSteward`) | `CancelAlwaysSignals` | a cancel of a supervisor that does not lead its process group is accepted and signals nobody (`state.py:593-594`) |
| `MCHookLost.cfg` (`MCHookDelivery`) | `StoreNeverRefuses` | an id with a lone surrogate passes `normalize_hook` and cannot be encoded by the store, so that the hook is lost (`codex.py:162-163`) |
| `MCToolStall.cfg` (`MCTimeline`) | `NoStallDuringTool` | a phase event between PreToolUse and PostToolUse lets a stall be derived while the tool runs (design document, line 60) |
| `MCToolPhase.cfg` (`MCTimeline`) | `PhaseRestoredAfterTool` | the phase declared before a tool is not restored after it (`aggregate.py:240`) |
| `MCOverridden.cfg` (`MCTimeline`) | `OverriddenPhaseShown` | an override of the phase of a pre-tool, stop or turn-end event has no effect (design document, line 101) |
| `MCOldState.cfg` (`MCTimeline`) | `NoOldStateAfterFailure` | after a failed probe the GPU's lane shows the old sample until the sample gap is over (design document, line 73) |
| `MCCollectorPace.cfg` (`MCCollector`) | `ActiveSampledEveryMinute` | a failing host puts the busy ones on the backoff, too |
| `MCCollectorBackoff.cfg` (`MCCollector`) | `BackoffNotFasterThanHealthy` | a backoff below the interval samples faster after a failure (`config.py:291`) |

The store has one more: `ReplayIsNoOp` of `TimelineStore`. An event another
process commits between the SELECT and the INSERT of `record_codex_event`
(`store.py:564-595`, no transaction) fails on its key and is reported as an
error, although "Replaying the same id and content is a no-op" (`store.py:521`).

## 6. Not modelled, and known limits

- A lone request whose minimum exceeds `total - reserve` waits until a second
  request arrives. The README documents the rule; the liveness run therefore
  has no reserve, and a request like that would be a counterexample.
- Output, CSV and JSON parsing, argument parsing, file permissions, time zones.
- The rendering of the web app and `validate_report`: input and output. What
  the latter demands of a report follows from `LanesWellFormed` and
  `TotalsAreSeconds`.
- `timeline init` and the parsing of the configuration; of it only the
  constraints the collector relies on are stated (`ConfigsAssumption`). The
  hosts it accepts are a wider set than those the store does, which ends the
  collector just as in `label_ends_collector`.
- The time a probe takes; `explicit_labels`, which only embedding callers pass.
- `launchctl print` fails only if the service is not loaded, `bootstrap` if it is
  or there is no plist (with the plist of another service either way), and
  `bootout` may fail without a reason; when it succeeds it takes effect at once.
  The plist of another service is there from the start or not at all. An
  `uninstall` whose `bootout` failed reports success and may leave the service
  running without a plist (`cli.py:505-510`): the exception in `SuccessIsReal`.
- `nvidia-smi` that exits with 0 lists every process: an output without lines is
  read as no process (`gpu.py:241-243`), and the model's hosts answer so only when
  there is none.
- A hook recorded later may rewrite what an earlier report showed of its own
  session; `HistorySettled` is about reports of the same rows.
- Reports read events, samples and overrides in separate statements; the model
  reads them at once. The tables only grow, so such a report is one of rows that
  are all committed.

## 7. Plan

1. The collector's passes as the jobs of `TimelineStore`'s processes, so that
   the transaction of `Collector!Record` is the one proved atomic.
2. Liveness of the coordinator with three tasks and with strict FIFO.
