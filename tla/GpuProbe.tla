------------------------------- MODULE GpuProbe -------------------------------
(***************************************************************************)
(* What the answers of a GPU host become: src/gpu_steward/timeline/gpu.py. *)
(*                                                                         *)
(* A text is what the display alphabet keeps of it, nothing, a word that   *)
(* begins with a letter or a digit, or something that begins with a mark   *)
(* such as a dot or a slash; and whether it is odd, that is, has to be     *)
(* changed for that.  None is an absent text, number or answer; Bad an     *)
(* answer that cannot be parsed.                                           *)
(***************************************************************************)
EXTENDS Integers, Sequences, FiniteSets, FiniteSetsExt

CONSTANTS None, Bad

ASSUME NoneAssumption == None \notin Nat

Text == [kept : {"nothing", "word", "mark"}, odd : BOOLEAN]
\* What the store takes, such as "managed-task" and the ids of tasks.
Word == [kept |-> "word", odd |-> FALSE]

DisplayLabel(text) ==
    IF text = None \/ text.kept = "nothing" THEN None
    ELSE [text EXCEPT !.odd = FALSE]

FirstOf(texts) ==
    LET present == {i \in DOMAIN texts : texts[i] # None} IN
    IF present = {} THEN None ELSE texts[Min(present)]

Sample(index, state, task, attribution, process) ==
    [index |-> index, state |-> state, task |-> task,
     attribution |-> attribution, process |-> process]

\* The one row of a host that could not be probed.
Unknown == Sample(None, "unknown", None, "unknown", None)

\* A disabled GPU shows as disabled, whatever it does.
Visible(sample, disabled) ==
    IF sample.index \in disabled THEN [sample EXCEPT !.state = "disabled"]
    ELSE sample

Unique(rows, field) == Cardinality({rows[i][field] : i \in DOMAIN rows}) = Len(rows)

\* The name of the process with the lowest pid; one without a pid comes last.
ProcessName(processes) ==
    LET key(p) == IF p.pid = None THEN 1000 ELSE p.pid
        first == CHOOSE p \in processes : \A q \in processes : key(p) <= key(q)
    IN  IF processes = {} THEN None ELSE DisplayLabel(first.name)

-----------------------------------------------------------------------------
(* gpu-steward status: [gpus, leases, labels] with the sequences of GPUs   *)
(* [index, uuid, state, processes] and leases [task, status, pid, uuids],  *)
(* those under the tasks behind the others, and the labels of the tasks, a *)
(* function of tasks [id, ...].                                            *)

TaskName(status, task) ==
    IF task \in DOMAIN status.labels
    THEN FirstOf(<<DisplayLabel(status.labels[task]), DisplayLabel(task.id), Word>>)
    ELSE FirstOf(<<task.id, Word>>)

Holds(lease, uuid) == lease.status \in {"active", "reserved"} /\ uuid \in lease.uuids

LeaseState(lease) == IF lease.pid = None THEN "reserved" ELSE "training"

\* The words of a state, its own and the others that count.
ExternalStates == {"external_busy", "external"}
ManagedStates == {"managed_busy", "managed"}
FreeStates == {"free", "idle", ""}

StatusSample(status, gpu) ==
    LET held == {i \in DOMAIN status.leases : Holds(status.leases[i], gpu.uuid)}
        lease == status.leases[Max(held)]
        process == ProcessName(gpu.processes)
    IN  CASE held # {} ->
                Sample(gpu.index, LeaseState(lease), TaskName(status, lease.task),
                       "explicit", process)
          [] held = {} /\ (gpu.processes # {} \/ gpu.state \in ExternalStates) ->
                Sample(gpu.index, "external", process, "inferred", process)
          [] held = {} /\ gpu.processes = {} /\ gpu.state \in ManagedStates ->
                Sample(gpu.index, "managed-other", None, "none", None)
          [] held = {} /\ gpu.processes = {} /\ gpu.state \in FreeStates ->
                Sample(gpu.index, "idle", None, "none", None)
          [] OTHER -> Sample(gpu.index, "unknown", None, "unknown", None)

StatusParses(status) ==
    /\ status # Bad
    /\ status.gpus # <<>>
    /\ Unique(status.gpus, "index") /\ Unique(status.gpus, "uuid")

SamplesFromStatus(status, disabled) ==
    {Visible(StatusSample(status, status.gpus[i]), disabled) : i \in DOMAIN status.gpus}

-----------------------------------------------------------------------------
(* nvidia-smi, twice: the GPUs, a sequence of [index, uuid], then the      *)
(* compute processes [uuid, pid, name]; an empty output, or "no running    *)
(* processes", is the empty set of them.                                   *)

\* Mutant: a list of processes that does not parse is an empty one.
ProcessesParse_Always(gpus, processes) == TRUE

ProcessesParse(gpus, processes) ==
    /\ processes # Bad
    /\ \A p \in processes :
          /\ p.pid # None
          /\ \E i \in DOMAIN gpus : gpus[i].uuid = p.uuid
          /\ \A q \in processes : q.uuid = p.uuid /\ q.pid = p.pid => q = p

GpusParse(gpus) == gpus # Bad /\ gpus # <<>> /\ Unique(gpus, "uuid")

SmiSample(gpu, processes) ==
    LET own == {p \in IF processes = Bad THEN {} ELSE processes : p.uuid = gpu.uuid}
        process == ProcessName(own)
    IN  IF own = {} THEN Sample(gpu.index, "idle", None, "none", None)
        ELSE Sample(gpu.index, "external", process, "inferred", process)

SamplesFromSmi(gpus, processes, disabled) ==
    {Visible(SmiSample(gpus[i], processes), disabled) : i \in DOMAIN gpus}

-----------------------------------------------------------------------------
(* What TimelineStore.record_gpu_sample accepts *)

SafeText(text) == text \in {None, Word}

Storable(sample) ==
    /\ SafeText(sample.task) /\ SafeText(sample.process)
    /\ sample.index # None => sample.index <= 255
=============================================================================
