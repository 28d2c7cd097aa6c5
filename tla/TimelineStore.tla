----------------------------- MODULE TimelineStore ----------------------------
(***************************************************************************)
(* The processes that write the timeline database,                         *)
(* src/gpu_steward/timeline/store.py: hooks that record one Codex event,   *)
(* passes that record the samples of one probe in a transaction, editors   *)
(* that record the overrides of one observation one after the other.       *)
(*                                                                         *)
(* SQLite is external: its rollback journal lets any number of processes   *)
(* read (SHARED), one of them prepare a write (RESERVED), and keeps new    *)
(* readers out while that one waits for the old ones to leave (PENDING).   *)
(* A statement outside a transaction waits for its lock with the busy      *)
(* handler; one inside a transaction that has read already fails at once   *)
(* when another process holds RESERVED, since waiting could deadlock.      *)
(***************************************************************************)
EXTENDS Naturals, Sequences, FiniteSets

CONSTANTS None,
          Hooks, Passes, Editors,   \* the processes, by what they record
          Ids, Contents,
          EventIds,                 \* the ids of codex_events
          Jobs,                     \* [Writers -> sets of sequences of rows]
          Killable                  \* processes that may be killed

Writers == Hooks \cup Passes \cup Editors
Row == [id : Ids, content : Contents, valid : BOOLEAN]
Stored == [content : Contents, salt : Writers \cup {None}, by : Writers]

ASSUME NoneAssumption == None \notin Writers \cup Contents \cup Stored

ASSUME KindsAssumption ==
    /\ Hooks \cap Passes = {}
    /\ Hooks \cap Editors = {}
    /\ Passes \cap Editors = {}

ASSUME JobsAssumption == \A w \in Writers : Jobs[w] \subseteq Seq(Row)

VARIABLES
    table,     \* the committed rows: [content, salt, by], or None
    salt,      \* the committed salt: the process that drew it, or None
    stage,     \* where each process is
    job,       \* the rows it records
    at,        \* the index of the row it is at
    own,       \* the salt it holds in memory
    draft,     \* its uncommitted rows
    result,    \* what its caller is told
    readers,   \* transactions that hold SHARED
    writer,    \* the holder of RESERVED
    pending    \* it has PENDING and waits for EXCLUSIVE
storeVars == <<table, salt, stage, job, at, own, draft, result,
               readers, writer, pending>>

Stages == {"idle", "schema", "salt", "salting", "row", "insert", "done"}
Failures == {"invalid", "conflict", "error", "locked", "killed"}
NoRows == [id \in Ids |-> None]

TypeOK ==
    /\ table \in [Ids -> Stored \cup {None}]
    /\ salt \in Writers \cup {None}
    /\ stage \in [Writers -> Stages]
    /\ job \in [Writers -> Seq(Row)]
    /\ at \in [Writers -> Nat \ {0}]
    /\ own \in [Writers -> Writers \cup {None}]
    /\ draft \in [Writers -> [Ids -> Stored \cup {None}]]
    /\ result \in [Writers -> {"none", "ok"} \cup Failures]
    /\ readers \subseteq Passes
    /\ writer \in Writers \cup {None}
    /\ pending \in BOOLEAN
    /\ \A w \in Writers : stage[w] \in {"row", "insert"} => own[w] # None

Init ==
    /\ table = NoRows
    /\ salt = None
    /\ stage = [w \in Writers |-> "idle"]
    /\ job \in [Writers -> UNION {Jobs[w] : w \in Writers}]
    /\ \A w \in Writers : job[w] \in Jobs[w]
    /\ at = [w \in Writers |-> 1]
    /\ own = [w \in Writers |-> None]
    /\ draft = [w \in Writers |-> NoRows]
    /\ result = [w \in Writers |-> "none"]
    /\ readers = {}
    /\ writer = None
    /\ pending = FALSE

-----------------------------------------------------------------------------
(* Locks *)

\* Only record_gpu_samples opens a transaction.
InTransaction(w) == w \in Passes

MayRead(w) == ~pending \/ w \in readers \/ writer = w

Rollback(w) ==
    /\ draft' = [draft EXCEPT ![w] = NoRows]
    /\ readers' = readers \ {w}
    /\ writer' = IF writer = w THEN None ELSE writer
    /\ pending' = (pending /\ writer # w)

\* Mutant: an exception leaves the transaction open.
Leave_Open(w) ==
    IF InTransaction(w) THEN UNCHANGED <<draft, readers, writer, pending>>
    ELSE Rollback(w)

\* The way out of an exception: the ROLLBACK of record_gpu_samples, or that
\* of SQLite for a statement of its own.
Leave(w) == Rollback(w)

Fail(w, why) ==
    /\ Leave(w)
    /\ stage' = [stage EXCEPT ![w] = "done"]
    /\ result' = [result EXCEPT ![w] = why]
    /\ UNCHANGED <<table, salt, job, at, own>>

-----------------------------------------------------------------------------
(* A write: reserve, prepare a draft, wait for the readers, publish it.    *)

Unwritten(w) == writer = w /\ ~pending

\* COMMIT, or the end of an autocommit statement: no new readers.
Seal(w) ==
    /\ Unwritten(w)
    /\ InTransaction(w) /\ stage[w] \in {"row", "insert"} => at[w] > Len(job[w])
    /\ pending' = TRUE
    /\ UNCHANGED <<table, salt, stage, job, at, own, draft, result, readers, writer>>

StageAfterCommit(w) ==
    IF stage[w] = "schema" THEN "salt" ELSE "row"

Commit(w) ==
    /\ writer = w /\ pending
    /\ readers \subseteq {w}
    /\ table' = [id \in Ids |-> IF draft[w][id] # None THEN draft[w][id]
                                ELSE table[id]]
    /\ salt' = IF stage[w] = "salting" THEN own[w] ELSE salt
    /\ at' = IF stage[w] = "insert" THEN [at EXCEPT ![w] = @ + 1] ELSE at
    /\ stage' = [stage EXCEPT ![w] = StageAfterCommit(w)]
    /\ Rollback(w)      \* the locks go, and the draft is in the table
    /\ UNCHANGED <<job, own, result>>

-----------------------------------------------------------------------------
(* Opening the store *)

Start(w) ==
    /\ stage[w] = "idle"
    /\ stage' = [stage EXCEPT ![w] = "schema"]
    /\ UNCHANGED <<table, salt, job, at, own, draft, result, readers, writer, pending>>

\* The schema is created idempotently; its INSERT OR IGNORE writes nothing
\* the second time, and still needs the lock of a writer.
Initialize(w) ==
    /\ stage[w] = "schema" /\ writer = None
    /\ writer' = w
    /\ UNCHANGED <<table, salt, stage, job, at, own, draft, result, readers, pending>>

SaltKnown == salt # None

ReadSalt(w) ==
    /\ stage[w] = "salt" /\ MayRead(w)
    /\ own' = [own EXCEPT ![w] = salt]
    /\ stage' = [stage EXCEPT ![w] = IF SaltKnown THEN "row" ELSE "salting"]
    /\ UNCHANGED <<table, salt, job, at, draft, result, readers, writer, pending>>

\* Mutant: INSERT OR REPLACE.
SaltTaken_Never == FALSE
\* The salt is inserted under a primary key.
SaltTaken == salt # None

InsertSalt(w) ==
    /\ stage[w] = "salting" /\ writer = None
    /\ ~SaltTaken
    /\ writer' = w
    /\ own' = [own EXCEPT ![w] = w]
    /\ UNCHANGED <<table, salt, stage, job, at, draft, result, readers, pending>>

SaltRefused(w) ==
    /\ stage[w] = "salting" /\ writer = None
    /\ SaltTaken
    /\ Fail(w, "error")

-----------------------------------------------------------------------------
(* record_codex_event, record_gpu_sample, record_override *)

Record(w) == job[w][at[w]]
Visible(w) == IF draft[w][Record(w).id] # None THEN draft[w][Record(w).id]
              ELSE table[Record(w).id]

\* Only the row of an event holds digests made with the salt.
StoredRow(w) == [content |-> Record(w).content,
                 salt |-> IF Record(w).id \in EventIds THEN own[w] ELSE None,
                 by |-> w]

\* Mutant: an id that is there is taken for a replay.
IsReplay_AnyContent(w) == Visible(w) # None
IsReplay(w) ==
    /\ Visible(w) # None
    /\ Visible(w).content = StoredRow(w).content
    /\ Visible(w).salt = StoredRow(w).salt

AtRow(w) == stage[w] = "row" /\ at[w] <= Len(job[w])

Reject(w) ==
    /\ AtRow(w)
    /\ ~Record(w).valid
    /\ Fail(w, "invalid")

\* SELECT: a transaction keeps SHARED from here to its end.
Lookup(w) ==
    /\ AtRow(w)
    /\ Record(w).valid
    /\ MayRead(w)
    /\ \/ /\ Visible(w) = None
          /\ stage' = [stage EXCEPT ![w] = "insert"]
          /\ at' = at
       \/ /\ IsReplay(w)
          /\ at' = [at EXCEPT ![w] = @ + 1]
          /\ stage' = stage
    /\ readers' = IF InTransaction(w) THEN readers \cup {w} ELSE readers
    /\ UNCHANGED <<table, salt, job, own, draft, result, writer, pending>>

Conflict(w) ==
    /\ AtRow(w)
    /\ Record(w).valid
    /\ MayRead(w)
    /\ Visible(w) # None /\ ~IsReplay(w)
    /\ Fail(w, "conflict")

\* INSERT; the primary key is checked against what is committed by now.
Insert(w) ==
    /\ stage[w] = "insert"
    /\ writer = None \/ (writer = w /\ InTransaction(w))
    /\ table[Record(w).id] = None
    /\ draft' = [draft EXCEPT ![w][Record(w).id] = StoredRow(w)]
    /\ writer' = w
    /\ IF InTransaction(w)
       THEN /\ stage' = [stage EXCEPT ![w] = "row"]
            /\ at' = [at EXCEPT ![w] = @ + 1]
       ELSE UNCHANGED <<stage, at>>
    /\ UNCHANGED <<table, salt, job, own, result, readers, pending>>

KeyTaken(w) ==
    /\ stage[w] = "insert" /\ writer = None
    /\ table[Record(w).id] # None
    /\ Fail(w, "error")

\* A transaction that has read is not made to wait for RESERVED.
Busy(w) ==
    /\ stage[w] = "insert" /\ InTransaction(w)
    /\ writer \notin {None, w}
    /\ Fail(w, "locked")

\* All rows are recorded; for a pass that wrote none, COMMIT just ends it.
Return(w) ==
    /\ stage[w] = "row" /\ at[w] > Len(job[w]) /\ writer # w
    /\ stage' = [stage EXCEPT ![w] = "done"]
    /\ result' = [result EXCEPT ![w] = "ok"]
    /\ readers' = readers \ {w}
    /\ UNCHANGED <<table, salt, job, at, own, draft, writer, pending>>

-----------------------------------------------------------------------------
(* busy_timeout, and the end of a process *)

Waiting(w) ==
    \/ stage[w] \in {"schema", "salting"} /\ writer \notin {None, w}
    \/ stage[w] = "insert" /\ ~InTransaction(w) /\ writer \notin {None, w}
    \/ stage[w] = "salt" /\ ~MayRead(w)
    \/ AtRow(w) /\ Record(w).valid /\ ~MayRead(w)
    \/ writer = w /\ pending /\ ~(readers \subseteq {w})

GiveUp(w) == Waiting(w) /\ Fail(w, "locked")

Killed(w) ==
    /\ w \in Killable
    /\ stage[w] \notin {"idle", "done"}
    /\ Rollback(w)      \* of the journal, by the next process
    /\ stage' = [stage EXCEPT ![w] = "done"]
    /\ result' = [result EXCEPT ![w] = "killed"]
    /\ UNCHANGED <<table, salt, job, at, own>>

Step(w) ==
    \/ Initialize(w) \/ ReadSalt(w) \/ InsertSalt(w) \/ SaltRefused(w)
    \/ Reject(w) \/ Lookup(w) \/ Conflict(w) \/ Insert(w) \/ KeyTaken(w)
    \/ Busy(w) \/ Seal(w) \/ Commit(w) \/ Return(w)

Done == /\ \A w \in Writers : stage[w] \in {"idle", "done"}
        /\ UNCHANGED storeVars

Next == Done \/ \E w \in Writers : Start(w) \/ Step(w) \/ GiveUp(w) \/ Killed(w)

Spec == Init /\ [][Next]_storeVars
FairSpec == Spec /\ \A w \in Writers : WF_storeVars(Step(w))

-----------------------------------------------------------------------------
(* Properties *)

Rows(w) == {job[w][k] : k \in DOMAIN job[w]}
WrittenBy(w) == {id \in Ids : table[id] # None /\ table[id].by = w}

\* record_gpu_samples: a pass that wrote any row has all its rows in the
\* table, whatever stopped it, and one that failed wrote none.
PassAtomic ==
    \A w \in Passes :
        /\ WrittenBy(w) # {} => \A row \in Rows(w) : table[row.id] # None
        /\ result[w] \in Failures \ {"killed"} => WrittenBy(w) = {}

\* While a pass is between the SELECT that found no row and its INSERT, no
\* other process commits that row: inside a transaction the check is good.
PassIsolated ==
    \A w \in Passes : stage[w] = "insert" => table[Record(w).id] = None

\* Every digest in the table was made with the salt the table holds, and
\* every process that records uses that salt: sessions stay comparable.
OneSalt ==
    /\ \A id \in Ids : table[id] # None => table[id].salt \in {None, salt}
    /\ \A w \in Writers : stage[w] \in {"row", "insert"} => own[w] = salt

\* Replaying what a committed row holds never fails on its key: a process
\* is refused a row (conflict) only if the contents differ.
ReplayIsNoOp ==
    \A w \in Writers :
        result[w] = "error" /\ own[w] # None =>
            \E row \in Rows(w) : table[row.id].content # row.content

\* The table only grows, a pass at a time, and the answers are true of it.
Log == INSTANCE EventLog WITH
           log <- [id \in Ids |-> IF table[id] = None THEN None
                                  ELSE table[id].content],
           answer <- result
ImplementsEventLog == Log!LogSpec

\* Without anybody's busy_timeout: the locks never keep a process for ever.
EveryoneFinishes ==
    \A w \in Writers : stage[w] # "idle" ~> stage[w] = "done"
=============================================================================
