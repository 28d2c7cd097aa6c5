-------------------------- MODULE TimelineStoreProof --------------------------
(***************************************************************************)
(* Proofs about module TimelineStore, for any number of processes and any  *)
(* rows: a pass is atomic, all digests share one salt, a transaction's     *)
(* check of a key stays true until its INSERT, and the processes, locks    *)
(* and transactions implement the table of module EventLog.                *)
(***************************************************************************)
EXTENDS HookDelivery, FiniteSetTheorems, TLAPS

Recording(w) == stage[w] \in {"row", "insert"}
Seen(w, id) == IF draft[w][id] # None THEN draft[w][id] ELSE table[id]

\* Who may hold which lock, and what that says of the others' drafts.
LockInv ==
    /\ pending => writer # None
    /\ \A w \in readers : Recording(w)
    /\ \A w \in Writers :
          /\ writer = w => stage[w] \in {"schema", "salting", "row", "insert"}
          /\ writer = w /\ stage[w] = "row" => w \in readers
          /\ writer = w /\ pending /\ stage[w] = "row" => at[w] > Len(job[w])
          /\ writer = w /\ pending /\ stage[w] = "insert" => w \notin Passes
          /\ w \in Passes /\ stage[w] = "insert" => w \in readers
          /\ (result[w] = "none") <=> (stage[w] # "done")

\* What is in a draft, and that nobody else can publish its keys.
DraftOK(w) ==
    /\ writer = w /\ stage[w] = "insert" /\ w \notin Passes =>
          draft[w][Record(w).id] # None
    /\ \A id \in Ids : draft[w][id] # None =>
          /\ writer = w /\ Recording(w)
          /\ table[id] = None
          /\ draft[w][id].by = w
          /\ draft[w][id].salt = IF id \in EventIds THEN own[w] ELSE None
          /\ w \notin Passes =>
                /\ stage[w] = "insert"
                /\ id = Record(w).id
                /\ draft[w][id].content = Record(w).content
          /\ w \in Passes =>
                \E k \in 1 .. Len(job[w]) :
                    /\ k < at[w]
                    /\ job[w][k].id = id
                    /\ job[w][k].content = draft[w][id].content
DraftInv == \A w \in Writers : DraftOK(w)

SaltInv ==
    /\ \A id \in Ids : table[id] # None =>
          /\ salt # None
          /\ table[id].salt = IF id \in EventIds THEN salt ELSE None
    /\ \A w \in Writers :
          /\ Recording(w) => own[w] = salt /\ salt # None
          /\ stage[w] = "salting" /\ writer = w => salt = None /\ own[w] = w

\* How far a process is: the rows before the one it is at are recorded.
RowOK(w) ==
    /\ at[w] <= Len(job[w]) + 1
    /\ stage[w] \in {"idle", "schema", "salt", "salting"} => at[w] = 1
    /\ stage[w] = "insert" => at[w] <= Len(job[w]) /\ Record(w).valid
    /\ w \in Passes /\ stage[w] = "insert" => Seen(w, Record(w).id) = None
    /\ Recording(w) => \A k \in 1 .. Len(job[w]) : k < at[w] =>
          /\ job[w][k].valid
          /\ Seen(w, job[w][k].id) # None
          /\ Seen(w, job[w][k].id).content = job[w][k].content
RowInv == \A w \in Writers : RowOK(w)

\* A pass writes when it commits and then has nothing left to do.
PassInv ==
    \A w \in Passes : \A id \in Ids : table[id] # None /\ table[id].by = w =>
        /\ at[w] > Len(job[w])
        /\ stage[w] \in {"row", "done"}
        /\ writer # w
        /\ result[w] \in {"none", "ok", "killed"}
        /\ \A k \in 1 .. Len(job[w]) : table[job[w][k].id] # None

IInv == TypeOK /\ LockInv /\ DraftInv /\ SaltInv /\ RowInv /\ PassInv

-----------------------------------------------------------------------------
(* The rows a process is asked to record are rows *)

\* The rows of a job have ids and contents.
LEMMA JobTypes ==
    ASSUME TypeOK, NEW w \in Writers
    PROVE  /\ Len(job[w]) \in Nat
           /\ at[w] \in Nat \ {0}
           /\ \A k \in 1 .. Len(job[w]) :
                 /\ job[w][k].id \in Ids
                 /\ job[w][k].content \in Contents
<1>1. job[w] \in Seq(Row) /\ at[w] \in Nat \ {0}
  BY DEF TypeOK
<1>2. Len(job[w]) \in Nat /\ \A k \in 1 .. Len(job[w]) : job[w][k] \in Row
  BY <1>1
<1> QED BY <1>1, <1>2 DEF Row

-----------------------------------------------------------------------------
(* The initial states *)

\* IInv holds before the first writer starts.
LEMMA InitIInv == Init => IInv
<1> SUFFICES ASSUME Init PROVE IInv
  OBVIOUS
<1>0. \A w \in Writers : job[w] \in Seq(Row)
  BY JobsAssumption DEF Init
<1>a. job \in [Writers -> Seq(Row)]
  BY <1>0 DEF Init
<1>1. job \in [Writers -> Seq(Row)] /\ \A w \in Writers : Len(job[w]) \in Nat
  BY <1>a
<1>2. TypeOK
  <2>1. /\ table \in [Ids -> Stored \cup {None}]
        /\ draft \in [Writers -> [Ids -> Stored \cup {None}]]
    BY DEF Init, NoRows
  <2>2. /\ stage \in [Writers -> Stages]
        /\ result \in [Writers -> {"none", "ok"} \cup Failures]
        /\ \A w \in Writers : stage[w] \notin {"row", "insert"}
    BY DEF Init, Stages, Failures
  <2>3. /\ at \in [Writers -> Nat \ {0}]
        /\ own \in [Writers -> Writers \cup {None}]
        /\ readers \subseteq Passes
        /\ salt = None /\ writer = None /\ pending = FALSE
    BY DEF Init
  <2> QED BY <1>1, <2>1, <2>2, <2>3 DEF TypeOK
<1>3. LockInv
  BY NoneAssumption DEF Init, LockInv
<1>4. DraftInv
  BY DEF Init, DraftInv, DraftOK, NoRows
<1>5. SaltInv
  BY DEF Init, SaltInv, NoRows, Recording
<1>6. RowInv
  BY <1>1 DEF Init, RowInv, RowOK, Recording
<1>7. PassInv
  BY DEF Init, PassInv, NoRows
<1> QED BY <1>2, <1>3, <1>4, <1>5, <1>6, <1>7 DEF IInv

-----------------------------------------------------------------------------
(* The ways out *)

\* A step of one process leaves the rows another one has recorded, in its
\* draft or in a table that only grows.
LEMMA OthersKeepRowOK ==
    ASSUME NEW v \in Writers, RowOK(v), TypeOK,
           stage'[v] = stage[v], at'[v] = at[v], job' = job,
           draft'[v] = draft[v],
           \A id \in Ids : table[id] # None => table'[id] = table[id],
           v \in Passes /\ stage[v] = "insert" =>
              table'[Record(v).id] = table[Record(v).id]
    PROVE  RowOK(v)'
<1>1. /\ at'[v] <= Len(job'[v]) + 1
      /\ stage'[v] \in {"idle", "schema", "salt", "salting"} => at'[v] = 1
      /\ stage'[v] = "insert" => at'[v] <= Len(job'[v]) /\ Record(v)'.valid
  BY DEF RowOK, Record
<1>2. v \in Passes /\ stage'[v] = "insert" => Seen(v, Record(v).id)' = None
  BY DEF RowOK, Record, Seen
<1>3. ASSUME Recording(v), NEW k \in 1 .. Len(job[v]), k < at[v]
      PROVE  /\ job[v][k].valid
             /\ Seen(v, job[v][k].id)' # None
             /\ Seen(v, job[v][k].id)'.content = job[v][k].content
  <2>1. /\ job[v][k].valid
        /\ Seen(v, job[v][k].id) # None
        /\ Seen(v, job[v][k].id).content = job[v][k].content
        /\ job[v][k].id \in Ids
    BY <1>3, JobTypes DEF RowOK
  <2>2. Seen(v, job[v][k].id)' = Seen(v, job[v][k].id)
    BY <2>1 DEF Seen
  <2> QED BY <2>1, <2>2
<1>4. Recording(v)' = Recording(v)
  BY DEF Recording
<1> QED BY <1>1, <1>2, <1>3, <1>4 DEF RowOK

\* A process that fails, or is killed, takes its locks and its draft with
\* it; a pass that still answers for itself has not written yet.
LEMMA LeavingKeepsIInv ==
    ASSUME IInv, NEW w \in Writers, NEW why \in Failures,
           Rollback(w),
           stage' = [stage EXCEPT ![w] = "done"],
           result' = [result EXCEPT ![w] = why],
           UNCHANGED <<table, salt, job, at, own>>,
           \/ why = "killed"
           \/ stage[w] # "row" \/ at[w] <= Len(job[w]) \/ writer = w,
           stage[w] # "done"
    PROVE  IInv'
<1>1. TypeOK'
  BY DEF IInv, TypeOK, Rollback, NoRows, Stages, Recording
<1>2. LockInv'
  BY NoneAssumption DEF IInv, TypeOK, LockInv, Rollback, Recording, Failures, Writers
<1>3. DraftInv'
  <2> SUFFICES ASSUME NEW v \in Writers
               PROVE  DraftOK(v)'
    BY DEF DraftInv
  <2>1. CASE v = w
    BY <2>1 DEF IInv, TypeOK, DraftOK, Rollback, NoRows
  <2>2. CASE v # w
    <3>1. DraftOK(v)
      BY DEF IInv, DraftInv
    <3>2. draft'[v] = draft[v] /\ stage'[v] = stage[v] /\ (writer = v <=> writer' = v)
      BY <2>2, NoneAssumption DEF IInv, TypeOK, Rollback, Writers
    <3> QED BY <3>1, <3>2 DEF DraftOK, Recording, Record
  <2> QED BY <2>1, <2>2
<1>4. SaltInv'
  BY NoneAssumption DEF IInv, TypeOK, SaltInv, Rollback, Recording, Writers
<1>5. RowInv'
  <2> SUFFICES ASSUME NEW v \in Writers
               PROVE  RowOK(v)'
    BY DEF RowInv
  <2>1. CASE v = w
    BY <2>1 DEF IInv, TypeOK, RowInv, RowOK, Recording
  <2>2. CASE v # w
    <3>1. RowOK(v)
      BY DEF IInv, RowInv
    <3>2. draft'[v] = draft[v] /\ stage'[v] = stage[v]
      BY <2>2 DEF IInv, TypeOK, Rollback
    <3> QED BY <3>1, <3>2, OthersKeepRowOK DEF IInv
  <2> QED BY <2>1, <2>2
<1>6. PassInv'
  BY NoneAssumption DEF IInv, TypeOK, PassInv, Rollback, Writers
<1> QED BY <1>1, <1>2, <1>3, <1>4, <1>5, <1>6 DEF IInv

-----------------------------------------------------------------------------
(* The steps that get on *)

\* A process without the lock has written nothing yet.
LEMMA DraftsAreLocked ==
    ASSUME DraftInv, NEW w \in Writers, writer # w, NEW id \in Ids
    PROVE  draft[w][id] = None
BY DEF DraftInv, DraftOK

\* And its draft, as long as it keeps the lock and nobody commits.
LEMMA OthersKeepDraftOK ==
    ASSUME NEW v \in Writers, DraftOK(v),
           stage'[v] = stage[v], at'[v] = at[v], job' = job, own'[v] = own[v],
           draft'[v] = draft[v],
           writer = v => writer' = v /\ table' = table,
           writer' = v => writer = v
    PROVE  DraftOK(v)'
BY DEF DraftOK, Recording, Record

\* The steps that open the database and find its salt keep IInv.
LEMMA StartKeepsIInv ==
    ASSUME IInv, NEW w \in Writers, Start(w)
    PROVE  IInv'
<1> USE NoneAssumption, JobTypes
<1>1. TypeOK'
  BY DEF IInv, TypeOK, Stages, Start
<1>2. LockInv'
  BY DEF IInv, TypeOK, LockInv, RowInv, RowOK, Recording, Writers, Start
<1>3. DraftInv'
  <2> SUFFICES ASSUME NEW v \in Writers
               PROVE  DraftOK(v)'
    BY DEF DraftInv
  <2>1. DraftOK(v)
    BY DEF IInv, DraftInv
  <2>2. CASE v = w
    BY <2>1, <2>2 DEF IInv, TypeOK, LockInv, DraftOK, RowInv, RowOK, Recording, Record, Writers, Start
  <2>3. CASE v # w
    BY <2>1, <2>3, OthersKeepDraftOK DEF IInv, TypeOK, LockInv, Writers, Start
  <2> QED BY <2>2, <2>3
<1>4. SaltInv'
  BY DEF IInv, TypeOK, SaltInv, DraftInv, DraftOK, LockInv, Recording, Writers, Start
<1>5. RowInv'
  <2> SUFFICES ASSUME NEW v \in Writers
               PROVE  RowOK(v)'
    BY DEF RowInv
  <2>1. RowOK(v)
    BY DEF IInv, RowInv
  <2>2. CASE v = w
    BY <2>1, <2>2 DEF IInv, TypeOK, LockInv, DraftInv, DraftOK, SaltInv, RowOK, Recording, Seen, Record, Writers, Start
  <2>3. CASE v # w
    BY <2>1, <2>3, OthersKeepRowOK DEF IInv, TypeOK, LockInv, DraftInv, DraftOK, RowOK, Writers, Start
  <2> QED BY <2>2, <2>3
<1>6. PassInv'
  BY DEF IInv, TypeOK, PassInv, RowInv, RowOK, LockInv, Writers, Start
<1> QED BY <1>1, <1>2, <1>3, <1>4, <1>5, <1>6 DEF IInv

\* The step that creates the tables keeps IInv.
LEMMA InitializeKeepsIInv ==
    ASSUME IInv, NEW w \in Writers, Initialize(w)
    PROVE  IInv'
<1> USE NoneAssumption, JobTypes
<1>1. TypeOK'
  BY DEF IInv, TypeOK, Stages, Initialize
<1>2. LockInv'
  BY DEF IInv, TypeOK, LockInv, RowInv, RowOK, Recording, Writers, Initialize
<1>3. DraftInv'
  <2> SUFFICES ASSUME NEW v \in Writers
               PROVE  DraftOK(v)'
    BY DEF DraftInv
  <2>1. DraftOK(v)
    BY DEF IInv, DraftInv
  <2>2. CASE v = w
    BY <2>1, <2>2 DEF IInv, TypeOK, LockInv, DraftOK, RowInv, RowOK, Recording, Record, Writers, Initialize
  <2>3. CASE v # w
    BY <2>1, <2>3, OthersKeepDraftOK DEF IInv, TypeOK, LockInv, Writers, Initialize
  <2> QED BY <2>2, <2>3
<1>4. SaltInv'
  BY DEF IInv, TypeOK, SaltInv, DraftInv, DraftOK, LockInv, Recording, Writers, Initialize
<1>5. RowInv'
  <2> SUFFICES ASSUME NEW v \in Writers
               PROVE  RowOK(v)'
    BY DEF RowInv
  <2>1. RowOK(v)
    BY DEF IInv, RowInv
  <2>2. CASE v = w
    BY <2>1, <2>2 DEF IInv, TypeOK, LockInv, DraftInv, DraftOK, SaltInv, RowOK, Recording, Seen, Record, Writers, Initialize
  <2>3. CASE v # w
    BY <2>1, <2>3, OthersKeepRowOK DEF IInv, TypeOK, LockInv, DraftInv, DraftOK, RowOK, Writers, Initialize
  <2> QED BY <2>2, <2>3
<1>6. PassInv'
  BY DEF IInv, TypeOK, PassInv, RowInv, RowOK, LockInv, Writers, Initialize
<1> QED BY <1>1, <1>2, <1>3, <1>4, <1>5, <1>6 DEF IInv

\* The step that looks for the salt keeps IInv.
LEMMA ReadSaltKeepsIInv ==
    ASSUME IInv, NEW w \in Writers, ReadSalt(w)
    PROVE  IInv'
<1> USE NoneAssumption, JobTypes
<1>1. TypeOK'
  BY DEF IInv, TypeOK, Stages, ReadSalt, SaltKnown
<1>2. LockInv'
  BY DEF IInv, TypeOK, LockInv, RowInv, RowOK, Recording, Writers, ReadSalt, SaltKnown
<1>3. DraftInv'
  <2> SUFFICES ASSUME NEW v \in Writers
               PROVE  DraftOK(v)'
    BY DEF DraftInv
  <2>1. DraftOK(v)
    BY DEF IInv, DraftInv
  <2>2. CASE v = w
    BY <2>1, <2>2 DEF IInv, TypeOK, LockInv, DraftOK, RowInv, RowOK, Recording, Record, Writers, ReadSalt, SaltKnown
  <2>3. CASE v # w
    BY <2>1, <2>3, OthersKeepDraftOK DEF IInv, TypeOK, LockInv, Writers, ReadSalt, SaltKnown
  <2> QED BY <2>2, <2>3
<1>4. SaltInv'
  BY DEF IInv, TypeOK, SaltInv, DraftInv, DraftOK, LockInv, Recording, Writers, ReadSalt, SaltKnown
<1>5. RowInv'
  <2> SUFFICES ASSUME NEW v \in Writers
               PROVE  RowOK(v)'
    BY DEF RowInv
  <2>1. RowOK(v)
    BY DEF IInv, RowInv
  <2>2. CASE v = w
    <3>1. /\ stage[w] = "salt" /\ stage'[w] \in {"row", "salting"}
          /\ at[w] = 1 /\ at' = at /\ job' = job
      BY <2>1, <2>2 DEF IInv, TypeOK, RowOK, ReadSalt, Writers
    <3>2. \A k \in 1 .. Len(job[w]) : ~(k < at'[w])
      BY <3>1
    <3>3. at'[w] <= Len(job'[w]) + 1
      BY <2>1, <2>2, <3>1 DEF RowOK
    <3> QED BY <2>2, <3>1, <3>2, <3>3 DEF RowOK, Recording
  <2>3. CASE v # w
    BY <2>1, <2>3, OthersKeepRowOK DEF IInv, TypeOK, LockInv, DraftInv, DraftOK, RowOK, Writers, ReadSalt, SaltKnown
  <2> QED BY <2>2, <2>3
<1>6. PassInv'
  BY DEF IInv, TypeOK, PassInv, RowInv, RowOK, LockInv, Writers, ReadSalt, SaltKnown
<1> QED BY <1>1, <1>2, <1>3, <1>4, <1>5, <1>6 DEF IInv

\* The step that inserts a salt, unless another writer has, keeps IInv.
LEMMA InsertSaltKeepsIInv ==
    ASSUME IInv, NEW w \in Writers, InsertSalt(w)
    PROVE  IInv'
<1> USE NoneAssumption, JobTypes
<1>1. TypeOK'
  BY DEF IInv, TypeOK, Stages, InsertSalt, SaltTaken
<1>2. LockInv'
  BY DEF IInv, TypeOK, LockInv, RowInv, RowOK, Recording, Writers, InsertSalt, SaltTaken
<1>3. DraftInv'
  <2> SUFFICES ASSUME NEW v \in Writers
               PROVE  DraftOK(v)'
    BY DEF DraftInv
  <2>1. DraftOK(v)
    BY DEF IInv, DraftInv
  <2>2. CASE v = w
    BY <2>1, <2>2 DEF IInv, TypeOK, LockInv, DraftOK, RowInv, RowOK, Recording, Record, Writers, InsertSalt, SaltTaken
  <2>3. CASE v # w
    BY <2>1, <2>3, OthersKeepDraftOK DEF IInv, TypeOK, LockInv, Writers, InsertSalt, SaltTaken
  <2> QED BY <2>2, <2>3
<1>4. SaltInv'
  BY DEF IInv, TypeOK, SaltInv, DraftInv, DraftOK, LockInv, Recording, Writers, InsertSalt, SaltTaken
<1>5. RowInv'
  <2> SUFFICES ASSUME NEW v \in Writers
               PROVE  RowOK(v)'
    BY DEF RowInv
  <2>1. RowOK(v)
    BY DEF IInv, RowInv
  <2>2. CASE v = w
    BY <2>1, <2>2 DEF IInv, TypeOK, LockInv, DraftInv, DraftOK, SaltInv, RowOK, Recording, Seen, Record, Writers, InsertSalt, SaltTaken
  <2>3. CASE v # w
    BY <2>1, <2>3, OthersKeepRowOK DEF IInv, TypeOK, LockInv, DraftInv, DraftOK, RowOK, Writers, InsertSalt, SaltTaken
  <2> QED BY <2>2, <2>3
<1>6. PassInv'
  BY DEF IInv, TypeOK, PassInv, RowInv, RowOK, LockInv, Writers, InsertSalt, SaltTaken
<1> QED BY <1>1, <1>2, <1>3, <1>4, <1>5, <1>6 DEF IInv

\* The steps that end a pass keep IInv.
LEMMA SealKeepsIInv ==
    ASSUME IInv, NEW w \in Writers, Seal(w)
    PROVE  IInv'
<1> USE NoneAssumption, JobTypes
<1>1. TypeOK'
  BY DEF IInv, TypeOK, Stages, Seal, Unwritten, InTransaction
<1>2. LockInv'
  BY DEF IInv, TypeOK, LockInv, RowInv, RowOK, Recording, Writers, Seal, Unwritten, InTransaction
<1>3. DraftInv'
  <2> SUFFICES ASSUME NEW v \in Writers
               PROVE  DraftOK(v)'
    BY DEF DraftInv
  <2>1. DraftOK(v)
    BY DEF IInv, DraftInv
  <2>2. CASE v = w
    BY <2>1, <2>2 DEF IInv, TypeOK, LockInv, DraftOK, RowInv, RowOK, Recording, Record, Writers, Seal, Unwritten, InTransaction
  <2>3. CASE v # w
    BY <2>1, <2>3, OthersKeepDraftOK DEF IInv, TypeOK, LockInv, Writers, Seal, Unwritten, InTransaction
  <2> QED BY <2>2, <2>3
<1>4. SaltInv'
  BY DEF IInv, TypeOK, SaltInv, DraftInv, DraftOK, LockInv, Recording, Writers, Seal, Unwritten, InTransaction
<1>5. RowInv'
  <2> SUFFICES ASSUME NEW v \in Writers
               PROVE  RowOK(v)'
    BY DEF RowInv
  <2>1. RowOK(v)
    BY DEF IInv, RowInv
  <2>2. UNCHANGED <<stage, at, job, draft, table>>
    BY DEF Seal
  <2> QED BY <2>1, <2>2, OthersKeepRowOK DEF IInv
<1>6. PassInv'
  BY DEF IInv, TypeOK, PassInv, RowInv, RowOK, LockInv, Writers, Seal, Unwritten, InTransaction
<1> QED BY <1>1, <1>2, <1>3, <1>4, <1>5, <1>6 DEF IInv

\* A SELECT that finds no row moves the process to its INSERT, one that
\* finds the row moves it to the next.
LEMMA LookupKeepsIInv ==
    ASSUME IInv, NEW w \in Writers, Lookup(w)
    PROVE  IInv'
<1> USE NoneAssumption, JobTypes
<1>t. \A v \in Writers : Len(job[v]) \in Nat /\ at[v] \in Nat \ {0}
  BY DEF IInv
<1>a. /\ stage[w] = "row" /\ at[w] <= Len(job[w]) /\ Record(w).valid
      /\ readers' = IF w \in Passes THEN readers \cup {w} ELSE readers
      /\ UNCHANGED <<table, salt, job, own, draft, result, writer, pending>>
  BY DEF Lookup, AtRow, InTransaction
<1>b. \A v \in Writers : v # w => stage'[v] = stage[v] /\ at'[v] = at[v]
  BY DEF Lookup, IInv, TypeOK
<1>c. \/ /\ Seen(w, Record(w).id) = None
         /\ stage' = [stage EXCEPT ![w] = "insert"]
         /\ at' = at
      \/ /\ Seen(w, Record(w).id) # None
         /\ Seen(w, Record(w).id).content = Record(w).content
         /\ at' = [at EXCEPT ![w] = @ + 1]
         /\ stage' = stage
  BY DEF Lookup, Visible, Seen, IsReplay, StoredRow
<1>d. at'[w] \in {at[w], at[w] + 1} /\ stage'[w] \in {"row", "insert"}
  BY <1>a, <1>c DEF IInv, TypeOK
<1>1. TypeOK'
  <2>1. at' \in [Writers -> Nat \ {0}] /\ stage' \in [Writers -> Stages]
    <3>1. at[w] + 1 \in Nat \ {0}
      BY <1>t
    <3>2. at' \in [Writers -> Nat \ {0}]
      BY <1>c, <3>1 DEF IInv, TypeOK
    <3>3. stage' \in [Writers -> Stages]
      BY <1>c DEF IInv, TypeOK, Stages
    <3> QED BY <3>2, <3>3
  <2>2. readers' \subseteq Passes
    BY <1>a DEF IInv, TypeOK
  <2>3. own[w] # None
    BY <1>a DEF IInv, TypeOK
  <2> QED BY <1>a, <1>b, <2>1, <2>2, <2>3 DEF IInv, TypeOK
<1>2. LockInv'
  BY <1>a, <1>b, <1>c DEF IInv, TypeOK, LockInv, Recording, Writers
<1>3. DraftInv'
  <2> SUFFICES ASSUME NEW v \in Writers
               PROVE  DraftOK(v)'
    BY DEF DraftInv
  <2>1. DraftOK(v)
    BY DEF IInv, DraftInv
  <2>2. CASE v = w
    <3>1. w \notin Passes => \A id \in Ids : draft[w][id] = None
      BY <2>1, <2>2, <1>a DEF DraftOK
    <3>2. stage'[w] \in {"row", "insert"}
      BY <1>d
    <3>3. \A k \in 1 .. Len(job[w]) : k < at[w] => k < at'[w]
      BY <1>d, <1>t
    <3>4. CASE w \notin Passes
      <4>1. writer # w
        BY <1>a, <3>4 DEF IInv, LockInv, TypeOK
      <4> QED BY <1>a, <2>2, <3>1, <3>4, <4>1 DEF DraftOK
    <3>5. CASE w \in Passes
      BY <1>a, <2>1, <2>2, <3>2, <3>3, <3>5 DEF DraftOK, Recording
    <3> QED BY <3>4, <3>5
  <2>3. CASE v # w
    BY <1>a, <1>b, <2>1, <2>3, OthersKeepDraftOK
  <2> QED BY <2>2, <2>3
<1>4. SaltInv'
  BY <1>a, <1>b, <1>c DEF IInv, TypeOK, SaltInv, Recording
<1>5. RowInv'
  <2> SUFFICES ASSUME NEW v \in Writers
               PROVE  RowOK(v)'
    BY DEF RowInv
  <2>1. RowOK(v)
    BY DEF IInv, RowInv
  <2>2. CASE v = w
    <3>1. CASE stage' = [stage EXCEPT ![w] = "insert"] /\ at' = at
               /\ Seen(w, Record(w).id) = None
      BY <1>a, <2>1, <2>2, <3>1 DEF IInv, TypeOK, RowOK, Recording, Seen, Record
    <3>2. CASE at' = [at EXCEPT ![w] = @ + 1] /\ stage' = stage
               /\ Seen(w, Record(w).id) # None
               /\ Seen(w, Record(w).id).content = Record(w).content
      <4>1. at'[w] = at[w] + 1 /\ stage'[w] = "row"
        BY <1>a, <3>2 DEF IInv, TypeOK
      <4>2. \A k \in 1 .. Len(job[w]) : k < at[w] + 1 => k < at[w] \/ k = at[w]
        BY <1>t
      <4>3. \A id \in Ids : Seen(w, id)' = Seen(w, id)
        BY <1>a DEF Seen
      <4> QED BY <1>a, <1>t, <2>1, <2>2, <3>2, <4>1, <4>2, <4>3
              DEF IInv, RowOK, Recording, Record
    <3> QED BY <1>c, <3>1, <3>2
  <2>3. CASE v # w
    BY <1>a, <1>b, <2>1, <2>3, OthersKeepRowOK DEF IInv
  <2> QED BY <2>2, <2>3
<1>6. PassInv'
  BY <1>a, <1>b, <1>t DEF IInv, PassInv, Writers
<1> QED BY <1>1, <1>2, <1>3, <1>4, <1>5, <1>6 DEF IInv

\* An INSERT puts the row into the draft of the process that now has the
\* lock; it is not in the table.
LEMMA InsertKeepsIInv ==
    ASSUME IInv, NEW w \in Writers, Insert(w)
    PROVE  IInv'
<1> USE NoneAssumption, JobTypes
<1> DEFINE id0 == Record(w).id
<1>t. \A v \in Writers : Len(job[v]) \in Nat /\ at[v] \in Nat \ {0}
  BY DEF IInv
<1>a. /\ stage[w] = "insert" /\ at[w] \in 1 .. Len(job[w]) /\ Record(w).valid
      /\ id0 \in Ids /\ Record(w).content \in Contents
      /\ table[id0] = None
      /\ own[w] \in Writers
      /\ UNCHANGED <<table, salt, job, own, result, readers, pending>>
      /\ writer' = w
  BY DEF Insert, IInv, TypeOK, RowInv, RowOK, Record
<1>b. /\ StoredRow(w) \in Stored
      /\ StoredRow(w).content = Record(w).content
      /\ StoredRow(w).by = w
      /\ StoredRow(w).salt = IF id0 \in EventIds THEN own[w] ELSE None
      /\ StoredRow(w) # None
  <2>1. StoredRow(w) \in Stored
    BY <1>a DEF StoredRow, Stored
  <2>2. StoredRow(w) # None
    BY <2>1
  <2> QED BY <2>1, <2>2 DEF StoredRow
<1>c. /\ draft' \in [Writers -> [Ids -> Stored \cup {None}]]
      /\ \A v \in Writers : v # w => draft'[v] = draft[v]
      /\ \A id \in Ids : id # id0 => draft'[w][id] = draft[w][id]
      /\ draft'[w][id0] = StoredRow(w)
  BY <1>a, <1>b DEF Insert, IInv, TypeOK
<1>d. writer = None \/ (writer = w /\ w \in Passes)
  BY DEF Insert, InTransaction
<1>e. \A v \in Writers : v # w => stage'[v] = stage[v] /\ at'[v] = at[v]
  BY DEF Insert, IInv, TypeOK
<1>f. /\ w \in Passes => stage' = [stage EXCEPT ![w] = "row"]
                        /\ at' = [at EXCEPT ![w] = @ + 1]
      /\ w \notin Passes => UNCHANGED <<stage, at>>
  BY DEF Insert, InTransaction
<1> HIDE DEF id0
<1>1. TypeOK'
  <2>1. stage' \in [Writers -> Stages] /\ at' \in [Writers -> Nat \ {0}]
    <3>1. CASE w \in Passes
      <4>1. at[w] + 1 \in Nat \ {0}
        BY <1>t
      <4>2. at' \in [Writers -> Nat \ {0}]
        BY <1>f, <3>1, <4>1 DEF IInv, TypeOK
      <4>3. stage' \in [Writers -> Stages]
        BY <1>f, <3>1 DEF IInv, TypeOK, Stages
      <4> QED BY <4>2, <4>3
    <3>2. CASE w \notin Passes
      BY <1>f, <3>2 DEF IInv, TypeOK
    <3> QED BY <3>1, <3>2
  <2> QED BY <1>a, <1>c, <1>e, <2>1 DEF IInv, TypeOK
<1>2. LockInv'
  <2>1. pending = FALSE
    BY <1>a, <1>d DEF IInv, TypeOK, LockInv
  <2>2. stage'[w] \in {"row", "insert"} /\ (stage'[w] = "row" => w \in readers)
        /\ (w \in Passes => stage'[w] = "row")
    BY <1>a, <1>f DEF IInv, TypeOK, LockInv
  <2> QED BY <1>a, <1>d, <1>e, <2>1, <2>2, ZenonT(30) DEF IInv, TypeOK, LockInv, Recording, Writers
<1>3. DraftInv'
  <2> SUFFICES ASSUME NEW v \in Writers
               PROVE  DraftOK(v)'
    BY DEF DraftInv
  <2>1. DraftOK(v)
    BY DEF IInv, DraftInv
  <2>2. CASE v = w
    <3>1. CASE w \in Passes
      <4>1. at'[w] = at[w] + 1 /\ stage'[w] = "row"
        BY <1>f, <3>1 DEF IInv, TypeOK
      <4>2. \A k \in 1 .. Len(job[w]) : k < at[w] => k < at'[w]
        BY <1>t, <4>1
      <4>3. at[w] \in 1 .. Len(job[w]) /\ at[w] < at'[w] /\ job[w][at[w]] = Record(w)
        BY <1>a, <1>t, <4>1 DEF Record
      <4> SUFFICES ASSUME NEW id \in Ids, draft'[w][id] # None
                   PROVE  /\ table[id] = None
                          /\ draft'[w][id].by = w
                          /\ draft'[w][id].salt = IF id \in EventIds THEN own[w]
                                                  ELSE None
                          /\ \E k \in 1 .. Len(job[w]) :
                                /\ k < at'[w]
                                /\ job[w][k].id = id
                                /\ job[w][k].content = draft'[w][id].content
        BY <1>a, <2>2, <3>1, <4>1 DEF DraftOK, Recording
      <4>4. CASE id = id0
        BY <1>a, <1>b, <1>c, <4>3, <4>4 DEF id0
      <4>5. CASE id # id0
        BY <1>c, <2>1, <2>2, <3>1, <4>2, <4>5 DEF DraftOK
      <4> QED BY <4>4, <4>5
    <3>2. CASE w \notin Passes
      BY <1>a, <1>b, <1>c, <1>d, <1>f, <2>1, <2>2, <3>2
      DEF IInv, TypeOK, DraftOK, Recording, Record, id0
    <3> QED BY <3>1, <3>2
  <2>3. CASE v # w
    BY <1>a, <1>c, <1>d, <1>e, <2>1, <2>3, OthersKeepDraftOK
  <2> QED BY <2>2, <2>3
<1>4. SaltInv'
  BY <1>a, <1>e, <1>f DEF IInv, TypeOK, SaltInv, Recording
<1>5. RowInv'
  <2> SUFFICES ASSUME NEW v \in Writers
               PROVE  RowOK(v)'
    BY DEF RowInv
  <2>1. RowOK(v)
    BY DEF IInv, RowInv
  <2>2. CASE v = w
    <3> DEFINE After(id) == IF draft'[w][id] # None THEN draft'[w][id] ELSE table[id]
    <3>1. \A id \in Ids : id # id0 => After(id) = Seen(w, id)
      BY <1>c DEF Seen
    <3>2. After(id0) # None /\ After(id0).content = Record(w).content
      <4>1. draft'[w][id0] # None
        BY <1>b, <1>c
      <4> QED BY <1>b, <1>c, <4>1
    <3>3. \A k \in 1 .. Len(job[w]) : k < at[w] =>
            /\ job[w][k].valid
            /\ After(job[w][k].id) # None
            /\ After(job[w][k].id).content = job[w][k].content
      <4> SUFFICES ASSUME NEW k \in 1 .. Len(job[w]), k < at[w]
                   PROVE  /\ job[w][k].valid
                          /\ After(job[w][k].id) # None
                          /\ After(job[w][k].id).content = job[w][k].content
        OBVIOUS
      <4>1. /\ job[w][k].valid
            /\ Seen(w, job[w][k].id) # None
            /\ Seen(w, job[w][k].id).content = job[w][k].content
            /\ job[w][k].id \in Ids
        BY <1>a, <2>1, <2>2 DEF RowOK, Recording, IInv
      <4>2. CASE job[w][k].id # id0
        <5>1. After(job[w][k].id) = Seen(w, job[w][k].id)
          BY <3>1, <4>1, <4>2
        <5> QED BY <4>1, <5>1
      <4>3. job[w][k].id # id0
        <5>1. CASE w \in Passes
          BY <1>a, <4>1, <5>1, <2>1, <2>2 DEF RowOK, id0
        <5>2. CASE w \notin Passes
          BY <1>a, <1>d, <4>1, <5>2, DraftsAreLocked DEF Seen, IInv
        <5> QED BY <5>1, <5>2
      <4> QED BY <4>2, <4>3
    <3> QED
      <4>1. CASE w \in Passes
        <5>1. at'[w] = at[w] + 1 /\ stage'[w] = "row"
          BY <1>f, <4>1 DEF IInv, TypeOK
        <5>2. \A k \in 1 .. Len(job[w]) : k < at[w] + 1 => k < at[w] \/ k = at[w]
          BY <1>t
        <5>3. /\ job[w][at[w]].valid /\ After(job[w][at[w]].id) # None
              /\ After(job[w][at[w]].id).content = job[w][at[w]].content
          BY <1>a, <3>2 DEF id0, Record
        <5>4. \A k \in 1 .. Len(job[w]) : k < at'[w] =>
                 /\ job[w][k].valid
                 /\ After(job[w][k].id) # None
                 /\ After(job[w][k].id).content = job[w][k].content
          BY <3>3, <5>1, <5>2, <5>3
        <5>5. at'[w] <= Len(job[w]) + 1
          BY <1>a, <1>t, <5>1
        <5> QED BY <1>a, <2>2, <5>1, <5>4, <5>5 DEF RowOK, Recording, Seen
      <4>2. CASE w \notin Passes
        <5>1. at'[w] = at[w] /\ stage'[w] = stage[w] /\ stage[w] = "insert"
          BY <1>a, <1>f, <4>2
        <5>2. /\ at'[w] <= Len(job[w]) + 1
              /\ at'[w] <= Len(job[w]) /\ Record(w)'.valid
          BY <1>a, <2>1, <2>2, <5>1 DEF RowOK, Record
        <5> QED BY <1>a, <2>2, <3>3, <4>2, <5>1, <5>2 DEF RowOK, Recording, Seen
      <4> QED BY <4>1, <4>2
  <2>3. CASE v # w
    BY <1>a, <1>c, <1>e, <2>1, <2>3, OthersKeepRowOK DEF IInv
  <2> QED BY <2>2, <2>3
<1>6. PassInv'
  BY <1>a, <1>e DEF IInv, PassInv, Writers
<1> QED BY <1>1, <1>2, <1>3, <1>4, <1>5, <1>6 DEF IInv

\* A writer that returns keeps IInv.
LEMMA ReturnKeepsIInv ==
    ASSUME IInv, NEW w \in Writers, Return(w)
    PROVE  IInv'
<1> USE NoneAssumption, JobTypes
<1>1. TypeOK'
  BY DEF IInv, TypeOK, Stages, Return, Failures
<1>2. LockInv'
  BY DEF IInv, TypeOK, LockInv, RowInv, RowOK, Recording, Writers, Return, Failures
<1>3. DraftInv'
  <2> SUFFICES ASSUME NEW v \in Writers
               PROVE  DraftOK(v)'
    BY DEF DraftInv
  <2>1. DraftOK(v)
    BY DEF IInv, DraftInv
  <2>2. CASE v = w
    BY <2>1, <2>2 DEF IInv, TypeOK, LockInv, DraftOK, RowInv, RowOK, Recording, Record, Writers, Return, Failures
  <2>3. CASE v # w
    BY <2>1, <2>3, OthersKeepDraftOK DEF IInv, TypeOK, LockInv, Writers, Return, Failures
  <2> QED BY <2>2, <2>3
<1>4. SaltInv'
  BY DEF IInv, TypeOK, SaltInv, DraftInv, DraftOK, LockInv, Recording, Writers, Return, Failures
<1>5. RowInv'
  <2> SUFFICES ASSUME NEW v \in Writers
               PROVE  RowOK(v)'
    BY DEF RowInv
  <2>1. RowOK(v)
    BY DEF IInv, RowInv
  <2>2. CASE v = w
    BY <2>1, <2>2 DEF IInv, TypeOK, LockInv, DraftInv, DraftOK, SaltInv, RowOK, Recording, Seen, Record, Writers, Return, Failures
  <2>3. CASE v # w
    BY <2>1, <2>3, OthersKeepRowOK DEF IInv, TypeOK, LockInv, DraftInv, DraftOK, RowOK, Writers, Return, Failures
  <2> QED BY <2>2, <2>3
<1>6. PassInv'
  BY DEF IInv, TypeOK, PassInv, RowInv, RowOK, LockInv, Writers, Return, Failures
<1> QED BY <1>1, <1>2, <1>3, <1>4, <1>5, <1>6 DEF IInv

\* COMMIT: the draft, whose keys were free, is in the table; no transaction
\* has read it.
LEMMA CommitKeepsIInv ==
    ASSUME IInv, NEW w \in Writers, Commit(w)
    PROVE  IInv'
<1> USE NoneAssumption, JobTypes
<1>t. \A v \in Writers : Len(job[v]) \in Nat /\ at[v] \in Nat \ {0}
  BY DEF IInv
<1>a. /\ writer = w /\ pending /\ readers \subseteq {w}
      /\ table' = [id \in Ids |-> IF draft[w][id] # None THEN draft[w][id]
                                  ELSE table[id]]
      /\ salt' = IF stage[w] = "salting" THEN own[w] ELSE salt
      /\ draft' = [draft EXCEPT ![w] = NoRows]
      /\ readers' = readers \ {w}
      /\ writer' = None /\ pending' = FALSE
      /\ UNCHANGED <<job, own, result>>
  BY DEF Commit, Rollback
<1>b. /\ \A v \in Writers : v # w => stage'[v] = stage[v] /\ at'[v] = at[v]
      /\ stage'[w] = IF stage[w] = "schema" THEN "salt" ELSE "row"
      /\ at'[w] = IF stage[w] = "insert" THEN at[w] + 1 ELSE at[w]
      /\ at' \in [Writers -> Nat \ {0}] /\ stage' \in [Writers -> Stages]
  BY DEF Commit, StageAfterCommit, IInv, TypeOK, Stages
<1>c. /\ stage[w] \in {"schema", "salting", "row", "insert"}
      /\ stage[w] = "row" => w \in Passes /\ at[w] > Len(job[w])
      /\ stage[w] = "insert" => w \notin Passes
      /\ result[w] = "none"
  BY <1>a DEF IInv, TypeOK, LockInv
<1>d. /\ \A id \in Ids : draft[w][id] = None => table'[id] = table[id]
      /\ \A id \in Ids : draft[w][id] # None => table'[id] = draft[w][id] /\ table[id] = None
      /\ \A id \in Ids : table[id] # None => table'[id] = table[id]
  BY <1>a DEF IInv, DraftInv, DraftOK
<1>e. \A v \in Writers : v # w => draft'[v] = draft[v] /\ \A id \in Ids : draft[v][id] = None
  BY <1>a, DraftsAreLocked DEF IInv, TypeOK
<1>f. \A id \in Ids : draft'[w][id] = None
  BY <1>a DEF IInv, TypeOK, NoRows
<1>1. TypeOK'
  <2>1. /\ table' \in [Ids -> Stored \cup {None}]
        /\ draft' \in [Writers -> [Ids -> Stored \cup {None}]]
    BY <1>a DEF IInv, TypeOK, NoRows
  <2>2. stage'[w] = "row" => own[w] # None
    BY <1>a, <1>b, <1>c DEF IInv, TypeOK, SaltInv, Writers
  <2>3. salt' \in Writers \cup {None}
    BY <1>a DEF IInv, TypeOK
  <2>4. \A v \in Writers : stage'[v] \in {"row", "insert"} => own[v] # None
    BY <1>b, <2>2 DEF IInv, TypeOK
  <2> QED BY <1>a, <1>b, <2>1, <2>3, <2>4 DEF IInv, TypeOK
<1>2. LockInv'
  <2>1. \A v \in Passes : stage[v] = "insert" => v \notin Writers \ {w}
    BY <1>a DEF IInv, LockInv
  <2>2. readers' = {}
    BY <1>a
  <2>3. \A v \in Writers : writer' # v
    BY <1>a DEF Writers
  <2>4. \A v \in Passes : stage'[v] # "insert"
    BY <1>b, <1>c, <2>1 DEF Writers
  <2> QED BY <1>a, <1>b, <1>c, <2>2, <2>3, <2>4 DEF IInv, LockInv
<1>3. DraftInv'
  <2>1. \A v \in Writers, id \in Ids : draft'[v][id] = None
    BY <1>e, <1>f
  <2>2. \A v \in Writers : writer' # v
    BY <1>a DEF Writers
  <2> QED BY <2>1, <2>2 DEF DraftInv, DraftOK
<1>4. SaltInv'
  <2>1. CASE stage[w] = "salting"
    <3>1. \A id \in Ids : draft[w][id] = None
      BY <2>1 DEF IInv, DraftInv, DraftOK, Recording
    <3>2. salt = None /\ own[w] = w /\ salt' = w /\ \A id \in Ids : table[id] = None
      BY <1>a, <2>1 DEF IInv, SaltInv
    <3>3. \A v \in Writers : ~Recording(v)
      BY <3>2 DEF IInv, SaltInv
    <3>4. \A id \in Ids : table'[id] = None
      BY <1>d, <3>1, <3>2
    <3>5. \A v \in Writers : stage'[v] = "salting" => writer' # v
      BY <1>a DEF Writers
    <3>6. \A v \in Writers : v # w => ~Recording(v)'
      BY <1>b, <3>3 DEF Recording
    <3> QED BY <1>a, <3>2, <3>4, <3>5, <3>6 DEF SaltInv, Writers
  <2>2. CASE stage[w] # "salting"
    <3>1. salt' = salt
      BY <1>a, <2>2
    <3>2. \A v \in Writers : Recording(v)' => Recording(v)
      BY <1>b, <1>c, <2>2 DEF Recording
    <3>3. \A id \in Ids : table'[id] # None =>
             /\ salt # None
             /\ table'[id].salt = IF id \in EventIds THEN salt ELSE None
      <4> SUFFICES ASSUME NEW id \in Ids, table'[id] # None
                   PROVE  /\ salt # None
                          /\ table'[id].salt = IF id \in EventIds THEN salt ELSE None
        OBVIOUS
      <4>1. CASE draft[w][id] = None
        BY <1>d, <4>1 DEF IInv, SaltInv
      <4>2. CASE draft[w][id] # None
        BY <1>d, <4>2 DEF IInv, SaltInv, DraftInv, DraftOK
      <4> QED BY <4>1, <4>2
    <3> QED BY <1>a, <3>1, <3>2, <3>3 DEF IInv, SaltInv, Writers
  <2> QED BY <2>1, <2>2
<1>5. RowInv'
  <2> SUFFICES ASSUME NEW v \in Writers
               PROVE  RowOK(v)'
    BY DEF RowInv
  <2>1. RowOK(v)
    BY DEF IInv, RowInv
  <2>2. CASE v = w
    <3>1. \A id \in Ids : Seen(w, id)' = Seen(w, id)
      BY <1>d, <1>f DEF Seen
    <3>2. CASE stage[w] = "schema"
      BY <1>a, <1>b, <2>1, <2>2, <3>2 DEF RowOK, Recording
    <3>3. CASE stage[w] = "salting"
      BY <1>a, <1>b, <2>1, <2>2, <3>3 DEF RowOK, Recording, IInv
    <3>4. CASE stage[w] = "row"
      BY <1>a, <1>b, <2>1, <2>2, <3>1, <3>4 DEF RowOK, Recording, IInv
    <3>5. CASE stage[w] = "insert"
      <4>1. /\ at[w] \in 1 .. Len(job[w]) /\ Record(w) = job[w][at[w]]
            /\ Record(w).valid
        BY <2>1, <2>2, <3>5 DEF RowOK, Record, IInv
      <4>2. /\ Seen(w, Record(w).id) # None
            /\ Seen(w, Record(w).id).content = Record(w).content
        <5>1. Record(w).id \in Ids
          BY <4>1 DEF IInv
        <5>2. /\ draft[w][Record(w).id] # None
              /\ draft[w][Record(w).id].content = Record(w).content
          BY <1>a, <1>c, <3>5, <5>1 DEF IInv, DraftInv, DraftOK
        <5> QED BY <5>2 DEF Seen
      <4> QED BY <1>a, <1>b, <2>1, <2>2, <3>1, <3>5, <4>1, <4>2
              DEF RowOK, Recording, IInv
    <3> QED BY <1>c, <3>2, <3>3, <3>4, <3>5
  <2>3. CASE v # w
    <3>1. v \in Passes => stage[v] # "insert"
      BY <1>a, <2>3 DEF IInv, LockInv
    <3> QED BY <1>a, <1>b, <1>d, <1>e, <2>1, <2>3, <3>1, OthersKeepRowOK DEF IInv
  <2> QED BY <2>2, <2>3
<1>6. PassInv'
  <2> SUFFICES ASSUME NEW v \in Passes, NEW id \in Ids,
                      table'[id] # None, table'[id].by = v
               PROVE  /\ at'[v] > Len(job[v])
                      /\ stage'[v] \in {"row", "done"}
                      /\ writer' # v
                      /\ result[v] \in {"none", "ok", "killed"}
                      /\ \A k \in 1 .. Len(job[v]) : table'[job[v][k].id] # None
    BY <1>a DEF PassInv
  <2>1. CASE table[id] # None
    <3>1. /\ at[v] > Len(job[v])
          /\ stage[v] \in {"row", "done"}
          /\ writer # v
          /\ result[v] \in {"none", "ok", "killed"}
          /\ \A k \in 1 .. Len(job[v]) : table[job[v][k].id] # None
      BY <1>d, <2>1 DEF IInv, PassInv
    <3>2. \A k \in 1 .. Len(job[v]) : job[v][k].id \in Ids
      BY DEF IInv, Writers
    <3> QED BY <1>a, <1>b, <1>d, <3>1, <3>2 DEF Writers
  <2>2. CASE table[id] = None
    <3>1. draft[w][id] # None /\ table'[id] = draft[w][id]
      BY <1>d, <2>2
    <3>2. v = w /\ Recording(w)
      BY <3>1 DEF IInv, DraftInv, DraftOK
    <3>3. stage[w] = "row" /\ at[w] > Len(job[w])
      BY <1>c, <3>2 DEF Recording
    <3>4. \A k \in 1 .. Len(job[w]) :
             job[w][k].id \in Ids /\ Seen(w, job[w][k].id) # None
      BY <1>t, <3>2, <3>3 DEF IInv, RowInv, RowOK
    <3>5. \A k \in 1 .. Len(job[w]) : table'[job[w][k].id] # None
      BY <1>d, <3>4 DEF Seen
    <3>6. at'[w] = at[w] /\ stage'[w] = "row" /\ writer' # w /\ result[w] = "none"
      BY <1>a, <1>b, <1>c, <3>3 DEF Writers
    <3> QED BY <3>2, <3>3, <3>5, <3>6
  <2> QED BY <2>1, <2>2
<1> QED BY <1>1, <1>2, <1>3, <1>4, <1>5, <1>6 DEF IInv

-----------------------------------------------------------------------------
(* The invariant *)

\* A process can fail only before it has committed what it was asked to.
LEMMA FailingKeepsIInv ==
    ASSUME IInv, NEW w \in Writers,
           \/ SaltRefused(w) \/ Reject(w) \/ Conflict(w) \/ KeyTaken(w)
           \/ Busy(w) \/ GiveUp(w) \/ Killed(w)
    PROVE  IInv'
<1>1. ASSUME NEW why \in Failures, Fail(w, why), stage[w] # "done",
             stage[w] # "row" \/ at[w] <= Len(job[w]) \/ writer = w
      PROVE  IInv'
  BY <1>1, LeavingKeepsIInv DEF Fail, Leave
<1>2. CASE SaltRefused(w)
  BY <1>1, <1>2 DEF SaltRefused, Failures
<1>3. CASE Reject(w)
  BY <1>1, <1>3 DEF Reject, AtRow, Failures
<1>4. CASE Conflict(w)
  BY <1>1, <1>4 DEF Conflict, AtRow, Failures
<1>5. CASE KeyTaken(w)
  BY <1>1, <1>5 DEF KeyTaken, Failures
<1>6. CASE Busy(w)
  BY <1>1, <1>6 DEF Busy, Failures
<1>7. CASE GiveUp(w)
  <2>1. stage[w] # "done" /\ (stage[w] # "row" \/ at[w] <= Len(job[w]) \/ writer = w)
    BY <1>7 DEF GiveUp, Waiting, AtRow, IInv, LockInv
  <2> QED BY <1>1, <1>7, <2>1 DEF GiveUp, Failures
<1>8. CASE Killed(w)
  BY <1>8, LeavingKeepsIInv DEF Killed, Failures
<1> QED BY <1>2, <1>3, <1>4, <1>5, <1>6, <1>7, <1>8

\* Every step keeps IInv.
LEMMA NextKeepsIInv == IInv /\ [Next]_storeVars => IInv'
<1> SUFFICES ASSUME IInv, [Next]_storeVars PROVE IInv'
  OBVIOUS
<1>1. ASSUME NEW w \in Writers, Step(w) PROVE IInv'
  BY <1>1, InitializeKeepsIInv, ReadSaltKeepsIInv, InsertSaltKeepsIInv, SealKeepsIInv,
     LookupKeepsIInv, InsertKeepsIInv, ReturnKeepsIInv, CommitKeepsIInv,
     FailingKeepsIInv DEF Step
<1>2. ASSUME NEW w \in Writers, Start(w) \/ GiveUp(w) \/ Killed(w) PROVE IInv'
  BY <1>2, StartKeepsIInv, FailingKeepsIInv
<1>3. CASE UNCHANGED storeVars
  <2>0. UNCHANGED <<table, salt, stage, job, at, own, draft, result, readers, writer, pending>>
    BY <1>3 DEF storeVars
  <2>1. RowInv'
    BY <2>0, OthersKeepRowOK DEF IInv, RowInv
  <2>2. DraftInv'
    BY <2>0, OthersKeepDraftOK DEF IInv, DraftInv
  <2>3. TypeOK' /\ LockInv' /\ SaltInv' /\ PassInv'
    BY <2>0 DEF IInv, TypeOK, LockInv, SaltInv, PassInv, Recording
  <2> QED BY <2>1, <2>2, <2>3 DEF IInv
<1> QED BY <1>1, <1>2, <1>3 DEF Next, Done

\* The locks, drafts, salts and rows of the processes agree at all times.
THEOREM Invariance == Spec => []IInv
<1>1. Init => IInv
  BY InitIInv
<1>2. IInv /\ [Next]_storeVars => IInv'
  BY NextKeepsIInv
<1> QED BY <1>1, <1>2, PTL DEF Spec

\* record_gpu_samples: for any number of passes, hooks and editors, a pass
\* leaves all its rows or none.
THEOREM PassesAreAtomic == Spec => []PassAtomic
<1>1. IInv => PassAtomic
  <2> SUFFICES ASSUME IInv, NEW w \in Passes
               PROVE  /\ WrittenBy(w) # {} =>
                           \A row \in Rows(w) : table[row.id] # None
                      /\ result[w] \in Failures \ {"killed"} => WrittenBy(w) = {}
    BY DEF PassAtomic
  <2>1. \A id \in WrittenBy(w) :
           /\ result[w] \in {"none", "ok", "killed"}
           /\ \A k \in 1 .. Len(job[w]) : table[job[w][k].id] # None
    BY DEF IInv, PassInv, WrittenBy
  <2>2. DOMAIN job[w] = 1 .. Len(job[w])
    BY DEF IInv, TypeOK, Writers
  <2> QED BY <2>1, <2>2 DEF Rows, Failures
<1> QED BY <1>1, Invariance, PTL

\* Every digest is made with the one salt the database keeps.
THEOREM SaltIsUnique == Spec => []OneSalt
<1>1. IInv => OneSalt
  BY DEF IInv, SaltInv, OneSalt, Recording
<1> QED BY <1>1, Invariance, PTL

\* Inside a transaction the check of a key holds until the INSERT.
THEOREM PassesAreIsolated == Spec => []PassIsolated
<1>1. IInv => PassIsolated
  BY DEF IInv, RowInv, RowOK, PassIsolated, Writers, Seen
<1> QED BY <1>1, Invariance, PTL

-----------------------------------------------------------------------------
(* The processes implement the table of module EventLog *)

LogOf == [id \in Ids |-> IF table[id] = None THEN None ELSE table[id].content]

\* An answer is given once, and is true of the table at that moment.
LEMMA AnswersAreTrue ==
    ASSUME NEW w \in Writers, result[w] = "none",
           NEW why \in {"ok"} \cup Failures,
           result' = [result EXCEPT ![w] = why], UNCHANGED <<table, job>>,
           why = "ok" => \A row \in Rows(w) : LogOf[row.id] = row.content,
           why = "conflict" => Log!Disputed(w),
           why = "invalid" => \E row \in Rows(w) : ~row.valid
    PROVE  Log!Answer(w)
BY DEF Log!Answer, Log!InLog, Log!Rows, Rows, LogOf, Failures

\* Every way to fail is an answer of EventLog.
LEMMA FailuresAnswer ==
    ASSUME IInv, NEW w \in Writers,
           \/ SaltRefused(w) \/ Reject(w) \/ Conflict(w) \/ KeyTaken(w)
           \/ Busy(w) \/ GiveUp(w) \/ Killed(w)
    PROVE  Log!Answer(w)
<1> USE NoneAssumption, JobTypes
<1>0. stage[w] # "done" => result[w] = "none"
  BY DEF IInv, LockInv
<1>1. ASSUME NEW why \in Failures \ {"conflict", "invalid"},
             result' = [result EXCEPT ![w] = why], UNCHANGED <<table, job>>,
             stage[w] # "done"
      PROVE  Log!Answer(w)
  BY <1>0, <1>1, AnswersAreTrue DEF Failures
<1>2. CASE Reject(w)
  <2>1. at[w] \in 1 .. Len(job[w])
    BY <1>2 DEF Reject, AtRow, IInv
  <2>2. at[w] \in DOMAIN job[w]
    BY <2>1 DEF IInv, TypeOK
  <2>3. Record(w) \in Rows(w) /\ ~Record(w).valid
    BY <1>2, <2>2 DEF Reject, Rows, Record
  <2> QED BY <1>0, <1>2, <2>3, AnswersAreTrue DEF Reject, AtRow, Fail, Failures
<1>3. CASE Conflict(w)
  <2>1. at[w] \in 1 .. Len(job[w]) /\ at[w] \in DOMAIN job[w]
    BY <1>3 DEF Conflict, AtRow, IInv, TypeOK
  <2>2. Record(w) \in Rows(w) /\ Record(w).id \in Ids
    BY <2>1 DEF Rows, Record, IInv
  <2>3. Visible(w) # None /\ ~IsReplay(w) /\ stage[w] = "row"
    BY <1>3 DEF Conflict, AtRow
  <2>4. Log!Disputed(w)
    <3>1. CASE draft[w][Record(w).id] = None
      <4>1. Visible(w) = table[Record(w).id]
        BY <3>1 DEF Visible
      <4>2. table[Record(w).id].salt = StoredRow(w).salt
        BY <2>2, <2>3, <4>1 DEF IInv, SaltInv, Recording, StoredRow
      <4>3. table[Record(w).id].content # Record(w).content
        BY <2>3, <4>1, <4>2 DEF IsReplay, StoredRow
      <4>4. table[Record(w).id].content # None
        BY <2>2, <2>3, <4>1 DEF IInv, TypeOK, Stored
      <4> QED BY <2>2, <2>3, <4>1, <4>3, <4>4 DEF Log!Disputed, Log!Rows, Rows
    <3>2. CASE draft[w][Record(w).id] # None
      <4>1. Visible(w) = draft[w][Record(w).id]
        BY <3>2 DEF Visible
      <4>2. Visible(w).salt = StoredRow(w).salt /\ w \in Passes
        BY <2>2, <2>3, <3>2, <4>1 DEF IInv, DraftInv, DraftOK, StoredRow
      <4>3. PICK k \in 1 .. Len(job[w]) :
               /\ job[w][k].id = Record(w).id
               /\ job[w][k].content = Visible(w).content
        BY <2>2, <3>2, <4>1, <4>2 DEF IInv, DraftInv, DraftOK
      <4>4. job[w][k] \in Rows(w)
        BY DEF Rows, IInv, TypeOK
      <4>5. job[w][k].content # Record(w).content
        BY <2>3, <4>2, <4>3 DEF IsReplay, StoredRow
      <4> QED BY <2>2, <4>3, <4>4, <4>5 DEF Log!Disputed, Log!Rows, Rows
    <3> QED BY <3>1, <3>2
  <2> QED BY <1>0, <1>3, <2>4, AnswersAreTrue DEF Conflict, AtRow, Fail, Failures
<1>4. CASE GiveUp(w)
  <2>1. stage[w] # "done"
    BY <1>4 DEF GiveUp, Waiting, AtRow, IInv, LockInv
  <2> QED BY <1>1, <1>4, <2>1 DEF GiveUp, Fail, Failures
<1>5. CASE SaltRefused(w) \/ KeyTaken(w) \/ Busy(w)
  BY <1>1, <1>5 DEF SaltRefused, KeyTaken, Busy, Fail, Failures
<1>6. CASE Killed(w)
  BY <1>1, <1>6 DEF Killed, Failures
<1> QED BY <1>2, <1>3, <1>4, <1>5, <1>6

\* A success is an answer of EventLog: every row of the job is in the table.
LEMMA ReturnAnswers ==
    ASSUME IInv, NEW w \in Writers, Return(w)
    PROVE  Log!Answer(w)
<1> USE NoneAssumption, JobTypes
<1>1. \A k \in 1 .. Len(job[w]) :
         /\ job[w][k].id \in Ids /\ job[w][k].content \in Contents
         /\ Seen(w, job[w][k].id) # None
         /\ Seen(w, job[w][k].id).content = job[w][k].content
  BY DEF Return, IInv, RowInv, RowOK, Recording
<1>2. \A k \in 1 .. Len(job[w]) : draft[w][job[w][k].id] = None
  BY <1>1, DraftsAreLocked DEF Return, IInv
<1>3. \A k \in 1 .. Len(job[w]) : LogOf[job[w][k].id] = job[w][k].content
  BY <1>1, <1>2 DEF LogOf, Seen
<1>4. \A row \in Rows(w) : LogOf[row.id] = row.content
  <2>1. DOMAIN job[w] = 1 .. Len(job[w])
    BY DEF IInv, TypeOK
  <2> QED BY <1>3, <2>1 DEF Rows
<1>5. result[w] = "none"
  BY DEF Return, IInv, LockInv
<1> QED BY <1>4, <1>5, AnswersAreTrue DEF Return

\* A commit is a stutter when nothing was drafted, and otherwise appends the
\* row of a process, or all the rows of a pass.
LEMMA CommitAppends ==
    ASSUME IInv, IInv', NEW w \in Writers, Commit(w)
    PROVE  Log!AppendBy(w) \/ UNCHANGED <<LogOf, job, result>>
<1> USE NoneAssumption, JobTypes
<1>a. /\ writer = w /\ pending /\ UNCHANGED <<job, result>>
      /\ table' = [id \in Ids |-> IF draft[w][id] # None THEN draft[w][id]
                                  ELSE table[id]]
  BY DEF Commit
<1>b. /\ stage[w] \in {"schema", "salting", "row", "insert"}
      /\ stage[w] = "row" => w \in Passes /\ at[w] > Len(job[w])
      /\ stage[w] = "insert" => w \notin Passes
      /\ result[w] = "none"
  BY <1>a DEF IInv, TypeOK, LockInv
<1>c. \A id \in Ids : /\ draft[w][id] # None => table[id] = None
                      /\ draft[w][id] = None => LogOf'[id] = LogOf[id]
                      /\ draft[w][id] # None => LogOf'[id] = draft[w][id].content
  BY <1>a DEF LogOf, IInv, DraftInv, DraftOK
<1>d. DOMAIN LogOf = Ids /\ DOMAIN LogOf' = Ids
  BY DEF LogOf
<1>1. CASE stage[w] \in {"schema", "salting"}
  <2>1. \A id \in Ids : draft[w][id] = None
    BY <1>1 DEF IInv, DraftInv, DraftOK, Recording
  <2>2. LogOf' = LogOf
    BY <1>c, <2>1 DEF LogOf
  <2> QED BY <1>a, <2>2
<1>2. ASSUME NEW rows \in SUBSET Rows(w),
             rows \in IF w \in Passes THEN {Rows(w)} ELSE {{row} : row \in Rows(w)},
             \A row \in rows : row.valid /\ LogOf'[row.id] = row.content,
             \A id \in Ids : draft[w][id] # None => \E row \in rows : row.id = id
      PROVE  Log!AppendBy(w)
  <2>1. \A id \in Ids :
           (LogOf[id] # None \/ id \notin {row.id : row \in rows})
             => LogOf'[id] = LogOf[id]
    BY <1>2, <1>c DEF LogOf
  <2> QED BY <1>a, <1>b, <1>d, <1>2, <2>1 DEF Log!AppendBy, Log!InLog, Log!Rows, Rows, LogOf
<1>3. CASE stage[w] = "insert"
  <2>1. at[w] \in 1 .. Len(job[w]) /\ Record(w).valid
    BY <1>3 DEF IInv, RowInv, RowOK
  <2>2. Record(w) \in Rows(w) /\ Record(w).id \in Ids
    BY <2>1 DEF Rows, Record, IInv, TypeOK
  <2>3. /\ draft[w][Record(w).id] # None
        /\ draft[w][Record(w).id].content = Record(w).content
        /\ \A id \in Ids : draft[w][id] # None => id = Record(w).id
    BY <1>a, <1>b, <1>3, <2>2 DEF IInv, DraftInv, DraftOK
  <2>4. LogOf'[Record(w).id] = Record(w).content
    BY <1>c, <2>2, <2>3
  <2>5. /\ {Record(w)} \in SUBSET Rows(w)
        /\ {Record(w)} \in IF w \in Passes THEN {Rows(w)}
                           ELSE {{row} : row \in Rows(w)}
    BY <1>b, <1>3, <2>2
  <2> QED BY <1>2, <2>1, <2>3, <2>4, <2>5
<1>4. CASE stage[w] = "row"
  <2>1. \A k \in 1 .. Len(job[w]) :
           /\ job[w][k].valid /\ job[w][k].id \in Ids
           /\ job[w][k].content \in Contents
           /\ Seen(w, job[w][k].id) # None
           /\ Seen(w, job[w][k].id).content = job[w][k].content
    BY <1>b, <1>4 DEF IInv, RowInv, RowOK, Recording
  <2>2. \A k \in 1 .. Len(job[w]) : LogOf'[job[w][k].id] = job[w][k].content
    BY <1>c, <2>1 DEF Seen, LogOf
  <2>3. \A id \in Ids : draft[w][id] # None =>
           \E k \in 1 .. Len(job[w]) : job[w][k].id = id
    BY <1>b, <1>4 DEF IInv, DraftInv, DraftOK
  <2>4. DOMAIN job[w] = 1 .. Len(job[w])
    BY DEF IInv, TypeOK
  <2>5. \A row \in Rows(w) : row.valid /\ LogOf'[row.id] = row.content
    BY <2>1, <2>2, <2>4 DEF Rows
  <2>6. \A id \in Ids : draft[w][id] # None => \E row \in Rows(w) : row.id = id
    BY <2>3, <2>4 DEF Rows
  <2> QED BY <1>b, <1>2, <1>4, <2>5, <2>6
<1> QED BY <1>b, <1>1, <1>3, <1>4

\* Hooks, passes and editors under SQLite's locks behave like calls of one
\* append-only table.
THEOREM StoreImplementsEventLog == Spec => ImplementsEventLog
<1>1. Init => Log!LogInit
  BY DEF Init, Log!LogInit, NoRows
<1>2. ASSUME IInv, IInv', [Next]_storeVars
      PROVE  [Log!LogNext]_(Log!logVars)
  <2>1. ASSUME NEW w \in Writers, Step(w) \/ Start(w) \/ GiveUp(w) \/ Killed(w)
        PROVE  Log!Answer(w) \/ Log!AppendBy(w) \/ UNCHANGED <<LogOf, job, result>>
    <3>1. CASE Start(w) \/ Initialize(w) \/ ReadSalt(w) \/ InsertSalt(w)
                 \/ Lookup(w) \/ Insert(w) \/ Seal(w)
      BY <3>1 DEF Start, Initialize, ReadSalt, InsertSalt, Lookup, Insert, Seal, LogOf
    <3>2. CASE Commit(w)
      BY <1>2, <3>2, CommitAppends
    <3>3. CASE Return(w)
      BY <1>2, <3>3, ReturnAnswers
    <3>4. CASE \/ SaltRefused(w) \/ Reject(w) \/ Conflict(w) \/ KeyTaken(w)
               \/ Busy(w) \/ GiveUp(w) \/ Killed(w)
      BY <1>2, <3>4, FailuresAnswer
    <3> QED BY <2>1, <3>1, <3>2, <3>3, <3>4 DEF Step
  <2>2. CASE UNCHANGED storeVars
    BY <2>2 DEF storeVars, Log!logVars
  <2>3. UNCHANGED <<LogOf, job, result>> => UNCHANGED Log!logVars
    BY DEF LogOf, Log!logVars
  <2> QED BY <1>2, <2>1, <2>2, <2>3 DEF Next, Done, Log!LogNext
<1> QED BY <1>1, <1>2, Invariance, PTL DEF Spec, ImplementsEventLog, Log!LogSpec

-----------------------------------------------------------------------------
(* Hooks are calls of that table, each with the row of its payload.  What  *)
(* follows is proved from the steps of EventLog, not from those of the     *)
(* processes.                                                              *)

\* What normalize_hook lets through, record_codex_event accepts, whenever it
\* happened or is recorded, if its ids can be encoded.
LEMMA NormalizedIsStorable ==
    ASSUME NEW p, NEW second \in Int, Hook!Field(p, "time") \in Int \cup {None, Bad},
           Hook!Normalizable(p),
           {Hook!Field(p, "session"), Hook!Field(p, "turn")} \cap Unencodable = {}
    PROVE  Hook!Storable(Hook!Content(p, second))
<1> DEFINE kind == Hook!Kind(Hook!Field(p, "kind"))
           source == Hook!Source(p, kind)
<1>1. /\ kind \in Hook!Kinds
      /\ Hook!Phase(p, kind) \in Hook!Phases
      /\ source \in Hook!Sources
      /\ Hook!ToolActive(p, kind) \in BOOLEAN
  BY DEF Hook!Normalizable
<1>2. Hook!Timestamp(p, second) \in Int
  BY DEF Hook!Normalizable, Hook!Timestamp
<1>3. Hook!Confidence(p, source) \in 0 .. 10
  <2>1. Hook!Field(p, "confidence") = None \/ Hook!Field(p, "confidence") \in 0 .. 10
    BY DEF Hook!Normalizable, Hook!ConfidenceInRange
  <2> HIDE DEF source
  <2> QED BY <2>1 DEF Hook!Confidence
<1>4. Hook!ToolCategory(Hook!Field(p, "tool")) \in Hook!Categories
  BY DEF Hook!ToolCategory, Hook!Categories
<1>5. Hook!Content(p, second) =
        [time |-> Hook!Timestamp(p, second),
         session |-> Hook!Field(p, "session"),
         turn |-> Hook!Field(p, "turn"),
         project |-> Hook!ProjectName(Hook!Field(p, "project")),
         kind |-> kind,
         phase |-> Hook!Phase(p, kind),
         source |-> source,
         confidence |-> Hook!Confidence(p, source),
         tool |-> Hook!ToolCategory(Hook!Field(p, "tool")),
         active |-> Hook!ToolActive(p, kind)]
  BY DEF Hook!Content
<1> HIDE DEF kind, source
<1>6. Hook!Encodable(Hook!Content(p, second))
  BY <1>5 DEF Hook!Encodable
<1> QED BY <1>1, <1>2, <1>3, <1>4, <1>5, <1>6 DEF Hook!Storable

\* A hook delivers its payload as it is at some second, the others no events.
JobsOf ==
    /\ \E scene \in Scenes : payload = scene.payload
    /\ \A h \in Hooks : \A row \in Rows(h) :
          row \in HookRows /\ \E second \in Seconds : row = RowOf(payload, second)
    /\ \A h \in Hooks : \A r, q \in Rows(h) : r = q
    /\ \A w \in Writers \ Hooks : \A row \in Rows(w) : row.id \notin EventIds

\* What the table and the answers are worth, as calls of EventLog.
HookInv ==
    /\ JobsOf
    /\ \A id \in Ids : LogOf[id] # None =>
          \E w \in Writers : \E row \in Rows(w) : row.id = id /\ row.content = LogOf[id]
    /\ \A h \in Hooks : result[h] = "invalid" => \E row \in Rows(h) : ~row.valid
    /\ Hook!Field(payload, "time") # None => \A h \in Hooks : result[h] # "conflict"

\* With a time of its own, a payload makes one row.
LEMMA StampedRow ==
    ASSUME NEW p, Hook!Field(p, "time") # None, NEW s, NEW t
    PROVE  RowOf(p, s) = RowOf(p, t)
<1>1. Hook!Timestamp(p, s) = Hook!Timestamp(p, t)
  BY DEF Hook!Timestamp
<1>2. Hook!Content(p, s) = Hook!Content(p, t)
  BY <1>1 DEF Hook!Content
<1> QED BY <1>2 DEF RowOf

\* HookInv holds before the first delivery.
LEMMA InitHookInv == DeliveryInit => HookInv
<1> SUFFICES ASSUME DeliveryInit PROVE HookInv
  OBVIOUS
<1>1. PICK scene \in Scenes : payload = scene.payload /\ job \in Castings(scene)
  BY DEF DeliveryInit
<1>2. Init
  BY DEF DeliveryInit
<1> DEFINE JobsIn(w) == IF w \in Hooks THEN Deliveries(scene.payload)
                        ELSE Jobs[w] \ {<<>>}
<1>3. \A w \in Writers : job[w] = <<>> \/ job[w] \in JobsIn(w)
  BY <1>1 DEF Castings
<1>4. \A w \in Writers : job[w] = <<>> => Rows(w) = {}
  <2>1. DOMAIN <<>> = {}
    OBVIOUS
  <2> QED BY <2>1 DEF Rows
<1>5. ASSUME NEW h \in Hooks, NEW row \in Rows(h)
      PROVE  /\ row \in HookRows
             /\ \E second \in Seconds : row = RowOf(payload, second)
             /\ Rows(h) = {row}
  <2>1. h \in Writers /\ job[h] \in Deliveries(payload)
    BY <1>1, <1>3, <1>4, <1>5 DEF Writers
  <2>2. PICK second \in Seconds : job[h] = <<RowOf(payload, second)>>
    BY <2>1 DEF Deliveries
  <2>3. Rows(h) = {RowOf(payload, second)}
    <3> DEFINE r == RowOf(payload, second)
    <3> HIDE DEF r
    <3>1. job[h] = <<r>>
      BY <2>2 DEF r
    <3>2. DOMAIN job[h] = {1} /\ job[h][1] = r
      BY <3>1
    <3> QED BY <3>2 DEF Rows, r
  <2>4. PICK q \in HookRows : job[h] = <<q>>
    BY <1>1, <2>1, HookRowsAssumption
  <2>5. q = RowOf(payload, second)
    BY <2>2, <2>4
  <2> QED BY <1>5, <2>3, <2>4, <2>5
<1>6. ASSUME NEW w \in Writers \ Hooks, NEW row \in Rows(w)
      PROVE  row.id \notin EventIds
  <2>1. job[w] \in Jobs[w]
    BY <1>2 DEF Init
  <2> QED BY <1>6, <2>1, TablesAssumption DEF Rows
<1>7. JobsOf
  BY <1>1, <1>5, <1>6 DEF JobsOf
<1>8. /\ \A id \in Ids : LogOf[id] = None
      /\ \A w \in Writers : result[w] = "none"
  BY <1>2 DEF Init, LogOf, NoRows
<1> QED BY <1>7, <1>8 DEF HookInv, Writers

\* A call of the table keeps it: rows come from calls, and a stamped hook
\* finds nothing but its own row under its id.
LEMMA LogKeepsHookInv ==
    HookInv /\ UNCHANGED <<payload, job>> /\ [Log!LogNext]_(Log!logVars) => HookInv'
<1> SUFFICES ASSUME HookInv, UNCHANGED <<payload, job>>, [Log!LogNext]_(Log!logVars)
             PROVE  HookInv'
  OBVIOUS
<1>1. \A w : Rows(w)' = Rows(w)
  BY DEF Rows
<1>2. JobsOf'
  BY <1>1 DEF HookInv, JobsOf
<1>3. DOMAIN LogOf = Ids /\ DOMAIN LogOf' = Ids
  BY DEF LogOf
<1>4. ASSUME NEW w \in Writers, Log!AppendBy(w) PROVE HookInv'
  <2>1. PICK rows \in IF w \in Passes THEN {Rows(w)} ELSE {{row} : row \in Rows(w)} :
          /\ \A row \in rows : LogOf'[row.id] = row.content
          /\ \A id \in Ids : id \notin {row.id : row \in rows} => LogOf'[id] = LogOf[id]
          /\ result' = result
    BY <1>3, <1>4 DEF Log!AppendBy, Log!InLog, Log!Rows, Rows, LogOf
  <2>2. rows \subseteq Rows(w)
    BY <2>1
  <2>3. ASSUME NEW id \in Ids, LogOf'[id] # None
        PROVE  \E v \in Writers : \E row \in Rows(v) : row.id = id /\ row.content = LogOf'[id]
    <3>1. CASE id \in {row.id : row \in rows}
      BY <2>1, <2>2, <3>1
    <3>2. CASE id \notin {row.id : row \in rows}
      BY <2>1, <2>3, <3>2 DEF HookInv
    <3> QED BY <3>1, <3>2
  <2> QED BY <1>1, <1>2, <2>1, <2>3 DEF HookInv
<1>5. ASSUME NEW w \in Writers, Log!Answer(w) PROVE HookInv'
  <2>1. PICK a \in {"ok", "conflict", "invalid", "error", "locked", "killed"} :
          /\ a = "conflict" => Log!Disputed(w)
          /\ a = "invalid" => \E row \in Rows(w) : ~row.valid
          /\ result' = [result EXCEPT ![w] = a]
          /\ LogOf' = LogOf
    BY <1>5 DEF Log!Answer, Log!Rows, Rows, LogOf
  <2>2. \A h \in Hooks : result'[h] = result[h] \/ (h = w /\ result'[h] = a)
    BY <2>1 DEF Writers
  <2>3. ASSUME Hook!Field(payload, "time") # None, w \in Hooks, a = "conflict"
        PROVE  FALSE
    <3>1. PICK row \in Rows(w) :
            \/ LogOf[row.id] \notin {None, row.content}
            \/ \E other \in Rows(w) : other.content # row.content
      BY <2>1, <2>3 DEF Log!Disputed, Log!Rows, Rows, LogOf
    <3>2. /\ \A other \in Rows(w) : other = row
          /\ row.id \in EventIds /\ row.id \in Ids
          /\ \E s \in Seconds : row = RowOf(payload, s)
      BY <2>3, TablesAssumption DEF HookInv, JobsOf
    <3>3. LogOf[row.id] \notin {None, row.content}
      BY <3>1, <3>2
    <3>4. PICK v \in Writers : \E q \in Rows(v) : q.id = row.id /\ q.content = LogOf[row.id]
      BY <3>2, <3>3 DEF HookInv
    <3>5. v \in Hooks
      BY <3>2, <3>4 DEF HookInv, JobsOf
    <3>6. PICK q \in Rows(v) : q.content = LogOf[row.id]
      BY <3>4
    <3>7. \E s \in Seconds : q = RowOf(payload, s)
      BY <3>5 DEF HookInv, JobsOf
    <3>8. q = row
      BY <2>3, <3>2, <3>7, StampedRow
    <3> QED BY <3>3, <3>6, <3>8
  <2>4. \A h \in Hooks : result'[h] = "invalid" => \E row \in Rows(h) : ~row.valid
    BY <2>1, <2>2 DEF HookInv
  <2>5. Hook!Field(payload, "time") # None => \A h \in Hooks : result'[h] # "conflict"
    BY <2>1, <2>2, <2>3 DEF HookInv
  <2> QED BY <1>1, <1>2, <2>1, <2>4, <2>5 DEF HookInv
<1>6. CASE UNCHANGED Log!logVars
  <2>1. LogOf' = LogOf /\ result' = result
    BY <1>6 DEF Log!logVars, LogOf
  <2> QED BY <1>1, <1>2, <2>1 DEF HookInv
<1> QED BY <1>4, <1>5, <1>6 DEF Log!LogNext

\* A step of a delivery is a step of the store, with the same jobs.
LEMMA DeliveryStep ==
    [DeliveryNext]_deliveryVars => [Next]_storeVars /\ UNCHANGED <<payload, job>>
<1> SUFFICES ASSUME [DeliveryNext]_deliveryVars
             PROVE  [Next]_storeVars /\ UNCHANGED <<payload, job>>
  OBVIOUS
<1>1. CASE UNCHANGED deliveryVars
  BY <1>1 DEF deliveryVars, storeVars
<1>2. CASE DeliveryNext
  <2>1. Next /\ UNCHANGED payload
    BY <1>2 DEF DeliveryNext
  <2>2. ASSUME NEW w \in Writers, Start(w) \/ Step(w) \/ GiveUp(w) \/ Killed(w)
        PROVE  UNCHANGED job
    BY <2>2 DEF Start, Step, Initialize, ReadSalt, InsertSalt, SaltRefused, Reject, Lookup,
       Conflict, Insert, KeyTaken, Busy, Seal, Commit, Return, GiveUp, Killed, Fail
  <2> QED BY <2>1, <2>2 DEF Next, Done, storeVars
<1> QED BY <1>1, <1>2

\* The deliveries are behaviours of the store.
LEMMA DeliveryRefinesStore == DeliverySpec => Spec
<1>1. DeliveryInit => Init
  BY DEF DeliveryInit
<1>2. [DeliveryNext]_deliveryVars => [Next]_storeVars
  BY DeliveryStep
<1> QED BY <1>1, <1>2, PTL DEF DeliverySpec, Spec

\* What holds of the table whatever the processes do.
THEOREM HookInvariance == DeliverySpec => []HookInv
<1>1. DeliveryInit => HookInv
  BY InitHookInv
<1>2. HookInv /\ [DeliveryNext]_deliveryVars /\ [Log!LogNext]_(Log!logVars) => HookInv'
  BY LogKeepsHookInv, DeliveryStep
<1>3. DeliverySpec => [][Log!LogNext]_(Log!logVars)
  BY DeliveryRefinesStore, StoreImplementsEventLog, PTL DEF ImplementsEventLog, Log!LogSpec
<1> QED BY <1>1, <1>2, <1>3, PTL DEF DeliverySpec

\* Between the two validations of codex.py and store.py only a session or a
\* turn that UTF-8 cannot encode is lost, for any payload, at any time.
THEOREM StoreRefusesOnlyUnencodable == DeliverySpec => []OnlyUnencodableRefused
<1>1. HookInv => OnlyUnencodableRefused
  <2> SUFFICES ASSUME HookInv, NEW h \in Hooks, result[h] = "invalid",
                      Hook!Normalizable(payload),
                      Hook!Field(payload, "session") \notin Unencodable,
                      Hook!Field(payload, "turn") \notin Unencodable
               PROVE  FALSE
    BY DEF OnlyUnencodableRefused
  <2>1. PICK row \in Rows(h) : ~row.valid
    BY DEF HookInv
  <2>2. PICK second \in Seconds : row = RowOf(payload, second)
    BY DEF HookInv, JobsOf
  <2>3. Hook!Storable(Hook!Content(payload, second))
    BY NormalizedIsStorable, TimesAssumption DEF HookInv, JobsOf
  <2> QED BY <2>1, <2>2, <2>3 DEF RowOf
<1> QED BY <1>1, HookInvariance, PTL

\* A payload with a time of its own is one row and no conflict, however many
\* processes deliver it, beside any passes and editors.
THEOREM StampedHooksAreOneRow == DeliverySpec => []StampedHookIsOneRow
<1>1. IInv /\ HookInv => StampedHookIsOneRow
  <2> SUFFICES ASSUME IInv, HookInv, Hook!Field(payload, "time") # None
               PROVE  Cardinality({id \in EventIds : table[id] # None}) <= 1
    BY DEF StampedHookIsOneRow, HookInv
  <2> DEFINE stored == {id \in EventIds : table[id] # None}
  <2>1. ASSUME NEW id \in stored
        PROVE  \E s \in Seconds : id = RowOf(payload, s).id
    <3>1. id \in Ids /\ LogOf[id] # None
      BY TablesAssumption, NoneAssumption DEF IInv, TypeOK, LogOf, Stored
    <3>2. PICK w \in Writers : \E row \in Rows(w) : row.id = id
      BY <3>1 DEF HookInv
    <3>3. PICK row \in Rows(w) : row.id = id
      BY <3>2
    <3>4. w \in Hooks
      BY <3>3 DEF HookInv, JobsOf
    <3> QED BY <3>3, <3>4 DEF HookInv, JobsOf
  <2>2. \A id, other \in stored : id = other
    BY <2>1, StampedRow
  <2> HIDE DEF stored
  <2>3. CASE stored = {}
    BY <2>3, FS_EmptySet DEF stored
  <2>4. ASSUME NEW id \in stored PROVE Cardinality(stored) <= 1
    <3>1. stored = {id}
      BY <2>2
    <3>2. Cardinality({id}) = 1
      BY FS_Singleton
    <3> QED BY <3>1, <3>2
  <2> QED BY <2>3, <2>4 DEF stored
<1>2. DeliverySpec => []IInv
  BY DeliveryRefinesStore, Invariance, PTL
<1> QED BY <1>1, <1>2, HookInvariance, PTL

\* The properties of the store hold of the deliveries.
THEOREM DeliveriesKeepTheStore ==
    DeliverySpec => []OneSalt /\ ImplementsEventLog
BY DeliveryRefinesStore, SaltIsUnique, StoreImplementsEventLog, PTL
=============================================================================
