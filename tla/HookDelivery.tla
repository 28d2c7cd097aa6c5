----------------------------- MODULE HookDelivery -----------------------------
(***************************************************************************)
(* Codex hooks on their way into the timeline (codex.py, ingest_hook; the  *)
(* `hook` command of cli.py): every delivery of a payload is a process of  *)
(* its own that stamps, normalises and records it, beside the passes and   *)
(* editors that write the same database.                                   *)
(***************************************************************************)
EXTENDS TimelineStore, Integers

CONSTANTS Bad, SafeIds, Projects, Unencodable,
          Seconds,    \* what the clock may show at a delivery
          Scenes,     \* [payload, cast]: what is delivered, and who takes part
          HookRows    \* the rows the deliveries of the scenes lead to

Hook == INSTANCE CodexHook

VARIABLE payload      \* what the hooks of this behaviour deliver
deliveryVars == <<payload, storeVars>>

\* A payload that normalize_hook refuses fails before anything is recorded.
RowOf(p, second) ==
    LET content == Hook!Content(p, second) IN
    IF Hook!Normalizable(p)
    THEN [id |-> Hook!EventId(p, content), content |-> content,
          valid |-> Hook!Storable(content)]
    ELSE [id |-> Bad, content |-> Bad, valid |-> FALSE]

Deliveries(p) == {<<RowOf(p, second)>> : second \in Seconds}

ASSUME HookRowsAssumption ==
    \A scene \in Scenes : Deliveries(scene.payload) \subseteq {<<row>> : row \in HookRows}

\* Events have a table, and thereby ids, of their own.
ASSUME TablesAssumption ==
    /\ EventIds \subseteq Ids
    /\ \A row \in HookRows : row.id \in EventIds
    /\ \A w \in Writers \ Hooks : \A rows \in Jobs[w] : \A k \in DOMAIN rows :
          rows[k].id \notin EventIds

ASSUME TimesAssumption ==
    /\ Seconds \subseteq Int
    /\ \A scene \in Scenes :
          Hook!Field(scene.payload, "time") \in Int \cup {None, Bad}

\* The jobs of the cast; the others have nothing to do and do not start.
Castings(scene) ==
    LET JobsIn(w) == IF w \in Hooks THEN Deliveries(scene.payload)
                     ELSE Jobs[w] \ {<<>>}
        jobsIn == {f \in [scene.cast -> UNION {JobsIn(w) : w \in scene.cast}] :
                      \A w \in scene.cast : f[w] \in JobsIn(w)}
    IN  {[w \in Writers |-> IF w \in scene.cast THEN f[w] ELSE <<>>] : f \in jobsIn}

DeliveryInit ==
    \E scene \in Scenes :
        /\ payload = scene.payload
        /\ job \in Castings(scene)
        /\ Init

DeliveryNext ==
    /\ Next
    /\ \A w \in Writers : job[w] = <<>> => stage'[w] = "idle"
    /\ UNCHANGED payload

DeliverySpec ==
    /\ DeliveryInit /\ [][DeliveryNext]_deliveryVars
    /\ \A w \in Writers : WF_storeVars(Step(w))

-----------------------------------------------------------------------------
(* Properties *)

\* What normalize_hook returns "is intentionally suitable for passing
\* directly to" record_codex_event: no hook is lost between the two.
StoreNeverRefuses ==
    \A h \in Hooks : result[h] = "invalid" => ~Hook!Normalizable(payload)

\* Of what normalize_hook lets through, record_codex_event refuses only what
\* names a session or a turn UTF-8 cannot encode: in every other field the
\* two validations agree.
OnlyUnencodableRefused ==
    \A h \in Hooks : result[h] = "invalid" =>
        \/ ~Hook!Normalizable(payload)
        \/ Hook!Field(payload, "session") \in Unencodable
        \/ Hook!Field(payload, "turn") \in Unencodable

\* A payload that says when it happened is one row however often, whenever
\* and by however many processes at once it is delivered, and no conflict.
StampedHookIsOneRow ==
    Hook!Field(payload, "time") # None =>
        /\ Cardinality({id \in EventIds : table[id] # None}) <= 1
        /\ \A h \in Hooks : result[h] # "conflict"

\* ingest_hook: "append it idempotently".  A payload delivered again is
\* neither a second row nor a conflict.
HookIngestIdempotent ==
    /\ Cardinality({id \in EventIds : table[id] # None}) <= 1
    /\ \A h \in Hooks : result[h] # "conflict"
=============================================================================
