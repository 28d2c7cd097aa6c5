------------------------------- MODULE CodexHook ------------------------------
(***************************************************************************)
(* What becomes of the payload of a Codex hook:                            *)
(* src/gpu_steward/timeline/codex.py, normalize_hook, and the validation   *)
(* TimelineStore.record_codex_event repeats.                               *)
(*                                                                         *)
(* A payload is a pair of records, the object itself and the mapping       *)
(* nested under data, metadata or context; None is a key that is absent    *)
(* under all its spellings, Bad a value of the wrong type, vocabulary or   *)
(* alphabet.  Confidence counts tenths.  A digest is the value it is made  *)
(* of.                                                                     *)
(***************************************************************************)
EXTENDS Integers

CONSTANTS None, Bad,
          SafeIds,      \* event ids of the safe alphabet
          Projects,     \* project names of the safe alphabet
          Unencodable   \* session and turn ids UTF-8 cannot encode: JSON can
                        \* spell half a surrogate pair

Kinds == {"session-start", "user-prompt", "pre-tool", "post-tool", "stop",
          "phase", "turn-start", "turn-end"}
Phases == {"active-unspecified", "waiting-tool", "waiting-user", "coding"}
Sources == {"declared", "hook-rule", "inferred"}
Categories == {"", "shell", "other"}

\* Codex has no event for the end of a session but SessionEnd.
Kind(raw) == IF raw = "session-end" THEN "stop" ELSE raw

Field(payload, name) ==
    IF payload.top[name] # None THEN payload.top[name] ELSE payload.nested[name]

ProjectName(raw) == IF raw \in Projects THEN raw ELSE "unknown"

SafeId(raw) == IF raw \in SafeIds THEN raw ELSE None

ExplicitId(payload) ==
    IF SafeId(payload.top.id) # None THEN payload.top.id
    ELSE SafeId(payload.nested.id)

ToolCategory(raw) ==
    CASE raw = None -> ""
      [] raw \in Categories -> raw
      [] raw = "bash" -> "shell"
      [] OTHER -> "other"

\* Mutant: a timestamp in the nested mapping is overlooked.
Timestamp_TopOnly(payload, now) ==
    IF payload.top.time = None THEN now ELSE payload.top.time

Timestamp(payload, now) ==
    IF Field(payload, "time") = None THEN now ELSE Field(payload, "time")

Phase(payload, kind) ==
    CASE kind = "pre-tool" -> "waiting-tool"
      [] kind \in {"stop", "turn-end"} -> "waiting-user"
      [] OTHER -> IF Field(payload, "phase") = None THEN "active-unspecified"
                  ELSE Field(payload, "phase")

Source(payload, kind) ==
    CASE Field(payload, "source") # None -> Field(payload, "source")
      [] kind = "phase" /\ Field(payload, "phase") # None -> "declared"
      [] OTHER -> "hook-rule"

Confidence(payload, source) ==
    CASE Field(payload, "confidence") # None -> Field(payload, "confidence")
      [] source = "declared" -> 10
      [] source = "inferred" -> 5
      [] OTHER -> 8

ToolActive(payload, kind) ==
    CASE kind = "pre-tool" -> TRUE
      [] kind = "post-tool" -> FALSE
      [] OTHER -> IF Field(payload, "active") = None THEN FALSE
                  ELSE Field(payload, "active")

\* Mutant: any number is a confidence.
ConfidenceInRange_Unchecked(payload) == Field(payload, "confidence") # Bad

ConfidenceInRange(payload) == Field(payload, "confidence") \in {None} \cup 0 .. 10

\* The payloads normalize_hook refuses raise TimelineSchemaError.
Normalizable(payload) ==
    LET kind == Kind(Field(payload, "kind")) IN
    /\ kind \in Kinds
    /\ Field(payload, "time") # Bad
    /\ Phase(payload, kind) \in Phases
    /\ Source(payload, kind) \in Sources
    /\ ConfidenceInRange(payload)
    /\ Field(payload, "tool") # Bad
    /\ ToolActive(payload, kind) \in BOOLEAN

Content(payload, now) ==
    LET kind == Kind(Field(payload, "kind"))
        source == Source(payload, kind)
    IN  [time |-> Timestamp(payload, now),
         session |-> Field(payload, "session"),
         turn |-> Field(payload, "turn"),
         project |-> ProjectName(Field(payload, "project")),
         kind |-> kind,
         phase |-> Phase(payload, kind),
         source |-> source,
         confidence |-> Confidence(payload, source),
         tool |-> ToolCategory(Field(payload, "tool")),
         active |-> ToolActive(payload, kind)]

EventId(payload, content) ==
    IF ExplicitId(payload) # None THEN ExplicitId(payload)
    ELSE <<"hook", content>>

\* The ids are only digested by the store, from their strict UTF-8 encoding.
Encodable(content) == {content.session, content.turn} \cap Unencodable = {}

\* What record_codex_event validates again.
Storable(content) ==
    /\ Encodable(content)
    /\ content.kind \in Kinds
    /\ content.time \in Int
    /\ content.phase \in Phases
    /\ content.source \in Sources
    /\ content.confidence \in 0 .. 10
    /\ content.tool \in Categories
    /\ content.active \in BOOLEAN

=============================================================================
