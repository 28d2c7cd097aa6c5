---------------------------- MODULE TimelineProof ----------------------------
(***************************************************************************)
(* Proofs about the reports of the timeline.  The steps only append, so    *)
(* that the types are all of the inductive invariant; the rest is about    *)
(* what the report computes from any rows, overrides and time.             *)
(***************************************************************************)
EXTENDS Timeline, DataInduction

-----------------------------------------------------------------------------
(* The stored rows *)

EventRow(e) ==
    /\ e = [id |-> e.id, at |-> e.at, session |-> e.session, project |-> e.project,
            kind |-> e.kind, phase |-> e.phase, active |-> e.active]
    /\ e.at \in 0 .. now
    /\ e.id \in Int
    /\ e.session \in scene.sessions

SampleRow(s) ==
    /\ s = [id |-> s.id, at |-> s.at, lane |-> s.lane, state |-> s.state,
            task |-> s.task, explicit |-> s.explicit, process |-> s.process]
    /\ s.at \in 0 .. now
    /\ s.id \in Int
    /\ s.lane \in scene.lanes

OverrideRow(o) ==
    /\ o = [id |-> o.id, target |-> o.target, field |-> o.field, value |-> o.value,
            created |-> o.created, from |-> o.from, until |-> o.until]
    /\ o.id \in Int
    /\ o.created \in 0 .. now
    /\ o.from \in Nat
    /\ o.until = None \/ o.until \in Nat
    /\ o.target \in {"event", "sample"} \X Int
    /\ o.field \in IF o.target[1] = "event" THEN {"phase", "project"} ELSE {"state"}

\* A new id is one that no row of its time has.
SameTime(rows, at) == {r \in rows : r.at = at}
Spaced(rows) ==
    /\ \A r \in rows :
          LET n == Cardinality(SameTime(rows, r.at)) IN
          r.id \in Spacing * r.at - (n - 1) .. Spacing * r.at + (n - 1)
    /\ \A r, s \in rows : r.at = s.at /\ r.id = s.id => r = s

\* An override's id is before or after all earlier ones.
DifferentIds(rows) ==
    /\ IsFiniteSet(rows)
    /\ \A o \in rows : o.id \in -Cardinality(rows) .. Cardinality(rows)
    /\ \A o, p \in rows : o.id = p.id => o = p

Types ==
    /\ scene \in Scenes
    /\ now \in Nat
    /\ IsFiniteSet(events) /\ \A e \in events : EventRow(e)
    /\ Spaced(events)
    /\ IsFiniteSet(samples) /\ \A s \in samples : SampleRow(s)
    /\ Spaced(samples)
    /\ \A o \in overrides : OverrideRow(o)
    /\ DifferentIds(overrides)

\* One more row keeps the ids of a time apart.
LEMMA SpacedKept ==
    ASSUME NEW rows, IsFiniteSet(rows), \A r \in rows : r.at \in Nat /\ r.id \in Int,
           Spaced(rows), NEW at \in Nat, NEW id \in FreshIds(rows, at),
           NEW row, row.at = at, row.id = id
    PROVE  /\ IsFiniteSet(rows \cup {row})
           /\ Spaced(rows \cup {row})
           /\ id \in Int
<1> DEFINE n(t) == Cardinality(SameTime(rows, t))
           more == rows \cup {row}
           m(t) == Cardinality(SameTime(more, t))
<1>1. ASSUME NEW t
      PROVE  IsFiniteSet(SameTime(rows, t)) /\ n(t) \in Nat
  BY FS_Subset, FS_CardinalityType DEF SameTime
<1>2. id \in {Spacing * at + n(at), Spacing * at - n(at)}
  BY DEF FreshIds, SameTime
<1>3. id \in Int
  BY <1>1, <1>2 DEF Spacing
<1>4. row \notin rows
  BY <1>1, <1>2 DEF Spaced, Spacing
<1>5. ASSUME NEW t, t # at
      PROVE  m(t) = n(t)
  <2>1. SameTime(more, t) = SameTime(rows, t)
    BY <1>5 DEF SameTime
  <2> QED BY <2>1
<1>6. m(at) = n(at) + 1
  <2>1. SameTime(more, at) = SameTime(rows, at) \cup {row} /\ row \notin SameTime(rows, at)
    BY <1>4 DEF SameTime
  <2> QED BY <2>1, <1>1, FS_AddElement
<1>7. ASSUME NEW r \in more
      PROVE  r.id \in Spacing * r.at - (m(r.at) - 1) .. Spacing * r.at + (m(r.at) - 1)
  <2> HIDE DEF m, n
  <2>1. CASE r = row
    BY <2>1, <1>1, <1>2, <1>6 DEF Spacing
  <2>2. CASE r \in rows
    <3>1. r.id \in Spacing * r.at - (n(r.at) - 1) .. Spacing * r.at + (n(r.at) - 1)
      BY <2>2 DEF Spaced, n
    <3>2. m(r.at) \in {n(r.at), n(r.at) + 1}
      BY <1>5, <1>6
    <3> QED BY <3>1, <3>2, <1>1, <2>2 DEF Spacing
  <2> QED BY <2>1, <2>2
<1>8. ASSUME NEW r \in rows, r.at = at
      PROVE  r.id # id
  BY <1>1, <1>2, <1>8 DEF Spaced, Spacing
<1>9. \A r, s \in more : r.at = s.at /\ r.id = s.id => r = s
  BY <1>8 DEF Spaced
<1>10. IsFiniteSet(more)
  BY FS_AddElement
<1> HIDE DEF more
<1> QED BY <1>3, <1>7, <1>9, <1>10 DEF Spaced, more

\* A new override carries its times, and a kind of row it is about.
LEMMA NewOverride ==
    ASSUME Types, NEW target \in Targets, NEW row, RecordOverride(target, row)
    PROVE  \E o : /\ overrides' = overrides \cup {o} /\ o \notin overrides
                  /\ OverrideRow(o)
                  /\ DifferentIds(overrides')
                  /\ o.target = target
                  /\ o.from = now => ValidAt(o, now)
<1>1. PICK created \in 0 .. now, from \in 0 .. now + 1, sign \in {1, -1} :
        /\ row.field \in IF target[1] = "event" THEN {"phase", "project"} ELSE {"state"}
        /\ row.until \in {None} \cup from .. scene.horizon
        /\ overrides' = overrides \cup
              {[id |-> sign * (Cardinality(overrides) + 1), target |-> target,
                field |-> row.field, value |-> row.value,
                created |-> created, from |-> from, until |-> row.until]}
  BY DEF RecordOverride
<1> DEFINE n == Cardinality(overrides)
           o == [id |-> sign * (n + 1), target |-> target, field |-> row.field,
                 value |-> row.value, created |-> created, from |-> from,
                 until |-> row.until]
<1>2. target \in {"event", "sample"} \X Int
  BY DEF Targets, Types, EventRow, SampleRow
<1>3. /\ now \in Nat /\ from \in Nat /\ scene.horizon \in Nat /\ n \in Nat
      /\ sign * (n + 1) \in {n + 1, -(n + 1)}
  <2>1. now \in Nat /\ scene.horizon \in Nat /\ n \in Nat
    BY ScenesAssumption, FS_CardinalityType DEF Types, DifferentIds
  <2>2. sign = 1 \/ sign = -1
    OBVIOUS
  <2> QED BY <2>1, <2>2
<1>4. OverrideRow(o)
  BY <1>1, <1>2, <1>3 DEF OverrideRow
<1>5. from = now => ValidAt(o, now)
  BY <1>1, <1>3 DEF ValidAt
<1>6. overrides' = overrides \cup {o} /\ o.target = target /\ o.from = from
      /\ o.id \in {n + 1, -(n + 1)}
  BY <1>1, <1>3
<1> HIDE DEF o
<1>7. \A p \in overrides : p.id # o.id /\ p.id \in -n .. n
  BY <1>3, <1>6 DEF Types, DifferentIds
<1>8. o \notin overrides
  BY <1>7
<1>9. IsFiniteSet(overrides') /\ Cardinality(overrides') = n + 1
  BY <1>6, <1>8, FS_AddElement DEF Types, DifferentIds
<1>10. DifferentIds(overrides')
  <2> DEFINE more == overrides \cup {o}
  <2> HIDE DEF n
  <2>1. \A p \in more : p.id \in -(n + 1) .. n + 1
    BY <1>3, <1>6, <1>7
  <2>2. \A p, q \in more : p.id = q.id => p = q
    BY <1>7 DEF Types, DifferentIds
  <2> QED BY <1>6, <1>9, <2>1, <2>2 DEF DifferentIds
<1> QED BY <1>4, <1>5, <1>6, <1>8, <1>10

\* Hooks and probes stamp their rows, and time only passes.
LEMMA NextKeepsTypes == Types /\ [Next]_timelineVars => Types'
<1> SUFFICES ASSUME Types, [Next]_timelineVars PROVE Types'
  OBVIOUS
<1> USE DEF Types
<1>1. ASSUME NEW session \in scene.sessions, NEW row \in scene.hooks, RecordHook(session, row)
      PROVE  Types'
  <2>0. PICK at \in 0 .. now : \E id \in FreshIds(events, at) :
          /\ events' = events \cup
                {[id |-> id, at |-> at, session |-> session, project |-> row.project,
                  kind |-> row.kind, phase |-> row.phase, active |-> row.active]}
          /\ UNCHANGED <<scene, now, samples, overrides>>
    BY <1>1 DEF RecordHook
  <2>1. PICK id \in FreshIds(events, at) :
          /\ events' = events \cup
                {[id |-> id, at |-> at, session |-> session, project |-> row.project,
                  kind |-> row.kind, phase |-> row.phase, active |-> row.active]}
          /\ UNCHANGED <<scene, now, samples, overrides>>
    BY <2>0
  <2> DEFINE e == [id |-> id, at |-> at, session |-> session, project |-> row.project,
                   kind |-> row.kind, phase |-> row.phase, active |-> row.active]
  <2>2. e.at = at /\ e.id = id /\ e.session = session
        /\ e = [id |-> e.id, at |-> e.at, session |-> e.session, project |-> e.project,
                kind |-> e.kind, phase |-> e.phase, active |-> e.active]
    OBVIOUS
  <2>3. events' = events \cup {e}
    BY <2>1
  <2> HIDE DEF e
  <2>4. \A r \in events : r.at \in Nat /\ r.id \in Int
    BY DEF EventRow
  <2>5. IsFiniteSet(events \cup {e}) /\ Spaced(events \cup {e}) /\ id \in Int
    BY <2>1, <2>2, <2>4, SpacedKept
  <2>6. EventRow(e) /\ \A r \in events : EventRow(r)'
    BY <2>1, <2>2, <2>5 DEF EventRow
  <2> QED BY <2>1, <2>3, <2>5, <2>6 DEF EventRow, SampleRow, OverrideRow, Spaced, SameTime, DifferentIds
<1>2. ASSUME NEW lane \in scene.lanes, NEW row \in scene.samples, RecordSample(lane, row)
      PROVE  Types'
  <2>0. PICK at \in {now, now - 1} \cap Nat : \E id \in FreshIds(samples, at) :
          /\ samples' = samples \cup
                {[id |-> id, at |-> at, lane |-> lane, state |-> row.state,
                  task |-> row.task, explicit |-> row.explicit, process |-> row.process]}
          /\ UNCHANGED <<scene, now, events, overrides>>
    BY <1>2 DEF RecordSample
  <2>1. PICK id \in FreshIds(samples, at) :
          /\ samples' = samples \cup
                {[id |-> id, at |-> at, lane |-> lane, state |-> row.state,
                  task |-> row.task, explicit |-> row.explicit, process |-> row.process]}
          /\ UNCHANGED <<scene, now, events, overrides>>
    BY <2>0
  <2> DEFINE s == [id |-> id, at |-> at, lane |-> lane, state |-> row.state,
                   task |-> row.task, explicit |-> row.explicit, process |-> row.process]
  <2>2. s.at = at /\ s.id = id /\ s.lane = lane
        /\ s = [id |-> s.id, at |-> s.at, lane |-> s.lane, state |-> s.state,
                task |-> s.task, explicit |-> s.explicit, process |-> s.process]
    OBVIOUS
  <2>3. samples' = samples \cup {s}
    BY <2>1
  <2> HIDE DEF s
  <2>4. \A r \in samples : r.at \in Nat /\ r.id \in Int
    BY DEF SampleRow
  <2>5. IsFiniteSet(samples \cup {s}) /\ Spaced(samples \cup {s}) /\ id \in Int
    BY <2>1, <2>2, <2>4, SpacedKept
  <2>6. SampleRow(s) /\ \A r \in samples : SampleRow(r)'
    BY <2>1, <2>2, <2>5 DEF SampleRow
  <2> QED BY <2>1, <2>3, <2>5, <2>6 DEF EventRow, SampleRow, OverrideRow, Spaced, SameTime, DifferentIds
<1>3. ASSUME NEW target \in Targets, NEW row \in scene.edits, RecordOverride(target, row)
      PROVE  Types'
  <2>1. PICK o : overrides' = overrides \cup {o} /\ OverrideRow(o) /\ DifferentIds(overrides')
    BY <1>3, NewOverride
  <2>2. UNCHANGED <<scene, now, events, samples>>
    BY <1>3 DEF RecordOverride
  <2> QED BY <2>1, <2>2 DEF EventRow, SampleRow, OverrideRow, Spaced, SameTime, DifferentIds
<1>4. CASE Tick
  <2>1. UNCHANGED <<scene, events, samples, overrides>> /\ now' = now + 1
    BY <1>4 DEF Tick
  <2>2. \A e \in events : EventRow(e)'
    BY <2>1 DEF EventRow
  <2>3. \A s \in samples : SampleRow(s)'
    BY <2>1 DEF SampleRow
  <2>4. \A o \in overrides : OverrideRow(o)'
    BY <2>1 DEF OverrideRow
  <2> QED BY <2>1, <2>2, <2>3, <2>4 DEF Spaced, SameTime, DifferentIds
<1>5. CASE UNCHANGED timelineVars
  BY <1>5 DEF timelineVars, EventRow, SampleRow, OverrideRow, Spaced, SameTime, DifferentIds
<1> QED BY <1>1, <1>2, <1>3, <1>4, <1>5 DEF Next, Done

\* The rows have their types, and two of one time different ids.
THEOREM TimelineTypes == Spec => []Types
<1>1. Init => Types
  BY FS_EmptySet DEF Init, Types, Spaced, DifferentIds
<1> QED BY <1>1, NextKeepsTypes, PTL DEF Spec

-----------------------------------------------------------------------------
(* Overrides *)

\* Some element of a finite set of overrides overtakes all others.
LEMMA OneIsTop ==
    ASSUME NEW S, IsFiniteSet(S), S # {},
           \A o \in S : o.from \in Nat /\ o.created \in Nat /\ o.id \in Int,
           \A o, p \in S : o.id = p.id => o = p
    PROVE  \E w \in S : \A p \in S : p = w \/ (Overtakes(w, p) /\ ~Overtakes(p, w))
<1> DEFINE B == [x \in S |-> {y \in S : Overtakes(x, y)}]
<1>1. /\ B \in [S -> SUBSET S]
      /\ \A x \in S : x \notin B[x]
      /\ \A x, y \in S : x # y => x \in B[y] \/ y \in B[x]
      /\ \A x, y \in S : x \in B[y] => B[x] \subseteq B[y]
      /\ \A x, y \in S : x \in B[y] => y \notin B[x]
  BY DEF Overtakes
<1> DEFINE n == Cardinality(S)
<1>2. n \in Nat /\ n # 0
  BY FS_CardinalityType, FS_EmptySet
<1>3. PICK w \in S : Cardinality(B[w]) = n - 1
  <2> HIDE DEF B
  <2>1. \A i \in 1 .. n : \E x \in S : Cardinality(B[x]) = i - 1
    BY <1>1, Ranking
  <2> QED BY <1>2, <2>1
<1>4. B[w] = S \ {w}
  <2>1. B[w] \subseteq S \ {w}
    BY <1>1
  <2>2. IsFiniteSet(S \ {w}) /\ Cardinality(S \ {w}) = n - 1
    BY FS_RemoveElement
  <2> HIDE DEF B, n
  <2> QED BY <1>3, <2>1, <2>2, FS_Subset
<1> QED BY <1>1, <1>4

\* What a field reads is the value of the override that overtakes the others.
ReadsOf(rows, target, field, at) ==
    LET current == CurrentOverrides(rows, target, at) IN
    IF field \in DOMAIN current THEN {current[field]} ELSE {}

InForce(rows, target, field, at) == {o \in Of(rows, target, field) : ValidAt(o, at)}

TopOf(S, w) == w \in S /\ \A p \in S : p = w \/ (Overtakes(w, p) /\ ~Overtakes(p, w))

LEMMA TopIsRead ==
    ASSUME NEW rows, IsFiniteSet(rows), NEW at, NEW target, NEW field,
           \A o \in rows : o.from \in Nat /\ o.created \in Nat /\ o.id \in Int,
           \A o, p \in rows : o.id = p.id => o = p
    PROVE  \/ /\ InForce(rows, target, field, at) = {}
              /\ ReadsOf(rows, target, field, at) = {}
           \/ \E w : /\ TopOf(InForce(rows, target, field, at), w)
                     /\ ReadsOf(rows, target, field, at) = {w.value}
<1> DEFINE valid == {o \in rows : o.target = target /\ ValidAt(o, at)}
           S == InForce(rows, target, field, at)
           Best(x) == /\ x.field = field
                      /\ \A p \in valid : p.field = field => p = x \/ Overtakes(x, p)
<1>1. CurrentOverrides(rows, target, at)
        = [f \in {x.field : x \in valid} |->
             (CHOOSE x \in valid : /\ x.field = f
                                   /\ \A p \in valid : p.field = f =>
                                          p = x \/ Overtakes(x, p)).value]
  BY DEF CurrentOverrides
<1>2. S = {o \in valid : o.field = field}
  BY DEF InForce, Of
<1> HIDE DEF S, valid
<1>3. CASE S = {}
  <2>1. field \notin {x.field : x \in valid}
    BY <1>2, <1>3
  <2> QED BY <1>1, <1>3, <2>1 DEF ReadsOf, S
<1>4. CASE S # {}
  <2>1. S \subseteq rows
    BY <1>2 DEF valid
  <2>2. PICK w \in S : \A p \in S : p = w \/ (Overtakes(w, p) /\ ~Overtakes(p, w))
    <3>1. IsFiniteSet(S)
      BY <2>1, FS_Subset
    <3> QED BY <1>4, <2>1, <3>1, OneIsTop
  <2>3. \A x \in valid : Best(x) <=> x = w
    BY <1>2, <2>2
  <2>4. (CHOOSE x \in valid : Best(x)) = w
    <3>1. w \in valid
      BY <1>2
    <3> HIDE DEF Best
    <3> QED BY <2>3, <3>1
  <2>5. field \in {x.field : x \in valid}
    BY <1>2, <2>2
  <2>6. ReadsOf(rows, target, field, at) = {w.value}
    BY <1>1, <2>4, <2>5 DEF ReadsOf
  <2> QED BY <2>2, <2>6 DEF TopOf, S
<1> QED BY <1>3, <1>4

\* The lemma in a state and in the next.
LEMMA ReadNow ==
    ASSUME Types, NEW target, NEW field
    PROVE  \/ /\ InForce(overrides, target, field, now) = {}
              /\ Reads(target, field) = {}
           \/ \E w : /\ TopOf(InForce(overrides, target, field, now), w)
                     /\ Reads(target, field) = {w.value}
<1>1. /\ \A o \in overrides : o.from \in Nat /\ o.created \in Nat /\ o.id \in Int
      /\ IsFiniteSet(overrides) /\ \A o, p \in overrides : o.id = p.id => o = p
  BY DEF Types, OverrideRow, DifferentIds
<1>2. Reads(target, field) = ReadsOf(overrides, target, field, now)
  BY DEF Reads, ReadsOf
<1> QED BY <1>1, <1>2, TopIsRead

\* Recording an override that takes effect at once changes what is read to it,
\* or to one that takes effect with it.
LEMMA RecordedIsRead ==
    ASSUME Types, Types', NEW t \in Targets, NEW row, RecordOverride(t, row)
    PROVE  ReadAtOnce /\ ReadUntilReplaced
<1>1. PICK o : /\ overrides' = overrides \cup {o} /\ o \notin overrides
               /\ o.target = t
               /\ o.from = now => ValidAt(o, now)
  BY NewOverride
<1>2. now' = now /\ now \in Nat
  BY DEF RecordOverride, Types
<1>3. \A p \in overrides' : p.from \in Nat /\ p.created \in Nat
  BY DEF Types, OverrideRow
<1>4. ASSUME NEW target, NEW field
      PROVE  \/ /\ InForce(overrides', target, field, now) = {}
                /\ Reads(target, field)' = {}
             \/ \E w : /\ TopOf(InForce(overrides', target, field, now), w)
                       /\ Reads(target, field)' = {w.value}
  <2>1. /\ \A p \in overrides' : p.from \in Nat /\ p.created \in Nat /\ p.id \in Int
        /\ IsFiniteSet(overrides') /\ \A p, q \in overrides' : p.id = q.id => p = q
    BY DEF Types, OverrideRow, DifferentIds
  <2>2. Reads(target, field)' = ReadsOf(overrides', target, field, now)
    BY <1>2 DEF Reads, ReadsOf
  <2> QED BY <2>1, <2>2, TopIsRead
<1>5. ReadAtOnce
  <2> SUFFICES ASSUME o.from = now
               PROVE  \E p \in Of(overrides', o.target, o.field) :
                         /\ p.from = now /\ p.created >= o.created
                         /\ Reads(o.target, o.field)' = {p.value}
    BY <1>1 DEF ReadAtOnce
  <2>1. o \in InForce(overrides', o.target, o.field, now)
    BY <1>1 DEF InForce, Of
  <2>2. PICK w : /\ TopOf(InForce(overrides', o.target, o.field, now), w)
                 /\ Reads(o.target, o.field)' = {w.value}
    BY <1>4, <2>1
  <2>3. w \in Of(overrides', o.target, o.field) /\ ValidAt(w, now) /\ w \in overrides'
    BY <2>2 DEF TopOf, InForce, Of
  <2>4. w = o \/ Overtakes(w, o)
    BY <2>1, <2>2 DEF TopOf
  <2>5. w.from <= now
    BY <2>3 DEF ValidAt
  <2>6. w.from = now /\ w.created >= o.created
    BY <1>1, <1>2, <1>3, <2>3, <2>4, <2>5 DEF Overtakes
  <2> QED BY <2>2, <2>3, <2>6
<1>6. ASSUME NEW target \in Targets, NEW field,
             Reads(target, field)' # Reads(target, field)
      PROVE  /\ o \in Of(overrides', target, field) /\ TopNow(o)
             /\ o \notin overrides
             /\ Reads(target, field)' = {o.value}
  <2> DEFINE S == InForce(overrides, target, field, now)
             T == InForce(overrides', target, field, now)
  <2>1. T = IF o.target = target /\ o.field = field /\ ValidAt(o, now)
            THEN S \cup {o} ELSE S
    BY <1>1 DEF InForce, Of
  <2>2. ASSUME NEW w, NEW v, TopOf(S, w), TopOf(S, v)
        PROVE  w = v
    BY <2>2 DEF TopOf
  <2>3. o \in T
    <3> SUFFICES ASSUME T = S PROVE FALSE
      BY <2>1
    <3> HIDE DEF S, T
    <3>1. S # {} \/ Reads(target, field) = {}
      BY ReadNow DEF S, TopOf
    <3>2. CASE S = {}
      BY <3>1, <3>2, <1>4, <1>6, ReadNow DEF S, T, TopOf
    <3>3. CASE S # {}
      <4>1. PICK w : TopOf(S, w) /\ Reads(target, field) = {w.value}
        BY <3>3, ReadNow DEF S
      <4>2. PICK v : TopOf(S, v) /\ Reads(target, field)' = {v.value}
        BY <3>3, <1>4 DEF S, T
      <4> QED BY <4>1, <4>2, <2>2, <1>6
    <3> QED BY <3>2, <3>3
  <2>4. PICK v : TopOf(T, v) /\ Reads(target, field)' = {v.value}
    BY <2>3, <1>4
  <2>5. v = o
    <3> SUFFICES ASSUME v # o PROVE FALSE
      OBVIOUS
    <3>0. T = S \cup {o}
      BY <2>1, <2>3
    <3> HIDE DEF S, T
    <3>1. TopOf(S, v)
      BY <2>4, <3>0 DEF TopOf
    <3>2. S # {}
      BY <3>1 DEF TopOf
    <3>3. PICK w : TopOf(S, w) /\ Reads(target, field) = {w.value}
      BY <3>2, ReadNow DEF S
    <3> QED BY <3>1, <3>3, <2>2, <2>4, <1>6
  <2>6. o \in Of(overrides', target, field)
    BY <2>3 DEF InForce
  <2>7. TopNow(o)
    <3>1. ASSUME NEW p \in Of(overrides, o.target, o.field), ValidAt(p, now)
          PROVE  p.from <= o.from
      <4>1. p \in T /\ p \in overrides' /\ o \in overrides'
        BY <1>1, <2>6, <3>1 DEF InForce, Of
      <4>2. p = o \/ Overtakes(o, p)
        BY <2>4, <2>5, <4>1 DEF TopOf
      <4> QED BY <1>3, <4>1, <4>2 DEF Overtakes
    <3> QED BY <3>1 DEF TopNow
  <2> QED BY <1>1, <2>4, <2>5, <2>6, <2>7
<1>7. ReadUntilReplaced
  BY <1>6 DEF ReadUntilReplaced
<1> QED BY <1>5, <1>7

\* As time passes only what takes effect or runs out changes what is read.
LEMMA TickReplaces ==
    ASSUME Types, Types', Tick
    PROVE  ReadAtOnce /\ ReadUntilReplaced
<1>1. overrides' = overrides /\ now' = now + 1 /\ now \in Nat
  BY DEF Tick, Types
<1>2. \A p \in overrides : /\ p.from \in Nat /\ p.created \in Nat
                           /\ p.until = None \/ p.until \in Nat
  BY DEF Types, OverrideRow
<1>3. ASSUME NEW target \in Targets, NEW field,
             Reads(target, field)' # Reads(target, field)
      PROVE  \E o \in Of(overrides', target, field) :
                /\ TopNow(o)
                /\ \/ /\ o.from > now
                      /\ Reads(target, field)' = {o.value}
                   \/ /\ o.until = now
                      /\ Reads(target, field) = {o.value}
  <2> DEFINE S == InForce(overrides, target, field, now)
             T == InForce(overrides, target, field, now + 1)
  <2>1. \/ T = {} /\ Reads(target, field)' = {}
        \/ \E v : TopOf(T, v) /\ Reads(target, field)' = {v.value}
    <3>1. /\ \A p \in overrides : p.from \in Nat /\ p.created \in Nat /\ p.id \in Int
          /\ IsFiniteSet(overrides) /\ \A p, q \in overrides : p.id = q.id => p = q
      BY DEF Types, OverrideRow, DifferentIds
    <3>2. Reads(target, field)' = ReadsOf(overrides, target, field, now + 1)
      BY <1>1 DEF Reads, ReadsOf
    <3> QED BY <3>1, <3>2, TopIsRead
  <2>2. \/ S = {} /\ Reads(target, field) = {}
        \/ \E w : TopOf(S, w) /\ Reads(target, field) = {w.value}
    BY ReadNow
  <2>3. /\ \A p \in S : p \in Of(overrides', target, field) /\ p \in overrides
                        /\ ValidAt(p, now) /\ (p \in T \/ p.until = now)
        /\ \A p \in T : p \in Of(overrides', target, field) /\ p \in overrides
                        /\ (p \in S \/ p.from > now)
    BY <1>1, <1>2 DEF InForce, Of, ValidAt
  <2>4. \A o \in S : TopOf(S, o) => TopNow(o)
    <3> SUFFICES ASSUME NEW o \in S, TopOf(S, o), NEW p \in S
                 PROVE  p.from <= o.from
      BY <2>3 DEF TopNow, InForce, Of
    <3> QED BY <1>2, <2>3 DEF TopOf, Overtakes
  <2>5. \A o \in T : o.from > now => TopNow(o)
    <3> SUFFICES ASSUME NEW o \in T, o.from > now, NEW p \in overrides, ValidAt(p, now)
                 PROVE  p.from <= o.from
      BY DEF TopNow, Of
    <3> QED BY <1>1, <1>2, <2>3 DEF ValidAt
  <2> HIDE DEF S, T
  <2>6. CASE \E w : TopOf(S, w) /\ Reads(target, field) = {w.value} /\ w \notin T
    <3>1. PICK w : TopOf(S, w) /\ Reads(target, field) = {w.value} /\ w \notin T
      BY <2>6
    <3>2. w \in S
      BY <3>1 DEF TopOf
    <3> QED BY <2>3, <2>4, <3>1, <3>2
  <2>7. CASE \E v : TopOf(T, v) /\ Reads(target, field)' = {v.value} /\ v \notin S
    <3>1. PICK v : TopOf(T, v) /\ Reads(target, field)' = {v.value} /\ v \notin S
      BY <2>7
    <3>2. v \in T
      BY <3>1 DEF TopOf
    <3> QED BY <2>3, <2>5, <3>1, <3>2
  <2>8. CASE /\ \A w : TopOf(S, w) /\ Reads(target, field) = {w.value} => w \in T
             /\ \A v : TopOf(T, v) /\ Reads(target, field)' = {v.value} => v \in S
    <3>1. PICK w : TopOf(S, w) /\ Reads(target, field) = {w.value} /\ w \in T
      <4>1. T # {} => \E v : TopOf(T, v) /\ Reads(target, field)' = {v.value} /\ v \in S
        BY <2>1, <2>8
      <4>2. S # {}
        <5>1. S = {} => Reads(target, field) = {}
          BY <2>2 DEF TopOf
        <5>2. S = {} => Reads(target, field)' = {}
          BY <2>1, <4>1 DEF TopOf
        <5> QED BY <5>1, <5>2, <1>3
      <4> QED BY <4>2, <2>2, <2>8
    <3>2. PICK v : TopOf(T, v) /\ Reads(target, field)' = {v.value} /\ v \in S
      BY <2>1, <2>8, <3>1
    <3>3. w = v
      BY <3>1, <3>2 DEF TopOf
    <3> QED BY <1>3, <3>1, <3>2, <3>3
  <2> QED BY <2>6, <2>7, <2>8
<1>4. ReadUntilReplaced
  BY <1>1, <1>3 DEF ReadUntilReplaced
<1>5. ReadAtOnce
  BY <1>1 DEF ReadAtOnce
<1> QED BY <1>4, <1>5

\* Whatever overrides are recorded in which order: one that takes effect at
\* once is read, and goes on to be read until it is replaced or runs out.
THEOREM LatestOverrideIsRead == Spec => LatestOverrideReads
<1>1. Types /\ Types' /\ [Next]_timelineVars
        => [ReadAtOnce /\ ReadUntilReplaced]_timelineVars
  <2> SUFFICES ASSUME Types, Types', Next, ~UNCHANGED timelineVars
               PROVE  ReadAtOnce /\ ReadUntilReplaced
    OBVIOUS
  <2>1. ASSUME NEW target \in Targets, NEW row \in scene.edits, RecordOverride(target, row)
        PROVE  ReadAtOnce /\ ReadUntilReplaced
    BY <2>1, RecordedIsRead
  <2>2. CASE Tick
    BY <2>2, TickReplaces
  <2>3. CASE UNCHANGED <<now, overrides>>
    <3>1. \A target, field : Reads(target, field)' = Reads(target, field)
      BY <2>3 DEF Reads
    <3> QED BY <2>3, <3>1 DEF ReadAtOnce, ReadUntilReplaced
  <2> QED BY <2>1, <2>2, <2>3 DEF Next, Done, RecordHook, RecordSample
<1> QED BY <1>1, TimelineTypes, PTL DEF Spec, LatestOverrideReads

-----------------------------------------------------------------------------
(* Sorted rows *)

MinOf(a, b) == IF a <= b THEN a ELSE b
MaxOf(a, b) == IF a >= b THEN a ELSE b

\* The smaller and the larger of two numbers.
LEMMA MinMaxOfTwo ==
    ASSUME NEW a \in Int, NEW b \in Int
    PROVE  Min({a, b}) = MinOf(a, b) /\ Max({a, b}) = MaxOf(a, b)
<1>1. (\E x \in {a, b} : \A y \in {a, b} : x <= y) /\ (\E x \in {a, b} : \A y \in {a, b} : x >= y)
  OBVIOUS
<1> QED
  BY <1>1 DEF Min, Max, MinOf, MaxOf

\* Numbers in order: each once, increasing.
LEMMA NumbersInOrder ==
    ASSUME NEW S \in SUBSET Int, IsFiniteSet(S)
    PROVE  /\ Cardinality(S) \in Nat
           /\ InOrder(S) \in [1 .. Cardinality(S) -> S]
           /\ \A x \in S : \E i \in 1 .. Cardinality(S) : InOrder(S)[i] = x
           /\ \A i, j \in 1 .. Cardinality(S) : i < j => InOrder(S)[i] < InOrder(S)[j]
<1> DEFINE B == [x \in S |-> {k \in S : k < x}]
           o == InOrder(S)
<1>1. B \in [S -> SUBSET S] /\ \A x, y \in S : x \in B[y] <=> x < y
  OBVIOUS
<1>2. /\ o = [i \in 1 .. Cardinality(S) |-> o[i]]
      /\ \A i \in 1 .. Cardinality(S) :
            (\E x \in S : Cardinality(B[x]) = i - 1)
               => o[i] \in S /\ Cardinality(B[o[i]]) = i - 1
  <2>1. o = [i \in 1 .. Cardinality(S) |-> o[i]]
    BY SMTT(30) DEF InOrder
  <2>2. ASSUME NEW i \in 1 .. Cardinality(S), \E x \in S : Cardinality(B[x]) = i - 1
        PROVE  o[i] \in S /\ Cardinality(B[o[i]]) = i - 1
    <3>1. \E x \in S : Cardinality({k \in S : k < x}) = i - 1
      BY <2>2
    <3>2. o[i] = CHOOSE x \in S : Cardinality({k \in S : k < x}) = i - 1
      BY DEF InOrder
    <3> QED BY <3>1, <3>2
  <2> QED BY <2>1, <2>2
<1>3. \A x, y \in S : x \in B[y] => B[x] \subseteq B[y]
  <2> SUFFICES ASSUME NEW x \in S, NEW y \in S, x \in B[y], NEW z \in B[x]
               PROVE  z \in B[y]
    OBVIOUS
  <2>1. z \in S
    BY <1>1
  <2> HIDE DEF B
  <2> QED BY <1>1, <2>1
<1> HIDE DEF B, o
<1>4. /\ \A x \in S : x \notin B[x]
      /\ \A x, y \in S : x # y => x \in B[y] \/ y \in B[x]
  BY <1>1
<1>5. /\ Cardinality(S) \in Nat
      /\ o \in [1 .. Cardinality(S) -> S]
      /\ \A i \in 1 .. Cardinality(S) : Cardinality(B[o[i]]) = i - 1
      /\ \A x \in S : /\ Cardinality(B[x]) + 1 \in 1 .. Cardinality(S)
                      /\ o[Cardinality(B[x]) + 1] = x
      /\ \A i, j \in 1 .. Cardinality(S) : o[i] \in B[o[j]] <=> i < j
  <2>1. IsFiniteSet(S) /\ B \in [S -> SUBSET S]
    BY <1>1
  <2> QED BY <1>2, <1>3, <1>4, <2>1, Sorting
<1>6. \A i, j \in 1 .. Cardinality(S) : i < j => o[i] < o[j]
  BY <1>1, <1>5
<1> QED BY <1>5, <1>6 DEF o

\* Rows that can be put in order, and the place of a row in it.
Distinct(rows) ==
    /\ IsFiniteSet(rows)
    /\ \A r \in rows : r.at \in Nat /\ r.id \in Int
    /\ \A r, s \in rows : r.at = s.at /\ r.id = s.id => r = s
Place(rows, r) == Cardinality({s \in rows : Before(s, r)}) + 1

\* Rows in order: each at its place, later ones behind.
LEMMA RowsInOrder ==
    ASSUME NEW rows, Distinct(rows)
    PROVE  /\ Ordered(rows) \in Seq(rows)
           /\ Len(Ordered(rows)) = Cardinality(rows) /\ Cardinality(rows) \in Nat
           /\ \A r \in rows : /\ Place(rows, r) \in 1 .. Cardinality(rows)
                              /\ Ordered(rows)[Place(rows, r)] = r
           /\ \A i \in 1 .. Cardinality(rows) : Place(rows, Ordered(rows)[i]) = i
           /\ \A i, j \in 1 .. Cardinality(rows) :
                 i < j => Ordered(rows)[i].at <= Ordered(rows)[j].at
<1> DEFINE B == [r \in rows |-> {s \in rows : Before(s, r)}]
           o == Ordered(rows)
           n == Cardinality(rows)
<1>1. B \in [rows -> SUBSET rows] /\ \A r, s \in rows : r \in B[s] <=> Before(r, s)
  OBVIOUS
<1>2. /\ o = [i \in 1 .. Cardinality(rows) |-> o[i]]
      /\ \A i \in 1 .. Cardinality(rows) :
            (\E r \in rows : Cardinality(B[r]) = i - 1)
               => o[i] \in rows /\ Cardinality(B[o[i]]) = i - 1
  <2>1. o = [i \in 1 .. Cardinality(rows) |-> o[i]]
    BY SMTT(30) DEF Ordered
  <2>2. ASSUME NEW i \in 1 .. Cardinality(rows), \E r \in rows : Cardinality(B[r]) = i - 1
        PROVE  o[i] \in rows /\ Cardinality(B[o[i]]) = i - 1
    <3>1. \E r \in rows : Cardinality({s \in rows : Before(s, r)}) = i - 1
      BY <2>2
    <3>2. o[i] = CHOOSE r \in rows : Cardinality({s \in rows : Before(s, r)}) = i - 1
      BY DEF Ordered
    <3> QED BY <3>1, <3>2
  <2> QED BY <2>1, <2>2
<1>3. /\ \A r \in rows : ~Before(r, r)
      /\ \A r, s \in rows : r # s => Before(r, s) \/ Before(s, r)
      /\ \A q, r, s \in rows : Before(q, r) /\ Before(r, s) => Before(q, s)
      /\ \A r, s \in rows : Before(r, s) => r.at <= s.at
  BY DEF Distinct, Before
<1>4. ASSUME NEW r \in rows
      PROVE  Place(rows, r) = Cardinality(B[r]) + 1
  BY DEF Place
<1>5. \A r, s \in rows : r \in B[s] => B[r] \subseteq B[s]
  <2> SUFFICES ASSUME NEW r \in rows, NEW s \in rows, r \in B[s], NEW q \in B[r]
               PROVE  q \in B[s]
    OBVIOUS
  <2>1. q \in rows
    BY <1>1
  <2> HIDE DEF B
  <2> QED BY <1>1, <1>3, <2>1
<1>6. IsFiniteSet(rows)
  BY DEF Distinct
<1> HIDE DEF B, o
<1>7. /\ \A r \in rows : r \notin B[r]
      /\ \A r, s \in rows : r # s => r \in B[s] \/ s \in B[r]
  BY <1>1, <1>3
<1>8. /\ n \in Nat
      /\ o \in [1 .. n -> rows]
      /\ \A i \in 1 .. n : Cardinality(B[o[i]]) = i - 1
      /\ \A r \in rows : /\ Cardinality(B[r]) + 1 \in 1 .. n
                         /\ o[Cardinality(B[r]) + 1] = r
      /\ \A i, j \in 1 .. n : o[i] \in B[o[j]] <=> i < j
  BY <1>1, <1>2, <1>5, <1>6, <1>7, Sorting, ZenonT(40)
<1> HIDE DEF n
<1>9. o \in Seq(rows) /\ Len(o) = n
  BY <1>8
<1>10. \A i, j \in 1 .. n : i < j => o[i].at <= o[j].at
  BY <1>1, <1>3, <1>8
<1>11. ASSUME NEW i \in 1 .. n
       PROVE  Place(rows, o[i]) = i
  <2>1. o[i] \in rows /\ Cardinality(B[o[i]]) = i - 1
    BY <1>8
  <2>2. Place(rows, o[i]) = Cardinality(B[o[i]]) + 1
    BY <1>4, <2>1
  <2> QED BY <2>1, <2>2
<1>12. ASSUME NEW r \in rows
       PROVE  Place(rows, r) \in 1 .. n /\ o[Place(rows, r)] = r
  BY <1>4, <1>8
<1> QED BY <1>8, <1>9, <1>10, <1>11, <1>12 DEF o, n

\* A lane's rows: in order of time.
Sorted(seq) ==
    /\ seq \in Seq({seq[i] : i \in DOMAIN seq})
    /\ \A i \in 1 .. Len(seq) : seq[i].at \in Nat
    /\ \A i, j \in 1 .. Len(seq) : i < j => seq[i].at <= seq[j].at

\* Rows in order are a lane's rows.
LEMMA OrderedSorted ==
    ASSUME NEW rows, Distinct(rows)
    PROVE  Sorted(Ordered(rows))
<1> DEFINE o == Ordered(rows)
           n == Cardinality(rows)
<1>1. o \in Seq(rows) /\ Len(o) = n /\ n \in Nat
  BY RowsInOrder
<1>2. \A i, j \in 1 .. n : i < j => o[i].at <= o[j].at
  BY RowsInOrder
<1>3. \A i \in 1 .. n : o[i].at \in Nat
  BY <1>1 DEF Distinct
<1> HIDE DEF o, n
<1>4. DOMAIN o = 1 .. n
  BY <1>1
<1>5. o \in Seq({o[i] : i \in DOMAIN o})
  <2>1. \A i \in 1 .. n : o[i] \in {o[k] : k \in DOMAIN o}
    BY <1>4
  <2>2. o \in [1 .. n -> {o[k] : k \in DOMAIN o}]
    BY <1>1, <1>4, <2>1
  <2> QED BY <1>1, <2>2
<1> QED BY <1>1, <1>2, <1>3, <1>5 DEF Sorted, o

\* The last row at or before an instant has it and the rows before it at or
\* before that instant, and the others after it.
LEMMA LastRow ==
    ASSUME NEW seq, Sorted(seq), NEW t \in Nat
    PROVE  /\ LastAt(seq, t) \in 0 .. Len(seq)
           /\ \A j \in 1 .. Len(seq) : seq[j].at <= t <=> j <= LastAt(seq, t)
<1> DEFINE n == Len(seq)
           A == {0} \cup {i \in DOMAIN seq : seq[i].at <= t}
           Down == {n - i : i \in A}
<1>1. n \in Nat /\ DOMAIN seq = 1 .. n
  BY DEF Sorted
<1>2. A \subseteq 0 .. n /\ 0 \in A
  BY <1>1
<1>3. PICK d \in Down : \A e \in Down : d <= e
  <2>1. Down \in SUBSET Nat /\ Down # {}
    BY <1>1, <1>2
  <2> HIDE DEF Down
  <2> QED BY <2>1, LeastNat
<1>4. PICK i \in A : d = n - i
  OBVIOUS
<1>5. \A j \in A : i >= j
  <2> SUFFICES ASSUME NEW j \in A PROVE i >= j
    OBVIOUS
  <2>1. n - j \in Down
    OBVIOUS
  <2>2. n - i <= n - j /\ i \in 0 .. n /\ j \in 0 .. n
    BY <1>2, <1>3, <1>4, <2>1
  <2> QED BY <1>1, <2>2
<1>6. LastAt(seq, t) \in A /\ \A j \in A : LastAt(seq, t) >= j
  <2> HIDE DEF A
  <2>1. LastAt(seq, t) = CHOOSE x \in A : \A y \in A : x >= y
    BY DEF LastAt, Max, A
  <2> QED BY <1>5, <2>1
<1> DEFINE last == LastAt(seq, t)
<1>7. ASSUME NEW j \in 1 .. n
      PROVE  seq[j].at <= t <=> j <= last
  <2>1. seq[j].at <= t => j \in A
    BY <1>1
  <2>2. last \in 0 .. n /\ (last # 0 => seq[last].at <= t)
    BY <1>2, <1>6
  <2> HIDE DEF A, last
  <2>3. ASSUME j < last
        PROVE  seq[j].at <= t
    <3>1. last \in 1 .. n /\ seq[j].at \in Nat /\ seq[last].at \in Nat
      BY <1>1, <2>2, <2>3 DEF Sorted
    <3>2. seq[j].at <= seq[last].at
      BY <2>3, <3>1 DEF Sorted
    <3> QED BY <2>2, <3>1, <3>2
  <2>4. seq[j].at <= t => j <= last
    BY <1>1, <1>2, <1>6, <2>1, <2>2 DEF last
  <2> QED BY <2>2, <2>3, <2>4
<1> HIDE DEF A, last, n
<1> QED BY <1>2, <1>6, <1>7 DEF last, n

-----------------------------------------------------------------------------
(* Pieces, and what they show *)

Listed(seq) == Len(seq) \in Nat /\ seq = [i \in 1 .. Len(seq) |-> seq[i]]

Piece(p) == p = [f \in DOMAIN p |-> p[f]] /\ {"start", "end"} \subseteq DOMAIN p
            /\ p.start \in Int /\ p.end \in Int
Pieces(seq) == Listed(seq) /\ \A i \in 1 .. Len(seq) : Piece(seq[i])

\* The same but for the interval.
Same(p, q) ==
    DOMAIN p = DOMAIN q /\ \A f \in DOMAIN p \ {"start", "end"} : p[f] = q[f]

Covers(p, t) == p.start <= t /\ t < p.end
Within(window, t) == window.start <= t /\ t < window.end
Window(window) == window.start \in Int /\ window.end \in Int

\* One after the other, with or without gaps.
InTurn(seq) == \A i, j \in 1 .. Len(seq) : i < j => seq[i].end <= seq[j].start

\* A clipped piece covers what it covered of the window.
LEMMA ClipCovers ==
    ASSUME NEW p, Piece(p), NEW window, Window(window)
    PROVE  /\ Piece(Clip(p, window)) /\ Same(Clip(p, window), p)
           /\ Clip(p, window).start = MaxOf(p.start, window.start)
           /\ Clip(p, window).end = MinOf(p.end, window.end)
           /\ \A t \in Int : Covers(Clip(p, window), t) <=> Covers(p, t) /\ Within(window, t)
<1> DEFINE c == Clip(p, window)
<1>1. p.start \in Int /\ p.end \in Int /\ window.start \in Int /\ window.end \in Int
  BY DEF Piece, Window
<1>2. Max({p.start, window.start}) = MaxOf(p.start, window.start)
      /\ Min({p.end, window.end}) = MinOf(p.end, window.end)
  BY <1>1, MinMaxOfTwo
<1>3. c = [p EXCEPT !.start = MaxOf(p.start, window.start), !.end = MinOf(p.end, window.end)]
  BY <1>2 DEF Clip
<1>4. /\ DOMAIN c = DOMAIN p
      /\ c.start = MaxOf(p.start, window.start)
      /\ c.end = MinOf(p.end, window.end)
      /\ \A f \in DOMAIN p \ {"start", "end"} : c[f] = p[f]
      /\ c = [f \in DOMAIN c |-> c[f]]
  BY <1>3 DEF Piece
<1> HIDE DEF c
<1>5. c.start \in Int /\ c.end \in Int
  BY <1>1, <1>4 DEF MaxOf, MinOf
<1>6. \A t \in Int : Covers(c, t) <=> Covers(p, t) /\ Within(window, t)
  BY <1>1, <1>4 DEF MaxOf, MinOf, Covers, Within
<1> QED BY <1>4, <1>5, <1>6 DEF c, Piece, Same

\* The clipped pieces are those that have something in the window, in turn.
LEMMA ClippedPlaces ==
    ASSUME NEW pieces, Pieces(pieces), NEW window, Window(window)
    PROVE  LET c == Clipped(pieces, window) IN
           /\ Listed(c)
           /\ \E place \in [1 .. Len(c) -> 1 .. Len(pieces)] :
                /\ \A k, l \in 1 .. Len(c) : k < l => place[k] < place[l]
                /\ \A k \in 1 .. Len(c) : /\ c[k] = Clip(pieces[place[k]], window)
                                          /\ c[k].start < c[k].end
                /\ \A i \in 1 .. Len(pieces) :
                      Clip(pieces[i], window).start < Clip(pieces[i], window).end
                         => \E k \in 1 .. Len(c) : place[k] = i
<1> DEFINE clip == [i \in DOMAIN pieces |-> Clip(pieces[i], window)]
           S == {i \in DOMAIN pieces : clip[i].end > clip[i].start}
           n == Cardinality(S)
           kept == InOrder(S)
           c == Clipped(pieces, window)
<1>1. DOMAIN pieces = 1 .. Len(pieces) /\ Len(pieces) \in Nat
  BY DEF Pieces, Listed
<1>2. S \in SUBSET (1 .. Len(pieces)) /\ S \in SUBSET Int /\ IsFiniteSet(S)
  <2>1. IsFiniteSet(1 .. Len(pieces))
    BY <1>1, FS_Interval
  <2>2. S \in SUBSET (1 .. Len(pieces))
    BY <1>1
  <2>3. S \in SUBSET Int
    BY <1>1
  <2> HIDE DEF S
  <2>4. IsFiniteSet(S)
    BY <2>1, <2>2, FS_Subset
  <2> QED BY <2>2, <2>3, <2>4
<1>3. \A i \in 1 .. Len(pieces) :
         /\ clip[i] = Clip(pieces[i], window)
         /\ Clip(pieces[i], window).start \in Int /\ Clip(pieces[i], window).end \in Int
  BY <1>1, ClipCovers DEF Pieces, Piece
<1>4. \A i \in 1 .. Len(pieces) :
         i \in S <=> Clip(pieces[i], window).start < Clip(pieces[i], window).end
  BY <1>1, <1>3
<1>5. c = [k \in DOMAIN kept |-> clip[kept[k]]]
  BY DEF Clipped
<1> HIDE DEF S, clip, c
<1>6. /\ n \in Nat /\ kept \in [1 .. n -> S]
      /\ \A x \in S : \E i \in 1 .. n : kept[i] = x
      /\ \A i, j \in 1 .. n : i < j => kept[i] < kept[j]
  BY <1>2, NumbersInOrder
<1> HIDE DEF kept, n
<1>7. c = [k \in 1 .. n |-> clip[kept[k]]] /\ Len(c) = n
  BY <1>5, <1>6
<1>8. Listed(c)
  BY <1>6, <1>7 DEF Listed
<1>9. kept \in [1 .. Len(c) -> 1 .. Len(pieces)]
  BY <1>2, <1>6, <1>7
<1>10. \A k \in 1 .. Len(c) : c[k] = Clip(pieces[kept[k]], window) /\ c[k].start < c[k].end
  BY <1>2, <1>3, <1>4, <1>6, <1>7
<1> QED BY <1>4, <1>6, <1>7, <1>8, <1>9, <1>10 DEF c

Tidy(seq, window) ==
    /\ Pieces(seq)
    /\ InTurn(seq)
    /\ \A k \in 1 .. Len(seq) : /\ seq[k].start < seq[k].end
                                /\ window.start <= seq[k].start /\ seq[k].end <= window.end

\* Clipping tidies up, and shows in the window what was shown there.
LEMMA ClippedTidy ==
    ASSUME NEW pieces, Pieces(pieces), NEW window, Window(window)
    PROVE  LET c == Clipped(pieces, window) IN
           /\ InTurn(pieces) => Tidy(c, window)
           /\ Pieces(c) /\ \A k \in 1 .. Len(c) : c[k].start < c[k].end
           /\ \A k \in 1 .. Len(c) : \E i \in 1 .. Len(pieces) :
                 /\ Same(c[k], pieces[i])
                 /\ \A t \in Int : Covers(c[k], t) <=> Covers(pieces[i], t) /\ Within(window, t)
           /\ \A i \in 1 .. Len(pieces) : \A t \in Int :
                 Covers(pieces[i], t) /\ Within(window, t) =>
                    \E k \in 1 .. Len(c) : Same(c[k], pieces[i]) /\ Covers(c[k], t)
<1> DEFINE c == Clipped(pieces, window)
           m == Len(c)
           n == Len(pieces)
<1>1. Listed(c)
  BY ClippedPlaces
<1>2. PICK place \in [1 .. m -> 1 .. n] :
        /\ \A k, l \in 1 .. m : k < l => place[k] < place[l]
        /\ \A k \in 1 .. m : /\ c[k] = Clip(pieces[place[k]], window)
                             /\ c[k].start < c[k].end
        /\ \A i \in 1 .. n : Clip(pieces[i], window).start < Clip(pieces[i], window).end
                                => \E k \in 1 .. m : place[k] = i
  BY ClippedPlaces
<1>3. \A i \in 1 .. n : Piece(pieces[i])
  BY DEF Pieces
<1> HIDE DEF c, m
<1>4. ASSUME NEW i \in 1 .. n
      PROVE  /\ Piece(Clip(pieces[i], window)) /\ Same(Clip(pieces[i], window), pieces[i])
             /\ Clip(pieces[i], window).start = MaxOf(pieces[i].start, window.start)
             /\ Clip(pieces[i], window).end = MinOf(pieces[i].end, window.end)
             /\ \A t \in Int : Covers(Clip(pieces[i], window), t)
                                 <=> Covers(pieces[i], t) /\ Within(window, t)
  BY <1>3, ClipCovers
<1>5. ASSUME NEW k \in 1 .. m
      PROVE  /\ Piece(c[k]) /\ Same(c[k], pieces[place[k]])
             /\ c[k].start = MaxOf(pieces[place[k]].start, window.start)
             /\ c[k].end = MinOf(pieces[place[k]].end, window.end)
             /\ \A t \in Int : Covers(c[k], t) <=> Covers(pieces[place[k]], t) /\ Within(window, t)
  <2>1. place[k] \in 1 .. n /\ c[k] = Clip(pieces[place[k]], window)
    BY <1>2
  <2> QED BY <2>1, <1>4
<1>6. Pieces(c)
  BY <1>1, <1>5 DEF Pieces, m
<1>7. ASSUME InTurn(pieces)
      PROVE  Tidy(c, window)
  <2>1. ASSUME NEW k \in 1 .. m, NEW l \in 1 .. m, k < l
        PROVE  c[k].end <= c[l].start
    <3>1. place[k] \in 1 .. n /\ place[l] \in 1 .. n /\ place[k] < place[l]
      BY <1>2, <2>1
    <3>2. pieces[place[k]].end <= pieces[place[l]].start
      BY <1>7, <3>1 DEF InTurn
    <3>3. pieces[place[k]].end \in Int /\ pieces[place[l]].start \in Int
          /\ window.start \in Int /\ window.end \in Int
      BY <1>3, <3>1 DEF Piece, Window
    <3> QED BY <1>5, <3>2, <3>3 DEF MinOf, MaxOf
  <2>2. ASSUME NEW k \in 1 .. m
        PROVE  window.start <= c[k].start /\ c[k].end <= window.end
    <3>1. pieces[place[k]].start \in Int /\ pieces[place[k]].end \in Int
          /\ window.start \in Int /\ window.end \in Int
      BY <1>2, <1>3 DEF Piece, Window
    <3> QED BY <1>5, <3>1 DEF MinOf, MaxOf
  <2> QED BY <1>2, <1>6, <2>1, <2>2 DEF Tidy, InTurn, m
<1>8. ASSUME NEW i \in 1 .. n, NEW t \in Int, Covers(pieces[i], t), Within(window, t)
      PROVE  \E k \in 1 .. m : Same(c[k], pieces[i]) /\ Covers(c[k], t)
  <2>1. Covers(Clip(pieces[i], window), t) /\ Piece(Clip(pieces[i], window))
    BY <1>4, <1>8
  <2>2. Clip(pieces[i], window).start < Clip(pieces[i], window).end
    BY <2>1 DEF Covers, Piece
  <2>3. PICK k \in 1 .. m : place[k] = i
    BY <1>2, <2>2
  <2> QED BY <1>5, <1>8, <2>3
<1>9. \A k \in 1 .. m : \E i \in 1 .. n :
         /\ Same(c[k], pieces[i])
         /\ \A t \in Int : Covers(c[k], t) <=> Covers(pieces[i], t) /\ Within(window, t)
  <2> TAKE k \in 1 .. m
  <2>1. place[k] \in 1 .. n
    BY <1>2
  <2> QED BY <1>5, <2>1
<1> HIDE DEF n
<1> QED BY <1>2, <1>6, <1>7, <1>8, <1>9 DEF c, m, n

\* Two lists, one after the other.
LEMMA Joined ==
    ASSUME NEW S, NEW a \in Seq(S), NEW b \in Seq(S)
    PROVE  /\ a \o b \in Seq(S)
           /\ Len(a) \in Nat /\ Len(b) \in Nat
           /\ Len(a \o b) = Len(a) + Len(b)
           /\ \A i \in 1 .. Len(a) : (a \o b)[i] = a[i]
           /\ \A i \in 1 .. Len(b) : (a \o b)[Len(a) + i] = b[i]
OBVIOUS

\* What appending a piece makes of a list.
LEMMA AppendCases ==
    ASSUME NEW T, NEW list \in Seq(T), NEW piece \in T,
           \A p \in T : \A e \in Int : [p EXCEPT !.end = e] \in T,
           piece.end \in Int
    PROVE  LET r == AppendSegment(list, piece)
               n == Len(list)
           IN  /\ r \in Seq(T)
               /\ \/ /\ n > 0 /\ list[n].end = piece.start /\ SameMetadata(list[n], piece)
                     /\ Len(r) = n
                     /\ \A k \in 1 .. n - 1 : r[k] = list[k]
                     /\ r[n] = [list[n] EXCEPT !.end = piece.end]
                  \/ /\ Len(r) = n + 1
                     /\ \A k \in 1 .. n : r[k] = list[k]
                     /\ r[n + 1] = piece
<1> DEFINE n == Len(list)
           r == AppendSegment(list, piece)
           joined == [list EXCEPT ![n].end = piece.end]
<1>1. n \in Nat /\ \A k \in 1 .. n : list[k] \in T
  OBVIOUS
<1>2. CASE list # <<>> /\ list[n].end = piece.start /\ SameMetadata(list[n], piece)
  <2>1. r = joined
    BY <1>2 DEF AppendSegment, Last
  <2>2. n > 0
    BY <1>2
  <2>3. [list[n] EXCEPT !.end = piece.end] \in T
    BY <1>1, <2>2
  <2>4. joined \in Seq(T) /\ Len(joined) = n
        /\ joined[n] = [list[n] EXCEPT !.end = piece.end]
        /\ \A k \in 1 .. n - 1 : joined[k] = list[k]
    BY <1>1, <2>2, <2>3
  <2> QED BY <1>2, <2>1, <2>2, <2>4
<1>3. CASE ~(list # <<>> /\ list[n].end = piece.start /\ SameMetadata(list[n], piece))
  <2>1. r = list \o <<piece>>
    BY <1>3 DEF AppendSegment, Last
  <2>2. /\ list \o <<piece>> \in Seq(T) /\ Len(list \o <<piece>>) = n + 1
        /\ (list \o <<piece>>)[n + 1] = piece
        /\ \A k \in 1 .. n : (list \o <<piece>>)[k] = list[k]
    BY <1>1
  <2> QED BY <2>1, <2>2
<1> QED BY <1>2, <1>3

\* The pieces and those that grow from them.
Grown(pieces) == {[pieces[i] EXCEPT !.end = e] : i \in 1 .. Len(pieces), e \in Int}

\* Segments is what appending one piece after the other ends with.
LEMMA SegmentsSteps ==
    ASSUME NEW pieces, Pieces(pieces)
    PROVE  /\ \A p \in Grown(pieces) : Piece(p) /\ \A e \in Int : [p EXCEPT !.end = e] \in Grown(pieces)
           /\ \A i \in 1 .. Len(pieces) : pieces[i] \in Grown(pieces)
           /\ \E upTo : /\ upTo[0] = <<>>
                        /\ \A i \in 1 .. Len(pieces) :
                              upTo[i] = AppendSegment(upTo[i - 1], pieces[i])
                        /\ \A i \in 0 .. Len(pieces) : upTo[i] \in Seq(Grown(pieces))
                        /\ Segments(pieces) = upTo[Len(pieces)]
<1> DEFINE n == Len(pieces)
           T == Grown(pieces)
           step == [i \in 1 .. n |-> [list \in Seq(T) |-> AppendSegment(list, pieces[i])]]
           types == [i \in 0 .. n |-> Seq(T)]
<1>1. n \in Nat /\ \A i \in 1 .. n : Piece(pieces[i])
  BY DEF Pieces, Listed
<1>2. ASSUME NEW p \in T
      PROVE  Piece(p) /\ \A e \in Int : [p EXCEPT !.end = e] \in T
  <2>1. PICK i \in 1 .. n, d \in Int : p = [pieces[i] EXCEPT !.end = d]
    BY DEF Grown
  <2>2. Piece(pieces[i])
    BY <1>1
  <2>3. Piece(p)
    BY <2>1, <2>2 DEF Piece
  <2>4. ASSUME NEW e \in Int
        PROVE  [p EXCEPT !.end = e] = [pieces[i] EXCEPT !.end = e]
    BY <2>1, <2>2 DEF Piece
  <2> QED BY <2>3, <2>4 DEF Grown
<1>3. ASSUME NEW i \in 1 .. n
      PROVE  pieces[i] \in T
  <2>1. Piece(pieces[i])
    BY <1>1
  <2>2. pieces[i] = [pieces[i] EXCEPT !.end = pieces[i].end] /\ pieces[i].end \in Int
    BY <2>1 DEF Piece
  <2> QED BY <2>2 DEF Grown
<1> HIDE DEF T, n
<1>4. ASSUME NEW i \in 1 .. n, NEW list \in Seq(T)
      PROVE  AppendSegment(list, pieces[i]) \in Seq(T)
  <2>1. pieces[i].end \in Int
    BY <1>1 DEF Piece
  <2> QED BY <1>2, <1>3, <2>1, AppendCases
<1>5. <<>> \in types[0] /\ \A i \in 1 .. n : \A x \in types[i - 1] : step[i][x] \in types[i]
  <2>1. <<>> \in types[0]
    BY <1>1
  <2>2. ASSUME NEW i \in 1 .. n, NEW x \in types[i - 1]
        PROVE  step[i][x] \in types[i]
    <3>1. i - 1 \in 0 .. n /\ i \in 0 .. n
      BY <1>1
    <3> QED BY <1>4, <3>1
  <2> QED BY <2>1, <2>2
<1>6. PICK u : Follows(u, n, <<>>, step) /\ \A i \in 0 .. n : u[i] \in types[i]
  <2> HIDE DEF step, types
  <2> QED BY <1>1, <1>5, RecursionDefined
<1>7. \A i \in 0 .. n : u[i] \in Seq(T)
  BY <1>6
<1>8. ASSUME NEW i \in 0 .. n
      PROVE  u[i] = IF i = 0 THEN <<>> ELSE AppendSegment(u[i - 1], pieces[i])
  <2>1. u = [k \in 0 .. n |-> IF k = 0 THEN <<>> ELSE step[k][u[k - 1]]]
    BY <1>6 DEF Follows
  <2>2. u[i] = IF i = 0 THEN <<>> ELSE step[i][u[i - 1]]
    BY <2>1
  <2>3. i # 0 => i \in 1 .. n /\ i - 1 \in 0 .. n
    BY <1>1
  <2> QED BY <1>7, <2>2, <2>3
<1>9. u = [i \in 0 .. n |-> IF i = 0 THEN <<>> ELSE AppendSegment(u[i - 1], pieces[i])]
  <2>1. u = [k \in 0 .. n |-> IF k = 0 THEN <<>> ELSE step[k][u[k - 1]]]
    BY <1>6 DEF Follows
  <2>2. DOMAIN u = 0 .. n /\ u = [i \in 0 .. n |-> u[i]]
    BY <2>1
  <2> QED BY <1>8, <2>2
<1> DEFINE Rec(f) == f = [i \in 0 .. Len(pieces) |->
                            IF i = 0 THEN <<>> ELSE AppendSegment(f[i - 1], pieces[i])]
           v == CHOOSE f : Rec(f)
<1>10. Segments(pieces) = v[Len(pieces)]
  BY DEF Segments
<1>11. Rec(v)
  <2>1. Rec(u)
    BY <1>9 DEF n
  <2> HIDE DEF Rec
  <2> QED BY <2>1
<1>12. \A i \in 0 .. n : v[i] = IF i = 0 THEN <<>> ELSE AppendSegment(v[i - 1], pieces[i])
  <2> HIDE DEF v
  <2> QED BY <1>11 DEF n
<1> HIDE DEF v, Rec
<1>13. \A i \in 0 .. n : v[i] \in Seq(T)
  <2> DEFINE A == {i \in 0 .. n : v[i] \in Seq(T)}
  <2>1. 0 \in A
    <3>1. 0 \in 0 .. n /\ <<>> \in Seq(T)
      BY <1>1
    <3>2. v[0] = <<>>
      BY <1>12, <3>1
    <3> QED BY <3>1, <3>2
  <2>2. ASSUME NEW i \in 1 .. n, i - 1 \in A
        PROVE  i \in A
    <3>1. v[i - 1] \in Seq(T) /\ i \in 0 .. n /\ i # 0
      BY <1>1, <2>2
    <3> QED BY <1>4, <1>12, <3>1
  <2>3. \A i \in 0 .. n : i \in A
    <3> HIDE DEF A
    <3> QED BY <1>1, <2>1, <2>2, Induct
  <2> QED BY <2>3
<1>14. v[0] = <<>> /\ \A i \in 1 .. n : v[i] = AppendSegment(v[i - 1], pieces[i])
  BY <1>1, <1>12
<1> QED BY <1>2, <1>3, <1>10, <1>13, <1>14 DEF n, T

\* Joining keeps a list tidy: what touches is one piece, and the rest in turn.
LEMMA AppendTidy ==
    ASSUME NEW T, \A p \in T : Piece(p) /\ \A e \in Int : [p EXCEPT !.end = e] \in T,
           NEW window, Window(window), NEW list \in Seq(T), NEW piece \in T,
           Tidy(list, window), piece.start < piece.end,
           window.start <= piece.start, piece.end <= window.end,
           Len(list) > 0 => list[Len(list)].end <= piece.start
    PROVE  LET r == AppendSegment(list, piece) IN
           Tidy(r, window) /\ Len(r) > 0 /\ r[Len(r)].end = piece.end
<1> DEFINE n == Len(list)
           r == AppendSegment(list, piece)
<1>1. /\ n \in Nat
      /\ Piece(piece) /\ \A k \in 1 .. n : list[k] \in T /\ Piece(list[k])
      /\ window.start \in Int /\ window.end \in Int
      /\ piece.start \in Int /\ piece.end \in Int
      /\ \A k \in 1 .. n : list[k].start \in Int /\ list[k].end \in Int
  BY DEF Window, Piece
<1>2. /\ r \in Seq(T)
      /\ \/ /\ n > 0 /\ list[n].end = piece.start /\ SameMetadata(list[n], piece)
            /\ Len(r) = n
            /\ \A k \in 1 .. n - 1 : r[k] = list[k]
            /\ r[n] = [list[n] EXCEPT !.end = piece.end]
         \/ /\ Len(r) = n + 1
            /\ \A k \in 1 .. n : r[k] = list[k]
            /\ r[n + 1] = piece
  BY <1>1, AppendCases, ZenonT(40)
<1>3. /\ \A k \in 1 .. n : list[k].start < list[k].end /\ window.start <= list[k].start
                           /\ list[k].end <= window.end
      /\ \A i, j \in 1 .. n : i < j => list[i].end <= list[j].start
  BY DEF Tidy, InTurn
<1> SUFFICES Tidy(r, window) /\ Len(r) > 0 /\ r[Len(r)].end = piece.end
  OBVIOUS
<1> HIDE DEF r
<1>4. Pieces(r)
  <2>1. Len(r) \in Nat /\ \A k \in 1 .. Len(r) : r[k] \in T
    BY <1>2
  <2>2. r = [i \in 1 .. Len(r) |-> r[i]]
    BY <1>2
  <2> QED BY <2>1, <2>2 DEF Pieces, Listed
<1>5. CASE /\ n > 0 /\ list[n].end = piece.start
           /\ Len(r) = n
           /\ \A k \in 1 .. n - 1 : r[k] = list[k]
           /\ r[n] = [list[n] EXCEPT !.end = piece.end]
  <2>1. n \in 1 .. n
    BY <1>1, <1>5
  <2>2. r[n].start = list[n].start /\ r[n].end = piece.end
    BY <1>1, <1>5, <2>1 DEF Piece
  <2>3. \A k \in 1 .. n : r[k].start = list[k].start
                          /\ r[k].end = IF k = n THEN piece.end ELSE list[k].end
    <3>1. \A k \in 1 .. n : k = n \/ k \in 1 .. n - 1
      BY <1>1
    <3>2. \A k \in 1 .. n - 1 : r[k] = list[k] /\ k # n
      BY <1>1, <1>5
    <3> QED BY <2>2, <3>1, <3>2
  <2>4. \A k \in 1 .. n : r[k].start < r[k].end /\ window.start <= r[k].start
                          /\ r[k].end <= window.end
    BY <1>1, <1>3, <1>5, <2>1, <2>3
  <2>5. ASSUME NEW i \in 1 .. n, NEW j \in 1 .. n, i < j
        PROVE  r[i].end <= r[j].start
    <3>1. i # n
      BY <1>1, <2>5
    <3>2. r[i].end = list[i].end /\ r[j].start = list[j].start
      BY <2>3, <3>1
    <3> QED BY <1>3, <2>5, <3>2
  <2>6. Tidy(r, window)
    BY <1>4, <1>5, <2>4, <2>5 DEF Tidy, InTurn
  <2> QED BY <1>5, <2>2, <2>6
<1>6. CASE /\ Len(r) = n + 1
           /\ \A k \in 1 .. n : r[k] = list[k]
           /\ r[n + 1] = piece
  <2>1. \A k \in 1 .. n + 1 : k = n + 1 \/ k \in 1 .. n
    BY <1>1
  <2>2. \A k \in 1 .. n + 1 : r[k].start < r[k].end /\ window.start <= r[k].start
                              /\ r[k].end <= window.end
    BY <1>3, <1>6, <2>1
  <2>3. \A k \in 1 .. n : list[k].end <= piece.start
    <3>1. n > 0 => n \in 1 .. n /\ list[n].end <= piece.start
      BY <1>1
    <3>2. \A k \in 1 .. n : k = n \/ (k < n /\ n \in 1 .. n)
      BY <1>1
    <3> QED
      <4> SUFFICES ASSUME NEW k \in 1 .. n PROVE list[k].end <= piece.start
        OBVIOUS
      <4>1. CASE k = n
        BY <1>1, <3>1, <4>1
      <4>2. CASE k < n /\ n \in 1 .. n
        <5>1. /\ list[k].end <= list[n].start /\ list[n].start < list[n].end
              /\ list[n].end <= piece.start
          BY <1>1, <1>3, <3>1, <4>2
        <5>2. /\ list[k].end \in Int /\ list[n].start \in Int /\ list[n].end \in Int
              /\ piece.start \in Int
          BY <1>1, <4>2
        <5> QED BY <5>1, <5>2
      <4> QED BY <3>2, <4>1, <4>2
  <2>4. ASSUME NEW i \in 1 .. n + 1, NEW j \in 1 .. n + 1, i < j
        PROVE  r[i].end <= r[j].start
    <3>1. i \in 1 .. n
      BY <1>1, <2>4
    <3>2. CASE j = n + 1
      BY <1>6, <2>3, <3>1, <3>2
    <3>3. CASE j \in 1 .. n
      BY <1>3, <1>6, <2>4, <3>1, <3>3
    <3> QED BY <2>1, <3>2, <3>3
  <2>5. Tidy(r, window)
    BY <1>4, <1>6, <2>2, <2>4 DEF Tidy, InTurn
  <2>6. Len(r) > 0 /\ r[Len(r)].end = piece.end
    BY <1>1, <1>6
  <2> QED BY <2>5, <2>6
<1> QED BY <1>2, <1>5, <1>6

\* Segments of tidy pieces are tidy.
LEMMA SegmentsTidy ==
    ASSUME NEW pieces, NEW window, Window(window), Tidy(pieces, window)
    PROVE  Tidy(Segments(pieces), window)
<1> DEFINE n == Len(pieces)
           T == Grown(pieces)
<1>1. Pieces(pieces)
  BY DEF Tidy
<1>2. n \in Nat
  BY <1>1 DEF Pieces, Listed
<1>3. /\ \A p \in T : Piece(p) /\ \A e \in Int : [p EXCEPT !.end = e] \in T
      /\ \A i \in 1 .. n : pieces[i] \in T
  BY <1>1, SegmentsSteps
<1>4. PICK u : /\ u[0] = <<>>
               /\ \A i \in 1 .. n : u[i] = AppendSegment(u[i - 1], pieces[i])
               /\ \A i \in 0 .. n : u[i] \in Seq(T)
               /\ Segments(pieces) = u[n]
  BY <1>1, SegmentsSteps
<1> HIDE DEF T
<1> DEFINE Good(i) == /\ Tidy(u[i], window)
                      /\ Len(u[i]) > 0 => i > 0 /\ u[i][Len(u[i])].end = pieces[i].end
           A == {i \in 0 .. n : Good(i)}
<1>5. 0 \in A
  <2>1. Len(<<>>) = 0 /\ <<>> = [i \in 1 .. 0 |-> <<>>[i]]
    OBVIOUS
  <2>2. Tidy(<<>>, window)
    BY <2>1 DEF Tidy, Pieces, Listed, InTurn
  <2> QED BY <1>2, <1>4, <2>1, <2>2
<1>6. ASSUME NEW i \in 1 .. n, i - 1 \in A
      PROVE  i \in A
  <2> DEFINE list == u[i - 1]
             r == AppendSegment(list, pieces[i])
  <2>1. i - 1 \in 0 .. n /\ i \in 0 .. n
    BY <1>2
  <2>2. list \in Seq(T) /\ pieces[i] \in T /\ u[i] = r
    BY <1>3, <1>4, <2>1
  <2>3. /\ pieces[i].start < pieces[i].end
        /\ window.start <= pieces[i].start /\ pieces[i].end <= window.end
    BY DEF Tidy
  <2>4. Tidy(list, window)
    BY <1>6
  <2>5. Len(list) > 0 => list[Len(list)].end <= pieces[i].start
    <3>1. i - 1 > 0 => i - 1 \in 1 .. n /\ i - 1 < i
      BY <1>2
    <3>2. i - 1 > 0 => pieces[i - 1].end <= pieces[i].start
      BY <3>1 DEF Tidy, InTurn
    <3> QED BY <1>6, <3>2
  <2> HIDE DEF list
  <2>6. Tidy(r, window) /\ Len(r) > 0 /\ r[Len(r)].end = pieces[i].end
    BY <1>3, <2>2, <2>3, <2>4, <2>5, AppendTidy
  <2> HIDE DEF r
  <2>7. i > 0
    BY <1>2
  <2> QED BY <2>1, <2>2, <2>6, <2>7
<1>7. \A i \in 0 .. n : i \in A
  <2> HIDE DEF A, n
  <2> QED BY <1>2, <1>5, <1>6, Induct
<1>8. n \in 0 .. n
  BY <1>2
<1> QED BY <1>4, <1>7, <1>8

\* Some piece of a list that has the same metadata as p covers the instant.
ShowsLike(list, p, t) == \E k \in 1 .. Len(list) : Same(list[k], p) /\ Covers(list[k], t)

\* Joining loses nothing and adds nothing to what is shown.
LEMMA AppendShows ==
    ASSUME NEW T, \A p \in T : Piece(p) /\ \A e \in Int : [p EXCEPT !.end = e] \in T,
           NEW list \in Seq(T), NEW piece \in T,
           \A k \in 1 .. Len(list) : list[k].start < list[k].end,
           piece.start < piece.end, NEW p, NEW t \in Int
    PROVE  LET r == AppendSegment(list, piece) IN
           /\ ShowsLike(r, p, t) <=> \/ ShowsLike(list, p, t)
                                     \/ Same(piece, p) /\ Covers(piece, t)
           /\ \A k \in 1 .. Len(r) : r[k].start < r[k].end
<1> DEFINE n == Len(list)
           r == AppendSegment(list, piece)
<1>1. /\ n \in Nat
      /\ Piece(piece) /\ \A k \in 1 .. n : list[k] \in T /\ Piece(list[k])
      /\ piece.start \in Int /\ piece.end \in Int
      /\ \A k \in 1 .. n : list[k].start \in Int /\ list[k].end \in Int
  BY DEF Piece
<1>2. /\ r \in Seq(T)
      /\ \/ /\ n > 0 /\ list[n].end = piece.start /\ SameMetadata(list[n], piece)
            /\ Len(r) = n
            /\ \A k \in 1 .. n - 1 : r[k] = list[k]
            /\ r[n] = [list[n] EXCEPT !.end = piece.end]
         \/ /\ Len(r) = n + 1
            /\ \A k \in 1 .. n : r[k] = list[k]
            /\ r[n + 1] = piece
  BY <1>1, AppendCases, SMTT(30)
<1> SUFFICES /\ ShowsLike(r, p, t) <=> \/ ShowsLike(list, p, t)
                                       \/ Same(piece, p) /\ Covers(piece, t)
             /\ \A k \in 1 .. Len(r) : r[k].start < r[k].end
  OBVIOUS
<1> HIDE DEF r
<1>3. CASE /\ n > 0 /\ list[n].end = piece.start /\ SameMetadata(list[n], piece)
           /\ Len(r) = n
           /\ \A k \in 1 .. n - 1 : r[k] = list[k]
           /\ r[n] = [list[n] EXCEPT !.end = piece.end]
  <2>1. n \in 1 .. n /\ \A k \in 1 .. n : k = n \/ k \in 1 .. n - 1
    BY <1>1, <1>3
  <2>2. r[n].start = list[n].start /\ r[n].end = piece.end
    BY <1>1, <1>3, <2>1 DEF Piece
  <2>3. Same(r[n], list[n])
    BY <1>1, <1>3, <2>1 DEF Piece, Same
  <2>4. Same(list[n], piece)
    <3>1. list[n] = [piece EXCEPT !.start = list[n].start, !.end = list[n].end]
      BY <1>3 DEF SameMetadata
    <3> QED BY <3>1, <1>1 DEF Piece, Same
  <2>5. Same(r[n], p) <=> Same(list[n], p)
    BY <2>3 DEF Same
  <2>6. Same(list[n], p) <=> Same(piece, p)
    BY <2>4 DEF Same
  <2>7. Covers(r[n], t) <=> Covers(list[n], t) \/ Covers(piece, t)
    BY <1>1, <1>3, <2>1, <2>2 DEF Covers
  <2>8. \A k \in 1 .. n - 1 : r[k] = list[k] /\ k \in 1 .. n
    BY <1>1, <1>3
  <2>9. ShowsLike(r, p, t) <=> \/ ShowsLike(list, p, t)
                               \/ Same(piece, p) /\ Covers(piece, t)
    <3>1. ShowsLike(r, p, t) <=> \/ \E k \in 1 .. n - 1 : Same(list[k], p) /\ Covers(list[k], t)
                                 \/ Same(r[n], p) /\ Covers(r[n], t)
      BY <1>3, <2>1, <2>8, Zenon DEF ShowsLike
    <3>2. ShowsLike(list, p, t) <=> \/ \E k \in 1 .. n - 1 : Same(list[k], p) /\ Covers(list[k], t)
                                    \/ Same(list[n], p) /\ Covers(list[n], t)
      BY <2>1, <2>8, Zenon DEF ShowsLike
    <3> QED BY <3>1, <3>2, <2>5, <2>6, <2>7
  <2>10. r[n].start < r[n].end
    BY <1>1, <1>3, <2>1, <2>2
  <2>11. \A k \in 1 .. n : r[k].start < r[k].end
    BY <2>1, <2>8, <2>10
  <2> QED BY <1>3, <2>9, <2>11
<1>4. CASE /\ Len(r) = n + 1
           /\ \A k \in 1 .. n : r[k] = list[k]
           /\ r[n + 1] = piece
  <2>1. \A k \in 1 .. n + 1 : k = n + 1 \/ k \in 1 .. n
    BY <1>1
  <2>2. n + 1 \in 1 .. n + 1 /\ \A k \in 1 .. n : k \in 1 .. n + 1
    BY <1>1
  <2>3. ShowsLike(r, p, t) <=> \/ ShowsLike(list, p, t)
                               \/ Same(piece, p) /\ Covers(piece, t)
    BY <1>4, <2>1, <2>2, Zenon DEF ShowsLike
  <2>4. \A k \in 1 .. n + 1 : r[k].start < r[k].end
    BY <1>4, <2>1
  <2> QED BY <1>4, <2>3, <2>4
<1> QED BY <1>2, <1>3, <1>4

\* The segments show what the pieces show, and no other.
LEMMA SegmentsShow ==
    ASSUME NEW pieces, Pieces(pieces),
           \A k \in 1 .. Len(pieces) : pieces[k].start < pieces[k].end,
           NEW p, NEW t \in Int
    PROVE  ShowsLike(Segments(pieces), p, t) <=> ShowsLike(pieces, p, t)
<1> DEFINE n == Len(pieces)
           T == Grown(pieces)
<1>1. n \in Nat
  BY DEF Pieces, Listed
<1>2. /\ \A q \in T : Piece(q) /\ \A e \in Int : [q EXCEPT !.end = e] \in T
      /\ \A i \in 1 .. n : pieces[i] \in T
  BY SegmentsSteps
<1>3. PICK u : /\ u[0] = <<>>
               /\ \A i \in 1 .. n : u[i] = AppendSegment(u[i - 1], pieces[i])
               /\ \A i \in 0 .. n : u[i] \in Seq(T)
               /\ Segments(pieces) = u[n]
  BY SegmentsSteps
<1> HIDE DEF T
<1> DEFINE Upto(i) == \E k \in 1 .. i : Same(pieces[k], p) /\ Covers(pieces[k], t)
           Good(i) == /\ ShowsLike(u[i], p, t) <=> Upto(i)
                      /\ \A k \in 1 .. Len(u[i]) : u[i][k].start < u[i][k].end
           A == {i \in 0 .. n : Good(i)}
<1>4. 0 \in A
  <2>1. Len(<<>>) = 0 /\ 1 .. 0 = {} /\ u[0] = <<>>
    BY <1>3
  <2>2. \A k \in 1 .. Len(u[0]) : FALSE
    BY <2>1
  <2>3. Good(0)
    BY <2>1, <2>2 DEF ShowsLike
  <2> QED BY <1>1, <2>3
<1>5. ASSUME NEW i \in 1 .. n, i - 1 \in A
      PROVE  i \in A
  <2> DEFINE list == u[i - 1]
             r == AppendSegment(list, pieces[i])
  <2>1. i - 1 \in 0 .. n /\ i \in 0 .. n
    BY <1>1
  <2>2. list \in Seq(T) /\ pieces[i] \in T /\ u[i] = r
    BY <1>2, <1>3, <2>1
  <2>3. pieces[i].start < pieces[i].end
    OBVIOUS
  <2>4. (ShowsLike(list, p, t) <=> Upto(i - 1)) /\ \A k \in 1 .. Len(list) : list[k].start < list[k].end
    BY <1>5
  <2> HIDE DEF list
  <2>5. /\ ShowsLike(r, p, t) <=> \/ ShowsLike(list, p, t)
                                  \/ Same(pieces[i], p) /\ Covers(pieces[i], t)
        /\ \A k \in 1 .. Len(r) : r[k].start < r[k].end
    BY <1>2, <2>2, <2>3, <2>4, AppendShows
  <2> HIDE DEF r
  <2>6. Upto(i) <=> Upto(i - 1) \/ (Same(pieces[i], p) /\ Covers(pieces[i], t))
    <3>1. (\A k \in 1 .. i : k = i \/ k \in 1 .. i - 1) /\ i \in 1 .. i
          /\ \A k \in 1 .. i - 1 : k \in 1 .. i
      BY <1>1
    <3> QED BY <3>1, Zenon
  <2> HIDE DEF Upto
  <2>7. Good(i)
    BY <2>2, <2>4, <2>5, <2>6
  <2> QED BY <2>1, <2>7
<1>6. \A i \in 0 .. n : i \in A
  <2> HIDE DEF A, n
  <2> QED BY <1>1, <1>4, <1>5, Induct
<1>7. n \in 0 .. n
  BY <1>1
<1>8. ShowsLike(u[n], p, t) <=> Upto(n)
  BY <1>6, <1>7
<1> QED BY <1>3, <1>8 DEF ShowsLike

-----------------------------------------------------------------------------
(* The pieces of a session *)

\* What the rows of a session may make of it.
Phases(rows) ==
    {None, "waiting-tool", "waiting-user", "suspected-stall", "idle"} \cup ActivePhases
        \cup {rows[i].phase : i \in 1 .. Len(rows)}
StatesOf(rows) ==
    [state : {None, "active", "waiting", "stalled", "idle"}, phase : Phases(rows),
     active : BOOLEAN \cup {rows[i].active : i \in 1 .. Len(rows)}]

\* A session is stalled when it says so.
LEMMA StalledPhase ==
    ASSUME NEW row, NEW previous
    PROVE  EventState(row, previous).state = "stalled"
             <=> EventState(row, previous).phase = "suspected-stall"
BY DEF EventState, ActivePhases

\* A session is after each row what the row makes of it.
LEMMA AfterSteps ==
    ASSUME NEW rows, Listed(rows)
    PROVE  /\ StatesAfter(rows)[0] = [state |-> None, phase |-> None, active |-> FALSE]
           /\ \A i \in 1 .. Len(rows) :
                 StatesAfter(rows)[i] = EventState(rows[i], StatesAfter(rows)[i - 1].phase)
<1> DEFINE n == Len(rows)
           T == StatesOf(rows)
           none == [state |-> None, phase |-> None, active |-> FALSE]
           step == [i \in 1 .. n |-> [x \in T |-> EventState(rows[i], x.phase)]]
           types == [i \in 0 .. n |-> T]
           Rec(f) == f = [i \in 0 .. Len(rows) |->
                            IF i = 0 THEN [state |-> None, phase |-> None, active |-> FALSE]
                            ELSE EventState(rows[i], f[i - 1].phase)]
           v == CHOOSE f : Rec(f)
<1>1. n \in Nat
  BY DEF Listed
<1> DEFINE S == {None, "active", "waiting", "stalled", "idle"}
           A == BOOLEAN \cup {rows[k].active : k \in 1 .. Len(rows)}
<1>0. \A s \in S, p \in Phases(rows), a \in A : [state |-> s, phase |-> p, active |-> a] \in T
  BY DEF StatesOf
<1>2. none \in T
  <2>1. None \in S /\ None \in Phases(rows) /\ FALSE \in A
    BY DEF Phases
  <2> HIDE DEF S, A, T
  <2> QED BY <1>0, <2>1
<1>3. ASSUME NEW i \in 1 .. n, NEW x \in T
      PROVE  EventState(rows[i], x.phase) \in T
  <2>1. x.phase \in Phases(rows)
    BY DEF StatesOf
  <2>2. rows[i].phase \in Phases(rows)
    BY DEF Phases
  <2> DEFINE e == EventState(rows[i], x.phase)
  <2>3. e = [state |-> e.state, phase |-> e.phase, active |-> e.active]
    BY DEF EventState
  <2>4. e.state \in S
    BY DEF EventState
  <2>5. e.phase \in Phases(rows)
    <3>1. {"waiting-tool", "waiting-user", "suspected-stall", "idle"} \subseteq Phases(rows)
          /\ ActivePhases \subseteq Phases(rows) /\ "active-unspecified" \in ActivePhases
      BY DEF Phases, ActivePhases
    <3>2. e.phase \in {"waiting-tool", "waiting-user", "suspected-stall", "idle",
                       "active-unspecified", x.phase, rows[i].phase}
      BY DEF EventState
    <3> HIDE DEF e
    <3> QED BY <2>1, <2>2, <3>1, <3>2
  <2>6. e.active \in A
    <3>1. e.active \in {TRUE, FALSE, rows[i].active}
      BY DEF EventState
    <3>2. rows[i].active \in A /\ TRUE \in A /\ FALSE \in A
      OBVIOUS
    <3> HIDE DEF e, A
    <3> QED BY <3>1, <3>2
  <2> HIDE DEF e, S, A, T
  <2>7. [state |-> e.state, phase |-> e.phase, active |-> e.active] \in T
    BY <1>0, <2>4, <2>5, <2>6
  <2> QED BY <2>3, <2>7 DEF e
<1> HIDE DEF T, none
<1>4. none \in types[0] /\ \A i \in 1 .. n : \A x \in types[i - 1] : step[i][x] \in types[i]
  <2>1. none \in types[0]
    BY <1>1, <1>2
  <2>2. ASSUME NEW i \in 1 .. n, NEW x \in types[i - 1]
        PROVE  step[i][x] \in types[i]
    <3>1. i - 1 \in 0 .. n /\ i \in 0 .. n
      BY <1>1
    <3> QED BY <1>3, <3>1
  <2> QED BY <2>1, <2>2
<1>5. PICK u : Follows(u, n, none, step) /\ \A i \in 0 .. n : u[i] \in types[i]
  <2> HIDE DEF step, types
  <2> QED BY <1>1, <1>4, RecursionDefined
<1>6. \A i \in 0 .. n : u[i] \in T
  BY <1>5
<1>7. Rec(u)
  <2>1. u = [k \in 0 .. n |-> IF k = 0 THEN none ELSE step[k][u[k - 1]]]
    BY <1>5 DEF Follows
  <2>2. ASSUME NEW i \in 0 .. n
        PROVE  u[i] = IF i = 0 THEN none ELSE EventState(rows[i], u[i - 1].phase)
    <3>1. u[i] = IF i = 0 THEN none ELSE step[i][u[i - 1]]
      BY <2>1
    <3>2. i # 0 => i \in 1 .. n /\ i - 1 \in 0 .. n
      BY <1>1
    <3> QED BY <1>6, <3>1, <3>2
  <2>3. u = [i \in 0 .. n |-> u[i]]
    BY <2>1
  <2> QED BY <2>2, <2>3 DEF none
<1>8. StatesAfter(rows) = v
  BY DEF StatesAfter
<1>9. Rec(v)
  <2> HIDE DEF Rec
  <2> QED BY <1>7
<1> HIDE DEF v
<1>10. \A i \in 0 .. n : v[i] = IF i = 0 THEN none ELSE EventState(rows[i], v[i - 1].phase)
  BY <1>9 DEF none
<1>11. 0 \in 0 .. n /\ \A i \in 1 .. n : i \in 0 .. n /\ i # 0
  BY <1>1
<1> QED BY <1>8, <1>10, <1>11 DEF none

\* Rows that begin alike leave a session alike.
LEMMA AfterAgrees ==
    ASSUME NEW rows, Listed(rows), NEW others, Listed(others),
           NEW n \in Nat, n <= Len(rows), n <= Len(others),
           \A i \in 1 .. n : rows[i] = others[i]
    PROVE  \A i \in 0 .. n : StatesAfter(rows)[i] = StatesAfter(others)[i]
<1> DEFINE A == {i \in 0 .. n : StatesAfter(rows)[i] = StatesAfter(others)[i]}
<1>1. 0 \in A
  BY AfterSteps
<1>2. ASSUME NEW i \in 1 .. n, i - 1 \in A
      PROVE  i \in A
  <2>1. i \in 1 .. Len(rows) /\ i \in 1 .. Len(others) /\ i \in 0 .. n
    BY DEF Listed
  <2> QED BY <1>2, <2>1, AfterSteps
<1>3. \A i \in 0 .. n : i \in A
  <2> HIDE DEF A
  <2> QED BY <1>1, <1>2, Induct
<1> QED BY <1>3

Stalling(rows, end) == Stalls(rows[Len(rows)], StatesAfter(rows)[Len(rows)], end)

\* The pieces of a session: from each row to the next one, and at most one
\* stall after the last.
LEMMA CodexList ==
    ASSUME NEW rows, Sorted(rows), Len(rows) > 0, NEW end \in Int
    PROVE  LET pieces == CodexPieces(rows, end)
               after == StatesAfter(rows)
               n == Len(rows)
           IN  /\ Pieces(pieces) /\ InTurn(pieces)
               /\ Len(pieces) = IF Stalling(rows, end) THEN n + 1 ELSE n
               /\ \A i \in 1 .. n :
                     pieces[i] = [start |-> rows[i].at,
                                  end |-> IF i < n THEN rows[i + 1].at
                                          ELSE IF Stalling(rows, end) THEN StallAt(rows[n])
                                          ELSE end,
                                  state |-> after[i].state, phase |-> after[i].phase,
                                  event |-> rows[i].id]
               /\ Stalling(rows, end) =>
                     pieces[n + 1] = [start |-> StallAt(rows[n]), end |-> end,
                                      state |-> "stalled", phase |-> "suspected-stall",
                                      event |-> None]
<1> DEFINE after == StatesAfter(rows)
           n == Len(rows)
           pieces == CodexPieces(rows, end)
           piece(i, from, to) ==
              [start |-> from, end |-> to, state |-> after[i].state,
               phase |-> after[i].phase, event |-> rows[i].id]
           lead == [i \in 1 .. n - 1 |-> piece(i, rows[i].at, rows[i + 1].at)]
           stall == [start |-> StallAt(rows[n]), end |-> end, state |-> "stalled",
                     phase |-> "suspected-stall", event |-> None]
           m == IF Stalling(rows, end) THEN n + 1 ELSE n
           ends(i) == IF i < n THEN rows[i + 1].at
                      ELSE IF Stalling(rows, end) THEN StallAt(rows[n]) ELSE end
<1>1. /\ n \in Nat /\ n > 0 /\ n \in 1 .. n
      /\ \A i \in 1 .. n : rows[i].at \in Nat
      /\ \A i, j \in 1 .. n : i < j => rows[i].at <= rows[j].at
      /\ StallSeconds \in Nat \ {0}
  BY LimitsAssumption DEF Sorted
<1>2. StallAt(rows[n]) \in Nat /\ rows[n].at < StallAt(rows[n])
  BY <1>1 DEF StallAt
<1>3. pieces = lead \o IF Stalling(rows, end)
                       THEN <<piece(n, rows[n].at, StallAt(rows[n])), stall>>
                       ELSE <<piece(n, rows[n].at, end)>>
  BY DEF CodexPieces, Stalling
<1> HIDE DEF after, pieces
<1> DEFINE S == {piece(i, a, b) : i \in 1 .. n, a \in Int, b \in Int} \cup {stall}
<1>4. lead \in Seq(S) /\ Len(lead) = n - 1
  <2>1. ASSUME NEW i \in 1 .. n - 1
        PROVE  piece(i, rows[i].at, rows[i + 1].at) \in S
    <3>1. i \in 1 .. n /\ i + 1 \in 1 .. n /\ rows[i].at \in Int /\ rows[i + 1].at \in Int
      BY <1>1
    <3> HIDE DEF piece
    <3> QED BY <3>1
  <2> HIDE DEF S, piece
  <2>2. lead \in [1 .. n - 1 -> S] /\ n - 1 \in Nat
    BY <1>1, <2>1
  <2> HIDE DEF lead
  <2> QED BY <2>2
<1>5. piece(n, rows[n].at, StallAt(rows[n])) \in S /\ stall \in S /\ piece(n, rows[n].at, end) \in S
  <2>1. rows[n].at \in Int /\ StallAt(rows[n]) \in Int
    BY <1>1, <1>2
  <2> HIDE DEF piece, stall
  <2> QED BY <1>1, <2>1
<1>6. /\ pieces \in Seq(S) /\ Len(pieces) = m
      /\ \A i \in 1 .. n : pieces[i] = piece(i, rows[i].at, ends(i))
      /\ Stalling(rows, end) => pieces[n + 1] = stall
  <2> DEFINE a == piece(n, rows[n].at, StallAt(rows[n]))
             b == piece(n, rows[n].at, end)
  <2> HIDE DEF S
  <2>1. \A i \in 1 .. n - 1 : lead[i] = piece(i, rows[i].at, rows[i + 1].at)
    OBVIOUS
  <2>2. \A i \in 1 .. n : i = n \/ i \in 1 .. n - 1
    BY <1>1
  <2>3. \A i \in 1 .. n - 1 : ends(i) = rows[i + 1].at
    BY <1>1
  <2>4. ends(n) = IF Stalling(rows, end) THEN StallAt(rows[n]) ELSE end
    BY <1>1
  <2> HIDE DEF lead
  <2>5. CASE Stalling(rows, end)
    <3> HIDE DEF stall, piece, a
    <3>1. pieces = lead \o <<a, stall>> /\ a \in S
      BY <1>3, <1>5, <2>5 DEF a
    <3>0. <<a, stall>> \in Seq(S) /\ Len(<<a, stall>>) = 2
          /\ <<a, stall>>[1] = a /\ <<a, stall>>[2] = stall
      BY <1>5, <3>1
    <3>2. pieces \in Seq(S) /\ Len(pieces) = n + 1 /\ pieces[n] = a /\ pieces[n + 1] = stall
          /\ \A i \in 1 .. n - 1 : pieces[i] = lead[i]
      <4> DEFINE two == <<a, stall>>
      <4> HIDE DEF two
      <4>1. pieces = lead \o two /\ two \in Seq(S) /\ Len(two) = 2
        BY <3>0, <3>1 DEF two
      <4>2. /\ lead \o two \in Seq(S)
            /\ Len(lead) \in Nat /\ Len(two) \in Nat
            /\ Len(lead \o two) = Len(lead) + Len(two)
            /\ \A i \in 1 .. Len(lead) : (lead \o two)[i] = lead[i]
            /\ \A i \in 1 .. Len(two) : (lead \o two)[Len(lead) + i] = two[i]
        <5> HIDE DEF n, m, b, ends
        <5>1. lead \in Seq(S) /\ two \in Seq(S)
          BY <1>4, <4>1
        <5> QED BY <5>1, Joined
      <4>3. 1 \in 1 .. 2 /\ 2 \in 1 .. 2 /\ n - 1 + 1 = n /\ n - 1 + 2 = n + 1
        BY <1>1
      <4>4. Len(pieces) = n + 1 /\ pieces[n] = two[1] /\ pieces[n + 1] = two[2]
        BY <1>4, <4>1, <4>2, <4>3
      <4> QED BY <1>4, <3>0, <4>1, <4>2, <4>4 DEF two
    <3>3. a = piece(n, rows[n].at, ends(n))
      BY <2>4, <2>5 DEF a
    <3> QED BY <2>1, <2>2, <2>3, <2>5, <3>2, <3>3
  <2>6. CASE ~Stalling(rows, end)
    <3> HIDE DEF stall, piece, b
    <3>1. pieces = lead \o <<b>> /\ b \in S
      BY <1>3, <1>5, <2>6 DEF b
    <3>2. pieces \in Seq(S) /\ Len(pieces) = n /\ pieces[n] = b
          /\ \A i \in 1 .. n - 1 : pieces[i] = lead[i]
      BY <1>1, <1>4, <1>5, <3>1
    <3>3. b = piece(n, rows[n].at, ends(n))
      BY <2>4, <2>6 DEF b
    <3> QED BY <2>1, <2>2, <2>3, <2>6, <3>2, <3>3
  <2> QED BY <2>5, <2>6
<1>7. \A i \in 1 .. n : ends(i) \in Int
  <2> SUFFICES ASSUME NEW i \in 1 .. n PROVE ends(i) \in Int
    OBVIOUS
  <2>1. i < n => i + 1 \in 1 .. n
    BY <1>1
  <2> QED BY <1>1, <1>2, <2>1
<1> HIDE DEF ends
<1>8. /\ \A i \in 1 .. n : /\ pieces[i].start = rows[i].at /\ pieces[i].end = ends(i)
                           /\ Piece(pieces[i])
      /\ Stalling(rows, end) => /\ pieces[n + 1].start = StallAt(rows[n])
                                /\ pieces[n + 1].end = end
                                /\ Piece(pieces[n + 1])
  <2>1. ASSUME NEW i \in 1 .. n
        PROVE  /\ pieces[i].start = rows[i].at /\ pieces[i].end = ends(i)
               /\ Piece(pieces[i])
    <3>1. pieces[i] = piece(i, rows[i].at, ends(i)) /\ ends(i) \in Int /\ rows[i].at \in Int
      BY <1>1, <1>6, <1>7
    <3> QED BY <3>1 DEF Piece
  <2>2. ASSUME Stalling(rows, end)
        PROVE  /\ pieces[n + 1].start = StallAt(rows[n])
               /\ pieces[n + 1].end = end
               /\ Piece(pieces[n + 1])
    <3>1. pieces[n + 1] = stall
      BY <1>6, <2>2
    <3> QED BY <1>2, <3>1 DEF Piece
  <2> QED BY <2>1, <2>2
<1>9. \A k \in 1 .. m : k \in 1 .. n \/ (k = n + 1 /\ Stalling(rows, end))
  BY <1>1
<1>10. Pieces(pieces)
  <2>1. Len(pieces) \in Nat /\ pieces = [i \in 1 .. Len(pieces) |-> pieces[i]]
    BY <1>6
  <2>2. \A k \in 1 .. m : Piece(pieces[k])
    BY <1>8, <1>9
  <2> HIDE DEF m
  <2> QED BY <1>6, <2>1, <2>2 DEF Pieces, Listed
<1>11. InTurn(pieces)
  <2> SUFFICES ASSUME NEW i \in 1 .. m, NEW j \in 1 .. m, i < j
               PROVE  pieces[i].end <= pieces[j].start
    BY <1>6 DEF InTurn
  <2>1. i \in 1 .. n
    BY <1>1
  <2>2. i < n => i + 1 \in 1 .. n /\ ends(i) = rows[i + 1].at /\ rows[i + 1].at <= rows[n].at
    BY <1>1, <2>1 DEF ends
  <2>3. CASE j \in 1 .. n
    <3>1. i < n /\ (i + 1 = j \/ i + 1 < j)
      BY <1>1, <2>1, <2>3
    <3>2. rows[i + 1].at <= rows[j].at
      BY <1>1, <2>2, <2>3, <3>1
    <3> QED BY <1>8, <2>1, <2>2, <2>3, <3>1, <3>2
  <2>4. CASE j = n + 1 /\ Stalling(rows, end)
    <3>1. i = n => ends(i) = StallAt(rows[n])
      BY <1>1, <2>4 DEF ends
    <3>2. i < n \/ i = n
      BY <1>1, <2>1
    <3>3. ends(i) <= StallAt(rows[n])
      BY <1>1, <1>2, <2>2, <3>1, <3>2
    <3> QED BY <1>8, <2>1, <2>4, <3>3
  <2> QED BY <1>9, <2>3, <2>4
<1> QED BY <1>6, <1>10, <1>11 DEF ends, pieces, after

\* The fields of those pieces.
LEMMA CodexFields ==
    ASSUME NEW rows, Sorted(rows), Len(rows) > 0, NEW end \in Int
    PROVE  LET pieces == CodexPieces(rows, end)
               after == StatesAfter(rows)
               n == Len(rows)
           IN  /\ Pieces(pieces) /\ InTurn(pieces)
               /\ Len(pieces) = IF Stalling(rows, end) THEN n + 1 ELSE n
               /\ \A k \in 1 .. n :
                     /\ pieces[k].start = rows[k].at
                     /\ pieces[k].end = IF k < n THEN rows[k + 1].at
                                        ELSE IF Stalling(rows, end) THEN StallAt(rows[n])
                                        ELSE end
                     /\ {"phase", "event"} \subseteq DOMAIN pieces[k]
                     /\ pieces[k].phase = after[k].phase
                     /\ pieces[k].event = rows[k].id
               /\ Stalling(rows, end) =>
                     /\ pieces[n + 1].start = StallAt(rows[n])
                     /\ pieces[n + 1].end = end
                     /\ {"phase", "event"} \subseteq DOMAIN pieces[n + 1]
                     /\ pieces[n + 1].phase = "suspected-stall"
                     /\ pieces[n + 1].event = None
<1> DEFINE pieces == CodexPieces(rows, end)
           after == StatesAfter(rows)
           n == Len(rows)
           finish(i) == IF i < n THEN rows[i + 1].at
                        ELSE IF Stalling(rows, end) THEN StallAt(rows[n])
                        ELSE end
           like(p, s, e, st, ph, ev) ==
               p = [start |-> s, end |-> e, state |-> st, phase |-> ph, event |-> ev]
<1>1. /\ Pieces(pieces) /\ InTurn(pieces)
      /\ Len(pieces) = IF Stalling(rows, end) THEN n + 1 ELSE n
      /\ \A i \in 1 .. n :
            pieces[i] = [start |-> rows[i].at,
                         end |-> IF i < n THEN rows[i + 1].at
                                 ELSE IF Stalling(rows, end) THEN StallAt(rows[n])
                                 ELSE end,
                         state |-> after[i].state, phase |-> after[i].phase,
                         event |-> rows[i].id]
      /\ Stalling(rows, end) =>
            pieces[n + 1] = [start |-> StallAt(rows[n]), end |-> end,
                             state |-> "stalled", phase |-> "suspected-stall",
                             event |-> None]
  BY CodexList
<1>2. ASSUME NEW p, NEW s, NEW e, NEW st, NEW ph, NEW ev, like(p, s, e, st, ph, ev)
      PROVE  /\ p.start = s /\ p.end = e /\ {"phase", "event"} \subseteq DOMAIN p
             /\ p.phase = ph /\ p.event = ev
  BY <1>2
<1> SUFFICES /\ Pieces(pieces) /\ InTurn(pieces)
             /\ Len(pieces) = IF Stalling(rows, end) THEN n + 1 ELSE n
             /\ \A k \in 1 .. n :
                   /\ pieces[k].start = rows[k].at
                   /\ pieces[k].end = finish(k)
                   /\ {"phase", "event"} \subseteq DOMAIN pieces[k]
                   /\ pieces[k].phase = after[k].phase
                   /\ pieces[k].event = rows[k].id
             /\ Stalling(rows, end) =>
                   /\ pieces[n + 1].start = StallAt(rows[n])
                   /\ pieces[n + 1].end = end
                   /\ {"phase", "event"} \subseteq DOMAIN pieces[n + 1]
                   /\ pieces[n + 1].phase = "suspected-stall"
                   /\ pieces[n + 1].event = None
  OBVIOUS
<1>3. /\ \A k \in 1 .. n : like(pieces[k], rows[k].at, finish(k), after[k].state,
                               after[k].phase, rows[k].id)
      /\ Stalling(rows, end) => like(pieces[n + 1], StallAt(rows[n]), end, "stalled",
                                     "suspected-stall", None)
  BY <1>1
<1> HIDE DEF pieces, after, like, finish, n
<1>4. ASSUME NEW k \in 1 .. n
      PROVE  /\ pieces[k].start = rows[k].at
             /\ pieces[k].end = finish(k)
             /\ {"phase", "event"} \subseteq DOMAIN pieces[k]
             /\ pieces[k].phase = after[k].phase
             /\ pieces[k].event = rows[k].id
  BY <1>2, <1>3
<1>5. ASSUME Stalling(rows, end)
      PROVE  /\ pieces[n + 1].start = StallAt(rows[n])
             /\ pieces[n + 1].end = end
             /\ {"phase", "event"} \subseteq DOMAIN pieces[n + 1]
             /\ pieces[n + 1].phase = "suspected-stall"
             /\ pieces[n + 1].event = None
  BY <1>2, <1>3, <1>5
<1> QED BY <1>1, <1>4, <1>5

\* Of the pieces of a session one covers an instant, from its first row on.
LEMMA CodexSpot ==
    ASSUME NEW rows, Sorted(rows), Len(rows) > 0, NEW end \in Nat, NEW t \in Nat, t < end
    PROVE  LET pieces == CodexPieces(rows, end)
               n == Len(rows)
               i == LastAt(rows, t)
               spot == IF i = n /\ Stalling(rows, end) /\ StallAt(rows[n]) <= t
                       THEN n + 1 ELSE i
           IN  \A k \in 1 .. Len(pieces) : Covers(pieces[k], t) <=> k = spot
<1> DEFINE pieces == CodexPieces(rows, end)
           n == Len(rows)
           i == LastAt(rows, t)
           spot == IF i = n /\ Stalling(rows, end) /\ StallAt(rows[n]) <= t THEN n + 1 ELSE i
<1>1. /\ n \in Nat /\ n > 0
      /\ \A k \in 1 .. n : rows[k].at \in Nat
      /\ StallSeconds \in Nat \ {0}
  BY LimitsAssumption DEF Sorted
<1>2. i \in 0 .. n /\ \A k \in 1 .. n : rows[k].at <= t <=> k <= i
  BY LastRow
<1>3. /\ Pieces(pieces) /\ InTurn(pieces)
      /\ Len(pieces) = IF Stalling(rows, end) THEN n + 1 ELSE n
      /\ \A k \in 1 .. n :
            /\ pieces[k].start = rows[k].at
            /\ pieces[k].end = IF k < n THEN rows[k + 1].at
                               ELSE IF Stalling(rows, end) THEN StallAt(rows[n])
                               ELSE end
            /\ {"phase", "event"} \subseteq DOMAIN pieces[k]
            /\ pieces[k].phase = StatesAfter(rows)[k].phase
            /\ pieces[k].event = rows[k].id
      /\ Stalling(rows, end) =>
            /\ pieces[n + 1].start = StallAt(rows[n])
            /\ pieces[n + 1].end = end
            /\ {"phase", "event"} \subseteq DOMAIN pieces[n + 1]
            /\ pieces[n + 1].phase = "suspected-stall"
            /\ pieces[n + 1].event = None
  BY CodexFields
<1> HIDE DEF pieces, i
<1>4. ASSUME NEW k \in 1 .. n, k < n
      PROVE  Covers(pieces[k], t) <=> k = spot
  <2>1. k + 1 \in 1 .. n
    BY <1>1, <1>4
  <2>2. pieces[k].start = rows[k].at /\ pieces[k].end = rows[k + 1].at
    BY <1>3, <1>4
  <2>3. rows[k].at <= t <=> k <= i
    BY <1>2
  <2>4. t < rows[k + 1].at <=> ~(k + 1 <= i)
    BY <1>1, <1>2, <2>1
  <2>5. Covers(pieces[k], t) <=> k <= i /\ ~(k + 1 <= i)
    BY <2>2, <2>3, <2>4 DEF Covers
  <2> QED BY <1>1, <1>2, <1>4, <2>5
<1>5. Covers(pieces[n], t) <=> n = spot
  <2>1. n \in 1 .. n
    BY <1>1
  <2>2. StallAt(rows[n]) \in Nat
    BY <1>1, <2>1 DEF StallAt
  <2>3. rows[n].at <= t <=> i = n
    BY <1>1, <1>2, <2>1
  <2>4. CASE Stalling(rows, end)
    <3>1. pieces[n].start = rows[n].at /\ pieces[n].end = StallAt(rows[n])
      BY <1>1, <1>3, <2>1, <2>4
    <3>2. Covers(pieces[n], t) <=> i = n /\ ~(StallAt(rows[n]) <= t)
      BY <2>2, <2>3, <3>1 DEF Covers
    <3> QED BY <1>1, <2>4, <3>2
  <2>5. CASE ~Stalling(rows, end)
    <3>1. pieces[n].start = rows[n].at /\ pieces[n].end = end
      BY <1>1, <1>3, <2>1, <2>5
    <3>2. Covers(pieces[n], t) <=> i = n
      BY <2>3, <3>1 DEF Covers
    <3> QED BY <1>1, <2>5, <3>2
  <2> QED BY <2>4, <2>5
<1>6. ASSUME Stalling(rows, end)
      PROVE  Covers(pieces[n + 1], t) <=> n + 1 = spot
  <2>1. Covers(pieces[n + 1], t) <=> StallAt(rows[n]) <= t
    BY <1>3, <1>6 DEF Covers
  <2>2. StallAt(rows[n]) <= t => i = n
    BY <1>1, <1>2 DEF StallAt
  <2> QED BY <1>1, <1>2, <1>6, <2>1, <2>2
<1>7. \A k \in 1 .. Len(pieces) : \/ k \in 1 .. n /\ k < n
                                  \/ k = n
                                  \/ k = n + 1 /\ Stalling(rows, end)
  BY <1>1, <1>3
<1> HIDE DEF spot, n
<1>8. \A k \in 1 .. Len(pieces) : Covers(pieces[k], t) <=> k = spot
  BY <1>4, <1>5, <1>6, <1>7
<1> QED BY <1>8 DEF pieces, i, spot, n

ShownIn(list, t) ==
    {<<list[k].phase, list[k].event>> : k \in {j \in 1 .. Len(list) : Covers(list[j], t)}}

\* What a report shows in its window is what the pieces show.
LEMMA ReportShows ==
    ASSUME NEW pieces, Pieces(pieces),
           \A k \in 1 .. Len(pieces) : {"phase", "event"} \subseteq DOMAIN pieces[k],
           NEW window, Window(window), NEW t \in Int, Within(window, t)
    PROVE  /\ ShownIn(Segments(Clipped(pieces, window)), t) = ShownIn(pieces, t)
           /\ Pieces(Segments(Clipped(pieces, window)))
<1> DEFINE c == Clipped(pieces, window)
           g == Segments(c)
           n == Len(pieces)
<1>1. /\ Pieces(c) /\ \A k \in 1 .. Len(c) : c[k].start < c[k].end
      /\ \A k \in 1 .. Len(c) : \E i \in 1 .. n :
                 /\ Same(c[k], pieces[i])
                 /\ \A x \in Int : Covers(c[k], x) <=> Covers(pieces[i], x) /\ Within(window, x)
      /\ \A i \in 1 .. n : \A x \in Int :
                 Covers(pieces[i], x) /\ Within(window, x) =>
                    \E k \in 1 .. Len(c) : Same(c[k], pieces[i]) /\ Covers(c[k], x)
  BY ClippedTidy
<1> HIDE DEF c
<1>2. \A p : ShowsLike(g, p, t) <=> ShowsLike(c, p, t)
  BY <1>1, SegmentsShow
<1>3. Pieces(g)
  <2>1. PICK u : /\ \A i \in 0 .. Len(c) : u[i] \in Seq(Grown(c))
                 /\ g = u[Len(c)]
    BY <1>1, SegmentsSteps
  <2>2. \A p \in Grown(c) : Piece(p)
    BY <1>1, SegmentsSteps
  <2>3. Len(c) \in 0 .. Len(c)
    BY <1>1 DEF Pieces, Listed
  <2>4. g \in Seq(Grown(c))
    BY <2>1, <2>3
  <2> HIDE DEF g
  <2> QED BY <2>2, <2>4 DEF Pieces, Listed
<1> HIDE DEF g
<1>4. ASSUME NEW j \in 1 .. Len(g), Covers(g[j], t)
      PROVE  <<g[j].phase, g[j].event>> \in ShownIn(pieces, t)
  <2>1. ShowsLike(g, g[j], t)
    BY <1>4 DEF ShowsLike, Same
  <2>2. PICK k \in 1 .. Len(c) : Same(c[k], g[j]) /\ Covers(c[k], t)
    BY <1>2, <2>1 DEF ShowsLike
  <2>3. PICK i \in 1 .. n : Same(c[k], pieces[i]) /\ Covers(pieces[i], t)
    BY <1>1, <2>2
  <2>4. g[j].phase = pieces[i].phase /\ g[j].event = pieces[i].event
    BY <2>2, <2>3 DEF Same
  <2> QED BY <2>3, <2>4 DEF ShownIn
<1>5. ASSUME NEW i \in 1 .. n, Covers(pieces[i], t)
      PROVE  <<pieces[i].phase, pieces[i].event>> \in ShownIn(g, t)
  <2>1. ShowsLike(c, pieces[i], t)
    BY <1>1, <1>5 DEF ShowsLike
  <2>2. PICK j \in 1 .. Len(g) : Same(g[j], pieces[i]) /\ Covers(g[j], t)
    BY <1>2, <2>1 DEF ShowsLike
  <2>3. g[j].phase = pieces[i].phase /\ g[j].event = pieces[i].event
    BY <2>2 DEF Same
  <2> QED BY <2>2, <2>3 DEF ShownIn
<1>6. ShownIn(g, t) \subseteq ShownIn(pieces, t)
  BY <1>4 DEF ShownIn
<1>7. ShownIn(pieces, t) \subseteq ShownIn(g, t)
  BY <1>5 DEF ShownIn
<1> QED BY <1>3, <1>6, <1>7 DEF g, c

\* What is known of a session at an instant: nothing before its first row, and
\* the last row's phase until that has been silent for too long.
KnownOf(rows, t) ==
    LET i == LastAt(rows, t)
        after == StatesAfter(rows)[i]
    IN  IF i = 0 THEN {}
        ELSE IF /\ i = Len(rows) /\ t >= StallAt(rows[i])
                /\ after.state = "active" /\ ~after.active
        THEN {<<"suspected-stall", None>>}
        ELSE {<<after.phase, rows[i].id>>}

\* That is what a report up to any later moment shows.
LEMMA SessionShown ==
    ASSUME NEW rows, Sorted(rows), Len(rows) > 0, NEW end \in Nat, NEW t \in Nat, t < end
    PROVE  LET window == [start |-> 0, end |-> end] IN
           /\ ShownIn(Segments(Clipped(CodexPieces(rows, end), window)), t) = KnownOf(rows, t)
           /\ ShownIn(CodexPieces(rows, end), t) = KnownOf(rows, t)
           /\ Listed(Segments(Clipped(CodexPieces(rows, end), window)))
<1> DEFINE window == [start |-> 0, end |-> end]
           pieces == CodexPieces(rows, end)
           n == Len(rows)
           i == LastAt(rows, t)
           after == StatesAfter(rows)
           spot == IF i = n /\ Stalling(rows, end) /\ StallAt(rows[n]) <= t THEN n + 1 ELSE i
<1>1. /\ Pieces(pieces) /\ InTurn(pieces)
      /\ Len(pieces) = IF Stalling(rows, end) THEN n + 1 ELSE n
      /\ \A k \in 1 .. n :
            /\ pieces[k].start = rows[k].at
            /\ pieces[k].end = IF k < n THEN rows[k + 1].at
                               ELSE IF Stalling(rows, end) THEN StallAt(rows[n])
                               ELSE end
            /\ {"phase", "event"} \subseteq DOMAIN pieces[k]
            /\ pieces[k].phase = after[k].phase
            /\ pieces[k].event = rows[k].id
      /\ Stalling(rows, end) =>
            /\ pieces[n + 1].start = StallAt(rows[n])
            /\ pieces[n + 1].end = end
            /\ {"phase", "event"} \subseteq DOMAIN pieces[n + 1]
            /\ pieces[n + 1].phase = "suspected-stall"
            /\ pieces[n + 1].event = None
  BY CodexFields
<1>2. n \in Nat /\ i \in 0 .. n /\ n > 0
  BY LastRow DEF Sorted
<1>3. \A k \in 1 .. Len(pieces) : Covers(pieces[k], t) <=> k = spot
  BY CodexSpot
<1>4. i = n => rows[n].at \in Nat /\ StallAt(rows[n]) \in Nat
  BY <1>2, LimitsAssumption DEF Sorted, StallAt
<1> HIDE DEF pieces, i, after
<1>5. ShownIn(pieces, t) = KnownOf(rows, t)
  <2>1. CASE i = 0
    <3>1. \A k \in 1 .. Len(pieces) : ~Covers(pieces[k], t)
      BY <1>2, <1>3, <2>1
    <3>2. ShownIn(pieces, t) = {}
      BY <3>1 DEF ShownIn
    <3> QED BY <2>1, <3>2 DEF KnownOf, i
  <2>2. CASE i # 0 /\ spot = n + 1
    <3>1. i = n /\ Stalling(rows, end) /\ StallAt(rows[n]) <= t
      BY <1>2, <2>2
    <3>2. /\ n + 1 \in 1 .. Len(pieces)
          /\ \A k \in 1 .. Len(pieces) : Covers(pieces[k], t) <=> k = n + 1
      BY <1>1, <1>2, <1>3, <2>2, <3>1
    <3>3. ShownIn(pieces, t) = {<<pieces[n + 1].phase, pieces[n + 1].event>>}
      BY <3>2 DEF ShownIn
    <3>4. after[n].state = "active" /\ ~after[n].active
      BY <3>1 DEF Stalling, Stalls, after
    <3>5. KnownOf(rows, t) = {<<"suspected-stall", None>>}
      BY <1>4, <2>2, <3>1, <3>4 DEF KnownOf, i, after
    <3> QED BY <1>1, <3>1, <3>3, <3>5
  <2>3. CASE i # 0 /\ spot # n + 1
    <3>1. spot = i /\ i \in 1 .. n /\ i \in 1 .. Len(pieces)
      BY <1>1, <1>2, <2>3
    <3>2. ShownIn(pieces, t) = {<<pieces[i].phase, pieces[i].event>>}
      BY <1>3, <3>1 DEF ShownIn
    <3>3. ~(/\ i = n /\ t >= StallAt(rows[i])
            /\ after[i].state = "active" /\ ~after[i].active)
      <4> SUFFICES ASSUME i = n, t >= StallAt(rows[n]), after[n].state = "active", ~after[n].active
                   PROVE  FALSE
        OBVIOUS
      <4>1. Stalling(rows, end)
        BY <1>4 DEF Stalling, Stalls, after
      <4> QED BY <1>2, <1>4, <2>3, <4>1
    <3>4. KnownOf(rows, t) = {<<after[i].phase, rows[i].id>>}
      BY <2>3, <3>3 DEF KnownOf, i, after
    <3> QED BY <1>1, <3>1, <3>2, <3>4
  <2> QED BY <2>1, <2>2, <2>3
<1>6. Window(window) /\ t \in Int /\ Within(window, t)
  BY DEF Window, Within
<1>7. \A k \in 1 .. Len(pieces) : {"phase", "event"} \subseteq DOMAIN pieces[k]
  <2>1. \A k \in 1 .. Len(pieces) : k \in 1 .. n \/ (k = n + 1 /\ Stalling(rows, end))
    BY <1>1, <1>2
  <2> QED BY <1>1, <2>1
<1> HIDE DEF window
<1>8. ShownIn(Segments(Clipped(pieces, window)), t) = ShownIn(pieces, t)
      /\ Pieces(Segments(Clipped(pieces, window)))
  BY <1>1, <1>6, <1>7, ReportShows
<1> QED BY <1>5, <1>8 DEF Pieces, pieces, window

-----------------------------------------------------------------------------
(* The rows of a session as they are read *)

ReadEvent(e, asOf) == Overridden(e, CurrentOverrides(overrides, <<"event", e.id>>, asOf))
RowsRead(evts, s, asOf) == {ReadEvent(e, asOf) : e \in SessionRows(evts, s)}

\* An override of an event is of its phase or its project.
LEMMA EventRead ==
    ASSUME Types, NEW e \in events, NEW asOf
    PROVE  /\ ReadEvent(e, asOf).at = e.at /\ ReadEvent(e, asOf).id = e.id
           /\ overrides = {} => ReadEvent(e, asOf) = e
<1> DEFINE current == CurrentOverrides(overrides, <<"event", e.id>>, asOf)
           valid == {o \in overrides : o.target = <<"event", e.id>> /\ ValidAt(o, asOf)}
<1>1. DOMAIN current = {o.field : o \in valid}
  BY DEF CurrentOverrides
<1>2. EventRow(e)
  BY DEF Types
<1>3. {"at", "id"} \subseteq DOMAIN e /\ e = [f \in DOMAIN e |-> e[f]]
  BY <1>2 DEF EventRow
<1>4. ASSUME NEW o \in valid PROVE o.field \in {"phase", "project"}
  <2>1. OverrideRow(o) /\ o.target[1] = "event"
    BY DEF Types
  <2> QED BY <2>1 DEF OverrideRow
<1>5. "at" \notin DOMAIN current /\ "id" \notin DOMAIN current
  <2> HIDE DEF current, valid
  <2> QED BY <1>1, <1>4
<1>6. overrides = {} => DOMAIN current = {}
  BY <1>1
<1>7. ReadEvent(e, asOf) = [f \in DOMAIN e |-> IF f \in DOMAIN current THEN current[f] ELSE e[f]]
  BY DEF ReadEvent, Overridden
<1> HIDE DEF current
<1>8. overrides = {} => ReadEvent(e, asOf) = [f \in DOMAIN e |-> e[f]]
  BY <1>6, <1>7
<1> QED BY <1>3, <1>5, <1>7, <1>8

\* So the rows that are read are in the order of the rows that are stored.
LEMMA RowsAreRead ==
    ASSUME Types, NEW evts \in SUBSET events, NEW s, NEW asOf
    PROVE  /\ Distinct(RowsRead(evts, s, asOf))
           /\ Distinct(SessionRows(evts, s))
           /\ Cardinality(RowsRead(evts, s, asOf)) = Cardinality(SessionRows(evts, s))
           /\ RowsRead(evts, s, asOf) = {} <=> s \notin {e.session : e \in evts}
<1> DEFINE own == SessionRows(evts, s)
           read == RowsRead(evts, s, asOf)
           f == [e \in own |-> ReadEvent(e, asOf)]
<1>1. own \in SUBSET events
  BY DEF SessionRows
<1>2. \A e \in own : /\ ReadEvent(e, asOf).at = e.at /\ ReadEvent(e, asOf).id = e.id
                     /\ e.at \in Nat /\ e.id \in Int
  <2> SUFFICES ASSUME NEW e \in own
               PROVE  /\ ReadEvent(e, asOf).at = e.at /\ ReadEvent(e, asOf).id = e.id
                      /\ e.at \in Nat /\ e.id \in Int
    OBVIOUS
  <2>1. e \in events
    BY <1>1
  <2>2. EventRow(e) /\ now \in Nat
    BY <2>1 DEF Types
  <2>3. ReadEvent(e, asOf).at = e.at /\ ReadEvent(e, asOf).id = e.id
    BY <2>1, EventRead
  <2> QED BY <2>2, <2>3 DEF EventRow
<1>3. \A e, d \in own : e.at = d.at /\ e.id = d.id => e = d
  BY <1>1 DEF Types, Spaced
<1>4. IsFiniteSet(own)
  BY <1>1, FS_Subset DEF Types
<1> HIDE DEF own
<1>5. read = {ReadEvent(e, asOf) : e \in own}
  BY DEF own, RowsRead
<1>6. f \in Surjection(own, read)
  BY <1>5 DEF Surjection
<1>7. \A e, d \in own : f[e] = f[d] => e = d
  BY <1>2, <1>3
<1>8. IsFiniteSet(read) /\ Cardinality(read) <= Cardinality(own)
      /\ (Cardinality(own) = Cardinality(read) <=> f \in Injection(own, read))
  <2> HIDE DEF read, f
  <2> QED BY <1>4, <1>6, FS_Surjection
<1>9. f \in Injection(own, read)
  BY <1>6, <1>7 DEF Injection, IsInjective, Surjection
<1>10. Distinct(own)
  BY <1>2, <1>3, <1>4 DEF Distinct
<1>11. Distinct(read)
  <2>1. \A r \in read : \E e \in own : r = ReadEvent(e, asOf)
    BY <1>5
  <2> QED BY <1>2, <1>3, <1>8, <2>1 DEF Distinct
<1>12. read = {} <=> own = {}
  BY <1>5
<1>13. own = {} <=> s \notin {e.session : e \in evts}
  BY DEF own, SessionRows
<1> QED BY <1>8, <1>9, <1>10, <1>11, <1>12, <1>13 DEF own

\* The lanes of a report of everything up to a moment.
LEMMA LanesOfAll ==
    ASSUME NEW evts, NEW asOf
    PROVE  LET window == [start |-> 0, end |-> asOf]
               lanes == CodexLanes(evts, overrides, None, window, asOf)
               codex == Everything(evts, asOf).codex
           IN  /\ DOMAIN lanes = {e.session : e \in evts}
               /\ DOMAIN codex = {e.session : e \in evts}
               /\ \A s \in DOMAIN lanes :
                     lanes[s] = Clipped(CodexPieces(Ordered(RowsRead(evts, s, asOf)), asOf), window)
               /\ \A s \in DOMAIN codex : codex[s] = Segments(lanes[s])
<1> DEFINE window == [start |-> 0, end |-> asOf]
           lanes == CodexLanes(evts, overrides, None, window, asOf)
           chosen == {e \in evts : None \in {None, e.project}}
<1>1. chosen = evts
  OBVIOUS
<1>2. \A s : RowsRead(chosen, s, asOf) =
               {Overridden(e, CurrentOverrides(overrides, <<"event", e.id>>, asOf)) :
                   e \in SessionRows(chosen, s)}
  BY DEF RowsRead, ReadEvent
<1>3. lanes = [s \in {e.session : e \in chosen} |->
                  Clipped(CodexPieces(Ordered(RowsRead(chosen, s, asOf)), window.end), window)]
  BY DEF CodexLanes, RowsRead, ReadEvent
<1>4. window.end = asOf
  OBVIOUS
<1>5. Everything(evts, asOf).codex = [s \in DOMAIN lanes |-> Segments(lanes[s])]
  BY DEF Everything, Report
<1> HIDE DEF lanes, chosen, window
<1>6. lanes = [s \in {e.session : e \in evts} |->
                  Clipped(CodexPieces(Ordered(RowsRead(evts, s, asOf)), asOf), window)]
  BY <1>1, <1>3, <1>4
<1>7. /\ DOMAIN lanes = {e.session : e \in evts}
      /\ DOMAIN Everything(evts, asOf).codex = {e.session : e \in evts}
  BY <1>5, <1>6
<1>8. /\ \A s \in DOMAIN lanes :
            lanes[s] = Clipped(CodexPieces(Ordered(RowsRead(evts, s, asOf)), asOf), window)
      /\ \A s \in DOMAIN Everything(evts, asOf).codex :
            Everything(evts, asOf).codex[s] = Segments(lanes[s])
  BY <1>5, <1>6, <1>7
<1> QED BY <1>7, <1>8 DEF lanes, window

\* The rows of a session that has some.
LEMMA SessionHasRows ==
    ASSUME Types, NEW evts \in SUBSET events, NEW s \in {e.session : e \in evts}, NEW asOf
    PROVE  LET rows == Ordered(RowsRead(evts, s, asOf)) IN
           Sorted(rows) /\ Len(rows) > 0
<1> DEFINE read == RowsRead(evts, s, asOf)
<1>1. Distinct(read) /\ read # {}
  BY RowsAreRead
<1>2. Len(Ordered(read)) = Cardinality(read) /\ Cardinality(read) \in Nat
  BY <1>1, RowsInOrder
<1>3. Sorted(Ordered(read))
  BY <1>1, OrderedSorted
<1>4. Cardinality(read) # 0
  <2> HIDE DEF read
  <2> QED BY <1>1, FS_EmptySet DEF Distinct
<1> QED BY <1>2, <1>3, <1>4

\* And of one that has none.
LEMMA SessionWithoutRows ==
    ASSUME Types, NEW evts \in SUBSET events, NEW s, s \notin {e.session : e \in evts},
           NEW asOf, NEW t \in Nat
    PROVE  LastAt(Ordered(RowsRead(evts, s, asOf)), t) = 0
<1> DEFINE read == RowsRead(evts, s, asOf)
           rows == Ordered(read)
<1>1. Distinct(read) /\ read = {}
  BY RowsAreRead
<1>2. Len(rows) = Cardinality(read) /\ Sorted(rows)
  BY <1>1, RowsInOrder, OrderedSorted
<1>3. Len(rows) = 0
  BY <1>1, <1>2, FS_EmptySet
<1>4. LastAt(rows, t) \in 0 .. Len(rows)
  <2> HIDE DEF rows
  <2> QED BY <1>2, LastRow
<1> QED BY <1>3, <1>4

\* What a report of everything shows of a session is what its rows say.
LEMMA ReportOfSession ==
    ASSUME Types, NEW evts \in SUBSET events, NEW s, NEW asOf \in Nat,
           NEW t \in Nat, t < asOf
    PROVE  ShownCodex(Everything(evts, asOf), s, t) = KnownOf(Ordered(RowsRead(evts, s, asOf)), t)
<1> DEFINE window == [start |-> 0, end |-> asOf]
           lanes == CodexLanes(evts, overrides, None, window, asOf)
           report == Everything(evts, asOf)
           rows == Ordered(RowsRead(evts, s, asOf))
<1>1. /\ DOMAIN lanes = {e.session : e \in evts}
      /\ DOMAIN report.codex = {e.session : e \in evts}
      /\ \A r \in DOMAIN lanes :
            lanes[r] = Clipped(CodexPieces(Ordered(RowsRead(evts, r, asOf)), asOf), window)
      /\ \A r \in DOMAIN report.codex : report.codex[r] = Segments(lanes[r])
  BY LanesOfAll
<1>2. CASE s \in {e.session : e \in evts}
  <2> DEFINE g == Segments(Clipped(CodexPieces(rows, asOf), window))
  <2>1. Sorted(rows) /\ Len(rows) > 0
    BY <1>2, SessionHasRows
  <2>2. s \in DOMAIN report.codex /\ report.codex[s] = g
    BY <1>1, <1>2
  <2>3. ShownIn(g, t) = KnownOf(rows, t) /\ Listed(g)
    <3> HIDE DEF rows
    <3> QED BY <2>1, SessionShown
  <2> HIDE DEF report, g
  <2>4. DOMAIN g = 1 .. Len(g)
    BY <2>3 DEF Listed
  <2>5. ShownCodex(report, s, t) = {<<p.phase, p.event>> : p \in {g[i] :
            i \in {k \in DOMAIN g : g[k].start <= t /\ t < g[k].end}}}
    BY <2>2 DEF ShownCodex
  <2>6. ShownCodex(report, s, t) = ShownIn(g, t)
    BY <2>4, <2>5 DEF ShownIn, Covers
  <2> QED BY <2>3, <2>6 DEF report
<1>3. CASE s \notin {e.session : e \in evts}
  <2>1. LastAt(rows, t) = 0
    BY <1>3, SessionWithoutRows
  <2>2. KnownOf(rows, t) = {}
    BY <2>1 DEF KnownOf
  <2>3. ShownCodex(report, s, t) = {}
    <3>1. s \notin DOMAIN report.codex
      BY <1>1, <1>3
    <3> HIDE DEF report
    <3> QED BY <3>1 DEF ShownCodex
  <2> QED BY <2>2, <2>3
<1> QED BY <1>2, <1>3

-----------------------------------------------------------------------------
(* What reports show *)

\* Without overrides the rows are read as they are stored, at any time.
LEMMA RowsAsStored ==
    ASSUME Types, overrides = {}, NEW s, NEW asOf
    PROVE  RowsRead(events, s, asOf) = SessionRows(events, s)
<1>1. \A e \in SessionRows(events, s) : ReadEvent(e, asOf) = e
  BY EventRead DEF SessionRows
<1> QED BY <1>1 DEF RowsRead

\* Of the instants before it, a report shows what a later one of the same rows
\* shows: what is known of an instant does not depend on when it is asked.
LEMMA TypesSettleHistory == Types => HistorySettled
<1> SUFFICES ASSUME Types, overrides = {}, NEW earlier \in 0 .. now - 1,
                    NEW s \in scene.sessions, NEW t \in 0 .. earlier - 1
             PROVE  ShownCodex(Everything(events, earlier), s, t)
                       = ShownCodex(Everything(events, now), s, t)
  BY DEF HistorySettled, AllDays
<1>1. now \in Nat /\ earlier \in Nat /\ t \in Nat /\ t < earlier /\ t < now
      /\ events \in SUBSET events
  BY DEF Types
<1>2. ShownCodex(Everything(events, earlier), s, t)
         = KnownOf(Ordered(RowsRead(events, s, earlier)), t)
  BY <1>1, ReportOfSession
<1>3. ShownCodex(Everything(events, now), s, t)
         = KnownOf(Ordered(RowsRead(events, s, now)), t)
  BY <1>1, ReportOfSession
<1>4. RowsRead(events, s, earlier) = RowsRead(events, s, now)
  BY RowsAsStored
<1> QED BY <1>2, <1>3, <1>4

\* While no override has been recorded, what a report of the stored rows shows
\* of an instant does not depend on the moment after it that the report is as
\* of: waiting longer without a further row rewrites nothing (_codex_segments,
\* _event_state).
THEOREM HistoryIsSettled == Spec => []HistorySettled
BY TimelineTypes, TypesSettleHistory, PTL

\* A row recorded at or after another one leaves the instants before that alone.
LEMMA LaterRowKeeps ==
    ASSUME NEW rows, NEW x, Distinct(rows \cup {x}), x \notin rows, Distinct(rows),
           NEW t \in Nat, NEW f \in rows, f.at > t, f.at <= x.at
    PROVE  KnownOf(Ordered(rows), t) = KnownOf(Ordered(rows \cup {x}), t)
<1> DEFINE more == rows \cup {x}
           a == Ordered(rows)
           b == Ordered(more)
           i == LastAt(a, t)
           j == LastAt(b, t)
<1>1. /\ a \in Seq(rows) /\ Len(a) = Cardinality(rows) /\ Cardinality(rows) \in Nat
      /\ \A r \in rows : /\ Place(rows, r) \in 1 .. Cardinality(rows)
                         /\ a[Place(rows, r)] = r
      /\ \A k \in 1 .. Cardinality(rows) : Place(rows, a[k]) = k
  BY RowsInOrder
<1>2. /\ b \in Seq(more) /\ Len(b) = Cardinality(more) /\ Cardinality(more) \in Nat
      /\ \A r \in more : /\ Place(more, r) \in 1 .. Cardinality(more)
                         /\ b[Place(more, r)] = r
      /\ \A k \in 1 .. Cardinality(more) : Place(more, b[k]) = k
  BY RowsInOrder
<1>3. Sorted(a) /\ Sorted(b)
  BY OrderedSorted
<1>4. \A r \in more : r.at \in Nat
  BY DEF Distinct
<1>5. ASSUME NEW r \in rows, r.at <= t
      PROVE  Place(rows, r) = Place(more, r)
  <2>1. ~Before(x, r)
    BY <1>4, <1>5 DEF Before
  <2>2. {s \in rows : Before(s, r)} = {s \in more : Before(s, r)}
    BY <2>1
  <2> QED BY <2>2 DEF Place
<1> HIDE DEF a, b
<1>6. /\ i \in 0 .. Len(a) /\ \A k \in 1 .. Len(a) : a[k].at <= t <=> k <= i
      /\ j \in 0 .. Len(b) /\ \A k \in 1 .. Len(b) : b[k].at <= t <=> k <= j
  BY <1>3, LastRow
<1>0. /\ \A r \in more : r \in rows \/ r = x
      /\ \A r \in rows : r \in more
      /\ ~(x.at <= t) /\ ~(f.at <= t)
  BY <1>4
<1> HIDE DEF i, j, more
<1>7. ASSUME NEW k \in 1 .. i
      PROVE  k <= j /\ k \in 1 .. Len(b) /\ a[k] = b[k]
  <2>1. k \in 1 .. Len(a) /\ a[k].at <= t
    BY <1>1, <1>6
  <2>2. a[k] \in rows /\ Place(rows, a[k]) = k
    BY <1>1, <2>1
  <2>3. Place(more, a[k]) = k
    BY <1>5, <2>1, <2>2
  <2>4. k \in 1 .. Len(b) /\ b[k] = a[k]
    BY <1>0, <1>2, <2>2, <2>3
  <2> QED BY <1>6, <2>1, <2>4
<1>8. ASSUME NEW k \in 1 .. j
      PROVE  k <= i
  <2>1. k \in 1 .. Len(b) /\ b[k].at <= t
    BY <1>2, <1>6
  <2>2. b[k] \in more /\ Place(more, b[k]) = k
    BY <1>2, <2>1
  <2>3. b[k] \in rows
    BY <1>0, <2>1, <2>2
  <2>4. Place(rows, b[k]) = k
    BY <1>5, <2>1, <2>2, <2>3
  <2>5. k \in 1 .. Len(a) /\ a[k] = b[k]
    BY <1>1, <2>3, <2>4
  <2> QED BY <1>6, <2>1, <2>5
<1>9. i = j
  <2>1. i \in Nat /\ j \in Nat
    BY <1>1, <1>2, <1>6
  <2>2. i > 0 => i <= j
    BY <1>7, <2>1
  <2>3. j > 0 => j <= i
    BY <1>8, <2>1
  <2> QED BY <2>1, <2>2, <2>3
<1>10. i < Len(a) /\ i < Len(b)
  <2>1. ASSUME i = Len(a) PROVE FALSE
    <3>1. Place(rows, f) \in 1 .. Len(a) /\ a[Place(rows, f)] = f
      BY <1>1
    <3> QED BY <1>0, <1>6, <2>1, <3>1
  <2>2. ASSUME i = Len(b) PROVE FALSE
    <3>1. Place(more, f) \in 1 .. Len(b) /\ b[Place(more, f)] = f
      BY <1>0, <1>2
    <3> QED BY <1>0, <1>6, <1>9, <2>2, <3>1
  <2> QED BY <1>1, <1>2, <1>6, <1>9, <2>1, <2>2
<1>11. StatesAfter(a)[i] = StatesAfter(b)[i]
  <2>1. Listed(a) /\ Listed(b)
    BY <1>1, <1>2 DEF Listed
  <2>2. i \in Nat /\ i <= Len(a) /\ i <= Len(b) /\ i \in 0 .. i
    BY <1>1, <1>6, <1>10
  <2>3. \A k \in 1 .. i : a[k] = b[k]
    BY <1>7
  <2>4. \A k \in 0 .. i : StatesAfter(a)[k] = StatesAfter(b)[k]
    BY <2>1, <2>2, <2>3, AfterAgrees
  <2> QED BY <2>2, <2>4
<1>12. i # 0 => a[i] = b[i]
  <2>1. i \in Nat
    BY <1>1, <1>6
  <2> QED BY <1>7, <2>1
<1>13. KnownOf(a, t) = IF i = 0 THEN {} ELSE {<<StatesAfter(a)[i].phase, a[i].id>>}
  BY <1>1, <1>6, <1>10 DEF KnownOf, i
<1>14. KnownOf(b, t) = IF j = 0 THEN {} ELSE {<<StatesAfter(b)[j].phase, b[j].id>>}
  BY <1>2, <1>6, <1>9, <1>10 DEF KnownOf, j
<1>15. KnownOf(a, t) = KnownOf(b, t)
  BY <1>9, <1>11, <1>12, <1>13, <1>14
<1> QED BY <1>15 DEF a, b, more

\* A hook changes what is shown of its own session only, and there nothing
\* before a row that it is not earlier than.
LEMMA TypesKeepHooksLocal == Types => LateHookIsLocal
<1> SUFFICES ASSUME Types, NEW e \in events, NEW s \in scene.sessions, NEW t \in 0 .. now - 1,
                    \/ s # e.session
                    \/ \E f \in events \ {e} : f.session = s /\ f.at > t /\ f.at <= e.at
             PROVE  ShownCodex(Everything(events \ {e}, now), s, t)
                       = ShownCodex(Everything(events, now), s, t)
  BY DEF LateHookIsLocal, AllDays
<1> DEFINE without == events \ {e}
           own == SessionRows(without, s)
           few == RowsRead(without, s, now)
           all == RowsRead(events, s, now)
           x == ReadEvent(e, now)
<1>1. now \in Nat /\ t \in Nat /\ t < now
      /\ without \in SUBSET events /\ events \in SUBSET events
  BY DEF Types
<1>2. /\ ShownCodex(Everything(without, now), s, t) = KnownOf(Ordered(few), t)
      /\ ShownCodex(Everything(events, now), s, t) = KnownOf(Ordered(all), t)
  BY <1>1, ReportOfSession
<1>3. CASE s # e.session
  <2>1. SessionRows(without, s) = SessionRows(events, s)
    BY <1>3 DEF SessionRows
  <2>2. few = all
    BY <2>1 DEF RowsRead
  <2> QED BY <1>2, <2>2
<1>4. CASE s = e.session
  <2>1. PICK f \in without : f.session = s /\ f.at > t /\ f.at <= e.at
    BY <1>4
  <2>2. SessionRows(events, s) = own \cup {e} /\ f \in own /\ own \in SUBSET events /\ e \notin own
    BY <1>4, <2>1 DEF SessionRows
  <2> HIDE DEF own
  <2>3. all = few \cup {x}
    BY <2>2 DEF own, RowsRead
  <2>4. /\ Distinct(few) /\ Distinct(all)
    BY <1>1, RowsAreRead
  <2>5. \A d \in events : ReadEvent(d, now).at = d.at /\ ReadEvent(d, now).id = d.id
    BY EventRead
  <2>6. x \notin few
    <3>1. ASSUME NEW d \in own, ReadEvent(d, now) = x PROVE FALSE
      <4>1. d \in events /\ d # e /\ d.at = e.at /\ d.id = e.id
        BY <2>2, <2>5, <3>1
      <4> QED BY <4>1 DEF Types, Spaced
    <3> QED BY <3>1 DEF own, RowsRead
  <2>7. ReadEvent(f, now) \in few /\ ReadEvent(f, now).at > t /\ ReadEvent(f, now).at <= x.at
    BY <2>1, <2>2, <2>5 DEF own, RowsRead
  <2> HIDE DEF x, few, all
  <2>8. KnownOf(Ordered(few), t) = KnownOf(Ordered(few \cup {x}), t)
    BY <1>1, <2>3, <2>4, <2>6, <2>7, LaterRowKeeps
  <2> QED BY <1>2, <2>3, <2>8
<1> QED BY <1>3, <1>4

\* A hook, however late it is recorded, changes nothing of what is shown of other
\* sessions, nor of its own before the row it follows (_codex_segments).
THEOREM LateHooksAreLocal == Spec => []LateHookIsLocal
BY TimelineTypes, TypesKeepHooksLocal, PTL

\* A window hides nothing of the pieces inside it.
LEMMA ClipShows ==
    ASSUME NEW pieces, Pieces(pieces), NEW window, Window(window),
           \A k \in 1 .. Len(pieces) : {"phase", "event"} \subseteq DOMAIN pieces[k],
           NEW t \in Int, Within(window, t)
    PROVE  ShownIn(Clipped(pieces, window), t) = ShownIn(pieces, t)
<1> DEFINE c == Clipped(pieces, window)
           n == Len(pieces)
<1>1. /\ Pieces(c) /\ \A k \in 1 .. Len(c) : c[k].start < c[k].end
      /\ \A k \in 1 .. Len(c) : \E i \in 1 .. n :
                 /\ Same(c[k], pieces[i])
                 /\ \A x \in Int : Covers(c[k], x) <=> Covers(pieces[i], x) /\ Within(window, x)
      /\ \A i \in 1 .. n : \A x \in Int :
                 Covers(pieces[i], x) /\ Within(window, x) =>
                    \E k \in 1 .. Len(c) : Same(c[k], pieces[i]) /\ Covers(c[k], x)
  BY ClippedTidy
<1> HIDE DEF c
<1>2. ASSUME NEW k \in 1 .. Len(c), Covers(c[k], t)
      PROVE  <<c[k].phase, c[k].event>> \in ShownIn(pieces, t)
  <2>1. PICK i \in 1 .. n : Same(c[k], pieces[i]) /\ Covers(pieces[i], t)
    BY <1>1, <1>2
  <2>2. c[k].phase = pieces[i].phase /\ c[k].event = pieces[i].event
    BY <2>1 DEF Same
  <2> QED BY <2>1, <2>2 DEF ShownIn
<1>3. ASSUME NEW i \in 1 .. n, Covers(pieces[i], t)
      PROVE  <<pieces[i].phase, pieces[i].event>> \in ShownIn(c, t)
  <2>1. PICK k \in 1 .. Len(c) : Same(c[k], pieces[i]) /\ Covers(c[k], t)
    BY <1>1, <1>3
  <2>2. c[k].phase = pieces[i].phase /\ c[k].event = pieces[i].event
    BY <2>1 DEF Same
  <2> QED BY <2>1, <2>2 DEF ShownIn
<1>4. ShownIn(c, t) \subseteq ShownIn(pieces, t)
  BY <1>2 DEF ShownIn
<1>5. ShownIn(pieces, t) \subseteq ShownIn(c, t)
  BY <1>3 DEF ShownIn
<1> QED BY <1>4, <1>5 DEF c

\* A session is stalled exactly when that is what is known of it.
LEMMA StalledIsKnown ==
    ASSUME NEW rows, Sorted(rows), NEW t \in Nat
    PROVE  SessionState(rows, t) = "stalled"
              <=> \E x \in KnownOf(rows, t) : x[1] = "suspected-stall"
<1> DEFINE i == LastAt(rows, t)
           after == StatesAfter(rows)[i]
           silent == /\ i = Len(rows) /\ t >= StallAt(rows[i])
                     /\ after.state = "active" /\ ~after.active
<1>1. i \in 0 .. Len(rows) /\ Len(rows) \in Nat
  <2>1. Len(rows) \in Nat
    BY DEF Sorted
  <2>2. LastAt(rows, t) \in 0 .. Len(rows)
    BY LastRow
  <2> QED BY <2>1, <2>2
<1>2. i # 0 => (after.state = "stalled" <=> after.phase = "suspected-stall")
  <2>1. Listed(rows)
    BY DEF Sorted, Listed
  <2>2. \A k \in 1 .. Len(rows) :
            StatesAfter(rows)[k] = EventState(rows[k], StatesAfter(rows)[k - 1].phase)
    BY <2>1, AfterSteps
  <2> HIDE DEF i
  <2>3. i # 0 => i \in 1 .. Len(rows)
    BY <1>1
  <2>4. i # 0 => after = EventState(rows[i], StatesAfter(rows)[i - 1].phase)
    BY <2>2, <2>3
  <2> QED BY <2>4, StalledPhase
<1>3. SessionState(rows, t) = IF i = 0 THEN None ELSE IF silent THEN "stalled" ELSE after.state
  BY DEF SessionState, StallAt
<1>4. KnownOf(rows, t) = IF i = 0 THEN {} ELSE IF silent THEN {<<"suspected-stall", None>>}
                         ELSE {<<after.phase, rows[i].id>>}
  BY DEF KnownOf
<1>5. None # "stalled"
  BY NoneAssumption
<1> HIDE DEF i, after, silent
<1>7. CASE i = 0
  BY <1>3, <1>4, <1>5, <1>7
<1>8. CASE i # 0 /\ silent
  <2>1. <<"suspected-stall", None>>[1] = "suspected-stall"
    OBVIOUS
  <2> QED BY <1>3, <1>4, <1>8, <2>1
<1>9. CASE i # 0 /\ ~silent
  <2>1. <<after.phase, rows[i].id>>[1] = after.phase
    OBVIOUS
  <2> QED BY <1>2, <1>3, <1>4, <1>9, <2>1
<1> QED BY <1>7, <1>8, <1>9

\* The stalls that are listed are those of every instant so far.
LEMMA TypesAgreeOnStalls == Types => StallsAgree
<1> SUFFICES ASSUME Types, NEW s \in scene.sessions, NEW t \in 0 .. now - 1
             PROVE  (SessionState(EventsOf(s), t) = "stalled") <=>
                       \E stall \in DeriveStalls(events, overrides, None, now) :
                          /\ stall.lane = s
                          /\ stall.piece.start <= t /\ t < stall.piece.end
  BY DEF StallsAgree
<1> DEFINE window == [start |-> 0, end |-> now]
           lanes == CodexLanes(events, overrides, None, window, now)
           rows == Ordered(RowsRead(events, s, now))
           stalls == DeriveStalls(events, overrides, None, now)
           found == \E stall \in stalls : /\ stall.lane = s
                                          /\ stall.piece.start <= t /\ t < stall.piece.end
<1>1. now \in Nat /\ t \in Nat /\ t < now /\ events \in SUBSET events
  BY DEF Types
<1>2. EventsOf(s) = rows
  BY DEF EventsOf, RowsRead, ReadEvent, Read, SessionRows
<1>3. /\ DOMAIN lanes = {e.session : e \in events}
      /\ \A r \in DOMAIN lanes :
            lanes[r] = Clipped(CodexPieces(Ordered(RowsRead(events, r, now)), now), window)
  BY LanesOfAll
<1>4. stalls = StallsIn(lanes)
  BY DEF DeriveStalls
<1>5. found <=> /\ s \in DOMAIN lanes
                /\ \E k \in DOMAIN lanes[s] : /\ lanes[s][k].phase = "suspected-stall"
                                              /\ lanes[s][k].start <= t /\ t < lanes[s][k].end
  <2> HIDE DEF lanes, stalls
  <2>1. stalls = UNION {{[lane |-> r, piece |-> lanes[r][i]] :
                   i \in {k \in DOMAIN lanes[r] : lanes[r][k].phase = "suspected-stall"}} :
                      r \in DOMAIN lanes}
    BY <1>4 DEF StallsIn
  <2>2. ASSUME found
        PROVE  /\ s \in DOMAIN lanes
               /\ \E k \in DOMAIN lanes[s] : /\ lanes[s][k].phase = "suspected-stall"
                                             /\ lanes[s][k].start <= t /\ t < lanes[s][k].end
    <3>1. PICK stall \in stalls : /\ stall.lane = s
                                  /\ stall.piece.start <= t /\ t < stall.piece.end
      BY <2>2
    <3>2. PICK r \in DOMAIN lanes :
              \E i \in {k \in DOMAIN lanes[r] : lanes[r][k].phase = "suspected-stall"} :
                 stall = [lane |-> r, piece |-> lanes[r][i]]
      BY <2>1, <3>1
    <3>3. r = s
      BY <3>1, <3>2
    <3> QED BY <3>1, <3>2, <3>3
  <2>3. ASSUME s \in DOMAIN lanes, NEW k \in DOMAIN lanes[s],
               lanes[s][k].phase = "suspected-stall",
               lanes[s][k].start <= t, t < lanes[s][k].end
        PROVE  found
    <3>1. [lane |-> s, piece |-> lanes[s][k]] \in stalls
      BY <2>1, <2>3
    <3> QED BY <2>3, <3>1
  <2> QED BY <2>2, <2>3
<1>6. CASE s \in {e.session : e \in events}
  <2> DEFINE pieces == CodexPieces(rows, now)
             c == Clipped(pieces, window)
  <2>1. Sorted(rows) /\ Len(rows) > 0
    BY <1>1, <1>6, SessionHasRows
  <2> HIDE DEF rows
  <2>2. Pieces(pieces)
        /\ \A k \in 1 .. Len(pieces) : {"phase", "event"} \subseteq DOMAIN pieces[k]
    <3> DEFINE n == Len(rows)
    <3>1. /\ Pieces(pieces) /\ InTurn(pieces)
          /\ Len(pieces) = IF Stalling(rows, now) THEN n + 1 ELSE n
          /\ \A k \in 1 .. n :
                /\ pieces[k].start = rows[k].at
                /\ pieces[k].end = IF k < n THEN rows[k + 1].at
                                   ELSE IF Stalling(rows, now) THEN StallAt(rows[n])
                                   ELSE now
                /\ {"phase", "event"} \subseteq DOMAIN pieces[k]
                /\ pieces[k].phase = StatesAfter(rows)[k].phase
                /\ pieces[k].event = rows[k].id
          /\ Stalling(rows, now) =>
                /\ pieces[n + 1].start = StallAt(rows[n])
                /\ pieces[n + 1].end = now
                /\ {"phase", "event"} \subseteq DOMAIN pieces[n + 1]
                /\ pieces[n + 1].phase = "suspected-stall"
                /\ pieces[n + 1].event = None
      BY <1>1, <2>1, CodexFields
    <3>2. n \in Nat
      BY <2>1 DEF Sorted
    <3>3. \A k \in 1 .. Len(pieces) : k \in 1 .. n \/ (k = n + 1 /\ Stalling(rows, now))
      BY <3>1, <3>2
    <3> HIDE DEF pieces, n
    <3> QED BY <3>1, <3>3
  <2>3. Window(window) /\ Within(window, t)
    BY <1>1 DEF Window, Within
  <2>4. ShownIn(pieces, t) = KnownOf(rows, t)
    BY <1>1, <2>1, SessionShown
  <2> HIDE DEF pieces
  <2>5. ShownIn(c, t) = KnownOf(rows, t)
    BY <1>1, <2>2, <2>3, <2>4, ClipShows
  <2>6. Listed(c)
    BY <2>2, <2>3, ClippedTidy DEF Pieces
  <2>7. s \in DOMAIN lanes /\ lanes[s] = c /\ DOMAIN c = 1 .. Len(c)
    BY <1>3, <1>6, <2>6 DEF pieces, rows, Listed
  <2>0. found <=> \E k \in 1 .. Len(c) : c[k].phase = "suspected-stall" /\ Covers(c[k], t)
    <3> HIDE DEF c, lanes, found
    <3> QED BY <1>5, <2>7 DEF Covers
  <2> HIDE DEF c, lanes, found
  <2>8. found <=> \E x \in ShownIn(c, t) : x[1] = "suspected-stall"
    <3>1. ASSUME NEW x \in ShownIn(c, t), x[1] = "suspected-stall" PROVE found
      <4>1. PICK k \in 1 .. Len(c) : x = <<c[k].phase, c[k].event>> /\ Covers(c[k], t)
        BY <3>1 DEF ShownIn
      <4>2. x[1] = c[k].phase
        BY <4>1
      <4> QED BY <2>0, <3>1, <4>1, <4>2
    <3>2. ASSUME NEW k \in 1 .. Len(c), c[k].phase = "suspected-stall", Covers(c[k], t)
          PROVE  \E x \in ShownIn(c, t) : x[1] = "suspected-stall"
      <4> DEFINE x == <<c[k].phase, c[k].event>>
      <4>1. x \in ShownIn(c, t)
        BY <3>2 DEF ShownIn
      <4>2. x[1] = "suspected-stall"
        BY <3>2
      <4> QED BY <4>1, <4>2
    <3> QED BY <2>0, <3>1, <3>2
  <2>9. SessionState(rows, t) = "stalled"
           <=> \E x \in KnownOf(rows, t) : x[1] = "suspected-stall"
    BY <1>1, <2>1, StalledIsKnown
  <2> QED BY <1>2, <2>5, <2>8, <2>9 DEF found
<1>7. CASE s \notin {e.session : e \in events}
  <2>1. ~found
    <3> HIDE DEF found, lanes
    <3> QED BY <1>3, <1>5, <1>7
  <2>2. LastAt(rows, t) = 0
    BY <1>1, <1>7, SessionWithoutRows
  <2>3. SessionState(rows, t) = None
    BY <2>2 DEF SessionState
  <2>4. None # "stalled"
    BY NoneAssumption
  <2> QED BY <1>2, <2>1, <2>3, <2>4
<1> QED BY <1>6, <1>7

\* The stalls that are diagnosed over all of the past are exactly the instants
\* at which a session is stalled, midnights or not (derive_stalls).
THEOREM StallsAreOneStory == Spec => []StallsAgree
BY TimelineTypes, TypesAgreeOnStalls, PTL

-----------------------------------------------------------------------------
(* The lane of a GPU *)

\* How long a sample is the last one, and how long it speaks for the GPU.
SpanEnd(rows, i, end) == IF i < Len(rows) THEN MinOf(rows[i + 1].at, end) ELSE end
SpeaksTo(rows, i, end) == MinOf(rows[i].at + SampleGap, SpanEnd(rows, i, end))

\* Every sample has two pieces, what it says and what is then unknown.
LEMMA GpuList ==
    ASSUME NEW rows, Sorted(rows), NEW end \in Int
    PROVE  LET pieces == GpuPieces(rows, end)
               n == Len(rows)
           IN  /\ Pieces(pieces) /\ Len(pieces) = 2 * n /\ n \in Nat
               /\ \A i \in 1 .. n : SpanEnd(rows, i, end) \in Int /\ SpeaksTo(rows, i, end) \in Int
               /\ \A i \in 1 .. n :
                     /\ 2 * i - 1 \in 1 .. 2 * n /\ 2 * i \in 1 .. 2 * n
                     /\ pieces[2 * i - 1].start = rows[i].at
                     /\ pieces[2 * i - 1].end = SpeaksTo(rows, i, end)
                     /\ pieces[2 * i].start = SpeaksTo(rows, i, end)
                     /\ pieces[2 * i].end = SpanEnd(rows, i, end)
               /\ \A k \in 1 .. 2 * n : \E i \in 1 .. n : k = 2 * i - 1 \/ k = 2 * i
<1> DEFINE n == Len(rows)
           pieces == GpuPieces(rows, end)
           until(i) == IF i < Len(rows) THEN Min({rows[i + 1].at, end}) ELSE end
           piece(i, from, to, state) ==
               [start |-> from, end |-> to, state |-> state,
                task |-> rows[i].task, explicit |-> rows[i].explicit,
                process |-> rows[i].process, sample |-> rows[i].id]
           unknown(i) ==
               [piece(i, FreshUntil(rows[i], until(i)), until(i), "unknown")
                   EXCEPT !.task = "", !.explicit = FALSE, !.process = ""]
           says(i) == piece(i, rows[i].at, FreshUntil(rows[i], until(i)), rows[i].state)
<1>1. n \in Nat /\ \A i \in 1 .. n : rows[i].at \in Nat
  BY DEF Sorted
<1>2. pieces = [k \in 1 .. 2 * n |-> LET i == (k + 1) \div 2 IN
                                     IF k % 2 = 1 THEN says(i) ELSE unknown(i)]
  BY DEF GpuPieces
<1>3. SampleGap \in Nat \ {0}
  BY LimitsAssumption
<1>4. ASSUME NEW i \in 1 .. n
      PROVE  /\ until(i) = SpanEnd(rows, i, end) /\ SpanEnd(rows, i, end) \in Int
             /\ FreshUntil(rows[i], until(i)) = SpeaksTo(rows, i, end)
             /\ SpeaksTo(rows, i, end) \in Int
  <2>1. until(i) = SpanEnd(rows, i, end) /\ until(i) \in Int
    <3>1. i < n => rows[i + 1].at \in Int
      BY <1>1
    <3> QED BY <3>1, MinMaxOfTwo DEF SpanEnd, MinOf
  <2>2. rows[i].at + SampleGap \in Int
    BY <1>1, <1>3
  <2> HIDE DEF until
  <2>3. FreshUntil(rows[i], until(i)) = MinOf(rows[i].at + SampleGap, until(i))
    BY <2>1, <2>2, MinMaxOfTwo DEF FreshUntil
  <2>4. MinOf(rows[i].at + SampleGap, until(i)) \in Int
    BY <2>1, <2>2 DEF MinOf
  <2> QED BY <2>1, <2>3, <2>4 DEF SpeaksTo
<1> HIDE DEF pieces, until
<1>5. ASSUME NEW i \in 1 .. n
      PROVE  /\ 2 * i - 1 \in 1 .. 2 * n /\ 2 * i \in 1 .. 2 * n
             /\ pieces[2 * i - 1] = says(i) /\ pieces[2 * i] = unknown(i)
  <2>1. /\ 2 * i - 1 \in 1 .. 2 * n /\ 2 * i \in 1 .. 2 * n
        /\ (2 * i - 1 + 1) \div 2 = i /\ (2 * i + 1) \div 2 = i
        /\ (2 * i - 1) % 2 = 1 /\ (2 * i) % 2 = 0
    BY <1>1
  <2> HIDE DEF says, unknown
  <2>2. \A k \in 1 .. 2 * n : pieces[k] = IF k % 2 = 1 THEN says((k + 1) \div 2)
                                         ELSE unknown((k + 1) \div 2)
    BY <1>2
  <2>3. pieces[2 * i - 1] = says(i)
    BY <2>1, <2>2
  <2>4. pieces[2 * i] = unknown(i)
    BY <2>1, <2>2
  <2> QED BY <2>1, <2>3, <2>4
<1>6. ASSUME NEW k \in 1 .. 2 * n
      PROVE  \E i \in 1 .. n : k = 2 * i - 1 \/ k = 2 * i
  <2>1. (k + 1) \div 2 \in 1 .. n /\ (k = 2 * ((k + 1) \div 2) - 1 \/ k = 2 * ((k + 1) \div 2))
    BY <1>1
  <2> QED BY <2>1
<1>7. ASSUME NEW i \in 1 .. n
      PROVE  /\ says(i).start = rows[i].at /\ says(i).end = FreshUntil(rows[i], until(i))
             /\ DOMAIN says(i) = {"start", "end", "state", "task", "explicit", "process", "sample"}
             /\ says(i) = [f \in DOMAIN says(i) |-> says(i)[f]]
             /\ unknown(i).start = FreshUntil(rows[i], until(i)) /\ unknown(i).end = until(i)
             /\ DOMAIN unknown(i) = {"start", "end", "state", "task", "explicit", "process", "sample"}
             /\ unknown(i) = [f \in DOMAIN unknown(i) |-> unknown(i)[f]]
  OBVIOUS
<1> HIDE DEF says, unknown
<1>8. ASSUME NEW i \in 1 .. n
      PROVE  Piece(says(i)) /\ Piece(unknown(i))
  BY <1>1, <1>4, <1>7 DEF Piece
<1>9. Pieces(pieces) /\ Len(pieces) = 2 * n
  <2>1. 2 * n \in Nat
    BY <1>1
  <2>2. Len(pieces) = 2 * n /\ pieces = [k \in 1 .. 2 * n |-> pieces[k]]
    BY <1>2, <2>1
  <2>3. \A k \in 1 .. 2 * n : Piece(pieces[k])
    BY <1>5, <1>6, <1>8
  <2> QED BY <2>1, <2>2, <2>3 DEF Pieces, Listed
<1> SUFFICES /\ Pieces(pieces) /\ Len(pieces) = 2 * n /\ n \in Nat
             /\ \A i \in 1 .. n : SpanEnd(rows, i, end) \in Int /\ SpeaksTo(rows, i, end) \in Int
             /\ \A i \in 1 .. n :
                   /\ 2 * i - 1 \in 1 .. 2 * n /\ 2 * i \in 1 .. 2 * n
                   /\ pieces[2 * i - 1].start = rows[i].at
                   /\ pieces[2 * i - 1].end = SpeaksTo(rows, i, end)
                   /\ pieces[2 * i].start = SpeaksTo(rows, i, end)
                   /\ pieces[2 * i].end = SpanEnd(rows, i, end)
             /\ \A k \in 1 .. 2 * n : \E i \in 1 .. n : k = 2 * i - 1 \/ k = 2 * i
  BY DEF pieces
<1> QED BY <1>1, <1>4, <1>5, <1>6, <1>7, <1>9

\* No instant is left out between two that are covered.
CoveredBy(list, t) == \E k \in 1 .. Len(list) : Covers(list[k], t)
Filled(list) ==
    \A a, b, t \in Int :
        a <= t /\ t <= b /\ CoveredBy(list, a) /\ CoveredBy(list, b) => CoveredBy(list, t)
Solid(list) == \A k \in 1 .. Len(list) : k > 1 => list[k - 1].end = list[k].start

\* The pieces of a GPU follow each other and leave nothing out.
LEMMA GpuInTurn ==
    ASSUME NEW rows, Sorted(rows), NEW end \in Int
    PROVE  InTurn(GpuPieces(rows, end))
<1> DEFINE n == Len(rows)
           pieces == GpuPieces(rows, end)
           U(i) == SpanEnd(rows, i, end)
           F(i) == SpeaksTo(rows, i, end)
<1>0. n \in Nat
  BY DEF Sorted
<1>1. /\ Pieces(pieces) /\ Len(pieces) = 2 * n /\ n \in Nat
      /\ \A i \in 1 .. n : U(i) \in Int /\ F(i) \in Int
      /\ \A i \in 1 .. n :
            /\ 2 * i - 1 \in 1 .. 2 * n /\ 2 * i \in 1 .. 2 * n
            /\ pieces[2 * i - 1].start = rows[i].at
            /\ pieces[2 * i - 1].end = F(i)
            /\ pieces[2 * i].start = F(i)
            /\ pieces[2 * i].end = U(i)
      /\ \A k \in 1 .. 2 * n : \E i \in 1 .. n : k = 2 * i - 1 \/ k = 2 * i
  BY GpuList
<1>2. \A i \in 1 .. n : F(i) <= U(i)
  <2>1. SampleGap \in Nat /\ \A i \in 1 .. n : rows[i].at \in Nat
    BY LimitsAssumption DEF Sorted
  <2> SUFFICES ASSUME NEW i \in 1 .. n PROVE F(i) <= U(i)
    OBVIOUS
  <2>2. U(i) \in Int
    <3> HIDE DEF U, F, pieces
    <3> QED BY <1>1
  <2>4. rows[i].at + SampleGap \in Int
    <3>1. rows[i].at \in Nat
      BY <2>1
    <3> QED BY <2>1, <3>1
  <2>3. F(i) = MinOf(rows[i].at + SampleGap, U(i))
    BY DEF SpeaksTo
  <2> HIDE DEF U, F
  <2> QED BY <2>2, <2>3, <2>4 DEF MinOf
<1>3. ASSUME NEW i \in 1 .. n, NEW j \in 1 .. n, i < j
      PROVE  U(i) <= F(j) /\ U(i) <= rows[j].at
  <2>0. i + 1 \in 1 .. n /\ i < n /\ (i + 1 = j \/ i + 1 < j)
    BY <1>0, <1>3
  <2>1. /\ i + 1 \in 1 .. n /\ i < n /\ (i + 1 = j \/ i + 1 < j)
        /\ rows[i + 1].at \in Nat /\ rows[j].at \in Nat /\ SampleGap \in Nat
    BY <2>0, LimitsAssumption DEF Sorted
  <2>2. rows[i + 1].at <= rows[j].at
    BY <1>3, <2>1 DEF Sorted
  <2>3. U(i) <= rows[i + 1].at /\ U(i) <= end
    BY <2>1 DEF SpanEnd, MinOf
  <2>4. U(j) = end \/ (j + 1 \in 1 .. n /\ rows[j + 1].at \in Nat
                       /\ rows[j].at <= rows[j + 1].at /\ (U(j) = end \/ U(j) = rows[j + 1].at))
    <3>1. j < n => j + 1 \in 1 .. n /\ j < j + 1
      BY <1>1
    <3> QED BY <3>1 DEF SpanEnd, MinOf, Sorted
  <2>5. F(j) = rows[j].at + SampleGap \/ F(j) = U(j)
    BY DEF SpeaksTo, MinOf
  <2>6. U(i) \in Int /\ U(j) \in Int /\ F(j) \in Int
    BY <1>1
  <2> HIDE DEF U, F
  <2> QED BY <2>1, <2>2, <2>3, <2>4, <2>5, <2>6, SMTT(30)
<1> HIDE DEF U, F, n, pieces
<1>4. ASSUME NEW k \in 1 .. 2 * n, NEW l \in 1 .. 2 * n, k < l
      PROVE  pieces[k].end <= pieces[l].start
  <2>1. PICK i \in 1 .. n : k = 2 * i - 1 \/ k = 2 * i
    BY <1>1
  <2>2. PICK j \in 1 .. n : l = 2 * j - 1 \/ l = 2 * j
    BY <1>1
  <2>3. i < j \/ (i = j /\ k = 2 * i - 1 /\ l = 2 * i)
    BY <1>1, <1>4, <2>1, <2>2
  <2>4. pieces[k].end = F(i) \/ pieces[k].end = U(i)
    BY <1>1, <2>1
  <2>5. pieces[l].start = F(j) \/ pieces[l].start = rows[j].at
    BY <1>1, <2>2
  <2>6. CASE i < j
    <3>1. U(i) <= F(j) /\ U(i) <= rows[j].at
      BY <1>3, <2>6
    <3>2. pieces[k].end <= U(i) /\ F(i) \in Int /\ U(i) \in Int /\ F(j) \in Int
      BY <1>1, <1>2, <2>4
    <3>3. rows[j].at \in Int
      BY DEF Sorted, n
    <3> QED BY <2>4, <2>5, <3>1, <3>2, <3>3
  <2>7. CASE i = j /\ k = 2 * i - 1 /\ l = 2 * i
    <3>1. pieces[k].end = F(i) /\ pieces[l].start = F(i) /\ F(i) \in Int
      BY <1>1, <2>7
    <3> QED BY <3>1
  <2> QED BY <2>3, <2>6, <2>7
<1>5. InTurn(pieces)
  BY <1>1, <1>4 DEF InTurn
<1> QED BY <1>5 DEF pieces

\* And they leave no instant out from the first to the last they cover.
LEMMA GpuFilled ==
    ASSUME NEW rows, Sorted(rows), NEW end \in Int
    PROVE  Filled(GpuPieces(rows, end))
<1> DEFINE n == Len(rows)
           pieces == GpuPieces(rows, end)
           U(i) == SpanEnd(rows, i, end)
           F(i) == SpeaksTo(rows, i, end)
<1>0. n \in Nat
  BY DEF Sorted
<1>1. /\ Pieces(pieces) /\ Len(pieces) = 2 * n /\ n \in Nat
      /\ \A i \in 1 .. n : U(i) \in Int /\ F(i) \in Int
      /\ \A i \in 1 .. n :
            /\ 2 * i - 1 \in 1 .. 2 * n /\ 2 * i \in 1 .. 2 * n
            /\ pieces[2 * i - 1].start = rows[i].at
            /\ pieces[2 * i - 1].end = F(i)
            /\ pieces[2 * i].start = F(i)
            /\ pieces[2 * i].end = U(i)
      /\ \A k \in 1 .. 2 * n : \E i \in 1 .. n : k = 2 * i - 1 \/ k = 2 * i
  BY GpuList
<1>2. ASSUME NEW i \in 1 .. n
      PROVE  /\ U(i) = IF i < n THEN MinOf(rows[i + 1].at, end) ELSE end
             /\ F(i) = MinOf(rows[i].at + SampleGap, U(i))
             /\ rows[i].at \in Nat /\ SampleGap \in Nat
             /\ U(i) <= end /\ F(i) <= end
  <2>1. /\ U(i) = IF i < n THEN MinOf(rows[i + 1].at, end) ELSE end
        /\ F(i) = MinOf(rows[i].at + SampleGap, U(i))
    BY DEF SpanEnd, SpeaksTo
  <2>2. rows[i].at \in Nat /\ SampleGap \in Nat /\ (i < n => rows[i + 1].at \in Nat)
    BY <1>1, LimitsAssumption DEF Sorted
  <2> HIDE DEF U, F, n
  <2>3. U(i) <= end
    BY <2>1, <2>2 DEF MinOf
  <2>4. U(i) \in Int /\ rows[i].at + SampleGap \in Int
    BY <1>1, <2>2
  <2>5. F(i) <= end
    BY <2>1, <2>3, <2>4 DEF MinOf
  <2> QED BY <2>1, <2>2, <2>3, <2>5
<1>3. ASSUME NEW t \in Int, NEW a \in Int, NEW b \in Int, a <= t, t <= b,
             CoveredBy(pieces, a), CoveredBy(pieces, b)
      PROVE  CoveredBy(pieces, t)
  <2>1. PICK k \in 1 .. 2 * n : Covers(pieces[k], a)
    <3> HIDE DEF pieces, n
    <3> QED BY <1>1, <1>3 DEF CoveredBy
  <2>2. PICK l \in 1 .. 2 * n : Covers(pieces[l], b)
    <3> HIDE DEF pieces, n
    <3> QED BY <1>1, <1>3 DEF CoveredBy
  <2>3. PICK i \in 1 .. n : k = 2 * i - 1 \/ k = 2 * i
    BY <1>1
  <2>4. PICK j \in 1 .. n : l = 2 * j - 1 \/ l = 2 * j
    BY <1>1
  <2>5. t < end
    <3>1. pieces[l].end = F(j) \/ pieces[l].end = U(j)
      BY <1>1, <2>4
    <3>2. U(j) <= end /\ F(j) <= end /\ U(j) \in Int /\ F(j) \in Int
      BY <1>1, <1>2
    <3> HIDE DEF U, F, pieces
    <3> QED BY <1>3, <2>2, <3>1, <3>2 DEF Covers
  <2>6. rows[i].at <= a
    <3>1. CASE k = 2 * i - 1
      BY <1>1, <2>1, <3>1 DEF Covers
    <3>2. CASE k = 2 * i
      <4>1. F(i) <= a /\ a < U(i)
        BY <1>1, <2>1, <3>2 DEF Covers
      <4>2. rows[i].at <= SpanEnd(rows, i, end) \/ SpanEnd(rows, i, end) = end
        <5>1. i < n => i + 1 \in 1 .. n /\ i < i + 1
          BY <1>0
        <5>2. i < n => rows[i].at <= rows[i + 1].at
          BY <5>1 DEF Sorted
        <5> QED BY <5>2 DEF SpanEnd, MinOf
      <4>3. F(i) = MinOf(rows[i].at + SampleGap, U(i)) /\ rows[i].at \in Nat /\ SampleGap \in Nat
            /\ U(i) <= end /\ U(i) \in Int
        BY <1>1, <1>2
      <4>4. rows[i].at <= U(i) \/ U(i) = end
        BY <4>2
      <4> HIDE DEF U, F
      <4> QED BY <4>1, <4>3, <4>4 DEF MinOf
    <3> QED BY <2>3, <3>1, <3>2
  <2> DEFINE m == LastAt(rows, t)
  <2>7. rows[i].at \in Nat /\ t \in Nat /\ rows[i].at <= t
    BY <1>2, <1>3, <2>6
  <2>8. m \in 0 .. n /\ \A c \in 1 .. n : rows[c].at <= t <=> c <= m
    BY <2>7, LastRow
  <2> HIDE DEF m
  <2>9. m \in 1 .. n /\ rows[m].at <= t
    BY <1>0, <2>7, <2>8
  <2>10. m < n => m + 1 \in 1 .. n /\ rows[m + 1].at \in Nat /\ t < rows[m + 1].at
    <3>1. m < n => m + 1 \in 1 .. n /\ ~(m + 1 <= m)
      BY <1>0, <2>9
    <3>2. m < n => rows[m + 1].at \in Nat
      BY <1>2, <3>1
    <3> QED BY <2>8, <3>1, <3>2
  <2>11. t < U(m)
    <3>1. U(m) = IF m < n THEN MinOf(rows[m + 1].at, end) ELSE end
      BY <1>2, <2>9
    <3> HIDE DEF U, n
    <3> QED BY <2>5, <2>10, <3>1 DEF MinOf
  <2>12. Covers(pieces[2 * m - 1], t) \/ Covers(pieces[2 * m], t)
    <3>1. /\ pieces[2 * m - 1].start = rows[m].at
          /\ pieces[2 * m - 1].end = F(m)
          /\ pieces[2 * m].start = F(m)
          /\ pieces[2 * m].end = U(m)
          /\ F(m) \in Int
      BY <1>1, <2>9
    <3> HIDE DEF U, F, pieces
    <3> QED BY <2>9, <2>11, <3>1 DEF Covers
  <2>13. 2 * m - 1 \in 1 .. Len(pieces) /\ 2 * m \in 1 .. Len(pieces)
    BY <1>1, <2>9
  <2> HIDE DEF pieces
  <2> QED BY <2>12, <2>13 DEF CoveredBy
<1> QED BY <1>3 DEF Filled

\* A tidy list that leaves nothing out has no holes.
LEMMA FilledIsSolid ==
    ASSUME NEW list, NEW window, Tidy(list, window), Filled(list)
    PROVE  Solid(list)
<1> SUFFICES ASSUME NEW k \in 1 .. Len(list), k > 1, list[k - 1].end # list[k].start
             PROVE  FALSE
  BY DEF Solid
<1> DEFINE n == Len(list)
           t == list[k - 1].end
<1>1. n \in Nat /\ k \in 1 .. n /\ k - 1 \in 1 .. n /\ k - 1 < k
  BY DEF Tidy, Pieces, Listed
<1>2. /\ \A i \in 1 .. n : /\ list[i].start \in Int /\ list[i].end \in Int
                           /\ list[i].start < list[i].end
      /\ \A i, j \in 1 .. n : i < j => list[i].end <= list[j].start
  BY DEF Tidy, Pieces, Piece, InTurn
<1>3. list[k - 1].end <= list[k].start
  BY <1>1, <1>2
<1>4. t \in Int /\ t - 1 \in Int /\ list[k].start \in Int
  BY <1>1, <1>2
<1>5. CoveredBy(list, t - 1)
  <2>1. Covers(list[k - 1], t - 1)
    BY <1>1, <1>2 DEF Covers
  <2> QED BY <1>1, <2>1 DEF CoveredBy
<1>6. CoveredBy(list, list[k].start)
  <2>1. Covers(list[k], list[k].start)
    BY <1>1, <1>2 DEF Covers
  <2> QED BY <1>1, <2>1 DEF CoveredBy
<1>7. CoveredBy(list, t)
  <2>1. t - 1 <= t /\ t <= list[k].start
    BY <1>3, <1>4
  <2> HIDE DEF t
  <2> QED BY <1>4, <1>5, <1>6, <2>1 DEF Filled
<1>8. PICK i \in 1 .. n : Covers(list[i], t)
  BY <1>7 DEF CoveredBy
<1>9. i <= k - 1 \/ k <= i
  BY <1>1
<1>10. CASE i <= k - 1
  <2>1. i < k - 1 => list[i].end <= list[k - 1].start
    BY <1>1, <1>2
  <2>2. i = k - 1 \/ i < k - 1
    BY <1>1, <1>10
  <2>3. list[i].end <= t
    BY <1>1, <1>2, <2>1, <2>2
  <2> QED BY <1>2, <1>4, <1>8, <2>3 DEF Covers
<1>11. CASE k <= i
  <2>1. k < i => list[k].end <= list[i].start
    BY <1>1, <1>2
  <2>2. i = k \/ k < i
    BY <1>1, <1>11
  <2>3. list[k].start <= list[i].start
    BY <1>1, <1>2, <2>1, <2>2
  <2>4. t < list[k].start
    BY <1>3, <1>4
  <2> HIDE DEF t
  <2> QED BY <1>2, <1>4, <1>8, <2>3, <2>4 DEF Covers
<1> QED BY <1>9, <1>10, <1>11

\* Clipping and joining leave out nothing between.
LEMMA ClippedFilled ==
    ASSUME NEW pieces, Pieces(pieces), Filled(pieces), NEW window, Window(window)
    PROVE  Filled(Clipped(pieces, window))
<1> DEFINE c == Clipped(pieces, window)
           n == Len(pieces)
<1>1. /\ \A k \in 1 .. Len(c) : \E i \in 1 .. n :
                 /\ Same(c[k], pieces[i])
                 /\ \A t \in Int : Covers(c[k], t) <=> Covers(pieces[i], t) /\ Within(window, t)
      /\ \A i \in 1 .. n : \A t \in Int :
                 Covers(pieces[i], t) /\ Within(window, t) =>
                    \E k \in 1 .. Len(c) : Same(c[k], pieces[i]) /\ Covers(c[k], t)
  BY ClippedTidy
<1> HIDE DEF c
<1>2. \A t \in Int : CoveredBy(c, t) <=> CoveredBy(pieces, t) /\ Within(window, t)
  BY <1>1 DEF CoveredBy
<1>3. \A a, b, t \in Int : a <= t /\ t <= b /\ Within(window, a) /\ Within(window, b)
                             => Within(window, t)
  BY DEF Window, Within
<1>4. Filled(c)
  BY <1>2, <1>3 DEF Filled
<1> QED BY <1>4 DEF c

\* Joining leaves out no instant either.
LEMMA SegmentsFilled ==
    ASSUME NEW pieces, Pieces(pieces), Filled(pieces),
           \A k \in 1 .. Len(pieces) : pieces[k].start < pieces[k].end
    PROVE  Filled(Segments(pieces))
<1> DEFINE g == Segments(pieces)
<1>1. \A p : \A t \in Int : ShowsLike(g, p, t) <=> ShowsLike(pieces, p, t)
  BY SegmentsShow
<1> HIDE DEF g
<1>2. \A list, t : CoveredBy(list, t) <=> \E p : ShowsLike(list, p, t)
  BY DEF CoveredBy, ShowsLike, Same
<1>3. \A t \in Int : CoveredBy(g, t) <=> CoveredBy(pieces, t)
  BY <1>1, <1>2
<1>4. Filled(g)
  BY <1>3 DEF Filled
<1> QED BY <1>4 DEF g

-----------------------------------------------------------------------------
(* The bars of a GPU *)

BarRows(segs) ==
    [start : Int, end : Int, state : {segs[k].state : k \in 1 .. Len(segs)},
     task : {Family(segs[k]) : k \in 1 .. Len(segs)},
     observed : Int, gap : Int, gaps : Int, samples : Int]

\* A bar is in its window and its books are kept.
Kept(bar, window) ==
    /\ bar.start < bar.end
    /\ window.start <= bar.start /\ bar.end <= window.end
    /\ bar.observed + bar.gap = bar.end - bar.start
    /\ bar.gap <= bar.gaps * MergeGap
    /\ bar.observed >= 0

\* What bars have observed of a state, and what pieces have lasted in it.
Observed(bars, st) ==
    [k \in 1 .. Len(bars) |-> IF bars[k].state = st THEN bars[k].observed ELSE 0]
Lasting(list, st) ==
    [k \in 1 .. Len(list) |-> IF list[k].state = st THEN list[k].end - list[k].start ELSE 0]

GoodBars(bars, segs, i, window) ==
    /\ \A k \in 1 .. Len(bars) : Kept(bars[k], window)
    /\ Solid(bars)
    /\ i = 0 => bars = <<>>
    /\ i > 0 => Len(bars) > 0 /\ bars[Len(bars)].end = segs[i].end
    /\ \A st : SumOf(1 .. Len(bars), Observed(bars, st)) = SumOf(1 .. i, Lasting(segs, st))

\* Merging what touches keeps the books and the key.
LEMMA MergeKept ==
    ASSUME NEW segs, NEW bar \in BarRows(segs), NEW other \in BarRows(segs), NEW gap \in Nat,
           NEW window, Window(window), Kept(bar, window), Kept(other, window),
           bar.end + gap = other.start, gap <= MergeGap
    PROVE  LET new == MergeBars(bar, other, gap) IN
           /\ new \in BarRows(segs)
           /\ Kept(new, window)
           /\ new.start = bar.start /\ new.end = other.end
           /\ new.state = bar.state /\ new.task = bar.task
           /\ new.observed = bar.observed + other.observed
<1> DEFINE new == MergeBars(bar, other, gap)
           one == IF gap > 0 THEN 1 ELSE 0
<1>1. /\ \A b \in BarRows(segs) : /\ b.start \in Int /\ b.end \in Int /\ b.observed \in Int
                                  /\ b.gap \in Int /\ b.gaps \in Int /\ b.samples \in Int
      /\ MergeGap \in Nat
  BY LimitsAssumption DEF BarRows
<1>2. /\ new.start = bar.start /\ new.end = other.end
      /\ new.state = bar.state /\ new.task = bar.task
      /\ new.observed = bar.observed + other.observed
      /\ new.gap = bar.gap + gap + other.gap
      /\ new.gaps = bar.gaps + one + other.gaps
  BY DEF MergeBars, BarRows
<1>3. new \in BarRows(segs)
  <2>1. /\ bar.observed + other.observed \in Int /\ bar.gap + gap + other.gap \in Int
        /\ bar.gaps + one + other.gaps \in Int /\ bar.samples + other.samples \in Int
    BY <1>1
  <2> HIDE DEF one
  <2> QED BY <1>1, <2>1 DEF MergeBars, BarRows, one
<1> HIDE DEF new
<1>4. gap <= one * MergeGap
  BY <1>1
<1> HIDE DEF one
<1>5. one \in Int
  BY DEF one
<1>6. (bar.gaps + one + other.gaps) * MergeGap
         = bar.gaps * MergeGap + one * MergeGap + other.gaps * MergeGap
  BY <1>1, <1>5
<1>7. new.gap <= new.gaps * MergeGap
  <2> DEFINE x == bar.gaps * MergeGap
             y == one * MergeGap
             z == other.gaps * MergeGap
  <2>1. x \in Int /\ y \in Int /\ z \in Int
    BY <1>1, <1>5
  <2>2. bar.gap <= x /\ gap <= y /\ other.gap <= z /\ new.gaps * MergeGap = x + y + z
    BY <1>2, <1>4, <1>6 DEF Kept
  <2>3. bar.gap \in Int /\ other.gap \in Int
    BY <1>1
  <2> HIDE DEF x, y, z
  <2> QED BY <1>2, <2>1, <2>2, <2>3
<1>8. /\ new.start < new.end /\ window.start <= new.start /\ new.end <= window.end
      /\ new.observed + new.gap = new.end - new.start /\ new.observed >= 0
  <2>1. /\ bar.start < bar.end /\ other.start < other.end
        /\ window.start <= bar.start /\ other.end <= window.end
        /\ bar.observed + bar.gap = bar.end - bar.start /\ bar.observed >= 0
        /\ other.observed + other.gap = other.end - other.start /\ other.observed >= 0
    BY DEF Kept
  <2> QED BY <1>1, <1>2, <2>1
<1>9. Kept(new, window)
  BY <1>7, <1>8 DEF Kept
<1> QED BY <1>2, <1>3, <1>9 DEF new

\* A piece as a bar of its own.
LEMMA BarKept ==
    ASSUME NEW segs, NEW window, Tidy(segs, window), Window(window), NEW k \in 1 .. Len(segs)
    PROVE  LET bar == Bar(segs[k]) IN
           /\ bar \in BarRows(segs)
           /\ Kept(bar, window)
           /\ bar.start = segs[k].start /\ bar.end = segs[k].end /\ bar.state = segs[k].state
           /\ bar.observed = segs[k].end - segs[k].start
<1> DEFINE bar == Bar(segs[k])
<1>1. /\ segs[k].start \in Int /\ segs[k].end \in Int /\ segs[k].start < segs[k].end
      /\ window.start <= segs[k].start /\ segs[k].end <= window.end
  BY DEF Tidy, Pieces, Piece
<1>2. /\ bar.start = segs[k].start /\ bar.end = segs[k].end /\ bar.state = segs[k].state
      /\ bar.observed = segs[k].end - segs[k].start /\ bar.gap = 0 /\ bar.gaps = 0
  BY DEF Bar
<1>3. bar \in BarRows(segs)
  <2>1. segs[k].end - segs[k].start \in Int
    BY <1>1
  <2> QED BY <1>1, <2>1 DEF Bar, BarRows
<1>4. Kept(bar, window)
  <2>1. 0 <= 0 * MergeGap
    BY LimitsAssumption
  <2> HIDE DEF bar
  <2> QED BY <1>1, <1>2, <2>1 DEF Kept
<1> QED BY <1>2, <1>3, <1>4

\* One more segment: what held of the bars so far holds of the bars with it.
LEMMA AddKeeps ==
    ASSUME NEW segs, NEW window, Tidy(segs, window), Solid(segs), Window(window),
           NEW i \in 1 .. Len(segs), NEW bars \in Seq(BarRows(segs)),
           GoodBars(bars, segs, i - 1, window)
    PROVE  /\ AddBar(bars, Bar(segs[i])) \in Seq(BarRows(segs))
           /\ GoodBars(AddBar(bars, Bar(segs[i])), segs, i, window)
<1> DEFINE n == Len(bars)
           S == BarRows(segs)
           bar == Bar(segs[i])
           new == AddBar(bars, bar)
           merged == MergeBars(bars[n], bar, 0)
<1>0. n \in Nat /\ Len(segs) \in Nat /\ i - 1 \in Nat
  BY DEF Tidy, Pieces, Listed
<1>9. bars \in Seq(S) /\ Len(bars) = n /\ \A k \in 1 .. n : bars[k] \in S
  OBVIOUS
<1>1. /\ bar \in S /\ Kept(bar, window)
      /\ bar.start = segs[i].start /\ bar.end = segs[i].end /\ bar.state = segs[i].state
      /\ bar.observed = segs[i].end - segs[i].start
  BY BarKept
<1> HIDE DEF bar
<1>2. /\ \A k \in 1 .. n : Kept(bars[k], window)
      /\ \A k \in 1 .. n : k > 1 => bars[k - 1].end = bars[k].start
      /\ i - 1 = 0 => bars = <<>>
      /\ i - 1 > 0 => n > 0 /\ bars[n].end = segs[i - 1].end
      /\ \A st : SumOf(1 .. n, Observed(bars, st)) = SumOf(1 .. i - 1, Lasting(segs, st))
  BY DEF GoodBars, Solid
<1>3. n > 0 => bars[n].end = bar.start
  <2>1. n > 0 => i - 1 > 0
    BY <1>0, <1>2
  <2>2. i - 1 > 0 => segs[i - 1].end = segs[i].start
    BY <1>0 DEF Solid
  <2> QED BY <1>1, <1>2, <2>1, <2>2
<1>4. \A b \in S : b.observed \in Int
  BY DEF BarRows
<1>5. \A st : SumOf(1 .. i, Lasting(segs, st))
                 = SumOf(1 .. n, Observed(bars, st))
                   + (IF bar.state = st THEN bar.observed ELSE 0)
  <2> SUFFICES ASSUME NEW st
               PROVE  SumOf(1 .. i, Lasting(segs, st))
                         = SumOf(1 .. n, Observed(bars, st))
                           + (IF bar.state = st THEN bar.observed ELSE 0)
    OBVIOUS
  <2> DEFINE g == Lasting(segs, st)
  <2>0. \A k \in 1 .. Len(segs) : segs[k].end \in Int /\ segs[k].start \in Int
    BY DEF Tidy, Pieces, Piece
  <2>1. \A k \in 1 .. Len(segs) : segs[k].end - segs[k].start \in Int
    BY <2>0
  <2>2. \A k \in 1 .. Len(segs) : g[k] \in Int
    BY <2>1 DEF Lasting
  <2>3. g[i] = IF bar.state = st THEN bar.observed ELSE 0
    BY <1>1 DEF Lasting
  <2>4. (\A k \in 1 .. i - 1 : g[k] \in Int /\ g[k] = g[k]) /\ g[i - 1 + 1] \in Int
    BY <1>0, <2>2
  <2> HIDE DEF g
  <2>5. SumOf(1 .. i - 1 + 1, g) = SumOf(1 .. i - 1, g) + g[i - 1 + 1]
    BY <1>0, <2>4, SumSteps
  <2>6. i - 1 + 1 = i
    OBVIOUS
  <2> QED BY <1>2, <2>3, <2>5, <2>6 DEF g
<1>6. CASE n > 0 /\ SameKey(bars[n], bar)
  <2>1. bars # <<>> /\ Last(bars) = bars[n] /\ n \in 1 .. n
    BY <1>0, <1>6 DEF Last
  <2>2. new = [bars EXCEPT ![n] = merged]
    BY <1>3, <1>6, <2>1 DEF AddBar
  <2>3. bars[n] \in S /\ Kept(bars[n], window) /\ bars[n].end \in Int
    BY <1>2, <1>9, <2>1 DEF BarRows
  <2>4. /\ merged \in S /\ Kept(merged, window)
        /\ merged.start = bars[n].start /\ merged.end = bar.end
        /\ merged.state = bars[n].state /\ merged.task = bars[n].task
        /\ merged.observed = bars[n].observed + bar.observed
    <3>1. bars[n].end + 0 = bar.start /\ 0 <= MergeGap /\ 0 \in Nat
      BY <1>3, <1>6, <2>3, LimitsAssumption
    <3> QED BY <1>1, <2>3, <3>1, MergeKept
  <2> HIDE DEF merged, new
  <2>5. /\ new \in Seq(S) /\ Len(new) = n /\ new[n] = merged
        /\ \A k \in 1 .. n : k # n => new[k] = bars[k]
    <3> HIDE DEF S
    <3> QED BY <1>9, <2>1, <2>2, <2>4
  <2>6. \A k \in 1 .. n : Kept(new[k], window)
    BY <1>2, <2>4, <2>5
  <2>7. Solid(new)
    <3>1. ASSUME NEW k \in 1 .. n, k > 1 PROVE new[k - 1].end = new[k].start
      <4>1. k - 1 \in 1 .. n /\ k - 1 # n
        BY <1>0, <3>1
      <4>2. bars[k - 1].end = bars[k].start
        BY <1>2, <3>1
      <4> QED BY <2>4, <2>5, <4>1, <4>2
    <3> QED BY <2>5, <3>1 DEF Solid
  <2>8. ASSUME NEW st
        PROVE  SumOf(1 .. n, Observed(new, st)) = SumOf(1 .. i, Lasting(segs, st))
    <3> DEFINE g == Observed(bars, st)
               f == Observed(new, st)
    <3>1. \A k \in 1 .. n : bars[k].observed \in Int /\ bars[k] \in S
      <4> HIDE DEF S
      <4> QED BY <1>4, <1>9
    <3>2. /\ \A k \in 1 .. n : g[k] \in Int
          /\ \A k \in 1 .. n : k # n => f[k] = g[k]
          /\ g[n] = IF bars[n].state = st THEN bars[n].observed ELSE 0
          /\ f[n] = IF bars[n].state = st THEN bars[n].observed + bar.observed ELSE 0
      BY <2>1, <2>4, <2>5, <3>1 DEF Observed
    <3>3. bar.observed \in Int /\ bars[n].state = bar.state
      BY <1>1, <1>4, <1>6 DEF SameKey
    <3> DEFINE m == n - 1
    <3>4. m \in Nat /\ m + 1 = n /\ (\A k \in 1 .. m : k \in 1 .. n /\ k # n)
      BY <1>0, <1>6
    <3>5. f[n] \in Int /\ g[n] \in Int /\ f[n] = g[n] + IF bar.state = st THEN bar.observed ELSE 0
      BY <2>1, <3>1, <3>2, <3>3
    <3> HIDE DEF f, g, m
    <3>6. SumOf(1 .. m + 1, g) = SumOf(1 .. m, g) + g[m + 1]
      BY <3>2, <3>4, <3>5, SumSteps
    <3>7. SumOf(1 .. m + 1, f) = SumOf(1 .. m, g) + f[m + 1]
      BY <3>2, <3>4, <3>5, SumSteps
    <3>8. SumOf(1 .. m, g) \in Int
      BY <3>2, <3>4, SumInterval
    <3>9. SumOf(1 .. n, f) = SumOf(1 .. n, g) + IF bar.state = st THEN bar.observed ELSE 0
      <4>1. f[n] = g[n] + (IF bar.state = st THEN bar.observed ELSE 0)
        BY <3>5
      <4>2. (IF bar.state = st THEN bar.observed ELSE 0) \in Int
        BY <3>3
      <4>3. SumOf(1 .. n, g) = SumOf(1 .. m, g) + g[n] /\ SumOf(1 .. n, f) = SumOf(1 .. m, g) + f[n]
        BY <3>4, <3>6, <3>7
      <4> QED BY <3>5, <3>8, <4>1, <4>2, <4>3
    <3> QED BY <1>5, <3>9 DEF f, g
  <2>9. i > 0 /\ n > 0
    BY <1>0, <1>6
  <2>10. new \in Seq(S) /\ GoodBars(new, segs, i, window)
    BY <1>1, <2>4, <2>5, <2>6, <2>7, <2>8, <2>9 DEF GoodBars
  <2> QED BY <2>10 DEF new, bar
<1>7. CASE ~(n > 0 /\ SameKey(bars[n], bar))
  <2>1. new = bars \o <<bar>>
    <3>1. bars # <<>> => n > 0 /\ Last(bars) = bars[n]
      BY <1>0 DEF Last
    <3> QED BY <1>7, <3>1 DEF AddBar
  <2> HIDE DEF new
  <2>2. /\ new \in Seq(S) /\ Len(new) = n + 1 /\ new[n + 1] = bar
        /\ \A k \in 1 .. n : new[k] = bars[k]
    <3> HIDE DEF S
    <3> QED BY <1>0, <1>1, <1>9, <2>1
  <2>3. \A k \in 1 .. n + 1 : k \in 1 .. n \/ k = n + 1
    BY <1>0
  <2>4. \A k \in 1 .. n + 1 : Kept(new[k], window)
    BY <1>1, <1>2, <2>2, <2>3
  <2>5. Solid(new)
    <3>1. ASSUME NEW k \in 1 .. n + 1, k > 1 PROVE new[k - 1].end = new[k].start
      <4>1. k - 1 \in 1 .. n
        BY <1>0, <3>1
      <4>2. k = n + 1 => k - 1 = n /\ n > 0
        BY <1>0, <3>1
      <4> QED BY <1>2, <1>3, <2>2, <2>3, <3>1, <4>1, <4>2
    <3> QED BY <2>2, <3>1 DEF Solid
  <2>6. ASSUME NEW st
        PROVE  SumOf(1 .. n + 1, Observed(new, st)) = SumOf(1 .. i, Lasting(segs, st))
    <3> DEFINE g == Observed(bars, st)
               f == Observed(new, st)
    <3>1. \A k \in 1 .. n : bars[k].observed \in Int
      <4> HIDE DEF S
      <4> QED BY <1>4, <1>9
    <3>2. n + 1 \in 1 .. n + 1 /\ (\A k \in 1 .. n : k \in 1 .. n + 1) /\ bar.observed \in Int
      BY <1>0, <1>1, <1>4
    <3>3. /\ \A k \in 1 .. n : g[k] \in Int /\ f[k] = g[k]
          /\ f[n + 1] = IF bar.state = st THEN bar.observed ELSE 0
      BY <2>2, <3>1, <3>2 DEF Observed
    <3>4. f[n + 1] \in Int
      BY <3>2, <3>3
    <3> HIDE DEF f, g
    <3>5. SumOf(1 .. n + 1, f) = SumOf(1 .. n, g) + f[n + 1]
      BY <1>0, <3>3, <3>4, SumSteps
    <3> QED BY <1>5, <3>3, <3>5 DEF f, g
  <2>7. i # 0 /\ n + 1 > 0 /\ n + 1 \in 1 .. n + 1
    BY <1>0
  <2>8. new \in Seq(S) /\ GoodBars(new, segs, i, window)
    BY <1>1, <2>2, <2>4, <2>5, <2>6, <2>7 DEF GoodBars
  <2> QED BY <2>8 DEF new, bar
<1> QED BY <1>6, <1>7

\* So the bars that are prepared keep the books of all the pieces.
LEMMA PreparedGood ==
    ASSUME NEW segs, NEW window, Tidy(segs, window), Solid(segs), Window(window)
    PROVE  /\ Prepared(segs) \in Seq(BarRows(segs))
           /\ GoodBars(Prepared(segs), segs, Len(segs), window)
<1> DEFINE n == Len(segs)
           S == Seq(BarRows(segs))
           good(i) == {bars \in S : GoodBars(bars, segs, i, window)}
           types == [i \in 0 .. n |-> good(i)]
           step == [i \in 1 .. n |-> [bars \in good(i - 1) |-> AddBar(bars, Bar(segs[i]))]]
           Rec(f) == f = [i \in 0 .. Len(segs) |->
                            IF i = 0 THEN <<>> ELSE AddBar(f[i - 1], Bar(segs[i]))]
           v == CHOOSE f : Rec(f)
<1>1. n \in Nat
  BY DEF Tidy, Pieces, Listed
<1>2. <<>> \in good(0)
  <2>1. <<>> \in S /\ Len(<<>>) = 0
    OBVIOUS
  <2>2. GoodBars(<<>>, segs, 0, window)
    <3>1. \A st : SumOf(1 .. 0, Observed(<<>>, st)) = SumOf(1 .. 0, Lasting(segs, st))
      <4>1. \A g : SumOf({}, g) = 0
        BY SumRules, FS_EmptySet
      <4>2. 1 .. 0 = {}
        OBVIOUS
      <4> QED BY <4>1, <4>2
    <3>2. \A k \in 1 .. Len(<<>>) : FALSE
      BY <2>1
    <3> QED BY <2>1, <3>1, <3>2 DEF GoodBars, Solid
  <2> QED BY <2>1, <2>2
<1>3. ASSUME NEW i \in 1 .. n, NEW bars \in good(i - 1)
      PROVE  AddBar(bars, Bar(segs[i])) \in good(i)
  BY <1>3, AddKeeps
<1> HIDE DEF good
<1>4. \A i \in 1 .. n : i - 1 \in 0 .. n /\ i \in 0 .. n /\ i # 0
  BY <1>1
<1>5. PICK u : Follows(u, n, <<>>, step) /\ \A i \in 0 .. n : u[i] \in types[i]
  <2>1. <<>> \in types[0]
    BY <1>1, <1>2
  <2>2. \A i \in 1 .. n : \A x \in types[i - 1] : step[i][x] \in types[i]
    BY <1>3, <1>4
  <2> HIDE DEF types, step
  <2> QED BY <1>1, <2>1, <2>2, RecursionDefined
<1>6. Rec(u)
  <2>1. u = [i \in 0 .. n |-> IF i = 0 THEN <<>> ELSE step[i][u[i - 1]]]
    BY <1>5 DEF Follows
  <2>2. \A i \in 0 .. n : i # 0 => i \in 1 .. n
    BY <1>1
  <2>3. \A i \in 1 .. n : u[i - 1] \in good(i - 1)
    BY <1>4, <1>5
  <2>4. \A i \in 1 .. n : step[i][u[i - 1]] = AddBar(u[i - 1], Bar(segs[i]))
    BY <2>3
  <2> HIDE DEF step
  <2>5. \A i \in 0 .. n : (IF i = 0 THEN <<>> ELSE step[i][u[i - 1]])
                             = IF i = 0 THEN <<>> ELSE AddBar(u[i - 1], Bar(segs[i]))
    BY <2>2, <2>4
  <2> QED BY <2>1, <2>5
<1>7. Prepared(segs) = v[Len(segs)]
  BY DEF Prepared
<1>8. Rec(v)
  <2> HIDE DEF Rec
  <2> QED BY <1>6
<1>9. \A i \in 0 .. n : v[i] = IF i = 0 THEN <<>> ELSE AddBar(v[i - 1], Bar(segs[i]))
  <2> HIDE DEF v
  <2> QED BY <1>8
<1> HIDE DEF v, Rec
<1> DEFINE A == {i \in 0 .. n : v[i] \in good(i)}
<1>10. 0 \in A
  <2>1. 0 \in 0 .. n
    BY <1>1
  <2>2. v[0] = <<>>
    BY <1>9, <2>1
  <2> QED BY <1>2, <2>1, <2>2
<1>11. ASSUME NEW i \in 1 .. n, i - 1 \in A
       PROVE  i \in A
  <2>1. v[i] = AddBar(v[i - 1], Bar(segs[i]))
    BY <1>4, <1>9
  <2> QED BY <1>3, <1>4, <1>11, <2>1
<1>12. n \in A
  <2> HIDE DEF A
  <2>1. \A i \in 0 .. n : i \in A
    BY <1>1, <1>10, <1>11, Induct
  <2> QED BY <1>1, <2>1
<1>13. v[n] \in good(n)
  BY <1>12
<1> QED BY <1>7, <1>13 DEF good

\* What lies between a bar and the next one that is neither idle nor unknown.
LEMMA GapEnds ==
    ASSUME NEW S, NEW bars \in Seq(S), NEW i \in 1 .. Len(bars)
    PROVE  /\ GapEnd(bars, i) \in i + 1 .. Len(bars) + 1
           /\ \A k \in i + 1 .. GapEnd(bars, i) - 1 : bars[k].state \in Idle
<1> DEFINE n == Len(bars)
           C == {j \in i + 1 .. Len(bars) + 1 : j = Len(bars) + 1 \/ bars[j].state \notin Idle}
           j == GapEnd(bars, i)
<1>1. n \in Nat
  OBVIOUS
<1>2. C \in SUBSET Nat /\ n + 1 \in C
  BY <1>1
<1>3. \E x \in C : \A y \in C : x <= y
  <2> HIDE DEF C, n
  <2> QED BY <1>2, LeastNat
<1>4. j = CHOOSE x \in C : \A y \in C : x <= y
  BY DEF GapEnd, Min
<1>5. j \in C /\ \A y \in C : j <= y
  <2> HIDE DEF C, j
  <2> QED BY <1>3, <1>4
<1> HIDE DEF j
<1>6. ASSUME NEW k \in i + 1 .. j - 1
      PROVE  bars[k].state \in Idle
  <2>1. k \in i + 1 .. n + 1 /\ k # n + 1 /\ ~(j <= k)
    BY <1>1, <1>5
  <2>2. k \notin C
    BY <1>5, <2>1
  <2> QED BY <2>1, <2>2
<1>7. j \in i + 1 .. n + 1
  BY <1>5
<1> QED BY <1>6, <1>7 DEF j

\* Touching bars last from the start of the first to the end of the last.
Touching(bars, a, b, g) ==
    /\ \A k \in a .. b : /\ bars[k].start \in Int /\ bars[k].end \in Int
                         /\ g[k] = bars[k].end - bars[k].start
    /\ \A k \in a .. b - 1 : bars[k].end = bars[k + 1].start

\* The time of touching bars telescopes.
LEMMA TouchingLast ==
    ASSUME NEW a \in Int, NEW b \in Int, a <= b, NEW bars, NEW g, Touching(bars, a, b, g)
    PROVE  SumOf(a .. b, g) = bars[b].end - bars[a].start
<1>0. /\ \A k \in a .. b : /\ bars[k].start \in Int /\ bars[k].end \in Int
                           /\ g[k] = bars[k].end - bars[k].start
      /\ \A k \in a .. b - 1 : bars[k].end = bars[k + 1].start
  BY DEF Touching
<1> DEFINE m == b - a
           A == {i \in 0 .. m : SumOf(a .. a + i, g) = bars[a + i].end - bars[a].start}
<1>1. m \in Nat /\ a + m = b
  OBVIOUS
<1>2. \A k \in a .. b : g[k] \in Int
  BY <1>0
<1> HIDE DEF m
<1>3. 0 \in A
  <2>1. a \in a .. b /\ a + 0 = a /\ a - 1 < a /\ a <= a /\ 0 \in 0 .. m
    BY <1>1
  <2>2. \A k \in a .. a : g[k] \in Int
    BY <1>2, <2>1
  <2>3. SumOf(a .. a, g) = SumOf(a .. a - 1, g) + g[a]
    BY <2>1, <2>2, SumInterval
  <2>4. SumOf(a .. a - 1, g) = 0
    <3>1. a - 1 \in Int /\ \A k \in a .. a - 1 : g[k] \in Int
      OBVIOUS
    <3> QED BY <2>1, <3>1, SumInterval
  <2>5. g[a] = bars[a].end - bars[a].start /\ g[a] \in Int
    BY <1>0, <1>2, <2>1
  <2> QED BY <2>1, <2>3, <2>4, <2>5
<1>4. ASSUME NEW i \in 1 .. m, i - 1 \in A
      PROVE  i \in A
  <2> DEFINE k == a + i
  <2>1. k \in a .. b /\ k - 1 \in a .. b - 1 /\ a + (i - 1) = k - 1 /\ k - 1 + 1 = k /\ a <= k
        /\ i \in 0 .. m /\ k \in Int /\ k - 1 \in a .. b
    BY <1>1
  <2>2. \A l \in a .. k : g[l] \in Int
    <3>1. \A l \in a .. k : l \in a .. b
      BY <2>1
    <3> QED BY <1>2, <3>1
  <2> HIDE DEF k
  <2>3. SumOf(a .. k, g) = SumOf(a .. k - 1, g) + g[k]
    BY <2>1, <2>2, SumInterval
  <2>4. SumOf(a .. k - 1, g) = bars[k - 1].end - bars[a].start
    BY <1>4, <2>1
  <2>5. bars[k - 1].end = bars[k].start
    BY <1>0, <2>1
  <2>6. g[k] = bars[k].end - bars[k].start /\ bars[k].start \in Int /\ bars[k].end \in Int
    BY <1>0, <2>1
  <2>7. bars[a].start \in Int
    <3>1. a \in a .. b
      BY <2>1
    <3> QED BY <1>0, <3>1
  <2>8. SumOf(a .. k, g) = bars[k].end - bars[a].start
    BY <2>3, <2>4, <2>5, <2>6, <2>7
  <2> QED BY <2>1, <2>8 DEF k
<1>5. m \in A
  <2> HIDE DEF A
  <2>1. \A i \in 0 .. m : i \in A
    BY <1>1, <1>3, <1>4, Induct
  <2> QED BY <1>1, <2>1
<1> QED BY <1>1, <1>5

\* The time of a gap is that sum.
LEMMA GapTotalSums ==
    ASSUME NEW S, NEW bars \in Seq(S), NEW i \in 1 .. Len(bars),
           \A k \in i + 1 .. GapEnd(bars, i) - 1 : bars[k].end - bars[k].start \in Int
    PROVE  GapTotal(bars, i) = SumOf(i + 1 .. GapEnd(bars, i) - 1,
               [k \in i + 1 .. GapEnd(bars, i) - 1 |-> bars[k].end - bars[k].start])
<1> DEFINE C == i + 1 .. GapEnd(bars, i) - 1
           g == [k \in C |-> bars[k].end - bars[k].start]
           Rec(it) == it = [T \in SUBSET C |->
                              IF T = {} THEN 0
                              ELSE (bars[CHOOSE x \in T : TRUE].end
                                       - bars[CHOOSE x \in T : TRUE].start)
                                   + it[T \ {CHOOSE x \in T : TRUE}]]
           v == CHOOSE it : Rec(it)
<1>1. IsFiniteSet(C)
  <2>1. GapEnd(bars, i) \in i + 1 .. Len(bars) + 1
    BY GapEnds
  <2>2. i + 1 \in Int /\ GapEnd(bars, i) - 1 \in Int
    BY <2>1
  <2> QED BY <2>2, FS_Interval
<1>2. GapTotal(bars, i) = v[C]
  BY DEF GapTotal, MapThenSumSet, MapThenFoldSet
<1> HIDE DEF C
<1>3. \A x \in C : g[x] \in Int
  BY DEF C
<1>4. \A it : Rec(it) <=> Iterated(C, g, it)
  <2>1. \A T \in SUBSET C : T # {} => (CHOOSE x \in T : TRUE) \in C
    OBVIOUS
  <2>2. \A T \in SUBSET C : T # {} =>
            g[CHOOSE x \in T : TRUE] = bars[CHOOSE x \in T : TRUE].end
                                          - bars[CHOOSE x \in T : TRUE].start
    BY <2>1
  <2> HIDE DEF g
  <2> QED BY <2>2 DEF Iterated
<1> HIDE DEF g
<1>5. (\E it : Iterated(C, g, it)) /\ \A it : Iterated(C, g, it) => it[C] = SumOf(C, g)
  BY <1>1, <1>3, IterationSums
<1>6. Rec(v)
  <2> HIDE DEF Rec
  <2>1. \E it : Rec(it)
    BY <1>4, <1>5
  <2> QED BY <2>1
<1> HIDE DEF v, Rec
<1>7. v[C] = SumOf(C, g)
  BY <1>4, <1>5, <1>6
<1> QED BY <1>2, <1>7 DEF g, C

\* The loop that folds: what it has passed and what is before it are in order,
\* and together they still hold what was observed.
Loops(segs) == [index : Nat, bars : Seq(BarRows(segs)), result : Seq(BarRows(segs))]

Passed(loop, st) == SumOf(1 .. Len(loop.result), Observed(loop.result, st))
ToCome(loop, st) == SumOf(loop.index .. Len(loop.bars), Observed(loop.bars, st))

GoodLoop(loop, segs, n, turns, window) ==
    /\ Len(loop.bars) = n
    /\ loop.index \in turns + 1 .. n + 1
    /\ \A k \in loop.index .. n : Kept(loop.bars[k], window)
    /\ \A k \in loop.index .. n - 1 : loop.bars[k].end = loop.bars[k + 1].start
    /\ \A k \in 1 .. Len(loop.result) : Kept(loop.result[k], window)
    /\ Solid(loop.result)
    /\ loop.index <= n /\ Len(loop.result) > 0 =>
          loop.result[Len(loop.result)].end = loop.bars[loop.index].start
    /\ \A st : LET all == SumOf(1 .. Len(segs), Lasting(segs, st)) IN
               /\ Passed(loop, st) + ToCome(loop, st) <= all
               /\ st \notin Idle => Passed(loop, st) + ToCome(loop, st) = all

\* What bars have observed are numbers.
LEMMA ObservedNumbers ==
    ASSUME NEW segs, NEW bars \in Seq(BarRows(segs)), NEW st
    PROVE  \A k \in 1 .. Len(bars) :
              /\ Observed(bars, st)[k] = IF bars[k].state = st THEN bars[k].observed ELSE 0
              /\ Observed(bars, st)[k] \in Int
<1> DEFINE S == BarRows(segs)
<1>1. \A b \in S : b.observed \in Int
  BY DEF BarRows
<1>2. bars \in Seq(S)
  OBVIOUS
<1> HIDE DEF S
<1>3. \A k \in 1 .. Len(bars) : bars[k].observed \in Int
  BY <1>1, <1>2
<1> QED BY <1>3 DEF Observed

\* A bar that folds with nothing is passed.
LEMMA TurnPasses ==
    ASSUME NEW segs, NEW n \in Nat, NEW turns \in Nat, NEW window,
           NEW loop \in Loops(segs), GoodLoop(loop, segs, n, turns, window),
           loop.index <= n, ~Folds(loop.bars, loop.index)
    PROVE  Turn(loop) \in Loops(segs) /\ GoodLoop(Turn(loop), segs, n, turns + 1, window)
<1> DEFINE S == BarRows(segs)
           i == loop.index
           bars == loop.bars
           result == loop.result
           r == Len(result)
           new == Turn(loop)
           more == result \o <<bars[i]>>
<1>1. /\ loop = [index |-> i, bars |-> bars, result |-> result]
      /\ i \in Nat /\ bars \in Seq(S) /\ result \in Seq(S) /\ r \in Nat
  BY DEF Loops
<1>2. /\ Len(bars) = n
      /\ i \in turns + 1 .. n + 1
      /\ \A k \in i .. n : Kept(bars[k], window)
      /\ \A k \in i .. n - 1 : bars[k].end = bars[k + 1].start
      /\ \A k \in 1 .. r : Kept(result[k], window)
      /\ \A k \in 1 .. r : k > 1 => result[k - 1].end = result[k].start
      /\ i <= n /\ r > 0 => result[r].end = bars[i].start
  BY DEF GoodLoop, Solid
<1>3. \A st : LET all == SumOf(1 .. Len(segs), Lasting(segs, st)) IN
              /\ Passed(loop, st) + ToCome(loop, st) <= all
              /\ st \notin Idle => Passed(loop, st) + ToCome(loop, st) = all
  BY DEF GoodLoop
<1>4. new = [loop EXCEPT !.index = i + 1, !.result = more]
  BY DEF Turn
<1>5. new.index = i + 1 /\ new.bars = bars /\ new.result = more
  <2> HIDE DEF more, new
  <2> QED BY <1>1, <1>4
<1>6. i \in 1 .. n /\ bars[i] \in S
  <2>1. i \in 1 .. n
    BY <1>2
  <2> HIDE DEF S, i, bars
  <2> QED BY <1>1, <1>2, <2>1
<1>7. /\ more \in Seq(S) /\ Len(more) = r + 1 /\ more[r + 1] = bars[i]
      /\ \A k \in 1 .. r : more[k] = result[k]
  <2> HIDE DEF S, bars, result, i
  <2> QED BY <1>1, <1>6
<1>8. new \in Loops(segs)
  <2>1. i + 1 \in Nat /\ more \in Seq(BarRows(segs))
    BY <1>1, <1>7
  <2> HIDE DEF more, i, new
  <2> QED BY <1>4, <2>1 DEF Loops
<1> HIDE DEF new, more, i, bars, result, S, r
<1>9. \A k \in 1 .. r + 1 : Kept(more[k], window)
  <2>1. \A k \in 1 .. r + 1 : k \in 1 .. r \/ k = r + 1
    BY <1>1
  <2>2. i \in i .. n
    BY <1>6
  <2> QED BY <1>2, <1>7, <2>1, <2>2
<1>10. Solid(more)
  <2>1. ASSUME NEW k \in 1 .. r + 1, k > 1 PROVE more[k - 1].end = more[k].start
    <3>1. CASE k \in 1 .. r
      <4>1. k - 1 \in 1 .. r
        BY <1>1, <2>1, <3>1
      <4> QED BY <1>2, <1>7, <2>1, <3>1, <4>1
    <3>2. CASE k = r + 1
      <4>1. k - 1 \in 1 .. r /\ k - 1 = r /\ r > 0 /\ i <= n
        BY <1>1, <1>6, <2>1, <3>2
      <4> QED BY <1>2, <1>7, <3>2, <4>1
    <3> QED BY <1>1, <3>1, <3>2
  <2> QED BY <1>7, <2>1 DEF Solid
<1>11. i + 1 <= n => more[r + 1].end = bars[i + 1].start
  <2>1. i + 1 <= n => i \in i .. n - 1
    BY <1>6
  <2> QED BY <1>2, <1>7, <2>1
<1>12. ASSUME NEW st
       PROVE  Passed(new, st) + ToCome(new, st) = Passed(loop, st) + ToCome(loop, st)
  <2> DEFINE o == Observed(bars, st)
             f == Observed(result, st)
             g == Observed(more, st)
             w == IF bars[i].state = st THEN bars[i].observed ELSE 0
  <2>1. \A k \in 1 .. n : o[k] \in Int
    BY <1>1, <1>2, ObservedNumbers DEF S
  <2>2. o[i] = w
    BY <1>1, <1>2, <1>6, ObservedNumbers DEF S
  <2>3. \A k \in 1 .. r : f[k] = (IF result[k].state = st THEN result[k].observed ELSE 0)
                          /\ f[k] \in Int
    BY <1>1, ObservedNumbers DEF S, r
  <2>4. \A k \in 1 .. r + 1 : g[k] = (IF more[k].state = st THEN more[k].observed ELSE 0)
    BY <1>7, ObservedNumbers DEF S
  <2>5. r + 1 \in 1 .. r + 1 /\ \A k \in 1 .. r : k \in 1 .. r + 1
    BY <1>1
  <2>6. w \in Int
    BY <1>6, <2>1, <2>2
  <2>7. g[r + 1] = w /\ g[r + 1] \in Int /\ \A k \in 1 .. r : f[k] \in Int /\ g[k] = f[k]
    BY <1>7, <2>3, <2>4, <2>5, <2>6
  <2> HIDE DEF o, f, g, w
  <2>8. SumOf(1 .. r + 1, g) = SumOf(1 .. r, f) + w
    BY <1>1, <2>7, SumSteps
  <2>9. SumOf(i .. n, o) = SumOf(i + 1 .. n, o) + w
    <3>1. \A k \in i .. n : k \in 1 .. n
      BY <1>6
    <3>2. i \in Int /\ i <= n /\ n \in Int /\ \A k \in i .. n : o[k] \in Int
      BY <1>6, <2>1, <3>1
    <3> QED BY <2>2, <3>2, SumInterval
  <2>10. SumOf(1 .. r, f) \in Int /\ SumOf(i + 1 .. n, o) \in Int
    <3>1. \A k \in i + 1 .. n : o[k] \in Int
      BY <1>6, <2>1
    <3>2. i + 1 \in Int /\ n \in Int /\ r \in Int /\ 1 \in Int
      BY <1>1, <1>6
    <3> QED BY <2>7, <3>1, <3>2, SumInterval
  <2>11. Passed(new, st) = SumOf(1 .. r + 1, g) /\ ToCome(new, st) = SumOf(i + 1 .. n, o)
    BY <1>2, <1>5, <1>7 DEF Passed, ToCome, g, o
  <2>12. Passed(loop, st) = SumOf(1 .. r, f) /\ ToCome(loop, st) = SumOf(i .. n, o)
    BY <1>2 DEF Passed, ToCome, f, o, r, result, bars, i
  <2> QED BY <2>6, <2>8, <2>9, <2>10, <2>11, <2>12
<1>13. GoodLoop(new, segs, n, turns + 1, window)
  <2>1. i + 1 \in turns + 1 + 1 .. n + 1
    BY <1>2, <1>6
  <2>2. /\ \A k \in i + 1 .. n : Kept(bars[k], window)
        /\ \A k \in i + 1 .. n - 1 : bars[k].end = bars[k + 1].start
    <3>1. (\A k \in i + 1 .. n : k \in i .. n) /\ (\A k \in i + 1 .. n - 1 : k \in i .. n - 1)
      BY <1>6
    <3> QED BY <1>2, <3>1
  <2>3. Len(bars) = n /\ \A k \in 1 .. Len(more) : Kept(more[k], window)
    BY <1>2, <1>7, <1>9
  <2>4. \A st : LET all == SumOf(1 .. Len(segs), Lasting(segs, st)) IN
                /\ Passed(new, st) + ToCome(new, st) <= all
                /\ st \notin Idle => Passed(new, st) + ToCome(new, st) = all
    BY <1>3, <1>12
  <2> QED BY <1>5, <1>7, <1>10, <1>11, <2>1, <2>2, <2>3, <2>4 DEF GoodLoop
<1> QED BY <1>8, <1>13 DEF new

\* The lengths of tidy pieces in a given state add up to a number.
LEMMA LastingSums ==
    ASSUME NEW segs, NEW window, Tidy(segs, window)
    PROVE  \A st : SumOf(1 .. Len(segs), Lasting(segs, st)) \in Int
<1> SUFFICES ASSUME NEW st PROVE SumOf(1 .. Len(segs), Lasting(segs, st)) \in Int
  OBVIOUS
<1> DEFINE g == Lasting(segs, st)
<1>1. Len(segs) \in Nat
  BY DEF Tidy, Pieces
<1>2. \A k \in 1 .. Len(segs) : segs[k].end \in Int /\ segs[k].start \in Int
  BY DEF Tidy, Pieces, Piece
<1>3. \A k \in 1 .. Len(segs) : segs[k].end - segs[k].start \in Int
  BY <1>2
<1>4. \A k \in 1 .. Len(segs) : g[k] \in Int
  BY <1>3 DEF Lasting
<1> HIDE DEF g
<1>5. SumOf(1 .. Len(segs), g) \in Int
  BY <1>1, <1>4, SumInterval
<1> QED BY <1>5 DEF g

\* A bar that folds is carried over a gap of known length.
LEMMA TurnFolds ==
    ASSUME NEW segs, NEW n \in Nat, NEW turns \in Nat, NEW window, Window(window),
           Tidy(segs, window),
           NEW loop \in Loops(segs), GoodLoop(loop, segs, n, turns, window),
           loop.index <= n, Folds(loop.bars, loop.index)
    PROVE  Turn(loop) \in Loops(segs) /\ GoodLoop(Turn(loop), segs, n, turns + 1, window)
<1> DEFINE S == BarRows(segs)
           i == loop.index
           bars == loop.bars
           result == loop.result
           r == Len(result)
           new == Turn(loop)
           j == GapEnd(bars, i)
           gap == GapTotal(bars, i)
           merged == MergeBars(bars[i], bars[j], gap)
           carried == [bars EXCEPT ![j] = merged]
<1>1. /\ i \in Nat /\ bars \in Seq(S) /\ result \in Seq(S) /\ r \in Nat
  BY DEF Loops
<1>2. /\ Len(bars) = n
      /\ i \in turns + 1 .. n + 1
      /\ \A k \in i .. n : Kept(bars[k], window)
      /\ \A k \in i .. n - 1 : bars[k].end = bars[k + 1].start
      /\ \A k \in 1 .. r : Kept(result[k], window)
      /\ Solid(result)
      /\ i <= n /\ r > 0 => result[r].end = bars[i].start
  BY DEF GoodLoop
<1>3. \A st : LET all == SumOf(1 .. Len(segs), Lasting(segs, st)) IN
              /\ Passed(loop, st) + ToCome(loop, st) <= all
              /\ st \notin Idle => Passed(loop, st) + ToCome(loop, st) = all
  BY DEF GoodLoop
<1>3A. \A st : SumOf(1 .. Len(segs), Lasting(segs, st)) \in Int
  BY LastingSums
<1>4. /\ j > i + 1 /\ j <= n
      /\ gap <= MergeGap
      /\ SameKey(bars[i], bars[j])
      /\ bars[i].state \notin Idle
  BY <1>2 DEF Folds, Occupied
<1>5. new = [loop EXCEPT !.index = j, !.bars[j] = MergeBars(bars[i], @, gap)]
  BY DEF Turn
<1>6. i \in 1 .. n
  BY <1>2
<1>7. /\ j \in i + 1 .. n + 1
      /\ \A k \in i + 1 .. j - 1 : bars[k].state \in Idle
  <2> HIDE DEF S, bars, i
  <2> QED BY <1>1, <1>2, <1>6, GapEnds
<1>8. \A b \in S : b.start \in Int /\ b.end \in Int /\ b.observed \in Int
  BY DEF BarRows
<1>9. \A k \in 1 .. n : bars[k] \in S
  <2> HIDE DEF S, bars, i
  <2> QED BY <1>1, <1>2
<1> HIDE DEF j
<1>10. gap = SumOf(i + 1 .. j - 1, [k \in i + 1 .. j - 1 |-> bars[k].end - bars[k].start])
  <2>1. \A k \in i + 1 .. j - 1 : k \in 1 .. n
    BY <1>6, <1>7
  <2>2. \A k \in i + 1 .. j - 1 : bars[k].end - bars[k].start \in Int
    <3> HIDE DEF S, bars, i
    <3> QED BY <1>8, <1>9, <2>1
  <2> HIDE DEF S, bars, i
  <2> QED BY <1>1, <1>2, <1>6, <2>2, GapTotalSums DEF j
<1> HIDE DEF S, i, bars, result, r, gap, merged, carried
<1>11. gap = bars[j].start - bars[i].end
  <2> DEFINE a == i + 1
             b == j - 1
             g == [k \in i + 1 .. j - 1 |-> bars[k].end - bars[k].start]
  <2>1. a \in Int /\ b \in Int /\ a <= b /\ b + 1 = j
    BY <1>4, <1>6, <1>7
  <2>2. \A k \in a .. b : k \in 1 .. n /\ k \in i .. n - 1
    BY <1>4, <1>6, <1>7
  <2>3. \A k \in a .. b : /\ bars[k].start \in Int /\ bars[k].end \in Int
                          /\ g[k] = bars[k].end - bars[k].start
    BY <1>8, <1>9, <2>2
  <2>4. \A k \in a .. b - 1 : bars[k].end = bars[k + 1].start
    <3>1. \A k \in a .. b - 1 : k \in i .. n - 1
      BY <1>4, <1>6, <1>7
    <3> QED BY <1>2, <3>1
  <2>5. i \in i .. n - 1 /\ a \in a .. b /\ b \in a .. b
    BY <1>4, <1>6, <1>7
  <2>6. bars[i].end = bars[a].start /\ bars[b].end = bars[j].start
    BY <1>2, <2>1, <2>2, <2>5
  <2> HIDE DEF a, b, g
  <2>7. a \in Int /\ b \in Int /\ a <= b
    BY <2>1
  <2>8. SumOf(a .. b, g) = bars[b].end - bars[a].start
    <3>1. Touching(bars, a, b, g)
      BY <2>3, <2>4 DEF Touching
    <3> QED BY <2>7, <3>1, TouchingLast
  <2> QED BY <1>10, <2>6, <2>8 DEF a, b, g
<1>12. j \in 1 .. n /\ j \in i .. n /\ i \in i .. n /\ i < j
  BY <1>4, <1>6, <1>7
<1>13. gap \in Nat
  <2>1. bars[i].end <= bars[j].start
    <3> DEFINE a == i + 1
               b == j - 1
    <3>1. a \in Int /\ b \in Int /\ a .. b \subseteq 1 .. n
      BY <1>4, <1>6, <1>7
    <3>2. \A k \in a .. b : k \in i .. n
      BY <1>4, <1>6, <1>7
    <3>3. \A k \in a .. b : bars[k].start \in Int /\ bars[k].end \in Int
                            /\ bars[k].start < bars[k].end
      BY <1>2, <1>8, <1>9, <3>1, <3>2 DEF Kept
    <3> DEFINE g == [k \in i + 1 .. j - 1 |-> bars[k].end - bars[k].start]
               z == [k \in i + 1 .. j - 1 |-> 0]
    <3>4. \A k \in a .. b : g[k] \in Int /\ z[k] \in Int /\ z[k] <= g[k] /\ z[k] = 0
      BY <3>3
    <3>5. IsFiniteSet(a .. b)
      BY <3>1, FS_Interval
    <3> HIDE DEF a, b, g, z
    <3>6. SumOf(a .. b, z) = 0 /\ SumOf(a .. b, z) <= SumOf(a .. b, g)
      BY <3>4, <3>5, SumOfZeros, SumOrder
    <3>7. gap >= 0
      BY <1>10, <3>6 DEF a, b, g
    <3>8. bars[i].end \in Int /\ bars[j].start \in Int
      BY <1>6, <1>8, <1>9, <1>12
    <3> QED BY <1>11, <3>7, <3>8
  <2>2. bars[i].end \in Int /\ bars[j].start \in Int
    BY <1>6, <1>8, <1>9, <1>12
  <2> QED BY <1>11, <2>1, <2>2
<1>14. /\ merged \in S /\ Kept(merged, window)
       /\ merged.start = bars[i].start /\ merged.end = bars[j].end
       /\ merged.state = bars[i].state /\ merged.task = bars[i].task
       /\ merged.observed = bars[i].observed + bars[j].observed
  <2>1. bars[i] \in S /\ bars[j] \in S /\ Kept(bars[i], window) /\ Kept(bars[j], window)
    BY <1>2, <1>6, <1>9, <1>12
  <2>2. bars[i].end + gap = bars[j].start
    <3>1. bars[i].end \in Int /\ bars[j].start \in Int
      BY <1>8, <2>1
    <3> QED BY <1>11, <3>1
  <2> QED BY <1>4, <1>13, <2>1, <2>2, MergeKept DEF S, merged
<1>15. /\ carried \in Seq(S) /\ Len(carried) = n /\ carried[j] = merged
       /\ \A k \in 1 .. n : k # j => carried[k] = bars[k]
  BY <1>1, <1>2, <1>12, <1>14 DEF carried
<1>16. new = [loop EXCEPT !.index = j, !.bars = carried]
  BY <1>5 DEF carried, merged, bars
<1> HIDE DEF new
<1>17. /\ new \in Loops(segs)
       /\ new.index = j /\ new.bars = carried /\ new.result = result
  <2>1. j \in Nat /\ carried \in Seq(BarRows(segs))
    BY <1>12, <1>15 DEF S
  <2> QED BY <1>16, <2>1 DEF Loops, result
<1>18. /\ \A k \in j .. n : Kept(carried[k], window)
       /\ \A k \in j .. n - 1 : carried[k].end = carried[k + 1].start
       /\ r > 0 => result[r].end = carried[j].start
  <2>1. \A k \in j .. n : k \in i .. n /\ k \in 1 .. n
    BY <1>12
  <2>2. \A k \in j .. n - 1 : k \in i .. n - 1 /\ k \in j .. n /\ k + 1 \in 1 .. n /\ k + 1 # j
    BY <1>12
  <2>3. \A k \in j .. n : Kept(carried[k], window) /\ carried[k].end = bars[k].end
    BY <1>2, <1>14, <1>15, <2>1
  <2>4. \A k \in j .. n - 1 : carried[k].end = carried[k + 1].start
    BY <1>2, <1>15, <2>2, <2>3
  <2>5. r > 0 => result[r].end = carried[j].start
    BY <1>2, <1>6, <1>14, <1>15
  <2> QED BY <2>3, <2>4, <2>5
<1>19. ASSUME NEW st
       PROVE  /\ Passed(new, st) = Passed(loop, st)
              /\ Passed(loop, st) \in Int /\ ToCome(loop, st) \in Int
              /\ ToCome(new, st) \in Int
              /\ ToCome(new, st) <= ToCome(loop, st)
              /\ st \notin Idle => ToCome(new, st) = ToCome(loop, st)
  <2> DEFINE o == Observed(bars, st)
             f == Observed(carried, st)
  <2>1. \A k \in 1 .. n : /\ o[k] = (IF bars[k].state = st THEN bars[k].observed ELSE 0)
                          /\ o[k] \in Int
    BY <1>1, <1>2, ObservedNumbers DEF S
  <2>2. \A k \in 1 .. n : /\ f[k] = (IF carried[k].state = st THEN carried[k].observed ELSE 0)
                          /\ f[k] \in Int
    BY <1>15, ObservedNumbers DEF S
  <2>3. \A k \in j + 1 .. n : k \in 1 .. n /\ k # j
    BY <1>12
  <2>4. \A k \in j + 1 .. n : f[k] = o[k] /\ f[k] \in Int /\ o[k] \in Int
    BY <1>15, <2>1, <2>2, <2>3
  <2>5. f[j] = o[i] + o[j]
    <3>1. bars[i].state = bars[j].state
      BY <1>4 DEF SameKey
    <3>2. f[j] = (IF bars[i].state = st THEN bars[i].observed + bars[j].observed ELSE 0)
      BY <1>12, <1>14, <1>15, <2>2
    <3> QED BY <1>6, <1>12, <2>1, <3>1, <3>2
  <2>6. /\ \A k \in i .. n : o[k] \in Int
        /\ \A k \in i + 1 .. n : o[k] \in Int
        /\ \A k \in j .. n : o[k] \in Int /\ f[k] \in Int
        /\ \A k \in i + 1 .. j - 1 : k \in 1 .. n
    <3>1. /\ \A k \in i .. n : k \in 1 .. n
          /\ \A k \in i + 1 .. n : k \in 1 .. n
          /\ \A k \in j .. n : k \in 1 .. n
          /\ \A k \in i + 1 .. j - 1 : k \in 1 .. n
      BY <1>6, <1>12
    <3> QED BY <2>1, <2>2, <3>1
  <2> HIDE DEF o, f
  <2>7. i \in Int /\ j \in Int /\ n \in Int /\ i <= n /\ j <= n /\ j - 1 \in i + 1 - 1 .. n /\ j - 1 + 1 = j
        /\ i + 1 \in Int /\ j + 1 \in Int /\ j - 1 \in Int
    BY <1>6, <1>12
  <2>8. SumOf(i .. n, o) = SumOf(i + 1 .. n, o) + o[i]
    BY <2>6, <2>7, SumInterval
  <2>9. SumOf(i + 1 .. n, o) = SumOf(i + 1 .. j - 1, o) + SumOf(j - 1 + 1 .. n, o)
    BY <2>6, <2>7, SumInterval
  <2>10. SumOf(j .. n, o) = SumOf(j + 1 .. n, o) + o[j]
    BY <2>6, <2>7, SumInterval
  <2>11. SumOf(j .. n, f) = SumOf(j + 1 .. n, f) + f[j]
    BY <2>6, <2>7, SumInterval
  <2>12. SumOf(j + 1 .. n, f) = SumOf(j + 1 .. n, o) /\ SumOf(j + 1 .. n, o) \in Int
    <3>1. IsFiniteSet(j + 1 .. n)
      BY <2>7, FS_Interval
    <3>2. SumOf(j + 1 .. n, f) = SumOf(j + 1 .. n, o)
      BY <2>4, <3>1, SumAgrees
    <3>3. \A k \in j + 1 .. n : o[k] \in Int
      BY <2>4
    <3>4. SumOf(j + 1 .. n, o) \in Int
      BY <2>7, <3>3, SumInterval
    <3> QED BY <3>2, <3>4
  <2>13. /\ SumOf(i + 1 .. j - 1, o) \in Int /\ SumOf(i + 1 .. j - 1, o) >= 0
         /\ st \notin Idle => SumOf(i + 1 .. j - 1, o) = 0
    <3> DEFINE C == i + 1 .. j - 1
               z == [k \in C |-> 0]
    <3>1. IsFiniteSet(C)
      BY <2>7, FS_Interval
    <3>2. \A k \in C : k \in 1 .. n /\ k \in i .. n
      BY <1>6, <1>12
    <3>3. \A k \in C : o[k] \in Int /\ o[k] >= 0
      BY <1>2, <2>1, <3>2 DEF Kept
    <3>4. st \notin Idle => \A k \in C : o[k] = 0
      BY <1>7, <2>1, <3>2
    <3>5. \A k \in C : z[k] \in Int /\ o[k] \in Int /\ z[k] <= o[k] /\ z[k] = 0
      BY <3>3
    <3>6. \A k \in C : o[k] \in Int
      BY <3>3
    <3>7. SumOf(C, o) \in Int
      BY <2>7, <3>6, SumInterval
    <3> HIDE DEF C, z
    <3>8. SumOf(C, z) = 0 /\ SumOf(C, z) <= SumOf(C, o)
      BY <3>1, <3>5, SumOfZeros, SumOrder
    <3>9. st \notin Idle => SumOf(C, o) = 0
      BY <3>1, <3>4, SumOfZeros
    <3> QED BY <3>7, <3>8, <3>9 DEF C
  <2>14. SumOf(1 .. r, Observed(result, st)) \in Int
    <3>1. \A k \in 1 .. r : Observed(result, st)[k] \in Int
      BY <1>1, ObservedNumbers DEF S, r
    <3> QED BY <1>1, <3>1, SumInterval
  <2>15. /\ Passed(new, st) = SumOf(1 .. r, Observed(result, st))
         /\ ToCome(new, st) = SumOf(j .. n, f)
    BY <1>15, <1>17 DEF Passed, ToCome, f, r
  <2>16. /\ Passed(loop, st) = SumOf(1 .. r, Observed(result, st))
         /\ ToCome(loop, st) = SumOf(i .. n, o)
    BY <1>2 DEF Passed, ToCome, o, r, result, bars, i
  <2>17. o[i] \in Int /\ o[j] \in Int
    BY <1>6, <1>12, <2>1
  <2>18. SumOf(i .. n, o) = SumOf(j .. n, f) + SumOf(i + 1 .. j - 1, o)
         /\ SumOf(j .. n, f) \in Int /\ SumOf(i .. n, o) \in Int
    BY <2>5, <2>7, <2>8, <2>9, <2>10, <2>11, <2>12, <2>13, <2>17, SMTT(30)
  <2> QED BY <2>13, <2>14, <2>15, <2>16, <2>18
<1>20. GoodLoop(new, segs, n, turns + 1, window)
  <2>1. j \in turns + 1 + 1 .. n + 1
    BY <1>2, <1>12
  <2>2. ASSUME NEW st
        PROVE  LET all == SumOf(1 .. Len(segs), Lasting(segs, st)) IN
               /\ Passed(new, st) + ToCome(new, st) <= all
               /\ st \notin Idle => Passed(new, st) + ToCome(new, st) = all
    <3> DEFINE all == SumOf(1 .. Len(segs), Lasting(segs, st))
               p == Passed(loop, st)
               c == ToCome(loop, st)
               d == ToCome(new, st)
    <3>1. p + c <= all /\ (st \notin Idle => p + c = all)
      BY <1>3
    <3>2. Passed(new, st) = p /\ p \in Int /\ c \in Int /\ d \in Int
          /\ d <= c /\ (st \notin Idle => d = c)
      BY <1>19
    <3>3. all \in Int
      BY <1>3A
    <3> HIDE DEF p, c, d, all
    <3>4. p + d <= all
      BY <3>1, <3>2, <3>3
    <3>5. st \notin Idle => p + d = all
      BY <3>1, <3>2
    <3> QED BY <3>2, <3>4, <3>5 DEF p, d, all
  <2> QED BY <1>2, <1>15, <1>17, <1>18, <2>1, <2>2 DEF GoodLoop, r
<1> QED BY <1>17, <1>20 DEF new

\* What the loop returns: the bars add up and the books of the time are kept.
BooksKept(bars, segs, window) ==
    /\ bars \in Seq(BarRows(segs))
    /\ \A k \in 1 .. Len(bars) : Kept(bars[k], window)
    /\ Solid(bars)
    /\ \A st : LET all == SumOf(1 .. Len(segs), Lasting(segs, st))
                   kept == SumOf(1 .. Len(bars), Observed(bars, st))
               IN  /\ kept <= all
                   /\ st \notin Idle => kept = all

\* A turn keeps the loop good; past the last bar it changes nothing.
LEMMA TurnKeeps ==
    ASSUME NEW segs, NEW n \in Nat, NEW turns \in Nat, turns < n, NEW window,
           Window(window), Tidy(segs, window),
           NEW loop \in Loops(segs), GoodLoop(loop, segs, n, turns, window)
    PROVE  LET next == IF loop.index > n THEN loop ELSE Turn(loop) IN
           next \in Loops(segs) /\ GoodLoop(next, segs, n, turns + 1, window)
<1>1. loop.index \in Nat /\ loop.index \in turns + 1 .. n + 1
  BY DEF Loops, GoodLoop
<1>2. CASE loop.index > n
  <2>1. loop.index \in turns + 1 + 1 .. n + 1
    BY <1>1, <1>2
  <2>2. GoodLoop(loop, segs, n, turns + 1, window)
    BY <2>1 DEF GoodLoop
  <2> QED BY <1>2, <2>2
<1>3. CASE ~(loop.index > n)
  <2>1. loop.index <= n
    BY <1>1, <1>3
  <2>2. CASE Folds(loop.bars, loop.index)
    BY <1>3, <2>1, <2>2, TurnFolds
  <2>3. CASE ~Folds(loop.bars, loop.index)
    BY <1>3, <2>1, <2>3, TurnPasses
  <2> QED BY <2>2, <2>3
<1> QED BY <1>2, <1>3

\* The loop starts good.
LEMMA LoopStarts ==
    ASSUME NEW segs, NEW window, NEW bars \in Seq(BarRows(segs)),
           GoodBars(bars, segs, Len(segs), window), Tidy(segs, window)
    PROVE  LET first == [index |-> 1, bars |-> bars, result |-> <<>>] IN
           first \in Loops(segs) /\ GoodLoop(first, segs, Len(bars), 0, window)
<1> DEFINE first == [index |-> 1, bars |-> bars, result |-> <<>>]
           n == Len(bars)
<1>1. first \in Loops(segs)
  BY DEF Loops
<1>2. /\ first.index = 1 /\ first.bars = bars /\ first.result = <<>>
      /\ Len(<<>>) = 0 /\ n \in Nat /\ 1 \in 0 + 1 .. n + 1
  OBVIOUS
<1>3. \A k \in 1 .. n : Kept(bars[k], window)
  BY DEF GoodBars
<1>4. \A k \in 1 .. n - 1 : bars[k].end = bars[k + 1].start
  <2>1. ASSUME NEW k \in 1 .. n - 1
        PROVE  bars[k].end = bars[k + 1].start
    <3> DEFINE l == k + 1
    <3>1. l \in 1 .. n /\ l > 1 /\ l - 1 = k
      BY <1>2
    <3> HIDE DEF l
    <3>2. bars[l - 1].end = bars[l].start
      BY <3>1 DEF GoodBars, Solid
    <3> QED BY <3>1, <3>2 DEF l
  <2> QED BY <2>1
<1>5. Solid(<<>>)
  <2>1. \A k \in 1 .. Len(<<>>) : FALSE
    BY <1>2
  <2> QED BY <2>1 DEF Solid
<1>6. ASSUME NEW st
      PROVE  LET all == SumOf(1 .. Len(segs), Lasting(segs, st)) IN
             /\ Passed(first, st) + ToCome(first, st) <= all
             /\ st \notin Idle => Passed(first, st) + ToCome(first, st) = all
  <2> DEFINE all == SumOf(1 .. Len(segs), Lasting(segs, st))
  <2>1. all \in Int
    BY LastingSums
  <2>2. Passed(first, st) = 0
    <3>1. \A g : SumOf({}, g) = 0
      BY SumRules, FS_EmptySet
    <3>2. 1 .. 0 = {}
      OBVIOUS
    <3> QED BY <1>2, <3>1, <3>2 DEF Passed
  <2>3. ToCome(first, st) = all
    BY <1>2 DEF ToCome, GoodBars
  <2> HIDE DEF first, all
  <2>4. Passed(first, st) + ToCome(first, st) = all
    BY <2>1, <2>2, <2>3
  <2> QED BY <2>1, <2>4 DEF all
<1> HIDE DEF first
<1>7. GoodLoop(first, segs, n, 0, window)
  <2>1. \A k \in 1 .. Len(<<>>) : FALSE
    BY <1>2
  <2>2. ~(Len(<<>>) > 0)
    BY <1>2
  <2> QED BY <1>2, <1>3, <1>4, <1>5, <1>6, <2>1, <2>2 DEF GoodLoop
<1> QED BY <1>1, <1>7 DEF first

\* What the display bars of tidy, solid segments are.
LEMMA CoalesceGood ==
    ASSUME NEW segs, NEW window, Tidy(segs, window), Solid(segs), Window(window)
    PROVE  BooksKept(Coalesce(segs), segs, window)
<1> DEFINE P == Prepared(segs)
           n == Len(P)
           first == [index |-> 1, bars |-> P, result |-> <<>>]
           good(t) == {loop \in Loops(segs) : GoodLoop(loop, segs, n, t, window)}
           next(loop) == IF loop.index > n THEN loop ELSE Turn(loop)
           types == [t \in 0 .. n |-> good(t)]
           step == [t \in 1 .. n |-> [loop \in good(t - 1) |-> next(loop)]]
           Rec(f) == f = [turns \in 0 .. n |->
                            IF turns = 0 THEN first
                            ELSE IF f[turns - 1].index > n THEN f[turns - 1]
                            ELSE Turn(f[turns - 1])]
           v == CHOOSE f : Rec(f)
<1>1. P \in Seq(BarRows(segs)) /\ GoodBars(P, segs, Len(segs), window) /\ n \in Nat
  BY PreparedGood
<1>2. first \in good(0)
  BY <1>1, LoopStarts
<1>3. ASSUME NEW t \in 1 .. n, NEW loop \in good(t - 1)
      PROVE  next(loop) \in good(t)
  <2>1. /\ loop \in Loops(segs) /\ GoodLoop(loop, segs, n, t - 1, window)
        /\ t - 1 \in Nat /\ t - 1 < n /\ t - 1 + 1 = t
    BY <1>1, <1>3
  <2>2. next(loop) \in Loops(segs) /\ GoodLoop(next(loop), segs, n, t - 1 + 1, window)
    BY <1>1, <2>1, TurnKeeps
  <2> QED BY <2>1, <2>2
<1> HIDE DEF good, P
<1>4. \A t \in 1 .. n : t - 1 \in 0 .. n /\ t \in 0 .. n /\ t # 0
  BY <1>1
<1>5. PICK u : Follows(u, n, first, step) /\ \A t \in 0 .. n : u[t] \in types[t]
  <2>1. first \in types[0]
    BY <1>1, <1>2
  <2>2. \A t \in 1 .. n : \A x \in types[t - 1] : step[t][x] \in types[t]
    BY <1>3, <1>4
  <2> HIDE DEF types, step, first
  <2> QED BY <1>1, <2>1, <2>2, RecursionDefined
<1>6. Rec(u)
  <2>1. u = [t \in 0 .. n |-> IF t = 0 THEN first ELSE step[t][u[t - 1]]]
    BY <1>5 DEF Follows
  <2>2. \A t \in 0 .. n : t # 0 => t \in 1 .. n
    BY <1>1
  <2>3. \A t \in 1 .. n : u[t - 1] \in good(t - 1)
    BY <1>4, <1>5
  <2>4. \A t \in 1 .. n : step[t][u[t - 1]] = next(u[t - 1])
    BY <2>3
  <2> HIDE DEF step, first
  <2>5. \A t \in 0 .. n : (IF t = 0 THEN first ELSE step[t][u[t - 1]])
                             = IF t = 0 THEN first
                               ELSE IF u[t - 1].index > n THEN u[t - 1]
                               ELSE Turn(u[t - 1])
    BY <2>2, <2>4
  <2> QED BY <2>1, <2>5
<1>7. Coalesce(segs) = IF MergeGap = 0 THEN P ELSE v[n].result
  BY DEF Coalesce, P
<1>8. Rec(v)
  <2> HIDE DEF Rec
  <2> QED BY <1>6
<1>9. \A t \in 0 .. n : v[t] = IF t = 0 THEN first
                             ELSE IF v[t - 1].index > n THEN v[t - 1]
                             ELSE Turn(v[t - 1])
  <2> HIDE DEF v, first
  <2> QED BY <1>8
<1> HIDE DEF v, Rec
<1> DEFINE A == {t \in 0 .. n : v[t] \in good(t)}
<1>10. 0 \in A
  <2>1. 0 \in 0 .. n
    BY <1>1
  <2> HIDE DEF first
  <2>2. v[0] = first
    BY <1>9, <2>1
  <2> QED BY <1>2, <2>1, <2>2
<1>11. ASSUME NEW t \in 1 .. n, t - 1 \in A
       PROVE  t \in A
  <2> HIDE DEF first
  <2>1. v[t] = next(v[t - 1])
    BY <1>4, <1>9
  <2> HIDE DEF next
  <2> QED BY <1>3, <1>4, <1>11, <2>1
<1>12. v[n] \in good(n)
  <2> HIDE DEF A
  <2>1. \A t \in 0 .. n : t \in A
    BY <1>1, <1>10, <1>11, Induct
  <2> QED BY <1>1, <2>1 DEF A
<1>13. CASE MergeGap = 0
  <2>1. BooksKept(P, segs, window)
    <3>1. \A st : SumOf(1 .. Len(segs), Lasting(segs, st)) \in Int
      BY LastingSums
    <3> QED BY <1>1, <3>1 DEF BooksKept, GoodBars
  <2> QED BY <1>7, <1>13, <2>1
<1>14. CASE MergeGap # 0
  <2> DEFINE done == v[n]
             bars == done.result
  <2>1. done \in Loops(segs) /\ GoodLoop(done, segs, n, n, window)
    BY <1>12 DEF good
  <2> HIDE DEF done
  <2>2. done.index = n + 1 /\ Len(done.bars) = n
    BY <1>1, <2>1 DEF GoodLoop, Loops
  <2>3. bars \in Seq(BarRows(segs))
    BY <2>1 DEF Loops
  <2>4. (\A k \in 1 .. Len(bars) : Kept(bars[k], window)) /\ Solid(bars)
    BY <2>1 DEF GoodLoop
  <2>5. ASSUME NEW st
        PROVE  LET all == SumOf(1 .. Len(segs), Lasting(segs, st))
                   kept == SumOf(1 .. Len(bars), Observed(bars, st))
               IN  /\ kept <= all
                   /\ st \notin Idle => kept = all
    <3> DEFINE all == SumOf(1 .. Len(segs), Lasting(segs, st))
               kept == SumOf(1 .. Len(bars), Observed(bars, st))
    <3>1. ToCome(done, st) = 0
      <4>1. \A g : SumOf({}, g) = 0
        BY SumRules, FS_EmptySet
      <4>2. n + 1 .. n = {}
        BY <1>1
      <4> QED BY <2>2, <4>1, <4>2 DEF ToCome
    <3>2. Passed(done, st) = kept
      BY DEF Passed
    <3>3. /\ Passed(done, st) + ToCome(done, st) <= all
          /\ st \notin Idle => Passed(done, st) + ToCome(done, st) = all
      BY <2>1 DEF GoodLoop
    <3>4. kept \in Int
      <4>1. \A k \in 1 .. Len(bars) : Observed(bars, st)[k] \in Int
        BY <2>3, ObservedNumbers
      <4>2. Len(bars) \in Nat
        BY <2>3
      <4> HIDE DEF bars
      <4> QED BY <4>1, <4>2, SumInterval
    <3> HIDE DEF kept, all
    <3> QED BY <3>1, <3>2, <3>3, <3>4 DEF kept, all
  <2> HIDE DEF bars
  <2>6. BooksKept(bars, segs, window)
    BY <2>3, <2>4, <2>5 DEF BooksKept
  <2> QED BY <1>7, <1>14, <2>6 DEF bars, done
<1> QED BY <1>13, <1>14

-----------------------------------------------------------------------------
(* The lanes of a day *)

ReadSample(r, asOf) == Overridden(r, CurrentOverrides(overrides, <<"sample", r.id>>, asOf))
SamplesRead(l, asOf) == {ReadSample(r, asOf) : r \in {s \in samples : s.lane = l}}

\* An override of a sample is of its state.
LEMMA SampleRead ==
    ASSUME Types, NEW r \in samples, NEW asOf
    PROVE  ReadSample(r, asOf).at = r.at /\ ReadSample(r, asOf).id = r.id
<1> DEFINE current == CurrentOverrides(overrides, <<"sample", r.id>>, asOf)
           valid == {o \in overrides : o.target = <<"sample", r.id>> /\ ValidAt(o, asOf)}
<1>1. DOMAIN current = {o.field : o \in valid}
  BY DEF CurrentOverrides
<1>2. SampleRow(r)
  BY DEF Types
<1>3. {"at", "id"} \subseteq DOMAIN r
  BY <1>2 DEF SampleRow
<1>4. ASSUME NEW o \in valid PROVE o.field = "state"
  <2>1. OverrideRow(o) /\ o.target[1] = "sample"
    BY DEF Types
  <2> QED BY <2>1 DEF OverrideRow
<1>5. "at" \notin DOMAIN current /\ "id" \notin DOMAIN current
  <2> HIDE DEF current, valid
  <2> QED BY <1>1, <1>4
<1>6. ReadSample(r, asOf) = [f \in DOMAIN r |-> IF f \in DOMAIN current THEN current[f] ELSE r[f]]
  BY DEF ReadSample, Overridden
<1> HIDE DEF current
<1> QED BY <1>3, <1>5, <1>6

\* So the samples of a lane, as they are read, are in the order of their times.
LEMMA SamplesAreRead ==
    ASSUME Types, NEW l, NEW asOf
    PROVE  Sorted(Ordered(SamplesRead(l, asOf)))
<1> DEFINE own == {s \in samples : s.lane = l}
           read == SamplesRead(l, asOf)
<1>1. \A r \in own : /\ ReadSample(r, asOf).at = r.at /\ ReadSample(r, asOf).id = r.id
                     /\ r.at \in Nat /\ r.id \in Int
  <2> SUFFICES ASSUME NEW r \in own
               PROVE  /\ ReadSample(r, asOf).at = r.at /\ ReadSample(r, asOf).id = r.id
                      /\ r.at \in Nat /\ r.id \in Int
    OBVIOUS
  <2>1. SampleRow(r) /\ now \in Nat
    BY DEF Types
  <2>2. ReadSample(r, asOf).at = r.at /\ ReadSample(r, asOf).id = r.id
    BY SampleRead
  <2> QED BY <2>1, <2>2 DEF SampleRow
<1>2. \A r, s \in own : r.at = s.at /\ r.id = s.id => r = s
  BY DEF Types, Spaced
<1>3. IsFiniteSet(own)
  <2>1. own \in SUBSET samples
    OBVIOUS
  <2> QED BY <2>1, FS_Subset DEF Types
<1> DEFINE f == [r \in own |-> ReadSample(r, asOf)]
<1>4. f \in Surjection(own, read)
  <2>1. read = {ReadSample(r, asOf) : r \in own}
    BY DEF SamplesRead
  <2> HIDE DEF own
  <2> QED BY <2>1 DEF Surjection
<1>5. \A p \in read : \E r \in own : p = ReadSample(r, asOf)
  BY DEF SamplesRead
<1> HIDE DEF own, read, f
<1>6. IsFiniteSet(read)
  BY <1>3, <1>4, FS_Surjection
<1>7. Distinct(read)
  BY <1>1, <1>2, <1>5, <1>6 DEF Distinct
<1> QED BY <1>7, OrderedSorted DEF read

\* Every piece of a GPU has a state, clipped or not.
Stated(list) == \A k \in 1 .. Len(list) : "state" \in DOMAIN list[k]

\* A sample says a state, and so does the unknown after it.
LEMMA GpuStated ==
    ASSUME NEW rows, Sorted(rows), NEW end
    PROVE  Stated(GpuPieces(rows, end))
<1> DEFINE n == Len(rows)
           pieces == GpuPieces(rows, end)
           until(i) == IF i < Len(rows) THEN Min({rows[i + 1].at, end}) ELSE end
           piece(i, from, to, state) ==
               [start |-> from, end |-> to, state |-> state,
                task |-> rows[i].task, explicit |-> rows[i].explicit,
                process |-> rows[i].process, sample |-> rows[i].id]
           unknown(i) ==
               [piece(i, FreshUntil(rows[i], until(i)), until(i), "unknown")
                   EXCEPT !.task = "", !.explicit = FALSE, !.process = ""]
           says(i) == piece(i, rows[i].at, FreshUntil(rows[i], until(i)), rows[i].state)
<1>1. pieces = [k \in 1 .. 2 * n |-> LET i == (k + 1) \div 2 IN
                                     IF k % 2 = 1 THEN says(i) ELSE unknown(i)]
  BY DEF GpuPieces
<1>2. n \in Nat
  BY DEF Sorted
<1>3. ASSUME NEW i
      PROVE  "state" \in DOMAIN says(i) /\ "state" \in DOMAIN unknown(i)
  OBVIOUS
<1> HIDE DEF says, unknown, pieces, n
<1>4. Len(pieces) = 2 * n
  <2>1. 2 * n \in Nat
    BY <1>2
  <2> QED BY <1>1, <2>1
<1> QED BY <1>1, <1>3, <1>4 DEF Stated, pieces

\* Clipping leaves the state where it was.
LEMMA ClippedStated ==
    ASSUME NEW pieces, Pieces(pieces), Stated(pieces), NEW window, Window(window)
    PROVE  Stated(Clipped(pieces, window))
<1>1. \A k \in 1 .. Len(Clipped(pieces, window)) :
         \E i \in 1 .. Len(pieces) : Same(Clipped(pieces, window)[k], pieces[i])
  BY ClippedTidy
<1> QED BY <1>1 DEF Stated, Same

\* The lane of a GPU: tidy pieces that leave nothing out, and so are its segments.
GpuLane(c, window) ==
    /\ Tidy(c, window)
    /\ Stated(c)
    /\ Tidy(Segments(c), window)
    /\ Solid(Segments(c))

\* Every GPU that was sampled has such a lane.
LEMMA GpuLanesGood ==
    ASSUME Types, NEW window, Window(window), NEW asOf
    PROVE  LET lanes == GpuLanes(samples, overrides, window, asOf) IN
           /\ DOMAIN lanes = {s.lane : s \in samples}
           /\ \A l \in DOMAIN lanes : GpuLane(lanes[l], window)
<1> DEFINE lanes == GpuLanes(samples, overrides, window, asOf)
<1>1. lanes = [l \in {s.lane : s \in samples} |->
                  Clipped(GpuPieces(Ordered(SamplesRead(l, asOf)), window.end), window)]
  BY DEF GpuLanes, SamplesRead, ReadSample
<1>2. ASSUME NEW l
      PROVE  GpuLane(Clipped(GpuPieces(Ordered(SamplesRead(l, asOf)), window.end), window), window)
  <2> DEFINE rows == Ordered(SamplesRead(l, asOf))
             pieces == GpuPieces(rows, window.end)
             c == Clipped(pieces, window)
             g == Segments(c)
  <2>1. Sorted(rows) /\ window.end \in Int
    BY SamplesAreRead DEF Window
  <2> HIDE DEF rows
  <2>2. Pieces(pieces)
    BY <2>1, GpuList
  <2>3. InTurn(pieces)
    BY <2>1, GpuInTurn
  <2>4. Filled(pieces)
    BY <2>1, GpuFilled
  <2>4A. Stated(pieces)
    BY <2>1, GpuStated
  <2> HIDE DEF pieces
  <2>5. Tidy(c, window)
    BY <2>2, <2>3, ClippedTidy
  <2>6. Filled(c)
    BY <2>2, <2>4, ClippedFilled
  <2>6A. Stated(c)
    BY <2>2, <2>4A, ClippedStated
  <2> HIDE DEF c
  <2>7. Tidy(g, window)
    BY <2>5, SegmentsTidy
  <2>8. Pieces(c) /\ \A k \in 1 .. Len(c) : c[k].start < c[k].end
    BY <2>5 DEF Tidy
  <2>9. Filled(g)
    BY <2>6, <2>8, SegmentsFilled
  <2> HIDE DEF g
  <2>10. Solid(g)
    BY <2>7, <2>9, FilledIsSolid
  <2>11. GpuLane(c, window)
    BY <2>5, <2>6A, <2>7, <2>10 DEF GpuLane, g
  <2> QED BY <2>11 DEF c, pieces, rows
<1> HIDE DEF lanes
<1>3. DOMAIN lanes = {s.lane : s \in samples}
  BY <1>1
<1>4. \A l \in DOMAIN lanes : GpuLane(lanes[l], window)
  <2> SUFFICES ASSUME NEW l \in DOMAIN lanes PROVE GpuLane(lanes[l], window)
    OBVIOUS
  <2>1. lanes[l] = Clipped(GpuPieces(Ordered(SamplesRead(l, asOf)), window.end), window)
    BY <1>1, <1>3
  <2> QED BY <1>2, <2>1
<1> QED BY <1>3, <1>4 DEF lanes

\* The lane of a session is tidy.
LEMMA CodexLanesTidy ==
    ASSUME Types, NEW window, Window(window), NEW asOf
    PROVE  LET lanes == CodexLanes(events, overrides, None, window, asOf) IN
           \A s \in DOMAIN lanes : Tidy(lanes[s], window) /\ Tidy(Segments(lanes[s]), window)
<1> DEFINE lanes == CodexLanes(events, overrides, None, window, asOf)
           chosen == {e \in events : None \in {None, e.project}}
<1>1. chosen = events
  OBVIOUS
<1>2. lanes = [s \in {e.session : e \in chosen} |->
                  Clipped(CodexPieces(Ordered(RowsRead(chosen, s, asOf)), window.end), window)]
  BY DEF CodexLanes, RowsRead, ReadEvent
<1> HIDE DEF lanes, chosen
<1>3. lanes = [s \in {e.session : e \in events} |->
                  Clipped(CodexPieces(Ordered(RowsRead(events, s, asOf)), window.end), window)]
  BY <1>1, <1>2
<1>4. ASSUME NEW s \in DOMAIN lanes
      PROVE  Tidy(lanes[s], window) /\ Tidy(Segments(lanes[s]), window)
  <2> DEFINE rows == Ordered(RowsRead(events, s, asOf))
             pieces == CodexPieces(rows, window.end)
             c == Clipped(pieces, window)
  <2>1. s \in {e.session : e \in events} /\ events \in SUBSET events
    BY <1>3
  <2>2. Sorted(rows) /\ Len(rows) > 0 /\ window.end \in Int
    BY <2>1, SessionHasRows DEF Window
  <2>3. lanes[s] = c
    BY <1>3, <2>1
  <2> HIDE DEF rows
  <2>4. Pieces(pieces) /\ InTurn(pieces)
    BY <2>2, CodexFields
  <2> HIDE DEF pieces
  <2>5. Tidy(c, window)
    BY <2>4, ClippedTidy
  <2> HIDE DEF c
  <2>6. Tidy(Segments(c), window)
    BY <2>5, SegmentsTidy
  <2> QED BY <2>3, <2>5, <2>6
<1> QED BY <1>4 DEF lanes

\* The window of a day ends by its midnight and by the time of the report.
LEMMA DayWindow ==
    ASSUME NEW day \in Int, NEW asOf \in Int
    PROVE  Window(WindowOf(day, asOf))
<1> DEFINE s == day * DayLength
           e == (day + 1) * DayLength
<1>1. s \in Int /\ e \in Int
  BY LimitsAssumption
<1> HIDE DEF s, e
<1>2. WindowOf(day, asOf) = [start |-> s, end |-> Min({e, asOf})]
  BY DEF WindowOf, s, e
<1>3. Min({e, asOf}) \in Int
  BY <1>1, MinMaxOfTwo DEF MinOf
<1> DEFINE m == Min({e, asOf})
           w == [start |-> s, end |-> m]
<1> HIDE DEF m
<1>4. w.start = s /\ w.end = m
  OBVIOUS
<1>5. Window(w)
  BY <1>1, <1>3, <1>4 DEF Window, m
<1> QED BY <1>2, <1>5 DEF m

\* The report of a day, lane by lane.
DayReport(day) ==
    LET window == WindowOf(day, now)
        gpu == GpuLanes(samples, overrides, window, now)
        codex == CodexLanes(events, overrides, None, window, now)
    IN  /\ Window(window)
        /\ DOMAIN Day(day).codex = DOMAIN codex
        /\ DOMAIN Day(day).gpu = DOMAIN gpu
        /\ DOMAIN gpu = {s.lane : s \in samples}
        /\ \A s \in DOMAIN codex : /\ Day(day).codex[s] = Segments(codex[s])
                                   /\ Tidy(Segments(codex[s]), window)
        /\ \A l \in DOMAIN gpu : /\ Day(day).gpu[l] = Coalesce(Segments(gpu[l]))
                                 /\ GpuLane(gpu[l], window)
                                 /\ BooksKept(Day(day).gpu[l], Segments(gpu[l]), window)
        /\ Day(day).training = Total(gpu, {"training"})
        /\ Day(day).idle = Total(gpu, {"idle"})

\* In every state with well-typed rows the report of a day is of that form.
LEMMA DayIsReported ==
    ASSUME Types, NEW day \in Days
    PROVE  DayReport(day)
<1> DEFINE window == WindowOf(day, now)
           gpu == GpuLanes(samples, overrides, window, now)
           codex == CodexLanes(events, overrides, None, window, now)
<1>1. day \in Int /\ now \in Int
  BY DEF Days, Types
<1>2. Window(window)
  BY <1>1, DayWindow
<1>3. /\ Day(day).codex = [s \in DOMAIN codex |-> Segments(codex[s])]
      /\ Day(day).gpu = [l \in DOMAIN gpu |-> Coalesce(Segments(gpu[l]))]
      /\ Day(day).training = Total(gpu, {"training"})
      /\ Day(day).idle = Total(gpu, {"idle"})
  BY DEF Day, BuildDay, Report
<1> HIDE DEF window
<1>4. /\ DOMAIN gpu = {s.lane : s \in samples}
      /\ \A l \in DOMAIN gpu : GpuLane(gpu[l], window)
  BY <1>2, GpuLanesGood
<1>5. \A s \in DOMAIN codex : Tidy(Segments(codex[s]), window)
  BY <1>2, CodexLanesTidy
<1> HIDE DEF gpu, codex
<1>6. ASSUME NEW l \in DOMAIN gpu
      PROVE  BooksKept(Coalesce(Segments(gpu[l])), Segments(gpu[l]), window)
  BY <1>2, <1>4, CoalesceGood DEF GpuLane
<1>7. \A l \in DOMAIN gpu : /\ Day(day).gpu[l] = Coalesce(Segments(gpu[l]))
                            /\ GpuLane(gpu[l], window)
                            /\ BooksKept(Day(day).gpu[l], Segments(gpu[l]), window)
  BY <1>3, <1>4, <1>6
<1>8. \A s \in DOMAIN codex : Day(day).codex[s] = Segments(codex[s])
  BY <1>3
<1>9. DOMAIN Day(day).codex = DOMAIN codex /\ DOMAIN Day(day).gpu = DOMAIN gpu
  BY <1>3
<1> QED BY <1>2, <1>3, <1>4, <1>5, <1>7, <1>8, <1>9 DEF DayReport, window, gpu, codex

\* Tidy segments are well formed, and so are bars that are kept and solid.
LEMMA TidyIsWellFormed ==
    ASSUME NEW list, NEW window, Tidy(list, window)
    PROVE  WellFormed(list, window)
<1>1. DOMAIN list = 1 .. Len(list) /\ Len(list) \in Nat
  BY DEF Tidy, Pieces, Listed
<1>2. \A i \in 1 .. Len(list) :
         /\ list[i].start < list[i].end
         /\ list[i].start \in Int /\ list[i].end \in Int
         /\ window.start <= list[i].start /\ list[i].end <= window.end
  BY DEF Tidy, Pieces, Piece
<1>3. \A i \in 1 .. Len(list) : i > 1 => list[i - 1].end <= list[i].start
  <2>1. \A i \in 1 .. Len(list) : i > 1 => i - 1 \in 1 .. Len(list) /\ i - 1 < i
    BY <1>1
  <2> QED BY <2>1 DEF Tidy, InTurn
<1> QED BY <1>1, <1>2, <1>3 DEF WellFormed

\* So are the bars that the loop returns.
LEMMA BarsAreWellFormed ==
    ASSUME NEW list, NEW segs, NEW window, Window(window), BooksKept(list, segs, window)
    PROVE  WellFormed(list, window)
<1> DEFINE S == BarRows(segs)
<1>1. \A b \in S : b.start \in Int /\ b.end \in Int
  BY DEF BarRows
<1>2. list \in Seq(S)
  BY DEF BooksKept
<1> HIDE DEF S
<1>3. /\ DOMAIN list = 1 .. Len(list) /\ Len(list) \in Nat
      /\ \A i \in 1 .. Len(list) : list[i].start \in Int /\ list[i].end \in Int
  BY <1>1, <1>2
<1>4. \A i \in 1 .. Len(list) :
         /\ list[i].start < list[i].end
         /\ window.start <= list[i].start /\ list[i].end <= window.end
  BY DEF BooksKept, Kept
<1>5. \A i \in 1 .. Len(list) : i > 1 => list[i - 1].end <= list[i].start
  <2>1. \A i \in 1 .. Len(list) : i > 1 => list[i - 1].end = list[i].start
    BY DEF BooksKept, Solid
  <2> QED BY <1>3, <2>1
<1>6. window.start \in Int /\ window.end \in Int
  BY DEF Window
<1> QED BY <1>3, <1>4, <1>5, <1>6 DEF WellFormed

\* Sessions and GPUs alike, the lanes of every day are well formed.
LEMMA TypesKeepLanes == Types => LanesWellFormed
<1> SUFFICES ASSUME Types PROVE LanesWellFormed
  OBVIOUS
<1>1. ASSUME NEW day \in Days,
             NEW segments \in {Day(day).codex[s] : s \in DOMAIN Day(day).codex}
                         \cup {Day(day).gpu[l] : l \in DOMAIN Day(day).gpu}
      PROVE  WellFormed(segments, WindowOf(day, now))
  <2>1. DayReport(day)
    BY DayIsReported
  <2>2. CASE segments \in {Day(day).codex[s] : s \in DOMAIN Day(day).codex}
    <3>1. PICK s \in DOMAIN Day(day).codex : segments = Day(day).codex[s]
      BY <2>2
    <3>2. Tidy(segments, WindowOf(day, now))
      BY <2>1, <3>1 DEF DayReport
    <3> QED BY <3>2, TidyIsWellFormed
  <2>3. CASE segments \in {Day(day).gpu[l] : l \in DOMAIN Day(day).gpu}
    <3>1. PICK l \in DOMAIN Day(day).gpu : segments = Day(day).gpu[l]
      BY <2>3
    <3>2. Window(WindowOf(day, now))
      BY <2>1 DEF DayReport
    <3>3. \E segs : BooksKept(segments, segs, WindowOf(day, now))
      BY <2>1, <3>1 DEF DayReport
    <3> QED BY <3>2, <3>3, BarsAreWellFormed
  <2> QED BY <2>2, <2>3
<1> QED BY <1>1 DEF LanesWellFormed

\* At any moment the intervals of every day's lanes, sessions and GPUs, lie in
\* their day and in the past, sorted and disjoint, whatever was recorded late
\* or overridden and however gaps were folded (build_day, coalesce_segments).
THEOREM LanesAreWellFormed == Spec => []LanesWellFormed
<1>1. Spec => []Types
  BY TimelineTypes
<1> QED BY <1>1, TypesKeepLanes, PTL

-----------------------------------------------------------------------------
(* The time of a lane *)

\* A piece that is appended adds its time to its state, joined or not.
LEMMA AppendKeepsTime ==
    ASSUME NEW T,
           \A p \in T : /\ Piece(p) /\ "state" \in DOMAIN p
                        /\ \A e \in Int : [p EXCEPT !.end = e] \in T,
           NEW list \in Seq(T), NEW piece \in T, NEW st
    PROVE  LET r == AppendSegment(list, piece) IN
           SumOf(1 .. Len(r), Lasting(r, st))
              = SumOf(1 .. Len(list), Lasting(list, st))
                + (IF piece.state = st THEN piece.end - piece.start ELSE 0)
<1> DEFINE r == AppendSegment(list, piece)
           n == Len(list)
           f == Lasting(list, st)
           g == Lasting(r, st)
           more == IF piece.state = st THEN piece.end - piece.start ELSE 0
<1>1. piece.start \in Int /\ piece.end \in Int /\ more \in Int
  BY DEF Piece
<1>2. \A p \in T : \A e \in Int : [p EXCEPT !.end = e] \in T
  OBVIOUS
<1>3. /\ r \in Seq(T)
      /\ \/ /\ n > 0 /\ list[n].end = piece.start /\ SameMetadata(list[n], piece)
            /\ Len(r) = n
            /\ \A k \in 1 .. n - 1 : r[k] = list[k]
            /\ r[n] = [list[n] EXCEPT !.end = piece.end]
         \/ /\ Len(r) = n + 1
            /\ \A k \in 1 .. n : r[k] = list[k]
            /\ r[n + 1] = piece
  BY <1>1, <1>2, AppendCases, SMTT(30)
<1> HIDE DEF r
<1>4. /\ n \in Nat /\ Len(r) \in Nat
      /\ \A k \in 1 .. n : list[k].start \in Int /\ list[k].end \in Int
      /\ \A k \in 1 .. Len(r) : r[k].start \in Int /\ r[k].end \in Int
  BY <1>3, SMTT(30) DEF Piece
<1>5. /\ \A k \in 1 .. n : /\ f[k] = IF list[k].state = st THEN list[k].end - list[k].start ELSE 0
                           /\ f[k] \in Int
      /\ \A k \in 1 .. Len(r) : /\ g[k] = IF r[k].state = st THEN r[k].end - r[k].start ELSE 0
                                /\ g[k] \in Int
  BY <1>4 DEF Lasting
<1> HIDE DEF f, g
<1>6. CASE /\ n > 0 /\ list[n].end = piece.start /\ SameMetadata(list[n], piece)
           /\ Len(r) = n
           /\ \A k \in 1 .. n - 1 : r[k] = list[k]
           /\ r[n] = [list[n] EXCEPT !.end = piece.end]
  <2>1. n \in 1 .. n /\ n \in 1 .. Len(r) /\ n - 1 \in Nat /\ n - 1 + 1 = n
        /\ \A k \in 1 .. n - 1 : k \in 1 .. n /\ k \in 1 .. Len(r)
    BY <1>4, <1>6
  <2>2. list[n] \in T
    BY <2>1
  <2>3. Piece(list[n]) /\ "state" \in DOMAIN piece
    BY <2>2
  <2>4. list[n].state = piece.state
    BY <1>6, <2>3 DEF SameMetadata
  <2>5. r[n].state = list[n].state /\ r[n].start = list[n].start /\ r[n].end = piece.end
    BY <1>6, <2>3 DEF Piece
  <2>6. g[n] = f[n] + more
    <3>1. g[n] = IF r[n].state = st THEN r[n].end - r[n].start ELSE 0
      BY <1>5, <2>1
    <3>2. f[n] = IF list[n].state = st THEN list[n].end - list[n].start ELSE 0
      BY <1>5, <2>1
    <3>3. list[n].start \in Int /\ list[n].end = piece.start
      BY <1>4, <1>6, <2>1
    <3>4. r[n].state = piece.state /\ list[n].state = piece.state
      BY <2>4, <2>5
    <3>5. CASE piece.state = st
      <4>1. g[n] = piece.end - list[n].start /\ f[n] = piece.start - list[n].start
        BY <2>5, <3>1, <3>2, <3>3, <3>4, <3>5
      <4>2. more = piece.end - piece.start
        BY <3>5
      <4> HIDE DEF more
      <4> QED BY <1>1, <3>3, <4>1, <4>2
    <3>6. CASE piece.state # st
      BY <3>1, <3>2, <3>4, <3>6
    <3> QED BY <3>5, <3>6
  <2>7. \A k \in 1 .. n - 1 : f[k] \in Int /\ g[k] = f[k]
    BY <1>5, <1>6, <2>1
  <2>8. f[n] \in Int /\ g[n] \in Int
    BY <1>5, <2>1
  <2> DEFINE m == n - 1
  <2>9. /\ m \in Nat /\ f[m + 1] \in Int /\ g[m + 1] \in Int
        /\ \A k \in 1 .. m : f[k] \in Int /\ f[k] = f[k] /\ g[k] = f[k]
    BY <2>1, <2>7, <2>8
  <2> HIDE DEF m, more
  <2>10. SumOf(1 .. m + 1, f) = SumOf(1 .. m, f) + f[m + 1]
    BY <2>9, SumSteps
  <2>11. SumOf(1 .. m + 1, g) = SumOf(1 .. m, f) + g[m + 1]
    BY <2>9, SumSteps
  <2>12. SumOf(1 .. m, f) \in Int
    <3>1. 1 \in Int /\ m \in Int /\ \A k \in 1 .. m : f[k] \in Int
      BY <2>9
    <3> QED BY <3>1, SumInterval
  <2>13. m + 1 = n
    BY <2>1 DEF m
  <2>14. SumOf(1 .. n, g) = SumOf(1 .. n, f) + more
    BY <1>1, <2>6, <2>8, <2>10, <2>11, <2>12, <2>13
  <2> QED BY <1>6, <2>14 DEF f, g, r, more
<1>7. CASE /\ Len(r) = n + 1
           /\ \A k \in 1 .. n : r[k] = list[k]
           /\ r[n + 1] = piece
  <2>1. n + 1 \in 1 .. Len(r) /\ \A k \in 1 .. n : k \in 1 .. Len(r)
    BY <1>4, <1>7
  <2>2. \A k \in 1 .. n : f[k] \in Int /\ g[k] = f[k]
    BY <1>5, <1>7, <2>1
  <2>3. g[n + 1] = more /\ g[n + 1] \in Int
    BY <1>5, <1>7, <2>1
  <2> HIDE DEF more
  <2>4. SumOf(1 .. n + 1, g) = SumOf(1 .. n, f) + g[n + 1]
    BY <1>4, <2>2, <2>3, SumSteps
  <2> QED BY <1>7, <2>3, <2>4 DEF f, g, r, more
<1> QED BY <1>3, <1>6, <1>7

\* So joining keeps the time of every state.
LEMMA SegmentsKeepTime ==
    ASSUME NEW pieces, Pieces(pieces), Stated(pieces), NEW st
    PROVE  SumOf(1 .. Len(Segments(pieces)), Lasting(Segments(pieces), st))
              = SumOf(1 .. Len(pieces), Lasting(pieces, st))
<1> DEFINE n == Len(pieces)
           T == {p \in Grown(pieces) : "state" \in DOMAIN p}
           f == Lasting(pieces, st)
<1>1. /\ \A p \in Grown(pieces) : Piece(p) /\ \A e \in Int : [p EXCEPT !.end = e] \in Grown(pieces)
      /\ \A i \in 1 .. n : pieces[i] \in Grown(pieces)
  BY SegmentsSteps
<1>2. PICK u : /\ u[0] = <<>>
               /\ \A i \in 1 .. n : u[i] = AppendSegment(u[i - 1], pieces[i])
               /\ \A i \in 0 .. n : u[i] \in Seq(Grown(pieces))
               /\ Segments(pieces) = u[n]
  BY SegmentsSteps
<1>3. n \in Nat /\ \A i \in 1 .. n : pieces[i].start \in Int /\ pieces[i].end \in Int
  BY DEF Pieces, Listed, Piece
<1>4. \A p \in T : /\ Piece(p) /\ "state" \in DOMAIN p
                   /\ \A e \in Int : [p EXCEPT !.end = e] \in T
  <2> SUFFICES ASSUME NEW p \in T, NEW e \in Int PROVE [p EXCEPT !.end = e] \in T
    BY <1>1
  <2>1. DOMAIN [p EXCEPT !.end = e] = DOMAIN p
    OBVIOUS
  <2> QED BY <1>1, <2>1
<1>5. \A i \in 1 .. n : pieces[i] \in T
  BY <1>1 DEF Stated
<1>6. \A i \in 1 .. n : /\ f[i] = IF pieces[i].state = st THEN pieces[i].end - pieces[i].start ELSE 0
                        /\ f[i] \in Int
  BY <1>3 DEF Lasting
<1> HIDE DEF f, T
<1> DEFINE A == {i \in 0 .. n : /\ u[i] \in Seq(T)
                                /\ SumOf(1 .. Len(u[i]), Lasting(u[i], st)) = SumOf(1 .. i, f)}
<1>7. 0 \in A
  <2>1. \A q : SumOf({}, q) = 0
    BY SumRules, FS_EmptySet
  <2>2. u[0] \in Seq(T) /\ Len(u[0]) = 0
    BY <1>2
  <2>3. 1 .. 0 = {} /\ 0 \in 0 .. n
    BY <1>3
  <2> QED BY <2>1, <2>2, <2>3
<1>8. ASSUME NEW i \in 1 .. n, i - 1 \in A
      PROVE  i \in A
  <2> DEFINE list == u[i - 1]
             r == AppendSegment(list, pieces[i])
  <2>1. i - 1 \in Nat /\ i - 1 + 1 = i /\ i \in 0 .. n
        /\ \A k \in 1 .. i - 1 : k \in 1 .. n
    BY <1>3
  <2>2. list \in Seq(T) /\ SumOf(1 .. Len(list), Lasting(list, st)) = SumOf(1 .. i - 1, f)
    BY <1>8
  <2>3. u[i] = r /\ pieces[i] \in T
    BY <1>2, <1>5
  <2>4. r \in Seq(T)
    <3>1. pieces[i].end \in Int /\ \A p \in T : \A e \in Int : [p EXCEPT !.end = e] \in T
      BY <1>3, <1>4
    <3> HIDE DEF list
    <3> QED BY <2>2, <2>3, <3>1, AppendCases
  <2>5. SumOf(1 .. Len(r), Lasting(r, st))
           = SumOf(1 .. i - 1, f) + (IF pieces[i].state = st THEN pieces[i].end - pieces[i].start ELSE 0)
    <3> HIDE DEF list
    <3> QED BY <1>4, <2>2, <2>3, AppendKeepsTime, SMTT(30)
  <2>6. SumOf(1 .. i, f) = SumOf(1 .. i - 1, f) + f[i]
    <3> DEFINE m == i - 1
    <3>1. m \in Nat /\ m + 1 = i
      BY <2>1
    <3>2. (\A k \in 1 .. m : f[k] \in Int /\ f[k] = f[k]) /\ f[i] \in Int
      BY <1>6, <2>1
    <3> HIDE DEF m
    <3>3. SumOf(1 .. m + 1, f) = SumOf(1 .. m, f) + f[m + 1]
      BY <3>1, <3>2, SumSteps
    <3> QED BY <3>1, <3>3 DEF m
  <2> HIDE DEF r
  <2>7. SumOf(1 .. Len(u[i]), Lasting(u[i], st)) = SumOf(1 .. i, f)
    BY <1>6, <2>3, <2>5, <2>6
  <2> QED BY <2>1, <2>3, <2>4, <2>7
<1>9. n \in A
  <2> HIDE DEF A
  <2>1. \A i \in 0 .. n : i \in A
    BY <1>3, <1>7, <1>8, Induct
  <2> QED BY <1>3, <2>1
<1> QED BY <1>2, <1>9 DEF f

\* The seconds of a state are the lengths of its pieces.
LEMMA SecondsAddUp ==
    ASSUME NEW pieces, Pieces(pieces), NEW st
    PROVE  /\ Seconds(pieces, {st}) = SumOf(1 .. Len(pieces), Lasting(pieces, st))
           /\ Seconds(pieces, {st}) \in Int
<1> DEFINE D == 1 .. Len(pieces)
           C == {i \in DOMAIN pieces : pieces[i].state \in {st}}
           g == [i \in C |-> pieces[i].end - pieces[i].start]
           Rec(it) == it = [T \in SUBSET C |->
                              IF T = {} THEN 0
                              ELSE (pieces[CHOOSE x \in T : TRUE].end
                                       - pieces[CHOOSE x \in T : TRUE].start)
                                   + it[T \ {CHOOSE x \in T : TRUE}]]
           v == CHOOSE it : Rec(it)
<1>1. /\ DOMAIN pieces = D /\ Len(pieces) \in Nat
      /\ \A i \in D : pieces[i].start \in Int /\ pieces[i].end \in Int
  BY DEF Pieces, Listed, Piece
<1>2. Seconds(pieces, {st}) = v[C]
  BY DEF Seconds, MapThenSumSet, MapThenFoldSet
<1>3. /\ C \in SUBSET D
      /\ \A i \in D : i \in C <=> pieces[i].state = st
  BY <1>1
<1>4. IsFiniteSet(D) /\ IsFiniteSet(C)
  <2>1. IsFiniteSet(D)
    BY <1>1, FS_Interval
  <2> HIDE DEF C, D
  <2> QED BY <1>3, <2>1, FS_Subset
<1> HIDE DEF C
<1>5. \A x \in C : g[x] = pieces[x].end - pieces[x].start /\ g[x] \in Int
  BY <1>1, <1>3
<1>6. \A it : Rec(it) <=> Iterated(C, g, it)
  <2>1. \A T \in SUBSET C : T # {} => (CHOOSE x \in T : TRUE) \in C
    OBVIOUS
  <2>2. \A T \in SUBSET C : T # {} =>
            g[CHOOSE x \in T : TRUE] = pieces[CHOOSE x \in T : TRUE].end
                                          - pieces[CHOOSE x \in T : TRUE].start
    BY <2>1
  <2> HIDE DEF g
  <2> QED BY <2>2 DEF Iterated
<1> HIDE DEF g
<1>7. (\E it : Iterated(C, g, it)) /\ \A it : Iterated(C, g, it) => it[C] = SumOf(C, g)
  BY <1>4, <1>5, IterationSums
<1>8. Rec(v)
  <2> HIDE DEF Rec
  <2>1. \E it : Rec(it)
    BY <1>6, <1>7
  <2> QED BY <2>1
<1> HIDE DEF v, Rec
<1>9. v[C] = SumOf(C, g)
  BY <1>6, <1>7, <1>8
<1> DEFINE h == [x \in D |-> IF x \in C THEN g[x] ELSE 0]
<1>10. SumOf(C, g) = SumOf(D, h)
  <2> HIDE DEF D
  <2> QED BY <1>3, <1>4, <1>5, SumFilter
<1>11. h = Lasting(pieces, st)
  BY <1>3, <1>5 DEF Lasting
<1>12. SumOf(C, g) \in Int
  <2>1. C \in SUBSET C /\ \A x \in C : g[x] \in Int
    BY <1>5
  <2> QED BY <1>4, <2>1, SumRules
<1> QED BY <1>2, <1>9, <1>10, <1>11, <1>12

\* The time in a state of all lanes is what their seconds add up to.
LEMMA TotalAddsUp ==
    ASSUME NEW lanes, IsFiniteSet(DOMAIN lanes), NEW st,
           \A l \in DOMAIN lanes : Seconds(lanes[l], {st}) \in Int
    PROVE  Total(lanes, {st}) = SumOf(DOMAIN lanes, [l \in DOMAIN lanes |-> Seconds(lanes[l], {st})])
<1> DEFINE C == DOMAIN lanes
           g == [l \in C |-> Seconds(lanes[l], {st})]
           Rec(it) == it = [T \in SUBSET C |->
                              IF T = {} THEN 0
                              ELSE Seconds(lanes[CHOOSE x \in T : TRUE], {st})
                                   + it[T \ {CHOOSE x \in T : TRUE}]]
           v == CHOOSE it : Rec(it)
<1>1. Total(lanes, {st}) = v[C]
  BY DEF Total, MapThenSumSet, MapThenFoldSet
<1> HIDE DEF C
<1>2. IsFiniteSet(C) /\ \A x \in C : g[x] \in Int
  BY DEF C
<1>3. \A it : Rec(it) <=> Iterated(C, g, it)
  <2>1. \A T \in SUBSET C : T # {} => (CHOOSE x \in T : TRUE) \in C
    OBVIOUS
  <2>2. \A T \in SUBSET C : T # {} =>
            g[CHOOSE x \in T : TRUE] = Seconds(lanes[CHOOSE x \in T : TRUE], {st})
    BY <2>1
  <2> HIDE DEF g
  <2> QED BY <2>2, ZenonT(40) DEF Iterated
<1> HIDE DEF g
<1>4. (\E it : Iterated(C, g, it)) /\ \A it : Iterated(C, g, it) => it[C] = SumOf(C, g)
  BY <1>2, IterationSums
<1>5. Rec(v)
  <2> HIDE DEF Rec
  <2>1. \E it : Rec(it)
    BY <1>3, <1>4
  <2> QED BY <2>1
<1> HIDE DEF v, Rec
<1>6. v[C] = SumOf(C, g)
  BY <1>3, <1>4, <1>5
<1> QED BY <1>1, <1>6 DEF g, C

\* What the bars of all lanes have observed in a state.
Indexed(bars) == UNION {{<<l, i>> : i \in 1 .. Len(bars[l])} : l \in DOMAIN bars}

\* It is the sum of what the bars of each lane have observed.
LEMMA ObservedAddsUp ==
    ASSUME NEW bars, IsFiniteSet(DOMAIN bars), NEW st,
           \A l \in DOMAIN bars : /\ Len(bars[l]) \in Nat
                                  /\ \A i \in 1 .. Len(bars[l]) : bars[l][i].observed \in Int
    PROVE  MapThenSumSet(LAMBDA p : bars[p[1]][p[2]].observed,
                         {p \in Indexed(bars) : bars[p[1]][p[2]].state = st})
              = SumOf(DOMAIN bars,
                      [l \in DOMAIN bars |-> SumOf(1 .. Len(bars[l]), Observed(bars[l], st))])
<1> DEFINE all == Indexed(bars)
           C == {p \in all : bars[p[1]][p[2]].state = st}
           g == [p \in C |-> bars[p[1]][p[2]].observed]
           h == [p \in all |-> IF p \in C THEN g[p] ELSE 0]
           Rec(it) == it = [T \in SUBSET C |->
                              IF T = {} THEN 0
                              ELSE bars[(CHOOSE x \in T : TRUE)[1]][(CHOOSE x \in T : TRUE)[2]].observed
                                   + it[T \ {CHOOSE x \in T : TRUE}]]
           v == CHOOSE it : Rec(it)
           n == [l \in DOMAIN bars |-> Len(bars[l])]
<1>1. MapThenSumSet(LAMBDA p : bars[p[1]][p[2]].observed,
                    {p \in Indexed(bars) : bars[p[1]][p[2]].state = st}) = v[C]
  BY DEF MapThenSumSet, MapThenFoldSet
<1>2. \A l \in DOMAIN bars : \A i \in 1 .. Len(bars[l]) :
         /\ <<l, i>> \in all
         /\ h[<<l, i>>] = (IF bars[l][i].state = st THEN bars[l][i].observed ELSE 0)
         /\ h[<<l, i>>] \in Int
  <2> SUFFICES ASSUME NEW l \in DOMAIN bars, NEW i \in 1 .. Len(bars[l])
               PROVE  /\ <<l, i>> \in all
                      /\ h[<<l, i>>] = (IF bars[l][i].state = st THEN bars[l][i].observed ELSE 0)
                      /\ h[<<l, i>>] \in Int
    OBVIOUS
  <2>1. <<l, i>> \in all
    BY DEF Indexed
  <2>2. bars[l][i].observed \in Int
    OBVIOUS
  <2>3. CASE bars[l][i].state = st
    <3>1. <<l, i>> \in C
      <4> HIDE DEF all
      <4> QED BY <2>1, <2>3
    <3>2. g[<<l, i>>] = bars[l][i].observed
      <4> HIDE DEF C
      <4> QED BY <3>1
    <3> HIDE DEF C, g, all
    <3> QED BY <2>1, <2>2, <2>3, <3>1, <3>2
  <2>4. CASE bars[l][i].state # st
    <3>1. <<l, i>> \notin C
      BY <2>4
    <3> HIDE DEF C, g, all
    <3> QED BY <2>1, <2>4, <3>1
  <2> QED BY <2>3, <2>4
<1>3. \A p \in all : \E l \in DOMAIN bars : \E i \in 1 .. Len(bars[l]) : p = <<l, i>>
  BY DEF Indexed
<1>4. \A x \in C : g[x] = bars[x[1]][x[2]].observed /\ g[x] \in Int
  BY <1>3
<1>5. C \in SUBSET all
  OBVIOUS
<1> HIDE DEF C, g, all
<1>6. /\ IsFiniteSet(all)
      /\ SumOf(all, h) = SumOf(DOMAIN bars,
             [l \in DOMAIN bars |-> SumOf(1 .. n[l], [i \in 1 .. n[l] |-> h[<<l, i>>]])])
  <2>1. \A l \in DOMAIN bars : n[l] \in Nat /\ \A i \in 1 .. n[l] : h[<<l, i>>] \in Int
    BY <1>2
  <2>2. all = UNION {{<<l, i>> : i \in 1 .. n[l]} : l \in DOMAIN bars}
    BY DEF all, Indexed
  <2> HIDE DEF n, h
  <2> QED BY <2>1, <2>2, SumRows
<1>7. \A l \in DOMAIN bars : [i \in 1 .. n[l] |-> h[<<l, i>>]] = Observed(bars[l], st)
  <2> SUFFICES ASSUME NEW l \in DOMAIN bars
               PROVE  [i \in 1 .. n[l] |-> h[<<l, i>>]] = Observed(bars[l], st)
    OBVIOUS
  <2>1. n[l] = Len(bars[l])
    OBVIOUS
  <2> HIDE DEF h, n
  <2> QED BY <1>2, <2>1 DEF Observed
<1>8. IsFiniteSet(C)
  BY <1>5, <1>6, FS_Subset
<1>9. SumOf(C, g) = SumOf(all, h)
  BY <1>4, <1>5, <1>6, SumFilter
<1> HIDE DEF h
<1>10. \A it : Rec(it) <=> Iterated(C, g, it)
  <2>1. \A T \in SUBSET C : T # {} => (CHOOSE x \in T : TRUE) \in C
    OBVIOUS
  <2>2. \A T \in SUBSET C : T # {} =>
            g[CHOOSE x \in T : TRUE]
               = bars[(CHOOSE x \in T : TRUE)[1]][(CHOOSE x \in T : TRUE)[2]].observed
    BY <1>4, <2>1
  <2> QED BY <2>2, SMTT(30) DEF Iterated
<1>11. (\E it : Iterated(C, g, it)) /\ \A it : Iterated(C, g, it) => it[C] = SumOf(C, g)
  BY <1>4, <1>8, IterationSums
<1>12. Rec(v)
  <2> HIDE DEF Rec
  <2>1. \E it : Rec(it)
    BY <1>10, <1>11
  <2> QED BY <2>1
<1> HIDE DEF v, Rec
<1>13. v[C] = SumOf(C, g)
  BY <1>10, <1>11, <1>12
<1>14. [l \in DOMAIN bars |-> SumOf(1 .. n[l], [i \in 1 .. n[l] |-> h[<<l, i>>]])]
          = [l \in DOMAIN bars |-> SumOf(1 .. Len(bars[l]), Observed(bars[l], st))]
  BY <1>7
<1> QED BY <1>1, <1>6, <1>9, <1>13, <1>14

\* The books of a day: what the bars of a state have observed, and its seconds.
LEMMA DayBooks ==
    ASSUME Types, NEW day \in Days, NEW st, NEW gpu,
           gpu = GpuLanes(samples, overrides, WindowOf(day, now), now)
    PROVE  LET bars == Day(day).gpu
               observed == MapThenSumSet(LAMBDA p : bars[p[1]][p[2]].observed,
                               {p \in Indexed(bars) : bars[p[1]][p[2]].state = st})
           IN  /\ observed <= Total(gpu, {st})
               /\ st \notin Idle => observed = Total(gpu, {st})
<1> DEFINE bars == Day(day).gpu
           D == DOMAIN bars
           f == [l \in D |-> SumOf(1 .. Len(bars[l]), Observed(bars[l], st))]
           g == [l \in D |-> Seconds(gpu[l], {st})]
<1>1. /\ D = DOMAIN gpu /\ D = {s.lane : s \in samples}
      /\ \A l \in D : GpuLane(gpu[l], WindowOf(day, now))
      /\ \A l \in D : BooksKept(bars[l], Segments(gpu[l]), WindowOf(day, now))
  <2>1. DayReport(day)
    BY DayIsReported
  <2> QED BY <2>1 DEF DayReport
<1>2. IsFiniteSet(D)
  <2> DEFINE lane == [s \in samples |-> s.lane]
  <2>1. lane \in Surjection(samples, D)
    <3> HIDE DEF D
    <3> QED BY <1>1 DEF Surjection
  <2> HIDE DEF lane, D
  <2> QED BY <2>1, FS_Surjection DEF Types
<1> HIDE DEF bars
<1>3. ASSUME NEW l \in D
      PROVE  /\ Len(bars[l]) \in Nat
             /\ \A i \in 1 .. Len(bars[l]) : bars[l][i].observed \in Int
             /\ f[l] \in Int /\ g[l] \in Int /\ Seconds(gpu[l], {st}) \in Int
             /\ f[l] <= g[l]
             /\ st \notin Idle => f[l] = g[l]
  <2> DEFINE list == bars[l]
             c == gpu[l]
             segs == Segments(c)
             S == BarRows(segs)
             all == SumOf(1 .. Len(segs), Lasting(segs, st))
             kept == SumOf(1 .. Len(list), Observed(list, st))
  <2>1. Pieces(c) /\ Stated(c) /\ BooksKept(list, segs, WindowOf(day, now))
    BY <1>1 DEF GpuLane, Tidy
  <2>2. f[l] = kept /\ g[l] = Seconds(c, {st})
    OBVIOUS
  <2> HIDE DEF f, g, c, list
  <2>3. all = Seconds(c, {st}) /\ Seconds(c, {st}) \in Int
    BY <2>1, SegmentsKeepTime, SecondsAddUp
  <2>4. list \in Seq(S)
    BY <2>1 DEF BooksKept
  <2>5. \A i \in 1 .. Len(list) : Observed(list, st)[i] \in Int
    BY <2>4, ObservedNumbers
  <2>6. kept <= all /\ (st \notin Idle => kept = all)
    BY <2>1 DEF BooksKept
  <2>7. \A b \in S : b.observed \in Int
    BY DEF BarRows
  <2> HIDE DEF S, segs
  <2>8. Len(list) \in Nat /\ \A i \in 1 .. Len(list) : list[i].observed \in Int
    BY <2>4, <2>7
  <2>9. kept \in Int
    BY <2>5, <2>8, SumInterval
  <2> HIDE DEF kept, all
  <2> QED BY <2>2, <2>3, <2>6, <2>8, <2>9 DEF list, c
<1> DEFINE observed == MapThenSumSet(LAMBDA p : bars[p[1]][p[2]].observed,
                           {p \in Indexed(bars) : bars[p[1]][p[2]].state = st})
<1>4. observed = SumOf(D, f)
  BY <1>2, <1>3, ObservedAddsUp
<1>5. Total(gpu, {st}) = SumOf(D, g)
  <2>1. D = DOMAIN gpu
    BY <1>1
  <2> DEFINE E == DOMAIN gpu
  <2>2. IsFiniteSet(E) /\ \A l \in E : Seconds(gpu[l], {st}) \in Int
    BY <1>2, <1>3, <2>1
  <2>3. Total(gpu, {st}) = SumOf(E, [l \in E |-> Seconds(gpu[l], {st})])
    BY <2>2, TotalAddsUp
  <2>4. g = [l \in E |-> Seconds(gpu[l], {st})]
    BY <2>1
  <2> HIDE DEF g, D
  <2> QED BY <2>1, <2>3, <2>4
<1> HIDE DEF observed, f, g, D
<1>6. SumOf(D, f) <= SumOf(D, g)
  BY <1>2, <1>3, SumOrder
<1>7. st \notin Idle => SumOf(D, f) = SumOf(D, g)
  <2> SUFFICES ASSUME st \notin Idle PROVE SumOf(D, f) = SumOf(D, g)
    OBVIOUS
  <2>1. \A l \in D : f[l] \in Int /\ f[l] = g[l]
    BY <1>3
  <2> QED BY <1>2, <2>1, SumAgrees
<1>8. observed <= Total(gpu, {st}) /\ (st \notin Idle => observed = Total(gpu, {st}))
  BY <1>4, <1>5, <1>6, <1>7
<1> QED BY <1>8 DEF observed, bars

\* Lane by lane the books are kept, so they are for the day.
LEMMA TypesKeepBars == Types => BarsKeepTime
<1> SUFFICES ASSUME Types, NEW day \in Days
             PROVE  LET bars == Day(day).gpu
                        all == UNION {{<<l, i>> : i \in DOMAIN bars[l]} : l \in DOMAIN bars}
                        observed(state) == MapThenSumSet(LAMBDA p : bars[p[1]][p[2]].observed,
                                               {p \in all : bars[p[1]][p[2]].state = state})
                    IN  /\ \A p \in all :
                              LET bar == bars[p[1]][p[2]] IN
                              /\ bar.observed + bar.gap = bar.end - bar.start
                              /\ bar.gap <= bar.gaps * MergeGap
                        /\ observed("training") = Day(day).training
                        /\ observed("idle") <= Day(day).idle
  BY DEF BarsKeepTime
<1> DEFINE bars == Day(day).gpu
           gpu == GpuLanes(samples, overrides, WindowOf(day, now), now)
           all == UNION {{<<l, i>> : i \in DOMAIN bars[l]} : l \in DOMAIN bars}
           observed(state) == MapThenSumSet(LAMBDA p : bars[p[1]][p[2]].observed,
                                  {p \in all : bars[p[1]][p[2]].state = state})
<1>1. /\ \A l \in DOMAIN bars : \E segs : BooksKept(bars[l], segs, WindowOf(day, now))
      /\ Day(day).training = Total(gpu, {"training"})
      /\ Day(day).idle = Total(gpu, {"idle"})
  <2>1. DayReport(day)
    BY DayIsReported
  <2> QED BY <2>1 DEF DayReport
<1>2. \A st : LET counted == MapThenSumSet(LAMBDA p : bars[p[1]][p[2]].observed,
                                 {p \in Indexed(bars) : bars[p[1]][p[2]].state = st})
              IN  /\ counted <= Total(gpu, {st})
                  /\ st \notin Idle => counted = Total(gpu, {st})
  BY DayBooks
<1> HIDE DEF bars, gpu
<1>3. \A l \in DOMAIN bars : /\ DOMAIN bars[l] = 1 .. Len(bars[l])
                             /\ \A i \in DOMAIN bars[l] : Kept(bars[l][i], WindowOf(day, now))
  <2> SUFFICES ASSUME NEW l \in DOMAIN bars
               PROVE  /\ DOMAIN bars[l] = 1 .. Len(bars[l])
                      /\ \A i \in DOMAIN bars[l] : Kept(bars[l][i], WindowOf(day, now))
    OBVIOUS
  <2>1. PICK segs : BooksKept(bars[l], segs, WindowOf(day, now))
    BY <1>1
  <2> DEFINE S == BarRows(segs)
  <2>2. bars[l] \in Seq(S) /\ \A i \in 1 .. Len(bars[l]) : Kept(bars[l][i], WindowOf(day, now))
    BY <2>1 DEF BooksKept
  <2> HIDE DEF S
  <2>3. DOMAIN bars[l] = 1 .. Len(bars[l])
    BY <2>2
  <2> QED BY <2>2, <2>3
<1>4. all = Indexed(bars)
  BY <1>3 DEF Indexed
<1>5. ASSUME NEW p \in all
      PROVE  /\ bars[p[1]][p[2]].observed + bars[p[1]][p[2]].gap
                   = bars[p[1]][p[2]].end - bars[p[1]][p[2]].start
             /\ bars[p[1]][p[2]].gap <= bars[p[1]][p[2]].gaps * MergeGap
  <2>1. PICK l \in DOMAIN bars : \E i \in DOMAIN bars[l] : p = <<l, i>>
    OBVIOUS
  <2>2. PICK i \in DOMAIN bars[l] : p = <<l, i>>
    BY <2>1
  <2>3. Kept(bars[l][i], WindowOf(day, now)) /\ p[1] = l /\ p[2] = i
    BY <1>3, <2>2
  <2> QED BY <2>3 DEF Kept
<1> HIDE DEF all
<1>6. "training" \notin Idle
  BY DEF Idle
<1>7. observed("training") = Day(day).training
  BY <1>1, <1>2, <1>4, <1>6
<1>8. observed("idle") <= Day(day).idle
  BY <1>1, <1>2, <1>4
<1> QED BY <1>5, <1>7, <1>8 DEF all, bars

\* Folding keeps the books at any moment and for any rows and overrides: a bar
\* is its observed time and its folded gaps, no gap longer than the limit, the
\* training bars hold exactly the training time of the day and the idle bars no
\* more than its idle time (coalesce_segments, merge_display_bars).
THEOREM BarsKeepTheBooks == Spec => []BarsKeepTime
<1>1. Spec => []Types
  BY TimelineTypes
<1> QED BY <1>1, TypesKeepBars, PTL

-----------------------------------------------------------------------------
(* Seconds as instants *)

\* A piece of a list shows a state at an instant, and all the instants at which.
SpotIs(list, t, st) == \E k \in 1 .. Len(list) : Covers(list[k], t) /\ list[k].state = st
Spots(list, st) == {t \in Int : SpotIs(list, t, st)}

\* The seconds of a tidy list are the instants it covers.
LEMMA TidyCount ==
    ASSUME NEW list, NEW window, Tidy(list, window), NEW st
    PROVE  /\ IsFiniteSet(Spots(list, st))
           /\ Seconds(list, {st}) = Cardinality(Spots(list, st))
<1> DEFINE D == 1 .. Len(list)
           F == [k \in D |-> IF list[k].state = st THEN list[k].start .. list[k].end - 1 ELSE {}]
           counts == [k \in D |-> Cardinality(F[k])]
           all == UNION {F[k] : k \in D}
<1>1. /\ Len(list) \in Nat
      /\ \A k \in D : /\ list[k].start \in Int /\ list[k].end \in Int
                      /\ list[k].start < list[k].end
  BY DEF Tidy, Pieces, Listed, Piece
<1>2. Pieces(list) /\ \A j, k \in D : j < k => list[j].end <= list[k].start
  BY DEF Tidy, InTurn
<1>3. IsFiniteSet(D)
  BY <1>1, FS_Interval
<1>4. ASSUME NEW k \in D
      PROVE  /\ IsFiniteSet(F[k])
             /\ counts[k] = Lasting(list, st)[k]
             /\ Lasting(list, st)[k] \in Int
  <2>0. counts[k] = Cardinality(F[k])
    OBVIOUS
  <2>1. CASE list[k].state = st
    <3>1. F[k] = list[k].start .. list[k].end - 1
      BY <2>1
    <3>2. list[k].start \in Int /\ list[k].end - 1 \in Int /\ list[k].start <= list[k].end - 1
      BY <1>1
    <3>3. PICK a \in Int, b \in Int : /\ a = list[k].start /\ b = list[k].end - 1
                                       /\ a <= b /\ F[k] = a .. b
      BY <3>1, <3>2
    <3> HIDE DEF F
    <3>3A. IsFiniteSet(a .. b) /\ Cardinality(a .. b) = IF a > b THEN 0 ELSE b - a + 1
      BY FS_Interval
    <3>3B. IsFiniteSet(F[k]) /\ Cardinality(F[k]) = (list[k].end - 1) - list[k].start + 1
      BY <1>1, <3>3, <3>3A
    <3>4. Lasting(list, st)[k] = list[k].end - list[k].start
      BY <2>1 DEF Lasting
    <3>5. (list[k].end - 1) - list[k].start + 1 = list[k].end - list[k].start
          /\ list[k].end - list[k].start \in Int
      BY <1>1
    <3> HIDE DEF counts
    <3> QED BY <2>0, <3>3B, <3>4, <3>5
  <2>2. CASE list[k].state # st
    <3>1. F[k] = {} /\ Lasting(list, st)[k] = 0
      BY <2>2 DEF Lasting
    <3> HIDE DEF F, counts
    <3> QED BY <2>0, <3>1, FS_EmptySet
  <2> QED BY <2>1, <2>2
<1>5. ASSUME NEW j \in D, NEW k \in D, j # k
      PROVE  F[j] \cap F[k] = {}
  <2>1. j < k \/ k < j
    BY <1>1, <1>5
  <2>2. list[j].end <= list[k].start \/ list[k].end <= list[j].start
    BY <1>2, <2>1
  <2>3. /\ \A t \in F[j] : t \in Int /\ list[j].start <= t /\ t < list[j].end
        /\ \A t \in F[k] : t \in Int /\ list[k].start <= t /\ t < list[k].end
    BY <1>1
  <2> HIDE DEF F
  <2>4. ASSUME NEW t \in F[j] \cap F[k] PROVE FALSE
    BY <1>1, <2>2, <2>3
  <2> QED BY <2>4
<1>6. all = Spots(list, st)
  <2>1. ASSUME NEW t \in all PROVE t \in Spots(list, st)
    <3>1. PICK k \in D : t \in F[k]
      OBVIOUS
    <3>2. list[k].state = st /\ t \in list[k].start .. list[k].end - 1
      BY <3>1
    <3>3. t \in Int /\ list[k].start <= t /\ t < list[k].end
      BY <1>1, <3>2
    <3> QED BY <3>2, <3>3 DEF Spots, SpotIs, Covers
  <2>2. ASSUME NEW t \in Spots(list, st) PROVE t \in all
    <3>1. PICK k \in D : Covers(list[k], t) /\ list[k].state = st /\ t \in Int
      BY DEF Spots, SpotIs
    <3>2. t \in F[k]
      BY <1>1, <3>1 DEF Covers
    <3> QED BY <3>2
  <2> QED BY <2>1, <2>2
<1> HIDE DEF F, D
<1>7. /\ IsFiniteSet(all)
      /\ Cardinality(all) = SumOf(D, counts)
      /\ \A k \in D : counts[k] \in Int
  BY <1>3, <1>4, <1>5, CountsAddUp
<1>8. SumOf(D, counts) = SumOf(D, Lasting(list, st))
  <2>1. \A k \in D : counts[k] \in Int /\ counts[k] = Lasting(list, st)[k]
    BY <1>4, <1>7
  <2> HIDE DEF counts
  <2> QED BY <1>3, <2>1, SumAgrees
<1>9. Seconds(list, {st}) = SumOf(D, Lasting(list, st))
  BY <1>2, SecondsAddUp DEF D
<1> QED BY <1>6, <1>7, <1>8, <1>9

\* What a window leaves of a list it shows where it was.
LEMMA ClippedSpots ==
    ASSUME NEW pieces, Pieces(pieces), Stated(pieces), NEW window, Window(window),
           NEW t \in Int, NEW st
    PROVE  SpotIs(Clipped(pieces, window), t, st)
              <=> SpotIs(pieces, t, st) /\ Within(window, t)
<1> DEFINE c == Clipped(pieces, window)
<1>1. /\ \A k \in 1 .. Len(c) : \E i \in 1 .. Len(pieces) :
            /\ Same(c[k], pieces[i])
            /\ \A u \in Int : Covers(c[k], u) <=> Covers(pieces[i], u) /\ Within(window, u)
      /\ \A i \in 1 .. Len(pieces) : \A u \in Int :
            Covers(pieces[i], u) /\ Within(window, u) =>
               \E k \in 1 .. Len(c) : Same(c[k], pieces[i]) /\ Covers(c[k], u)
  BY ClippedTidy
<1>2. \A i \in 1 .. Len(pieces) : \A p : Same(p, pieces[i]) => p.state = pieces[i].state
  BY DEF Stated, Same
<1> HIDE DEF c
<1>3. ASSUME SpotIs(c, t, st)
      PROVE  SpotIs(pieces, t, st) /\ Within(window, t)
  <2>1. PICK k \in 1 .. Len(c) : Covers(c[k], t) /\ c[k].state = st
    BY <1>3 DEF SpotIs
  <2>2. PICK i \in 1 .. Len(pieces) :
            /\ Same(c[k], pieces[i])
            /\ \A u \in Int : Covers(c[k], u) <=> Covers(pieces[i], u) /\ Within(window, u)
    BY <1>1
  <2>3. pieces[i].state = st /\ Covers(pieces[i], t) /\ Within(window, t)
    BY <1>2, <2>1, <2>2
  <2> QED BY <2>3 DEF SpotIs
<1>4. ASSUME SpotIs(pieces, t, st), Within(window, t)
      PROVE  SpotIs(c, t, st)
  <2>1. PICK i \in 1 .. Len(pieces) : Covers(pieces[i], t) /\ pieces[i].state = st
    BY <1>4 DEF SpotIs
  <2>2. PICK k \in 1 .. Len(c) : Same(c[k], pieces[i]) /\ Covers(c[k], t)
    BY <1>1, <1>4, <2>1
  <2>3. c[k].state = st
    BY <1>2, <2>1, <2>2
  <2> QED BY <2>2, <2>3 DEF SpotIs
<1> QED BY <1>3, <1>4 DEF c

\* The pieces of a session show what its rows say.
LEMMA CodexStates ==
    ASSUME NEW rows, Sorted(rows), Len(rows) > 0, NEW end \in Int
    PROVE  LET pieces == CodexPieces(rows, end)
               n == Len(rows)
           IN  /\ Pieces(pieces) /\ InTurn(pieces) /\ Stated(pieces)
               /\ Len(pieces) = IF Stalling(rows, end) THEN n + 1 ELSE n
               /\ \A k \in 1 .. n : pieces[k].state = StatesAfter(rows)[k].state
               /\ Stalling(rows, end) => pieces[n + 1].state = "stalled"
<1> DEFINE pieces == CodexPieces(rows, end)
           after == StatesAfter(rows)
           n == Len(rows)
           like(p, st) == \E s, e, ph, ev :
               p = [start |-> s, end |-> e, state |-> st, phase |-> ph, event |-> ev]
<1>1. /\ Pieces(pieces) /\ InTurn(pieces)
      /\ Len(pieces) = IF Stalling(rows, end) THEN n + 1 ELSE n
      /\ \A i \in 1 .. n :
            pieces[i] = [start |-> rows[i].at,
                         end |-> IF i < n THEN rows[i + 1].at
                                 ELSE IF Stalling(rows, end) THEN StallAt(rows[n])
                                 ELSE end,
                         state |-> after[i].state, phase |-> after[i].phase,
                         event |-> rows[i].id]
      /\ Stalling(rows, end) =>
            pieces[n + 1] = [start |-> StallAt(rows[n]), end |-> end,
                             state |-> "stalled", phase |-> "suspected-stall",
                             event |-> None]
  BY CodexList
<1>2. ASSUME NEW p, NEW st, like(p, st)
      PROVE  p.state = st /\ "state" \in DOMAIN p
  BY <1>2
<1>3. n \in Nat
  BY DEF Sorted
<1> HIDE DEF pieces, after, n
<1>4. /\ \A k \in 1 .. n : like(pieces[k], after[k].state)
      /\ Stalling(rows, end) => like(pieces[n + 1], "stalled")
  <2>1. ASSUME NEW k \in 1 .. n
        PROVE  like(pieces[k], after[k].state)
    <3>1. pieces[k] = [start |-> rows[k].at,
                       end |-> IF k < n THEN rows[k + 1].at
                               ELSE IF Stalling(rows, end) THEN StallAt(rows[n])
                               ELSE end,
                       state |-> after[k].state, phase |-> after[k].phase,
                       event |-> rows[k].id]
      BY <1>1
    <3> QED BY <3>1, Zenon
  <2>2. Stalling(rows, end) => like(pieces[n + 1], "stalled")
    BY <1>1
  <2> QED BY <2>1, <2>2
<1> HIDE DEF like
<1>5. \A k \in 1 .. Len(pieces) : k \in 1 .. n \/ (k = n + 1 /\ Stalling(rows, end))
  BY <1>1, <1>3
<1>6. /\ \A k \in 1 .. n : pieces[k].state = after[k].state /\ "state" \in DOMAIN pieces[k]
      /\ Stalling(rows, end) => /\ pieces[n + 1].state = "stalled"
                                /\ "state" \in DOMAIN pieces[n + 1]
  BY <1>2, <1>4
<1>7. Stated(pieces)
  BY <1>5, <1>6 DEF Stated
<1> QED BY <1>1, <1>6, <1>7 DEF pieces, after, n

\* Up to any later moment the pieces of a session show its state at an instant.
LEMMA CodexState ==
    ASSUME NEW rows, Sorted(rows), Len(rows) > 0, NEW end \in Nat, NEW t \in Nat, t < end,
           NEW st, st # None
    PROVE  SpotIs(CodexPieces(rows, end), t, st) <=> SessionState(rows, t) = st
<1> DEFINE pieces == CodexPieces(rows, end)
           n == Len(rows)
           i == LastAt(rows, t)
           after == StatesAfter(rows)[i]
           stalled == /\ i = n /\ t >= rows[i].at + StallSeconds
                      /\ after.state = "active" /\ ~after.active
           spot == IF i = n /\ Stalling(rows, end) /\ StallAt(rows[n]) <= t THEN n + 1 ELSE i
<1>0. i \in 0 .. n
  BY LastRow
<1>1. /\ n \in Nat /\ n > 0 /\ i \in 0 .. n
      /\ \A k \in 1 .. n : rows[k].at \in Nat
      /\ StallSeconds \in Nat
  <2> HIDE DEF i
  <2> QED BY <1>0, LimitsAssumption DEF Sorted
<1>2. \A k \in 1 .. Len(pieces) : Covers(pieces[k], t) <=> k = spot
  BY CodexSpot
<1>3. /\ Len(pieces) = IF Stalling(rows, end) THEN n + 1 ELSE n
      /\ \A k \in 1 .. n : pieces[k].state = StatesAfter(rows)[k].state
      /\ Stalling(rows, end) => pieces[n + 1].state = "stalled"
  BY CodexStates
<1>4. SessionState(rows, t) = IF i = 0 THEN None
                              ELSE IF stalled THEN "stalled" ELSE after.state
  BY DEF SessionState
<1>5. i = n => (stalled <=> Stalling(rows, end) /\ StallAt(rows[n]) <= t)
  <2> SUFFICES ASSUME i = n
               PROVE  stalled <=> Stalling(rows, end) /\ StallAt(rows[n]) <= t
    OBVIOUS
  <2>1. n \in 1 .. n
    BY <1>1
  <2>2. StallAt(rows[n]) = rows[n].at + StallSeconds /\ StallAt(rows[n]) \in Nat
    BY <1>1, <2>1 DEF StallAt
  <2>3. Stalling(rows, end) <=> after.state = "active" /\ ~after.active /\ end > StallAt(rows[n])
    BY DEF Stalling, Stalls
  <2> HIDE DEF i, n, after
  <2> QED BY <2>2, <2>3
<1>6. SpotIs(pieces, t, st) <=> spot \in 1 .. Len(pieces) /\ pieces[spot].state = st
  <2> HIDE DEF pieces, spot
  <2> QED BY <1>2 DEF SpotIs
<1> HIDE DEF pieces, i, n
<1>7. CASE i = 0
  <2>1. spot = 0
    BY <1>1, <1>7
  <2> QED BY <1>4, <1>6, <1>7, <2>1 DEF pieces
<1>8. CASE i \in 1 .. n /\ stalled
  <2>1. spot = n + 1 /\ n + 1 \in 1 .. Len(pieces) /\ pieces[n + 1].state = "stalled"
    <3>1. Stalling(rows, end) /\ StallAt(rows[n]) <= t /\ i = n
      BY <1>5, <1>8
    <3>2. Len(pieces) = n + 1 /\ pieces[n + 1].state = "stalled"
      BY <1>3, <3>1
    <3> QED BY <1>1, <3>1, <3>2
  <2>2. SessionState(rows, t) = "stalled"
    BY <1>1, <1>4, <1>8
  <2> HIDE DEF spot
  <2> QED BY <1>6, <2>1, <2>2 DEF pieces
<1>9. CASE i \in 1 .. n /\ ~stalled
  <2>1. spot = i
    BY <1>5, <1>9
  <2>2. i \in 1 .. Len(pieces) /\ pieces[i].state = after.state
    <3>1. Len(pieces) = n + 1 \/ Len(pieces) = n
      BY <1>3
    <3> QED BY <1>1, <1>3, <1>9, <3>1
  <2>3. SessionState(rows, t) = after.state
    BY <1>1, <1>4, <1>9
  <2> HIDE DEF spot, after
  <2> QED BY <1>6, <2>1, <2>2, <2>3 DEF pieces
<1>10. i = 0 \/ i \in 1 .. n
  BY <1>1
<1> QED BY <1>7, <1>8, <1>9, <1>10

\* The pieces of a GPU show what its samples say, or that nobody knows.
LEMMA GpuStates ==
    ASSUME NEW rows, Sorted(rows), NEW end, NEW i \in 1 .. Len(rows)
    PROVE  /\ GpuPieces(rows, end)[2 * i - 1].state = rows[i].state
           /\ GpuPieces(rows, end)[2 * i].state = "unknown"
<1> DEFINE n == Len(rows)
           pieces == GpuPieces(rows, end)
           until(k) == IF k < Len(rows) THEN Min({rows[k + 1].at, end}) ELSE end
           piece(k, from, to, state) ==
               [start |-> from, end |-> to, state |-> state,
                task |-> rows[k].task, explicit |-> rows[k].explicit,
                process |-> rows[k].process, sample |-> rows[k].id]
           unknown(k) ==
               [piece(k, FreshUntil(rows[k], until(k)), until(k), "unknown")
                   EXCEPT !.task = "", !.explicit = FALSE, !.process = ""]
           says(k) == piece(k, rows[k].at, FreshUntil(rows[k], until(k)), rows[k].state)
<1>1. pieces = [k \in 1 .. 2 * n |-> LET j == (k + 1) \div 2 IN
                                     IF k % 2 = 1 THEN says(j) ELSE unknown(j)]
  BY DEF GpuPieces
<1>2. n \in Nat
  BY DEF Sorted
<1>3. says(i).state = rows[i].state /\ unknown(i).state = "unknown"
  OBVIOUS
<1> HIDE DEF says, unknown, pieces
<1>4. /\ 2 * i - 1 \in 1 .. 2 * n /\ 2 * i \in 1 .. 2 * n
      /\ (2 * i - 1 + 1) \div 2 = i /\ (2 * i + 1) \div 2 = i
      /\ (2 * i - 1) % 2 = 1 /\ (2 * i) % 2 = 0
  BY <1>2
<1>5. \A k \in 1 .. 2 * n : pieces[k] = IF k % 2 = 1 THEN says((k + 1) \div 2)
                                       ELSE unknown((k + 1) \div 2)
  BY <1>1
<1>6. pieces[2 * i - 1] = says(i)
  BY <1>4, <1>5
<1>7. pieces[2 * i] = unknown(i)
  BY <1>4, <1>5
<1> QED BY <1>3, <1>6, <1>7 DEF pieces

\* Up to any later moment the pieces of a GPU show its state at an instant.
LEMMA GpuStateShown ==
    ASSUME NEW rows, Sorted(rows), NEW end \in Nat, NEW t \in Nat, t < end,
           NEW st, st # None
    PROVE  SpotIs(GpuPieces(rows, end), t, st) <=> GpuState(rows, t) = st
<1> DEFINE pieces == GpuPieces(rows, end)
           n == Len(rows)
           i == LastAt(rows, t)
           U(k) == SpanEnd(rows, k, end)
           F(k) == SpeaksTo(rows, k, end)
<1>0. i \in 0 .. n /\ \A k \in 1 .. n : rows[k].at <= t <=> k <= i
  BY LastRow
<1>1. /\ n \in Nat /\ i \in 0 .. n
      /\ \A k \in 1 .. n : rows[k].at \in Nat
      /\ \A k \in 1 .. n : rows[k].at <= t <=> k <= i
      /\ SampleGap \in Nat
  <2> HIDE DEF i
  <2> QED BY <1>0, LimitsAssumption DEF Sorted
<1>2. /\ Pieces(pieces) /\ Len(pieces) = 2 * n /\ n \in Nat
      /\ \A k \in 1 .. n : U(k) \in Int /\ F(k) \in Int
      /\ \A k \in 1 .. n :
            /\ 2 * k - 1 \in 1 .. 2 * n /\ 2 * k \in 1 .. 2 * n
            /\ pieces[2 * k - 1].start = rows[k].at
            /\ pieces[2 * k - 1].end = F(k)
            /\ pieces[2 * k].start = F(k)
            /\ pieces[2 * k].end = U(k)
      /\ \A j \in 1 .. 2 * n : \E k \in 1 .. n : j = 2 * k - 1 \/ j = 2 * k
  <2>1. end \in Int
    OBVIOUS
  <2> QED BY <2>1, GpuList
<1>3. \A k \in 1 .. n : pieces[2 * k - 1].state = rows[k].state /\ pieces[2 * k].state = "unknown"
  BY GpuStates
<1>4. ASSUME NEW k \in 1 .. n
      PROVE  /\ t < U(k) <=> i <= k
             /\ t < F(k) <=> t < rows[k].at + SampleGap /\ t < U(k)
  <2>1. rows[k].at + SampleGap \in Int /\ U(k) \in Int
    <3>1. U(k) \in Int
      BY <1>2
    <3>2. rows[k].at \in Nat /\ SampleGap \in Nat
      BY <1>1
    <3> HIDE DEF U
    <3> QED BY <3>1, <3>2
  <2>2. t < F(k) <=> t < rows[k].at + SampleGap /\ t < U(k)
    <3>1. F(k) = MinOf(rows[k].at + SampleGap, U(k))
      BY DEF SpeaksTo
    <3> HIDE DEF U, F, pieces
    <3> QED BY <2>1, <3>1 DEF MinOf
  <2>3. CASE k < n
    <3>1. k + 1 \in 1 .. n /\ U(k) = MinOf(rows[k + 1].at, end) /\ rows[k + 1].at \in Nat
      BY <1>1, <2>3 DEF SpanEnd
    <3>2. t < U(k) <=> t < rows[k + 1].at
      BY <3>1 DEF MinOf
    <3>3. t < rows[k + 1].at <=> ~(k + 1 <= i)
      BY <1>1, <3>1
    <3> HIDE DEF U, F, i
    <3> QED BY <1>1, <2>2, <3>2, <3>3
  <2>4. CASE k = n
    <3>1. U(k) = end
      BY <1>1, <2>4 DEF SpanEnd
    <3> QED BY <1>1, <2>2, <2>4, <3>1
  <2>5. k < n \/ k = n
    BY <1>1
  <2> QED BY <2>3, <2>4, <2>5
<1> HIDE DEF U, F, pieces, i, n
<1>5. ASSUME NEW k \in 1 .. n
      PROVE  /\ Covers(pieces[2 * k - 1], t) <=> k = i /\ t < rows[k].at + SampleGap
             /\ Covers(pieces[2 * k], t) <=> k = i /\ t >= rows[k].at + SampleGap
  <2>1. Covers(pieces[2 * k - 1], t) <=> rows[k].at <= t /\ t < F(k)
    BY <1>2 DEF Covers
  <2>2. Covers(pieces[2 * k], t) <=> F(k) <= t /\ t < U(k)
    BY <1>2 DEF Covers
  <2>3. F(k) \in Int /\ rows[k].at \in Nat /\ rows[k].at + SampleGap \in Int
    BY <1>1, <1>2
  <2>4. F(k) <= t <=> ~(t < F(k))
    BY <2>3
  <2>5. rows[k].at <= t <=> k <= i
    BY <1>1
  <2>6. t >= rows[k].at + SampleGap => rows[k].at <= t
    BY <1>1, <2>3
  <2>7. t >= rows[k].at + SampleGap <=> ~(t < rows[k].at + SampleGap)
    BY <2>3
  <2>8. k <= i /\ i <= k <=> k = i
    BY <1>1
  <2> QED BY <1>4, <2>1, <2>2, <2>4, <2>5, <2>6, <2>7, <2>8
<1>6. GpuState(rows, t) = IF i = 0 THEN None
                          ELSE IF t >= rows[i].at + SampleGap THEN "unknown" ELSE rows[i].state
  BY DEF GpuState, i
<1>7. ASSUME SpotIs(pieces, t, st)
      PROVE  GpuState(rows, t) = st
  <2>1. PICK j \in 1 .. Len(pieces) : Covers(pieces[j], t) /\ pieces[j].state = st
    BY <1>7 DEF SpotIs
  <2>2. PICK k \in 1 .. n : j = 2 * k - 1 \/ j = 2 * k
    BY <1>2
  <2>3. k # 0
    BY <1>1
  <2>4. CASE j = 2 * k - 1
    <3>1. k = i /\ t < rows[k].at + SampleGap /\ rows[k].state = st
      BY <1>3, <1>5, <2>1, <2>4
    <3>2. ~(t >= rows[k].at + SampleGap)
      BY <1>1, <3>1
    <3> QED BY <1>6, <2>3, <3>1, <3>2
  <2>5. CASE j = 2 * k
    <3>1. k = i /\ t >= rows[k].at + SampleGap /\ "unknown" = st
      BY <1>3, <1>5, <2>1, <2>5
    <3> QED BY <1>6, <2>3, <3>1
  <2> QED BY <2>2, <2>4, <2>5
<1>8. ASSUME GpuState(rows, t) = st
      PROVE  SpotIs(pieces, t, st)
  <2>1. i # 0
    BY <1>6, <1>8
  <2>2. i \in 1 .. n
    BY <1>1, <2>1
  <2>3. CASE t >= rows[i].at + SampleGap
    <3>1. Covers(pieces[2 * i], t) /\ pieces[2 * i].state = st /\ 2 * i \in 1 .. Len(pieces)
      BY <1>2, <1>3, <1>5, <1>6, <1>8, <2>1, <2>2, <2>3
    <3> QED BY <3>1 DEF SpotIs
  <2>4. CASE ~(t >= rows[i].at + SampleGap)
    <3>1. t < rows[i].at + SampleGap
      BY <1>1, <2>2, <2>4
    <3>2. /\ Covers(pieces[2 * i - 1], t) /\ pieces[2 * i - 1].state = st
          /\ 2 * i - 1 \in 1 .. Len(pieces)
      BY <1>2, <1>3, <1>5, <1>6, <1>8, <2>1, <2>2, <2>4, <3>1
    <3> QED BY <3>2 DEF SpotIs
  <2> QED BY <2>3, <2>4
<1> QED BY <1>7, <1>8 DEF pieces

\* What a larger day ends and begins with.
LEMMA Multiples ==
    ASSUME NEW L \in Nat \ {0}, NEW d \in Nat, NEW e \in Nat, d < e
    PROVE  (d + 1) * L <= e * L
<1>1. PICK n \in Nat : e = d + 1 + n
  <2>1. e - d - 1 \in Nat /\ e = d + 1 + (e - d - 1)
    OBVIOUS
  <2> QED BY <2>1
<1>2. n * L \in Nat /\ (d + 1) * L \in Nat
  OBVIOUS
<1>3. e * L = (d + 1) * L + n * L
  BY <1>1
<1> QED BY <1>2, <1>3

\* A number is between two multiples.
LEMMA Quotient ==
    ASSUME NEW L \in Nat \ {0}, NEW t \in Nat
    PROVE  t \div L \in Nat /\ (t \div L) * L <= t /\ t < (t \div L + 1) * L
<1>1. PICK q \in Int : q = t \div L /\ L * q <= t /\ t < L * q + L
  OBVIOUS
<1>2. q * L <= t
  BY <1>1
<1>3. t < (q + 1) * L
  BY <1>1
<1>4. q \in Nat
  BY <1>3
<1> QED BY <1>1, <1>2, <1>3, <1>4

\* The instants of a day so far.
InDay(day) == {t \in 0 .. now - 1 : Within(WindowOf(day, now), t)}

\* The window of a day that has begun.
LEMMA DayBounds ==
    ASSUME Types, NEW day \in Days
    PROVE  LET window == WindowOf(day, now) IN
           /\ Window(window) /\ window.start \in Nat /\ window.end \in Nat /\ window.end <= now
           /\ \A t \in Int : Within(window, t) <=> /\ t \in 0 .. now - 1
                                                  /\ day * DayLength <= t
                                                  /\ t < (day + 1) * DayLength
           /\ \A t \in Int : t \in InDay(day) <=> Within(window, t)
           /\ IsFiniteSet(InDay(day))
<1> DEFINE s == day * DayLength
           e == (day + 1) * DayLength
           window == WindowOf(day, now)
<1>1. now \in Nat /\ day \in Nat /\ DayLength \in Nat
  BY LimitsAssumption DEF Types, Days
<1>2. s \in Nat /\ e \in Nat
  BY <1>1
<1> HIDE DEF s, e
<1>3. Window(window)
  BY <1>1, DayWindow
<1>4. window = [start |-> s, end |-> Min({e, now})] /\ Min({e, now}) = MinOf(e, now)
  BY <1>1, <1>2, MinMaxOfTwo DEF WindowOf, s, e
<1>5. window.start = s /\ window.end = MinOf(e, now)
  <2>1. PICK m : m = Min({e, now})
    OBVIOUS
  <2>2. window = [start |-> s, end |-> m] /\ m = MinOf(e, now)
    BY <1>4, <2>1
  <2> HIDE DEF window
  <2> QED BY <2>2
<1> HIDE DEF window
<1>6. window.start \in Nat /\ window.end \in Nat /\ window.end <= now
  BY <1>1, <1>2, <1>5 DEF MinOf
<1>7. \A t \in Int : Within(window, t) <=> t \in 0 .. now - 1 /\ s <= t /\ t < e
  BY <1>1, <1>2, <1>5 DEF Within, MinOf
<1>8. \A t \in Int : t \in InDay(day) <=> Within(window, t)
  <2>1. \A t : t \in InDay(day) <=> t \in 0 .. now - 1 /\ Within(window, t)
    BY DEF InDay, window
  <2> QED BY <1>1, <1>7, <2>1
<1>9. IsFiniteSet(InDay(day))
  <2>1. IsFiniteSet(0 .. now - 1)
    BY <1>1, FS_Interval
  <2>2. InDay(day) \in SUBSET (0 .. now - 1)
    BY DEF InDay
  <2> QED BY <2>1, <2>2, FS_Subset
<1> QED BY <1>3, <1>6, <1>7, <1>8, <1>9 DEF window, s, e

\* Every instant so far is in one day.
LEMMA DaysDivide ==
    ASSUME Types
    PROVE  /\ IsFiniteSet(Days)
           /\ \A t \in 0 .. now - 1 : \E day \in Days : t \in InDay(day)
           /\ \A day, other \in Days : day # other => InDay(day) \cap InDay(other) = {}
<1> DEFINE L == DayLength
<1>1. now \in Nat /\ L \in Nat \ {0}
  BY LimitsAssumption DEF Types
<1>2. now \div L \in Nat /\ now < (now \div L + 1) * L
  BY <1>1, Quotient
<1>3. IsFiniteSet(Days)
  <2>1. now \div L \in Int
    BY <1>2
  <2> DEFINE last == now \div L
  <2>2. Days = 0 .. last
    BY DEF Days
  <2> HIDE DEF last
  <2>3. last \in Int
    BY <2>1 DEF last
  <2> QED BY <2>2, <2>3, FS_Interval
<1>4. ASSUME NEW t \in 0 .. now - 1
      PROVE  \E day \in Days : t \in InDay(day)
  <2>1. t \in Nat /\ t < now
    BY <1>1
  <2>2. t \div L \in Nat /\ (t \div L) * L <= t /\ t < (t \div L + 1) * L
    BY <1>1, <2>1, Quotient
  <2>3. PICK d \in Nat : d = t \div L /\ d * L <= t /\ t < (d + 1) * L
    BY <2>2
  <2>4. PICK e \in Nat : e = now \div L /\ now < (e + 1) * L
    BY <1>2
  <2>5. d \in Days
    <3>1. d <= e
      <4>1. ASSUME e < d PROVE FALSE
        <5>1. (e + 1) * L <= d * L
          BY <1>1, <4>1, Multiples
        <5>2. d * L \in Nat /\ (e + 1) * L \in Nat
          BY <1>1
        <5> QED BY <1>1, <2>1, <2>3, <2>4, <5>1, <5>2
      <4> QED BY <4>1
    <3>2. Days = 0 .. e
      BY <2>4 DEF Days
    <3> QED BY <3>1, <3>2
  <2>6. t \in InDay(d)
    BY <2>1, <2>3, <2>5, DayBounds
  <2> QED BY <2>5, <2>6
<1>5. ASSUME NEW d \in Days, NEW e \in Days, d < e, NEW t \in InDay(d), t \in InDay(e)
      PROVE  FALSE
  <2>1. d \in Nat /\ e \in Nat /\ t \in Int
    BY <1>1 DEF Days, InDay
  <2>2. t < (d + 1) * L /\ e * L <= t
    BY <1>5, <2>1, DayBounds
  <2>3. (d + 1) * L <= e * L
    BY <1>1, <1>5, <2>1, Multiples
  <2>4. (d + 1) * L \in Int /\ e * L \in Int
    BY <1>1, <2>1
  <2> HIDE DEF L
  <2> QED BY <2>1, <2>2, <2>3, <2>4
<1>6. ASSUME NEW d \in Days, NEW e \in Days, d # e
      PROVE  InDay(d) \cap InDay(e) = {}
  <2>1. d < e \/ e < d
    BY <1>6 DEF Days
  <2> QED BY <1>5, <2>1
<1> QED BY <1>3, <1>4, <1>6

-----------------------------------------------------------------------------
(* What the lanes of a day count *)

\* The lanes of a day show the state of a session at the instants of that day.
LEMMA CodexOfDay ==
    ASSUME Types, NEW day \in Days, NEW st, st # None
    PROVE  LET lanes == CodexLanes(events, overrides, None, WindowOf(day, now), now) IN
           /\ DOMAIN lanes = {e.session : e \in events}
           /\ \A s \in DOMAIN lanes :
                 /\ Tidy(lanes[s], WindowOf(day, now))
                 /\ \A t \in Int : SpotIs(lanes[s], t, st)
                       <=> t \in InDay(day) /\ SessionState(EventsOf(s), t) = st
<1> DEFINE window == WindowOf(day, now)
           lanes == CodexLanes(events, overrides, None, window, now)
           chosen == {e \in events : None \in {None, e.project}}
<1>1. chosen = events
  OBVIOUS
<1>2. lanes = [s \in {e.session : e \in chosen} |->
                  Clipped(CodexPieces(Ordered(RowsRead(chosen, s, now)), window.end), window)]
  BY DEF CodexLanes, RowsRead, ReadEvent
<1>3. /\ Window(window) /\ window.start \in Nat /\ window.end \in Nat /\ window.end <= now
      /\ \A t \in Int : t \in InDay(day) <=> Within(window, t)
      /\ \A t \in Int : Within(window, t) => t \in Nat /\ t < window.end
  <2>1. /\ Window(window) /\ window.start \in Nat /\ window.end \in Nat /\ window.end <= now
        /\ \A t \in Int : t \in InDay(day) <=> Within(window, t)
    BY DayBounds
  <2> HIDE DEF window
  <2> QED BY <2>1 DEF Within
<1> HIDE DEF lanes, chosen, window
<1>4. lanes = [s \in {e.session : e \in events} |->
                  Clipped(CodexPieces(Ordered(RowsRead(events, s, now)), window.end), window)]
  BY <1>1, <1>2
<1>5. ASSUME NEW s \in DOMAIN lanes
      PROVE  /\ Tidy(lanes[s], window)
             /\ \A t \in Int : SpotIs(lanes[s], t, st)
                   <=> t \in InDay(day) /\ SessionState(EventsOf(s), t) = st
  <2> DEFINE rows == Ordered(RowsRead(events, s, now))
             pieces == CodexPieces(rows, window.end)
             c == Clipped(pieces, window)
  <2>1. s \in {e.session : e \in events} /\ events \in SUBSET events
    BY <1>4
  <2>2. Sorted(rows) /\ Len(rows) > 0 /\ window.end \in Int
    BY <1>3, <2>1, SessionHasRows
  <2>3. lanes[s] = c
    BY <1>4, <2>1
  <2>4. EventsOf(s) = rows
    BY DEF EventsOf, RowsRead, ReadEvent, Read, SessionRows
  <2> HIDE DEF rows
  <2>5. Pieces(pieces) /\ InTurn(pieces) /\ Stated(pieces)
    BY <2>2, CodexStates
  <2>6. \A t \in Int : Within(window, t) =>
            (SpotIs(pieces, t, st) <=> SessionState(rows, t) = st)
    <3> SUFFICES ASSUME NEW t \in Int, Within(window, t)
                 PROVE  SpotIs(pieces, t, st) <=> SessionState(rows, t) = st
      OBVIOUS
    <3>1. t \in Nat /\ t < window.end
      BY <1>3
    <3> QED BY <1>3, <2>2, <3>1, CodexState
  <2> HIDE DEF pieces
  <2>7. Tidy(c, window)
    BY <1>3, <2>5, ClippedTidy
  <2>8. \A t \in Int : SpotIs(c, t, st) <=> SpotIs(pieces, t, st) /\ Within(window, t)
    BY <1>3, <2>5, ClippedSpots
  <2> HIDE DEF c
  <2> QED BY <1>3, <2>3, <2>4, <2>6, <2>7, <2>8
<1>6. DOMAIN lanes = {e.session : e \in events}
  BY <1>4
<1> QED BY <1>5, <1>6 DEF lanes, window

\* And those of a GPU.
LEMMA GpuOfDay ==
    ASSUME Types, NEW day \in Days, NEW st, st # None
    PROVE  LET lanes == GpuLanes(samples, overrides, WindowOf(day, now), now) IN
           /\ DOMAIN lanes = {s.lane : s \in samples}
           /\ \A l \in DOMAIN lanes :
                 /\ Tidy(lanes[l], WindowOf(day, now))
                 /\ \A t \in Int : SpotIs(lanes[l], t, st)
                       <=> t \in InDay(day) /\ GpuState(SamplesOf(l), t) = st
<1> DEFINE window == WindowOf(day, now)
           lanes == GpuLanes(samples, overrides, window, now)
<1>2. lanes = [l \in {s.lane : s \in samples} |->
                  Clipped(GpuPieces(Ordered(SamplesRead(l, now)), window.end), window)]
  BY DEF GpuLanes, SamplesRead, ReadSample
<1>3. /\ Window(window) /\ window.start \in Nat /\ window.end \in Nat /\ window.end <= now
      /\ \A t \in Int : t \in InDay(day) <=> Within(window, t)
      /\ \A t \in Int : Within(window, t) => t \in Nat /\ t < window.end
  <2>1. /\ Window(window) /\ window.start \in Nat /\ window.end \in Nat /\ window.end <= now
        /\ \A t \in Int : t \in InDay(day) <=> Within(window, t)
    BY DayBounds
  <2> HIDE DEF window
  <2> QED BY <2>1 DEF Within
<1> HIDE DEF lanes, window
<1>5. ASSUME NEW l \in DOMAIN lanes
      PROVE  /\ Tidy(lanes[l], window)
             /\ \A t \in Int : SpotIs(lanes[l], t, st)
                   <=> t \in InDay(day) /\ GpuState(SamplesOf(l), t) = st
  <2> DEFINE rows == Ordered(SamplesRead(l, now))
             pieces == GpuPieces(rows, window.end)
             c == Clipped(pieces, window)
  <2>2. Sorted(rows) /\ window.end \in Int
    BY <1>3, SamplesAreRead
  <2>3. lanes[l] = c
    BY <1>2
  <2>4. SamplesOf(l) = rows
    BY DEF SamplesOf, SamplesRead, ReadSample, Read
  <2> HIDE DEF rows
  <2>5. Pieces(pieces) /\ InTurn(pieces) /\ Stated(pieces)
    BY <2>2, GpuList, GpuInTurn, GpuStated
  <2>6. \A t \in Int : Within(window, t) =>
            (SpotIs(pieces, t, st) <=> GpuState(rows, t) = st)
    <3> SUFFICES ASSUME NEW t \in Int, Within(window, t)
                 PROVE  SpotIs(pieces, t, st) <=> GpuState(rows, t) = st
      OBVIOUS
    <3>1. t \in Nat /\ t < window.end
      BY <1>3
    <3> QED BY <1>3, <2>2, <3>1, GpuStateShown
  <2> HIDE DEF pieces
  <2>7. Tidy(c, window)
    BY <1>3, <2>5, ClippedTidy
  <2>8. \A t \in Int : SpotIs(c, t, st) <=> SpotIs(pieces, t, st) /\ Within(window, t)
    BY <1>3, <2>5, ClippedSpots
  <2> HIDE DEF c
  <2> QED BY <1>3, <2>3, <2>4, <2>6, <2>7, <2>8
<1>6. DOMAIN lanes = {s.lane : s \in samples}
  BY <1>2
<1> QED BY <1>5, <1>6 DEF lanes, window

\* The pairs of a lane and an instant at which it shows a state.
LaneSpots(lanes, st) == UNION {{<<l, t>> : t \in Spots(lanes[l], st)} : l \in DOMAIN lanes}

\* The time of all lanes in a state is the number of those pairs.
LEMMA TotalCounts ==
    ASSUME NEW lanes, IsFiniteSet(DOMAIN lanes), NEW window,
           \A l \in DOMAIN lanes : Tidy(lanes[l], window), NEW st
    PROVE  /\ IsFiniteSet(LaneSpots(lanes, st))
           /\ Total(lanes, {st}) = Cardinality(LaneSpots(lanes, st))
<1> DEFINE D == DOMAIN lanes
           F == [l \in D |-> {<<l, t>> : t \in Spots(lanes[l], st)}]
           counts == [l \in D |-> Cardinality(F[l])]
           times == [l \in D |-> Seconds(lanes[l], {st})]
           all == UNION {F[l] : l \in D}
<1>1. ASSUME NEW l \in D
      PROVE  /\ IsFiniteSet(F[l])
             /\ counts[l] = times[l] /\ times[l] = Seconds(lanes[l], {st})
             /\ Seconds(lanes[l], {st}) \in Int
  <2> DEFINE spots == Spots(lanes[l], st)
  <2>1. IsFiniteSet(spots) /\ Seconds(lanes[l], {st}) = Cardinality(spots)
    BY TidyCount
  <2>2. Cardinality(spots) \in Nat
    BY <2>1, FS_CardinalityType
  <2>3. F[l] = {<<l, t>> : t \in spots} /\ counts[l] = Cardinality(F[l])
        /\ times[l] = Seconds(lanes[l], {st})
    OBVIOUS
  <2> HIDE DEF F, counts, times, spots
  <2>4. IsFiniteSet(F[l]) /\ Cardinality(F[l]) = Cardinality(spots)
    BY <2>1, <2>3, CountRow
  <2> QED BY <2>1, <2>2, <2>3, <2>4
<1>2. ASSUME NEW l \in D, NEW m \in D, l # m
      PROVE  F[l] \cap F[m] = {}
  <2>1. (\A p \in F[l] : p[1] = l) /\ (\A p \in F[m] : p[1] = m)
    OBVIOUS
  <2> HIDE DEF F
  <2> QED BY <1>2, <2>1
<1>3. all = LaneSpots(lanes, st)
  BY DEF LaneSpots
<1> HIDE DEF F
<1>4. IsFiniteSet(all) /\ Cardinality(all) = SumOf(D, counts)
  <2>1. /\ IsFiniteSet(D) /\ \A l \in D : IsFiniteSet(F[l])
        /\ \A l, m \in D : l # m => F[l] \cap F[m] = {}
    BY <1>1, <1>2
  <2> HIDE DEF D
  <2> QED BY <2>1, CountsAddUp, SMTT(30)
<1>5. Total(lanes, {st}) = SumOf(D, times)
  BY <1>1, TotalAddsUp
<1>6. SumOf(D, counts) = SumOf(D, times)
  <2>1. \A l \in D : counts[l] \in Int /\ counts[l] = times[l]
    BY <1>1
  <2> HIDE DEF counts, times, D
  <2>2. IsFiniteSet(D)
    BY DEF D
  <2> QED BY <2>1, <2>2, SumAgrees
<1> QED BY <1>3, <1>4, <1>5, <1>6

-----------------------------------------------------------------------------
(* The totals of all days *)

\* What the reports of all days say of a field, added up.
SumOfDays(field) == MapThenSumSet(LAMBDA day : Day(day)[field], Days)

\* It is the sum of what they say.
LEMMA DaysAddUp ==
    ASSUME IsFiniteSet(Days), NEW field, NEW g, \A day \in Days : Day(day)[field] = g[day] /\ g[day] \in Int
    PROVE  SumOfDays(field) = SumOf(Days, g)
<1> DEFINE C == Days
           Rec(it) == it = [T \in SUBSET C |->
                              IF T = {} THEN 0
                              ELSE Day(CHOOSE x \in T : TRUE)[field]
                                   + it[T \ {CHOOSE x \in T : TRUE}]]
           v == CHOOSE it : Rec(it)
<1>1. SumOfDays(field) = v[C]
  BY DEF SumOfDays, MapThenSumSet, MapThenFoldSet
<1> HIDE DEF C
<1>2. IsFiniteSet(C) /\ \A x \in C : g[x] \in Int
  BY DEF C
<1>3. \A it : Rec(it) <=> Iterated(C, g, it)
  <2>1. \A T \in SUBSET C : T # {} => (CHOOSE x \in T : TRUE) \in C
    OBVIOUS
  <2>2. \A T \in SUBSET C : T # {} =>
            g[CHOOSE x \in T : TRUE] = Day(CHOOSE x \in T : TRUE)[field]
    BY <2>1 DEF C
  <2> QED BY <2>2, ZenonT(90) DEF Iterated
<1>4. (\E it : Iterated(C, g, it)) /\ \A it : Iterated(C, g, it) => it[C] = SumOf(C, g)
  BY <1>2, IterationSums
<1>5. Rec(v)
  <2> HIDE DEF Rec
  <2>1. \E it : Rec(it)
    BY <1>3, <1>4
  <2> QED BY <2>1
<1> HIDE DEF v, Rec
<1>6. v[C] = SumOf(C, g)
  BY <1>3, <1>4, <1>5
<1> QED BY <1>1, <1>6 DEF C

\* F is what a field of the report counts, day by day.
Counted(field, F) ==
    /\ \A day \in Days : IsFiniteSet(F[day]) /\ Day(day)[field] = Cardinality(F[day])
    /\ \A day, other \in Days : day # other => F[day] \cap F[other] = {}

\* What the days count apart they count together.
LEMMA FieldCounts ==
    ASSUME Types, NEW field, NEW F, Counted(field, F)
    PROVE  SumOfDays(field) = Cardinality(UNION {F[day] : day \in Days})
<1> DEFINE D == Days
           counts == [day \in D |-> Cardinality(F[day])]
<1>1. IsFiniteSet(D)
  BY DaysDivide
<1>2. \A day \in D : Day(day)[field] = counts[day]
  BY DEF Counted
<1>3. /\ IsFiniteSet(D) /\ \A day \in D : IsFiniteSet(F[day])
      /\ \A day, other \in D : day # other => F[day] \cap F[other] = {}
  BY <1>1 DEF Counted
<1> HIDE DEF D
<1>4. /\ \A day \in D : counts[day] \in Int
      /\ Cardinality(UNION {F[day] : day \in D}) = SumOf(D, counts)
  BY <1>3, CountsAddUp
<1> HIDE DEF counts
<1>5. SumOfDays(field) = SumOf(Days, counts)
  BY <1>1, <1>2, <1>4, DaysAddUp DEF D
<1> QED BY <1>4, <1>5 DEF D

\* The sessions and instants of a day at which they are in a state, and those of
\* the GPUs.
SessionSpots(day, st) ==
    {p \in scene.sessions \X InDay(day) : SessionState(EventsOf(p[1]), p[2]) = st}
GpuSpots(day, st) ==
    {p \in scene.lanes \X InDay(day) : GpuState(SamplesOf(p[1]), p[2]) = st}

\* Nothing is known of a session without rows, nor of a GPU without samples.
LEMMA WithoutRows ==
    ASSUME Types, NEW t \in Nat
    PROVE  /\ \A s : s \notin {e.session : e \in events} => SessionState(EventsOf(s), t) = None
           /\ \A l : l \notin {s.lane : s \in samples} => GpuState(SamplesOf(l), t) = None
<1>1. ASSUME NEW s, s \notin {e.session : e \in events}
      PROVE  SessionState(EventsOf(s), t) = None
  <2>1. events \in SUBSET events
    OBVIOUS
  <2>2. LastAt(Ordered(RowsRead(events, s, now)), t) = 0
    BY <1>1, <2>1, SessionWithoutRows
  <2>3. EventsOf(s) = Ordered(RowsRead(events, s, now))
    BY DEF EventsOf, RowsRead, ReadEvent, Read, SessionRows
  <2> QED BY <2>2, <2>3 DEF SessionState
<1>2. ASSUME NEW l, l \notin {s.lane : s \in samples}
      PROVE  GpuState(SamplesOf(l), t) = None
  <2>1. SamplesRead(l, now) = {}
    BY <1>2 DEF SamplesRead
  <2>2. Distinct({})
    BY FS_EmptySet DEF Distinct
  <2>3. Len(Ordered({})) = 0 /\ Sorted(Ordered({}))
    BY <2>2, RowsInOrder, OrderedSorted, FS_EmptySet
  <2>4. LastAt(Ordered({}), t) \in 0 .. Len(Ordered({}))
    BY <2>3, LastRow
  <2>5. SamplesOf(l) = Ordered({})
    BY <2>1 DEF SamplesOf, SamplesRead, ReadSample, Read
  <2> QED BY <2>3, <2>4, <2>5 DEF GpuState
<1> QED BY <1>1, <1>2

\* The total of a state is what those who look count of the day.
LEMMA SessionTotal ==
    ASSUME Types, NEW day \in Days, NEW st, st # None
    PROVE  LET lanes == CodexLanes(events, overrides, None, WindowOf(day, now), now) IN
           /\ IsFiniteSet(SessionSpots(day, st))
           /\ Total(lanes, {st}) = Cardinality(SessionSpots(day, st))
<1> DEFINE lanes == CodexLanes(events, overrides, None, WindowOf(day, now), now)
<1>1. /\ DOMAIN lanes = {e.session : e \in events}
      /\ \A s \in DOMAIN lanes :
            /\ Tidy(lanes[s], WindowOf(day, now))
            /\ \A t \in Int : SpotIs(lanes[s], t, st)
                  <=> t \in InDay(day) /\ SessionState(EventsOf(s), t) = st
  BY CodexOfDay
<1> HIDE DEF lanes
<1>2. IsFiniteSet(DOMAIN lanes)
  <2> DEFINE f == [e \in events |-> e.session]
  <2>1. DOMAIN lanes = {f[e] : e \in events}
    BY <1>1
  <2> HIDE DEF f
  <2> QED BY <2>1, FiniteImage DEF Types
<1>3. /\ \A t \in InDay(day) : t \in Int /\ t \in Nat
      /\ \A e \in events : e.session \in scene.sessions
  BY DEF InDay, Types, EventRow
<1>4. ASSUME NEW p \in LaneSpots(lanes, st)
      PROVE  p \in SessionSpots(day, st)
  <2>1. PICK s \in DOMAIN lanes : \E t \in Spots(lanes[s], st) : p = <<s, t>>
    BY DEF LaneSpots
  <2>2. PICK t \in Spots(lanes[s], st) : p = <<s, t>>
    BY <2>1
  <2>3. t \in Int /\ SpotIs(lanes[s], t, st)
    BY DEF Spots
  <2>4. t \in InDay(day) /\ SessionState(EventsOf(s), t) = st
    BY <1>1, <2>3
  <2>5. s \in scene.sessions
    BY <1>1, <1>3
  <2> QED BY <2>2, <2>4, <2>5 DEF SessionSpots
<1>5. ASSUME NEW p \in SessionSpots(day, st)
      PROVE  p \in LaneSpots(lanes, st)
  <2>1. PICK s \in scene.sessions, t \in InDay(day) :
           p = <<s, t>> /\ SessionState(EventsOf(s), t) = st
    BY DEF SessionSpots
  <2>2. s \in {e.session : e \in events}
    BY <1>3, <2>1, WithoutRows
  <2>3. t \in Spots(lanes[s], st) /\ s \in DOMAIN lanes
    BY <1>1, <1>3, <2>1, <2>2 DEF Spots
  <2> QED BY <2>1, <2>3 DEF LaneSpots
<1>6. LaneSpots(lanes, st) = SessionSpots(day, st)
  BY <1>4, <1>5
<1> QED BY <1>1, <1>2, <1>6, TotalCounts DEF lanes

\* So is that of the GPUs.
LEMMA GpuTotal ==
    ASSUME Types, NEW day \in Days, NEW st, st # None
    PROVE  LET lanes == GpuLanes(samples, overrides, WindowOf(day, now), now) IN
           /\ IsFiniteSet(GpuSpots(day, st))
           /\ Total(lanes, {st}) = Cardinality(GpuSpots(day, st))
<1> DEFINE lanes == GpuLanes(samples, overrides, WindowOf(day, now), now)
<1>1. /\ DOMAIN lanes = {s.lane : s \in samples}
      /\ \A l \in DOMAIN lanes :
            /\ Tidy(lanes[l], WindowOf(day, now))
            /\ \A t \in Int : SpotIs(lanes[l], t, st)
                  <=> t \in InDay(day) /\ GpuState(SamplesOf(l), t) = st
  BY GpuOfDay
<1> HIDE DEF lanes
<1>2. IsFiniteSet(DOMAIN lanes)
  <2> DEFINE f == [s \in samples |-> s.lane]
  <2>1. DOMAIN lanes = {f[s] : s \in samples}
    BY <1>1
  <2> HIDE DEF f
  <2> QED BY <2>1, FiniteImage DEF Types
<1>3. /\ \A t \in InDay(day) : t \in Int /\ t \in Nat
      /\ \A s \in samples : s.lane \in scene.lanes
  BY DEF InDay, Types, SampleRow
<1>4. ASSUME NEW p \in LaneSpots(lanes, st)
      PROVE  p \in GpuSpots(day, st)
  <2>1. PICK l \in DOMAIN lanes : \E t \in Spots(lanes[l], st) : p = <<l, t>>
    BY DEF LaneSpots
  <2>2. PICK t \in Spots(lanes[l], st) : p = <<l, t>>
    BY <2>1
  <2>3. t \in Int /\ SpotIs(lanes[l], t, st)
    BY DEF Spots
  <2>4. t \in InDay(day) /\ GpuState(SamplesOf(l), t) = st
    BY <1>1, <2>3
  <2>5. l \in scene.lanes
    BY <1>1, <1>3
  <2> QED BY <2>2, <2>4, <2>5 DEF GpuSpots
<1>5. ASSUME NEW p \in GpuSpots(day, st)
      PROVE  p \in LaneSpots(lanes, st)
  <2>1. PICK l \in scene.lanes, t \in InDay(day) :
           p = <<l, t>> /\ GpuState(SamplesOf(l), t) = st
    BY DEF GpuSpots
  <2>2. l \in {s.lane : s \in samples}
    BY <1>3, <2>1, WithoutRows
  <2>3. t \in Spots(lanes[l], st) /\ l \in DOMAIN lanes
    BY <1>1, <1>3, <2>1, <2>2 DEF Spots
  <2> QED BY <2>1, <2>3 DEF LaneSpots
<1>6. LaneSpots(lanes, st) = GpuSpots(day, st)
  BY <1>4, <1>5
<1> QED BY <1>1, <1>2, <1>6, TotalCounts DEF lanes

\* A field of every day's report is the total of a state, of sessions.
SessionField(field, st) ==
    \A day \in Days :
        Day(day)[field] = Total(CodexLanes(events, overrides, None, WindowOf(day, now), now), {st})

\* Over the days the totals of sessions add up to all their instants.
LEMMA SessionDays ==
    ASSUME Types, NEW field, NEW st, st # None, SessionField(field, st)
    PROVE  SumOfDays(field) = SessionSeconds(st)
<1> DEFINE F == [day \in Days |-> SessionSpots(day, st)]
           all == UNION {F[day] : day \in Days}
<1>1. \A day \in Days : IsFiniteSet(F[day]) /\ Day(day)[field] = Cardinality(F[day])
  BY SessionTotal DEF SessionField
<1>2. /\ \A t \in 0 .. now - 1 : \E day \in Days : t \in InDay(day)
      /\ \A day, other \in Days : day # other => InDay(day) \cap InDay(other) = {}
  BY DaysDivide
<1>3. ASSUME NEW day \in Days, NEW other \in Days, day # other
      PROVE  F[day] \cap F[other] = {}
  <2>1. (\A p \in F[day] : p[2] \in InDay(day)) /\ (\A p \in F[other] : p[2] \in InDay(other))
    BY DEF SessionSpots
  <2> HIDE DEF F
  <2> QED BY <1>2, <1>3, <2>1
<1>4. all = {p \in scene.sessions \X (0 .. now - 1) : SessionState(EventsOf(p[1]), p[2]) = st}
  <2>1. ASSUME NEW p \in all
        PROVE  p \in {q \in scene.sessions \X (0 .. now - 1) : SessionState(EventsOf(q[1]), q[2]) = st}
    <3>1. PICK day \in Days : p \in SessionSpots(day, st)
      OBVIOUS
    <3> QED BY <3>1 DEF SessionSpots, InDay
  <2>2. ASSUME NEW s \in scene.sessions, NEW t \in 0 .. now - 1, SessionState(EventsOf(s), t) = st
        PROVE  <<s, t>> \in all
    <3>1. PICK day \in Days : t \in InDay(day)
      BY <1>2
    <3>2. <<s, t>> \in SessionSpots(day, st)
      BY <2>2, <3>1 DEF SessionSpots
    <3> QED BY <3>2
  <2> HIDE DEF all
  <2> QED BY <2>1, <2>2
<1> HIDE DEF F
<1>5. Counted(field, F)
  BY <1>1, <1>3 DEF Counted
<1>6. SumOfDays(field) = Cardinality(all)
  BY <1>5, FieldCounts
<1> QED BY <1>4, <1>6 DEF SessionSeconds

\* A field of every day's report is the total of a state, of GPUs.
GpuField(field, st) ==
    \A day \in Days :
        Day(day)[field] = Total(GpuLanes(samples, overrides, WindowOf(day, now), now), {st})

\* And those of GPUs.
LEMMA GpuDays ==
    ASSUME Types, NEW field, NEW st, st # None, GpuField(field, st)
    PROVE  SumOfDays(field) = GpuSeconds(st)
<1> DEFINE F == [day \in Days |-> GpuSpots(day, st)]
           all == UNION {F[day] : day \in Days}
<1>1. \A day \in Days : IsFiniteSet(F[day]) /\ Day(day)[field] = Cardinality(F[day])
  BY GpuTotal DEF GpuField
<1>2. /\ \A t \in 0 .. now - 1 : \E day \in Days : t \in InDay(day)
      /\ \A day, other \in Days : day # other => InDay(day) \cap InDay(other) = {}
  BY DaysDivide
<1>3. ASSUME NEW day \in Days, NEW other \in Days, day # other
      PROVE  F[day] \cap F[other] = {}
  <2>1. (\A p \in F[day] : p[2] \in InDay(day)) /\ (\A p \in F[other] : p[2] \in InDay(other))
    BY DEF GpuSpots
  <2> HIDE DEF F
  <2> QED BY <1>2, <1>3, <2>1
<1>4. all = {p \in scene.lanes \X (0 .. now - 1) : GpuState(SamplesOf(p[1]), p[2]) = st}
  <2>1. ASSUME NEW p \in all
        PROVE  p \in {q \in scene.lanes \X (0 .. now - 1) : GpuState(SamplesOf(q[1]), q[2]) = st}
    <3>1. PICK day \in Days : p \in GpuSpots(day, st)
      OBVIOUS
    <3> QED BY <3>1 DEF GpuSpots, InDay
  <2>2. ASSUME NEW l \in scene.lanes, NEW t \in 0 .. now - 1, GpuState(SamplesOf(l), t) = st
        PROVE  <<l, t>> \in all
    <3>1. PICK day \in Days : t \in InDay(day)
      BY <1>2
    <3>2. <<l, t>> \in GpuSpots(day, st)
      BY <2>2, <3>1 DEF GpuSpots
    <3> QED BY <3>2
  <2> HIDE DEF all
  <2> QED BY <2>1, <2>2
<1> HIDE DEF F
<1>5. Counted(field, F)
  BY <1>1, <1>3 DEF Counted
<1>6. SumOfDays(field) = Cardinality(all)
  BY <1>5, FieldCounts
<1> QED BY <1>4, <1>6 DEF GpuSeconds

-----------------------------------------------------------------------------
(* Joined intervals *)

Intervals == {p \in [start : Int, end : Int] : p.start < p.end}

\* Pieces that can be put in time order.
Datable(pieces) ==
    IsFiniteSet(pieces) /\ \A p \in pieces : p.start \in Int /\ p.end \in Int /\ p.start < p.end

\* In time order the starts ascend, and what was covered is.
LEMMA InTimeOrder ==
    ASSUME NEW pieces, Datable(pieces)
    PROVE  LET o == InTime(pieces) IN
           /\ o \in Seq(Intervals)
           /\ \A i, j \in 1 .. Len(o) : i < j => o[i].start <= o[j].start
           /\ \A t \in Int : CoveredBy(o, t) <=> \E p \in pieces : Covers(p, t)
<1> DEFINE S == {[start |-> p.start, end |-> p.end] : p \in pieces}
           B == [p \in S |-> {q \in S : Earlier(q, p)}]
           o == InTime(pieces)
           n == Cardinality(S)
<1>1. S \in SUBSET Intervals
  BY DEF Datable, Intervals
<1>2. IsFiniteSet(S)
  <2> DEFINE f == [p \in pieces |-> [start |-> p.start, end |-> p.end]]
  <2>1. S = {f[p] : p \in pieces} /\ IsFiniteSet(pieces)
    BY DEF Datable
  <2> HIDE DEF f, S
  <2> QED BY <2>1, FiniteImage
<1>3. ASSUME NEW t \in Int
      PROVE  (\E p \in S : Covers(p, t)) <=> \E p \in pieces : Covers(p, t)
  <2>1. ASSUME NEW p \in pieces
        PROVE  /\ [start |-> p.start, end |-> p.end] \in S
               /\ Covers([start |-> p.start, end |-> p.end], t) <=> Covers(p, t)
    BY DEF Covers
  <2>2. \A q \in S : \E p \in pieces : q = [start |-> p.start, end |-> p.end]
    OBVIOUS
  <2> HIDE DEF S
  <2> QED BY <2>1, <2>2
<1>4. /\ o = [i \in 1 .. Cardinality(S) |-> o[i]]
      /\ \A i \in 1 .. Cardinality(S) :
            (\E p \in S : Cardinality(B[p]) = i - 1)
               => o[i] \in S /\ Cardinality(B[o[i]]) = i - 1
  <2>1. o = [i \in 1 .. Cardinality(S) |->
               CHOOSE p \in S : Cardinality({q \in S : Earlier(q, p)}) = i - 1]
    BY DEF InTime
  <2> HIDE DEF o, S
  <2>2. o = [i \in 1 .. Cardinality(S) |-> o[i]]
    <3> DEFINE all == {CHOOSE p \in S : Cardinality({q \in S : Earlier(q, p)}) = i - 1 :
                          i \in 1 .. Cardinality(S)}
    <3>1. o \in [1 .. Cardinality(S) -> all]
      BY <2>1, ZenonT(40)
    <3> HIDE DEF all
    <3> QED BY <3>1
  <2>3. ASSUME NEW i \in 1 .. Cardinality(S), \E p \in S : Cardinality(B[p]) = i - 1
        PROVE  o[i] \in S /\ Cardinality(B[o[i]]) = i - 1
    <3>1. \E p \in S : Cardinality({q \in S : Earlier(q, p)}) = i - 1
      BY <2>3
    <3>2. o[i] = CHOOSE p \in S : Cardinality({q \in S : Earlier(q, p)}) = i - 1
      BY <2>1
    <3> QED BY <3>1, <3>2
  <2> QED BY <2>2, <2>3
<1> HIDE DEF o, S
<1>5. B \in [S -> SUBSET S] /\ \A p, q \in S : p \in B[q] <=> Earlier(p, q)
  OBVIOUS
<1>6. /\ \A p \in S : ~Earlier(p, p)
      /\ \A p, q \in S : p # q => Earlier(p, q) \/ Earlier(q, p)
      /\ \A p, q, r \in S : Earlier(p, q) /\ Earlier(q, r) => Earlier(p, r)
      /\ \A p, q \in S : Earlier(p, q) => p.start <= q.start
  <2>1. ASSUME NEW p \in S, NEW q \in S, p # q
        PROVE  Earlier(p, q) \/ Earlier(q, p)
    <3>1. p \in [start : Int, end : Int] /\ q \in [start : Int, end : Int]
      BY <1>1 DEF Intervals
    <3>2. p.start # q.start \/ p.end # q.end
      BY <2>1, <3>1
    <3> QED BY <3>1, <3>2 DEF Earlier
  <2>2. \A p \in S : p.start \in Int /\ p.end \in Int
    BY <1>1 DEF Intervals
  <2> QED BY <2>1, <2>2 DEF Earlier
<1>7. \A p, q \in S : p \in B[q] => B[p] \subseteq B[q]
  <2> SUFFICES ASSUME NEW p \in S, NEW q \in S, p \in B[q], NEW r \in B[p]
               PROVE  r \in B[q]
    OBVIOUS
  <2>1. r \in S
    BY <1>5
  <2> HIDE DEF B
  <2> QED BY <1>5, <1>6, <2>1
<1> HIDE DEF B
<1>8. /\ \A p \in S : p \notin B[p]
      /\ \A p, q \in S : p # q => p \in B[q] \/ q \in B[p]
  BY <1>5, <1>6
<1>9. /\ n \in Nat
      /\ o \in [1 .. n -> S]
      /\ \A i \in 1 .. n : Cardinality(B[o[i]]) = i - 1
      /\ \A p \in S : /\ Cardinality(B[p]) + 1 \in 1 .. n
                      /\ o[Cardinality(B[p]) + 1] = p
      /\ \A i, j \in 1 .. n : o[i] \in B[o[j]] <=> i < j
  BY <1>2, <1>4, <1>5, <1>7, <1>8, Sorting, ZenonT(40)
<1> HIDE DEF n
<1>10. o \in Seq(Intervals) /\ Len(o) = n
  BY <1>1, <1>9
<1>11. \A i, j \in 1 .. n : i < j => o[i].start <= o[j].start
  BY <1>5, <1>6, <1>9
<1>12. ASSUME NEW t \in Int
       PROVE  CoveredBy(o, t) <=> \E p \in S : Covers(p, t)
  BY <1>9, <1>10 DEF CoveredBy
<1> QED BY <1>3, <1>10, <1>11, <1>12 DEF o

\* Intervals with time between them.
Apart(list) ==
    /\ list \in Seq(Intervals)
    /\ \A i, j \in 1 .. Len(list) : i < j => list[i].end < list[j].start

\* An interval that does not start before the last is added, or joined to it.
LEMMA AddedInterval ==
    ASSUME NEW list, Apart(list), NEW p \in Intervals,
           Len(list) > 0 => list[Len(list)].start <= p.start
    PROVE  LET r == AddInterval(list, p) IN
           /\ Apart(r)
           /\ Len(r) > 0 /\ r[Len(r)].start <= p.start
           /\ \A t \in Int : CoveredBy(r, t) <=> CoveredBy(list, t) \/ Covers(p, t)
<1> DEFINE n == Len(list)
           r == AddInterval(list, p)
<1>1. /\ n \in Nat /\ list \in Seq(Intervals)
      /\ \A i \in 1 .. n : /\ list[i] \in Intervals
                           /\ list[i].start \in Int /\ list[i].end \in Int
                           /\ list[i].start < list[i].end
      /\ p.start \in Int /\ p.end \in Int /\ p.start < p.end
  BY DEF Apart, Intervals
<1>2. CASE list = <<>> \/ p.start > Last(list).end
  <2>1. r = list \o <<p>>
    BY <1>2 DEF AddInterval
  <2> HIDE DEF r
  <2>2. /\ r \in Seq(Intervals) /\ Len(r) = n + 1 /\ r[n + 1] = p
        /\ \A k \in 1 .. n : r[k] = list[k]
    BY <1>1, <2>1
  <2>3. n > 0 => list[n].end < p.start
    BY <1>1, <1>2 DEF Last
  <2>4. \A k \in 1 .. n : list[k].end < p.start
    <3> SUFFICES ASSUME NEW k \in 1 .. n PROVE list[k].end < p.start
      OBVIOUS
    <3>1. n \in 1 .. n /\ list[n].end < p.start
      BY <1>1, <2>3
    <3>2. k # n => list[k].end < list[n].start
      BY <1>1, <3>1 DEF Apart
    <3> QED BY <1>1, <3>1, <3>2
  <2>5. \A i, j \in 1 .. n + 1 : i < j => r[i].end < r[j].start
    <3> SUFFICES ASSUME NEW i \in 1 .. n + 1, NEW j \in 1 .. n + 1, i < j
                 PROVE  r[i].end < r[j].start
      OBVIOUS
    <3>1. i \in 1 .. n
      BY <1>1
    <3>2. CASE j = n + 1
      BY <2>2, <2>4, <3>1, <3>2
    <3>3. CASE j # n + 1
      <4>1. j \in 1 .. n
        BY <1>1, <3>3
      <4> QED BY <2>2, <3>1, <4>1 DEF Apart
    <3> QED BY <3>2, <3>3
  <2>6. \A t \in Int : CoveredBy(r, t) <=> CoveredBy(list, t) \/ Covers(p, t)
    <3>1. \A k : k \in 1 .. n + 1 <=> k \in 1 .. n \/ k = n + 1
      BY <1>1
    <3> QED BY <2>2, <3>1 DEF CoveredBy
  <2>7. p.start <= p.start /\ n + 1 > 0
    BY <1>1
  <2> QED BY <2>2, <2>5, <2>6, <2>7 DEF Apart, r
<1>3. CASE ~(list = <<>> \/ p.start > Last(list).end)
  <2>1. PICK larger : /\ larger = Max({list[n].end, p.end})
                      /\ r = [list EXCEPT ![n].end = larger]
    BY <1>3 DEF AddInterval
  <2>2. n > 0 /\ n \in 1 .. n /\ p.start <= list[n].end
    BY <1>1, <1>3 DEF Last
  <2> DEFINE e == MaxOf(list[n].end, p.end)
  <2>3. Max({list[n].end, p.end}) = e
    BY <1>1, <2>2, MinMaxOfTwo
  <2>4. e \in Int /\ list[n].end <= e /\ p.end <= e /\ (e = list[n].end \/ e = p.end)
    BY <1>1, <2>2 DEF MaxOf
  <2> HIDE DEF r, e
  <2>5. /\ [list[n] EXCEPT !.end = e] \in Intervals
        /\ [list[n] EXCEPT !.end = e].start = list[n].start
        /\ [list[n] EXCEPT !.end = e].end = e
    BY <1>1, <2>2, <2>4 DEF Intervals
  <2>6. r = [list EXCEPT ![n].end = e]
    BY <2>1, <2>3
  <2>7. /\ r \in Seq(Intervals) /\ Len(r) = n
        /\ r[n] = [list[n] EXCEPT !.end = e]
        /\ \A k \in 1 .. n - 1 : r[k] = list[k]
    <3>1. r \in Seq(Intervals) /\ Len(r) = n
      BY <1>1, <2>2, <2>5, <2>6, SMTT(30)
    <3>2. /\ r[n] = [list[n] EXCEPT !.end = e]
          /\ \A k \in 1 .. n - 1 : r[k] = list[k]
      BY <1>1, <2>2, <2>6, SMTT(30)
    <3> QED BY <3>1, <3>2
  <2>8. \A i, j \in 1 .. n : i < j => r[i].end < r[j].start
    <3> SUFFICES ASSUME NEW i \in 1 .. n, NEW j \in 1 .. n, i < j
                 PROVE  r[i].end < r[j].start
      OBVIOUS
    <3>1. i \in 1 .. n - 1 /\ list[i].end < list[j].start
      BY <1>1 DEF Apart
    <3>2. r[i] = list[i]
      BY <2>7, <3>1
    <3>3. r[j].start = list[j].start
      <4>1. CASE j = n
        BY <2>5, <2>7, <4>1
      <4>2. CASE j # n
        <5>1. j \in 1 .. n - 1
          BY <1>1, <4>2
        <5> QED BY <2>7, <5>1
      <4> QED BY <4>1, <4>2
    <3> QED BY <3>1, <3>2, <3>3
  <2>9. ASSUME NEW t \in Int
        PROVE  CoveredBy(r, t) <=> CoveredBy(list, t) \/ Covers(p, t)
    <3>1. \A k : k \in 1 .. n <=> k \in 1 .. n - 1 \/ k = n
      BY <1>1, <2>2
    <3>2. Covers(r[n], t) <=> Covers(list[n], t) \/ Covers(p, t)
      <4>1. Covers(r[n], t) <=> list[n].start <= t /\ t < e
        BY <2>5, <2>7 DEF Covers
      <4>2. list[n].start <= p.start
        BY <2>2
      <4> QED BY <1>1, <2>2, <2>4, <4>1, <4>2 DEF Covers
    <3>3. CoveredBy(r, t) <=> (\E k \in 1 .. n - 1 : Covers(list[k], t)) \/ Covers(r[n], t)
      BY <2>7, <3>1 DEF CoveredBy
    <3>4. CoveredBy(list, t) <=> (\E k \in 1 .. n - 1 : Covers(list[k], t)) \/ Covers(list[n], t)
      BY <3>1 DEF CoveredBy
    <3> QED BY <3>2, <3>3, <3>4
  <2>10. r[n].start <= p.start
    BY <2>2, <2>5, <2>7
  <2> QED BY <2>2, <2>5, <2>7, <2>8, <2>9, <2>10 DEF Apart, r
<1> QED BY <1>2, <1>3

\* The first i intervals in order, joined.
JoinedTo(list, ordered, i) ==
    /\ Apart(list)
    /\ i > 0 => Len(list) > 0 /\ list[Len(list)].start <= ordered[i].start
    /\ i = 0 => list = <<>>
    /\ \A t \in Int : CoveredBy(list, t) <=> \E k \in 1 .. i : Covers(ordered[k], t)

\* One interval more.
LEMMA JoinedOneMore ==
    ASSUME NEW ordered \in Seq(Intervals),
           \A i, j \in 1 .. Len(ordered) : i < j => ordered[i].start <= ordered[j].start,
           NEW i \in 1 .. Len(ordered), NEW list, JoinedTo(list, ordered, i - 1)
    PROVE  JoinedTo(AddInterval(list, ordered[i]), ordered, i)
<1> DEFINE p == ordered[i]
           r == AddInterval(list, p)
<1>1. Len(ordered) \in Nat /\ i \in Int /\ p \in Intervals /\ Apart(list)
  BY DEF JoinedTo
<1>2. Len(list) > 0 => list[Len(list)].start <= p.start
  <2>1. CASE i = 1
    <3>1. list = <<>>
      BY <2>1 DEF JoinedTo
    <3> QED BY <3>1
  <2>2. CASE i # 1
    <3>1. i - 1 \in 1 .. Len(ordered) /\ i - 1 < i /\ i - 1 > 0
      BY <1>1, <2>2
    <3>2. /\ Len(list) > 0 /\ list[Len(list)].start <= ordered[i - 1].start
          /\ ordered[i - 1].start <= p.start
      BY <3>1 DEF JoinedTo
    <3>3. Len(list) \in 1 .. Len(list) /\ list \in Seq(Intervals)
      BY <1>1, <3>2 DEF Apart
    <3>4. /\ list[Len(list)] \in Intervals /\ ordered[i - 1] \in Intervals
      BY <3>1, <3>3
    <3>5. /\ list[Len(list)].start \in Int /\ ordered[i - 1].start \in Int /\ p.start \in Int
      BY <1>1, <3>4 DEF Intervals
    <3> QED BY <3>2, <3>5
  <2> QED BY <2>1, <2>2
<1>3. /\ Apart(r)
      /\ Len(r) > 0 /\ r[Len(r)].start <= p.start
      /\ \A t \in Int : CoveredBy(r, t) <=> CoveredBy(list, t) \/ Covers(p, t)
  BY <1>1, <1>2, AddedInterval
<1> HIDE DEF r
<1>4. ASSUME NEW t \in Int
      PROVE  CoveredBy(r, t) <=> \E k \in 1 .. i : Covers(ordered[k], t)
  <2>1. \A k : k \in 1 .. i <=> k \in 1 .. i - 1 \/ k = i
    BY <1>1
  <2>2. CoveredBy(list, t) <=> \E k \in 1 .. i - 1 : Covers(ordered[k], t)
    BY DEF JoinedTo
  <2> QED BY <1>3, <2>1, <2>2
<1>5. i > 0 /\ i # 0
  BY <1>1
<1> QED BY <1>3, <1>4, <1>5 DEF JoinedTo, r

\* Joined intervals lie apart and cover what the pieces cover.
LEMMA JoinedCover ==
    ASSUME NEW pieces, Datable(pieces)
    PROVE  /\ Apart(JoinIntervals(pieces))
           /\ \A t \in Int : CoveredBy(JoinIntervals(pieces), t) <=> \E p \in pieces : Covers(p, t)
<1> DEFINE o == InTime(pieces)
           n == Len(o)
           good(i) == {list \in Seq(Intervals) : JoinedTo(list, o, i)}
           types == [i \in 0 .. n |-> good(i)]
           step == [i \in 1 .. n |-> [list \in good(i - 1) |-> AddInterval(list, o[i])]]
           Rec(f) == f = [i \in 0 .. n |-> IF i = 0 THEN <<>> ELSE AddInterval(f[i - 1], o[i])]
           v == CHOOSE f : Rec(f)
<1>1. /\ o \in Seq(Intervals) /\ n \in Nat
      /\ \A i, j \in 1 .. n : i < j => o[i].start <= o[j].start
      /\ \A t \in Int : CoveredBy(o, t) <=> \E p \in pieces : Covers(p, t)
  BY InTimeOrder
<1>2. JoinIntervals(pieces) = v[n]
  BY DEF JoinIntervals
<1> HIDE DEF o
<1>3. <<>> \in good(0)
  <2>1. <<>> \in Seq(Intervals) /\ Len(<<>>) = 0 /\ 1 .. 0 = {} /\ ~(0 > 0)
    OBVIOUS
  <2> QED BY <2>1 DEF JoinedTo, Apart, CoveredBy
<1>4. ASSUME NEW i \in 1 .. n, NEW list \in good(i - 1)
      PROVE  AddInterval(list, o[i]) \in good(i)
  <2>1. JoinedTo(list, o, i - 1)
    OBVIOUS
  <2> HIDE DEF good
  <2>2. JoinedTo(AddInterval(list, o[i]), o, i)
    BY <1>1, <2>1, JoinedOneMore
  <2> QED BY <2>2 DEF good, JoinedTo, Apart
<1> HIDE DEF good
<1>5. \A i \in 1 .. n : i - 1 \in 0 .. n /\ i \in 0 .. n /\ i # 0
  BY <1>1
<1>6. PICK u : Follows(u, n, <<>>, step) /\ \A i \in 0 .. n : u[i] \in types[i]
  <2>1. <<>> \in types[0]
    BY <1>1, <1>3
  <2>2. \A i \in 1 .. n : \A x \in types[i - 1] : step[i][x] \in types[i]
    BY <1>4, <1>5
  <2> HIDE DEF types, step, n
  <2> QED BY <1>1, <2>1, <2>2, RecursionDefined
<1>7. Rec(u)
  <2>1. u = [i \in 0 .. n |-> IF i = 0 THEN <<>> ELSE step[i][u[i - 1]]]
    BY <1>6 DEF Follows
  <2>2. \A i \in 0 .. n : i # 0 => i \in 1 .. n
    BY <1>1
  <2>3. \A i \in 1 .. n : u[i - 1] \in good(i - 1)
    BY <1>5, <1>6
  <2>4. \A i \in 1 .. n : step[i][u[i - 1]] = AddInterval(u[i - 1], o[i])
    BY <2>3
  <2> HIDE DEF step
  <2>5. \A i \in 0 .. n : (IF i = 0 THEN <<>> ELSE step[i][u[i - 1]])
                             = IF i = 0 THEN <<>> ELSE AddInterval(u[i - 1], o[i])
    BY <2>2, <2>4
  <2> QED BY <2>1, <2>5
<1>8. Rec(v)
  <2> HIDE DEF Rec
  <2> QED BY <1>7
<1>9. \A i \in 0 .. n : v[i] = IF i = 0 THEN <<>> ELSE AddInterval(v[i - 1], o[i])
  <2> HIDE DEF v
  <2> QED BY <1>8
<1> HIDE DEF v, Rec
<1> DEFINE A == {i \in 0 .. n : v[i] \in good(i)}
<1>10. 0 \in A
  <2>1. 0 \in 0 .. n
    BY <1>1
  <2> QED BY <1>3, <1>9, <2>1
<1>11. ASSUME NEW i \in 1 .. n, i - 1 \in A
       PROVE  i \in A
  <2>1. v[i] = AddInterval(v[i - 1], o[i])
    BY <1>5, <1>9
  <2> QED BY <1>4, <1>5, <1>11, <2>1
<1>12. v[n] \in good(n)
  <2> HIDE DEF A
  <2>1. \A i \in 0 .. n : i \in A
    BY <1>1, <1>10, <1>11, Induct
  <2> QED BY <1>1, <2>1 DEF A
<1>13. JoinedTo(v[n], o, n)
  BY <1>12 DEF good
<1> QED BY <1>1, <1>2, <1>13 DEF JoinedTo, CoveredBy

-----------------------------------------------------------------------------
(* The overlap *)

\* What both lists cover from two places on, and before.
BothFrom(first, second, a, b) ==
    {t \in Int : \E i \in a .. Len(first), j \in b .. Len(second) :
                    Covers(first[i], t) /\ Covers(second[j], t)}
BothBefore(first, second, a, b) ==
    BothFrom(first, second, 1, 1) \ BothFrom(first, second, a, b)
InBoth(p, q) == {t \in Int : Covers(p, t) /\ Covers(q, t)}

\* What two intervals share.
LEMMA Shared ==
    ASSUME NEW p \in Intervals, NEW q \in Intervals
    PROVE  LET shared == Min({p.end, q.end}) - Max({p.start, q.start}) IN
           /\ IsFiniteSet(InBoth(p, q))
           /\ Cardinality(InBoth(p, q)) = IF shared > 0 THEN shared ELSE 0
<1> DEFINE s == MaxOf(p.start, q.start)
           e == MinOf(p.end, q.end)
<1>1. p.start \in Int /\ p.end \in Int /\ q.start \in Int /\ q.end \in Int
  BY DEF Intervals
<1>2. Min({p.end, q.end}) = e /\ Max({p.start, q.start}) = s
  BY <1>1, MinMaxOfTwo
<1>3. s \in Int /\ e \in Int /\ e - 1 \in Int
  BY <1>1 DEF MaxOf, MinOf
<1>4. InBoth(p, q) = s .. e - 1
  <2>1. \A t \in Int : Covers(p, t) /\ Covers(q, t) <=> s <= t /\ t < e
    BY <1>1 DEF Covers, MaxOf, MinOf
  <2> HIDE DEF s, e
  <2>2. \A t \in Int : t \in s .. e - 1 <=> s <= t /\ t < e
    BY <1>3
  <2> QED BY <2>1, <2>2, <1>3 DEF InBoth
<1> HIDE DEF s, e
<1>5. IsFiniteSet(s .. e - 1) /\ Cardinality(s .. e - 1) = IF s > e - 1 THEN 0 ELSE e - 1 - s + 1
  BY <1>3, FS_Interval
<1>6. (IF s > e - 1 THEN 0 ELSE e - 1 - s + 1) = IF e - s > 0 THEN e - s ELSE 0
  BY <1>3
<1> QED BY <1>2, <1>4, <1>5, <1>6

\* The interval that ends first shares nothing with later ones.
LEMMA FirstEnds ==
    ASSUME NEW first, Apart(first), NEW second, Apart(second),
           NEW a \in 1 .. Len(first), NEW b \in 1 .. Len(second)
    PROVE  LET p == first[a]
               q == second[b]
               rest == IF p.end < q.end THEN BothFrom(first, second, a + 1, b)
                       ELSE BothFrom(first, second, a, b + 1)
           IN  /\ BothFrom(first, second, a, b) = rest \cup InBoth(p, q)
               /\ rest \cap InBoth(p, q) = {}
<1> DEFINE p == first[a]
           q == second[b]
           m == Len(first)
           n == Len(second)
<1>1. /\ m \in Nat /\ n \in Nat /\ a \in Int /\ b \in Int
      /\ \A i \in 1 .. m : /\ first[i].start \in Int /\ first[i].end \in Int
                           /\ first[i].start < first[i].end
      /\ \A j \in 1 .. n : /\ second[j].start \in Int /\ second[j].end \in Int
                           /\ second[j].start < second[j].end
  <2>1. /\ m \in Nat /\ n \in Nat
        /\ \A i \in 1 .. m : first[i] \in Intervals
        /\ \A j \in 1 .. n : second[j] \in Intervals
    BY DEF Apart
  <2>2. \A r \in Intervals : r.start \in Int /\ r.end \in Int /\ r.start < r.end
    BY DEF Intervals
  <2> QED BY <2>1, <2>2
<1>2. /\ \A i \in a + 1 .. m : i \in 1 .. m /\ p.end < first[i].start
      /\ \A j \in b + 1 .. n : j \in 1 .. n /\ q.end < second[j].start
  BY <1>1 DEF Apart
<1>3. /\ \A i : i \in a .. m <=> i = a \/ i \in a + 1 .. m
      /\ \A j : j \in b .. n <=> j = b \/ j \in b + 1 .. n
  BY <1>1
<1>4. /\ p.start \in Int /\ p.end \in Int /\ q.start \in Int /\ q.end \in Int
  BY <1>1
<1> HIDE DEF p, q
<1>5. CASE p.end < q.end
  <2> DEFINE rest == BothFrom(first, second, a + 1, b)
  <2>1. ASSUME NEW t \in Int, NEW j \in b + 1 .. n, Covers(p, t), Covers(second[j], t)
        PROVE  FALSE
    <3>1. j \in 1 .. n /\ q.end < second[j].start /\ second[j].start \in Int
      BY <1>1, <1>2
    <3>2. second[j].start <= t /\ t < p.end
      BY <2>1 DEF Covers
    <3> QED BY <1>4, <1>5, <3>1, <3>2
  <2>2. ASSUME NEW t \in Int, NEW i \in a + 1 .. m, Covers(p, t), Covers(first[i], t)
        PROVE  FALSE
    <3>1. i \in 1 .. m /\ p.end < first[i].start /\ first[i].start \in Int
      BY <1>1, <1>2
    <3>2. first[i].start <= t /\ t < p.end
      BY <2>2 DEF Covers
    <3> QED BY <1>4, <3>1, <3>2
  <2>3. ASSUME NEW t
        PROVE  t \in BothFrom(first, second, a, b) <=> t \in rest \/ t \in InBoth(p, q)
    BY <1>3, <2>1 DEF BothFrom, InBoth, p, q
  <2>4. rest \cap InBoth(p, q) = {}
    BY <2>2 DEF BothFrom, InBoth
  <2>5. BothFrom(first, second, a, b) = rest \cup InBoth(p, q)
    BY <2>3
  <2> QED BY <1>5, <2>4, <2>5 DEF p, q
<1>6. CASE ~(p.end < q.end)
  <2> DEFINE rest == BothFrom(first, second, a, b + 1)
  <2>1. ASSUME NEW t \in Int, NEW i \in a + 1 .. m, Covers(q, t), Covers(first[i], t)
        PROVE  FALSE
    <3>1. i \in 1 .. m /\ p.end < first[i].start /\ first[i].start \in Int
      BY <1>1, <1>2
    <3>2. first[i].start <= t /\ t < q.end
      BY <2>1 DEF Covers
    <3> QED BY <1>4, <1>6, <3>1, <3>2
  <2>2. ASSUME NEW t \in Int, NEW j \in b + 1 .. n, Covers(q, t), Covers(second[j], t)
        PROVE  FALSE
    <3>1. j \in 1 .. n /\ q.end < second[j].start /\ second[j].start \in Int
      BY <1>1, <1>2
    <3>2. second[j].start <= t /\ t < q.end
      BY <2>2 DEF Covers
    <3> QED BY <1>4, <3>1, <3>2
  <2>3. ASSUME NEW t
        PROVE  t \in BothFrom(first, second, a, b) <=> t \in rest \/ t \in InBoth(p, q)
    BY <1>3, <2>1 DEF BothFrom, InBoth, p, q
  <2>4. rest \cap InBoth(p, q) = {}
    BY <2>2 DEF BothFrom, InBoth
  <2>5. BothFrom(first, second, a, b) = rest \cup InBoth(p, q)
    BY <2>3
  <2> QED BY <1>6, <2>4, <2>5 DEF p, q
<1> QED BY <1>5, <1>6

\* The loop has added up what both cover before its places, and every turn of it
\* leaves an interval.
Met(loop, first, second, turns) ==
    /\ loop.a \in 1 .. Len(first) + 1 /\ loop.b \in 1 .. Len(second) + 1
    /\ loop.a > Len(first) \/ loop.b > Len(second) \/ loop.a + loop.b = turns + 2
    /\ IsFiniteSet(BothBefore(first, second, loop.a, loop.b))
    /\ loop.total = Cardinality(BothBefore(first, second, loop.a, loop.b))

\* One turn.
LEMMA MeetKeeps ==
    ASSUME NEW first, Apart(first), NEW second, Apart(second),
           NEW turns \in Nat, NEW loop, Met(loop, first, second, turns)
    PROVE  Met(Meet(first, second, loop), first, second, turns + 1)
<1> DEFINE a == loop.a
           b == loop.b
           m == Len(first)
           n == Len(second)
           next == Meet(first, second, loop)
<1>1. /\ m \in Nat /\ n \in Nat /\ a \in Nat /\ b \in Nat
      /\ a \in 1 .. m + 1 /\ b \in 1 .. n + 1
  <2>1. m \in Nat /\ n \in Nat /\ a \in 1 .. m + 1 /\ b \in 1 .. n + 1
    BY DEF Met, Apart
  <2> QED BY <2>1
<1>2. CASE a > m \/ b > n
  <2>1. next = loop
    BY <1>2 DEF Meet
  <2> QED BY <1>2, <2>1 DEF Met
<1>3. CASE ~(a > m \/ b > n)
  <2> DEFINE p == first[a]
             q == second[b]
             shared == Min({p.end, q.end}) - Max({p.start, q.start})
             more == IF shared > 0 THEN shared ELSE 0
             here == BothFrom(first, second, a, b)
             there == BothFrom(first, second, next.a, next.b)
             all == BothFrom(first, second, 1, 1)
  <2>1. a \in 1 .. m /\ b \in 1 .. n
    BY <1>1, <1>3
  <2>2. /\ next.a = IF p.end < q.end THEN a + 1 ELSE a
        /\ next.b = IF p.end < q.end THEN b ELSE b + 1
        /\ next.total = loop.total + more
    BY <1>3 DEF Meet
  <2>3. p \in Intervals /\ q \in Intervals
    BY <2>1 DEF Apart
  <2>4. IsFiniteSet(InBoth(p, q)) /\ Cardinality(InBoth(p, q)) = more
    BY <2>3, Shared
  <2> HIDE DEF more, next
  <2>5. there = IF p.end < q.end THEN BothFrom(first, second, a + 1, b)
                ELSE BothFrom(first, second, a, b + 1)
    <3>1. CASE p.end < q.end
      BY <2>2, <3>1
    <3>2. CASE ~(p.end < q.end)
      BY <2>2, <3>2
    <3> QED BY <3>1, <3>2
  <2>6. here = there \cup InBoth(p, q) /\ there \cap InBoth(p, q) = {}
    BY <2>1, <2>5, FirstEnds
  <2>7. here \subseteq all
    <3>1. \A i \in a .. m : i \in 1 .. m
      BY <2>1, <1>1
    <3>2. \A j \in b .. n : j \in 1 .. n
      BY <2>1, <1>1
    <3> QED BY <3>1, <3>2 DEF BothFrom
  <2> HIDE DEF here, there, all
  <2>8. all \ there = (all \ here) \cup InBoth(p, q) /\ (all \ here) \cap InBoth(p, q) = {}
    BY <2>6, <2>7
  <2>9. IsFiniteSet(all \ here) /\ loop.total = Cardinality(all \ here)
    BY DEF Met, BothBefore, all, here
  <2>10. /\ IsFiniteSet(all \ there)
         /\ next.total = Cardinality(all \ there)
    <3>1. PICK S, T : S = all \ here /\ T = InBoth(p, q)
      OBVIOUS
    <3>2. /\ IsFiniteSet(S) /\ IsFiniteSet(T) /\ S \cap T = {} /\ all \ there = S \cup T
          /\ loop.total = Cardinality(S) /\ Cardinality(T) = more
      BY <2>4, <2>8, <2>9, <3>1
    <3>3. /\ IsFiniteSet(S \cup T)
          /\ Cardinality(S \cup T) = Cardinality(S) + Cardinality(T) - Cardinality(S \cap T)
      BY <3>2, FS_Union
    <3>4. Cardinality(S) \in Nat /\ Cardinality(T) \in Nat /\ Cardinality({}) = 0
      BY <3>2, FS_CardinalityType, FS_EmptySet
    <3>5. Cardinality(S \cap T) = 0
      BY <3>2, <3>4
    <3>6. Cardinality(S \cup T) = Cardinality(S) + Cardinality(T)
      BY <3>3, <3>4, <3>5
    <3> QED BY <2>2, <3>2, <3>3, <3>6
  <2>11. /\ next.a \in 1 .. m + 1 /\ next.b \in 1 .. n + 1
         /\ next.a + next.b = a + b + 1
    <3>1. CASE p.end < q.end
      <4>1. next.a = a + 1 /\ next.b = b
        BY <2>2, <3>1
      <4> QED BY <1>1, <2>1, <4>1
    <3>2. CASE ~(p.end < q.end)
      <4>1. next.a = a /\ next.b = b + 1
        BY <2>2, <3>2
      <4> QED BY <1>1, <2>1, <4>1
    <3> QED BY <3>1, <3>2
  <2>12. a + b = turns + 2
    BY <1>3 DEF Met
  <2>13. next.a + next.b = turns + 1 + 2
    BY <2>11, <2>12
  <2> QED BY <2>10, <2>11, <2>13 DEF Met, BothBefore, all, there, next
<1> QED BY <1>2, <1>3

\* What the loop ends with is the time that both lists cover.
LEMMA SharedTime ==
    ASSUME NEW first, Apart(first), NEW second, Apart(second)
    PROVE  LET both == {t \in Int : CoveredBy(first, t) /\ CoveredBy(second, t)} IN
           /\ IsFiniteSet(both)
           /\ IntersectionDuration(first, second) = Cardinality(both)
<1> DEFINE n == Len(first) + Len(second)
           start == [a |-> 1, b |-> 1, total |-> 0]
           next(loop) == Meet(first, second, loop)
           good(i) == {loop \in [a : Nat, b : Nat, total : Nat] : Met(loop, first, second, i)}
           types == [i \in 0 .. n |-> good(i)]
           step == [i \in 1 .. n |-> [loop \in good(i - 1) |-> next(loop)]]
           Rec(f) == f = [i \in 0 .. n |-> IF i = 0 THEN start ELSE next(f[i - 1])]
           v == CHOOSE f : Rec(f)
           both == {t \in Int : CoveredBy(first, t) /\ CoveredBy(second, t)}
<1>1. Len(first) \in Nat /\ Len(second) \in Nat /\ n \in Nat
  BY DEF Apart
<1>2. IntersectionDuration(first, second) = v[n].total
  BY DEF IntersectionDuration
<1>3. start \in good(0)
  <2>1. BothBefore(first, second, 1, 1) = {}
    BY DEF BothBefore
  <2>2. IsFiniteSet({}) /\ Cardinality({}) = 0
    BY FS_EmptySet
  <2>3. 1 \in 1 .. Len(first) + 1 /\ 1 \in 1 .. Len(second) + 1 /\ 1 + 1 = 0 + 2
    BY <1>1
  <2> QED BY <2>1, <2>2, <2>3 DEF Met
<1>4. ASSUME NEW i \in 1 .. n, NEW loop \in good(i - 1)
      PROVE  next(loop) \in good(i)
  <2>1. Met(loop, first, second, i - 1) /\ i - 1 \in Nat /\ i - 1 + 1 = i
    BY <1>1
  <2>2. Met(next(loop), first, second, i)
    <3> HIDE DEF good, next
    <3>1. Met(Meet(first, second, loop), first, second, i - 1 + 1)
      BY <2>1, MeetKeeps
    <3> QED BY <2>1, <3>1 DEF next
  <2>3. next(loop) \in [a : Nat, b : Nat, total : Nat]
    <3>1. /\ next(loop).a \in Nat /\ next(loop).b \in Nat /\ next(loop).total \in Nat
      <4> HIDE DEF next
      <4> QED BY <1>1, <2>2, FS_CardinalityType DEF Met
    <3>2. next(loop) = [a |-> next(loop).a, b |-> next(loop).b, total |-> next(loop).total]
      <4>1. CASE loop.a > Len(first) \/ loop.b > Len(second)
        <5>1. next(loop) = loop
          BY <4>1 DEF Meet
        <5> HIDE DEF next
        <5> QED BY <5>1
      <4>2. CASE ~(loop.a > Len(first) \/ loop.b > Len(second))
        BY <4>2, Zenon DEF Meet
      <4> QED BY <4>1, <4>2
    <3> HIDE DEF next, good
    <3> QED BY <3>1, <3>2
  <2> HIDE DEF next
  <2> QED BY <2>2, <2>3
<1> HIDE DEF good
<1>5. \A i \in 1 .. n : i - 1 \in 0 .. n /\ i \in 0 .. n /\ i # 0
  BY <1>1
<1>6. PICK u : Follows(u, n, start, step) /\ \A i \in 0 .. n : u[i] \in types[i]
  <2>1. start \in types[0]
    BY <1>1, <1>3
  <2>2. \A i \in 1 .. n : \A x \in types[i - 1] : step[i][x] \in types[i]
    BY <1>4, <1>5
  <2> HIDE DEF types, step, n, start
  <2> QED BY <1>1, <2>1, <2>2, RecursionDefined
<1> HIDE DEF start, next
<1>7. Rec(u)
  <2>1. u = [i \in 0 .. n |-> IF i = 0 THEN start ELSE step[i][u[i - 1]]]
    BY <1>6 DEF Follows
  <2>2. \A i \in 0 .. n : i # 0 => i \in 1 .. n
    BY <1>1
  <2>3. \A i \in 1 .. n : u[i - 1] \in good(i - 1)
    BY <1>5, <1>6
  <2>4. \A i \in 1 .. n : step[i][u[i - 1]] = next(u[i - 1])
    BY <2>3
  <2> HIDE DEF step
  <2>5. \A i \in 0 .. n : (IF i = 0 THEN start ELSE step[i][u[i - 1]])
                             = IF i = 0 THEN start ELSE next(u[i - 1])
    BY <2>2, <2>4
  <2> QED BY <2>1, <2>5
<1>8. Rec(v)
  <2> HIDE DEF Rec
  <2> QED BY <1>7
<1>9. \A i \in 0 .. n : v[i] = IF i = 0 THEN start ELSE next(v[i - 1])
  <2> HIDE DEF v
  <2> QED BY <1>8
<1> HIDE DEF v, Rec
<1> DEFINE A == {i \in 0 .. n : v[i] \in good(i)}
<1>10. 0 \in A
  <2>1. 0 \in 0 .. n
    BY <1>1
  <2> QED BY <1>3, <1>9, <2>1
<1>11. ASSUME NEW i \in 1 .. n, i - 1 \in A
       PROVE  i \in A
  <2>1. v[i] = next(v[i - 1])
    BY <1>5, <1>9
  <2> QED BY <1>4, <1>5, <1>11, <2>1
<1>12. v[n] \in good(n)
  <2> HIDE DEF A
  <2>1. \A i \in 0 .. n : i \in A
    BY <1>1, <1>10, <1>11, Induct
  <2> QED BY <1>1, <2>1 DEF A
<1>13. Met(v[n], first, second, n)
  BY <1>12 DEF good
<1>14. BothFrom(first, second, v[n].a, v[n].b) = {}
  <2>1. v[n].a \in Nat /\ v[n].b \in Nat
    BY <1>1, <1>13 DEF Met
  <2>2. v[n].a > Len(first) \/ v[n].b > Len(second)
    BY <1>1, <1>13, <2>1 DEF Met
  <2>3. v[n].a .. Len(first) = {} \/ v[n].b .. Len(second) = {}
    BY <1>1, <2>1, <2>2
  <2> QED BY <2>3 DEF BothFrom
<1>15. BothBefore(first, second, v[n].a, v[n].b) = both
  BY <1>14 DEF BothBefore, BothFrom, CoveredBy
<1> HIDE DEF both
<1> QED BY <1>2, <1>13, <1>15 DEF Met, both

\* The pieces in a state can be put in order, and cover when some lane shows it.
LEMMA PiecesCover ==
    ASSUME NEW lanes, IsFiniteSet(DOMAIN lanes), NEW window,
           \A l \in DOMAIN lanes : Tidy(lanes[l], window), NEW st
    PROVE  /\ Datable(PiecesIn(lanes, st))
           /\ \A t \in Int : (\E p \in PiecesIn(lanes, st) : Covers(p, t))
                                <=> \E l \in DOMAIN lanes : SpotIs(lanes[l], t, st)
<1> DEFINE D == DOMAIN lanes
           places(l) == {k \in DOMAIN lanes[l] : lanes[l][k].state = st}
           F == [l \in D |-> {lanes[l][i] : i \in places(l)}]
           all == {F[l] : l \in D}
<1>1. PiecesIn(lanes, st) = UNION all
  BY DEF PiecesIn
<1>2. ASSUME NEW l \in D
      PROVE  /\ DOMAIN lanes[l] = 1 .. Len(lanes[l]) /\ Len(lanes[l]) \in Nat
             /\ \A k \in 1 .. Len(lanes[l]) : /\ lanes[l][k].start \in Int
                                              /\ lanes[l][k].end \in Int
                                              /\ lanes[l][k].start < lanes[l][k].end
  BY DEF Tidy, Pieces, Listed, Piece
<1>3. ASSUME NEW l \in D
      PROVE  F[l] = {lanes[l][k] : k \in places(l)} /\ IsFiniteSet(F[l])
  <2>1. F[l] = {lanes[l][k] : k \in places(l)}
    OBVIOUS
  <2>2. PICK n \in Nat : n = Len(lanes[l]) /\ places(l) \in SUBSET (1 .. n)
    BY <1>2
  <2>3. IsFiniteSet(1 .. n)
    BY FS_Interval
  <2> HIDE DEF F, places
  <2>4. IsFiniteSet(places(l))
    BY <2>2, <2>3, FS_Subset
  <2>5. IsFiniteSet({lanes[l][k] : k \in places(l)})
    BY <2>4, FiniteImage
  <2> QED BY <2>1, <2>5
<1> HIDE DEF F
<1>4. IsFiniteSet(UNION all)
  <2>1. IsFiniteSet(all)
    <3> HIDE DEF D
    <3>1. IsFiniteSet(D)
      BY DEF D
    <3> QED BY <3>1, FiniteImage
  <2>2. \A T \in all : IsFiniteSet(T)
    BY <1>3
  <2> HIDE DEF all
  <2> QED BY <2>1, <2>2, FS_UNION
<1>5. ASSUME NEW p \in UNION all
      PROVE  p.start \in Int /\ p.end \in Int /\ p.start < p.end
  <2>1. PICK l \in D : p \in F[l]
    OBVIOUS
  <2>2. PICK k \in DOMAIN lanes[l] : p = lanes[l][k]
    BY <1>3, <2>1
  <2> QED BY <1>2, <2>2
<1>6. ASSUME NEW t \in Int
      PROVE  (\E p \in UNION all : Covers(p, t)) <=> \E l \in D : SpotIs(lanes[l], t, st)
  <2>1. ASSUME NEW p \in UNION all, Covers(p, t)
        PROVE  \E l \in D : SpotIs(lanes[l], t, st)
    <3>1. PICK l \in D : p \in F[l]
      OBVIOUS
    <3>2. PICK k \in DOMAIN lanes[l] : p = lanes[l][k] /\ lanes[l][k].state = st
      BY <1>3, <3>1
    <3> QED BY <1>2, <2>1, <3>2 DEF SpotIs
  <2>2. ASSUME NEW l \in D, SpotIs(lanes[l], t, st)
        PROVE  \E p \in UNION all : Covers(p, t)
    <3>1. PICK k \in 1 .. Len(lanes[l]) : Covers(lanes[l][k], t) /\ lanes[l][k].state = st
      BY <2>2 DEF SpotIs
    <3>2. lanes[l][k] \in F[l]
      BY <1>2, <1>3, <3>1
    <3> QED BY <3>1, <3>2
  <2> QED BY <2>1, <2>2
<1> QED BY <1>1, <1>4, <1>5, <1>6 DEF Datable

\* The instants of a day at which a session is active and a GPU training.
BothSpots(day) ==
    {t \in InDay(day) :
        /\ \E s \in scene.sessions : SessionState(EventsOf(s), t) = "active"
        /\ \E l \in scene.lanes : GpuState(SamplesOf(l), t) = "training"}

\* The overlap of a day is their number.
LEMMA OverlapOfDay ==
    ASSUME Types, NEW day \in Days
    PROVE  IsFiniteSet(BothSpots(day)) /\ Day(day).overlap = Cardinality(BothSpots(day))
<1> DEFINE window == WindowOf(day, now)
           codex == CodexLanes(events, overrides, None, window, now)
           gpu == GpuLanes(samples, overrides, window, now)
           work == PiecesIn(codex, "active")
           runs == PiecesIn(gpu, "training")
           both == {t \in Int : CoveredBy(JoinIntervals(work), t) /\ CoveredBy(JoinIntervals(runs), t)}
<1>1. Day(day).overlap = IntersectionDuration(JoinIntervals(work), JoinIntervals(runs))
  BY DEF Day, BuildDay, Report
<1>2. "active" # None /\ "training" # None
  BY NoneAssumption
<1>3. /\ DOMAIN codex = {e.session : e \in events}
      /\ \A s \in DOMAIN codex :
            /\ Tidy(codex[s], window)
            /\ \A t \in Int : SpotIs(codex[s], t, "active")
                  <=> t \in InDay(day) /\ SessionState(EventsOf(s), t) = "active"
  BY <1>2, CodexOfDay
<1>4. /\ DOMAIN gpu = {s.lane : s \in samples}
      /\ \A l \in DOMAIN gpu :
            /\ Tidy(gpu[l], window)
            /\ \A t \in Int : SpotIs(gpu[l], t, "training")
                  <=> t \in InDay(day) /\ GpuState(SamplesOf(l), t) = "training"
  BY <1>2, GpuOfDay
<1> HIDE DEF codex, gpu, window
<1>5. IsFiniteSet(DOMAIN codex)
  <2> DEFINE f == [e \in events |-> e.session]
  <2>1. DOMAIN codex = {f[e] : e \in events}
    BY <1>3
  <2> HIDE DEF f
  <2> QED BY <2>1, FiniteImage DEF Types
<1>6. IsFiniteSet(DOMAIN gpu)
  <2> DEFINE f == [s \in samples |-> s.lane]
  <2>1. DOMAIN gpu = {f[s] : s \in samples}
    BY <1>4
  <2> HIDE DEF f
  <2> QED BY <2>1, FiniteImage DEF Types
<1>7. /\ Datable(work)
      /\ \A t \in Int : (\E p \in work : Covers(p, t))
                           <=> \E s \in DOMAIN codex : SpotIs(codex[s], t, "active")
  BY <1>3, <1>5, PiecesCover
<1>8. /\ Datable(runs)
      /\ \A t \in Int : (\E p \in runs : Covers(p, t))
                           <=> \E l \in DOMAIN gpu : SpotIs(gpu[l], t, "training")
  BY <1>4, <1>6, PiecesCover
<1> HIDE DEF work, runs
<1>9. /\ Apart(JoinIntervals(work)) /\ Apart(JoinIntervals(runs))
      /\ \A t \in Int : CoveredBy(JoinIntervals(work), t) <=> \E p \in work : Covers(p, t)
      /\ \A t \in Int : CoveredBy(JoinIntervals(runs), t) <=> \E p \in runs : Covers(p, t)
  BY <1>7, <1>8, JoinedCover
<1>10. IsFiniteSet(both) /\ Day(day).overlap = Cardinality(both)
  BY <1>1, <1>9, SharedTime
<1>11. ASSUME NEW t \in Int
       PROVE  /\ (\E s \in DOMAIN codex : SpotIs(codex[s], t, "active"))
                    <=> t \in InDay(day) /\ \E s \in scene.sessions : SessionState(EventsOf(s), t) = "active"
              /\ (\E l \in DOMAIN gpu : SpotIs(gpu[l], t, "training"))
                    <=> t \in InDay(day) /\ \E l \in scene.lanes : GpuState(SamplesOf(l), t) = "training"
  <2>1. /\ \A e \in events : e.session \in scene.sessions
        /\ \A s \in samples : s.lane \in scene.lanes
    BY DEF Types, EventRow, SampleRow
  <2>2. t \in InDay(day) => t \in Nat
    BY DEF InDay
  <2>3. t \in InDay(day) =>
           /\ \A s : s \notin DOMAIN codex => SessionState(EventsOf(s), t) # "active"
           /\ \A l : l \notin DOMAIN gpu => GpuState(SamplesOf(l), t) # "training"
    BY <1>2, <1>3, <1>4, <2>2, WithoutRows
  <2>4. /\ \A s \in DOMAIN codex : s \in scene.sessions
        /\ \A l \in DOMAIN gpu : l \in scene.lanes
    BY <1>3, <1>4, <2>1
  <2>5. ASSUME t \in InDay(day), NEW s \in scene.sessions, SessionState(EventsOf(s), t) = "active"
        PROVE  \E r \in DOMAIN codex : SpotIs(codex[r], t, "active")
    BY <1>3, <2>3, <2>5
  <2>6. ASSUME t \in InDay(day), NEW l \in scene.lanes, GpuState(SamplesOf(l), t) = "training"
        PROVE  \E r \in DOMAIN gpu : SpotIs(gpu[r], t, "training")
    BY <1>4, <2>3, <2>6
  <2> QED BY <1>3, <1>4, <2>4, <2>5, <2>6
<1>12. both = BothSpots(day)
  <2>1. \A t \in InDay(day) : t \in Int
    BY DEF InDay
  <2>2. \A t \in Int : CoveredBy(JoinIntervals(work), t) /\ CoveredBy(JoinIntervals(runs), t)
                          <=> t \in BothSpots(day)
    BY <1>7, <1>8, <1>9, <1>11, <2>1 DEF BothSpots
  <2>3. BothSpots(day) \subseteq Int
    BY <2>1 DEF BothSpots
  <2> QED BY <2>2, <2>3
<1> QED BY <1>10, <1>12

\* The overlaps of the days add up to all those instants.
LEMMA OverlapOfDays ==
    ASSUME Types
    PROVE  SumOfDays("overlap") = BothSeconds
<1> DEFINE F == [day \in Days |-> BothSpots(day)]
           all == UNION {F[day] : day \in Days}
<1>1. \A day \in Days : IsFiniteSet(F[day]) /\ Day(day)["overlap"] = Cardinality(F[day])
  BY OverlapOfDay
<1>2. /\ \A t \in 0 .. now - 1 : \E day \in Days : t \in InDay(day)
      /\ \A day, other \in Days : day # other => InDay(day) \cap InDay(other) = {}
  BY DaysDivide
<1>3. ASSUME NEW day \in Days, NEW other \in Days, day # other
      PROVE  F[day] \cap F[other] = {}
  <2>1. F[day] \subseteq InDay(day) /\ F[other] \subseteq InDay(other)
    BY DEF BothSpots
  <2> HIDE DEF F
  <2> QED BY <1>2, <1>3, <2>1
<1>4. all = {t \in 0 .. now - 1 :
               /\ \E s \in scene.sessions : SessionState(EventsOf(s), t) = "active"
               /\ \E l \in scene.lanes : GpuState(SamplesOf(l), t) = "training"}
  <2>1. \A day \in Days : InDay(day) \subseteq 0 .. now - 1
    BY DEF InDay
  <2> QED BY <1>2, <2>1 DEF BothSpots
<1> HIDE DEF F
<1>5. Counted("overlap", F)
  BY <1>1, <1>3 DEF Counted
<1>6. SumOfDays("overlap") = Cardinality(all)
  BY <1>5, FieldCounts
<1> QED BY <1>4, <1>6 DEF BothSeconds

\* From the types of the rows alone.
LEMMA TypesCountSeconds == Types => TotalsAreSeconds
<1> SUFFICES ASSUME Types PROVE TotalsAreSeconds
  OBVIOUS
<1>1. ASSUME NEW day \in Days
      PROVE  LET codex == CodexLanes(events, overrides, None, WindowOf(day, now), now)
                 gpu == GpuLanes(samples, overrides, WindowOf(day, now), now)
             IN  /\ Day(day)["active"] = Total(codex, {"active"})
                 /\ Day(day)["waiting"] = Total(codex, {"waiting"})
                 /\ Day(day)["stalled"] = Total(codex, {"stalled"})
                 /\ Day(day)["training"] = Total(gpu, {"training"})
                 /\ Day(day)["idle"] = Total(gpu, {"idle"})
  BY DEF Day, BuildDay, Report
<1>2. /\ "active" # None /\ "waiting" # None /\ "stalled" # None
      /\ "training" # None /\ "idle" # None
  BY NoneAssumption
<1>3. SumOfDays("active") = SessionSeconds("active")
  <2>1. SessionField("active", "active")
    BY <1>1 DEF SessionField
  <2> QED BY <1>2, <2>1, SessionDays
<1>4. SumOfDays("waiting") = SessionSeconds("waiting")
  <2>1. SessionField("waiting", "waiting")
    BY <1>1 DEF SessionField
  <2> QED BY <1>2, <2>1, SessionDays
<1>5. SumOfDays("stalled") = SessionSeconds("stalled")
  <2>1. SessionField("stalled", "stalled")
    BY <1>1 DEF SessionField
  <2> QED BY <1>2, <2>1, SessionDays
<1>6. SumOfDays("training") = GpuSeconds("training")
  <2>1. GpuField("training", "training")
    BY <1>1 DEF GpuField
  <2> QED BY <1>2, <2>1, GpuDays
<1>7. SumOfDays("idle") = GpuSeconds("idle")
  <2>1. GpuField("idle", "idle")
    BY <1>1 DEF GpuField
  <2> QED BY <1>2, <2>1, GpuDays
<1>8. SumOfDays("overlap") = BothSeconds
  BY OverlapOfDays
<1>9. /\ SumOfDays("active") = MapThenSumSet(LAMBDA day : Day(day).active, Days)
      /\ SumOfDays("waiting") = MapThenSumSet(LAMBDA day : Day(day).waiting, Days)
      /\ SumOfDays("stalled") = MapThenSumSet(LAMBDA day : Day(day).stalled, Days)
      /\ SumOfDays("training") = MapThenSumSet(LAMBDA day : Day(day).training, Days)
      /\ SumOfDays("idle") = MapThenSumSet(LAMBDA day : Day(day).idle, Days)
      /\ SumOfDays("overlap") = MapThenSumSet(LAMBDA day : Day(day).overlap, Days)
  BY DEF SumOfDays
<1> QED BY <1>3, <1>4, <1>5, <1>6, <1>7, <1>8, <1>9 DEF TotalsAreSeconds

\* The totals of the days, cut at midnight and at the time of the report, add up
\* to what an observer counts who looks at every instant, and so does the overlap.
THEOREM TotalsAreTheSeconds == Spec => []TotalsAreSeconds
BY TimelineTypes, TypesCountSeconds, PTL
=============================================================================
