------------------------------ MODULE Aggregate -------------------------------
(***************************************************************************)
(* The daily report, src/gpu_steward/timeline/aggregate.py, and the        *)
(* resolution of overrides it reads the rows through (store.py).           *)
(*                                                                         *)
(* Time is counted in units; a day is DayLength of them.  A row of         *)
(* codex_events is [id, at, session, project, kind, phase, active], a row  *)
(* of gpu_samples [id, at, lane, state, task, explicit, process]; ids are  *)
(* numbers in the order of the digests, lane is host and GPU index.  A     *)
(* piece is an interval with what it shows.                                *)
(***************************************************************************)
EXTENDS Integers, Sequences, SequencesExt, FiniteSetsExt

CONSTANTS None,
          StallSeconds, SampleGap, MergeGap, DayLength,
          PythonNames    \* process names that start with "python"

ASSUME LimitsAssumption ==
    /\ {StallSeconds, SampleGap, DayLength} \subseteq Nat \ {0}
    /\ MergeGap \in Nat

ASSUME NoneAssumption == None \notin {"active", "waiting", "stalled", "training", "idle"}

ActivePhases == {"research", "review", "analysis", "implement", "test",
                 "operate", "active-unspecified"}

-----------------------------------------------------------------------------
(* Overrides: [id, target, field, value, created, from, until] *)

ValidAt(o, at) == o.from <= at /\ (o.until = None \/ o.until >= at)

\* Mutant: the first override of a field stays.
Overtakes_Oldest(o, p) == o.from < p.from \/ (o.from = p.from /\ o.id < p.id)

Overtakes(o, p) ==
    \/ o.from > p.from
    \/ o.from = p.from /\ o.created > p.created
    \/ o.from = p.from /\ o.created = p.created /\ o.id > p.id

CurrentOverrides(overrides, target, at) ==
    LET valid == {o \in overrides : o.target = target /\ ValidAt(o, at)} IN
    [field \in {o.field : o \in valid} |->
        (CHOOSE o \in valid : /\ o.field = field
                              /\ \A p \in valid : p.field = field =>
                                    p = o \/ Overtakes(o, p)).value]

\* A row as it is read: its own fields, the overridden ones replaced.
Overridden(row, current) ==
    [field \in DOMAIN row |-> IF field \in DOMAIN current THEN current[field]
                              ELSE row[field]]

-----------------------------------------------------------------------------
(* Rows and pieces *)

Before(r, s) == r.at < s.at \/ (r.at = s.at /\ r.id < s.id)

\* A row's place is the number of rows before it.
Ordered(rows) ==
    [i \in 1 .. Cardinality(rows) |->
        CHOOSE r \in rows : Cardinality({s \in rows : Before(s, r)}) = i - 1]

\* Mutant: an interval that began the day before keeps its start.
Clip_EndOnly(piece, window) == [piece EXCEPT !.end = Min({piece.end, window.end})]

Clip(piece, window) ==
    [piece EXCEPT !.start = Max({piece.start, window.start}),
                  !.end = Min({piece.end, window.end})]

\* Numbers from the least to the greatest.
InOrder(indices) ==
    [i \in 1 .. Cardinality(indices) |->
        CHOOSE k \in indices : Cardinality({j \in indices : j < k}) = i - 1]

\* What is left of the pieces in the window, without the empty ones.
Clipped(pieces, window) ==
    LET clip == [i \in DOMAIN pieces |-> Clip(pieces[i], window)]
        kept == InOrder({i \in DOMAIN pieces : clip[i].end > clip[i].start})
    IN  [k \in DOMAIN kept |-> clip[kept[k]]]

SameMetadata(piece, other) ==
    piece = [other EXCEPT !.start = piece.start, !.end = piece.end]

AppendSegment(segments, piece) ==
    IF /\ segments # <<>>
       /\ Last(segments).end = piece.start
       /\ SameMetadata(Last(segments), piece)
    THEN [segments EXCEPT ![Len(segments)].end = piece.end]
    ELSE segments \o <<piece>>

Segments(pieces) ==
    LET upTo[i \in 0 .. Len(pieces)] ==
            IF i = 0 THEN <<>> ELSE AppendSegment(upTo[i - 1], pieces[i])
    IN  upTo[Len(pieces)]

Seconds(pieces, states) ==
    MapThenSumSet(LAMBDA i : pieces[i].end - pieces[i].start,
                  {i \in DOMAIN pieces : pieces[i].state \in states})

-----------------------------------------------------------------------------
(* A Codex session *)

\* What a row makes of its session, given the phase before it.
EventState(row, previous) ==
    LET as(state, phase, active) ==
            [state |-> state, phase |-> phase, active |-> active]
    IN  CASE row.kind = "pre-tool" -> as("waiting", "waiting-tool", TRUE)
          [] row.kind \in {"stop", "turn-end"} -> as("waiting", "waiting-user", FALSE)
          [] row.kind = "post-tool" ->
                as("active",
                   IF row.phase \in ActivePhases THEN row.phase
                   ELSE IF previous \in ActivePhases THEN previous
                   ELSE "active-unspecified", FALSE)
          [] row.phase = "waiting-tool" -> as("waiting", row.phase, row.active)
          [] row.phase = "waiting-user" -> as("waiting", row.phase, FALSE)
          [] row.phase = "suspected-stall" -> as("stalled", row.phase, FALSE)
          [] row.phase = "idle" -> as("idle", row.phase, FALSE)
          [] OTHER -> as("active", row.phase, row.active)


StatesAfter(rows) ==
    LET after[i \in 0 .. Len(rows)] ==
            IF i = 0 THEN [state |-> None, phase |-> None, active |-> FALSE]
            ELSE EventState(rows[i], after[i - 1].phase)
    IN  after

StallAt(row) == row.at + StallSeconds

\* Mutant: a report waits longer than what it then calls stalled.
Stalls_Late(last, after, end) ==
    after.state = "active" /\ ~after.active /\ end > StallAt(last) + 1
\* Only the last row of a session can be followed by a stall.
Stalls(last, after, end) ==
    after.state = "active" /\ ~after.active /\ end > StallAt(last)

CodexPieces(rows, end) ==
    LET after == StatesAfter(rows)
        last == Len(rows)
        piece(i, from, to) ==
            [start |-> from, end |-> to, state |-> after[i].state,
             phase |-> after[i].phase, event |-> rows[i].id]
    IN  [i \in 1 .. last - 1 |-> piece(i, rows[i].at, rows[i + 1].at)] \o
        IF Stalls(rows[last], after[last], end)
        THEN <<piece(last, rows[last].at, StallAt(rows[last])),
               [start |-> StallAt(rows[last]), end |-> end, state |-> "stalled",
                phase |-> "suspected-stall", event |-> None]>>
        ELSE <<piece(last, rows[last].at, end)>>

\* Mutant: the rows are not grouped.
SessionRows_All(events, session) == events
SessionRows(events, session) == {e \in events : e.session = session}

\* The pieces of every session; the project filter reads the stored row.
CodexLanes(events, overrides, project, window, asOf) ==
    LET chosen == {e \in events : project \in {None, e.project}}
        rows(s) == {Overridden(e, CurrentOverrides(overrides, <<"event", e.id>>, asOf)) :
                       e \in SessionRows(chosen, s)}
    IN  [s \in {e.session : e \in chosen} |->
            Clipped(CodexPieces(Ordered(rows(s)), window.end), window)]

-----------------------------------------------------------------------------
(* A GPU *)

\* A sample speaks for the GPU until the next one, but not for long.
FreshUntil(row, until) == Min({row.at + SampleGap, until})

GpuPieces(rows, end) ==
    LET until(i) == IF i < Len(rows) THEN Min({rows[i + 1].at, end}) ELSE end
        piece(i, from, to, state) ==
            [start |-> from, end |-> to, state |-> state,
             task |-> rows[i].task, explicit |-> rows[i].explicit,
             process |-> rows[i].process, sample |-> rows[i].id]
        unknown(i) ==
            [piece(i, FreshUntil(rows[i], until(i)), until(i), "unknown")
                EXCEPT !.task = "", !.explicit = FALSE, !.process = ""]
    IN  [k \in 1 .. 2 * Len(rows) |->
            LET i == (k + 1) \div 2 IN
            IF k % 2 = 1
            THEN piece(i, rows[i].at, FreshUntil(rows[i], until(i)), rows[i].state)
            ELSE unknown(i)]

GpuLanes(samples, overrides, window, asOf) ==
    LET rows(lane) ==
            {Overridden(r, CurrentOverrides(overrides, <<"sample", r.id>>, asOf)) :
                r \in {s \in samples : s.lane = lane}}
    IN  [lane \in {s.lane : s \in samples} |->
            Clipped(GpuPieces(Ordered(rows(lane)), window.end), window)]

-----------------------------------------------------------------------------
(* Display bars *)

Idle == {"idle", "unknown"}

Family(segment) ==
    LET inferred == IF segment.process # "" THEN segment.process ELSE segment.task
    IN  CASE segment.state \in Idle -> ""
          [] segment.explicit /\ segment.task # "" -> segment.task
          [] inferred \in PythonNames -> "python"
          [] inferred = "" -> "external"
          [] OTHER -> inferred

Bar(segment) ==
    [start |-> segment.start, end |-> segment.end, state |-> segment.state,
     task |-> Family(segment), observed |-> segment.end - segment.start,
     gap |-> 0, gaps |-> 0, samples |-> 1]

SameKey(bar, other) == bar.state = other.state /\ bar.task = other.task


MergeBars(bar, other, gap) ==
    [bar EXCEPT !.end = other.end,
                !.observed = @ + other.observed,
                !.gap = @ + gap + other.gap,
                !.gaps = @ + (IF gap > 0 THEN 1 ELSE 0) + other.gaps,
                !.samples = @ + other.samples]

\* Touching bars with the same key become one.
AddBar(bars, bar) ==
    IF bars # <<>> /\ Last(bars).end = bar.start /\ SameKey(Last(bars), bar)
    THEN [bars EXCEPT ![Len(bars)] = MergeBars(@, bar, 0)]
    ELSE bars \o <<bar>>

Prepared(segments) ==
    LET upTo[i \in 0 .. Len(segments)] ==
            IF i = 0 THEN <<>> ELSE AddBar(upTo[i - 1], Bar(segments[i]))
    IN  upTo[Len(segments)]

Occupied(bar) == bar.state \notin Idle

\* The first bar after i that is neither idle nor unknown, or one past the end.
GapEnd(bars, i) ==
    Min({j \in i + 1 .. Len(bars) + 1 :
            j = Len(bars) + 1 \/ bars[j].state \notin Idle})

GapTotal(bars, i) ==
    MapThenSumSet(LAMBDA j : bars[j].end - bars[j].start, i + 1 .. GapEnd(bars, i) - 1)

\* Mutant: a gap of any length is folded.
Folds_AnyGap(bars, i) ==
    LET j == GapEnd(bars, i) IN
    /\ Occupied(bars[i]) /\ j > i + 1 /\ j <= Len(bars)
    /\ SameKey(bars[i], bars[j])

Folds(bars, i) ==
    LET j == GapEnd(bars, i) IN
    /\ Occupied(bars[i]) /\ j > i + 1 /\ j <= Len(bars)
    /\ GapTotal(bars, i) <= MergeGap
    /\ SameKey(bars[i], bars[j])

\* One turn of the loop: a bar that folds is carried to the one it folds with.
Turn(loop) ==
    LET i == loop.index
        j == GapEnd(loop.bars, i)
    IN  IF Folds(loop.bars, i)
        THEN [loop EXCEPT !.index = j,
                          !.bars[j] = MergeBars(loop.bars[i], @, GapTotal(loop.bars, i))]
        ELSE [loop EXCEPT !.index = i + 1, !.result = @ \o <<loop.bars[i]>>]

Coalesce(segments) ==
    LET bars == Prepared(segments)
        after[turns \in 0 .. Len(bars)] ==
            IF turns = 0 THEN [index |-> 1, bars |-> bars, result |-> <<>>]
            ELSE IF after[turns - 1].index > Len(bars) THEN after[turns - 1]
            ELSE Turn(after[turns - 1])
    IN  IF MergeGap = 0 THEN bars ELSE after[Len(bars)].result

-----------------------------------------------------------------------------
(* The time two sets of intervals have in common *)

Earlier(p, q) == p.start < q.start \/ (p.start = q.start /\ p.end < q.end)

\* The intervals of pieces, each at the place of those before it.
InTime(pieces) ==
    LET intervals == {[start |-> p.start, end |-> p.end] : p \in pieces} IN
    [i \in 1 .. Cardinality(intervals) |->
        CHOOSE p \in intervals : Cardinality({q \in intervals : Earlier(q, p)}) = i - 1]

AddInterval(joined, p) ==
    IF joined = <<>> \/ p.start > Last(joined).end THEN joined \o <<p>>
    ELSE [joined EXCEPT ![Len(joined)].end = Max({@, p.end})]

\* Mutant: overlapping intervals are not joined.
JoinIntervals_Apart(pieces) == InTime(pieces)

JoinIntervals(pieces) ==
    LET ordered == InTime(pieces)
        upTo[i \in 0 .. Len(ordered)] ==
            IF i = 0 THEN <<>> ELSE AddInterval(upTo[i - 1], ordered[i])
    IN  upTo[Len(ordered)]

\* One turn of the loop: what two intervals share is added, and the one that
\* ends first is left.
Meet(first, second, loop) ==
    LET p == first[loop.a]
        q == second[loop.b]
        shared == Min({p.end, q.end}) - Max({p.start, q.start})
    IN  IF loop.a > Len(first) \/ loop.b > Len(second) THEN loop
        ELSE [a |-> IF p.end < q.end THEN loop.a + 1 ELSE loop.a,
              b |-> IF p.end < q.end THEN loop.b ELSE loop.b + 1,
              total |-> loop.total + (IF shared > 0 THEN shared ELSE 0)]

IntersectionDuration(first, second) ==
    LET after[turns \in 0 .. Len(first) + Len(second)] ==
            IF turns = 0 THEN [a |-> 1, b |-> 1, total |-> 0]
            ELSE Meet(first, second, after[turns - 1])
    IN  after[Len(first) + Len(second)].total

-----------------------------------------------------------------------------
(* build_day and derive_stalls *)

Total(lanes, states) ==
    MapThenSumSet(LAMBDA l : Seconds(lanes[l], states), DOMAIN lanes)

PiecesIn(lanes, state) ==
    UNION {{lanes[l][i] : i \in {k \in DOMAIN lanes[l] : lanes[l][k].state = state}} :
              l \in DOMAIN lanes}

WindowOf(day, asOf) ==
    [start |-> day * DayLength, end |-> Min({(day + 1) * DayLength, asOf})]

Report(events, samples, overrides, project, window, asOf) ==
    LET codex == CodexLanes(events, overrides, project, window, asOf)
        gpu == GpuLanes(samples, overrides, window, asOf)
    IN  [codex |-> [s \in DOMAIN codex |-> Segments(codex[s])],
         gpu |-> [l \in DOMAIN gpu |-> Coalesce(Segments(gpu[l]))],
         active |-> Total(codex, {"active"}),
         waiting |-> Total(codex, {"waiting"}),
         stalled |-> Total(codex, {"stalled"}),
         training |-> Total(gpu, {"training"}),
         idle |-> Total(gpu, {"idle"}),
         overlap |-> IntersectionDuration(JoinIntervals(PiecesIn(codex, "active")),
                                          JoinIntervals(PiecesIn(gpu, "training")))]

BuildDay(events, samples, overrides, project, day, asOf) ==
    Report(events, samples, overrides, project, WindowOf(day, asOf), asOf)

StallsIn(lanes) ==
    UNION {{[lane |-> s, piece |-> lanes[s][i]] :
               i \in {k \in DOMAIN lanes[s] : lanes[s][k].phase = "suspected-stall"}} :
              s \in DOMAIN lanes}

\* Mutant: the diagnosis starts at the last midnight.
DeriveStalls_Today(events, overrides, project, asOf) ==
    StallsIn(CodexLanes(events, overrides, project,
                        WindowOf(asOf \div DayLength, asOf), asOf))

\* Over all of the past, without the midnights.
DeriveStalls(events, overrides, project, asOf) ==
    StallsIn(CodexLanes(events, overrides, project,
                        [start |-> 0, end |-> asOf], asOf))
=============================================================================
