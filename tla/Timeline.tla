------------------------------- MODULE Timeline -------------------------------
(***************************************************************************)
(* The timeline as its readers see it: hooks and probe passes append       *)
(* observations, editors append overrides, and at any moment somebody asks *)
(* for the report of a day (aggregate.py, build_day).  A hook may carry    *)
(* an earlier time than the last one recorded; a sample is stamped by its  *)
(* probe and recorded a little later.                                      *)
(***************************************************************************)
EXTENDS Aggregate

\* A scene says who takes part and bounds what they do:
\*   sessions, hooks (rows [kind, phase, active, project]), maxEvents,
\*   lanes (<<host, GPU>>), samples ([state, task, explicit, process]),
\*   maxSamples, edits ([field, value, until]), maxOverrides, horizon.
CONSTANTS Scenes

ASSUME ScenesAssumption == \A scn \in Scenes : scn.horizon \in Nat

VARIABLES scene,    \* constant in a behaviour
          now, events, samples, overrides
timelineVars == <<scene, now, events, samples, overrides>>

\* A digest orders rows of the same time one way or the other (spaced so
\* that it is unique); between rows of different times it does not matter.
Spacing == 8
FreshIds(rows, at) ==
    LET n == Cardinality({r \in rows : r.at = at}) IN
    {Spacing * at + n, Spacing * at - n}

Init ==
    /\ scene \in Scenes
    /\ now = 0
    /\ events = {}
    /\ samples = {}
    /\ overrides = {}

RecordHook(session, row) ==
    \E at \in 0 .. now : \E id \in FreshIds(events, at) :
        /\ Cardinality(events) < scene.maxEvents
        /\ events' = events \cup
              {[id |-> id, at |-> at, session |-> session, project |-> row.project,
                kind |-> row.kind, phase |-> row.phase, active |-> row.active]}
        /\ UNCHANGED <<scene, now, samples, overrides>>

RecordSample(lane, row) ==
    \E at \in {now, now - 1} \cap Nat : \E id \in FreshIds(samples, at) :
        /\ Cardinality(samples) < scene.maxSamples
        /\ samples' = samples \cup
              {[id |-> id, at |-> at, lane |-> lane, state |-> row.state,
                task |-> row.task, explicit |-> row.explicit, process |-> row.process]}
        /\ UNCHANGED <<scene, now, events, overrides>>

Targets ==
    {<<"event", e.id>> : e \in events} \cup {<<"sample", s.id>> : s \in samples}

\* created_at is given, or the time of the call; so is effective_from.  The
\* digest puts an override before or after all others.
RecordOverride(target, row) ==
    \E created \in 0 .. now, from \in 0 .. now + 1, sign \in {1, -1} :
        /\ Cardinality(overrides) < scene.maxOverrides
        /\ row.field \in IF target[1] = "event" THEN {"phase", "project"} ELSE {"state"}
        /\ row.until \in {None} \cup from .. scene.horizon
        /\ overrides' = overrides \cup
              {[id |-> sign * (Cardinality(overrides) + 1), target |-> target,
                field |-> row.field, value |-> row.value,
                created |-> created, from |-> from, until |-> row.until]}
        /\ UNCHANGED <<scene, now, events, samples>>

Tick ==
    /\ now < scene.horizon
    /\ now' = now + 1
    /\ UNCHANGED <<scene, events, samples, overrides>>

\* The end of what the bounds allow.
Done ==
    /\ now = scene.horizon
    /\ UNCHANGED timelineVars

Next ==
    \/ Done
    \/ \E session \in scene.sessions, row \in scene.hooks : RecordHook(session, row)
    \/ \E lane \in scene.lanes, row \in scene.samples : RecordSample(lane, row)
    \/ \E target \in Targets, row \in scene.edits : RecordOverride(target, row)
    \/ Tick

Spec == Init /\ [][Next]_timelineVars

-----------------------------------------------------------------------------
(* The report of each day so far, and of all days at once *)

Days == 0 .. now \div DayLength
Day(day) == BuildDay(events, samples, overrides, None, day, now)
Everything(rows, asOf) ==
    Report(rows, samples, overrides, None, [start |-> 0, end |-> asOf], asOf)
AllDays == Everything(events, now)

(* What is known of an instant t, by the last row at or before it *)

Read(row, type) ==
    Overridden(row, CurrentOverrides(overrides, <<type, row.id>>, now))

EventsOf(session) == Ordered({Read(e, "event") : e \in {f \in events : f.session = session}})
SamplesOf(lane) == Ordered({Read(s, "sample") : s \in {r \in samples : r.lane = lane}})

LastAt(rows, t) == Max({0} \cup {i \in DOMAIN rows : rows[i].at <= t})

SessionState(rows, t) ==
    LET i == LastAt(rows, t) IN
    IF i = 0 THEN None
    ELSE IF /\ i = Len(rows) /\ t >= rows[i].at + StallSeconds
            /\ StatesAfter(rows)[i].state = "active"
            /\ ~StatesAfter(rows)[i].active
    THEN "stalled" ELSE StatesAfter(rows)[i].state

GpuState(rows, t) ==
    LET i == LastAt(rows, t) IN
    IF i = 0 THEN None
    ELSE IF t >= rows[i].at + SampleGap THEN "unknown" ELSE rows[i].state

\* Instants are counted once for every session or GPU in that state.
SessionSeconds(state) ==
    Cardinality({p \in scene.sessions \X (0 .. now - 1) :
                    SessionState(EventsOf(p[1]), p[2]) = state})
GpuSeconds(state) ==
    Cardinality({p \in scene.lanes \X (0 .. now - 1) :
                    GpuState(SamplesOf(p[1]), p[2]) = state})
BothSeconds ==
    Cardinality({t \in 0 .. now - 1 :
        /\ \E s \in scene.sessions : SessionState(EventsOf(s), t) = "active"
        /\ \E l \in scene.lanes : GpuState(SamplesOf(l), t) = "training"})

-----------------------------------------------------------------------------
(* Properties *)

WellFormed(segments, window) ==
    \A i \in DOMAIN segments :
        /\ segments[i].start < segments[i].end
        /\ segments[i].start >= window.start /\ segments[i].end <= window.end
        /\ i > 1 => segments[i - 1].end <= segments[i].start

\* The intervals of a lane lie in their day and in the past, sorted and
\* disjoint, before and after the folding (design document, the report).
LanesWellFormed ==
    \A day \in Days :
        LET report == Day(day) IN
        \A segments \in {report.codex[s] : s \in DOMAIN report.codex}
                   \cup {report.gpu[l] : l \in DOMAIN report.gpu} :
            WellFormed(segments, WindowOf(day, now))

\* The totals of the days, cut at midnight and at the time of the report,
\* add up to what an observer counts who looks at every instant; the overlap
\* counts an instant once, however many sessions are active and GPUs training.
TotalsAreSeconds ==
    /\ MapThenSumSet(LAMBDA day : Day(day).active, Days) = SessionSeconds("active")
    /\ MapThenSumSet(LAMBDA day : Day(day).waiting, Days) = SessionSeconds("waiting")
    /\ MapThenSumSet(LAMBDA day : Day(day).stalled, Days) = SessionSeconds("stalled")
    /\ MapThenSumSet(LAMBDA day : Day(day).training, Days) = GpuSeconds("training")
    /\ MapThenSumSet(LAMBDA day : Day(day).idle, Days) = GpuSeconds("idle")
    /\ MapThenSumSet(LAMBDA day : Day(day).overlap, Days) = BothSeconds

\* Folding keeps the books: a bar is its observed time and its folded gaps,
\* which are short, and the bars of a state hold all its observed time.
BarsKeepTime ==
    \A day \in Days :
        LET bars == Day(day).gpu
            all == UNION {{<<l, i>> : i \in DOMAIN bars[l]} : l \in DOMAIN bars}
            observed(state) == MapThenSumSet(LAMBDA p : bars[p[1]][p[2]].observed,
                                   {p \in all : bars[p[1]][p[2]].state = state})
        IN  /\ \A p \in all :
                  LET bar == bars[p[1]][p[2]] IN
                  /\ bar.observed + bar.gap = bar.end - bar.start
                  /\ bar.gap <= bar.gaps * MergeGap
            /\ observed("training") = Day(day).training
            /\ observed("idle") <= Day(day).idle

\* The stalls derive_stalls lists cover, midnights or not, exactly the instants at
\* which a session is stalled.
StallsAgree ==
    LET stalls == DeriveStalls(events, overrides, None, now) IN
    \A s \in scene.sessions : \A t \in 0 .. now - 1 :
        (SessionState(EventsOf(s), t) = "stalled") <=>
            \E stall \in stalls : /\ stall.lane = s
                                  /\ stall.piece.start <= t /\ t < stall.piece.end

\* What a lane shows at an instant: phase or state, or None.
ShownCodex(report, session, t) ==
    {<<p.phase, p.event>> : p \in {report.codex[session][i] :
        i \in IF session \in DOMAIN report.codex
              THEN {k \in DOMAIN report.codex[session] :
                      /\ report.codex[session][k].start <= t
                      /\ t < report.codex[session][k].end}
              ELSE {}}}

\* The moment of a report does not count: of the same rows, a report as of an
\* earlier moment shows of the instants before it what one as of now shows
\* (_codex_segments).  A hook recorded since may rewrite what an earlier report
\* showed, a stall for one; how far is LateHookIsLocal's question.
HistorySettled ==
    overrides = {} =>
        \A earlier \in 0 .. now - 1 :
            LET before == Everything(events, earlier)
                after == AllDays
            IN  \A s \in scene.sessions : \A t \in 0 .. earlier - 1 :
                    ShownCodex(before, s, t) = ShownCodex(after, s, t)

\* A hook, however late it is recorded, leaves other sessions alone, and its
\* own session before the row it follows.
LateHookIsLocal ==
    \A e \in events :
        LET without == Everything(events \ {e}, now)
            with == AllDays
        IN  \A s \in scene.sessions : \A t \in 0 .. now - 1 :
                (\/ s # e.session
                 \/ \E f \in events \ {e} : f.session = s /\ f.at > t /\ f.at <= e.at)
                  => ShownCodex(without, s, t) = ShownCodex(with, s, t)

\* What a field reads now: a value, or nothing but what was recorded.
Reads(target, field) ==
    LET current == CurrentOverrides(overrides, target, now) IN
    IF field \in DOMAIN current THEN {current[field]} ELSE {}

Of(rows, target, field) == {o \in rows : o.target = target /\ o.field = field}

\* No override of its field in force now took effect later.
TopNow(o) ==
    \A p \in Of(overrides, o.target, o.field) : ValidAt(p, now) => p.from <= o.from

\* An override that takes effect as it is recorded is read at once, or else
\* one that takes effect with it and says it is no older.
ReadAtOnce ==
    \A o \in overrides' \ overrides : o.from = now =>
        \E p \in Of(overrides', o.target, o.field) :
            /\ p.from = now /\ p.created >= o.created
            /\ Reads(o.target, o.field)' = {p.value}

\* A field goes on to read what it reads until an override is recorded that
\* takes effect no earlier, until one recorded in advance takes effect, or
\* until the one that is read runs out.
ReadUntilReplaced ==
    \A target \in Targets, field \in {"phase", "project", "state"} :
        Reads(target, field)' # Reads(target, field) =>
            \E o \in Of(overrides', target, field) :
                /\ TopNow(o)
                /\ \/ /\ o \notin overrides \/ o.from > now
                      /\ Reads(target, field)' = {o.value}
                   \/ /\ o.until = now /\ now' = now + 1
                      /\ Reads(target, field) = {o.value}

\* Whatever the order in which overrides are recorded, created and take effect.
LatestOverrideReads == [][ReadAtOnce /\ ReadUntilReplaced]_timelineVars

\* Design document: no suspected stall is derived while a tool is active.  A
\* tool is active from its PreToolUse to the PostToolUse or Stop of the turn.
NoStallDuringTool ==
    \A s \in scene.sessions : \A t \in 0 .. now - 1 :
        LET rows == EventsOf(s)
            ended == {"post-tool", "stop", "turn-end"}
        IN  (\E i \in DOMAIN rows :
                /\ rows[i].kind = "pre-tool" /\ rows[i].at <= t
                /\ \A j \in DOMAIN rows \ {i} :
                      /\ rows[j].at # rows[i].at
                      /\ rows[j].kind \in ended => rows[j].at < rows[i].at)
              => SessionState(rows, t) # "stalled"

\* _event_state: a PostToolUse without a phase of its own restores the last
\* active phase of its session.
PhaseRestoredAfterTool ==
    \A s \in scene.sessions :
        LET rows == EventsOf(s)
            after == StatesAfter(rows)
        IN  \A i \in DOMAIN rows :
                /\ i > 2
                /\ rows[i].kind = "post-tool" /\ rows[i - 1].kind = "pre-tool"
                /\ after[i - 2].phase \in ActivePhases \ {"active-unspecified"}
                => after[i].phase = after[i - 2].phase

\* Design document: the report uses the overrides in force.  A row that is
\* read with another phase shows that phase.
OverriddenPhaseShown ==
    \A e \in events :
        LET current == CurrentOverrides(overrides, <<"event", e.id>>, now)
            rows == EventsOf(e.session)
        IN  "phase" \in DOMAIN current =>
                \A i \in DOMAIN rows :
                    rows[i].id = e.id => StatesAfter(rows)[i].phase = current["phase"]

\* Design document: after a failed probe no old sample poses as the present
\* state.  A failure is an unknown sample of the host without a GPU.
NoOldStateAfterFailure ==
    \A failure \in {s \in samples : s.lane[2] = None /\ s.at < now} :
        \A lane \in {l \in scene.lanes : l[1] = failure.lane[1] /\ l[2] # None} :
            (\A s \in samples : s.lane = lane => s.at < failure.at)
              => GpuState(SamplesOf(lane), failure.at) \in {None, "unknown"}
=============================================================================
