---------------------------- MODULE MCHookDelivery ----------------------------
(***************************************************************************)
(* Scenes for HookDelivery: a lone hook with every kind of payload and     *)
(* every validity of the fields that decide, at either level, and casts of *)
(* two and three processes with the payloads whose identity differs.       *)
(* Events, samples and overrides have ids of their own, as they have       *)
(* tables of their own.                                                    *)
(***************************************************************************)
EXTENDS HookDelivery

CONSTANTS h1, h2, c1, c2, e1,          \* processes
          a, b,                        \* event ids
          gpu0, gpu1, phaseOf, toolOf, \* ids of samples and overrides
          s, lone, p,                  \* sessions or turns, a project
          x, y                         \* contents of samples and overrides

Empty == [kind |-> None, time |-> None, session |-> None, turn |-> None,
          project |-> None, phase |-> None, source |-> None, confidence |-> None,
          tool |-> None, active |-> None, id |-> None]

\* The identity and time of a hook, at either level.
Identities ==
    {[top |-> [Empty EXCEPT !.kind = "user-prompt", !.time = time, !.session = s,
                            !.project = project, !.id = id],
      nested |-> [Empty EXCEPT !.time = nestedTime, !.id = nestedId]] :
        time \in {None, 7, Bad}, project \in {p, Bad}, id \in {None, a, Bad},
        nestedTime \in {None, 8, Bad}, nestedId \in {None, b, Bad}}

\* The declarations of a hook, at either level.
RawKinds == {"pre-tool", "post-tool", "session-end", "phase", None, Bad}
Declared(kind, phase, source, tool, confidence, active) ==
    [top |-> [Empty EXCEPT !.kind = kind, !.phase = phase, !.source = source,
                           !.tool = tool, !.id = a],
     nested |-> [Empty EXCEPT !.phase = "coding", !.time = 8,
                              !.confidence = confidence, !.active = active]]
Declarations ==
    {Declared(kind, phase, source, None, confidence, None) :
        kind \in RawKinds, phase \in {None, "waiting-user", Bad},
        source \in {None, "inferred", Bad}, confidence \in {None, 0, 10, 11, Bad}}
    \cup {Declared(kind, None, None, tool, None, active) :
        kind \in RawKinds, tool \in {None, "bash", "make", Bad},
        active \in {None, TRUE, Bad}}

Prompt(time, id) ==
    [top |-> [Empty EXCEPT !.kind = "user-prompt", !.time = time, !.session = s,
                           !.project = p, !.id = id],
     nested |-> Empty]
Prompts == {Prompt(time, id) : time \in {None, 7}, id \in {None, a}}
               \cup {[Prompt(None, None) EXCEPT !.nested.time = 8]}

\* Sessions and turns, at either level, some of which no store can digest.
Named(session, turn, nestedSession, nestedTurn) ==
    [top |-> [Empty EXCEPT !.kind = "user-prompt", !.session = session, !.turn = turn],
     nested |-> [Empty EXCEPT !.session = nestedSession, !.turn = nestedTurn]]
Names == {Named(session, turn, nestedSession, nestedTurn) :
             session \in {None, s, lone}, turn \in {None, s, lone},
             nestedSession \in {None, lone}, nestedTurn \in {None, lone}}

LonePayloads == Identities \cup Declarations \cup Names

EveryScene ==
    [payload : LonePayloads, cast : {{h1}}]
        \cup [payload : Prompts, cast : {{h1, h2}}]
        \cup [payload : {Prompt(7, None)}, cast : {{h1, c1, c2}, {h1, c1, e1}}]
        \cup [payload : {Prompt(None, a)}, cast : {{h1, h2, e1}}]
OneLoneSession == [payload : {Named(lone, s, None, None)}, cast : {{h1, h2}}]
OneUndatedPrompt == [payload : {Prompt(None, None)}, cast : {{h1, h2}}]

Moments == {1, 2}
Delivered == {RowOf(payloadOf, second) :
                 payloadOf \in LonePayloads \cup Prompts, second \in Moments}
HookJobs == {<<>>} \cup {<<row>> : row \in Delivered}
HookIds == {row.id : row \in Delivered}
AllIds == HookIds \cup {gpu0, gpu1, phaseOf, toolOf}
AllContents == {row.content : row \in Delivered} \cup {x, y}

Good(i, c) == [id |-> i, content |-> c, valid |-> TRUE]
Invalid(i) == [id |-> i, content |-> x, valid |-> FALSE]

PassJobs == {<<>>, <<Good(gpu0, x), Good(gpu1, x)>>, <<Good(gpu0, y), Invalid(gpu1)>>}
EditorJobs == {<<>>, <<Good(phaseOf, x), Invalid(toolOf)>>}

JobsByKind ==
    [w \in Writers |-> CASE w \in Hooks -> HookJobs
                         [] w \in Passes -> PassJobs
                         [] OTHER -> EditorJobs]
=============================================================================
