------------------------------ MODULE MCTimeline ------------------------------
(***************************************************************************)
(* Small instances of Timeline: Codex lanes, GPU lanes, both together, and *)
(* overrides of either.                                                    *)
(***************************************************************************)
EXTENDS Timeline

CONSTANTS s1, s2, host, p1, p2

Hook(kind, phase, active) ==
    [kind |-> kind, phase |-> phase, active |-> active, project |-> p1]
Sample(state, task, process) ==
    [state |-> state, task |-> task, explicit |-> task # "", process |-> process]
Edit(field, value, until) == [field |-> field, value |-> value, until |-> until]

\* As normalize_hook and the phase command store them.
SomeHooks == {Hook("user-prompt", "active-unspecified", FALSE),
              Hook("pre-tool", "waiting-tool", TRUE),
              Hook("post-tool", "waiting-tool", FALSE),
              Hook("stop", "waiting-user", FALSE)}
DeclaredHooks == {Hook("user-prompt", "active-unspecified", FALSE),
                  Hook("phase", "suspected-stall", FALSE), Hook("phase", "idle", FALSE),
                  Hook("phase", "waiting-tool", TRUE)}
ToolHooks == {Hook("phase", "research", FALSE), Hook("pre-tool", "waiting-tool", TRUE),
              Hook("post-tool", "active-unspecified", FALSE)}
FewHooks == {Hook("user-prompt", "active-unspecified", FALSE),
             Hook("stop", "waiting-user", FALSE)}

Prompts == {Hook("user-prompt", "active-unspecified", FALSE)}

SomeSamples == {Sample("training", "job", ""), Sample("external", "", "python3"),
                Sample("idle", "", "")}
Versions == {Sample("external", "", "python3"), Sample("external", "", "python3.10")}
TrainOrFail == {Sample("training", "job", ""), Sample("unknown", "", "")}
Training == {Sample("training", "job", "")}

Edits == {Edit("phase", "research", None), Edit("phase", "waiting-user", 2),
          Edit("project", p2, None), Edit("state", "disabled", None),
          Edit("state", "training", 2)}

G0 == <<host, 0>>
G1 == <<host, 1>>
Host == <<host, None>>
Pythons == {"python3", "python3.10"}

Scene(sessions, hooks, maxEvents, lanes, rows, maxSamples, maxOverrides, horizon) ==
    [sessions |-> sessions, hooks |-> hooks, maxEvents |-> maxEvents,
     lanes |-> lanes, samples |-> rows, maxSamples |-> maxSamples,
     edits |-> Edits, maxOverrides |-> maxOverrides, horizon |-> horizon]

AllScenes ==
    {Scene({s1}, SomeHooks, 3, {G0}, {}, 0, 0, 5),
     Scene({s1}, DeclaredHooks, 2, {G0}, {}, 0, 0, 4),
     Scene({s1}, {}, 0, {G0}, SomeSamples, 3, 0, 5),
     Scene({s1}, {}, 0, {G0}, Versions, 2, 0, 4),
     Scene({s1, s2}, Prompts, 2, {G0, G1}, Training, 2, 0, 3),
     Scene({s1}, Prompts, 1, {G0}, {}, 0, 2, 3),
     Scene({s1}, {}, 0, {G0}, Training, 1, 2, 3)}

\* One defect each.
ToolScene == {Scene({s1}, ToolHooks, 3, {G0}, {}, 0, 0, 5)}
EditScene == {Scene({s1}, FewHooks, 1, {G0}, {}, 0, 1, 3)}
FailureScene == {Scene({s1}, {}, 0, {G0, Host}, TrainOrFail, 2, 0, 4)}
=============================================================================
