----------------------------- MODULE LaunchAgent ------------------------------
(***************************************************************************)
(* The dashboard as a service of the user: gpu-steward timeline open and   *)
(* dashboard install, start, stop and uninstall, of                        *)
(* src/gpu_steward/timeline/cli.py and launchd.py, run at the same time by *)
(* several invocations that know nothing of each other.  They share the    *)
(* plist, the launchd service of the dashboard's label and the port 8765.  *)
(* "load" is collector start, the one command of the collector's agent     *)
(* that differs.                                                           *)
(*                                                                         *)
(* launchctl print fails when the service is not loaded; bootstrap when it *)
(* is loaded already or the plist is not there; bootout when it is not     *)
(* loaded and, with the fault of that name, also when it is.  Nobody can   *)
(* tell whether the bootstrap of a foreign plist succeeds.                 *)
(***************************************************************************)
EXTENDS FiniteSets

CONSTANTS Invocations,
          Versions,      \* of the program's arguments: executable, configuration
          Installs,      \* [Invocations -> the version it would install]
          Commands,      \* [Invocations -> the commands it may be]
          Faults,        \* a subset of AllFaults
          None, Foreign  \* no plist; the plist of an unrelated service

AllCommands == {"open", "install", "start", "load", "stop", "uninstall"}

\* A health check that times out, a plist that cannot be written, a browser that
\* refuses, a dashboard that is late, an invocation that is killed, a bootout
\* that fails and leaves the service loaded.
AllFaults == {"slow", "write", "browser", "late", "kill", "bootout"}

ASSUME InstallsAssumption ==
    /\ Installs \in [Invocations -> Versions]
    /\ Commands \in [Invocations -> SUBSET AllCommands]
    /\ Faults \subseteq AllFaults
    /\ {None, Foreign} \cap Versions = {} /\ None # Foreign

VARIABLES
    plist,      \* the version in it, None or Foreign
    loaded,     \* the version launchd has read, or None
    process,    \* of the service: "none", "starting" or "serving"
    manual,     \* a `timeline serve` of the user has the port
    command,    \* [Invocations -> its command, once begun]
    pc,         \* [Invocations -> its next step, or how it ended]
    dead,       \* invocations killed before their next step
    seen,       \* [Invocations -> what others did to plist and service meanwhile]
    swallowed   \* invocations that went on after the bootout of a loaded service failed
launchd == <<loaded, process>>
agentVars == <<plist, loaded, process, manual, command, pc, dead, seen, swallowed>>

Ended == {"ok", "failed"}
Steps == {"check", "exists", "read", "write", "replace", "load", "status", "again",
          "stop", "unlink", "wait", "browser"}
Effects == {"write", "remove", "load", "unload"}

TypeOK ==
    /\ plist \in Versions \cup {None, Foreign}
    /\ loaded \in Versions \cup {None}
    /\ process \in {"none", "starting", "serving"}
    /\ manual \in BOOLEAN
    /\ command \in [Invocations -> AllCommands \cup {None}]
    /\ pc \in [Invocations -> {"idle"} \cup Steps \cup Ended]
    /\ dead \subseteq Invocations
    /\ seen \in [Invocations -> SUBSET Effects]
    /\ swallowed \subseteq Invocations
    /\ process # "none" => loaded # None
    /\ process = "serving" => ~manual

Init ==
    /\ plist \in Versions \cup {None, Foreign}
    /\ loaded \in Versions \cup {None}
    /\ plist \in Versions /\ loaded # None => loaded = plist
    /\ process = "none" /\ manual = FALSE
    /\ command = [c \in Invocations |-> None]
    /\ pc = [c \in Invocations |-> "idle"]
    /\ dead = {}
    /\ seen = [c \in Invocations |-> {}]
    /\ swallowed = {}

Available == manual \/ process = "serving"
Running(c) == pc[c] \in Steps /\ c \notin dead

-----------------------------------------------------------------------------
(* The steps of the commands *)

Goto(c, next) == pc' = [pc EXCEPT ![c] = next]

\* c has had these effects, maybe none.
Effect(c, effects) ==
    seen' = [d \in Invocations |-> IF d # c /\ Running(d) THEN seen[d] \cup effects
                                   ELSE seen[d]]

\* Mutant: uninstall only removes the plist.
FirstStep_KeepsService(name) ==
    CASE name = "open" -> "check"
      [] name = "install" -> "exists"
      [] name = "start" -> "status"
      [] name = "load" -> "load"
      [] name = "stop" -> "stop"
      [] name = "uninstall" -> "exists"

FirstStep(name) ==
    CASE name = "open" -> "check"
      [] name = "install" -> "exists"
      [] name = "start" -> "status"
      [] name = "load" -> "load"
      [] name \in {"stop", "uninstall"} -> "stop"

Begin(c) ==
    /\ pc[c] = "idle"
    /\ \E name \in Commands[c] : /\ command' = [command EXCEPT ![c] = name]
                                 /\ Goto(c, FirstStep(name))
    /\ UNCHANGED <<plist, launchd, manual, dead, seen, swallowed>>

Check(c) ==
    /\ pc[c] = "check"
    /\ \/ Available /\ Goto(c, "browser")
       \/ (~Available \/ "slow" \in Faults) /\ Goto(c, "exists")
    /\ Effect(c, {})
    /\ UNCHANGED <<plist, launchd, manual, command, dead, swallowed>>

\* os.path.exists of install and uninstall ...
Exists(c) ==
    /\ pc[c] = "exists"
    /\ Goto(c, CASE plist # None -> "read"
                 [] plist = None /\ command[c] # "uninstall" -> "write"
                 [] plist = None /\ command[c] = "uninstall" -> "ok")
    /\ Effect(c, {})
    /\ UNCHANGED <<plist, launchd, manual, command, dead, swallowed>>

Ours == plist \in Versions

\* ... and _read_spec_label, which fails when the file is gone by then.
Read(c) ==
    /\ pc[c] = "read"
    /\ Goto(c, CASE ~Ours -> "failed"
                 [] Ours /\ command[c] # "uninstall" -> "write"
                 [] Ours /\ command[c] = "uninstall" -> "unlink")
    /\ Effect(c, {})
    /\ UNCHANGED <<plist, launchd, manual, command, dead, swallowed>>

\* Mutant: installation leaves a running service alone.
AfterWrite_Ensure == "status"
AfterWrite == "replace"

\* _write_private_atomic: the file is replaced as a whole.
Write(c) ==
    /\ pc[c] = "write"
    /\ \/ /\ plist' = Installs[c]
          /\ Goto(c, AfterWrite)
          /\ Effect(c, {"write"})
       \/ /\ "write" \in Faults
          /\ Goto(c, "failed")
          /\ Effect(c, {}) /\ UNCHANGED plist
    /\ UNCHANGED <<launchd, manual, command, dead, swallowed>>

Unlink(c) ==
    /\ pc[c] = "unlink"
    /\ plist' = None
    /\ Goto(c, IF plist = None THEN "failed" ELSE "ok")
    /\ Effect(c, {"remove"})
    /\ UNCHANGED <<launchd, manual, command, dead, swallowed>>

\* replace_started and uninstall do not care whether bootout fails, stop does.
AfterBootout(c, succeeds) ==
    CASE pc[c] = "replace" -> "load"
      [] pc[c] = "stop" /\ command[c] = "uninstall" -> "exists"
      [] pc[c] = "stop" /\ command[c] # "uninstall" -> IF succeeds THEN "ok" ELSE "failed"

\* launchctl bootout.
Bootout(c) ==
    /\ pc[c] \in {"replace", "stop"}
    /\ \/ /\ loaded' = None /\ process' = "none"
          /\ Goto(c, AfterBootout(c, loaded # None))
          /\ Effect(c, {"unload"})
          /\ UNCHANGED swallowed
       \/ /\ "bootout" \in Faults /\ loaded # None
          /\ Goto(c, AfterBootout(c, FALSE))
          /\ swallowed' = swallowed \cup {c}
          /\ Effect(c, {})
          /\ UNCHANGED launchd
    /\ UNCHANGED <<plist, manual, command, dead>>

\* Mutant: a start that loses a race does not look again.
AfterRefusal_Fails(name) == "failed"
AfterRefusal(name) == IF name = "start" THEN "again" ELSE "failed"

AfterSuccess(name) == IF name = "open" THEN "wait" ELSE "ok"

\* launchctl bootstrap.  That of a foreign plist may load a service, but not ours.
Bootstrap(c) ==
    /\ pc[c] = "load"
    /\ \/ /\ Ours /\ loaded = None
          /\ loaded' = plist /\ process' = "starting"
          /\ Goto(c, AfterSuccess(command[c]))
          /\ Effect(c, {"load"})
       \/ /\ plist = Foreign
          /\ Goto(c, AfterSuccess(command[c]))
          /\ Effect(c, {}) /\ UNCHANGED launchd
       \/ /\ Ours => loaded # None
          /\ Goto(c, AfterRefusal(command[c]))
          /\ Effect(c, {}) /\ UNCHANGED launchd
    /\ UNCHANGED <<plist, manual, command, dead, swallowed>>

\* The two launchctl print of ensure_started.
Status(c) ==
    /\ pc[c] \in {"status", "again"}
    /\ Goto(c, CASE loaded # None -> AfterSuccess(command[c])
                 [] loaded = None /\ pc[c] = "status" -> "load"
                 [] loaded = None /\ pc[c] = "again" -> "failed")
    /\ Effect(c, {})
    /\ UNCHANGED <<plist, launchd, manual, command, dead, swallowed>>

GivesUp == "late" \in Faults

Wait(c) ==
    /\ pc[c] = "wait"
    /\ \/ Available /\ Goto(c, "browser")
       \/ GivesUp /\ Goto(c, "failed")
    /\ Effect(c, {})
    /\ UNCHANGED <<plist, launchd, manual, command, dead, swallowed>>

Browse(c) ==
    /\ pc[c] = "browser"
    /\ \/ Goto(c, "ok")
       \/ "browser" \in Faults /\ Goto(c, "failed")
    /\ Effect(c, {})
    /\ UNCHANGED <<plist, launchd, manual, command, dead, swallowed>>

Die(c) ==
    /\ Running(c) /\ "kill" \in Faults
    /\ dead' = dead \cup {c}
    /\ UNCHANGED <<plist, launchd, manual, command, pc, seen, swallowed>>

Step(c) ==
    /\ c \notin dead
    /\ \/ Check(c) \/ Exists(c) \/ Read(c) \/ Write(c) \/ Unlink(c) \/ Bootout(c)
       \/ Bootstrap(c) \/ Status(c) \/ Wait(c) \/ Browse(c)

-----------------------------------------------------------------------------
(* launchd's KeepAlive, the dashboard process and the user's own *)

Unmoved == UNCHANGED <<plist, loaded, command, pc, dead, seen, swallowed>>

\* The process binds the port or, when that is taken, ends.
Bound == IF manual THEN "none" ELSE "serving"

Bind ==
    /\ process = "starting"
    /\ process' = Bound
    /\ UNCHANGED manual /\ Unmoved

\* Mutant: the plist does not ask to be kept alive.
KeepAlive_Once == FALSE
KeepAlive == TRUE

Restart ==
    /\ loaded # None /\ process = "none" /\ KeepAlive
    /\ process' = "starting"
    /\ UNCHANGED manual /\ Unmoved

Crash ==
    /\ process = "serving"
    /\ process' = "none"
    /\ UNCHANGED manual /\ Unmoved

ManualServe ==
    /\ ~Available \/ manual
    /\ manual' = ~manual
    /\ UNCHANGED process /\ Unmoved

Service == Bind \/ Restart
Next ==
    \/ \E c \in Invocations : Begin(c) \/ Step(c) \/ Die(c)
    \/ Bind \/ Restart \/ Crash \/ ManualServe

Spec == Init /\ [][Next]_agentVars
FairSpec ==
    /\ Spec
    /\ \A c \in Invocations : WF_agentVars(Step(c))
    /\ WF_agentVars(Service)

-----------------------------------------------------------------------------
(* Properties *)

\* The install or open that wrote the plist and has not replaced the service:
\* about to, killed just then, or ended with an error.
WroteOnly(c) ==
    /\ command[c] \in {"open", "install"} /\ Installs[c] = plist
    /\ pc[c] \in {"replace", "load", "failed"}

\* "Installation is also the upgrade path": a service that is loaded has the
\* arguments of the plist, unless the one that wrote them has not replaced the
\* service and has not reported success, however installs, starts and opens
\* interleave and whichever bootout fails (replace_started,
\* _install_dashboard_agent).
NoStaleService ==
    plist \in Versions /\ loaded \notin {None, plist} => \E c \in Invocations : WroteOnly(c)

\* The plist of an unrelated service stays as it is (install_launch_agent,
\* uninstall_launch_agent).
ForeignUntouched == [][plist = Foreign => plist' = Foreign]_agentVars

\* What a command that reports success has brought about.  uninstall swallows a
\* bootout that fails, and then the service may go on without a plist.
Meant(c) ==
    CASE command[c] = "install" ->
            /\ plist' \in Versions /\ loaded' = plist'
            /\ "write" \notin seen[c] => plist' = Installs[c]
      [] command[c] \in {"start", "load"} -> loaded' # None
      [] command[c] = "stop" -> loaded' = None
      [] command[c] = "uninstall" ->
            /\ plist' = None
            /\ loaded' # None => c \in swallowed \/ "load" \in seen[c]
      [] command[c] = "open" -> TRUE

Ends(c, how) == pc[c] \in Steps /\ pc'[c] = how

\* A command that reports success has done what it says, whatever others did
\* meanwhile and whatever those that failed or were killed left behind: an
\* install runs the plist, its own unless another one was written meanwhile;
\* after an uninstall nothing is loaded unless another command loaded it or the
\* bootout failed.  A start with a foreign plist is the exception (dispatch).
SuccessIsReal ==
    [][\A c \in Invocations :
          Ends(c, "ok") /\ plist # Foreign => Meant(c)]_agentVars

\* ensure_started "handles the race where another invocation loads the same
\* user service concurrently": as long as others only load, too, a start that
\* finds the plist succeeds, and the service is loaded.
StartsAgree ==
    [][\A c \in Invocations :
          /\ command[c] = "start" /\ seen[c] \subseteq {"load"} /\ plist \in Versions
          /\ pc[c] \in Steps /\ pc'[c] \in Ended
          => pc'[c] = "ok" /\ loaded' # None]_agentVars

\* A service that stays loaded answers again and again, whatever crashes and
\* whoever takes the port for a while (KeepAlive).
ServiceComesBack == <>[](loaded # None) => []<>Available

\* Every invocation comes to an end, an open that waits for a service that
\* another one removes, too (_wait_for_dashboard).
EveryInvocationEnds ==
    \A c \in Invocations : [](Running(c) => <>~Running(c))

\* However opens wait and others stop, crash or replace what they wait for,
\* the invocations end and the service that remains is there.
DashboardProgress == EveryInvocationEnds /\ ServiceComesBack

\* ensure_started "makes repeated `timeline open` and bootstrap invocations
\* idempotent" and "handles the race": opens do not fail because of each other.
OpenIdempotent ==
    \A c \in Invocations : command[c] = "open" /\ plist # Foreign => pc[c] # "failed"
=============================================================================
