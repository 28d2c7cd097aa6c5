-------------------------- MODULE LaunchAgentProof ----------------------------
(***************************************************************************)
(* Proofs about LaunchAgent, for any number of invocations and versions.   *)
(***************************************************************************)
EXTENDS LaunchAgent, TLAPS

USE DEF AllCommands, Ended, Steps, Effects

\* What the others have seen stays a set of effects.
LEMMA EffectType ==
    ASSUME TypeOK, NEW c \in Invocations, NEW effects \in SUBSET Effects, Effect(c, effects)
    PROVE  seen' \in [Invocations -> SUBSET Effects]
BY DEF TypeOK, Effect

\* A jump moves only its own invocation.
LEMMA GotoType ==
    ASSUME TypeOK, NEW c \in Invocations, NEW next \in Steps \cup Ended, Goto(c, next)
    PROVE  /\ pc' \in [Invocations -> {"idle"} \cup Steps \cup Ended]
           /\ pc'[c] = next
           /\ \A d \in Invocations \ {c} : pc'[d] = pc[d]
BY DEF TypeOK, Goto

\* A step of one invocation moves no other.
LEMMA MovesOwn ==
    ASSUME TypeOK, NEW c \in Invocations, Begin(c) \/ Step(c),
           NEW d \in Invocations \ {c}
    PROVE  pc'[d] = pc[d]
<1>1. CASE Begin(c)
  BY <1>1 DEF Begin, Goto, TypeOK
<1>2. CASE Check(c) \/ Exists(c) \/ Read(c)
  BY <1>2 DEF Check, Exists, Read, Goto, TypeOK
<1>3. CASE Write(c) \/ Unlink(c) \/ Bootout(c)
  BY <1>3 DEF Write, Unlink, Bootout, Goto, TypeOK
<1>4. CASE Bootstrap(c)
  BY <1>4 DEF Bootstrap, Goto, TypeOK
<1>5. CASE Status(c) \/ Wait(c) \/ Browse(c)
  BY <1>5 DEF Status, Wait, Browse, Goto, TypeOK
<1> QED
  BY <1>1, <1>2, <1>3, <1>4, <1>5 DEF Step

\* Every step keeps the types.
LEMMA StepTypes == TypeOK /\ [Next]_agentVars => TypeOK'
<1> SUFFICES ASSUME TypeOK, [Next]_agentVars PROVE TypeOK'
  OBVIOUS
<1>1. ASSUME NEW c \in Invocations, Begin(c) PROVE TypeOK'
  <2>1. PICK name \in Commands[c] : /\ command' = [command EXCEPT ![c] = name]
                                    /\ Goto(c, FirstStep(name))
    BY <1>1 DEF Begin
  <2>2. name \in AllCommands
    BY InstallsAssumption
  <2>3. FirstStep(name) \in Steps
    BY <2>2 DEF FirstStep
  <2> QED
    BY <1>1, <2>1, <2>2, <2>3, GotoType DEF Begin, TypeOK, launchd
<1>2. ASSUME NEW c \in Invocations, Check(c) PROVE TypeOK'
  BY <1>2, GotoType, EffectType DEF Check, TypeOK, launchd
<1>3. ASSUME NEW c \in Invocations, Exists(c) PROVE TypeOK'
  <2>1. \E next \in Steps \cup Ended : Goto(c, next)
    BY <1>3 DEF Exists
  <2> QED
    BY <1>3, <2>1, GotoType, EffectType DEF Exists, TypeOK, launchd
<1>4. ASSUME NEW c \in Invocations, Read(c) PROVE TypeOK'
  <2>1. \E next \in Steps \cup Ended : Goto(c, next)
    BY <1>4 DEF Read
  <2> QED
    BY <1>4, <2>1, GotoType, EffectType DEF Read, TypeOK, launchd
<1>5. ASSUME NEW c \in Invocations, Write(c) PROVE TypeOK'
  <2>1. \E next \in Steps \cup Ended : Goto(c, next)
    BY <1>5 DEF Write, AfterWrite
  <2>2. \E effects \in SUBSET Effects : Effect(c, effects)
    BY <1>5 DEF Write
  <2>3. plist' \in Versions \cup {None, Foreign}
    BY <1>5, InstallsAssumption DEF Write, TypeOK
  <2> QED
    BY <1>5, <2>1, <2>2, <2>3, GotoType, EffectType DEF Write, TypeOK, launchd
<1>6. ASSUME NEW c \in Invocations, Unlink(c) PROVE TypeOK'
  <2>1. \E next \in Steps \cup Ended : Goto(c, next)
    BY <1>6 DEF Unlink
  <2> QED
    BY <1>6, <2>1, GotoType, EffectType DEF Unlink, TypeOK, launchd
<1>7. ASSUME NEW c \in Invocations, Bootout(c) PROVE TypeOK'
  <2>1. \E next \in Steps \cup Ended : Goto(c, next)
    BY <1>7 DEF Bootout, AfterBootout
  <2>2. \E effects \in SUBSET Effects : Effect(c, effects)
    BY <1>7 DEF Bootout
  <2>3. /\ loaded' \in Versions \cup {None} /\ swallowed' \subseteq Invocations
        /\ process' \in {"none", "starting", "serving"}
        /\ process' # "none" => loaded' # None
        /\ process' = "serving" => ~manual
    BY <1>7 DEF Bootout, TypeOK, launchd
  <2> QED
    BY <1>7, <2>1, <2>2, <2>3, GotoType, EffectType DEF Bootout, TypeOK
<1>8. ASSUME NEW c \in Invocations, Bootstrap(c) PROVE TypeOK'
  <2>1. \E next \in Steps \cup Ended : Goto(c, next)
    BY <1>8 DEF Bootstrap, AfterSuccess, AfterRefusal
  <2>2. \E effects \in SUBSET Effects : Effect(c, effects)
    BY <1>8 DEF Bootstrap
  <2>3. /\ loaded' \in Versions \cup {None}
        /\ process' \in {"none", "starting", "serving"}
        /\ process' # "none" => loaded' # None
        /\ process' = "serving" => ~manual
    BY <1>8, InstallsAssumption DEF Bootstrap, Ours, TypeOK, launchd
  <2> QED
    BY <1>8, <2>1, <2>2, <2>3, GotoType, EffectType DEF Bootstrap, TypeOK
<1>9. ASSUME NEW c \in Invocations, Status(c) PROVE TypeOK'
  <2>1. \E next \in Steps \cup Ended : Goto(c, next)
    BY <1>9 DEF Status, AfterSuccess
  <2> QED
    BY <1>9, <2>1, GotoType, EffectType DEF Status, TypeOK, launchd
<1>10. ASSUME NEW c \in Invocations, Wait(c) PROVE TypeOK'
  BY <1>10, GotoType, EffectType DEF Wait, TypeOK, launchd
<1>11. ASSUME NEW c \in Invocations, Browse(c) PROVE TypeOK'
  BY <1>11, GotoType, EffectType DEF Browse, TypeOK, launchd
<1>12. ASSUME NEW c \in Invocations, Die(c) PROVE TypeOK'
  BY <1>12 DEF Die, TypeOK, launchd
<1>13. CASE Bind
  BY <1>13 DEF Bind, Bound, Unmoved, TypeOK
<1>14. CASE Restart
  BY <1>14 DEF Restart, Unmoved, TypeOK
<1>15. CASE Crash
  BY <1>15 DEF Crash, Unmoved, TypeOK
<1>16. CASE ManualServe
  BY <1>16 DEF ManualServe, Available, Unmoved, TypeOK
<1>17. CASE UNCHANGED agentVars
  BY <1>17 DEF agentVars, TypeOK, launchd
<1> QED
  BY <1>1, <1>2, <1>3, <1>4, <1>5, <1>6, <1>7, <1>8, <1>9, <1>10, <1>11, <1>12,
     <1>13, <1>14, <1>15, <1>16, <1>17 DEF Next, Step

\* The type invariant: among its parts, that launchd runs a process only of a
\* loaded service and that the port has one owner (Bind, ManualServe).
THEOREM AgentTypes == Spec => []TypeOK
<1>1. Init => TypeOK
  BY DEF Init, TypeOK
<1> QED
  BY <1>1, StepTypes, PTL DEF Spec

-----------------------------------------------------------------------------
(* Each command has a path of its own.                                     *)

Path(name) ==
    CASE name = "open" -> {"check", "exists", "read", "write", "replace", "load",
                           "wait", "browser"}
      [] name = "install" -> {"exists", "read", "write", "replace", "load"}
      [] name = "start" -> {"status", "load", "again"}
      [] name = "load" -> {"load"}
      [] name = "stop" -> {"stop"}
      [] name = "uninstall" -> {"stop", "exists", "read", "unlink"}

Routes ==
    \A c \in Invocations :
        pc[c] \in Steps => command[c] \in AllCommands /\ pc[c] \in Path(command[c])

\* A step of a command leads on along its path, or to its end.
LEMMA StepOnPath ==
    ASSUME TypeOK, Routes, NEW c \in Invocations, Step(c)
    PROVE  /\ pc[c] \in Steps /\ c \notin dead /\ pc'[c] \in Steps \cup Ended
           /\ pc'[c] \in Steps => pc'[c] \in Path(command[c])
           /\ UNCHANGED <<command, dead>>
<1>1. pc[c] \in Steps => command[c] \in AllCommands /\ pc[c] \in Path(command[c])
  BY DEF Routes
<1>2. CASE Check(c) \/ Wait(c) \/ Browse(c)
  BY <1>1, <1>2 DEF Step, Check, Wait, Browse, Goto, TypeOK, Path
<1>3. CASE Exists(c)
  BY <1>1, <1>3 DEF Step, Exists, Goto, TypeOK, Path
<1>4. CASE Read(c)
  BY <1>1, <1>4 DEF Step, Read, Goto, TypeOK, Path
<1>5. CASE Write(c)
  BY <1>1, <1>5 DEF Step, Write, AfterWrite, Goto, TypeOK, Path
<1>6. CASE Unlink(c)
  BY <1>1, <1>6 DEF Step, Unlink, Goto, TypeOK, Path
<1>7. CASE Bootout(c)
  <2>1. PICK succeeds \in BOOLEAN : Goto(c, AfterBootout(c, succeeds))
    BY <1>7 DEF Bootout
  <2> QED
    BY <1>1, <1>7, <2>1 DEF Step, Bootout, AfterBootout, Goto, TypeOK, Path
<1>8. CASE Bootstrap(c)
  BY <1>1, <1>8 DEF Step, Bootstrap, AfterSuccess, AfterRefusal, Goto, TypeOK, Path
<1>9. CASE Status(c)
  BY <1>1, <1>9 DEF Step, Status, AfterSuccess, Goto, TypeOK, Path
<1> QED BY <1>2, <1>3, <1>4, <1>5, <1>6, <1>7, <1>8, <1>9 DEF Step

\* Every step keeps the invocations on their paths.
LEMMA RoutesKept == TypeOK /\ Routes /\ [Next]_agentVars => Routes'
<1> SUFFICES ASSUME TypeOK, Routes, [Next]_agentVars PROVE Routes'
  OBVIOUS
<1>1. ASSUME NEW c \in Invocations, Begin(c) PROVE Routes'
  <2>1. PICK name \in Commands[c] : /\ command' = [command EXCEPT ![c] = name]
                                    /\ Goto(c, FirstStep(name))
    BY <1>1 DEF Begin
  <2>2. name \in AllCommands
    BY InstallsAssumption
  <2>3. FirstStep(name) \in Path(name) /\ FirstStep(name) \in Steps
    BY <2>2 DEF FirstStep, Path
  <2>4. /\ pc'[c] = FirstStep(name) /\ command'[c] = name
        /\ \A d \in Invocations \ {c} : pc'[d] = pc[d] /\ command'[d] = command[d]
    BY <1>1, <2>1, <2>3, GotoType DEF Begin, TypeOK
  <2> QED BY <2>2, <2>3, <2>4 DEF Routes
<1>2. ASSUME NEW c \in Invocations, Step(c) PROVE Routes'
  BY <1>2, StepOnPath, MovesOwn DEF Routes
<1>3. CASE (\E c \in Invocations : Die(c)) \/ Bind \/ Restart \/ Crash \/ ManualServe
  BY <1>3 DEF Die, Bind, Restart, Crash, ManualServe, Unmoved, Routes
<1>4. CASE UNCHANGED agentVars
  BY <1>4 DEF agentVars, Routes
<1> QED BY <1>1, <1>2, <1>3, <1>4 DEF Next

-----------------------------------------------------------------------------
(* Two facts carry the action properties: a writer has found no foreign    *)
(* plist, and there never is one later; and a start that was refused has   *)
(* lost to another one, unless others did more than load.                  *)

WriterLooked ==
    \A c \in Invocations : pc[c] \in {"write", "unlink"} => plist # Foreign

RefusedMeansLoaded ==
    \A c \in Invocations :
        /\ command[c] = "start" /\ pc[c] = "again" /\ c \notin dead
        /\ seen[c] \subseteq {"load"} /\ plist \in Versions
        => loaded # None

IInv == TypeOK /\ Routes /\ NoStaleService /\ WriterLooked /\ RefusedMeansLoaded

\* IInv holds before the first command.
LEMMA InitIInv == Init => IInv
<1> SUFFICES ASSUME Init PROVE IInv
  OBVIOUS
<1>1. TypeOK /\ Routes
  BY DEF Init, TypeOK, Routes
<1>2. NoStaleService /\ WriterLooked /\ RefusedMeansLoaded
  BY InstallsAssumption DEF Init, NoStaleService, WriterLooked, RefusedMeansLoaded
<1> QED
  BY <1>1, <1>2 DEF IInv

\* What a step may do to the service is seen by the others that are running.
LEMMA OthersSee ==
    ASSUME TypeOK, NEW c \in Invocations, NEW effects \in SUBSET Effects,
           Effect(c, effects), NEW d \in Invocations \ {c}, Running(d)
    PROVE  seen'[d] = seen[d] \cup effects
BY DEF TypeOK, Effect

\* A running invocation forgets no effect it has seen.
LEMMA OthersKeep ==
    ASSUME TypeOK, NEW c \in Invocations, NEW effects \in SUBSET Effects,
           Effect(c, effects), NEW d \in Invocations
    PROVE  seen[d] \subseteq seen'[d] /\ (d = c => seen'[d] = seen[d])
BY DEF TypeOK, Effect

\* The rest of IInv depends on plist, loaded, the writers and the starters: a
\* step that moves none of these keeps it.
LEMMA QuietStep ==
    ASSUME IInv, NEW c \in Invocations, UNCHANGED <<plist, loaded, command, dead>>,
           NEW next \in Steps \cup Ended, Goto(c, next),
           plist \in Versions /\ WroteOnly(c) => next \in {"load", "failed"},
           next = "write" => plist # Foreign,
           next = "unlink" => plist # Foreign,
           next = "again" /\ command[c] = "start" /\ plist \in Versions => loaded # None,
           \A d \in Invocations : seen[d] \subseteq seen'[d]
    PROVE  NoStaleService' /\ WriterLooked' /\ RefusedMeansLoaded'
<1>1. TypeOK
  BY DEF IInv
<1>2. /\ pc'[c] = next
      /\ \A d \in Invocations \ {c} : pc'[d] = pc[d]
  BY <1>1, GotoType
<1>3. NoStaleService'
  <2>1. \A d \in Invocations : plist \in Versions /\ WroteOnly(d) => WroteOnly(d)'
    BY <1>2 DEF WroteOnly
  <2> QED
    BY <2>1 DEF IInv, NoStaleService
<1>4. WriterLooked'
  BY <1>2 DEF IInv, WriterLooked
<1>5. RefusedMeansLoaded'
  BY <1>2 DEF IInv, RefusedMeansLoaded
<1> QED
  BY <1>3, <1>4, <1>5

\* Every step keeps IInv.
LEMMA StepIInv == IInv /\ [Next]_agentVars => IInv'
<1> SUFFICES ASSUME IInv, [Next]_agentVars, TypeOK'
             PROVE  NoStaleService' /\ WriterLooked' /\ RefusedMeansLoaded'
  BY StepTypes, RoutesKept DEF IInv
<1>0. TypeOK /\ Routes /\ NoStaleService /\ WriterLooked /\ RefusedMeansLoaded
  BY DEF IInv
<1>1. ASSUME NEW c \in Invocations, Begin(c)
      PROVE  NoStaleService' /\ WriterLooked' /\ RefusedMeansLoaded'
  <2>1. PICK name \in Commands[c] : /\ command' = [command EXCEPT ![c] = name]
                                    /\ Goto(c, FirstStep(name))
    BY <1>1 DEF Begin
  <2>2. name \in AllCommands
    BY InstallsAssumption
  <2>3. FirstStep(name) \in Steps \ {"write", "unlink", "again", "replace"}
    BY <2>2 DEF FirstStep
  <2>4. /\ pc[c] = "idle" /\ pc'[c] \in Steps \ {"write", "unlink", "again", "replace"}
        /\ \A d \in Invocations \ {c} : pc'[d] = pc[d] /\ command'[d] = command[d]
    BY <1>0, <1>1, <2>1, <2>3, GotoType DEF Begin, TypeOK
  <2>5. NoStaleService'
    <3>1. \A d \in Invocations : WroteOnly(d) => WroteOnly(d)'
      BY <1>1, <2>4 DEF Begin, WroteOnly
    <3> QED
      BY <1>0, <1>1, <3>1 DEF Begin, NoStaleService, launchd
  <2> QED
    BY <1>0, <1>1, <2>4, <2>5 DEF Begin, WriterLooked, RefusedMeansLoaded, launchd
<1>2. ASSUME NEW c \in Invocations, Check(c) \/ Wait(c) \/ Browse(c)
      PROVE  NoStaleService' /\ WriterLooked' /\ RefusedMeansLoaded'
  <2>1. Effect(c, {}) /\ UNCHANGED <<plist, loaded, command, dead>> /\ ~WroteOnly(c)
    BY <1>2 DEF Check, Wait, Browse, WroteOnly, launchd
  <2>2. \E next \in {"browser", "exists", "ok", "failed"} : Goto(c, next)
    BY <1>2 DEF Check, Wait, Browse
  <2> QED
    BY <1>0, <2>1, <2>2, QuietStep, OthersKeep
<1>3. ASSUME NEW c \in Invocations, Exists(c)
      PROVE  NoStaleService' /\ WriterLooked' /\ RefusedMeansLoaded'
  <2>1. Effect(c, {}) /\ UNCHANGED <<plist, loaded, command, dead>> /\ ~WroteOnly(c)
    BY <1>3 DEF Exists, WroteOnly, launchd
  <2>2. \E next \in {"read", "write", "ok"} :
           Goto(c, next) /\ (next = "write" => plist = None)
    BY <1>3 DEF Exists
  <2> QED
    BY <1>0, <2>1, <2>2, QuietStep, OthersKeep, InstallsAssumption
<1>4. ASSUME NEW c \in Invocations, Read(c)
      PROVE  NoStaleService' /\ WriterLooked' /\ RefusedMeansLoaded'
  <2>1. Effect(c, {}) /\ UNCHANGED <<plist, loaded, command, dead>> /\ ~WroteOnly(c)
    BY <1>4 DEF Read, WroteOnly, launchd
  <2>2. \E next \in {"failed", "write", "unlink"} :
           Goto(c, next) /\ (next # "failed" => plist \in Versions)
    BY <1>4 DEF Read, Ours
  <2>3. Foreign \notin Versions
    BY InstallsAssumption
  <2> QED
    BY <1>0, <2>1, <2>2, <2>3, QuietStep, OthersKeep
<1>5. ASSUME NEW c \in Invocations, Status(c)
      PROVE  NoStaleService' /\ WriterLooked' /\ RefusedMeansLoaded'
  <2>1. Effect(c, {}) /\ UNCHANGED <<plist, loaded, command, dead>> /\ ~WroteOnly(c)
    BY <1>5 DEF Status, WroteOnly, launchd
  <2>2. \E next \in {"failed", "ok", "wait", "load"} : Goto(c, next)
    BY <1>5 DEF Status, AfterSuccess
  <2> QED
    BY <1>0, <2>1, <2>2, QuietStep, OthersKeep
<1>6. ASSUME NEW c \in Invocations, Write(c)
      PROVE  NoStaleService' /\ WriterLooked' /\ RefusedMeansLoaded'
  <2>1. CASE plist' = Installs[c] /\ Goto(c, AfterWrite) /\ Effect(c, {"write"})
    <3>1. /\ pc'[c] = "replace"
          /\ \A d \in Invocations \ {c} : pc'[d] = pc[d]
      BY <1>0, <2>1, GotoType DEF AfterWrite
    <3>2. plist' \in Versions /\ plist' # Foreign
      BY <2>1, InstallsAssumption
    <3>3. NoStaleService' /\ WriterLooked'
      <4>1. command'[c] \in {"open", "install"}
        BY <1>0, <1>6 DEF Write, Routes, Path
      <4>2. WroteOnly(c)'
        BY <2>1, <3>1, <4>1 DEF WroteOnly
      <4> QED
        BY <3>1, <3>2, <4>2 DEF NoStaleService, WriterLooked
    <3>4. \A d \in Invocations \ {c} :
             pc[d] = "again" /\ d \notin dead => "write" \in seen'[d]
      <4> SUFFICES ASSUME NEW d \in Invocations \ {c}, pc[d] = "again", d \notin dead
                   PROVE  "write" \in seen'[d]
        OBVIOUS
      <4>1. Running(d)
        BY DEF Running
      <4> QED
        BY <1>0, <2>1, <4>1, OthersSee
    <3>5. RefusedMeansLoaded'
      BY <1>6, <3>1, <3>4 DEF RefusedMeansLoaded, Write
    <3> QED
      BY <3>3, <3>5
  <2>2. CASE Goto(c, "failed") /\ Effect(c, {}) /\ UNCHANGED plist
    <3>1. UNCHANGED <<plist, loaded, command, dead>> /\ ~WroteOnly(c)
      BY <1>6, <2>2 DEF Write, WroteOnly, launchd
    <3> QED
      BY <1>0, <2>2, <3>1, QuietStep, OthersKeep
  <2> QED
    BY <1>6, <2>1, <2>2 DEF Write
<1>7. ASSUME NEW c \in Invocations, Unlink(c)
      PROVE  NoStaleService' /\ WriterLooked' /\ RefusedMeansLoaded'
  BY <1>0, <1>7, InstallsAssumption
  DEF Unlink, NoStaleService, WriterLooked, RefusedMeansLoaded
<1>8. ASSUME NEW c \in Invocations, Bootout(c)
      PROVE  NoStaleService' /\ WriterLooked' /\ RefusedMeansLoaded'
  <2>1. PICK next \in {"load", "exists", "failed", "ok"} :
          Goto(c, next) /\ (pc[c] = "replace" => next = "load")
    BY <1>8 DEF Bootout, AfterBootout
  <2>2. /\ pc'[c] \in {"load", "exists", "failed", "ok"}
        /\ \A d \in Invocations \ {c} : pc'[d] = pc[d]
    BY <1>0, <2>1, GotoType
  <2>3. CASE loaded' = None /\ Effect(c, {"unload"})
    <3>1. NoStaleService'
      BY <2>3 DEF NoStaleService
    <3>2. WriterLooked'
      BY <1>0, <1>8, <2>2 DEF Bootout, WriterLooked
    <3>3. \A d \in Invocations \ {c} :
             pc[d] = "again" /\ d \notin dead => "unload" \in seen'[d]
      <4> SUFFICES ASSUME NEW d \in Invocations \ {c}, pc[d] = "again", d \notin dead
                   PROVE  "unload" \in seen'[d]
        OBVIOUS
      <4>1. Running(d)
        BY DEF Running
      <4> QED
        BY <1>0, <2>3, <4>1, OthersSee
    <3>4. RefusedMeansLoaded'
      BY <1>8, <2>2, <3>3 DEF RefusedMeansLoaded, Bootout
    <3> QED
      BY <3>1, <3>2, <3>4
  <2>4. CASE Effect(c, {}) /\ UNCHANGED launchd
    <3>1. UNCHANGED <<plist, loaded, command, dead>>
      BY <1>8, <2>4 DEF Bootout, launchd
    <3>2. WroteOnly(c) => next = "load"
      BY <1>8, <2>1 DEF Bootout, WroteOnly
    <3> QED
      BY <1>0, <2>1, <2>4, <3>1, <3>2, QuietStep, OthersKeep
  <2> QED
    BY <1>8, <2>3, <2>4 DEF Bootout
<1>9. ASSUME NEW c \in Invocations, Bootstrap(c)
      PROVE  NoStaleService' /\ WriterLooked' /\ RefusedMeansLoaded'
  <2>1. CASE plist \in Versions /\ loaded = None
    <3>1. loaded' = plist /\ UNCHANGED <<plist, command, dead>> /\ loaded' # None
      BY <1>9, <2>1, InstallsAssumption DEF Bootstrap, Ours
    <3>2. PICK next \in {"wait", "ok"} : Goto(c, next)
      BY <1>9, <2>1, InstallsAssumption DEF Bootstrap, Ours, AfterSuccess
    <3>3. /\ pc'[c] \in {"wait", "ok"}
          /\ \A d \in Invocations \ {c} : pc'[d] = pc[d]
      BY <1>0, <3>2, GotoType
    <3> QED
      BY <1>0, <3>1, <3>3 DEF NoStaleService, WriterLooked, RefusedMeansLoaded
  <2>2. CASE ~(plist \in Versions /\ loaded = None)
    <3>1. UNCHANGED <<plist, loaded, command, dead>> /\ Effect(c, {})
      BY <1>9, <2>2 DEF Bootstrap, Ours, launchd
    <3>2. PICK next \in {"wait", "ok", "again", "failed"} :
            /\ Goto(c, next)
            /\ plist \in Versions => next = AfterRefusal(command[c])
      BY <1>9, <2>2, InstallsAssumption DEF Bootstrap, Ours, AfterSuccess, AfterRefusal
    <3>3. plist \in Versions /\ WroteOnly(c) => next = "failed"
      BY <3>2 DEF WroteOnly, AfterRefusal
    <3> QED
      BY <1>0, <2>2, <3>1, <3>2, <3>3, QuietStep, OthersKeep
  <2> QED
    BY <2>1, <2>2
<1>10. ASSUME NEW c \in Invocations, Die(c)
       PROVE  NoStaleService' /\ WriterLooked' /\ RefusedMeansLoaded'
  BY <1>0, <1>10
  DEF Die, NoStaleService, WroteOnly, WriterLooked, RefusedMeansLoaded, launchd
<1>11. CASE Bind \/ Restart \/ Crash \/ ManualServe
  BY <1>0, <1>11
  DEF Bind, Restart, Crash, ManualServe, Unmoved, NoStaleService, WroteOnly,
      WriterLooked, RefusedMeansLoaded
<1>12. CASE UNCHANGED agentVars
  BY <1>0, <1>12
  DEF agentVars, launchd, NoStaleService, WroteOnly, WriterLooked, RefusedMeansLoaded
<1> QED
  BY <1>1, <1>2, <1>3, <1>4, <1>5, <1>6, <1>7, <1>8, <1>9, <1>10, <1>11, <1>12
  DEF Next, Step

\* IInv holds in every reachable state.
LEMMA AgentIInv == Spec => []IInv
BY InitIInv, StepIInv, PTL DEF Spec

\* A loaded service has the arguments of the plist, unless the install or open
\* that wrote them has not replaced it and has not reported success
\* (replace_started).
THEOREM AgentNotStale == Spec => []NoStaleService
<1>1. IInv => NoStaleService
  BY DEF IInv
<1> QED
  BY <1>1, AgentIInv, PTL

\* The plist of an unrelated service is never overwritten or removed
\* (install_launch_agent, uninstall_launch_agent).
THEOREM AgentSparesForeign == Spec => ForeignUntouched
<1>1. IInv /\ [Next]_agentVars => [plist = Foreign => plist' = Foreign]_agentVars
  <2> SUFFICES ASSUME IInv, Next, plist = Foreign PROVE plist' = Foreign
    OBVIOUS
  <2>1. \A c \in Invocations : ~Write(c) /\ ~Unlink(c)
    BY DEF IInv, WriterLooked, Write, Unlink
  <2> QED
    BY <2>1
    DEF Next, Step, Begin, Check, Exists, Read, Bootout, Bootstrap, Status, Wait, Browse,
        Die, Bind, Restart, Crash, ManualServe, Unmoved
<1> QED
  BY <1>1, AgentIInv, PTL DEF Spec, ForeignUntouched

\* A start that only races with others that load the service succeeds, and
\* leaves it loaded (ensure_started).
THEOREM AgentStartsAgree == Spec => StartsAgree
<1> DEFINE Agrees ==
      \A c \in Invocations :
          /\ command[c] = "start" /\ seen[c] \subseteq {"load"} /\ plist \in Versions
          /\ pc[c] \in Steps /\ pc'[c] \in Ended
          => pc'[c] = "ok" /\ loaded' # None
<1>1. IInv /\ [Next]_agentVars => [Agrees]_agentVars
  <2> SUFFICES ASSUME IInv, Next, NEW c \in Invocations,
                      command[c] = "start", seen[c] \subseteq {"load"},
                      plist \in Versions, pc[c] \in Steps, pc'[c] \in Ended
               PROVE  pc'[c] = "ok" /\ loaded' # None
    OBVIOUS
  <2>0. TypeOK /\ Routes /\ RefusedMeansLoaded
    BY DEF IInv
  <2>1. pc'[c] # pc[c]
    OBVIOUS
  <2>2. Step(c)
    <3>1. PICK d \in Invocations : Begin(d) \/ Step(d) \/ Die(d)
      BY <2>1 DEF Next, Bind, Restart, Crash, ManualServe, Unmoved
    <3>2. d = c
      BY <2>0, <2>1, <3>1, MovesOwn DEF Die
    <3> QED
      BY <2>1, <3>1, <3>2 DEF Begin, Die
  <2>3. pc[c] \in {"status", "load", "again"} /\ c \notin dead
    BY <2>0, <2>2 DEF Step, Routes, Path
  <2>4. CASE Bootstrap(c)
    <3>1. plist # None /\ plist # Foreign
      BY InstallsAssumption
    <3>2. loaded = None
      BY <2>0, <2>4, <3>1 DEF Bootstrap, Ours, AfterRefusal, Goto, TypeOK
    <3> QED
      BY <2>0, <2>4, <3>1, <3>2 DEF Bootstrap, Ours, AfterSuccess, Goto, TypeOK
  <2>5. CASE Status(c)
    <3>1. pc[c] = "again" => loaded # None
      BY <2>0, <2>3 DEF RefusedMeansLoaded
    <3> QED
      BY <2>0, <2>3, <2>5, <3>1 DEF Status, AfterSuccess, Goto, TypeOK, launchd
  <2> QED
    BY <2>2, <2>3, <2>4, <2>5
    DEF Step, Check, Exists, Read, Write, Unlink, Bootout, Wait, Browse
<1> QED
  BY <1>1, AgentIInv, PTL DEF Spec, StartsAgree

-----------------------------------------------------------------------------
(* What a success means: what a command has brought about so far is there, *)
(* as long as no other one has done the one thing that takes it away.      *)

DoneSoFar ==
    \A c \in Invocations : Running(c) =>
        /\ command[c] = "install" /\ pc[c] \in {"replace", "load"} /\ "write" \notin seen[c]
              => plist \in {None, Installs[c]}
        /\ command[c] = "uninstall" /\ pc[c] \in {"exists", "read", "unlink"}
              => loaded = None \/ c \in swallowed \/ "load" \in seen[c]

\* A plist that is written and a service that is loaded show to those that are
\* running.
LEMMA ChangesShow ==
    ASSUME TypeOK, NEW c \in Invocations, Step(c)
    PROVE  \E effects \in SUBSET Effects :
              /\ Effect(c, effects)
              /\ "write" \notin effects => plist' \in {plist, None}
              /\ "load" \notin effects => loaded' \in {loaded, None}
              /\ swallowed \subseteq swallowed'
<1>1. CASE Check(c) \/ Exists(c) \/ Read(c) \/ Status(c) \/ Wait(c) \/ Browse(c)
  <2>1. Effect(c, {}) /\ UNCHANGED <<plist, loaded, swallowed>>
    BY <1>1 DEF Check, Exists, Read, Status, Wait, Browse, launchd
  <2> QED BY <2>1
<1>2. CASE Write(c)
  <2>1. /\ Effect(c, {"write"}) \/ (Effect(c, {}) /\ UNCHANGED plist)
        /\ UNCHANGED <<loaded, swallowed>>
    BY <1>2 DEF Write, launchd
  <2> QED BY <2>1
<1>3. CASE Unlink(c)
  <2>1. Effect(c, {"remove"}) /\ plist' = None /\ UNCHANGED <<loaded, swallowed>>
    BY <1>3 DEF Unlink, launchd
  <2> QED BY <2>1
<1>4. CASE Bootout(c)
  <2>1. /\ Effect(c, {"unload"}) \/ Effect(c, {})
        /\ loaded' \in {loaded, None} /\ UNCHANGED plist /\ swallowed \subseteq swallowed'
    BY <1>4 DEF Bootout, launchd
  <2> QED BY <2>1
<1>5. CASE Bootstrap(c)
  <2>1. /\ Effect(c, {"load"}) \/ (Effect(c, {}) /\ UNCHANGED loaded)
        /\ UNCHANGED <<plist, swallowed>>
    BY <1>5 DEF Bootstrap, launchd
  <2> QED BY <2>1
<1> QED BY <1>1, <1>2, <1>3, <1>4, <1>5 DEF Step

\* A step keeps what its own command and the others have brought about.
LEMMA StepDone ==
    ASSUME TypeOK, Routes, DoneSoFar, NEW c \in Invocations, Step(c)
    PROVE  DoneSoFar'
<1>1. PICK effects \in SUBSET Effects :
        /\ Effect(c, effects)
        /\ "write" \notin effects => plist' \in {plist, None}
        /\ "load" \notin effects => loaded' \in {loaded, None}
        /\ swallowed \subseteq swallowed'
  BY ChangesShow
<1>2. UNCHANGED <<command, dead>> /\ c \notin dead /\ pc[c] \in Steps
      /\ pc[c] \in Path(command[c]) /\ command[c] \in AllCommands
  BY StepOnPath DEF Routes
<1>3. ASSUME NEW d \in Invocations \ {c}, Running(d)'
      PROVE  /\ /\ command[d] = "install" /\ pc'[d] \in {"replace", "load"}
                /\ "write" \notin seen'[d]
                => plist' \in {None, Installs[d]}
             /\ command[d] = "uninstall" /\ pc'[d] \in {"exists", "read", "unlink"}
                   => loaded' = None \/ d \in swallowed' \/ "load" \in seen'[d]
  <2>1. pc'[d] = pc[d] /\ Running(d)
    BY <1>2, <1>3, MovesOwn DEF Running
  <2>2. seen'[d] = seen[d] \cup effects
    BY <1>1, <2>1, OthersSee
  <2> QED BY <1>1, <2>1, <2>2 DEF DoneSoFar
<1>4. ASSUME Running(c)'
      PROVE  /\ /\ command[c] = "install" /\ pc'[c] \in {"replace", "load"}
                /\ "write" \notin seen'[c]
                => plist' \in {None, Installs[c]}
             /\ command[c] = "uninstall" /\ pc'[c] \in {"exists", "read", "unlink"}
                   => loaded' = None \/ c \in swallowed' \/ "load" \in seen'[c]
  <2>1. seen'[c] = seen[c] /\ Running(c)
    BY <1>1, <1>2, <1>4, OthersKeep DEF Running
  <2>2. /\ command[c] = "install" /\ pc[c] \in {"replace", "load"} /\ "write" \notin seen[c]
              => plist \in {None, Installs[c]}
        /\ command[c] = "uninstall" /\ pc[c] \in {"exists", "read", "unlink"}
              => loaded = None \/ c \in swallowed \/ "load" \in seen[c]
    BY <2>1 DEF DoneSoFar
  <2>3. CASE Check(c) \/ Wait(c) \/ Browse(c)
    BY <1>2, <2>3 DEF Check, Wait, Browse, Goto, TypeOK, Path
  <2>4. CASE Exists(c)
    BY <1>2, <2>1, <2>2, <2>4 DEF Exists, Goto, TypeOK, launchd
  <2>5. CASE Read(c)
    BY <1>2, <2>1, <2>2, <2>5 DEF Read, Goto, TypeOK, launchd
  <2>6. CASE Write(c)
    BY <1>2, <2>6 DEF Write, AfterWrite, Goto, TypeOK
  <2>7. CASE Unlink(c)
    BY <2>7 DEF Unlink, Goto, TypeOK
  <2>8. CASE Bootout(c)
    <3>1. PICK succeeds \in BOOLEAN : Goto(c, AfterBootout(c, succeeds))
      BY <2>8 DEF Bootout
    <3>2. loaded' = None \/ c \in swallowed'
      BY <2>8 DEF Bootout
    <3>3. pc'[c] \in {"replace", "load"} => pc[c] = "replace" /\ UNCHANGED plist
      BY <2>8, <3>1 DEF Bootout, AfterBootout, Goto, TypeOK
    <3> QED BY <2>1, <2>2, <3>2, <3>3
  <2>9. CASE Bootstrap(c)
    BY <1>2, <2>9 DEF Bootstrap, AfterSuccess, AfterRefusal, Goto, TypeOK
  <2>10. CASE Status(c)
    BY <1>2, <2>10 DEF Status, AfterSuccess, Goto, TypeOK, Path
  <2> QED BY <2>3, <2>4, <2>5, <2>6, <2>7, <2>8, <2>9, <2>10 DEF Step
<1> QED BY <1>2, <1>3, <1>4 DEF DoneSoFar

\* Every step keeps what the commands have brought about.
LEMMA DoneKept == TypeOK /\ Routes /\ DoneSoFar /\ [Next]_agentVars => DoneSoFar'
<1> SUFFICES ASSUME TypeOK, Routes, DoneSoFar, [Next]_agentVars PROVE DoneSoFar'
  OBVIOUS
<1>1. ASSUME NEW c \in Invocations, Begin(c) PROVE DoneSoFar'
  <2>1. PICK name \in Commands[c] : /\ command' = [command EXCEPT ![c] = name]
                                    /\ Goto(c, FirstStep(name))
    BY <1>1 DEF Begin
  <2>2. name \in AllCommands
    BY InstallsAssumption
  <2>3. /\ FirstStep(name) \in Steps
        /\ name = "install" => FirstStep(name) = "exists"
        /\ name = "uninstall" => FirstStep(name) = "stop"
    BY <2>2 DEF FirstStep
  <2>4. /\ pc'[c] = FirstStep(name) /\ command'[c] = name
        /\ \A d \in Invocations \ {c} : pc'[d] = pc[d] /\ command'[d] = command[d]
        /\ UNCHANGED <<plist, loaded, dead, seen, swallowed>>
    BY <1>1, <2>1, <2>3, GotoType DEF Begin, TypeOK, launchd
  <2> QED BY <2>3, <2>4 DEF DoneSoFar, Running
<1>2. ASSUME NEW c \in Invocations, Step(c) PROVE DoneSoFar'
  BY <1>2, StepDone
<1>3. ASSUME NEW c \in Invocations, Die(c) PROVE DoneSoFar'
  BY <1>3 DEF Die, DoneSoFar, Running, launchd
<1>4. CASE Bind \/ Restart \/ Crash \/ ManualServe
  BY <1>4 DEF Bind, Restart, Crash, ManualServe, Unmoved, DoneSoFar, Running
<1>5. CASE UNCHANGED agentVars
  BY <1>5 DEF agentVars, launchd, DoneSoFar, Running
<1> QED BY <1>1, <1>2, <1>3, <1>4, <1>5 DEF Next

\* A command that reports success has done what it says, for any number of
\* invocations and whatever the others do, fail at or leave behind: an install
\* runs the plist, its own unless another one was written meanwhile, and after
\* an uninstall nothing is loaded but what another command loaded or a bootout
\* that failed, which uninstall swallows, left loaded (dispatch).
THEOREM AgentSuccessIsReal == Spec => SuccessIsReal
<1> DEFINE Real == \A c \in Invocations :
                      Ends(c, "ok") /\ plist # Foreign => Meant(c)
           Inv == TypeOK /\ Routes /\ DoneSoFar
<1>1. Init => Inv
  <2>1. Init => TypeOK
    BY DEF Init, TypeOK
  <2>2. Init => Routes /\ DoneSoFar
    BY DEF Init, Routes, DoneSoFar, Running
  <2> QED BY <2>1, <2>2
<1>2. Inv /\ [Next]_agentVars => Inv'
  BY StepTypes, RoutesKept, DoneKept
<1>3. Inv /\ [Next]_agentVars => [Real]_agentVars
  <2> SUFFICES ASSUME Inv, Next, NEW c \in Invocations,
                      pc[c] \in Steps, pc'[c] = "ok", plist # Foreign
               PROVE  Meant(c)
    BY DEF Ends
  <2>1. pc'[c] # pc[c]
    OBVIOUS
  <2>2. Step(c)
    <3>1. PICK d \in Invocations : Begin(d) \/ Step(d) \/ Die(d)
      BY <2>1 DEF Next, Bind, Restart, Crash, ManualServe, Unmoved
    <3>2. d = c
      BY <2>1, <3>1, MovesOwn DEF Die
    <3> QED BY <2>1, <3>1, <3>2 DEF Begin, Die
  <2>3. /\ command[c] \in AllCommands /\ pc[c] \in Path(command[c])
        /\ command[c] = "install" /\ pc[c] \in {"replace", "load"} /\ "write" \notin seen[c]
              => plist \in {None, Installs[c]}
        /\ command[c] = "uninstall" /\ pc[c] \in {"exists", "read", "unlink"}
              => loaded = None \/ c \in swallowed \/ "load" \in seen[c]
    BY <2>2, StepOnPath DEF Routes, DoneSoFar, Running
  <2>4. CASE Check(c) \/ Read(c) \/ Write(c)
    BY <2>4 DEF Check, Read, Write, AfterWrite, Goto, TypeOK
  <2>5. CASE Exists(c)
    BY <2>3, <2>5 DEF Exists, Goto, TypeOK, launchd, Meant
  <2>6. CASE Unlink(c)
    BY <2>3, <2>6 DEF Unlink, Goto, TypeOK, launchd, Meant, Path
  <2>7. CASE Bootout(c)
    <3>1. PICK succeeds \in BOOLEAN :
            /\ Goto(c, AfterBootout(c, succeeds))
            /\ succeeds => loaded' = None
      BY <2>7 DEF Bootout
    <3>2. pc[c] = "stop" /\ command[c] # "uninstall" /\ succeeds
      BY <2>7, <3>1 DEF Bootout, AfterBootout, Goto, TypeOK
    <3> QED BY <2>3, <3>1, <3>2 DEF Meant, Path
  <2>8. CASE Bootstrap(c)
    <3>1. pc[c] = "load" /\ plist' = plist
      BY <2>8 DEF Bootstrap
    <3>2. plist \in Versions /\ loaded' = plist /\ plist # None
      BY <2>8, InstallsAssumption DEF Bootstrap, Ours, AfterRefusal, Goto, TypeOK
    <3> QED BY <2>3, <3>1, <3>2 DEF Meant, Path
  <2>9. CASE Status(c)
    <3>1. loaded # None /\ loaded' = loaded /\ pc[c] \in {"status", "again"}
      BY <2>9 DEF Status, Goto, TypeOK, launchd
    <3> QED BY <2>3, <3>1 DEF Meant, Path
  <2>10. CASE Wait(c) \/ Browse(c)
    BY <2>3, <2>10 DEF Wait, Browse, Meant, Path
  <2> QED BY <2>2, <2>4, <2>5, <2>6, <2>7, <2>8, <2>9, <2>10 DEF Step
<1> QED
  <2>1. Spec => []Inv
    BY <1>1, <1>2, PTL DEF Spec
  <2> HIDE DEF Inv, Real
  <2>2. Spec => [][Real]_agentVars
    BY <1>3, <2>1, PTL DEF Spec
  <2> QED BY <2>2 DEF SuccessIsReal, Real
=============================================================================
