---------------------------- MODULE MCLaunchAgent -----------------------------
(***************************************************************************)
(* Small instances of LaunchAgent: two invocations of two versions.        *)
(***************************************************************************)
EXTENDS LaunchAgent

CONSTANTS c1, c2, v1, v2

TwoUpgrade == [c \in Invocations |-> IF c = c1 THEN v1 ELSE v2]
AnyCommand == [c \in Invocations |-> AllCommands]
OnlyOpen == [c \in Invocations |-> {"open"}]
=============================================================================
