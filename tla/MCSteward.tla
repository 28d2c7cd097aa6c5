------------------------------ MODULE MCSteward ------------------------------
(***************************************************************************)
(* Small instances of Steward: names for the tasks and the request shapes  *)
(* the configurations choose from.                                         *)
(***************************************************************************)
EXTENDS Steward

CONSTANTS t1, t2

Flexible == [min |-> 1, max |-> NoMaximum, priority |-> 0]
Double == [min |-> 2, max |-> 2, priority |-> 1]
Pair == [min |-> 2, max |-> NoMaximum, priority |-> 1]
Triple == [min |-> 3, max |-> NoMaximum, priority |-> 0]

FlexibleOrDouble == {Flexible, Double}
FlexibleOrPair == {Flexible, Pair}
FlexibleOrTriple == {Flexible, Triple}
=============================================================================
