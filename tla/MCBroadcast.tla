---------------------------- MODULE MCBroadcast ----------------------------
(***************************************************************************)
(* An instance of Broadcast for TLC.  An int of 30 values is just enough   *)
(* for three clients and two characters, and the keys are the two ends of  *)
(* int, so that sums wrap around in both directions.                       *)
(***************************************************************************)
EXTENDS Broadcast

CharLimit == 2
IntValues == 30
SomeKeys  == {-15, 14}

TwoUsers     == {0, 1}
EmptyAndLong == {<<>>, <<1, 2>>}
=============================================================================
