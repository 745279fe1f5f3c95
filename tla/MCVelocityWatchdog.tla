------------------------ MODULE MCVelocityWatchdog ------------------------
(* Constants for model checking VelocityWatchdog: three commands, the      *)
(* release of the initial latch among them.                                *)
EXTENDS VelocityWatchdog, TLC

CONSTANTS c1, c2, c3

MCThree == {c1, c2, c3}

Symmetry == Permutations(CommandIds)
=============================================================================
