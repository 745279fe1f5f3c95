--------------------------- MODULE MCRobotTasks ---------------------------
(* Constants for model checking RobotTasks: two map navigations, so that   *)
(* the second can be accepted while the first is on its way.               *)
EXTENDS RobotTasks, TLC

CONSTANTS n1, n2

MCTwo == {n1, n2}

Symmetry == Permutations(Navs)
=============================================================================
