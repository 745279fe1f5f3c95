------------------------- MODULE MCCommandDispatch -------------------------
(* Constants for model checking CommandDispatch: a stop of both robots, a  *)
(* release of one, a mode change, and a handler's command.                 *)
EXTENDS CommandDispatch

CONSTANTS r1, r2, stopAll, resetOne, mode, task

MCTwo      == {r1, r2}
MCTwoOrder == <<r1, r2>>

MCLanes    == {stopAll, mode, task}
MCLatch    == {stopAll, resetOne}

MCOp(q) == CASE q = stopAll  -> "stop"
             [] q = resetOne -> "reset_stop"
             [] q = mode     -> "set_mode"
             [] q = task     -> "task"
MCTargets(q) == IF q = stopAll THEN <<r1, r2>> ELSE <<r1>>

MCOpOf      == [q \in Requests |-> MCOp(q)]
MCTargetsOf == [q \in Requests |-> MCTargets(q)]
=============================================================================
