-------------------------- MODULE MCMissionService --------------------------
(* Constants for model checking MissionService.                            *)
EXTENDS MissionService

CONSTANTS m1

MCOne == {m1}
=============================================================================
