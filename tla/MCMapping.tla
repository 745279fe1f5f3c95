----------------------------- MODULE MCMapping -----------------------------
(* Instance of MappingRunner for TLC.                                      *)
EXTENDS MappingRunner
=============================================================================
