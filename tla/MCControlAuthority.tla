------------------------ MODULE MCControlAuthority ------------------------
(* Constants for model checking ControlAuthority: two operators that       *)
(* compete for the lease.                                                  *)
EXTENDS ControlAuthority

CONSTANTS s1, s2, r1

MCSessions == {s1, s2}
MCOne      == {r1}
MCOneOrder == <<r1>>
=============================================================================
