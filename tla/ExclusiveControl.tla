-------------------------- MODULE ExclusiveControl --------------------------
(***************************************************************************)
(* What the control lease promises: one login session at a time may drive, *)
(* authority ends before another session gets it, and a velocity that is   *)
(* sent to a robot comes from the session that holds it.                   *)
(***************************************************************************)
CONSTANTS Sessions, None

VARIABLES
    holder,     \* the session with control authority, or None
    driver      \* the session whose velocity was sent last, or None

vars == <<holder, driver>>

Init == holder = None /\ driver = None

Grant(s) ==
    /\ holder = None
    /\ holder' = s
    /\ UNCHANGED driver

End ==
    /\ holder # None
    /\ holder' = None
    /\ UNCHANGED driver

Drive(s) ==
    /\ holder = s
    /\ driver' = s
    /\ UNCHANGED holder

Next ==
    \/ End
    \/ \E s \in Sessions : Grant(s) \/ Drive(s)

Spec == Init /\ [][Next]_vars
=============================================================================
