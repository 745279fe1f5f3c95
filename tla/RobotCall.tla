----------------------------- MODULE RobotCall -----------------------------
(***************************************************************************)
(* What an adapter promises the services that call a robot: a call that is *)
(* accepted was executed, a call that is refused here never reaches the    *)
(* robot, no call is executed twice, and of a failed call nothing is known *)
(* - the robot may have executed it, and may do so later still.            *)
(***************************************************************************)
CONSTANT Calls

VARIABLES
    executed,   \* calls the robot has executed
    result      \* what the caller was told

Open == "none"
Results == {Open, "accepted", "refused", "failed"}

vars == <<executed, result>>

Init == executed = {} /\ result = [c \in Calls |-> Open]

Execute(c) ==
    /\ c \notin executed /\ result[c] \notin {"accepted", "refused"}
    /\ executed' = executed \cup {c}
    /\ UNCHANGED result

Return(c, r) ==
    /\ result[c] = Open
    /\ r = "accepted" => c \in executed
    /\ r = "refused" => c \notin executed
    /\ result' = [result EXCEPT ![c] = r]
    /\ UNCHANGED executed

Next == \E c \in Calls :
    \/ Execute(c)
    \/ \E r \in Results \ {Open} : Return(c, r)

Spec == Init /\ [][Next]_vars
=============================================================================
