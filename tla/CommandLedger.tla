---------------------------- MODULE CommandLedger ----------------------------
(***************************************************************************)
(* What the command store tells the operator about a request: it is run    *)
(* once, robots carry it out only after it was begun and each at most      *)
(* once, SUCCEEDED means that every robot it is for has, and a conclusion  *)
(* is never taken back.  A begun request may stay open for ever, and a     *)
(* robot may be late: after FAILED or TIMED_OUT nothing is known of it.    *)
(* The requests go their ways at the same time.                            *)
(***************************************************************************)
EXTENDS Naturals

CONSTANTS
    Requests,
    Robots,
    Targets     \* the robots that have to carry out each request

Conclusions == {"SUCCEEDED", "FAILED", "TIMED_OUT"}
States      == {"none", "ACCEPTED", "RUNNING"} \cup Conclusions

VARIABLES
    db,         \* the state of each request
    executed    \* how often each robot has carried it out

vars == <<db, executed>>

Init ==
    /\ db = [q \in Requests |-> "none"]
    /\ executed = [q \in Requests |-> [r \in Robots |-> 0]]

Accept(q)   == db[q] = "none" /\ db'[q] = "ACCEPTED"
Withdraw(q) == db[q] = "ACCEPTED" /\ db'[q] = "none"
Begin(q)    == db[q] = "ACCEPTED" /\ db'[q] = "RUNNING"

Conclude(q) ==
    /\ db[q] = "RUNNING" /\ db'[q] \in Conclusions
    /\ db'[q] = "SUCCEEDED" => \A r \in Targets[q] : executed'[q][r] = 1

CarryOut(q, r) ==
    /\ db[q] \in {"RUNNING"} \cup Conclusions
    /\ executed[q][r] = 0
    /\ executed'[q] = [executed[q] EXCEPT ![r] = 1]

Moves(q) ==
    /\ db'[q] = db[q] \/ Accept(q) \/ Withdraw(q) \/ Begin(q) \/ Conclude(q)
    /\ executed'[q] = executed[q] \/ \E r \in Targets[q] : CarryOut(q, r)

Next ==
    /\ db' \in [Requests -> States]
    /\ executed' \in [Requests -> [Robots -> 0 .. 1]]
    /\ \A q \in Requests : Moves(q)

Spec == Init /\ [][Next]_vars
=============================================================================
