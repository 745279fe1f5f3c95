----------------------------- MODULE RosAdapter -----------------------------
(***************************************************************************)
(* RosbridgeAdapter for one robot: the _run task that opens, subscribes,   *)
(* reads and reopens the web socket, the calls other tasks send over it,   *)
(* and the robot state assembled from what arrives.                        *)
(*                                                                         *)
(* A task is cut at its awaits.  During the backoff after an exception the *)
(* entry in _sockets stays: calls are still written to it, and, when the   *)
(* exception came from handling a message, still reach the robot, while    *)
(* nobody reads their answers.  Rosbridge and robot are external: a request *)
(* once received is executed even when the client is gone, an answer only  *)
(* comes back over the connection of its request.                          *)
(***************************************************************************)
EXTENDS Naturals

CONSTANTS
    Calls,          \* commands given to execute(), each once
    Navigations,    \* the navigate commands among them
    Posts,          \* and those published as a topic; the others stop
    Topics,         \* subscribed topics whose content is kept
    MaxFaults,      \* bound: failed openings and broken connections
    Delays          \* number of reconnect delays

ASSUME AdapterAssumption ==
    /\ Navigations \subseteq Calls /\ Posts \subseteq Calls \ Navigations
    /\ "goal" \notin Topics
    /\ MaxFaults \in Nat /\ Delays \in Nat \ {0}

Fields   == Topics \cup {"goal"}
Sockets  == 1 .. MaxFaults + 1      \* connections are numbered
NoSocket == 0
Verdicts == {"accepted", "rejected"}
Phases   == {"off", "opening", "up", "backoff"}
Results  == {"none", "refused", "timeout", "broken", "closed"} \cup Verdicts

VARIABLES
    phase,      \* where the _run task is
    socket,     \* the entry in _sockets
    alive,      \* its transport carries data
    opened,     \* connections so far
    retry,      \* index of the next delay
    faults,     \* the bounded counter
    pending,    \* _service_calls: the socket a call was sent over, or NoSocket
    future,     \* its future: "none" until it is set
    result,     \* what execute() returned
    wire,       \* <<call, socket>>: requests not yet executed by the robot
    answers,    \* <<call, socket, verdict>>: answers on their way back
    executed,   \* calls the robot has executed
    event,      \* the command event emitted for a call
    shown       \* per field of the state: the connection it came over

connection == <<phase, socket, alive, opened, retry, faults>>
tables     == <<pending, future, result, event>>
robot      == <<wire, answers, executed>>
vars       == <<connection, tables, robot, shown>>

Init ==
    /\ phase = "opening" /\ socket = NoSocket /\ alive = FALSE
    /\ opened = 0 /\ retry = 0 /\ faults = 0
    /\ pending = [c \in Calls |-> NoSocket]
    /\ future = [c \in Calls |-> "none"]
    /\ result = [c \in Calls |-> "none"]
    /\ wire = {} /\ answers = {} /\ executed = {}
    /\ event = [c \in Calls |-> "none"]
    /\ shown = [f \in Fields |-> NoSocket]

---------------------------------------------------------------------------
(* The _run task.                                                          *)

ForgetTopics == [f \in Fields |-> IF f \in Topics THEN NoSocket ELSE shown[f]]  \* mutant of Forget
Forget == [f \in Fields |-> NoSocket]           \* _mark_disconnected

OpenResets ==   \* mutant of Open: being connected counts as stable
    /\ phase = "opening" /\ opened <= MaxFaults
    /\ phase' = "up" /\ socket' = opened + 1 /\ alive' = TRUE
    /\ opened' = opened + 1 /\ retry' = 0
    /\ UNCHANGED <<faults, tables, robot, shown>>

Open ==         \* _mark_connected and _subscribe
    /\ phase = "opening" /\ opened <= MaxFaults
    /\ phase' = "up" /\ socket' = opened + 1 /\ alive' = TRUE
    /\ opened' = opened + 1
    /\ UNCHANGED <<retry, faults, tables, robot, shown>>

BackOffPastEnd ==   \* mutant of BackOff: the index of the delay is not capped
    phase' = "backoff" /\ retry' = retry + 1 /\ shown' = Forget

BackOff ==      \* the except branch: the state is forgotten, the socket stays
    /\ phase' = "backoff"
    /\ retry' = IF retry = Delays THEN retry ELSE retry + 1
    /\ shown' = Forget

OpenFails ==
    /\ phase = "opening" /\ faults < MaxFaults
    /\ faults' = faults + 1
    /\ BackOff
    /\ UNCHANGED <<socket, alive, opened, tables, robot>>

Break ==        \* the transport dies, seen or not
    /\ alive /\ faults < MaxFaults
    /\ alive' = FALSE /\ faults' = faults + 1
    /\ UNCHANGED <<phase, socket, opened, retry, tables, robot, shown>>

ReadFails ==    \* recv raises
    /\ phase = "up" /\ ~ alive
    /\ BackOff
    /\ UNCHANGED <<socket, alive, opened, faults, tables, robot>>

HandlerFails == \* a message raises in its handler; the transport is fine
    /\ phase = "up" /\ alive /\ faults < MaxFaults
    /\ faults' = faults + 1
    /\ BackOff
    /\ UNCHANGED <<socket, alive, opened, tables, robot>>

BackoffGivesUp ==   \* mutant of BackoffEnds: as many attempts as there are delays
    /\ phase = "backoff" /\ retry < Delays
    /\ phase' = "opening" /\ socket' = NoSocket /\ alive' = FALSE
    /\ UNCHANGED <<opened, retry, faults, tables, robot, shown>>

BackoffEnds ==  \* sleep, then finally: pop and close
    /\ phase = "backoff"
    /\ phase' = "opening" /\ socket' = NoSocket /\ alive' = FALSE
    /\ UNCHANGED <<opened, retry, faults, tables, robot, shown>>

Receives == phase = "up" /\ alive
Heard    == retry' = 0                  \* a message made the connection stable

Message(t) ==
    /\ Receives
    /\ shown' = [shown EXCEPT ![t] = socket]
    /\ Heard
    /\ UNCHANGED <<phase, socket, alive, opened, faults, tables, robot>>

ResultOnly(v) == "accepted"             \* mutant of Verdict: rosbridge's result field
Verdict(v) == v                         \* values.accepted of the answer
Completes(c, n) == pending[c] = n /\ future[c] = "none"

(* _complete_service_call.  The entry leaves _service_calls here already;  *)
(* pending keeps it until execute() returns, which nothing else reads.     *)
Answer(c, v) ==
    /\ Receives /\ <<c, socket, v>> \in answers
    /\ answers' = answers \ {<<c, socket, v>>}
    /\ Heard
    /\ IF Completes(c, socket)
       THEN /\ future' = [future EXCEPT ![c] = Verdict(v)]
            /\ event' = [event EXCEPT ![c] = Verdict(v)]
            /\ shown' = [shown EXCEPT !["goal"] =
                            IF Verdict(v) # "accepted" THEN @ ELSE IF c \in Navigations THEN socket ELSE NoSocket]
       ELSE UNCHANGED <<future, event, shown>>
    /\ UNCHANGED <<phase, socket, alive, opened, faults, pending, result, wire, executed>>

---------------------------------------------------------------------------
(* execute(), in the tasks of its callers.                                 *)

Return(c, r) ==
    /\ result' = [result EXCEPT ![c] = r]
    /\ pending' = [pending EXCEPT ![c] = NoSocket]

New(c)    == result[c] = "none" /\ pending[c] = NoSocket
Waits(c)  == result[c] = "none" /\ pending[c] # NoSocket

Refuse(c) ==            \* ROSBRIDGE_OFFLINE
    /\ New(c) /\ socket = NoSocket
    /\ Return(c, "refused")
    /\ UNCHANGED <<connection, future, event, robot, shown>>

Send(c) ==
    /\ New(c) /\ socket # NoSocket /\ c \notin Posts
    /\ pending' = [pending EXCEPT ![c] = socket]
    /\ wire' = IF alive THEN wire \cup {<<c, socket>>} ELSE wire
    /\ UNCHANGED <<connection, future, result, event, answers, executed, shown>>

Post(c) ==              \* initial_pose: written is accepted, nothing comes back
    /\ New(c) /\ socket # NoSocket /\ c \in Posts
    /\ wire' = IF alive THEN wire \cup {<<c, socket>>} ELSE wire
    /\ Return(c, "accepted")
    /\ event' = [event EXCEPT ![c] = "accepted"]
    /\ UNCHANGED <<connection, future, answers, executed, shown>>

WriteFails(c) ==        \* ROSBRIDGE_WRITE_FAILED
    /\ New(c) /\ socket # NoSocket /\ ~ alive
    /\ Return(c, "broken")
    /\ UNCHANGED <<connection, future, event, robot, shown>>

Resume(c) ==
    /\ Waits(c) /\ future[c] # "none"
    /\ Return(c, future[c])
    /\ UNCHANGED <<connection, future, event, robot, shown>>

TimeoutAsOffline(c) ==  \* mutant of Timeout: a changed connection is reported as offline
    /\ Waits(c)
    /\ Return(c, IF pending[c] = socket THEN "timeout" ELSE "refused")
    /\ UNCHANGED <<connection, future, event, robot, shown>>

Timeout(c) ==           \* also when the future was set but the task has not run yet
    /\ Waits(c)
    /\ Return(c, "timeout")
    /\ UNCHANGED <<connection, future, event, robot, shown>>

Connect ==
    /\ phase = "off" /\ opened <= MaxFaults
    /\ phase' = "opening" /\ retry' = 0
    /\ UNCHANGED <<socket, alive, opened, faults, tables, robot, shown>>

Close ==                \* tasks are cancelled, then pending futures are set
    /\ phase # "off" /\ faults < MaxFaults
    /\ faults' = faults + 1
    /\ phase' = "off" /\ socket' = NoSocket /\ alive' = FALSE
    /\ future' = [c \in Calls |-> IF Waits(c) /\ future[c] = "none" THEN "closed" ELSE future[c]]
    /\ shown' = Forget
    /\ UNCHANGED <<opened, retry, pending, result, event, robot>>

---------------------------------------------------------------------------
(* Rosbridge and the robot.                                                *)

Execute(c, n, v) ==
    /\ <<c, n>> \in wire
    /\ wire' = wire \ {<<c, n>>}
    /\ executed' = IF v = "accepted" THEN executed \cup {c} ELSE executed
    /\ answers' = IF c \in Posts THEN answers ELSE answers \cup {<<c, n, v>>}
    /\ UNCHANGED <<connection, tables, shown>>

Lose(c, n) ==           \* what a dead connection still carried
    /\ ~ (alive /\ n = socket)
    /\ \/ <<c, n>> \in wire /\ wire' = wire \ {<<c, n>>} /\ UNCHANGED answers
       \/ \E v \in Verdicts :
            <<c, n, v>> \in answers /\ answers' = answers \ {<<c, n, v>>} /\ UNCHANGED wire
    /\ UNCHANGED <<connection, tables, executed, shown>>

Run == Open \/ ReadFails \/ BackoffEnds
Caller(c) == Resume(c) \/ Timeout(c)

Next ==
    \/ Run \/ OpenFails \/ Break \/ HandlerFails \/ Connect \/ Close
    \/ \E t \in Topics : Message(t)
    \/ \E c \in Calls :
        \/ Refuse(c) \/ Send(c) \/ Post(c) \/ WriteFails(c) \/ Caller(c)
        \/ \E v \in Verdicts : Answer(c, v)
        \/ \E n \in Sockets, v \in Verdicts : Execute(c, n, v)
        \/ \E n \in Sockets : Lose(c, n)

Spec == Init /\ [][Next]_vars

(* The _run task and its sleeps go on, and wait_for has a timer.           *)
FairSpec == Spec /\ WF_vars(Run) /\ \A c \in Calls : WF_vars(Caller(c))

---------------------------------------------------------------------------

(* Every variable stays within its type.                                   *)
TypeOK ==
    /\ phase \in Phases /\ alive \in BOOLEAN
    /\ socket \in Sockets \cup {NoSocket}
    /\ opened \in 0 .. MaxFaults + 1 /\ retry \in 0 .. Delays /\ faults \in 0 .. MaxFaults
    /\ pending \in [Calls -> Sockets \cup {NoSocket}]
    /\ future \in [Calls -> Results] /\ result \in [Calls -> Results] /\ event \in [Calls -> Results]
    /\ wire \subseteq Calls \X Sockets
    /\ answers \subseteq Calls \X Sockets \X Verdicts
    /\ executed \subseteq Calls
    /\ shown \in [Fields -> Sockets \cup {NoSocket}]

(* What the snapshot shows of the robot - latch, mode, speeds, battery,    *)
(* goal - came over the connection that is open now: nothing learned       *)
(* before a reconnect is shown after it.                                   *)
ShownIsCurrent ==
    \A f \in Fields : shown[f] # NoSocket => shown[f] = socket /\ phase = "up"

(* What the mission service and the alerts are told by command events      *)
(* agrees with the robot and with the caller: a SUCCEEDED event means the  *)
(* robot executed the call, and whoever got an answer finds its event      *)
(* already emitted.  The event of a post only says that it was written.    *)
EventsAreTrue ==
    \A c \in Calls \ Posts :
        /\ event[c] = "accepted" => c \in executed
        /\ result[c] \in Verdicts => event[c] = result[c]

(* An endpoint that accepts connections and drops them is not hammered:    *)
(* the delay shrinks only after a message was received.                    *)
NotHammered ==
    [][retry' < retry => (phase = "up" /\ alive) \/ phase = "off"]_vars

(* The task comes back: unless closed, it has a connection again, however  *)
(* the last one ended.                                                     *)
Reconnects == (phase \in {"opening", "backoff"}) ~> (phase \in {"up", "off"})

(* A service call keeps the promise its callers rely on; a post does not.  *)
Told(r) == IF r \in {"timeout", "broken", "closed", "rejected"} THEN "failed" ELSE r
Contract == INSTANCE RobotCall WITH
    Calls    <- Calls \ Posts,
    executed <- executed \ Posts,
    result   <- [c \in Calls \ Posts |-> Told(result[c])]
CallSpec == Contract!Spec
=============================================================================
