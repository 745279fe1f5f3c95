-------------------------- MODULE CommandDispatch --------------------------
(***************************************************************************)
(* The backend's command path: an HTTP handler records a command in SQLite *)
(* and puts it in a lane of the queue, one worker task takes commands from *)
(* the lanes and calls the robots one after the other, and the 50 ms       *)
(* runtime tick decides from observations when a stop is confirmed.  The   *)
(* watchdog's protective stop calls the robots beside the worker.          *)
(*                                                                         *)
(* asyncio switches tasks only at an await, so a handler without one is an *)
(* action and the worker is cut at each adapter.execute.  All submissions  *)
(* lie within the 24 h idempotency window, so a request id stands for the  *)
(* command id it was given.  The robots and the rosbridge link are         *)
(* external: a call is delivered in order, answered, answered too late, or *)
(* lost with its connection.  Time is counted in ticks.                    *)
(***************************************************************************)
EXTENDS Integers, Sequences

CONSTANTS
    Robots,         \* robot_1 and robot_2
    RobotOrder,     \* the order in which a protective stop calls them
    Requests,       \* (user, request_id) pairs
    OpOf,           \* the operation each request asks for
    TargetsOf,      \* the robots it asks it of, in the order of the calls
    None,
    NormalMax,      \* capacity of the normal lane (100)
    ConfirmTicks,   \* a stop is confirmed after 0.5 s of standstill
    StopTimeout,    \* and unconfirmed 2 s after the request
    MaxSubmissions, \* bound: POSTs, retries of a request included
    MaxCrashes,     \* bound: backend restarts
    MaxProtective   \* bound: protective stops

Operations == {"stop", "reset_stop", "set_mode", "task"}  \* task: has a handler

ASSUME DispatchAssumption ==
    /\ None \notin Requests
    /\ RobotOrder \in Seq(Robots) /\ Robots = {RobotOrder[i] : i \in DOMAIN RobotOrder}
    /\ OpOf \in [Requests -> Operations]
    /\ TargetsOf \in [Requests -> Seq(Robots)]   \* each robot at most once
    /\ \A q \in Requests : \A i, j \in DOMAIN TargetsOf[q] :
          TargetsOf[q][i] = TargetsOf[q][j] => i = j
    /\ NormalMax \in Nat /\ ConfirmTicks \in Nat /\ StopTimeout \in Nat
    /\ MaxSubmissions \in Nat /\ MaxCrashes \in Nat /\ MaxProtective \in Nat

CommandStates == {"none", "ACCEPTED", "RUNNING", "SUCCEEDED", "FAILED", "TIMED_OUT"}
Terminal      == {"SUCCEEDED", "FAILED", "TIMED_OUT"}
Views         == {"stopped", "latched", "free"}   \* free: or nothing fresh is known
TargetSet(q)  == {TargetsOf[q][i] : i \in DOMAIN TargetsOf[q]}
IsStop(q)     == OpOf[q] = "stop"

VARIABLES
    db,             \* commands.state by request; survives a crash
    normal, priority,   \* the two lanes
    queuedIds,      \* _queued_ids
    activeStops,    \* _active_stops
    worker,         \* the command in process_next, or None
    todo,           \* its targets still to be called, the first one perhaps waiting
    waiting,        \* the worker awaits the answer of Head(todo)
    rejected,       \* a target has rejected, failed or timed out
    requested,      \* SafetyService.requested: ticks since the request, -1: none
    stable,         \* SafetyService.stable_since: ticks of standstill, -1: none
    view,           \* what the state store last learnt of each robot
    protecting,     \* protective_stop: robots still to be called
    guardWaiting,   \* it awaits the answer of Head(protecting)
    attempted,      \* history: the robots it tried to call
    inbox,          \* calls on their way to each robot
    latched,        \* the robots' stop latches
    executed,       \* history: how often a robot executed a request
    submissions, crashes, protections   \* the bounded counters

queue   == <<normal, priority, queuedIds>>
call    == <<worker, todo, waiting, rejected>>
safety  == <<requested, stable>>
guard   == <<protecting, guardWaiting, attempted>>
robot   == <<inbox, latched, executed>>
counts  == <<submissions, crashes, protections>>
vars    == <<db, queue, activeStops, call, safety, view, guard, robot, counts>>

Init ==
    /\ db = [q \in Requests |-> "none"]
    /\ normal = <<>> /\ priority = <<>> /\ queuedIds = {}
    /\ activeStops = {}
    /\ worker = None /\ todo = <<>> /\ waiting = FALSE /\ rejected = FALSE
    /\ requested = [r \in Robots |-> -1] /\ stable = [r \in Robots |-> -1]
    /\ view = [r \in Robots |-> "free"]
    /\ protecting = <<>> /\ guardWaiting = FALSE /\ attempted = {}
    /\ inbox = [r \in Robots |-> <<>>]
    /\ latched = [r \in Robots |-> TRUE]
    /\ executed = [q \in Requests |-> [r \in Robots |-> 0]]
    /\ submissions = 0 /\ crashes = 0 /\ protections = 0

---------------------------------------------------------------------------
(* The HTTP handlers.  A request id seen before returns its command; it is *)
(* put in the lane again only while ACCEPTED and in no lane.               *)

Admitted(q) ==      \* POST /robots/{id}/mode looks at the latch it has seen
    OpOf[q] = "set_mode" => \A r \in TargetSet(q) : view[r] \notin {"stopped", "latched"}

ToEnqueueAnyState(q) == q \notin queuedIds     \* mutant of ToEnqueue: no state check
ToEnqueueAgain(q)    == db[q] \in {"none", "ACCEPTED"}   \* mutant of ToEnqueue: no _queued_ids
ToEnqueue(q) == q \notin queuedIds /\ db[q] \in {"none", "ACCEPTED"}
LaneOverfull(q) == ~ IsStop(q) /\ Len(normal) > NormalMax     \* mutant of LaneFull
LaneFull(q)  == ~ IsStop(q) /\ Len(normal) >= NormalMax

RequestStop(q) ==   \* safety_service.request, a retried POST /stop included
    requested' = IF IsStop(q)
                 THEN [r \in Robots |-> IF r \in TargetSet(q) THEN 0 ELSE requested[r]]
                 ELSE requested

Enqueue(q) ==
    /\ db' = [db EXCEPT ![q] = "ACCEPTED"]
    /\ queuedIds' = queuedIds \cup {q}
    /\ IF IsStop(q)
       THEN priority' = Append(priority, q) /\ UNCHANGED normal
       ELSE normal' = Append(normal, q) /\ UNCHANGED priority

DeleteCommand(q) == db' = [db EXCEPT ![q] = "none"]

Submit(q) ==
    /\ submissions < MaxSubmissions
    /\ submissions' = submissions + 1
    /\ Admitted(q)
    /\ \/ ToEnqueue(q) /\ ~ LaneFull(q) /\ Enqueue(q)
       \/ ToEnqueue(q) /\ LaneFull(q) /\ DeleteCommand(q) /\ UNCHANGED queue
       \/ ~ ToEnqueue(q) /\ UNCHANGED <<db, queue>>
    /\ RequestStop(q)
    /\ UNCHANGED <<activeStops, call, stable, view, guard, robot, crashes, protections>>

---------------------------------------------------------------------------
(* The worker.                                                             *)

Pop ==      \* the next command, the safety lane first
    IF priority # <<>> THEN Head(priority) ELSE Head(normal)

StartNext ==
    /\ worker = None
    /\ priority # <<>> \/ normal # <<>>
    /\ LET q == Pop IN
          /\ IF priority # <<>>
             THEN priority' = Tail(priority) /\ UNCHANGED normal
             ELSE normal' = Tail(normal) /\ UNCHANGED priority
          /\ queuedIds' = queuedIds \ {q}
          /\ db' = [db EXCEPT ![q] = "RUNNING"]
          /\ worker' = q
          /\ todo' = IF OpOf[q] = "task" THEN <<>> ELSE TargetsOf[q]
    /\ waiting' = FALSE /\ rejected' = FALSE
    /\ UNCHANGED <<activeStops, safety, view, guard, robot, counts>>

(* A handler (mission, mapping, formation, line follow, map navigation)    *)
(* returns a verdict, or raises.                                           *)
TaskEnds ==
    /\ worker # None /\ OpOf[worker] = "task"
    /\ \E outcome \in {"SUCCEEDED", "FAILED"} : db' = [db EXCEPT ![worker] = outcome]
    /\ worker' = None
    /\ UNCHANGED <<queue, activeStops, todo, waiting, rejected, safety, view, guard,
                   robot, counts>>

(* The answer of Head(todo) is in: call the next target, or conclude.  An  *)
(* acknowledged stop stays RUNNING until the robots are seen to stand.     *)
Conclude(bad) ==
    /\ worker' = None
    /\ IF IsStop(worker) /\ ~ bad
       THEN activeStops' = activeStops \cup {worker} /\ UNCHANGED db
       ELSE /\ db' = [db EXCEPT ![worker] = IF bad THEN "FAILED" ELSE "SUCCEEDED"]
            /\ UNCHANGED activeStops

AnsweredLast(accepted) ==   \* mutant of Answered: only the last target counts
    /\ todo' = Tail(todo)
    /\ waiting' = FALSE
    /\ rejected' = ~ accepted
    /\ IF Len(todo) = 1
       THEN Conclude(~ accepted)
       ELSE UNCHANGED <<db, activeStops, worker>>

Answered(accepted) ==
    /\ todo' = Tail(todo)
    /\ waiting' = FALSE
    /\ rejected' = (rejected \/ ~ accepted)
    /\ IF Len(todo) = 1
       THEN Conclude(rejected \/ ~ accepted)
       ELSE UNCHANGED <<db, activeStops, worker>>

Calling == worker # None /\ todo # <<>>

SendCall ==
    /\ Calling /\ ~ waiting
    /\ inbox' = [inbox EXCEPT ![Head(todo)] = Append(@, worker)]
    /\ waiting' = TRUE
    /\ UNCHANGED <<db, queue, activeStops, worker, todo, rejected, safety, view, guard,
                   latched, executed, counts>>

(* No socket, a lost connection, or no answer within 2 s.                  *)
CallFails ==
    /\ Calling
    /\ Answered(FALSE)
    /\ UNCHANGED <<queue, safety, view, guard, robot, counts>>

---------------------------------------------------------------------------
(* The runtime tick's refresh_stops.                                       *)

StableNow(r) ==     \* observe()
    CASE requested[r] = -1    -> stable[r]
      [] view[r] = "stopped"  -> IF stable[r] = -1 THEN 0 ELSE stable[r]
      [] OTHER                -> -1

Verdict(r) ==       \* states()
    CASE requested[r] = -1             -> "REQUESTED"
      [] StableNow(r) >= ConfirmTicks  -> "CONFIRMED"
      [] requested[r] >= StopTimeout   -> "UNCONFIRMED"
      [] OTHER                         -> "REQUESTED"

Verdicts(q) == {Verdict(r) : r \in TargetSet(q)}
Confirmed   == {q \in activeStops : Verdicts(q) = {"CONFIRMED"}}
ExpiredTogether == {q \in activeStops : Verdicts(q) = {"UNCONFIRMED"}}  \* mutant of Expired
Expired     == {q \in activeStops :
                   Verdicts(q) \subseteq {"CONFIRMED", "UNCONFIRMED"}
                   /\ "UNCONFIRMED" \in Verdicts(q)}

RefreshStops ==
    /\ stable' = [r \in Robots |-> StableNow(r)]
    /\ db' = [q \in Requests |->
                 CASE q \in Confirmed -> "SUCCEEDED"
                   [] q \in Expired   -> "TIMED_OUT"
                   [] OTHER           -> db[q]]
    /\ activeStops' = activeStops \ (Confirmed \cup Expired)
    /\ UNCHANGED <<queue, call, requested, view, guard, robot, counts>>

---------------------------------------------------------------------------
(* protective_stop: one robot after the other, whatever a call comes to.   *)

ProtectiveStop ==
    /\ protections < MaxProtective /\ protecting = <<>>
    /\ protections' = protections + 1
    /\ protecting' = RobotOrder /\ guardWaiting' = FALSE /\ attempted' = {}
    /\ UNCHANGED <<db, queue, activeStops, call, safety, view, robot, submissions,
                   crashes>>

ProtectiveCallGivesUp ==    \* mutant of ProtectiveCall: one exception ends the loop
    /\ protecting # <<>> /\ ~ guardWaiting
    /\ attempted' = attempted \cup {Head(protecting)}
    /\ \E online \in BOOLEAN :
          IF online
          THEN /\ inbox' = [inbox EXCEPT ![Head(protecting)] = Append(@, None)]
               /\ guardWaiting' = TRUE
               /\ UNCHANGED protecting
          ELSE /\ protecting' = <<>>
               /\ UNCHANGED <<inbox, guardWaiting>>
    /\ UNCHANGED <<db, queue, activeStops, call, safety, view, latched, executed,
                   counts>>

ProtectiveCall ==
    /\ protecting # <<>> /\ ~ guardWaiting
    /\ attempted' = attempted \cup {Head(protecting)}
    /\ \E online \in BOOLEAN :
          IF online
          THEN /\ inbox' = [inbox EXCEPT ![Head(protecting)] = Append(@, None)]
               /\ guardWaiting' = TRUE
               /\ UNCHANGED protecting
          ELSE /\ protecting' = Tail(protecting)
               /\ UNCHANGED <<inbox, guardWaiting>>
    /\ UNCHANGED <<db, queue, activeStops, call, safety, view, latched, executed,
                   counts>>

ProtectiveAnswered ==   \* accepted, rejected, timed out: the loop goes on
    /\ guardWaiting
    /\ guardWaiting' = FALSE /\ protecting' = Tail(protecting)
    /\ UNCHANGED <<db, queue, activeStops, call, safety, view, attempted, robot, counts>>

---------------------------------------------------------------------------
(* Robots and link (external).                                             *)

Executes(r, q) ==   \* None stands for a protective stop
    LET op == IF q = None THEN "stop" ELSE OpOf[q] IN
    /\ latched' = [latched EXCEPT ![r] = CASE op = "stop"       -> TRUE
                                            [] op = "reset_stop" -> FALSE
                                            [] OTHER             -> @]
    /\ executed' = IF q = None THEN executed
                   ELSE [executed EXCEPT ![q][r] = IF @ = 2 THEN 2 ELSE @ + 1]

RobotExecutes(r) ==
    /\ inbox[r] # <<>>
    /\ LET q == Head(inbox[r]) IN
          /\ inbox' = [inbox EXCEPT ![r] = Tail(@)]
          /\ Executes(r, q)
          /\ \/ /\ waiting /\ worker = q /\ Head(todo) = r
                /\ Answered(OpOf[q] = "set_mode" => ~ latched[r])
             \/ UNCHANGED <<db, activeStops, call>>   \* too late, or lost
    /\ UNCHANGED <<queue, safety, view, guard, counts>>

ConnectionLost(r) ==
    /\ inbox[r] # <<>>
    /\ inbox' = [inbox EXCEPT ![r] = <<>>]
    /\ UNCHANGED <<db, queue, activeStops, call, safety, view, guard, latched, executed,
                   counts>>

(* A latched robot may still be rolling when it reports.                   *)
StatusArrives(r) ==
    /\ \E v \in IF latched[r] THEN {"stopped", "latched"} ELSE {"free"} :
          view' = [view EXCEPT ![r] = v]
    /\ UNCHANGED <<db, queue, activeStops, call, safety, guard, robot, counts>>

StatusStale(r) ==
    /\ view' = [view EXCEPT ![r] = "free"]
    /\ UNCHANGED <<db, queue, activeStops, call, safety, guard, robot, counts>>

---------------------------------------------------------------------------
Later(age, cap) == IF age = -1 \/ age = cap THEN age ELSE age + 1

Tick ==
    /\ requested' = [r \in Robots |-> Later(requested[r], StopTimeout)]
    /\ stable' = [r \in Robots |-> Later(stable[r], ConfirmTicks)]
    /\ UNCHANGED <<db, queue, activeStops, call, view, guard, robot, counts>>

(* The process dies, or is shut down, and starts again: the database and   *)
(* the calls already on the wire remain, the rest is new.                  *)
Restart ==
    /\ crashes < MaxCrashes
    /\ crashes' = crashes + 1
    /\ normal' = <<>> /\ priority' = <<>> /\ queuedIds' = {}
    /\ activeStops' = {}
    /\ worker' = None /\ todo' = <<>> /\ waiting' = FALSE /\ rejected' = FALSE
    /\ requested' = [r \in Robots |-> -1] /\ stable' = [r \in Robots |-> -1]
    /\ view' = [r \in Robots |-> "free"]
    /\ protecting' = <<>> /\ guardWaiting' = FALSE /\ attempted' = {}
    /\ UNCHANGED <<db, robot, submissions, protections>>

Worker   == StartNext \/ TaskEnds \/ SendCall \/ CallFails
Guardian == ProtectiveStop \/ ProtectiveCall \/ ProtectiveAnswered
Robot(r) == \/ RobotExecutes(r) \/ ConnectionLost(r)
            \/ StatusArrives(r) \/ StatusStale(r)

Next ==
    \/ \E q \in Requests : Submit(q)
    \/ Worker
    \/ RefreshStops
    \/ Guardian
    \/ \E r \in Robots : Robot(r)
    \/ Tick
    \/ Restart

Spec == Init /\ [][Next]_vars

(* The event loop runs the worker and the tick, a handler returns, a call  *)
(* is answered or times out, and time passes.                              *)
Fairness ==
    /\ WF_vars(Worker)
    /\ WF_vars(RefreshStops)
    /\ WF_vars(ProtectiveCall) /\ WF_vars(ProtectiveAnswered)
    /\ WF_vars(Tick)

FairSpec == Spec /\ Fairness

---------------------------------------------------------------------------
(* The types of all variables.                                             *)
TypeOK ==
    /\ db \in [Requests -> CommandStates]
    /\ normal \in Seq(Requests) /\ Len(normal) <= NormalMax
    /\ priority \in Seq(Requests)
    /\ queuedIds \subseteq Requests /\ activeStops \subseteq Requests
    /\ worker \in Requests \cup {None} /\ todo \in Seq(Robots)
    /\ waiting \in BOOLEAN /\ rejected \in BOOLEAN
    /\ requested \in [Robots -> -1 .. StopTimeout]
    /\ stable \in [Robots -> -1 .. ConfirmTicks]
    /\ view \in [Robots -> Views]
    /\ protecting \in Seq(Robots) /\ guardWaiting \in BOOLEAN
    /\ attempted \subseteq Robots
    /\ inbox \in [Robots -> Seq(Requests \cup {None})]
    /\ latched \in [Robots -> BOOLEAN]
    /\ executed \in [Requests -> [Robots -> 0 .. 2]]
    /\ submissions \in 0 .. MaxSubmissions
    /\ crashes \in 0 .. MaxCrashes /\ protections \in 0 .. MaxProtective

(* A robot executes a request at most once, whatever is retried, refused   *)
(* for a full lane, answered late or interrupted by a restart.             *)
AtMostOnce == \A q \in Requests, r \in Robots : executed[q][r] <= 1

InLane(lane, q) == \E i \in 1 .. Len(lane) : lane[i] = q

LanesHoldQueued ==
    /\ \A q \in Requests :
          q \in queuedIds <=> InLane(normal, q) \/ InLane(priority, q)
    /\ \A i \in 1 .. Len(normal) : ~ IsStop(normal[i])
    /\ \A i \in 1 .. Len(priority) : IsStop(priority[i])
    /\ \A lane \in {normal, priority} :
          \A i, j \in 1 .. Len(lane) : lane[i] = lane[j] => i = j

(* Memory and database agree: what waits in a lane is exactly what          *)
(* _queued_ids names, once, in the lane of its kind, and still ACCEPTED;    *)
(* and until a restart somebody is working on every command the store calls *)
(* RUNNING or ACCEPTED, so none of them is forgotten half done.             *)
QueueMatchesStore ==
    /\ LanesHoldQueued
    /\ \A q \in queuedIds : db[q] = "ACCEPTED"
    /\ crashes = 0 => \A q \in Requests :
          /\ db[q] = "RUNNING" => worker = q \/ q \in activeStops
          /\ db[q] = "ACCEPTED" => q \in queuedIds

(* A handler's verdict is its own; other commands are for robots.          *)
Performers == [q \in Requests |-> IF OpOf[q] = "task" THEN {} ELSE TargetSet(q)]

Ledger == INSTANCE CommandLedger WITH Targets <- Performers

(* The store keeps the promise of CommandLedger: a request is run once, a  *)
(* target that failed is never made up for by a later one that answered,   *)
(* and neither retry, lost answer, late answer nor restart reopens it.     *)
LedgerSpec == Ledger!Spec

(* A protective stop has tried every robot when it ends, though the call   *)
(* to an earlier one failed.                                               *)
ProtectiveReachesAll ==
    protections > 0 /\ protecting = <<>> /\ crashes = 0 => attempted = Robots

(* A command that has been accepted is concluded one way or another.       *)
CommandsEnd == \A q \in Requests : db[q] = "ACCEPTED" ~> db[q] \in Terminal \cup {"none"}
=============================================================================
