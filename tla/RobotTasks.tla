----------------------------- MODULE RobotTasks -----------------------------
(***************************************************************************)
(* What a single robot can be asked to do beside missions: drive to a      *)
(* point of the map, be localized anew, follow a line.  Requests are       *)
(* judged by what the state store shows when they are made and carried out *)
(* later by the command worker; line following goes on in the runtime tick *)
(* beside it and shares the robot's socket.                                *)
(*                                                                         *)
(* Worker and tick are two tasks of one event loop.  Each action runs from *)
(* one await to the next; a call is sent in one action and its answer,     *)
(* which may be a timeout, is seen in another.  The robot (the gate of     *)
(* VelocityWatchdog in short) takes messages in the order they were sent,  *)
(* late ones included.  Requests are assumed to hold the control lease.    *)
(***************************************************************************)
EXTENDS Integers, Sequences

CONSTANTS
    Navs,           \* map navigation requests
    None,
    LossLimit,      \* LOSS_LIMIT, misses in a row
    MaxRequests,    \* bound on the requests made
    MaxBreaks,      \* bound on how often the connection breaks
    WireMax         \* bound on the messages under way; a sender waits

ASSUME TasksAssumption ==
    /\ Navs \cap {"pose", "AUTO", "MANUAL", "stop", "reset_stop", "drive", "zero",
                  "line_start", "line_stop"} = {}
    /\ None \notin Navs \cup {"pose", "AUTO", "MANUAL", "stop", "reset_stop",
                             "line_start", "line_stop", "worker", "tick"}
    /\ LossLimit \in Nat \ {0} /\ MaxRequests \in Nat /\ MaxBreaks \in Nat
    /\ WireMax \in Nat \ {0}

Callers  == {"worker", "tick"}
Calls    == Navs \cup {"AUTO", "MANUAL", "stop", "reset_stop"}
Topics   == {"pose", "drive", "zero"}           \* published, never answered
Messages == [op : Calls, by : Callers] \cup [op : Topics, by : {None}]
Requests == Navs \cup {"pose", "MANUAL", "stop", "reset_stop", "line_start", "line_stop"}
Steps    == Calls \cup {"pose", "line_start", "line_stop"}
Modes    == {"IDLE", "AUTO", "MANUAL", "STOPPED"}
NoLine   == [state |-> "IDLE", misses |-> 0, pending |-> FALSE]
Sessions == [state : {"TRACKING", "STALLED", "LOST"}, misses : 0 .. LossLimit,
             pending : BOOLEAN]

VARIABLES
    mode, latched,  \* the robot's gate
    goal,           \* the navigation Nav2 executes
    driven,         \* the manual input is a line's and not yet timed out
    linked, wire,   \* the socket, and what the robot has not read yet
    reply,          \* the answer each caller waits for
    view,           \* what StateStore.snapshot shows of the robot
    urgent, queue,  \* the priority lane (stops only) and the normal one
    work, step,     \* the worker: its request, and what it sends next
    outcome,        \* state of the command of each navigation
    line,           \* LineFollowService._active["robot_1"]
    tick, held,     \* the tick: after which send, and its session is current
    asked, breaks,  \* counters
    loss,           \* history: the robot was not stopped yet for a lost line
    cut             \* history: a connection broke under somebody's feet

robot  == <<mode, latched, goal, driven>>
link   == <<linked, wire, reply, breaks, cut>>
lanes  == <<urgent, queue, asked>>
worker == <<work, step, outcome>>
ticker == <<line, tick, held, loss>>
vars   == <<robot, link, view, lanes, worker, ticker>>

Moving == /\ ~ latched
          /\ \/ mode = "MANUAL" /\ driven
             \/ mode = "AUTO" /\ goal # None

Following == line # NoLine

Seen == [online |-> TRUE, mode |-> mode, latched |-> latched, moving |-> Moving]

Init ==
    /\ latched \in BOOLEAN /\ mode = IF latched THEN "STOPPED" ELSE "IDLE"
    /\ goal = None /\ driven = FALSE
    /\ linked = TRUE /\ wire = <<>> /\ reply = [b \in Callers |-> "none"]
    /\ view = Seen
    /\ urgent = 0 /\ queue = <<>>
    /\ work = None /\ step = None /\ outcome = [n \in Navs |-> "none"]
    /\ line = NoLine /\ tick = "idle" /\ held = FALSE /\ loss = FALSE
    /\ asked = 0 /\ breaks = 0 /\ cut = FALSE

---------------------------------------------------------------------------
(* The HTTP handlers.                                                      *)

Free == asked < MaxRequests /\ asked' = asked + 1

Submit(r) ==            \* dispatcher.submit: the handler answers at once
    /\ Free
    /\ IF r = "stop" THEN urgent' = urgent + 1 /\ UNCHANGED queue
                     ELSE queue' = Append(queue, r) /\ UNCHANGED urgent
    /\ outcome' = [n \in Navs |-> IF n = r THEN "accepted" ELSE outcome[n]]
    /\ UNCHANGED <<robot, link, view, work, step, ticker>>

Still == view.online /\ ~ view.moving

MayAsk(r) ==
    CASE r \in Navs   -> Still /\ view.mode = "IDLE" /\ ~ view.latched
      [] r = "pose"   -> Still /\ view.mode \in {"IDLE", "STOPPED"}
      [] r = "MANUAL" -> ~ view.latched
      [] OTHER        -> TRUE

Request(r) ==
    /\ r \in Navs => outcome[r] = "none"
    /\ MayAsk(r)
    /\ Submit(r)

---------------------------------------------------------------------------
(* Sending.  adapter.execute refuses at once without a socket; a publish   *)
(* without one is refused too.                                             *)

Room == Len(wire) < WireMax

Publish(op) ==
    /\ Room
    /\ wire' = IF linked THEN Append(wire, [op |-> op, by |-> None]) ELSE wire
    /\ UNCHANGED <<linked, reply, breaks, cut>>

Call(op, b) ==
    /\ Room /\ reply[b] = "none"
    /\ wire' = IF linked THEN Append(wire, [op |-> op, by |-> b]) ELSE wire
    /\ reply' = [reply EXCEPT ![b] = IF linked THEN "waiting" ELSE "refused"]
    /\ UNCHANGED <<linked, breaks, cut>>

Answered(b, verdict) ==
    /\ reply[b] = verdict
    /\ reply' = [reply EXCEPT ![b] = "none"]
    /\ UNCHANGED <<linked, wire, breaks, cut>>

TimesOut(b) ==          \* wait_for(future, 2.0); the call stays under way
    /\ reply[b] = "waiting"
    /\ reply' = [reply EXCEPT ![b] = "refused"]
    /\ UNCHANGED <<robot, linked, wire, breaks, cut, view, lanes, worker, ticker>>

LinkBreaks ==           \* what is under way is lost, who waits is refused
    /\ linked /\ breaks < MaxBreaks
    /\ linked' = FALSE /\ breaks' = breaks + 1 /\ wire' = <<>>
    /\ reply' = [b \in Callers |-> IF reply[b] = "waiting" THEN "refused" ELSE reply[b]]
    /\ view' = [view EXCEPT !.online = FALSE]
    /\ cut' = (cut \/ wire # <<>> \/ work # None \/ tick # "idle" \/ driven
                 \/ Following)
    /\ UNCHANGED <<robot, lanes, worker, ticker>>

LinkReturns ==
    /\ ~ linked /\ linked' = TRUE
    /\ UNCHANGED <<robot, wire, reply, breaks, cut, view, lanes, worker, ticker>>

StatusArrives ==        \* /control/status; a protective stop's mark is lifted
    /\ linked /\ view' = Seen
    /\ UNCHANGED <<robot, link, lanes, worker, ticker>>

---------------------------------------------------------------------------
(* The command worker: one request at a time, stops first.                 *)

FirstStep(r) == IF r \in Navs THEN "pose" ELSE r

TakeWork ==
    /\ work = None
    /\ \/ urgent > 0 /\ urgent' = urgent - 1 /\ work' = "stop" /\ UNCHANGED queue
       \/ /\ urgent = 0 /\ queue # <<>>
          /\ work' = Head(queue) /\ queue' = Tail(queue) /\ UNCHANGED urgent
    /\ step' = FirstStep(work')
    /\ UNCHANGED <<robot, link, view, asked, outcome, ticker>>

ConcludeQuietly(s) ==   \* mutant of Conclude: the step is not reset
    /\ work' = None /\ UNCHANGED step
    /\ outcome' = [n \in Navs |-> IF n = work THEN s ELSE outcome[n]]

Conclude(s) ==
    /\ work' = None /\ step' = None
    /\ outcome' = [n \in Navs |-> IF n = work THEN s ELSE outcome[n]]

Then(next) == step' = next /\ UNCHANGED <<work, outcome>>

(* initial_pose, of a request of its own or as a navigation's first step.  *)
SendPose ==
    /\ step = "pose"
    /\ Publish("pose")
    /\ CASE ~ linked     -> Conclude("FAILED")
         [] work \in Navs -> Then("AUTO")
         [] OTHER         -> Conclude("SUCCEEDED")
    /\ UNCHANGED <<robot, view, lanes, ticker>>

SendCall ==
    /\ step \in Calls
    /\ Call(step, "worker")
    /\ UNCHANGED <<robot, view, lanes, worker, ticker>>

ModeSet ==              \* AUTO_MODE_REJECTED: no goal has been sent yet
    /\ step = "AUTO"
    /\ \/ Answered("worker", "accepted") /\ Then(work)
       \/ Answered("worker", "refused") /\ Conclude("FAILED")
    /\ UNCHANGED <<robot, view, lanes, ticker>>

NavigateAnsweredOnly == \* mutant of NavigateAnswered: a refusal ends the request
    /\ step \in Navs
    /\ \/ Answered("worker", "accepted") /\ Conclude("SUCCEEDED")
       \/ Answered("worker", "refused") /\ Conclude("FAILED")
    /\ UNCHANGED <<robot, view, lanes, ticker>>

NavigateAnswered ==     \* refused, or not answered in time: stop the robot
    /\ step \in Navs
    /\ \/ Answered("worker", "accepted") /\ Conclude("SUCCEEDED")
       \/ Answered("worker", "refused") /\ Then("stop")
    /\ UNCHANGED <<robot, view, lanes, ticker>>

OtherAnswered ==
    /\ step \in {"MANUAL", "stop", "reset_stop"}
    /\ \/ Answered("worker", "accepted")
       \/ Answered("worker", "refused")
    /\ Conclude(IF work \in Navs \/ reply["worker"] = "refused" THEN "FAILED"
                                                                 ELSE "SUCCEEDED")
    /\ UNCHANGED <<robot, view, lanes, ticker>>

LineStart ==
    /\ step = "line_start"
    /\ \/ UNCHANGED <<line, held, loss>> /\ Conclude("FAILED")     \* CAMERA_STALLED: no frame
       \/ /\ line' = [NoLine EXCEPT !.state = "TRACKING"]
          /\ held' = FALSE /\ loss' = FALSE
          /\ Conclude("SUCCEEDED")
    /\ UNCHANGED <<robot, link, view, lanes, tick>>

LineStopQuiet ==        \* mutant of LineStop: the last velocity is left to expire
    /\ step = "line_stop"
    /\ line' = NoLine /\ held' = FALSE /\ loss' = FALSE
    /\ Conclude("SUCCEEDED")
    /\ UNCHANGED <<robot, link, view, lanes, tick>>

LineStop ==
    /\ step = "line_stop"
    /\ line' = NoLine /\ held' = FALSE /\ loss' = FALSE
    /\ Publish("zero")
    /\ Conclude("SUCCEEDED")
    /\ UNCHANGED <<robot, view, lanes, tick>>

---------------------------------------------------------------------------
(* The runtime tick's part for line following.                             *)

LineFound ==            \* whatever the session's state was
    /\ tick = "idle" /\ Following
    /\ line' = [line EXCEPT !.misses = 0]
    /\ Publish("drive")
    /\ tick' = "driven" /\ held' = TRUE
    /\ UNCHANGED <<robot, view, lanes, worker, loss>>

Missed == IF line.misses < LossLimit THEN line.misses + 1 ELSE LossLimit

LineMissed(stale) ==    \* no line in the frame, or no fresh frame
    /\ tick = "idle" /\ Following /\ Missed < LossLimit
    /\ line' = [line EXCEPT !.misses = Missed,
                            !.state = IF stale /\ @ # "LOST" THEN "STALLED" ELSE @]
    /\ UNCHANGED <<robot, link, view, lanes, worker, tick, held, loss>>

LineLostTracking ==     \* mutant of LineLost: a stalled camera is not a loss
    /\ tick = "idle" /\ Following /\ Missed = LossLimit
    /\ line' = [state |-> "LOST", misses |-> LossLimit,
                pending |-> line.pending \/ line.state = "TRACKING"]
    /\ Publish("zero")
    /\ tick' = "zeroed" /\ held' = TRUE /\ loss' = (loss \/ (linked /\ line.state # "LOST"))
    /\ UNCHANGED <<robot, view, lanes, worker>>

LineLost ==
    /\ tick = "idle" /\ Following /\ Missed = LossLimit
    /\ line' = [state |-> "LOST", misses |-> LossLimit,
                pending |-> line.pending \/ line.state # "LOST"]
    /\ Publish("zero")
    /\ tick' = "zeroed" /\ held' = TRUE /\ loss' = (loss \/ (linked /\ line.state # "LOST"))
    /\ UNCHANGED <<robot, view, lanes, worker>>

(* tick_once goes on with the session it began with; take_safety_stop asks *)
(* the current one.  A protective stop marks the robot disconnected.       *)
Resumed == IF held /\ tick = "driven" THEN [line EXCEPT !.state = "TRACKING"] ELSE line

LineSafe ==
    /\ tick \in {"driven", "zeroed"} /\ ~ line.pending
    /\ line' = Resumed
    /\ tick' = "idle" /\ held' = FALSE
    /\ UNCHANGED <<robot, link, view, lanes, worker, loss>>

LineStops ==
    /\ tick \in {"driven", "zeroed"} /\ line.pending
    /\ line' = [Resumed EXCEPT !.pending = FALSE]
    /\ view' = [view EXCEPT !.online = FALSE]
    /\ Call("stop", "tick")
    /\ tick' = "stopping" /\ held' = FALSE
    /\ UNCHANGED <<robot, lanes, worker, loss>>

LineStopped ==          \* protective_stop looks at no verdict
    /\ tick = "stopping"
    /\ Answered("tick", "accepted") \/ Answered("tick", "refused")
    /\ tick' = "idle"
    /\ UNCHANGED <<robot, view, lanes, worker, line, held, loss>>

---------------------------------------------------------------------------
(* The robot (external).                                                   *)

Effect(op, ok) ==
    CASE op = "stop" ->
            mode' = "STOPPED" /\ latched' = TRUE /\ goal' = None /\ UNCHANGED driven /\ ok
      [] op = "reset_stop" ->
            mode' = "IDLE" /\ latched' = FALSE /\ goal' = None /\ UNCHANGED driven /\ ok
      [] op = "AUTO" ->
            IF latched THEN UNCHANGED robot /\ ~ ok
                       ELSE mode' = "AUTO" /\ UNCHANGED <<latched, goal, driven>> /\ ok
      [] op = "MANUAL" ->
            IF latched THEN UNCHANGED robot /\ ~ ok
                       ELSE mode' = "MANUAL" /\ goal' = None
                            /\ UNCHANGED <<latched, driven>> /\ ok
      [] op \in Navs ->         \* Nav2 may also be absent or refuse the goal
            \/ UNCHANGED robot /\ ~ ok
            \/ /\ ~ latched /\ goal = None /\ ok
               /\ goal' = op /\ UNCHANGED <<mode, latched, driven>>
      [] op = "drive" -> driven' = TRUE /\ UNCHANGED <<mode, latched, goal>> /\ ~ ok
      [] op = "zero"  -> driven' = FALSE /\ UNCHANGED <<mode, latched, goal>> /\ ~ ok
      [] OTHER        -> UNCHANGED robot /\ ~ ok

(* The caller still waits for this call: it has sent none after it.        *)
Awaited(m) == /\ m.by # None /\ reply[m.by] = "waiting"
              /\ \A i \in 2 .. Len(wire) : wire[i].by # m.by

RobotReads ==
    /\ wire # <<>>
    /\ wire' = Tail(wire)
    /\ \E ok \in BOOLEAN :
          /\ Effect(Head(wire).op, ok)
          /\ \/ UNCHANGED reply                 \* nobody waits, or it is late
             \/ /\ Awaited(Head(wire))
                /\ reply' = [reply EXCEPT ![Head(wire).by] =
                                IF ok THEN "accepted" ELSE "refused"]
    /\ loss' = (loss /\ Head(wire).op # "stop")
    /\ UNCHANGED <<linked, breaks, cut, view, lanes, worker, line, tick, held>>

GoalEnds ==
    /\ goal # None
    /\ goal' = None /\ mode' = "IDLE"
    /\ UNCHANGED <<latched, driven, link, view, lanes, worker, ticker>>

InputExpires ==         \* the deadman on the manual input
    /\ driven /\ driven' = FALSE
    /\ UNCHANGED <<mode, latched, goal, link, view, lanes, worker, ticker>>

---------------------------------------------------------------------------
Worker == TakeWork \/ SendPose \/ SendCall \/ ModeSet \/ NavigateAnswered
          \/ OtherAnswered \/ LineStart \/ LineStop

LineTick == LineFound \/ (\E stale \in BOOLEAN : LineMissed(stale)) \/ LineLost
            \/ LineSafe \/ LineStops \/ LineStopped

Next ==
    \/ \E r \in Requests : Request(r)
    \/ Worker
    \/ LineTick
    \/ \E b \in Callers : TimesOut(b)
    \/ LinkBreaks \/ LinkReturns \/ StatusArrives
    \/ RobotReads \/ GoalEnds \/ InputExpires

Spec == Init /\ [][Next]_vars
---------------------------------------------------------------------------
(* The types of all variables; a step belongs to a request in work, and    *)
(* the worker waits only for a call of that step.                          *)
TypeOK ==
    /\ mode \in Modes /\ latched \in BOOLEAN
    /\ goal \in Navs \cup {None} /\ driven \in BOOLEAN
    /\ linked \in BOOLEAN /\ wire \in Seq(Messages) /\ Len(wire) <= WireMax
    /\ reply \in [Callers -> {"none", "waiting", "accepted", "refused"}]
    /\ view \in [online : BOOLEAN, mode : Modes, latched : BOOLEAN, moving : BOOLEAN]
    /\ urgent \in 0 .. MaxRequests /\ queue \in Seq(Requests \ {"stop"})
    /\ work \in Requests \cup {None} /\ step \in Steps \cup {None}
    /\ work = None <=> step = None
    /\ reply["worker"] # "none" => step \in Calls
    /\ outcome \in [Navs -> {"none", "accepted", "SUCCEEDED", "FAILED"}]
    /\ line \in Sessions \cup {NoLine}
    /\ tick \in {"idle", "driven", "zeroed", "stopping"}
    /\ held \in BOOLEAN /\ loss \in BOOLEAN
    /\ asked \in 0 .. MaxRequests /\ breaks \in 0 .. MaxBreaks /\ cut \in BOOLEAN

(* A map navigation whose command is FAILED does not drive on, even when   *)
(* the robot took the goal after the call had timed out: a stop is behind  *)
(* it (NavigationService.execute), unless the connection broke meanwhile.  *)
FailedLeavesNoGoal ==
    \A n \in Navs :
        outcome[n] = "FAILED" /\ goal = n =>
            cut \/ \E i \in 1 .. Len(wire) : wire[i].op = "stop"

LastVelocity ==
    LET sent == {i \in 1 .. Len(wire) : wire[i].op \in {"drive", "zero"}}
    IN  IF sent = {} THEN IF driven THEN "drive" ELSE "zero"
        ELSE wire[CHOOSE i \in sent : \A j \in sent : j <= i].op

(* Nothing a tick still had under way drives the robot after line          *)
(* following was stopped: the last velocity sent is zero                   *)
(* (LineFollowService.stop beside tick_once).                              *)
EndedLineIsSilent == ~ Following => cut \/ LastVelocity = "zero"

(* When a tick that saw the line lost is over, the robot has stopped or a  *)
(* stop is on its way, whichever way the line was lost and although a call *)
(* may time out, unless line following ended or began anew meanwhile or    *)
(* the connection broke (take_safety_stop in runtime_tick).                *)
LossIsStopped ==
    loss /\ tick = "idle" => cut \/ \E i \in 1 .. Len(wire) : wire[i].op = "stop"
=============================================================================
