--------------------------- MODULE MissionService ---------------------------
(***************************************************************************)
(* Formation and missions (MissionService): a master drives to waypoints,  *)
(* a slave follows it.  HTTP handlers check a request against the state    *)
(* they see and queue it; the one command worker executes it later; the    *)
(* runtime tick consumes adapter events, reacts to alerts with a           *)
(* protective pause and moves the active mission on.                       *)
(*                                                                         *)
(* asyncio leaves a task only at an await, and the only awaits here are    *)
(* the calls to the robots.  So the worker and the ticker each make a list *)
(* of calls and then go on; nothing else happens (LoopFree) while one of   *)
(* them goes on.  A call's effect on a robot and its answer are one step   *)
(* (CommandDispatch tells them apart).  A mission read before an await is  *)
(* written back after it as it was read: the task's copy.                  *)
(***************************************************************************)
EXTENDS Integers, Sequences

CONSTANTS
    Missions,       \* missions of the one formation pair
    None,
    Waypoints,      \* the waypoints of a mission
    Repeats,        \* repeat_count, its laps
    SettleTicks,    \* the slave has 10 s to settle
    CallsMayFail,   \* a call may be lost, or be answered too late
    Patient,        \* the operator waits for a command to end before the next
    MaxCommands,    \* bound: commands submitted
    MaxAlerts,      \* bound: alerts that call for a protective pause
    MaxRestarts     \* bound: restarts of the backend

ASSUME MissionAssumption ==
    /\ None \notin Missions
    /\ Waypoints \in Nat \ {0} /\ Repeats \in Nat \ {0}
    /\ SettleTicks \in Nat
    /\ CallsMayFail \in BOOLEAN /\ Patient \in BOOLEAN
    /\ MaxCommands \in Nat /\ MaxAlerts \in Nat /\ MaxRestarts \in Nat

Robots        == {"master", "slave"}
Tasks         == {"worker", "ticker"}
MissionStates == {"none", "DRAFT", "READY", "STARTING", "RUNNING", "PAUSING", "PAUSED",
                  "CANCELING", "CANCELED", "SUCCEEDED", "FAILED"}
FormationModes == {"UNPAIRED", "READY", "FOLLOWING", "PAUSING", "PAUSED", "LOST",
                   "REJOINING", "STOPPED", "ERROR"}
InFlight      == {"STARTING", "RUNNING", "PAUSING", "CANCELING"}
Payloads      == [state : MissionStates, wp : 0 .. Waypoints - 1, lap : 0 .. Repeats - 1]
FormationOps  == {"pair", "unpair", "pause_formation", "rejoin"}
MissionOps    == {"validate", "start", "pause", "cancel"}
Views         == {"halted", "free", "other"}   \* other: rolling, stale or unknown
NoDeadline    == -1
Never         == SettleTicks + 1        \* float("inf")

VARIABLES
    mission,        \* the missions table; survives a restart
    formation,      \* state of formation_override
    active,         \* active_id
    deadline,       \* slave_wait_deadline: ticks left, NoDeadline or Never
    pausePending,   \* formation_pause_pending is set
    pauseLost,      \* formation_pause_reason is FOLLOW_LOST
    lane,           \* commands waiting for the worker
    task,           \* what the worker and the ticker are doing
    events,         \* missions with a navigate event not drained yet
    drive,          \* external: the mission the master has a goal of
    latched, view,  \* external: stop latches; what was last seen of a robot
    lost,           \* external: the adapter reports the formation LOST
    accepted, reached,  \* history: legs whose goal the master accepted, reached
    commands, alerts, restarts

memory   == <<active, deadline, pausePending, pauseLost>>
robots   == <<drive, latched, view, lost>>
history  == <<accepted, reached>>
counts   == <<commands, alerts, restarts>>
vars     == <<mission, formation, memory, lane, task, events, robots, history, counts>>

Draft == [state |-> "DRAFT", wp |-> 0, lap |-> 0]
Idle  == [pc |-> "idle", m |-> None, copy |-> Draft, calls |-> <<>>, ok |-> TRUE]
Begin(pc, m, copy, calls) ==
    [pc |-> pc, m |-> m, copy |-> copy, calls |-> calls, ok |-> TRUE]

Init ==
    /\ mission = [m \in Missions |-> [Draft EXCEPT !.state = "none"]]
    /\ formation = "UNPAIRED"
    /\ active = None /\ deadline = NoDeadline
    /\ pausePending = FALSE /\ pauseLost = FALSE
    /\ lane = <<>> /\ task = [t \in Tasks |-> Idle]
    /\ events = {}
    /\ drive = None /\ latched = Robots /\ view = [r \in Robots |-> "other"]
    /\ lost = FALSE
    /\ accepted = [m \in Missions |-> {}] /\ reached = [m \in Missions |-> {}]
    /\ commands = 0 /\ alerts = 0 /\ restarts = 0

GoesOn(t) == task[t].pc # "idle" /\ task[t].calls = <<>>
LoopFree  == \A t \in Tasks : ~ GoesOn(t)   \* no task holds the event loop
Halted    == \A r \in Robots : view[r] = "halted"    \* latched, fresh and standing
Leg(p)    == <<p.lap, p.wp>>

---------------------------------------------------------------------------
(* HTTP handlers.                                                          *)

PairAllowed == \A r \in Robots : view[r] = "free"

Submit(op, m) ==
    /\ commands < MaxCommands
    /\ Patient => lane = <<>> /\ task["worker"].pc = "idle"
    /\ commands' = commands + 1
    /\ lane' = Append(lane, [op |-> op, m |-> m])

CreateMission(m) ==
    /\ LoopFree
    /\ mission[m].state = "none"
    /\ formation = "READY" /\ PairAllowed
    /\ mission' = [mission EXCEPT ![m] = Draft]
    /\ UNCHANGED <<formation, memory, lane, task, events, robots, history, counts>>

EditMission(m) ==
    /\ LoopFree
    /\ mission[m].state = "READY"       \* a DRAFT stays one
    /\ mission' = [mission EXCEPT ![m].state = "DRAFT"]
    /\ UNCHANGED <<formation, memory, lane, task, events, robots, history, counts>>

FormationAction(op) ==
    /\ LoopFree
    /\ CASE op = "pair"            -> formation \in {"UNPAIRED", "STOPPED"} /\ PairAllowed
         [] op = "unpair"          -> formation \in {"READY", "PAUSED", "STOPPED"}
         [] op = "rejoin"          -> formation = "LOST" /\ PairAllowed
         [] op = "pause_formation" -> formation = "FOLLOWING"
    /\ Submit(op, None)
    /\ UNCHANGED <<mission, formation, memory, task, events, robots, history, alerts,
                   restarts>>

ValidIn(op) ==
    CASE op = "validate" -> {"DRAFT"}
      [] op = "start"    -> {"READY", "PAUSED"}     \* and resume: PAUSED
      [] op = "pause"    -> {"RUNNING"}
      [] op = "cancel"   -> {"DRAFT", "READY", "RUNNING", "PAUSED"}

Claim(op, m) ==     \* a start is claimed before it is executed
    mission' = IF op = "start" THEN [mission EXCEPT ![m].state = "STARTING"] ELSE mission

MissionAction(op, m) ==
    /\ LoopFree
    /\ mission[m].state \in ValidIn(op)
    /\ op = "start" => formation \in {"READY", "PAUSED"}
    /\ Submit(op, m)
    /\ Claim(op, m)
    /\ UNCHANGED <<formation, memory, task, events, robots, history, alerts, restarts>>

---------------------------------------------------------------------------
(* Calls to the robots.                                                    *)

StopSlave   == <<[robot |-> "slave", op |-> "stop"]>>    \* mutant of StopBoth
StopBoth    == <<[robot |-> "master", op |-> "stop"], [robot |-> "slave", op |-> "stop"]>>
CancelStop  == <<[robot |-> "master", op |-> "cancel_navigation"]>> \o StopBoth
Navigate    == <<[robot |-> "master", op |-> "navigate"]>>
FollowStart == <<[robot |-> "slave", op |-> "follow_ready"],
                 [robot |-> "slave", op |-> "follow_start"]>>
Rejoin      == <<[robot |-> "slave", op |-> "rejoin"]>>

Refusable(op) == op \in {"navigate", "follow_ready", "follow_start", "rejoin"}
MayAccept(op) == op = "navigate" => "master" \notin latched /\ drive = None

Executed(c, m) ==
    /\ latched' = IF c.op = "stop" THEN latched \cup {c.robot} ELSE latched
    /\ drive' = CASE c.op = "navigate"      -> m
                  [] c.robot = "master"     -> None
                  [] OTHER                  -> drive

Call(t) ==
    /\ LoopFree
    /\ task[t].calls # <<>>
    /\ LET c == Head(task[t].calls)
           m == task[t].m
           answer(yes) ==
               task' = [task EXCEPT ![t].calls = IF ~ yes /\ task[t].pc = "follow"
                                                 THEN <<>> ELSE Tail(@),
                                    ![t].ok = @ /\ yes]
       IN  \/ /\ MayAccept(c.op)
              /\ Executed(c, m)
              /\ IF c.op = "navigate"
                 THEN /\ events' = events \cup {m}
                      /\ accepted' = [accepted EXCEPT ![m] = @ \cup {Leg(task[t].copy)}]
                 ELSE UNCHANGED <<events, accepted>>
              /\ answer(TRUE)
           \/ /\ Refusable(c.op) \/ CallsMayFail
              /\ UNCHANGED <<latched, drive, events, accepted>>
              /\ answer(FALSE)
           \/ /\ CallsMayFail /\ MayAccept(c.op)    \* executed, answered too late
              /\ Executed(c, m)
              /\ UNCHANGED <<events, accepted>>
              /\ answer(FALSE)
    /\ UNCHANGED <<mission, formation, memory, lane, view, lost, reached, counts>>

---------------------------------------------------------------------------
(* The worker: one command after the other, each up to its first call.     *)

Take(op) ==
    /\ LoopFree
    /\ task["worker"].pc = "idle"
    /\ lane # <<>> /\ Head(lane).op = op
    /\ lane' = Tail(lane)

Work(pc, m, copy, calls) == task' = [task EXCEPT !["worker"] = Begin(pc, m, copy, calls)]

ExecutePair ==
    /\ Take("pair") \/ Take("unpair")
    /\ formation' = IF Head(lane).op = "pair" THEN "READY" ELSE "UNPAIRED"
    /\ UNCHANGED <<mission, memory, task, events, robots, history, counts>>

ExecutePauseFormation ==
    /\ Take("pause_formation")
    /\ formation' = "PAUSING"
    /\ Work("pause_formation", None, Draft, CancelStop)
    /\ UNCHANGED <<mission, memory, events, robots, history, counts>>

ExecuteRejoin ==
    /\ Take("rejoin")
    /\ formation' = "REJOINING"
    /\ Work("rejoin_stops", None, Draft, StopBoth)
    /\ UNCHANGED <<mission, memory, events, robots, history, counts>>

ExecuteValidate ==
    /\ Take("validate")
    /\ mission' = [mission EXCEPT ![Head(lane).m].state = "READY"]
    /\ UNCHANGED <<formation, memory, task, events, robots, history, counts>>

ExecuteStart ==
    /\ Take("start")
    /\ LET m == Head(lane).m IN
          Work("follow", m, [mission[m] EXCEPT !.state = "STARTING"], FollowStart)
    /\ UNCHANGED <<mission, formation, memory, events, robots, history, counts>>

ExecuteCancelEarly ==
    /\ Take("cancel")
    /\ mission[Head(lane).m].state \in {"DRAFT", "READY"}
    /\ mission' = [mission EXCEPT ![Head(lane).m].state = "CANCELED"]
    /\ UNCHANGED <<formation, memory, task, events, robots, history, counts>>

ExecutePauseOrCancel ==
    /\ \/ Take("pause")
       \/ Take("cancel") /\ mission[Head(lane).m].state \notin {"DRAFT", "READY"}
    /\ LET m     == Head(lane).m
           state == IF Head(lane).op = "pause" THEN "PAUSING" ELSE "CANCELING"
       IN  Work("pause", m, [mission[m] EXCEPT !.state = state], CancelStop)
    /\ UNCHANGED <<mission, formation, memory, events, robots, history, counts>>

Execute ==
    \/ ExecutePair \/ ExecutePauseFormation \/ ExecuteRejoin \/ ExecuteValidate
    \/ ExecuteStart \/ ExecuteCancelEarly \/ ExecutePauseOrCancel

(* The worker goes on after its calls.                                     *)

WorkerAt(pc) == GoesOn("worker") /\ task["worker"].pc = pc
Done         == task' = [task EXCEPT !["worker"] = Idle]
Copy         == task["worker"].copy
Store(m, p)  == mission' = [mission EXCEPT ![m] = p]

PauseFormationEnds ==
    /\ WorkerAt("pause_formation")
    /\ IF task["worker"].ok
       THEN pausePending' = TRUE /\ pauseLost' = FALSE /\ UNCHANGED formation
       ELSE formation' = "ERROR" /\ UNCHANGED <<pausePending, pauseLost>>
    /\ Done
    /\ UNCHANGED <<mission, active, deadline, lane, events, robots, history, counts>>

RejoinStopsEnd ==
    /\ WorkerAt("rejoin_stops")
    /\ IF task["worker"].ok
       THEN Work("rejoin", None, Draft, Rejoin) /\ UNCHANGED formation
       ELSE Done /\ formation' = "ERROR"
    /\ UNCHANGED <<mission, memory, lane, events, robots, history, counts>>

RejoinEnds ==
    /\ WorkerAt("rejoin")
    /\ formation' = IF task["worker"].ok THEN "READY" ELSE "ERROR"
    /\ Done
    /\ UNCHANGED <<mission, memory, lane, events, robots, history, counts>>

FollowStarted ==
    /\ WorkerAt("follow") /\ task["worker"].ok
    /\ formation' = "FOLLOWING"
    /\ active' = task["worker"].m
    /\ Work("navigate", task["worker"].m, [Copy EXCEPT !.state = "RUNNING"], Navigate)
    /\ UNCHANGED <<mission, deadline, pausePending, pauseLost, lane, events, robots,
                   history, counts>>

FollowRefused ==
    /\ WorkerAt("follow") /\ ~ task["worker"].ok
    /\ Work("follow_refused", task["worker"].m, [Copy EXCEPT !.state = "PAUSED"], StopBoth)
    /\ UNCHANGED <<mission, formation, memory, lane, events, robots, history, counts>>

FollowRefusedEnds ==
    /\ WorkerAt("follow_refused")
    /\ formation' = "PAUSED"
    /\ Store(task["worker"].m, Copy)
    /\ Done
    /\ UNCHANGED <<memory, lane, events, robots, history, counts>>

StartEnds ==
    /\ WorkerAt("navigate") /\ task["worker"].ok
    /\ Store(task["worker"].m, Copy)
    /\ Done
    /\ UNCHANGED <<formation, memory, lane, events, robots, history, counts>>

PauseEnds ==
    /\ WorkerAt("pause")
    /\ formation' = IF task["worker"].ok THEN "PAUSED" ELSE formation
    /\ Store(task["worker"].m, Copy)
    /\ Done
    /\ UNCHANGED <<memory, lane, events, robots, history, counts>>

(* _navigate, for the worker and the ticker: a refused goal stops both     *)
(* robots and fails the mission.                                           *)
NavigateRefused(t) ==
    /\ GoesOn(t) /\ task[t].pc \in {"navigate", "advance"} /\ ~ task[t].ok
    /\ task' = [task EXCEPT ![t] =
                   Begin("refused", task[t].m, [task[t].copy EXCEPT !.state = "FAILED"],
                         StopBoth)]
    /\ UNCHANGED <<mission, formation, memory, lane, events, robots, history, counts>>

NavigateRefusedEnds(t) ==
    /\ GoesOn(t) /\ task[t].pc = "refused"
    /\ active' = None
    /\ Store(task[t].m, task[t].copy)
    /\ task' = [task EXCEPT ![t] = Idle]
    /\ UNCHANGED <<formation, deadline, pausePending, pauseLost, lane, events, robots,
                   history, counts>>

WorkerGoesOn ==
    \/ PauseFormationEnds \/ RejoinStopsEnd \/ RejoinEnds \/ FollowStarted
    \/ FollowRefused \/ FollowRefusedEnds \/ StartEnds \/ PauseEnds
    \/ NavigateRefused("worker") \/ NavigateRefusedEnds("worker")

---------------------------------------------------------------------------
(* The runtime tick: drain events, pause for an alert, then _tick.         *)

ToTick      == task' = [task EXCEPT !["ticker"] = Begin("tick", None, Draft, <<>>)]
TickerAt(pc) == GoesOn("ticker") /\ task["ticker"].pc = pc
TickReturns == task' = [task EXCEPT !["ticker"] = Idle]

ConsumeEvents ==
    /\ events' = {}
    /\ deadline' = IF active \in events /\ deadline = NoDeadline
                   THEN SettleTicks ELSE deadline

(* protective_pause up to its first call; isLost: for a FOLLOW_LOST alert. *)
ProtectivePause(isLost) ==
    LET idle == formation \notin {"FOLLOWING", "LOST", "PAUSING"} /\ active = None IN
    \/ idle /\ ToTick /\ UNCHANGED <<mission, formation, pauseLost>>
    \/ /\ ~ idle /\ pausePending
       /\ formation' = IF isLost THEN "LOST" ELSE formation
       /\ pauseLost' = (isLost \/ pauseLost)
       /\ ToTick
       /\ UNCHANGED mission
    \/ /\ ~ idle /\ ~ pausePending
       /\ mission' = [m \in Missions |->
                         IF m = active /\ mission[m].state \in {"RUNNING", "STARTING"}
                         THEN [mission[m] EXCEPT !.state = "PAUSING"] ELSE mission[m]]
       /\ formation' = IF isLost THEN "LOST" ELSE "PAUSING"
       /\ task' = [task EXCEPT !["ticker"] =
                      Begin(IF isLost THEN "guard_lost" ELSE "guard", None, Draft, StopBoth)]
       /\ UNCHANGED pauseLost

TickBegins ==
    /\ LoopFree
    /\ task["ticker"].pc = "idle"
    /\ ConsumeEvents
    /\ \/ /\ ToTick
          /\ UNCHANGED <<mission, formation, pauseLost, alerts>>
       \/ /\ alerts < MaxAlerts
          /\ alerts' = alerts + 1
          /\ \E isLost \in BOOLEAN :
                /\ isLost => lost \/ formation = "LOST"
                /\ ProtectivePause(isLost)
    /\ UNCHANGED <<active, pausePending, lane, robots, history, commands, restarts>>

ProtectivePauseEnds ==
    /\ TickerAt("guard") \/ TickerAt("guard_lost")
    /\ LET ok == task["ticker"].ok IN
          /\ pausePending' = ok
          /\ pauseLost' = (ok /\ task["ticker"].pc = "guard_lost")
          /\ formation' = IF ok THEN formation ELSE "ERROR"
    /\ ToTick
    /\ UNCHANGED <<mission, active, deadline, lane, events, robots, history, counts>>

---------------------------------------------------------------------------
(* _tick.  First the pending pause of the formation, then what the active  *)
(* mission calls for.                                                      *)

PauseSeen      == pausePending /\ Halted
FormationNow   == IF PauseSeen THEN (IF pauseLost THEN "LOST" ELSE "PAUSED") ELSE formation
PendingNow     == pausePending /\ ~ PauseSeen
ActiveState    == IF active = None THEN "none" ELSE mission[active].state

Settled        == deadline # NoDeadline /\ ActiveState = "RUNNING" /\ view["slave"] = "halted"
Overdue        == deadline = 0 /\ ActiveState = "RUNNING" /\ ~ Settled
FollowIsLost   == lost /\ ~ PendingNow /\ ActiveState \in {"RUNNING", "STARTING"}
                  /\ ~ Settled /\ ~ Overdue
PauseAwaited   == ActiveState = "PAUSING"     \* mutant of StopAwaited: no cancel
StopAwaited    == ActiveState \in {"PAUSING", "CANCELING"}

Tick0 ==    \* what every way through _tick has in common
    /\ TickerAt("tick")
    /\ pausePending' = PendingNow
    /\ pauseLost' = (pauseLost /\ PendingNow)
    /\ UNCHANGED <<lane, events, robots, history, counts>>

PastWaypoints(p) == p.wp = Waypoints     \* mutant of LastWaypoint: off by one
LastWaypoint(p) == p.wp + 1 = Waypoints
LastOfLap(p)    == LastWaypoint(p)     \* mutant of LastLeg: forgets the laps
LastLeg(p)      == LastWaypoint(p) /\ p.lap + 1 = Repeats
NextLeg(p)      == IF LastWaypoint(p) THEN [p EXCEPT !.wp = 0, !.lap = @ + 1]
                                      ELSE [p EXCEPT !.wp = @ + 1]

TickAdvances ==
    /\ Tick0 /\ Settled /\ ~ LastLeg(mission[active])
    /\ deadline' = Never
    /\ formation' = FormationNow
    /\ task' = [task EXCEPT !["ticker"] =
                   Begin("advance", active, NextLeg(mission[active]), Navigate)]
    /\ UNCHANGED <<mission, active>>

TickSucceeds ==
    /\ Tick0 /\ Settled /\ LastLeg(mission[active])
    /\ deadline' = Never
    /\ mission' = [mission EXCEPT ![active].state = "SUCCEEDED"]
    /\ active' = None
    /\ formation' = "READY"
    /\ TickReturns

TickSettleTimeout ==
    /\ Tick0 /\ Overdue
    /\ mission' = [mission EXCEPT ![active].state = "PAUSED"]
    /\ formation' = "PAUSED"
    /\ deadline' = NoDeadline
    /\ TickReturns
    /\ UNCHANGED active

TickFollowLost ==
    /\ Tick0 /\ FollowIsLost
    /\ formation' = "LOST"
    /\ task' = [task EXCEPT !["ticker"] =
                   Begin("lost", active, [mission[active] EXCEPT !.state = "PAUSING"], StopBoth)]
    /\ UNCHANGED <<mission, active, deadline>>

TickStopSeen ==
    /\ Tick0 /\ StopAwaited /\ Halted
    /\ LET canceled == ActiveState = "CANCELING" IN
          /\ mission' = [mission EXCEPT ![active].state =
                            IF canceled THEN "CANCELED" ELSE "PAUSED"]
          /\ active' = IF canceled THEN None ELSE active
          /\ formation' = CASE FormationNow = "LOST" -> "LOST"
                            [] canceled              -> "READY"
                            [] OTHER                 -> "PAUSED"
    /\ TickReturns
    /\ UNCHANGED deadline

TickElse ==
    /\ Tick0
    /\ ~ Settled /\ ~ Overdue /\ ~ FollowIsLost /\ ~ (StopAwaited /\ Halted)
    /\ formation' = FormationNow
    /\ TickReturns
    /\ UNCHANGED <<mission, active, deadline>>

AdvanceEnds ==
    /\ TickerAt("advance") /\ task["ticker"].ok
    /\ Store(task["ticker"].m, task["ticker"].copy)
    /\ deadline' = NoDeadline
    /\ TickReturns
    /\ UNCHANGED <<formation, active, pausePending, pauseLost, lane, events, robots,
                   history, counts>>

LostStopsEnd ==     \* update_mission(self.active_id, mission)
    /\ TickerAt("lost")
    /\ mission' = [m \in Missions |-> IF m = active THEN task["ticker"].copy ELSE mission[m]]
    /\ TickReturns
    /\ UNCHANGED <<formation, memory, lane, events, robots, history, counts>>

TickerGoesOn ==
    \/ ProtectivePauseEnds \/ TickAdvances \/ TickSucceeds \/ TickSettleTimeout
    \/ TickFollowLost \/ TickStopSeen \/ TickElse \/ AdvanceEnds \/ LostStopsEnd
    \/ NavigateRefused("ticker") \/ NavigateRefusedEnds("ticker")

---------------------------------------------------------------------------
(* The robots (external), time and restarts.                               *)

MasterArrives ==
    /\ LoopFree
    /\ drive # None
    /\ drive' = None
    /\ reached' = [reached EXCEPT ![drive] = @ \cup {Leg(mission[drive])}]
    /\ UNCHANGED <<mission, formation, memory, lane, task, events, latched, view, lost,
                   accepted, counts>>

(* Another stop, or a robot that starts up latched.                        *)
RobotLatches(r) ==
    /\ LoopFree
    /\ r \notin latched
    /\ latched' = latched \cup {r}
    /\ drive' = IF r = "master" THEN None ELSE drive
    /\ UNCHANGED <<mission, formation, memory, lane, task, events, view, lost, history,
                   counts>>

(* reset_stop goes through the worker, so between two commands.            *)
RobotReleased(r) ==
    /\ LoopFree
    /\ task["worker"].pc = "idle"
    /\ r \in latched
    /\ latched' = latched \ {r}
    /\ drive' = IF r = "master" THEN None ELSE drive
    /\ UNCHANGED <<mission, formation, memory, lane, task, events, view, lost, history,
                   counts>>

(* A status message of each robot; a view may also get stale.              *)
Observe ==
    /\ LoopFree
    /\ view' \in [Robots -> Views]
    /\ \A r \in Robots : /\ view'[r] = "halted" => r \in latched
                         /\ view'[r] = "free" => r \notin latched
    /\ UNCHANGED <<mission, formation, memory, lane, task, events, drive, latched, lost,
                   history, counts>>

LostChanges ==
    /\ LoopFree
    /\ lost \/ alerts < MaxAlerts
    /\ lost' = ~ lost
    /\ UNCHANGED <<mission, formation, memory, lane, task, events, drive, latched, view,
                   history, counts>>

Clock ==
    /\ LoopFree
    /\ deadline \in 1 .. SettleTicks
    /\ deadline' = deadline - 1
    /\ UNCHANGED <<mission, formation, active, pausePending, pauseLost, lane, task, events,
                   robots, history, counts>>

(* MissionService.__init__: in-flight missions become PAUSED.              *)
Restart ==
    /\ LoopFree
    /\ restarts < MaxRestarts
    /\ restarts' = restarts + 1
    /\ mission' = [m \in Missions |->
                      IF mission[m].state \in InFlight
                      THEN [mission[m] EXCEPT !.state = "PAUSED"] ELSE mission[m]]
    /\ formation' = IF lost THEN "LOST" ELSE "UNPAIRED"
    /\ active' = None /\ deadline' = NoDeadline
    /\ pausePending' = FALSE /\ pauseLost' = FALSE
    /\ lane' = <<>> /\ task' = [t \in Tasks |-> Idle] /\ events' = {}
    /\ view' = [r \in Robots |-> "other"]
    /\ UNCHANGED <<drive, latched, lost, history, commands, alerts>>

Handlers ==
    \/ \E m \in Missions : CreateMission(m) \/ EditMission(m)
    \/ \E op \in FormationOps : FormationAction(op)
    \/ \E op \in MissionOps, m \in Missions : MissionAction(op, m)

Environment ==
    \/ MasterArrives \/ Observe \/ LostChanges
    \/ \E r \in Robots : RobotLatches(r) \/ RobotReleased(r)

Next ==
    \/ Handlers
    \/ Execute
    \/ \E t \in Tasks : Call(t)
    \/ WorkerGoesOn
    \/ TickBegins
    \/ TickerGoesOn
    \/ Environment
    \/ Clock
    \/ Restart

Spec == Init /\ [][Next]_vars

(* The worker and the tick run, calls are answered or time out, and robots *)
(* that stay latched are seen to stand by some later tick.                 *)
ObserveHalted == Observe /\ Halted'
TickOnHalted  == TickBegins /\ Halted
Fairness ==
    /\ WF_vars(Execute) /\ WF_vars(WorkerGoesOn) /\ WF_vars(TickerGoesOn)
    /\ \A t \in Tasks : WF_vars(Call(t))
    /\ SF_vars(ObserveHalted) /\ SF_vars(TickOnHalted)

FairSpec == Spec /\ Fairness
---------------------------------------------------------------------------
(* The types of all variables.                                             *)
TypeOK ==
    /\ mission \in [Missions -> Payloads]
    /\ formation \in FormationModes
    /\ active \in Missions \cup {None}
    /\ deadline \in NoDeadline .. Never
    /\ pausePending \in BOOLEAN /\ pauseLost \in BOOLEAN
    /\ lane \in Seq([op : FormationOps \cup MissionOps, m : Missions \cup {None}])
    /\ \A t \in Tasks : /\ task[t].m \in Missions \cup {None}
                        /\ task[t].copy \in Payloads /\ task[t].ok \in BOOLEAN
    /\ events \subseteq Missions
    /\ drive \in Missions \cup {None}
    /\ latched \subseteq Robots /\ view \in [Robots -> Views] /\ lost \in BOOLEAN

Legs == (0 .. Repeats - 1) \X (0 .. Waypoints - 1)

(* A mission that succeeded has had the goal of each of its waypoints, in   *)
(* every lap, accepted by the master.                                       *)
SuccessDroveEveryLeg ==
    \A m \in Missions : mission[m].state = "SUCCEEDED" => accepted[m] = Legs

(* While calls are reliable and the operator waits for each command, the   *)
(* master has no goal of a mission that was canceled or has failed.        *)
EndedStops ==
    \A m \in Missions : mission[m].state \in {"CANCELED", "FAILED"} => drive # m

(* The active mission leaves PAUSING and CANCELING when both robots stay    *)
(* latched.                                                                 *)
ActivePauseEnds ==
    \A m \in Missions :
        (active = m /\ mission[m].state \in {"PAUSING", "CANCELING"}) ~>
            (active # m \/ mission[m].state \notin {"PAUSING", "CANCELING"} \/ latched # Robots)

---------------------------------------------------------------------------
(* What the repository's texts say and the code does not do.               *)

(* A paused formation drives on by start or resume, which makes it          *)
(* FOLLOWING first (docs/02-functional-spec.md:102); releasing a stop does  *)
(* not resume (:107, :116).  A start that a protective pause overtook       *)
(* writes RUNNING over PAUSING, and the tick drives it on after a release.  *)
PausedGetsNoGoal == [][drive' # drive /\ formation = "PAUSED" => drive' = None]_vars

=============================================================================
