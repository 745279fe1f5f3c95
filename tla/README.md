# Formal model of the Pinky control platform

TLA+ modules for the control path of the repository: from an operator's HTTP
request through the backend's command queue, over rosbridge, to the mediator on
the robot that alone may publish `/cmd_vel`; who holds authority, how silence
becomes an alert and a stop, and the mapping programs the backend launches. TLC
checks them on small instances, TLAPS proves the safety properties of all of them
for every value of their constants. Paths below are relative to `src/`;
`backend/` stands for `backend/pinky_control_center/`.

## 1. The system

| Part | Code | State | Operations | Module |
|---|---|---|---|---|
| Velocity watchdog | `ros/pinky_control_watchdog/.../manual_velocity_watchdog.py` | stop latch, mode, limits, last inputs and output, tracked goal, recent and canceled ids | velocity inputs, `/control/command`, goal callbacks, output (50 ms) and status timers | VelocityWatchdog |
| Command dispatcher | `backend/command_service.py`, `api/control.py` | two lanes, `_queued_ids`, `_active_stops`, the running command | submit, worker, protective stop, refresh of stops | CommandDispatch, CommandLedger |
| Stop confirmation | `backend/safety_service.py` | `requested`, `stable_since` | request, observe, states | CommandDispatch |
| Missions, formation | `backend/mission_service.py`, `api/missions.py` | missions, formation override, `active_id`, settle deadline, pending pause | create, edit, validate, start, pause, cancel, pair, rejoin, tick, protective pause | MissionService |
| Sessions, lease, teleop | `backend/auth.py`, `teleop_service.py`, `storage.py` | sessions, one control lease of 3 s, deadman of each robot | login, logout, acquire, renew, release, teleop socket, expiry | ControlAuthority, ExclusiveControl |
| Rosbridge adapter | `backend/adapters/ros.py` | socket, pending calls, robot state, events | connect, run, execute, receive, close | RosAdapter, RobotCall |
| Alerts, state store | `backend/alert_service.py`, `state_store.py` | alert and two timers per (code, robot), `disconnected` | evaluate, snapshot, disconnect | Monitoring |
| Line following | `backend/line_follow_service.py` | misses, TRACKING / STALLED / LOST, pending stop | start, stop, tick | RobotTasks |
| Map navigation | `backend/navigation_service.py` | - | validate, submit, execute | RobotTasks |
| Mapping runner | `backend/mapping_runner.py`, `mapping_service.py` | subprocess, session | launch, cancel | MappingRunner |
| Mapping programs | `lap585/` | stages, goals, visited and excluded places | hybrid, sweep, explore, fill, return | MappingPipeline |
| Storage | `backend/storage.py` | SQLite tables, one RLock | commands, missions, sessions, lease, alerts, history | within the above |
| Runtime tick | `backend/main.py` | - | `runtime_tick` every 50 ms | its parts, within the above |
| Settings, maps, cameras, recording, map stream | `backend/*_service.py` | values, frames, files | read, write | - |
| Nav2 lifecycle gate, bringup | `ros/pinky_control_navigation`, `ros/pinky_control_bringup`, `deployment` | lifecycle states | start-up order | - |
| Frontend, CLI, learning, sim | `frontend`, `control_client`, `learning`, `sim` | views | - | - |

How they run. The backend is one asyncio process: handlers, the command worker,
a task for each web socket and the watchdog task interleave only at an `await`.
The robot node is one single-threaded executor: a callback runs to its end, but
Nav2 is another process whose answers and results come back in callbacks of
their own. Between the two lies a link that loses, delays and outlives calls. The
mapping programs are processes of their own, one at a time under a script.

What makes each part correct:

- watchdog: while latched nothing drives and no goal is tracked; a goal Nav2
  executes is never forgotten; an old input never drives; a stop reaches the
  wheels; NAVIGATION_BUSY ends.
- dispatcher: a request runs at most once however often it is posted; memory and
  database agree; a command is only reported done when every robot has executed it,
  and what was concluded stays so;
  a protective stop tries every robot; every command ends.
- missions: no waypoint is skipped; an ended mission has no goal; a pause ends and
  stays a pause until resumed.
- authority: one session drives at a time; a robot driven by hand is watched; a
  lapsed lease stops the robots; an input that stops coming ends.
- adapter: what `execute` tells its caller is what the robot did, as far as that
  can be known; nothing shown is older than the connection; it reconnects.
- alerts: none is lost between its edge and the pause; timers are honest.
- single-robot tasks: a failed navigation, an ended line and a lost line leave the
  robot standing.
- mapping: the program and Nav2 never drive at once; a jump of the map that an
  explorer notices ends the run; a cancel leaves nothing behind; every run ends.

`PROJECT.json` lists every part with its status and, under `hazards`, each place
where this code is hard to test, with the property that covers it or the reason
why none does.

## 2. Modules

### VelocityWatchdog (with MCVelocityWatchdog, VelocityWatchdog_proofs)

One action per callback. `Command(c)` is the branch of `_command_callback` that
command `c` takes; `Arrives` is the duplicate test and the bookkeeping of recent
ids, `CancelNavigation` is `_cancel_navigation`, used by every branch that calls
it, including its swallowed exception (`CancelMayFail`). `GoalCallback` has the
late, accepted, rejected and result paths. `PublishOutput` gates, applies the
deadman and clamps again. `goal` and `callback` hold what Nav2 does and which
future the node still waits for; `Nav2Answers` and `Nav2Ends` are external.

Data: a velocity is its speed, the age of the input and where it came from;
linear and angular are treated alike. Ages saturate at `AgeCap`, past every
timeout. Time is counted in output periods; `wait_for_server` may block for up to
`WaitTicks` of them (`Waits`), and then the due timer is served first
(`publishDue`). The blocking begins at a tick of the model; in real time it may
begin anywhere in a period, so the age `DeadmanBound` allows may be longer by one
period. Assumed of the callers: a command id that has been evicted from
the 128 recent ones comes back only when its goal is over, and no id is empty.

### CommandDispatch implements CommandLedger (with MCCommandDispatch, _proofs)

`Submit` is the HTTP handler with `dispatcher.submit`, retries included. The
worker is `StartNext`, then `SendCall` and either `RobotExecutes` (answered in
time) or `CallFails` for each target, then `Conclude`; a command with a handler
ends in `TaskEnds`. `RefreshStops` is the tick's `observe`, `states` and
`refresh_stops` in one, as in `main.py:169-173`. A protective stop is a second
caller beside the worker. `Restart` keeps the database and what is on the wire.
Robots are external: a call is executed in order, answered, answered too late,
or lost; `view` is what the state store last learnt (an odometer that disagrees
counts as not standing). `set_mode` stands for the modes other than STOPPED. A command
is for one robot or for the two (`command_service.py:135`), each named once.

`CommandLedger` is what the store promises the operator who polls a command: each
request goes from ACCEPTED over RUNNING to one conclusion that stays, the robots it
names carry it out at most once each and not before it began, and SUCCEEDED means
that all of them have. Only a retry that meets a full lane takes an ACCEPTED one
back. Of FAILED and TIMED_OUT it promises nothing: a robot may still carry the
command out. The mapping is the identity on `db` and `executed`; `Performers` gives
it the robots, none for a command with a handler, whose verdict is its own.

### MissionService (with MCMissionService, MissionService_proofs)

Two tasks, the worker and the ticker, each with the calls still to be made and
the copy of the mission it has read. `Call` makes one call; everything between
two awaits is one action, and no other action happens while one is due
(`LoopFree`), so the reads before and the writes after an await are apart exactly
where the code awaits. `Next` follows the code: handlers, the execution of each
queued operation, `TickBegins` (events and alerts, with `ProtectivePause`), the
ways through `_tick`, `Restart` (the recovery in `__init__`). A mission is its
state, waypoint and lap; a call's effect and its answer are one step, since
CommandDispatch separates them. `resume` is `start`: the code handles both alike
apart from the states they are valid in. Settings do not change after pairing.
The module takes any number of missions; the runs have one.

### ControlAuthority implements ExclusiveControl (with _proofs)

Sessions and the lease row are tables; `Authority` is the lease row while its time
has not run out, read as `owns_lease` reads it, and the refinement mapping of
`ExclusiveSpec` (`holder <- Authority`). A task per web socket and the tick each
have the protective-stop calls they still have to make (`todo`), so a publish,
a zero or a stop may interleave at every await. The tick is `TeleopTick` (entries
silent too long leave the deadman), `ZeroVelocity` for each of them and
`ExpireSecurity`. `lost` marks a robot for which a call failed: past that only the
robot's own watchdog helps. Every publish and every call may be refused. A socket
ends in `Disconnect`, or in `SocketFails` when a frame cannot be read or an answer
cannot be written: then the handler dies without its protective stop and the
deadman entry stays. `InputAccepted` is one action from `owns_lease` to the write on
the robot's socket; the await between the two gives way only under back-pressure.

### RosAdapter implements RobotCall (with _proofs)

The `_run` task of one robot with its reconnect delay, and any number of callers
of `execute`. Connections are numbered; `pending`, `wire` and `answers` remember
which one a call belongs to, `shown` which one a displayed value came from. During
the backoff after an exception the entry in `_sockets` stays, as in
the code, and a dead connection may still execute what it carried.
`RobotCall` is what the services assume of the adapter: accepted means executed,
refused means never, and of a failed call nothing is known. A post (initial pose)
is left out of it: its acceptance only says that it was written.

### Monitoring (with MCMonitoring, Monitoring_proofs)

`Fault` is what `evaluate` derives from the age of the last message
(`StateStore._fresh_robot`), `Condition` one call of `_condition` with both
timers. `Evaluate` is the tick up to the first alert; `PauseSkipped`,
`PauseBegins`, `StopAnswered` are `protective_pause` with its early returns, for
one alert after the other. Three kinds of code are modelled: at once, delayed,
and with a separate condition to clear. `quiet` and `lasting` measure
independently of the timers what they are meant to measure. `excused` are the
alerts that were active when a drive began: the code lets an operator start under
an alert, since alerts are edges.

### RobotTasks (with MCRobotTasks, RobotTasks_proofs)

What one robot can be asked beside missions. A request is judged by the snapshot
(`MayAsk`), queued, and carried out by the worker as steps: a navigation is
`initial_pose`, `set_mode AUTO`, `navigate`, and a `stop` when that is refused or
not answered in time. The tick follows a line beside it on the same socket. `wire`
holds what the robot has not read; a late answer reaches nobody. `Effect` is the
watchdog's gate in short. The lease is assumed, other robots, teleop on the same
topic, throttling and the values of velocities are left out. `cut` is set when the
connection breaks while something is under way: what a lost socket carried is
lost, and the three safety properties are about the other cases.

### MappingPipeline and MappingRunner (with MCMapping, MappingRunner_proofs)

`MappingPipeline` is the script with its EXIT trap, `pinky_hybrid.py` stage by
stage, and the program a stage runs: `Sweep` (wallfollow: corners, escapes),
`Explore` (legs, retries, blacklist, way home) and `Fill` (gaps of the walls).
Which frontiers are left, how a leg ends, whether the map grew and whether a look
finds that it jumped are free. `MappingRunner` extends it with `launch` and `cancel` as
the worker runs them: SIGINT to the group, five seconds of grace, SIGKILL, the
drain of the output. Assumed: a new launch comes when the earlier programs and
Nav2's goal are gone, and programs do not raise once they have begun (an explorer
that raised would leave with code 1, which pinky_hybrid takes for a normal end).
`Cancels` ends Nav2's execution at once, while `cancelTask` returns when Nav2 has
accepted the cancel; the time Nav2 then takes to halt is outside the model.

The launch sets `PINKY_TRACK_W` and `PINKY_TRACK_H` to 0 (`mapping_runner.py:37-38`),
and `run_lap_real.sh` leaves them so. `pinky_mapcheck.py:32-34` then has no size to
check, and `health()` (146-151) never calls a map diverged: the three looks of
pinky_hybrid (`:237`, `:270`, `:311`) cannot fire, and the model has no branch for
them. What is left is the comparison with the last look of the same process
(`jumped`). In a sweep it only ends the sweep (part of `SweepEnds`); in an explorer
(`Notices`) it sets `diverged`, here `seen`, for the rest of the process, and its
exit code 3 is what pinky_hybrid stops for. `seen` is kept after the process has
ended, until the next program starts, so that `NoticedEndsRun` can speak of it.

### Definitions marked "mutant of"

Next to some definitions stands a deliberately wrong variant, marked in its
comment. No specification uses one. Put in the place of the right definition, it
makes TLC report the property it is listed with: this shows that the property
depends on that piece of code.

## 3. Runs

| Run | Properties | Instance |
|---|---|---|
| Watchdog | TypeOK, StopDisarms, NoOrphanGoal, DeadmanBound; StopTakesEffect, NavigationEnds | 3 ids, timeouts 0, wait 1, fairness |
| WatchdogResume (violated) | ReleaseNeverResumes | 3 ids, one remembered, navigation timeout 1 |
| DispatchLanes | TypeOK, QueueMatchesStore; CommandsEnd | stop of both, set_mode, a handler command; 3 submissions, a lane of 1, fairness |
| DispatchStops | ProtectiveReachesAll, AtMostOnce; LedgerSpec | stop of both, reset of one; 3 submissions, a restart, a protective stop |
| MissionProgress | TypeOK, SuccessDroveEveryLeg | 2 waypoints, 2 laps, failing calls, impatient operator, restart |
| MissionLive | EndedStops; ActivePauseEnds | 1 waypoint, an alert, reliable calls, fairness |
| MissionResume (violated) | PausedGetsNoGoal | 2 waypoints, an alert |
| Authority | TypeOK, MovingIsGuarded; ExclusiveSpec, LapseStops, InputEnds | 2 sessions, 1 robot, lease of 1, input limit 0, 2 inputs, fairness |
| Adapter | TypeOK, ShownIsCurrent, EventsAreTrue; CallSpec, NotHammered, Reconnects | a navigate, a stop, a post; 2 faults, fairness |
| Monitoring | TypeOK, NoBlindDrive; AlertsAreEarned, FaultsClear | 2 robots of which one may fall silent, 2 codes, fairness |
| Mapping | TypeOK, OneDriver, CanceledIsOver; NoticedEndsRun, PipelineEnds | 3 frontiers, 2 gaps, 2 rounds, fairness |
| Tasks | TypeOK, FailedLeavesNoGoal, EndedLineIsSilent, LossIsStopped | 2 navigations, 3 requests, a socket of 2 messages that breaks once, 2 misses to a loss, symmetric |

Why the bounds are enough.

- Watchdog: three ids are a goal, the command that cancels it, and the next goal or
  release. Timeouts of 0 make the deadman strike at once and a wait of 1 puts a
  blocked period beyond them; larger values, and the speed limit, are covered by
  the proofs.
- Dispatch: two robots are what the code has; a lane of one is the smallest that
  can be full with a command waiting; three submissions are a request, its retry
  and a rival.
- Missions: two waypoints and two laps contain every boundary of `_tick`; four
  commands are pair, validate, start and one more.
- Authority: two sessions are a holder and a rival, two inputs a moving one before
  and after a lapse; the robots do not interact but in the list of stop calls,
  which the proofs cover for any number.
- Adapter: two faults break a connection and the next attempt; the calls are one of
  each kind the code tells apart.
- Monitoring: the times keep the order of the code's 1 s, 3 s, 15 s, scaled down;
  the third code differs from the first only in its threshold.
- Mapping: with two failures to exclude a place and two refusals in a row, three
  frontiers leave room for success, exclusion and refusal in one search.
- Tasks: three requests are a navigation, another task and a stop or release; two
  misses still have a miss before the loss (the code waits for three).

In no run but Adapter's may the system stop: time, an environment step or a
request is always possible. An adapter that is closed with all its calls ended has
nothing left to do, so that run does not look for deadlocks.

Fairness. `rclpy.spin` serves every ready callback and asyncio every ready task,
so the callbacks, timers, the worker, the tick and the continuation of an awaited
call are weakly fair, and so are the clock and a call's two-second timeout. The
mapping programs run, and each has a limit on its time or its attempts. Assumed of
the environment: Nav2 answers and concludes goals (`NavigationEnds`,
`PipelineEnds`), and robots that stay latched are seen to stand and by a tick
(`ObserveHalted`, `TickOnHalted`, strongly fair, since views come and go). Nothing
is assumed of operators, alerts or the link.

### What the violated runs show

- **WatchdogResume**: releasing a stop cancels the goal but not its cached
  velocity; set_mode AUTO within `nav_timeout` drives on, against the comment at
  `manual_velocity_watchdog.py:170`.
- **MissionResume**: a start writes RUNNING over the PAUSING of a protective pause
  and drives on after the stop is released (`docs/02-functional-spec.md:102,116`).

### Seen while modelling

Behaviour the modules reproduce and that differs from a document or surprises, but
has no run of its own.

- Commands: a release queued before a stop is executed after it
  (`docs/02-functional-spec.md:46`), and what was queued behind it may then drive.
  Commands stay ACCEPTED or RUNNING after a restart. Handlers run inside the
  worker, so a stop waits behind one (five seconds of a mapping cancel). A
  request-id conflict of `reset_stop` is not answered 409 as elsewhere.
- Missions: with two missions a lost follower can make one skip legs. `_tick` stops
  both robots for the active one and then writes the copy it read to
  `self.active_id`, read anew (`mission_service.py:161`); a start that set it to the
  other mission meanwhile gets the first one's waypoints and indices written over
  its own, and goes on from there when it is resumed. The proof of
  `SuccessDroveEveryLeg` failed at this step, and TLC confirmed it with two missions.
- Missions: the settle timeout stores PAUSED and stops nobody (`:103`); a mission
  that is not `active_id` never leaves CANCELING (`:110`); a second `validate`
  undoes the claim of a start; a start queued behind a cancel drives a canceled
  mission; the adapter reports a navigate as SUCCEEDED when it is accepted; the
  settle deadline stays infinite for the next mission. `EndedStops` is about the
  master's goal only: no property says that the slave has been stopped.
- Authority: an `acquire_lease` that removes the elapsed row before the tick sees it
  leaves nobody to stop the robots, and a release stops nobody either (the
  disjuncts of `LapseStops`). The 1 s rule of `_tick` for teleop never fires before
  the 0.3 s rule. A publish the adapter refuses removes the deadman entries of both
  robots through the protective stop.
- Adapter: the map stream is not subscribed again after a reconnect
  (`main.py:240-245`). `apply_settings` always answers False.
- Alerts: one that comes up while a start is under way, between its claim and
  RUNNING (`mission_service.py:315-340`), is swallowed, and that drive begins
  (`excused` in `NoBlindDrive`). COMMAND_REJECTED and PROTECTIVE_STOP_UNCONFIRMED are never cleared; a
  battery between its thresholds does not restart the clear timer; a fault that
  comes back within the clear window starts no new pause; a TF never expires.
- Tasks: a line found after LOST is followed again without a new start, once the
  latch is released and MANUAL set (`superpowers/specs/2026-09-17-line-follow-design.md:45`
  says "No auto-resume"); neither a stop nor a protective stop ends line following.
  A navigation validated while another waits publishes its start pose under the
  driving robot. A goal accepted when the end of the previous one has reset the
  mode to IDLE does not move, since mode and goal are two commands.
- Mapping: a session whose pipeline ended by itself stays RUNNING until a cancel,
  which then reports PAUSED. The exit code is always that of the trap's `kill 0`.
  `broken()` of pinky_hybrid (`pinky_hybrid.py:154-158`) was added so that no stage
  drives on over a map that came apart, but with the size check switched off by the
  launch it never says so. A jump in a sweep, while walls are filled, or one that no
  look of an explorer meets (looks are at least 6 s apart and compare with a value at
  most 10 s old) is followed by the next program; what `NoticedEndsRun` says of an
  explorer is all that is left of the rule. `return_home` goes on sending goals after
  the explorer itself has seen the map jump. An explorer counts a place as visited
  when a result that was already SUCCEEDED meets its own cancel. An interrupted
  wallfill leaves its goal to Nav2.

## 4. Proofs

Each theorem rests on the named assumption on the constants alone.

`VelocityWatchdog_proofs`:

- `TypeCorrect`: `Spec => []TypeOK`. Every lemma below assumes it.
- `StopDisarmsAlways`: inductive together with the types. The step that carries the
  argument is a result or rejection: it sets IDLE only for the tracked id, and a
  latched node has none.
- `NoOrphanGoalAlways`: `NoOrphanGoal` alone is not inductive, since a tracked goal
  may be dropped by a cancel. `OrphanInv` adds that the handle of a tracked,
  executing goal is held unless its answer is still to come (`HandleHeld`), and
  that a request still on its way is awaited (`RequestAwaited`).
- `DeadmanBoundAlways`: `DeadmanInv` grants the extra period, or the blocked time,
  only while the timer is due (`DelayBound`), and keeps the source of each input
  (`SourcesKept`), on which the timeout depends.
- `OutputWithinLimitAlways`: an action property, from the types: a step that raises
  the output speed leaves it within the limit in force.

`CommandDispatch_proofs` (for any requests, robots, lanes and number of restarts):

- `TypeCorrect`, and `QueueAlwaysMatchesStore`. `LaneInv` says where each queued id
  is; `AgreeInv` adds what the property leaves out, that the worker's command and an
  acknowledged stop are RUNNING: so a retry, which queues only what is ACCEPTED,
  never puts one of them in a lane again.
- `AtMostOnceAlways`: a request at a robot is untouched, once on the wire, or done
  (`AloneInv`). A command the store calls ACCEPTED is untouched everywhere
  (`FreshInv`), and so is the worker's command at the robots it has still to call
  (`TodoInv`, which needs each robot named once). A restart keeps all three: it drops
  lanes and worker but leaves RUNNING in the store.
- `StoreKeepsLedger`: the command path implements CommandLedger. `StoreWay` follows a
  request through the store, `ExecutionStep` the robots: what is on a wire is for a
  robot the request names (`AimInv`), of a request that was begun (`FreshInv`), and
  was not executed there (`AloneInv`). That SUCCEEDED means executed by all
  (`SucceededAlwaysCarriedOut`) takes `DoneInv`: an acknowledged stop has reached every
  target, the worker's command each target it has called if none refused.
- `ProtectiveAlwaysReachesAll`: `ReachInv`, a robot is tried or still in the list.

`MissionService_proofs` (for any missions, waypoints, laps and bounds):

- `TypeCorrect`: the types need to know which calls a task can have left for what it
  does, and with what copy (`Fits`), since a copy is stored when they are done.
- `SuccessAlwaysDroveEveryLeg`: `SuccessInv` says of every stored mission, and of every
  copy a task holds over its calls, that the legs before its own have been accepted
  (`Covers`), and of a RUNNING one its own leg too. It takes failing and late calls,
  restarts and an operator who does not wait. The one step that breaks it is the
  write to another mission described above, hence the hypothesis
  `[]LostKeepsMission`. `OneMissionDroveEveryLeg` proves that hypothesis when there
  is one mission, as in the run.
- `EndedAlwaysStops`, when no call fails and the operator waits for each command, as in
  the run; without either the property is false of the code. `EndedInv` is what makes
  `EndedStops` inductive: a mission is being started (`Starting`) or driven on
  (`Advancing`) by one task at a time and never by both, its stored state says so
  (`StateInv`), a latched master has no goal (`LatchInv`), and a pause or a refused
  goal has stopped the master before it stores the end (`PauseStops`,
  `RefusedStops`). A cancel may meet a ticker that still waits for its next goal to be
  accepted; only then has the master a goal of a mission that is CANCELING.

`ControlAuthority_proofs`:

- `ControlIsExclusive`: every step maps to a step of ExclusiveControl or stutters
  (`StepRefines`); the only invariant it needs is that the lease's time is a
  number. Whether the row is removed by a handler, the tick or a logout, or merely
  runs out, `Authority` goes through None before another session has it.
- `TypeCorrect`, `MovingAlwaysGuarded`: `GuardInv` adds that nothing is left to zero
  between two ticks. A protective stop takes all deadman entries away but has
  every robot in its list (`BegunStopGuards`).

`RosAdapter_proofs`:

- `TypeCorrect`, `ShownAlwaysCurrent`, `NeverHammered`.
- `EventsAlwaysTrue`, `CallsAreFaithful`: `ContractInv` follows each call's verdict
  back: a result or event comes from a future, a future from an answer, an answer
  from an execution; and a call refused for want of a socket is nowhere on a wire.
  `StepKeepsContract` maps each step to a step of RobotCall.

`Monitoring_proofs`:

- `TypeCorrect`; `NoBlindDriveAlways`: while the formation drives and no pause is
  pending, an active alert was active when the drive began or is still in the
  tick's list (`DriveInv`). Stop calls need no mention, since a pause leaves
  FOLLOWING behind and only a start goes back to it.
- `AlertsAlwaysEarned`: an action property from `TimersHonest`, a timer never claims
  more than the evaluations saw; a restart only resets the timers.

`MappingRunner_proofs` (of both mapping modules):

- `TypeCorrect`: not inductive as it stands, since a counter stays in its range only
  because attempts are left when one is begun. `PlaceInv` says what each program's
  place is for, `SearchInv` and `BudgetInv` that a place still open has failures
  left, the way home attempts, and a search a round.
- `OneDriverAlways` with `PlaceInv`. `CanceledIsOverAlways` from `OverInv`: with the
  script down no stage is left, so no step of pinky_hybrid is enabled.
- `NoticedAlwaysEndsRun`: an action property from `NoticedInv`: what an explorer has
  noticed is in its `diverged`, then in exit code 3 or 4, unless it was interrupted,
  until the run is over; no other program has it set.

`RobotTasks_proofs`:

- `TypeCorrect`, with `WorkInv` for the worker's step and call.
- `EndedLineAlwaysSilent`: `EndedLineIsSilent` is not inductive. A session may begin
  without a socket and get one later, so `SilentInv` demands the zero also while
  there is none to send a velocity on. `Silent` says without CHOOSE that a zero is
  the last velocity under way, or none is and the input has expired; it survives
  each message the robot reads (`SilentRead`) and each one sent (`SilentSent`).
- `LossAlwaysStopped`: between the tick that sees the loss and its stop, the stop is
  still owed (`LossInv`); one that cannot be sent finds the connection broken.
- `FailedAlwaysLeavesNoGoal`: a navigation is in one place, the queue or the worker
  (`NavInv`). `SentInv` follows its goal over the wire: not sent yet, or sent with a
  stop behind it by the time it is FAILED; the order of the wire survives every
  message sent and read (`SendsKeeps`, `Behind`).

Every safety property of a passing run is now a theorem. Only model-checked: all
liveness, since fairness needs ENABLED, which stays with TLC (StopTakesEffect,
NavigationEnds, CommandsEnd, ActivePauseEnds, LapseStops, InputEnds, Reconnects,
FaultsClear, PipelineEnds).

## 5. Not modelled

Numeric code (scan geometry, line detection, map decoding, occupancy grids), file
and image pipelines (recording, camera, map streaming), HTTP validation and
wording, history records, settings, the start-up gate of Nav2, the frontend, the
command-line client, training and simulation: they hold no control state that
interleaves with the rest. An exception that ends the worker or the watchdog task,
SQLite failures, `start`/`_wait` and orphan detection of the mapping runner (no
caller in the backend), and fragment reassembly of the adapter are left out too.
Except in ControlAuthority a request stands for one that passed the lease check.

## 6. Plan

Done: the modules above, from the node in front of the wheels outwards.

The safety properties of all runs are proved.

Next, in this order:

1. A run of MissionService with two missions (copies stored under another id, stale
   settle deadline), if it stays within reach of TLC.
2. Action properties worth a proof: a mission that ended stays as it is.
