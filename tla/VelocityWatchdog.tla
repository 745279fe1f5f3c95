------------------------- MODULE VelocityWatchdog -------------------------
(***************************************************************************)
(* The robot-side control mediator (ManualVelocityWatchdog): the only      *)
(* publisher in front of /cmd_vel.  It serves /control/command, relays the *)
(* manual and navigation velocity inputs through a stop latch, a mode gate *)
(* and a deadman timeout, and owns the NavigateToPose goal it has sent.    *)
(*                                                                         *)
(* rclpy.spin runs every callback to its end before the next one, so each  *)
(* callback is one action.  What is asynchronous is Nav2: a goal request   *)
(* is answered, executed, cancelled and concluded by another process, and  *)
(* the answer and the result come back through callbacks of their own.     *)
(* Time is counted in periods of the publish timer (50 ms).                *)
(***************************************************************************)
EXTENDS Integers, Sequences

CONSTANTS
    CommandIds,     \* command ids that arrive on /control/command
    NoId,           \* the empty id, ""
    RecentMax,      \* maxlen of _recent_command_ids (128)
    MaxSpeed,       \* largest speed an input or a setting asks for
    ManualTimeout,  \* manual_timeout_sec, in ticks
    NavTimeout,     \* nav_timeout_sec, in ticks
    WaitTicks,      \* how long wait_for_server(0.25 s) may block, in ticks
    CancelMayFail   \* cancel_goal_async() may raise, and the node swallows it

ASSUME WatchdogAssumption ==
    /\ NoId \notin CommandIds /\ "manual" \notin CommandIds \cup {NoId}
    /\ RecentMax \in Nat \ {0}
    /\ MaxSpeed \in Nat \ {0}
    /\ ManualTimeout \in Nat
    /\ NavTimeout \in Nat
    /\ WaitTicks \in Nat
    /\ CancelMayFail \in BOOLEAN

Ids           == CommandIds \cup {NoId}
Modes         == {"IDLE", "AUTO", "FOLLOW", "MANUAL", "STOPPED"}
CommandStates == {"IDLE", "RUNNING", "SUCCEEDED", "REJECTED", "FAILED", "CANCELED"}
Results       == {"SUCCEEDED", "CANCELED", "FAILED"}
GoalStates    == {"none", "requested", "refused", "executing", "canceling"} \cup Results
Callbacks     == {"none", "response", "result"}
Speeds        == 0 .. MaxSpeed
AgeCap        == ManualTimeout + NavTimeout + WaitTicks + 2   \* ages saturate here
Ages          == 0 .. AgeCap
Sources       == {"manual"} \cup Ids    \* a goal's id, or NoId: the follow controller
Velocities    == [speed : Speeds, age : Ages, from : Sources]

VARIABLES
    mode, stopLatched,          \* the gate
    commandState, activeId,     \* what ControlStatus reports
    recentIds,                  \* _recent_command_ids
    limit,                      \* max_linear / max_angular
    manual, nav,                \* the last manual and navigation input
    lastOutput,                 \* _last_output, with the age its input has now
    publishDue,                 \* the publish timer has expired
    navCommandId, navHandle,    \* _nav_command_id; the id whose handle is held
    canceledIds,                \* _canceled_navigation_ids
    terminal,                   \* _navigation_terminal_at is set
    goal,                       \* Nav2: the state of each goal request
    callback,                   \* the future of that goal this node waits for
    beforeStop                  \* history: goals sent before the last stop

gate     == <<mode, stopLatched>>
status   == <<commandState, activeId>>
inputs   == <<limit, manual, nav>>
output   == <<lastOutput, publishDue>>
tracking == <<navCommandId, navHandle, canceledIds>>
nav2     == <<goal, callback>>
vars     == <<gate, status, recentIds, inputs, output, tracking, terminal, nav2,
              beforeStop>>

AtMost(a, b) == IF a <= b THEN a ELSE b
AtLeast(a, b) == IF a <= b THEN b ELSE a
Older(v, d)  == [v EXCEPT !.age = AtMost(@ + d, AgeCap)]
Zero         == [speed |-> 0, age |-> AgeCap, from |-> "manual"]

Init ==
    /\ mode = "STOPPED" /\ stopLatched = TRUE
    /\ commandState = "IDLE" /\ activeId = NoId
    /\ recentIds = <<>>
    /\ limit = MaxSpeed
    /\ manual = Zero /\ nav = Zero
    /\ lastOutput = Zero /\ publishDue = FALSE
    /\ navCommandId = NoId /\ navHandle = NoId /\ canceledIds = {}
    /\ terminal = FALSE
    /\ goal = [c \in CommandIds |-> "none"]
    /\ callback = [c \in CommandIds |-> "none"]
    /\ beforeStop = {}

---------------------------------------------------------------------------
(* Velocity inputs.  A navigation velocity carries the goal Nav2 computed  *)
(* it for, or NoId when the follow controller sent it.                     *)

ManualVelocity(s) ==
    /\ manual' = [speed |-> AtMost(s, limit), age |-> 0, from |-> "manual"]
    /\ UNCHANGED <<gate, status, recentIds, limit, nav, output, tracking, terminal,
                   nav2, beforeStop>>

Driving == {NoId} \cup {c \in CommandIds : goal[c] \in {"executing", "canceling"}}

NavVelocity(c, s) ==
    /\ c \in Driving
    /\ nav' = [speed |-> AtMost(s, limit), age |-> 0, from |-> c]
    /\ UNCHANGED <<gate, status, recentIds, limit, manual, output, tracking,
                   terminal, nav2, beforeStop>>

---------------------------------------------------------------------------
(* Commands.  An id seen among the last RecentMax commands is answered     *)
(* DUPLICATE_IGNORED and changes nothing; an evicted id comes back only    *)
(* when the goal it once stood for is over.  A due timer is served first.  *)

Known(c)    == \E i \in 1 .. Len(recentIds) : recentIds[i] = c
Remember(c) == LET all == Append(recentIds, c)
               IN  IF Len(all) > RecentMax THEN Tail(all) ELSE all

Arrives(c) ==
    /\ ~ Known(c)
    /\ goal[c] = "none" /\ callback[c] = "none"
    /\ ~ publishDue
    /\ recentIds' = Remember(c)

Duplicate(c) == Known(c) /\ UNCHANGED vars

CancelGoal(h) ==    \* goal_handle.cancel_goal_async()
    goal' = [c \in CommandIds |->
                IF c = h /\ goal[c] = "executing" THEN "canceling" ELSE goal[c]]

CancelNavigation ==
    /\ canceledIds' = canceledIds \cup ({navCommandId} \ {NoId})
    /\ navCommandId' = NoId /\ navHandle' = NoId
    /\ \/ CancelGoal(navHandle)
       \/ CancelMayFail /\ UNCHANGED goal
    /\ UNCHANGED callback

Succeed == commandState' = "SUCCEEDED" /\ activeId' = NoId
Reject  == commandState' = "REJECTED" /\ activeId' = NoId

Latch ==
    /\ stopLatched' = TRUE /\ mode' = "STOPPED"
    /\ beforeStop' = {c \in CommandIds : goal[c] # "none"}

Stop(c) ==
    /\ Arrives(c)
    /\ CancelNavigation
    /\ Latch
    /\ Succeed
    /\ UNCHANGED <<inputs, output, terminal>>

ResetStop(c) ==
    /\ Arrives(c)
    /\ CancelNavigation
    /\ stopLatched' = FALSE /\ mode' = "IDLE"
    /\ Succeed
    /\ UNCHANGED <<inputs, output, terminal, beforeStop>>

SetModeStopped(c) ==
    /\ Arrives(c)
    /\ CancelNavigation
    /\ Latch
    /\ Succeed
    /\ UNCHANGED <<inputs, output, terminal>>

SetMode(c, m) ==
    /\ Arrives(c)
    /\ ~ stopLatched /\ m # "STOPPED"
    /\ IF m = "AUTO" THEN UNCHANGED <<tracking, nav2>> ELSE CancelNavigation
    /\ mode' = m
    /\ Succeed
    /\ UNCHANGED <<stopLatched, inputs, output, terminal, beforeStop>>

CancelCommand(c) ==
    /\ Arrives(c)
    /\ CancelNavigation
    /\ mode' = IF stopLatched THEN mode ELSE "IDLE"
    /\ Succeed
    /\ UNCHANGED <<stopLatched, inputs, output, terminal, beforeStop>>

ApplySettingsAny(c, l) ==    \* mutant of ApplySettings: zero is not refused
    /\ Arrives(c)
    /\ limit' = l
    /\ Succeed
    /\ UNCHANGED <<gate, manual, nav, output, tracking, terminal, nav2, beforeStop>>

ApplySettings(c, l) ==
    /\ Arrives(c)
    /\ l > 0
    /\ limit' = l
    /\ Succeed
    /\ UNCHANGED <<gate, manual, nav, output, tracking, terminal, nav2, beforeStop>>

(* An invalid angular limit is found after the linear one has been set.    *)
ApplySettingsPartly(c, l) ==
    /\ Arrives(c)
    /\ l > 0
    /\ limit' = l
    /\ Reject
    /\ UNCHANGED <<gate, manual, nav, output, tracking, terminal, nav2, beforeStop>>

(* Any other bad parameter, an unknown operation, set_mode or navigate     *)
(* while latched, navigate while a goal is tracked: nothing has changed.   *)
RejectCommand(c) ==
    /\ Arrives(c)
    /\ Reject
    /\ UNCHANGED <<gate, inputs, output, tracking, terminal, nav2, beforeStop>>

MayNavigate == ~ stopLatched /\ navCommandId = NoId /\ navHandle = NoId

(* wait_for_server(0.25 s) blocks the executor until Nav2 is seen.         *)
Waits ==
    \E d \in 0 .. WaitTicks :
        /\ manual' = Older(manual, d) /\ nav' = Older(nav, d)
        /\ lastOutput' = Older(lastOutput, d)
        /\ publishDue' = (d > 0)

(* NAVIGATION_UNAVAILABLE, or INVALID_GOAL, which is looked at after it.   *)
NavigateRefused(c) ==
    /\ Arrives(c)
    /\ MayNavigate
    /\ Waits
    /\ Reject
    /\ UNCHANGED <<gate, limit, tracking, terminal, nav2, beforeStop>>

NavigateSendFailed(c) ==
    /\ Arrives(c)
    /\ MayNavigate
    /\ Waits
    /\ terminal' = FALSE
    /\ Reject
    /\ UNCHANGED <<gate, limit, tracking, nav2, beforeStop>>

Navigate(c) ==
    /\ Arrives(c)
    /\ MayNavigate
    /\ Waits
    /\ navCommandId' = c
    /\ activeId' = c /\ commandState' = "RUNNING"
    /\ terminal' = FALSE
    /\ goal' = [goal EXCEPT ![c] = "requested"]
    /\ callback' = [callback EXCEPT ![c] = "response"]
    /\ beforeStop' = beforeStop \ {c}
    /\ UNCHANGED <<gate, limit, navHandle, canceledIds>>

---------------------------------------------------------------------------
(* Nav2, the action server (external).  A goal may execute before the node *)
(* has been told that it was accepted.                                     *)

Nav2Answers(c) ==
    /\ goal[c] = "requested"
    /\ \E answer \in {"executing", "refused"} : goal' = [goal EXCEPT ![c] = answer]
    /\ UNCHANGED <<gate, status, recentIds, inputs, output, tracking, terminal,
                   callback, beforeStop>>

(* A goal nobody awaits any more is forgotten as soon as it is over.       *)
Nav2Ends(c) ==
    /\ goal[c] \in {"executing", "canceling"}
    /\ \E r \in Results :
          /\ r = "CANCELED" => goal[c] = "canceling"
          /\ goal' = [goal EXCEPT ![c] = IF callback[c] = "none" THEN "none" ELSE r]
    /\ UNCHANGED <<gate, status, recentIds, inputs, output, tracking, terminal,
                   callback, beforeStop>>

---------------------------------------------------------------------------
(* The callbacks of the goal's futures.                                    *)

Accepted(c) == goal[c] \in {"executing", "canceling"} \cup Results

FinishNavigation(s) ==
    /\ navHandle' = NoId /\ navCommandId' = NoId
    /\ activeId' = NoId /\ commandState' = s
    /\ mode' = "IDLE"
    /\ terminal' = TRUE

AbandonQuietly(c) ==    \* mutant of Abandon: a late acceptance is not cancelled
    callback' = [callback EXCEPT ![c] = "none"] /\ UNCHANGED goal

(* What remains of a goal whose answer has been seen and is not awaited.   *)
Abandon(c) ==
    /\ callback' = [callback EXCEPT ![c] = "none"]
    /\ goal' = [goal EXCEPT ![c] = CASE @ = "executing" -> "canceling"
                                     [] @ = "canceling" -> "canceling"
                                     [] OTHER           -> "none"]

(* Cancelled while the request was in flight, or no longer the current id. *)
LateGoalResponse(c) ==
    /\ callback[c] = "response" /\ goal[c] # "requested"
    /\ c \in canceledIds \/ c # navCommandId
    /\ canceledIds' = canceledIds \ {c}
    /\ Abandon(c)
    /\ UNCHANGED <<gate, status, recentIds, inputs, output, navCommandId, navHandle,
                   terminal, beforeStop>>

GoalAccepted(c) ==
    /\ callback[c] = "response" /\ Accepted(c)
    /\ c \notin canceledIds /\ c = navCommandId
    /\ navHandle' = c
    /\ callback' = [callback EXCEPT ![c] = "result"]
    /\ UNCHANGED <<gate, status, recentIds, inputs, output, navCommandId, canceledIds,
                   terminal, goal, beforeStop>>

GoalRejectedKept(c) ==  \* mutant of GoalRejected: the tracked id is not cleared
    /\ callback[c] = "response" /\ goal[c] = "refused"
    /\ c \notin canceledIds /\ c = navCommandId
    /\ Abandon(c)
    /\ UNCHANGED <<gate, status, recentIds, inputs, output, tracking, terminal,
                   beforeStop>>

GoalRejected(c) ==
    /\ callback[c] = "response" /\ goal[c] = "refused"
    /\ c \notin canceledIds /\ c = navCommandId
    /\ \E s \in {"REJECTED", "FAILED"} : FinishNavigation(s)
    /\ Abandon(c)
    /\ UNCHANGED <<stopLatched, recentIds, inputs, output, canceledIds, beforeStop>>

GoalResultOfAny(c) ==   \* mutant of GoalResult: the result of a superseded goal counts
    /\ callback[c] = "result" /\ goal[c] \in Results
    /\ FinishNavigation(goal[c])
    /\ callback' = [callback EXCEPT ![c] = "none"]
    /\ goal' = [goal EXCEPT ![c] = "none"]
    /\ UNCHANGED <<stopLatched, recentIds, inputs, output, canceledIds, beforeStop>>

GoalResult(c) ==
    /\ callback[c] = "result" /\ goal[c] \in Results
    /\ IF c = navCommandId
       THEN FinishNavigation(goal[c])
       ELSE UNCHANGED <<mode, status, navCommandId, navHandle, terminal>>
    /\ callback' = [callback EXCEPT ![c] = "none"]
    /\ goal' = [goal EXCEPT ![c] = "none"]
    /\ UNCHANGED <<stopLatched, recentIds, inputs, output, canceledIds, beforeStop>>

---------------------------------------------------------------------------
(* Timers.                                                                 *)

GatedByMode ==  \* mutant of Gated: no deadman on the inputs
    CASE ~ stopLatched /\ mode = "MANUAL"           -> manual
      [] ~ stopLatched /\ mode \in {"AUTO", "FOLLOW"} -> nav
      [] OTHER -> Zero

Gated ==    \* the velocity the gate lets through, before the final clamp
    CASE ~ stopLatched /\ mode = "MANUAL" /\ manual.age <= ManualTimeout -> manual
      [] ~ stopLatched /\ mode \in {"AUTO", "FOLLOW"} /\ nav.age <= NavTimeout -> nav
      [] OTHER -> Zero

PublishWhenReleased ==  \* mutant of PublishOutput: sends nothing while latched
    /\ publishDue
    /\ publishDue' = FALSE
    /\ lastOutput' = IF stopLatched THEN lastOutput
                     ELSE [Gated EXCEPT !.speed = AtMost(@, limit)]
    /\ UNCHANGED <<gate, status, recentIds, inputs, tracking, terminal, nav2,
                   beforeStop>>

PublishOutput ==
    /\ publishDue
    /\ publishDue' = FALSE
    /\ lastOutput' = [Gated EXCEPT !.speed = AtMost(@, limit)]
    /\ UNCHANGED <<gate, status, recentIds, inputs, tracking, terminal, nav2,
                   beforeStop>>

(* _publish_status, more than 1 s after a navigation ended.                *)
StatusExpires ==
    /\ terminal
    /\ terminal' = FALSE
    /\ commandState' = "IDLE"
    /\ UNCHANGED <<gate, activeId, recentIds, inputs, output, tracking, nav2,
                   beforeStop>>

Tick ==
    /\ ~ publishDue
    /\ manual' = Older(manual, 1) /\ nav' = Older(nav, 1)
    /\ lastOutput' = Older(lastOutput, 1)
    /\ publishDue' = TRUE
    /\ UNCHANGED <<gate, status, recentIds, limit, tracking, terminal, nav2, beforeStop>>

---------------------------------------------------------------------------
Command(c) ==
    \/ Duplicate(c)
    \/ Stop(c)
    \/ ResetStop(c)
    \/ SetModeStopped(c)
    \/ \E m \in Modes : SetMode(c, m)
    \/ CancelCommand(c)
    \/ \E l \in Speeds : ApplySettings(c, l) \/ ApplySettingsPartly(c, l)
    \/ RejectCommand(c)
    \/ NavigateRefused(c)
    \/ NavigateSendFailed(c)
    \/ Navigate(c)

GoalCallback(c) ==
    \/ LateGoalResponse(c)
    \/ GoalAccepted(c)
    \/ GoalRejected(c)
    \/ GoalResult(c)

Nav2(c) == Nav2Answers(c) \/ Nav2Ends(c)

Next ==
    \/ \E s \in Speeds : ManualVelocity(s)
    \/ \E c \in Ids, s \in Speeds : NavVelocity(c, s)
    \/ \E c \in CommandIds : Command(c) \/ GoalCallback(c) \/ Nav2(c)
    \/ PublishOutput
    \/ StatusExpires
    \/ Tick

Spec == Init /\ [][Next]_vars

(* The executor runs every ready callback, and Nav2 concludes every goal.  *)
Fairness ==
    /\ \A c \in CommandIds : WF_vars(GoalCallback(c)) /\ WF_vars(Nav2(c))
    /\ WF_vars(PublishOutput)
    /\ WF_vars(Tick)

FairSpec == Spec /\ Fairness
---------------------------------------------------------------------------
(* The types of all variables.                                             *)
TypeOK ==
    /\ mode \in Modes /\ stopLatched \in BOOLEAN
    /\ commandState \in CommandStates /\ activeId \in Ids
    /\ recentIds \in Seq(CommandIds) /\ Len(recentIds) <= RecentMax
    /\ limit \in Speeds \ {0}
    /\ manual \in Velocities /\ nav \in Velocities
    /\ lastOutput \in Velocities /\ publishDue \in BOOLEAN
    /\ navCommandId \in Ids /\ navHandle \in Ids
    /\ canceledIds \subseteq CommandIds
    /\ terminal \in BOOLEAN
    /\ goal \in [CommandIds -> GoalStates]
    /\ callback \in [CommandIds -> Callbacks]
    /\ beforeStop \subseteq CommandIds

(* A latched robot is in STOPPED mode and tracks no goal, whatever answers  *)
(* and results arrive late: _finish_navigation sets IDLE without looking at *)
(* the latch, and only the cleared command id keeps it from doing so.       *)
StopDisarms ==
    /\ stopLatched <=> mode = "STOPPED"
    /\ stopLatched => navCommandId = NoId /\ navHandle = NoId

(* A goal Nav2 executes is the tracked one, or its answer is still on its   *)
(* way to a callback that will cancel it: no accepted goal is forgotten     *)
(* running (_cancel_navigation before the answer has arrived).              *)
NoOrphanGoal ==
    ~ CancelMayFail =>
        \A c \in CommandIds :
            goal[c] = "executing" => c = navCommandId \/ callback[c] = "response"

(* The deadman: the input behind a speed on /cmd_vel is never older than    *)
(* its own timeout plus one publish period, or plus the time               *)
(* wait_for_server keeps the executor from publishing, if that is longer.  *)
Timeout(v) == IF v.from = "manual" THEN ManualTimeout ELSE NavTimeout
DeadmanBound ==
    lastOutput.speed > 0 =>
        lastOutput.age <= Timeout(lastOutput) + AtLeast(1, WaitTicks)

(* A speed limit lowered while a faster input is cached holds for the very  *)
(* next output (_publish_output clamps again).                              *)
OutputWithinLimit == [][lastOutput'.speed > lastOutput.speed => lastOutput'.speed <= limit]_vars

(* A latched stop reaches the wheels, unless it is released first.          *)
StopTakesEffect == stopLatched ~> (lastOutput.speed = 0 \/ ~ stopLatched)

(* Every navigate command the node has accepted is released again: by its   *)
(* result, its rejection or a cancellation (NAVIGATION_BUSY never sticks).  *)
NavigationEnds == \A c \in CommandIds : navCommandId = c ~> navCommandId # c

---------------------------------------------------------------------------
(* What the repository's texts say and the code does not do.               *)

(* "Releasing the latch must never resume a goal that was accepted before  *)
(* the stop" (_command_callback, reset_stop): the wheels do not turn for a *)
(* goal sent before the last stop.                                         *)
ReleaseNeverResumes ==
    [][PublishOutput => lastOutput'.speed = 0 \/ lastOutput'.from \notin beforeStop]_vars
=============================================================================
