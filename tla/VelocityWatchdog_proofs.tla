---------------------- MODULE VelocityWatchdog_proofs ----------------------
(***************************************************************************)
(* Proofs about the control mediator, for every set of command ids, every  *)
(* timeout and every length of the duplicate memory.                       *)
(***************************************************************************)
EXTENDS VelocityWatchdog, TLAPS

(* Saturating ages stay ages, and an aged velocity keeps speed and source. *)
LEMMA OlderType ==
    ASSUME NEW v \in Velocities, NEW d \in Nat
    PROVE  /\ Older(v, d) \in Velocities
           /\ Older(v, d).speed = v.speed /\ Older(v, d).from = v.from
           /\ Older(v, d).age <= v.age + d
BY WatchdogAssumption DEF Older, AtMost, Velocities, Ages, AgeCap, Speeds

LEMMA InputType ==
    ASSUME NEW s \in Speeds, NEW l \in Speeds \ {0}, NEW f \in Sources
    PROVE  [speed |-> AtMost(s, l), age |-> 0, from |-> f] \in Velocities
BY WatchdogAssumption DEF AtMost, Velocities, Ages, AgeCap, Speeds

LEMMA ZeroType == Zero \in Velocities /\ Zero.speed = 0
BY WatchdogAssumption DEF Zero, Velocities, Ages, AgeCap, Speeds, Sources

(* The duplicate memory is a bounded sequence of command ids.              *)
LEMMA RememberType ==
    ASSUME NEW c \in CommandIds,
           recentIds \in Seq(CommandIds), Len(recentIds) <= RecentMax
    PROVE  Remember(c) \in Seq(CommandIds) /\ Len(Remember(c)) <= RecentMax
<1> DEFINE all == Append(recentIds, c)
<1>1. all \in Seq(CommandIds) /\ Len(all) = Len(recentIds) + 1
  OBVIOUS
<1>2. all # <<>>
  BY <1>1
<1>3. Tail(all) \in Seq(CommandIds) /\ Len(Tail(all)) = Len(recentIds)
  BY <1>1, <1>2
<1>4. QED
  BY <1>1, <1>3, WatchdogAssumption DEF Remember

(* What the gate lets through, clamped.                                    *)
LEMMA GatedType ==
    ASSUME TypeOK
    PROVE  /\ Gated \in Velocities
           /\ [Gated EXCEPT !.speed = AtMost(@, limit)] \in Velocities
<1>1. Gated \in Velocities
  BY ZeroType DEF Gated, TypeOK
<1>2. QED
  BY <1>1 DEF TypeOK, AtMost, Velocities, Speeds

(* Waiting for the action server ages the inputs and the output alike.     *)
LEMMA WaitsType ==
    ASSUME TypeOK, Waits
    PROVE  /\ manual' \in Velocities /\ nav' \in Velocities
           /\ lastOutput' \in Velocities /\ publishDue' \in BOOLEAN
<1>1. PICK d \in 0 .. WaitTicks :
          /\ manual' = Older(manual, d) /\ nav' = Older(nav, d)
          /\ lastOutput' = Older(lastOutput, d)
          /\ publishDue' = (d > 0)
  BY DEF Waits
<1>2. d \in Nat
  BY WatchdogAssumption
<1>3. QED
  BY <1>1, <1>2, OlderType DEF TypeOK

---------------------------------------------------------------------------
LEMMA CancelNavigationType ==
    ASSUME TypeOK, CancelNavigation
    PROVE  /\ navCommandId' \in Ids /\ navHandle' \in Ids
           /\ canceledIds' \subseteq CommandIds
           /\ goal' \in [CommandIds -> GoalStates]
           /\ callback' \in [CommandIds -> Callbacks]
BY DEF TypeOK, CancelNavigation, CancelGoal, GoalStates, Ids, Callbacks

LEMMA AbandonType ==
    ASSUME TypeOK, NEW c \in CommandIds, Abandon(c)
    PROVE  /\ goal' \in [CommandIds -> GoalStates]
           /\ callback' \in [CommandIds -> Callbacks]
<1>1. callback' \in [CommandIds -> Callbacks]
  BY DEF TypeOK, Abandon, Callbacks
<1>2. \A g \in GoalStates :
        (CASE g = "executing" -> "canceling"
           [] g = "canceling" -> "canceling"
           [] OTHER -> "none") \in GoalStates
  BY DEF GoalStates
<1>3. QED
  BY <1>1, <1>2 DEF TypeOK, Abandon

(* Every variable keeps its type.                                          *)
THEOREM TypeCorrect == Spec => []TypeOK
<1>1. Init => TypeOK
  <2> SUFFICES ASSUME Init PROVE TypeOK
    OBVIOUS
  <2>1. recentIds \in Seq(CommandIds) /\ Len(recentIds) <= RecentMax
    BY WatchdogAssumption DEF Init
  <2>2. limit \in Speeds \ {0}
    BY WatchdogAssumption DEF Init, Speeds
  <2>3. mode \in Modes /\ commandState \in CommandStates
    BY DEF Init, Modes, CommandStates
  <2>4. /\ goal \in [CommandIds -> GoalStates]
        /\ callback \in [CommandIds -> Callbacks]
    BY DEF Init, GoalStates, Callbacks
  <2>5. manual \in Velocities /\ nav \in Velocities /\ lastOutput \in Velocities
    BY ZeroType DEF Init
  <2>6. QED
    BY <2>1, <2>2, <2>3, <2>4, <2>5 DEF Init, TypeOK, Ids
<1>2. TypeOK /\ [Next]_vars => TypeOK'
  <2> SUFFICES ASSUME TypeOK, [Next]_vars PROVE TypeOK'
    OBVIOUS
  <2> USE DEF TypeOK, gate, status, inputs, output, tracking, nav2
  <2>1. ASSUME NEW s \in Speeds, ManualVelocity(s) PROVE TypeOK'
    BY <2>1, InputType DEF ManualVelocity, Sources
  <2>2. ASSUME NEW c \in Ids, NEW s \in Speeds, NavVelocity(c, s) PROVE TypeOK'
    BY <2>2, InputType DEF NavVelocity, Sources
  <2>3. ASSUME NEW c \in CommandIds, Command(c) PROVE TypeOK'
    <3>1. CASE Duplicate(c)
      BY <3>1 DEF Duplicate, vars
    <3>2. CASE Stop(c)
      BY <3>2, RememberType, CancelNavigationType
         DEF Stop, Arrives, Latch, Succeed, Modes, CommandStates, Ids
    <3>3. CASE ResetStop(c)
      BY <3>3, RememberType, CancelNavigationType
         DEF ResetStop, Arrives, Succeed, Modes, CommandStates, Ids
    <3>4. CASE SetModeStopped(c)
      BY <3>4, RememberType, CancelNavigationType
         DEF SetModeStopped, Arrives, Latch, Succeed, Modes, CommandStates, Ids
    <3>5. ASSUME NEW m \in Modes, SetMode(c, m) PROVE TypeOK'
      <4>1. CASE m = "AUTO"
        BY <3>5, <4>1, RememberType DEF SetMode, Arrives, Succeed, CommandStates, Ids
      <4>2. CASE m # "AUTO"
        BY <3>5, <4>2, RememberType, CancelNavigationType
           DEF SetMode, Arrives, Succeed, CommandStates, Ids
      <4>3. QED
        BY <4>1, <4>2
    <3>6. CASE CancelCommand(c)
      BY <3>6, RememberType, CancelNavigationType
         DEF CancelCommand, Arrives, Succeed, Modes, CommandStates, Ids
    <3>7. ASSUME NEW l \in Speeds, ApplySettings(c, l) PROVE TypeOK'
      BY <3>7, RememberType, WatchdogAssumption
         DEF ApplySettings, Arrives, Succeed, CommandStates, Ids, Speeds
    <3>8. CASE RejectCommand(c)
      BY <3>8, RememberType DEF RejectCommand, Arrives, Reject, CommandStates, Ids
    <3>9. CASE NavigateRefused(c)
      BY <3>9, RememberType, WaitsType
         DEF NavigateRefused, Arrives, Reject, CommandStates, Ids
    <3>10. CASE NavigateSendFailed(c)
      BY <3>10, RememberType, WaitsType
         DEF NavigateSendFailed, Arrives, Reject, CommandStates, Ids
    <3>11. CASE Navigate(c)
      BY <3>11, RememberType, WaitsType
         DEF Navigate, Arrives, CommandStates, Ids, GoalStates, Callbacks
    <3>12. ASSUME NEW l \in Speeds, ApplySettingsPartly(c, l) PROVE TypeOK'
      BY <3>12, RememberType, WatchdogAssumption
         DEF ApplySettingsPartly, Arrives, Reject, CommandStates, Ids, Speeds
    <3>13. QED
      BY <2>3, <3>1, <3>2, <3>3, <3>4, <3>5, <3>6, <3>7, <3>8, <3>9, <3>10, <3>11,
         <3>12 DEF Command
  <2>4. ASSUME NEW c \in CommandIds, GoalCallback(c) PROVE TypeOK'
    <3>1. CASE LateGoalResponse(c)
      BY <3>1, AbandonType DEF LateGoalResponse
    <3>2. CASE GoalAccepted(c)
      BY <3>2 DEF GoalAccepted, Ids, Callbacks
    <3>3. CASE GoalRejected(c)
      BY <3>3, AbandonType
         DEF GoalRejected, FinishNavigation, Modes, CommandStates, Ids
    <3>4. CASE GoalResult(c)
      BY <3>4
         DEF GoalResult, FinishNavigation, Modes, CommandStates, Results, Ids,
             GoalStates, Callbacks
    <3>5. QED
      BY <2>4, <3>1, <3>2, <3>3, <3>4 DEF GoalCallback
  <2>5. ASSUME NEW c \in CommandIds, Nav2(c) PROVE TypeOK'
    BY <2>5 DEF Nav2, Nav2Answers, Nav2Ends, GoalStates, Results
  <2>6. CASE PublishOutput
    BY <2>6, GatedType DEF PublishOutput
  <2>7. CASE StatusExpires
    BY <2>7 DEF StatusExpires, CommandStates
  <2>8. CASE Tick
    BY <2>8, OlderType DEF Tick
  <2>9. CASE UNCHANGED vars
    BY <2>9 DEF vars
  <2>10. QED
    BY <2>1, <2>2, <2>3, <2>4, <2>5, <2>6, <2>7, <2>8, <2>9 DEF Next
<1>3. QED
  BY <1>1, <1>2, PTL DEF Spec

---------------------------------------------------------------------------
(* A late answer or result cannot take a latched robot out of STOPPED: the *)
(* callback only finishes the tracked command, and a latch tracks none.    *)
THEOREM StopDisarmsAlways == Spec => []StopDisarms
<1>1. Init => StopDisarms
  BY DEF Init, StopDisarms
<1>2. TypeOK /\ StopDisarms /\ [Next]_vars => StopDisarms'
  <2> SUFFICES ASSUME TypeOK, StopDisarms, [Next]_vars PROVE StopDisarms'
    OBVIOUS
  <2> USE DEF StopDisarms, gate, tracking
  <2>1. ASSUME NEW c \in CommandIds, Command(c) PROVE StopDisarms'
    <3>1. CASE Stop(c) \/ SetModeStopped(c)
      BY <3>1 DEF Stop, SetModeStopped, Latch, CancelNavigation
    <3>2. CASE ResetStop(c)
      BY <3>2 DEF ResetStop, CancelNavigation
    <3>3. ASSUME NEW m \in Modes, SetMode(c, m) PROVE StopDisarms'
      BY <3>3 DEF SetMode
    <3>4. CASE CancelCommand(c)
      BY <3>4 DEF CancelCommand, CancelNavigation
    <3>5. CASE Navigate(c)
      BY <3>5 DEF Navigate, MayNavigate
    <3>6. CASE \/ Duplicate(c)
               \/ \E l \in Speeds : ApplySettings(c, l) \/ ApplySettingsPartly(c, l)
               \/ RejectCommand(c) \/ NavigateRefused(c) \/ NavigateSendFailed(c)
      BY <3>6
         DEF Duplicate, ApplySettings, ApplySettingsPartly, RejectCommand,
             NavigateRefused, NavigateSendFailed, vars
    <3>7. QED
      BY <2>1, <3>1, <3>2, <3>3, <3>4, <3>5, <3>6 DEF Command
  <2>2. ASSUME NEW c \in CommandIds, GoalCallback(c) PROVE StopDisarms'
    <3>1. c # NoId
      BY WatchdogAssumption
    <3>2. CASE LateGoalResponse(c)
      BY <3>2 DEF LateGoalResponse
    <3>3. CASE GoalAccepted(c)
      BY <3>1, <3>3 DEF GoalAccepted
    <3>4. CASE GoalRejected(c)
      BY <3>1, <3>4 DEF GoalRejected, FinishNavigation
    <3>5. CASE GoalResult(c)
      BY <3>1, <3>5 DEF GoalResult, FinishNavigation
    <3>6. QED
      BY <2>2, <3>2, <3>3, <3>4, <3>5 DEF GoalCallback
  <2>3. CASE \/ \E s \in Speeds : ManualVelocity(s)
             \/ \E c \in Ids, s \in Speeds : NavVelocity(c, s)
             \/ \E c \in CommandIds : Nav2(c)
             \/ PublishOutput \/ StatusExpires \/ Tick \/ UNCHANGED vars
    BY <2>3
       DEF ManualVelocity, NavVelocity, Nav2, Nav2Answers, Nav2Ends, PublishOutput,
           StatusExpires, Tick, vars
  <2>4. QED
    BY <2>1, <2>2, <2>3 DEF Next
<1>3. QED
  BY <1>1, <1>2, TypeCorrect, PTL DEF Spec

---------------------------------------------------------------------------
(* The strengthening NoOrphanGoal needs: while the tracked goal executes,  *)
(* its handle is held, or the answer that brings the handle is on its way. *)
HandleHeld ==
    \A c \in CommandIds :
        goal[c] = "executing" /\ c = navCommandId =>
            callback[c] = "response" \/ navHandle = c

(* Nobody stops waiting for the answer to a request still on its way.      *)
RequestAwaited ==
    \A c \in CommandIds : goal[c] = "requested" => callback[c] = "response"

OrphanInv == NoOrphanGoal /\ HandleHeld /\ RequestAwaited

(* A cancellation that reaches Nav2 leaves no goal executing but those     *)
(* whose answer is still to come.                                          *)
LEMMA CancelLeavesNoOrphan ==
    ASSUME TypeOK, OrphanInv, CancelNavigation
    PROVE  OrphanInv'
<1>1. navCommandId' = NoId
  BY DEF CancelNavigation
<1>2. HandleHeld'
  BY <1>1, WatchdogAssumption DEF HandleHeld
<1>3. ASSUME ~ CancelMayFail, NEW c \in CommandIds, goal'[c] = "executing"
      PROVE  callback'[c] = "response"
  <2>1. goal[c] = "executing" /\ c # navHandle /\ callback' = callback
    BY <1>3 DEF CancelNavigation, CancelGoal, TypeOK
  <2>2. QED
    BY <1>3, <2>1 DEF OrphanInv, NoOrphanGoal, HandleHeld
<1>4. QED
  <2>1. RequestAwaited'
    BY DEF CancelNavigation, CancelGoal, OrphanInv, RequestAwaited, TypeOK
  <2>2. QED
    BY <1>2, <1>3, <2>1 DEF OrphanInv, NoOrphanGoal

(* Nothing about goals has changed.                                        *)
LEMMA GoalsUntouched ==
    ASSUME OrphanInv, UNCHANGED <<tracking, nav2>>
    PROVE  OrphanInv'
BY DEF OrphanInv, NoOrphanGoal, HandleHeld, RequestAwaited, tracking, nav2

(* Once cancellation requests reach Nav2, every goal that executes is the  *)
(* tracked one, or will be cancelled by the callback that is still to run. *)
THEOREM NoOrphanGoalAlways == Spec => []NoOrphanGoal
<1>1. Init => OrphanInv
  BY DEF Init, OrphanInv, NoOrphanGoal, HandleHeld, RequestAwaited
<1>2. TypeOK /\ OrphanInv /\ [Next]_vars => OrphanInv'
  <2> SUFFICES ASSUME TypeOK, OrphanInv, [Next]_vars PROVE OrphanInv'
    OBVIOUS
  <2>1. ASSUME NEW c \in CommandIds, Command(c) PROVE OrphanInv'
    <3>1. CASE Stop(c) \/ SetModeStopped(c) \/ ResetStop(c) \/ CancelCommand(c)
      BY <3>1, CancelLeavesNoOrphan DEF Stop, SetModeStopped, ResetStop, CancelCommand
    <3>2. ASSUME NEW m \in Modes, SetMode(c, m) PROVE OrphanInv'
      BY <3>2, CancelLeavesNoOrphan, GoalsUntouched DEF SetMode
    <3>3. CASE Navigate(c)
      <4>1. /\ navCommandId = NoId /\ navCommandId' = c /\ navHandle' = navHandle
            /\ goal' = [goal EXCEPT ![c] = "requested"]
            /\ callback' = [callback EXCEPT ![c] = "response"]
        BY <3>3 DEF Navigate, MayNavigate
      <4>2. QED
        BY <4>1, WatchdogAssumption DEF OrphanInv, NoOrphanGoal, HandleHeld, RequestAwaited, TypeOK
    <3>4. CASE \/ Duplicate(c)
               \/ \E l \in Speeds : ApplySettings(c, l) \/ ApplySettingsPartly(c, l)
               \/ RejectCommand(c) \/ NavigateRefused(c) \/ NavigateSendFailed(c)
      BY <3>4, GoalsUntouched
         DEF Duplicate, ApplySettings, ApplySettingsPartly, RejectCommand,
             NavigateRefused, NavigateSendFailed, vars
    <3>5. QED
      BY <2>1, <3>1, <3>2, <3>3, <3>4 DEF Command
  <2>2. ASSUME NEW c \in CommandIds, GoalCallback(c) PROVE OrphanInv'
    <3> USE DEF OrphanInv, NoOrphanGoal, HandleHeld, RequestAwaited, TypeOK
    <3>1. CASE LateGoalResponse(c)
      <4>1. goal'[c] \notin {"executing", "requested"}
        BY <3>1 DEF LateGoalResponse, Abandon
      <4>2. \A d \in CommandIds \ {c} : goal'[d] = goal[d] /\ callback'[d] = callback[d]
        BY <3>1 DEF LateGoalResponse, Abandon
      <4>3. navCommandId' = navCommandId /\ navHandle' = navHandle
        BY <3>1 DEF LateGoalResponse
      <4>4. QED
        BY <4>1, <4>2, <4>3
    <3>2. CASE GoalAccepted(c)
      BY <3>2 DEF GoalAccepted, Accepted, Results
    <3>3. CASE GoalRejected(c)
      <4>1. goal'[c] = "none" /\ c = navCommandId
        BY <3>3 DEF GoalRejected, Abandon
      <4>2. \A d \in CommandIds \ {c} : goal'[d] = goal[d] /\ callback'[d] = callback[d]
        BY <3>3 DEF GoalRejected, Abandon
      <4>3. navCommandId' = NoId
        BY <3>3 DEF GoalRejected, FinishNavigation
      <4>4. QED
        BY <4>1, <4>2, <4>3, WatchdogAssumption
    <3>4. CASE GoalResult(c)
      BY <3>4, WatchdogAssumption DEF GoalResult, FinishNavigation
    <3>5. QED
      BY <2>2, <3>1, <3>2, <3>3, <3>4 DEF GoalCallback
  <2>3. ASSUME NEW c \in CommandIds, Nav2(c) PROVE OrphanInv'
    BY <2>3
       DEF Nav2, Nav2Answers, Nav2Ends, Results, tracking, OrphanInv, NoOrphanGoal,
           HandleHeld, RequestAwaited, TypeOK
  <2>4. CASE \/ \E s \in Speeds : ManualVelocity(s)
             \/ \E c \in Ids, s \in Speeds : NavVelocity(c, s)
             \/ PublishOutput \/ StatusExpires \/ Tick \/ UNCHANGED vars
    BY <2>4, GoalsUntouched
       DEF ManualVelocity, NavVelocity, PublishOutput, StatusExpires, Tick, vars
  <2>5. QED
    BY <2>1, <2>2, <2>3, <2>4 DEF Next
<1>3. OrphanInv => NoOrphanGoal
  BY DEF OrphanInv
<1>4. QED
  BY <1>1, <1>2, <1>3, TypeCorrect, PTL DEF Spec

---------------------------------------------------------------------------
(* The deadman bound counts from the last publication: no time has passed  *)
(* since while the timer is not due, and one delay at most when it is.     *)
DelayBound ==
    lastOutput.speed > 0 =>
        lastOutput.age <= Timeout(lastOutput)
                            + (IF publishDue THEN AtLeast(1, WaitTicks) ELSE 0)

(* A stored input names its source.                                        *)
SourcesKept == manual.from = "manual" /\ (nav.speed > 0 => nav.from # "manual")

DeadmanInv == DelayBound /\ SourcesKept

LEMMA OutputUntouched ==
    ASSUME DelayBound, UNCHANGED output
    PROVE  DelayBound'
BY DEF DelayBound, output, Timeout

(* A delay of d ticks, no longer than the bound allows, ends with the      *)
(* publish timer due.                                                      *)
LEMMA DelayBounded ==
    ASSUME TypeOK, DelayBound, ~ publishDue, NEW d \in Nat,
           lastOutput' = Older(lastOutput, d),
           d <= AtLeast(1, WaitTicks), d > 0 => publishDue'
    PROVE  DelayBound'
<1>1. /\ lastOutput' \in Velocities
      /\ lastOutput'.speed = lastOutput.speed /\ lastOutput'.from = lastOutput.from
      /\ lastOutput'.age <= lastOutput.age + d
  BY OlderType DEF TypeOK
<1>2. Timeout(lastOutput)' = Timeout(lastOutput)
  BY <1>1 DEF Timeout
<1>3. Timeout(lastOutput) \in Nat /\ AtLeast(1, WaitTicks) \in Nat
  BY WatchdogAssumption DEF Timeout, AtLeast
<1>4. lastOutput.age \in Nat /\ lastOutput'.age \in Nat
  BY <1>1, WatchdogAssumption DEF TypeOK, Velocities, Ages, AgeCap
<1>5. ASSUME lastOutput'.speed > 0
      PROVE  lastOutput'.age <= Timeout(lastOutput)
                                  + (IF publishDue' THEN AtLeast(1, WaitTicks) ELSE 0)
  <2>1. lastOutput.age <= Timeout(lastOutput)
    BY <1>1, <1>3, <1>4, <1>5 DEF DelayBound
  <2>2. CASE d = 0
    <3>1. lastOutput'.age <= lastOutput.age
      BY <1>1, <1>4, <2>2
    <3>2. QED
      BY <1>3, <1>4, <2>1, <3>1
  <2>3. CASE d > 0
    <3>1. publishDue'
      BY <2>3
    <3>2. lastOutput'.age <= Timeout(lastOutput) + AtLeast(1, WaitTicks)
      BY <1>1, <1>3, <1>4, <2>1
    <3>3. QED
      BY <3>1, <3>2
  <2>4. QED
    BY <2>2, <2>3
<1>6. QED
  BY <1>2, <1>5 DEF DelayBound, AtLeast

(* Whatever the timeouts and the blocking time, a speed stands on /cmd_vel *)
(* no longer than its timeout and one delay after its input.               *)
THEOREM DeadmanBoundAlways == Spec => []DeadmanBound
<1>1. Init => DeadmanInv
  BY ZeroType DEF Init, DeadmanInv, DelayBound, SourcesKept, Zero
<1>2. TypeOK /\ DeadmanInv /\ [Next]_vars => SourcesKept'
  <2> SUFFICES ASSUME TypeOK, SourcesKept, [Next]_vars PROVE SourcesKept'
    BY DEF DeadmanInv
  <2>1. CASE \E c \in Ids, s \in Speeds : NavVelocity(c, s)
    BY <2>1, WatchdogAssumption DEF NavVelocity, SourcesKept, Ids
  <2>2. CASE \E s \in Speeds : ManualVelocity(s)
    BY <2>2 DEF ManualVelocity, SourcesKept
  <2>3. CASE Tick \/ Waits
    <3>1. PICK d \in Nat : manual' = Older(manual, d) /\ nav' = Older(nav, d)
      BY <2>3, WatchdogAssumption DEF Tick, Waits
    <3>2. /\ manual'.from = manual.from
          /\ nav'.from = nav.from /\ nav'.speed = nav.speed
      BY <3>1, OlderType DEF TypeOK
    <3>3. QED
      BY <3>2 DEF SourcesKept
  <2>4. CASE UNCHANGED inputs
    BY <2>4 DEF inputs, SourcesKept
  <2>5. CASE \E c \in CommandIds, l \in Speeds :
               ApplySettings(c, l) \/ ApplySettingsPartly(c, l)
    BY <2>5 DEF ApplySettings, ApplySettingsPartly, SourcesKept
  <2>6. QED
    BY <2>1, <2>2, <2>3, <2>4, <2>5
       DEF Next, Command, Duplicate, Stop, ResetStop, SetModeStopped, SetMode,
           CancelCommand, RejectCommand, NavigateRefused, NavigateSendFailed, Navigate,
           GoalCallback, LateGoalResponse, GoalAccepted, GoalRejected, GoalResult, Nav2,
           Nav2Answers, Nav2Ends, PublishOutput, StatusExpires, vars
<1>3. TypeOK /\ DeadmanInv /\ [Next]_vars => DelayBound'
  <2> SUFFICES ASSUME TypeOK, DelayBound, SourcesKept, [Next]_vars PROVE DelayBound'
    BY DEF DeadmanInv
  <2>1. ASSUME NEW c \in CommandIds, Command(c) PROVE DelayBound'
    <3>1. CASE Waits /\ Arrives(c)
      <4>1. PICK d \in 0 .. WaitTicks :
                lastOutput' = Older(lastOutput, d) /\ publishDue' = (d > 0)
        BY <3>1 DEF Waits
      <4>2. d \in Nat /\ d <= AtLeast(1, WaitTicks) /\ ~ publishDue
        BY <3>1, WatchdogAssumption DEF AtLeast, Arrives
      <4>3. QED
        BY <4>1, <4>2, DelayBounded
    <3>2. CASE ~ (Waits /\ Arrives(c))
      BY <2>1, <3>2, OutputUntouched
         DEF Command, Duplicate, Stop, ResetStop, SetModeStopped, SetMode, CancelCommand,
             ApplySettings, ApplySettingsPartly, RejectCommand, NavigateRefused,
             NavigateSendFailed, Navigate, vars
    <3>3. QED
      BY <3>1, <3>2
  <2>2. CASE PublishOutput
    <3>1. /\ lastOutput'.speed = AtMost(Gated.speed, limit)
          /\ lastOutput'.age = Gated.age /\ lastOutput'.from = Gated.from
      BY <2>2, GatedType DEF PublishOutput, Velocities
    <3>2. CASE Gated.speed = 0
      BY <3>1, <3>2 DEF DelayBound, AtMost, TypeOK, Speeds
    <3>3. CASE Gated.speed # 0
      <4>1. \/ Gated = manual /\ manual.age <= ManualTimeout
            \/ Gated = nav /\ nav.age <= NavTimeout
        BY <3>3, ZeroType DEF Gated
      <4>2. nav.speed # 0 => nav.speed > 0
        BY WatchdogAssumption DEF TypeOK, Velocities, Speeds
      <4>3. Gated.age <= Timeout(Gated)
        BY <3>3, <4>1, <4>2 DEF SourcesKept, Timeout
      <4>4. Gated.age \in Nat /\ Timeout(Gated) \in Nat
        BY GatedType, WatchdogAssumption DEF Velocities, Ages, AgeCap, Timeout
      <4>5. publishDue' = FALSE
        BY <2>2 DEF PublishOutput
      <4>6. QED
        BY <3>1, <4>3, <4>4, <4>5 DEF DelayBound, Timeout
    <3>4. QED
      BY <3>2, <3>3
  <2>3. CASE Tick
    <3>1. lastOutput' = Older(lastOutput, 1) /\ ~ publishDue /\ publishDue' = TRUE
      BY <2>3 DEF Tick
    <3>2. 1 <= AtLeast(1, WaitTicks)
      BY WatchdogAssumption DEF AtLeast
    <3>3. QED
      BY <3>1, <3>2, DelayBounded
  <2>4. CASE \/ \E s \in Speeds : ManualVelocity(s)
             \/ \E c \in Ids, s \in Speeds : NavVelocity(c, s)
             \/ \E c \in CommandIds : GoalCallback(c) \/ Nav2(c)
             \/ StatusExpires \/ UNCHANGED vars
    BY <2>4, OutputUntouched
       DEF ManualVelocity, NavVelocity, GoalCallback, LateGoalResponse, GoalAccepted,
           GoalRejected, GoalResult, Nav2, Nav2Answers, Nav2Ends, StatusExpires, vars
  <2>5. QED
    BY <2>1, <2>2, <2>3, <2>4 DEF Next
<1>4. TypeOK /\ DeadmanInv => DeadmanBound
  BY WatchdogAssumption
     DEF DeadmanInv, DelayBound, DeadmanBound, Timeout, AtLeast, TypeOK, Velocities,
         Ages, AgeCap
<1>5. TypeOK /\ DeadmanInv /\ [Next]_vars => DeadmanInv'
  BY <1>2, <1>3 DEF DeadmanInv
<1>6. QED
  BY <1>1, <1>4, <1>5, TypeCorrect, PTL DEF Spec

---------------------------------------------------------------------------
(* No output is ever raised above the speed limit in force, however fast   *)
(* the input was when a higher limit let it be stored.                     *)
THEOREM OutputWithinLimitAlways == Spec => OutputWithinLimit
<1> DEFINE Raised == lastOutput'.speed > lastOutput.speed
<1>1. TypeOK /\ [Next]_vars => [Raised => lastOutput'.speed <= limit]_vars
  <2> SUFFICES ASSUME TypeOK, [Next]_vars, Raised
               PROVE  lastOutput'.speed <= limit
    OBVIOUS
  <2>1. lastOutput.speed \in Int
    BY WatchdogAssumption DEF TypeOK, Velocities, Speeds
  <2>2. CASE PublishOutput
    <3>1. lastOutput'.speed = AtMost(Gated.speed, limit)
      BY <2>2, GatedType DEF PublishOutput, Velocities
    <3>2. QED
      BY <3>1, GatedType, WatchdogAssumption DEF AtMost, TypeOK, Speeds, Velocities
  <2>3. CASE Tick \/ Waits
    <3>1. PICK d \in Nat : lastOutput' = Older(lastOutput, d)
      BY <2>3, WatchdogAssumption DEF Tick, Waits
    <3>2. lastOutput'.speed = lastOutput.speed
      BY <3>1, OlderType DEF TypeOK
    <3>3. QED
      BY <2>1, <3>2
  <2>4. CASE UNCHANGED output
    BY <2>1, <2>4 DEF output
  <2>5. QED
    BY <2>2, <2>3, <2>4
       DEF Next, Command, Duplicate, Stop, ResetStop, SetModeStopped, SetMode,
           CancelCommand, ApplySettings, ApplySettingsPartly, RejectCommand,
           NavigateRefused, NavigateSendFailed, Navigate, GoalCallback,
           LateGoalResponse, GoalAccepted, GoalRejected, GoalResult, Nav2, Nav2Answers,
           Nav2Ends, ManualVelocity, NavVelocity, StatusExpires, vars
<1>2. QED
  BY <1>1, TypeCorrect, PTL DEF Spec, OutputWithinLimit
=============================================================================
