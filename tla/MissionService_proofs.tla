----------------------- MODULE MissionService_proofs -----------------------
(***************************************************************************)
(* Proofs about MissionService, for any missions, waypoints, laps and      *)
(* bounds: the types; that a mission which succeeded drove every leg; and  *)
(* that a canceled or failed mission leaves the master no goal.            *)
(***************************************************************************)
EXTENDS MissionService, SequenceTheorems, TLAPS

USE DEF memory, robots, history, counts

LEMMA Params ==
    /\ None \notin Missions
    /\ Waypoints \in Nat /\ Waypoints > 0 /\ Repeats \in Nat /\ Repeats > 0
    /\ SettleTicks \in Nat
BY MissionAssumption

LEMMA Empty == \A S : <<>> \in Seq(S)
OBVIOUS

---------------------------------------------------------------------------
(* The lists of calls, and what of each is left at a time.                 *)
SecondFollow == <<[robot |-> "slave", op |-> "follow_start"]>>
Stops        == {StopBoth, StopSlave, <<>>}

LEMMA Heads ==
    /\ Head(CancelStop) = [robot |-> "master", op |-> "cancel_navigation"]
    /\ Head(StopBoth) = [robot |-> "master", op |-> "stop"]
    /\ Head(StopSlave) = [robot |-> "slave", op |-> "stop"]
    /\ Head(Navigate) = [robot |-> "master", op |-> "navigate"]
    /\ Head(FollowStart) = [robot |-> "slave", op |-> "follow_ready"]
    /\ Head(SecondFollow) = [robot |-> "slave", op |-> "follow_start"]
    /\ Head(Rejoin) = [robot |-> "slave", op |-> "rejoin"]
BY DEF CancelStop, StopBoth, StopSlave, Navigate, FollowStart, SecondFollow, Rejoin

LEMMA TailOfOne == ASSUME NEW a PROVE Tail(<<a>>) = <<>>
<1>1. <<a>> \in Seq({a}) /\ <<a>> # <<>> /\ Len(<<a>>) = 1
  OBVIOUS
<1>2. Tail(<<a>>) \in Seq({a}) /\ Len(Tail(<<a>>)) = 0
  BY <1>1, HeadTailProperties
<1> QED BY <1>2

LEMMA TailOfTwo == ASSUME NEW a, NEW b PROVE Tail(<<a, b>>) = <<b>>
<1>1. <<a, b>> \in Seq({a, b}) /\ <<a, b>> # <<>> /\ Len(<<a, b>>) = 2
  OBVIOUS
<1>2. Tail(<<a, b>>) \in Seq({a, b}) /\ Len(Tail(<<a, b>>)) = 1 /\ Tail(<<a, b>>)[1] = b
  BY <1>1
<1>3. <<b>> \in Seq({a, b}) /\ Len(<<b>>) = 1 /\ <<b>>[1] = b
  OBVIOUS
<1>4. \A i \in 1 .. Len(Tail(<<a, b>>)) : Tail(<<a, b>>)[i] = <<b>>[i]
  BY <1>2, <1>3
<1> QED BY <1>2, <1>3, <1>4, SeqEqual

LEMMA TailOfMore == ASSUME NEW a, NEW b, NEW c PROVE Tail(<<a>> \o <<b, c>>) = <<b, c>>
<1> DEFINE S == {a, b, c}
<1>1. <<a>> \in Seq(S) /\ Len(<<a>>) = 1 /\ <<b, c>> \in Seq(S) /\ Len(<<b, c>>) = 2
  OBVIOUS
<1> DEFINE s == <<a>> \o <<b, c>>
<1> HIDE DEF S
<1>2. /\ s \in Seq(S) /\ Len(s) = 3
      /\ \A i \in 1 .. 3 : s[i] = IF i <= 1 THEN <<a>>[i] ELSE <<b, c>>[i - 1]
  BY <1>1, ConcatProperties
<1> HIDE DEF s
<1>3. Tail(s) \in Seq(S) /\ Len(Tail(s)) = 2 /\ \A i \in 1 .. 2 : Tail(s)[i] = s[i + 1]
  BY <1>2
<1>4. \A i \in 1 .. 2 : Tail(s)[i] = <<b, c>>[i]
  BY <1>2, <1>3
<1>5. Tail(s) = <<b, c>>
  BY <1>1, <1>3, <1>4, SeqEqual
<1> QED BY <1>5 DEF s

LEMMA Tails ==
    /\ Tail(CancelStop) = StopBoth /\ Tail(StopBoth) = StopSlave /\ Tail(StopSlave) = <<>>
    /\ Tail(Navigate) = <<>> /\ Tail(Rejoin) = <<>>
    /\ Tail(FollowStart) = SecondFollow /\ Tail(SecondFollow) = <<>>
<1>1. Tail(CancelStop) = StopBoth
  BY TailOfMore DEF CancelStop, StopBoth
<1>2. Tail(StopBoth) = StopSlave /\ Tail(FollowStart) = SecondFollow
  BY TailOfTwo DEF StopBoth, StopSlave, FollowStart, SecondFollow
<1>3. Tail(StopSlave) = <<>> /\ Tail(Navigate) = <<>> /\ Tail(Rejoin) = <<>>
      /\ Tail(SecondFollow) = <<>>
  BY TailOfOne DEF StopSlave, Navigate, Rejoin, SecondFollow
<1> QED BY <1>1, <1>2, <1>3

LEMMA Apart ==
    /\ CancelStop # <<>> /\ StopBoth # <<>> /\ StopSlave # <<>> /\ Navigate # <<>>
    /\ StopBoth # StopSlave /\ CancelStop # StopBoth /\ CancelStop # StopSlave
BY DEF CancelStop, StopBoth, StopSlave, Navigate

(* What a task does fits the mission it does it for, the copy of it and    *)
(* the calls that are left.                                                *)
WorkerPcs == {"idle", "pause_formation", "rejoin_stops", "rejoin", "follow", "follow_refused",
              "navigate", "refused", "pause"}
TickerPcs == {"idle", "tick", "guard", "guard_lost", "advance", "refused", "lost"}
PcsOf(t)  == IF t = "worker" THEN WorkerPcs ELSE TickerPcs

FitsNone(pc, calls) ==
    \/ pc \in {"idle", "tick"} /\ calls = <<>>
    \/ pc \in {"guard", "guard_lost", "rejoin_stops"} /\ calls \in Stops
    \/ pc = "pause_formation" /\ calls \in Stops \cup {CancelStop}
    \/ pc = "rejoin" /\ calls \in {Rejoin, <<>>}

FitsMission(pc, state, calls) ==
    \/ pc = "pause" /\ state \in {"PAUSING", "CANCELING"} /\ calls \in Stops \cup {CancelStop}
    \/ pc = "follow" /\ state = "STARTING" /\ calls \in {FollowStart, SecondFollow, <<>>}
    \/ pc \in {"navigate", "advance"} /\ state = "RUNNING" /\ calls \in {Navigate, <<>>}
    \/ pc = "follow_refused" /\ state = "PAUSED" /\ calls \in Stops
    \/ pc = "refused" /\ state = "FAILED" /\ calls \in Stops
    \/ pc = "lost" /\ state = "PAUSING" /\ calls \in Stops

Fits(pc, m, copy, calls) ==
    \/ m = None /\ FitsNone(pc, calls)
    \/ m \in Missions /\ FitsMission(pc, copy.state, calls)

Fit(t) == /\ task[t].pc \in PcsOf(t)
          /\ Fits(task[t].pc, task[t].m, task[t].copy, task[t].calls)

TaskTypes == task \in [Tasks -> [pc : WorkerPcs \cup TickerPcs, m : Missions \cup {None},
                                 copy : Payloads, calls : Stops \cup {CancelStop, Navigate,
                                 FollowStart, SecondFollow, Rejoin}, ok : BOOLEAN]]
TaskInv == TaskTypes /\ \A t \in Tasks : Fit(t)

LEMMA CallsShrink ==
    ASSUME NEW pc, NEW m, NEW copy, NEW calls, Fits(pc, m, copy, calls), calls # <<>>
    PROVE  /\ Fits(pc, m, copy, Tail(calls)) /\ (pc = "follow" => Fits(pc, m, copy, <<>>))
           /\ Tail(calls) \in Stops \cup {SecondFollow}
           /\ Head(calls).op = "navigate" <=> pc \in {"navigate", "advance"}
           /\ Head(calls).op = "navigate" => m \in Missions
<1> USE Heads, Tails DEF Stops
<1>1. CASE m = None /\ FitsNone(pc, calls)
  <2>1. FitsNone(pc, Tail(calls)) /\ pc # "follow"
    BY <1>1 DEF FitsNone
  <2>2. /\ Tail(calls) \in Stops /\ Head(calls).op # "navigate"
        /\ pc \notin {"navigate", "advance"}
    BY <1>1 DEF FitsNone
  <2> QED BY <1>1, <2>1, <2>2 DEF Fits
<1>2. CASE m \in Missions /\ FitsMission(pc, copy.state, calls)
  <2>1. FitsMission(pc, copy.state, Tail(calls))
    BY <1>2 DEF FitsMission
  <2>2. pc = "follow" => FitsMission(pc, copy.state, <<>>)
    BY <1>2 DEF FitsMission
  <2>3. Tail(calls) \in Stops \cup {SecondFollow}
    BY <1>2 DEF FitsMission
  <2>4. CASE pc \in {"navigate", "advance"}
    <3>1. calls = Navigate
      BY <1>2, <2>4 DEF FitsMission
    <3> QED BY <1>2, <2>1, <2>2, <2>3, <2>4, <3>1 DEF Fits
  <2>5. CASE pc \notin {"navigate", "advance"}
    <3>1. calls \in {CancelStop, StopBoth, StopSlave, FollowStart, SecondFollow}
      BY <1>2, <2>5 DEF FitsMission
    <3>2. Head(calls).op # "navigate"
      BY <3>1
    <3> QED BY <1>2, <2>1, <2>2, <2>3, <2>5, <3>2 DEF Fits
  <2> QED BY <2>4, <2>5
<1> QED BY <1>1, <1>2 DEF Fits

LEMMA TaskBegins ==
    ASSUME TaskInv, NEW t \in Tasks, NEW pc \in PcsOf(t), NEW m, NEW copy \in Payloads, NEW calls,
           Fits(pc, m, copy, calls), task' = [task EXCEPT ![t] = Begin(pc, m, copy, calls)]
    PROVE  TaskInv'
<1>1. /\ pc \in WorkerPcs \cup TickerPcs /\ m \in Missions \cup {None}
      /\ calls \in Stops \cup {CancelStop, Navigate, FollowStart, SecondFollow, Rejoin}
  BY DEF PcsOf, Fits, FitsNone, FitsMission, Stops
<1>2. Begin(pc, m, copy, calls) \in
         [pc : WorkerPcs \cup TickerPcs, m : Missions \cup {None}, copy : Payloads,
          calls : Stops \cup {CancelStop, Navigate, FollowStart, SecondFollow, Rejoin},
          ok : BOOLEAN]
  BY <1>1 DEF Begin
<1>3. /\ task'[t] = Begin(pc, m, copy, calls)
      /\ \A u \in Tasks : u # t => task'[u] = task[u]
      /\ TaskTypes'
  BY <1>2 DEF TaskInv, TaskTypes
<1>4. Fit(t)'
  BY <1>3 DEF Fit, Begin
<1>5. \A u \in Tasks : u # t => Fit(u)'
  BY <1>3 DEF Fit, TaskInv
<1> QED BY <1>3, <1>4, <1>5 DEF TaskInv

LEMMA TaskIdles ==
    ASSUME TaskInv, NEW t \in Tasks, NEW pc \in {"idle", "tick"}, pc \in PcsOf(t),
           task' = [task EXCEPT ![t] = Begin(pc, None, Draft, <<>>)], Draft \in Payloads
    PROVE  TaskInv'
BY TaskBegins DEF Fits, FitsNone

---------------------------------------------------------------------------
(* Payloads, and how a step changes one mission's.                         *)
LEMMA DraftType == Draft \in Payloads
BY Params DEF Draft, Payloads, MissionStates

LEMMA Restated ==
    ASSUME NEW p \in Payloads, NEW s \in MissionStates
    PROVE  /\ [p EXCEPT !.state = s] \in Payloads /\ [p EXCEPT !.state = s].state = s
           /\ [p EXCEPT !.state = s].wp = p.wp /\ [p EXCEPT !.state = s].lap = p.lap
BY DEF Payloads

LEMMA InStates ==
    /\ "STARTING" \in MissionStates /\ "RUNNING" \in MissionStates /\ "PAUSED" \in MissionStates
    /\ "PAUSING" \in MissionStates /\ "CANCELING" \in MissionStates
    /\ "FAILED" \in MissionStates /\ "SUCCEEDED" \in MissionStates
    /\ "CANCELED" \in MissionStates /\ "READY" \in MissionStates /\ "DRAFT" \in MissionStates
BY DEF MissionStates

LEMMA NextLegType ==
    ASSUME NEW p \in Payloads, ~ LastLeg(p)
    PROVE  NextLeg(p) \in Payloads /\ NextLeg(p).state = p.state
<1>1. p.wp \in 0 .. Waypoints - 1 /\ p.lap \in 0 .. Repeats - 1
  BY DEF Payloads
<1>2. CASE LastWaypoint(p)
  <2>1. 0 \in 0 .. Waypoints - 1 /\ p.lap + 1 \in 0 .. Repeats - 1
    BY <1>1, <1>2, Params DEF LastLeg
  <2> QED BY <1>2, <2>1 DEF NextLeg, Payloads
<1>3. CASE ~ LastWaypoint(p)
  <2>1. p.wp + 1 \in 0 .. Waypoints - 1
    BY <1>1, <1>3, Params DEF LastWaypoint
  <2> QED BY <1>3, <2>1 DEF NextLeg, Payloads
<1> QED BY <1>2, <1>3

MissionTypes == mission \in [Missions -> Payloads]

Marks(m, s) ==
    /\ mission'[m] = [mission[m] EXCEPT !.state = s]
    /\ \A n \in Missions : n # m => mission'[n] = mission[n]

Puts(m, p) ==
    /\ mission'[m] = p
    /\ \A n \in Missions : n # m => mission'[n] = mission[n]

LEMMA Marked ==
    ASSUME MissionTypes, NEW m \in Missions, NEW s \in MissionStates,
           mission' = [mission EXCEPT ![m].state = s]
    PROVE  MissionTypes' /\ Marks(m, s)
<1>1. [mission[m] EXCEPT !.state = s] \in Payloads
  BY Restated DEF MissionTypes
<1> QED BY <1>1 DEF MissionTypes, Marks

LEMMA Put ==
    ASSUME MissionTypes, NEW m \in Missions, NEW p \in Payloads,
           mission' = [mission EXCEPT ![m] = p]
    PROVE  MissionTypes' /\ Puts(m, p)
BY DEF MissionTypes, Puts

---------------------------------------------------------------------------
(* The types, one group of variables at a time.                            *)
Commands == [op : FormationOps, m : {None}] \cup [op : MissionOps, m : Missions]

LaneInv   == lane \in Seq(Commands)
ModeInv   == formation \in FormationModes /\ active \in Missions \cup {None}
TimeInv   == deadline \in NoDeadline .. Never
RobotInv  == /\ events \subseteq Missions /\ drive \in Missions \cup {None}
             /\ latched \subseteq Robots
FlagInv   == pausePending \in BOOLEAN /\ pauseLost \in BOOLEAN /\ lost \in BOOLEAN
ViewInv   == view \in [Robots -> Views]

(* What a task has begun, put beside what the actions say of the others.   *)
Begins(t, pc, m, copy, calls) == task' = [task EXCEPT ![t] = Begin(pc, m, copy, calls)]
Ends(t) == task' = [task EXCEPT ![t] = Idle]

LEMMA Ended == ASSUME TaskInv, NEW t \in Tasks, Ends(t) PROVE TaskInv'
<1>1. Idle = Begin("idle", None, Draft, <<>>) /\ "idle" \in PcsOf(t)
  BY DEF Idle, Begin, PcsOf, WorkerPcs, TickerPcs
<1> QED BY <1>1, TaskIdles, DraftType DEF Ends

LEMMA Begun ==
    ASSUME TaskInv, NEW t \in Tasks, NEW pc \in PcsOf(t), NEW m \in Missions,
           NEW copy \in Payloads, NEW calls, FitsMission(pc, copy.state, calls),
           Begins(t, pc, m, copy, calls)
    PROVE  TaskInv'
BY TaskBegins DEF Fits, Begins

LEMMA BegunNone ==
    ASSUME TaskInv, NEW t \in Tasks, NEW pc \in PcsOf(t), NEW calls, FitsNone(pc, calls),
           Begins(t, pc, None, Draft, calls)
    PROVE  TaskInv'
BY TaskBegins, DraftType DEF Fits, Begins

LEMMA TaskOf ==
    ASSUME TaskInv, NEW t \in Tasks
    PROVE  /\ task[t].pc \in PcsOf(t) /\ task[t].m \in Missions \cup {None}
           /\ task[t].copy \in Payloads /\ task[t].ok \in BOOLEAN
           /\ Fits(task[t].pc, task[t].m, task[t].copy, task[t].calls)
BY DEF TaskInv, TaskTypes, Fit

LEMMA TaskIs ==
    ASSUME TaskInv, NEW t \in Tasks,
           task[t].pc \in {"pause", "follow", "navigate", "advance", "follow_refused", "refused",
                           "lost"}
    PROVE  task[t].m \in Missions /\ FitsMission(task[t].pc, task[t].copy.state, task[t].calls)
<1>1. ~ FitsNone(task[t].pc, task[t].calls)
  BY DEF FitsNone
<1> QED BY <1>1, TaskOf DEF Fits

LEMMA LaneHead ==
    ASSUME LaneInv, NEW op, Take(op)
    PROVE  /\ Head(lane).op = op /\ Head(lane) \in Commands /\ lane' = Tail(lane)
           /\ task["worker"].pc = "idle" /\ LaneInv'
           /\ op \in MissionOps => Head(lane).m \in Missions
<1>1. Head(lane) \in Commands /\ Tail(lane) \in Seq(Commands) /\ Head(lane).op = op
  BY DEF LaneInv, Take
<1>2. op \in MissionOps => op \notin FormationOps
  BY DEF MissionOps, FormationOps
<1> QED BY <1>1, <1>2 DEF LaneInv, Take, Commands

LEMMA TaskMoves ==
    [Next]_vars =>
         \/ \E t \in Tasks : Call(t) \/ NavigateRefused(t) \/ NavigateRefusedEnds(t)
         \/ Execute \/ WorkerGoesOn \/ TickBegins \/ TickAdvances \/ TickFollowLost
         \/ ProtectivePauseEnds
         \/ TickSucceeds \/ TickSettleTimeout \/ TickStopSeen \/ TickElse \/ AdvanceEnds
         \/ LostStopsEnd \/ Restart \/ UNCHANGED task
BY DEF Next, Handlers, CreateMission, EditMission, FormationAction, MissionAction, TickerGoesOn,
       Environment, MasterArrives, RobotLatches, RobotReleased, Observe, LostChanges, Clock,
       Tasks, vars

LEMMA TaskStep == MissionTypes /\ ModeInv /\ LaneInv /\ TaskInv /\ [Next]_vars => TaskInv'
<1> SUFFICES ASSUME MissionTypes, ModeInv, LaneInv, TaskInv, [Next]_vars PROVE TaskInv'
  OBVIOUS
<1> USE DEF PcsOf, WorkerPcs, TickerPcs, Tasks
<1>1. ASSUME NEW t \in Tasks, Call(t) PROVE TaskInv'
  <2> DEFINE c == task[t].calls
  <2>1. c # <<>> /\ Fits(task[t].pc, task[t].m, task[t].copy, c) /\ task[t].pc \in PcsOf(t)
    BY <1>1, TaskOf DEF Call
  <2>2. PICK yes \in BOOLEAN :
           task' = [task EXCEPT ![t].calls = IF ~ yes /\ task[t].pc = "follow"
                                             THEN <<>> ELSE Tail(c),
                                ![t].ok = task[t].ok /\ yes]
    BY <1>1 DEF Call, TaskInv, TaskTypes
  <2>3. PICK left : left = IF ~ yes /\ task[t].pc = "follow" THEN <<>> ELSE Tail(c)
    OBVIOUS
  <2>4. Fits(task[t].pc, task[t].m, task[t].copy, left) /\ left \in Stops \cup {SecondFollow}
    BY <2>1, <2>3, CallsShrink DEF Stops
  <2>5. (task[t].ok /\ yes) \in BOOLEAN
    OBVIOUS
  <2>6. PICK ok \in BOOLEAN : ok = (task[t].ok /\ yes)
    BY <2>5
  <2>7. task' = [task EXCEPT ![t].calls = left, ![t].ok = ok]
    BY <2>2, <2>3, <2>6
  <2> HIDE DEF c
  <2>8. /\ task'[t].pc = task[t].pc /\ task'[t].m = task[t].m /\ task'[t].copy = task[t].copy
        /\ task'[t].calls = left
        /\ \A u \in Tasks : u # t => task'[u] = task[u]
        /\ TaskTypes'
    BY <2>4, <2>7 DEF TaskInv, TaskTypes
  <2> QED BY <2>1, <2>4, <2>8 DEF TaskInv, Fit
<1>2. CASE Execute
  <2> USE DEF FitsNone, FitsMission, Stops
  <2>1. CASE ExecutePair \/ ExecuteValidate \/ ExecuteCancelEarly
    BY <2>1 DEF ExecutePair, ExecuteValidate, ExecuteCancelEarly, TaskInv, TaskTypes, Fit
  <2>2. CASE ExecutePauseFormation \/ ExecuteRejoin
    BY <2>2, BegunNone DEF ExecutePauseFormation, ExecuteRejoin, Work, Begins
  <2>3. CASE ExecuteStart
    <3>1. PICK m \in Missions : m = Head(lane).m
      BY <2>3, LaneHead DEF ExecuteStart, MissionOps
    <3>2. mission[m] \in Payloads
      BY DEF MissionTypes
    <3>3. PICK p \in Payloads : p = [mission[m] EXCEPT !.state = "STARTING"] /\ p.state = "STARTING"
      <4>1. [mission[m] EXCEPT !.state = "STARTING"] \in Payloads
            /\ [mission[m] EXCEPT !.state = "STARTING"].state = "STARTING"
        BY <3>2, InStates DEF Payloads
      <4> QED BY <4>1
    <3> QED BY <2>3, <3>1, <3>3, Begun DEF ExecuteStart, Work, Begins
  <2>4. CASE ExecutePauseOrCancel
    <3>1. PICK m \in Missions : m = Head(lane).m
      BY <2>4, LaneHead DEF ExecutePauseOrCancel, MissionOps
    <3>2. PICK s \in {"PAUSING", "CANCELING"} :
             s = IF Head(lane).op = "pause" THEN "PAUSING" ELSE "CANCELING"
      OBVIOUS
    <3>3. mission[m] \in Payloads /\ s \in MissionStates
      BY InStates DEF MissionTypes
    <3>4. PICK p \in Payloads : p = [mission[m] EXCEPT !.state = s] /\ p.state = s
      BY <3>3, Restated
    <3> QED BY <2>4, <3>1, <3>2, <3>4, Begun DEF ExecutePauseOrCancel, Work, Begins
  <2> QED BY <1>2, <2>1, <2>2, <2>3, <2>4 DEF Execute
<1>4. ASSUME NEW t \in Tasks, NavigateRefused(t) PROVE TaskInv'
  <2>1. task[t].m \in Missions /\ task[t].copy \in Payloads
    BY <1>4, TaskIs, TaskOf DEF NavigateRefused
  <2>2. PICK p \in Payloads : p = [task[t].copy EXCEPT !.state = "FAILED"] /\ p.state = "FAILED"
    <3>1. [task[t].copy EXCEPT !.state = "FAILED"] \in Payloads
          /\ [task[t].copy EXCEPT !.state = "FAILED"].state = "FAILED"
      BY <2>1, InStates DEF Payloads
    <3> QED BY <3>1
  <2> QED BY <1>4, <2>1, <2>2, Begun DEF NavigateRefused, Begins, FitsMission, Stops
<1>5. ASSUME NEW t \in Tasks, NavigateRefusedEnds(t) PROVE TaskInv'
  BY <1>5, Ended DEF NavigateRefusedEnds, Ends
<1>3. CASE WorkerGoesOn
  <2> DEFINE w == task["worker"]
  <2> USE DEF FitsNone, FitsMission, Stops
  <2>1. CASE PauseFormationEnds \/ RejoinEnds \/ FollowRefusedEnds \/ StartEnds \/ PauseEnds
    BY <2>1, Ended DEF PauseFormationEnds, RejoinEnds, FollowRefusedEnds, StartEnds, PauseEnds,
       Done, Ends
  <2>2. CASE RejoinStopsEnd
    BY <2>2, Ended, BegunNone DEF RejoinStopsEnd, Done, Ends, Work, Begins
  <2>3. CASE FollowStarted
    <3>1. w.m \in Missions /\ w.copy \in Payloads
      BY <2>3, TaskIs, TaskOf DEF FollowStarted, WorkerAt
    <3>2. PICK p \in Payloads : p = [w.copy EXCEPT !.state = "RUNNING"] /\ p.state = "RUNNING"
      <4>1. [w.copy EXCEPT !.state = "RUNNING"] \in Payloads
            /\ [w.copy EXCEPT !.state = "RUNNING"].state = "RUNNING"
        BY <3>1, InStates DEF Payloads
      <4> QED BY <4>1
    <3> QED BY <2>3, <3>1, <3>2, Begun DEF FollowStarted, Work, Begins, Copy
  <2>4. CASE FollowRefused
    <3>1. w.m \in Missions /\ w.copy \in Payloads
      BY <2>4, TaskIs, TaskOf DEF FollowRefused, WorkerAt
    <3>2. PICK p \in Payloads : p = [w.copy EXCEPT !.state = "PAUSED"] /\ p.state = "PAUSED"
      <4>1. [w.copy EXCEPT !.state = "PAUSED"] \in Payloads
            /\ [w.copy EXCEPT !.state = "PAUSED"].state = "PAUSED"
        BY <3>1, InStates DEF Payloads
      <4> QED BY <4>1
    <3> QED BY <2>4, <3>1, <3>2, Begun DEF FollowRefused, Work, Begins, Copy
  <2> QED BY <1>3, <1>4, <1>5, <2>1, <2>2, <2>3, <2>4 DEF WorkerGoesOn
<1>6. ToTick => TaskInv'
  BY BegunNone DEF ToTick, Begins, FitsNone
<1>7. CASE TickBegins
  <2>1. ASSUME NEW isLost \in BOOLEAN, ProtectivePause(isLost) PROVE TaskInv'
    BY <1>6, <2>1, BegunNone DEF ProtectivePause, Begins, FitsNone, Stops
  <2> QED BY <1>6, <1>7, <2>1 DEF TickBegins
<1>8. CASE TickAdvances \/ TickFollowLost
  <2>1. PICK m \in Missions : m = active
    BY <1>8 DEF TickAdvances, TickFollowLost, Settled, FollowIsLost, ActiveState, ModeInv
  <2>2. mission[m] \in Payloads
    BY DEF MissionTypes
  <2>3. CASE TickAdvances
    <3>1. mission[m].state = "RUNNING" /\ ~ LastLeg(mission[m])
      BY <2>1, <2>3, Params DEF TickAdvances, Settled, ActiveState
    <3> QED BY <2>1, <2>2, <2>3, <3>1, NextLegType, Begun
            DEF TickAdvances, Begins, FitsMission
  <2>4. CASE TickFollowLost
    <3>1. PICK p \in Payloads : p = [mission[m] EXCEPT !.state = "PAUSING"] /\ p.state = "PAUSING"
      <4>1. [mission[m] EXCEPT !.state = "PAUSING"] \in Payloads
            /\ [mission[m] EXCEPT !.state = "PAUSING"].state = "PAUSING"
        BY <2>2, InStates DEF Payloads
      <4> QED BY <4>1
    <3> QED BY <2>1, <2>4, <3>1, Begun DEF TickFollowLost, Begins, FitsMission, Stops
  <2> QED BY <1>8, <2>3, <2>4
<1>9. CASE ProtectivePauseEnds
  BY <1>6, <1>9 DEF ProtectivePauseEnds
<1>10. CASE TickSucceeds \/ TickSettleTimeout \/ TickStopSeen \/ TickElse \/ AdvanceEnds
            \/ LostStopsEnd
  BY <1>10, Ended DEF TickSucceeds, TickSettleTimeout, TickStopSeen, TickElse, AdvanceEnds,
     LostStopsEnd, TickReturns, Ends
<1>11. CASE Restart
  <2>1. /\ Idle = Begin("idle", None, Draft, <<>>)
        /\ task' = [t \in Tasks |-> Idle]
    BY <1>11 DEF Restart, Idle, Begin
  <2>2. Idle \in [pc : WorkerPcs \cup TickerPcs, m : Missions \cup {None}, copy : Payloads,
                  calls : Stops \cup {CancelStop, Navigate, FollowStart, SecondFollow, Rejoin},
                  ok : BOOLEAN]
    BY DraftType DEF Idle, Stops
  <2>3. TaskTypes'
    BY <2>1, <2>2 DEF TaskTypes
  <2>4. \A t \in Tasks : Fit(t)'
    BY <2>1 DEF Fit, Fits, FitsNone, Idle
  <2> QED BY <2>3, <2>4 DEF TaskInv
<1>12. CASE UNCHANGED task
  BY <1>12 DEF TaskInv, TaskTypes, Fit
<1> QED BY <1>1, <1>2, <1>3, <1>4, <1>5, <1>7, <1>8, <1>9, <1>10, <1>11, <1>12, TaskMoves

LEMMA RefusedIs ==
    ASSUME TaskInv, NEW t \in Tasks, NavigateRefusedEnds(t)
    PROVE  /\ task[t].m \in Missions /\ task[t].copy \in Payloads
           /\ task[t].copy.state = "FAILED" /\ task[t].calls = <<>>
           /\ task' = [task EXCEPT ![t] = Idle]
           /\ mission' = [mission EXCEPT ![task[t].m] = task[t].copy]
<1>1. task[t].pc = "refused" /\ task[t].calls = <<>>
  BY DEF NavigateRefusedEnds, GoesOn
<1>2. task[t].m \in Missions /\ FitsMission(task[t].pc, task[t].copy.state, task[t].calls)
  BY <1>1, TaskIs
<1> QED BY <1>1, <1>2, TaskOf DEF NavigateRefusedEnds, Store, FitsMission

(* What the worker stores when it is done with a mission, and the ticker   *)
(* when its next goal was accepted.                                        *)
LEMMA StoreIs ==
    ASSUME TaskInv, FollowRefusedEnds \/ StartEnds \/ PauseEnds \/ AdvanceEnds
    PROVE  \E t \in Tasks :
              /\ task[t].m \in Missions /\ task[t].copy \in Payloads
              /\ FitsMission(task[t].pc, task[t].copy.state, task[t].calls)
              /\ task[t].calls = <<>>
              /\ task' = [task EXCEPT ![t] = Idle]
              /\ mission' = [mission EXCEPT ![task[t].m] = task[t].copy]
              /\ \/ FollowRefusedEnds /\ t = "worker" /\ task[t].pc = "follow_refused"
                 \/ StartEnds /\ t = "worker" /\ task[t].pc = "navigate" /\ task[t].ok
                 \/ PauseEnds /\ t = "worker" /\ task[t].pc = "pause"
                 \/ AdvanceEnds /\ t = "ticker" /\ task[t].pc = "advance" /\ task[t].ok
<1>1. CASE FollowRefusedEnds \/ StartEnds \/ PauseEnds
  <2>1. /\ task["worker"].pc \in {"follow_refused", "navigate", "pause"}
        /\ task["worker"].calls = <<>>
        /\ task' = [task EXCEPT !["worker"] = Idle]
        /\ mission' = [mission EXCEPT ![task["worker"].m] = task["worker"].copy]
    BY <1>1 DEF FollowRefusedEnds, StartEnds, PauseEnds, WorkerAt, GoesOn, Done, Store, Copy
  <2>2. \/ FollowRefusedEnds /\ task["worker"].pc = "follow_refused"
        \/ StartEnds /\ task["worker"].pc = "navigate" /\ task["worker"].ok
        \/ PauseEnds /\ task["worker"].pc = "pause"
    BY <1>1 DEF FollowRefusedEnds, StartEnds, PauseEnds, WorkerAt
  <2>3. "worker" \in Tasks
    BY DEF Tasks
  <2>4. /\ task["worker"].m \in Missions /\ task["worker"].copy \in Payloads
        /\ FitsMission(task["worker"].pc, task["worker"].copy.state, task["worker"].calls)
    BY <2>1, <2>3, TaskIs, TaskOf
  <2> QED BY <2>1, <2>2, <2>3, <2>4
<1>2. CASE AdvanceEnds
  <2>1. /\ task["ticker"].pc = "advance" /\ task["ticker"].calls = <<>> /\ task["ticker"].ok
        /\ task' = [task EXCEPT !["ticker"] = Idle]
        /\ mission' = [mission EXCEPT ![task["ticker"].m] = task["ticker"].copy]
    BY <1>2 DEF AdvanceEnds, TickerAt, GoesOn, TickReturns, Store
  <2>2. "ticker" \in Tasks
    BY DEF Tasks
  <2>3. /\ task["ticker"].m \in Missions /\ task["ticker"].copy \in Payloads
        /\ FitsMission(task["ticker"].pc, task["ticker"].copy.state, task["ticker"].calls)
    BY <2>1, <2>2, TaskIs, TaskOf
  <2> QED BY <1>2, <2>1, <2>2, <2>3
<1> QED BY <1>1, <1>2

LEMMA LostIs ==
    ASSUME TaskInv, LostStopsEnd
    PROVE  /\ task["ticker"].m \in Missions /\ task["ticker"].copy \in Payloads
           /\ task["ticker"].copy.state = "PAUSING" /\ task["ticker"].pc = "lost"
           /\ task' = [task EXCEPT !["ticker"] = Idle]
           /\ mission' = [m \in Missions |-> IF m = active THEN task["ticker"].copy
                                             ELSE mission[m]]
<1>1. task["ticker"].pc = "lost" /\ "ticker" \in Tasks
  BY DEF LostStopsEnd, TickerAt, Tasks
<1>2. /\ task["ticker"].m \in Missions
      /\ FitsMission(task["ticker"].pc, task["ticker"].copy.state, task["ticker"].calls)
  BY <1>1, TaskIs
<1> QED BY <1>1, <1>2, TaskOf DEF LostStopsEnd, TickReturns, FitsMission

(* The actions that set the state of one mission.                          *)
SetsState(m, s) == mission' = [mission EXCEPT ![m].state = s]

LEMMA StateSetters ==
    ASSUME LaneInv, ModeInv,
           ExecuteValidate \/ ExecuteCancelEarly \/ TickSucceeds \/ TickSettleTimeout
             \/ TickStopSeen
    PROVE  \E m \in Missions, s \in MissionStates :
              /\ SetsState(m, s)
              /\ \/ ExecuteValidate /\ m = Head(lane).m /\ s = "READY"
                 \/ ExecuteCancelEarly /\ m = Head(lane).m /\ s = "CANCELED"
                 \/ TickSucceeds /\ m = active /\ s = "SUCCEEDED"
                 \/ TickSettleTimeout /\ m = active /\ s = "PAUSED"
                 \/ TickStopSeen /\ m = active /\ s \in {"CANCELED", "PAUSED"}
                      /\ (s = "CANCELED" <=> mission[m].state = "CANCELING")
<1> USE InStates DEF SetsState
<1>1. CASE ExecuteValidate
  <2>1. Head(lane).m \in Missions
    BY <1>1, LaneHead DEF ExecuteValidate, MissionOps
  <2> QED BY <1>1, <2>1 DEF ExecuteValidate
<1>2. CASE ExecuteCancelEarly
  <2>1. Head(lane).m \in Missions
    BY <1>2, LaneHead DEF ExecuteCancelEarly, MissionOps
  <2> QED BY <1>2, <2>1 DEF ExecuteCancelEarly
<1>3. CASE TickSucceeds \/ TickSettleTimeout \/ TickStopSeen
  <2>1. active \in Missions
    BY <1>3 DEF ModeInv, TickSucceeds, TickSettleTimeout, TickStopSeen, Settled, Overdue,
       StopAwaited, ActiveState
  <2>2. active # None
    BY <2>1, Params
  <2>3. CASE TickStopSeen
    <3>1. ActiveState = mission[active].state
      BY <2>2 DEF ActiveState
    <3>2. CASE mission[active].state = "CANCELING"
      BY <2>1, <2>3, <3>1, <3>2 DEF TickStopSeen
    <3>3. CASE mission[active].state # "CANCELING"
      BY <2>1, <2>3, <3>1, <3>3 DEF TickStopSeen
    <3> QED BY <3>2, <3>3
  <2> QED BY <1>3, <2>1, <2>3 DEF TickSucceeds, TickSettleTimeout
<1> QED BY <1>1, <1>2, <1>3

LEMMA MissionMoves ==
    [Next]_vars =>
         \/ \E m \in Missions : CreateMission(m) \/ EditMission(m)
         \/ \E op \in MissionOps, m \in Missions : MissionAction(op, m)
         \/ ExecuteValidate \/ ExecuteCancelEarly \/ TickSucceeds \/ TickSettleTimeout
         \/ TickStopSeen \/ FollowRefusedEnds \/ StartEnds \/ PauseEnds \/ AdvanceEnds
         \/ \E t \in Tasks : NavigateRefusedEnds(t)
         \/ LostStopsEnd \/ TickBegins \/ Restart \/ UNCHANGED mission
BY DEF Next, Handlers, FormationAction, Call, Execute, ExecutePair, ExecutePauseFormation,
       ExecuteRejoin, ExecuteStart, ExecutePauseOrCancel, WorkerGoesOn, PauseFormationEnds,
       RejoinStopsEnd, RejoinEnds, FollowStarted, FollowRefused, NavigateRefused, TickerGoesOn,
       ProtectivePauseEnds, TickAdvances, TickFollowLost, TickElse, Environment, MasterArrives,
       RobotLatches, RobotReleased, Observe, LostChanges, Clock, Tasks, vars

LEMMA MissionStep ==
    MissionTypes /\ ModeInv /\ LaneInv /\ TaskInv /\ [Next]_vars => MissionTypes'
<1> SUFFICES ASSUME MissionTypes, ModeInv, LaneInv, TaskInv, [Next]_vars PROVE MissionTypes'
  OBVIOUS
<1> USE InStates
<1>1. ASSUME NEW m \in Missions, CreateMission(m) \/ EditMission(m) PROVE MissionTypes'
  BY <1>1, DraftType, Put, Marked DEF CreateMission, EditMission
<1>2. ASSUME NEW m \in Missions, NEW op \in MissionOps, MissionAction(op, m) PROVE MissionTypes'
  BY <1>2, Marked DEF MissionAction, Claim, MissionTypes
<1>3. CASE ExecuteValidate \/ ExecuteCancelEarly \/ TickSucceeds \/ TickSettleTimeout
             \/ TickStopSeen
  BY <1>3, StateSetters, Marked DEF SetsState
<1>4. CASE FollowRefusedEnds \/ StartEnds \/ PauseEnds \/ AdvanceEnds
  BY <1>4, StoreIs, Put
<1>5. ASSUME NEW t \in Tasks, NavigateRefusedEnds(t) PROVE MissionTypes'
  BY <1>5, RefusedIs, Put
<1>6. CASE LostStopsEnd
  BY <1>6, LostIs DEF MissionTypes
<1>7. CASE TickBegins
  <2>1. \A m \in Missions : [mission[m] EXCEPT !.state = "PAUSING"] \in Payloads
    BY Restated DEF MissionTypes
  <2>2. ASSUME NEW isLost \in BOOLEAN, ProtectivePause(isLost) PROVE MissionTypes'
    BY <2>1, <2>2 DEF ProtectivePause, MissionTypes
  <2> QED BY <1>7, <2>2 DEF TickBegins, MissionTypes
<1>8. CASE Restart
  <2>1. \A m \in Missions : [mission[m] EXCEPT !.state = "PAUSED"] \in Payloads
    BY Restated DEF MissionTypes
  <2> QED BY <1>8, <2>1 DEF Restart, MissionTypes
<1>9. CASE UNCHANGED mission
  BY <1>9 DEF MissionTypes
<1> QED BY <1>1, <1>2, <1>3, <1>4, <1>5, <1>6, <1>7, <1>8, <1>9, MissionMoves

(* Where each of the other groups changes.                                 *)
LEMMA LaneMoves ==
    [Next]_vars =>
        \/ \E op \in FormationOps :
              FormationAction(op) /\ lane' = Append(lane, [op |-> op, m |-> None])
        \/ \E op \in MissionOps, m \in Missions :
              MissionAction(op, m) /\ lane' = Append(lane, [op |-> op, m |-> m])
        \/ \E op \in FormationOps \cup MissionOps : Take(op)
        \/ Restart \/ UNCHANGED lane
BY DEF Next, Handlers, CreateMission, EditMission, FormationAction, MissionAction, Submit, Call,
       Execute, ExecutePair, ExecutePauseFormation, ExecuteRejoin, ExecuteValidate, ExecuteStart,
       ExecuteCancelEarly, ExecutePauseOrCancel, WorkerGoesOn, PauseFormationEnds, RejoinStopsEnd,
       RejoinEnds, FollowStarted, FollowRefused, FollowRefusedEnds, StartEnds, PauseEnds,
       NavigateRefused, NavigateRefusedEnds, TickBegins, TickerGoesOn, ProtectivePauseEnds, Tick0,
       TickAdvances, TickSucceeds, TickSettleTimeout, TickFollowLost, TickStopSeen, TickElse,
       AdvanceEnds, LostStopsEnd, Environment, MasterArrives, RobotLatches, RobotReleased, Observe,
       LostChanges, Clock, FormationOps, MissionOps, vars

LEMMA LaneStep == LaneInv /\ [Next]_vars => LaneInv'
<1> SUFFICES ASSUME LaneInv, [Next]_vars PROVE LaneInv'
  OBVIOUS
<1>1. ASSUME NEW c \in Commands, lane' = Append(lane, c) PROVE LaneInv'
  BY <1>1 DEF LaneInv
<1>2. ASSUME NEW op \in FormationOps, lane' = Append(lane, [op |-> op, m |-> None])
      PROVE  LaneInv'
  BY <1>1, <1>2 DEF Commands
<1>3. ASSUME NEW op \in MissionOps, NEW m \in Missions, lane' = Append(lane, [op |-> op, m |-> m])
      PROVE  LaneInv'
  BY <1>1, <1>3 DEF Commands
<1>4. ASSUME NEW op, Take(op) PROVE LaneInv'
  BY <1>4, LaneHead
<1>5. CASE Restart
  BY <1>5, Empty DEF Restart, LaneInv
<1>6. CASE UNCHANGED lane
  BY <1>6 DEF LaneInv
<1> QED BY <1>2, <1>3, <1>4, <1>5, <1>6, LaneMoves

LEMMA FormationModesAre ==
    {"UNPAIRED", "READY", "FOLLOWING", "PAUSING", "PAUSED", "LOST", "REJOINING", "ERROR"}
        \subseteq FormationModes
BY DEF FormationModes

LEMMA ModeStep == ModeInv /\ TaskInv /\ [Next]_vars => ModeInv'
<1> SUFFICES ASSUME ModeInv, TaskInv, [Next]_vars PROVE ModeInv'
  OBVIOUS
<1> USE FormationModesAre
<1>1. CASE FollowStarted
  <2>1. task["worker"].m \in Missions
    BY <1>1, TaskIs DEF FollowStarted, WorkerAt, Tasks
  <2> QED BY <1>1, <2>1 DEF FollowStarted, ModeInv
<1>2. CASE Execute
  BY <1>2 DEF Execute, ExecutePair, ExecutePauseFormation, ExecuteRejoin, ExecuteValidate,
     ExecuteStart, ExecuteCancelEarly, ExecutePauseOrCancel, ModeInv
<1>3. CASE WorkerGoesOn /\ ~ FollowStarted
  BY <1>3 DEF WorkerGoesOn, PauseFormationEnds, RejoinStopsEnd,
     RejoinEnds, FollowRefused, FollowRefusedEnds, StartEnds, PauseEnds, NavigateRefused,
     NavigateRefusedEnds, ModeInv
<1>4. CASE TickBegins
  BY <1>4 DEF TickBegins, ProtectivePause, ModeInv
<1>5. FormationNow \in FormationModes
  BY DEF FormationNow, ModeInv
<1>6. CASE TickAdvances \/ TickElse
  BY <1>5, <1>6 DEF TickAdvances, TickElse, ModeInv
<1>7. CASE TickSucceeds \/ TickSettleTimeout \/ TickFollowLost
  BY <1>7 DEF TickSucceeds, TickSettleTimeout, TickFollowLost, ModeInv
<1>8. CASE TickStopSeen
  <2>1. formation' \in {"LOST", "READY", "PAUSED"}
    BY <1>8 DEF TickStopSeen
  <2>2. active' \in {None, active}
    BY <1>8 DEF TickStopSeen
  <2> QED BY <2>1, <2>2 DEF ModeInv
<1>9. CASE ProtectivePauseEnds \/ AdvanceEnds \/ LostStopsEnd \/ NavigateRefused("ticker")
            \/ NavigateRefusedEnds("ticker")
  BY <1>9 DEF ProtectivePauseEnds, AdvanceEnds, LostStopsEnd, NavigateRefused,
     NavigateRefusedEnds, ModeInv
<1>10. CASE Handlers \/ (\E t \in Tasks : Call(t)) \/ Environment \/ Clock \/ UNCHANGED vars
  BY <1>10 DEF Handlers, CreateMission, EditMission, FormationAction, MissionAction, Call,
     Environment, MasterArrives, RobotLatches, RobotReleased, Observe, LostChanges, Clock, vars,
     ModeInv
<1>11. CASE Restart
  BY <1>11 DEF Restart, ModeInv
<1> QED BY <1>1, <1>2, <1>3, <1>4, <1>6, <1>7, <1>8, <1>9, <1>10, <1>11 DEF Next, TickerGoesOn

LEMMA TimeStep == TimeInv /\ [Next]_vars => TimeInv'
<1> SUFFICES ASSUME TimeInv, [Next]_vars PROVE TimeInv'
  OBVIOUS
<1>1. {NoDeadline, SettleTicks, Never} \subseteq NoDeadline .. Never
  BY Params DEF NoDeadline, Never
<1>2. \/ deadline' = deadline \/ deadline' \in {NoDeadline, SettleTicks, Never}
      \/ deadline \in 1 .. SettleTicks /\ deadline' = deadline - 1
  BY DEF Next, Handlers, CreateMission, EditMission, FormationAction, MissionAction, Call,
         Execute, ExecutePair, ExecutePauseFormation, ExecuteRejoin, ExecuteValidate, ExecuteStart,
         ExecuteCancelEarly, ExecutePauseOrCancel, WorkerGoesOn, PauseFormationEnds,
         RejoinStopsEnd, RejoinEnds, FollowStarted, FollowRefused, FollowRefusedEnds, StartEnds,
         PauseEnds, NavigateRefused, NavigateRefusedEnds, TickBegins, ConsumeEvents, TickerGoesOn,
         ProtectivePauseEnds, TickAdvances, TickSucceeds, TickSettleTimeout, TickFollowLost,
         TickStopSeen, TickElse, AdvanceEnds, LostStopsEnd, Environment, MasterArrives,
         RobotLatches, RobotReleased, Observe, LostChanges, Clock, Restart, vars
<1>3. ASSUME deadline \in 1 .. SettleTicks PROVE deadline - 1 \in NoDeadline .. Never
  BY <1>3, Params DEF NoDeadline, Never
<1> QED BY <1>1, <1>2, <1>3 DEF TimeInv

LEMMA RobotStep == RobotInv /\ TaskInv /\ [Next]_vars => RobotInv'
<1> SUFFICES ASSUME RobotInv, TaskInv, [Next]_vars PROVE RobotInv'
  OBVIOUS
<1>1. ASSUME NEW t \in Tasks, Call(t) PROVE RobotInv'
  <2> DEFINE c == Head(task[t].calls)
  <2>1. /\ c.op = "navigate" => task[t].m \in Missions
        /\ c.robot \in Robots
    <3>1. task[t].calls # <<>> /\ Fits(task[t].pc, task[t].m, task[t].copy, task[t].calls)
      BY <1>1, TaskOf DEF Call
    <3>2. c.op = "navigate" => task[t].m \in Missions
      BY <3>1, CallsShrink
    <3>3. task[t].calls \in {CancelStop, StopBoth, StopSlave, Navigate, FollowStart, SecondFollow,
                             Rejoin}
      BY <3>1 DEF Fits, FitsNone, FitsMission, Stops
    <3>4. c.robot \in Robots
      BY <3>3, Heads DEF Robots
    <3> QED BY <3>2, <3>4
  <2> HIDE DEF c
  <2>2. latched' \subseteq Robots
    BY <1>1, <2>1 DEF Call, Executed, RobotInv, c
  <2>3. events' \subseteq Missions
    BY <1>1, <2>1 DEF Call, RobotInv, c
  <2>4. drive' = drive \/ Executed(c, task[t].m)
    BY <1>1 DEF Call, c
  <2>5. drive' \in Missions \cup {None}
    BY <2>1, <2>4 DEF Executed, RobotInv
  <2> QED BY <2>2, <2>3, <2>5 DEF RobotInv
<1>2. CASE Environment
  BY <1>2 DEF Environment, MasterArrives, RobotLatches, RobotReleased, Observe, LostChanges,
     RobotInv
<1>3. CASE TickBegins \/ Restart
  BY <1>3 DEF TickBegins, ConsumeEvents, Restart, RobotInv
<1>4. CASE UNCHANGED <<events, drive, latched>>
  BY <1>4 DEF RobotInv
<1>5. \/ \E t \in Tasks : Call(t)
      \/ Environment \/ TickBegins \/ Restart \/ UNCHANGED <<events, drive, latched>>
  BY DEF Next, Handlers, CreateMission, EditMission, FormationAction, MissionAction,
         Execute, ExecutePair, ExecutePauseFormation, ExecuteRejoin, ExecuteValidate, ExecuteStart,
         ExecuteCancelEarly, ExecutePauseOrCancel, WorkerGoesOn, PauseFormationEnds,
         RejoinStopsEnd, RejoinEnds, FollowStarted, FollowRefused, FollowRefusedEnds, StartEnds,
         PauseEnds, NavigateRefused, NavigateRefusedEnds, TickerGoesOn,
         ProtectivePauseEnds, Tick0, TickAdvances, TickSucceeds, TickSettleTimeout, TickFollowLost,
         TickStopSeen, TickElse, AdvanceEnds, LostStopsEnd, Clock, vars
<1> QED BY <1>1, <1>2, <1>3, <1>4, <1>5

LEMMA FlagStep == FlagInv /\ TaskInv /\ [Next]_vars => FlagInv'
<1> SUFFICES ASSUME FlagInv, TaskInv, [Next]_vars PROVE FlagInv'
  OBVIOUS
<1>1. lost' \in BOOLEAN
  <2>1. lost' = lost \/ lost' = ~ lost
    BY DEF Next, Handlers, CreateMission, EditMission, FormationAction, MissionAction, Call,
         Execute, ExecutePair, ExecutePauseFormation, ExecuteRejoin, ExecuteValidate, ExecuteStart,
         ExecuteCancelEarly, ExecutePauseOrCancel, WorkerGoesOn, PauseFormationEnds,
         RejoinStopsEnd, RejoinEnds, FollowStarted, FollowRefused, FollowRefusedEnds, StartEnds,
         PauseEnds, NavigateRefused, NavigateRefusedEnds, TickBegins, TickerGoesOn,
         ProtectivePauseEnds, Tick0, TickAdvances, TickSucceeds, TickSettleTimeout, TickFollowLost,
         TickStopSeen, TickElse, AdvanceEnds, LostStopsEnd, Environment, MasterArrives,
         RobotLatches, RobotReleased, Observe, LostChanges, Clock, Restart, vars
  <2> QED BY <2>1 DEF FlagInv
<1>2. \/ UNCHANGED <<pausePending, pauseLost>>
      \/ pausePending' = TRUE /\ pauseLost' = FALSE
      \/ pausePending' = FALSE /\ pauseLost' = FALSE
      \/ TickBegins \/ ProtectivePauseEnds \/ Tick0
  BY DEF Next, Handlers, CreateMission, EditMission, FormationAction, MissionAction, Call,
         Execute, ExecutePair, ExecutePauseFormation, ExecuteRejoin, ExecuteValidate, ExecuteStart,
         ExecuteCancelEarly, ExecutePauseOrCancel, WorkerGoesOn, PauseFormationEnds,
         RejoinStopsEnd, RejoinEnds, FollowStarted, FollowRefused, FollowRefusedEnds, StartEnds,
         PauseEnds, NavigateRefused, NavigateRefusedEnds, TickerGoesOn,
         TickAdvances, TickSucceeds, TickSettleTimeout, TickFollowLost,
         TickStopSeen, TickElse, AdvanceEnds, LostStopsEnd, Environment, MasterArrives,
         RobotLatches, RobotReleased, Observe, LostChanges, Clock, Restart, vars
<1>3. CASE TickBegins
  <2>1. pausePending' = pausePending
    BY <1>3 DEF TickBegins
  <2>2. pauseLost' = pauseLost \/ \E isLost \in BOOLEAN : pauseLost' = (isLost \/ pauseLost)
    BY <1>3 DEF TickBegins, ProtectivePause
  <2>3. pauseLost' \in BOOLEAN
    BY <2>2 DEF FlagInv
  <2> QED BY <1>1, <2>1, <2>3 DEF FlagInv
<1>4. CASE ProtectivePauseEnds
  <2>1. /\ pausePending' = task["ticker"].ok /\ task["ticker"].ok \in BOOLEAN
        /\ pauseLost' = (task["ticker"].ok /\ task["ticker"].pc = "guard_lost")
    BY <1>4, TaskOf DEF ProtectivePauseEnds, Tasks
  <2>2. pauseLost' \in BOOLEAN
    BY <2>1
  <2> QED BY <1>1, <2>1, <2>2 DEF FlagInv
<1>5. CASE Tick0
  <2>1. pausePending' \in BOOLEAN
    BY <1>5 DEF Tick0, PendingNow
  <2>2. pauseLost' \in BOOLEAN
    BY <1>5 DEF Tick0
  <2> QED BY <1>1, <2>1, <2>2 DEF FlagInv
<1> QED BY <1>1, <1>2, <1>3, <1>4, <1>5 DEF FlagInv

LEMMA ViewStep == ViewInv /\ [Next]_vars => ViewInv'
<1> SUFFICES ASSUME ViewInv, [Next]_vars PROVE ViewInv'
  OBVIOUS
<1>1. view' = view \/ view' \in [Robots -> Views] \/ view' = [r \in Robots |-> "other"]
  BY DEF Next, Handlers, CreateMission, EditMission, FormationAction, MissionAction, Call,
         Execute, ExecutePair, ExecutePauseFormation, ExecuteRejoin, ExecuteValidate, ExecuteStart,
         ExecuteCancelEarly, ExecutePauseOrCancel, WorkerGoesOn, PauseFormationEnds,
         RejoinStopsEnd, RejoinEnds, FollowStarted, FollowRefused, FollowRefusedEnds, StartEnds,
         PauseEnds, NavigateRefused, NavigateRefusedEnds, TickBegins, TickerGoesOn,
         ProtectivePauseEnds, Tick0, TickAdvances, TickSucceeds, TickSettleTimeout, TickFollowLost,
         TickStopSeen, TickElse, AdvanceEnds, LostStopsEnd, Environment, MasterArrives,
         RobotLatches, RobotReleased, Observe, LostChanges, Clock, Restart, vars
<1> QED BY <1>1 DEF ViewInv, Views

TypeInv == /\ MissionTypes /\ ModeInv /\ TimeInv /\ LaneInv /\ TaskInv
           /\ RobotInv /\ FlagInv /\ ViewInv

LEMMA TypesInit == Init => TypeInv
<1> SUFFICES ASSUME Init PROVE TypeInv
  OBVIOUS
<1> USE InStates
<1>1. MissionTypes
  <2>1. [Draft EXCEPT !.state = "none"] \in Payloads
    BY DraftType DEF Payloads, MissionStates
  <2> QED BY <2>1 DEF Init, MissionTypes
<1>2. ModeInv /\ RobotInv /\ ViewInv
  BY FormationModesAre DEF Init, ModeInv, RobotInv, ViewInv, Views
<1>3. TimeInv
  BY Params DEF Init, TimeInv, NoDeadline, Never
<1>4. LaneInv
  BY Empty DEF Init, LaneInv
<1>5. TaskInv
  <2>1. Idle \in [pc : WorkerPcs \cup TickerPcs, m : Missions \cup {None}, copy : Payloads,
                  calls : Stops \cup {CancelStop, Navigate, FollowStart, SecondFollow, Rejoin},
                  ok : BOOLEAN]
    BY DraftType DEF Idle, Stops, WorkerPcs
  <2>2. TaskTypes
    BY <2>1 DEF Init, TaskTypes
  <2>3. \A t \in Tasks : Fit(t)
    BY DEF Init, Fit, Fits, FitsNone, Idle, PcsOf, WorkerPcs, TickerPcs
  <2> QED BY <2>2, <2>3 DEF TaskInv
<1>6. FlagInv
  BY DEF Init, FlagInv
<1> QED BY <1>1, <1>2, <1>3, <1>4, <1>5, <1>6 DEF TypeInv

LEMMA TypesAlways == Spec => []TypeInv
<1>1. TypeInv /\ [Next]_vars => TypeInv'
  BY MissionStep, ModeStep, TimeStep, LaneStep, TaskStep, RobotStep, FlagStep, ViewStep
     DEF TypeInv
<1> QED BY <1>1, TypesInit, PTL DEF Spec

(* All variables keep their types.                                         *)
THEOREM TypeCorrect == Spec => []TypeOK
<1>1. TypeInv => TypeOK
  <2> SUFFICES ASSUME TypeInv PROVE TypeOK
    OBVIOUS
  <2>1. lane \in Seq([op : FormationOps \cup MissionOps, m : Missions \cup {None}])
    <3> DEFINE Wide == [op : FormationOps \cup MissionOps, m : Missions \cup {None}]
    <3>1. Commands \subseteq Wide
      BY DEF Commands
    <3>2. lane \in Seq(Commands)
      BY DEF TypeInv, LaneInv
    <3> HIDE DEF Wide
    <3>3. lane \in Seq(Wide)
      BY <3>1, <3>2
    <3> QED BY <3>3 DEF Wide
  <2>2. \A t \in Tasks : /\ task[t].m \in Missions \cup {None}
                         /\ task[t].copy \in Payloads /\ task[t].ok \in BOOLEAN
    BY TaskOf DEF TypeInv
  <2> QED BY <2>1, <2>2 DEF TypeInv, MissionTypes, ModeInv, TimeInv, RobotInv, FlagInv, ViewInv,
             TypeOK
<1> QED BY <1>1, TypesAlways, PTL

---------------------------------------------------------------------------
(* The legs a mission has behind it had their goals accepted; so had the   *)
(* leg of a mission that is RUNNING, and the same holds of the copy a task *)
(* holds over its calls, which it stores later.                            *)
Covers(legs, p) ==
    \A l \in 0 .. Repeats - 1, w \in 0 .. Waypoints - 1 :
        l < p.lap \/ (l = p.lap /\ w < p.wp) => <<l, w>> \in legs

LEMMA CoversSame ==
    ASSUME NEW A, NEW B, A \subseteq B, NEW p, NEW q, p.wp = q.wp, p.lap = q.lap, Covers(A, p)
    PROVE  Covers(B, q)
BY DEF Covers

LEMMA CoversDraft == ASSUME NEW A PROVE Covers(A, Draft)
BY DEF Covers, Draft

LEMMA CoversNext ==
    ASSUME NEW A, NEW p \in Payloads, ~ LastLeg(p), Covers(A, p), Leg(p) \in A
    PROVE  Covers(A, NextLeg(p))
<1>1. p.wp \in 0 .. Waypoints - 1 /\ p.lap \in 0 .. Repeats - 1 /\ <<p.lap, p.wp>> \in A
  BY DEF Payloads, Leg
<1>2. CASE LastWaypoint(p)
  <2>1. NextLeg(p).wp = 0 /\ NextLeg(p).lap = p.lap + 1
    BY <1>2 DEF NextLeg, Payloads
  <2> SUFFICES ASSUME NEW l \in 0 .. Repeats - 1, NEW w \in 0 .. Waypoints - 1,
                      l < NextLeg(p).lap \/ (l = NextLeg(p).lap /\ w < NextLeg(p).wp)
               PROVE  <<l, w>> \in A
    BY DEF Covers
  <2>2. l < p.lap \/ (l = p.lap /\ w < p.wp) \/ (l = p.lap /\ w = p.wp)
    BY <1>1, <1>2, <2>1, Params DEF LastWaypoint
  <2> QED BY <1>1, <2>2 DEF Covers
<1>3. CASE ~ LastWaypoint(p)
  <2>1. NextLeg(p).wp = p.wp + 1 /\ NextLeg(p).lap = p.lap
    BY <1>3 DEF NextLeg, Payloads
  <2> SUFFICES ASSUME NEW l \in 0 .. Repeats - 1, NEW w \in 0 .. Waypoints - 1,
                      l < NextLeg(p).lap \/ (l = NextLeg(p).lap /\ w < NextLeg(p).wp)
               PROVE  <<l, w>> \in A
    BY DEF Covers
  <2>2. l < p.lap \/ (l = p.lap /\ w < p.wp) \/ (l = p.lap /\ w = p.wp)
    BY <1>1, <2>1, Params
  <2> QED BY <1>1, <2>2 DEF Covers
<1> QED BY <1>2, <1>3

LEMMA CoversAll ==
    ASSUME NEW A, A \subseteq Legs, NEW p \in Payloads, LastLeg(p), Covers(A, p), Leg(p) \in A
    PROVE  A = Legs
<1>1. p.wp = Waypoints - 1 /\ p.lap = Repeats - 1 /\ <<p.lap, p.wp>> \in A
  BY Params DEF Payloads, LastLeg, LastWaypoint, Leg
<1>2. ASSUME NEW l \in 0 .. Repeats - 1, NEW w \in 0 .. Waypoints - 1 PROVE <<l, w>> \in A
  <2>1. l < p.lap \/ (l = p.lap /\ w < p.wp) \/ (l = p.lap /\ w = p.wp)
    BY <1>1, Params
  <2> QED BY <1>1, <2>1 DEF Covers
<1> QED BY <1>2 DEF Legs

AcceptedInv == accepted \in [Missions -> SUBSET Legs]

(* The goal of a leg is accepted by a call that answers so.                *)
LEMMA CallAccepts ==
    ASSUME TypeInv, AcceptedInv, NEW t \in Tasks, Call(t)
    PROVE  /\ AcceptedInv' /\ \A m \in Missions : accepted[m] \subseteq accepted'[m]
           /\ task'[t].m = task[t].m /\ task'[t].copy = task[t].copy /\ task'[t].pc = task[t].pc
           /\ \A u \in Tasks : u # t => task'[u] = task[u]
           /\ task[t].pc \in {"navigate", "advance"} /\ task'[t].ok =>
                 Leg(task[t].copy) \in accepted'[task[t].m]
<1> USE DEF TypeInv
<1>1. /\ task[t].calls # <<>> /\ Fits(task[t].pc, task[t].m, task[t].copy, task[t].calls)
      /\ task[t].copy \in Payloads
  BY TaskOf DEF Call
<1>2. /\ Head(task[t].calls).op = "navigate" <=> task[t].pc \in {"navigate", "advance"}
      /\ Head(task[t].calls).op = "navigate" => task[t].m \in Missions
  BY <1>1, CallsShrink
<1>3. Leg(task[t].copy) \in Legs
  BY <1>1 DEF Leg, Legs, Payloads
<1>4. \/ accepted' = accepted
      \/ /\ Head(task[t].calls).op = "navigate"
         /\ accepted' = [accepted EXCEPT ![task[t].m] = @ \cup {Leg(task[t].copy)}]
  BY DEF Call
<1>5. AcceptedInv' /\ \A m \in Missions : accepted[m] \subseteq accepted'[m]
  BY <1>2, <1>3, <1>4 DEF AcceptedInv
<1>6. \E left, ok : /\ task' = [task EXCEPT ![t].calls = left, ![t].ok = ok]
                    /\ ok /\ Head(task[t].calls).op = "navigate" =>
                          accepted' = [accepted EXCEPT ![task[t].m] = @ \cup {Leg(task[t].copy)}]
  BY DEF Call
<1>7. PICK left, ok : /\ task' = [task EXCEPT ![t].calls = left, ![t].ok = ok]
                      /\ ok /\ Head(task[t].calls).op = "navigate" =>
                          accepted' = [accepted EXCEPT ![task[t].m] = @ \cup {Leg(task[t].copy)}]
  BY <1>6
<1>8. /\ task'[t].m = task[t].m /\ task'[t].copy = task[t].copy /\ task'[t].pc = task[t].pc
      /\ task'[t].ok = ok
      /\ \A u \in Tasks : u # t => task'[u] = task[u]
  BY <1>7 DEF TaskInv, TaskTypes
<1>9. ASSUME task[t].pc \in {"navigate", "advance"}, task'[t].ok
      PROVE  Leg(task[t].copy) \in accepted'[task[t].m]
  BY <1>2, <1>7, <1>8, <1>9 DEF AcceptedInv
<1> QED BY <1>5, <1>8, <1>9

LEMMA AcceptedKept == [Next]_vars => (\E t \in Tasks : Call(t)) \/ accepted' = accepted
BY DEF Next, Handlers, CreateMission, EditMission, FormationAction, MissionAction,
       Execute, ExecutePair, ExecutePauseFormation, ExecuteRejoin, ExecuteValidate, ExecuteStart,
       ExecuteCancelEarly, ExecutePauseOrCancel, WorkerGoesOn, PauseFormationEnds,
       RejoinStopsEnd, RejoinEnds, FollowStarted, FollowRefused, FollowRefusedEnds, StartEnds,
       PauseEnds, NavigateRefused, NavigateRefusedEnds, TickBegins, TickerGoesOn,
       ProtectivePauseEnds, Tick0, TickAdvances, TickSucceeds, TickSettleTimeout, TickFollowLost,
       TickStopSeen, TickElse, AdvanceEnds, LostStopsEnd, Environment, MasterArrives,
       RobotLatches, RobotReleased, Observe, LostChanges, Clock, Restart, vars

LEMMA AcceptedStep ==
    ASSUME TypeInv, AcceptedInv, [Next]_vars
    PROVE  AcceptedInv' /\ \A m \in Missions : accepted[m] \subseteq accepted'[m]
BY AcceptedKept, CallAccepts DEF AcceptedInv

Progress(m) ==
    /\ Covers(accepted[m], mission[m])
    /\ mission[m].state = "RUNNING" => Leg(mission[m]) \in accepted[m]
    /\ mission[m].state = "SUCCEEDED" => accepted[m] = Legs

Carried(t) ==
    task[t].m \in Missions =>
        /\ Covers(accepted[task[t].m], task[t].copy)
        /\ task[t].pc \in {"navigate", "advance"} /\ task[t].calls = <<>> /\ task[t].ok =>
              Leg(task[t].copy) \in accepted[task[t].m]

SuccessInv == (\A m \in Missions : Progress(m)) /\ (\A t \in Tasks : Carried(t))

(* The stops for a lost follower are asked for the mission that was active *)
(* then; its copy is stored as the mission that is active when they are    *)
(* answered (mission_service.py, the last lines of the LOST branch).       *)
LostKeepsMission == task["ticker"].pc = "lost" => active \in {None, task["ticker"].m}

LEMMA ProgressKept ==
    ASSUME NEW m \in Missions, AcceptedInv, AcceptedInv', accepted[m] \subseteq accepted'[m],
           Progress(m), mission'[m].wp = mission[m].wp, mission'[m].lap = mission[m].lap,
           \/ mission'[m].state \notin {"RUNNING", "SUCCEEDED"}
           \/ mission'[m].state = mission[m].state
    PROVE  Progress(m)'
<1>1. Covers(accepted'[m], mission'[m])
  BY CoversSame DEF Progress
<1>2. mission'[m].state = "RUNNING" => Leg(mission'[m]) \in accepted'[m]
  BY DEF Progress, Leg
<1>3. mission'[m].state = "SUCCEEDED" => accepted'[m] = Legs
  BY DEF Progress, AcceptedInv
<1> QED BY <1>1, <1>2, <1>3 DEF Progress

LEMMA ProgressStored ==
    ASSUME NEW t \in Tasks, NEW m \in Missions, task[t].m = m, AcceptedInv,
           accepted[m] \subseteq accepted'[m],
           Carried(t), mission'[m] = task[t].copy, task[t].copy.state # "SUCCEEDED",
           \/ task[t].copy.state # "RUNNING"
           \/ task[t].pc \in {"navigate", "advance"} /\ task[t].calls = <<>> /\ task[t].ok
    PROVE  Progress(m)'
<1>1. Covers(accepted'[m], mission'[m])
  BY CoversSame DEF Carried
<1> QED BY <1>1 DEF Progress, Carried

LEMMA ProgressStep ==
    ASSUME TypeInv, AcceptedInv, SuccessInv, LostKeepsMission, [Next]_vars,
           NEW m \in Missions
    PROVE  Progress(m)'
<1>1. /\ AcceptedInv' /\ accepted[m] \subseteq accepted'[m] /\ Progress(m)
      /\ mission[m] \in Payloads /\ MissionTypes /\ ModeInv /\ LaneInv /\ TaskInv
  BY AcceptedStep DEF SuccessInv, TypeInv, MissionTypes
<1>2. ASSUME mission'[m] = mission[m] PROVE Progress(m)'
  BY <1>1, <1>2, ProgressKept
<1>3. ASSUME NEW s \in MissionStates \ {"RUNNING", "SUCCEEDED"},
             mission'[m] = [mission[m] EXCEPT !.state = s]
      PROVE  Progress(m)'
  <2>1. mission'[m].wp = mission[m].wp /\ mission'[m].lap = mission[m].lap
        /\ mission'[m].state = s
    BY <1>1, <1>3 DEF Payloads
  <2> QED BY <1>1, <2>1, ProgressKept
<1>4. ASSUME NEW n \in Missions, CreateMission(n) \/ EditMission(n) PROVE Progress(m)'
  <2>1. CASE CreateMission(n) /\ n = m
    <3>1. mission'[m] = Draft
      BY <1>1, <2>1 DEF CreateMission, MissionTypes
    <3> QED BY <3>1, CoversDraft DEF Progress, Draft
  <2>2. CASE ~ (CreateMission(n) /\ n = m)
    <3>1. mission'[m] = mission[m] \/ mission'[m] = [mission[m] EXCEPT !.state = "DRAFT"]
      BY <1>1, <1>4, <2>2 DEF CreateMission, EditMission, MissionTypes
    <3> QED BY <1>2, <1>3, <3>1, InStates
  <2> QED BY <2>1, <2>2
<1>5. ASSUME NEW op \in MissionOps, NEW n \in Missions, MissionAction(op, n)
      PROVE  Progress(m)'
  <2>1. mission'[m] = mission[m] \/ mission'[m] = [mission[m] EXCEPT !.state = "STARTING"]
    BY <1>1, <1>5 DEF MissionAction, Claim, MissionTypes
  <2> QED BY <1>2, <1>3, <2>1, InStates
<1>6. CASE ExecuteValidate \/ ExecuteCancelEarly \/ TickSucceeds \/ TickSettleTimeout
             \/ TickStopSeen
  <2>1. PICK n \in Missions, s \in MissionStates :
              /\ SetsState(n, s)
              /\ \/ s \in {"READY", "CANCELED", "PAUSED"}
                 \/ TickSucceeds /\ n = active /\ s = "SUCCEEDED"
    BY <1>1, <1>6, StateSetters
  <2>2. Marks(n, s)
    BY <1>1, <2>1, Marked DEF SetsState
  <2>3. CASE n # m
    BY <1>2, <2>2, <2>3 DEF Marks
  <2>4. CASE n = m /\ s \in {"READY", "CANCELED", "PAUSED"}
    BY <1>3, <2>1, <2>2, <2>4 DEF Marks
  <2>5. CASE n = m /\ TickSucceeds /\ m = active /\ s = "SUCCEEDED"
    <3>1. mission[m].state = "RUNNING" /\ LastLeg(mission[m])
      BY <2>5, Params DEF TickSucceeds, Settled, ActiveState
    <3>2. accepted[m] = Legs
      BY <1>1, <3>1, CoversAll DEF Progress, AcceptedInv
    <3>3. accepted'[m] = Legs
      BY <1>1, <3>2 DEF AcceptedInv
    <3>4. mission'[m] = [mission[m] EXCEPT !.state = s]
      BY <2>2, <2>5 DEF Marks
    <3>5. mission'[m].wp = mission[m].wp /\ mission'[m].lap = mission[m].lap
          /\ mission'[m].state = "SUCCEEDED"
      BY <1>1, <2>5, <3>4 DEF Payloads
    <3>6. Covers(accepted'[m], mission'[m])
      BY <1>1, <3>5, CoversSame DEF Progress
    <3> QED BY <3>3, <3>5, <3>6 DEF Progress
  <2> QED BY <2>1, <2>3, <2>4, <2>5
<1>7. CASE FollowRefusedEnds \/ StartEnds \/ PauseEnds \/ AdvanceEnds
  <2>1. PICK t \in Tasks :
              /\ task[t].m \in Missions /\ task[t].copy \in Payloads
              /\ FitsMission(task[t].pc, task[t].copy.state, task[t].calls)
              /\ task[t].calls = <<>>
              /\ mission' = [mission EXCEPT ![task[t].m] = task[t].copy]
              /\ \/ task[t].pc = "follow_refused"
                 \/ task[t].pc \in {"navigate", "advance"} /\ task[t].ok
                 \/ task[t].pc = "pause"
    BY <1>1, <1>7, StoreIs
  <2>2. Puts(task[t].m, task[t].copy)
    BY <1>1, <2>1, Put
  <2>3. CASE task[t].m # m
    BY <1>2, <2>2, <2>3 DEF Puts
  <2>4. CASE task[t].m = m
    <3>1. /\ task[t].copy.state # "SUCCEEDED"
          /\ \/ task[t].copy.state # "RUNNING"
             \/ task[t].pc \in {"navigate", "advance"} /\ task[t].calls = <<>> /\ task[t].ok
      BY <2>1 DEF FitsMission
    <3>2. mission'[m] = task[t].copy /\ Carried(t)
      BY <2>2, <2>4 DEF Puts, SuccessInv
    <3> QED BY <1>1, <2>4, <3>1, <3>2, ProgressStored
  <2> QED BY <2>3, <2>4
<1>8. ASSUME NEW t \in Tasks, NavigateRefusedEnds(t) PROVE Progress(m)'
  <2>1. /\ task[t].m \in Missions /\ task[t].copy \in Payloads
        /\ task[t].copy.state = "FAILED"
        /\ Puts(task[t].m, task[t].copy) /\ Carried(t)
    BY <1>1, <1>8, RefusedIs, Put DEF SuccessInv
  <2>2. CASE task[t].m # m
    BY <1>2, <2>1, <2>2 DEF Puts
  <2>3. CASE task[t].m = m
    <3>1. mission'[m] = task[t].copy
      BY <2>1, <2>3 DEF Puts
    <3> QED BY <1>1, <2>1, <2>3, <3>1, ProgressStored
  <2> QED BY <2>2, <2>3
<1>9. CASE LostStopsEnd
  <2>1. /\ task["ticker"].m \in Missions /\ task["ticker"].copy.state = "PAUSING"
        /\ task["ticker"].pc = "lost" /\ "ticker" \in Tasks
        /\ mission' = [n \in Missions |-> IF n = active THEN task["ticker"].copy
                                          ELSE mission[n]]
    BY <1>1, <1>9, LostIs DEF Tasks
  <2>2. CASE m # active
    BY <1>2, <2>1, <2>2
  <2>3. CASE m = active
    <3>1. task["ticker"].m = m
      BY <2>1, <2>3, Params DEF LostKeepsMission
    <3>2. mission'[m] = task["ticker"].copy /\ Carried("ticker")
      BY <2>1, <2>3 DEF SuccessInv
    <3> QED BY <1>1, <2>1, <3>1, <3>2, ProgressStored
  <2> QED BY <2>2, <2>3
<1>10. CASE TickBegins
  <2>1. mission'[m] = mission[m] \/ mission'[m] = [mission[m] EXCEPT !.state = "PAUSING"]
    BY <1>1, <1>10 DEF TickBegins, ProtectivePause
  <2> QED BY <1>2, <1>3, <2>1, InStates
<1>11. CASE Restart
  <2>1. mission'[m] = mission[m] \/ mission'[m] = [mission[m] EXCEPT !.state = "PAUSED"]
    BY <1>1, <1>11 DEF Restart
  <2> QED BY <1>2, <1>3, <2>1, InStates
<1> QED BY <1>2, <1>4, <1>5, <1>6, <1>7, <1>8, <1>9, <1>10, <1>11, MissionMoves

LEMMA CarriedKept ==
    ASSUME NEW u \in Tasks, Carried(u), task'[u] = task[u],
           \A m \in Missions : accepted[m] \subseteq accepted'[m]
    PROVE  Carried(u)'
<1>1. task[u].m \in Missions => Covers(accepted'[task[u].m], task[u].copy)
  BY CoversSame DEF Carried
<1> QED BY <1>1 DEF Carried

LEMMA CarriedBegun ==
    ASSUME TaskInv, NEW t \in Tasks, NEW pc, NEW m, NEW copy, NEW calls,
           Begins(t, pc, m, copy, calls),
           m \in Missions => Covers(accepted'[m], copy),
           calls # <<>> \/ pc \notin {"navigate", "advance"},
           \A n \in Missions : accepted[n] \subseteq accepted'[n],
           \A u \in Tasks : Carried(u)
    PROVE  \A u \in Tasks : Carried(u)'
<1>1. /\ task'[t].pc = pc /\ task'[t].m = m /\ task'[t].copy = copy /\ task'[t].calls = calls
      /\ \A u \in Tasks : u # t => task'[u] = task[u]
  BY DEF Begins, Begin, TaskInv, TaskTypes
<1>2. Carried(t)'
  BY <1>1 DEF Carried
<1>3. ASSUME NEW u \in Tasks, u # t PROVE Carried(u)'
  BY <1>1, <1>3, CarriedKept
<1> QED BY <1>2, <1>3

LEMMA IdleBegins == Idle = Begin("idle", None, Draft, <<>>)
BY DEF Idle, Begin

LEMMA CarriedStep ==
    ASSUME TypeInv, AcceptedInv, SuccessInv, [Next]_vars
    PROVE  \A u \in Tasks : Carried(u)'
<1>1. /\ AcceptedInv' /\ \A m \in Missions : accepted[m] \subseteq accepted'[m]
      /\ \A u \in Tasks : Carried(u) /\ task[u].copy \in Payloads
      /\ \A m \in Missions : Progress(m) /\ mission[m] \in Payloads
      /\ MissionTypes /\ ModeInv /\ LaneInv /\ TaskInv
  BY AcceptedStep, TaskOf DEF SuccessInv, TypeInv, MissionTypes
<1>2. ASSUME NEW t \in Tasks, NEW pc \in WorkerPcs \cup TickerPcs, NEW calls,
             Begins(t, pc, None, Draft, calls), pc \notin {"navigate", "advance"}
      PROVE  \A u \in Tasks : Carried(u)'
  BY <1>1, <1>2, CarriedBegun, Params
<1>3. ASSUME NEW t \in Tasks, Ends(t) PROVE \A u \in Tasks : Carried(u)'
  <2>1. Begins(t, "idle", None, Draft, <<>>) /\ "idle" \in WorkerPcs
    BY <1>3, IdleBegins DEF Ends, Begins, WorkerPcs
  <2> QED BY <1>2, <2>1
<1>4. ASSUME NEW t \in Tasks, NEW m \in Missions, NEW s \in MissionStates, NEW pc,
             NEW p \in Payloads, NEW calls, calls # <<>> \/ pc \notin {"navigate", "advance"},
             Covers(accepted[m], p), Begins(t, pc, m, [p EXCEPT !.state = s], calls)
      PROVE  \A u \in Tasks : Carried(u)'
  <2>1. Covers(accepted'[m], [p EXCEPT !.state = s])
    BY <1>1, <1>4, Restated, CoversSame
  <2> QED BY <1>1, <1>4, <2>1, CarriedBegun
<1>5. ASSUME NEW t \in Tasks, Call(t) PROVE \A u \in Tasks : Carried(u)'
  <2>1. /\ task'[t].m = task[t].m /\ task'[t].copy = task[t].copy /\ task'[t].pc = task[t].pc
        /\ \A u \in Tasks : u # t => task'[u] = task[u]
        /\ task[t].pc \in {"navigate", "advance"} /\ task'[t].ok =>
              Leg(task[t].copy) \in accepted'[task[t].m]
    BY <1>1, <1>5, CallAccepts
  <2>2. task[t].m \in Missions => Covers(accepted'[task[t].m], task[t].copy)
    BY <1>1, CoversSame DEF Carried
  <2>3. Carried(t)'
    BY <2>1, <2>2 DEF Carried
  <2>4. ASSUME NEW u \in Tasks, u # t PROVE Carried(u)'
    BY <1>1, <2>1, <2>4, CarriedKept
  <2> QED BY <2>3, <2>4
<1>6. ASSUME NEW t \in Tasks, NavigateRefused(t) PROVE \A u \in Tasks : Carried(u)'
  <2>1. task[t].m \in Missions
    BY <1>1, <1>6, TaskIs DEF NavigateRefused
  <2>2. Begins(t, "refused", task[t].m, [task[t].copy EXCEPT !.state = "FAILED"], StopBoth)
    BY <1>6 DEF NavigateRefused, Begins
  <2>3. Covers(accepted[task[t].m], task[t].copy) /\ task[t].copy \in Payloads
    BY <1>1, <2>1 DEF Carried
  <2> QED BY <1>4, <2>1, <2>2, <2>3, InStates
<1>7. ASSUME NEW t \in Tasks, NavigateRefusedEnds(t) PROVE \A u \in Tasks : Carried(u)'
  BY <1>3, <1>7 DEF NavigateRefusedEnds, Ends
<1> USE DEF Tasks
<1>8. CASE Execute
  <2>1. CASE ExecutePair \/ ExecuteValidate \/ ExecuteCancelEarly
    BY <1>1, <2>1, CarriedKept DEF ExecutePair, ExecuteValidate, ExecuteCancelEarly
  <2>2. CASE ExecutePauseFormation \/ ExecuteRejoin
    BY <1>2, <2>2 DEF ExecutePauseFormation, ExecuteRejoin, Work, Begins, WorkerPcs
  <2>3. CASE ExecuteStart \/ ExecutePauseOrCancel
    <3>1. PICK m \in Missions : m = Head(lane).m
      BY <1>1, <2>3, LaneHead DEF ExecuteStart, ExecutePauseOrCancel, MissionOps
    <3>2. PICK s, pc, calls :
             /\ s \in MissionStates /\ pc \in {"follow", "pause"}
             /\ Begins("worker", pc, m, [mission[m] EXCEPT !.state = s], calls)
      BY <2>3, <3>1, InStates DEF ExecuteStart, ExecutePauseOrCancel, Work, Begins
    <3>3. Covers(accepted[m], mission[m])
      BY <1>1 DEF Progress
    <3> QED BY <1>1, <1>4, <3>2, <3>3
  <2> QED BY <1>8, <2>1, <2>2, <2>3 DEF Execute
<1>9. CASE WorkerGoesOn
  <2>1. CASE PauseFormationEnds \/ RejoinEnds \/ FollowRefusedEnds \/ StartEnds \/ PauseEnds
    BY <1>3, <2>1 DEF PauseFormationEnds, RejoinEnds, FollowRefusedEnds, StartEnds, PauseEnds,
       Done, Ends
  <2>2. CASE RejoinStopsEnd
    BY <1>2, <1>3, <2>2 DEF RejoinStopsEnd, Done, Ends, Work, Begins, WorkerPcs
  <2>3. CASE FollowStarted \/ FollowRefused
    <3>1. task["worker"].m \in Missions
      BY <1>1, <2>3, TaskIs DEF FollowStarted, FollowRefused, WorkerAt
    <3>2. \/ Begins("worker", "navigate", task["worker"].m,
                    [task["worker"].copy EXCEPT !.state = "RUNNING"], Navigate)
          \/ Begins("worker", "follow_refused", task["worker"].m,
                    [task["worker"].copy EXCEPT !.state = "PAUSED"], StopBoth)
      BY <2>3 DEF FollowStarted, FollowRefused, Work, Begins, Copy
    <3>3. Covers(accepted[task["worker"].m], task["worker"].copy)
          /\ task["worker"].copy \in Payloads
      BY <1>1, <3>1 DEF Carried
    <3> QED BY <1>4, <3>1, <3>2, <3>3, InStates, Apart
  <2> QED BY <1>6, <1>7, <1>9, <2>1, <2>2, <2>3 DEF WorkerGoesOn
<1>10. ToTick => \A u \in Tasks : Carried(u)'
  <2>1. ToTick => Begins("ticker", "tick", None, Draft, <<>>)
    BY DEF ToTick, Begins
  <2>2. "tick" \in TickerPcs
    BY DEF TickerPcs
  <2> QED BY <1>2, <2>1, <2>2
<1>11. CASE TickBegins \/ ProtectivePauseEnds
  <2>1. ASSUME NEW isLost \in BOOLEAN, ProtectivePause(isLost)
        PROVE  \A u \in Tasks : Carried(u)'
    BY <1>2, <1>10, <2>1 DEF ProtectivePause, Begins, TickerPcs
  <2> QED BY <1>10, <1>11, <2>1 DEF TickBegins, ProtectivePauseEnds
<1>12. CASE TickAdvances \/ TickFollowLost
  <2>1. PICK m \in Missions : m = active
    BY <1>1, <1>12 DEF TickAdvances, TickFollowLost, Settled, FollowIsLost, ActiveState, ModeInv
  <2>2. Covers(accepted[m], mission[m])
    BY <1>1 DEF Progress
  <2>3. CASE TickAdvances
    <3>1. mission[m].state = "RUNNING" /\ ~ LastLeg(mission[m])
      BY <2>1, <2>3, Params DEF TickAdvances, Settled, ActiveState
    <3>2. Covers(accepted[m], NextLeg(mission[m]))
      BY <1>1, <3>1, CoversNext DEF Progress
    <3>3. Covers(accepted'[m], NextLeg(mission[m]))
      BY <1>1, <3>2, CoversSame
    <3>4. Begins("ticker", "advance", m, NextLeg(mission[m]), Navigate)
      BY <2>1, <2>3 DEF TickAdvances, Begins
    <3> QED BY <1>1, <3>3, <3>4, CarriedBegun, Apart
  <2>4. CASE TickFollowLost
    <3>1. Begins("ticker", "lost", m, [mission[m] EXCEPT !.state = "PAUSING"], StopBoth)
      BY <2>1, <2>4 DEF TickFollowLost, Begins
    <3> QED BY <1>1, <1>4, <2>2, <3>1, InStates
  <2> QED BY <1>12, <2>3, <2>4
<1>13. CASE TickSucceeds \/ TickSettleTimeout \/ TickStopSeen \/ TickElse \/ AdvanceEnds
            \/ LostStopsEnd
  BY <1>3, <1>13 DEF TickSucceeds, TickSettleTimeout, TickStopSeen, TickElse, AdvanceEnds,
     LostStopsEnd, TickReturns, Ends
<1>14. CASE Restart
  BY <1>14, Params DEF Restart, Carried, Idle
<1>15. CASE UNCHANGED task
  BY <1>1, <1>15, CarriedKept
<1> QED BY <1>5, <1>6, <1>7, <1>8, <1>9, <1>11, <1>12, <1>13, <1>14, <1>15, TaskMoves

LEMMA SuccessInit == Init => AcceptedInv /\ SuccessInv
<1> SUFFICES ASSUME Init PROVE AcceptedInv /\ SuccessInv
  OBVIOUS
<1>1. AcceptedInv
  BY DEF Init, AcceptedInv
<1>2. ASSUME NEW m \in Missions PROVE Progress(m)
  <2>1. mission[m].wp = Draft.wp /\ mission[m].lap = Draft.lap /\ mission[m].state = "none"
    BY DEF Init, Draft
  <2>2. Covers(accepted[m], mission[m])
    BY <2>1, CoversDraft, CoversSame
  <2> QED BY <2>1, <2>2 DEF Progress
<1>3. \A t \in Tasks : Carried(t)
  BY Params DEF Init, Carried, Idle
<1> QED BY <1>1, <1>2, <1>3 DEF SuccessInv

LEMMA SuccessAlways == Spec /\ []LostKeepsMission => [](AcceptedInv /\ SuccessInv)
<1>1. TypeInv /\ AcceptedInv /\ SuccessInv /\ LostKeepsMission /\ [Next]_vars =>
          AcceptedInv' /\ SuccessInv'
  BY AcceptedStep, ProgressStep, CarriedStep DEF SuccessInv
<1> QED BY <1>1, SuccessInit, TypesAlways, PTL DEF Spec

(* A mission that SUCCEEDED had the goal of each waypoint in each lap      *)
(* accepted, whatever is lost, restarted or asked meanwhile, as long as no *)
(* other mission becomes active while the ticker stops the robots for a    *)
(* lost follower: _tick reads active_id anew after those calls.            *)
THEOREM SuccessAlwaysDroveEveryLeg == Spec /\ []LostKeepsMission => []SuccessDroveEveryLeg
<1>1. SuccessInv => SuccessDroveEveryLeg
  BY DEF SuccessInv, Progress, SuccessDroveEveryLeg
<1> QED BY <1>1, SuccessAlways, PTL

(* With one mission there is no other that could become active.            *)
THEOREM OneMissionDroveEveryLeg ==
    ASSUME \A m, n \in Missions : m = n
    PROVE  Spec => []SuccessDroveEveryLeg
<1>1. TypeInv => LostKeepsMission
  <2> SUFFICES ASSUME TypeInv, task["ticker"].pc = "lost" PROVE active \in {None, task["ticker"].m}
    BY DEF LostKeepsMission
  <2>1. task["ticker"].m \in Missions
    BY TaskIs DEF TypeInv, Tasks
  <2> QED BY <2>1 DEF TypeInv, ModeInv
<1> QED BY <1>1, TypesAlways, SuccessAlwaysDroveEveryLeg, PTL

---------------------------------------------------------------------------
(* The operator waits for each command and no call fails: then a mission   *)
(* is being started or driven on by one task at a time.                    *)
InLane(op, m) == lane # <<>> /\ Head(lane).op = op /\ Head(lane).m = m

Starting(m) ==
    \/ InLane("start", m)
    \/ /\ task["worker"].m = m
       /\ task["worker"].pc \in {"follow", "follow_refused", "navigate", "refused"}

Advancing(m) == task["ticker"].m = m /\ task["ticker"].pc \in {"advance", "refused"}

OneCommand == lane # <<>> => Tail(lane) = <<>> /\ task["worker"].pc = "idle"

LatchInv == "master" \in latched => drive = None

PauseStops == task["worker"].pc = "pause" /\ task["worker"].calls \in {StopSlave, <<>>} =>
                  "master" \in latched

RefusedStops == \A t \in Tasks :
                    task[t].pc = "refused" /\ task[t].calls # StopBoth => drive # task[t].m

StateInv(m) ==
    /\ mission[m].state \in {"none", "DRAFT", "READY"} =>
          active # m /\ drive # m /\ \A t \in Tasks : task[t].m # m
    /\ Starting(m) =>
          mission[m].state \in {"STARTING", "PAUSING", "PAUSED"} /\ ~ Advancing(m)
    /\ Advancing(m) => mission[m].state \in {"RUNNING", "PAUSING", "CANCELING"}
    /\ InLane("validate", m) => mission[m].state = "DRAFT"
    /\ InLane("cancel", m) => mission[m].state # "none"
    /\ InLane("pause", m) => mission[m].state \notin {"none", "DRAFT", "READY"}
    /\ mission[m].state = "CANCELING" /\ drive = m => Advancing(m)
    /\ mission[m].state \in {"CANCELED", "FAILED"} => drive # m

EndedInv == /\ OneCommand /\ LatchInv /\ PauseStops /\ RefusedStops
            /\ \A m \in Missions : StateInv(m)

LEMMA TaskFacts ==
    ASSUME TaskInv, NEW t \in Tasks, NEW pc, NEW m, NEW copy, NEW calls,
           Begins(t, pc, m, copy, calls)
    PROVE  /\ task'[t].pc = pc /\ task'[t].m = m /\ task'[t].calls = calls
           /\ \A u \in Tasks : u # t => task'[u] = task[u]
BY DEF Begins, Begin, TaskInv, TaskTypes

LEMMA EndFacts ==
    ASSUME TaskInv, NEW t \in Tasks, Ends(t)
    PROVE  /\ task'[t].pc = "idle" /\ task'[t].m = None /\ task'[t].calls = <<>>
           /\ \A u \in Tasks : u # t => task'[u] = task[u]
BY DEF Ends, Idle, TaskInv, TaskTypes

LEMMA CallFacts ==
    ASSUME TaskInv, ~ CallsMayFail, NEW t \in Tasks, Call(t)
    PROVE  /\ task'[t].pc = task[t].pc /\ task'[t].m = task[t].m
           /\ \A u \in Tasks : u # t => task'[u] = task[u]
           /\ task'[t].calls = Tail(task[t].calls) \/ task[t].pc = "follow"
           /\ \/ Refusable(Head(task[t].calls).op) /\ UNCHANGED <<latched, drive>>
              \/ /\ MayAccept(Head(task[t].calls).op)
                 /\ Executed(Head(task[t].calls), task[t].m)
           /\ UNCHANGED <<mission, lane, active>>
<1>1. \E left, ok : /\ task' = [task EXCEPT ![t].calls = left, ![t].ok = ok]
                    /\ left = Tail(task[t].calls) \/ task[t].pc = "follow"
  BY DEF Call
<1>2. /\ task'[t].pc = task[t].pc /\ task'[t].m = task[t].m
      /\ \A u \in Tasks : u # t => task'[u] = task[u]
      /\ task'[t].calls = Tail(task[t].calls) \/ task[t].pc = "follow"
  BY <1>1 DEF TaskInv, TaskTypes
<1>3. /\ \/ Refusable(Head(task[t].calls).op) /\ UNCHANGED <<latched, drive>>
         \/ /\ MayAccept(Head(task[t].calls).op)
            /\ Executed(Head(task[t].calls), task[t].m)
      /\ UNCHANGED <<mission, lane, active>>
  BY DEF Call
<1> QED BY <1>2, <1>3

LEMMA AppendOne ==
    ASSUME NEW c, lane = <<>>, lane' = Append(lane, c)
    PROVE  lane' # <<>> /\ Head(lane') = c /\ Tail(lane') = <<>>
<1>1. lane \in Seq({c}) /\ Append(lane, c) = <<c>>
  OBVIOUS
<1>2. Tail(<<c>>) = <<>>
  BY TailOfOne
<1> QED BY <1>1, <1>2

LEMMA OneCommandMoves ==
    ASSUME TypeInv, Patient, OneCommand, [Next]_vars
    PROVE  \/ lane' = lane
           \/ lane' = <<>>
           \/ /\ lane = <<>> /\ lane' # <<>> /\ Tail(lane') = <<>> /\ task' = task
              /\ task["worker"].pc = "idle"
              /\ \/ Head(lane').m = None /\ UNCHANGED mission
                 \/ \E op \in MissionOps, m \in Missions :
                       MissionAction(op, m) /\ Head(lane') = [op |-> op, m |-> m]
<1>1. ASSUME NEW op \in FormationOps, FormationAction(op) PROVE
           /\ lane = <<>> /\ lane' # <<>> /\ Tail(lane') = <<>> /\ task' = task
           /\ task["worker"].pc = "idle" /\ Head(lane').m = None /\ UNCHANGED mission
  <2>1. /\ lane = <<>> /\ lane' = Append(lane, [op |-> op, m |-> None]) /\ task' = task
        /\ task["worker"].pc = "idle" /\ UNCHANGED mission
    BY <1>1 DEF FormationAction, Submit
  <2> QED BY <2>1, AppendOne
<1>2. ASSUME NEW op \in MissionOps, NEW m \in Missions, MissionAction(op, m) PROVE
           /\ lane = <<>> /\ lane' # <<>> /\ Tail(lane') = <<>> /\ task' = task
           /\ task["worker"].pc = "idle" /\ Head(lane') = [op |-> op, m |-> m]
  <2>1. /\ lane = <<>> /\ lane' = Append(lane, [op |-> op, m |-> m]) /\ task' = task
        /\ task["worker"].pc = "idle"
    BY <1>2 DEF MissionAction, Submit
  <2> QED BY <2>1, AppendOne
<1>3. ASSUME NEW op, Take(op) PROVE lane' = <<>>
  BY <1>3 DEF Take, OneCommand
<1>4. Restart => lane' = <<>>
  BY DEF Restart
<1> QED BY <1>1, <1>2, <1>3, <1>4, LaneMoves

(* What a step may do to a task.                                           *)
LEMMA TaskNext ==
    ASSUME TypeInv, [Next]_vars, NEW t \in Tasks
    PROVE  \/ task'[t] = task[t]
           \/ Call(t)
           \/ task'[t].pc \notin {"pause", "refused"}
           \/ task'[t].pc = "pause" /\ task'[t].calls = CancelStop
           \/ task'[t].pc = "refused" /\ task'[t].calls = StopBoth
<1> USE DEF TypeInv, Tasks
<1>1. ASSUME NEW u \in Tasks, NEW pc, NEW m, NEW copy, NEW calls, Begins(u, pc, m, copy, calls),
             \/ pc \notin {"pause", "refused"}
             \/ pc = "pause" /\ calls = CancelStop
             \/ pc = "refused" /\ calls = StopBoth
      PROVE  \/ task'[t] = task[t]
             \/ task'[t].pc \notin {"pause", "refused"}
             \/ task'[t].pc = "pause" /\ task'[t].calls = CancelStop
             \/ task'[t].pc = "refused" /\ task'[t].calls = StopBoth
  BY <1>1, TaskFacts
<1>2. ASSUME NEW u \in Tasks, Ends(u) PROVE task'[t] = task[t] \/ task'[t].pc = "idle"
  BY <1>2, EndFacts
<1>3. ASSUME NEW u \in Tasks, Call(u) \/ NavigateRefused(u) \/ NavigateRefusedEnds(u)
      PROVE  \/ task'[t] = task[t]
             \/ Call(t)
             \/ task'[t].pc \notin {"pause", "refused"}
             \/ task'[t].pc = "refused" /\ task'[t].calls = StopBoth
  <2>1. CASE Call(u)
    <3>1. u # t => task'[t] = task[t]
      BY <2>1 DEF Call, TaskInv, TaskTypes
    <3> QED BY <2>1, <3>1
  <2>2. CASE NavigateRefused(u)
    <3>1. Begins(u, "refused", task[u].m, [task[u].copy EXCEPT !.state = "FAILED"], StopBoth)
      BY <2>2 DEF NavigateRefused, Begins
    <3> QED BY <3>1, TaskFacts
  <2>3. CASE NavigateRefusedEnds(u)
    BY <1>2, <2>3 DEF NavigateRefusedEnds, Ends
  <2> QED BY <1>3, <2>1, <2>2, <2>3
<1>4. CASE Execute
  <2>1. \/ task' = task
        \/ \E pc, m, copy, calls :
              /\ Begins("worker", pc, m, copy, calls)
              /\ \/ pc \notin {"pause", "refused"}
                 \/ pc = "pause" /\ calls = CancelStop
    BY <1>4 DEF Execute, ExecutePair, ExecuteValidate, ExecuteCancelEarly, ExecutePauseFormation,
       ExecuteRejoin, ExecuteStart, ExecutePauseOrCancel, Work, Begins
  <2> QED BY <1>1, <2>1
<1>5. CASE WorkerGoesOn /\ ~ NavigateRefused("worker") /\ ~ NavigateRefusedEnds("worker")
  <2>1. \/ Ends("worker")
        \/ \E pc, m, copy, calls :
              Begins("worker", pc, m, copy, calls) /\ pc \notin {"pause", "refused"}
    BY <1>5 DEF WorkerGoesOn, PauseFormationEnds, RejoinStopsEnd, RejoinEnds, FollowStarted,
       FollowRefused, FollowRefusedEnds, StartEnds, PauseEnds, Work, Begins, Done, Ends
  <2> QED BY <1>1, <1>2, <2>1
<1>6. CASE TickBegins \/ ProtectivePauseEnds \/ TickAdvances \/ TickFollowLost
  <2>1. ToTick => Begins("ticker", "tick", None, Draft, <<>>)
    BY DEF ToTick, Begins
  <2>2. ASSUME NEW isLost \in BOOLEAN, ProtectivePause(isLost)
        PROVE  \E pc, m, copy, calls :
                  Begins("ticker", pc, m, copy, calls) /\ pc \notin {"pause", "refused"}
    <3>1. CASE ToTick
      BY <2>1, <3>1
    <3>2. CASE ~ ToTick
      <4>1. \E pc \in {"guard_lost", "guard"} : Begins("ticker", pc, None, Draft, StopBoth)
        BY <2>2, <3>2 DEF ProtectivePause, Begins
      <4> QED BY <4>1
    <3> QED BY <3>1, <3>2
  <2>3. CASE TickBegins \/ ProtectivePauseEnds
    BY <1>1, <2>1, <2>2, <2>3 DEF TickBegins, ProtectivePauseEnds
  <2>4. CASE TickAdvances \/ TickFollowLost
    <3>1. \E pc, m, copy, calls :
             Begins("ticker", pc, m, copy, calls) /\ pc \notin {"pause", "refused"}
      BY <2>4 DEF TickAdvances, TickFollowLost, Begins
    <3> QED BY <1>1, <3>1
  <2> QED BY <1>6, <2>3, <2>4
<1>7. CASE TickSucceeds \/ TickSettleTimeout \/ TickStopSeen \/ TickElse \/ AdvanceEnds
            \/ LostStopsEnd
  BY <1>2, <1>7 DEF TickSucceeds, TickSettleTimeout, TickStopSeen, TickElse, AdvanceEnds,
     LostStopsEnd, TickReturns, Ends
<1>8. CASE Restart
  BY <1>8 DEF Restart, Idle
<1> QED BY <1>3, <1>4, <1>5, <1>6, <1>7, <1>8, TaskMoves DEF WorkerGoesOn

(* An idle worker stays idle until it takes a command.                     *)
LEMMA OneCommandStep ==
    ASSUME TypeInv, Patient, OneCommand, [Next]_vars
    PROVE  OneCommand'
<1> USE DEF Tasks, TypeInv
<1>1. ASSUME task["worker"].pc = "idle", lane # <<>>, lane' = lane
      PROVE  task'["worker"].pc = "idle"
  <2>1. task["worker"].calls = <<>>
    <3>1. ~ FitsMission(task["worker"].pc, task["worker"].copy.state, task["worker"].calls)
      BY <1>1 DEF FitsMission
    <3> QED BY <1>1, <3>1, TaskOf DEF Fits, FitsNone
  <2>2. ~ Execute
    <3>1. ASSUME NEW op, Take(op) PROVE FALSE
      BY <1>1, <3>1 DEF Take, OneCommand
    <3> QED BY <3>1 DEF Execute, ExecutePair, ExecuteValidate, ExecuteCancelEarly,
             ExecutePauseFormation, ExecuteRejoin, ExecuteStart, ExecutePauseOrCancel
  <2>3. ~ WorkerGoesOn /\ ~ Call("worker") /\ ~ NavigateRefused("worker")
        /\ ~ NavigateRefusedEnds("worker")
    BY <1>1, <2>1 DEF WorkerGoesOn, PauseFormationEnds, RejoinStopsEnd, RejoinEnds, FollowStarted,
       FollowRefused, FollowRefusedEnds, StartEnds, PauseEnds, WorkerAt, GoesOn, Call,
       NavigateRefused, NavigateRefusedEnds
  <2>4. ~ Restart
    BY <1>1 DEF Restart
  <2>5. \/ \E left, ok : task' = [task EXCEPT !["ticker"].calls = left, !["ticker"].ok = ok]
        \/ \E b : task' = [task EXCEPT !["ticker"] = b]
        \/ task' = task
    <3>1. Call("ticker") =>
             \E left, ok : task' = [task EXCEPT !["ticker"].calls = left, !["ticker"].ok = ok]
      BY DEF Call
    <3>2. NavigateRefused("ticker") \/ NavigateRefusedEnds("ticker") \/ TickAdvances
            \/ TickFollowLost \/ ProtectivePauseEnds \/ TickSucceeds \/ TickSettleTimeout
            \/ TickStopSeen \/ TickElse \/ AdvanceEnds \/ LostStopsEnd
              => \E b : task' = [task EXCEPT !["ticker"] = b]
      BY DEF NavigateRefused, NavigateRefusedEnds, TickAdvances, TickFollowLost,
         ProtectivePauseEnds, TickSucceeds, TickSettleTimeout, TickStopSeen, TickElse, AdvanceEnds,
         LostStopsEnd, TickReturns, ToTick
    <3>3. TickBegins => \E b : task' = [task EXCEPT !["ticker"] = b]
      BY DEF TickBegins, ProtectivePause, ToTick
    <3> QED BY <2>2, <2>3, <2>4, <3>1, <3>2, <3>3, TaskMoves
  <2> QED BY <1>1, <2>5 DEF TaskInv, TaskTypes
<1> QED BY <1>1, OneCommandMoves DEF OneCommand

(* The robots change by calls and on their own.                            *)
LEMMA RobotMoves ==
    [Next]_vars =>
         \/ \E t \in Tasks : Call(t)
         \/ MasterArrives
         \/ \E r \in Robots : RobotLatches(r) \/ RobotReleased(r)
         \/ UNCHANGED <<drive, latched>>
BY DEF Next, Handlers, CreateMission, EditMission, FormationAction, MissionAction, Execute,
       ExecutePair, ExecutePauseFormation, ExecuteRejoin, ExecuteValidate, ExecuteStart,
       ExecuteCancelEarly, ExecutePauseOrCancel, WorkerGoesOn, PauseFormationEnds, RejoinStopsEnd,
       RejoinEnds, FollowStarted, FollowRefused, FollowRefusedEnds, StartEnds, PauseEnds,
       NavigateRefused, NavigateRefusedEnds, TickBegins, TickerGoesOn, ProtectivePauseEnds, Tick0,
       TickAdvances, TickSucceeds, TickSettleTimeout, TickFollowLost, TickStopSeen, TickElse,
       AdvanceEnds, LostStopsEnd, Environment, Observe, LostChanges, Clock, Restart, vars

LEMMA EnvironmentRobots ==
    ASSUME MasterArrives \/ \E r \in Robots : RobotLatches(r) \/ RobotReleased(r)
    PROVE  /\ drive' \in {None, drive}
           /\ UNCHANGED <<task, mission, lane, active>>
           /\ task["worker"].pc = "idle" \/ latched \subseteq latched'
           /\ LatchInv => LatchInv'
BY DEF MasterArrives, RobotLatches, RobotReleased, Robots, LatchInv

(* What a call does to the robots when none fails.                         *)
LEMMA CallRobots ==
    ASSUME TaskInv, ~ CallsMayFail, NEW t \in Tasks, Call(t)
    PROVE  LET c == Head(task[t].calls) IN
           /\ latched \subseteq latched' /\ latched' \subseteq latched \cup {c.robot}
           /\ c.op = "stop" => c.robot \in latched'
           /\ c.op = "stop" /\ c.robot = "master" => drive' = None
           /\ c.op # "navigate" => drive' \in {None, drive}
           /\ c.op = "navigate" => drive' = drive \/ (drive' = task[t].m /\ "master" \notin latched)
           /\ c.op # "stop" => latched' = latched
           /\ drive' # drive => c.robot = "master" \/ c.op = "navigate"
<1> DEFINE c == Head(task[t].calls)
<1>1. CASE Refusable(c.op) /\ UNCHANGED <<latched, drive>>
  BY <1>1 DEF Refusable
<1>2. CASE MayAccept(c.op) /\ Executed(c, task[t].m)
  BY <1>2 DEF MayAccept, Executed
<1> QED BY <1>1, <1>2, CallFacts

LEMMA LatchStep ==
    ASSUME TypeInv, ~ CallsMayFail, LatchInv, [Next]_vars
    PROVE  LatchInv'
<1>1. ASSUME NEW t \in Tasks, Call(t) PROVE LatchInv'
  <2> DEFINE c == Head(task[t].calls)
  <2>1. CASE c.op = "navigate"
    BY <1>1, <2>1, CallRobots DEF LatchInv, TypeInv
  <2>2. CASE c.op = "stop"
    BY <1>1, <2>2, CallRobots DEF LatchInv, TypeInv
  <2>3. CASE c.op \notin {"navigate", "stop"}
    BY <1>1, <2>3, CallRobots DEF LatchInv, TypeInv
  <2> QED BY <2>1, <2>2, <2>3
<1>2. UNCHANGED <<drive, latched>> => LatchInv'
  BY DEF LatchInv
<1> QED BY <1>1, <1>2, RobotMoves, EnvironmentRobots

(* A pause or a cancel has stopped the master before it ends.              *)
LEMMA PauseStopsStep ==
    ASSUME TypeInv, ~ CallsMayFail, PauseStops, [Next]_vars
    PROVE  PauseStops'
<1> SUFFICES ASSUME task'["worker"].pc = "pause", task'["worker"].calls \in {StopSlave, <<>>}
             PROVE  "master" \in latched'
  BY DEF PauseStops
<1> USE DEF Tasks, TypeInv
<1>1. CASE Call("worker")
  <2>1. /\ task["worker"].pc = "pause" /\ task'["worker"].calls = Tail(task["worker"].calls)
        /\ task["worker"].calls # <<>>
    BY <1>1, CallFacts DEF Call
  <2>2. task["worker"].calls \in {CancelStop, StopBoth, StopSlave}
    BY <2>1, TaskIs DEF FitsMission, Stops
  <2>3. task["worker"].calls # CancelStop
    BY <2>1, Tails, Apart
  <2>4. CASE task["worker"].calls = StopBoth
    BY <1>1, <2>4, CallRobots, Heads
  <2>5. CASE task["worker"].calls = StopSlave
    BY <1>1, <2>1, <2>5, CallRobots DEF PauseStops
  <2> QED BY <2>2, <2>3, <2>4, <2>5
<1>2. CASE ~ Call("worker")
  <2>1. task'["worker"] = task["worker"]
    BY <1>2, TaskNext, Apart
  <2>2. "master" \in latched /\ task["worker"].pc # "idle"
    BY <2>1 DEF PauseStops
  <2>3. Call("ticker") => latched \subseteq latched'
    BY CallRobots
  <2> QED BY <1>2, <2>2, <2>3, RobotMoves, EnvironmentRobots
<1> QED BY <1>1, <1>2

(* A refused mission's stops leave the master no goal of it.               *)
LEMMA RefusedStopsStep ==
    ASSUME TypeInv, ~ CallsMayFail, RefusedStops, \A m \in Missions : StateInv(m), [Next]_vars
    PROVE  RefusedStops'
<1> SUFFICES ASSUME NEW t \in Tasks, task'[t].pc = "refused", task'[t].calls # StopBoth
             PROVE  drive' # task'[t].m
  BY DEF RefusedStops
<1> USE DEF TypeInv
<1>1. CASE Call(t)
  <2>1. /\ task[t].pc = "refused" /\ task'[t].m = task[t].m /\ task[t].calls # <<>>
    BY <1>1, CallFacts DEF Call
  <2>2. task[t].calls \in {StopBoth, StopSlave} /\ task[t].m \in Missions
    BY <2>1, TaskIs DEF FitsMission, Stops
  <2>3. CASE task[t].calls = StopBoth
    BY <1>1, <2>1, <2>2, <2>3, CallRobots, Heads, Params
  <2>4. CASE task[t].calls = StopSlave
    <3>1. drive # task[t].m
      BY <2>1, <2>4, Apart DEF RefusedStops
    <3>2. drive' = drive
      BY <1>1, <2>4, CallRobots, Heads
    <3> QED BY <2>1, <3>1, <3>2
  <2> QED BY <2>2, <2>3, <2>4
<1>2. CASE ~ Call(t)
  <2>1. task'[t] = task[t]
    BY <1>2, TaskNext
  <2>2. drive # task[t].m /\ task[t].m \in Missions
    BY <2>1, TaskIs DEF RefusedStops
  <2>3. drive' \in {None, drive} => drive' # task'[t].m
    BY <2>1, <2>2, Params
  <2>4. ASSUME NEW u \in Tasks, u # t, Call(u) PROVE drive' # task'[t].m
    <3>1. CASE drive' \in {None, drive}
      BY <2>3, <3>1
    <3>2. CASE drive' \notin {None, drive}
      <4>1. Head(task[u].calls).op = "navigate" /\ drive' = task[u].m
        BY <2>4, <3>2, CallRobots
      <4>2. task[u].calls # <<>>
        BY <2>4 DEF Call
      <4>3. task[u].pc \in {"navigate", "advance"} /\ task[u].pc \in PcsOf(u)
        <5>1. /\ Fits(task[u].pc, task[u].m, task[u].copy, task[u].calls)
              /\ task[u].pc \in PcsOf(u)
          BY TaskOf
        <5> DEFINE pc == task[u].pc
                   copy == task[u].copy
                   calls == task[u].calls
                   n == task[u].m
        <5>2. Fits(pc, n, copy, calls) /\ calls # <<>> /\ Head(calls).op = "navigate"
          BY <4>1, <4>2, <5>1
        <5> HIDE DEF pc, copy, calls, n
        <5>3. pc \in {"navigate", "advance"}
          BY <5>2, CallsShrink
        <5> QED BY <5>1, <5>3 DEF pc
      <4>4. task[t].pc = "refused"
        BY <2>1
      <4>5. task[u].m # task[t].m
        BY <2>2, <2>4, <4>3, <4>4
           DEF StateInv, Starting, Advancing, Tasks, PcsOf, WorkerPcs, TickerPcs
      <4> QED BY <2>1, <4>1, <4>5
    <3> QED BY <3>1, <3>2
  <2> QED BY <1>2, <2>3, <2>4, RobotMoves, EnvironmentRobots
<1> QED BY <1>1, <1>2

(* A mission none of whose facts changes for the worse.                    *)
LEMMA StateKept ==
    ASSUME NEW m \in Missions, StateInv(m), m # None,
           mission'[m].state = mission[m].state,
           active' \in {active, None} \/ active' # m,
           drive' \in {drive, None} \/ drive' # m,
           \A t \in Tasks : task'[t].m = m => task[t].m = m,
           Starting(m)' => Starting(m),
           Advancing(m)' => Advancing(m),
           Advancing(m) /\ drive = m /\ mission[m].state = "CANCELING" => Advancing(m)',
           lane' \in {lane, <<>>}
    PROVE  StateInv(m)'
<1>1. \A op : InLane(op, m)' => InLane(op, m)
  BY DEF InLane
<1>2. active' = m => active = m
  OBVIOUS
<1>3. drive' = m => drive = m
  OBVIOUS
<1> HIDE DEF Starting, Advancing, InLane
<1> QED BY <1>1, <1>2, <1>3 DEF StateInv

LEMMA StateOther ==
    ASSUME TypeInv, NEW m \in Missions, StateInv(m),
           Environment \/ Clock \/ Restart \/ UNCHANGED vars
    PROVE  StateInv(m)'
<1>1. m # None
  BY Params
<1>2. CASE Environment \/ Clock \/ UNCHANGED vars
  <2>1. UNCHANGED <<mission, active, lane, task>> /\ drive' \in {drive, None}
    BY <1>2 DEF Environment, MasterArrives, RobotLatches, RobotReleased, Observe, LostChanges,
       Clock, vars
  <2>2. Starting(m)' <=> Starting(m)
    BY <2>1 DEF Starting, InLane
  <2>3. Advancing(m)' <=> Advancing(m)
    BY <2>1 DEF Advancing
  <2> QED BY <1>1, <2>1, <2>2, <2>3, StateKept
<1>3. CASE Restart
  <2>1. lane' = <<>> /\ active' = None /\ drive' = drive
    BY <1>3 DEF Restart
  <2>2. task' = [t \in Tasks |-> Idle] /\ Idle.m = None
    BY <1>3 DEF Restart, Idle
  <2>3. \A t \in Tasks : task'[t].m # m
    BY <1>1, <2>2
  <2>4. ~ Starting(m)' /\ ~ Advancing(m)'
    BY <2>1, <2>3 DEF Starting, Advancing, InLane, Tasks
  <2>5. mission'[m].state = IF mission[m].state \in InFlight THEN "PAUSED" ELSE mission[m].state
    BY <1>3, Restated, InStates DEF Restart, TypeInv, MissionTypes
  <2> HIDE DEF Starting, Advancing
  <2> QED BY <1>1, <2>1, <2>3, <2>4, <2>5 DEF StateInv, InFlight, InLane
<1> QED BY <1>2, <1>3

LEMMA StateCall ==
    ASSUME TypeInv, ~ CallsMayFail, NEW m \in Missions, StateInv(m), NEW t \in Tasks, Call(t)
    PROVE  StateInv(m)'
<1>1. m # None /\ task[t].calls # <<>>
  BY Params DEF Call
<1>2. /\ \A u \in Tasks : task'[u].pc = task[u].pc /\ task'[u].m = task[u].m
      /\ UNCHANGED <<mission, lane, active>>
  BY CallFacts DEF TypeInv
<1>3. Starting(m)' <=> Starting(m)
  BY <1>2 DEF Starting, InLane, Tasks
<1>4. Advancing(m)' <=> Advancing(m)
  BY <1>2 DEF Advancing, Tasks
<1>5. CASE drive' # m \/ drive' \in {drive, None}
  BY <1>1, <1>2, <1>3, <1>4, <1>5, StateKept
<1>6. CASE drive' = m /\ drive' \notin {drive, None}
  <2> DEFINE pc == task[t].pc
             copy == task[t].copy
             calls == task[t].calls
             n == task[t].m
  <2>1. Fits(pc, n, copy, calls) /\ pc \in PcsOf(t)
    BY TaskOf DEF TypeInv
  <2>2. Head(calls).op = "navigate" /\ n = m
    BY <1>6, CallRobots DEF TypeInv
  <2> HIDE DEF pc, copy, calls, n
  <2>3. pc \in {"navigate", "advance"}
    <3>1. calls # <<>>
      BY <1>1 DEF calls
    <3> QED BY <2>1, <2>2, <3>1, CallsShrink
  <2>4. Starting(m) \/ Advancing(m)
    BY <2>1, <2>2, <2>3 DEF pc, n, PcsOf, WorkerPcs, TickerPcs, Tasks, Starting, Advancing
  <2>5. mission[m].state \in {"STARTING", "PAUSING", "PAUSED", "RUNNING", "CANCELING"}
        /\ (mission[m].state = "CANCELING" => Advancing(m))
    BY <2>4 DEF StateInv
  <2>6. \A op : InLane(op, m)' <=> InLane(op, m)
    BY <1>2 DEF InLane
  <2> HIDE DEF Starting, Advancing, InLane
  <2> QED BY <1>2, <1>3, <1>4, <2>5, <2>6 DEF StateInv
<1> QED BY <1>5, <1>6

LEMMA StateHandlers ==
    ASSUME TypeInv, Patient, OneCommand, NEW m \in Missions, StateInv(m), Handlers
    PROVE  StateInv(m)'
<1>1. m # None /\ UNCHANGED <<task, active, drive>>
  BY Params DEF Handlers, CreateMission, EditMission, FormationAction, MissionAction
<1>2. Advancing(m)' <=> Advancing(m)
  BY <1>1 DEF Advancing
<1>3. CASE \E op \in FormationOps : FormationAction(op)
  <2>1. /\ UNCHANGED mission /\ lane' # <<>> /\ Head(lane').m = None
    <3>1. PICK op \in FormationOps : FormationAction(op)
      BY <1>3
    <3>2. lane = <<>> /\ lane' = Append(lane, [op |-> op, m |-> None]) /\ UNCHANGED mission
      BY <3>1 DEF FormationAction, Submit
    <3>3. Head(lane') = [op |-> op, m |-> None] /\ lane' # <<>>
      BY <3>2, AppendOne
    <3> QED BY <3>2, <3>3
  <2>2. \A op : ~ InLane(op, m)'
    BY <1>1, <2>1 DEF InLane
  <2>3. Starting(m)' => Starting(m)
    BY <1>1, <2>2 DEF Starting
  <2> HIDE DEF Starting, Advancing, InLane
  <2> QED BY <1>1, <1>2, <2>1, <2>2, <2>3 DEF StateInv
<1>4. ASSUME NEW n \in Missions, CreateMission(n) \/ EditMission(n) PROVE StateInv(m)'
  <2>1. lane' = lane /\ mission[n].state \in {"none", "READY"}
    BY <1>4 DEF CreateMission, EditMission
  <2>2. mission'[n].state = "DRAFT" /\ (m # n => mission'[m] = mission[m])
    <3>1. mission' = [mission EXCEPT ![n] = Draft] \/ mission' = [mission EXCEPT ![n].state = "DRAFT"]
      BY <1>4 DEF CreateMission, EditMission
    <3>2. Marks(n, "DRAFT") \/ Puts(n, Draft)
      BY <3>1, Marked, Put, DraftType, InStates DEF TypeInv
    <3>3. Draft.state = "DRAFT" /\ [mission[n] EXCEPT !.state = "DRAFT"].state = "DRAFT"
      BY Restated, InStates DEF Draft, TypeInv, MissionTypes
    <3> QED BY <3>2, <3>3 DEF Marks, Puts
  <2>3. \A op : InLane(op, m)' <=> InLane(op, m)
    BY <2>1 DEF InLane
  <2>4. Starting(m)' <=> Starting(m)
    BY <1>1, <2>3 DEF Starting
  <2> HIDE DEF Starting, Advancing, InLane
  <2>5. CASE m = n
    BY <1>1, <1>2, <2>1, <2>2, <2>3, <2>4, <2>5 DEF StateInv
  <2>6. CASE m # n
    BY <1>1, <1>2, <2>1, <2>2, <2>3, <2>4, <2>6 DEF StateInv
  <2> QED BY <2>5, <2>6
<1>5. ASSUME NEW op \in MissionOps, NEW n \in Missions, MissionAction(op, n) PROVE StateInv(m)'
  <2>1. /\ lane = <<>> /\ lane' = Append(lane, [op |-> op, m |-> n])
        /\ mission[n].state \in ValidIn(op) /\ task["worker"].pc = "idle"
        /\ Claim(op, n)
    BY <1>5 DEF MissionAction, Submit
  <2>2. Head(lane') = [op |-> op, m |-> n] /\ lane' # <<>>
    BY <2>1, AppendOne
  <2>3. \A o : InLane(o, m)' <=> o = op /\ m = n
    BY <2>2 DEF InLane
  <2>4. Starting(m)' <=> op = "start" /\ m = n
    BY <1>1, <2>1, <2>3 DEF Starting
  <2>5. /\ m # n \/ op # "start" => mission'[m].state = mission[m].state
        /\ op = "start" => mission'[n].state = "STARTING"
    BY <2>1, Restated, InStates DEF Claim, TypeInv, MissionTypes
  <2> HIDE DEF Starting, Advancing, InLane
  <2>6. CASE m # n
    BY <1>1, <1>2, <2>3, <2>4, <2>5, <2>6 DEF StateInv
  <2>7. CASE m = n /\ op = "start"
    <3>1. mission[m].state \in {"READY", "PAUSED"} /\ mission'[m].state = "STARTING"
      BY <2>1, <2>5, <2>7 DEF ValidIn
    <3> QED BY <1>1, <1>2, <2>3, <2>4, <2>7, <3>1 DEF StateInv
  <2>8. CASE m = n /\ op # "start"
    <3>1. /\ mission'[m].state = mission[m].state
          /\ op = "validate" => mission[m].state = "DRAFT"
          /\ op = "cancel" => mission[m].state # "none"
          /\ op = "pause" => mission[m].state = "RUNNING"
      BY <2>1, <2>5, <2>8 DEF ValidIn
    <3> QED BY <1>1, <1>2, <2>3, <2>4, <2>8, <3>1 DEF StateInv
  <2> QED BY <2>6, <2>7, <2>8
<1> QED BY <1>3, <1>4, <1>5 DEF Handlers

LEMMA MarkedState ==
    ASSUME TypeInv, NEW n \in Missions, NEW s \in MissionStates, SetsState(n, s)
    PROVE  mission'[n].state = s /\ \A m \in Missions : m # n => mission'[m] = mission[m]
<1>1. Marks(n, s)
  BY Marked DEF SetsState, TypeInv
<1>2. [mission[n] EXCEPT !.state = s].state = s
  BY Restated DEF TypeInv, MissionTypes
<1> QED BY <1>1, <1>2 DEF Marks

LEMMA PutState ==
    ASSUME TypeInv, NEW n \in Missions, NEW p \in Payloads, mission' = [mission EXCEPT ![n] = p]
    PROVE  mission'[n].state = p.state /\ \A m \in Missions : m # n => mission'[m] = mission[m]
BY Put DEF Puts, TypeInv

(* What the worker does with a mission it takes from the lane.             *)
LEMMA StateExecute ==
    ASSUME TypeInv, OneCommand, NEW m \in Missions, StateInv(m), Execute
    PROVE  StateInv(m)'
<1>1. PICK op : Take(op)
  BY DEF Execute, ExecutePair, ExecuteValidate, ExecuteCancelEarly, ExecutePauseFormation,
     ExecuteRejoin, ExecuteStart, ExecutePauseOrCancel
<1>2. /\ m # None /\ UNCHANGED <<active, drive>>
      /\ lane # <<>> /\ lane' = <<>> /\ task["worker"].pc = "idle"
  BY <1>1, Params DEF Take, OneCommand, Execute, ExecutePair, ExecuteValidate, ExecuteCancelEarly,
     ExecutePauseFormation, ExecuteRejoin, ExecuteStart, ExecutePauseOrCancel
<1>3. \A o : ~ InLane(o, m)'
  BY <1>2 DEF InLane
<1>4. ASSUME task' = task \/ \E pc, calls : Begins("worker", pc, None, Draft, calls),
             mission'[m].state = mission[m].state
      PROVE  StateInv(m)'
  <2>1. /\ task'["ticker"] = task["ticker"]
        /\ task'["worker"] = task["worker"] \/ task'["worker"].m = None
    BY <1>4, TaskFacts DEF TypeInv, Tasks
  <2>2. ~ Starting(m)' /\ (Advancing(m)' <=> Advancing(m))
        /\ \A t \in Tasks : task'[t].m = m => task[t].m = m
    BY <1>2, <1>3, <2>1 DEF Starting, Advancing, Tasks
  <2> HIDE DEF Starting, Advancing, InLane
  <2> QED BY <1>2, <1>4, <2>2, StateKept
<1>5. CASE ExecutePair \/ ExecutePauseFormation \/ ExecuteRejoin
  BY <1>4, <1>5 DEF ExecutePair, ExecutePauseFormation, ExecuteRejoin, Work, Begins
<1>6. CASE ExecuteValidate \/ ExecuteCancelEarly
  <2>1. PICK n \in Missions, s \in MissionStates :
           /\ SetsState(n, s) /\ n = Head(lane).m
           /\ \/ ExecuteValidate /\ s = "READY"
              \/ ExecuteCancelEarly /\ s = "CANCELED"
    <3>1. ~ TickSucceeds /\ ~ TickSettleTimeout /\ ~ TickStopSeen
      BY <1>2 DEF TickSucceeds, TickSettleTimeout, TickStopSeen, Tick0
    <3> QED BY <1>6, <3>1, StateSetters DEF TypeInv
  <2>2. mission'[n].state = s /\ (m # n => mission'[m] = mission[m]) /\ task' = task
    BY <1>6, <2>1, MarkedState DEF ExecuteValidate, ExecuteCancelEarly
  <2>3. CASE m # n
    BY <1>4, <2>2, <2>3
  <2>4. CASE m = n
    <3>1. mission[m].state \in {"DRAFT", "READY"}
      <4>1. CASE ExecuteValidate
        BY <1>2, <2>1, <2>4, <4>1 DEF ExecuteValidate, Take, InLane, StateInv
      <4>2. CASE ExecuteCancelEarly
        BY <2>1, <2>4, <4>2 DEF ExecuteCancelEarly
      <4> QED BY <1>6, <4>1, <4>2
    <3>2. ~ Starting(m)' /\ (Advancing(m)' <=> Advancing(m))
      BY <1>2, <1>3, <2>2 DEF Starting, Advancing
    <3> HIDE DEF Starting, Advancing, InLane
    <3> QED BY <1>2, <1>3, <2>1, <2>2, <2>4, <3>1, <3>2 DEF StateInv
  <2> QED BY <2>3, <2>4
<1>7. CASE ExecuteStart \/ ExecutePauseOrCancel
  <2>1. PICK n \in Missions : n = Head(lane).m
    BY <1>7, LaneHead DEF ExecuteStart, ExecutePauseOrCancel, MissionOps, TypeInv
  <2>2. mission' = mission /\ \E pc, copy, calls : Begins("worker", pc, n, copy, calls)
    BY <1>7, <2>1 DEF ExecuteStart, ExecutePauseOrCancel, Work, Begins
  <2>3. task'["ticker"] = task["ticker"] /\ task'["worker"].m = n
    BY <2>2, TaskFacts DEF TypeInv, Tasks
  <2>4. Advancing(m)' <=> Advancing(m)
    BY <2>3 DEF Advancing
  <2>5. CASE m # n
    <3>1. ~ Starting(m)' /\ \A t \in Tasks : task'[t].m = m => task[t].m = m
      BY <1>3, <2>3, <2>5 DEF Starting, Tasks
    <3> HIDE DEF Starting, Advancing
    <3> QED BY <1>2, <2>2, <2>4, <3>1, StateKept
  <2>6. CASE m = n /\ ExecuteStart
    <3>1. Starting(m)
      BY <1>2, <2>1, <2>6 DEF Starting, InLane, ExecuteStart, Take
    <3>2. mission[m].state \in {"STARTING", "PAUSING", "PAUSED"} /\ ~ Advancing(m)
      BY <3>1 DEF StateInv
    <3> HIDE DEF Starting, Advancing, InLane
    <3> QED BY <1>3, <2>2, <2>4, <3>2, <1>2 DEF StateInv
  <2>7. CASE m = n /\ ExecutePauseOrCancel
    <3>1. mission[m].state \notin {"none", "DRAFT", "READY"}
      BY <1>2, <2>1, <2>7 DEF StateInv, InLane, ExecutePauseOrCancel, Take
    <3>2. ~ Starting(m)'
      <4>1. task'["worker"].pc = "pause"
        <5>1. \E copy, calls : Begins("worker", "pause", n, copy, calls)
          BY <2>1, <2>7 DEF ExecutePauseOrCancel, Work, Begins
        <5> QED BY <5>1, TaskFacts DEF TypeInv, Tasks
      <4> QED BY <1>3, <4>1 DEF Starting
    <3> HIDE DEF Starting, Advancing, InLane
    <3> QED BY <1>2, <1>3, <2>2, <2>4, <3>1, <3>2 DEF StateInv
  <2> QED BY <1>7, <2>5, <2>6, <2>7
<1> QED BY <1>5, <1>6, <1>7 DEF Execute

(* What the worker does when its calls are done.                           *)
LEMMA StateWorker ==
    ASSUME TypeInv, OneCommand, LatchInv, PauseStops, RefusedStops, NEW m \in Missions,
           StateInv(m), WorkerGoesOn
    PROVE  StateInv(m)'
<1> DEFINE n == task["worker"].m
<1>1. /\ m # None /\ UNCHANGED <<drive, lane>> /\ "worker" \in Tasks
      /\ task["worker"].pc # "idle" /\ task["worker"].calls = <<>>
  BY Params DEF WorkerGoesOn, PauseFormationEnds, RejoinStopsEnd, RejoinEnds, FollowStarted,
     FollowRefused, FollowRefusedEnds, StartEnds, PauseEnds, NavigateRefused, NavigateRefusedEnds,
     WorkerAt, GoesOn, Tasks
<1>2. lane = <<>> /\ \A op : ~ InLane(op, m)' /\ ~ InLane(op, m)
  BY <1>1 DEF InLane, OneCommand
<1>3. ASSUME NEW pc, NEW copy, NEW calls, NEW k,
             Begins("worker", pc, k, copy, calls) \/ Ends("worker")
      PROVE  /\ Advancing(m)' <=> Advancing(m)
             /\ \/ Begins("worker", pc, k, copy, calls)
                   /\ task'["worker"].pc = pc /\ task'["worker"].m = k
                \/ Ends("worker") /\ task'["worker"].pc = "idle" /\ task'["worker"].m = None
             /\ task'["ticker"] = task["ticker"]
  <2>1. CASE Begins("worker", pc, k, copy, calls)
    BY <2>1, TaskFacts DEF TypeInv, Tasks, Advancing
  <2>2. CASE Ends("worker")
    BY <2>2, EndFacts DEF TypeInv, Tasks, Advancing
  <2> QED BY <1>3, <2>1, <2>2
<1>4. CASE PauseFormationEnds \/ RejoinStopsEnd \/ RejoinEnds
  <2>1. mission' = mission /\ active' = active
    BY <1>4 DEF PauseFormationEnds, RejoinStopsEnd, RejoinEnds
  <2>2. Ends("worker") \/ Begins("worker", "rejoin", None, Draft, Rejoin)
    BY <1>4 DEF PauseFormationEnds, RejoinStopsEnd, RejoinEnds, Work, Done, Begins, Ends
  <2>3. /\ Advancing(m)' <=> Advancing(m)
        /\ task'["worker"].m = None /\ task'["ticker"] = task["ticker"]
    BY <1>3, <2>2
  <2>4. ~ Starting(m)' /\ \A t \in Tasks : task'[t].m = m => task[t].m = m
    BY <1>1, <1>2, <2>3 DEF Starting, Tasks
  <2> HIDE DEF Starting, Advancing
  <2> QED BY <1>1, <2>1, <2>3, <2>4, StateKept
<1>5. CASE FollowStarted \/ FollowRefused \/ NavigateRefused("worker")
  <2>1. PICK pc, copy, calls :
           /\ Begins("worker", pc, n, copy, calls)
           /\ pc \in {"navigate", "follow_refused", "refused"}
    BY <1>5 DEF FollowStarted, FollowRefused, NavigateRefused, Work, Begins
  <2>2. task["worker"].pc \in {"follow", "navigate"}
    <3>1. task["worker"].pc \in {"follow", "navigate", "advance"}
      BY <1>5 DEF FollowStarted, FollowRefused, NavigateRefused, WorkerAt
    <3>2. task["worker"].pc \in WorkerPcs
      BY TaskOf, <1>1 DEF TypeInv, PcsOf
    <3> QED BY <3>1, <3>2 DEF WorkerPcs
  <2>3. /\ Advancing(m)' <=> Advancing(m)
        /\ task'["worker"].pc = pc /\ task'["worker"].m = n /\ task'["ticker"] = task["ticker"]
    <3>1. ~ Ends("worker")
      BY <2>1, TaskFacts, EndFacts, <1>1 DEF TypeInv
    <3> QED BY <1>3, <2>1, <3>1
  <2>4. Starting(m)' => Starting(m)
    BY <1>2, <2>2, <2>3 DEF Starting
  <2>5. mission' = mission /\ active' \in {active, n}
    BY <1>5 DEF FollowStarted, FollowRefused, NavigateRefused
  <2>6. \A t \in Tasks : task'[t].m = m => task[t].m = m
    BY <2>3 DEF Tasks
  <2>7. CASE m # n
    <3> HIDE DEF Starting, Advancing
    <3> QED BY <1>1, <2>3, <2>4, <2>5, <2>6, <2>7, StateKept
  <2>8. CASE m = n
    <3>1. mission[m].state \in {"STARTING", "PAUSING", "PAUSED"}
      BY <2>2, <2>8 DEF Starting, StateInv
    <3> HIDE DEF Starting, Advancing, InLane
    <3> QED BY <1>1, <1>2, <2>3, <2>4, <2>5, <2>8, <3>1 DEF StateInv
  <2> QED BY <2>7, <2>8
<1>6. CASE FollowRefusedEnds \/ StartEnds \/ PauseEnds \/ NavigateRefusedEnds("worker")
  <2>1. /\ n \in Missions /\ task["worker"].copy \in Payloads
        /\ task["worker"].pc \in {"follow_refused", "navigate", "pause", "refused"}
        /\ FitsMission(task["worker"].pc, task["worker"].copy.state, task["worker"].calls)
    <3>1. task["worker"].pc \in {"follow_refused", "navigate", "pause", "refused"}
      BY <1>6 DEF FollowRefusedEnds, StartEnds, PauseEnds, NavigateRefusedEnds, WorkerAt
    <3> QED BY <1>1, <3>1, TaskIs, TaskOf DEF TypeInv
  <2>2. /\ mission' = [mission EXCEPT ![n] = task["worker"].copy]
        /\ Ends("worker") /\ active' \in {active, None}
    BY <1>6 DEF FollowRefusedEnds, StartEnds, PauseEnds, NavigateRefusedEnds, Store, Copy, Done,
       Ends
  <2>3. /\ Advancing(m)' <=> Advancing(m)
        /\ task'["worker"].pc = "idle" /\ task'["worker"].m = None
        /\ task'["ticker"] = task["ticker"]
    BY <1>1, <1>3, <2>2, EndFacts DEF TypeInv
  <2>4. ~ Starting(m)' /\ \A t \in Tasks : task'[t].m = m => task[t].m = m
    BY <1>1, <1>2, <2>3 DEF Starting, Tasks
  <2>5. mission'[n].state = task["worker"].copy.state /\ (m # n => mission'[m] = mission[m])
    BY <2>1, <2>2, PutState
  <2>6. CASE m # n
    <3> HIDE DEF Starting, Advancing
    <3> QED BY <1>1, <2>2, <2>3, <2>4, <2>5, <2>6, StateKept
  <2>7. CASE m = n /\ task["worker"].pc = "pause"
    <3>1. mission'[m].state \in {"PAUSING", "CANCELING"}
      BY <2>1, <2>5, <2>7 DEF FitsMission
    <3>2. mission[m].state \notin {"none", "DRAFT", "READY"}
      BY <1>1, <2>7 DEF StateInv
    <3>3. Advancing(m)' => mission[m].state \in {"RUNNING", "PAUSING", "CANCELING"}
      BY <2>3 DEF StateInv
    <3>4. drive' = None
      BY <1>1, <2>7 DEF PauseStops, LatchInv
    <3> HIDE DEF Starting, Advancing, InLane
    <3> QED BY <1>1, <1>2, <2>4, <3>1, <3>2, <3>3, <3>4 DEF StateInv
  <2>8. CASE m = n /\ task["worker"].pc \in {"follow_refused", "navigate", "refused"}
    <3>1. ~ Advancing(m)'
      BY <2>3, <2>8 DEF Starting, StateInv
    <3>2. /\ mission'[m].state \in {"PAUSED", "RUNNING", "FAILED"}
          /\ mission'[m].state = "FAILED" => task["worker"].pc = "refused"
      BY <2>1, <2>5, <2>8 DEF FitsMission
    <3>3. mission'[m].state = "FAILED" => drive' # m
      BY <1>1, <2>8, <3>2, Apart DEF RefusedStops
    <3> HIDE DEF Starting, Advancing, InLane
    <3> QED BY <1>2, <2>4, <3>1, <3>2, <3>3 DEF StateInv
  <2> QED BY <2>1, <2>6, <2>7, <2>8
<1> QED BY <1>4, <1>5, <1>6 DEF WorkerGoesOn

(* What the ticker does with the active mission.                           *)
LEMMA TickerFacts ==
    ASSUME TypeInv, TickBegins \/ TickerGoesOn
    PROVE  /\ UNCHANGED <<drive, lane>> /\ task'["worker"] = task["worker"]
           /\ ~ (task["ticker"].pc = "refused" \/ task["ticker"].pc = "advance")
                \/ AdvanceEnds \/ NavigateRefused("ticker") \/ NavigateRefusedEnds("ticker")
           /\ \/ Ends("ticker")
              \/ \E pc, k, copy, calls : Begins("ticker", pc, k, copy, calls)
<1>1. UNCHANGED <<drive, lane>>
  BY DEF TickBegins, TickerGoesOn, ProtectivePauseEnds, Tick0, TickAdvances, TickSucceeds,
     TickSettleTimeout, TickFollowLost, TickStopSeen, TickElse, AdvanceEnds, LostStopsEnd,
     NavigateRefused, NavigateRefusedEnds
<1>2. ~ (task["ticker"].pc = "refused" \/ task["ticker"].pc = "advance")
        \/ AdvanceEnds \/ NavigateRefused("ticker") \/ NavigateRefusedEnds("ticker")
  BY DEF TickBegins, TickerGoesOn, ProtectivePauseEnds, Tick0, TickAdvances, TickSucceeds,
     TickSettleTimeout, TickFollowLost, TickStopSeen, TickElse, LostStopsEnd, TickerAt
<1>3. \/ Ends("ticker")
      \/ \E pc, k, copy, calls : Begins("ticker", pc, k, copy, calls)
  <2>1. ToTick => \E pc, k, copy, calls : Begins("ticker", pc, k, copy, calls)
    BY DEF ToTick, Begins
  <2>2. CASE TickBegins
    BY <2>1, <2>2 DEF TickBegins, ProtectivePause, Begins
  <2>3. CASE TickAdvances \/ TickFollowLost \/ NavigateRefused("ticker")
    BY <2>3 DEF TickAdvances, TickFollowLost, NavigateRefused, Begins
  <2>4. CASE ProtectivePauseEnds
    BY <2>1, <2>4 DEF ProtectivePauseEnds
  <2>5. CASE TickSucceeds \/ TickSettleTimeout \/ TickStopSeen \/ TickElse \/ AdvanceEnds
               \/ LostStopsEnd \/ NavigateRefusedEnds("ticker")
    BY <2>5 DEF TickSucceeds, TickSettleTimeout, TickStopSeen, TickElse, AdvanceEnds,
       LostStopsEnd, NavigateRefusedEnds, TickReturns, Ends
  <2> QED BY <2>2, <2>3, <2>4, <2>5 DEF TickerGoesOn
<1>4. task'["worker"] = task["worker"]
  BY <1>3, TaskFacts, EndFacts DEF TypeInv, Tasks
<1> QED BY <1>1, <1>2, <1>3, <1>4

LEMMA StateTicker ==
    ASSUME TypeInv, OneCommand, RefusedStops, NEW m \in Missions, StateInv(m),
           TickBegins \/ TickerGoesOn
    PROVE  StateInv(m)'
<1> USE InStates
<1>1. /\ m # None /\ UNCHANGED <<drive, lane>> /\ task'["worker"] = task["worker"]
      /\ "ticker" \in Tasks /\ TaskInv /\ ModeInv /\ LaneInv /\ MissionTypes
      /\ \A t \in Tasks : t \in {"worker", "ticker"}
  BY Params, TickerFacts DEF Tasks, TypeInv
<1>2. \A op : InLane(op, m)' <=> InLane(op, m)
  BY <1>1 DEF InLane
<1>3. Starting(m)' <=> Starting(m)
  BY <1>1, <1>2 DEF Starting
<1>4. Ends("ticker") => ~ Advancing(m)' /\ task'["ticker"].m = None
  BY <1>1, EndFacts DEF Advancing
<1>5. ASSUME NEW pc, NEW k, NEW copy, NEW calls, Begins("ticker", pc, k, copy, calls)
      PROVE  /\ task'["ticker"].m = k
             /\ Advancing(m)' <=> m = k /\ pc \in {"advance", "refused"}
  <2>1. task'["ticker"].m = k /\ task'["ticker"].pc = pc
    BY <1>1, <1>5, TaskFacts
  <2> QED BY <2>1 DEF Advancing
<1>6. ASSUME Ends("ticker") \/ (\E pc, copy, calls : Begins("ticker", pc, None, copy, calls)),
             ~ Advancing(m) \/ m # task["ticker"].m, active' \in {active, None},
             \/ mission'[m].state = mission[m].state
             \/ /\ mission'[m].state = "PAUSING" /\ active = m
             \/ /\ mission'[m].state \in {"PAUSED", "SUCCEEDED"}
                /\ mission[m].state \notin {"none", "DRAFT", "READY"}
                /\ Starting(m) => mission'[m].state = "PAUSED"
             \/ mission'[m].state = "CANCELED" /\ mission[m].state = "CANCELING"
      PROVE  StateInv(m)'
  <2>1. ~ Advancing(m)' /\ task'["ticker"].m = None /\ ~ Advancing(m)
    <3>1. ~ Advancing(m)
      BY <1>6 DEF Advancing
    <3> QED BY <1>1, <1>4, <1>5, <1>6, <3>1
  <2>2. \A t \in Tasks : task'[t].m = m => task[t].m = m
    BY <1>1, <2>1
  <2> HIDE DEF Starting, Advancing, InLane
  <2>3. CASE mission'[m].state = mission[m].state
    BY <1>1, <1>3, <1>6, <2>1, <2>2, <2>3, StateKept
  <2>4. CASE mission'[m].state = "PAUSING" /\ active = m
    BY <1>1, <1>2, <1>3, <2>1, <2>2, <2>4 DEF StateInv
  <2>5. CASE /\ mission'[m].state \in {"PAUSED", "SUCCEEDED"}
             /\ mission[m].state \notin {"none", "DRAFT", "READY"}
             /\ Starting(m) => mission'[m].state = "PAUSED"
    BY <1>1, <1>2, <1>3, <2>1, <2>2, <2>5 DEF StateInv
  <2>6. CASE mission'[m].state = "CANCELED" /\ mission[m].state = "CANCELING"
    BY <1>1, <1>2, <1>3, <2>1, <2>2, <2>6 DEF StateInv
  <2> QED BY <1>6, <2>3, <2>4, <2>5, <2>6
<1>7. CASE ProtectivePauseEnds \/ TickElse
  <2>1. task["ticker"].pc \notin {"advance", "refused"} /\ UNCHANGED <<mission, active>>
    BY <1>7 DEF ProtectivePauseEnds, TickElse, Tick0, TickerAt
  <2>2. Ends("ticker") \/ Begins("ticker", "tick", None, Draft, <<>>)
    BY <1>7 DEF ProtectivePauseEnds, TickElse, TickReturns, Ends, ToTick, Begins
  <2> QED BY <1>6, <2>1, <2>2 DEF Advancing
<1>8. CASE TickBegins
  <2>1. task["ticker"].pc \notin {"advance", "refused"} /\ active' = active
    BY <1>8 DEF TickBegins
  <2>2. ToTick => Begins("ticker", "tick", None, Draft, <<>>)
    BY DEF ToTick, Begins
  <2>3. ASSUME NEW isLost \in BOOLEAN, ProtectivePause(isLost)
        PROVE  /\ \E pc, copy, calls : Begins("ticker", pc, None, copy, calls)
               /\ \/ mission'[m].state = mission[m].state
                  \/ mission'[m].state = "PAUSING" /\ active = m
    <3>1. CASE ToTick /\ UNCHANGED mission
      BY <2>2, <3>1
    <3>2. CASE ~ (ToTick /\ UNCHANGED mission)
      <4>1. /\ mission' = [k \in Missions |->
                  IF k = active /\ mission[k].state \in {"RUNNING", "STARTING"}
                  THEN [mission[k] EXCEPT !.state = "PAUSING"] ELSE mission[k]]
            /\ \E pc \in {"guard_lost", "guard"} : Begins("ticker", pc, None, Draft, StopBoth)
        BY <2>3, <3>2 DEF ProtectivePause, Begins
      <4>2. [mission[m] EXCEPT !.state = "PAUSING"].state = "PAUSING"
        BY <1>1, Restated DEF MissionTypes
      <4> QED BY <4>1, <4>2
    <3> QED BY <3>1, <3>2
  <2>4. CASE ToTick /\ UNCHANGED mission
    BY <1>6, <2>1, <2>2, <2>4 DEF Advancing
  <2>5. ASSUME NEW isLost \in BOOLEAN, ProtectivePause(isLost) PROVE StateInv(m)'
    BY <1>6, <2>1, <2>3, <2>5 DEF Advancing
  <2> QED BY <1>8, <2>4, <2>5 DEF TickBegins
<1>9. CASE TickSucceeds \/ TickSettleTimeout \/ TickStopSeen
  <2>1. task["ticker"].pc \notin {"advance", "refused"} /\ active' \in {active, None}
        /\ Ends("ticker")
    BY <1>9 DEF TickSucceeds, TickSettleTimeout, TickStopSeen, Tick0, TickerAt, TickReturns, Ends
  <2>2. PICK n \in Missions, s \in MissionStates :
           /\ SetsState(n, s) /\ n = active
           /\ \/ TickSucceeds /\ s = "SUCCEEDED"
              \/ TickSettleTimeout /\ s = "PAUSED"
              \/ TickStopSeen /\ s \in {"CANCELED", "PAUSED"}
                   /\ (s = "CANCELED" <=> mission[n].state = "CANCELING")
    <3>1. ~ ExecuteValidate /\ ~ ExecuteCancelEarly
      <4>1. task' # task
        BY <1>9, <2>1, <1>1, EndFacts DEF TickSucceeds, TickSettleTimeout, TickStopSeen, Tick0,
           TickerAt
      <4> QED BY <4>1 DEF ExecuteValidate, ExecuteCancelEarly
    <3> QED BY <1>1, <1>9, <3>1, StateSetters
  <2>3. mission'[n].state = s /\ (m # n => mission'[m] = mission[m])
    BY <2>2, MarkedState
  <2>4. mission[n].state \in {"RUNNING", "PAUSING", "CANCELING"}
        /\ (s = "SUCCEEDED" => mission[n].state = "RUNNING")
    <3>1. ActiveState = mission[n].state
      BY <2>2, Params DEF ActiveState
    <3> QED BY <2>2, <3>1 DEF TickSucceeds, TickSettleTimeout, TickStopSeen, Settled, Overdue,
             StopAwaited
  <2>5. CASE m # n
    BY <1>6, <2>1, <2>3, <2>5 DEF Advancing
  <2>6. CASE m = n
    <3>1. Starting(m) => mission[m].state # "RUNNING"
      BY DEF StateInv
    <3>2. ~ Advancing(m)
      BY <2>1 DEF Advancing
    <3> HIDE DEF Advancing, Starting
    <3> QED BY <1>6, <2>1, <2>2, <2>3, <2>4, <2>6, <3>1, <3>2
  <2> QED BY <2>5, <2>6
<1>10. CASE TickAdvances \/ TickFollowLost
  <2>1. PICK n \in Missions : n = active
    BY <1>1, <1>10 DEF TickAdvances, TickFollowLost, Settled, FollowIsLost, ActiveState, ModeInv
  <2>2. task["ticker"].pc = "tick" /\ UNCHANGED <<mission, active>>
    BY <1>10 DEF TickAdvances, TickFollowLost, Tick0, TickerAt
  <2>3. PICK pc, copy, calls :
           /\ Begins("ticker", pc, n, copy, calls)
           /\ (pc = "advance" /\ TickAdvances) \/ pc = "lost"
    BY <1>10, <2>1 DEF TickAdvances, TickFollowLost, Begins
  <2>4. /\ mission[n].state \in {"RUNNING", "STARTING"}
        /\ TickAdvances => mission[n].state = "RUNNING"
    <3>1. ActiveState = mission[n].state
      BY <2>1, Params DEF ActiveState
    <3> QED BY <1>10, <3>1 DEF TickAdvances, TickFollowLost, Settled, FollowIsLost
  <2>5. /\ ~ Advancing(m) /\ task'["ticker"].m = n
        /\ Advancing(m)' => m = n /\ TickAdvances
    BY <1>5, <2>2, <2>3 DEF Advancing
  <2>6. CASE m # n
    <3>1. \A t \in Tasks : task'[t].m = m => task[t].m = m
      BY <1>1, <2>5, <2>6
    <3> HIDE DEF Starting, Advancing
    <3> QED BY <1>1, <1>3, <2>2, <2>5, <2>6, <3>1, StateKept
  <2>7. CASE m = n
    <3> HIDE DEF Starting, Advancing, InLane
    <3> QED BY <1>1, <1>2, <1>3, <2>2, <2>4, <2>5, <2>7 DEF StateInv
  <2> QED BY <2>6, <2>7
<1>11. CASE LostStopsEnd
  <2>1. /\ task["ticker"].pc = "lost" /\ Ends("ticker") /\ active' = active
        /\ mission'[m].state = mission[m].state \/ (mission'[m].state = "PAUSING" /\ active = m)
    <3>1. mission'[m] = IF m = active THEN task["ticker"].copy ELSE mission[m]
      BY <1>1, <1>11, LostIs
    <3> QED BY <1>1, <1>11, <3>1, LostIs DEF Ends, LostStopsEnd
  <2> QED BY <1>6, <2>1 DEF Advancing
<1>12. CASE NavigateRefused("ticker")
  <2> DEFINE n == task["ticker"].m
  <2>1. /\ Begins("ticker", "refused", n, [task["ticker"].copy EXCEPT !.state = "FAILED"],
                  StopBoth)
        /\ UNCHANGED <<mission, active>> /\ task["ticker"].pc \in {"navigate", "advance"}
    BY <1>12 DEF NavigateRefused, Begins
  <2>2. task["ticker"].pc = "advance"
    BY <1>1, <2>1, TaskOf DEF PcsOf, TickerPcs
  <2>3. (Advancing(m)' <=> Advancing(m)) /\ task'["ticker"].m = n
    BY <1>5, <2>1, <2>2 DEF Advancing
  <2>4. \A t \in Tasks : task'[t].m = m => task[t].m = m
    BY <1>1, <2>3
  <2> HIDE DEF Starting, Advancing
  <2> QED BY <1>1, <1>3, <2>1, <2>3, <2>4, StateKept
<1>13. CASE AdvanceEnds \/ NavigateRefusedEnds("ticker")
  <2> DEFINE n == task["ticker"].m
  <2>1. /\ Ends("ticker") /\ active' \in {active, None}
        /\ task["ticker"].pc \in {"advance", "refused"} /\ task["ticker"].calls = <<>>
        /\ mission' = [mission EXCEPT ![n] = task["ticker"].copy]
    BY <1>13 DEF AdvanceEnds, NavigateRefusedEnds, TickerAt, GoesOn, TickReturns, Ends, Store
  <2>2. n \in Missions /\ task["ticker"].copy \in Payloads
        /\ FitsMission(task["ticker"].pc, task["ticker"].copy.state, task["ticker"].calls)
    BY <1>1, <2>1, TaskIs, TaskOf
  <2>3. mission'[n].state = task["ticker"].copy.state /\ (m # n => mission'[m] = mission[m])
    BY <2>1, <2>2, PutState
  <2>4. CASE m # n
    BY <1>6, <2>1, <2>3, <2>4
  <2>5. CASE m = n
    <3>1. Advancing(m)
      BY <2>1, <2>5 DEF Advancing
    <3>2. ~ Starting(m) /\ mission[m].state \in {"RUNNING", "PAUSING", "CANCELING"}
      BY <3>1 DEF StateInv
    <3>3. /\ mission'[m].state \in {"RUNNING", "FAILED"}
          /\ mission'[m].state = "FAILED" => task["ticker"].pc = "refused"
      BY <2>1, <2>2, <2>3, <2>5 DEF FitsMission
    <3>4. mission'[m].state = "FAILED" => drive' # m
      BY <1>1, <2>1, <2>5, <3>3, Apart DEF RefusedStops
    <3>5. ~ Advancing(m)' /\ task'["ticker"].m = None
      BY <1>4, <2>1
    <3> HIDE DEF Starting, Advancing, InLane
    <3> QED BY <1>1, <1>2, <1>3, <3>2, <3>3, <3>4, <3>5 DEF StateInv
  <2> QED BY <2>4, <2>5
<1> QED BY <1>7, <1>8, <1>9, <1>10, <1>11, <1>12, <1>13 DEF TickerGoesOn

LEMMA EndedInit == Init => EndedInv
<1> SUFFICES ASSUME Init PROVE EndedInv
  OBVIOUS
<1>1. OneCommand /\ LatchInv /\ PauseStops /\ RefusedStops
  BY DEF Init, OneCommand, LatchInv, PauseStops, RefusedStops, Idle, Tasks
<1>2. ASSUME NEW m \in Missions PROVE StateInv(m)
  <2>1. /\ mission[m].state = "none" /\ lane = <<>> /\ active = None /\ drive = None
        /\ \A t \in Tasks : task[t] = Idle
    BY DEF Init, Draft
  <2>2. ~ Starting(m) /\ ~ Advancing(m) /\ \A t \in Tasks : task[t].m # m
    BY <2>1, Params DEF Starting, Advancing, InLane, Idle, Tasks
  <2> QED BY <2>1, <2>2, Params DEF StateInv, InLane
<1> QED BY <1>1, <1>2 DEF EndedInv

(* The master has no goal of a mission that was CANCELED or has FAILED, if *)
(* no call fails and the operator waits for each command: a cancel and a   *)
(* refused goal stop the master before they store the state, and no task   *)
(* still has that mission to drive.                                        *)
THEOREM EndedAlwaysStops ==
    ASSUME Patient, ~ CallsMayFail
    PROVE  Spec => []EndedStops
<1>1. TypeInv /\ EndedInv /\ [Next]_vars => EndedInv'
  <2> SUFFICES ASSUME TypeInv, EndedInv, [Next]_vars PROVE EndedInv'
    OBVIOUS
  <2> USE DEF EndedInv
  <2>1. OneCommand' /\ LatchInv' /\ PauseStops' /\ RefusedStops'
    BY OneCommandStep, LatchStep, PauseStopsStep, RefusedStopsStep
  <2>2. ASSUME NEW m \in Missions PROVE StateInv(m)'
    BY <2>2, StateHandlers, StateExecute, StateCall, StateWorker, StateTicker, StateOther DEF Next
  <2> QED BY <2>1, <2>2
<1>2. EndedInv => EndedStops
  BY DEF EndedInv, StateInv, EndedStops
<1> QED BY <1>1, <1>2, EndedInit, TypesAlways, PTL DEF Spec

=============================================================================
