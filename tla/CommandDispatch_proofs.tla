----------------------- MODULE CommandDispatch_proofs -----------------------
(***************************************************************************)
(* Proofs about CommandDispatch, for any requests, robots and bounds: the  *)
(* types, that memory and database agree about the lanes, that a robot     *)
(* executes a request at most once, that the store implements              *)
(* CommandLedger, and that a protective stop tries every robot.            *)
(***************************************************************************)
EXTENDS CommandDispatch, SequenceTheorems, TLAPS

USE DEF queue, call, safety, guard, robot, counts

LEMMA Names == None \notin Requests
BY DispatchAssumption

LEMMA Targets ==
    ASSUME NEW q \in Requests
    PROVE  /\ TargetsOf[q] \in Seq(Robots)
           /\ \A i, j \in 1 .. Len(TargetsOf[q]) : TargetsOf[q][i] = TargetsOf[q][j] => i = j
           /\ TargetSet(q) \subseteq Robots
           /\ \A r \in TargetSet(q) : \E i \in 1 .. Len(TargetsOf[q]) : TargetsOf[q][i] = r
BY DispatchAssumption DEF TargetSet

LEMMA Order ==
    /\ RobotOrder \in Seq(Robots)
    /\ \A r \in Robots : \E i \in 1 .. Len(RobotOrder) : RobotOrder[i] = r
<1>1. RobotOrder \in Seq(Robots) /\ Robots = {RobotOrder[i] : i \in DOMAIN RobotOrder}
  BY DispatchAssumption
<1> QED BY <1>1

LEMMA Empty == \A S : <<>> \in Seq(S)
OBVIOUS

LEMMA Limits ==
    /\ NormalMax \in Nat /\ ConfirmTicks \in Nat /\ StopTimeout \in Nat
    /\ MaxSubmissions \in Nat /\ MaxCrashes \in Nat /\ MaxProtective \in Nat
BY DispatchAssumption

(* What is taken is the head of one lane, the safety lane first.           *)
LEMMA PopPriority ==
    ASSUME StartNext, priority # <<>>
    PROVE  /\ priority' = Tail(priority) /\ normal' = normal /\ Pop = Head(priority)
BY DEF StartNext, Pop

LEMMA PopNormal ==
    ASSUME StartNext, priority = <<>>
    PROVE  /\ normal # <<>> /\ normal' = Tail(normal) /\ priority' = priority
           /\ Pop = Head(normal)
BY DEF StartNext, Pop

---------------------------------------------------------------------------
(* The types, one group of variables after the other.                      *)
LaneTypes ==
    /\ normal \in Seq(Requests) /\ Len(normal) <= NormalMax
    /\ priority \in Seq(Requests) /\ queuedIds \subseteq Requests

LEMMA QueueMoves ==
    [Next]_vars => \/ \E q \in Requests : Submit(q)
                   \/ StartNext \/ Restart \/ UNCHANGED queue
BY DEF Next, Worker, TaskEnds, SendCall, CallFails, RefreshStops, Guardian, ProtectiveStop,
       ProtectiveCall, ProtectiveAnswered, Robot, RobotExecutes, ConnectionLost,
       StatusArrives, StatusStale, Tick, vars

LEMMA LaneStep == LaneTypes /\ [Next]_vars => LaneTypes'
<1> SUFFICES ASSUME LaneTypes, [Next]_vars PROVE LaneTypes'
  OBVIOUS
<1>1. ASSUME NEW q \in Requests, Submit(q) PROVE LaneTypes'
  <2>1. CASE ToEnqueue(q) /\ ~ LaneFull(q)
    <3>1. Enqueue(q)
      BY <1>1, <2>1 DEF Submit
    <3>2. CASE IsStop(q)
      BY <3>1, <3>2 DEF Enqueue, LaneTypes
    <3>3. CASE ~ IsStop(q)
      <4>1. Len(normal) < NormalMax
        BY <2>1, <3>3, Limits DEF LaneFull, LaneTypes
      <4> QED BY <3>1, <3>3, <4>1, Limits DEF Enqueue, LaneTypes
    <3> QED BY <3>2, <3>3
  <2>2. CASE ~ (ToEnqueue(q) /\ ~ LaneFull(q))
    BY <1>1, <2>2 DEF Submit, LaneTypes
  <2> QED BY <2>1, <2>2
<1>2. CASE StartNext
  <2>1. \A lane \in Seq(Requests) : lane # <<>> =>
           Tail(lane) \in Seq(Requests) /\ Len(Tail(lane)) <= Len(lane)
    OBVIOUS
  <2>2. normal' \in Seq(Requests) /\ priority' \in Seq(Requests) /\ queuedIds' \subseteq Requests
    BY <1>2, <2>1 DEF StartNext, LaneTypes
  <2>3. normal' = normal \/ (normal # <<>> /\ normal' = Tail(normal))
    BY <1>2, PopPriority, PopNormal
  <2>4. Len(normal') <= NormalMax
    BY <2>1, <2>3, <2>2, Limits DEF LaneTypes
  <2> QED BY <2>2, <2>4 DEF LaneTypes
<1>3. CASE Restart
  BY <1>3, Limits DEF Restart, LaneTypes
<1>4. CASE UNCHANGED queue
  BY <1>4 DEF LaneTypes
<1> QED BY <1>1, <1>2, <1>3, <1>4, QueueMoves

(* A worker that waits has a call to wait for.                             *)
CallTypes ==
    /\ worker \in Requests \cup {None} /\ todo \in Seq(Robots)
    /\ waiting \in BOOLEAN /\ rejected \in BOOLEAN
    /\ waiting => worker # None /\ todo # <<>>
    /\ worker # None /\ OpOf[worker] = "task" => todo = <<>>

LEMMA AnsweredType ==
    ASSUME CallTypes, Calling, NEW ok \in BOOLEAN, Answered(ok) PROVE CallTypes'
<1>1. todo' \in Seq(Robots) /\ waiting' = FALSE /\ rejected' \in BOOLEAN
  BY DEF CallTypes, Calling, Answered
<1>2. worker' = None \/ worker' = worker
  BY DEF Answered, Conclude
<1>3. ~ (worker # None /\ OpOf[worker] = "task")
  BY DEF CallTypes, Calling
<1> QED BY <1>1, <1>2, <1>3 DEF CallTypes

LEMMA PopInLane ==
    ASSUME LaneTypes, priority # <<>> \/ normal # <<>> PROVE Pop \in Requests
BY DEF LaneTypes, Pop

LEMMA CallMoves ==
    [Next]_vars => \/ StartNext \/ TaskEnds \/ SendCall \/ CallFails \/ Restart
                   \/ \E r \in Robots : RobotExecutes(r)
                   \/ UNCHANGED call
BY DEF Next, Submit, Worker, RefreshStops, Guardian, ProtectiveStop, ProtectiveCall,
       ProtectiveAnswered, Robot, ConnectionLost, StatusArrives, StatusStale, Tick, vars

LEMMA CallStep == LaneTypes /\ CallTypes /\ [Next]_vars => CallTypes'
<1> SUFFICES ASSUME LaneTypes, CallTypes, [Next]_vars PROVE CallTypes'
  OBVIOUS
<1>1. CASE StartNext
  <2>1. Pop \in Requests
    BY <1>1, PopInLane DEF StartNext
  <2>2. worker' = Pop /\ waiting' = FALSE /\ rejected' = FALSE
    BY <1>1 DEF StartNext
  <2>3. todo' \in Seq(Robots)
    BY <1>1, <2>1, Targets DEF StartNext
  <2>4. worker' # None /\ OpOf[worker'] = "task" => todo' = <<>>
    BY <1>1, <2>2 DEF StartNext
  <2> QED BY <2>1, <2>2, <2>3, <2>4 DEF CallTypes
<1>2. CASE TaskEnds
  <2>1. todo = <<>> /\ waiting = FALSE
    BY <1>2 DEF TaskEnds, CallTypes
  <2>2. worker' = None /\ todo' = todo /\ waiting' = FALSE /\ rejected' = rejected
    BY <1>2, <2>1 DEF TaskEnds
  <2> QED BY <2>1, <2>2 DEF CallTypes
<1>3. CASE SendCall
  BY <1>3 DEF SendCall, Calling, CallTypes
<1>4. CASE CallFails
  BY <1>4, AnsweredType DEF CallFails
<1>5. ASSUME NEW r \in Robots, RobotExecutes(r) PROVE CallTypes'
  <2>1. CASE UNCHANGED call
    BY <2>1 DEF CallTypes
  <2>2. CASE waiting /\ Answered(OpOf[Head(inbox[r])] = "set_mode" => ~ latched[r])
    <3>1. Calling
      BY <2>2 DEF Calling, CallTypes
    <3> QED BY <2>2, <3>1, AnsweredType
  <2> QED BY <1>5, <2>1, <2>2 DEF RobotExecutes
<1>6. CASE Restart
  <2>1. worker' = None /\ todo' = <<>> /\ waiting' = FALSE /\ rejected' = FALSE
    BY <1>6 DEF Restart
  <2> QED BY <2>1, Empty, Zenon DEF CallTypes
<1>7. CASE UNCHANGED call
  BY <1>7 DEF CallTypes
<1> QED BY <1>1, <1>2, <1>3, <1>4, <1>5, <1>6, <1>7, CallMoves

---------------------------------------------------------------------------
StoreTypes == db \in [Requests -> CommandStates] /\ activeStops \subseteq Requests

LEMMA AnsweredStores ==
    ASSUME StoreTypes, CallTypes, Calling, NEW ok, Answered(ok) PROVE StoreTypes'
<1>1. worker \in Requests
  BY DEF CallTypes, Calling
<1>2. CASE UNCHANGED <<db, activeStops>>
  BY <1>2 DEF StoreTypes
<1>3. ASSUME NEW bad, Conclude(bad) PROVE StoreTypes'
  BY <1>1, <1>3 DEF StoreTypes, Conclude, CommandStates
<1> QED BY <1>2, <1>3 DEF Answered

LEMMA StoreMoves ==
    [Next]_vars => \/ \E q \in Requests : Submit(q)
                   \/ StartNext \/ TaskEnds \/ CallFails \/ RefreshStops \/ Restart
                   \/ \E r \in Robots : RobotExecutes(r)
                   \/ UNCHANGED <<db, activeStops, queuedIds, worker, todo, rejected, crashes>>
BY DEF Next, Worker, SendCall, Guardian, ProtectiveStop, ProtectiveCall, ProtectiveAnswered,
       Robot, ConnectionLost, StatusArrives, StatusStale, Tick, vars

LEMMA StoreStep == LaneTypes /\ CallTypes /\ StoreTypes /\ [Next]_vars => StoreTypes'
<1> SUFFICES ASSUME LaneTypes, CallTypes, StoreTypes, [Next]_vars PROVE StoreTypes'
  OBVIOUS
<1>1. ASSUME NEW q \in Requests, Submit(q) PROVE StoreTypes'
  BY <1>1 DEF Submit, Enqueue, DeleteCommand, StoreTypes, CommandStates
<1>2. CASE StartNext
  BY <1>2, PopInLane DEF StartNext, StoreTypes, CommandStates
<1>3. CASE TaskEnds
  BY <1>3 DEF TaskEnds, StoreTypes, CommandStates
<1>4. CASE CallFails
  BY <1>4, AnsweredStores DEF CallFails
<1>5. ASSUME NEW r \in Robots, RobotExecutes(r) PROVE StoreTypes'
  <2>1. CASE UNCHANGED <<db, activeStops>>
    BY <2>1 DEF StoreTypes
  <2>2. CASE waiting /\ Answered(OpOf[Head(inbox[r])] = "set_mode" => ~ latched[r])
    <3>1. Calling
      BY <2>2 DEF Calling, CallTypes
    <3> QED BY <2>2, <3>1, AnsweredStores
  <2> QED BY <1>5, <2>1, <2>2 DEF RobotExecutes
<1>6. CASE RefreshStops
  <2>1. db' \in [Requests -> CommandStates]
    BY <1>6 DEF RefreshStops, StoreTypes, CommandStates
  <2> QED BY <1>6, <2>1 DEF RefreshStops, StoreTypes
<1>7. CASE Restart
  BY <1>7 DEF Restart, StoreTypes
<1>8. CASE UNCHANGED <<db, activeStops>>
  BY <1>8 DEF StoreTypes
<1> QED BY <1>1, <1>2, <1>3, <1>4, <1>5, <1>6, <1>7, <1>8, StoreMoves DEF queue, call

---------------------------------------------------------------------------
ClockTypes ==
    /\ requested \in [Robots -> -1 .. StopTimeout] /\ stable \in [Robots -> -1 .. ConfirmTicks]

LEMMA ClockStep == ClockTypes /\ [Next]_vars => ClockTypes'
<1> SUFFICES ASSUME ClockTypes, [Next]_vars PROVE ClockTypes'
  OBVIOUS
<1>1. ASSUME NEW q \in Requests, Submit(q) PROVE ClockTypes'
  BY <1>1, Limits DEF Submit, RequestStop, ClockTypes
<1>2. CASE RefreshStops
  BY <1>2, Limits DEF RefreshStops, StableNow, ClockTypes
<1>3. CASE Tick
  BY <1>3, Limits DEF Tick, Later, ClockTypes
<1>4. CASE Restart
  BY <1>4, Limits DEF Restart, ClockTypes
<1>5. CASE UNCHANGED safety
  BY <1>5 DEF ClockTypes
<1>6. (\E q \in Requests : Submit(q)) \/ RefreshStops \/ Tick \/ Restart \/ UNCHANGED safety
  BY DEF Next, Worker, StartNext, TaskEnds, SendCall, CallFails, Guardian, ProtectiveStop,
         ProtectiveCall, ProtectiveAnswered, Robot, RobotExecutes, ConnectionLost,
         StatusArrives, StatusStale, vars
<1> QED BY <1>1, <1>2, <1>3, <1>4, <1>5, <1>6

ViewTypes == view \in [Robots -> Views]

LEMMA ViewStep == ViewTypes /\ [Next]_vars => ViewTypes'
<1> SUFFICES ASSUME ViewTypes, [Next]_vars PROVE ViewTypes'
  OBVIOUS
<1>1. ASSUME NEW r \in Robots, StatusArrives(r) \/ StatusStale(r) PROVE ViewTypes'
  BY <1>1 DEF StatusArrives, StatusStale, ViewTypes, Views
<1>2. CASE Restart
  BY <1>2 DEF Restart, ViewTypes, Views
<1>3. CASE UNCHANGED view
  BY <1>3 DEF ViewTypes
<1>4. (\E r \in Robots : StatusArrives(r) \/ StatusStale(r)) \/ Restart \/ UNCHANGED view
  BY DEF Next, Submit, Worker, StartNext, TaskEnds, SendCall, CallFails, RefreshStops, Guardian,
         ProtectiveStop, ProtectiveCall, ProtectiveAnswered, Robot, RobotExecutes,
         ConnectionLost, Tick, vars
<1> QED BY <1>1, <1>2, <1>3, <1>4

(* A guardian that waits has a robot to wait for.                          *)
GuardTypes ==
    /\ protecting \in Seq(Robots) /\ guardWaiting \in BOOLEAN /\ attempted \subseteq Robots
    /\ guardWaiting => protecting # <<>>

LEMMA GuardMoves ==
    [Next]_vars => \/ Guardian \/ Restart
                   \/ UNCHANGED <<protecting, guardWaiting, attempted, protections, crashes>>
BY DEF Next, Submit, Worker, StartNext, TaskEnds, SendCall, CallFails, RefreshStops,
       Robot, RobotExecutes, ConnectionLost, StatusArrives, StatusStale, Tick, vars

LEMMA GuardStep == GuardTypes /\ [Next]_vars => GuardTypes'
<1> SUFFICES ASSUME GuardTypes, [Next]_vars PROVE GuardTypes'
  OBVIOUS
<1>1. CASE ProtectiveStop
  BY <1>1, Order DEF ProtectiveStop, GuardTypes
<1>2. CASE ProtectiveCall
  <2>1. protecting # <<>> /\ Head(protecting) \in Robots /\ Tail(protecting) \in Seq(Robots)
    BY <1>2 DEF ProtectiveCall, GuardTypes
  <2>2. attempted' = attempted \cup {Head(protecting)}
    BY <1>2 DEF ProtectiveCall
  <2>3. \/ guardWaiting' = TRUE /\ protecting' = protecting
        \/ guardWaiting' = FALSE /\ protecting' = Tail(protecting)
    BY <1>2 DEF ProtectiveCall, GuardTypes
  <2> QED BY <2>1, <2>2, <2>3 DEF GuardTypes
<1>3. CASE ProtectiveAnswered
  <2>1. guardWaiting' = FALSE /\ attempted' = attempted /\ protecting' \in Seq(Robots)
    BY <1>3 DEF ProtectiveAnswered, GuardTypes
  <2> QED BY <2>1 DEF GuardTypes
<1>4. CASE Restart
  <2>1. guardWaiting' = FALSE /\ attempted' = {} /\ protecting' = <<>>
    BY <1>4 DEF Restart
  <2> QED BY <2>1, Empty, Zenon DEF GuardTypes
<1>5. CASE UNCHANGED guard
  BY <1>5 DEF GuardTypes
<1> QED BY <1>1, <1>2, <1>3, <1>4, <1>5, GuardMoves DEF Guardian

---------------------------------------------------------------------------
RobotTypes ==
    /\ inbox \in [Robots -> Seq(Requests \cup {None})]
    /\ latched \in [Robots -> BOOLEAN]
    /\ executed \in [Requests -> [Robots -> 0 .. 2]]

LEMMA RobotMoves ==
    [Next]_vars => \/ SendCall \/ ProtectiveCall
                   \/ \E r \in Robots : RobotExecutes(r) \/ ConnectionLost(r)
                   \/ UNCHANGED robot
BY DEF Next, Submit, Worker, StartNext, TaskEnds, CallFails, RefreshStops, Guardian,
       ProtectiveStop, ProtectiveAnswered, Robot, StatusArrives, StatusStale, Tick, Restart, vars

LEMMA RobotStep == CallTypes /\ GuardTypes /\ RobotTypes /\ [Next]_vars => RobotTypes'
<1> SUFFICES ASSUME CallTypes, GuardTypes, RobotTypes, [Next]_vars PROVE RobotTypes'
  OBVIOUS
<1>1. CASE SendCall
  <2>1. Head(todo) \in Robots /\ worker \in Requests \cup {None}
    BY <1>1 DEF SendCall, Calling, CallTypes
  <2> QED BY <1>1, <2>1 DEF SendCall, RobotTypes
<1>2. CASE ProtectiveCall
  <2>1. Head(protecting) \in Robots
    BY <1>2 DEF ProtectiveCall, GuardTypes
  <2>2. latched' = latched /\ executed' = executed
    BY <1>2 DEF ProtectiveCall
  <2>3. inbox' = inbox \/ inbox' = [inbox EXCEPT ![Head(protecting)] = Append(@, None)]
    BY <1>2 DEF ProtectiveCall
  <2>4. Append(inbox[Head(protecting)], None) \in Seq(Requests \cup {None})
    BY <2>1 DEF RobotTypes
  <2>5. inbox' \in [Robots -> Seq(Requests \cup {None})]
    BY <2>1, <2>3, <2>4 DEF RobotTypes
  <2> QED BY <2>2, <2>5 DEF RobotTypes
<1>3. ASSUME NEW r \in Robots, RobotExecutes(r) PROVE RobotTypes'
  <2> DEFINE q == Head(inbox[r])
  <2>1. q \in Requests \cup {None} /\ inbox' = [inbox EXCEPT ![r] = Tail(@)] /\ Executes(r, q)
    BY <1>3 DEF RobotExecutes, RobotTypes
  <2>2. inbox' \in [Robots -> Seq(Requests \cup {None})]
    BY <1>3, <2>1 DEF RobotExecutes, RobotTypes
  <2>3. latched' \in [Robots -> BOOLEAN]
    BY <2>1 DEF Executes, RobotTypes
  <2>4. executed' \in [Requests -> [Robots -> 0 .. 2]]
    <3>1. CASE q = None
      BY <2>1, <3>1 DEF Executes, RobotTypes
    <3>2. CASE q # None
      <4>1. q \in Requests /\ executed' = [executed EXCEPT ![q][r] = IF @ = 2 THEN 2 ELSE @ + 1]
        BY <2>1, <3>2 DEF Executes
      <4>2. executed[q][r] \in 0 .. 2
        BY <4>1 DEF RobotTypes
      <4> QED BY <4>1, <4>2 DEF RobotTypes
    <3> QED BY <3>1, <3>2
  <2> QED BY <2>2, <2>3, <2>4 DEF RobotTypes
<1>4. ASSUME NEW r \in Robots, ConnectionLost(r) PROVE RobotTypes'
  BY <1>4 DEF ConnectionLost, RobotTypes
<1>5. CASE UNCHANGED robot
  BY <1>5 DEF RobotTypes
<1> QED BY <1>1, <1>2, <1>3, <1>4, <1>5, RobotMoves

CountTypes ==
    /\ submissions \in 0 .. MaxSubmissions
    /\ crashes \in 0 .. MaxCrashes /\ protections \in 0 .. MaxProtective

LEMMA CountStep == CountTypes /\ [Next]_vars => CountTypes'
<1> SUFFICES ASSUME CountTypes, [Next]_vars PROVE CountTypes'
  OBVIOUS
<1>1. CASE \E q \in Requests : Submit(q)
  BY <1>1, Limits DEF Submit, CountTypes
<1>2. CASE ProtectiveStop
  BY <1>2, Limits DEF ProtectiveStop, CountTypes
<1>3. CASE Restart
  BY <1>3, Limits DEF Restart, CountTypes
<1>4. CASE UNCHANGED counts
  BY <1>4 DEF CountTypes
<1>5. (\E q \in Requests : Submit(q)) \/ ProtectiveStop \/ Restart \/ UNCHANGED counts
  BY DEF Next, Worker, StartNext, TaskEnds, SendCall, CallFails, RefreshStops, Guardian,
         ProtectiveCall, ProtectiveAnswered, Robot, RobotExecutes, ConnectionLost,
         StatusArrives, StatusStale, Tick, vars
<1> QED BY <1>1, <1>2, <1>3, <1>4, <1>5

---------------------------------------------------------------------------
Types == LaneTypes /\ CallTypes /\ StoreTypes /\ RobotTypes /\ GuardTypes /\ CountTypes

LEMMA InitTypes ==
    Init => LaneTypes /\ CallTypes /\ StoreTypes /\ ClockTypes /\ ViewTypes /\ GuardTypes
            /\ RobotTypes /\ CountTypes
<1> SUFFICES ASSUME Init PROVE LaneTypes /\ CallTypes /\ StoreTypes /\ ClockTypes /\ ViewTypes
                               /\ GuardTypes /\ RobotTypes /\ CountTypes
  OBVIOUS
<1>1. LaneTypes /\ CallTypes /\ GuardTypes
  <2>1. LaneTypes
    BY Limits DEF Init, LaneTypes
  <2>2. CallTypes
    <3>1. worker = None /\ todo = <<>> /\ waiting = FALSE /\ rejected = FALSE
      BY DEF Init
    <3> QED BY <3>1, Empty, Zenon DEF CallTypes
  <2>3. GuardTypes
    <3>1. protecting = <<>> /\ guardWaiting = FALSE /\ attempted = {}
      BY DEF Init
    <3> QED BY <3>1, Empty, Zenon DEF GuardTypes
  <2> QED BY <2>1, <2>2, <2>3
<1>2. StoreTypes /\ ViewTypes
  BY DEF Init, StoreTypes, ViewTypes, CommandStates, Views
<1>3. ClockTypes /\ CountTypes
  BY Limits DEF Init, ClockTypes, CountTypes
<1>4. RobotTypes
  BY DEF Init, RobotTypes
<1> QED BY <1>1, <1>2, <1>3, <1>4

LEMMA TypesAlways ==
    Spec => [](Types /\ ClockTypes /\ ViewTypes)
BY InitTypes, LaneStep, CallStep, StoreStep, ClockStep, ViewStep, GuardStep, RobotStep, CountStep,
   PTL DEF Spec, Types

(* The types of all variables, for any requests, robots and bounds.        *)
THEOREM TypeCorrect == Spec => []TypeOK
<1>1. Types /\ ClockTypes /\ ViewTypes => TypeOK
  BY DEF Types, LaneTypes, CallTypes, StoreTypes, RobotTypes, GuardTypes, ClockTypes, ViewTypes,
         CountTypes, TypeOK
<1> QED BY <1>1, TypesAlways, PTL

---------------------------------------------------------------------------
(* What a lane holds after it was lengthened or shortened.                 *)
Once(lane) == \A i, j \in 1 .. Len(lane) : lane[i] = lane[j] => i = j

LEMMA TailAt ==
    ASSUME NEW S, NEW s \in Seq(S), s # <<>>
    PROVE  /\ Len(s) \in Nat /\ Len(s) > 0 /\ Head(s) = s[1] /\ Head(s) \in S
           /\ Tail(s) \in Seq(S) /\ Len(Tail(s)) = Len(s) - 1
           /\ \A i \in 1 .. Len(s) - 1 : Tail(s)[i] = s[i + 1]
BY HeadTailProperties

LEMMA InTail ==
    ASSUME NEW S, NEW s \in Seq(S), s # <<>>, Once(s)
    PROVE  /\ InLane(s, Head(s)) /\ Once(Tail(s))
           /\ \A x : InLane(Tail(s), x) <=> InLane(s, x) /\ x # Head(s)
<1> USE TailAt
<1>1. InLane(s, Head(s))
  BY DEF InLane
<1>2. Once(Tail(s))
  BY DEF Once
<1>3. ASSUME NEW x, InLane(Tail(s), x) PROVE InLane(s, x) /\ x # Head(s)
  <2>1. PICK i \in 1 .. Len(s) - 1 : Tail(s)[i] = x
    BY <1>3 DEF InLane
  <2>2. i + 1 \in 1 .. Len(s) /\ s[i + 1] = x /\ i + 1 # 1
    BY <2>1
  <2>3. s[i + 1] # s[1]
    BY <2>2 DEF Once
  <2> QED BY <2>2, <2>3 DEF InLane
<1>4. ASSUME NEW x, InLane(s, x), x # Head(s) PROVE InLane(Tail(s), x)
  <2>1. PICK i \in 1 .. Len(s) : s[i] = x
    BY <1>4 DEF InLane
  <2>2. i # 1
    BY <1>4, <2>1
  <2>3. i - 1 \in 1 .. Len(s) - 1 /\ Tail(s)[i - 1] = s[(i - 1) + 1] /\ (i - 1) + 1 = i
    BY <2>1, <2>2
  <2> QED BY <2>1, <2>3 DEF InLane
<1> QED BY <1>1, <1>2, <1>3, <1>4

LEMMA AppendAt ==
    ASSUME NEW S, NEW s \in Seq(S), NEW e \in S
    PROVE  /\ Append(s, e) \in Seq(S) /\ Len(s) \in Nat /\ Len(Append(s, e)) = Len(s) + 1
           /\ \A i \in 1 .. Len(s) : Append(s, e)[i] = s[i]
           /\ Append(s, e)[Len(s) + 1] = e
BY AppendProperties

LEMMA InAppend ==
    ASSUME NEW S, NEW s \in Seq(S), NEW e \in S
    PROVE  /\ \A x : InLane(Append(s, e), x) <=> InLane(s, x) \/ x = e
           /\ Once(s) /\ ~ InLane(s, e) => Once(Append(s, e))
<1> USE AppendAt
<1>1. ASSUME NEW x, InLane(Append(s, e), x) PROVE InLane(s, x) \/ x = e
  <2>1. PICK i \in 1 .. Len(s) + 1 : Append(s, e)[i] = x
    BY <1>1 DEF InLane
  <2>2. CASE i \in 1 .. Len(s)
    BY <2>1, <2>2 DEF InLane
  <2>3. CASE i = Len(s) + 1
    BY <2>1, <2>3
  <2> QED BY <2>1, <2>2, <2>3
<1>2. ASSUME NEW x, InLane(s, x) PROVE InLane(Append(s, e), x)
  <2>1. PICK i \in 1 .. Len(s) : s[i] = x
    BY <1>2 DEF InLane
  <2>2. i \in 1 .. Len(s) + 1 /\ Append(s, e)[i] = x
    BY <2>1
  <2> QED BY <2>2 DEF InLane
<1>3. InLane(Append(s, e), e)
  <2>1. Len(s) + 1 \in 1 .. Len(s) + 1 /\ Append(s, e)[Len(s) + 1] = e
    OBVIOUS
  <2> QED BY <2>1 DEF InLane
<1>4. ASSUME Once(s), ~ InLane(s, e), NEW i \in 1 .. Len(s) + 1, NEW j \in 1 .. Len(s) + 1,
             Append(s, e)[i] = Append(s, e)[j]
      PROVE  i = j
  <2>1. CASE i \in 1 .. Len(s) /\ j \in 1 .. Len(s)
    BY <1>4, <2>1 DEF Once
  <2>2. \A k \in 1 .. Len(s) : Append(s, e)[k] # Append(s, e)[Len(s) + 1]
    BY <1>4 DEF InLane
  <2> QED BY <1>4, <2>1, <2>2
<1>5. Once(s) /\ ~ InLane(s, e) => Once(Append(s, e))
  BY <1>4 DEF Once
<1> QED BY <1>1, <1>2, <1>3, <1>5

(* LanesHoldQueued, lane by lane.                                          *)
LaneInv ==
    /\ \A q \in Requests : q \in queuedIds <=> InLane(normal, q) \/ InLane(priority, q)
    /\ \A q \in Requests : InLane(normal, q) => ~ IsStop(q)
    /\ \A q \in Requests : InLane(priority, q) => IsStop(q)
    /\ Once(normal) /\ Once(priority)

LEMMA LanesHold == LaneTypes /\ LaneInv => LanesHoldQueued
<1> SUFFICES ASSUME LaneTypes, LaneInv PROVE LanesHoldQueued
  OBVIOUS
<1>1. \A i \in 1 .. Len(normal) : normal[i] \in Requests /\ InLane(normal, normal[i])
  BY DEF LaneTypes, InLane
<1>2. \A i \in 1 .. Len(priority) : priority[i] \in Requests /\ InLane(priority, priority[i])
  BY DEF LaneTypes, InLane
<1>3. \A i \in 1 .. Len(normal) : ~ IsStop(normal[i])
  BY <1>1 DEF LaneInv
<1>4. \A i \in 1 .. Len(priority) : IsStop(priority[i])
  BY <1>2 DEF LaneInv
<1>5. \A lane \in {normal, priority} : \A i, j \in 1 .. Len(lane) : lane[i] = lane[j] => i = j
  BY DEF LaneInv, Once
<1> QED BY <1>3, <1>4, <1>5 DEF LaneInv, LanesHoldQueued

LEMMA PopQueued ==
    ASSUME LaneTypes, LaneInv, StartNext
    PROVE  /\ Pop \in Requests /\ Pop \in queuedIds /\ queuedIds' = queuedIds \ {Pop} /\ LaneInv'
<1>0. Pop \in Requests /\ queuedIds' = queuedIds \ {Pop}
  BY PopInLane DEF StartNext
<1>1. CASE priority # <<>>
  <2>1. priority' = Tail(priority) /\ normal' = normal /\ Pop = Head(priority)
    BY <1>1, PopPriority
  <2>2. /\ InLane(priority, Pop) /\ Once(Tail(priority))
        /\ \A x : InLane(Tail(priority), x) <=> InLane(priority, x) /\ x # Pop
    BY <1>1, <2>1, InTail DEF LaneTypes, LaneInv
  <2>3. IsStop(Pop) /\ ~ InLane(normal, Pop) /\ Pop \in queuedIds
    BY <1>0, <2>2 DEF LaneInv
  <2> QED BY <1>0, <2>1, <2>2, <2>3 DEF LaneInv
<1>2. CASE priority = <<>>
  <2>1. normal # <<>> /\ normal' = Tail(normal) /\ priority' = priority /\ Pop = Head(normal)
    BY <1>2, PopNormal
  <2>2. /\ InLane(normal, Pop) /\ Once(Tail(normal))
        /\ \A x : InLane(Tail(normal), x) <=> InLane(normal, x) /\ x # Pop
    BY <2>1, InTail DEF LaneTypes, LaneInv
  <2>3. ~ IsStop(Pop) /\ ~ InLane(priority, Pop) /\ Pop \in queuedIds
    BY <1>0, <2>2 DEF LaneInv
  <2> QED BY <1>0, <2>1, <2>2, <2>3 DEF LaneInv
<1> QED BY <1>1, <1>2

LEMMA EmptyLane == ~ (\E x : InLane(<<>>, x)) /\ Once(<<>>)
BY DEF InLane, Once

LEMMA LaneInvStep == LaneTypes /\ LaneInv /\ [Next]_vars => LaneInv'
<1> SUFFICES ASSUME LaneTypes, LaneInv, [Next]_vars PROVE LaneInv'
  OBVIOUS
<1>1. ASSUME NEW q \in Requests, Submit(q) PROVE LaneInv'
  <2>1. CASE ToEnqueue(q) /\ Enqueue(q)
    <3>1. ~ InLane(normal, q) /\ ~ InLane(priority, q) /\ queuedIds' = queuedIds \cup {q}
      BY <2>1 DEF ToEnqueue, Enqueue, LaneInv
    <3>2. CASE IsStop(q)
      <4>1. priority' = Append(priority, q) /\ normal' = normal
        BY <2>1, <3>2 DEF Enqueue
      <4>2. /\ Once(Append(priority, q))
            /\ \A x : InLane(Append(priority, q), x) <=> InLane(priority, x) \/ x = q
        BY <3>1, InAppend DEF LaneTypes, LaneInv
      <4> QED BY <3>1, <3>2, <4>1, <4>2 DEF LaneInv
    <3>3. CASE ~ IsStop(q)
      <4>1. normal' = Append(normal, q) /\ priority' = priority
        BY <2>1, <3>3 DEF Enqueue
      <4>2. /\ Once(Append(normal, q))
            /\ \A x : InLane(Append(normal, q), x) <=> InLane(normal, x) \/ x = q
        BY <3>1, InAppend DEF LaneTypes, LaneInv
      <4> QED BY <3>1, <3>3, <4>1, <4>2 DEF LaneInv
    <3> QED BY <3>2, <3>3
  <2>2. CASE UNCHANGED queue
    BY <2>2 DEF LaneInv
  <2> QED BY <1>1, <2>1, <2>2 DEF Submit
<1>2. CASE StartNext
  BY <1>2, PopQueued
<1>3. CASE Restart
  <2>1. normal' = <<>> /\ priority' = <<>> /\ queuedIds' = {}
    BY <1>3 DEF Restart
  <2> QED BY <2>1, EmptyLane DEF LaneInv
<1>4. CASE UNCHANGED queue
  BY <1>4 DEF LaneInv
<1> QED BY <1>1, <1>2, <1>3, <1>4, QueueMoves

---------------------------------------------------------------------------
(* Who answers for a command the store has not concluded.                  *)
AgreeInv ==
    /\ \A q \in queuedIds : db[q] = "ACCEPTED"
    /\ worker # None => db[worker] = "RUNNING"
    /\ \A q \in activeStops : db[q] = "RUNNING" /\ q # worker
    /\ crashes = 0 => \A q \in Requests :
          /\ db[q] = "RUNNING" => worker = q \/ q \in activeStops
          /\ db[q] = "ACCEPTED" => q \in queuedIds

LEMMA AnsweredAgrees ==
    ASSUME LaneTypes, CallTypes, StoreTypes, AgreeInv, Calling, NEW ok, Answered(ok),
           UNCHANGED <<queuedIds, crashes>>
    PROVE  AgreeInv'
<1>1. worker \in Requests /\ worker # None
  BY DEF CallTypes, Calling
<1>2. CASE UNCHANGED <<db, activeStops, worker>>
  BY <1>2 DEF AgreeInv
<1>3. ASSUME NEW bad, Conclude(bad) PROVE AgreeInv'
  <2>1. worker' = None
    BY <1>3 DEF Conclude
  <2>2. CASE IsStop(worker) /\ ~ bad
    <3>1. activeStops' = activeStops \cup {worker} /\ db' = db
      BY <1>3, <2>2 DEF Conclude
    <3> QED BY <1>1, <2>1, <3>1, Names DEF AgreeInv, StoreTypes
  <2>3. CASE ~ (IsStop(worker) /\ ~ bad)
    <3>1. /\ activeStops' = activeStops
          /\ db' = [db EXCEPT ![worker] = IF bad THEN "FAILED" ELSE "SUCCEEDED"]
      BY <1>3, <2>3 DEF Conclude
    <3>2. worker \notin queuedIds /\ worker \notin activeStops
      BY <1>1 DEF AgreeInv
    <3>3. \A q \in Requests : q # worker => db'[q] = db[q]
      BY <3>1 DEF StoreTypes
    <3>4. db'[worker] \in {"FAILED", "SUCCEEDED"}
      BY <1>1, <3>1 DEF StoreTypes
    <3> QED BY <1>1, <2>1, <3>1, <3>2, <3>3, <3>4, Names DEF AgreeInv, StoreTypes, LaneTypes
  <2> QED BY <2>2, <2>3
<1> QED BY <1>2, <1>3 DEF Answered

LEMMA AgreeStep == Types /\ LaneInv /\ AgreeInv /\ [Next]_vars => AgreeInv'
<1> SUFFICES ASSUME Types, LaneInv, AgreeInv, [Next]_vars PROVE AgreeInv'
  OBVIOUS
<1> USE DEF Types
<1>1. ASSUME NEW q \in Requests, Submit(q) PROVE AgreeInv'
  <2>1. UNCHANGED <<worker, activeStops, crashes>>
    BY <1>1 DEF Submit
  <2>2. CASE ToEnqueue(q) /\ Enqueue(q)
    <3>1. db' = [db EXCEPT ![q] = "ACCEPTED"] /\ queuedIds' = queuedIds \cup {q}
      BY <2>2 DEF Enqueue
    <3>2. q # worker /\ q \notin activeStops
      BY <2>2, Names DEF ToEnqueue, AgreeInv, CallTypes
    <3>3. db'[q] = "ACCEPTED" /\ \A p \in Requests : p # q => db'[p] = db[p]
      BY <3>1 DEF StoreTypes
    <3> QED BY <2>1, <3>1, <3>2, <3>3 DEF AgreeInv, StoreTypes, CallTypes, LaneTypes
  <2>3. CASE ToEnqueue(q) /\ DeleteCommand(q) /\ UNCHANGED queue
    <3>1. db' = [db EXCEPT ![q] = "none"] /\ queuedIds' = queuedIds
      BY <2>3 DEF DeleteCommand
    <3>2. q # worker /\ q \notin activeStops /\ q \notin queuedIds
      BY <2>3, Names DEF ToEnqueue, AgreeInv, CallTypes
    <3>3. db'[q] = "none" /\ \A p \in Requests : p # q => db'[p] = db[p]
      BY <3>1 DEF StoreTypes
    <3> QED BY <2>1, <3>1, <3>2, <3>3 DEF AgreeInv, StoreTypes, CallTypes, LaneTypes
  <2>4. CASE UNCHANGED <<db, queue>>
    BY <2>1, <2>4 DEF AgreeInv
  <2> QED BY <1>1, <2>2, <2>3, <2>4 DEF Submit
<1>2. CASE StartNext
  <2>1. Pop \in Requests /\ Pop \in queuedIds /\ queuedIds' = queuedIds \ {Pop}
    BY <1>2, PopQueued
  <2>2. /\ worker = None /\ worker' = Pop /\ db' = [db EXCEPT ![Pop] = "RUNNING"]
        /\ UNCHANGED <<activeStops, crashes>>
    BY <1>2 DEF StartNext
  <2>3. Pop \notin activeStops
    BY <2>1 DEF AgreeInv
  <2>4. db'[Pop] = "RUNNING" /\ \A p \in Requests : p # Pop => db'[p] = db[p]
    BY <2>1, <2>2 DEF StoreTypes
  <2> QED BY <2>1, <2>2, <2>3, <2>4, Names DEF AgreeInv, StoreTypes, LaneTypes
<1>3. CASE TaskEnds
  <2>1. worker \in Requests /\ worker # None /\ worker \notin queuedIds /\ worker \notin activeStops
    BY <1>3 DEF TaskEnds, CallTypes, AgreeInv
  <2>2. worker' = None /\ UNCHANGED <<queuedIds, activeStops, crashes>>
    BY <1>3 DEF TaskEnds
  <2>3. PICK outcome \in {"SUCCEEDED", "FAILED"} : db' = [db EXCEPT ![worker] = outcome]
    BY <1>3 DEF TaskEnds
  <2>4. db'[worker] = outcome /\ \A p \in Requests : p # worker => db'[p] = db[p]
    BY <2>1, <2>3 DEF StoreTypes
  <2> QED BY <2>1, <2>2, <2>3, <2>4, Names DEF AgreeInv, StoreTypes, LaneTypes
<1>4. CASE CallFails
  BY <1>4, AnsweredAgrees DEF CallFails
<1>5. ASSUME NEW r \in Robots, RobotExecutes(r) PROVE AgreeInv'
  <2>1. UNCHANGED <<queuedIds, crashes>>
    BY <1>5 DEF RobotExecutes
  <2>2. CASE UNCHANGED <<db, activeStops, call>>
    BY <2>1, <2>2 DEF AgreeInv
  <2>3. CASE waiting /\ Answered(OpOf[Head(inbox[r])] = "set_mode" => ~ latched[r])
    <3>1. Calling
      BY <2>3 DEF Calling, CallTypes
    <3> QED BY <2>1, <2>3, <3>1, AnsweredAgrees
  <2> QED BY <1>5, <2>2, <2>3 DEF RobotExecutes
<1>6. CASE RefreshStops
  <2>1. /\ activeStops' = activeStops \ (Confirmed \cup Expired)
        /\ UNCHANGED <<queuedIds, worker, crashes>>
    BY <1>6 DEF RefreshStops
  <2>2. Confirmed \subseteq activeStops /\ Expired \subseteq activeStops
    BY DEF Confirmed, Expired
  <2>3. ASSUME NEW q \in Requests
        PROVE  IF q \in Confirmed \cup Expired THEN db'[q] \in {"SUCCEEDED", "TIMED_OUT"}
                                               ELSE db'[q] = db[q]
    BY <1>6 DEF RefreshStops
  <2>4. worker # None => worker \in Requests /\ worker \notin activeStops
    BY DEF CallTypes, AgreeInv
  <2>5. \A q \in queuedIds : q \in Requests /\ q \notin activeStops
    BY DEF LaneTypes, AgreeInv
  <2>6. activeStops \subseteq Requests
    BY DEF StoreTypes
  <2> QED BY <2>1, <2>2, <2>3, <2>4, <2>5, <2>6 DEF AgreeInv
<1>7. CASE Restart
  <2>1. queuedIds' = {} /\ worker' = None /\ activeStops' = {} /\ crashes' # 0
    BY <1>7 DEF Restart, CountTypes
  <2> QED BY <2>1 DEF AgreeInv
<1>8. CASE UNCHANGED <<db, activeStops, queuedIds, worker, todo, rejected, crashes>>
  BY <1>8 DEF AgreeInv
<1> QED BY <1>1, <1>2, <1>3, <1>4, <1>5, <1>6, <1>7, <1>8, StoreMoves

LEMMA LanesAlways == Spec => [](Types /\ LaneInv /\ AgreeInv)
<1>1. Init => LaneInv
  <2> SUFFICES ASSUME Init PROVE LaneInv
    OBVIOUS
  <2>1. normal = <<>> /\ priority = <<>> /\ queuedIds = {}
    BY DEF Init
  <2> QED BY <2>1, EmptyLane DEF LaneInv
<1>2. Init => AgreeInv
  BY DEF Init, AgreeInv
<1>3. Types /\ LaneInv /\ [Next]_vars => LaneInv'
  BY LaneInvStep DEF Types
<1> QED BY <1>1, <1>2, <1>3, AgreeStep, TypesAlways, PTL DEF Spec

(* Memory and database agree about what waits and what is under way: see   *)
(* QueueMatchesStore.  The worker's command and an acknowledged stop are   *)
(* RUNNING, which is why a retry never puts them in a lane again.          *)
THEOREM QueueAlwaysMatchesStore == Spec => []QueueMatchesStore
<1>1. Types /\ LaneInv /\ AgreeInv => QueueMatchesStore
  BY LanesHold DEF Types, AgreeInv, QueueMatchesStore
<1> QED BY <1>1, LanesAlways, PTL

---------------------------------------------------------------------------
(* Where a request has been: on the wire to a robot at most once, and not  *)
(* any more once it was executed.                                          *)
OnceOf(lane, q) == \A i, j \in 1 .. Len(lane) : lane[i] = q /\ lane[j] = q => i = j

LEMMA OnceInTail ==
    ASSUME NEW S, NEW s \in Seq(S), s # <<>>, NEW x, OnceOf(s, x)
    PROVE  /\ OnceOf(Tail(s), x)
           /\ InLane(Tail(s), x) => InLane(s, x) /\ x # Head(s)
           /\ InLane(s, Head(s))
<1> USE TailAt
<1>1. OnceOf(Tail(s), x)
  BY DEF OnceOf
<1>2. ASSUME InLane(Tail(s), x) PROVE InLane(s, x) /\ x # Head(s)
  <2>1. PICK i \in 1 .. Len(s) - 1 : Tail(s)[i] = x
    BY <1>2 DEF InLane
  <2>2. i + 1 \in 1 .. Len(s) /\ s[i + 1] = x /\ i + 1 # 1
    BY <2>1
  <2>3. s[1] # x
    BY <2>2 DEF OnceOf
  <2> QED BY <2>2, <2>3 DEF InLane
<1>3. InLane(s, Head(s))
  BY DEF InLane
<1> QED BY <1>1, <1>2, <1>3

LEMMA OnceInAppend ==
    ASSUME NEW S, NEW s \in Seq(S), NEW e \in S, NEW x, OnceOf(s, x), x # e \/ ~ InLane(s, x)
    PROVE  OnceOf(Append(s, e), x)
<1> USE AppendAt
<1>1. CASE x # e
  <2>1. \A i \in 1 .. Len(s) + 1 : Append(s, e)[i] = x => i \in 1 .. Len(s) /\ s[i] = x
    BY <1>1
  <2> QED BY <2>1 DEF OnceOf
<1>2. CASE ~ InLane(s, x)
  <2>1. \A i \in 1 .. Len(s) + 1 : Append(s, e)[i] = x => i = Len(s) + 1
    BY <1>2 DEF InLane
  <2> QED BY <2>1 DEF OnceOf
<1> QED BY <1>1, <1>2

Untouched(q, r) == executed[q][r] = 0 /\ ~ InLane(inbox[r], q)

Alone(q, r) ==
    /\ executed[q][r] <= 1
    /\ executed[q][r] = 1 => ~ InLane(inbox[r], q)
    /\ OnceOf(inbox[r], q)

AloneInv == \A q \in Requests, r \in Robots : Alone(q, r)

(* Only SendCall touches a request at a robot it had not reached.          *)
Elsewhere(q, r) ==
    /\ Alone(q, r)'
    /\ Untouched(q, r) => Untouched(q, r)'

LEMMA SameWire ==
    ASSUME NEW q, NEW r, Alone(q, r),
           inbox'[r] = inbox[r], executed'[q][r] = executed[q][r]
    PROVE  Elsewhere(q, r)
BY DEF Elsewhere, Alone, Untouched

LEMMA ProtectiveElsewhere ==
    ASSUME Types, AloneInv, ProtectiveCall, NEW q \in Requests, NEW r \in Robots
    PROVE  Elsewhere(q, r)
<1>1. Alone(q, r) /\ executed' = executed
  BY DEF AloneInv, ProtectiveCall
<1>2. inbox[r] \in Seq(Requests \cup {None}) /\ q # None
  BY Names DEF Types, RobotTypes
<1>3. inbox'[r] = inbox[r] \/ inbox'[r] = Append(inbox[r], None)
  BY DEF ProtectiveCall, Types, RobotTypes
<1>4. CASE inbox'[r] = Append(inbox[r], None)
  <2>1. \A x : InLane(inbox'[r], x) <=> InLane(inbox[r], x) \/ x = None
    BY <1>2, <1>4, InAppend
  <2>2. OnceOf(inbox'[r], q)
    BY <1>1, <1>2, <1>4, OnceInAppend DEF Alone
  <2> QED BY <1>1, <1>2, <2>1, <2>2 DEF Elsewhere, Alone, Untouched
<1> QED BY <1>1, <1>3, <1>4, SameWire

LEMMA ExecutesElsewhere ==
    ASSUME Types, AloneInv, NEW p \in Robots, RobotExecutes(p), NEW q \in Requests, NEW r \in Robots
    PROVE  Elsewhere(q, r)
<1> DEFINE c == Head(inbox[p])
<1>1. Alone(q, r) /\ executed[q][r] \in 0 .. 2 /\ inbox[r] \in Seq(Requests \cup {None}) /\ q # None
  BY Names DEF AloneInv, Types, RobotTypes
<1>2. inbox[p] # <<>> /\ inbox' = [inbox EXCEPT ![p] = Tail(@)] /\ Executes(p, c)
  BY DEF RobotExecutes
<1>3. executed' = IF c = None THEN executed
                  ELSE [executed EXCEPT ![c][p] = IF @ = 2 THEN 2 ELSE @ + 1]
  BY <1>2 DEF Executes
<1>4. executed'[q][r] = IF c = q /\ r = p /\ executed[q][r] # 2 THEN executed[q][r] + 1
                                                                ELSE executed[q][r]
  <2>1. CASE c = q /\ r = p
    BY <1>1, <1>3, <2>1 DEF Types, RobotTypes
  <2>2. CASE c # q \/ r # p
    BY <1>3, <2>2 DEF Types, RobotTypes
  <2> QED BY <2>1, <2>2
<1>5. CASE r # p
  BY <1>1, <1>2, <1>4, <1>5, SameWire DEF Types, RobotTypes
<1>6. CASE r = p
  <2>1. inbox'[r] = Tail(inbox[r]) /\ inbox[r] # <<>>
    BY <1>2, <1>6 DEF Types, RobotTypes
  <2>2. /\ OnceOf(inbox'[r], q) /\ InLane(inbox[r], c)
        /\ InLane(inbox'[r], q) => InLane(inbox[r], q) /\ q # c
    BY <1>1, <1>6, <2>1, OnceInTail DEF Alone
  <2>3. CASE q = c
    <3>1. InLane(inbox[r], q) /\ ~ InLane(inbox'[r], q)
      BY <2>2, <2>3
    <3>2. executed[q][r] = 0
      BY <1>1, <3>1 DEF Alone
    <3>3. executed'[q][r] = 1
      BY <1>4, <1>6, <2>3, <3>2
    <3> QED BY <2>2, <3>1, <3>3 DEF Elsewhere, Alone, Untouched
  <2>4. CASE q # c
    BY <1>1, <1>4, <2>2, <2>4 DEF Elsewhere, Alone, Untouched
  <2> QED BY <2>3, <2>4
<1> QED BY <1>5, <1>6

LEMMA LostElsewhere ==
    ASSUME Types, AloneInv, NEW p \in Robots, ConnectionLost(p), NEW q \in Requests, NEW r \in Robots
    PROVE  Elsewhere(q, r)
<1>1. Alone(q, r) /\ executed' = executed /\ inbox'[r] = IF r = p THEN <<>> ELSE inbox[r]
  BY DEF AloneInv, ConnectionLost, Types, RobotTypes
<1>2. ~ InLane(<<>>, q) /\ OnceOf(<<>>, q)
  BY DEF InLane, OnceOf
<1> QED BY <1>1, <1>2 DEF Elsewhere, Alone, Untouched

(* A call is sent to a robot where the request has never been.             *)
LEMMA SendTouches ==
    ASSUME Types, AloneInv, SendCall, Untouched(worker, Head(todo)),
           NEW q \in Requests, NEW r \in Robots
    PROVE  /\ Alone(q, r)'
           /\ q # worker \/ r # Head(todo) => (Untouched(q, r) => Untouched(q, r)')
<1>1. Alone(q, r) /\ executed' = executed
  BY DEF AloneInv, SendCall
<1>2. inbox[r] \in Seq(Requests \cup {None}) /\ worker \in Requests \cup {None}
  BY DEF Types, RobotTypes, CallTypes
<1>3. inbox'[r] = IF r = Head(todo) THEN Append(inbox[r], worker) ELSE inbox[r]
  BY DEF SendCall, Types, RobotTypes
<1>4. CASE r # Head(todo)
  BY <1>1, <1>3, <1>4, SameWire DEF Elsewhere
<1>5. CASE r = Head(todo)
  <2>1. \A x : InLane(inbox'[r], x) <=> InLane(inbox[r], x) \/ x = worker
    BY <1>2, <1>3, <1>5, InAppend
  <2>2. OnceOf(inbox'[r], q)
    <3>1. q # worker \/ ~ InLane(inbox[r], q)
      BY <1>5 DEF Untouched
    <3> QED BY <1>1, <1>2, <1>3, <1>5, <3>1, OnceInAppend DEF Alone
  <2>3. CASE q = worker
    <3>1. executed'[q][r] = 0
      BY <1>1, <1>5, <2>3 DEF Untouched
    <3> QED BY <1>5, <2>2, <2>3, <3>1 DEF Alone
  <2>4. CASE q # worker
    <3>1. InLane(inbox'[r], q) <=> InLane(inbox[r], q)
      BY <2>1, <2>4
    <3> QED BY <1>1, <2>2, <3>1 DEF Alone, Untouched
  <2> QED BY <2>3, <2>4
<1> QED BY <1>4, <1>5

LEMMA StepElsewhere ==
    ASSUME Types, AloneInv, [Next]_vars, ~ SendCall, NEW q \in Requests, NEW r \in Robots
    PROVE  Elsewhere(q, r)
<1>1. CASE UNCHANGED robot
  BY <1>1, SameWire DEF AloneInv
<1> QED BY <1>1, ProtectiveElsewhere, ExecutesElsewhere, LostElsewhere, RobotMoves

---------------------------------------------------------------------------
(* A command that is in no lane and in no hands has been at no robot.      *)
Fresh == {"none", "ACCEPTED"}

FreshInv == \A q \in Requests, r \in Robots : db[q] \in Fresh => Untouched(q, r)

LEMMA AnsweredConcludes ==
    ASSUME CallTypes, StoreTypes, Calling, NEW ok, Answered(ok), NEW q \in Requests
    PROVE  db'[q] = db[q] \/ (q = worker /\ db'[q] \in {"FAILED", "SUCCEEDED"})
<1>1. worker \in Requests
  BY DEF CallTypes, Calling
<1>2. ASSUME NEW bad, Conclude(bad)
      PROVE  db'[q] = db[q] \/ (q = worker /\ db'[q] \in {"FAILED", "SUCCEEDED"})
  <2>1. db' = db \/ db' = [db EXCEPT ![worker] = IF bad THEN "FAILED" ELSE "SUCCEEDED"]
    BY <1>2 DEF Conclude
  <2> QED BY <1>1, <2>1 DEF StoreTypes
<1> QED BY <1>2 DEF Answered

LEMMA StaysFresh ==
    ASSUME Types, LaneInv, AgreeInv, [Next]_vars, NEW q \in Requests, db'[q] \in Fresh
    PROVE  db[q] \in Fresh
<1> USE DEF Fresh
<1>1. ASSUME NEW p \in Requests, Submit(p) PROVE db[q] \in Fresh
  <2>1. \/ UNCHANGED db
        \/ ToEnqueue(p) /\ db' = [db EXCEPT ![p] = "ACCEPTED"]
        \/ ToEnqueue(p) /\ db' = [db EXCEPT ![p] = "none"]
    BY <1>1 DEF Submit, Enqueue, DeleteCommand
  <2> QED BY <2>1 DEF ToEnqueue, Types, StoreTypes
<1>2. CASE StartNext
  <2>1. Pop \in Requests /\ db' = [db EXCEPT ![Pop] = "RUNNING"]
    BY <1>2, PopQueued DEF StartNext, Types
  <2> QED BY <2>1 DEF Types, StoreTypes
<1>3. CASE TaskEnds
  <2>1. worker \in Requests
        /\ \E outcome \in {"SUCCEEDED", "FAILED"} : db' = [db EXCEPT ![worker] = outcome]
    BY <1>3 DEF TaskEnds, Types, CallTypes
  <2> QED BY <2>1 DEF Types, StoreTypes
<1>4. CASE CallFails
  <2>1. db'[q] = db[q] \/ db'[q] \in {"FAILED", "SUCCEEDED"}
    BY <1>4, AnsweredConcludes DEF CallFails, Types
  <2> QED BY <2>1
<1>5. ASSUME NEW r \in Robots, RobotExecutes(r) PROVE db[q] \in Fresh
  <2>1. CASE waiting /\ Answered(OpOf[Head(inbox[r])] = "set_mode" => ~ latched[r])
    <3>1. Calling
      BY <2>1 DEF Calling, CallTypes, Types
    <3>2. db'[q] = db[q] \/ db'[q] \in {"FAILED", "SUCCEEDED"}
      BY <2>1, <3>1, AnsweredConcludes DEF Types
    <3> QED BY <3>2
  <2>2. CASE UNCHANGED db
    BY <2>2
  <2> QED BY <1>5, <2>1, <2>2 DEF RobotExecutes
<1>6. CASE RefreshStops
  BY <1>6 DEF RefreshStops
<1>7. CASE Restart \/ UNCHANGED db
  BY <1>7 DEF Restart
<1> QED BY <1>1, <1>2, <1>3, <1>4, <1>5, <1>6, <1>7, StoreMoves

(* Of the worker's targets only the first may have been called.            *)
TodoInv ==
    /\ Once(todo)
    /\ worker # None => \A i \in 1 .. Len(todo) :
          i > 1 \/ ~ waiting => Untouched(worker, todo[i])

LEMMA SendUntouched ==
    ASSUME Types, TodoInv, SendCall PROVE Untouched(worker, Head(todo))
<1>1. Calling /\ ~ waiting /\ todo \in Seq(Robots)
  BY DEF SendCall, Types, CallTypes
<1>2. Len(todo) \in Nat /\ Len(todo) > 0 /\ Head(todo) = todo[1]
  BY <1>1, TailAt DEF Calling
<1> QED BY <1>1, <1>2 DEF TodoInv, Calling

LEMMA FreshStep ==
    Types /\ LaneInv /\ AgreeInv /\ AloneInv /\ FreshInv /\ TodoInv /\ [Next]_vars
        => AloneInv' /\ FreshInv'
<1> SUFFICES ASSUME Types, LaneInv, AgreeInv, AloneInv, FreshInv, TodoInv, [Next]_vars,
                    NEW q \in Requests, NEW r \in Robots
             PROVE  /\ Alone(q, r)'
                    /\ db'[q] \in Fresh => Untouched(q, r)'
  BY DEF AloneInv, FreshInv
<1>1. db'[q] \in Fresh => Untouched(q, r)
  BY StaysFresh DEF FreshInv
<1>2. CASE ~ SendCall
  BY <1>1, <1>2, StepElsewhere DEF Elsewhere
<1>3. CASE SendCall
  <2>1. db'[q] \in Fresh => q # worker
    <3>1. db' = db /\ worker # None
      BY <1>3 DEF SendCall, Calling
    <3> QED BY <3>1 DEF Fresh, AgreeInv
  <2> QED BY <1>1, <1>3, <2>1, SendUntouched, SendTouches
<1> QED BY <1>2, <1>3

LEMMA AnsweredTodo ==
    ASSUME Types, AloneInv, TodoInv, [Next]_vars, ~ SendCall, Calling, NEW ok, Answered(ok)
    PROVE  TodoInv'
<1>1. worker \in Requests /\ todo \in Seq(Robots) /\ todo # <<>>
  BY DEF Calling, Types, CallTypes
<1>2. todo' = Tail(todo) /\ (worker' = None \/ worker' = worker)
  BY DEF Answered, Conclude
<1>3. Once(todo')
  BY <1>1, <1>2, InTail DEF TodoInv
<1>4. ASSUME worker' # None, NEW i \in 1 .. Len(todo')
      PROVE  executed'[worker'][todo'[i]] = 0 /\ ~ InLane(inbox'[todo'[i]], worker')
  <2>1. i + 1 \in 1 .. Len(todo) /\ i + 1 > 1 /\ todo'[i] = todo[i + 1] /\ todo[i + 1] \in Robots
    BY <1>1, <1>2, <1>4, TailAt
  <2>2. PICK w \in Requests : w = worker
    BY <1>1
  <2>3. PICK t \in Robots : t = todo[i + 1]
    BY <2>1
  <2>4. Untouched(w, t)
    BY <1>1, <2>1, <2>2, <2>3, Names DEF TodoInv
  <2>5. Untouched(w, t)'
    BY <2>4, StepElsewhere DEF Elsewhere
  <2>6. worker' = w /\ todo'[i] = t
    BY <1>2, <1>4, <2>1, <2>2, <2>3
  <2> QED BY <2>5, <2>6 DEF Untouched
<1> QED BY <1>3, <1>4 DEF TodoInv, Untouched

LEMMA TodoStep ==
    Types /\ LaneInv /\ AgreeInv /\ AloneInv /\ FreshInv /\ TodoInv /\ [Next]_vars => TodoInv'
<1> SUFFICES ASSUME Types, LaneInv, AgreeInv, AloneInv, FreshInv, TodoInv, [Next]_vars
             PROVE  TodoInv'
  OBVIOUS
<1> USE DEF Types
<1>0. ASSUME ~ SendCall, worker' # None => worker' = worker, todo' = todo, waiting' = waiting
      PROVE  TodoInv'
  <2>1. ASSUME worker' # None, NEW i \in 1 .. Len(todo'), i > 1 \/ ~ waiting'
        PROVE  executed'[worker'][todo'[i]] = 0 /\ ~ InLane(inbox'[todo'[i]], worker')
    <3>1. worker \in Requests /\ worker' = worker /\ todo[i] \in Robots
      BY <1>0, <2>1 DEF CallTypes
    <3>2. PICK w \in Requests : w = worker
      BY <3>1
    <3>3. PICK t \in Robots : t = todo[i]
      BY <3>1
    <3>4. Untouched(w, t)
      BY <1>0, <2>1, <3>1, <3>2, <3>3 DEF TodoInv
    <3>5. Untouched(w, t)'
      BY <1>0, <3>4, StepElsewhere DEF Elsewhere
    <3>6. worker' = w /\ todo'[i] = t
      BY <1>0, <3>1, <3>2, <3>3
    <3> QED BY <3>5, <3>6 DEF Untouched
  <2>2. Once(todo')
    BY <1>0 DEF TodoInv
  <2> QED BY <2>1, <2>2 DEF TodoInv, Untouched
<1>1. CASE StartNext
  <2>1. Pop \in Requests /\ db[Pop] \in Fresh
    BY <1>1, PopQueued DEF AgreeInv, Fresh
  <2>2. worker' = Pop /\ UNCHANGED robot /\ todo' = IF OpOf[Pop] = "task" THEN <<>> ELSE TargetsOf[Pop]
    BY <1>1 DEF StartNext
  <2>3. Once(todo') /\ \A i \in 1 .. Len(todo') : todo'[i] \in Robots
    BY <2>1, <2>2, Targets DEF Once
  <2>4. \A r \in Robots : Untouched(Pop, r)
    BY <2>1 DEF FreshInv
  <2> QED BY <2>2, <2>3, <2>4 DEF TodoInv, Untouched
<1>2. CASE TaskEnds
  <2>1. worker' = None /\ todo' = todo
    BY <1>2 DEF TaskEnds
  <2> QED BY <2>1 DEF TodoInv
<1>3. CASE SendCall
  <2>1. worker \in Requests /\ todo \in Seq(Robots) /\ todo # <<>>
        /\ worker' = worker /\ todo' = todo /\ waiting' = TRUE /\ ~ waiting
    BY <1>3 DEF SendCall, Calling, CallTypes
  <2>2. ASSUME NEW i \in 1 .. Len(todo), i > 1
        PROVE  executed'[worker'][todo'[i]] = 0 /\ ~ InLane(inbox'[todo'[i]], worker')
    <3>1. PICK w \in Requests : w = worker
      BY <2>1
    <3>2. PICK t \in Robots : t = todo[i]
      BY <2>1
    <3>3. Head(todo) = todo[1] /\ 1 \in 1 .. Len(todo)
      BY <2>1, TailAt
    <3>4. t # Head(todo)
      BY <2>2, <3>2, <3>3 DEF TodoInv, Once
    <3>5. Untouched(w, t)
      BY <2>1, <2>2, <3>1, <3>2, Names DEF TodoInv
    <3>6. Untouched(w, t)'
      BY <1>3, <3>4, <3>5, SendUntouched, SendTouches
    <3> QED BY <2>1, <3>1, <3>2, <3>6 DEF Untouched
  <2> QED BY <2>1, <2>2 DEF TodoInv, Untouched
<1>4. CASE CallFails /\ ~ SendCall
  BY <1>4, AnsweredTodo DEF CallFails
<1>5. ASSUME NEW r \in Robots, RobotExecutes(r), ~ SendCall PROVE TodoInv'
  <2>1. CASE UNCHANGED call
    BY <1>0, <1>5, <2>1
  <2>2. CASE waiting /\ Answered(OpOf[Head(inbox[r])] = "set_mode" => ~ latched[r])
    <3>1. Calling
      BY <2>2 DEF Calling, CallTypes
    <3> QED BY <1>5, <2>2, <3>1, AnsweredTodo
  <2> QED BY <1>5, <2>1, <2>2 DEF RobotExecutes
<1>6. CASE Restart
  <2>1. worker' = None /\ todo' = <<>>
    BY <1>6 DEF Restart
  <2> QED BY <2>1 DEF TodoInv, Once
<1>7. CASE UNCHANGED call /\ ~ SendCall
  BY <1>0, <1>7
<1> QED BY <1>1, <1>2, <1>3, <1>4, <1>5, <1>6, <1>7, CallMoves

LEMMA OnceAlways == Spec => [](AloneInv /\ FreshInv /\ TodoInv)
<1>1. Init => AloneInv /\ FreshInv
  <2> SUFFICES ASSUME Init, NEW q \in Requests, NEW r \in Robots
               PROVE  Alone(q, r) /\ Untouched(q, r)
    BY DEF AloneInv, FreshInv
  <2>1. inbox[r] = <<>> /\ executed[q][r] = 0
    BY DEF Init
  <2> QED BY <2>1 DEF Alone, Untouched, InLane, OnceOf
<1>2. Init => TodoInv
  BY DEF Init, TodoInv, Once
<1> QED BY <1>1, <1>2, FreshStep, TodoStep, LanesAlways, PTL DEF Spec

(* No robot executes a request twice: FreshInv and TodoInv say which of    *)
(* its calls are still to be sent, AloneInv that a sent one is on the wire *)
(* or done.  A restart forgets the worker but the store keeps it RUNNING,  *)
(* so that no retry of the request reaches a lane again.                   *)
THEOREM AtMostOnceAlways == Spec => []AtMostOnce
<1>1. AloneInv => AtMostOnce
  BY DEF AloneInv, Alone, AtMostOnce
<1> QED BY <1>1, OnceAlways, PTL

---------------------------------------------------------------------------
(* What a stop has behind it when it is left to the confirmation.          *)
Reached(q, r) == executed[q][r] >= 1

LEMMA StaysReached ==
    ASSUME Types, [Next]_vars, NEW q \in Requests, NEW r \in Robots, Reached(q, r)
    PROVE  Reached(q, r)'
<1> USE DEF Types, RobotTypes, Reached
<1>1. CASE UNCHANGED executed
  BY <1>1
<1>2. ASSUME NEW p \in Robots, RobotExecutes(p) PROVE executed'[q][r] >= 1
  <2>1. \/ executed' = executed
        \/ \E c \in Requests : executed' = [executed EXCEPT ![c][p] = IF @ = 2 THEN 2 ELSE @ + 1]
    <3>1. Head(inbox[p]) \in Requests \cup {None}
      BY <1>2 DEF RobotExecutes
    <3> QED BY <1>2, <3>1 DEF RobotExecutes, Executes
  <2>2. ASSUME NEW c \in Requests, executed' = [executed EXCEPT ![c][p] = IF @ = 2 THEN 2 ELSE @ + 1]
        PROVE  executed'[q][r] >= 1
    <3>1. executed[q][r] \in 0 .. 2
      OBVIOUS
    <3>2. executed'[q][r] = IF c = q /\ p = r /\ executed[q][r] # 2 THEN executed[q][r] + 1
                                                                  ELSE executed[q][r]
      BY <2>2, <3>1
    <3> QED BY <3>1, <3>2
  <2> QED BY <2>1, <2>2
<1>3. UNCHANGED executed \/ \E p \in Robots : RobotExecutes(p)
  BY RobotMoves DEF SendCall, ProtectiveCall, ConnectionLost
<1> QED BY <1>1, <1>2, <1>3

(* The worker's command has reached the robots that are not in todo any    *)
(* more, unless one of them failed it.                                     *)
ForRobots(q) == OpOf[q] # "task"

DoneInv ==
    /\ \A q \in Requests : ForRobots(q) /\ (db[q] = "SUCCEEDED" \/ q \in activeStops) =>
          \A r \in TargetSet(q) : Reached(q, r)
    /\ \A q \in activeStops : IsStop(q)
    /\ \A q \in Requests : worker = q /\ ForRobots(q) /\ ~ rejected =>
          \A r \in TargetSet(q) : Reached(q, r) \/ InLane(todo, r)

LEMMA HeadOrTail ==
    ASSUME NEW S, NEW s \in Seq(S), s # <<>>, NEW x, InLane(s, x)
    PROVE  x = Head(s) \/ InLane(Tail(s), x)
<1> USE TailAt
<1>1. PICK i \in 1 .. Len(s) : s[i] = x
  BY DEF InLane
<1>2. CASE i = 1
  BY <1>1, <1>2
<1>3. CASE i # 1
  <2>1. i - 1 \in 1 .. Len(s) - 1 /\ Tail(s)[i - 1] = s[(i - 1) + 1] /\ (i - 1) + 1 = i
    BY <1>1, <1>3
  <2> QED BY <1>1, <2>1 DEF InLane
<1> QED BY <1>2, <1>3

LEMMA AnsweredDone ==
    ASSUME Types, DoneInv, [Next]_vars, Calling, NEW ok \in BOOLEAN, Answered(ok),
           \A w \in Requests, t \in Robots : ok /\ w = worker /\ t = Head(todo) => Reached(w, t)'
    PROVE  DoneInv'
<1>1. PICK w \in Requests : w = worker /\ w # None
  BY DEF Calling, Types, CallTypes
<1>2. PICK t \in Robots : t = Head(todo)
  BY DEF Calling, Types, CallTypes
<1>3. todo \in Seq(Robots) /\ todo # <<>> /\ todo' = Tail(todo)
  BY DEF Calling, Types, CallTypes, Answered
<1> DEFINE bad == rejected \/ ~ ok
<1>4. rejected' = bad
  BY DEF Answered
<1>5. ASSUME ForRobots(w), ~ bad, NEW r \in TargetSet(w) PROVE Reached(w, r)' \/ InLane(todo', r)
  <2>1. r \in Robots /\ (Reached(w, r) \/ InLane(todo, r))
    BY <1>1, <1>5, Targets DEF DoneInv
  <2>2. CASE Reached(w, r)
    BY <2>1, <2>2, StaysReached
  <2>3. CASE InLane(todo, r)
    <3>1. r = t \/ InLane(todo', r)
      BY <1>2, <1>3, <2>3, HeadOrTail
    <3> QED BY <1>1, <1>2, <1>5, <3>1
  <2> QED BY <2>1, <2>2, <2>3
<1>6. ASSUME NEW q \in Requests, ForRobots(q), db[q] = "SUCCEEDED" \/ q \in activeStops,
             NEW r \in TargetSet(q)
      PROVE  Reached(q, r)'
  <2>1. r \in Robots /\ Reached(q, r)
    BY <1>6, Targets DEF DoneInv
  <2> QED BY <2>1, StaysReached
<1>7. CASE Len(todo) = 1
  <2>1. Conclude(bad)
    BY <1>7 DEF Answered
  <2>2. worker' = None
    BY <2>1 DEF Conclude
  <2>3. ~ (\E x : InLane(todo', x))
    BY <1>3, <1>7, TailAt DEF InLane
  <2>4. CASE IsStop(w) /\ ~ bad
    <3>1. activeStops' = activeStops \cup {w} /\ db' = db
      BY <1>1, <2>1, <2>4 DEF Conclude
    <3>2. \A q \in activeStops' : IsStop(q)
      BY <2>4, <3>1 DEF DoneInv
    <3>3. ASSUME NEW q \in Requests, ForRobots(q), db'[q] = "SUCCEEDED" \/ q \in activeStops',
                 NEW r \in TargetSet(q)
          PROVE  Reached(q, r)'
      BY <1>5, <1>6, <2>3, <2>4, <3>1, <3>3
    <3> QED BY <2>2, <3>2, <3>3, Names DEF DoneInv
  <2>5. CASE ~ (IsStop(w) /\ ~ bad)
    <3>1. /\ activeStops' = activeStops
          /\ db' = [db EXCEPT ![w] = IF bad THEN "FAILED" ELSE "SUCCEEDED"]
      BY <1>1, <2>1, <2>5 DEF Conclude
    <3>2. \A q \in activeStops' : IsStop(q)
      BY <3>1 DEF DoneInv
    <3>3. ASSUME NEW q \in Requests, ForRobots(q), db'[q] = "SUCCEEDED" \/ q \in activeStops',
                 NEW r \in TargetSet(q)
          PROVE  Reached(q, r)'
      <4>1. db[q] = "SUCCEEDED" \/ q \in activeStops \/ (q = w /\ ~ bad)
        BY <3>1, <3>3 DEF Types, StoreTypes
      <4> QED BY <1>5, <1>6, <2>3, <3>3, <4>1
    <3> QED BY <2>2, <3>2, <3>3, Names DEF DoneInv
  <2> QED BY <2>4, <2>5
<1>8. CASE Len(todo) # 1
  <2>1. UNCHANGED <<db, activeStops, worker>>
    BY <1>8 DEF Answered
  <2> QED BY <1>1, <1>4, <1>5, <1>6, <2>1 DEF DoneInv
<1> QED BY <1>7, <1>8

LEMMA DoneStep == Types /\ LaneInv /\ AgreeInv /\ DoneInv /\ [Next]_vars => DoneInv'
<1> SUFFICES ASSUME Types, LaneInv, AgreeInv, DoneInv, [Next]_vars PROVE DoneInv'
  OBVIOUS
<1> DEFINE Held(q) == db[q] = "SUCCEEDED" \/ q \in activeStops
           Open(q) == worker = q /\ ~ rejected
<1>0. ASSUME \A q \in Requests : Held(q)' => Held(q) \/ ~ ForRobots(q),
             activeStops' \subseteq activeStops,
             \A q \in Requests : Open(q)' => todo' = todo /\ Open(q)
      PROVE  DoneInv'
  <2>1. ASSUME NEW q \in Requests, ForRobots(q), Held(q)', NEW r \in TargetSet(q) PROVE Reached(q, r)'
    <3>1. r \in Robots /\ Reached(q, r)
      BY <1>0, <2>1, Targets DEF DoneInv
    <3> QED BY <3>1, StaysReached
  <2>2. ASSUME NEW q \in Requests, ForRobots(q), Open(q)', NEW r \in TargetSet(q)
        PROVE  Reached(q, r)' \/ InLane(todo', r)
    <3>1. r \in Robots /\ (Reached(q, r) \/ InLane(todo, r)) /\ todo' = todo
      BY <1>0, <2>2, Targets DEF DoneInv
    <3> QED BY <3>1, StaysReached
  <2>3. \A q \in activeStops' : IsStop(q)
    BY <1>0 DEF DoneInv
  <2> QED BY <2>1, <2>2, <2>3 DEF DoneInv
<1>1. ASSUME NEW q \in Requests, Submit(q) PROVE DoneInv'
  <2>1. UNCHANGED <<activeStops, worker, todo, rejected>>
    BY <1>1 DEF Submit
  <2>2. \A p \in Requests : db'[p] = "SUCCEEDED" => db[p] = "SUCCEEDED"
    BY <1>1 DEF Submit, Enqueue, DeleteCommand, Types, StoreTypes
  <2> QED BY <1>0, <2>1, <2>2
<1>2. CASE StartNext
  <2>1. Pop \in Requests /\ worker' = Pop /\ db' = [db EXCEPT ![Pop] = "RUNNING"]
        /\ activeStops' = activeStops /\ todo' = IF OpOf[Pop] = "task" THEN <<>> ELSE TargetsOf[Pop]
    BY <1>2, PopQueued DEF StartNext, Types
  <2>2. \A p \in Requests : db'[p] = "SUCCEEDED" => db[p] = "SUCCEEDED"
    BY <2>1 DEF Types, StoreTypes
  <2>3. ASSUME NEW q \in Requests, ForRobots(q), Held(q)', NEW r \in TargetSet(q) PROVE Reached(q, r)'
    <3>1. r \in Robots /\ Reached(q, r)
      BY <2>1, <2>2, <2>3, Targets DEF DoneInv
    <3> QED BY <3>1, StaysReached
  <2>4. ASSUME NEW q \in Requests, ForRobots(q), worker' = q, NEW r \in TargetSet(q) PROVE InLane(todo', r)
    <3>1. todo' = TargetsOf[q]
      BY <2>1, <2>4 DEF ForRobots
    <3> QED BY <2>4, <3>1, Targets DEF InLane
  <2>5. \A q \in activeStops' : IsStop(q)
    BY <2>1 DEF DoneInv
  <2> QED BY <2>3, <2>4, <2>5 DEF DoneInv
<1>3. CASE TaskEnds
  <2>1. worker' = None /\ activeStops' = activeStops /\ ~ ForRobots(worker)
        /\ \E outcome \in {"SUCCEEDED", "FAILED"} : db' = [db EXCEPT ![worker] = outcome]
    BY <1>3 DEF TaskEnds, ForRobots
  <2>2. \A p \in Requests : db'[p] = "SUCCEEDED" => db[p] = "SUCCEEDED" \/ ~ ForRobots(p)
    BY <2>1 DEF Types, StoreTypes
  <2> QED BY <1>0, <2>1, <2>2, Names
<1>4. CASE CallFails
  BY <1>4, AnsweredDone DEF CallFails
<1>5. ASSUME NEW r \in Robots, RobotExecutes(r) PROVE DoneInv'
  <2>1. CASE UNCHANGED <<db, activeStops, call>>
    BY <1>0, <2>1
  <2> DEFINE ok == OpOf[Head(inbox[r])] = "set_mode" => ~ latched[r]
  <2>2. CASE waiting /\ worker = Head(inbox[r]) /\ Head(todo) = r /\ Answered(ok)
    <3>1. Calling
      BY <2>2 DEF Calling, Types, CallTypes
    <3>2. ASSUME NEW w \in Requests, w = worker PROVE Reached(w, r)'
      <4>1. executed' = [executed EXCEPT ![w][r] = IF @ = 2 THEN 2 ELSE @ + 1]
        BY <1>5, <2>2, <3>2, Names DEF RobotExecutes, Executes
      <4>2. executed[w][r] \in 0 .. 2
        BY DEF Types, RobotTypes
      <4> QED BY <4>1, <4>2 DEF Reached, Types, RobotTypes
    <3>3. ok \in BOOLEAN
      OBVIOUS
    <3> HIDE DEF ok
    <3> QED BY <2>2, <3>1, <3>2, <3>3, AnsweredDone
  <2> QED BY <1>5, <2>1, <2>2 DEF RobotExecutes
<1>6. CASE RefreshStops
  <2>1. activeStops' \subseteq activeStops /\ UNCHANGED <<worker, todo, rejected>>
    BY <1>6 DEF RefreshStops
  <2>2. \A q \in Requests : db'[q] = "SUCCEEDED" => db[q] = "SUCCEEDED" \/ q \in activeStops
    BY <1>6 DEF RefreshStops, Confirmed
  <2> QED BY <1>0, <2>1, <2>2
<1>7. CASE Restart
  <2>1. activeStops' = {} /\ worker' = None /\ db' = db
    BY <1>7 DEF Restart
  <2> QED BY <1>0, <2>1, Names
<1>8. CASE UNCHANGED <<db, activeStops, queuedIds, worker, todo, rejected, crashes>>
  BY <1>0, <1>8
<1> QED BY <1>1, <1>2, <1>3, <1>4, <1>5, <1>6, <1>7, <1>8, StoreMoves

---------------------------------------------------------------------------
(* A call on the wire, and one the worker has still to make, is for a      *)
(* robot the request names.                                                *)
AimInv ==
    /\ \A q \in Requests, r \in Robots : InLane(inbox[r], q) => r \in Performers[q]
    /\ worker # None => \A i \in 1 .. Len(todo) : todo[i] \in Performers[worker]

LEMMA PerformersOf ==
    ASSUME NEW q \in Requests
    PROVE  Performers[q] = IF ForRobots(q) THEN TargetSet(q) ELSE {}
BY DEF Performers, ForRobots

(* What a step puts on the wire: nothing, None or the call of SendCall.    *)
LEMMA WireStep ==
    ASSUME Types, [Next]_vars, NEW q \in Requests, NEW r \in Robots, InLane(inbox'[r], q)
    PROVE  InLane(inbox[r], q) \/ (SendCall /\ q = worker /\ r = Head(todo))
<1>1. inbox[r] \in Seq(Requests \cup {None}) /\ q # None
  BY Names DEF Types, RobotTypes
<1>2. CASE SendCall
  <2>1. worker \in Requests \cup {None}
    BY DEF Types, CallTypes
  <2>2. inbox'[r] = inbox[r] \/ (r = Head(todo) /\ inbox'[r] = Append(inbox[r], worker))
    BY <1>2 DEF SendCall, Types, RobotTypes
  <2>3. CASE r = Head(todo) /\ inbox'[r] = Append(inbox[r], worker)
    <3>1. InLane(Append(inbox[r], worker), q) <=> InLane(inbox[r], q) \/ q = worker
      BY <1>1, <2>1, InAppend
    <3> QED BY <1>2, <2>3, <3>1
  <2> QED BY <2>2, <2>3
<1>3. CASE ProtectiveCall
  <2>1. inbox'[r] = inbox[r] \/ inbox'[r] = Append(inbox[r], None)
    BY <1>3 DEF ProtectiveCall, Types, RobotTypes
  <2>2. InLane(Append(inbox[r], None), q) <=> InLane(inbox[r], q) \/ q = None
    BY <1>1, InAppend
  <2> QED BY <1>1, <2>1, <2>2
<1>4. ASSUME NEW p \in Robots, RobotExecutes(p) PROVE InLane(inbox[r], q)
  <2>1. inbox[p] # <<>> /\ inbox'[r] = IF r = p THEN Tail(inbox[r]) ELSE inbox[r]
    BY <1>4 DEF RobotExecutes, Types, RobotTypes
  <2>2. CASE r = p
    <3>1. PICK i \in 1 .. Len(inbox[r]) - 1 : Tail(inbox[r])[i] = q
      BY <1>1, <2>1, <2>2, TailAt DEF InLane
    <3>2. i + 1 \in 1 .. Len(inbox[r]) /\ inbox[r][i + 1] = q
      BY <1>1, <2>1, <2>2, <3>1, TailAt
    <3> QED BY <3>2 DEF InLane
  <2> QED BY <2>1, <2>2
<1>5. ASSUME NEW p \in Robots, ConnectionLost(p) PROVE InLane(inbox[r], q)
  <2>1. inbox'[r] = IF r = p THEN <<>> ELSE inbox[r]
    BY <1>5 DEF ConnectionLost, Types, RobotTypes
  <2> QED BY <2>1, EmptyLane
<1>6. CASE UNCHANGED robot
  BY <1>6
<1> QED BY <1>2, <1>3, <1>4, <1>5, <1>6, RobotMoves

LEMMA AnsweredAims ==
    ASSUME Types, AimInv, Calling, NEW ok, Answered(ok)
    PROVE  worker' # None => \A i \in 1 .. Len(todo') : todo'[i] \in Performers[worker']
<1>1. worker # None /\ todo \in Seq(Robots) /\ todo # <<>> /\ todo' = Tail(todo)
  BY DEF Calling, Types, CallTypes, Answered
<1>2. worker' = None \/ worker' = worker
  BY DEF Answered, Conclude
<1>3. \A i \in 1 .. Len(todo') : i + 1 \in 1 .. Len(todo) /\ todo'[i] = todo[i + 1]
  BY <1>1, TailAt
<1> QED BY <1>1, <1>2, <1>3 DEF AimInv

LEMMA AimStep == Types /\ LaneInv /\ AimInv /\ [Next]_vars => AimInv'
<1> SUFFICES ASSUME Types, LaneInv, AimInv, [Next]_vars PROVE AimInv'
  OBVIOUS
<1> DEFINE Aims == worker # None => \A i \in 1 .. Len(todo) : todo[i] \in Performers[worker]
<1>1. ASSUME NEW q \in Requests, NEW r \in Robots, InLane(inbox'[r], q)
      PROVE  r \in Performers[q]
  <2>1. CASE InLane(inbox[r], q)
    BY <2>1 DEF AimInv
  <2>2. CASE SendCall /\ q = worker /\ r = Head(todo)
    <3>1. worker # None /\ todo \in Seq(Robots) /\ todo # <<>>
      BY <2>2 DEF SendCall, Calling, Types, CallTypes
    <3>2. 1 \in 1 .. Len(todo) /\ Head(todo) = todo[1]
      BY <3>1, TailAt
    <3> QED BY <2>2, <3>1, <3>2 DEF AimInv
  <2> QED BY <1>1, <2>1, <2>2, WireStep
<1>2. Aims'
  <2>1. CASE StartNext
    <3>1. /\ Pop \in Requests /\ worker' = Pop
          /\ todo' = IF OpOf[Pop] = "task" THEN <<>> ELSE TargetsOf[Pop]
      BY <2>1, PopQueued DEF StartNext, Types
    <3>2. ASSUME NEW i \in 1 .. Len(todo') PROVE todo'[i] \in Performers[Pop]
      <4>1. ForRobots(Pop) /\ todo' = TargetsOf[Pop]
        BY <3>1, <3>2 DEF ForRobots
      <4>2. TargetsOf[Pop] \in Seq(Robots)
        BY <3>1, Targets
      <4>3. todo'[i] \in TargetSet(Pop)
        BY <3>2, <4>1, <4>2 DEF TargetSet
      <4> QED BY <3>1, <4>1, <4>3, PerformersOf
    <3> QED BY <3>1, <3>2
  <2>2. CASE TaskEnds \/ Restart
    BY <2>2 DEF TaskEnds, Restart
  <2>3. CASE SendCall \/ UNCHANGED call
    <3>1. worker' = worker /\ todo' = todo
      BY <2>3 DEF SendCall
    <3> QED BY <3>1 DEF AimInv
  <2>4. CASE CallFails
    BY <2>4, AnsweredAims DEF CallFails
  <2>5. ASSUME NEW r \in Robots, RobotExecutes(r) PROVE Aims'
    <3>1. CASE UNCHANGED call
      BY <2>3, <3>1
    <3>2. CASE waiting /\ Answered(OpOf[Head(inbox[r])] = "set_mode" => ~ latched[r])
      <4>1. Calling
        BY <3>2 DEF Calling, Types, CallTypes
      <4> QED BY <3>2, <4>1, AnsweredAims
    <3> QED BY <2>5, <3>1, <3>2 DEF RobotExecutes
  <2> QED BY <2>1, <2>2, <2>3, <2>4, <2>5, CallMoves
<1> QED BY <1>1, <1>2 DEF AimInv

(* What SUCCEEDED stands for.                                              *)
CarriedOut ==
    \A q \in Requests : db[q] = "SUCCEEDED" =>
        \A r \in Performers[q] : executed[q][r] = 1

LEMMA SucceededMeans == Types /\ AloneInv /\ DoneInv => CarriedOut
<1> SUFFICES ASSUME Types, AloneInv, DoneInv, NEW q \in Requests, db[q] = "SUCCEEDED",
                    NEW r \in Performers[q]
             PROVE  executed[q][r] = 1
  BY DEF CarriedOut
<1>1. ForRobots(q) /\ r \in TargetSet(q) /\ r \in Robots
  BY PerformersOf, Targets
<1>2. Reached(q, r) /\ Alone(q, r)
  BY <1>1 DEF DoneInv, AloneInv
<1>3. executed[q][r] \in 0 .. 2
  BY <1>1 DEF Types, RobotTypes
<1> QED BY <1>2, <1>3 DEF Reached, Alone

(* The executions of a step: at most one, of a request under way, by a     *)
(* robot it names that has not executed it.                                *)
LEMMA ExecutionStep ==
    ASSUME Types, AloneInv, FreshInv, AimInv, [Next]_vars, NEW q \in Requests
    PROVE  executed'[q] = executed[q] \/ \E r \in Performers[q] : Ledger!CarryOut(q, r)
<1>1. CASE UNCHANGED executed
  BY <1>1
<1>2. ASSUME NEW p \in Robots, RobotExecutes(p), executed'[q] # executed[q]
      PROVE  \E r \in Performers[q] : Ledger!CarryOut(q, r)
  <2> DEFINE c == Head(inbox[p])
  <2>1. inbox[p] \in Seq(Requests \cup {None}) /\ inbox[p] # <<>>
    BY <1>2 DEF RobotExecutes, Types, RobotTypes
  <2>2. executed' = IF c = None THEN executed
                    ELSE [executed EXCEPT ![c][p] = IF @ = 2 THEN 2 ELSE @ + 1]
    BY <1>2 DEF RobotExecutes, Executes
  <2>3. c = q
    BY <1>2, <2>2 DEF Types, RobotTypes
  <2>4. InLane(inbox[p], q)
    BY <2>1, <2>3, TailAt DEF InLane
  <2>5. p \in Performers[q]
    BY <2>4 DEF AimInv
  <2>6. executed[q][p] = 0
    <3>1. Alone(q, p) /\ executed[q][p] \in 0 .. 2
      BY DEF AloneInv, Types, RobotTypes
    <3> QED BY <2>4, <3>1 DEF Alone
  <2>7. executed'[q] = [executed[q] EXCEPT ![p] = 1]
    <3>1. executed \in [Requests -> [Robots -> 0 .. 2]] /\ q # None
      BY Names DEF Types, RobotTypes
    <3>2. executed' = [executed EXCEPT ![q][p] = 1]
      <4>1. executed' = [executed EXCEPT ![q][p] = IF @ = 2 THEN 2 ELSE @ + 1]
        BY <2>2, <2>3, <3>1
      <4>2. (IF executed[q][p] = 2 THEN 2 ELSE executed[q][p] + 1) = 1
        BY <2>6
      <4> QED BY <4>1, <4>2
    <3>3. executed'[q] = [executed[q] EXCEPT ![p] = 1]
      BY <3>1, <3>2
    <3> QED BY <3>3
  <2>8. db[q] \in {"RUNNING"} \cup Ledger!Conclusions
    <3>1. db[q] \notin Fresh
      BY <2>4 DEF FreshInv, Untouched
    <3> QED BY <3>1 DEF Fresh, Types, StoreTypes, CommandStates, Ledger!Conclusions
  <2> QED BY <2>5, <2>6, <2>7, <2>8 DEF Ledger!CarryOut
<1>3. UNCHANGED executed \/ \E p \in Robots : RobotExecutes(p)
  BY RobotMoves DEF SendCall, ProtectiveCall, ConnectionLost
<1> QED BY <1>1, <1>2, <1>3

(* The way of a request through the store.                                 *)
Way(q) ==
    \/ db'[q] = db[q]
    \/ db[q] = "none" /\ db'[q] = "ACCEPTED"
    \/ db[q] = "ACCEPTED" /\ db'[q] \in {"none", "RUNNING"}
    \/ db[q] = "RUNNING" /\ db'[q] \in {"SUCCEEDED", "FAILED", "TIMED_OUT"}

LEMMA StoreWay ==
    ASSUME Types, LaneInv, AgreeInv, [Next]_vars, NEW q \in Requests
    PROVE  Way(q)
<1> USE DEF Types
<1>1. ASSUME NEW p \in Requests, Submit(p) PROVE Way(q)
  <2>1. \/ UNCHANGED db
        \/ ToEnqueue(p) /\ db' = [db EXCEPT ![p] = "ACCEPTED"]
        \/ ToEnqueue(p) /\ db' = [db EXCEPT ![p] = "none"]
    BY <1>1 DEF Submit, Enqueue, DeleteCommand
  <2> QED BY <2>1 DEF ToEnqueue, StoreTypes, Way
<1>2. CASE StartNext
  <2>1. Pop \in Requests /\ db[Pop] = "ACCEPTED" /\ db' = [db EXCEPT ![Pop] = "RUNNING"]
    BY <1>2, PopQueued DEF StartNext, AgreeInv
  <2> QED BY <2>1 DEF StoreTypes, Way
<1>3. CASE TaskEnds
  <2>1. /\ worker \in Requests /\ db[worker] = "RUNNING"
        /\ \E outcome \in {"SUCCEEDED", "FAILED"} : db' = [db EXCEPT ![worker] = outcome]
    BY <1>3 DEF TaskEnds, CallTypes, AgreeInv
  <2> QED BY <2>1 DEF StoreTypes, Way
<1>4. ASSUME Calling, NEW ok, Answered(ok) PROVE Way(q)
  <2>1. db[worker] = "RUNNING"
    BY <1>4 DEF Calling, AgreeInv
  <2>2. db'[q] = db[q] \/ (q = worker /\ db'[q] \in {"FAILED", "SUCCEEDED"})
    BY <1>4, AnsweredConcludes
  <2> QED BY <2>1, <2>2 DEF Way
<1>5. CASE CallFails
  BY <1>4, <1>5 DEF CallFails
<1>6. ASSUME NEW r \in Robots, RobotExecutes(r) PROVE Way(q)
  <2>1. CASE UNCHANGED db
    BY <2>1 DEF Way
  <2>2. CASE waiting /\ Answered(OpOf[Head(inbox[r])] = "set_mode" => ~ latched[r])
    <3>1. Calling
      BY <2>2 DEF Calling, CallTypes
    <3> QED BY <1>4, <2>2, <3>1
  <2> QED BY <1>6, <2>1, <2>2 DEF RobotExecutes
<1>7. CASE RefreshStops
  <2>1. q \in Confirmed \cup Expired => db[q] = "RUNNING"
    BY DEF Confirmed, Expired, AgreeInv
  <2>2. IF q \in Confirmed \cup Expired THEN db'[q] \in {"SUCCEEDED", "TIMED_OUT"}
                                        ELSE db'[q] = db[q]
    BY <1>7 DEF RefreshStops
  <2> QED BY <2>1, <2>2 DEF Way
<1>8. CASE Restart \/ UNCHANGED db
  BY <1>8 DEF Restart, Way
<1> QED BY <1>1, <1>2, <1>3, <1>5, <1>6, <1>7, <1>8, StoreMoves

LedgerInv ==
    /\ Types /\ LaneInv /\ AgreeInv
    /\ AloneInv /\ FreshInv /\ TodoInv
    /\ DoneInv /\ AimInv /\ CarriedOut

LEMMA LedgerInvAlways == Spec => []LedgerInv
<1>1. Init => DoneInv
  BY Names DEF Init, DoneInv
<1>2. Init => AimInv
  BY EmptyLane DEF Init, AimInv
<1> QED BY <1>1, <1>2, DoneStep, AimStep, SucceededMeans, LanesAlways, OnceAlways,
           PTL DEF Spec, LedgerInv

(* A command reported SUCCEEDED was executed by each robot it is for, once:*)
(* standing still alone confirms no stop that was not acknowledged, and a  *)
(* target that did not answer fails the whole command.                     *)
THEOREM SucceededAlwaysCarriedOut == Spec => []CarriedOut
BY LedgerInvAlways, PTL DEF LedgerInv

LEMMA StepKeepsLedger == LedgerInv /\ LedgerInv' /\ [Next]_vars => [Ledger!Next]_<<db, executed>>
<1> SUFFICES ASSUME LedgerInv, LedgerInv', [Next]_vars PROVE Ledger!Next
  OBVIOUS
<1> USE DEF LedgerInv
<1>1. db' \in [Requests -> Ledger!States]
  BY DEF Types, StoreTypes, CommandStates, Ledger!States, Ledger!Conclusions
<1>2. executed' \in [Requests -> [Robots -> 0 .. 1]]
  <2>1. executed' \in [Requests -> [Robots -> 0 .. 2]]
    BY DEF Types, RobotTypes
  <2>2. \A q \in Requests, r \in Robots : executed'[q][r] \in 0 .. 1
    BY <2>1 DEF AloneInv, Alone
  <2> QED BY <2>1, <2>2
<1>3. ASSUME NEW q \in Requests PROVE Ledger!Moves(q)
  <2>1. executed'[q] = executed[q] \/ \E r \in Performers[q] : Ledger!CarryOut(q, r)
    BY ExecutionStep
  <2>2. db'[q] = "SUCCEEDED" => \A r \in Performers[q] : executed'[q][r] = 1
    BY DEF CarriedOut
  <2>3. Way(q)
    BY StoreWay
  <2>4. \/ db'[q] = db[q]
        \/ Ledger!Accept(q) \/ Ledger!Withdraw(q) \/ Ledger!Begin(q) \/ Ledger!Conclude(q)
    BY <2>2, <2>3 DEF Way, Ledger!Accept, Ledger!Withdraw, Ledger!Begin, Ledger!Conclude,
                      Ledger!Conclusions
  <2> QED BY <2>1, <2>4 DEF Ledger!Moves
<1> QED BY <1>1, <1>2, <1>3 DEF Ledger!Next

(* The command path implements CommandLedger: what the store says of a     *)
(* request is what happened to it, for any requests, robots and targets,   *)
(* and for any number of retries, lost or late answers and restarts.       *)
THEOREM StoreKeepsLedger == Spec => LedgerSpec
<1>1. Init => Ledger!Init
  BY DEF Init, Ledger!Init
<1> QED BY <1>1, LedgerInvAlways, StepKeepsLedger, PTL DEF Spec, LedgerSpec, Ledger!Spec, Ledger!vars

---------------------------------------------------------------------------
(* A robot has been tried or is still in the guardian's list; the one it   *)
(* waits for has been tried.                                               *)
ReachInv ==
    /\ guardWaiting => Head(protecting) \in attempted
    /\ protections > 0 /\ crashes = 0 =>
          \A r \in Robots : r \in attempted \/ InLane(protecting, r)

LEMMA ReachStep == Types /\ ReachInv /\ [Next]_vars => ReachInv'
<1> SUFFICES ASSUME Types, ReachInv, [Next]_vars PROVE ReachInv'
  OBVIOUS
<1> USE DEF Types
<1>1. CASE ProtectiveStop
  <2>1. protecting' = RobotOrder /\ guardWaiting' = FALSE
    BY <1>1 DEF ProtectiveStop
  <2> QED BY <2>1, Order DEF ReachInv, InLane
<1>2. CASE ProtectiveCall
  <2>1. protecting \in Seq(Robots) /\ protecting # <<>>
        /\ attempted' = attempted \cup {Head(protecting)} /\ UNCHANGED <<protections, crashes>>
    BY <1>2 DEF ProtectiveCall, GuardTypes
  <2>2. \/ guardWaiting' = TRUE /\ protecting' = protecting
        \/ guardWaiting' = FALSE /\ protecting' = Tail(protecting)
    BY <1>2 DEF ProtectiveCall, GuardTypes
  <2>3. \A r : InLane(protecting, r) => r = Head(protecting) \/ InLane(Tail(protecting), r)
    BY <2>1, HeadOrTail
  <2> QED BY <2>1, <2>2, <2>3 DEF ReachInv
<1>3. CASE ProtectiveAnswered
  <2>1. protecting \in Seq(Robots) /\ protecting # <<>> /\ Head(protecting) \in attempted
    BY <1>3 DEF ProtectiveAnswered, GuardTypes, ReachInv
  <2>2. guardWaiting' = FALSE /\ protecting' = Tail(protecting)
        /\ UNCHANGED <<attempted, protections, crashes>>
    BY <1>3 DEF ProtectiveAnswered
  <2>3. \A r : InLane(protecting, r) => r = Head(protecting) \/ InLane(Tail(protecting), r)
    BY <2>1, HeadOrTail
  <2> QED BY <2>1, <2>2, <2>3 DEF ReachInv
<1>4. CASE Restart
  <2>1. guardWaiting' = FALSE /\ crashes' # 0
    BY <1>4 DEF Restart, CountTypes
  <2> QED BY <2>1 DEF ReachInv
<1>5. CASE UNCHANGED <<protecting, guardWaiting, attempted, protections, crashes>>
  BY <1>5 DEF ReachInv
<1> QED BY <1>1, <1>2, <1>3, <1>4, <1>5, GuardMoves DEF Guardian

(* A protective stop has tried every robot when it ends, for any number of *)
(* robots and whatever the calls come to.                                  *)
THEOREM ProtectiveAlwaysReachesAll == Spec => []ProtectiveReachesAll
<1>1. Init => ReachInv
  BY DEF Init, ReachInv
<1>2. Types /\ ReachInv => ProtectiveReachesAll
  <2>1. ASSUME protecting = <<>>, NEW r PROVE ~ InLane(protecting, r)
    BY <2>1 DEF InLane
  <2> QED BY <2>1 DEF Types, GuardTypes, ReachInv, ProtectiveReachesAll
<1> QED BY <1>1, <1>2, ReachStep, TypesAlways, PTL DEF Spec
=============================================================================
