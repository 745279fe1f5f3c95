-------------------------- MODULE RobotTasks_proofs ------------------------
(***************************************************************************)
(* Proofs about RobotTasks, for any navigations, limits and length of the  *)
(* wire: the types; that line following, once stopped, leaves a zero       *)
(* behind as the last velocity on its way; that a lost line is followed by *)
(* a stop; and that a failed map navigation leaves no goal behind.         *)
(***************************************************************************)
EXTENDS RobotTasks, TLAPS

USE DEF robot, link, lanes, worker, ticker

LEMMA Names ==
    /\ None \notin Navs
    /\ None \notin {"pose", "AUTO", "MANUAL", "stop", "reset_stop", "line_start", "line_stop"}
    /\ None \notin Callers
    /\ \A n \in Navs : n \notin {"pose", "AUTO", "MANUAL", "stop", "reset_stop", "drive", "zero",
                                 "line_start", "line_stop"}
BY TasksAssumption DEF Callers

LEMMA Limits ==
    /\ LossLimit \in Nat /\ LossLimit > 0 /\ MaxRequests \in Nat /\ MaxBreaks \in Nat
    /\ WireMax \in Nat /\ WireMax > 0
BY TasksAssumption

---------------------------------------------------------------------------
RobotInv == mode \in Modes /\ latched \in BOOLEAN /\ goal \in Navs \cup {None} /\ driven \in BOOLEAN

LEMMA EffectType ==
    ASSUME RobotInv, NEW op, NEW ok \in BOOLEAN, Effect(op, ok)
    PROVE  RobotInv'
BY DEF Effect, RobotInv, Modes

LEMMA RobotStep == RobotInv /\ [Next]_vars => RobotInv'
<1> SUFFICES ASSUME RobotInv, [Next]_vars PROVE RobotInv'
  OBVIOUS
<1>1. ASSUME NEW r \in Requests, Request(r) PROVE RobotInv'
  BY <1>1 DEF Request, Submit, RobotInv
<1>2. CASE Worker
  BY <1>2 DEF Worker, TakeWork, SendPose, SendCall, ModeSet, NavigateAnswered, OtherAnswered,
              LineStart, LineStop, RobotInv
<1>3. CASE LineTick
  BY <1>3 DEF LineTick, LineFound, LineMissed, LineLost, LineSafe, LineStops, LineStopped, RobotInv
<1>4. CASE RobotReads
  BY <1>4, EffectType DEF RobotReads
<1>5. CASE GoalEnds \/ InputExpires
  BY <1>5 DEF GoalEnds, InputExpires, RobotInv, Modes
<1>6. CASE (\E b \in Callers : TimesOut(b)) \/ LinkBreaks \/ LinkReturns \/ StatusArrives \/ UNCHANGED vars
  BY <1>6 DEF TimesOut, LinkBreaks, LinkReturns, StatusArrives, vars, RobotInv
<1> QED BY <1>1, <1>2, <1>3, <1>4, <1>5, <1>6 DEF Next

---------------------------------------------------------------------------
(* What is under way, and who waits for an answer.                         *)
Verdicts == {"none", "waiting", "accepted", "refused"}

WireInv ==
    /\ wire \in Seq(Messages) /\ Len(wire) <= WireMax /\ linked \in BOOLEAN /\ cut \in BOOLEAN
    /\ reply \in [Callers -> Verdicts] /\ breaks \in 0 .. MaxBreaks

LEMMA PublishType ==
    ASSUME WireInv, NEW op \in Topics, Publish(op) PROVE WireInv'
<1>1. [op |-> op, by |-> None] \in Messages
  BY DEF Messages
<1> QED BY <1>1, Limits DEF WireInv, Publish, Room

LEMMA CallType ==
    ASSUME WireInv, NEW op \in Calls, NEW b \in Callers, Call(op, b) PROVE WireInv'
<1>1. [op |-> op, by |-> b] \in Messages
  BY DEF Messages
<1> QED BY <1>1, Limits DEF WireInv, Call, Room, Verdicts

LEMMA AnsweredType ==
    ASSUME WireInv, NEW b \in Callers, NEW v, Answered(b, v) PROVE WireInv'
BY DEF WireInv, Answered, Verdicts

LEMMA WireStep == WireInv /\ [Next]_vars => WireInv'
<1> SUFFICES ASSUME WireInv, [Next]_vars PROVE WireInv'
  OBVIOUS
<1> USE PublishType, CallType, AnsweredType
<1>0. /\ "pose" \in Topics /\ "drive" \in Topics /\ "zero" \in Topics
      /\ "stop" \in Calls /\ "worker" \in Callers /\ "tick" \in Callers
  BY DEF Topics, Calls, Callers
<1>1. ASSUME NEW r \in Requests, Request(r) PROVE WireInv'
  BY <1>1 DEF Request, Submit, WireInv
<1>2. CASE Worker
  <2>1. CASE TakeWork \/ LineStart
    BY <2>1 DEF TakeWork, LineStart, WireInv
  <2>2. CASE SendPose \/ LineStop
    BY <2>2, <1>0 DEF SendPose, LineStop
  <2>3. CASE SendCall
    BY <2>3, <1>0 DEF SendCall
  <2>4. CASE ModeSet \/ NavigateAnswered \/ OtherAnswered
    BY <2>4, <1>0 DEF ModeSet, NavigateAnswered, OtherAnswered
  <2> QED BY <1>2, <2>1, <2>2, <2>3, <2>4 DEF Worker
<1>3. CASE LineTick
  <2>1. CASE (\E stale \in BOOLEAN : LineMissed(stale)) \/ LineSafe
    BY <2>1 DEF LineMissed, LineSafe, WireInv
  <2>2. CASE LineFound \/ LineLost
    BY <2>2, <1>0 DEF LineFound, LineLost
  <2>3. CASE LineStops \/ LineStopped
    BY <2>3, <1>0 DEF LineStops, LineStopped
  <2> QED BY <1>3, <2>1, <2>2, <2>3 DEF LineTick
<1>4. CASE RobotReads
  <2>1. wire' \in Seq(Messages) /\ Len(wire') <= WireMax
    BY <1>4, Limits DEF RobotReads, WireInv
  <2>2. reply' \in [Callers -> Verdicts]
    BY <1>4 DEF RobotReads, WireInv, Verdicts
  <2> QED BY <1>4, <2>1, <2>2 DEF RobotReads, WireInv
<1>5. CASE \E b \in Callers : TimesOut(b)
  BY <1>5 DEF TimesOut, WireInv, Verdicts
<1>6. CASE LinkBreaks
  <2>1. reply' \in [Callers -> Verdicts] /\ wire' = <<>> /\ breaks' \in 0 .. MaxBreaks
    BY <1>6, Limits DEF LinkBreaks, WireInv, Verdicts
  <2>2. linked' \in BOOLEAN /\ cut' \in BOOLEAN
    BY <1>6 DEF LinkBreaks, WireInv
  <2> QED BY <2>1, <2>2, Limits DEF WireInv
<1>7. CASE LinkReturns \/ StatusArrives \/ GoalEnds \/ InputExpires \/ UNCHANGED vars
  BY <1>7 DEF LinkReturns, StatusArrives, GoalEnds, InputExpires, vars, WireInv
<1> QED BY <1>1, <1>2, <1>3, <1>4, <1>5, <1>6, <1>7 DEF Next

---------------------------------------------------------------------------
Views == [online : BOOLEAN, mode : Modes, latched : BOOLEAN, moving : BOOLEAN]

ViewInv == view \in Views

LEMMA ViewStep == RobotInv /\ ViewInv /\ [Next]_vars => ViewInv'
<1> SUFFICES ASSUME RobotInv, ViewInv, [Next]_vars PROVE ViewInv'
  OBVIOUS
<1> USE DEF ViewInv
<1>1. CASE StatusArrives
  <2>1. Moving \in BOOLEAN
    BY DEF Moving
  <2> QED BY <1>1, <2>1 DEF StatusArrives, Seen, Views, RobotInv
<1>2. CASE LinkBreaks \/ LineStops
  BY <1>2 DEF LinkBreaks, LineStops, Views
<1>3. CASE UNCHANGED view
  BY <1>3
<1>4. ~ StatusArrives /\ ~ LinkBreaks /\ ~ LineStops => UNCHANGED view
  BY DEF Next, Request, Submit, Worker, TakeWork, SendPose, SendCall, ModeSet, NavigateAnswered,
         OtherAnswered, LineStart, LineStop, LineTick, LineFound, LineMissed, LineLost, LineSafe,
         LineStopped, TimesOut, LinkReturns, RobotReads, GoalEnds, InputExpires, vars
<1> QED BY <1>1, <1>2, <1>3, <1>4

---------------------------------------------------------------------------
(* Each waiting stop was asked for.                                        *)
LanesInv ==
    /\ urgent \in Nat /\ asked \in 0 .. MaxRequests /\ urgent <= asked
    /\ queue \in Seq(Requests \ {"stop"})

LEMMA LanesStep == LanesInv /\ [Next]_vars => LanesInv'
<1> SUFFICES ASSUME LanesInv, [Next]_vars PROVE LanesInv'
  OBVIOUS
<1> USE Limits DEF LanesInv
<1>1. ASSUME NEW r \in Requests, Request(r) PROVE LanesInv'
  BY <1>1 DEF Request, Submit, Free
<1>2. CASE TakeWork
  BY <1>2 DEF TakeWork
<1>3. CASE UNCHANGED lanes
  BY <1>3
<1>4. ~ (\E r \in Requests : Request(r)) /\ ~ TakeWork => UNCHANGED lanes
  BY DEF Next, Worker, SendPose, SendCall, ModeSet, NavigateAnswered,
         OtherAnswered, LineStart, LineStop, LineTick, LineFound, LineMissed, LineLost, LineSafe,
         LineStops, LineStopped, TimesOut, LinkBreaks, LinkReturns, StatusArrives,
         RobotReads, GoalEnds, InputExpires, vars
<1> QED BY <1>1, <1>2, <1>3, <1>4

---------------------------------------------------------------------------
(* A step belongs to a request in work, and the worker waits only for a    *)
(* call of that step.                                                      *)
WorkInv ==
    /\ work \in Requests \cup {None} /\ step \in Steps \cup {None}
    /\ work = None <=> step = None
    /\ reply["worker"] # "none" => step \in Calls
    /\ outcome \in [Navs -> {"none", "accepted", "SUCCEEDED", "FAILED"}]

LEMMA NoneIsNoRequest == None \notin Requests /\ None \notin Steps /\ None \notin Calls
BY Names DEF Requests, Steps, Calls

LEMMA ConcludeType ==
    ASSUME WorkInv, NEW s \in {"SUCCEEDED", "FAILED"}, Conclude(s), reply'["worker"] = "none"
    PROVE  WorkInv'
BY DEF WorkInv, Conclude

LEMMA ThenType ==
    ASSUME WorkInv, NEW next \in Steps, Then(next), work # None, reply'["worker"] = "none"
    PROVE  WorkInv'
BY NoneIsNoRequest DEF WorkInv, Then

LEMMA WorkerStep ==
    ASSUME WireInv, LanesInv, WorkInv, Worker
    PROVE  WorkInv'
<1> USE NoneIsNoRequest, ConcludeType, ThenType
<1>0. /\ "pose" \in Steps /\ "pose" \notin Calls /\ "AUTO" \in Steps /\ "stop" \in Steps
      /\ Calls \subseteq Steps /\ Navs \subseteq Calls /\ Requests \subseteq Steps \cup {"pose"} /\ "stop" \in Requests
      /\ "line_start" \notin Calls /\ "line_stop" \notin Calls
  BY Names DEF Steps, Calls, Requests
<1>1. reply \in [Callers -> Verdicts] /\ "worker" \in Callers /\ "tick" \in Callers
  BY DEF WireInv, Callers
<1>2. ASSUME step \notin Calls PROVE reply["worker"] = "none"
  BY <1>2 DEF WorkInv
<1>3. CASE TakeWork
  <2>1. work' \in Requests
    BY <1>3, <1>0 DEF TakeWork, LanesInv
  <2>2. step' \in Steps
    BY <1>3, <2>1, <1>0 DEF TakeWork, FirstStep
  <2>3. reply["worker"] = "none"
    BY <1>3, <1>2 DEF TakeWork, WorkInv
  <2> QED BY <1>3, <2>1, <2>2, <2>3 DEF TakeWork, WorkInv
<1>4. CASE SendPose
  <2>1. reply' = reply /\ reply["worker"] = "none" /\ work # None
    BY <1>4, <1>0, <1>2 DEF SendPose, Publish, WorkInv
  <2> QED BY <1>4, <1>0, <2>1 DEF SendPose
<1>5. CASE SendCall
  BY <1>5, <1>1 DEF SendCall, Call, WorkInv
<1>6. CASE ModeSet \/ NavigateAnswered \/ OtherAnswered
  <2>1. reply'["worker"] = "none" /\ step # None
    BY <1>6, <1>1, Names DEF ModeSet, NavigateAnswered, OtherAnswered, Answered
  <2>2. work # None
    BY <2>1 DEF WorkInv
  <2>3. CASE ModeSet
    <3>1. CASE Then(work)
      <4>1. work \in Steps
        BY <2>2, <1>0 DEF WorkInv
      <4> QED BY <3>1, <4>1, <2>1, <2>2
    <3> QED BY <2>3, <3>1, <2>1 DEF ModeSet
  <2>4. CASE NavigateAnswered
    BY <2>4, <2>1, <2>2, <1>0 DEF NavigateAnswered
  <2>5. CASE OtherAnswered
    BY <2>5, <2>1 DEF OtherAnswered
  <2> QED BY <1>6, <2>3, <2>4, <2>5
<1>7. CASE LineStart \/ LineStop
  <2>1. reply' = reply /\ reply["worker"] = "none"
    BY <1>7, <1>0, <1>2 DEF LineStart, LineStop, Publish
  <2> QED BY <1>7, <2>1 DEF LineStart, LineStop
<1> QED BY <1>3, <1>4, <1>5, <1>6, <1>7 DEF Worker

LEMMA WorkStep == WireInv /\ LanesInv /\ WorkInv /\ [Next]_vars => WorkInv'
<1> SUFFICES ASSUME WireInv, LanesInv, WorkInv, [Next]_vars PROVE WorkInv'
  OBVIOUS
<1>1. ASSUME NEW r \in Requests, Request(r) PROVE WorkInv'
  BY <1>1 DEF Request, Submit, WorkInv
<1>2. CASE Worker
  BY <1>2, WorkerStep
<1>3. ASSUME UNCHANGED worker, reply'["worker"] # "none" => reply["worker"] # "none"
      PROVE  WorkInv'
  BY <1>3 DEF WorkInv
<1>4. ASSUME LineTick \/ (\E b \in Callers : TimesOut(b)) \/ LinkBreaks \/ LinkReturns \/ StatusArrives
             \/ RobotReads \/ GoalEnds \/ InputExpires \/ UNCHANGED vars
      PROVE  UNCHANGED worker
  BY <1>4 DEF LineTick, LineFound, LineMissed, LineLost, LineSafe, LineStops, LineStopped, TimesOut,
              LinkBreaks, LinkReturns, StatusArrives, RobotReads, GoalEnds, InputExpires, vars
<1>5. reply \in [Callers -> Verdicts] /\ "worker" \in Callers /\ "tick" \in Callers /\ "tick" # "worker"
  BY DEF WireInv, Callers
<1>6. CASE LineTick
  <2>1. reply'["worker"] = reply["worker"]
    BY <1>6, <1>5 DEF LineTick, LineFound, LineMissed, LineLost, LineSafe, LineStops, LineStopped,
                      Publish, Call, Answered
  <2> QED BY <1>3, <1>4, <1>6, <2>1
<1>7. CASE (\E b \in Callers : TimesOut(b)) \/ LinkBreaks
  <2>1. reply'["worker"] # "none" => reply["worker"] # "none"
    BY <1>7, <1>5 DEF TimesOut, LinkBreaks
  <2> QED BY <1>3, <1>4, <1>7, <2>1
<1>8. CASE RobotReads
  <2>1. reply'["worker"] # "none" => reply["worker"] # "none"
    BY <1>8, <1>5 DEF RobotReads, Awaited
  <2> QED BY <1>3, <1>4, <1>8, <2>1
<1>9. CASE LinkReturns \/ StatusArrives \/ GoalEnds \/ InputExpires \/ UNCHANGED vars
  <2>1. reply' = reply
    BY <1>9 DEF LinkReturns, StatusArrives, GoalEnds, InputExpires, vars
  <2> QED BY <1>3, <1>4, <1>9, <2>1
<1> QED BY <1>1, <1>2, <1>6, <1>7, <1>8, <1>9 DEF Next

---------------------------------------------------------------------------
LineInv ==
    /\ line \in Sessions \cup {NoLine}
    /\ tick \in {"idle", "driven", "zeroed", "stopping"}
    /\ held \in BOOLEAN /\ loss \in BOOLEAN
    /\ held => Following

LEMMA NoLineKept == [NoLine EXCEPT !.pending = FALSE] = NoLine
<1>1. NoLine \in [state : {"IDLE"}, misses : {0}, pending : {FALSE}]
  BY DEF NoLine
<1>2. ASSUME NEW x, x \in [state : {"IDLE"}, misses : {0}, pending : {FALSE}]
      PROVE  /\ [x EXCEPT !.pending = FALSE] \in [state : {"IDLE"}, misses : {0}, pending : {FALSE}]
             /\ x = NoLine
  BY <1>2 DEF NoLine
<1> QED BY <1>1, <1>2

LEMMA LineStep == LineInv /\ WireInv /\ [Next]_vars => LineInv'
<1> SUFFICES ASSUME LineInv, WireInv, [Next]_vars PROVE LineInv'
  OBVIOUS
<1> USE Limits DEF LineInv, Following
<1>1. CASE LineStart
  <2>1. CASE UNCHANGED <<line, held, loss>>
    BY <1>1, <2>1 DEF LineStart
  <2>2. CASE line' = [NoLine EXCEPT !.state = "TRACKING"] /\ held' = FALSE /\ loss' = FALSE
    <3>1. line' = [state |-> "TRACKING", misses |-> 0, pending |-> FALSE]
      BY <2>2 DEF NoLine
    <3>2. line' \in Sessions
      BY <3>1 DEF Sessions
    <3> QED BY <1>1, <2>2, <3>2 DEF LineStart
  <2> QED BY <1>1, <2>1, <2>2 DEF LineStart
<1>2. CASE LineStop
  BY <1>2 DEF LineStop
<1>3. CASE LineFound \/ LineLost \/ \E stale \in BOOLEAN : LineMissed(stale)
  <2>1. line \in Sessions
    BY <1>3 DEF LineFound, LineLost, LineMissed
  <2>2. Missed \in 0 .. LossLimit
    BY <2>1 DEF Missed, Sessions
  <2>3. line' \in Sessions
    <3>1. CASE LineFound
      BY <3>1, <2>1 DEF LineFound, Sessions
    <3>2. CASE LineLost
      <4>1. (line.pending \/ line.state # "LOST") \in BOOLEAN
        OBVIOUS
      <4> QED BY <3>2, <4>1 DEF LineLost, Sessions
    <3>3. ASSUME NEW stale \in BOOLEAN, LineMissed(stale) PROVE line' \in Sessions
      BY <3>3, <2>1, <2>2 DEF LineMissed, Sessions
    <3> QED BY <1>3, <3>1, <3>2, <3>3
  <2>4. line' # NoLine
    BY <2>3 DEF Sessions, NoLine
  <2> QED BY <1>3, <2>3, <2>4 DEF LineFound, LineLost, LineMissed, WireInv
<1>4. CASE LineSafe \/ LineStops
  <2>1. Resumed \in Sessions \cup {NoLine}
    BY DEF Resumed, Sessions, NoLine
  <2>2. line' \in Sessions \cup {NoLine}
    <3>1. [Resumed EXCEPT !.pending = FALSE] \in Sessions \cup {NoLine}
      <4>1. CASE Resumed \in Sessions
        BY <4>1 DEF Sessions
      <4>2. CASE Resumed = NoLine
        BY <4>2, NoLineKept
      <4> QED BY <2>1, <4>1, <4>2
    <3> QED BY <1>4, <2>1, <3>1 DEF LineSafe, LineStops
  <2> QED BY <1>4, <2>2 DEF LineSafe, LineStops
<1>5. CASE LineStopped
  BY <1>5 DEF LineStopped
<1>6. CASE RobotReads
  BY <1>6 DEF RobotReads
<1>7. CASE UNCHANGED ticker
  BY <1>7
<1>8. ~ LineStart /\ ~ LineStop /\ ~ LineTick /\ ~ RobotReads => UNCHANGED ticker
  BY DEF Next, Request, Submit, Worker, TakeWork, SendPose, SendCall, ModeSet, NavigateAnswered,
         OtherAnswered, TimesOut, LinkBreaks, LinkReturns, StatusArrives, GoalEnds, InputExpires, vars
<1> QED BY <1>1, <1>2, <1>3, <1>4, <1>5, <1>6, <1>7, <1>8 DEF LineTick

LEMMA TypesAlways == Spec => [](RobotInv /\ WireInv /\ ViewInv /\ LanesInv /\ WorkInv /\ LineInv)
<1>1. Init => RobotInv /\ ViewInv
  <2> SUFFICES ASSUME Init PROVE RobotInv /\ ViewInv
    OBVIOUS
  <2>1. RobotInv
    BY DEF Init, RobotInv, Modes
  <2>2. Moving \in BOOLEAN
    BY DEF Moving
  <2>3. view = [online |-> TRUE, mode |-> mode, latched |-> latched, moving |-> Moving]
    BY DEF Init, Seen
  <2> QED BY <2>1, <2>2, <2>3 DEF ViewInv, Views, RobotInv
<1>2. Init => WireInv /\ LanesInv
  <2> SUFFICES ASSUME Init PROVE WireInv /\ LanesInv
    OBVIOUS
  <2>1. wire = <<>> /\ queue = <<>> /\ reply = [b \in Callers |-> "none"]
    BY DEF Init
  <2>2. reply \in [Callers -> Verdicts] /\ wire \in Seq(Messages) /\ queue \in Seq(Requests \ {"stop"})
    BY <2>1 DEF Verdicts
  <2>3. Len(wire) = 0
    BY <2>1
  <2>4. linked = TRUE /\ cut = FALSE /\ breaks = 0
    BY DEF Init
  <2>5. WireInv
    <3>1. Len(wire) <= WireMax /\ breaks \in 0 .. MaxBreaks
      BY <2>3, <2>4, Limits
    <3>2. linked \in BOOLEAN /\ cut \in BOOLEAN
      BY <2>4
    <3> QED BY <2>2, <3>1, <3>2 DEF WireInv
  <2>6. LanesInv
    BY <2>2, Limits DEF Init, LanesInv
  <2> QED BY <2>5, <2>6
<1>3. Init => WorkInv
  BY DEF Init, WorkInv, Callers
<1>4. Init => LineInv
  BY DEF Init, LineInv, Following
<1> QED BY <1>1, <1>2, <1>3, <1>4, RobotStep, WireStep, ViewStep, LanesStep, WorkStep, LineStep,
           PTL DEF Spec

(* The variables keep their types, for any number of requests and any      *)
(* length of the wire.                                                     *)
THEOREM TypeCorrect == Spec => []TypeOK
<1>1. RobotInv /\ WireInv /\ ViewInv /\ LanesInv /\ WorkInv /\ LineInv => TypeOK
  BY Limits DEF RobotInv, WireInv, ViewInv, Views, LanesInv, WorkInv, LineInv, Verdicts, TypeOK
<1> QED BY <1>1, TypesAlways, PTL

---------------------------------------------------------------------------
(* LastVelocity without CHOOSE.  While nobody follows a line, and while    *)
(* there is no socket to send a velocity on, the last one is a zero.       *)
Speeds == {"drive", "zero"}

NoneAfter(i) == \A j \in i + 1 .. Len(wire) : wire[j].op \notin Speeds

Silent ==
    \/ ~ driven /\ NoneAfter(0)
    \/ \E i \in 1 .. Len(wire) : wire[i].op = "zero" /\ NoneAfter(i)

SilentInv == ~ Following \/ ~ linked => cut \/ Silent

LEMMA SilentLast == WireInv /\ Silent => LastVelocity = "zero"
<1> SUFFICES ASSUME WireInv, Silent PROVE LastVelocity = "zero"
  OBVIOUS
<1> DEFINE sent == {i \in 1 .. Len(wire) : wire[i].op \in {"drive", "zero"}}
<1>1. Len(wire) \in Nat
  BY DEF WireInv
<1>2. CASE ~ driven /\ NoneAfter(0)
  <2>1. sent = {}
    BY <1>1, <1>2 DEF NoneAfter, Speeds
  <2> QED BY <1>2, <2>1 DEF LastVelocity
<1>3. ASSUME NEW i \in 1 .. Len(wire), wire[i].op = "zero", NoneAfter(i)
      PROVE  LastVelocity = "zero"
  <2>1. i \in sent /\ \A j \in sent : j <= i
    BY <1>1, <1>3 DEF NoneAfter, Speeds
  <2>2. \A k \in sent : (\A j \in sent : j <= k) => k = i
    BY <1>1, <2>1
  <2>3. (CHOOSE k \in sent : \A j \in sent : j <= k) = i
    <3> HIDE DEF sent
    <3> QED BY <2>1, <2>2
  <2>4. sent # {}
    BY <2>1
  <2> QED BY <1>3, <2>3, <2>4 DEF LastVelocity
<1> QED BY <1>2, <1>3 DEF Silent

LEMMA SilentUnread == Silent /\ UNCHANGED <<wire, driven>> => Silent'
BY DEF Silent, NoneAfter

LEMMA SilentSent ==
    ASSUME WireInv, NEW m \in Messages, wire' = Append(wire, m), driven' = driven,
           m.op = "zero" \/ (Silent /\ m.op \notin Speeds)
    PROVE  Silent'
<1>1. /\ Len(wire) \in Nat /\ Len(wire') = Len(wire) + 1
      /\ \A i \in 1 .. Len(wire) : wire'[i] = wire[i]
      /\ wire'[Len(wire) + 1] = m
  BY DEF WireInv
<1>2. CASE m.op = "zero"
  <2>1. PICK n \in 1 .. Len(wire') : n = Len(wire) + 1
    BY <1>1
  <2>2. wire'[n].op = "zero"
    BY <1>1, <1>2, <2>1
  <2>3. NoneAfter(n)'
    BY <1>1, <2>1 DEF NoneAfter
  <2> QED BY <2>2, <2>3 DEF Silent
<1>3. CASE Silent /\ m.op \notin Speeds
  <2>1. ASSUME NEW i \in 0 .. Len(wire), NoneAfter(i) PROVE NoneAfter(i)'
    BY <1>1, <1>3, <2>1 DEF NoneAfter
  <2>2. CASE ~ driven /\ NoneAfter(0)
    BY <1>1, <2>1, <2>2 DEF Silent
  <2>3. ASSUME NEW i \in 1 .. Len(wire), wire[i].op = "zero", NoneAfter(i) PROVE Silent'
    <3>1. i \in 1 .. Len(wire') /\ wire'[i].op = "zero" /\ NoneAfter(i)'
      BY <1>1, <2>1, <2>3
    <3> QED BY <3>1 DEF Silent
  <2> QED BY <1>3, <2>2, <2>3 DEF Silent
<1> QED BY <1>2, <1>3

LEMMA EffectOnInput ==
    ASSUME NEW op, NEW ok \in BOOLEAN, Effect(op, ok)
    PROVE  /\ op = "zero" => driven' = FALSE
           /\ op \notin Speeds => driven' = driven
<1>1. CASE op \in Navs
  <2>1. op \notin {"pose", "AUTO", "MANUAL", "stop", "reset_stop", "drive", "zero"}
    BY <1>1, Names
  <2> QED BY <1>1, <2>1 DEF Effect, Speeds
<1>2. CASE op \notin Navs
  BY <1>2 DEF Effect, Speeds
<1> QED BY <1>1, <1>2

LEMMA SilentRead == WireInv /\ Silent /\ RobotReads => Silent'
<1> SUFFICES ASSUME WireInv, Silent, RobotReads PROVE Silent'
  OBVIOUS
<1>1. /\ Len(wire) \in Nat /\ Len(wire) > 0 /\ Len(wire') = Len(wire) - 1
      /\ Head(wire) = wire[1]
      /\ \A i \in 1 .. Len(wire) - 1 : wire'[i] = wire[i + 1]
  BY DEF WireInv, RobotReads
<1>2. /\ wire[1].op = "zero" => driven' = FALSE
      /\ wire[1].op \notin Speeds => driven' = driven
  BY <1>1, EffectOnInput DEF RobotReads
<1>3. ASSUME NEW i \in 1 .. Len(wire), NoneAfter(i) PROVE NoneAfter(i - 1)'
  <2>1. ASSUME NEW j \in i .. Len(wire') PROVE wire'[j].op \notin Speeds
    <3>1. j + 1 \in i + 1 .. Len(wire) /\ wire'[j] = wire[j + 1]
      BY <1>1, <2>1
    <3> QED BY <1>3, <3>1 DEF NoneAfter
  <2>2. (i - 1) + 1 = i
    BY <1>1
  <2> QED BY <2>1, <2>2 DEF NoneAfter
<1>4. CASE ~ driven /\ NoneAfter(0)
  <2>1. wire[1].op \notin Speeds /\ NoneAfter(1)
    BY <1>1, <1>4 DEF NoneAfter
  <2>2. NoneAfter(0)'
    BY <1>1, <1>3, <2>1
  <2> QED BY <1>2, <1>4, <2>1, <2>2 DEF Silent
<1>5. ASSUME NEW i \in 1 .. Len(wire), wire[i].op = "zero", NoneAfter(i) PROVE Silent'
  <2>1. NoneAfter(i - 1)'
    BY <1>3, <1>5
  <2>2. CASE i = 1
    <3>1. NoneAfter(0)' /\ driven' = FALSE
      BY <1>2, <1>5, <2>1, <2>2
    <3> QED BY <3>1 DEF Silent
  <2>3. CASE i # 1
    <3>1. i - 1 \in 1 .. Len(wire') /\ wire'[i - 1].op = "zero"
      BY <1>1, <1>5, <2>3
    <3> QED BY <2>1, <3>1 DEF Silent
  <2> QED BY <2>2, <2>3
<1> QED BY <1>4, <1>5 DEF Silent

(* The tick only ever works on a session: it neither begins nor ends one.  *)
LEMMA FollowingStays == LineInv /\ LineTick => (Following' <=> Following)
<1> SUFFICES ASSUME LineInv, LineTick PROVE Following' <=> Following
  OBVIOUS
<1>1. line \in Sessions => line # NoLine /\ line.state # "IDLE"
  BY DEF Sessions, NoLine
<1>2. CASE ~ Following
  <2>1. line = NoLine /\ ~ held /\ ~ line.pending /\ Resumed = line
    BY <1>2 DEF LineInv, Following, Resumed, NoLine
  <2> QED BY <1>2, <2>1 DEF LineTick, LineFound, LineMissed, LineLost, LineSafe, LineStops,
                            LineStopped, Following
<1>3. CASE Following
  <2>1. line \in Sessions
    BY <1>3 DEF LineInv, Following
  <2>2. line' # NoLine
    <3>1. CASE LineFound
      BY <3>1, <2>1 DEF LineFound, Sessions, NoLine
    <3>2. ASSUME NEW stale \in BOOLEAN, LineMissed(stale) PROVE line' # NoLine
      BY <3>2, <2>1 DEF LineMissed, Sessions, NoLine
    <3>3. CASE LineLost
      BY <3>3 DEF LineLost, NoLine
    <3>4. Resumed.state # "IDLE" /\ Resumed \in Sessions
      BY <2>1 DEF Resumed, Sessions
    <3>5. CASE LineSafe \/ LineStops
      BY <3>4, <3>5 DEF LineSafe, LineStops, Sessions, NoLine
    <3>6. CASE LineStopped
      BY <3>6, <2>1, <1>1 DEF LineStopped
    <3> QED BY <3>1, <3>2, <3>3, <3>5, <3>6 DEF LineTick
  <2> QED BY <1>3, <2>2 DEF Following
<1> QED BY <1>2, <1>3

LEMMA SilentStep == WireInv /\ LineInv /\ SilentInv /\ [Next]_vars => SilentInv'
<1> SUFFICES ASSUME WireInv, LineInv, SilentInv, [Next]_vars PROVE SilentInv'
  OBVIOUS
<1>1. ASSUME UNCHANGED <<wire, driven, linked, cut>>, Following' <=> Following
      PROVE  SilentInv'
  BY <1>1, SilentUnread DEF SilentInv
<1>2. ASSUME NEW op \in Topics \cup Calls, NEW b \in {None} \cup Callers, [op |-> op, by |-> b] \in Messages,
             wire' = IF linked THEN Append(wire, [op |-> op, by |-> b]) ELSE wire,
             UNCHANGED <<driven, linked, cut>>,
             op = "zero" \/ (op \notin Speeds /\ (Following' <=> Following))
      PROVE  SilentInv'
  <2>1. CASE ~ linked
    BY <1>2, <2>1, SilentUnread DEF SilentInv
  <2>2. CASE linked
    BY <1>2, <2>2, SilentSent DEF SilentInv
  <2> QED BY <2>1, <2>2
<1>3. /\ \A t \in Topics : [op |-> t, by |-> None] \in Messages
      /\ \A c \in Calls, b \in Callers : [op |-> c, by |-> b] \in Messages
      /\ \A c \in Calls : c \notin Speeds
      /\ "pose" \in Topics /\ "zero" \in Topics /\ "pose" \notin Speeds
      /\ "stop" \in Calls /\ "worker" \in Callers /\ "tick" \in Callers
  <2>1. \A c \in Calls : c \notin Speeds
    BY Names DEF Calls, Speeds
  <2> QED BY <2>1 DEF Messages, Topics, Calls, Callers, Speeds
<1>4. ASSUME NEW r \in Requests, Request(r) PROVE SilentInv'
  BY <1>1, <1>4 DEF Request, Submit, Following
<1>5. CASE TakeWork \/ ModeSet \/ NavigateAnswered \/ OtherAnswered
  BY <1>1, <1>5 DEF TakeWork, ModeSet, NavigateAnswered, OtherAnswered, Answered, Following
<1>6. CASE SendPose
  BY <1>2, <1>3, <1>6 DEF SendPose, Publish, Following
<1>7. CASE SendCall
  BY <1>2, <1>3, <1>7 DEF SendCall, Call, Following
<1>8. CASE LineStart
  <2>1. UNCHANGED <<wire, driven, linked, cut>>
    BY <1>8 DEF LineStart
  <2>2. line' # line => Following'
    BY <1>8 DEF LineStart, NoLine, Following
  <2> QED BY <2>1, <2>2, SilentUnread DEF SilentInv, Following
<1>9. CASE LineStop
  BY <1>2, <1>3, <1>9 DEF LineStop, Publish
<1>10. CASE LineFound
  <2>1. Following /\ Following' /\ UNCHANGED <<driven, linked, cut>>
    BY <1>10, FollowingStays DEF LineTick, LineFound, Publish
  <2>2. ~ linked => wire' = wire
    BY <1>10 DEF LineFound, Publish
  <2> QED BY <2>1, <2>2, SilentUnread DEF SilentInv
<1>11. CASE LineLost
  BY <1>2, <1>3, <1>11 DEF LineLost, Publish
<1>12. CASE LineStops
  BY <1>2, <1>3, <1>12, FollowingStays DEF LineTick, LineStops, Call
<1>13. CASE LineSafe \/ LineStopped \/ \E stale \in BOOLEAN : LineMissed(stale)
  <2>1. UNCHANGED <<wire, driven, linked, cut>>
    BY <1>13 DEF LineSafe, LineStopped, LineMissed, Answered
  <2> QED BY <1>1, <1>13, <2>1, FollowingStays DEF LineTick
<1>14. CASE LinkBreaks
  <2>1. CASE wire # <<>> \/ driven \/ Following \/ cut
    BY <1>14, <2>1 DEF LinkBreaks, SilentInv
  <2>2. CASE wire = <<>> /\ ~ driven /\ ~ Following /\ ~ cut
    <3>1. wire' = wire /\ driven' = driven
      BY <1>14, <2>2 DEF LinkBreaks
    <3>2. Silent
      BY <2>2 DEF SilentInv
    <3>3. Silent'
      BY <3>1, <3>2, SilentUnread
    <3> QED BY <3>3 DEF SilentInv
  <2> QED BY <2>1, <2>2
<1>15. CASE LinkReturns
  <2>1. UNCHANGED <<wire, driven, cut, line>> /\ ~ linked
    BY <1>15 DEF LinkReturns
  <2> QED BY <2>1, SilentUnread DEF SilentInv
<1>16. CASE RobotReads
  <2>1. UNCHANGED <<linked, cut, line>>
    BY <1>16 DEF RobotReads
  <2> QED BY <1>16, <2>1, SilentRead DEF SilentInv, Following
<1>17. CASE InputExpires
  <2>1. UNCHANGED <<wire, linked, cut, line>> /\ driven' = FALSE
    BY <1>17 DEF InputExpires
  <2>2. Silent => Silent'
    BY <2>1 DEF Silent, NoneAfter
  <2> QED BY <2>1, <2>2 DEF SilentInv, Following
<1>18. CASE (\E b \in Callers : TimesOut(b)) \/ StatusArrives \/ GoalEnds \/ UNCHANGED vars
  BY <1>1, <1>18 DEF TimesOut, StatusArrives, GoalEnds, vars, Following
<1> QED BY <1>4, <1>5, <1>6, <1>7, <1>8, <1>9, <1>10, <1>11, <1>12, <1>13, <1>14, <1>15, <1>16, <1>17, <1>18
        DEF Next, Worker, LineTick

(* After line following was stopped, no velocity still under way drives    *)
(* the robot, unless a connection broke: LineFollowService.stop sends its  *)
(* zero behind whatever the tick had sent.                                 *)
THEOREM EndedLineAlwaysSilent == Spec => []EndedLineIsSilent
<1>1. Init => SilentInv
  <2> SUFFICES ASSUME Init PROVE SilentInv
    OBVIOUS
  <2>1. ~ driven /\ Len(wire) = 0
    BY DEF Init
  <2> QED BY <2>1 DEF SilentInv, Silent, NoneAfter
<1>2. WireInv /\ SilentInv => EndedLineIsSilent
  BY SilentLast DEF SilentInv, EndedLineIsSilent
<1> QED BY <1>1, <1>2, SilentStep, TypesAlways, PTL DEF Spec

---------------------------------------------------------------------------
(* Where a stop is on the wire.                                            *)
StopUnderWay == \E i \in 1 .. Len(wire) : wire[i].op = "stop"

LEMMA AppendWire ==
    ASSUME WireInv, NEW m \in Messages, wire' = Append(wire, m)
    PROVE  /\ Len(wire) \in Nat /\ Len(wire') = Len(wire) + 1
           /\ \A i \in 1 .. Len(wire) : wire'[i] = wire[i]
           /\ wire'[Len(wire) + 1] = m
BY DEF WireInv

LEMMA ReadWire ==
    ASSUME WireInv, RobotReads
    PROVE  /\ Len(wire) \in Nat /\ Len(wire) > 0 /\ Len(wire') = Len(wire) - 1
           /\ Head(wire) = wire[1]
           /\ \A i \in 1 .. Len(wire) - 1 : wire'[i] = wire[i + 1]
BY DEF WireInv, RobotReads

LEMMA StopSent ==
    ASSUME WireInv, NEW m \in Messages, wire' = Append(wire, m), StopUnderWay \/ m.op = "stop"
    PROVE  StopUnderWay'
<1>1. CASE StopUnderWay
  <2>1. PICK i \in 1 .. Len(wire) : wire[i].op = "stop"
    BY <1>1 DEF StopUnderWay
  <2>2. i \in 1 .. Len(wire') /\ wire'[i].op = "stop"
    BY <2>1, AppendWire
  <2> QED BY <2>2 DEF StopUnderWay
<1>2. CASE m.op = "stop"
  <2>1. PICK n \in 1 .. Len(wire') : n = Len(wire) + 1
    BY AppendWire
  <2>2. wire'[n].op = "stop"
    BY <1>2, <2>1, AppendWire
  <2> QED BY <2>2 DEF StopUnderWay
<1> QED BY <1>1, <1>2

LEMMA StopRead ==
    ASSUME WireInv, RobotReads, StopUnderWay PROVE Head(wire).op = "stop" \/ StopUnderWay'
<1>1. PICK i \in 1 .. Len(wire) : wire[i].op = "stop"
  BY DEF StopUnderWay
<1>2. CASE i = 1
  BY <1>1, <1>2, ReadWire
<1>3. CASE i # 1
  <2>1. i - 1 \in 1 .. Len(wire') /\ (i - 1) + 1 = i
    BY <1>1, <1>3, ReadWire
  <2>2. wire'[i - 1].op = "stop"
    BY <1>1, <2>1, ReadWire
  <2> QED BY <2>1, <2>2 DEF StopUnderWay
<1> QED BY <1>2, <1>3

(* What a sender puts on the wire is at its end.                           *)
Sends(op) == \/ wire' = wire
             \/ \E m \in Messages : m.op = op /\ wire' = Append(wire, m)

LEMMA PublishSends == ASSUME NEW op \in Topics, Publish(op) PROVE Sends(op)
<1>1. [op |-> op, by |-> None] \in Messages /\ [op |-> op, by |-> None].op = op
  BY DEF Messages
<1> QED BY <1>1 DEF Publish, Sends

LEMMA CallSends == ASSUME NEW op \in Calls, NEW b \in Callers, Call(op, b) PROVE Sends(op)
<1>1. [op |-> op, by |-> b] \in Messages /\ [op |-> op, by |-> b].op = op
  BY DEF Messages
<1> QED BY <1>1 DEF Call, Sends

LEMMA StopStays == ASSUME WireInv, NEW op, Sends(op), StopUnderWay PROVE StopUnderWay'
<1>1. CASE wire' = wire
  BY <1>1 DEF StopUnderWay
<1> QED BY <1>1, StopSent DEF Sends

LEMMA OpKinds == /\ "pose" \in Topics /\ "drive" \in Topics /\ "zero" \in Topics
                 /\ "stop" \in Calls /\ "AUTO" \in Calls /\ "worker" \in Callers /\ "tick" \in Callers
BY DEF Topics, Calls, Callers

(* Between the tick that saw the loss and its protective stop, the stop is *)
(* still owed; a stop that cannot be sent finds the connection broken.     *)
LossInv == loss => \/ cut \/ StopUnderWay
                   \/ tick = "zeroed" /\ line.pending /\ linked

LEMMA LossStep == WireInv /\ LineInv /\ LossInv /\ [Next]_vars => LossInv'
<1> SUFFICES ASSUME WireInv, LineInv, LossInv, [Next]_vars PROVE LossInv'
  OBVIOUS
<1> USE OpKinds
<1>1. ASSUME NEW op, Sends(op), cut' = cut, loss' => loss,
             loss => cut \/ StopUnderWay \/ (UNCHANGED <<tick, line>> /\ (linked => linked'))
      PROVE  LossInv'
  BY <1>1, StopStays DEF LossInv
<1>2. ASSUME NEW r \in Requests, Request(r) PROVE LossInv'
  BY <1>1, <1>2 DEF Request, Submit, Sends
<1>3. CASE Worker
  <2>1. CASE TakeWork \/ ModeSet \/ NavigateAnswered \/ OtherAnswered
    BY <1>1, <2>1 DEF TakeWork, ModeSet, NavigateAnswered, OtherAnswered, Answered, Sends
  <2>2. CASE SendPose
    <3>1. Sends("pose") /\ UNCHANGED <<cut, loss, tick, line, linked>>
      BY <2>2, PublishSends DEF SendPose, Publish
    <3> QED BY <1>1, <3>1
  <2>3. CASE SendCall
    <3>1. Sends(step) /\ UNCHANGED <<cut, loss, tick, line, linked>>
      BY <2>3, CallSends DEF SendCall, Call
    <3> QED BY <1>1, <3>1
  <2>4. CASE LineStart
    <3>1. loss' = FALSE \/ UNCHANGED <<loss, tick, line>>
      BY <2>4 DEF LineStart
    <3>2. UNCHANGED <<wire, cut, linked>>
      BY <2>4 DEF LineStart
    <3> QED BY <1>1, <3>1, <3>2 DEF LossInv, Sends
  <2>5. CASE LineStop
    BY <2>5 DEF LineStop, LossInv
  <2> QED BY <1>3, <2>1, <2>2, <2>3, <2>4, <2>5 DEF Worker
<1>4. CASE LineFound
  <2>1. Sends("drive") /\ UNCHANGED <<cut, loss>> /\ tick = "idle"
    BY <1>4, PublishSends DEF LineFound, Publish
  <2> QED BY <1>1, <2>1 DEF LossInv
<1>5. ASSUME NEW stale \in BOOLEAN, LineMissed(stale) PROVE LossInv'
  <2>1. UNCHANGED <<wire, cut, loss>> /\ tick = "idle"
    BY <1>5 DEF LineMissed
  <2> QED BY <1>1, <2>1 DEF LossInv, Sends
<1>6. CASE LineLost
  <2>1. Sends("zero") /\ UNCHANGED <<cut, linked>> /\ tick = "idle" /\ tick' = "zeroed"
    BY <1>6, PublishSends DEF LineLost, Publish
  <2>2. loss' => loss \/ (linked /\ line.state # "LOST")
    BY <1>6 DEF LineLost
  <2>3. line.state # "LOST" => line'.pending
    BY <1>6 DEF LineLost
  <2>4. loss => cut \/ StopUnderWay'
    BY <2>1, StopStays DEF LossInv
  <2> QED BY <2>1, <2>2, <2>3, <2>4 DEF LossInv
<1>7. CASE LineSafe
  <2>1. UNCHANGED <<wire, cut, loss>> /\ ~ line.pending
    BY <1>7 DEF LineSafe
  <2> QED BY <1>1, <2>1 DEF LossInv, Sends
<1>8. CASE LineStops
  <2>1. Sends("stop") /\ UNCHANGED <<cut, loss>>
    BY <1>8, CallSends DEF LineStops, Call
  <2>2. CASE linked
    <3>1. [op |-> "stop", by |-> "tick"] \in Messages
      BY DEF Messages
    <3>2. wire' = Append(wire, [op |-> "stop", by |-> "tick"])
      BY <1>8, <2>2 DEF LineStops, Call
    <3>3. StopUnderWay'
      BY <3>1, <3>2, StopSent
    <3> QED BY <3>3 DEF LossInv
  <2>3. CASE ~ linked
    BY <1>1, <2>1, <2>3 DEF LossInv
  <2> QED BY <2>2, <2>3
<1>9. CASE LineStopped
  <2>1. UNCHANGED <<wire, cut, loss>> /\ tick = "stopping"
    BY <1>9 DEF LineStopped, Answered
  <2> QED BY <1>1, <2>1 DEF LossInv, Sends
<1>10. CASE LinkBreaks
  <2>1. StopUnderWay => wire # <<>>
    BY DEF StopUnderWay
  <2>2. cut' = (cut \/ wire # <<>> \/ work # None \/ tick # "idle" \/ driven \/ Following)
        /\ loss' = loss
    BY <1>10 DEF LinkBreaks
  <2> QED BY <2>1, <2>2 DEF LossInv
<1>11. CASE RobotReads
  <2>1. UNCHANGED <<linked, cut, tick, line>> /\ loss' = (loss /\ Head(wire).op # "stop")
    BY <1>11 DEF RobotReads
  <2> QED BY <1>11, <2>1, StopRead DEF LossInv
<1>12. CASE (\E b \in Callers : TimesOut(b)) \/ LinkReturns \/ StatusArrives \/ GoalEnds
            \/ InputExpires \/ UNCHANGED vars
  BY <1>1, <1>12 DEF TimesOut, LinkReturns, StatusArrives, GoalEnds, InputExpires, vars, Sends
<1> QED BY <1>2, <1>3, <1>4, <1>5, <1>6, <1>7, <1>8, <1>9, <1>10, <1>11, <1>12 DEF Next, LineTick

(* When a tick that saw the line lost is over, the robot was stopped or a  *)
(* stop is under way, unless a connection broke: take_safety_stop is asked *)
(* in the same tick, and its call is sent behind the zero.                 *)
THEOREM LossAlwaysStopped == Spec => []LossIsStopped
<1>1. Init => LossInv
  BY DEF Init, LossInv
<1>2. LossInv => LossIsStopped
  BY DEF LossInv, StopUnderWay, LossIsStopped
<1> QED BY <1>1, <1>2, LossStep, TypesAlways, PTL DEF Spec

---------------------------------------------------------------------------
(* A navigation is accepted once: it waits in the queue in one place, or   *)
(* the worker has it, and what the worker sends belongs to it.             *)
Queued(n) == \E i \in 1 .. Len(queue) : queue[i] = n

OnePlace(n) == \A i, j \in 1 .. Len(queue) : queue[i] = n /\ queue[j] = n => i = j

NavInv ==
    /\ work \in Navs => outcome[work] = "accepted" /\ step \in {"pose", "AUTO", work, "stop"}
    /\ work \notin Navs => step = work
    /\ \A n \in Navs : Queued(n) => outcome[n] = "accepted" /\ work # n
    /\ \A n \in Navs : OnePlace(n)

LEMMA QueueAppended ==
    ASSUME LanesInv, NEW r \in Requests \ {"stop"}, queue' = Append(queue, r), NEW n
    PROVE  /\ Queued(n)' => Queued(n) \/ n = r
           /\ OnePlace(n) /\ (n # r \/ ~ Queued(n)) => OnePlace(n)'
<1>1. /\ Len(queue) \in Nat /\ Len(queue') = Len(queue) + 1
      /\ \A i \in 1 .. Len(queue) : queue'[i] = queue[i]
      /\ queue'[Len(queue) + 1] = r
  BY DEF LanesInv
<1>2. ASSUME Queued(n)' PROVE Queued(n) \/ n = r
  <2>1. PICK i \in 1 .. Len(queue') : queue'[i] = n
    BY <1>2 DEF Queued
  <2>2. CASE i \in 1 .. Len(queue)
    BY <1>1, <2>1, <2>2 DEF Queued
  <2>3. CASE i \notin 1 .. Len(queue)
    BY <1>1, <2>1, <2>3
  <2> QED BY <2>2, <2>3
<1>3. ASSUME OnePlace(n), n # r \/ ~ Queued(n) PROVE OnePlace(n)'
  <2>1. CASE n # r
    <3>1. \A i \in 1 .. Len(queue') : queue'[i] = n => i \in 1 .. Len(queue) /\ queue[i] = n
      BY <1>1, <2>1
    <3> QED BY <1>3, <3>1 DEF OnePlace
  <2>2. CASE ~ Queued(n)
    <3>1. \A i \in 1 .. Len(queue') : queue'[i] = n => i = Len(queue) + 1
      BY <1>1, <2>2 DEF Queued
    <3> QED BY <3>1 DEF OnePlace
  <2> QED BY <1>3, <2>1, <2>2
<1> QED BY <1>2, <1>3

LEMMA QueueTaken ==
    ASSUME LanesInv, queue # <<>>, queue' = Tail(queue), NEW n, OnePlace(n)
    PROVE  /\ Queued(n)' => Queued(n) /\ n # Head(queue)
           /\ OnePlace(n)' /\ Queued(Head(queue))
<1>1. /\ Len(queue) \in Nat /\ Len(queue) > 0 /\ Len(queue') = Len(queue) - 1
      /\ Head(queue) = queue[1]
      /\ \A i \in 1 .. Len(queue) - 1 : queue'[i] = queue[i + 1]
  BY DEF LanesInv
<1>2. ASSUME Queued(n)' PROVE Queued(n) /\ n # Head(queue)
  <2>1. PICK i \in 1 .. Len(queue) - 1 : queue'[i] = n
    BY <1>1, <1>2 DEF Queued
  <2>2. i + 1 \in 1 .. Len(queue) /\ queue[i + 1] = n /\ i + 1 # 1
    BY <1>1, <2>1
  <2>3. queue[1] # n
    BY <1>1, <2>2 DEF OnePlace
  <2> QED BY <1>1, <2>2, <2>3 DEF Queued
<1>3. OnePlace(n)'
  BY <1>1 DEF OnePlace
<1>4. Queued(Head(queue))
  BY <1>1 DEF Queued
<1> QED BY <1>2, <1>3, <1>4

LEMMA ConcludeNav ==
    ASSUME WorkInv, NavInv, NEW s, Conclude(s), UNCHANGED queue PROVE NavInv'
<1>1. work' = None /\ step' = None /\ \A n \in Navs : n # work => outcome'[n] = outcome[n]
  BY DEF Conclude, WorkInv
<1> QED BY <1>1, Names DEF NavInv, Queued, OnePlace

LEMMA ThenNav ==
    ASSUME NavInv, work \in Navs, NEW next, Then(next), next \in {"AUTO", work, "stop"},
           UNCHANGED queue
    PROVE  NavInv'
BY DEF NavInv, Then, Queued, OnePlace

LEMMA NavStep == LanesInv /\ WorkInv /\ NavInv /\ [Next]_vars => NavInv'
<1> SUFFICES ASSUME LanesInv, WorkInv, NavInv, [Next]_vars PROVE NavInv'
  OBVIOUS
<1> USE ConcludeNav
<1>1. ASSUME NEW r \in Requests, Request(r) PROVE NavInv'
  <2>1. UNCHANGED <<work, step>>
    BY <1>1 DEF Request, Submit
  <2>2. \A n \in Navs : outcome'[n] = IF n = r THEN "accepted" ELSE outcome[n]
    BY <1>1 DEF Request, Submit
  <2>3. r \in Navs => outcome[r] = "none" /\ ~ Queued(r) /\ work # r
    BY <1>1 DEF Request, NavInv
  <2>4. CASE r = "stop"
    <3>1. queue' = queue /\ r \notin Navs
      BY <1>1, <2>4, Names DEF Request, Submit
    <3> QED BY <2>1, <2>2, <3>1 DEF NavInv, Queued, OnePlace
  <2>5. CASE r # "stop"
    <3>1. queue' = Append(queue, r) /\ r \in Requests \ {"stop"}
      BY <1>1, <2>5 DEF Request, Submit
    <3>2. ASSUME NEW n \in Navs, Queued(n)' PROVE outcome'[n] = "accepted" /\ work' # n
      BY <2>1, <2>2, <2>3, <3>1, <3>2, QueueAppended DEF NavInv
    <3>3. ASSUME NEW n \in Navs PROVE OnePlace(n)'
      BY <2>3, <3>1, QueueAppended DEF NavInv
    <3> QED BY <2>1, <2>2, <3>2, <3>3 DEF NavInv
  <2> QED BY <2>4, <2>5
<1>2. CASE TakeWork
  <2>1. /\ outcome' = outcome /\ work = None /\ work \notin Navs /\ "stop" \notin Navs
        /\ step' = (IF work' \in Navs THEN "pose" ELSE work')
    BY <1>2, Names DEF TakeWork, FirstStep
  <2>2. CASE work' = "stop" /\ queue' = queue
    BY <2>1, <2>2, Names DEF NavInv, Queued, OnePlace
  <2>3. CASE queue # <<>> /\ work' = Head(queue) /\ queue' = Tail(queue)
    <3>1. \A n \in Navs : OnePlace(n)' /\ (Queued(n)' => Queued(n) /\ n # work')
      BY <2>3, QueueTaken DEF NavInv
    <3>2. ASSUME work' \in Navs PROVE outcome[work'] = "accepted"
      <4>1. PICK n \in Navs : n = Head(queue)
        BY <2>3, <3>2
      <4>2. Queued(n)
        BY <2>3, <4>1 DEF Queued, LanesInv
      <4> QED BY <2>3, <4>1, <4>2 DEF NavInv
    <3> QED BY <2>1, <3>1, <3>2 DEF NavInv
  <2> QED BY <1>2, <2>2, <2>3 DEF TakeWork
<1>3. CASE SendPose
  <2>1. CASE Then("AUTO") /\ work \in Navs
    BY <1>3, <2>1, ThenNav DEF SendPose
  <2> QED BY <1>3, <2>1 DEF SendPose
<1>4. CASE ModeSet
  <2>1. work \in Navs
    BY <1>4, Names DEF ModeSet, NavInv, WorkInv, Requests
  <2>2. CASE Then(work)
    <3>1. PICK w \in Navs : w = work
      BY <2>1
    <3>2. Then(w)
      BY <2>2, <3>1
    <3> QED BY <1>4, <2>1, <3>1, <3>2, ThenNav DEF ModeSet
  <2> QED BY <1>4, <2>2 DEF ModeSet
<1>5. CASE NavigateAnswered
  <2>1. work \in Navs
    BY <1>5 DEF NavigateAnswered, NavInv
  <2> QED BY <1>5, <2>1, ThenNav DEF NavigateAnswered
<1>6. CASE OtherAnswered \/ LineStart \/ LineStop
  BY <1>6 DEF OtherAnswered, LineStart, LineStop
<1>7. CASE UNCHANGED <<work, step, outcome, queue>>
  BY <1>7 DEF NavInv, Queued, OnePlace
<1>8. \/ \E r \in Requests : Request(r)
      \/ TakeWork \/ SendPose \/ ModeSet \/ NavigateAnswered \/ OtherAnswered \/ LineStart
      \/ LineStop \/ UNCHANGED <<work, step, outcome, queue>>
  BY DEF Next, Worker, SendCall, LineTick, LineFound, LineMissed, LineLost, LineSafe, LineStops,
         LineStopped, TimesOut, LinkBreaks, LinkReturns, StatusArrives, RobotReads, GoalEnds,
         InputExpires, vars
<1> QED BY <1>1, <1>2, <1>3, <1>4, <1>5, <1>6, <1>7, <1>8

(* As long as the worker may still send the goal of n, the robot has not   *)
(* seen it and it is not on the wire.  A goal whose command failed has a   *)
(* stop behind it, on the wire or where the robot has it already.          *)
Unsent(n) == goal # n /\ \A i \in 1 .. Len(wire) : wire[i].op # n

Behind(n) ==
    /\ goal = n => StopUnderWay
    /\ \A i \in 1 .. Len(wire) :
          wire[i].op = n => \E j \in 1 .. Len(wire) : j > i /\ wire[j].op = "stop"

ToSend(n) ==
    \/ outcome[n] = "none"
    \/ outcome[n] = "accepted" /\ work # n
    \/ work = n /\ (step \in {"pose", "AUTO"} \/ (step = n /\ reply["worker"] = "none"))

SentOf(n) ==
    /\ ToSend(n) => Unsent(n)
    /\ work = n /\ ~ linked => cut \/ Unsent(n)
    /\ work = n /\ step = "stop" /\ reply["worker"] # "none" => cut \/ Behind(n)
    /\ outcome[n] = "FAILED" => cut \/ Behind(n)

SentInv == \A n \in Navs : SentOf(n)

LEMMA UnsentBehind == ASSUME NEW n, Unsent(n) PROVE Behind(n)
BY DEF Unsent, Behind

LEMMA SendsKeeps ==
    ASSUME WireInv, NEW op, Sends(op), NEW n, op # n, goal' = goal \/ (goal' = None /\ n # None)
    PROVE  (Unsent(n) => Unsent(n)') /\ (Behind(n) => Behind(n)')
<1>1. CASE wire' = wire
  BY <1>1 DEF Unsent, Behind, StopUnderWay
<1>2. CASE \E m \in Messages : m.op = op /\ wire' = Append(wire, m)
  <2>1. PICK m \in Messages : m.op = op /\ wire' = Append(wire, m)
    BY <1>2
  <2>2. /\ Len(wire) \in Nat /\ Len(wire') = Len(wire) + 1 /\ wire'[Len(wire) + 1].op = op
        /\ \A i \in 1 .. Len(wire) : wire'[i] = wire[i]
    BY <2>1, AppendWire
  <2>3. \A i \in 1 .. Len(wire') : wire'[i].op = n => i \in 1 .. Len(wire) /\ wire[i].op = n
    BY <2>2
  <2>4. \A j \in 1 .. Len(wire) : j \in 1 .. Len(wire') /\ wire'[j].op = wire[j].op
    BY <2>2
  <2>5. StopUnderWay => StopUnderWay'
    BY <2>4 DEF StopUnderWay
  <2> QED BY <2>3, <2>4, <2>5 DEF Unsent, Behind
<1> QED BY <1>1, <1>2 DEF Sends

LEMMA StopBehind ==
    ASSUME WireInv, NEW m \in Messages, m.op = "stop", wire' = Append(wire, m), NEW n \in Navs
    PROVE  Behind(n)'
<1>1. /\ Len(wire) \in Nat /\ Len(wire') = Len(wire) + 1 /\ wire'[Len(wire) + 1].op = "stop"
  BY AppendWire
<1>2. PICK j \in 1 .. Len(wire') : j = Len(wire) + 1
  BY <1>1
<1>3. \A i \in 1 .. Len(wire') : wire'[i].op = n => j > i
  BY <1>1, <1>2, Names
<1> QED BY <1>1, <1>2, <1>3 DEF Behind, StopUnderWay

LEMMA ReadKeeps ==
    ASSUME WireInv, RobotReads, NEW n \in Navs
    PROVE  (Unsent(n) => Unsent(n)') /\ (Behind(n) => Behind(n)')
<1>1. /\ Len(wire) \in Nat /\ Len(wire) > 0 /\ Len(wire') = Len(wire) - 1
      /\ Head(wire) = wire[1]
      /\ \A i \in 1 .. Len(wire) - 1 : wire'[i] = wire[i + 1]
  BY ReadWire
<1>2. goal' \in {goal, None, wire[1].op} /\ (wire[1].op = "stop" => goal' = None)
  <2>1. PICK ok \in BOOLEAN : Effect(wire[1].op, ok)
    BY <1>1 DEF RobotReads
  <2> QED BY <2>1, Names DEF Effect, robot
<1>3. n # None
  BY Names
<1>4. ASSUME Unsent(n) PROVE Unsent(n)'
  <2>1. goal' # n
    BY <1>1, <1>2, <1>3, <1>4 DEF Unsent
  <2>2. \A i \in 1 .. Len(wire') : wire'[i].op # n
    BY <1>1, <1>4 DEF Unsent
  <2> QED BY <2>1, <2>2 DEF Unsent
<1>5. ASSUME Behind(n) PROVE Behind(n)'
  <2>1. ASSUME NEW i \in 1 .. Len(wire'), wire'[i].op = n
        PROVE  \E j \in 1 .. Len(wire') : j > i /\ wire'[j].op = "stop"
    <3>1. i + 1 \in 1 .. Len(wire) /\ wire[i + 1].op = n
      BY <1>1, <2>1
    <3>2. PICK j \in 1 .. Len(wire) : j > i + 1 /\ wire[j].op = "stop"
      BY <1>5, <3>1 DEF Behind
    <3>3. j - 1 \in 1 .. Len(wire') /\ j - 1 > i /\ (j - 1) + 1 = j
      BY <1>1, <2>1, <3>2
    <3>4. wire'[j - 1].op = "stop"
      BY <1>1, <3>2, <3>3
    <3> QED BY <3>3, <3>4
  <2>2. ASSUME goal' = n PROVE StopUnderWay'
    <3>1. wire[1].op # "stop"
      BY <1>2, <1>3, <2>2
    <3>2. CASE goal = n
      BY <1>1, <1>5, <3>1, <3>2, StopRead DEF Behind
    <3>3. CASE wire[1].op = n
      <4>1. PICK j \in 1 .. Len(wire) : j > 1 /\ wire[j].op = "stop"
        BY <1>1, <1>5, <3>3 DEF Behind
      <4>2. StopUnderWay
        BY <4>1 DEF StopUnderWay
      <4> QED BY <1>1, <3>1, <4>2, StopRead
    <3> QED BY <1>2, <1>3, <2>2, <3>2, <3>3
  <2> QED BY <2>1, <2>2 DEF Behind
<1> QED BY <1>4, <1>5

(* What the worker does not take part in.                                  *)
Aside(n) == /\ Unsent(n) => Unsent(n)'
            /\ Behind(n) => Behind(n)'
            /\ cut => cut'

LEMMA SentAside ==
    ASSUME NEW n \in Navs, SentOf(n), Aside(n), UNCHANGED <<work, step>>,
           outcome'[n] = outcome[n], linked => linked' \/ (work = n => cut'),
           reply'["worker"] = "none" <=> reply["worker"] = "none"
    PROVE  SentOf(n)'
<1>1. ToSend(n)' => ToSend(n)
  BY DEF ToSend
<1> QED BY <1>1 DEF SentOf, Aside

LEMMA SentConcluded ==
    ASSUME NEW n \in Navs, WorkInv, SentOf(n), Aside(n), NEW s \in {"SUCCEEDED", "FAILED"},
           Conclude(s), s = "FAILED" /\ n = work => cut \/ Behind(n), linked' = linked
    PROVE  SentOf(n)'
<1>1. /\ outcome'[n] = (IF n = work THEN s ELSE outcome[n])
      /\ work' = None /\ step' = None /\ n # None
  BY Names DEF Conclude
<1>2. CASE n = work
  BY <1>1, <1>2 DEF SentOf, Aside, ToSend
<1>3. CASE n # work
  <2>1. ToSend(n)' => ToSend(n)
    BY <1>1, <1>3 DEF ToSend
  <2> QED BY <1>1, <1>3, <2>1 DEF SentOf, Aside
<1> QED BY <1>2, <1>3

LEMMA SentStep ==
    LanesInv /\ WorkInv /\ WireInv /\ NavInv /\ SentInv /\ [Next]_vars => SentInv'
<1> SUFFICES ASSUME LanesInv, WorkInv, WireInv, NavInv, SentInv, [Next]_vars,
                    NEW n \in Navs
             PROVE  SentOf(n)'
  BY DEF SentInv
<1> USE OpKinds
<1>1. SentOf(n) /\ n # None /\ n \notin {"pose", "AUTO", "MANUAL", "stop", "reset_stop",
                                         "drive", "zero", "line_start", "line_stop"}
  BY Names DEF SentInv
<1>2. ASSUME NEW op, op # n, Sends(op), cut' = cut, goal' = goal \/ goal' = None
      PROVE  Aside(n)
  BY <1>1, <1>2, SendsKeeps DEF Aside
<1>3. ASSUME NEW r \in Requests, Request(r) PROVE SentOf(n)'
  <2>1. /\ UNCHANGED <<robot, link, work, step>>
        /\ outcome'[n] = (IF n = r THEN "accepted" ELSE outcome[n])
        /\ n = r => outcome[n] = "none"
    BY <1>3 DEF Request, Submit
  <2>2. Aside(n)
    BY <1>1, <1>2, <2>1 DEF robot, link, Sends
  <2>3. CASE n = r
    <3>1. Unsent(n)
      BY <1>1, <2>1, <2>3 DEF SentOf, ToSend
    <3>2. Unsent(n)' /\ Behind(n)'
      BY <2>2, <3>1, UnsentBehind DEF Aside
    <3> QED BY <3>2 DEF SentOf
  <2>4. CASE n # r
    BY <1>1, <2>1, <2>2, <2>4, SentAside DEF link
  <2> QED BY <2>3, <2>4
<1>4. CASE TakeWork
  <2>1. UNCHANGED <<robot, link, outcome>> /\ work = None
    BY <1>4 DEF TakeWork
  <2>2. Aside(n)
    BY <1>1, <1>2, <2>1 DEF robot, link, Sends
  <2>3. CASE work' = n
    <3>1. queue # <<>> /\ n = Head(queue)
      BY <1>1, <1>4, <2>3 DEF TakeWork
    <3>2. Queued(n)
      BY <3>1 DEF Queued, LanesInv
    <3>3. Unsent(n)
      BY <1>1, <2>1, <3>2 DEF NavInv, SentOf, ToSend
    <3>4. Unsent(n)' /\ Behind(n)'
      BY <2>2, <3>3, UnsentBehind DEF Aside
    <3> QED BY <3>4 DEF SentOf
  <2>4. CASE work' # n
    <3>1. ToSend(n)' => ToSend(n)
      BY <1>1, <2>1, <2>4 DEF ToSend
    <3> QED BY <1>1, <2>1, <2>2, <2>4, <3>1 DEF SentOf, Aside, link
  <2> QED BY <2>3, <2>4
<1>5. CASE SendPose
  <2>1. Sends("pose") /\ UNCHANGED <<cut, linked, reply, goal>>
    BY <1>5, PublishSends DEF SendPose, Publish, robot
  <2>2. Aside(n)
    BY <1>1, <1>2, <2>1
  <2>3. n = work => Unsent(n) /\ Behind(n)
    BY <1>1, <1>5, UnsentBehind DEF SendPose, SentOf, ToSend
  <2>4. CASE Then("AUTO")
    <3>1. UNCHANGED <<work, outcome>> /\ step' = "AUTO"
      BY <2>4 DEF Then
    <3>2. CASE n = work
      <4>1. Unsent(n)' /\ Behind(n)'
        BY <2>2, <2>3, <3>2 DEF Aside
      <4> QED BY <4>1 DEF SentOf
    <3>3. CASE n # work
      <4>1. ToSend(n)' => ToSend(n)
        BY <3>1, <3>3 DEF ToSend
      <4> QED BY <1>1, <2>1, <2>2, <3>1, <3>3, <4>1 DEF SentOf, Aside
    <3> QED BY <3>2, <3>3
  <2>5. CASE Conclude("FAILED") \/ Conclude("SUCCEEDED")
    BY <1>1, <2>1, <2>2, <2>3, <2>5, SentConcluded
  <2> QED BY <1>5, <2>4, <2>5 DEF SendPose
<1>6. CASE SendCall
  <2>1. /\ Sends(step) /\ UNCHANGED <<cut, linked, goal, work, step, outcome>>
        /\ reply["worker"] = "none" /\ reply'["worker"] # "none" /\ step \in Calls
    BY <1>6, CallSends DEF SendCall, Call, robot, worker, WireInv
  <2>2. ~ linked => wire' = wire
    BY <1>6 DEF SendCall, Call
  <2>3. CASE n # work
    <3>1. step # n
      BY <1>1, <2>3 DEF NavInv
    <3>2. Aside(n)
      BY <1>2, <2>1, <3>1
    <3>3. ToSend(n)' => ToSend(n)
      BY <2>1, <2>3 DEF ToSend
    <3> QED BY <1>1, <2>1, <2>3, <3>2, <3>3 DEF SentOf, Aside
  <2>4. CASE n = work /\ step = n
    <3>1. outcome[n] = "accepted" /\ outcome' = outcome /\ work' = work /\ step' = step
      BY <2>1, <2>4 DEF NavInv
    <3>2. ~ ToSend(n)'
      BY <1>1, <2>1, <2>4, <3>1 DEF ToSend
    <3>3. Unsent(n)
      BY <1>1, <2>1, <2>4 DEF SentOf, ToSend
    <3>4. ~ linked => Unsent(n)'
      BY <2>1, <2>2, <3>3 DEF Unsent
    <3> QED BY <1>1, <2>1, <2>4, <3>1, <3>2, <3>4 DEF SentOf
  <2>5. CASE n = work /\ step = "AUTO"
    <3>1. Aside(n) /\ Unsent(n)
      BY <1>1, <1>2, <2>1, <2>5 DEF SentOf, ToSend
    <3>2. Unsent(n)' /\ Behind(n)'
      BY <3>1, UnsentBehind DEF Aside
    <3> QED BY <3>2 DEF SentOf
  <2>6. CASE n = work /\ step = "stop"
    <3>1. outcome[n] = "accepted" /\ outcome' = outcome /\ work' = work /\ step' = step
      BY <2>1, <2>6 DEF NavInv
    <3>2. ~ ToSend(n)'
      BY <1>1, <2>6, <3>1 DEF ToSend
    <3>3. CASE linked
      <4>1. [op |-> "stop", by |-> "worker"] \in Messages
        BY DEF Messages
      <4>2. wire' = Append(wire, [op |-> "stop", by |-> "worker"])
        BY <1>6, <2>6, <3>3 DEF SendCall, Call
      <4>3. Behind(n)'
        BY <4>1, <4>2, StopBehind
      <4> QED BY <2>1, <3>1, <3>2, <3>3, <4>3 DEF SentOf
    <3>4. CASE ~ linked
      <4>1. cut \/ Unsent(n)
        BY <1>1, <2>6, <3>4 DEF SentOf
      <4>2. cut' \/ (Unsent(n)' /\ Behind(n)')
        BY <2>1, <2>2, <3>4, <4>1, UnsentBehind DEF Unsent, Behind, StopUnderWay
      <4> QED BY <3>2, <4>2 DEF SentOf
    <3> QED BY <3>3, <3>4
  <2>7. n = work => step \in {n, "AUTO", "stop"}
    BY <2>1, Names DEF NavInv, Calls
  <2> QED BY <2>3, <2>4, <2>5, <2>6, <2>7
<1>7. CASE ModeSet
  <2>1. UNCHANGED <<cut, linked, goal, wire>> /\ step = "AUTO"
    BY <1>7 DEF ModeSet, Answered, robot
  <2>2. Aside(n)
    BY <1>1, <1>2, <2>1 DEF Sends
  <2>3. n = work => Unsent(n) /\ Behind(n)
    BY <1>1, <2>1, UnsentBehind DEF SentOf, ToSend
  <2>4. CASE Then(work)
    <3>1. UNCHANGED <<work, outcome>> /\ step' = work
      BY <2>4 DEF Then
    <3>2. CASE n = work
      <4>1. Unsent(n)' /\ Behind(n)'
        BY <2>2, <2>3, <3>2 DEF Aside
      <4> QED BY <4>1 DEF SentOf
    <3>3. CASE n # work
      <4>1. ToSend(n)' => ToSend(n)
        BY <3>1, <3>3 DEF ToSend
      <4> QED BY <1>1, <2>1, <2>2, <3>1, <3>3, <4>1 DEF SentOf, Aside
    <3> QED BY <3>2, <3>3
  <2>5. CASE Conclude("FAILED")
    BY <1>1, <2>1, <2>2, <2>3, <2>5, SentConcluded
  <2> QED BY <1>7, <2>4, <2>5 DEF ModeSet
<1>8. CASE NavigateAnswered
  <2>1. UNCHANGED <<cut, linked, goal, wire>> /\ step \in Navs
    BY <1>8 DEF NavigateAnswered, Answered, robot
  <2>2. Aside(n)
    BY <1>1, <1>2, <2>1 DEF Sends
  <2>3. CASE Answered("worker", "refused") /\ Then("stop")
    <3>1. UNCHANGED <<work, outcome>> /\ step' = "stop" /\ reply'["worker"] = "none"
      BY <2>3 DEF Then, Answered, WireInv
    <3>2. n = work => outcome[n] = "accepted"
      BY DEF NavInv
    <3>3. ToSend(n)' => ToSend(n)
      BY <1>1, <3>1, <3>2 DEF ToSend
    <3> QED BY <1>1, <2>1, <2>2, <3>1, <3>3 DEF SentOf, Aside
  <2>4. CASE Conclude("SUCCEEDED")
    BY <1>1, <2>1, <2>2, <2>4, SentConcluded
  <2> QED BY <1>8, <2>3, <2>4 DEF NavigateAnswered
<1>9. CASE OtherAnswered
  <2>1. UNCHANGED <<cut, linked, goal, wire>> /\ step \in {"MANUAL", "stop", "reset_stop"}
        /\ reply["worker"] # "none"
    BY <1>9 DEF OtherAnswered, Answered, robot
  <2>2. Aside(n)
    BY <1>1, <1>2, <2>1 DEF Sends
  <2>3. n = work => step = "stop"
    BY <1>1, <2>1 DEF NavInv
  <2>4. n = work => cut \/ Behind(n)
    BY <1>1, <2>1, <2>3 DEF SentOf
  <2>5. Conclude("FAILED") \/ Conclude("SUCCEEDED")
    BY <1>9 DEF OtherAnswered
  <2> QED BY <1>1, <2>1, <2>2, <2>4, <2>5, SentConcluded
<1>10. CASE LineStart \/ LineStop
  <2>1. \E op \in Topics : Sends(op)
    BY <1>10, PublishSends DEF LineStart, LineStop, link, Sends
  <2>2. (Conclude("SUCCEEDED") \/ Conclude("FAILED")) /\ UNCHANGED <<cut, linked, goal>>
    BY <1>10 DEF LineStart, LineStop, Publish, robot, link
  <2>3. Aside(n)
    BY <1>1, <1>2, <2>1, <2>2 DEF Topics
  <2>4. n # work
    BY <1>1, <1>10, Names DEF LineStart, LineStop, NavInv
  <2> QED BY <1>1, <2>2, <2>3, <2>4, SentConcluded
<1>11. CASE LineTick
  <2>1. \E op \in Topics \cup {"stop"} : Sends(op)
    BY <1>11, PublishSends, CallSends DEF LineTick, LineFound, LineMissed, LineLost, LineSafe,
       LineStops, LineStopped, Answered, link, Sends
  <2>2. UNCHANGED <<cut, linked, goal, work, step, outcome>>
        /\ (reply'["worker"] = "none" <=> reply["worker"] = "none")
    BY <1>11 DEF LineTick, LineFound, LineMissed, LineLost, LineSafe,
       LineStops, LineStopped, Answered, Publish, Call, link, robot, worker, WireInv
  <2>3. Aside(n)
    BY <1>1, <1>2, <2>1, <2>2 DEF Topics
  <2> QED BY <1>1, <2>2, <2>3, SentAside
<1>12. CASE LinkBreaks
  <2>1. /\ wire' = <<>> /\ UNCHANGED <<goal, work, step, outcome>>
        /\ cut' = (cut \/ wire # <<>> \/ work # None \/ tick # "idle" \/ driven \/ Following)
        /\ reply'["worker"] = "none" <=> reply["worker"] = "none"
    BY <1>12 DEF LinkBreaks, robot, worker, WireInv
  <2>2. Unsent(n) => Unsent(n)'
    BY <2>1 DEF Unsent
  <2>3. CASE cut' /\ (ToSend(n)' => ToSend(n))
    BY <1>1, <2>2, <2>3 DEF SentOf
  <2>4. CASE wire' = wire /\ work = None
    <3>1. Aside(n)
      BY <1>1, <1>2, <2>1, <2>4 DEF Unsent, Behind, StopUnderWay, Aside
    <3> QED BY <1>1, <2>1, <2>4, <3>1, SentAside
  <2>5. ToSend(n)' => ToSend(n)
    BY <2>1 DEF ToSend
  <2> QED BY <2>1, <2>3, <2>4, <2>5
<1>13. CASE RobotReads
  <2>1. UNCHANGED <<cut, linked, work, step, outcome>>
    BY <1>13 DEF RobotReads, worker
  <2>2. reply'["worker"] = "none" <=> reply["worker"] = "none"
    BY <1>13 DEF RobotReads, Awaited, WireInv
  <2>3. Aside(n)
    BY <1>13, <2>1, ReadKeeps DEF Aside
  <2> QED BY <1>1, <2>1, <2>2, <2>3, SentAside
<1>14. CASE (\E b \in Callers : TimesOut(b)) \/ LinkReturns \/ StatusArrives \/ GoalEnds
            \/ InputExpires \/ UNCHANGED vars
  <2>1. /\ UNCHANGED <<cut, wire, work, step, outcome>> /\ (goal' = goal \/ goal' = None)
        /\ linked => linked'
    BY <1>14 DEF TimesOut, LinkReturns, StatusArrives, GoalEnds, InputExpires, vars, robot,
       link, worker
  <2>2. reply'["worker"] = "none" <=> reply["worker"] = "none"
    BY <1>14 DEF TimesOut, LinkReturns, StatusArrives, GoalEnds, InputExpires, vars, link, WireInv
  <2>3. Aside(n)
    BY <1>1, <1>2, <2>1 DEF Sends
  <2> QED BY <1>1, <2>1, <2>2, <2>3, SentAside
<1> QED BY <1>3, <1>4, <1>5, <1>6, <1>7, <1>8, <1>9, <1>10, <1>11, <1>12, <1>13, <1>14
        DEF Next, Worker

(* A map navigation whose command is FAILED leaves no goal behind: its     *)
(* goal was never sent, or the stop NavigationService.execute sends after  *)
(* a refusal or a timeout is behind it, unless a connection broke.         *)
THEOREM FailedAlwaysLeavesNoGoal == Spec => []FailedLeavesNoGoal
<1>1. Init => NavInv /\ SentInv
  <2> SUFFICES ASSUME Init PROVE NavInv /\ SentInv
    OBVIOUS
  <2>1. NavInv
    BY Names DEF Init, NavInv, Queued, OnePlace
  <2>2. ASSUME NEW n \in Navs PROVE SentOf(n)
    <3>1. Unsent(n) /\ Behind(n)
      BY Names, UnsentBehind DEF Init, Unsent
    <3> QED BY <3>1 DEF SentOf
  <2> QED BY <2>1, <2>2 DEF SentInv
<1>2. SentInv => FailedLeavesNoGoal
  BY DEF SentInv, SentOf, Behind, StopUnderWay, FailedLeavesNoGoal
<1> QED BY <1>1, <1>2, NavStep, SentStep, TypesAlways, PTL DEF Spec
=============================================================================
