---------------------- MODULE ControlAuthority_proofs ----------------------
(***************************************************************************)
(* Proofs about ControlAuthority, for any number of sessions and robots    *)
(* and any term, limit and bound: type correctness, exclusive control as a *)
(* refinement, and that a moving robot is guarded.                         *)
(***************************************************************************)
EXTENDS ControlAuthority, TLAPS

(* A protective stop that begins has every robot still to call.            *)
LEMMA OrderCallsAll ==
    /\ RobotOrder \in Seq(Robots)
    /\ \A r \in Robots : \E i \in DOMAIN RobotOrder : RobotOrder[i] = r
BY AuthorityAssumption

---------------------------------------------------------------------------

(* What every step does to the variables the refinement reads.             *)
LEMMA StepRefines ==
    ASSUME [Next]_vars, left \in Nat
    PROVE  [Exclusive!Next]_Exclusive!vars
<1> USE DEF Exclusive!vars, Exclusive!Next, Exclusive!Grant, Exclusive!End, Exclusive!Drive, Authority
<1>1. ASSUME NEW s \in Sessions, Acquire(s)
      PROVE  Exclusive!Grant(s)
  <2>1. Authority = None
    BY <1>1 DEF Acquire, MayAcquire, Owns
  <2>2. Authority' = s
    BY <1>1, AuthorityAssumption DEF Acquire
  <2> QED BY <1>1, <2>1, <2>2 DEF Acquire
<1>2. ASSUME NEW s \in Sessions, Renew(s)
      PROVE  UNCHANGED Exclusive!vars
  BY <1>2, AuthorityAssumption DEF Renew, Owns
<1>3. ASSUME Surrender
      PROVE  Exclusive!End \/ UNCHANGED Exclusive!vars
  BY <1>3 DEF Surrender, robot
<1>4. ASSUME NEW s \in Sessions, NEW r \in Robots, NEW v \in Outputs, InputAccepted(s, r, v)
      PROVE  Exclusive!Drive(s)
  BY <1>4 DEF InputAccepted, MayDrive, Owns, lease
<1>5. ASSUME Pass
      PROVE  Exclusive!End \/ UNCHANGED Exclusive!vars
  BY <1>5 DEF Pass
<1>6. ASSUME ExpireSecurity
      PROVE  Exclusive!End \/ UNCHANGED Exclusive!vars
  BY <1>6 DEF ExpireSecurity, lease
<1>7. ASSUME UNCHANGED <<lease, driver>>
      PROVE  UNCHANGED Exclusive!vars
  BY <1>7 DEF lease
<1>8. ASSUME NEW s \in Sessions,
             Login(s) \/ SessionElapses(s) \/ Connect(s) \/ Disconnect(s) \/ SocketFails(s) \/ InputRefused(s)
      PROVE  UNCHANGED <<lease, driver>>
  BY <1>8 DEF Login, SessionElapses, Connect, Disconnect, SocketFails, InputRefused
<1>9. ASSUME \/ \E t \in Tasks : StopCall(t)
             \/ TeleopTick
             \/ \E r \in Robots : ResetStop(r) \/ ZeroVelocity(r)
      PROVE  UNCHANGED <<lease, driver>>
  BY <1>9 DEF StopCall, TeleopTick, ResetStop, ZeroVelocity
<1>10. CASE UNCHANGED vars
  BY <1>10, <1>7 DEF vars
<1>11. ASSUME NEW s \in Sessions, Logout(s)
       PROVE  Exclusive!End \/ UNCHANGED Exclusive!vars
  BY <1>11, <1>3, <1>7 DEF Logout
<1>12. ASSUME NEW s \in Sessions, ReleaseLease(s)
       PROVE  Exclusive!End \/ UNCHANGED Exclusive!vars
  BY <1>12, <1>3 DEF ReleaseLease
<1> HIDE DEF Exclusive!vars, Exclusive!Grant, Exclusive!End, Exclusive!Drive, Authority
<1> QED
  BY <1>1, <1>2, <1>4, <1>5, <1>6, <1>7, <1>8, <1>9, <1>10, <1>11, <1>12 DEF Next, RuntimeTick

(* The lease's time is a number, which is all the refinement needs.        *)
LEMMA LeftIsNat == Spec => [](left \in Nat)
<1>1. Init => left \in Nat
  BY DEF Init
<1>2. left \in Nat /\ [Next]_vars => (left \in Nat)'
  BY AuthorityAssumption DEF Next, vars, lease, RuntimeTick, Login, SessionElapses, Acquire, Renew,
     ReleaseLease, Logout, Surrender, Connect, Disconnect, SocketFails, InputAccepted, InputRefused,
     StopCall, ResetStop, Pass, TeleopTick, ZeroVelocity, ExpireSecurity
<1> QED BY <1>1, <1>2, PTL DEF Spec

(* Sessions, lease and sockets implement exclusive control: authority goes *)
(* from one session to another only through none, and only its holder's    *)
(* velocities reach a robot, whatever expires, races or disconnects.       *)
THEOREM ControlIsExclusive == Spec => ExclusiveSpec
<1>1. Init => Exclusive!Init
  BY DEF Init, Exclusive!Init, Authority
<1>2. left \in Nat /\ [Next]_vars => [Exclusive!Next]_Exclusive!vars
  BY StepRefines
<1> QED
  BY <1>1, <1>2, LeftIsNat, PTL DEF Spec, ExclusiveSpec, Exclusive!Spec

---------------------------------------------------------------------------
(* Type correctness and the deadman.  Guarding is inductive once it is     *)
(* known that an idle tick has nothing left to zero, so that the next one  *)
(* does not forget a robot.                                                *)

GuardInv ==
    /\ TypeOK
    /\ phase = "idle" => zeroing = {}
    /\ MovingIsGuarded

LEMMA InitGuard == Init => GuardInv
<1> SUFFICES ASSUME Init PROVE GuardInv
  OBVIOUS
<1>1. TypeOK
  <2>1. todo \in [Tasks -> Seq(Robots)]
    BY DEF Init
  <2>2. armed \in [Robots -> Off .. AgeCap]
    BY AuthorityAssumption DEF Init, Off, AgeCap
  <2>3. session \in [Sessions -> SessionStates] /\ output \in [Robots -> Outputs]
    BY DEF Init, SessionStates, Outputs
  <2>4. /\ socket \in [Sessions -> BOOLEAN]
        /\ latched \in [Robots -> BOOLEAN] /\ lost \in [Robots -> BOOLEAN] /\ surrendered \in BOOLEAN
    BY Zenon DEF Init
  <2>5. left \in 0 .. LeaseTerm /\ inputs \in 0 .. MaxInputs
    BY AuthorityAssumption DEF Init
  <2> QED BY <2>1, <2>2, <2>3, <2>4, <2>5 DEF Init, TypeOK
<1>2. MovingIsGuarded /\ (phase = "idle" => zeroing = {})
  BY DEF Init, MovingIsGuarded
<1> QED BY <1>1, <1>2 DEF GuardInv

LEMMA BegunStopTypes ==
    ASSUME TypeOK, NEW t \in Tasks, BeginStop(t)
    PROVE  armed' \in [Robots -> Off .. AgeCap] /\ todo' \in [Tasks -> Seq(Robots)]
BY AuthorityAssumption, OrderCallsAll DEF BeginStop, TypeOK, AllOff, Off, AgeCap

LEMMA TypeStep == ASSUME TypeOK, [Next]_vars PROVE TypeOK'
<1> USE AuthorityAssumption DEF TypeOK, lease, ticking, robot
<1>1. ASSUME NEW s \in Sessions,
             \/ Login(s) \/ SessionElapses(s) \/ Logout(s) \/ Acquire(s) \/ Renew(s) \/ ReleaseLease(s)
             \/ Connect(s) \/ SocketFails(s)
      PROVE  TypeOK'
  <2>1. CASE Login(s) \/ SessionElapses(s)
    BY <2>1 DEF Login, SessionElapses, SessionStates
  <2>2. CASE Logout(s) \/ ReleaseLease(s)
    <3>1. session' \in [Sessions -> SessionStates]
      BY <2>2 DEF Logout, ReleaseLease, SessionStates
    <3>2. row' \in Sessions \cup {None} /\ left' \in 0 .. LeaseTerm
      BY <2>2 DEF Logout, ReleaseLease, Surrender
    <3>3. surrendered' = TRUE \/ surrendered' = surrendered
      BY <2>2 DEF Logout, ReleaseLease, Surrender
    <3>4. surrendered' \in BOOLEAN
      BY <3>3
    <3> QED BY <2>2, <3>1, <3>2, <3>4 DEF Logout, ReleaseLease, Surrender
  <2>3. CASE Acquire(s) \/ Renew(s)
    <3>1. row' \in Sessions \cup {None} /\ left' \in 0 .. LeaseTerm
      BY <2>3 DEF Acquire, Renew
    <3>2. called' \subseteq Robots /\ surrendered' \in BOOLEAN
      BY <2>3 DEF Acquire, Renew
    <3> QED BY <2>3, <3>1, <3>2 DEF Acquire, Renew
  <2>4. CASE Connect(s) \/ SocketFails(s)
    BY <2>4 DEF Connect, SocketFails
  <2> QED BY <1>1, <2>1, <2>2, <2>3, <2>4
<1>2. ASSUME NEW s \in Sessions, Disconnect(s)
      PROVE  TypeOK'
  BY <1>2 DEF Disconnect, BeginStop, AllOff, Off, AgeCap, Tasks
<1>3. ASSUME NEW s \in Sessions, InputRefused(s)
      PROVE  TypeOK'
  BY <1>3 DEF InputRefused, AllOff, Off, AgeCap
<1>4. ASSUME NEW s \in Sessions, NEW r \in Robots, NEW v \in Outputs, InputAccepted(s, r, v)
      PROVE  TypeOK'
  BY <1>4 DEF InputAccepted, Outputs, Off, AgeCap
<1>5. ASSUME NEW t \in Tasks, StopCall(t)
      PROVE  TypeOK'
  <2> DEFINE r == Head(todo[t])
  <2>1. todo[t] \in Seq(Robots) /\ todo[t] # <<>>
    BY <1>5 DEF StopCall
  <2>2. r \in Robots /\ Tail(todo[t]) \in Seq(Robots)
    BY <2>1
  <2>3. todo' \in [Tasks -> Seq(Robots)]
    BY <1>5, <2>2 DEF StopCall
  <2>4. called' \subseteq Robots
    BY <1>5, <2>2 DEF StopCall
  <2>5. output' \in [Robots -> Outputs] /\ latched' \in [Robots -> BOOLEAN] /\ lost' \in [Robots -> BOOLEAN]
    BY <1>5, <2>2 DEF StopCall, Outputs
  <2> QED BY <1>5, <2>3, <2>4, <2>5 DEF StopCall
<1>6. ASSUME NEW r \in Robots, ResetStop(r)
      PROVE  TypeOK'
  BY <1>6 DEF ResetStop
<1>7. CASE Pass
  BY <1>7 DEF Pass, Off, AgeCap
<1>8. CASE TeleopTick
  BY <1>8 DEF TeleopTick, Silent, Off, AgeCap
<1>9. ASSUME NEW r \in Robots, ZeroVelocity(r)
      PROVE  TypeOK'
  <2>1. armed' \in [Robots -> Off .. AgeCap] /\ todo' \in [Tasks -> Seq(Robots)]
    BY <1>9, BegunStopTypes DEF ZeroVelocity, Tasks
  <2>2. output' \in [Robots -> Outputs] /\ lost' \in [Robots -> BOOLEAN]
    BY <1>9 DEF ZeroVelocity, Outputs
  <2> QED BY <1>9, <2>1, <2>2 DEF ZeroVelocity
<1>10. CASE ExpireSecurity
  <2>1. armed' \in [Robots -> Off .. AgeCap] /\ todo' \in [Tasks -> Seq(Robots)]
    BY <1>10, BegunStopTypes DEF ExpireSecurity, Tasks
  <2>2. session' \in [Sessions -> SessionStates]
    BY <1>10 DEF ExpireSecurity, SessionStates
  <2>3. row' \in Sessions \cup {None} /\ left' \in 0 .. LeaseTerm
    BY <1>10 DEF ExpireSecurity
  <2> QED BY <1>10, <2>1, <2>2, <2>3 DEF ExpireSecurity
<1>11. CASE UNCHANGED vars
  BY <1>11 DEF vars
<1> QED
  BY <1>1, <1>2, <1>3, <1>4, <1>5, <1>6, <1>7, <1>8, <1>9, <1>10, <1>11 DEF Next, RuntimeTick

(* A step that leaves what guarding is about alone.                        *)
LEMMA GuardUnread ==
    ASSUME GuardInv, UNCHANGED <<armed, todo, ticking, output, lost>>
    PROVE  MovingIsGuarded' /\ (phase = "idle" => zeroing = {})'
BY DEF GuardInv, MovingIsGuarded, Guarded, ticking

(* A protective stop that begins guards every robot.                       *)
LEMMA BegunStopGuards ==
    ASSUME TypeOK, NEW t \in Tasks, BeginStop(t)
    PROVE  \A r \in Robots : Guarded(r)'
<1> SUFFICES ASSUME NEW r \in Robots PROVE Guarded(r)'
  OBVIOUS
<1>1. todo'[t] = RobotOrder
  BY DEF BeginStop, TypeOK
<1>2. PICK i \in DOMAIN RobotOrder : RobotOrder[i] = r
  BY OrderCallsAll
<1> QED BY <1>1, <1>2 DEF Guarded

LEMMA GuardStep == ASSUME GuardInv, [Next]_vars PROVE MovingIsGuarded' /\ (phase = "idle" => zeroing = {})'
<1> USE DEF ticking
<1>1. ASSUME NEW s \in Sessions,
             \/ Login(s) \/ SessionElapses(s) \/ Logout(s) \/ Acquire(s) \/ Renew(s) \/ ReleaseLease(s)
             \/ Connect(s) \/ SocketFails(s)
      PROVE  UNCHANGED <<armed, todo, ticking, output, lost>>
  BY <1>1 DEF Login, SessionElapses, Logout, Acquire, Renew, ReleaseLease, Connect, SocketFails, Surrender,
              robot
<1>2. ASSUME NEW s \in Sessions, Disconnect(s)
      PROVE  MovingIsGuarded' /\ (phase = "idle" => zeroing = {})'
  BY <1>2, BegunStopGuards DEF Disconnect, GuardInv, MovingIsGuarded, Tasks
<1>3. ASSUME NEW s \in Sessions, InputRefused(s)
      PROVE  MovingIsGuarded' /\ (phase = "idle" => zeroing = {})'
  BY <1>3 DEF InputRefused, GuardInv, MovingIsGuarded
<1>4. ASSUME NEW s \in Sessions, NEW r \in Robots, NEW v \in Outputs, InputAccepted(s, r, v)
      PROVE  MovingIsGuarded' /\ (phase = "idle" => zeroing = {})'
  BY <1>4 DEF InputAccepted, GuardInv, TypeOK, MovingIsGuarded, Guarded, Off
<1>5. ASSUME NEW t \in Tasks, StopCall(t)
      PROVE  MovingIsGuarded' /\ (phase = "idle" => zeroing = {})'
  <2> DEFINE h == Head(todo[t])
  <2>1. todo \in [Tasks -> Seq(Robots)] /\ todo[t] # <<>> /\ h \in Robots
    BY <1>5 DEF StopCall, GuardInv, TypeOK
  <2>2. output'[h] = "zero" \/ lost'[h]
    BY <1>5, <2>1 DEF StopCall, GuardInv, TypeOK
  <2>3. ASSUME NEW r \in Robots, r # h, Guarded(r)
        PROVE  Guarded(r)'
    <3>1. CASE armed[r] # Off \/ r \in zeroing
      BY <1>5, <3>1 DEF StopCall, Guarded
    <3>2. ASSUME NEW u \in Tasks, NEW i \in DOMAIN todo[u], todo[u][i] = r
          PROVE  \E j \in DOMAIN todo'[u] : todo'[u][j] = r
      <4>1. CASE u # t
        BY <1>5, <3>2, <4>1, <2>1 DEF StopCall
      <4>2. CASE u = t
        <5>1. todo'[t] = Tail(todo[t])
          BY <1>5, <2>1 DEF StopCall
        <5>2. todo[t] \in Seq(Robots) /\ Len(todo[t]) \in Nat /\ DOMAIN todo[t] = 1 .. Len(todo[t])
          BY <2>1
        <5>3. i \in 1 .. Len(todo[t]) /\ i # 1
          BY <2>3, <3>2, <4>2, <5>2
        <5>4. i - 1 \in DOMAIN Tail(todo[t]) /\ Tail(todo[t])[i - 1] = todo[t][i]
          BY <2>1, <5>2, <5>3
        <5> QED BY <3>2, <4>2, <5>1, <5>4
      <4> QED BY <4>1, <4>2
    <3> QED BY <2>3, <3>1, <3>2 DEF Guarded
  <2>4. ASSUME NEW r \in Robots, r # h
        PROVE  output'[r] = output[r] /\ lost'[r] = lost[r]
    BY <1>5, <2>1, <2>4 DEF StopCall, GuardInv, TypeOK
  <2>5. MovingIsGuarded'
    BY <2>2, <2>3, <2>4 DEF MovingIsGuarded, GuardInv
  <2> QED BY <1>5, <2>5 DEF StopCall, GuardInv
<1>6. ASSUME NEW r \in Robots, ResetStop(r)
      PROVE  UNCHANGED <<armed, todo, ticking, output, lost>>
  BY <1>6 DEF ResetStop
<1>7. CASE Pass
  BY <1>7 DEF Pass, GuardInv, TypeOK, MovingIsGuarded, Guarded, Off, AgeCap, robot
<1>8. CASE TeleopTick
  BY <1>8 DEF TeleopTick, Silent, GuardInv, TypeOK, MovingIsGuarded, Guarded, robot
<1>9. ASSUME NEW r \in Robots, ZeroVelocity(r)
      PROVE  MovingIsGuarded' /\ (phase = "idle" => zeroing = {})'
  <2>1. CASE BeginStop(Tick)
    BY <1>9, <2>1, BegunStopGuards DEF ZeroVelocity, GuardInv, MovingIsGuarded, Tasks
  <2>2. CASE output' = [output EXCEPT ![r] = "zero"] /\ UNCHANGED <<armed, todo, lost>>
    BY <1>9, <2>2 DEF ZeroVelocity, GuardInv, TypeOK, MovingIsGuarded, Guarded
  <2> QED BY <1>9, <2>1, <2>2 DEF ZeroVelocity
<1>10. CASE ExpireSecurity
  <2>1. CASE BeginStop(Tick)
    BY <1>10, <2>1, BegunStopGuards DEF ExpireSecurity, GuardInv, MovingIsGuarded, Tasks
  <2>2. CASE UNCHANGED <<armed, todo>>
    BY <1>10, <2>2 DEF ExpireSecurity, GuardInv, MovingIsGuarded, Guarded, robot
  <2> QED BY <1>10, <2>1, <2>2 DEF ExpireSecurity
<1>11. CASE UNCHANGED vars
  BY <1>11, GuardUnread DEF vars, robot
<1> QED
  BY GuardUnread, <1>1, <1>2, <1>3, <1>4, <1>5, <1>6, <1>7, <1>8, <1>9, <1>10, <1>11 DEF Next, RuntimeTick

LEMMA GuardAlways == Spec => []GuardInv
<1>1. GuardInv /\ [Next]_vars => GuardInv'
  BY TypeStep, GuardStep DEF GuardInv
<1> QED BY InitGuard, <1>1, PTL DEF Spec

(* The variables keep their types.                                         *)
THEOREM TypeCorrect == Spec => []TypeOK
<1>1. GuardInv => TypeOK
  BY DEF GuardInv
<1> QED BY GuardAlways, <1>1, PTL

(* A robot given a velocity by hand has its deadman entry, or a zero or a  *)
(* protective stop for it is on its way, unless a call failed: for every   *)
(* number of robots, where one refused zero aborts into a stop of all.     *)
THEOREM MovingAlwaysGuarded == Spec => []MovingIsGuarded
<1>1. GuardInv => MovingIsGuarded
  BY DEF GuardInv
<1> QED BY GuardAlways, <1>1, PTL
=============================================================================
