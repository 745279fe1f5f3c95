------------------------- MODULE Monitoring_proofs -------------------------
(***************************************************************************)
(* Proofs about Monitoring, for any robots, codes and times: type          *)
(* correctness, timers that agree with what the evaluations saw, and no    *)
(* alert lost between its edge and the pause of a driving formation.       *)
(***************************************************************************)
EXTENDS Monitoring, TLAPS

USE DEF link, timers, drive, tick

Ages == Unset .. TimerCap

LEMMA OlderAge ==
    ASSUME NEW a \in Ages PROVE Older(a, TimerCap) \in Ages
BY MonitoringAssumption DEF Ages, Older, Unset

LEMMA InitTypes == Init => TypeOK
<1> SUFFICES ASSUME Init PROVE TypeOK
  OBVIOUS
<1>1. 0 \in Silences /\ Unset \in Ages /\ TimerCap \in 0 .. TimerCap
  BY MonitoringAssumption DEF Silences, Never, Unset, Ages
<1>2. heard \in [Robots -> Silences] /\ charge \in [Robots -> Charges]
  BY <1>1 DEF Init, Charges
<1>3. /\ active \in [Keys -> BOOLEAN] /\ quiet \in [Keys -> 0 .. TimerCap]
      /\ activeSince \in [Keys -> Ages] /\ clearSince \in [Keys -> Ages]
      /\ lasting \in [Keys -> Ages]
  BY <1>1 DEF Init, All
<1> QED BY <1>2, <1>3 DEF Init, TypeOK, Ages, Modes

(* What one evaluation makes of an alert and its timers.                   *)
LEMMA ConditionType ==
    ASSUME TypeOK, NEW k \in Keys
    PROVE  /\ Condition(k)[1] \in BOOLEAN
           /\ Condition(k)[2] \in Ages /\ Condition(k)[3] \in Ages
<1>1. /\ active[k] \in BOOLEAN
      /\ activeSince[k] \in Ages /\ clearSince[k] \in Ages
  BY DEF TypeOK, Ages
<1>2. \A a \in Ages : Started(a) \in Ages
  BY MonitoringAssumption DEF Started, Ages, Unset
<1>3. (active[k] \/ Raised(k)) \in BOOLEAN /\ (active[k] /\ ~ Cleared(k)) \in BOOLEAN
  BY <1>1, Zenon DEF Raised, Cleared
<1>4. Unset \in Ages
  BY MonitoringAssumption DEF Ages, Unset
<1>5. CASE Fault(k[1], k[2])
  BY <1>1, <1>2, <1>3, <1>4, <1>5 DEF Condition
<1>6. CASE ~ Fault(k[1], k[2])
  BY <1>1, <1>2, <1>3, <1>4, <1>6 DEF Condition
<1> QED BY <1>5, <1>6

LEMMA TypeStep == TypeOK /\ [Next]_vars => TypeOK'
<1> SUFFICES ASSUME TypeOK, [Next]_vars PROVE TypeOK'
  OBVIOUS
<1> USE MonitoringAssumption
<1>1. ASSUME NEW r \in Fragile, Hears(r) \/ Disconnected(r) \/ Mark(r)
      PROVE  TypeOK'
  BY <1>1 DEF Hears, Disconnected, Mark, TypeOK, Silences, Charges, Never
<1>2. CASE Pass
  <2>1. heard' \in [Robots -> Silences]
    <3>1. \A a \in Silences : Older(a, BatteryStaleAfter + 1) \in Silences
      BY DEF Silences, Never, Unset, Older
    <3> QED BY <3>1, <1>2 DEF Pass, TypeOK
  <2>2. /\ activeSince' \in [Keys -> Ages] /\ clearSince' \in [Keys -> Ages]
        /\ lasting' \in [Keys -> Ages]
    BY <1>2, OlderAge DEF Pass, TypeOK, Ages
  <2>3. quiet' \in [Keys -> 0 .. TimerCap]
    <3>1. \A a \in 0 .. TimerCap : Older(a, TimerCap) \in 0 .. TimerCap
      BY DEF Older, Unset
    <3> QED BY <3>1, <1>2 DEF Pass, TypeOK
  <2> QED BY <2>1, <2>2, <2>3, <1>2 DEF Pass, TypeOK, Ages
<1>3. CASE Evaluate
  <2>1. /\ active' \in [Keys -> BOOLEAN]
        /\ activeSince' \in [Keys -> Ages] /\ clearSince' \in [Keys -> Ages]
    BY <1>3, ConditionType DEF Evaluate
  <2>2. quiet' \in [Keys -> 0 .. TimerCap]
    BY <1>3 DEF Evaluate, TypeOK
  <2>3. lasting' \in [Keys -> Ages]
    BY <1>3 DEF Evaluate, TypeOK, Started, Unset, Ages
  <2> QED BY <2>1, <2>2, <2>3, <1>3 DEF Evaluate, TypeOK, Ages
<1>4. CASE Pausing
  BY <1>4 DEF Pausing, PauseSkipped, PauseBegins, StopAnswered, TypeOK, Modes
<1>5. CASE HaltedSeen \/ MissionOver
  BY <1>5 DEF HaltedSeen, MissionOver, TypeOK, Modes
<1>6. ASSUME NEW a \in BOOLEAN, StartBegins \/ StartEnds(a)
      PROVE  TypeOK'
  BY <1>6 DEF StartBegins, StartEnds, TypeOK, Modes
<1>7. CASE Restart
  <2>1. activeSince' \in [Keys -> Ages] /\ clearSince' \in [Keys -> Ages]
    BY <1>7 DEF Restart, All, Ages, Unset
  <2>2. heard' \in [Robots -> Silences] /\ charge' \in [Robots -> Charges]
    BY <1>7 DEF Restart, TypeOK, Silences, Never, Charges
  <2> QED BY <2>1, <2>2, <1>7 DEF Restart, TypeOK, Modes, Ages
<1>8. CASE UNCHANGED vars
  BY <1>8 DEF vars, TypeOK
<1> QED BY <1>1, <1>2, <1>3, <1>4, <1>5, <1>6, <1>7, <1>8 DEF Next

(* The variables keep their types.                                         *)
THEOREM TypeCorrect == Spec => []TypeOK
<1> QED BY InitTypes, TypeStep, PTL DEF Spec

---------------------------------------------------------------------------

(* While a formation drives and no pause is pending, an alert that is      *)
(* active was active when the drive began, or the tick still has to react. *)
(* The stop calls of a pause need no mention: a pause leaves FOLLOWING     *)
(* behind, and only a start, which excuses what is active, goes back.      *)
DriveInv ==
    mode = "FOLLOWING" /\ ~ pending => \A k \in Keys : active[k] => k \in excused \cup todo

LEMMA EvaluateStep == TypeOK /\ DriveInv /\ Evaluate => DriveInv'
<1> SUFFICES ASSUME TypeOK, DriveInv, Evaluate, mode = "FOLLOWING", ~ pending,
                    NEW k \in Keys, active'[k]
             PROVE  k \in excused' \cup todo'
  BY DEF DriveInv, Evaluate
<1>1. active'[k] = Condition(k)[1]
  BY DEF Evaluate
<1>2. CASE active[k]
  BY <1>2 DEF Evaluate, Idle, DriveInv
<1>3. CASE ~ active[k]
  <2>1. Fault(k[1], k[2]) /\ Raised(k)
    BY <1>1, <1>3, Zenon DEF Condition
  <2> QED BY <2>1 DEF Evaluate
<1> QED BY <1>2, <1>3

LEMMA DriveStep == TypeOK /\ DriveInv /\ [Next]_vars => DriveInv'
<1> SUFFICES ASSUME TypeOK, DriveInv, [Next]_vars PROVE DriveInv'
  OBVIOUS
<1> USE DEF DriveInv
<1>1. ASSUME NEW r \in Fragile, Hears(r) \/ Disconnected(r) \/ Mark(r)
      PROVE  DriveInv'
  BY <1>1 DEF Hears, Disconnected, Mark
<1>2. CASE Pass \/ StartBegins \/ UNCHANGED vars
  BY <1>2 DEF Pass, StartBegins, vars
<1>3. CASE Evaluate
  BY <1>3, EvaluateStep
<1>4. ASSUME NEW k \in todo, PauseSkipped(k) \/ PauseBegins(k)
      PROVE  DriveInv'
  BY <1>4 DEF PauseSkipped, PauseBegins, NeedsPause
<1>5. ASSUME NEW r \in calls, NEW a \in BOOLEAN, StopAnswered(r, a)
      PROVE  DriveInv'
  BY <1>5 DEF StopAnswered
<1>6. CASE HaltedSeen \/ MissionOver \/ Restart
  BY <1>6 DEF HaltedSeen, MissionOver, Restart
<1>7. ASSUME NEW a \in BOOLEAN, StartEnds(a)
      PROVE  DriveInv'
  BY <1>7 DEF StartEnds
<1> QED BY <1>1, <1>2, <1>3, <1>4, <1>5, <1>6, <1>7 DEF Next, Pausing

(* A formation never drives on under an alert that came up during the      *)
(* drive, whatever pauses, starts and restarts interleave.                 *)
THEOREM NoBlindDriveAlways == Spec => []NoBlindDrive
<1>1. Init => DriveInv
  BY DEF Init, DriveInv
<1>2. DriveInv => NoBlindDrive
  BY DEF DriveInv, NoBlindDrive, Idle
<1> QED BY <1>1, <1>2, DriveStep, TypeCorrect, PTL DEF Spec

---------------------------------------------------------------------------

(* A timer never claims more than the evaluations saw.                     *)
TimersHonest ==
    \A k \in Keys : clearSince[k] <= quiet[k] /\ activeSince[k] <= lasting[k]

LEMMA OlderMonotone ==
    ASSUME NEW a \in Ages, NEW b \in Ages, a <= b
    PROVE  Older(a, TimerCap) <= Older(b, TimerCap)
BY MonitoringAssumption DEF Ages, Older, Unset

LEMMA HonestStep == TypeOK /\ TimersHonest /\ [Next]_vars => TimersHonest'
<1> SUFFICES ASSUME TypeOK, TimersHonest, [Next]_vars, NEW k \in Keys
             PROVE  clearSince'[k] <= quiet'[k] /\ activeSince'[k] <= lasting'[k]
  BY DEF TimersHonest
<1> USE MonitoringAssumption
<1>1. /\ clearSince[k] <= quiet[k] /\ activeSince[k] <= lasting[k]
      /\ clearSince[k] \in Ages /\ activeSince[k] \in Ages /\ lasting[k] \in Ages
      /\ quiet[k] \in Ages /\ quiet[k] >= 0
  BY DEF TimersHonest, TypeOK, Ages, Unset
<1>2. CASE Pass
  BY <1>1, <1>2, OlderMonotone DEF Pass
<1>3. CASE Evaluate
  <2>1. /\ activeSince'[k] = Condition(k)[2] /\ clearSince'[k] = Condition(k)[3]
        /\ quiet'[k] = IF Fault(k[1], k[2]) THEN 0 ELSE quiet[k]
        /\ lasting'[k] = IF Fault(k[1], k[2]) THEN Started(lasting[k]) ELSE Unset
    BY <1>3 DEF Evaluate
  <2>2. Started(activeSince[k]) <= Started(lasting[k]) /\ Unset <= Started(lasting[k])
    BY <1>1 DEF Started, Ages, Unset
  <2>3. Started(clearSince[k]) <= quiet[k] /\ Unset <= quiet[k]
    BY <1>1 DEF Started, Ages, Unset
  <2>4. CASE Fault(k[1], k[2])
    BY <2>1, <2>2, <2>4 DEF Condition, Unset
  <2>5. CASE ~ Fault(k[1], k[2])
    BY <1>1, <2>1, <2>3, <2>5 DEF Condition, Unset
  <2> QED BY <2>4, <2>5
<1>4. CASE Restart
  BY <1>1, <1>4 DEF Restart, All, Ages, Unset
<1>5. ASSUME \/ \E r \in Fragile : Hears(r) \/ Disconnected(r) \/ Mark(r)
             \/ Pausing \/ HaltedSeen \/ MissionOver \/ StartBegins
             \/ \E a \in BOOLEAN : StartEnds(a)
      PROVE  UNCHANGED timers
  BY <1>5 DEF Hears, Disconnected, Mark, Pausing, PauseSkipped, PauseBegins, StopAnswered,
              HaltedSeen, MissionOver, StartBegins, StartEnds
<1>6. CASE UNCHANGED vars
  BY <1>1, <1>6 DEF vars
<1> QED BY <1>1, <1>2, <1>3, <1>4, <1>5, <1>6 DEF Next

LEMMA Earned ==
    ASSUME TypeOK, TimersHonest, [Next]_vars, NEW k \in Keys
    PROVE  /\ active'[k] /\ ~ active[k] => lasting'[k] >= Hold[k[1]]
           /\ active[k] /\ ~ active'[k] => quiet[k] >= ClearAfter[k[1]]
<1> USE MonitoringAssumption
<1>1. CASE Evaluate
  <2>1. /\ active'[k] = Condition(k)[1]
        /\ Fault(k[1], k[2]) => lasting'[k] = Started(lasting[k])
    BY <1>1 DEF Evaluate
  <2>2. Hold[k[1]] \in Nat /\ ClearAfter[k[1]] \in Nat
    <3>1. k[1] \in Codes
      BY DEF Keys
    <3>2. \A c \in Codes : Hold[c] \in Nat /\ ClearAfter[c] \in Nat
      OBVIOUS
    <3> QED BY <3>1, <3>2
  <2>3. /\ activeSince[k] <= lasting[k] /\ clearSince[k] <= quiet[k]
        /\ activeSince[k] \in Ages /\ lasting[k] \in Ages
        /\ clearSince[k] \in Ages /\ quiet[k] \in Nat
    BY DEF TypeOK, TimersHonest, Ages
  <2>4. ASSUME active'[k], ~ active[k]
        PROVE  lasting'[k] >= Hold[k[1]]
    <3>1. Fault(k[1], k[2]) /\ Raised(k)
      BY <2>1, <2>4, Zenon DEF Condition
    <3> QED BY <3>1, <2>1, <2>2, <2>3 DEF Raised, Started, Ages, Unset
  <2>5. ASSUME active[k], ~ active'[k]
        PROVE  quiet[k] >= ClearAfter[k[1]]
    <3>1. Cleared(k)
      BY <2>1, <2>5, Zenon DEF Condition
    <3> QED BY <3>1, <2>2, <2>3 DEF Cleared, Started, Ages, Unset
  <2> QED BY <2>4, <2>5
<1>2. CASE ~ Evaluate
  <2>1. active' = active
    BY <1>2 DEF Next, Hears, Disconnected, Mark, Pass, Pausing, PauseSkipped, PauseBegins,
                StopAnswered, HaltedSeen, MissionOver, StartBegins, StartEnds, Restart, vars
  <2> QED BY <2>1
<1> QED BY <1>1, <1>2

(* An alert comes up only after its hold time and goes only after its      *)
(* clear time, whatever restarts, marks and reconnects lie between.        *)
THEOREM AlertsAlwaysEarned == Spec => AlertsAreEarned
<1>1. Init => TimersHonest
  BY MonitoringAssumption DEF Init, TimersHonest, All, Unset
<1>2. TypeOK /\ TimersHonest /\ [Next]_vars =>
        [\A k \in Keys :
            /\ active'[k] /\ ~ active[k] => lasting'[k] >= Hold[k[1]]
            /\ active[k] /\ ~ active'[k] => quiet[k] >= ClearAfter[k[1]]]_vars
  BY Earned
<1> QED BY <1>1, <1>2, HonestStep, TypeCorrect, PTL DEF Spec, AlertsAreEarned
=============================================================================
