----------------------------- MODULE Monitoring -----------------------------
(***************************************************************************)
(* From silence to a stopped formation: the age of what the adapter heard, *)
(* the freshness StateStore derives from it, the timers of AlertService,   *)
(* and the protective pause the runtime tick starts for a new alert.       *)
(*                                                                         *)
(* An alert is told to the tick once, when it becomes active; what keeps a *)
(* formation from driving on is this one edge.  The tick is one task, cut  *)
(* at the stop calls of the pause; the command worker starts missions      *)
(* beside it.  The formation is kept to its mode and whether active_id is  *)
(* set.  Time passes in units; the adapter, the robots and the operator    *)
(* are free.                                                               *)
(***************************************************************************)
EXTENDS Integers

CONSTANTS
    Robots,         \* master and slave
    Fragile,        \* those that may fall silent or report a fault
    Codes,          \* alert codes under watch
    StaleAfter, OfflineAfter, BatteryStaleAfter,    \* ages of the last message
    ClearAfter,     \* per code: how long a fault must stay away
    Hold,           \* per code: how long it must last
    TimerCap        \* bound on the age of a timer

ASSUME MonitoringAssumption ==
    /\ Fragile \subseteq Robots
    /\ Codes \subseteq {"COMMUNICATION_LOSS", "COMMUNICATION_STALE", "BATTERY_CRITICAL"}
    /\ StaleAfter \in Nat /\ OfflineAfter \in Nat /\ BatteryStaleAfter \in Nat
    /\ StaleAfter < OfflineAfter /\ OfflineAfter < BatteryStaleAfter
    /\ TimerCap \in Nat
    /\ ClearAfter \in [Codes -> 0 .. TimerCap] /\ Hold \in [Codes -> 0 .. TimerCap]

Keys     == Codes \X Fragile
Never    == -1                      \* received_at is None
Unset    == -1                      \* the timer is not in its dictionary
Silences == Never .. BatteryStaleAfter + 1
Charges  == {"unknown", "ok", "mid", "low"}     \* above 25 %, between, at most 10 %
Modes    == {"READY", "FOLLOWING", "PAUSING", "PAUSED", "ERROR"}

VARIABLES
    heard,          \* age of the last message of a robot
    charge,         \* battery it reported last
    marked,         \* StateStore.disconnected
    active,         \* the alert is ACTIVE (stored, survives a restart)
    activeSince, clearSince,    \* the timers, as ages
    mode, mission,  \* formation, and whether active_id is set
    pending,        \* formation_pause_pending
    starting,       \* the worker is inside a start
    todo,           \* new alerts the tick still has to pause for
    calls, refused, \* stop calls left, one was not confirmed
    unconfirmed,    \* PROTECTIVE_STOP_UNCONFIRMED is ACTIVE
    excused,        \* history: alerts active when the drive began
    quiet, lasting  \* history: age of the last evaluation that saw a fault,
                    \* and of the first of those that saw it without a gap

link   == <<heard, charge, marked>>
timers == <<active, activeSince, clearSince, quiet, lasting>>
drive  == <<mode, mission, pending, starting, excused>>
tick   == <<todo, calls, refused, unconfirmed>>
vars   == <<link, timers, drive, tick>>

All(v) == [k \in Keys |-> v]
Init ==
    /\ heard = [r \in Robots |-> 0] /\ charge = [r \in Robots |-> "ok"]
    /\ marked = {}
    /\ active = All(FALSE) /\ activeSince = All(Unset) /\ clearSince = All(Unset)
    /\ mode = "READY" /\ mission = FALSE /\ pending = FALSE /\ starting = FALSE
    /\ todo = {} /\ calls = {} /\ refused = FALSE /\ unconfirmed = FALSE
    /\ excused = {} /\ quiet = All(TimerCap) /\ lasting = All(Unset)

---------------------------------------------------------------------------
(* The adapter and the clock.                                              *)

Hears(r) ==             \* a message, also the first of a new connection
    /\ heard' = [heard EXCEPT ![r] = 0]
    /\ \E c \in Charges \ {"unknown"} : charge' = [charge EXCEPT ![r] = c]
    /\ UNCHANGED <<marked, timers, drive, tick>>

Disconnected(r) ==      \* _mark_disconnected
    /\ heard[r] # Never
    /\ heard' = [heard EXCEPT ![r] = Never]
    /\ charge' = [charge EXCEPT ![r] = "unknown"]
    /\ UNCHANGED <<marked, timers, drive, tick>>

Mark(r) ==              \* protective_stop of a lease or teleop marks the robot
    /\ marked' = marked \cup {r}
    /\ UNCHANGED <<heard, charge, timers, drive, tick>>

Older(age, cap) == IF age = Unset \/ age = cap THEN age ELSE age + 1

Pass ==
    /\ heard' = [r \in Robots |-> IF r \in Fragile THEN Older(heard[r], BatteryStaleAfter + 1) ELSE heard[r]]
    /\ activeSince' = [k \in Keys |-> Older(activeSince[k], TimerCap)]
    /\ clearSince' = [k \in Keys |-> Older(clearSince[k], TimerCap)]
    /\ quiet' = [k \in Keys |-> Older(quiet[k], TimerCap)]
    /\ lasting' = [k \in Keys |-> Older(lasting[k], TimerCap)]
    /\ UNCHANGED <<charge, marked, active, drive, tick>>

---------------------------------------------------------------------------
(* StateStore.snapshot and AlertService.evaluate.                          *)

LinkAlive(r) == heard[r] \in 0 .. OfflineAfter
Offline(r)   == ~ LinkAlive(r)
Cut(r)       == heard[r] = Never \/ (r \in marked /\ ~ LinkAlive(r))
BatteryFresh(r) == ~ Cut(r) /\ heard[r] <= BatteryStaleAfter /\ charge[r] # "unknown"

Fault(code, r) ==
    \/ code = "COMMUNICATION_LOSS"  /\ Offline(r)
    \/ code = "COMMUNICATION_STALE" /\ LinkAlive(r) /\ heard[r] > StaleAfter
    \/ code = "BATTERY_CRITICAL"    /\ BatteryFresh(r) /\ charge[r] = "low"

\* clear_when: a battery between the thresholds, or a stale one, is not clear
Clearable(code, r) == code = "BATTERY_CRITICAL" => BatteryFresh(r) /\ charge[r] = "ok"

Started(age) == IF age = Unset THEN 0 ELSE age          \* dict.setdefault(key, now)

ClearedAnew(k) ==   \* mutant of Cleared: the timer starts again with each evaluation
    active[k] /\ Clearable(k[1], k[2]) /\ 0 >= ClearAfter[k[1]]

Cleared(k)  == active[k] /\ Clearable(k[1], k[2]) /\ Started(clearSince[k]) >= ClearAfter[k[1]]
Raised(k)   == ~ active[k] /\ Started(activeSince[k]) >= Hold[k[1]]

\* one call of _condition: the new values of the alert and its two timers
ConditionKeepsClear(k) ==   \* mutant of Condition: a fault seen again does not reset the clear timer
    IF Fault(k[1], k[2])
    THEN <<active[k] \/ Raised(k), IF active[k] THEN Unset ELSE Started(activeSince[k]), clearSince[k]>>
    ELSE <<active[k] /\ ~ Cleared(k), Unset,
           IF ~ active[k] \/ ~ Clearable(k[1], k[2]) THEN clearSince[k]
           ELSE IF Cleared(k) THEN Unset ELSE Started(clearSince[k])>>

Condition(k) ==
    IF Fault(k[1], k[2])
    THEN <<active[k] \/ Raised(k), IF active[k] THEN Unset ELSE Started(activeSince[k]), Unset>>
    ELSE <<active[k] /\ ~ Cleared(k), Unset,
           IF ~ active[k] \/ ~ Clearable(k[1], k[2]) THEN clearSince[k]
           ELSE IF Cleared(k) THEN Unset ELSE Started(clearSince[k])>>

Idle == todo = {} /\ calls = {}

Evaluate ==             \* the tick up to the first alert it reacts to
    /\ Idle
    /\ marked' = {r \in marked : ~ LinkAlive(r)}
    /\ active' = [k \in Keys |-> Condition(k)[1]]
    /\ activeSince' = [k \in Keys |-> Condition(k)[2]]
    /\ clearSince' = [k \in Keys |-> Condition(k)[3]]
    /\ todo' = {k \in Keys : Fault(k[1], k[2]) /\ Raised(k)}
    /\ excused' = {k \in excused : active'[k]}
    /\ quiet' = [k \in Keys |-> IF Fault(k[1], k[2]) THEN 0 ELSE quiet[k]]
    /\ lasting' = [k \in Keys |-> IF Fault(k[1], k[2]) THEN Started(lasting[k]) ELSE Unset]
    /\ UNCHANGED <<heard, charge, mode, mission, pending, starting, calls, refused, unconfirmed>>

---------------------------------------------------------------------------
(* MissionService.protective_pause, one alert at a time.                   *)

NeedsPauseOnce ==   \* mutant of NeedsPause: not again while the operator is told of a failed one
    (mode \in {"FOLLOWING", "PAUSING"} \/ mission) /\ ~ pending /\ ~ unconfirmed
NeedsPause == (mode \in {"FOLLOWING", "PAUSING"} \/ mission) /\ ~ pending

PauseSkipped(k) ==
    /\ k \in todo /\ calls = {} /\ ~ NeedsPause
    /\ todo' = todo \ {k}
    /\ UNCHANGED <<link, timers, drive, calls, refused, unconfirmed>>

PauseBegins(k) ==
    /\ k \in todo /\ calls = {} /\ NeedsPause
    /\ todo' = todo \ {k} /\ calls' = Robots /\ refused' = FALSE
    /\ mode' = "PAUSING"
    /\ UNCHANGED <<link, timers, mission, pending, starting, excused, unconfirmed>>

\* the last answer also concludes the pause, and tells the alerts of a refusal
StopAnswered(r, accepted) ==
    /\ r \in calls /\ (accepted => heard[r] # Never)
    /\ calls' = calls \ {r}
    /\ refused' = (refused \/ ~ accepted)
    /\ IF calls' # {} THEN UNCHANGED <<mode, pending, unconfirmed>>
       ELSE /\ pending' = ~ refused'
            /\ mode' = IF refused' THEN "ERROR" ELSE mode
            /\ unconfirmed' = (unconfirmed \/ refused')
    /\ UNCHANGED <<link, timers, mission, starting, excused, todo>>

HaltedSeenLost ==   \* mutant of HaltedSeen: the reason of the pause is not looked at
    /\ Idle /\ pending
    /\ \A r \in Robots : heard[r] \in 0 .. StaleAfter
    /\ pending' = FALSE /\ mode' = "LOST"
    /\ UNCHANGED <<link, timers, mission, starting, excused, tick>>

HaltedSeen ==           \* MissionService._tick: both robots seen halted
    /\ Idle /\ pending
    /\ \A r \in Robots : heard[r] \in 0 .. StaleAfter
    /\ pending' = FALSE /\ mode' = "PAUSED"
    /\ UNCHANGED <<link, timers, mission, starting, excused, tick>>

MissionOver ==          \* it succeeded, or its cancel was seen
    /\ Idle /\ mission /\ mode \in {"FOLLOWING", "PAUSED"}
    /\ mission' = FALSE /\ mode' = "READY"
    /\ UNCHANGED <<link, timers, pending, starting, excused, tick>>

---------------------------------------------------------------------------
(* The command worker and a restart of the backend.                        *)

StartBegins ==
    /\ ~ starting /\ mode \in {"READY", "PAUSED"}
    /\ starting' = TRUE
    /\ UNCHANGED <<link, timers, mode, mission, pending, excused, tick>>

StartEnds(accepted) ==
    /\ starting /\ starting' = FALSE
    /\ mode' = IF accepted THEN "FOLLOWING" ELSE "PAUSED"
    /\ mission' = (mission \/ accepted)
    /\ excused' = IF accepted THEN {k \in Keys : active[k]} ELSE excused
    /\ UNCHANGED <<link, timers, pending, tick>>

Restart ==              \* alerts are stored, timers and formation are not
    /\ activeSince' = All(Unset) /\ clearSince' = All(Unset) /\ marked' = {}
    /\ mode' = "READY" /\ mission' = FALSE /\ pending' = FALSE /\ starting' = FALSE
    /\ todo' = {} /\ calls' = {} /\ refused' = FALSE
    /\ heard' = [r \in Robots |-> IF r \in Fragile THEN Never ELSE heard[r]]
    /\ charge' = [r \in Robots |-> IF r \in Fragile THEN "unknown" ELSE charge[r]]
    /\ UNCHANGED <<active, quiet, lasting, excused, unconfirmed>>

Pausing ==
    \/ \E k \in todo : PauseSkipped(k) \/ PauseBegins(k)
    \/ \E r \in calls, a \in BOOLEAN : StopAnswered(r, a)

Next ==
    \/ \E r \in Fragile : Hears(r) \/ Disconnected(r) \/ Mark(r)
    \/ Pass \/ Evaluate \/ Pausing \/ HaltedSeen \/ MissionOver
    \/ StartBegins \/ (\E a \in BOOLEAN : StartEnds(a)) \/ Restart

Spec == Init /\ [][Next]_vars

(* The watchdog task comes round every 50 ms, each stop call returns within *)
(* its timeout, and the clock goes on.                                      *)
FairSpec == Spec /\ WF_vars(Evaluate) /\ WF_vars(Pausing) /\ WF_vars(Pass)

---------------------------------------------------------------------------

(* Every variable stays within its type.                                   *)
TypeOK ==
    /\ heard \in [Robots -> Silences]
    /\ charge \in [Robots -> Charges] /\ marked \subseteq Robots
    /\ active \in [Keys -> BOOLEAN]
    /\ activeSince \in [Keys -> Unset .. TimerCap] /\ clearSince \in [Keys -> Unset .. TimerCap]
    /\ quiet \in [Keys -> 0 .. TimerCap] /\ lasting \in [Keys -> Unset .. TimerCap]
    /\ mode \in Modes /\ mission \in BOOLEAN /\ pending \in BOOLEAN /\ starting \in BOOLEAN
    /\ todo \subseteq Keys /\ calls \subseteq Robots /\ refused \in BOOLEAN
    /\ unconfirmed \in BOOLEAN /\ excused \subseteq Keys

(* A formation never drives on under an alert that came up during the      *)
(* drive: once the tick is through with it, the formation has been paused  *)
(* or its robots have been told to stop.  An alert is announced only once, *)
(* so none of the early returns of protective_pause may swallow it.        *)
NoBlindDrive ==
    Idle /\ mode = "FOLLOWING" /\ ~ pending => \A k \in Keys : active[k] => k \in excused

(* The timers of _condition, against what the evaluations saw: an alert    *)
(* comes up only when every evaluation for the whole hold time saw its     *)
(* fault, and is resolved only when none saw it for the whole clear time,  *)
(* whatever restarts, marks and reconnects lie between.                    *)
AlertsAreEarned ==
    [][\A k \in Keys :
        /\ active'[k] /\ ~ active[k] => lasting'[k] >= Hold[k[1]]
        /\ active[k] /\ ~ active'[k] => quiet[k] >= ClearAfter[k[1]]]_vars

(* A fault that is gone for good is cleared for good: it does not stay on  *)
(* the operator's list, and its next occurrence is announced again.        *)
FaultsClear ==
    \A k \in Keys : <>[](~ Fault(k[1], k[2]) /\ Clearable(k[1], k[2])) => <>[](~ active[k])
=============================================================================
