-------------------------- MODULE ControlAuthority --------------------------
(***************************************************************************)
(* Who may drive by hand: login sessions and the control lease in SQLite,  *)
(* the teleop web sockets with their deadman, and the part of the 50 ms    *)
(* runtime tick that zeroes silent inputs and reaps elapsed authority.     *)
(*                                                                         *)
(* Handlers without an await are one action; a protective stop is cut at   *)
(* each call to a robot.  Every publish and every call may be refused.     *)
(* The robots are external: a latched robot ignores velocities, and its    *)
(* own watchdog, which ends them too, is VelocityWatchdog.  A lease id     *)
(* names its row, so a message with an old one changes nothing and is left *)
(* out, as is a message whose seq is behind the deadman entry.             *)
(***************************************************************************)
EXTENDS Integers, Sequences

CONSTANTS
    Sessions,       \* login tokens; a token is never issued twice
    Operators,      \* those whose user may take the lease
    Robots, RobotOrder,
    Tick,           \* the runtime-tick task, besides a task per web socket
    None,
    LeaseTerm,      \* time units a lease lasts (3 s)
    InputLimit,     \* and a teleop input may be silent (0.3 s)
    MaxInputs       \* bound: teleop messages

ASSUME AuthorityAssumption ==
    /\ Operators \subseteq Sessions
    /\ None \notin Sessions /\ Tick \notin Sessions
    /\ RobotOrder \in Seq(Robots) /\ Robots = {RobotOrder[i] : i \in DOMAIN RobotOrder}
    /\ LeaseTerm \in Nat \ {0} /\ InputLimit \in Nat /\ MaxInputs \in Nat

Tasks         == Sessions \cup {Tick}
SessionStates == {"new", "open", "expired", "gone"}
Outputs       == {"zero", "moving"}
Off           == -1          \* no deadman entry

VARIABLES
    session,    \* the sessions table
    row, left,  \* the control_leases row: its session, and time until expires_at
    socket,     \* the session's teleop web socket is open
    armed,      \* TeleopService.active: age of the input, or Off
    todo,       \* per task: robots its protective stop has still to call
    phase,      \* runtime_tick: where its task is
    zeroing,    \* robots tick() returned, still to be zeroed
    output,     \* the velocity the backend last had accepted for each robot
    latched,    \* the robots' stop latches
    lost,       \* history: a call failed since that velocity was accepted
    driver,     \* history: the session of the last accepted velocity
    called,     \* history: robots a protective stop has called since the last grant
    surrendered,\* history: the holder gave the lease up itself
    inputs      \* the bounded counter

lease   == <<row, left>>
ticking == <<phase, zeroing>>
robot   == <<output, latched, lost>>
vars    == <<session, lease, socket, armed, todo, ticking, robot, driver, called, surrendered, inputs>>

Init ==
    /\ session = [s \in Sessions |-> "new"]
    /\ row = None /\ left = 0
    /\ socket = [s \in Sessions |-> FALSE]
    /\ armed = [r \in Robots |-> Off]
    /\ todo = [t \in Tasks |-> <<>>]
    /\ phase = "idle" /\ zeroing = {}
    /\ output = [r \in Robots |-> "zero"]
    /\ latched = [r \in Robots |-> FALSE]
    /\ lost = [r \in Robots |-> FALSE]
    /\ driver = None /\ called = {} /\ surrendered = FALSE
    /\ inputs = 0

---------------------------------------------------------------------------
(* Sessions and the lease.                                                 *)

LoggedIn(s)   == session[s] = "open"            \* current_user, verify_mutation
MayOperate(s) == LoggedIn(s) /\ s \in Operators
Owns(s)   == row = s /\ left > 0                \* owns_lease
Authority == IF left > 0 THEN row ELSE None

Login(s) ==     \* create_session also deletes expired sessions, not their leases
    /\ session[s] = "new"
    /\ session' = [x \in Sessions |-> IF x = s THEN "open"
                                      ELSE IF session[x] = "expired" THEN "gone" ELSE session[x]]
    /\ UNCHANGED <<lease, socket, armed, todo, ticking, robot, driver, called, surrendered, inputs>>

SessionElapses(s) ==    \* its eight hours are over
    /\ session[s] = "open"
    /\ session' = [session EXCEPT ![s] = "expired"]
    /\ UNCHANGED <<lease, socket, armed, todo, ticking, robot, driver, called, surrendered, inputs>>

MayAcquireAnyway(s) == TRUE             \* mutant of MayAcquire: no conflict check
MayAcquire(s) == row \in {None, s} \/ left = 0  \* elapsed rows are deleted first

Acquire(s) ==
    /\ MayOperate(s)
    /\ ~ Owns(s) /\ MayAcquire(s)
    /\ row' = s /\ left' = LeaseTerm
    /\ called' = {} /\ surrendered' = FALSE
    /\ UNCHANGED <<session, socket, armed, todo, ticking, robot, driver, inputs>>

Renew(s) ==             \* or acquire, by the session that holds it
    /\ MayOperate(s) /\ Owns(s)
    /\ left' = LeaseTerm
    /\ UNCHANGED <<session, row, socket, armed, todo, ticking, robot, driver, called, surrendered, inputs>>

Surrender ==
    /\ row' = None /\ left' = 0
    /\ surrendered' = TRUE
    /\ UNCHANGED <<socket, armed, todo, ticking, robot, driver, called, inputs>>

ReleaseLease(s) ==      \* the row, elapsed or not; lease_end_hook stops nobody
    /\ MayOperate(s) /\ row = s
    /\ Surrender
    /\ UNCHANGED session

Logout(s) ==            \* delete_session
    /\ LoggedIn(s)
    /\ session' = [session EXCEPT ![s] = "gone"]
    /\ \/ row = s /\ Surrender
       \/ /\ row # s
          /\ UNCHANGED <<lease, socket, armed, todo, ticking, robot, driver, called, surrendered, inputs>>

---------------------------------------------------------------------------
(* The teleop web socket.                                                  *)

AllOff == [r \in Robots |-> Off]

BeginStopUncalled(t) == \* mutant of BeginStop: only the entries go
    armed' = AllOff /\ UNCHANGED todo

BeginStop(t) ==         \* app.protective_stop: teleop entries go, then every robot is called
    /\ armed' = AllOff
    /\ todo' = [todo EXCEPT ![t] = RobotOrder]

Connect(s) ==
    /\ LoggedIn(s) /\ ~ socket[s] /\ todo[s] = <<>>
    /\ socket' = [socket EXCEPT ![s] = TRUE]
    /\ UNCHANGED <<session, lease, armed, todo, ticking, robot, driver, called, surrendered, inputs>>

MayDrive(s) == socket[s] /\ Owns(s)     \* the session itself is not looked at again

InputAccepted(s, r, v) ==   \* enter, ingest and a publish the adapter accepts
    /\ MayDrive(s) /\ inputs < MaxInputs
    /\ armed' = [armed EXCEPT ![r] = 0]
    /\ output' = [output EXCEPT ![r] = IF latched[r] THEN "zero" ELSE v]
    /\ lost' = [lost EXCEPT ![r] = FALSE]
    /\ driver' = s
    /\ inputs' = inputs + 1
    /\ UNCHANGED <<session, lease, socket, todo, ticking, latched, called, surrendered>>

InputRefused(s) ==          \* service.protective_stop forgets both robots, sends nothing
    /\ MayDrive(s) /\ inputs < MaxInputs
    /\ armed' = AllOff
    /\ lost' = [r \in Robots |-> TRUE]
    /\ inputs' = inputs + 1
    /\ UNCHANGED <<session, lease, socket, todo, ticking, output, latched, driver, called, surrendered>>

Disconnect(s) ==
    /\ socket[s]
    /\ socket' = [socket EXCEPT ![s] = FALSE]
    /\ BeginStop(s)
    /\ UNCHANGED <<session, lease, ticking, robot, driver, called, surrendered, inputs>>

SocketFails(s) ==           \* an unreadable frame or a failing answer: nobody is stopped
    /\ socket[s]
    /\ socket' = [socket EXCEPT ![s] = FALSE]
    /\ UNCHANGED <<session, lease, armed, todo, ticking, robot, driver, called, surrendered, inputs>>

StopCall(t) ==              \* the adapter call of a protective stop, answered or not
    /\ todo[t] # <<>>
    /\ LET r == Head(todo[t]) IN
        /\ called' = called \cup {r}
        /\ \/ /\ latched' = [latched EXCEPT ![r] = TRUE]
              /\ output' = [output EXCEPT ![r] = "zero"]
              /\ UNCHANGED lost
           \/ lost' = [lost EXCEPT ![r] = TRUE] /\ UNCHANGED <<output, latched>>
    /\ todo' = [todo EXCEPT ![t] = Tail(@)]
    /\ UNCHANGED <<session, lease, socket, armed, ticking, driver, surrendered, inputs>>

ResetStop(r) ==             \* a reset_stop the dispatcher executes (CommandDispatch)
    /\ latched[r]
    /\ latched' = [latched EXCEPT ![r] = FALSE]
    /\ UNCHANGED <<session, lease, socket, armed, todo, ticking, output, lost, driver, called, surrendered, inputs>>

---------------------------------------------------------------------------
(* Time and the runtime tick.                                              *)

AgeCap == InputLimit + 1

PassBelow ==        \* mutant of Pass: an elapsed lease goes on elapsing
    /\ row # None
    /\ left' = left - 1
    /\ UNCHANGED <<session, row, socket, armed, todo, ticking, robot, driver, called, surrendered, inputs>>

Pass ==
    /\ left > 0 \/ \E r \in Robots : armed[r] \in 0 .. InputLimit
    /\ left' = IF left > 0 THEN left - 1 ELSE 0
    /\ armed' = [r \in Robots |-> IF armed[r] \in 0 .. InputLimit THEN armed[r] + 1 ELSE armed[r]]
    /\ UNCHANGED <<session, row, socket, todo, ticking, robot, driver, called, surrendered, inputs>>

Silent == {r \in Robots : armed[r] > InputLimit}

TeleopTickForgets ==        \* mutant of TeleopTick: the entry goes, no ZERO is returned
    /\ phase = "idle" /\ todo[Tick] = <<>>
    /\ phase' = "zeroing" /\ zeroing' = {}
    /\ armed' = [r \in Robots |-> IF r \in Silent THEN Off ELSE armed[r]]
    /\ UNCHANGED <<session, lease, socket, todo, robot, driver, called, surrendered, inputs>>

TeleopTick ==
    /\ phase = "idle" /\ todo[Tick] = <<>>
    /\ phase' = "zeroing" /\ zeroing' = Silent
    /\ armed' = [r \in Robots |-> IF r \in Silent THEN Off ELSE armed[r]]
    /\ UNCHANGED <<session, lease, socket, todo, robot, driver, called, surrendered, inputs>>

ZeroVelocity(r) ==          \* zero_teleop_velocity
    /\ phase = "zeroing" /\ r \in zeroing /\ todo[Tick] = <<>>
    /\ zeroing' = zeroing \ {r}
    /\ \/ /\ output' = [output EXCEPT ![r] = "zero"]
          /\ UNCHANGED <<armed, todo, lost>>
       \/ /\ BeginStop(Tick)
          /\ lost' = [lost EXCEPT ![r] = TRUE]
          /\ UNCHANGED output
    /\ UNCHANGED <<session, lease, socket, phase, latched, driver, called, surrendered, inputs>>

LapsedSessionOnly == row # None /\ session[row] = "expired"     \* mutant of Lapsed
Lapsed == row # None /\ (left = 0 \/ session[row] = "expired")  \* the reasons are not empty

ExpireSecurity ==           \* the end of the tick
    /\ phase = "zeroing" /\ zeroing = {} /\ todo[Tick] = <<>>
    /\ phase' = "idle"
    /\ session' = [s \in Sessions |-> IF session[s] = "expired" THEN "gone" ELSE session[s]]
    /\ IF row # None /\ (left = 0 \/ session[row] = "expired")
       THEN row' = None /\ left' = 0
       ELSE UNCHANGED lease
    /\ IF Lapsed THEN BeginStop(Tick) ELSE UNCHANGED <<armed, todo>>
    /\ UNCHANGED <<socket, zeroing, robot, driver, called, surrendered, inputs>>

RuntimeTick == TeleopTick \/ (\E r \in Robots : ZeroVelocity(r)) \/ ExpireSecurity

Next ==
    \/ \E s \in Sessions :
        \/ Login(s) \/ SessionElapses(s) \/ Logout(s)
        \/ Acquire(s) \/ Renew(s) \/ ReleaseLease(s)
        \/ Connect(s) \/ Disconnect(s) \/ SocketFails(s) \/ InputRefused(s)
        \/ \E r \in Robots, v \in Outputs : InputAccepted(s, r, v)
    \/ \E t \in Tasks : StopCall(t)
    \/ \E r \in Robots : ResetStop(r)
    \/ Pass
    \/ RuntimeTick

Spec == Init /\ [][Next]_vars

(* The event loop runs every ready task, a call is answered or times out,  *)
(* and the clock goes on.                                                  *)
FairSpec ==
    /\ Spec
    /\ WF_vars(Pass)
    /\ WF_vars(RuntimeTick)
    /\ \A t \in Tasks : WF_vars(StopCall(t))

---------------------------------------------------------------------------

(* Every variable stays within its type.                                   *)
TypeOK ==
    /\ session \in [Sessions -> SessionStates]
    /\ row \in Sessions \cup {None} /\ left \in 0 .. LeaseTerm
    /\ socket \in [Sessions -> BOOLEAN]
    /\ armed \in [Robots -> Off .. AgeCap]
    /\ todo \in [Tasks -> Seq(Robots)]
    /\ phase \in {"idle", "zeroing"} /\ zeroing \subseteq Robots
    /\ output \in [Robots -> Outputs]
    /\ latched \in [Robots -> BOOLEAN] /\ lost \in [Robots -> BOOLEAN]
    /\ driver \in Sessions \cup {None} /\ called \subseteq Robots
    /\ surrendered \in BOOLEAN /\ inputs \in 0 .. MaxInputs

(* A robot that was given a velocity by hand is watched: its deadman entry *)
(* is there, or a zero or a protective stop for it is on its way, whatever *)
(* order messages, ticks and closing sockets come in.  The one gap is a    *)
(* failed call, after which only the robot's own watchdog is left.         *)
Guarded(r) ==
    \/ armed[r] # Off \/ r \in zeroing
    \/ \E t \in Tasks : \E i \in DOMAIN todo[t] : todo[t][i] = r

MovingIsGuarded == \A r \in Robots : output[r] = "moving" /\ ~ lost[r] => Guarded(r)

(* Authority that lapses by time is answered: every robot is called by a   *)
(* protective stop, unless the holder renewed it or surrendered it, or     *)
(* somebody acquired it before the tick saw the elapsed row.               *)
LapseStops ==
    (row # None /\ left = 0) ~> (called = Robots \/ left > 0 \/ surrendered)

(* A robot does not move on an input that has stopped coming.              *)
InputEnds ==
    \A r \in Robots : output[r] = "moving" ~> output[r] = "zero" \/ lost[r]

(* Lease and sockets implement exclusive control.                          *)
Exclusive == INSTANCE ExclusiveControl WITH holder <- Authority
ExclusiveSpec == Exclusive!Spec
=============================================================================
