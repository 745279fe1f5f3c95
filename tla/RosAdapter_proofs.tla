------------------------- MODULE RosAdapter_proofs -------------------------
(***************************************************************************)
(* Proofs about RosAdapter, for any number of calls, topics, connections   *)
(* and faults: type correctness, a snapshot that holds nothing of an       *)
(* earlier connection, events that agree with robot and caller, and the    *)
(* call contract as a refinement.                                          *)
(***************************************************************************)
EXTENDS RosAdapter, TLAPS

USE DEF connection, tables, robot

LEMMA InitTypes == Init => TypeOK
<1> SUFFICES ASSUME Init PROVE TypeOK
  OBVIOUS
<1>1. pending \in [Calls -> Sockets \cup {NoSocket}] /\ shown \in [Fields -> Sockets \cup {NoSocket}]
  BY DEF Init
<1>2. future \in [Calls -> Results] /\ result \in [Calls -> Results] /\ event \in [Calls -> Results]
  BY DEF Init, Results
<1>3. opened \in 0 .. MaxFaults + 1 /\ retry \in 0 .. Delays /\ faults \in 0 .. MaxFaults
  BY AdapterAssumption DEF Init
<1> QED BY <1>1, <1>2, <1>3 DEF Init, TypeOK, Phases

(* Opening, waiting and closing.                                           *)
LEMMA RunTypes ==
    ASSUME TypeOK,
           Open \/ OpenFails \/ Break \/ ReadFails \/ HandlerFails \/ BackoffEnds \/ Connect \/ Close
    PROVE  TypeOK'
<1> USE AdapterAssumption DEF TypeOK, Phases, Sockets, NoSocket, Results
<1>1. CASE Open
  BY <1>1 DEF Open
<1>2. CASE OpenFails \/ ReadFails \/ HandlerFails
  BY <1>2 DEF OpenFails, ReadFails, HandlerFails, BackOff, Forget
<1>3. CASE Break
  <2>1. alive' \in BOOLEAN
    BY <1>3, Zenon DEF Break
  <2>2. faults' \in 0 .. MaxFaults
    BY <1>3 DEF Break
  <2>3. UNCHANGED <<phase, socket, opened, retry, tables, robot, shown>>
    BY <1>3, Zenon DEF Break
  <2> QED BY <2>1, <2>2, <2>3
<1>4. CASE BackoffEnds
  BY <1>4 DEF BackoffEnds
<1>5. CASE Connect
  BY <1>5 DEF Connect
<1>6. CASE Close
  <2>1. future' \in [Calls -> Results]
    BY <1>6 DEF Close
  <2>2. shown' \in [Fields -> Sockets \cup {NoSocket}]
    BY <1>6 DEF Close, Forget
  <2>3. faults' \in 0 .. MaxFaults
    BY <1>6 DEF Close
  <2> QED BY <1>6, <2>1, <2>2, <2>3 DEF Close
<1> QED BY <1>1, <1>2, <1>3, <1>4, <1>5, <1>6

(* The steps of a call, in its caller, on the wire and back.               *)
LEMMA CallTypes ==
    ASSUME TypeOK, NEW c \in Calls,
           \/ Refuse(c) \/ Send(c) \/ Post(c) \/ WriteFails(c) \/ Caller(c)
           \/ \E v \in Verdicts : Answer(c, v)
           \/ \E n \in Sockets, v \in Verdicts : Execute(c, n, v)
           \/ \E n \in Sockets : Lose(c, n)
    PROVE  TypeOK'
<1> USE AdapterAssumption DEF TypeOK, NoSocket
<1>1. CASE Refuse(c) \/ WriteFails(c)
  BY <1>1 DEF Refuse, WriteFails, Return, Results
<1>2. CASE Send(c) \/ Post(c)
  <2>1. socket \in Sockets
    BY <1>2 DEF Send, Post
  <2>2. wire' \subseteq Calls \X Sockets
    BY <1>2, <2>1 DEF Send, Post
  <2>3. pending' \in [Calls -> Sockets \cup {NoSocket}]
    BY <1>2, <2>1 DEF Send, Post, Return
  <2>4. result' \in [Calls -> Results] /\ event' \in [Calls -> Results]
    BY <1>2 DEF Send, Post, Return, Results, Verdicts
  <2> QED BY <1>2, <2>2, <2>3, <2>4 DEF Send, Post
<1>3. CASE Caller(c)
  BY <1>3 DEF Caller, Resume, Timeout, Return, Results
<1>4. ASSUME NEW v \in Verdicts, Answer(c, v)
      PROVE  TypeOK'
  <2>1. socket \in Sockets
    BY <1>4 DEF Answer
  <2>2. future' \in [Calls -> Results] /\ event' \in [Calls -> Results]
    BY <1>4 DEF Answer, Verdict, Results
  <2>3. shown' \in [Fields -> Sockets \cup {NoSocket}]
    BY <1>4, <2>1 DEF Answer, Fields
  <2>4. retry' \in 0 .. Delays
    BY <1>4 DEF Answer, Heard
  <2> QED BY <1>4, <2>2, <2>3, <2>4 DEF Answer
<1>5. ASSUME NEW n \in Sockets, NEW v \in Verdicts, Execute(c, n, v)
      PROVE  TypeOK'
  BY <1>5 DEF Execute
<1>6. ASSUME NEW n \in Sockets, Lose(c, n)
      PROVE  TypeOK'
  BY <1>6 DEF Lose
<1> QED BY <1>1, <1>2, <1>3, <1>4, <1>5, <1>6

LEMMA TypeStep == TypeOK /\ [Next]_vars => TypeOK'
<1> SUFFICES ASSUME TypeOK, [Next]_vars PROVE TypeOK'
  OBVIOUS
<1>1. ASSUME NEW t \in Topics, Message(t)
      PROVE  TypeOK'
  BY <1>1, AdapterAssumption DEF Message, Receives, Heard, TypeOK, Fields
<1>2. CASE UNCHANGED vars
  BY <1>2 DEF vars, TypeOK
<1> QED BY <1>1, <1>2, RunTypes, CallTypes DEF Next, Run

(* The variables keep their types.                                         *)
THEOREM TypeCorrect == Spec => []TypeOK
<1> QED BY InitTypes, TypeStep, PTL DEF Spec

---------------------------------------------------------------------------

(* Inductive by itself: a field is only filled while the connection is up, *)
(* and every way out of "up" forgets them all.                             *)
LEMMA ShownStep == TypeOK /\ ShownIsCurrent /\ [Next]_vars => ShownIsCurrent'
<1> SUFFICES ASSUME TypeOK, ShownIsCurrent, [Next]_vars PROVE ShownIsCurrent'
  OBVIOUS
<1> USE DEF ShownIsCurrent
<1>1. CASE Open \/ Connect
  BY <1>1 DEF Open, Connect
<1>2. CASE OpenFails \/ ReadFails \/ HandlerFails \/ Close
  BY <1>2 DEF OpenFails, ReadFails, HandlerFails, BackOff, Close, Forget
<1>3. CASE Break \/ BackoffEnds
  BY <1>3 DEF Break, BackoffEnds
<1>4. ASSUME NEW t \in Topics, Message(t)
      PROVE  ShownIsCurrent'
  BY <1>4 DEF Message, Receives, TypeOK
<1>5. ASSUME NEW c \in Calls, NEW v \in Verdicts, Answer(c, v)
      PROVE  ShownIsCurrent'
  BY <1>5 DEF Answer, Receives, TypeOK
<1>6. ASSUME NEW c \in Calls,
             \/ Refuse(c) \/ Send(c) \/ Post(c) \/ WriteFails(c) \/ Caller(c)
             \/ \E n \in Sockets, v \in Verdicts : Execute(c, n, v)
             \/ \E n \in Sockets : Lose(c, n)
      PROVE  UNCHANGED <<shown, socket, phase>>
  BY <1>6 DEF Refuse, Send, Post, WriteFails, Caller, Resume, Timeout, Execute, Lose
<1>7. CASE UNCHANGED vars
  BY <1>7 DEF vars
<1> QED BY <1>1, <1>2, <1>3, <1>4, <1>5, <1>6, <1>7 DEF Next, Run

(* Nothing of an earlier connection is shown after a reconnect.            *)
THEOREM ShownAlwaysCurrent == Spec => []ShownIsCurrent
<1>1. Init => ShownIsCurrent
  BY DEF Init, ShownIsCurrent
<1> QED BY <1>1, TypeCorrect, ShownStep, PTL DEF Spec

(* The delay of the next attempt shrinks only after a message.             *)
THEOREM NeverHammered == Spec => NotHammered
<1>1. TypeOK /\ [Next]_vars => [retry' < retry => (phase = "up" /\ alive) \/ phase = "off"]_vars
  <2> SUFFICES ASSUME TypeOK, Next, retry' < retry
               PROVE  (phase = "up" /\ alive) \/ phase = "off"
    BY DEF vars
  <2> USE AdapterAssumption DEF TypeOK
  <2>1. CASE Run \/ OpenFails \/ Break \/ HandlerFails \/ Connect \/ Close
    BY <2>1 DEF Run, Open, ReadFails, BackoffEnds, OpenFails, Break, HandlerFails, Connect, Close, BackOff
  <2>2. ASSUME NEW t \in Topics, Message(t)
        PROVE  phase = "up" /\ alive
    BY <2>2 DEF Message, Receives
  <2>3. ASSUME NEW c \in Calls,
               \/ Refuse(c) \/ Send(c) \/ Post(c) \/ WriteFails(c) \/ Caller(c)
               \/ \E v \in Verdicts : Answer(c, v)
               \/ \E n \in Sockets, v \in Verdicts : Execute(c, n, v)
               \/ \E n \in Sockets : Lose(c, n)
        PROVE  retry' = retry \/ (phase = "up" /\ alive)
    BY <2>3 DEF Refuse, Send, Post, WriteFails, Caller, Resume, Timeout, Answer, Receives, Execute, Lose
  <2> QED BY <2>1, <2>2, <2>3 DEF Next
<1> QED BY <1>1, TypeCorrect, PTL DEF Spec, NotHammered

---------------------------------------------------------------------------
(* The call contract.  A service call is sent once, so that what has been  *)
(* executed, answered or told is of that one request.                      *)

Sent(c) == c \in executed \/ \E n \in Sockets : <<c, n>> \in wire

CallInv(c) ==
    /\ New(c) \/ result[c] = "refused" => ~ Sent(c)
    /\ result[c] # "none" => pending[c] = NoSocket
    /\ \A n \in Sockets : <<c, n>> \in wire =>
            c \notin executed /\ \A k \in Sockets : <<c, k>> \in wire => k = n
    /\ \A n \in Sockets : <<c, n, "accepted">> \in answers => c \in executed
    /\ future[c] # "refused" /\ (future[c] \in Verdicts => event[c] = future[c])
    /\ event[c] = "accepted" => c \in executed
    /\ result[c] \in Verdicts => event[c] = result[c]

ContractInv == TypeOK /\ \A c \in Calls \ Posts : CallInv(c)

(* A step of call d, or of none, leaves what CallInv says of c alone.      *)
LEMMA CallUnread ==
    ASSUME NEW c \in Calls, CallInv(c),
           result'[c] = result[c], pending'[c] = pending[c], future'[c] = future[c], event'[c] = event[c],
           c \in executed' <=> c \in executed,
           \A n \in Sockets : <<c, n>> \in wire' <=> <<c, n>> \in wire,
           \A n \in Sockets : <<c, n, "accepted">> \in answers' => <<c, n, "accepted">> \in answers
    PROVE  CallInv(c)'
BY DEF CallInv, New, Sent

LEMMA OwnStep ==
    ASSUME ContractInv, NEW c \in Calls \ Posts,
           \/ Refuse(c) \/ Send(c) \/ Post(c) \/ WriteFails(c) \/ Caller(c)
           \/ \E v \in Verdicts : Answer(c, v)
           \/ \E n \in Sockets, v \in Verdicts : Execute(c, n, v)
           \/ \E n \in Sockets : Lose(c, n)
    PROVE  CallInv(c)'
<1> CallInv(c) /\ TypeOK
  BY DEF ContractInv
<1> USE DEF TypeOK
<1>1. CASE Refuse(c) \/ WriteFails(c)
  BY <1>1 DEF Refuse, WriteFails, Return, New, Sent, CallInv, Verdicts
<1>2. CASE Send(c)
  BY <1>2 DEF Send, New, Sent, CallInv, NoSocket, Verdicts
<1>3. CASE Post(c)
  BY <1>3 DEF Post
<1>4. CASE Caller(c)
  <2>1. PICK r : r \in Results \ {"none", "refused"} /\ (r = future[c] \/ r = "timeout") /\ Return(c, r)
    BY <1>4 DEF Caller, Resume, Timeout, Results, CallInv
  <2>2. result'[c] = r /\ pending'[c] = NoSocket /\ UNCHANGED <<future, event, robot>>
    BY <1>4, <2>1 DEF Return, Caller, Resume, Timeout
  <2>3. r \in Verdicts => event[c] = r
    BY <2>1 DEF CallInv, Verdicts
  <2> QED BY <2>1, <2>2, <2>3 DEF New, Sent, CallInv
<1>5. ASSUME NEW v \in Verdicts, Answer(c, v)
      PROVE  CallInv(c)'
  <2>1. socket \in Sockets /\ <<c, socket, v>> \in answers
    BY <1>5 DEF Answer
  <2>2. v = "accepted" => c \in executed
    BY <2>1 DEF CallInv
  <2>3. CASE Completes(c, socket)
    <3>1. future'[c] = v /\ event'[c] = v /\ result[c] = "none"
      BY <1>5, <2>1, <2>3 DEF Answer, Completes, Verdict, CallInv, Sockets, NoSocket
    <3> QED BY <1>5, <2>2, <3>1 DEF Answer, New, Sent, CallInv, Verdicts
  <2>4. CASE ~ Completes(c, socket)
    BY <1>5, <2>4, CallUnread DEF Answer
  <2> QED BY <2>3, <2>4
<1>6. ASSUME NEW n \in Sockets, NEW v \in Verdicts, Execute(c, n, v)
      PROVE  CallInv(c)'
  <2>1. <<c, n>> \in wire /\ ~ (New(c) \/ result[c] = "refused")
    BY <1>6 DEF Execute, CallInv, Sent
  <2>2. \A k \in Sockets : <<c, k>> \notin wire'
    BY <1>6, <2>1 DEF Execute, CallInv
  <2>3. \A k \in Sockets : <<c, k, "accepted">> \in answers' => c \in executed'
    BY <1>6 DEF Execute, CallInv, Verdicts
  <2> QED BY <1>6, <2>1, <2>2, <2>3 DEF Execute, CallInv, New, Sent
<1>7. ASSUME NEW n \in Sockets, Lose(c, n)
      PROVE  CallInv(c)'
  BY <1>7 DEF Lose, CallInv, New, Sent
<1> QED BY <1>1, <1>2, <1>3, <1>4, <1>5, <1>6, <1>7

LEMMA OtherStep ==
    ASSUME ContractInv, NEW c \in Calls \ Posts, NEW d \in Calls \ {c},
           \/ Refuse(d) \/ Send(d) \/ Post(d) \/ WriteFails(d) \/ Caller(d)
           \/ \E v \in Verdicts : Answer(d, v)
           \/ \E n \in Sockets, v \in Verdicts : Execute(d, n, v)
           \/ \E n \in Sockets : Lose(d, n)
    PROVE  CallInv(c)'
<1> CallInv(c) /\ TypeOK
  BY DEF ContractInv
<1>1. result'[c] = result[c] /\ pending'[c] = pending[c] /\ future'[c] = future[c] /\ event'[c] = event[c]
  BY DEF TypeOK, Refuse, Send, Post, WriteFails, Caller, Resume, Timeout, Return, Answer, Execute, Lose
<1>2. c \in executed' <=> c \in executed
  BY DEF Refuse, Send, Post, WriteFails, Caller, Resume, Timeout, Return, Answer, Execute, Lose
<1>3. ASSUME NEW n \in Sockets
      PROVE  /\ <<c, n>> \in wire' <=> <<c, n>> \in wire
             /\ <<c, n, "accepted">> \in answers' => <<c, n, "accepted">> \in answers
  <2>1. CASE Refuse(d) \/ WriteFails(d) \/ Caller(d)
    BY <2>1 DEF Refuse, WriteFails, Caller, Resume, Timeout
  <2>2. CASE Send(d) \/ Post(d)
    BY <2>2 DEF Send, Post
  <2>3. ASSUME NEW v \in Verdicts, Answer(d, v)
        PROVE  /\ <<c, n>> \in wire' <=> <<c, n>> \in wire
               /\ <<c, n, "accepted">> \in answers' => <<c, n, "accepted">> \in answers
    BY <2>3 DEF Answer
  <2>4. ASSUME NEW k \in Sockets, NEW v \in Verdicts, Execute(d, k, v)
        PROVE  /\ <<c, n>> \in wire' <=> <<c, n>> \in wire
               /\ <<c, n, "accepted">> \in answers' => <<c, n, "accepted">> \in answers
    BY <2>4 DEF Execute
  <2>5. ASSUME NEW k \in Sockets, Lose(d, k)
        PROVE  /\ <<c, n>> \in wire' <=> <<c, n>> \in wire
               /\ <<c, n, "accepted">> \in answers' => <<c, n, "accepted">> \in answers
    BY <2>5 DEF Lose
  <2> QED BY <2>1, <2>2, <2>3, <2>4, <2>5
<1> QED BY <1>1, <1>2, <1>3, CallUnread

LEMMA ContractStep == ContractInv /\ [Next]_vars => ContractInv'
<1> SUFFICES ASSUME ContractInv, [Next]_vars, NEW c \in Calls \ Posts PROVE CallInv(c)'
  BY TypeStep DEF ContractInv
<1> CallInv(c) /\ TypeOK
  BY DEF ContractInv
<1>1. CASE UNCHANGED vars
  BY <1>1, CallUnread DEF vars
<1>2. CASE Run \/ OpenFails \/ Break \/ HandlerFails \/ Connect
  BY <1>2, CallUnread DEF Run, Open, ReadFails, BackoffEnds, OpenFails, Break, HandlerFails, Connect
<1>3. CASE Close
  BY <1>3 DEF Close, TypeOK, Waits, New, Sent, CallInv, Verdicts
<1>4. ASSUME NEW t \in Topics, Message(t)
      PROVE  CallInv(c)'
  BY <1>4, CallUnread DEF Message
<1> QED BY <1>1, <1>2, <1>3, <1>4, OwnStep, OtherStep DEF Next

LEMMA ContractAlways == Spec => []ContractInv
<1>1. Init => \A c \in Calls \ Posts : CallInv(c)
  BY DEF Init, CallInv, Sent, New, Verdicts
<1>2. Init => ContractInv
  BY <1>1, InitTypes DEF ContractInv
<1> QED BY <1>2, ContractStep, PTL DEF Spec

(* Command events agree with the robot and with the caller.                *)
THEOREM EventsAlwaysTrue == Spec => []EventsAreTrue
<1>1. ContractInv => EventsAreTrue
  BY DEF ContractInv, CallInv, EventsAreTrue
<1> QED BY <1>1, ContractAlways, PTL

---------------------------------------------------------------------------

(* What a step does to executed and result, as the contract sees it.       *)
LEMMA ToldOnce ==
    ASSUME ContractInv, NEW c \in Calls \ Posts, NEW r \in Results \ {"none"},
           result[c] = "none", result' = [result EXCEPT ![c] = r], executed' = executed,
           r = "accepted" => c \in executed, r = "refused" => c \notin executed
    PROVE  Contract!Next
<1>1. Contract!Return(c, Told(r))
  BY DEF Contract!Return, Contract!Open, Told, ContractInv, TypeOK
<1>2. Told(r) \in Contract!Results \ {Contract!Open}
  BY DEF Told, Contract!Results, Contract!Open, Results, Verdicts
<1> QED BY <1>1, <1>2 DEF Contract!Next

LEMMA ContractUnread ==
    ASSUME UNCHANGED <<executed, result>>
    PROVE  UNCHANGED Contract!vars
BY DEF Contract!vars

LEMMA StepKeepsContract == ContractInv /\ [Next]_vars => [Contract!Next]_Contract!vars
<1> SUFFICES ASSUME ContractInv, [Next]_vars PROVE Contract!Next \/ UNCHANGED Contract!vars
  OBVIOUS
<1> TypeOK
  BY DEF ContractInv
<1>1. CASE \/ Run \/ OpenFails \/ Break \/ HandlerFails \/ Connect \/ Close \/ UNCHANGED vars
           \/ \E t \in Topics : Message(t)
  BY <1>1, ContractUnread
     DEF Run, Open, ReadFails, BackoffEnds, OpenFails, Break, HandlerFails, Connect, Close, Message, vars
<1>2. ASSUME NEW c \in Calls,
             Send(c) \/ (\E v \in Verdicts : Answer(c, v)) \/ (\E n \in Sockets : Lose(c, n))
      PROVE  UNCHANGED Contract!vars
  BY <1>2, ContractUnread DEF Send, Answer, Lose
<1>3. ASSUME NEW c \in Posts,
             \/ Refuse(c) \/ Post(c) \/ WriteFails(c) \/ Caller(c)
             \/ \E n \in Sockets, v \in Verdicts : Execute(c, n, v)
      PROVE  UNCHANGED Contract!vars
  <2>1. \A d \in Calls \ Posts : result'[d] = result[d]
    BY <1>3 DEF Refuse, Post, WriteFails, Caller, Resume, Timeout, Return, Execute, TypeOK
  <2>2. executed' \ Posts = executed \ Posts
    BY <1>3 DEF Refuse, Post, WriteFails, Caller, Resume, Timeout, Return, Execute
  <2> QED BY <2>1, <2>2 DEF Contract!vars
<1>4. ASSUME NEW c \in Calls \ Posts, Refuse(c) \/ WriteFails(c) \/ Caller(c)
      PROVE  Contract!Next
  <2>1. PICK r \in Results \ {"none"} :
            /\ Return(c, r) /\ result[c] = "none" /\ executed' = executed
            /\ r = "accepted" => future[c] = r
            /\ r = "refused" => New(c) \/ future[c] = "refused"
    <3>1. CASE Refuse(c)
      BY <3>1 DEF Refuse, New, Results
    <3>2. CASE WriteFails(c)
      BY <3>2 DEF WriteFails, New, Results
    <3>3. CASE Resume(c)
      <4>1. future[c] \in Results \ {"none"}
        BY <3>3 DEF Resume, TypeOK
      <4> QED BY <3>3, <4>1 DEF Resume, Waits
    <3>4. CASE Timeout(c)
      BY <3>4 DEF Timeout, Waits, Results
    <3> QED BY <1>4, <3>1, <3>2, <3>3, <3>4 DEF Caller
  <2>2. r = "accepted" => c \in executed
    BY <2>1 DEF ContractInv, CallInv, Verdicts
  <2>3. r = "refused" => c \notin executed
    BY <2>1 DEF ContractInv, CallInv, Sent
  <2> QED BY <2>1, <2>2, <2>3, ToldOnce DEF Return
<1>5. ASSUME NEW c \in Calls \ Posts, NEW n \in Sockets, NEW v \in Verdicts, Execute(c, n, v)
      PROVE  Contract!Next \/ UNCHANGED Contract!vars
  <2>1. c \notin executed /\ result[c] \notin {"accepted", "refused"}
    BY <1>5 DEF Execute, ContractInv, CallInv, Sent, Verdicts
  <2>2. CASE v = "accepted"
    <3>1. Contract!Execute(c)
      BY <1>5, <2>1, <2>2 DEF Execute, Contract!Execute, Told
    <3> QED BY <3>1 DEF Contract!Next
  <2>3. CASE v # "accepted"
    BY <1>5, <2>3, ContractUnread DEF Execute
  <2> QED BY <2>2, <2>3
<1>6. ASSUME NEW c \in Calls \ Posts
      PROVE  ~ Post(c)
  BY <1>6 DEF Post
<1> QED BY <1>1, <1>2, <1>3, <1>4, <1>5, <1>6, AdapterAssumption DEF Next

(* A service call keeps the promise its callers rely on, however           *)
(* connections break, answers are late and the adapter is closed.          *)
THEOREM CallsAreFaithful == Spec => CallSpec
<1>1. Init => Contract!Init
  BY DEF Init, Contract!Init, Contract!Open, Told
<1> QED BY <1>1, ContractAlways, StepKeepsContract, PTL DEF Spec, CallSpec, Contract!Spec
=============================================================================
