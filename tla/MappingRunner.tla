--------------------------- MODULE MappingRunner ---------------------------
(***************************************************************************)
(* MappingRunner.launch and cancel, called by MappingService from the      *)
(* worker of the command queue, and the pipeline they start and stop.      *)
(*                                                                         *)
(* The worker runs one handler at a time.  Nothing calls _finish when the  *)
(* pipeline ends by itself: the session stays RUNNING until a cancel.      *)
(***************************************************************************)
EXTENDS MappingPipeline

VARIABLES
    session,    \* _session["state"]
    worker      \* where the handler of a cancel is; "idle" between handlers

vars == <<pvars, session, worker>>

Init == PipelineInit /\ session = "IDLE" /\ worker = "idle"

\* launch(): the next start comes when the earlier programs and Nav2 are gone
Launch ==
    /\ worker = "idle" /\ session # "RUNNING" /\ script = "down"
    /\ child = "none" /\ ~ goal
    /\ session' = "RUNNING" /\ script' = "up" /\ stage' = "off"
    /\ round' = 1 /\ retried' = FALSE /\ homeKnown' = FALSE
    /\ seen' = FALSE /\ interrupted' = FALSE /\ rc' = 0
    /\ UNCHANGED <<child, doing, place, goal, sweep, search, worker>>

CancelAnswers ==    \* mutant of Cancel: the state is written before the wait
    /\ worker = "idle"
    /\ IF script = "up"
       THEN interrupted' = TRUE /\ worker' = "grace"
       ELSE UNCHANGED interrupted /\ worker' = "drain"
    /\ session' = IF session = "RUNNING" THEN "PAUSED" ELSE session
    /\ UNCHANGED <<script, own, child, doing, place, rc, goal, sweep, search, seen>>

\* cancel(): SIGINT to the process group, and up to 5 s for the script to end
Cancel ==
    /\ worker = "idle"
    /\ IF script = "up"
       THEN interrupted' = TRUE /\ worker' = "grace"
       ELSE UNCHANGED interrupted /\ worker' = "drain"
    /\ UNCHANGED <<script, own, child, doing, place, rc, goal, sweep, search, seen, session>>

GraceOver ==
    /\ worker = "grace" /\ script = "down" /\ worker' = "drain"
    /\ UNCHANGED <<pvars, session>>

GraceExpires ==     \* SIGKILL to the group: script, programs and Nav2
    /\ worker = "grace" /\ script = "up" /\ worker' = "drain"
    /\ script' = "down" /\ stage' = "over" /\ Exits(137) /\ goal' = FALSE
    /\ UNCHANGED <<round, retried, homeKnown, seen, interrupted, session>>

Drained ==          \* the pump has seen the end of the output: _finish
    /\ worker = "drain" /\ script = "down" /\ stage \in {"off", "over"}
    /\ session' = IF session = "RUNNING" THEN "PAUSED" ELSE session
    /\ worker' = "stop"
    /\ UNCHANGED pvars

Stopped ==          \* MappingService.on_stop has returned
    /\ worker = "stop" /\ worker' = "idle"
    /\ UNCHANGED <<pvars, session>>

Handler == GraceOver \/ GraceExpires \/ Drained \/ Stopped

Next ==
    \/ PipelineNext /\ UNCHANGED <<session, worker>>
    \/ Launch \/ Cancel \/ Handler

Spec == Init /\ [][Next]_vars /\ PipelineFairness /\ WF_vars(Handler)

---------------------------------------------------------------------------
TypeOK ==
    /\ script \in {"down", "up"} /\ stage \in Stages /\ round \in 1 .. Rounds + 1
    /\ retried \in BOOLEAN /\ homeKnown \in BOOLEAN
    /\ child \in Childs /\ doing \in Doings
    /\ place \in Frontiers \cup Gaps \cup {"home", None}
    /\ rc \in {0, 1, 3, 4, 130, 137} /\ goal \in BOOLEAN
    /\ corner \in {"none", "back", "turn"} /\ freed \in BOOLEAN
    /\ visited \subseteq Frontiers /\ blacklist \subseteq Frontiers
    /\ fails \in [Frontiers -> 0 .. MaxRetries] /\ instant \in 0 .. InstantLimit - 1
    /\ tries \in 0 .. HomeRetries /\ tried \subseteq Gaps
    /\ seen \in BOOLEAN /\ interrupted \in BOOLEAN
    /\ session \in {"IDLE", "RUNNING", "PAUSED"}
    /\ worker \in {"idle", "grace", "drain", "stop"}

\* The programs drive the wheels themselves between goals (sweeps, backing
\* off, the last centimetres home): Nav2 must not execute a goal meanwhile,
\* unless SIGINT has torn the program out of its leg.
OneDriver == goal /\ ~ interrupted => child \in {"explore", "wallfill"} /\ doing = "leg"

\* "So that the program above stops instead of running the next stage": once
\* an explorer has noticed that the map jumped, no further program of this run
\* starts, whatever ends its search after that: the time, a frontier reached or
\* none left, Nav2 refusing.  A jump nobody notices is followed by the next one.
ProgramStarts == child = "none" /\ child' # "none"
NoticedEndsRun == [][ProgramStarts => ~ seen]_vars

\* A cancel that reports PAUSED leaves neither the script nor pinky_hybrid
\* behind, whatever stage it came in and whether or not SIGINT was enough.
CanceledIsOver == session = "PAUSED" => script = "down" /\ stage \in {"off", "over"}

\* Whatever fails on the way, a run ends: every stage gives up by itself, and
\* then no program and no goal of Nav2 is left.
PipelineEnds == script = "up" ~> script = "down" /\ child = "none" /\ ~ goal
=============================================================================
