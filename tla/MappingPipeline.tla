-------------------------- MODULE MappingPipeline --------------------------
(***************************************************************************)
(* The mapping programs one run of run_lap_real.sh starts: the script with *)
(* its EXIT trap, pinky_hybrid.py with its stages, the program a stage     *)
(* runs (pinky_wallfollow, pinky_explore, pinky_wallfill), and the goal    *)
(* Nav2 executes for it.                                                   *)
(*                                                                         *)
(* Laser geometry and the occupancy grid are left out: which frontiers or  *)
(* gaps are still there, how a leg ends, whether the map grew, and whether *)
(* a program's look at it finds that it jumped are free choices.  A time   *)
(* limit may strike at any time and need not strike at all, unless         *)
(* fairness says so.                                                       *)
(*                                                                         *)
(* MappingRunner starts the script with PINKY_TRACK_W and _H at 0, which   *)
(* switches the size check of pinky_mapcheck off: health() never reports a *)
(* diverged map, and pinky_hybrid's own looks at it never fire.  What is   *)
(* left is the jump an explorer or a sweep may notice in its own process.  *)
(***************************************************************************)
EXTENDS Integers, FiniteSets

CONSTANTS
    Frontiers,      \* places the explorer may be sent to
    Gaps,           \* holes in the walls
    Rounds,         \* --frontier-rounds
    MaxRetries,     \* failures before a place is given up
    InstantLimit,   \* refusals at once before Nav2 is called broken
    HomeRetries,    \* --max-retries of the way home
    None

ASSUME PipelineAssumption ==
    /\ Rounds \in Nat \ {0} /\ MaxRetries \in Nat \ {0}
    /\ InstantLimit \in Nat \ {0} /\ HomeRetries \in Nat \ {0}
    /\ "home" \notin Frontiers \cup Gaps
    /\ None \notin Frontiers \cup Gaps \cup {"home"}

Stages == {"off", "begin", "sweep", "judge", "explore", "regain", "fill", "home", "over"}
Childs == {"none", "wallfollow", "explore", "wallfill"}
Doings == {"start", "look", "leg", "backing", "freeing", "approach", "judge", "follow", "escape"}

VARIABLES
    script,         \* run_lap_real.sh: "down" or "up"
    stage,          \* pinky_hybrid: the stage it is in, or has just left
    round, retried, homeKnown,
    child, doing,   \* the program of the stage and where it is
    place,          \* what its leg is for
    rc,             \* exit code of the last program
    goal,           \* Nav2 executes a goal
    corner, freed,  \* wallfollow: phase of the corner manoeuvre, freed_once
    visited, blacklist, fails, instant, tries,  \* explore
    tried,          \* wallfill
    seen,           \* explore: self.diverged, of the program that runs or ran last
    interrupted     \* SIGINT has reached the programs

own    == <<stage, round, retried, homeKnown>>
sweep  == <<corner, freed>>
search == <<visited, blacklist, fails, instant, tries, tried>>
pvars  == <<script, own, child, doing, place, rc, goal, sweep, search, seen, interrupted>>

NoFails == [f \in Frontiers |-> 0]

PipelineInit ==
    /\ script = "down" /\ stage = "off" /\ round = 1 /\ retried = FALSE /\ homeKnown = FALSE
    /\ child = "none" /\ doing = "start" /\ place = None /\ rc = 0 /\ goal = FALSE
    /\ corner = "none" /\ freed = FALSE
    /\ visited = {} /\ blacklist = {} /\ fails = NoFails /\ instant = 0 /\ tries = 0 /\ tried = {}
    /\ seen = FALSE /\ interrupted = FALSE

FreshSearch ==      \* every program is a process of its own
    /\ visited' = {} /\ blacklist' = {} /\ fails' = NoFails /\ instant' = 0 /\ tries' = 0
    /\ tried' = {} /\ corner' = "none" /\ freed' = FALSE

Exits(code) ==      \* sys.exit of the program
    /\ child' = "none" /\ doing' = "start" /\ place' = None /\ rc' = code
    /\ FreshSearch

At(c, d) == child = c /\ doing = d /\ ~ interrupted
Turns(d) == doing' = d /\ UNCHANGED <<child, rc>>

---------------------------------------------------------------------------
(* Nav2.                                                                   *)

Sends(p) == goal' = TRUE /\ place' = p /\ doing' = "leg"    \* goToPose
Cancels  == goal' = FALSE                                   \* cancelTask

---------------------------------------------------------------------------
(* pinky_wallfollow.py                                                     *)

SweepBegins ==
    /\ At("wallfollow", "start")
    /\ \/ Exits(1) /\ UNCHANGED <<own, goal>>                   \* no transform, no HOME
       \/ /\ homeKnown' = (homeKnown \/ stage = "sweep")        \* HOME is printed
          /\ UNCHANGED <<stage, round, retried, goal>>
          /\ \/ Exits(1)                                        \* enclosed: run() returns None
             \/ Turns("follow") /\ UNCHANGED <<place, sweep, search>>
    /\ UNCHANGED <<script, seen, interrupted>>

EscapeBegins ==     \* contact, or no softer steering is free of one
    /\ At("wallfollow", "follow") /\ Turns("escape")
    /\ UNCHANGED <<script, own, place, goal, sweep, search, seen, interrupted>>

EscapeOver ==
    /\ At("wallfollow", "escape") /\ Turns("follow")
    /\ UNCHANGED <<script, own, place, goal, sweep, search, seen, interrupted>>

EscapeTimesOut ==   \* park_clear once, then the sweep is given up
    /\ At("wallfollow", "escape")
    /\ IF freed THEN Exits(0)
       ELSE Turns("follow") /\ freed' = TRUE /\ UNCHANGED <<place, corner, search>>
    /\ UNCHANGED <<script, own, goal, seen, interrupted>>

Corner(phase) ==
    /\ corner' = phase
    /\ UNCHANGED <<script, own, child, doing, place, rc, goal, freed, search, seen, interrupted>>

StartCorner ==      \* the way ahead is blocked
    /\ At("wallfollow", "follow") /\ corner = "none"
    /\ Corner("back") \/ Corner("turn")

CornerStep ==
    /\ At("wallfollow", "follow") /\ corner # "none"
    /\ Corner(IF corner = "back" THEN "turn" ELSE "none")

CornerGivenUp ==    \* 15 s: make_start_room
    /\ At("wallfollow", "follow") /\ corner # "none" /\ Corner("none")

SweepEnds ==        \* time, patience, revisits, a loop, or a map that jumped
    /\ child = "wallfollow" /\ doing \in {"follow", "escape"} /\ ~ interrupted
    /\ Exits(0)
    /\ UNCHANGED <<script, own, goal, seen, interrupted>>

Sweeping == \/ EscapeBegins \/ EscapeOver \/ EscapeTimesOut
            \/ StartCorner \/ CornerStep \/ CornerGivenUp

---------------------------------------------------------------------------
(* pinky_explore.py                                                        *)

\* map_broken() compares the map with the one of its last look, some seconds
\* ago; what it has found out once, this explorer does not forget
Notices == seen' \in {seen, TRUE}

ExploreBegins ==    \* wait_nav2 and wait_for_map
    /\ At("explore", "start")
    /\ Exits(1) \/ (Turns("look") /\ UNCHANGED <<place, sweep, search>>)
    /\ UNCHANGED <<script, own, goal, seen, interrupted>>

\* explore() has returned: exit code, or the way home unless --no-return
Leaves(nav2Broken, diverged) ==
    IF nav2Broken THEN Exits(4)
    ELSE IF diverged THEN Exits(3)
    ELSE IF stage = "explore" THEN Exits(0)
    ELSE /\ place' = "home" /\ Turns("look") /\ UNCHANGED <<sweep, search>>

OpenAgain(f) == f \notin blacklist       \* mutant of Open: a place may be visited twice
Open(f) == f \notin visited \cup blacklist

LookEndsByReturn == \* mutant of LookEnds: out of time is no failure, whatever was seen before
    /\ At("explore", "look") /\ place = None
    /\ \E b \in BOOLEAN : seen' = (seen \/ b) /\ Leaves(FALSE, b)
    /\ UNCHANGED <<script, own, goal, interrupted>>

LookEnds ==         \* no time, a map that jumped, or no frontier left
    /\ At("explore", "look") /\ place = None
    /\ Notices
    /\ Leaves(FALSE, seen')
    /\ UNCHANGED <<script, own, goal, interrupted>>

LookGoes(f) ==      \* choose_goal; --min-frontier 9999 leaves none in the last stage
    /\ At("explore", "look") /\ place = None /\ stage = "explore" /\ ~ seen /\ Open(f)
    /\ Sends(f)
    /\ UNCHANGED <<script, own, child, rc, sweep, search, seen, interrupted>>

Fails(f, quick) ==
    /\ fails' = [fails EXCEPT ![f] = @ + 1]
    /\ blacklist' = IF fails'[f] >= MaxRetries THEN blacklist \cup {f} ELSE blacklist

\* the end of a round of explore(): quick means within half a second
Arrived(ok, quick) ==
    IF ok
    THEN /\ visited' = visited \cup {place} /\ instant' = 0
         /\ place' = None /\ Turns("look") /\ UNCHANGED <<sweep, blacklist, fails, tries, tried>>
    ELSE LET n == IF quick THEN instant + 1 ELSE 0
         IN IF n >= InstantLimit THEN Leaves(TRUE, seen)
            ELSE /\ instant' = n /\ Fails(place, quick)
                 /\ place' = None /\ Turns(IF place \in blacklist' THEN "look" ELSE "backing")
                 /\ UNCHANGED <<sweep, visited, tries, tried>>

ExploreLeg == At("explore", "leg") /\ place \in Frontiers

\* Nav2 is done with the goal, or never took it
LegConcludes(ok, quick) ==
    /\ ExploreLeg /\ goal' = FALSE /\ Arrived(ok, quick)
    /\ UNCHANGED <<script, own, seen, interrupted>>

LegGivenUpUncanceled ==     \* mutant of LegGivenUp: back off while Nav2 still has the goal
    /\ ExploreLeg /\ Turns("backing") /\ UNCHANGED <<goal, place>>
    /\ UNCHANGED <<script, own, sweep, visited, blacklist, fails, instant, tries, tried, seen, interrupted>>

\* stalled, too close, out of time or the map jumped: cancel, then get clear
LegGivenUp ==
    /\ ExploreLeg /\ Cancels /\ Turns("backing")
    /\ Notices
    /\ UNCHANGED <<script, own, place, sweep, visited, blacklist, fails, instant, tries, tried, interrupted>>

\* back_off is over, or had no room behind after a leg that was given up
BackOff ==
    /\ At("explore", "backing")
    /\ \/ place = None /\ Turns("look") /\ UNCHANGED <<place, sweep, search>>
       \/ place # None /\ Turns("freeing") /\ UNCHANGED <<place, sweep, search>>
       \/ \E ok, quick \in BOOLEAN : place # None /\ Arrived(ok, quick)
    /\ UNCHANGED <<script, own, goal, seen, interrupted>>

\* free_self is over; the result of a goal just canceled may be any
FreeSelf ==
    /\ At("explore", "freeing")
    /\ \E ok, quick \in BOOLEAN : Arrived(ok, quick)
    /\ UNCHANGED <<script, own, goal, seen, interrupted>>

---------------------------------------------------------------------------
(* return_home(): at most HomeRetries attempts.                            *)

HomeGoes ==
    /\ At("explore", "look") /\ place = "home"
    /\ Sends("home") /\ tries' = tries + 1
    /\ UNCHANGED <<script, own, child, rc, sweep, visited, blacklist, fails, instant, tried, seen, interrupted>>

HomeLegEnds ==      \* concluded or canceled; a map that jumped only ends this attempt
    /\ At("explore", "leg") /\ place = "home"
    /\ Cancels /\ Turns("approach")
    /\ Notices
    /\ UNCHANGED <<script, own, place, sweep, visited, blacklist, fails, instant, tries, tried, interrupted>>

PreciseApproach ==      \* straight at the place, if it is near
    /\ At("explore", "approach") /\ Turns("judge")
    /\ UNCHANGED <<script, own, place, goal, sweep, search, seen, interrupted>>

HomeJudgedLate(there) ==    \* mutant of HomeJudged: one attempt more
    /\ At("explore", "judge")
    /\ IF there \/ tries > HomeRetries THEN Exits(0)
       ELSE Turns("look") /\ UNCHANGED <<place, sweep, search>>
    /\ UNCHANGED <<script, own, goal, seen, interrupted>>

HomeJudged(there) ==    \* the position decides; maybe backs off
    /\ At("explore", "judge")
    /\ IF there \/ tries = HomeRetries THEN Exits(0)
       ELSE Turns("look") /\ UNCHANGED <<place, sweep, search>>
    /\ UNCHANGED <<script, own, goal, seen, interrupted>>

---------------------------------------------------------------------------
(* pinky_wallfill.py                                                       *)

FillBegins ==
    /\ At("wallfill", "start")
    /\ Exits(1) \/ (Turns("look") /\ UNCHANGED <<place, sweep, search>>)
    /\ UNCHANGED <<script, own, goal, seen, interrupted>>

FillEnds ==         \* no time, no round or no gap left
    /\ At("wallfill", "look") /\ Exits(0)
    /\ UNCHANGED <<script, own, goal, seen, interrupted>>

FillGoes(g) ==      \* the gap is noted whether or not a viewpoint is found
    /\ At("wallfill", "look") /\ g \notin tried /\ tried' = tried \cup {g}
    /\ Sends(g) \/ (Turns("look") /\ UNCHANGED <<place, goal>>)
    /\ UNCHANGED <<script, own, child, rc, sweep, visited, blacklist, fails, instant, tries, seen, interrupted>>

FillLegEnds ==      \* concluded, or canceled, if too close with a back_off
    /\ At("wallfill", "leg") /\ Cancels /\ place' = None
    /\ Turns("look") \/ Turns("backing")
    /\ UNCHANGED <<script, own, sweep, search, seen, interrupted>>

FillBacked ==
    /\ At("wallfill", "backing") /\ Turns("look")
    /\ UNCHANGED <<script, own, place, goal, sweep, search, seen, interrupted>>

---------------------------------------------------------------------------
(* pinky_hybrid.py: main() between its programs.                           *)

After(s) == stage = s /\ child = "none" /\ ~ interrupted

Runs(s, c) ==       \* run() of the next program
    /\ stage' = s /\ child' = c /\ seen' = FALSE
    /\ UNCHANGED <<doing, place, rc, sweep, search>>
Moves(s) ==
    /\ stage' = s
    /\ UNCHANGED <<child, doing, place, rc, sweep, search, seen>>

Kept == UNCHANGED <<script, goal, interrupted>>

HybridStarts ==     \* the script has raised SLAM and Nav2
    /\ script = "up" /\ After("off") /\ Moves("begin")
    /\ UNCHANGED <<round, retried, homeKnown>> /\ Kept

HybridBegins ==     \* without /map it ends
    /\ After("begin")
    /\ Moves("over") \/ Runs("sweep", "wallfollow")
    /\ UNCHANGED <<round, retried, homeKnown>> /\ Kept

AfterSweep ==       \* its exit code is not looked at
    /\ After("sweep") /\ Moves("judge")
    /\ UNCHANGED <<round, retried, homeKnown>> /\ Kept

Judge ==            \* a frontier that is large enough is worth another round
    /\ After("judge")
    /\ \/ Runs("fill", "wallfill")
       \/ round <= Rounds /\ Runs("explore", "explore")
    /\ UNCHANGED <<round, retried, homeKnown>> /\ Kept

AfterExplore ==     \* the map grew; or one sweep with the other hand; or it is enough
    /\ After("explore")
    /\ IF rc \in {3, 4}
       THEN Moves("over") /\ UNCHANGED <<round, retried>>
       ELSE \/ Moves("judge") /\ round' = round + 1 /\ UNCHANGED retried
            \/ ~ retried /\ retried' = TRUE /\ Runs("regain", "wallfollow") /\ UNCHANGED round
            \/ Runs("fill", "wallfill") /\ UNCHANGED <<round, retried>>
    /\ UNCHANGED homeKnown /\ Kept

AfterRegain ==
    /\ After("regain") /\ Moves("judge") /\ round' = round + 1
    /\ UNCHANGED <<retried, homeKnown>> /\ Kept

AfterFill ==
    /\ After("fill")
    /\ IF ~ homeKnown THEN Moves("over") ELSE Runs("home", "explore")
    /\ UNCHANGED <<round, retried, homeKnown>> /\ Kept

AfterHome ==
    /\ After("home") /\ Moves("over")
    /\ UNCHANGED <<round, retried, homeKnown>> /\ Kept

Hybrid == \/ HybridStarts \/ HybridBegins \/ AfterSweep \/ Judge
          \/ AfterExplore \/ AfterRegain \/ AfterFill \/ AfterHome

---------------------------------------------------------------------------
(* The ends: SIGINT, and the trap of the script.                           *)

HybridDies ==       \* KeyboardInterrupt leaves run() without a wait for the program
    /\ interrupted /\ script = "up" /\ stage # "over" /\ stage' = "over"
    /\ UNCHANGED <<script, round, retried, homeKnown, child, doing, place, rc, goal, sweep, search, seen, interrupted>>

ChildDies ==        \* only the explorer calls cancelTask, if it still can
    /\ child # "none" /\ interrupted
    /\ Exits(130)
    /\ goal' = goal \/ (child = "explore" /\ Cancels)
    /\ UNCHANGED <<script, own, seen, interrupted>>

ScriptEnds ==       \* trap 'kill 0' EXIT
    /\ script = "up" /\ stage = "over" /\ script' = "down"
    /\ UNCHANGED <<own, child, doing, place, rc, goal, sweep, search, seen, interrupted>>

GoalEnds ==         \* Nav2 concludes a goal nobody waits for, or is killed itself
    /\ goal /\ (doing # "leg" \/ script = "down") /\ goal' = FALSE
    /\ UNCHANGED <<script, own, child, doing, place, rc, sweep, search, seen, interrupted>>

Sweep   == SweepBegins \/ Sweeping \/ SweepEnds
Explore == \/ ExploreBegins \/ LookEnds \/ LegGivenUp \/ BackOff \/ FreeSelf
           \/ HomeGoes \/ HomeLegEnds \/ PreciseApproach
           \/ \E f \in Frontiers : LookGoes(f)
           \/ \E ok, quick \in BOOLEAN : LegConcludes(ok, quick)
           \/ \E there \in BOOLEAN : HomeJudged(there)
Fill    == FillBegins \/ FillEnds \/ FillLegEnds \/ FillBacked \/ \E g \in Gaps : FillGoes(g)
Ends    == HybridDies \/ ChildDies \/ ScriptEnds \/ GoalEnds

PipelineNext == Sweep \/ Explore \/ Fill \/ Hybrid \/ Ends

\* The programs run; every one has a limit on its time or on its attempts.
PipelineFairness ==
    /\ WF_pvars(SweepBegins) /\ WF_pvars(SweepEnds) /\ WF_pvars(Explore) /\ WF_pvars(Fill)
    /\ WF_pvars(Hybrid) /\ WF_pvars(HybridDies) /\ WF_pvars(ChildDies)
    /\ WF_pvars(ScriptEnds) /\ WF_pvars(GoalEnds)
=============================================================================
