------------------------ MODULE MappingRunner_proofs -----------------------
(***************************************************************************)
(* Proofs about MappingRunner, for any places and limits: the types, one   *)
(* driver at a time, no pipeline behind a PAUSED session, and no program   *)
(* started once an explorer has noticed that the map jumped.               *)
(***************************************************************************)
EXTENDS MappingRunner, TLAPS

USE DEF own, sweep, search

LEMMA Names ==
    /\ None \notin Frontiers /\ None \notin Gaps /\ None # "home"
    /\ "home" \notin Frontiers /\ "home" \notin Gaps
BY PipelineAssumption

LEMMA Limits ==
    /\ Rounds \in Nat /\ Rounds > 0 /\ MaxRetries \in Nat /\ MaxRetries > 0
    /\ InstantLimit \in Nat /\ InstantLimit > 0 /\ HomeRetries \in Nat /\ HomeRetries > 0
BY PipelineAssumption

---------------------------------------------------------------------------
LEMMA Values ==
    /\ {"off", "begin", "sweep", "judge", "explore", "regain", "fill", "home", "over"} \subseteq Stages
    /\ {"none", "wallfollow", "explore", "wallfill"} \subseteq Childs
    /\ {"start", "look", "leg", "backing", "freeing", "approach", "judge", "follow", "escape"} \subseteq Doings
BY DEF Stages, Childs, Doings

(* How a search of the explorer that sends no goal ends.                   *)
LEMMA LookEndsWays ==
    ASSUME LookEnds
    PROVE  /\ child = "explore" /\ doing = "look" /\ place = None /\ seen' \in {seen, TRUE}
           /\ UNCHANGED <<script, own, goal, interrupted>>
           /\ \/ seen' /\ Exits(3)
              \/ ~ seen' /\ stage = "explore" /\ Exits(0)
              \/ /\ ~ seen' /\ stage # "explore" /\ place' = "home" /\ Turns("look")
                 /\ UNCHANGED <<sweep, search>>
<1> HIDE DEF own, sweep, search
<1>1. Leaves(FALSE, seen') =>
        \/ seen' /\ Exits(3)
        \/ ~ seen' /\ stage = "explore" /\ Exits(0)
        \/ ~ seen' /\ stage # "explore" /\ place' = "home" /\ Turns("look") /\ UNCHANGED <<sweep, search>>
  BY Zenon DEF Leaves
<1> QED BY <1>1 DEF LookEnds, At, Notices

(* Where script, programs and worker can be.                               *)
ControlInv ==
    /\ script \in {"down", "up"} /\ stage \in Stages
    /\ session \in {"IDLE", "RUNNING", "PAUSED"} /\ worker \in {"idle", "grace", "drain", "stop"}
    /\ child \in Childs /\ doing \in Doings /\ corner \in {"none", "back", "turn"}
    /\ rc \in {0, 1, 3, 4, 130, 137}

LEMMA ControlStep == ControlInv /\ [Next]_vars => ControlInv'
<1> SUFFICES ASSUME ControlInv, [Next]_vars PROVE ControlInv'
  OBVIOUS
<1> USE Values DEF ControlInv, At, Turns, Exits, FreshSearch, Cancels
<1>1. ASSUME Sweep, UNCHANGED <<session, worker>> PROVE ControlInv'
  BY <1>1 DEF Sweep, Sweeping, SweepBegins, EscapeBegins, EscapeOver, EscapeTimesOut,
              StartCorner, CornerStep, CornerGivenUp, Corner, SweepEnds
<1>2. ASSUME Explore, UNCHANGED <<session, worker>> PROVE ControlInv'
  <2> USE DEF Arrived, Leaves, Notices, Sends, Fails
  <2>0. CASE ExploreBegins
    BY <1>2, <2>0 DEF ExploreBegins
  <2>1. CASE LookEnds
    <3>1. CASE seen' /\ Exits(3)
      BY <1>2, <2>1, <3>1, LookEndsWays
    <3>2. CASE ~ seen' /\ stage = "explore" /\ Exits(0)
      BY <1>2, <2>1, <3>2, LookEndsWays
    <3>3. CASE stage # "explore" /\ place' = "home" /\ Turns("look") /\ UNCHANGED <<sweep, search>>
      BY <1>2, <2>1, <3>3, LookEndsWays
    <3> QED BY <2>1, <3>1, <3>2, <3>3, LookEndsWays
  <2>2. CASE LegGivenUp \/ HomeGoes \/ HomeLegEnds \/ PreciseApproach
    <3>1. CASE LegGivenUp
      BY <1>2, <3>1 DEF LegGivenUp, ExploreLeg
    <3>2. CASE HomeGoes \/ HomeLegEnds
      BY <1>2, <3>2 DEF HomeGoes, HomeLegEnds, ExploreLeg
    <3>3. CASE PreciseApproach
      BY <1>2, <3>3 DEF PreciseApproach, ExploreLeg
    <3> QED BY <2>2, <3>1, <3>2, <3>3
  <2>3. CASE BackOff \/ FreeSelf
    BY <1>2, <2>3 DEF BackOff, FreeSelf
  <2>4. ASSUME NEW f \in Frontiers, LookGoes(f) PROVE ControlInv'
    BY <1>2, <2>4 DEF LookGoes
  <2>5. ASSUME NEW ok \in BOOLEAN, NEW quick \in BOOLEAN, LegConcludes(ok, quick) PROVE ControlInv'
    BY <1>2, <2>5 DEF LegConcludes
  <2>6. ASSUME NEW there \in BOOLEAN, HomeJudged(there) PROVE ControlInv'
    BY <1>2, <2>6 DEF HomeJudged
  <2> QED BY <1>2, <2>0, <2>1, <2>2, <2>3, <2>4, <2>5, <2>6 DEF Explore
<1>3. ASSUME Fill, UNCHANGED <<session, worker>> PROVE ControlInv'
  BY <1>3 DEF Fill, FillBegins, FillEnds, FillLegEnds, FillBacked, FillGoes, Sends
<1>4. ASSUME Hybrid, UNCHANGED <<session, worker>> PROVE ControlInv'
  BY <1>4 DEF Hybrid, HybridStarts, HybridBegins, AfterSweep, Judge, AfterExplore, AfterRegain,
              AfterFill, AfterHome, After, Runs, Moves, Kept
<1>5. ASSUME Ends, UNCHANGED <<session, worker>> PROVE ControlInv'
  BY <1>5 DEF Ends, HybridDies, ChildDies, ScriptEnds, GoalEnds
<1>6. CASE Launch \/ Cancel \/ Handler \/ UNCHANGED vars
  BY <1>6 DEF Launch, Cancel, Handler, GraceOver, GraceExpires, Drained, Stopped, vars, pvars
<1> QED BY <1>1, <1>2, <1>3, <1>4, <1>5, <1>6 DEF Next, PipelineNext

LEMMA ControlAlways == Spec => []ControlInv
<1>1. Init => ControlInv
  BY Values DEF Init, PipelineInit, ControlInv
<1> QED BY <1>1, ControlStep, PTL DEF Spec

(* The flags.                                                              *)
FlagInv ==
    /\ retried \in BOOLEAN /\ homeKnown \in BOOLEAN /\ freed \in BOOLEAN
    /\ goal \in BOOLEAN /\ seen \in BOOLEAN /\ interrupted \in BOOLEAN

LEMMA FlagStep == FlagInv /\ [Next]_vars => FlagInv'
<1> SUFFICES ASSUME FlagInv, [Next]_vars PROVE FlagInv'
  OBVIOUS
<1> USE Values DEF FlagInv, At, Turns, Exits, FreshSearch, Cancels
<1>1. ASSUME Sweep, UNCHANGED <<session, worker>> PROVE FlagInv'
  BY <1>1 DEF Sweep, Sweeping, SweepBegins, EscapeBegins, EscapeOver, EscapeTimesOut,
              StartCorner, CornerStep, CornerGivenUp, Corner, SweepEnds
<1>2. ASSUME Explore, UNCHANGED <<session, worker>> PROVE FlagInv'
  <2> USE DEF Arrived, Leaves, Notices, Sends, Fails
  <2>0. CASE ExploreBegins
    BY <1>2, <2>0 DEF ExploreBegins
  <2>1. CASE LookEnds
    <3>1. CASE seen' /\ Exits(3)
      BY <1>2, <2>1, <3>1, LookEndsWays
    <3>2. CASE ~ seen' /\ stage = "explore" /\ Exits(0)
      BY <1>2, <2>1, <3>2, LookEndsWays
    <3>3. CASE stage # "explore" /\ place' = "home" /\ Turns("look") /\ UNCHANGED <<sweep, search>>
      BY <1>2, <2>1, <3>3, LookEndsWays
    <3> QED BY <2>1, <3>1, <3>2, <3>3, LookEndsWays
  <2>2. CASE LegGivenUp \/ HomeGoes \/ HomeLegEnds \/ PreciseApproach
    <3>1. CASE LegGivenUp
      BY <1>2, <3>1 DEF LegGivenUp, ExploreLeg
    <3>2. CASE HomeGoes \/ HomeLegEnds
      BY <1>2, <3>2 DEF HomeGoes, HomeLegEnds, ExploreLeg
    <3>3. CASE PreciseApproach
      BY <1>2, <3>3 DEF PreciseApproach, ExploreLeg
    <3> QED BY <2>2, <3>1, <3>2, <3>3
  <2>3. CASE BackOff \/ FreeSelf
    BY <1>2, <2>3 DEF BackOff, FreeSelf
  <2>4. ASSUME NEW f \in Frontiers, LookGoes(f) PROVE FlagInv'
    BY <1>2, <2>4 DEF LookGoes
  <2>5. ASSUME NEW ok \in BOOLEAN, NEW quick \in BOOLEAN, LegConcludes(ok, quick) PROVE FlagInv'
    BY <1>2, <2>5 DEF LegConcludes
  <2>6. ASSUME NEW there \in BOOLEAN, HomeJudged(there) PROVE FlagInv'
    BY <1>2, <2>6 DEF HomeJudged
  <2> QED BY <1>2, <2>0, <2>1, <2>2, <2>3, <2>4, <2>5, <2>6 DEF Explore
<1>3. ASSUME Fill, UNCHANGED <<session, worker>> PROVE FlagInv'
  BY <1>3 DEF Fill, FillBegins, FillEnds, FillLegEnds, FillBacked, FillGoes, Sends
<1>4. ASSUME Hybrid, UNCHANGED <<session, worker>> PROVE FlagInv'
  BY <1>4 DEF Hybrid, HybridStarts, HybridBegins, AfterSweep, Judge, AfterExplore, AfterRegain,
              AfterFill, AfterHome, After, Runs, Moves, Kept
<1>5. ASSUME Ends, UNCHANGED <<session, worker>> PROVE FlagInv'
  BY <1>5 DEF Ends, HybridDies, ChildDies, ScriptEnds, GoalEnds
<1>6. CASE Launch \/ Cancel \/ Handler \/ UNCHANGED vars
  BY <1>6 DEF Launch, Cancel, Handler, GraceOver, GraceExpires, Drained, Stopped, vars, pvars
<1> QED BY <1>1, <1>2, <1>3, <1>4, <1>5, <1>6 DEF Next, PipelineNext

LEMMA FlagAlways == Spec => []FlagInv
<1>1. Init => FlagInv
  BY Values DEF Init, PipelineInit, FlagInv
<1> QED BY <1>1, FlagStep, PTL DEF Spec

---------------------------------------------------------------------------
(* Where a program is tells what its leg is for.                           *)
PlaceInv ==
    /\ place \in Frontiers \cup Gaps \cup {"home", None}
    /\ child = "none" => doing = "start" /\ place = None
    /\ child # "explore" => place # "home"
    /\ child = "explore" =>
        /\ doing = "start" => place = None
        /\ doing = "look" => place \in {None, "home"}
        /\ doing = "leg" => place \in Frontiers \cup {"home"}
        /\ doing = "backing" => place \in Frontiers \cup {None}
        /\ doing = "freeing" => place \in Frontiers
        /\ doing \in {"approach", "judge"} => place = "home"

LEMMA PlaceStep == PlaceInv /\ [Next]_vars => PlaceInv'
<1> SUFFICES ASSUME PlaceInv, [Next]_vars PROVE PlaceInv'
  OBVIOUS
<1> USE Names DEF PlaceInv, At, Turns, Exits
<1>1. CASE Sweep
  BY <1>1 DEF Sweep, Sweeping, SweepBegins, EscapeBegins, EscapeOver, EscapeTimesOut,
              StartCorner, CornerStep, CornerGivenUp, Corner, SweepEnds
<1>2. CASE Explore
  <2> USE DEF Arrived, Leaves, Sends
  <2>1. CASE ExploreBegins \/ LookEnds
    BY <2>1 DEF ExploreBegins, LookEnds
  <2>2. CASE LegGivenUp \/ HomeGoes \/ HomeLegEnds \/ PreciseApproach
    BY <2>2 DEF LegGivenUp, HomeGoes, HomeLegEnds, PreciseApproach, ExploreLeg
  <2>3. CASE BackOff \/ FreeSelf
    BY <2>3 DEF BackOff, FreeSelf
  <2>4. ASSUME NEW f \in Frontiers, LookGoes(f) PROVE PlaceInv'
    BY <2>4 DEF LookGoes
  <2>5. ASSUME NEW ok \in BOOLEAN, NEW quick \in BOOLEAN, LegConcludes(ok, quick) PROVE PlaceInv'
    BY <2>5 DEF LegConcludes, ExploreLeg
  <2>6. ASSUME NEW there \in BOOLEAN, HomeJudged(there) PROVE PlaceInv'
    BY <2>6 DEF HomeJudged
  <2> QED BY <1>2, <2>1, <2>2, <2>3, <2>4, <2>5, <2>6 DEF Explore
<1>3. CASE Fill
  BY <1>3 DEF Fill, FillBegins, FillEnds, FillLegEnds, FillBacked, FillGoes, Sends
<1>4. CASE Hybrid
  BY <1>4 DEF Hybrid, HybridStarts, HybridBegins, AfterSweep, Judge, AfterExplore, AfterRegain,
              AfterFill, AfterHome, After, Runs, Moves, Kept
<1>5. CASE Ends
  BY <1>5 DEF Ends, HybridDies, ChildDies, ScriptEnds, GoalEnds
<1>6. CASE Launch \/ Cancel \/ Handler \/ UNCHANGED vars
  BY <1>6 DEF Launch, Cancel, Handler, GraceOver, GraceExpires, Drained, Stopped, vars, pvars
<1> QED BY <1>1, <1>2, <1>3, <1>4, <1>5, <1>6 DEF Next, PipelineNext

LEMMA PlaceAlways == Spec => []PlaceInv
<1>1. Init => PlaceInv
  BY Names DEF Init, PipelineInit, PlaceInv
<1> QED BY <1>1, PlaceStep, PTL DEF Spec

---------------------------------------------------------------------------
(* An attempt is left for every place that may still be tried.             *)
SearchInv ==
    /\ visited \subseteq Frontiers /\ blacklist \subseteq Frontiers /\ tried \subseteq Gaps
    /\ fails \in [Frontiers -> 0 .. MaxRetries] /\ instant \in 0 .. InstantLimit - 1
    /\ \A f \in Frontiers \ blacklist : fails[f] < MaxRetries
    /\ child = "explore" => place \notin blacklist

LEMMA FreshSearchInv == FreshSearch /\ child' = "none" => SearchInv'
BY Limits DEF FreshSearch, NoFails, SearchInv

LEMMA ArrivedSearch ==
    ASSUME SearchInv, place \in Frontiers, child = "explore",
           NEW ok \in BOOLEAN, NEW quick \in BOOLEAN, Arrived(ok, quick)
    PROVE  SearchInv'
<1>1. CASE ok
  BY <1>1, Names, Limits DEF Arrived, Turns, SearchInv
<1>2. CASE ~ ok
  <2> DEFINE n == IF quick THEN instant + 1 ELSE 0
  <2>1. CASE n >= InstantLimit
    <3>1. Exits(4)
      BY <1>2, <2>1 DEF Arrived, Leaves
    <3> QED BY <3>1, FreshSearchInv DEF Exits
  <2>2. CASE ~ (n >= InstantLimit)
    <3>1. instant' = n /\ Fails(place, quick) /\ place' = None /\ UNCHANGED <<visited, tried>>
      BY <1>2, <2>2 DEF Arrived
    <3>2. instant' \in 0 .. InstantLimit - 1
      BY <2>2, <3>1, Limits DEF SearchInv
    <3>3. fails[place] \in 0 .. MaxRetries /\ fails[place] < MaxRetries
      BY DEF SearchInv
    <3>4. /\ fails' \in [Frontiers -> 0 .. MaxRetries]
          /\ fails'[place] = fails[place] + 1
          /\ \A f \in Frontiers \ {place} : fails'[f] = fails[f]
      BY <3>1, <3>3, Limits DEF Fails, SearchInv
    <3>5. /\ blacklist' \subseteq Frontiers
          /\ \A f \in Frontiers \ blacklist' : fails'[f] < MaxRetries
      BY <3>1, <3>3, <3>4, Limits DEF Fails, SearchInv
    <3> QED BY <3>1, <3>2, <3>4, <3>5, Names DEF SearchInv
  <2> QED BY <2>1, <2>2
<1> QED BY <1>1, <1>2

LEMMA SearchStep == PlaceInv /\ SearchInv /\ [Next]_vars => SearchInv'
<1> SUFFICES ASSUME PlaceInv, SearchInv, [Next]_vars PROVE SearchInv'
  OBVIOUS
<1> USE FreshSearchInv DEF At, Turns, Exits
<1>1. CASE Sweep
  BY <1>1 DEF Sweep, Sweeping, SweepBegins, EscapeBegins, EscapeOver, EscapeTimesOut,
              StartCorner, CornerStep, CornerGivenUp, Corner, SweepEnds, SearchInv
<1>2. CASE Explore
  <2>1. CASE ExploreBegins \/ LookEnds
    BY <2>1, Names DEF ExploreBegins, LookEnds, Leaves, SearchInv
  <2>2. CASE LegGivenUp \/ HomeGoes \/ HomeLegEnds \/ PreciseApproach
    BY <2>2, Names DEF LegGivenUp, HomeGoes, HomeLegEnds, PreciseApproach, Sends, SearchInv
  <2>3. CASE BackOff
    BY <2>3, ArrivedSearch DEF BackOff, PlaceInv, SearchInv
  <2>4. CASE FreeSelf
    BY <2>4, ArrivedSearch DEF FreeSelf, PlaceInv
  <2>5. ASSUME NEW f \in Frontiers, LookGoes(f) PROVE SearchInv'
    BY <2>5 DEF LookGoes, Open, Sends, SearchInv
  <2>6. ASSUME NEW ok \in BOOLEAN, NEW quick \in BOOLEAN, LegConcludes(ok, quick) PROVE SearchInv'
    BY <2>6, ArrivedSearch DEF LegConcludes, ExploreLeg
  <2>7. ASSUME NEW there \in BOOLEAN, HomeJudged(there) PROVE SearchInv'
    BY <2>7 DEF HomeJudged, SearchInv
  <2> QED BY <1>2, <2>1, <2>2, <2>3, <2>4, <2>5, <2>6, <2>7 DEF Explore
<1>3. CASE Fill
  BY <1>3 DEF Fill, FillBegins, FillEnds, FillLegEnds, FillBacked, FillGoes, Sends, SearchInv
<1>4. CASE Hybrid
  BY <1>4, Names DEF Hybrid, HybridStarts, HybridBegins, AfterSweep, Judge, AfterExplore, AfterRegain,
              AfterFill, AfterHome, After, Runs, Moves, Kept, PlaceInv, SearchInv
<1>5. CASE Ends
  BY <1>5 DEF Ends, HybridDies, ChildDies, ScriptEnds, GoalEnds, SearchInv
<1>6. CASE Launch \/ Cancel \/ Handler \/ UNCHANGED vars
  BY <1>6 DEF Launch, Cancel, Handler, GraceOver, GraceExpires, Drained, Stopped, vars, pvars, SearchInv
<1> QED BY <1>1, <1>2, <1>3, <1>4, <1>5, <1>6 DEF Next, PipelineNext

---------------------------------------------------------------------------
(* An attempt is left whenever the way home or a round is begun.           *)
BudgetInv ==
    /\ tries \in 0 .. HomeRetries /\ round \in 1 .. Rounds + 1
    /\ place # "home" => tries = 0
    /\ place = "home" /\ doing = "look" => tries < HomeRetries
    /\ stage \in {"explore", "regain"} => round <= Rounds

LEMMA BudgetStep == PlaceInv /\ BudgetInv /\ [Next]_vars => BudgetInv'
<1> SUFFICES ASSUME PlaceInv, BudgetInv, [Next]_vars PROVE BudgetInv'
  OBVIOUS
<1> USE Names, Limits DEF BudgetInv, At, Turns, Exits, FreshSearch
<1>1. CASE Sweep
  BY <1>1 DEF Sweep, Sweeping, SweepBegins, EscapeBegins, EscapeOver, EscapeTimesOut,
              StartCorner, CornerStep, CornerGivenUp, Corner, SweepEnds
<1>2. CASE Explore
  <2> USE DEF Arrived, Leaves, Sends, PlaceInv
  <2>1. CASE ExploreBegins \/ LookEnds
    BY <2>1 DEF ExploreBegins, LookEnds
  <2>2. CASE LegGivenUp \/ HomeGoes \/ HomeLegEnds \/ PreciseApproach
    BY <2>2 DEF LegGivenUp, HomeGoes, HomeLegEnds, PreciseApproach, ExploreLeg
  <2>3. CASE BackOff \/ FreeSelf
    BY <2>3 DEF BackOff, FreeSelf
  <2>4. ASSUME NEW f \in Frontiers, LookGoes(f) PROVE BudgetInv'
    BY <2>4 DEF LookGoes
  <2>5. ASSUME NEW ok \in BOOLEAN, NEW quick \in BOOLEAN, LegConcludes(ok, quick) PROVE BudgetInv'
    BY <2>5 DEF LegConcludes, ExploreLeg
  <2>6. ASSUME NEW there \in BOOLEAN, HomeJudged(there) PROVE BudgetInv'
    BY <2>6 DEF HomeJudged
  <2> QED BY <1>2, <2>1, <2>2, <2>3, <2>4, <2>5, <2>6 DEF Explore
<1>3. CASE Fill
  BY <1>3 DEF PlaceInv, Fill, FillBegins, FillEnds, FillLegEnds, FillBacked, FillGoes, Sends
<1>4. CASE Hybrid
  BY <1>4 DEF Hybrid, HybridStarts, HybridBegins, AfterSweep, Judge, AfterExplore, AfterRegain,
              AfterFill, AfterHome, After, Runs, Moves, Kept
<1>5. CASE Ends
  BY <1>5 DEF Ends, HybridDies, ChildDies, ScriptEnds, GoalEnds
<1>6. CASE Launch \/ Cancel \/ Handler \/ UNCHANGED vars
  BY <1>6 DEF Launch, Cancel, Handler, GraceOver, GraceExpires, Drained, Stopped, vars, pvars
<1> QED BY <1>1, <1>2, <1>3, <1>4, <1>5, <1>6 DEF Next, PipelineNext

(* The variables keep their types, for any number of places: no counter    *)
(* passes its limit, although the guards compare with = in one place, with *)
(* >= in another, and every program starts them anew.                      *)
THEOREM TypeCorrect == Spec => []TypeOK
<1>1. Init => SearchInv /\ BudgetInv
  BY Names, Limits DEF Init, PipelineInit, SearchInv, BudgetInv, NoFails
<1>2. ControlInv /\ FlagInv /\ PlaceInv /\ SearchInv /\ BudgetInv => TypeOK
  BY DEF ControlInv, FlagInv, PlaceInv, SearchInv, BudgetInv, TypeOK
<1> QED BY <1>1, <1>2, SearchStep, BudgetStep, ControlAlways, FlagAlways, PlaceAlways, PTL DEF Spec

---------------------------------------------------------------------------
(* A goal is Nav2's only while a program waits for it in its leg.          *)
LEMMA DriverStep == PlaceInv /\ OneDriver /\ [Next]_vars => OneDriver'
<1> SUFFICES ASSUME PlaceInv, OneDriver, [Next]_vars PROVE OneDriver'
  OBVIOUS
<1> USE DEF OneDriver, At, Turns, Exits, Cancels
<1>1. CASE Sweep
  BY <1>1 DEF Sweep, Sweeping, SweepBegins, EscapeBegins, EscapeOver, EscapeTimesOut,
              StartCorner, CornerStep, CornerGivenUp, Corner, SweepEnds
<1>2. CASE Explore
  BY <1>2 DEF Explore, ExploreBegins, LookEnds, LegGivenUp, BackOff, FreeSelf, HomeGoes, HomeLegEnds,
              PreciseApproach, LookGoes, LegConcludes, HomeJudged, Sends
<1>3. CASE Fill
  BY <1>3 DEF Fill, FillBegins, FillEnds, FillLegEnds, FillBacked, FillGoes, Sends
<1>4. CASE Hybrid
  BY <1>4 DEF Hybrid, HybridStarts, HybridBegins, AfterSweep, Judge, AfterExplore, AfterRegain,
              AfterFill, AfterHome, After, Runs, Moves, Kept
<1>5. CASE Ends
  <2>1. CASE HybridDies \/ ScriptEnds \/ GoalEnds
    BY <2>1 DEF HybridDies, ScriptEnds, GoalEnds
  <2>2. CASE ChildDies
    <3>1. interrupted /\ interrupted' = interrupted
      BY <2>2 DEF ChildDies
    <3> QED BY <3>1
  <2> QED BY <1>5, <2>1, <2>2 DEF Ends
<1>6. CASE Launch \/ Cancel \/ Handler \/ UNCHANGED vars
  BY <1>6 DEF Launch, Cancel, Handler, GraceOver, GraceExpires, Drained, Stopped, vars, pvars
<1> QED BY <1>1, <1>2, <1>3, <1>4, <1>5, <1>6 DEF Next, PipelineNext

(* Nav2 never executes a goal while a program drives by itself, unless the *)
(* program was interrupted.                                                *)
THEOREM OneDriverAlways == Spec => []OneDriver
<1>1. Init => OneDriver
  BY DEF Init, PipelineInit, OneDriver
<1> QED BY <1>1, DriverStep, PlaceAlways, PTL DEF Spec

---------------------------------------------------------------------------
(* With the script down, no stage of pinky_hybrid is left, so that none of *)
(* its steps can begin another one.                                        *)
OverInv ==
    /\ script = "down" => stage \in {"off", "over"}
    /\ session = "PAUSED" => script = "down"

LEMMA OverStep == OverInv /\ [Next]_vars => OverInv'
<1> SUFFICES ASSUME OverInv, [Next]_vars PROVE OverInv'
  OBVIOUS
<1> USE DEF OverInv
<1>1. ASSUME Sweep \/ Explore \/ Fill \/ ChildDies \/ GoalEnds, UNCHANGED <<session, worker>>
      PROVE  UNCHANGED <<script, stage, session>>
  BY <1>1 DEF Sweep, Sweeping, SweepBegins, EscapeBegins, EscapeOver, EscapeTimesOut,
              StartCorner, CornerStep, CornerGivenUp, Corner, SweepEnds,
              Explore, ExploreBegins, LookEnds, LegGivenUp, BackOff, FreeSelf, HomeGoes, HomeLegEnds,
              PreciseApproach, LookGoes, LegConcludes, HomeJudged,
              Fill, FillBegins, FillEnds, FillLegEnds, FillBacked, FillGoes, ChildDies, GoalEnds
<1>2. ASSUME Hybrid, UNCHANGED <<session, worker>> PROVE OverInv'
  BY <1>2 DEF Hybrid, HybridStarts, HybridBegins, AfterSweep, Judge, AfterExplore, AfterRegain,
              AfterFill, AfterHome, After, Runs, Moves, Kept
<1>3. ASSUME HybridDies \/ ScriptEnds, UNCHANGED <<session, worker>> PROVE OverInv'
  BY <1>3 DEF HybridDies, ScriptEnds
<1>4. CASE Launch \/ Cancel \/ Handler \/ UNCHANGED vars
  BY <1>4 DEF Launch, Cancel, Handler, GraceOver, GraceExpires, Drained, Stopped, vars, pvars
<1> QED BY <1>1, <1>2, <1>3, <1>4 DEF Next, PipelineNext, Ends

(* A session that reads PAUSED has left neither script nor pinky_hybrid.   *)
THEOREM CanceledIsOverAlways == Spec => []CanceledIsOver
<1>1. Init => OverInv
  BY DEF Init, PipelineInit, OverInv
<1>2. OverInv => CanceledIsOver
  BY DEF OverInv, CanceledIsOver
<1> QED BY <1>1, <1>2, OverStep, PTL DEF Spec

---------------------------------------------------------------------------
(* What an explorer has noticed stays known until the run is over: in its  *)
(* own process, then in the exit code that pinky_hybrid reads.             *)
NoticedInv ==
    /\ seen => stage \in {"explore", "home", "over"}
    /\ child = "explore" => stage \in {"explore", "home", "over"}
    /\ child = "explore" /\ doing = "start" => ~ seen
    /\ child = "explore" /\ place = "home" => stage # "explore" \* the way home is another program
    /\ stage = "explore" => child \in {"none", "explore"}
    /\ stage = "explore" /\ child = "none" /\ seen => rc \in {3, 4} \/ interrupted
    /\ stage \in {"off", "begin", "judge"} => child = "none"

LEMMA NoticedStep == PlaceInv /\ NoticedInv /\ [Next]_vars => NoticedInv'
<1> SUFFICES ASSUME PlaceInv, NoticedInv, [Next]_vars PROVE NoticedInv'
  OBVIOUS
<1> USE Names DEF NoticedInv, PlaceInv, At, Turns, Exits
<1>1. CASE Sweep
  BY <1>1 DEF Sweep, Sweeping, SweepBegins, EscapeBegins, EscapeOver, EscapeTimesOut,
              StartCorner, CornerStep, CornerGivenUp, Corner, SweepEnds
<1>2. CASE Explore
  <2> USE DEF Arrived, Leaves, Notices, Sends
  <2>0. CASE ExploreBegins
    BY <2>0 DEF ExploreBegins
  <2>1. CASE LookEnds
    <3>1. stage \in {"explore", "home", "over"} /\ stage' = stage /\ UNCHANGED interrupted
      BY <2>1, LookEndsWays
    <3>2. CASE seen' /\ Exits(3)
      BY <3>1, <3>2
    <3>3. CASE ~ seen' /\ stage = "explore" /\ Exits(0)
      BY <3>1, <3>3
    <3>4. CASE ~ seen' /\ stage # "explore" /\ place' = "home" /\ Turns("look")
      BY <2>1, <3>1, <3>4, LookEndsWays
    <3> QED BY <2>1, <3>2, <3>3, <3>4, LookEndsWays
  <2>2. CASE LegGivenUp \/ HomeGoes \/ HomeLegEnds \/ PreciseApproach
    BY <2>2 DEF LegGivenUp, HomeGoes, HomeLegEnds, PreciseApproach, ExploreLeg
  <2>3. CASE BackOff \/ FreeSelf
    BY <2>3 DEF BackOff, FreeSelf
  <2>4. ASSUME NEW f \in Frontiers, LookGoes(f) PROVE NoticedInv'
    BY <2>4 DEF LookGoes
  <2>5. ASSUME NEW ok \in BOOLEAN, NEW quick \in BOOLEAN, LegConcludes(ok, quick) PROVE NoticedInv'
    BY <2>5 DEF LegConcludes, ExploreLeg
  <2>6. ASSUME NEW there \in BOOLEAN, HomeJudged(there) PROVE NoticedInv'
    BY <2>6 DEF HomeJudged
  <2> QED BY <1>2, <2>0, <2>1, <2>2, <2>3, <2>4, <2>5, <2>6 DEF Explore
<1>3. CASE Fill
  BY <1>3 DEF Fill, FillBegins, FillEnds, FillLegEnds, FillBacked, FillGoes, Sends
<1>4. CASE Hybrid
  BY <1>4 DEF Hybrid, HybridStarts, HybridBegins, AfterSweep, Judge, AfterExplore, AfterRegain,
              AfterFill, AfterHome, After, Runs, Moves, Kept
<1>5. CASE Ends
  BY <1>5 DEF Ends, HybridDies, ChildDies, ScriptEnds, GoalEnds
<1>6. CASE Launch \/ Cancel \/ Handler \/ UNCHANGED vars
  BY <1>6 DEF Launch, Cancel, Handler, GraceOver, GraceExpires, Drained, Stopped, vars, pvars
<1> QED BY <1>1, <1>2, <1>3, <1>4, <1>5, <1>6 DEF Next, PipelineNext

(* Only pinky_hybrid starts programs, and none where one has been noticed. *)
LEMMA StartsUnnoticed == NoticedInv /\ [Next]_vars => (ProgramStarts => ~ seen)
<1> SUFFICES ASSUME NoticedInv, [Next]_vars, ProgramStarts PROVE ~ seen
  OBVIOUS
<1> USE DEF ProgramStarts
<1>1. ASSUME Sweep \/ Explore \/ Fill PROVE child # "none"
  BY <1>1 DEF Sweep, Sweeping, SweepBegins, EscapeBegins, EscapeOver, EscapeTimesOut,
              StartCorner, CornerStep, CornerGivenUp, SweepEnds, At,
              Explore, ExploreBegins, LookEnds, LegGivenUp, BackOff, FreeSelf, HomeGoes, HomeLegEnds,
              PreciseApproach, LookGoes, LegConcludes, HomeJudged, ExploreLeg,
              Fill, FillBegins, FillEnds, FillLegEnds, FillBacked, FillGoes
<1>2. CASE Hybrid
  BY <1>2 DEF NoticedInv, Hybrid, HybridStarts, HybridBegins, AfterSweep, Judge, AfterExplore,
              AfterRegain, AfterFill, AfterHome, After, Runs, Moves, Kept
<1>3. CASE Ends
  BY <1>3 DEF Ends, HybridDies, ChildDies, ScriptEnds, GoalEnds, Exits
<1>4. CASE Launch \/ Cancel \/ Handler \/ UNCHANGED vars
  BY <1>4 DEF Launch, Cancel, Handler, GraceOver, GraceExpires, Drained, Stopped, Exits, vars, pvars
<1> QED BY <1>1, <1>2, <1>3, <1>4 DEF Next, PipelineNext

(* No further program of a run starts once one of its explorers has        *)
(* noticed that the map jumped, for any places and limits.                 *)
THEOREM NoticedAlwaysEndsRun == Spec => NoticedEndsRun
<1>1. Init => NoticedInv
  BY DEF Init, PipelineInit, NoticedInv
<1>2. NoticedInv /\ [Next]_vars => [ProgramStarts => ~ seen]_vars
  BY StartsUnnoticed
<1> QED BY <1>1, <1>2, NoticedStep, PlaceAlways, PTL DEF Spec, NoticedEndsRun
=============================================================================
