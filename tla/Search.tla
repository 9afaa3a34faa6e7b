------------------------------- MODULE Search -------------------------------
(***************************************************************************)
(* The search for the switch points of a section: the grey wolves of       *)
(* GWO_Offline (SpeedPlan.c:593-754), and what becomes of its result in    *)
(* DivideStageByOptimizeSpeed (SpeedPlan.c:1316-1356).                     *)
(*                                                                         *)
(* A wolf is a candidate, the leaders are the best three seen.  In the     *)
(* code a leader is a pointer to a wolf, not a copy of its position, and   *)
(* it points to memory nobody wrote before it is first set.  The           *)
(* coordinates of a position are moved and bounded each on its own: one is *)
(* modelled.  The random numbers of the first half of the iterations are   *)
(* a choice of any place.  What a position costs is any function: Profile  *)
(* has the one of the code.                                                *)
(***************************************************************************)
EXTENDS Integers

CONSTANTS
  Last,        \* the wolves are 0..Last, evaluated and moved in this order
  Top,         \* the bounds of a coordinate are 0 and Top
  Worst,       \* the largest score, from which the leaders start: 65535
  Limit,       \* deviation in seconds up to which a result is used: 15
  Iterations,  \* rounds of the pack: 30
  Half,        \* rounds with a convergence factor above 0: 15
  NaN,         \* no number: what unwritten memory may hold
  None

ASSUME SearchAssumption ==
  /\ Last \in Nat
  /\ Top \in Nat
  /\ Limit \in Nat
  /\ Worst \in Nat
  /\ Limit < Worst
  /\ Iterations \in Nat \ {0}
  /\ Half \in Nat
  /\ NaN \notin Int
  /\ None \notin Int
  /\ None # NaN

Wolves == 0..Last
Places == 0..Top
Position == Places \cup {NaN}
Scores == 0..Worst
Ranks == {"alpha", "beta", "delta"}

VARIABLES
  cost,       \* the score of each position; fixed for a search
  positions,  \* Positions
  leader,     \* position_Alpha, _Beta and _Delta: the wolf pointed to
  score,      \* score_Alpha, _Beta and _Delta
  phase,      \* "evaluate", "move", "choose" or "done"
  round,      \* i
  wolf,       \* m
  tables,     \* the position whose speeds, levels and times stand in
              \* OptimalSpd, level_output_flag and plan_time
  evaluate,   \* g_speed_plan_info.optimize_evaluate
  optimize_mode, \* of g_speed_plan_info; 0: none yet
  unled       \* history: the pack has moved with a leader unset

searchVars ==
  <<cost, positions, leader, score, phase, round, wolf, tables, evaluate, optimize_mode, unled>>

SearchTypeOK ==
  /\ cost \in [Position -> Scores]
  /\ positions \in [Wolves -> Position]
  /\ leader \in [Ranks -> Wolves \cup {None}]
  /\ score \in [Ranks -> Scores]
  /\ phase \in {"evaluate", "move", "choose", "done"}
  /\ round \in 0..Iterations
  /\ wolf \in Wolves
  /\ tables \in Position \cup {None}
  /\ evaluate \in Scores
  /\ optimize_mode \in 0..2
  /\ unled \in BOOLEAN

(* Mutant: the last wolf is left as malloc gave it. *)
InitializedShort == {p \in [Wolves -> Position] : \A m \in Wolves : m # Last => p[m] # NaN}

(* Initialize, lines 743-754. *)
Initialized == [Wolves -> Places]

(* Lines 596-628. *)
SearchInit ==
  /\ cost \in [Position -> Scores]
  /\ positions \in Initialized
  /\ leader = [r \in Ranks |-> None]
  /\ score = [r \in Ranks |-> Worst]
  /\ phase = "evaluate"
  /\ round = 0
  /\ wolf = 0
  /\ tables = None
  /\ evaluate = 0
  /\ optimize_mode = 0
  /\ unled = FALSE

-----------------------------------------------------------------------------
(* Lines 637-651: the ranks a score wins: at most one, for each test sees  *)
(* what the one before it stored.                                          *)
Wins(r, f) ==
  CASE r = "alpha" -> f <= score.alpha
    [] r = "beta" -> f > score.alpha /\ f < score.beta
    [] r = "delta" -> f > score.alpha /\ f > score.beta /\ f < score.delta

(* The loop over the wolves, and what follows it. *)
NextWolf(next) ==
  IF wolf < Last THEN wolf' = wolf + 1 /\ UNCHANGED phase
                 ELSE wolf' = 0 /\ phase' = next

(* Lines 632-652, one wolf: every evaluation writes the tables anew. *)
Evaluate ==
  /\ phase = "evaluate"
  /\ round < Iterations
  /\ LET f == cost[positions[wolf]]
     IN /\ score' = [r \in Ranks |-> IF Wins(r, f) THEN f ELSE score[r]]
        /\ leader' = [r \in Ranks |-> IF Wins(r, f) THEN wolf ELSE leader[r]]
  /\ tables' = positions[wolf]
  /\ NextWolf("move")
  /\ UNCHANGED <<cost, positions, round, evaluate, optimize_mode, unled>>

(* Lines 683-690. *)
Clamp(x) == IF x > Top THEN Top ELSE IF x < 0 THEN 0 ELSE x

(* Mutant: the sum of three is halved. *)
MeansOfTwo(x, y, z) == {p \in 0..(3 * Top) : 2 * p - (x + y + z) \in -1..1}

(* The mean of three numbers, on the grid of places. *)
Means(x, y, z) == {p \in -1..(Top + 1) : 3 * p - (x + y + z) \in -2..2}

Set(r) == leader[r] # None
At(r) == positions[leader[r]]
AllSet == \A r \in Ranks : Set(r)
Lost == \E r \in Ranks : Set(r) /\ At(r) = NaN

(* Where a wolf may be next: a leader that is no number makes it none, one *)
(* that was never set is whatever its memory holds.                        *)
Moves ==
  IF Lost THEN {NaN}
  ELSE IF ~AllSet THEN Places \cup {NaN}
  ELSE IF round < Half THEN {Clamp(x) : x \in -1..(Top + 1)}
  ELSE {Clamp(x) : x \in Means(At("alpha"), At("beta"), At("delta"))}

(* Lines 653-697, one wolf: the wolf a leader points to moves as well. *)
Move ==
  /\ phase = "move"
  /\ \E p \in Moves : positions' = [positions EXCEPT ![wolf] = p]
  /\ unled' = (unled \/ ~AllSet)
  /\ NextWolf("evaluate")
  /\ round' = IF wolf < Last THEN round ELSE round + 1
  /\ UNCHANGED <<cost, leader, score, tables, evaluate, optimize_mode>>

(* Mutant: the result is taken from the scores, not evaluated again. *)
FinishOnScore ==
  /\ phase = "evaluate"
  /\ round = Iterations
  /\ evaluate' = score.alpha
  /\ phase' = "choose"
  /\ UNCHANGED <<cost, positions, leader, score, round, wolf, tables, optimize_mode, unled>>

(* Lines 701-720: where the first leader is now is evaluated once more. *)
Finish ==
  /\ phase = "evaluate"
  /\ round = Iterations
  /\ tables' = At("alpha")
  /\ evaluate' = cost[At("alpha")]
  /\ phase' = "choose"
  /\ UNCHANGED <<cost, positions, leader, score, round, wolf, optimize_mode, unled>>

(* DivideStageByOptimizeSpeed, 1316-1319 and 1345-1347: the stored curve   *)
(* of the section is used instead of a result that misses the time.        *)
Choose ==
  /\ phase = "choose"
  /\ optimize_mode' = IF evaluate > Limit THEN 2 ELSE 1
  /\ phase' = "done"
  /\ UNCHANGED <<cost, positions, leader, score, round, wolf, tables, evaluate, unled>>

SearchNext == Evaluate \/ Move \/ Finish \/ Choose

SearchSpec == SearchInit /\ [][SearchNext]_searchVars

-----------------------------------------------------------------------------
(* Properties *)

(* The leaders stay ranked whatever order the wolves are evaluated in: the *)
(* first is strictly better than the second and this than the third, once  *)
(* they are set; one that is unset has nobody behind it that is better     *)
(* (SpeedPlan.c:637-651, the tests of a rank see the ones above it).       *)
LeadersRanked ==
  /\ score.alpha <= score.beta
  /\ score.beta <= score.delta
  /\ Set("beta") => score.alpha < score.beta
  /\ Set("delta") => score.beta < score.delta
  /\ Set("delta") => Set("beta")

(* A candidate is no number only if the pack once moved while a leader had *)
(* not been set: 681 then computes with memory nobody wrote.  With three   *)
(* leaders every candidate stays a place between the bounds.               *)
LostOnlyUnled == (\E m \in Wolves : positions[m] = NaN) => unled

(* Advice that is not the stored curve meets the time to within Limit: the *)
(* curve and the levels the driver is given, not those of the score, which *)
(* the leader had before it moved on (SpeedPlan.c:640, 681, 701, 1316).    *)
OnTimeOrStored == optimize_mode = 1 => tables # None /\ cost[tables] <= Limit

Least(S) == CHOOSE x \in S : \A y \in S : x <= y
Most(S) == CHOOSE x \in S : \A y \in S : x >= y
Pack == {positions[m] : m \in Wolves}

(* In the second half of the rounds, all leaders set, the pack never       *)
(* spreads, although the leaders move while the others follow them         *)
(* (SpeedPlan.c:658-697 in place, with a = 0).                             *)
PackContracts ==
  [][Move /\ round >= Half /\ AllSet /\ NaN \notin Pack
     => /\ NaN \notin Pack'
        /\ Least(Pack) <= Least(Pack')
        /\ Most(Pack') <= Most(Pack)]_searchVars
=============================================================================
