------------------------------- MODULE Envelope -------------------------------
(***************************************************************************)
(* The speed no plan of a section may exceed: GetBaseDataReady             *)
(* (SpeedPlan.c:231-381) cuts the speed limits of the line into the pieces *)
(* of the section, Modeling (SpeedPlan.c:441-579) lays them on the steps   *)
(* of the plan and bends them down before every fall.                      *)
(*                                                                         *)
(* A section is [begin, end, down]: kilometre posts in metres.  Distances  *)
(* in a plan count from begin in the direction of travel.                  *)
(***************************************************************************)
EXTENDS LineData

CONSTANTS
  Margin,      \* SAFETY_THRESHOLD_EBI
  Short, Wide, \* step sizes: 20 m and 40 m
  Long         \* sections longer than this have the wide step: 8000 m

ASSUME EnvelopeAssumption ==
  /\ Margin \in Nat
  /\ Short \in Nat /\ Short % Sample = 0 /\ Short >= 2 * Sample
  /\ Wide \in Nat /\ Wide % Sample = 0 /\ Wide >= 2 * Sample

Length(section) ==
  IF section.down THEN section.end - section.begin ELSE section.begin - section.end

Along(section, post) ==
  IF section.down THEN post - section.begin ELSE section.begin - post

(* The members of a finite set of numbers as a loop that counts meets them,*)
(* and as one that counts in the direction of travel does.                 *)
Counted(S) ==
  [n \in 1..Cardinality(S) |-> CHOOSE i \in S : Cardinality({j \in S : j < i}) = n - 1]

Met(section, S) ==
  [n \in 1..Cardinality(S) |->
     Counted(S)[IF section.down THEN n ELSE Cardinality(S) + 1 - n]]

(* The samples of a section in the order they are passed, 262-265, 325-328.*)
Passed(table, section) ==
  Met(section, {i \in DOMAIN table : Along(section, i * Sample) \in 0..Length(section)})

-----------------------------------------------------------------------------
(* GetBaseDataReady *)

(* Lines 270-277 and 333-340: where a piece ends, one sample below the     *)
(* first one with another limit.  Below sample 0 the product is negative   *)
(* and compared as unsigned.                                               *)
PieceEnd(section, i) ==
  IF section.down
  THEN IF section.begin > (i - 1) * Sample THEN 0 ELSE (i - 1) * Sample - section.begin
  ELSE IF i = 0 THEN 0 ELSE section.begin - (i - 1) * Sample

(* Only the pieces of the way down are lowered, and not the last of them. *)
Lowered(section, limit) == IF section.down THEN limit - Margin ELSE limit

LastLimit(table, section) ==
  table[IF section.down THEN section.end \div Sample - 1 ELSE section.end \div Sample]

(* Lines 261, 280, 324 and 343: speed_limit_last.  A section may begin     *)
(* where the line ends, past the last sample: that place of the array is 0.*)
LimitBefore(table, section, k) ==
  LET i == IF k = 1 THEN section.begin \div Sample ELSE Passed(table, section)[k - 1]
  IN  IF i \in DOMAIN table THEN table[i] ELSE 0

(* Lines 261-288 and 324-351. *)
Pieces(table, section) ==
  LET passed == Passed(table, section)
      changes == Counted({k \in DOMAIN passed : table[passed[k]] # LimitBefore(table, section, k)})
  IN  Append([n \in DOMAIN changes |->
                [to |-> PieceEnd(section, passed[changes[n]]),
                 limit |-> Lowered(section, LimitBefore(table, section, changes[n]))]],
             [to |-> Length(section), limit |-> LastLimit(table, section)])

(* Lines 294-305 and 357-368: uphill is downhill on the way back. *)
Slopes(table, section) ==
  LET passed == Passed(table, section)
  IN  [m \in 0..(Len(passed) - 1) |->
         IF section.down THEN table[passed[m + 1]] ELSE -table[passed[m + 1]]]

Radii(table, section) ==
  LET passed == Passed(table, section)
  IN  [m \in 0..(Len(passed) - 1) |-> table[passed[m + 1]]]

(* SpeedPlanOffline, lines 175-186. *)
StepSize(length) == IF length > Long THEN Wide ELSE Short

(* GetOptimalSpeedOffline, line 404. *)
LastStep(length, step) == (length + step - 1) \div step - 1

-----------------------------------------------------------------------------
(* Modeling *)

(* GetAccBySpeed, lines 922-946, to the whole unit. *)
AccBySpeed(curve, v) ==
  LET last == Len(curve)
      i == Min({k \in 2..last : v <= curve[k].v})
  IN  IF v <= curve[1].v THEN curve[1].a
      ELSE IF v >= curve[last].v THEN curve[last].a
      ELSE (curve[i - 1].a * (curve[i].v - v) + curve[i].a * (v - curve[i - 1].v))
             \div (curve[i].v - curve[i - 1].v)

(* sqrt, cut to a whole number. *)
Root(n) == CHOOSE r \in 0..n : r * r <= n /\ n < (r + 1) * (r + 1)

(* GetBreakAcc and line 529: 0.8 of 0.8 of what the brake gives. *)
PlannedBrake(train, v) == (64 * AccBySpeed(train.brake, v)) \div 100

(* Line 530: the speed a step earlier from which v can be braked to. *)
BrakeUp(train, v, step) == Root(v * v + 2 * PlannedBrake(train, v) * step)

(* Lines 459-470: the piece at each step; at most one is left per step. *)
PieceAt(pieces, step, dim) ==
  LET at[i \in 0..dim] ==
        IF i = 0 THEN 1
        ELSE IF i * step < pieces[at[i - 1]].to THEN at[i - 1] ELSE at[i - 1] + 1
  IN  at

(* GetEbiEnd, lines 564-579: back from a step as long as the limits do not *)
(* fall, the first two steps left out.                                     *)
CeilingBefore(low, ceiling, i) ==
  LET run == {k \in 2..i : \A m \in k..i :
                /\ ceiling[m] >= low
                /\ m < i => ceiling[m] >= ceiling[m + 1]}
  IN  IF run = {} THEN low ELSE ceiling[Min(run)]

(* Lines 468-489: the falls of the limit, the stop at the end among them. *)
Falls(pieces, step, dim) ==
  LET at == PieceAt(pieces, step, dim)
      ceiling == [i \in 0..dim |-> pieces[at[i]].limit]
      left == {i \in 0..dim : (i + 1) * step >= pieces[at[i]].to}
      Fall(i, low, index) == [low |-> low, high |-> CeilingBefore(low, ceiling, i), index |-> index]
  IN  {Fall(i, pieces[at[i] + 1].limit, i) :
         i \in {i \in left : at[i] < Len(pieces) /\ pieces[at[i] + 1].limit < pieces[at[i]].limit}}
      \cup {Fall(i, 0, i - 1) : i \in {i \in left : at[i] = Len(pieces)}}

(* Mutant: with the brake in full. *)
BrakingCurveFull(train, fall, step) ==
  LET w[k \in 1..(fall.index + 1)] ==
        IF k > fall.index THEN fall.low
        ELSE Root(w[k + 1] * w[k + 1] + 3 * AccBySpeed(train.brake, w[k + 1]) * step)
  IN  w

(* GetEBI, lines 522-552: the speeds from which a fall can be braked to.   *)
BrakingCurve(train, fall, step) ==
  LET w[k \in 1..(fall.index + 1)] ==
        IF k > fall.index THEN fall.low ELSE BrakeUp(train, w[k + 1], step)
  IN  w

(* Mutant: only the next fall ahead counts. *)
SpeedLimitMaxNext(train, pieces, step, dim) ==
  LET at == PieceAt(pieces, step, dim)
      falls == Falls(pieces, step, dim)
      Ahead(f, i) == i \in 1..f.index /\ \A g \in falls : g.index >= i => f.index <= g.index
      Bounds(i) == {BrakingCurve(train, f, step)[i] : f \in {f \in falls :
                      Ahead(f, i) /\ BrakingCurve(train, f, step)[i] < f.high}}
  IN  [i \in 0..dim |-> IF i = dim THEN 0 ELSE Min(Bounds(i) \cup {pieces[at[i]].limit})]

(* Modeling, lines 441-509: speed_limit_max.  A braking curve counts until *)
(* it reaches the limit it came from, and never at step 0.                 *)
SpeedLimitMax(train, pieces, step, dim) ==
  LET at == PieceAt(pieces, step, dim)
      falls == Falls(pieces, step, dim)
      curve == [f \in falls |-> BrakingCurve(train, f, step)]
      Bounds(i) == {curve[f][i] : f \in {f \in falls :
                      i \in 1..f.index /\ curve[f][i] < f.high}}
  IN  [i \in 0..dim |-> IF i = dim THEN 0 ELSE Min(Bounds(i) \cup {pieces[at[i]].limit})]
=============================================================================
