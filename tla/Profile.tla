------------------------------- MODULE Profile -------------------------------
(***************************************************************************)
(* How the train would run a section with given switch points:             *)
(* GetFitnessOffline2 (SpeedPlan.c:770-900) and the accelerations it uses  *)
(* (908-1143) and the bounds of the switch points (1155-1185).            *)
(*                                                                         *)
(* A speed the code keeps as a real number is kept as four times its       *)
(* square, an energy: e.  Creep stands for the 0.01 and 0.1 cm/s a train   *)
(* at a stand is given.  Energy and time, which only the score of the      *)
(* search depends on, are left out (Search takes any score).               *)
(***************************************************************************)
EXTENDS Envelope

CONSTANT CurveFactor \* what a curve of radius 1 takes

Creep == 1
Energy(v) == 4 * v * v
Speed(e) == Root(e \div 4)

Traction == 1
Coasting == 2
Braking == 3

(* GetTractionAcc, lines 956-981; GetBreakAcc, lines 1041-1066. *)
TractionAcc(train, v) == (8 * AccBySpeed(train.traction, v)) \div 10
BrakeAcc(train, v) == (8 * AccBySpeed(train.brake, v)) \div 10

(* GetResistanceAcc, lines 1075-1085. *)
ResistanceAcc(own, v) == (own.a + own.b * v + own.c * v * v) \div own.weight

(* GetGradientAcc, lines 1096-1118: a step is a whole number of samples,   *)
(* so what is interpolated has the weight 0; the first sample counts for   *)
(* nothing.                                                                *)
GradientAcc(slopes, x) == IF x \div Sample > 0 THEN slopes[x \div Sample] ELSE 0

(* GetCurveRadiusAcc, lines 1128-1143. *)
CurveRadiusAcc(radii, x) ==
  LET m == x \div Sample
  IN  IF m > 0 /\ radii[m] # 0 THEN CurveFactor \div radii[m] ELSE 0

(* GetBounderOffline, lines 1155-1185. *)
Bounds(length) ==
  IF length < Long
  THEN <<[low |-> 0, high |-> length, work |-> Traction]>>
  ELSE LET jump == length \div 4
           back == jump + length \div 2
       IN  <<[low |-> 0, high |-> jump, work |-> Traction],
             [low |-> jump, high |-> back, work |-> Coasting],
             [low |-> back, high |-> length, work |-> Traction]>>

-----------------------------------------------------------------------------
(* What a plan is made from: a record of the train, the step size, the     *)
(* last step, the speeds that bound it, slopes and radii, and the switches: *)
(* where each is and the work before it.                                   *)

(* The energy a step with acceleration a adds. *)
Added(plan, a) == 8 * plan.step * a

Resisting(plan, i, v) ==
  ResistanceAcc(plan.train.at_aw0, v) + GradientAcc(plan.slopes, i * plan.step) + CurveRadiusAcc(plan.radii, i * plan.step)

(* Lines 793-795: the work of a switch lasts until it; then coasting.      *)
Works(plan, r, i) == i * plan.step <= plan.switches[r.k].at
Pulls(plan, r, i) == Works(plan, r, i) /\ plan.switches[r.k].work = Traction

(* Lines 797-798, 819-827 and 839-847. *)
Reached(plan, r, i) ==
  LET v == Speed(r.e)
      rolled == r.e - Added(plan, Resisting(plan, i, v))
  IN  IF Pulls(plan, r, i) THEN rolled + Added(plan, TractionAcc(plan.train, v))
      ELSE IF rolled > 0 THEN rolled ELSE Creep

(* Lines 832-835: the next switch is looked at when it is within a step.   *)
NextSwitch(plan, r, i) ==
  IF /\ Works(plan, r, i)
     /\ (i + 1) * plan.step > plan.switches[r.k].at
     /\ r.k < Len(plan.switches)
  THEN r.k + 1 ELSE r.k

(* Lines 852-878: the level that keeps to the bound, as the energy of the  *)
(* step tells: the slope counts, the resistances do not.                   *)
LevelAtBound(plan, r, i, top) ==
  LET v == Speed(r.e)
      need == top - r.e + Added(plan, GradientAcc(plan.slopes, i * plan.step))
      full == IF Pulls(plan, r, i) THEN top - r.e + Added(plan, Resisting(plan, i, v))
                                   ELSE Added(plan, TractionAcc(plan.train, v))
      brake == Added(plan, BrakeAcc(plan.train, v))
      value == (-100 * need) \div brake
  IN  IF need > 0 THEN [flag |-> Traction, value |-> (100 * need) \div full]
      ELSE IF -5 * need > brake
           THEN [flag |-> Braking,
                 value |-> IF i > 0 /\ value - r.value \in -9..9 THEN r.value ELSE value]
           ELSE [flag |-> Coasting, value |-> 0]

(* Lines 786-894, one step: r is the energy and the switch on reaching     *)
(* step i, and the level of the step before.                               *)
RunStep(plan, r, i) ==
  LET top == Energy(plan.max[i + 1])
      e == Reached(plan, r, i)
      level == IF e > top THEN LevelAtBound(plan, r, i, top)
               ELSE IF Pulls(plan, r, i) THEN [flag |-> Traction, value |-> 80]
               ELSE [flag |-> Coasting, value |-> 0]
  IN  [e |-> IF e > top THEN top ELSE e, k |-> NextSwitch(plan, r, i),
       flag |-> level.flag, value |-> level.value]

(* GetFitnessOffline2, lines 770-900: the run on reaching each step. *)
RunStates(plan) ==
  LET run[i \in 0..plan.dim] ==
        IF i = 0 THEN [e |-> Creep, k |-> 1, flag |-> 0, value |-> 0]
                 ELSE RunStep(plan, run[i - 1], i - 1)
  IN  run

(* What is kept of it: speeds, levels and their values. *)
Run(plan) ==
  LET run == RunStates(plan)
  IN  [i \in 0..plan.dim |->
         [speed |-> Speed(run[i].e),
          flag |-> IF i < plan.dim THEN run[i + 1].flag ELSE Braking,
          value |-> IF i < plan.dim THEN run[i + 1].value ELSE 100]]
=============================================================================
