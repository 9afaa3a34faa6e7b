---------------------------- MODULE MCPlanCycle ----------------------------
(* Small instances of PlanCycle for TLC. *)
EXTENDS PlanCycle, TLC

(* Three stations a unit apart; the unit is the location tolerance. *)
MCDist == [s \in 1..3 |-> s - 1]

Stop(i, d, j) == [id |-> i, dis |-> d, jump |-> j]

(* The plan of StationPlanDataInit, one that runs through station 2, and   *)
(* one against the direction of travel.                                    *)
AllStops == [direction |-> "down",
             stops |-> <<Stop(1, 0, FALSE), Stop(2, 1, FALSE), Stop(3, 2, FALSE)>>]
Express == [direction |-> "down",
            stops |-> <<Stop(1, 0, FALSE), Stop(2, 1, TRUE), Stop(3, 2, FALSE)>>]
Back == [direction |-> "up",
         stops |-> <<Stop(1, 0, FALSE), Stop(2, 1, FALSE), Stop(3, 2, FALSE)>>]

(* Standing with open doors, and running with closed ones. *)
MCReadings == {<<0, 0>>, <<1, 1>>}

MCPlans == {AllStops, Back}
MCSkipping == {AllStops, Express}
MCFixed == {AllStops}

(* Two stations, for the runs with a TCP client. *)
MCShortDist == [s \in 1..2 |-> s - 1]
MCShortPlans == {[direction |-> "down", stops |-> <<Stop(1, 0, FALSE), Stop(2, 1, FALSE)>>]}

SolverSymmetry == Permutations(Solvers)
=============================================================================
