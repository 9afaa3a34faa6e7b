---------------------------- MODULE MCOfflinePlan ----------------------------
(* Small instances of OfflinePlan and Search for TLC.  A behaviour is about *)
(* one of these halves of SpeedPlanOffline; the other rests.               *)
EXTENDS OfflinePlan, Search, TLC

Zone(from, value) == [from |-> from, value |-> value]

(* A row of so many columns, those of f filled in. *)
Cells(columns, f) == [j \in 1..columns |-> IF j \in DOMAIN f THEN f[j] ELSE 0]

MCBasicParam == Text(6, <<Cells(14, 5 :> 5 @@ 7 :> "AW0" @@ 8 :> 100 @@ 10 :> 3 @@ 11 :> 2)>>)
MCDynamics == Text(7, <<Cells(35, 2 :> 8 @@ 4 :> 8), Cells(35, 1 :> 12 @@ 2 :> 5 @@ 4 :> 7)>>)
MCStation == Text(1, [n \in 1..3 |-> Cells(15, 10 :> 22 * (n - 1) @@ 11 :> 22 * n)])
MCCurveFile == Text(5, <<<<0, 0>>, <<20, 300>>>>)

(* Up to three limits, at most places of the line: 6, 8 and 11 in tables.  *)
MCLimitZones ==
  {<<Zone(0, p), Zone(x, q), Zone(x + w, r)>> :
     p \in {17, 22}, q \in {13, 17, 22}, r \in {13, 17, 22}, x \in 6..30, w \in {7, 12}}
MCSlopeZones ==
  {<<Zone(0, 0), Zone(44, 0)>>, <<Zone(0, 1), Zone(17, -1), Zone(40, 0)>>}
Down(b, e) == [begin |-> b, end |-> e, down |-> TRUE]
Up(b, e) == [begin |-> b, end |-> e, down |-> FALSE]
MCSections == {Down(0, 31), Down(3, 38), Up(40, 7), Up(44, 13)}

MCOptimize ==
  Text(8, [n \in 1..11 |->
             LET speed == <<0, 5, 8, 9, 9, 0, 7, 7, 6, 3, 0>>
                 flag == <<2, 1, 1, 2, 3, 1, 1, 2, 2, 3, 3>>
             IN  Cells(25, 1 :> 4 * (n - 1)
                           @@ 2 :> speed[n] @@ 3 :> flag[n] @@ 4 :> 80
                           @@ 14 :> speed[12 - n] @@ 15 :> flag[n] @@ 16 :> 70)])

VARIABLE half

PlanRests ==
  /\ zones = [limits |-> CHOOSE z \in LimitZones : TRUE, slopes |-> CHOOSE z \in SlopeZones : TRUE]
  /\ section = Down(0, 31)
SearchRests ==
  /\ cost = [p \in Position |-> 0]
  /\ positions = [m \in Wolves |-> 0]

HalvesInit ==
  \/ half = "plan" /\ SearchRests /\ SearchInit /\ Init
  \/ half = "search" /\ PlanRests /\ Init /\ SearchInit

HalvesNext ==
  \/ half = "plan" /\ Next /\ UNCHANGED <<half, searchVars>>
  \/ half = "search" /\ SearchNext /\ UNCHANGED <<half, vars>>

HalvesSpec == HalvesInit /\ [][HalvesNext]_<<half, vars, searchVars>>
=============================================================================
