----------------------------- MODULE TrainState -----------------------------
(***************************************************************************)
(* What the controller makes of the train messages: the position, the next *)
(* stop and the times of g_period_msg_from_signal                          *)
(* (UnpackePeriodMsgFromCAN and what it calls, can.c:226-673), beside the  *)
(* train that sends them.                                                  *)
(*                                                                         *)
(* The record is updated from one message to the next: door and speed of   *)
(* the last message, a fix on both, a position added up from speeds.  A    *)
(* message may be lost before it is taken, and the record may be cleared   *)
(* (a wrong checksum can.c:631-632, a failed read can.c:863, ProgramInit   *)
(* socket.c:33): then door 0, "open", speed 0, position 0 and no fix are   *)
(* what the next message is compared with.                                 *)
(*                                                                         *)
(* A speed is in parts of a km/h; the unit of length is what a train with  *)
(* a speed of 1 part covers in half a period, so that the distance between *)
(* two messages is the sum of their speeds.                                *)
(***************************************************************************)
EXTENDS Integers, Sequences, FiniteSets

CONSTANTS
  Dist,      \* begin_distance of the stations 1, 2, ... of the line
  Time,      \* schedule_time: from each station to the next
  Near,      \* an error below Near means "at the station": 200 m
  Slip,      \* how far from a station the train may stop
  Part,      \* parts of a km/h: a message has 100, the record none
  Speeds,    \* the speeds the train may have, in parts
  MaxPos,    \* bound of the model: the train does not go further
  Plans      \* the stopping plans the APP may send: stations of the line

Ids == DOMAIN Dist
Abs(x) == IF x < 0 THEN -x ELSE x
Stop == [id : Nat, dis : Nat, jump : BOOLEAN]

ASSUME TrainStateAssumption ==
  /\ Dist \in Seq(Nat)
  /\ Len(Dist) > 1
  /\ Dist[1] = 0
  /\ Near \in Nat \ {0}
  /\ Slip \in Nat
  /\ 2 * Slip < Near
  /\ \A s, t \in Ids : s < t => Dist[t] - Dist[s] >= 2 * Near
  /\ Time \in [Ids -> Nat]
  /\ Part \in Nat \ {0}
  /\ Speeds \subseteq Nat
  /\ 0 \in Speeds
  /\ \E v \in Speeds : \A w \in Speeds : w <= v
  /\ MaxPos \in Nat
  /\ Plans # {}
  /\ Plans \subseteq [direction : {"down", "up"}, stops : Seq(Stop)]
  /\ \A p \in Plans : \A i, j \in DOMAIN p.stops :
       /\ p.stops[i].id \in Ids
       /\ p.stops[i].dis = Dist[p.stops[i].id]
       /\ i < j => p.stops[i].id < p.stops[j].id

VARIABLES
  train,    \* the train: pos, speed, door (0 open)
  record,   \* g_period_msg_from_signal: dis, speed, door and fix of the
            \* last message, next, and what next_station_arrive_time is the
            \* time of: the station and the seconds to it
  plan,     \* g_plan_config_info, as far as the new one is written
  written,  \* stops of the new plan that are written
  newplan,  \* the plan of the last message 105
  cleared,  \* history: the record was cleared since it last knew where it is
  blank,    \* history: the record was cleared since the last arrival
  changed,  \* history: the plan was changed since the last arrival
  moved,    \* history: messages taken on the way since the last correction
  lost,     \* history: periods on the way that were not added up
  opened    \* history: the doors opened since the last departure noted

vars == <<train, record, plan, written, newplan, cleared, blank, changed, moved, lost, opened>>

Whole == written = Len(newplan.stops)

NoStop == [id |-> 0, dis |-> 0, jump |-> FALSE]
Stops == {NoStop} \cup UNION {{p.stops[i] : i \in DOMAIN p.stops} : p \in Plans}

Fastest == CHOOSE v \in Speeds : \A w \in Speeds : w <= v
NoArrival == [id |-> 0, in |-> 0]
NoRecord == [dis |-> 0, speed |-> 0, door |-> 0, fix |-> FALSE,
             next |-> 0, arrive |-> NoArrival]

TypeOK ==
  /\ train \in [pos : 0..MaxPos, speed : Speeds, door : {0, 1}]
  /\ record \in [dis : Nat, speed : Nat, door : {0, 1}, fix : BOOLEAN,
                 next : Ids \cup {0}, arrive : [id : Ids \cup {0}, in : Nat]]
  /\ newplan \in Plans
  /\ written \in 0..Len(newplan.stops)
  /\ plan.direction = newplan.direction
  /\ Len(plan.stops) = Len(newplan.stops)
  /\ \A i \in 1..written : plan.stops[i] = newplan.stops[i]
  /\ \A i \in DOMAIN plan.stops : plan.stops[i] \in Stops
  /\ cleared \in BOOLEAN /\ blank \in BOOLEAN /\ changed \in BOOLEAN
  /\ moved \in Nat /\ lost \in Nat
  /\ opened \in BOOLEAN

(* Power-up at the first station, doors open; the plan is one that came    *)
(* before the first message of the train.                                  *)
Init ==
  /\ train = [pos |-> 0, speed |-> 0, door |-> 0]
  /\ record = NoRecord
  /\ newplan \in Plans
  /\ plan = newplan
  /\ written = Len(newplan.stops)
  /\ cleared = FALSE
  /\ blank = TRUE
  /\ changed = FALSE
  /\ moved = 0
  /\ lost = 0
  /\ opened = TRUE

-----------------------------------------------------------------------------
(* The train, until it sends its next message. *)

Runs(v, door) ==
  /\ train.door = 0 => v = 0
  /\ train.pos + train.speed + 2 * v <= MaxPos
  /\ door = 0 => v = 0 /\ train.speed = 0 /\ \E s \in Ids : Abs(train.pos - Dist[s]) <= Slip
  /\ train' = [pos |-> train.pos + train.speed + v, speed |-> v, door |-> door]

(* The cut to whole km/h of can.c:546. *)
Cut(v) == (v \div Part) * Part

-----------------------------------------------------------------------------
(* The record *)

(* The station found for a position: lines 306-316 from the fix, 318-329   *)
(* from the position that was added up.  At most one is near.              *)
StationsAt(d) == {s \in Ids : Abs(Dist[s] - d) < Near}

(* The doors have opened since the last message: lines 297 and 423. *)
Opening(door, v) == record.door = 1 /\ door = 0 /\ v = 0

(* Mutant: the speed of this message is taken for both. *)
AddedDouble(v, fix) == record.dis + (IF fix /\ record.fix THEN 2 * v ELSE 0)

(* Lines 262-294: the speeds are added up only with a fix on both messages.*)
Added(v, fix) ==
  record.dis + (IF fix /\ record.fix THEN record.speed + v ELSE 0)

(* Lines 296-338: once when the doors open, to the station both agree on.  *)
Corrected(door, v, fix) ==
  LET d == Added(v, fix)
      both == StationsAt(d) \cap StationsAt(train'.pos)
  IN IF fix /\ record.fix /\ Opening(door, v) /\ both # {}
     THEN Dist[CHOOSE s \in both : TRUE]
     ELSE d

Least(S) == CHOOSE i \in S : \A j \in S : i <= j
Most(S) == CHOOSE i \in S : \A j \in S : i >= j

(* The index of the stop a position is at, the first one if at none. *)
CurrentStop(d) ==
  LET at == {i \in DOMAIN plan.stops : Abs(plan.stops[i].dis - d) < Near}
  IN IF at = {} THEN 1 ELSE Least(at)

(* Mutant: stops that are skipped are counted. *)
NextOfAll(d) ==
  LET i == CurrentStop(d) + 1
  IN IF i \in DOMAIN plan.stops THEN plan.stops[i].id ELSE 0

(* GetCurrentPlan, 364-409: the next stop that is not skipped, 0 if none.  *)
NextOf(d) ==
  LET here == CurrentStop(d)
      stops == {i \in DOMAIN plan.stops : ~plan.stops[i].jump}
      ahead == {i \in stops : IF plan.direction = "down" THEN i > here ELSE i < here}
  IN IF ahead = {} THEN 0
     ELSE plan.stops[IF plan.direction = "down" THEN Least(ahead) ELSE Most(ahead)].id

(* Lines 425-457: the section that ends at the next stop, in the order of  *)
(* the line; none for the first station and for no stop.                   *)
ArrivalAt(id) ==
  IF id \in Ids \ {1} THEN [id |-> id, in |-> Time[id - 1]] ELSE NoArrival

(* Mutant: the times are computed before the next stop is. *)
TakenTimesFirst(door, s, fix) ==
  LET v == Cut(s)
      d == Corrected(door, v, fix)
  IN [dis |-> d, speed |-> v, door |-> door, fix |-> fix,
      next |-> IF door = 0 /\ v = 0 THEN NextOf(d) ELSE record.next,
      arrive |-> IF Opening(door, v) THEN ArrivalAt(record.next) ELSE record.arrive]

(* Lines 485-641 for a message with a right checksum: the fields, then the *)
(* position, the next stop (362: while the doors are open) and the times   *)
(* (423: once, when they open).                                            *)
Taken(door, s, fix) ==
  LET v == Cut(s)
      d == Corrected(door, v, fix)
      next == IF door = 0 /\ v = 0 THEN NextOf(d) ELSE record.next
  IN [dis |-> d, speed |-> v, door |-> door, fix |-> fix, next |-> next,
      arrive |-> IF Opening(door, v) THEN ArrivalAt(next) ELSE record.arrive]

(* Mutant: the level of the door, not its edge. *)
DepartureClosed(door) == door = 1

(* Line 460: current_station_leave_time is stamped. *)
Departure(door) == record.door = 0 /\ door = 1

OnTheWay(v) == train.speed + v > 0

Take(v, door, fix) ==
  /\ Runs(v, door)
  /\ record' = Taken(door, v, fix)
  /\ LET arrival == Opening(door, Cut(v))
         d == Added(Cut(v), fix)
         fixed == fix /\ record.fix /\ arrival
                  /\ StationsAt(d) \cap StationsAt(train'.pos) # {}
     IN /\ cleared' = (cleared /\ ~fixed)
        /\ blank' = (blank /\ ~arrival)
        /\ changed' = (changed /\ ~(arrival /\ Whole))
        /\ moved' = IF fixed THEN 0 ELSE IF OnTheWay(v) THEN moved + 1 ELSE moved
        /\ lost' = IF fixed THEN 0
                   ELSE IF OnTheWay(v) /\ ~(fix /\ record.fix) THEN lost + 1 ELSE lost
  /\ opened' = (door = 0 \/ (opened /\ ~Departure(door)))
  /\ UNCHANGED <<plan, written, newplan>>

(* The message is lost on its way to the record. *)
Miss(v, door) ==
  /\ Runs(v, door)
  /\ lost' = IF OnTheWay(v) THEN lost + 1 ELSE lost
  /\ opened' = (opened \/ door = 0)
  /\ UNCHANGED <<record, plan, written, newplan, cleared, blank, changed, moved>>

(* Lines 631-632 and 863, socket.c:33. *)
Clear(v, door) ==
  /\ Runs(v, door)
  /\ record' = NoRecord
  /\ cleared' = TRUE
  /\ blank' = TRUE
  /\ moved' = 0
  /\ lost' = 0
  /\ opened' = (opened \/ door = 0)
  /\ UNCHANGED <<plan, written, newplan, changed>>

(* Message 105, WebServer.c:1258-1264: the direction and the number of     *)
(* stops are written at once, before the stops: those of the plan before   *)
(* stand until then.                                                       *)
ChangePlan ==
  /\ Whole
  /\ \E p \in Plans \ {newplan} :
       /\ newplan' = p
       /\ plan' = [direction |-> p.direction,
                   stops |-> [i \in DOMAIN p.stops |->
                                IF i \in DOMAIN plan.stops THEN plan.stops[i] ELSE NoStop]]
  /\ written' = 0
  /\ changed' = TRUE
  /\ UNCHANGED <<train, record, cleared, blank, moved, lost, opened>>

(* Lines 1265-1272: one stop after the other, messages of the train in     *)
(* between.                                                                *)
WriteStop ==
  /\ ~Whole
  /\ written' = written + 1
  /\ plan' = [plan EXCEPT !.stops[written + 1] = newplan.stops[written + 1]]
  /\ UNCHANGED <<train, record, newplan, cleared, blank, changed, moved, lost, opened>>

Next ==
  \/ \E v \in Speeds, door \in {0, 1} :
       \/ \E fix \in BOOLEAN : Take(v, door, fix)
       \/ Miss(v, door)
       \/ Clear(v, door)
  \/ ChangePlan
  \/ WriteStop

Spec == Init /\ [][Next]_vars

-----------------------------------------------------------------------------
(* Properties *)

(* The position never runs ahead of the train by more than it stopped      *)
(* short of a platform, whatever is lost, cleared or corrected: no advice  *)
(* comes early (can.c:275-279, 331-334).                                   *)
NeverAhead == record.dis - train.pos <= Slip

(* The position lags by no more than the cut of the speeds and the periods *)
(* not added up explain, unless the record was cleared: a lost message, a  *)
(* period without a fix and a stop short of the platform do not add up to  *)
(* more over a whole journey (can.c:262-338).                              *)
Allowance == Slip + moved * 2 * (Part - 1) + lost * 2 * Fastest
LagBounded == ~cleared => train.pos - record.dis <= Allowance

(* Both: the position is held to the train from either side.               *)
PositionHeld == NeverAhead /\ LagBounded

(* Stop n is the one after stop i of the plan; 0 if there is none.         *)
Ahead(i, j) == IF plan.direction = "down" THEN j > i ELSE j < i
Calls(j) == j \in DOMAIN plan.stops /\ ~plan.stops[j].jump
IsStopAfter(i, n) ==
  \/ n = 0 /\ ~\E j \in DOMAIN plan.stops : Calls(j) /\ Ahead(i, j)
  \/ \E j \in DOMAIN plan.stops :
       /\ Calls(j) /\ Ahead(i, j) /\ plan.stops[j].id = n
       /\ ~\E k \in DOMAIN plan.stops : Calls(k) /\ Ahead(i, k) /\ Ahead(k, j)

(* At a platform with open doors the record names the stop after this one, *)
(* as long as what was lost since the last correction stays below the      *)
(* tolerance and the record was not cleared (can.c:362-409): what a        *)
(* message found in a half-written plan, stops of both, is corrected by    *)
(* the next one after the plan is whole (WebServer.c:1259-1272).           *)
KnowsNextStop ==
  [][\A i \in DOMAIN plan.stops, fix \in BOOLEAN :
       /\ Whole
       /\ Abs(train.pos - plan.stops[i].dis) <= Slip
       /\ ~cleared
       /\ Allowance + Slip < Near
       /\ Take(0, 0, fix)
       => IsStopAfter(i, record'.next)]_vars

(* The arrival time on display is that of the stop on display, unless the  *)
(* plan was changed or the record cleared since the doors last opened: the *)
(* next stop is computed anew at every message, the times once             *)
(* (can.c:362, 423-457, 639-641).                                          *)
ArrivalIsOfNext == ~changed /\ ~blank => record.arrive = ArrivalAt(record.next)

(* A departure is noted once for each time the doors opened, though        *)
(* messages are lost, unless the record was cleared: cleared, it says the  *)
(* doors are open (can.c:460, 632).                                        *)
DepartureIsReal ==
  [][\A v \in Speeds, fix \in BOOLEAN :
       Take(v, 1, fix) /\ Departure(1) => opened \/ blank]_vars
=============================================================================
