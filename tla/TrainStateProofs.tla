-------------------------- MODULE TrainStateProofs --------------------------
(***************************************************************************)
(* Proofs about TrainState, for every line, plan, speed and tolerance.     *)
(***************************************************************************)
EXTENDS TrainState, TLAPS, WellFoundedInduction

(* A cut speed is below the speed by less than a km/h (can.c:546). *)
LEMMA CutBounds ==
  ASSUME NEW v \in Nat
  PROVE  Cut(v) \in Nat /\ Cut(v) <= v /\ v - Cut(v) <= Part - 1
<1>1. Part \in Nat /\ Part > 0
  BY TrainStateAssumption
<1>2. \A p \in Nat \ {0} : LET q == v \div p
                           IN  q \in Nat /\ q * p <= v /\ v - q * p <= p - 1
  <2> SUFFICES ASSUME NEW p \in Nat \ {0}
               PROVE  LET q == v \div p IN q \in Nat /\ q * p <= v /\ v - q * p <= p - 1
    OBVIOUS
  <2> DEFINE q == v \div p
             r == v % p
  <2>1. q \in Nat /\ r \in 0..(p - 1) /\ v = p * q + r
    OBVIOUS
  <2>2. p * q = q * p
    BY <2>1
  <2> QED BY <2>1, <2>2
<1> QED BY <1>1, <1>2 DEF Cut

(* A set of numbers has a least one, and a bounded one a greatest. *)
LEMMA LeastIs ==
  ASSUME NEW S \in SUBSET Nat, S # {}
  PROVE  Least(S) \in S /\ \A j \in S : Least(S) <= j
<1>1. PICK x \in S : \A y \in S : <<y, x>> \notin OpToRel(<, Nat)
  BY NatLessThanWellFounded, WFMin, Zenon
<1>2. \A y \in S : x <= y
  <2> SUFFICES ASSUME NEW y \in S PROVE x <= y
    OBVIOUS
  <2>1. ~(y < x)
    BY <1>1 DEF OpToRel
  <2> QED BY <2>1
<1> QED BY <1>2 DEF Least

LEMMA MostIs ==
  ASSUME NEW n \in Nat, NEW S \in SUBSET (1..n), S # {}
  PROVE  Most(S) \in S /\ \A j \in S : Most(S) >= j
<1> DEFINE T == {n - i : i \in S}
<1>1. T \in SUBSET Nat /\ T # {}
  <2>1. T # {}
    OBVIOUS
  <2>2. ASSUME NEW i \in S PROVE n - i \in Nat
    <3>1. i \in 1..n
      OBVIOUS
    <3> QED BY <3>1
  <2> QED BY <2>1, <2>2
<1>2. PICK t \in T : \A u \in T : t <= u
  BY <1>1, LeastIs, Zenon
<1>3. PICK i \in S : t = n - i
  BY <1>2
<1>4. \A j \in S : i >= j
  <2> SUFFICES ASSUME NEW j \in S PROVE i >= j
    OBVIOUS
  <2>1. n - i <= n - j
    BY <1>2, <1>3
  <2> QED BY <2>1
<1> QED BY <1>4 DEF Most

-----------------------------------------------------------------------------
(* Types *)

(* The stops of a plan, written in part or whole. *)
StopType ==
  /\ plan \in [direction : {"down", "up"}, stops : Seq(Stops)]
  /\ newplan \in Plans
  /\ plan.direction = newplan.direction
  /\ Len(plan.stops) = Len(newplan.stops)
  /\ written \in 0..Len(newplan.stops)
  /\ \A i \in 1..written : plan.stops[i] = newplan.stops[i]

LEMMA StopsTyped ==
  /\ Stops \subseteq [id : Ids \cup {0}, dis : Nat, jump : BOOLEAN]
  /\ \A p \in Plans : \A i \in DOMAIN p.stops : p.stops[i] \in Stops
<1>1. ASSUME NEW p \in Plans, NEW i \in DOMAIN p.stops
      PROVE  p.stops[i] \in [id : Ids, dis : Nat, jump : BOOLEAN]
  <2>1. p.stops \in Seq(Stop) /\ p.stops[i].id \in Ids
    BY TrainStateAssumption
  <2>2. p.stops[i] \in Stop
    BY <2>1
  <2> QED BY <2>1, <2>2 DEF Stop
<1>2. NoStop \in [id : Ids \cup {0}, dis : Nat, jump : BOOLEAN]
  BY DEF NoStop
<1> QED BY <1>1, <1>2 DEF Stops

LEMMA NextTyped ==
  ASSUME StopType, NEW d
  PROVE  NextOf(d) \in Ids \cup {0}
<1> DEFINE here == CurrentStop(d)
           stops == {i \in DOMAIN plan.stops : ~plan.stops[i].jump}
           ahead == {i \in stops : IF plan.direction = "down" THEN i > here ELSE i < here}
           i == IF plan.direction = "down" THEN Least(ahead) ELSE Most(ahead)
<1>1. CASE ahead = {}
  BY <1>1 DEF NextOf
<1>2. CASE ahead # {}
  <2>1. ahead \in SUBSET (1..Len(plan.stops)) /\ Len(plan.stops) \in Nat
    BY DEF StopType
  <2>2. Least(ahead) \in ahead
    <3>1. ahead \in SUBSET Nat
      BY <2>1
    <3> HIDE DEF ahead
    <3> QED BY <3>1, <1>2, LeastIs
  <2>3. Most(ahead) \in ahead
    BY <2>1, <1>2, MostIs
  <2>4. i \in DOMAIN plan.stops
    BY <2>2, <2>3
  <2>5. plan.stops[i] \in Stops
    BY <2>4 DEF StopType
  <2>6. plan.stops[i].id \in Ids \cup {0}
    BY <2>5, StopsTyped
  <2> HIDE DEF ahead
  <2> QED BY <1>2, <2>6 DEF NextOf, ahead
<1> QED BY <1>1, <1>2

(* An arrival is at a station of the line. *)
LEMMA ArrivalTyped ==
  ASSUME NEW id \in Ids \cup {0}
  PROVE  ArrivalAt(id) \in [id : Ids \cup {0}, in : Nat]
<1>1. Ids = 1..Len(Dist) /\ Len(Dist) \in Nat /\ Time \in [Ids -> Nat]
  BY TrainStateAssumption DEF Ids
<1>2. CASE id \in Ids \ {1}
  <2>1. id - 1 \in Ids
    BY <1>1, <1>2
  <2> QED BY <1>1, <1>2, <2>1 DEF ArrivalAt
<1>3. CASE id \notin Ids \ {1}
  BY <1>3 DEF ArrivalAt, NoArrival
<1> QED BY <1>2, <1>3

(* No speed is above the fastest. *)
LEMMA FastestIs == Fastest \in Nat /\ \A v \in Speeds : v \in Nat /\ v <= Fastest
<1>1. \E v \in Speeds : \A w \in Speeds : w <= v
  BY TrainStateAssumption
<1>2. Speeds \subseteq Nat
  BY TrainStateAssumption
<1> QED BY <1>1, <1>2 DEF Fastest

(* What a message leaves as the position: the sum, or the post of the      *)
(* station that both positions are at.                                     *)
LEMMA CorrectedIs ==
  ASSUME NEW door \in {0, 1}, NEW v \in Nat, NEW fix \in BOOLEAN, record.dis \in Nat,
         record.speed \in Nat
  PROVE  /\ Added(v, fix) \in Nat
         /\ Added(v, fix) <= record.dis + record.speed + v
         /\ \/ Corrected(door, v, fix) = Added(v, fix)
            \/ /\ fix /\ record.fix /\ Opening(door, v)
               /\ StationsAt(Added(v, fix)) \cap StationsAt(train'.pos) # {}
               /\ \E s \in StationsAt(train'.pos) : Corrected(door, v, fix) = Dist[s]
         /\ Corrected(door, v, fix) \in Nat
<1>1. Added(v, fix) \in Nat /\ Added(v, fix) <= record.dis + record.speed + v
  BY DEF Added
<1> DEFINE both == StationsAt(Added(v, fix)) \cap StationsAt(train'.pos)
           s == CHOOSE s \in both : TRUE
<1>2. CASE fix /\ record.fix /\ Opening(door, v) /\ both # {}
  <2>1. s \in both
    BY <1>2
  <2>2. Corrected(door, v, fix) = Dist[s]
    BY <1>2 DEF Corrected
  <2>3. s \in StationsAt(train'.pos) /\ s \in Ids
    BY <2>1 DEF StationsAt
  <2>4. Dist[s] \in Nat
    BY <2>3, TrainStateAssumption DEF Ids
  <2> HIDE DEF s
  <2> QED BY <1>1, <1>2, <2>2, <2>3, <2>4
<1>3. CASE ~(fix /\ record.fix /\ Opening(door, v) /\ both # {})
  <2>1. Corrected(door, v, fix) = Added(v, fix)
    BY <1>3 DEF Corrected
  <2> QED BY <1>1, <2>1
<1> QED BY <1>2, <1>3

LEMMA PlanTyped ==
  ASSUME NEW p \in Plans
  PROVE  /\ p \in [direction : {"down", "up"}, stops : Seq(Stops)]
         /\ Len(p.stops) \in Nat
<1>1. p \in [direction : {"down", "up"}, stops : Seq(Stop)]
  BY TrainStateAssumption
<1>2. p.stops \in Seq(Stop) /\ \A i \in DOMAIN p.stops : p.stops[i] \in Stops
  BY <1>1, StopsTyped
<1>3. p.stops \in Seq(Stops)
  BY <1>2
<1> QED BY <1>1, <1>3

Typed == TypeOK /\ StopType

LEMMA TypedInit == Init => Typed
<1> SUFFICES ASSUME Init PROVE Typed
  OBVIOUS
<1> USE DEF Init
<1>1. newplan \in Plans /\ plan = newplan /\ written = Len(newplan.stops)
  OBVIOUS
<1>2. StopType
  BY <1>1, PlanTyped DEF StopType
<1>3. train \in [pos : 0..MaxPos, speed : Speeds, door : {0, 1}]
  BY TrainStateAssumption
<1>4. record \in [dis : Nat, speed : Nat, door : {0, 1}, fix : BOOLEAN,
                  next : Ids \cup {0}, arrive : [id : Ids \cup {0}, in : Nat]]
  BY DEF NoRecord, NoArrival
<1>5. /\ cleared \in BOOLEAN /\ blank \in BOOLEAN /\ changed \in BOOLEAN
      /\ moved \in Nat /\ lost \in Nat /\ opened \in BOOLEAN
  OBVIOUS
<1>6. \A i \in DOMAIN plan.stops : plan.stops[i] \in Stops
  BY <1>2 DEF StopType
<1> QED BY <1>1, <1>2, <1>3, <1>4, <1>5, <1>6 DEF TypeOK, Typed, StopType

(* The record a message makes has its type. *)
LEMMA TakenTyped ==
  ASSUME Typed, NEW v \in Speeds, NEW door \in {0, 1}, NEW fix \in BOOLEAN
  PROVE  Taken(door, v, fix) \in
           [dis : Nat, speed : Nat, door : {0, 1}, fix : BOOLEAN,
            next : Ids \cup {0}, arrive : [id : Ids \cup {0}, in : Nat]]
<1> DEFINE c == Cut(v)
           d == Corrected(door, c, fix)
           next == IF door = 0 /\ c = 0 THEN NextOf(d) ELSE record.next
<1>1. c \in Nat
  BY FastestIs, CutBounds
<1>2. d \in Nat
  BY <1>1, CorrectedIs DEF Typed, TypeOK
<1>3. next \in Ids \cup {0}
  <2>1. NextOf(d) \in Ids \cup {0}
    BY NextTyped DEF Typed
  <2>2. record.next \in Ids \cup {0}
    BY DEF Typed, TypeOK
  <2> QED BY <2>1, <2>2
<1>4. ArrivalAt(next) \in [id : Ids \cup {0}, in : Nat]
  BY <1>3, ArrivalTyped
<1>5. record.arrive \in [id : Ids \cup {0}, in : Nat]
  BY DEF Typed, TypeOK
<1>6. Taken(door, v, fix) =
        [dis |-> d, speed |-> c, door |-> door, fix |-> fix, next |-> next,
         arrive |-> IF Opening(door, c) THEN ArrivalAt(next) ELSE record.arrive]
  BY DEF Taken
<1> HIDE DEF c, d, next
<1> QED BY <1>1, <1>2, <1>3, <1>4, <1>5, <1>6

LEMMA RunsTyped ==
  ASSUME Typed, NEW v \in Speeds, NEW door \in {0, 1}, Runs(v, door)
  PROVE  /\ train' \in [pos : 0..MaxPos, speed : Speeds, door : {0, 1}]
         /\ train'.pos = train.pos + train.speed + v
         /\ train'.speed = v /\ train'.door = door
<1>1. v \in Nat /\ train.pos \in Nat /\ train.speed \in Nat /\ MaxPos \in Nat
  <2>1. train \in [pos : 0..MaxPos, speed : Speeds, door : {0, 1}]
    BY DEF Typed, TypeOK
  <2>2. MaxPos \in Nat /\ Speeds \subseteq Nat
    BY TrainStateAssumption
  <2>3. train.pos \in 0..MaxPos /\ train.speed \in Speeds
    BY <2>1
  <2>4. v \in Nat /\ train.speed \in Nat
    BY <2>2, <2>3
  <2>5. train.pos \in Nat
    BY <2>2, <2>3
  <2> QED BY <2>2, <2>4, <2>5
<1>2. train' = [pos |-> train.pos + train.speed + v, speed |-> v, door |-> door]
  BY DEF Runs
<1>3. train.pos + train.speed + v \in 0..MaxPos
  BY <1>1 DEF Runs
<1> QED BY <1>2, <1>3

LEMMA TypedNext == Typed /\ [Next]_vars => Typed'
<1> SUFFICES ASSUME Typed, [Next]_vars PROVE Typed'
  OBVIOUS
<1> DEFINE Record == [dis : Nat, speed : Nat, door : {0, 1}, fix : BOOLEAN,
                      next : Ids \cup {0}, arrive : [id : Ids \cup {0}, in : Nat]]
           Train == [pos : 0..MaxPos, speed : Speeds, door : {0, 1}]
           History == /\ cleared \in BOOLEAN /\ blank \in BOOLEAN /\ changed \in BOOLEAN
                      /\ moved \in Nat /\ lost \in Nat
                      /\ opened \in BOOLEAN
<1>0. train \in Train /\ record \in Record /\ History
  BY DEF Typed, TypeOK
<1>1. ASSUME NEW v \in Speeds, NEW door \in {0, 1}, NEW fix \in BOOLEAN, Take(v, door, fix)
      PROVE  Typed'
  <2>1. train' \in Train
    BY <1>1, RunsTyped DEF Take
  <2>2. record' \in Record
    BY <1>1, TakenTyped DEF Take
  <2>3. History'
    BY <1>0, <1>1 DEF Take, Departure
  <2>4. UNCHANGED <<plan, written, newplan>>
    BY <1>1 DEF Take
  <2> QED BY <2>1, <2>2, <2>3, <2>4 DEF Typed, TypeOK, StopType
<1>2. ASSUME NEW v \in Speeds, NEW door \in {0, 1}, Miss(v, door)
      PROVE  Typed'
  <2>1. train' \in Train
    BY <1>2, RunsTyped DEF Miss
  <2>2. History'
    BY <1>0, <1>2 DEF Miss
  <2>3. UNCHANGED <<record, plan, written, newplan>>
    BY <1>2 DEF Miss
  <2> QED BY <1>0, <2>1, <2>2, <2>3 DEF Typed, TypeOK, StopType
<1>3. ASSUME NEW v \in Speeds, NEW door \in {0, 1}, Clear(v, door)
      PROVE  Typed'
  <2>1. train' \in Train
    BY <1>3, RunsTyped DEF Clear
  <2>2. record' \in Record
    BY <1>3 DEF Clear, NoRecord, NoArrival
  <2>3. History'
    BY <1>0, <1>3 DEF Clear
  <2>4. UNCHANGED <<plan, written, newplan>>
    BY <1>3 DEF Clear
  <2> QED BY <2>1, <2>2, <2>3, <2>4 DEF Typed, TypeOK, StopType
<1>4. CASE ChangePlan
  <2>1. PICK p \in Plans :
          /\ newplan' = p
          /\ plan' = [direction |-> p.direction,
                      stops |-> [i \in DOMAIN p.stops |->
                                   IF i \in DOMAIN plan.stops THEN plan.stops[i] ELSE NoStop]]
          /\ written' = 0
    BY <1>4 DEF ChangePlan
  <2>2. p \in [direction : {"down", "up"}, stops : Seq(Stops)] /\ Len(p.stops) \in Nat
    BY PlanTyped
  <2>3. ASSUME NEW i \in DOMAIN p.stops
        PROVE  (IF i \in DOMAIN plan.stops THEN plan.stops[i] ELSE NoStop) \in Stops
    BY DEF Stops, Typed, TypeOK
  <2>4. plan'.stops \in Seq(Stops) /\ Len(plan'.stops) = Len(p.stops)
    <3>1. DOMAIN p.stops = 1..Len(p.stops)
      BY <2>2
    <3>2. plan'.stops \in [1..Len(p.stops) -> Stops]
      BY <2>1, <2>3, <3>1
    <3> QED BY <2>2, <3>2
  <2>5. StopType'
    BY <2>1, <2>2, <2>4 DEF StopType
  <2>6. train' \in Train /\ record' \in Record /\ History'
    BY <1>0, <1>4 DEF ChangePlan
  <2>7. \A i \in DOMAIN plan'.stops : plan'.stops[i] \in Stops
    BY <2>4
  <2> QED BY <2>5, <2>6, <2>7 DEF Typed, TypeOK, StopType
<1>5. CASE WriteStop
  <2>1. /\ written' = written + 1 /\ newplan' = newplan
        /\ plan' = [plan EXCEPT !.stops[written + 1] = newplan.stops[written + 1]]
    BY <1>5 DEF WriteStop
  <2>2. newplan \in [direction : {"down", "up"}, stops : Seq(Stops)] /\ Len(newplan.stops) \in Nat
    BY PlanTyped DEF Typed, TypeOK
  <2>3. written + 1 \in 1..Len(newplan.stops)
    BY <1>5, <2>2 DEF WriteStop, Whole, Typed, TypeOK
  <2>4. newplan.stops[written + 1] \in Stops
    BY <2>2, <2>3
  <2>5. plan \in [direction : {"down", "up"}, stops : Seq(Stops)]
        /\ Len(plan.stops) = Len(newplan.stops)
    BY DEF Typed, StopType
  <2>6. /\ plan'.stops = [plan.stops EXCEPT ![written + 1] = newplan.stops[written + 1]]
        /\ plan' \in [direction : {"down", "up"}, stops : Seq(Stops)]
        /\ plan'.direction = plan.direction
        /\ Len(plan'.stops) = Len(plan.stops)
    <3> DEFINE stops == [plan.stops EXCEPT ![written + 1] = newplan.stops[written + 1]]
    <3>1. plan'.stops = stops /\ plan'.direction = plan.direction
          /\ plan' = [plan EXCEPT !.stops = stops]
      BY <2>1, <2>5
    <3>2. stops \in Seq(Stops) /\ Len(stops) = Len(plan.stops)
      <4>1. plan.stops \in Seq(Stops) /\ written + 1 \in 1..Len(plan.stops)
        BY <2>3, <2>5
      <4> QED BY <2>4, <4>1
    <3> HIDE DEF stops
    <3>3. plan' \in [direction : {"down", "up"}, stops : Seq(Stops)]
      BY <2>5, <3>1, <3>2
    <3> QED BY <3>1, <3>2, <3>3 DEF stops
  <2>7. \A i \in 1..written' : plan'.stops[i] = newplan'.stops[i]
    BY <2>1, <2>3, <2>5, <2>6 DEF Typed, StopType
  <2>8. StopType'
    BY <2>1, <2>3, <2>5, <2>6, <2>7, <2>2 DEF Typed, StopType
  <2>9. train' \in Train /\ record' \in Record /\ History'
    BY <1>0, <1>5 DEF WriteStop
  <2>10. \A i \in DOMAIN plan'.stops : plan'.stops[i] \in Stops
    BY <2>6
  <2> QED BY <2>8, <2>9, <2>10 DEF Typed, TypeOK, StopType
<1>6. CASE UNCHANGED vars
  BY <1>6 DEF vars, Typed, TypeOK, StopType
<1> QED BY <1>1, <1>2, <1>3, <1>4, <1>5, <1>6 DEF Next

(* Types: the record keeps its type whatever is lost, cleared or rewritten.*)
THEOREM TypeCorrect == Spec => []TypeOK
<1>1. Spec => []Typed
  BY TypedInit, TypedNext, PTL DEF Spec
<1> QED BY <1>1, PTL DEF Typed

-----------------------------------------------------------------------------
(* Positions *)

(* Two stations within the tolerance of a position are one. *)
LEMMA OneStation ==
  ASSUME NEW s \in Ids, NEW t \in Ids, NEW x \in Int,
         Abs(Dist[s] - x) < Near, Abs(x - Dist[t]) <= Slip
  PROVE  s = t
<1>1. /\ Near \in Nat /\ Slip \in Nat /\ 2 * Slip < Near
      /\ Dist[s] \in Nat /\ Dist[t] \in Nat
      /\ s \in Nat /\ t \in Nat
  BY TrainStateAssumption DEF Ids
<1>2. /\ s < t => Dist[t] - Dist[s] >= 2 * Near
      /\ t < s => Dist[s] - Dist[t] >= 2 * Near
  BY TrainStateAssumption
<1>3. Dist[s] - x < Near /\ x - Dist[s] < Near /\ x - Dist[t] <= Slip /\ Dist[t] - x <= Slip
  BY <1>1 DEF Abs
<1> QED BY <1>1, <1>2, <1>3

(* The record is corrected to a station. *)
Fixed(door, v, fix) ==
  /\ fix /\ record.fix /\ Opening(door, Cut(v))
  /\ StationsAt(Added(Cut(v), fix)) \cap StationsAt(train'.pos) # {}

(* A correction gives the post of the platform the train stands at; without*)
(* one the position is the sum.                                            *)
LEMMA FixIs ==
  ASSUME Typed, NEW v \in Speeds, NEW door \in {0, 1}, NEW fix \in BOOLEAN, Runs(v, door)
  PROVE  /\ Fixed(door, v, fix) =>
              /\ v = 0 /\ train.speed = 0 /\ train'.pos = train.pos
              /\ Corrected(door, Cut(v), fix) - train.pos <= Slip
              /\ train.pos - Corrected(door, Cut(v), fix) <= Slip
         /\ ~Fixed(door, v, fix) => Corrected(door, Cut(v), fix) = Added(Cut(v), fix)
<1>1. ASSUME Fixed(door, v, fix)
      PROVE  /\ v = 0 /\ train.speed = 0 /\ train'.pos = train.pos
             /\ Corrected(door, Cut(v), fix) - train.pos <= Slip
             /\ train.pos - Corrected(door, Cut(v), fix) <= Slip
  <2> DEFINE both == StationsAt(Added(Cut(v), fix)) \cap StationsAt(train'.pos)
             s == CHOOSE s \in both : TRUE
  <2>1. door = 0
    BY <1>1 DEF Fixed, Opening
  <2>2. v = 0 /\ train.speed = 0
    BY <2>1 DEF Runs
  <2>3. train.pos \in Nat
    BY TrainStateAssumption DEF Typed, TypeOK
  <2>4. train'.pos = train.pos
    BY <2>2, <2>3, RunsTyped
  <2>5. PICK t \in Ids : Abs(train.pos - Dist[t]) <= Slip
    BY <2>1 DEF Runs
  <2>6. s \in both /\ both \subseteq Ids
    BY <1>1 DEF Fixed, StationsAt
  <2>7. Abs(Dist[s] - train.pos) < Near
    BY <2>4, <2>6 DEF StationsAt
  <2> HIDE DEF s, both
  <2>8. s = t
    BY <2>3, <2>5, <2>6, <2>7, OneStation
  <2>9. Corrected(door, Cut(v), fix) = Dist[t]
    BY <1>1, <2>8 DEF Fixed, Corrected, s, both
  <2>10. Dist[t] \in Nat /\ Slip \in Nat
    BY TrainStateAssumption DEF Ids
  <2> QED BY <2>2, <2>3, <2>4, <2>5, <2>9, <2>10 DEF Abs
<1>2. ~Fixed(door, v, fix) => Corrected(door, Cut(v), fix) = Added(Cut(v), fix)
  BY DEF Fixed, Corrected
<1> QED BY <1>1, <1>2

(* No message, whatever is added up next, takes the record past the train. *)
Behind ==
  /\ record.dis <= train.pos + Slip
  /\ record.dis + record.speed <= train.pos + train.speed + Slip

LEMMA Numbers ==
  ASSUME Typed
  PROVE  /\ train.pos \in Nat /\ train.speed \in Nat /\ train.speed <= Fastest
         /\ record.dis \in Nat /\ record.speed \in Nat
         /\ moved \in Nat /\ lost \in Nat
         /\ Slip \in Nat /\ Part \in Nat \ {0} /\ Fastest \in Nat
<1>1. /\ train.pos \in 0..MaxPos /\ train.speed \in Speeds
      /\ record.dis \in Nat /\ record.speed \in Nat /\ moved \in Nat /\ lost \in Nat
  BY DEF Typed, TypeOK
<1>2. Slip \in Nat /\ Part \in Nat \ {0} /\ MaxPos \in Nat
  BY TrainStateAssumption
<1>3. train.pos \in Nat
  BY <1>1, <1>2
<1> QED BY <1>1, <1>2, <1>3, FastestIs

LEMMA BehindNext == Typed /\ Behind /\ [Next]_vars => Behind'
<1> SUFFICES ASSUME Typed, Behind, [Next]_vars PROVE Behind'
  OBVIOUS
<1>1. ASSUME NEW v \in Speeds, NEW door \in {0, 1}, NEW fix \in BOOLEAN, Take(v, door, fix)
      PROVE  Behind'
  <2>1. Runs(v, door)
    BY <1>1 DEF Take
  <2>2. train'.pos = train.pos + train.speed + v /\ train'.speed = v
    BY <2>1, RunsTyped
  <2>3. v \in Nat /\ Cut(v) \in Nat /\ Cut(v) <= v
    BY FastestIs, CutBounds
  <2>4. record'.dis = Corrected(door, Cut(v), fix) /\ record'.speed = Cut(v)
    BY <1>1 DEF Take, Taken
  <2>5. CASE Fixed(door, v, fix)
    <3>1. v = 0 /\ train.speed = 0 /\ train'.pos = train.pos /\ record'.dis - train.pos <= Slip
      BY <2>1, <2>4, <2>5, FixIs
    <3>2. record'.dis \in Nat
      BY <2>3, <2>4, CorrectedIs, Numbers
    <3> QED BY <2>2, <2>3, <2>4, <3>1, <3>2, Numbers DEF Behind
  <2>6. CASE ~Fixed(door, v, fix)
    <3>1. record'.dis = Added(Cut(v), fix)
      BY <2>1, <2>4, <2>6, FixIs
    <3>2. record'.dis = record.dis \/ record'.dis = record.dis + record.speed + Cut(v)
      BY <3>1, <2>3, Numbers DEF Added
    <3> QED BY <2>2, <2>3, <2>4, <3>2, Numbers DEF Behind
  <2> QED BY <2>5, <2>6
<1>2. ASSUME NEW v \in Speeds, NEW door \in {0, 1}, Miss(v, door)
      PROVE  Behind'
  <2>1. train'.pos = train.pos + train.speed + v /\ train'.speed = v /\ record' = record
    BY <1>2, RunsTyped DEF Miss
  <2>2. v \in Nat
    BY FastestIs
  <2> QED BY <2>1, <2>2, Numbers DEF Behind
<1>3. ASSUME NEW v \in Speeds, NEW door \in {0, 1}, Clear(v, door)
      PROVE  Behind'
  <2>1. train'.pos = train.pos + train.speed + v /\ train'.speed = v
    BY <1>3, RunsTyped DEF Clear
  <2>2. record'.dis = 0 /\ record'.speed = 0
    BY <1>3 DEF Clear, NoRecord
  <2>3. v \in Nat
    BY FastestIs
  <2> QED BY <2>1, <2>2, <2>3, Numbers DEF Behind
<1>4. CASE ChangePlan
  BY <1>4 DEF ChangePlan, Behind
<1>5. CASE WriteStop
  BY <1>5 DEF WriteStop, Behind
<1>6. CASE UNCHANGED vars
  BY <1>6 DEF vars, Behind
<1> QED BY <1>1, <1>2, <1>3, <1>4, <1>5, <1>6 DEF Next

LEMMA BehindAlways == Spec => [](Typed /\ Behind)
<1>1. Init => Behind
  BY TrainStateAssumption DEF Init, Behind, NoRecord
<1> QED BY <1>1, TypedInit, TypedNext, BehindNext, PTL DEF Spec

(* The position never runs ahead of the train. *)
THEOREM Lags == Spec => []NeverAhead
<1>1. Typed /\ Behind => NeverAhead
  BY Numbers DEF Behind, NeverAhead
<1> QED BY <1>1, BehindAlways, PTL

(* What a message with a cut speed and a lost period add to the allowance. *)
Allowed(m, l) == Slip + m * 2 * (Part - 1) + l * 2 * Fastest

LEMMA AllowedSteps ==
  ASSUME NEW m \in Nat, NEW l \in Nat
  PROVE  /\ Allowed(m, l) \in Nat
         /\ Allowed(0, 0) = Slip
         /\ Allowed(m + 1, l) = Allowed(m, l) + 2 * (Part - 1)
         /\ Allowed(m, l + 1) = Allowed(m, l) + 2 * Fastest
         /\ Allowed(m + 1, l + 1) = Allowed(m, l) + 2 * (Part - 1) + 2 * Fastest
<1>1. Part - 1 \in Nat /\ Fastest \in Nat /\ Slip \in Nat
  BY TrainStateAssumption, FastestIs
<1>2. \A n \in Nat, x \in Nat : /\ n * 2 * x \in Nat /\ 0 * 2 * x = 0
                                /\ (n + 1) * 2 * x = n * 2 * x + 2 * x
  OBVIOUS
<1> DEFINE p == Part - 1
<1>3. /\ m * 2 * p \in Nat /\ 0 * 2 * p = 0 /\ (m + 1) * 2 * p = m * 2 * p + 2 * p
      /\ l * 2 * Fastest \in Nat /\ 0 * 2 * Fastest = 0
      /\ (l + 1) * 2 * Fastest = l * 2 * Fastest + 2 * Fastest
  BY <1>1, <1>2
<1>4. p \in Nat
  BY <1>1
<1> QED BY <1>1, <1>3, <1>4 DEF Allowed

(* How far the record is behind, now and when the next speed is added.     *)
Close ==
  ~cleared => /\ train.pos - record.dis <= Allowed(moved, lost)
              /\ train.pos + train.speed - record.dis - record.speed
                   <= Allowed(moved, lost) + (Part - 1)

LEMMA LagNext == Typed /\ Close /\ [Next]_vars => Close'
<1> SUFFICES ASSUME Typed, Close, [Next]_vars PROVE Close'
  OBVIOUS
<1> DEFINE A == Allowed(moved, lost)
<1>0. A \in Nat /\ Part - 1 \in Nat
  <2>1. moved \in Nat /\ lost \in Nat /\ Part \in Nat \ {0}
    BY Numbers
  <2>2. A \in Nat
    BY <2>1, AllowedSteps
  <2> HIDE DEF A
  <2> QED BY <2>1, <2>2
<1>1. ASSUME NEW v \in Speeds, NEW door \in {0, 1}, NEW fix \in BOOLEAN, Take(v, door, fix)
      PROVE  Close'
  <2> SUFFICES ASSUME ~cleared'
               PROVE  /\ train'.pos - record'.dis <= Allowed(moved', lost')
                      /\ train'.pos + train'.speed - record'.dis - record'.speed
                           <= Allowed(moved', lost') + (Part - 1)
    BY DEF Close, Allowed
  <2>1. Runs(v, door)
    BY <1>1 DEF Take
  <2>2. train'.pos = train.pos + train.speed + v /\ train'.speed = v
    BY <2>1, RunsTyped
  <2>3. v \in Nat /\ v <= Fastest /\ Cut(v) \in Nat /\ Cut(v) <= v /\ v - Cut(v) <= Part - 1
    BY FastestIs, CutBounds
  <2>4. record'.dis = Corrected(door, Cut(v), fix) /\ record'.speed = Cut(v)
    BY <1>1 DEF Take, Taken
  <2>5. record'.dis \in Nat
    BY <2>3, <2>4, CorrectedIs, Numbers
  <2>6. CASE Fixed(door, v, fix)
    <3>1. moved' = 0 /\ lost' = 0
      BY <1>1, <2>6 DEF Take, Fixed
    <3>2. /\ v = 0 /\ train'.pos = train.pos
          /\ train.pos - record'.dis <= Slip
      BY <2>1, <2>4, <2>6, FixIs
    <3>3. Allowed(moved', lost') = Slip
      BY <3>1, AllowedSteps
    <3> QED BY <1>0, <2>2, <2>3, <2>4, <2>5, <3>2, <3>3, Numbers
  <2>7. CASE ~Fixed(door, v, fix)
    <3>1. record'.dis = Added(Cut(v), fix)
      BY <2>1, <2>4, <2>7, FixIs
    <3>2. /\ cleared' = cleared
          /\ moved' = IF OnTheWay(v) THEN moved + 1 ELSE moved
          /\ lost' = IF OnTheWay(v) /\ ~(fix /\ record.fix) THEN lost + 1 ELSE lost
      BY <1>1, <2>7 DEF Take, Fixed, Typed, TypeOK
    <3>3. train.pos - record.dis <= A
          /\ train.pos + train.speed - record.dis - record.speed <= A + (Part - 1)
      BY <3>2 DEF Close
    <3>4. CASE OnTheWay(v) /\ fix /\ record.fix
      <4>1. Allowed(moved', lost') = A + 2 * (Part - 1)
        BY <3>2, <3>4, AllowedSteps, Numbers
      <4>2. record'.dis = record.dis + record.speed + Cut(v)
        BY <3>1, <3>4, <2>3, Numbers DEF Added
      <4> HIDE DEF A
      <4> QED BY <1>0, <2>2, <2>3, <2>4, <3>3, <4>1, <4>2, Numbers
    <3>5. CASE OnTheWay(v) /\ ~(fix /\ record.fix)
      <4>1. Allowed(moved', lost') = A + 2 * (Part - 1) + 2 * Fastest
        BY <3>2, <3>5, AllowedSteps, Numbers
      <4>2. record'.dis = record.dis
        BY <3>1, <3>5, Numbers DEF Added
      <4> HIDE DEF A
      <4> QED BY <1>0, <2>2, <2>3, <2>4, <3>3, <4>1, <4>2, Numbers
    <3>6. CASE ~OnTheWay(v)
      <4>1. Allowed(moved', lost') = A
        BY <3>2, <3>6
      <4>2. v = 0 /\ train.speed = 0
        BY <3>6, <2>3, Numbers DEF OnTheWay
      <4>3. record'.dis >= record.dis
        BY <3>1, <2>3, Numbers DEF Added
      <4> HIDE DEF A
      <4> QED BY <1>0, <2>2, <2>3, <2>4, <2>5, <3>3, <4>1, <4>2, <4>3, Numbers
    <3> QED BY <3>4, <3>5, <3>6
  <2> QED BY <2>6, <2>7
<1>2. ASSUME NEW v \in Speeds, NEW door \in {0, 1}, Miss(v, door)
      PROVE  Close'
  <2> SUFFICES ASSUME ~cleared
               PROVE  /\ train'.pos - record.dis <= Allowed(moved, lost')
                      /\ train'.pos + train'.speed - record.dis - record.speed
                           <= Allowed(moved, lost') + (Part - 1)
    BY <1>2 DEF Miss, Close, Allowed
  <2>1. train'.pos = train.pos + train.speed + v /\ train'.speed = v
    BY <1>2, RunsTyped DEF Miss
  <2>2. v \in Nat /\ v <= Fastest
    BY FastestIs
  <2>3. train.pos - record.dis <= A
        /\ train.pos + train.speed - record.dis - record.speed <= A + (Part - 1)
    BY DEF Close
  <2>4. CASE OnTheWay(v)
    <3>1. Allowed(moved, lost') = A + 2 * Fastest
      BY <1>2, <2>4, AllowedSteps, Numbers DEF Miss
    <3> HIDE DEF A
    <3> QED BY <1>0, <2>1, <2>2, <2>3, <3>1, Numbers
  <2>5. CASE ~OnTheWay(v)
    <3>1. Allowed(moved, lost') = A
      BY <1>2, <2>5 DEF Miss
    <3>2. v = 0 /\ train.speed = 0
      BY <2>2, <2>5, Numbers DEF OnTheWay
    <3> HIDE DEF A
    <3> QED BY <1>0, <2>1, <2>2, <2>3, <3>1, <3>2, Numbers
  <2> QED BY <2>4, <2>5
<1>3. ASSUME NEW v \in Speeds, NEW door \in {0, 1}, Clear(v, door)
      PROVE  Close'
  BY <1>3 DEF Clear, Close
<1>4. CASE ChangePlan
  BY <1>4 DEF ChangePlan, Close, Allowed
<1>5. CASE WriteStop
  BY <1>5 DEF WriteStop, Close, Allowed
<1>6. CASE UNCHANGED vars
  BY <1>6 DEF vars, Close, Allowed
<1> QED BY <1>1, <1>2, <1>3, <1>4, <1>5, <1>6 DEF Next

LEMMA LagAlways == Spec => [](Typed /\ Behind /\ Close)
<1>1. Init => Close
  <2> SUFFICES ASSUME Init PROVE Close
    OBVIOUS
  <2>1. train.pos = 0 /\ train.speed = 0 /\ record.dis = 0 /\ record.speed = 0
        /\ moved = 0 /\ lost = 0
    BY DEF Init, NoRecord
  <2>2. Allowed(moved, lost) = Slip /\ Slip \in Nat /\ Part - 1 \in Nat
    BY <2>1, AllowedSteps, TrainStateAssumption
  <2> QED BY <2>1, <2>2 DEF Close
<1> QED BY <1>1, TypedInit, TypedNext, LagNext, BehindAlways, PTL DEF Spec

(* The position lags by no more than the allowance. *)
THEOREM LagIsBounded == Spec => []LagBounded
<1>1. Close => LagBounded
  BY DEF Close, LagBounded, Allowance, Allowed
<1> QED BY <1>1, LagAlways, PTL

(* The position is held to the train from either side (can.c:262-338). *)
THEOREM Position == Spec => []PositionHeld
BY Lags, LagIsBounded, PTL DEF PositionHeld

-----------------------------------------------------------------------------
(* What is on display *)

(* While the doors are open the record stands still, and after an arrival  *)
(* the next stop is that of its position: no message makes it another one  *)
(* than the times are for.                                                 *)
Shown ==
  /\ record.door = 0 => record.speed = 0
  /\ ~Whole => changed
  /\ ~changed /\ ~blank => /\ record.arrive = ArrivalAt(record.next)
                           /\ record.door = 0 => record.next = NextOf(record.dis)

LEMMA ShownNext == Typed /\ Shown /\ [Next]_vars => Shown'
<1> SUFFICES ASSUME Typed, Shown, [Next]_vars PROVE Shown'
  OBVIOUS
<1>1. ASSUME NEW v \in Speeds, NEW door \in {0, 1}, NEW fix \in BOOLEAN, Take(v, door, fix)
      PROVE  Shown'
  <2> DEFINE c == Cut(v)
             d == Corrected(door, c, fix)
             next == IF door = 0 /\ c = 0 THEN NextOf(d) ELSE record.next
  <2>1. c \in Nat /\ c <= v /\ v \in Nat
    BY FastestIs, CutBounds
  <2>2. door = 0 => c = 0
    BY <1>1, <2>1 DEF Take, Runs
  <2>3. /\ record'.dis = d /\ record'.speed = c /\ record'.door = door
        /\ record'.next = next
        /\ record'.arrive = IF Opening(door, c) THEN ArrivalAt(next) ELSE record.arrive
    BY <1>1 DEF Take, Taken
  <2>4. UNCHANGED <<plan, written, newplan>>
    BY <1>1 DEF Take
  <2>6. Whole' = Whole
    BY <2>4 DEF Whole
  <2>7. /\ blank' = (blank /\ ~Opening(door, c))
        /\ changed' = (changed /\ ~(Opening(door, c) /\ Whole))
    BY <1>1 DEF Take
  <2>8. ASSUME ~changed', ~blank'
        PROVE  /\ record'.arrive = ArrivalAt(record'.next)
               /\ record'.door = 0 => record'.next = NextOf(d)
    <3>1. CASE Opening(door, c)
      <4>1. door = 0 /\ c = 0
        BY <3>1 DEF Opening
      <4> QED BY <2>3, <3>1, <4>1
    <3>2. CASE ~Opening(door, c) /\ door = 0
      <4>1. ~changed /\ ~blank
        BY <2>7, <2>8, <3>2 DEF Typed, TypeOK
      <4>2. record.door = 0
        BY <2>2, <3>2 DEF Opening, Typed, TypeOK
      <4>3. d = record.dis
        BY <2>2, <3>2, <4>2, Numbers DEF Corrected, Added, Shown
      <4> HIDE DEF d
      <4> QED BY <2>2, <2>3, <3>2, <4>1, <4>2, <4>3 DEF Shown
    <3>3. CASE door = 1
      <4>1. ~Opening(door, c)
        BY <3>3 DEF Opening
      <4>2. ~changed /\ ~blank
        BY <2>7, <2>8, <4>1 DEF Typed, TypeOK
      <4> QED BY <2>3, <3>3, <4>1, <4>2 DEF Shown
    <3> QED BY <3>1, <3>2, <3>3
  <2>9. ~Whole' => changed'
    BY <2>6, <2>7 DEF Shown
  <2>10. NextOf(record.dis)' = NextOf(d)
    BY <2>3, <2>4 DEF NextOf, CurrentStop
  <2>11. ArrivalAt(record.next)' = ArrivalAt(record'.next)
    BY DEF ArrivalAt
  <2> HIDE DEF c, d, next
  <2> QED BY <2>2, <2>3, <2>8, <2>9, <2>10, <2>11 DEF Shown
<1>2. ASSUME NEW v \in Speeds, NEW door \in {0, 1}, Miss(v, door)
      PROVE  Shown'
  BY <1>2 DEF Miss, Shown, Whole, NextOf, CurrentStop, ArrivalAt
<1>3. ASSUME NEW v \in Speeds, NEW door \in {0, 1}, Clear(v, door)
      PROVE  Shown'
  BY <1>3 DEF Clear, Shown, Whole, NoRecord
<1>4. CASE ChangePlan
  BY <1>4 DEF ChangePlan, Shown
<1>5. CASE WriteStop
  BY <1>5 DEF WriteStop, Shown
<1>6. CASE UNCHANGED vars
  BY <1>6 DEF vars, Shown, Whole, NextOf, CurrentStop, ArrivalAt
<1> QED BY <1>1, <1>2, <1>3, <1>4, <1>5, <1>6 DEF Next

(* The arrival time on display is that of the stop on display. *)
THEOREM Display == Spec => []ArrivalIsOfNext
<1>1. Init => Shown
  BY DEF Init, Shown, Whole, NoRecord
<1>2. Shown => ArrivalIsOfNext
  BY DEF Shown, ArrivalIsOfNext
<1> QED BY <1>1, <1>2, TypedInit, TypedNext, ShownNext, PTL DEF Spec

(* A record with open doors is of an opening, or was cleared. *)
DoorKnown == record.door = 0 => opened \/ blank

(* A departure is noted once for each opening of the doors. *)
THEOREM Departures == Spec => DepartureIsReal
<1>1. Init => DoorKnown
  BY DEF Init, DoorKnown
<1>2. Typed /\ DoorKnown /\ [Next]_vars => DoorKnown'
  <2> SUFFICES ASSUME Typed, DoorKnown, [Next]_vars PROVE DoorKnown'
    OBVIOUS
  <2>1. ASSUME NEW v \in Speeds, NEW door \in {0, 1}, NEW fix \in BOOLEAN, Take(v, door, fix)
        PROVE  DoorKnown'
    BY <2>1 DEF Take, Taken, DoorKnown
  <2>2. ASSUME NEW v \in Speeds, NEW door \in {0, 1}, Miss(v, door)
        PROVE  DoorKnown'
    BY <2>2 DEF Miss, DoorKnown
  <2>3. ASSUME NEW v \in Speeds, NEW door \in {0, 1}, Clear(v, door)
        PROVE  DoorKnown'
    BY <2>3 DEF Clear, DoorKnown
  <2>4. CASE ChangePlan
    BY <2>4 DEF ChangePlan, DoorKnown
  <2>5. CASE WriteStop
    BY <2>5 DEF WriteStop, DoorKnown
  <2>6. CASE UNCHANGED vars
    BY <2>6 DEF vars, DoorKnown
  <2> QED BY <2>1, <2>2, <2>3, <2>4, <2>5, <2>6 DEF Next
<1>3. DoorKnown => [\A v \in Speeds, fix \in BOOLEAN :
                      Take(v, 1, fix) /\ Departure(1) => opened \/ blank]_vars
  BY DEF DoorKnown, Departure
<1> QED BY <1>1, <1>2, <1>3, TypedInit, TypedNext, PTL DEF Spec, DepartureIsReal

-----------------------------------------------------------------------------
(* The next stop *)

(* At a stop of a whole plan the record finds that stop and no other. *)
LEMMA AtTheStop ==
  ASSUME Typed, Whole, NEW i \in DOMAIN plan.stops, NEW d \in Nat,
         Abs(plan.stops[i].dis - d) < Near
  PROVE  CurrentStop(d) = i
<1> DEFINE at == {j \in DOMAIN plan.stops : Abs(plan.stops[j].dis - d) < Near}
<1>1. /\ newplan \in Plans
      /\ newplan.stops \in Seq(Stops) /\ plan.stops \in Seq(Stops)
      /\ Len(plan.stops) = Len(newplan.stops) /\ written = Len(plan.stops)
  BY PlanTyped DEF Typed, StopType, Whole
<1>2. DOMAIN plan.stops = 1..Len(plan.stops) /\ DOMAIN newplan.stops = 1..Len(plan.stops)
      /\ Len(plan.stops) \in Nat
  BY <1>1
<1>3. \A j \in DOMAIN plan.stops : plan.stops[j] = newplan.stops[j]
  BY <1>1, <1>2 DEF Typed, TypeOK
<1>4. \A j, k \in DOMAIN plan.stops :
        /\ plan.stops[j].id \in Ids
        /\ plan.stops[j].dis = Dist[plan.stops[j].id]
        /\ j < k => plan.stops[j].id < plan.stops[k].id
  <2>1. \A j, k \in DOMAIN newplan.stops :
          /\ newplan.stops[j].id \in Ids
          /\ newplan.stops[j].dis = Dist[newplan.stops[j].id]
          /\ j < k => newplan.stops[j].id < newplan.stops[k].id
    BY <1>1, TrainStateAssumption
  <2> QED BY <1>2, <1>3, <2>1
<1>5. ASSUME NEW j \in at PROVE j = i
  <2> DEFINE s == plan.stops[i].id
             t == plan.stops[j].id
  <2>1. /\ s \in Ids /\ t \in Ids /\ plan.stops[i].dis = Dist[s] /\ plan.stops[j].dis = Dist[t]
        /\ i < j => s < t
        /\ j < i => t < s
    BY <1>4
  <2>2. Dist[s] \in Nat /\ Dist[t] \in Nat /\ Near \in Nat
    BY <2>1, TrainStateAssumption DEF Ids
  <2>3. /\ s < t => Dist[t] - Dist[s] >= 2 * Near
        /\ t < s => Dist[s] - Dist[t] >= 2 * Near
    BY <2>1, TrainStateAssumption
  <2>4. Abs(Dist[s] - d) < Near /\ Abs(Dist[t] - d) < Near
    BY <2>1
  <2>5. Dist[s] - d < Near /\ d - Dist[s] < Near /\ Dist[t] - d < Near /\ d - Dist[t] < Near
    <3> HIDE DEF s, t
    <3> QED BY <2>2, <2>4 DEF Abs
  <2> HIDE DEF s, t
  <2>6. ~(i < j) /\ ~(j < i)
    BY <2>1, <2>2, <2>3, <2>5
  <2>7. i \in Nat /\ j \in Nat
    BY <1>2
  <2> QED BY <2>6, <2>7
<1>6. at = {i}
  BY <1>5
<1>7. i \in Nat
  BY <1>2
<1>8. Least({i}) = i
  BY <1>7, LeastIs
<1> HIDE DEF at
<1> QED BY <1>6, <1>8 DEF CurrentStop, at

(* What follows the current stop is the stop after it. *)
LEMMA NextIsAfter ==
  ASSUME Typed, NEW d \in Nat
  PROVE  IsStopAfter(CurrentStop(d), NextOf(d))
<1> DEFINE here == CurrentStop(d)
           stops == {i \in DOMAIN plan.stops : ~plan.stops[i].jump}
           ahead == {i \in stops : IF plan.direction = "down" THEN i > here ELSE i < here}
           j == IF plan.direction = "down" THEN Least(ahead) ELSE Most(ahead)
<1>1. \A i : i \in ahead <=> Calls(i) /\ Ahead(here, i)
  BY DEF Calls, Ahead
<1>2. ahead \in SUBSET (1..Len(plan.stops)) /\ Len(plan.stops) \in Nat
  BY DEF Typed, StopType
<1>3. CASE ahead = {}
  <2>1. NextOf(d) = 0
    BY <1>3 DEF NextOf
  <2> HIDE DEF ahead, here
  <2> QED BY <1>1, <1>3, <2>1 DEF IsStopAfter, here, Calls
<1>4. CASE ahead # {}
  <2>0. NextOf(d) = plan.stops[j].id
    BY <1>4 DEF NextOf
  <2>1. ahead \in SUBSET Nat
    BY <1>2
  <2> HIDE DEF ahead
  <2>2. Least(ahead) \in ahead /\ \A k \in ahead : Least(ahead) <= k
    BY <2>1, <1>4, LeastIs
  <2>3. Most(ahead) \in ahead /\ \A k \in ahead : Most(ahead) >= k
    BY <1>2, <1>4, MostIs
  <2>4. j \in ahead
    BY <2>2, <2>3
  <2>5. ASSUME NEW k \in ahead PROVE ~Ahead(k, j)
    <3>1. plan.direction = "down" => j <= k
      BY <2>2
    <3>2. plan.direction # "down" => j >= k
      BY <2>3
    <3>3. j \in Nat /\ k \in Nat
      BY <2>1, <2>4
    <3> HIDE DEF j
    <3> QED BY <3>1, <3>2, <3>3 DEF Ahead
  <2>6. Calls(j) /\ Ahead(here, j) /\ j \in DOMAIN plan.stops
    BY <1>1, <2>4 DEF Calls
  <2>7. ~\E k \in DOMAIN plan.stops : Calls(k) /\ Ahead(here, k) /\ Ahead(k, j)
    BY <1>1, <2>5
  <2> HIDE DEF j, here
  <2> QED BY <2>0, <2>6, <2>7 DEF IsStopAfter, here
<1> QED BY <1>3, <1>4

(* At a platform with open doors the record names the stop after this one. *)
LEMMA StopFound ==
  ASSUME Typed, Behind, Close, NEW i \in DOMAIN plan.stops, NEW fix \in BOOLEAN,
         Whole, Abs(train.pos - plan.stops[i].dis) <= Slip,
         ~cleared, Allowance + Slip < Near, Take(0, 0, fix)
  PROVE  IsStopAfter(i, record'.next)
<1> DEFINE d == Corrected(0, Cut(0), fix)
<1>1. 0 \in Speeds /\ Near \in Nat
  BY TrainStateAssumption
<1>2. Runs(0, 0)
  BY DEF Take
<1>3. train.speed = 0
  BY <1>2 DEF Runs
<1>4. Cut(0) = 0
  BY CutBounds
<1>5. record'.next = NextOf(d)
  BY <1>4 DEF Take, Taken
<1>6. d \in Nat
  BY <1>4, CorrectedIs, Numbers
<1>7. plan.stops[i].dis \in Nat
  BY StopsTyped DEF Typed, TypeOK
<1>8. plan.stops[i].dis - train.pos <= Slip /\ train.pos - plan.stops[i].dis <= Slip
  BY <1>7, Numbers DEF Abs
<1>9. train.pos - record.dis <= Allowance /\ Slip <= Allowance /\ Allowance \in Nat
      /\ train.pos - record.dis - record.speed <= Allowance + (Part - 1)
  <2>1. Allowance = Allowed(moved, lost) /\ Allowance \in Nat
    BY AllowedSteps, Numbers DEF Allowance, Allowed
  <2>2. \A n, x \in Nat : n * 2 * x \in Nat
    OBVIOUS
  <2>3. moved * 2 * (Part - 1) \in Nat /\ lost * 2 * Fastest \in Nat
    <3>1. Part - 1 \in Nat /\ moved \in Nat /\ lost \in Nat /\ Fastest \in Nat
      BY Numbers
    <3> QED BY <3>1, <2>2
  <2>4. Slip <= Allowance
    BY <2>3, Numbers DEF Allowance
  <2>5. train.pos - record.dis <= Allowance
        /\ train.pos - record.dis - record.speed <= Allowance + (Part - 1)
    BY <1>3, <2>1, Numbers DEF Close
  <2> QED BY <2>1, <2>4, <2>5
<1>10. d - train.pos <= Slip /\ train.pos - d <= Allowance
  <2>1. CASE Fixed(0, 0, fix)
    <3>1. d - train.pos <= Slip /\ train.pos - d <= Slip
      BY <1>1, <1>2, <2>1, FixIs
    <3> HIDE DEF d
    <3> QED BY <1>6, <1>9, <3>1, Numbers
  <2>2. CASE ~Fixed(0, 0, fix)
    <3>1. d = Added(0, fix)
      BY <1>1, <1>2, <1>4, <2>2, FixIs
    <3>2. d = record.dis \/ d = record.dis + record.speed
      BY <3>1, Numbers DEF Added
    <3> HIDE DEF d
    <3> QED BY <1>3, <1>6, <1>9, <3>2, Numbers DEF Behind
  <2> QED BY <2>1, <2>2
<1>11. Abs(plan.stops[i].dis - d) < Near
  <2>1. plan.stops[i].dis - d < Near /\ d - plan.stops[i].dis < Near
    <3> HIDE DEF d
    <3> QED BY <1>1, <1>6, <1>7, <1>8, <1>9, <1>10, Numbers
  <2> HIDE DEF d
  <2> QED BY <1>1, <1>6, <1>7, <2>1 DEF Abs
<1>12. CurrentStop(d) = i
  BY <1>6, <1>11, AtTheStop
<1> HIDE DEF d
<1>13. IsStopAfter(i, NextOf(d))
  BY <1>6, <1>12, NextIsAfter
<1> QED BY <1>5, <1>13

(* The next stop of a message at a platform, at every step. *)
THEOREM NextStop == Spec => KnowsNextStop
<1> DEFINE Found == \A i \in DOMAIN plan.stops, fix \in BOOLEAN :
                      /\ Whole
                      /\ Abs(train.pos - plan.stops[i].dis) <= Slip
                      /\ ~cleared
                      /\ Allowance + Slip < Near
                      /\ Take(0, 0, fix)
                      => IsStopAfter(i, record'.next)
<1>1. Typed /\ Behind /\ Close => [Found]_vars
  BY StopFound
<1>2. KnowsNextStop <=> [][Found]_vars
  BY DEF KnowsNextStop
<1> QED BY <1>1, <1>2, LagAlways, PTL
=============================================================================
