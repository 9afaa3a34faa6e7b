-------------------------- MODULE PlanCycleProofs --------------------------
(***************************************************************************)
(* The safety of the planning cycle for any number of solver threads,      *)
(* feeders and TCP threads, any line, any set of stopping plans.           *)
(*                                                                         *)
(* Every result hangs on one observation: as long as ProgramInit has not   *)
(* hit a running search, optimize_stage is 1 whenever a search computes,   *)
(* and SpeedPlanMain is past its test of optimize_stage only while none    *)
(* does.  SafeInv says so, and adds what that makes stable.                *)
(***************************************************************************)
EXTENDS PlanCycle, WellFoundedInduction, TLAPS

-----------------------------------------------------------------------------
(* The searches for a first or a last element *)

(* A nonempty set of naturals has a least element: what the scans of       *)
(* SpeedPlanMain and GetCurrentPlan stop at is there.                      *)
LEMMA LeastExists ==
  ASSUME NEW S \in SUBSET Nat, S # {}
  PROVE  \E x \in S : \A y \in S : x <= y
<1>. DEFINE R == {ss \in Nat \X Nat : ss[1] < ss[2]}
<1>1. IsWellFoundedOn(R, Nat)
  BY NatLessThanWellFounded, Zenon DEF OpToRel
<1>2. \E x \in S : \A y \in S : ~(<<y, x>> \in R)
  <2>. HIDE DEF R
  <2>. QED BY <1>1, WFMin, Zenon
<1>3. ASSUME NEW x \in S, NEW y \in S, ~(<<y, x>> \in R)
      PROVE  x <= y
  BY <1>3
<1>. QED BY <1>2, <1>3

(* So has a bounded one a greatest element: the scan of a plan that is     *)
(* driven upwards.                                                         *)
LEMMA GreatestExists ==
  ASSUME NEW S \in SUBSET Nat, S # {}, NEW m \in Nat, \A x \in S : x <= m
  PROVE  \E x \in S : \A y \in S : y <= x
<1>. DEFINE T == {m - x : x \in S}
<1>1. T \in SUBSET Nat /\ T # {}
  <2>1. \A x \in S : m - x \in Nat
    OBVIOUS
  <2>. QED BY <2>1
<1>2. PICK d \in T : \A e \in T : d <= e
  <2>. HIDE DEF T
  <2>. QED BY <1>1, LeastExists
<1>3. PICK x \in S : d = m - x
  OBVIOUS
<1>4. ASSUME NEW y \in S PROVE y <= x
  <2>1. m - y \in T
    OBVIOUS
  <2>2. d <= m - y
    BY <1>2, <2>1
  <2>3. x \in Nat /\ y \in Nat
    OBVIOUS
  <2>. QED BY <1>3, <2>2, <2>3
<1>. QED BY <1>3, <1>4

(* The scan of SpeedPlanMain finds a station of the table or leaves the    *)
(* current station alone.                                                  *)
LEMMA CurrentStationType ==
  ASSUME NEW d, NEW old \in Ids \cup {0}
  PROVE  CurrentStation(d, old) \in Ids \cup {0}
<1>1. CASE At(d) = {}
  BY <1>1 DEF CurrentStation
<1>2. CASE At(d) # {}
  <2>1. At(d) \in SUBSET Nat /\ At(d) \subseteq Ids
    BY PlanCycleAssumption DEF At, Ids
  <2>2. \E s \in At(d) : \A r \in At(d) : s <= r
    BY <1>2, <2>1, LeastExists
  <2>. QED BY <1>2, <2>1, <2>2 DEF CurrentStation
<1>. QED BY <1>1, <1>2

(* GetCurrentPlan finds a stop of the plan or clears the next station.     *)
LEMMA NextStopType ==
  ASSUME NEW p \in PlanShape, NEW d
  PROVE  NextStop(p, d) \in Nat
<1>. DEFINE i        == PlanIndex(p.stops, d)
            stopping == {j \in DOMAIN p.stops : ~p.stops[j].jump}
            after    == {j \in stopping : j > i}
            before   == {j \in stopping : j < i}
<1>1. /\ p.stops \in Seq([id: Nat, dis: Nat, jump: BOOLEAN])
      /\ Len(p.stops) \in Nat
      /\ DOMAIN p.stops = 1..Len(p.stops)
  BY DEF PlanShape
<1>2. \A j \in DOMAIN p.stops : p.stops[j].id \in Nat
  <2>. DEFINE Stop == [id: Nat, dis: Nat, jump: BOOLEAN]
             stops == p.stops
  <2>1. stops \in Seq(Stop)
    BY <1>1
  <2>2. ASSUME NEW j \in DOMAIN stops PROVE stops[j] \in Stop
    <3>. HIDE DEF Stop, stops
    <3>. QED BY <2>1
  <2>. QED BY <2>2
<1>3. /\ stopping \in SUBSET Nat
      /\ after \subseteq stopping
      /\ before \subseteq stopping
      /\ \A j \in stopping : j <= Len(p.stops)
  BY <1>1
<1>4. after # {} => \E j \in after : \A k \in after : j <= k
  <2>. HIDE DEF after
  <2>. QED BY <1>3, LeastExists
<1>5. before # {} => \E j \in before : \A k \in before : k <= j
  <2>. HIDE DEF before
  <2>. QED BY <1>1, <1>3, GreatestExists
<1>6. CASE p.direction = "down" /\ after # {}
  <2>1. NextStop(p, d) = p.stops[CHOOSE j \in after : \A k \in after : j <= k].id
    BY <1>6 DEF NextStop
  <2>2. (CHOOSE j \in after : \A k \in after : j <= k) \in DOMAIN p.stops
    BY <1>4, <1>6
  <2>. QED BY <1>2, <2>1, <2>2
<1>7. CASE p.direction = "up" /\ before # {}
  <2>1. NextStop(p, d) = p.stops[CHOOSE j \in before : \A k \in before : k <= j].id
    BY <1>7 DEF NextStop
  <2>2. (CHOOSE j \in before : \A k \in before : k <= j) \in DOMAIN p.stops
    BY <1>5, <1>7
  <2>. QED BY <1>2, <2>1, <2>2
<1>8. CASE ~(p.direction = "down" /\ after # {}) /\ ~(p.direction = "up" /\ before # {})
  BY <1>8 DEF NextStop
<1>. QED BY <1>6, <1>7, <1>8

(* The position a message leaves is a natural number. *)
LEMMA LocatedType ==
  ASSUME NEW d \in Nat
  PROVE  Located(d) \subseteq Nat
BY PlanCycleAssumption DEF Located, At, Ids

-----------------------------------------------------------------------------
(* Type correctness *)

(* The state main.c starts the threads in is well typed. *)
LEMMA TypeInit == Init => TypeOK
<1>. SUFFICES ASSUME Init PROVE TypeOK
  OBVIOUS
<1>1. info \in [begin: Nat, end: Nat, current: Ids \cup {0}, next: Nat,
               stage: {0, 1, 2}, send: {0, 1}, station: Nat]
  BY DEF Init, NoInfo
<1>2. /\ signal \in [door: {0, 1}, speed: {0, 1}, dis: Nat, next: Nat]
      /\ base \in Interval
      /\ curve \in Interval
  BY DEF Init, NoSignal, NoInterval, Interval
<1>3. /\ feeder \in [Feeders -> [pc: {"idle", "sum", "plan", "next"}, dis: Nat]]
      /\ solver \in [Solvers -> SolverPcs]
      /\ link \in [Links -> {"idle", "stage"}]
  BY DEF Init, SolverPcs
<1>. QED BY <1>1, <1>2, <1>3 DEF Init, TypeOK, MainPcs

(* Every step keeps the types. *)
LEMMA TypeStep == TypeOK /\ [Next]_vars => TypeOK'
<1>. SUFFICES ASSUME TypeOK, [Next]_vars PROVE TypeOK'
  OBVIOUS
<1>1. CASE MainPoll
  BY <1>1 DEF MainPoll, TypeOK, MainPcs, SolverPcs, ghosts
<1>2. CASE MainCompare
  BY <1>2 DEF MainCompare, TypeOK, MainPcs, SolverPcs, ghosts
<1>3. CASE MainBegin
  BY <1>3 DEF MainBegin, TypeOK, MainPcs, SolverPcs, ghosts
<1>4. CASE MainNext
  BY <1>4 DEF MainNext, TypeOK, MainPcs, SolverPcs, ghosts
<1>5. CASE MainLookup
  <2>. DEFINE here  == CurrentStation(signal.dis, info.current)
              known == info.next \in Ids
              end   == IF here # info.next /\ known THEN Dist[info.next]
                       ELSE info.end
  <2>1. here \in Ids \cup {0}
    BY CurrentStationType DEF TypeOK
  <2>2. end \in Nat
    BY PlanCycleAssumption DEF TypeOK
  <2>3. info' = [info EXCEPT !.current = here, !.end = end]
    BY <1>5 DEF MainLookup
  <2>4. main' \in {"poll", "stage"}
    BY <1>5 DEF MainLookup
  <2>. HIDE DEF here, end
  <2>. QED BY <1>5, <2>1, <2>2, <2>3, <2>4 DEF MainLookup, TypeOK, MainPcs, ghosts
<1>6. CASE MainStage
  BY <1>6 DEF MainStage, TypeOK, MainPcs, SolverPcs, ghosts
<1>7. CASE MainCreate
  BY <1>7 DEF MainCreate, TypeOK, MainPcs, SolverPcs, ghosts
<1>8. CASE MainCreateFails
  BY <1>8 DEF MainCreateFails, TypeOK, MainPcs, SolverPcs, ghosts
<1>9. ASSUME NEW t \in Solvers, SolverStep(t) PROVE TypeOK'
  <2>1. CASE SolverAlloc(t)
    BY <2>1 DEF SolverAlloc, Goto, TypeOK, SolverPcs, Interval, ghosts
  <2>2. CASE SolverBase(t)
    BY <2>2 DEF SolverBase, Goto, TypeOK, SolverPcs, Interval, ghosts
  <2>3. CASE SolverSolve(t)
    BY <2>3 DEF SolverSolve, Goto, TypeOK, SolverPcs, Interval, ghosts
  <2>4. CASE SolverStage(t)
    BY <2>4 DEF SolverStage, Goto, TypeOK, SolverPcs, Interval, ghosts
  <2>5. CASE SolverSend(t)
    BY <2>5 DEF SolverSend, Goto, TypeOK, SolverPcs, Interval, ghosts
  <2>6. CASE SolverStation(t)
    BY <2>6 DEF SolverStation, Goto, TypeOK, SolverPcs, Interval, ghosts
  <2>7. CASE SolverFree(t)
    BY <2>7 DEF SolverFree, Goto, TypeOK, SolverPcs, Interval, ghosts
  <2>. QED
    BY <1>9, <2>1, <2>2, <2>3, <2>4, <2>5, <2>6, <2>7 DEF SolverStep
<1>10. ASSUME NEW f \in Feeders, FeederStep(f) PROVE TypeOK'
  <2>1. CASE FeederFields(f)
    <3>1. PICK r \in Readings :
            signal' = [signal EXCEPT !.door = r[1], !.speed = r[2]]
      BY <2>1 DEF FeederFields
    <3>2. r[1] \in {0, 1} /\ r[2] \in {0, 1}
      BY PlanCycleAssumption
    <3>3. signal' \in [door: {0, 1}, speed: {0, 1}, dis: Nat, next: Nat]
      BY <3>1, <3>2 DEF TypeOK
    <3>. QED BY <2>1, <3>3 DEF FeederFields, TypeOK, ghosts
  <2>2. CASE FeederSumWrong(f)
    BY <2>2 DEF FeederSumWrong, TypeOK, NoSignal, ghosts
  <2>3. CASE FeederLocate(f)
    BY <2>3, LocatedType DEF FeederLocate, TypeOK, ghosts
  <2>4. CASE FeederClearNext(f)
    BY <2>4 DEF FeederClearNext, TypeOK, ghosts
  <2>5. CASE FeederSetNext(f)
    <3>1. NextStop(plan, feeder[f].dis) \in Nat
      BY NextStopType, PlanCycleAssumption DEF TypeOK
    <3>. QED BY <2>5, <3>1 DEF FeederSetNext, TypeOK, ghosts
  <2>. QED
    BY <1>10, <2>1, <2>2, <2>3, <2>4, <2>5 DEF FeederStep, FeederWork
<1>11. CASE BusReadFails
  BY <1>11 DEF BusReadFails, TypeOK, NoSignal, ghosts
<1>12. ASSUME NEW l \in Links, LinkStep(l) PROVE TypeOK'
  <2>1. interrupted' \in BOOLEAN
    BY <1>12 DEF LinkStep, LinkClear, LinkStage
  <2>2. CASE LinkClear(l)
    <3>1. info' \in [begin: Nat, end: Nat, current: Ids \cup {0}, next: Nat,
                     stage: {0, 1, 2}, send: {0, 1}, station: Nat]
      BY <2>2 DEF LinkClear, NoInfo
    <3>. QED
      BY <2>1, <2>2, <3>1 DEF LinkClear, TypeOK, NoSignal, NoInterval, Interval
  <2>3. CASE LinkStage(l)
    BY <2>1, <2>3 DEF LinkStage, TypeOK
  <2>. QED BY <1>12, <2>2, <2>3 DEF LinkStep
<1>13. CASE PushStep
  BY <1>13 DEF PushStep, PushCheck, PushClear, PushPack, TypeOK, ghosts
<1>14. CASE AppPlan
  BY <1>14 DEF AppPlan, TypeOK, ghosts
<1>15. CASE UNCHANGED vars
  BY <1>15 DEF vars, TypeOK
<1>. QED
  BY <1>1, <1>2, <1>3, <1>4, <1>5, <1>6, <1>7, <1>8, <1>9,
      <1>10, <1>11, <1>12, <1>13, <1>14, <1>15 DEF Next, MainStep

(* The records keep to their types under every interleaving: in particular *)
(* the next station found by GetCurrentPlan and the current one found by   *)
(* SpeedPlanMain are naturals, and optimize_stage is 0, 1 or 2.            *)
THEOREM TypeCorrect == Spec => []TypeOK
BY TypeInit, TypeStep, PTL DEF Spec

-----------------------------------------------------------------------------
(* The inductive invariant *)

(* optimize_stage is 1 while a search computes. *)
StageIsSearch == \A t \in Solvers : Computing(t) => info.stage = 1

(* SpeedPlanMain is past its test only while no search computes. *)
MainAlone == main # "poll" => \A t \in Solvers : ~Computing(t)

(* The stage is set before the thread is created. *)
LaunchStage == main = "create" => info.stage = 1

(* What is about to be launched has passed the error codes. *)
LaunchValid ==
  main \in {"stage", "create"} /\ info.next \in Ids => Validated

(* A thread that is still alive beside a search was overtaken by it. *)
Overtaken ==
  \A t, u \in Solvers :
    Computing(t) /\ u # t /\ solver[u] # "idle" => overlapped

OneSearch == \A t, u \in Solvers : Computing(t) /\ Computing(u) => t = u

ValidSearch ==
  \A t \in Solvers : Computing(t) /\ info.next \in Ids => Validated

BaseOfSearch ==
  \A t \in Solvers :
    Prepared(t) /\ info.begin <= LineLength /\ info.end <= LineLength
      => base = [begin |-> info.begin, end |-> info.end]

WorkOfSearch ==
  \A t \in Solvers :
    Computing(t) /\ solver[t] # "alloc" =>
      work = t \/ (overlapped /\ work = NoOwner)

Undisturbed ==
  /\ StageIsSearch
  /\ MainAlone
  /\ LaunchStage
  /\ LaunchValid
  /\ Overtaken
  /\ OneSearch
  /\ ValidSearch
  /\ BaseOfSearch
  /\ WorkOfSearch

SafeInv == ~interrupted => Undisturbed

(* The conjuncts that speak of the searches and of what they compute on.   *)
(* A step that leaves these variables alone leaves them true.              *)
LEMMA UndisturbedFrame ==
  ASSUME Undisturbed,
         UNCHANGED <<info, main, solver, base, work, overlapped>>
  PROVE  Undisturbed'
BY DEF Undisturbed, StageIsSearch, MainAlone, LaunchStage, LaunchValid,
   Overtaken, OneSearch, ValidSearch, BaseOfSearch, WorkOfSearch, Computing,
   Prepared, Validated

(* The state the threads start in is undisturbed. *)
LEMMA SafeInit == Init => SafeInv
BY DEF Init, NoInfo, SafeInv, Undisturbed, StageIsSearch, MainAlone,
   LaunchStage, LaunchValid, Overtaken, OneSearch, ValidSearch, BaseOfSearch,
   WorkOfSearch, Computing, Prepared

(* A step of SpeedPlanMain.  Only the test of the stage and the launch     *)
(* change what SafeInv says of the searches; in between none computes.     *)
LEMMA MainKeeps ==
  ASSUME TypeOK, Undisturbed, MainStep
  PROVE  Undisturbed'
<1>. USE DEF TypeOK, SolverPcs, Undisturbed, StageIsSearch, MainAlone, LaunchStage, LaunchValid,
       Overtaken, OneSearch, ValidSearch, BaseOfSearch, WorkOfSearch,
       Computing, Prepared, Validated
<1>1. CASE MainPoll
  BY <1>1 DEF MainPoll, ghosts
<1>2. CASE MainCompare
  BY <1>2 DEF MainCompare, ghosts
<1>3. CASE MainBegin
  BY <1>3 DEF MainBegin, ghosts
<1>4. CASE MainNext
  BY <1>4 DEF MainNext, ghosts
<1>5. CASE MainLookup
  <2>. DEFINE here  == CurrentStation(signal.dis, info.current)
              known == info.next \in Ids
              end   == IF here # info.next /\ known THEN Dist[info.next]
                       ELSE info.end
              error == \/ here = info.next
                       \/ known /\ end <= info.begin
                       \/ known /\ info.next = 1
  <2>1. /\ main = "lookup"
        /\ info' = [info EXCEPT !.current = here, !.end = end]
        /\ main' = IF error THEN "poll" ELSE "stage"
        /\ UNCHANGED <<solver, base, work, overlapped>>
    BY <1>5 DEF MainLookup, ghosts
  <2>2. \A t \in Solvers : ~Computing(t)
    BY <2>1
  <2>3. ASSUME main' = "stage", known
        PROVE  here # info.next /\ end = Dist[info.next] /\ info.begin < end
    <3>1. ~error
      BY <2>1, <2>3
    <3>2. end \in Nat /\ info.begin \in Nat
      BY PlanCycleAssumption
    <3>. QED BY <2>3, <3>1, <3>2
  <2>4. info'.next = info.next /\ info'.current = here /\ info'.end = end
        /\ info'.begin = info.begin
    BY <2>1
  <2>5. LaunchValid'
    <3>. HIDE DEF here, end
    <3>. QED BY <2>1, <2>3, <2>4
  <2>6. \A t \in Solvers : ~Computing(t)'
    BY <2>1, <2>2
  <2>7. main' # "create"
    BY <2>1
  <2>. QED BY <2>5, <2>6, <2>7
<1>6. CASE MainStage
  BY <1>6 DEF MainStage, ghosts
<1>7. CASE MainCreate
  <2>1. PICK t \in Solvers : /\ solver[t] = "idle"
                            /\ solver' = [solver EXCEPT ![t] = "alloc"]
    BY <1>7 DEF MainCreate
  <2>2. /\ main = "create" /\ main' = "poll"
        /\ (\E u \in Solvers : solver[u] # "idle") => overlapped'
        /\ UNCHANGED <<info, base, work>>
    BY <1>7 DEF MainCreate
  <2>3. \A u \in Solvers : /\ ~Computing(u)
                          /\ solver'[u] = IF u = t THEN "alloc" ELSE solver[u]
    BY <2>1, <2>2
  <2>4. ASSUME NEW v \in Solvers, NEW u \in Solvers,
               Computing(v)', u # v, solver'[u] # "idle"
        PROVE  overlapped'
    <3>1. v = t
      BY <2>3, <2>4
    <3>2. solver[u] # "idle"
      BY <2>3, <2>4, <3>1
    <3>. QED BY <2>2, <3>2
  <2>5. \A u \in Solvers : Computing(u)' => u = t
    BY <2>3
  <2>6. info.stage = 1 /\ (info.next \in Ids => Validated)
    BY <2>2
  <2>. QED BY <2>1, <2>2, <2>3, <2>4, <2>5, <2>6
<1>8. CASE MainCreateFails
  BY <1>8 DEF MainCreateFails, ghosts
<1>. QED
  BY <1>1, <1>2, <1>3, <1>4, <1>5, <1>6, <1>7, <1>8 DEF MainStep

(* A step of a search, alone by OneSearch while it computes. *)
LEMMA SolverKeeps ==
  ASSUME TypeOK, Undisturbed, NEW t \in Solvers, SolverStep(t)
  PROVE  Undisturbed'
<1>. USE DEF TypeOK, SolverPcs, Undisturbed, StageIsSearch, MainAlone, LaunchStage, LaunchValid,
       Overtaken, OneSearch, ValidSearch, BaseOfSearch, WorkOfSearch,
       Computing, Prepared, Validated
<1>1. CASE SolverAlloc(t)
  BY <1>1 DEF SolverAlloc, Goto, ghosts
<1>2. CASE SolverBase(t)
  BY <1>2 DEF SolverBase, Goto, ghosts
<1>3. CASE SolverSolve(t)
  BY <1>3 DEF SolverSolve, Goto, ghosts
<1>4. CASE SolverStage(t)
  BY <1>4 DEF SolverStage, Goto, ghosts
<1>5. CASE SolverSend(t)
  BY <1>5 DEF SolverSend, Goto, ghosts
<1>6. CASE SolverStation(t)
  BY <1>6 DEF SolverStation, Goto, ghosts
<1>7. CASE SolverFree(t)
  BY <1>7 DEF SolverFree, Goto, ghosts
<1>. QED
  BY <1>1, <1>2, <1>3, <1>4, <1>5, <1>6, <1>7 DEF SolverStep

(* ProgramInit.  If it does not hit a running search then none computes,   *)
(* and SpeedPlanMain has not set the stage for one.                        *)
LEMMA LinkKeeps ==
  ASSUME TypeOK, Undisturbed, NEW l \in Links, LinkStep(l), ~interrupted'
  PROVE  Undisturbed'
<1>1. /\ info.stage # 1
      /\ info' \in {NoInfo, [info EXCEPT !.stage = 2]}
      /\ UNCHANGED <<main, solver, base, work, overlapped>>
  BY DEF LinkStep, LinkClear, LinkStage
<1>2. main # "create" /\ \A t \in Solvers : ~Computing(t)
  BY <1>1 DEF Undisturbed, StageIsSearch, LaunchStage
<1>3. LaunchValid'
  <2>1. CASE info' = NoInfo
    <3>1. info'.next \notin Ids
      BY <2>1, PlanCycleAssumption DEF NoInfo, Ids
    <3>. QED BY <3>1 DEF LaunchValid
  <2>2. CASE info' = [info EXCEPT !.stage = 2]
    BY <1>1, <2>2 DEF TypeOK, Undisturbed, LaunchValid, Validated
  <2>. QED BY <1>1, <2>1, <2>2
<1>. QED
  BY <1>1, <1>2, <1>3 DEF Undisturbed, StageIsSearch, MainAlone, LaunchStage,
     Overtaken, OneSearch, ValidSearch, BaseOfSearch, WorkOfSearch, Computing,
     Prepared

(* The push loop touches nothing but optimize_send_flag. *)
LEMMA PushKeeps ==
  ASSUME TypeOK, Undisturbed, PushStep
  PROVE  Undisturbed'
<1>1. CASE PushCheck
  BY <1>1, UndisturbedFrame DEF PushCheck, ghosts
<1>2. CASE PushClear
  BY <1>2 DEF PushClear, ghosts, TypeOK, Undisturbed, StageIsSearch, MainAlone,
     LaunchStage, LaunchValid, Overtaken, OneSearch, ValidSearch,
     BaseOfSearch, WorkOfSearch, Computing, Prepared, Validated
<1>3. CASE PushPack
  BY <1>3, UndisturbedFrame DEF PushPack
<1>. QED BY <1>1, <1>2, <1>3 DEF PushStep

(* Every step keeps SafeInv. *)
LEMMA SafeStep == TypeOK /\ SafeInv /\ [Next]_vars => SafeInv'
<1>. SUFFICES ASSUME TypeOK, SafeInv, [Next]_vars, ~interrupted'
              PROVE  Undisturbed'
  BY DEF SafeInv
<1>1. ASSUME interrupted PROVE interrupted'
  BY <1>1 DEF Next, MainStep, MainPoll, MainCompare, MainBegin, MainNext,
     MainLookup, MainStage, MainCreate, MainCreateFails, SolverStep,
     SolverAlloc, SolverBase, SolverSolve, SolverStage, SolverSend,
     SolverStation, SolverFree, FeederStep, FeederFields, FeederSumWrong,
     FeederWork, FeederLocate, FeederClearNext, FeederSetNext, BusReadFails,
     LinkStep, LinkClear, LinkStage, PushStep, PushCheck, PushClear, PushPack,
     AppPlan, vars, ghosts
<1>2. Undisturbed
  BY <1>1 DEF SafeInv
<1>3. CASE MainStep
  BY <1>2, <1>3, MainKeeps
<1>4. CASE \E t \in Solvers : SolverStep(t)
  BY <1>2, <1>4, SolverKeeps
<1>5. CASE \E f \in Feeders : FeederStep(f)
  BY <1>2, <1>5, UndisturbedFrame DEF FeederStep, FeederFields,
     FeederSumWrong, FeederWork, FeederLocate, FeederClearNext, FeederSetNext,
     ghosts
<1>6. CASE BusReadFails
  BY <1>2, <1>6, UndisturbedFrame DEF BusReadFails, ghosts
<1>7. CASE \E l \in Links : LinkStep(l)
  BY <1>2, <1>7, LinkKeeps
<1>8. CASE PushStep
  BY <1>2, <1>8, PushKeeps
<1>9. CASE AppPlan
  BY <1>2, <1>9, UndisturbedFrame DEF AppPlan, ghosts
<1>10. CASE UNCHANGED vars
  BY <1>2, <1>10, UndisturbedFrame DEF vars
<1>. QED
  BY <1>3, <1>4, <1>5, <1>6, <1>7, <1>8, <1>9, <1>10 DEF Next

(* The inductive invariant holds in every reachable state. *)
LEMMA Safe == Spec => []SafeInv
<1>1. TypeOK /\ SafeInv /\ TypeOK' /\ [Next]_vars => SafeInv'
  BY SafeStep
<1>. QED BY <1>1, SafeInit, TypeCorrect, PTL DEF Spec

-----------------------------------------------------------------------------
(* What follows from it *)

(* optimize_stage, tested and set by different threads with no lock, keeps *)
(* two searches from running at once, for any number of threads, unless    *)
(* ProgramInit resets it under a running one.                              *)
THEOREM OnlyOneSearch == Spec => []SoleSearch
<1>1. SafeInv => SoleSearch
  BY DEF SafeInv, Undisturbed, OneSearch, SoleSearch
<1>. QED BY <1>1, Safe, PTL

(* The interval of a search passed the error codes of SpeedPlanMain and    *)
(* stays what it was then until the search ends.                           *)
THEOREM ValidatedSearch == Spec => []SearchIsValidated
<1>1. SafeInv => SearchIsValidated
  BY DEF SafeInv, Undisturbed, ValidSearch, SearchIsValidated
<1>. QED BY <1>1, Safe, PTL

(* The preparation globals hold the interval that the recommendation is    *)
(* later offset by.                                                        *)
THEOREM BaseOfTheInterval == Spec => []BaseIsInterval
<1>1. SafeInv => BaseIsInterval
  BY DEF SafeInv, Undisturbed, BaseOfSearch, BaseIsInterval
<1>. QED BY <1>1, Safe, PTL

(* The work arrays of a search are never those of another: at worst they   *)
(* were freed by a search it overtook.                                     *)
THEOREM WorkOfTheSearch == Spec => []SearchOwnsWork
<1>1. SafeInv => SearchOwnsWork
  BY DEF SafeInv, Undisturbed, WorkOfSearch, SearchOwnsWork
<1>. QED BY <1>1, Safe, PTL

(* The profile is given out only while no search writes it: only           *)
(* SpeedPlanOffline and ProgramInit write the curve, and the first does it *)
(* under optimize_stage = 1.                                               *)
THEOREM CurveStable == Spec => CurveStableWhenServed
<1>1. SafeInv /\ [Next]_vars
        => [Served /\ ~interrupted => curve' \in {curve, NoInterval}]_vars
  <2>. SUFFICES ASSUME SafeInv, Next, Served, ~interrupted
                PROVE  curve' \in {curve, NoInterval}
    OBVIOUS
  <2>1. \A t \in Solvers : ~Computing(t)
    <3>1. StageIsSearch
      BY DEF SafeInv, Undisturbed
    <3>2. info.stage # 1
      BY DEF Served
    <3>. QED BY <3>1, <3>2 DEF StageIsSearch
  <2>2. CASE MainStep
    BY <2>2 DEF MainStep, MainPoll, MainCompare, MainBegin, MainNext,
       MainLookup, MainStage, MainCreate, MainCreateFails
  <2>3. ASSUME NEW t \in Solvers, SolverStep(t) PROVE curve' = curve
    BY <2>1, <2>3 DEF SolverStep, SolverAlloc, SolverBase, SolverSolve,
       SolverStage, SolverSend, SolverStation, SolverFree, Computing
  <2>4. ASSUME NEW f \in Feeders, FeederStep(f) PROVE curve' = curve
    BY <2>4 DEF FeederStep, FeederFields, FeederSumWrong, FeederWork,
       FeederLocate, FeederClearNext, FeederSetNext
  <2>5. CASE BusReadFails \/ PushStep \/ AppPlan
    BY <2>5 DEF BusReadFails, PushStep, PushCheck, PushClear, PushPack, AppPlan
  <2>6. ASSUME NEW l \in Links, LinkStep(l)
        PROVE  curve' \in {curve, NoInterval}
    BY <2>6 DEF LinkStep, LinkClear, LinkStage
  <2>. QED BY <2>2, <2>3, <2>4, <2>5, <2>6 DEF Next
<1>. QED BY <1>1, Safe, PTL DEF Spec, CurveStableWhenServed

-----------------------------------------------------------------------------
(* Results with an invariant of their own *)

(* Planning is blocked by optimize_stage = 1 only while a search will      *)
(* reset it, or for good after a failed pthread_create; no ProgramInit and *)
(* no message can leave the stage at 1 behind.                             *)
THEOREM StageOfASearch == Spec => []StageHasSearch
<1>1. Init => StageHasSearch
  BY DEF Init, NoInfo, StageHasSearch
<1>2. TypeOK /\ StageHasSearch /\ [Next]_vars => StageHasSearch'
  <2>. SUFFICES ASSUME TypeOK, StageHasSearch, [Next]_vars
                PROVE  StageHasSearch'
    OBVIOUS
  <2>. USE DEF StageHasSearch, Computing
  <2>1. CASE MainStep
    BY <2>1 DEF MainStep, MainPoll, MainCompare, MainBegin, MainNext,
       MainLookup, MainStage, MainCreate, MainCreateFails, TypeOK, ghosts
  <2>2. ASSUME NEW t \in Solvers, SolverStep(t) PROVE StageHasSearch'
    BY <2>2 DEF SolverStep, SolverAlloc, SolverBase, SolverSolve, SolverStage,
       SolverSend, SolverStation, SolverFree, Goto, TypeOK, ghosts
  <2>3. ASSUME NEW f \in Feeders, FeederStep(f) PROVE StageHasSearch'
    <3>1. UNCHANGED <<info, main, solver, createFailed>>
      BY <2>3 DEF FeederStep, FeederFields, FeederSumWrong, FeederWork,
         FeederLocate, FeederClearNext, FeederSetNext, ghosts
    <3>. QED BY <3>1
  <2>4. CASE BusReadFails \/ AppPlan \/ UNCHANGED vars
    BY <2>4 DEF BusReadFails, AppPlan, vars, ghosts
  <2>5. CASE \E l \in Links : LinkStep(l)
    BY <2>5 DEF LinkStep, LinkClear, LinkStage, NoInfo, TypeOK
  <2>6. CASE PushStep
    BY <2>6 DEF PushStep, PushCheck, PushClear, PushPack, TypeOK, ghosts
  <2>. QED BY <2>1, <2>2, <2>3, <2>4, <2>5, <2>6 DEF Next
<1>. QED BY <1>1, <1>2, TypeCorrect, PTL DEF Spec

(* Without TCP clients a published curve stays flagged until the push loop *)
(* is about to pack it: clearing the flag first loses nothing.             *)
THEOREM FlagOfTheUnsent ==
  ASSUME Links = {}
  PROVE  Spec => []UnsentIsFlagged
<1>1. Init => UnsentIsFlagged
  BY DEF Init, UnsentIsFlagged
<1>2. TypeOK /\ UnsentIsFlagged /\ [Next]_vars => UnsentIsFlagged'
  <2>. SUFFICES ASSUME TypeOK, UnsentIsFlagged, [Next]_vars
                PROVE  UnsentIsFlagged'
    OBVIOUS
  <2>. USE DEF UnsentIsFlagged
  <2>1. CASE MainStep
    BY <2>1 DEF MainStep, MainPoll, MainCompare, MainBegin, MainNext,
       MainLookup, MainStage, MainCreate, MainCreateFails, TypeOK, ghosts
  <2>2. ASSUME NEW t \in Solvers, SolverStep(t) PROVE UnsentIsFlagged'
    BY <2>2 DEF SolverStep, SolverAlloc, SolverBase, SolverSolve, SolverStage,
       SolverSend, SolverStation, SolverFree, TypeOK, ghosts
  <2>3. CASE \E f \in Feeders : FeederStep(f)
    BY <2>3 DEF FeederStep, FeederFields, FeederSumWrong, FeederWork,
       FeederLocate, FeederClearNext, FeederSetNext, ghosts
  <2>4. CASE BusReadFails \/ AppPlan \/ UNCHANGED vars
    BY <2>4 DEF BusReadFails, AppPlan, vars, ghosts
  <2>5. CASE PushStep
    BY <2>5 DEF PushStep, PushCheck, PushClear, PushPack, TypeOK, ghosts
  <2>. QED BY <2>1, <2>2, <2>3, <2>4, <2>5 DEF Next
<1>. QED BY <1>1, <1>2, TypeCorrect, PTL DEF Spec

-----------------------------------------------------------------------------
(* The planner is what one thread would be *)

(* SpeedPlanMain works on the interval only while nothing is on order. *)
NothingOnOrder == main \notin {"poll", "create"} => info.stage # 1

LEMMA NothingOnOrderHolds == Spec => []NothingOnOrder
<1>1. Init => NothingOnOrder
  BY DEF Init, NothingOnOrder
<1>2. TypeOK /\ NothingOnOrder /\ [Next]_vars => NothingOnOrder'
  <2>. SUFFICES ASSUME TypeOK, NothingOnOrder, [Next]_vars PROVE NothingOnOrder'
    OBVIOUS
  <2>. USE DEF NothingOnOrder
  <2>1. CASE MainStep
    <3>1. CASE MainLookup
      <4>1. main = "lookup" /\ info'.stage = info.stage
        BY <3>1 DEF MainLookup, TypeOK
      <4>. QED BY <4>1
    <3>2. CASE ~MainLookup
      BY <2>1, <3>2 DEF MainStep, MainPoll, MainCompare, MainBegin, MainNext, MainStage,
         MainCreate, MainCreateFails, TypeOK
    <3>. QED BY <3>1, <3>2
  <2>2. ASSUME NEW t \in Solvers, SolverStep(t) PROVE NothingOnOrder'
    BY <2>2 DEF SolverStep, SolverAlloc, SolverBase, SolverSolve, SolverStage, SolverSend,
       SolverStation, SolverFree, TypeOK
  <2>3. ASSUME NEW f \in Feeders, FeederStep(f) PROVE NothingOnOrder'
    BY <2>3 DEF FeederStep, FeederFields, FeederSumWrong, FeederWork, FeederLocate,
       FeederClearNext, FeederSetNext
  <2>4. CASE BusReadFails \/ AppPlan \/ UNCHANGED vars
    BY <2>4 DEF BusReadFails, AppPlan, vars
  <2>5. CASE \E l \in Links : LinkStep(l)
    BY <2>5 DEF LinkStep, LinkClear, LinkStage, NoInfo, TypeOK
  <2>6. CASE PushStep
    BY <2>6 DEF PushStep, PushCheck, PushClear, PushPack, TypeOK
  <2>. QED BY <2>1, <2>2, <2>3, <2>4, <2>5, <2>6 DEF Next
<1>. QED BY <1>1, <1>2, TypeCorrect, PTL DEF Spec

(* What is on order is of its type, and depends on these two only. *)
LEMMA OrderIs ==
  /\ info.stage # 1 <=> Order = Service!NoOrder
  /\ UNCHANGED <<info.stage, info.begin, info.end, info.next, solver>> => Order' = Order
<1>1. info.stage # 1 => Order = Service!NoOrder
  BY DEF Order, Service!NoOrder
<1>2. info.stage = 1 => Order.stage \in {"prepared", "computed", "taken"}
  BY DEF Order
<1>3. Service!NoOrder.stage = "none"
  BY DEF Service!NoOrder
<1>4. UNCHANGED <<info.stage, info.begin, info.end, info.next, solver>> => Order' = Order
  BY DEF Order
<1>. QED BY <1>1, <1>2, <1>3, <1>4

(* A step of SpeedPlanMain takes an order or changes nothing of one. *)
LEMMA MainImplements ==
  ASSUME TypeOK, Undisturbed, NothingOnOrder, ~interrupted, MainStep
  PROVE  Service!Next \/ UNCHANGED <<Order, base, curve, interrupted>>
<1>. USE DEF NothingOnOrder
<1>1. CASE MainPoll \/ MainCompare \/ MainCreateFails
  <2>1. UNCHANGED <<info, solver, base, curve, interrupted>>
    BY <1>1 DEF MainPoll, MainCompare, MainCreateFails, ghosts
  <2>. QED BY <2>1, OrderIs
<1>2. CASE MainBegin \/ MainNext \/ MainLookup
  <2>1. info.stage # 1 /\ info'.stage = info.stage /\ UNCHANGED <<solver, base, curve, interrupted>>
    BY <1>2 DEF MainBegin, MainNext, MainLookup, ghosts, TypeOK
  <2>2. Order = Service!NoOrder /\ Order' = Service!NoOrder
    BY <2>1 DEF Order, Service!NoOrder
  <2>. QED BY <2>1, <2>2
<1>3. CASE MainStage
  <2>1. /\ main = "stage" /\ info' = [info EXCEPT !.stage = 1] /\ main' = "create"
        /\ UNCHANGED <<solver, base, curve, interrupted>>
    BY <1>3 DEF MainStage, ghosts
  <2>2. \A t \in Solvers : solver[t] # "solve" /\ solver[t] # "stage"
    BY <2>1 DEF Undisturbed, MainAlone, Computing
  <2>3. /\ info'.stage = 1 /\ info'.begin = info.begin /\ info'.end = info.end /\ info'.next = info.next
        /\ info.begin \in Nat /\ info.end \in Nat /\ info.next \in Nat
    BY <2>1 DEF TypeOK
  <2>4. Order = Service!NoOrder
    BY <2>1 DEF Order, Service!NoOrder
  <2>5. Order' = [stage |-> "taken", begin |-> info.begin, end |-> info.end, next |-> info.next]
    BY <2>1, <2>2, <2>3 DEF Order
  <2>6. Order' \in Service!Orders("taken")
    BY <2>3, <2>5 DEF Service!Orders
  <2>7. Service!Forward(Order')
    <3>1. DOMAIN Dist = Ids
      BY PlanCycleAssumption
    <3>2. info.next \in Ids => info.end = Dist[info.next] /\ info.begin < info.end
      BY <2>1 DEF Undisturbed, LaunchValid, Validated
    <3>. QED BY <2>5, <3>1, <3>2 DEF Service!Forward
  <2>. QED BY <2>1, <2>4, <2>6, <2>7 DEF Service!Next, Service!Take
<1>4. CASE MainCreate
  <2>1. PICK t \in Solvers : solver[t] = "idle" /\ solver' = [solver EXCEPT ![t] = "alloc"]
    BY <1>4 DEF MainCreate
  <2>2. UNCHANGED <<info, base, curve, interrupted>>
    BY <1>4 DEF MainCreate
  <2>3. \A pc \in {"solve", "stage"} : (\E u \in Solvers : solver'[u] = pc) <=> (\E u \in Solvers : solver[u] = pc)
    BY <2>1 DEF TypeOK
  <2>4. Order' = Order
    BY <2>2, <2>3 DEF Order
  <2>. QED BY <2>2, <2>4
<1>. QED BY <1>1, <1>2, <1>3, <1>4 DEF MainStep

(* The search that computes is the one on order. *)
LEMMA SolverImplements ==
  ASSUME TypeOK, Undisturbed, ~interrupted, NEW t \in Solvers, SolverStep(t)
  PROVE  Service!Next \/ UNCHANGED <<Order, base, curve, interrupted>>
<1>1. ASSUME Computing(t) PROVE info.stage = 1 /\ \A u \in Solvers : u # t => ~Computing(u)
  BY <1>1 DEF Undisturbed, StageIsSearch, OneSearch
<1>2. CASE SolverAlloc(t)
  <2>1. solver' = [solver EXCEPT ![t] = "base"] /\ solver[t] = "alloc"
        /\ UNCHANGED <<info, base, curve, interrupted>>
    BY <1>2 DEF SolverAlloc, Goto, ghosts
  <2>2. \A pc \in {"solve", "stage"} : (\E u \in Solvers : solver'[u] = pc) <=> (\E u \in Solvers : solver[u] = pc)
    BY <2>1 DEF TypeOK
  <2>. QED BY <2>1, <2>2 DEF Order
<1>3. CASE SolverBase(t)
  <2>1. /\ solver[t] = "base" /\ solver' = [solver EXCEPT ![t] = "solve"]
        /\ base' = IF info.begin <= LineLength /\ info.end <= LineLength
                   THEN [begin |-> info.begin, end |-> info.end] ELSE base
        /\ UNCHANGED <<info, curve, interrupted>>
    BY <1>3 DEF SolverBase, Goto, ghosts
  <2>2. /\ info.stage = 1 /\ solver'[t] = "solve"
        /\ \A u \in Solvers : solver[u] # "solve" /\ solver[u] # "stage"
    BY <1>1, <2>1 DEF Computing, TypeOK
  <2>3. Order = [stage |-> "taken", begin |-> info.begin, end |-> info.end, next |-> info.next]
    BY <2>2 DEF Order
  <2>4. Order' = [stage |-> "prepared", begin |-> info.begin, end |-> info.end, next |-> info.next]
    BY <2>1, <2>2 DEF Order
  <2>. QED BY <2>1, <2>3, <2>4 DEF Service!Next, Service!Prepare
<1>4. CASE SolverSolve(t)
  <2>1. /\ solver[t] = "solve" /\ solver' = [solver EXCEPT ![t] = "stage"] /\ curve' = base
        /\ UNCHANGED <<info, base, interrupted>>
    BY <1>4 DEF SolverSolve, Goto, ghosts
  <2>2. /\ info.stage = 1 /\ solver'[t] = "stage"
        /\ \A u \in Solvers : solver'[u] # "solve"
    BY <1>1, <2>1 DEF Computing, TypeOK
  <2>3. Order = [stage |-> "prepared", begin |-> info.begin, end |-> info.end, next |-> info.next]
    BY <2>1, <2>2 DEF Order
  <2>4. Order' = [stage |-> "computed", begin |-> info.begin, end |-> info.end, next |-> info.next]
    BY <2>1, <2>2 DEF Order
  <2>. QED BY <2>1, <2>3, <2>4 DEF Service!Next, Service!Compute
<1>5. CASE SolverStage(t)
  <2>1. /\ solver[t] = "stage" /\ info' = [info EXCEPT !.stage = 2]
        /\ UNCHANGED <<base, curve, interrupted>>
    BY <1>5 DEF SolverStage, ghosts
  <2>2. /\ info.stage = 1 /\ info'.stage = 2
        /\ \A u \in Solvers : solver[u] # "solve"
    BY <1>1, <2>1 DEF Computing, TypeOK
  <2>3. Order.stage = "computed"
    BY <2>1, <2>2 DEF Order
  <2>4. Order' = Service!NoOrder
    BY <2>2 DEF Order, Service!NoOrder
  <2>. QED BY <2>1, <2>3, <2>4 DEF Service!Next, Service!Announce
<1>6. CASE SolverSend(t) \/ SolverStation(t) \/ SolverFree(t)
  <2>1. /\ UNCHANGED <<info.stage, info.begin, info.end, info.next, base, curve, interrupted>>
        /\ solver[t] \in {"send", "station", "free"}
        /\ \E pc \in {"station", "free", "idle"} : solver' = [solver EXCEPT ![t] = pc]
    BY <1>6 DEF SolverSend, SolverStation, SolverFree, Goto, ghosts, TypeOK
  <2>2. \A pc \in {"solve", "stage"} : (\E u \in Solvers : solver'[u] = pc) <=> (\E u \in Solvers : solver[u] = pc)
    BY <2>1 DEF TypeOK
  <2>3. Order' = Order
    BY <2>1, <2>2 DEF Order
  <2>. QED BY <2>1, <2>3
<1>. QED BY <1>2, <1>3, <1>4, <1>5, <1>6 DEF SolverStep

(* ProgramInit withdraws the curve, or interrupts what is on order. *)
LEMMA LinkImplements ==
  ASSUME TypeOK, ~interrupted, NEW l \in Links, LinkStep(l)
  PROVE  Service!Next \/ UNCHANGED <<Order, base, curve, interrupted>>
<1>1. CASE info.stage = 1
  <2>1. interrupted'
    BY <1>1 DEF LinkStep, LinkClear, LinkStage
  <2>2. interrupted' = TRUE
    <3>1. interrupted' \in BOOLEAN
      BY DEF LinkStep, LinkClear, LinkStage, TypeOK
    <3>. QED BY <2>1, <3>1
  <2>3. Order # Service!NoOrder
    BY <1>1, OrderIs
  <2>. QED BY <2>2, <2>3 DEF Service!Next, Service!Interrupt
<1>2. CASE info.stage # 1
  <2>1. info'.stage # 1 /\ curve' \in {curve, Service!NoInterval} /\ UNCHANGED <<base, interrupted>>
    BY <1>2 DEF LinkStep, LinkClear, LinkStage, NoInfo, NoInterval, Service!NoInterval, TypeOK
  <2>2. Order = Service!NoOrder /\ Order' = Service!NoOrder
    BY <1>2, <2>1 DEF Order, Service!NoOrder
  <2>. QED BY <2>1, <2>2 DEF Service!Next, Service!Withdraw
<1>. QED BY <1>1, <1>2

(* The planner implements the planner of one thread, for any number of     *)
(* threads that search, unpack and serve, and any line: until ProgramInit  *)
(* interrupts it nothing of an order changes while it is on, and the curve *)
(* is replaced at one point of each order and at no other time.            *)
THEOREM ImplementsService == Spec => IsPlanService
<1>1. Init => Service!Init
  BY DEF Init, NoInfo, NoInterval, Order, Service!Init, Service!NoOrder, Service!NoInterval
<1>2. TypeOK /\ SafeInv /\ NothingOnOrder /\ [Next]_vars
        => [Service!Next]_<<Order, base, curve, interrupted>>
  <2>. SUFFICES ASSUME TypeOK, SafeInv, NothingOnOrder, [Next]_vars
                PROVE  Service!Next \/ UNCHANGED <<Order, base, curve, interrupted>>
    OBVIOUS
  <2>1. CASE interrupted
    <3>1. interrupted' = TRUE
      BY <2>1 DEF Next, MainStep, MainPoll, MainCompare, MainBegin, MainNext,
         MainLookup, MainStage, MainCreate, MainCreateFails, SolverStep,
         SolverAlloc, SolverBase, SolverSolve, SolverStage, SolverSend,
         SolverStation, SolverFree, FeederStep, FeederFields, FeederSumWrong,
         FeederWork, FeederLocate, FeederClearNext, FeederSetNext, BusReadFails,
         LinkStep, LinkClear, LinkStage, PushStep, PushCheck, PushClear, PushPack,
         AppPlan, vars, ghosts, TypeOK
    <3>. QED BY <2>1, <3>1 DEF Service!Next, Service!Interrupt
  <2>2. CASE ~interrupted
    <3>1. Undisturbed
      BY <2>2 DEF SafeInv
    <3>2. CASE MainStep
      BY <2>2, <3>1, <3>2, MainImplements
    <3>3. CASE \E t \in Solvers : SolverStep(t)
      BY <2>2, <3>1, <3>3, SolverImplements
    <3>4. CASE \/ \E f \in Feeders : FeederStep(f)
               \/ BusReadFails \/ PushStep \/ AppPlan \/ UNCHANGED vars
      <4>1. UNCHANGED <<info.stage, info.begin, info.end, info.next, solver, base, curve, interrupted>>
        BY <3>4 DEF FeederStep, FeederFields, FeederSumWrong, FeederWork, FeederLocate,
           FeederClearNext, FeederSetNext, BusReadFails, PushStep, PushCheck, PushClear,
           PushPack, AppPlan, vars, ghosts, TypeOK
      <4>. QED BY <4>1, OrderIs
    <3>5. CASE \E l \in Links : LinkStep(l)
      BY <2>2, <3>5, LinkImplements
    <3>. QED BY <3>2, <3>3, <3>4, <3>5 DEF Next
  <2>. QED BY <2>1, <2>2
<1>. QED
  BY <1>1, <1>2, TypeCorrect, Safe, NothingOnOrderHolds, PTL DEF Spec, IsPlanService, Service!Spec
=============================================================================
