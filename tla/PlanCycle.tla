----------------------------- MODULE PlanCycle -----------------------------
(***************************************************************************)
(* The planning cycle of the controller: the threads that share            *)
(* g_period_msg_from_signal, g_speed_plan_info and the speed curve with no *)
(* lock between them.                                                      *)
(*                                                                         *)
(*   main loop   SpeedPlanMain, once a second           (main.c:105-110)   *)
(*   solvers     SpeedPlanOffline, one thread a launch  (SpeedPlan.c:139)  *)
(*   feeders     UnpackePeriodMsgFromCAN, run by the CAN thread and by     *)
(*               every TCP handler (can.c:844, socket.c:163-277)           *)
(*   links       the TCP threads that call ProgramInit when a client joins *)
(*               or leaves                              (socket.c:27-38)   *)
(*   push loop   WebSocketServer's check of optimize_send_flag             *)
(*               (WebServer.c:573-591)                                     *)
(*   the APP     message 105, a new stopping plan (WebServer.c:1258-1274)  *)
(*                                                                         *)
(* A step is a run of statements between two accesses that another thread  *)
(* can interleave with.  Distances are in units of the location tolerance  *)
(* and the speed profile is known by the interval it was computed for.     *)
(* g_direction is DIRECTION_DOWN from the start and its only writer sets   *)
(* it again (can.c:247), so the UP branches are never taken and are left   *)
(* out.  plan_refresh_flag is 1 from start-up and never cleared.           *)
(***************************************************************************)
EXTENDS Integers, Sequences

CONSTANTS
  Solvers,    \* threads available to run SpeedPlanOffline
  Feeders,    \* threads that unpack train messages
  Can,        \* the feeder that is the CAN thread
  Links,      \* TCP threads that run ProgramInit
  Stations,   \* the station table has the ids 1..Stations, in line order
  Dist,       \* begin_distance of each station
  Near,       \* an error below Near means "at the station" (200 m)
  LineLength, \* line_length of the static data
  MaxDis,     \* bound of the model: the train does not go further
  Readings,   \* the door and speed readings a message may carry
  Plans,      \* the stopping plans the APP may send; see PlanShape
  NoOwner     \* the work pointers hold no live allocation

Ids == 1..Stations

PlanShape == [direction: {"down", "up"},
              stops: Seq([id: Nat, dis: Nat, jump: BOOLEAN])]

ASSUME PlanCycleAssumption ==
  /\ Stations \in Nat \ {0}
  /\ Dist \in [Ids -> Nat]
  /\ Near \in Nat
  /\ LineLength \in Nat
  /\ MaxDis \in Nat
  /\ Readings \subseteq {0, 1} \X {0, 1}
  /\ Plans \subseteq PlanShape
  /\ Plans # {}
  /\ NoOwner \notin Solvers
  /\ Can \in Feeders

VARIABLES
  signal,       \* g_period_msg_from_signal: door (0 open), speed, dis, next
  plan,         \* g_plan_config_info
  info,         \* g_speed_plan_info
  main,         \* where SpeedPlanMain is
  feeder,       \* where each unpacking of a message is, and its current_dis
  solver,       \* where each SpeedPlanOffline is
  base,         \* the interval the preparation globals hold
  curve,        \* the interval g_speed_curve_offline was computed for
  work,         \* whose allocation the global work pointers hold
  link,         \* where each ProgramInit is
  push,         \* where the push loop is
  interrupted,  \* history: ProgramInit hit a running optimisation
  overlapped,   \* history: a search was launched before the last had freed
  createFailed, \* history: pthread_create failed after stage was set
  pending       \* history: a published curve no message 205 has packed

(* The history variables: no action reads them. *)
ghosts == <<interrupted, overlapped, createFailed, pending>>

vars == <<signal, plan, info, main, feeder, solver, base, curve, work, link,
          push, interrupted, overlapped, createFailed, pending>>

Interval == [begin: Nat, end: Nat]
NoInterval == [begin |-> 0, end |-> 0]

(* memset of g_period_msg_from_signal: door_flag 0 reads as "open". *)
NoSignal == [door |-> 0, speed |-> 0, dis |-> 0, next |-> 0]

(* memset of g_speed_plan_info, before line 34 sets optimize_stage. *)
NoInfo == [begin |-> 0, end |-> 0, current |-> 0, next |-> 0,
           stage |-> 0, send |-> 0, station |-> 0]

MainPcs == {"poll", "compare", "begin", "next", "lookup", "stage", "create"}
SolverPcs ==
  {"idle", "alloc", "base", "solve", "stage", "send", "station", "free"}

TypeOK ==
  /\ signal \in [door: {0, 1}, speed: {0, 1}, dis: Nat, next: Nat]
  /\ plan \in Plans
  /\ info \in [begin: Nat, end: Nat, current: Ids \cup {0},
               next: Nat, stage: {0, 1, 2}, send: {0, 1}, station: Nat]
  /\ main \in MainPcs
  /\ feeder \in [Feeders -> [pc: {"idle", "sum", "plan", "next"}, dis: Nat]]
  /\ solver \in [Solvers -> SolverPcs]
  /\ base \in Interval
  /\ curve \in Interval
  /\ work \in Solvers \cup {NoOwner}
  /\ link \in [Links -> {"idle", "stage"}]
  /\ push \in {"idle", "clear", "pack"}
  /\ interrupted \in BOOLEAN
  /\ overlapped \in BOOLEAN
  /\ createFailed \in BOOLEAN
  /\ pending \in BOOLEAN

(* main.c runs ProgramInit once before it creates a thread. *)
Init ==
  /\ signal = NoSignal
  /\ plan \in Plans
  /\ info = [NoInfo EXCEPT !.stage = 2]
  /\ main = "poll"
  /\ feeder = [f \in Feeders |-> [pc |-> "idle", dis |-> 0]]
  /\ solver = [t \in Solvers |-> "idle"]
  /\ base = NoInterval
  /\ curve = NoInterval
  /\ work = NoOwner
  /\ link = [l \in Links |-> "idle"]
  /\ push = "idle"
  /\ interrupted = FALSE
  /\ overlapped = FALSE
  /\ createFailed = FALSE
  /\ pending = FALSE

-----------------------------------------------------------------------------
(* SpeedPlanMain *)

Abs(x) == IF x < 0 THEN -x ELSE x

(* The stations a train at d is at, by the tolerance of the code. *)
At(d) == {s \in Ids : Abs(Dist[s] - d) < Near}

(* The scan of lines 61-69: the first station in reach, or the old value. *)
CurrentStation(d, old) ==
  IF At(d) = {} THEN old
  ELSE CHOOSE s \in At(d) : \A r \in At(d) : s <= r

(* Mutant: line 49 without its test of optimize_stage. *)
MainPollAnyStage ==
  /\ main = "poll"
  /\ signal.door = 0
  /\ signal.next # 0
  /\ main' = "compare"
  /\ UNCHANGED <<signal, plan, info, feeder, solver, base, curve, work, link,
                 push, ghosts>>

(* Mutant: the begin of the interval is refreshed before the test. *)
MainPollRefreshing ==
  /\ main = "poll"
  /\ info' = [info EXCEPT !.begin = signal.dis]
  /\ main' = IF signal.door = 0 /\ info.stage = 2 /\ signal.next # 0
             THEN "compare" ELSE "poll"
  /\ UNCHANGED <<signal, plan, feeder, solver, base, curve, work, link, push,
                 ghosts>>

(* Line 49 reads next_station_id twice: this is the test up to "!= 0".     *)
MainPoll ==
  /\ main = "poll"
  /\ signal.door = 0
  /\ info.stage = 2
  /\ signal.next # 0
  /\ main' = "compare"
  /\ UNCHANGED <<signal, plan, info, feeder, solver, base, curve, work, link,
                 push, ghosts>>

(* The second read, against the station of the last optimisation. *)
MainCompare ==
  /\ main = "compare"
  /\ main' = IF info.station # signal.next THEN "begin" ELSE "poll"
  /\ UNCHANGED <<signal, plan, info, feeder, solver, base, curve, work, link,
                 push, ghosts>>

(* Line 57: the interval begins where the head of the train is. *)
MainBegin ==
  /\ main = "begin"
  /\ info' = [info EXCEPT !.begin = signal.dis]
  /\ main' = "next"
  /\ UNCHANGED <<signal, plan, feeder, solver, base, curve, work, link, push,
                 ghosts>>

(* Line 59: a third read of next_station_id, into the plan. *)
MainNext ==
  /\ main = "next"
  /\ info' = [info EXCEPT !.next = signal.next]
  /\ main' = "lookup"
  /\ UNCHANGED <<signal, plan, feeder, solver, base, curve, work, link, push,
                 ghosts>>

(* Mutant: no error code 1. *)
MainLookupAtStation ==
  /\ main = "lookup"
  /\ LET known == info.next \in Ids
         end   == IF known THEN Dist[info.next] ELSE info.end
     IN /\ info' = [info EXCEPT !.current = CurrentStation(signal.dis, @),
                                !.end = end]
        /\ main' = IF known /\ (end <= info.begin \/ info.next = 1)
                   THEN "poll" ELSE "stage"
  /\ UNCHANGED <<signal, plan, feeder, solver, base, curve, work, link, push,
                 ghosts>>

(* Lines 61-126.  An id that is not in the table flags no error and leaves *)
(* the interval end as it was.                                             *)
MainLookup ==
  /\ main = "lookup"
  /\ LET here  == CurrentStation(signal.dis, info.current)
         known == info.next \in Ids
         end   == IF here # info.next /\ known THEN Dist[info.next]
                  ELSE info.end
         error == \/ here = info.next
                  \/ known /\ end <= info.begin
                  \/ known /\ info.next = 1
     IN /\ info' = [info EXCEPT !.current = here, !.end = end]
        /\ main' = IF error THEN "poll" ELSE "stage"
  /\ UNCHANGED <<signal, plan, feeder, solver, base, curve, work, link, push,
                 ghosts>>

(* Mutant: optimize_stage is left as it is. *)
MainStageForgotten ==
  /\ main = "stage"
  /\ main' = "create"
  /\ UNCHANGED <<signal, plan, info, feeder, solver, base, curve, work, link,
                 push, ghosts>>

(* Mutant: a launch withdraws the flag of the curve before it. *)
MainStageUnflags ==
  /\ main = "stage"
  /\ info' = [info EXCEPT !.stage = 1, !.send = 0]
  /\ main' = "create"
  /\ UNCHANGED <<signal, plan, feeder, solver, base, curve, work, link, push,
                 ghosts>>

(* Line 136. *)
MainStage ==
  /\ main = "stage"
  /\ info' = [info EXCEPT !.stage = 1]
  /\ main' = "create"
  /\ UNCHANGED <<signal, plan, feeder, solver, base, curve, work, link, push,
                 ghosts>>

(* Lines 139-142: a failure is printed and nothing is undone. *)
MainCreate ==
  /\ main = "create"
  /\ \E t \in Solvers :
       /\ solver[t] = "idle"
       /\ solver' = [solver EXCEPT ![t] = "alloc"]
  /\ main' = "poll"
  /\ overlapped' = (overlapped \/ \E t \in Solvers : solver[t] # "idle")
  /\ UNCHANGED <<signal, plan, info, feeder, base, curve, work, link, push,
                 interrupted, createFailed, pending>>

MainCreateFails ==
  /\ main = "create"
  /\ main' = "poll"
  /\ createFailed' = TRUE
  /\ UNCHANGED <<signal, plan, info, feeder, solver, base, curve, work, link,
                 push, interrupted, overlapped, pending>>

-----------------------------------------------------------------------------
(* SpeedPlanOffline *)

Goto(t, pc) == solver' = [solver EXCEPT ![t] = pc]

(* Lines 159-170: the twelve work arrays hang on global pointers. *)
SolverAlloc(t) ==
  /\ solver[t] = "alloc"
  /\ work' = t
  /\ Goto(t, "base")
  /\ UNCHANGED <<signal, plan, info, main, feeder, base, curve, link, push,
                 ghosts>>

(* Mutant: the search is announced when its data are ready. *)
SolverBaseAnnounces(t) ==
  /\ solver[t] = "base"
  /\ base' = [begin |-> info.begin, end |-> info.end]
  /\ info' = [info EXCEPT !.stage = 2]
  /\ Goto(t, "solve")
  /\ UNCHANGED <<signal, plan, main, feeder, curve, work, link, push, ghosts>>

(* GetBaseDataReady: on an interval off the line it changes nothing, and   *)
(* its caller ignores that it said so.                                     *)
SolverBase(t) ==
  /\ solver[t] = "base"
  /\ base' = IF info.begin <= LineLength /\ info.end <= LineLength
             THEN [begin |-> info.begin, end |-> info.end]
             ELSE base
  /\ Goto(t, "solve")
  /\ UNCHANGED <<signal, plan, info, main, feeder, curve, work, link, push,
                 ghosts>>

(* Mutant: the work arrays are freed as soon as the curve is copied. *)
SolverSolveFrees(t) ==
  /\ solver[t] = "solve"
  /\ curve' = base
  /\ work' = NoOwner
  /\ Goto(t, "stage")
  /\ UNCHANGED <<signal, plan, info, main, feeder, base, link, push, ghosts>>

(* Lines 174-198: the search, and DivideStageByOptimizeSpeed, which copies *)
(* the winner into the arrays the other threads read.                      *)
SolverSolve(t) ==
  /\ solver[t] = "solve"
  /\ curve' = base
  /\ Goto(t, "stage")
  /\ UNCHANGED <<signal, plan, info, main, feeder, base, work, link, push,
                 ghosts>>

(* Mutant: the end of the search is not announced. *)
SolverStageForgotten(t) ==
  /\ solver[t] = "stage"
  /\ Goto(t, "send")
  /\ UNCHANGED <<signal, plan, info, main, feeder, base, curve, work, link,
                 push, ghosts>>

(* Line 199. *)
SolverStage(t) ==
  /\ solver[t] = "stage"
  /\ info' = [info EXCEPT !.stage = 2]
  /\ Goto(t, "send")
  /\ UNCHANGED <<signal, plan, main, feeder, base, curve, work, link, push,
                 ghosts>>

(* Line 200. *)
SolverSend(t) ==
  /\ solver[t] = "send"
  /\ info' = [info EXCEPT !.send = 1]
  /\ pending' = TRUE
  /\ Goto(t, "station")
  /\ UNCHANGED <<signal, plan, main, feeder, base, curve, work, link, push,
                 interrupted, overlapped, createFailed>>

(* Mutant: the optimised station is not filed. *)
SolverStationForgotten(t) ==
  /\ solver[t] = "station"
  /\ Goto(t, "free")
  /\ UNCHANGED <<signal, plan, info, main, feeder, base, curve, work, link,
                 push, ghosts>>

(* Line 201: the station is read again, not remembered from the launch. *)
SolverStation(t) ==
  /\ solver[t] = "station"
  /\ info' = [info EXCEPT !.station = info.next]
  /\ Goto(t, "free")
  /\ UNCHANGED <<signal, plan, main, feeder, base, curve, work, link, push,
                 ghosts>>

(* Lines 208-221: what the pointers hold now is freed, and the thread ends. *)
SolverFree(t) ==
  /\ solver[t] = "free"
  /\ work' = NoOwner
  /\ Goto(t, "idle")
  /\ UNCHANGED <<signal, plan, info, main, feeder, base, curve, link, push,
                 ghosts>>

-----------------------------------------------------------------------------
(* UnpackePeriodMsgFromCAN *)

(* The fields are written as they are parsed, before the checksum is seen. *)
FeederFields(f) ==
  /\ feeder[f].pc = "idle"
  /\ \E r \in Readings :
       signal' = [signal EXCEPT !.door = r[1], !.speed = r[2]]
  /\ feeder' = [feeder EXCEPT ![f].pc = "sum"]
  /\ UNCHANGED <<plan, info, main, solver, base, curve, work, link, push,
                 ghosts>>

(* Lines 627-635: a wrong checksum clears the whole record. *)
FeederSumWrong(f) ==
  /\ feeder[f].pc = "sum"
  /\ signal' = NoSignal
  /\ feeder' = [feeder EXCEPT ![f].pc = "idle"]
  /\ UNCHANGED <<plan, info, main, solver, base, curve, work, link, push,
                 ghosts>>

(* What GetCurrentDistance can make of the position: unchanged (no fix, or *)
(* no speed), further by what a period adds, or corrected to a station     *)
(* within reach of the new position.                                       *)
Located(d) ==
  LET far == {x \in {d, d + 1} : x <= MaxDis}
  IN far \cup {Dist[s] : s \in UNION {At(x) : x \in far}}

(* Lines 637-639, up to the test of GetCurrentPlan and its line 367. *)
FeederLocate(f) ==
  /\ feeder[f].pc = "sum"
  /\ \E d \in Located(signal.dis) :
       /\ signal' = [signal EXCEPT !.dis = d]
       /\ feeder' = [feeder EXCEPT ![f] =
                       IF signal.door = 0 /\ signal.speed = 0
                       THEN [pc |-> "plan", dis |-> d]
                       ELSE [pc |-> "idle", dis |-> 0]]
  /\ UNCHANGED <<plan, info, main, solver, base, curve, work, link, push,
                 ghosts>>

(* Line 370: the next station is cleared before the search for it. *)
FeederClearNext(f) ==
  /\ feeder[f].pc = "plan"
  /\ signal' = [signal EXCEPT !.next = 0]
  /\ feeder' = [feeder EXCEPT ![f].pc = "next"]
  /\ UNCHANGED <<plan, info, main, solver, base, curve, work, link, push,
                 ghosts>>

(* The first stop of the plan within reach of d, the first stop if none. *)
PlanIndex(stops, d) ==
  LET near == {i \in DOMAIN stops : Abs(stops[i].dis - d) < Near}
  IN IF near = {} THEN 1 ELSE CHOOSE i \in near : \A j \in near : i <= j

(* The next stop that is not jumped, after the current one going down and  *)
(* before it going up; 0 if the plan has none.                             *)
NextStop(p, d) ==
  LET i == PlanIndex(p.stops, d)
      stopping == {j \in DOMAIN p.stops : ~p.stops[j].jump}
      after == {j \in stopping : j > i}
      before == {j \in stopping : j < i}
  IN CASE p.direction = "down" /\ after # {} ->
            p.stops[CHOOSE j \in after : \A k \in after : j <= k].id
       [] p.direction = "up" /\ before # {} ->
            p.stops[CHOOSE j \in before : \A k \in before : k <= j].id
       [] OTHER -> 0

(* Lines 371-407. *)
FeederSetNext(f) ==
  /\ feeder[f].pc = "next"
  /\ signal' = [signal EXCEPT !.next = NextStop(plan, feeder[f].dis)]
  /\ feeder' = [feeder EXCEPT ![f] = [pc |-> "idle", dis |-> 0]]
  /\ UNCHANGED <<plan, info, main, solver, base, curve, work, link, push,
                 ghosts>>

(* Rce04aCanReadMsgPoll: a failed read of the bus clears the record too. *)
BusReadFails ==
  /\ feeder[Can].pc = "idle"
  /\ signal' = NoSignal
  /\ UNCHANGED <<plan, info, main, feeder, solver, base, curve, work, link,
                 push, ghosts>>

-----------------------------------------------------------------------------
(* ProgramInit, the push loop and the APP *)

(* Lines 29-33: all the records are zeroed, the running stage included. *)
LinkClear(l) ==
  /\ link[l] = "idle"
  /\ link' = [link EXCEPT ![l] = "stage"]
  /\ curve' = NoInterval
  /\ signal' = NoSignal
  /\ info' = NoInfo
  /\ interrupted' = (interrupted \/ info.stage = 1)
  /\ UNCHANGED <<plan, main, feeder, solver, base, work, push, overlapped,
                 createFailed, pending>>

(* Line 34. *)
LinkStage(l) ==
  /\ link[l] = "stage"
  /\ link' = [link EXCEPT ![l] = "idle"]
  /\ info' = [info EXCEPT !.stage = 2]
  /\ interrupted' = (interrupted \/ info.stage = 1)
  /\ UNCHANGED <<signal, plan, main, feeder, solver, base, curve, work, push,
                 overlapped, createFailed, pending>>

(* Line 573. *)
PushCheck ==
  /\ push = "idle"
  /\ info.send = 1
  /\ push' = "clear"
  /\ UNCHANGED <<signal, plan, info, main, feeder, solver, base, curve, work,
                 link, ghosts>>

(* Mutant: the flag is cleared and nothing is packed. *)
PushClearOnly ==
  /\ push = "clear"
  /\ info' = [info EXCEPT !.send = 0]
  /\ push' = "idle"
  /\ UNCHANGED <<signal, plan, main, feeder, solver, base, curve, work, link,
                 ghosts>>

(* Line 575. *)
PushClear ==
  /\ push = "clear"
  /\ info' = [info EXCEPT !.send = 0]
  /\ push' = "pack"
  /\ UNCHANGED <<signal, plan, main, feeder, solver, base, curve, work, link,
                 ghosts>>

(* Line 577: the curve is packed for message 205. *)
PushPack ==
  /\ push = "pack"
  /\ pending' = FALSE
  /\ push' = "idle"
  /\ UNCHANGED <<signal, plan, info, main, feeder, solver, base, curve, work,
                 link, interrupted, overlapped, createFailed>>

(* Message 105 replaces the plan; its fields are written one by one in the *)
(* code and together here.                                                 *)
AppPlan ==
  /\ plan' \in Plans \ {plan}
  /\ UNCHANGED <<signal, info, main, feeder, solver, base, curve, work, link,
                 push, ghosts>>

-----------------------------------------------------------------------------
MainStep ==
  \/ MainPoll \/ MainCompare \/ MainBegin \/ MainNext
  \/ MainLookup \/ MainStage \/ MainCreate \/ MainCreateFails

SolverStep(t) ==
  \/ SolverAlloc(t) \/ SolverBase(t) \/ SolverSolve(t) \/ SolverStage(t)
  \/ SolverSend(t) \/ SolverStation(t) \/ SolverFree(t)

(* The steps that finish a message, once it has been received. *)
FeederWork(f) ==
  \/ FeederLocate(f) \/ FeederClearNext(f) \/ FeederSetNext(f)

FeederStep(f) == FeederFields(f) \/ FeederSumWrong(f) \/ FeederWork(f)

LinkStep(l) == LinkClear(l) \/ LinkStage(l)

PushStep == PushCheck \/ PushClear \/ PushPack

Next ==
  \/ MainStep
  \/ \E t \in Solvers : SolverStep(t)
  \/ \E f \in Feeders : FeederStep(f)
  \/ BusReadFails
  \/ \E l \in Links : LinkStep(l)
  \/ PushStep
  \/ AppPlan

Spec == Init /\ [][Next]_vars

(* The steps a thread takes once it runs are taken: the operating system   *)
(* schedules every thread, the main loop comes round each second and the   *)
(* push loop every 200 ms.  pthread_create is not assumed to succeed, and  *)
(* nothing is assumed of the APP, the bus or the TCP clients.              *)
Fairness ==
  /\ WF_vars(MainStep)
  /\ \A t \in Solvers : WF_vars(SolverStep(t))
  /\ \A f \in Feeders : WF_vars(FeederWork(f))
  /\ \A l \in Links : WF_vars(LinkStage(l))
  /\ WF_vars(PushStep)

FairSpec == Spec /\ Fairness

-----------------------------------------------------------------------------
(* Properties *)

(* A solver that has not yet announced the end of its optimisation. *)
Computing(t) == solver[t] \in {"alloc", "base", "solve", "stage"}

(* The interval globals are filled for the launch that is running. *)
Prepared(t) == solver[t] \in {"solve", "stage"}

(* Unless ProgramInit hits a running optimisation, optimize_stage keeps    *)
(* two searches from running at once, although it is tested, set and       *)
(* cleared by different threads with no lock (SpeedPlan.c:49, 136, 199).   *)
SoleSearch ==
  ~interrupted => \A t, u \in Solvers : Computing(t) /\ Computing(u) => t = u

(* optimize_stage = 1 never outlives the search it stands for: somebody    *)
(* will reset it, or planning is blocked for good.  The only way to that   *)
(* is a failed pthread_create (SpeedPlan.c:136-142).                       *)
StageHasSearch ==
  info.stage = 1 => \/ main = "create"
                    \/ createFailed
                    \/ \E t \in Solvers : Computing(t)

(* What the error codes 1 and 2 of SpeedPlanMain leave of an interval. *)
Validated ==
  /\ info.end = Dist[info.next]
  /\ info.begin < info.end
  /\ info.current # info.next

(* A search works on what SpeedPlanMain validated: as long as the next id  *)
(* is one of the table, the interval ends at that station, ahead of where  *)
(* it begins, and starts from another station - from the launch until the  *)
(* result is out, whatever the messages do meanwhile (SpeedPlan.c:57-142). *)
SearchIsValidated ==
  \A t \in Solvers :
    ~interrupted /\ Computing(t) /\ info.next \in Ids => Validated

(* The preparation globals keep the interval of g_speed_plan_info until    *)
(* the search on them is announced: DivideStageByOptimizeSpeed still adds  *)
(* interval_begin_dis to offsets computed from them (SpeedPlan.c:1372).    *)
BaseIsInterval ==
  \A t \in Solvers :
    /\ ~interrupted
    /\ Prepared(t)
    /\ info.begin <= LineLength
    /\ info.end <= LineLength
    => base = [begin |-> info.begin, end |-> info.end]

(* The twelve work pointers of a search are its own while it computes, or  *)
(* they have been freed by the search before it, which it overtook between *)
(* the announcement of that one's end and its free (SpeedPlan.c:159-221).  *)
SearchOwnsWork ==
  \A t \in Solvers :
    ~interrupted /\ Computing(t) /\ solver[t] # "alloc" =>
      work = t \/ (overlapped /\ work = NoOwner)

(* optimize_send_flag is cleared before the curve is packed, so that a     *)
(* curve published between the test and the packing is never lost: what    *)
(* is unsent is flagged, or the push loop is about to pack it              *)
(* (WebServer.c:573-577, define.h:118).                                    *)
UnsentIsFlagged == pending => info.send = 1 \/ push # "idle"

(* GetTargetSpeedByDistance gives out the curve (SpeedPlan.c:1635). *)
Served == info.stage = 2 /\ info.station = signal.next

(* The profile is not rewritten under a reader: while it is given out, a   *)
(* step leaves it alone or is the memset of ProgramInit, as long as        *)
(* ProgramInit has not started a second search.                            *)
CurveStableWhenServed ==
  [][Served /\ ~interrupted => curve' \in {curve, NoInterval}]_vars

(* What is on order: optimize_stage says that something is, the one search *)
(* that computes how far it has come.                                      *)
Order ==
  LET Some(pc) == \E t \in Solvers : solver[t] = pc
  IN  IF info.stage # 1
      THEN [stage |-> "none", begin |-> 0, end |-> 0, next |-> 0]
      ELSE [stage |-> IF Some("solve") THEN "prepared"
                      ELSE IF Some("stage") THEN "computed" ELSE "taken",
            begin |-> info.begin, end |-> info.end, next |-> info.next]

Service == INSTANCE PlanService WITH order <- Order

(* Until ProgramInit interrupts it, the planner is what one thread would   *)
(* be that takes an order, prepares it, computes its curve and says so     *)
(* before it takes the next: nothing of an order changes while it is on,   *)
(* the curve becomes that of the interval prepared for it, in one step and *)
(* at no other time, although test, launch, search and announcement are    *)
(* those of different threads with no lock (SpeedPlan.c:49-142, 174-201).  *)
IsPlanService == Service!Spec

(* n can be planned for, and nothing but the controller moves any more.    *)
Steady(n) ==
  /\ signal.door = 0
  /\ signal.next = n
  /\ signal.dis < Dist[n]
  /\ At(signal.dis) \notin {{}, {n}}
  /\ n # 1
  /\ \A f \in Feeders : feeder[f].pc = "idle"
  /\ \A l \in Links : link[l] = "idle"
  /\ ~createFailed

(* A train that stands with open doors and a next station ahead gets the   *)
(* optimisation filed for that station, whatever was planned, rejected,    *)
(* interrupted or reset before (SpeedPlan.c:46-145, 199-201).              *)
PlansEventually ==
  \A n \in Ids : <>[]Steady(n) => <>[](info.stage = 2 /\ info.station = n)

(* A curve flagged for the APP is packed for it, unless ProgramInit clears *)
(* the flag first (WebServer.c:573-577, SpeedPlan.c:200, socket.c:33).     *)
SendsEventually ==
  pending /\ info.send = 1 ~> (~pending \/ \E l \in Links : link[l] # "idle")

-----------------------------------------------------------------------------
(* What the comments say, and the code does not keep *)

(* define.h:114: optimize_station is "the number of the optimised          *)
(* interval", so a curve given out for it ends there.                      *)
CurveOfStation ==
  Served /\ info.station \in Ids /\ curve # NoInterval
    => curve.end = Dist[info.station]
=============================================================================
