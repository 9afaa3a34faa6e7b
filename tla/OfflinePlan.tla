----------------------------- MODULE OfflinePlan -----------------------------
(***************************************************************************)
(* A plan from the line files to the driver: StaticDataInit (init.c:910)   *)
(* makes the tables of the line, the search thread cuts a section out of   *)
(* them, bounds it and runs it (SpeedPlanOffline, SpeedPlan.c:154-222),    *)
(* and divides what it found, or the stored curve, into recommendations.   *)
(* When that happens, and what meets it there, is in PlanCycle; which      *)
(* switch points are found is in Search: here they are any.                *)
(***************************************************************************)
EXTENDS Advice

CONSTANTS
  Station,     \* LineDataStation.csv
  LimitZones,  \* the rows LineDataSpeedLimit.csv may have
  SlopeZones,  \* the rows LineDataGradient.csv may have
  CurveFile,   \* LineDataCurveRadius.csv
  Sections,    \* the sections planned
  Row,         \* distance of two rows of the stored curve: 20 m
  Grid,        \* bound: switch points are taken at its multiples
  TrainPosts,  \* bound: where the train is when messages are sent
  AnySpeed     \* what the next speed may be when it is not set

(* FillCurveRadiusData, init.c:165-180. *)
RadiusZones == Zones(ReadCsvConfig(CurveFile).rows)

(* LineStaticDataInit, line 864: where the last station but one ends.      *)
LineLength ==
  LET stations == Stations(ReadCsvConfig(Station).rows)
  IN  stations[Len(stations) - 1].end_distance

(* The stored curve of the direction of a section. *)
Stored(s) == IF s.down THEN OptimizeDown ELSE OptimizeUp

(* What the line takes of a train at a sample, on the way of a section. *)
Taken(slopes, i, s) ==
  LET gradient == EquivalentGradient(slopes, i * Sample)
      radius == CurveRadius(RadiusZones, i * Sample)
  IN  (IF s.down THEN gradient ELSE -gradient) + (IF radius = 0 THEN 0 ELSE CurveFactor \div radius)

AllTaken ==
  {0} \cup {Taken(y, i, s) : y \in SlopeZones, i \in Samples(LineLength), s \in Sections}
AllLimits == UNION {{InTables(z[k].value) : k \in DOMAIN z} : z \in LimitZones}

(* Every section is on the line, a distance on the line fits the word of a *)
(* message, and posts are whole metres.                                    *)
ASSUME PlanAssumption ==
  /\ LineLength \in Nat
  /\ \A s \in Sections : s.begin \in 0..LineLength /\ s.end \in 0..LineLength /\ Length(s) > Wide
  /\ Word \in Nat /\ Word > LineLength
  /\ TrainPosts \subseteq Int

(* The files of a line: zones, limits and slopes from the first post on,   *)
(* the first limit beyond the first sample, and none below the margin      *)
(* wherever a train may be.                                                *)
ASSUME FilesAssumption ==
  /\ LimitZones \subseteq Seq([from : Nat, value : Nat])
  /\ SlopeZones \subseteq Seq([from : Nat, value : Int])
  /\ RadiusZones \in Seq([from : Nat, value : Nat])
  /\ \A z \in LimitZones \cup SlopeZones \cup {RadiusZones} : Len(z) > 0
  /\ \A z \in LimitZones \cup SlopeZones : z[1].from = 0
  /\ \A z \in LimitZones : Len(z) > 1 => z[2].from > Sample
  /\ \A z \in LimitZones : \A i \in Samples(LineLength) : SpeedLimit(z, i * Sample) >= Margin
  /\ CurveFactor \in Nat

(* The files of the train: forces for growing speeds, none so small that   *)
(* its share is cut to nothing, and a resistance.                          *)
IsForce(curve) ==
  /\ curve \in Seq([v : Int, a : Nat]) /\ Len(curve) > 0
  /\ \A n \in DOMAIN curve : curve[n].a >= 2
  /\ \A m, n \in DOMAIN curve : m < n => curve[m].v < curve[n].v

ASSUME TrainAssumption ==
  LET own == TrainStaticDataInit
  IN  /\ IsForce(own.traction) /\ IsForce(own.brake)
      /\ own.at_aw0.a \in Nat /\ own.at_aw0.b \in Nat /\ own.at_aw0.c \in Nat
      /\ own.at_aw0.weight \in Nat \ {0}

(* In a step of braking the brake loses no more than a fifth of its force: *)
(* what is planned with at its end there is at its beginning.              *)
ASSUME BrakeAssumption ==
  \A top \in AllLimits, step \in {Short, Wide} : \A v \in 0..top :
    \A w \in v..BrakeUp(TrainStaticDataInit, v, step) :
      PlannedBrake(TrainStaticDataInit, v) <= BrakeAcc(TrainStaticDataInit, w)

(* Up to the limits of the line the traction takes the train over what the *)
(* line takes of it: no square root of less than nothing.                  *)
ASSUME PullAssumption ==
  \A top \in AllLimits, taken \in AllTaken, step \in {Short, Wide} : \A v \in 0..top :
    4 * v * v + 8 * step * (TractionAcc(TrainStaticDataInit, v)
                              - ResistanceAcc(TrainStaticDataInit.at_aw0, v) - taken) >= 0

(* The rows of a stored curve are so far apart, from the first to the last, *)
(* and in each section it is not all traction.                             *)
ASSUME StoredAssumption ==
  /\ Row \in Nat \ {0}
  /\ \A s \in Sections :
       LET rows == Stored(s)
       IN  /\ IsFiniteSet(DOMAIN rows) /\ DOMAIN rows \subseteq Nat
           /\ \A i \in DOMAIN rows : /\ rows[i].post \in Int /\ rows[i].speed \in Nat
                                    /\ rows[i].flag \in {Traction, Coasting, Braking}
                                    /\ rows[i].value \in Nat
           /\ \A i, j \in DOMAIN rows : rows[j].post - rows[i].post = Row * (j - i)
           /\ \E i \in DOMAIN rows :
                Along(s, rows[i].post) \in 0..Length(s) /\ rows[i].flag # Traction

VARIABLES
  pc,       \* "files", "read", "tables", "ready", "bounded", "run",
            \* "divided" or "stopped"
  zones,    \* limits and slopes of the line, as the files were written
  csv,      \* g_static_data_csv: the limits and slopes read
  train,    \* g_train_param
  lines,    \* g_line_param: limit, gradient and curve_radius per sample
  section,  \* interval_begin_dis, interval_end_dis and g_direction
  pieces,   \* speed_limit_location and speed_limit
  plan,     \* the train, step size, last step, bound, slopes, radii and switches
  table,    \* g_speed_curve_offline, g_level_flag and g_level_output
  recs,     \* the recommend_ arrays
  mode,     \* optimize_mode; 0: none yet
  told      \* the last messages: the post, 204 and 202; none yet: <<>>

vars == <<pc, zones, csv, train, lines, section, pieces, plan, table, recs, mode, told>>

Flags == {0, Traction, Coasting, Braking}
TypeOK ==
  /\ pc \in {"files", "read", "tables", "ready", "bounded", "run", "divided", "stopped"}
  /\ mode \in 0..2
  /\ pc \notin {"files", "read", "stopped"} => \A i \in Samples(LineLength) : lines.limit[i] \in Nat
  /\ pc \in {"run", "divided"} =>
       /\ DOMAIN table = 0..plan.dim
       /\ \A i \in 0..plan.dim : /\ table[i].speed \in Nat
                                 /\ table[i].flag \in Flags
                                 /\ table[i].value \in Nat
  /\ told # <<>> => /\ told.app.countdown \in Nat
                    /\ told.app.distance \in 0..(Word - 1)
                    /\ told.signal.speed \in Nat

(* The record of the messages 204 is zeroed at start, socket.c:33. *)
NoAdvice == [speed |-> 0, work |-> 0, level |-> 0, distance |-> 0, countdown |-> 0]

Init ==
  /\ pc = "files"
  /\ zones \in [limits : LimitZones, slopes : SlopeZones]
  /\ section \in Sections
  /\ csv = <<>> /\ train = <<>> /\ lines = <<>> /\ pieces = <<>> /\ plan = <<>> /\ table = <<>>
  /\ recs = <<>> /\ told = <<>>
  /\ mode = 0

(* StaticDataRead, init.c:526-574.  The texts that are the same for every  *)
(* line are constants, read where they are used.                           *)
Texts ==
  <<Text(SpeedLimits, [k \in DOMAIN zones.limits |-> <<zones.limits[k].from, zones.limits[k].value>>]),
    Text(Gradients, [k \in DOMAIN zones.slopes |->
                       <<zones.slopes[k].from, zones.slopes[k].value, Blank>>])>>

ReadFiles ==
  /\ pc = "files"
  /\ LET tables == StaticDataRead(Texts)
     IN csv' = [limits |-> Zones(RowsOf(tables, SpeedLimits)),
                slopes |-> Zones(RowsOf(tables, Gradients))]
  /\ pc' = "read"
  /\ UNCHANGED <<zones, train, lines, section, pieces, plan, table, recs, mode, told>>

(* Lines 531-573 and main.c:51-57: a file that cannot be opened ends the   *)
(* program.                                                                *)
FileMissing ==
  /\ pc = "files"
  /\ pc' = "stopped"
  /\ UNCHANGED <<zones, csv, train, lines, section, pieces, plan, table, recs, mode, told>>

(* StaticDataInit: lines 582-701 and 859-882. *)
SampleLine ==
  /\ pc = "read"
  /\ train' = TrainStaticDataInit
  /\ lines' = Sampled(csv.limits, csv.slopes, RadiusZones, LineLength)
  /\ pc' = "tables"
  /\ UNCHANGED <<zones, csv, section, pieces, plan, table, recs, mode, told>>

(* GetBaseDataReady and lines 175-186. *)
BaseData ==
  /\ pc = "tables"
  /\ pieces' = Pieces(lines.limit, section)
  /\ LET step == StepSize(Length(section))
     IN plan' = [train |-> train,
                 step |-> step,
                 dim |-> LastStep(Length(section), step),
                 slopes |-> Slopes(lines.gradient, section),
                 radii |-> Radii(lines.curve_radius, section),
                 max |-> <<>>,
                 switches |-> <<>>]
  /\ pc' = "ready"
  /\ UNCHANGED <<zones, csv, train, lines, section, table, recs, mode, told>>

(* GetOptimalSpeedOffline, lines 401-406. *)
Model ==
  /\ pc = "ready"
  /\ plan' = [plan EXCEPT !.max = SpeedLimitMax(train, pieces, plan.step, plan.dim)]
  /\ pc' = "bounded"
  /\ UNCHANGED <<zones, csv, train, lines, section, pieces, table, recs, mode, told>>

(* GetOptimalSpeedOffline, lines 409-419: the run of the switch points the *)
(* search came to.                                                         *)
Solve ==
  /\ pc = "bounded"
  /\ LET bounds == Bounds(Length(section))
         Grids(b) == {p \in b.low..b.high : p % Grid = 0}
     IN \E at \in [DOMAIN bounds -> UNION {Grids(bounds[n]) : n \in DOMAIN bounds}] :
          /\ \A n \in DOMAIN bounds : at[n] \in Grids(bounds[n])
          /\ plan' = [plan EXCEPT !.switches =
                        [n \in DOMAIN bounds |-> [at |-> at[n], work |-> bounds[n].work]]]
          /\ table' = Run(plan')
  /\ pc' = "run"
  /\ UNCHANGED <<zones, csv, train, lines, section, pieces, recs, mode, told>>

(* DivideStageByOptimizeSpeed with a result that meets the time. *)
Divide ==
  /\ pc = "run"
  /\ recs' = Recommendations(table, plan.dim, plan.step, section)
  /\ mode' = 1
  /\ pc' = "divided"
  /\ UNCHANGED <<zones, csv, train, lines, section, pieces, plan, table, told>>

(* Lines 1316-1344: the stored curve takes its place, with as many steps   *)
(* as it has rows.                                                         *)
DivideStored ==
  /\ pc = "run"
  /\ LET stored == StoredTable(Stored(section), section)
         dim == Cardinality(DOMAIN stored) - 1
     IN /\ table' = stored
        /\ plan' = [plan EXCEPT !.dim = dim]
        /\ recs' = Recommendations(stored, dim, plan.step, section)
  /\ mode' = 2
  /\ pc' = "divided"
  /\ UNCHANGED <<zones, csv, train, lines, section, pieces, told>>

(* A round of the messages when the train has gone on: 202 to the signal   *)
(* system (socket.c:753-790), 204 to the tablet (socket.c:557-614,         *)
(* WebServer.c:794-959).  The limit worked out at socket.c:773 is not sent.*)
Report ==
  /\ pc = "divided"
  /\ \E post \in TrainPosts, any \in AnySpeed :
       LET inside == Along(section, post) \in 0..Length(section)
           last == IF told = <<>> THEN NoAdvice ELSE told.app
           next == IF inside THEN NextRecommendation(table, recs, plan.step, section, post) ELSE last
       IN  /\ told # <<>> => Along(section, post) > Along(section, told.post)
           /\ told' = [post |-> post,
                       app |-> PeriodMsgToAPP(last, next, any, inside),
                       signal |-> TargetSpeed(table, plan.dim, plan.step, section, post)]
  /\ UNCHANGED <<pc, zones, csv, train, lines, section, pieces, plan, table, recs, mode>>

(* PackInitJsonDataToApp, WebServer.c:647-785: what message 203 tells the  *)
(* tablet of the line and the train.  The tunnels have a place but their   *)
(* file is not among those read (init.c:530-572); versions and the name of *)
(* the line are left out.                                                  *)
InitMsg ==
  LET stations == Stations(ReadCsvConfig(Station).rows)
      own == ReadCsvConfig(BasicParam).rows[1]
      forces == ReadCsvConfig(Dynamics).rows
      Thousands(column) == [n \in DOMAIN forces |-> 1000 * forces[n][column]]
  IN  [gradient_info |-> csv.slopes,
       curve_radius_info |-> RadiusZones,
       tunnel_info |-> <<>>,
       speed_limit_info |-> csv.limits,
       separate_info |-> <<[begin_distance |-> 0, end_distance |-> 0]>>,
       signal_info |-> <<[distance |-> 0]>>,
       line_distance |-> stations[Len(stations) - 1].end_distance,
       station_info |-> [n \in DOMAIN stations |->
                           [name |-> stations[n].station_name,
                            distance |-> stations[n].begin_distance,
                            station_id |-> stations[n].station_id]],
       train_info |-> [type |-> own[4], a |-> own[9], b |-> own[10], c |-> own[11],
                       speed |-> [n \in DOMAIN forces |-> forces[n][1]],
                       traction_aw0 |-> Thousands(2),
                       brake_aw0 |-> Thousands(4)],
       serve_flag |-> "1"]

Next ==
  \/ ReadFiles \/ FileMissing \/ SampleLine
  \/ BaseData \/ Model \/ Solve \/ Divide \/ DivideStored
  \/ Report

Spec == Init /\ [][Next]_vars

-----------------------------------------------------------------------------
(* Properties *)

(* A plan as it was found; the messages change nothing of it. *)
Divided == pc = "divided" /\ told = <<>>
Online == Divided /\ mode = 1

Posts == {Post(section, x) : x \in 0..Length(section)}
Target(post) == TargetSpeed(table, plan.dim, plan.step, section, post)

(* Two pieces never end within one step. *)
Apart == \A m, n \in DOMAIN pieces :
           m < n => pieces[m].to + plan.step < pieces[n].to

(* The limit at the end of the section is that of its last sample: on the  *)
(* way up the last piece has the limit of the sample the end lies in,      *)
(* which is not one of the section's.                                      *)
EndSampled ==
  LET passed == Passed(lines.limit, section)
  IN  LastLimit(lines.limit, section) = lines.limit[passed[Len(passed)]]

(* The samples around the step the train is in: on the way up a piece ends *)
(* two samples after the last one with its limit.                          *)
Near(post) ==
  LET i == Along(section, post) \div plan.step
  IN  {s \in Samples(LineLength) :
         Along(section, s * Sample) \in (i * plan.step - 2 * Sample)..((i + 1) * plan.step + Sample)}

LimitAt(post) == InCms(ValueAt(zones.limits, post))

(* The limit of the line file for a train whose head is at a post.  On the *)
(* way down its tail counts too.  On the way up it does not: the tables    *)
(* take the limit ahead of the train for that of the tail (init.c:716,     *)
(* 872), which is at the head plus the length there (socket.c:770).        *)
LineLimit(post) ==
  IF section.down THEN Min({LimitAt(post), LimitAt(TailOf(post))}) ELSE LimitAt(post)

(* The speed advised never exceeds the limits of the line files where the  *)
(* head of the train is, and on the way down where its tail is, to within  *)
(* a step and two samples: through the unit, the sampling of the line, the *)
(* cut into pieces, the steps, the braking curves, the run and the         *)
(* interpolation (init.c:814, 876, SpeedPlan.c:270-278, 463-470, 1643).    *)
TargetHeld ==
  Online /\ Apart /\ EndSampled => \A post \in Posts :
    \/ Target(post).speed = 0
    \/ \E s \in Near(post) : Target(post).speed <= LineLimit(s * Sample)

(* The pieces are long enough to brake in: no braking curve reaches back,  *)
(* below the limit it comes from, to where a higher one holds.             *)
RoomToBrake ==
  LET at == PieceAt(pieces, plan.step, plan.dim)
  IN  \A f \in Falls(pieces, plan.step, plan.dim) : \A i \in 2..(f.index - 1) :
        BrakingCurve(train, f, plan.step)[i + 1] < f.high => pieces[at[i]].limit <= f.high

(* Where braking is advised, the brake that was planned with, 0.8 of 0.8   *)
(* of its force, brings the train from one speed of the plan to the next,  *)
(* whichever falls of the limit are ahead; the first two steps are not     *)
(* bounded that way (SpeedPlan.c:468-489, 529, 569, 852-868).              *)
Brakeable ==
  Online /\ Apart /\ RoomToBrake => \A i \in 2..(plan.dim - 1) :
    table[i].flag = Braking => table[i].speed <= BrakeUp(train, table[i + 1].speed, plan.step)

(* The level of the brake worked out from two steps of the run (862-866)   *)
(* is 0 to 100, as line 1603 says of it, since the bound was bent with     *)
(* less brake than the train has: where the slope does not help, and where *)
(* the level before it, which is kept when it is near, is not too much     *)
(* already.  Downhill it can be: see the README.                           *)
LevelInRange ==
  Online /\ Apart /\ RoomToBrake => \A i \in 2..(plan.dim - 1) :
    /\ table[i].flag = Braking
    /\ GradientAcc(plan.slopes, i * plan.step) >= 0
    /\ table[i - 1].value \in 0..100
    => table[i].value \in 0..100

(* The steps of the table are as far apart as the plan says they are. *)
Stepped == mode = 2 => plan.step = Row

(* The recommendations are in the order the train meets them, all in the   *)
(* section, and the last is its stop, whatever the works of the steps are  *)
(* (SpeedPlan.c:1371-1441).                                                *)
AdviceOrdered ==
  Divided /\ Stepped =>
    /\ \A m, n \in DOMAIN recs : m < n => Along(section, recs[m].post) <= Along(section, recs[n].post)
    /\ \A n \in DOMAIN recs : recs[n].post \in Posts
    /\ recs[Len(recs)].post = section.end

(* Everywhere before the stop the driver is told what lies next: never one *)
(* that is behind, and none is skipped (SpeedPlan.c:1515-1539).            *)
AdviceIsNext ==
  Divided /\ Stepped =>
    \A post \in Posts \ {section.end} :
      LET next == NextRecommendation(table, recs, plan.step, section, post)
          ahead == {n \in DOMAIN recs : Along(section, recs[n].post) > Along(section, post)}
      IN  /\ next.distance \in 1..Length(section)
          /\ \E n \in ahead :
               /\ \A m \in ahead : n <= m
               /\ next.distance = Along(section, recs[n].post) - Along(section, post)
               /\ next.speed = recs[n].speed /\ next.work = recs[n].work

(* The curve the driver is shown is the one the signal system is told: at  *)
(* every point of message 205 but the first and the last, message 202 has  *)
(* its speed, and the work the recommendations were made of, in both       *)
(* directions, also with the stored curve (WebServer.c:999-1020,           *)
(* SpeedPlan.c:1637-1655).  A curve that was found lies under the limits   *)
(* message 203 has drawn there: the tables of the plan and the rows of the *)
(* tablet come of the same file by different ways, one through samples in  *)
(* cm/s, the other as it was read, in km/h (WebServer.c:698-709, 1014).    *)
ShownIsTarget ==
  Divided =>
    LET curve == CurveShown(table, plan.dim, plan.step, section)
        limits == InitMsg.speed_limit_info
    IN  \A i \in 1..(plan.dim - 1) :
          /\ Target(curve[i].post).speed = curve[i].speed
          /\ Target(curve[i].post).flag = table[i].flag
          /\ Online /\ Apart /\ EndSampled /\ curve[i].speed # 0 =>
               \E s \in Near(curve[i].post) :
                 curve[i].speed * Kmh <= ValueAt(limits, s * Sample) * Cms

(* From one message 204 to the next, as the train goes on in the section,  *)
(* what the driver is told to come never moves back, and while it stays    *)
(* the same it is not said to be further away in time (socket.c:594-596,   *)
(* SpeedPlan.c:1463-1551).                                                 *)
AdviceAdvances ==
  [][LET Inside(m) == Along(section, m.post) \in 0..(Length(section) - 1)
         Outlook(m) == Along(section, m.post) + m.app.distance
     IN  told # <<>> /\ Stepped /\ Inside(told) /\ Inside(told') =>
           /\ Outlook(told) <= Outlook(told')
           /\ Outlook(told) = Outlook(told') => told'.app.countdown <= told.app.countdown]_told
=============================================================================
