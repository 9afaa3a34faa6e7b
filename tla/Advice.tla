------------------------------- MODULE Advice -------------------------------
(***************************************************************************)
(* What the driver is told of a plan: DivideStageByOptimizeSpeed           *)
(* (SpeedPlan.c:1311-1450) makes recommendations of it, and the messages   *)
(* to the tablet and to the signal system take theirs from it.             *)
(*                                                                         *)
(* A table has an entry [speed, flag, value] for each step, 0..dim.        *)
(***************************************************************************)
EXTENDS Profile

CONSTANTS
  HeadRows, \* rows of a stored curve looked at for a stand: 10
  Word      \* one more than the largest unsigned number

NoWork == 5

Post(section, x) == IF section.down THEN section.begin + x ELSE section.begin - x

(* GetOptimizeSpeedIndex, lines 1194-1302, and 1328-1342: the rows of the  *)
(* section, and a stand among the first of them has the speed of the next. *)
StoredTable(rows, section) ==
  LET inside == Met(section, {i \in DOMAIN rows : Along(section, rows[i].post) \in 0..Length(section)})
      passed == [n \in DOMAIN inside |-> rows[inside[n]]]
      stands(i) == i < HeadRows /\ passed[i + 1].speed = 0 /\ i + 1 < Len(passed)
  IN  [i \in 0..(Len(passed) - 1) |->
         [speed |-> passed[IF stands(i) THEN i + 2 ELSE i + 1].speed,
          flag |-> passed[i + 1].flag,
          value |-> passed[i + 1].value]]

(* Lines 1358-1367: where the traction the section begins with ends. *)
TractionEnd(table) == Min({i \in DOMAIN table : table[i].flag # Traction})

(* Mutant: the work before step 0 is none. *)
ChangesFromNone(table, dim) ==
  Counted({i \in 0..dim : table[i].flag # IF i = 0 THEN 0 ELSE table[i - 1].flag})

(* Lines 1383-1395: a change of work; the work before step 0 is traction. *)
Changes(table, dim) ==
  Counted({i \in 0..dim : table[i].flag # IF i = 0 THEN Traction ELSE table[i - 1].flag})

(* Lines 1369-1441: two in the traction at the start, the changes of work, *)
(* and the stop.                                                           *)
Recommendations(table, dim, step, section) ==
  LET Advised(i, work) == [post |-> Post(section, i * step), speed |-> table[i].speed,
                           work |-> work, index |-> i]
      traction == TractionEnd(table)
      changes == Changes(table, dim)
  IN  <<Advised(traction \div 3, Traction), Advised((2 * traction) \div 3, Traction)>>
      \o [n \in DOMAIN changes |-> Advised(changes[n], table[changes[n]].flag)]
      \o <<[post |-> Post(section, Length(section)), speed |-> 0, work |-> NoWork, index |-> dim]>>

-----------------------------------------------------------------------------
(* GetRecSpdAndWorkByDis, lines 1497-1595, for a post within the section.  *)

IsPast(section, post, r) == Along(section, post) >= Along(section, r.post)

(* Mutant: the recommendation the train stands at is still the next. *)
FoundLate(recs, section, post) ==
  IF ~IsPast(section, post, recs[1]) THEN {1}
  ELSE {n + 1 : n \in {n \in 1..(Len(recs) - 1) :
                         /\ Along(section, post) > Along(section, recs[n].post)
                         /\ Along(section, post) <= Along(section, recs[n + 1].post)}}

(* Lines 1515-1539 and 1556-1580: the ones the loop would take. *)
Found(recs, section, post) ==
  IF ~IsPast(section, post, recs[1]) THEN {1}
  ELSE {n + 1 : n \in {n \in 1..(Len(recs) - 1) :
                         IsPast(section, post, recs[n]) /\ ~IsPast(section, post, recs[n + 1])}}

(* Mutant: the speed at the train for the whole way. *)
TimeAtSpeed(table, begin, end, step) ==
  IF begin >= end \/ table[begin].speed = 0 THEN 0
  ELSE 10 + (10 * step * (end - 1 - begin)) \div table[begin].speed

(* The time from a step on, in tenths, the last step left out. *)
TimeFrom(table, end, step) ==
  LET Pair(i) == table[i].speed + table[i + 1].speed
      rest[i \in 0..end] ==
        IF i >= end - 1 THEN 0
        ELSE rest[i + 1] + (IF Pair(i) = 0 THEN 0 ELSE (20 * step) \div Pair(i))
  IN  rest

(* GetTimeByIndex, lines 1463-1482. *)
TimeByIndex(table, begin, end, step) ==
  IF begin >= end THEN 0 ELSE 10 + TimeFrom(table, end, step)[begin]

(* The distance is unsigned: its test for > 0 holds whatever it is.  One   *)
(* that is not found has the distance and the index of the first.          *)
NextRecommendation(table, recs, step, section, post) ==
  LET found == Found(recs, section, post)
      n == IF found = {} THEN 1 ELSE Min(found)
      left == IF section.down THEN recs[n].post - post ELSE post - recs[n].post
  IN  [speed |-> IF found = {} THEN 0 ELSE recs[n].speed,
       work |-> IF found = {} THEN NoWork ELSE recs[n].work,
       distance |-> left % Word,
       countdown |-> TimeByIndex(table, Along(section, post) \div step, recs[n].index, step)]

-----------------------------------------------------------------------------
(* The messages with a plan in them. *)

(* RefreshPeriodMsgToAPP, socket.c:592-605, for the messages 204: out of   *)
(* the section the search for the next recommendation returns at once, and *)
(* what it would have set stays as it was in the message before, but for   *)
(* the speed, which is then not initialized: any.                          *)
PeriodMsgToAPP(last, next, any, inside) ==
  LET work == IF inside THEN next.work ELSE last.work
  IN  [speed |-> IF inside THEN next.speed ELSE any,
       work |-> work,
       level |-> IF work \in {Traction, Braking} THEN 80 ELSE 0,
       distance |-> IF inside THEN next.distance ELSE last.distance,
       countdown |-> IF inside THEN next.countdown ELSE last.countdown]

(* Mutant: the step after the one the train is in. *)
TargetOfNext(table, dim, step, section, post) ==
  LET x == IF Along(section, post) > 0 THEN Along(section, post) ELSE 0
      i == x \div step + 1
  IN  IF i >= dim THEN [speed |-> 0, flag |-> Braking, value |-> 0]
      ELSE [speed |-> table[i].speed, flag |-> table[i].flag, value |-> table[i].value]

(* GetTargetSpeedByDistance, SpeedPlan.c:1606-1670, once a plan for the    *)
(* station stands, for the message 202 (socket.c:753-790): between two     *)
(* steps, in the first step what the next one has, and after the last none.*)
TargetSpeed(table, dim, step, section, post) ==
  LET x == IF Along(section, post) > 0 THEN Along(section, post) ELSE 0
      i == x \div step
      Between == (table[i].speed * step + (x - i * step) * (table[i + 1].speed - table[i].speed))
                   \div step
  IN  IF i >= dim THEN [speed |-> 0, flag |-> Braking, value |-> 0]
      ELSE IF i = 0 THEN [speed |-> table[1].speed, flag |-> table[1].flag, value |-> table[0].value]
      ELSE [speed |-> Between, flag |-> table[i].flag, value |-> table[i].value]

(* PackTriggerJsonDataToApp, WebServer.c:999-1020: the curve of message    *)
(* 205.                                                                    *)
CurveShown(table, dim, step, section) ==
  [i \in 0..dim |-> [post |-> Post(section, i * step), speed |-> table[i].speed]]
=============================================================================
