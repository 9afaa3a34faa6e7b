------------------------------- MODULE LineData -------------------------------
(***************************************************************************)
(* The line as the planner sees it: tables with one entry per sample of    *)
(* the line, made at start from the zones of the line files                *)
(* (init.c:710-882).                                                       *)
(*                                                                         *)
(* A table of zones is a sequence of records with the kilometre post a     *)
(* zone begins at and its value; the first begins at 0.                    *)
(***************************************************************************)
EXTENDS DataFiles

CONSTANTS
  Sample,   \* g_line_param.discrete_size: 5 m
  Cms, Kmh  \* so many cm/s are so many km/h: 1000 and 36

ASSUME LineAssumption ==
  /\ Sample \in Nat \ {0} /\ TrainLength \in Nat \ {0}
  /\ Cms \in Nat \ {0} /\ Kmh \in Nat \ {0}

(* GetTrainTailLocation, lines 710-721. *)
TailOf(head) == IF head <= TrainLength THEN 0 ELSE head - TrainLength

(* Lines 775-791, 794-810 and 832-849: the last zone is taken untested. *)
ZoneAt(zones, x) ==
  Min({k \in DOMAIN zones :
         \/ k = Len(zones)
         \/ zones[k].from <= x /\ x < zones[k + 1].from})

ValueAt(zones, x) == zones[ZoneAt(zones, x)].value

(* Lines 814 and 818: a limit of the file in km/h as the tables have it, in *)
(* cm/s and cut to the 16 bits of what GetSpeedLimit returns.              *)
InCms(limit) == (limit * Cms) \div Kmh
InTables(limit) == InCms(limit) % 65536

(* Mutant: the end of the train is not looked at. *)
SpeedLimitOfHead(zones, head) == InTables(ValueAt(zones, head))

(* GetSpeedLimit, lines 769-821: the lower of both ends of the train.      *)
SpeedLimit(zones, head) ==
  InTables(Min({ValueAt(zones, head), ValueAt(zones, TailOf(head))}))

(* GetCurveRadius, lines 829-851. *)
CurveRadius(zones, head) == ValueAt(zones, head)

(* GetEquivalentGradient, lines 728-760, to the whole unit.  The last zone *)
(* is reached by no round of the loop, nor is the switch into it.          *)
EquivalentGradient(zones, head) ==
  LET tail == TailOf(head)
      Over(k) == tail < zones[k].from /\ zones[k].from < head
      Inside(k) == zones[k].from <= tail /\ head <= zones[k + 1].from
      hits == {k \in 1..(Len(zones) - 1) : Over(k) \/ Inside(k)}
      k == Min(hits)
  IN  IF hits = {} THEN 0
      ELSE IF Inside(k) THEN zones[k].value
      ELSE (zones[k].value * (head - zones[k].from)
             + zones[k - 1].value * (zones[k].from - tail)) \div TrainLength

(* LineStaticDataInit, lines 859-882: the tables of a line of this length. *)
Samples(length) == 0..(length \div Sample - 1)

Sampled(limits, slopes, radii, length) ==
  [limit |-> [i \in Samples(length) |-> SpeedLimit(limits, i * Sample)],
   gradient |-> [i \in Samples(length) |-> EquivalentGradient(slopes, i * Sample)],
   curve_radius |-> [i \in Samples(length) |-> CurveRadius(radii, i * Sample)]]
=============================================================================
