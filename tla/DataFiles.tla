------------------------------ MODULE DataFiles ------------------------------
(***************************************************************************)
(* The files read at start: ReadCsvConfig takes a text apart               *)
(* (init.c:470-518), the Fill functions put its cells into the columns of  *)
(* a table (init.c:9-462), and TrainStaticDataInit makes the train of them *)
(* (init.c:582-701).                                                       *)
(*                                                                         *)
(* A text is the sequence of its cells: what stands before each comma and  *)
(* each end of a line, which the reader does not tell apart.               *)
(***************************************************************************)
EXTENDS Integers, Sequences, FiniteSetsExt

CONSTANTS
  Blank,      \* a cell with nothing in it
  Optimize,   \* OptimizeOfflineData.csv
  BasicParam, \* TrainDataBasicParam.csv
  Dynamics    \* TrainDataDynamics.csv

ASSUME DataAssumption == Blank \notin Int

(* What the authors of a file write: the header, the names of the columns, *)
(* and the rows, each a sequence of as many cells as the first.            *)
Text(label, rows) ==
  LET columns == Len(rows[1])
      header == <<"label_flag", "rows", "columns", label, Len(rows), columns>>
  IN  [n \in 1..(6 + columns * (Len(rows) + 1)) |->
         IF n <= 6 THEN header[n]
         ELSE IF n <= 6 + columns THEN "name"
         ELSE rows[(n - 7) \div columns][((n - 7) % columns) + 1]]

(* Lines 508-509: what stands before the n-th separator.  Where nothing    *)
(* does, the buffer keeps the cell before it.                              *)
CellAt(text, n) == text[Max({p \in 1..n : text[p] # Blank})]

(* Lines 483-513: names of the header, its values, names of the columns,   *)
(* and as many cells as the header says.                                   *)
ReadCsvConfig(text) ==
  LET columns == CellAt(text, 6)
  IN  [label |-> CellAt(text, 4),
       rows |-> [i \in 1..CellAt(text, 5) |->
                   [j \in 1..columns |-> CellAt(text, 6 + i * columns + j)]]]

(* StaticDataRead, lines 526-574: the files are read in turn until one     *)
(* cannot be opened.                                                       *)
StaticDataRead(texts) == [n \in DOMAIN texts |-> ReadCsvConfig(texts[n])]

(* FillCsvData, lines 427-462: the label, not the name of the file, says   *)
(* whose rows they are.                                                    *)
RowsOf(tables, label) ==
  LET own == {n \in DOMAIN tables : tables[n].label = label}
  IN  IF own = {} THEN <<>> ELSE tables[Max(own)].rows

SpeedLimits == 2
Gradients == 3

(* FillSpeedLimitData, FillGradientData and FillCurveRadiusData: a post    *)
(* and a value in front.                                                   *)
Zones(rows) == [i \in DOMAIN rows |-> [from |-> rows[i][1], value |-> rows[i][2]]]

(* FillStationData, lines 9-62. *)
Stations(rows) ==
  LET columns == <<"station_name", "station_id", "property", "property_display",
                   "schedule_time", "dwell_time", "traction_energy",
                   "regenerative_energy", "operation_energy", "begin_distance",
                   "end_distance", "latitude", "latitude_dir", "longitude", "longitude_dir">>
  IN  [i \in DOMAIN rows |->
         [c \in Range(columns) |-> rows[i][CHOOSE j \in DOMAIN columns : columns[j] = c]]]

(* FillOptimizeData, lines 336-419, at the load 0: the columns of a        *)
(* direction begin at first.                                               *)
OptimizeRows(first) ==
  LET rows == ReadCsvConfig(Optimize).rows
  IN  [i \in DOMAIN rows |-> [post |-> rows[i][1], speed |-> rows[i][first],
                              flag |-> rows[i][first + 1], value |-> rows[i][first + 2]]]

OptimizeDown == OptimizeRows(2)
OptimizeUp == OptimizeRows(14)

-----------------------------------------------------------------------------
(* TrainStaticDataInit at the load 0, the only one used (init.c:973).      *)

(* FillBasicParamData, lines 187-237, and 585-626: the last row of AW0.    *)
TrainAtAW0 ==
  LET rows == ReadCsvConfig(BasicParam).rows
      i == Max({i \in DOMAIN rows : rows[i][7] = "AW0"})
  IN  [length |-> rows[i][5], weight |-> rows[i][8],
       a |-> rows[i][9], b |-> rows[i][10], c |-> rows[i][11]]

TrainLength == TrainAtAW0.length

(* FillDynamicsData, lines 245-328, and 628-699: forces over the weight,   *)
(* cut to a whole number.                                                  *)
AccTable(column) ==
  LET rows == ReadCsvConfig(Dynamics).rows
  IN  [i \in DOMAIN rows |-> [v |-> rows[i][1],
                              a |-> (100 * rows[i][column]) \div TrainAtAW0.weight]]

TrainStaticDataInit ==
  [at_aw0 |-> TrainAtAW0, traction |-> AccTable(2), brake |-> AccTable(4)]
=============================================================================
