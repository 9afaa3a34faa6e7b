# Verification of SpeedPlan

SpeedPlan is the on-board program that plans the speed of a train for the next
interval: it listens to the train on a CAN bus, computes a speed curve when the
train stands at a station, and gives the driver's APP the curve and, while
running, recommendations.  It is one C process with about a dozen threads that
share global records.  Except for the log file and one WebSocket slot search,
nothing is protected by a lock.  These TLA+ modules say what the threads do to
the shared records, which properties survive their interleavings, and which
sentences in the comments do not.

## 1. Inventory

| part | source | state | operations |
|---|---|---|---|
| Planner | SpeedPlan.c:46-222, main.c:105-110 | `g_speed_plan_info` (interval, stations, `optimize_stage`, `optimize_send_flag`, `optimize_station`) | SpeedPlanMain once a second; SpeedPlanOffline in a thread per launch |
| Base data | SpeedPlan.c:231-381, init.c:710-829 | `interval_length`, speed-limit arrays, `line_param` | GetBaseDataReady |
| Search | SpeedPlan.c:401-1302 | work arrays on global pointers, `dim` | GWO_Offline, fitness, train dynamics |
| Recommendation | SpeedPlan.c:1311-1670 | `g_speed_curve_offline`, `recommend_*` | DivideStageByOptimizeSpeed, GetTargetSpeedByDistance, GetRecSpdAndWorkByDis |
| Train message | can.c:36-673 | `g_period_msg_from_signal` (door, speed, distance, next station, times) | UnpackePeriodMsgFromCAN and the four updates it calls |
| CAN link | can.c:676-883 | `recvbuf`, `frame_index` | Rce04aCanReadMsgPoll |
| TCP server | socket.c:27-277 | `client_fds[5]`, `client_num` | socket_manager, server_handle, ProgramInit |
| TCP messages | socket.c:285-790 | - | converters, Pack*, Refresh* |
| WebSocket server | WebServer.c:1-505 | `Ws_Server`, 500 slots a thread | accept, epoll, login timeout, exit threads |
| APP service | WebServer.c:513-1306 | `serveFlag`, `g_plan_config_info`, buffers of 204 and 205 | push loop, messages 103/104/105, replies 203 and 206 |
| Framing | WebCom.c, WebServer.c:45-106 | the receive buffer of a connection | ws_enPackage, ws_dePackage, ws_recv, handshake |
| Static data | init.c:9-1140 | tables read from CSV files | once at start-up |
| Device check | init.c:1143-1480 | MAC white list | once at start-up |
| Disk watch, log, LEDs | init.c:1496-1617, log.c, led.c | files, GPIO | a thread of its own; one mutex |
| cJSON | cJSON.c | - | third-party parser |

### How the parts interact

* The CAN thread, and every TCP handler that gets message 101, run
  UnpackePeriodMsgFromCAN, which fills `g_period_msg_from_signal` **in place**:
  fields first, checksum after.  A wrong checksum, or a failed read of the bus,
  clears the record; door 0 then reads "open".
* The main loop polls that record and, when doors are open, no search is
  running and the next station is not the one last optimised, writes the
  interval to `g_speed_plan_info`, validates it, sets `optimize_stage = 1` and
  starts SpeedPlanOffline.
* SpeedPlanOffline allocates twelve arrays on **global** pointers, reads the
  interval, searches, writes the curve, then `optimize_stage = 2`,
  `optimize_send_flag = 1` and `optimize_station`, and frees the pointers.
* The push loop of the WebSocket server looks at `optimize_send_flag` every
  200 ms, clears it, packs the curve and sends it to each client.
* A TCP client that joins or leaves runs ProgramInit: it zeroes the curve and
  all records, and sets `optimize_stage = 2`.
* The APP's message 105 overwrites `g_plan_config_info`, which the train
  message's GetCurrentPlan reads to find the next station.

### What is hard

Interleavings of reads and writes of the same record (the next station is read
four times in one pass of SpeedPlanMain); an announcement in three writes; a
reset in the middle of anything; failures that leave a flag behind; the
delivery of the result exactly when the flag is being cleared.  `PROJECT.json`
lists every such hazard at its line with the properties that cover it.

### What makes each part correct

* Planner: one search at a time; it works on a validated interval; it is never
  blocked for good; the result is filed for what it was computed for.
* Base data, bound, run: no speed advised exceeds the limits of the line files,
  and every braking that is advised is feasible.
* Search: what is advised meets the time, or is the stored curve.
* Recommendation: in order, none behind the train, none skipped; tablet and
  signal system are told the same; the curve does not change under a reader.
* Train message: the position stays with the train; the next stop and its time
  are those of the plan; a reader never acts on a half-read or cleared record.
* CAN link: what is unpacked is one message.
* TCP server: a slot belongs to one open connection, and only to one.
* WebSocket server: a slot is used by one connection at a time, no connection is
  lost, and who does not log in is removed.
* APP service: who has asked is pushed, and nobody else; a published curve
  reaches every client.
* Framing: what is taken out of the stream is what was put into it.

## 2. Modules

| module | models |
|---|---|
| `PlanCycle` | the planning cycle: SpeedPlanMain, SpeedPlanOffline, the train message, ProgramInit, the push loop, message 105 |
| `PlanService` | abstract: the planner as one thread that takes one order at a time and answers with a curve |
| `DataFiles` | the CSV reader and what becomes of its cells |
| `LineData` (extends `DataFiles`) | limits, gradients and radii of the line, sampled |
| `Envelope` (extends `LineData`) | GetBaseDataReady and Modeling: the pieces of a section and the speed that bounds it |
| `Profile` (extends `Envelope`) | the run of a train along given switch points |
| `Advice` (extends `Profile`) | recommendations, target speed, and what the messages 202, 204 and 205 carry of them |
| `OfflinePlan` (extends `Advice`) | the state machine over these: from the files to the driver |
| `Search` | GWO_Offline, and the choice between its result and the stored curve |
| `TrainState` | position, next stop and times over a journey, beside the train |
| `Telegrams` | abstract: the train record is empty or one complete message, in order, none twice; one mixture may follow a lost header |
| `CanLink` | the reassembly of messages from CAN frames, and the checks before a message is taken |
| `TcpServer` | accepting TCP clients, their slots, descriptors and threads |
| `WsServer` | accepting WebSocket clients, their slots and events, receiving, login timeout, removal, the sending of the push loop |
| `WsReceive` | packages and the handshake, taken out of a stream of bytes |
| `Session` | abstract: when a client of the APP service is pushed messages |
| `AppService` | messages 103, 104, 105 and the push loop over the table of clients |
| `MC*` | instances for TLC (`WsServer` needs none) |
| `*Proofs` | theorems: `PlanCycle`, `CanLink`, `TcpServer`, `WsServer`, `WsReceive`, `TrainState`, `OfflinePlan` with `Search`, `AppService` |

The modules meet at shared records, and each takes of a neighbour what its own
questions need:

* `CanLink` says which message the record was taken from, `PlanCycle` what the
  other threads see while one unpacking writes it, `TrainState` what a sequence
  of messages makes of it.
* `PlanCycle` says when a section is planned and when its curve is given out,
  `Search` which switch points come out, `OfflinePlan` what is made of any.
* `WsReceive` is one connection, `WsServer` the table and its threads,
  `AppService` the dialogue and the push on top of it; the taking in and the
  closing of a connection, two steps in `WsServer`, are one there.

### PlanCycle

State and code:

| variable | code |
|---|---|
| `signal` | `g_period_msg_from_signal`: `door_flag` (0 open), `train_speed` (0 or more), `train_distance`, `next_station_id` |
| `plan` | `g_plan_config_info`: direction, and the stops with their distance and jump flag |
| `info` | `g_speed_plan_info`: begin, end, current, next, stage, send flag, station |
| `main` | the point SpeedPlanMain has reached between two accesses to a shared record |
| `solver` | the same for each SpeedPlanOffline; `idle` is a thread that does not exist |
| `feeder` | the same for each unpacking, with GetCurrentPlan's local `current_dis` |
| `link`, `push` | the same for ProgramInit and the push loop |
| `base` | the interval the preparation globals (`interval_length`, ...) were filled for |
| `curve` | the interval `g_speed_curve_offline` was computed for |
| `work` | the thread whose allocation the twelve pointers hold |
| `interrupted`, `overlapped`, `createFailed`, `pending` | history only, read by properties and by no guard |

The actions follow the code statement by statement wherever another thread can
interleave: the condition of line 49 in two steps because it reads
`next_station_id` twice, one step for each write of lines 199-201, and so on.
Each action names its lines.  What is abstracted:

* Distances are counted in units of the tolerance of 200 m.  A position is
  unchanged, one unit further, or corrected to a station in reach of it
  (`Located`): every outcome GetCurrentDistance has.
* The numbers of the curve: a curve is the interval it was computed for.  The
  search itself (GWO_Offline) is a floating-point heuristic on random numbers.
* The fields of a message are written together, and so are the `memset`s of
  lines 29-33 of ProgramInit and the fields of message 105.
* `g_direction` is DIRECTION_DOWN from the start and GetCurrentDirection only
  ever sets it to that, so the UP branches of SpeedPlanMain are left out.  The
  direction of the *plan* comes from the APP and both values are modelled.

`PlanService` is what all this is for.  It has an `order`, which is taken,
prepared, computed and announced; an interval prepared last; a curve; and the
history bit `interrupted`.  `Order`, the mapping, is the interval in
`g_speed_plan_info` from the write of stage 1 to that of stage 2, and how far it has
come is read off the search threads; a search that has announced its result and
still frees its arrays has no order.  ProgramInit withdraws the curve if nothing
is on order, and interrupts the service otherwise.

The mutants among the definitions ("Mutant: ...") are small slips in the action
that follows them.  They are no part of `Next`; substituted for that action,
each makes one property fail.

### CanLink

| variable | code |
|---|---|
| `recvbuf` | `recvbuf`; its length is `frame_index` |
| `record` | which message `g_period_msg_from_signal` was taken from, `Empty` after a `memset`, `Mixed` if its bytes are of several messages |
| `message`, `place` | the train: the frame it sends next |
| `intact`, `headerLost` | history only |

A frame is the pair of its message and its place.  `IsHeader` is the test of
line 832; the frames in `Alike` pass it by their data.  The sum at the end of a
message is one byte, so 19 frames of several messages may pass it: `Unpacked`
allows both outcomes.  A whole message passes, the train being trusted to send
its own header and sum.  The frame is the data of a `read` that succeeded;
`ReadFails` is the end of the loop, whatever the read was doing.

### TcpServer

| variable | code |
|---|---|
| `client_fds` | `client_fds[]`, 0 for a free slot |
| `manager` | the point socket_manager has reached, its variable `client_fd`, and the connection behind it |
| `thread` | for each client, the point server_handle has reached, its own `client_fd`, the slot a scan has found |
| `owner` | the kernel: which connection a descriptor number stands for |
| `crossed` | history only: a client has quit, or two threads had found the same slot before either cleared it |

A thread is told its descriptor by the address of the manager's variable
(lines 134, 167), so `Start` reads what is there at that moment.  `Prompt` says
that the sleep(1) of the manager is longer than a thread takes to start.  The
scans of the table are not atomic: `Store` may take any free slot, because one
before it may be freed behind the scan; a scan for a number and the clearing of
the slot found are two steps.  A number that is closed is given to any later
connection.  What a message does to the train record, and ProgramInit, is in
`PlanCycle`.  `client_num` is only counted up and printed, and is left out.

### WsServer

| variable | code |
|---|---|
| `queue`, `edge` | the kernel's accept queue, and whether an edge-triggered event is due |
| `owner` | which connection a descriptor number stands for |
| `peer`, `inbox` | each client: away, open, closed (FIN), reset; what it has sent and nobody has received |
| `full` | the kernel's send buffers: the clients that do not read and have no room for more |
| `slot` | `client[]` of one side thread: `fd`, `exitType`, `isLogin`, `isExiting`, `loginTimeout` in rounds |
| `main`, `side`, `push` | the point each thread has reached |
| `exits` | the slots whose thread client_onExit has not run yet |

Each side thread keeps a range of slots of its own and shares none of them with
another side thread, so one is modelled.  client_del is two steps: `isExiting`
is set, then the descriptor is closed and the thread is created.  The `memset`
of client_onExit is one step; `wst` is set and cleared with `fd`.  The thread may
not be created (`NewThread`): that is only printed, and the slot is then closed
and exiting for ever (`NeverCleared`).
The sockets block, both ways.  A receive is a step that is not enabled while there
is nothing to receive; after the beginning of a package (`part`) the thread stays
in the receive (`rest`) until there is more or the connection ends.  A reply, to the
handshake or to a message, is a step that is not enabled while its client is `full`.
The dialogue of the APP is left out: a message may be answered or not, and the push loop
may send to any client that is logged in; how long it waits is in `AppService`.
What `client_add` does is one step: its lock is only ever taken by the main
thread, and the side thread looks at a slot only once `wst` is set.  `MainStart`
stands for bind and its tries: the port is taken in the end, or the server is over.
That a side thread itself is created is assumed.

### DataFiles, LineData, Envelope, Profile, Advice, OfflinePlan

Functions of the tables and a state machine that applies them in the order of
the program:

| step of `OfflinePlan` | code | uses |
|---|---|---|
| `ReadFiles`, `FileMissing` | StaticDataRead, main.c:51-57 | `StaticDataRead` of `DataFiles` |
| `SampleLine` | StaticDataInit | `TrainStaticDataInit` of `DataFiles`, `Sampled` of `LineData` |
| `BaseData` | GetBaseDataReady, step size | `Pieces`, `Slopes`, `Radii`, `StepSize` of `Envelope` |
| `Model` | Modeling | `SpeedLimitMax` of `Envelope` |
| `Solve` | GetFitnessOffline2 for the points found | `Bounds`, `Run` of `Profile` |
| `Divide`, `DivideStored` | DivideStageByOptimizeSpeed | `Recommendations`, `StoredTable` of `Advice` |
| `Report` | messages 204 and 202 at a place of the train | `NextRecommendation`, `TargetSpeed`, `PeriodMsgToAPP` of `Advice` |

The arithmetic is that of the code in whole numbers.  The limits of the files are
in km/h and become cm/s by `InCms`, times `Cms` over `Kmh` (1000 over 36 in the
code), cut to 16 bits in the tables (`InTables`); message 203 takes the same files
another way, into the tables the tablet draws (`InitMsg`), of which the one of the
tunnels is always empty: LineDataTunnelParam.csv is never read (init.c:530-572).
A speed is in units in
which a run has about ten of them; roots are cut as the casts of the code cut
them; the energies of `Profile` are four times the square of a speed, so that a
step loses no more than the code's doubles do at this grain.  The unsigned
distance wraps at `Word`.  A file is the sequence of its cells, which are tokens:
the reader does not tell a comma from the end of a line.  In a blank cell its buffer
keeps what was there (init.c:508), so `CellAt` takes the last cell with something
in it; the third column of the slopes is such a cell.  What a search chooses is
any set of switch points, a superset of what `Search` can choose.

What is assumed of the files, each as a named `ASSUME` that TLC evaluates on the
instance, and why the files of the repository satisfy it:

| assumption | says | the files |
|---|---|---|
| `EnvelopeAssumption` | both steps are whole samples, at least two | 5 m; 20 m and 40 m |
| `PlanAssumption` | sections lie on the line and are longer than the wide step; distances fit an unsigned number | stations from LineDataStation.csv, hundreds of metres apart |
| `FilesAssumption` | limits and slopes begin at 0, the second limit lies beyond the first sample, no limit of a sample is below the margin | limits begin 0, 547, ...; the last, 0 from the terminus on, is reached by no sample |
| `TrainAssumption` | forces for growing speeds, none cut to nothing | TrainDataDynamics.csv |
| `BrakeAssumption` | within one step of braking the brake loses no more than a fifth of its force | it is constant up to 100 km/h and falls slowly from there |
| `PullAssumption` | up to the limits of the line the traction outdoes what slope, curve and resistance take | otherwise the code takes the root of a negative number |
| `StoredAssumption` | the rows of the stored curve are `Row` apart and, in a section, not all traction | OptimizeOfflineData.csv has 1271 rows, 20 m apart; works other than traction in every section, in both directions |

One thing the code does not keep is modelled and not assumed away: the way up
from the terminus begins where the line ends, and the place of the array looked at
there is one past the last sample, which nobody wrote: 0 (`LimitBefore`).

`SpeedLimit` is the lower of the limits at the head and at `TailOf`, which is behind
the head on the way down and, the code taking the head less the length of the train
in either direction, ahead of it on the way up.  `TargetHeld` therefore claims the
tail on the way down only (`LineLimit`); on the way up the code does not look at the
limit behind the head, and no property says that it is kept there (section 3).

What the properties leave out, each by a named condition, is what the code does
not keep:

* `Apart` - one piece of the limits at most is left per step (SpeedPlan.c:464);
  with two in one step every limit behind lies too far on.
* `EndSampled` - on the way up the limit at the end of the section is taken from
  the sample the end lies in (SpeedPlan.c:350), which is not in the section.
* `Stepped` - the stored curve has rows of 20 m, but the distances of its
  recommendations are worked out with the step of the search (1372).  The case
  of 20 m rows and a step of 40 m is only named here; no run looks at it.
* `RoomToBrake` - a braking curve counts only until it is back at the limit it
  comes from, which is looked for as long as the limits do not fall
  (`CeilingBefore`).  If, further back, a higher limit holds while the curve is still
  below, nothing bounds the run there.
* in `LevelInRange`, descents, where the level worked back from the run may exceed
  100 (SpeedPlan.c:865), against line 1603 ("0-100"), and steps whose level
  before, which is kept while the new one is near, does already.

These conditions are not rare states.  Sampled as the code does it, with the limits
of LineDataSpeedLimit.csv, 14 of the 16 ways between neighbouring stations of the
line are `Apart` and have room to brake.  The other two are the section from
19747 to 23926, up and down: the limits at the head and the tail of the train leave a
piece of 5 m between two others there.

### Search

| variable | code |
|---|---|
| `positions`, `wolf`, `round` | `Positions`, `m`, `i` |
| `leader` | `position_Alpha`, `position_Beta`, `position_Delta`: an index, since the code keeps a pointer to the wolf |
| `score` | `score_Alpha`, `score_Beta`, `score_Delta` |
| `cost` | what GetFitnessOffline2 returns for each position: any function, fixed for a search |
| `tables` | the position of which the curve, levels and times are |
| `evaluate`, `optimize_mode` | the fields of these names |
| `phase` | the loop of GWO_Offline, or the division that follows, it has come to |
| `unled` | history only: the pack moved with a leader unset |

Each coordinate is moved and bounded on its own, so one is modelled.  With a
factor above 0 the random numbers may move a wolf anywhere; with 0, in the
second half of the rounds, it goes to the mean of the leaders, some of which
have moved already.

### TrainState

| variable | code |
|---|---|
| `train` | the train itself: where it is, its speed, its doors |
| `record` | `g_period_msg_from_signal`: `train_distance`, speed, door and fix of the last message, `next_station_id`, and which stop the arrival time is of |
| `plan`, `written`, `newplan` | `g_plan_config_info`, how many stops of the new plan are written, and the plan of the last message 105 |
| `cleared`, `blank`, `changed`, `moved`, `lost`, `opened` | history only |

`Take`, `Miss` and `Clear` are what may become of a message: taken, lost, or the
record cleared (checksum, read failure, ProgramInit).  A message is taken while
a plan is half written; `ChangePlan` sets the direction and the number of stops,
`WriteStop` each stop.  The unit of speed is chosen so that the sum of two
speeds is the way between two messages; `Cut` is the cut to whole km/h.
`Allowance` counts what may be missing from the position: the cut of each
message added up, and the fastest train for each that was not.

### WsReceive

| variable | code |
|---|---|
| `sent`, `arrived`, `closed` | the client and the network: packages, how far their bytes have come, FIN |
| `taken` | how far `recv` has taken the stream |
| `at` | the `recv` of ws_recv that waits: none, line 1243, 1248 or 1266 |
| `buff` | where in the stream the buffer begins, how many bytes it holds, the header read there |
| `wsc` | `isLogin` and `exitType` of the slot |
| `reply` | the answer to the handshake, as the client sees it |
| `got`, `whole` | history: what was handed on; no read has yet met two packages or half a header |

The headers are real bytes (`Header`, `DePackage`), with real lengths; the rest
of a package is a number of bytes.  A read that begins in the middle of a
package may find any of `Garbled`.

### Session and AppService

| variable | code |
|---|---|
| `slot`, `owner` | `client[]`: `fd`, `isLogin`, `serveFlag`, leaving; the kernel's descriptors |
| `full` | the clients that do not read and have no room for more |
| `side` | the message the side thread is answering |
| `curve`, `flag` | which curve stands in the planner's globals, `optimize_send_flag` |
| `wiped` | history only: the curve ProgramInit left last |
| `push` | where WebSocketServer is: counting, packing, testing, sending 204; packing, testing, sending 205; and the client its send waits for |
| `period`, `trigger`, `length` | `send_buff`, `send_buff_trigger`, and `length`, which both messages share |
| `phase`, `late`, `served`, `last`, `shown` | history only: what each client has asked for and been sent |

`Session` has a phase for each client and a number of late pushes.  The mapping
is the identity on the history variables, which follow the clients and not the
slots: that `serveFlag` says the same is `InServiceAsked`, which is proved.

Whether a client has logged in is not asked when it sends a message
(WebServer.c:88, 435-447): `Receive` has no such guard, and a client may be in
service without a handshake.  The loop tests `isLogin` (551) and passes it over,
therefore `ServedIsPushed` is about clients that are logged in too.  A send to a
client that has no room waits (`Block`), and the loop with it; meanwhile the slot
and the descriptor may change hands, but what is sent stays for the connection the
send was called on.  ProgramInit zeroes the curve and the flag in one step here, in
`PlanCycle` in two.

## 3. Runs

| run | instance | what it asks |
|---|---|---|
| `cycle` | 2 searches, CAN thread, 1 TCP thread, 2 stations | one search at a time, in its own work arrays, until ProgramInit hits a search; stage 1 has a search; refinement of `PlanService`: an interval and a curve that no step changes out of turn |
| `replan` | 1 search thread, CAN thread, 3 stations, two plans the APP switches between, one of them upwards | the interval of a search stays validated and is what its data were prepared for; what is unsent is flagged |
| `live` | 1 search, 2 stations, 1 TCP thread, fair | a standing train gets its plan; a flagged result is packed |
| `v_station` | 2 searches, 3 stations | a sentence of a comment that the code does not keep |
| `offline` | in some behaviours lines with up to 3 limits in any place, 2 slopes, 4 sections in both directions, every choice of switch points on a grid; in the others 3 wolves, 3 places, scores 0..3, 3 rounds | limits held from the files to the advice, at the head and on the way down at the tail, feasible braking, a level the brake has, advice in order and complete, tablet and signal system told the same; advice on time or stored, a candidate lost only unled, the pack never spreads once the factor is 0 |
| `train_state` | 3 stations, a plan down with a skipped stop and one up, 2 speeds | the position is held to the train; next stop, its time and departures are right |
| `can_link` | messages of 4 frames, any frame lost, two look-alikes | a mixture needs a lost header; a complete message is taken; refinement of `Telegrams` |
| `tcp_serve` | 3 clients that may quit, 3 descriptors, 2 slots | a thread serves and closes its own connection only; who is served is in the list |
| `ws` | 2 clients, 1 descriptor, 1 slot, fair | a slot keeps its connection; events are for the client of the slot; no client is forgotten in the queue while there is a descriptor; who does not log in is out in the end, while clients read and go on |
| `receive` | handshake and 2 packages at the real sizes, fair | packages come out as they went in; the buffer holds; who is logged in got an answer; what has come is handed on |
| `app` | 1 client that comes and goes, 2 slots, 1 descriptor, 2 curves, all messages | refinement of `Session`; pushes are of this round |
| `app_two` | 2 clients, 2 slots, 2 descriptors, messages 103 and 104 or 2 curves, fair | who is in service and logged in is pushed; a flagged curve reaches all that are logged in; both while clients read |

Each run takes between seconds and three minutes with two workers.  The type invariants are proved and not spent
a run on; that of `OfflinePlan` says that no speed, level or distance is less than
nothing, which the casts of the code would hide.  Nor is `CurveStableWhenServed`,
which `IsPlanService` says more of.

Bounds of `PlanCycle`.  Two search threads are needed, and enough, for a second
launch beside a first; a third would need the same window twice.  Three stations
give an interval that is ahead, one that is behind and a choice of the next, and
the train moves over one unit (`MaxDis`), from the first station to the second:
`replan`, with one search thread because its questions are about one launch and
the messages.  `cycle` is about the threads: two stations and a train that
stands at the first, with doors that open and close and messages that fail; an
interval that can be planned is left.  Search threads are symmetric.  The
theorems hold for any number of each.

Bounds of `CanLink`.  The code counts 19; the instance counts 4, with
`MaxMessage` + 1 = 5 messages.  Joining two messages takes a frame lost in one
and the header of the next; re-synchronising takes one more; one look-alike
stands in the middle of a message and one at its end.  The theorems hold for
any count of at least two, any look-alikes and any number of messages.

Bounds of `TcpServer`.  The code has five slots.  What happens to a slot takes a
thread that is leaving and one that comes; a third client leaves or comes beside
them.  There are fewer slots than clients, so that the table is full, and
clients return without end, so that numbers and slots are used again in any order.
The theorems hold for any number of each.

Bounds of `OfflinePlan`. Tables are searched by comparing neighbours, so what
matters is how limits, steps, samples and ends of the section lie to each other: the
limits begin at every place of the middle of the line, 7 or 12 units long (a step is
4, a sample 2, the train 5), rise or fall; the sections begin and end at and off the
multiples of a step, one at the end of the line; one is long enough for the wide
step and for three switch points, which are taken at every multiple of `Grid`.
Messages are sent at four places of the train, in order. The stored curve has rows
at the short step. The theorems hold for every line, section, stored curve and run.

Bounds of `Search`.  The code has 50 wolves and 30 rounds.  Leaders that alias
take three wolves; a round with a factor and two without are a first ranking, a
move after it and the last.  The theorems hold for any number of either.  What comes
after the search takes any switch points, so the two halves share no state, and
`MCOfflinePlan` has behaviours of the one (`half` is "plan") and of the other
("search"), each with the other at rest.

Bounds of `TrainState`.  Three stations are one to leave, one to skip or stop
at and one to arrive at; `MaxPos` lets the train go through.  The theorems hold
for any line with stations 2 * `Near` apart, any speeds and journeys.

Bounds of `WsServer`. The code has 500 slots a thread and a timeout of ten rounds;
the instance has one round and one slot and one descriptor, which two clients have
in turn: the number is given away while the slot is still to be cleared, the table
is full, accept fails. That several slots do not get in each other's way is proved
(`OwnConnections`, `GoodPointers`), for any number.  Clients may send the beginning
of a package and stop reading; `LoginOrOut` is asked where they go on
(`ClientsGoOn`).

Bounds of `WsReceive`.  The sizes are those of the code.  The packages lie on
both sides of each length at which the header changes and at which the buffer is
full, and two are shorter than the first read.  Two packages after the handshake
are the fewest that can be glued; pieces end after 1, 3, 8, 14, 20, 141 or 150
bytes of a package: within and behind each form of the header, before and in
the key.  The theorems hold for any sizes, packages and cuts.

Bounds of `AppService`.  A slot or descriptor that changes hands under the push
loop takes one client that goes and comes again, into the other slot with the
same descriptor or into the same slot; two curves are one before and one after,
one of which ProgramInit may leave.  What one client can do to the pushes of
another, by not reading, takes two clients (`MCAppServiceTwo`), with what each
question needs: messages without curves, or curves without messages (`asking`).  There
a connection gets the lowest descriptor that is free, as the kernel does it
(`LowestFirst`), and a slot is cleared before anything else happens (`ClearedFirst`);
the slot that is still to be cleared under the loop is in `app`.
The theorems hold for any number of clients, slots, descriptors and curves.

Deadlock.  In `PlanCycle`, `CanLink`, `WsServer`, `TrainState` and `AppService`
a message, a failure or a client can come at any moment, and their runs check
that none of them stops.  socket_manager really stops when accept fails once
(socket.c:119-122); a plan is made once and the train arrives; a search ends;
the packages of a client are bounded: the runs of `TcpServer`, `OfflinePlan` with
`Search`, and `WsReceive` do not check deadlock.

Fairness (`FairSpec`, run `live`): the operating system runs every thread, so
each thread that has started a pass takes its next step: the main loop, each
search, the rest of a received message, the second half of ProgramInit, the
push loop.  That a *new* message arrives, that a client joins or leaves, that
the APP sends a plan is not assumed.  pthread_create may fail, so
`PlansEventually` asks only of behaviours in which it never did: a failed
launch leaves `optimize_stage` at 1, and only ProgramInit resets it.
`PlansEventually` is about a train that finally stands still (`Steady`): doors
open, next station ahead, at some other station, no message being unpacked.
It does not assume that the records were sane before: any interrupted, rejected
or overtaken plan may precede.  While messages go on, the next station may read 0
between two equal values (can.c:370); `Steady` leaves that out, and what it can do
to a launch is in `SearchIsValidated`.  That the push loop takes its next step
supposes that its sends return, which they need not while a client does not read:
`PlanCycle` has no clients, so `SendsEventually` is about the loop between its sends.

Fairness of the WebSocket modules (`FairSpec`): in `WsServer` the main thread,
the side thread and each client_onExit take their next step, in `WsReceive` the
side thread, in `AppService` the push loop, a loop that never ends.  A thread in a
blocking receive or send has no step to take, so fairness does not carry it out of
there: what is needed of the clients is said in the property.  `LoginOrOut` holds
as long as the rest of each package comes, or its connection ends, and who has no
room for more reads in the end (`ClientsGoOn`), and as long as the threads that
clear slots are created; `ServedIsPushed` and `CurveReachesAll` as long as who has
no room reads in the end (`AllRead`).  One client that never reads stops all of
them, and those are the conditions, not omissions: `Fill` is in each run.  Of the
network and the planner nothing is assumed; in `AppService` nothing of the side
thread either.

### What the violation run shows

`v_station` - "number of the optimised interval" (define.h:114).  Line 201 reads
`next_station_id` after line 199 has opened it to the next poll: the curve of
one interval is given out as that of another.

### Other sentences that the models contradict

Each is a named condition of a property, or a case an action has:

* "the interval ends at the next station" (SpeedPlan.c:89): can.c:370 clears the
  next station before it searches for it; line 59 may read 0, which no check
  rejects (`info.next \in Ids` in `SearchIsValidated`).
* "no optimisation in progress" (SpeedPlan.c:48): a poll between lines 199 and
  201 launches the same interval again beside a thread that then frees its
  arrays (`NoOwner` in `SearchOwnsWork`).
* "2: optimisation complete" (define.h:115), which ProgramInit sets under a
  running search (`~interrupted`).
* the level "0-100" (SpeedPlan.c:1603), over 100 downhill (`LevelInRange`).
* "the last frame" (can.c:840), which is only the 19th stored (`headerLost`).
* "list of the clients with which communication is established" (socket.c:14):
  after "quit" a thread clears its slot, closes its descriptor and scans the list
  a second time; a client accepted in between has the same number and loses its
  slot.  Two threads on one number may do the same between finding a slot and
  clearing it (`~crossed` in `ServedAreListed`).
* the side thread "detects ... that clients disconnect" (WebServer.c:248): a
  receive of 0 is taken for no data, and a logged-in client that closes its end
  keeps its slot until something is sent to it.
* "sending failed, mark" (WebServer.c:554), decided by a UINT8 below 0.
* the 5 seconds of WebServer.h:49, counted in rounds that events cut short.
* that one receive takes one package (WebCom.c:1214): packages shorter than 14
  bytes are taken together with the beginning of the next (`~whole`).
* the speed limit taken "from the positions of the head and the tail, the lower of the
  two" (init.c:764): the tables take the tail at the head less the length of the train
  whichever way it goes (init.c:710-721, 872).  On the way up that is ahead of the
  train, where socket.c:770 has the tail at `train_distance` plus the length: where
  the limit rises, the speed advised rises as soon as the head is there, with the tail
  still in the lower limit (`LineLimit`).
* "without data 200 ms timeout" (WebCom.c:1272): the receives of lines 1266 and 1277
  are on a blocking socket.  With the beginning of a package the thread stays there,
  and with it every client and login timeout it keeps (`rest`; `ClientsGoOn` in
  `LoginOrOut`).
* "the nearest station" of message 206: the first one in reach, and none if that
  is the first of the line (WebServer.c:1062).

`UnsentIsFlagged` is checked and proved without TCP clients: ProgramInit also
zeroes `optimize_send_flag` and the curve with it, and the result is then lost
to the APP until the interval is planned again.

## 4. Proofs

`PlanCycleProofs` proves, for every finite or infinite set of search threads,
feeders and TCP threads, every line and every set of plans that satisfies
`PlanCycleAssumption` (distances and ids are naturals, the readings are of two
values each, there is a plan):

| theorem | property |
|---|---|
| `TypeCorrect` | `TypeOK` |
| `OnlyOneSearch` | `SoleSearch` |
| `ValidatedSearch` | `SearchIsValidated` |
| `BaseOfTheInterval` | `BaseIsInterval` |
| `WorkOfTheSearch` | `SearchOwnsWork` |
| `CurveStable` | `CurveStableWhenServed` |
| `StageOfASearch` | `StageHasSearch` |
| `FlagOfTheUnsent` | `UnsentIsFlagged`, if `Links = {}` |
| `ImplementsService` | `IsPlanService` |

Argument.  `SoleSearch` is not inductive: that a poll finds `optimize_stage = 2`
says nothing unless 1 goes with every search, and that the launch four steps
later is still the only one needs the fact that SpeedPlanMain is the only
thread that launches.  `SafeInv` says, as long as ProgramInit has not hit a
running search: the stage is 1 while one computes (`StageIsSearch`),
SpeedPlanMain is past its test only while none does (`MainAlone`), the stage is
set before the thread is created (`LaunchStage`), what is about to be launched
is validated (`LaunchValid`), and a thread alive beside a search was overtaken
(`Overtaken`).  On these the four properties of the search are stable.
ProgramInit keeps them because, when it does not interrupt a search, the stage
was not 1, so none computes and none is about to be created; and it clears the
next station, so that an interval it wipes out between validation and launch is
one whose next station is no station.  TypeOK needs that the scans of the
station table and of the plan find a first (or last) element: `LeastExists` and
`GreatestExists`, from the well-foundedness of < on the naturals.

`ImplementsService` puts these together: until a search is interrupted, the
threads are one planner. The mapping reads how far an order has come off
whichever search computes; that there is only one, and that it works on the
order, is `SafeInv`. SpeedPlanMain works on the interval only while nothing is
on order (`NothingOnOrder`): until it has been checked, its writes of
`g_speed_plan_info` are no steps of the service at all, and the write of stage 1
is the one that takes the order, forward and to a station of the table
(`MainImplements`). GetBaseDataReady prepares it, the write of the curve
computes it and the write of stage 2 announces it; whatever else a search does,
one overtaken too, is a stutter (`SolverImplements`). ProgramInit withdraws or
interrupts (`LinkImplements`).

`CanLinkProofs` proves, for every number of frames, every set of look-alikes
and every bound (`CanLinkAssumption`):

| theorem | property |
|---|---|
| `TypeCorrect` | `TypeOK`: also that the buffer is never full when a frame arrives |
| `MixtureNeedsLostHeader` | `NoMixture` |
| `CompleteTaken` | `CompleteIsTaken` |
| `ImplementsTelegrams` | `IsTelegrams` |

Argument. The code counts frames and never looks where they belong. What makes the
count work is `BufferInv`: since the last header the i-th frame stored has a place
of at least i, is of the message being sent, and leaves room below the current place
for those stored after it. Nineteen frames stored between these bounds have only
their own places left (`FullIsWhole`), so the message is whole and has just been
sent, and the step is a `Deliver` of `Telegrams`. Where a header was lost the
abstract link is `broken`, and the step that fills the buffer is its `Recover`,
unless what fills it is whole (`WholeIsNow`); a lost header is a `Break`, a failed
read a `Forget`, any other step a `Miss` or none. `CompleteInv` says that behind the
header of a message without look-alikes everything sent of it is stored.

`TcpServerProofs` proves, for every number of clients, descriptors and slots
(`TcpServerAssumption`):

| theorem | property |
|---|---|
| `TypeCorrect` | `TypeOK` |
| `OwnConnection` | `ServesOwn`, if `Prompt` |
| `Listed` | `ServedAreListed`, if `Prompt` |

Argument.  `ServesOwn` says nothing of a connection on its way from accept to
its thread.  `HandedOn` does: from accept to the creation of the thread the
manager holds an open connection that has no thread; a thread that has not
started is the one of that connection, and the manager is still asleep.  Only a
thread closes descriptors, each its own, and no connection is behind two
numbers that are served.  For `Listed` it is not enough that the number of every
thread is somewhere in the list: a thread clears the first slot with its number,
and a number that two threads use stands in two slots.  `EachHasAnEntry` gives
each thread a slot to itself (from the slot the manager fills to the one the
thread clears), and while nothing is `crossed` the slot a thread has found can be
taken for its own: two threads with one number exchange their slots.

`OfflinePlanProofs` has the two halves of SpeedPlanOffline. Of what is made of a
plan it proves, for every line, train, section, stored curve and choice of
switch points that satisfies the assumptions on the files (section 2), every
property the run checks and the type invariant:

| theorem | property |
|---|---|
| `TypeCorrect` | `TypeOK` |
| `TargetWithinLimits` | `TargetHeld` |
| `BrakingSuffices` | `Brakeable` |
| `LevelsFit` | `LevelInRange` |
| `AdviceInOrder` | `AdviceOrdered` |
| `NextIsTold` | `AdviceIsNext` |
| `CurveIsTarget` | `ShownIsTarget` |
| `NeverBack` | `AdviceAdvances` |

The inductive invariants say what the state was made of.  `MadeInv`: every table is
the function of the ones before it that the program computes, back to the text
of the files.  `PlanInv`: the step size and the last step are those of the section,
the table is a run that ends with braking or the stored curve of the section, the
recommendations are those of the table.  `ToldInv`: the last message is what comes next
where the train was then.  The rest of the argument is about those functions.

Inductions. The tables of the code are computed step by step, as recursive
functions. `UpTo` and `DownFrom` are the inductions over steps, for the set of
the steps at which something holds instead of a formula, so that the provers can
use them. `Upwards` and `Downwards` say by them that a function whose values are
each computed from the one before, or after, exists, and that each value is in
the set given for its step. The pieces (`PieceAtIs`), a braking curve
(`CurveFalls`), the states of a run (`RunStatesAre`) and the time that is left
(`TimeFalls`) are proved so.

Types. Files come back as they were written (`TextIsRead`, `FilesAreRead`): a cell
of a row lies in the part of the text the row takes, and no other. The samples of a
section are an interval that is passed in order (`PassedAre`), the limits in them
those of the file (`LimitsAre`), the pieces end in order (`PiecesAre`), and no step
looks behind the last (`PieceAtIs`). A step of the run is bounded by a speed of the
line (`BoundIs`), up to which the traction outdoes the line (`PullAssumption`,
`TakenAre`), so that no energy is negative (`ReachedIs`) and the level worked back
from two of them is not either (`LevelIs`).

`TargetWithinLimits`.  The limits of the samples are those of the file in cm/s, and the
conversion keeps their order (`ConversionOrders`), so the lower of two is converted to
the lower (`LimitWithin`); on the way down that is what holds for head and tail, on
the way up it is not above what holds for the head.  A piece ends within a sample of the first one with another
limit (`EndsAre`), so that near every point of a piece lies a sample with its limit
(`PieceIsNear`).  While pieces are `Apart` the loop that leaves one a
step keeps to them (`StepsInPieces`), the bound of every step but the first is
below that of a piece (`BoundIsNear`), the run is below the bound and between
two steps a target is not above both.  In the first step the target is the speed
of step 1; the first zone is longer than a sample, so there is a sample for it
(`FirstSamples`).

`BrakingSuffices`. Below its ceiling a step of the bound is the least of several
braking curves, those of all the falls ahead, of which the next need not be the
lowest. Whichever gives the bound at the next step gave this one a speed no higher
than the brake can take to there (`FallBounds`), unless the curve does not count
here; then it has reached its ceiling, and the limit is not above it (`CeilingIs`,
`RoomToBrake`), or the limit itself falls, which begins a curve (`BoundBrakes`).
Braking is advised only where the run meets the bound in the next step, and it
starts below the bound (`RunBrakes`).

`LevelsFit`. What braking takes off in a step is then no more than the planned brake
does, 0.64 of the force at the lower speed. The level divides it by 0.8 of the force
at the higher speed; that is as much by `BrakeAssumption`, and a slope that does not
help only takes from it (`LevelFits`).

Advice.  `Counted` lists a set of numbers in ascending order, and all of it (`CountedIs`:
among so many numbers each has a rank of its own, so that every rank is taken).
The first change of work is where the traction of the start ends
(`TractionEndIsChange`), therefore a third and two thirds of it come before every
change; the last step is not behind the end of the section (`StepsFit`), nor is
the last row of the stored curve, since rows are evenly apart
(`StoredTableIs`).  Of recommendations in order exactly one is behind a train and
followed by one that is not; it is the one before the least ahead, or there is
none behind (`NextIsAhead`); as the train goes on, the least ahead moves on too
(`NextAdvances`), and to one and the same place the sum of the times left has fewer
terms (`CountdownFalls`).  At a step nothing is interpolated (`TargetAtStep`), so that what 205 shows of a curve
that was found is a target and under the limits of 203 by `TargetWithinLimits`.

Of the search, for any number of wolves, places, scores and rounds and every cost
function (`SearchAssumption`):

| theorem | property |
|---|---|
| `SearchTypeCorrect`, `Ranked` | `SearchTypeOK`, `LeadersRanked` |
| `Led` | `LostOnlyUnled` |
| `OnTime` | `OnTimeOrStored` |
| `Contracts` | `PackContracts` |

Argument.  The code sets three leaders by three tests in a row, each of which
sees the scores the ones before it left.  That they stay ranked needs that an
unset leader has the worst score (`UnsetIsWorst`), and that the first wolf
evaluated sets the first leader (`FirstIsSet`), so that the evaluation at the end
has a position.  A mean of places between the bounds is one (`MovesToPlace`), so
the only way to no number is a leader that was never set.  `OnTime` rests on the
second evaluation at the end: the score of the leader is of where it was.
`Contracts` looks at one move: the mean of three places of the pack lies between
its ends, whichever of the three are one wolf or have moved already, and so does
what the bounds cut it to.

`TrainStateProofs` proves, for every line, set of speeds and set of plans
(`TrainStateAssumption`: stations at least 2 * `Near` apart and the train stops
less than half of `Near` from the platform):

| theorem | property |
|---|---|
| `TypeCorrect` | `TypeOK` |
| `Lags`, `LagIsBounded`, `Position` | `NeverAhead`, `LagBounded`, `PositionHeld` |
| `Display` | `ArrivalIsOfNext` |
| `Departures` | `DepartureIsReal` |
| `NextStop` | `KnowsNextStop` |

Argument.  `NeverAhead` is not inductive: the next message adds the speed of this
one, so the invariant `Behind` is about the position and about the position with
that speed added; a correction may jump ahead only to the station the train
itself is at, by `Slip`, because it must be in reach of the position as well
as of the fix, and only one station is.  `Close` is the same from the other
side, with `moved` and `lost` counting what the cut and the missing periods take
away.  `NextStop` then needs no invariant of the plan: below the tolerance only
one stop of the plan is in reach of the position, the one the train is at, and
the search finds the next that is not skipped.  `Display` needs `Shown`, that
next stop and time were set together; `Departures` that a record with open
doors is of an opening or of a clearing (`DoorKnown`).

`WsServerProofs` proves, for any number of clients, descriptors and slots
(`WsServerAssumption`):

| theorem | property |
|---|---|
| `TypeCorrect` | `TypeOK` |
| `OwnConnections` | `SlotsHaveConnections` |
| `GoodPointers` | `EventsOfTheSlot` |

Argument.  A slot in use holds a descriptor that is open (`Open`) and that no
other slot in use holds; the descriptor the main thread has accepted and not
stored is open and in no slot (`InHand`).  A slot that is being removed is in
the hand of the side thread until its descriptor is closed (`AtHand`), and from
then on of exactly one thread that clears it (`Exiting`): a slot is free for
`client_add` only after that.  Events come from open descriptors, at most one
for each slot; a slot that is removed on its event has no other, and the slots
are looked at for timeouts only when no event is left (`EventsApart`), so that a
pointer outlives neither its slot nor its client.

`WsReceiveProofs` proves, for any sizes of the buffer, the first read and the
handshake, any packages of up to 2^31 - 19 bytes and any cuts of the stream
(`WsReceiveAssumption`: the first read takes a header and is shorter than the
beginning of a handshake, which fits the buffer):

| theorem | property |
|---|---|
| `TypeCorrect` | `TypeOK` |
| `ReceivedInOrder` | `InOrder` |
| `RoomInBuffer` | `BufferHolds` |
| `HandshakeRight` | `HandshakeAnswered` |

Argument.  A header that is packed is read back: in each of its three forms the
length and the type that `DePackage` and `TypeIn` find in its bytes are those
that were put there, and too few bytes of it are taken for no package
(`HeadRead`, `TypeRead`, `BytesRead`).  `Stream` lays the packages end to end,
`WholeSoFar` says that, while no receive has begun badly, as many are handed on
as lie before the receive, and that the one in hand is the next (`InHand`): the
handshake if the rest is waited for, else a package of which the missing bytes
are.  No recv then passes the end of the package it is for.  A client closes only
with its stream complete, so what is in hand is never given up (`GiveUp`).
`Waiting` is for the headers that are no headers: whatever length they tell, it
is compared with the room before anything more is read.

`AppServiceProofs` proves, for any number of clients, slots, descriptors and
curves (`AppServiceAssumption`):

| theorem | property |
|---|---|
| `TypeCorrect`, `FlagsAsked` | `TypeOK`, `InServiceAsked` |
| `Fresh` | `FreshIfServed` |
| `ImplementsSession` | `IsSession` |

Argument. For the refinement: a test passes only for a slot whose client is in
service, so at that moment no late push is counted; between the test and the send
the client may end or go, and another may come into its place, and then the push is
late for whoever is there - once, since the next test passes only for a client that
is in service, which starts the count again (`LateOnce`). For `Fresh`: a client in
service since the round began has a slot with `serveFlag` 2 all the while, so the
counting has found it before it packs (`CountedAndPacked`); the buffer is then of
this round, of a curve at least as late as the one in the buffer of message 205,
which is not written before the round is over (`InOrder`).

Only model-checked: the liveness properties `PlansEventually`, `SendsEventually`,
`QueuedIsAccepted`, `LoginOrOut`, `WholeIsHanded`, `ServedIsPushed` and
`CurveReachesAll`, since liveness under fairness is out of the prover's reach.
Every invariant, action property and refinement of a passing run is a theorem.

## 5. Not modelled

* Device check (init.c:1143-1480, NIC list and white list): one pass at start
  over the interfaces of the machine.  Its result is not stored (main.c:56), so
  nothing depends on it; that a message may come from a device not in the list is
  in `AppService` (`Refuse`).
* Disk watch, logging, LEDs: threads and functions that share no state with the
  rest.  GetDiskStatus opens log.conf on every call and does not close it
  (init.c:1566): plain counting in one thread.
* cJSON (third-party), SHA-1 and base64 (stateless encodings), the texts of the
  JSON messages beyond the fields named above, and texts that are no message.
* Energy and time of a run, which only the score of the search depends on:
  `Search` takes any score.
* Start-up failures other than a missing file, opening of the ports and of the
  bus, and the shutdown of the WebSocket server, which nothing reaches.
* Code nothing calls: the unpackers and packers of the old TCP protocol
  (UnpackePeriodMsgFromSignal, UnpackMsgFromAPP, PackInitMsgToAPP,
  PackPeriodMsgToAPP, SendPeriodMessageToApp, SendAPPMessageManage), the client
  side of WebCom.c, GetDeviceValid, the forces and energies of init.c, CanSendData.
* Bounds the code does not check and the models keep to: the 20 stops of
  `plan_station_info` (WebServer.c:1265), 20 recommendations, the 500 rows
  `optimize_distance` has room for (SpeedPlan.c:1320), the 20 kB of the buffer
  of message 205 (WebServer.c:519), a stored
  curve that is traction all through a section (`traction_num` stays unset).  The sections of
  `OfflinePlan` are too short to reach them.

## 6. What could follow

* `TrainState` and `PlanCycle` in one module: the interval planned against where
  the train really is.
