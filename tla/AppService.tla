------------------------------ MODULE AppService ------------------------------
(***************************************************************************)
(* The service of the APP: the side thread answers its messages 103, 104   *)
(* and 105 (WebServer.c:1145-1302), and the push loop sends, every 200 ms, *)
(* a message 204 to the clients in service and, when a curve has been      *)
(* flagged, a message 205 to all that are logged in (513-591).  They share *)
(* the table of the clients and no lock.                                   *)
(*                                                                         *)
(* A client has its slot and descriptor as in WsServer, whose steps to     *)
(* take in and to close a connection are one here.  The sockets block: a   *)
(* send waits for a client that has no room, and its thread with it.       *)
(* What 105 does to the plan is in PlanCycle, the recommendation itself in *)
(* Advice; here it is known by the contents of the curve it is of.         *)
(***************************************************************************)
EXTENDS Integers, FiniteSets

CONSTANTS
  Clients,   \* connections; one that is gone may come again
  Fds,       \* descriptor numbers
  Slots,     \* client[] has the indices 1..Slots
  Posts,     \* the stations, by their places along the line
  Near,      \* DISTANCE_ERROR
  Fixes,     \* places of the train that GPS may tell
  MaxCurves, \* bound: how often the curve is written
  Requests,  \* what clients may send, see Messages
  Nobody, NoFd

(* 103 with serve_flag 1, and 2; 104 with serve_flag 1; 105; and other     *)
(* values of them, or a device that is not in the list.                    *)
Messages == {"offer", "end", "serve", "plan", "wrong"}

ASSUME AppServiceAssumption ==
  /\ NoFd \notin Fds /\ Nobody \notin Clients
  /\ Slots \in Nat \ {0}
  /\ MaxCurves \in Nat
  /\ Near \in Nat
  /\ \A i \in DOMAIN Posts : Posts[i] \in Int
  /\ Fixes \subseteq Int
  /\ Requests \subseteq Messages

VARIABLES
  owner,  \* kernel: the connection behind each descriptor, or Nobody
  slot,   \* client[]: descriptor, isLogin, serveFlag, and whether exitType
          \* and isExiting are set
  full,   \* kernel: who does not read, and has no room for more
  side,   \* the slot whose message is being answered (0: none) and with what
  curve,  \* how often g_speed_curve_offline has been written: its contents
  wiped,  \* the contents that ProgramInit left last
  flag,   \* optimize_send_flag
  push,   \* where the push loop is, at which slot, whether a client was
          \* counted, and the client its send waits for
  period, \* send_buff: the curve it is of, and whether of this round
  trigger,\* send_buff_trigger: the curve it is of
  length, \* which message `length' is of
  phase,  \* history: what each client has come to, as in Session
  late,   \* history: pushes a client got since it was in service, or
          \* connected, last
  served, \* history: the clients in service since the round began
  last,   \* history: the last message 204 each client got in service
  shown   \* history: the latest curve each client got in a message 205

vars == <<owner, slot, full, side, curve, wiped, flag, push, period, trigger, length, phase, late, served, last, shown>>

table == <<owner, slot, full>>
planner == <<curve, wiped, flag>>
buffers == <<period, trigger, length>>
history == <<phase, late, served, last, shown>>

Free == [fd |-> NoFd, isLogin |-> FALSE, serveFlag |-> 0, exiting |-> FALSE]

(* GetDistanceByPoint, for places on the line. *)
Apart(a, b) == IF a < b THEN b - a ELSE a - b

(* PackLocationConfirmJsonDataToApp: the first station in reach, but index *)
(* 0 stands for none (line 1062).                                          *)
LocationConfirm(fix) ==
  LET near == {i \in DOMAIN Posts : Apart(Posts[i], fix) < Near}
      first == CHOOSE i \in near : \A j \in near : i <= j
  IN  [msg_type |-> 206, station |-> IF near = {} \/ first = 1 THEN 0 ELSE first]

(* PackErrorJsonDataToApp, PackSuccessJsonDataToApp, and the latter with   *)
(* the tables of the line and the train, which nothing changes after the   *)
(* start, which are in OfflinePlan: PackInitJsonDataToApp.                 *)
Error == [msg_type |-> 203, serve_flag |-> 0]
Success == [msg_type |-> 203, serve_flag |-> 1]
InitData == [msg_type |-> 203, serve_flag |-> 1, tables |-> "of the line"]

Answers == {Error, Success, InitData} \cup {LocationConfirm(fix) : fix \in Fixes}

NoAnswer == [msg_type |-> 0]

None == [whole |-> FALSE, late |-> TRUE, curve |-> 0, shown |-> 0]

Indices == 1..Slots

Slot == [fd : Fds \cup {NoFd}, isLogin : BOOLEAN, serveFlag : 0..2, exiting : BOOLEAN]
Side == [slot : 0..Slots, answer : Answers \cup {NoAnswer}]
Doings == {"count", "test", "send", "pack", "test all", "send all"}
Places == 1..(Slots + 1)
Loop == [doing : Doings, slot : Places, counted : BOOLEAN, to : Clients \cup {Nobody}]
Curves == 0..MaxCurves
Pushed == [whole : BOOLEAN, late : BOOLEAN, curve : Curves, shown : Curves]
Phases == {"away", "connected", "offered", "served"}

TypeOK ==
  /\ owner \in [Fds -> Clients \cup {Nobody}]
  /\ slot \in [Indices -> Slot]
  /\ full \subseteq Clients
  /\ side \in Side
  /\ curve \in Curves /\ wiped \in Curves /\ flag \in BOOLEAN
  /\ push \in Loop
  /\ period \in [curve : Curves, fresh : BOOLEAN]
  /\ trigger \in Curves
  /\ length \in {"none", "204", "205"}
  /\ phase \in [Clients -> Phases]
  /\ late \in [Clients -> Nat]
  /\ served \subseteq Clients
  /\ last \in [Clients -> Pushed]
  /\ shown \in [Clients -> Curves]

Idle == [slot |-> 0, answer |-> NoAnswer]

(* Where a round of the push loop begins. *)
Round == [doing |-> "count", slot |-> 1, counted |-> FALSE, to |-> Nobody]

Init ==
  /\ owner = [f \in Fds |-> Nobody]
  /\ slot = [s \in Indices |-> Free]
  /\ full = {}
  /\ side = Idle
  /\ curve = 0 /\ wiped = 0 /\ flag = FALSE
  /\ push = Round
  /\ period = [curve |-> 0, fresh |-> FALSE]
  /\ trigger = 0
  /\ length = "none"
  /\ phase = [c \in Clients |-> "away"]
  /\ late = [c \in Clients |-> 0]
  /\ served = {}
  /\ last = [c \in Clients |-> None]
  /\ shown = [c \in Clients |-> 0]

ClientOf(s) == IF slot[s].fd = NoFd THEN Nobody ELSE owner[slot[s].fd]

(* The table, seen by the client of slot s. *)
Enters(c, p) ==
  /\ phase' = [phase EXCEPT ![c] = p]
  /\ late' = IF p = "served" \/ phase[c] = "away" THEN [late EXCEPT ![c] = 0] ELSE late
  /\ served' = served \ {c}
  /\ last' = [last EXCEPT ![c] = None]

-----------------------------------------------------------------------------
(* Connections come and go *)

(* Who does not read has no room for more in the end; a send that waits    *)
(* already needs no more than there will be.                               *)
Fill(c) ==
  /\ phase[c] # "away" /\ push.to # c
  /\ full' = full \cup {c}
  /\ UNCHANGED <<owner, slot, side, planner, push, buffers, history>>

(* The client reads, or its connection is broken. *)
Read(c) ==
  /\ c \in full
  /\ full' = full \ {c}
  /\ UNCHANGED <<owner, slot, side, planner, push, buffers, history>>

Usable(s) == slot[s].fd = NoFd /\ ~slot[s].exiting

(* client_get, client_add: the first slot that can be used.  The last      *)
(* connection of the client has ended, and with it the send that waited.   *)
Join(c) ==
  /\ phase[c] = "away" /\ c \notin full /\ push.to # c
  /\ \E s \in Indices, f \in Fds :
       /\ Usable(s) /\ \A r \in Indices : r < s => ~Usable(r)
       /\ owner[f] = Nobody
       /\ owner' = [owner EXCEPT ![f] = c]
       /\ slot' = [slot EXCEPT ![s] = [Free EXCEPT !.fd = f]]
  /\ Enters(c, "connected")
  /\ shown' = [shown EXCEPT ![c] = 0]
  /\ UNCHANGED <<full, side, planner, push, buffers>>

Live(s) == slot[s].fd # NoFd /\ ~slot[s].exiting

(* WebServer.c:61-75, once there is room for the answer. *)
Login(s) ==
  /\ side = Idle /\ Live(s) /\ ~slot[s].isLogin
  /\ ClientOf(s) \notin full
  /\ slot' = [slot EXCEPT ![s].isLogin = TRUE]
  /\ UNCHANGED <<owner, full, side, planner, push, buffers, history>>

(* client_del, by the side thread, for whatever reason it has. *)
Leave(s) ==
  /\ side = Idle /\ Live(s)
  /\ owner' = [owner EXCEPT ![slot[s].fd] = Nobody]
  /\ slot' = [slot EXCEPT ![s].exiting = TRUE]
  /\ Enters(ClientOf(s), "away")
  /\ UNCHANGED <<full, side, planner, push, buffers, shown>>

(* client_onExit. *)
Clear(s) ==
  /\ slot[s].exiting
  /\ slot' = [slot EXCEPT ![s] = Free]
  /\ UNCHANGED <<owner, full, side, planner, push, buffers, history>>

-----------------------------------------------------------------------------
(* The side thread: UnpackJsonDataFromApp *)

Answer(s, message) == side' = [slot |-> s, answer |-> message]

(* A message of a device that is not in the list (1145-1157, 1292), and    *)
(* 103 or 104 with a serve_flag they do not know.                          *)
Refuse(s) == Answer(s, Error) /\ UNCHANGED <<slot, history>>

(* 103 with serve_flag 1. *)
Offer(s) ==
  /\ slot' = [slot EXCEPT ![s].serveFlag = 1]
  /\ Answer(s, InitData)
  /\ Enters(ClientOf(s), "offered")
  /\ UNCHANGED shown

(* 103 with serve_flag 2. *)
End(s) ==
  /\ slot' = [slot EXCEPT ![s].serveFlag = 0]
  /\ Answer(s, Success)
  /\ Enters(ClientOf(s), "connected")
  /\ UNCHANGED shown

(* 104 with serve_flag 1; accepted, it is not answered. *)
Serve(s) ==
  IF slot[s].serveFlag = 1
  THEN /\ slot' = [slot EXCEPT ![s].serveFlag = 2]
       /\ UNCHANGED <<side, shown>>
       /\ Enters(ClientOf(s), "served")
  ELSE Refuse(s)

(* 105, of which the plan is in PlanCycle. *)
Confirm(s) ==
  /\ \E fix \in Fixes : Answer(s, LocationConfirm(fix))
  /\ UNCHANGED <<slot, history>>

(* 103: the tables, the end of the service, or neither (1216). *)
Message103(s) ==
  \/ "offer" \in Requests /\ Offer(s)
  \/ "end" \in Requests /\ End(s)
  \/ "wrong" \in Requests /\ Refuse(s)

(* UnpackJsonDataFromApp: by msg_type, for a device that is in the list;   *)
(* other types are passed over (1288).                                     *)
Unpack(s) ==
  \/ "wrong" \in Requests /\ Refuse(s)
  \/ Message103(s)
  \/ "serve" \in Requests /\ Serve(s)
  \/ "plan" \in Requests /\ Confirm(s)

(* client_recv, onMessage (59, 88-89): whether the client has logged in is *)
(* not asked; of what is no message of the APP only a line is printed.     *)
Receive(s) ==
  /\ side = Idle /\ Live(s)
  /\ Unpack(s)
  /\ UNCHANGED <<owner, full, planner, push, buffers>>

(* ws_send to the client, once there is room; the result, kept in a UINT8, *)
(* is never < 0.                                                           *)
Reply ==
  /\ side # Idle
  /\ ClientOf(side.slot) \notin full
  /\ side' = Idle
  /\ UNCHANGED <<table, planner, push, buffers, history>>

-----------------------------------------------------------------------------
(* The planner, as far as the push loop sees it (SpeedPlan.c:198, 200) *)

NewCurve ==
  /\ curve < MaxCurves
  /\ curve' = curve + 1
  /\ UNCHANGED <<table, side, wiped, flag, push, buffers, history>>

Flag ==
  /\ curve > 0 /\ flag' = TRUE
  /\ UNCHANGED <<table, side, curve, wiped, push, buffers, history>>

(* By main or a thread of the TCP server (socket.c:29-34). *)
ProgramInit ==
  /\ curve < MaxCurves
  /\ curve' = curve + 1 /\ wiped' = curve + 1
  /\ flag' = FALSE
  /\ UNCHANGED <<table, side, push, buffers, history>>

-----------------------------------------------------------------------------
(* The push loop *)

Served(c) == phase[c] = "served"

(* The next round. *)
Begin == push' = Round /\ served' = {c \in Clients : Served(c)}

(* Mutant: a single client is not counted. *)
CountedIfTwo(s) == slot[s].serveFlag = 2 /\ \E r \in Indices \ {s} : slot[r].serveFlag = 2

Counted(s) == slot[s].serveFlag = 2

(* Lines 536-543, a slot at a time. *)
Count ==
  /\ push.doing = "count" /\ push.slot <= Slots
  /\ push' = [push EXCEPT !.counted = @ \/ Counted(push.slot), !.slot = @ + 1]
  /\ UNCHANGED <<table, side, planner, buffers, history>>

(* RefreshPeriodMsgToAPP: of message 204 the recommendation counts, known  *)
(* by the curve.                                                           *)
Refreshed == [curve |-> curve, fresh |-> TRUE]

(* Lines 544-547 and PackPeriodJsonDataToApp. *)
PackPeriod ==
  /\ push.doing = "count" /\ push.slot > Slots
  /\ IF push.counted
     THEN period' = Refreshed /\ length' = "204"
     ELSE period' = [period EXCEPT !.fresh = FALSE] /\ UNCHANGED length
  /\ push' = [push EXCEPT !.doing = "test", !.slot = 1]
  /\ UNCHANGED <<table, side, planner, trigger, history>>

(* Mutant: a slot that is exiting is not left out. *)
InServiceEvenExiting(s) == slot[s].isLogin /\ slot[s].serveFlag = 2

(* Line 551. *)
InService(s) == Live(s) /\ slot[s].isLogin /\ slot[s].serveFlag = 2

Test ==
  /\ push.doing = "test" /\ push.slot <= Slots
  /\ push' = IF InService(push.slot) THEN [push EXCEPT !.doing = "send"]
             ELSE [push EXCEPT !.slot = @ + 1]
  /\ UNCHANGED <<table, side, planner, buffers, history>>

Sending == push.doing \in {"send", "send all"}

(* Whoever has the descriptor when ws_send is called: while it waits, the  *)
(* slot and the descriptor may get others.                                 *)
Addressee == IF push.to # Nobody THEN push.to ELSE ClientOf(push.slot)

(* Lines 553, 582, for a client that has no room: the loop waits, for all  *)
(* others too (WebCom.c:1186).                                             *)
Block ==
  /\ Sending /\ push.to = Nobody
  /\ Addressee \in full
  /\ push' = [push EXCEPT !.to = Addressee]
  /\ UNCHANGED <<table, side, planner, buffers, history>>

(* Who is sent to, if it is still there to get it. *)
Reached == Addressee \in Clients /\ phase[Addressee] # "away"

(* Line 553: what is in the buffer, as long as `length' says. *)
Send ==
  /\ push.doing = "send"
  /\ Addressee \notin full
  /\ LET c == Addressee
     IN  /\ last' = IF Reached /\ phase[c] = "served"
                    THEN [last EXCEPT ![c] =
                            [whole |-> period.fresh /\ length = "204",
                             late |-> c \notin served,
                             curve |-> period.curve, shown |-> shown[c]]]
                    ELSE last
         /\ late' = IF Reached /\ phase[c] # "served"
                    THEN [late EXCEPT ![c] = @ + 1] ELSE late
  /\ push' = [push EXCEPT !.doing = "test", !.slot = @ + 1, !.to = Nobody]
  /\ UNCHANGED <<table, side, planner, buffers, phase, served, shown>>

(* Lines 573-575. *)
CheckFlag ==
  /\ push.doing = "test" /\ push.slot > Slots
  /\ flag' = FALSE
  /\ IF flag THEN push' = [push EXCEPT !.doing = "pack", !.slot = 1] /\ UNCHANGED served
     ELSE Begin
  /\ UNCHANGED <<table, side, curve, wiped, buffers, phase, late, last, shown>>

(* PackTriggerJsonDataToApp. *)
PackTrigger ==
  /\ push.doing = "pack"
  /\ trigger' = curve
  /\ length' = "205"
  /\ push' = [push EXCEPT !.doing = "test all"]
  /\ UNCHANGED <<table, side, planner, period, history>>

LoggedIn(s) == Live(s) /\ slot[s].isLogin

(* Mutant: only who is in service is shown the curve. *)
ShownInService(s) == InService(s)

(* Line 580: in service or not. *)
Shown(s) == LoggedIn(s)

TestAll ==
  /\ push.doing = "test all" /\ push.slot <= Slots
  /\ push' = IF Shown(push.slot) THEN [push EXCEPT !.doing = "send all"]
             ELSE [push EXCEPT !.slot = @ + 1]
  /\ UNCHANGED <<table, side, planner, buffers, history>>

(* Line 582. *)
SendAll ==
  /\ push.doing = "send all"
  /\ Addressee \notin full
  /\ shown' = IF Reached THEN [shown EXCEPT ![Addressee] = trigger] ELSE shown
  /\ push' = [push EXCEPT !.doing = "test all", !.slot = @ + 1, !.to = Nobody]
  /\ UNCHANGED <<table, side, planner, buffers, phase, late, served, last>>

Again ==
  /\ push.doing = "test all" /\ push.slot > Slots
  /\ Begin
  /\ UNCHANGED <<table, side, planner, buffers, phase, late, last, shown>>

-----------------------------------------------------------------------------
Push == Count \/ PackPeriod \/ Test \/ Block \/ Send \/ CheckFlag \/ PackTrigger \/ TestAll
          \/ SendAll \/ Again

Next ==
  \/ \E c \in Clients : Join(c) \/ Fill(c) \/ Read(c)
  \/ \E s \in Indices : Login(s) \/ Leave(s) \/ Clear(s) \/ Receive(s)
  \/ Reply \/ NewCurve \/ Flag \/ ProgramInit \/ Push

Spec == Init /\ [][Next]_vars

(* The push loop runs, except where a client that has no room keeps it. *)
FairSpec == Spec /\ WF_vars(Push)

-----------------------------------------------------------------------------
(* Properties *)

S == INSTANCE Session

(* Nobody is in service that has not asked for it on this connection, and  *)
(* who is not gets one push at most, however connections, slots and        *)
(* descriptors change under the loop that tests a slot and then sends      *)
(* (WebServer.c:551-553, 1233).                                            *)
IsSession == S!Spec

PhaseOf(serveFlag) ==
  CASE serveFlag = 0 -> "connected"
    [] serveFlag = 1 -> "offered"
    [] OTHER -> "served"

(* The table tells the same of every client that is in it (WebServer.c:125, *)
(* 141, 1190, 1204, 1235).                                                 *)
InServiceAsked ==
  \A s \in Indices : Live(s) => phase[ClientOf(s)] = PhaseOf(slot[s].serveFlag)

(* A client that has been in service since the round began gets a message *)
(* 204 of this round, with its own length, and by a curve that is not what *)
(* there was before the one it was shown; only who has just come into      *)
(* service may get what an earlier round, or a message 205, left           *)
(* (WebServer.c:544-553, 577).                                             *)
FreshIfServed ==
  \A c \in Clients : ~last[c].late => last[c].whole /\ last[c].curve >= last[c].shown

HasLoggedIn(c) == \E s \in Indices : LoggedIn(s) /\ ClientOf(s) = c

(* Every client that has no room for more reads, or its connection ends. *)
AllRead == \A c \in Clients : []<>(c \notin full)

(* Who is in service and logged in gets a message 204 of the round in the  *)
(* end, unless it leaves the service, as long as no client keeps the loop  *)
(* waiting for room (WebServer.c:537-553, WebCom.c:1186).                  *)
ServedIsPushed ==
  \A c \in Clients :
    AllRead => (Served(c) /\ HasLoggedIn(c) ~> ~Served(c) \/ last[c].whole)

(* A curve that is flagged is shown, it or a later one, to every client    *)
(* that is logged in then and stays, unless ProgramInit comes first, as    *)
(* long as no client keeps the loop waiting for room (WebServer.c:573-582, *)
(* socket.c:29-34, WebCom.c:1186).                                         *)
CurveReachesAll ==
  \A c \in Clients, n \in 1..MaxCurves :
    AllRead => (flag /\ curve = n /\ HasLoggedIn(c)
                  ~> shown[c] >= n \/ ~HasLoggedIn(c) \/ wiped > n)
=============================================================================
