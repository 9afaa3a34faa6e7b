-------------------------- MODULE AppServiceProofs --------------------------
(***************************************************************************)
(* The service for any number of clients, descriptors, slots and curves,   *)
(* and that it keeps what Session promises.                                *)
(***************************************************************************)
EXTENDS AppService, TLAPS

(* Where the push loop sends there is a slot, and it waits for nobody else. *)
PushAt ==
  /\ Sending => push.slot \in Indices
  /\ push.to # Nobody => Sending

(* A descriptor is of one connection, a live slot has one and has it alone, *)
(* and every client that is there is in a live slot.                       *)
Table ==
  /\ \A f, g \in Fds : owner[f] # Nobody /\ owner[f] = owner[g] => f = g
  /\ \A f \in Fds, c \in Clients : owner[f] = c => phase[c] # "away"
  /\ \A s \in Indices : Live(s) => owner[slot[s].fd] # Nobody
  /\ \A s, t \in Indices : Live(s) /\ Live(t) /\ slot[s].fd = slot[t].fd => s = t
  /\ \A c \in Clients : phase[c] # "away" =>
       \E s \in Indices : Live(s) /\ ClientOf(s) = c

(* The push that is on its way is the first the client gets out of service. *)
LateOnce ==
  \A c \in Clients :
    /\ late[c] \in {0, 1}
    /\ phase[c] = "served" => late[c] = 0
    /\ push.doing = "send" /\ Addressee = c => late[c] = 0

(* The buffers are filled in the order of the curves. *)
InOrder ==
  /\ \A c \in Clients : shown[c] <= trigger
  /\ trigger <= curve

(* Who is in service since the round began is counted, so that the buffer  *)
(* is filled before it is sent.                                            *)
CountedAndPacked ==
  /\ \A c \in served : phase[c] = "served"
  /\ push.doing = "count" =>
       \A s \in Indices :
         Live(s) /\ ClientOf(s) \in served /\ s < push.slot => push.counted
  /\ push.doing \in {"test", "send"} /\ served # {} =>
       period.fresh /\ length = "204" /\ trigger <= period.curve

Inv ==
  /\ TypeOK /\ PushAt
  /\ Table /\ InServiceAsked
  /\ LateOnce /\ InOrder /\ CountedAndPacked /\ FreshIfServed

-----------------------------------------------------------------------------
(* Types *)

LEMMA Numbers ==
  /\ Slots \in Nat /\ MaxCurves \in Nat
  /\ Indices = 1..Slots /\ Indices \subseteq Places
  /\ \A n \in Places : n \in Int /\ 1 <= n
  /\ \A n \in Places : n <= Slots => n \in Indices /\ n + 1 \in Places
  /\ \A n \in Places : n > Slots => n = Slots + 1
  /\ \A n \in Indices : n + 1 \in Places
  /\ 1 \in Places /\ 0 \in Curves
BY AppServiceAssumption DEF Indices, Places, Curves

LEMMA NoneType == None \in Pushed /\ Free \in Slot /\ Idle \in Side /\ Round \in Loop
<1>1. None \in Pushed
  BY Numbers DEF None, Pushed
<1>2. Free \in Slot
  BY DEF Free, Slot
<1>3. Idle \in Side
  BY Numbers DEF Idle, Side
<1>4. Round \in Loop
  BY Numbers DEF Round, Loop, Doings
<1>. QED BY <1>1, <1>2, <1>3, <1>4

LEMMA TypeInit == Init => TypeOK
<1>. SUFFICES ASSUME Init PROVE TypeOK
  OBVIOUS
<1>. QED BY Numbers, NoneType DEF Init, TypeOK, Phases

LEMMA SlotType ==
  ASSUME TypeOK, NEW s \in Indices
  PROVE  /\ slot[s] \in Slot
         /\ slot[s].fd \in Fds \cup {NoFd} /\ slot[s].serveFlag \in 0..2
         /\ slot[s].exiting \in BOOLEAN /\ slot[s].isLogin \in BOOLEAN
<1>1. slot[s] \in Slot
  BY DEF TypeOK
<1>. QED BY <1>1 DEF Slot

LEMMA LoopType ==
  ASSUME TypeOK
  PROVE  /\ push.slot \in Places /\ push.slot \in Int /\ push.counted \in BOOLEAN
         /\ push.to \in Clients \cup {Nobody}
<1>1. push \in Loop
  BY DEF TypeOK
<1>2. push.slot \in Places /\ push.counted \in BOOLEAN /\ push.to \in Clients \cup {Nobody}
  BY <1>1 DEF Loop
<1>. QED BY <1>2, Numbers

LEMMA LoopSteps ==
  ASSUME NEW p \in Loop
  PROVE  /\ \A d \in Doings : [p EXCEPT !.doing = d] \in Loop
         /\ \A n \in Places : [p EXCEPT !.slot = n] \in Loop
         /\ \A d \in Doings, n \in Places : [p EXCEPT !.doing = d, !.slot = n] \in Loop
         /\ \A b \in BOOLEAN, n \in Places : [p EXCEPT !.counted = b, !.slot = n] \in Loop
         /\ \A c \in Clients : [p EXCEPT !.to = c] \in Loop
         /\ \A d \in Doings, n \in Places :
              [p EXCEPT !.doing = d, !.slot = n, !.to = Nobody] \in Loop
BY Zenon DEF Loop

LEMMA LiveClient ==
  ASSUME TypeOK, Table, NEW s \in Indices, Live(s)
  PROVE  /\ slot[s].fd \in Fds
         /\ ClientOf(s) = owner[slot[s].fd]
         /\ ClientOf(s) \in Clients
         /\ phase[ClientOf(s)] # "away"
<1>1. slot[s].fd \in Fds /\ slot[s].fd # NoFd
  BY SlotType DEF Live
<1>2. ClientOf(s) = owner[slot[s].fd]
  BY <1>1 DEF ClientOf
<1>3. ClientOf(s) \in Clients
  BY <1>1, <1>2 DEF Table, TypeOK
<1>. QED BY <1>1, <1>2, <1>3 DEF Table

LEMMA RowSteps ==
  ASSUME NEW q \in Slot
  PROVE  /\ \A f \in Fds : [q EXCEPT !.fd = f] \in Slot
         /\ [q EXCEPT !.isLogin = TRUE] \in Slot
         /\ [q EXCEPT !.exiting = TRUE] \in Slot
         /\ \A n \in 0..2 : [q EXCEPT !.serveFlag = n] \in Slot
BY Zenon DEF Slot

LEMMA SlotSteps ==
  ASSUME TypeOK, NEW s \in Indices
  PROVE  /\ \A f \in Fds : [slot EXCEPT ![s] = [Free EXCEPT !.fd = f]] \in [Indices -> Slot]
         /\ [slot EXCEPT ![s].isLogin = TRUE] \in [Indices -> Slot]
         /\ [slot EXCEPT ![s].exiting = TRUE] \in [Indices -> Slot]
         /\ \A n \in 0..2 : [slot EXCEPT ![s].serveFlag = n] \in [Indices -> Slot]
         /\ [slot EXCEPT ![s] = Free] \in [Indices -> Slot]
<1>1. slot \in [Indices -> Slot] /\ slot[s] \in Slot
  BY DEF TypeOK
<1>2. \A q \in Slot : [slot EXCEPT ![s] = q] \in [Indices -> Slot]
  BY <1>1
<1>3. \A f \in Fds : [Free EXCEPT !.fd = f] \in Slot
  BY NoneType, RowSteps
<1>4. /\ [slot[s] EXCEPT !.isLogin = TRUE] \in Slot
      /\ [slot[s] EXCEPT !.exiting = TRUE] \in Slot
      /\ \A n \in 0..2 : [slot[s] EXCEPT !.serveFlag = n] \in Slot
  BY <1>1, RowSteps
<1>5. /\ [slot EXCEPT ![s].isLogin = TRUE] = [slot EXCEPT ![s] = [slot[s] EXCEPT !.isLogin = TRUE]]
      /\ [slot EXCEPT ![s].exiting = TRUE] = [slot EXCEPT ![s] = [slot[s] EXCEPT !.exiting = TRUE]]
      /\ \A n \in 0..2 : [slot EXCEPT ![s].serveFlag = n]
                           = [slot EXCEPT ![s] = [slot[s] EXCEPT !.serveFlag = n]]
  BY <1>1
<1>. QED BY <1>2, <1>3, <1>4, <1>5, NoneType

LEMMA EntersType ==
  ASSUME TypeOK, NEW c \in Clients, NEW p \in Phases, Enters(c, p)
  PROVE  /\ phase' \in [Clients -> Phases]
         /\ late' \in [Clients -> Nat]
         /\ served' \subseteq Clients
         /\ last' \in [Clients -> Pushed]
BY NoneType DEF TypeOK, Enters

LEMMA AnswerType ==
  ASSUME NEW s \in Indices, NEW m \in Answers, Answer(s, m)
  PROVE  side' \in Side
<1>1. s \in 0..Slots
  BY AppServiceAssumption DEF Indices
<1>. QED BY <1>1 DEF Answer, Side

(* The steps that leave the push loop alone. *)
LEMMA TableTypeStep ==
  ASSUME TypeOK, Table,
         \/ \E c \in Clients : Join(c) \/ Fill(c) \/ Read(c)
         \/ \E s \in Indices : Login(s) \/ Leave(s) \/ Clear(s) \/ Receive(s)
         \/ Reply
  PROVE  TypeOK'
<1>. USE DEF planner, buffers, table, history
<1>1. ASSUME NEW c \in Clients, Join(c) PROVE TypeOK'
  <2>1. slot' \in [Indices -> Slot] /\ owner' \in [Fds -> Clients \cup {Nobody}]
    <3>1. PICK s \in Indices, f \in Fds :
            /\ owner' = [owner EXCEPT ![f] = c]
            /\ slot' = [slot EXCEPT ![s] = [Free EXCEPT !.fd = f]]
      BY <1>1 DEF Join
    <3>2. slot' \in [Indices -> Slot]
      BY <3>1, SlotSteps
    <3>. QED BY <3>1, <3>2 DEF TypeOK
  <2>2. shown' \in [Clients -> Curves]
    BY <1>1, AppServiceAssumption DEF Join, TypeOK, Curves
  <2>3. Enters(c, "connected") /\ UNCHANGED <<full, side, planner, push, buffers>>
    BY <1>1 DEF Join
  <2>4. /\ phase' \in [Clients -> Phases] /\ late' \in [Clients -> Nat]
        /\ served' \subseteq Clients /\ last' \in [Clients -> Pushed]
    BY <2>3, EntersType DEF Phases
  <2>. QED BY <2>1, <2>2, <2>3, <2>4 DEF TypeOK
<1>2. ASSUME NEW s \in Indices, Login(s) PROVE TypeOK'
  <2>1. slot' \in [Indices -> Slot]
    BY <1>2, SlotSteps DEF Login
  <2>. QED BY <1>2, <2>1 DEF Login, TypeOK
<1>3. ASSUME NEW s \in Indices, Leave(s) PROVE TypeOK'
  <2>1. ClientOf(s) \in Clients
    BY <1>3, LiveClient DEF Leave
  <2>2. /\ Enters(ClientOf(s), "away") /\ UNCHANGED <<full, side, planner, push, buffers, shown>>
    BY <1>3 DEF Leave
  <2>3. slot' \in [Indices -> Slot] /\ owner' \in [Fds -> Clients \cup {Nobody}]
    BY <1>3, SlotSteps DEF Leave, TypeOK
  <2>4. /\ phase' \in [Clients -> Phases] /\ late' \in [Clients -> Nat]
        /\ served' \subseteq Clients /\ last' \in [Clients -> Pushed]
    BY <2>1, <2>2, EntersType DEF Phases
  <2>. QED BY <2>2, <2>3, <2>4 DEF TypeOK
<1>4. ASSUME NEW s \in Indices, Clear(s) PROVE TypeOK'
  <2>1. slot' \in [Indices -> Slot]
    BY <1>4, SlotSteps DEF Clear
  <2>. QED BY <1>4, <2>1 DEF Clear, TypeOK
<1>5. ASSUME NEW s \in Indices, Receive(s) PROVE TypeOK'
  <2>1. ClientOf(s) \in Clients
    BY <1>5, LiveClient DEF Receive
  <2>2. UNCHANGED <<owner, full, planner, push, buffers>>
    BY <1>5 DEF Receive
  <2>3. /\ Error \in Answers /\ Success \in Answers /\ InitData \in Answers
        /\ \A fix \in Fixes : LocationConfirm(fix) \in Answers
    BY DEF Answers
  <2>4. ASSUME side' \in Side, UNCHANGED <<slot, history>> PROVE TypeOK'
    BY <2>2, <2>4 DEF TypeOK
  <2>5. ASSUME NEW n \in 0..2, NEW p \in Phases, slot' = [slot EXCEPT ![s].serveFlag = n],
               Enters(ClientOf(s), p), shown' = shown, side' \in Side
        PROVE  TypeOK'
    <3>1. slot' \in [Indices -> Slot]
      BY <2>5, SlotSteps
    <3>2. /\ phase' \in [Clients -> Phases] /\ late' \in [Clients -> Nat]
          /\ served' \subseteq Clients /\ last' \in [Clients -> Pushed]
      BY <2>1, <2>5, EntersType
    <3>. QED BY <2>2, <2>5, <3>1, <3>2 DEF TypeOK
  <2>6. CASE Refuse(s)
    BY <2>3, <2>4, <2>6, AnswerType DEF Refuse
  <2>7. CASE Offer(s)
    BY <2>3, <2>5, <2>7, AnswerType DEF Offer, Phases
  <2>8. CASE End(s)
    BY <2>3, <2>5, <2>8, AnswerType DEF End, Phases
  <2>9. CASE Serve(s)
    <3>1. CASE slot[s].serveFlag = 1
      BY <2>5, <2>9, <3>1 DEF Serve, Phases, TypeOK
    <3>2. CASE slot[s].serveFlag # 1
      BY <2>3, <2>4, <2>9, <3>2, AnswerType DEF Serve, Refuse
    <3>. QED BY <3>1, <3>2
  <2>10. CASE Confirm(s)
    BY <2>3, <2>4, <2>10, AnswerType DEF Confirm
  <2>. QED BY <1>5, <2>6, <2>7, <2>8, <2>9, <2>10 DEF Receive, Unpack, Message103
<1>6. CASE Reply
  BY <1>6, NoneType DEF Reply, TypeOK
<1>7. ASSUME NEW c \in Clients, Fill(c) PROVE TypeOK'
  BY <1>7 DEF Fill, TypeOK
<1>8. ASSUME NEW c \in Clients, Read(c) PROVE TypeOK'
  BY <1>8 DEF Read, TypeOK
<1>. QED BY <1>1, <1>2, <1>3, <1>4, <1>5, <1>6, <1>7, <1>8

(* The planner and the push loop. *)
LEMMA PushTypeStep ==
  ASSUME TypeOK, PushAt, NewCurve \/ Flag \/ ProgramInit \/ Push
  PROVE  TypeOK'
<1>. USE DEF planner, buffers, table, history
<1>a. /\ \A d \in Doings : [push EXCEPT !.doing = d] \in Loop
      /\ \A n \in Places : [push EXCEPT !.slot = n] \in Loop
      /\ \A d \in Doings, n \in Places : [push EXCEPT !.doing = d, !.slot = n] \in Loop
      /\ \A b \in BOOLEAN, n \in Places : [push EXCEPT !.counted = b, !.slot = n] \in Loop
      /\ \A c \in Clients : [push EXCEPT !.to = c] \in Loop
      /\ \A d \in Doings, n \in Places :
           [push EXCEPT !.doing = d, !.slot = n, !.to = Nobody] \in Loop
  BY LoopSteps DEF TypeOK
<1>b. /\ push.slot <= Slots => push.slot + 1 \in Places
      /\ Sending => push.slot + 1 \in Places
  <2>1. push.slot \in Places
    BY LoopType
  <2>. QED BY <2>1, Numbers DEF PushAt
<1>1. CASE NewCurve
  <2>1. curve' \in Curves
    BY <1>1, AppServiceAssumption DEF NewCurve, TypeOK, Curves
  <2>. QED BY <1>1, <2>1 DEF NewCurve, TypeOK
<1>2. CASE Flag
  BY <1>2 DEF Flag, TypeOK
<1>13. CASE ProgramInit
  <2>1. curve' \in Curves /\ wiped' \in Curves
    BY <1>13, AppServiceAssumption DEF ProgramInit, TypeOK, Curves
  <2>. QED BY <1>13, <2>1 DEF ProgramInit, TypeOK
<1>14. CASE Block
  <2>1. push' \in Loop
    BY <1>14, <1>a DEF Block, TypeOK
  <2>. QED BY <1>14, <2>1 DEF Block, TypeOK
<1>3. CASE Count
  <2>1. (push.counted \/ Counted(push.slot)) \in BOOLEAN
    OBVIOUS
  <2>2. push' \in Loop
    BY <1>3, <1>a, <1>b, <2>1 DEF Count
  <2>. QED BY <1>3, <2>2 DEF Count, TypeOK
<1>4. CASE PackPeriod
  <2>1. push' \in Loop
    BY <1>4, <1>a, Numbers DEF PackPeriod, Doings
  <2>2. period \in [curve : Curves, fresh : BOOLEAN] /\ curve \in Curves
        /\ length \in {"none", "204", "205"}
    BY DEF TypeOK
  <2>3. CASE push.counted
    <3>1. Refreshed \in [curve : Curves, fresh : BOOLEAN]
      BY <2>2 DEF Refreshed
    <3>. QED BY <1>4, <2>1, <2>3, <3>1 DEF PackPeriod, TypeOK
  <2>4. CASE ~push.counted
    <3>1. [period EXCEPT !.fresh = FALSE] \in [curve : Curves, fresh : BOOLEAN]
      BY <2>2, Zenon
    <3>2. period' = [period EXCEPT !.fresh = FALSE] /\ length' = length
      BY <1>4, <2>4 DEF PackPeriod
    <3>. QED BY <1>4, <2>1, <3>1, <3>2 DEF PackPeriod, TypeOK
  <2>. QED BY <2>3, <2>4
<1>5. CASE Test
  <2>1. push' \in Loop
    BY <1>5, <1>a, <1>b DEF Test, Doings
  <2>. QED BY <1>5, <2>1 DEF Test, TypeOK
<1>6. CASE Send
  <2> DEFINE c == Addressee
             m == [whole |-> period.fresh /\ length = "204", late |-> c \notin served,
                   curve |-> period.curve, shown |-> shown[c]]
  <2>1. \/ last' = last
        \/ c \in Clients /\ last' = [last EXCEPT ![c] = m]
    BY <1>6 DEF Send, Reached
  <2>5. \/ late' = late
        \/ c \in Clients /\ late' = [late EXCEPT ![c] = @ + 1]
    BY <1>6 DEF Send, Reached
  <2>2. c \in Clients => m \in Pushed
    <3>1. period.curve \in Curves /\ period.fresh \in BOOLEAN
      BY DEF TypeOK
    <3>2. c \in Clients => shown[c] \in Curves
      BY DEF TypeOK
    <3>. QED BY <3>1, <3>2 DEF Pushed
  <2>3. last' \in [Clients -> Pushed] /\ late' \in [Clients -> Nat]
    <3> HIDE DEF c, m
    <3>. QED BY <2>1, <2>2, <2>5 DEF TypeOK
  <2>4. push' \in Loop
    BY <1>6, <1>a, <1>b DEF Send, Sending, Doings
  <2>. QED BY <1>6, <2>3, <2>4 DEF Send, TypeOK
<1>7. Begin => push' \in Loop /\ served' \subseteq Clients
  BY NoneType DEF Begin
<1>8. CASE CheckFlag
  <2>1. push' \in Loop /\ served' \subseteq Clients
    <3>1. CASE flag
      <4>1. push' \in Loop
        BY <1>8, <1>a, <3>1, Numbers DEF CheckFlag, Doings
      <4>. QED BY <1>8, <3>1, <4>1 DEF CheckFlag, TypeOK
    <3>2. CASE ~flag
      BY <1>7, <1>8, <3>2 DEF CheckFlag
    <3>. QED BY <3>1, <3>2
  <2>2. flag' = FALSE /\ UNCHANGED <<table, side, curve, wiped, buffers, phase, late, last, shown>>
    BY <1>8 DEF CheckFlag
  <2>. QED BY <2>1, <2>2 DEF TypeOK
<1>9. CASE PackTrigger
  <2>1. push' \in Loop
    BY <1>9, <1>a DEF PackTrigger, Doings
  <2>. QED BY <1>9, <2>1 DEF PackTrigger, TypeOK
<1>10. CASE TestAll
  <2>1. push' \in Loop
    BY <1>10, <1>a, <1>b DEF TestAll, Doings
  <2>. QED BY <1>10, <2>1 DEF TestAll, TypeOK
<1>11. CASE SendAll
  <2>1. shown' \in [Clients -> Curves]
    BY <1>11 DEF SendAll, Reached, TypeOK
  <2>2. push' \in Loop
    BY <1>11, <1>a, <1>b DEF SendAll, Sending, Doings
  <2>. QED BY <1>11, <2>1, <2>2 DEF SendAll, TypeOK
<1>12. CASE Again
  BY <1>7, <1>12 DEF Again, TypeOK
<1>. QED BY <1>1, <1>2, <1>3, <1>4, <1>5, <1>6, <1>8, <1>9, <1>10, <1>11, <1>12, <1>13,
           <1>14 DEF Push
-----------------------------------------------------------------------------
(* The table *)

LEMMA SameTable ==
  ASSUME owner' = owner,
         \A t \in Indices : slot'[t].fd = slot[t].fd /\ slot'[t].exiting = slot[t].exiting
  PROVE  \A t \in Indices : (Live(t)' <=> Live(t)) /\ ClientOf(t)' = ClientOf(t)
BY DEF Live, ClientOf

LEMMA KeepTable ==
  ASSUME Table, owner' = owner,
         \A t \in Indices : slot'[t].fd = slot[t].fd /\ slot'[t].exiting = slot[t].exiting,
         \A c \in Clients : phase'[c] = "away" <=> phase[c] = "away"
  PROVE  Table'
<1>1. \A t \in Indices : (Live(t)' <=> Live(t)) /\ ClientOf(t)' = ClientOf(t)
  BY SameTable
<1>. QED BY <1>1 DEF Table

LEMMA Alone ==
  ASSUME TypeOK, Table, NEW s \in Indices, NEW t \in Indices, Live(s), Live(t),
         ClientOf(s) = ClientOf(t)
  PROVE  s = t
<1>1. /\ slot[s].fd \in Fds /\ ClientOf(s) = owner[slot[s].fd] /\ ClientOf(s) \in Clients
      /\ slot[t].fd \in Fds /\ ClientOf(t) = owner[slot[t].fd]
  BY LiveClient
<1>2. ClientOf(s) # Nobody
  BY <1>1, AppServiceAssumption
<1>3. slot[s].fd = slot[t].fd
  BY <1>1, <1>2 DEF Table
<1>. QED BY <1>3 DEF Table

(* What the steps of the connections do to the parts of Inv that are about *)
(* the push loop, by what they do to the table.                            *)
LEMMA LateKept ==
  ASSUME TypeOK, LateOnce, NEW c \in Clients, NEW p \in Phases, Enters(c, p), push' = push,
         push.doing = "send" => \A d \in Clients :
           Addressee' = d => late'[d] = 0 \/ Addressee = d
  PROVE  LateOnce'
<1>. SUFFICES ASSUME NEW d \in Clients
              PROVE  /\ late'[d] \in {0, 1}
                     /\ phase'[d] = "served" => late'[d] = 0
                     /\ push'.doing = "send" /\ Addressee' = d => late'[d] = 0
  BY DEF LateOnce
<1>1. late'[d] = late[d] \/ late'[d] = 0
  BY DEF Enters, TypeOK
<1>2. phase'[d] = "served" => phase[d] = "served" \/ late'[d] = 0
  BY DEF Enters, TypeOK
<1>. QED BY <1>1, <1>2 DEF LateOnce

LEMMA CountKept ==
  ASSUME CountedAndPacked, push' = push, UNCHANGED buffers, served' \subseteq served,
         \A d \in served' : phase'[d] = phase[d],
         \A t \in Indices : Live(t)' /\ ClientOf(t)' \in served'
                             => Live(t) /\ ClientOf(t)' = ClientOf(t)
  PROVE  CountedAndPacked'
BY DEF CountedAndPacked, buffers

LEMMA Entered ==
  ASSUME TypeOK, NEW c \in Clients, NEW p \in Phases, Enters(c, p)
  PROVE  /\ served' \subseteq served /\ c \notin served'
         /\ \A d \in served' : phase'[d] = phase[d]
         /\ phase'[c] = p /\ \A d \in Clients \ {c} : phase'[d] = phase[d] /\ late'[d] = late[d]
         /\ FreshIfServed => FreshIfServed'
<1>1. /\ served' \subseteq served /\ c \notin served'
      /\ phase'[c] = p /\ \A d \in Clients \ {c} : phase'[d] = phase[d] /\ late'[d] = late[d]
  BY DEF Enters, TypeOK
<1>2. \A d \in served' : phase'[d] = phase[d]
  BY <1>1 DEF TypeOK
<1>3. last'[c].late /\ \A d \in Clients \ {c} : last'[d] = last[d]
  BY DEF Enters, TypeOK, None
<1>. QED BY <1>1, <1>2, <1>3 DEF FreshIfServed

LEMMA JoinStep ==
  ASSUME Inv, NEW c \in Clients, Join(c)
  PROVE  Table' /\ InServiceAsked' /\ LateOnce' /\ InOrder' /\ CountedAndPacked' /\ FreshIfServed'
<1>. USE DEF Inv
<1>1. PICK s \in Indices, f \in Fds :
        /\ slot[s].fd = NoFd /\ owner[f] = Nobody
        /\ owner' = [owner EXCEPT ![f] = c]
        /\ slot' = [slot EXCEPT ![s] = [Free EXCEPT !.fd = f]]
  BY DEF Join, Usable
<1>2. /\ phase[c] = "away" /\ Enters(c, "connected") /\ shown' = [shown EXCEPT ![c] = 0]
      /\ push' = push /\ UNCHANGED buffers /\ curve' = curve
  BY DEF Join, planner
<1>3. f # NoFd /\ c # Nobody
  BY AppServiceAssumption
<1>4. /\ slot'[s].fd = f /\ ~slot'[s].exiting /\ slot'[s].serveFlag = 0
      /\ \A t \in Indices \ {s} : slot'[t] = slot[t]
  <2>1. /\ [Free EXCEPT !.fd = f].fd = f /\ ~[Free EXCEPT !.fd = f].exiting
        /\ [Free EXCEPT !.fd = f].serveFlag = 0
    BY DEF Free
  <2>. QED BY <1>1, <2>1 DEF TypeOK
<1>5. owner'[f] = c /\ \A g \in Fds \ {f} : owner'[g] = owner[g]
  BY <1>1 DEF TypeOK
<1>6. ~Live(s) /\ Live(s)' /\ ClientOf(s)' = c
  BY <1>1, <1>3, <1>4, <1>5 DEF Live, ClientOf
<1>7. ASSUME NEW t \in Indices \ {s}
      PROVE  /\ Live(t)' <=> Live(t)
             /\ Live(t) => slot[t].fd # f /\ ClientOf(t)' = ClientOf(t) /\ ClientOf(t) # c
             /\ ClientOf(t)' = ClientOf(t) \/ ClientOf(t)' = c
  <2>1. Live(t)' <=> Live(t)
    BY <1>4 DEF Live
  <2>2. Live(t) => slot[t].fd # f
    BY <1>1 DEF Table
  <2>3. slot[t].fd \in Fds \cup {NoFd}
    BY SlotType
  <2>4. ClientOf(t)' = ClientOf(t) \/ (ClientOf(t)' = c /\ slot[t].fd = f)
    BY <1>4, <1>5, <2>3 DEF ClientOf
  <2>5. Live(t) => ClientOf(t) # c
    BY <1>2, LiveClient
  <2>. QED BY <2>1, <2>2, <2>4, <2>5
<1>8. /\ phase'[c] = "connected" /\ \A d \in Clients \ {c} : phase'[d] = phase[d]
      /\ served' \subseteq served /\ c \notin served' /\ \A d \in served' : phase'[d] = phase[d]
      /\ FreshIfServed'
  BY <1>2, Entered DEF Phases
<1>9. late'[c] = 0
  BY <1>2 DEF Enters, TypeOK
<1>10. Table'
  <2>1. \A g, h \in Fds : owner'[g] # Nobody /\ owner'[g] = owner'[h] => g = h
    <3>1. \A g \in Fds : owner[g] # c
      BY <1>2 DEF Table
    <3>. QED BY <1>5, <3>1 DEF Table
  <2>2. \A g \in Fds, d \in Clients : owner'[g] = d => phase'[d] # "away"
    BY <1>5, <1>8 DEF Table
  <2>3. \A t \in Indices : Live(t)' => owner'[slot'[t].fd] # Nobody
    <3>1. ASSUME NEW t \in Indices \ {s}, Live(t) PROVE owner'[slot'[t].fd] # Nobody
      BY <1>4, <1>5, <1>7, <3>1, LiveClient DEF Table
    <3>. QED BY <1>3, <1>4, <1>5, <1>7, <3>1
  <2>4. \A t, u \in Indices : Live(t)' /\ Live(u)' /\ slot'[t].fd = slot'[u].fd => t = u
    BY <1>4, <1>7 DEF Table
  <2>5. \A d \in Clients : phase'[d] # "away" => \E t \in Indices : Live(t)' /\ ClientOf(t)' = d
    <3>1. ASSUME NEW d \in Clients \ {c}, phase'[d] # "away"
          PROVE  \E t \in Indices : Live(t)' /\ ClientOf(t)' = d
      <4>1. PICK t \in Indices : Live(t) /\ ClientOf(t) = d
        BY <1>8, <3>1 DEF Table
      <4>. QED BY <1>6, <1>7, <4>1
    <3>. QED BY <1>6, <3>1
  <2>. QED BY <2>1, <2>2, <2>3, <2>4, <2>5 DEF Table
<1>11. InServiceAsked'
  <2>1. PhaseOf(slot'[s].serveFlag) = "connected"
    BY <1>4 DEF PhaseOf
  <2>2. ASSUME NEW t \in Indices \ {s}, Live(t)'
        PROVE  phase'[ClientOf(t)'] = PhaseOf(slot'[t].serveFlag)
    <3>1. Live(t) /\ ClientOf(t)' = ClientOf(t) /\ ClientOf(t) # c /\ slot'[t] = slot[t]
      BY <1>4, <1>7, <2>2
    <3>2. ClientOf(t) \in Clients
      BY <3>1, LiveClient
    <3>. QED BY <1>8, <3>1, <3>2 DEF InServiceAsked
  <2>. QED BY <1>6, <1>8, <2>1, <2>2 DEF InServiceAsked
<1>12. LateOnce'
  <2>1. push.doing = "send" => \A d \in Clients :
          Addressee' = d => late'[d] = 0 \/ Addressee = d
    <3>1. push.doing = "send" => push.slot \in Indices
      BY DEF PushAt, Sending
    <3>. QED BY <1>2, <1>6, <1>7, <1>9, <3>1 DEF Addressee
  <2>. QED BY <1>2, <2>1, LateKept DEF Phases
<1>13. CountedAndPacked'
  <2>1. \A t \in Indices : Live(t)' /\ ClientOf(t)' \in served'
                             => Live(t) /\ ClientOf(t)' = ClientOf(t)
    BY <1>6, <1>7, <1>8
  <2>. QED BY <1>2, <1>8, <2>1, CountKept
<1>14. InOrder'
  BY <1>2, Numbers DEF InOrder, TypeOK, buffers, Curves
<1>. QED BY <1>8, <1>10, <1>11, <1>12, <1>13, <1>14

LEMMA LeaveStep ==
  ASSUME Inv, NEW s \in Indices, Leave(s)
  PROVE  Table' /\ InServiceAsked' /\ LateOnce' /\ InOrder' /\ CountedAndPacked' /\ FreshIfServed'
<1>. USE DEF Inv
<1> DEFINE f == slot[s].fd
           c == ClientOf(s)
<1>1. /\ Live(s) /\ Enters(c, "away")
      /\ owner' = [owner EXCEPT ![f] = Nobody] /\ slot' = [slot EXCEPT ![s].exiting = TRUE]
      /\ push' = push /\ UNCHANGED buffers /\ curve' = curve /\ shown' = shown
  BY DEF Leave, planner
<1>2. f \in Fds /\ c = owner[f] /\ c \in Clients /\ f # NoFd /\ c # Nobody
  BY <1>1, LiveClient, AppServiceAssumption
<1>3. /\ slot'[s].exiting /\ slot'[s].fd = f
      /\ \A t \in Indices \ {s} : slot'[t] = slot[t]
      /\ owner'[f] = Nobody /\ \A g \in Fds \ {f} : owner'[g] = owner[g]
  <2>1. slot[s] \in Slot
    BY SlotType
  <2>2. [slot[s] EXCEPT !.exiting = TRUE].exiting /\ [slot[s] EXCEPT !.exiting = TRUE].fd = f
    BY <2>1 DEF Slot
  <2>. QED BY <1>1, <1>2, <2>2 DEF TypeOK
<1>4. ~Live(s)' /\ ClientOf(s)' = Nobody
  BY <1>2, <1>3 DEF Live, ClientOf
<1>5. ASSUME NEW t \in Indices \ {s}
      PROVE  /\ Live(t)' <=> Live(t)
             /\ Live(t) => slot[t].fd # f /\ ClientOf(t)' = ClientOf(t) /\ ClientOf(t) # c
             /\ ClientOf(t)' = ClientOf(t) \/ ClientOf(t)' = Nobody
  <2>1. Live(t)' <=> Live(t)
    BY <1>3 DEF Live
  <2>2. Live(t) => slot[t].fd # f
    BY <1>1 DEF Table
  <2>3. slot[t].fd \in Fds \cup {NoFd}
    BY SlotType
  <2>4. ClientOf(t)' = ClientOf(t) \/ (ClientOf(t)' = Nobody /\ slot[t].fd = f)
    BY <1>3, <2>3 DEF ClientOf
  <2>5. Live(t) => ClientOf(t) # c
    BY <1>1, Alone
  <2>. QED BY <2>1, <2>2, <2>4, <2>5
<1> HIDE DEF f, c
<1>6. /\ phase'[c] = "away" /\ \A d \in Clients \ {c} : phase'[d] = phase[d]
      /\ served' \subseteq served /\ c \notin served' /\ \A d \in served' : phase'[d] = phase[d]
      /\ FreshIfServed'
  BY <1>1, <1>2, Entered DEF Phases
<1>7. Table'
  <2>1. \A g, h \in Fds : owner'[g] # Nobody /\ owner'[g] = owner'[h] => g = h
    BY <1>3 DEF Table
  <2>2. \A g \in Fds, d \in Clients : owner'[g] = d => phase'[d] # "away"
    <3>1. \A g \in Fds \ {f} : owner[g] # c
      BY <1>2 DEF Table
    <3>. QED BY <1>2, <1>3, <1>6, <3>1, AppServiceAssumption DEF Table
  <2>3. \A t \in Indices : Live(t)' => owner'[slot'[t].fd] # Nobody
    <3>1. ASSUME NEW t \in Indices \ {s}, Live(t) PROVE owner'[slot'[t].fd] # Nobody
      BY <1>3, <1>5, <3>1, LiveClient DEF Table
    <3>. QED BY <1>4, <1>5, <3>1
  <2>4. \A t, u \in Indices : Live(t)' /\ Live(u)' /\ slot'[t].fd = slot'[u].fd => t = u
    BY <1>3, <1>4, <1>5 DEF Table
  <2>5. \A d \in Clients : phase'[d] # "away" => \E t \in Indices : Live(t)' /\ ClientOf(t)' = d
    <3>1. ASSUME NEW d \in Clients \ {c}, phase'[d] # "away"
          PROVE  \E t \in Indices : Live(t)' /\ ClientOf(t)' = d
      <4>1. PICK t \in Indices : Live(t) /\ ClientOf(t) = d
        BY <1>6, <3>1 DEF Table
      <4>2. t # s
        BY <4>1 DEF c
      <4>. QED BY <1>5, <4>1, <4>2
    <3>. QED BY <1>6, <3>1
  <2>. QED BY <2>1, <2>2, <2>3, <2>4, <2>5 DEF Table
<1>8. InServiceAsked'
  <2>1. ASSUME NEW t \in Indices \ {s}, Live(t)'
        PROVE  phase'[ClientOf(t)'] = PhaseOf(slot'[t].serveFlag)
    <3>1. Live(t) /\ ClientOf(t)' = ClientOf(t) /\ ClientOf(t) # c /\ slot'[t] = slot[t]
      BY <1>3, <1>5, <2>1
    <3>2. ClientOf(t) \in Clients
      BY <3>1, LiveClient
    <3>. QED BY <1>6, <3>1, <3>2 DEF InServiceAsked
  <2>. QED BY <1>4, <2>1 DEF InServiceAsked
<1>9. LateOnce'
  <2>1. push.doing = "send" => \A d \in Clients :
          Addressee' = d => late'[d] = 0 \/ Addressee = d
    <3>1. push.doing = "send" => push.slot \in Indices
      BY DEF PushAt, Sending
    <3>. QED BY <1>1, <1>4, <1>5, <3>1, AppServiceAssumption DEF Addressee
  <2>. QED BY <1>1, <1>2, <2>1, LateKept DEF Phases
<1>10. CountedAndPacked'
  <2>1. \A t \in Indices : Live(t)' /\ ClientOf(t)' \in served'
                             => Live(t) /\ ClientOf(t)' = ClientOf(t)
    BY <1>4, <1>5
  <2>. QED BY <1>1, <1>6, <2>1, CountKept
<1>11. InOrder'
  BY <1>1 DEF InOrder, buffers
<1>. QED BY <1>6, <1>7, <1>8, <1>9, <1>10, <1>11

(* A step that changes no more of the history than that the client of a    *)
(* live slot s comes to phase p.                                           *)
LEMMA FlagStep ==
  ASSUME Inv, NEW s \in Indices, Live(s), NEW n \in 0..2, NEW p \in Phases,
         slot' = [slot EXCEPT ![s].serveFlag = n], p = PhaseOf(n),
         Enters(ClientOf(s), p), UNCHANGED <<owner, planner, push, buffers, shown>>
  PROVE  Table' /\ InServiceAsked' /\ LateOnce' /\ InOrder' /\ CountedAndPacked' /\ FreshIfServed'
<1>. USE DEF Inv
<1> DEFINE c == ClientOf(s)
<1>1. c \in Clients /\ phase[c] # "away"
  BY LiveClient
<1>2. /\ \A t \in Indices : slot'[t].fd = slot[t].fd /\ slot'[t].exiting = slot[t].exiting
      /\ slot'[s].serveFlag = n /\ \A t \in Indices \ {s} : slot'[t] = slot[t]
  <2>1. slot[s] \in Slot
    BY SlotType
  <2>2. LET q == [slot[s] EXCEPT !.serveFlag = n]
        IN  q.fd = slot[s].fd /\ q.exiting = slot[s].exiting /\ q.serveFlag = n
    BY <2>1 DEF Slot
  <2>. QED BY <2>2 DEF TypeOK
<1>3. \A t \in Indices : (Live(t)' <=> Live(t)) /\ ClientOf(t)' = ClientOf(t)
  BY <1>2, SameTable
<1>4. \A t \in Indices \ {s} : Live(t) => ClientOf(t) # c /\ ClientOf(t) \in Clients
  BY Alone, LiveClient
<1> HIDE DEF c
<1>5. /\ phase'[c] = p /\ \A d \in Clients \ {c} : phase'[d] = phase[d]
      /\ served' \subseteq served /\ c \notin served' /\ \A d \in served' : phase'[d] = phase[d]
      /\ FreshIfServed'
  BY <1>1, Entered DEF c
<1>6. p # "away"
  BY DEF PhaseOf
<1>7. Table'
  BY <1>1, <1>2, <1>5, <1>6, KeepTable
<1>8. InServiceAsked'
  <2>1. ASSUME NEW t \in Indices, Live(t)'
        PROVE  phase'[ClientOf(t)'] = PhaseOf(slot'[t].serveFlag)
    <3>1. CASE t = s
      BY <1>2, <1>3, <1>5, <3>1 DEF c
    <3>2. CASE t # s
      BY <1>2, <1>3, <1>4, <1>5, <2>1, <3>2 DEF InServiceAsked
    <3>. QED BY <3>1, <3>2
  <2>. QED BY <2>1 DEF InServiceAsked
<1>9. LateOnce'
  <2>1. push.doing = "send" => Addressee' = Addressee
    BY <1>3 DEF PushAt, Sending, Addressee
  <2>. QED BY <1>1, <2>1, LateKept DEF c
<1>10. CountedAndPacked'
  BY <1>3, <1>5, CountKept
<1>11. InOrder'
  BY DEF InOrder, buffers, planner
<1>. QED BY <1>5, <1>7, <1>8, <1>9, <1>10, <1>11

(* A step that changes nothing of the history and only tells in a slot     *)
(* that it is logged in, or clears one that is closed.                     *)
Quiet ==
  /\ UNCHANGED <<owner, curve, trigger, period, length, push, history>>
  /\ \A t \in Indices :
       /\ Live(t)' <=> Live(t)
       /\ Live(t) => slot'[t].fd = slot[t].fd /\ slot'[t].serveFlag = slot[t].serveFlag
       /\ ClientOf(t)' = ClientOf(t) \/ ClientOf(t)' = Nobody

LEMMA QuietStep ==
  ASSUME Inv, Quiet
  PROVE  Table' /\ InServiceAsked' /\ LateOnce' /\ InOrder' /\ CountedAndPacked' /\ FreshIfServed'
<1>. USE DEF Inv, Quiet, history
<1>1. \A t \in Indices : Live(t) => ClientOf(t)' = ClientOf(t)
  BY DEF ClientOf
<1>2. Table'
  BY <1>1 DEF Table
<1>3. InServiceAsked'
  BY <1>1 DEF InServiceAsked
<1>4. LateOnce'
  <2>1. Nobody \notin Clients
    BY AppServiceAssumption
  <2>2. push.doing = "send" => Addressee' = Addressee \/ Addressee' = Nobody
    BY DEF PushAt, Sending, Addressee
  <2>. QED BY <2>1, <2>2 DEF LateOnce
<1>5. CountedAndPacked'
  BY <1>1 DEF CountedAndPacked
<1>6. InOrder' /\ FreshIfServed'
  BY DEF InOrder, FreshIfServed
<1>. QED BY <1>2, <1>3, <1>4, <1>5, <1>6

LEMMA TableStep ==
  ASSUME Inv,
         \/ \E c \in Clients : Join(c) \/ Fill(c) \/ Read(c)
         \/ \E s \in Indices : Login(s) \/ Leave(s) \/ Clear(s) \/ Receive(s)
         \/ Reply
  PROVE  Inv'
<1> DEFINE Rest == Table /\ InServiceAsked /\ LateOnce /\ InOrder /\ CountedAndPacked /\ FreshIfServed
<1>a. TypeOK /\ Table /\ PushAt
  BY DEF Inv
<1>1. TypeOK'
  BY <1>a, TableTypeStep
<1>2. PushAt'
  <2>1. push' = push
    BY DEF Join, Fill, Read, Login, Leave, Clear, Receive, Reply
  <2>. QED BY <1>a, <2>1 DEF PushAt, Sending
<1>3. ASSUME NEW s \in Indices, Login(s) PROVE Rest'
  <2>1. slot' = [slot EXCEPT ![s].isLogin = TRUE]
        /\ UNCHANGED <<owner, curve, trigger, period, length, push, history>>
    BY <1>3 DEF Login, planner, buffers
  <2>2. \A t \in Indices : slot'[t].fd = slot[t].fd /\ slot'[t].exiting = slot[t].exiting
                            /\ slot'[t].serveFlag = slot[t].serveFlag
    <3>1. slot[s] \in Slot
      BY <1>a, SlotType
    <3>2. LET q == [slot[s] EXCEPT !.isLogin = TRUE]
          IN  q.fd = slot[s].fd /\ q.exiting = slot[s].exiting /\ q.serveFlag = slot[s].serveFlag
      BY <3>1 DEF Slot
    <3>. QED BY <1>a, <2>1, <3>2 DEF TypeOK
  <2>. QED BY <2>1, <2>2, SameTable, QuietStep DEF Quiet
<1>4. ASSUME NEW s \in Indices, Clear(s) PROVE Rest'
  <2>1. slot[s].exiting /\ slot' = [slot EXCEPT ![s] = Free]
        /\ UNCHANGED <<owner, curve, trigger, period, length, push, history>>
    BY <1>4 DEF Clear, planner, buffers
  <2>2. slot'[s].fd = NoFd /\ \A t \in Indices \ {s} : slot'[t] = slot[t]
    BY <1>a, <2>1 DEF Free, TypeOK
  <2>3. \A t \in Indices :
          /\ Live(t)' <=> Live(t)
          /\ Live(t) => slot'[t].fd = slot[t].fd /\ slot'[t].serveFlag = slot[t].serveFlag
          /\ ClientOf(t)' = ClientOf(t) \/ ClientOf(t)' = Nobody
    <3>1. \A t \in Indices \ {s} : (Live(t)' <=> Live(t)) /\ ClientOf(t)' = ClientOf(t)
      BY <2>1, <2>2 DEF Live, ClientOf
    <3>2. ~Live(s) /\ ~Live(s)' /\ ClientOf(s)' = Nobody
      BY <2>1, <2>2 DEF Live, ClientOf
    <3>. QED BY <2>2, <3>1, <3>2
  <2>4. Quiet
    BY <2>1, <2>3 DEF Quiet
  <2>. QED BY <2>4, QuietStep
<1>5. ASSUME slot' = slot, UNCHANGED <<owner, planner, push, buffers, history>> PROVE Rest'
  <2>1. \A t \in Indices : (Live(t)' <=> Live(t)) /\ ClientOf(t)' = ClientOf(t)
    BY <1>5 DEF Live, ClientOf
  <2>. QED BY <1>5, <2>1, QuietStep DEF Quiet, planner, buffers
<1>6. ASSUME NEW s \in Indices, Receive(s) PROVE Rest'
  <2>1. Live(s) /\ UNCHANGED <<owner, planner, push, buffers>>
    BY <1>6 DEF Receive
  <2>2. CASE Refuse(s)
    BY <1>5, <2>1, <2>2 DEF Refuse
  <2>3. CASE Confirm(s)
    BY <1>5, <2>1, <2>3 DEF Confirm
  <2>4. PhaseOf(0) = "connected" /\ PhaseOf(1) = "offered" /\ PhaseOf(2) = "served"
    BY DEF PhaseOf
  <2>5. CASE Offer(s)
    <3>1. slot' = [slot EXCEPT ![s].serveFlag = 1] /\ Enters(ClientOf(s), "offered") /\ shown' = shown
      BY <2>5 DEF Offer
    <3>2. "offered" \in Phases /\ 1 \in 0..2
      BY DEF Phases
    <3>3. UNCHANGED <<owner, planner, push, buffers, shown>>
      BY <2>1, <3>1
    <3>. QED BY <2>1, <2>4, <3>1, <3>2, <3>3, FlagStep
  <2>6. CASE End(s)
    <3>1. slot' = [slot EXCEPT ![s].serveFlag = 0] /\ Enters(ClientOf(s), "connected") /\ shown' = shown
      BY <2>6 DEF End
    <3>2. "connected" \in Phases /\ 0 \in 0..2
      BY DEF Phases
    <3>3. UNCHANGED <<owner, planner, push, buffers, shown>>
      BY <2>1, <3>1
    <3>. QED BY <2>1, <2>4, <3>1, <3>2, <3>3, FlagStep
  <2>7. CASE Serve(s)
    <3>1. CASE slot[s].serveFlag = 1
      BY <2>1, <2>4, <2>7, <3>1, FlagStep DEF Serve, Phases
    <3>2. CASE slot[s].serveFlag # 1
      BY <2>2, <2>7, <3>2 DEF Serve
    <3>. QED BY <3>1, <3>2
  <2>. QED BY <1>6, <2>2, <2>3, <2>5, <2>6, <2>7 DEF Receive, Unpack, Message103
<1>7. ASSUME Reply PROVE Rest'
  BY <1>5, <1>7 DEF Reply, table
<1>10. ASSUME NEW c \in Clients, Fill(c) \/ Read(c) PROVE Rest'
  BY <1>5, <1>10 DEF Fill, Read
<1>8. (\E c \in Clients : Join(c)) => Rest'
  BY JoinStep
<1>9. (\E s \in Indices : Leave(s)) => Rest'
  BY LeaveStep
<1>. QED BY <1>1, <1>2, <1>3, <1>4, <1>6, <1>7, <1>8, <1>9, <1>10 DEF Inv

-----------------------------------------------------------------------------
(* The planner and the push loop *)

(* Where the push loop is, in numbers. *)
LEMMA At ==
  ASSUME TypeOK
  PROVE  /\ push.slot \in Int /\ Slots \in Nat
         /\ push.slot <= Slots => push.slot \in Indices
         /\ \A s \in Indices : s \in Int /\ 1 <= s /\ s <= Slots
<1>1. push.slot \in Places
  BY LoopType
<1>2. push.slot \in Int /\ Slots \in Nat
  BY <1>1, Numbers
<1>3. push.slot <= Slots => push.slot \in Indices
  BY <1>1, Numbers
<1>4. \A s \in Indices : s \in Int /\ 1 <= s /\ s <= Slots
  BY Numbers
<1>. QED BY <1>2, <1>3, <1>4

(* What the fields of `push' are after it was changed. *)
LEMMA LoopFields ==
  ASSUME TypeOK
  PROVE  /\ \A n : LET p == [push EXCEPT !.slot = n]
                   IN  p.doing = push.doing /\ p.slot = n /\ p.to = push.to
         /\ \A d : LET p == [push EXCEPT !.doing = d]
                   IN  p.doing = d /\ p.slot = push.slot /\ p.to = push.to
         /\ \A d, n : LET p == [push EXCEPT !.doing = d, !.slot = n]
                      IN  p.doing = d /\ p.slot = n /\ p.to = push.to
         /\ \A b, n : LET p == [push EXCEPT !.counted = b, !.slot = n]
                      IN  p.doing = push.doing /\ p.slot = n /\ p.counted = b /\ p.to = push.to
         /\ \A c : LET p == [push EXCEPT !.to = c]
                   IN  p.doing = push.doing /\ p.slot = push.slot /\ p.to = c
         /\ \A d, n : LET p == [push EXCEPT !.doing = d, !.slot = n, !.to = Nobody]
                      IN  p.doing = d /\ p.slot = n /\ p.to = Nobody
         /\ Round.doing = "count" /\ Round.slot = 1 /\ Round.to = Nobody
<1>1. push \in Loop
  BY DEF TypeOK
<1>. QED BY <1>1 DEF Loop, Round

(* What each step makes of where the loop is. *)
LEMMA Moves ==
  ASSUME TypeOK
  PROVE  /\ NewCurve \/ Flag \/ ProgramInit => push' = push
         /\ Count => /\ push'.doing = "count" /\ push'.slot = push.slot + 1
                     /\ push'.counted = (push.counted \/ Counted(push.slot))
                     /\ push'.to = push.to
         /\ PackPeriod => push'.doing = "test" /\ push'.slot = 1 /\ push'.to = push.to
         /\ Test => /\ IF InService(push.slot) THEN push'.doing = "send" /\ push'.slot = push.slot
                       ELSE push'.doing = "test"
                    /\ push'.to = push.to
         /\ Block => push'.doing = push.doing /\ push'.slot = push.slot /\ push'.to = Addressee
         /\ Send => push'.doing = "test" /\ push'.to = Nobody
         /\ CheckFlag => IF flag THEN push'.doing = "pack" /\ push'.to = push.to /\ UNCHANGED served
                         ELSE push'.doing = "count" /\ push'.slot = 1 /\ push'.to = Nobody
                              /\ served' = {c \in Clients : Served(c)}
         /\ PackTrigger => push'.doing = "test all" /\ push'.to = push.to
         /\ TestAll => /\ \/ push'.doing = "test all"
                          \/ (push'.doing = "send all" /\ push'.slot = push.slot)
                       /\ push'.to = push.to
         /\ SendAll => push'.doing = "test all" /\ push'.to = Nobody
         /\ Again => push'.doing = "count" /\ push'.slot = 1 /\ push'.to = Nobody
                     /\ served' = {c \in Clients : Served(c)}
<1>a. push \in Loop
  BY DEF TypeOK
<1>1. NewCurve \/ Flag \/ ProgramInit => push' = push
  BY DEF NewCurve, Flag, ProgramInit
<1>2. Count => /\ push'.doing = "count" /\ push'.slot = push.slot + 1
              /\ push'.counted = (push.counted \/ Counted(push.slot)) /\ push'.to = push.to
  BY LoopFields DEF Count
<1>3. PackPeriod => push'.doing = "test" /\ push'.slot = 1 /\ push'.to = push.to
  BY LoopFields DEF PackPeriod
<1>4. Test => /\ IF InService(push.slot) THEN push'.doing = "send" /\ push'.slot = push.slot
                ELSE push'.doing = "test"
             /\ push'.to = push.to
  BY LoopFields DEF Test
<1>11. Block => push'.doing = push.doing /\ push'.slot = push.slot /\ push'.to = Addressee
  BY LoopFields DEF Block
<1>5. Send => push'.doing = "test" /\ push'.to = Nobody
  BY LoopFields DEF Send
<1>6. CheckFlag => IF flag THEN push'.doing = "pack" /\ push'.to = push.to /\ UNCHANGED served
                  ELSE push'.doing = "count" /\ push'.slot = 1 /\ push'.to = Nobody
                       /\ served' = {c \in Clients : Served(c)}
  <2>1. CASE flag
    BY <1>a, <2>1 DEF CheckFlag, Loop
  <2>2. CASE ~flag
    BY <2>2, LoopFields DEF CheckFlag, Begin
  <2>. QED BY <2>1, <2>2
<1>7. PackTrigger => push'.doing = "test all" /\ push'.to = push.to
  BY <1>a DEF PackTrigger, Loop
<1>8. TestAll => /\ \/ push'.doing = "test all"
                   \/ (push'.doing = "send all" /\ push'.slot = push.slot)
                /\ push'.to = push.to
  BY <1>a DEF TestAll, Loop
<1>9. SendAll => push'.doing = "test all" /\ push'.to = Nobody
  BY <1>a DEF SendAll, Loop
<1>10. Again => push'.doing = "count" /\ push'.slot = 1 /\ push'.to = Nobody
               /\ served' = {c \in Clients : Served(c)}
  BY LoopFields DEF Again, Begin
<1>. QED BY <1>1, <1>2, <1>3, <1>4, <1>5, <1>6, <1>7, <1>8, <1>9, <1>10, <1>11

(* A send that waits is to whom it was before. *)
LEMMA BlockSame ==
  ASSUME TypeOK, Block
  PROVE  Addressee' = Addressee
<1>1. /\ push.to = Nobody /\ Addressee \in Clients /\ Addressee = ClientOf(push.slot)
      /\ push'.to = Addressee
  BY Moves DEF Block, TypeOK, Addressee
<1>2. Addressee # Nobody
  BY <1>1, AppServiceAssumption
<1>. QED BY <1>1, <1>2 DEF Addressee

Planner == NewCurve \/ Flag \/ ProgramInit

LEMMA TableStays ==
  ASSUME Planner \/ Push
  PROVE  /\ UNCHANGED <<owner, slot, phase>>
         /\ \A t \in Indices : (Live(t)' <=> Live(t)) /\ ClientOf(t)' = ClientOf(t)
<1>1. UNCHANGED <<owner, slot, phase>>
  BY DEF Planner, Push, NewCurve, Flag, ProgramInit, Count, PackPeriod, Test, Block, Send,
         CheckFlag, PackTrigger, TestAll, SendAll, Again, table, history
<1>. QED BY <1>1 DEF Live, ClientOf

LEMMA PushAtStep ==
  ASSUME Inv, Planner \/ Push
  PROVE  PushAt'
<1>. USE DEF Inv, Sending
<1>1. CASE Planner
  BY <1>1, Moves DEF Planner, PushAt
<1>2. CASE Test
  <2>1. push.slot \in Indices /\ push.to = Nobody
    BY <1>2, At DEF Test, PushAt
  <2>. QED BY <1>2, <2>1, Moves DEF PushAt
<1>3. CASE TestAll
  <2>1. push.slot \in Indices /\ push.to = Nobody
    BY <1>3, At DEF TestAll, PushAt
  <2>. QED BY <1>3, <2>1, Moves DEF PushAt
<1>4. CASE Block
  <2>1. push.doing \in {"send", "send all"}
    BY <1>4 DEF Block
  <2>. QED BY <1>4, <2>1, Moves DEF PushAt
<1>5. CASE Count \/ PackPeriod \/ Send \/ CheckFlag \/ PackTrigger \/ SendAll \/ Again
  <2>1. push'.doing \notin {"send", "send all"}
    BY <1>5, Moves
  <2>2. push'.to = push.to \/ push'.to = Nobody
    BY <1>5, Moves
  <2>3. CASE Send \/ SendAll
    BY <2>1, <2>3, Moves DEF PushAt
  <2>4. CASE Count \/ PackPeriod \/ CheckFlag \/ PackTrigger \/ Again
    <3>1. push.doing \notin {"send", "send all"}
      BY <2>4 DEF Count, PackPeriod, CheckFlag, PackTrigger, Again
    <3>. QED BY <2>1, <2>2, <3>1 DEF PushAt
  <2>. QED BY <1>5, <2>3, <2>4
<1>. QED BY <1>1, <1>2, <1>3, <1>4, <1>5 DEF Push

(* A test finds a client in service, which has got nothing late. *)
LEMMA LateStep ==
  ASSUME Inv, Planner \/ Push
  PROVE  LateOnce'
<1>. USE DEF Inv
<1>1. phase' = phase /\ \A t \in Indices : ClientOf(t)' = ClientOf(t)
  BY TableStays
<1>2. ASSUME late' = late, push'.doing # "send" PROVE LateOnce'
  BY <1>1, <1>2 DEF LateOnce
<1>3. CASE Planner
  <2>1. late' = late /\ push' = push
    BY <1>3 DEF Planner, NewCurve, Flag, ProgramInit, history
  <2>2. push.doing = "send" => Addressee' = Addressee
    BY <1>1, <2>1 DEF PushAt, Sending, Addressee
  <2>. QED BY <1>1, <2>1, <2>2 DEF LateOnce
<1>7. CASE Block
  <2>1. late' = late /\ push'.doing = push.doing /\ Addressee' = Addressee
    BY <1>7, Moves, BlockSame DEF Block, history
  <2>. QED BY <1>1, <2>1 DEF LateOnce
<1>4. CASE Test
  <2>1. push.slot \in Indices /\ late' = late
    BY <1>4, At DEF Test, history
  <2>2. CASE InService(push.slot)
    <3> DEFINE c == ClientOf(push.slot)
    <3>1. Live(push.slot) /\ slot[push.slot].serveFlag = 2
      BY <2>2 DEF InService
    <3>2. phase[c] = "served"
      BY <2>1, <3>1 DEF InServiceAsked, PhaseOf
    <3>3. c \in Clients
      BY <2>1, <3>1, LiveClient
    <3>4. push'.slot = push.slot /\ push'.to = Nobody
      BY <1>4, <2>2, Moves DEF Test, PushAt, Sending
    <3>5. Addressee' = c
      BY <1>1, <2>1, <3>4 DEF Addressee
    <3>. QED BY <1>1, <2>1, <3>2, <3>3, <3>5 DEF LateOnce
  <2>3. CASE ~InService(push.slot)
    BY <1>2, <1>4, <2>1, <2>3, Moves
  <2>. QED BY <2>2, <2>3
<1>5. CASE Send
  <2> DEFINE c == Addressee
  <2>1. /\ push.doing = "send"
        /\ \/ late' = late
           \/ c \in Clients /\ phase[c] # "served" /\ late' = [late EXCEPT ![c] = @ + 1]
    BY <1>5 DEF Send, Reached
  <2>2. c \in Clients => late[c] = 0
    BY <2>1 DEF LateOnce
  <2>3. push'.doing = "test"
    BY <1>5, Moves
  <2> HIDE DEF c
  <2>4. ASSUME NEW d \in Clients
        PROVE  late'[d] \in {0, 1} /\ (phase[d] = "served" => late'[d] = 0)
    <3>1. CASE late'[d] = late[d]
      BY <3>1 DEF LateOnce
    <3>2. CASE late'[d] # late[d]
      <4>1. c \in Clients /\ phase[c] # "served" /\ d = c /\ late'[d] = late[c] + 1
        BY <2>1, <3>2 DEF TypeOK
      <4>. QED BY <2>2, <4>1
    <3>. QED BY <3>1, <3>2
  <2>. QED BY <1>1, <2>3, <2>4 DEF LateOnce
<1>6. CASE Count \/ PackPeriod \/ CheckFlag \/ PackTrigger \/ TestAll \/ SendAll \/ Again
  <2>1. late' = late
    BY <1>6 DEF Count, PackPeriod, CheckFlag, PackTrigger, TestAll, SendAll, Again, history
  <2>2. push'.doing # "send"
    BY <1>6, Moves
  <2>. QED BY <1>2, <2>1, <2>2
<1>. QED BY <1>3, <1>4, <1>5, <1>6, <1>7 DEF Push

LEMMA OrderStep ==
  ASSUME Inv, Planner \/ Push
  PROVE  InOrder'
<1>. USE DEF Inv
<1>1. /\ trigger \in Int /\ curve \in Int /\ \A c \in Clients : shown[c] \in Int
  BY Numbers DEF TypeOK, Curves
<1>2. CASE NewCurve \/ ProgramInit
  BY <1>1, <1>2 DEF NewCurve, ProgramInit, InOrder, buffers, history
<1>3. CASE PackTrigger
  <2>1. trigger' = curve /\ curve' = curve /\ shown' = shown
    BY <1>3 DEF PackTrigger, planner, history
  <2>. QED BY <1>1, <2>1 DEF InOrder
<1>4. CASE SendAll
  <2>1. /\ trigger' = trigger /\ curve' = curve
        /\ \A c \in Clients : shown'[c] = shown[c] \/ shown'[c] = trigger
    BY <1>4 DEF SendAll, Reached, planner, buffers, TypeOK
  <2>. QED BY <1>1, <2>1 DEF InOrder
<1>5. CASE Flag \/ Count \/ PackPeriod \/ Test \/ Block \/ Send \/ CheckFlag \/ TestAll \/ Again
  BY <1>5 DEF Flag, Count, PackPeriod, Test, Block, Send, CheckFlag, TestAll, Again, planner,
              buffers, history, InOrder
<1>. QED BY <1>2, <1>3, <1>4, <1>5 DEF Planner, Push

LEMMA CountStep ==
  ASSUME Inv, Planner \/ Push
  PROVE  CountedAndPacked'
<1>. USE DEF Inv
<1>1. phase' = phase /\ \A t \in Indices : (Live(t)' <=> Live(t)) /\ ClientOf(t)' = ClientOf(t)
  BY TableStays
<1>2. ASSUME UNCHANGED <<push, period, length, trigger, served>> PROVE CountedAndPacked'
  BY <1>1, <1>2 DEF CountedAndPacked
<1>3. ASSUME served' = served, push'.doing \notin {"count", "test", "send"}
      PROVE  CountedAndPacked'
  BY <1>1, <1>3 DEF CountedAndPacked
<1>4. ASSUME push'.doing = "count", push'.slot = 1, served' = {c \in Clients : Served(c)}
      PROVE  CountedAndPacked'
  <2>1. \A s \in Indices : ~(s < push'.slot)
    BY <1>4, At
  <2>2. \A c \in served' : phase'[c] = "served"
    BY <1>1, <1>4 DEF Served
  <2>. QED BY <1>4, <2>1, <2>2 DEF CountedAndPacked
<1>5. CASE Planner
  BY <1>2, <1>5 DEF Planner, NewCurve, Flag, ProgramInit, buffers, history
<1>6. CASE Count
  <2>1. /\ push.doing = "count" /\ push.slot \in Indices /\ served' = served
        /\ push'.doing = "count" /\ push'.slot = push.slot + 1
        /\ push'.counted = (push.counted \/ Counted(push.slot))
    BY <1>6, At, Moves DEF Count, history
  <2>2. ASSUME NEW s \in Indices, Live(s), ClientOf(s) \in served, s < push'.slot
        PROVE  push'.counted
    <3>1. CASE s < push.slot
      BY <2>1, <2>2, <3>1 DEF CountedAndPacked
    <3>2. CASE s = push.slot
      <4>1. PhaseOf(slot[s].serveFlag) = "served"
        BY <2>2 DEF CountedAndPacked, InServiceAsked
      <4>2. slot[s].serveFlag = 2
        BY <4>1, SlotType DEF PhaseOf
      <4>. QED BY <2>1, <3>2, <4>2 DEF Counted
    <3>3. s < push.slot \/ s = push.slot
      BY <2>1, <2>2, At
    <3>. QED BY <3>1, <3>2, <3>3
  <2>3. \A c \in served' : phase'[c] = "served"
    BY <1>1, <2>1 DEF CountedAndPacked
  <2>. QED BY <1>1, <2>1, <2>2, <2>3 DEF CountedAndPacked
<1>7. CASE PackPeriod
  <2>1. /\ push.doing = "count" /\ push.slot > Slots /\ push'.doing = "test"
        /\ UNCHANGED <<trigger, served>>
    BY <1>7, Moves DEF PackPeriod, history
  <2>2. ASSUME served # {} PROVE period'.fresh /\ length' = "204" /\ trigger <= period'.curve
    <3>1. PICK c \in served : phase[c] = "served"
      BY <2>2 DEF CountedAndPacked
    <3>2. PICK s \in Indices : Live(s) /\ ClientOf(s) = c
      BY <3>1 DEF Table, TypeOK
    <3>3. s < push.slot
      BY <2>1, At
    <3>4. push.counted
      BY <2>1, <3>2, <3>3 DEF CountedAndPacked
    <3>5. period' = Refreshed /\ length' = "204"
      BY <1>7, <3>4 DEF PackPeriod
    <3>. QED BY <3>5 DEF Refreshed, InOrder
  <2>3. \A c \in served' : phase'[c] = "served"
    BY <1>1, <2>1 DEF CountedAndPacked
  <2>. QED BY <2>1, <2>2, <2>3 DEF CountedAndPacked
<1>8. CASE Test \/ Send
  <2>1. /\ push.doing \in {"test", "send"} /\ push'.doing \in {"test", "send"}
        /\ UNCHANGED <<period, length, trigger, served>>
    BY <1>8, Moves DEF Test, Send, buffers, history
  <2>. QED BY <1>1, <2>1 DEF CountedAndPacked
<1>9. CASE CheckFlag
  <2>1. CASE flag
    BY <1>3, <1>9, <2>1, Moves
  <2>2. CASE ~flag
    BY <1>4, <1>9, <2>2, Moves
  <2>. QED BY <2>1, <2>2
<1>10. CASE PackTrigger \/ TestAll \/ SendAll
  <2>1. served' = served
    BY <1>10 DEF PackTrigger, TestAll, SendAll, history
  <2>2. push'.doing \notin {"count", "test", "send"}
    BY <1>10, Moves
  <2>. QED BY <1>3, <2>1, <2>2
<1>11. CASE Again
  BY <1>4, <1>11, Moves
<1>12. CASE Block
  <2>1. push.doing \in {"send", "send all"} /\ push'.doing = push.doing
        /\ UNCHANGED <<period, length, trigger, served>>
    BY <1>12, Moves DEF Block, Sending, buffers, history
  <2>. QED BY <1>1, <2>1 DEF CountedAndPacked
<1>. QED BY <1>5, <1>6, <1>7, <1>8, <1>9, <1>10, <1>11, <1>12 DEF Push

LEMMA FreshStep ==
  ASSUME Inv, Planner \/ Push
  PROVE  FreshIfServed'
<1>. USE DEF Inv
<1>1. CASE Send
  <2> DEFINE c == Addressee
             m == [whole |-> period.fresh /\ length = "204", late |-> c \notin served,
                   curve |-> period.curve, shown |-> shown[c]]
  <2>1. /\ push.doing = "send"
        /\ last' = last \/ (c \in Clients /\ last' = [last EXCEPT ![c] = m])
    BY <1>1 DEF Send, Reached
  <2>2. ASSUME c \in Clients, ~m.late PROVE m.whole /\ m.curve >= m.shown
    <3>1. c \in served
      BY <2>2
    <3>2. period.fresh /\ length = "204" /\ trigger <= period.curve /\ shown[c] <= trigger
      BY <2>1, <2>2, <3>1 DEF CountedAndPacked, InOrder
    <3>3. trigger \in Int /\ period.curve \in Int /\ shown[c] \in Int
      <4>1. period.curve \in Curves /\ trigger \in Curves /\ shown[c] \in Curves
        BY <2>2 DEF TypeOK
      <4>. QED BY <4>1, Numbers DEF Curves
    <3>4. m.curve >= m.shown
      BY <3>2, <3>3
    <3>. QED BY <3>2, <3>4
  <2> HIDE DEF c, m
  <2>3. \A d \in Clients : last'[d] = last[d] \/ (c \in Clients /\ d = c /\ last'[d] = m)
    BY <2>1 DEF TypeOK
  <2>. QED BY <2>2, <2>3 DEF FreshIfServed
<1>2. CASE Planner \/ Count \/ PackPeriod \/ Test \/ Block \/ CheckFlag \/ PackTrigger \/ TestAll
           \/ SendAll \/ Again
  <2>1. last' = last
    BY <1>2 DEF Planner, NewCurve, Flag, ProgramInit, Count, PackPeriod, Test, Block,
                CheckFlag, PackTrigger, TestAll, SendAll, Again, history
  <2>. QED BY <2>1 DEF FreshIfServed
<1>. QED BY <1>1, <1>2 DEF Push

LEMMA PushStep ==
  ASSUME Inv, Planner \/ Push
  PROVE  Inv'
<1>1. TypeOK'
  BY PushTypeStep DEF Inv, Planner
<1>2. Table' /\ InServiceAsked'
  BY TableStays DEF Inv, Table, InServiceAsked
<1>. QED BY <1>1, <1>2, PushAtStep, LateStep, OrderStep, CountStep, FreshStep DEF Inv

-----------------------------------------------------------------------------
(* Theorems *)

LEMMA InvInit == Init => Inv
<1>. SUFFICES ASSUME Init PROVE Inv
  OBVIOUS
<1>1. TypeOK
  BY TypeInit
<1>2. push.doing = "count" /\ push.slot = 1
  BY DEF Init, Round
<1>3. \A s \in Indices : slot[s].fd = NoFd /\ ~Live(s)
  BY DEF Init, Free, Live
<1>4. Table
  BY <1>3, AppServiceAssumption DEF Init, Table
<1>5. InServiceAsked /\ PushAt
  BY <1>2, <1>3 DEF InServiceAsked, PushAt, Sending, Init, Round
<1>6. LateOnce /\ CountedAndPacked
  BY <1>2, <1>3 DEF Init, LateOnce, CountedAndPacked
<1>7. InOrder
  BY DEF Init, InOrder
<1>8. FreshIfServed
  BY DEF Init, FreshIfServed, None
<1>. QED BY <1>1, <1>4, <1>5, <1>6, <1>7, <1>8 DEF Inv

LEMMA InvNext == Inv /\ [Next]_vars => Inv'
<1>. SUFFICES ASSUME Inv, [Next]_vars PROVE Inv'
  OBVIOUS
<1>1. CASE UNCHANGED vars
  <2> USE <1>1 DEF vars, Inv
  <2>1. \A t \in Indices : (Live(t)' <=> Live(t)) /\ ClientOf(t)' = ClientOf(t)
    BY DEF Live, ClientOf
  <2>2. TypeOK' /\ PushAt'
    BY DEF TypeOK, PushAt, Sending
  <2>3. Table' /\ InServiceAsked'
    BY <2>1 DEF Table, InServiceAsked
  <2>4. LateOnce'
    <3>1. push.doing = "send" => Addressee' = Addressee
      BY <2>1 DEF PushAt, Sending, Addressee
    <3>. QED BY <3>1 DEF LateOnce
  <2>5. CountedAndPacked'
    BY <2>1 DEF CountedAndPacked
  <2>6. InOrder' /\ FreshIfServed'
    BY DEF InOrder, FreshIfServed
  <2>. QED BY <2>2, <2>3, <2>4, <2>5, <2>6
<1>2. CASE \/ \E c \in Clients : Join(c) \/ Fill(c) \/ Read(c)
           \/ \E s \in Indices : Login(s) \/ Leave(s) \/ Clear(s) \/ Receive(s)
           \/ Reply
  BY <1>2, TableStep
<1>3. CASE Planner \/ Push
  BY <1>3, PushStep
<1>. QED BY <1>1, <1>2, <1>3 DEF Next, Planner

LEMMA InvAlways == Spec => []Inv
BY InvInit, InvNext, PTL DEF Spec

(* Every variable keeps to its values (WebServer.h:76-91). *)
THEOREM TypeCorrect == Spec => []TypeOK
BY InvAlways, PTL DEF Inv

(* The flags of the table are what the clients have asked for, on the      *)
(* connections they have now (WebServer.c:125, 141, 1190, 1204, 1235).     *)
THEOREM FlagsAsked == Spec => []InServiceAsked
BY InvAlways, PTL DEF Inv

(* Who is in service since the round began gets a message of the round     *)
(* (WebServer.c:544-553).                                                  *)
THEOREM Fresh == Spec => []FreshIfServed
BY InvAlways, PTL DEF Inv

-----------------------------------------------------------------------------
(* The refinement *)

LEMMA EntersGoto ==
  ASSUME NEW c, NEW p, Enters(c, p)
  PROVE  S!Goto(c, p)
BY DEF Enters, S!Goto

LEMMA SessionStep ==
  ASSUME Inv, [Next]_vars
  PROVE  S!Next \/ UNCHANGED <<phase, late>>
<1>1. ASSUME NEW c \in Clients, Join(c) PROVE S!Next
  <2>1. S!Connect(c)
    BY <1>1, EntersGoto DEF Join, S!Connect
  <2>. QED BY <2>1 DEF S!Next
<1>2. ASSUME NEW s \in Indices, Live(s)
      PROVE  ClientOf(s) \in Clients /\ phase[ClientOf(s)] # "away"
  BY <1>2, LiveClient DEF Inv
<1>3. ASSUME NEW s \in Indices, Leave(s) PROVE S!Next
  <2>1. S!Leave(ClientOf(s)) /\ ClientOf(s) \in Clients
    BY <1>2, <1>3, EntersGoto DEF Leave, S!Leave
  <2>. QED BY <2>1 DEF S!Next
<1>4. ASSUME NEW s \in Indices, Receive(s) PROVE S!Next \/ UNCHANGED <<phase, late>>
  <2> DEFINE c == ClientOf(s)
  <2>1. Live(s) /\ c \in Clients /\ phase[c] # "away"
    BY <1>2, <1>4 DEF Receive
  <2>2. CASE Refuse(s) \/ Confirm(s)
    BY <2>2 DEF Refuse, Confirm, history
  <2>3. CASE Offer(s)
    <3>1. S!Offer(c)
      BY <2>1, <2>3, EntersGoto DEF Offer, S!Offer
    <3>. QED BY <2>1, <3>1 DEF S!Next
  <2>4. CASE End(s)
    <3>1. S!End(c)
      BY <2>1, <2>4, EntersGoto DEF End, S!End
    <3>. QED BY <2>1, <3>1 DEF S!Next
  <2>5. CASE Serve(s)
    <3>1. CASE slot[s].serveFlag = 1
      <4>1. phase[c] = "offered"
        BY <2>1, <3>1 DEF Inv, InServiceAsked, PhaseOf
      <4>2. S!Serve(c)
        BY <2>5, <3>1, <4>1, EntersGoto DEF Serve, S!Serve
      <4>. QED BY <2>1, <4>2 DEF S!Next
    <3>2. CASE slot[s].serveFlag # 1
      BY <2>5, <3>2 DEF Serve, Refuse, history
    <3>. QED BY <3>1, <3>2
  <2>. QED BY <1>4, <2>2, <2>3, <2>4, <2>5 DEF Receive, Unpack, Message103
<1>5. CASE Send
  <2> DEFINE c == Addressee
  <2>1. /\ push.doing = "send" /\ phase' = phase
        /\ \/ late' = late
           \/ c \in Clients /\ phase[c] # "served" /\ late' = [late EXCEPT ![c] = @ + 1]
    BY <1>5 DEF Send, Reached
  <2>2. CASE /\ c \in Clients /\ phase[c] # "served"
             /\ late' = [late EXCEPT ![c] = @ + 1]
    <3>1. late[c] = 0
      BY <2>1, <2>2 DEF Inv, LateOnce
    <3> HIDE DEF c
    <3>2. late' = [late EXCEPT ![c] = 1]
      BY <2>1, <2>2, <3>1
    <3>3. S!PushLate(c)
      BY <2>1, <2>2, <3>1, <3>2 DEF S!PushLate
    <3>. QED BY <2>2, <3>3 DEF S!Next
  <2>3. CASE late' = late
    BY <2>1, <2>3
  <2>. QED BY <2>1, <2>2, <2>3
<1>6. CASE \/ \E s \in Indices : Login(s) \/ Clear(s)
           \/ \E c \in Clients : Fill(c) \/ Read(c)
           \/ Reply \/ Planner
           \/ Count \/ PackPeriod \/ Test \/ Block \/ CheckFlag \/ PackTrigger \/ TestAll
           \/ SendAll \/ Again
           \/ UNCHANGED vars
  BY <1>6 DEF Login, Clear, Fill, Read, Reply, Planner, NewCurve, Flag, ProgramInit, Count,
              PackPeriod, Test, Block, CheckFlag, PackTrigger, TestAll, SendAll, Again, history,
              vars
<1>. QED BY <1>1, <1>3, <1>4, <1>5, <1>6 DEF Next, Push, Planner

(* The table of the clients, the loop that tests and sends and the thread  *)
(* that closes and reuses what is tested implement what Session promises   *)
(* (WebServer.c:551-553, 1233).                                            *)
THEOREM ImplementsSession == Spec => IsSession
<1>1. Init => S!Init
  BY DEF Init, S!Init
<1>2. Inv /\ [Next]_vars => [S!Next]_<<phase, late>>
  BY SessionStep
<1>. QED BY <1>1, <1>2, InvAlways, PTL DEF Spec, IsSession, S!Spec
=============================================================================
