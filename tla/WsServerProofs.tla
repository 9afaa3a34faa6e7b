--------------------------- MODULE WsServerProofs ---------------------------
(***************************************************************************)
(* The WebSocket server for any number of clients, descriptors and slots.  *)
(***************************************************************************)
EXTENDS WsServer, TLAPS

(* The connection the main thread has accepted is in no open slot yet. *)
InHand ==
  main \in Fds => owner[main] # Nobody /\ \A s \in Slots : slot[s].fd = main => Gone(s)

(* The slot that is removed or received from is open; it is marked as      *)
(* exiting if it is removed.                                               *)
AtHand ==
  /\ side.doing \in Receiving => side.at # Nobody
  /\ side.at # Nobody =>
       /\ side.doing \in {"events", "detect"} \cup Receiving
       /\ slot[side.at].fd # NoFd
       /\ slot[side.at].isExiting = (side.doing \notin Receiving)

(* A slot that is being removed, or has a thread to clear it, is exiting.  *)
Exiting ==
  \A s \in Slots :
    /\ s \in exits => slot[s].isExiting /\ s # side.at
    /\ s = side.at /\ side.doing \notin Receiving => slot[s].isExiting

(* A slot has one event at most, and those of a round are seen to before   *)
(* the slots are looked at.                                                *)
EventsApart ==
  /\ \A d, e \in side.events : d.slot = e.slot => d = e
  /\ \A e \in side.events : e.slot # side.at
  /\ side.events # {} => side.doing \in {"events"} \cup Receiving

Open == SlotsHaveConnections

Inv == TypeOK /\ Open /\ EventsOfTheSlot /\ InHand /\ AtHand /\ Exiting /\ EventsApart

-----------------------------------------------------------------------------
(* Types *)

LEMMA ClientOfType ==
  ASSUME TypeOK, NEW s \in Slots
  PROVE  ClientOf(s) \in Clients \cup {Nobody}
BY DEF TypeOK, ClientOf

LEMMA DeleteType ==
  ASSUME TypeOK, NEW s \in Slots, NEW t \in ExitTypes, Delete(s, t)
  PROVE  /\ slot' \in [Slots -> [fd : Fds \cup {NoFd}, exitType : ExitTypes,
                                 isLogin : BOOLEAN, isExiting : BOOLEAN,
                                 loginTimeout : 0..Rounds]]
BY DEF TypeOK, Delete

Slot == [fd : Fds \cup {NoFd}, exitType : ExitTypes, isLogin : BOOLEAN, isExiting : BOOLEAN,
         loginTimeout : 0..Rounds]

LEMMA ClearedType ==
  /\ Cleared \in Slot
  /\ \A f \in Fds : [Cleared EXCEPT !.fd = f] \in Slot
<1>1. 0 \in 0..Rounds
  BY WsServerAssumption
<1>. QED BY <1>1 DEF Slot, Cleared, ExitTypes

LEMMA TypeInit == Init => TypeOK
<1>. SUFFICES ASSUME Init PROVE TypeOK
  OBVIOUS
<1>1. slot \in [Slots -> Slot]
  BY ClearedType DEF Init
<1>2. side \in [doing : {"wait", "events", "detect"} \cup Receiving, events : SUBSET Event,
                slots : SUBSET Slots, at : Slots \cup {Nobody}]
  BY DEF Init
<1>3. owner \in [Fds -> Clients \cup {Nobody}] /\ inbox \in [Clients -> Requests \cup {"none"}]
  BY DEF Init
<1>4. main \in Points
  BY DEF Init, Points
<1>. QED BY <1>1, <1>2, <1>3, <1>4 DEF Init, TypeOK, Slot

LEMMA TypeStep == TypeOK /\ AtHand /\ [Next]_vars => TypeOK'
<1>. SUFFICES ASSUME TypeOK, AtHand, [Next]_vars PROVE TypeOK'
  OBVIOUS
<1>. USE DEF kernel, clients
<1>1. ASSUME NEW c \in Clients, Connect(c) \/ Say(c) \/ Fill(c) \/ Read(c) \/ Vanish(c) PROVE TypeOK'
  <2>1. CASE Connect(c)
    BY <2>1 DEF TypeOK, Connect
  <2>2. CASE Say(c)
    BY <2>2 DEF TypeOK, Say
  <2>3. CASE Fill(c)
    BY <2>3 DEF TypeOK, Fill
  <2>4. CASE Read(c)
    BY <2>4 DEF TypeOK, Read
  <2>5. CASE Vanish(c)
    BY <2>5 DEF TypeOK, Vanish
  <2>. QED BY <1>1, <2>1, <2>2, <2>3, <2>4, <2>5
<1>2. CASE Main
  <2>1. CASE MainWake
    BY <2>1 DEF MainWake, TypeOK, Points
  <2>2. CASE MainAccept
    BY <2>2 DEF MainAccept, TypeOK
  <2>3. CASE MainAcceptFails
    BY <2>3 DEF MainAcceptFails, TypeOK, Points
  <2>4. CASE MainAdd
    <3>1. slot' \in [Slots -> Slot]
      BY <2>4, ClearedType DEF MainAdd, TypeOK, Slot
    <3>. QED BY <2>4, <3>1 DEF MainAdd, TypeOK, Slot, Points
  <2>5. CASE MainStart
    BY <2>5 DEF MainStart, TypeOK, Points
  <2>. QED BY <1>2, <2>1, <2>2, <2>3, <2>4, <2>5 DEF Main
<1>3. CASE SideWait
  <2>1. ASSUME NEW s \in Registered, Ready(ClientOf(s))
        PROVE  [slot |-> s, hup |-> peer[ClientOf(s)] = "reset", client |-> ClientOf(s)] \in Event
    <3>1. s \in Slots /\ ClientOf(s) \in Clients
      BY <2>1, ClientOfType DEF Registered, Ready
    <3>2. (peer[ClientOf(s)] = "reset") \in BOOLEAN
      OBVIOUS
    <3>. QED BY <3>1, <3>2 DEF Event
  <2>2. Events \subseteq Event
    BY <2>1 DEF Events
  <2>. QED BY <1>3, <2>2 DEF SideWait, TypeOK
<1>4. CASE SideClose
  <2>1. side.at \in Slots
    BY <1>4 DEF SideClose, NewThread, TypeOK
  <2>. QED BY <1>4, <2>1 DEF SideClose, NewThread, TypeOK
<1>5. CASE SideTake
  <2> DEFINE s == side.at
             m == inbox[ClientOf(s)]
  <2>1. s \in Slots /\ ClientOf(s) \in Clients
    <3>1. s \in Slots
      BY <1>5 DEF SideTake, TypeOK, AtHand, Receiving
    <3>2. Ready(ClientOf(s))
      BY <1>5 DEF SideTake
    <3>. QED BY <3>1, <3>2, ClientOfType DEF Ready
  <2>2. slot' = slot \/ slot' = [slot EXCEPT ![s] = Taken(slot[s], m)]
    BY <1>5 DEF SideTake
  <2>3. slot[s] \in Slot
    BY <2>1 DEF TypeOK, Slot
  <2>4. Taken(slot[s], m) \in Slot
    BY <2>3 DEF Taken, Slot, ExitTypes
  <2>5. slot' \in [Slots -> Slot]
    BY <2>1, <2>2, <2>4 DEF TypeOK, Slot
  <2>6. inbox' \in [Clients -> Requests \cup {"none"}]
    BY <1>5, <2>1 DEF SideTake, TypeOK
  <2>7. \/ \E d \in Receiving : side' = [side EXCEPT !.doing = d]
        \/ side' = [side EXCEPT !.doing = "events", !.at = Nobody]
    BY <1>5 DEF SideTake, Receiving
  <2>8. UNCHANGED <<queue, edge, owner, peer, full, main, exits, push>>
    BY <1>5 DEF SideTake
  <2>. QED BY <2>5, <2>6, <2>7, <2>8 DEF TypeOK, Slot
<1>15. CASE SideReply
  <2> DEFINE s == side.at
             c == ClientOf(s)
  <2>1. s \in Slots /\ c \in Clients \cup {Nobody}
    <3>1. s \in Slots
      BY <1>15 DEF SideReply, Replying, TypeOK, AtHand, Receiving
    <3>. QED BY <3>1, ClientOfType
  <2>2. \/ slot' = slot
        \/ slot' = [slot EXCEPT ![s].isLogin = TRUE]
        \/ slot' = [slot EXCEPT ![s].exitType = "LOGIN"]
    <3>1. CASE side.doing = "reply"
      BY <1>15, <3>1 DEF SideReply
    <3>2. CASE side.doing = "handshake" /\ peer[c] # "reset"
      BY <1>15, <3>2 DEF SideReply
    <3>3. CASE side.doing = "handshake" /\ peer[c] = "reset"
      BY <1>15, <3>3 DEF SideReply
    <3>. QED BY <1>15, <3>1, <3>2, <3>3 DEF SideReply, Replying
  <2>3. slot' \in [Slots -> Slot]
    <3>1. slot \in [Slots -> Slot] /\ slot[s] \in Slot
      BY <2>1 DEF TypeOK, Slot
    <3>2. /\ [slot[s] EXCEPT !.isLogin = TRUE] \in Slot
          /\ [slot[s] EXCEPT !.exitType = "LOGIN"] \in Slot
      BY <3>1 DEF Slot, ExitTypes
    <3>. QED BY <2>1, <2>2, <3>1, <3>2
  <2>4. peer' \in [Clients -> {"away", "open", "closed", "reset"}]
    <3>1. peer' = peer \/ (c \in Clients /\ peer' = [peer EXCEPT ![c] = "reset"])
      BY <1>15 DEF SideReply, SentTo
    <3>. QED BY <3>1 DEF TypeOK
  <2>5. side' = [side EXCEPT !.doing = "events", !.at = Nobody]
    BY <1>15 DEF SideReply
  <2>6. UNCHANGED <<queue, edge, owner, inbox, full, main, exits, push>>
    BY <1>15 DEF SideReply
  <2>. QED BY <2>3, <2>4, <2>5, <2>6 DEF TypeOK, Slot
<1>6. CASE SideDetect
  BY <1>6 DEF SideDetect, TypeOK
<1>7. CASE SideAgain
  BY <1>7 DEF SideAgain, TypeOK
<1>8. ASSUME NEW e \in side.events, SideHup(e) PROVE TypeOK'
  <2>1. e.slot \in Slots
    BY DEF TypeOK, Event
  <2>. QED BY <1>8, <2>1, DeleteType DEF SideHup, TypeOK, ExitTypes
<1>9. ASSUME NEW e \in side.events, SideRecv(e) PROVE TypeOK'
  <2>1. e.slot \in Slots
    BY DEF TypeOK, Event
  <2>. QED BY <1>9, <2>1 DEF SideRecv, TypeOK, Receiving
<1>10. ASSUME NEW s \in Slots, SideLook(s) PROVE TypeOK'
  <2>1. CASE Delete(s, slot[s].exitType) /\ side' = [side EXCEPT !.slots = @ \ {s}, !.at = s]
    <3>1. slot[s].exitType \in ExitTypes
      BY DEF TypeOK
    <3>. QED BY <1>10, <2>1, <3>1, DeleteType DEF SideLook, TypeOK
  <2>2. CASE Counted(s)
    <3>1. CASE slot[s].loginTimeout < Rounds
      <4>1. slot[s].loginTimeout + 1 \in 0..Rounds
        BY <3>1, WsServerAssumption DEF TypeOK
      <4>2. /\ slot' = [slot EXCEPT ![s].loginTimeout = slot[s].loginTimeout + 1]
            /\ side' = [side EXCEPT !.slots = @ \ {s}]
        BY <2>2, <3>1 DEF Counted
      <4>. QED BY <1>10, <4>1, <4>2 DEF SideLook, TypeOK
    <3>2. CASE ~(slot[s].loginTimeout < Rounds)
      <4>1. Delete(s, "LOGIN_TIMEOUT") /\ side' = [side EXCEPT !.slots = @ \ {s}, !.at = s]
        BY <2>2, <3>2 DEF Counted
      <4>. QED BY <1>10, <4>1, DeleteType DEF SideLook, TypeOK, ExitTypes
    <3>. QED BY <3>1, <3>2
  <2>3. CASE side' = [side EXCEPT !.slots = @ \ {s}] /\ UNCHANGED slot
    BY <1>10, <2>3 DEF SideLook, TypeOK
  <2>. QED BY <1>10, <2>1, <2>2, <2>3 DEF SideLook
<1>11. ASSUME NEW s \in Slots, Exit(s) PROVE TypeOK'
  <2>1. slot' \in [Slots -> Slot]
    BY <1>11, ClearedType DEF Exit, TypeOK, Slot
  <2>. QED BY <1>11, <2>1 DEF Exit, TypeOK, Slot
<1>12. ASSUME NEW s \in Slots, PushTest(s) PROVE TypeOK'
  BY <1>12 DEF PushTest, TypeOK
<1>13. CASE PushSend
  BY <1>13 DEF PushSend, SentTo, TypeOK
<1>14. CASE UNCHANGED vars
  BY <1>14 DEF vars, TypeOK
<1>. QED
  BY <1>1, <1>2, <1>3, <1>4, <1>5, <1>6, <1>7, <1>8, <1>9, <1>10, <1>11, <1>12, <1>13, <1>14, <1>15
  DEF Next, Side

-----------------------------------------------------------------------------
(* Connections *)

Rest == Open /\ EventsOfTheSlot /\ InHand /\ AtHand /\ Exiting /\ EventsApart

(* Nothing of the server but what is received has changed. *)
LEMMA SameStep ==
  ASSUME Inv, UNCHANGED <<owner, slot, main, side, exits>>
  PROVE  Rest'
BY DEF Inv, Rest, Open, SlotsHaveConnections, EventsOfTheSlot, InHand, AtHand, Exiting,
       EventsApart, Gone, ClientOf

(* The main thread takes a descriptor that is free and a slot that is. *)
LEMMA MainStep ==
  ASSUME Inv, TypeOK', Main
  PROVE  Rest'
<1>. USE WsServerAssumption DEF Inv, TypeOK, Rest, kernel, clients, Points
<1>5. CASE MainStart
  BY <1>5 DEF MainStart, Open, SlotsHaveConnections, EventsOfTheSlot, InHand, AtHand, Exiting,
              EventsApart, Gone, ClientOf
<1>1. CASE MainWake
  BY <1>1 DEF MainWake, Open, SlotsHaveConnections, EventsOfTheSlot, InHand, AtHand, Exiting,
              EventsApart, Gone, ClientOf
<1>2. CASE MainAccept
  <2>1. PICK c \in queue, f \in Fds :
          owner[f] = Nobody /\ owner' = [owner EXCEPT ![f] = c] /\ main' = f
    BY <1>2 DEF MainAccept
  <2>2. UNCHANGED <<slot, side, exits>>
    BY <1>2 DEF MainAccept
  <2>3. c \in Clients /\ c # Nobody
    BY DEF TypeOK
  <2>4. \A s \in Slots : slot[s].fd = f => Gone(s)
    BY <2>1 DEF Open, SlotsHaveConnections, ClientOf
  <2>5. Open'
    BY <2>1, <2>2, <2>3 DEF Open, SlotsHaveConnections, ClientOf, Gone
  <2>6. EventsOfTheSlot'
    <3>1. ASSUME NEW e \in side.events
          PROVE  slot[e.slot].fd # NoFd /\ slot[e.slot].fd # f /\ slot[e.slot].fd \in Fds
      <4>1. e.slot \in Slots /\ e.client \in Clients
        BY DEF Event
      <4>. QED BY <2>1, <4>1 DEF EventsOfTheSlot, ClientOf
    <3>. QED BY <2>1, <2>2, <3>1 DEF EventsOfTheSlot, ClientOf
  <2>7. InHand'
    BY <2>1, <2>2, <2>3, <2>4 DEF InHand, Gone
  <2>. QED BY <2>2, <2>5, <2>6, <2>7 DEF AtHand, Exiting, EventsApart
<1>3. CASE MainAcceptFails
  BY <1>3 DEF MainAcceptFails, Open, SlotsHaveConnections, EventsOfTheSlot, InHand, AtHand,
              Exiting, EventsApart, Gone, ClientOf
<1>4. CASE MainAdd
  <2>1. CASE UNCHANGED slot
    BY <1>4, <2>1 DEF MainAdd, Open, SlotsHaveConnections, EventsOfTheSlot, InHand, AtHand,
                      Exiting, EventsApart, Gone, ClientOf
  <2>2. ASSUME NEW s \in Slots, Usable(s), slot' = [slot EXCEPT ![s] = [Cleared EXCEPT !.fd = main]]
        PROVE  Rest'
    <3>1. UNCHANGED <<owner, side, exits>> /\ main \in Fds /\ main' = "wait"
      BY <1>4 DEF MainAdd
    <3>2. slot'[s].fd = main /\ ~slot'[s].isExiting
      BY <2>2 DEF Cleared
    <3>3. \A t \in Slots \ {s} : slot'[t] = slot[t]
      BY <2>2
    <3>4. s # side.at /\ s \notin exits
      BY <2>2 DEF Usable, AtHand, Exiting
    <3>5. \A t \in Slots : slot[t].fd = main => Gone(t)
      BY <3>1 DEF InHand
    <3>6. \A t \in Slots \ {s} : Gone(t)' = Gone(t) /\ ClientOf(t)' = ClientOf(t)
      BY <3>1, <3>3 DEF Gone, ClientOf
    <3>7. ClientOf(s)' = owner[main] /\ owner[main] # Nobody
      BY <3>1, <3>2 DEF ClientOf, InHand
    <3>8. Open'
      BY <3>1, <3>2, <3>3, <3>5, <3>6, <3>7 DEF Open, SlotsHaveConnections
    <3>9. EventsOfTheSlot'
      <4>1. ASSUME NEW e \in side.events PROVE e.slot \in Slots \ {s}
        <5>1. e.slot \in Slots /\ e.client \in Clients
          BY DEF Event
        <5>. QED BY <2>2, <5>1 DEF Usable, EventsOfTheSlot, ClientOf
      <4>. QED BY <3>1, <3>3, <3>6, <4>1 DEF EventsOfTheSlot
    <3>10. InHand'
      BY <3>1 DEF InHand
    <3>11. AtHand' /\ Exiting' /\ EventsApart'
      BY <3>1, <3>2, <3>3, <3>4 DEF AtHand, Exiting, EventsApart
    <3>. QED BY <3>8, <3>9, <3>10, <3>11
  <2>. QED BY <1>4, <2>1, <2>2 DEF MainAdd
<1>. QED BY <1>1, <1>2, <1>3, <1>4, <1>5 DEF Main

(* A slot is marked as exiting and at hand: it was open, and had no thread *)
(* to clear it.                                                            *)
LEMMA DeleteStep ==
  ASSUME Inv, TypeOK', NEW s \in Slots, NEW t \in ExitTypes, Delete(s, t),
         slot[s].fd # NoFd, ~slot[s].isExiting, side.at = Nobody,
         side'.at = s, side'.doing \in {"events", "detect"},
         side'.events \subseteq side.events, side'.doing = side.doing,
         \A e \in side'.events : e.slot # s,
         UNCHANGED <<owner, main, exits>>
  PROVE  Rest'
<1>. USE WsServerAssumption DEF Inv, TypeOK, Rest, Receiving
<1>1. slot'[s].isExiting /\ slot'[s].fd = slot[s].fd
  BY DEF Delete
<1>2. \A u \in Slots \ {s} : slot'[u] = slot[u]
  BY DEF Delete
<1>3. \A u \in Slots : Gone(u)' = Gone(u) /\ ClientOf(u)' = ClientOf(u)
  BY <1>1, <1>2 DEF Gone, ClientOf
<1>4. Open' /\ InHand'
  BY <1>1, <1>2, <1>3 DEF Open, SlotsHaveConnections, InHand
<1>5. EventsOfTheSlot'
  <2>1. \A e \in side'.events : e.slot \in Slots \ {s}
    BY DEF Event
  <2>. QED BY <1>2, <1>3, <2>1 DEF EventsOfTheSlot
<1>6. AtHand'
  BY <1>1 DEF AtHand
<1>7. Exiting'
  BY <1>1, <1>2 DEF Exiting
<1>8. EventsApart'
  BY DEF EventsApart
<1>. QED BY <1>4, <1>5, <1>6, <1>7, <1>8

(* The side thread closes only what is open, and its own. *)
LEMMA CloseStep ==
  ASSUME Inv, TypeOK', SideClose
  PROVE  Rest'
<1>. USE WsServerAssumption DEF Inv, TypeOK, Rest, Receiving
<1>0. PICK s \in Slots : s = side.at
  BY DEF SideClose
<1>1. slot[s].fd \in Fds /\ slot[s].isExiting /\ ~Gone(s)
  BY <1>0 DEF SideClose, AtHand, Gone
<1>2. /\ owner' = [owner EXCEPT ![slot[s].fd] = Nobody]
      /\ side' = [side EXCEPT !.at = Nobody]
      /\ exits' \subseteq exits \cup {s}
      /\ UNCHANGED <<slot, main>>
  BY <1>0 DEF SideClose, NewThread
<1>3. Gone(s)' /\ \A u \in Slots \ {s} : Gone(u)' = Gone(u)
  BY <1>0, <1>1, <1>2 DEF Gone
<1>4. \A u \in Slots \ {s} : slot[u].fd = slot[s].fd => Gone(u)
  BY <1>1 DEF Open, SlotsHaveConnections
<1>5. \A u \in Slots \ {s} : ~Gone(u) => ClientOf(u)' = ClientOf(u)
  BY <1>1, <1>2, <1>4 DEF ClientOf
<1>6. Open'
  BY <1>2, <1>3, <1>5 DEF Open, SlotsHaveConnections
<1>7. EventsOfTheSlot'
  <2>1. \A e \in side.events : e.slot \in Slots \ {s} /\ ~Gone(e.slot)
    BY <1>0 DEF Event, EventsOfTheSlot, EventsApart, Gone
  <2>. QED BY <1>2, <1>5, <2>1 DEF EventsOfTheSlot
<1>8. InHand'
  BY <1>1, <1>2, <1>3 DEF InHand
<1>9. AtHand' /\ Exiting' /\ EventsApart'
  <2>1. AtHand'
    BY <1>2 DEF SideClose, AtHand
  <2>2. Exiting'
    BY <1>0, <1>1, <1>2 DEF SideClose, Exiting
  <2>3. EventsApart'
    BY <1>2, WsServerAssumption DEF SideClose, EventsApart, Event
  <2>. QED BY <2>1, <2>2, <2>3
<1>. QED BY <1>6, <1>7, <1>8, <1>9

(* A round of receiving and looking.                                       *)
LEMMA SideStep ==
  ASSUME Inv, TypeOK', Side
  PROVE  Rest'
<1>. USE WsServerAssumption DEF Inv, TypeOK, Rest, kernel, clients, Receiving
<1>1. CASE SideWait
  <2>1. side'.events = Events /\ side'.doing = "events" /\ side'.at = side.at
        /\ UNCHANGED <<owner, slot, main, exits>>
    BY <1>1 DEF SideWait
  <2>2. side.at = Nobody
    BY <1>1 DEF SideWait, AtHand
  <2>3. \A s \in Slots : Gone(s)' = Gone(s) /\ ClientOf(s)' = ClientOf(s)
    BY <2>1 DEF Gone, ClientOf
  <2>4. Open' /\ InHand'
    BY <2>1, <2>3 DEF Open, SlotsHaveConnections, InHand
  <2> DEFINE EventAt(s) == [slot |-> s, hup |-> peer[ClientOf(s)] = "reset", client |-> ClientOf(s)]
  <2>5. \A e \in Events : /\ e.slot \in Slots /\ ~slot[e.slot].isExiting
                          /\ e.client = ClientOf(e.slot) /\ e = EventAt(e.slot)
    BY DEF Events, Registered
  <2> HIDE DEF EventAt
  <2>6. EventsOfTheSlot'
    BY <2>1, <2>3, <2>5 DEF EventsOfTheSlot
  <2>7. \A d, e \in Events : d.slot = e.slot => d = e
    <3>. SUFFICES ASSUME NEW d \in Events, NEW e \in Events, d.slot = e.slot PROVE d = e
      OBVIOUS
    <3>1. d = EventAt(d.slot) /\ e = EventAt(e.slot)
      BY <2>5
    <3>. QED BY <3>1
  <2>8. EventsApart'
    BY <2>1, <2>2, <2>5, <2>7 DEF EventsApart
  <2>9. AtHand' /\ Exiting'
    BY <2>1, <2>2 DEF AtHand, Exiting
  <2>. QED BY <2>4, <2>6, <2>8, <2>9
<1>2. CASE SideClose
  BY <1>2, CloseStep
<1>3. ASSUME SideTake \/ SideReply PROVE Rest'
  <2>1. PICK s \in Slots : s = side.at /\ side.doing \in Receiving
    BY <1>3 DEF SideTake, SideReply, Replying, AtHand
  <2>2. \A u \in Slots : slot'[u].fd = slot[u].fd /\ slot'[u].isExiting = slot[u].isExiting
    <3>1. CASE UNCHANGED slot
      BY <3>1
    <3>2. CASE slot' = [slot EXCEPT ![s] = Taken(slot[s], inbox[ClientOf(s)])]
      <4>1. /\ Taken(slot[s], inbox[ClientOf(s)]).fd = slot[s].fd
            /\ Taken(slot[s], inbox[ClientOf(s)]).isExiting = slot[s].isExiting
        BY DEF Taken
      <4>. QED BY <3>2, <4>1
    <3>3. CASE slot' = [slot EXCEPT ![s].isLogin = TRUE]
      BY <3>3
    <3>4. CASE slot' = [slot EXCEPT ![s].exitType = "LOGIN"]
      BY <3>4
    <3>. QED BY <1>3, <2>1, <3>1, <3>2, <3>3, <3>4 DEF SideTake, SideReply, Replying
  <2>3. UNCHANGED <<owner, main, exits>>
    BY <1>3 DEF SideTake, SideReply
  <2>4. \/ \E d \in Receiving : side' = [side EXCEPT !.doing = d]
        \/ side' = [side EXCEPT !.doing = "events", !.at = Nobody]
    BY <1>3 DEF SideTake, SideReply
  <2>5. /\ side'.events = side.events
        /\ side'.at \in {s, Nobody}
        /\ side'.doing \in {"events"} \cup Receiving
        /\ side'.at = s <=> side'.doing \in Receiving
    <3>1. CASE \E d \in Receiving : side' = [side EXCEPT !.doing = d]
      BY <2>1, <3>1
    <3>2. CASE side' = [side EXCEPT !.doing = "events", !.at = Nobody]
      BY <3>2
    <3>. QED BY <2>4, <3>1, <3>2
  <2>6. ~slot[s].isExiting /\ slot[s].fd # NoFd
    BY <2>1 DEF AtHand
  <2>7. \A u \in Slots : Gone(u)' = Gone(u) /\ ClientOf(u)' = ClientOf(u)
    BY <2>1, <2>2, <2>3, <2>6, <2>5 DEF Gone, ClientOf
  <2>8. Open' /\ InHand'
    BY <2>2, <2>3, <2>7 DEF Open, SlotsHaveConnections, InHand
  <2>9. EventsOfTheSlot'
    <3>1. side'.events = side.events /\ \A e \in side.events : e.slot \in Slots
      BY <2>5 DEF Event
    <3>. QED BY <2>2, <2>7, <3>1 DEF EventsOfTheSlot
  <2>10. AtHand'
    BY <2>1, <2>2, <2>5, <2>6 DEF AtHand
  <2>11. Exiting'
    BY <2>1, <2>2, <2>3, <2>5, <2>6 DEF Exiting
  <2>12. EventsApart'
    BY <2>1, <2>5 DEF EventsApart, Event
  <2>. QED BY <2>8, <2>9, <2>10, <2>11, <2>12
<1>4. CASE SideDetect
  <2>1. side' = [side EXCEPT !.doing = "detect", !.slots = Slots] /\ side.at = Nobody
        /\ side.events = {} /\ UNCHANGED <<owner, slot, main, exits>>
    BY <1>4 DEF SideDetect
  <2>. QED BY <2>1 DEF Open, SlotsHaveConnections, EventsOfTheSlot, InHand, AtHand, Exiting,
                       EventsApart, Gone, ClientOf
<1>5. CASE SideAgain
  <2>1. side' = [side EXCEPT !.doing = "wait"] /\ side.at = Nobody /\ side.doing = "detect"
        /\ UNCHANGED <<owner, slot, main, exits>>
    BY <1>5 DEF SideAgain
  <2>. QED BY <2>1 DEF Open, SlotsHaveConnections, EventsOfTheSlot, InHand, AtHand, Exiting,
                       EventsApart, Gone, ClientOf
<1>6. ASSUME NEW e \in side.events, SideHup(e) PROVE Rest'
  <2>1. e.slot \in Slots /\ e.client \in Clients
    BY DEF Event
  <2>2. slot[e.slot].fd # NoFd /\ ~slot[e.slot].isExiting
    BY <2>1 DEF EventsOfTheSlot, ClientOf
  <2>3. /\ Delete(e.slot, "EPOLL") /\ side.at = Nobody /\ side.doing = "events"
        /\ side' = [side EXCEPT !.events = @ \ {e}, !.at = e.slot]
        /\ UNCHANGED <<owner, main, exits>>
    BY <1>6 DEF SideHup
  <2>4. \A d \in side'.events : d.slot # e.slot
    BY <2>3 DEF EventsApart
  <2>. QED BY <2>1, <2>2, <2>3, <2>4, DeleteStep DEF ExitTypes
<1>7. ASSUME NEW e \in side.events, SideRecv(e) PROVE Rest'
  <2>1. PICK s \in Slots : s = e.slot
    BY DEF Event
  <2>2. slot[s].fd # NoFd /\ ~slot[s].isExiting
    BY <2>1 DEF EventsOfTheSlot, ClientOf, Event
  <2>3. /\ side.at = Nobody
        /\ side' = [side EXCEPT !.doing = "recv", !.events = @ \ {e}, !.at = s]
        /\ UNCHANGED <<owner, slot, main, exits>>
    BY <1>7, <2>1 DEF SideRecv
  <2>4. \A u \in Slots : Gone(u)' = Gone(u) /\ ClientOf(u)' = ClientOf(u)
    BY <2>2, <2>3 DEF Gone, ClientOf
  <2>5. Open' /\ InHand'
    BY <2>3, <2>4 DEF Open, SlotsHaveConnections, InHand
  <2>6. EventsOfTheSlot'
    BY <2>3, <2>4 DEF EventsOfTheSlot, Event
  <2>7. AtHand'
    BY <2>2, <2>3 DEF AtHand
  <2>8. Exiting'
    BY <2>2, <2>3 DEF Exiting
  <2>9. EventsApart'
    BY <2>1, <2>3 DEF EventsApart
  <2>. QED BY <2>5, <2>6, <2>7, <2>8, <2>9
<1>8. ASSUME NEW s \in Slots, SideLook(s) PROVE Rest'
  <2>1. /\ side.doing = "detect" /\ side.at = Nobody /\ side.events = {}
        /\ UNCHANGED <<owner, main, exits>>
    BY <1>8 DEF SideLook, EventsApart
  <2>2. ASSUME NEW t \in ExitTypes, LookedAt(s), Delete(s, t),
               side' = [side EXCEPT !.slots = @ \ {s}, !.at = s]
        PROVE  Rest'
    BY <2>1, <2>2, DeleteStep DEF LookedAt
  <2>3. ASSUME side' = [side EXCEPT !.slots = @ \ {s}],
               \A u \in Slots : /\ slot'[u].fd = slot[u].fd
                                /\ slot'[u].isExiting = slot[u].isExiting
        PROVE  Rest'
    BY <2>1, <2>3 DEF Open, SlotsHaveConnections, EventsOfTheSlot, InHand, AtHand, Exiting,
                      EventsApart, Gone, ClientOf
  <2>4. CASE LookedAt(s) /\ slot[s].exitType # "NONE"
    BY <1>8, <2>2, <2>4 DEF SideLook
  <2>5. CASE LookedAt(s) /\ slot[s].exitType = "NONE" /\ ~slot[s].isLogin
    <3>1. Counted(s)
      BY <1>8, <2>5 DEF SideLook
    <3>2. CASE slot[s].loginTimeout < Rounds
      BY <2>3, <3>1, <3>2 DEF Counted
    <3>3. CASE ~(slot[s].loginTimeout < Rounds)
      BY <2>2, <2>5, <3>1, <3>3 DEF Counted, ExitTypes
    <3>. QED BY <3>2, <3>3
  <2>6. CASE /\ ~(LookedAt(s) /\ slot[s].exitType # "NONE")
             /\ ~(LookedAt(s) /\ slot[s].exitType = "NONE" /\ ~slot[s].isLogin)
    BY <1>8, <2>3, <2>6 DEF SideLook
  <2>. QED BY <2>4, <2>5, <2>6
<1>. QED BY <1>1, <1>2, <1>3, <1>4, <1>5, <1>6, <1>7, <1>8 DEF Side

(* A slot is cleared when it is closed. *)
LEMMA ExitStep ==
  ASSUME Inv, TypeOK', NEW s \in Slots, Exit(s)
  PROVE  Rest'
<1>. USE WsServerAssumption DEF Inv, TypeOK, Rest, kernel, clients
<1>1. /\ slot' = [slot EXCEPT ![s] = Cleared] /\ exits' = exits \ {s}
      /\ UNCHANGED <<owner, main, side>> /\ s \in exits
  BY DEF Exit
<1>2. slot[s].isExiting /\ s # side.at
  BY <1>1 DEF Exiting
<1>3. slot'[s].fd = NoFd /\ ~slot'[s].isExiting /\ \A u \in Slots \ {s} : slot'[u] = slot[u]
  BY <1>1 DEF Cleared
<1>4. \A u \in Slots \ {s} : Gone(u)' = Gone(u) /\ ClientOf(u)' = ClientOf(u)
  BY <1>1, <1>3 DEF Gone, ClientOf
<1>5. Open' /\ InHand'
  BY <1>1, <1>3, <1>4 DEF Open, SlotsHaveConnections, InHand
<1>6. EventsOfTheSlot'
  <2>1. \A e \in side.events : e.slot \in Slots \ {s}
    BY <1>2 DEF EventsOfTheSlot, Event
  <2>. QED BY <1>1, <1>3, <1>4, <2>1 DEF EventsOfTheSlot
<1>7. AtHand' /\ EventsApart'
  BY <1>1, <1>2, <1>3 DEF AtHand, EventsApart
<1>8. Exiting'
  BY <1>1, <1>2, <1>3 DEF Exiting
<1>. QED BY <1>5, <1>6, <1>7, <1>8

(* The invariant holds from the start on. *)
LEMMA InvAlways == Spec => []Inv
<1>1. Init => Inv
  <2>. SUFFICES ASSUME Init PROVE Inv
    OBVIOUS
  <2>. USE WsServerAssumption DEF Init
  <2>1. Open /\ EventsOfTheSlot /\ InHand
    BY DEF Open, SlotsHaveConnections, EventsOfTheSlot, InHand, Cleared, Points
  <2>2. AtHand /\ Exiting /\ EventsApart
    BY DEF AtHand, Exiting, EventsApart, Cleared, Receiving
  <2>. QED BY <2>1, <2>2, TypeInit DEF Inv
<1>2. Inv /\ [Next]_vars => Inv'
  <2>. SUFFICES ASSUME Inv, [Next]_vars PROVE Inv'
    OBVIOUS
  <2>1. TypeOK'
    BY TypeStep DEF Inv
  <2>2. SUFFICES Rest'
    BY <2>1 DEF Inv, Rest
  <2>3. ASSUME NEW c \in Clients, Connect(c) \/ Say(c) \/ Fill(c) \/ Read(c) \/ Vanish(c) PROVE Rest'
    BY <2>3, SameStep DEF Connect, Say, Fill, Read, Vanish, kernel
  <2>4. CASE Main
    BY <2>1, <2>4, MainStep
  <2>5. CASE Side
    BY <2>1, <2>5, SideStep
  <2>6. ASSUME NEW s \in Slots, Exit(s) PROVE Rest'
    BY <2>1, <2>6, ExitStep
  <2>7. ASSUME NEW s \in Slots, PushTest(s) PROVE Rest'
    BY <2>7, SameStep DEF PushTest, kernel
  <2>8. CASE PushSend
    BY <2>8, SameStep DEF PushSend, kernel
  <2>9. CASE UNCHANGED vars
    BY <2>9, SameStep DEF vars
  <2>. QED BY <2>3, <2>4, <2>5, <2>6, <2>7, <2>8, <2>9 DEF Next
<1>. QED BY <1>1, <1>2, PTL DEF Spec

-----------------------------------------------------------------------------
(* Theorems *)

(* Descriptors, slots and exit types are what they can be; no timeout      *)
(* counts on after its client is removed (WebServer.c:237-242).            *)
THEOREM TypeCorrect == Spec => []TypeOK
<1>1. Inv => TypeOK
  BY DEF Inv
<1>. QED BY <1>1, InvAlways, PTL

(* No connection is closed or served through the slot of another, whatever *)
(* slots and numbers are reused (WebServer.c:135, 211, 125).               *)
THEOREM OwnConnections == Spec => []SlotsHaveConnections
<1>1. Inv => SlotsHaveConnections
  BY DEF Inv, Open
<1>. QED BY <1>1, InvAlways, PTL

(* The pointers epoll returned are good until the last of them is used     *)
(* (WebServer.c:265-278).                                                  *)
THEOREM GoodPointers == Spec => []EventsOfTheSlot
<1>1. Inv => EventsOfTheSlot
  BY DEF Inv
<1>. QED BY <1>1, InvAlways, PTL
=============================================================================
