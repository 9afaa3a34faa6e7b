------------------------------ MODULE WsServer ------------------------------
(***************************************************************************)
(* The WebSocket server: the main thread takes connections from an edge-   *)
(* triggered listening socket and gives each a slot; a side thread waits   *)
(* for events of its slots, receives, and removes clients that leave, fail *)
(* or do not log in; removed clients are cleared by threads of their own;  *)
(* the push loop sends to the clients in service (WebServer.c:119-553).    *)
(*                                                                         *)
(* Each side thread has slots of its own and shares nothing with the       *)
(* others: there is one here.  The lock of client_add is taken by the main *)
(* thread only.  What the clients are told is left to the service.         *)
(***************************************************************************)
EXTENDS Naturals, FiniteSets

CONSTANTS
  Clients,   \* connections; one that is gone may come again
  Fds,       \* descriptor numbers
  Slots,     \* slots of the side thread
  Requests,  \* what clients may send, see Kinds
  Rounds,    \* WS_SERVER_LOGIN_TIMEOUT_MS / 500: 10
  Nobody,
  NoFd       \* 0, the descriptor of an unused slot

Points == {"bind", "over", "wait", "accept"}

(* hello, wrong: a handshake, with or without a key that can be read;      *)
(* text: a message of the APP; bye: the package that disconnects; part:    *)
(* the beginning of a package.                                             *)
Kinds == {"hello", "wrong", "text", "bye", "part"}

ASSUME WsServerAssumption ==
  /\ NoFd \notin Fds \cup Points
  /\ Fds \cap Points = {}
  /\ Requests \subseteq Kinds
  /\ Rounds \in Nat
  /\ Nobody \notin Clients \cup Slots

VARIABLES
  queue,  \* kernel: connections established and not accepted
  edge,   \* kernel: a connection was queued since the last event
  owner,  \* kernel: the connection behind each descriptor, or Nobody
  peer,   \* the connection of each client
  inbox,  \* what has come from each client and is not received
  slot,   \* client[]
  full,   \* kernel: who does not read, and has no room for more
  main,   \* server_thread: point reached, and the descriptor accepted
  side,   \* server_thread2: what it does, for which slots still, and the
          \* slot it is removing or receiving from
  exits,  \* slots that a thread client_onExit is about to clear
  push    \* the slot the push loop has tested and will send to

vars == <<queue, edge, owner, peer, inbox, full, slot, main, side, exits, push>>

kernel == <<queue, edge, owner>>
clients == <<peer, inbox, full>>

ExitTypes == {"NONE", "EPOLL", "LOGIN", "LOGIN_TIMEOUT", "DISCONNECT"}

Cleared == [fd |-> NoFd, exitType |-> "NONE", isLogin |-> FALSE, isExiting |-> FALSE,
            loginTimeout |-> 0]

(* An event: its slot, whether it is EPOLLERR or EPOLLHUP, and, as history *)
(* only, the client it comes from.                                         *)
Event == [slot : Slots, hup : BOOLEAN, client : Clients]

(* client_recv: in the first receive of ws_recv or a later one, or sending. *)
Receiving == {"recv", "rest", "handshake", "reply"}

TypeOK ==
  /\ queue \subseteq Clients
  /\ edge \in BOOLEAN
  /\ owner \in [Fds -> Clients \cup {Nobody}]
  /\ peer \in [Clients -> {"away", "open", "closed", "reset"}]
  /\ inbox \in [Clients -> Requests \cup {"none"}]
  /\ slot \in [Slots -> [fd : Fds \cup {NoFd}, exitType : ExitTypes,
                         isLogin : BOOLEAN, isExiting : BOOLEAN,
                         loginTimeout : 0..Rounds]]
  /\ full \subseteq Clients
  /\ main \in Points \cup Fds
  /\ side \in [doing : {"wait", "events", "detect"} \cup Receiving,
               events : SUBSET Event, slots : SUBSET Slots,
               at : Slots \cup {Nobody}]
  /\ exits \subseteq Slots
  /\ push \in Slots \cup {Nobody}

Init ==
  /\ queue = {} /\ edge = FALSE
  /\ owner = [f \in Fds |-> Nobody]
  /\ peer = [c \in Clients |-> "away"]
  /\ inbox = [c \in Clients |-> "none"]
  /\ full = {}
  /\ slot = [s \in Slots |-> Cleared]
  /\ main = "bind"
  /\ side = [doing |-> "wait", events |-> {}, slots |-> {}, at |-> Nobody]
  /\ exits = {}
  /\ push = Nobody

-----------------------------------------------------------------------------
(* The clients and the kernel *)

(* Mutant: listen with a backlog of 1. *)
AcceptQueueOfTwo == 2

(* listen(fd, 0): Linux queues one connection more than the backlog. *)
AcceptQueue == 1

Connect(c) ==
  /\ main \notin {"bind", "over"}
  /\ peer[c] = "away"
  /\ Cardinality(queue) < AcceptQueue
  /\ queue' = queue \cup {c}
  /\ edge' = TRUE
  /\ peer' = [peer EXCEPT ![c] = "open"]
  /\ UNCHANGED <<owner, inbox, full, slot, main, side, exits, push>>

Say(c) ==
  /\ peer[c] = "open" /\ inbox[c] = "none"
  /\ \E m \in Requests : inbox' = [inbox EXCEPT ![c] = m]
  /\ UNCHANGED <<kernel, peer, full, slot, main, side, exits, push>>

ClientOf(s) == IF slot[s].fd = NoFd THEN Nobody ELSE owner[slot[s].fd]

Replying == side.doing \in {"handshake", "reply"}

(* Who does not read has no room for more in the end.  With a reply under  *)
(* way it is that reply that needs the room: SideReply waits for it.       *)
Fill(c) ==
  /\ peer[c] = "open"
  /\ \E f \in Fds : owner[f] = c
  /\ ~(Replying /\ ClientOf(side.at) = c)
  /\ full' = full \cup {c}
  /\ UNCHANGED <<kernel, peer, inbox, slot, main, side, exits, push>>

Read(c) ==
  /\ c \in full
  /\ full' = full \ {c}
  /\ UNCHANGED <<kernel, peer, inbox, slot, main, side, exits, push>>

(* The client closes its end, or breaks the connection; closed with        *)
(* something not read, it is reset.                                        *)
Vanish(c) ==
  /\ peer[c] = "open"
  /\ \E p \in {"reset"} \cup {q \in {"closed"} : c \notin full} :
       peer' = [peer EXCEPT ![c] = p]
  /\ full' = full \ {c}
  /\ UNCHANGED <<kernel, inbox, slot, main, side, exits, push>>

(* A closed client answers what is sent to it with a reset. *)
SentTo(c) ==
  peer' = IF c \in Clients /\ peer[c] = "closed"
          THEN [peer EXCEPT ![c] = "reset"] ELSE peer

-----------------------------------------------------------------------------
(* The main thread *)

(* Lines 293-356: the port is taken, now or after some of the 1000 tries,  *)
(* or the server is over.                                                  *)
MainStart ==
  /\ main = "bind"
  /\ main' \in {"wait", "over"}
  /\ UNCHANGED <<kernel, clients, slot, side, exits, push>>

(* Lines 358-366: EPOLLET, an event per change. *)
MainWake ==
  /\ main = "wait"
  /\ edge /\ queue # {}
  /\ edge' = FALSE
  /\ main' = "accept"
  /\ UNCHANGED <<queue, owner, clients, slot, side, exits, push>>

(* Line 368. *)
MainAccept ==
  /\ main = "accept"
  /\ \E c \in queue, f \in Fds :
       /\ owner[f] = Nobody
       /\ owner' = [owner EXCEPT ![f] = c]
       /\ queue' = queue \ {c}
       /\ main' = f
  /\ UNCHANGED <<edge, clients, slot, side, exits, push>>

(* Line 370, with no descriptor left: the connection stays in the queue. *)
MainAcceptFails ==
  /\ main = "accept"
  /\ \A f \in Fds : owner[f] # Nobody
  /\ main' = "wait"
  /\ UNCHANGED <<kernel, clients, slot, side, exits, push>>

(* Mutant: a slot is free as soon as it is closed. *)
UsableExiting(s) == slot[s].fd = NoFd \/ slot[s].isExiting

(* Lines 135-137; wst is set and cleared with fd. *)
Usable(s) == slot[s].fd = NoFd /\ ~slot[s].isExiting

(* Lines 160-199; without a usable slot nobody closes the connection. *)
MainAdd ==
  /\ main \in Fds
  /\ \/ \E s \in Slots : /\ Usable(s)
                         /\ slot' = [slot EXCEPT ![s] = [Cleared EXCEPT !.fd = main]]
     \/ (\A s \in Slots : ~Usable(s)) /\ UNCHANGED slot
  /\ main' = "wait"
  /\ UNCHANGED <<kernel, clients, side, exits, push>>

-----------------------------------------------------------------------------
(* The side thread *)

Ready(c) ==
  c # Nobody /\ (inbox[c] # "none" \/ peer[c] \in {"closed", "reset"})

Registered == {s \in Slots : slot[s].fd # NoFd /\ ~slot[s].isExiting}

Events ==
  {[slot |-> s, hup |-> peer[ClientOf(s)] = "reset", client |-> ClientOf(s)] :
     s \in {s \in Registered : Ready(ClientOf(s))}}

(* Line 260: the events there are, or none after 500 ms. *)
SideWait ==
  /\ side.doing = "wait"
  /\ side' = [side EXCEPT !.doing = "events", !.events = Events]
  /\ UNCHANGED <<kernel, clients, slot, main, exits, push>>

(* client_del as far as line 209; SideClose does the rest. *)
Delete(s, type) ==
  slot' = [slot EXCEPT ![s].exitType = type, ![s].isExiting = TRUE]

(* Lines 268-274. *)
SideHup(e) ==
  /\ side.doing = "events" /\ side.at = Nobody
  /\ e \in side.events /\ e.hup
  /\ Delete(e.slot, "EPOLL")
  /\ side' = [side EXCEPT !.events = @ \ {e}, !.at = e.slot]
  /\ UNCHANGED <<kernel, clients, main, exits, push>>

(* A thread client_onExit for the slot s, detached.  That it could not be  *)
(* created is printed, no more: the slot is never cleared then.            *)
NewThread(s) == exits' \in {exits, exits \cup {s}}

(* Lines 210-216. *)
SideClose ==
  /\ side.doing \in {"events", "detect"} /\ side.at # Nobody
  /\ owner' = [owner EXCEPT ![slot[side.at].fd] = Nobody]
  /\ peer' = [peer EXCEPT ![ClientOf(side.at)] = "away"]
  /\ inbox' = [inbox EXCEPT ![ClientOf(side.at)] = "none"]
  /\ full' = full \ {ClientOf(side.at)}
  /\ NewThread(side.at)
  /\ side' = [side EXCEPT !.at = Nobody]
  /\ UNCHANGED <<queue, edge, slot, main, push>>

(* client_recv begins (lines 276-277, 59). *)
SideRecv(e) ==
  /\ side.doing = "events" /\ side.at = Nobody
  /\ e \in side.events /\ ~e.hup
  /\ side' = [side EXCEPT !.doing = "recv", !.events = @ \ {e}, !.at = e.slot]
  /\ UNCHANGED <<kernel, clients, slot, main, exits, push>>

(* What client_recv makes of request m in the slot r without sending       *)
(* (lines 77-97).                                                          *)
Taken(r, m) ==
  CASE m = "wrong" /\ ~r.isLogin -> [r EXCEPT !.exitType = "LOGIN"]
    [] m = "bye"                 -> [r EXCEPT !.exitType = "DISCONNECT"]
    [] OTHER                     -> r

(* One receive.  The sockets block: with the beginning of a package it     *)
(* does not return before there is more or the connection has ended        *)
(* (WebCom.c:1266-1284).                                                   *)
SideTake ==
  /\ side.doing \in {"recv", "rest"}
  /\ LET s == side.at
         m == inbox[ClientOf(s)]
     IN /\ Ready(ClientOf(s))
        /\ inbox' = [inbox EXCEPT ![ClientOf(s)] = "none"]
        /\ \/ /\ m = "part"
              /\ side' = [side EXCEPT !.doing = "rest"]
              /\ UNCHANGED slot
           \/ /\ m = "hello" /\ ~slot[s].isLogin
              /\ side' = [side EXCEPT !.doing = "handshake"]
              /\ UNCHANGED slot
           \/ /\ m = "text"
              /\ side' = [side EXCEPT !.doing = "reply"]
              /\ UNCHANGED slot
           \/ /\ m # "part" /\ ~(m = "hello" /\ ~slot[s].isLogin)
              /\ slot' = [slot EXCEPT ![s] = Taken(@, m)]
              /\ side' = [side EXCEPT !.doing = "events", !.at = Nobody]
  /\ UNCHANGED <<kernel, peer, full, main, exits, push>>

(* The end of ws_replyClient or ws_send, which wait for room               *)
(* (WebCom.c:1148, 1186); on a connection that is reset they fail.         *)
SideReply ==
  /\ Replying
  /\ LET s == side.at
         c == ClientOf(s)
     IN /\ c \notin full
        /\ slot' = CASE side.doing = "reply" -> slot
                     [] side.doing = "handshake" /\ peer[c] # "reset" ->
                          [slot EXCEPT ![s].isLogin = TRUE]
                     [] OTHER -> [slot EXCEPT ![s].exitType = "LOGIN"]
        /\ SentTo(c)
  /\ side' = [side EXCEPT !.doing = "events", !.at = Nobody]
  /\ UNCHANGED <<kernel, inbox, full, main, exits, push>>

(* Lines 280, 224. *)
SideDetect ==
  /\ side.doing = "events" /\ side.at = Nobody /\ side.events = {}
  /\ side' = [side EXCEPT !.doing = "detect", !.slots = Slots]
  /\ UNCHANGED <<kernel, clients, slot, main, exits, push>>

(* Mutant: the slot of a client that is exiting is looked at again. *)
LookedAtAgain(s) == slot[s].fd # NoFd

(* Lines 226-228. *)
LookedAt(s) == slot[s].fd # NoFd /\ ~slot[s].isExiting

(* Mutant: the time of the login is not counted. *)
CountedNot(s) == UNCHANGED slot /\ side' = [side EXCEPT !.slots = @ \ {s}]

(* Lines 237-242, for a client that is not logged in. *)
Counted(s) ==
  IF slot[s].loginTimeout < Rounds
  THEN /\ slot' = [slot EXCEPT ![s].loginTimeout = @ + 1]
       /\ side' = [side EXCEPT !.slots = @ \ {s}]
  ELSE /\ Delete(s, "LOGIN_TIMEOUT")
       /\ side' = [side EXCEPT !.slots = @ \ {s}, !.at = s]

(* One round of lines 224-245. *)
SideLook(s) ==
  /\ side.doing = "detect" /\ side.at = Nobody /\ s \in side.slots
  /\ CASE LookedAt(s) /\ slot[s].exitType # "NONE" ->
            /\ Delete(s, slot[s].exitType)
            /\ side' = [side EXCEPT !.slots = @ \ {s}, !.at = s]
       [] LookedAt(s) /\ slot[s].exitType = "NONE" /\ ~slot[s].isLogin ->
            Counted(s)
       [] OTHER ->
            side' = [side EXCEPT !.slots = @ \ {s}] /\ UNCHANGED slot
  /\ UNCHANGED <<kernel, clients, main, exits, push>>

SideAgain ==
  /\ side.doing = "detect" /\ side.at = Nobody /\ side.slots = {}
  /\ side' = [side EXCEPT !.doing = "wait"]
  /\ UNCHANGED <<kernel, clients, slot, main, exits, push>>

(* client_onExit, line 125. *)
Exit(s) ==
  /\ s \in exits
  /\ slot' = [slot EXCEPT ![s] = Cleared]
  /\ exits' = exits \ {s}
  /\ UNCHANGED <<kernel, clients, main, side, push>>

-----------------------------------------------------------------------------
(* The push loop *)

(* Line 551; whether the client has asked to be served is left open. *)
PushTest(s) ==
  /\ push = Nobody
  /\ slot[s].fd # NoFd /\ slot[s].isLogin /\ slot[s].exitType = "NONE"
  /\ push' = s
  /\ UNCHANGED <<kernel, clients, slot, main, side, exits>>

(* Lines 553-556: to whatever descriptor is in the slot now.  The result   *)
(* is kept in a UINT8, which is never below 0: no slot is ever marked.     *)
(* How long the loop waits for room is left to the service.                *)
PushSend ==
  /\ push # Nobody
  /\ SentTo(ClientOf(push))
  /\ push' = Nobody
  /\ UNCHANGED <<kernel, inbox, full, slot, main, side, exits>>

-----------------------------------------------------------------------------
Main == MainStart \/ MainWake \/ MainAccept \/ MainAcceptFails \/ MainAdd

Side ==
  \/ SideWait \/ SideClose \/ SideTake \/ SideReply \/ SideDetect \/ SideAgain
  \/ \E e \in side.events : SideHup(e) \/ SideRecv(e)
  \/ \E s \in Slots : SideLook(s)

Next ==
  \/ \E c \in Clients : Connect(c) \/ Say(c) \/ Fill(c) \/ Read(c) \/ Vanish(c)
  \/ Main \/ Side
  \/ \E s \in Slots : Exit(s) \/ PushTest(s)
  \/ PushSend

Spec == Init /\ [][Next]_vars

(* The threads run, except where they wait for a client: in SideTake for    *)
(* it to send, in SideReply for it to read.                                *)
FairSpec ==
  /\ Spec
  /\ WF_vars(Main)
  /\ WF_vars(Side)
  /\ \A s \in Slots : WF_vars(Exit(s))

-----------------------------------------------------------------------------
(* Properties *)

(* Closed by client_del, and not yet cleared by its thread. *)
Gone(s) == slot[s].isExiting /\ side.at # s

(* A slot keeps its own open connection, alone, from client_add until      *)
(* client_del closes it, however slots and numbers are reused around the   *)
(* threads that clear them: no connection is closed through the slot of    *)
(* another (WebServer.c:135, 211, 125).                                    *)
SlotsHaveConnections ==
  \A s \in Slots : slot[s].fd # NoFd /\ ~Gone(s) =>
    /\ ClientOf(s) # Nobody
    /\ \A t \in Slots \ {s} : slot[t].fd = slot[s].fd => Gone(t)

(* The pointers epoll returned are good until the last of them is used:    *)
(* no slot is cleared or given away with an event of its former client     *)
(* still to be handled (WebServer.c:265-278).                              *)
EventsOfTheSlot ==
  \A e \in side.events : ~slot[e.slot].isExiting /\ ClientOf(e.slot) = e.client

NoDescriptor == main = "accept" /\ \A f \in Fds : owner[f] # Nobody

(* With an event per change and one accept per event no connection waits   *)
(* in the queue for ever, as long as no accept has failed for want of a    *)
(* descriptor (WebServer.c:338, 350, 368).                                 *)
QueuedIsAccepted ==
  \A c \in Clients : []~NoDescriptor => (c \in queue ~> c \notin queue)

(* What a client has begun to send comes, or its connection ends; who has  *)
(* no room for more reads.                                                 *)
ClientsGoOn ==
  /\ []<>(side.doing # "rest")
  /\ \A c \in Clients : []<>(c \notin full)

(* Closed, and without a thread to clear it. *)
NeverCleared(s) == Gone(s) /\ s \notin exits

(* Who does not log in, or is marked, is out in the end, and the slot is   *)
(* free again, as long as no client keeps the side thread waiting for the  *)
(* rest of a package or for room, and the thread that clears the slot can  *)
(* be created (WebServer.c:231-242, 213, 125; WebCom.c:1266-1284, 1186).   *)
LoginOrOut ==
  \A s \in Slots :
    ClientsGoOn /\ []~NeverCleared(s) =>
      (slot[s].fd # NoFd /\ (~slot[s].isLogin \/ slot[s].exitType # "NONE")
         ~> slot[s].fd = NoFd \/ (slot[s].isLogin /\ slot[s].exitType = "NONE"))
=============================================================================
