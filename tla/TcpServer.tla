----------------------------- MODULE TcpServer -----------------------------
(***************************************************************************)
(* The TCP server: socket_manager accepts clients, notes their descriptors *)
(* in client_fds and creates a thread server_handle for each; a thread     *)
(* clears the slot of its client when the client leaves (socket.c:110-277).*)
(*                                                                         *)
(* The kernel gives the number of a closed descriptor to the next          *)
(* connection, and the thread is told its descriptor by the address of a   *)
(* variable of the manager.  What the messages of the clients do, and      *)
(* ProgramInit, is in PlanCycle; neither touches what is modelled here.    *)
(***************************************************************************)
EXTENDS Integers

CONSTANTS
  Clients,         \* connections; one that is gone may come again
  Fds,             \* descriptor numbers of connections
  MAX_NUM_CLIENT,  \* slots: 5
  Prompt,          \* whether sleep(1) outlasts the start of a thread
  Nobody

ASSUME TcpServerAssumption ==
  /\ Fds \subseteq Nat \ {0}
  /\ MAX_NUM_CLIENT \in Nat
  /\ Prompt \in BOOLEAN
  /\ Nobody \notin Clients

Slots == 0..(MAX_NUM_CLIENT - 1)
Free == 0      \* of a slot
Invalid == -1  \* the result of an accept that failed

VARIABLES
  client_fds,  \* the list of clients
  owner,       \* kernel: the connection behind each descriptor, or Nobody
  manager,     \* socket_manager: point reached, client_fd, its connection
  thread,      \* server_handle of each client: point reached, client_fd,
               \* and the slot found
  crossed      \* history: a client has quit, or two threads have found
               \* the same slot

vars == <<client_fds, owner, manager, thread, crossed>>

TypeOK ==
  /\ client_fds \in [Slots -> Fds \cup {Free}]
  /\ owner \in [Fds -> Clients \cup {Nobody}]
  /\ manager \in [pc : {"accept", "store", "create", "sleep", "stopped"},
                  fd : Fds \cup {Free, Invalid},
                  client : Clients \cup {Nobody}]
  /\ manager.pc = "store" => manager.fd \in Fds
  /\ thread \in [Clients -> [pc : {"none", "start", "recv", "quit", "close", "find", "clear"},
                             fd : Fds \cup {Free, Invalid},
                             slot : Slots \cup {0}]]
  /\ crossed \in BOOLEAN

NoThread == [pc |-> "none", fd |-> Free, slot |-> 0]

Init ==
  /\ client_fds = [i \in Slots |-> Free]
  /\ owner = [f \in Fds |-> Nobody]
  /\ manager = [pc |-> "accept", fd |-> Free, client |-> Nobody]
  /\ thread = [c \in Clients |-> NoThread]
  /\ crossed = FALSE

-----------------------------------------------------------------------------
(* socket_manager *)

ManagerTo(point) == manager' = [manager EXCEPT !.pc = point]

(* Line 118: any free number, for other threads open descriptors as well. *)
Accept(c, f) ==
  /\ manager.pc = "accept"
  /\ thread[c].pc = "none" /\ \A g \in Fds : owner[g] # c
  /\ owner[f] = Nobody
  /\ owner' = [owner EXCEPT ![f] = c]
  /\ manager' = [pc |-> "store", fd |-> f, client |-> c]
  /\ UNCHANGED <<client_fds, thread, crossed>>

(* Lines 119-122 and 152-154: for good. *)
AcceptFails ==
  /\ manager.pc = "accept"
  /\ manager' = [pc |-> "stopped", fd |-> Invalid, client |-> Nobody]
  /\ UNCHANGED <<client_fds, owner, thread, crossed>>

(* Lines 127-131.  Others only free slots, so that the scan may pass one   *)
(* that is freed a moment later: any free slot can be the first it sees.   *)
Store ==
  /\ manager.pc = "store"
  /\ \E i \in Slots : /\ client_fds[i] = Free
                      /\ client_fds' = [client_fds EXCEPT ![i] = manager.fd]
  /\ ManagerTo("create")
  /\ UNCHANGED <<owner, thread, crossed>>

(* Without a free slot the client is neither served nor closed; without a  *)
(* thread (lines 134-138) it keeps its slot as well.                       *)
NotServed ==
  /\ \/ manager.pc = "store" /\ \A i \in Slots : client_fds[i] # Free
     \/ manager.pc = "create"
  /\ ManagerTo("sleep")
  /\ UNCHANGED <<client_fds, owner, thread, crossed>>

(* Lines 134 and 139-146. *)
Create ==
  /\ manager.pc = "create"
  /\ thread' = [thread EXCEPT ![manager.client].pc = "start"]
  /\ ManagerTo("sleep")
  /\ UNCHANGED <<client_fds, owner, crossed>>

(* Mutant: the manager does not sleep. *)
WakeAtOnce ==
  /\ manager.pc = "sleep"
  /\ ManagerTo("accept")
  /\ UNCHANGED <<client_fds, owner, thread, crossed>>

(* Line 150. *)
Wake ==
  /\ manager.pc = "sleep"
  /\ Prompt => \A c \in Clients : thread[c].pc # "start"
  /\ ManagerTo("accept")
  /\ UNCHANGED <<client_fds, owner, thread, crossed>>

-----------------------------------------------------------------------------
(* server_handle *)

ThreadTo(c, point) == thread' = [thread EXCEPT ![c].pc = point]

(* Line 167: client_fd is read where the manager keeps it. *)
Start(c) ==
  /\ thread[c].pc = "start"
  /\ thread' = [thread EXCEPT ![c].pc = "recv", ![c].fd = manager.fd]
  /\ UNCHANGED <<client_fds, owner, manager, crossed>>

SlotsOf(f) == {i \in Slots : client_fds[i] = f}

(* The thread has found slot i and goes on to clear it. *)
Found(c, i, point) == thread' = [thread EXCEPT ![c].pc = point, ![c].slot = i]

(* Lines 185-189: "quit" has come; its slot, if any, is found. *)
Quit(c) ==
  /\ thread[c].pc = "recv"
  /\ thread[c].fd \in Fds /\ owner[thread[c].fd] # Nobody
  /\ \/ \E i \in SlotsOf(thread[c].fd) : Found(c, i, "quit")
     \/ SlotsOf(thread[c].fd) = {} /\ ThreadTo(c, "close")
  /\ crossed' = TRUE
  /\ UNCHANGED <<client_fds, owner, manager>>

(* Lines 192-197. *)
QuitClear(c) ==
  /\ thread[c].pc = "quit"
  /\ client_fds' = [client_fds EXCEPT ![thread[c].slot] = Free]
  /\ ThreadTo(c, "close")
  /\ UNCHANGED <<owner, manager, crossed>>

(* Line 181: the client has gone, or the connection failed. *)
Leave(c) ==
  /\ thread[c].pc = "recv"
  /\ ThreadTo(c, "close")
  /\ UNCHANGED <<client_fds, owner, manager, crossed>>

(* Line 265. *)
Close(c) ==
  /\ thread[c].pc = "close"
  /\ owner' = [f \in Fds |-> IF f = thread[c].fd THEN Nobody ELSE owner[f]]
  /\ ThreadTo(c, "find")
  /\ UNCHANGED <<client_fds, manager, crossed>>

Ends(c) == thread' = [thread EXCEPT ![c] = NoThread]

(* Another thread is about to clear slot i. *)
Crosses(i) ==
  \E d \in Clients : thread[d].pc = "clear" /\ thread[d].slot = i

(* Mutant: the scan stops at the first slot in use. *)
FindAnyone(c) ==
  /\ thread[c].pc = "find"
  /\ \E i \in Slots : /\ client_fds[i] # Free /\ Found(c, i, "clear")
                      /\ crossed' = (crossed \/ Crosses(i))
  /\ UNCHANGED <<client_fds, owner, manager>>

(* Lines 266-268. *)
Find(c) ==
  /\ thread[c].pc = "find"
  /\ \/ \E i \in SlotsOf(thread[c].fd) : /\ Found(c, i, "clear")
                                         /\ crossed' = (crossed \/ Crosses(i))
     \/ SlotsOf(thread[c].fd) = {} /\ Ends(c) /\ UNCHANGED crossed
  /\ UNCHANGED <<client_fds, owner, manager>>

(* Lines 271-276. *)
Clear(c) ==
  /\ thread[c].pc = "clear"
  /\ client_fds' = [client_fds EXCEPT ![thread[c].slot] = Free]
  /\ Ends(c)
  /\ UNCHANGED <<owner, manager, crossed>>

-----------------------------------------------------------------------------
Manager ==
  \/ \E c \in Clients, f \in Fds : Accept(c, f)
  \/ AcceptFails \/ Store \/ NotServed \/ Create \/ Wake

Thread(c) ==
  Start(c) \/ Quit(c) \/ QuitClear(c) \/ Leave(c) \/ Close(c) \/ Find(c) \/ Clear(c)

Next == Manager \/ \E c \in Clients : Thread(c)

Spec == Init /\ [][Next]_vars

-----------------------------------------------------------------------------
(* Properties *)

Serving(c) == thread[c].pc \in {"recv", "quit", "close"}

(* The descriptor a thread reads from, and later closes, is the connection *)
(* of its own client: although the thread takes its number from a variable *)
(* the manager goes on to use (socket.c:134, 167), and numbers come back   *)
(* as soon as they are closed.                                             *)
ServesOwn ==
  \A c \in Clients : Serving(c) => thread[c].fd \in Fds /\ owner[thread[c].fd] = c

(* Until a client sends "quit", or two threads find the same slot, each    *)
(* client that is served is in the list, whatever threads still at work on *)
(* former clients with the same number clear (socket.c:265-271).           *)
ServedAreListed ==
  ~crossed =>
    \A c \in Clients : thread[c].pc = "recv" => SlotsOf(thread[c].fd) # {}
=============================================================================
