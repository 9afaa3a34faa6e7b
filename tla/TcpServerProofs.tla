-------------------------- MODULE TcpServerProofs --------------------------
(***************************************************************************)
(* The TCP server for any number of clients, descriptors and slots.        *)
(***************************************************************************)
EXTENDS TcpServer, TLAPS

(* What is handed on, from accept to the thread: while the manager has a   *)
(* client in hand this has no thread yet; a thread that has not read its   *)
(* descriptor is the one just created, and it is still where the manager   *)
(* keeps it.                                                               *)
InHand(c) ==
  manager.client = c /\ manager.fd \in Fds /\ owner[manager.fd] = c

HandedOn ==
  /\ manager.pc \in {"store", "create"} =>
       \E c \in Clients : InHand(c) /\ thread[c].pc = "none"
  /\ \A c \in Clients : thread[c].pc = "start" => manager.pc = "sleep" /\ InHand(c)

Inv == TypeOK /\ ServesOwn /\ HandedOn

(* A client holds an entry of the list from the time its number is stored  *)
(* until its thread has cleared one: the number is its thread's, or still  *)
(* the manager's.                                                          *)
Holds(c) ==
  \/ thread[c].pc \in {"start", "recv", "quit", "close", "find", "clear"}
  \/ manager.pc = "create" /\ manager.client = c

Number(c) == IF thread[c].pc \in {"none", "start"} THEN manager.fd ELSE thread[c].fd

(* An entry for each, no two the same; the slot a thread has found is its. *)
Entries(g) ==
  /\ \A c \in Clients :
       Holds(c) => g[c] \in Slots /\ Number(c) \in Fds /\ client_fds[g[c]] = Number(c)
  /\ \A c, d \in Clients : Holds(c) /\ Holds(d) /\ g[c] = g[d] => c = d
  /\ \A c \in Clients : thread[c].pc = "clear" => g[c] = thread[c].slot

EachHasAnEntry ==
  ~crossed => /\ \A c \in Clients : thread[c].pc # "quit"
              /\ \E g \in [Clients -> Nat] : Entries(g)

ListInv == Inv /\ EachHasAnEntry

-----------------------------------------------------------------------------
(* Every step keeps the types. *)
LEMMA TypeStep == TypeOK /\ [Next]_vars => TypeOK'
<1>. SUFFICES ASSUME TypeOK, [Next]_vars PROVE TypeOK'
  OBVIOUS
<1>. USE DEF TypeOK
<1>1. CASE Manager
  <2>1. ASSUME NEW c \in Clients, NEW f \in Fds, Accept(c, f) PROVE TypeOK'
    BY <2>1 DEF Accept
  <2>2. CASE AcceptFails
    BY <2>2 DEF AcceptFails
  <2>3. CASE Store
    BY <2>3 DEF Store, ManagerTo
  <2>4. CASE NotServed
    BY <2>4 DEF NotServed, ManagerTo
  <2>5. CASE Create
    BY <2>5 DEF Create, ManagerTo
  <2>6. CASE Wake
    BY <2>6 DEF Wake, ManagerTo
  <2>. QED BY <1>1, <2>1, <2>2, <2>3, <2>4, <2>5, <2>6 DEF Manager
<1>2. ASSUME NEW c \in Clients, Thread(c) PROVE TypeOK'
  <2>1. CASE Start(c)
    BY <2>1 DEF Start
  <2>2. CASE Quit(c)
    <3>1. crossed' \in BOOLEAN
      BY <2>2 DEF Quit
    <3>2. UNCHANGED <<client_fds, owner, manager>>
      BY <2>2 DEF Quit
    <3>3. CASE ThreadTo(c, "close")
      BY <3>1, <3>2, <3>3 DEF ThreadTo
    <3>4. ASSUME NEW i \in Slots, Found(c, i, "quit") PROVE TypeOK'
      BY <3>1, <3>2, <3>4 DEF Found
    <3>. QED BY <2>2, <3>3, <3>4 DEF Quit, SlotsOf
  <2>3. CASE QuitClear(c)
    BY <2>3 DEF QuitClear, ThreadTo
  <2>4. CASE Leave(c)
    BY <2>4 DEF Leave, ThreadTo
  <2>5. CASE Close(c)
    BY <2>5 DEF Close, ThreadTo
  <2>6. CASE Find(c)
    <3>1. crossed' \in BOOLEAN
      BY <2>6, Zenon DEF Find
    <3>2. UNCHANGED <<client_fds, owner, manager>>
      BY <2>6 DEF Find
    <3>3. CASE Ends(c)
      BY <3>1, <3>2, <3>3 DEF Ends, NoThread
    <3>4. ASSUME NEW i \in Slots, Found(c, i, "clear") PROVE TypeOK'
      BY <3>1, <3>2, <3>4 DEF Found
    <3>. QED BY <2>6, <3>3, <3>4 DEF Find, SlotsOf
  <2>7. CASE Clear(c)
    BY <2>7 DEF Clear, Ends, NoThread
  <2>. QED BY <1>2, <2>1, <2>2, <2>3, <2>4, <2>5, <2>6, <2>7 DEF Thread
<1>3. CASE UNCHANGED vars
  BY <1>3 DEF vars
<1>. QED BY <1>1, <1>2, <1>3 DEF Next

(* Every step of the manager keeps the connections with their threads.     *)
LEMMA ManagerStep ==
  ASSUME Inv, TypeOK', Prompt, Manager
  PROVE  ServesOwn' /\ HandedOn'
<1>. USE DEF Inv, TypeOK
<1>1. ASSUME NEW c \in Clients, NEW f \in Fds, Accept(c, f)
      PROVE  ServesOwn' /\ HandedOn'
  <2>1. ServesOwn'
    BY <1>1, TcpServerAssumption DEF Accept, ServesOwn, Serving
  <2>2. \A d \in Clients : thread'[d].pc # "start"
    BY <1>1 DEF Accept, HandedOn
  <2>3. InHand(c)' /\ thread'[c].pc = "none"
    BY <1>1 DEF Accept, InHand
  <2>. QED BY <2>1, <2>2, <2>3 DEF HandedOn
<1>2. CASE AcceptFails
  BY <1>2 DEF AcceptFails, ServesOwn, Serving, HandedOn
<1>3. CASE Store
  BY <1>3 DEF Store, ManagerTo, ServesOwn, Serving, HandedOn, InHand
<1>4. CASE NotServed
  BY <1>4 DEF NotServed, ManagerTo, ServesOwn, Serving, HandedOn, InHand
<1>5. CASE Create
  BY <1>5 DEF Create, ManagerTo, ServesOwn, Serving, HandedOn, InHand
<1>6. CASE Wake
  BY <1>6 DEF Wake, ManagerTo, ServesOwn, Serving, HandedOn, InHand
<1>. QED BY <1>1, <1>2, <1>3, <1>4, <1>5, <1>6 DEF Manager

(* So does every step of a thread; the number it closes is nobody else's.  *)
LEMMA ThreadStep ==
  ASSUME Inv, TypeOK', NEW c \in Clients, Thread(c)
  PROVE  ServesOwn' /\ HandedOn'
<1>. USE DEF Inv, TypeOK
<1>1. CASE Start(c)
  BY <1>1 DEF Start, ServesOwn, Serving, HandedOn, InHand
<1>2. CASE Quit(c)
  BY <1>2 DEF Quit, Found, ThreadTo, ServesOwn, Serving, HandedOn, InHand
<1>3. CASE QuitClear(c)
  BY <1>3 DEF QuitClear, ThreadTo, ServesOwn, Serving, HandedOn, InHand
<1>4. CASE Leave(c)
  BY <1>4 DEF Leave, ThreadTo, ServesOwn, Serving, HandedOn, InHand
<1>5. CASE Close(c)
  <2>1. owner[thread[c].fd] = c
    BY <1>5 DEF Close, ServesOwn, Serving
  <2>2. ASSUME NEW f \in Fds, owner[f] # c PROVE owner'[f] = owner[f]
    BY <1>5, <2>1, <2>2 DEF Close
  <2>3. \A d \in Clients : d # c => thread'[d] = thread[d]
    BY <1>5 DEF Close, ThreadTo
  <2>4. thread'[c].pc = "find" /\ thread[c].pc = "close"
    BY <1>5 DEF Close, ThreadTo
  <2>5. UNCHANGED manager
    BY <1>5 DEF Close
  <2>6. ServesOwn'
    BY <2>2, <2>3, <2>4 DEF ServesOwn, Serving
  <2>7. HandedOn'
    BY <2>2, <2>3, <2>4, <2>5 DEF HandedOn, InHand
  <2>. QED BY <2>6, <2>7
<1>6. CASE Find(c)
  BY <1>6 DEF Find, Found, Ends, NoThread, ServesOwn, Serving, HandedOn, InHand
<1>7. CASE Clear(c)
  BY <1>7 DEF Clear, Ends, NoThread, ServesOwn, Serving, HandedOn, InHand
<1>. QED BY <1>1, <1>2, <1>3, <1>4, <1>5, <1>6, <1>7 DEF Thread

(* The initial state has the right types. *)
LEMMA TypeInit == Init => TypeOK
<1>. SUFFICES ASSUME Init PROVE TypeOK
  OBVIOUS
<1>1. client_fds \in [Slots -> Fds \cup {Free}]
  BY DEF Init
<1>2. owner \in [Fds -> Clients \cup {Nobody}]
  BY DEF Init
<1>3. crossed \in BOOLEAN
  BY DEF Init
<1>. QED BY <1>1, <1>2, <1>3 DEF Init, TypeOK, NoThread

-----------------------------------------------------------------------------
(* The list *)

(* What a step does to the holders: when it stores nothing, clears nothing *)
(* and moves no number, the entries stay whose they are.                   *)
LEMMA EntriesStay ==
  ASSUME NEW g \in [Clients -> Nat], Entries(g),
         UNCHANGED client_fds,
         \A c \in Clients : Holds(c)' => Holds(c) /\ Number(c)' = Number(c),
         \A c \in Clients : thread'[c].pc = "clear" =>
           thread[c].pc = "clear" /\ thread'[c].slot = thread[c].slot
  PROVE  Entries(g)'
BY DEF Entries

(* An entry is added in a free slot: no other is there.                    *)
LEMMA StoreEntry ==
  ASSUME Inv, EachHasAnEntry, ~crossed, Store
  PROVE  \E g \in [Clients -> Nat] : Entries(g)'
<1>. USE DEF Inv, TypeOK
<1>1. PICK g \in [Clients -> Nat] : Entries(g)
  BY DEF EachHasAnEntry
<1>2. PICK i \in Slots : /\ client_fds[i] = Free
                        /\ client_fds' = [client_fds EXCEPT ![i] = manager.fd]
  BY DEF Store
<1>3. PICK c \in Clients : InHand(c) /\ thread[c].pc = "none"
  BY DEF Store, HandedOn
<1>4. PICK h \in [Clients -> Nat] :
        h[c] = i /\ \A d \in Clients : d # c => h[d] = g[d]
  <2>. DEFINE k == [g EXCEPT ![c] = i]
  <2>1. k \in [Clients -> Nat]
    BY TcpServerAssumption DEF Slots
  <2>2. k[c] = i /\ \A d \in Clients : d # c => k[d] = g[d]
    OBVIOUS
  <2>. QED BY <2>1, <2>2
<1>5. Free \notin Fds
  BY TcpServerAssumption DEF Free
<1>6. \A d \in Clients \ {c} : Holds(d) => client_fds[g[d]] = Number(d) /\ Number(d) \in Fds
  BY <1>1 DEF Entries
<1>7. UNCHANGED thread /\ manager'.pc = "create" /\ manager'.client = c
      /\ manager'.fd = manager.fd /\ manager.pc = "store"
  BY <1>3 DEF Store, ManagerTo, InHand
<1>8. \A d \in Clients : d # c =>
        /\ Holds(d)' => Holds(d) /\ Number(d)' = Number(d)
        /\ Holds(d) => g[d] # i
  BY <1>2, <1>5, <1>6, <1>7 DEF Holds, Number
<1>9. Number(c)' = manager.fd /\ manager.fd \in Fds /\ thread'[c].pc # "clear"
  BY <1>3, <1>7 DEF Number, InHand
<1>10. client_fds'[i] = manager.fd /\ \A j \in Slots \ {i} : client_fds'[j] = client_fds[j]
  BY <1>2
<1>11. Entries(h)'
  <2>1. ASSUME NEW d \in Clients, Holds(d)'
        PROVE  h[d] \in Slots /\ Number(d)' \in Fds /\ client_fds'[h[d]] = Number(d)'
    <3>1. CASE d = c
      BY <1>2, <1>9, <1>10, <1>4, <3>1
    <3>2. CASE d # c
      BY <1>1, <1>4, <1>8, <1>10, <2>1, <3>2 DEF Entries
    <3>. QED BY <3>1, <3>2
  <2>2. ASSUME NEW d \in Clients, NEW e \in Clients, Holds(d)', Holds(e)', h[d] = h[e]
        PROVE  d = e
    BY <1>1, <1>4, <1>8, <2>2 DEF Entries
  <2>3. ASSUME NEW d \in Clients, thread'[d].pc = "clear"
        PROVE  h[d] = thread'[d].slot
    BY <1>1, <1>7, <1>9, <1>4, <2>3 DEF Entries
  <2>. QED BY <2>1, <2>2, <2>3 DEF Entries
<1>. QED BY <1>11

(* A thread that finds a slot takes it for its entry; whose entry it was,  *)
(* one with the same number, has the one the thread had.                   *)
LEMMA FindEntry ==
  ASSUME Inv, EachHasAnEntry, ~crossed, NEW c \in Clients, Find(c), ~crossed'
  PROVE  \E g \in [Clients -> Nat] : Entries(g)'
<1>. USE DEF Inv, TypeOK
<1>1. PICK g \in [Clients -> Nat] : Entries(g)
  BY DEF EachHasAnEntry
<1>2. thread[c].pc = "find" /\ UNCHANGED <<client_fds, owner, manager>>
  BY DEF Find
<1>3. Number(c) = thread[c].fd /\ g[c] \in SlotsOf(thread[c].fd)
  BY <1>1, <1>2 DEF Entries, Holds, Number, SlotsOf
<1>4. PICK i \in SlotsOf(thread[c].fd) : Found(c, i, "clear") /\ ~Crosses(i)
  BY <1>3 DEF Find
<1>5. i \in Slots /\ client_fds[i] = thread[c].fd /\ i \in Nat
  BY <1>4, TcpServerAssumption DEF SlotsOf, Slots
<1>. DEFINE h == [d \in Clients |-> IF d = c THEN i ELSE IF g[d] = i THEN g[c] ELSE g[d]]
<1>6. h \in [Clients -> Nat]
  BY <1>1, <1>5
<1>7. /\ thread'[c].pc = "clear" /\ thread'[c].slot = i /\ thread'[c].fd = thread[c].fd
      /\ \A d \in Clients \ {c} : thread'[d] = thread[d]
  BY <1>4 DEF Found
<1>8. \A d \in Clients : (Holds(d)' <=> Holds(d)) /\ Number(d)' = Number(d)
  BY <1>2, <1>7 DEF Holds, Number
<1>9. Holds(c)
  BY <1>2 DEF Holds
<1>10. \A d \in Clients \ {c} : thread[d].pc = "clear" => g[d] # i
  BY <1>1, <1>4 DEF Entries, Crosses
<1>11. Entries(h)'
  <2>1. ASSUME NEW d \in Clients, Holds(d)'
        PROVE  h[d] \in Slots /\ Number(d)' \in Fds /\ client_fds'[h[d]] = Number(d)'
    BY <1>1, <1>2, <1>3, <1>5, <1>8, <1>9, <2>1 DEF Entries
  <2>2. ASSUME NEW d \in Clients, NEW e \in Clients, Holds(d)', Holds(e)', h[d] = h[e]
        PROVE  d = e
    BY <1>1, <1>8, <1>9, <2>2 DEF Entries
  <2>3. ASSUME NEW d \in Clients, thread'[d].pc = "clear"
        PROVE  h[d] = thread'[d].slot
    BY <1>1, <1>7, <1>10, <2>3 DEF Entries
  <2>. QED BY <2>1, <2>2, <2>3 DEF Entries
<1>. QED BY <1>6, <1>11

(* A thread clears its own entry, and nobody else's.                       *)
LEMMA ClearEntry ==
  ASSUME Inv, EachHasAnEntry, ~crossed, NEW c \in Clients, Clear(c)
  PROVE  \E g \in [Clients -> Nat] : Entries(g)'
<1>. USE DEF Inv, TypeOK
<1>1. PICK g \in [Clients -> Nat] : Entries(g)
  BY DEF EachHasAnEntry
<1>2. thread[c].pc = "clear" /\ UNCHANGED <<owner, manager>>
  BY DEF Clear
<1>3. thread'[c].pc = "none" /\ \A d \in Clients \ {c} : thread'[d] = thread[d]
  BY DEF Clear, Ends, NoThread
<1>4. g[c] = thread[c].slot /\ Holds(c)
  BY <1>1, <1>2 DEF Entries, Holds
<1>5. \A j \in Slots : j # thread[c].slot => client_fds'[j] = client_fds[j]
  BY DEF Clear
<1>6. ~Holds(c)'
  <2>1. manager.pc = "create" => manager.client # c
    BY <1>2 DEF HandedOn, InHand
  <2>. QED BY <1>2, <1>3, <2>1 DEF Holds
<1>7. \A d \in Clients \ {c} : (Holds(d)' <=> Holds(d)) /\ Number(d)' = Number(d)
  BY <1>2, <1>3 DEF Holds, Number
<1>8. Entries(g)'
  <2>1. ASSUME NEW d \in Clients, Holds(d)'
        PROVE  g[d] \in Slots /\ Number(d)' \in Fds /\ client_fds'[g[d]] = Number(d)'
    BY <1>1, <1>4, <1>5, <1>6, <1>7, <2>1 DEF Entries
  <2>2. ASSUME NEW d \in Clients, NEW e \in Clients, Holds(d)', Holds(e)', g[d] = g[e]
        PROVE  d = e
    BY <1>1, <1>6, <1>7, <2>2 DEF Entries
  <2>3. ASSUME NEW d \in Clients, thread'[d].pc = "clear"
        PROVE  g[d] = thread'[d].slot
    BY <1>1, <1>3, <2>3 DEF Entries
  <2>. QED BY <2>1, <2>2, <2>3 DEF Entries
<1>. QED BY <1>1, <1>8

(* Every step keeps an entry for each, as long as nothing has crossed.     *)
LEMMA EntryStep ==
  ASSUME Inv, EachHasAnEntry, [Next]_vars, Prompt
  PROVE  EachHasAnEntry'
<1>. SUFFICES ASSUME ~crossed'
              PROVE  /\ \A c \in Clients : thread'[c].pc # "quit"
                     /\ \E g \in [Clients -> Nat] : Entries(g)'
  BY DEF EachHasAnEntry
<1>. USE DEF Inv, TypeOK
<1>1. ~crossed
  BY Zenon DEF Next, vars, Manager, Thread, Accept, AcceptFails, Store, NotServed, Create, Wake,
     Start, Quit, QuitClear, Leave, Close, Find, Clear
<1>2. PICK g \in [Clients -> Nat] : Entries(g)
  BY <1>1 DEF EachHasAnEntry
<1>3. \A c \in Clients : thread[c].pc # "quit"
  BY <1>1 DEF EachHasAnEntry
<1>4. ASSUME NEW c \in Clients, NEW f \in Fds, Accept(c, f)
      PROVE  Entries(g)' /\ \A d \in Clients : thread'[d].pc # "quit"
  <2>1. \A d \in Clients : thread[d].pc # "start"
    BY <1>4 DEF Accept, HandedOn
  <2>2. UNCHANGED <<client_fds, thread>> /\ manager'.pc = "store"
    BY <1>4 DEF Accept
  <2>3. \A d \in Clients : Holds(d)' => Holds(d) /\ Number(d)' = Number(d)
    BY <2>1, <2>2 DEF Holds, Number
  <2>. QED BY <1>2, <1>3, <2>2, <2>3, EntriesStay
<1>5. CASE AcceptFails
  <2>1. \A d \in Clients : thread[d].pc # "start"
    BY <1>5 DEF AcceptFails, HandedOn
  <2>2. UNCHANGED <<client_fds, thread>> /\ manager'.pc = "stopped"
    BY <1>5 DEF AcceptFails
  <2>3. \A d \in Clients : Holds(d)' => Holds(d) /\ Number(d)' = Number(d)
    BY <2>1, <2>2 DEF Holds, Number
  <2>. QED BY <1>2, <1>3, <2>2, <2>3, EntriesStay
<1>6. CASE Store
  BY <1>1, <1>3, <1>6, StoreEntry DEF Store
<1>7. CASE NotServed
  <2>1. UNCHANGED <<client_fds, thread>> /\ manager' = [manager EXCEPT !.pc = "sleep"]
    BY <1>7 DEF NotServed, ManagerTo
  <2>2. \A d \in Clients : Holds(d)' => Holds(d) /\ Number(d)' = Number(d)
    BY <2>1 DEF Holds, Number
  <2>. QED BY <1>2, <1>3, <2>1, <2>2, EntriesStay
<1>8. CASE Create
  <2>1. UNCHANGED client_fds /\ manager' = [manager EXCEPT !.pc = "sleep"] /\ manager.pc = "create"
    BY <1>8 DEF Create, ManagerTo
  <2>2. PICK c \in Clients : c = manager.client /\ thread[c].pc = "none"
    BY <2>1 DEF HandedOn, InHand
  <2>3. thread' = [thread EXCEPT ![c].pc = "start"]
    BY <1>8, <2>2 DEF Create
  <2>4. \A d \in Clients : Holds(d)' => Holds(d) /\ Number(d)' = Number(d)
    BY <2>1, <2>2, <2>3 DEF Holds, Number
  <2>. QED BY <1>2, <1>3, <2>1, <2>3, <2>4, EntriesStay
<1>9. CASE Wake
  <2>1. UNCHANGED <<client_fds, thread>> /\ manager' = [manager EXCEPT !.pc = "accept"]
    BY <1>9 DEF Wake, ManagerTo
  <2>2. \A d \in Clients : Holds(d)' => Holds(d) /\ Number(d)' = Number(d)
    BY <2>1 DEF Holds, Number
  <2>. QED BY <1>2, <1>3, <2>1, <2>2, EntriesStay
<1>10. ASSUME NEW c \in Clients, Thread(c)
       PROVE  /\ \A d \in Clients : thread'[d].pc # "quit"
              /\ \E h \in [Clients -> Nat] : Entries(h)'
  <2>1. CASE Start(c)
    <3>1. UNCHANGED <<client_fds, manager>> /\ thread[c].pc = "start"
          /\ thread' = [thread EXCEPT ![c].pc = "recv", ![c].fd = manager.fd]
      BY <2>1 DEF Start
    <3>2. \A d \in Clients : Holds(d)' => Holds(d) /\ Number(d)' = Number(d)
      BY <3>1 DEF Holds, Number
    <3>. QED BY <1>2, <1>3, <3>1, <3>2, EntriesStay
  <2>2. CASE Quit(c)
    BY <2>2 DEF Quit
  <2>3. CASE QuitClear(c)
    BY <1>3, <2>3 DEF QuitClear
  <2>4. CASE Leave(c)
    <3>1. UNCHANGED <<client_fds, manager>> /\ thread[c].pc = "recv"
          /\ thread' = [thread EXCEPT ![c].pc = "close"]
      BY <2>4 DEF Leave, ThreadTo
    <3>2. \A d \in Clients : Holds(d)' => Holds(d) /\ Number(d)' = Number(d)
      BY <3>1 DEF Holds, Number
    <3>. QED BY <1>2, <1>3, <3>1, <3>2, EntriesStay
  <2>5. CASE Close(c)
    <3>1. UNCHANGED <<client_fds, manager>> /\ thread[c].pc = "close"
          /\ thread' = [thread EXCEPT ![c].pc = "find"]
      BY <2>5 DEF Close, ThreadTo
    <3>2. \A d \in Clients : Holds(d)' => Holds(d) /\ Number(d)' = Number(d)
      BY <3>1 DEF Holds, Number
    <3>. QED BY <1>2, <1>3, <3>1, <3>2, EntriesStay
  <2>6. CASE Find(c)
    <3>1. \A d \in Clients : thread'[d].pc # "quit"
      BY <1>3, <2>6 DEF Find, Found, Ends, NoThread
    <3>2. \E h \in [Clients -> Nat] : Entries(h)'
      BY <1>1, <2>6, FindEntry
    <3>. QED BY <3>1, <3>2
  <2>7. CASE Clear(c)
    <3>1. \A d \in Clients : thread'[d].pc # "quit"
      BY <1>3, <2>7 DEF Clear, Ends, NoThread
    <3>2. \E h \in [Clients -> Nat] : Entries(h)'
      BY <1>1, <2>7, ClearEntry
    <3>. QED BY <3>1, <3>2
  <2>. QED BY <1>10, <2>1, <2>2, <2>3, <2>4, <2>5, <2>6, <2>7 DEF Thread
<1>11. CASE UNCHANGED vars
  BY <1>2, <1>3, <1>11 DEF vars, Entries, Holds, Number
<1>. QED BY <1>2, <1>4, <1>5, <1>6, <1>7, <1>8, <1>9, <1>10, <1>11 DEF Next, Manager

-----------------------------------------------------------------------------
(* Theorems *)

(* Whatever the timing, a slot holds the number of a descriptor or is free,*)
(* and only a connection accepted is stored (socket.c:119-131).            *)
THEOREM TypeCorrect == Spec => []TypeOK
BY TypeInit, TypeStep, PTL DEF Spec

(* The steps of Spec keep Inv. *)
LEMMA InvInductive ==
  ASSUME Prompt
  PROVE  (Init => Inv) /\ (Inv /\ [Next]_vars => Inv')
<1>1. Init => Inv
  BY TypeInit DEF Init, Inv, ServesOwn, Serving, HandedOn, NoThread
<1>2. Inv /\ [Next]_vars => Inv'
  <2>. SUFFICES ASSUME Inv, [Next]_vars PROVE Inv'
    OBVIOUS
  <2>1. TypeOK'
    BY TypeStep DEF Inv
  <2>2. CASE Manager
    BY <2>1, <2>2, ManagerStep DEF Inv
  <2>3. ASSUME NEW c \in Clients, Thread(c) PROVE Inv'
    BY <2>1, <2>3, ThreadStep DEF Inv
  <2>4. CASE UNCHANGED vars
    BY <2>1, <2>4 DEF vars, Inv, ServesOwn, Serving, HandedOn, InHand
  <2>. QED BY <2>2, <2>3, <2>4 DEF Next
<1>. QED BY <1>1, <1>2

(* With a sleep that outlasts the start of a thread, no thread reads from, *)
(* or closes, the connection of another's client.                          *)
THEOREM OwnConnection ==
  ASSUME Prompt
  PROVE  Spec => []ServesOwn
<1>1. (Init => Inv) /\ (Inv /\ [Next]_vars => Inv')
  BY InvInductive
<1>2. Inv => ServesOwn
  BY DEF Inv
<1>. QED BY <1>1, <1>2, PTL DEF Spec

(* Until a client quits, or two threads find the same slot, who is served  *)
(* stays in the list, however numbers and slots change hands between the   *)
(* scan of a thread and its clearing (socket.c:127-131, 266-271).          *)
THEOREM Listed ==
  ASSUME Prompt
  PROVE  Spec => []ServedAreListed
<1>1. Init => ListInv
  <2>. SUFFICES ASSUME Init PROVE EachHasAnEntry
    BY InvInductive DEF ListInv
  <2>. DEFINE g == [c \in Clients |-> 0]
  <2>1. g \in [Clients -> Nat]
    OBVIOUS
  <2>2. \A c \in Clients : thread[c].pc = "none" /\ ~Holds(c)
    BY DEF Init, NoThread, Holds
  <2>3. Entries(g)
    BY <2>2 DEF Entries
  <2>. QED BY <2>1, <2>2, <2>3 DEF EachHasAnEntry
<1>2. ListInv /\ [Next]_vars => ListInv'
  BY InvInductive, EntryStep DEF ListInv
<1>3. ListInv => ServedAreListed
  <2>. SUFFICES ASSUME ListInv, ~crossed, NEW c \in Clients, thread[c].pc = "recv"
                PROVE  SlotsOf(thread[c].fd) # {}
    BY DEF ServedAreListed
  <2>1. PICK g \in [Clients -> Nat] : Entries(g)
    BY DEF ListInv, EachHasAnEntry
  <2>2. Holds(c) /\ Number(c) = thread[c].fd
    BY DEF Holds, Number
  <2>. QED BY <2>1, <2>2 DEF Entries, SlotsOf
<1>. QED BY <1>1, <1>2, <1>3, PTL DEF Spec

=============================================================================
