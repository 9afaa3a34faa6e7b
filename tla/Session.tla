------------------------------- MODULE Session -------------------------------
(***************************************************************************)
(* What the service of the APP promises a client: it is pushed messages    *)
(* 204 from when it has asked for the data of the line (103) and then for  *)
(* the service (104) on the same connection, until it ends the service or  *)
(* the connection.  A push that was on its way may come late: one, and no  *)
(* more before the client is in service again.                             *)
(***************************************************************************)
EXTENDS Naturals

CONSTANT Clients

VARIABLES
  phase, \* what each client has come to
  late   \* pushes it got since it was in service, or connected, last

Phases == {"away", "connected", "offered", "served"}

Init ==
  /\ phase = [c \in Clients |-> "away"]
  /\ late = [c \in Clients |-> 0]

Goto(c, p) ==
  /\ phase' = [phase EXCEPT ![c] = p]
  /\ late' = IF p = "served" \/ phase[c] = "away" THEN [late EXCEPT ![c] = 0] ELSE late

Connect(c) == phase[c] = "away" /\ Goto(c, "connected")

Offer(c) == phase[c] # "away" /\ Goto(c, "offered")

Serve(c) == phase[c] = "offered" /\ Goto(c, "served")

End(c) == phase[c] # "away" /\ Goto(c, "connected")

Leave(c) == phase[c] # "away" /\ Goto(c, "away")

PushLate(c) ==
  /\ phase[c] # "served"
  /\ late[c] = 0
  /\ late' = [late EXCEPT ![c] = 1]
  /\ UNCHANGED phase

Next ==
  \E c \in Clients :
    Connect(c) \/ Offer(c) \/ Serve(c) \/ End(c) \/ Leave(c) \/ PushLate(c)

Spec == Init /\ [][Next]_<<phase, late>>
=============================================================================
