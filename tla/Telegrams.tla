----------------------------- MODULE Telegrams -----------------------------
(***************************************************************************)
(* What the CAN link promises the rest of the program: the train record is *)
(* empty or was taken from one message of the train, complete; messages    *)
(* may be missed, but none is taken twice and none after a later one.      *)
(* Once the beginning of a message was lost, one record may be a mixture,  *)
(* and then the link is as good as before.                                 *)
(***************************************************************************)
EXTENDS Integers

CONSTANTS
  Empty,  \* the cleared record
  Mixed   \* a record taken from parts of several messages

VARIABLES
  message,  \* the message the train is sending, by its number
  record,   \* the message the record was taken from
  broken    \* whether the beginning of a message was lost

vars == <<message, record, broken>>

Init ==
  /\ message \in Nat
  /\ record = Empty
  /\ broken = FALSE

(* The message has been sent and is taken. *)
Deliver ==
  /\ record' = message
  /\ message' = message + 1
  /\ broken' = FALSE

(* The message has been sent and is missed. *)
Miss ==
  /\ message' = message + 1
  /\ UNCHANGED <<record, broken>>

Break ==
  /\ broken' = TRUE
  /\ UNCHANGED <<message, record>>

Recover ==
  /\ broken
  /\ broken' = FALSE
  /\ record' \in {record, Empty, Mixed}
  /\ message' \in {message, message + 1}

(* The bus is silent and what is known of the train is forgotten. *)
Forget ==
  /\ record' = Empty
  /\ UNCHANGED <<message, broken>>

Next == Deliver \/ Miss \/ Break \/ Recover \/ Forget

Spec == Init /\ [][Next]_vars
=============================================================================
