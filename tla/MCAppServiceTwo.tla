--------------------------- MODULE MCAppServiceTwo ---------------------------
(* A small instance of AppService for TLC: two clients.  Either they ask   *)
(* for the service and there is no curve, or there are curves and they ask *)
(* for nothing.                                                            *)
EXTENDS MCAppService

VARIABLE asking

Separated ==
  IF asking THEN curve' = curve
  ELSE side' = Idle /\ \A c \in Clients : phase'[c] \in {"away", "connected"}

(* A connection gets the lowest number, and a slot is cleared at once.     *)
LowestFirst ==
  \A f, g \in Fds : g < f /\ owner[g] = Nobody /\ owner[f] = Nobody => owner'[f] = Nobody
ClearedFirst ==
  (\E s \in Indices : slot[s].exiting) => \E s \in Indices : Clear(s)

TwoNext == Next /\ UNCHANGED asking /\ Separated /\ LowestFirst /\ ClearedFirst

TwoSpec == Init /\ asking \in BOOLEAN /\ [][TwoNext]_<<vars, asking>> /\ WF_vars(Push)
=============================================================================
