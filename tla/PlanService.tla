---------------------------- MODULE PlanService ----------------------------
(***************************************************************************)
(* What the planner promises whoever reads its curve, as if one thread did *)
(* it all: it takes one order at a time, prepares the interval of it,      *)
(* replaces the curve by the one of the interval prepared last, and takes  *)
(* no other order before it has said so.  The curve may be withdrawn when  *)
(* nothing is on order.  Once an order was interrupted nothing is promised *)
(* any more.                                                               *)
(***************************************************************************)
EXTENDS Integers

CONSTANTS
  Dist,       \* where each station of the table is
  LineLength

VARIABLES
  order,      \* what is on order, and how far it has come
  base,       \* the interval prepared last
  curve,      \* the interval the curve was computed for
  interrupted \* whether an order was interrupted

NoInterval == [begin |-> 0, end |-> 0]
NoOrder == [stage |-> "none", begin |-> 0, end |-> 0, next |-> 0]
Orders(stage) == [stage: {stage}, begin: Nat, end: Nat, next: Nat]

Init ==
  /\ order = NoOrder
  /\ base = NoInterval
  /\ curve = NoInterval
  /\ interrupted = FALSE

(* To a station of the table it goes forward. *)
Forward(o) ==
  o.next \in DOMAIN Dist => o.end = Dist[o.next] /\ o.begin < o.end

Take ==
  /\ order = NoOrder
  /\ order' \in Orders("taken") /\ Forward(order')
  /\ UNCHANGED <<base, curve, interrupted>>

(* An interval off the line is not prepared: the one before it stays. *)
Prepare ==
  /\ order.stage = "taken"
  /\ order' = [order EXCEPT !.stage = "prepared"]
  /\ base' = IF order.begin <= LineLength /\ order.end <= LineLength
             THEN [begin |-> order.begin, end |-> order.end]
             ELSE base
  /\ UNCHANGED <<curve, interrupted>>

Compute ==
  /\ order.stage = "prepared"
  /\ order' = [order EXCEPT !.stage = "computed"]
  /\ curve' = base
  /\ UNCHANGED <<base, interrupted>>

Announce ==
  /\ order.stage = "computed"
  /\ order' = NoOrder
  /\ UNCHANGED <<base, curve, interrupted>>

Withdraw ==
  /\ order = NoOrder
  /\ curve' = NoInterval
  /\ UNCHANGED <<order, base, interrupted>>

Interrupt ==
  /\ interrupted \/ order # NoOrder
  /\ interrupted' = TRUE

Next == Take \/ Prepare \/ Compute \/ Announce \/ Withdraw \/ Interrupt

Spec == Init /\ [][Next]_<<order, base, curve, interrupted>>
=============================================================================
