----------------------------- MODULE MCCanLink -----------------------------
(* Small instances of CanLink for TLC. *)
EXTENDS CanLink

(* In message 1 the third frame looks like a header, in message 2 the last. *)
MCAlike == {<<1, 3>>, <<2, N>>}
=============================================================================
