----------------------------- MODULE MCWsReceive -----------------------------
(* Small instances of WsReceive for TLC. *)
EXTENDS WsReceive

Package(type, len) == [type |-> type, len |-> len]

(* A package on each side of the lengths at which the header grows, one    *)
(* that fills the buffer and one that does not fit it, and two short ones. *)
MCPackages ==
  {Package("TXTDATA", n) : n \in {8, 125, 126, 65535, 65536, Size - 14, Size - 13}}
    \cup {Package("PING", 0), Package("DISCONN", 2)}

(* No package, one of 60 kB, one that is too large: with short ones a long *)
(* package would be read 14 bytes at a time.                               *)
MCGarbled ==
  {<<0, 0>>, <<129, 254, 234, 96>>, <<130, 255, 0, 0, 0, 0, 0, 127, 0, 0>>}
=============================================================================
