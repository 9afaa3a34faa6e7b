------------------------------ MODULE CanLink ------------------------------
(***************************************************************************)
(* The reassembly of the train message from CAN frames                     *)
(* (Rce04aCanReadMsgPoll, can.c:808-866) and the two checks of what has    *)
(* been assembled (UnpackePeriodMsgFromCAN, can.c:476-673).                *)
(*                                                                         *)
(* The train sends its messages frame by frame.  A frame is the number of  *)
(* its message and its place in it; only the first of a message carries    *)
(* the header the code looks for, unless the data of another happen to     *)
(* look like one.  Frames may be lost, and reads may fail, at any moment;  *)
(* the frames that arrive do so in order.                                  *)
(***************************************************************************)
EXTENDS Integers, Sequences

CONSTANTS
  N,          \* frames of a message: 19
  Alike,      \* frames that are no header and look like one
  MaxMessage, \* bound of the model: the last message sent
  Empty,      \* the cleared record
  Mixed       \* a record taken from frames of several messages

ASSUME CanLinkAssumption ==
  /\ N \in Nat \ {0, 1}
  /\ Alike \subseteq Nat \X (2..N)
  /\ MaxMessage \in Nat
  /\ Empty \notin Nat
  /\ Mixed \notin Nat \cup {Empty}

VARIABLES
  message,    \* the message being sent
  place,      \* the place in it of the frame that is sent next
  recvbuf,    \* the frames stored; frame_index is its length
  record,     \* the message g_period_msg_from_signal was taken from
  intact,     \* history: no frame of the message being sent was lost
  headerLost  \* history: a first frame was lost since recvbuf was started

vars == <<message, place, recvbuf, record, intact, headerLost>>

Frame == Nat \X (1..N)

TypeOK ==
  /\ message \in Nat
  /\ place \in 1..N
  /\ recvbuf \in Seq(Frame)
  /\ Len(recvbuf) < N
  /\ record \in Nat \cup {Empty, Mixed}
  /\ intact \in BOOLEAN
  /\ headerLost \in BOOLEAN

(* The thread may start in the middle of a message. *)
Init ==
  /\ message = 0
  /\ place \in 1..N
  /\ recvbuf = <<>>
  /\ record = Empty
  /\ intact = (place = 1)
  /\ headerLost = FALSE

(* Mutant: a header is looked for between messages only. *)
IsHeaderBetween(f) == recvbuf = <<>> /\ (f[2] = 1 \/ f \in Alike)

(* Lines 831-832: 0x55, the id 101 and the number of frames. *)
IsHeader(f) == f[2] = 1 \/ f \in Alike

(* Mutant: a header does not start the buffer anew. *)
StoredOn(f) == Append(recvbuf, f)

(* Lines 831-839: a header starts the buffer anew. *)
Stored(f) == IF IsHeader(f) THEN <<f>> ELSE Append(recvbuf, f)

Whole(b) == \A i \in 1..N : b[i] = <<b[1][1], i>>

(* UnpackePeriodMsgFromCAN overwrites the record, and clears it again if   *)
(* the checksum is wrong: frames of several messages may have the right    *)
(* sum, of one byte.  A buffer that does not begin with a header is left   *)
(* alone, unless its bytes after the first pass for one: 0x55 is not       *)
(* compared here.                                                          *)
Unpacked(b) ==
  IF Whole(b) THEN {b[1][1]}
  ELSE IF IsHeader(b[1]) THEN {Empty, Mixed}
  ELSE {record, Empty, Mixed}

(* The train goes on to the next frame. *)
Advance ==
  IF place = N THEN place' = 1 /\ message' = message + 1
               ELSE place' = place + 1 /\ UNCHANGED message

(* One round of the loop of lines 816-848. *)
Receive ==
  /\ message <= MaxMessage
  /\ LET f == <<message, place>>
         b == Stored(f)
     IN /\ IF Len(b) = N
           THEN recvbuf' = <<>> /\ record' \in Unpacked(b)
           ELSE recvbuf' = b /\ UNCHANGED record
        /\ headerLost' = (headerLost /\ ~IsHeader(f) /\ Len(b) # N)
  /\ Advance
  /\ intact' = (intact \/ place = N)

Lose ==
  /\ message <= MaxMessage
  /\ Advance
  /\ intact' = (place = N)
  /\ headerLost' = (headerLost \/ place = 1)
  /\ UNCHANGED <<recvbuf, record>>

(* Line 863: the loop ends and the record is cleared; the buffer stays. *)
ReadFails ==
  /\ record' = Empty
  /\ UNCHANGED <<message, place, recvbuf, intact, headerLost>>

Next == Receive \/ Lose \/ ReadFails

Spec == Init /\ [][Next]_vars

-----------------------------------------------------------------------------
(* Properties *)

(* A record is taken from frames of several messages only if a first frame *)
(* was lost since the buffer was started: nothing else that is lost, no    *)
(* read that fails and no look-alike can make the count of 19 join two     *)
(* messages (can.c:841).                                                   *)
NoMixture == [][record # Mixed /\ record' = Mixed => headerLost]_vars

(* The link synchronises itself: a message of which every frame arrives is *)
(* taken, whatever was lost before and wherever the reassembly stood,      *)
(* unless one of its own frames looks like a header (can.c:832-848).       *)
CompleteIsTaken ==
  [][/\ Receive
     /\ place = N
     /\ intact
     /\ \A k \in 2..N : <<message, k>> \notin Alike
     => record' = message]_vars

(* The link is what the program takes it for: whole messages, in order, at *)
(* most once, and at most one mixture for each header lost (can.c:811-866).*)
Link == INSTANCE Telegrams WITH broken <- headerLost
IsTelegrams == Link!Spec
=============================================================================
