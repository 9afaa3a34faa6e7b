------------------------------ MODULE WsReceive ------------------------------
(***************************************************************************)
(* The receiving end of one WebSocket connection: client_recv              *)
(* (WebServer.c:45-106) and ws_recv (WebCom.c:1204-1337), which take       *)
(* packages out of a stream of bytes: first as many bytes as the longest   *)
(* header has, then what the header says is missing.                       *)
(*                                                                         *)
(* The network hands the stream over in pieces of its own making, cut      *)
(* within packages or holding several.  The bytes of a package are not     *)
(* kept; what counts is where it begins and ends in the stream, and its    *)
(* header.  The socket blocks; that a connection is reset is left out.     *)
(***************************************************************************)
EXTENDS Integers, Sequences

CONSTANTS
  Try,      \* 14, the bytes taken first
  Size,     \* WS_SERVER_PKG, the bytes the buffer has
  KeyName,  \* bytes of the handshake up to the name of its key,
  KeyAt,    \* up to the first letter of the key,
  KeyEnd,   \* up to its last,
  HelloLen, \* and in all
  Packages, \* what the client may send: [type, len]
  Garbled,  \* what headers read in the middle of a package may be
  Cuts,     \* bound: the bytes of a package a piece may end after
  MaxSent   \* bound: packages the client sends

(* Ws_DataType, and the codes ws_enPackage gives them. *)
Code == [MINDATA |-> 0, TXTDATA |-> 1, BINDATA |-> 2, DISCONN |-> 8, PING |-> 9, PONG |-> 10]
Types == DOMAIN Code

(* A request for the connection, with a key or without one that can be     *)
(* read.  The path of the server is "/", which every request has.          *)
Hellos == {"HELLO", "KEYLESS"}

-----------------------------------------------------------------------------
(* Packages *)

(* WebCom.c:715: from this length on, the length takes bytes of its own. *)
LongFrom == 126

(* The values of one byte and of two. *)
Byte == 256
Word == 65536

(* ws_enPackage, lines 695-745: the type, the length in 7, 16 or 32 bits,  *)
(* and whether a mask of four bytes follows.                               *)
Header(type, len, mask) ==
  LET head == 128 + Code[type]
      flag == IF mask THEN 128 ELSE 0
  IN  IF len < LongFrom THEN <<head, flag + len>>
      ELSE IF len < Word THEN <<head, flag + 126, len \div Byte, len % Byte>>
      ELSE <<head, flag + 127, 0, 0, 0, 0, (len \div Word) \div Byte, (len \div Word) % Byte,
             (len % Word) \div Byte, len % Byte>>

(* Lines 747-787, with the room ws_send leaves (1174-1175): the bytes of a *)
(* package, 0 if they do not fit.                                          *)
EnPackage(type, len, mask) ==
  LET bytes == Len(Header(type, len, mask)) + (IF mask THEN 4 ELSE 0) + len
  IN  IF bytes <= len + 14 THEN bytes ELSE 0

(* Mutants: the mask is forgotten, or counted twice. *)
MaskForgotten(head) == 0
MaskTwice(head) == IF head[2] >= 128 THEN 8 ELSE 0

(* Lines 849-853. *)
MaskBytes(head) == IF head[2] >= 128 THEN 4 ELSE 0

(* Lines 855-919: the bytes of a header but for its mask, and the length   *)
(* it tells.                                                               *)
LengthBytes(head) ==
  CASE head[2] % 128 = 126 -> 4
    [] head[2] % 128 = 127 -> 10
    [] OTHER -> 2

DataLength(head) ==
  CASE head[2] % 128 = 126 -> head[3] * Byte + head[4]
    [] head[2] % 128 = 127 -> (head[7] * Byte + head[8]) * Word + head[9] * Byte + head[10]
    [] OTHER -> head[2] % 128

(* Lengths up to 2^31 - 19: line 937 returns an int32_t, of the wrong sign *)
(* for longer ones, which are left out.                                    *)
Lengths == 0..(32767 * Word + (Word - 19))

ASSUME WsReceiveAssumption ==
  /\ {Size, KeyName, KeyAt, KeyEnd, HelloLen} \subseteq Nat
  /\ Try \in 14..Size
  /\ Try < KeyName /\ KeyName < KeyAt /\ KeyAt < KeyEnd /\ KeyEnd < HelloLen /\ HelloLen <= Size
  /\ Packages \subseteq [type : Types, len : Lengths]
  /\ \A head \in Garbled : DataLength(head) \in Lengths
  /\ Cuts \subseteq Nat \ {0}

(* Lines 825-847, of n bytes that begin with a header: the type, as soon   *)
(* as there are two bytes and the first is the head of one.                *)
TypeIn(head, n) ==
  LET types == {t \in Types : head[1] >= 128 /\ head[1] % 16 = Code[t]}
  IN  IF n < 2 \/ types = {} THEN "NULL" ELSE CHOOSE t \in types : TRUE

(* ws_dePackage, lines 856-937: the bytes of the package, 0 if the n are   *)
(* not the beginning of one or too few to tell.                            *)
DePackage(head, n) ==
  IF \/ TypeIn(head, n) = "NULL" \/ n < LengthBytes(head)
     \/ LengthBytes(head) = 10 /\ \E k \in 3..6 : head[k] # 0
  THEN 0
  ELSE LengthBytes(head) + MaskBytes(head) + DataLength(head)

-----------------------------------------------------------------------------
VARIABLES
  sent,     \* the packages of the stream: type, length, and where they end
  arrived,  \* how far the stream has come into the socket
  closed,   \* the client has closed its end
  reply,    \* how the handshake was answered, as the client sees it
  taken,    \* how far the stream is taken out of the socket
  at,       \* where ws_recv waits: "idle", "rest", "drop" or "more"
  buff,     \* where in the stream the buffer begins, the bytes in it, and
            \* the header read there
  wsc,      \* isLogin and exitType
  got,      \* history: what was received, and the bytes it came of, while
            \* `whole' holds
  whole     \* history: no receive has begun with less than a header, with
            \* more than a package or with one too large

vars == <<sent, arrived, closed, reply, taken, at, buff, wsc, got, whole>>

client == <<sent, arrived, closed>>

Kinds == {"HELLO", "MESSAGE", "PING", "PONG", "DISCONN", "BAD"}

TypeOK ==
  /\ sent \in Seq([type : Types \cup Hellos, len : Nat, end : Nat])
  /\ arrived \in Nat /\ taken \in 0..arrived
  /\ closed \in BOOLEAN
  /\ reply \in {"none", "accept", "wrong key"}
  /\ at \in {"idle", "rest", "drop", "more"}
  /\ buff.from \in 0..taken /\ buff.held \in Nat
  /\ wsc \in [isLogin : BOOLEAN, exitType : {"NONE", "LOGIN", "DISCONNECT"}]
  /\ got \in Seq([from : Nat, to : Nat, kind : Kinds])
  /\ whole \in BOOLEAN

Init ==
  /\ sent = <<>>
  /\ arrived = 0 /\ taken = 0
  /\ closed = FALSE
  /\ reply = "none"
  /\ at = "idle"
  /\ buff = [from |-> 0, held |-> 0, head |-> <<>>]
  /\ wsc = [isLogin |-> FALSE, exitType |-> "NONE"]
  /\ got = <<>>
  /\ whole = TRUE

Start(i) == IF i = 1 THEN 0 ELSE sent[i - 1].end
StreamEnd == Start(Len(sent) + 1)

-----------------------------------------------------------------------------
(* The client and the network *)

Hello ==
  /\ sent = <<>> /\ ~closed
  /\ \E h \in Hellos : sent' = <<[type |-> h, len |-> 0, end |-> HelloLen]>>
  /\ UNCHANGED <<arrived, closed, reply, taken, at, buff, wsc, got, whole>>

(* Once its handshake is answered, and masked, as RFC 6455 asks.  What the *)
(* client sends while an earlier package is still on its way is as good as *)
(* sent when that has come.                                                *)
Send ==
  /\ reply = "accept" /\ ~closed /\ arrived = StreamEnd
  /\ Len(sent) < MaxSent + 1
  /\ \E p \in Packages :
       sent' = Append(sent, [type |-> p.type, len |-> p.len,
                             end |-> StreamEnd + EnPackage(p.type, p.len, TRUE)])
  /\ UNCHANGED <<arrived, closed, reply, taken, at, buff, wsc, got, whole>>

Arrive ==
  /\ \E i \in DOMAIN sent :
       \E piece \in {sent[i].end} \cup {Start(i) + cut : cut \in Cuts} :
         /\ piece \in (arrived + 1)..sent[i].end
         /\ arrived' = piece
  /\ UNCHANGED <<sent, closed, reply, taken, at, buff, wsc, got, whole>>

Close ==
  /\ ~closed /\ arrived = StreamEnd
  /\ closed' = TRUE
  /\ UNCHANGED <<sent, arrived, reply, taken, at, buff, wsc, got, whole>>

-----------------------------------------------------------------------------
(* client_recv, with what ws_recv returned *)

(* Lines 62-65: the buffer begins with "GET" and names a key.              *)
Asked(from, to) == from = 0 /\ to >= KeyName

(* Mutant: the key is not looked for. *)
AnswersAny(to) == sent[1].type = "HELLO"

(* ws_replyClient, WebCom.c:1123-1145: some of a key is found.             *)
Answers(to) == sent[1].type = "HELLO" /\ to >= KeyAt

(* ws_buildRespondShakeKey, WebCom.c:532-578: right for the whole key only, *)
(* and it is made of as much of the key as is there.                       *)
RespondKey(to) == IF to >= KeyEnd THEN "accept" ELSE "wrong key"

(* Lines 59-102: of the n bytes in the buffer, a package of some type, or  *)
(* what is not a whole one but may have a type all the same.  A request is *)
(* answered (WebCom.c:1147-1148); onMessage gets the rest.                 *)
Received(package, type, n) ==
  LET from == buff'.from
      asked == ~wsc.isLogin /\ ~package /\ Asked(from, from + n)
      kind == IF asked THEN "HELLO"
              ELSE IF ~package THEN "BAD"
              ELSE IF type \in {"MINDATA", "TXTDATA", "BINDATA"} THEN "MESSAGE"
              ELSE type
  IN  /\ got' = IF whole' THEN Append(got, [from |-> from, to |-> from + n, kind |-> kind])
                ELSE got
      /\ wsc' = IF asked
                THEN IF Answers(from + n) THEN [wsc EXCEPT !.isLogin = TRUE]
                                          ELSE [wsc EXCEPT !.exitType = "LOGIN"]
                ELSE IF type = "DISCONN" THEN [wsc EXCEPT !.exitType = "DISCONNECT"]
                ELSE wsc
      /\ reply' = IF asked /\ Answers(from + n)
                  THEN RespondKey(from + n) ELSE reply
      /\ at' = "idle"

(* recv of k bytes, which waits for at least one, as far as they are here. *)
Recv(k) ==
  /\ arrived > taken
  /\ taken' = IF arrived - taken < k THEN arrived ELSE taken + k

Missing == DePackage(buff.head, buff.held) - buff.held

(* The type of what begins the buffer, once two bytes of it are there. *)
BuffType == TypeIn(buff.head, buff.held)

-----------------------------------------------------------------------------
(* ws_recv *)

(* What stands where a receive begins. *)
Heads(from) ==
  IF \E i \in DOMAIN sent : Start(i) = from
  THEN LET p == sent[CHOOSE i \in DOMAIN sent : Start(i) = from]
       IN  {IF p.type \in Hellos THEN <<71, 69, 84>> ELSE Header(p.type, p.len, TRUE)}
  ELSE Garbled

(* Whether n bytes of a package are enough to tell its length, none of     *)
(* them is of the next, and the buffer can take it.                        *)
Begun(from, n) ==
  \E i \in DOMAIN sent :
    /\ Start(i) = from
    /\ \/ sent[i].type \in Hellos
       \/ /\ n >= Len(Header(sent[i].type, sent[i].len, TRUE))
          /\ from + n <= sent[i].end
          /\ sent[i].end - from <= Size

(* Mutant: the room in the buffer is not looked at. *)
NeverTooLarge(bytes) == FALSE

(* Line 1238. *)
TooLarge(bytes) == bytes > Size

(* Lines 1230-1238 and 1301: what is to be done about the first n.         *)
RecvHead ==
  /\ at = "idle" /\ wsc.exitType = "NONE"
  /\ Recv(Try)
  /\ \E head \in Heads(taken) :
       LET n == taken' - taken
           bytes == DePackage(head, n)
       IN  /\ buff' = [from |-> taken, held |-> n, head |-> head]
           /\ whole' = (whole /\ Begun(taken, n))
           /\ IF bytes \in 1..n
              THEN Received(TRUE, TypeIn(head, n), n)
              ELSE /\ at' = IF bytes = 0 \/ TooLarge(bytes) THEN "rest" ELSE "more"
                   /\ UNCHANGED <<wsc, reply, got>>
  /\ UNCHANGED client

(* Lines 1241-1251, of which n is the result of the one recv: the buffer   *)
(* takes what has come.  If the package is too large the rest is dropped.  *)
Rest(n) ==
  /\ buff' = [buff EXCEPT !.held = @ + n]
  /\ IF TooLarge(DePackage(buff.head, buff.held))
     THEN at' = "drop" /\ UNCHANGED <<wsc, reply, got, whole>>
     ELSE /\ whole' = (whole /\ buff.from = 0 /\ buff.held + n = HelloLen)
          /\ Received(FALSE, BuffType, buff.held + n)

RecvRest ==
  /\ at = "rest"
  /\ Recv(Size - buff.held)
  /\ Rest(taken' - taken)
  /\ UNCHANGED client

(* The client has closed: recv returns 0. *)
NoRest ==
  /\ at = "rest" /\ closed /\ taken = arrived
  /\ Rest(0)
  /\ UNCHANGED <<client, taken>>

(* Lines 1248-1249; it ends with the connection only. *)
Drop ==
  /\ at = "drop"
  /\ taken < arrived
  /\ taken' = arrived
  /\ UNCHANGED <<client, reply, at, buff, wsc, got, whole>>

DropEnds ==
  /\ at = "drop" /\ closed /\ taken = arrived
  /\ UNCHANGED <<client, taken, buff, whole>>
  /\ Received(FALSE, BuffType, buff.held)

(* Lines 1266-1292 and 1301-1330: as long as there is something missing.   *)
RecvMore ==
  /\ at = "more"
  /\ Recv(Missing)
  /\ UNCHANGED <<client, whole>>
  /\ LET held == buff.held + taken' - taken
     IN  /\ buff' = [buff EXCEPT !.held = held]
         /\ IF held = buff.held + Missing
            THEN Received(TRUE, BuffType, held)
            ELSE UNCHANGED <<wsc, reply, got, at>>

(* Lines 1273-1284: 200 ms of a recv that returns 0, when the client has   *)
(* closed.                                                                 *)
GiveUp ==
  /\ at = "more" /\ closed /\ taken = arrived
  /\ UNCHANGED <<client, taken, buff, whole>>
  /\ Received(FALSE, BuffType, buff.held)

-----------------------------------------------------------------------------
Server == RecvHead \/ RecvRest \/ NoRest \/ Drop \/ DropEnds \/ RecvMore \/ GiveUp

Next == Hello \/ Send \/ Arrive \/ Close \/ Server

Spec == Init /\ [][Next]_vars

(* The side thread runs. *)
FairSpec == Spec /\ WF_vars(Server)

-----------------------------------------------------------------------------
(* Properties *)

Expected(type) ==
  IF type \in Hellos THEN "HELLO"
  ELSE IF type \in {"MINDATA", "TXTDATA", "BINDATA"} THEN "MESSAGE" ELSE type

(* What is received is what was sent, package by package, none lost, cut   *)
(* or joined to another, however the network cuts the stream, whatever the *)
(* lengths, as long as `whole' holds (WebCom.c:1214, 1238-1301).           *)
InOrder ==
  whole => \A k \in DOMAIN got :
             got[k] = [from |-> Start(k), to |-> sent[k].end, kind |-> Expected(sent[k].type)]

(* The buffer never gets more bytes than it has, nor waits for more, also  *)
(* when a header is read in the middle of a package (WebCom.c:1238).       *)
BufferHolds == buff.held <= Size /\ (at = "more" => buff.held + Missing <= Size)

(* A handshake that was received as it was sent is answered with the right *)
(* key, and no client is logged in before (WebServer.c:61-75).             *)
HandshakeAnswered ==
  /\ whole /\ got # <<>> /\ sent[1].type = "HELLO" => wsc.isLogin /\ reply = "accept"
  /\ wsc.isLogin => sent[1].type = "HELLO" /\ taken >= KeyAt

(* A package that has come is handed on in the end, whatever comes or does *)
(* not come after it (WebCom.c:1266-1301).                                 *)
WholeIsHanded ==
  \A i \in 1..(MaxSent + 1) :
    i <= Len(sent) /\ arrived >= sent[i].end
      ~> Len(got) >= i \/ ~whole \/ wsc.exitType # "NONE"
=============================================================================
