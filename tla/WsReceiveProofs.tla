-------------------------- MODULE WsReceiveProofs --------------------------
(***************************************************************************)
(* One WebSocket connection, for packages of any length, buffers of any    *)
(* size and every way the network may cut the stream.                      *)
(***************************************************************************)
EXTENDS WsReceive, TLAPS, SequenceTheorems

-----------------------------------------------------------------------------
(* Headers *)

LEMMA CodeParts ==
  /\ Types = {"MINDATA", "TXTDATA", "BINDATA", "DISCONN", "PING", "PONG"}
  /\ \A t \in Types : Code[t] \in 0..15
  /\ \A t, u \in Types : Code[t] = Code[u] => t = u
BY DEF Types, Code

LEMMA LengthIsNat == Lengths \subseteq Nat
<1>1. Word \in Int
  BY DEF Word
<1>2. 32767 * Word + (Word - 19) \in Int
  BY <1>1
<1>. QED BY <1>2 DEF Lengths

(* The header of a package of a client, and its bytes. *)
Masked(type, len) == Header(type, len, TRUE)
Bytes(type, len) == EnPackage(type, len, TRUE)

(* The three forms of a header. *)
LEMMA MaskedIs ==
  ASSUME NEW type \in Types, NEW len \in Lengths
  PROVE  /\ len < LongFrom => Masked(type, len) = <<128 + Code[type], 128 + len>>
         /\ len >= LongFrom /\ len < Word =>
              Masked(type, len) = <<128 + Code[type], 254, len \div Byte, len % Byte>>
         /\ len >= LongFrom /\ len >= Word =>
              Masked(type, len) =
                <<128 + Code[type], 255, 0, 0, 0, 0, (len \div Word) \div Byte,
                  (len \div Word) % Byte, (len % Word) \div Byte, len % Byte>>
<1>1. ASSUME len < LongFrom PROVE Masked(type, len) = <<128 + Code[type], 128 + len>>
  BY <1>1 DEF Masked, Header
<1>2. ASSUME len >= LongFrom /\ len < Word
      PROVE  Masked(type, len) = <<128 + Code[type], 254, len \div Byte, len % Byte>>
  <2>1. ~(len < LongFrom)
    BY <1>2, LengthIsNat DEF LongFrom
  <2>. QED BY <1>2, <2>1 DEF Masked, Header
<1>3. ASSUME len >= LongFrom /\ len >= Word
      PROVE  Masked(type, len) =
               <<128 + Code[type], 255, 0, 0, 0, 0, (len \div Word) \div Byte,
                 (len \div Word) % Byte, (len % Word) \div Byte, len % Byte>>
  <2>1. ~(len < LongFrom) /\ ~(len < Word)
    BY <1>3, LengthIsNat DEF LongFrom, Word
  <2>. QED BY <1>3, <2>1 DEF Masked, Header
<1>. QED BY <1>1, <1>2, <1>3

(* A length put together of the bytes it was taken apart into. *)
LEMMA ByteParts ==
  ASSUME NEW n \in Nat, NEW q \in Nat, q = n \div Byte, NEW r \in Nat, r = n % Byte
  PROVE  q * Byte + r = n
BY SMT DEF Byte

LEMMA WordParts ==
  ASSUME NEW n \in Nat, NEW q \in Nat, q = n \div Word, NEW r \in Nat, r = n % Word
  PROVE  q * Word + r = n /\ r % Byte = n % Byte
BY SMT DEF Word, Byte

LEMMA PartsAreNat ==
  ASSUME NEW n \in Nat
  PROVE  n \div Byte \in Nat /\ n % Byte \in Nat /\ n \div Word \in Nat /\ n % Word \in Nat
BY SMT DEF Word, Byte

LEMMA LengthOfBytes ==
  ASSUME NEW len \in Nat
  PROVE  /\ (len \div Byte) * Byte + (len % Byte) = len
         /\ (((len \div Word) \div Byte) * Byte + ((len \div Word) % Byte)) * Word
              + ((len % Word) \div Byte) * Byte + (len % Byte) = len
<1>1. (len \div Byte) * Byte + (len % Byte) = len
  BY ByteParts, PartsAreNat
<1>2. PICK q \in Nat, r \in Nat : q = len \div Word /\ r = len % Word
  BY PartsAreNat
<1>3. q * Word + r = len /\ r % Byte = len % Byte
  BY <1>2, WordParts
<1>4. (q \div Byte) * Byte + (q % Byte) = q /\ (r \div Byte) * Byte + (r % Byte) = r
  BY ByteParts, PartsAreNat
<1>5. PICK rb \in Nat, rw \in Nat : rb = r % Byte /\ rw = r \div Byte
  BY PartsAreNat
<1>6. Byte \in Nat /\ Word \in Nat
  BY SMT DEF Byte, Word
<1>7. rw * Byte \in Nat /\ q * Word \in Nat
  BY <1>6
<1>8. q * Word + rw * Byte + rb = len
  BY <1>3, <1>4, <1>5, <1>7
<1>9. ((q \div Byte) * Byte + (q % Byte)) * Word + (r \div Byte) * Byte + (len % Byte) = len
  BY <1>3, <1>4, <1>5, <1>8
<1>. QED BY <1>1, <1>2, <1>9

(* What the server reads from the header of a client's package. *)
LEMMA HeadRead ==
  ASSUME NEW type \in Types, NEW len \in Lengths,
         NEW h, h = Masked(type, len)
  PROVE  /\ LengthBytes(h) \in {2, 4, 10} /\ Len(h) = LengthBytes(h)
         /\ MaskBytes(h) = 4 /\ DataLength(h) = len
         /\ h[1] = 128 + Code[type]
         /\ LengthBytes(h) = 10 => h[3] = 0 /\ h[4] = 0 /\ h[5] = 0 /\ h[6] = 0
<1>0. len \in Nat
  BY LengthIsNat
<1>1. CASE len < LongFrom
  <2>1. h = <<128 + Code[type], 128 + len>>
    BY <1>1, MaskedIs
  <2>2. Len(h) = 2 /\ h[1] = 128 + Code[type] /\ h[2] = 128 + len
    BY <2>1
  <2>3. h[2] % 128 = len /\ h[2] >= 128 /\ len # 126 /\ len # 127
    BY <1>0, <1>1, <2>2 DEF LongFrom
  <2>. QED BY <2>2, <2>3 DEF LengthBytes, MaskBytes, DataLength
<1>2. CASE len >= LongFrom /\ len < Word
  <2>1. h = <<128 + Code[type], 254, len \div Byte, len % Byte>>
    BY <1>2, MaskedIs
  <2>2. /\ Len(h) = 4 /\ h[1] = 128 + Code[type] /\ h[2] = 254
        /\ h[3] = len \div Byte /\ h[4] = len % Byte
    BY <2>1
  <2>3. h[2] % 128 = 126 /\ h[2] >= 128
    BY <2>2
  <2>4. LengthBytes(h) = 4 /\ MaskBytes(h) = 4 /\ DataLength(h) = h[3] * Byte + h[4]
    BY <2>3 DEF LengthBytes, MaskBytes, DataLength
  <2>. QED BY <1>0, <2>2, <2>4, LengthOfBytes
<1>3. CASE len >= LongFrom /\ len >= Word
  <2>1. h = <<128 + Code[type], 255, 0, 0, 0, 0, (len \div Word) \div Byte,
              (len \div Word) % Byte, (len % Word) \div Byte, len % Byte>>
    BY <1>3, MaskedIs
  <2>2. /\ Len(h) = 10 /\ h[1] = 128 + Code[type] /\ h[2] = 255
        /\ h[3] = 0 /\ h[4] = 0 /\ h[5] = 0 /\ h[6] = 0
        /\ h[7] = (len \div Word) \div Byte /\ h[8] = (len \div Word) % Byte
        /\ h[9] = (len % Word) \div Byte /\ h[10] = len % Byte
    BY <2>1
  <2>3. h[2] % 128 = 127 /\ h[2] >= 128
    BY <2>2
  <2>4. /\ LengthBytes(h) = 10 /\ MaskBytes(h) = 4
        /\ DataLength(h) = (h[7] * Byte + h[8]) * Word + h[9] * Byte + h[10]
    BY <2>3 DEF LengthBytes, MaskBytes, DataLength
  <2>. QED BY <1>0, <2>2, <2>4, LengthOfBytes
<1>4. LongFrom \in Int /\ Word \in Int
  BY SMT DEF LongFrom, Word
<1>. QED BY <1>0, <1>1, <1>2, <1>3, <1>4

(* The type of a client's package is known from two bytes on. *)
LEMMA TypeRead ==
  ASSUME NEW type \in Types, NEW len \in Lengths, NEW n \in Nat,
         NEW h, h = Masked(type, len)
  PROVE  TypeIn(h, n) = IF n < 2 THEN "NULL" ELSE type
<1>1. h[1] = 128 + Code[type] /\ Code[type] \in 0..15
  <2>1. h[1] = 128 + Code[type]
    BY HeadRead, Zenon
  <2>. QED BY <2>1, CodeParts, Zenon
<1>2. h[1] >= 128 /\ h[1] % 16 = Code[type]
  <2>1. \A c \in 0..15 : (128 + c) % 16 = c
    OBVIOUS
  <2>. QED BY <1>1, <2>1
<1>3. \A t \in Types : h[1] % 16 = Code[t] <=> t = type
  BY <1>2, CodeParts
<1>4. {t \in Types : h[1] >= 128 /\ h[1] % 16 = Code[t]} = {type}
  BY <1>2, <1>3
<1>5. (CHOOSE t \in {type} : TRUE) = type
  OBVIOUS
<1>6. TypeIn(h, n) = IF n < 2 \/ {type} = {} THEN "NULL" ELSE CHOOSE t \in {type} : TRUE
  BY <1>4, Zenon DEF TypeIn
<1>. QED BY <1>5, <1>6

(* Once its header is there, what the server takes for the bytes of a      *)
(* package is what the client has sent.                                    *)
LEMMA BytesRead ==
  ASSUME NEW type \in Types, NEW len \in Lengths, NEW h, h = Masked(type, len)
  PROVE  /\ Bytes(type, len) = LengthBytes(h) + 4 + len
         /\ Bytes(type, len) \in Nat
         /\ \A n \in Nat : DePackage(h, n) = IF n < LengthBytes(h) THEN 0 ELSE Bytes(type, len)
<1>1. /\ len \in Nat /\ LengthBytes(h) \in {2, 4, 10} /\ Len(h) = LengthBytes(h)
      /\ MaskBytes(h) = 4 /\ DataLength(h) = len
      /\ LengthBytes(h) = 10 => h[3] = 0 /\ h[4] = 0 /\ h[5] = 0 /\ h[6] = 0
  BY HeadRead, LengthIsNat
<1>2. Bytes(type, len) = IF Len(h) + 4 + len <= len + 14 THEN Len(h) + 4 + len ELSE 0
  BY DEF Bytes, EnPackage, Masked
<1>3. Bytes(type, len) = LengthBytes(h) + 4 + len /\ Bytes(type, len) \in Nat
  BY <1>1, <1>2
<1>4. ASSUME NEW n \in Nat
      PROVE  DePackage(h, n) = IF n < LengthBytes(h) THEN 0 ELSE Bytes(type, len)
  <2>1. type # "NULL"
    BY CodeParts
  <2>2. n >= LengthBytes(h) => TypeIn(h, n) # "NULL"
    BY <1>1, <2>1, TypeRead
  <2>3. ~(LengthBytes(h) = 10 /\ \E k \in 3..6 : h[k] # 0)
    BY <1>1
  <2>. QED BY <1>1, <1>3, <2>2, <2>3 DEF DePackage
<1>. QED BY <1>3, <1>4

(* A request for the connection is no package. *)
LEMMA HelloRead ==
  ASSUME NEW n \in Nat, NEW h, h = <<71, 69, 84>>
  PROVE  TypeIn(h, n) = "NULL" /\ DePackage(h, n) = 0 /\ DataLength(h) \in Lengths
<1>1. {t \in Types : h[1] >= 128 /\ h[1] % 16 = Code[t]} = {}
  OBVIOUS
<1>2. TypeIn(h, n) = "NULL"
  BY <1>1, Zenon DEF TypeIn
<1>3. DePackage(h, n) = 0
  BY <1>2 DEF DePackage
<1>4. DataLength(h) = 69
  BY DEF DataLength
<1>5. Word \in Nat /\ Word >= 1
  BY DEF Word
<1>. QED BY <1>2, <1>3, <1>4, <1>5 DEF Lengths

(* What any header says, garbled or not: a number, which more bytes of the *)
(* same header do not change.                                              *)
LEMMA AnyRead ==
  ASSUME NEW h, DataLength(h) \in Lengths, NEW n \in Nat, NEW m \in Nat, n <= m
  PROVE  /\ DePackage(h, n) \in Nat
         /\ TypeIn(h, n) \in Types \cup {"NULL"}
         /\ DePackage(h, n) # 0 => DePackage(h, m) = DePackage(h, n)
                                   /\ TypeIn(h, m) = TypeIn(h, n) /\ TypeIn(h, n) \in Types
<1>1. LengthBytes(h) \in {2, 4, 10} /\ MaskBytes(h) \in {0, 4} /\ DataLength(h) \in Nat
  BY LengthIsNat, Zenon DEF LengthBytes, MaskBytes
<1> DEFINE types == {t \in Types : h[1] >= 128 /\ h[1] % 16 = Code[t]}
           large == LengthBytes(h) = 10 /\ \E k \in 3..6 : h[k] # 0
           total == LengthBytes(h) + MaskBytes(h) + DataLength(h)
<1>2. total \in Nat
  BY <1>1
<1>3. \A k \in Nat : TypeIn(h, k) = IF k < 2 \/ types = {} THEN "NULL"
                                    ELSE CHOOSE t \in types : TRUE
  BY Zenon DEF TypeIn
<1>4. types # {} => (CHOOSE t \in types : TRUE) \in Types
  OBVIOUS
<1>5. \A k \in Nat : DePackage(h, k) =
                       IF TypeIn(h, k) = "NULL" \/ k < LengthBytes(h) \/ large THEN 0 ELSE total
  BY Zenon DEF DePackage
<1>6. "NULL" \notin Types
  BY CodeParts
<1> HIDE DEF types, large, total
<1>7. DePackage(h, n) \in Nat
  BY <1>2, <1>5
<1>8. TypeIn(h, n) \in Types \cup {"NULL"}
  BY <1>3, <1>4
<1>9. ASSUME DePackage(h, n) # 0
      PROVE  DePackage(h, m) = DePackage(h, n)
             /\ TypeIn(h, m) = TypeIn(h, n) /\ TypeIn(h, n) \in Types
  <2>1. TypeIn(h, n) # "NULL" /\ ~(n < LengthBytes(h)) /\ ~large /\ DePackage(h, n) = total
    BY <1>5, <1>9
  <2>2. ~(n < 2) /\ types # {} /\ TypeIn(h, n) = (CHOOSE t \in types : TRUE)
    BY <1>3, <2>1
  <2>3. ~(m < 2) /\ ~(m < LengthBytes(h))
    BY <1>1, <2>1, <2>2
  <2>4. TypeIn(h, m) = TypeIn(h, n)
    BY <1>3, <2>2, <2>3
  <2>5. DePackage(h, m) = total
    BY <1>5, <2>1, <2>3, <2>4
  <2>. QED BY <1>4, <2>1, <2>2, <2>4, <2>5
<1>. QED BY <1>7, <1>8, <1>9

-----------------------------------------------------------------------------
(* The inductive invariant.                                                *)
(*                                                                         *)
(* The order of what was received does not keep itself: it takes that the  *)
(* stream is made of packages that follow on one another (Stream), that a  *)
(* receive which waits has room for what it waits for (Waiting), and that, *)
(* as long as `whole' holds, the stream is taken up to the beginning of    *)
(* the next package, or the one in hand is the next (WholeSoFar).          *)

(* What stands where a package begins, and its bytes. *)
HeadOf(p) == IF p.type \in Hellos THEN <<71, 69, 84>> ELSE Masked(p.type, p.len)
SizeOf(p) == IF p.type \in Hellos THEN HelloLen ELSE Bytes(p.type, p.len)

Stream ==
  /\ \A i \in DOMAIN sent :
       /\ sent[i].type \in (IF i = 1 THEN Hellos ELSE Types)
       /\ sent[i].len \in Lengths
       /\ sent[i].end = Start(i) + SizeOf(sent[i])
  /\ \A i, j \in DOMAIN sent : i < j => sent[i].end < sent[j].end
  /\ arrived <= StreamEnd
  /\ closed => arrived = StreamEnd
  /\ reply # "none" => sent # <<>>

BuffOK ==
  /\ buff = [from |-> buff.from, held |-> buff.held, head |-> buff.head]
  /\ buff.held <= Size

Waiting ==
  /\ at # "idle" => /\ sent # <<>>
                    /\ DataLength(buff.head) \in Lengths
                    /\ buff.from + buff.held <= taken
  /\ at \in {"rest", "more"} => buff.from + buff.held = taken
  /\ at = "more" => DePackage(buff.head, buff.held) \in (buff.held + 1)..Size

(* The package in hand is the next one: the handshake, of which the rest   *)
(* is waited for, or a package of which the missing bytes are.             *)
InHand(i) ==
  /\ i \in DOMAIN sent /\ buff.from = Start(i) /\ buff.head = HeadOf(sent[i])
  /\ \/ at = "rest" /\ i = 1
     \/ at = "more" /\ i > 1 /\ DePackage(buff.head, buff.held) = SizeOf(sent[i])

WholeSoFar ==
  whole =>
    /\ Len(got) <= Len(sent)
    /\ at = "idle" => taken = Start(Len(got) + 1)
    /\ at # "idle" => InHand(Len(got) + 1)
    /\ wsc.isLogin => got # <<>>
    /\ InOrder

IInv ==
  TypeOK /\ Stream /\ BuffOK /\ Waiting /\ WholeSoFar /\ HandshakeAnswered

LEMMA Sizes ==
  /\ Try \in Nat /\ Try >= 14 /\ Size \in Nat /\ Try <= Size
  /\ KeyName \in Int /\ KeyAt \in Int /\ KeyEnd \in Int /\ HelloLen \in Nat
  /\ 0 < KeyName /\ KeyName < KeyAt /\ KeyAt < KeyEnd /\ KeyEnd < HelloLen
  /\ HelloLen <= Size
BY WsReceiveAssumption

(* The type invariant speaks of sequences of these. *)
SentRecord == [type : Types \cup Hellos, len : Nat, end : Nat]
GotRecord == [from : Nat, to : Nat, kind : Kinds]

LEMMA InitHolds == Init => IInv
<1>. SUFFICES ASSUME Init PROVE IInv
  OBVIOUS
<1>1. TypeOK
  <2>1. <<>> \in Seq(SentRecord) /\ <<>> \in Seq(GotRecord)
    OBVIOUS
  <2>2. sent \in Seq([type : Types \cup Hellos, len : Nat, end : Nat])
        /\ got \in Seq([from : Nat, to : Nat, kind : Kinds])
    BY <2>1, Zenon DEF Init, SentRecord, GotRecord
  <2>3. arrived \in Nat /\ taken \in 0..arrived /\ buff.from \in 0..taken /\ buff.held \in Nat
    BY DEF Init
  <2>4. wsc \in [isLogin : BOOLEAN, exitType : {"NONE", "LOGIN", "DISCONNECT"}]
    BY DEF Init
  <2>. QED BY <2>2, <2>3, <2>4, Zenon DEF Init, TypeOK
<1>2. Len(sent) = 0 /\ DOMAIN sent = {} /\ Start(1) = 0 /\ Len(got) = 0 /\ DOMAIN got = {}
  BY DEF Init, Start
<1>3. Stream
  BY <1>2 DEF Init, Stream, StreamEnd
<1>4. BuffOK /\ Waiting
  BY Sizes DEF Init, BuffOK, Waiting
<1>5. WholeSoFar /\ HandshakeAnswered
  BY <1>2 DEF Init, WholeSoFar, HandshakeAnswered, InOrder
<1>. QED BY <1>1, <1>3, <1>4, <1>5 DEF IInv

(* What the types of the two sequences tell about their parts. *)
LEMMA SentParts ==
  ASSUME TypeOK
  PROVE  /\ sent \in Seq(SentRecord)
         /\ Len(sent) \in Nat /\ DOMAIN sent = 1..Len(sent)
         /\ \A i \in DOMAIN sent : sent[i] \in SentRecord /\ sent[i].end \in Nat
<1>1. sent \in Seq(SentRecord)
  BY Zenon DEF TypeOK, SentRecord
<1>2. \A i \in DOMAIN sent : sent[i] \in SentRecord
  BY <1>1
<1>3. \A r \in SentRecord : r.end \in Nat
  BY DEF SentRecord
<1>. QED BY <1>1, <1>2, <1>3

LEMMA Parts ==
  ASSUME TypeOK
  PROVE  /\ arrived \in Nat /\ taken \in 0..arrived /\ taken \in Nat
         /\ buff.from \in 0..taken /\ buff.from \in Nat /\ buff.held \in Nat
<1>1. arrived \in Nat /\ taken \in 0..arrived /\ buff.from \in 0..taken /\ buff.held \in Nat
  BY Zenon DEF TypeOK
<1>. QED BY <1>1

LEMMA GotParts ==
  ASSUME TypeOK
  PROVE  got \in Seq(GotRecord) /\ Len(got) \in Nat /\ DOMAIN got = 1..Len(got)
<1>1. got \in Seq(GotRecord)
  BY Zenon DEF TypeOK, GotRecord
<1>. QED BY <1>1

(* No package is without bytes. *)
LEMMA SizeIsNat ==
  ASSUME Stream, NEW i \in DOMAIN sent
  PROVE  SizeOf(sent[i]) \in Nat \ {0}
<1>1. CASE sent[i].type \in Hellos
  BY <1>1, Sizes DEF SizeOf
<1>2. CASE sent[i].type \notin Hellos
  <2>1. sent[i].type \in Types /\ sent[i].len \in Lengths
    BY <1>2 DEF Stream
  <2> DEFINE h == Masked(sent[i].type, sent[i].len)
  <2>2. LengthBytes(h) \in {2, 4, 10} /\ sent[i].len \in Nat
    BY <2>1, HeadRead, LengthIsNat
  <2>3. SizeOf(sent[i]) = LengthBytes(h) + 4 + sent[i].len
    BY <1>2, <2>1, BytesRead DEF SizeOf
  <2>. QED BY <2>2, <2>3
<1>. QED BY <1>1, <1>2

(* Where packages begin, which no two do at one place.                     *)
LEMMA Starts ==
  ASSUME TypeOK, Stream
  PROVE  /\ \A i \in 1..Len(sent) + 1 : Start(i) \in Nat /\ Start(i) <= StreamEnd
         /\ \A i \in DOMAIN sent : /\ sent[i].end \in Nat /\ sent[i].end = Start(i + 1)
                                   /\ Start(i) < sent[i].end /\ sent[i].end <= StreamEnd
         /\ \A i, j \in 1..Len(sent) + 1 : Start(i) = Start(j) => i = j
<1>1. Len(sent) \in Nat /\ DOMAIN sent = 1..Len(sent)
      /\ \A i \in DOMAIN sent : sent[i].end \in Nat
  BY SentParts
<1>2. \A i \in 1..Len(sent) + 1 : Start(i) \in Nat
  BY <1>1 DEF Start
<1>3. \A i \in DOMAIN sent : sent[i].end = Start(i + 1) /\ Start(i) < sent[i].end
  <2>. TAKE i \in DOMAIN sent
  <2>1. sent[i].end = Start(i + 1)
    BY <1>1 DEF Start
  <2>2. SizeOf(sent[i]) \in Nat \ {0} /\ sent[i].end = Start(i) + SizeOf(sent[i])
    BY SizeIsNat DEF Stream
  <2>. QED BY <1>1, <1>2, <2>1, <2>2
<1>4. ASSUME NEW i \in 1..Len(sent) + 1, NEW j \in 1..Len(sent) + 1, i < j
      PROVE  Start(i) < Start(j)
  <2>1. i \in DOMAIN sent /\ j - 1 \in DOMAIN sent /\ (j - 1) + 1 = j
    BY <1>1, <1>4
  <2>2. Start(i) < sent[i].end /\ Start(j) = sent[j - 1].end
    BY <1>3, <2>1
  <2>3. i = j - 1 \/ sent[i].end < sent[j - 1].end
    BY <1>4, <2>1 DEF Stream
  <2>. QED BY <1>1, <1>2, <2>1, <2>2, <2>3
<1>5. Len(sent) + 1 \in 1..Len(sent) + 1
  BY <1>1
<1>6. \A i \in 1..Len(sent) + 1 : Start(i) <= StreamEnd
  BY <1>1, <1>2, <1>4, <1>5 DEF StreamEnd
<1>7. \A i \in DOMAIN sent : sent[i].end <= StreamEnd
  BY <1>1, <1>3, <1>6
<1>8. \A i, j \in 1..Len(sent) + 1 : Start(i) = Start(j) => i = j
  BY <1>1, <1>2, <1>4
<1>. QED BY <1>1, <1>2, <1>3, <1>6, <1>7, <1>8

(* Where a package begins, the server reads its header. *)
LEMMA HeadThere ==
  ASSUME TypeOK, Stream, NEW i \in DOMAIN sent
  PROVE  Heads(Start(i)) = {HeadOf(sent[i])}
<1>1. i \in 1..Len(sent) + 1 /\ DOMAIN sent \subseteq 1..Len(sent) + 1
  BY SentParts
<1>2. \A j \in DOMAIN sent : Start(j) = Start(i) <=> j = i
  BY <1>1, Starts
<1>3. (CHOOSE j \in DOMAIN sent : Start(j) = Start(i)) = i
  BY <1>2
<1>4. Heads(Start(i)) =
        {IF sent[i].type \in Hellos THEN <<71, 69, 84>>
         ELSE Header(sent[i].type, sent[i].len, TRUE)}
  BY <1>2, <1>3, Zenon DEF Heads
<1>. QED BY <1>4, Zenon DEF HeadOf, Masked

(* What a package's header says. *)
LEMMA HeadSays ==
  ASSUME Stream, NEW i \in DOMAIN sent, NEW n \in Nat, NEW h, h = HeadOf(sent[i])
  PROVE  /\ DataLength(h) \in Lengths
         /\ sent[i].type \in Hellos => DePackage(h, n) = 0
         /\ sent[i].type \notin Hellos =>
              /\ sent[i].type \in Types
              /\ DePackage(h, n) \in {0, SizeOf(sent[i])}
              /\ DePackage(h, n) # 0 => TypeIn(h, n) = sent[i].type
              /\ n >= Len(Header(sent[i].type, sent[i].len, TRUE)) =>
                   DePackage(h, n) = SizeOf(sent[i])
<1>1. CASE sent[i].type \in Hellos
  BY <1>1, HelloRead DEF HeadOf
<1>2. CASE sent[i].type \notin Hellos
  <2>1. sent[i].type \in Types /\ sent[i].len \in Lengths /\ h = Masked(sent[i].type, sent[i].len)
    BY <1>2 DEF Stream, HeadOf
  <2>2. /\ DataLength(h) = sent[i].len /\ LengthBytes(h) \in {2, 4, 10}
        /\ Len(h) = LengthBytes(h)
    BY <2>1, HeadRead
  <2>3. /\ DePackage(h, n) = IF n < LengthBytes(h) THEN 0 ELSE SizeOf(sent[i])
        /\ TypeIn(h, n) = IF n < 2 THEN "NULL" ELSE sent[i].type
    BY <1>2, <2>1, BytesRead, TypeRead DEF SizeOf
  <2>4. DePackage(h, n) # 0 => n >= LengthBytes(h) /\ TypeIn(h, n) = sent[i].type
    BY <2>2, <2>3
  <2>5. Len(Header(sent[i].type, sent[i].len, TRUE)) = LengthBytes(h)
    BY <2>1, <2>2, Zenon DEF Masked
  <2>6. n >= LengthBytes(h) => DePackage(h, n) = SizeOf(sent[i])
    BY <2>2, <2>3
  <2>7. n >= Len(Header(sent[i].type, sent[i].len, TRUE)) => DePackage(h, n) = SizeOf(sent[i])
    BY <2>5, <2>6, Zenon
  <2>8. DePackage(h, n) \in {0, SizeOf(sent[i])}
    BY <2>3
  <2>. QED BY <1>2, <2>1, <2>2, <2>4, <2>7, <2>8, Zenon
<1>. QED BY <1>1, <1>2, Zenon

(* Every header, of a package or garbled, tells a length that counts. *)
LEMMA HeadsTell ==
  ASSUME TypeOK, Stream, NEW from, NEW h \in Heads(from)
  PROVE  DataLength(h) \in Lengths
<1>1. CASE \E i \in DOMAIN sent : Start(i) = from
  <2>1. PICK i \in DOMAIN sent : Start(i) = from
    BY <1>1
  <2>2. h = HeadOf(sent[i])
    BY <2>1, HeadThere
  <2>. QED BY <2>2, HeadSays, 0 \in Nat
<1>2. CASE ~\E i \in DOMAIN sent : Start(i) = from
  <2>1. h \in Garbled
    BY <1>2, Zenon DEF Heads
  <2>. QED BY <2>1, WsReceiveAssumption
<1>. QED BY <1>1, <1>2

-----------------------------------------------------------------------------
(* The client and the network *)

(* A package more leaves those before it where they are. *)
LEMMA Grown ==
  ASSUME TypeOK, Stream, NEW p \in SentRecord, sent' = Append(sent, p)
  PROVE  /\ sent' \in Seq(SentRecord) /\ Len(sent') = Len(sent) + 1
         /\ DOMAIN sent' = 1..Len(sent) + 1
         /\ \A i \in DOMAIN sent : i \in DOMAIN sent' /\ sent'[i] = sent[i]
         /\ sent'[Len(sent) + 1] = p /\ StreamEnd' = p.end
         /\ \A i \in 1..Len(sent) + 1 : Start(i)' = Start(i)
<1>1. Len(sent) \in Nat /\ DOMAIN sent = 1..Len(sent) /\ sent \in Seq(SentRecord)
  BY SentParts
<1>2. /\ sent' \in Seq(SentRecord) /\ Len(sent') = Len(sent) + 1
      /\ DOMAIN sent' = 1..Len(sent) + 1
      /\ \A i \in DOMAIN sent : i \in DOMAIN sent' /\ sent'[i] = sent[i]
      /\ sent'[Len(sent) + 1] = p
  BY <1>1
<1>3. StreamEnd' = p.end
  BY <1>1, <1>2 DEF StreamEnd, Start
<1>4. \A i \in 1..Len(sent) + 1 : Start(i)' = Start(i)
  BY <1>1, <1>2 DEF Start
<1>. QED BY <1>2, <1>3, <1>4

(* What a package more at the end of the stream does to the invariant.     *)
LEMMA GrowKeeps ==
  ASSUME IInv, NEW p \in SentRecord, sent' = Append(sent, p), arrived = StreamEnd, ~closed,
         p.type \in (IF sent = <<>> THEN Hellos ELSE Types), p.len \in Lengths,
         p.end = StreamEnd + SizeOf(p), SizeOf(p) \in Nat \ {0},
         UNCHANGED <<arrived, closed, reply, taken, at, buff, wsc, got, whole>>
  PROVE  IInv'
<1>0. TypeOK /\ Stream /\ BuffOK /\ Waiting /\ WholeSoFar /\ HandshakeAnswered
  BY DEF IInv
<1>1. /\ sent' \in Seq(SentRecord) /\ Len(sent') = Len(sent) + 1
      /\ DOMAIN sent' = 1..Len(sent) + 1
      /\ \A i \in DOMAIN sent : i \in DOMAIN sent' /\ sent'[i] = sent[i]
      /\ sent'[Len(sent) + 1] = p /\ StreamEnd' = p.end
      /\ \A i \in 1..Len(sent) + 1 : Start(i)' = Start(i)
  BY <1>0, Grown
<1>2. Len(sent) \in Nat /\ DOMAIN sent = 1..Len(sent) /\ StreamEnd = Start(Len(sent) + 1)
      /\ Len(got) \in Nat /\ DOMAIN got = 1..Len(got)
  BY <1>0, SentParts, GotParts DEF StreamEnd
<1>3. TypeOK'
  BY <1>0, <1>1, Zenon DEF TypeOK, SentRecord
<1>4. Stream'
  <2>1. \A i \in DOMAIN sent' :
          /\ sent'[i].type \in (IF i = 1 THEN Hellos ELSE Types)
          /\ sent'[i].len \in Lengths
          /\ sent'[i].end = Start(i)' + SizeOf(sent'[i])
    <3>. TAKE i \in DOMAIN sent'
    <3>1. CASE i \in DOMAIN sent
      BY <1>0, <1>1, <1>2, <3>1 DEF Stream
    <3>2. CASE i \notin DOMAIN sent
      <4>1. i = Len(sent) + 1 /\ sent'[i] = p
        BY <1>1, <1>2, <3>2
      <4>2. i = 1 <=> sent = <<>>
        BY <1>0, <1>2, <4>1, SentParts
      <4>. QED BY <1>1, <1>2, <4>1, <4>2
    <3>. QED BY <3>1, <3>2
  <2>2. \A i, j \in DOMAIN sent' : i < j => sent'[i].end < sent'[j].end
    <3>1. \A i \in DOMAIN sent : sent[i].end \in Nat /\ sent[i].end <= StreamEnd
      BY <1>0, Starts
    <3>2. StreamEnd < p.end /\ StreamEnd \in Nat
      BY <1>0, <1>2, Starts
    <3>. QED BY <1>0, <1>1, <1>2, <3>1, <3>2 DEF Stream
  <2>3. StreamEnd \in Nat /\ StreamEnd' >= StreamEnd /\ sent' # <<>>
    BY <1>0, <1>1, <1>2, Starts
  <2>. QED BY <1>0, <2>1, <2>2, <2>3 DEF Stream
<1>5. BuffOK'
  BY <1>0 DEF BuffOK
<1>6. Waiting'
  <2>1. sent' # <<>>
    BY <1>1, <1>2
  <2>. QED BY <1>0, <2>1 DEF Waiting
<1>7. WholeSoFar'
  <2>. SUFFICES ASSUME whole PROVE WholeSoFar'
    BY DEF WholeSoFar
  <2>1. /\ Len(got) <= Len(sent)
        /\ at = "idle" => taken = Start(Len(got) + 1)
        /\ at # "idle" => InHand(Len(got) + 1)
        /\ wsc.isLogin => got # <<>>
        /\ InOrder
    BY <1>0 DEF WholeSoFar
  <2>2. Len(got) + 1 \in 1..Len(sent) + 1 /\ DOMAIN got \subseteq DOMAIN sent
    BY <1>2, <2>1
  <2>3. at # "idle" => InHand(Len(got) + 1)'
    BY <1>1, <2>1, <2>2 DEF InHand
  <2>4. InOrder'
    BY <1>1, <1>2, <2>1, <2>2 DEF InOrder
  <2>. QED BY <1>1, <1>2, <2>1, <2>2, <2>3, <2>4 DEF WholeSoFar
<1>8. HandshakeAnswered'
  <2>1. CASE sent # <<>>
    <3>1. sent'[1] = sent[1]
      BY <1>0, <1>1, <1>2, <2>1, SentParts
    <3>. QED BY <1>0, <3>1 DEF HandshakeAnswered
  <2>2. CASE sent = <<>>
    <3>1. taken = 0
      <4>1. StreamEnd = 0
        BY <1>2, <2>2, SentParts DEF Start
      <4>. QED BY <1>0, <4>1, Parts DEF Stream
    <3>2. ~wsc.isLogin
      BY <1>0, <3>1, Sizes DEF HandshakeAnswered
    <3>3. whole => got = <<>>
      BY <1>0, <1>2, <2>2, GotParts DEF WholeSoFar
    <3>. QED BY <3>2, <3>3 DEF HandshakeAnswered
  <2>. QED BY <2>1, <2>2
<1>. QED BY <1>3, <1>4, <1>5, <1>6, <1>7, <1>8 DEF IInv

LEMMA HelloKeeps == IInv /\ Hello => IInv'
<1>. SUFFICES ASSUME IInv, Hello PROVE IInv'
  OBVIOUS
<1>1. PICK h \in Hellos : sent' = <<[type |-> h, len |-> 0, end |-> HelloLen]>>
  BY DEF Hello
<1> DEFINE p == [type |-> h, len |-> 0, end |-> HelloLen]
<1>2. sent = <<>> /\ sent' = Append(sent, p)
  BY <1>1 DEF Hello
<1>3. StreamEnd = 0 /\ arrived = 0
  <2>1. StreamEnd = 0
    BY <1>2 DEF StreamEnd, Start
  <2>2. TypeOK /\ Stream
    BY DEF IInv
  <2>. QED BY <2>1, <2>2, Parts DEF Stream
<1>4. 0 \in Lengths
  <2>1. Word \in Nat /\ Word >= 1
    BY DEF Word
  <2>. QED BY <2>1 DEF Lengths
<1>5. p \in SentRecord /\ p.type = h /\ p.len = 0 /\ p.end = HelloLen
  BY Sizes DEF SentRecord
<1>6. SizeOf(p) = HelloLen /\ HelloLen \in Nat \ {0}
  BY <1>5, Sizes DEF SizeOf
<1>7. ~closed /\ UNCHANGED <<arrived, closed, reply, taken, at, buff, wsc, got, whole>>
  BY DEF Hello
<1> HIDE DEF p
<1>. QED BY <1>2, <1>3, <1>4, <1>5, <1>6, <1>7, GrowKeeps

LEMMA SendKeeps == IInv /\ Send => IInv'
<1>. SUFFICES ASSUME IInv, Send PROVE IInv'
  OBVIOUS
<1>1. PICK q \in Packages :
        sent' = Append(sent, [type |-> q.type, len |-> q.len,
                              end |-> StreamEnd + Bytes(q.type, q.len)])
  BY Zenon DEF Send, Bytes
<1>2. q.type \in Types /\ q.len \in Lengths
  BY WsReceiveAssumption
<1>3. Bytes(q.type, q.len) \in Nat \ {0}
  <2>1. PICK h : h = Masked(q.type, q.len)
    OBVIOUS
  <2>2. LengthBytes(h) \in {2, 4, 10} /\ q.len \in Nat
    BY <1>2, <2>1, HeadRead, LengthIsNat
  <2>. QED BY <1>2, <2>1, <2>2, BytesRead
<1>4. reply = "accept" /\ ~closed /\ arrived = StreamEnd
      /\ UNCHANGED <<arrived, closed, reply, taken, at, buff, wsc, got, whole>>
  BY Zenon DEF Send
<1>5. sent # <<>> /\ StreamEnd \in Nat
  <2>1. TypeOK /\ Stream
    BY DEF IInv
  <2>. QED BY <1>4, <2>1, Parts DEF Stream
<1> DEFINE p == [type |-> q.type, len |-> q.len, end |-> StreamEnd + Bytes(q.type, q.len)]
<1>6. q.type \notin Hellos
  BY <1>2, CodeParts DEF Hellos
<1>7. /\ p \in SentRecord /\ p.type = q.type /\ p.len = q.len
      /\ p.end = StreamEnd + SizeOf(p) /\ SizeOf(p) = Bytes(q.type, q.len)
  <2>1. q.len \in Nat
    BY <1>2, LengthIsNat
  <2>2. StreamEnd + Bytes(q.type, q.len) \in Nat
    BY <1>3, <1>5
  <2>3. p \in SentRecord
    BY <1>2, <2>1, <2>2 DEF SentRecord
  <2>4. SizeOf(p) = Bytes(q.type, q.len)
    BY <1>6 DEF SizeOf
  <2>. QED BY <2>3, <2>4
<1>8. sent' = Append(sent, p)
  BY <1>1
<1> HIDE DEF p
<1>. QED BY <1>2, <1>3, <1>4, <1>5, <1>7, <1>8, GrowKeeps

(* Everything but Hello and Send leaves the stream as it is. *)
LEMMA StreamSame ==
  ASSUME UNCHANGED sent
  PROVE  StreamEnd' = StreamEnd /\ \A i : Start(i)' = Start(i)
BY DEF StreamEnd, Start

LEMMA StreamKeeps ==
  ASSUME Stream, UNCHANGED sent, arrived' <= StreamEnd, closed' => arrived' = StreamEnd,
         reply' # "none" => sent # <<>>
  PROVE  Stream'
<1>1. StreamEnd' = StreamEnd /\ \A i : Start(i)' = Start(i)
  BY StreamSame
<1>. QED BY <1>1 DEF Stream

LEMMA ArriveKeeps == IInv /\ Arrive => IInv'
<1>. SUFFICES ASSUME IInv, Arrive PROVE IInv'
  OBVIOUS
<1>0. TypeOK /\ Stream /\ BuffOK /\ Waiting /\ WholeSoFar /\ HandshakeAnswered
  BY DEF IInv
<1>1. PICK i \in DOMAIN sent :
        arrived' \in (arrived + 1)..sent[i].end
        /\ UNCHANGED <<sent, closed, reply, taken, at, buff, wsc, got, whole>>
  BY Zenon DEF Arrive
<1>2. /\ arrived \in Nat /\ taken \in 0..arrived /\ sent[i].end \in Nat
      /\ sent[i].end <= StreamEnd /\ StreamEnd \in Nat
  <2>1. Len(sent) + 1 \in 1..Len(sent) + 1
    BY <1>0, SentParts
  <2>. QED BY <1>0, <2>1, Parts, SentParts, Starts DEF StreamEnd
<1>3. arrived' \in Nat /\ arrived' > arrived /\ arrived' <= StreamEnd /\ taken' \in 0..arrived'
  BY <1>1, <1>2
<1>4. ~closed
  BY <1>0, <1>2, <1>3 DEF Stream
<1>5. TypeOK'
  BY <1>0, <1>1, <1>3, Zenon DEF TypeOK
<1>6. Stream'
  BY <1>0, <1>1, <1>3, <1>4, StreamKeeps DEF Stream
<1>7. BuffOK' /\ Waiting'
  BY <1>0, <1>1 DEF BuffOK, Waiting
<1>8. WholeSoFar'
  <2>1. \A k : Start(k)' = Start(k)
    BY <1>1, StreamSame
  <2>. QED BY <1>0, <1>1, <2>1 DEF WholeSoFar, InHand, InOrder
<1>9. HandshakeAnswered'
  BY <1>0, <1>1 DEF HandshakeAnswered
<1>. QED BY <1>5, <1>6, <1>7, <1>8, <1>9 DEF IInv

LEMMA CloseKeeps == IInv /\ Close => IInv'
<1>. SUFFICES ASSUME IInv, Close PROVE IInv'
  OBVIOUS
<1>0. TypeOK /\ Stream /\ BuffOK /\ Waiting /\ WholeSoFar /\ HandshakeAnswered
  BY DEF IInv
<1>1. /\ closed' = TRUE /\ arrived = StreamEnd
      /\ UNCHANGED <<sent, arrived, reply, taken, at, buff, wsc, got, whole>>
  BY DEF Close
<1>2. TypeOK'
  BY <1>0, <1>1, Zenon DEF TypeOK
<1>3. Stream'
  BY <1>0, <1>1, StreamKeeps DEF Stream
<1>4. BuffOK' /\ Waiting'
  BY <1>0, <1>1 DEF BuffOK, Waiting
<1>5. WholeSoFar'
  <2>1. \A k : Start(k)' = Start(k)
    BY <1>1, StreamSame
  <2>. QED BY <1>0, <1>1, <2>1 DEF WholeSoFar, InHand, InOrder
<1>6. HandshakeAnswered'
  BY <1>0, <1>1 DEF HandshakeAnswered
<1>. QED BY <1>2, <1>3, <1>4, <1>5, <1>6 DEF IInv

-----------------------------------------------------------------------------
(* What was received *)

Note(from, n, kind) == [from |-> from, to |-> from + n, kind |-> kind]

(* A whole package is noted as what it is; it answers no handshake. *)
LEMMA PackageReceived ==
  ASSUME TypeOK, NEW type \in Types, NEW n \in Nat, buff'.from \in Nat, whole' \in BOOLEAN,
         Received(TRUE, type, n)
  PROVE  /\ at' = "idle" /\ reply' = reply /\ wsc'.isLogin = wsc.isLogin
         /\ wsc' \in [isLogin : BOOLEAN, exitType : {"NONE", "LOGIN", "DISCONNECT"}]
         /\ got' = IF whole' THEN Append(got, Note(buff'.from, n, Expected(type))) ELSE got
         /\ got' \in Seq(GotRecord)
<1>1. type \notin Hellos
  BY CodeParts DEF Hellos
<1>2. /\ at' = "idle" /\ reply' = reply
      /\ wsc' = IF type = "DISCONN" THEN [wsc EXCEPT !.exitType = "DISCONNECT"] ELSE wsc
      /\ got' = IF whole' THEN Append(got, Note(buff'.from, n, Expected(type))) ELSE got
  BY <1>1, Zenon DEF Received, Note, Expected
<1>3. wsc \in [isLogin : BOOLEAN, exitType : {"NONE", "LOGIN", "DISCONNECT"}]
  BY Zenon DEF TypeOK
<1>4. /\ wsc' \in [isLogin : BOOLEAN, exitType : {"NONE", "LOGIN", "DISCONNECT"}]
      /\ wsc'.isLogin = wsc.isLogin
  BY <1>2, <1>3
<1>5. Expected(type) \in Kinds
  BY CodeParts DEF Expected, Kinds, Hellos
<1>6. Note(buff'.from, n, Expected(type)) \in GotRecord
  BY <1>5 DEF Note, GotRecord
<1>7. got' \in Seq(GotRecord)
  BY <1>2, <1>6, GotParts
<1>. QED BY <1>2, <1>4, <1>7

(* What is not one is a handshake, answered as far as a key is found in it, *)
(* or of no use.                                                            *)
LEMMA OtherReceived ==
  ASSUME TypeOK, NEW type \in Types \cup {"NULL"}, NEW n \in Nat, buff'.from \in Nat,
         whole' \in BOOLEAN, Received(FALSE, type, n),
         NEW asked, asked = (~wsc.isLogin /\ Asked(buff'.from, buff'.from + n))
  PROVE  /\ at' = "idle"
         /\ asked /\ Answers(buff'.from + n) =>
              wsc'.isLogin /\ reply' = RespondKey(buff'.from + n)
         /\ ~(asked /\ Answers(buff'.from + n)) => wsc'.isLogin = wsc.isLogin /\ reply' = reply
         /\ wsc' \in [isLogin : BOOLEAN, exitType : {"NONE", "LOGIN", "DISCONNECT"}]
         /\ reply' \in {"none", "accept", "wrong key"}
         /\ got' = IF whole' THEN Append(got, Note(buff'.from, n, IF asked THEN "HELLO" ELSE "BAD"))
                   ELSE got
         /\ got' \in Seq(GotRecord)
<1>1. /\ at' = "idle"
      /\ reply' = IF asked /\ Answers(buff'.from + n)
                  THEN RespondKey(buff'.from + n) ELSE reply
      /\ wsc' = IF asked
                THEN IF Answers(buff'.from + n) THEN [wsc EXCEPT !.isLogin = TRUE]
                                                ELSE [wsc EXCEPT !.exitType = "LOGIN"]
                ELSE IF type = "DISCONN" THEN [wsc EXCEPT !.exitType = "DISCONNECT"]
                ELSE wsc
      /\ got' = IF whole' THEN Append(got, Note(buff'.from, n, IF asked THEN "HELLO" ELSE "BAD"))
                ELSE got
  BY Zenon DEF Received, Note
<1>2. /\ wsc \in [isLogin : BOOLEAN, exitType : {"NONE", "LOGIN", "DISCONNECT"}]
      /\ reply \in {"none", "accept", "wrong key"}
  BY Zenon DEF TypeOK
<1>3. /\ wsc' \in [isLogin : BOOLEAN, exitType : {"NONE", "LOGIN", "DISCONNECT"}]
      /\ asked /\ Answers(buff'.from + n) => wsc'.isLogin
      /\ ~(asked /\ Answers(buff'.from + n)) => wsc'.isLogin = wsc.isLogin
  BY <1>1, <1>2
<1>4. reply' \in {"none", "accept", "wrong key"}
  BY <1>1, <1>2 DEF RespondKey
<1>5. Note(buff'.from, n, IF asked THEN "HELLO" ELSE "BAD") \in GotRecord
  BY DEF Note, GotRecord, Kinds
<1>6. got' \in Seq(GotRecord)
  BY <1>1, <1>5, GotParts
<1>. QED BY <1>1, <1>3, <1>4, <1>6

-----------------------------------------------------------------------------
(* The server *)

LEMMA RecvBounds ==
  ASSUME TypeOK, NEW k \in Nat \ {0}, Recv(k)
  PROVE  taken' \in Nat /\ taken' <= arrived /\ taken' - taken \in 1..k
BY Parts DEF Recv

(* What a step of the server keeps whatever it receives. *)
LEMMA TakenKeeps ==
  ASSUME TypeOK, taken' \in Nat, taken' <= arrived
  PROVE  arrived \in Nat /\ taken' \in 0..arrived
BY Parts

LEMMA StreamServed ==
  ASSUME Stream, UNCHANGED <<sent, arrived, closed>>, reply' # reply => sent # <<>>
  PROVE  Stream'
<1>1. /\ arrived' <= StreamEnd
      /\ closed' => arrived' = StreamEnd
      /\ reply' # "none" => sent # <<>>
  BY DEF Stream
<1>. QED BY <1>1, StreamKeeps

LEMMA ServerKeeps ==
  ASSUME IInv, UNCHANGED <<sent, arrived, closed>>, taken' \in Nat, taken' <= arrived,
         buff'.from \in 0..taken', buff'.held \in Nat,
         at' \in {"idle", "rest", "drop", "more"}, whole' \in BOOLEAN,
         wsc' \in [isLogin : BOOLEAN, exitType : {"NONE", "LOGIN", "DISCONNECT"}],
         got' \in Seq(GotRecord), reply' \in {"none", "accept", "wrong key"},
         reply' # reply => sent # <<>>
  PROVE  TypeOK' /\ Stream' /\ \A k : Start(k)' = Start(k)
<1>0. TypeOK /\ Stream
  BY DEF IInv
<1>1. arrived \in Nat /\ taken' \in 0..arrived
  BY <1>0, TakenKeeps, Zenon
<1>2. got' \in Seq([from : Nat, to : Nat, kind : Kinds])
  BY Zenon DEF GotRecord
<1>3. sent' = sent /\ arrived' = arrived /\ closed' = closed
  BY Zenon
<1>4. TypeOK'
  BY <1>0, <1>1, <1>2, <1>3, Zenon DEF TypeOK
<1>5. Stream' /\ \A k : Start(k)' = Start(k)
  BY <1>0, <1>3, StreamServed, StreamSame, Zenon
<1>. QED BY <1>4, <1>5

(* What the first bytes of the next package tell of it. *)
LEMMA NextBegun ==
  ASSUME TypeOK, Stream, WholeSoFar, at = "idle", whole, NEW n \in Nat, Begun(taken, n),
         NEW head \in Heads(taken), NEW i, i = Len(got) + 1
  PROVE  /\ i \in DOMAIN sent /\ taken = Start(i) /\ head = HeadOf(sent[i])
         /\ sent[i].end = taken + SizeOf(sent[i])
         /\ i = 1 => sent[i].type \in Hellos /\ DePackage(head, n) = 0
         /\ i # 1 => /\ sent[i].type \in Types
                     /\ SizeOf(sent[i]) \in n..Size /\ SizeOf(sent[i]) # 0
                     /\ DePackage(head, n) = SizeOf(sent[i])
                     /\ TypeIn(head, n) = sent[i].type
<1>1. taken = Start(i) /\ i \in 1..Len(sent) + 1
  BY SentParts, GotParts DEF WholeSoFar
<1>2. PICK j \in DOMAIN sent :
        /\ Start(j) = taken
        /\ \/ sent[j].type \in Hellos
           \/ /\ n >= Len(Header(sent[j].type, sent[j].len, TRUE))
              /\ taken + n <= sent[j].end
              /\ sent[j].end - taken <= Size
  BY Zenon DEF Begun
<1>3. i = j
  BY <1>1, <1>2, SentParts, Starts
<1>4. i \in DOMAIN sent /\ head = HeadOf(sent[i])
  BY <1>1, <1>2, <1>3, HeadThere
<1>5. /\ sent[i].end = taken + SizeOf(sent[i]) /\ SizeOf(sent[i]) \in Nat \ {0}
      /\ sent[i].type \in (IF i = 1 THEN Hellos ELSE Types)
  BY <1>1, <1>4, SizeIsNat DEF Stream
<1>6. i = 1 => sent[i].type \in Hellos /\ DePackage(head, n) = 0
  BY <1>4, <1>5, HeadSays
<1>7. ASSUME i # 1
      PROVE  /\ sent[i].type \in Types
             /\ SizeOf(sent[i]) \in n..Size /\ SizeOf(sent[i]) # 0
             /\ DePackage(head, n) = SizeOf(sent[i])
             /\ TypeIn(head, n) = sent[i].type
  <2>1. sent[i].type \in Types /\ sent[i].type \notin Hellos
    BY <1>5, <1>7, CodeParts DEF Hellos
  <2>2. DePackage(head, n) = SizeOf(sent[i])
    BY <1>2, <1>3, <1>4, <2>1, HeadSays, Zenon
  <2>3. TypeIn(head, n) = sent[i].type
    BY <1>4, <1>5, <2>1, <2>2, HeadSays
  <2>4. taken + n <= sent[i].end /\ sent[i].end - taken <= Size
    BY <1>2, <1>3, <2>1, Zenon
  <2>5. SizeOf(sent[i]) \in n..Size
    BY <1>5, <2>4, Parts, Sizes
  <2>. QED BY <1>5, <2>1, <2>2, <2>3, <2>5
<1>. QED BY <1>1, <1>4, <1>5, <1>6, <1>7, Zenon

(* The next package noted. *)
LEMMA NextNoted ==
  ASSUME TypeOK, Stream, WholeSoFar, UNCHANGED sent, NEW i \in DOMAIN sent, i = Len(got) + 1,
         whole, NEW n \in Nat, n = SizeOf(sent[i]),
         got' = Append(got, Note(Start(i), n, Expected(sent[i].type)))
  PROVE  /\ InOrder' /\ Len(got') = i /\ got' # <<>>
         /\ Start(Len(got) + 1)' = Start(i) + n
<1>1. Len(got) \in Nat /\ DOMAIN got = 1..Len(got) /\ got \in Seq(GotRecord)
  BY GotParts
<1>2. /\ Len(got') = i /\ DOMAIN got' = 1..i /\ got' # <<>>
      /\ got'[i] = Note(Start(i), n, Expected(sent[i].type))
      /\ \A k \in 1..Len(got) : got'[k] = got[k]
  BY <1>1
<1>3. sent[i].end = Start(i) + n
  BY DEF Stream
<1>4. \A k : Start(k)' = Start(k)
  BY StreamSame
<1>5. Start(i + 1) = sent[i].end
  BY Starts
<1>6. InOrder'
  <2>. SUFFICES ASSUME NEW k \in DOMAIN got'
                PROVE  got'[k] = [from |-> Start(k), to |-> sent[k].end,
                                  kind |-> Expected(sent[k].type)]
    BY <1>4 DEF InOrder
  <2>1. CASE k = i
    BY <1>2, <1>3, <2>1 DEF Note
  <2>2. CASE k # i
    <3>1. k \in DOMAIN got
      BY <1>1, <1>2, <2>2
    <3>. QED BY <1>1, <1>2, <3>1 DEF WholeSoFar, InOrder
  <2>. QED BY <2>1, <2>2
<1>7. Start(Len(got) + 1)' = Start(i) + n
  BY <1>2, <1>3, <1>4, <1>5
<1>. QED BY <1>2, <1>6, <1>7

(* The first bytes are a package. *)
LEMMA HeadReceives ==
  ASSUME IInv, at = "idle", UNCHANGED <<sent, arrived, closed>>, NEW head \in Heads(taken),
         NEW n \in Nat, taken' = taken + n, taken' <= arrived, n <= Size,
         buff' = [from |-> taken, held |-> n, head |-> head],
         whole' = (whole /\ Begun(taken, n)),
         DePackage(head, n) \in 1..n, Received(TRUE, TypeIn(head, n), n)
  PROVE  IInv'
<1>0. TypeOK /\ Stream /\ WholeSoFar /\ HandshakeAnswered
  BY Zenon DEF IInv
<1>1. DataLength(head) \in Lengths
  BY <1>0, HeadsTell, Zenon
<1>2. DePackage(head, n) # 0
  OBVIOUS
<1>3. TypeIn(head, n) \in Types
  <2>1. n <= n
    OBVIOUS
  <2>. QED BY <1>1, <1>2, <2>1, AnyRead, Zenon
<1>4. buff'.from = taken /\ buff'.held = n /\ buff'.head = head
  BY Zenon
<1>5. taken \in Nat /\ taken' \in Nat /\ taken \in 0..taken'
  BY <1>0, Parts
<1>6. whole' \in BOOLEAN
  <2>1. whole \in BOOLEAN /\ Begun(taken, n) \in BOOLEAN
    BY <1>0, Zenon DEF TypeOK, Begun
  <2>. QED BY <2>1, Zenon
<1>7. /\ at' = "idle" /\ reply' = reply /\ wsc'.isLogin = wsc.isLogin
      /\ wsc' \in [isLogin : BOOLEAN, exitType : {"NONE", "LOGIN", "DISCONNECT"}]
      /\ got' = IF whole' THEN Append(got, Note(taken, n, Expected(TypeIn(head, n)))) ELSE got
      /\ got' \in Seq(GotRecord)
  BY <1>0, <1>3, <1>4, <1>5, <1>6, PackageReceived, Zenon
<1>8. reply' \in {"none", "accept", "wrong key"}
  BY <1>0, <1>7, Zenon DEF TypeOK
<1>9. TypeOK' /\ Stream' /\ \A k : Start(k)' = Start(k)
  BY <1>4, <1>5, <1>6, <1>7, <1>8, ServerKeeps, Zenon
<1>10. BuffOK' /\ Waiting'
  BY <1>4, <1>7 DEF BuffOK, Waiting
<1>11. ASSUME whole'
       PROVE  /\ whole /\ got # <<>> /\ Len(got') <= Len(sent)
              /\ InOrder' /\ taken' = Start(Len(got) + 1)' /\ got' # <<>>
  <2>1. whole /\ Begun(taken, n)
    BY <1>11, Zenon
  <2>2. PICK i : i = Len(got) + 1
    OBVIOUS
  <2>3. /\ i \in DOMAIN sent /\ taken = Start(i)
        /\ i = 1 => DePackage(head, n) = 0
        /\ i # 1 => /\ SizeOf(sent[i]) \in n..Size
                    /\ DePackage(head, n) = SizeOf(sent[i])
                    /\ TypeIn(head, n) = sent[i].type
    BY <1>0, <2>1, <2>2, NextBegun, Zenon
  <2>4. i # 1 /\ n = SizeOf(sent[i]) /\ TypeIn(head, n) = sent[i].type
    BY <1>2, <2>3, Sizes
  <2>5. got' = Append(got, Note(Start(i), n, Expected(sent[i].type)))
    BY <1>7, <1>11, <2>3, <2>4, Zenon
  <2>6. InOrder' /\ Len(got') = i /\ got' # <<>> /\ Start(Len(got) + 1)' = Start(i) + n
    BY <1>0, <2>1, <2>2, <2>3, <2>4, <2>5, NextNoted, Zenon
  <2>7. got # <<>>
    BY <2>2, <2>4
  <2>8. i <= Len(sent)
    BY <1>0, <2>3, SentParts
  <2>. QED BY <2>1, <2>3, <2>6, <2>7, <2>8
<1>12. WholeSoFar'
  BY <1>7, <1>11, Zenon DEF WholeSoFar
<1>13. HandshakeAnswered'
  <2>1. taken <= taken' /\ KeyAt \in Int
    BY <1>5, Sizes
  <2>2. taken >= KeyAt => taken' >= KeyAt
    BY <1>5, <2>1
  <2>3. sent' = sent
    BY Zenon
  <2>. QED BY <1>0, <1>7, <1>11, <2>2, <2>3, Zenon DEF HandshakeAnswered
<1>. QED BY <1>9, <1>10, <1>12, <1>13, Zenon DEF IInv

(* The first bytes are not a whole package: the rest of what there is is   *)
(* taken, or what is missing is waited for.                                *)
LEMMA HeadWaits ==
  ASSUME IInv, at = "idle", UNCHANGED <<sent, arrived, closed, wsc, reply, got>>,
         NEW head \in Heads(taken), NEW n \in Nat, n # 0,
         taken' = taken + n, taken' <= arrived, n <= Size,
         buff' = [from |-> taken, held |-> n, head |-> head],
         whole' = (whole /\ Begun(taken, n)),
         DePackage(head, n) \notin 1..n,
         at' = IF DePackage(head, n) = 0 \/ TooLarge(DePackage(head, n)) THEN "rest" ELSE "more"
  PROVE  IInv'
<1>0. TypeOK /\ Stream /\ WholeSoFar /\ HandshakeAnswered
  BY Zenon DEF IInv
<1>1. DataLength(head) \in Lengths
  BY <1>0, HeadsTell, Zenon
<1>2. DePackage(head, n) \in Nat
  <2>1. n <= n
    OBVIOUS
  <2>. QED BY <1>1, <2>1, AnyRead, Zenon
<1>3. buff'.from = taken /\ buff'.held = n /\ buff'.head = head
  BY Zenon
<1>4. taken \in Nat /\ taken' \in Nat /\ taken \in 0..taken' /\ arrived \in Nat
  BY <1>0, Parts
<1>5. whole' \in BOOLEAN
  <2>1. whole \in BOOLEAN /\ Begun(taken, n) \in BOOLEAN
    BY <1>0, Zenon DEF TypeOK, Begun
  <2>. QED BY <2>1, Zenon
<1>6. at' \in {"rest", "more"} /\ at' # "idle" /\ at' \in {"idle", "rest", "drop", "more"}
  BY Zenon
<1>7. /\ wsc' \in [isLogin : BOOLEAN, exitType : {"NONE", "LOGIN", "DISCONNECT"}]
      /\ got' \in Seq(GotRecord) /\ reply' \in {"none", "accept", "wrong key"}
  BY <1>0, Zenon DEF TypeOK, GotRecord
<1>8. TypeOK' /\ Stream' /\ \A k : Start(k)' = Start(k)
  BY <1>3, <1>4, <1>5, <1>6, <1>7, ServerKeeps, Zenon
<1>9. BuffOK'
  BY <1>3 DEF BuffOK
<1>10. Waiting'
  <2>1. sent # <<>>
    <3>1. sent = <<>> => StreamEnd = 0
      BY DEF StreamEnd, Start
    <3>2. arrived <= StreamEnd
      BY <1>0, Zenon DEF Stream
    <3>3. arrived > 0
      BY <1>4
    <3>. QED BY <1>4, <3>1, <3>2, <3>3
  <2>2. at' = "more" => DePackage(head, n) \in (n + 1)..Size
    <3>1. at' = "more" => DePackage(head, n) # 0 /\ ~TooLarge(DePackage(head, n))
      BY Zenon
    <3>. QED BY <1>2, <3>1, Sizes DEF TooLarge
  <2>3. taken + n <= taken' /\ taken + n = taken'
    BY <1>4
  <2>4. sent' = sent
    BY Zenon
  <2>. QED BY <1>1, <1>3, <2>1, <2>2, <2>3, <2>4, Zenon DEF Waiting
<1>11. WholeSoFar'
  <2>. SUFFICES ASSUME whole' PROVE WholeSoFar'
    BY Zenon DEF WholeSoFar
  <2>1. whole /\ Begun(taken, n)
    BY Zenon
  <2>2. PICK i : i = Len(got) + 1
    OBVIOUS
  <2>3. /\ i \in DOMAIN sent /\ taken = Start(i) /\ head = HeadOf(sent[i])
        /\ i = 1 => DePackage(head, n) = 0
        /\ i # 1 => /\ SizeOf(sent[i]) \in n..Size /\ SizeOf(sent[i]) # 0
                    /\ DePackage(head, n) = SizeOf(sent[i])
    BY <1>0, <2>1, <2>2, NextBegun, Zenon
  <2>4. i = 1 => at' = "rest"
    BY <2>3, Zenon
  <2>5. i # 1 => at' = "more" /\ i > 1
    BY <1>0, <2>3, Sizes, SentParts DEF TooLarge
  <2>6. InHand(i)'
    <3>1. Start(i)' = Start(i) /\ sent' = sent
      BY <1>8, Zenon
    <3>2. i = 1 \/ i # 1
      OBVIOUS
    <3>. QED BY <1>3, <2>3, <2>4, <2>5, <3>1, <3>2, Zenon DEF InHand
  <2>7. Len(got) <= Len(sent) /\ (wsc.isLogin => got # <<>>) /\ InOrder
    BY <1>0, <2>1, Zenon DEF WholeSoFar
  <2>8. InOrder'
    <3>1. sent' = sent /\ got' = got
      BY Zenon
    <3>. QED BY <1>8, <2>1, <2>7, <3>1, Zenon DEF InOrder
  <2>9. got' = got /\ wsc' = wsc /\ sent' = sent
    BY Zenon
  <2>10. Len(got) + 1 = i
    BY <2>2
  <2>. QED BY <1>6, <2>6, <2>7, <2>8, <2>9, <2>10, Zenon DEF WholeSoFar
<1>12. HandshakeAnswered'
  <2>1. taken >= KeyAt => taken' >= KeyAt
    BY <1>4, Sizes
  <2>2. sent' = sent /\ wsc' = wsc /\ reply' = reply /\ got' = got
    BY Zenon
  <2>3. whole' => whole
    BY Zenon
  <2>. QED BY <1>0, <2>1, <2>2, <2>3, Zenon DEF HandshakeAnswered
<1>. QED BY <1>8, <1>9, <1>10, <1>11, <1>12, Zenon DEF IInv

LEMMA RecvHeadKeeps == IInv /\ RecvHead => IInv'
<1>. SUFFICES ASSUME IInv, RecvHead PROVE IInv'
  OBVIOUS
<1>1. /\ at = "idle" /\ Recv(Try) /\ UNCHANGED <<sent, arrived, closed>>
  BY Zenon DEF RecvHead, client
<1>2. PICK head \in Heads(taken) :
        LET n == taken' - taken
            bytes == DePackage(head, n)
        IN  /\ buff' = [from |-> taken, held |-> n, head |-> head]
            /\ whole' = (whole /\ Begun(taken, n))
            /\ IF bytes \in 1..n
               THEN Received(TRUE, TypeIn(head, n), n)
               ELSE /\ at' = IF bytes = 0 \/ TooLarge(bytes) THEN "rest" ELSE "more"
                    /\ UNCHANGED <<wsc, reply, got>>
  BY Zenon DEF RecvHead
<1>3. TypeOK
  BY Zenon DEF IInv
<1>4. PICK n : n = taken' - taken
  OBVIOUS
<1>5. n \in Nat /\ n # 0 /\ n <= Size /\ taken' = taken + n /\ taken' <= arrived
  <2>1. taken' \in Nat /\ taken' <= arrived /\ taken' - taken \in 1..Try
    BY <1>1, <1>3, Sizes, RecvBounds
  <2>. QED BY <1>3, <1>4, <2>1, Sizes, Parts
<1>6. CASE DePackage(head, n) \in 1..n
  BY <1>1, <1>2, <1>4, <1>5, <1>6, HeadReceives, Zenon
<1>7. CASE DePackage(head, n) \notin 1..n
  <2>1. /\ buff' = [from |-> taken, held |-> n, head |-> head]
        /\ whole' = (whole /\ Begun(taken, n))
        /\ at' = IF DePackage(head, n) = 0 \/ TooLarge(DePackage(head, n)) THEN "rest" ELSE "more"
        /\ UNCHANGED <<wsc, reply, got>>
    BY <1>2, <1>4, <1>7, Zenon
  <2>2. UNCHANGED <<sent, arrived, closed, wsc, reply, got>>
    BY <1>1, <2>1, Zenon
  <2>. QED BY <1>1, <1>5, <1>7, <2>1, <2>2, HeadWaits, Zenon
<1>. QED BY <1>6, <1>7

(* The rest is waited for of a handshake only, as long as `whole' holds.   *)
LEMMA RestOfHello ==
  ASSUME TypeOK, Stream, WholeSoFar, at = "rest", whole
  PROVE  /\ got = <<>> /\ 1 \in DOMAIN sent /\ sent[1].type \in Hellos
         /\ sent[1].end = HelloLen /\ Start(1) = 0 /\ ~wsc.isLogin
         /\ DePackage(buff.head, buff.held) = 0
<1>1. InHand(Len(got) + 1) /\ (wsc.isLogin => got # <<>>)
  BY Zenon DEF WholeSoFar
<1>2. Len(got) + 1 = 1 /\ 1 \in DOMAIN sent /\ buff.head = HeadOf(sent[1])
  BY <1>1, Zenon DEF InHand
<1>3. got = <<>>
  BY <1>2, GotParts
<1>4. sent[1].type \in Hellos /\ sent[1].end = Start(1) + SizeOf(sent[1])
  BY <1>2 DEF Stream
<1>5. Start(1) = 0
  BY DEF Start
<1>6. sent[1].end = HelloLen
  BY <1>4, <1>5, Sizes DEF SizeOf
<1>7. DePackage(buff.head, buff.held) = 0
  BY <1>2, <1>4, Parts, HeadSays, Zenon
<1>. QED BY <1>1, <1>2, <1>3, <1>4, <1>5, <1>6, <1>7, Zenon

(* What is too large is never the next package. *)
LEMMA RestDrops ==
  ASSUME IInv, at = "rest", UNCHANGED <<sent, arrived, closed, wsc, reply, got, whole>>,
         NEW n \in Nat, taken' = taken + n, taken' <= arrived, buff.held + n <= Size,
         buff' = [buff EXCEPT !.held = @ + n], at' = "drop",
         TooLarge(DePackage(buff.head, buff.held))
  PROVE  IInv'
<1>0. TypeOK /\ Stream /\ BuffOK /\ Waiting /\ WholeSoFar /\ HandshakeAnswered
  BY Zenon DEF IInv
<1>1. ~whole
  <2>1. ~TooLarge(0)
    BY Sizes DEF TooLarge
  <2>. QED BY <1>0, <2>1, RestOfHello, Zenon
<1>2. buff' = [from |-> buff.from, held |-> buff.held + n, head |-> buff.head]
  BY <1>0 DEF BuffOK
<1>3. buff'.from = buff.from /\ buff'.held = buff.held + n /\ buff'.head = buff.head
  BY <1>2
<1>4. /\ taken \in Nat /\ taken' \in Nat /\ buff'.from \in 0..taken' /\ buff'.held \in Nat
  BY <1>0, <1>3, Parts
<1>5. /\ wsc' \in [isLogin : BOOLEAN, exitType : {"NONE", "LOGIN", "DISCONNECT"}]
      /\ got' \in Seq(GotRecord) /\ reply' \in {"none", "accept", "wrong key"}
      /\ whole' \in BOOLEAN
  BY <1>0, Zenon DEF TypeOK, GotRecord
<1>6. TypeOK' /\ Stream'
  BY <1>4, <1>5, ServerKeeps, Zenon
<1>7. BuffOK'
  BY <1>2, <1>3 DEF BuffOK
<1>8. Waiting'
  <2>1. buff.from + buff.held = taken
    BY <1>0, Zenon DEF Waiting
  <2>2. buff'.from + buff'.held <= taken'
    BY <1>0, <1>3, <1>4, <2>1, Parts
  <2>3. sent # <<>> /\ DataLength(buff.head) \in Lengths
    BY <1>0, Zenon DEF Waiting
  <2>4. at' # "rest" /\ at' # "more" /\ sent' = sent
    BY Zenon
  <2>. QED BY <1>3, <2>2, <2>3, <2>4, Zenon DEF Waiting
<1>9. WholeSoFar'
  BY <1>1, Zenon DEF WholeSoFar
<1>10. HandshakeAnswered'
  <2>1. taken >= KeyAt => taken' >= KeyAt
    BY <1>4, Sizes
  <2>2. sent' = sent /\ wsc' = wsc /\ ~whole'
    BY <1>1, Zenon
  <2>3. wsc.isLogin => sent[1].type = "HELLO" /\ taken >= KeyAt
    BY <1>0, Zenon DEF HandshakeAnswered
  <2>4. wsc'.isLogin => sent'[1].type = "HELLO" /\ taken' >= KeyAt
    BY <2>1, <2>2, <2>3, Zenon
  <2>. QED BY <2>2, <2>4, Zenon DEF HandshakeAnswered
<1>. QED BY <1>6, <1>7, <1>8, <1>9, <1>10, Zenon DEF IInv

(* What is received of n bytes that are no package, and what of it is noted *)
(* only of a handshake that was sent first.                                 *)
LEMMA OtherKeeps ==
  ASSUME IInv, at # "idle", UNCHANGED <<sent, arrived, closed>>,
         taken' \in Nat, taken <= taken', taken' <= arrived,
         NEW n \in Nat, n <= Size, buff.from + n <= taken',
         buff' = [from |-> buff.from, held |-> n, head |-> buff.head],
         Received(FALSE, BuffType, n),
         whole' \in BOOLEAN,
         whole' => at = "rest" /\ whole /\ buff.from = 0 /\ n = HelloLen /\ taken' = HelloLen
  PROVE  IInv'
<1>0. TypeOK /\ Stream /\ BuffOK /\ Waiting /\ WholeSoFar /\ HandshakeAnswered
  BY Zenon DEF IInv
<1>1. buff'.from = buff.from /\ buff'.held = n /\ buff'.head = buff.head
  BY Zenon
<1>2. /\ taken \in Nat /\ buff.from \in Nat /\ buff.held \in Nat /\ buff'.from \in 0..taken'
  <2>1. taken \in Nat /\ buff.from \in 0..taken /\ buff.held \in Nat
    BY <1>0, Parts, Zenon
  <2>2. buff.from \in Nat /\ buff.from \in 0..taken'
    BY <2>1
  <2>. QED BY <1>1, <2>1, <2>2, Zenon
<1>3. sent # <<>> /\ DataLength(buff.head) \in Lengths
  BY <1>0, Zenon DEF Waiting
<1>4. BuffType \in Types \cup {"NULL"}
  <2>1. buff.held <= buff.held
    BY <1>2
  <2>. QED BY <1>2, <1>3, <2>1, AnyRead, Zenon DEF BuffType
<1>5. PICK asked : asked = (~wsc.isLogin /\ Asked(buff.from, buff.from + n))
  OBVIOUS
<1> DEFINE to == buff.from + n
<1>6. /\ at' = "idle"
      /\ asked /\ Answers(to) => wsc'.isLogin /\ reply' = RespondKey(to)
      /\ ~(asked /\ Answers(to)) => wsc'.isLogin = wsc.isLogin /\ reply' = reply
      /\ wsc' \in [isLogin : BOOLEAN, exitType : {"NONE", "LOGIN", "DISCONNECT"}]
      /\ reply' \in {"none", "accept", "wrong key"}
      /\ got' = IF whole' THEN Append(got, Note(buff.from, n, IF asked THEN "HELLO" ELSE "BAD"))
                ELSE got
      /\ got' \in Seq(GotRecord)
  BY <1>0, <1>1, <1>2, <1>4, <1>5, OtherReceived, Zenon
<1>7. TypeOK' /\ Stream' /\ \A k : Start(k)' = Start(k)
  BY <1>1, <1>2, <1>3, <1>6, ServerKeeps, Zenon
<1>8. BuffOK' /\ Waiting'
  BY <1>1, <1>6 DEF BuffOK, Waiting
<1>9. ASSUME whole'
      PROVE  /\ got' # <<>> /\ Len(got') <= Len(sent) /\ InOrder'
             /\ taken' = Start(Len(got) + 1)'
             /\ sent[1].type = "HELLO" => wsc'.isLogin /\ reply' = "accept"
  <2>1. whole /\ buff.from = 0 /\ n = HelloLen /\ taken' = HelloLen /\ at = "rest"
    BY <1>9, Zenon
  <2>2. /\ got = <<>> /\ 1 \in DOMAIN sent /\ sent[1].type \in Hellos
        /\ sent[1].end = HelloLen /\ Start(1) = 0 /\ ~wsc.isLogin
    BY <1>0, <2>1, RestOfHello, Zenon
  <2>3. to = HelloLen /\ to >= KeyName /\ to >= KeyAt /\ to >= KeyEnd
    BY <2>1, Sizes
  <2>4. asked
    BY <1>5, <2>1, <2>2, <2>3, Zenon DEF Asked
  <2>5. Len(got) + 1 = 1 /\ SizeOf(sent[1]) = n
    BY <2>1, <2>2 DEF SizeOf
  <2>6. got' = Append(got, Note(Start(1), n, Expected(sent[1].type)))
    BY <1>6, <1>9, <2>1, <2>2, <2>4, Zenon DEF Expected
  <2>7. 1 = Len(got) + 1 /\ n = SizeOf(sent[1])
    BY <2>5
  <2>8. InOrder' /\ Len(got') = 1 /\ got' # <<>> /\ Start(Len(got) + 1)' = Start(1) + n
    BY <1>0, <2>1, <2>2, <2>6, <2>7, NextNoted, Zenon
  <2>9. Start(1) + n = HelloLen /\ 1 <= Len(sent)
    BY <1>0, <2>1, <2>2, SentParts, Sizes
  <2>10. sent[1].type = "HELLO" => wsc'.isLogin /\ reply' = "accept"
    BY <1>6, <2>3, <2>4, Zenon DEF Answers, RespondKey
  <2>. QED BY <2>1, <2>8, <2>9, <2>10, Zenon
<1>10. WholeSoFar'
  BY <1>6, <1>9, Zenon DEF WholeSoFar
<1>11. HandshakeAnswered'
  <2>1. taken >= KeyAt => taken' >= KeyAt
    BY <1>2, Sizes
  <2>2. asked /\ Answers(to) => sent[1].type = "HELLO" /\ taken' >= KeyAt
    <3>1. to >= KeyAt => taken' >= KeyAt
      BY <1>2, Sizes
    <3>. QED BY <3>1, Zenon DEF Answers
  <2>3. wsc'.isLogin => sent[1].type = "HELLO" /\ taken' >= KeyAt
    BY <1>0, <1>6, <2>1, <2>2, Zenon DEF HandshakeAnswered
  <2>4. sent' = sent
    BY Zenon
  <2>. QED BY <1>9, <2>3, <2>4, Zenon DEF HandshakeAnswered
<1>. QED BY <1>7, <1>8, <1>10, <1>11, Zenon DEF IInv

LEMMA RestKeeps ==
  ASSUME IInv, at = "rest", UNCHANGED <<sent, arrived, closed>>,
         NEW n \in Nat, taken' = taken + n, taken' <= arrived, buff.held + n <= Size, Rest(n)
  PROVE  IInv'
<1>0. TypeOK /\ Stream /\ BuffOK /\ Waiting
  BY Zenon DEF IInv
<1>1. CASE TooLarge(DePackage(buff.head, buff.held))
  <2>1. /\ buff' = [buff EXCEPT !.held = @ + n]
        /\ at' = "drop" /\ UNCHANGED <<wsc, reply, got, whole>>
    BY <1>1, Zenon DEF Rest
  <2>2. UNCHANGED <<sent, arrived, closed, wsc, reply, got, whole>>
    BY <2>1, Zenon
  <2>. QED BY <1>1, <2>1, <2>2, RestDrops, Zenon
<1>2. CASE ~TooLarge(DePackage(buff.head, buff.held))
  <2>1. /\ buff' = [buff EXCEPT !.held = @ + n]
        /\ whole' = (whole /\ buff.from = 0 /\ buff.held + n = HelloLen)
        /\ Received(FALSE, BuffType, buff.held + n)
    BY <1>2, Zenon DEF Rest
  <2>2. buff' = [from |-> buff.from, held |-> buff.held + n, head |-> buff.head]
    BY <1>0, <2>1 DEF BuffOK
  <2>3. PICK m : m = buff.held + n
    OBVIOUS
  <2>4. buff.from + buff.held = taken /\ at # "idle"
    BY <1>0, Zenon DEF Waiting
  <2>5. /\ m \in Nat /\ m <= Size /\ buff.from + m = taken' /\ buff.from + m <= taken'
        /\ taken' \in Nat /\ taken <= taken'
    BY <1>0, <2>3, <2>4, Parts
  <2>6. whole' => at = "rest" /\ whole /\ buff.from = 0 /\ m = HelloLen /\ taken' = HelloLen
    <3>1. whole' => whole /\ buff.from = 0 /\ m = HelloLen
      BY <2>1, <2>3, Zenon
    <3>2. buff.from = 0 /\ m = HelloLen => taken' = HelloLen
      BY <2>5, Sizes
    <3>. QED BY <3>1, <3>2, Zenon
  <2>7. whole' \in BOOLEAN
    <3>1. whole \in BOOLEAN
      BY <1>0, Zenon DEF TypeOK
    <3>. QED BY <2>1, <3>1, Zenon
  <2>8. buff' = [from |-> buff.from, held |-> m, head |-> buff.head]
        /\ Received(FALSE, BuffType, m)
    BY <2>1, <2>2, <2>3, Zenon
  <2>. QED BY <2>4, <2>5, <2>6, <2>7, <2>8, OtherKeeps, Zenon
<1>. QED BY <1>1, <1>2

LEMMA RecvRestKeeps == IInv /\ RecvRest => IInv'
<1>. SUFFICES ASSUME IInv, RecvRest PROVE IInv'
  OBVIOUS
<1>1. /\ at = "rest" /\ Recv(Size - buff.held) /\ Rest(taken' - taken)
      /\ UNCHANGED <<sent, arrived, closed>>
  BY Zenon DEF RecvRest, client
<1>2. TypeOK /\ buff.held <= Size
  BY Zenon DEF IInv, BuffOK
<1>3. PICK n : n = taken' - taken
  OBVIOUS
<1>4. taken \in Nat /\ arrived \in Nat /\ buff.held \in Nat /\ Size \in Nat
  BY <1>2, Parts, Sizes
<1>5. n \in Nat /\ taken' = taken + n /\ taken' <= arrived /\ buff.held + n <= Size
  BY <1>1, <1>2, <1>3, <1>4 DEF Recv
<1>6. Rest(n)
  BY <1>1, <1>3, Zenon
<1>. QED BY <1>1, <1>5, <1>6, RestKeeps, Zenon

LEMMA NoRestKeeps == IInv /\ NoRest => IInv'
<1>. SUFFICES ASSUME IInv, NoRest PROVE IInv'
  OBVIOUS
<1>1. /\ at = "rest" /\ taken = arrived /\ Rest(0) /\ taken' = taken
      /\ UNCHANGED <<sent, arrived, closed>>
  BY Zenon DEF NoRest, client
<1>2. TypeOK /\ buff.held <= Size
  BY Zenon DEF IInv, BuffOK
<1>3. taken' = taken + 0 /\ taken' <= arrived /\ buff.held + 0 <= Size /\ 0 \in Nat
  BY <1>1, <1>2, Parts
<1>. QED BY <1>1, <1>3, RestKeeps, Zenon

(* What does not receive the next package nor wait for it does so only     *)
(* when `whole' does not hold.                                             *)
LEMMA DropIsLost ==
  ASSUME WholeSoFar, at = "drop"
  PROVE  ~whole
BY Zenon DEF WholeSoFar, InHand

LEMMA DropKeeps == IInv /\ Drop => IInv'
<1>. SUFFICES ASSUME IInv, Drop PROVE IInv'
  OBVIOUS
<1>0. TypeOK /\ Stream /\ BuffOK /\ Waiting /\ WholeSoFar /\ HandshakeAnswered
  BY Zenon DEF IInv
<1>1. /\ at = "drop" /\ taken < arrived /\ taken' = arrived
      /\ sent' = sent /\ arrived' = arrived /\ closed' = closed /\ reply' = reply /\ at' = at
      /\ buff' = buff /\ wsc' = wsc /\ got' = got /\ whole' = whole
  BY Zenon DEF Drop, client
<1>2. ~whole
  BY <1>0, <1>1, DropIsLost, Zenon
<1>3. /\ arrived \in Nat /\ taken \in Nat /\ taken' \in 0..arrived'
      /\ buff'.from \in 0..taken' /\ buff'.held \in Nat
  BY <1>0, <1>1, Parts
<1>4. TypeOK'
  BY <1>0, <1>1, <1>3, Zenon DEF TypeOK
<1>5. Stream' /\ BuffOK'
  <2>1. UNCHANGED <<sent, arrived, closed>> /\ (reply' # reply => sent # <<>>)
    BY <1>1, Zenon
  <2>. QED BY <1>0, <1>1, <2>1, StreamServed, Zenon DEF BuffOK
<1>6. Waiting'
  <2>1. buff.from + buff.held <= taken => buff.from + buff.held <= taken'
    BY <1>0, <1>1, Parts
  <2>. QED BY <1>0, <1>1, <2>1, Zenon DEF Waiting
<1>7. WholeSoFar'
  BY <1>1, <1>2, Zenon DEF WholeSoFar
<1>8. HandshakeAnswered'
  <2>1. taken >= KeyAt => taken' >= KeyAt
    BY <1>0, <1>1, Parts, Sizes
  <2>2. wsc.isLogin => sent[1].type = "HELLO" /\ taken >= KeyAt
    BY <1>0, Zenon DEF HandshakeAnswered
  <2>3. wsc'.isLogin => sent'[1].type = "HELLO" /\ taken' >= KeyAt
    BY <1>1, <2>1, <2>2, Zenon
  <2>. QED BY <1>1, <1>2, <2>3, Zenon DEF HandshakeAnswered
<1>. QED BY <1>4, <1>5, <1>6, <1>7, <1>8, Zenon DEF IInv

(* Both ends of a wait after which what there is is handed on. *)
LEMMA EndKeeps ==
  ASSUME IInv, at # "idle", ~whole, UNCHANGED <<sent, arrived, closed, taken, buff, whole>>,
         Received(FALSE, BuffType, buff.held)
  PROVE  IInv'
<1>0. TypeOK /\ BuffOK /\ Waiting
  BY Zenon DEF IInv
<1>1. buff' = [from |-> buff.from, held |-> buff.held, head |-> buff.head]
  BY <1>0, Zenon DEF BuffOK
<1>2. taken' = taken /\ ~whole'
  BY Zenon
<1>3. /\ taken \in Nat /\ taken' \in Nat /\ taken <= taken' /\ taken' <= arrived
      /\ buff.held \in Nat
  BY <1>0, <1>2, Parts
<1>4. buff.held <= Size /\ buff.from + buff.held <= taken'
  BY <1>0, <1>2, Zenon DEF BuffOK, Waiting
<1>5. UNCHANGED <<sent, arrived, closed>> /\ whole' \in BOOLEAN
  <2>1. whole \in BOOLEAN /\ whole' = whole
    BY <1>0, Zenon DEF TypeOK
  <2>. QED BY <2>1, Zenon
<1>. QED BY <1>1, <1>2, <1>3, <1>4, <1>5, OtherKeeps, Zenon

LEMMA DropEndsKeeps == IInv /\ DropEnds => IInv'
<1>. SUFFICES ASSUME IInv, DropEnds PROVE IInv'
  OBVIOUS
<1>1. /\ at = "drop" /\ at # "idle" /\ Received(FALSE, BuffType, buff.held)
      /\ UNCHANGED <<sent, arrived, closed, taken, buff, whole>>
  BY Zenon DEF DropEnds, client
<1>2. ~whole
  BY <1>1, DropIsLost, Zenon DEF IInv
<1>. QED BY <1>1, <1>2, EndKeeps, Zenon

(* Of a package in hand something is still to come: the client has not     *)
(* closed with less than it has sent.                                      *)
LEMMA GiveUpKeeps == IInv /\ GiveUp => IInv'
<1>. SUFFICES ASSUME IInv, GiveUp PROVE IInv'
  OBVIOUS
<1>0. TypeOK /\ Stream /\ Waiting /\ WholeSoFar
  BY Zenon DEF IInv
<1>1. /\ at = "more" /\ at # "idle" /\ closed /\ taken = arrived
      /\ Received(FALSE, BuffType, buff.held)
      /\ UNCHANGED <<sent, arrived, closed, taken, buff, whole>>
  BY Zenon DEF GiveUp, client
<1>2. ~whole
  <2>. SUFFICES ASSUME whole PROVE FALSE
    OBVIOUS
  <2>1. PICK i : i = Len(got) + 1
    OBVIOUS
  <2>2. InHand(i)
    BY <1>0, <1>1, <2>1, Zenon DEF WholeSoFar
  <2>3. /\ i \in DOMAIN sent /\ buff.from = Start(i)
        /\ DePackage(buff.head, buff.held) = SizeOf(sent[i])
    BY <1>1, <2>2, Zenon DEF InHand
  <2>4. /\ buff.from + buff.held = taken
        /\ DePackage(buff.head, buff.held) \in (buff.held + 1)..Size
    BY <1>0, <1>1, Zenon DEF Waiting
  <2>5. sent[i].end = Start(i) + SizeOf(sent[i]) /\ sent[i].end <= StreamEnd
    BY <1>0, <2>3, Starts DEF Stream
  <2>6. arrived = StreamEnd
    BY <1>0, <1>1, Zenon DEF Stream
  <2>. QED BY <1>0, <1>1, <2>3, <2>4, <2>5, <2>6, Parts, Sizes
<1>. QED BY <1>1, <1>2, EndKeeps, Zenon

(* The package in hand, and what the server knows of it. *)
LEMMA MoreOfNext ==
  ASSUME TypeOK, Stream, WholeSoFar, at = "more", whole, NEW i, i = Len(got) + 1,
         DePackage(buff.head, buff.held) # 0
  PROVE  /\ InHand(i) /\ i \in DOMAIN sent /\ i # 1 /\ got # <<>>
         /\ buff.from = Start(i) /\ DePackage(buff.head, buff.held) = SizeOf(sent[i])
         /\ BuffType = sent[i].type
<1>1. InHand(i)
  BY Zenon DEF WholeSoFar
<1>2. /\ i \in DOMAIN sent /\ i > 1 /\ buff.from = Start(i) /\ buff.head = HeadOf(sent[i])
      /\ DePackage(buff.head, buff.held) = SizeOf(sent[i])
  BY <1>1, Zenon DEF InHand
<1>3. i # 1 /\ got # <<>>
  BY <1>2, GotParts
<1>4. sent[i].type \notin Hellos
  BY <1>2, <1>3, CodeParts DEF Stream, Hellos
<1>5. BuffType = sent[i].type
  BY <1>2, <1>4, HeadSays, Parts, Zenon DEF BuffType
<1>. QED BY <1>1, <1>2, <1>3, <1>5

(* The last of the missing bytes have come. *)
LEMMA MoreReceives ==
  ASSUME IInv, at = "more", UNCHANGED <<sent, arrived, closed, whole>>,
         NEW m \in Nat, m = DePackage(buff.head, buff.held), m \in (buff.held + 1)..Size,
         taken' = taken + (m - buff.held), taken' <= arrived,
         buff' = [from |-> buff.from, held |-> m, head |-> buff.head],
         Received(TRUE, BuffType, m)
  PROVE  IInv'
<1>0. TypeOK /\ Stream /\ BuffOK /\ Waiting /\ WholeSoFar /\ HandshakeAnswered
  BY Zenon DEF IInv
<1>1. /\ taken \in Nat /\ buff.from \in 0..taken /\ buff.from \in Nat /\ buff.held \in Nat
      /\ Size \in Nat
  BY <1>0, Parts, Sizes
<1>2. buff.from + buff.held = taken /\ DataLength(buff.head) \in Lengths
  BY <1>0, Zenon DEF Waiting
<1>3. /\ m # 0 /\ taken' \in Nat /\ taken' = buff.from + m /\ taken <= taken'
      /\ buff.from \in 0..taken' /\ m <= Size
  BY <1>1, <1>2
<1>4. BuffType \in Types
  <2>1. buff.held <= buff.held
    BY <1>1
  <2>. QED BY <1>1, <1>2, <1>3, <2>1, AnyRead, Zenon DEF BuffType
<1>5. buff'.from = buff.from /\ buff'.held = m /\ buff'.head = buff.head
  BY Zenon
<1>6. whole' \in BOOLEAN /\ whole' = whole
  <2>1. whole \in BOOLEAN /\ whole' = whole
    BY <1>0, Zenon DEF TypeOK
  <2>. QED BY <2>1, Zenon
<1>7. /\ at' = "idle" /\ reply' = reply /\ wsc'.isLogin = wsc.isLogin
      /\ wsc' \in [isLogin : BOOLEAN, exitType : {"NONE", "LOGIN", "DISCONNECT"}]
      /\ got' = IF whole' THEN Append(got, Note(buff.from, m, Expected(BuffType))) ELSE got
      /\ got' \in Seq(GotRecord)
  BY <1>0, <1>1, <1>4, <1>5, <1>6, PackageReceived, Zenon
<1>8. reply' \in {"none", "accept", "wrong key"}
  BY <1>0, <1>7, Zenon DEF TypeOK
<1>9. TypeOK' /\ Stream'
  BY <1>3, <1>5, <1>6, <1>7, <1>8, ServerKeeps, Zenon
<1>10. BuffOK' /\ Waiting'
  BY <1>3, <1>5, <1>7 DEF BuffOK, Waiting
<1>11. ASSUME whole'
       PROVE  /\ whole /\ got # <<>> /\ Len(got') <= Len(sent)
              /\ InOrder' /\ taken' = Start(Len(got) + 1)' /\ got' # <<>>
  <2>1. whole
    BY <1>6, <1>11, Zenon
  <2>2. PICK i : i = Len(got) + 1
    OBVIOUS
  <2>3. /\ i \in DOMAIN sent /\ i # 1 /\ got # <<>> /\ buff.from = Start(i)
        /\ m = SizeOf(sent[i]) /\ BuffType = sent[i].type
    BY <1>0, <1>3, <2>1, <2>2, MoreOfNext, Zenon
  <2>4. got' = Append(got, Note(Start(i), m, Expected(sent[i].type)))
    BY <1>7, <1>11, <2>3, Zenon
  <2>5. InOrder' /\ Len(got') = i /\ got' # <<>> /\ Start(Len(got) + 1)' = Start(i) + m
    BY <1>0, <2>1, <2>2, <2>3, <2>4, NextNoted, Zenon
  <2>6. i <= Len(sent)
    BY <1>0, <2>3, SentParts
  <2>. QED BY <1>3, <2>1, <2>3, <2>5, <2>6
<1>12. WholeSoFar'
  <2>1. sent' = sent
    BY Zenon
  <2>. QED BY <1>7, <1>11, <2>1, Zenon DEF WholeSoFar
<1>13. HandshakeAnswered'
  <2>1. taken >= KeyAt => taken' >= KeyAt
    BY <1>1, <1>3, Sizes
  <2>2. sent' = sent
    BY Zenon
  <2>. QED BY <1>0, <1>7, <1>11, <2>1, <2>2, Zenon DEF HandshakeAnswered
<1>. QED BY <1>9, <1>10, <1>12, <1>13, Zenon DEF IInv

(* Some of the missing bytes have come. *)
LEMMA MoreWaits ==
  ASSUME IInv, at = "more", UNCHANGED <<sent, arrived, closed, whole, wsc, reply, got, at>>,
         NEW m \in Nat, buff.held < m, m < DePackage(buff.head, buff.held),
         taken' = taken + (m - buff.held), taken' <= arrived,
         buff' = [from |-> buff.from, held |-> m, head |-> buff.head]
  PROVE  IInv'
<1>0. TypeOK /\ Stream /\ BuffOK /\ Waiting /\ WholeSoFar /\ HandshakeAnswered
  BY Zenon DEF IInv
<1>1. /\ taken \in Nat /\ buff.from \in 0..taken /\ buff.from \in Nat /\ buff.held \in Nat
      /\ Size \in Nat
  BY <1>0, Parts, Sizes
<1>2. /\ buff.from + buff.held = taken /\ DataLength(buff.head) \in Lengths /\ sent # <<>>
      /\ DePackage(buff.head, buff.held) \in (buff.held + 1)..Size
  BY <1>0, Zenon DEF Waiting
<1>3. /\ taken' \in Nat /\ taken' = buff.from + m /\ taken <= taken'
      /\ buff.from \in 0..taken' /\ m <= Size /\ buff.held <= m
      /\ DePackage(buff.head, buff.held) # 0
      /\ DePackage(buff.head, buff.held) \in (m + 1)..Size
  BY <1>1, <1>2
<1>4. DePackage(buff.head, m) = DePackage(buff.head, buff.held)
  BY <1>1, <1>2, <1>3, AnyRead, Zenon
<1>5. buff'.from = buff.from /\ buff'.held = m /\ buff'.head = buff.head
  BY Zenon
<1>6. /\ wsc' = wsc /\ reply' = reply /\ got' = got /\ at' = at /\ whole' = whole
      /\ sent' = sent /\ (whole' => whole)
  BY Zenon
<1>7. /\ wsc' \in [isLogin : BOOLEAN, exitType : {"NONE", "LOGIN", "DISCONNECT"}]
      /\ got' \in Seq(GotRecord) /\ reply' \in {"none", "accept", "wrong key"}
      /\ whole' \in BOOLEAN /\ at' \in {"idle", "rest", "drop", "more"}
  BY <1>0, <1>6, Zenon DEF TypeOK, GotRecord
<1>8. TypeOK' /\ Stream' /\ \A k : Start(k)' = Start(k)
  BY <1>3, <1>5, <1>6, <1>7, ServerKeeps, Zenon
<1>9. BuffOK'
  BY <1>3, <1>5, Zenon DEF BuffOK
<1>10. Waiting'
  <2>1. buff'.from + buff'.held = taken' /\ buff'.from + buff'.held <= taken'
    BY <1>3, <1>5
  <2>2. DePackage(buff'.head, buff'.held) \in (buff'.held + 1)..Size
    BY <1>3, <1>4, <1>5, Zenon
  <2>. QED BY <1>2, <1>5, <1>6, <2>1, <2>2, Zenon DEF Waiting
<1>11. WholeSoFar'
  <2>. SUFFICES ASSUME whole' PROVE WholeSoFar'
    BY Zenon DEF WholeSoFar
  <2>0. whole
    BY <1>6, Zenon
  <2>1. PICK i : i = Len(got) + 1
    OBVIOUS
  <2>2. InHand(i) /\ DePackage(buff.head, buff.held) = SizeOf(sent[i])
    BY <1>0, <1>3, <2>0, <2>1, MoreOfNext, Zenon
  <2>3. InHand(i)'
    BY <1>4, <1>5, <1>6, <1>8, <2>2, Zenon DEF InHand
  <2>4. Len(got) <= Len(sent) /\ (wsc.isLogin => got # <<>>) /\ InOrder
    BY <1>0, <2>0, Zenon DEF WholeSoFar
  <2>5. InOrder'
    BY <1>6, <1>8, <2>0, <2>4, Zenon DEF InOrder
  <2>6. at' # "idle" /\ Len(got) + 1 = i
    BY <1>6, <2>1, Zenon
  <2>. QED BY <1>6, <2>3, <2>4, <2>5, <2>6, Zenon DEF WholeSoFar
<1>12. HandshakeAnswered'
  <2>1. taken >= KeyAt => taken' >= KeyAt
    BY <1>1, <1>3, Sizes
  <2>2. wsc'.isLogin => sent'[1].type = "HELLO" /\ taken' >= KeyAt
    <3>1. wsc.isLogin => sent[1].type = "HELLO" /\ taken >= KeyAt
      BY <1>0, Zenon DEF HandshakeAnswered
    <3>. QED BY <1>6, <2>1, <3>1, Zenon
  <2>3. whole' /\ got' # <<>> /\ sent'[1].type = "HELLO" => wsc'.isLogin /\ reply' = "accept"
    <3>1. whole /\ got # <<>> /\ sent[1].type = "HELLO" => wsc.isLogin /\ reply = "accept"
      BY <1>0, Zenon DEF HandshakeAnswered
    <3>. QED BY <1>6, <3>1, Zenon
  <2>. QED BY <2>2, <2>3, Zenon DEF HandshakeAnswered
<1>. QED BY <1>8, <1>9, <1>10, <1>11, <1>12, Zenon DEF IInv

LEMMA SumBack ==
  ASSUME NEW a \in Nat, NEW b \in Nat, NEW d, d = b - a
  PROVE  b = a + d
OBVIOUS

LEMMA RecvMoreKeeps == IInv /\ RecvMore => IInv'
<1>. SUFFICES ASSUME IInv, RecvMore PROVE IInv'
  OBVIOUS
<1>0. TypeOK /\ BuffOK /\ Waiting
  BY Zenon DEF IInv
<1>1. /\ at = "more" /\ Recv(Missing) /\ UNCHANGED <<sent, arrived, closed, whole>>
      /\ buff' = [buff EXCEPT !.held = buff.held + taken' - taken]
      /\ IF buff.held + taken' - taken = buff.held + Missing
         THEN Received(TRUE, BuffType, buff.held + taken' - taken)
         ELSE UNCHANGED <<wsc, reply, got, at>>
  BY Zenon DEF RecvMore, client
<1>2. /\ taken \in Nat /\ arrived \in Nat /\ buff.held \in Nat /\ Size \in Nat
      /\ DePackage(buff.head, buff.held) \in (buff.held + 1)..Size
  <2>1. DePackage(buff.head, buff.held) \in (buff.held + 1)..Size
    BY <1>0, <1>1, Zenon DEF Waiting
  <2>. QED BY <1>0, <2>1, Parts, Sizes
<1>3. PICK bytes : bytes = DePackage(buff.head, buff.held)
  OBVIOUS
<1>4. /\ bytes \in (buff.held + 1)..Size /\ Missing = bytes - buff.held
      /\ Missing \in Nat \ {0}
  BY <1>2, <1>3 DEF Missing
<1>5. taken' \in Nat /\ taken' <= arrived /\ taken' - taken \in 1..Missing
  BY <1>0, <1>1, <1>4, RecvBounds
<1>6. PICK m : m = buff.held + taken' - taken
  OBVIOUS
<1>7. /\ m \in Nat /\ buff.held < m /\ m <= bytes /\ taken' = taken + (m - buff.held)
      /\ (m = bytes <=> m = buff.held + Missing)
  <2>1. PICK d : d = taken' - taken
    OBVIOUS
  <2>2. d \in Nat \ {0} /\ d <= Missing
    <3>1. d \in 1..Missing
      BY <1>5, <2>1, Zenon
    <3>. QED BY <1>4, <3>1
  <2>3. taken' = taken + d
    <3>1. taken \in Nat /\ taken' \in Nat
      BY <1>2, <1>5, Zenon
    <3>. QED BY <2>1, <3>1, SumBack
  <2>4. m = buff.held + d
    BY <1>2, <1>5, <1>6, <2>1
  <2>. QED BY <1>2, <1>4, <2>2, <2>3, <2>4
<1>8. buff' = [from |-> buff.from, held |-> m, head |-> buff.head]
  BY <1>0, <1>1, <1>6 DEF BuffOK
<1>9. CASE m = bytes
  <2>1. Received(TRUE, BuffType, m)
    BY <1>1, <1>6, <1>7, <1>9, Zenon
  <2>. QED BY <1>1, <1>3, <1>4, <1>5, <1>7, <1>8, <1>9, <2>1, MoreReceives, Zenon
<1>10. CASE m # bytes
  <2>1. UNCHANGED <<sent, arrived, closed, whole, wsc, reply, got, at>>
    BY <1>1, <1>6, <1>7, <1>10, Zenon
  <2>2. m < DePackage(buff.head, buff.held)
    BY <1>2, <1>3, <1>7, <1>10
  <2>. QED BY <1>1, <1>5, <1>7, <1>8, <2>1, <2>2, MoreWaits, Zenon
<1>. QED BY <1>9, <1>10

-----------------------------------------------------------------------------
LEMMA StutterKeeps == IInv /\ UNCHANGED vars => IInv'
<1>. SUFFICES ASSUME IInv, UNCHANGED vars PROVE IInv'
  OBVIOUS
<1>0. TypeOK /\ Stream /\ BuffOK /\ Waiting /\ WholeSoFar /\ HandshakeAnswered
  BY Zenon DEF IInv
<1>1. /\ sent' = sent /\ arrived' = arrived /\ closed' = closed /\ reply' = reply
      /\ taken' = taken /\ at' = at /\ buff' = buff /\ wsc' = wsc /\ got' = got
      /\ whole' = whole /\ \A k : Start(k)' = Start(k)
  BY StreamSame DEF vars
<1>2. UNCHANGED <<sent, arrived, closed>> /\ (reply' # reply => sent # <<>>)
  BY <1>1, Zenon
<1>3. TypeOK' /\ BuffOK' /\ Waiting'
  BY <1>0, <1>1, Zenon DEF TypeOK, BuffOK, Waiting
<1>4. Stream'
  BY <1>0, <1>2, StreamServed, Zenon
<1>5. WholeSoFar'
  BY <1>0, <1>1 DEF WholeSoFar, InHand, InOrder
<1>6. HandshakeAnswered'
  BY <1>0, <1>1 DEF HandshakeAnswered
<1>. QED BY <1>3, <1>4, <1>5, <1>6, Zenon DEF IInv

LEMMA NextKeeps == IInv /\ [Next]_vars => IInv'
<1>1. IInv /\ Next => IInv'
  BY HelloKeeps, SendKeeps, ArriveKeeps, CloseKeeps, RecvHeadKeeps, RecvRestKeeps, NoRestKeeps,
     DropKeeps, DropEndsKeeps, RecvMoreKeeps, GiveUpKeeps, Zenon DEF Next, Server
<1>. QED BY <1>1, StutterKeeps, Zenon

LEMMA Invariance == Spec => []IInv
BY InitHolds, NextKeeps, PTL DEF Spec

(* What is received is what was sent, package by package, whatever lengths *)
(* the packages have and wherever the network cuts the stream, as long as  *)
(* no receive begins with less than a header, with more than a package or  *)
(* with one too large (WebCom.c:1214, 1238-1301).                          *)
THEOREM ReceivedInOrder == Spec => []InOrder
<1>1. IInv => InOrder
  BY Zenon DEF IInv, WholeSoFar, InOrder
<1>. QED BY <1>1, Invariance, PTL

(* No header, of a package or read in the middle of one, makes the server  *)
(* put more into its buffer than fits, or wait for more (WebCom.c:1238).   *)
THEOREM RoomInBuffer == Spec => []BufferHolds
<1>1. IInv => BufferHolds
  <2>. SUFFICES ASSUME IInv PROVE BufferHolds
    OBVIOUS
  <2>1. buff.held <= Size /\ buff.held \in Nat /\ Size \in Nat
        /\ (at = "more" => DePackage(buff.head, buff.held) \in (buff.held + 1)..Size)
    BY Sizes, Parts, Zenon DEF IInv, BuffOK, Waiting
  <2>. QED BY <2>1 DEF BufferHolds, Missing
<1>. QED BY <1>1, Invariance, PTL

(* A handshake that comes whole is answered with the right key, and nobody *)
(* is logged in without one (WebServer.c:61-75).                           *)
THEOREM HandshakeRight == Spec => []HandshakeAnswered
<1>1. IInv => HandshakeAnswered
  BY Zenon DEF IInv
<1>. QED BY <1>1, Invariance, PTL

(* Every variable stays of its type (WebServer.c:45-106,                   *)
(* WebCom.c:1204-1337).                                                    *)
THEOREM TypeCorrect == Spec => []TypeOK
<1>1. IInv => TypeOK
  BY Zenon DEF IInv
<1>. QED BY <1>1, Invariance, PTL
=============================================================================
