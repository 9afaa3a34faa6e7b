--------------------------- MODULE CanLinkProofs ---------------------------
(***************************************************************************)
(* The reassembly for messages of any number of frames and any look-alikes.*)
(* The bounds of BufferInv squeeze the places of the stored frames: when   *)
(* the buffer fills they leave each frame one place, its own.              *)
(***************************************************************************)
EXTENDS CanLink, TLAPS

(* As long as no header was missed, what is stored after the first frame   *)
(* of a message is of this message, in order: the i-th frame stored is the *)
(* i-th at the earliest, and leaves room for those stored after it.        *)
BufferInv ==
  ~headerLost /\ place > 1 =>
    \A i \in 1..Len(recvbuf) :
      /\ recvbuf[i][1] = message
      /\ i <= recvbuf[i][2]
      /\ recvbuf[i][2] + (Len(recvbuf) - i) <= place - 1

(* No frame of the message being sent looks like a header. *)
Plain == \A k \in 2..N : <<message, k>> \notin Alike

(* After the header of a plain message, all that was sent of it is stored. *)
CompleteInv ==
  intact /\ place > 1 /\ Plain =>
    /\ Len(recvbuf) = place - 1
    /\ \A i \in 1..(place - 1) : recvbuf[i] = <<message, i>>

Inv == TypeOK /\ BufferInv /\ CompleteInv

-----------------------------------------------------------------------------
(* What is in a sequence after one more element. *)
LEMMA AppendAt ==
  ASSUME NEW S, NEW s \in Seq(S), NEW e \in S
  PROVE  /\ Append(s, e) \in Seq(S)
         /\ Len(s) \in Nat
         /\ Len(Append(s, e)) = Len(s) + 1
         /\ \A i \in 1..Len(s) : Append(s, e)[i] = s[i] /\ s[i] \in S
         /\ Append(s, e)[Len(s) + 1] = e
OBVIOUS

(* What a frame makes of the buffer. *)
LEMMA StoredType ==
  ASSUME TypeOK
  PROVE  LET f == <<message, place>>
             b == Stored(f)
         IN /\ f \in Frame
            /\ b \in Seq(Frame)
            /\ Len(b) \in 1..N
            /\ Len(b) = N => ~IsHeader(f) /\ Len(recvbuf) = N - 1
<1>. DEFINE f == <<message, place>>
            b == Stored(f)
<1>1. f \in Frame
  BY DEF TypeOK, Frame
<1>2. CASE IsHeader(f)
  BY <1>1, <1>2, CanLinkAssumption DEF Stored
<1>3. CASE ~IsHeader(f)
  <2>1. b = Append(recvbuf, f)
    BY <1>3 DEF Stored
  <2>2. b \in Seq(Frame) /\ Len(b) = Len(recvbuf) + 1
    <3>. HIDE DEF f
    <3>. QED BY <1>1, <2>1 DEF TypeOK
  <2>. QED BY <1>1, <1>3, <2>2, CanLinkAssumption DEF TypeOK
<1>. QED BY <1>2, <1>3

(* The train is in the next place of its message or the first of the next. *)
LEMMA AdvanceType ==
  ASSUME TypeOK, Advance
  PROVE  message' \in Nat /\ place' \in 1..N
BY CanLinkAssumption DEF TypeOK, Advance

(* A full buffer gives the record of one message, or none, or a mixture.   *)
LEMMA UnpackedType ==
  ASSUME NEW b \in Seq(Frame), Len(b) = N, TypeOK
  PROVE  Unpacked(b) \subseteq Nat \cup {Empty, Mixed}
<1>1. b[1] \in Frame
  BY CanLinkAssumption
<1>2. b[1][1] \in Nat
  BY <1>1 DEF Frame
<1>. QED BY <1>2 DEF Unpacked, TypeOK

(* Every step keeps the types. *)
LEMMA TypeStep == TypeOK /\ [Next]_vars => TypeOK'
<1>. SUFFICES ASSUME TypeOK, [Next]_vars PROVE TypeOK'
  OBVIOUS
<1>1. CASE Receive
  <2>. DEFINE f == <<message, place>>
              b == Stored(f)
  <2>1. b \in Seq(Frame) /\ Len(b) \in 1..N
    BY StoredType
  <2>2. recvbuf' \in Seq(Frame) /\ Len(recvbuf') < N
    <3>1. recvbuf' = IF Len(b) = N THEN <<>> ELSE b
      BY <1>1 DEF Receive
    <3>. HIDE DEF b
    <3>. QED BY <2>1, <3>1, CanLinkAssumption
  <2>3. record' \in Nat \cup {Empty, Mixed}
    BY <1>1, <2>1, UnpackedType DEF Receive, TypeOK
  <2>4. intact' \in BOOLEAN /\ headerLost' \in BOOLEAN
    BY <1>1 DEF Receive
  <2>5. message' \in Nat /\ place' \in 1..N
    BY <1>1, AdvanceType DEF Receive
  <2>. QED BY <2>2, <2>3, <2>4, <2>5 DEF TypeOK
<1>2. CASE Lose
  <2>1. message' \in Nat /\ place' \in 1..N
    BY <1>2, AdvanceType DEF Lose
  <2>2. intact' \in BOOLEAN /\ headerLost' \in BOOLEAN
    BY <1>2 DEF Lose
  <2>. QED BY <1>2, <2>1, <2>2 DEF Lose, TypeOK
<1>3. CASE ReadFails
  BY <1>3 DEF ReadFails, TypeOK
<1>4. CASE UNCHANGED vars
  BY <1>4 DEF vars, TypeOK
<1>. QED BY <1>1, <1>2, <1>3, <1>4 DEF Next

(* Every step keeps the order of the stored frames. *)
LEMMA BufferStep == TypeOK /\ TypeOK' /\ BufferInv /\ [Next]_vars => BufferInv'
<1>. SUFFICES ASSUME TypeOK, TypeOK', BufferInv, [Next]_vars,
                     ~headerLost', place' > 1
              PROVE  \A i \in 1..Len(recvbuf') :
                       /\ recvbuf'[i][1] = message'
                       /\ i <= recvbuf'[i][2]
                       /\ recvbuf'[i][2] + (Len(recvbuf') - i) <= place' - 1
  BY DEF BufferInv
<1>1. CASE Receive
  <2>. DEFINE f == <<message, place>>
              b == Stored(f)
  <2>1. place' = place + 1 /\ message' = message
    BY <1>1, CanLinkAssumption DEF Receive, Advance, TypeOK
  <2>2. CASE Len(b) = N
    BY <1>1, <2>2 DEF Receive
  <2>3. CASE Len(b) # N /\ IsHeader(f)
    <3>1. recvbuf' = <<f>>
      BY <1>1, <2>3 DEF Receive, Stored
    <3>. QED BY <2>1, <3>1 DEF TypeOK
  <2>4. CASE Len(b) # N /\ ~IsHeader(f)
    <3>1. recvbuf' = Append(recvbuf, f)
      BY <1>1, <2>4 DEF Receive, Stored
    <3>2. ~headerLost /\ place > 1
      BY <1>1, <2>4 DEF Receive, IsHeader, TypeOK
    <3>3. /\ Len(recvbuf') = Len(recvbuf) + 1
          /\ \A i \in 1..Len(recvbuf) : recvbuf'[i] = recvbuf[i]
          /\ recvbuf'[Len(recvbuf) + 1] = f
      BY <3>1 DEF TypeOK
    <3>4. Len(recvbuf) <= place - 1
      <4>1. CASE Len(recvbuf) = 0
        BY <3>2, <4>1 DEF TypeOK
      <4>2. CASE Len(recvbuf) > 0
        <5>1. /\ 1 \in 1..Len(recvbuf)
              /\ recvbuf[1] \in Frame
          BY <4>2 DEF TypeOK
        <5>2. recvbuf[1][2] \in Nat
          BY <5>1 DEF Frame
        <5>3. /\ 1 <= recvbuf[1][2]
              /\ recvbuf[1][2] + (Len(recvbuf) - 1) <= place - 1
          BY <3>2, <5>1 DEF BufferInv
        <5>. QED BY <5>2, <5>3 DEF TypeOK
      <4>. QED BY <4>1, <4>2 DEF TypeOK
    <3>5. ASSUME NEW i \in 1..Len(recvbuf)
          PROVE  /\ recvbuf'[i][1] = message'
                 /\ i <= recvbuf'[i][2]
                 /\ recvbuf'[i][2] + (Len(recvbuf') - i) <= place' - 1
      <4>1. recvbuf[i] \in Frame
        BY DEF TypeOK
      <4>2. recvbuf[i][2] \in Nat
        BY <4>1 DEF Frame
      <4>3. /\ recvbuf[i][1] = message
            /\ i <= recvbuf[i][2]
            /\ recvbuf[i][2] + (Len(recvbuf) - i) <= place - 1
        BY <3>2 DEF BufferInv
      <4>. QED BY <2>1, <3>3, <4>2, <4>3 DEF TypeOK
    <3>6. /\ f[1] = message'
          /\ Len(recvbuf) + 1 <= f[2]
          /\ f[2] <= place' - 1
      BY <2>1, <3>4 DEF TypeOK
    <3>7. ASSUME NEW i \in 1..Len(recvbuf')
          PROVE  i \in 1..Len(recvbuf) \/ i = Len(recvbuf) + 1
      BY <3>3 DEF TypeOK
    <3>8. ASSUME NEW i \in 1..Len(recvbuf'), i = Len(recvbuf) + 1
          PROVE  /\ recvbuf'[i][1] = message'
                 /\ i <= recvbuf'[i][2]
                 /\ recvbuf'[i][2] + (Len(recvbuf') - i) <= place' - 1
      <4>1. recvbuf'[i] = f /\ Len(recvbuf') - i = 0
        BY <3>3, <3>8 DEF TypeOK
      <4>2. f[2] = place
        OBVIOUS
      <4>3. Len(recvbuf) \in Nat /\ place \in Nat /\ place' \in Nat
        BY DEF TypeOK
      <4>4. recvbuf'[i][1] = message'
        BY <3>6, <4>1
      <4>5. i <= recvbuf'[i][2]
        BY <3>6, <3>8, <4>1
      <4>6. recvbuf'[i][2] + (Len(recvbuf') - i) <= place' - 1
        <5>1. recvbuf'[i][2] = place
          BY <4>1
        <5>2. Len(recvbuf') - i = 0
          BY <4>1
        <5>3. place + 0 <= place' - 1
          BY <2>1, <4>3
        <5>. HIDE DEF f
        <5>. QED BY <5>1, <5>2, <5>3
      <4>. QED BY <4>4, <4>5, <4>6
    <3>. QED BY <3>5, <3>7, <3>8
  <2>. QED BY <2>2, <2>3, <2>4
<1>2. CASE Lose
  <2>1. /\ place' = place + 1 /\ message' = message
        /\ ~headerLost /\ place > 1
        /\ UNCHANGED recvbuf
    <3>1. ~headerLost /\ place # 1 /\ UNCHANGED recvbuf
      BY <1>2 DEF Lose, TypeOK
    <3>2. place' = place + 1 /\ message' = message
      BY <1>2 DEF Lose, Advance
    <3>. QED BY <3>1, <3>2 DEF TypeOK
  <2>2. ASSUME NEW i \in 1..Len(recvbuf)
        PROVE  /\ recvbuf[i][1] = message
               /\ i <= recvbuf[i][2]
               /\ recvbuf[i][2] + (Len(recvbuf) - i) <= place
    <3>1. recvbuf[i] \in Frame
      BY DEF TypeOK
    <3>2. recvbuf[i][2] \in Nat
      BY <3>1 DEF Frame
    <3>. QED BY <2>1, <3>2 DEF BufferInv, TypeOK
  <2>. QED BY <2>1, <2>2 DEF TypeOK
<1>3. CASE ReadFails \/ UNCHANGED vars
  BY <1>3 DEF ReadFails, vars, BufferInv
<1>. QED BY <1>1, <1>2, <1>3 DEF Next

(* Every step keeps what is complete complete. *)
LEMMA CompleteStep ==
  TypeOK /\ TypeOK' /\ CompleteInv /\ [Next]_vars => CompleteInv'
<1>. SUFFICES ASSUME TypeOK, TypeOK', CompleteInv, [Next]_vars,
                     intact', place' > 1, Plain'
              PROVE  /\ Len(recvbuf') = place' - 1
                     /\ \A i \in 1..(place' - 1) : recvbuf'[i] = <<message', i>>
  BY DEF CompleteInv
<1>1. CASE Receive
  <2>. DEFINE f == <<message, place>>
              b == Stored(f)
  <2>1. place' = place + 1 /\ message' = message /\ place < N
    BY <1>1, CanLinkAssumption DEF Receive, Advance, TypeOK
  <2>2. intact /\ Plain
    BY <1>1, <2>1 DEF Receive, Plain, TypeOK
  <2>3. CASE place = 1
    <3>1. b = <<f>>
      BY <2>3 DEF Stored, IsHeader
    <3>2. recvbuf' = <<f>>
      BY <1>1, <3>1, CanLinkAssumption DEF Receive
    <3>. QED BY <2>1, <2>3, <3>2
  <2>4. CASE place > 1
    <3>1. b = Append(recvbuf, f)
      BY <2>1, <2>2, <2>4 DEF Stored, IsHeader, Plain, TypeOK
    <3>2. /\ Len(recvbuf) = place - 1
          /\ \A i \in 1..(place - 1) : recvbuf[i] = <<message, i>>
      BY <2>2, <2>4 DEF CompleteInv
    <3>3. Len(b) = place
      BY <3>1, <3>2 DEF TypeOK
    <3>4. recvbuf' = Append(recvbuf, f)
      <4>1. Len(b) # N
        BY <2>1, <3>3 DEF TypeOK
      <4>2. recvbuf' = b
        BY <1>1, <4>1 DEF Receive
      <4>. QED BY <3>1, <4>2
    <3>5. ASSUME NEW i \in 1..place PROVE recvbuf'[i] = <<message, i>>
      <4>1. CASE i = place
        BY <3>2, <3>4, <4>1 DEF TypeOK
      <4>2. CASE i # place
        <5>1. i \in 1..(place - 1)
          BY <4>2 DEF TypeOK
        <5>. QED BY <3>2, <3>4, <5>1 DEF TypeOK
      <4>. QED BY <4>1, <4>2
    <3>6. Len(recvbuf') = place
      BY <3>2, <3>4 DEF TypeOK
    <3>. QED BY <2>1, <3>5, <3>6 DEF TypeOK
  <2>5. place = 1 \/ place > 1
    BY DEF TypeOK
  <2>. QED BY <2>3, <2>4, <2>5
<1>2. CASE Lose
  <2>1. place = N
    BY <1>2 DEF Lose
  <2>2. place' = 1
    BY <1>2, <2>1 DEF Lose, Advance
  <2>. QED BY <2>2
<1>3. CASE ReadFails \/ UNCHANGED vars
  BY <1>3 DEF ReadFails, vars, CompleteInv, Plain
<1>. QED BY <1>1, <1>2, <1>3 DEF Next

(* The inductive invariant holds in every reachable state. *)
LEMMA InvCorrect == Spec => []Inv
<1>1. ASSUME Init PROVE Inv
  <2>1. TypeOK
    <3>1. recvbuf \in Seq(Frame) /\ Len(recvbuf) = 0
      BY <1>1 DEF Init
    <3>2. intact \in BOOLEAN /\ headerLost \in BOOLEAN
      BY <1>1, Zenon DEF Init
    <3>. QED BY <1>1, <3>1, <3>2, CanLinkAssumption DEF Init, TypeOK
  <2>2. BufferInv
    BY <1>1 DEF Init, BufferInv
  <2>3. CompleteInv
    <3>1. intact => place = 1
      BY <1>1 DEF Init
    <3>. QED BY <3>1 DEF CompleteInv
  <2>. QED BY <2>1, <2>2, <2>3 DEF Inv
<1>2. Inv /\ [Next]_vars => Inv'
  BY TypeStep, BufferStep, CompleteStep DEF Inv
<1>. QED BY <1>1, <1>2, PTL DEF Spec

-----------------------------------------------------------------------------
(* Theorems *)

(* The buffer never holds 19 frames when the next is stored, so that the   *)
(* copy stays in its first 152 bytes.                                      *)
THEOREM TypeCorrect == Spec => []TypeOK
<1>1. Inv => TypeOK
  BY DEF Inv
<1>. QED BY <1>1, InvCorrect, PTL

(* With no header missed, a full buffer is the message whose last frame    *)
(* has just come, whole.                                                   *)
LEMMA FullIsWhole ==
  ASSUME Inv, ~headerLost, Len(Stored(<<message, place>>)) = N
  PROVE  /\ place = N
         /\ Whole(Stored(<<message, place>>))
         /\ Stored(<<message, place>>)[1][1] = message
<1>. DEFINE f == <<message, place>>
            b == Stored(f)
<1>1. ~IsHeader(f) /\ Len(recvbuf) = N - 1
  BY StoredType DEF Inv
<1>2. b = Append(recvbuf, f)
  BY <1>1 DEF Stored
<1>3. place > 1
  BY <1>1 DEF IsHeader, Inv, TypeOK
<1>4. ASSUME NEW i \in 1..(N - 1)
      PROVE  /\ b[i] \in Frame /\ b[i][1] = message
             /\ b[i][2] \in Nat /\ i <= b[i][2]
             /\ b[i][2] + (N - 1 - i) <= place - 1
  <2>1. b[i] = recvbuf[i] /\ recvbuf[i] \in Frame
    <3>1. f \in Frame /\ recvbuf \in Seq(Frame)
      BY StoredType DEF Inv, TypeOK
    <3>. HIDE DEF b, f
    <3>. QED BY <1>1, <1>2, <3>1, AppendAt
  <2>2. recvbuf[i][2] \in Nat
    BY <2>1 DEF Frame
  <2>. QED BY <1>1, <1>3, <2>1, <2>2 DEF Inv, BufferInv
<1>5. place = N
  <2>1. 1 \in 1..(N - 1)
    BY CanLinkAssumption
  <2>2. b[1][2] \in Nat /\ 1 <= b[1][2] /\ b[1][2] + (N - 1 - 1) <= place - 1
    BY <1>4, <2>1
  <2>. HIDE DEF b
  <2>. QED BY <2>2, CanLinkAssumption DEF Inv, TypeOK
<1>6. ASSUME NEW i \in 1..(N - 1) PROVE b[i] = <<message, i>>
  <2>1. b[i][2] = i
    <3>1. b[i][2] \in Nat /\ i <= b[i][2] /\ b[i][2] + (N - 1 - i) <= N - 1
      BY <1>4, <1>5
    <3>. HIDE DEF b
    <3>. QED BY <3>1, CanLinkAssumption
  <2>2. b[i] \in Frame /\ b[i][1] = message
    BY <1>4
  <2>. HIDE DEF b
  <2>. QED BY <2>1, <2>2 DEF Frame
<1>7. b[N] = <<message, N>>
  <2>1. f \in Frame /\ recvbuf \in Seq(Frame) /\ f = <<message, N>>
    BY <1>5, StoredType DEF Inv, TypeOK
  <2>2. N = Len(recvbuf) + 1
    BY <1>1, CanLinkAssumption
  <2>3. b[N] = f
    <3>. HIDE DEF b, f
    <3>. QED BY <1>2, <2>1, <2>2, AppendAt
  <2>. QED BY <2>1, <2>3
<1>8. ASSUME NEW i \in 1..N PROVE b[i] = <<message, i>>
  BY <1>6, <1>7, CanLinkAssumption
<1>9. 1 \in 1..N
  BY CanLinkAssumption
<1>. HIDE DEF b
<1>. QED BY <1>5, <1>8, <1>9 DEF Whole, b

(* What fills the buffer is the frame that has just come: if it is whole,  *)
(* this is the last of its message.                                        *)
LEMMA WholeIsNow ==
  ASSUME TypeOK, Len(Stored(<<message, place>>)) = N,
         Whole(Stored(<<message, place>>))
  PROVE  place = N /\ Stored(<<message, place>>)[1][1] = message
<1>. DEFINE f == <<message, place>>
            b == Stored(f)
<1>1. f \in Frame /\ recvbuf \in Seq(Frame)
  BY StoredType DEF TypeOK
<1>2. ~IsHeader(f) /\ Len(recvbuf) = N - 1
  BY StoredType
<1>3. b[N] = f
  <2>1. b = Append(recvbuf, f) /\ N = Len(recvbuf) + 1
    BY <1>2, CanLinkAssumption DEF Stored
  <2>. HIDE DEF b, f
  <2>. QED BY <1>1, <2>1, AppendAt
<1>4. b[N] = <<b[1][1], N>>
  BY CanLinkAssumption DEF Whole
<1>. QED BY <1>3, <1>4

(* The count of 19 joins two messages only after a header was missed.      *)
THEOREM MixtureNeedsLostHeader == Spec => NoMixture
<1>1. Inv /\ [Next]_vars
        => [record # Mixed /\ record' = Mixed => headerLost]_vars
  <2>. SUFFICES ASSUME Inv, Next, record # Mixed, record' = Mixed, ~headerLost
                PROVE  FALSE
    OBVIOUS
  <2>. DEFINE b == Stored(<<message, place>>)
  <2>1. Receive /\ Len(b) = N /\ Mixed \in Unpacked(b)
    BY CanLinkAssumption DEF Next, Receive, Lose, ReadFails
  <2>2. Whole(b) /\ b[1][1] = message
    BY <2>1, FullIsWhole
  <2>. QED BY <2>1, <2>2, CanLinkAssumption DEF Unpacked, Inv, TypeOK
<1>. QED BY <1>1, InvCorrect, PTL DEF Spec, NoMixture

(* A message of which every frame arrives is taken, whatever came before.  *)
THEOREM CompleteTaken == Spec => CompleteIsTaken
<1>1. Inv /\ [Next]_vars
        => [/\ Receive
            /\ place = N
            /\ intact
            /\ \A k \in 2..N : <<message, k>> \notin Alike
            => record' = message]_vars
  <2>. SUFFICES ASSUME Inv, Receive, place = N, intact, Plain
                PROVE  record' = message
    BY DEF Plain
  <2>. DEFINE f == <<message, place>>
              b == Stored(f)
  <2>1. /\ Len(recvbuf) = N - 1
        /\ \A i \in 1..(N - 1) : recvbuf[i] = <<message, i>>
    BY CanLinkAssumption DEF Inv, CompleteInv
  <2>2. b = Append(recvbuf, f)
    BY CanLinkAssumption DEF Stored, IsHeader, Plain
  <2>3. Len(b) = N
    BY <2>1, <2>2, CanLinkAssumption DEF Inv, TypeOK
  <2>4. ASSUME NEW i \in 1..N PROVE b[i] = <<message, i>>
    <3>1. f \in Frame /\ recvbuf \in Seq(Frame) /\ f = <<message, N>>
      BY StoredType DEF Inv, TypeOK
    <3>2. CASE i = N
      <4>1. b[N] = f
        <5>1. N = Len(recvbuf) + 1
          BY <2>1, CanLinkAssumption
        <5>. HIDE DEF b, f
        <5>. QED BY <2>2, <3>1, <5>1, AppendAt
      <4>. QED BY <3>1, <3>2, <4>1
    <3>3. CASE i # N
      <4>1. i \in 1..(N - 1)
        BY <3>3, CanLinkAssumption
      <4>2. b[i] = recvbuf[i]
        <5>. HIDE DEF b, f
        <5>. QED BY <2>1, <2>2, <3>1, <4>1, AppendAt
      <4>. QED BY <2>1, <4>1, <4>2
    <3>. QED BY <3>2, <3>3
  <2>5. b[1] = <<message, 1>>
    BY <2>4, CanLinkAssumption
  <2>6. Unpacked(b) = {message}
    BY <2>4, <2>5 DEF Unpacked, Whole
  <2>. QED BY <2>3, <2>6 DEF Receive
<1>. QED BY <1>1, InvCorrect, PTL DEF Spec, CompleteIsTaken

(* The link implements Telegrams, whatever is lost and looks like a header.*)
THEOREM ImplementsTelegrams == Spec => IsTelegrams
<1>1. Init => Link!Init
  BY DEF Init, Link!Init
<1>2. Inv /\ [Next]_vars => [Link!Next]_(Link!vars)
  <2>. SUFFICES ASSUME Inv, [Next]_vars
                PROVE  Link!Next \/ UNCHANGED <<message, record, headerLost>>
    BY DEF Link!vars
  <2>. DEFINE b == Stored(<<message, place>>)
  <2>1. CASE Receive
    <3>1. message' \in {message, message + 1}
      BY <2>1 DEF Receive, Advance
    <3>2. CASE Len(b) = N /\ ~headerLost
      <4>1. place = N /\ Whole(b) /\ b[1][1] = message
        BY <3>2, FullIsWhole
      <4>2. record' = message /\ headerLost' = FALSE
        BY <2>1, <3>2, <4>1 DEF Receive, Unpacked
      <4>3. message' = message + 1
        BY <2>1, <4>1 DEF Receive, Advance
      <4>. QED BY <4>2, <4>3 DEF Link!Next, Link!Deliver
    <3>3. CASE Len(b) = N /\ headerLost
      <4>1. headerLost' = FALSE /\ record' \in Unpacked(b)
        BY <2>1, <3>3 DEF Receive
      <4>2. CASE Whole(b)
        <5>1. place = N /\ b[1][1] = message
          BY <3>3, <4>2, WholeIsNow DEF Inv
        <5>2. record' = message
          BY <4>1, <4>2, <5>1 DEF Unpacked
        <5>3. message' = message + 1
          BY <2>1, <5>1 DEF Receive, Advance
        <5>. QED BY <4>1, <5>2, <5>3 DEF Link!Next, Link!Deliver
      <4>3. CASE ~Whole(b)
        <5>1. record' \in {record, Empty, Mixed}
          BY <4>1, <4>3 DEF Unpacked
        <5>. QED BY <3>1, <3>3, <4>1, <5>1 DEF Link!Next, Link!Recover
      <4>. QED BY <4>2, <4>3
    <3>4. CASE Len(b) # N
      <4>1. UNCHANGED record /\ headerLost' \in {headerLost, FALSE}
        BY <2>1, <3>4 DEF Receive, Inv, TypeOK
      <4>2. CASE UNCHANGED headerLost
        BY <3>1, <4>1, <4>2 DEF Link!Next, Link!Miss
      <4>3. CASE headerLost /\ headerLost' = FALSE
        BY <3>1, <4>1, <4>3 DEF Link!Next, Link!Recover
      <4>. QED BY <4>1, <4>2, <4>3 DEF Inv, TypeOK
    <3>. QED BY <3>2, <3>3, <3>4
  <2>2. CASE Lose
    <3>1. CASE place = 1
      <4>1. UNCHANGED <<message, record>> /\ headerLost' = TRUE
        BY <2>2, <3>1, CanLinkAssumption DEF Lose, Advance
      <4>. QED BY <4>1 DEF Link!Next, Link!Break
    <3>2. CASE place # 1
      <4>1. UNCHANGED <<record, headerLost>>
        BY <2>2, <3>2 DEF Lose, Inv, TypeOK
      <4>2. message' \in {message, message + 1}
        BY <2>2 DEF Lose, Advance
      <4>. QED BY <4>1, <4>2 DEF Link!Next, Link!Miss
    <3>. QED BY <3>1, <3>2
  <2>3. CASE ReadFails
    BY <2>3 DEF ReadFails, Link!Next, Link!Forget
  <2>4. CASE UNCHANGED vars
    BY <2>4 DEF vars
  <2>. QED BY <2>1, <2>2, <2>3, <2>4 DEF Next
<1>. QED BY <1>1, <1>2, InvCorrect, PTL DEF Spec, IsTelegrams, Link!Spec

=============================================================================
