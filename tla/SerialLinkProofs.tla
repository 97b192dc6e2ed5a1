--------------------------- MODULE SerialLinkProofs ---------------------------
(***************************************************************************)
(* For every packet size and every size of the rings: answers reach the Pi *)
(* whole; each of them costs so many bytes of what the Pi sends, no more;  *)
(* the packets are carried out in order until a byte is lost, and are cut  *)
(* at the wrong places ever after; and a Pi that waits for each answer     *)
(* loses none, if the ring takes two bytes.                                *)
(*                                                                         *)
(* What assemble() does with the bytes of the ring is taken from           *)
(* AssembleProofs twice: as long as nothing was lost, a read of the ring is*)
(* the Feed of that module; and after losses it still is one, of the bytes *)
(* that were received.                                                     *)
(***************************************************************************)
EXTENDS SerialLink, FiniteSetTheorems, SequenceTheorems, TLAPS

\* The bytes that have left the ring, and those of the packets completed.
consumed == out - Len(rx)
cut == Len(verdicts) * P

B == INSTANCE AssembleProofs WITH
         ReadMax <- RxSize, MaxFed <- MaxPackets * P, fed <- consumed, base <- cut

Kinds == {"HELLO", "COMMAND"}
Verdicts == {"PACKET_OK", "PACKET_BAD", "PACKET_CHECKSUM_BAD"}

\* The counters of assemble(), whatever the bytes.
StaticShape ==
    /\ leftoverFlag \in BOOLEAN
    /\ leftoverFlag => counter = 0
    /\ leftoverCount > 0 => leftoverFlag

\* What holds with and without losses.
Shapes ==
    /\ kinds \in Seq(Kinds) /\ rx \in Seq(Nat) /\ verdicts \in Seq(Verdicts)
    /\ answered \in Nat
    /\ StaticShape
    /\ pc = "send" <=> toSend > 0
    /\ ~due => rx = << >>

\* The commands among the first n packets.
CommandsAmong(n) == Cardinality({i \in 1 .. n : kinds[i] = "COMMAND"})

\* Until a byte is lost, the ring holds the stream from the last byte read on,
\* and each packet has the verdict and the answer it should have.
InOrder ==
    lost = {} =>
        /\ B!IInv
        /\ \A i \in 1 .. Len(rx) : rx[i] = consumed + i
        /\ executed \in Seq(Nat) /\ Len(executed) = Len(verdicts)
        /\ InOrderUntilLoss
        /\ answered = CommandsAmong(Len(verdicts))

\* The packets that are not cut yet and have left the Pi whole are not answered.
OnlyHellosWait == \A i \in Len(verdicts) + 1 .. sent - 1 : kinds[i] = "HELLO"

\* When each packet waits, nothing is on its way to the Pi while bytes come, and
\* the loop reads each byte before the next but one.
Paced ==
    ~rushed =>
        /\ lost = {}
        /\ out < sent * P => tx = 0 /\ toSend = 0 /\ OnlyHellosWait
        /\ pc = "send" => rx = << >>
        /\ pc \in {"rest", "idle", "asleep"} => Len(rx) <= 1


-----------------------------------------------------------------------------
LEMMA Sizes ==
    /\ P \in Nat /\ P >= 1
    /\ RxSize \in Nat /\ RxSize >= 1 /\ RxSize <= P
    /\ TxSize \in Nat /\ TxSize >= 1
    /\ MaxPackets \in Nat
    /\ Magic \in Nat /\ Magic >= 1 /\ Magic <= P /\ Pad \in Nat /\ P - Pad <= P
BY SerialLinkAssumption DEF SerialLinkAssumption

\* What AssembleProofs assumes of its parameters.
LEMMA Receives == B!AssembleAssumption
BY SerialLinkAssumption DEF SerialLinkAssumption, B!AssembleAssumption

\* The arithmetic of whole packets.
LEMMA OneMorePacket == \A n \in Nat : n * P \in Nat /\ (n + 1) * P = n * P + P
BY Sizes

LEMMA PacketsInOrder ==
    ASSUME NEW m \in Nat, NEW n \in Nat
    PROVE  /\ m * P <= n * P => m <= n
           /\ m <= n => m * P <= n * P
<1>1. ASSUME m <= n PROVE m * P <= n * P
  <2>1. PICK d \in Nat : n = m + d
    <3>1. n - m \in Nat /\ n = m + (n - m)
      BY <1>1
    <3>2. QED
      BY <3>1
  <2>2. (m + d) * P = m * P + d * P
    BY Sizes
  <2>3. d * P \in Nat /\ m * P \in Nat
    BY Sizes
  <2>4. QED
    BY <2>1, <2>2, <2>3
<1>2. ASSUME n < m PROVE n * P < m * P
  <2>1. PICK d \in Nat : m = n + d + 1
    <3>1. m - n - 1 \in Nat /\ m = n + (m - n - 1) + 1
      BY <1>2
    <3>2. QED
      BY <3>1
  <2>2. (n + d + 1) * P = n * P + d * P + P
    BY Sizes
  <2>3. d * P \in Nat /\ n * P \in Nat
    BY Sizes
  <2>4. QED
    BY <2>1, <2>2, <2>3, Sizes
<1>3. m * P \in Nat /\ n * P \in Nat
  BY Sizes
<1>4. QED
  BY <1>1, <1>2, <1>3

-----------------------------------------------------------------------------
(* Whatever bytes arrive, assemble() keeps its counters in range.           *)
LEMMA AssembleKeepsShape ==
    ASSUME counter \in 0 .. P - 1, leftoverCount \in 0 .. P - 1, StaticShape,
           NEW input, NEW len \in 1 .. P, Len(input) = len, A!assemble(input)
    PROVE  /\ counter' \in 0 .. P - 1 /\ leftoverCount' \in 0 .. P - 1
           /\ StaticShape'
           /\ result' \in {"PACKET_COMPLETE", "PACKET_INCOMPLETE"}
<1>1. /\ A!start \in 0 .. P - 1 /\ A!kept = 0 /\ A!copyCount = leftoverCount
      /\ ~(leftoverFlag /\ leftoverCount > P)
  <2>1. ~(leftoverFlag /\ leftoverCount > P)
    BY Sizes
  <2>2. CASE leftoverFlag
    BY <2>2, Sizes DEF StaticShape, A!start, A!kept, A!copyCount
  <2>3. CASE ~leftoverFlag
    BY <2>3, Sizes DEF StaticShape, A!start, A!kept, A!copyCount
  <2>4. QED
    BY <2>1, <2>2, <2>3 DEF StaticShape
<1>2. CASE A!Complete(input)
  <2>1. A!start + len >= P
    BY <1>2 DEF A!Complete, A!reachesEnd
  <2>2. A!bytesLeft(Len(input)) = P - A!start
    BY <2>1 DEF A!bytesLeft, A!reachesEnd
  <2>3. leftoverFlag' = TRUE /\ counter' = 0 /\ result' = "PACKET_COMPLETE"
    BY <1>2 DEF A!Complete
  <2>4. leftoverCount' = 0 + len - (P - A!start)
    BY <1>2, <1>1, <2>2 DEF A!Complete
  <2>5. QED
    BY <1>1, <2>1, <2>3, <2>4, Sizes DEF StaticShape
<1>3. CASE A!Incomplete(input)
  <2>1. ~(A!start + len >= P)
    BY <1>3 DEF A!Incomplete, A!reachesEnd
  <2>2. /\ leftoverFlag' = FALSE /\ leftoverCount' = 0
        /\ counter' = A!start + len /\ result' = "PACKET_INCOMPLETE"
    BY <1>3, <1>1 DEF A!Incomplete
  <2>3. counter' \in 0 .. P - 1 /\ leftoverCount' \in 0 .. P - 1
    BY <1>1, <2>1, <2>2, Sizes
  <2>4. ~(leftoverCount' > 0)
    BY <2>2
  <2>5. StaticShape'
    BY <2>2, <2>4 DEF StaticShape
  <2>6. QED
    BY <2>2, <2>3, <2>5
<1>4. QED
  BY <1>2, <1>3 DEF A!assemble

\* A read that completes a packet, and one that does not.
ReadsPacket(v, answers) ==
    /\ result' = "PACKET_COMPLETE"
    /\ v \in verdict(outputBuffer')
    /\ answers \in isAnswered(v, outputBuffer')
    /\ verdicts' = Append(verdicts, v)
    /\ executed' = IF v = "PACKET_OK" THEN Append(executed, contents(outputBuffer'))
                   ELSE executed
    /\ answered' = IF answers THEN answered + 1 ELSE answered
    /\ toSend' = IF answers THEN P ELSE toSend
    /\ pc' = IF answers THEN "send" ELSE "rest"

ReadsPart ==
    /\ result' = "PACKET_INCOMPLETE"
    /\ pc' = "rest"
    /\ UNCHANGED <<verdicts, executed, answered, toSend>>

LEMMA ReadBytesCases ==
    ASSUME TypeOK, Shapes, ReadBytes
    PROVE  /\ moving' \in BOOLEAN
           /\ \/ ReadsPart
              \/ \E v \in Verdicts, answers \in BOOLEAN : ReadsPacket(v, answers)
<1>1. CASE result' = "PACKET_INCOMPLETE" /\ pc' = "rest"
           /\ UNCHANGED <<moving, verdicts, executed, answered, toSend>>
  BY <1>1 DEF ReadsPart, TypeOK
<1>2. CASE /\ result' = "PACKET_COMPLETE"
           /\ \E v \in verdict(outputBuffer') :
                /\ verdicts' = Append(verdicts, v)
                /\ IF v = "PACKET_OK"
                   THEN executed' = Append(executed, contents(outputBuffer'))
                   ELSE UNCHANGED executed
                /\ \E answers \in isAnswered(v, outputBuffer') :
                      /\ IF answers
                         THEN answered' = answered + 1 /\ toSend' = P /\ pc' = "send"
                         ELSE pc' = "rest" /\ UNCHANGED <<answered, toSend>>
                      /\ moving' \in {moving, moving \/ (answers /\ v = "PACKET_OK")}
  <2>1. PICK v \in verdict(outputBuffer') : \E answers \in isAnswered(v, outputBuffer') :
            /\ ReadsPacket(v, answers)
            /\ moving' \in {moving, moving \/ (answers /\ v = "PACKET_OK")}
    BY <1>2 DEF ReadsPacket
  <2>2. PICK answers \in isAnswered(v, outputBuffer') :
            /\ ReadsPacket(v, answers)
            /\ moving' \in {moving, moving \/ (answers /\ v = "PACKET_OK")}
    BY <2>1
  <2>3. v \in Verdicts
    BY DEF verdict, Verdicts
  <2>4. answers \in BOOLEAN
    BY DEF isAnswered
  <2>5. moving' \in BOOLEAN
    BY <2>2, <2>4 DEF TypeOK
  <2>6. QED
    BY <2>2, <2>3, <2>4, <2>5
<1>3. QED
  BY <1>1, <1>2 DEF ReadBytes

-----------------------------------------------------------------------------
(* Types, shapes and whole answers, with and without losses.                *)
EasyInv == TypeOK /\ Shapes /\ AnswersAreWhole

LEMMA EasyInit == Init => EasyInv
<1>1. SUFFICES ASSUME Init PROVE EasyInv
  OBVIOUS
<1>2. << >> \in Seq(Kinds) /\ << >> \in Seq(Nat) /\ << >> \in Seq(Verdicts)
  OBVIOUS
<1>3. Len(kinds) = 0 /\ Len(rx) = 0 /\ Len(verdicts) = 0
  BY <1>1 DEF Init
<1>4. TypeOK
  <2>1. kinds \in Seq({"HELLO", "COMMAND"}) /\ sent <= MaxPackets
    BY <1>1, <1>2, <1>3, Sizes DEF Init, Kinds, sent
  <2>2. out \in 0 .. sent * P /\ lost \subseteq 1 .. out
    BY <1>1, <1>3, Sizes DEF Init, sent
  <2>3. rushed \in BOOLEAN /\ due \in BOOLEAN /\ moving \in BOOLEAN /\ pc = "read"
    BY <1>1 DEF Init
  <2>4. /\ counter = 0 /\ leftoverCount = 0 /\ tx = 0 /\ toSend = 0 /\ heard = 0
        /\ answered = 0
    BY <1>1 DEF Init, A!StaticInit
  <2>5. /\ Len(rx) <= RxSize /\ tx \in 0 .. TxSize /\ counter \in 0 .. P - 1
        /\ leftoverCount \in 0 .. P - 1 /\ toSend \in 0 .. P /\ heard \in Nat
        /\ answered <= Len(verdicts)
    BY <1>3, <2>4, Sizes
  <2>6. QED
    BY <2>1, <2>2, <2>3, <2>5 DEF TypeOK
<1>5. Shapes
  <2>1. leftoverFlag = FALSE /\ counter = 0 /\ leftoverCount = 0 /\ toSend = 0
    BY <1>1 DEF Init, A!StaticInit
  <2>2. ~(leftoverCount > 0) /\ ~(toSend > 0)
    BY <2>1
  <2>3. StaticShape
    BY <2>1, <2>2 DEF StaticShape
  <2>4. /\ kinds \in Seq(Kinds) /\ rx \in Seq(Nat) /\ verdicts \in Seq(Verdicts)
        /\ answered \in Nat /\ rx = << >> /\ pc = "read"
    BY <1>1, <1>2 DEF Init
  <2>5. QED
    BY <2>2, <2>3, <2>4 DEF Shapes
<1>6. AnswersAreWhole
  BY <1>1, Sizes DEF Init, AnswersAreWhole
<1>7. QED
  BY <1>4, <1>5, <1>6 DEF EasyInv

LEMMA EasySend ==
    ASSUME EasyInv, SendPacket
    PROVE  EasyInv' /\ sent' = sent + 1 /\ kinds \in Seq(Kinds)
<1>1. PICK kind \in Kinds : kinds' = Append(kinds, kind)
  BY DEF SendPacket, Kinds
<1>2. kinds \in Seq(Kinds) /\ sent \in Nat
  BY DEF EasyInv, Shapes, sent
<1>3. kinds' \in Seq(Kinds) /\ sent' = sent + 1
  BY <1>1, <1>2 DEF sent
<1>4. TypeOK'
  <2>1. sent' <= MaxPackets /\ rushed' \in BOOLEAN
    BY <1>2, <1>3, Sizes DEF SendPacket, EasyInv, TypeOK
  <2>2. out' \in 0 .. sent' * P
    BY <1>2, <1>3, OneMorePacket, Sizes DEF SendPacket, EasyInv, TypeOK
  <2>3. QED
    BY <1>3, <2>1, <2>2 DEF SendPacket, receiver, statics, EasyInv, TypeOK, Kinds
<1>5. Shapes' /\ AnswersAreWhole'
  BY <1>3 DEF SendPacket, receiver, statics, EasyInv, Shapes, StaticShape, AnswersAreWhole
<1>6. QED
  BY <1>2, <1>3, <1>4, <1>5 DEF EasyInv

LEMMA EasyWire == EasyInv /\ Wire => EasyInv'
<1>1. SUFFICES ASSUME EasyInv, Wire PROVE EasyInv'
  OBVIOUS
<1>2. sent' = sent /\ sent \in Nat /\ sent * P \in Nat /\ out \in Nat /\ rx \in Seq(Nat)
  <2>1. sent' = sent
    BY <1>1 DEF Wire, pi, sent
  <2>2. sent \in Nat /\ rx \in Seq(Nat)
    BY <1>1 DEF EasyInv, Shapes, sent
  <2>3. sent * P \in Nat
    BY <2>2, OneMorePacket
  <2>4. out \in 0 .. sent * P
    BY <1>1 DEF EasyInv, TypeOK
  <2>5. QED
    BY <2>1, <2>2, <2>3, <2>4
<1>3. /\ out' \in 0 .. sent * P /\ lost' \subseteq 1 .. out'
      /\ Len(rx') <= RxSize /\ rx' \in Seq(Nat)
  <2>1. CASE UNCHANGED <<out, rx, lost>>
    BY <1>1, <1>2, <2>1 DEF EasyInv, TypeOK
  <2>2. CASE /\ out < sent * P /\ Len(rx) < RxSize
             /\ out' = out + 1 /\ rx' = Append(rx, out + 1)
             /\ UNCHANGED lost
    <3>1. Len(rx') = Len(rx) + 1 /\ rx' \in Seq(Nat)
      BY <1>2, <2>2
    <3>2. Len(rx) \in Nat
      BY <1>2
    <3>3. 1 .. out \subseteq 1 .. out'
      BY <1>2, <2>2
    <3>4. QED
      BY <1>1, <1>2, <2>2, <3>1, <3>2, <3>3, Sizes DEF EasyInv, TypeOK
  <2>3. CASE /\ out < sent * P /\ Len(rx) >= RxSize
             /\ out' = out + 1 /\ lost' = lost \cup {out + 1}
             /\ UNCHANGED rx
    <3>1. 1 .. out \subseteq 1 .. out' /\ out + 1 \in 1 .. out'
      BY <1>2, <2>3
    <3>2. out' \in 0 .. sent * P /\ Len(rx') <= RxSize /\ rx' \in Seq(Nat)
      BY <1>1, <1>2, <2>3 DEF EasyInv, TypeOK
    <3>3. lost \subseteq 1 .. out
      BY <1>1 DEF EasyInv, TypeOK
    <3>4. lost' \subseteq 1 .. out'
      BY <2>3, <3>1, <3>3
    <3>5. QED
      BY <3>2, <3>4
  <2>4. QED
    BY <1>1, <2>1, <2>2, <2>3 DEF Wire, Arrive
<1>4. tx' \in 0 .. TxSize /\ heard' \in Nat /\ heard' + tx' = heard + tx
  BY <1>1, Sizes DEF Wire, Transmit, EasyInv, TypeOK
<1>5. TypeOK'
  BY <1>1, <1>2, <1>3, <1>4 DEF Wire, pi, receiver, statics, EasyInv, TypeOK
<1>6. Shapes'
  BY <1>1, <1>3 DEF Wire, pi, receiver, statics, EasyInv, TypeOK, Shapes, StaticShape
<1>7. AnswersAreWhole'
  <2>1. heard' + tx' + toSend = heard + tx + toSend
    BY <1>4
  <2>2. QED
    BY <1>1, <2>1 DEF Wire, receiver, EasyInv, AnswersAreWhole
<1>8. QED
  BY <1>5, <1>6, <1>7 DEF EasyInv

\* What ReadNothing, Rest, Sleep and EncoderWakes leave as it is.
NothingRead ==
    UNCHANGED <<pi, out, lost, rx, tx, receiver, toSend, heard>>

LEMMA EasyQuiet ==
    ASSUME EasyInv, NothingRead, moving' \in BOOLEAN, due' \in BOOLEAN, pc # "send",
           pc' \in {"read", "rest", "idle", "asleep"}, ~due' => rx = << >>
    PROVE  EasyInv'
<1>1. TypeOK'
  BY DEF EasyInv, NothingRead, pi, receiver, statics, TypeOK, sent
<1>2. Shapes'
  BY DEF EasyInv, NothingRead, pi, receiver, statics, Shapes, StaticShape
<1>3. AnswersAreWhole'
  BY DEF EasyInv, NothingRead, receiver, AnswersAreWhole
<1>4. QED
  BY <1>1, <1>2, <1>3 DEF EasyInv

\* The four of them.
LEMMA QuietSteps ==
    ASSUME EasyInv, ReadNothing \/ Rest \/ Sleep \/ EncoderWakes
    PROVE  /\ NothingRead /\ moving' \in BOOLEAN /\ due' \in BOOLEAN /\ pc # "send"
           /\ pc' \in {"read", "rest", "idle", "asleep"} /\ (~due' => rx = << >>)
<1>1. CASE ReadNothing
  BY <1>1 DEF ReadNothing, NothingRead, EasyInv, TypeOK
<1>2. CASE Rest
  BY <1>2 DEF Rest, NothingRead, EasyInv, TypeOK, Shapes
<1>3. CASE Sleep \/ EncoderWakes
  BY <1>3 DEF Sleep, EncoderWakes, NothingRead, EasyInv, TypeOK, Shapes
<1>4. QED
  BY <1>1, <1>2, <1>3

LEMMA EasyWrite == EasyInv /\ Write => EasyInv'
<1>1. SUFFICES ASSUME EasyInv, Write PROVE EasyInv'
  OBVIOUS
<1>2. /\ tx' \in 0 .. TxSize /\ toSend' \in 0 .. P /\ tx' + toSend' = tx + toSend
      /\ pc' = IF toSend' = 0 THEN "rest" ELSE "send"
  BY <1>1, Sizes DEF Write, EasyInv, TypeOK
<1>3. TypeOK'
  BY <1>1, <1>2 DEF Write, EasyInv, TypeOK, pi, receiver, statics, sent
<1>4. Shapes'
  <2>1. pc' = "send" <=> toSend' > 0
    BY <1>2, Sizes
  <2>2. QED
    BY <1>1, <2>1 DEF Write, EasyInv, Shapes, StaticShape, pi, receiver, statics
<1>5. AnswersAreWhole'
  <2>1. heard \in Nat /\ tx \in Nat /\ toSend \in Nat /\ tx' \in Nat /\ toSend' \in Nat
    BY <1>1, <1>2, Sizes DEF EasyInv, TypeOK
  <2>2. tx' = tx + 1 /\ toSend' = toSend - 1
    BY <1>1 DEF Write
  <2>3. heard + (tx + 1) + (toSend - 1) = heard + tx + toSend
    BY <2>1
  <2>4. QED
    BY <1>1, <2>2, <2>3 DEF Write, receiver, EasyInv, AnswersAreWhole
<1>6. QED
  BY <1>3, <1>4, <1>5 DEF EasyInv

LEMMA EasyRead == EasyInv /\ ReadBytes => EasyInv'
<1>1. SUFFICES ASSUME EasyInv, ReadBytes PROVE EasyInv'
  OBVIOUS
<1>2. /\ rx # << >> /\ rx \in Seq(Nat) /\ rx' = << >> /\ due' = FALSE /\ pc = "read"
      /\ UNCHANGED <<pi, out, lost, tx, heard>>
  BY <1>1 DEF ReadBytes, EasyInv, Shapes
<1>3. Len(rx) \in 1 .. P /\ Len(rx') = 0
  BY <1>1, <1>2, Sizes DEF EasyInv, TypeOK
<1>4. counter' \in 0 .. P - 1 /\ leftoverCount' \in 0 .. P - 1 /\ StaticShape'
  BY <1>1, <1>3, AssembleKeepsShape DEF ReadBytes, EasyInv, TypeOK, Shapes
<1>5. /\ moving' \in BOOLEAN
      /\ \/ ReadsPart
         \/ \E v \in Verdicts, answers \in BOOLEAN : ReadsPacket(v, answers)
  BY <1>1, ReadBytesCases DEF EasyInv
<1>6. toSend = 0
  BY <1>1, <1>2, Sizes DEF EasyInv, TypeOK, Shapes
<1>7. /\ verdicts' \in Seq(Verdicts) /\ answered' \in Nat /\ answered' <= Len(verdicts')
      /\ \/ pc' = "rest" /\ toSend' = 0
         \/ pc' = "send" /\ toSend' = P
      /\ heard + tx + toSend' = answered' * P
  <2>1. /\ verdicts \in Seq(Verdicts) /\ answered \in Nat /\ answered <= Len(verdicts)
        /\ heard + tx + toSend = answered * P /\ heard \in Nat /\ tx \in Nat
    BY <1>1, Sizes DEF EasyInv, TypeOK, Shapes, AnswersAreWhole
  <2>2. CASE ReadsPart
    BY <1>6, <2>1, <2>2, Sizes DEF ReadsPart
  <2>3. ASSUME NEW v \in Verdicts, ReadsPacket(v, TRUE)
        PROVE  /\ verdicts' \in Seq(Verdicts) /\ answered' \in Nat
               /\ answered' <= Len(verdicts')
               /\ pc' = "send" /\ toSend' = P /\ heard + tx + toSend' = answered' * P
    <3>1. verdicts' \in Seq(Verdicts) /\ Len(verdicts') = Len(verdicts) + 1
      BY <2>1, <2>3 DEF ReadsPacket
    <3>2. answered' = answered + 1 /\ pc' = "send" /\ toSend' = P
      BY <2>3 DEF ReadsPacket
    <3>3. (answered + 1) * P = answered * P + P
      BY <2>1, OneMorePacket
    <3>4. Len(verdicts) \in Nat /\ answered * P \in Nat
      BY <2>1, OneMorePacket
    <3>5. QED
      BY <1>6, <2>1, <3>1, <3>2, <3>3, <3>4, Sizes
  <2>4. ASSUME NEW v \in Verdicts, ReadsPacket(v, FALSE)
        PROVE  /\ verdicts' \in Seq(Verdicts) /\ answered' \in Nat
               /\ answered' <= Len(verdicts')
               /\ pc' = "rest" /\ toSend' = 0 /\ answered' = answered
    <3>1. verdicts' \in Seq(Verdicts) /\ Len(verdicts') = Len(verdicts) + 1
      BY <2>1, <2>4 DEF ReadsPacket
    <3>2. answered' = answered /\ pc' = "rest" /\ toSend' = toSend
      BY <2>4 DEF ReadsPacket
    <3>3. Len(verdicts) \in Nat
      BY <2>1
    <3>4. QED
      BY <1>6, <2>1, <3>1, <3>2, <3>3
  <2>5. CASE \E v \in Verdicts : ReadsPacket(v, TRUE)
    BY <2>3, <2>5
  <2>6. CASE \E v \in Verdicts : ReadsPacket(v, FALSE)
    <3>1. PICK v \in Verdicts : ReadsPacket(v, FALSE)
      BY <2>6
    <3>2. /\ verdicts' \in Seq(Verdicts) /\ answered' \in Nat
          /\ answered' <= Len(verdicts')
          /\ pc' = "rest" /\ toSend' = 0 /\ answered' = answered
      BY <2>4, <3>1
    <3>3. heard + tx + toSend' = answered' * P
      BY <1>6, <2>1, <3>2
    <3>4. QED
      BY <3>2, <3>3
  <2>7. QED
    BY <1>5, <2>2, <2>5, <2>6
<1>8. TypeOK'
  <2>1. /\ Len(rx') <= RxSize /\ toSend' \in 0 .. P
        /\ pc' \in {"read", "send", "rest", "idle", "asleep"}
    BY <1>3, <1>7, Sizes
  <2>2. /\ kinds' \in Seq({"HELLO", "COMMAND"}) /\ sent' <= MaxPackets
        /\ rushed' \in BOOLEAN /\ out' \in 0 .. sent' * P /\ lost' \subseteq 1 .. out'
        /\ tx' \in 0 .. TxSize /\ heard' \in Nat
    BY <1>1, <1>2 DEF EasyInv, TypeOK, pi, sent
  <2>3. due' \in BOOLEAN
    BY <1>2
  <2>4. QED
    BY <1>4, <1>5, <1>7, <2>1, <2>2, <2>3 DEF TypeOK
<1>9. Shapes'
  <2>1. kinds' \in Seq(Kinds) /\ rx' \in Seq(Nat) /\ (~due' => rx' = << >>)
    BY <1>1, <1>2 DEF EasyInv, Shapes, pi
  <2>2. pc' = "send" <=> toSend' > 0
    BY <1>7, Sizes
  <2>3. QED
    BY <1>4, <1>7, <2>1, <2>2 DEF Shapes
<1>10. AnswersAreWhole'
  BY <1>2, <1>7 DEF AnswersAreWhole
<1>11. QED
  BY <1>8, <1>9, <1>10 DEF EasyInv
LEMMA EasyNext == EasyInv /\ [Next]_vars => EasyInv'
<1>1. SUFFICES ASSUME EasyInv, [Next]_vars PROVE EasyInv'
  OBVIOUS
<1>2. CASE SendPacket
  BY <1>1, <1>2, EasySend
<1>3. CASE Wire
  BY <1>1, <1>3, EasyWire
<1>4. CASE ReadNothing \/ Rest \/ Sleep \/ EncoderWakes
  BY <1>1, <1>4, QuietSteps, EasyQuiet
<1>5. CASE ReadBytes
  BY <1>1, <1>5, EasyRead
<1>6. CASE Write
  BY <1>1, <1>6, EasyWrite
<1>7. CASE UNCHANGED vars
  <2>1. TypeOK'
    BY <1>1, <1>7 DEF EasyInv, vars, pi, receiver, statics, TypeOK, sent
  <2>2. Shapes'
    BY <1>1, <1>7 DEF EasyInv, vars, pi, receiver, statics, Shapes, StaticShape
  <2>3. AnswersAreWhole'
    BY <1>1, <1>7 DEF EasyInv, vars, receiver, AnswersAreWhole
  <2>4. QED
    BY <2>1, <2>2, <2>3 DEF EasyInv
<1>8. QED
  BY <1>1, <1>2, <1>3, <1>4, <1>5, <1>6, <1>7 DEF Next, Loop

LEMMA EasyInvariance == Spec => []EasyInv
<1>1. QED
  BY EasyInit, EasyNext, PTL DEF Spec

\* The counts stay in range: no more bytes in a ring than it holds, no more
\* answers than packets, and the counters of assemble() below the packet size
\* even when bytes are lost.
THEOREM LinkTypes == Spec => []TypeOK
<1>1. EasyInv => TypeOK
  BY DEF EasyInv
<1>2. QED
  BY EasyInvariance, <1>1, PTL

\* Answers reach the Pi whole, in every order of the bytes and the loop.
THEOREM WholeAnswers == Spec => []AnswersAreWhole
<1>1. EasyInv => AnswersAreWhole
  BY DEF EasyInv
<1>2. QED
  BY EasyInvariance, <1>1, PTL

\* The bytes that can still come before the loop reads the ring again: one for each
\* byte of the answer that is still to be written, unless the next of them finds room
\* and a byte has come; one more before the loop falls asleep, and one that wakes it.
ticksLeft ==
    IF pc = "send" THEN toSend + (IF due /\ tx < TxSize THEN 0 ELSE 1)
    ELSE IF pc \in {"rest", "idle"} THEN IF due THEN 1 ELSE 2
    ELSE IF pc = "asleep" THEN 1
    ELSE IF due THEN 0 ELSE 1

\* The room in the ring and what earlier answers did not cost are enough for them.
Costs(allowed) ==
    /\ Cardinality(lost) <= allowed
    /\ Cardinality(lost) + Len(rx) + ticksLeft <= allowed + RxSize

CostsOfAnswers == IsFiniteSet(lost) /\ Costs(answered * (P - RxSize + 1))

LEMMA CostsInit == RxSize >= 2 /\ Init => CostsOfAnswers
<1>1. SUFFICES ASSUME RxSize >= 2, Init PROVE CostsOfAnswers
  OBVIOUS
<1>2. IsFiniteSet(lost) /\ Cardinality(lost) = 0
  BY <1>1, FS_EmptySet DEF Init
<1>3. answered * (P - RxSize + 1) = 0 /\ Len(rx) = 0 /\ ticksLeft = 1
  BY <1>1, Sizes DEF Init, ticksLeft
<1>4. QED
  BY <1>1, <1>2, <1>3, Sizes DEF CostsOfAnswers, Costs

\* Arithmetic: a byte that comes is kept or lost, and one fewer can still come.
LEMMA CostsFit ==
    ASSUME NEW allowed \in Nat, NEW size \in Nat,
           NEW lost1 \in Nat, NEW len1 \in Nat, NEW left1 \in Nat,
           NEW lost2 \in Nat, NEW len2 \in Nat, NEW left2 \in Nat,
           lost1 <= allowed, lost1 + len1 + left1 <= allowed + size, left2 + 1 <= left1,
           \/ lost2 = lost1 /\ len2 <= len1 + 1
           \/ len1 >= size /\ len2 = len1 /\ lost2 <= lost1 + 1
    PROVE  lost2 <= allowed /\ lost2 + len2 + left2 <= allowed + size
OBVIOUS

LEMMA CostsNext ==
    ASSUME RxSize >= 2, EasyInv, EasyInv', CostsOfAnswers, [Next]_vars
    PROVE  CostsOfAnswers'
<1> DEFINE allowed == answered * (P - RxSize + 1)
<1>1. /\ P \in Nat \ {0} /\ RxSize \in Nat /\ RxSize <= P /\ TxSize \in Nat \ {0}
  BY Sizes
<1>2. /\ answered \in Nat /\ allowed \in Nat
      /\ tx \in 0 .. TxSize /\ toSend \in 0 .. P /\ due \in BOOLEAN
      /\ Len(rx) \in Nat /\ Len(rx) <= RxSize /\ rx \in Seq(Nat)
      /\ ~due => Len(rx) = 0
      /\ pc = "send" <=> toSend > 0
  <2>1. answered \in Nat /\ rx \in Seq(Nat) /\ (~due => rx = << >>) /\ (pc = "send" <=> toSend > 0)
    BY DEF EasyInv, Shapes
  <2>2. tx \in 0 .. TxSize /\ toSend \in 0 .. P /\ due \in BOOLEAN /\ Len(rx) <= RxSize
    BY DEF EasyInv, TypeOK
  <2>3. P - RxSize + 1 \in Nat
    BY <1>1
  <2>4. allowed \in Nat
    BY <2>1, <2>3
  <2>5. Len(rx) \in Nat /\ (rx = << >> => Len(rx) = 0)
    BY <2>1, LenProperties
  <2>6. QED
    BY <2>1, <2>2, <2>4, <2>5
<1>3. IsFiniteSet(lost) /\ Cardinality(lost) \in Nat /\ Costs(allowed)
  BY FS_CardinalityType DEF CostsOfAnswers
<1> HIDE DEF allowed
<1>4. CASE Wire
  <2>1. /\ answered' = answered /\ due' = TRUE /\ toSend' = toSend
        /\ ~due \/ (pc = "send" /\ tx = TxSize /\ toSend > 0) \/ pc = "asleep"
        /\ pc' = IF pc = "asleep" THEN "read" ELSE pc
        /\ tx' = IF tx > 0 THEN tx - 1 ELSE tx
    BY <1>2, <1>4 DEF Wire, Blocked, Transmit, receiver
  <2>2. pc \in {"read", "send", "rest", "idle", "asleep"}
    BY DEF EasyInv, TypeOK
  <2>3. ticksLeft \in Nat /\ ticksLeft' \in Nat /\ ticksLeft' + 1 <= ticksLeft
    BY <1>1, <1>2, <2>1, <2>2 DEF ticksLeft
  <2>0. allowed' = allowed
    BY <2>1 DEF allowed
  <2>4. CASE lost' = lost /\ Len(rx') \in Nat /\ Len(rx') <= Len(rx) + 1
    <3>1. Costs(allowed)'
      <4> DEFINE lost1 == Cardinality(lost)
                 len1 == Len(rx)
                 left1 == ticksLeft
                 lost2 == Cardinality(lost')
                 len2 == Len(rx')
                 left2 == ticksLeft'
      <4>1. /\ lost1 \in Nat /\ len1 \in Nat /\ left1 \in Nat
            /\ lost2 \in Nat /\ len2 \in Nat /\ left2 \in Nat
            /\ left2 + 1 <= left1
        BY <1>2, <1>3, <2>3, <2>4
      <4>2. lost1 <= allowed /\ lost1 + len1 + left1 <= allowed + RxSize
        BY <1>3 DEF Costs
      <4>3. \/ lost2 = lost1 /\ len2 <= len1 + 1
            \/ len1 >= RxSize /\ len2 = len1 /\ lost2 <= lost1 + 1
        BY <2>4
      <4> HIDE DEF lost1, len1, left1, lost2, len2, left2
      <4>4. lost2 <= allowed /\ lost2 + len2 + left2 <= allowed + RxSize
        BY <1>1, <1>2, <4>1, <4>2, <4>3, CostsFit
      <4>5. QED
        BY <2>0, <4>4 DEF Costs, lost2, len2, left2
    <3>2. QED
      BY <1>3, <2>4, <3>1 DEF CostsOfAnswers, allowed
  <2>5. CASE rx' = rx /\ Len(rx) >= RxSize /\ lost' = lost \cup {out + 1}
    <3>1. IsFiniteSet(lost') /\ Cardinality(lost') \in Nat
          /\ Cardinality(lost') <= Cardinality(lost) + 1
      BY <1>3, <2>5, FS_AddElement, FS_CardinalityType
    <3>2. Costs(allowed)'
      <4> DEFINE lost1 == Cardinality(lost)
                 len1 == Len(rx)
                 left1 == ticksLeft
                 lost2 == Cardinality(lost')
                 len2 == Len(rx')
                 left2 == ticksLeft'
      <4>1. /\ lost1 \in Nat /\ len1 \in Nat /\ left1 \in Nat
            /\ lost2 \in Nat /\ len2 \in Nat /\ left2 \in Nat
            /\ left2 + 1 <= left1
        BY <1>2, <1>3, <2>3, <2>5, <3>1
      <4>2. lost1 <= allowed /\ lost1 + len1 + left1 <= allowed + RxSize
        BY <1>3 DEF Costs
      <4>3. \/ lost2 = lost1 /\ len2 <= len1 + 1
            \/ len1 >= RxSize /\ len2 = len1 /\ lost2 <= lost1 + 1
        BY <2>5, <3>1
      <4> HIDE DEF lost1, len1, left1, lost2, len2, left2
      <4>4. lost2 <= allowed /\ lost2 + len2 + left2 <= allowed + RxSize
        BY <1>1, <1>2, <4>1, <4>2, <4>3, CostsFit
      <4>5. QED
        BY <2>0, <4>4 DEF Costs, lost2, len2, left2
    <3>3. QED
      BY <3>1, <3>2 DEF CostsOfAnswers, allowed
  <2>6. QED
    BY <1>2, <1>4, <2>4, <2>5, LenProperties DEF Wire, Arrive
<1>5. CASE Write
  <2>1. /\ answered' = answered /\ due' = due /\ rx' = rx /\ lost' = lost
        /\ toSend' = toSend - 1 /\ pc = "send" /\ tx < TxSize /\ tx' = tx + 1
        /\ pc' = IF toSend' = 0 THEN "rest" ELSE "send"
    BY <1>5 DEF Write, receiver
  <2>2. ticksLeft \in Nat /\ ticksLeft' \in Nat /\ ticksLeft' <= ticksLeft + 1
    BY <1>1, <1>2, <2>1 DEF ticksLeft
  <2>3. ticksLeft' <= ticksLeft
    BY <1>1, <1>2, <2>1 DEF ticksLeft
  <2>4. allowed' = allowed
    BY <2>1 DEF allowed
  <2>5. Costs(allowed)'
    BY <1>1, <1>2, <1>3, <2>1, <2>2, <2>3, <2>4 DEF Costs
  <2>6. QED
    BY <1>3, <2>1, <2>5 DEF CostsOfAnswers, allowed
<1>6. CASE ReadNothing \/ Rest \/ Sleep \/ EncoderWakes
  <2>1. answered' = answered /\ rx' = rx /\ lost' = lost /\ toSend' = toSend /\ tx' = tx
    BY <1>6 DEF ReadNothing, Rest, Sleep, EncoderWakes, receiver
  <2>2. CASE ReadNothing
    <3>1. Len(rx) = 0 /\ ticksLeft' = 2
      BY <2>2 DEF ReadNothing, ticksLeft
    <3>2. QED
      BY <1>1, <1>2, <1>3, <2>1, <3>1 DEF Costs, CostsOfAnswers, allowed
  <2>3. CASE Rest \/ Sleep \/ EncoderWakes
    <3>1. /\ due' = due /\ pc # "send"
          /\ \/ pc = "rest" /\ pc' \in {"read", "idle"}
             \/ pc = "idle" /\ pc' = "asleep"
             \/ pc = "asleep" /\ pc' = "read"
      BY <2>3 DEF Rest, Sleep, EncoderWakes
    <3>3. ticksLeft \in Nat /\ ticksLeft' \in Nat /\ ticksLeft' <= ticksLeft
      BY <1>2, <3>1 DEF ticksLeft
    <3>2. QED
      BY <1>1, <1>2, <1>3, <2>1, <3>3 DEF Costs, CostsOfAnswers, allowed
  <2>4. QED
    BY <1>6, <2>2, <2>3
<1>7. CASE ReadBytes
  <2>1. lost' = lost /\ rx' = << >> /\ Len(rx') = 0 /\ due' = FALSE /\ pc = "read" /\ toSend = 0
    BY <1>2, <1>7 DEF ReadBytes
  <2>2. PICK n \in {0, 1} : answered' = answered + n /\ IF n = 1 THEN pc' = "send" /\ toSend' = P
                                                       ELSE pc' = "rest" /\ toSend' = 0
    <3>1. \/ ReadsPart
          \/ \E v \in Verdicts, answers \in BOOLEAN : ReadsPacket(v, answers)
      BY <1>7, ReadBytesCases DEF EasyInv
    <3>2. CASE ReadsPart
      BY <1>2, <2>1, <3>2 DEF ReadsPart
    <3>3. ASSUME NEW v \in Verdicts, NEW answers \in BOOLEAN, ReadsPacket(v, answers)
          PROVE  \E n \in {0, 1} : answered' = answered + n /\ IF n = 1 THEN pc' = "send" /\ toSend' = P
                                                       ELSE pc' = "rest" /\ toSend' = 0
      BY <1>2, <2>1, <3>3 DEF ReadsPacket
    <3>4. QED
      BY <3>1, <3>2, <3>3
  <2>3. CASE n = 0
    <3>1. ticksLeft' = 2 /\ answered' = answered
      BY <1>2, <2>1, <2>2, <2>3 DEF ticksLeft
    <3>2. QED
      BY <1>1, <1>2, <1>3, <2>1, <3>1 DEF Costs, CostsOfAnswers, allowed
  <2>4. CASE n = 1
    <3>1. ticksLeft' = P + 1
      BY <1>1, <2>1, <2>2, <2>4 DEF ticksLeft
    <3>2. allowed' = allowed + (P - RxSize + 1)
      BY <1>1, <1>2, <2>2, <2>4 DEF allowed
    <3>3. Costs(allowed)'
      BY <1>1, <1>2, <1>3, <2>1, <3>1, <3>2 DEF Costs
    <3>4. QED
      BY <1>3, <2>1, <3>3 DEF CostsOfAnswers, allowed
  <2>5. QED
    BY <2>3, <2>4
<1>8. CASE SendPacket
  BY <1>3, <1>8 DEF SendPacket, receiver, ticksLeft, Costs, CostsOfAnswers, allowed
<1>9. CASE UNCHANGED vars
  BY <1>3, <1>9 DEF vars, receiver, ticksLeft, Costs, CostsOfAnswers, allowed
<1>10. QED
  BY <1>4, <1>5, <1>6, <1>7, <1>8, <1>9 DEF Next, Loop

\* Each answer costs the Pi P - RxSize + 1 bytes at most, for every size of packets and
\* rings and however fast the Pi sends.
THEOREM AnswersCost ==
    ASSUME RxSize >= 2
    PROVE  Spec => []LossesPerAnswer
<1>1. CostsOfAnswers => LossesPerAnswer
  BY DEF CostsOfAnswers, Costs, LossesPerAnswer
<1>2. CASE RxSize >= 2
  <2>1. Init => CostsOfAnswers
    BY <1>2, CostsInit
  <2>2. EasyInv /\ EasyInv' /\ CostsOfAnswers /\ [Next]_vars => CostsOfAnswers'
    BY <1>2, CostsNext
  <2>3. QED
    BY <1>1, <2>1, <2>2, EasyInvariance, PTL DEF Spec
<1>3. QED
  BY <1>2

-----------------------------------------------------------------------------
(* The packets in order until a byte is lost.                               *)
LEMMA Quotient ==
    ASSUME NEW n \in Nat, NEW m \in Nat \ {0}
    PROVE  /\ n \div m \in Nat /\ m * (n \div m) <= n /\ n < m * (n \div m) + m
           /\ n % m = n - m * (n \div m)
OBVIOUS

\* A number between two multiples.
LEMMA OnlyOneMultiple ==
    ASSUME NEW k \in Nat, NEW q \in Nat, NEW a \in Nat,
           k * P <= a, a < k * P + P, q * P <= a, a < q * P + P
    PROVE  q = k
<1>1. k * P \in Nat /\ q * P \in Nat
  BY OneMorePacket
<1>2. ~(k + 1 <= q)
  <2>1. SUFFICES ASSUME k + 1 <= q PROVE FALSE
    OBVIOUS
  <2>2. (k + 1) * P <= q * P
    BY <2>1, PacketsInOrder
  <2>3. (k + 1) * P = k * P + P
    BY OneMorePacket
  <2>4. QED
    BY <1>1, <2>2, <2>3, Sizes
<1>3. ~(q + 1 <= k)
  <2>1. SUFFICES ASSUME q + 1 <= k PROVE FALSE
    OBVIOUS
  <2>2. (q + 1) * P <= k * P
    BY <2>1, PacketsInOrder
  <2>3. (q + 1) * P = q * P + P
    BY OneMorePacket
  <2>4. QED
    BY <1>1, <2>2, <2>3, Sizes
<1>4. QED
  BY <1>2, <1>3

LEMMA PlaceInPacket ==
    ASSUME NEW k \in Nat, NEW i \in 1 .. P
    PROVE  Place(k * P + i) = i /\ PacketOf(k * P + i) = k + 1
<1> DEFINE b == k * P + i
           q == (b - 1) \div P
<1>1. k * P \in Nat /\ b - 1 \in Nat /\ k * P <= b - 1 /\ b - 1 < k * P + P
  BY OneMorePacket, Sizes
<1>2. q \in Nat /\ P * q <= b - 1 /\ b - 1 < P * q + P /\ (b - 1) % P = b - 1 - P * q
  <2>1. P \in Nat \ {0}
    BY Sizes
  <2> HIDE DEF b
  <2>2. QED
    BY <1>1, <2>1, Quotient
<1>3. P * q = q * P
  BY <1>2, Sizes
<1>4. b = k * P + i /\ b \in Nat
  BY <1>1
<1> HIDE DEF b
<1>5. b - 1 < q * P + P /\ q * P <= b - 1
  BY <1>2, <1>3
<1> HIDE DEF q
<1>6. q = k
  BY <1>1, <1>2, <1>5, OnlyOneMultiple
<1>7. (b - 1) % P = i - 1
  <2>1. P * q = k * P
    BY <1>3, <1>6
  <2>2. b - 1 - P * q = i - 1
    BY <1>1, <1>4, <2>1
  <2>3. QED
    BY <1>2, <2>2 DEF q
<1>8. Place(b) = i /\ PacketOf(b) = k + 1
  BY <1>6, <1>7 DEF Place, PacketOf, q
<1>9. QED
  BY <1>8 DEF b

\* A buffer that holds the packet after the first k has the one verdict, and is
\* taken for that packet.
LEMMA WholePacketIsOK ==
    ASSUME NEW k \in Nat, NEW buffer, \A i \in 1 .. P : buffer[i] = k * P + i
    PROVE  verdict(buffer) = {"PACKET_OK"} /\ contents(buffer) = k + 1
<1>1. \A i \in 1 .. P : Place(buffer[i]) = i /\ PacketOf(buffer[i]) = k + 1
  BY PlaceInPacket
<1>2. PacketOf(buffer[1]) = k + 1
  BY <1>1, Sizes
<1>3. magicOK(buffer)
  BY <1>1, Sizes DEF magicOK
<1>4. intact(buffer)
  <2>1. (PacketOf(buffer[1]) - 1) * P = k * P
    BY <1>2
  <2>2. \A i \in 1 .. P - Pad : i \in 1 .. P
    BY Sizes
  <2>3. QED
    BY <2>1, <2>2 DEF intact
<1>5. QED
  BY <1>2, <1>3, <1>4 DEF verdict, contents

\* Without losses, a read of the ring is a Feed of the stream.
LEMMA ReadIsFeed ==
    ASSUME TypeOK, Shapes, ReadBytes, NEW len, len = Len(rx),
           \A i \in 1 .. Len(rx) : rx[i] = consumed + i,
           cut' = IF result' = "PACKET_COMPLETE" THEN cut + P ELSE cut
    PROVE  /\ len \in 1 .. RxSize /\ consumed' = consumed + len
           /\ B!Feed(len)
           /\ A!Complete(rx) => B!Complete(B!Arriving(len))
           /\ A!Incomplete(rx) => B!Incomplete(B!Arriving(len))
<1>1. rx \in Seq(Nat) /\ rx # << >> /\ rx' = << >> /\ out' = out /\ kinds \in Seq(Kinds)
  BY DEF Shapes, ReadBytes
<1>2. len \in 1 .. RxSize /\ Len(rx') = 0
  BY <1>1, Sizes DEF TypeOK
<1>3. sent \in Nat /\ sent <= MaxPackets /\ out \in Nat /\ out <= sent * P
  <2>1. sent \in Nat
    BY <1>1 DEF sent
  <2>2. sent * P \in Nat
    BY <2>1, OneMorePacket
  <2>3. QED
    BY <2>1, <2>2 DEF TypeOK
<1>4. consumed' = consumed + len /\ consumed + len = out
  BY <1>1, <1>2, <1>3, Sizes DEF consumed
<1>5. consumed + len <= MaxPackets * P
  <2>1. sent * P <= MaxPackets * P
    BY <1>3, PacketsInOrder, Sizes
  <2>2. sent * P \in Nat /\ MaxPackets * P \in Nat
    BY <1>3, OneMorePacket, Sizes
  <2>3. QED
    BY <1>3, <1>4, <2>1, <2>2
<1>6. rx = B!Arriving(len)
  BY <1>1 DEF B!Arriving
<1>7. A!Complete(rx) => B!Complete(B!Arriving(len))
  BY <1>6 DEF A!Complete, B!Complete, A!reachesEnd, B!reachesEnd, A!filled, B!filled,
              A!saved, B!saved, A!start, B!start, A!copyCount, B!copyCount,
              A!kept, B!kept, A!bytesLeft, B!bytesLeft, A!Index, B!Index
<1>8. A!Incomplete(rx) => B!Incomplete(B!Arriving(len))
  BY <1>6 DEF A!Incomplete, B!Incomplete, A!reachesEnd, B!reachesEnd, A!filled, B!filled,
              A!start, B!start, A!copyCount, B!copyCount,
              A!kept, B!kept, A!bytesLeft, B!bytesLeft, A!Index, B!Index
<1>9. B!assemble(B!Arriving(len))
  BY <1>7, <1>8 DEF ReadBytes, A!assemble, B!assemble
<1>10. QED
  BY <1>2, <1>4, <1>5, <1>7, <1>8, <1>9 DEF B!Feed

\* Only packets that have been sent are completed.
LEMMA CutIsSent ==
    ASSUME EasyInv, B!IInv
    PROVE  /\ Len(verdicts) \in Nat /\ sent \in Nat /\ Len(verdicts) <= sent
           /\ cut \in Nat /\ consumed \in Nat /\ cut <= consumed /\ consumed <= out
           /\ out \in Nat /\ out <= sent * P /\ sent * P \in Nat
<1>1. verdicts \in Seq(Verdicts) /\ kinds \in Seq(Kinds) /\ rx \in Seq(Nat)
  BY DEF EasyInv, Shapes
<1>2. Len(verdicts) \in Nat /\ sent \in Nat /\ Len(rx) \in Nat
  BY <1>1 DEF sent
<1>3. cut \in Nat /\ sent * P \in Nat
  BY <1>2, OneMorePacket DEF cut
<1>4. consumed \in Nat /\ consumed = cut + counter + leftoverCount
  BY DEF B!IInv, B!TypeOK, B!EveryByteAccountedFor
<1>5. counter \in Nat /\ leftoverCount \in Nat
  BY Sizes DEF EasyInv, TypeOK
<1>6. out \in Nat /\ out <= sent * P
  BY <1>3 DEF EasyInv, TypeOK
<1>7. consumed <= out
  BY <1>2, <1>6 DEF consumed
<1>8. cut <= consumed
  BY <1>3, <1>4, <1>5
<1>9. cut <= sent * P
  BY <1>3, <1>4, <1>6, <1>7, <1>8
<1>10. Len(verdicts) <= sent
  BY <1>2, <1>9, PacketsInOrder DEF cut
<1>11. QED
  BY <1>2, <1>3, <1>4, <1>6, <1>7, <1>8, <1>10

LEMMA InOrderInit == Init => InOrder
<1>1. SUFFICES ASSUME Init PROVE InOrder
  OBVIOUS
<1>2. Len(verdicts) = 0 /\ Len(rx) = 0 /\ Len(executed) = 0
  BY <1>1 DEF Init
<1>3. B!Init
  <2>1. consumed = 0 /\ cut = 0
    <3>1. out = 0
      BY <1>1 DEF Init
    <3>2. 0 * P = 0
      BY Sizes
    <3>3. QED
      BY <1>2, <3>1, <3>2 DEF consumed, cut
  <2>2. B!StaticInit
    BY <1>1 DEF Init, A!StaticInit, B!StaticInit, A!Index, B!Index
  <2>3. QED
    BY <1>1, <2>1, <2>2 DEF Init, B!Init
<1>4. B!IInv
  BY <1>3, Receives, B!InitIInv
<1>5. CommandsAmong(0) = 0
  <2>1. {i \in 1 .. 0 : kinds[i] = "COMMAND"} = {}
    OBVIOUS
  <2>2. QED
    BY <2>1, FS_EmptySet DEF CommandsAmong
<1>6. executed \in Seq(Nat)
  BY <1>1 DEF Init
<1>7. InOrderUntilLoss
  BY <1>2 DEF InOrderUntilLoss
<1>8. QED
  BY <1>1, <1>2, <1>4, <1>5, <1>6, <1>7 DEF Init, InOrder

\* What the steps that do not read the ring leave of it.
LEMMA SameStream ==
    ASSUME B!IInv, UNCHANGED receiver, consumed' = consumed
    PROVE  B!IInv'
<1>1. UNCHANGED <<statics, result>> /\ cut' = cut
  BY DEF receiver, cut
<1>2. QED
  BY <1>1 DEF statics, B!IInv, B!TypeOK, B!EveryByteAccountedFor, B!KeptInOrder,
              B!WholePackets, B!Index

\* A step that does not read the ring.
LEMMA InOrderUnread ==
    ASSUME EasyInv, InOrder, UNCHANGED receiver, lost' = {} => lost = {},
           lost' = {} => /\ consumed' = consumed
                         /\ \A i \in 1 .. Len(rx') : rx'[i] = consumed + i,
           \A i \in 1 .. sent : kinds'[i] = kinds[i]
    PROVE  InOrder'
<1>1. SUFFICES ASSUME lost' = {}
      PROVE  /\ B!IInv'
             /\ \A i \in 1 .. Len(rx') : rx'[i] = consumed' + i
             /\ executed' \in Seq(Nat) /\ Len(executed') = Len(verdicts')
             /\ InOrderUntilLoss'
             /\ answered' = CommandsAmong(Len(verdicts))'
  BY DEF InOrder
<1>2. lost = {} /\ B!IInv
  BY <1>1 DEF InOrder
<1>3. B!IInv'
  BY <1>1, <1>2, SameStream
<1>4. \A i \in 1 .. Len(rx') : rx'[i] = consumed' + i
  BY <1>1
<1>5. executed' \in Seq(Nat) /\ Len(executed') = Len(verdicts')
  BY <1>2 DEF InOrder, receiver
<1>6. InOrderUntilLoss'
  BY <1>1, <1>2 DEF InOrder, InOrderUntilLoss, receiver
<1>7. answered' = CommandsAmong(Len(verdicts))'
  <2>1. Len(verdicts) \in Nat /\ sent \in Nat /\ Len(verdicts) <= sent
    BY <1>2, CutIsSent
  <2>2. {i \in 1 .. Len(verdicts) : kinds'[i] = "COMMAND"}
            = {i \in 1 .. Len(verdicts) : kinds[i] = "COMMAND"}
    BY <2>1
  <2>3. answered' = answered /\ verdicts' = verdicts
    BY DEF receiver
  <2>4. answered = CommandsAmong(Len(verdicts))
    BY <1>2 DEF InOrder
  <2>5. QED
    BY <2>2, <2>3, <2>4 DEF CommandsAmong
<1>8. QED
  BY <1>3, <1>4, <1>5, <1>6, <1>7

LEMMA InOrderSend == EasyInv /\ InOrder /\ SendPacket => InOrder'
<1>1. SUFFICES ASSUME EasyInv, InOrder, SendPacket PROVE InOrder'
  OBVIOUS
<1>2. UNCHANGED <<receiver, lost, rx, out>>
  BY <1>1 DEF SendPacket
<1>3. \A i \in 1 .. sent : kinds'[i] = kinds[i]
  <2>1. PICK kind \in Kinds : kinds' = Append(kinds, kind)
    BY <1>1 DEF SendPacket, Kinds
  <2>2. kinds \in Seq(Kinds)
    BY <1>1 DEF EasyInv, Shapes
  <2>3. QED
    BY <2>1, <2>2 DEF sent
<1>4. lost' = {} => /\ consumed' = consumed
                    /\ \A i \in 1 .. Len(rx') : rx'[i] = consumed + i
  BY <1>1, <1>2 DEF consumed, InOrder
<1>5. QED
  BY <1>1, <1>2, <1>3, <1>4, InOrderUnread

LEMMA InOrderWire == EasyInv /\ InOrder /\ Wire => InOrder'
<1>1. SUFFICES ASSUME EasyInv, InOrder, Wire PROVE InOrder'
  OBVIOUS
<1>2. UNCHANGED <<receiver, kinds>> /\ \A i \in 1 .. sent : kinds'[i] = kinds[i]
  BY <1>1 DEF Wire, pi
<1>3. rx \in Seq(Nat) /\ Len(rx) \in Nat /\ out \in Nat
  <2>1. kinds \in Seq(Kinds) /\ rx \in Seq(Nat)
    BY <1>1 DEF EasyInv, Shapes
  <2>2. sent * P \in Nat
    BY <2>1, OneMorePacket DEF sent
  <2>3. QED
    BY <1>1, <2>1, <2>2 DEF EasyInv, TypeOK
<1>4. CASE UNCHANGED <<out, rx, lost>>
  <2>1. lost' = {} => /\ consumed' = consumed
                      /\ \A i \in 1 .. Len(rx') : rx'[i] = consumed + i
    BY <1>1, <1>4 DEF consumed, InOrder
  <2>2. QED
    BY <1>1, <1>2, <1>4, <2>1, InOrderUnread
<1>5. CASE /\ out' = out + 1 /\ rx' = Append(rx, out + 1)
           /\ UNCHANGED lost
  <2>1. Len(rx') = Len(rx) + 1 /\ consumed' = consumed
    BY <1>3, <1>5 DEF consumed
  <2>2. consumed + (Len(rx) + 1) = out + 1
    BY <1>3 DEF consumed
  <2>3. ASSUME lost' = {}, NEW i \in 1 .. Len(rx')
        PROVE  rx'[i] = consumed + i
    <3>1. \A j \in 1 .. Len(rx) : rx[j] = consumed + j
      BY <1>1, <1>5, <2>3 DEF InOrder
    <3>2. CASE i <= Len(rx)
      BY <1>3, <1>5, <2>1, <3>1, <3>2
    <3>3. CASE i = Len(rx) + 1
      BY <1>3, <1>5, <2>2, <3>3
    <3>4. QED
      BY <1>3, <2>1, <3>2, <3>3
  <2>4. QED
    BY <1>1, <1>2, <1>5, <2>1, <2>3, InOrderUnread
<1>6. CASE lost' = lost \cup {out + 1}
  BY <1>6 DEF InOrder
<1>7. QED
  BY <1>1, <1>4, <1>5, <1>6 DEF Wire, Arrive

LEMMA InOrderQuiet ==
    ASSUME EasyInv, InOrder, Write \/ NothingRead
    PROVE  InOrder'
<1>1. UNCHANGED <<receiver, lost, rx, out, kinds>>
  BY DEF Write, NothingRead, pi
<1>2. \A i \in 1 .. sent : kinds'[i] = kinds[i]
  BY <1>1
<1>3. lost' = {} => /\ consumed' = consumed
                    /\ \A i \in 1 .. Len(rx') : rx'[i] = consumed + i
  BY <1>1 DEF consumed, InOrder
<1>4. QED
  BY <1>1, <1>2, <1>3, InOrderUnread

LEMMA OneMoreCommand ==
    ASSUME NEW k \in Nat
    PROVE  /\ CommandsAmong(k) \in Nat
           /\ kinds[k + 1] = "COMMAND" => CommandsAmong(k + 1) = CommandsAmong(k) + 1
           /\ kinds[k + 1] # "COMMAND" => CommandsAmong(k + 1) = CommandsAmong(k)
<1> DEFINE S == {i \in 1 .. k : kinds[i] = "COMMAND"}
           T == {i \in 1 .. (k + 1) : kinds[i] = "COMMAND"}
<1>1. IsFiniteSet(1 .. k)
  BY FS_Interval
<1>2. S \in SUBSET (1 .. k)
  OBVIOUS
<1>3. IsFiniteSet(S) /\ Cardinality(S) \in Nat
  BY <1>1, <1>2, FS_Subset, FS_CardinalityType
<1>4. k + 1 \notin S
  OBVIOUS
<1>5. ASSUME kinds[k + 1] = "COMMAND" PROVE Cardinality(T) = Cardinality(S) + 1
  <2>1. T = S \cup {k + 1}
    BY <1>5
  <2>2. QED
    BY <1>3, <1>4, <2>1, FS_AddElement
<1>6. ASSUME kinds[k + 1] # "COMMAND" PROVE T = S
  BY <1>6
<1>7. QED
  BY <1>3, <1>5, <1>6 DEF CommandsAmong

\* A completed packet is the one after the last, is found whole, and is
\* answered if it is a command.
LEMMA PacketInOrder ==
    ASSUME EasyInv, B!IInv', NEW v \in Verdicts, NEW answers \in BOOLEAN,
           ReadsPacket(v, answers)
    PROVE  /\ v = "PACKET_OK" /\ contents(outputBuffer') = Len(verdicts) + 1
           /\ answers = (kinds[Len(verdicts) + 1] = "COMMAND")
<1> DEFINE k == Len(verdicts)
<1>1. k \in Nat /\ Len(verdicts') = k + 1
  BY DEF EasyInv, Shapes, ReadsPacket
<1>2. cut' - P = k * P /\ k * P \in Nat
  BY <1>1, OneMorePacket, Sizes DEF cut
<1>3. \A i \in 1 .. P : outputBuffer'[i] = k * P + i
  BY <1>2 DEF ReadsPacket, B!IInv, B!WholePackets, B!Index
<1>4. verdict(outputBuffer') = {"PACKET_OK"} /\ contents(outputBuffer') = k + 1
  BY <1>1, <1>3, WholePacketIsOK
<1>5. v = "PACKET_OK"
  BY <1>4 DEF ReadsPacket
<1>6. contents(outputBuffer') # 0
  BY <1>1, <1>4
<1>7. isAnswered(v, outputBuffer') = {kinds[k + 1] = "COMMAND"}
  BY <1>4, <1>5, <1>6 DEF isAnswered
<1>8. answers = (kinds[k + 1] = "COMMAND")
  BY <1>7 DEF ReadsPacket
<1>9. QED
  BY <1>4, <1>5, <1>8

\* A completed packet is one more packet cut.
LEMMA CutAdvances ==
    ASSUME EasyInv, ReadBytes
    PROVE  cut' = IF result' = "PACKET_COMPLETE" THEN cut + P ELSE cut
<1>1. ReadsPart \/ \E v \in Verdicts, answers \in BOOLEAN : ReadsPacket(v, answers)
  BY ReadBytesCases DEF EasyInv
<1>2. verdicts \in Seq(Verdicts) /\ Len(verdicts) \in Nat
  BY DEF EasyInv, Shapes
<1>3. CASE ReadsPart
  BY <1>3 DEF ReadsPart, cut
<1>4. ASSUME NEW v \in Verdicts, NEW answers \in BOOLEAN, ReadsPacket(v, answers)
      PROVE  cut' = IF result' = "PACKET_COMPLETE" THEN cut + P ELSE cut
  <2>1. Len(verdicts') = Len(verdicts) + 1 /\ result' = "PACKET_COMPLETE"
    BY <1>2, <1>4 DEF ReadsPacket
  <2>2. (Len(verdicts) + 1) * P = Len(verdicts) * P + P
    BY <1>2, OneMorePacket
  <2>3. QED
    BY <2>1, <2>2 DEF cut
<1>5. QED
  BY <1>1, <1>3, <1>4

LEMMA InOrderRead == EasyInv /\ InOrder /\ ReadBytes => InOrder'
<1>1. SUFFICES ASSUME EasyInv, InOrder, ReadBytes, lost' = {}
      PROVE  /\ B!IInv'
             /\ \A i \in 1 .. Len(rx') : rx'[i] = consumed' + i
             /\ executed' \in Seq(Nat) /\ Len(executed') = Len(verdicts')
             /\ InOrderUntilLoss'
             /\ answered' = CommandsAmong(Len(verdicts))'
  BY DEF InOrder
<1>2. /\ lost = {} /\ rx' = << >> /\ kinds' = kinds /\ out' = out
      /\ verdicts \in Seq(Verdicts) /\ Len(verdicts) \in Nat
  BY <1>1 DEF ReadBytes, pi, EasyInv, Shapes
<1>3. /\ B!IInv
      /\ \A i \in 1 .. Len(rx) : rx[i] = consumed + i
      /\ executed \in Seq(Nat) /\ Len(executed) = Len(verdicts)
      /\ InOrderUntilLoss
      /\ answered = CommandsAmong(Len(verdicts))
  BY <1>1, <1>2 DEF InOrder
<1>4. ReadsPart \/ \E v \in Verdicts, answers \in BOOLEAN : ReadsPacket(v, answers)
  BY <1>1, ReadBytesCases DEF EasyInv
<1>5. cut' = IF result' = "PACKET_COMPLETE" THEN cut + P ELSE cut
  BY <1>1, CutAdvances
<1>6. B!IInv'
  <2> DEFINE len == Len(rx)
  <2>1. /\ len \in 1 .. RxSize /\ B!Feed(len)
        /\ A!Complete(rx) => B!Complete(B!Arriving(len))
        /\ A!Incomplete(rx) => B!Incomplete(B!Arriving(len))
    BY <1>1, <1>3, <1>5, ReadIsFeed DEF EasyInv
  <2>2. CASE A!Complete(rx)
    BY <1>3, <2>1, <2>2, Receives, B!CompleteKeepsIInv
  <2>3. CASE A!Incomplete(rx)
    BY <1>3, <2>1, <2>3, Receives, B!IncompleteKeepsIInv
  <2>4. QED
    BY <1>1, <2>2, <2>3 DEF ReadBytes, A!assemble
<1>7. \A i \in 1 .. Len(rx') : rx'[i] = consumed' + i
  BY <1>2
<1>8. CASE ReadsPart
  BY <1>2, <1>3, <1>6, <1>7, <1>8 DEF ReadsPart, InOrderUntilLoss, CommandsAmong
<1>9. ASSUME NEW v \in Verdicts, NEW answers \in BOOLEAN, ReadsPacket(v, answers)
      PROVE  /\ executed' \in Seq(Nat) /\ Len(executed') = Len(verdicts')
             /\ InOrderUntilLoss'
             /\ answered' = CommandsAmong(Len(verdicts))'
  <2> DEFINE k == Len(verdicts)
  <2>1. /\ v = "PACKET_OK" /\ contents(outputBuffer') = k + 1
        /\ answers = (kinds[k + 1] = "COMMAND")
    BY <1>1, <1>6, <1>9, PacketInOrder
  <2>2. /\ verdicts' = Append(verdicts, "PACKET_OK")
        /\ executed' = Append(executed, k + 1)
        /\ answered' = IF answers THEN answered + 1 ELSE answered
    BY <1>9, <2>1 DEF ReadsPacket
  <2>3. executed' \in Seq(Nat) /\ Len(executed') = k + 1 /\ Len(verdicts') = k + 1
    BY <1>2, <1>3, <2>2
  <2>4. \A i \in 1 .. Len(executed') : executed'[i] = i
    BY <1>2, <1>3, <2>2, <2>3 DEF InOrderUntilLoss
  <2>5. \A i \in 1 .. Len(verdicts') : verdicts'[i] = "PACKET_OK"
    BY <1>2, <1>3, <2>2, <2>3 DEF InOrderUntilLoss
  <2>6. answered' = CommandsAmong(k + 1)
    BY <1>2, <1>3, <2>1, <2>2, OneMoreCommand
  <2>7. CommandsAmong(Len(verdicts))' = CommandsAmong(k + 1)
    BY <1>2, <2>3 DEF CommandsAmong
  <2>8. QED
    BY <2>3, <2>4, <2>5, <2>6, <2>7 DEF InOrderUntilLoss
<1>10. QED
  BY <1>4, <1>6, <1>7, <1>8, <1>9

IInv == EasyInv /\ InOrder

LEMMA NextKeepsIInv == IInv /\ [Next]_vars => IInv'
<1>1. SUFFICES ASSUME IInv, [Next]_vars PROVE IInv'
  OBVIOUS
<1>2. EasyInv /\ InOrder /\ EasyInv'
  BY <1>1, EasyNext DEF IInv
<1>3. CASE SendPacket
  BY <1>2, <1>3, InOrderSend DEF IInv
<1>4. CASE Wire
  BY <1>2, <1>4, InOrderWire DEF IInv
<1>5. CASE ReadNothing \/ Rest \/ Sleep \/ EncoderWakes \/ Write
  BY <1>2, <1>5, QuietSteps, InOrderQuiet DEF IInv
<1>6. CASE ReadBytes
  BY <1>2, <1>6, InOrderRead DEF IInv
<1>7. CASE UNCHANGED vars
  BY <1>2, <1>7, InOrderQuiet DEF IInv, NothingRead, vars
<1>8. QED
  BY <1>1, <1>3, <1>4, <1>5, <1>6, <1>7 DEF Next, Loop

LEMMA Invariance == Spec => []IInv
<1>1. Init => IInv
  BY EasyInit, InOrderInit DEF IInv
<1>2. QED
  BY <1>1, NextKeepsIInv, PTL DEF Spec

\* Until the first byte is lost, whatever the sizes of the packets and of the
\* reads, the packets are carried out in order and none is found bad.
THEOREM CarriedOutInOrder == Spec => []InOrderUntilLoss
<1>1. IInv => InOrderUntilLoss
  BY DEF IInv, InOrder, InOrderUntilLoss
<1>2. QED
  BY Invariance, <1>1, PTL

-----------------------------------------------------------------------------
(* A Pi that waits for each answer.                                         *)
\* When the Pi has heard an answer to each command it sent, nothing is on its
\* way to it, and only HELLOs can be without a verdict.
LEMMA QuietLine ==
    ASSUME IInv, Quiet, lost = {}
    PROVE  /\ tx = 0 /\ toSend = 0
           /\ \A i \in Len(verdicts) + 1 .. sent : kinds[i] = "HELLO"
<1> DEFINE k == Len(verdicts)
           S == {i \in 1 .. k : kinds[i] = "COMMAND"}
           T == {i \in 1 .. sent : kinds[i] = "COMMAND"}
<1>1. /\ B!IInv /\ answered = CommandsAmong(k) /\ kinds \in Seq(Kinds)
      /\ heard + tx + toSend = answered * P /\ heard = Cardinality(T) * P
  BY DEF IInv, EasyInv, InOrder, Shapes, AnswersAreWhole, Quiet, Commands
<1>2. k \in Nat /\ sent \in Nat /\ k <= sent
  BY <1>1, CutIsSent DEF IInv
<1>3. IsFiniteSet(T) /\ Cardinality(T) \in Nat
  <2>1. IsFiniteSet(1 .. sent)
    BY <1>2, FS_Interval
  <2>2. T \in SUBSET (1 .. sent)
    OBVIOUS
  <2>3. QED
    BY <2>1, <2>2, FS_Subset, FS_CardinalityType
<1>4. S \in SUBSET T
  BY <1>2
<1>5. Cardinality(S) \in Nat /\ Cardinality(S) <= Cardinality(T)
  BY <1>3, <1>4, FS_Subset, FS_CardinalityType
<1>6. answered = Cardinality(S)
  BY <1>1 DEF CommandsAmong
<1>7. tx \in Nat /\ toSend \in Nat /\ heard \in Nat
  BY Sizes DEF IInv, EasyInv, TypeOK
<1> HIDE DEF k, S, T
<1>8. /\ Cardinality(S) * P <= Cardinality(T) * P
      /\ Cardinality(S) * P \in Nat /\ Cardinality(T) * P \in Nat
  BY <1>3, <1>5, PacketsInOrder, OneMorePacket
<1>9. tx = 0 /\ toSend = 0 /\ Cardinality(T) * P <= Cardinality(S) * P
  BY <1>1, <1>6, <1>7, <1>8
<1>10. Cardinality(T) <= Cardinality(S)
  BY <1>3, <1>5, <1>9, PacketsInOrder
<1>11. Cardinality(S) = Cardinality(T)
  BY <1>3, <1>5, <1>10
<1>12. S = T
  BY <1>3, <1>4, <1>11, FS_Subset
<1>13. \A i \in k + 1 .. sent : kinds[i] = "HELLO"
  <2>1. SUFFICES ASSUME NEW i \in k + 1 .. sent PROVE kinds[i] = "HELLO"
    OBVIOUS
  <2>2. i \in 1 .. sent /\ i \notin 1 .. k
    BY <1>2
  <2>3. kinds[i] \in Kinds
    BY <1>1, <2>2 DEF sent
  <2>4. kinds[i] # "COMMAND"
    BY <1>12, <2>2 DEF S, T
  <2>5. QED
    BY <2>3, <2>4 DEF Kinds
<1>14. QED
  BY <1>9, <1>13 DEF k

LEMMA PacedSend == IInv /\ Paced /\ SendPacket => Paced'
<1>1. SUFFICES ASSUME IInv, Paced, SendPacket, ~rushed' PROVE Paced'
  BY DEF Paced
<1>2. /\ ~rushed /\ Quiet /\ lost = {}
      /\ pc = "send" => rx = << >>
      /\ pc \in {"rest", "idle", "asleep"} => Len(rx) <= 1
  BY <1>1 DEF SendPacket, Paced
<1>3. tx = 0 /\ toSend = 0 /\ \A i \in Len(verdicts) + 1 .. sent : kinds[i] = "HELLO"
  BY <1>1, <1>2, QuietLine
<1>4. UNCHANGED <<lost, rx, tx, pc, toSend, verdicts>>
  BY <1>1 DEF SendPacket, receiver
<1>5. OnlyHellosWait'
  <2>1. PICK kind \in Kinds : kinds' = Append(kinds, kind)
    BY <1>1 DEF SendPacket, Kinds
  <2>2. kinds \in Seq(Kinds) /\ verdicts \in Seq(Verdicts)
    BY <1>1 DEF IInv, EasyInv, Shapes
  <2>3. sent \in Nat /\ Len(verdicts) \in Nat /\ sent' = sent + 1
    BY <2>1, <2>2 DEF sent
  <2>4. \A i \in 1 .. sent : kinds'[i] = kinds[i]
    BY <2>1, <2>2 DEF sent
  <2>5. QED
    BY <1>3, <1>4, <2>3, <2>4 DEF OnlyHellosWait
<1>6. QED
  BY <1>2, <1>3, <1>4, <1>5 DEF Paced

LEMMA PacedWire ==
    ASSUME RxSize >= 2, IInv, Paced, Wire
    PROVE  Paced'
<1>1. SUFFICES ASSUME ~rushed PROVE Paced'
  BY DEF Wire, pi, Paced
<1>2. /\ lost = {}
      /\ out < sent * P => tx = 0 /\ toSend = 0 /\ OnlyHellosWait
      /\ pc = "send" => rx = << >>
      /\ pc \in {"rest", "idle", "asleep"} => Len(rx) <= 1
  BY <1>1 DEF Paced
<1>3. /\ UNCHANGED <<kinds, verdicts, toSend>> /\ sent' = sent
      /\ OnlyHellosWait => OnlyHellosWait'
      /\ pc' = IF pc = "asleep" THEN "read" ELSE pc
      /\ tx = 0 => tx' = 0
  BY DEF Wire, Transmit, pi, receiver, sent, OnlyHellosWait
<1>4. /\ rx \in Seq(Nat) /\ (~due => rx = << >>) /\ (pc = "send" => toSend > 0)
      /\ sent * P \in Nat /\ out \in Nat /\ TxSize >= 1
  <2>1. kinds \in Seq(Kinds) /\ rx \in Seq(Nat)
    BY DEF IInv, EasyInv, Shapes
  <2>2. sent * P \in Nat
    BY <2>1, OneMorePacket DEF sent
  <2>3. QED
    BY <2>1, <2>2, Sizes DEF IInv, EasyInv, Shapes, TypeOK
<1>5. CASE UNCHANGED <<out, rx, lost>>
  BY <1>2, <1>3, <1>5 DEF Paced
<1>6. ASSUME out < sent * P
      PROVE  tx = 0 /\ toSend = 0 /\ OnlyHellosWait /\ ~Blocked /\ pc # "send"
             /\ (rx = << >> \/ pc = "asleep")
  <2>1. tx = 0 /\ toSend = 0 /\ OnlyHellosWait
    BY <1>2, <1>6
  <2>2. ~Blocked /\ pc # "send"
    BY <1>4, <2>1 DEF Blocked
  <2>3. rx = << >> \/ pc = "asleep"
    BY <1>4, <2>2 DEF Wire
  <2>4. QED
    BY <2>1, <2>2, <2>3
<1>7. CASE /\ out < sent * P
           /\ out' = out + 1 /\ rx' = Append(rx, out + 1)
           /\ UNCHANGED lost
  <2>1. pc # "asleep" => Len(rx') = 1
    BY <1>4, <1>6, <1>7
  <2>2. QED
    BY <1>2, <1>3, <1>6, <1>7, <2>1 DEF Paced
<1>8. CASE out < sent * P /\ Len(rx) >= RxSize
  <2>1. rx # << >> /\ ~(Len(rx) <= 1)
    BY <1>4, <1>8, Sizes
  <2>2. QED
    BY <1>2, <1>6, <1>8, <2>1
<1>9. QED
  BY <1>5, <1>7, <1>8 DEF Wire, Arrive

LEMMA PacedQuiet ==
    ASSUME IInv, Paced, ReadNothing \/ Rest \/ Sleep \/ EncoderWakes \/ Write
    PROVE  Paced'
<1>1. SUFFICES ASSUME ~rushed PROVE Paced'
  BY DEF ReadNothing, Rest, Sleep, EncoderWakes, Write, pi, Paced
<1>2. /\ lost = {}
      /\ out < sent * P => tx = 0 /\ toSend = 0 /\ OnlyHellosWait
      /\ pc = "send" => rx = << >>
      /\ pc \in {"rest", "idle", "asleep"} => Len(rx) <= 1
  BY <1>1 DEF Paced
<1>3. CASE ReadNothing \/ Rest \/ Sleep \/ EncoderWakes
  <2>1. UNCHANGED <<kinds, verdicts, out, lost, rx, tx, toSend>>
    BY <1>3 DEF ReadNothing, Rest, Sleep, EncoderWakes, pi, receiver
  <2>2. OnlyHellosWait' <=> OnlyHellosWait
    BY <2>1 DEF OnlyHellosWait, sent
  <2>3. pc' # "send"
    BY <1>3 DEF ReadNothing, Rest, Sleep, EncoderWakes
  <2>4. pc' \in {"rest", "idle", "asleep"} => Len(rx) <= 1
    <3>1. CASE ReadNothing
      BY <3>1 DEF ReadNothing
    <3>2. CASE Rest \/ Sleep \/ EncoderWakes
      BY <1>2, <3>2 DEF Rest, Sleep, EncoderWakes
    <3>3. QED
      BY <1>3, <3>1, <3>2
  <2>5. QED
    BY <1>2, <2>1, <2>2, <2>3, <2>4 DEF Paced, sent
<1>4. CASE Write
  <2>1. pc = "send" /\ toSend > 0 /\ UNCHANGED <<kinds, verdicts, out, lost, rx>>
    BY <1>4 DEF Write, pi, receiver
  <2>2. ~(out < sent * P) /\ rx = << >>
    BY <1>2, <2>1
  <2>3. QED
    BY <1>2, <2>1, <2>2 DEF Paced, sent
<1>5. QED
  BY <1>3, <1>4

LEMMA PacedRead ==
    ASSUME IInv, IInv', Paced, ReadBytes
    PROVE  Paced'
<1>1. SUFFICES ASSUME ~rushed PROVE Paced'
  BY DEF ReadBytes, pi, Paced
<1>2. /\ lost = {} /\ lost' = {} /\ rx' = << >>
      /\ out < sent * P => tx = 0 /\ toSend = 0 /\ OnlyHellosWait
      /\ UNCHANGED <<kinds, out, tx>> /\ sent' = sent
  BY <1>1 DEF Paced, ReadBytes, pi, sent
<1>3. Len(rx') <= 1
  BY <1>2
<1>4. ReadsPart \/ \E v \in Verdicts, answers \in BOOLEAN : ReadsPacket(v, answers)
  BY ReadBytesCases DEF IInv, EasyInv
<1>5. B!IInv /\ B!IInv'
  BY <1>2 DEF IInv, InOrder
<1>6. out < sent * P => toSend' = 0 /\ OnlyHellosWait'
  <2>1. CASE ReadsPart
    BY <1>2, <2>1 DEF ReadsPart, OnlyHellosWait
  <2>2. ASSUME NEW v \in Verdicts, NEW answers \in BOOLEAN, ReadsPacket(v, answers),
               out < sent * P
        PROVE  toSend' = 0 /\ OnlyHellosWait'
    <3> DEFINE k == Len(verdicts)
    <3>1. answers = (kinds[k + 1] = "COMMAND")
      BY <1>5, <2>2, PacketInOrder DEF IInv
    <3>2. k \in Nat /\ Len(verdicts') = k + 1
      BY <2>2 DEF ReadsPacket, IInv, EasyInv, Shapes
    <3>3. sent \in Nat /\ cut' <= out /\ out \in Nat /\ cut' \in Nat /\ sent * P \in Nat
      <4>1. sent \in Nat /\ sent * P \in Nat /\ out \in Nat
        BY <1>5, CutIsSent DEF IInv
      <4>2. consumed' = out
        BY <1>2, <4>1 DEF consumed
      <4>3. cut' \in Nat /\ consumed' = cut' + counter' + leftoverCount'
        BY <1>5 DEF B!IInv, B!TypeOK, B!EveryByteAccountedFor
      <4>4. counter' \in Nat /\ leftoverCount' \in Nat
        BY <1>5, Sizes DEF B!IInv, B!TypeOK
      <4>5. ASSUME NEW a \in Nat, NEW b \in Nat, NEW c \in Nat PROVE a <= a + b + c
        OBVIOUS
      <4>6. cut' <= consumed'
        BY <4>3, <4>4, <4>5
      <4>7. QED
        BY <4>1, <4>2, <4>3, <4>6
    <3>4. k + 1 <= sent - 1
      <4>1. ASSUME sent <= k + 1 PROVE FALSE
        <5>1. sent * P <= (k + 1) * P
          BY <3>2, <3>3, <4>1, PacketsInOrder
        <5>2. QED
          BY <2>2, <3>2, <3>3, <5>1 DEF cut
      <4>2. QED
        BY <3>2, <3>3, <4>1
    <3>5. kinds[k + 1] = "HELLO"
      BY <1>2, <2>2, <3>2, <3>3, <3>4 DEF OnlyHellosWait
    <3>6. toSend' = 0
      BY <1>2, <2>2, <3>1, <3>5 DEF ReadsPacket
    <3>7. OnlyHellosWait'
      BY <1>2, <2>2, <3>2, <3>3 DEF OnlyHellosWait
    <3>8. QED
      BY <3>6, <3>7
  <2>3. QED
    BY <1>4, <2>1, <2>2
<1>7. QED
  BY <1>2, <1>3, <1>6 DEF Paced

LEMMA PacedNext ==
    ASSUME RxSize >= 2
    PROVE  IInv /\ IInv' /\ Paced /\ [Next]_vars => Paced'
<1>1. SUFFICES ASSUME IInv, IInv', Paced, [Next]_vars PROVE Paced'
  OBVIOUS
<1>2. CASE SendPacket
  BY <1>1, <1>2, PacedSend
<1>3. CASE Wire
  BY <1>1, <1>3, PacedWire
<1>4. CASE ReadNothing \/ Rest \/ Sleep \/ EncoderWakes \/ Write
  BY <1>1, <1>4, PacedQuiet
<1>5. CASE ReadBytes
  BY <1>1, <1>5, PacedRead
<1>6. CASE UNCHANGED vars
  BY <1>1, <1>6 DEF Paced, OnlyHellosWait, sent, vars, pi, receiver
<1>7. QED
  BY <1>1, <1>2, <1>3, <1>4, <1>5, <1>6 DEF Next, Loop

\* A Pi that sends a packet only when its last one has left and every command
\* has been answered never has a byte dropped, if the ring holds two bytes: the
\* one that comes before the loop goes to sleep, and the one that wakes it.
THEOREM WaitingIsEnough ==
    ASSUME RxSize >= 2
    PROVE  Spec => []PacedLosesNothing
<1>1. Init => Paced
  BY Sizes DEF Init, Paced, sent
<1>2. Paced => PacedLosesNothing
  BY DEF Paced, PacedLosesNothing
<1>3. IInv /\ IInv' /\ Paced /\ [Next]_vars => Paced'
  BY PacedNext
<1>4. QED
  BY Invariance, <1>1, <1>2, <1>3, PTL DEF Spec

-----------------------------------------------------------------------------
(* After a loss.  assemble() cuts what is left of the stream as if nothing  *)
(* were missing: the receiver of AssembleProofs again, of the bytes that    *)
(* were received, each known by its place among them.                       *)

\* The place of byte b among the bytes that are not in L.
Rank(L, b) == b - Cardinality({l \in L : l < b})
Ranked(L, buffer) == [i \in 1 .. P |-> Rank(L, buffer[i])]

\* The bytes that the ring took and that have left it.
received == out - Cardinality(lost) - Len(rx)

C == INSTANCE AssembleProofs WITH
         ReadMax <- RxSize, MaxFed <- MaxPackets * P, fed <- received, base <- cut,
         leftoverBuffer <- Ranked(lost, leftoverBuffer),
         outputBuffer <- Ranked(lost, outputBuffer)

\* With or without losses, the ring holds what was received from the last byte
\* read on, and the packets are cut from what was received.
BuffersFilled == /\ outputBuffer \in [1 .. P -> 0 .. out]
                 /\ leftoverBuffer \in [1 .. P -> 0 .. out]

RingInOrder ==
    \A i \in 1 .. Len(rx) : rx[i] \in 1 .. out /\ Rank(lost, rx[i]) = received + i

CutAsReceived == C!IInv /\ RingInOrder /\ BuffersFilled

LEMMA Counts ==
    ASSUME EasyInv
    PROVE  /\ out \in Nat /\ sent \in Nat /\ sent * P \in Nat /\ out <= sent * P
           /\ sent <= MaxPackets /\ rx \in Seq(Nat) /\ Len(rx) \in Nat
           /\ verdicts \in Seq(Verdicts) /\ Len(verdicts) \in Nat
           /\ IsFiniteSet(lost) /\ Cardinality(lost) \in Nat
           /\ lost \subseteq 1 .. out
<1>1. kinds \in Seq(Kinds) /\ rx \in Seq(Nat) /\ verdicts \in Seq(Verdicts)
  BY DEF EasyInv, Shapes
<1>2. sent \in Nat /\ Len(rx) \in Nat /\ Len(verdicts) \in Nat
  BY <1>1 DEF sent
<1>3. sent * P \in Nat
  BY <1>2, OneMorePacket
<1>4. out \in Nat /\ out <= sent * P
  BY <1>3 DEF EasyInv, TypeOK
<1>5. sent <= MaxPackets /\ lost \subseteq 1 .. out
  BY DEF EasyInv, TypeOK
<1>6. IsFiniteSet(1 .. out)
  BY <1>4, FS_Interval
<1>7. IsFiniteSet(lost) /\ Cardinality(lost) \in Nat
  BY <1>5, <1>6, FS_Subset, FS_CardinalityType
<1>8. QED
  BY <1>1, <1>2, <1>3, <1>4, <1>5, <1>7

\* A byte has a place among the others, which later losses leave as it is.
LEMMA RankIsPlace ==
    ASSUME NEW L, NEW n \in Nat, L \subseteq 1 .. n, NEW b \in 0 .. n
    PROVE  Rank(L, b) \in Nat /\ Rank(L \cup {n + 1}, b) = Rank(L, b)
<1> DEFINE S == {l \in L : l < b}
<1>1. Rank(L, b) \in Nat
  <2>1. S \subseteq 1 .. b
    <3>1. \A l \in L : l \in Nat /\ l >= 1
      OBVIOUS
    <3>2. \A l \in S : l \in 1 .. b
      BY <3>1
    <3>3. QED
      BY <3>2
  <2>2. IsFiniteSet(1 .. b) /\ Cardinality(1 .. b) = b
    <3>1. 1 <= b => Cardinality(1 .. b) = b - 1 + 1
      BY FS_Interval
    <3>2. b = 0 => Cardinality(1 .. b) = 0
      BY FS_Interval
    <3>3. QED
      BY <3>1, <3>2, FS_Interval
  <2>3. Cardinality(S) \in Nat /\ Cardinality(S) <= b
    BY <2>1, <2>2, FS_Subset, FS_CardinalityType
  <2> HIDE DEF S
  <2>4. b - Cardinality(S) \in Nat
    BY <2>3
  <2>5. QED
    BY <2>4 DEF Rank, S
<1>2. Rank(L \cup {n + 1}, b) = Rank(L, b)
  <2>1. {l \in L \cup {n + 1} : l < b} = S
    OBVIOUS
  <2>2. QED
    BY <2>1 DEF Rank
<1>3. QED
  BY <1>1, <1>2

\* A byte after all the losses.
LEMMA RankAfterLosses ==
    ASSUME NEW L, NEW b, \A l \in L : l < b
    PROVE  Rank(L, b) = b - Cardinality(L)
<1>1. {l \in L : l < b} = L
  OBVIOUS
<1>2. QED
  BY <1>1 DEF Rank

LEMMA ReceivesRanks == C!AssembleAssumption
BY SerialLinkAssumption DEF SerialLinkAssumption, C!AssembleAssumption

LEMMA CutInit == Init => CutAsReceived
<1>1. SUFFICES ASSUME Init PROVE CutAsReceived
  OBVIOUS
<1>2. Len(verdicts) = 0 /\ Len(rx) = 0 /\ out = 0 /\ lost = {} /\ rx = << >>
  BY <1>1 DEF Init
<1>3. received = 0 /\ cut = 0
  <2>1. Cardinality({}) = 0
    BY FS_EmptySet
  <2>2. 0 * P = 0
    BY Sizes
  <2>3. QED
    BY <1>2, <2>1, <2>2 DEF received, cut
<1>4. \A i \in 1 .. P : outputBuffer[i] = 0 /\ leftoverBuffer[i] = 0
  BY <1>1 DEF Init, A!StaticInit, A!Index
<1>5. Rank({}, 0) = 0
  <2>1. {l \in {} : l < 0} = {}
    OBVIOUS
  <2>2. QED
    BY <2>1, FS_EmptySet DEF Rank
<1>6. /\ Ranked(lost, outputBuffer) = [i \in 1 .. P |-> 0]
      /\ Ranked(lost, leftoverBuffer) = [i \in 1 .. P |-> 0]
  BY <1>2, <1>4, <1>5 DEF Ranked
<1>7. C!Init
  BY <1>1, <1>3, <1>6 DEF Init, A!StaticInit, C!Init, C!StaticInit, C!Index
<1>8. C!IInv
  BY <1>7, ReceivesRanks, C!InitIInv
<1>9. BuffersFilled
  BY <1>1, <1>2 DEF Init, A!StaticInit, A!Index, BuffersFilled
<1>10. RingInOrder
  BY <1>2 DEF RingInOrder
<1>11. QED
  BY <1>8, <1>9, <1>10 DEF CutAsReceived

\* A step that does not read the ring.
LEMMA CutUnread ==
    ASSUME CutAsReceived, UNCHANGED receiver, received' = received,
           out \in Nat, out' \in Nat, out <= out',
           \A b \in 0 .. out : Rank(lost', b) = Rank(lost, b)
    PROVE  C!IInv' /\ BuffersFilled'
<1>1. UNCHANGED <<counter, leftoverFlag, leftoverCount, leftoverBuffer, outputBuffer,
                  result>> /\ cut' = cut
  BY DEF receiver, statics, cut
<1>2. \A i \in 1 .. P : outputBuffer[i] \in 0 .. out /\ leftoverBuffer[i] \in 0 .. out
  BY DEF CutAsReceived, BuffersFilled
<1>3. /\ Ranked(lost', outputBuffer') = Ranked(lost, outputBuffer)
      /\ Ranked(lost', leftoverBuffer') = Ranked(lost, leftoverBuffer)
  BY <1>1, <1>2 DEF Ranked
<1>4. C!IInv'
  BY <1>1, <1>3 DEF CutAsReceived, C!IInv, C!TypeOK, C!EveryByteAccountedFor,
                    C!KeptInOrder, C!WholePackets, C!Index
<1>5. 0 .. out \subseteq 0 .. out'
  OBVIOUS
<1>6. BuffersFilled'
  BY <1>1, <1>5 DEF CutAsReceived, BuffersFilled
<1>7. QED
  BY <1>4, <1>6

LEMMA CutQuiet ==
    ASSUME EasyInv, CutAsReceived, UNCHANGED <<receiver, lost, rx, out>>
    PROVE  CutAsReceived'
<1>1. received' = received /\ out \in Nat
  BY Counts DEF received
<1>2. C!IInv' /\ BuffersFilled'
  BY <1>1, CutUnread
<1>3. RingInOrder'
  BY <1>1 DEF CutAsReceived, RingInOrder
<1>4. QED
  BY <1>2, <1>3 DEF CutAsReceived

LEMMA CutWire == EasyInv /\ CutAsReceived /\ Wire => CutAsReceived'
<1>1. SUFFICES ASSUME EasyInv, CutAsReceived, Wire PROVE CutAsReceived'
  OBVIOUS
<1>2. UNCHANGED receiver
  BY <1>1 DEF Wire
<1>3. /\ out \in Nat /\ rx \in Seq(Nat) /\ Len(rx) \in Nat /\ lost \subseteq 1 .. out
      /\ IsFiniteSet(lost) /\ Cardinality(lost) \in Nat
  BY <1>1, Counts
<1>4. CASE UNCHANGED <<out, rx, lost>>
  BY <1>1, <1>2, <1>4, CutQuiet
<1>5. CASE /\ out' = out + 1 /\ rx' = Append(rx, out + 1)
           /\ UNCHANGED lost
  <2>1. Len(rx') = Len(rx) + 1 /\ received' = received
    <3>1. Len(rx') = Len(rx) + 1
      BY <1>3, <1>5
    <3>2. out + 1 - Cardinality(lost) - (Len(rx) + 1) = out - Cardinality(lost) - Len(rx)
      BY <1>3
    <3>3. out' = out + 1 /\ lost' = lost
      BY <1>5
    <3>4. received' = out' - Cardinality(lost') - Len(rx')
      BY DEF received
    <3>5. received' = out + 1 - Cardinality(lost) - (Len(rx) + 1)
      BY <1>3, <3>1, <3>3, <3>4
    <3>6. QED
      BY <3>1, <3>2, <3>5, Zenon DEF received
  <2>2. C!IInv' /\ BuffersFilled'
    BY <1>1, <1>2, <1>3, <1>5, <2>1, CutUnread
  <2>3. Rank(lost, out + 1) = received + (Len(rx) + 1)
    <3> DEFINE b == out + 1
    <3>1. \A l \in lost : l < b
      BY <1>3
    <3>2. Rank(lost, b) = b - Cardinality(lost)
      <4> HIDE DEF b
      <4>1. QED
        BY <3>1, RankAfterLosses
    <3>3. QED
      BY <1>3, <3>2 DEF received
  <2>4. ASSUME NEW i \in 1 .. Len(rx')
        PROVE  rx'[i] \in 1 .. out' /\ Rank(lost', rx'[i]) = received' + i
    <3>1. CASE i <= Len(rx)
      <4>1. i \in 1 .. Len(rx) /\ rx'[i] = rx[i]
        BY <1>3, <1>5, <2>1, <3>1
      <4>2. rx[i] \in 1 .. out /\ Rank(lost, rx[i]) = received + i
        BY <1>1, <4>1 DEF CutAsReceived, RingInOrder
      <4>3. rx[i] \in 1 .. out + 1
        BY <1>3, <4>2
      <4>4. QED
        BY <1>5, <2>1, <4>1, <4>2, <4>3
    <3>2. CASE i = Len(rx) + 1
      <4>1. rx'[i] = out + 1 /\ out + 1 \in 1 .. out + 1
        BY <1>3, <1>5, <3>2
      <4>2. QED
        BY <1>5, <2>1, <2>3, <3>2, <4>1
    <3>3. QED
      BY <1>3, <2>1, <3>1, <3>2
  <2>5. QED
    BY <2>2, <2>4 DEF CutAsReceived, RingInOrder
<1>6. CASE /\ out' = out + 1 /\ lost' = lost \cup {out + 1}
           /\ UNCHANGED rx
  <2>1. \A b \in 0 .. out : Rank(lost', b) = Rank(lost, b)
    BY <1>3, <1>6, RankIsPlace
  <2>2. received' = received
    <3>1. out + 1 \notin lost
      BY <1>3
    <3>2. Cardinality(lost') = Cardinality(lost) + 1
      BY <1>3, <1>6, <3>1, FS_AddElement
    <3>3. out + 1 - (Cardinality(lost) + 1) - Len(rx) = out - Cardinality(lost) - Len(rx)
      BY <1>3
    <3>4. out' = out + 1 /\ rx' = rx
      BY <1>6
    <3>5. received' = out' - Cardinality(lost') - Len(rx')
      BY DEF received
    <3>6. received' = out + 1 - (Cardinality(lost) + 1) - Len(rx)
      BY <1>3, <3>2, <3>4, <3>5
    <3>7. QED
      BY <3>3, <3>6, Zenon DEF received
  <2>3. C!IInv' /\ BuffersFilled'
    <3>1. out' \in Nat /\ out <= out'
      BY <1>3, <1>6
    <3>2. QED
      BY <1>1, <1>2, <1>3, <2>1, <2>2, <3>1, CutUnread
  <2>4. RingInOrder'
    <3>1. \A i \in 1 .. Len(rx) : rx[i] \in 0 .. out /\ rx[i] \in 1 .. out'
      BY <1>1, <1>3, <1>6 DEF CutAsReceived, RingInOrder
    <3>2. QED
      BY <1>1, <1>6, <2>1, <2>2, <3>1 DEF CutAsReceived, RingInOrder
  <2>5. QED
    BY <2>3, <2>4 DEF CutAsReceived
<1>7. QED
  BY <1>1, <1>4, <1>5, <1>6 DEF Wire, Arrive

\* A read of the ring is a Feed of what was received.
LEMMA LateRead ==
    ASSUME EasyInv, CutAsReceived, ReadBytes, NEW len, len = Len(rx),
           cut' = IF result' = "PACKET_COMPLETE" THEN cut + P ELSE cut
    PROVE  /\ len \in 1 .. RxSize /\ C!Feed(len) /\ BuffersFilled'
           /\ A!Complete(rx) => C!Complete(C!Arriving(len))
           /\ A!Incomplete(rx) => C!Incomplete(C!Arriving(len))
<1> DEFINE there == C!Arriving(len)
           early == Ranked(lost, outputBuffer)
           rest == Ranked(lost, leftoverBuffer)
<1>1. /\ rx \in Seq(Nat) /\ Len(rx) \in Nat /\ rx # << >>
      /\ rx' = << >> /\ UNCHANGED <<out, lost, kinds>>
  BY Counts DEF ReadBytes, pi
<1>2. len \in 1 .. RxSize /\ len \in Nat /\ len >= 1
  BY <1>1, Sizes DEF EasyInv, TypeOK
<1>3. received' = received + len /\ received \in Nat /\ received + len <= MaxPackets * P
  <2>1. /\ out \in Nat /\ Cardinality(lost) \in Nat /\ out <= sent * P /\ sent \in Nat
        /\ sent <= MaxPackets /\ sent * P \in Nat
    BY Counts
  <2>2. received \in Nat
    BY DEF CutAsReceived, C!IInv, C!TypeOK
  <2>3. Len(rx') = 0
    BY <1>1
  <2>4. received' = out - Cardinality(lost) - 0
    BY <1>1, <2>3, Zenon DEF received
  <2>5. received = out - Cardinality(lost) - len
    BY DEF received
  <2>6. sent * P <= MaxPackets * P /\ MaxPackets * P \in Nat
    BY <2>1, PacketsInOrder, OneMorePacket, Sizes
  <2> DEFINE N == Cardinality(lost)
             n == received
             n2 == received'
             big == sent * P
             bound == MaxPackets * P
  <2>7. n2 = out - N - 0 /\ n = out - N - len /\ n \in Nat /\ N \in Nat /\ out \in Nat
        /\ out <= big /\ big <= bound /\ big \in Nat /\ bound \in Nat
    BY <2>1, <2>2, <2>4, <2>5, <2>6
  <2> HIDE DEF N, n, n2, big, bound
  <2>8. n2 = n + len /\ n \in Nat /\ n + len <= bound
    BY <1>2, <2>7
  <2>9. QED
    BY <2>8 DEF n, n2, bound
<1>4. /\ there = [j \in 1 .. len |-> received + j] /\ Len(there) = len
      /\ \A j \in 1 .. len : there[j] = Rank(lost, rx[j]) /\ rx[j] \in 0 .. out
  <2>1. there = [j \in 1 .. len |-> received + j]
    BY DEF C!Arriving
  <2>2. Len(there) = len
    BY <1>2, <2>1
  <2>3. \A j \in 1 .. len : Rank(lost, rx[j]) = received + j /\ rx[j] \in 1 .. out
    BY DEF CutAsReceived, RingInOrder
  <2>4. \A j \in 1 .. len : there[j] = received + j
    BY <2>1
  <2>5. \A j \in 1 .. len : rx[j] \in 0 .. out
    BY <2>3, Counts
  <2> HIDE DEF there
  <2>6. QED
    BY <2>1, <2>2, <2>3, <2>4, <2>5
<1>5. /\ C!start = A!start /\ C!kept = A!kept /\ C!copyCount = A!copyCount
      /\ C!bytesLeft(len) = A!bytesLeft(len) /\ (C!reachesEnd(len) <=> A!reachesEnd(len))
  BY DEF A!reachesEnd, C!reachesEnd, A!start, C!start, A!copyCount, C!copyCount,
         A!kept, C!kept, A!bytesLeft, C!bytesLeft
<1>6. /\ A!start \in 0 .. P - 1 /\ A!kept = 0 /\ counter \in Nat /\ A!start \in Nat
      /\ leftoverCount \in 0 .. P - 1 /\ A!start = counter + leftoverCount
  <2>1. counter \in 0 .. P - 1 /\ leftoverCount \in 0 .. P - 1 /\ StaticShape
    BY DEF EasyInv, TypeOK, Shapes
  <2>2. CASE leftoverFlag
    BY <2>1, <2>2, Sizes DEF StaticShape, A!start, A!kept, A!copyCount
  <2>3. CASE ~leftoverFlag
    BY <2>1, <2>3, Sizes DEF StaticShape, A!start, A!kept, A!copyCount
  <2>4. QED
    BY <2>2, <2>3
<1>7. A!bytesLeft(len) \in 0 .. len
  BY <1>2, <1>6, Sizes DEF A!bytesLeft, A!reachesEnd
<1>8. \A i \in 1 .. P : outputBuffer[i] \in 0 .. out /\ leftoverBuffer[i] \in 0 .. out
  BY DEF CutAsReceived, BuffersFilled
<1>9. /\ A!filled(rx) \in [1 .. P -> 0 .. out]
      /\ Ranked(lost, A!filled(rx)) = C!filled(there)
  <2>1. ASSUME NEW i \in 1 .. P
        PROVE  /\ A!filled(rx)[i] \in 0 .. out
               /\ Rank(lost, A!filled(rx)[i]) = C!filled(there)[i]
    <3>1. /\ A!filled(rx)[i] = IF i > counter /\ i <= A!start
                               THEN leftoverBuffer[i - counter]
                               ELSE IF i > A!start /\ i <= A!start + A!bytesLeft(len)
                                    THEN rx[i - A!start]
                                    ELSE outputBuffer[i]
      BY DEF A!filled, A!Index
    <3>2. /\ C!filled(there)[i] = IF i > counter /\ i <= A!start
                               THEN rest[i - counter]
                               ELSE IF i > A!start /\ i <= A!start + A!bytesLeft(len)
                                    THEN there[i - A!start]
                                    ELSE early[i]
      BY <1>4, <1>5 DEF C!filled, C!Index
    <3>3. CASE i > counter /\ i <= A!start
      <4>1. i - counter \in 1 .. P
        BY <1>6, <3>3, Sizes
      <4>2. rest[i - counter] = Rank(lost, leftoverBuffer[i - counter])
        BY <4>1 DEF Ranked
      <4>3. QED
        BY <1>8, <3>1, <3>2, <3>3, <4>1, <4>2
    <3>4. CASE ~(i > counter /\ i <= A!start) /\ i > A!start /\ i <= A!start + A!bytesLeft(len)
      <4>1. i - A!start \in 1 .. len
        BY <1>2, <1>6, <1>7, <3>4
      <4>2. QED
        BY <1>4, <3>1, <3>2, <3>4, <4>1
    <3>5. CASE ~(i > counter /\ i <= A!start) /\ ~(i > A!start /\ i <= A!start + A!bytesLeft(len))
      <4>1. early[i] = Rank(lost, outputBuffer[i])
        BY DEF Ranked
      <4>2. QED
        BY <1>8, <3>1, <3>2, <3>5, <4>1
    <3>6. QED
      BY <3>3, <3>4, <3>5
  <2>2. A!filled(rx) = [i \in 1 .. P |-> A!filled(rx)[i]]
    BY DEF A!filled, A!Index
  <2>3. C!filled(there) = [i \in 1 .. P |-> C!filled(there)[i]]
    BY DEF C!filled, C!Index
  <2>4. A!filled(rx) \in [1 .. P -> 0 .. out]
    BY <2>1, <2>2
  <2>5. Ranked(lost, A!filled(rx)) = [i \in 1 .. P |-> C!filled(there)[i]]
    BY <2>1 DEF Ranked
  <2>6. QED
    BY <2>3, <2>4, <2>5
<1>10. /\ A!saved(rx) \in [1 .. P -> 0 .. out]
       /\ Ranked(lost, A!saved(rx)) = C!saved(there)
  <2>1. ASSUME NEW i \in 1 .. P
        PROVE  /\ A!saved(rx)[i] \in 0 .. out
               /\ Rank(lost, A!saved(rx)[i]) = C!saved(there)[i]
    <3>1. A!saved(rx)[i] = IF i > 0 /\ i <= 0 + len - A!bytesLeft(len)
                           THEN rx[A!bytesLeft(len) + i - 0] ELSE leftoverBuffer[i]
      BY <1>6 DEF A!saved, A!Index
    <3>2. C!saved(there)[i] = IF i > 0 /\ i <= 0 + len - A!bytesLeft(len)
                           THEN there[A!bytesLeft(len) + i - 0] ELSE rest[i]
      BY <1>4, <1>5, <1>6 DEF C!saved, C!Index
    <3>3. CASE i > 0 /\ i <= 0 + len - A!bytesLeft(len)
      <4>1. A!bytesLeft(len) + i - 0 \in 1 .. len
        BY <1>2, <1>7, <3>3
      <4>2. QED
        BY <1>4, <3>1, <3>2, <3>3, <4>1
    <3>4. CASE ~(i > 0 /\ i <= 0 + len - A!bytesLeft(len))
      <4>1. rest[i] = Rank(lost, leftoverBuffer[i])
        BY DEF Ranked
      <4>2. QED
        BY <1>8, <3>1, <3>2, <3>4, <4>1
    <3>5. QED
      BY <3>3, <3>4
  <2>2. A!saved(rx) = [i \in 1 .. P |-> A!saved(rx)[i]]
    BY DEF A!saved, A!Index
  <2>3. C!saved(there) = [i \in 1 .. P |-> C!saved(there)[i]]
    BY DEF C!saved, C!Index
  <2>4. A!saved(rx) \in [1 .. P -> 0 .. out]
    BY <2>1, <2>2
  <2>5. Ranked(lost, A!saved(rx)) = [i \in 1 .. P |-> C!saved(there)[i]]
    BY <2>1 DEF Ranked
  <2>6. QED
    BY <2>3, <2>4, <2>5
<1> HIDE DEF there
<1>11. A!Complete(rx) => C!Complete(there)
  <2>1. SUFFICES ASSUME A!Complete(rx) PROVE C!Complete(there)
    OBVIOUS
  <2>2. /\ A!reachesEnd(len) /\ outputBuffer' = A!filled(rx) /\ leftoverFlag' = TRUE
        /\ leftoverBuffer' = A!saved(rx)
        /\ leftoverCount' = A!kept + len - A!bytesLeft(len)
        /\ counter' = 0 /\ result' = "PACKET_COMPLETE"
    BY <2>1 DEF A!Complete
  <2>3. /\ Ranked(lost', outputBuffer') = C!filled(there)
        /\ Ranked(lost', leftoverBuffer') = C!saved(there)
    BY <1>1, <1>9, <1>10, <2>2
  <2>4. C!reachesEnd(Len(there)) /\ leftoverCount' = C!kept + Len(there) - C!bytesLeft(Len(there))
    BY <1>4, <1>5, <2>2
  <2>5. QED
    BY <2>2, <2>3, <2>4, Zenon DEF C!Complete
<1>12. A!Incomplete(rx) => C!Incomplete(there)
  <2>1. SUFFICES ASSUME A!Incomplete(rx) PROVE C!Incomplete(there)
    OBVIOUS
  <2>2. /\ ~A!reachesEnd(len) /\ outputBuffer' = A!filled(rx)
        /\ leftoverFlag' = (leftoverFlag /\ leftoverCount > P)
        /\ leftoverBuffer' = leftoverBuffer
        /\ leftoverCount' = A!kept
        /\ counter' = A!start + len /\ result' = "PACKET_INCOMPLETE"
    BY <2>1 DEF A!Incomplete
  <2>3. /\ Ranked(lost', outputBuffer') = C!filled(there)
        /\ Ranked(lost', leftoverBuffer') = Ranked(lost, leftoverBuffer)
    BY <1>1, <1>9, <2>2
  <2>4. ~C!reachesEnd(Len(there)) /\ leftoverCount' = C!kept /\ counter' = C!start + Len(there)
    BY <1>4, <1>5, <2>2
  <2>5. QED
    BY <2>2, <2>3, <2>4, Zenon DEF C!Incomplete
<1>13. BuffersFilled'
  <2>1. outputBuffer' = A!filled(rx) /\ leftoverBuffer' \in {A!saved(rx), leftoverBuffer}
    BY DEF ReadBytes, A!assemble, A!Complete, A!Incomplete
  <2>2. leftoverBuffer \in [1 .. P -> 0 .. out]
    BY DEF CutAsReceived, BuffersFilled
  <2>3. QED
    BY <1>1, <1>9, <1>10, <2>1, <2>2 DEF BuffersFilled
<1>14. C!Feed(len)
  <2>1. C!assemble(there)
    BY <1>11, <1>12 DEF ReadBytes, A!assemble, C!assemble
  <2>2. QED
    BY <1>3, <2>1 DEF C!Feed, there
<1>15. QED
  BY <1>2, <1>11, <1>12, <1>13, <1>14 DEF there

LEMMA CutRead == EasyInv /\ CutAsReceived /\ ReadBytes => CutAsReceived'
<1>1. SUFFICES ASSUME EasyInv, CutAsReceived, ReadBytes PROVE CutAsReceived'
  OBVIOUS
<1> DEFINE len == Len(rx)
<1>2. cut' = IF result' = "PACKET_COMPLETE" THEN cut + P ELSE cut
  BY <1>1, CutAdvances
<1>3. /\ len \in 1 .. RxSize /\ C!Feed(len) /\ BuffersFilled'
      /\ A!Complete(rx) => C!Complete(C!Arriving(len))
      /\ A!Incomplete(rx) => C!Incomplete(C!Arriving(len))
  BY <1>1, <1>2, LateRead
<1>4. C!IInv
  BY <1>1 DEF CutAsReceived
<1>5. CASE A!Complete(rx)
  <2>1. C!Complete(C!Arriving(len))
    BY <1>3, <1>5
  <2>2. C!IInv'
    BY <1>3, <1>4, <2>1, ReceivesRanks, C!CompleteKeepsIInv
  <2>3. rx' = << >>
    BY <1>1 DEF ReadBytes
  <2>4. QED
    BY <1>3, <2>2, <2>3 DEF CutAsReceived, RingInOrder
<1>6. CASE A!Incomplete(rx)
  <2>1. C!Incomplete(C!Arriving(len))
    BY <1>3, <1>6
  <2>2. C!IInv'
    BY <1>3, <1>4, <2>1, ReceivesRanks, C!IncompleteKeepsIInv
  <2>3. rx' = << >>
    BY <1>1 DEF ReadBytes
  <2>4. QED
    BY <1>3, <2>2, <2>3 DEF CutAsReceived, RingInOrder
<1>7. QED
  BY <1>1, <1>5, <1>6 DEF ReadBytes, A!assemble

LEMMA CutNext == EasyInv /\ CutAsReceived /\ [Next]_vars => CutAsReceived'
<1>1. SUFFICES ASSUME EasyInv, CutAsReceived, [Next]_vars PROVE CutAsReceived'
  OBVIOUS
<1>2. CASE Wire
  BY <1>1, <1>2, CutWire
<1>3. CASE ReadBytes
  BY <1>1, <1>3, CutRead
<1>4. CASE SendPacket \/ Write
  <2>1. UNCHANGED <<receiver, lost, rx, out>>
    BY <1>4 DEF SendPacket, Write
  <2>2. QED
    BY <1>1, <2>1, CutQuiet
<1>5. CASE ReadNothing \/ Rest \/ Sleep \/ EncoderWakes
  <2>1. UNCHANGED <<receiver, lost, rx, out>>
    BY <1>5 DEF ReadNothing, Rest, Sleep, EncoderWakes
  <2>2. QED
    BY <1>1, <2>1, CutQuiet
<1>6. CASE UNCHANGED vars
  <2>1. UNCHANGED <<receiver, lost, rx, out>>
    BY <1>6 DEF vars
  <2>2. QED
    BY <1>1, <2>1, CutQuiet
<1>7. QED
  BY <1>1, <1>2, <1>3, <1>4, <1>5, <1>6 DEF Next, Loop

LEMMA CutInvariance == Spec => []CutAsReceived
<1>1. QED
  BY EasyInvariance, CutInit, CutNext, PTL DEF Spec

\* A buffer that starts in the middle of a packet.
LEMMA MisplacedIsBad ==
    ASSUME NEW buffer, NEW k \in Nat, NEW n \in Nat, n % P # 0,
           buffer[1] = k * P + 1 + n
    PROVE  verdict(buffer) = {"PACKET_BAD"}
<1> DEFINE q == n \div P
           r == n % P
<1>1. q \in Nat /\ P * q <= n /\ n < P * q + P /\ r = n - P * q /\ q * P = P * q
      /\ q * P \in Nat
  <2>1. P \in Nat \ {0}
    BY Sizes
  <2>2. q \in Nat /\ P * q <= n /\ n < P * q + P /\ r = n - P * q
    BY <2>1, Quotient
  <2> HIDE DEF q, r
  <2>3. q * P = P * q /\ q * P \in Nat
    BY <2>1, <2>2
  <2>4. QED
    BY <2>2, <2>3
<1>2. r # 0
  OBVIOUS
<1> HIDE DEF q, r
<1>3. r + 1 \in 1 .. P /\ r + 1 # 1 /\ n = q * P + r
  <2> DEFINE qP == q * P
  <2>1. qP \in Nat /\ qP <= n /\ n < qP + P /\ r = n - qP
    BY <1>1
  <2> HIDE DEF qP
  <2>2. r + 1 \in 1 .. P /\ r + 1 # 1 /\ n = qP + r
    BY <1>2, <2>1, Sizes
  <2>3. QED
    BY <2>2 DEF qP
<1>4. buffer[1] = (k + q) * P + (r + 1)
  <2>1. (k + q) * P = k * P + q * P
    BY <1>1, Sizes
  <2>2. k * P \in Nat /\ q * P \in Nat
    BY <1>1, OneMorePacket
  <2> DEFINE kP == k * P
             qP == q * P
  <2>3. r \in Nat
    BY <1>1, <1>3
  <2> HIDE DEF kP, qP
  <2>4. kP + 1 + (qP + r) = kP + qP + (r + 1)
    BY <2>2, <2>3 DEF kP, qP
  <2>5. QED
    BY <1>3, <2>1, <2>4, Zenon DEF kP, qP
<1>5. Place(buffer[1]) = r + 1
  <2> DEFINE m == k + q
             i == r + 1
  <2>1. m \in Nat /\ i \in 1 .. P
    BY <1>1, <1>3
  <2> HIDE DEF m, i
  <2>2. Place(m * P + i) = i
    BY <2>1, PlaceInPacket
  <2>3. QED
    BY <1>4, <2>2 DEF m, i
<1>6. ~magicOK(buffer)
  <2>1. 1 \in 1 .. Magic
    BY Sizes
  <2>2. Place(buffer[1]) # 1
    BY <1>3, <1>5
  <2>3. QED
    BY <2>1, <2>2 DEF magicOK
<1>7. QED
  BY <1>6 DEF verdict

\* The framing does not recover: the packets go on being cut P bytes at a time
\* from what is left, so that after a loss of any number of bytes that is no
\* multiple of the packet size, deserialize() finds no magic number at the
\* front of any packet until more is lost.
THEOREM FramingNeverRecovers == Spec => NeverResynchronises
<1>1. ASSUME EasyInv, CutAsReceived, CutAsReceived', ReadBytes,
             Len(verdicts') > Len(verdicts),
             \A b \in lost : b < outputBuffer'[1],
             Cardinality(lost) % P # 0
      PROVE  verdicts'[Len(verdicts')] = "PACKET_BAD"
  <2> DEFINE k == Len(verdicts)
             n == Cardinality(lost)
  <2>1. k \in Nat /\ n \in Nat /\ verdicts \in Seq(Verdicts)
    BY <1>1, Counts
  <2>2. PICK v \in Verdicts, answers \in BOOLEAN : ReadsPacket(v, answers)
    <3>1. ~ReadsPart
      BY <1>1, <2>1 DEF ReadsPart
    <3>2. QED
      BY <1>1, <3>1, ReadBytesCases DEF EasyInv
  <2>3. Len(verdicts') = k + 1 /\ verdicts'[k + 1] = v
    BY <2>1, <2>2 DEF ReadsPacket
  <2>4. cut' - P = k * P /\ k * P \in Nat
    <3>1. cut' = (k + 1) * P
      BY <2>3 DEF cut
    <3>2. (k + 1) * P = k * P + P /\ k * P \in Nat
      BY <2>1, OneMorePacket
    <3> DEFINE kP == k * P
    <3>3. cut' = kP + P /\ kP \in Nat
      BY <3>1, <3>2
    <3> HIDE DEF kP
    <3>4. cut' - P = kP
      BY <3>3, Sizes
    <3>5. QED
      BY <3>3, <3>4, Zenon DEF kP
  <2>5. Ranked(lost', outputBuffer')[1] = k * P + 1
    <3>1. result' = "PACKET_COMPLETE"
      BY <2>2 DEF ReadsPacket
    <3>2. \A i \in 1 .. P : Ranked(lost', outputBuffer')[i] = cut' - P + i
      BY <1>1, <3>1 DEF CutAsReceived, C!IInv, C!WholePackets, C!Index
    <3>3. QED
      BY <2>4, <3>2, Sizes
  <2>6. outputBuffer'[1] \in Nat
    <3>1. 1 \in 1 .. P /\ out \in Nat /\ out' = out
      BY <1>1, Sizes, Counts DEF ReadBytes
    <3>2. outputBuffer'[1] \in 0 .. out
      BY <1>1, <3>1 DEF CutAsReceived, BuffersFilled
    <3>3. QED
      BY <3>1, <3>2
  <2>7. outputBuffer'[1] = k * P + 1 + n
    <3> DEFINE b == outputBuffer'[1]
               kP == k * P
    <3>1. lost' = lost /\ 1 \in 1 .. P
      BY <1>1, Sizes DEF ReadBytes
    <3>2. Rank(lost, b) = kP + 1
      BY <2>5, <3>1 DEF Ranked
    <3>3. b \in Nat /\ kP \in Nat /\ \A l \in lost : l < b
      BY <1>1, <2>4, <2>6
    <3> HIDE DEF b, kP
    <3>4. Rank(lost, b) = b - n
      BY <3>3, RankAfterLosses
    <3> HIDE DEF n
    <3>5. b = kP + 1 + n
      BY <2>1, <3>2, <3>3, <3>4
    <3>6. QED
      BY <3>5 DEF b, kP
  <2>8. verdict(outputBuffer') = {"PACKET_BAD"}
    <3>1. n % P # 0
      BY <1>1
    <3> HIDE DEF k, n
    <3>2. QED
      BY <2>1, <2>7, <3>1, MisplacedIsBad
  <2>9. QED
    BY <2>2, <2>3, <2>8 DEF ReadsPacket
<1>2. ASSUME SendPacket \/ Wire \/ ReadNothing \/ Write \/ Rest \/ Sleep \/ EncoderWakes
             \/ UNCHANGED vars,
             EasyInv
      PROVE  ~(Len(verdicts') > Len(verdicts))
  <2>1. UNCHANGED verdicts
    BY <1>2 DEF SendPacket, Wire, ReadNothing, Write, Rest, Sleep, EncoderWakes,
                receiver, vars
  <2>2. Len(verdicts) \in Nat
    BY <1>2, Counts
  <2>3. QED
    BY <2>1, <2>2
<1>3. /\ EasyInv /\ CutAsReceived /\ CutAsReceived' /\ [Next]_vars
      => [ (/\ Len(verdicts') > Len(verdicts)
            /\ \A b \in lost : b < outputBuffer'[1]
            /\ Cardinality(lost) % P # 0)
               => verdicts'[Len(verdicts')] = "PACKET_BAD" ]_vars
  BY <1>1, <1>2 DEF Next, Loop
<1>4. QED
  BY EasyInvariance, CutInvariance, <1>3, PTL DEF Spec, NeverResynchronises
=============================================================================
