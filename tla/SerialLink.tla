----------------------------- MODULE SerialLink -----------------------------
(***************************************************************************)
(* The serial line between the Pi and the Arduino.  The Pi writes packets  *)
(* of P bytes; the Arduino's serial interrupt puts each byte into a ring   *)
(* of RxSize bytes and drops it when the ring is full; the main loop drains*)
(* the ring into deserialize(), answers every packet it completes, and     *)
(* goes to sleep when Alex stands still.  The answer goes through a ring of*)
(* TxSize bytes, and the loop blocks in Serial.write() while that is full. *)
(*                                                                         *)
(* Time is counted in bytes: both directions of the line have the same     *)
(* speed, so a step of Wire moves one byte each way.  The loop is much     *)
(* faster: it comes round between two bytes unless it is blocked or asleep.*)
(* A byte is its position in the stream that the Pi wrote, so that packet  *)
(* n is the bytes (n - 1) * P + 1 to n * P.  That a byte of another place  *)
(* may have the value of one of the magic number is left out.              *)
(***************************************************************************)
EXTENDS Integers, Sequences, FiniteSets

CONSTANTS P,          \* PACKET_SIZE
          Magic,      \* bytes of TComms.magic, at the front of a packet
          Pad,        \* bytes of TComms.dummy, which nothing checks, at its end
          RxSize,     \* bytes that the receive ring holds
          TxSize,     \* bytes that the transmit ring holds
          MaxPackets  \* bound: packets the Pi sends

ASSUME SerialLinkAssumption ==
    /\ P \in Nat \ {0} /\ Magic \in 1 .. P /\ Pad \in 0 .. P - Magic
    /\ RxSize \in 1 .. P /\ TxSize \in Nat \ {0}
    /\ MaxPackets \in Nat

VARIABLES kinds,       \* the packets sent so far: "HELLO" or "COMMAND"
          rushed,      \* one of them was sent before the last was answered
          out,         \* bytes that have left the Pi
          lost,        \* positions of the bytes the full ring dropped
          rx, tx,      \* the receive ring, and the bytes in the transmit ring
          due,         \* a byte has moved since the loop last read the ring
          pc, moving,  \* where the loop is; dir # STOP
          counter, leftoverFlag, leftoverCount, leftoverBuffer, outputBuffer,
          result,      \* what assemble() returned
          verdicts,    \* what deserialize() returned for each packet, in order
          executed,    \* the packets handled as PACKET_OK; 0 for a garbled one
          answered,    \* packets answered
          toSend,      \* bytes of the answer still to be put in the ring
          heard        \* bytes of answers the Pi has received

statics == <<counter, leftoverFlag, leftoverCount, leftoverBuffer, outputBuffer>>
receiver == <<statics, result, verdicts, executed, answered>>
pi == <<kinds, rushed>>
vars == <<pi, out, lost, rx, tx, due, pc, moving, receiver, toSend, heard>>

\* The history variables of the reassembly are not used here.
A == INSTANCE Assemble WITH ReadMax <- RxSize, MaxFed <- P, fed <- 0, base <- 0

-----------------------------------------------------------------------------
sent == Len(kinds)

\* The place of a byte in its packet, and the packet it belongs to.
Place(b) == ((b - 1) % P) + 1
PacketOf(b) == ((b - 1) \div P) + 1

\* Mutant: the magic number is not looked at.
magicIgnored(buffer) == TRUE

\* deserialize(): the magic number, and the bytes the checksum covers.
magicOK(buffer) == \A i \in 1 .. Magic : Place(buffer[i]) = i
intact(buffer) ==
    \A i \in 1 .. P - Pad : buffer[i] = (PacketOf(buffer[1]) - 1) * P + i

\* Bytes of two packets, or misplaced ones, may have a checksum that fits by
\* coincidence.
verdict(buffer) ==
    IF ~magicOK(buffer) THEN {"PACKET_BAD"}
    ELSE IF intact(buffer) THEN {"PACKET_OK"}
    ELSE {"PACKET_OK", "PACKET_CHECKSUM_BAD"}

\* The packet a buffer is taken for when its verdict is PACKET_OK.
contents(buffer) == IF intact(buffer) THEN PacketOf(buffer[1]) ELSE 0

\* Whether a packet gets an answer: every bad one and every command does, a
\* HELLO does not, a garbled one may be taken for either.
isAnswered(v, buffer) ==
    IF v # "PACKET_OK" THEN {TRUE}
    ELSE IF contents(buffer) = 0 THEN BOOLEAN
    ELSE {kinds[contents(buffer)] = "COMMAND"}

-----------------------------------------------------------------------------
Init ==
    /\ kinds = << >> /\ rushed = FALSE /\ out = 0 /\ lost = {}
    /\ rx = << >> /\ tx = 0 /\ due = FALSE
    /\ pc = "read" /\ moving = FALSE
    /\ A!StaticInit /\ result = "PACKET_INCOMPLETE"
    /\ verdicts = << >> /\ executed = << >> /\ answered = 0
    /\ toSend = 0 /\ heard = 0

Commands == Cardinality({n \in 1 .. sent : kinds[n] = "COMMAND"})

\* All packets have left the Pi, and all commands have been answered.
Quiet == out = sent * P /\ heard = Commands * P

\* The Pi: sendPacket().  main() sends a HELLO, the workers send commands.
SendPacket ==
    /\ sent < MaxPackets
    /\ \E kind \in {"HELLO", "COMMAND"} : kinds' = Append(kinds, kind)
    /\ rushed' = (rushed \/ ~Quiet)
    /\ UNCHANGED <<out, lost, rx, tx, due, pc, moving, receiver, toSend, heard>>

\* The loop cannot run: it waits in Serial.write() or sleeps.
Blocked == pc = "send" /\ tx = TxSize /\ toSend > 0

\* A byte arrives, for which the ring may have no place.
Arrive ==
    \/ /\ out = sent * P
       /\ UNCHANGED <<out, rx, lost>>
    \/ /\ out < sent * P /\ Len(rx) < RxSize
       /\ out' = out + 1 /\ rx' = Append(rx, out + 1)
       /\ UNCHANGED lost
    \/ /\ out < sent * P /\ Len(rx) >= RxSize
       /\ out' = out + 1 /\ lost' = lost \cup {out + 1}
       /\ UNCHANGED rx

\* A byte of an answer reaches the Pi.
Transmit ==
    \/ tx > 0 /\ tx' = tx - 1 /\ heard' = heard + 1
    \/ tx = 0 /\ UNCHANGED <<tx, heard>>

\* One byte time.  The interrupts of either direction wake the processor.
Wire ==
    /\ out < sent * P \/ tx > 0
    /\ ~due \/ Blocked \/ pc = "asleep"
    /\ Arrive /\ Transmit
    /\ due' = TRUE
    /\ pc' = IF pc = "asleep" THEN "read" ELSE pc
    /\ UNCHANGED <<pi, moving, receiver, toSend>>

-----------------------------------------------------------------------------
\* Mutant: the line is not read while Alex moves.
ReadOnlyAtRest ==
    /\ pc = "read" /\ (rx = << >> \/ moving)
    /\ due' = FALSE /\ pc' = "rest"
    /\ UNCHANGED <<pi, out, lost, rx, tx, moving, receiver, toSend, heard>>

\* loop(): readPacket() finds no byte.
ReadNothing ==
    /\ pc = "read" /\ rx = << >>
    /\ due' = FALSE /\ pc' = "rest"
    /\ UNCHANGED <<pi, out, lost, rx, tx, moving, receiver, toSend, heard>>

\* loop(): readPacket() drains the ring into deserialize(), and the packet it
\* completes is handled and answered.  A command may start the motors (after
\* its answer, which is before anything looks at dir).
ReadBytes ==
    /\ pc = "read" /\ rx # << >>
    /\ A!assemble(rx)
    /\ rx' = << >> /\ due' = FALSE
    /\ \/ /\ result' = "PACKET_INCOMPLETE"
          /\ pc' = "rest"
          /\ UNCHANGED <<moving, verdicts, executed, answered, toSend>>
       \/ /\ result' = "PACKET_COMPLETE"
          /\ \E v \in verdict(outputBuffer') :
                /\ verdicts' = Append(verdicts, v)
                /\ IF v = "PACKET_OK"
                   THEN executed' = Append(executed, contents(outputBuffer'))
                   ELSE UNCHANGED executed
                /\ \E answers \in isAnswered(v, outputBuffer') :
                      /\ IF answers
                         THEN answered' = answered + 1 /\ toSend' = P /\ pc' = "send"
                         ELSE pc' = "rest" /\ UNCHANGED <<answered, toSend>>
                      /\ moving' \in {moving, moving \/ (answers /\ v = "PACKET_OK")}
    /\ UNCHANGED <<pi, out, lost, tx, heard>>

\* Mutant: the loop waits for room for one byte more than it writes.
WriteWaitingForMore ==
    /\ pc = "send" /\ toSend > 1 /\ tx < TxSize
    /\ tx' = tx + 1 /\ toSend' = toSend - 1
    /\ pc' = IF toSend' = 0 THEN "rest" ELSE "send"
    /\ UNCHANGED <<pi, out, lost, rx, due, moving, receiver, heard>>

\* writeSerial(): bytes go into the transmit ring as long as there is place.
Write ==
    /\ pc = "send" /\ toSend > 0 /\ tx < TxSize
    /\ tx' = tx + 1 /\ toSend' = toSend - 1
    /\ pc' = IF toSend' = 0 THEN "rest" ELSE "send"
    /\ UNCHANGED <<pi, out, lost, rx, due, moving, receiver, heard>>

\* The checks of the distance and the turn may stop Alex; a loop with dir =
\* STOP goes on to putArduinoToIdle().
Rest ==
    /\ pc = "rest"
    /\ moving' \in IF moving THEN BOOLEAN ELSE {FALSE}
    /\ pc' = IF moving' THEN "read" ELSE "idle"
    /\ UNCHANGED <<pi, out, lost, rx, tx, due, receiver, toSend, heard>>

\* putArduinoToIdle(): sleep_cpu() does not look at the ring.
Sleep ==
    /\ pc = "idle"
    /\ pc' = "asleep"
    /\ UNCHANGED <<pi, out, lost, rx, tx, due, moving, receiver, toSend, heard>>

\* An encoder interrupt also ends the sleep.
EncoderWakes ==
    /\ pc = "asleep"
    /\ pc' = "read"
    /\ UNCHANGED <<pi, out, lost, rx, tx, due, moving, receiver, toSend, heard>>

Loop == ReadNothing \/ ReadBytes \/ Write \/ Rest \/ Sleep

Next == SendPacket \/ Wire \/ Loop \/ EncoderWakes

Spec == Init /\ [][Next]_vars

\* The line moves its bytes and the processor runs; nothing makes the operator
\* type or the wheels turn.
FairSpec == Spec /\ WF_vars(Wire) /\ WF_vars(Loop)

-----------------------------------------------------------------------------
TypeOK ==
    /\ kinds \in Seq({"HELLO", "COMMAND"}) /\ sent <= MaxPackets
    /\ rushed \in BOOLEAN
    /\ out \in 0 .. sent * P /\ lost \subseteq 1 .. out
    /\ Len(rx) <= RxSize /\ tx \in 0 .. TxSize
    /\ due \in BOOLEAN /\ moving \in BOOLEAN
    /\ pc \in {"read", "send", "rest", "idle", "asleep"}
    /\ counter \in 0 .. P - 1 /\ leftoverCount \in 0 .. P - 1
    /\ toSend \in 0 .. P /\ heard \in Nat /\ answered <= Len(verdicts)

\* Until the first byte is lost, the Arduino carries out the packets of the Pi
\* in order, each once, and finds none of them bad.
InOrderUntilLoss ==
    lost = {} =>
        /\ \A i \in 1 .. Len(executed) : executed[i] = i
        /\ \A i \in 1 .. Len(verdicts) : verdicts[i] = "PACKET_OK"

\* The framing never recovers: once the bytes lost are not a multiple of the
\* packet size, a packet that starts after the last of them is refused.
NeverResynchronises ==
    [][ (/\ Len(verdicts') > Len(verdicts)
         /\ \A b \in lost : b < outputBuffer'[1]
         /\ Cardinality(lost) % P # 0)
            => verdicts'[Len(verdicts')] = "PACKET_BAD" ]_vars

\* What answering costs (Alex.ino:348-352): a loop that waits for room for its answer
\* does not read, and the ring takes RxSize of the bytes that come meanwhile; of the
\* others, P at most for the answer and one for the sleep after it, all are lost.  So
\* the Pi loses P - RxSize + 1 bytes for each answer, or fewer, however fast it sends
\* and whatever the transmit ring still held; and none otherwise.  This is about a loop
\* that comes round between two bytes when nothing blocks it, as Wire says, and a ring
\* that takes the byte before the sleep and the one that ends it.
LossesPerAnswer == RxSize >= 2 => Cardinality(lost) <= answered * (P - RxSize + 1)

\* Every answer reaches the Pi whole: the bytes it heard, those in the ring and
\* those still to be written are P for each packet answered.
AnswersAreWhole == heard + tx + toSend = answered * P

\* As long as each packet waits for the answer to the one before, no byte is
\* lost.
PacedLosesNothing == ~rushed => lost = {}

\* A packet that waited is handled and its answer, if any, reaches the Pi; or
\* its last bytes came between the last read of the ring and the sleep, and
\* the processor sleeps on them; or the next packet did not wait.
AnsweredOrSleptOn ==
    \A n \in 1 .. MaxPackets :
        sent >= n ~> \/ Len(verdicts) >= n /\ heard = answered * P
                     \/ pc = "asleep" /\ rx # << >>
                     \/ rushed
=============================================================================
