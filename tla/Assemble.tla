------------------------------ MODULE Assemble ------------------------------
(***************************************************************************)
(* assemble() of serialize.cpp: the packet reassembly that the Arduino and *)
(* the Pi both run on what they read from the serial line.  Its four       *)
(* function-static variables and the private buffer it fills are the state *)
(* here; one call is one step, for no other thread ever enters it.         *)
(*                                                                         *)
(* A byte is abstracted to its position in the received stream, so that a  *)
(* completed buffer says which bytes it holds; 0 is the byte of a static   *)
(* buffer that nobody has written yet.                                     *)
(***************************************************************************)
EXTENDS Integers, Sequences

CONSTANTS P,         \* PACKET_SIZE
          ReadMax,   \* the most bytes a read returns; reading more than
                     \* PACKET_SIZE has overrun the caller's buffer already
          MaxFed     \* bound: bytes of the stream that are explored

ASSUME AssembleAssumption ==
    /\ P \in Nat \ {0}
    /\ ReadMax \in 1 .. P

VARIABLES counter,          \* bytes of the packet being assembled
          leftoverFlag,
          leftoverCount,    \* bytes that wait in leftoverBuffer
          leftoverBuffer,
          outputBuffer,     \* _privateBuffer
          result,           \* what the last call returned
          fed,              \* bytes received so far
          base              \* P times the packets completed so far

statics == <<counter, leftoverFlag, leftoverCount, leftoverBuffer, outputBuffer>>
vars == <<statics, result, fed, base>>

Index == 1 .. P

-----------------------------------------------------------------------------
\* Static storage starts as zeros.
StaticInit ==
    /\ counter = 0
    /\ leftoverFlag = FALSE
    /\ leftoverCount = 0
    /\ leftoverBuffer = [i \in Index |-> 0]
    /\ outputBuffer = [i \in Index |-> 0]

\* Mutant: the leftovers are forgotten.
NoLeftoversCopied == 0

\* The leftovers that a call moves to the front of the output buffer.
copyCount ==
    IF ~leftoverFlag THEN 0
    ELSE IF leftoverCount <= P THEN leftoverCount ELSE P

\* The output position the input is appended after.
start == counter + copyCount

\* An input of len bytes brings the last byte of the packet.
reachesEnd(len) == start + len >= P

\* The bytes of an input of len bytes that go straight to the output.
bytesLeft(len) == IF reachesEnd(len) THEN P - start ELSE len

\* The output buffer after a call.
filled(input) ==
    [i \in Index |->
        IF i > counter /\ i <= start THEN leftoverBuffer[i - counter]
        ELSE IF i > start /\ i <= start + bytesLeft(Len(input))
             THEN input[i - start]
             ELSE outputBuffer[i]]

\* Bytes that leftoverBuffer still holds once the leftovers are copied.  They
\* are not moved to its front: the loop of a later call reads from index 0.
kept == leftoverCount - copyCount

\* Mutant: the rest of the input is copied from the input's first byte.
SavedFromFront(input) ==
    [i \in Index |->
        IF i > kept /\ i <= kept + Len(input) - bytesLeft(Len(input))
        THEN input[i - kept]
        ELSE leftoverBuffer[i]]

\* The leftover buffer after a call whose input runs past the packet's end.
saved(input) ==
    [i \in Index |->
        IF i > kept /\ i <= kept + Len(input) - bytesLeft(Len(input))
        THEN input[bytesLeft(Len(input)) + i - kept]
        ELSE leftoverBuffer[i]]

\* Mutant: the packet's byte count is not reset.
CompleteWithoutReset(input) ==
    /\ reachesEnd(Len(input))
    /\ outputBuffer' = filled(input)
    /\ leftoverFlag' = TRUE
    /\ leftoverBuffer' = saved(input)
    /\ leftoverCount' = kept + Len(input) - bytesLeft(Len(input))
    /\ counter' = P
    /\ result' = "PACKET_COMPLETE"

\* Mutant: the rest of the input is dropped with the packet it followed.
CompleteDropsRest(input) ==
    /\ reachesEnd(Len(input))
    /\ outputBuffer' = filled(input)
    /\ counter' = 0
    /\ result' = "PACKET_COMPLETE"
    /\ leftoverFlag' = TRUE
    /\ leftoverCount' = kept
    /\ UNCHANGED leftoverBuffer

\* The call completes a packet; the rest of its input is kept for later.
Complete(input) ==
    /\ reachesEnd(Len(input))
    /\ outputBuffer' = filled(input)
    /\ leftoverFlag' = TRUE
    /\ leftoverBuffer' = saved(input)
    /\ leftoverCount' = kept + Len(input) - bytesLeft(Len(input))
    /\ counter' = 0
    /\ result' = "PACKET_COMPLETE"

\* The call does not reach the end of the packet.
Incomplete(input) ==
    /\ ~reachesEnd(Len(input))
    /\ outputBuffer' = filled(input)
    /\ leftoverFlag' = (leftoverFlag /\ leftoverCount > P)
    /\ leftoverCount' = kept
    /\ counter' = start + Len(input)
    /\ result' = "PACKET_INCOMPLETE"
    /\ UNCHANGED leftoverBuffer

assemble(input) == Complete(input) \/ Incomplete(input)
-----------------------------------------------------------------------------
\* The next len bytes of the stream.
Arriving(len) == [i \in 1 .. len |-> fed + i]

Init ==
    /\ StaticInit
    /\ result = "PACKET_INCOMPLETE"
    /\ fed = 0
    /\ base = 0

\* A read of len bytes and the call of assemble() on them.
Feed(len) ==
    /\ fed + len <= MaxFed
    /\ assemble(Arriving(len))
    /\ fed' = fed + len
    /\ base' = IF result' = "PACKET_COMPLETE" THEN base + P ELSE base

Next == \E len \in 1 .. ReadMax : Feed(len)

Spec == Init /\ [][Next]_vars

-----------------------------------------------------------------------------
\* The statics stay inside the ranges their C code relies on: a packet in
\* progress is shorter than PACKET_SIZE and the leftovers fit their buffer
\* (assemble() writes leftoverBuffer[leftoverCount+i] with no bound check).
TypeOK ==
    /\ counter \in 0 .. P - 1
    /\ leftoverFlag \in BOOLEAN
    /\ leftoverCount \in 0 .. P - 1
    /\ leftoverBuffer \in [Index -> Nat]
    /\ outputBuffer \in [Index -> Nat]
    /\ result \in {"PACKET_COMPLETE", "PACKET_INCOMPLETE"}
    /\ fed \in Nat
    /\ base \in Nat

\* Every byte received is in exactly one place: in a packet already handed
\* over, at the front of the output buffer or in the leftover buffer; and the
\* two buffers are never both in use between calls, so that the next call can
\* copy the leftovers to the front without overwriting a packet in progress.
EveryByteAccountedFor ==
    /\ fed = base + counter + leftoverCount
    /\ leftoverFlag => counter = 0
    /\ leftoverCount > 0 => leftoverFlag

\* What is kept between two calls is the stream right after the last packet,
\* in order, from index 0 of whichever buffer holds it.
KeptInOrder ==
    /\ \A i \in 1 .. counter : outputBuffer[i] = base + i
    /\ \A i \in 1 .. leftoverCount : leftoverBuffer[i] = base + i

\* A call that returns PACKET_COMPLETE leaves deserialize() the P bytes of
\* the stream that follow the previous packet, in order, whatever the sizes
\* of the reads that brought them.
WholePackets ==
    result = "PACKET_COMPLETE" =>
        \A i \in Index : outputBuffer[i] = base - P + i

\* The call that receives a packet's last byte is the one that completes it:
\* between calls less than a packet is waiting, so no finished command sits in
\* the leftovers until more bytes arrive.
NoPacketWaits == fed - base < P

\* The receiver of serialize.cpp implements the cutting of the stream.
Stream == INSTANCE PacketStream WITH
    packet <- IF result = "PACKET_COMPLETE" THEN outputBuffer ELSE [i \in Index |-> 0]

CutsStream == Stream!Spec
=============================================================================
