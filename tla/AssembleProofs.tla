--------------------------- MODULE AssembleProofs ---------------------------
(***************************************************************************)
(* For every packet size, and every sequence of reads none of which is     *)
(* longer than a packet: assemble() cuts the stream into packets.          *)
(***************************************************************************)
EXTENDS Assemble, TLAPS

\* The inductive invariant.  WholePackets alone is not inductive: which bytes
\* a later call copies depends on what both buffers kept, and where.
IInv ==
    /\ TypeOK
    /\ EveryByteAccountedFor
    /\ KeptInOrder
    /\ WholePackets

LEMMA PacketSizeIsPositive == P \in Nat /\ P >= 1 /\ ReadMax \in Nat /\ ReadMax <= P
BY AssembleAssumption

\* What a call finds: when it starts copying its input, the front of the
\* output buffer is the stream from the last packet on, whichever buffer it
\* was kept in; nothing is kept elsewhere, and less than a packet is there.
LEMMA StartOfCall ==
    ASSUME IInv
    PROVE  /\ start \in 0 .. P - 1
           /\ start = fed - base
           /\ kept = 0
           /\ copyCount = leftoverCount
           /\ ~(leftoverFlag /\ leftoverCount > P)
<1>1. copyCount = leftoverCount
  BY PacketSizeIsPositive DEF IInv, TypeOK, EveryByteAccountedFor, copyCount
<1>2. QED
  BY <1>1, PacketSizeIsPositive DEF IInv, TypeOK, EveryByteAccountedFor, start, kept

LEMMA InitIInv == Init => IInv
<1>1. SUFFICES ASSUME Init PROVE IInv
  OBVIOUS
<1>2. TypeOK
  <2>1. 0 \in 0 .. P - 1
    BY PacketSizeIsPositive
  <2>2. [i \in Index |-> 0] \in [Index -> Nat]
    OBVIOUS
  <2>3. QED
    BY <1>1, <2>1, <2>2 DEF Init, StaticInit, TypeOK
<1>3. EveryByteAccountedFor
  BY <1>1 DEF Init, StaticInit, EveryByteAccountedFor
<1>4. KeptInOrder
  BY <1>1 DEF Init, StaticInit, KeptInOrder
<1>5. WholePackets
  BY <1>1 DEF Init, WholePackets
<1>6. QED
  BY <1>2, <1>3, <1>4, <1>5 DEF IInv

\* The output buffer after a call holds the stream from the last packet on,
\* as far as the input reaches.
LEMMA FilledIsTheStream ==
    ASSUME IInv, NEW len \in 1 .. ReadMax,
           NEW i \in Index, i <= start + bytesLeft(len)
    PROVE  filled(Arriving(len))[i] = base + i
<1>1. Len(Arriving(len)) = len /\ \A j \in 1 .. len : Arriving(len)[j] = fed + j
  BY PacketSizeIsPositive DEF Arriving
<1>2. bytesLeft(len) \in 0 .. len
  BY StartOfCall, PacketSizeIsPositive DEF bytesLeft, reachesEnd
<1>3. start = counter + leftoverCount
  BY StartOfCall DEF start
<1>4. CASE i <= counter
  BY <1>1, <1>3, <1>4, PacketSizeIsPositive
     DEF filled, IInv, TypeOK, KeptInOrder, Index
<1>5. CASE i > counter /\ i <= start
  <2>1. i - counter \in 1 .. leftoverCount /\ counter = 0
    BY <1>3, <1>5, StartOfCall DEF IInv, TypeOK, EveryByteAccountedFor, Index
  <2>2. leftoverBuffer[i - counter] = base + (i - counter)
    BY <2>1 DEF IInv, KeptInOrder
  <2>3. QED
    BY <2>1, <2>2, <1>5, PacketSizeIsPositive DEF filled, IInv, TypeOK, Index
<1>6. CASE i > start
  <2>1. i - start \in 1 .. len /\ ~(i <= start)
    BY <1>2, <1>6, StartOfCall, PacketSizeIsPositive DEF Index
  <2>2. filled(Arriving(len))[i] = fed + (i - start)
    BY <1>1, <1>2, <1>6, <2>1, StartOfCall, PacketSizeIsPositive DEF filled, Index
  <2>3. QED
    BY <2>2, StartOfCall, PacketSizeIsPositive DEF IInv, TypeOK, Index
<1>7. QED
  BY <1>4, <1>5, <1>6, StartOfCall DEF Index, IInv, TypeOK

LEMMA FilledType ==
    ASSUME IInv, NEW len \in 1 .. ReadMax
    PROVE  filled(Arriving(len)) \in [Index -> Nat]
<1>1. Len(Arriving(len)) = len /\ \A j \in 1 .. len : Arriving(len)[j] \in Nat
  BY PacketSizeIsPositive DEF Arriving, IInv, TypeOK
<1>2. bytesLeft(len) \in 0 .. len
  BY StartOfCall, PacketSizeIsPositive DEF bytesLeft, reachesEnd
<1>3. start = counter + leftoverCount /\ leftoverCount <= P - 1
  BY StartOfCall DEF start, IInv, TypeOK
<1>4. SUFFICES ASSUME NEW i \in Index
      PROVE  filled(Arriving(len))[i] \in Nat
  BY DEF filled
<1>5. CASE i > counter /\ i <= start
  <2>1. i - counter \in Index
    BY <1>3, <1>5, PacketSizeIsPositive DEF IInv, TypeOK, Index
  <2>2. QED
    BY <1>5, <2>1 DEF filled, IInv, TypeOK
<1>6. CASE i > start /\ i <= start + bytesLeft(len)
  <2>1. i - start \in 1 .. len /\ ~(i <= start)
    BY <1>2, <1>6, StartOfCall, PacketSizeIsPositive DEF Index
  <2>2. QED
    BY <1>1, <1>6, <2>1, StartOfCall DEF filled
<1>7. CASE ~(i > counter /\ i <= start) /\ ~(i > start /\ i <= start + bytesLeft(len))
  BY <1>1, <1>7 DEF filled, IInv, TypeOK
<1>8. QED
  BY <1>5, <1>6, <1>7

\* The leftover buffer after a call that completes a packet holds, from index
\* 0, the stream right after that packet.
LEMMA SavedIsTheRest ==
    ASSUME IInv, NEW len \in 1 .. ReadMax, start + len >= P
    PROVE  /\ saved(Arriving(len)) \in [Index -> Nat]
           /\ len - bytesLeft(len) \in 0 .. P - 1
           /\ \A i \in 1 .. (len - bytesLeft(len)) :
                 saved(Arriving(len))[i] = base + P + i
<1>1. Len(Arriving(len)) = len /\ \A j \in 1 .. len : Arriving(len)[j] = fed + j
  BY PacketSizeIsPositive DEF Arriving
<1>2. bytesLeft(len) = P - start /\ kept = 0 /\ start \in 0 .. P - 1 /\ start = fed - base
  BY StartOfCall DEF bytesLeft, reachesEnd
<1>3. len - bytesLeft(len) \in 0 .. P - 1
  BY <1>2, PacketSizeIsPositive
<1>4. ASSUME NEW i \in 1 .. (len - bytesLeft(len))
      PROVE  saved(Arriving(len))[i] = base + P + i
  <2>1. i \in Index /\ bytesLeft(len) + i - kept \in 1 .. len
    BY <1>2, <1>3, PacketSizeIsPositive DEF Index
  <2>2. saved(Arriving(len))[i] = Arriving(len)[bytesLeft(len) + i - kept]
    <3>1. i > kept /\ i <= kept + len - bytesLeft(len)
      BY <1>2, <1>3
    <3>2. QED
      BY <1>1, <2>1, <3>1 DEF saved
  <2>3. QED
    BY <1>1, <2>1, <2>2, <1>2, PacketSizeIsPositive DEF IInv, TypeOK
<1>5. saved(Arriving(len)) \in [Index -> Nat]
  <2>1. SUFFICES ASSUME NEW i \in Index
        PROVE  saved(Arriving(len))[i] \in Nat
    BY DEF saved
  <2>2. CASE i <= len - bytesLeft(len)
    BY <1>4, <2>2, <1>3, PacketSizeIsPositive DEF Index, IInv, TypeOK
  <2>3. CASE ~(i <= len - bytesLeft(len))
    <3>1. i \in Nat /\ ~(i <= kept + len - bytesLeft(len))
      BY <1>2, <1>3, <2>3, PacketSizeIsPositive DEF Index
    <3>2. saved(Arriving(len))[i] = leftoverBuffer[i]
      BY <1>1, <3>1 DEF saved
    <3>3. leftoverBuffer \in [Index -> Nat]
      BY DEF IInv, TypeOK
    <3>4. QED
      BY <3>2, <3>3
  <2>4. QED
    BY <2>2, <2>3
<1>6. QED
  BY <1>3, <1>4, <1>5

\* A call that completes a packet keeps the invariant.
LEMMA CompleteKeepsIInv ==
    ASSUME IInv, NEW len \in 1 .. ReadMax, Feed(len), Complete(Arriving(len))
    PROVE  IInv'
<1>1. Len(Arriving(len)) = len
  BY PacketSizeIsPositive DEF Arriving
<1>2. /\ start + len >= P
      /\ outputBuffer' = filled(Arriving(len))
      /\ leftoverFlag' = TRUE
      /\ leftoverBuffer' = saved(Arriving(len))
      /\ leftoverCount' = len - bytesLeft(len)
      /\ counter' = 0
      /\ result' = "PACKET_COMPLETE"
      /\ fed' = fed + len
      /\ base' = base + P
  BY <1>1, StartOfCall, PacketSizeIsPositive DEF Complete, Feed, bytesLeft, reachesEnd
<1>3. bytesLeft(len) = P - start /\ start = fed - base /\ start \in 0 .. P - 1
  BY <1>2, StartOfCall DEF bytesLeft, reachesEnd
<1>4. TypeOK'
  BY <1>2, <1>3, FilledType, SavedIsTheRest, PacketSizeIsPositive DEF TypeOK, IInv
<1>5. EveryByteAccountedFor'
  BY <1>2, <1>3, PacketSizeIsPositive DEF EveryByteAccountedFor, IInv, TypeOK
<1>6. KeptInOrder'
  BY <1>2, SavedIsTheRest DEF KeptInOrder
<1>7. WholePackets'
  <2>1. ASSUME NEW i \in Index
        PROVE  outputBuffer'[i] = base + i
    BY <1>2, <1>3, FilledIsTheStream, PacketSizeIsPositive DEF Index
  <2>2. QED
    BY <1>2, <2>1, PacketSizeIsPositive DEF WholePackets, Index, IInv, TypeOK
<1>8. QED
  BY <1>4, <1>5, <1>6, <1>7 DEF IInv

\* So does one that does not.
LEMMA IncompleteKeepsIInv ==
    ASSUME IInv, NEW len \in 1 .. ReadMax, Feed(len), Incomplete(Arriving(len))
    PROVE  IInv'
<1>1. Len(Arriving(len)) = len
  BY PacketSizeIsPositive DEF Arriving
<1>2. start + len < P
  <2>1. ~reachesEnd(len) /\ start \in Nat
    BY <1>1, StartOfCall DEF Incomplete
  <2>2. QED
    BY <2>1, PacketSizeIsPositive DEF reachesEnd
<1>3. /\ outputBuffer' = filled(Arriving(len))
      /\ leftoverFlag' = FALSE
      /\ leftoverBuffer' = leftoverBuffer
      /\ leftoverCount' = 0
      /\ counter' = start + len
      /\ result' = "PACKET_INCOMPLETE"
      /\ fed' = fed + len
      /\ base' = base
  BY <1>1, StartOfCall, PacketSizeIsPositive DEF Incomplete, Feed, IInv, TypeOK
<1>4. bytesLeft(len) = len /\ start = fed - base /\ start \in 0 .. P - 1
  BY <1>2, StartOfCall, PacketSizeIsPositive DEF bytesLeft, reachesEnd
<1>5. TypeOK'
  <2>1. filled(Arriving(len)) \in [Index -> Nat]
    BY FilledType
  <2>2. start + len \in 0 .. P - 1 /\ 0 \in 0 .. P - 1 /\ fed + len \in Nat
    BY <1>2, <1>3, <1>4, PacketSizeIsPositive DEF IInv, TypeOK
  <2>3. QED
    BY <1>3, <2>1, <2>2 DEF TypeOK, IInv
<1>6. EveryByteAccountedFor'
  BY <1>2, <1>3, <1>4, PacketSizeIsPositive DEF EveryByteAccountedFor, IInv, TypeOK
<1>7. KeptInOrder'
  BY <1>2, <1>3, <1>4, FilledIsTheStream, PacketSizeIsPositive DEF KeptInOrder, Index
<1>8. WholePackets'
  BY <1>3 DEF WholePackets
<1>9. QED
  BY <1>5, <1>6, <1>7, <1>8 DEF IInv

LEMMA NextKeepsIInv == IInv /\ [Next]_vars => IInv'
<1>1. SUFFICES ASSUME IInv, [Next]_vars
      PROVE  IInv'
  OBVIOUS
<1>2. CASE Next
  <2>1. PICK len \in 1 .. ReadMax : Feed(len)
    BY <1>2 DEF Next
  <2>2. Complete(Arriving(len)) \/ Incomplete(Arriving(len))
    BY <2>1 DEF Feed, assemble
  <2>3. QED
    BY <1>1, <2>1, <2>2, CompleteKeepsIInv, IncompleteKeepsIInv
<1>3. CASE UNCHANGED vars
  BY <1>1, <1>3
     DEF IInv, TypeOK, EveryByteAccountedFor, KeptInOrder, WholePackets, vars, statics
<1>4. QED
  BY <1>1, <1>2, <1>3

LEMMA Invariance == Spec => []IInv
<1>1. QED
  BY InitIInv, NextKeepsIInv, PTL DEF Spec

\* The static variables stay in range: no call of assemble() indexes a buffer
\* outside its PACKET_SIZE bytes, however the stream is cut into reads.
THEOREM StaticsInRange == Spec => []TypeOK
<1>1. IInv => TypeOK
  BY DEF IInv
<1>2. QED
  BY Invariance, <1>1, PTL

\* No byte is lost or handed over twice.
THEOREM NothingLost == Spec => []EveryByteAccountedFor
<1>1. IInv => EveryByteAccountedFor
  BY DEF IInv
<1>2. QED
  BY Invariance, <1>1, PTL

\* Each kept byte is where the next call looks for it.
THEOREM LeftoversInOrder == Spec => []KeptInOrder
<1>1. IInv => KeptInOrder
  BY DEF IInv
<1>2. QED
  BY Invariance, <1>1, PTL

\* A completed packet is the next P bytes of the stream.
THEOREM PacketsAreWhole == Spec => []WholePackets
<1>1. IInv => WholePackets
  BY DEF IInv
<1>2. QED
  BY Invariance, <1>1, PTL

\* A packet is completed by the very call that brings its last byte.
THEOREM PacketsDoNotWait == Spec => []NoPacketWaits
<1>1. IInv => NoPacketWaits
  BY PacketSizeIsPositive DEF IInv, TypeOK, EveryByteAccountedFor, NoPacketWaits
<1>2. QED
  BY Invariance, <1>1, PTL

-----------------------------------------------------------------------------
\* Every call of assemble() is a step of the stream cutter.
LEMMA StepCutsStream == IInv /\ IInv' /\ [Next]_vars => [Stream!Next]_(Stream!vars)
<1>1. SUFFICES ASSUME IInv, IInv', [Next]_vars
      PROVE  [Stream!Next]_(Stream!vars)
  OBVIOUS
<1>2. ASSUME NEW len \in 1 .. ReadMax, Feed(len), Complete(Arriving(len))
      PROVE  Stream!Deliver(len)
  <2>1. /\ fed' = fed + len
        /\ base' = base + P
        /\ result' = "PACKET_COMPLETE"
        /\ start + Len(Arriving(len)) >= P
    BY <1>2 DEF Feed, Complete, reachesEnd
  <2>2. Len(Arriving(len)) = len
    BY PacketSizeIsPositive DEF Arriving
  <2>3. fed + len - base >= P
    BY <1>1, <2>1, <2>2, StartOfCall, PacketSizeIsPositive DEF IInv, TypeOK
  <2>4. outputBuffer' = [i \in 1 .. P |-> base + i]
    <3>1. outputBuffer' \in [1 .. P -> Nat]
      BY <1>1 DEF IInv, TypeOK, Index
    <3>2. ASSUME NEW i \in 1 .. P
          PROVE  outputBuffer'[i] = base + i
      BY <1>1, <2>1, PacketSizeIsPositive DEF IInv, WholePackets, Index, TypeOK
    <3>3. QED
      BY <3>1, <3>2
  <2>5. QED
    BY <2>1, <2>3, <2>4 DEF Stream!Deliver, Stream!PacketAt
<1>3. ASSUME NEW len \in 1 .. ReadMax, Feed(len), Incomplete(Arriving(len))
      PROVE  Stream!Absorb(len)
  <2>1. /\ fed' = fed + len
        /\ base' = base
        /\ result' = "PACKET_INCOMPLETE"
        /\ ~reachesEnd(Len(Arriving(len)))
    BY <1>3 DEF Feed, Incomplete
  <2>2. Len(Arriving(len)) = len
    BY PacketSizeIsPositive DEF Arriving
  <2>3. fed + len - base < P
    BY <1>1, <2>1, <2>2, StartOfCall, PacketSizeIsPositive DEF reachesEnd, IInv, TypeOK
  <2>4. QED
    BY <2>1, <2>3 DEF Stream!Absorb, Stream!NoPacket, Index
<1>4. CASE Next
  <2>1. PICK len \in 1 .. ReadMax : Feed(len)
    BY <1>4 DEF Next
  <2>2. Complete(Arriving(len)) \/ Incomplete(Arriving(len))
    BY <2>1 DEF Feed, assemble
  <2>3. QED
    BY <2>1, <2>2, <1>2, <1>3 DEF Stream!Next
<1>5. CASE UNCHANGED vars
  BY <1>5 DEF vars, statics, Stream!vars
<1>6. QED
  BY <1>1, <1>4, <1>5

\* assemble() implements the abstract receiver: refinement of PacketStream.
THEOREM AssembleCutsStream == Spec => CutsStream
<1>1. Init => Stream!Init
  BY DEF Init, Stream!Init, Stream!NoPacket, Index
<1>2. QED
  BY <1>1, StepCutsStream, Invariance, PTL DEF Spec, CutsStream, Stream!Spec
=============================================================================
