------------------------ MODULE CircularBufferProofs ------------------------
(***************************************************************************)
(* For every set of sizes and of characters: the ring's indices and count  *)
(* agree at every instant that a handler can see, and both ends together   *)
(* see one first-in first-out queue.                                       *)
(***************************************************************************)
EXTENDS CircularBuffer, SequenceTheorems, TLAPS

\* What enterAtomic() is for: no handler runs between the check and exitAtomic().
critical == {"check", "store", "back", "count", "take", "front", "uncount", "restore"}
writing == {"store", "back", "count"}
reading == {"take", "front", "uncount"}

Guarded == pc \in critical => ~sreg

\* What the check has found still holds while the call goes on.
Checked ==
    /\ pc \in writing => ~invalid /\ count < size
    /\ pc \in reading => ~invalid /\ count > 0

\* initBuffer() works on memory that no other call touches, for size is 0.
Opening ==
    /\ pc \in {"reset", "size"} =>
          /\ size = 0 /\ arg \in Sizes
          /\ pointer = "live" => buffer \in [0 .. arg - 1 -> Chars]
    /\ pc = "size" => count = 0 /\ front = 0 /\ back = 0

Freeing ==
    /\ pointer = "freed" <=> pc = "forget"
    /\ pc = "clear" => pointer = "NULL"

IInv == TypeOK /\ Guarded /\ Checked /\ Opening /\ Freeing /\ IndicesAgree

-----------------------------------------------------------------------------
\* The remainder of a number below twice the divisor.
LEMMA Wraps ==
    ASSUME NEW n \in Nat \ {0}, NEW x \in 0 .. 2 * n - 1
    PROVE  x % n = IF x < n THEN x ELSE x - n
<1>1. CASE x < n
    BY <1>1, SMT
<1>2. CASE x >= n
    BY <1>2, SMT
<1> QED BY <1>1, <1>2

\* Index arithmetic: a step of an index, taking a character, storing one, and
\* counting it.
LEMMA StepWraps ==
    ASSUME NEW n \in Nat \ {0}, NEW x \in 0 .. n - 1
    PROVE  (x + 1) % n = IF x + 1 < n THEN x + 1 ELSE 0
<1>1. x + 1 \in 0 .. 2 * n - 1
  OBVIOUS
<1> QED
  BY <1>1, Wraps

LEMMA SumWraps ==
    ASSUME NEW n \in Nat \ {0}, NEW x \in 0 .. n - 1, NEW k \in 0 .. n
    PROVE  (x + k) % n = IF x + k < n THEN x + k ELSE x + k - n
<1>1. CASE x + k < n
  BY <1>1, SMT
<1>2. CASE x + k >= n
  BY <1>2, SMT
<1> QED
  BY <1>1, <1>2

LEMMA TakenFrom ==
    ASSUME NEW n \in Nat \ {0}, NEW f \in 0 .. n - 1, NEW c \in 1 .. n
    PROVE  (((f + 1) % n) + (c - 1)) % n = (f + c) % n
<1>1. (f + c) % n = IF f + c < n THEN f + c ELSE f + c - n
  <2> c \in 0 .. n
    OBVIOUS
  <2> QED
    BY SumWraps
<1>2. CASE f + 1 < n
  <2>1. (f + 1) % n = f + 1
    BY <1>2, StepWraps
  <2>2. (f + 1) + (c - 1) = f + c
    OBVIOUS
  <2> QED
    BY <2>1, <2>2
<1>3. CASE f + 1 = n
  <2>1. (f + 1) % n = 0
    BY <1>3, StepWraps
  <2>2. c - 1 \in 0 .. 2 * n - 1 /\ c - 1 < n
    OBVIOUS
  <2>3. (c - 1) % n = c - 1
    BY <2>2, Wraps
  <2>4. (0 + (c - 1)) % n = c - 1
    BY <2>3
  <2> QED
    BY <1>1, <1>3, <2>1, <2>4
<1> QED
  BY <1>2, <1>3

LEMMA StoredAt ==
    ASSUME NEW n \in Nat \ {0}, NEW b \in 0 .. n - 1
    PROVE  /\ (b + 1) % n \in 0 .. n - 1
           /\ (((b + 1) % n) + n - 1) % n = b
<1>1. CASE b + 1 < n
  <2>1. (b + 1) % n = b + 1
    BY <1>1, StepWraps
  <2>2. b + n \in 0 .. 2 * n - 1 /\ b + n >= n
    OBVIOUS
  <2>3. (b + n) % n = b
    BY <2>2, Wraps
  <2>4. b + 1 + n - 1 = b + n
    OBVIOUS
  <2> QED
    BY <1>1, <2>1, <2>3, <2>4
<1>2. CASE b + 1 = n
  <2>1. (b + 1) % n = 0
    BY <1>2, StepWraps
  <2>2. (n - 1) % n = n - 1
    BY Wraps
  <2>3. 0 + n - 1 = n - 1
    OBVIOUS
  <2> QED
    BY <1>2, <2>1, <2>2, <2>3
<1> QED
  BY <1>1, <1>2

LEMMA CountedAt ==
    ASSUME NEW n \in Nat \ {0}, NEW f \in 0 .. n - 1, NEW c \in 0 .. n - 1,
           NEW b \in 0 .. n - 1, (f + c) % n = (b + n - 1) % n
    PROVE  (f + (c + 1)) % n = b
<1>1. (f + c) % n = IF f + c < n THEN f + c ELSE f + c - n
  <2> c \in 0 .. n
    OBVIOUS
  <2> QED
    BY SumWraps
<1>2. (f + (c + 1)) % n = IF f + (c + 1) < n THEN f + (c + 1) ELSE f + (c + 1) - n
  <2>1. c + 1 \in 0 .. n
    OBVIOUS
  <2> QED
    BY <2>1, SumWraps
<1>3. (b + n - 1) % n = IF b = 0 THEN n - 1 ELSE b - 1
  <2>1. CASE b = 0
    BY <2>1, SMT
  <2>2. CASE b > 0
    BY <2>2, SMT
  <2> QED
    BY <2>1, <2>2
<1> QED
  BY <1>1, <1>2, <1>3

\* The same of the ring's own variables.
LEMMA RingArithmetic ==
    ASSUME size \in Nat \ {0}, front \in 0 .. size - 1, back \in 0 .. size - 1,
           count \in 0 .. size
    PROVE  /\ (front + 1) % size \in 0 .. size - 1
           /\ (back + 1) % size \in 0 .. size - 1
           /\ (((back + 1) % size) + size - 1) % size = back
           /\ count > 0 =>
                 (((front + 1) % size) + (count - 1)) % size = (front + count) % size
           /\ count < size /\ (front + count) % size = (back + size - 1) % size =>
                 (front + (count + 1)) % size = back
           /\ count < size /\ (front + count) % size = back =>
                 (front + (count + 1)) % size = (back + 1) % size
<1>1. (front + 1) % size \in 0 .. size - 1
  BY StepWraps
<1>2. (back + 1) % size \in 0 .. size - 1 /\ (((back + 1) % size) + size - 1) % size = back
  BY StoredAt
<1>3. ASSUME count > 0
      PROVE  (((front + 1) % size) + (count - 1)) % size = (front + count) % size
  BY <1>3, TakenFrom
<1>4. ASSUME count < size, (front + count) % size = (back + size - 1) % size
      PROVE  (front + (count + 1)) % size = back
  BY <1>4, CountedAt
<1>5. ASSUME count < size, (front + count) % size = back
      PROVE  (front + (count + 1)) % size = (back + 1) % size
  <2>1. (front + count) % size = (((back + 1) % size) + size - 1) % size
    BY <1>2, <1>5
  <2> QED
    BY <1>2, <1>5, <2>1, CountedAt
<1> QED
  BY <1>1, <1>2, <1>3, <1>4, <1>5

LEMMA InitIInv == Init => IInv
<1> SUFFICES ASSUME Init PROVE IInv
  OBVIOUS
<1>1. TypeOK
  <2>1. result \in [Actors -> {"BUFFER_OK", "BUFFER_FULL", "BUFFER_EMPTY", "BUFFER_INVALID"}]
    BY DEF Init
  <2>2. /\ pending \in BOOLEAN /\ sreg \in BOOLEAN /\ csreg \in BOOLEAN
        /\ caught \in BOOLEAN /\ promised \in BOOLEAN
    BY DEF Init
  <2>3. /\ low \in 0 .. Byte - 1 /\ front \in Nat /\ back \in Nat /\ count \in Nat
    BY CircularBufferAssumption DEF Init
  <2> QED
    BY <2>1, <2>2, <2>3 DEF Init, TypeOK, PCs, invalid
<1>2. Guarded /\ Checked /\ Opening /\ Freeing /\ IndicesAgree
  BY DEF Init, Guarded, Checked, Opening, Freeing, IndicesAgree, invalid, critical,
     writing, reading
<1> QED
  BY <1>1, <1>2 DEF IInv

\* The program's own statements.
LEMMA ProgramKeeps ==
    ASSUME IInv, Call \/ Allocate \/ Free \/ AvailableLow \/ Within \/ Raise
    PROVE  IInv'
<1> USE CircularBufferAssumption DEF IInv, TypeOK, PCs, Actors, Guarded, Checked, Opening,
   Freeing, IndicesAgree, invalid, critical, writing, reading, going, first, length,
        program, ring, replies, history, Goto, Return
<1>1. CASE Call
  BY <1>1 DEF Call
<1>2. CASE Save
  BY <1>2 DEF Save
<1>3. CASE Disable
  <2>1. TypeOK'
    <3>1. TypeOK /\ pc' = "check" /\ sreg' = FALSE
      BY <1>3 DEF Disable
    <3>2. UNCHANGED <<call, arg, low, handler, pending, csreg, pointer, buffer, front, back,
                      size, count, result, value, caught, promised>>
      BY <1>3 DEF Disable
    <3>3. pc' \in PCs /\ sreg' \in BOOLEAN
      BY <3>1
    <3>4. (~invalid => buffer \in [0 .. size - 1 -> Chars])'
      <4> HIDE DEF PCs, Actors
      <4> QED
        BY <3>1, <3>2
    <3> HIDE DEF IInv, Guarded, Checked, Opening, Freeing, IndicesAgree, invalid, PCs
    <3> QED
      BY <3>1, <3>2, <3>3, <3>4
  <2>2. Guarded'
    BY <1>3 DEF Disable
  <2>3. Checked'
    BY <1>3 DEF Disable
  <2>4. Opening'
    BY <1>3 DEF Disable
  <2>5. Freeing'
    BY <1>3 DEF Disable
  <2>6. IndicesAgree'
    BY <1>3 DEF Disable
  <2> QED
    BY <2>1, <2>2, <2>3, <2>4, <2>5, <2>6
<1>4. CASE Check
  <2>1. TypeOK'
    BY <1>4 DEF Check
  <2>2. Guarded'
    BY <1>4 DEF Check
  <2>3. Checked'
    BY <1>4 DEF Check
  <2>4. Opening'
    BY <1>4 DEF Check
  <2>5. Freeing'
    BY <1>4 DEF Check
  <2>6. IndicesAgree'
    BY <1>4 DEF Check
  <2> QED
    BY <2>1, <2>2, <2>3, <2>4, <2>5, <2>6
<1>5. CASE Store
  BY <1>5 DEF Store
<1>6. CASE Back
  <2>1. TypeOK'
    BY <1>6 DEF Back
  <2>2. Guarded'
    BY <1>6 DEF Back
  <2>3. Checked'
    BY <1>6 DEF Back
  <2>4. Opening'
    BY <1>6 DEF Back
  <2>5. Freeing'
    BY <1>6 DEF Back
  <2>6. IndicesAgree'
    <3>1. size \in Nat \ {0} /\ front \in 0 .. size - 1 /\ back \in 0 .. size - 1
      BY <1>6 DEF Back
    <3>2. /\ (back + 1) % size \in 0 .. size - 1
          /\ (((back + 1) % size) + size - 1) % size = back
      BY <1>6, <3>1, RingArithmetic DEF Back
    <3>3. (front + count) % size = back
      BY <1>6 DEF Back
    <3>4. /\ pc' = "count" /\ back' = (back + 1) % size
          /\ front' = front /\ size' = size /\ count' = count
      BY <1>6 DEF Back
    <3>5. first' = front /\ length' = count
      BY <1>6, <3>4 DEF Back
    <3> HIDE DEF first, length
    <3>6. (first' + length') % size' = (back' + size' - 1) % size'
      BY <3>2, <3>3, <3>4, <3>5
    <3>7. front' < size' /\ back' < size' /\ count' <= size'
      BY <1>6, <3>1, <3>2, <3>4 DEF Back
    <3> QED
      BY <3>4, <3>6, <3>7
  <2> QED
    BY <2>1, <2>2, <2>3, <2>4, <2>5, <2>6
<1>7. CASE CountUp
  <2>1. TypeOK'
    BY <1>7 DEF CountUp
  <2>2. Guarded'
    BY <1>7 DEF CountUp
  <2>3. Checked'
    BY <1>7 DEF CountUp
  <2>4. Opening'
    BY <1>7 DEF CountUp
  <2>5. Freeing'
    BY <1>7 DEF CountUp
  <2>6. IndicesAgree'
    <3>1. size \in Nat \ {0} /\ front \in 0 .. size - 1 /\ back \in 0 .. size - 1
      BY <1>7 DEF CountUp
    <3> QED
      BY <1>7, <3>1, RingArithmetic DEF CountUp
  <2> QED
    BY <2>1, <2>2, <2>3, <2>4, <2>5, <2>6
<1>8. CASE Take
  <2>1. TypeOK'
    BY <1>8 DEF Take
  <2>2. Guarded'
    BY <1>8 DEF Take
  <2>3. Checked'
    BY <1>8 DEF Take
  <2>4. Opening'
    BY <1>8 DEF Take
  <2>5. Freeing'
    BY <1>8 DEF Take
  <2>6. IndicesAgree'
    <3>1. size \in Nat \ {0} /\ front \in 0 .. size - 1 /\ back \in 0 .. size - 1
      BY <1>8 DEF Take
    <3> QED
      BY <1>8, <3>1, RingArithmetic DEF Take
  <2> QED
    BY <2>1, <2>2, <2>3, <2>4, <2>5, <2>6
<1>9. CASE Front
  BY <1>9 DEF Front
<1>10. CASE CountDown
  BY <1>10 DEF CountDown
<1>11. CASE Restore
  BY <1>11 DEF Restore
<1>12. CASE Allocate
  <2>1. TypeOK'
    BY <1>12 DEF Allocate
  <2>2. Guarded'
    BY <1>12 DEF Allocate
  <2>3. Checked'
    BY <1>12 DEF Allocate
  <2>4. Opening'
    BY <1>12 DEF Allocate
  <2>5. Freeing'
    BY <1>12 DEF Allocate
  <2>6. IndicesAgree'
    BY <1>12 DEF Allocate
  <2> QED
    BY <2>1, <2>2, <2>3, <2>4, <2>5, <2>6
<1>13. CASE Reset
  BY <1>13 DEF Reset
<1>14. CASE SetSize
  BY <1>14 DEF SetSize
<1>15. CASE Free
  <2>1. TypeOK'
    <3>1. promised' \in BOOLEAN /\ pointer' \in {"NULL", "live", "freed"} /\ pc' \in PCs
      BY <1>15 DEF Free
    <3>2. ~invalid' => ~invalid
      BY <1>15 DEF Free
    <3>3. UNCHANGED <<call, arg, low, handler, pending, sreg, csreg, buffer, front, back,
                      size, count, result, value, caught>>
      BY <1>15 DEF Free
    <3> QED
      BY <3>1, <3>2, <3>3
  <2>2. Guarded'
    BY <1>15 DEF Free
  <2>3. Checked'
    BY <1>15 DEF Free
  <2>4. Opening'
    BY <1>15 DEF Free
  <2>5. Freeing'
    BY <1>15 DEF Free
  <2>6. IndicesAgree'
    BY <1>15 DEF Free
  <2> QED
    BY <2>1, <2>2, <2>3, <2>4, <2>5, <2>6
<1>16. CASE Forget
  BY <1>16 DEF Forget
<1>17. CASE Clear
  BY <1>17 DEF Clear
<1>18. CASE AvailableLow
  BY <1>18 DEF AvailableLow
<1>19. CASE Available
  BY <1>19 DEF Available
<1>20. CASE Raise
  BY <1>20 DEF Raise
<1>21. QED
  BY <1>1, <1>2, <1>3, <1>4, <1>5, <1>6, <1>7, <1>8, <1>9, <1>10, <1>11, <1>12, <1>13, <1>14, <1>15, <1>16, <1>17, <1>18, <1>19, <1>20 DEF Within

\* The handler's whole call, which begins only outside of the critical steps.
LEMMA HandlerKeeps ==
    ASSUME IInv, Handle
    PROVE  IInv'
<1> USE DEF invalid
<1>1. UNCHANGED <<program, handler, sreg, promised>> /\ pc \notin critical
  BY DEF Handle, IInv, Guarded
<1>2. /\ pending' = FALSE /\ csreg' = FALSE /\ caught' \in BOOLEAN /\ caught \in BOOLEAN
      /\ UNCHANGED <<pointer, size>>
  BY DEF Handle, HandlerWrites, HandlerReads, IInv, TypeOK, ring
<1>3. \/ UNCHANGED <<ring, value>>
      \/ /\ ~invalid /\ count < size /\ \E d \in Chars : buffer' = [buffer EXCEPT ![back] = d]
         /\ back' = (back + 1) % size /\ count' = count + 1
         /\ UNCHANGED <<front, value>>
      \/ /\ ~invalid /\ count # 0
         /\ value' = [value EXCEPT !["isr"] = buffer[front]]
         /\ front' = (front + 1) % size /\ count' = count - 1
         /\ UNCHANGED <<buffer, back>>
  BY DEF Handle, HandlerWrites, HandlerReads
<1>4. result' \in [Actors -> {"BUFFER_OK", "BUFFER_FULL", "BUFFER_EMPTY", "BUFFER_INVALID"}]
  BY DEF Handle, HandlerWrites, HandlerReads, Return, IInv, TypeOK
<1>5. ~invalid =>
        /\ size \in Nat \ {0} /\ front \in 0 .. size - 1 /\ back \in 0 .. size - 1
        /\ count \in 0 .. size /\ (front + count) % size = back
        /\ buffer \in [0 .. size - 1 -> Chars] /\ pc \notin {"reset", "size"}
  BY <1>1, CircularBufferAssumption
     DEF IInv, TypeOK, IndicesAgree, first, length, going, critical, Opening
<1>6. ~invalid =>
        /\ front' \in 0 .. size - 1 /\ back' \in 0 .. size - 1
        /\ count' \in 0 .. size /\ (front' + count') % size = back'
        /\ buffer' \in [0 .. size - 1 -> Chars]
  <2> SUFFICES ASSUME ~invalid PROVE
        /\ front' \in 0 .. size - 1 /\ back' \in 0 .. size - 1
        /\ count' \in 0 .. size /\ (front' + count') % size = back'
        /\ buffer' \in [0 .. size - 1 -> Chars]
    OBVIOUS
  <2>0. /\ size \in Nat \ {0} /\ count \in 0 .. size
        /\ front \in 0 .. size - 1 /\ back \in 0 .. size - 1
    BY <1>5
  <2>1. CASE UNCHANGED <<ring, value>>
    BY <1>5, <2>1 DEF ring
  <2>2. CASE /\ count < size /\ \E d \in Chars : buffer' = [buffer EXCEPT ![back] = d]
             /\ back' = (back + 1) % size /\ count' = count + 1
             /\ UNCHANGED <<front, value>>
    <3>1. (back + 1) % size \in 0 .. size - 1 /\ (front + (count + 1)) % size = (back + 1) % size
      BY <1>5, <2>2, RingArithmetic
    <3>2. front' \in 0 .. size - 1 /\ back' \in 0 .. size - 1 /\ count' \in 0 .. size
      <4>1. count + 1 \in 0 .. size
        BY <2>0, <2>2
      <4> QED
        BY <2>0, <2>2, <3>1, <4>1
    <3>3. (front' + count') % size = back'
      BY <2>2, <3>1
    <3>4. buffer' \in [0 .. size - 1 -> Chars]
      BY <1>5, <2>2
    <3> QED
      BY <3>2, <3>3, <3>4
  <2>3. CASE /\ count # 0 /\ front' = (front + 1) % size /\ count' = count - 1
             /\ UNCHANGED <<buffer, back>>
    <3>1. count > 0
      BY <1>5, <2>3
    <3>2. /\ (front + 1) % size \in 0 .. size - 1
          /\ (((front + 1) % size) + (count - 1)) % size = (front + count) % size
      BY <1>5, <3>1, RingArithmetic
    <3>3. front' \in 0 .. size - 1 /\ back' \in 0 .. size - 1 /\ count' \in 0 .. size
      <4>1. count - 1 \in 0 .. size
        BY <2>0, <3>1
      <4> QED
        BY <2>0, <2>3, <3>2, <4>1
    <3>4. (front' + count') % size = back'
      BY <1>5, <2>3, <3>2
    <3> QED
      BY <1>5, <2>3, <3>3, <3>4
  <2> QED
    BY <1>3, <2>1, <2>2, <2>3
<1>7. value' \in [Actors -> Chars]
  BY <1>3, <1>5 DEF IInv, TypeOK, Actors, ring
<1>9. invalid => UNCHANGED ring
  BY <1>3
<1>10. TypeOK'
  <2>1. front' \in Nat /\ back' \in Nat /\ count' \in Nat
    <3>1. CASE invalid
      BY <1>9, <3>1 DEF IInv, TypeOK, ring
    <3>2. CASE ~invalid
      BY <1>5, <1>6, <3>2
    <3> QED
      BY <3>1, <3>2
  <2>2. ~invalid' => buffer' \in [0 .. size' - 1 -> Chars]
    BY <1>2, <1>6
  <2>3. pending' \in BOOLEAN /\ csreg' \in BOOLEAN /\ sreg' \in BOOLEAN /\ promised' \in BOOLEAN
    BY <1>1, <1>2 DEF IInv, TypeOK
  <2>4. /\ pc' \in PCs /\ call' \in {"none", "write", "read"} /\ handler' \in {"write", "read"}
        /\ arg' \in Sizes \cup {0} /\ low' \in 0 .. Byte - 1
        /\ pointer' \in {"NULL", "live", "freed"} /\ size' \in Sizes \cup {0}
    BY <1>1, <1>2 DEF IInv, TypeOK, program
  <2> QED
    BY <1>2, <1>4, <1>7, <2>1, <2>2, <2>3, <2>4 DEF TypeOK
<1>11. Guarded' /\ Checked'
  BY <1>1 DEF Guarded, Checked, critical, writing, reading, program
<1>12. Opening' /\ Freeing'
  BY <1>1, <1>2, <1>5, <1>9 DEF IInv, Opening, Freeing, program, ring
<1>13. IndicesAgree'
  BY <1>1, <1>2, <1>5, <1>6 DEF IndicesAgree, first, length, going, critical, program
<1> QED
  BY <1>10, <1>11, <1>12, <1>13 DEF IInv

LEMMA StepIInv == IInv /\ [Next]_vars => IInv'
<1> SUFFICES ASSUME IInv, [Next]_vars PROVE IInv'
  OBVIOUS
<1>1. CASE UNCHANGED vars
  BY <1>1 DEF IInv, TypeOK, Guarded, Checked, Opening, Freeing, IndicesAgree, invalid,
     going, first, length, vars, program, ring, replies, history
<1>2. CASE Next
  BY <1>2, ProgramKeeps, HandlerKeeps DEF Next
<1> QED
  BY <1>1, <1>2

THEOREM Inductive == Spec => []IInv
BY InitIInv, StepIInv, PTL DEF Spec

\* The TBuffer is well typed at every instant, whatever the handler does.
THEOREM BufferTypes == Spec => []TypeOK
<1>1. IInv => TypeOK
  BY DEF IInv
<1> QED
  BY <1>1, Inductive, PTL

\* For every size, the indices agree with the count and stay inside the memory.
THEOREM IndicesInRange == Spec => []IndicesAgree
<1>1. IInv => IndicesAgree
  BY DEF IInv
<1> QED
  BY <1>1, Inductive, PTL

-----------------------------------------------------------------------------
(* The refinement.                                                         *)

\* Two cells of a ring that is not full are different, and a queue that starts
\* one later is the rest of the queue.
LEMMA CellsDiffer ==
    ASSUME NEW n \in Nat \ {0}, NEW f \in 0 .. n - 1, NEW c \in 0 .. n - 1,
           NEW i \in 0 .. c - 1
    PROVE  (f + i) % n # (f + c) % n
<1>1. (f + c) % n = IF f + c < n THEN f + c ELSE f + c - n
  <2> c \in 0 .. n
    OBVIOUS
  <2> QED
    BY SumWraps
<1>2. (f + i) % n = IF f + i < n THEN f + i ELSE f + i - n
  <2> i \in 0 .. n
    OBVIOUS
  <2> QED
    BY SumWraps
<1> QED
  BY <1>1, <1>2

LEMMA CellInRing ==
    ASSUME NEW n \in Nat \ {0}, NEW f \in 0 .. n - 1, NEW i \in 0 .. n - 1
    PROVE  (f + i) % n \in 0 .. n - 1
<1>1. (f + i) % n = IF f + i < n THEN f + i ELSE f + i - n
  <2> i \in 0 .. n
    OBVIOUS
  <2> QED
    BY SumWraps
<1> QED
  BY <1>1

LEMMA CellAfter ==
    ASSUME NEW n \in Nat \ {0}, NEW f \in 0 .. n - 1, NEW i \in 0 .. n - 1
    PROVE  (((f + 1) % n) + i) % n = (f + (i + 1)) % n
<1>1. i + 1 \in 1 .. n /\ (i + 1) - 1 = i
  OBVIOUS
<1> QED
  BY <1>1, TakenFrom

\* What an Append and a Tail are, element by element.
LEMMA AppendIs ==
    ASSUME NEW S, NEW m \in Nat, NEW d \in S, NEW q \in [1 .. m -> S],
           NEW r \in [1 .. m + 1 -> S], \A i \in 1 .. m : r[i] = q[i], r[m + 1] = d
    PROVE  r = Append(q, d)
<1>1. q \in Seq(S) /\ Len(q) = m
  OBVIOUS
<1>2. r \in Seq(S) /\ Len(r) = m + 1
  OBVIOUS
<1>3. /\ Append(q, d) \in Seq(S) /\ Len(Append(q, d)) = m + 1
      /\ \A i \in 1 .. m : Append(q, d)[i] = q[i]
      /\ Append(q, d)[m + 1] = d
  BY <1>1, AppendProperties
<1>4. \A i \in 1 .. Len(r) : r[i] = Append(q, d)[i]
  BY <1>2, <1>3
<1> QED
  BY <1>2, <1>3, <1>4, SeqEqual

LEMMA TailIs ==
    ASSUME NEW S, NEW m \in Nat \ {0}, NEW q \in [1 .. m -> S], NEW r \in [1 .. m - 1 -> S],
           \A i \in 1 .. m - 1 : r[i] = q[i + 1]
    PROVE  r = Tail(q) /\ Head(q) = q[1] /\ q # << >>
<1>1. q \in Seq(S) /\ Len(q) = m
  OBVIOUS
<1>2. r \in Seq(S) /\ Len(r) = m - 1
  OBVIOUS
<1>3. q # << >>
  BY <1>1
<1>4. /\ Tail(q) \in Seq(S) /\ Len(Tail(q)) = m - 1
      /\ \A i \in 1 .. m - 1 : Tail(q)[i] = q[i + 1]
  BY <1>1, <1>3, HeadTailProperties
<1>5. \A i \in 1 .. Len(r) : r[i] = Tail(q)[i]
  BY <1>2, <1>4
<1>6. r = Tail(q)
  BY <1>2, <1>4, <1>5, SeqEqual
<1>7. Head(q) = q[1]
  BY <1>1, <1>3
<1> QED
  BY <1>3, <1>6, <1>7

\* The index of the queue's i-th character.
cell(i) == (first + i - 1) % size

\* What the invariant says of the queue, between and within calls.
LEMMA QueueIs ==
    ASSUME IInv, ~invalid
    PROVE  /\ size \in Nat \ {0} /\ first \in 0 .. size - 1 /\ length \in 0 .. size
           /\ front \in 0 .. size - 1 /\ back \in 0 .. size - 1 /\ count \in 0 .. size
           /\ buffer \in [0 .. size - 1 -> Chars]
           /\ \A i \in 1 .. size : cell(i) \in 0 .. size - 1
           /\ queue = [i \in 1 .. length |-> buffer[cell(i)]]
           /\ queue \in [1 .. length -> Chars] /\ Len(queue) = length
<1>1. /\ size \in Nat \ {0} /\ front \in 0 .. size - 1 /\ back \in 0 .. size - 1
      /\ count \in 0 .. size /\ buffer \in [0 .. size - 1 -> Chars]
  BY CircularBufferAssumption DEF IInv, TypeOK, IndicesAgree, invalid
<1>2. first \in 0 .. size - 1
  BY <1>1, StepWraps, RingArithmetic DEF first
<1>3. length \in 0 .. size
  BY <1>1 DEF length, going, IInv, Checked, reading
<1>4. queue = [i \in 1 .. length |-> buffer[cell(i)]]
  BY DEF queue, cell
<1>5. ASSUME NEW i \in 1 .. size PROVE cell(i) \in 0 .. size - 1
  <2>1. i - 1 \in 0 .. size - 1 /\ first + i - 1 = first + (i - 1)
    BY <1>1, <1>2
  <2>2. (first + (i - 1)) % size \in 0 .. size - 1
    BY <1>1, <1>2, <2>1, CellInRing
  <2> QED
    BY <2>1, <2>2 DEF cell
<1>6. queue \in [1 .. length -> Chars]
  BY <1>1, <1>3, <1>4, <1>5
<1>7. Len(queue) = length
  BY <1>3, <1>4
<1> QED
  BY <1>1, <1>2, <1>3, <1>4, <1>5, <1>6, <1>7

LEMMA InitFifo == Init => Fifo!Init
BY DEF Init, Fifo!Init, invalid, queue

\* What leaves the ring's memory and its window alone does not change the queue.
LEMMA WindowStays ==
    ASSUME UNCHANGED <<pointer, buffer, size, first, length>>, UNCHANGED replies
    PROVE  UNCHANGED Fifo!vars
BY DEF queue, invalid, replies, Fifo!vars

LEMMA StaysClosed ==
    ASSUME invalid, invalid', UNCHANGED replies
    PROVE  UNCHANGED Fifo!vars
BY DEF queue, replies, Fifo!vars

LEMMA SilentSteps ==
    ASSUME IInv, \/ Call \/ Save \/ Disable \/ Back \/ Front \/ CountDown \/ Restore
                 \/ Free \/ AvailableLow \/ Available \/ Raise
    PROVE  UNCHANGED Fifo!vars
<1> USE DEF first, length, going, Goto
<1>1. CASE Call
  BY <1>1, WindowStays DEF Call, ring
<1>2. CASE Save
  BY <1>2, WindowStays DEF Save, ring
<1>3. CASE Disable
  BY <1>3, WindowStays DEF Disable, ring
<1>4. CASE Back
  BY <1>4, WindowStays DEF Back
<1>5. CASE Front
  BY <1>5, WindowStays DEF Front
<1>6. CASE CountDown
  BY <1>6, WindowStays DEF CountDown
<1>7. CASE Restore
  BY <1>7, WindowStays DEF Restore, ring
<1>8. CASE Free
  <2>1. CASE pointer = "NULL"
    BY <1>8, <2>1, StaysClosed DEF Free, invalid, replies
  <2>2. CASE pointer = "live"
    <3>1. UNCHANGED <<buffer, size, first, length, replies>> /\ (invalid' <=> invalid)
      BY <1>8, <2>2 DEF Free, replies, invalid
    <3> QED
      BY <3>1 DEF queue, replies, Fifo!vars
  <2> QED
    BY <1>8, <2>1, <2>2 DEF Free
<1>9. CASE AvailableLow
  BY <1>9, WindowStays DEF AvailableLow, ring
<1>10. CASE Available
  BY <1>10, WindowStays DEF Available, ring
<1>11. CASE Raise
  BY <1>11, WindowStays DEF Raise, ring, program
<1> QED
  BY <1>1, <1>2, <1>3, <1>4, <1>5, <1>6, <1>7, <1>8, <1>9, <1>10, <1>11

\* initBuffer() opens the queue with its last assignment, freeBuffer() closes it
\* when it forgets the pointer.
LEMMA OpeningSteps ==
    ASSUME IInv, Allocate \/ Reset \/ SetSize \/ Forget \/ Clear
    PROVE  [Fifo!Next]_Fifo!vars
<1>1. CASE Allocate
  BY <1>1, StaysClosed DEF Allocate, invalid
<1>2. CASE Reset
  <2>1. size = 0 /\ size' = 0 /\ UNCHANGED replies
    BY <1>2 DEF Reset, IInv, Opening
  <2> QED
    BY <2>1, StaysClosed DEF invalid
<1>3. CASE SetSize
  <2>1. size = 0 /\ count' = 0 /\ size' = arg /\ UNCHANGED <<pointer, replies>> /\ pc' = "idle"
    BY <1>3 DEF SetSize, IInv, Opening
  <2>2. CASE invalid'
    BY <2>1, <2>2, StaysClosed DEF invalid
  <2>3. CASE ~invalid'
    <3>1. size' \in Nat \ {0}
      BY <1>3, <2>1, <2>3, CircularBufferAssumption DEF invalid, IInv, Opening, SetSize
    <3>2. queue' = << >>
      BY <2>1, <2>3 DEF queue, length, going
    <3>3. Fifo!Open
      BY <2>1, <2>3, <3>1, <3>2 DEF Fifo!Open, invalid, replies
    <3> QED
      BY <3>3 DEF Fifo!Next
  <2> QED
    BY <2>2, <2>3
<1>4. CASE Forget
  <2>1. invalid' /\ queue' = << >>
    BY <1>4 DEF Forget, invalid, queue
  <2>2. Fifo!Close
    BY <1>4, <2>1 DEF Forget, replies, Fifo!Close
  <2> QED
    BY <2>2 DEF Fifo!Next
<1>5. CASE Clear
  <2>1. invalid /\ invalid' /\ UNCHANGED replies
    BY <1>5 DEF Clear, invalid, IInv, Freeing
  <2> QED
    BY <2>1, StaysClosed
<1> QED
  BY <1>1, <1>2, <1>3, <1>4, <1>5

\* A character put behind the queue, and one taken from its front, for either end.
LEMMA Appends ==
    ASSUME IInv, ~invalid, ~invalid', NEW d \in Chars,
           first' = first, length' = length + 1, length < size, size' = size,
           buffer' \in [0 .. size - 1 -> Chars],
           \A i \in 1 .. length : buffer'[cell(i)] = buffer[cell(i)],
           buffer'[cell(length + 1)] = d
    PROVE  queue' = Append(queue, d)
<1>1. /\ size \in Nat \ {0} /\ length \in 0 .. size - 1
      /\ \A i \in 1 .. size : cell(i) \in 0 .. size - 1
      /\ queue = [i \in 1 .. length |-> buffer[cell(i)]]
      /\ queue \in [1 .. length -> Chars]
  BY QueueIs
<1>2. queue' = [i \in 1 .. length + 1 |-> buffer'[cell(i)]]
  BY DEF queue, cell
<1>3. length + 1 \in 1 .. size /\ length \in Nat
  BY <1>1
<1>4. queue' \in [1 .. length + 1 -> Chars]
  BY <1>1, <1>2, <1>3
<1>5. \A i \in 1 .. length : queue'[i] = queue[i]
  BY <1>1, <1>2, <1>3
<1>6. queue'[length + 1] = d
  BY <1>2, <1>3
<1> QED
  BY <1>1, <1>3, <1>4, <1>5, <1>6, AppendIs

LEMMA Takes ==
    ASSUME IInv, ~invalid, ~invalid', length > 0,
           first' = (first + 1) % size, length' = length - 1, size' = size,
           buffer' = buffer
    PROVE  queue' = Tail(queue) /\ Head(queue) = buffer[first] /\ queue # << >>
<1>1. /\ size \in Nat \ {0} /\ first \in 0 .. size - 1 /\ length \in 1 .. size
      /\ queue = [i \in 1 .. length |-> buffer[cell(i)]]
      /\ queue \in [1 .. length -> Chars]
  BY QueueIs
<1>2. ASSUME NEW i \in 1 .. length - 1
      PROVE  (((first + 1) % size) + i - 1) % size = cell(i + 1)
  <2>1. i - 1 \in 0 .. size - 1
    BY <1>1
  <2>2. (((first + 1) % size) + (i - 1)) % size = (first + ((i - 1) + 1)) % size
    BY <1>1, <2>1, CellAfter
  <2>3. ((first + 1) % size) + i - 1 = ((first + 1) % size) + (i - 1)
    <3>1. (first + 1) % size \in 0 .. size - 1
      BY <1>1, StepWraps
    <3> QED
      BY <3>1
  <2>4. first + ((i - 1) + 1) = first + (i + 1) - 1
    BY <1>1
  <2> QED
    BY <2>2, <2>3, <2>4 DEF cell
<1>3. queue' = [i \in 1 .. length - 1 |-> buffer[(((first + 1) % size) + i - 1) % size]]
  BY DEF queue
<1>4. queue' = [i \in 1 .. length - 1 |-> buffer[cell(i + 1)]]
  BY <1>2, <1>3
<1>5. \A i \in 1 .. length - 1 : i + 1 \in 1 .. length
  BY <1>1
<1>6. \A i \in 1 .. length - 1 : queue'[i] = queue[i + 1] /\ queue[i + 1] \in Chars
  BY <1>1, <1>4, <1>5
<1>7. queue' \in [1 .. length - 1 -> Chars]
  BY <1>4, <1>6
<1>8. length \in Nat \ {0}
  BY <1>1
<1>9. queue' = Tail(queue) /\ Head(queue) = queue[1] /\ queue # << >>
  BY <1>1, <1>6, <1>7, <1>8, TailIs
<1>10. queue[1] = buffer[first]
  <2>1. first + 1 - 1 = first /\ first % size = first
    BY <1>1, SMT
  <2>2. cell(1) = first
    BY <2>1 DEF cell
  <2> QED
    BY <1>1, <1>8, <2>2
<1> QED
  BY <1>9, <1>10

\* The cell that the next character goes to is not one of the queue's.
LEMMA BackIsFree ==
    ASSUME IInv, ~invalid, length < size, (first + length) % size = back
    PROVE  cell(length + 1) = back /\ \A i \in 1 .. length : cell(i) # back
<1>1. size \in Nat \ {0} /\ first \in 0 .. size - 1 /\ length \in 0 .. size - 1
  BY QueueIs
<1>2. first + (length + 1) - 1 = first + length
  BY <1>1
<1>3. ASSUME NEW i \in 1 .. length PROVE cell(i) # back
  <2>1. i - 1 \in 0 .. length - 1 /\ first + i - 1 = first + (i - 1)
    BY <1>1
  <2>2. (first + (i - 1)) % size # (first + length) % size
    BY <1>1, <2>1, CellsDiffer
  <2> QED
    BY <2>1, <2>2 DEF cell
<1> QED
  BY <1>2, <1>3 DEF cell

LEMMA CheckStep ==
    ASSUME IInv, Check
    PROVE  [Fifo!Next]_Fifo!vars
<1>1. /\ UNCHANGED <<ring, value>> /\ pc = "check" /\ pc' \notin {"front", "uncount"}
  BY DEF Check, Goto
<1>2. UNCHANGED <<pointer, buffer, size, first, length>> /\ length = count
  BY <1>1 DEF first, length, going, ring
<1>3. queue' = queue /\ (invalid' <=> invalid)
  BY <1>2 DEF queue, invalid
<1>4. CASE UNCHANGED result
  BY <1>1, <1>2, <1>4, WindowStays DEF replies
<1>5. CASE invalid /\ Return("main", "BUFFER_INVALID")
  <2>1. Fifo!Refused("main")
    BY <1>1, <1>3, <1>5 DEF Fifo!Refused, Return, ring
  <2> QED
    BY <2>1 DEF Fifo!Next, Actors
<1>6. CASE ~invalid /\ count >= size /\ Return("main", "BUFFER_FULL")
  <2>1. Len(queue) = size /\ size # 0
    BY <1>2, <1>6, QueueIs
  <2>2. Fifo!Refused("main")
    BY <1>1, <1>3, <1>6, <2>1 DEF Fifo!Refused, Return, ring
  <2> QED
    BY <2>2 DEF Fifo!Next, Actors
<1>7. CASE ~invalid /\ count = 0 /\ Return("main", "BUFFER_EMPTY")
  <2>1. queue = << >> /\ size # 0
    BY <1>2, <1>7, QueueIs
  <2>2. Fifo!Refused("main")
    BY <1>1, <1>3, <1>7, <2>1 DEF Fifo!Refused, Return, ring
  <2> QED
    BY <2>2 DEF Fifo!Next, Actors
<1> QED
  BY <1>4, <1>5, <1>6, <1>7 DEF Check

LEMMA StoreStep ==
    ASSUME IInv, Store
    PROVE  UNCHANGED Fifo!vars
<1>1. /\ ~invalid /\ count < size /\ UNCHANGED <<pointer, size, front, back, count, replies>>
      /\ \E d \in Chars : buffer' = [buffer EXCEPT ![back] = d]
      /\ pc = "store" /\ pc' = "back"
  BY DEF Store, IInv, Checked, writing, Goto
<1>2. first = front /\ length = count /\ UNCHANGED <<first, length>>
  BY <1>1 DEF first, length, going
<1>3. (first + length) % size = back
  BY <1>1 DEF IInv, IndicesAgree
<1>4. /\ buffer \in [0 .. size - 1 -> Chars] /\ length \in 0 .. size /\ size \in Nat
      /\ \A i \in 1 .. size : cell(i) \in 0 .. size - 1
      /\ queue = [i \in 1 .. length |-> buffer[cell(i)]]
  BY <1>1, QueueIs
<1>5. \A i \in 1 .. length : cell(i) # back
  BY <1>1, <1>2, <1>3, BackIsFree
<1>6. \A i \in 1 .. length : buffer'[cell(i)] = buffer[cell(i)]
  BY <1>1, <1>4, <1>5
<1>7. ~invalid'
  BY <1>1 DEF invalid
<1>8. queue' = [i \in 1 .. length |-> buffer'[cell(i)]]
  BY <1>1, <1>2, <1>7 DEF queue, cell
<1>9. queue' = queue
  BY <1>4, <1>6, <1>8
<1> QED
  BY <1>1, <1>7, <1>9 DEF Fifo!vars, replies

LEMMA CountUpStep ==
    ASSUME IInv, CountUp
    PROVE  \E d \in Chars : Fifo!Accepted("main", d)
<1>1. /\ ~invalid /\ count < size /\ UNCHANGED <<pointer, buffer, size, front, value>>
      /\ count' = count + 1 /\ pc = "count" /\ pc' = "restore"
  BY DEF CountUp, IInv, Checked, writing, Goto
<1>2. /\ first' = first /\ length = count /\ length' = length + 1 /\ ~invalid'
  BY <1>1 DEF first, length, going, invalid
<1>3. /\ buffer \in [0 .. size - 1 -> Chars] /\ length \in 0 .. size /\ size \in Nat
      /\ \A i \in 1 .. size : cell(i) \in 0 .. size - 1 /\ Len(queue) = length
  BY <1>1, QueueIs
<1>4. length + 1 \in 1 .. size
  BY <1>1, <1>2, <1>3
<1>5. buffer[cell(length + 1)] \in Chars
  BY <1>3, <1>4
<1>6. queue' = Append(queue, buffer[cell(length + 1)])
  BY <1>1, <1>2, <1>3, <1>5, Appends
<1>7. Fifo!Accepted("main", buffer[cell(length + 1)])
  BY <1>1, <1>2, <1>3, <1>6 DEF Fifo!Accepted, CountUp, Return, invalid
<1> QED
  BY <1>5, <1>7

LEMMA TakeStep ==
    ASSUME IInv, Take
    PROVE  Fifo!Taken("main")
<1>1. /\ ~invalid /\ count > 0 /\ UNCHANGED ring
      /\ pc = "take" /\ pc' = "front"
  BY DEF Take, IInv, Checked, reading, Goto
<1>2. /\ first = front /\ length = count
      /\ first' = (first + 1) % size /\ length' = length - 1 /\ ~invalid'
  BY <1>1 DEF first, length, going, invalid, ring
<1>3. queue' = Tail(queue) /\ Head(queue) = buffer[front] /\ queue # << >>
  BY <1>1, <1>2, Takes DEF ring
<1> QED
  BY <1>1, <1>2, <1>3 DEF Fifo!Taken, Take, Return, ring

LEMMA HandleStep ==
    ASSUME IInv, Handle
    PROVE  [Fifo!Next]_Fifo!vars
<1>1. UNCHANGED <<program, pointer, size>> /\ pc \notin critical
  BY DEF Handle, HandlerWrites, HandlerReads, IInv, Guarded, ring
<1>2. /\ first = front /\ length = count /\ first' = front' /\ length' = count'
      /\ (invalid' <=> invalid)
  BY <1>1 DEF first, length, going, critical, program, invalid
<1>3. ~invalid => (first + length) % size = back
  BY <1>1 DEF IInv, IndicesAgree, critical
<1>4. CASE UNCHANGED <<ring, value>> /\ invalid /\ Return("isr", "BUFFER_INVALID")
  <2>1. queue' = queue
    BY <1>2, <1>4 DEF queue
  <2>2. Fifo!Refused("isr")
    BY <1>2, <1>4, <2>1 DEF Fifo!Refused, Return
  <2> QED
    BY <2>2 DEF Fifo!Next, Actors
<1>5. CASE /\ UNCHANGED <<ring, value>> /\ ~invalid /\ count >= size
           /\ Return("isr", "BUFFER_FULL")
  <2>1. queue' = queue
    BY <1>2, <1>5 DEF queue, ring
  <2>2. Len(queue) = size /\ size # 0
    BY <1>2, <1>5, QueueIs
  <2>3. Fifo!Refused("isr")
    BY <1>1, <1>2, <1>5, <2>1, <2>2 DEF Fifo!Refused, Return
  <2> QED
    BY <2>3 DEF Fifo!Next, Actors
<1>6. CASE /\ UNCHANGED <<ring, value>> /\ ~invalid /\ count = 0
           /\ Return("isr", "BUFFER_EMPTY")
  <2>1. queue' = queue
    BY <1>2, <1>6 DEF queue, ring
  <2>2. queue = << >> /\ size # 0
    BY <1>2, <1>6, QueueIs
  <2>3. Fifo!Refused("isr")
    BY <1>1, <1>2, <1>6, <2>1, <2>2 DEF Fifo!Refused, Return
  <2> QED
    BY <2>3 DEF Fifo!Next, Actors
<1>7. ASSUME NEW d \in Chars,
             ~invalid, count < size, Return("isr", "BUFFER_OK"),
             buffer' = [buffer EXCEPT ![back] = d], count' = count + 1,
             UNCHANGED <<front, value>>
      PROVE  [Fifo!Next]_Fifo!vars
  <2>1. /\ buffer \in [0 .. size - 1 -> Chars] /\ length \in 0 .. size /\ size \in Nat
        /\ back \in 0 .. size - 1
        /\ \A i \in 1 .. size : cell(i) \in 0 .. size - 1 /\ Len(queue) = length
    BY <1>7, QueueIs
  <2>2. cell(length + 1) = back /\ \A i \in 1 .. length : cell(i) # back
    BY <1>2, <1>3, <1>7, BackIsFree
  <2>3. /\ buffer' \in [0 .. size - 1 -> Chars] /\ buffer'[cell(length + 1)] = d
        /\ \A i \in 1 .. length : buffer'[cell(i)] = buffer[cell(i)]
    BY <1>7, <2>1, <2>2
  <2>4. first' = first /\ length' = length + 1 /\ length < size /\ ~invalid'
    BY <1>2, <1>7
  <2>5. queue' = Append(queue, d)
    BY <1>1, <1>7, <2>3, <2>4, Appends
  <2>6. Fifo!Accepted("isr", d)
    BY <1>1, <1>2, <1>7, <2>1, <2>4, <2>5 DEF Fifo!Accepted, Return
  <2> QED
    BY <2>6 DEF Fifo!Next, Actors
<1>8. CASE /\ ~invalid /\ count # 0 /\ Return("isr", "BUFFER_OK")
           /\ value' = [value EXCEPT !["isr"] = buffer[front]]
           /\ front' = (front + 1) % size /\ count' = count - 1
           /\ UNCHANGED buffer
  <2>1. length \in 0 .. size /\ size \in Nat
    BY <1>8, QueueIs
  <2>2. length > 0 /\ first' = (first + 1) % size /\ length' = length - 1 /\ ~invalid'
    BY <1>2, <1>8, <2>1
  <2>3. queue' = Tail(queue) /\ Head(queue) = buffer[front] /\ queue # << >>
    BY <1>1, <1>2, <1>8, <2>2, Takes
  <2>4. Fifo!Taken("isr")
    BY <1>1, <1>2, <1>8, <2>3 DEF Fifo!Taken, Return
  <2> QED
    BY <2>4 DEF Fifo!Next, Actors
<1> QED
  BY <1>4, <1>5, <1>6, <1>7, <1>8 DEF Handle, HandlerWrites, HandlerReads

LEMMA StepFifo == IInv /\ [Next]_vars => [Fifo!Next]_Fifo!vars
<1> SUFFICES ASSUME IInv, [Next]_vars PROVE [Fifo!Next]_Fifo!vars
  OBVIOUS
<1>1. CASE UNCHANGED vars
  BY <1>1 DEF vars, program, ring, replies, Fifo!vars, queue, invalid, first, length, going
<1>2. CASE CountUp
  BY <1>2, CountUpStep DEF Fifo!Next, Actors
<1>3. CASE Take
  BY <1>3, TakeStep DEF Fifo!Next, Actors
<1>4. CASE Next /\ ~CountUp /\ ~Take
  BY <1>4, SilentSteps, OpeningSteps, CheckStep, StoreStep, HandleStep DEF Next, Within
<1> QED
  BY <1>1, <1>2, <1>3, <1>4

\* For every size, set of characters and interleaving, the program's and the
\* handler's calls are those of one bounded queue, first in first out.
THEOREM RingIsFifo == Spec => IsFifo
BY Inductive, InitFifo, StepFifo, PTL DEF Spec, IsFifo, Fifo!Spec

-----------------------------------------------------------------------------
(* The status register.                                                    *)

\* As long as no handler falls between the save and the cli, interrupts are
\* enabled outside of a critical section, and within one that is what csreg says; from
\* then on csreg, and after the call the register, say that they are not.
Saved ==
    /\ ~caught => /\ pc \notin critical => sreg
                  /\ pc \in critical \cup {"disable"} => csreg
    /\ caught => /\ pc \notin critical \cup {"disable"} => ~sreg
                 /\ pc \in critical \cup {"disable"} => ~csreg

LEMMA StepSaved == IInv /\ Saved /\ [Next]_vars => Saved'
<1> SUFFICES ASSUME IInv, Saved, [Next]_vars PROVE Saved'
  OBVIOUS
<1>1. CASE UNCHANGED vars
  BY <1>1 DEF Saved, vars, program, history
<1>2. CASE Handle
  BY <1>2 DEF Saved, Handle, IInv, Guarded, critical, program
<1>3. CASE Save
  BY <1>3 DEF Saved, Save, Goto, critical, history
<1>4. CASE Disable
  BY <1>4 DEF Saved, Disable, Goto, critical, history
<1>5. CASE Restore
  BY <1>5 DEF Saved, Restore, Goto, critical, history
<1>6. CASE Check \/ Store \/ Back \/ CountUp \/ Take \/ Front \/ CountDown
  BY <1>6 DEF Saved, Check, Store, Back, CountUp, Take, Front, CountDown, Goto, critical,
     history
<1>7. CASE \/ Call \/ Allocate \/ Free \/ AvailableLow \/ Reset \/ SetSize \/ Forget
           \/ Clear \/ Available \/ Raise
  BY <1>7 DEF Saved, Call, Allocate, Free, AvailableLow, Reset, SetSize, Forget, Clear,
     Available, Raise, Goto, critical, history, program
<1> QED
  BY <1>1, <1>2, <1>3, <1>4, <1>5, <1>6, <1>7 DEF Next, Within

\* Whatever the sizes: interrupts are enabled between calls until a handler has run between
\* the save and the cli of one, and disabled ever after.
THEOREM WhenInterruptsAreLost == Spec => []InterruptsLostIffCaught
<1>1. Init => Saved
  BY DEF Init, Saved, critical
<1>2. TypeOK /\ Saved => InterruptsLostIffCaught
  BY DEF TypeOK, Saved, InterruptsLostIffCaught, critical
<1> QED
  BY <1>1, <1>2, Inductive, BufferTypes, StepSaved, PTL DEF Spec

-----------------------------------------------------------------------------
(* What dataAvailable() says.                                              *)

\* A handler that only writes takes nothing back: the low byte that has been read
\* stays true of a count that grows, and a promise stands until the program reads.
\* A buffer that is refused is empty, but for one that is being freed.
Promised ==
    /\ invalid /\ pc # "clear" => count = 0
    /\ handler = "write" /\ pc = "available" /\ low # 0 => count > 0
    /\ handler = "write" /\ promised =>
          /\ ~invalid /\ count > 0
          /\ pc \in {"idle", "available", "save", "disable", "check", "store", "back", "count",
                    "restore"}
          /\ pc \in {"save", "disable", "check"} => call = "write"

LEMMA InitPromised == Init => Promised
BY DEF Init, Promised

LEMMA StepPromised == IInv /\ Promised /\ [Next]_vars => Promised'
<1> SUFFICES ASSUME IInv, Promised, [Next]_vars PROVE Promised'
  OBVIOUS
<1>0. /\ count \in Nat /\ size \in Nat /\ handler \in {"write", "read"} /\ promised \in BOOLEAN
      /\ low \in Nat
  BY CircularBufferAssumption DEF IInv, TypeOK
<1> USE <1>0 DEF Promised, Goto, Return, program, ring, replies, history
<1>1. CASE UNCHANGED vars
  BY <1>1 DEF vars, invalid
<1>2. CASE Handle
  <2>1. UNCHANGED <<pc, call, low, handler, promised, size, pointer>>
    BY <1>2 DEF Handle, HandlerWrites, HandlerReads
  <2>2. invalid' = invalid
    BY <2>1 DEF invalid
  <2>3. handler = "write" => count' \in {count, count + 1}
    BY <1>2 DEF Handle, HandlerWrites
  <2>4. invalid => count' = count
    BY <1>2 DEF Handle, HandlerWrites, HandlerReads
  <2> QED
    BY <2>1, <2>2, <2>3, <2>4
<1>3. CASE Call \/ Save \/ Disable \/ Restore \/ Raise
  <2>1. CASE Call
    BY <2>1 DEF Call, invalid
  <2>2. CASE Save
    BY <2>2 DEF Save, invalid
  <2>3. CASE Disable
    BY <2>3 DEF Disable, invalid
  <2>4. CASE Restore
    BY <2>4 DEF Restore, invalid
  <2>5. CASE Raise
    BY <2>5 DEF Raise, invalid
  <2> QED
    BY <1>3, <2>1, <2>2, <2>3, <2>4, <2>5
<1>4. CASE Check
  BY <1>4 DEF Check, invalid
<1>5. CASE Store \/ Back
  BY <1>5 DEF Store, Back, invalid
<1>6. CASE CountUp
  BY <1>6 DEF CountUp, invalid, IInv, Checked, writing
<1>7. CASE Take \/ Front
  BY <1>7 DEF Take, Front, invalid
<1>8. CASE CountDown
  BY <1>8 DEF CountDown, invalid, IInv, Checked, reading
<1>9. CASE Allocate \/ Free
  BY <1>9 DEF Allocate, Free, invalid
<1>10. CASE Reset \/ SetSize
  BY <1>10 DEF Reset, SetSize, invalid, IInv, Opening
<1>11. CASE Forget \/ Clear
  BY <1>11 DEF Forget, Clear, invalid
<1>12. CASE AvailableLow
  BY <1>12, CircularBufferAssumption DEF AvailableLow, invalid
<1>13. CASE Available
  <2>1. count \div Byte # 0 => count > 0
    BY CircularBufferAssumption
  <2> QED
    BY <1>13, <2>1 DEF Available, invalid
<1> QED
  BY <1>1, <1>2, <1>3, <1>4, <1>5, <1>6, <1>7, <1>8, <1>9, <1>10, <1>11, <1>12, <1>13
     DEF Next, Within

\* For every width of a byte and every interleaving: when the handler only writes,
\* what dataAvailable() has said can be relied on until the program reads.
THEOREM PromisesAreKept == Spec => []AvailableIsData
<1>1. ASSUME IInv, Promised, promised, handler = "write" PROVE queue # << >>
  <2>1. ~invalid /\ count > 0 /\ length = count
    BY <1>1 DEF Promised, length, going
  <2>2. count \in Nat
    BY <1>1 DEF IInv, TypeOK
  <2>3. 1 \in 1 .. length
    BY <2>1, <2>2
  <2>4. DOMAIN queue = 1 .. length
    BY <2>1 DEF queue
  <2>5. DOMAIN << >> = {}
    OBVIOUS
  <2> QED
    BY <2>3, <2>4, <2>5
<1>2. IInv /\ Promised => AvailableIsData
  BY <1>1 DEF AvailableIsData
<1> QED
  BY <1>2, Inductive, InitPromised, StepPromised, PTL DEF Spec

=============================================================================
