--------------------------- MODULE WordSearchProofs ---------------------------
(* The dictionary programs, for every set of words and every number of rows. *)
EXTENDS WordSearch, SequenceTheorems, FiniteSetTheorems, FunctionTheorems, TLAPS

\* The calls that are left stay within the rows, and a merging has two halves.
Calls == [call : {"MSort", "M"}, low : Int, mid : Int, high : Int]
Within == { c \in Calls :
              /\ c.low >= 0 /\ c.high < dSize
              /\ c.call = "M" => c.low <= c.mid /\ c.mid < c.high }

StackOK ==
    /\ stack \in Seq(Within)
    /\ pc = "read" => stack = <<>>
    /\ pc = "merge" => stack # <<>> /\ call.call = "M"

\* The indices of the three loops.
LoopsOK ==
    /\ i >= 1
    /\ pc = "shift" => i < dSize /\ j >= -1 /\ j < i
    /\ pc = "merge" => /\ left >= call.low /\ left <= call.mid + 1
                       /\ right >= call.mid + 1 /\ right <= call.high + 1
                       /\ Len(b) = (left - call.low) + (right - call.mid - 1)

\* What a search has ruled out: the rows below low, and above high.
Ruled ==
    pc = "search" =>
        /\ low <= dSize /\ high >= -1 /\ high < dSize
        /\ idxOfX = -1 \/ (idxOfX \in TheRows /\ a[idxOfX] = W)
        /\ program = "strSearch" => high = dSize - 1 /\ \A k \in TheRows : k < low => a[k] # W
        /\ program # "strSearch" /\ Ordered(0, dSize - 1) =>
              \A k \in TheRows : (k < low => a[k] < W) /\ (k > high => a[k] > W)

IInv == TypeOK /\ StackOK /\ LoopsOK /\ Ruled

-----------------------------------------------------------------------------
\* The middle is between the ends.
LEMMA Middle ==
    ASSUME NEW l \in Int, NEW h \in Int
    PROVE  /\ (l + h) \div 2 \in Int
           /\ l <= h => l <= (l + h) \div 2 /\ (l + h) \div 2 <= h
           /\ l < h => (l + h) \div 2 < h
OBVIOUS

LEMMA HasWords == unset \in Words
<1>1. \E word \in Words : TRUE
  BY WordSearchAssumption
<1> QED
  BY <1>1 DEF unset

LEMMA RowsTyped == TypeOK => TheRows \subseteq Rows
BY WordSearchAssumption DEF TypeOK, TheRows, Rows

\* The call on top of a stack that is not empty, and what is below it.
LEMMA TopCall ==
    ASSUME StackOK, stack # <<>>
    PROVE  call \in Within /\ Tail(stack) \in Seq(Within)
BY HeadTailProperties DEF StackOK, call

LEMMA MergeTyped ==
    ASSUME TypeOK, call \in Within
    PROVE  /\ call.low \in Int /\ call.mid \in Int /\ call.high \in Int
           /\ left \in Int /\ right \in Int /\ Len(b) \in Nat
<1>1. call.low \in Int /\ call.mid \in Int /\ call.high \in Int
  BY DEF Within, Calls
<1>2. left \in Int /\ right \in Int /\ b \in Seq(Words)
  BY DEF TypeOK
<1> QED
  BY <1>1, <1>2, LenProperties

LEMMA WithinCalls == Seq(Within) \subseteq Seq(Calls)
BY DEF Within

LEMMA InitIInv == Init => IInv
<1> SUFFICES ASSUME Init PROVE IInv
  OBVIOUS
<1>1. TypeOK
  BY HasWords, WordSearchAssumption DEF Init, TypeOK, Rows
<1>2. StackOK /\ LoopsOK /\ Ruled
  BY DEF Init, StackOK, LoopsOK, Ruled
<1> QED
  BY <1>1, <1>2 DEF IInv

\* A row that was too low rules out the rows below it, if they are in order.
LEMMA HalveRules ==
    ASSUME TypeOK, Ruled, Halve, mid \in TheRows, low <= mid, mid <= high
    PROVE  Ruled'
<1>1. TheRows \subseteq Rows /\ dSize \in Nat
  BY RowsTyped, WordSearchAssumption DEF TypeOK
<1>2. \A k \in TheRows : a[k] \in Int
  BY <1>1, WordSearchAssumption DEF TypeOK
<1>3. W \in Int /\ low \in Nat /\ high \in Int /\ mid \in 0 .. dSize - 1
  BY WordSearchAssumption DEF TypeOK, TheRows
<1>4. UNCHANGED <<program, pc, a, W, dSize>>
  BY DEF Halve, reading
<1>5. TheRows' = TheRows /\ Ordered(0, dSize - 1)' = Ordered(0, dSize - 1)
  BY <1>4 DEF TheRows, Ordered
<1>6. CASE a[mid] = W /\ idxOfX' = mid /\ UNCHANGED <<low, high>>
  BY <1>4, <1>5, <1>6 DEF Ruled, Halve
<1>7. CASE a[mid] < W /\ low' = mid + 1 /\ UNCHANGED <<high, idxOfX>>
  <2>1. ASSUME Ordered(0, dSize - 1), NEW k \in TheRows, k < low' PROVE a[k] < W
    <3>1. k \in 0 .. dSize - 1 /\ k <= mid
      BY <1>3, <1>7, <2>1 DEF TheRows
    <3>2. a[k] <= a[mid]
      BY <1>2, <1>3, <2>1, <3>1 DEF Ordered, TheRows
    <3> QED
      BY <1>2, <1>3, <1>7, <3>2 DEF TheRows
  <2> HIDE DEF mid
  <2> QED
    BY <1>1, <1>3, <1>4, <1>5, <1>7, <2>1 DEF Ruled, Halve, isSearching
<1>8. CASE a[mid] > W /\ high' = mid - 1 /\ UNCHANGED <<low, idxOfX>>
  <2>1. ASSUME Ordered(0, dSize - 1), NEW k \in TheRows, k > high' PROVE a[k] > W
    <3>1. k \in 0 .. dSize - 1 /\ k >= mid
      BY <1>3, <1>8, <2>1 DEF TheRows
    <3>2. a[k] >= a[mid]
      BY <1>2, <1>3, <2>1, <3>1 DEF Ordered, TheRows
    <3> QED
      BY <1>2, <1>3, <1>8, <3>2 DEF TheRows
  <2> HIDE DEF mid
  <2> QED
    BY <1>1, <1>3, <1>4, <1>5, <1>8, <2>1 DEF Ruled, Halve, isSearching
<1> QED
  BY <1>6, <1>7, <1>8 DEF Halve

LEMMA StepIInv == IInv /\ [Next]_vars => IInv'
<1> SUFFICES ASSUME IInv, [Next]_vars PROVE IInv'
  OBVIOUS
<1> USE DEF IInv
<1>1. CASE ReadWord
  <2>1. TypeOK'
    <3>1. a' \in [Rows -> Words]
      BY <1>1 DEF ReadWord, TypeOK
    <3>2. dSize' \in 0 .. max' /\ max' = max
      BY <1>1, WordSearchAssumption DEF ReadWord, TypeOK
    <3> QED
      BY <1>1, <3>1, <3>2 DEF ReadWord, TypeOK, inserting, merging, searching, counting
  <2>2. StackOK'
    BY <1>1 DEF ReadWord, StackOK, merging
  <2> QED
    BY <1>1, <2>1, <2>2 DEF ReadWord, LoopsOK, Ruled, inserting
<1>2. CASE DictionaryRead
  <2>1. dSize' \in 0 .. max /\ pc' \in {"query", "sort", "MSort"}
    BY <1>2, WordSearchAssumption DEF DictionaryRead, TypeOK, Programs
  <2>2. MSorting(0, dSize' - 1) \in Within'
    BY <2>1, WordSearchAssumption DEF MSorting, Within, Calls, TypeOK
  <2>3. stack' \in Seq(Within')
    BY <1>2, <2>2 DEF DictionaryRead
  <2>4. TypeOK'
    <3>1. stack' \in Seq(Calls)
      BY <2>3 DEF Within
    <3> QED
      BY <1>2, <2>1, <3>1 DEF DictionaryRead, TypeOK, Calls, inserting, searching, counting
  <2> QED
    BY <1>2, <2>1, <2>3, <2>4 DEF DictionaryRead, StackOK, LoopsOK, Ruled, inserting
<1>3. CASE TakeNext
  <2>1. a[i] \in Words
    BY <1>3, WordSearchAssumption DEF TakeNext, TypeOK, LoopsOK, Rows
  <2>2. TypeOK'
    BY <1>3, <2>1 DEF TakeNext, TypeOK, reading, merging, searching, counting
  <2>3. StackOK'
    BY <1>3 DEF TakeNext, StackOK, Within, reading, merging
  <2>4. i \in Nat /\ dSize \in Nat
    BY WordSearchAssumption DEF TypeOK
  <2> QED
    BY <1>3, <2>2, <2>3, <2>4 DEF TakeNext, LoopsOK, Ruled, reading
<1>4. CASE Shift
  <2>1. a[j] \in Words
    BY <1>4, WordSearchAssumption DEF Shift, mustShift, TypeOK, LoopsOK, Rows
  <2>2. TypeOK'
    <3>1. a' \in [Rows -> Words]
      BY <1>4, <2>1 DEF Shift, TypeOK
    <3>2. j' \in Int
      BY <1>4 DEF Shift, TypeOK
    <3> QED
      BY <1>4, <3>1, <3>2 DEF Shift, TypeOK, reading, merging, searching, counting
  <2>3. StackOK'
    BY <1>4 DEF Shift, StackOK, Within, reading, merging
  <2>4. LoopsOK'
    <3>0. pc = "shift" /\ pc' = "shift" /\ i' = i /\ dSize' = dSize /\ j' = j - 1 /\ j >= 0
      BY <1>4 DEF Shift, mustShift, reading
    <3>1. i >= 1 /\ i < dSize
      BY <3>0 DEF LoopsOK
    <3>2. j \in Int /\ j < i /\ i \in Int
      BY <3>0 DEF LoopsOK, TypeOK
    <3>3. i' >= 1 /\ pc' # "merge"
      BY <3>0, <3>1
    <3>4. i' < dSize' /\ j' >= -1 /\ j' < i'
      BY <3>0, <3>1, <3>2
    <3> HIDE DEF IInv
    <3> QED
      BY <3>3, <3>4 DEF LoopsOK
  <2>5. Ruled'
    BY <1>4 DEF Shift, Ruled
  <2> QED
    BY <2>2, <2>3, <2>4, <2>5
<1>5. CASE Insert
  <2>2. TypeOK'
    <3>1. a' \in [Rows -> Words]
      BY <1>5 DEF Insert, TypeOK
    <3>2. i' \in Nat
      BY <1>5 DEF Insert, TypeOK
    <3> QED
      BY <1>5, <3>1, <3>2 DEF Insert, TypeOK, reading, merging, searching, counting
  <2>3. StackOK'
    BY <1>5 DEF Insert, StackOK, Within, reading, merging
  <2>4. pc = "shift" /\ pc' = "sort" /\ i \in Nat /\ i' = i + 1
    BY <1>5 DEF Insert, TypeOK
  <2>5. LoopsOK' /\ Ruled'
    BY <2>4, <1>5 DEF Insert, LoopsOK, Ruled, reading
  <2> QED
    BY <2>2, <2>3, <2>5
<1>6. CASE Divide
  <2> DEFINE m == (call.low + call.high) \div 2
             new == IF call.low < call.high
                    THEN <<MSorting(call.low, m), MSorting(m + 1, call.high),
                           Merging(call.low, m, call.high)>>
                    ELSE <<>>
  <2>1. call \in Within /\ Tail(stack) \in Seq(Within)
    BY <1>6, TopCall DEF Divide
  <2>2. call.low \in Int /\ call.high \in Int /\ call.low >= 0 /\ call.high < dSize
    BY <2>1 DEF Within, Calls
  <2>3. new \in Seq(Within)
    <3>1. CASE call.low < call.high
      <4>1. m \in Int /\ call.low <= m /\ m < call.high
        BY <2>2, <3>1, Middle
      <4> HIDE DEF m
      <4>2. MSorting(call.low, m) \in Within
        BY <2>2, <4>1 DEF MSorting, Within, Calls, TypeOK
      <4>3. MSorting(m + 1, call.high) \in Within
        BY <2>2, <4>1 DEF MSorting, Within, Calls, TypeOK
      <4>4. Merging(call.low, m, call.high) \in Within
        BY <2>2, <4>1 DEF Merging, Within, Calls, TypeOK
      <4> QED
        BY <3>1, <4>2, <4>3, <4>4
    <3>2. CASE ~(call.low < call.high)
      BY <3>2
    <3> QED
      BY <3>1, <3>2
  <2>4. stack' = new \o Tail(stack)
    BY <1>6 DEF Divide
  <2> HIDE DEF new
  <2>5. stack' \in Seq(Within)
    BY <2>1, <2>3, <2>4, ConcatProperties
  <2>6. Within' = Within
    BY <1>6 DEF Divide, Within, reading
  <2>7. TypeOK'
    <3>1. stack' \in Seq(Calls)
      BY <2>5, WithinCalls
    <3> QED
      BY <1>6, <3>1 DEF Divide, TypeOK, Calls, reading, inserting, searching, counting
  <2> QED
    BY <1>6, <2>5, <2>6, <2>7 DEF Divide, StackOK, LoopsOK, Ruled, inserting
<1>7. CASE BeginMerge
  <2>1. call \in Within
    BY <1>7, TopCall DEF BeginMerge
  <2>2. TypeOK'
    <3>1. call.low \in Int /\ call.mid \in Int
      BY <2>1 DEF Within, Calls
    <3>2. left' \in Int /\ right' \in Int /\ b' = << >>
      BY <1>7, <3>1 DEF BeginMerge
    <3>3. b' \in Seq(Words)
      BY <3>2
    <3> QED
      BY <1>7, <3>2, <3>3 DEF BeginMerge, TypeOK, reading, inserting, searching, counting
  <2>3. StackOK'
    BY <1>7 DEF BeginMerge, StackOK, Within, reading, call
  <2>4. LoopsOK'
    BY <1>7, <2>1 DEF BeginMerge, LoopsOK, Within, Calls, inserting, call
  <2> QED
    BY <1>7, <2>2, <2>3, <2>4 DEF BeginMerge, Ruled
<1>8. CASE TakeLeft
  <2>1. call \in Within /\ call.call = "M"
    BY <1>8, TopCall DEF TakeLeft, StackOK
  <2>2. left \in Rows
    <3>1. call.low \in Int /\ call.mid \in Int /\ call.high \in Int /\ left \in Int
      BY <2>1, MergeTyped
    <3>2. 0 <= call.low /\ call.low <= call.mid /\ call.mid < call.high /\ call.high < dSize
      BY <2>1 DEF Within
    <3>3. left >= call.low /\ left <= call.mid
      BY <1>8 DEF TakeLeft, LoopsOK
    <3>4. dSize \in Nat /\ dSize <= MaxRows /\ MaxRows \in Nat
      BY WordSearchAssumption DEF TypeOK
    <3> QED
      BY <3>1, <3>2, <3>3, <3>4 DEF Rows
  <2>3. b' \in Seq(Words) /\ Len(b') = Len(b) + 1
    BY <1>8, <2>2, AppendProperties DEF TakeLeft, TypeOK
  <2>4. TypeOK'
    BY <1>8, <2>3 DEF TakeLeft, TypeOK, reading, inserting, searching, counting
  <2>5. StackOK' /\ call' = call
    BY <1>8 DEF TakeLeft, StackOK, Within, reading, call
  <2>6. LoopsOK'
    <3>1. /\ call.low \in Int /\ call.mid \in Int /\ call.high \in Int
          /\ left \in Int /\ right \in Int /\ Len(b) \in Nat
      BY <2>1, MergeTyped
    <3>2. /\ left >= call.low /\ left <= call.mid + 1
          /\ right >= call.mid + 1 /\ right <= call.high + 1
          /\ Len(b) = (left - call.low) + (right - call.mid - 1)
          /\ i >= 1 /\ i' = i /\ pc' = "merge"
      BY <1>8 DEF TakeLeft, LoopsOK, inserting
    <3> QED
      <4>1. left' = left + 1 /\ right' = right /\ left <= call.mid
        BY <1>8 DEF TakeLeft
      <4>2. i' >= 1 /\ pc' # "shift"
        BY <3>2
      <4>3. /\ left' >= call'.low /\ left' <= call'.mid + 1
            /\ right' >= call'.mid + 1 /\ right' <= call'.high + 1
        BY <2>5, <3>1, <3>2, <4>1
      <4>4. Len(b') = (left' - call'.low) + (right' - call'.mid - 1)
        <5> DEFINE d == left - call.low
                   e == right - call.mid - 1
        <5>1. d \in Int /\ e \in Int
          BY <3>1
        <5>2. Len(b') = d + e + 1
          BY <2>3, <3>2
        <5>3. left' - call'.low = d + 1
          BY <2>5, <3>1, <4>1
        <5>4. right' - call'.mid - 1 = e
          BY <2>5, <3>1, <4>1
        <5> HIDE DEF d, e
        <5> QED
          BY <5>1, <5>2, <5>3, <5>4
      <4> QED
        BY <4>2, <4>3, <4>4 DEF LoopsOK
  <2> QED
    BY <1>8, <2>4, <2>5, <2>6 DEF TakeLeft, Ruled
<1>9. CASE TakeRight
  <2>1. call \in Within /\ call.call = "M"
    BY <1>9, TopCall DEF TakeRight, StackOK
  <2>2. right \in Rows
    <3>1. call.low \in Int /\ call.mid \in Int /\ call.high \in Int /\ right \in Int
      BY <2>1, MergeTyped
    <3>2. 0 <= call.low /\ call.low <= call.mid /\ call.mid < call.high /\ call.high < dSize
      BY <2>1 DEF Within
    <3>3. right >= call.mid + 1 /\ right <= call.high
      BY <1>9 DEF TakeRight, LoopsOK
    <3>4. dSize \in Nat /\ dSize <= MaxRows /\ MaxRows \in Nat
      BY WordSearchAssumption DEF TypeOK
    <3> QED
      BY <3>1, <3>2, <3>3, <3>4 DEF Rows
  <2>3. b' \in Seq(Words) /\ Len(b') = Len(b) + 1
    BY <1>9, <2>2, AppendProperties DEF TakeRight, TypeOK
  <2>4. TypeOK'
    BY <1>9, <2>3 DEF TakeRight, TypeOK, reading, inserting, searching, counting
  <2>5. StackOK' /\ call' = call
    BY <1>9 DEF TakeRight, StackOK, Within, reading, call
  <2>6. LoopsOK'
    <3>1. /\ call.low \in Int /\ call.mid \in Int /\ call.high \in Int
          /\ left \in Int /\ right \in Int /\ Len(b) \in Nat
      BY <2>1, MergeTyped
    <3>2. /\ left >= call.low /\ left <= call.mid + 1
          /\ right >= call.mid + 1 /\ right <= call.high + 1
          /\ Len(b) = (left - call.low) + (right - call.mid - 1)
          /\ i >= 1 /\ i' = i /\ pc' = "merge"
      BY <1>9 DEF TakeRight, LoopsOK, inserting
    <3> QED
      <4>1. right' = right + 1 /\ left' = left /\ right <= call.high
        BY <1>9 DEF TakeRight
      <4>2. i' >= 1 /\ pc' # "shift"
        BY <3>2
      <4>3. /\ left' >= call'.low /\ left' <= call'.mid + 1
            /\ right' >= call'.mid + 1 /\ right' <= call'.high + 1
        BY <2>5, <3>1, <3>2, <4>1
      <4>4. Len(b') = (left' - call'.low) + (right' - call'.mid - 1)
        <5> DEFINE d == left - call.low
                   e == right - call.mid - 1
        <5>1. d \in Int /\ e \in Int
          BY <3>1
        <5>2. Len(b') = d + e + 1
          BY <2>3, <3>2
        <5>3. left' - call'.low = d
          BY <2>5, <3>1, <4>1
        <5>4. right' - call'.mid - 1 = e + 1
          BY <2>5, <3>1, <4>1
        <5> HIDE DEF d, e
        <5> QED
          BY <5>1, <5>2, <5>3, <5>4
      <4> QED
        BY <4>2, <4>3, <4>4 DEF LoopsOK
  <2> QED
    BY <1>9, <2>4, <2>5, <2>6 DEF TakeRight, Ruled
<1>10. CASE CopyBack
  <2>1. call \in Within /\ call.call = "M" /\ Tail(stack) \in Seq(Within)
    BY <1>10, TopCall DEF CopyBack, StackOK
  <2>2. \A k \in call.low .. call.high : k - call.low + 1 \in 1 .. Len(b)
    <3>1. /\ call.low \in Int /\ call.mid \in Int /\ call.high \in Int
          /\ left \in Int /\ right \in Int /\ Len(b) \in Nat
      BY <2>1, MergeTyped
    <3>2. /\ left <= call.mid + 1 /\ right <= call.high + 1
          /\ Len(b) = (left - call.low) + (right - call.mid - 1)
          /\ left > call.mid /\ right > call.high
      BY <1>10 DEF CopyBack, LoopsOK
    <3>3. left = call.mid + 1
      BY <3>1, <3>2
    <3>4. right = call.high + 1
      BY <3>1, <3>2
    <3> QED
      <4>1. Len(b) = ((call.mid + 1) - call.low) + ((call.high + 1) - call.mid - 1)
        BY <3>2, <3>3, <3>4
      <4>2. Len(b) = call.high + 1 - call.low
        <5> DEFINE l == call.low
                   m == call.mid
                   h == call.high
                   n == Len(b)
        <5>1. l \in Int /\ m \in Int /\ h \in Int /\ n \in Nat
          BY <3>1
        <5>2. n = ((m + 1) - l) + ((h + 1) - m - 1)
          BY <4>1
        <5> HIDE DEF l, m, h, n
        <5>3. n = h + 1 - l
          BY <5>1, <5>2
        <5> QED
          BY <5>3 DEF l, m, h, n
      <4> SUFFICES ASSUME NEW k \in call.low .. call.high
                   PROVE  k - call.low + 1 \in 1 .. Len(b)
        OBVIOUS
      <4>3. k \in Int /\ call.low <= k /\ k <= call.high
        BY <3>1
      <4>4. k < Len(b) + call.low
        BY <3>1, <4>2, <4>3
      <4> DEFINE n == Len(b)
                 from == call.low
      <4>5. n \in Int /\ from \in Int /\ from <= k /\ k < n + from
        BY <3>1, <4>3, <4>4
      <4> HIDE DEF n, from, IInv
      <4>6. k - from + 1 \in 1 .. n
        BY <4>3, <4>5
      <4> QED
        BY <4>6 DEF n, from
  <2>3. \A k \in call.low .. call.high : b[k - call.low + 1] \in Words
    BY <2>2 DEF TypeOK
  <2>4. a' \in [Rows -> Words]
    BY <1>10, <2>3 DEF CopyBack, TypeOK
  <2>5. TypeOK'
    <3>1. stack' \in Seq(Calls)
      BY <1>10, <2>1, WithinCalls DEF CopyBack
    <3> QED
      BY <1>10, <2>4, <3>1 DEF CopyBack, TypeOK, Calls, reading, inserting, searching, counting
  <2>6. StackOK'
    BY <1>10, <2>1 DEF CopyBack, StackOK, Within, reading
  <2> QED
    BY <1>10, <2>5, <2>6 DEF CopyBack, LoopsOK, Ruled, inserting
<1>11. CASE Sorted
  <2>1. TypeOK'
    BY <1>11 DEF Sorted, TypeOK, reading, inserting, merging, searching, counting
  <2>2. StackOK'
    BY <1>11 DEF Sorted, StackOK, Within, reading, merging
  <2> QED
    BY <1>11, <2>1, <2>2 DEF Sorted, LoopsOK, Ruled, inserting
<1>12. CASE Ask
  <2>1. TypeOK'
    BY <1>12, WordSearchAssumption DEF Ask, TypeOK, reading, inserting, merging, counting
  <2>2. StackOK'
    BY <1>12 DEF Ask, StackOK, Within, reading, merging
  <2>3. Ruled'
    BY <1>12, WordSearchAssumption DEF Ask, Ruled, TypeOK, TheRows, reading
  <2> QED
    BY <1>12, <2>1, <2>2, <2>3 DEF Ask, LoopsOK, inserting
<1>13. CASE TryRow
  <2>1. TypeOK'
    BY <1>13 DEF TryRow, isSearching, TypeOK, reading, inserting, merging, counting
  <2>2. StackOK'
    BY <1>13 DEF TryRow, StackOK, Within, reading, merging
  <2>3. Ruled'
    BY <1>13 DEF TryRow, isSearching, Ruled, TypeOK, TheRows, reading
  <2> QED
    BY <1>13, <2>1, <2>2, <2>3 DEF TryRow, LoopsOK, inserting
<1>14. CASE Halve
  <2>1. mid \in TheRows /\ low <= mid /\ mid <= high
    BY <1>14, Middle DEF Halve, isSearching, mid, Ruled, TypeOK, TheRows
  <2>2. TypeOK'
    BY <1>14, <2>1 DEF Halve, TypeOK, TheRows, reading, inserting, merging, counting
  <2>3. StackOK'
    BY <1>14 DEF Halve, StackOK, Within, reading, merging
  <2>4. Ruled'
    BY <1>14, <2>1, HalveRules
  <2> QED
    BY <1>14, <2>2, <2>3, <2>4 DEF Halve, LoopsOK, inserting
<1>15. CASE Answer
  <2>1. TypeOK'
    <3>1. asked' \in Seq(Words)
      BY <1>15, AppendProperties DEF Answer, TypeOK
    <3> QED
      BY <1>15, <3>1 DEF Answer, TypeOK, reading, inserting, merging, searching
  <2>2. StackOK'
    BY <1>15 DEF Answer, StackOK, Within, reading, merging
  <2> QED
    BY <1>15, <2>1, <2>2 DEF Answer, LoopsOK, Ruled, inserting
<1>16. CASE UNCHANGED vars
  <2>1. TypeOK' /\ StackOK'
    BY <1>16 DEF vars, TypeOK, StackOK, Within, reading, inserting, merging, searching, counting, call
  <2> QED
    BY <1>16, <2>1 DEF vars, LoopsOK, Ruled, Ordered, TheRows, reading, inserting, merging, searching, call
<1> QED
  BY <1>1, <1>2, <1>3, <1>4, <1>5, <1>6, <1>7, <1>8, <1>9, <1>10, <1>11, <1>12, <1>13,
     <1>14, <1>15, <1>16 DEF Next, Reads, Sorts, Searches

LEMMA Inductive == Spec => []IInv
BY InitIInv, StepIInv, PTL DEF Spec

\* The dictionary programs keep their types: no more rows than were asked for, and only
\* words in them.
THEOREM WordsTyped == Spec => []TypeOK
<1>1. IInv => TypeOK
  BY DEF IInv
<1> QED
  BY <1>1, Inductive, PTL

\* No index of the sorts and searches leaves the rows of the dictionary.
THEOREM IndicesInside == Spec => []RowsInside
<1>1. ASSUME IInv PROVE RowsInside
  <2> USE <1>1 DEF IInv
  <2>0. dSize \in Nat /\ i \in Nat /\ j \in Int /\ low \in Nat /\ high \in Int /\ idxOfX \in Int
    BY WordSearchAssumption DEF TypeOK
  <2>1. pc = "shift" => i \in TheRows /\ j \in -1 .. i - 1
    BY <2>0 DEF LoopsOK, TheRows
  <2>2. ASSUME pc = "merge"
        PROVE  /\ call.low >= 0 /\ call.high < dSize /\ call.low < call.high
               /\ left \in call.low .. call.mid + 1
               /\ right \in call.mid + 1 .. call.high + 1
               /\ Len(b) = (left - call.low) + (right - call.mid - 1)
    <3>1. call \in Within /\ call.call = "M"
      BY <2>2, TopCall DEF StackOK
    <3>2. /\ call.low >= 0 /\ call.high < dSize
          /\ call.low <= call.mid /\ call.mid < call.high
      BY <3>1 DEF Within
    <3>3. /\ call.low \in Int /\ call.mid \in Int /\ call.high \in Int
          /\ left \in Int /\ right \in Int
      BY <3>1, MergeTyped
    <3>4. call.low < call.high
      BY <3>2, <3>3
    <3>5. /\ left >= call.low /\ left <= call.mid + 1
          /\ right >= call.mid + 1 /\ right <= call.high + 1
          /\ Len(b) = (left - call.low) + (right - call.mid - 1)
      BY <2>2 DEF LoopsOK
    <3>6. left \in call.low .. call.mid + 1
      BY <3>3, <3>5
    <3>7. right \in call.mid + 1 .. call.high + 1
      BY <3>3, <3>5
    <3> QED
      BY <3>2, <3>4, <3>5, <3>6, <3>7
  <2>3. ASSUME pc = "search"
        PROVE  (isSearching => mid \in TheRows) /\ idxOfX \in -1 .. dSize - 1
    <3>1. high < dSize /\ (idxOfX = -1 \/ idxOfX \in TheRows)
      BY <2>3 DEF Ruled
    <3>2. idxOfX \in -1 .. dSize - 1
      BY <2>0, <3>1 DEF TheRows
    <3>3. ASSUME isSearching PROVE mid \in TheRows
      <4>1. mid \in Int /\ low <= mid /\ mid <= high
        BY <2>0, <3>3, Middle DEF isSearching, mid
      <4> QED
        BY <2>0, <3>1, <4>1 DEF TheRows
    <3> QED
      BY <3>2, <3>3
  <2> QED
    BY <2>1, <2>2, <2>3 DEF RowsInside
<1> QED
  BY <1>1, Inductive, PTL

\* A search that ends without an index has ruled out every row.
THEOREM SearchIsRight == Spec => []FoundIffThere
<1>1. ASSUME IInv PROVE FoundIffThere
  <2> USE <1>1 DEF IInv
  <2>0. dSize \in Nat /\ low \in Nat /\ high \in Int /\ idxOfX \in Int /\ W \in Int
    BY WordSearchAssumption DEF TypeOK
  <2>1. \A k \in TheRows : k \in Int /\ a[k] \in Int
    <3>1. TheRows \subseteq 0 .. dSize - 1 /\ TheRows \subseteq Rows
      BY RowsTyped DEF TheRows
    <3>2. \A k \in Rows : a[k] \in Words
      BY DEF TypeOK
    <3>3. Words \subseteq Int /\ 0 .. dSize - 1 \subseteq Int
      BY <2>0, WordSearchAssumption
    <3>4. TAKE k \in TheRows
    <3>5. k \in Int /\ a[k] \in Words
      BY <3>1, <3>2, <3>3
    <3> QED
      BY <3>3, <3>5
  <2> SUFFICES ASSUME pc = "search", ~isSearching,
                      program = "strSearch" \/ Ordered(0, dSize - 1)
               PROVE  /\ idxOfX # -1 => idxOfX \in TheRows /\ a[idxOfX] = W
                      /\ idxOfX = -1 => \A k \in TheRows : a[k] # W
    BY DEF FoundIffThere
  <2>2. idxOfX # -1 => idxOfX \in TheRows /\ a[idxOfX] = W
    BY DEF Ruled
  <2>3. ASSUME idxOfX = -1, NEW k \in TheRows PROVE a[k] # W
    <3>1. low > high
      BY <2>0, <2>3 DEF isSearching
    <3>2. k < low \/ k > high
      BY <2>0, <2>1, <3>1
    <3>3. CASE program = "strSearch"
      BY <2>0, <2>1, <3>2, <3>3 DEF Ruled, TheRows
    <3>4. CASE program # "strSearch"
      BY <2>0, <2>1, <3>2, <3>4 DEF Ruled
    <3> QED
      BY <3>3, <3>4
  <2> QED
    BY <2>2, <2>3
<1> QED
  BY <1>1, Inductive, PTL

-----------------------------------------------------------------------------
\* The middle leaves half of the rows, or fewer, on either side.
LEMMA MiddleHalves ==
    ASSUME NEW l \in Int, NEW h \in Int, l <= h,
           NEW m \in Int, m = (l + h) \div 2
    PROVE  /\ l <= m /\ m <= h
           /\ 2 * (h - m) <= h - l + 1 /\ 2 * (m - l) <= h - l + 1
OBVIOUS

\* A search that has not found its word goes on in fewer rows, and binarySearch()
\* in half of them or fewer: it ends, after as many rows as their number has binary
\* digits.
THEOREM SearchNarrows == Spec => Narrows
<1>1. ASSUME IInv, TryRow \/ Halve, idxOfX' = -1
      PROVE  /\ 0 <= RowsLeft' /\ RowsLeft' < RowsLeft
             /\ Halve => 2 * RowsLeft' <= RowsLeft
  <2> DEFINE l == low'
             h == high'
             m == mid
             left2 == RowsLeft'
             left1 == RowsLeft
  <2>1. low \in Nat /\ high \in Int /\ low <= high
    BY <1>1 DEF IInv, TypeOK, TryRow, Halve, isSearching
  <2>2. left1 = high - low + 1 /\ left2 = h - l + 1
    BY DEF RowsLeft
  <2>3. m \in Int /\ m = (low + high) \div 2
    BY <2>1 DEF mid
  <2>4. /\ low <= m /\ m <= high
        /\ 2 * (high - m) <= high - low + 1 /\ 2 * (m - low) <= high - low + 1
    <3> HIDE DEF m
    <3> QED
      BY <2>1, <2>3, MiddleHalves
  <2>5. CASE TryRow
    <3>1. l = low + 1 /\ h = high /\ program = "strSearch"
      BY <1>1, <2>1, <2>5 DEF TryRow
    <3>2. ~Halve
      BY <3>1 DEF Halve
    <3> HIDE DEF l, h, m, left1, left2
    <3>3. 0 <= left2 /\ left2 < left1
      BY <2>1, <2>2, <3>1
    <3> QED
      BY <3>2, <3>3 DEF left1, left2
  <2>6. CASE Halve
    <3>1. \/ l = m + 1 /\ h = high
          \/ l = low /\ h = m - 1
      BY <1>1, <2>1, <2>3, <2>4, <2>6 DEF Halve
    <3> HIDE DEF l, h, m, left1, left2
    <3>2. 0 <= left2 /\ left2 < left1 /\ 2 * left2 <= left1
      BY <2>1, <2>2, <2>3, <2>4, <3>1
    <3> QED
      BY <3>2 DEF left1, left2
  <2> QED
    BY <1>1, <2>5, <2>6
<1>2. IInv /\ [Next]_vars =>
        [ (TryRow \/ Halve) /\ idxOfX' = -1 =>
            /\ 0 <= RowsLeft' /\ RowsLeft' < RowsLeft
            /\ Halve => 2 * RowsLeft' <= RowsLeft ]_vars
  BY <1>1
<1> QED
  BY Inductive, <1>2, PTL DEF Spec, Narrows

-----------------------------------------------------------------------------
(* The sorts.                                                              *)

Phase ==
    /\ pc \in {"sort", "shift"} => program = "strSBS"
    /\ pc \in {"MSort", "merge"} => program = "strMS"

\* sort(): the rows below the hole, the rows above it, and the word for it.
Inserting ==
    /\ pc = "read" => i = 1
    /\ pc = "sort" => Ordered(0, IF i < dSize THEN i - 1 ELSE dSize - 1)
    /\ pc = "shift" =>
          /\ Ordered(0, j) /\ Ordered(j + 2, i)
          /\ \A k \in 0 .. j, l \in j + 2 .. i : a[k] <= a[l]
          /\ \A l \in j + 2 .. i : next < a[l]

\* M(): what was taken is in order, and not above what is left.
Taking ==
    pc = "merge" =>
        /\ \A x, y \in 1 .. Len(b) : x < y => b[x] <= b[y]
        /\ \A x \in 1 .. Len(b) : \A k \in left .. call.mid : b[x] <= a[k]
        /\ \A x \in 1 .. Len(b) : \A k \in right .. call.high : b[x] <= a[k]

\* The rows from .. to will be in order when the calls s[1] .. s[n - 1] have returned:
\* one of them is for these rows, or they are in order already, and the calls
\* in between leave them alone.
Apart(c, from, to) == c.high < from \/ to < c.low
Promised(s, n, from, to) ==
    \E p \in 0 .. n - 1 :
        /\ \A q \in p + 1 .. n - 1 : Apart(s[q], from, to)
        /\ p = 0 => Ordered(from, to)
        /\ p > 0 => s[p].low = from /\ s[p].high = to

\* MSort(): both halves of every merging are promised, and all rows to main().
Promises ==
    pc \in {"MSort", "merge"} =>
        /\ \A n \in 1 .. Len(stack) : stack[n].call = "M" =>
              /\ Promised(stack, n, stack[n].low, stack[n].mid)
              /\ Promised(stack, n, stack[n].mid + 1, stack[n].high)
        /\ Promised(stack, Len(stack) + 1, 0, dSize - 1)

Done == pc \in {"query", "search"} /\ program # "strSearch" => Ordered(0, dSize - 1)

SortInv == Phase /\ Inserting /\ Taking /\ Promises /\ Done

\* What the steps of the proof need of the types.
LEMMA Numbers ==
    ASSUME TypeOK
    PROVE  /\ \A k \in Rows : a[k] \in Int
           /\ dSize \in Nat /\ dSize <= MaxRows /\ MaxRows \in Nat
           /\ i \in Nat /\ j \in Int /\ next \in Int
<1>1. \A k \in Rows : a[k] \in Words
  BY DEF TypeOK
<1>2. \A k \in Rows : a[k] \in Int
  BY <1>1, WordSearchAssumption
<1> QED
  BY <1>2, WordSearchAssumption DEF TypeOK

\* A word moves up into the hole.
LEMMA ShiftInserts ==
    ASSUME TypeOK, LoopsOK, Inserting, Shift
    PROVE  Inserting'
<1>1. /\ j \in Int /\ i \in Nat /\ 0 <= j /\ j < i /\ i < dSize /\ dSize <= MaxRows
      /\ dSize \in Nat /\ MaxRows \in Nat /\ next \in Int /\ \A k \in Rows : a[k] \in Int
  BY Numbers DEF Shift, mustShift, LoopsOK
<1>2. a' = [a EXCEPT ![j + 1] = a[j]] /\ j' = j - 1 /\ UNCHANGED <<i, next, dSize>>
      /\ a[j] > next /\ pc = "shift" /\ pc' = "shift"
  BY DEF Shift, mustShift, reading
<1>3. \A k \in 0 .. i : k \in Rows /\ a'[k] = IF k = j + 1 THEN a[j] ELSE a[k]
  BY <1>1, <1>2 DEF TypeOK, Rows
<1>4. \A k \in 0 .. i : a[k] \in Int
  BY <1>1, <1>3
<1>5. /\ \A k, l \in 0 .. j : k < l => a[k] <= a[l]
      /\ \A k, l \in j + 2 .. i : k < l => a[k] <= a[l]
      /\ \A k \in 0 .. j, l \in j + 2 .. i : a[k] <= a[l]
      /\ \A l \in j + 2 .. i : next < a[l]
  BY <1>2 DEF Inserting, Ordered
<1>6. \A k, l \in 0 .. j - 1 : k < l => a'[k] <= a'[l]
  BY <1>1, <1>3, <1>5
<1>7. \A k, l \in j + 1 .. i : k < l => a'[k] <= a'[l]
  <2> SUFFICES ASSUME NEW k \in j + 1 .. i, NEW l \in j + 1 .. i, k < l PROVE a'[k] <= a'[l]
    OBVIOUS
  <2>1. l \in j + 2 .. i /\ k \in 0 .. i /\ l \in 0 .. i /\ a'[l] = a[l]
    BY <1>1, <1>3
  <2>2. CASE k = j + 1
    BY <1>1, <1>3, <1>5, <2>1, <2>2
  <2>3. CASE k # j + 1
    BY <1>1, <1>3, <1>5, <2>1, <2>3
  <2> QED
    BY <2>2, <2>3
<1>8. \A k \in 0 .. j - 1, l \in j + 1 .. i : a'[k] <= a'[l]
  <2> SUFFICES ASSUME NEW k \in 0 .. j - 1, NEW l \in j + 1 .. i PROVE a'[k] <= a'[l]
    OBVIOUS
  <2>1. k \in 0 .. i /\ l \in 0 .. i /\ a'[k] = a[k]
    BY <1>1, <1>3
  <2>2. CASE l = j + 1
    BY <1>1, <1>3, <1>5, <2>1, <2>2
  <2>3. CASE l # j + 1
    BY <1>1, <1>3, <1>5, <2>1, <2>3
  <2> QED
    BY <2>2, <2>3
<1>9. \A l \in j + 1 .. i : next < a'[l]
  <2> SUFFICES ASSUME NEW l \in j + 1 .. i PROVE next < a'[l]
    OBVIOUS
  <2>1. l \in 0 .. i
    BY <1>1
  <2>2. CASE l = j + 1
    BY <1>1, <1>2, <1>3, <2>1, <2>2
  <2>3. CASE l # j + 1
    BY <1>1, <1>3, <1>5, <2>1, <2>3
  <2> QED
    BY <2>2, <2>3
<1>10. j' + 2 = j + 1 /\ i' = i /\ next' = next
  BY <1>1, <1>2
<1> QED
  BY <1>2, <1>6, <1>7, <1>8, <1>9, <1>10 DEF Inserting, Ordered

\* The word that was taken out fills the hole.
LEMMA InsertOrders ==
    ASSUME TypeOK, LoopsOK, Inserting, Insert
    PROVE  Inserting'
<1>1. /\ j \in Int /\ i \in Nat /\ -1 <= j /\ j < i /\ i < dSize /\ dSize <= MaxRows
      /\ dSize \in Nat /\ MaxRows \in Nat /\ next \in Int /\ \A k \in Rows : a[k] \in Int
  BY Numbers DEF Insert, LoopsOK
<1>2. a' = [a EXCEPT ![j + 1] = next] /\ i' = i + 1 /\ dSize' = dSize
      /\ ~mustShift /\ pc = "shift" /\ pc' = "sort"
  BY DEF Insert, reading
<1>3. \A k \in 0 .. i : k \in Rows /\ a'[k] = IF k = j + 1 THEN next ELSE a[k]
  BY <1>1, <1>2 DEF TypeOK, Rows
<1>4. \A k \in 0 .. i : a[k] \in Int
  BY <1>1, <1>3
<1>5. /\ \A k, l \in 0 .. j : k < l => a[k] <= a[l]
      /\ \A k, l \in j + 2 .. i : k < l => a[k] <= a[l]
      /\ \A k \in 0 .. j, l \in j + 2 .. i : a[k] <= a[l]
      /\ \A l \in j + 2 .. i : next < a[l]
  BY <1>2 DEF Inserting, Ordered
<1>6. \A k \in 0 .. j : a[k] <= next
  <2> SUFFICES ASSUME NEW k \in 0 .. j PROVE a[k] <= next
    OBVIOUS
  <2>1. j >= 0 /\ j \in 0 .. i /\ k \in 0 .. i /\ j \in 0 .. j
    BY <1>1
  <2>2. a[j] <= next
    BY <1>1, <1>2, <1>4, <2>1 DEF mustShift
  <2>3. a[k] <= a[j]
    BY <1>1, <1>4, <1>5, <2>1
  <2> QED
    BY <1>1, <1>4, <2>1, <2>2, <2>3
<1>7. \A k, l \in 0 .. i : k < l => a'[k] <= a'[l]
  <2> SUFFICES ASSUME NEW k \in 0 .. i, NEW l \in 0 .. i, k < l PROVE a'[k] <= a'[l]
    OBVIOUS
  <2>1. CASE k = j + 1
    <3>1. l \in j + 2 .. i
      BY <1>1, <2>1
    <3> QED
      BY <1>1, <1>3, <1>4, <1>5, <2>1, <3>1
  <2>2. CASE l = j + 1
    <3>1. k \in 0 .. j
      BY <1>1, <2>2
    <3> QED
      BY <1>1, <1>3, <1>6, <2>2, <3>1
  <2>3. CASE k # j + 1 /\ l # j + 1
    <3>1. a'[k] = a[k] /\ a'[l] = a[l]
      BY <1>3, <2>3
    <3>2. CASE l <= j
      BY <1>1, <1>5, <3>1, <3>2
    <3>3. CASE k <= j /\ l > j
      <4>1. k \in 0 .. j /\ l \in j + 2 .. i
        BY <1>1, <2>3, <3>3
      <4> QED
        BY <1>5, <3>1, <4>1
    <3>4. CASE k > j
      <4>1. k \in j + 2 .. i /\ l \in j + 2 .. i
        BY <1>1, <2>3, <3>4
      <4> QED
        BY <1>5, <3>1, <4>1
    <3> QED
      BY <1>1, <3>2, <3>3, <3>4
  <2> QED
    BY <2>1, <2>2, <2>3
<1>8. (IF i' < dSize' THEN i' - 1 ELSE dSize' - 1) = i
  BY <1>1, <1>2
<1> QED
  BY <1>2, <1>7, <1>8 DEF Inserting, Ordered

-----------------------------------------------------------------------------
\* A call returns: what was promised after it still is, if its own rows are in
\* order, and the other rows as they were.
LEMMA ReturnKeeps ==
    ASSUME stack \in Seq(Calls), stack # <<>>, stack' = Tail(stack),
           NEW n \in 1 .. Len(stack), NEW from \in Int, NEW to \in Int,
           Promised(stack, n + 1, from, to),
           Apart(call, from, to) /\ Ordered(from, to) => Ordered(from, to)',
           \A k, l \in call.low .. call.high : k < l => a'[k] <= a'[l]
    PROVE  Promised(stack, n, from, to)'
<1> DEFINE s == stack
           t == stack'
<1>1. Len(s) \in Nat /\ Len(s) >= 1 /\ Len(t) = Len(s) - 1
      /\ \A q \in 1 .. Len(t) : t[q] = s[q + 1]
  BY HeadTailProperties, LenProperties, EmptySeq
<1>2. call = s[1]
  BY DEF call
<1>3. PICK p \in 0 .. n : /\ \A q \in p + 1 .. n : Apart(s[q], from, to)
                          /\ p = 0 => Ordered(from, to)
                          /\ p > 0 => s[p].low = from /\ s[p].high = to
  BY <1>1 DEF Promised
<1> DEFINE r == IF p = 0 THEN 0 ELSE p - 1
<1>4. r \in 0 .. n - 1
  BY <1>1, <1>3
<1>5. \A q \in r + 1 .. n - 1 : q \in 1 .. Len(t) /\ q + 1 \in p + 1 .. n
  BY <1>1, <1>3
<1>6. \A q \in r + 1 .. n - 1 : Apart(t[q], from, to)
  BY <1>1, <1>3, <1>5
<1>7. r = 0 => Ordered(from, to)'
  <2>1. CASE p = 0
    <3>1. 1 \in p + 1 .. n
      BY <1>1, <2>1
    <3>2. Apart(call, from, to)
      BY <1>2, <1>3, <3>1
    <3> QED
      BY <1>3, <2>1, <3>2
  <2>2. CASE p = 1
    BY <1>2, <1>3, <2>2 DEF Ordered
  <2> QED
    BY <1>1, <1>3, <2>1, <2>2
<1>8. r > 0 => t[r].low = from /\ t[r].high = to
  <2> SUFFICES ASSUME r > 0 PROVE t[r].low = from /\ t[r].high = to
    OBVIOUS
  <2>1. r = p - 1 /\ p > 0 /\ r \in 1 .. Len(t)
    BY <1>1, <1>3, <1>4
  <2>2. t[r] = s[p]
    BY <1>1, <1>3, <2>1
  <2> QED
    BY <1>3, <2>1, <2>2
<1> HIDE DEF r, t, s
<1> QED
  BY <1>4, <1>6, <1>7, <1>8 DEF Promised, t

\* Three calls in place of the first one.
LEMMA Replaced ==
    ASSUME NEW s \in Seq(Calls), s # <<>>, NEW x \in Calls, NEW y \in Calls, NEW z \in Calls,
           NEW t, t = <<x, y, z>> \o Tail(s)
    PROVE  /\ Len(s) \in Nat /\ Len(s) >= 1
           /\ t \in Seq(Calls) /\ Len(t) = Len(s) + 2
           /\ t[1] = x /\ t[2] = y /\ t[3] = z
           /\ \A q \in 4 .. Len(t) : t[q] = s[q - 2]
<1> DEFINE new == <<x, y, z>>
           u == Tail(s)
<1>1. Len(s) \in Nat /\ Len(s) >= 1 /\ u \in Seq(Calls) /\ Len(u) = Len(s) - 1
      /\ \A q \in 1 .. Len(u) : u[q] = s[q + 1]
  BY HeadTailProperties, LenProperties, EmptySeq
<1>2. new \in Seq(Calls) /\ Len(new) = 3 /\ new[1] = x /\ new[2] = y /\ new[3] = z
  OBVIOUS
<1> HIDE DEF new, u
<1>3. t \in Seq(Calls) /\ Len(t) = Len(new) + Len(u)
      /\ \A q \in 1 .. Len(new) + Len(u) :
            t[q] = IF q <= Len(new) THEN new[q] ELSE u[q - Len(new)]
  <2>1. t = new \o u
    BY DEF new, u
  <2>2. new \in Seq(Calls) /\ u \in Seq(Calls)
    BY <1>1, <1>2
  <2>3. /\ new \o u \in Seq(Calls) /\ Len(new \o u) = Len(new) + Len(u)
        /\ \A q \in 1 .. Len(new) + Len(u) :
              (new \o u)[q] = IF q <= Len(new) THEN new[q] ELSE u[q - Len(new)]
    BY <2>2, ConcatProperties
  <2> QED
    BY <2>1, <2>3
<1>4. Len(t) = Len(s) + 2
  BY <1>1, <1>2, <1>3
<1>5. t[1] = x /\ t[2] = y /\ t[3] = z
  BY <1>1, <1>2, <1>3
<1>6. ASSUME NEW q \in 4 .. Len(t) PROVE t[q] = s[q - 2]
  <2>1. q \in 1 .. 3 + Len(u) /\ ~(q <= 3) /\ q - 3 \in 1 .. Len(u)
    BY <1>1, <1>2, <1>3, <1>4
  <2>2. t[q] = u[q - 3]
    BY <1>2, <1>3, <2>1
  <2>3. u[q - 3] = s[(q - 3) + 1] /\ (q - 3) + 1 = q - 2
    BY <1>1, <2>1
  <2> QED
    BY <2>2, <2>3
<1> QED
  BY <1>1, <1>3, <1>4, <1>5, <1>6

LEMMA ApartInside ==
    ASSUME NEW c \in Calls, NEW d \in Calls, NEW from \in Int, NEW to \in Int,
           Apart(c, from, to), d.low >= c.low, d.high <= c.high
    PROVE  Apart(d, from, to)
<1>1. c.low \in Int /\ c.high \in Int /\ d.low \in Int /\ d.high \in Int
  BY DEF Calls
<1> QED
  BY <1>1 DEF Apart

\* A call divides: what was promised after it still is, by the merging of the halves.
LEMMA DivideKeeps ==
    ASSUME stack \in Seq(Calls), stack # <<>>,
           NEW x \in Calls, NEW y \in Calls, NEW z \in Calls,
           stack' = <<x, y, z>> \o Tail(stack), a' = a,
           x.low >= call.low, x.high <= call.high, y.low >= call.low, y.high <= call.high,
           z.low = call.low, z.high = call.high, call \in Calls,
           NEW n \in 2 .. Len(stack) + 1, NEW from \in Int, NEW to \in Int,
           Promised(stack, n, from, to)
    PROVE  Promised(stack, n + 2, from, to)'
<1> DEFINE s == stack
           t == stack'
<1>1. /\ Len(s) \in Nat /\ Len(s) >= 1 /\ Len(t) = Len(s) + 2
      /\ t[1] = x /\ t[2] = y /\ t[3] = z
      /\ \A q \in 4 .. Len(t) : t[q] = s[q - 2]
  BY Replaced
<1>2. call = s[1]
  BY DEF call
<1>3. PICK p \in 0 .. n - 1 : /\ \A q \in p + 1 .. n - 1 : Apart(s[q], from, to)
                              /\ p = 0 => Ordered(from, to)
                              /\ p > 0 => s[p].low = from /\ s[p].high = to
  BY DEF Promised
<1> DEFINE r == IF p = 0 THEN 0 ELSE p + 2
<1>4. r \in 0 .. n + 1 /\ n \in Int /\ p \in Int
  BY <1>1, <1>3
<1>5. ASSUME NEW q \in r + 1 .. n + 1 PROVE Apart(t[q], from, to)
  <2>1. CASE q >= 4
    <3>1. q \in 4 .. Len(t) /\ q - 2 \in p + 1 .. n - 1
      BY <1>1, <1>4, <2>1
    <3> QED
      BY <1>1, <1>3, <3>1
  <2>2. CASE q < 4
    <3>1. p = 0 /\ 1 \in p + 1 .. n - 1
      BY <1>4, <2>2
    <3>2. Apart(call, from, to)
      BY <1>2, <1>3, <3>1
    <3>3. q \in 1 .. 3
      BY <1>4, <2>2
    <3>4. t[q] \in {x, y, z}
      BY <1>1, <3>3
    <3>5. Apart(x, from, to)
      BY <3>2, ApartInside
    <3>6. Apart(y, from, to)
      BY <3>2, ApartInside
    <3>7. Apart(z, from, to)
      BY <3>2 DEF Apart
    <3> QED
      BY <3>4, <3>5, <3>6, <3>7
  <2> QED
    BY <1>4, <2>1, <2>2
<1>6. r = 0 => Ordered(from, to)'
  <2>1. r = 0 => Ordered(from, to)
    BY <1>3, <1>4
  <2> QED
    BY <2>1 DEF Ordered
<1>7. r > 0 => t[r].low = from /\ t[r].high = to
  <2> SUFFICES ASSUME r > 0 PROVE t[r].low = from /\ t[r].high = to
    OBVIOUS
  <2>1. r = p + 2 /\ p > 0
    BY <1>4
  <2>2. CASE p = 1
    BY <1>1, <1>2, <1>3, <2>1, <2>2
  <2>3. CASE p > 1
    <3>1. r \in 4 .. Len(t) /\ r - 2 = p
      BY <1>1, <1>4, <2>1, <2>3
    <3> QED
      BY <1>1, <1>3, <2>3, <3>1
  <2> QED
    BY <1>4, <2>1, <2>2, <2>3
<1>8. (n + 2) - 1 = n + 1
  BY <1>4
<1> HIDE DEF r, t, s
<1> QED
  BY <1>4, <1>5, <1>6, <1>7, <1>8 DEF Promised, t

-----------------------------------------------------------------------------
\* A merging on top of the stack has its halves in order.
LEMMA HalvesOrdered ==
    ASSUME StackOK, Promises, pc \in {"MSort", "merge"}, stack # <<>>, call.call = "M"
    PROVE  Ordered(call.low, call.mid) /\ Ordered(call.mid + 1, call.high)
<1>1. 1 \in 1 .. Len(stack) /\ call = stack[1]
  BY LenProperties, EmptySeq DEF StackOK, call
<1>2. Promised(stack, 1, call.low, call.mid) /\ Promised(stack, 1, call.mid + 1, call.high)
  BY <1>1 DEF Promises
<1>3. 0 .. 1 - 1 = {0}
  OBVIOUS
<1> QED
  BY <1>2, <1>3 DEF Promised

\* The numbers of a merging.
LEMMA MergeNumbers ==
    ASSUME IInv, pc = "merge"
    PROVE  /\ call \in Within /\ call.call = "M" /\ stack # <<>>
           /\ call.low \in Int /\ call.mid \in Int /\ call.high \in Int
           /\ 0 <= call.low /\ call.low <= call.mid /\ call.mid < call.high /\ call.high < dSize
           /\ call.low .. call.high \subseteq Rows
           /\ left \in Int /\ right \in Int /\ Len(b) \in Nat
           /\ call.low <= left /\ left <= call.mid + 1
           /\ call.mid + 1 <= right /\ right <= call.high + 1
           /\ Len(b) = (left - call.low) + (right - call.mid - 1)
           /\ \A k \in call.low .. call.high : a[k] \in Int
           /\ \A x \in 1 .. Len(b) : b[x] \in Int
<1> USE DEF IInv
<1>1. call \in Within /\ call.call = "M" /\ stack # <<>>
  BY TopCall DEF StackOK
<1>2. /\ call.low \in Int /\ call.mid \in Int /\ call.high \in Int
      /\ left \in Int /\ right \in Int /\ Len(b) \in Nat
  BY <1>1, MergeTyped
<1>3. 0 <= call.low /\ call.low <= call.mid /\ call.mid < call.high /\ call.high < dSize
  BY <1>1, <1>2 DEF Within
<1>4. /\ call.low <= left /\ left <= call.mid + 1
      /\ call.mid + 1 <= right /\ right <= call.high + 1
      /\ Len(b) = (left - call.low) + (right - call.mid - 1)
  BY <1>2 DEF LoopsOK
<1>5. dSize \in Nat /\ dSize <= MaxRows /\ MaxRows \in Nat /\ \A k \in Rows : a[k] \in Int
  BY Numbers
<1>6. call.low .. call.high \subseteq Rows
  BY <1>2, <1>3, <1>5 DEF Rows
<1>7. \A x \in 1 .. Len(b) : b[x] \in Int
  <2>1. \A x \in 1 .. Len(b) : b[x] \in Words
    BY DEF TypeOK
  <2> QED
    BY <2>1, WordSearchAssumption
<1>8. \A k \in call.low .. call.high : a[k] \in Int
  BY <1>5, <1>6
<1> QED
  BY <1>1, <1>2, <1>3, <1>4, <1>6, <1>7, <1>8

\* A value put behind others that are in order and not above it.
LEMMA BehindAll ==
    ASSUME NEW s, NEW r, NEW n \in Nat, NEW v \in Int,
           Len(s) = n, Len(r) = n + 1, r[n + 1] = v, \A x \in 1 .. n : r[x] = s[x]
    PROVE  /\ (\A x, y \in 1 .. n : x < y => s[x] <= s[y]) /\ (\A x \in 1 .. n : s[x] <= v) =>
                  \A x, y \in 1 .. n + 1 : x < y => r[x] <= r[y]
           /\ \A w : (\A x \in 1 .. n : s[x] <= w) /\ v <= w => \A x \in 1 .. n + 1 : r[x] <= w
<1>1. \A x \in 1 .. n + 1 : x = n + 1 \/ x \in 1 .. n
  OBVIOUS
<1>2. \A x, y \in 1 .. n + 1 : x < y => x \in 1 .. n
  OBVIOUS
<1>3. ASSUME \A x, y \in 1 .. n : x < y => s[x] <= s[y], \A x \in 1 .. n : s[x] <= v,
             NEW x \in 1 .. n + 1, NEW y \in 1 .. n + 1, x < y
      PROVE  r[x] <= r[y]
  <2>1. r[x] = s[x] /\ x \in 1 .. n
    BY <1>2, <1>3
  <2>2. CASE y = n + 1
    BY <1>3, <2>1, <2>2
  <2>3. CASE y \in 1 .. n
    BY <1>3, <2>1, <2>3
  <2> QED
    BY <1>1, <2>2, <2>3
<1>4. ASSUME NEW w, \A x \in 1 .. n : s[x] <= w, v <= w, NEW x \in 1 .. n + 1
      PROVE  r[x] <= w
  BY <1>1, <1>4
<1> QED
  BY <1>3, <1>4

\* M() takes the next word of the left half, or of the right one.
LEMMA TakeLeftTakes ==
    ASSUME IInv, Taking, Promises, TakeLeft
    PROVE  Taking'
<1>1. pc = "merge" /\ pc' = "merge" /\ left <= call.mid /\ left' = left + 1 /\ right' = right
      /\ (right <= call.high => a[left] < a[right])
      /\ b' = Append(b, a[left]) /\ a' = a /\ call' = call
  BY DEF TakeLeft, call
<1>0. /\ call.low \in Int /\ call.mid \in Int /\ call.high \in Int
      /\ left \in Int /\ right \in Int /\ Len(b) \in Nat
      /\ call.low <= left /\ call.low <= call.mid /\ call.mid < call.high
      /\ call.mid + 1 <= right
      /\ call.low .. call.high \subseteq Rows
      /\ \A k \in call.low .. call.high : a[k] \in Int
      /\ \A x \in 1 .. Len(b) : b[x] \in Int
  BY <1>1, MergeNumbers
<1>2. left \in call.low .. call.high /\ left \in call.low .. call.mid
  BY <1>0, <1>1
<1>3. a[left] \in Words /\ a[left] \in Int
  <2>1. left \in Rows
    BY <1>0, <1>1, <1>2
  <2> QED
    BY <1>0, <1>1, <1>2, <2>1 DEF IInv, TypeOK
<1>4. Len(b') = Len(b) + 1 /\ b'[Len(b) + 1] = a[left]
      /\ \A x \in 1 .. Len(b) : b'[x] = b[x]
  <2>1. b \in Seq(Words)
    BY DEF IInv, TypeOK
  <2> QED
    BY <1>0, <1>1, <1>3, <2>1, AppendProperties
<1>5. \A k \in left .. call.mid : a[left] <= a[k]
  <2>1. Ordered(call.low, call.mid)
    BY <1>0, <1>1, MergeNumbers, HalvesOrdered DEF IInv
  <2> SUFFICES ASSUME NEW k \in left .. call.mid PROVE a[left] <= a[k]
    BY <1>0, <1>1
  <2>2. k \in call.low .. call.mid
    BY <1>0, <1>1, <1>2
  <2> QED
    BY <1>0, <1>1, <1>2, <1>3, <2>1, <2>2 DEF Ordered
<1>6. \A k \in right .. call.high : a[left] <= a[k]
  <2>1. Ordered(call.mid + 1, call.high)
    BY <1>0, <1>1, MergeNumbers, HalvesOrdered DEF IInv
  <2> SUFFICES ASSUME NEW k \in right .. call.high PROVE a[left] <= a[k]
    BY <1>0, <1>1
  <2>2. right \in call.mid + 1 .. call.high /\ k \in call.mid + 1 .. call.high /\ k >= right
    BY <1>0, <1>1
  <2>3. a[right] <= a[k] /\ a[right] \in Int /\ a[k] \in Int
    <3>1. right \in call.low .. call.high /\ k \in call.low .. call.high
      BY <1>0, <1>1, <2>2
    <3>2. a[right] \in Int /\ a[k] \in Int
      BY <1>0, <1>1, <3>1
    <3>3. k = right \/ right < k
      BY <1>0, <1>1, <2>2
    <3>4. right < k => a[right] <= a[k]
      BY <1>0, <1>1, <2>1, <2>2 DEF Ordered
    <3> QED
      BY <1>0, <1>1, <3>2, <3>3, <3>4
  <2>4. a[left] < a[right]
    BY <1>0, <1>1, <2>2
  <2> QED
    BY <1>0, <1>1, <1>3, <2>3, <2>4
<1>7. /\ \A x, y \in 1 .. Len(b) : x < y => b[x] <= b[y]
      /\ \A x \in 1 .. Len(b) : \A k \in left .. call.mid : b[x] <= a[k]
      /\ \A x \in 1 .. Len(b) : \A k \in right .. call.high : b[x] <= a[k]
  BY <1>1 DEF Taking
<1>8. \A x \in 1 .. Len(b) : b[x] <= a[left]
  <2>1. left \in left .. call.mid
    BY <1>0, <1>1, <1>2
  <2> QED
    BY <1>0, <1>1, <1>7, <2>1
<1>9. /\ \A x, y \in 1 .. Len(b) + 1 : x < y => b'[x] <= b'[y]
      /\ \A w : (\A x \in 1 .. Len(b) : b[x] <= w) /\ a[left] <= w =>
             \A x \in 1 .. Len(b) + 1 : b'[x] <= w
  <2>1. Len(b) \in Nat /\ Len(b') = Len(b) + 1
    BY <1>0, <1>4
  <2> QED
    BY <1>0, <1>1, <1>3, <1>4, <1>7, <1>8, <2>1, BehindAll
<1>10. ASSUME NEW k \in left' .. call.mid PROVE \A x \in 1 .. Len(b) + 1 : b'[x] <= a[k]
  <2>1. k \in left .. call.mid
    BY <1>0, <1>1, <1>2
  <2>2. a[left] <= a[k] /\ \A x \in 1 .. Len(b) : b[x] <= a[k]
    BY <1>0, <1>1, <1>5, <1>7, <2>1
  <2> QED
    BY <1>0, <1>1, <1>9, <2>2
<1>11. ASSUME NEW k \in right .. call.high PROVE \A x \in 1 .. Len(b) + 1 : b'[x] <= a[k]
  BY <1>0, <1>1, <1>6, <1>7, <1>9
<1> QED
  BY <1>0, <1>1, <1>4, <1>9, <1>10, <1>11 DEF Taking

LEMMA Below ==
    \A x, y, z \in Int : ~(x < y) /\ x <= z => y <= z
OBVIOUS

LEMMA TakeRightTakes ==
    ASSUME IInv, Taking, Promises, TakeRight
    PROVE  Taking'
<1>1. pc = "merge" /\ pc' = "merge" /\ right <= call.high /\ right' = right + 1 /\ left' = left
      /\ (left <= call.mid => ~(a[left] < a[right]))
      /\ b' = Append(b, a[right]) /\ a' = a /\ call' = call
  BY DEF TakeRight, call
<1>0. /\ call.low \in Int /\ call.mid \in Int /\ call.high \in Int
      /\ left \in Int /\ right \in Int /\ Len(b) \in Nat
      /\ call.low <= left /\ call.low <= call.mid /\ call.mid < call.high
      /\ call.mid + 1 <= right
      /\ call.low .. call.high \subseteq Rows
      /\ \A k \in call.low .. call.high : a[k] \in Int
      /\ \A x \in 1 .. Len(b) : b[x] \in Int
  BY <1>1, MergeNumbers
<1>2. right \in call.low .. call.high /\ right \in call.mid + 1 .. call.high
  BY <1>0, <1>1
<1>3. a[right] \in Words /\ a[right] \in Int
  <2>1. right \in Rows
    BY <1>0, <1>1, <1>2
  <2> QED
    BY <1>0, <1>1, <1>2, <2>1 DEF IInv, TypeOK
<1>4. Len(b') = Len(b) + 1 /\ b'[Len(b) + 1] = a[right]
      /\ \A x \in 1 .. Len(b) : b'[x] = b[x]
  <2>1. b \in Seq(Words)
    BY DEF IInv, TypeOK
  <2> QED
    BY <1>0, <1>1, <1>3, <2>1, AppendProperties
<1>5. \A k \in right .. call.high : a[right] <= a[k]
  <2>1. Ordered(call.mid + 1, call.high)
    BY <1>0, <1>1, MergeNumbers, HalvesOrdered DEF IInv
  <2> SUFFICES ASSUME NEW k \in right .. call.high PROVE a[right] <= a[k]
    BY <1>0, <1>1
  <2>2. k \in call.mid + 1 .. call.high
    BY <1>0, <1>1, <1>2
  <2> QED
    BY <1>0, <1>1, <1>2, <1>3, <2>1, <2>2 DEF Ordered
<1>6. \A k \in left .. call.mid : a[right] <= a[k]
  <2>1. Ordered(call.low, call.mid)
    BY <1>0, <1>1, MergeNumbers, HalvesOrdered DEF IInv
  <2> SUFFICES ASSUME NEW k \in left .. call.mid PROVE a[right] <= a[k]
    BY <1>0, <1>1
  <2>2. left \in call.low .. call.mid /\ k \in call.low .. call.mid /\ k >= left
    BY <1>0, <1>1
  <2>3. a[left] <= a[k] /\ a[left] \in Int /\ a[k] \in Int
    <3>1. left \in call.low .. call.high
      BY <1>0, <1>1, <2>2
    <3>2. k \in call.low .. call.high
      BY <1>0, <1>1, <2>2
    <3>3. k = left \/ left < k
      BY <1>0, <1>1, <2>2
    <3> QED
      BY <1>0, <1>1, <2>1, <2>2, <3>1, <3>2, <3>3 DEF Ordered
  <2>4. ~(a[left] < a[right])
    <3>1. left <= call.mid
      BY <1>0, <1>1, <2>2
    <3> QED
      BY <1>0, <1>1, <3>1
  <2> QED
    BY <1>0, <1>1, <1>3, <2>3, <2>4, Below
<1>7. /\ \A x, y \in 1 .. Len(b) : x < y => b[x] <= b[y]
      /\ \A x \in 1 .. Len(b) : \A k \in left .. call.mid : b[x] <= a[k]
      /\ \A x \in 1 .. Len(b) : \A k \in right .. call.high : b[x] <= a[k]
  BY <1>1 DEF Taking
<1>8. \A x \in 1 .. Len(b) : b[x] <= a[right]
  <2>1. right \in right .. call.high
    BY <1>0, <1>1, <1>2
  <2> QED
    BY <1>0, <1>1, <1>7, <2>1
<1>9. /\ \A x, y \in 1 .. Len(b) + 1 : x < y => b'[x] <= b'[y]
      /\ \A w : (\A x \in 1 .. Len(b) : b[x] <= w) /\ a[right] <= w =>
             \A x \in 1 .. Len(b) + 1 : b'[x] <= w
  <2>1. Len(b) \in Nat /\ Len(b') = Len(b) + 1
    BY <1>0, <1>4
  <2> QED
    BY <1>0, <1>1, <1>3, <1>4, <1>7, <1>8, <2>1, BehindAll
<1>10. ASSUME NEW k \in right' .. call.high PROVE \A x \in 1 .. Len(b) + 1 : b'[x] <= a[k]
  <2>1. k \in right .. call.high
    BY <1>0, <1>1, <1>2
  <2>2. a[right] <= a[k] /\ \A x \in 1 .. Len(b) : b[x] <= a[k]
    BY <1>0, <1>1, <1>5, <1>7, <2>1
  <2> QED
    BY <1>0, <1>1, <1>9, <2>2
<1>11. ASSUME NEW k \in left .. call.mid PROVE \A x \in 1 .. Len(b) + 1 : b'[x] <= a[k]
  BY <1>0, <1>1, <1>6, <1>7, <1>9
<1> QED
  BY <1>0, <1>1, <1>4, <1>9, <1>10, <1>11 DEF Taking

\* M() copies back what it has taken, all of it, and it is in order.
LEMMA CopyOrders ==
    ASSUME IInv, Taking, CopyBack
    PROVE  /\ \A k, l \in call.low .. call.high : k < l => a'[k] <= a'[l]
           /\ \A k \in Rows : k \notin call.low .. call.high => a'[k] = a[k]
<1>1. pc = "merge" /\ left > call.mid /\ right > call.high
      /\ a' = [k \in Rows |-> IF k \in call.low .. call.high THEN b[k - call.low + 1] ELSE a[k]]
  BY DEF CopyBack
<1>0. /\ call.low \in Int /\ call.mid \in Int /\ call.high \in Int
      /\ left \in Int /\ right \in Int /\ Len(b) \in Nat
  BY <1>1, MergeNumbers
<1>2. /\ left <= call.mid + 1 /\ right <= call.high + 1
      /\ Len(b) = (left - call.low) + (right - call.mid - 1)
      /\ call.low .. call.high \subseteq Rows
  BY <1>1, MergeNumbers
<1>3. left = call.mid + 1
  BY <1>0, <1>1, <1>2
<1>4. right = call.high + 1
  BY <1>0, <1>1, <1>2
<1>5. \A k \in call.low .. call.high : k - call.low + 1 \in 1 .. Len(b)
  <2>1. Len(b) = ((call.mid + 1) - call.low) + ((call.high + 1) - call.mid - 1)
    BY <1>2, <1>3, <1>4
  <2>2. Len(b) = call.high + 1 - call.low
    <3> DEFINE l == call.low
               m == call.mid
               h == call.high
               n == Len(b)
    <3>1. l \in Int /\ m \in Int /\ h \in Int /\ n \in Nat
      BY <1>0
    <3>2. n = ((m + 1) - l) + ((h + 1) - m - 1)
      BY <2>1
    <3> HIDE DEF l, m, h, n
    <3>3. n = h + 1 - l
      BY <3>1, <3>2
    <3> QED
      BY <3>3 DEF l, m, h, n
  <2> SUFFICES ASSUME NEW k \in call.low .. call.high
               PROVE  k - call.low + 1 \in 1 .. Len(b)
    OBVIOUS
  <2>3. k \in Int /\ call.low <= k /\ k <= call.high
    BY <1>0
  <2>4. k < Len(b) + call.low
    BY <1>0, <2>2, <2>3
  <2> DEFINE n == Len(b)
             from == call.low
  <2>5. n \in Int /\ from \in Int /\ from <= k /\ k < n + from
    BY <1>0, <2>3, <2>4
  <2> HIDE DEF n, from
  <2>6. k - from + 1 \in 1 .. n
    BY <2>3, <2>5
  <2> QED
    BY <2>6 DEF n, from
<1>6. ASSUME NEW k \in call.low .. call.high, NEW l \in call.low .. call.high, k < l
      PROVE  a'[k] <= a'[l]
  <2> DEFINE x == k - call.low + 1
             y == l - call.low + 1
  <2>1. a'[k] = b[x] /\ a'[l] = b[y]
    BY <1>1, <1>2
  <2>2. x \in 1 .. Len(b) /\ y \in 1 .. Len(b)
    BY <1>5
  <2>3. x < y
    BY <1>0, <1>6
  <2> HIDE DEF x, y
  <2> QED
    BY <1>1, <2>1, <2>2, <2>3 DEF Taking
<1> QED
  BY <1>1, <1>6

\* The promises of the calls that are left, when the first one returns.
LEMMA PromisesAfterReturn ==
    ASSUME IInv, IInv', Promises, pc \in {"MSort", "merge"}, pc' = "MSort", dSize' = dSize,
           stack # <<>>, stack' = Tail(stack),
           \A k \in Rows : k \notin call.low .. call.high => a'[k] = a[k],
           \A k, l \in call.low .. call.high : k < l => a'[k] <= a'[l]
    PROVE  Promises'
<1>1. stack \in Seq(Within) /\ stack \in Seq(Calls) /\ call \in Within
  BY TopCall, WithinCalls DEF IInv, StackOK
<1>2. Len(stack) \in Nat /\ Len(stack) >= 1 /\ Len(stack') = Len(stack) - 1
      /\ \A q \in 1 .. Len(stack') : stack'[q] = stack[q + 1]
  BY <1>1, HeadTailProperties, LenProperties, EmptySeq
<1>3. call.low \in Int /\ call.high \in Int /\ dSize \in Nat /\ dSize <= MaxRows /\ MaxRows \in Nat
  BY <1>1, Numbers DEF Within, Calls, IInv
<1>4. ASSUME NEW n \in 1 .. Len(stack), NEW from \in Nat, NEW to \in Int, to < dSize,
             Promised(stack, n + 1, from, to)
      PROVE  Promised(stack, n, from, to)'
  <2>1. ASSUME Apart(call, from, to), Ordered(from, to) PROVE Ordered(from, to)'
    <3>1. \A k \in from .. to : k \in Rows /\ k \notin call.low .. call.high
      BY <1>3, <1>4, <2>1 DEF Apart, Rows
    <3>2. \A k \in from .. to : a'[k] = a[k]
      BY <3>1
    <3> QED
      BY <2>1, <3>2 DEF Ordered
  <2> QED
    BY <1>1, <1>4, <2>1, ReturnKeeps
<1>5. ASSUME NEW n \in 1 .. Len(stack'), stack'[n].call = "M"
      PROVE  /\ Promised(stack, n, stack[n].low, stack[n].mid)'
             /\ Promised(stack, n, stack[n].mid + 1, stack[n].high)'
  <2> DEFINE c == stack[n + 1]
  <2>1. n \in 1 .. Len(stack) /\ n + 1 \in 1 .. Len(stack) /\ stack'[n] = c
    BY <1>2
  <2>2. c \in Within
    BY <1>1, <2>1
  <2>3. c.call = "M"
    BY <1>5, <2>1
  <2>4. /\ c.low \in Int /\ c.mid \in Int /\ c.high \in Int
        /\ c.low >= 0 /\ c.low <= c.mid /\ c.mid < c.high /\ c.high < dSize
    BY <2>2, <2>3 DEF Within, Calls
  <2>5. Promised(stack, n + 1, c.low, c.mid) /\ Promised(stack, n + 1, c.mid + 1, c.high)
    BY <2>1, <2>3 DEF Promises
  <2>6. PICK from \in Int, half \in Int, to \in Int :
           from = c.low /\ half = c.mid /\ to = c.high
    BY <2>4
  <2>7. from \in Nat /\ half < dSize /\ half + 1 \in Nat /\ to < dSize
    <3>1. from >= 0 /\ from <= half /\ half < to /\ to < dSize
      BY <2>4, <2>6
    <3> QED
      BY <1>3, <2>6, <3>1
  <2>8. Promised(stack, n + 1, from, half) /\ Promised(stack, n + 1, half + 1, to)
    BY <2>5, <2>6
  <2> HIDE DEF c
  <2>9. Promised(stack, n, from, half)' /\ Promised(stack, n, half + 1, to)'
    BY <1>4, <2>1, <2>7, <2>8
  <2>10. stack'[n].low = from /\ stack'[n].mid = half /\ stack'[n].high = to
    BY <2>1, <2>6
  <2> QED
    BY <2>9, <2>10
<1>6. Promised(stack, Len(stack) + 1, 0, dSize - 1)'
  <2>1. Promised(stack, Len(stack) + 1, 0, dSize - 1)
    BY DEF Promises
  <2>0. Len(stack) \in 1 .. Len(stack) /\ dSize - 1 \in Int
    BY <1>2, <1>3
  <2>2. PICK n \in 1 .. Len(stack), to \in Int : n = Len(stack) /\ to = dSize - 1
    BY <2>0
  <2>3. to < dSize /\ 0 \in Nat
    BY <1>3, <2>2
  <2>4. Promised(stack, n, 0, to)'
    BY <1>4, <2>1, <2>2, <2>3
  <2>5. n = Len(stack') + 1 /\ to = dSize' - 1
    BY <1>2, <2>2
  <2> QED
    BY <2>4, <2>5
<1> QED
  BY <1>5, <1>6 DEF Promises

\* The promises of the calls that are left, when MSort() divides.
LEMMA PromisesAfterDivide ==
    ASSUME IInv, IInv', Promises, Divide, call.low < call.high
    PROVE  Promises'
<1> DEFINE m == (call.low + call.high) \div 2
           x == MSorting(call.low, m)
           y == MSorting(m + 1, call.high)
           z == Merging(call.low, m, call.high)
<1>1. stack \in Seq(Within) /\ stack \in Seq(Calls) /\ call \in Within /\ stack # <<>>
  BY TopCall, WithinCalls DEF IInv, StackOK, Divide
<1>2. /\ call \in Calls /\ call.low \in Int /\ call.high \in Int
      /\ dSize \in Nat /\ dSize <= MaxRows /\ MaxRows \in Nat
      /\ call.low >= 0 /\ call.high < dSize
  BY <1>1, Numbers DEF Within, Calls, IInv
<1>3. m \in Int /\ call.low <= m /\ m < call.high
  BY <1>2, Middle
<1>4. pc = "MSort" /\ pc' = "MSort" /\ a' = a /\ dSize' = dSize
      /\ stack' = <<x, y, z>> \o Tail(stack)
  BY DEF Divide, reading
<1> HIDE DEF m
<1>5. /\ x \in Calls /\ x.low = call.low /\ x.high = m /\ x.call = "MSort"
      /\ y \in Calls /\ y.low = m + 1 /\ y.high = call.high /\ y.call = "MSort"
      /\ z \in Calls /\ z.low = call.low /\ z.mid = m /\ z.high = call.high
  BY <1>2, <1>3 DEF MSorting, Merging, Calls
<1> HIDE DEF x, y, z
<1>6. /\ Len(stack) \in Nat /\ Len(stack) >= 1 /\ Len(stack') = Len(stack) + 2
      /\ stack'[1] = x /\ stack'[2] = y /\ stack'[3] = z
      /\ \A q \in 4 .. Len(stack') : stack'[q] = stack[q - 2]
  BY <1>1, <1>4, <1>5, Replaced
<1>7. /\ x.low >= call.low /\ x.high <= call.high
      /\ y.low >= call.low /\ y.high <= call.high
  BY <1>2, <1>3, <1>5
<1>8. ASSUME NEW n \in 2 .. Len(stack) + 1, NEW from \in Int, NEW to \in Int,
             Promised(stack, n, from, to)
      PROVE  Promised(stack, n + 2, from, to)'
  BY <1>1, <1>2, <1>4, <1>5, <1>7, <1>8, DivideKeeps
<1>9. PICK first \in Int, half \in Int, last \in Int :
         first = call.low /\ half = m /\ last = call.high
  BY <1>2, <1>3
<1>10. Promised(stack, 3, first, half)'
  <2>1. \A q \in 2 .. 2 : Apart(stack'[q], first, half)
    BY <1>3, <1>5, <1>6, <1>9 DEF Apart
  <2>2. stack'[1].low = first /\ stack'[1].high = half
    BY <1>5, <1>6, <1>9
  <2>3. 1 \in 0 .. 3 - 1 /\ 1 > 0 /\ 1 # 0 /\ (1 + 1) .. (3 - 1) = 2 .. 2
    OBVIOUS
  <2> QED
    BY <2>1, <2>2, <2>3 DEF Promised
<1>11. Promised(stack, 3, half + 1, last)'
  <2>1. stack'[2].low = half + 1 /\ stack'[2].high = last
    BY <1>5, <1>6, <1>9
  <2>2. 2 \in 0 .. 3 - 1 /\ 2 > 0 /\ 2 # 0 /\ (2 + 1) .. (3 - 1) = {}
    OBVIOUS
  <2> QED
    BY <2>1, <2>2 DEF Promised
<1>12. ASSUME NEW n \in 1 .. Len(stack'), stack'[n].call = "M"
       PROVE  /\ Promised(stack, n, stack[n].low, stack[n].mid)'
              /\ Promised(stack, n, stack[n].mid + 1, stack[n].high)'
  <2>1. n = 1 \/ n = 2 \/ n = 3 \/ n \in 4 .. Len(stack')
    BY <1>6
  <2>2. n # 1 /\ n # 2
    BY <1>5, <1>6, <1>12
  <2>3. CASE n = 3
    <3>1. stack'[n].low = first /\ stack'[n].mid = half /\ stack'[n].high = last
      BY <1>5, <1>6, <1>9, <2>3
    <3> QED
      BY <1>10, <1>11, <2>3, <3>1
  <2>4. CASE n \in 4 .. Len(stack')
    <3> DEFINE c == stack[n - 2]
    <3>1. n - 2 \in 1 .. Len(stack) /\ n - 2 \in 2 .. Len(stack) + 1 /\ stack'[n] = c
          /\ (n - 2) + 2 = n
      BY <1>6, <2>4
    <3>2. c \in Within
      BY <1>1, <3>1
    <3>3. c.call = "M"
      BY <1>12, <3>1
    <3>4. c.low \in Int /\ c.mid \in Int /\ c.high \in Int
      BY <3>2, <3>3 DEF Within, Calls
    <3>5. Promised(stack, n - 2, c.low, c.mid) /\ Promised(stack, n - 2, c.mid + 1, c.high)
      BY <1>4, <3>1, <3>3 DEF Promises
    <3>6. PICK from \in Int, middle \in Int, to \in Int :
             from = c.low /\ middle = c.mid /\ to = c.high
      BY <3>4
    <3>7. Promised(stack, n - 2, from, middle) /\ Promised(stack, n - 2, middle + 1, to)
      BY <3>5, <3>6
    <3> HIDE DEF c
    <3>8. middle + 1 \in Int
      BY <3>6
    <3>9. Promised(stack, n, from, middle)' /\ Promised(stack, n, middle + 1, to)'
      BY <1>8, <3>1, <3>6, <3>7, <3>8
    <3>10. stack'[n].low = from /\ stack'[n].mid = middle /\ stack'[n].high = to
      BY <3>1, <3>6
    <3> QED
      BY <3>9, <3>10
  <2> QED
    BY <2>1, <2>2, <2>3, <2>4
<1>13. Promised(stack, Len(stack) + 1, 0, dSize - 1)'
  <2>1. Promised(stack, Len(stack) + 1, 0, dSize - 1)
    BY <1>4 DEF Promises
  <2>0. Len(stack) + 1 \in 2 .. Len(stack) + 1 /\ dSize - 1 \in Int
    BY <1>2, <1>6
  <2>2. PICK n \in 2 .. Len(stack) + 1, to \in Int : n = Len(stack) + 1 /\ to = dSize - 1
    BY <2>0
  <2>5. Promised(stack, n, 0, to)
    BY <2>1, <2>2
  <2>6. 0 \in Int
    OBVIOUS
  <2>3. Promised(stack, n + 2, 0, to)'
    BY <1>8, <2>2, <2>5, <2>6
  <2>4. n + 2 = Len(stack') + 1 /\ to = dSize' - 1
    BY <1>4, <1>6, <2>2
  <2> QED
    BY <2>3, <2>4
<1> QED
  BY <1>12, <1>13 DEF Promises

-----------------------------------------------------------------------------
LEMMA PromisesKept ==
    ASSUME Promises, pc \in {"MSort", "merge"}, a' = a, dSize' = dSize, stack' = stack
    PROVE  Promises'
BY DEF Promises, Promised, Ordered

LEMMA AtMostOne ==
    ASSUME NEW last \in Int, last <= 0
    PROVE  \A k, l \in 0 .. last : ~(k < l)
OBVIOUS

LEMMA FirstOrdered ==
    ASSUME i' = 1, dSize' \in Nat
    PROVE  Ordered(0, IF i < dSize THEN i - 1 ELSE dSize - 1)'
<1>0. (IF i < dSize THEN i - 1 ELSE dSize - 1)' \in Int
      /\ (IF i < dSize THEN i - 1 ELSE dSize - 1)' <= 0
  <2>1. CASE i' < dSize'
    BY <2>1
  <2>2. CASE ~(i' < dSize')
    <3>1. dSize' <= 1
      BY <2>2
    <3>2. \A n \in Nat : n <= 1 => n - 1 \in Int /\ n - 1 <= 0
      OBVIOUS
    <3>3. dSize' - 1 \in Int /\ dSize' - 1 <= 0
      BY <3>1, <3>2
    <3> QED
      BY <2>2, <3>3
  <2> QED
    BY <2>1, <2>2
<1>1. PICK last \in Int : last = (IF i < dSize THEN i - 1 ELSE dSize - 1)' /\ last <= 0
  BY <1>0
<1>2. \A k, l \in 0 .. last : ~(k < l)
  BY <1>1, AtMostOne
<1> QED
  BY <1>1, <1>2 DEF Ordered

LEMMA InitSortInv == Init => SortInv
BY DEF Init, SortInv, Phase, Inserting, Taking, Promises, Done

LEMMA StepSortInv == IInv /\ IInv' /\ SortInv /\ [Next]_vars => SortInv'
<1> SUFFICES ASSUME IInv, IInv', SortInv, [Next]_vars PROVE SortInv'
  OBVIOUS
<1> USE DEF SortInv
<1>0. dSize \in Nat /\ i \in Nat
  BY Numbers DEF IInv
<1>1. CASE ReadWord
  <2>1. pc = "read" /\ pc' = pc /\ program' = program /\ i' = i
    BY <1>1 DEF ReadWord, inserting
  <2> QED
    BY <2>1 DEF Phase, Inserting, Taking, Promises, Done
<1>2. CASE DictionaryRead
  <2>1. pc' = [strSearch |-> "query", strSBS |-> "sort", strMS |-> "MSort"][program]
        /\ program' = program /\ program \in Programs /\ dSize' \in Nat /\ i' = i /\ i \in Nat
    BY <1>2, <1>0, WordSearchAssumption DEF DictionaryRead, IInv, TypeOK, inserting
  <2>2. Phase' /\ Done' /\ Taking'
    BY <2>1 DEF Programs, Phase, Done, Taking
  <2>3. Inserting'
    <3>1. ASSUME pc' = "sort" PROVE Ordered(0, IF i < dSize THEN i - 1 ELSE dSize - 1)'
      <4>1. i = 1
        BY <1>2 DEF DictionaryRead, Inserting
      <4> QED
        BY <2>1, <4>1, FirstOrdered
    <3> QED
      BY <2>1, <3>1 DEF Programs, Inserting
  <2>4. Promises'
    <3>1. stack' = <<MSorting(0, dSize' - 1)>>
      BY <1>2 DEF DictionaryRead
    <3>2. Len(stack') = 1 /\ stack'[1].call = "MSort"
          /\ stack'[1].low = 0 /\ stack'[1].high = dSize' - 1
      BY <3>1 DEF MSorting
    <3>3. Promised(stack, 2, 0, dSize - 1)'
      <4>1. 1 \in 0 .. 2 - 1 /\ 1 > 0 /\ 1 # 0 /\ (1 + 1) .. (2 - 1) = {}
        OBVIOUS
      <4> QED
        BY <3>2, <4>1 DEF Promised
    <3> QED
      BY <3>2, <3>3 DEF Promises
  <2> QED
    BY <2>2, <2>3, <2>4
<1>3. CASE TakeNext
  <2>1. Inserting'
    <3>1. pc = "sort" /\ pc' = "shift" /\ i < dSize /\ j' = i - 1 /\ i' = i /\ a' = a
      BY <1>3 DEF TakeNext
    <3>2. Ordered(0, i - 1)
      BY <3>1 DEF Inserting
    <3>3. Ordered(0, j)'
      BY <3>1, <3>2 DEF Ordered
    <3>4. j' + 2 = i + 1
      BY <1>0, <3>1
    <3>5. (j' + 2) .. i' = {}
      BY <1>0, <3>1, <3>4
    <3> QED
      BY <3>1, <3>3, <3>5 DEF Inserting, Ordered
  <2> QED
    BY <1>3, <2>1 DEF TakeNext, Phase, Taking, Promises, Done
<1>4. CASE Shift
  <2>1. Inserting'
    BY <1>4, ShiftInserts DEF IInv
  <2> QED
    BY <1>4, <2>1 DEF Shift, Phase, Taking, Promises, Done
<1>5. CASE Insert
  <2>1. Inserting'
    BY <1>5, InsertOrders DEF IInv
  <2> QED
    BY <1>5, <2>1 DEF Insert, Phase, Taking, Promises, Done
<1>6. CASE Divide
  <2>1. Promises'
    <3>1. CASE call.low < call.high
      BY <1>6, <3>1, PromisesAfterDivide
    <3>2. CASE ~(call.low < call.high)
      <4>1. call \in Within /\ stack # <<>> /\ Tail(stack) \in Seq(Within)
        BY <1>6, TopCall DEF Divide, IInv
      <4>2. stack' = Tail(stack)
        BY <1>6, <3>2, <4>1, ConcatEmptySeq DEF Divide
      <4>3. \A k, l \in call.low .. call.high : ~(k < l)
        BY <3>2, <4>1 DEF Within, Calls
      <4>4. pc = "MSort" /\ pc' = "MSort" /\ a' = a /\ dSize' = dSize
        BY <1>6 DEF Divide, reading
      <4> QED
        BY <4>1, <4>2, <4>3, <4>4, PromisesAfterReturn
    <3> QED
      BY <3>1, <3>2
  <2> QED
    BY <1>6, <2>1 DEF Divide, Phase, Inserting, Taking, Done
<1>7. CASE BeginMerge
  <2>1. Taking'
    BY <1>7 DEF BeginMerge, Taking
  <2>2. Promises'
    BY <1>7, PromisesKept DEF BeginMerge, reading
  <2> QED
    BY <1>7, <2>1, <2>2 DEF BeginMerge, Phase, Inserting, Done
<1>8. CASE TakeLeft
  <2>1. Taking'
    BY <1>8, TakeLeftTakes
  <2>2. Promises'
    BY <1>8, PromisesKept DEF TakeLeft, reading
  <2> QED
    BY <1>8, <2>1, <2>2 DEF TakeLeft, Phase, Inserting, Done
<1>9. CASE TakeRight
  <2>1. Taking'
    BY <1>9, TakeRightTakes
  <2>2. Promises'
    BY <1>9, PromisesKept DEF TakeRight, reading
  <2> QED
    BY <1>9, <2>1, <2>2 DEF TakeRight, Phase, Inserting, Done
<1>10. CASE CopyBack
  <2>1. pc = "merge" /\ pc' = "MSort" /\ stack' = Tail(stack) /\ dSize' = dSize /\ stack # <<>>
    BY <1>10 DEF CopyBack, reading, IInv, StackOK
  <2>2. Promises'
    BY <1>10, <2>1, CopyOrders, PromisesAfterReturn
  <2> QED
    BY <1>10, <2>2 DEF CopyBack, Phase, Inserting, Taking, Done
<1>11. CASE Sorted
  <2>1. a' = a /\ dSize' = dSize /\ pc' = "query" /\ program' = program
    BY <1>11 DEF Sorted, reading
  <2>2. Ordered(0, dSize - 1)
    <3>1. CASE pc = "sort" /\ i >= dSize
      <4>1. ~(i < dSize)
        BY <1>0, <3>1
      <4> QED
        BY <3>1, <4>1 DEF Inserting
    <3>2. CASE pc = "MSort" /\ stack = <<>>
      <4>1. Promised(stack, 1, 0, dSize - 1)
        BY <3>2 DEF Promises
      <4>2. 0 .. 1 - 1 = {0}
        OBVIOUS
      <4> QED
        BY <4>1, <4>2 DEF Promised
    <3> QED
      BY <1>11, <3>1, <3>2 DEF Sorted
  <2> QED
    BY <2>1, <2>2 DEF Phase, Inserting, Taking, Promises, Done, Ordered
<1>12. CASE Ask
  BY <1>12 DEF Ask, Phase, Inserting, Taking, Promises, Done, Ordered, reading
<1>13. CASE TryRow
  BY <1>13 DEF TryRow, Phase, Inserting, Taking, Promises, Done, Ordered, reading
<1>14. CASE Halve
  BY <1>14 DEF Halve, Phase, Inserting, Taking, Promises, Done, Ordered, reading
<1>15. CASE Answer
  BY <1>15 DEF Answer, Phase, Inserting, Taking, Promises, Done, Ordered, reading
<1>16. CASE UNCHANGED vars
  <2>1. UNCHANGED <<program, pc, a, dSize, i, j, next, stack, left, right, b, call>>
    BY <1>16 DEF vars, reading, inserting, merging, call
  <2> QED
    BY <2>1 DEF Phase, Inserting, Taking, Promises, Promised, Done, Ordered
<1> QED
  BY <1>1, <1>2, <1>3, <1>4, <1>5, <1>6, <1>7, <1>8, <1>9, <1>10, <1>11, <1>12, <1>13,
     <1>14, <1>15, <1>16 DEF Next, Reads, Sorts, Searches

LEMMA SortInvHolds == Spec => []SortInv
BY InitSortInv, StepSortInv, Inductive, PTL DEF Spec

\* Both sorts put the rows in order, for every dictionary, and M() merges halves that are.
THEOREM SortsOrder == Spec => []OrderedForSearch
<1>1. ASSUME IInv, SortInv PROVE OrderedForSearch
  <2>1. pc = "merge" => Ordered(call.low, call.mid) /\ Ordered(call.mid + 1, call.high)
    BY <1>1, HalvesOrdered DEF IInv, SortInv, StackOK
  <2> QED
    BY <1>1, <2>1 DEF SortInv, Inserting, Done, OrderedForSearch
<1> QED
  BY <1>1, SortInvHolds, Inductive, PTL


-----------------------------------------------------------------------------
(* Counting the words of some places of a row of words.                    *)

Places(f, S, word) == {k \in S : f[k] = word}
Count(f, S, word) == Cardinality(Places(f, S, word))
Mark(v, word) == IF v = word THEN 1 ELSE 0

LEMMA CountIsNumber ==
    ASSUME NEW f, NEW S, IsFiniteSet(S), NEW word
    PROVE  IsFiniteSet(Places(f, S, word)) /\ Count(f, S, word) \in Nat
<1>1. Places(f, S, word) \in SUBSET S
  BY DEF Places
<1>2. IsFiniteSet(Places(f, S, word))
  BY <1>1, FS_Subset
<1> QED
  BY <1>2, FS_CardinalityType DEF Count

\* Equal words in equal places are counted alike.
LEMMA SameCount ==
    ASSUME NEW f, NEW g, NEW S, NEW word, \A k \in S : f[k] = g[k]
    PROVE  Count(f, S, word) = Count(g, S, word)
<1>1. Places(f, S, word) = Places(g, S, word)
  BY DEF Places
<1> QED
  BY <1>1 DEF Count

\* One more place counts for the word that it holds.
LEMMA OneMorePlace ==
    ASSUME NEW f, NEW S, IsFiniteSet(S), NEW r, r \notin S, NEW word
    PROVE  Count(f, S \cup {r}, word) = Count(f, S, word) + Mark(f[r], word)
<1>1. IsFiniteSet(Places(f, S, word)) /\ Count(f, S, word) \in Nat /\ r \notin Places(f, S, word)
  BY CountIsNumber DEF Places
<1>2. CASE f[r] = word
  <2>1. Places(f, S \cup {r}, word) = Places(f, S, word) \cup {r}
    BY <1>2 DEF Places
  <2>2. Cardinality(Places(f, S, word) \cup {r}) = Cardinality(Places(f, S, word)) + 1
    BY <1>1, FS_AddElement
  <2> QED
    BY <1>2, <2>1, <2>2 DEF Count, Mark
<1>3. CASE f[r] # word
  <2>1. Places(f, S \cup {r}, word) = Places(f, S, word)
    BY <1>3 DEF Places
  <2> QED
    BY <1>1, <1>3, <2>1 DEF Count, Mark
<1> QED
  BY <1>2, <1>3

\* A place that gets another word.
LEMMA PlaceSet ==
    ASSUME NEW f, NEW S, IsFiniteSet(S), NEW r \in S, S \subseteq DOMAIN f, NEW v, NEW word
    PROVE  Count([f EXCEPT ![r] = v], S, word) + Mark(f[r], word)
           = Count(f, S, word) + Mark(v, word)
<1> DEFINE g == [f EXCEPT ![r] = v]
           rest == S \ {r}
<1>1. g[r] = v /\ \A k \in rest : g[k] = f[k]
  OBVIOUS
<1> HIDE DEF g
<1>2. IsFiniteSet(rest) /\ rest \cup {r} = S /\ r \notin rest
  BY FS_RemoveElement
<1> HIDE DEF rest
<1>3. Count(g, rest, word) = Count(f, rest, word)
  BY <1>1, SameCount
<1>4. Count(f, rest, word) \in Nat
  BY <1>2, CountIsNumber
<1>5. /\ Count(f, S, word) = Count(f, rest, word) + Mark(f[r], word)
      /\ Count(g, S, word) = Count(g, rest, word) + Mark(g[r], word)
  BY <1>2, OneMorePlace
<1>6. Mark(f[r], word) \in Nat /\ Mark(v, word) \in Nat
  BY DEF Mark
<1>7. Count(g, S, word) + Mark(f[r], word) = Count(f, S, word) + Mark(v, word)
  BY <1>1, <1>3, <1>4, <1>5, <1>6
<1> QED
  BY <1>7 DEF g

\* Places that are apart are counted apart.
LEMMA CountsApart ==
    ASSUME NEW f, NEW S, IsFiniteSet(S), NEW T, IsFiniteSet(T), S \cap T = {}, NEW word
    PROVE  Count(f, S \cup T, word) = Count(f, S, word) + Count(f, T, word)
<1>1. /\ Places(f, S \cup T, word) = Places(f, S, word) \cup Places(f, T, word)
      /\ Places(f, S, word) \cap Places(f, T, word) = {}
  BY DEF Places
<1>2. IsFiniteSet(Places(f, S, word)) /\ IsFiniteSet(Places(f, T, word))
      /\ Count(f, S, word) \in Nat /\ Count(f, T, word) \in Nat
  BY CountIsNumber
<1>3. Cardinality(Places(f, S, word) \cup Places(f, T, word))
      = Cardinality(Places(f, S, word)) + Cardinality(Places(f, T, word))
         - Cardinality(Places(f, S, word) \cap Places(f, T, word))
  BY <1>2, FS_Union
<1>4. Cardinality(Places(f, S, word) \cap Places(f, T, word)) = 0
  BY <1>1, FS_EmptySet
<1>5. Count(f, S \cup T, word)
      = Count(f, S, word) + Count(f, T, word)
         - Cardinality(Places(f, S, word) \cap Places(f, T, word))
  BY <1>1, <1>3 DEF Count
<1> QED
  BY <1>2, <1>4, <1>5

Aligned(f, g, from, S) == \A k \in S : f[k] = g[k - from + 1]

LEMMA CountMoved ==
    ASSUME NEW f, NEW g, NEW from \in Int, NEW to \in Int,
           NEW S, S = from .. to, NEW T, T = 1 .. to - from + 1,
           Aligned(f, g, from, S), NEW word
    PROVE  Count(f, S, word) = Count(g, T, word)
<1> DEFINE A == Places(f, S, word)
           B == Places(g, T, word)
           move == [k \in A |-> k - from + 1]
<1>1. IsFiniteSet(A)
  BY FS_Interval, CountIsNumber
<1>2. move \in [A -> B]
  <2>1. ASSUME NEW k \in A PROVE k - from + 1 \in B
    <3>1. k \in from .. to /\ f[k] = word
      BY DEF Places
    <3>2. k - from + 1 \in T /\ g[k - from + 1] = word
      BY <3>1 DEF Aligned
    <3> QED
      BY <3>2 DEF Places
  <2> HIDE DEF A, B
  <2> QED
    BY <2>1
<1>3. IsInjective(move)
  <2>1. A \subseteq Int
    BY DEF Places
  <2> HIDE DEF A
  <2> QED
    BY <2>1 DEF IsInjective
<1>4. ASSUME NEW t \in B PROVE \E s \in A : move[s] = t
  <2> DEFINE s == t + from - 1
  <2>1. t \in T /\ g[t] = word
    BY DEF Places
  <2>2. s \in from .. to /\ s - from + 1 = t
    BY <2>1
  <2> HIDE DEF s
  <2>3. f[s] = word
    BY <2>1, <2>2 DEF Aligned
  <2>4. s \in A
    BY <2>2, <2>3 DEF Places
  <2> QED
    BY <2>2, <2>4
<1> HIDE DEF A, B, move
<1>5. move \in Bijection(A, B)
  BY <1>2, <1>3, <1>4 DEF Bijection, Injection, Surjection
<1>6. ExistsBijection(A, B)
  BY <1>5 DEF ExistsBijection
<1>7. Cardinality(B) = Cardinality(A)
  BY <1>1, <1>6, FS_Bijection
<1> QED
  BY <1>7 DEF A, B, Count

-----------------------------------------------------------------------------
(* No word is lost.                                                        *)

\* The rows are counted as they were read, but for the word that sort() has taken
\* out, whose place is the hole; and b has what M() has taken of the two halves.
SameRows == \A word \in Words : Count(a, TheRows, word) = Count(given, TheRows, word)
Kept ==
    /\ pc \in {"sort", "MSort", "merge", "query", "search"} => SameRows
    /\ pc = "shift" => \A word \in Words :
          Count(a, TheRows, word) + Mark(next, word)
          = Count(given, TheRows, word) + Mark(a[j + 1], word)
    /\ pc = "merge" => \A word \in Words :
          Count(b, 1 .. Len(b), word)
          = Count(a, call.low .. left - 1, word) + Count(a, call.mid + 1 .. right - 1, word)

LEMMA TheRowsFinite == TypeOK => IsFiniteSet(TheRows) /\ TheRows \subseteq DOMAIN a
<1>1. TypeOK => dSize \in Nat
  BY WordSearchAssumption DEF TypeOK
<1> QED
  BY <1>1, RowsTyped, FS_Interval DEF TheRows, TypeOK

LEMMA RowCounts ==
    ASSUME TypeOK, NEW f, NEW word
    PROVE  Count(f, TheRows, word) \in Nat
BY TheRowsFinite, CountIsNumber

LEMMA MarkIsNumber == ASSUME NEW v, NEW word PROVE Mark(v, word) \in Nat
BY DEF Mark

LEMMA InitKept == Init => Kept
BY DEF Init, Kept

\* The word that is taken leaves a hole where it was.
LEMMA TakeNextKeeps ==
    ASSUME IInv, Kept, TakeNext
    PROVE  Kept'
<1>1. pc = "sort" /\ pc' = "shift" /\ next' = a[i] /\ j' = i - 1 /\ i \in Nat
      /\ UNCHANGED <<a, given, TheRows>>
  BY DEF TakeNext, reading, TheRows, IInv, TypeOK
<1>2. j' + 1 = i
  BY <1>1
<1>3. a'[j' + 1] = next'
  BY <1>1, <1>2
<1>4. ASSUME NEW word \in Words
      PROVE  Count(a', TheRows', word) + Mark(next', word)
             = Count(given', TheRows', word) + Mark(a'[j' + 1], word)
  BY <1>1, <1>3 DEF Kept, SameRows
<1> QED
  BY <1>1, <1>4 DEF Kept

\* The hole moves down.
LEMMA ShiftKeeps ==
    ASSUME IInv, Kept, Shift
    PROVE  Kept'
<1>1. pc = "shift" /\ pc' = "shift" /\ j' = j - 1 /\ a' = [a EXCEPT ![j + 1] = a[j]]
      /\ UNCHANGED <<next, given, TheRows>>
  BY DEF Shift, reading, TheRows
<1>2. j \in Int /\ 0 <= j /\ j + 1 \in TheRows /\ j \in TheRows /\ j' + 1 = j
  <2>1. j \in Int /\ 0 <= j /\ i \in Nat /\ dSize \in Nat /\ j < i /\ i < dSize
    BY <1>1, Numbers DEF Shift, mustShift, IInv, LoopsOK
  <2> QED
    BY <1>1, <2>1 DEF TheRows
<1>3. a'[j' + 1] = a[j]
  <2>1. j \in DOMAIN a /\ j # j + 1
    BY <1>2, TheRowsFinite DEF IInv
  <2> QED
    BY <1>1, <1>2, <2>1
<1>4. ASSUME NEW word \in Words
      PROVE  Count(a', TheRows', word) + Mark(next', word)
             = Count(given', TheRows', word) + Mark(a'[j' + 1], word)
  <2>1. Count(a', TheRows, word) + Mark(a[j + 1], word) = Count(a, TheRows, word) + Mark(a[j], word)
    <3>1. IsFiniteSet(TheRows) /\ TheRows \subseteq DOMAIN a
      BY TheRowsFinite DEF IInv
    <3>2. Count([a EXCEPT ![j + 1] = a[j]], TheRows, word) + Mark(a[j + 1], word)
          = Count(a, TheRows, word) + Mark(a[j], word)
      BY <1>2, <3>1, PlaceSet
    <3> QED
      BY <1>1, <3>2
  <2>2. Count(a, TheRows, word) + Mark(next, word) = Count(given, TheRows, word) + Mark(a[j + 1], word)
    BY <1>1 DEF Kept
  <2>3. /\ Count(a', TheRows, word) \in Nat /\ Count(a, TheRows, word) \in Nat
        /\ Count(given, TheRows, word) \in Nat
    BY RowCounts DEF IInv
  <2>4. Mark(a[j], word) \in Nat /\ Mark(a[j + 1], word) \in Nat /\ Mark(next, word) \in Nat
    BY MarkIsNumber
  <2>5. Count(a', TheRows, word) + Mark(next, word) = Count(given, TheRows, word) + Mark(a[j], word)
    BY <2>1, <2>2, <2>3, <2>4
  <2> QED
    BY <1>1, <1>3, <2>5
<1> QED
  BY <1>1, <1>4 DEF Kept

\* The word goes into the hole.
LEMMA InsertKeeps ==
    ASSUME IInv, Kept, Insert
    PROVE  Kept'
<1>1. pc = "shift" /\ pc' = "sort" /\ a' = [a EXCEPT ![j + 1] = next]
      /\ UNCHANGED <<given, TheRows>>
  BY DEF Insert, reading, TheRows
<1>2. j + 1 \in TheRows
  <2>1. j \in Int /\ -1 <= j /\ i \in Nat /\ dSize \in Nat /\ j < i /\ i < dSize
    BY <1>1, Numbers DEF IInv, LoopsOK
  <2> QED
    BY <2>1 DEF TheRows
<1>3. ASSUME NEW word \in Words
      PROVE  Count(a', TheRows', word) = Count(given', TheRows', word)
  <2>1. Count(a', TheRows, word) + Mark(a[j + 1], word) = Count(a, TheRows, word) + Mark(next, word)
    <3>1. IsFiniteSet(TheRows) /\ TheRows \subseteq DOMAIN a
      BY TheRowsFinite DEF IInv
    <3>2. Count([a EXCEPT ![j + 1] = next], TheRows, word) + Mark(a[j + 1], word)
          = Count(a, TheRows, word) + Mark(next, word)
      BY <1>2, <3>1, PlaceSet
    <3> QED
      BY <1>1, <3>2
  <2>2. Count(a, TheRows, word) + Mark(next, word) = Count(given, TheRows, word) + Mark(a[j + 1], word)
    BY <1>1 DEF Kept
  <2>3. Count(a', TheRows, word) \in Nat /\ Count(given, TheRows, word) \in Nat
    BY RowCounts DEF IInv
  <2>4. Mark(a[j + 1], word) \in Nat
    BY MarkIsNumber
  <2>5. Count(a', TheRows, word) + Mark(a[j + 1], word)
        = Count(given, TheRows, word) + Mark(a[j + 1], word)
    BY <2>1, <2>2
  <2>6. Count(a', TheRows, word) = Count(given, TheRows, word)
    BY <2>3, <2>4, <2>5
  <2> QED
    BY <1>1, <2>6
<1> QED
  BY <1>1, <1>3 DEF Kept, SameRows

\* An interval, its last place, and its two halves.
LEMMA SpanFinite == ASSUME NEW from \in Int, NEW to \in Int PROVE IsFiniteSet(from .. to)
BY FS_Interval

LEMMA SpanEnds ==
    ASSUME NEW from \in Int, NEW to \in Int, from <= to
    PROVE  from .. to = (from .. to - 1) \cup {to} /\ to \notin from .. to - 1
OBVIOUS

LEMMA SpanHalves ==
    ASSUME NEW from \in Int, NEW middle \in Int, NEW to \in Int, from <= middle, middle < to
    PROVE  /\ from .. to = (from .. middle) \cup (middle + 1 .. to)
           /\ (from .. middle) \cap (middle + 1 .. to) = {}
OBVIOUS

\* An interval that has one more place.
LEMMA SpanCount ==
    ASSUME NEW from \in Int, NEW to \in Int, from <= to, NEW f, NEW word
    PROVE  /\ Count(f, from .. to, word) = Count(f, from .. to - 1, word) + Mark(f[to], word)
           /\ Count(f, from .. to - 1, word) \in Nat
<1> DEFINE S == from .. to - 1
<1>1. from .. to = S \cup {to} /\ to \notin S
  BY SpanEnds
<1>2. IsFiniteSet(S)
  <2>1. to - 1 \in Int
    OBVIOUS
  <2> QED
    BY <2>1, SpanFinite
<1> HIDE DEF S
<1>3. Count(f, S \cup {to}, word) = Count(f, S, word) + Mark(f[to], word)
  BY <1>1, <1>2, OneMorePlace
<1>4. Count(f, S, word) \in Nat
  BY <1>2, CountIsNumber
<1> QED
  BY <1>1, <1>3, <1>4 DEF S

\* A word put at the end of b is counted with b.
LEMMA AppendCount ==
    ASSUME NEW s \in Seq(Words), NEW v \in Words, NEW word
    PROVE  Count(Append(s, v), 1 .. Len(Append(s, v)), word)
           = Count(s, 1 .. Len(s), word) + Mark(v, word)
<1> DEFINE n == Len(s)
           m == n + 1
           r == Append(s, v)
<1>1. n \in Nat /\ Len(r) = m /\ r[m] = v /\ \A k \in 1 .. n : r[k] = s[k]
  BY AppendProperties, LenProperties
<1>2. 1 \in Int /\ m \in Int /\ 1 <= m /\ m - 1 = n
  BY <1>1
<1> HIDE DEF n, m, r
<1>3. Count(r, 1 .. m, word) = Count(r, 1 .. m - 1, word) + Mark(r[m], word)
  BY <1>2, SpanCount
<1>4. Count(r, 1 .. n, word) = Count(s, 1 .. n, word)
  BY <1>1, SameCount
<1>5. Count(r, 1 .. m, word) = Count(s, 1 .. n, word) + Mark(v, word)
  BY <1>1, <1>2, <1>3, <1>4
<1> QED
  BY <1>1, <1>5 DEF n, r

LEMMA TakeLeftKeeps ==
    ASSUME IInv, Kept, TakeLeft
    PROVE  Kept'
<1>1. pc = "merge" /\ pc' = "merge" /\ left <= call.mid /\ left' = left + 1
      /\ b' = Append(b, a[left])
      /\ UNCHANGED <<a, right, call, given, TheRows>>
  BY DEF TakeLeft, call, reading, TheRows
<1>2. /\ call.low \in Int /\ call.mid \in Int /\ call.high \in Int /\ left \in Int /\ right \in Int
      /\ call.low <= left /\ call.mid < call.high /\ call.mid + 1 <= right
      /\ call.low .. call.high \subseteq Rows
  BY <1>1, MergeNumbers
<1>3. a[left] \in Words /\ b \in Seq(Words)
  <2>1. left \in call.low .. call.high
    BY <1>1, <1>2
  <2> QED
    BY <1>2, <2>1 DEF IInv, TypeOK
<1>4. left' - 1 = left
  BY <1>1, <1>2
<1>5. ASSUME NEW word \in Words
      PROVE  Count(b', 1 .. Len(b'), word)
             = Count(a, call.low .. left' - 1, word) + Count(a, call.mid + 1 .. right - 1, word)
  <2> DEFINE c == Count(b, 1 .. Len(b), word)
             l == Count(a, call.low .. left - 1, word)
             r == Count(a, call.mid + 1 .. right - 1, word)
             m == Mark(a[left], word)
  <2>1. Count(b', 1 .. Len(b'), word) = c + m
    BY <1>1, <1>3, AppendCount
  <2>2. Count(a, call.low .. left, word) = l + m /\ l \in Nat
    BY <1>2, SpanCount
  <2>3. c = l + r
    BY <1>1 DEF Kept
  <2>4. r \in Nat /\ m \in Nat
    <3>1. call.mid + 1 \in Int /\ right - 1 \in Int
      BY <1>2
    <3>2. IsFiniteSet(call.mid + 1 .. right - 1)
      BY <3>1, SpanFinite
    <3> QED
      BY <3>2, CountIsNumber, MarkIsNumber
  <2> HIDE DEF c, l, r, m
  <2>5. Count(b', 1 .. Len(b'), word) = Count(a, call.low .. left, word) + r
    BY <2>1, <2>2, <2>3, <2>4
  <2> QED
    BY <1>4, <2>5 DEF r
<1> QED
  BY <1>1, <1>5 DEF Kept, SameRows

LEMMA TakeRightKeeps ==
    ASSUME IInv, Kept, TakeRight
    PROVE  Kept'
<1>1. pc = "merge" /\ pc' = "merge" /\ right <= call.high /\ right' = right + 1
      /\ b' = Append(b, a[right])
      /\ UNCHANGED <<a, left, call, given, TheRows>>
  BY DEF TakeRight, call, reading, TheRows
<1>2. /\ call.low \in Int /\ call.mid \in Int /\ call.high \in Int /\ left \in Int /\ right \in Int
      /\ call.low <= call.mid /\ call.mid + 1 <= right
      /\ call.low .. call.high \subseteq Rows
  BY <1>1, MergeNumbers
<1>3. a[right] \in Words /\ b \in Seq(Words)
  <2>1. right \in call.low .. call.high
    BY <1>1, <1>2
  <2> QED
    BY <1>2, <2>1 DEF IInv, TypeOK
<1>4. right' - 1 = right
  BY <1>1, <1>2
<1>5. ASSUME NEW word \in Words
      PROVE  Count(b', 1 .. Len(b'), word)
             = Count(a, call.low .. left - 1, word) + Count(a, call.mid + 1 .. right' - 1, word)
  <2> DEFINE c == Count(b, 1 .. Len(b), word)
             l == Count(a, call.low .. left - 1, word)
             r == Count(a, call.mid + 1 .. right - 1, word)
             m == Mark(a[right], word)
  <2>1. Count(b', 1 .. Len(b'), word) = c + m
    BY <1>1, <1>3, AppendCount
  <2>2. Count(a, call.mid + 1 .. right, word) = r + m /\ r \in Nat
    <3>1. call.mid + 1 \in Int
      BY <1>2
    <3> QED
      BY <1>2, <3>1, SpanCount
  <2>3. c = l + r
    BY <1>1 DEF Kept
  <2>4. l \in Nat /\ m \in Nat
    <3>1. left - 1 \in Int
      BY <1>2
    <3>2. IsFiniteSet(call.low .. left - 1)
      BY <1>2, <3>1, SpanFinite
    <3> QED
      BY <3>2, CountIsNumber, MarkIsNumber
  <2> HIDE DEF c, l, r, m
  <2>5. Count(b', 1 .. Len(b'), word) = l + Count(a, call.mid + 1 .. right, word)
    BY <2>1, <2>2, <2>3, <2>4
  <2> QED
    BY <1>4, <2>5 DEF l
<1> QED
  BY <1>1, <1>5 DEF Kept, SameRows

\* What is copied back has the words of both halves, and the other rows stay.
LEMMA CopyBackKeeps ==
    ASSUME IInv, Kept, CopyBack
    PROVE  Kept'
<1> DEFINE from == call.low
           middle == call.mid
           to == call.high
           n == Len(b)
           merged == from .. to
           others == TheRows \ merged
<1>1. pc = "merge" /\ pc' = "MSort" /\ left > middle /\ right > to
      /\ a' = [k \in Rows |-> IF k \in merged THEN b[k - from + 1] ELSE a[k]]
      /\ UNCHANGED <<given, TheRows>>
  BY DEF CopyBack, reading, TheRows
<1>2. /\ from \in Int /\ middle \in Int /\ to \in Int /\ left \in Int /\ right \in Int
      /\ 0 <= from /\ from <= middle /\ middle < to /\ to < dSize
      /\ left <= middle + 1 /\ right <= to + 1 /\ n \in Nat
      /\ n = (left - from) + (right - middle - 1)
      /\ merged \subseteq Rows
  BY <1>1, MergeNumbers
<1>3. pc = "merge" => \A word \in Words :
         Count(b, 1 .. n, word)
         = Count(a, from .. left - 1, word) + Count(a, middle + 1 .. right - 1, word)
  BY DEF Kept
<1>4. dSize \in Nat
  BY Numbers DEF IInv
<1> HIDE DEF from, middle, to, n
<1>5. left - 1 = middle /\ right - 1 = to /\ n = to - from + 1
      /\ from - 1 \in Int /\ middle + 1 \in Int
  BY <1>1, <1>2
<1>6. merged = (from .. middle) \cup (middle + 1 .. to)
      /\ (from .. middle) \cap (middle + 1 .. to) = {}
  BY <1>2, SpanHalves
<1>7. IsFiniteSet(merged) /\ IsFiniteSet(from .. middle) /\ IsFiniteSet(middle + 1 .. to)
  BY <1>2, <1>5, SpanFinite
<1>8. IsFiniteSet(others) /\ others \cap merged = {} /\ others \cup merged = TheRows
      /\ others \subseteq Rows
  <2>1. merged \subseteq TheRows
    BY <1>2, <1>4 DEF TheRows
  <2>2. IsFiniteSet(TheRows) /\ TheRows \subseteq Rows
    BY TheRowsFinite, RowsTyped DEF IInv
  <2> HIDE DEF merged
  <2> QED
    BY <2>1, <2>2, FS_Difference
<1>9. \A k \in others : a'[k] = a[k]
  BY <1>1, <1>8
<1>10. \A k \in merged : a'[k] = b[k - from + 1]
  BY <1>1, <1>2
<1> HIDE DEF merged, others
<1>11. ASSUME NEW word \in Words
       PROVE  Count(a', TheRows, word) = Count(a, TheRows, word)
  <2>1. Count(a', merged, word) = Count(b, 1 .. n, word)
    <3> DEFINE f == a'
               taken == 1 .. n
    <3>1. merged = from .. to /\ taken = 1 .. to - from + 1
      BY <1>5 DEF merged
    <3>2. Aligned(f, b, from, merged)
      BY <1>10 DEF Aligned
    <3> HIDE DEF f, taken
    <3>3. Count(f, merged, word) = Count(b, taken, word)
      BY <1>2, <3>1, <3>2, CountMoved
    <3> QED
      BY <3>3 DEF f, taken
  <2>2. Count(b, 1 .. n, word) = Count(a, from .. middle, word) + Count(a, middle + 1 .. to, word)
    BY <1>1, <1>3, <1>5
  <2>3. Count(a, merged, word) = Count(a, from .. middle, word) + Count(a, middle + 1 .. to, word)
    <3> DEFINE S == from .. middle
               T == middle + 1 .. to
    <3> HIDE DEF S, T
    <3>1. merged = S \cup T /\ S \cap T = {} /\ IsFiniteSet(S) /\ IsFiniteSet(T)
      BY <1>6, <1>7 DEF S, T
    <3>2. Count(a, S \cup T, word) = Count(a, S, word) + Count(a, T, word)
      BY <3>1, CountsApart
    <3> QED
      BY <3>1, <3>2 DEF S, T
  <2>4. Count(a', others, word) = Count(a, others, word)
    BY <1>9, SameCount
  <2>5. /\ Count(a, others \cup merged, word) = Count(a, others, word) + Count(a, merged, word)
        /\ Count(a', others \cup merged, word) = Count(a', others, word) + Count(a', merged, word)
    BY <1>7, <1>8, CountsApart
  <2> QED
    BY <1>8, <2>1, <2>2, <2>3, <2>4, <2>5
<1> QED
  BY <1>1, <1>11 DEF Kept, SameRows

LEMMA StepKept == IInv /\ Kept /\ [Next]_vars => Kept'
<1> SUFFICES ASSUME IInv, Kept, [Next]_vars PROVE Kept'
  OBVIOUS
<1>1. CASE ReadWord
  BY <1>1 DEF ReadWord, Kept
<1>2. CASE DictionaryRead
  <2>1. pc' \in {"query", "sort", "MSort"} /\ given' = a /\ a' = a
    BY <1>2 DEF DictionaryRead, IInv, TypeOK, Programs
  <2> QED
    BY <2>1 DEF Kept, SameRows
<1>3. CASE TakeNext
  BY <1>3, TakeNextKeeps
<1>4. CASE Shift
  BY <1>4, ShiftKeeps
<1>5. CASE Insert
  BY <1>5, InsertKeeps
<1>6. CASE BeginMerge
  <2>1. pc = "MSort" /\ pc' = "merge" /\ left' = call.low /\ right' = call.mid + 1 /\ b' = <<>>
        /\ UNCHANGED <<a, given, TheRows, call>> /\ call \in Within
    BY <1>6, TopCall DEF BeginMerge, reading, TheRows, call, IInv
  <2>2. call.low .. left' - 1 = {} /\ call.mid + 1 .. right' - 1 = {} /\ 1 .. Len(b') = {}
    <3>1. call.low \in Int /\ call.mid \in Int
      BY <2>1 DEF Within, Calls
    <3>2. Len(b') = 0
      BY <2>1, EmptySeq
    <3> QED
      BY <2>1, <3>1, <3>2
  <2>3. ASSUME NEW f, NEW word PROVE Count(f, {}, word) = 0
    <3>1. Places(f, {}, word) = {}
      BY DEF Places
    <3> QED
      BY <3>1, FS_EmptySet DEF Count
  <2>4. ASSUME NEW word \in Words
        PROVE  Count(b', 1 .. Len(b'), word)
               = Count(a', call'.low .. left' - 1, word)
                  + Count(a', call'.mid + 1 .. right' - 1, word)
    <3>1. call'.low .. left' - 1 = {} /\ call'.mid + 1 .. right' - 1 = {} /\ 1 .. Len(b') = {}
      BY <2>1, <2>2
    <3> DEFINE none == <<>>
               f == a
    <3>2. Count(none, {}, word) = 0 /\ Count(f, {}, word) = 0
      BY <2>3
    <3> HIDE DEF none, f
    <3>3. Count(none, {}, word) = Count(f, {}, word) + Count(f, {}, word)
      BY <3>2
    <3>4. b' = none /\ a' = f
      BY <2>1 DEF none, f
    <3> QED
      BY <3>1, <3>3, <3>4
  <2> QED
    BY <2>1, <2>4 DEF Kept, SameRows
<1>7. CASE TakeLeft
  BY <1>7, TakeLeftKeeps
<1>8. CASE TakeRight
  BY <1>8, TakeRightKeeps
<1>9. CASE CopyBack
  BY <1>9, CopyBackKeeps
<1>10. CASE Divide \/ Sorted \/ Ask \/ TryRow \/ Halve \/ Answer
  <2>1. pc \in {"MSort", "sort", "query", "search"} /\ pc' \in {"MSort", "query", "search"}
        /\ UNCHANGED <<a, given, TheRows>>
    BY <1>10 DEF Divide, Sorted, Ask, TryRow, Halve, Answer, reading, TheRows
  <2> QED
    BY <2>1 DEF Kept, SameRows
<1>11. CASE UNCHANGED vars
  <2>1. UNCHANGED <<pc, a, given, TheRows, next, j, b, call, left, right>>
    BY <1>11 DEF vars, reading, inserting, merging, TheRows, call
  <2> QED
    BY <2>1 DEF Kept, SameRows
<1> QED
  BY <1>1, <1>2, <1>3, <1>4, <1>5, <1>6, <1>7, <1>8, <1>9, <1>10, <1>11
     DEF Next, Reads, Sorts, Searches

\* Both sorts keep the words, each as often as it was read, for every dictionary.
THEOREM SortsKeepWords == Spec => []RowsKept
<1>1. Kept => RowsKept
  BY DEF Kept, SameRows, RowsKept, Times, Count, Places
<1> QED
  BY <1>1, InitKept, StepKept, Inductive, PTL DEF Spec

-----------------------------------------------------------------------------
(* The count of the words that were found.                                 *)

\* No word is looked up before the rows are read and sorted, the words found are those
\* among the rows as they were read, and one of these at most holds no word that was read.
Tallied ==
    /\ pc \notin {"query", "search"} => asked = <<>>
    /\ found = Cardinality({n \in 1 .. Len(asked) : \E k \in TheRows : given[k] = asked[n]})
    /\ pc # "read" => dSize \in {filled, filled + 1}

\* The words looked up that are rows, by their places in the file.
There(s) == {n \in 1 .. Len(s) : \E k \in TheRows : given[k] = s[n]}

LEMMA NoneThere == There(<<>>) = {} /\ Cardinality(There(<<>>)) = 0
<1>1. 1 .. Len(<<>>) = {}
  OBVIOUS
<1>2. There(<<>>) = {}
  BY <1>1 DEF There
<1> QED
  BY <1>2, FS_EmptySet

\* One more word is there or not.
LEMMA OneMoreAsked ==
    ASSUME NEW s \in Seq(Words), NEW v \in Words
    PROVE  Cardinality(There(Append(s, v)))
           = Cardinality(There(s)) + (IF \E k \in TheRows : given[k] = v THEN 1 ELSE 0)
<1> DEFINE n == Len(s)
           m == n + 1
           r == Append(s, v)
           A == There(s)
           B == There(r)
<1>1. n \in Nat /\ Len(r) = m /\ r[m] = v /\ \A x \in 1 .. n : r[x] = s[x]
  BY AppendProperties, LenProperties
<1>2. 1 .. m = (1 .. n) \cup {m} /\ m \notin 1 .. n /\ IsFiniteSet(1 .. n)
  <2>1. m \in Int /\ 1 <= m /\ m - 1 = n
    BY <1>1
  <2> HIDE DEF n, m
  <2> QED
    BY <1>1, <2>1, SpanEnds, SpanFinite
<1>3. A = {x \in 1 .. n : \E k \in TheRows : given[k] = s[x]}
      /\ B = {x \in 1 .. m : \E k \in TheRows : given[k] = r[x]}
  BY <1>1 DEF There
<1> HIDE DEF n, m, r, A, B
<1>4. IsFiniteSet(A) /\ m \notin A
  <2>1. A \in SUBSET (1 .. n)
    BY <1>3
  <2> QED
    BY <1>2, <2>1, FS_Subset
<1>5. Cardinality(A) \in Nat
  BY <1>4, FS_CardinalityType
<1>6. CASE \E k \in TheRows : given[k] = v
  <2>1. B = A \cup {m}
    BY <1>1, <1>2, <1>3, <1>6
  <2>2. Cardinality(A \cup {m}) = Cardinality(A) + 1
    BY <1>4, FS_AddElement
  <2> QED
    BY <1>6, <2>1, <2>2 DEF A, B, r
<1>7. CASE ~\E k \in TheRows : given[k] = v
  <2>1. B = A
    BY <1>1, <1>2, <1>3, <1>7
  <2> QED
    BY <1>5, <1>7, <2>1 DEF A, B, r
<1> QED
  BY <1>6, <1>7

\* A word is among the rows that are looked up exactly when it was read.
LEMMA StillThere ==
    ASSUME TypeOK, SameRows, NEW word \in Words
    PROVE  (\E k \in TheRows : a[k] = word) <=> (\E k \in TheRows : given[k] = word)
<1>1. Count(a, TheRows, word) = Count(given, TheRows, word)
  BY DEF SameRows
<1>2. ASSUME NEW f PROVE (\E k \in TheRows : f[k] = word) <=> Count(f, TheRows, word) # 0
  <2>1. IsFiniteSet(Places(f, TheRows, word))
    BY TheRowsFinite, CountIsNumber
  <2>2. Count(f, TheRows, word) = 0 <=> Places(f, TheRows, word) = {}
    BY <2>1, FS_EmptySet DEF Count
  <2> QED
    BY <2>2 DEF Places
<1>3. (\E k \in TheRows : a[k] = word) <=> Count(a, TheRows, word) # 0
  BY <1>2
<1>4. (\E k \in TheRows : given[k] = word) <=> Count(given, TheRows, word) # 0
  BY <1>2
<1> QED
  BY <1>1, <1>3, <1>4

LEMMA InitTallied == Init => Tallied
BY NoneThere DEF Init, Tallied, There

LEMMA StepTallied ==
    IInv /\ SortInv /\ FoundIffThere /\ Kept /\ Tallied /\ [Next]_vars => Tallied'
<1> SUFFICES ASSUME IInv, SortInv, FoundIffThere, Kept, Tallied, [Next]_vars PROVE Tallied'
  OBVIOUS
<1>0. found = Cardinality(There(asked))
  BY DEF Tallied, There
<1>1. CASE Reads
  <2>1. pc = "read" /\ UNCHANGED counting
    BY <1>1 DEF Reads, ReadWord, DictionaryRead
  <2>2. asked' = <<>> /\ found' = 0
    BY <1>0, <2>1, NoneThere DEF Tallied, counting
  <2>3. {n \in 1 .. Len(<<>>) : \E k \in TheRows' : given'[k] = <<>>[n]} = {}
    OBVIOUS
  <2>4. pc' # "read" => dSize' \in {filled', filled' + 1}
    <3>1. CASE ReadWord
      BY <2>1, <3>1 DEF ReadWord
    <3>2. CASE DictionaryRead
      BY <3>2 DEF DictionaryRead, IInv, TypeOK
    <3> QED
      BY <1>1, <3>1, <3>2 DEF Reads
  <2> QED
    BY <2>2, <2>3, <2>4, FS_EmptySet DEF Tallied
<1>2. CASE Sorts \/ Ask \/ TryRow \/ Halve \/ UNCHANGED vars
  <2>1. UNCHANGED <<counting, reading>> /\ (pc' \notin {"query", "search"} => pc \notin {"query", "search"})
    BY <1>2 DEF Sorts, TakeNext, Shift, Insert, Divide, BeginMerge, TakeLeft, TakeRight, CopyBack,
       Sorted, Ask, TryRow, Halve, vars
  <2>2. UNCHANGED <<asked, found, given, TheRows, dSize, filled>>
    BY <2>1 DEF counting, reading, TheRows
  <2>3. pc' # "read" => pc # "read"
    BY <1>2 DEF Sorts, TakeNext, Shift, Insert, Divide, BeginMerge, TakeLeft, TakeRight, CopyBack,
       Sorted, Ask, TryRow, Halve, vars
  <2> QED
    BY <2>1, <2>2, <2>3 DEF Tallied
<1>3. CASE Answer
  <2>1. /\ pc = "search" /\ ~isSearching /\ pc' = "query"
        /\ found' = found + (IF idxOfX # -1 THEN 1 ELSE 0) /\ asked' = Append(asked, W)
        /\ UNCHANGED <<given, TheRows, dSize, filled>>
    BY <1>3 DEF Answer, reading, TheRows
  <2>2. program = "strSearch" \/ Ordered(0, dSize - 1)
    BY <2>1 DEF SortInv, Done
  <2>3. idxOfX # -1 <=> \E k \in TheRows : a[k] = W
    BY <2>1, <2>2 DEF FoundIffThere
  <2>4. W \in Words /\ asked \in Seq(Words) /\ TypeOK
    BY DEF IInv, TypeOK
  <2>5. (\E k \in TheRows : a[k] = W) <=> (\E k \in TheRows : given[k] = W)
    BY <2>1, <2>4, StillThere DEF Kept
  <2>6. found' = Cardinality(There(Append(asked, W)))
    BY <1>0, <2>1, <2>3, <2>4, <2>5, OneMoreAsked
  <2>7. There(Append(asked, W)) = {n \in 1 .. Len(asked') : \E k \in TheRows' : given'[k] = asked'[n]}
    BY <2>1 DEF There
  <2> QED
    BY <2>1, <2>6, <2>7 DEF Tallied
<1> QED
  BY <1>1, <1>2, <1>3 DEF Next, Searches

\* The rows looked up are those that hold a word that was read, and one more at most.
LEMMA TalliedIsRight == IInv /\ Tallied => CountIsRight
<1> SUFFICES ASSUME IInv, Tallied PROVE CountIsRight
  OBVIOUS
<1>1. dSize \in Nat /\ filled \in Nat
  BY WordSearchAssumption DEF IInv, TypeOK
<1>2. CASE pc = "read"
  <2>1. asked = <<>> /\ 1 .. Len(asked) = {}
    BY <1>2 DEF Tallied
  <2>2. found = 0
    BY <2>1, FS_EmptySet DEF Tallied
  <2> QED
    BY <1>2, <2>1, <2>2, FS_EmptySet DEF CountIsRight
<1>3. CASE pc # "read" /\ dSize = filled
  <2>1. \A word : (\E k \in TheRows : given[k] = word) <=> WasRead(word)
    BY <1>3 DEF TheRows, WasRead
  <2> QED
    BY <1>3, <2>1 DEF Tallied, CountIsRight
<1>4. CASE pc # "read" /\ dSize = filled + 1
  <2>1. \A k : k \in TheRows <=> k \in 0 .. filled - 1 \/ k = filled
    BY <1>1, <1>4 DEF TheRows
  <2>2. \A word : (\E k \in TheRows : given[k] = word) <=> WasRead(word) \/ given[filled] = word
    BY <2>1 DEF WasRead
  <2>3. dSize # filled
    BY <1>1, <1>4
  <2> QED
    BY <1>4, <2>2, <2>3 DEF Tallied, CountIsRight
<1> QED
  BY <1>2, <1>3, <1>4 DEF Tallied

\* The three programs count the words that were read and no others, but for one row that
\* may hold none, for every dictionary and every file of words.
THEOREM TheCountIsRight == Spec => []CountIsRight
<1>1. Spec => []SortInv
  BY SortInvHolds
<1>2. Spec => []Kept
  BY InitKept, StepKept, Inductive, PTL DEF Spec
<1>3. Spec => []FoundIffThere
  BY SearchIsRight
<1> QED
  BY <1>1, <1>2, <1>3, TalliedIsRight, InitTallied, StepTallied, Inductive, PTL DEF Spec

=============================================================================
