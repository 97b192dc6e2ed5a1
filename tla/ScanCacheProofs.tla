--------------------------- MODULE ScanCacheProofs ---------------------------
(***************************************************************************)
(* The LIDAR driver's cache and the client that empties it, for every      *)
(* stream of measurements and all sizes of the buffers: the buffers are    *)
(* not overrun, no published scan is overlooked, and what the client grabs *)
(* belongs to one revolution, later than the one it had before.            *)
(***************************************************************************)
EXTENDS ScanCache, SequenceTheorems, WellFoundedInduction, TLAPS

\* The batch is being sorted: what is left of it is pos .. count.
Sorting == cache \in {"sort", "lock", "copied"}

\* What holds of the buffers whether or not measurements were lost.
ThreadShape ==
    /\ ~express => Len(batch) = BatchMax /\ previous = << >>
    /\ Sorting => count <= Len(batch) /\ pos <= count + 1 /\ incoming = << >>
    /\ cache \in {"lock", "copied"} => pos <= count /\ Sync(batch[pos]) /\ BeginsWithSync(scan)
    /\ cache = "discard" => scan = << >> /\ previous = << >>

\* Only the cache thread ever holds the lock between two steps, and every scan in the
\* cache has its event, but for the one the client is about to grab.
DriverShape ==
    /\ lock = IF cache = "copied" THEN "cache" ELSE "free"
    /\ client # "grab" /\ cachedCount > 0 => signalled

Shape == TypeOK /\ ThreadShape /\ DriverShape

-----------------------------------------------------------------------------
\* The operators on buffers.
LEMMA Sizes == BatchMax \in Nat \ {0} /\ ScanMax \in Nat \ {0} /\ NodesMax \in Nat \ {0}
BY ScanCacheAssumption

LEMMA StreamTyped == Len(Stream) \in Nat /\ \A k \in 1 .. Len(Stream) : Stream[k] \in Node
BY ScanCacheAssumption, ElementOfSeq, LenProperties

LEMMA Memory == Blank \in Node /\ Garbage \subseteq Node
<1>1. 1 \in Nat \ {0} /\ 2 \in Nat \ {0} /\ 0 \in Nat
  OBVIOUS
<1> QED
  BY <1>1 DEF Blank, Garbage, Node

LEMMA ArrayIsSeq ==
    ASSUME NEW n \in Nat, NEW S, NEW f \in [1 .. n -> S]
    PROVE  f \in Seq(S) /\ Len(f) = n
<1>1. f \in Seq(S)
  BY SeqDef
<1> QED
  BY <1>1, LenProperties

LEMMA OverKeeps ==
    ASSUME NEW S, NEW buffer \in Seq(S), NEW s \in Seq(S)
    PROVE  /\ Over(buffer, s) \in Seq(S)
           /\ Len(Over(buffer, s)) = Len(buffer)
           /\ \A i \in 1 .. Len(buffer) :
                 Over(buffer, s)[i] = IF i <= Len(s) THEN s[i] ELSE buffer[i]
<1> DEFINE n == Len(buffer)
           f == Over(buffer, s)
<1>1. n \in Nat /\ Len(s) \in Nat
  BY LenProperties
<1>2. \A i \in 1 .. n : i <= Len(s) => s[i] \in S
  <2>1. \A i \in 1 .. Len(s) : s[i] \in S
    BY ElementOfSeq
  <2> QED
    BY <1>1, <2>1
<1>3. \A i \in 1 .. n : buffer[i] \in S
  BY ElementOfSeq
<1>4. \A i \in 1 .. n : f[i] = IF i <= Len(s) THEN s[i] ELSE buffer[i]
  BY DEF Over
<1>5. f \in [1 .. n -> S]
  BY <1>2, <1>3 DEF Over
<1> HIDE DEF n, f
<1>6. f \in Seq(S) /\ Len(f) = n
  BY <1>1, <1>5, ArrayIsSeq
<1> QED
  BY <1>4, <1>6 DEF n, f

LEMMA LeastIs ==
    ASSUME NEW m \in Nat, NEW n \in Nat
    PROVE  Least(m, n) \in Nat /\ Least(m, n) <= m /\ Least(m, n) <= n
BY DEF Least

LEMMA PrefixIs ==
    ASSUME NEW S, NEW s \in Seq(S), NEW n \in Nat
    PROVE  /\ Prefix(s, n) \in Seq(S)
           /\ Len(Prefix(s, n)) = Least(n, Len(s))
           /\ \A i \in 1 .. Least(n, Len(s)) : Prefix(s, n)[i] = s[i]
<1> DEFINE m == Least(n, Len(s))
<1>1. m \in Nat /\ m <= Len(s) /\ Len(s) \in Nat
  BY LeastIs, LenProperties
<1>2. \A i \in 1 .. Len(s) : s[i] \in S
  BY ElementOfSeq
<1> HIDE DEF m
<1>3. \A i \in 1 .. m : s[i] \in S
  BY <1>1, <1>2
<1>4. /\ SubSeq(s, 1, m) \in Seq(S)
      /\ Len(SubSeq(s, 1, m)) = IF 1 <= m THEN m - 1 + 1 ELSE 0
      /\ \A i \in 1 .. m - 1 + 1 : SubSeq(s, 1, m)[i] = s[1 + i - 1]
  BY <1>1, <1>3, SubSeqProperties
<1>5. /\ SubSeq(s, 1, m) \in Seq(S)
      /\ Len(SubSeq(s, 1, m)) = m
      /\ \A i \in 1 .. m : SubSeq(s, 1, m)[i] = s[i]
  BY <1>1, <1>4
<1> QED
  BY <1>5 DEF Prefix, m

\* memcpy() over the beginning of an array.
LEMMA CopyKeeps ==
    ASSUME NEW n \in Nat, NEW S, NEW buffer \in [1 .. n -> S], NEW s \in Seq(S)
    PROVE  /\ Over(buffer, s) \in [1 .. n -> S]
           /\ \A i \in 1 .. n :
                 Over(buffer, s)[i] = IF i <= Len(s) THEN s[i] ELSE buffer[i]
<1>1. buffer \in Seq(S) /\ Len(buffer) = n
  BY ArrayIsSeq
<1>2. /\ Over(buffer, s) \in Seq(S) /\ Len(Over(buffer, s)) = n
      /\ \A i \in 1 .. n : Over(buffer, s)[i] = IF i <= Len(s) THEN s[i] ELSE buffer[i]
  BY <1>1, OverKeeps
<1> QED
  BY <1>2, LenProperties

LEMMA LeastPlace ==
    ASSUME NEW T, T \subseteq Nat, T # {}
    PROVE  \E i \in T : \A j \in T : i <= j
<1> DEFINE R == OpToRel(<, Nat)
<1>1. IsWellFoundedOn(R, Nat)
  BY NatLessThanWellFounded, Zenon
<1>2. ASSUME NEW y \in Nat, NEW x \in Nat, y < x
      PROVE  <<y, x>> \in R
  BY <1>2, Zenon DEF OpToRel
<1> HIDE DEF R
<1>3. PICK x \in T : \A y \in T : ~(<<y, x>> \in R)
  BY <1>1, WFMin
<1>4. x \in Nat
  BY <1>3
<1>5. ASSUME NEW y \in T PROVE x <= y
  <2>1. y \in Nat /\ ~(y < x)
    BY <1>2, <1>3, <1>4
  <2> QED
    BY <2>1, <1>4
<1> QED
  BY <1>5

-----------------------------------------------------------------------------
\* Shape holds initially, and every step keeps it.
LEMMA InitShape == Init => Shape
<1> SUFFICES ASSUME Init PROVE Shape
  OBVIOUS
<1>1. << >> \in Seq(Node) /\ Len(<< >>) = 0
  BY EmptySeq
<1>2. batch \in Seq(Node) /\ (~express => Len(batch) = BatchMax)
  <2>1. CASE express
    BY <2>1, <1>1 DEF Init
  <2>2. CASE ~express
    <3>1. batch \in [1 .. BatchMax -> Garbage]
      BY <2>2 DEF Init
    <3>2. batch \in [1 .. BatchMax -> Node]
      BY <3>1, Memory
    <3> QED
      BY <3>2, Sizes, ArrayIsSeq
  <2> QED
    BY <2>1, <2>2
<1>3. cached \in [1 .. ScanMax -> Node] /\ nodes \in [1 .. NodesMax -> Node]
  BY Memory DEF Init
<1>4. SensorTyped /\ ThreadTyped
  <2>1. SensorTyped
    <3>1. sent \in 0 .. Len(Stream)
      BY StreamTyped DEF Init
    <3> QED
      BY <3>1, Zenon DEF Init, SensorTyped
  <2>2. pos \in 1 .. BatchMax + 1 /\ count \in 0 .. BatchMax /\ 0 < ScanMax /\ 0 <= BatchMax
    BY Sizes DEF Init
  <2>3. cache = "discard" /\ incoming = << >> /\ scan = << >> /\ previous = << >>
    BY DEF Init
  <2>4. ThreadTyped
    BY <1>1, <1>2, <2>2, <2>3 DEF ThreadTyped
  <2> QED
    BY <2>1, <2>4
<1>5. DriverTyped /\ DisplayTyped
  <2>1. cachedCount \in 0 .. ScanMax - 1 /\ wanted \in 0 .. NodesMax
    BY Sizes DEF Init
  <2> QED
    BY <1>3, <2>1, Zenon DEF Init, DriverTyped, DisplayTyped
<1>6. ThreadShape /\ DriverShape
  BY <1>2 DEF Init, ThreadShape, DriverShape, Sorting
<1> QED
  BY <1>4, <1>5, <1>6 DEF Shape, TypeOK

\* The steps of the cache thread that touch its buffers.
LEMMA ReceiveShape == Shape /\ Receive => Shape'
<1> SUFFICES ASSUME Shape, Receive PROVE Shape'
  OBVIOUS
<1> DEFINE new == Stream[sent']
<1>1. new \in Node /\ sent' \in 0 .. Len(Stream)
  BY StreamTyped DEF Shape, TypeOK, SensorTyped, Receive, Emit
<1> HIDE DEF new
<1>2. incoming \in Seq(Node) /\ incoming' = Append(incoming, new)
  BY DEF Shape, TypeOK, ThreadTyped, Receive, new
<1>3. incoming' \in Seq(Node) /\ Len(incoming') = Len(incoming) + 1
  BY <1>1, <1>2, AppendProperties
<1>4. Len(incoming) \in Nat /\ Len(incoming) < BatchMax
  <2>1. Len(incoming) \in Nat
    BY <1>2, LenProperties
  <2>2. Len(incoming) < (IF express THEN BatchMax ELSE count) /\ count \in 0 .. BatchMax
    BY DEF Shape, TypeOK, ThreadTyped, Receive
  <2> QED
    BY <2>1, <2>2, Sizes
<1>5. Len(incoming') <= BatchMax
  BY <1>3, <1>4, Sizes
<1>6. SensorTyped' /\ ThreadTyped'
  BY <1>1, <1>3, <1>5
  DEF Shape, TypeOK, SensorTyped, ThreadTyped, Receive, Emit, Waiting
<1>7. DriverTyped' /\ DisplayTyped'
  BY DEF Shape, TypeOK, DriverTyped, DisplayTyped, Receive, driver, display
<1>8. ThreadShape' /\ DriverShape'
  BY DEF Shape, ThreadShape, DriverShape, Sorting, Receive, Emit, Waiting, driver, display
<1> QED
  BY <1>6, <1>7, <1>8 DEF Shape, TypeOK

\* local_buf after a wait for nodes.
LEMMA BatchFilled ==
    ASSUME Shape, ~express, batch' = Over(batch, incoming)
    PROVE  batch' \in Seq(Node) /\ Len(batch') = BatchMax
<1>1. batch \in Seq(Node) /\ incoming \in Seq(Node) /\ Len(batch) = BatchMax
  BY DEF Shape, TypeOK, ThreadTyped, ThreadShape
<1> QED
  BY <1>1, OverKeeps

\* What is common to the ends of a wait.
LEMMA WaitOver ==
    ASSUME Shape, Waiting, AfterWait, UNCHANGED <<scan, sensor, driver, display>>,
           lost' \in BOOLEAN /\ replayed' \in BOOLEAN,
           batch' \in Seq(Node), count' \in 0 .. BatchMax,
           previous' \in Seq(Node), Len(previous') <= BatchMax,
           ~express => Len(batch') = BatchMax /\ previous' = << >>,
           cache = "collect" => count' <= Len(batch')
    PROVE  Shape'
<1>1. << >> \in Seq(Node) /\ Len(<< >>) = 0
  BY EmptySeq
<1>2. /\ cache' \in {"collect", "ended", "sort"} /\ incoming' = << >>
      /\ pos' = pos \/ pos' = 1
      /\ cache' = "sort" => cache = "collect" /\ pos' = 1
  BY DEF AfterWait, LoopHead, Waiting
<1>3. ThreadTyped'
  <2>1. pos' \in 1 .. BatchMax + 1 /\ 0 <= BatchMax
    BY <1>2, Sizes DEF Shape, TypeOK, ThreadTyped
  <2>2. scan' \in Seq(Node) /\ Len(scan') < ScanMax
    BY DEF Shape, TypeOK, ThreadTyped
  <2> QED
    BY <1>1, <1>2, <2>1, <2>2 DEF ThreadTyped
<1>4. SensorTyped' /\ DriverTyped' /\ DisplayTyped'
  BY DEF Shape, TypeOK, SensorTyped, DriverTyped, DisplayTyped, sensor, driver, display
<1>5. ThreadShape'
  <2> DEFINE c == count'
  <2>1. c \in Nat
    BY Sizes
  <2> HIDE DEF c
  <2>2. 1 <= c + 1
    BY <2>1
  <2>3. cache' = "sort" => pos' <= count' + 1
    BY <1>2, <2>2, Zenon DEF c
  <2> QED
    BY <1>2, <2>3 DEF ThreadShape, Sorting, sensor
<1>6. DriverShape'
  BY <1>2 DEF Shape, DriverShape, Waiting, driver, display
<1> QED
  BY <1>3, <1>4, <1>5, <1>6 DEF Shape, TypeOK

LEMMA CollectNodesShape == Shape /\ CollectNodes => Shape'
<1> SUFFICES ASSUME Shape, CollectNodes PROVE Shape'
  OBVIOUS
<1>1. batch' \in Seq(Node) /\ Len(batch') = BatchMax
  BY BatchFilled DEF CollectNodes
<1>2. Len(incoming) \in 0 .. BatchMax
  <2>1. incoming \in Seq(Node) /\ Len(incoming) <= BatchMax
    BY DEF Shape, TypeOK, ThreadTyped
  <2> QED
    BY <2>1, LenProperties, Sizes
<1>3. count' \in 0 .. BatchMax /\ count' <= Len(batch')
  BY <1>1, <1>2, Sizes DEF CollectNodes
<1>4. /\ previous' \in Seq(Node) /\ Len(previous') <= BatchMax
      /\ ~express /\ previous' = << >> /\ lost' \in BOOLEAN /\ replayed' \in BOOLEAN
  BY DEF Shape, TypeOK, SensorTyped, ThreadTyped, ThreadShape, CollectNodes
<1>5. Waiting /\ AfterWait /\ UNCHANGED <<scan, sensor, driver, display>>
  BY DEF CollectNodes
<1> QED
  BY <1>1, <1>3, <1>4, <1>5, WaitOver

LEMMA TimeOutNodesShape == Shape /\ TimeOutNodes => Shape'
<1> SUFFICES ASSUME Shape, TimeOutNodes PROVE Shape'
  OBVIOUS
<1>1. batch' \in Seq(Node) /\ Len(batch') = BatchMax
  BY BatchFilled DEF TimeOutNodes
<1>2. count' \in 0 .. BatchMax /\ count' <= Len(batch')
  BY <1>1, Sizes DEF Shape, TypeOK, ThreadTyped, TimeOutNodes
<1>3. /\ previous' \in Seq(Node) /\ Len(previous') <= BatchMax
      /\ ~express /\ previous' = << >> /\ lost' \in BOOLEAN /\ replayed' \in BOOLEAN
  BY DEF Shape, TypeOK, SensorTyped, ThreadTyped, ThreadShape, TimeOutNodes
<1>4. Waiting /\ AfterWait /\ UNCHANGED <<scan, sensor, driver, display>>
  BY DEF TimeOutNodes
<1> QED
  BY <1>1, <1>2, <1>3, <1>4, WaitOver

LEMMA CollectCapsuleShape == Shape /\ CollectCapsule => Shape'
<1> SUFFICES ASSUME Shape, CollectCapsule PROVE Shape'
  OBVIOUS
<1>1. Waiting /\ AfterWait /\ UNCHANGED <<scan, sensor, driver, display>> /\ express
  BY DEF CollectCapsule
<1>2. /\ batch \in Seq(Node) /\ incoming \in Seq(Node) /\ previous \in Seq(Node)
      /\ Len(incoming) <= BatchMax /\ Len(previous) <= BatchMax
      /\ count \in 0 .. BatchMax /\ lost' \in BOOLEAN /\ replayed' \in BOOLEAN
  BY DEF Shape, TypeOK, SensorTyped, ThreadTyped, CollectCapsule
<1>3. CASE cache = "discard"
  <2>1. UNCHANGED <<batch, count, previous>>
    BY <1>3 DEF CollectCapsule
  <2> QED
    BY <1>1, <1>2, <1>3, <2>1, WaitOver
<1>4. CASE cache # "discard"
  <2>1. batch' = previous /\ count' = Len(previous) /\ previous' = incoming
    BY <1>4 DEF CollectCapsule
  <2>2. Len(previous) \in Nat
    BY <1>2, LenProperties
  <2>3. count' \in 0 .. BatchMax /\ count' <= Len(batch')
    BY <1>2, <2>1, <2>2, Sizes
  <2> QED
    BY <1>1, <1>2, <2>1, <2>3, WaitOver
<1> QED
  BY <1>3, <1>4

LEMMA CollectFirstCapsuleShape == Shape /\ CollectFirstCapsule => Shape'
<1> SUFFICES ASSUME Shape, CollectFirstCapsule PROVE Shape'
  OBVIOUS
<1>1. Waiting /\ AfterWait /\ UNCHANGED <<scan, sensor, driver, display>> /\ express
  BY DEF CollectFirstCapsule, Waiting
<1>2. << >> \in Seq(Node) /\ Len(<< >>) = 0 /\ 0 \in 0 .. BatchMax
  BY EmptySeq, Sizes
<1>3. /\ incoming \in Seq(Node) /\ Len(incoming) <= BatchMax
      /\ lost' \in BOOLEAN /\ replayed' \in BOOLEAN
      /\ batch' = << >> /\ count' = 0 /\ previous' = incoming
  BY DEF Shape, TypeOK, SensorTyped, ThreadTyped, CollectFirstCapsule
<1> QED
  BY <1>1, <1>2, <1>3, WaitOver

LEMMA DropCapsuleShape == Shape /\ DropCapsule => Shape'
<1> SUFFICES ASSUME Shape, DropCapsule PROVE Shape'
  OBVIOUS
<1>1. << >> \in Seq(Node) /\ Len(<< >>) = 0
  BY EmptySeq
<1>2. /\ cache' \in {"collect", "ended"} /\ incoming' = << >> /\ lost' \in BOOLEAN /\ replayed' \in BOOLEAN
      /\ express /\ previous' \in {<< >>, previous} /\ Waiting
  BY DEF DropCapsule, LoopHead, Shape, TypeOK, SensorTyped
<1>3. UNCHANGED <<batch, count, pos, scan, sensor, driver, display>>
  BY DEF DropCapsule
<1>4. ThreadTyped'
  <2>1. /\ incoming \in Seq(Node) /\ Len(incoming) <= BatchMax
        /\ previous \in Seq(Node) /\ Len(previous) <= BatchMax /\ 0 <= BatchMax
    BY Sizes DEF Shape, TypeOK, ThreadTyped
  <2>2. /\ incoming' \in Seq(Node) /\ Len(incoming') <= BatchMax
        /\ previous' \in Seq(Node) /\ Len(previous') <= BatchMax
    BY <1>1, <1>2, <1>3, <2>1
  <2> QED
    BY <1>2, <1>3, <2>2 DEF Shape, TypeOK, ThreadTyped
<1>5. SensorTyped' /\ DriverTyped' /\ DisplayTyped'
  BY <1>2, <1>3
  DEF Shape, TypeOK, SensorTyped, DriverTyped, DisplayTyped, sensor, driver, display
<1>6. ThreadShape' /\ DriverShape'
  BY <1>2, <1>3
  DEF Shape, ThreadShape, DriverShape, Sorting, Waiting, sensor, driver, display
<1> QED
  BY <1>4, <1>5, <1>6 DEF Shape, TypeOK

LEMMA EndOnErrorShape == Shape /\ EndOnError => Shape'
<1> SUFFICES ASSUME Shape, EndOnError PROVE Shape'
  OBVIOUS
<1>1. << >> \in Seq(Node) /\ Len(<< >>) = 0
  BY EmptySeq
<1>2. /\ cache' \in {"collect", "ended"} /\ incoming' \in {<< >>, incoming}
      /\ isScanning' \in BOOLEAN /\ Waiting
  BY DEF EndOnError, LoopHead, Shape, TypeOK, DriverTyped
<1>3. UNCHANGED <<batch, count, pos, scan, previous, sensor, lock, signalled, cached,
                  cachedCount, display, lost, replayed>>
  BY DEF EndOnError
<1>4. ThreadTyped'
  <2>1. /\ incoming \in Seq(Node) /\ Len(incoming) <= BatchMax
        /\ previous \in Seq(Node) /\ Len(previous) <= BatchMax /\ 0 <= BatchMax
    BY Sizes DEF Shape, TypeOK, ThreadTyped
  <2>2. /\ incoming' \in Seq(Node) /\ Len(incoming') <= BatchMax
        /\ previous' \in Seq(Node) /\ Len(previous') <= BatchMax
    BY <1>1, <1>2, <1>3, <2>1
  <2> QED
    BY <1>2, <1>3, <2>2 DEF Shape, TypeOK, ThreadTyped
<1>5. SensorTyped' /\ DriverTyped' /\ DisplayTyped'
  BY <1>2, <1>3 DEF Shape, TypeOK, SensorTyped, DriverTyped, DisplayTyped, sensor, display
<1>6. ThreadShape' /\ DriverShape'
  BY <1>2, <1>3 DEF Shape, ThreadShape, DriverShape, Sorting, Waiting, sensor, display
<1> QED
  BY <1>4, <1>5, <1>6 DEF Shape, TypeOK

-----------------------------------------------------------------------------
\* What Sort does: it goes on to the first sync bit that ends a revolution, or to the
\* end of the batch.
Continued(end) ==
    (IF pos <= count /\ Sync(batch[pos]) /\ end > pos THEN << >> ELSE scan)
       \o SubSeq(batch, pos, end - 1)

Sorted(end) ==
    /\ end \in pos .. count + 1
    /\ \A i \in pos .. end - 1 : Sync(batch[i]) => i = pos /\ ~BeginsWithSync(scan)
    /\ end <= count => Sync(batch[end])
    /\ scan' = NotFull(Continued(end))
    /\ pos' = end
    /\ end = count + 1 => LoopHead
    /\ end <= count => /\ cache' = IF BeginsWithSync(scan') THEN "lock" ELSE "sort"
                       /\ UNCHANGED incoming

LEMMA SortGoesOn == Shape /\ Sort => \E end \in Nat : Sorted(end)
<1> SUFFICES ASSUME Shape, Sort PROVE \E end \in Nat : Sorted(end)
  OBVIOUS
<1> DEFINE next == { i \in pos .. count : Sync(batch[i]) /\ (i > pos \/ BeginsWithSync(scan)) }
           end == IF next = {} THEN count + 1 ELSE CHOOSE i \in next : \A j \in next : i <= j
<1>1. pos \in Nat /\ count \in Nat /\ pos <= count + 1
  BY Sizes DEF Shape, TypeOK, ThreadTyped, ThreadShape, Sorting, Sort
<1>2. /\ scan' = NotFull(Continued(end)) /\ pos' = end
      /\ next = {} => LoopHead
      /\ next # {} => /\ cache' = IF BeginsWithSync(scan') THEN "lock" ELSE "sort"
                      /\ UNCHANGED incoming
  BY Zenon DEF Sort, Continued
<1>3. CASE next = {}
  <2>1. end = count + 1
    BY <1>3
  <2>2. \A i \in pos .. count : Sync(batch[i]) => ~(i > pos) /\ ~BeginsWithSync(scan)
    BY <1>3
  <2> HIDE DEF next, end
  <2>3. \A i \in pos .. end - 1 : Sync(batch[i]) => i = pos /\ ~BeginsWithSync(scan)
    BY <2>1, <2>2, <1>1
  <2>4. end \in Nat /\ end \in pos .. count + 1 /\ ~(end <= count)
    BY <2>1, <1>1
  <2> QED
    BY <1>2, <1>3, <2>3, <2>4 DEF Sorted
<1>4. CASE next # {}
  <2>1. next \subseteq Nat
    BY <1>1
  <2>2. \E i \in next : \A j \in next : i <= j
    BY <1>4, <2>1, LeastPlace
  <2>3. end \in next /\ \A j \in next : end <= j
    BY <1>4, <2>2
  <2>4. \A i \in pos .. count : Sync(batch[i]) /\ (i > pos \/ BeginsWithSync(scan)) => i \in next
    OBVIOUS
  <2>5. end \in pos .. count /\ Sync(batch[end])
    BY <2>3
  <2> HIDE DEF next, end
  <2>6. \A i \in pos .. end - 1 : Sync(batch[i]) => i = pos /\ ~BeginsWithSync(scan)
    BY <1>1, <2>3, <2>4, <2>5
  <2>7. end \in Nat /\ end \in pos .. count + 1 /\ end # count + 1
    BY <2>5, <1>1
  <2> QED
    BY <1>2, <1>4, <2>5, <2>6, <2>7 DEF Sorted
<1> QED
  BY <1>3, <1>4

\* What local_scan then holds.
LEMMA Continues ==
    ASSUME Shape, cache = "sort", NEW end \in pos .. count + 1
    PROVE  LET kept == IF pos <= count /\ Sync(batch[pos]) /\ end > pos THEN << >> ELSE scan
               all == Len(kept) + (end - pos)
           IN /\ NotFull(Continued(end)) \in Seq(Node)
              /\ Len(NotFull(Continued(end))) = Least(ScanMax - 1, all)
              /\ \A k \in 1 .. Least(ScanMax - 1, all) :
                    NotFull(Continued(end))[k] =
                      IF k <= Len(kept) THEN kept[k] ELSE batch[pos + (k - Len(kept)) - 1]
<1> DEFINE kept == IF pos <= count /\ Sync(batch[pos]) /\ end > pos THEN << >> ELSE scan
           rest == SubSeq(batch, pos, end - 1)
           whole == kept \o rest
<1>1. pos \in Nat \ {0} /\ count \in Nat /\ count <= Len(batch) /\ batch \in Seq(Node)
  BY Sizes DEF Shape, TypeOK, ThreadTyped
<1>2. Len(batch) \in Nat /\ \A i \in 1 .. Len(batch) : batch[i] \in Node
  BY <1>1, LenProperties, ElementOfSeq
<1>3. end \in Int /\ pos \in Int /\ end - 1 \in Int
  BY <1>1
<1>4. \A i \in pos .. end - 1 : batch[i] \in Node
  BY <1>1, <1>2
<1>5. /\ rest \in Seq(Node)
      /\ Len(rest) = IF pos <= end - 1 THEN end - 1 - pos + 1 ELSE 0
      /\ \A i \in 1 .. end - 1 - pos + 1 : rest[i] = batch[pos + i - 1]
  BY <1>3, <1>4, SubSeqProperties
<1>6. Len(rest) = end - pos /\ \A i \in 1 .. end - pos : rest[i] = batch[pos + i - 1]
  <2> HIDE DEF rest
  <2> QED
    BY <1>3, <1>5
<1>7. kept \in Seq(Node)
  BY EmptySeq DEF Shape, TypeOK, ThreadTyped
<1> HIDE DEF kept, rest
<1>8. Len(kept) \in Nat
  BY <1>7, LenProperties
<1>9. /\ whole \in Seq(Node) /\ Len(whole) = Len(kept) + Len(rest)
      /\ \A i \in 1 .. Len(kept) + Len(rest) :
            whole[i] = IF i <= Len(kept) THEN kept[i] ELSE rest[i - Len(kept)]
  BY <1>5, <1>7, ConcatProperties
<1> DEFINE room == ScanMax - 1
           all == Len(kept) + (end - pos)
<1>10. room \in Nat
  BY Sizes
<1> HIDE DEF whole, room
<1>11. /\ Prefix(whole, room) \in Seq(Node)
       /\ Len(Prefix(whole, room)) = Least(room, Len(whole))
       /\ \A i \in 1 .. Least(room, Len(whole)) : Prefix(whole, room)[i] = whole[i]
  BY <1>9, <1>10, PrefixIs
<1>12. Len(whole) = all /\ all \in Nat
  BY <1>3, <1>6, <1>8, <1>9
<1>13. Least(room, all) \in Nat /\ Least(room, all) <= all
  BY <1>10, <1>12, LeastIs
<1> HIDE DEF all
<1>14. \A k \in 1 .. all : whole[k] = IF k <= Len(kept) THEN kept[k] ELSE rest[k - Len(kept)]
  BY <1>9, <1>12
<1>15. \A k \in 1 .. all : k > Len(kept) => rest[k - Len(kept)] = batch[pos + (k - Len(kept)) - 1]
  BY <1>3, <1>6, <1>8 DEF all
<1>15a. \A k \in 1 .. Least(room, all) : k \in 1 .. all /\ k \in Int
  BY <1>12, <1>13
<1>16. \A k \in 1 .. Least(room, all) :
          /\ Prefix(whole, room)[k] = whole[k]
          /\ whole[k] = IF k <= Len(kept) THEN kept[k] ELSE batch[pos + (k - Len(kept)) - 1]
  <2> SUFFICES ASSUME NEW k \in 1 .. Least(room, all)
               PROVE  /\ Prefix(whole, room)[k] = whole[k]
                      /\ whole[k] = IF k <= Len(kept) THEN kept[k] ELSE batch[pos + (k - Len(kept)) - 1]
    OBVIOUS
  <2>1. k \in 1 .. all /\ k \in Int
    BY <1>15a
  <2>2. Prefix(whole, room)[k] = whole[k]
    BY <1>11, <1>12
  <2>3. CASE k <= Len(kept)
    BY <1>14, <2>1, <2>2, <2>3, Zenon
  <2>4. CASE ~(k <= Len(kept))
    <3>1. k > Len(kept)
      BY <1>8, <2>1, <2>4
    <3>2. whole[k] = rest[k - Len(kept)]
      BY <1>14, <2>1, <2>4, Zenon
    <3>3. rest[k - Len(kept)] = batch[pos + (k - Len(kept)) - 1]
      BY <1>15, <2>1, <3>1, Zenon
    <3> QED
      BY <2>2, <2>4, <3>2, <3>3, Zenon
  <2> QED
    BY <2>3, <2>4
<1>17. NotFull(Continued(end)) = Prefix(whole, room)
  BY DEF NotFull, Continued, whole, kept, rest, room
<1> QED
  BY <1>11, <1>12, <1>16, <1>17, Zenon DEF kept, room, all

LEMMA SortShape == Shape /\ Sort => Shape'
<1> SUFFICES ASSUME Shape, Sort PROVE Shape'
  OBVIOUS
<1>1. PICK end \in Nat : Sorted(end)
  BY SortGoesOn
<1>2. /\ cache = "sort" /\ incoming = << >>
      /\ UNCHANGED <<batch, count, previous, sensor, driver, display, lost, replayed>>
  BY DEF Sort, Shape, ThreadShape, Sorting
<1>3. /\ end \in pos .. count + 1 /\ scan' = NotFull(Continued(end)) /\ pos' = end
      /\ end <= count => Sync(batch[end])
  BY <1>1 DEF Sorted
<1>4. /\ pos \in 1 .. BatchMax + 1 /\ count \in 0 .. BatchMax
      /\ pos <= count + 1 /\ count <= Len(batch)
  BY <1>2 DEF Shape, TypeOK, ThreadTyped, ThreadShape, Sorting
<1>5. end \in 1 .. BatchMax + 1 /\ end <= count + 1 /\ (end = count + 1 \/ end <= count)
  BY <1>3, <1>4, Sizes
<1>6. scan' \in Seq(Node) /\ Len(scan') < ScanMax
  <2> DEFINE kept == IF pos <= count /\ Sync(batch[pos]) /\ end > pos THEN << >> ELSE scan
             all == Len(kept) + (end - pos)
             after == scan'
  <2>1. after \in Seq(Node) /\ Len(after) = Least(ScanMax - 1, all)
    BY <1>2, <1>3, Continues
  <2>2. Len(after) \in Nat
    BY <2>1, LenProperties
  <2>2a. kept \in Seq(Node)
    BY EmptySeq DEF Shape, TypeOK, ThreadTyped
  <2> HIDE DEF kept
  <2>2b. all \in Nat
    <3>1. end - pos \in Nat
      BY <1>3, <1>4
    <3>2. Len(kept) \in Nat
      BY <2>2a, LenProperties
    <3> QED
      BY <3>1, <3>2
  <2> HIDE DEF all, after
  <2>3. Len(after) <= ScanMax - 1
    <3>1. ScanMax - 1 \in Nat
      BY Sizes
    <3> QED
      BY <2>1, <2>2b, <3>1, LeastIs
  <2>4. Len(after) < ScanMax
    BY <2>2, <2>3, Sizes
  <2> QED
    BY <2>1, <2>4 DEF after
<1>7. /\ cache' \in {"collect", "ended", "sort", "lock"} /\ incoming' = << >>
      /\ cache' \in {"sort", "lock"} => end <= count
      /\ cache' = "lock" => BeginsWithSync(scan') /\ Sync(batch[end])
  BY <1>1, <1>2, <1>5 DEF Sorted, LoopHead
<1>8. ThreadTyped'
  <2>1. << >> \in Seq(Node) /\ Len(<< >>) <= BatchMax
    BY EmptySeq, Sizes
  <2> QED
    BY <1>2, <1>3, <1>4, <1>5, <1>6, <1>7, <2>1 DEF Shape, TypeOK, ThreadTyped
<1>9. SensorTyped' /\ DriverTyped' /\ DisplayTyped'
  BY <1>2 DEF Shape, TypeOK, SensorTyped, DriverTyped, DisplayTyped, sensor, driver, display
<1>10. BeginsWithSync(scan)' <=> BeginsWithSync(scan')
  BY DEF BeginsWithSync, Sync
<1>11. ThreadShape'
  BY <1>2, <1>3, <1>4, <1>5, <1>7, <1>10 DEF Shape, ThreadShape, Sorting, Sync, sensor
<1>12. DriverShape'
  BY <1>2, <1>7 DEF Shape, DriverShape, driver, display
<1> QED
  BY <1>8, <1>9, <1>11, <1>12 DEF Shape, TypeOK

LEMMA PublishNodesShape == Shape /\ PublishNodes => Shape'
<1> SUFFICES ASSUME Shape, PublishNodes PROVE Shape'
  OBVIOUS
<1>1. cached' \in [1 .. ScanMax -> Node]
  BY CopyKeeps, Sizes DEF Shape, TypeOK, ThreadTyped, DriverTyped, PublishNodes
<1>2. ThreadTyped' /\ ThreadShape'
  BY DEF Shape, TypeOK, ThreadTyped, ThreadShape, Sorting, PublishNodes, sensor
<1>3. SensorTyped' /\ DisplayTyped'
  BY DEF Shape, TypeOK, SensorTyped, DisplayTyped, PublishNodes, sensor, display
<1>4. DriverTyped'
  BY <1>1 DEF Shape, TypeOK, DriverTyped, PublishNodes
<1>5. DriverShape'
  BY DEF Shape, DriverShape, PublishNodes, display
<1> QED
  BY <1>2, <1>3, <1>4, <1>5 DEF Shape, TypeOK

LEMMA PublishCountShape == Shape /\ PublishCount => Shape'
<1> SUFFICES ASSUME Shape, PublishCount PROVE Shape'
  OBVIOUS
<1>1. scan \in Seq(Node) /\ Len(scan) < ScanMax
  BY DEF Shape, TypeOK, ThreadTyped
<1>2. Len(scan) \in 0 .. ScanMax - 1
  BY <1>1, LenProperties, Sizes
<1>3. << >> \in Seq(Node) /\ Len(<< >>) < ScanMax
  BY EmptySeq, Sizes
<1>4. cache = "copied" /\ cache' = "sort" /\ scan' = << >>
  BY DEF PublishCount
<1>5. UNCHANGED <<incoming, batch, count, pos, previous>> /\ count <= Len(batch)
  BY <1>4 DEF PublishCount, Shape, ThreadShape, Sorting
<1>6. ThreadTyped' /\ ThreadShape'
  BY <1>3, <1>4, <1>5
  DEF Shape, TypeOK, ThreadTyped, ThreadShape, Sorting, PublishCount, sensor
<1>7. SensorTyped' /\ DisplayTyped'
  BY DEF Shape, TypeOK, SensorTyped, DisplayTyped, PublishCount, sensor, display
<1>8. DriverTyped'
  BY <1>2 DEF Shape, TypeOK, DriverTyped, PublishCount
<1>9. DriverShape'
  BY DEF Shape, DriverShape, PublishCount, display
<1> QED
  BY <1>6, <1>7, <1>8, <1>9 DEF Shape, TypeOK

\* The client's steps, and those of the world around.
LEMMA GrabShape == Shape /\ Grab => Shape'
<1> SUFFICES ASSUME Shape, Grab PROVE Shape'
  OBVIOUS
<1> DEFINE n == Least(wanted, cachedCount)
<1>1. /\ wanted \in 0 .. NodesMax /\ cachedCount \in 0 .. ScanMax - 1
      /\ cached \in [1 .. ScanMax -> Node] /\ nodes \in [1 .. NodesMax -> Node]
  BY DEF Shape, TypeOK, DriverTyped, DisplayTyped
<1>2. n \in Nat /\ n \in 0 .. NodesMax
  BY <1>1, Sizes DEF Least
<1>3. nodes' = Over(nodes, Prefix(cached, n)) /\ wanted' = n /\ cachedCount' = 0
  BY DEF Grab
<1> HIDE DEF n
<1>4. cached \in Seq(Node)
  BY <1>1, ArrayIsSeq, Sizes
<1>5. Prefix(cached, n) \in Seq(Node)
  BY <1>2, <1>4, PrefixIs
<1>6. nodes' \in [1 .. NodesMax -> Node]
  BY <1>1, <1>3, <1>5, CopyKeeps, Sizes
<1>7. 0 \in 0 .. ScanMax - 1
  BY Sizes
<1>8. ThreadTyped' /\ ThreadShape'
  BY DEF Shape, TypeOK, ThreadTyped, ThreadShape, Sorting, Grab, thread, sensor
<1>9. SensorTyped' /\ DriverTyped'
  BY <1>3, <1>7 DEF Shape, TypeOK, SensorTyped, DriverTyped, Grab, thread, sensor
<1>10. DisplayTyped'
  BY <1>2, <1>3, <1>6 DEF Shape, TypeOK, DisplayTyped, Grab, Client
<1>11. DriverShape'
  BY <1>3 DEF Shape, DriverShape, Grab, thread
<1> QED
  BY <1>8, <1>9, <1>10, <1>11 DEF Shape, TypeOK

\* The steps that only move the client, or the signal, the device and the event.
LEMMA OthersShape ==
    ASSUME Shape,
           \/ Lose \/ TakeEvent \/ AwaitEvent \/ EventTimesOut \/ NothingToGrab \/ Show
           \/ StopScanning \/ Join \/ StopSensor \/ Dispose \/ PressCtrlC \/ Unplug
    PROVE  Shape'
<1>1. /\ UNCHANGED <<express, thread, lock, cached, cachedCount, nodes>>
      /\ sent' \in {sent, sent + 1} /\ (sent' # sent => sent < Len(Stream))
  BY DEF Lose, TakeEvent, AwaitEvent, EventTimesOut, NothingToGrab, Show, StopScanning,
         Join, StopSensor, Dispose, PressCtrlC, Unplug, Emit, sensor, driver, display
<1>2. ThreadTyped' /\ ThreadShape'
  BY <1>1 DEF Shape, TypeOK, ThreadTyped, ThreadShape, Sorting, thread
<1>3. SensorTyped'
  <2>1. sent' \in 0 .. Len(Stream)
    BY <1>1, StreamTyped DEF Shape, TypeOK, SensorTyped
  <2>2. /\ present' \in BOOLEAN /\ spinning' \in BOOLEAN /\ lost' \in BOOLEAN /\ replayed' \in BOOLEAN
        /\ express' \in BOOLEAN
    BY DEF Shape, TypeOK, SensorTyped, Lose, TakeEvent, AwaitEvent, EventTimesOut,
           NothingToGrab, Show, StopScanning, Join, StopSensor, Dispose, PressCtrlC, Unplug,
           Emit, sensor
  <2> QED
    BY <2>1, <2>2 DEF SensorTyped
<1>4. DriverTyped'
  <2>1. isScanning' \in BOOLEAN /\ signalled' \in BOOLEAN
    BY DEF Shape, TypeOK, DriverTyped, Lose, TakeEvent, AwaitEvent, EventTimesOut,
           NothingToGrab, Show, StopScanning, Join, StopSensor, Dispose, PressCtrlC, Unplug,
           driver
  <2> QED
    BY <1>1, <2>1 DEF Shape, TypeOK, DriverTyped
<1>5. DisplayTyped'
  <2>1. /\ first' \in BOOLEAN /\ ctrlC' \in BOOLEAN /\ handled' \in BOOLEAN
        /\ wanted' \in {wanted, 0}
    BY DEF Shape, TypeOK, DisplayTyped, Lose, TakeEvent, AwaitEvent, EventTimesOut,
           NothingToGrab, Show, StopScanning, Join, StopSensor, Dispose, PressCtrlC, Unplug,
           display
  <2>2. wanted' \in 0 .. NodesMax
    BY <2>1, Sizes DEF Shape, TypeOK, DisplayTyped
  <2>3. client' \in {"wait", "waiting", "grab", "show", "stop", "join", "command",
                     "dispose", "done", "crashed"}
    BY DEF Shape, TypeOK, DisplayTyped, Lose, TakeEvent, AwaitEvent, EventTimesOut,
           NothingToGrab, Show, StopScanning, Join, StopSensor, Dispose, PressCtrlC, Unplug,
           Client, display
  <2> QED
    BY <1>1, <2>1, <2>2, <2>3 DEF Shape, TypeOK, DisplayTyped
<1>6. DriverShape'
  <2>1. client' # "grab" /\ cachedCount > 0 => signalled'
    BY DEF Shape, DriverShape, Lose, TakeEvent, AwaitEvent, EventTimesOut, NothingToGrab,
           Show, StopScanning, Join, StopSensor, Dispose, PressCtrlC, Unplug, Client,
           driver, display
  <2> QED
    BY <1>1, <2>1 DEF Shape, DriverShape, thread
<1> QED
  BY <1>2, <1>3, <1>4, <1>5, <1>6 DEF Shape, TypeOK

LEMMA StepShape == Shape /\ [Next]_vars => Shape'
<1> SUFFICES ASSUME Shape, [Next]_vars PROVE Shape'
  OBVIOUS
<1>1. CASE Receive
  BY <1>1, ReceiveShape
<1>2. CASE CollectNodes
  BY <1>2, CollectNodesShape
<1>3. CASE TimeOutNodes
  BY <1>3, TimeOutNodesShape
<1>4. CASE CollectCapsule
  BY <1>4, CollectCapsuleShape
<1>4a. CASE CollectFirstCapsule
  BY <1>4a, CollectFirstCapsuleShape
<1>5. CASE DropCapsule
  BY <1>5, DropCapsuleShape
<1>6. CASE EndOnError
  BY <1>6, EndOnErrorShape
<1>7. CASE Sort
  BY <1>7, SortShape
<1>8. CASE PublishNodes
  BY <1>8, PublishNodesShape
<1>9. CASE PublishCount
  BY <1>9, PublishCountShape
<1>10. CASE Grab
  BY <1>10, GrabShape
<1>11. CASE \/ Lose \/ TakeEvent \/ AwaitEvent \/ EventTimesOut \/ NothingToGrab \/ Show
            \/ StopScanning \/ Join \/ StopSensor \/ Dispose \/ PressCtrlC \/ Unplug
  BY <1>11, OthersShape
<1>12. CASE UNCHANGED vars
  <2>1. UNCHANGED <<express, sent, present, spinning, lost, replayed>>
    BY <1>12 DEF vars, sensor
  <2>2. UNCHANGED <<cache, incoming, batch, count, pos, scan, previous>>
    BY <1>12 DEF vars, thread
  <2>3. UNCHANGED <<isScanning, lock, signalled, cached, cachedCount>>
    BY <1>12 DEF vars, driver
  <2>4. UNCHANGED <<client, first, nodes, wanted, ctrlC, handled>>
    BY <1>12 DEF vars, display
  <2>5. SensorTyped' /\ ThreadTyped' /\ ThreadShape'
    BY <2>1, <2>2 DEF Shape, TypeOK, SensorTyped, ThreadTyped, ThreadShape, Sorting
  <2>6. DriverTyped' /\ DisplayTyped' /\ DriverShape'
    BY <2>2, <2>3, <2>4 DEF Shape, TypeOK, DriverTyped, DisplayTyped, DriverShape
  <2> QED
    BY <2>5, <2>6 DEF Shape, TypeOK
<1> QED
  BY <1>1, <1>2, <1>3, <1>4, <1>4a, <1>5, <1>6, <1>7, <1>8, <1>9, <1>10, <1>11, <1>12
  DEF Next, CacheThread, Display

LEMMA ShapeHolds == Spec => []Shape
BY InitShape, StepShape, PTL DEF Spec

\* Whatever is lost on the line and however the threads interleave, the driver's
\* local_scan and its cache never overflow, nor does the client's array.
THEOREM BuffersHold == Spec => []TypeOK
<1>1. Shape => TypeOK
  BY DEF Shape
<1> QED
  BY <1>1, ShapeHolds, PTL

\* Every scan that the cache thread has published reaches the client or is replaced by a
\* later one: the client never waits for an event beside a scan without its event.
THEOREM ScansAreNotOverlooked == Spec => []NoScanOverlooked
<1>1. Shape => NoScanOverlooked
  BY DEF Shape, DriverShape, NoScanOverlooked
<1> QED
  BY <1>1, ShapeHolds, PTL

-----------------------------------------------------------------------------
(* What the buffers hold while no measurement is lost.                     *)

\* The measurements before those that come in, and those that are sorted.
Before == sent - Len(incoming)
upTo == Before - Len(previous) - (IF Sorting THEN count - pos + 1 ELSE 0)

Follows(s, from) == \A k \in 1 .. Len(s) : s[k] = Stream[from + k]

\* The batch, the last capsule and what comes in follow each other in the stream.
Queued ==
    /\ upTo >= 0
    /\ Follows(incoming, Before)
    /\ Follows(previous, Before - Len(previous))
    /\ Sorting => \A k \in 1 .. count - pos + 1 : batch[pos - 1 + k] = Stream[upTo + k]

\* The last sync bit among the first n measurements.
LastSync(lo, n) ==
    /\ lo \in 1 .. n /\ Sync(Stream[lo])
    /\ \A k \in lo + 1 .. n : ~Sync(Stream[k])

\* local_scan holds what is sorted since the last sync bit, as far as it has room.
Scanned ==
    BeginsWithSync(scan) =>
        \E lo \in Nat : /\ LastSync(lo, upTo)
                        /\ Len(scan) = Least(upTo - lo + 1, ScanMax - 1)
                        /\ Follows(scan, lo - 1)

Copied == cache = "copied" => \A k \in 1 .. Len(scan) : cached[k] = scan[k]

\* All that the client has not got yet was measured after revolution r.
Later(r) ==
    /\ \A k \in 1 .. Len(Stream) : k > upTo => Stream[k].rev > r
    /\ BeginsWithSync(scan) => scan[1].rev > r

InOrder ==
    /\ Later(nodes[1].rev)
    /\ cachedCount > 0 /\ cache # "copied" =>
          nodes[1].rev < cached[1].rev /\ Later(cached[1].rev)

\* The two parts of GrabsOneRevolution.
InCache ==
    cachedCount > 0 /\ lock = "free" =>
        \E from, to \in 1 .. Len(Stream) :
           /\ IsRevolution(from, to) /\ Shows(cached, cachedCount, from)
           /\ cachedCount = Least(to - from + 1, ScanMax - 1)

InNodes ==
    nodes[1].rev > 0 /\ wanted > 0 =>
        \E from, to \in 1 .. Len(Stream) :
           /\ IsRevolution(from, to) /\ Shows(nodes, wanted, from)
           /\ wanted <= to - from + 1

Data == Queued /\ Scanned /\ Copied /\ InOrder /\ InCache /\ InNodes
Intact == ~lost /\ ~replayed => Data

Measures ==
    /\ sent \in Nat /\ sent <= Len(Stream)
    /\ Len(incoming) \in Nat /\ Len(previous) \in Nat /\ Before \in Int
    /\ upTo \in Int /\ upTo <= Len(Stream)
    /\ Sorting => /\ count \in Nat /\ pos \in Nat /\ pos >= 1 /\ pos <= count + 1
                  /\ upTo + (count - pos + 1) <= Len(Stream)

LEMMA Numbers == Shape => Measures
<1> SUFFICES ASSUME Shape PROVE Measures
  OBVIOUS
<1> DEFINE in == Len(incoming)
           pr == Len(previous)
           all == Len(Stream)
<1>1. in \in Nat /\ pr \in Nat
  <2>1. incoming \in Seq(Node) /\ previous \in Seq(Node)
    BY DEF Shape, TypeOK, ThreadTyped
  <2> QED
    BY <2>1, LenProperties
<1>2. sent \in Nat /\ all \in Nat /\ sent <= all
  BY StreamTyped DEF Shape, TypeOK, SensorTyped
<1>3. /\ count \in Nat /\ pos \in Nat /\ pos >= 1
      /\ Sorting => pos <= count + 1
  BY Sizes DEF Shape, TypeOK, ThreadTyped, ThreadShape
<1>4. /\ Before = sent - in
      /\ Sorting => upTo = Before - pr - (count - pos + 1)
      /\ ~Sorting => upTo = Before - pr - 0
  BY DEF Before, upTo
<1> HIDE DEF in, pr, all
<1>5. Before \in Int /\ Before <= all
  BY <1>1, <1>2, <1>4
<1>6. CASE Sorting
  <2>1. upTo \in Int /\ upTo <= all /\ upTo + (count - pos + 1) <= all
    BY <1>1, <1>2, <1>3, <1>4, <1>5, <1>6
  <2> QED
    BY <1>1, <1>2, <1>3, <1>5, <2>1 DEF Measures, in, pr, all
<1>7. CASE ~Sorting
  <2>1. upTo \in Int /\ upTo <= all
    BY <1>1, <1>2, <1>4, <1>5, <1>7
  <2> QED
    BY <1>1, <1>2, <1>5, <1>7, <2>1 DEF Measures, in, pr, all
<1> QED
  BY <1>6, <1>7

LEMMA NextNumbers == Shape' => Measures'
BY Numbers, PTL

\* How the queue moves on, and what the rest needs of that.
Advances ==
    /\ Queued'
    /\ upTo' >= upTo
    /\ BeginsWithSync(scan) => upTo' = upTo

LEMMA ReceiveAdvances == Shape /\ Queued /\ Receive => Advances
<1> SUFFICES ASSUME Shape, Queued, Receive PROVE Advances
  OBVIOUS
<1> DEFINE s == sent'
           q == incoming'
           m == Len(incoming)
           new == Stream[s]
<1>1. sent \in Nat /\ m \in Nat /\ Before \in Int /\ upTo \in Int
  BY Numbers DEF Measures
<1>2. s = sent + 1 /\ q = Append(incoming, new) /\ s \in 1 .. Len(Stream)
  BY StreamTyped DEF Receive, Emit, Shape, TypeOK, SensorTyped
<1>3. incoming \in Seq(Node) /\ new \in Node
  BY <1>2, StreamTyped DEF Shape, TypeOK, ThreadTyped
<1> HIDE DEF new
<1>4. Len(q) = m + 1 /\ q[m + 1] = new /\ \A k \in 1 .. m : q[k] = incoming[k]
  BY <1>2, <1>3, AppendProperties
<1>5. Before = sent - m /\ Before' = s - Len(q) /\ \A k \in 1 .. m : incoming[k] = Stream[Before + k]
  BY DEF Queued, Follows, Before
<1> HIDE DEF s, q, m
<1>6. Before' = Before
  BY <1>1, <1>2, <1>4, <1>5
<1>7. q[m + 1] = Stream[Before + (m + 1)]
  <2>1. Before + (m + 1) = s
    BY <1>1, <1>2, <1>5
  <2> QED
    BY <1>4, <2>1 DEF new
<1>8. \A k \in 1 .. Len(q) : q[k] = Stream[Before + k]
  BY <1>1, <1>4, <1>5, <1>7
<1>9. ~Sorting /\ ~Sorting' /\ UNCHANGED previous
  BY DEF Receive, Waiting, Sorting
<1>10. upTo' = upTo
  BY <1>6, <1>9 DEF upTo
<1>11. Queued'
  <2>1. Follows(incoming', Before')
    BY <1>6, <1>8, Zenon DEF Follows, q
  <2>2. Follows(previous', Before' - Len(previous'))
    BY <1>6, <1>9 DEF Queued
  <2>3. upTo' >= 0
    BY <1>10 DEF Queued
  <2> QED
    BY <1>9, <2>1, <2>2, <2>3, Zenon DEF Queued, Follows
<1> QED
  BY <1>1, <1>10, <1>11 DEF Advances

LEMMA NothingFollows == Len(<< >>) = 0 /\ \A from : Follows(<< >>, from)
BY EmptySeq DEF Follows

LEMMA DiscardAdvances ==
    ASSUME Shape, Queued, cache = "discard", LoopHead, sent' = sent, previous' = << >>
    PROVE  Advances
<1> DEFINE m == Len(incoming)
           b == Before'
           u == upTo'
<1>1. sent \in Nat /\ m \in Nat
  BY Numbers DEF Measures
<1>2. previous = << >> /\ scan = << >> /\ incoming' = << >> /\ ~Sorting /\ ~Sorting'
  BY DEF Shape, ThreadShape, LoopHead, Sorting
<1>3. Before = sent - m /\ upTo = Before - 0 - 0
  BY <1>2, NothingFollows DEF Before, upTo
<1>4. b = sent - 0 /\ u = b - 0 - 0
  BY <1>2, NothingFollows DEF Before, upTo
<1> HIDE DEF m, b, u
<1>5. u >= 0 /\ u >= upTo
  BY <1>1, <1>3, <1>4
<1>6. Queued'
  BY <1>2, <1>5, NothingFollows, Zenon DEF Queued, u
<1> QED
  BY <1>2, <1>5, <1>6, Zenon DEF Advances, u, BeginsWithSync

\* Nothing moves: a capsule does not come in time, or the device is gone.
LEMMA IdleAdvances ==
    ASSUME Shape, Queued, UNCHANGED <<sent, incoming, previous>>, ~Sorting, ~Sorting'
    PROVE  Advances
<1>1. upTo \in Int
  BY Numbers DEF Measures
<1>2. Before' = Before
  BY DEF Before
<1>3. upTo' = upTo
  BY <1>2 DEF upTo
<1>4. Queued'
  BY <1>2, <1>3 DEF Queued
<1> QED
  BY <1>1, <1>3, <1>4 DEF Advances

LEMMA CollectNodesAdvances == Shape /\ Queued /\ CollectNodes => Advances
<1> SUFFICES ASSUME Shape, Queued, CollectNodes PROVE Advances
  OBVIOUS
<1>1. /\ sent' = sent /\ previous = << >> /\ previous' = << >>
      /\ Waiting /\ Len(batch) = BatchMax /\ Len(incoming) <= BatchMax
      /\ batch' = Over(batch, incoming) /\ batch \in Seq(Node) /\ incoming \in Seq(Node)
  BY DEF CollectNodes, Shape, TypeOK, ThreadTyped, ThreadShape, sensor
<1>2. CASE cache = "discard"
  BY <1>1, <1>2, DiscardAdvances DEF CollectNodes, AfterWait
<1>3. CASE cache # "discard"
  <2> DEFINE m == Len(incoming)
             b == Before'
             u == upTo'
             c == count'
             p == pos'
             full == batch'
  <2>1. /\ cache = "collect" /\ cache' = "sort" /\ incoming' = << >> /\ p = 1 /\ c = m
        /\ ~Sorting /\ Sorting'
    BY <1>1, <1>3 DEF CollectNodes, AfterWait, Waiting, Sorting
  <2>2. sent \in Nat /\ m \in Nat /\ BatchMax \in Nat
    BY Numbers, Sizes DEF Measures
  <2>3. \A i \in 1 .. BatchMax : full[i] = IF i <= m THEN incoming[i] ELSE batch[i]
    BY <1>1, OverKeeps
  <2>4. Before = sent - m /\ upTo = Before - 0 - 0
    BY <1>1, <2>1, NothingFollows DEF Before, upTo
  <2>5. b = sent - 0
    BY <1>1, <2>1, NothingFollows, Zenon DEF Before
  <2>6. u = b - 0 - (c - p + 1)
    BY <1>1, <2>1, NothingFollows, Zenon DEF upTo
  <2>7. upTo >= 0 /\ \A k \in 1 .. m : incoming[k] = Stream[Before + k]
    BY DEF Queued, Follows
  <2> HIDE DEF m, b, u, c, p, full
  <2>8. u = upTo /\ Before = upTo
    BY <2>1, <2>2, <2>4, <2>5, <2>6
  <2>9. \A k \in 1 .. m : full[k] = Stream[u + k]
    BY <1>1, <2>2, <2>3, <2>7, <2>8 DEF m
  <2>10. \A k \in 1 .. c - p + 1 : full[p - 1 + k] = Stream[u + k]
    <3>1. c - p + 1 = m
      BY <2>1, <2>2
    <3>2. \A k \in 1 .. m : p - 1 + k = k
      BY <2>1, <2>2
    <3> QED
      BY <2>9, <3>1, <3>2
  <2>11. u >= 0 /\ u >= upTo
    BY <2>2, <2>4, <2>7, <2>8
  <2>12. Queued'
    BY <1>1, <2>1, <2>10, <2>11, NothingFollows, Zenon DEF Queued, u, c, p, full
  <2> QED
    BY <2>8, <2>11, <2>12, Zenon DEF Advances, u
<1> QED
  BY <1>2, <1>3

LEMMA CollectCapsuleAdvances == Shape /\ Queued /\ CollectCapsule => Advances
<1> SUFFICES ASSUME Shape, Queued, CollectCapsule PROVE Advances
  OBVIOUS
<1>1. sent' = sent /\ Waiting /\ AfterWait
  BY DEF CollectCapsule, sensor
<1>2. CASE cache = "discard"
  <2>1. previous' = << >> /\ LoopHead
    BY <1>1, <1>2 DEF CollectCapsule, AfterWait, Shape, ThreadShape
  <2> QED
    BY <1>1, <1>2, <2>1, DiscardAdvances
<1>3. CASE cache # "discard"
  <2> DEFINE m == Len(incoming)
             r == Len(previous)
             b == Before'
             u == upTo'
             c == count'
             p == pos'
  <2>1. /\ cache = "collect" /\ cache' = "sort" /\ incoming' = << >> /\ p = 1 /\ c = r
        /\ batch' = previous /\ previous' = incoming /\ ~Sorting /\ Sorting'
    BY <1>1, <1>3 DEF CollectCapsule, AfterWait, Waiting, Sorting
  <2>2. sent \in Nat /\ m \in Nat /\ r \in Nat
    BY Numbers DEF Measures
  <2>3. Before = sent - m /\ upTo = Before - r - 0
    BY <2>1 DEF Before, upTo
  <2>4. b = sent - 0
    BY <1>1, <2>1, NothingFollows, Zenon DEF Before
  <2>5. u = b - m - (c - p + 1)
    BY <2>1, Zenon DEF upTo
  <2>6. /\ upTo >= 0 /\ Follows(incoming, Before)
        /\ \A k \in 1 .. r : previous[k] = Stream[Before - r + k]
    BY DEF Queued, Follows
  <2> HIDE DEF m, b, u, c, p, r
  <2>7. u = upTo /\ Before - r = u /\ b - m = Before
    BY <2>1, <2>2, <2>3, <2>4, <2>5
  <2>8. \A k \in 1 .. c - p + 1 : previous[p - 1 + k] = Stream[u + k]
    <3>1. c - p + 1 = r
      BY <2>1, <2>2
    <3>2. \A k \in 1 .. r : p - 1 + k = k
      BY <2>1, <2>2
    <3> QED
      BY <2>6, <2>7, <3>1, <3>2
  <2>9. u >= 0 /\ u >= upTo
    BY <2>2, <2>3, <2>6, <2>7
  <2>10. Follows(previous', Before' - Len(previous'))
    BY <2>1, <2>6, <2>7, Zenon DEF b, m
  <2>11. Queued'
    BY <2>1, <2>8, <2>9, <2>10, NothingFollows, Zenon DEF Queued, u, c, p
  <2> QED
    BY <2>7, <2>9, <2>11, Zenon DEF Advances, u
<1> QED
  BY <1>2, <1>3

\* The other steps that end a wait, as long as nothing gets lost.
LEMMA OtherWaitsAdvance ==
    ASSUME Shape, Queued, ~lost', ~replayed', TimeOutNodes \/ DropCapsule \/ EndOnError
    PROVE  Advances
<1>1. sent' = sent /\ Waiting /\ lost' \in BOOLEAN /\ replayed' \in BOOLEAN
  BY DEF TimeOutNodes, DropCapsule, EndOnError, sensor, Shape, TypeOK, SensorTyped
<1>2. CASE cache = "discard"
  <2>1. LoopHead /\ previous' = << >>
    BY <1>2
    DEF TimeOutNodes, DropCapsule, EndOnError, AfterWait, Shape, ThreadShape
  <2> QED
    BY <1>1, <1>2, <2>1, DiscardAdvances
<1>3. CASE cache # "discard"
  <2>1. cache = "collect"
    BY <1>1, <1>3 DEF Waiting
  <2>2. UNCHANGED <<incoming, previous>> /\ ~Sorting /\ ~Sorting'
    BY <2>1 DEF TimeOutNodes, DropCapsule, EndOnError, LoopHead, Sorting
  <2> QED
    BY <1>1, <2>2, IdleAdvances
<1> QED
  BY <1>2, <1>3

LEMMA SortMoves ==
    ASSUME Shape, Queued, Sort, NEW end \in Nat, Sorted(end)
    PROVE  Queued' /\ upTo' = upTo + (end - pos)
<1> DEFINE r == Len(previous)
           b == Before'
           u == upTo'
           p == pos'
<1>1. /\ UNCHANGED <<sent, batch, count, previous>> /\ cache = "sort" /\ incoming = << >>
      /\ Sorting
  BY DEF Sort, Shape, ThreadShape, Sorting, sensor
<1>2. /\ sent \in Nat /\ r \in Nat /\ count \in Nat /\ pos \in Nat /\ pos >= 1
      /\ upTo \in Int
  BY <1>1, Numbers DEF Measures
<1>3. end \in pos .. count + 1 /\ p = end
  BY DEF Sorted
<1>4. Before = sent - 0 /\ upTo = Before - r - (count - pos + 1)
  BY <1>1, NothingFollows DEF Before, upTo
<1>5. incoming' = << >>
  <2>1. CASE end = count + 1
    BY <2>1 DEF Sorted, LoopHead
  <2>2. CASE end <= count
    BY <2>2, <1>1 DEF Sorted
  <2> QED
    BY <2>1, <2>2, <1>2, <1>3
<1>6. b = sent - 0
  BY <1>1, <1>5, NothingFollows, Zenon DEF Before
<1>7. /\ upTo >= 0 /\ Follows(previous, Before - r)
      /\ \A k \in 1 .. count - pos + 1 : batch[pos - 1 + k] = Stream[upTo + k]
  BY <1>1 DEF Queued
<1>8. CASE end = count + 1
  <2>1. ~Sorting'
    BY <1>8 DEF Sorted, LoopHead, Sorting
  <2>2. u = b - r - 0
    BY <2>1, <1>1, Zenon DEF upTo
  <2> HIDE DEF r, b, u, p
  <2>3. u = upTo + (end - pos) /\ u >= 0
    BY <1>2, <1>4, <1>6, <1>7, <1>8, <1>3, <2>2
  <2>4. Before' = Before
    BY <1>4, <1>6 DEF b
  <2>5. Queued'
    BY <1>1, <1>5, <1>7, <2>1, <2>3, <2>4, NothingFollows, Zenon DEF Queued, u, r
  <2> QED
    BY <2>3, <2>5 DEF u
<1>9. CASE end <= count
  <2>1. Sorting'
    BY <1>9 DEF Sorted, Sorting
  <2>2. u = b - r - (count - p + 1)
    BY <2>1, <1>1, Zenon DEF upTo
  <2> HIDE DEF r, b, u, p
  <2>3. u = upTo + (end - pos) /\ u >= 0
    BY <1>2, <1>4, <1>6, <1>7, <1>3, <2>2
  <2>4. Before' = Before
    BY <1>4, <1>6 DEF b
  <2>5. ASSUME NEW k \in 1 .. count - end + 1
        PROVE  batch[end - 1 + k] = Stream[u + k]
    <3> DEFINE j == (end - pos) + k
    <3>1. j \in 1 .. count - pos + 1 /\ pos - 1 + j = end - 1 + k /\ upTo + j = u + k
      BY <1>2, <1>3, <1>9, <2>3
    <3> HIDE DEF j
    <3>2. batch[pos - 1 + j] = Stream[upTo + j]
      BY <1>7, <3>1
    <3> QED
      BY <3>1, <3>2
  <2>6. Queued'
    BY <1>1, <1>3, <1>5, <1>7, <2>1, <2>3, <2>4, <2>5, NothingFollows, Zenon DEF Queued, u, r, p
  <2> QED
    BY <2>3, <2>6 DEF u
<1> QED
  BY <1>8, <1>9, <1>2, <1>3

\* The case of a sync bit that begins a revolution.
LEMMA SortBegins ==
    ASSUME Shape, Queued, Sort, NEW end \in Nat, Sorted(end),
           pos <= count /\ Sync(batch[pos]) /\ end > pos
    PROVE  /\ Scanned'
           /\ BeginsWithSync(scan') => scan'[1] = Stream[upTo + 1] /\ upTo + 1 <= Len(Stream)
<1> DEFINE s == scan'
           u == upTo'
           n == end - pos
           room == ScanMax - 1
           lo == upTo + 1
<1>1. /\ count \in Nat /\ pos \in Nat /\ pos >= 1 /\ upTo \in Int /\ Sorting /\ cache = "sort"
      /\ upTo + (count - pos + 1) <= Len(Stream)
  BY Numbers DEF Measures, Sorting, Sort
<1>2. /\ end \in pos .. count + 1 /\ s = NotFull(Continued(end))
      /\ \A i \in pos .. end - 1 : Sync(batch[i]) => i = pos
  BY DEF Sorted
<1>3. u = upTo + n
  BY SortMoves
<1>4. /\ upTo >= 0
      /\ \A k \in 1 .. count - pos + 1 : batch[pos - 1 + k] = Stream[upTo + k]
  BY <1>1 DEF Queued
<1>5. room \in Nat /\ n \in Nat /\ n >= 1 /\ n <= count - pos + 1 /\ Len(Stream) \in Nat
  BY Sizes, StreamTyped, <1>1, <1>2
<1>6. /\ s \in Seq(Node) /\ Len(s) = Least(room, 0 + n)
      /\ \A k \in 1 .. Least(room, 0 + n) :
            s[k] = IF k <= 0 THEN << >>[k] ELSE batch[pos + (k - 0) - 1]
  <2>1. (IF pos <= count /\ Sync(batch[pos]) /\ end > pos THEN << >> ELSE scan) = << >>
    OBVIOUS
  <2> QED
    BY <1>1, <1>2, <2>1, Continues, NothingFollows, Zenon
<1> HIDE DEF s, u, n, room
<1>7. \A k \in 1 .. n : batch[pos - 1 + k] = Stream[upTo + k]
  <2>1. \A k \in 1 .. n : k \in 1 .. count - pos + 1
    BY <1>1, <1>5
  <2> QED
    BY <1>4, <2>1
<1>8. /\ Len(s) = Least(room, n) /\ Least(room, n) <= n /\ Len(s) \in Nat
      /\ \A k \in 1 .. Len(s) : s[k] = batch[pos + (k - 0) - 1]
  <2>1. 0 + n = n
    BY <1>5
  <2>2. Least(room, n) \in Nat /\ Least(room, n) <= n
    BY <1>5, LeastIs
  <2> QED
    BY <1>6, <2>1, <2>2
<1>9. \A k \in 1 .. Len(s) : s[k] = Stream[upTo + k]
  <2>1. ASSUME NEW k \in 1 .. Len(s) PROVE s[k] = Stream[upTo + k]
    <3>1. k \in 1 .. n /\ pos + (k - 0) - 1 = pos - 1 + k
      BY <1>1, <1>5, <1>8
    <3> QED
      BY <1>7, <1>8, <3>1
  <2> QED
    BY <2>1
<1>10. LastSync(lo, u)
  <2>1. lo \in 1 .. u
    BY <1>1, <1>3, <1>4, <1>5
  <2>2. Sync(Stream[lo])
    <3>1. pos - 1 + 1 = pos /\ 1 \in 1 .. n
      BY <1>1, <1>5
    <3> QED
      BY <1>7, <3>1
  <2>3. ASSUME NEW k \in lo + 1 .. u PROVE ~Sync(Stream[k])
    <3> DEFINE j == k - upTo
    <3>1. j \in 1 .. n /\ j # 1 /\ upTo + j = k
      BY <1>1, <1>3, <1>5
    <3> HIDE DEF j
    <3>2. pos - 1 + j \in pos .. end - 1 /\ pos - 1 + j # pos
      BY <1>1, <1>2, <1>5, <3>1 DEF n
    <3>3. ~Sync(batch[pos - 1 + j])
      BY <1>2, <3>2
    <3> QED
      BY <1>7, <3>1, <3>3
  <2> QED
    BY <2>1, <2>2, <2>3 DEF LastSync
<1>11. Len(s) = Least(u - lo + 1, room)
  <2>1. u - lo + 1 = n
    BY <1>1, <1>3, <1>5
  <2>2. Least(room, n) = Least(n, room)
    BY <1>5 DEF Least
  <2> QED
    BY <1>8, <2>1, <2>2
<1>12. Follows(s, lo - 1)
  <2>1. lo - 1 = upTo
    BY <1>1
  <2> QED
    BY <1>9, <2>1 DEF Follows
<1>13. lo \in Nat
  BY <1>1, <1>4
<1>14. Scanned'
  BY <1>10, <1>11, <1>12, <1>13, Zenon DEF Scanned, s, u, room
<1>15. BeginsWithSync(s) => s[1] = Stream[upTo + 1]
  <2>1. s # << >> => Len(s) >= 1
    BY <1>6, <1>8, EmptySeq
  <2> QED
    BY <1>8, <1>9, <2>1 DEF BeginsWithSync
<1>16. upTo + 1 <= Len(Stream)
  BY <1>1, <1>5
<1> QED
  BY <1>14, <1>15, <1>16, Zenon DEF s

\* The case of measurements that go on with what local_scan holds.
LEMMA SortContinues ==
    ASSUME Shape, Queued, Scanned, Sort, NEW end \in Nat, Sorted(end),
           ~(pos <= count /\ Sync(batch[pos]) /\ end > pos)
    PROVE  /\ Scanned'
           /\ BeginsWithSync(scan') => BeginsWithSync(scan) /\ scan'[1] = scan[1]
<1> DEFINE s == scan'
           u == upTo'
           n == end - pos
           m == Len(scan)
           room == ScanMax - 1
<1>1. /\ count \in Nat /\ pos \in Nat /\ pos >= 1 /\ upTo \in Int /\ Sorting /\ cache = "sort"
      /\ upTo + (count - pos + 1) <= Len(Stream)
  BY Numbers DEF Measures, Sorting, Sort
<1>2. /\ end \in pos .. count + 1 /\ s = NotFull(Continued(end))
      /\ \A i \in pos .. end - 1 : Sync(batch[i]) => i = pos
  BY DEF Sorted
<1>3. u = upTo + n
  BY SortMoves
<1>4. /\ upTo >= 0
      /\ \A k \in 1 .. count - pos + 1 : batch[pos - 1 + k] = Stream[upTo + k]
  BY <1>1 DEF Queued
<1>5. scan \in Seq(Node) /\ m \in Nat /\ m <= room /\ room \in Nat
  <2>1. scan \in Seq(Node) /\ Len(scan) < ScanMax
    BY DEF Shape, TypeOK, ThreadTyped
  <2> QED
    BY <2>1, LenProperties, Sizes
<1>6. n \in Nat /\ n <= count - pos + 1
  BY <1>1, <1>2
<1>7. /\ s \in Seq(Node) /\ Len(s) = Least(room, m + n)
      /\ \A k \in 1 .. Least(room, m + n) :
            s[k] = IF k <= m THEN scan[k] ELSE batch[pos + (k - m) - 1]
  <2>1. (IF pos <= count /\ Sync(batch[pos]) /\ end > pos THEN << >> ELSE scan) = scan
    OBVIOUS
  <2> QED
    BY <1>1, <1>2, <2>1, Continues, Zenon
<1> HIDE DEF s, u, n, m, room
<1>8. \A k \in 1 .. n : batch[pos - 1 + k] = Stream[upTo + k]
  <2>1. \A k \in 1 .. n : k \in 1 .. count - pos + 1
    BY <1>1, <1>6
  <2> QED
    BY <1>4, <2>1
<1>9. \A k \in 1 .. n : ~Sync(Stream[upTo + k])
  <2>1. ASSUME NEW k \in 1 .. n PROVE ~Sync(Stream[upTo + k])
    <3>1. pos - 1 + k \in pos .. end - 1
      BY <1>1, <1>2, <1>6 DEF n
    <3>2. pos <= count /\ end > pos
      BY <1>1, <1>2, <3>1
    <3>3. ~Sync(batch[pos - 1 + k])
      BY <1>2, <3>1, <3>2
    <3> QED
      BY <1>8, <3>3
  <2> QED
    BY <2>1
<1>10. m + n \in Nat /\ Least(room, m + n) \in Nat /\ Least(room, m + n) <= m + n
  <2> DEFINE all == m + n
  <2>1. all \in Nat
    BY <1>5, <1>6
  <2> HIDE DEF all
  <2>2. Least(room, all) \in Nat /\ Least(room, all) <= all
    BY <1>5, <2>1, LeastIs
  <2> QED
    BY <2>1, <2>2 DEF all
<1>11. CASE m = 0
  <2>1. ~BeginsWithSync(s)
    <3>1. CASE Len(s) = 0
      BY <3>1, <1>7, EmptySeq DEF BeginsWithSync
    <3>2. CASE Len(s) # 0
      <4>1. 1 \in 1 .. Least(room, m + n) /\ 1 \in 1 .. n /\ ~(1 <= m)
        BY <1>7, <1>10, <1>11, <3>2, <1>6
      <4>2. pos + (1 - m) - 1 = pos - 1 + 1
        BY <1>1, <1>11
      <4>3. s[1] = Stream[upTo + 1]
        BY <1>7, <1>8, <4>1, <4>2
      <4> QED
        BY <1>9, <4>1, <4>3 DEF BeginsWithSync
    <3> QED
      BY <3>1, <3>2
  <2> QED
    BY <2>1, Zenon DEF Scanned, BeginsWithSync, Sync, s
<1>12. CASE m # 0
  <2>1. 1 \in 1 .. Least(room, m + n) /\ 1 <= m /\ scan # << >>
    <3>1. Least(room, m + n) >= 1
      BY <1>5, <1>6, <1>12 DEF Least
    <3>2. scan # << >>
      BY <1>12, EmptySeq DEF m
    <3> QED
      BY <1>10, <3>1, <3>2, <1>5, <1>12
  <2>2. s[1] = scan[1]
    BY <1>7, <2>1
  <2>3. BeginsWithSync(s) => BeginsWithSync(scan)
    BY <2>1, <2>2 DEF BeginsWithSync
  <2>4. ASSUME BeginsWithSync(scan)
        PROVE  \E lo \in Nat : /\ LastSync(lo, u) /\ Len(s) = Least(u - lo + 1, room)
                               /\ Follows(s, lo - 1)
    <3>1. PICK lo \in Nat : /\ LastSync(lo, upTo) /\ m = Least(upTo - lo + 1, room)
                            /\ Follows(scan, lo - 1)
      BY <2>4 DEF Scanned, m, room
    <3>2. /\ lo \in 1 .. upTo /\ Sync(Stream[lo])
          /\ \A k \in lo + 1 .. upTo : ~Sync(Stream[k])
      BY <3>1 DEF LastSync
    <3>3. LastSync(lo, u)
      <4>1. lo \in 1 .. u
        BY <1>1, <1>3, <1>6, <3>2
      <4>2. ASSUME NEW k \in lo + 1 .. u PROVE ~Sync(Stream[k])
        <5>1. CASE k <= upTo
          BY <3>2, <5>1, <1>1
        <5>2. CASE k > upTo
          <6> DEFINE j == k - upTo
          <6>1. j \in 1 .. n /\ upTo + j = k
            BY <1>1, <1>3, <1>6, <5>2
          <6> HIDE DEF j
          <6> QED
            BY <1>9, <6>1
        <5> QED
          BY <5>1, <5>2, <1>1, <1>3, <1>6
      <4> QED
        BY <3>2, <4>1, <4>2 DEF LastSync
    <3> DEFINE d == upTo - lo + 1
               e == u - lo + 1
    <3>4. d \in Nat /\ e \in Nat /\ e = d + n
      BY <1>1, <1>3, <1>6, <3>2
    <3>5. m = Least(d, room)
      BY <3>1
    <3> HIDE DEF d, e
    <3>6. Len(s) = Least(e, room)
      <4>1. Least(room, m + n) = Least(e, room)
        BY <1>5, <1>6, <3>4, <3>5 DEF Least
      <4> QED
        BY <1>7, <4>1
    <3>7. ASSUME NEW k \in 1 .. Len(s) PROVE s[k] = Stream[lo - 1 + k]
      <4>1. k \in 1 .. Least(room, m + n) /\ k <= m + n /\ k <= room
        <5>1. Least(room, m + n) <= room
          BY <1>5, <1>10, LeastIs
        <5> QED
          BY <1>7, <1>10, <5>1, <1>5
      <4>2. CASE k <= m
        <5>1. scan[k] = Stream[lo - 1 + k]
          BY <3>1, <4>1, <4>2, <1>5 DEF Follows, m
        <5> QED
          BY <1>7, <4>1, <4>2, <5>1
      <4>3. CASE k > m
        <5> DEFINE j == k - m
        <5>1. m = d
          BY <1>5, <3>4, <3>5, <4>1, <4>3 DEF Least
        <5>2. j \in 1 .. n /\ pos + j - 1 = pos - 1 + j
          BY <1>1, <1>5, <1>6, <4>1, <4>3
        <5>3. upTo + j = lo - 1 + k
          BY <1>1, <1>5, <3>2, <4>1, <5>1 DEF d
        <5>4. s[k] = batch[pos + j - 1]
          BY <1>5, <1>7, <4>1, <4>3
        <5> HIDE DEF j
        <5> QED
          BY <1>8, <5>2, <5>3, <5>4
      <4> QED
        BY <4>2, <4>3, <1>5, <4>1
    <3> QED
      BY <3>1, <3>3, <3>6, <3>7 DEF Follows, e
  <2>5. Scanned'
    <3>1. BeginsWithSync(s) =>
            \E lo \in Nat : /\ LastSync(lo, u) /\ Len(s) = Least(u - lo + 1, room)
                            /\ Follows(s, lo - 1)
      BY <2>3, <2>4
    <3> QED
      BY <3>1, Zenon DEF Scanned, s, u, room
  <2> QED
    BY <2>2, <2>3, <2>5, Zenon DEF s
<1> QED
  BY <1>11, <1>12

-----------------------------------------------------------------------------
\* Later measurements stay later while the queue moves on.
NextLater(r) ==
    /\ \A k \in 1 .. Len(Stream) : k > upTo' => Stream[k].rev > r
    /\ BeginsWithSync(scan') => scan'[1].rev > r

LEMMA LaterGoesOn ==
    ASSUME Shape, Shape', upTo' >= upTo,
           \A r \in Nat : Later(r) /\ BeginsWithSync(scan') => scan'[1].rev > r
    PROVE  \A r \in Nat : Later(r) => NextLater(r)
<1> DEFINE u == upTo'
<1>1. upTo \in Int /\ u \in Int /\ u >= upTo
  BY Numbers, NextNumbers DEF Measures
<1> HIDE DEF u
<1>2. \A k \in 1 .. Len(Stream) : k > u => k > upTo
  BY <1>1, StreamTyped
<1>3. ASSUME NEW r \in Nat, Later(r) PROVE NextLater(r)
  <2>1. \A k \in 1 .. Len(Stream) : k > u => Stream[k].rev > r
    BY <1>2, <1>3 DEF Later
  <2>2. BeginsWithSync(scan') => scan'[1].rev > r
    BY <1>3
  <2> QED
    BY <2>1, <2>2, Zenon DEF NextLater, u
<1> QED
  BY <1>3

\* The revolutions that the client's array and the cache begin with.
LEMMA FirstEntries ==
    Shape => nodes[1].rev \in Nat /\ cached[1].rev \in Nat
<1> SUFFICES ASSUME Shape PROVE nodes[1].rev \in Nat /\ cached[1].rev \in Nat
  OBVIOUS
<1>1. 1 \in 1 .. NodesMax /\ 1 \in 1 .. ScanMax
  BY Sizes
<1>2. nodes[1] \in Node /\ cached[1] \in Node
  BY <1>1 DEF Shape, TypeOK, DriverTyped, DisplayTyped
<1> QED
  BY <1>2 DEF Node

\* While nothing is published or grabbed, the order stays.
LEMMA OrderStays ==
    ASSUME Shape, Shape', InOrder, UNCHANGED <<cached, cachedCount, nodes>>,
           cache # "copied", \A r \in Nat : Later(r) => NextLater(r)
    PROVE  InOrder'
<1>1. nodes[1].rev \in Nat /\ cached[1].rev \in Nat
  BY FirstEntries
<1>2. NextLater(nodes[1].rev)
  BY <1>1 DEF InOrder
<1>3. cachedCount > 0 => nodes[1].rev < cached[1].rev /\ NextLater(cached[1].rev)
  BY <1>1 DEF InOrder
<1> QED
  BY <1>2, <1>3, Zenon DEF InOrder, Later, NextLater, BeginsWithSync, Sync

LEMMA CollectKeeps ==
    ASSUME Shape, Shape', Data, Advances, cache # "copied", cache' # "copied",
           UNCHANGED <<scan, lock, cached, cachedCount, nodes, wanted>>
    PROVE  Data'
<1>1. Queued' /\ upTo' >= upTo /\ (BeginsWithSync(scan) => upTo' = upTo)
  BY DEF Advances
<1>2. Scanned'
  BY <1>1, Zenon DEF Data, Scanned, BeginsWithSync, Sync
<1>3. Copied'
  BY DEF Copied
<1>4. \A r \in Nat : Later(r) /\ BeginsWithSync(scan') => scan'[1].rev > r
  BY DEF Later
<1>5. InOrder'
  BY <1>1, <1>4, LaterGoesOn, OrderStays DEF Data
<1>6. InCache' /\ InNodes'
  BY DEF Data, InCache, InNodes, IsRevolution, Shows, Sync
<1> QED
  BY <1>1, <1>2, <1>3, <1>5, <1>6 DEF Data

LEMMA SortKeeps == Shape /\ Shape' /\ Data /\ Sort => Data'
<1> SUFFICES ASSUME Shape, Shape', Data, Sort PROVE Data'
  OBVIOUS
<1>1. PICK end \in Nat : Sorted(end)
  BY SortGoesOn
<1>2. /\ UNCHANGED <<lock, cached, cachedCount, nodes, wanted>>
      /\ cache = "sort" /\ cache' # "copied"
  BY <1>1 DEF Sort, LoopHead, driver, display
<1>3. Queued /\ Scanned
  BY DEF Data
<1>4. Queued' /\ upTo' = upTo + (end - pos)
  BY <1>1, <1>3, SortMoves
<1> DEFINE begins == pos <= count /\ Sync(batch[pos]) /\ end > pos
<1>5. Scanned' /\ \A r \in Nat : Later(r) /\ BeginsWithSync(scan') => scan'[1].rev > r
  <2>1. CASE begins
    <3>1. /\ Scanned'
          /\ BeginsWithSync(scan') => scan'[1] = Stream[upTo + 1] /\ upTo + 1 <= Len(Stream)
      BY <1>1, <1>3, <2>1, SortBegins
    <3>2. upTo \in Int /\ upTo >= 0
      BY <1>3, Numbers DEF Measures, Queued
    <3>3. upTo + 1 <= Len(Stream) => upTo + 1 \in 1 .. Len(Stream) /\ upTo + 1 > upTo
      BY <3>2, StreamTyped
    <3> QED
      BY <3>1, <3>3 DEF Later
  <2>2. CASE ~begins
    <3>1. Scanned' /\ (BeginsWithSync(scan') => BeginsWithSync(scan) /\ scan'[1] = scan[1])
      BY <1>1, <1>3, <2>2, SortContinues
    <3> QED
      BY <3>1 DEF Later
  <2> QED
    BY <2>1, <2>2
<1>6. upTo' >= upTo
  <2> DEFINE u == upTo'
  <2>1. /\ upTo \in Int /\ pos \in Nat /\ count \in Nat /\ end \in pos .. count + 1
        /\ u = upTo + (end - pos)
    BY <1>1, <1>2, <1>4, Numbers DEF Measures, Sorted, Sorting
  <2> HIDE DEF u
  <2>2. u >= upTo
    BY <2>1
  <2> QED
    BY <2>2 DEF u
<1>7. InOrder'
  BY <1>2, <1>5, <1>6, LaterGoesOn, OrderStays DEF Data
<1>8. Copied'
  BY <1>2 DEF Copied
<1>9. InCache' /\ InNodes'
  BY <1>2 DEF Data, InCache, InNodes, IsRevolution, Shows, Sync
<1> QED
  BY <1>4, <1>5, <1>7, <1>8, <1>9 DEF Data

\* The steps that leave the queue alone.
LEMMA QueueStays ==
    ASSUME Queued, UNCHANGED <<sent, incoming, previous, batch, count, pos>>,
           Sorting' = Sorting
    PROVE  Queued' /\ upTo' = upTo
<1>1. Before' = Before
  BY DEF Before
<1>2. upTo' = upTo
  BY <1>1 DEF upTo
<1> QED
  BY <1>1, <1>2, Zenon DEF Queued, Follows

\* What the first half of a publication copies.
LEMMA PublishCopies == Shape /\ PublishNodes => Copied'
<1> SUFFICES ASSUME Shape, PublishNodes PROVE Copied'
  OBVIOUS
<1>1. /\ cached \in [1 .. ScanMax -> Node] /\ scan \in Seq(Node) /\ Len(scan) < ScanMax
  BY DEF Shape, TypeOK, ThreadTyped, DriverTyped
<1>2. Len(scan) \in Nat /\ ScanMax \in Nat
  BY <1>1, LenProperties, Sizes
<1> DEFINE full == Over(cached, scan)
<1>3. \A i \in 1 .. ScanMax : full[i] = IF i <= Len(scan) THEN scan[i] ELSE cached[i]
  BY <1>1, <1>2, CopyKeeps
<1> HIDE DEF full
<1>4. \A k \in 1 .. Len(scan) : full[k] = scan[k]
  BY <1>1, <1>2, <1>3
<1> QED
  BY <1>4, Zenon DEF Copied, PublishNodes, full

LEMMA PublishNodesKeeps == Shape /\ Shape' /\ Data /\ PublishNodes => Data'
<1> SUFFICES ASSUME Shape, Shape', Data, PublishNodes PROVE Data'
  OBVIOUS
<1>1. /\ UNCHANGED <<sent, incoming, previous, batch, count, pos, scan, nodes, wanted>>
      /\ cache = "lock" /\ cache' = "copied" /\ lock' = "cache" /\ cached' = Over(cached, scan)
  BY DEF PublishNodes, sensor, display
<1>2. Queued' /\ upTo' = upTo
  <2>1. Sorting' = Sorting
    BY <1>1 DEF Sorting
  <2> QED
    BY <1>1, <2>1, QueueStays DEF Data
<1>3. Scanned'
  BY <1>1, <1>2, Zenon DEF Data, Scanned, BeginsWithSync, Sync
<1>4. Copied'
  BY PublishCopies
<1>5. InOrder'
  <2>1. nodes[1].rev \in Nat /\ Later(nodes[1].rev)
    BY FirstEntries DEF Data, InOrder
  <2>2. Later(nodes[1].rev)'
    BY <1>1, <1>2, <2>1, Zenon DEF Later, BeginsWithSync, Sync
  <2> QED
    BY <1>1, <2>2 DEF InOrder
<1>6. InCache' /\ InNodes'
  BY <1>1 DEF Data, InCache, InNodes, IsRevolution, Shows, Sync
<1> QED
  BY <1>2, <1>3, <1>4, <1>5, <1>6 DEF Data

\* A revolution lies between two sync bits, and what follows is later.
LEMMA RevolutionEnds ==
    ASSUME NEW n \in Nat, n + 1 <= Len(Stream), NEW lo \in Nat, LastSync(lo, n),
           Sync(Stream[n + 1])
    PROVE  /\ IsRevolution(lo, n)
           /\ \A k \in 1 .. Len(Stream) : k > n => Stream[k].rev > Stream[lo].rev
           /\ Stream[lo].rev > 0
<1> DEFINE N == Len(Stream)
           P == 1 .. N
           rev(k) == Stream[k].rev
<1>1. N \in Nat /\ \A k \in P : rev(k) \in Nat
  BY StreamTyped DEF Node
<1>2. lo \in 1 .. n /\ Sync(Stream[lo]) /\ \A k \in lo + 1 .. n : ~Sync(Stream[k])
  BY DEF LastSync
<1>3. /\ \A i, j \in P : i <= j => rev(i) > 0 /\ rev(i) <= rev(j)
      /\ \A i, j \in P : i <= j => (rev(i) = rev(j) <=> \A k \in i + 1 .. j : ~Sync(Stream[k]))
  BY SensorAssumption
<1>4. lo \in P /\ n \in lo .. N /\ n + 1 \in P
  BY <1>1, <1>2
<1>5. ASSUME NEW k \in P, k < lo PROVE rev(k) # rev(lo)
  <2>1. lo \in k + 1 .. lo
    BY <1>4, <1>5
  <2> QED
    BY <1>2, <1>3, <1>4, <1>5, <2>1
<1>6. ASSUME NEW k \in lo .. n PROVE rev(k) = rev(lo)
  <2>1. k \in P /\ lo <= k /\ \A j \in lo + 1 .. k : j \in lo + 1 .. n
    BY <1>4, <1>6
  <2>2. \A j \in lo + 1 .. k : ~Sync(Stream[j])
    BY <1>2, <2>1
  <2>3. rev(lo) = rev(k)
    BY <1>3, <1>4, <2>1, <2>2
  <2> QED
    BY <2>3
<1>7. ASSUME NEW k \in P, k > n PROVE rev(k) > rev(lo)
  <2>1. n + 1 \in lo + 1 .. k /\ lo <= k
    BY <1>4, <1>7
  <2>2. rev(lo) <= rev(k) /\ rev(lo) # rev(k)
    BY <1>3, <1>4, <2>1
  <2> QED
    BY <1>1, <1>4, <2>2
<1>8. \A k \in P : rev(k) = rev(lo) <=> k \in lo .. n
  <2>1. ASSUME NEW k \in P PROVE rev(k) = rev(lo) <=> k \in lo .. n
    <3>1. CASE k < lo
      BY <1>4, <1>5, <3>1
    <3>2. CASE k > n
      <4>1. rev(k) # rev(lo)
        BY <1>1, <1>4, <1>7, <3>2
      <4> QED
        BY <1>4, <3>2, <4>1
    <3>3. CASE k \in lo .. n
      BY <1>6, <3>3
    <3> QED
      BY <1>4, <3>1, <3>2, <3>3
  <2> QED
    BY <2>1
<1>9. rev(lo) > 0
  BY <1>3, <1>4
<1> QED
  BY <1>2, <1>4, <1>7, <1>8, <1>9 DEF IsRevolution

LEMMA PublishCountKeeps == Shape /\ Shape' /\ Data /\ PublishCount => Data'
<1> SUFFICES ASSUME Shape, Shape', Data, PublishCount PROVE Data'
  OBVIOUS
<1>1. /\ UNCHANGED <<sent, incoming, previous, batch, count, pos, cached, nodes, wanted>>
      /\ cache = "copied" /\ cache' = "sort" /\ scan' = << >> /\ cachedCount' = Len(scan)
  BY DEF PublishCount, sensor, display
<1>2. Queued' /\ upTo' = upTo
  <2>1. Sorting' = Sorting
    BY <1>1 DEF Sorting
  <2> QED
    BY <1>1, <2>1, QueueStays DEF Data
<1>3. ~BeginsWithSync(scan')
  BY <1>1 DEF BeginsWithSync
<1>4. Scanned' /\ Copied'
  BY <1>1, <1>3, Zenon DEF Scanned, Copied, BeginsWithSync, Sync
<1>5. /\ BeginsWithSync(scan) /\ Sync(batch[pos]) /\ pos <= count
      /\ scan \in Seq(Node) /\ Len(scan) < ScanMax
  BY <1>1 DEF Shape, TypeOK, ThreadTyped, ThreadShape
<1>6. Len(scan) \in Nat /\ Len(scan) >= 1
  BY <1>5, LenProperties, EmptySeq DEF BeginsWithSync
<1>7. PICK lo \in Nat : /\ LastSync(lo, upTo) /\ Len(scan) = Least(upTo - lo + 1, ScanMax - 1)
                        /\ Follows(scan, lo - 1)
  BY <1>5 DEF Data, Scanned
<1>8. /\ upTo \in Nat /\ upTo + 1 <= Len(Stream) /\ Sync(Stream[upTo + 1])
  <2>1. Sorting
    BY <1>1 DEF Sorting
  <2>2. /\ upTo \in Int /\ count \in Nat /\ pos \in Nat /\ upTo + (count - pos + 1) <= Len(Stream)
    BY <2>1, Numbers DEF Measures
  <2>3. upTo >= 0 /\ \A k \in 1 .. count - pos + 1 : batch[pos - 1 + k] = Stream[upTo + k]
    BY <2>1 DEF Data, Queued
  <2>4. 1 \in 1 .. count - pos + 1 /\ pos - 1 + 1 = pos
    BY <1>5, <2>2
  <2>5. batch[pos] = Stream[upTo + 1]
    BY <2>3, <2>4
  <2>6. upTo \in Nat /\ upTo + 1 <= Len(Stream)
    BY <1>5, <2>2, <2>3, StreamTyped
  <2> QED
    BY <1>5, <2>5, <2>6
<1>9. /\ IsRevolution(lo, upTo) /\ Stream[lo].rev > 0
      /\ \A k \in 1 .. Len(Stream) : k > upTo => Stream[k].rev > Stream[lo].rev
  BY <1>7, <1>8, RevolutionEnds
<1>10. \A k \in 1 .. Len(scan) : cached[k] = Stream[lo - 1 + k]
  BY <1>1, <1>7 DEF Data, Copied, Follows
<1>11. lo \in 1 .. Len(Stream) /\ upTo \in 1 .. Len(Stream)
  BY <1>7, <1>8, StreamTyped DEF LastSync
<1>12. Shows(cached, Len(scan), lo)
  <2>1. \A k \in 1 .. Len(scan) : lo - 1 + k = lo + k - 1
    BY <1>6, <1>11
  <2> QED
    BY <1>10, <2>1 DEF Shows
<1>13. InCache'
  BY <1>1, <1>7, <1>9, <1>11, <1>12, Zenon DEF InCache, IsRevolution, Shows, Sync
<1>14. InNodes'
  BY <1>1 DEF Data, InNodes, IsRevolution, Shows, Sync
<1>15. cached[1] = Stream[lo] /\ scan[1] = cached[1]
  <2>1. 1 \in 1 .. Len(scan) /\ lo - 1 + 1 = lo
    BY <1>6
  <2> QED
    BY <1>1, <1>10, <2>1 DEF Data, Copied
<1>16. Later(nodes[1].rev) /\ nodes[1].rev < cached[1].rev
  <2>1. Later(nodes[1].rev)
    BY DEF Data, InOrder
  <2>2. scan[1].rev > nodes[1].rev
    BY <1>5, <2>1 DEF Later
  <2>3. nodes[1].rev \in Nat /\ cached[1].rev \in Nat
    BY FirstEntries
  <2> QED
    BY <1>15, <2>1, <2>2, <2>3
<1>17. InOrder'
  <2>1. NextLater(nodes[1].rev) /\ NextLater(cached[1].rev)
    BY <1>2, <1>3, <1>9, <1>15, <1>16 DEF Later, NextLater
  <2> QED
    BY <1>1, <1>16, <2>1, Zenon DEF InOrder, Later, NextLater, BeginsWithSync, Sync
<1> QED
  BY <1>2, <1>4, <1>13, <1>14, <1>17 DEF Data

\* What grabScanData() leaves in the client's array.
LEMMA Grabbed ==
    ASSUME Shape, Grab
    PROVE  /\ wanted' \in Nat /\ wanted' <= cachedCount /\ cachedCount > 0 /\ cachedCount' = 0
           /\ \A k \in 1 .. wanted' : nodes'[k] = cached[k]
           /\ wanted' = 0 => nodes'[1] = nodes[1]
           /\ lock = "free" /\ cache # "copied"
<1> DEFINE n == Least(wanted, cachedCount)
           part == Prefix(cached, n)
           new == nodes'
<1>1. /\ wanted \in 0 .. NodesMax /\ cachedCount \in 0 .. ScanMax - 1
      /\ cached \in [1 .. ScanMax -> Node] /\ nodes \in [1 .. NodesMax -> Node]
  BY DEF Shape, TypeOK, DriverTyped, DisplayTyped
<1>2. /\ new = Over(nodes, part) /\ wanted' = n /\ cachedCount > 0 /\ cachedCount' = 0
      /\ lock = "free" /\ cache # "copied"
  BY DEF Grab, Shape, DriverShape
<1>3. ScanMax \in Nat /\ NodesMax \in Nat /\ 1 \in 1 .. NodesMax
  BY Sizes
<1>4. n \in Nat /\ n <= cachedCount /\ n <= NodesMax /\ n <= ScanMax
  BY <1>1, <1>3 DEF Least
<1> HIDE DEF n
<1>5. cached \in Seq(Node) /\ Len(cached) = ScanMax
  BY <1>1, <1>3, ArrayIsSeq
<1>6. Least(n, ScanMax) = n
  BY <1>3, <1>4 DEF Least
<1>7. part \in Seq(Node) /\ Len(part) = n /\ \A i \in 1 .. n : part[i] = cached[i]
  BY <1>4, <1>5, <1>6, PrefixIs
<1> HIDE DEF part
<1>8. \A i \in 1 .. NodesMax : new[i] = IF i <= n THEN part[i] ELSE nodes[i]
  BY <1>1, <1>2, <1>3, <1>7, CopyKeeps
<1> HIDE DEF new
<1>9. \A k \in 1 .. n : new[k] = cached[k]
  BY <1>3, <1>4, <1>7, <1>8
<1>10. n = 0 => new[1] = nodes[1]
  BY <1>3, <1>8
<1> QED
  BY <1>2, <1>4, <1>9, <1>10, Zenon DEF new

LEMMA GrabKeeps == Shape /\ Shape' /\ Data /\ Grab => Data'
<1> SUFFICES ASSUME Shape, Shape', Data, Grab PROVE Data'
  OBVIOUS
<1> DEFINE n == wanted'
<1>1. UNCHANGED <<sent, incoming, previous, batch, count, pos, scan, cache, cached>>
  BY DEF Grab, thread, sensor
<1>2. Queued' /\ upTo' = upTo
  <2>1. Sorting' = Sorting
    BY <1>1 DEF Sorting
  <2> QED
    BY <1>1, <2>1, QueueStays DEF Data
<1>3. Scanned' /\ Copied'
  BY <1>1, <1>2, Zenon DEF Data, Scanned, Copied, BeginsWithSync, Sync
<1>4. /\ n \in Nat /\ n <= cachedCount /\ cachedCount > 0 /\ cachedCount' = 0
      /\ \A k \in 1 .. n : nodes'[k] = cached[k]
      /\ n = 0 => nodes'[1] = nodes[1]
      /\ lock = "free" /\ cache # "copied"
  BY Grabbed
<1>5. PICK from \in 1 .. Len(Stream), to \in 1 .. Len(Stream) :
         /\ IsRevolution(from, to) /\ Shows(cached, cachedCount, from)
         /\ cachedCount = Least(to - from + 1, ScanMax - 1)
  BY <1>4 DEF Data, InCache
<1>6. cachedCount \in Nat
  BY Sizes DEF Shape, TypeOK, DriverTyped
<1> HIDE DEF n
<1>7. n <= to - from + 1
  <2> DEFINE size == to - from + 1
             room == ScanMax - 1
  <2>1. size \in Int /\ room \in Nat
    BY <1>5, StreamTyped, Sizes
  <2>2. cachedCount = Least(size, room)
    BY <1>5
  <2> HIDE DEF size, room
  <2>3. cachedCount <= size
    BY <1>6, <2>1, <2>2 DEF Least
  <2>4. n <= size
    BY <1>4, <1>6, <2>1, <2>3
  <2> QED
    BY <2>4 DEF size
<1>8. \A k \in 1 .. n : nodes'[k] = Stream[from + k - 1]
  <2>1. \A k \in 1 .. n : k \in 1 .. cachedCount
    BY <1>4, <1>6
  <2> QED
    BY <1>4, <1>5, <2>1 DEF Shows
<1>9. InNodes'
  BY <1>5, <1>7, <1>8, Zenon DEF InNodes, IsRevolution, Shows, Sync, n
<1>10. InCache'
  BY <1>4 DEF InCache
<1>11. Later(nodes[1].rev) /\ Later(cached[1].rev)
  BY <1>4 DEF Data, InOrder
<1>12. nodes'[1] = nodes[1] \/ nodes'[1] = cached[1]
  <2>1. CASE n = 0
    BY <2>1, <1>4
  <2>2. CASE n # 0
    <3>1. 1 \in 1 .. n
      BY <2>2, <1>4
    <3> QED
      BY <3>1, <1>4
  <2> QED
    BY <2>1, <2>2
<1>13. InOrder'
  <2>1. Later(nodes[1].rev)'
    BY <1>1, <1>2, <1>11, <1>12, Zenon DEF Later, BeginsWithSync, Sync
  <2>2. ~(cachedCount' > 0)
    BY <1>4
  <2> QED
    BY <2>1, <2>2 DEF InOrder
<1> QED
  BY <1>2, <1>3, <1>9, <1>10, <1>13 DEF Data

\* The client's other steps and those of the world around.
LEMMA OthersKeep ==
    ASSUME Data,
           UNCHANGED <<sent, incoming, previous, batch, count, pos, scan, cache, cached,
                       cachedCount, lock, nodes>>,
           wanted' = wanted \/ wanted' = 0
    PROVE  Data'
<1>1. Queued' /\ upTo' = upTo
  <2>1. Sorting' = Sorting
    BY DEF Sorting
  <2> QED
    BY <2>1, QueueStays DEF Data
<1>2. Scanned' /\ Copied'
  BY <1>1, Zenon DEF Data, Scanned, Copied, BeginsWithSync, Sync
<1>3. InOrder'
  BY <1>1, Zenon DEF Data, InOrder, Later, BeginsWithSync, Sync
<1>4. InCache'
  BY DEF Data, InCache, IsRevolution, Shows, Sync
<1>5. InNodes'
  <2>1. CASE wanted' = wanted
    BY <2>1 DEF Data, InNodes, IsRevolution, Shows, Sync
  <2>2. CASE wanted' = 0
    <3>1. ~(wanted' > 0)
      BY <2>2
    <3> QED
      BY <3>1 DEF InNodes
  <2> QED
    BY <2>1, <2>2
<1> QED
  BY <1>1, <1>2, <1>3, <1>4, <1>5 DEF Data

LEMMA InitIntact == Init => Intact
<1> SUFFICES ASSUME Init PROVE Data
  BY DEF Intact
<1>1. /\ incoming = << >> /\ previous = << >> /\ scan = << >> /\ cache = "discard"
      /\ cachedCount = 0 /\ sent = 0 /\ nodes = [i \in 1 .. NodesMax |-> Blank]
  BY DEF Init
<1>2. ~Sorting /\ ~BeginsWithSync(scan)
  BY <1>1 DEF Sorting, BeginsWithSync
<1>3. nodes[1].rev = 0
  <2>1. 1 \in 1 .. NodesMax
    BY Sizes
  <2> QED
    BY <1>1, <2>1 DEF Blank
<1>4. Before = 0 - 0 /\ upTo = Before - 0 - 0
  BY <1>1, <1>2, NothingFollows DEF Before, upTo
<1>5. upTo >= 0
  BY <1>4
<1>6. Queued
  BY <1>1, <1>2, <1>5, NothingFollows, Zenon DEF Queued
<1>7. Scanned /\ Copied /\ InCache /\ InNodes
  BY <1>1, <1>2, <1>3 DEF Scanned, Copied, InCache, InNodes
<1>8. InOrder
  <2>1. \A k \in 1 .. Len(Stream) : Stream[k].rev > 0
    BY SensorAssumption, StreamTyped
  <2> QED
    BY <1>1, <1>2, <1>3, <2>1 DEF InOrder, Later
<1> QED
  BY <1>6, <1>7, <1>8 DEF Data

LEMMA StepIntact == Shape /\ Shape' /\ Intact /\ [Next]_vars => Intact'
<1> SUFFICES ASSUME Shape, Shape', Intact, [Next]_vars, ~lost', ~replayed' PROVE Data'
  BY DEF Intact
<1>1. lost \in BOOLEAN /\ replayed \in BOOLEAN /\ lost' \in BOOLEAN /\ replayed' \in BOOLEAN
  BY DEF Shape, TypeOK, SensorTyped
<1>2. ~lost /\ ~replayed
  BY <1>1 DEF Next, CacheThread, Display, Receive, Lose, CollectNodes, TimeOutNodes,
              CollectCapsule, CollectFirstCapsule, DropCapsule, EndOnError, Sort,
              PublishNodes, PublishCount,
              TakeEvent, AwaitEvent, EventTimesOut, NothingToGrab, Grab, Show, StopScanning,
              Join, StopSensor, Dispose, PressCtrlC, Unplug, vars
<1>3. Data /\ Queued
  BY <1>2 DEF Intact, Data
<1> DEFINE Waits == \/ Receive \/ CollectNodes \/ TimeOutNodes
                    \/ CollectCapsule \/ DropCapsule \/ EndOnError
<1>4. CASE Waits
  <2>1. Advances
    BY <1>3, <1>4, ReceiveAdvances, CollectNodesAdvances, CollectCapsuleAdvances,
       OtherWaitsAdvance
  <2>2. /\ UNCHANGED <<scan, lock, cached, cachedCount, nodes, wanted>>
        /\ cache # "copied" /\ cache' # "copied"
    BY <1>4 DEF Receive, CollectNodes, TimeOutNodes, CollectCapsule, DropCapsule, EndOnError,
                Waiting, AfterWait, LoopHead, driver, display
  <2> QED
    BY <1>3, <2>1, <2>2, CollectKeeps
<1>5. CASE Sort
  BY <1>3, <1>5, SortKeeps
<1>6. CASE PublishNodes
  BY <1>3, <1>6, PublishNodesKeeps
<1>7. CASE PublishCount
  BY <1>3, <1>7, PublishCountKeeps
<1>8. CASE Grab
  BY <1>3, <1>8, GrabKeeps
<1>9. CASE Lose
  BY <1>9 DEF Lose
<1>9a. CASE CollectFirstCapsule
  <2>1. previous = << >> /\ lost' = lost
    BY <1>1, <1>2, <1>9a DEF CollectFirstCapsule
  <2>2. CollectCapsule
    BY <1>9a, <2>1, NothingFollows DEF CollectFirstCapsule, CollectCapsule, Waiting
  <2> QED
    BY <1>4, <2>2
<1>10. CASE \/ TakeEvent \/ AwaitEvent \/ EventTimesOut \/ NothingToGrab \/ Show
            \/ StopScanning \/ Join \/ StopSensor \/ Dispose \/ PressCtrlC \/ Unplug
            \/ UNCHANGED vars
  <2>1. /\ UNCHANGED <<sent, incoming, previous, batch, count, pos, scan, cache, cached,
                       cachedCount, lock, nodes>>
        /\ wanted' = wanted \/ wanted' = 0
    BY <1>10 DEF TakeEvent, AwaitEvent, EventTimesOut, NothingToGrab, Show, StopScanning,
                 Join, StopSensor, Dispose, PressCtrlC, Unplug, vars, sensor, thread, driver,
                 display
  <2> QED
    BY <1>3, <2>1, OthersKeep
<1> QED
  BY <1>4, <1>5, <1>6, <1>7, <1>8, <1>9, <1>9a, <1>10 DEF Next, CacheThread, Display

LEMMA IntactHolds == Spec => []Intact
BY InitIntact, StepIntact, ShapeHolds, PTL DEF Spec

-----------------------------------------------------------------------------
(* What holds of a published scan whatever gets lost or times out.         *)

\* Only the first measurement of local_scan may carry the sync bit.
SyncFirst == \A k \in 1 .. Len(scan) : Sync(scan[k]) => k = 1

\* The cache offers a scan.
full == cachedCount > 0 /\ cache # "copied"

Framed ==
    /\ SyncFirst
    /\ Copied
    /\ full => OneSync(cached, cachedCount)
    /\ nodes[1] # Blank => OneSync(nodes, wanted)

\* What local_scan begins with after a batch, or a part of it, has been sorted.
LEMMA SortFirst ==
    ASSUME Shape, Sort, NEW end \in Nat, Sorted(end), BeginsWithSync(scan')
    PROVE  \/ BeginsWithSync(scan) /\ scan'[1] = scan[1]
           \/ /\ pos <= count /\ end > pos /\ Sync(batch[pos])
              /\ scan'[1] = batch[pos]
<1> DEFINE begins == pos <= count /\ Sync(batch[pos]) /\ end > pos
           kept == IF begins THEN << >> ELSE scan
           m == Len(kept)
           n == end - pos
           all == m + n
           s == scan'
<1>1. cache = "sort" /\ end \in pos .. count + 1 /\ s = NotFull(Continued(end))
  BY DEF Sort, Sorted
<1>2. /\ pos \in Nat /\ count \in Nat /\ ScanMax - 1 \in Nat /\ scan \in Seq(Node)
  BY Sizes DEF Shape, TypeOK, ThreadTyped
<1>3. kept \in Seq(Node) /\ m \in Nat
  BY <1>2, EmptySeq, LenProperties
<1>4. n \in Nat /\ all \in Nat
  BY <1>1, <1>2, <1>3
<1>5. /\ s \in Seq(Node)
      /\ Len(s) = Least(ScanMax - 1, all)
      /\ \A k \in 1 .. Least(ScanMax - 1, all) :
            s[k] = IF k <= m THEN kept[k] ELSE batch[pos + (k - m) - 1]
  BY <1>1, Continues
<1> HIDE DEF s, all, m
<1>6. Least(ScanMax - 1, all) >= 1
  <2>1. s # << >>
    BY DEF BeginsWithSync, s
  <2>2. Len(s) \in Nat /\ Len(s) # 0
    BY <1>5, <2>1, EmptySeq, LenProperties
  <2> DEFINE l == Len(s)
  <2>3. l = Least(ScanMax - 1, all) /\ l \in Nat /\ l # 0
    BY <1>5, <2>2
  <2> HIDE DEF l
  <2>4. l >= 1
    BY <2>3
  <2> QED
    BY <2>3, <2>4
<1>7. all >= 1
  <2> DEFINE least == Least(ScanMax - 1, all)
  <2>1. least \in Nat /\ least <= all
    BY <1>2, <1>4, LeastIs
  <2>2. least >= 1
    BY <1>6
  <2> HIDE DEF least
  <2> QED
    BY <1>4, <2>1, <2>2
<1>8. s[1] = IF 1 <= m THEN kept[1] ELSE batch[pos + (1 - m) - 1]
  <2>1. Least(ScanMax - 1, all) \in Nat
    BY <1>2, <1>4, LeastIs
  <2> QED
    BY <1>5, <1>6, <2>1
<1>9. CASE begins
  <2>1. m = 0
    BY <1>9, EmptySeq DEF m
  <2>2. ~(1 <= m) /\ pos + (1 - m) - 1 = pos
    BY <1>2, <2>1
  <2> QED
    BY <1>8, <1>9, <2>2 DEF s
<1>10. CASE ~begins /\ scan # << >>
  <2>1. kept = scan
    BY <1>10
  <2>2. m # 0
    BY <1>2, <1>10, <2>1, EmptySeq DEF m
  <2>3. 1 <= m
    BY <1>3, <2>2
  <2>4. s[1] = scan[1]
    BY <1>8, <2>1, <2>3
  <2>5. Sync(s[1])
    BY DEF BeginsWithSync, s
  <2> QED
    BY <1>10, <2>4, <2>5 DEF BeginsWithSync, s
<1>11. CASE ~begins /\ scan = << >>
  <2>1. m = 0
    BY <1>11, EmptySeq DEF m
  <2>2. n >= 1
    BY <1>3, <1>4, <1>7, <2>1 DEF all
  <2>3. end > pos /\ pos <= count
    BY <1>1, <1>2, <2>2
  <2>4. ~(1 <= m) /\ pos + (1 - m) - 1 = pos
    BY <1>2, <2>1
  <2>5. Sync(batch[pos])
    BY <1>8, <2>4 DEF BeginsWithSync, s
  <2> QED
    BY <1>11, <2>3, <2>5
<1> QED
  BY <1>9, <1>10, <1>11

LEMMA SortSyncFirst == Shape /\ SyncFirst /\ Sort => SyncFirst'
<1> SUFFICES ASSUME Shape, SyncFirst, Sort PROVE SyncFirst'
  OBVIOUS
<1>1. PICK end \in Nat : Sorted(end)
  BY SortGoesOn
<1> DEFINE begins == pos <= count /\ Sync(batch[pos]) /\ end > pos
           kept == IF begins THEN << >> ELSE scan
           m == Len(kept)
           n == end - pos
           all == m + n
           s == scan'
           least == Least(ScanMax - 1, all)
<1>2. /\ cache = "sort" /\ end \in pos .. count + 1 /\ s = NotFull(Continued(end))
      /\ \A i \in pos .. end - 1 : Sync(batch[i]) => i = pos /\ ~BeginsWithSync(scan)
  BY <1>1 DEF Sort, Sorted
<1>3. pos \in Nat /\ count \in Nat /\ ScanMax - 1 \in Nat /\ scan \in Seq(Node)
  BY Sizes DEF Shape, TypeOK, ThreadTyped
<1>4. kept \in Seq(Node) /\ m \in Nat
  BY <1>3, EmptySeq, LenProperties
<1>5. n \in Nat /\ all \in Nat
  BY <1>2, <1>3, <1>4
<1>6. /\ s \in Seq(Node)
      /\ Len(s) = least
      /\ \A k \in 1 .. least : s[k] = IF k <= m THEN kept[k] ELSE batch[pos + (k - m) - 1]
  BY <1>2, Continues
<1>7. least \in Nat /\ least <= all
  BY <1>3, <1>5, LeastIs
<1>8. ASSUME NEW k \in 1 .. Len(s), Sync(s[k]) PROVE k = 1
  <2>0. k \in 1 .. least
    BY <1>6, <1>8
  <2> HIDE DEF least, all, m, s
  <2>1. CASE k <= m
    <3>1. kept # << >>
      BY <1>4, <2>0, <2>1, <1>7, EmptySeq DEF m
    <3>2. kept = scan
      BY <3>1
    <3>3. s[k] = scan[k]
      BY <1>6, <2>0, <2>1, <3>2
    <3>4. k \in 1 .. Len(scan)
      BY <1>4, <1>7, <2>0, <2>1, <3>2 DEF m
    <3> QED
      BY <1>8, <3>3, <3>4 DEF SyncFirst
  <2>2. CASE ~(k <= m)
    <3> DEFINE i == pos + (k - m) - 1
    <3>1. i \in pos .. end - 1 /\ (i = pos => k = m + 1)
      BY <1>2, <1>3, <1>4, <1>5, <1>7, <2>0, <2>2 DEF all
    <3>2. s[k] = batch[i]
      BY <1>6, <2>0, <2>2
    <3> HIDE DEF i
    <3>3. i = pos /\ Sync(batch[pos])
      BY <1>2, <1>8, <3>1, <3>2
    <3>4. pos <= count /\ end > pos
      BY <1>2, <1>3, <3>1, <3>3
    <3>5. m = 0
      BY <3>3, <3>4, EmptySeq DEF m
    <3> QED
      BY <3>1, <3>3, <3>5
  <2> QED
    BY <2>1, <2>2
<1> QED
  BY <1>8, Zenon DEF SyncFirst, s

LEMMA PublishCountFramed == Shape /\ Framed /\ PublishCount => Framed'
<1> SUFFICES ASSUME Shape, Framed, PublishCount PROVE Framed'
  OBVIOUS
<1>1. /\ cache = "copied" /\ cachedCount' = Len(scan) /\ scan' = << >> /\ cache' = "sort"
      /\ UNCHANGED <<cached, nodes, wanted>>
  BY DEF PublishCount, display
<1>2. SyncFirst' /\ Copied'
  BY <1>1, NothingFollows DEF SyncFirst, Copied
<1>3. /\ \A k \in 1 .. Len(scan) : cached[k] = scan[k] /\ (Sync(scan[k]) => k = 1)
      /\ Sync(scan[1])
  BY <1>1 DEF Framed, Copied, SyncFirst, Shape, ThreadShape, BeginsWithSync
<1>4. OneSync(cached, Len(scan))
  BY <1>3 DEF OneSync
<1>5. full' => OneSync(cached, cachedCount)'
  BY <1>1, <1>4 DEF OneSync, Sync
<1>6. (nodes[1] # Blank => OneSync(nodes, wanted))'
  BY <1>1 DEF Framed, OneSync, Sync
<1> QED
  BY <1>2, <1>5, <1>6 DEF Framed

LEMMA GrabFramed == Shape /\ Framed /\ Grab => Framed'
<1> SUFFICES ASSUME Shape, Framed, Grab PROVE Framed'
  OBVIOUS
<1> DEFINE n == wanted'
           new == nodes'
<1>1. /\ n \in Nat /\ n <= cachedCount /\ cachedCount > 0 /\ cachedCount' = 0
      /\ \A k \in 1 .. n : new[k] = cached[k]
      /\ cache # "copied"
  BY Grabbed
<1>2. cachedCount \in Nat /\ UNCHANGED <<scan, cache, cached>>
  BY Sizes DEF Shape, TypeOK, DriverTyped, Grab, thread
<1>3. SyncFirst' /\ Copied' /\ ~full'
  BY <1>1, <1>2 DEF Framed, SyncFirst, Copied, full, Sync
<1> HIDE DEF n, new
<1>4. \A k \in 1 .. n : Sync(new[k]) <=> k = 1
  BY <1>1, <1>2 DEF Framed, full, OneSync
<1>5. OneSync(nodes, wanted)'
  BY <1>4, Zenon DEF OneSync, Sync, n, new
<1> QED
  BY <1>3, <1>5 DEF Framed

LEMMA InitFramed == Init => Framed
<1> SUFFICES ASSUME Init PROVE Framed
  OBVIOUS
<1>1. scan = << >> /\ cache = "discard" /\ cachedCount = 0 /\ nodes[1] = Blank
  BY Sizes DEF Init
<1> QED
  BY <1>1, NothingFollows DEF Framed, SyncFirst, Copied, full

LEMMA StepFramed == Shape /\ Framed /\ [Next]_vars => Framed'
<1> SUFFICES ASSUME Shape, Framed, [Next]_vars PROVE Framed'
  OBVIOUS
<1>1. CASE Sort
  <2>1. SyncFirst'
    BY <1>1, SortSyncFirst DEF Framed
  <2>2. /\ UNCHANGED <<cached, cachedCount, nodes, wanted>>
        /\ cache = "sort" /\ cache' # "copied"
    BY <1>1 DEF Sort, LoopHead, driver, display
  <2> QED
    BY <2>1, <2>2 DEF Framed, Copied, full, OneSync, Sync
<1>2. CASE PublishNodes
  <2>1. Copied'
    BY <1>2, PublishCopies
  <2>2. UNCHANGED <<scan, nodes, wanted>> /\ ~full'
    BY <1>2 DEF PublishNodes, display, full
  <2> QED
    BY <2>1, <2>2 DEF Framed, SyncFirst, OneSync, Sync
<1>3. CASE PublishCount
  BY <1>3, PublishCountFramed
<1>4. CASE Grab
  BY <1>4, GrabFramed
<1>5. CASE \/ Receive \/ Lose \/ CollectNodes \/ TimeOutNodes \/ CollectCapsule
           \/ CollectFirstCapsule \/ DropCapsule \/ EndOnError
  <2>1. /\ UNCHANGED <<scan, cached, cachedCount, nodes, wanted>>
        /\ cache # "copied" /\ cache' # "copied"
    BY <1>5 DEF Receive, Lose, CollectNodes, TimeOutNodes, CollectCapsule,
                CollectFirstCapsule, DropCapsule, EndOnError, Waiting, AfterWait, LoopHead,
                thread, driver, display
  <2> QED
    BY <2>1 DEF Framed, SyncFirst, Copied, full, OneSync, Sync
<1>6. CASE \/ TakeEvent \/ AwaitEvent \/ EventTimesOut \/ NothingToGrab \/ Show
           \/ StopScanning \/ Join \/ StopSensor \/ Dispose \/ PressCtrlC \/ Unplug
           \/ UNCHANGED vars
  <2>1. /\ UNCHANGED <<scan, cache, cached, cachedCount, nodes>>
        /\ wanted' = wanted \/ wanted' = 0
    BY <1>6 DEF TakeEvent, AwaitEvent, EventTimesOut, NothingToGrab, Show, StopScanning,
                Join, StopSensor, Dispose, PressCtrlC, Unplug, vars, thread, driver, display
  <2>2. SyncFirst' /\ Copied' /\ (full' => OneSync(cached, cachedCount)')
    BY <2>1 DEF Framed, SyncFirst, Copied, full, OneSync, Sync
  <2>3. CASE wanted' = wanted
    BY <2>1, <2>2, <2>3 DEF Framed, OneSync, Sync
  <2>4. CASE wanted' = 0
    <3>1. OneSync(nodes, wanted)'
      BY <2>4 DEF OneSync
    <3> QED
      BY <2>2, <3>1 DEF Framed
  <2> QED
    BY <2>1, <2>3, <2>4
<1> QED
  BY <1>1, <1>2, <1>3, <1>4, <1>5, <1>6 DEF Next, CacheThread, Display

LEMMA FramedHolds == Spec => []Framed
BY InitFramed, StepFramed, ShapeHolds, PTL DEF Spec

\* Whatever is lost or times out, what the cache offers and what the client has begins
\* with a sync bit and has no other.  Until a measurement is lost or a wait fails, the
\* cache offers one whole revolution, up to its size, and the client has the
\* beginning of one, however the cache thread and grabScanData() interleave.
THEOREM GrabsBelongToOneRevolution == Spec => []GrabsOneRevolution
<1>1. Intact /\ Framed /\ Shape => GrabsOneRevolution
  BY DEF Intact, Data, InCache, InNodes, Framed, full, Shape, DriverShape, GrabsOneRevolution
<1> QED
  BY <1>1, IntactHolds, FramedHolds, ShapeHolds, PTL

-----------------------------------------------------------------------------
(* The order of revolutions, as long as no wait fails.  Measurements may   *)
(* get lost; it is the sync bits that must come one after another.         *)

latest == IF sent = 0 THEN 0 ELSE Stream[sent].rev

\* Of two measurements with sync bits, the second is of a later revolution.
Earlier(m, n) == Sync(m) /\ Sync(n) => m.rev < n.rev

\* What waits to be sorted is in order, and the sensor has not got further yet.
InLine ==
    /\ \A i \in 1 .. Len(incoming) :
          /\ incoming[i].rev <= latest
          /\ \A j \in 1 .. Len(incoming) : i < j => Earlier(incoming[i], incoming[j])
    /\ \A i \in 1 .. Len(previous) :
          /\ previous[i].rev <= latest
          /\ \A j \in 1 .. Len(previous) : i < j => Earlier(previous[i], previous[j])
          /\ \A j \in 1 .. Len(incoming) : Earlier(previous[i], incoming[j])
    /\ Sorting => \A i \in pos .. count :
          /\ batch[i].rev <= latest
          /\ \A j \in pos .. count : i < j => Earlier(batch[i], batch[j])
          /\ \A j \in 1 .. Len(previous) : Earlier(batch[i], previous[j])

\* Every sync bit that waits or will come is of a later revolution than r.
AheadOf(r) ==
    /\ r <= latest
    /\ \A i \in 1 .. Len(incoming) : Sync(incoming[i]) => r < incoming[i].rev
    /\ \A i \in 1 .. Len(previous) : Sync(previous[i]) => r < previous[i].rev
    /\ Sorting => \A i \in pos .. count : Sync(batch[i]) => r < batch[i].rev

\* The client's scan, the one in the cache, and the one being collected.
Chain ==
    /\ AheadOf(nodes[1].rev)
    /\ full => nodes[1].rev < cached[1].rev /\ AheadOf(cached[1].rev)
    /\ BeginsWithSync(scan) =>
          /\ nodes[1].rev < scan[1].rev /\ AheadOf(scan[1].rev)
          /\ full => cached[1].rev < scan[1].rev

Ordered == ~replayed => InLine /\ Chain

\* What a step has to show: the queue moves on and stays in order.
NextAheadOf(r) ==
    /\ r <= latest'
    /\ \A i \in 1 .. Len(incoming') : Sync(incoming'[i]) => r < incoming'[i].rev
    /\ \A i \in 1 .. Len(previous') : Sync(previous'[i]) => r < previous'[i].rev
    /\ Sorting' => \A i \in pos' .. count' : Sync(batch'[i]) => r < batch'[i].rev

MovesOn == InLine' /\ \A r \in Nat : AheadOf(r) => NextAheadOf(r)

\* A new measurement is not earlier than the last one, and later if it has a sync bit.
LEMMA LatestGrows ==
    ASSUME Shape, Emit
    PROVE  /\ latest \in Nat /\ latest' \in Nat /\ latest <= latest'
           /\ latest' = Stream[sent'].rev
           /\ Sync(Stream[sent']) => latest < latest'
<1> DEFINE s == sent'
<1>1. sent \in Nat /\ s = sent + 1 /\ s \in 1 .. Len(Stream)
  BY StreamTyped DEF Emit, Shape, TypeOK, SensorTyped
<1>2. latest' = Stream[s].rev
  BY <1>1 DEF latest
<1>3. Stream[s].rev \in Nat /\ Stream[s].rev > 0
  BY <1>1, SensorAssumption, StreamTyped DEF Node
<1>4. CASE sent = 0
  <2>1. latest = 0
    BY <1>4 DEF latest
  <2> HIDE DEF s
  <2> QED
    BY <1>2, <1>3, <2>1 DEF s
<1>5. CASE sent # 0
  <2>1. latest = Stream[sent].rev /\ sent \in 1 .. Len(Stream) /\ sent <= s
    BY <1>1, <1>5, StreamTyped DEF latest
  <2> HIDE DEF s
  <2>2. /\ Stream[sent].rev \in Nat /\ Stream[sent].rev <= Stream[s].rev
        /\ Stream[sent].rev = Stream[s].rev => \A k \in sent + 1 .. s : ~Sync(Stream[k])
    BY <1>1, <2>1, SensorAssumption, StreamTyped DEF Node
  <2>3. s \in sent + 1 .. s
    BY <1>1
  <2>4. Sync(Stream[s]) => Stream[sent].rev < Stream[s].rev
    BY <1>3, <2>2, <2>3
  <2> QED
    BY <1>2, <1>3, <2>1, <2>2, <2>4 DEF s
<1> QED
  BY <1>4, <1>5

\* The revolutions in the queue are numbers.
LEMMA QueueRevs ==
    Shape => /\ latest \in Nat
             /\ \A i \in 1 .. Len(incoming) : incoming[i].rev \in Nat
             /\ \A i \in 1 .. Len(previous) : previous[i].rev \in Nat
             /\ Sorting => \A i \in pos .. count : batch[i].rev \in Nat
<1> SUFFICES ASSUME Shape
             PROVE  /\ latest \in Nat
                    /\ \A i \in 1 .. Len(incoming) : incoming[i].rev \in Nat
                    /\ \A i \in 1 .. Len(previous) : previous[i].rev \in Nat
                    /\ Sorting => \A i \in pos .. count : batch[i].rev \in Nat
  OBVIOUS
<1>1. sent \in 0 .. Len(Stream)
  BY DEF Shape, TypeOK, SensorTyped
<1>2. latest \in Nat
  BY <1>1, StreamTyped DEF latest, Node
<1>3. incoming \in Seq(Node) /\ previous \in Seq(Node) /\ batch \in Seq(Node)
  BY DEF Shape, TypeOK, ThreadTyped
<1>4. /\ \A i \in 1 .. Len(incoming) : incoming[i].rev \in Nat
      /\ \A i \in 1 .. Len(previous) : previous[i].rev \in Nat
      /\ \A i \in 1 .. Len(batch) : batch[i].rev \in Nat
  <2>1. /\ \A i \in 1 .. Len(incoming) : incoming[i] \in Node
        /\ \A i \in 1 .. Len(previous) : previous[i] \in Node
        /\ \A i \in 1 .. Len(batch) : batch[i] \in Node
    BY <1>3, ElementOfSeq
  <2>2. \A n \in Node : n.rev \in Nat
    BY DEF Node
  <2> QED
    BY <2>1, <2>2
<1>5. Sorting => pos \in Nat /\ pos >= 1 /\ count \in Nat /\ count <= Len(batch)
  BY Sizes DEF Shape, TypeOK, ThreadTyped, ThreadShape
<1>6. Len(batch) \in Nat
  BY <1>3, LenProperties
<1>7. Sorting => \A i \in pos .. count : batch[i].rev \in Nat
  BY <1>4, <1>5, <1>6
<1> QED
  BY <1>2, <1>4, <1>7

\* So is the revolution that local_scan begins with.
LEMMA ScanFirst ==
    Shape /\ BeginsWithSync(scan) => 1 \in 1 .. Len(scan) /\ scan[1].rev \in Nat
<1> SUFFICES ASSUME Shape, BeginsWithSync(scan)
             PROVE  1 \in 1 .. Len(scan) /\ scan[1].rev \in Nat
  OBVIOUS
<1>1. scan \in Seq(Node) /\ scan # << >>
  BY DEF Shape, TypeOK, ThreadTyped, BeginsWithSync
<1>2. Len(scan) \in Nat /\ Len(scan) # 0
  BY <1>1, EmptySeq, LenProperties
<1>3. 1 \in 1 .. Len(scan)
  BY <1>2
<1>4. scan[1] \in Node
  BY <1>1, <1>3, ElementOfSeq
<1> QED
  BY <1>3, <1>4 DEF Node

LEMMA ReceiveMovesOn == Shape /\ InLine /\ Receive => MovesOn
<1> SUFFICES ASSUME Shape, InLine, Receive PROVE MovesOn
  OBVIOUS
<1> DEFINE q == incoming'
           m == Len(incoming)
           new == Stream[sent']
           top == latest'
<1>1. /\ latest \in Nat /\ top \in Nat /\ latest <= top /\ top = new.rev
      /\ Sync(new) => latest < top
  BY LatestGrows DEF Receive
<1>2. ~Sorting /\ ~Sorting' /\ previous' = previous /\ q = Append(incoming, new)
  BY DEF Receive, Waiting, Sorting
<1>3. incoming \in Seq(Node) /\ new \in Node
  BY StreamTyped DEF Receive, Emit, Shape, TypeOK, ThreadTyped, SensorTyped
<1>4. m \in Nat
  BY <1>3, LenProperties
<1>5. Len(q) = m + 1 /\ q[m + 1] = new /\ \A k \in 1 .. m : q[k] = incoming[k]
  BY <1>2, <1>3, AppendProperties
<1>6. /\ \A i \in 1 .. m : incoming[i].rev \in Nat /\ incoming[i].rev <= latest
      /\ \A i \in 1 .. Len(previous) : previous[i].rev \in Nat /\ previous[i].rev <= latest
  BY QueueRevs DEF InLine
<1>7. \A i \in 1 .. m, j \in 1 .. m : i < j => Earlier(incoming[i], incoming[j])
  BY DEF InLine
<1>8. \A i \in 1 .. Len(previous), j \in 1 .. m : Earlier(previous[i], incoming[j])
  BY DEF InLine
<1>9. \A i \in 1 .. Len(previous), j \in 1 .. Len(previous) :
         i < j => Earlier(previous[i], previous[j])
  BY DEF InLine
<1> HIDE DEF q, m, new, top
<1>10. \A i \in 1 .. Len(q) : i \in 1 .. m \/ i = m + 1
  BY <1>4, <1>5
<1>11. \A i \in 1 .. m : Earlier(incoming[i], new)
  BY <1>1, <1>6 DEF Earlier
<1>12. \A i \in 1 .. Len(previous) : Earlier(previous[i], new)
  BY <1>1, <1>6 DEF Earlier
<1>13. \A i \in 1 .. Len(q) : q[i].rev <= top
  BY <1>1, <1>5, <1>6, <1>10
<1>14. \A i, j \in 1 .. Len(q) : i < j => Earlier(q[i], q[j])
  <2> SUFFICES ASSUME NEW i \in 1 .. Len(q), NEW j \in 1 .. Len(q), i < j
               PROVE  Earlier(q[i], q[j])
    OBVIOUS
  <2>1. i \in 1 .. m
    BY <1>4, <1>5
  <2> QED
    BY <1>5, <1>7, <1>10, <1>11, <2>1
<1>15. \A i \in 1 .. Len(previous) :
          /\ previous[i].rev <= top
          /\ \A j \in 1 .. Len(q) : Earlier(previous[i], q[j])
  BY <1>1, <1>5, <1>6, <1>8, <1>10, <1>12
<1>16. InLine'
  BY <1>2, <1>9, <1>13, <1>14, <1>15, Zenon DEF InLine, q, top, Earlier, Sync
<1>17. ASSUME NEW r \in Nat, AheadOf(r) PROVE NextAheadOf(r)
  <2>1. /\ r <= latest
        /\ \A i \in 1 .. m : Sync(incoming[i]) => r < incoming[i].rev
        /\ \A i \in 1 .. Len(previous) : Sync(previous[i]) => r < previous[i].rev
    BY <1>17 DEF AheadOf, m
  <2>2. r <= top /\ (Sync(new) => r < new.rev)
    BY <1>1, <2>1
  <2>3. \A i \in 1 .. Len(q) : Sync(q[i]) => r < q[i].rev
    BY <1>5, <1>10, <2>1, <2>2
  <2> QED
    BY <1>2, <2>1, <2>2, <2>3, Zenon DEF NextAheadOf, q, top
<1> QED
  BY <1>16, <1>17 DEF MovesOn

\* A measurement that is lost moves the sensor on, and nothing else.
LEMMA LoseMovesOn == Shape /\ InLine /\ Lose => MovesOn
<1> SUFFICES ASSUME Shape, InLine, Lose PROVE MovesOn
  OBVIOUS
<1> DEFINE top == latest'
<1>1. latest \in Nat /\ top \in Nat /\ latest <= top
  BY LatestGrows DEF Lose
<1>2. UNCHANGED <<incoming, previous>> /\ ~Sorting /\ ~Sorting'
  BY DEF Lose, thread, Waiting, Sorting
<1>3. /\ \A i \in 1 .. Len(incoming) : incoming[i].rev \in Nat /\ incoming[i].rev <= latest
      /\ \A i \in 1 .. Len(previous) : previous[i].rev \in Nat /\ previous[i].rev <= latest
  BY QueueRevs DEF InLine
<1> HIDE DEF top
<1>4. /\ \A i \in 1 .. Len(incoming) : incoming[i].rev <= top
      /\ \A i \in 1 .. Len(previous) : previous[i].rev <= top
  BY <1>1, <1>3
<1>5. InLine'
  BY <1>2, <1>4, Zenon DEF InLine, top, Earlier, Sync
<1>6. ASSUME NEW r \in Nat, AheadOf(r) PROVE NextAheadOf(r)
  <2>1. r <= top
    BY <1>1, <1>6 DEF AheadOf
  <2> QED
    BY <1>2, <1>6, <2>1, Zenon DEF AheadOf, NextAheadOf, top
<1> QED
  BY <1>5, <1>6 DEF MovesOn

\* Steps after which parts of the queue are gone, and nothing is sorted.
LEMMA DroppingMovesOn ==
    ASSUME Shape, InLine, sent' = sent, ~Sorting',
           incoming' \in {<< >>, incoming}, previous' \in {<< >>, previous}
    PROVE  MovesOn
<1>1. latest' = latest
  BY DEF latest
<1>2. InLine'
  BY <1>1, NothingFollows DEF InLine, Earlier, Sync
<1>3. ASSUME NEW r \in Nat, AheadOf(r) PROVE NextAheadOf(r)
  BY <1>1, <1>3, NothingFollows DEF AheadOf, NextAheadOf
<1> QED
  BY <1>2, <1>3 DEF MovesOn

\* local_buf after a wait that brought all it is sorted for.
LEMMA CollectNodesMovesOn == Shape /\ InLine /\ CollectNodes => MovesOn
<1> SUFFICES ASSUME Shape, InLine, CollectNodes PROVE MovesOn
  OBVIOUS
<1>1. /\ sent' = sent /\ incoming' = << >> /\ previous' = previous /\ previous = << >>
      /\ batch' = Over(batch, incoming) /\ count' = Len(incoming)
  BY DEF CollectNodes, AfterWait, LoopHead, sensor, Shape, ThreadShape
<1>2. latest' = latest
  BY <1>1 DEF latest
<1>3. CASE ~Sorting'
  BY <1>1, <1>3, DroppingMovesOn
<1>4. CASE Sorting'
  <2>1. pos' = 1
    BY <1>4 DEF CollectNodes, AfterWait, LoopHead, Sorting, Waiting
  <2> DEFINE m == Len(incoming)
             b == Over(batch, incoming)
  <2>2. incoming \in Seq(Node) /\ batch \in Seq(Node) /\ m <= BatchMax /\ Len(batch) = BatchMax
    BY DEF CollectNodes, Shape, TypeOK, ThreadTyped, ThreadShape
  <2>3. m \in Nat
    BY <2>2, LenProperties
  <2>4. \A i \in 1 .. Len(batch) : b[i] = IF i <= m THEN incoming[i] ELSE batch[i]
    BY <2>2, OverKeeps
  <2> HIDE DEF m, b
  <2>5. \A i \in 1 .. m : b[i] = incoming[i]
    BY <2>2, <2>3, <2>4, Sizes
  <2>6. \A i \in 1 .. m :
           /\ b[i].rev <= latest
           /\ \A j \in 1 .. m : i < j => Earlier(b[i], b[j])
    BY <2>5 DEF InLine, m
  <2>7. InLine'
    BY <1>1, <1>2, <2>1, <2>6, NothingFollows DEF InLine, Earlier, Sync, m, b
  <2>8. ASSUME NEW r \in Nat, AheadOf(r) PROVE NextAheadOf(r)
    <3>1. r <= latest /\ \A i \in 1 .. m : Sync(b[i]) => r < b[i].rev
      BY <2>5, <2>8 DEF AheadOf, m
    <3> QED
      BY <1>1, <1>2, <2>1, <3>1, NothingFollows DEF NextAheadOf, m, b
  <2> QED
    BY <2>7, <2>8 DEF MovesOn
<1> QED
  BY <1>3, <1>4

\* The capsule before is sorted, and the one that has come in takes its place.
LEMMA CapsuleMovesOn ==
    ASSUME Shape, InLine, CollectCapsule \/ CollectFirstCapsule
    PROVE  MovesOn
<1>1. sent' = sent /\ incoming' = << >> /\ cache \in {"discard", "collect"}
  BY DEF CollectCapsule, CollectFirstCapsule, AfterWait, LoopHead, Waiting, sensor
<1>2. latest' = latest
  BY <1>1 DEF latest
<1>3. CASE cache = "discard"
  <2>1. previous' = previous /\ ~Sorting'
    BY <1>3 DEF CollectCapsule, CollectFirstCapsule, AfterWait, LoopHead, Sorting
  <2> QED
    BY <1>1, <2>1, DroppingMovesOn
<1>4. CASE cache = "collect"
  <2> DEFINE b == batch'
  <2>1. /\ pos' = 1 /\ previous' = incoming /\ count' = Len(b)
        /\ b \in {<< >>, previous}
    BY <1>4, NothingFollows DEF CollectCapsule, CollectFirstCapsule, AfterWait
  <2> HIDE DEF b
  <2>2. \A i \in 1 .. Len(b) :
           /\ b[i].rev <= latest
           /\ \A j \in 1 .. Len(b) : i < j => Earlier(b[i], b[j])
           /\ \A j \in 1 .. Len(incoming) : Earlier(b[i], incoming[j])
    BY <2>1, NothingFollows DEF InLine
  <2>3. \A i \in 1 .. Len(incoming) :
           /\ incoming[i].rev <= latest
           /\ \A j \in 1 .. Len(incoming) : i < j => Earlier(incoming[i], incoming[j])
    BY DEF InLine
  <2>4. InLine'
    BY <1>1, <1>2, <2>1, <2>2, <2>3, NothingFollows DEF InLine, Earlier, Sync, b
  <2>5. ASSUME NEW r \in Nat, AheadOf(r) PROVE NextAheadOf(r)
    <3>1. /\ r <= latest
          /\ \A i \in 1 .. Len(incoming) : Sync(incoming[i]) => r < incoming[i].rev
          /\ \A i \in 1 .. Len(b) : Sync(b[i]) => r < b[i].rev
      BY <2>1, <2>5, NothingFollows DEF AheadOf
    <3> QED
      BY <1>1, <1>2, <2>1, <3>1, NothingFollows DEF NextAheadOf, b
  <2> QED
    BY <2>4, <2>5 DEF MovesOn
<1> QED
  BY <1>1, <1>3, <1>4

\* Sorting takes measurements from the front of the queue.
LEMMA SortMovesOn ==
    ASSUME Shape, InLine, Sort, NEW end \in Nat, Sorted(end)
    PROVE  MovesOn
<1>1. /\ UNCHANGED <<sent, batch, count, previous>> /\ cache = "sort" /\ Sorting
      /\ incoming = << >> /\ incoming' \in {<< >>, incoming}
  BY DEF Sort, Sorted, LoopHead, Sorting, sensor, Shape, ThreadShape
<1>2. latest' = latest
  BY <1>1 DEF latest
<1>3. /\ pos \in Nat /\ count \in Nat /\ end \in pos .. count + 1 /\ pos' = end
  BY Sizes DEF Sorted, Shape, TypeOK, ThreadTyped
<1>4. \A i \in end .. count : i \in pos .. count
  BY <1>3
<1>5. incoming' = incoming
  BY <1>1
<1>6. InLine'
  BY <1>1, <1>2, <1>3, <1>4, <1>5 DEF InLine, Earlier, Sync
<1>7. ASSUME NEW r \in Nat, AheadOf(r) PROVE NextAheadOf(r)
  BY <1>1, <1>2, <1>3, <1>4, <1>5, <1>7 DEF AheadOf, NextAheadOf
<1> QED
  BY <1>6, <1>7 DEF MovesOn

\* The steps that leave the queue alone.
LEMMA StandingMovesOn ==
    ASSUME InLine, UNCHANGED <<sent, incoming, previous, batch, count, pos>>,
           Sorting' = Sorting
    PROVE  MovesOn
<1>1. latest' = latest
  BY DEF latest
<1>2. InLine'
  <2>1. incoming' = incoming /\ previous' = previous /\ batch' = batch
        /\ count' = count /\ pos' = pos
    OBVIOUS
  <2> QED
    BY <1>1, <2>1, SMT DEF InLine, Earlier, Sync
<1>3. ASSUME NEW r \in Nat, AheadOf(r) PROVE NextAheadOf(r)
  BY <1>1, <1>3, Zenon DEF AheadOf, NextAheadOf
<1> QED
  BY <1>2, <1>3 DEF MovesOn

\* The chain stays while nothing is sorted, published or grabbed.
LEMMA ChainStays ==
    ASSUME Shape, Chain, MovesOn, UNCHANGED <<scan, cached, cachedCount, nodes>>, full' = full
    PROVE  Chain'
<1>1. nodes[1].rev \in Nat /\ cached[1].rev \in Nat
  BY FirstEntries
<1>2. BeginsWithSync(scan) => scan[1].rev \in Nat
  BY ScanFirst
<1>3. NextAheadOf(nodes[1].rev)
  BY <1>1 DEF MovesOn, Chain
<1>4. full => nodes[1].rev < cached[1].rev /\ NextAheadOf(cached[1].rev)
  BY <1>1 DEF MovesOn, Chain
<1>5. BeginsWithSync(scan) =>
         /\ nodes[1].rev < scan[1].rev /\ NextAheadOf(scan[1].rev)
         /\ full => cached[1].rev < scan[1].rev
  BY <1>2 DEF MovesOn, Chain
<1> QED
  BY <1>3, <1>4, <1>5, Zenon DEF Chain, AheadOf, NextAheadOf, BeginsWithSync, Sync

LEMMA SortChains == Shape /\ InLine /\ Chain /\ Sort => InLine' /\ Chain'
<1> SUFFICES ASSUME Shape, InLine, Chain, Sort PROVE InLine' /\ Chain'
  OBVIOUS
<1>1. PICK end \in Nat : Sorted(end)
  BY SortGoesOn
<1>2. MovesOn
  BY <1>1, SortMovesOn
<1>3. UNCHANGED <<cached, cachedCount, nodes>> /\ Sorting /\ full' = full /\ cache = "sort"
  BY <1>1 DEF Sort, LoopHead, driver, display, Sorting, full
<1>4. nodes[1].rev \in Nat /\ cached[1].rev \in Nat
  BY FirstEntries
<1>5. /\ NextAheadOf(nodes[1].rev)
      /\ full => nodes[1].rev < cached[1].rev /\ NextAheadOf(cached[1].rev)
  BY <1>2, <1>4 DEF MovesOn, Chain
<1>6. ASSUME BeginsWithSync(scan')
      PROVE  /\ nodes[1].rev < scan'[1].rev /\ NextAheadOf(scan'[1].rev)
             /\ full => cached[1].rev < scan'[1].rev
  <2>1. CASE BeginsWithSync(scan) /\ scan'[1] = scan[1]
    <3>1. scan[1].rev \in Nat
      BY <2>1, ScanFirst
    <3> QED
      BY <1>2, <2>1, <3>1 DEF MovesOn, Chain
  <2>2. CASE pos <= count /\ end > pos /\ Sync(batch[pos]) /\ scan'[1] = batch[pos]
    <3> DEFINE r == batch[pos].rev
    <3>1. /\ pos \in Nat /\ count \in Nat /\ end \in pos .. count + 1 /\ pos' = end
          /\ UNCHANGED <<sent, batch, count, previous>> /\ incoming' = << >>
      <4>1. pos \in Nat /\ count \in Nat
        BY Sizes DEF Shape, TypeOK, ThreadTyped
      <4>2. incoming = << >>
        BY <1>3 DEF Shape, ThreadShape
      <4>3. end \in pos .. count + 1 /\ pos' = end
        BY <1>1 DEF Sorted
      <4>4. incoming' = << >>
        <5>1. end = count + 1 \/ end <= count
          BY <4>1, <4>3
        <5> QED
          BY <1>1, <4>2, <5>1 DEF Sorted, LoopHead
      <4>5. UNCHANGED <<sent, batch, count, previous>>
        BY DEF Sort, sensor
      <4> QED
        BY <4>1, <4>3, <4>4, <4>5
    <3>2. pos \in pos .. count /\ r \in Nat
      BY <1>3, <2>2, <3>1, QueueRevs
    <3>3. nodes[1].rev < r /\ (full => cached[1].rev < r)
      BY <1>3, <2>2, <3>2 DEF Chain, AheadOf
    <3>4. /\ r <= latest
          /\ \A i \in pos .. count : pos < i => Earlier(batch[pos], batch[i])
          /\ \A i \in 1 .. Len(previous) : Earlier(batch[pos], previous[i])
      BY <1>3, <3>2 DEF InLine
    <3>5. \A i \in end .. count : i \in pos .. count /\ pos < i
      BY <2>2, <3>1
    <3>6. /\ \A i \in end .. count : Sync(batch[i]) => r < batch[i].rev
          /\ \A i \in 1 .. Len(previous) : Sync(previous[i]) => r < previous[i].rev
      BY <2>2, <3>4, <3>5 DEF Earlier
    <3>7. latest' = latest
      BY <3>1 DEF latest
    <3> HIDE DEF r
    <3>8. NextAheadOf(r)
      BY <3>1, <3>4, <3>6, <3>7, NothingFollows DEF NextAheadOf
    <3> QED
      BY <2>2, <3>3, <3>8 DEF r
  <2> QED
    BY <1>1, <1>6, <2>1, <2>2, SortFirst
<1>7. Chain'
  BY <1>3, <1>5, <1>6, Zenon DEF Chain, AheadOf, NextAheadOf, BeginsWithSync, Sync
<1> QED
  BY <1>2, <1>7 DEF MovesOn

\* A publication hands the chain's last revolution to the cache.
LEMMA PublishChains ==
    ASSUME Shape, Framed, InLine, Chain, PublishNodes \/ PublishCount
    PROVE  InLine' /\ Chain'
<1>1. UNCHANGED <<sent, incoming, previous, batch, count, pos, nodes>> /\ Sorting' = Sorting
  BY DEF PublishNodes, PublishCount, Sorting, sensor, display
<1>2. MovesOn
  BY <1>1, StandingMovesOn
<1>3. nodes[1].rev \in Nat /\ BeginsWithSync(scan)
  BY FirstEntries DEF PublishNodes, PublishCount, Shape, ThreadShape
<1>4. 1 \in 1 .. Len(scan) /\ scan[1].rev \in Nat
  BY <1>3, ScanFirst
<1>5. /\ NextAheadOf(nodes[1].rev) /\ NextAheadOf(scan[1].rev)
      /\ nodes[1].rev < scan[1].rev
  BY <1>2, <1>3, <1>4 DEF MovesOn, Chain
<1>6. CASE PublishNodes
  <2>1. scan' = scan /\ ~full'
    BY <1>6 DEF PublishNodes, full
  <2> QED
    BY <1>1, <1>2, <1>5, <2>1, Zenon DEF MovesOn, Chain, AheadOf, NextAheadOf
<1>7. CASE PublishCount
  <2>1. scan' = << >> /\ ~BeginsWithSync(scan') /\ cached' = cached
    BY <1>7 DEF PublishCount, BeginsWithSync
  <2>2. cached[1] = scan[1]
    BY <1>4, <1>7 DEF PublishCount, Framed, Copied
  <2>3. nodes'[1].rev < cached'[1].rev /\ NextAheadOf(cached'[1].rev)
    BY <1>1, <1>5, <2>1, <2>2
  <2> QED
    BY <1>1, <1>2, <1>5, <2>1, <2>3, Zenon DEF MovesOn, Chain, AheadOf, NextAheadOf
<1> QED
  BY <1>6, <1>7

LEMMA GrabChains == Shape /\ InLine /\ Chain /\ Grab => InLine' /\ Chain'
<1> SUFFICES ASSUME Shape, InLine, Chain, Grab PROVE InLine' /\ Chain'
  OBVIOUS
<1> DEFINE n == wanted'
           new == nodes'
<1>1. /\ UNCHANGED <<sent, incoming, previous, batch, count, pos, scan, cache, cached>>
      /\ Sorting' = Sorting
  BY DEF Grab, thread, sensor, Sorting
<1>2. MovesOn
  BY <1>1, StandingMovesOn
<1>3. /\ n \in Nat /\ cachedCount > 0 /\ cachedCount' = 0 /\ cache # "copied"
      /\ \A k \in 1 .. n : new[k] = cached[k]
      /\ n = 0 => new[1] = nodes[1]
  BY Grabbed
<1>4. nodes[1].rev \in Nat /\ cached[1].rev \in Nat
  BY FirstEntries
<1>5. full /\ ~full'
  BY <1>3 DEF full
<1> HIDE DEF n, new
<1>6. new[1] \in {nodes[1], cached[1]}
  <2>1. n # 0 => 1 \in 1 .. n
    BY <1>3
  <2> QED
    BY <1>3, <2>1
<1>7. NextAheadOf(new[1].rev)
  BY <1>2, <1>4, <1>5, <1>6 DEF MovesOn, Chain
<1>8. BeginsWithSync(scan) =>
         /\ new[1].rev < scan[1].rev /\ AheadOf(scan[1].rev)
  BY <1>5, <1>6 DEF Chain
<1>9. BeginsWithSync(scan) => NextAheadOf(scan[1].rev)
  <2>1. BeginsWithSync(scan) => scan[1].rev \in Nat
    BY ScanFirst
  <2> QED
    BY <1>2, <1>8, <2>1 DEF MovesOn
<1> QED
  BY <1>1, <1>2, <1>5, <1>7, <1>8, <1>9, Zenon
  DEF MovesOn, Chain, AheadOf, NextAheadOf, BeginsWithSync, Sync, new

LEMMA InitOrdered == Init => Ordered
<1> SUFFICES ASSUME Init PROVE InLine /\ Chain
  BY DEF Ordered
<1>1. /\ incoming = << >> /\ previous = << >> /\ scan = << >> /\ cache = "discard"
      /\ cachedCount = 0 /\ sent = 0 /\ nodes[1] = Blank
  BY Sizes DEF Init
<1>2. ~Sorting /\ ~BeginsWithSync(scan) /\ ~full /\ latest = 0 /\ nodes[1].rev = 0
  BY <1>1 DEF Sorting, BeginsWithSync, full, latest, Blank
<1> QED
  BY <1>1, <1>2, NothingFollows DEF InLine, Chain, AheadOf

LEMMA StepOrdered == Shape /\ Framed /\ Ordered /\ [Next]_vars => Ordered'
<1> SUFFICES ASSUME Shape, Framed, Ordered, [Next]_vars, ~replayed' PROVE InLine' /\ Chain'
  BY DEF Ordered
<1>1. replayed \in BOOLEAN /\ replayed' \in BOOLEAN
  BY DEF Shape, TypeOK, SensorTyped, Next, CacheThread, Display, Receive, Lose, CollectNodes,
         TimeOutNodes, CollectCapsule, CollectFirstCapsule, DropCapsule, EndOnError, Sort,
         PublishNodes, PublishCount, TakeEvent, AwaitEvent, EventTimesOut, NothingToGrab,
         Grab, Show, StopScanning, Join, StopSensor, Dispose, PressCtrlC, Unplug, vars
<1>2. ~replayed
  BY <1>1 DEF Next, CacheThread, Display, Receive, Lose, CollectNodes, TimeOutNodes,
              CollectCapsule, CollectFirstCapsule, DropCapsule, EndOnError, Sort,
              PublishNodes, PublishCount, TakeEvent, AwaitEvent, EventTimesOut,
              NothingToGrab, Grab, Show, StopScanning, Join, StopSensor, Dispose,
              PressCtrlC, Unplug, vars
<1>3. InLine /\ Chain
  BY <1>2 DEF Ordered
<1>4. CASE TimeOutNodes \/ DropCapsule \/ EndOnError
  <2>1. cache = "discard" \/ ~TimeOutNodes
    BY <1>1, <1>2 DEF TimeOutNodes, Waiting
  <2>2. /\ sent' = sent /\ ~Sorting'
        /\ incoming' \in {<< >>, incoming} /\ previous' \in {<< >>, previous}
    BY <1>4, <2>1 DEF TimeOutNodes, DropCapsule, EndOnError, AfterWait, LoopHead, Waiting,
                      Sorting, sensor
  <2>3. UNCHANGED <<scan, cached, cachedCount, nodes>> /\ full' = full
    BY <1>4 DEF TimeOutNodes, DropCapsule, EndOnError, AfterWait, LoopHead, Waiting, driver,
                display, full
  <2>4. MovesOn
    BY <1>3, <2>2, DroppingMovesOn
  <2> QED
    BY <1>3, <2>3, <2>4, ChainStays DEF MovesOn
<1>5. CASE Receive \/ Lose \/ CollectNodes \/ CollectCapsule \/ CollectFirstCapsule
  <2>1. MovesOn
    BY <1>3, <1>5, ReceiveMovesOn, LoseMovesOn, CollectNodesMovesOn, CapsuleMovesOn
  <2>2. UNCHANGED <<scan, cached, cachedCount, nodes>> /\ full' = full
    BY <1>5 DEF Receive, Lose, CollectNodes, CollectCapsule, CollectFirstCapsule, AfterWait,
                LoopHead, Waiting, thread, driver, display, full
  <2> QED
    BY <1>3, <2>1, <2>2, ChainStays DEF MovesOn
<1>6. CASE Sort
  BY <1>3, <1>6, SortChains
<1>7. CASE PublishNodes \/ PublishCount
  BY <1>3, <1>7, PublishChains
<1>8. CASE Grab
  BY <1>3, <1>8, GrabChains
<1>9. CASE \/ TakeEvent \/ AwaitEvent \/ EventTimesOut \/ NothingToGrab \/ Show
           \/ StopScanning \/ Join \/ StopSensor \/ Dispose \/ PressCtrlC \/ Unplug
           \/ UNCHANGED vars
  <2>1. UNCHANGED <<sent, incoming, previous, batch, count, pos, scan, cache, cached,
                    cachedCount, nodes>>
    BY <1>9 DEF TakeEvent, AwaitEvent, EventTimesOut, NothingToGrab, Show, StopScanning,
                Join, StopSensor, Dispose, PressCtrlC, Unplug, vars, sensor, thread, driver,
                display
  <2>2. Sorting' = Sorting /\ full' = full
    BY <2>1 DEF Sorting, full
  <2>3. MovesOn
    BY <1>3, <2>1, <2>2, StandingMovesOn
  <2> QED
    BY <1>3, <2>1, <2>2, <2>3, ChainStays DEF MovesOn
<1> QED
  BY <1>4, <1>5, <1>6, <1>7, <1>8, <1>9 DEF Next, CacheThread, Display

LEMMA OrderedHolds == Spec => []Ordered
BY InitOrdered, StepOrdered, ShapeHolds, FramedHolds, PTL DEF Spec

\* Until _waitScanData() fails, what the client grabs is later than what it grabbed
\* before, whatever measurements are lost: no revolution comes twice, and none out
\* of order.
THEOREM RevolutionsComeInOrder == Spec => EachScanOnce
<1>1. ASSUME Shape, Ordered, Grab, wanted' > 0, ~replayed
      PROVE  nodes'[1].rev > nodes[1].rev
  <2>1. /\ wanted' \in Nat /\ cachedCount > 0 /\ cache # "copied"
        /\ \A k \in 1 .. wanted' : nodes'[k] = cached[k]
    BY <1>1, Grabbed
  <2> DEFINE n == wanted'
  <2>2. n \in Nat /\ n > 0
    BY <1>1, <2>1
  <2> HIDE DEF n
  <2>3. 1 \in 1 .. n
    BY <2>2
  <2>4. nodes'[1] = cached[1]
    BY <2>1, <2>3 DEF n
  <2>5. nodes[1].rev < cached[1].rev
    BY <1>1, <2>1 DEF Ordered, Chain, full
  <2>6. nodes[1].rev \in Nat /\ cached[1].rev \in Nat
    BY <1>1, FirstEntries
  <2> QED
    BY <2>4, <2>5, <2>6
<1>2. Shape /\ Ordered /\ [Next]_vars =>
         [Grab /\ wanted' > 0 /\ ~replayed => nodes'[1].rev > nodes[1].rev]_vars
  BY <1>1
<1> QED
  BY <1>2, ShapeHolds, OrderedHolds, PTL DEF Spec, EachScanOnce
=============================================================================
