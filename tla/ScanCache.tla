----------------------------- MODULE ScanCache -----------------------------
(***************************************************************************)
(* The LIDAR client (w7s2.cpp) and the driver of the RPLIDAR SDK that it   *)
(* uses (rplidar_driver.cpp).  A cache thread of the driver collects the   *)
(* sensor's measurements and publishes each revolution under the driver's  *)
(* lock, with an event; the client grabs it and writes it to a file, until *)
(* ctrl-c.  The sensor sends either single nodes or, in express mode,      *)
(* capsules, of which the driver converts the one before the last.         *)
(*                                                                         *)
(* A measurement is the revolution it was taken in and its place there,    *)
(* where 1 carries the sync bit.  Angles, distances and the sorting by     *)
(* angle (ascendScanData) are left out.                                    *)
(***************************************************************************)
EXTENDS Integers, Sequences

CONSTANTS Stream,     \* what the sensor measures, until it falls silent
          BatchMax,   \* local_buf[128], or the 32 measurements of a capsule
          ScanMax,    \* MAX_SCAN_NODES
          NodesMax    \* the client's nodes[360*2]

Node == [rev : Nat, at : Nat \ {0}]
Sync(n) == n.at = 1

ASSUME ScanCacheAssumption ==
    /\ Stream \in Seq(Node)
    /\ {BatchMax, ScanMax, NodesMax} \subseteq Nat \ {0}

\* The sensor measures one revolution after another, and sets the sync bit with the
\* first measurement of each.  The stream may begin amid a revolution.
ASSUME SensorAssumption ==
    \A i, j \in 1 .. Len(Stream) : i <= j =>
        /\ Stream[i].rev > 0 /\ Stream[i].rev <= Stream[j].rev
        /\ Stream[i].rev = Stream[j].rev <=> \A k \in i + 1 .. j : ~Sync(Stream[k])

VARIABLES express,                        \* the mode the sensor scans in
          sent, present, spinning,        \* the sensor
          cache, incoming, batch, count,  \* the cache thread and its local_buf,
          pos, scan, previous,            \* local_scan and last capsule
          isScanning, lock, signalled,    \* the driver's flag, lock and event
          cached, cachedCount,            \* _cached_scan_node_buf and its count
          client, first, nodes, wanted,   \* the client; wanted is its count
          ctrlC, handled,                 \* the signal, and its handler is set
          lost,                           \* history: a measurement got lost
          replayed                        \* history: a batch was sorted after a failed wait

sensor == <<express, sent, present, spinning>>
thread == <<cache, incoming, batch, count, pos, scan, previous>>
driver == <<isScanning, lock, signalled, cached, cachedCount>>
display == <<client, first, nodes, wanted, ctrlC, handled>>
vars == <<sensor, thread, driver, display, lost, replayed>>

Garbage == [rev : {0}, at : {1, 2}]    \* uninitialized memory
Blank == [rev |-> 0, at |-> 2]         \* memory that is never read

Least(a, b) == IF a < b THEN a ELSE b
Prefix(s, n) == SubSeq(s, 1, Least(n, Len(s)))

\* memcpy() of s over the beginning of buffer
Over(buffer, s) ==
    [i \in 1 .. Len(buffer) |-> IF i <= Len(s) THEN s[i] ELSE buffer[i]]

-----------------------------------------------------------------------------
(* The sensor spins and startScan() has succeeded.                         *)
Init ==
    /\ express \in BOOLEAN /\ present = TRUE /\ spinning = TRUE
    /\ sent = 0
    /\ cache = "discard" /\ incoming = << >> /\ pos = 1
    /\ batch \in IF express THEN {<< >>} ELSE [1 .. BatchMax -> Garbage]
    /\ count = BatchMax /\ scan = << >> /\ previous = << >>
    /\ isScanning = TRUE /\ lock = "free" /\ signalled = FALSE
    /\ cached = [i \in 1 .. ScanMax |-> Blank] /\ cachedCount = 0
    /\ client = "wait" /\ first = TRUE /\ wanted = NodesMax
    /\ nodes = [i \in 1 .. NodesMax |-> Blank]
    /\ ctrlC = FALSE /\ handled = FALSE
    /\ lost = FALSE /\ replayed = FALSE

Emit ==
    /\ present /\ spinning /\ sent < Len(Stream)
    /\ sent' = sent + 1
    /\ UNCHANGED <<express, present, spinning>>

-----------------------------------------------------------------------------
(* The cache thread: _cacheScanData() and _cacheCapsuledScanData().        *)

Waiting == cache \in {"discard", "collect"}

\* _waitNode(), or a part of a capsule.
Receive ==
    /\ Waiting /\ Len(incoming) < IF express THEN BatchMax ELSE count
    /\ Emit
    /\ incoming' = Append(incoming, Stream[sent'])
    /\ UNCHANGED <<cache, batch, count, pos, scan, previous, driver, display, lost, replayed>>

\* A measurement is lost on the line: its check bits do not fit.
Lose ==
    /\ Waiting /\ Emit
    /\ lost' = TRUE
    /\ UNCHANGED <<thread, driver, display, replayed>>

\* The head of the loop, and the end of the thread.
LoopHead ==
    /\ cache' = IF isScanning THEN "collect" ELSE "ended"
    /\ incoming' = << >>

\* What follows a wait: its result is discarded, or sorted into revolutions.
AfterWait ==
    IF cache = "discard" THEN LoopHead /\ UNCHANGED pos
                         ELSE cache' = "sort" /\ incoming' = << >> /\ pos' = 1

\* _waitScanData() fills local_buf, or its time is up after a measurement: then
\* count, a reference, shrinks.
CollectNodes ==
    /\ ~express /\ Waiting /\ incoming # << >>
    /\ batch' = Over(batch, incoming)
    /\ count' = Len(incoming)
    /\ AfterWait
    /\ UNCHANGED <<scan, previous, sensor, driver, display, lost, replayed>>

\* Its time is up while it waits for a measurement.  Nothing is lost; but count stays,
\* the loop takes a timeout like a success, and what is in local_buf from before, or
\* was never written, is sorted once more.
TimeOutNodes ==
    /\ ~express /\ Waiting /\ Len(incoming) < count
    /\ batch' = Over(batch, incoming)
    /\ replayed' = (replayed \/ cache = "collect")
    /\ AfterWait
    /\ UNCHANGED <<count, scan, previous, sensor, driver, display, lost>>

\* A whole capsule: the one before it is converted.
CollectCapsule ==
    /\ express /\ Waiting /\ Len(incoming) = BatchMax
    /\ IF cache = "discard" THEN UNCHANGED <<batch, count, previous>>
                            ELSE /\ batch' = previous /\ count' = Len(previous)
                                 /\ previous' = incoming
    /\ AfterWait
    /\ UNCHANGED <<scan, sensor, driver, display, lost, replayed>>

\* A capsule that says it is the first of a scan, as the sensor may at any time: the
\* one before it is dropped, and nothing is converted.
CollectFirstCapsule ==
    /\ express /\ cache = "collect" /\ Len(incoming) = BatchMax
    /\ batch' = << >> /\ count' = 0 /\ previous' = incoming
    /\ lost' = (lost \/ previous # << >>)
    /\ AfterWait
    /\ UNCHANGED <<scan, sensor, driver, display, replayed>>

\* A capsule whose checksum is wrong, or that does not come in time.
DropCapsule ==
    /\ express /\ Waiting
    /\ previous' \in IF Len(incoming) = BatchMax THEN {<< >>} ELSE {<< >>, previous}
    /\ lost' = (lost \/ (cache = "collect" /\ (incoming # << >> \/ previous' # previous)))
    /\ LoopHead
    /\ UNCHANGED <<batch, count, pos, scan, sensor, driver, display, replayed>>

\* The device is gone: the thread ends, and the client is not told.
EndOnError ==
    /\ ~present /\ Waiting
    /\ IF cache = "discard" THEN LoopHead ELSE cache' = "ended" /\ UNCHANGED incoming
    /\ isScanning' = IF cache = "discard" THEN isScanning ELSE FALSE
    /\ UNCHANGED <<batch, count, pos, scan, previous, sensor, lock, signalled, cached,
                   cachedCount, display, lost, replayed>>

BeginsWithSync(s) == s # << >> /\ Sync(s[1])

\* Mutant: the end of local_scan is not looked at.
NotFullUnchecked(s) == s

\* A measurement that fills local_scan is not counted, and the next one overwrites it.
NotFull(s) == Prefix(s, ScanMax - 1)

\* Up to the next sync bit the batch goes to local_scan, which never fills up.  A
\* sync bit ends a revolution, which is published unless its beginning is missing.
Sort ==
    /\ cache = "sort"
    /\ LET next == { i \in pos .. count : Sync(batch[i]) /\ (i > pos \/ BeginsWithSync(scan)) }
           end == IF next = {} THEN count + 1 ELSE CHOOSE i \in next : \A j \in next : i <= j
           all == (IF pos <= count /\ Sync(batch[pos]) /\ end > pos THEN << >> ELSE scan)
                    \o SubSeq(batch, pos, end - 1)
       IN /\ scan' = NotFull(all)
          /\ pos' = end
          /\ IF next = {} THEN LoopHead
             ELSE /\ cache' = IF BeginsWithSync(scan') THEN "lock" ELSE "sort"
                  /\ UNCHANGED incoming
    /\ UNCHANGED <<batch, count, previous, sensor, driver, display, lost, replayed>>

\* Mutant: the event is not set.
PublishCountOnly ==
    /\ cache = "copied" /\ cache' = "sort"
    /\ cachedCount' = Len(scan)
    /\ lock' = "free" /\ scan' = << >>
    /\ UNCHANGED <<incoming, batch, count, pos, previous, isScanning, signalled, cached,
                   sensor, display, lost, replayed>>

\* A revolution is copied to the cache under the driver's lock,
PublishNodes ==
    /\ cache = "lock" /\ lock = "free"
    /\ lock' = "cache" /\ cache' = "copied"
    /\ cached' = Over(cached, scan)
    /\ UNCHANGED <<incoming, batch, count, pos, scan, previous, isScanning, signalled,
                   cachedCount, sensor, display, lost, replayed>>

\* and its count and event are set; local_scan begins anew.
PublishCount ==
    /\ cache = "copied" /\ cache' = "sort"
    /\ cachedCount' = Len(scan)
    /\ signalled' = TRUE /\ lock' = "free"
    /\ scan' = << >>
    /\ UNCHANGED <<incoming, batch, count, pos, previous, isScanning, cached, sensor,
                   display, lost, replayed>>

CacheThread ==
    \/ Receive \/ Lose
    \/ CollectNodes \/ TimeOutNodes
    \/ CollectCapsule \/ CollectFirstCapsule \/ DropCapsule \/ EndOnError
    \/ Sort \/ PublishNodes \/ PublishCount

-----------------------------------------------------------------------------
(* The client: capture_and_display() with grabScanData(), and main().      *)

Client(from, to) == client = from /\ client' = to

\* Event::wait(): the event may already be set, and resets itself.
TakeEvent ==
    /\ client \in {"wait", "waiting"} /\ signalled
    /\ client' = "grab" /\ signalled' = FALSE
    /\ UNCHANGED <<first, nodes, wanted, ctrlC, handled, isScanning, lock, cached,
                   cachedCount, thread, sensor, lost, replayed>>

AwaitEvent ==
    /\ Client("wait", "waiting") /\ ~signalled
    /\ UNCHANGED <<first, nodes, wanted, ctrlC, handled, driver, thread, sensor, lost, replayed>>

\* The wait may time out just when the event is set.
EventTimesOut ==
    /\ Client("waiting", "show")
    /\ wanted' = 0
    /\ UNCHANGED <<first, nodes, ctrlC, handled, driver, thread, sensor, lost, replayed>>

\* The count is read without the lock; no scan counts as a timeout.  The cache
\* thread never takes a scan back, so that one is there with the lock, too.
NothingToGrab ==
    /\ Client("grab", "show") /\ cachedCount = 0
    /\ UNCHANGED <<first, nodes, wanted, ctrlC, handled, driver, thread, sensor, lost, replayed>>

\* Mutant: the lock is not taken.
GrabUnlocked ==
    /\ Client("grab", "show") /\ cachedCount > 0
    /\ LET n == Least(wanted, cachedCount)
       IN nodes' = Over(nodes, Prefix(cached, n)) /\ wanted' = n
    /\ cachedCount' = 0
    /\ UNCHANGED <<first, ctrlC, handled, isScanning, lock, signalled, cached, thread,
                   sensor, lost, replayed>>

\* Mutant: the scan stays in the cache.
GrabLeavesScan ==
    /\ Client("grab", "show") /\ cachedCount > 0 /\ lock = "free"
    /\ LET n == Least(wanted, cachedCount)
       IN nodes' = Over(nodes, Prefix(cached, n)) /\ wanted' = n
    /\ UNCHANGED <<first, ctrlC, handled, driver, thread, sensor, lost, replayed>>

\* As many measurements as the client's count allows are copied under the lock, and
\* the count becomes what was copied: a short scan shortens those that follow.
Grab ==
    /\ Client("grab", "show") /\ cachedCount > 0 /\ lock = "free"
    /\ LET n == Least(wanted, cachedCount)
       IN nodes' = Over(nodes, Prefix(cached, n)) /\ wanted' = n
    /\ cachedCount' = 0
    /\ UNCHANGED <<first, ctrlC, handled, isScanning, lock, signalled, cached, thread,
                   sensor, lost, replayed>>

\* A timeout is shown like a scan.  The first scan is not shown; the handler of
\* ctrl-c is installed only with the second.
Show ==
    /\ client = "show"
    /\ handled' = (handled \/ ~first) /\ first' = FALSE
    /\ client' = IF ctrlC THEN "stop" ELSE "wait"
    /\ UNCHANGED <<nodes, wanted, ctrlC, driver, thread, sensor, lost, replayed>>

\* Mutant: the lock is taken before the thread is joined.
StopHoldingLock ==
    /\ Client("stop", "join") /\ lock = "free"
    /\ lock' = "client" /\ isScanning' = FALSE
    /\ UNCHANGED <<first, nodes, wanted, ctrlC, handled, signalled, cached, cachedCount,
                   thread, sensor, lost, replayed>>

\* stop() and stopMotor()
StopScanning ==
    /\ Client("stop", "join")
    /\ isScanning' = FALSE
    /\ UNCHANGED <<first, nodes, wanted, ctrlC, handled, lock, signalled, cached,
                   cachedCount, thread, sensor, lost, replayed>>

Join ==
    /\ Client("join", "command") /\ cache = "ended"
    /\ UNCHANGED <<first, nodes, wanted, ctrlC, handled, driver, thread, sensor, lost, replayed>>

StopSensor ==
    /\ Client("command", "dispose") /\ lock = "free"
    /\ spinning' = FALSE
    /\ UNCHANGED <<first, nodes, wanted, ctrlC, handled, driver, thread, express, sent,
                   present, lost, replayed>>

\* disconnect() calls stop() again, which joins the thread a second time: that
\* is undefined, and returns or crashes.
Dispose ==
    /\ client = "dispose" /\ client' \in {"done", "crashed"}
    /\ isScanning' = FALSE
    /\ UNCHANGED <<first, nodes, wanted, ctrlC, handled, lock, signalled, cached,
                   cachedCount, thread, sensor, lost, replayed>>

Display ==
    \/ TakeEvent \/ AwaitEvent \/ EventTimesOut \/ NothingToGrab \/ Grab
    \/ Show \/ StopScanning \/ Join \/ StopSensor \/ Dispose

-----------------------------------------------------------------------------
Running == client \notin {"done", "crashed"}

\* Before the handler is installed the signal kills the process: nothing follows.
PressCtrlC ==
    /\ Running /\ handled /\ ~ctrlC /\ ctrlC' = TRUE
    /\ UNCHANGED <<client, first, nodes, wanted, handled, driver, thread, sensor, lost, replayed>>

Unplug ==
    /\ present /\ Running /\ present' = FALSE
    /\ UNCHANGED <<express, sent, spinning, thread, driver, display, lost, replayed>>

Next ==
    \/ CacheThread \/ Display
    \/ PressCtrlC \/ Unplug

Spec == Init /\ [][Next]_vars

\* Threads run, and waits for data and for the event time out.  The lock is taken
\* for a memcpy() at most every few milliseconds: whoever asks again gets it.
FairSpec ==
    /\ Spec
    /\ WF_vars(CacheThread) /\ SF_vars(Display)

-----------------------------------------------------------------------------
SensorTyped ==
    /\ express \in BOOLEAN /\ present \in BOOLEAN /\ spinning \in BOOLEAN
    /\ sent \in 0 .. Len(Stream) /\ lost \in BOOLEAN /\ replayed \in BOOLEAN

ThreadTyped ==
    /\ cache \in {"discard", "collect", "sort", "lock", "copied", "ended"}
    /\ incoming \in Seq(Node) /\ Len(incoming) <= BatchMax
    /\ batch \in Seq(Node) /\ count \in 0 .. BatchMax
    /\ cache = "sort" => count <= Len(batch)
    /\ pos \in 1 .. BatchMax + 1
    /\ scan \in Seq(Node) /\ Len(scan) < ScanMax
    /\ previous \in Seq(Node) /\ Len(previous) <= BatchMax

DriverTyped ==
    /\ isScanning \in BOOLEAN /\ signalled \in BOOLEAN
    /\ lock \in {"free", "cache", "client"}
    /\ cached \in [1 .. ScanMax -> Node] /\ cachedCount \in 0 .. ScanMax - 1

DisplayTyped ==
    /\ client \in {"wait", "waiting", "grab", "show", "stop", "join",
                   "command", "dispose", "done", "crashed"}
    /\ first \in BOOLEAN /\ ctrlC \in BOOLEAN /\ handled \in BOOLEAN
    /\ nodes \in [1 .. NodesMax -> Node] /\ wanted \in 0 .. NodesMax

\* Types, and the arrays' bounds: local_scan never fills up, whatever is lost,
\* and the client's array is never written past its end.
TypeOK == SensorTyped /\ ThreadTyped /\ DriverTyped /\ DisplayTyped

\* The places of the stream that make up one revolution, from its sync bit on.
IsRevolution(from, to) ==
    /\ from \in 1 .. Len(Stream) /\ to \in from .. Len(Stream) /\ Sync(Stream[from])
    /\ \A k \in 1 .. Len(Stream) : Stream[k].rev = Stream[from].rev <=> k \in from .. to

\* The first n entries of an array are the n measurements from a place on.
Shows(array, n, from) == \A k \in 1 .. n : array[k] = Stream[from + k - 1]

\* One sync bit, in the first of n entries.
OneSync(array, n) == \A k \in 1 .. n : Sync(array[k]) <=> k = 1

\* The SDK promises that what grabScanData() returns begins with the sync bit, and
\* belongs to exactly one revolution (rplidar_driver.h:175-176).  The first is kept
\* whatever gets lost or times out, and there is no second sync bit.  The other
\* is kept, and the cache then holds the whole revolution, up to its size, until a
\* measurement is lost or _waitScanData() fails: what the loop makes of that mixes
\* measurements of different revolutions.  The thread that fills the cache and the
\* client that empties it interleave between all of this.
GrabsOneRevolution ==
    /\ cachedCount > 0 /\ lock = "free" => OneSync(cached, cachedCount)
    /\ nodes[1] # Blank => OneSync(nodes, wanted)
    /\ ~lost /\ ~replayed =>
          /\ cachedCount > 0 /\ lock = "free" =>
                \E from, to \in 1 .. Len(Stream) :
                   /\ IsRevolution(from, to) /\ Shows(cached, cachedCount, from)
                   /\ cachedCount = Least(to - from + 1, ScanMax - 1)
          /\ nodes[1].rev > 0 /\ wanted > 0 =>
                \E from, to \in 1 .. Len(Stream) :
                   /\ IsRevolution(from, to) /\ Shows(nodes, wanted, from)
                   /\ wanted <= to - from + 1

\* A published scan is not overlooked: while the client waits and nobody has the
\* lock, a scan in the cache goes with a set event.
NoScanOverlooked ==
    client \in {"wait", "waiting"} /\ lock = "free" /\ cachedCount > 0 => signalled

\* No scan is grabbed twice, and none after a later one, whatever gets lost: but only
\* until _waitScanData() fails.  The loop then sorts measurements that it has
\* published once more (rplidar_driver.cpp:385-409), and an old scan comes again.
EachScanOnce ==
    [][Grab /\ wanted' > 0 /\ ~replayed => nodes'[1].rev > nodes[1].rev]_vars

\* Once the handler is installed, ctrl-c ends the program with the sensor stopped,
\* even when the sensor is silent or gone: the cache thread, which needs the lock
\* that stop() takes, ends first.
CtrlCStopsSensor == ctrlC ~> client \in {"done", "crashed"} /\ ~spinning
=============================================================================
