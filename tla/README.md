# Alex: a verification development

Alex is a search-and-rescue robot: an Arduino drives two wheels and counts
their ticks, a Raspberry Pi takes commands over TLS and passes them on over a
serial line, an operator's laptop sends the commands, and a LIDAR draws what is
around. This directory holds TLA+ modules of that system, the TLC configurations
that check them on small instances, and proofs that TLAPS checks for every value
of the constants. The final programs are in `src/04-02-01-code-final`; the network
libraries they are linked with are in `src/w9s2/tls-server-lib` and
`src/w9s2/tls-client-lib`, the LIDAR's driver in `src/rplidar_sdk_v1.5.7`. Two
exercises of the course that stand on their own, a circular buffer and the
dictionary programs, are modelled too.

## 1. Inventory

    laptop_client.cpp        alex-pi.cpp                     Alex.ino
    reader, writer     TLS   listener, workers   serial     loop + 2 encoder
    client thread  <------>  receiver thread   <------->    interrupts + UART
    (LaptopClient)           (TlsServer)       (SerialLink)  (AlexMotion)
         \____________ numbers of a command (CommandPath) ____________/
                                        both ends: assemble() (Assemble)

    w7s2.cpp  <-- lock, event -->  the SDK's cache thread  <--  RPLIDAR
                        (ScanCache)

| component | state | operations | how it interacts |
|---|---|---|---|
| packet framing (`serialize.cpp`, the same file on both machines) | four function-static variables and a private buffer | `serialize`, `assemble`, `deserialize` | called with every chunk that a serial read returns |
| motion control (`Alex.ino`) | `dir`, motor pins, eight tick counters, two distances, `deltaDist`, `newDist`, `deltaTicks`, `targetTicks` | seven commands, the checks of `loop()`, `leftISR`, `rightISR` | the interrupts change what the loop reads, between any two of its instructions |
| serial link | the two rings of the Arduino's UART, `assemble()`'s statics, the loop's position | `sendPacket`, `readPacket`, `handlePacket`, `writeSerial`, `putArduinoToIdle` | bytes in both directions; overflow drops silently; a full transmit ring blocks the loop |
| arguments of a command (`laptop_client.cpp`, `alex-pi.cpp`, `Alex.ino`) | two ints, eight bytes of ten, two words of a packet, a float, a target, two motor powers | `getParams`, `sendData`, `sendCommand`, `handleCommand`, `pwmVal`, `forward`, `reverse` | four conversions in three programs |
| TLS server of the Pi (`make_tls_server.cpp`, `alex-pi.cpp`) | `_exitFlag`, `tls_conn`, `networkActive`, each worker's buffer, the queue of `listen()` | `createServer`, `_tls_listener`, `worker`, `handleNetworkData`, `sendCommand`, signals | a thread per connection, no locks |
| OpenSSL locking glue (`tls_pthread.cpp`) | a table of mutexes | set-up, lock callback, clean-up | set up and freed by the listener, used by OpenSSL from every thread |
| laptop client (`make_tls_client.cpp`, `laptop_client.cpp`) | `_exitFlag`, `networkActive`, the TLS session | client thread, reader, writer, `main`, signals | three threads share one session and two flags, no locks |
| LIDAR client (`w7s2.cpp`) | `nodes[]`, `count`, the ctrl-c flag | grab, show, stop | waits for the SDK's event with a timeout; takes its lock |
| RPLIDAR SDK (`rplidar_driver.cpp`, `event.h`, `thread.hpp`) | `_cached_scan_node_buf` and its count, a lock, an event, `_isScanning`; the thread's own buffers | `_cacheScanData`, `_cacheCapsuledScanData`, `grabScanData`, `stop`, `disconnect` | a cache thread between the sensor and the client |
| circular buffer (`w8s1pi/buffer`) | indices, count, size, memory, saved status register | `initBuffer`, `writeBuffer`, `readBuffer`, `freeBuffer`, `dataAvailable` | an interrupt handler at one end, the program at the other |
| dictionary programs (`W2S2_Codes`) | the rows, the indices of two sorts and two searches | `readDictionary`, `sort`, `MSort`, `M`, `searchDictionary`, `binarySearch`, `queryWordList` | none with Alex |
| start-up and power saving (`Alex.ino`) | processor registers | `setup*`, `initializeState`, `waitForHello` | run once (`waitForHello` never) |
| USB hub control, templates, socket exercises, small sketches, earlier versions | - | - | none with the final programs |

What is hard, and the properties each part owes its users:

- *Framing.* Reads return anything from one byte to a buffer full, so a packet
  may be cut anywhere. Owed: every packet is handed over, whole, in order, by
  the call that brought its last byte, and no buffer is overrun.
- *Motion.* A target is set in several statements while interrupts count, the
  state of one motion may survive into the next, counters are four bytes on an
  eight-bit machine. Owed: Alex moves as far as commanded, no less, and then
  stops; the motors do what `dir` says, by which the interrupts count.
- *Serial link.* A packet (140 bytes) is larger than either ring (64 bytes), and
  the loop blocks while it answers. Owed: commands carried out in order, answers
  uncut, the processor awake when there is something to read.
- *Arguments.* A number is an int, a word, a float and an unsigned long in turn,
  and two of its bytes are not sent. Owed: a drive ends where the operator said,
  at the power the operator said.
- *Server.* Workers, listener, `main` and signals interleave without locks.
  Owed: the Arduino is told what each operator typed; everyone is served; the
  server ends when told to; OpenSSL has its locks while it needs them.
- *Client.* Whoever notices the end of the session first closes it under the
  others. Owed: the program ends when, and only when, there is a reason; no
  answer is missed.
- *LIDAR.* Measurements get lost, waits time out just as the event is set, and
  the thread that is joined needs the lock that the joining one takes. Owed: what
  is shown is one revolution, none twice, none overlooked; ctrl-c stops the
  sensor. (The first two are kept only until a wait for measurements fails: see 5.)
- *Circular buffer.* A handler may run between any two statements that leave
  interrupts enabled. Owed: a bounded first-in first-out queue, and interrupts
  enabled again after each call (which one window of the code does not keep: see 5).
- *Dictionary programs.* Halving and merging live on their boundaries. Owed: all
  three programs count the words that were read.

`PROJECT.json` lists every hazard with its line and the properties about it.

## 2. Modules

| module | models |
|---|---|
| `PacketStream` | abstract: what a receiver of packets promises |
| `Assemble`, `AssembleProofs` | `assemble()`; it implements `PacketStream` |
| `AlexMotion`, `AlexMotionProofs` | commands, checks and interrupts of the Arduino |
| `SerialLink`, `SerialLinkProofs` | Pi, rings, loop, answers and sleep; it uses the actions of `Assemble` for its receiver, and its proofs those of `AssembleProofs` |
| `CommandPath` | the numbers of a drive from the keyboard to the motors |
| `TlsServer`, `TlsServerProofs` | listener, locks, workers, `main`, signals and clients |
| `LaptopClient` | client thread, reader, writer, `main`, signals and the server's end |
| `LaptopProofs` | the proofs about `CommandPath` and `LaptopClient` |
| `ScanCache`, `ScanCacheProofs` | sensor, cache thread and LIDAR client |
| `BoundedFifo` | abstract: what the comments of the circular buffer promise |
| `CircularBuffer`, `CircularBufferProofs` | its functions and an interrupt handler; it implements `BoundedFifo` |
| `WordSearch`, `WordSearchProofs` | the three dictionary programs |
| `MC*` | what TLC is run on, with the `.cfg` of each run |

### Assemble
One call is one action, `Feed`: nothing else enters the function. The variables
have the names of the C statics (`outputBuffer` is `_privateBuffer`). A byte is
its position in the received stream, so that a buffer says which bytes it
holds. `fed` and `base` are history: bytes received and bytes handed over. The
leftovers of a call that completes a packet stay where the code leaves them,
including that a later call reads them from index 0 whether or not it had copied
all of them before. Reads have at most `PACKET_SIZE` bytes, because a longer one
has already overrun the caller's buffer (a hazard in the list).

### AlexMotion
`pc` walks through `loop()`: `read`, then for a motion command `measure`,
`target`, `drive` (the statements of `forward()`, `left()` and so on), then the
two checks, `dist`/`distRest` and `turn`/`turnRest`. `Drive` and `stop` set `dir`
only; the four motor pins follow one at a time (`analogWrite`, in the order of
each function, `writeOrder`), and the loop goes on when all are `written`. Until
then a wheel may be driven for the direction before while the interrupts count for
the new one, or for a moment both ways (`forward()` after `reverse()` writes LR
before it clears LF). A counter is read in two
steps, low byte and rest, with an interrupt possible in between. The left and
right encoder interrupts are actions that are enabled at every step.
Abstractions: a motor's speed is driven or not; centimetres and the angle's
ticks are integers, rounded down as the code's conversions to `unsigned long`
round; `TurnRate` is the float factor in thousandths; the sleep at the end of
the loop is left to `SerialLink`, for the loop only sleeps with `dir = STOP`,
when there is nothing to check. Arguments are not negative (`CommandPath` has
those). `job`, `moved` and `cleared` are history.

### SerialLink
Time is counted in bytes. `Wire` moves one byte each way; the loop comes round
between two bytes (at 9600 baud a byte takes over a millisecond) unless it is
blocked in `Serial.write()` or asleep, and `due` says so. A command may start
the motors and the checks may stop them; both are left open, so that the link
does not depend on what `AlexMotion` says. Bytes of two packets that are put
together by a loss may have any checksum, so `deserialize()` may accept them by
coincidence; the magic number is checked as the code does. Its four bytes are at
the front of a packet and nowhere else: that bytes of a payload happen to be the
magic number is left out, and `NeverResynchronises` is about the others. `rushed` is
history: some packet was sent before the one before it had been answered.

### CommandPath
`getParams`, `sendData`, `sendCommand` and `handleCommand` are one action each,
in a ring: one drive after the other. A word is two halves of `Half` values.
`sendData()` sends eight of the ten bytes, so that one half of the power comes
from the worker's uninitialised buffer, which is any value (`junk`). What
`scanf()` does not read is any number of `Typed`. `float` is a constant: any
monotone rounding that is exact up to `Exact` and may round up to a full word, so
that the proofs hold for every such float. `deltaDist` is kept beside the end of the
drive, for `loop()` looks for an end only while it is not 0. A float that does not fit an
`unsigned long` is undefined in C; it saturates or wraps. The definitions that
every specification has are called `CPInit`, `CPNext` and so on here, because
`LaptopProofs` extends this module and `LaptopClient`.

### TlsServer
One action for each stretch of a thread between two calls that others can see:
the listener's `StartListening`, `TestExit`, `Accept`, `Handshake`,
`CloseListening` and `thread_cleanup`; a worker's `Test`, `Read` and
`sendCommand`; `main()`'s `createServer`, `sendHello` and return, which ends all
threads. `Connect` puts a connection in the queue of `listen()`, of length
`Backlog`. A word of a command is two halves, because the laptop sends 8 of the 10
bytes and the worker fills the rest from its uninitialised stack. OpenSSL is
external: a handshake succeeds for a client whose certificate the library
accepts; for others it fails, and when is up to the client. `locks` is the mutex
table of `tls_pthread.cpp`. Two branches of the code cannot be reached and are
not modelled: `verifyCertificate()` finding fault after a handshake under
`SSL_VERIFY_PEER`, and the end of the workers' loop, for only
`sendNetworkData()` clears `networkActive` and nothing calls it.

### LaptopClient
Each thread's reads and writes of `networkActive`, `_exitFlag` and the session
are separate actions; `stopClient()` and `CLIENT_CLOSE` are as they are written.
A call on a session that another thread has freed may return anything. What is
sent is in `TlsServer`; here a command or record is only counted.

### ScanCache
A measurement is its revolution and its place there; place 1 has the sync bit.
`SensorAssumption` says what the stream is: one revolution after another, each
from its first place on. `GrabsOneRevolution` says that client and cache hold the
front of one revolution: all of it, or as much as there is room for.
The sensor (`Emit` within `Receive` and `Lose`, `Unplug`) is external. The cache
thread's actions are the ends of its waits (`CollectNodes`, `TimeOutNodes`, and
in express mode `CollectCapsule`, `CollectFirstCapsule` for a capsule that calls
itself the first of a scan, `DropCapsule`, `EndOnError`), `Sort`, which
takes `local_buf` up to the next sync bit into `local_scan`, and the two halves
of a publication under the lock, `PublishNodes` and `PublishCount`. Reads of
`local_buf` past what a wait has filled find what was there before, at first
uninitialised memory (`Garbage`). The client takes the event or times out, reads
the count, and grabs under the lock; `wanted` is `w7s2.cpp`'s `count`, which is
both the capacity it passes and the number it gets back. Two things are history:
`lost`, a measurement or a capsule was lost; and `replayed`, a wait of the cache
thread has failed in mid-collection. The second loses nothing, but the loop takes it
for a success and sorts what `local_buf` held before once more.

### CircularBuffer
The program's calls go statement by statement; `Handle` is the handler's whole
call, taken when interrupts are enabled, for it runs with interrupts disabled.
`csreg`, in which `enterAtomic()` saves the status register, is part of the
buffer and written by both. `count` is two bytes in `dataAvailable()`, read one
after the other. `freeBuffer()` and `initBuffer()` are the three and three
statements they are, with interrupts enabled. `queue` is the refinement mapping:
what the ring stands for between two statements of a call.

### WordSearch
`program` says which of the three it is. A word is a number, `strcmp()` compares
numbers, and the rows start with any words, for the array is not initialised.
The number of words that the operator types is at most the rows there are; nothing
in the code checks that (`strMS.c:130`), and what a larger one writes over is not
modelled.
The recursion of `MSort()` is `stack`, the calls that are left. `given` is
history: the rows as they are when `readDictionary()` returns, the first `filled`
of them with words that were read. It counts a row before it knows that `fscanf()`
failed, so that a file with fewer words than announced leaves one row that nobody
filled, which is sorted and searched like the others. `CountIsRight` tells the two
apart.

## 3. Runs

| run | instance | shows |
|---|---|---|
| `assemble` | packets of 5 bytes, reads of 1-5, 4 packets | every way of cutting the stream; the refinement of `PacketStream` |
| `alex_motion` | 2 commands of any kind, distances 0-2, angles 0, 1, 5, a motion of up to 6 ticks | targets and stops with all interleavings of the interrupts, and that motions end |
| `alex_small_turn`, `alex_torn` | one command | findings 1 and 2 |
| `serial_link` | packets of 5 bytes over rings of 2, 4 packets | order, framing, loss, sleep, liveness |
| `command_path` | words of 6 bits, floats of 4, 11 numbers, negative ones and the boundaries among them | what becomes of a distance and of a power |
| `tls_server` | 2 operators, 1 client that is refused or never says anything, 2 commands, a queue of 2 | what the Arduino is told, who is served, the end |
| `tls_closed` | 2 operators, 2 commands | finding 3 |
| `laptop_threads` | 2 commands, 2 records | the threads and the end of the program |
| `scan_cache` | 4 measurements in 3 revolutions, waits for 2, a `local_scan` of 3, a client's array of 2, both modes | what is grabbed, and that ctrl-c stops the sensor |
| `circular_buffer` | sizes 0, 1 and 2, 2 characters, a byte of 2 values | the refinement of `BoundedFifo`, indices, interrupts, `dataAvailable()` |
| `word_search` | up to 5 rows of 3 words, 2 queries, 3 programs | sorting, searching and counting |

Why the bounds are enough.

- `assemble`: between calls the statics only hold how much of a packet is in
  progress or left over, at most `P - 1`; 4 packets reach every such state from
  every other. The proofs remove the bound.
- `alex_motion`: what one motion leaves for the next is the stale target and
  counters, so two commands show every pair; three would add motions that inherit
  from a pair, whose leftovers are of the same kinds. `Indefinite = 50` is out of
  the reach of `MaxMoved = 6`. `MaxOther` bounds counters that no check reads.
- `alex_torn` makes a byte 4 values, so that the carry comes within
  reach; the other runs have 256, where it does not come.
- `serial_link`: rings smaller than a packet are what matters (64 to 140 bytes
  in the source); with 2 and 5 a command sent during an answer loses one or more
  bytes, and the fourth packet starts after any loss.
- `command_path`: words of 64 values have numbers on both sides of every
  boundary there is: 0, the half of a word, full power, `Exact` and the largest
  int, whose float rounds up past the int. Two drives follow each other without a
  bound, for the state is only the numbers.
- `tls_server`: workers share only the serial line, so that two are enough for
  every interleaving between them, and one command each, or two of one, for their
  order; the third client is there to hold the listener.
- `laptop_threads`: one command and record find the flag as the program set it,
  the second finds it as the other thread left it.
- `scan_cache`: when measurements are lost the four form any grouping of one to
  three revolutions, and merged ones overflow `local_scan` (3) and the client's
  array (2), as a lost sync bit does on the robot; three revolutions give the
  cache one that is grabbed, one that waits and one that overwrites it.
- `circular_buffer`: size 2 is the smallest at which front and back can differ in
  a full and in an empty ring, size 1 always wraps, size 0 is refused; a byte of
  2 values lets a count of 2 carry between the reads of its bytes.
- `word_search`: five rows are halved three times, and merged in unequal halves
  at two levels; three words give equal, absent, first, middle and last ones.

`CHECK_DEADLOCK FALSE` is there where the system stops: a stream that is fully
read, operators who have typed all they will, programs that have ended. Elsewhere
deadlock is checked: the loop of the Arduino always runs, and so do the callers
of the circular buffer and the operator of `command_path`.

Mutants. Operators marked `Mutant` stand beside the definitions they replace;
each breaks one property, so that no property holds by the shape of the model.

## 4. Fairness

- `AlexMotion`: weak fairness of the loop (the processor runs it, nothing in it
  waits), and of each wheel's interrupt while a pin is driven (a driven wheel
  turns). Nobody has to send commands.
- `SerialLink`: weak fairness of the wire and of the loop. The loop may be
  asleep, and then only the wire or an encoder wakes it; that an encoder ever
  fires is not assumed.
- `TlsServer`: the threads of a running process are scheduled (`Main`,
  `Listener`, each `Worker`). Clients, operators and signals are free, and so is
  `HandshakeFails`: a client that says nothing may keep the listener for ever.
- `LaptopClient`: `main`, client thread, reader and writer are scheduled; the
  operator's keys, the server and signals are free.
- `ScanCache`: weak fairness of the cache thread, whose waits all have timeouts,
  so that one of its actions is always enabled; strong fairness of the client,
  which needs the lock that the cache thread holds for a `memcpy()` every few
  milliseconds. Ctrl-c and the sensor are free.
- `WordSearch`: the program computes; the file of words may end.
- `Assemble`, `CommandPath` and `CircularBuffer` have no liveness property and no
  fairness: they are called.

## 5. What the code does differently

Three runs are expected to fail, each with one property that a comment states:

1. `alex_small_turn`: the ticks of a small angle round to 0, which `loop()`
   takes for "no turn": the motors run on.
2. `alex_torn`: an interrupt between two bytes of a distance read by the loop
   stops Alex early.
3. `tls_closed`: the worker of a closed connection reads 0 bytes for ever.

Others are visible in the modules, and are what the positive properties are
worded around.

- Clearing the statistics during a motion zeroes the counters and not the target,
  so that Alex goes further (`Alex.ino:711`; the properties on targets are about
  motions that were not `cleared`). `COMMAND_STOP` is answered and stops nothing
  (`ReceivePlain` leaves the motors alone; `stop()` is only called by the checks).
- Bytes that come between the loop's read of the ring and `sleep_cpu()` wake
  nobody (`Alex.ino:806`; `AnsweredOrSleptOn` says so).
- `sizeof` of a pointer: eight of ten bytes of a command are sent
  (`laptop_client.cpp:106`), and the upper half of the power is what the worker's
  stack held. `PowerIsTypedOrFull` says what that can do: the power is the typed
  one or, if that half is not zero, full power.
- A negative distance is nowhere refused, and Alex drives. `NegativeIsNoShortDrive`:
  the drive's end is never looked for (the float of a small negative number is 2^32,
  which may become 0, and `loop()` checks only a `deltaDist` above 0:
  `Alex.ino:877`), or it is behind Alex, so that he stops at once, or over half the
  counter's range ahead.
- A listener that waits in `accept()` makes one more session after
  `server_is_running()` has become false (`AtMostOneLate`: only one). After the
  exit flag the lock table is freed while workers may be inside OpenSSL
  (`make_tls_server.cpp:186`), until `main()` returns.
- On the laptop the client thread frees the session under detached threads under
  a comment that says "join" (`LiveWhileRunning`: only once the program ends),
  and the writer may set `networkActive` after the reader has cleared it, so that
  a stale buffer is handled once more (`RecordsAreHandled` is therefore about a
  server that has not closed).
- In `w7s2.cpp` the count that `grabScanData()` returns is the capacity of the
  next call: a short scan shortens all that follow, and after one timeout nothing
  is ever grabbed again. A sensor that is gone ends the cache thread, and the
  client goes on showing the last scan. A ctrl-c before the second grab finds no
  handler and leaves the sensor spinning; the second `join()` of `disconnect()`
  is undefined.
- After a wait of its own that fails, the cache thread of the SDK sorts what
  `local_buf` held before (`rplidar_driver.cpp:384-409`; the first time, memory that
  was never written). Nothing is lost, yet what it publishes next may mix
  measurements of two revolutions, or be an earlier revolution once more. This is
  not what `rplidar_driver.h:172-176` promises of `grabScanData()`, "All data nodes
  are belong to exactly ONE complete 360-degrees's scan". The properties say how far
  the promise holds: that the first node and no other has the sync bit is
  unconditional in `GrabsOneRevolution`; the one revolution ends with the first lost
  measurement or failed wait (`~lost /\ ~replayed`), the order of the grabs
  (`EachScanOnce`) with the first failed wait only (`~replayed`), whatever is lost.
- `enterAtomic()` saves the status register before it disables interrupts, in a
  place that the handler's own call overwrites: the program then leaves its call
  with interrupts disabled, for good. `InterruptsLostIffCaught`: this happens after
  such a handler (`caught`), always, and not otherwise.
  `freeBuffer()` frees memory that a handler may use until the next statement.
- `readDictionary()` counts a row before it knows that there is a word for it, so
  that "the actual size" (`strSearch.c:78`) is one too large for a short file, and
  the programs may count a word that was never read (`CountIsRight`: one at most,
  what that row's memory held).

## 6. Proofs

TLAPS checks, for every value of the constants that the `ASSUME`s allow:

- `AssembleProofs`. `IInv` is `TypeOK`, `EveryByteAccountedFor`, `KeptInOrder`
  and `WholePackets`. `WholePackets` is not inductive by itself: what the next
  packet holds depends on what both buffers kept, and where. `StartOfCall` is
  the heart: under `IInv`, the leftovers are copied whole and exactly to the
  front of an empty buffer, so that `start = fed - base < P`; `FilledIsTheStream`
  and `SavedIsTheRest` say what the two buffers hold after the call. From these
  follow `StaticsInRange`, `NothingLost`, `LeftoversInOrder`, `PacketsAreWhole`,
  `PacketsDoNotWait` and the refinement `AssembleCutsStream`. Assumption: reads of
  at most `P` bytes.
- `AlexMotionProofs`. `MotionTypes`, `MotorsAgree`, `DrivesAreWatched`: the
  invariant adds what each `pc` knows of the command in hand and of the target
  that has just been set, and that the pins are written for the command in hand.
  `MotorsAgree` is about each pin written since `dir` was set; as each direction
  writes all four, once (`WriteOrder`), the motors do what `dir` says after the
  fourth, and before it they need not. `TargetsAreCommanded` and `NeverStopsEarly` are about
  `Spec /\ []CountersBelowByte`; the hypothesis is needed, for without it finding
  2 is a counterexample. Their invariant relates distances to ticks, the motion's
  ticks to the counters, and the low byte in hand to the counter it was read
  from; the lemmas on division (`CentimetresTakeTicks`) turn a distance that has
  grown by d into the ticks that took.
- `SerialLinkProofs`. `LinkTypes`, `WholeAnswers` and `AnswersCost` follow
  from counts, whatever bytes are lost. `AnswersCost` (for `RxSize >= 2`) adds up
  what an answer can cost: the loop reads nothing while it waits for room, each byte
  the wire moves meanwhile is one that leaves the transmit ring, and the receive ring
  takes the first `RxSize` of those that come. For `CarriedOutInOrder` the read of the
  ring is shown to be `Feed` of `AssembleProofs`, instantiated with the bytes that
  have left the ring for `fed`, as long as nothing is lost; its invariant then
  says that each completed packet is the next of the stream, so `deserialize()`
  finds it good. `WaitingIsEnough` needs a receive ring of two bytes: the one that
  comes before the loop falls asleep, and the one that wakes it.
  After a loss the same receiver is instantiated a second time, and that is what
  `FramingNeverRecovers` rests on: a byte is known by its place among those that
  were not lost (`Rank`), `fed` is the number of bytes received, and the two
  buffers are read through `Ranked`. A loss changes no place of an earlier byte
  (`RankIsPlace`), so every step of the link still is a step or a stutter of
  `AssembleProofs` (`LateRead`), and every packet is P bytes that were received one
  after another. What remains is arithmetic: a packet that starts n bytes off,
  n not a multiple of P, has its first byte at place n mod P + 1, where the magic
  number is not (`MisplacedIsBad`).
- `LaptopProofs`, of `CommandPath`: what remainder, half words, a monotone rounding
  and a quotient do to a number, for every width and every such rounding.
  `Carried` says what record and packet hold of what was typed. Theorems
  `WidthsKept`, `PowerSurvives`, `WheelsTogether`, `EndSurvives`,
  `NegativeNeverEndsSoon`. Of `LaptopClient`, `ErrorsAreReal`: reader and writer find
  an error only when the other end is closed or the session freed, so that what
  one stores in the shared flag never undoes what the other has found. From it
  `NoExitUnasked` and `NoRecordMissed`; `SessionOutlivesUse` from `FreedAfterStop`.
- `TlsServerProofs`. `Pipeline`: what an operator typed is, in this order, what
  was sent, what is in the worker's hands, and what is in its inbox. With it
  `EachOperatorObeyed` is inductive, for every number of operators. `LastSession`
  says that a session made after the exit flag is the listener's last
  (`OneLateSession`); `Phases` what the listener has set up and when
  (`LocksStand`: the locks stand before the first worker, and until the exit flag).
- `ScanCacheProofs`. `Shape` is the type invariant with what each thread has done
  at each of its places (`ThreadShape`), that only the cache thread keeps the lock
  and that a scan in the cache has its event (`DriverShape`). It holds whatever is
  lost, and gives `BuffersHold` and `ScansAreNotOverlooked`. So does `Framed`: what
  `local_scan`, the cache and the client's array hold has no sync bit but its first.
  Until something is lost or a wait fails, `Intact` follows one revolution through
  the copies: what waits in `local_buf` is the stream from the last measurement
  sorted on (`Queued`), `local_scan` is the front of the revolution being collected
  (`Scanned`), the cache and the client's array the front of one that is complete
  (`InCache`, `InNodes`), a half-done publication included (`Copied`). `Framed` and
  `Intact` give `GrabsBelongToOneRevolution`. For `RevolutionsComeInOrder` there is
  a third invariant, `Ordered`, that does not mind losses, only failed waits: of the
  measurements that wait, in a wait in progress, the last capsule or the rest of a
  batch, each sync bit is of a later revolution than the one before (`InLine`), and
  the scans of the client, the cache and `local_scan` come before each other and
  before all of those (`Chain`). Assumption: `SensorAssumption`.
- `CircularBufferProofs`. `IInv` has what the check of a call has found and that
  no handler runs until the call ends (`Guarded`, `Checked`), that `initBuffer()`
  works while the size is 0 and every other call is refused (`Opening`), and where
  freed memory stands (`Freeing`). `RingIsFifo`, step by step: a statement either
  keeps `queue` (a window of the ring that stays, `WindowStays`) or appends or
  removes one character. `Saved` has what `csreg` and the status register hold at
  each statement, before and after a handler has come into the window of
  `enterAtomic()`; it gives `WhenInterruptsAreLost`, both ways.
  `PromisesAreKept` (`Promised`): while the handler only writes, a count whose low
  byte was read as not zero stays above zero, whatever is added before the other
  byte is read, and a promise stands until the program takes a character.
- `WordSearchProofs`. `Promises` is the invariant of the recursion: the rows that
  a merging, or in the end `main()`, relies on are in order already, or a call that
  is left will put them in order and those in between leave them alone. With what
  the insertion (`Inserting`) and the merging (`Taking`) have done so far it gives
  `SortsOrder`. `Kept` counts, for each word, the rows that hold it, the row in
  hand and the copy of a merging included: each shift, take and copy back keeps the
  count (`SortsKeepWords`). `Tallied` adds up what the searches have found so far;
  with order, search and kept words, and with which rows were filled, it gives
  `TheCountIsRight`.
  `SearchIsRight` has what a search has ruled out below and above;
  `SearchNarrows` that it goes on in fewer rows, by halving in half of them or
  fewer (the part of `SearchEnds` that is not fairness);
  `IndicesInside` that no row outside the dictionary is touched.

Thirteen theorems state what no run lists, since the proof covers every value:
`LeftoversInOrder`, `PacketsAreWhole`, `PacketsDoNotWait`, `MotorsAgree`,
`DrivesAreWatched`, `WholeAnswers`, `LocksStand`, `WheelsTogether`,
`IndicesInside`, `SearchNarrows` and `SortsOrder`; and the type invariants of
`CircularBuffer` and `WordSearch`, `BufferTypes` and `WordsTyped`.

Every safety and action property of a passing run, and both refinements, are
theorems. Only model-checked are the liveness properties, for TLAPS has no ENABLED
here: `MotionEnds`, `AnsweredOrSleptOn`, `EveryCommandIsSent`, `ClientsAreServed`,
`EndsWhenItShould`, `CtrlCStopsSensor` and `SearchEnds`.

## 7. Not modelled

- Start-up registers and power saving of the Arduino, and `waitForHello()`, which
  nothing calls; the sleep itself is in `SerialLink`.
- OpenSSL's own use of the lock callback, mutex by mutex, and what happens inside
  its calls; `sendNetworkData()`, which nothing calls.
- The command protocol of the RPLIDAR, motor control, frequency and express-rate
  queries, and the SDK's other samples with the Windows frame grabber and its WTL
  headers, which are most of the repository's lines and are third party.
- `hub-ctrl.c` (vendored, pure I/O), the templates the network programs were made
  from, the socket exercises, the small sketches and the earlier versions of Alex,
  all superseded by what is modelled.
- Of what is modelled: what is printed, the contents of status reports and of the
  plot file, angles and distances of measurements, timing; in `AlexMotion` the
  power of a motor beyond driven or not, floats beyond their rounding, and negative
  arguments (`CommandPath` has the last three). A second `initBuffer()` of a buffer
  in use, for nothing calls it. Allocations that fail, but for `initBuffer()`'s.

## 8. What is left

1. A run of `alex_motion` with three commands, and one of `AlexMotion` and
   `SerialLink` composed, where a torn read and a lost byte meet.
2. Reports: the torn copy of eight counters in `sendStatus()`.
