--------------------------- MODULE TlsServerProofs ---------------------------
(***************************************************************************)
(* For every number of operators and commands, and every queue: what the   *)
(* Arduino is told is what each operator typed, in order and once; the     *)
(* locks of OpenSSL stand while anyone uses them; and at most one session  *)
(* is made after the server was told to exit.                              *)
(***************************************************************************)
EXTENDS TlsServer, FiniteSetTheorems, SequenceTheorems, TLAPS

Halfs == 0 .. Half - 1
Records == [letter : Letters, halves : Seq(Halfs)]
Packets == [from : Clients \cup {NULL},
            command : {command[l] : l \in Letters} \cup {"PACKET_TYPE_HELLO"},
            arg : Nat, power : Nat]

\* The record that the laptop makes of an entry.
recordOf(e) == [letter |-> e.letter, halves |-> SubSeq(halves(e), 1, Sent)]

Shapes ==
    /\ queue \in Seq(Clients)
    /\ link \in [Clients -> {"off", "queued", "refused", "open", "closed"}]
    /\ worker \in [Clients -> {"none", "test", "read", "handle"}]
    /\ typed \in [Clients -> Seq(Entries)]
    /\ inbox \in [Clients -> Seq(Records)]
    /\ letter \in [Clients -> Letters \cup {NULL}]
    /\ buffer \in [Clients -> [Indices -> Halfs]]
    /\ arduino \in Seq(Packets)
    /\ late \in Nat

\* Whoever waits, in the queue or in the handshake, waits once and has no worker.
Queueing ==
    /\ \A i \in 1 .. Len(queue) : link[queue[i]] = "queued"
    /\ \A i, j \in 1 .. Len(queue) : i # j => queue[i] # queue[j]
    /\ current # NULL => /\ link[current] = "queued"
                         /\ \A i \in 1 .. Len(queue) : queue[i] # current

\* What the listener has done so far, and may do only when told to exit.
Phases ==
    /\ main = "createServer" => listener = "none"
    /\ listener \in {"none", "start"} => locks = "none"
    /\ listener \in {"test", "accept", "handshake", "close", "cleanup"} => locks = "set"
    /\ listener \in {"close", "cleanup"} \/ locks = "gone" => exitFlag
    /\ locks = "none" => \A c \in Clients : worker[c] = "none"

\* A session made late is the listener's last.
LastSession ==
    /\ late <= 1 /\ (~exitFlag => late = 0)
    /\ late > 0 => listener \in {"test", "close", "cleanup", "ended"}

\* A command typed has been sent, is in the worker's hands or is on its way,
\* in this order.
InHand(c) == IF worker[c] = "handle" THEN 1 ELSE 0

Pipeline(c) ==
    /\ Len(typed[c]) = SentOf(c) + InHand(c) + Len(inbox[c])
    /\ \A k \in 1 .. Len(inbox[c]) :
          inbox[c][k] = recordOf(typed[c][SentOf(c) + InHand(c) + k])
    /\ worker[c] = "handle" =>
          /\ letter[c] = typed[c][SentOf(c) + 1].letter
          /\ \A i \in 1 .. Sent : buffer[c][i] = halves(typed[c][SentOf(c) + 1])[i]

Pipelines == \A c \in Clients : Pipeline(c)

\* The inductive invariant.
IInv ==
    /\ TypeOK /\ Shapes
    /\ Queueing /\ Phases /\ LastSession
    /\ Pipelines /\ CommandsInOrder

-----------------------------------------------------------------------------
\* Counting in a sequence of packets.
CountIn(s, c, n) == Cardinality({j \in 1 .. n : s[j].from = c})

LEMMA CountIsNat ==
    ASSUME NEW s, NEW c, NEW n \in Nat
    PROVE  /\ CountIn(s, c, n) \in Nat
           /\ \A j \in 1 .. n : s[j].from = c => CountIn(s, c, n) >= 1
<1> DEFINE T == {j \in 1 .. n : s[j].from = c}
<1>1. IsFiniteSet(T)
  <2>1. IsFiniteSet(1 .. n)
    BY FS_Interval
  <2>2. T \in SUBSET (1 .. n)
    OBVIOUS
  <2> QED
    BY <2>1, <2>2, FS_Subset
<1>2. Cardinality(T) \in Nat
  BY <1>1, FS_CardinalityType
<1>3. ASSUME NEW j \in 1 .. n, s[j].from = c PROVE Cardinality(T) >= 1
  <2>1. T # {}
    BY <1>3
  <2>2. Cardinality(T) # 0
    BY <1>1, <2>1, FS_EmptySet
  <2> QED
    BY <1>2, <2>2
<1> QED
  BY <1>2, <1>3 DEF CountIn

LEMMA CountAppend ==
    ASSUME NEW S, NEW s \in Seq(S), NEW p \in S, NEW c
    PROVE  /\ \A n \in 0 .. Len(s) : CountIn(Append(s, p), c, n) = CountIn(s, c, n)
           /\ CountIn(Append(s, p), c, Len(s) + 1)
                = CountIn(s, c, Len(s)) + (IF p.from = c THEN 1 ELSE 0)
<1>1. /\ Len(s) \in Nat /\ Len(Append(s, p)) = Len(s) + 1
      /\ \A j \in 1 .. Len(s) : Append(s, p)[j] = s[j]
      /\ Append(s, p)[Len(s) + 1] = p
  BY AppendProperties, LenProperties
<1>2. ASSUME NEW n \in 0 .. Len(s)
      PROVE  CountIn(Append(s, p), c, n) = CountIn(s, c, n)
  <2>1. \A j \in 1 .. n : Append(s, p)[j] = s[j]
    BY <1>1
  <2>2. {j \in 1 .. n : Append(s, p)[j].from = c} = {j \in 1 .. n : s[j].from = c}
    BY <2>1
  <2> QED
    BY <2>2 DEF CountIn
<1>3. CountIn(Append(s, p), c, Len(s) + 1)
        = CountIn(s, c, Len(s)) + (IF p.from = c THEN 1 ELSE 0)
  <2> DEFINE T == {j \in 1 .. Len(s) : s[j].from = c}
             U == {j \in 1 .. Len(s) + 1 : Append(s, p)[j].from = c}
  <2>1. IsFiniteSet(T)
    <3>1. IsFiniteSet(1 .. Len(s))
      BY <1>1, FS_Interval
    <3>2. T \in SUBSET (1 .. Len(s))
      OBVIOUS
    <3> QED
      BY <3>1, <3>2, FS_Subset
  <2>2. Len(s) + 1 \notin T
    BY <1>1
  <2>3. \A j \in 1 .. Len(s) + 1 : j \in 1 .. Len(s) \/ j = Len(s) + 1
    BY <1>1
  <2>4. CASE p.from = c
    <3>1. U = T \cup {Len(s) + 1}
      BY <1>1, <2>3, <2>4
    <3>2. Cardinality(U) = Cardinality(T) + 1
      BY <2>1, <2>2, <3>1, FS_AddElement
    <3> QED
      BY <2>4, <3>2 DEF CountIn
  <2>5. CASE p.from # c
    <3>1. U = T
      <4>1. Len(s) + 1 \notin U
        BY <1>1, <2>5
      <4>2. \A j \in 1 .. Len(s) : j \in 1 .. Len(s) + 1 /\ Append(s, p)[j] = s[j]
        BY <1>1
      <4>3. U \subseteq T
        BY <4>1, <4>2, <2>3
      <4>4. T \subseteq U
        BY <4>2
      <4> QED
        BY <4>3, <4>4
    <3>2. CountIn(s, c, Len(s)) \in Nat
      BY <1>1, CountIsNat
    <3>3. CountIn(Append(s, p), c, Len(s) + 1) = CountIn(s, c, Len(s))
      BY <3>1 DEF CountIn
    <3>4. CountIn(s, c, Len(s)) + 0 = CountIn(s, c, Len(s))
      BY <3>2
    <3> QED
      BY <2>5, <3>2, <3>3, <3>4
  <2> QED
    BY <2>4, <2>5
<1> QED
  BY <1>2, <1>3

\* The two ways of writing a count.
LEMMA CountsAreTheSame ==
    ASSUME NEW c, NEW n
    PROVE  /\ CountOf(c, n) = CountIn(arduino, c, n)
           /\ SentOf(c) = CountIn(arduino, c, Len(arduino))
BY DEF CountOf, SentOf, CountIn

LEMMA CountsAreTheSameNext ==
    ASSUME NEW c, NEW n
    PROVE  /\ CountOf(c, n)' = CountIn(arduino', c, n)
           /\ SentOf(c)' = CountIn(arduino', c, Len(arduino'))
BY DEF CountOf, SentOf, CountIn

-----------------------------------------------------------------------------
\* Division.
LEMMA DivMod ==
    ASSUME NEW n \in Nat, NEW b \in Nat, b > 0
    PROVE  /\ n \div b \in Nat
           /\ n % b \in 0 .. b - 1
           /\ n = b * (n \div b) + (n % b)
<1>1. n \div b \in Nat
  OBVIOUS
<1>2. n % b \in 0 .. b - 1
  OBVIOUS
<1>3. n = b * (n \div b) + (n % b)
  OBVIOUS
<1> QED
  BY <1>1, <1>2, <1>3

\* A number of two halves.
LEMMA TwoHalves ==
    ASSUME NEW n \in 0 .. Half * Half - 1
    PROVE  /\ n % Half \in Halfs /\ n \div Half \in Halfs
           /\ (n % Half) + Half * (n \div Half) = n
<1>1. Half \in Nat /\ Half > 0
  BY TlsServerAssumption
<1>2. n \in Nat
  BY <1>1
<1>3. /\ n \div Half \in Nat /\ n % Half \in 0 .. Half - 1
      /\ n = Half * (n \div Half) + (n % Half)
  BY <1>1, <1>2, DivMod
<1> DEFINE q == n \div Half
<1>4. q < Half
  <2>1. ASSUME q >= Half PROVE FALSE
    <3>1. q \in Nat /\ Half * q <= n
      BY <1>1, <1>2, <1>3
    <3> HIDE DEF q
    <3>2. Half * q >= Half * Half
      BY <1>1, <2>1, <3>1
    <3>3. n < Half * Half
      BY <1>1
    <3> QED
      BY <1>1, <1>2, <3>1, <3>2, <3>3
  <2> QED
    BY <1>1, <1>3, <2>1
<1> QED
  BY <1>1, <1>2, <1>3, <1>4 DEF Halfs

\* What an operator types, and the record made of it.
LEMMA EntryShape ==
    ASSUME NEW e \in Entries
    PROVE  /\ e.letter \in Letters
           /\ e.arg \in 0 .. Half * Half - 1 /\ e.power \in 0 .. Half * Half - 1
           /\ e.letter = "c" => e.arg = 0
<1>1. 0 \in 0 .. Half * Half - 1
  BY TlsServerAssumption
<1> QED
  BY <1>1, TlsServerAssumption DEF Entries, Motions

LEMMA RecordShape ==
    ASSUME NEW e \in Entries
    PROVE  /\ recordOf(e) \in Records
           /\ halves(e) \in Seq(Halfs) /\ Len(halves(e)) = 4
           /\ recordOf(e).letter = e.letter
           /\ \A i \in 1 .. Sent : recordOf(e).halves[i] = halves(e)[i]
           /\ halves(e)[1] + Half * halves(e)[2] = e.arg
<1>1. /\ e.arg % Half \in Halfs /\ e.arg \div Half \in Halfs
      /\ e.power % Half \in Halfs /\ e.power \div Half \in Halfs
      /\ (e.arg % Half) + Half * (e.arg \div Half) = e.arg
  BY EntryShape, TwoHalves
<1>2. halves(e) \in Seq(Halfs) /\ Len(halves(e)) = 4
  BY <1>1 DEF halves
<1>3. Sent \in 0 .. 4
  BY TlsServerAssumption
<1>4. ASSUME NEW i \in 1 .. Sent PROVE halves(e)[i] \in Halfs
  <2>1. i \in 1 .. Len(halves(e))
    BY <1>2, <1>3
  <2> QED
    BY <1>2, <2>1, ElementOfSeq
<1>5. /\ SubSeq(halves(e), 1, Sent) \in Seq(Halfs)
      /\ \A i \in 1 .. Sent : SubSeq(halves(e), 1, Sent)[i] = halves(e)[i]
  <2>1. 1 \in Int /\ Sent \in Int /\ \A i \in 1 .. Sent : i \in 1 .. Sent - 1 + 1 /\ 1 + i - 1 = i
    BY <1>3
  <2>2. /\ SubSeq(halves(e), 1, Sent) \in Seq(Halfs)
        /\ \A i \in 1 .. Sent - 1 + 1 : SubSeq(halves(e), 1, Sent)[i] = halves(e)[1 + i - 1]
    BY <2>1, <1>4, SubSeqProperties
  <2> QED
    BY <2>1, <2>2
<1>6. e.letter \in Letters
  BY EntryShape
<1>7. recordOf(e) \in Records
  BY <1>5, <1>6 DEF recordOf, Records
<1>8. halves(e)[1] = e.arg % Half /\ halves(e)[2] = e.arg \div Half
  BY DEF halves
<1> QED
  BY <1>1, <1>2, <1>5, <1>7, <1>8 DEF recordOf

-----------------------------------------------------------------------------
LEMMA InitIInv == Init => IInv
<1>1. SUFFICES ASSUME Init PROVE IInv
  OBVIOUS
<1>2. /\ main = "createServer" /\ exitFlag = FALSE /\ locks = "none" /\ listener = "none"
      /\ current = NULL /\ queue = << >> /\ late = 0 /\ arduino = << >>
      /\ link = [c \in Clients |-> "off"] /\ worker = [c \in Clients |-> "none"]
      /\ typed = [c \in Clients |-> << >>] /\ inbox = [c \in Clients |-> << >>]
      /\ letter = [c \in Clients |-> NULL]
  BY <1>1 DEF Init
<1>3. buffer \in [Clients -> [Indices -> Halfs]]
  <2>1. PICK junk \in 0 .. Half - 1 : buffer = [c \in Clients |-> [i \in Indices |-> junk]]
    BY <1>1 DEF Init
  <2> QED
    BY <2>1 DEF Halfs
<1>4. Shapes
  <2>1. << >> \in Seq(Entries) /\ << >> \in Seq(Records) /\ << >> \in Seq(Packets)
        /\ << >> \in Seq(Clients)
    BY EmptySeq
  <2> QED
    BY <1>2, <1>3, <2>1 DEF Shapes
<1>5. TypeOK
  <2>1. Len(queue) <= Backlog
    BY <1>2, EmptySeq, TlsServerAssumption
  <2>2. current \in Clients \cup {NULL} /\ (current # NULL <=> listener = "handshake")
    BY <1>2
  <2>3. exitFlag \in BOOLEAN
    BY <1>2
  <2> QED
    BY <1>2, <1>3, <2>1, <2>2, <2>3 DEF TypeOK, Halfs
<1>6. Queueing
  BY <1>2, EmptySeq DEF Queueing
<1>7. Phases /\ LastSession
  BY <1>2 DEF Phases, LastSession
<1>8. ASSUME NEW c \in Clients PROVE Pipeline(c)
  <2>1. SentOf(c) = 0
    <3>1. Len(arduino) = 0
      BY <1>2, EmptySeq
    <3>2. {j \in 1 .. 0 : arduino[j].from = c} = {}
      OBVIOUS
    <3> QED
      BY <3>1, <3>2, FS_EmptySet DEF SentOf, CountOf
  <2>2. Len(typed[c]) = 0 /\ Len(inbox[c]) = 0 /\ worker[c] = "none"
    BY <1>2, EmptySeq
  <2> QED
    BY <2>1, <2>2 DEF Pipeline, InHand
<1>9. CommandsInOrder
  <2>1. Len(arduino) = 0 /\ \A c \in Refused : worker[c] = "none"
    BY <1>2, EmptySeq DEF Clients
  <2> QED
    BY <2>1 DEF CommandsInOrder
<1> QED
  BY <1>4, <1>5, <1>6, <1>7, <1>8, <1>9 DEF IInv, Pipelines

\* As long as no data moves and no worker takes or leaves a command.
LEMMA DataStays ==
    ASSUME IInv, UNCHANGED <<typed, inbox, letter, buffer, arduino>>,
           \A c \in Clients : worker'[c] = "handle" <=> worker[c] = "handle",
           \A c \in Refused : worker'[c] = "none"
    PROVE  Pipelines' /\ CommandsInOrder'
<1>1. ASSUME NEW c \in Clients PROVE Pipeline(c)'
  <2>1. Pipeline(c)
    BY DEF IInv, Pipelines
  <2>2. SentOf(c)' = SentOf(c) /\ InHand(c)' = InHand(c)
    BY DEF SentOf, CountOf, InHand
  <2> QED
    BY <2>1, <2>2 DEF Pipeline
<1>2. CommandsInOrder'
  <2>1. \A n \in 1 .. Len(arduino) : \A c : CountOf(c, n)' = CountOf(c, n)
    BY DEF CountOf
  <2> QED
    BY <2>1 DEF IInv, CommandsInOrder
<1> QED
  BY <1>1, <1>2 DEF Pipelines

\* main() and the signal handlers, but for the HELLO.
LEMMA MainKeepsIInv ==
    ASSUME IInv, createServer \/ MainReturns \/ Signal
    PROVE  IInv'
<1>1. UNCHANGED <<locks, current, queue, network, workers, arduino, late>>
  BY DEF createServer, MainReturns, Signal, threads
<1>2. Shapes'
  BY <1>1 DEF IInv, Shapes, network, workers
<1>3. Queueing'
  BY <1>1 DEF IInv, Queueing, network
<1>4. ASSUME createServer PROVE TypeOK' /\ Phases' /\ LastSession'
  <2>1. main = "createServer" /\ main' = "sendHello" /\ listener' = "start" /\ exitFlag' = exitFlag
        /\ listener = "none"
    BY <1>4 DEF createServer, IInv, Phases
  <2>2. TypeOK'
    BY <1>1, <2>1 DEF IInv, TypeOK, network, workers
  <2>3. Phases' /\ LastSession'
    BY <1>1, <2>1 DEF IInv, TypeOK, Phases, LastSession, workers
  <2> QED
    BY <2>2, <2>3
<1>5. ASSUME MainReturns PROVE TypeOK' /\ Phases' /\ LastSession'
  <2>1. main' = "exited" /\ UNCHANGED <<listener, exitFlag>>
    BY <1>5 DEF MainReturns
  <2>2. TypeOK'
    BY <1>1, <2>1 DEF IInv, TypeOK, network, workers
  <2>3. Phases' /\ LastSession'
    BY <1>1, <2>1 DEF IInv, Phases, LastSession, workers
  <2> QED
    BY <2>2, <2>3
<1>6. ASSUME Signal PROVE TypeOK' /\ Phases' /\ LastSession'
  <2>1. exitFlag' = TRUE /\ ~exitFlag /\ UNCHANGED <<main, listener>>
    BY <1>6 DEF Signal, threads
  <2>2. TypeOK'
    BY <1>1, <2>1 DEF IInv, TypeOK, network, workers
  <2>3. Phases' /\ LastSession'
    BY <1>1, <2>1 DEF IInv, Phases, LastSession, workers
  <2> QED
    BY <2>2, <2>3
<1>7. TypeOK' /\ Phases' /\ LastSession'
  BY <1>4, <1>5, <1>6
<1>8. Pipelines' /\ CommandsInOrder'
  <2>1. UNCHANGED <<typed, inbox, letter, buffer, arduino, worker>>
    BY <1>1 DEF network, workers
  <2>2. \A c \in Refused : worker[c] = "none"
    BY DEF IInv, CommandsInOrder
  <2> QED
    BY <2>1, <2>2, DataStays
<1> QED
  BY <1>2, <1>3, <1>7, <1>8 DEF IInv

\* The listener without a client.
LEMMA ListenerKeepsIInv ==
    ASSUME IInv, StartListening \/ TestExit \/ CloseListening \/ thread_cleanup
    PROVE  IInv'
<1>1. UNCHANGED <<current, typed, inbox, workers, exitFlag, arduino, late>>
  BY DEF StartListening, TestExit, CloseListening, thread_cleanup, network
<1>2. Pipelines' /\ CommandsInOrder'
  <2>1. UNCHANGED <<typed, inbox, letter, buffer, arduino, worker>>
    BY <1>1 DEF workers
  <2>2. \A c \in Refused : worker[c] = "none"
    BY DEF IInv, CommandsInOrder
  <2> QED
    BY <2>1, <2>2, DataStays
<1>3. CASE StartListening \/ TestExit \/ thread_cleanup
  <2>1. UNCHANGED <<queue, link>> /\ listener' # "handshake" /\ listener # "handshake"
    BY <1>3 DEF StartListening, TestExit, thread_cleanup, network
  <2>2. Shapes' /\ Queueing'
    BY <1>1, <2>1 DEF IInv, Shapes, Queueing, workers
  <2>3. TypeOK'
    BY <1>1, <1>3, <2>1
       DEF IInv, TypeOK, StartListening, TestExit, thread_cleanup, workers, network
  <2>4. ASSUME StartListening PROVE Phases' /\ LastSession'
    BY <1>1, <2>4 DEF StartListening, IInv, Phases, LastSession, workers
  <2>5. ASSUME TestExit PROVE Phases' /\ LastSession'
    BY <1>1, <2>5 DEF TestExit, IInv, Phases, LastSession, workers
  <2>6. ASSUME thread_cleanup PROVE Phases' /\ LastSession'
    BY <1>1, <2>6 DEF thread_cleanup, IInv, Phases, LastSession, workers
  <2> QED
    BY <1>2, <1>3, <2>2, <2>3, <2>4, <2>5, <2>6 DEF IInv
<1>4. CASE CloseListening
  <2>1. /\ listener = "close" /\ listener' = "cleanup" /\ queue' = << >>
        /\ link' = [c \in Clients |-> IF link[c] = "queued" THEN "refused" ELSE link[c]]
        /\ UNCHANGED <<main, locks>>
    BY <1>4 DEF CloseListening
  <2>2. Len(queue') = 0 /\ queue' \in Seq(Clients) /\ current = NULL
    BY <2>1, EmptySeq DEF IInv, TypeOK
  <2>3. Shapes' /\ Queueing'
    BY <1>1, <2>1, <2>2 DEF IInv, Shapes, Queueing, workers
  <2>4. TypeOK'
    <3>1. \A c \in Clients : worker'[c] # "none" <=> link'[c] \in {"open", "closed"}
      BY <1>1, <2>1 DEF IInv, TypeOK, workers
    <3>2. Len(queue') <= Backlog
      BY <2>2, TlsServerAssumption
    <3> QED
      BY <1>1, <2>1, <2>2, <3>1, <3>2 DEF IInv, TypeOK, workers
  <2>5. Phases' /\ LastSession'
    BY <1>1, <2>1 DEF IInv, Phases, LastSession, workers
  <2> QED
    BY <1>2, <2>3, <2>4, <2>5 DEF IInv
<1> QED
  BY <1>3, <1>4

\* A client joins the queue.
LEMMA ConnectKeepsIInv ==
    ASSUME IInv, NEW c \in Clients, Connect(c)
    PROVE  IInv'
<1>1. /\ listener \in {"test", "accept", "handshake"} /\ link[c] = "off"
      /\ Len(queue) < Backlog
      /\ link' = [link EXCEPT ![c] = "queued"] /\ queue' = Append(queue, c)
      /\ UNCHANGED <<main, locks, listener, current, typed, inbox, exitFlag, arduino,
                     late, worker, buffer, letter>>
  BY DEF Connect, workers
<1>2. /\ queue \in Seq(Clients) /\ Len(queue) \in Nat
      /\ link \in [Clients -> {"off", "queued", "refused", "open", "closed"}]
      /\ \A i \in 1 .. Len(queue) : queue[i] \in Clients
  <2>1. queue \in Seq(Clients)
    BY DEF IInv, Shapes
  <2> QED
    BY <2>1, LenProperties, ElementOfSeq DEF IInv, Shapes
<1>3. /\ queue' \in Seq(Clients) /\ Len(queue') = Len(queue) + 1
      /\ \A i \in 1 .. Len(queue) : queue'[i] = queue[i]
      /\ queue'[Len(queue) + 1] = c
  BY <1>1, <1>2, AppendProperties
<1>4. /\ link' \in [Clients -> {"off", "queued", "refused", "open", "closed"}]
      /\ link'[c] = "queued" /\ \A d \in Clients : d # c => link'[d] = link[d]
  BY <1>1, <1>2
<1>5. Shapes'
  BY <1>1, <1>3, <1>4 DEF IInv, Shapes
<1>6. TypeOK'
  <2>1. Len(queue') <= Backlog
    BY <1>1, <1>2, <1>3, TlsServerAssumption
  <2>2. worker[c] = "none"
    BY <1>1 DEF IInv, TypeOK
  <2> QED
    BY <1>1, <1>4, <2>1, <2>2 DEF IInv, TypeOK
<1>7. Queueing'
  <2>1. \A i \in 1 .. Len(queue) : queue[i] # c /\ link[queue[i]] = "queued"
    BY <1>1 DEF IInv, Queueing
  <2>2. current # NULL => current # c /\ link[current] = "queued" /\ current \in Clients
    BY <1>1 DEF IInv, Queueing, TypeOK
  <2>3. \A i \in 1 .. Len(queue') : i \in 1 .. Len(queue) \/ i = Len(queue) + 1
    BY <1>2, <1>3
  <2>4. \A i \in 1 .. Len(queue') : link'[queue'[i]] = "queued"
    BY <1>2, <1>3, <1>4, <2>1, <2>3
  <2>5. \A i, j \in 1 .. Len(queue') : i # j => queue'[i] # queue'[j]
    BY <1>3, <2>1, <2>3 DEF IInv, Queueing
  <2>6. current # NULL => /\ link'[current] = "queued"
                         /\ \A i \in 1 .. Len(queue') : queue'[i] # current
    BY <1>3, <1>4, <2>2, <2>3 DEF IInv, Queueing
  <2> QED
    BY <1>1, <2>4, <2>5, <2>6 DEF Queueing
<1>8. Phases' /\ LastSession'
  BY <1>1 DEF IInv, Phases, LastSession
<1>9. Pipelines' /\ CommandsInOrder'
  <2>1. \A d \in Refused : worker[d] = "none"
    BY DEF IInv, CommandsInOrder
  <2> QED
    BY <1>1, <2>1, DataStays
<1> QED
  BY <1>5, <1>6, <1>7, <1>8, <1>9 DEF IInv

\* The first of the queue comes into the handshake.
LEMMA AcceptKeepsIInv ==
    ASSUME IInv, Accept
    PROVE  IInv'
<1>1. /\ listener = "accept" /\ queue # << >>
      /\ current' = Head(queue) /\ queue' = Tail(queue) /\ listener' = "handshake"
      /\ UNCHANGED <<main, locks, link, typed, inbox, exitFlag, arduino, late, worker,
                     buffer, letter>>
  BY DEF Accept, network, workers
<1>2. queue \in Seq(Clients) /\ Len(queue) \in Nat \ {0}
  BY <1>1, EmptySeq DEF IInv, Shapes
<1>3. /\ current' \in Clients /\ current' = queue[1]
      /\ queue' \in Seq(Clients) /\ Len(queue') = Len(queue) - 1
      /\ \A i \in 1 .. Len(queue') : queue'[i] = queue[i + 1]
  BY <1>1, <1>2, HeadTailProperties
<1>4. \A i \in 1 .. Len(queue') : i + 1 \in 1 .. Len(queue) /\ i + 1 # 1
  BY <1>2, <1>3
<1>5. Shapes'
  BY <1>1, <1>3 DEF IInv, Shapes
<1>6. TypeOK'
  <2>1. Len(queue') <= Backlog
    BY <1>2, <1>3, TlsServerAssumption DEF IInv, TypeOK
  <2>2. current' # NULL
    BY <1>3, TlsServerAssumption
  <2> QED
    BY <1>1, <1>3, <2>1, <2>2 DEF IInv, TypeOK
<1>7. Queueing'
  <2>1. 1 \in 1 .. Len(queue)
    BY <1>2
  <2>2. \A i \in 1 .. Len(queue') : link[queue'[i]] = "queued" /\ queue'[i] # current'
    BY <1>3, <1>4, <2>1 DEF IInv, Queueing
  <2>3. \A i, j \in 1 .. Len(queue') : i # j => i + 1 # j + 1
    BY <1>2, <1>3
  <2>4. \A i, j \in 1 .. Len(queue') : i # j => queue'[i] # queue'[j]
    BY <1>3, <1>4, <2>3 DEF IInv, Queueing
  <2>5. link[current'] = "queued"
    BY <1>3, <2>1 DEF IInv, Queueing
  <2> QED
    BY <1>1, <2>2, <2>4, <2>5 DEF Queueing
<1>8. Phases' /\ LastSession'
  BY <1>1 DEF IInv, Phases, LastSession
<1>9. Pipelines' /\ CommandsInOrder'
  <2>1. \A d \in Refused : worker[d] = "none"
    BY DEF IInv, CommandsInOrder
  <2> QED
    BY <1>1, <2>1, DataStays
<1> QED
  BY <1>5, <1>6, <1>7, <1>8, <1>9 DEF IInv

\* The handshake ends, with or without a session.
LEMMA HandshakeKeepsIInv ==
    ASSUME IInv, Handshake \/ HandshakeFails
    PROVE  IInv'
<1>1. /\ listener = "handshake" /\ current \in Clients /\ current # NULL
      /\ listener' = "test" /\ current' = NULL
      /\ UNCHANGED <<main, locks, queue, typed, inbox, buffer, letter, exitFlag, arduino>>
  BY TlsServerAssumption DEF Handshake, HandshakeFails, Clients, workers
<1>2. PICK up \in {"open", "refused"} : link' = [link EXCEPT ![current] = up]
  BY DEF Handshake, HandshakeFails
<1>3. /\ link \in [Clients -> {"off", "queued", "refused", "open", "closed"}]
      /\ worker \in [Clients -> {"none", "test", "read", "handle"}]
      /\ link[current] = "queued" /\ worker[current] = "none"
      /\ queue \in Seq(Clients) /\ late \in Nat /\ late = 0
  <2>1. Shapes /\ LastSession /\ TypeOK /\ link[current] = "queued"
    BY <1>1 DEF IInv, Queueing
  <2>2. worker[current] = "none"
    BY <1>1, <2>1 DEF TypeOK, Shapes
  <2>3. late = 0
    BY <1>1, <2>1 DEF LastSession, Shapes
  <2> QED
    BY <2>1, <2>2, <2>3 DEF Shapes
<1>4. /\ link' \in [Clients -> {"off", "queued", "refused", "open", "closed"}]
      /\ link'[current] = up /\ \A d \in Clients : d # current => link'[d] = link[d]
  BY <1>1, <1>2, <1>3
<1>5. /\ worker' \in [Clients -> {"none", "test", "read", "handle"}]
      /\ worker'[current] \in {"none", "test"}
      /\ worker'[current] # "none" <=> link'[current] \in {"open", "closed"}
      /\ \A d \in Clients : d # current => worker'[d] = worker[d]
  <2>1. CASE Handshake
    BY <1>1, <1>3, <2>1 DEF Handshake
  <2>2. CASE HandshakeFails
    BY <1>1, <1>3, <2>2 DEF HandshakeFails, workers
  <2> QED
    BY <2>1, <2>2
<1>6. late' \in {0, 1} /\ (late' = 1 => exitFlag)
  BY <1>3 DEF Handshake, HandshakeFails
<1>7. Shapes'
  BY <1>1, <1>4, <1>5, <1>6 DEF IInv, Shapes
<1>8. TypeOK'
  <2>1. \A d \in Clients : worker'[d] # "none" <=> link'[d] \in {"open", "closed"}
    BY <1>4, <1>5 DEF IInv, TypeOK
  <2>2. \A d \in Clients : /\ link'[d] \in {"off", "queued", "refused", "open", "closed"}
                           /\ worker'[d] \in {"none", "test", "read", "handle"}
    BY <1>4, <1>5
  <2> QED
    BY <1>1, <2>1, <2>2 DEF IInv, TypeOK
<1>9. Queueing'
  <2>1. \A i \in 1 .. Len(queue) :
            queue[i] \in Clients /\ queue[i] # current /\ link[queue[i]] = "queued"
    BY <1>1, <1>3, ElementOfSeq DEF IInv, Queueing
  <2> QED
    BY <1>1, <1>4, <2>1 DEF IInv, Queueing
<1>10. Phases' /\ LastSession'
  BY <1>1, <1>6 DEF IInv, Phases, LastSession
<1>11. Pipelines' /\ CommandsInOrder'
  <2>1. \A d \in Refused : worker'[d] = "none"
    <3>1. \A d \in Refused : worker[d] = "none" /\ d \in Clients
      BY DEF IInv, CommandsInOrder, Clients
    <3>2. CASE Handshake
      BY <1>5, <3>1, <3>2, TlsServerAssumption DEF Handshake
    <3>3. CASE HandshakeFails
      BY <3>1, <3>3 DEF HandshakeFails, workers
    <3> QED
      BY <3>2, <3>3
  <2>2. \A d \in Clients : worker'[d] = "handle" <=> worker[d] = "handle"
    BY <1>3, <1>5
  <2> QED
    BY <1>1, <2>1, <2>2, DataStays
<1> QED
  BY <1>7, <1>8, <1>9, <1>10, <1>11 DEF IInv

-----------------------------------------------------------------------------
\* What the operators and the workers do leaves the listener's part alone.
LEMMA ControlStays ==
    ASSUME IInv, Shapes', UNCHANGED <<main, locks, listener, current, queue, exitFlag, late, link>>,
           \A c \in Clients : worker'[c] = "none" <=> worker[c] = "none"
    PROVE  TypeOK' /\ Queueing' /\ Phases' /\ LastSession'
<1>1. TypeOK'
  <2>1. \A c \in Clients : worker'[c] # "none" <=> link'[c] \in {"open", "closed"}
    BY DEF IInv, TypeOK
  <2>2. \A c \in Clients : /\ worker'[c] \in {"none", "test", "read", "handle"}
                           /\ link'[c] \in {"off", "queued", "refused", "open", "closed"}
                           /\ buffer'[c] \in [Indices -> 0 .. Half - 1]
    BY DEF Shapes, Halfs
  <2> QED
    BY <2>1, <2>2 DEF IInv, TypeOK
<1>2. Queueing'
  BY DEF IInv, Queueing
<1>3. Phases' /\ LastSession'
  BY DEF IInv, Phases, LastSession
<1> QED
  BY <1>1, <1>2, <1>3

LEMMA CloseKeepsIInv ==
    ASSUME IInv, NEW c \in Clients, Close(c)
    PROVE  IInv'
<1>1. /\ link[c] = "open" /\ link' = [link EXCEPT ![c] = "closed"]
      /\ UNCHANGED <<main, locks, listener, current, queue, exitFlag, late, typed, inbox,
                     letter, buffer, arduino, worker>>
  BY DEF Close, threads, workers
<1>2. /\ link' \in [Clients -> {"off", "queued", "refused", "open", "closed"}]
      /\ link'[c] = "closed" /\ \A d \in Clients : d # c => link'[d] = link[d]
  BY <1>1 DEF IInv, Shapes
<1>3. Shapes'
  BY <1>1, <1>2 DEF IInv, Shapes
<1>4. TypeOK'
  <2>1. \A d \in Clients : worker'[d] # "none" <=> link'[d] \in {"open", "closed"}
    BY <1>1, <1>2 DEF IInv, TypeOK
  <2>2. \A d \in Clients : link'[d] \in {"off", "queued", "refused", "open", "closed"}
    BY <1>2
  <2> QED
    BY <1>1, <2>1, <2>2 DEF IInv, TypeOK
<1>5. Queueing'
  <2>1. \A i \in 1 .. Len(queue) : queue[i] \in Clients /\ queue[i] # c
    BY <1>1, ElementOfSeq DEF IInv, Queueing, Shapes
  <2>2. current # NULL => current \in Clients /\ current # c
    BY <1>1 DEF IInv, Queueing, TypeOK
  <2> QED
    BY <1>1, <1>2, <2>1, <2>2 DEF IInv, Queueing
<1>6. Phases' /\ LastSession'
  BY <1>1 DEF IInv, Phases, LastSession
<1>7. Pipelines' /\ CommandsInOrder'
  <2>1. \A d \in Refused : worker[d] = "none"
    BY DEF IInv, CommandsInOrder
  <2> QED
    BY <1>1, <2>1, DataStays
<1> QED
  BY <1>3, <1>4, <1>5, <1>6, <1>7 DEF IInv

\* A worker that finds its connection closed, or goes back to its read.
LEMMA IdlingKeepsIInv ==
    ASSUME IInv, NEW c \in Clients, Test(c) \/ ReadClosed(c)
    PROVE  IInv'
<1>1. /\ worker[c] \in {"test", "read"}
      /\ UNCHANGED <<main, locks, listener, current, queue, exitFlag, late, link, typed,
                     inbox, letter, buffer, arduino>>
  BY DEF Test, ReadClosed, threads, network
<1>2. PICK next \in {"test", "read"} : worker' = [worker EXCEPT ![c] = next]
  BY DEF Test, ReadClosed
<1>3. /\ worker' \in [Clients -> {"none", "test", "read", "handle"}]
      /\ worker'[c] = next /\ \A d \in Clients : d # c => worker'[d] = worker[d]
  BY <1>2 DEF IInv, Shapes
<1>4. Shapes'
  BY <1>1, <1>3 DEF IInv, Shapes
<1>5. \A d \in Clients : /\ worker'[d] = "none" <=> worker[d] = "none"
                         /\ worker'[d] = "handle" <=> worker[d] = "handle"
  BY <1>1, <1>3
<1>6. TypeOK' /\ Queueing' /\ Phases' /\ LastSession'
  BY <1>1, <1>4, <1>5, ControlStays
<1>7. Pipelines' /\ CommandsInOrder'
  <2>1. \A d \in Refused : worker'[d] = "none"
    BY <1>5 DEF IInv, CommandsInOrder, Clients
  <2> QED
    BY <1>1, <1>5, <2>1, DataStays
<1> QED
  BY <1>4, <1>6, <1>7 DEF IInv

\* What holds of a pipeline, with its parts typed.
LEMMA PipelineTypes ==
    ASSUME IInv, NEW c \in Clients
    PROVE  /\ Pipeline(c)
           /\ SentOf(c) \in Nat /\ InHand(c) \in {0, 1}
           /\ typed[c] \in Seq(Entries) /\ Len(typed[c]) \in Nat
           /\ inbox[c] \in Seq(Records) /\ Len(inbox[c]) \in Nat
           /\ arduino \in Seq(Packets) /\ Len(arduino) \in Nat
           /\ \A n \in 1 .. Len(arduino) :
                 arduino[n].from = c => CountOf(c, n) \in 1 .. Len(typed[c])
<1>1. /\ Pipeline(c) /\ typed[c] \in Seq(Entries) /\ inbox[c] \in Seq(Records)
      /\ arduino \in Seq(Packets)
  BY DEF IInv, Pipelines, Shapes
<1>2. Len(typed[c]) \in Nat /\ Len(inbox[c]) \in Nat /\ Len(arduino) \in Nat
  <2>1. Len(typed[c]) \in Nat
    BY <1>1, LenProperties
  <2>2. Len(inbox[c]) \in Nat
    BY <1>1, LenProperties
  <2>3. Len(arduino) \in Nat
    BY <1>1, LenProperties
  <2> QED
    BY <2>1, <2>2, <2>3
<1>3. SentOf(c) \in Nat
  <2>1. SentOf(c) = CountIn(arduino, c, Len(arduino))
    BY CountsAreTheSame
  <2> QED
    BY <1>2, <2>1, CountIsNat
<1>4. ASSUME NEW n \in 1 .. Len(arduino), arduino[n].from = c
      PROVE  CountOf(c, n) \in 1 .. Len(typed[c])
  <2>1. n \in Nat /\ n \in 1 .. n
    BY <1>2
  <2>2. CountOf(c, n) \in Nat /\ CountOf(c, n) >= 1
    <3>1. CountOf(c, n) = CountIn(arduino, c, n)
      BY CountsAreTheSame
    <3>2. /\ CountIn(arduino, c, n) \in Nat
          /\ \A j \in 1 .. n : arduino[j].from = c => CountIn(arduino, c, n) >= 1
      BY <2>1, CountIsNat
    <3> QED
      BY <1>4, <2>1, <3>1, <3>2
  <2>3. c # NULL
    BY TlsServerAssumption
  <2>4. CountOf(c, n) <= Len(typed[c])
    <3>1. CommandsInOrder
      BY DEF IInv
    <3> HIDE DEF IInv
    <3> QED
      BY <1>4, <2>3, <3>1 DEF CommandsInOrder
  <2> QED
    BY <1>2, <2>2, <2>4
<1> QED
  BY <1>1, <1>2, <1>3, <1>4 DEF InHand

\* A pipeline that nobody touches.
LEMMA OtherPipeline ==
    ASSUME IInv, NEW d \in Clients, SentOf(d)' = SentOf(d),
           typed'[d] = typed[d], inbox'[d] = inbox[d], worker'[d] = worker[d],
           letter'[d] = letter[d], buffer'[d] = buffer[d]
    PROVE  Pipeline(d)'
<1>1. Pipeline(d) /\ InHand(d)' = InHand(d)
  BY DEF IInv, Pipelines, InHand
<1> QED
  BY <1>1 DEF Pipeline

\* An operator types: the command goes to the end of the pipeline.
LEMMA TypeKeepsIInv ==
    ASSUME IInv, NEW c \in Clients, Type(c)
    PROVE  IInv'
<1>1. PICK e \in Entries :
         /\ typed' = [typed EXCEPT ![c] = Append(@, e)]
         /\ inbox' = [inbox EXCEPT ![c] =
                Append(@, [letter |-> e.letter, halves |-> SubSeq(halves(e), 1, Sent)])]
  BY DEF Type
<1>2. UNCHANGED <<main, locks, listener, current, queue, exitFlag, late, link, worker, letter,
                  buffer, arduino>>
  BY DEF Type, threads, workers
<1>3. inbox' = [inbox EXCEPT ![c] = Append(@, recordOf(e))] /\ recordOf(e) \in Records
  BY <1>1, RecordShape DEF recordOf
<1>4. /\ typed \in [Clients -> Seq(Entries)] /\ inbox \in [Clients -> Seq(Records)]
      /\ typed[c] \in Seq(Entries) /\ inbox[c] \in Seq(Records)
      /\ Len(typed[c]) \in Nat /\ Len(inbox[c]) \in Nat
      /\ SentOf(c) \in Nat /\ InHand(c) \in {0, 1}
      /\ Pipeline(c)
  BY PipelineTypes DEF IInv, Shapes
<1>5. /\ typed'[c] = Append(typed[c], e) /\ inbox'[c] = Append(inbox[c], recordOf(e))
      /\ \A d \in Clients : d # c => typed'[d] = typed[d] /\ inbox'[d] = inbox[d]
  BY <1>1, <1>3, <1>4
<1>6. /\ typed'[c] \in Seq(Entries) /\ Len(typed'[c]) = Len(typed[c]) + 1
      /\ \A i \in 1 .. Len(typed[c]) : typed'[c][i] = typed[c][i]
      /\ typed'[c][Len(typed[c]) + 1] = e
  BY <1>4, <1>5, AppendProperties
<1>7. /\ inbox'[c] \in Seq(Records) /\ Len(inbox'[c]) = Len(inbox[c]) + 1
      /\ \A i \in 1 .. Len(inbox[c]) : inbox'[c][i] = inbox[c][i]
      /\ inbox'[c][Len(inbox[c]) + 1] = recordOf(e)
  BY <1>3, <1>4, <1>5, AppendProperties
<1>8. Shapes'
  <2>1. typed' \in [Clients -> Seq(Entries)]
    BY <1>1, <1>4, <1>5, <1>6
  <2>2. inbox' \in [Clients -> Seq(Records)]
    BY <1>3, <1>4, <1>5, <1>7
  <2> QED
    BY <1>2, <2>1, <2>2 DEF IInv, Shapes
<1>9. TypeOK' /\ Queueing' /\ Phases' /\ LastSession'
  BY <1>2, <1>8, ControlStays
<1>10. \A d : SentOf(d)' = SentOf(d) /\ \A n : CountOf(d, n)' = CountOf(d, n)
  BY <1>2 DEF SentOf, CountOf
<1>11. ASSUME NEW d \in Clients PROVE Pipeline(d)'
  <2>1. CASE d # c
    BY <1>2, <1>5, <1>10, <2>1, OtherPipeline
  <2>2. CASE d = c
    <3> DEFINE first == SentOf(c) + InHand(c)
    <3>1. InHand(c)' = InHand(c) /\ SentOf(c)' = SentOf(c)
      BY <1>2, <1>10 DEF InHand
    <3>2. /\ first \in Nat /\ Len(typed[c]) = first + Len(inbox[c])
          /\ \A k \in 1 .. Len(inbox[c]) : inbox[c][k] = recordOf(typed[c][first + k])
      BY <1>4 DEF Pipeline
    <3>3. worker[c] = "handle" =>
             /\ SentOf(c) + 1 \in 1 .. Len(typed[c])
             /\ letter[c] = typed[c][SentOf(c) + 1].letter
             /\ \A i \in 1 .. Sent : buffer[c][i] = halves(typed[c][SentOf(c) + 1])[i]
      BY <1>4 DEF Pipeline, InHand
    <3> HIDE DEF first
    <3>4. Len(typed'[c]) = first + Len(inbox'[c])
      BY <1>4, <1>6, <1>7, <3>2
    <3>5. ASSUME NEW k \in 1 .. Len(inbox'[c])
          PROVE  inbox'[c][k] = recordOf(typed'[c][first + k])
      <4>1. CASE k \in 1 .. Len(inbox[c])
        <5>1. first + k \in 1 .. Len(typed[c])
          BY <1>4, <3>2, <4>1
        <5> QED
          BY <1>6, <1>7, <3>2, <4>1, <5>1
      <4>2. CASE k = Len(inbox[c]) + 1
        <5>1. first + k = Len(typed[c]) + 1
          BY <1>4, <3>2, <4>2
        <5> QED
          BY <1>6, <1>7, <4>2, <5>1
      <4> QED
        BY <1>4, <1>7, <4>1, <4>2
    <3>6. worker'[c] = "handle" =>
             /\ letter'[c] = typed'[c][SentOf(c) + 1].letter
             /\ \A i \in 1 .. Sent : buffer'[c][i] = halves(typed'[c][SentOf(c) + 1])[i]
      BY <1>2, <1>6, <3>3
    <3> QED
      BY <2>2, <3>1, <3>4, <3>5, <3>6 DEF Pipeline, first
  <2> QED
    BY <2>1, <2>2
<1>12. CommandsInOrder'
  <2>1. ASSUME NEW n \in 1 .. Len(arduino), arduino[n].from # NULL
        PROVE  LET d == arduino[n].from IN
               /\ d \in Trusted
               /\ CountOf(d, n) <= Len(typed'[d])
               /\ arduino[n].command = command[typed'[d][CountOf(d, n)].letter]
               /\ Sent >= 2 => arduino[n].arg = typed'[d][CountOf(d, n)].arg
    <3> DEFINE d == arduino[n].from
    <3>1. /\ d \in Trusted /\ d \in Clients
          /\ arduino[n].command = command[typed[d][CountOf(d, n)].letter]
          /\ Sent >= 2 => arduino[n].arg = typed[d][CountOf(d, n)].arg
      BY <2>1 DEF IInv, CommandsInOrder, Clients
    <3>2. CountOf(d, n) \in 1 .. Len(typed[d]) /\ Len(typed[d]) \in Nat
      BY <3>1, PipelineTypes
    <3>3. CountOf(d, n) <= Len(typed'[d]) /\ typed'[d][CountOf(d, n)] = typed[d][CountOf(d, n)]
      <4> DEFINE k == CountOf(d, n)
      <4> HIDE DEF d, k
      <4>1. k \in 1 .. Len(typed[d]) /\ Len(typed[d]) \in Nat /\ d \in Clients
        BY <3>1, <3>2 DEF k
      <4>2. CASE d # c
        <5>1. typed'[d] = typed[d]
          BY <1>5, <4>1, <4>2
        <5> QED
          BY <4>1, <5>1 DEF k
      <4>3. CASE d = c
        <5>1. k \in 1 .. Len(typed[c]) /\ Len(typed'[c]) = Len(typed[c]) + 1
          BY <1>6, <4>1, <4>3
        <5>2. typed'[c][k] = typed[c][k]
          BY <1>6, <5>1
        <5>3. k <= Len(typed'[c])
          BY <4>1, <4>3, <5>1
        <5> QED
          BY <4>3, <5>2, <5>3 DEF k
      <4> QED
        BY <4>2, <4>3
    <3> QED
      BY <3>1, <3>3
  <2>2. \A d \in Refused : worker'[d] = "none"
    BY <1>2 DEF IInv, CommandsInOrder
  <2> QED
    BY <1>2, <1>10, <2>1, <2>2 DEF CommandsInOrder
<1> QED
  BY <1>8, <1>9, <1>11, <1>12 DEF IInv, Pipelines

\* A worker reads: the first record comes into its hands.
LEMMA ReadKeepsIInv ==
    ASSUME IInv, NEW c \in Clients, Read(c)
    PROVE  IInv'
<1> DEFINE r == Head(inbox[c])
<1>1. /\ worker[c] = "read" /\ inbox[c] # << >>
      /\ letter' = [letter EXCEPT ![c] = r.letter]
      /\ buffer' = [buffer EXCEPT ![c] =
             [i \in Indices |-> IF i <= Sent THEN r.halves[i] ELSE @[i]]]
      /\ inbox' = [inbox EXCEPT ![c] = Tail(@)]
      /\ worker' = [worker EXCEPT ![c] = "handle"]
      /\ UNCHANGED <<main, locks, listener, current, queue, exitFlag, late, link, typed,
                     arduino>>
  BY DEF Read, threads
<1>2. /\ Pipeline(c) /\ SentOf(c) \in Nat /\ InHand(c) = 0
      /\ typed[c] \in Seq(Entries) /\ Len(typed[c]) \in Nat
      /\ inbox[c] \in Seq(Records) /\ Len(inbox[c]) \in Nat
  <2>1. InHand(c) = 0
    BY <1>1 DEF InHand
  <2> QED
    BY <2>1, PipelineTypes
<1> HIDE DEF r
<1>3. /\ Len(inbox[c]) >= 1 /\ r = inbox[c][1]
      /\ Tail(inbox[c]) \in Seq(Records) /\ Len(Tail(inbox[c])) = Len(inbox[c]) - 1
      /\ \A k \in 1 .. Len(Tail(inbox[c])) : Tail(inbox[c])[k] = inbox[c][k + 1]
  BY <1>1, <1>2, HeadTailProperties, EmptySeq DEF r
<1> DEFINE e == typed[c][SentOf(c) + 1]
<1>4. SentOf(c) + 1 \in 1 .. Len(typed[c]) /\ e \in Entries /\ r = recordOf(e)
  <2>1. Len(typed[c]) = SentOf(c) + Len(inbox[c]) /\ inbox[c][1] = recordOf(typed[c][SentOf(c) + 1])
    <3>1. /\ Len(typed[c]) = SentOf(c) + InHand(c) + Len(inbox[c])
          /\ \A k \in 1 .. Len(inbox[c]) : inbox[c][k] = recordOf(typed[c][SentOf(c) + InHand(c) + k])
      BY <1>2 DEF Pipeline
    <3>2. 1 \in 1 .. Len(inbox[c]) /\ SentOf(c) + InHand(c) + 1 = SentOf(c) + 1
      BY <1>2, <1>3
    <3> QED
      BY <1>2, <3>1, <3>2
  <2>2. SentOf(c) + 1 \in 1 .. Len(typed[c])
    BY <1>2, <1>3, <2>1
  <2> QED
    BY <1>2, <1>3, <2>1, <2>2, ElementOfSeq
<1> HIDE DEF e
<1>5. /\ r.letter = e.letter /\ r.letter \in Letters
      /\ \A i \in 1 .. Sent : r.halves[i] = halves(e)[i] /\ halves(e)[i] \in Halfs
  <2>1. /\ recordOf(e) \in Records /\ halves(e) \in Seq(Halfs) /\ Len(halves(e)) = 4
        /\ recordOf(e).letter = e.letter
        /\ \A i \in 1 .. Sent : recordOf(e).halves[i] = halves(e)[i]
    BY <1>4, RecordShape
  <2>2. ASSUME NEW i \in 1 .. Sent PROVE halves(e)[i] \in Halfs
    <3>1. i \in 1 .. Len(halves(e))
      BY <2>1, TlsServerAssumption
    <3> QED
      BY <2>1, <3>1, ElementOfSeq
  <2> QED
    BY <1>4, <2>1, <2>2 DEF Records
<1>6. /\ letter' \in [Clients -> Letters \cup {NULL}] /\ letter'[c] = e.letter
      /\ \A d \in Clients : d # c => letter'[d] = letter[d]
  BY <1>1, <1>5 DEF IInv, Shapes
<1>7. /\ worker' \in [Clients -> {"none", "test", "read", "handle"}] /\ worker'[c] = "handle"
      /\ \A d \in Clients : d # c => worker'[d] = worker[d]
  BY <1>1 DEF IInv, Shapes
<1>8. /\ inbox' \in [Clients -> Seq(Records)] /\ inbox'[c] = Tail(inbox[c])
      /\ \A d \in Clients : d # c => inbox'[d] = inbox[d]
  BY <1>1, <1>3 DEF IInv, Shapes
<1>9. /\ buffer' \in [Clients -> [Indices -> Halfs]]
      /\ \A i \in 1 .. Sent : buffer'[c][i] = halves(e)[i]
      /\ \A d \in Clients : d # c => buffer'[d] = buffer[d]
  <2> DEFINE b == [i \in Indices |-> IF i <= Sent THEN r.halves[i] ELSE buffer[c][i]]
  <2>1. buffer' = [buffer EXCEPT ![c] = b] /\ buffer \in [Clients -> [Indices -> Halfs]]
    BY <1>1 DEF IInv, Shapes
  <2>2. ASSUME NEW i \in Indices PROVE b[i] \in Halfs
    <3>1. i <= Sent => i \in 1 .. Sent
      BY TlsServerAssumption DEF Indices
    <3> QED
      BY <1>5, <2>1, <3>1
  <2>3. ASSUME NEW i \in 1 .. Sent PROVE b[i] = halves(e)[i]
    <3>1. i \in Indices /\ i <= Sent
      BY TlsServerAssumption DEF Indices
    <3> QED
      BY <1>5, <3>1
  <2>4. b \in [Indices -> Halfs]
    BY <2>2
  <2> HIDE DEF b
  <2> QED
    BY <2>1, <2>3, <2>4
<1>10. Shapes'
  BY <1>1, <1>6, <1>7, <1>8, <1>9 DEF IInv, Shapes
<1>11. TypeOK' /\ Queueing' /\ Phases' /\ LastSession'
  <2>1. \A d \in Clients : worker'[d] = "none" <=> worker[d] = "none"
    BY <1>1, <1>7
  <2> QED
    BY <1>1, <1>10, <2>1, ControlStays
<1>12. \A d : SentOf(d)' = SentOf(d) /\ \A n : CountOf(d, n)' = CountOf(d, n)
  BY <1>1 DEF SentOf, CountOf
<1>13. ASSUME NEW d \in Clients PROVE Pipeline(d)'
  <2>1. CASE d # c
    BY <1>1, <1>6, <1>7, <1>8, <1>9, <1>12, <2>1, OtherPipeline
  <2>2. CASE d = c
    <3>1. InHand(c)' = 1 /\ SentOf(c)' = SentOf(c)
      BY <1>7, <1>12 DEF InHand
    <3>2. Len(typed[c]) = SentOf(c) + 1 + Len(inbox'[c])
      <4>1. Len(typed[c]) = SentOf(c) + InHand(c) + Len(inbox[c])
        BY <1>2 DEF Pipeline
      <4>2. Len(inbox'[c]) = Len(inbox[c]) - 1
        BY <1>3, <1>8
      <4> QED
        BY <1>2, <4>1, <4>2
    <3>3. ASSUME NEW k \in 1 .. Len(inbox'[c])
          PROVE  inbox'[c][k] = recordOf(typed[c][SentOf(c) + 1 + k])
      <4>1. k + 1 \in 1 .. Len(inbox[c]) /\ k \in 1 .. Len(Tail(inbox[c]))
        BY <1>2, <1>3, <1>8
      <4>2. inbox[c][k + 1] = recordOf(typed[c][SentOf(c) + InHand(c) + (k + 1)])
        BY <1>2, <4>1 DEF Pipeline
      <4>3. SentOf(c) + InHand(c) + (k + 1) = SentOf(c) + 1 + k
        BY <1>2, <4>1
      <4>4. inbox'[c][k] = inbox[c][k + 1]
        BY <1>3, <1>8, <4>1
      <4> QED
        BY <4>2, <4>3, <4>4
    <3>4. letter'[c] = e.letter /\ \A i \in 1 .. Sent : buffer'[c][i] = halves(e)[i]
      BY <1>6, <1>9
    <3> QED
      BY <1>1, <2>2, <3>1, <3>2, <3>3, <3>4 DEF Pipeline, e
  <2> QED
    BY <2>1, <2>2
<1>14. CommandsInOrder'
  <2>1. c \notin Refused /\ \A d \in Refused : worker[d] = "none"
    BY <1>1 DEF IInv, CommandsInOrder
  <2>2. \A d \in Refused : worker'[d] = "none"
    BY <1>7, <2>1 DEF Clients
  <2> QED
    BY <1>1, <1>12, <2>2 DEF IInv, CommandsInOrder
<1> QED
  BY <1>10, <1>11, <1>13, <1>14 DEF IInv, Pipelines

\* A packet more on the serial line.
LEMMA ArduinoGrows ==
    ASSUME arduino \in Seq(Packets), NEW p \in Packets, arduino' = Append(arduino, p)
    PROVE  /\ arduino' \in Seq(Packets) /\ Len(arduino) \in Nat
           /\ Len(arduino') = Len(arduino) + 1 /\ arduino'[Len(arduino) + 1] = p
           /\ \A n \in 1 .. Len(arduino) : arduino'[n] = arduino[n]
           /\ \A d : \A n \in 1 .. Len(arduino) : CountOf(d, n)' = CountOf(d, n)
           /\ \A d : SentOf(d)' = SentOf(d) + (IF p.from = d THEN 1 ELSE 0)
           /\ \A d : \A n : n = Len(arduino) + 1 => CountOf(d, n)' = SentOf(d)'
<1>1. /\ arduino' \in Seq(Packets) /\ Len(arduino) \in Nat
      /\ Len(arduino') = Len(arduino) + 1 /\ arduino'[Len(arduino) + 1] = p
      /\ \A n \in 1 .. Len(arduino) : arduino'[n] = arduino[n]
  BY AppendProperties, LenProperties
<1>0. ASSUME NEW d
      PROVE  /\ \A n \in 0 .. Len(arduino) :
                    CountIn(Append(arduino, p), d, n) = CountIn(arduino, d, n)
             /\ CountIn(Append(arduino, p), d, Len(arduino) + 1)
                  = CountIn(arduino, d, Len(arduino)) + (IF p.from = d THEN 1 ELSE 0)
  BY ZenonT(20), CountAppend
<1>2. ASSUME NEW d, NEW n \in 1 .. Len(arduino) PROVE CountOf(d, n)' = CountOf(d, n)
  <2>1. CountIn(arduino', d, n) = CountIn(arduino, d, n)
    <3>1. n \in 0 .. Len(arduino)
      BY <1>1
    <3> QED
      BY <1>0, <3>1
  <2> QED
    BY <2>1, CountsAreTheSame, CountsAreTheSameNext
<1>3. ASSUME NEW d
      PROVE  /\ SentOf(d)' = SentOf(d) + (IF p.from = d THEN 1 ELSE 0)
             /\ CountIn(arduino', d, Len(arduino) + 1) = SentOf(d)'
  <2>1. CountIn(arduino', d, Len(arduino) + 1)
          = CountIn(arduino, d, Len(arduino)) + (IF p.from = d THEN 1 ELSE 0)
    BY <1>0
  <2>2. /\ SentOf(d) = CountIn(arduino, d, Len(arduino))
        /\ SentOf(d)' = CountIn(arduino', d, Len(arduino'))
    BY CountsAreTheSame, CountsAreTheSameNext
  <2> QED
    BY <1>1, <2>1, <2>2
<1>4. ASSUME NEW d, NEW n, n = Len(arduino) + 1 PROVE CountOf(d, n)' = SentOf(d)'
  <2>1. n = Len(arduino')
    BY <1>1, <1>4
  <2> QED
    BY <2>1, CountsAreTheSameNext
<1> QED
  BY <1>1, <1>2, <1>3, <1>4

\* main() sends the HELLO, which no client sent.
LEMMA HelloKeepsIInv ==
    ASSUME IInv, sendHello
    PROVE  IInv'
<1>1. /\ main = "sendHello" /\ main' = "spin" /\ arduino' = Append(arduino, HELLO)
      /\ UNCHANGED <<locks, listener, current, queue, exitFlag, late, link, typed, inbox,
                     letter, buffer, worker>>
  BY DEF sendHello, network, workers
<1>2. HELLO \in Packets /\ HELLO.from = NULL /\ arduino \in Seq(Packets)
  BY DEF HELLO, Packets, IInv, Shapes
<1>3. /\ arduino' \in Seq(Packets) /\ Len(arduino) \in Nat
      /\ Len(arduino') = Len(arduino) + 1 /\ arduino'[Len(arduino) + 1] = HELLO
      /\ \A n \in 1 .. Len(arduino) : arduino'[n] = arduino[n]
      /\ \A d : \A n \in 1 .. Len(arduino) : CountOf(d, n)' = CountOf(d, n)
      /\ \A d : SentOf(d)' = SentOf(d) + (IF HELLO.from = d THEN 1 ELSE 0)
  BY <1>1, <1>2, ArduinoGrows
<1>4. Shapes'
  BY <1>1, <1>3 DEF IInv, Shapes
<1>5. TypeOK' /\ Queueing' /\ Phases' /\ LastSession'
  <2>1. TypeOK'
    BY <1>1 DEF IInv, TypeOK
  <2>2. Queueing' /\ Phases' /\ LastSession'
    BY <1>1 DEF IInv, Queueing, Phases, LastSession
  <2> QED
    BY <2>1, <2>2
<1>6. ASSUME NEW d \in Clients PROVE Pipeline(d)'
  <2>1. SentOf(d) \in Nat /\ d # NULL
    BY PipelineTypes, TlsServerAssumption
  <2>2. SentOf(d)' = SentOf(d)
    BY <1>2, <1>3, <2>1
  <2> QED
    BY <1>1, <2>2, OtherPipeline
<1>7. CommandsInOrder'
  <2>1. ASSUME NEW n \in 1 .. Len(arduino'), arduino'[n].from # NULL
        PROVE  /\ n \in 1 .. Len(arduino) /\ arduino'[n] = arduino[n]
               /\ CountOf(arduino[n].from, n)' = CountOf(arduino[n].from, n)
    <3>1. n \in 1 .. Len(arduino)
      BY <1>2, <1>3, <2>1
    <3> QED
      BY <1>3, <3>1
  <2>2. typed' = typed /\ worker' = worker
    BY <1>1
  <2> QED
    BY <2>1, <2>2 DEF IInv, CommandsInOrder
<1> QED
  BY <1>4, <1>5, <1>6, <1>7 DEF IInv, Pipelines

\* The packet made of what is in a worker's hands.
LEMMA PacketIsTheCommand ==
    ASSUME IInv, NEW c \in Clients, worker[c] = "handle"
    PROVE  LET e == typed[c][SentOf(c) + 1]
               p == packet(c, letter[c], buffer[c])
           IN  /\ SentOf(c) + 1 \in 1 .. Len(typed[c])
               /\ p \in Packets /\ p.from = c /\ p.command = command[e.letter]
               /\ Sent >= 2 => p.arg = e.arg
<1> DEFINE e == typed[c][SentOf(c) + 1]
           b == buffer[c]
           p == packet(c, letter[c], b)
<1>1. /\ Pipeline(c) /\ SentOf(c) \in Nat /\ InHand(c) = 1
      /\ typed[c] \in Seq(Entries) /\ Len(typed[c]) \in Nat /\ Len(inbox[c]) \in Nat
  BY PipelineTypes DEF InHand
<1>2. SentOf(c) + 1 \in 1 .. Len(typed[c])
  <2>1. Len(typed[c]) = SentOf(c) + InHand(c) + Len(inbox[c])
    BY <1>1 DEF Pipeline
  <2> QED
    BY <1>1, <2>1
<1>3. e \in Entries
  BY <1>1, <1>2, ElementOfSeq
<1>4. letter[c] = e.letter /\ \A i \in 1 .. Sent : b[i] = halves(e)[i]
  BY <1>1 DEF Pipeline
<1>5. e.letter \in Letters /\ (e.letter = "c" => e.arg = 0)
  BY <1>3, EntryShape
<1>6. b \in [Indices -> Halfs] /\ \A i \in Indices : b[i] \in Nat
  <2>1. b \in [Indices -> Halfs]
    BY DEF IInv, Shapes
  <2>2. Halfs \subseteq Nat
    BY TlsServerAssumption DEF Halfs
  <2> QED
    BY <2>1, <2>2
<1>7. word(b, 1) \in Nat /\ word(b, 3) \in Nat
  <2>1. b[1] \in Nat /\ b[2] \in Nat /\ b[3] \in Nat /\ b[4] \in Nat /\ Half \in Nat
    BY <1>6, TlsServerAssumption DEF Indices
  <2>2. \A x, y \in Nat : x + Half * y \in Nat
    BY <2>1
  <2>3. word(b, 1) = b[1] + Half * b[2] /\ word(b, 3) = b[3] + Half * b[4]
    BY DEF word
  <2> QED
    BY <2>1, <2>2, <2>3
<1>8. ASSUME Sent >= 2 PROVE word(b, 1) = e.arg
  <2>1. 1 \in 1 .. Sent /\ 2 \in 1 .. Sent
    BY <1>8, TlsServerAssumption
  <2>2. b[1] = halves(e)[1] /\ b[2] = halves(e)[2]
    BY <1>4, <2>1
  <2>3. halves(e)[1] + Half * halves(e)[2] = e.arg
    BY <1>3, RecordShape
  <2> QED
    BY <2>2, <2>3 DEF word
<1> HIDE DEF e, b
<1>9. p = [from |-> c, command |-> command[e.letter],
           arg |-> IF e.letter = "c" THEN 0 ELSE word(b, 1), power |-> word(b, 3)]
  BY <1>4 DEF packet
<1>10. p \in Packets
  BY <1>5, <1>7, <1>9 DEF Packets
<1>11. p.from = c /\ p.command = command[e.letter] /\ (Sent >= 2 => p.arg = e.arg)
  BY <1>5, <1>8, <1>9
<1> QED
  BY <1>2, <1>10, <1>11 DEF e, b

\* A worker sends what it has in its hands.
LEMMA SendKeepsIInv ==
    ASSUME IInv, NEW c \in Clients, sendCommand(c)
    PROVE  IInv'
<1> DEFINE p == packet(c, letter[c], buffer[c])
<1>1. /\ worker[c] = "handle" /\ arduino' = Append(arduino, p)
      /\ worker' = [worker EXCEPT ![c] = "test"]
      /\ UNCHANGED <<main, locks, listener, current, queue, exitFlag, late, link, typed,
                     inbox, letter, buffer>>
  BY DEF sendCommand, threads, network
<1>2. /\ SentOf(c) + 1 \in 1 .. Len(typed[c])
      /\ p \in Packets /\ p.from = c /\ p.command = command[typed[c][SentOf(c) + 1].letter]
      /\ Sent >= 2 => p.arg = typed[c][SentOf(c) + 1].arg
  BY <1>1, PacketIsTheCommand
<1>3. /\ Pipeline(c) /\ SentOf(c) \in Nat /\ InHand(c) = 1
      /\ Len(typed[c]) \in Nat /\ Len(inbox[c]) \in Nat /\ arduino \in Seq(Packets)
  BY <1>1, PipelineTypes DEF InHand
<1> HIDE DEF p
<1>4. /\ arduino' \in Seq(Packets) /\ Len(arduino) \in Nat
      /\ Len(arduino') = Len(arduino) + 1 /\ arduino'[Len(arduino) + 1] = p
      /\ \A n \in 1 .. Len(arduino) : arduino'[n] = arduino[n]
      /\ \A d : \A n \in 1 .. Len(arduino) : CountOf(d, n)' = CountOf(d, n)
      /\ \A d : SentOf(d)' = SentOf(d) + (IF p.from = d THEN 1 ELSE 0)
      /\ \A d : \A n : n = Len(arduino) + 1 => CountOf(d, n)' = SentOf(d)'
  BY <1>1, <1>2, <1>3, ArduinoGrows
<1>5. /\ worker' \in [Clients -> {"none", "test", "read", "handle"}] /\ worker'[c] = "test"
      /\ \A d \in Clients : d # c => worker'[d] = worker[d]
  BY <1>1 DEF IInv, Shapes
<1>6. Shapes'
  BY <1>1, <1>4, <1>5 DEF IInv, Shapes
<1>7. TypeOK' /\ Queueing' /\ Phases' /\ LastSession'
  <2>1. \A d \in Clients : worker'[d] = "none" <=> worker[d] = "none"
    BY <1>1, <1>5
  <2> QED
    BY <1>1, <1>6, <2>1, ControlStays
<1>8. SentOf(c)' = SentOf(c) + 1
  BY <1>2, <1>4
<1>9. ASSUME NEW d \in Clients PROVE Pipeline(d)'
  <2>1. CASE d # c
    <3>1. SentOf(d)' = SentOf(d) + 0 /\ SentOf(d) \in Nat
      BY <1>2, <1>4, <2>1, PipelineTypes
    <3>2. SentOf(d)' = SentOf(d)
      BY <3>1
    <3> QED
      BY <1>1, <1>5, <2>1, <3>2, OtherPipeline
  <2>2. CASE d = c
    <3>1. InHand(c)' = 0
      BY <1>5 DEF InHand
    <3>2. Len(typed[c]) = SentOf(c)' + 0 + Len(inbox[c])
      <4>1. Len(typed[c]) = SentOf(c) + InHand(c) + Len(inbox[c])
        BY <1>3 DEF Pipeline
      <4> QED
        BY <1>3, <1>8, <4>1
    <3>3. ASSUME NEW k \in 1 .. Len(inbox[c])
          PROVE  inbox[c][k] = recordOf(typed[c][SentOf(c)' + 0 + k])
      <4>1. inbox[c][k] = recordOf(typed[c][SentOf(c) + InHand(c) + k])
        BY <1>3 DEF Pipeline
      <4>2. SentOf(c) + InHand(c) + k = SentOf(c)' + 0 + k
        BY <1>3, <1>8
      <4> QED
        BY <4>1, <4>2
    <3>4. worker'[c] # "handle"
      BY <1>5
    <3> QED
      BY <1>1, <2>2, <3>1, <3>2, <3>3, <3>4 DEF Pipeline
  <2> QED
    BY <2>1, <2>2
<1>10. CommandsInOrder'
  <2>1. \A d \in Refused : worker'[d] = "none"
    <3>1. c \notin Refused
      BY <1>1 DEF IInv, CommandsInOrder
    <3> QED
      BY <1>5, <3>1 DEF IInv, CommandsInOrder, Clients
  <2>2. ASSUME NEW n \in 1 .. Len(arduino'), NEW d, arduino'[n].from = d, d # NULL
        PROVE  /\ d \in Trusted
               /\ CountIn(arduino', d, n) <= Len(typed[d])
               /\ arduino'[n].command = command[typed[d][CountIn(arduino', d, n)].letter]
               /\ Sent >= 2 => arduino'[n].arg = typed[d][CountIn(arduino', d, n)].arg
    <3>1. CASE n \in 1 .. Len(arduino)
      <4>1. arduino[n].from = d /\ arduino'[n] = arduino[n]
        BY <1>4, <2>2, <3>1
      <4>2. CountIn(arduino', d, n) = CountOf(d, n)
        BY <1>4, <3>1, CountsAreTheSameNext
      <4>3. /\ d \in Trusted /\ CountOf(d, n) <= Len(typed[d])
            /\ arduino[n].command = command[typed[d][CountOf(d, n)].letter]
            /\ Sent >= 2 => arduino[n].arg = typed[d][CountOf(d, n)].arg
        BY <2>2, <3>1, <4>1 DEF IInv, CommandsInOrder
      <4> QED
        BY <4>1, <4>2, <4>3
    <3>2. CASE n = Len(arduino) + 1
      <4>1. arduino'[n] = p /\ d = c
        BY <1>2, <1>4, <2>2, <3>2
      <4>2. CountIn(arduino', d, n) = SentOf(c) + 1
        BY <1>4, <1>8, <3>2, <4>1, CountsAreTheSameNext
      <4>3. c \in Trusted
        BY <1>1 DEF IInv, CommandsInOrder, Clients
      <4>4. SentOf(c) + 1 <= Len(typed[c])
        BY <1>2, <1>3
      <4> QED
        BY <1>2, <4>1, <4>2, <4>3, <4>4
    <3> QED
      BY <1>4, <3>1, <3>2
  <2>3. ASSUME NEW n \in 1 .. Len(arduino'), arduino'[n].from # NULL
        PROVE  LET d == arduino'[n].from
                   count == Cardinality({j \in 1 .. n : arduino'[j].from = arduino'[n].from})
               IN  /\ d \in Trusted
                   /\ count <= Len(typed'[d])
                   /\ arduino'[n].command = command[typed'[d][count].letter]
                   /\ Sent >= 2 => arduino'[n].arg = typed'[d][count].arg
    <3>1. PICK d : arduino'[n].from = d /\ d # NULL
      BY <2>3
    <3>2. typed' = typed
      BY <1>1
    <3> QED
      BY <2>2, <3>1, <3>2 DEF CountIn
  <2> QED
    BY <2>1, <2>3 DEF CommandsInOrder, CountOf
<1> QED
  BY <1>6, <1>7, <1>9, <1>10 DEF IInv, Pipelines

-----------------------------------------------------------------------------
LEMMA NextKeepsIInv == IInv /\ [Next]_vars => IInv'
<1>1. SUFFICES ASSUME IInv, [Next]_vars PROVE IInv'
  OBVIOUS
<1>2. CASE Main \/ Signal \/ Listener \/ HandshakeFails
  BY <1>1, <1>2, MainKeepsIInv, HelloKeepsIInv, ListenerKeepsIInv, AcceptKeepsIInv,
     HandshakeKeepsIInv DEF Main, Listener
<1>3. ASSUME NEW c \in Clients, Connect(c) \/ Type(c) \/ Close(c) \/ Worker(c)
      PROVE  IInv'
  BY <1>1, <1>3, ConnectKeepsIInv, TypeKeepsIInv, CloseKeepsIInv, IdlingKeepsIInv,
     ReadKeepsIInv, SendKeepsIInv DEF Worker
<1>4. CASE UNCHANGED vars
  <2>1. UNCHANGED <<main, locks, listener, current, queue, exitFlag, late, link, typed,
                    inbox, letter, buffer, arduino, worker>>
    BY <1>4 DEF vars, threads, network, workers
  <2>2. Shapes' /\ \A c \in Refused : worker'[c] = "none"
    BY <1>1, <2>1 DEF IInv, Shapes, CommandsInOrder
  <2> QED
    BY <1>1, <2>1, <2>2, ControlStays, DataStays DEF IInv
<1> QED
  BY <1>1, <1>2, <1>3, <1>4 DEF Next

LEMMA Invariance == Spec => []IInv
BY InitIInv, NextKeepsIInv, PTL DEF Spec

\* The server's threads and connections keep their types: in particular a client
\* has a worker exactly while its connection is made, open or closed.
THEOREM ServerTypes == Spec => []TypeOK
<1>1. IInv => TypeOK
  BY DEF IInv
<1>2. QED
  BY Invariance, <1>1, PTL

\* Each packet is the next command of the operator it was sent for, however many
\* workers share the serial line.
THEOREM EachOperatorObeyed == Spec => []CommandsInOrder
<1>1. IInv => CommandsInOrder
  BY DEF IInv
<1>2. QED
  BY Invariance, <1>1, PTL

\* No handshake and no worker runs before the locks stand, or after they are gone
\* unless the server was told to exit.
THEOREM LocksStand == Spec => []LocksWhileServing
<1>1. IInv => LocksWhileServing
  BY DEF IInv, TypeOK, Phases, LocksWhileServing
<1>2. QED
  BY Invariance, <1>1, PTL

\* At most one session is made after the exit flag is set.
THEOREM OneLateSession == Spec => []AtMostOneLate
<1>1. IInv => AtMostOneLate
  BY DEF IInv, LastSession, AtMostOneLate
<1>2. QED
  BY Invariance, <1>1, PTL
=============================================================================
