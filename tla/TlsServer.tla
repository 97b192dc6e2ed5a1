------------------------------ MODULE TlsServer ------------------------------
(***************************************************************************)
(* The Pi as a server of remote operators: make_tls_server.cpp with its    *)
(* listener thread, and the workers of alex-pi.cpp, one per connection,    *)
(* that turn what an operator typed into a packet for the Arduino.         *)
(*                                                                         *)
(* A command is a letter, a distance or angle and a power; an argument is  *)
(* two halves of a word, for the laptop sends only Sent of the four halves *)
(* and the worker takes the others from its buffer as it was before.       *)
(*                                                                         *)
(* A handshake ends with a session only for a certificate that the library *)
(* accepts (SSL_VERIFY_PEER), so that the listener's own look at the       *)
(* certificate (verifyCertificate()) never changes the outcome.  Nothing   *)
(* calls sendNetworkData(), the only function that clears networkActive:   *)
(* the workers' loop condition is always true.                             *)
(***************************************************************************)
EXTENDS Integers, Sequences, FiniteSetsExt

CONSTANTS Trusted,     \* clients whose certificate the common CA signed
          Refused,     \* clients whose handshake fails, if it ever gets so far
          Letters,     \* commands that the operators type
          Numbers,     \* distances, angles and powers that they type
          Half,        \* values of one half of an argument
          Sent,        \* halves of the arguments that sendData() sends
          Backlog,     \* connections that wait for accept()
          MaxTyped,    \* bound: commands that the operators type together
          NULL

Clients == Trusted \cup Refused

ASSUME TlsServerAssumption ==
    /\ Trusted \cap Refused = {}
    /\ Letters \subseteq {"f", "b", "l", "r", "s", "c", "g"}
    /\ Half \in Nat \ {0} /\ Numbers \subseteq 0 .. Half * Half - 1
    /\ Sent \in 0 .. 4 /\ Backlog \in Nat \ {0} /\ MaxTyped \in Nat
    /\ NULL \notin Clients

VARIABLES main,        \* where main() is
          locks,       \* the mutexes that OpenSSL locks through a callback
          exitFlag,    \* _exitFlag
          listener,    \* where _tls_listener() is
          current,     \* the client it shakes hands with
          queue,       \* connections that wait for accept()
          link,        \* the connection of each client
          typed,       \* what each operator typed so far
          inbox,       \* the records on their way to each worker
          worker,      \* where the worker of each client is
          buffer,      \* the halves of the arguments in each worker's buffer
          letter,      \* the command in each worker's buffer
          arduino,     \* the packets written to the serial line
          late         \* sessions made after the exit flag was set

threads == <<main, locks, listener, current, queue>>
network == <<link, typed, inbox>>
workers == <<worker, buffer, letter>>
vars == <<threads, network, workers, exitFlag, arduino, late>>

-----------------------------------------------------------------------------
Motions == {"f", "b", "l", "r"}
Indices == 1 .. 4

\* The command of the packet for a letter.
command == [l \in Motions \cup {"s", "c", "g"} |->
              CASE l = "f" -> "COMMAND_FORWARD"
                [] l = "b" -> "COMMAND_REVERSE"
                [] l = "l" -> "COMMAND_TURN_LEFT"
                [] l = "r" -> "COMMAND_TURN_RIGHT"
                [] l = "s" -> "COMMAND_STOP"
                [] l = "c" -> "COMMAND_CLEAR_STATS"
                [] l = "g" -> "COMMAND_GET_STATS"]

\* What an operator may type; the commands without arguments have zeros.
Entries == [letter : Letters \cap Motions, arg : Numbers, power : Numbers]
               \cup [letter : Letters \ Motions, arg : {0}, power : {0}]

\* The arguments as they lie in the laptop's buffer, and back.
halves(e) == <<e.arg % Half, e.arg \div Half, e.power % Half, e.power \div Half>>
word(b, i) == b[i] + Half * b[i + 1]

\* The packet that sendCommand() makes of what is in the worker's buffer.
packet(c, l, b) ==
    [from |-> c, command |-> command[l],
     arg |-> IF l = "c" THEN 0 ELSE word(b, 1), power |-> word(b, 3)]

HELLO == [from |-> NULL, command |-> "PACKET_TYPE_HELLO", arg |-> 0, power |-> 0]

-----------------------------------------------------------------------------
\* A worker's buffer is on its stack and is not initialised.
Init ==
    /\ main = "createServer" /\ exitFlag = FALSE
    /\ locks = "none" /\ listener = "none" /\ current = NULL /\ queue = << >>
    /\ link = [c \in Clients |-> "off"]
    /\ typed = [c \in Clients |-> << >>]
    /\ inbox = [c \in Clients |-> << >>]
    /\ worker = [c \in Clients |-> "none"]
    /\ \E junk \in 0 .. Half - 1 : buffer = [c \in Clients |-> [i \in Indices |-> junk]]
    /\ letter = [c \in Clients |-> NULL]
    /\ arduino = << >> /\ late = 0

Alive == main # "exited"

\* main(): createServer() spawns the listener; then the HELLO is sent.
createServer ==
    /\ main = "createServer"
    /\ main' = "sendHello" /\ listener' = "start"
    /\ UNCHANGED <<locks, current, queue, network, workers, exitFlag, arduino, late>>

sendHello ==
    /\ main = "sendHello"
    /\ main' = "spin" /\ arduino' = Append(arduino, HELLO)
    /\ UNCHANGED <<locks, listener, current, queue, network, workers, exitFlag, late>>

\* main() returns once server_is_running() is false, which ends every thread.
MainReturns ==
    /\ main = "spin" /\ exitFlag
    /\ main' = "exited"
    /\ UNCHANGED <<locks, listener, current, queue, network, workers, exitFlag,
                   arduino, late>>

\* breakHandler() and termHandler().
Signal ==
    /\ Alive /\ main # "createServer" /\ ~exitFlag
    /\ exitFlag' = TRUE
    /\ UNCHANGED <<threads, network, workers, arduino, late>>

-----------------------------------------------------------------------------
\* _tls_listener() opens its socket, and CRYPTO_thread_setup() makes the locks.
\* When the port is in use the listener exits, and the process with it.
StartListening ==
    /\ Alive /\ listener = "start"
    /\ \/ listener' = "test" /\ locks' = "set" /\ UNCHANGED main
       \/ listener' = "ended" /\ main' = "exited" /\ UNCHANGED locks
    /\ UNCHANGED <<current, queue, network, workers, exitFlag, arduino, late>>

\* A client connects, and waits in the queue of listen().
Connect(c) ==
    /\ Alive /\ listener \in {"test", "accept", "handshake"}
    /\ link[c] = "off" /\ Len(queue) < Backlog
    /\ link' = [link EXCEPT ![c] = "queued"] /\ queue' = Append(queue, c)
    /\ UNCHANGED <<main, locks, listener, current, typed, inbox, workers, exitFlag, arduino, late>>

\* Mutant: the loop goes on for ever.
TestNothing ==
    /\ Alive /\ listener = "test"
    /\ listener' = "accept"
    /\ UNCHANGED <<main, locks, current, queue, network, workers, exitFlag,
                   arduino, late>>

\* _tls_listener(): the condition of its loop, and its end.
TestExit ==
    /\ Alive /\ listener = "test"
    /\ listener' = IF exitFlag THEN "close" ELSE "accept"
    /\ UNCHANGED <<main, locks, current, queue, network, workers, exitFlag,
                   arduino, late>>

\* accept() returns the first connection of the queue.  The handlers that
\* signal() installs do not interrupt it.
Accept ==
    /\ Alive /\ listener = "accept" /\ queue # << >>
    /\ current' = Head(queue) /\ queue' = Tail(queue)
    /\ listener' = "handshake"
    /\ UNCHANGED <<main, locks, network, workers, exitFlag, arduino, late>>

\* Mutant: only one connection is served.
HandshakeOnce ==
    /\ Alive /\ listener = "handshake" /\ current \in Trusted
    /\ IF \A c \in Clients : worker[c] = "none"
       THEN /\ link' = [link EXCEPT ![current] = "open"]
            /\ worker' = [worker EXCEPT ![current] = "test"]
            /\ late' = IF exitFlag THEN late + 1 ELSE late
       ELSE /\ link' = [link EXCEPT ![current] = "refused"]
            /\ UNCHANGED <<worker, late>>
    /\ listener' = "test" /\ current' = NULL
    /\ UNCHANGED <<main, locks, queue, typed, inbox, buffer, letter, exitFlag,
                   arduino>>

\* connectSSL() returns a session, and a worker is spawned for it.
Handshake ==
    /\ Alive /\ listener = "handshake" /\ current \in Trusted
    /\ link' = [link EXCEPT ![current] = "open"]
    /\ worker' = [worker EXCEPT ![current] = "test"]
    /\ late' = IF exitFlag THEN late + 1 ELSE late
    /\ listener' = "test" /\ current' = NULL
    /\ UNCHANGED <<main, locks, queue, typed, inbox, buffer, letter, exitFlag,
                   arduino>>

\* Mutant: the worker is spawned without a look at the session.
HandshakeUnchecked ==
    /\ Alive /\ listener = "handshake" /\ current \in Refused
    /\ link' = [link EXCEPT ![current] = "refused"]
    /\ worker' = [worker EXCEPT ![current] = "test"]
    /\ late' = IF exitFlag THEN late + 1 ELSE late
    /\ listener' = "test" /\ current' = NULL
    /\ UNCHANGED <<main, locks, queue, typed, inbox, buffer, letter, exitFlag,
                   arduino>>

\* connectSSL() returns NULL.  The listener waits in it for as long as the client
\* says nothing.
HandshakeFails ==
    /\ Alive /\ listener = "handshake" /\ current \in Refused
    /\ link' = [link EXCEPT ![current] = "refused"]
    /\ listener' = "test" /\ current' = NULL
    /\ UNCHANGED <<main, locks, queue, typed, inbox, workers, exitFlag, arduino,
                   late>>

\* After the loop: the socket is closed, on which whoever waits is refused, and
\* the context is freed.  The workers keep theirs.
CloseListening ==
    /\ Alive /\ listener = "close"
    /\ listener' = "cleanup" /\ queue' = << >>
    /\ link' = [c \in Clients |-> IF link[c] = "queued" THEN "refused" ELSE link[c]]
    /\ UNCHANGED <<main, locks, current, typed, inbox, workers, exitFlag,
                   arduino, late>>

\* The callback is cleared and the mutexes are destroyed and freed, whoever
\* holds them.
thread_cleanup ==
    /\ Alive /\ listener = "cleanup"
    /\ listener' = "ended" /\ locks' = "gone"
    /\ UNCHANGED <<main, current, queue, network, workers, exitFlag, arduino,
                   late>>

-----------------------------------------------------------------------------
Typed == FoldSet(LAMBDA c, n : n + Len(typed[c]), 0, Clients)

\* An operator types a command, and the laptop sends it.
Type(c) ==
    /\ Alive /\ link[c] = "open" /\ Typed < MaxTyped
    /\ \E e \in Entries :
          /\ typed' = [typed EXCEPT ![c] = Append(@, e)]
          /\ inbox' = [inbox EXCEPT ![c] =
                 Append(@, [letter |-> e.letter, halves |-> SubSeq(halves(e), 1, Sent)])]
    /\ UNCHANGED <<threads, link, workers, exitFlag, arduino, late>>

Close(c) ==
    /\ Alive /\ link[c] = "open"
    /\ link' = [link EXCEPT ![c] = "closed"]
    /\ UNCHANGED <<threads, typed, inbox, workers, exitFlag, arduino, late>>

\* worker(): while(networkActive).
Test(c) ==
    /\ Alive /\ worker[c] = "test"
    /\ worker' = [worker EXCEPT ![c] = "read"]
    /\ UNCHANGED <<threads, network, buffer, letter, exitFlag, arduino, late>>

\* Mutant: the buffer is static, and so one for all workers.
ReadShared(c) ==
    /\ Alive /\ worker[c] = "read" /\ inbox[c] # << >>
    /\ LET record == Head(inbox[c]) IN
          /\ letter' = [d \in Clients |-> record.letter]
          /\ buffer' = [d \in Clients |->
                 [i \in Indices |-> IF i <= Sent THEN record.halves[i] ELSE buffer[d][i]]]
    /\ inbox' = [inbox EXCEPT ![c] = Tail(@)]
    /\ worker' = [worker EXCEPT ![c] = "handle"]
    /\ UNCHANGED <<threads, link, typed, exitFlag, arduino, late>>

\* sslRead() returns one record of the client.
Read(c) ==
    /\ Alive /\ worker[c] = "read" /\ inbox[c] # << >>
    /\ LET record == Head(inbox[c]) IN
          /\ letter' = [letter EXCEPT ![c] = record.letter]
          /\ buffer' = [buffer EXCEPT ![c] =
                 [i \in Indices |-> IF i <= Sent THEN record.halves[i] ELSE @[i]]]
    /\ inbox' = [inbox EXCEPT ![c] = Tail(@)]
    /\ worker' = [worker EXCEPT ![c] = "handle"]
    /\ UNCHANGED <<threads, link, typed, exitFlag, arduino, late>>

\* Mutant: the connection's end is noticed before what came with it.
ReadClosedFirst(c) ==
    /\ Alive /\ worker[c] = "read" /\ link[c] = "closed"
    /\ inbox' = [inbox EXCEPT ![c] = << >>]
    /\ worker' = [worker EXCEPT ![c] = "test"]
    /\ UNCHANGED <<threads, link, typed, buffer, letter, exitFlag, arduino, late>>

\* sslRead() returns 0: the client has closed the connection.
ReadClosed(c) ==
    /\ Alive /\ worker[c] = "read" /\ inbox[c] = << >> /\ link[c] = "closed"
    /\ worker' = [worker EXCEPT ![c] = "test"]
    /\ UNCHANGED <<threads, network, buffer, letter, exitFlag, arduino, late>>

\* handleNetworkData() and sendCommand(), which writes the packet with one write().
\* tls_conn, which is set before, is nowhere read.
sendCommand(c) ==
    /\ Alive /\ worker[c] = "handle"
    /\ arduino' = Append(arduino, packet(c, letter[c], buffer[c]))
    /\ worker' = [worker EXCEPT ![c] = "test"]
    /\ UNCHANGED <<threads, network, buffer, letter, exitFlag, late>>

Main == createServer \/ sendHello \/ MainReturns
Listener ==
    StartListening \/ TestExit \/ Accept \/ Handshake \/ CloseListening \/ thread_cleanup
Worker(c) == Test(c) \/ Read(c) \/ ReadClosed(c) \/ sendCommand(c)

Next ==
    \/ Main \/ Signal \/ Listener \/ HandshakeFails
    \/ \E c \in Clients : Connect(c) \/ Type(c) \/ Close(c) \/ Worker(c)

Spec == Init /\ [][Next]_vars

\* The threads are scheduled; nobody need type, connect, close, send signals or
\* finish a handshake that fails.
FairSpec ==
    /\ Spec /\ WF_vars(Main) /\ WF_vars(Listener)
    /\ \A c \in Trusted : WF_vars(Worker(c))

-----------------------------------------------------------------------------
TypeOK ==
    /\ main \in {"createServer", "sendHello", "spin", "exited"}
    /\ exitFlag \in BOOLEAN
    /\ locks \in {"none", "set", "gone"}
    /\ listener \in {"none", "start", "test", "accept", "handshake", "close", "cleanup",
                     "ended"}
    /\ current \in Clients \cup {NULL} /\ (current # NULL <=> listener = "handshake")
    /\ Len(queue) <= Backlog
    /\ \A c \in Clients :
          /\ link[c] \in {"off", "queued", "refused", "open", "closed"}
          /\ worker[c] \in {"none", "test", "read", "handle"}
          /\ worker[c] # "none" <=> link[c] \in {"open", "closed"}
          /\ buffer[c] \in [Indices -> 0 .. Half - 1]

\* How many of the first n packets were sent on behalf of a client.
CountOf(c, n) == Cardinality({j \in 1 .. n : arduino[j].from = c})
SentOf(c) == CountOf(c, Len(arduino))

\* However the workers interleave, what the Arduino is told on behalf of an
\* operator is what that operator typed, each command once and in order, with
\* its distance or angle: none of another's, and nothing from a client that was
\* refused (which never gets to type).
CommandsInOrder ==
    /\ \A n \in 1 .. Len(arduino) :
          arduino[n].from # NULL =>
              LET c == arduino[n].from IN
              /\ c \in Trusted
              /\ CountOf(c, n) <= Len(typed[c])
              /\ arduino[n].command = command[typed[c][CountOf(c, n)].letter]
              /\ Sent >= 2 => arduino[n].arg = typed[c][CountOf(c, n)].arg
    /\ \A c \in Refused : worker[c] = "none"

\* Whoever is inside OpenSSL finds its locks, as long as the server is not told
\* to exit: they stand before the first handshake and go after the last.
LocksWhileServing ==
    current # NULL \/ (\E c \in Clients : worker[c] # "none") => locks = "set" \/ exitFlag

\* After the exit flag is set, at most one more client gets a session: the
\* listener may be waiting in accept() and looks at the flag only afterwards.
AtMostOneLate == late <= 1

\* Each command typed reaches the serial line unless the server exits, also
\* after its client has closed the connection and while others type.
EveryCommandIsSent ==
    \A c \in Trusted :
        SentOf(c) < Len(typed[c]) ~> (SentOf(c) = Len(typed[c]) \/ exitFlag)

\* Each trusted client that connects is served, unless the server exits or a
\* client that says nothing keeps the listener in its handshake for ever.
ClientsAreServed ==
    \A c \in Trusted :
        \/ link[c] = "queued" ~> (worker[c] # "none" \/ exitFlag)
        \/ <>[](current \in Refused)

-----------------------------------------------------------------------------
(* What a comment says, and the code does not do.                           *)

\* "If 0 the connection has been closed": the worker of a closed connection ends.
ClosedWorkerEnds ==
    \A c \in Trusted : link[c] = "closed" ~> (worker[c] = "none" \/ ~Alive)
=============================================================================
