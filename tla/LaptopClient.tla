---------------------------- MODULE LaptopClient ----------------------------
(***************************************************************************)
(* The operator's program: the client thread of make_tls_client.cpp, the   *)
(* reader and writer threads of laptop_client.cpp, and main(), which ends  *)
(* them all when it returns.  The threads share the TLS session and two    *)
(* flags, and no lock.                                                     *)
(*                                                                         *)
(* A call on a session that another thread has freed may return anything;  *)
(* the model lets it return what any call may return, and remembers it.    *)
(* The client verifies the server's certificate in the handshake           *)
(* (SSL_VERIFY_PEER), so that a session with a certificate that fails      *)
(* verifyCertificate() does not come about.                                *)
(***************************************************************************)
EXTENDS Integers

CONSTANTS MaxTyped,   \* bound: commands the operator types
          MaxHeard    \* bound: records the server sends

ASSUME LaptopClientAssumption == MaxTyped \in Nat /\ MaxHeard \in Nat

VARIABLES main,           \* where main() is
          exitFlag,       \* _exitFlag
          networkActive,
          loop,           \* where _client_loop() is
          reader, len,    \* where readerThread() is, and what its read returned
          writer, c,      \* where writerThread() is, and what its write returned
          session,        \* the TLS session
          server,         \* whether the server still has its end open
          inbox,          \* records of the server that have not been read
          heard,          \* records the server has sent
          handled,        \* calls of handleNetwork() while the session stood
          taken,          \* records that the reader has read
          typed,          \* commands the operator has typed
          why             \* why the exit flag was set first

flags == <<exitFlag, why>>
peer == <<server, inbox, heard>>
counts == <<handled, taken, typed>>
vars == <<main, flags, networkActive, loop, reader, len, writer, c, session, peer, counts>>

-----------------------------------------------------------------------------
Init ==
    /\ main = "spin" /\ exitFlag = FALSE /\ why = "none"
    /\ networkActive = TRUE
    /\ loop = "connect" /\ reader = "none" /\ writer = "none"
    /\ len = 0 /\ c = 0
    /\ session = "none"
    /\ server = "open" /\ inbox = 0 /\ heard = 0
    /\ handled = 0 /\ taken = 0 /\ typed = 0

Alive == main = "spin"

\* main(): while(client_is_running()), and then the return that ends the process.
MainReturns ==
    /\ main = "spin" /\ exitFlag
    /\ main' = "returned"
    /\ UNCHANGED <<flags, networkActive, loop, reader, len, writer, c, session, peer, counts>>

\* Mutant: the flag gets the other value.
stopClientNever(reason) ==
    /\ exitFlag' = FALSE
    /\ why' = IF exitFlag THEN why ELSE reason

\* The exit flag is set; why remembers who set it first.
stopClient(reason) ==
    /\ exitFlag' = TRUE
    /\ why' = IF exitFlag THEN why ELSE reason

\* breakHandler() and termHandler().
Signal ==
    /\ Alive /\ ~exitFlag
    /\ stopClient("signal")
    /\ UNCHANGED <<main, networkActive, loop, reader, len, writer, c, session, peer, counts>>

-----------------------------------------------------------------------------
\* _client_loop(): the connection and the handshake fail, which is exit(-1), or
\* make a session.
Connect ==
    /\ Alive /\ loop = "connect"
    /\ \/ /\ main' = "exited" /\ UNCHANGED <<loop, session>>
       \/ /\ session' = "live" /\ loop' = "writer" /\ UNCHANGED main
    /\ UNCHANGED <<flags, networkActive, reader, len, writer, c, peer, counts>>

SpawnWriter ==
    /\ Alive /\ loop = "writer"
    /\ writer' = "key" /\ loop' = "reader"
    /\ UNCHANGED <<main, flags, networkActive, reader, len, c, session, peer, counts>>

SpawnReader ==
    /\ Alive /\ loop = "reader"
    /\ reader' = "test" /\ loop' = "spin"
    /\ UNCHANGED <<main, flags, networkActive, len, writer, c, session, peer, counts>>

\* Mutant: the loop does not wait.
CloseAtOnce ==
    /\ Alive /\ loop = "spin"
    /\ session' = "freed" /\ loop' = "ended"
    /\ UNCHANGED <<main, flags, networkActive, reader, len, writer, c, peer, counts>>

\* while(!_exitFlag), and _closeAndExit(0), which frees the session.
CloseAndExit ==
    /\ Alive /\ loop = "spin" /\ exitFlag
    /\ session' = "freed" /\ loop' = "ended"
    /\ UNCHANGED <<main, flags, networkActive, reader, len, writer, c, peer, counts>>

-----------------------------------------------------------------------------
\* readerThread(): while(networkActive).
ReaderTest ==
    /\ Alive /\ reader = "test"
    /\ reader' = IF networkActive THEN "read" ELSE "stop"
    /\ UNCHANGED <<main, flags, networkActive, loop, len, writer, c, session, peer, counts>>

\* sslRead() returns a record, 0 or -1.
ReaderRead ==
    /\ Alive /\ reader = "read"
    /\ \/ /\ inbox > 0 /\ session = "live"
          /\ len' = 1 /\ inbox' = inbox - 1 /\ taken' = taken + 1
       \/ /\ inbox = 0 /\ server = "closed"
          /\ len' = 0 /\ UNCHANGED <<inbox, taken>>
       \/ /\ session = "freed"
          /\ len' \in {-1, 0, 1} /\ UNCHANGED <<inbox, taken>>
    /\ reader' = "set"
    /\ UNCHANGED <<main, flags, networkActive, loop, writer, c, session, server, heard,
                   handled, typed>>

\* networkActive = (len > 0),
ReaderSet ==
    /\ Alive /\ reader = "set"
    /\ networkActive' = (len > 0)
    /\ reader' = "handle"
    /\ UNCHANGED <<main, flags, loop, len, writer, c, session, peer, counts>>

\* and the test of it, which may see what the writer stored meanwhile.
ReaderHandle ==
    /\ Alive /\ reader = "handle"
    /\ handled' = IF networkActive /\ session = "live" THEN handled + 1 ELSE handled
    /\ reader' = "test"
    /\ UNCHANGED <<main, flags, networkActive, loop, len, writer, c, session, peer,
                   taken, typed>>

\* stopClient(), which client_is_running() tells main(),
ReaderStop ==
    /\ Alive /\ reader = "stop"
    /\ stopClient("network")
    /\ reader' = "exit"
    /\ UNCHANGED <<main, networkActive, loop, len, writer, c, session, peer, counts>>

\* and EXIT_THREAD(conn), which frees the session.
ReaderExit ==
    /\ Alive /\ reader = "exit"
    /\ session' = "freed" /\ reader' = "ended"
    /\ UNCHANGED <<main, flags, networkActive, loop, len, writer, c, peer, counts>>

-----------------------------------------------------------------------------
\* writerThread(): a command is typed,
TypeCommand ==
    /\ Alive /\ writer = "key" /\ typed < MaxTyped
    /\ typed' = typed + 1 /\ writer' = "send"
    /\ UNCHANGED <<main, flags, networkActive, loop, reader, len, c, session, peer,
                   handled, taken>>

\* or the letter q.
TypeQuit ==
    /\ Alive /\ writer = "key"
    /\ writer' = "stop"
    /\ UNCHANGED <<main, flags, networkActive, loop, reader, len, c, session, peer, counts>>

\* sendData(): a write succeeds as long as the session stands, also for some
\* time after the server has closed it.
SendData ==
    /\ Alive /\ writer = "send"
    /\ \/ /\ networkActive
          /\ c' \in IF session = "live" /\ server = "open" THEN {1} ELSE {-1, 0, 1}
          /\ writer' = "set"
       \/ /\ ~networkActive
          /\ writer' = "key" /\ UNCHANGED c
    /\ UNCHANGED <<main, flags, networkActive, loop, reader, len, session, peer, counts>>

\* Mutant: a write of fewer bytes than announced counts as an error.
WriterSetWhole ==
    /\ Alive /\ writer = "set"
    /\ networkActive' = FALSE /\ writer' = "key"
    /\ UNCHANGED <<main, flags, loop, reader, len, c, session, peer, counts>>

\* networkActive = (c > 0)
WriterSet ==
    /\ Alive /\ writer = "set"
    /\ networkActive' = (c > 0) /\ writer' = "key"
    /\ UNCHANGED <<main, flags, loop, reader, len, c, session, peer, counts>>

\* Mutant: the thread ends without telling the others.
WriterStopSilently ==
    /\ Alive /\ writer = "stop"
    /\ writer' = "exit"
    /\ UNCHANGED <<main, flags, networkActive, loop, reader, len, c, session, peer, counts>>

WriterStop ==
    /\ Alive /\ writer = "stop"
    /\ stopClient("quit")
    /\ writer' = "exit"
    /\ UNCHANGED <<main, networkActive, loop, reader, len, c, session, peer, counts>>

WriterExit ==
    /\ Alive /\ writer = "exit"
    /\ session' = "freed" /\ writer' = "ended"
    /\ UNCHANGED <<main, flags, networkActive, loop, reader, len, c, peer, counts>>

-----------------------------------------------------------------------------
\* The server answers, or closes the connection.
ServerSends ==
    /\ Alive /\ server = "open" /\ session = "live" /\ heard < MaxHeard
    /\ heard' = heard + 1 /\ inbox' = inbox + 1
    /\ UNCHANGED <<main, flags, networkActive, loop, reader, len, writer, c, session,
                   server, counts>>

ServerCloses ==
    /\ Alive /\ server = "open" /\ session = "live"
    /\ server' = "closed"
    /\ UNCHANGED <<main, flags, networkActive, loop, reader, len, writer, c, session,
                   inbox, heard, counts>>

ClientLoop == Connect \/ SpawnWriter \/ SpawnReader \/ CloseAndExit
Reader == ReaderTest \/ ReaderRead \/ ReaderSet \/ ReaderHandle \/ ReaderStop \/ ReaderExit
WriterRuns == SendData \/ WriterSet \/ WriterStop \/ WriterExit
Operator == TypeCommand \/ TypeQuit

Next == MainReturns \/ Signal \/ ClientLoop \/ Reader \/ WriterRuns \/ Operator
            \/ ServerSends \/ ServerCloses

Spec == Init /\ [][Next]_vars

\* Every thread is scheduled; the operator and the server need do nothing.
FairSpec ==
    Spec /\ WF_vars(MainReturns) /\ WF_vars(ClientLoop) /\ WF_vars(Reader)
         /\ WF_vars(WriterRuns)

-----------------------------------------------------------------------------
TypeOK ==
    /\ main \in {"spin", "returned", "exited"}
    /\ exitFlag \in BOOLEAN /\ networkActive \in BOOLEAN
    /\ (why = "none" <=> ~exitFlag)
    /\ loop \in {"connect", "writer", "reader", "spin", "ended"}
    /\ reader \in {"none", "test", "read", "set", "handle", "stop", "exit", "ended"}
    /\ writer \in {"none", "key", "send", "set", "stop", "exit", "ended"}
    /\ len \in -1 .. 1 /\ c \in -1 .. 1
    /\ session \in {"none", "live", "freed"} /\ server \in {"open", "closed"}
    /\ inbox \in 0 .. MaxHeard /\ heard \in 0 .. MaxHeard

\* The session is freed only once the program is to end: as long as the exit
\* flag is not set, reader and writer work on a live session.
LiveWhileRunning ==
    ~exitFlag /\ (reader # "none" \/ writer # "none") => session = "live"

\* The program does not end by itself: the exit flag is set only by a signal,
\* by the letter q, or by the reader after the server has closed.
EndsForAReason ==
    /\ why = "network" => server = "closed"
    /\ why = "quit" => writer \in {"exit", "ended"}

\* As long as both ends stand, each record read is handled once: what the
\* writer does to networkActive between a read and its test costs none.
InHand == IF reader = "handle" \/ (reader = "set" /\ len = 1) THEN 1 ELSE 0
RecordsAreHandled == server = "open" /\ session = "live" => handled + InHand = taken

\* If the server closes the connection the program ends, although the writer may be
\* waiting for a key, and although it may set networkActive again; and so it does
\* when the operator quits, although the reader waits for an answer.
EndsWhenItShould == (server = "closed" \/ writer = "stop") ~> ~Alive
=============================================================================
