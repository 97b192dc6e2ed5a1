----------------------------- MODULE LaptopProofs -----------------------------
(***************************************************************************)
(* What holds at the operator's laptop, for every value of the constants.  *)
(* Its program: for every number of commands and records the threads work  *)
(* on a live session until the program is to end, it ends for a reason,    *)
(* and no record is missed, although nothing locks the flags and the       *)
(* session that they share.  The commands typed there: what becomes of a   *)
(* drive's numbers on their way to the motors, for every width, float and  *)
(* power.                                                                  *)
(***************************************************************************)
EXTENDS LaptopClient, CommandPath, TLAPS

(* The threads of the program.                                             *)

\* Which threads there are follows from where the client thread is.
ThreadsFollowLoop ==
    /\ (session = "none" <=> loop = "connect")
    /\ loop \in {"connect", "writer"} => writer = "none"
    /\ loop \in {"connect", "writer", "reader"} => reader = "none"

\* A thread is past stopClient() only when the flag is set, and so is whoever
\* has freed the session.
FreedAfterStop ==
    session = "freed" \/ reader \in {"exit", "ended"} \/ writer \in {"exit", "ended"}
        => exitFlag

Gone == server = "closed" \/ session = "freed"

\* Each of the reader and the writer finds an error only when the other end is
\* closed or the session freed; so one never undoes what the other found.
ErrorsAreReal ==
    /\ ~networkActive => Gone
    /\ reader = "set" /\ len # 1 => Gone
    /\ writer = "set" /\ c # 1 => Gone
    /\ reader = "stop" => Gone

\* The inductive invariant.
IInv ==
    /\ TypeOK
    /\ inbox <= heard
    /\ why \in {"none", "signal", "network", "quit"}
    /\ handled \in Nat /\ taken \in Nat /\ (session = "none" => handled = taken)
    /\ ThreadsFollowLoop
    /\ FreedAfterStop
    /\ ErrorsAreReal
    /\ EndsForAReason
    /\ RecordsAreHandled

LEMMA InitIInv == Init => IInv
<1>1. SUFFICES ASSUME Init PROVE IInv
  OBVIOUS
<1>2. TypeOK
  <2>1. exitFlag = FALSE /\ networkActive = TRUE /\ why = "none"
    BY <1>1 DEF Init
  <2>2. exitFlag \in BOOLEAN /\ networkActive \in BOOLEAN /\ (why = "none" <=> ~exitFlag)
    BY <2>1
  <2>3. QED
    BY <1>1, <2>2, LaptopClientAssumption DEF Init, TypeOK
<1>3. ThreadsFollowLoop /\ FreedAfterStop
  BY <1>1 DEF Init, ThreadsFollowLoop, FreedAfterStop
<1>4. ErrorsAreReal /\ EndsForAReason
  BY <1>1 DEF Init, ErrorsAreReal, EndsForAReason
<1>5. RecordsAreHandled
  BY <1>1 DEF Init, RecordsAreHandled, InHand
<1>6. inbox <= heard /\ why = "none" /\ handled = 0 /\ taken = 0
  BY <1>1 DEF Init
<1>7. QED
  BY <1>2, <1>3, <1>4, <1>5, <1>6 DEF IInv

\* The steps of main(), of the signal handlers and of the client thread.
LEMMA LoopKeepsIInv ==
    ASSUME IInv, MainReturns \/ Signal \/ ClientLoop
    PROVE  IInv'
<1>1. CASE MainReturns
  BY <1>1, LaptopClientAssumption
     DEF MainReturns, Alive, flags, peer, counts, IInv, TypeOK, ThreadsFollowLoop, FreedAfterStop,
         ErrorsAreReal, Gone, EndsForAReason, RecordsAreHandled, InHand
<1>2. CASE Signal
  BY <1>2, LaptopClientAssumption
     DEF Signal, stopClient, Alive, flags, peer, counts, IInv, TypeOK, ThreadsFollowLoop, FreedAfterStop,
         ErrorsAreReal, Gone, EndsForAReason, RecordsAreHandled, InHand
<1>3. CASE Connect
  <2>1. /\ loop = "connect" /\ session = "none"
        /\ reader = "none" /\ writer = "none"
        /\ UNCHANGED <<flags, networkActive, reader, len, writer, c, peer, counts>>
        /\ \/ main' = "exited" /\ UNCHANGED <<loop, session>>
           \/ session' = "live" /\ loop' = "writer" /\ UNCHANGED main
    BY <1>3 DEF Connect, IInv, ThreadsFollowLoop
  <2>2. QED
    BY <2>1
       DEF flags, peer, counts, IInv, TypeOK, ThreadsFollowLoop, FreedAfterStop,
           ErrorsAreReal, Gone, EndsForAReason, RecordsAreHandled, InHand
<1>4. CASE SpawnWriter
  BY <1>4, LaptopClientAssumption
     DEF SpawnWriter, Alive, flags, peer, counts, IInv, TypeOK, ThreadsFollowLoop, FreedAfterStop,
         ErrorsAreReal, Gone, EndsForAReason, RecordsAreHandled, InHand
<1>5. CASE SpawnReader
  BY <1>5, LaptopClientAssumption
     DEF SpawnReader, Alive, flags, peer, counts, IInv, TypeOK, ThreadsFollowLoop, FreedAfterStop,
         ErrorsAreReal, Gone, EndsForAReason, RecordsAreHandled, InHand
<1>6. CASE CloseAndExit
  BY <1>6, LaptopClientAssumption
     DEF CloseAndExit, Alive, flags, peer, counts, IInv, TypeOK, ThreadsFollowLoop, FreedAfterStop,
         ErrorsAreReal, Gone, EndsForAReason, RecordsAreHandled, InHand
<1>7. QED
  BY <1>1, <1>2, <1>3, <1>4, <1>5, <1>6 DEF ClientLoop

\* Those of the reader.
LEMMA ReaderKeepsIInv ==
    ASSUME IInv, Reader
    PROVE  IInv'
<1>1. CASE ReaderTest
  BY <1>1, LaptopClientAssumption
     DEF ReaderTest, Alive, flags, peer, counts, IInv, TypeOK, ThreadsFollowLoop, FreedAfterStop,
         ErrorsAreReal, Gone, EndsForAReason, RecordsAreHandled, InHand
<1>2. CASE ReaderRead
  BY <1>2, LaptopClientAssumption
     DEF ReaderRead, Alive, flags, peer, counts, IInv, TypeOK, ThreadsFollowLoop, FreedAfterStop,
         ErrorsAreReal, Gone, EndsForAReason, RecordsAreHandled, InHand
<1>3. CASE ReaderSet
  BY <1>3, LaptopClientAssumption
     DEF ReaderSet, Alive, flags, peer, counts, IInv, TypeOK, ThreadsFollowLoop, FreedAfterStop,
         ErrorsAreReal, Gone, EndsForAReason, RecordsAreHandled, InHand
<1>4. CASE ReaderHandle
  BY <1>4, LaptopClientAssumption
     DEF ReaderHandle, Alive, flags, peer, counts, IInv, TypeOK, ThreadsFollowLoop, FreedAfterStop,
         ErrorsAreReal, Gone, EndsForAReason, RecordsAreHandled, InHand
<1>5. CASE ReaderStop
  BY <1>5, LaptopClientAssumption
     DEF ReaderStop, stopClient, Alive, flags, peer, counts, IInv, TypeOK, ThreadsFollowLoop, FreedAfterStop,
         ErrorsAreReal, Gone, EndsForAReason, RecordsAreHandled, InHand
<1>6. CASE ReaderExit
  BY <1>6, LaptopClientAssumption
     DEF ReaderExit, Alive, flags, peer, counts, IInv, TypeOK, ThreadsFollowLoop, FreedAfterStop,
         ErrorsAreReal, Gone, EndsForAReason, RecordsAreHandled, InHand
<1>7. QED
  BY <1>1, <1>2, <1>3, <1>4, <1>5, <1>6 DEF Reader

\* Those of the writer and of the operator in front of it.
LEMMA WriterKeepsIInv ==
    ASSUME IInv, Operator \/ WriterRuns
    PROVE  IInv'
<1>1. CASE TypeCommand
  BY <1>1, LaptopClientAssumption
     DEF TypeCommand, Alive, flags, peer, counts, IInv, TypeOK, ThreadsFollowLoop, FreedAfterStop,
         ErrorsAreReal, Gone, EndsForAReason, RecordsAreHandled, InHand
<1>2. CASE TypeQuit
  BY <1>2, LaptopClientAssumption
     DEF TypeQuit, Alive, flags, peer, counts, IInv, TypeOK, ThreadsFollowLoop, FreedAfterStop,
         ErrorsAreReal, Gone, EndsForAReason, RecordsAreHandled, InHand
<1>3. CASE SendData
  BY <1>3, LaptopClientAssumption
     DEF SendData, Alive, flags, peer, counts, IInv, TypeOK, ThreadsFollowLoop, FreedAfterStop,
         ErrorsAreReal, Gone, EndsForAReason, RecordsAreHandled, InHand
<1>4. CASE WriterSet
  BY <1>4, LaptopClientAssumption
     DEF WriterSet, Alive, flags, peer, counts, IInv, TypeOK, ThreadsFollowLoop, FreedAfterStop,
         ErrorsAreReal, Gone, EndsForAReason, RecordsAreHandled, InHand
<1>5. CASE WriterStop
  BY <1>5, LaptopClientAssumption
     DEF WriterStop, stopClient, Alive, flags, peer, counts, IInv, TypeOK, ThreadsFollowLoop, FreedAfterStop,
         ErrorsAreReal, Gone, EndsForAReason, RecordsAreHandled, InHand
<1>6. CASE WriterExit
  BY <1>6, LaptopClientAssumption
     DEF WriterExit, Alive, flags, peer, counts, IInv, TypeOK, ThreadsFollowLoop, FreedAfterStop,
         ErrorsAreReal, Gone, EndsForAReason, RecordsAreHandled, InHand
<1>7. QED
  BY <1>1, <1>2, <1>3, <1>4, <1>5, <1>6 DEF Operator, WriterRuns

\* Those of the server.
LEMMA ServerKeepsIInv ==
    ASSUME IInv, ServerSends \/ ServerCloses
    PROVE  IInv'
<1>1. CASE ServerSends
  BY <1>1, LaptopClientAssumption
     DEF ServerSends, Alive, flags, peer, counts, IInv, TypeOK, ThreadsFollowLoop, FreedAfterStop,
         ErrorsAreReal, Gone, EndsForAReason, RecordsAreHandled, InHand
<1>2. CASE ServerCloses
  BY <1>2, LaptopClientAssumption
     DEF ServerCloses, Alive, flags, peer, counts, IInv, TypeOK, ThreadsFollowLoop, FreedAfterStop,
         ErrorsAreReal, Gone, EndsForAReason, RecordsAreHandled, InHand
<1>3. QED
  BY <1>1, <1>2

LEMMA NextKeepsIInv == IInv /\ [Next]_vars => IInv'
<1>1. SUFFICES ASSUME IInv, [Next]_vars PROVE IInv'
  OBVIOUS
<1>2. CASE Next
  BY <1>1, <1>2, LoopKeepsIInv, ReaderKeepsIInv, WriterKeepsIInv, ServerKeepsIInv DEF Next
<1>3. CASE UNCHANGED vars
  BY <1>1, <1>3
     DEF vars, flags, peer, counts, IInv, TypeOK, ThreadsFollowLoop, FreedAfterStop,
         ErrorsAreReal, Gone, EndsForAReason, RecordsAreHandled, InHand
<1>4. QED
  BY <1>1, <1>2, <1>3

LEMMA Invariance == Spec => []IInv
BY InitIInv, NextKeepsIInv, PTL DEF Spec

-----------------------------------------------------------------------------
\* The flags and program counters of the client keep their types.
THEOREM ClientTypes == Spec => []TypeOK
<1>1. IInv => TypeOK
  BY DEF IInv
<1>2. QED
  BY Invariance, <1>1, PTL

\* Reader and writer never work on a session that another thread has freed
\* while the program is to go on.
THEOREM SessionOutlivesUse == Spec => []LiveWhileRunning
<1>1. IInv => LiveWhileRunning
  BY DEF IInv, ThreadsFollowLoop, FreedAfterStop, TypeOK, LiveWhileRunning
<1>2. QED
  BY Invariance, <1>1, PTL

\* The exit flag is set only for one of its reasons, however the two threads
\* overwrite each other's result in networkActive.
THEOREM NoExitUnasked == Spec => []EndsForAReason
<1>1. IInv => EndsForAReason
  BY DEF IInv
<1>2. QED
  BY Invariance, <1>1, PTL

\* No record that was read is skipped because of what the writer stored.
THEOREM NoRecordMissed == Spec => []RecordsAreHandled
<1>1. IInv => RecordsAreHandled
  BY DEF IInv
<1>2. QED
  BY Invariance, <1>1, PTL

-----------------------------------------------------------------------------
(* The numbers of a command.                                               *)

\* What has been sent is what was typed, as far as it was sent.
Carried ==
    /\ CPTypeOK
    /\ pc \in {"sendCommand", "handleCommand"} =>
          record = [dist |-> unsigned(params["dist"]),
                    power |-> unsigned(params["power"]) % Half]
    /\ pc = "handleCommand" =>
          packet = [dist |-> record.dist, power |-> record.power + Half * junk]

-----------------------------------------------------------------------------
\* A remainder is below its divisor, and that of a smaller number is the number.
LEMMA Remainder ==
    ASSUME NEW n \in Int, NEW m \in Nat \ {0}
    PROVE  n % m \in 0 .. m - 1 /\ (n \in 0 .. m - 1 => n % m = n)
OBVIOUS

\* A negative number, or one with a carry, is off by one modulus.
LEMMA OneOff ==
    ASSUME NEW n \in Int, NEW m \in Nat \ {0}
    PROVE  /\ n \in -m .. -1 => n % m = n + m
           /\ n \in m .. 2 * m - 1 => n % m = n - m
<1>1. ASSUME n \in -m .. -1 PROVE n % m = n + m
  BY <1>1
<1>2. ASSUME n \in m .. 2 * m - 1 PROVE n % m = n - m
  BY <1>2
<1> QED
  BY <1>1, <1>2

\* A quotient, by what it means.
LEMMA Quotient ==
    ASSUME NEW n \in Nat, NEW m \in Nat \ {0}
    PROVE  n \div m \in Nat /\ m * (n \div m) <= n /\ n < m * (n \div m) + m
OBVIOUS

\* Two halves are a word.
LEMMA Halves ==
    ASSUME NEW h \in Nat \ {0}, NEW low \in 0 .. h - 1, NEW high \in 0 .. h - 1
    PROVE  low + h * high \in 0 .. h * h - 1 /\ (high # 0 => low + h * high >= h)
<1>1. h * high <= h * (h - 1) /\ h * high >= 0
  OBVIOUS
<1>2. h * (h - 1) = h * h - h
  OBVIOUS
<1>3. high # 0 => h * high >= h
  OBVIOUS
<1> QED
  BY <1>1, <1>2, <1>3

-----------------------------------------------------------------------------
\* The widths of a word, and what unsigned() gives.
LEMMA WordIsWide == Half \in Nat \ {0} /\ Word \in Nat \ {0} /\ Half <= Word
<1>1. Half \in Nat \ {0}
  BY CommandPathAssumption
<1> QED
  BY <1>1 DEF Word

\* What is assumed of the constants, one by one.
LEMMA Sizes ==
    /\ Full \in Nat \ {0} /\ Pwm \in Nat \ {0} /\ Exact \in Nat /\ Indefinite \in Words
    /\ Full < Half /\ Half <= Exact /\ Exact < Word /\ 2 * Full <= Pwm
    /\ Half \in Nat \ {0} /\ Word \in Nat \ {0} /\ Half <= Word
<1>1. /\ {Half, Full, Pwm, Indefinite, Exact} \subseteq Nat \ {0}
      /\ Full < Half /\ Half <= Exact /\ Exact < Word /\ Indefinite < Word
      /\ 2 * Full <= Pwm
  BY CommandPathAssumption
<1> QED
  BY <1>1, WordIsWide DEF Words

LEMMA FloatIs ==
    /\ \A n \in Words : float[n] \in 0 .. Word
    /\ \A n \in 0 .. Exact : float[n] = n
    /\ \A m, n \in Words : m <= n => float[m] <= float[n]
    /\ \A n \in Words : 2 * n >= Word => 2 * float[n] >= Word
BY CommandPathAssumption DEF Words

LEMMA BaseIsWord == Bases \subseteq Words
BY CommandPathAssumption, WordIsWide DEF Words

LEMMA UnsignedIsWord == ASSUME NEW n \in Int PROVE unsigned(n) \in Words
BY WordIsWide, Remainder DEF unsigned, Words

\* What deltaDists() gives is a word.
LEMMA DeltaIsWord ==
    ASSUME NEW n \in Words, NEW d \in deltaDists(float[n]) PROVE d \in Words
<1>1. float[n] \in 0 .. Word
  BY FloatIs
<1>2. CASE d = Indefinite
  BY <1>2, Sizes
<1>3. CASE float[n] > 0 /\ d \in unsignedLongs(float[n])
  <2>1. unsignedLongs(float[n]) \subseteq 0 .. Word - 1
    BY <1>1, <1>3, WordIsWide DEF unsignedLongs
  <2> QED
    BY <1>3, <2>1 DEF Words
<1> QED
  BY <1>2, <1>3 DEF deltaDists

\* The PWM value is at most Pwm, that of full power.
LEMMA PwmIsBounded == ASSUME NEW f \in Nat PROVE pwmVal(f) \in 0 .. Pwm
<1> DEFINE s == IF f > Full THEN Full ELSE f
           q == (s * Pwm) \div Full
<1>1. Full \in Nat \ {0} /\ Pwm \in Nat \ {0} /\ s \in 0 .. Full
  BY Sizes
<1>2. s * Pwm \in Nat /\ s * Pwm <= Full * Pwm
  BY <1>1
<1>3. q \in Nat /\ Full * q <= s * Pwm
  BY <1>1, <1>2, Quotient
<1>4. Full * q <= Full * Pwm
  BY <1>1, <1>2, <1>3
<1>5. q <= Pwm
  <2> HIDE DEF s, q
  <2> QED BY <1>1, <1>3, <1>4
<1> QED
  BY <1>3, <1>5 DEF pwmVal

\* The slower wheel is not faster, and stands only if the other does or barely turns.
LEMMA SlowerIsBounded ==
    ASSUME NEW val \in Nat
    PROVE  slower(val) \in 0 .. val /\ (val >= 2 => slower(val) > 0)
BY DEF slower

LEMMA InitCarried == CPInit => Carried
<1>1. 0 \in Words /\ 0 \in 0 .. Half - 1 /\ 0 \in 0 .. Pwm
  BY WordIsWide, CommandPathAssumption DEF Words
<1> QED
  BY <1>1 DEF CPInit, Carried, CPTypeOK

LEMMA StepCarried == Carried /\ [CPNext]_CPvars => Carried'
<1> SUFFICES ASSUME Carried, [CPNext]_CPvars PROVE Carried'
  OBVIOUS
<1>1. CASE getParams
  BY <1>1 DEF getParams, Carried, CPTypeOK
<1>2. CASE sendData
  <2>1. params["dist"] \in Int /\ params["power"] \in Int
    BY CommandPathAssumption DEF Carried, CPTypeOK, Arguments
  <2>2. record' \in [dist : Words, power : 0 .. Half - 1]
    <3>1. unsigned(params["power"]) \in Int
      BY <2>1, UnsignedIsWord DEF Words
    <3> QED
      BY <1>2, <2>1, <3>1, UnsignedIsWord, WordIsWide, Remainder DEF sendData
  <2> QED
    BY <1>2, <2>2 DEF sendData, Carried, CPTypeOK
<1>3. CASE sendCommand
  <2>1. record.power + Half * junk \in Words
    <3>1. record.power \in 0 .. Half - 1 /\ junk \in 0 .. Half - 1
      BY DEF Carried, CPTypeOK
    <3> QED
      BY <3>1, WordIsWide, Halves DEF Words, Word
  <2>2. packet' \in [dist : Words, power : Words]
    BY <1>3, <2>1 DEF sendCommand, Carried, CPTypeOK
  <2> QED
    BY <1>3, <2>2 DEF sendCommand, Carried, CPTypeOK
<1>4. CASE handleCommand
  <2>1. packet.dist \in Words /\ packet.power \in Words
    BY DEF Carried, CPTypeOK
  <2>2. deltaDist' \in Words /\ base' \in Words /\ newDist' \in Words
    <3>1. PICK b \in Bases, d \in deltaDists(float[packet.dist]) :
             deltaDist' = d /\ base' = b /\ newDist' = unsigned(b + d)
      BY <1>4 DEF handleCommand
    <3>2. b \in Words /\ d \in Words
      BY <2>1, <3>1, DeltaIsWord, BaseIsWord
    <3> QED
      BY <3>1, <3>2, UnsignedIsWord DEF Words
  <2>3. wheels' \in (0 .. Pwm) \X (0 .. Pwm)
    <3>1. float[packet.power] \in Nat
      BY <2>1, FloatIs, WordIsWide DEF Words
    <3>2. pwmVal(float[packet.power]) \in 0 .. Pwm
      BY <3>1, PwmIsBounded
    <3>3. slower(pwmVal(float[packet.power])) \in 0 .. Pwm
      BY <3>2, SlowerIsBounded, Sizes
    <3> QED
      BY <1>4, <3>2, <3>3 DEF handleCommand
  <2> QED
    BY <1>4, <2>2, <2>3 DEF handleCommand, Carried, CPTypeOK
<1>5. CASE UNCHANGED CPvars
  BY <1>5 DEF CPvars, Carried, CPTypeOK
<1> QED
  BY <1>1, <1>2, <1>3, <1>4, <1>5 DEF CPNext

LEMMA AlwaysCarried == CPSpec => []Carried
BY InitCarried, StepCarried, PTL DEF CPSpec

\* Every number of a command keeps its width on the way to the motors.
THEOREM WidthsKept == CPSpec => []CPTypeOK
<1>1. Carried => CPTypeOK
  BY DEF Carried
<1> QED
  BY <1>1, AlwaysCarried, PTL

-----------------------------------------------------------------------------
\* The packet's power is the one that was typed, or it is more than 100.
LEMMA PacketPower ==
    ASSUME Carried, pc = "handleCommand", params["power"] \in 0 .. Full
    PROVE  packet.power = params["power"] \/ packet.power > Full
<1>1. Full \in Nat /\ Full < Half /\ Half \in Nat \ {0} /\ Word \in Nat \ {0} /\ Half <= Word
  BY Sizes
<1> DEFINE p == params["power"]
<1>0. p \in Int /\ p \in 0 .. Half - 1 /\ p \in 0 .. Word - 1
  BY <1>1
<1>2. unsigned(params["power"]) = params["power"]
  BY <1>0, <1>1, Remainder DEF unsigned
<1>3. params["power"] % Half = params["power"]
  BY <1>0, <1>1, Remainder
<1>4. packet.power = params["power"] + Half * junk /\ junk \in 0 .. Half - 1
  BY <1>2, <1>3 DEF Carried, CPTypeOK
<1>5. junk # 0 => packet.power >= Half
  BY <1>1, <1>4, WordIsWide, Halves
<1>6. junk = 0 => packet.power = params["power"]
  BY <1>1, <1>4, WordIsWide
<1> QED
  BY <1>1, <1>4, <1>5, <1>6, WordIsWide DEF Carried, CPTypeOK, Words

\* Above 100 percent, power is full; up to it, pwmVal() rounds down.
LEMMA PwmOfPercent ==
    ASSUME NEW f \in Nat
    PROVE  /\ f > Full => pwmVal(f) = Pwm
           /\ f <= Full => IsPercentage(pwmVal(f), f)
<1>1. Full \in Nat \ {0} /\ Pwm \in Nat \ {0}
  BY Sizes
<1>2. (Full * Pwm) \div Full = Pwm
  <2> DEFINE q == (Full * Pwm) \div Full
  <2>1. q \in Nat /\ Full * q <= Full * Pwm /\ Full * Pwm < Full * q + Full
    BY <1>1, Quotient
  <2> HIDE DEF q
  <2>2. q <= Pwm
    BY <1>1, <2>1
  <2>3. Full * Pwm < Full * (q + 1)
    BY <1>1, <2>1
  <2>4. Pwm < q + 1
    BY <1>1, <2>1, <2>3
  <2> QED
    BY <1>1, <2>1, <2>2, <2>4 DEF q
<1>3. f <= Full => IsPercentage((f * Pwm) \div Full, f)
  <2> DEFINE q == (f * Pwm) \div Full
  <2>1. q \in Nat /\ Full * q <= f * Pwm /\ f * Pwm < Full * q + Full
    BY <1>1, Quotient
  <2> HIDE DEF q
  <2>2. IsPercentage(q, f)
    BY <1>1, <2>1 DEF IsPercentage
  <2> QED
    BY <2>2 DEF q
<1> QED
  BY <1>1, <1>2, <1>3 DEF pwmVal

\* Whatever the worker's buffer held, the motors get the percentage that was typed or
\* full power.
THEOREM PowerSurvives == CPSpec => PowerIsTypedOrFull
<1>1. ASSUME Carried, [CPNext]_CPvars, pc = "handleCommand", params["power"] \in 0 .. Full,
             ~UNCHANGED CPvars
      PROVE  IsPercentage(wheels'[1], params["power"]) \/ wheels'[1] = Pwm
  <2>1. wheels'[1] = pwmVal(float[packet.power])
    BY <1>1 DEF CPNext, getParams, sendData, sendCommand, handleCommand
  <2>2. packet.power \in Words /\ Full \in Nat /\ Full < Half /\ Half <= Exact /\ Exact < Word
    BY <1>1, Sizes DEF Carried, CPTypeOK
  <2>3. float[packet.power] \in Nat
    BY <2>2, FloatIs, WordIsWide DEF Words
  <2>4. CASE packet.power = params["power"]
    <3>1. float[packet.power] = params["power"]
      BY <1>1, <2>2, <2>4, FloatIs, Sizes
    <3> QED
      BY <1>1, <2>1, <2>2, <2>3, <3>1, PwmOfPercent
  <2>5. CASE packet.power > Full
    <3>1. Full + 1 \in 0 .. Exact /\ Full + 1 \in Words /\ Full + 1 <= packet.power
      BY <2>2, <2>5, Sizes DEF Words
    <3>2. float[Full + 1] = Full + 1
      BY <3>1, FloatIs
    <3>3. float[Full + 1] <= float[packet.power]
      BY <2>2, <3>1, FloatIs
    <3> QED
      BY <2>1, <2>2, <2>3, <3>2, <3>3, PwmOfPercent
  <2> QED
    BY <1>1, <2>4, <2>5, PacketPower
<1> QED
  BY <1>1, AlwaysCarried, PTL DEF CPSpec, PowerIsTypedOrFull

\* Rounding leaves no power at which one wheel stands.
THEOREM WheelsTogether == CPSpec => BothWheelsOrNone
<1>1. ASSUME Carried, [CPNext]_CPvars, pc = "handleCommand", ~UNCHANGED CPvars
      PROVE  wheels'[1] = 0 <=> wheels'[2] = 0
  <2> DEFINE f == float[packet.power]
  <2>1. wheels' = <<pwmVal(f), slower(pwmVal(f))>>
    BY <1>1 DEF CPNext, getParams, sendData, sendCommand, handleCommand
  <2>2. packet.power \in Words
    BY <1>1 DEF Carried, CPTypeOK
  <2>3. f \in Nat
    BY <2>2, FloatIs, WordIsWide
  <2> HIDE DEF f
  <2>4. pwmVal(f) \in Nat
    BY <2>3, PwmIsBounded
  <2>5. pwmVal(f) = 0 \/ pwmVal(f) >= 2
    <3>1. CASE f > Full
      BY <2>3, <3>1, Sizes, PwmOfPercent
    <3>2. CASE f = 0
      <4>1. pwmVal(f) * Full <= 0
        BY <2>3, <3>2, Sizes, PwmOfPercent DEF IsPercentage
      <4> QED
        BY <2>4, <4>1, Sizes
    <3>3. CASE f > 0 /\ f <= Full
      <4>1. f * Pwm < (pwmVal(f) + 1) * Full
        BY <2>3, <3>3, PwmOfPercent DEF IsPercentage
      <4>2. f * Pwm >= 2 * Full
        BY <2>3, <3>3, Sizes
      <4>3. 2 * Full < (pwmVal(f) + 1) * Full
        BY <2>3, <2>4, <4>1, <4>2, Sizes
      <4>4. 2 < pwmVal(f) + 1
        BY <2>4, <4>3, Sizes
      <4> QED
        BY <2>4, <4>4
    <3> QED
      BY <2>3, <3>1, <3>2, <3>3, Sizes
  <2> QED
    BY <2>1, <2>4, <2>5, SlowerIsBounded
<1> QED
  BY <1>1, AlwaysCarried, PTL DEF CPSpec, BothWheelsOrNone

-----------------------------------------------------------------------------
\* A handled drive, by the packet that it came in.
LEMMA DriveEnds ==
    ASSUME Carried, [CPNext]_CPvars, pc = "handleCommand", ~UNCHANGED CPvars
    PROVE  /\ packet.dist = unsigned(params["dist"])
           /\ base' \in Words
           /\ deltaDist' \in deltaDists(float[packet.dist]) /\ deltaDist' \in Words
           /\ newDist' = unsigned(base' + deltaDist')
<1>1. packet.dist = unsigned(params["dist"]) /\ packet.dist \in Words
  BY DEF Carried, CPTypeOK
<1>2. PICK b \in Bases, d \in deltaDists(float[packet.dist]) :
         deltaDist' = d /\ base' = b /\ newDist' = unsigned(b + d)
  BY DEF CPNext, getParams, sendData, sendCommand, handleCommand
<1> QED
  BY <1>1, <1>2, BaseIsWord, DeltaIsWord

\* The distance that was typed is the one driven: neither the truncation of the
\* command nor the float changes it.
THEOREM EndSurvives == CPSpec => EndIsTyped
<1>1. ASSUME Carried, [CPNext]_CPvars, pc = "handleCommand", ~UNCHANGED CPvars,
             params["dist"] \in 0 .. Exact
      PROVE  /\ deltaDist' > 0
             /\ newDist' = unsigned(base' +
                   (IF params["dist"] = 0 THEN Indefinite ELSE params["dist"]))
  <2>1. packet.dist = unsigned(params["dist"])
    BY <1>1, DriveEnds
  <2>2. params["dist"] \in 0 .. Word - 1 /\ params["dist"] \in Int
    BY <1>1, Sizes
  <2>3. packet.dist = params["dist"]
    BY <2>1, <2>2, WordIsWide, Remainder DEF unsigned
  <2>4. float[packet.dist] = params["dist"]
    BY <1>1, <2>3, FloatIs
  <2>5. deltaDist' \in deltaDists(params["dist"]) /\ newDist' = unsigned(base' + deltaDist')
    BY <1>1, <2>4, DriveEnds
  <2>6. deltaDist' = IF params["dist"] = 0 THEN Indefinite ELSE params["dist"]
    BY <2>2, <2>5, WordIsWide DEF deltaDists, unsignedLongs
  <2>7. deltaDist' > 0
    BY <2>2, <2>6, CommandPathAssumption
  <2> QED
    BY <2>5, <2>6, <2>7
<1> QED
  BY <1>1, AlwaysCarried, PTL DEF CPSpec, EndIsTyped

\* A distance of at least half the range, added to a count.
LEMMA FarOrBehind ==
    ASSUME NEW w \in Nat \ {0}, NEW b \in 0 .. w - 1, NEW d \in 0 .. w - 1,
           2 * d >= w
    PROVE  (b + d) % w <= b \/ 2 * (((b + d) % w) - b) >= w
<1> DEFINE sum == b + d
           end == sum % w
<1>1. sum \in Int /\ sum \in 0 .. 2 * w - 1 /\ sum - w <= b /\ 2 * (sum - b) >= w
  OBVIOUS
<1> HIDE DEF sum
<1>2. CASE sum < w
  <2>1. end = sum
    BY <1>1, <1>2, Remainder
  <2> QED
    BY <1>1, <2>1 DEF sum
<1>3. CASE sum >= w
  <2>1. sum \in w .. 2 * w - 1
    BY <1>1, <1>3
  <2>2. end = sum - w
    BY <1>1, <2>1, OneOff
  <2> QED
    BY <1>1, <2>2 DEF sum
<1> QED
  BY <1>1, <1>2, <1>3

\* A negative distance is never a short drive ahead: the drive has no end at all, or
\* one behind Alex, or one half of the counter's range ahead.
THEOREM NegativeNeverEndsSoon == CPSpec => NegativeIsNoShortDrive
<1>1. ASSUME Carried, [CPNext]_CPvars, pc = "handleCommand", ~UNCHANGED CPvars,
             params["dist"] < 0
      PROVE  deltaDist' = 0 \/ newDist' <= base' \/ 2 * (newDist' - base') >= Word
  <2>1. params["dist"] \in Int /\ -Word <= 2 * params["dist"]
    BY <1>1, CommandPathAssumption DEF Carried, CPTypeOK, Arguments
  <2>2. unsigned(params["dist"]) = params["dist"] + Word
    BY <1>1, <2>1, WordIsWide, OneOff DEF unsigned
  <2>3. packet.dist = params["dist"] + Word /\ packet.dist \in Words
    BY <1>1, <2>2, DriveEnds DEF Carried, CPTypeOK
  <2>4. 2 * packet.dist >= Word
    BY <2>1, <2>3, WordIsWide
  <2>5. 2 * float[packet.dist] >= Word /\ float[packet.dist] \in 0 .. Word
    BY <2>3, <2>4, FloatIs
  <2>6. /\ deltaDist' \in deltaDists(float[packet.dist]) /\ deltaDist' \in Words
        /\ newDist' = unsigned(base' + deltaDist')
    BY <1>1, DriveEnds
  <2>7. float[packet.dist] > 0
    BY <2>5, WordIsWide
  <2>8. 2 * deltaDist' >= Word \/ deltaDist' = 0
    <3>1. deltaDist' \in unsignedLongs(float[packet.dist])
      BY <2>6, <2>7 DEF deltaDists
    <3>2. Half < Word /\ Word >= 2
      BY Sizes
    <3> QED
      BY <2>5, <3>1, <3>2, WordIsWide DEF unsignedLongs
  <2>9. base' \in Words
    BY <1>1, DriveEnds
  <2>10. Word \in Nat \ {0}
    BY WordIsWide
  <2>11. CASE 2 * deltaDist' >= Word
    BY <2>6, <2>9, <2>10, <2>11, FarOrBehind DEF unsigned, Words
  <2> QED
    BY <2>8, <2>11
<1> QED
  BY <1>1, AlwaysCarried, PTL DEF CPSpec, NegativeIsNoShortDrive

=============================================================================
