----------------------------- MODULE CommandPath -----------------------------
(***************************************************************************)
(* The numbers of a drive, on their way from the operator's keyboard to    *)
(* the motors: laptop_client.cpp reads two ints and sends 8 of the 10      *)
(* bytes of its command; alex-pi.cpp takes two unsigned words from a       *)
(* buffer that was not initialized; Alex.ino takes them as floats, and     *)
(* those as an unsigned long and a motor power.                            *)
(*                                                                         *)
(* A word is two halves.  Threads, packets and the drive itself are in     *)
(* TlsServer, SerialLink and AlexMotion; the names of the specification    *)
(* begin with CP, so that it can be extended beside LaptopClient.          *)
(***************************************************************************)
EXTENDS Integers

CONSTANTS Half,        \* values of 16 bits; the laptop sends one half of the power
          Full,        \* 100 percent
          Pwm,         \* 255, the analogWrite() value of full power
          Indefinite,  \* 9999999, the distance that stands for no end
          Exact,       \* 2^24: an int up to here is a float
          float,       \* an unsigned word as a float, rounded to an integer
          Typed,       \* the numbers that the operator types
          Bases        \* the distances counted when a command is carried out

Word == Half * Half

\* What is typed fits an int.  float is IEEE rounding, which may round up to Word.
ASSUME CommandPathAssumption ==
    /\ {Half, Full, Pwm, Indefinite, Exact} \subseteq Nat \ {0}
    /\ Full < Half /\ Half <= Exact /\ Exact < Word /\ Indefinite < Word
    /\ 2 * Full <= Pwm
    /\ Typed \subseteq { n \in Int : -Word <= 2 * n /\ 2 * n < Word }
    /\ Bases \subseteq { n \in Nat : n < Word }
    /\ float \in [0 .. Word - 1 -> 0 .. Word]
    /\ \A n \in 0 .. Exact : float[n] = n
    /\ \A m, n \in 0 .. Word - 1 : m <= n => float[m] <= float[n]
    /\ \A n \in 0 .. Word - 1 : 2 * n >= Word => 2 * float[n] >= Word

Words == 0 .. Word - 1

VARIABLES pc,
          params,    \* the laptop's two ints
          record,    \* what reaches the worker: a word, and half of one
          junk,      \* the other half, in the worker's buffer
          packet,    \* the params[] of the packet, two words
          deltaDist, \* the distance to go; loop() checks a drive only while it is not 0
          base,      \* forwardDist or reverseDist when the command is carried out
          newDist,   \* the drive's end
          wheels     \* the analogWrite() values of the left and right wheel

CPvars == <<pc, params, record, junk, packet, deltaDist, base, newDist, wheels>>

Arguments == {"dist", "power"}

-----------------------------------------------------------------------------
\* A negative int is a large unsigned word.
unsigned(n) == n % Word

\* Mutant: the percentage is taken of an integer.
pwmValOfHundreds(speed) == (IF speed > Full THEN 1 ELSE speed \div Full) * Pwm

\* Mutant: nothing is clamped.
pwmValUnclamped(speed) == (speed * Pwm) \div Full

\* pwmVal(): a float is clamped to 0 .. 100 and scaled.
pwmVal(speed) == ((IF speed > Full THEN Full ELSE speed) * Pwm) \div Full

\* The slower wheel gets 4/5: val / 1.25, or val * 0.8.
slower(val) == (4 * val) \div 5

\* A float as an unsigned long.  One that does not fit is undefined: it is taken to
\* saturate, or to wrap to 0.
unsignedLongs(f) == IF f < Word THEN {f} ELSE {0, Word - 1}

\* Mutant: a negative distance, too, is one without end.
deltaDistsBySign(f) == IF 0 < f /\ 2 * f < Word THEN unsignedLongs(f) ELSE {Indefinite}

\* deltaDist, for a dist of 0 and others.
deltaDists(f) == IF f > 0 THEN unsignedLongs(f) ELSE {Indefinite}

CPInit ==
    /\ pc = "getParams"
    /\ params \in [Arguments -> Typed] /\ junk \in 0 .. Half - 1
    /\ record = [dist |-> 0, power |-> 0] /\ packet = [dist |-> 0, power |-> 0]
    /\ deltaDist = 0 /\ base = 0 /\ newDist = 0 /\ wheels = <<0, 0>>

\* getParams(): scanf("%d %d") stops at the first word that is not a number, and what
\* it has not read is what the stack holds.
getParams ==
    /\ pc = "getParams" /\ pc' = "sendData"
    /\ params' \in [Arguments -> Typed]
    /\ UNCHANGED <<record, junk, packet, deltaDist, base, newDist, wheels>>

\* Mutant: the bytes of the distance are sent last.
sendDataSwapped ==
    /\ pc = "sendData" /\ pc' = "sendCommand"
    /\ record' = [dist |-> unsigned(params["power"]), power |-> unsigned(params["dist"]) % Half]
    /\ UNCHANGED <<params, junk, packet, deltaDist, base, newDist, wheels>>

\* sendData() sends sizeof(buffer) bytes, the size of a pointer.
sendData ==
    /\ pc = "sendData" /\ pc' = "sendCommand"
    /\ record' = [dist |-> unsigned(params["dist"]), power |-> unsigned(params["power"]) % Half]
    /\ UNCHANGED <<params, junk, packet, deltaDist, base, newDist, wheels>>

\* worker() and sendCommand(): the words are completed from the buffer.
sendCommand ==
    /\ pc = "sendCommand" /\ pc' = "handleCommand"
    /\ packet' = [dist |-> record.dist, power |-> record.power + Half * junk]
    /\ UNCHANGED <<params, record, junk, deltaDist, base, newDist, wheels>>

\* handleCommand(), with forward() or reverse().  A deltaDist of 0 is a drive all the
\* same, which loop() never checks.
handleCommand ==
    /\ pc = "handleCommand" /\ pc' = "getParams"
    /\ \E b \in Bases, d \in deltaDists(float[packet.dist]) :
          deltaDist' = d /\ base' = b /\ newDist' = unsigned(b + d)
    /\ LET val == pwmVal(float[packet.power]) IN wheels' = <<val, slower(val)>>
    /\ UNCHANGED <<params, record, junk, packet>>

CPNext == getParams \/ sendData \/ sendCommand \/ handleCommand

CPSpec == CPInit /\ [][CPNext]_CPvars

-----------------------------------------------------------------------------
\* Every number on the way keeps its width, the drive's end too, although a float may
\* be too large for it (Alex.ino:447-458).
CPTypeOK ==
    /\ pc \in {"getParams", "sendData", "sendCommand", "handleCommand"}
    /\ params \in [Arguments -> Typed]
    /\ record \in [dist : Words, power : 0 .. Half - 1]
    /\ junk \in 0 .. Half - 1
    /\ packet \in [dist : Words, power : Words]
    /\ deltaDist \in Words /\ base \in Words /\ newDist \in Words
    /\ wheels \in (0 .. Pwm) \X (0 .. Pwm)

\* The power of a drive is the percentage that was typed, rounded down, or it is full
\* power, when the two bytes that the laptop does not send (laptop_client.cpp:106)
\* are not zero in the worker's buffer: it is no third one.
IsPercentage(val, percent) == val * Full <= percent * Pwm /\ percent * Pwm < (val + 1) * Full
PowerIsTypedOrFull ==
    [][pc = "handleCommand" =>
          (params["power"] \in 0 .. Full =>
              IsPercentage(wheels'[1], params["power"]) \/ wheels'[1] = Pwm)]_CPvars

\* A drive ends where the operator typed, counted from where it began, through
\* two processes, a packet and a float (Alex.ino:447-458): the truncation of
\* the command takes nothing of the distance, 0 stands for Indefinite, and loop()
\* checks for the end (Alex.ino:877).
EndIsTyped ==
    [][pc = "handleCommand" =>
          (params["dist"] \in 0 .. Exact =>
              /\ deltaDist' > 0
              /\ newDist' = unsigned(base' +
                    (IF params["dist"] = 0 THEN Indefinite ELSE params["dist"])))]_CPvars

\* A negative distance is refused by nothing (laptop_client.cpp:152, Alex.ino:449), and
\* Alex drives.  Where that drive ends is one of three things, and the operator's
\* distance taken as a positive one is none of them: loop() never checks for an end
\* (deltaDist is 0: the float was rounded up to Word, and wrapped); or it finds the
\* end behind Alex, and stops at its first check (newDist has wrapped around); or
\* the end is at least half of the counter's range ahead.
NegativeIsNoShortDrive ==
    [][pc = "handleCommand" =>
          (params["dist"] < 0 =>
              \/ deltaDist' = 0
              \/ newDist' <= base'
              \/ 2 * (newDist' - base') >= Word)]_CPvars

\* Both wheels are driven, or neither: no power is so small that the rounding of
\* the slower wheel (Alex.ino:475, 510) leaves Alex turning on the spot.
BothWheelsOrNone ==
    [][pc = "handleCommand" => (wheels'[1] = 0 <=> wheels'[2] = 0)]_CPvars
=============================================================================
