-------------------------- MODULE AlexMotionProofs --------------------------
(***************************************************************************)
(* For every set of commands, every bound and every interleaving of the    *)
(* encoder interrupts with the loop: the motors do what dir says, as far as*)
(* their pins are written, and every drive has a target that the loop      *)
(* checks.                                                                 *)
(***************************************************************************)
EXTENDS AlexMotion, TLAPS

PlainOrNone == [command : {"none"} \cup Plain \cup {"COMMAND_CLEAR_STATS"},
                arg : {0}, power : {FALSE}]

\* What pc says of the command being handled and of the motion in progress.
Control ==
    /\ pc \in {"measure", "target", "drive"} => cmd \in Motions
    /\ pc \in {"target", "drive"} => job = cmd
    /\ pc = "distRest" => dir \in Drives
    /\ pc = "turnRest" => dir \in Turns
    /\ (pc \notin {"target", "drive"} /\ dir # "STOP") =>
           job \in Motions /\ dir = dirOf[job.command]
    /\ written < 4 => pc \notin {"measure", "target", "drive"}
    /\ written < 4 /\ dir # "STOP" => job = cmd
    /\ pc = "drive" /\ cmd.command \in DriveCommands => deltaDist > 0 /\ newDist > 0

\* The inductive invariant.
IInv == TypeOK /\ Control /\ MotorsFollowDir /\ DriveIsWatched

LEMMA Constants ==
    /\ COUNTS_PER_REV \in Nat \ {0} /\ WHEEL_CIRC \in Nat \ {0}
    /\ TurnRate \in Nat /\ Indefinite \in Nat /\ Indefinite > 0
    /\ Byte \in Nat \ {0}
    /\ Distances \subseteq Nat /\ Angles \subseteq Nat
    /\ Powers \subseteq BOOLEAN
    /\ MaxCommands \in Nat /\ MaxMoved \in Nat /\ MaxOther \in Nat
BY AlexMotionAssumption

LEMMA MotionFields ==
    ASSUME NEW m \in Motions
    PROVE  /\ m.command \in DriveCommands \cup TurnCommands
           /\ m.arg \in Nat
           /\ m.power \in BOOLEAN
           /\ m # Nothing
<1>1. CASE m \in [command : DriveCommands, arg : Distances, power : Powers]
  <2>1. m.command \in DriveCommands /\ m.arg \in Distances /\ m.power \in Powers
    BY <1>1
  <2>2. m.command # Nothing.command
    BY <2>1 DEF DriveCommands, Nothing
  <2>3. QED
    BY <2>1, <2>2, Constants
<1>2. CASE m \in [command : TurnCommands, arg : Angles, power : Powers]
  <2>1. m.command \in TurnCommands /\ m.arg \in Angles /\ m.power \in Powers
    BY <1>2
  <2>2. m.command # Nothing.command
    BY <2>1 DEF TurnCommands, Nothing
  <2>3. QED
    BY <2>1, <2>2, Constants
<1>3. QED
  BY <1>1, <1>2 DEF Motions

LEMMA DirOfCommand ==
    /\ dirOf["COMMAND_FORWARD"] = "BACKWARD"
    /\ dirOf["COMMAND_REVERSE"] = "FORWARD"
    /\ dirOf["COMMAND_TURN_LEFT"] = "RIGHT"
    /\ dirOf["COMMAND_TURN_RIGHT"] = "LEFT"
    /\ \A c \in DriveCommands : dirOf[c] \in Drives
    /\ \A c \in TurnCommands : dirOf[c] \in Turns
BY DEF dirOf, DriveCommands, TurnCommands, Drives, Turns

LEMMA CounterNames ==
    /\ \A d \in Drives \cup Turns :
          leftCounter[d] \in Counters /\ rightCounter[d] \in Counters /\ watched(d) \in Counters
    /\ watched("FORWARD") = "leftForwardTicks"
    /\ watched("BACKWARD") = "leftReverseTicks"
BY DEF leftCounter, rightCounter, watched, Counters, Drives, Turns

LEMMA PinSets == pinsOf["STOP"] = {} /\ \A d \in Directions : pinsOf[d] \in SUBSET Pins
BY DEF pinsOf, Pins, Directions

\* Each direction writes every pin once.
LEMMA WriteOrder ==
    ASSUME NEW d \in Directions
    PROVE  /\ Len(writeOrder[d]) = 4
           /\ \A i \in 1 .. 4 : writeOrder[d][i] \in Pins
           /\ \A i, j \in 1 .. 4 : writeOrder[d][i] = writeOrder[d][j] => i = j
           /\ \A p \in Pins : \E i \in 1 .. 4 : writeOrder[d][i] = p
<1> DEFINE order == writeOrder[d]
<1>1. \E a, b, c, e \in Pins : order = <<a, b, c, e>> /\ Pins = {a, b, c, e}
                                /\ a # b /\ a # c /\ a # e /\ b # c /\ b # e /\ c # e
  BY DEF writeOrder, Directions, Pins
<1> HIDE DEF order
<1>2. PICK a, b, c, e \in Pins : order = <<a, b, c, e>> /\ Pins = {a, b, c, e}
                                /\ a # b /\ a # c /\ a # e /\ b # c /\ b # e /\ c # e
  BY <1>1
<1>3. Len(order) = 4 /\ order[1] = a /\ order[2] = b /\ order[3] = c /\ order[4] = e
  BY <1>2
<1>4. \A i \in 1 .. 4 : i = 1 \/ i = 2 \/ i = 3 \/ i = 4
  OBVIOUS
<1>5. \A i \in 1 .. 4 : order[i] \in Pins
  BY <1>3, <1>4
<1>6. \A i, j \in 1 .. 4 : order[i] = order[j] => i = j
  BY <1>2, <1>3, <1>4
<1>7. \A p \in Pins : \E i \in 1 .. 4 : order[i] = p
  BY <1>2, <1>3
<1> QED
  BY <1>3, <1>5, <1>6, <1>7 DEF order

LEMMA CmOfIsNat == ASSUME NEW t \in Nat PROVE cmOf(t) \in Nat
BY Constants DEF cmOf

LEMMA LowAndRest == ASSUME NEW n \in Nat PROVE Low(n) \in Nat /\ Rest(n) \in Nat
BY Constants DEF Low, Rest

LEMMA MeasuredIsNat ==
    ASSUME TypeOK, NEW d \in Drives \cup Turns
    PROVE  measured(d) \in Nat
BY CounterNames DEF TypeOK, measured, Drives, Turns

LEMMA DeltaTicksIsNat ==
    ASSUME NEW c, NEW ang \in Nat
    PROVE  computeDeltaTicks(c, ang) \in Nat /\ deltaTicksOf(c, ang) \in Nat
BY Constants DEF computeDeltaTicks, deltaTicksOf

LEMMA DeltaDistIsPositive ==
    ASSUME NEW dist \in Nat
    PROVE  deltaDistOf(dist) \in Nat /\ deltaDistOf(dist) > 0
BY Constants DEF deltaDistOf

LEMMA InitIInv == Init => IInv
<1>1. SUFFICES ASSUME Init PROVE IInv
  OBVIOUS
<1>2. Nothing \in PlainOrNone
  BY DEF Nothing, PlainOrNone
<1>3. TypeOK
  <2>1. cmd = Nothing /\ job = Nothing /\ received \in 0 .. MaxCommands
    BY <1>1, Constants DEF Init
  <2>2. ticks \in [Counters -> Nat] /\ moved \in 0 .. MaxMoved
    BY <1>1, Constants DEF Init
  <2>3. dir \in Directions /\ pins \in SUBSET Pins /\ written = 4
    BY <1>1, WriteOrder DEF Init, Directions
  <2>4. written \in 0 .. 4 /\ pc = "read" /\ low \in Nat /\ cleared \in BOOLEAN
    <3>1. written \in 0 .. 4
      BY <2>3
    <3>2. pc = "read" /\ low = 0 /\ cleared = FALSE
      BY <1>1, Zenon DEF Init
    <3>3. QED
      BY <3>1, <3>2
  <2>5. /\ forwardDist \in Nat /\ reverseDist \in Nat /\ deltaDist \in Nat
        /\ newDist \in Nat /\ deltaTicks \in Nat /\ targetTicks \in Nat
    BY <1>1 DEF Init
  <2>6. QED
    BY <1>2, <2>1, <2>2, <2>3, <2>4, <2>5 DEF TypeOK, PlainOrNone
<1>4. Control /\ DriveIsWatched
  BY <1>1, <1>3 DEF Init, Control, DriveIsWatched, Drives, Turns, TypeOK
<1>5. MotorsFollowDir
  BY <1>1 DEF Init, MotorsFollowDir
<1>6. QED
  BY <1>3, <1>4, <1>5 DEF IInv

\* An encoder interrupt.
LEMMA TickKeepsIInv == ASSUME IInv, leftISR \/ rightISR PROVE IInv'
<1>1. dir \in Drives \cup Turns
  BY DEF IInv, TypeOK, Directions, Drives, Turns, leftISR, rightISR
<1>2. PICK k \in Counters : Count(k)
  BY <1>1, CounterNames DEF leftISR, rightISR
<1>3. ticks' \in [Counters -> Nat] /\ moved' \in 0 .. MaxMoved
  BY <1>2, Constants DEF Count, IInv, TypeOK
<1>4. UNCHANGED <<control, dir, pins, written, targets, job, cleared>>
  BY DEF leftISR, rightISR
<1>5. forwardDist' \in Nat /\ reverseDist' \in Nat
  <2>1. CASE leftISR
    BY <1>3, <2>1, CmOfIsNat DEF leftISR, Counters, IInv, TypeOK
  <2>2. CASE rightISR
    BY <2>2 DEF rightISR, distances, IInv, TypeOK
  <2>3. QED
    BY <2>1, <2>2
<1>6. TypeOK'
  BY <1>3, <1>4, <1>5 DEF IInv, TypeOK, control, targets
<1>7. Control' /\ MotorsFollowDir' /\ DriveIsWatched'
  BY <1>4 DEF IInv, Control, MotorsFollowDir, DriveIsWatched, control, targets
<1>8. QED
  BY <1>6, <1>7 DEF IInv

\* The steps that receive a command, or find that there is none.
LEMMA ReceiveKeepsIInv ==
    ASSUME IInv, written = 4, NoPacket \/ ReceiveMotion \/ ReceivePlain \/ ReceiveClear
    PROVE  IInv'
<1>1. UNCHANGED <<low, dir, pins, written, ticks, distances, targets, history>> /\ pc = "read"
  BY DEF NoPacket, ReceiveMotion, ReceivePlain, ReceiveClear, Receive, Goto
<1>2. /\ pc' \in {"dist", "measure", "clear"}
      /\ cmd' \in Motions \cup PlainOrNone
      /\ pc' = "measure" => cmd' \in Motions
      /\ received' \in 0 .. MaxCommands
  <2>1. CASE NoPacket
    BY <2>1 DEF NoPacket, Goto, IInv, TypeOK, PlainOrNone
  <2>2. CASE ReceiveMotion
    BY <2>2, Constants DEF ReceiveMotion, Receive, IInv, TypeOK
  <2>3. CASE ReceivePlain
    <3>1. \A c \in Plain : [Nothing EXCEPT !.command = c] \in PlainOrNone
      BY DEF Nothing, PlainOrNone
    <3>2. QED
      BY <2>3, <3>1, Constants DEF ReceivePlain, Receive, IInv, TypeOK
  <2>4. CASE ReceiveClear
    <3>1. [Nothing EXCEPT !.command = "COMMAND_CLEAR_STATS"] \in PlainOrNone
      BY DEF Nothing, PlainOrNone
    <3>2. QED
      BY <2>4, <3>1, Constants DEF ReceiveClear, Receive, IInv, TypeOK
  <2>5. QED
    BY <2>1, <2>2, <2>3, <2>4
<1>3. TypeOK'
  BY <1>1, <1>2 DEF IInv, TypeOK, PlainOrNone, distances, targets, history
<1>4. Control' /\ MotorsFollowDir' /\ DriveIsWatched'
  BY <1>1, <1>2 DEF IInv, Control, MotorsFollowDir, DriveIsWatched, targets, history
<1>5. QED
  BY <1>3, <1>4 DEF IInv

LEMMA MeasureKeepsIInv == ASSUME IInv, written = 4, Measure PROVE IInv'
<1>1. cmd \in Motions /\ dirOf[cmd.command] \in Drives \cup Turns
  BY MotionFields, DirOfCommand DEF IInv, Control, Measure
<1>2. low' \in Nat
  BY <1>1, MeasuredIsNat, LowAndRest DEF Measure, IInv
<1>3. TypeOK'
  <2>1. job' \in Motions /\ moved' \in 0 .. MaxMoved /\ cleared' \in BOOLEAN
    <3>1. job' = cmd /\ moved' = 0 /\ cleared' = FALSE
      BY DEF Measure
    <3>2. cleared' \in BOOLEAN /\ job' \in Motions
      BY <1>1, <3>1
    <3>3. moved' \in 0 .. MaxMoved
      BY <3>1, Constants
    <3>4. QED
      BY <3>2, <3>3
  <2>2. pc' = "target" /\ UNCHANGED <<cmd, received, dir, pins, written, ticks, distances, targets>>
    BY DEF Measure
  <2>3. QED
    BY <1>2, <2>1, <2>2 DEF IInv, TypeOK, distances, targets
<1>4. Control' /\ MotorsFollowDir' /\ DriveIsWatched'
  BY <1>1 DEF Measure, IInv, Control, MotorsFollowDir, DriveIsWatched, targets
<1>5. QED
  BY <1>3, <1>4 DEF IInv

LEMMA SetTargetKeepsIInv == ASSUME IInv, written = 4, SetTarget PROVE IInv'
<1>1. cmd \in Motions /\ dirOf[cmd.command] \in Drives \cup Turns /\ cmd.arg \in Nat
  BY MotionFields, DirOfCommand DEF IInv, Control, SetTarget
<1>2. targetBase(dirOf[cmd.command]) \in Nat
  <2>1. measured(dirOf[cmd.command]) \in Nat /\ low \in Nat
    BY <1>1, MeasuredIsNat DEF IInv, TypeOK
  <2>2. QED
    BY <2>1, LowAndRest DEF targetBase
<1>3. /\ deltaDist' \in Nat /\ newDist' \in Nat
      /\ deltaTicks' \in Nat /\ targetTicks' \in Nat
      /\ cmd.command \in DriveCommands => deltaDist' > 0 /\ newDist' > 0
      /\ (deltaDist > 0 /\ newDist > 0) => (deltaDist' > 0 /\ newDist' > 0)
  BY <1>1, <1>2, DeltaDistIsPositive, DeltaTicksIsNat
     DEF SetTarget, IInv, TypeOK, DriveCommands, TurnCommands
<1>4. TypeOK'
  BY <1>3 DEF SetTarget, Goto, IInv, TypeOK, distances, history
<1>5. Control'
  BY <1>3 DEF SetTarget, Goto, IInv, Control, history
<1>6. MotorsFollowDir' /\ DriveIsWatched'
  BY <1>3 DEF SetTarget, Goto, IInv, MotorsFollowDir, DriveIsWatched, history
<1>7. QED
  BY <1>4, <1>5, <1>6 DEF IInv

LEMMA DriveKeepsIInv == ASSUME IInv, Drive PROVE IInv'
<1>1. /\ cmd \in Motions /\ job = cmd /\ job # Nothing
      /\ dir' = dirOf[cmd.command] /\ dir' \in Drives \cup Turns
      /\ cmd.power \in BOOLEAN
  BY MotionFields, DirOfCommand DEF IInv, Control, Drive
<1>2. dir' \in Directions /\ written' = 0
  BY <1>1 DEF Drive, Drives, Turns, Directions
<1>3. TypeOK'
  <2>1. /\ UNCHANGED <<cmd, low, received, pins, ticks, distances, targets, history>>
        /\ pc' = "dist" /\ written' \in 0 .. 4
    BY <1>2 DEF Drive, Goto
  <2>2. QED
    BY <1>2, <2>1 DEF IInv, TypeOK, distances, targets, history
<1>4. Control'
  BY <1>1 DEF Drive, Goto, IInv, Control, targets, history
<1>5. MotorsFollowDir'
  BY <1>2 DEF MotorsFollowDir
<1>6. DriveIsWatched'
  <2>1. dir' \in Drives => cmd.command \in DriveCommands
    BY <1>1, DirOfCommand, MotionFields DEF Drives, Turns, DriveCommands, TurnCommands
  <2>2. QED
    BY <2>1 DEF Drive, IInv, Control, DriveIsWatched, targets
<1>7. QED
  BY <1>3, <1>4, <1>5, <1>6 DEF IInv

\* One more pin is written: the others written since dir was set stay as they are, and
\* after the fourth there are no others.
LEMMA WriteKeepsIInv == ASSUME IInv, analogWrite PROVE IInv'
<1> DEFINE order == writeOrder[dir]
           pin == order[written + 1]
           power == dir # "STOP" /\ cmd.power
           driven == IF power THEN pinsOf[dir] ELSE {}
<1>1. dir \in Directions /\ pins \in SUBSET Pins /\ written \in 0 .. 3
  <2>1. dir \in Directions /\ pins \in SUBSET Pins /\ written \in 0 .. 4
    BY DEF IInv, TypeOK
  <2>2. written < Len(writeOrder[dir]) /\ Len(writeOrder[dir]) = 4
    BY <2>1, WriteOrder DEF analogWrite
  <2>3. QED
    BY <2>1, <2>2
<1>2. /\ pin \in Pins
      /\ \A i, j \in 1 .. 4 : order[i] = order[j] => i = j
      /\ \A p \in Pins : \E i \in 1 .. 4 : order[i] = p
  BY <1>1, WriteOrder
<1>3. /\ written' = written + 1
      /\ pins' = IF power /\ pin \in pinsOf[dir] THEN pins \cup {pin} ELSE pins \ {pin}
      /\ UNCHANGED <<control, dir, ticks, distances, targets, history>>
  BY PinSets DEF analogWrite
<1>4. TypeOK'
  <2>1. pins' \in SUBSET Pins /\ written' \in 0 .. 4
    BY <1>1, <1>2, <1>3
  <2>2. QED
    BY <1>3, <2>1 DEF IInv, TypeOK, control, distances, targets, history
<1>5. Control' /\ DriveIsWatched'
  BY <1>1, <1>3 DEF IInv, Control, DriveIsWatched, control, targets, history
<1>6. /\ pc \notin {"target", "drive"}
      /\ dir # "STOP" => job = cmd
  BY <1>1 DEF IInv, Control
<1>7. \A i \in 1 .. written : order[i] \in pins <=> order[i] \in driven
  BY <1>6, PinSets DEF IInv, MotorsFollowDir
<1>8. \A i \in 1 .. written + 1 : order[i] \in pins' <=> order[i] \in driven
  <2> SUFFICES ASSUME NEW i \in 1 .. written + 1
               PROVE  order[i] \in pins' <=> order[i] \in driven
    OBVIOUS
  <2>1. CASE i = written + 1
    BY <1>3, <2>1
  <2>2. CASE i \in 1 .. written
    <3>1. order[i] # pin
      BY <1>1, <1>2, <2>2
    <3>2. QED
      BY <1>3, <1>7, <2>2, <3>1
  <2>3. QED
    BY <1>1, <2>1, <2>2
<1>9. written' = 4 => pins' = driven
  <2>1. driven \in SUBSET Pins /\ pins' \in SUBSET Pins
    BY <1>1, <1>4, PinSets DEF TypeOK
  <2>2. QED
    BY <1>2, <1>3, <1>8, <2>1
<1>10. dir # "STOP" => driven = IF job.power THEN pinsOf[dir] ELSE {}
  BY <1>6
<1>11. MotorsFollowDir'
  <2> HIDE DEF driven, pin
  <2>1. driven \in {{}, pinsOf[dir]}
    BY DEF driven
  <2>2. dir' = dir /\ job' = job /\ pc' = pc
    BY <1>3 DEF control, history
  <2>3. QED
    BY <1>3, <1>8, <1>9, <1>10, <2>1, <2>2 DEF MotorsFollowDir
<1>12. QED
  BY <1>4, <1>5, <1>11 DEF IInv

LEMMA ClearKeepsIInv == ASSUME IInv, written = 4, ClearCounters PROVE IInv'
<1>1. TypeOK'
  BY DEF ClearCounters, Goto, IInv, TypeOK, targets
<1>2. Control' /\ MotorsFollowDir' /\ DriveIsWatched'
  BY DEF ClearCounters, Goto, IInv, Control, MotorsFollowDir, DriveIsWatched, targets
<1>3. QED
  BY <1>1, <1>2 DEF IInv

\* The checks: either the motion goes on with its targets, or stop().
LEMMA CheckKeepsIInv ==
    ASSUME IInv, written = 4,
           CheckDistance \/ CompareDistance \/ CheckTurn \/ CompareTurn
    PROVE  IInv'
<1>1. /\ UNCHANGED <<cmd, received, ticks, distances, history>>
      /\ pc' \in {"distRest", "turn", "turnRest", "read"}
      /\ pc' = "distRest" => dir' \in Drives
      /\ pc' = "turnRest" => dir' \in Turns
      /\ pc \notin {"target", "drive"}
  BY DEF CheckDistance, CompareDistance, CheckTurn, CompareTurn, Goto, distances, history
<1>2. low' \in Nat
  <2>1. low' = low \/ (dir \in Drives \cup Turns /\ low' = Low(measured(dir)))
    BY DEF CheckDistance, CompareDistance, CheckTurn, CompareTurn, Goto
  <2>2. dir \in Drives \cup Turns => measured(dir) \in Nat
    BY MeasuredIsNat DEF IInv
  <2>3. QED
    BY <2>1, <2>2, LowAndRest DEF IInv, TypeOK
<1>3. /\ deltaDist' \in Nat /\ newDist' \in Nat
      /\ deltaTicks' \in Nat /\ targetTicks' \in Nat
  BY DEF CheckDistance, CompareDistance, CheckTurn, CompareTurn, EndDrive, EndTurn,
         targets, IInv, TypeOK
<1>4. \/ UNCHANGED <<dir, pins, written, deltaDist, newDist>>
      \/ dir' = "STOP" /\ written' = 0 /\ pins' = pins
  BY DEF CheckDistance, CompareDistance, CheckTurn, CompareTurn, stop, targets
<1>5. TypeOK'
  <2>1. pins' = pins /\ dir' \in Directions /\ written' \in 0 .. 4
    BY <1>4 DEF IInv, TypeOK, Directions
  <2>2. QED
    BY <1>1, <1>2, <1>3, <2>1 DEF IInv, TypeOK, distances, history
<1>6. Control'
  BY <1>1, <1>4 DEF IInv, Control, history
<1>7. MotorsFollowDir'
  <2>1. CASE dir' = "STOP" /\ written' = 0
    BY <2>1 DEF MotorsFollowDir
  <2>2. CASE UNCHANGED <<dir, pins, written>>
    BY <1>1, <2>2 DEF IInv, MotorsFollowDir, history
  <2>3. QED
    BY <1>4, <2>1, <2>2
<1>8. DriveIsWatched'
  BY <1>4 DEF IInv, DriveIsWatched, Drives
<1>9. QED
  BY <1>5, <1>6, <1>7, <1>8 DEF IInv

LEMMA NextKeepsIInv == IInv /\ [Next]_vars => IInv'
<1>1. SUFFICES ASSUME IInv, [Next]_vars PROVE IInv'
  OBVIOUS
<1>2. CASE UNCHANGED vars
  <2>1. TypeOK'
    BY <1>1, <1>2 DEF vars, control, distances, targets, history, IInv, TypeOK
  <2>2. Control' /\ MotorsFollowDir' /\ DriveIsWatched'
    BY <1>1, <1>2 DEF vars, control, targets, history,
          IInv, Control, MotorsFollowDir, DriveIsWatched
  <2>3. QED
    BY <2>1, <2>2 DEF IInv
<1>3. CASE Next
  <2>1. dir \in Directions => Len(writeOrder[dir]) = 4
    BY WriteOrder
  <2>2. Loop => analogWrite \/ (written = 4 /\ Statement)
    BY <1>1, <2>1 DEF Loop, IInv, TypeOK
  <2>3. QED
    BY <1>1, <1>3, <2>2, TickKeepsIInv, ReceiveKeepsIInv, MeasureKeepsIInv, SetTargetKeepsIInv,
       DriveKeepsIInv, WriteKeepsIInv, ClearKeepsIInv, CheckKeepsIInv DEF Next, Statement
<1>4. QED
  BY <1>1, <1>2, <1>3

LEMMA Invariance == Spec => []IInv
<1>1. QED
  BY InitIInv, NextKeepsIInv, PTL DEF Spec

\* The types of the control loop's variables.
THEOREM MotionTypes == Spec => []TypeOK
<1>1. IInv => TypeOK
  BY DEF IInv
<1>2. QED
  BY Invariance, <1>1, PTL

\* Whatever is commanded and however the interrupts fall between the calls that write
\* the pins, each pin written since dir was set is driven just if dir and the power of
\* the motion in progress say so; after the fourth, the motors do what dir says.
THEOREM MotorsAgree == Spec => []MotorsFollowDir
<1>1. IInv => MotorsFollowDir
  BY DEF IInv
<1>2. QED
  BY Invariance, <1>1, PTL

\* No sequence of commands leaves Alex driving straight without a target that
\* the loop checks.
THEOREM DrivesAreWatched == Spec => []DriveIsWatched
<1>1. IInv => DriveIsWatched
  BY DEF IInv
<1>2. QED
  BY Invariance, <1>1, PTL

-----------------------------------------------------------------------------
(***************************************************************************)
(* As long as the counters fit one byte, so that no interrupt can fall     *)
(* between the bytes of a changing one: the target is the commanded one,   *)
(* and no motion stops before it has covered what was commanded.           *)
(***************************************************************************)
CountersBelowByte ==
    /\ \A k \in Counters : ticks[k] < Byte
    /\ forwardDist < Byte /\ reverseDist < Byte

\* What t ticks of the watched wheel amount to in the unit of a direction's
\* target: centimetres, or ticks.
countOf(d, t) == IF d \in Drives THEN cmOf(t) ELSE t

\* The last motion command: its direction, the ticks that were counted before
\* it, what it asks for, and the target that is set for it.
jobDir == dirOf[job.command]
before == ticks[watched(jobDir)] - moved
delta == IF job.command \in DriveCommands THEN deltaDistOf(job.arg)
                                          ELSE deltaTicksOf(job.command, job.arg)
target == IF job.command \in DriveCommands THEN newDist ELSE targetTicks

DistFollowsTicks ==
    /\ forwardDist = cmOf(ticks["leftForwardTicks"])
    /\ reverseDist = cmOf(ticks["leftReverseTicks"])

MovedIsCounted ==
    job \in Motions =>
        IF cleared THEN ticks[watched(jobDir)] <= moved
                   ELSE moved <= ticks[watched(jobDir)]

Aimed ==
    /\ pc = "target" => ~cleared /\ low = countOf(jobDir, before)
    /\ pc = "drive" => ~cleared
    /\ (pc = "drive" \/ (pc # "target" /\ dir # "STOP")) =>
           /\ target >= delta
           /\ ~cleared => target = countOf(jobDir, before) + delta

LowIsCounted == pc \in {"distRest", "turnRest"} => low <= measured(dir)

\* The inductive invariant, on top of the one above.
AimInv == DistFollowsTicks /\ MovedIsCounted /\ Aimed /\ LowIsCounted

-----------------------------------------------------------------------------
\* Facts of division.
LEMMA Quotient ==
    ASSUME NEW n \in Nat, NEW b \in Nat \ {0}
    PROVE  n \div b \in Nat /\ (n \div b) * b <= n /\ n < (n \div b) * b + b
OBVIOUS

LEMMA OneByte ==
    ASSUME NEW n \in Nat, n < Byte
    PROVE  Low(n) = n /\ Rest(n) = 0
<1>1. n % Byte = n
  BY Constants
<1>2. QED
  BY <1>1 DEF Low, Rest

LEMMA CmOfIsMonotone ==
    ASSUME NEW s \in Nat, NEW t \in Nat, s <= t
    PROVE  cmOf(s) <= cmOf(t)
<1> DEFINE N == COUNTS_PER_REV
           p == (s * WHEEL_CIRC) \div N
           q == (t * WHEEL_CIRC) \div N
<1>1. /\ p \in Nat /\ q \in Nat /\ N \in Nat /\ N > 0
      /\ s * WHEEL_CIRC \in Nat /\ t * WHEEL_CIRC \in Nat
      /\ s * WHEEL_CIRC <= t * WHEEL_CIRC
  BY Constants
<1>2. p * N <= s * WHEEL_CIRC /\ t * WHEEL_CIRC < q * N + N
  <2>1. ASSUME NEW n \in Nat
        PROVE  (n \div N) * N <= n /\ n < (n \div N) * N + N
    BY Quotient, Constants
  <2>2. QED
    BY <1>1, <2>1
<1> HIDE DEF N, p, q
<1>3. SUFFICES ASSUME p >= q + 1 PROVE FALSE
  BY <1>1 DEF cmOf, p, q, N
<1>4. p * N >= (q + 1) * N /\ (q + 1) * N = q * N + N
  BY <1>1, <1>3
<1>5. QED
  BY <1>1, <1>2, <1>4

\* A distance that has grown by d centimetres took more ticks than d - 1
\* centimetres do.
LEMMA CentimetresTakeTicks ==
    ASSUME NEW s \in Nat, NEW m \in Nat, NEW d \in Nat,
           cmOf(s + m) >= cmOf(s) + d
    PROVE  m * WHEEL_CIRC > (d - 1) * COUNTS_PER_REV
<1> DEFINE N == COUNTS_PER_REV
           p == (s * WHEEL_CIRC) \div N
           q == ((s + m) * WHEEL_CIRC) \div N
<1>1. /\ p \in Nat /\ q \in Nat /\ N \in Nat /\ N > 0
      /\ s * WHEEL_CIRC \in Nat /\ m * WHEEL_CIRC \in Nat
      /\ (s + m) * WHEEL_CIRC = s * WHEEL_CIRC + m * WHEEL_CIRC
      /\ (s + m) * WHEEL_CIRC \in Nat
  BY Constants
<1>2. s * WHEEL_CIRC < p * N + N /\ q * N <= (s + m) * WHEEL_CIRC
  <2>1. ASSUME NEW n \in Nat
        PROVE  (n \div N) * N <= n /\ n < (n \div N) * N + N
    BY Quotient, Constants
  <2>2. QED
    BY <1>1, <2>1
<1>3. q >= p + d
  BY DEF cmOf
<1> HIDE DEF N, p, q
<1>4. q * N >= (p + d) * N /\ (p + d) * N = p * N + d * N /\ d * N = (d - 1) * N + N
  BY <1>1, <1>3
<1>5. QED
  BY <1>1, <1>2, <1>4 DEF N
-----------------------------------------------------------------------------
LEMMA MeasuredIsCounted ==
    ASSUME TypeOK, DistFollowsTicks, NEW d \in Drives \cup Turns
    PROVE  measured(d) = countOf(d, ticks[watched(d)])
BY CounterNames DEF measured, countOf, DistFollowsTicks, Drives, Turns

LEMMA CountOfIsNat ==
    ASSUME NEW d, NEW t \in Nat
    PROVE  countOf(d, t) \in Nat
BY CmOfIsNat DEF countOf

LEMMA CountOfIsMonotone ==
    ASSUME NEW d, NEW s \in Nat, NEW t \in Nat, s <= t
    PROVE  countOf(d, s) <= countOf(d, t)
BY CmOfIsMonotone DEF countOf

LEMMA JobIsKnown ==
    ASSUME TypeOK, job \in Motions
    PROVE  /\ jobDir \in Drives \cup Turns /\ jobDir # "STOP"
           /\ watched(jobDir) \in Counters
           /\ ticks[watched(jobDir)] \in Nat /\ moved \in Nat
           /\ delta \in Nat
           /\ target \in Nat
           /\ jobDir \in Drives <=> job.command \in DriveCommands
<1>1. /\ job.command \in DriveCommands \cup TurnCommands
      /\ job.arg \in Nat
  BY MotionFields
<1>2. jobDir \in Drives \cup Turns /\ jobDir # "STOP"
  BY <1>1, DirOfCommand DEF jobDir, Drives, Turns
<1>3. jobDir \in Drives <=> job.command \in DriveCommands
  BY <1>1, DirOfCommand DEF jobDir, Drives, Turns, DriveCommands, TurnCommands
<1>4. watched(jobDir) \in Counters /\ ticks[watched(jobDir)] \in Nat /\ moved \in Nat
  BY <1>2, CounterNames, Constants DEF TypeOK
<1>5. delta \in Nat
  BY <1>1, DeltaDistIsPositive, DeltaTicksIsNat DEF delta
<1>6. target \in Nat
  BY DEF target, TypeOK
<1>7. QED
  BY <1>2, <1>3, <1>4, <1>5, <1>6

LEMMA InitAim == Init => AimInv
<1>1. SUFFICES ASSUME Init PROVE AimInv
  OBVIOUS
<1>2. cmOf(0) = 0
  BY Constants DEF cmOf
<1>3. Nothing \notin Motions
  BY MotionFields
<1>4. DistFollowsTicks
  BY <1>1, <1>2 DEF Init, DistFollowsTicks, Counters
<1>5. MovedIsCounted /\ Aimed /\ LowIsCounted
  BY <1>1, <1>3 DEF Init, MovedIsCounted, Aimed, LowIsCounted
<1>6. QED
  BY <1>4, <1>5 DEF AimInv

\* An encoder interrupt counts for the motion exactly when it moves the
\* counter that the motion's target is compared with.
LEMMA TickKeepsAim ==
    ASSUME IInv, IInv', AimInv, leftISR \/ rightISR
    PROVE  AimInv'
<1>1. dir \in Drives \cup Turns
  BY DEF IInv, TypeOK, Directions, Drives, Turns, leftISR, rightISR
<1>2. PICK k \in Counters :
         /\ Count(k)
         /\ \/ leftISR /\ k = leftCounter[dir]
            \/ rightISR /\ k = rightCounter[dir]
  <2>1. CASE leftISR
    <3>1. leftCounter[dir] \in Counters /\ Count(leftCounter[dir])
      BY <1>1, <2>1, CounterNames DEF leftISR
    <3>2. QED
      BY <2>1, <3>1
  <2>2. CASE rightISR
    <3>1. rightCounter[dir] \in Counters /\ Count(rightCounter[dir])
      BY <1>1, <2>2, CounterNames DEF rightISR
    <3>2. QED
      BY <2>2, <3>1
  <2>3. QED
    BY <2>1, <2>2
<1>3. UNCHANGED <<pc, cmd, low, dir, job, cleared, newDist, targetTicks>>
  BY DEF leftISR, rightISR, control, targets
<1>4. /\ ticks' = [ticks EXCEPT ![k] = @ + 1]
      /\ \A j \in Counters : ticks[j] \in Nat /\ ticks[j] <= ticks'[j]
  BY <1>2 DEF Count, IInv, TypeOK
<1>5. DistFollowsTicks'
  <2>1. CASE leftISR /\ k = leftCounter[dir] /\ dir = "FORWARD"
    BY <1>4, <2>1 DEF leftISR, leftCounter, DistFollowsTicks, AimInv, Counters, Drives, Turns, IInv, TypeOK
  <2>2. CASE leftISR /\ k = leftCounter[dir] /\ dir = "BACKWARD"
    BY <1>4, <2>2 DEF leftISR, leftCounter, DistFollowsTicks, AimInv, Counters, Drives, Turns, IInv, TypeOK
  <2>3. CASE leftISR /\ k = leftCounter[dir] /\ dir \in Turns
    BY <1>4, <2>3 DEF leftISR, leftCounter, DistFollowsTicks, AimInv, Counters, Drives, Turns, IInv, TypeOK
  <2>4. CASE rightISR /\ k = rightCounter[dir]
    BY <1>1, <1>4, <2>4 DEF rightISR, rightCounter, DistFollowsTicks, AimInv, Counters, Drives, Turns, distances, IInv, TypeOK
  <2>5. QED
    BY <1>1, <1>2, <2>1, <2>2, <2>3, <2>4 DEF Drives
<1>6. job \in Motions =>
         /\ jobDir' = jobDir /\ delta' = delta /\ target' = target
         /\ before' = before
         /\ \/ moved' = moved /\ ticks'[watched(jobDir)] = ticks[watched(jobDir)]
            \/ moved' = moved + 1 /\ ticks'[watched(jobDir)] = ticks[watched(jobDir)] + 1
  <2>1. SUFFICES ASSUME job \in Motions PROVE <1>6!2
    OBVIOUS
  <2>2. jobDir' = jobDir /\ delta' = delta /\ target' = target
    BY <1>3 DEF jobDir, delta, target
  <2>3. \/ moved' = moved /\ ticks'[watched(jobDir)] = ticks[watched(jobDir)]
        \/ moved' = moved + 1 /\ ticks'[watched(jobDir)] = ticks[watched(jobDir)] + 1
    <3>1. job # Nothing /\ watched(jobDir) \in Counters
      BY <2>1, MotionFields, JobIsKnown DEF IInv
    <3>2. CASE k = watched(jobDir)
      BY <1>2, <1>4, <3>1, <3>2 DEF Count, jobDir, IInv, TypeOK
    <3>3. CASE k # watched(jobDir)
      BY <1>2, <1>4, <3>1, <3>3 DEF Count, jobDir, IInv, TypeOK
    <3>4. QED
      BY <3>2, <3>3
  <2>4. before' = before
    BY <2>1, <2>2, <2>3, JobIsKnown DEF before, IInv
  <2>5. QED
    BY <2>2, <2>3, <2>4
<1>7. MovedIsCounted'
  BY <1>3, <1>6, JobIsKnown DEF MovedIsCounted, AimInv, IInv
<1>8. Aimed'
  <2>1. (pc \in {"target", "drive"} \/ dir # "STOP") => job \in Motions
    BY DEF IInv, Control
  <2>2. QED
    BY <1>3, <1>6, <2>1 DEF Aimed, AimInv
<1>9. LowIsCounted'
  <2>1. measured(dir) = countOf(dir, ticks[watched(dir)])
    BY <1>1, MeasuredIsCounted DEF IInv, AimInv
  <2>2. measured(dir)' = countOf(dir, ticks'[watched(dir)])
    <3>1. TypeOK' /\ DistFollowsTicks' /\ dir' \in Drives \cup Turns
      BY <1>1, <1>3, <1>5 DEF IInv
    <3>2. measured(dir)' = countOf(dir', ticks'[watched(dir')])
      BY <3>1, CounterNames DEF measured, countOf, DistFollowsTicks, Drives, Turns
    <3>3. QED
      BY <1>3, <3>2
  <2>3. countOf(dir, ticks[watched(dir)]) <= countOf(dir, ticks'[watched(dir)])
    <3>1. watched(dir) \in Counters
      BY <1>1, CounterNames
    <3>2. ticks[watched(dir)] \in Nat /\ ticks'[watched(dir)] \in Nat
      BY <3>1 DEF IInv, TypeOK
    <3>3. QED
      BY <1>4, <3>1, <3>2, CountOfIsMonotone
  <2>4. measured(dir) \in Nat /\ measured(dir)' \in Nat /\ low \in Nat
    BY <1>1, <2>1, <2>2, CounterNames, CountOfIsNat DEF IInv, TypeOK
  <2>5. QED
    BY <1>3, <2>1, <2>2, <2>3, <2>4 DEF LowIsCounted, AimInv
<1>10. QED
  BY <1>5, <1>7, <1>8, <1>9 DEF AimInv

\* Steps that leave the motion alone: its job, what was counted for it, its
\* target and dir.
LEMMA UntouchedKeepsAim ==
    ASSUME IInv, AimInv,
           UNCHANGED <<dir, ticks, distances, targets, history>>,
           pc \notin {"target", "drive"}, pc' \notin {"target", "drive"},
           pc' \in {"distRest", "turnRest"} => low' <= measured(dir)
    PROVE  AimInv'
<1>1. UNCHANGED <<dir, ticks, forwardDist, reverseDist, newDist, targetTicks, job, moved, cleared>>
  BY DEF distances, targets, history
<1>2. DistFollowsTicks' /\ MovedIsCounted'
  BY <1>1 DEF AimInv, DistFollowsTicks, MovedIsCounted, jobDir
<1>3. Aimed'
  BY <1>1 DEF AimInv, Aimed, jobDir, before, delta, target
<1>4. LowIsCounted'
  BY <1>1 DEF LowIsCounted, measured
<1>5. QED
  BY <1>2, <1>3, <1>4 DEF AimInv

LEMMA ReceiveKeepsAim ==
    ASSUME IInv, AimInv, NoPacket \/ ReceiveMotion \/ ReceivePlain \/ ReceiveClear
    PROVE  AimInv'
<1>1. /\ UNCHANGED <<dir, ticks, distances, targets, history>>
      /\ pc = "read" /\ pc' \in {"dist", "measure", "clear"}
  BY DEF NoPacket, ReceiveMotion, ReceivePlain, ReceiveClear, Receive, Goto
<1>2. QED
  BY <1>1, UntouchedKeepsAim

LEMMA MeasureKeepsAim ==
    ASSUME IInv, IInv', AimInv, CountersBelowByte, Measure
    PROVE  AimInv'
<1>1. /\ cmd \in Motions /\ job' = cmd /\ moved' = 0 /\ cleared' = FALSE
      /\ pc' = "target"
      /\ low' = Low(measured(dirOf[cmd.command]))
      /\ UNCHANGED <<dir, ticks, forwardDist, reverseDist, newDist, targetTicks>>
  BY DEF Measure, IInv, Control, distances, targets
<1>2. /\ dirOf[cmd.command] \in Drives \cup Turns
      /\ watched(dirOf[cmd.command]) \in Counters
  BY <1>1, MotionFields, DirOfCommand, CounterNames
<1>3. jobDir' = dirOf[cmd.command]
  BY <1>1 DEF jobDir
<1>4. before' = ticks[watched(dirOf[cmd.command])]
  BY <1>1, <1>2, <1>3 DEF before, IInv, TypeOK
<1>5. low' = countOf(jobDir', before')
  <2>1. measured(dirOf[cmd.command]) \in Nat /\ measured(dirOf[cmd.command]) < Byte
    BY <1>2, MeasuredIsNat DEF CountersBelowByte, measured, IInv, Drives, Turns
  <2>2. low' = measured(dirOf[cmd.command])
    BY <1>1, <2>1, OneByte
  <2>3. QED
    BY <1>2, <1>3, <1>4, <2>2, MeasuredIsCounted DEF AimInv, IInv
<1>6. DistFollowsTicks'
  BY <1>1 DEF AimInv, DistFollowsTicks
<1>7. MovedIsCounted'
  BY <1>1, <1>2, <1>3 DEF MovedIsCounted, IInv, TypeOK
<1>8. Aimed' /\ LowIsCounted'
  BY <1>1, <1>5 DEF Aimed, LowIsCounted
<1>9. QED
  BY <1>6, <1>7, <1>8 DEF AimInv

LEMMA SetTargetKeepsAim ==
    ASSUME IInv, IInv', AimInv, CountersBelowByte, SetTarget
    PROVE  AimInv'
<1>1. /\ job \in Motions /\ job = cmd /\ ~cleared
      /\ pc = "target" /\ pc' = "drive"
      /\ low = countOf(jobDir, before)
      /\ UNCHANGED <<dir, ticks, forwardDist, reverseDist, job, moved, cleared>>
  BY DEF SetTarget, Goto, IInv, Control, AimInv, Aimed, distances, history
<1>2. jobDir' = jobDir /\ before' = before /\ delta' = delta
  BY <1>1 DEF jobDir, before, delta
<1>3. /\ jobDir \in Drives \cup Turns /\ before \in Nat /\ delta \in Nat
      /\ countOf(jobDir, before) \in Nat
  <2>1. before \in Nat
    BY <1>1, JobIsKnown DEF before, MovedIsCounted, AimInv, IInv
  <2>2. QED
    BY <1>1, <2>1, JobIsKnown, CountOfIsNat DEF IInv
<1>4. targetBase(jobDir) = countOf(jobDir, before)
  <2>1. measured(jobDir) \in Nat /\ measured(jobDir) < Byte
    BY <1>3, MeasuredIsNat, CounterNames DEF CountersBelowByte, measured, IInv, Drives, Turns
  <2>2. Rest(measured(jobDir)) = 0
    BY <2>1, OneByte
  <2>3. QED
    BY <1>1, <1>3, <2>2 DEF targetBase
<1>5. target' = targetBase(jobDir) + delta'
  <2>1. CASE cmd.command \in DriveCommands
    BY <1>1, <2>1 DEF SetTarget, target, delta, jobDir, DriveCommands, TurnCommands
  <2>2. CASE cmd.command \in TurnCommands
    BY <1>1, <2>2 DEF SetTarget, target, delta, jobDir, DriveCommands, TurnCommands
  <2>3. QED
    BY <1>1, <2>1, <2>2, MotionFields
<1>6. DistFollowsTicks' /\ MovedIsCounted'
  BY <1>1 DEF AimInv, DistFollowsTicks, MovedIsCounted, jobDir
<1>7. Aimed' /\ LowIsCounted'
  BY <1>1, <1>2, <1>3, <1>4, <1>5 DEF Aimed, LowIsCounted
<1>8. QED
  BY <1>6, <1>7 DEF AimInv

LEMMA DriveKeepsAim == ASSUME IInv, AimInv, Drive PROVE AimInv'
<1>1. /\ pc = "drive" /\ pc' = "dist"
      /\ UNCHANGED <<ticks, forwardDist, reverseDist, newDist, targetTicks, job, moved, cleared>>
  BY DEF Drive, Goto, distances, targets, history
<1>2. DistFollowsTicks' /\ MovedIsCounted'
  BY <1>1 DEF AimInv, DistFollowsTicks, MovedIsCounted, jobDir
<1>3. Aimed' /\ LowIsCounted'
  BY <1>1 DEF AimInv, Aimed, LowIsCounted, jobDir, before, delta, target
<1>4. QED
  BY <1>2, <1>3 DEF AimInv

LEMMA WriteKeepsAim == ASSUME IInv, AimInv, analogWrite PROVE AimInv'
<1>1. /\ UNCHANGED <<dir, ticks, distances, targets, history>> /\ pc' = pc /\ low' = low
      /\ written < 4
  BY WriteOrder DEF analogWrite, control, IInv, TypeOK
<1>2. pc \notin {"target", "drive"}
  BY <1>1 DEF IInv, Control
<1>3. pc \in {"distRest", "turnRest"} => low <= measured(dir)
  BY DEF AimInv, LowIsCounted
<1>4. QED
  BY <1>1, <1>2, <1>3, UntouchedKeepsAim

LEMMA ClearKeepsAim == ASSUME IInv, AimInv, ClearCounters PROVE AimInv'
<1>1. /\ pc = "clear" /\ pc' = "dist" /\ cleared' = TRUE
      /\ ticks' = [k \in Counters |-> 0] /\ forwardDist' = 0 /\ reverseDist' = 0
      /\ UNCHANGED <<dir, newDist, targetTicks, job, moved>>
  BY DEF ClearCounters, Goto, targets
<1>2. cmOf(0) = 0
  BY Constants DEF cmOf
<1>3. DistFollowsTicks'
  BY <1>1, <1>2 DEF DistFollowsTicks, Counters
<1>4. MovedIsCounted'
  BY <1>1, JobIsKnown DEF MovedIsCounted, jobDir, IInv
<1>5. Aimed' /\ LowIsCounted'
  BY <1>1 DEF AimInv, Aimed, LowIsCounted, jobDir, delta, target
<1>6. QED
  BY <1>3, <1>4, <1>5 DEF AimInv

\* The checks start to read a counter, go on, or stop() Alex.
LEMMA CheckKeepsAim ==
    ASSUME IInv, AimInv,
           CheckDistance \/ CompareDistance \/ CheckTurn \/ CompareTurn
    PROVE  AimInv'
<1>1. /\ pc \notin {"target", "drive"} /\ pc' \notin {"target", "drive"}
      /\ UNCHANGED <<ticks, distances, history>>
  BY DEF CheckDistance, CompareDistance, CheckTurn, CompareTurn, Goto
<1>2. \/ UNCHANGED <<dir, targets>>
      \/ dir' = "STOP" /\ pc' \in {"turn", "read"}
  BY DEF CheckDistance, CompareDistance, CheckTurn, CompareTurn, stop, Goto
<1>3. pc' \in {"distRest", "turnRest"} => low' <= measured(dir)
  <2>1. SUFFICES ASSUME pc' \in {"distRest", "turnRest"} PROVE low' <= measured(dir)
    OBVIOUS
  <2>2. dir \in Drives \cup Turns /\ low' = Low(measured(dir))
    BY <2>1 DEF CheckDistance, CompareDistance, CheckTurn, CompareTurn, Goto
  <2>3. measured(dir) \in Nat
    BY <2>2, MeasuredIsNat DEF IInv
  <2>4. QED
    BY <2>2, <2>3, LowAndRest DEF Rest
<1>4. CASE UNCHANGED <<dir, targets>>
  BY <1>1, <1>3, <1>4, UntouchedKeepsAim
<1>5. CASE dir' = "STOP" /\ pc' \in {"turn", "read"}
  <2>1. DistFollowsTicks' /\ MovedIsCounted'
    BY <1>1 DEF AimInv, DistFollowsTicks, MovedIsCounted, jobDir, distances, history
  <2>2. Aimed' /\ LowIsCounted'
    BY <1>5 DEF Aimed, LowIsCounted
  <2>3. QED
    BY <2>1, <2>2 DEF AimInv
<1>6. QED
  BY <1>2, <1>4, <1>5

LEMMA NextKeepsAim ==
    IInv /\ IInv' /\ AimInv /\ CountersBelowByte /\ [Next]_vars => AimInv'
<1>1. SUFFICES ASSUME IInv, IInv', AimInv, CountersBelowByte, [Next]_vars
      PROVE  AimInv'
  OBVIOUS
<1>2. CASE UNCHANGED vars
  <2>1. UNCHANGED <<pc, cmd, low, dir, ticks, forwardDist, reverseDist, newDist,
                    targetTicks, job, moved, cleared>>
    BY <1>2 DEF vars, control, distances, targets, history
  <2>2. DistFollowsTicks' /\ MovedIsCounted'
    BY <1>1, <2>1 DEF AimInv, DistFollowsTicks, MovedIsCounted, jobDir
  <2>3. Aimed' /\ LowIsCounted'
    BY <1>1, <2>1 DEF AimInv, Aimed, LowIsCounted, jobDir, before, delta, target, measured
  <2>4. QED
    BY <2>2, <2>3 DEF AimInv
<1>3. CASE Next
  BY <1>1, <1>3, TickKeepsAim, ReceiveKeepsAim, MeasureKeepsAim, SetTargetKeepsAim,
     DriveKeepsAim, WriteKeepsAim, ClearKeepsAim, CheckKeepsAim DEF Next, Loop, Statement
<1>4. QED
  BY <1>1, <1>2, <1>3

-----------------------------------------------------------------------------
\* While the counters stay below one byte, the target of every motion is the
\* commanded distance or angle from where the motion started.
THEOREM TargetsAreCommanded == Spec /\ []CountersBelowByte => []TargetIsCommanded
<1>1. IInv /\ AimInv => TargetIsCommanded
  <2>1. SUFFICES ASSUME IInv, AimInv, pc \notin {"target", "drive"}, dir # "STOP", ~cleared
        PROVE  LET was == ticks[watched(dir)] - moved
                   turn == deltaTicksOf(job.command, job.arg)
               IN IF dir \in Drives
                  THEN newDist = cmOf(was) + (IF job.arg = 0 THEN Indefinite ELSE job.arg)
                  ELSE targetTicks = was + turn
    BY DEF TargetIsCommanded
  <2>2. job \in Motions /\ dir = jobDir /\ target = countOf(jobDir, before) + delta
    BY <2>1 DEF IInv, Control, AimInv, Aimed, jobDir
  <2>3. /\ jobDir \in Drives <=> job.command \in DriveCommands
        /\ job.arg \in Nat
    BY <2>1, <2>2, JobIsKnown, MotionFields DEF IInv
  <2>4. QED
    BY <2>2, <2>3 DEF countOf, before, delta, target, deltaDistOf
<1>2. QED
  BY InitIInv, NextKeepsIInv, InitAim, NextKeepsAim, <1>1, PTL DEF Spec

\* While the counters stay below one byte, no motion is stopped before Alex
\* has covered what was commanded, clearing of the counters or not.
THEOREM NeverStopsEarly == Spec /\ []CountersBelowByte => StopsNotEarly
<1>1. ASSUME IInv, AimInv, CountersBelowByte, [Next]_vars, dir # "STOP", dir' = "STOP"
      PROVE  Covered
  <2>1. /\ job \in Motions /\ dir = jobDir
        /\ pc \in {"distRest", "turnRest"}
        /\ low + Rest(measured(dir)) >= target
    <3>1. \/ CompareDistance /\ low + Rest(measured(dir)) >= newDist
          \/ CompareTurn /\ low + Rest(measured(dir)) >= targetTicks
      <4>1. CASE leftISR \/ rightISR
        BY <1>1, <4>1 DEF leftISR, rightISR
      <4>2. CASE NoPacket \/ ReceiveMotion \/ ReceivePlain \/ ReceiveClear
        BY <1>1, <4>2 DEF NoPacket, ReceiveMotion, ReceivePlain, ReceiveClear, Receive
      <4>3. CASE Measure \/ SetTarget \/ ClearCounters
        BY <1>1, <4>3 DEF Measure, SetTarget, ClearCounters
      <4>4. CASE Drive
        BY <1>1, <4>4, MotionFields, DirOfCommand
           DEF Drive, IInv, Control, Drives, Turns
      <4>5. CASE CheckDistance \/ CheckTurn
        BY <1>1, <4>5 DEF CheckDistance, CheckTurn
      <4>6. CASE CompareDistance
        BY <1>1, <4>6 DEF CompareDistance
      <4>7. CASE CompareTurn
        BY <1>1, <4>7 DEF CompareTurn
      <4>8. CASE UNCHANGED vars \/ analogWrite
        BY <1>1, <4>8 DEF vars, analogWrite
      <4>9. QED
        BY <1>1, <4>1, <4>2, <4>3, <4>4, <4>5, <4>6, <4>7, <4>8 DEF Next, Loop, Statement
    <3>2. pc \in {"distRest", "turnRest"} /\ job \in Motions /\ dir = jobDir
      BY <1>1, <3>1 DEF CompareDistance, CompareTurn, IInv, Control, jobDir
    <3>3. jobDir \in Drives <=> job.command \in DriveCommands
      BY <1>1, <3>2, JobIsKnown DEF IInv
    <3>4. CASE CompareDistance /\ low + Rest(measured(dir)) >= newDist
      BY <1>1, <3>2, <3>3, <3>4 DEF CompareDistance, IInv, Control, target
    <3>5. CASE CompareTurn /\ low + Rest(measured(dir)) >= targetTicks
      BY <1>1, <3>2, <3>3, <3>5 DEF CompareTurn, IInv, Control, target, Drives, Turns
    <3>6. QED
      BY <3>1, <3>2, <3>4, <3>5
  <2>2. /\ dir \in Drives \cup Turns
        /\ ticks[watched(dir)] \in Nat /\ moved \in Nat
        /\ delta \in Nat /\ target \in Nat
        /\ dir \in Drives <=> job.command \in DriveCommands
        /\ watched(dir) \in Counters
    BY <1>1, <2>1, JobIsKnown DEF IInv
  <2>3. countOf(dir, ticks[watched(dir)]) >= target
    <3>1. measured(dir) = countOf(dir, ticks[watched(dir)])
      BY <1>1, <2>2, MeasuredIsCounted DEF IInv, AimInv
    <3>2. measured(dir) \in Nat /\ measured(dir) < Byte
      BY <1>1, <2>2, MeasuredIsNat DEF CountersBelowByte, measured, IInv, Drives, Turns
    <3>3. Rest(measured(dir)) = 0 /\ low <= measured(dir) /\ low \in Nat
      BY <1>1, <2>1, <3>2, OneByte DEF AimInv, LowIsCounted, IInv, TypeOK
    <3>4. QED
      BY <2>1, <2>2, <3>1, <3>2, <3>3
  <2>4. target >= delta /\ (~cleared => target = countOf(dir, before) + delta)
    BY <1>1, <2>1 DEF AimInv, Aimed
  <2>5. IF cleared THEN ticks[watched(dir)] <= moved
        ELSE before \in Nat /\ ticks[watched(dir)] = before + moved
    BY <1>1, <2>1, <2>2 DEF AimInv, MovedIsCounted, before
  <2>6. CASE dir \in Turns
    <3>1. job.command \notin DriveCommands /\ dir \notin Drives
      BY <2>2, <2>6 DEF Drives, Turns
    <3>2. moved >= delta
      BY <2>2, <2>3, <2>4, <2>5, <3>1 DEF countOf
    <3>3. QED
      BY <3>1, <3>2 DEF Covered, delta
  <2>7. CASE dir \in Drives
    <3>1. job.command \in DriveCommands /\ job.arg \in Nat
      BY <2>1, <2>2, <2>7, MotionFields
    <3>2. delta = (IF job.arg = 0 THEN Indefinite ELSE job.arg)
      BY <3>1 DEF delta, deltaDistOf
    <3>3. moved * WHEEL_CIRC > (delta - 1) * COUNTS_PER_REV
      <4>1. CASE ~cleared
        BY <2>2, <2>3, <2>4, <2>5, <2>7, <4>1, CentimetresTakeTicks DEF countOf
      <4>2. CASE cleared
        <5>1. cmOf(moved) >= cmOf(ticks[watched(dir)])
          BY <2>2, <2>5, <4>2, CmOfIsMonotone
        <5>2. cmOf(0) = 0 /\ cmOf(moved) \in Nat /\ cmOf(ticks[watched(dir)]) \in Nat
          BY <2>2, Constants, CmOfIsNat DEF cmOf
        <5>3. cmOf(0 + moved) >= cmOf(0) + delta
          BY <2>2, <2>3, <2>4, <2>7, <5>1, <5>2 DEF countOf
        <5>4. QED
          BY <2>2, <5>3, CentimetresTakeTicks
      <4>3. QED
        BY <4>1, <4>2
    <3>4. QED
      BY <3>1, <3>2, <3>3 DEF Covered
  <2>8. QED
    BY <2>2, <2>6, <2>7
<1>2. IInv /\ AimInv /\ CountersBelowByte /\ [Next]_vars
         => [dir # "STOP" /\ dir' = "STOP" => Covered]_vars
  BY <1>1
<1>3. QED
  BY InitIInv, NextKeepsIInv, InitAim, NextKeepsAim, <1>2, PTL DEF Spec, StopsNotEarly
=============================================================================
