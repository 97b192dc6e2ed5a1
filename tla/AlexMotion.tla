----------------------------- MODULE AlexMotion -----------------------------
(***************************************************************************)
(* The motion control of the Arduino (Alex.ino): the main loop that takes  *)
(* a command, sets a target and checks it, and the two wheel encoder       *)
(* interrupts that count ticks between any two of its steps.               *)
(*                                                                         *)
(* The counters are 32-bit variables on an 8-bit machine, so the loop reads*)
(* one byte by byte, and an interrupt may fall between two of them.  The   *)
(* model reads the low byte in one step and the rest in the next.          *)
(*                                                                         *)
(* Motor speed is abstracted to whether the wheel is driven.  The history  *)
(* variables job, moved and cleared only say what was asked of the robot   *)
(* and what it did since; no action of the code reads them.                *)
(***************************************************************************)
EXTENDS Integers, Sequences

CONSTANTS COUNTS_PER_REV, WHEEL_CIRC,
          TurnRate,     \* AlexCirc * COUNTS_PER_REV / (360 * WHEEL_CIRC), in thousandths
          Indefinite,   \* the 9999999 cm or 99999999 ticks of an argument 0
          Byte,         \* values of one byte of a counter
          Distances,    \* arguments of COMMAND_FORWARD and COMMAND_REVERSE
          Angles,       \* arguments of COMMAND_TURN_LEFT and COMMAND_TURN_RIGHT
          Powers,       \* whether a command's power drives the motors
          MaxCommands,  \* bound: commands received
          MaxMoved,     \* bound: ticks of the watched wheel in one motion
          MaxOther      \* bound: the counters that are not watched

ASSUME AlexMotionAssumption ==
    /\ COUNTS_PER_REV \in Nat \ {0}
    /\ WHEEL_CIRC \in Nat \ {0}
    /\ TurnRate \in Nat
    /\ Indefinite \in Nat \ {0}
    /\ Byte \in Nat \ {0}
    /\ Distances \subseteq Nat
    /\ Angles \subseteq Nat
    /\ Powers \subseteq BOOLEAN
    /\ MaxCommands \in Nat
    /\ MaxMoved \in Nat
    /\ MaxOther \in Nat

VARIABLES pc,           \* where the main loop is
          cmd,          \* recvPacket, the command being handled
          low,          \* the low byte of the counter being read
          dir,
          pins,         \* the motor pins that are driven
          written,      \* how many of the four pins are written since dir was set
          ticks,        \* the eight tick counters
          forwardDist, reverseDist,
          deltaDist, newDist,
          deltaTicks, targetTicks,
          received,     \* commands received so far
          job,          \* the last motion command carried out
          moved,        \* ticks of its watched wheel since its target was set
          cleared       \* the counters were cleared since then

control == <<pc, cmd, low, received>>
distances == <<forwardDist, reverseDist>>
targets == <<deltaDist, newDist, deltaTicks, targetTicks>>
history == <<job, moved, cleared>>
vars == <<control, dir, pins, written, ticks, distances, targets, history>>

-----------------------------------------------------------------------------
Directions == {"STOP", "FORWARD", "BACKWARD", "LEFT", "RIGHT"}
Drives == {"FORWARD", "BACKWARD"}
Turns == {"LEFT", "RIGHT"}

Pins == {"LF", "LR", "RF", "RR"}

Counters == {"leftForwardTicks", "rightForwardTicks",
             "leftReverseTicks", "rightReverseTicks",
             "leftForwardTicksTurns", "rightForwardTicksTurns",
             "leftReverseTicksTurns", "rightReverseTicksTurns"}

DriveCommands == {"COMMAND_FORWARD", "COMMAND_REVERSE"}
TurnCommands == {"COMMAND_TURN_LEFT", "COMMAND_TURN_RIGHT"}

\* The commands the Pi sends; a motion command has an argument and a power.
Motions == [command : DriveCommands, arg : Distances, power : Powers]
               \cup [command : TurnCommands, arg : Angles, power : Powers]
Plain == {"COMMAND_STOP", "COMMAND_GET_STATS"}
Nothing == [command |-> "none", arg |-> 0, power |-> FALSE]

\* forward() drives BACKWARD and reverse() FORWARD, left() turns RIGHT and
\* right() turns LEFT: the motors are mounted the other way round.
dirOf == [c \in DriveCommands \cup TurnCommands |->
            CASE c = "COMMAND_FORWARD" -> "BACKWARD"
              [] c = "COMMAND_REVERSE" -> "FORWARD"
              [] c = "COMMAND_TURN_LEFT" -> "RIGHT"
              [] c = "COMMAND_TURN_RIGHT" -> "LEFT"]

\* The pins a direction drives with a power that is not 0.
pinsOf == [d \in Directions |->
            CASE d = "FORWARD" -> {"LF", "RF"}
              [] d = "BACKWARD" -> {"LR", "RR"}
              [] d = "LEFT" -> {"LR", "RF"}
              [] d = "RIGHT" -> {"RR", "LF"}
              [] d = "STOP" -> {}]

\* The order in which a direction writes them.
writeOrder == [d \in Directions |->
            CASE d = "FORWARD" -> <<"LF", "RF", "LR", "RR">>
              [] d = "BACKWARD" -> <<"LR", "RR", "LF", "RF">>
              [] d = "LEFT" -> <<"LR", "RF", "LF", "RR">>
              [] d = "RIGHT" -> <<"RR", "LF", "LR", "RF">>
              [] d = "STOP" -> <<"LF", "LR", "RF", "RR">>]

\* Mutant: a branch of leftISR() pasted from the one before.
leftCounterPasted == [d \in Drives \cup Turns |->
            CASE d = "FORWARD" -> "leftForwardTicks"
              [] d = "BACKWARD" -> "leftForwardTicks"
              [] d = "LEFT" -> "leftReverseTicksTurns"
              [] d = "RIGHT" -> "leftForwardTicksTurns"]

\* The counter that leftISR() increments in a direction, and rightISR()'s.
leftCounter == [d \in Drives \cup Turns |->
            CASE d = "FORWARD" -> "leftForwardTicks"
              [] d = "BACKWARD" -> "leftReverseTicks"
              [] d = "LEFT" -> "leftReverseTicksTurns"
              [] d = "RIGHT" -> "leftForwardTicksTurns"]

rightCounter == [d \in Drives \cup Turns |->
            CASE d = "FORWARD" -> "rightForwardTicks"
              [] d = "BACKWARD" -> "rightReverseTicks"
              [] d = "RIGHT" -> "rightReverseTicksTurns"
              [] d = "LEFT" -> "rightForwardTicksTurns"]

\* The counter whose ticks end a motion in a direction.
watched(d) == IF d = "RIGHT" THEN rightCounter[d] ELSE leftCounter[d]

\* Mutant: the -5 that leftISR() stores first is added to the distance.
cmOfOffset(t) == (t * WHEEL_CIRC) \div COUNTS_PER_REV - 5

\* Centimetres for a number of ticks; the conversion to unsigned long drops
\* the fraction.
cmOf(t) == (t * WHEEL_CIRC) \div COUNTS_PER_REV

\* Ticks for an angle.  right() first divides it by 4.5 and left() by 3.6.
computeDeltaTicks(c, ang) ==
    IF c = "COMMAND_TURN_RIGHT"
    THEN (ang * 10 * TurnRate) \div 45000
    ELSE (ang * 10 * TurnRate) \div 36000

Low(n) == n % Byte
Rest(n) == n - Low(n)

\* What the loop compares with the target, and what a new target is set from.
measured(d) ==
    CASE d = "FORWARD" -> forwardDist
      [] d = "BACKWARD" -> reverseDist
      [] d \in Turns -> ticks[watched(d)]

-----------------------------------------------------------------------------
\* setup(): initializeState() and the zeroed globals.
Init ==
    /\ pc = "read" /\ cmd = Nothing /\ low = 0 /\ received = 0
    /\ dir = "STOP" /\ pins = {} /\ written = Len(writeOrder[dir])
    /\ ticks = [k \in Counters |-> 0]
    /\ forwardDist = 0 /\ reverseDist = 0
    /\ deltaDist = 0 /\ newDist = 0
    /\ deltaTicks = 0 /\ targetTicks = 0
    /\ job = Nothing /\ moved = 0 /\ cleared = FALSE

Goto(label) == pc' = label /\ UNCHANGED <<cmd, low, received>>

\* An encoder tick of the wheel whose counter is k, within the bounds.
Count(k) ==
    /\ IF job # Nothing /\ k = watched(dirOf[job.command])
       THEN moved < MaxMoved /\ moved' = moved + 1
       ELSE ticks[k] < MaxOther /\ UNCHANGED moved
    /\ ticks' = [ticks EXCEPT ![k] = @ + 1]

\* INT0: leftISR().  It runs to its end, so that the -5 it puts in forwardDist
\* for a moment is never seen by the loop.
leftISR ==
    /\ dir # "STOP"
    /\ Count(leftCounter[dir])
    /\ forwardDist' = IF dir = "FORWARD" THEN cmOf(ticks'["leftForwardTicks"])
                                         ELSE forwardDist
    /\ reverseDist' = IF dir = "BACKWARD" THEN cmOf(ticks'["leftReverseTicks"])
                                          ELSE reverseDist
    /\ UNCHANGED <<control, dir, pins, written, targets, job, cleared>>

\* INT1: rightISR().
rightISR ==
    /\ dir # "STOP"
    /\ Count(rightCounter[dir])
    /\ UNCHANGED <<control, dir, pins, written, distances, targets, job, cleared>>

-----------------------------------------------------------------------------
\* loop(): readPacket() has no complete packet, or one that only gets an answer
\* (a bad one, an unknown command) or none at all (a HELLO).
NoPacket ==
    /\ pc = "read"
    /\ Goto("dist")
    /\ UNCHANGED <<dir, pins, written, ticks, distances, targets, history>>

Receive(c, next) ==
    /\ pc = "read"
    /\ received < MaxCommands
    /\ received' = received + 1
    /\ cmd' = c
    /\ pc' = next
    /\ UNCHANGED <<low, dir, pins, written, ticks, distances, targets, history>>

\* handlePacket(): a motion command is answered, then carried out.
ReceiveMotion == \E c \in Motions : Receive(c, "measure")

\* handleCommand(): COMMAND_STOP is answered and nothing more is done about
\* it; so is COMMAND_GET_STATS.
ReceivePlain == \E c \in Plain : Receive([Nothing EXCEPT !.command = c], "dist")

ReceiveClear == Receive([Nothing EXCEPT !.command = "COMMAND_CLEAR_STATS"], "clear")

\* The first byte of the counter that the new target is added to.  This is
\* where the motion is measured from.
Measure ==
    /\ pc = "measure"
    /\ low' = Low(measured(dirOf[cmd.command]))
    /\ pc' = "target"
    /\ job' = cmd /\ moved' = 0 /\ cleared' = FALSE
    /\ UNCHANGED <<cmd, received, dir, pins, written, ticks, distances, targets>>

deltaDistOf(dist) == IF dist > 0 THEN dist ELSE Indefinite

deltaTicksOf(c, ang) == IF ang = 0 THEN Indefinite ELSE computeDeltaTicks(c, ang)

\* Mutant: the target is not added to what was counted before.
BaseForgotten(d) == 0

\* The count that a new target is added to.
targetBase(d) == low + Rest(measured(d))

\* The rest of it, and the new target.
SetTarget ==
    /\ pc = "target"
    /\ \/ /\ cmd.command \in DriveCommands
          /\ deltaDist' = deltaDistOf(cmd.arg)
          /\ newDist' = targetBase(dirOf[cmd.command]) + deltaDist'
          /\ UNCHANGED <<deltaTicks, targetTicks>>
       \/ /\ cmd.command \in TurnCommands
          /\ deltaTicks' = deltaTicksOf(cmd.command, cmd.arg)
          /\ targetTicks' = targetBase(dirOf[cmd.command]) + deltaTicks'
          /\ UNCHANGED <<deltaDist, newDist>>
    /\ Goto("drive")
    /\ UNCHANGED <<dir, pins, written, ticks, distances, history>>

\* The direction; the motor pins follow one by one.
Drive ==
    /\ pc = "drive"
    /\ dir' = dirOf[cmd.command] /\ written' = 0
    /\ Goto("dist")
    /\ UNCHANGED <<pins, ticks, distances, targets, history>>

\* The next motor pin, in the function that has set dir: driven or not.
analogWrite ==
    /\ written < Len(writeOrder[dir])
    /\ written' = written + 1
    /\ LET pin == writeOrder[dir][written']
       IN pins' = IF cmd.power /\ pin \in pinsOf[dir] THEN pins \cup {pin}
                                                      ELSE pins \ {pin}
    /\ UNCHANGED <<control, dir, ticks, distances, targets, history>>

\* clearCounters().  It zeroes a distance after the ticks it is computed from;
\* as an interrupt between the two counts one tick, far less than a centimetre,
\* nobody can tell that from one step.
ClearCounters ==
    /\ pc = "clear"
    /\ ticks' = [k \in Counters |-> 0]
    /\ forwardDist' = 0 /\ reverseDist' = 0
    /\ cleared' = TRUE
    /\ Goto("dist")
    /\ UNCHANGED <<dir, pins, written, targets, job, moved>>

\* stop() sets dir first; the motors are switched off by what follows.
stop == dir' = "STOP" /\ written' = 0 /\ UNCHANGED pins

EndDrive == deltaDist' = 0 /\ newDist' = 0 /\ UNCHANGED <<deltaTicks, targetTicks>>
EndTurn == deltaTicks' = 0 /\ targetTicks' = 0 /\ UNCHANGED <<deltaDist, newDist>>

\* loop(): the check of the distance.  Its first step reads dir and the low
\* byte of the distance.
CheckDistance ==
    /\ pc = "dist"
    /\ \/ /\ deltaDist > 0 /\ dir \in Drives
          /\ low' = Low(measured(dir))
          /\ pc' = "distRest"
          /\ UNCHANGED <<cmd, received, dir, pins, written, targets>>
       \/ /\ deltaDist > 0 /\ dir = "STOP"
          /\ EndDrive /\ stop
          /\ Goto("turn")
       \/ /\ deltaDist = 0 \/ dir \in Turns
          /\ Goto("turn")
          /\ UNCHANGED <<dir, pins, written, targets>>
    /\ UNCHANGED <<ticks, distances, history>>

CompareDistance ==
    /\ pc = "distRest"
    /\ IF low + Rest(measured(dir)) >= newDist
       THEN EndDrive /\ stop
       ELSE UNCHANGED <<dir, pins, written, targets>>
    /\ Goto("turn")
    /\ UNCHANGED <<ticks, distances, history>>

\* loop(): the check of the turn, and back to its top.
CheckTurn ==
    /\ pc = "turn"
    /\ \/ /\ deltaTicks > 0 /\ dir \in Turns
          /\ low' = Low(measured(dir))
          /\ pc' = "turnRest"
          /\ UNCHANGED <<cmd, received, dir, pins, written, targets>>
       \/ /\ deltaTicks > 0 /\ dir = "STOP"
          /\ EndTurn /\ stop
          /\ Goto("read")
       \/ /\ deltaTicks = 0 \/ dir \in Drives
          /\ Goto("read")
          /\ UNCHANGED <<dir, pins, written, targets>>
    /\ UNCHANGED <<ticks, distances, history>>

\* Mutant: the turn is compared with the other check's target.
CompareTurnWithDistance ==
    /\ pc = "turnRest"
    /\ IF low + Rest(measured(dir)) >= newDist
       THEN EndTurn /\ stop
       ELSE UNCHANGED <<dir, pins, written, targets>>
    /\ Goto("read")
    /\ UNCHANGED <<ticks, distances, history>>

CompareTurn ==
    /\ pc = "turnRest"
    /\ IF low + Rest(measured(dir)) >= targetTicks
       THEN EndTurn /\ stop
       ELSE UNCHANGED <<dir, pins, written, targets>>
    /\ Goto("read")
    /\ UNCHANGED <<ticks, distances, history>>

-----------------------------------------------------------------------------
\* What the loop does between the calls that write the pins.
Statement ==
    \/ NoPacket \/ ReceiveMotion \/ ReceivePlain \/ ReceiveClear
    \/ Measure \/ SetTarget \/ Drive
    \/ ClearCounters
    \/ CheckDistance \/ CompareDistance \/ CheckTurn \/ CompareTurn

Loop == analogWrite \/ (written = Len(writeOrder[dir]) /\ Statement)

Next == Loop \/ leftISR \/ rightISR

Spec == Init /\ [][Next]_vars

\* The processor keeps running the loop, and a driven wheel keeps turning.
Fairness ==
    /\ WF_vars(Loop)
    /\ WF_vars(pins # {} /\ leftISR)
    /\ WF_vars(pins # {} /\ rightISR)

FairSpec == Spec /\ Fairness
-----------------------------------------------------------------------------
TypeOK ==
    /\ pc \in {"read", "measure", "target", "drive", "clear",
               "dist", "distRest", "turn", "turnRest"}
    /\ cmd \in Motions \cup [command : {"none"} \cup Plain \cup {"COMMAND_CLEAR_STATS"},
                             arg : {0}, power : {FALSE}]
    /\ job \in Motions \cup {Nothing}
    /\ low \in Nat /\ received \in 0 .. MaxCommands
    /\ dir \in Directions /\ pins \in SUBSET Pins /\ written \in 0 .. 4
    /\ ticks \in [Counters -> Nat]
    /\ forwardDist \in Nat /\ reverseDist \in Nat
    /\ deltaDist \in Nat /\ newDist \in Nat
    /\ deltaTicks \in Nat /\ targetTicks \in Nat
    /\ moved \in 0 .. MaxMoved
    /\ cleared \in BOOLEAN

\* The motors turn as dir says, which is what the encoder interrupts count by, as far
\* as the pins are written since dir was set: none of them when Alex has stopped, and
\* otherwise the pins of dir if the motion in progress has a power.  Once all are
\* written no wheel is driven both ways; until then a pin may still be driven for the
\* direction before, and the interrupts then count a tick of that for the new one.
MotorsFollowDir ==
    \E driven \in {{}, pinsOf[dir]} :
        /\ \A i \in 1 .. written : writeOrder[dir][i] \in pins <=> writeOrder[dir][i] \in driven
        /\ written = 4 => pins = driven
        /\ dir # "STOP" /\ pc \notin {"target", "drive"}
                => driven = IF job.power THEN pinsOf[dir] ELSE {}

\* Whatever was commanded in between (turns during drives, drives during
\* turns, a second drive the other way, statistics), a loop that runs while
\* Alex drives straight will check the distance: deltaDist, which the checks of
\* an earlier motion clear, is set.
DriveIsWatched == dir \in Drives => deltaDist > 0 /\ newDist > 0

\* The target is the commanded distance or angle beyond where the counter was
\* when the command was carried out, however many ticks fell between the steps
\* that set it, unless the counters were cleared during the motion.
TargetIsCommanded ==
    (pc \notin {"target", "drive"} /\ dir # "STOP" /\ ~cleared) =>
        LET was == ticks[watched(dir)] - moved
            turn == deltaTicksOf(job.command, job.arg)
        IN IF dir \in Drives
           THEN newDist = cmOf(was) + (IF job.arg = 0 THEN Indefinite ELSE job.arg)
           ELSE targetTicks = was + turn

\* Alex has covered at least what was commanded: a drive to within the
\* centimetre its distances are rounded to, a turn exactly.
Covered ==
    IF job.command \in DriveCommands
    THEN moved * WHEEL_CIRC
            > ((IF job.arg = 0 THEN Indefinite ELSE job.arg) - 1) * COUNTS_PER_REV
    ELSE moved >= deltaTicksOf(job.command, job.arg)

\* No step stops a motion before it has covered what was commanded, although
\* the target of an earlier motion may still be set and the counters may have
\* been cleared meanwhile.  It holds while the counters stay below Byte.
StopsNotEarly == [][dir # "STOP" /\ dir' = "STOP" => Covered]_vars

\* The motions that are to end: the motors are driven, and the loop checks a
\* target (a turn of a few degrees has none: its ticks round down to 0).
Ends(j) ==
    /\ j.power /\ j.arg > 0
    /\ j.command \in TurnCommands => computeDeltaTicks(j.command, j.arg) > 0

\* A motion that is to end ends by its check, unless another command replaces
\* it or clears the counters (which makes it longer).
MotionEnds ==
    (dir # "STOP" /\ Ends(job)) ~> (dir = "STOP" \/ ~Ends(job) \/ cleared)

-----------------------------------------------------------------------------
(* What a comment says, and the code does not do.                         *)

\* "Specifying an angle of 0 degrees will cause Alex to turn left
\* indefinitely": a turn by any other angle ends.
TurnEnds ==
    (dir \in Turns /\ job.power /\ job.arg > 0)
        ~> (dir = "STOP" \/ ~job.power \/ job.arg = 0 \/ cleared)
=============================================================================
