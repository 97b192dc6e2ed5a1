----------------------------- MODULE BoundedFifo -----------------------------
(***************************************************************************)
(* What the comments before writeBuffer() and readBuffer() promise to those*)
(* who share a buffer: a first-in first-out queue of at most "capacity"    *)
(* characters.  A write to a full queue and a read of an empty one are     *)
(* refused and change nothing; so is every call on a buffer that is not    *)
(* initialised, whose capacity is 0.                                       *)
(***************************************************************************)
EXTENDS Naturals, Sequences

CONSTANTS Actors,  \* who calls: the program and its interrupt handler
          Chars    \* the characters

VARIABLES capacity, queue,
          result,  \* what the last call of each actor returned
          value    \* the variable that each actor reads into

vars == <<capacity, queue, result, value>>

Init ==
    /\ capacity = 0 /\ queue = << >>
    /\ result = [a \in Actors |-> "BUFFER_INVALID"]
    /\ value \in [Actors -> Chars]

Open ==
    /\ capacity = 0
    /\ capacity' \in Nat \ {0} /\ queue' = << >>
    /\ UNCHANGED <<result, value>>

Close ==
    /\ capacity' = 0 /\ queue' = << >>
    /\ UNCHANGED <<result, value>>

Accepted(a, d) ==
    /\ Len(queue) < capacity
    /\ queue' = Append(queue, d) /\ result' = [result EXCEPT ![a] = "BUFFER_OK"]
    /\ UNCHANGED <<capacity, value>>

Taken(a) ==
    /\ queue # << >>
    /\ value' = [value EXCEPT ![a] = Head(queue)] /\ queue' = Tail(queue)
    /\ result' = [result EXCEPT ![a] = "BUFFER_OK"]
    /\ UNCHANGED capacity

\* A call that is refused, and why.
Refused(a) ==
    /\ \/ capacity = 0 /\ result' = [result EXCEPT ![a] = "BUFFER_INVALID"]
       \/ /\ capacity # 0 /\ Len(queue) = capacity
          /\ result' = [result EXCEPT ![a] = "BUFFER_FULL"]
       \/ /\ capacity # 0 /\ queue = << >>
          /\ result' = [result EXCEPT ![a] = "BUFFER_EMPTY"]
    /\ UNCHANGED <<capacity, queue, value>>

Next ==
    \/ Open \/ Close
    \/ \E a \in Actors : Taken(a) \/ Refused(a) \/ \E d \in Chars : Accepted(a, d)

Spec == Init /\ [][Next]_vars
=============================================================================
