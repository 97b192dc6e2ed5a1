---------------------------- MODULE PacketStream ----------------------------
(***************************************************************************)
(* What the receiver of a serial line promises.  The bytes of the line are *)
(* named by their positions 1, 2, 3, ...; the receiver is handed the next  *)
(* few of them at a time and cuts the stream into packets of P bytes: as   *)
(* soon as the last byte of a packet has come in, the call that brought it *)
(* hands over exactly that packet.  No byte is skipped, repeated or moved. *)
(***************************************************************************)
EXTENDS Integers

CONSTANTS P,         \* PACKET_SIZE, the bytes of one packet
          ReadMax    \* the most bytes one call is handed

VARIABLES fed,       \* bytes handed to the receiver so far
          base,      \* bytes handed over in packets so far
          packet     \* what the last call handed over

\* The answer of a call that completes no packet.
NoPacket == [i \in 1 .. P |-> 0]

\* The packet that starts right after the first b bytes of the stream.
PacketAt(b) == [i \in 1 .. P |-> b + i]

Init == fed = 0 /\ base = 0 /\ packet = NoPacket

\* The bytes of a call do not reach the end of the current packet.
Absorb(len) ==
    /\ fed + len - base < P
    /\ fed' = fed + len
    /\ packet' = NoPacket
    /\ UNCHANGED base

\* They do: the packet is handed over at once.
Deliver(len) ==
    /\ fed + len - base >= P
    /\ fed' = fed + len
    /\ packet' = PacketAt(base)
    /\ base' = base + P

Next == \E len \in 1 .. ReadMax : Absorb(len) \/ Deliver(len)

vars == <<fed, base, packet>>

Spec == Init /\ [][Next]_vars
=============================================================================
