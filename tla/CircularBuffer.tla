--------------------------- MODULE CircularBuffer ---------------------------
(***************************************************************************)
(* buffer.cpp: a ring of characters between a program and an interrupt     *)
(* handler at its other end (the bare-metal UART it was written for).  The *)
(* program's calls go statement by statement, with the handler in between  *)
(* wherever interrupts are enabled.  The handler's own call is one step:   *)
(* the processor clears the I flag on entry, and reti sets it again.       *)
(*                                                                         *)
(* enterAtomic() saves the status register in the TBuffer itself, which    *)
(* both ends use, and disables interrupts only after that.                 *)
(***************************************************************************)
EXTENDS Integers, Sequences

CONSTANTS Sizes,   \* the sizes that initBuffer() is called with
          Chars,   \* the characters
          Byte     \* values of a byte; count is read a byte at a time

ASSUME CircularBufferAssumption ==
    /\ Sizes \subseteq Nat /\ Chars # {} /\ Byte \in Nat \ {0, 1}

VARIABLES pc, call,            \* where the program is, and in which function
          handler,             \* the end the interrupt handler is at
          pending,             \* its interrupt is raised
          sreg,                \* the I flag: interrupts are enabled
          pointer,             \* buffer->buffer: NULL, allocated or freed
          buffer, front, back, size, count, csreg,   \* the rest of the TBuffer
          arg,                 \* the size initBuffer() is called with
          low,                 \* the low byte of count, read by dataAvailable()
          result, value,       \* what each one's last call returns
          caught,              \* history: a handler ran between save and cli
          promised             \* history: the last dataAvailable() said yes

program == <<pc, call, arg, low>>
ring == <<pointer, buffer, front, back, size, count>>
replies == <<result, value>>
history == <<caught, promised>>
vars == <<program, handler, pending, sreg, csreg, ring, replies, history>>

Actors == {"main", "isr"}

-----------------------------------------------------------------------------
invalid == pointer = "NULL" \/ size = 0

\* The TBuffer is a global variable, all zeros before initBuffer().
Init ==
    /\ pc = "idle" /\ call = "none" /\ arg = 0 /\ low = 0
    /\ handler \in {"write", "read"} /\ pending = FALSE /\ sreg = TRUE
    /\ pointer = "NULL" /\ buffer = << >> /\ front = 0 /\ back = 0
    /\ size = 0 /\ count = 0 /\ csreg = FALSE
    /\ result = [a \in Actors |-> "BUFFER_INVALID"] /\ value \in [Actors -> Chars]
    /\ caught = FALSE /\ promised = FALSE

Goto(next) == pc' = next /\ UNCHANGED <<call, arg, low>>

Return(a, r) == result' = [result EXCEPT ![a] = r]

-----------------------------------------------------------------------------
(* writeBuffer() and readBuffer() of the program.                          *)

Call ==
    /\ pc = "idle" /\ pc' = "save"
    /\ call' \in {"write", "read"}
    /\ promised' = (promised /\ call' # "read")
    /\ UNCHANGED <<arg, low, handler, pending, sreg, csreg, ring, replies, caught>>

\* enterAtomic(): the save,
Save ==
    /\ pc = "save" /\ Goto("disable")
    /\ csreg' = sreg
    /\ UNCHANGED <<handler, pending, sreg, ring, replies, history>>

\* Mutant: interrupts stay enabled.
DisableNothing ==
    /\ pc = "disable" /\ Goto("check")
    /\ UNCHANGED <<handler, pending, sreg, csreg, ring, replies, history>>

\* and the cli.
Disable ==
    /\ pc = "disable" /\ Goto("check")
    /\ sreg' = FALSE
    /\ UNCHANGED <<handler, pending, csreg, ring, replies, history>>

\* Mutant: a full buffer is left without exitAtomic().
CheckLeaves ==
    /\ pc = "check"
    /\ \/ invalid /\ Goto("restore") /\ Return("main", "BUFFER_INVALID")
       \/ /\ ~invalid /\ call = "write" /\ count >= size
          /\ Goto("idle") /\ Return("main", "BUFFER_FULL")
       \/ /\ ~invalid /\ call = "read" /\ count = 0
          /\ Goto("restore") /\ Return("main", "BUFFER_EMPTY")
       \/ ~invalid /\ call = "write" /\ count < size /\ Goto("store") /\ UNCHANGED result
       \/ ~invalid /\ call = "read" /\ count # 0 /\ Goto("take") /\ UNCHANGED result
    /\ UNCHANGED <<handler, pending, sreg, csreg, ring, value, history>>

\* The two conditions under which a call is refused.
Check ==
    /\ pc = "check"
    /\ \/ invalid /\ Goto("restore") /\ Return("main", "BUFFER_INVALID")
       \/ /\ ~invalid /\ call = "write" /\ count >= size
          /\ Goto("restore") /\ Return("main", "BUFFER_FULL")
       \/ /\ ~invalid /\ call = "read" /\ count = 0
          /\ Goto("restore") /\ Return("main", "BUFFER_EMPTY")
       \/ ~invalid /\ call = "write" /\ count < size /\ Goto("store") /\ UNCHANGED result
       \/ ~invalid /\ call = "read" /\ count # 0 /\ Goto("take") /\ UNCHANGED result
    /\ UNCHANGED <<handler, pending, sreg, csreg, ring, value, history>>

\* The character is an argument of the call; nothing depends on it before.
Store ==
    /\ pc = "store" /\ Goto("back")
    /\ \E d \in Chars : buffer' = [buffer EXCEPT ![back] = d]
    /\ UNCHANGED <<handler, pending, sreg, csreg, pointer, front, back, size, count,
                   replies, history>>

\* Mutant: the index wraps one too late.
BackPastEnd ==
    /\ pc = "back" /\ Goto("count")
    /\ back' = (back + 1) % (size + 1)
    /\ UNCHANGED <<handler, pending, sreg, csreg, pointer, buffer, front, size, count,
                   replies, history>>

Back ==
    /\ pc = "back" /\ Goto("count")
    /\ back' = (back + 1) % size
    /\ UNCHANGED <<handler, pending, sreg, csreg, pointer, buffer, front, size, count,
                   replies, history>>

CountUp ==
    /\ pc = "count" /\ Goto("restore")
    /\ count' = count + 1 /\ Return("main", "BUFFER_OK")
    /\ UNCHANGED <<handler, pending, sreg, csreg, pointer, buffer, front, back, size,
                   value, history>>

Take ==
    /\ pc = "take" /\ Goto("front")
    /\ value' = [value EXCEPT !["main"] = buffer[front]] /\ Return("main", "BUFFER_OK")
    /\ UNCHANGED <<handler, pending, sreg, csreg, ring, history>>

Front ==
    /\ pc = "front" /\ Goto("uncount")
    /\ front' = (front + 1) % size
    /\ UNCHANGED <<handler, pending, sreg, csreg, pointer, buffer, back, size, count,
                   replies, history>>

CountDown ==
    /\ pc = "uncount" /\ Goto("restore")
    /\ count' = count - 1
    /\ UNCHANGED <<handler, pending, sreg, csreg, pointer, buffer, front, back, size,
                   replies, history>>

\* exitAtomic().
Restore ==
    /\ pc = "restore" /\ Goto("idle")
    /\ sreg' = csreg
    /\ UNCHANGED <<handler, pending, csreg, ring, replies, history>>

-----------------------------------------------------------------------------
(* The functions that do not disable interrupts.                           *)

\* initBuffer(), of a buffer that is not in use: one that was never initialised
\* or has been freed.  The allocation may fail.  (After that, a second call that
\* no freeBuffer() precedes would find the first one's size with its memory.)
Allocate ==
    /\ pc = "idle" /\ pointer = "NULL" /\ size = 0
    /\ pc' = "reset" /\ arg' \in Sizes
    /\ \/ pointer' = "live" /\ \E c \in Chars : buffer' = [i \in 0 .. arg' - 1 |-> c]
       \/ UNCHANGED <<pointer, buffer>>
    /\ UNCHANGED <<call, low, handler, pending, sreg, csreg, front, back, size,
                   count, replies, history>>

Reset ==
    /\ pc = "reset" /\ Goto("size")
    /\ count' = 0 /\ front' = 0 /\ back' = 0
    /\ UNCHANGED <<handler, pending, sreg, csreg, pointer, buffer, size, replies, history>>

\* The size comes last: until then every other call is refused.
SetSize ==
    /\ pc = "size" /\ pc' = "idle"
    /\ size' = arg /\ arg' = 0
    /\ UNCHANGED <<call, low, handler, pending, sreg, csreg, pointer, buffer, front, back,
                   count, replies, history>>

\* freeBuffer(): free(),
Free ==
    /\ pc = "idle"
    /\ \/ pointer = "live" /\ pointer' = "freed" /\ pc' = "forget"
       \/ pointer = "NULL" /\ pc' = "clear" /\ UNCHANGED pointer
    /\ promised' = FALSE
    /\ UNCHANGED <<call, arg, low, handler, pending, sreg, csreg, buffer, front, back,
                   size, count, replies, caught>>

\* buffer = NULL,
Forget ==
    /\ pc = "forget" /\ Goto("clear")
    /\ pointer' = "NULL" /\ buffer' = << >>
    /\ UNCHANGED <<handler, pending, sreg, csreg, front, back, size, count,
                   replies, history>>

\* and size and count.
Clear ==
    /\ pc = "clear" /\ Goto("idle")
    /\ size' = 0 /\ count' = 0
    /\ UNCHANGED <<handler, pending, sreg, csreg, pointer, buffer, front, back, replies,
                   history>>

\* dataAvailable(): the two bytes of count, the low one first.
AvailableLow ==
    /\ pc = "idle" /\ pc' = "available"
    /\ low' = count % Byte
    /\ UNCHANGED <<call, arg, handler, pending, sreg, csreg, ring, replies, history>>

\* Mutant: an unsigned count is compared with >= 0.
AvailableAlways ==
    /\ pc = "available" /\ pc' = "idle"
    /\ promised' = TRUE /\ low' = 0
    /\ UNCHANGED <<call, arg, handler, pending, sreg, csreg, ring, replies, caught>>

Available ==
    /\ pc = "available" /\ pc' = "idle"
    /\ promised' = (low # 0 \/ count \div Byte # 0) /\ low' = 0
    /\ UNCHANGED <<call, arg, handler, pending, sreg, csreg, ring, replies, caught>>

-----------------------------------------------------------------------------
(* The interrupt handler.                                                  *)

\* The device has received a character, or has room for one.
Raise ==
    /\ ~pending /\ pending' = TRUE
    /\ UNCHANGED <<program, handler, sreg, csreg, ring, replies, history>>

\* writeBuffer() by a handler that has received d.
HandlerWrites(d) ==
    \/ /\ invalid /\ Return("isr", "BUFFER_INVALID")
       /\ UNCHANGED ring
    \/ /\ ~invalid /\ count >= size /\ Return("isr", "BUFFER_FULL")
       /\ UNCHANGED ring
    \/ /\ ~invalid /\ count < size /\ Return("isr", "BUFFER_OK")
       /\ buffer' = [buffer EXCEPT ![back] = d]
       /\ back' = (back + 1) % size /\ count' = count + 1
       /\ UNCHANGED <<pointer, front, size>>

\* readBuffer() by a handler that wants a character to send.
HandlerReads ==
    \/ /\ invalid /\ Return("isr", "BUFFER_INVALID")
       /\ UNCHANGED <<ring, value>>
    \/ /\ ~invalid /\ count = 0 /\ Return("isr", "BUFFER_EMPTY")
       /\ UNCHANGED <<ring, value>>
    \/ /\ ~invalid /\ count # 0 /\ Return("isr", "BUFFER_OK")
       /\ value' = [value EXCEPT !["isr"] = buffer[front]]
       /\ front' = (front + 1) % size /\ count' = count - 1
       /\ UNCHANGED <<pointer, buffer, back, size>>

\* Within a handler the I flag is clear, and that is what enterAtomic() saves.
Handle ==
    /\ sreg /\ pending /\ pending' = FALSE
    /\ \/ /\ handler = "write" /\ \E d \in Chars : HandlerWrites(d)
          /\ UNCHANGED value
       \/ handler = "read" /\ HandlerReads
    /\ csreg' = FALSE
    /\ caught' = (caught \/ pc = "disable")
    /\ UNCHANGED <<program, handler, sreg, promised>>

Within ==
    \/ Save \/ Disable \/ Check \/ Store \/ Back \/ CountUp \/ Take \/ Front
    \/ CountDown \/ Restore \/ Reset \/ SetSize \/ Forget \/ Clear \/ Available

Next == Call \/ Allocate \/ Free \/ AvailableLow \/ Within \/ Raise \/ Handle

Spec == Init /\ [][Next]_vars

-----------------------------------------------------------------------------
PCs == {"idle", "save", "disable", "check", "store", "back", "count", "take", "front",
        "uncount", "restore", "reset", "size", "forget", "clear", "available"}

TypeOK ==
    /\ pc \in PCs /\ call \in {"none", "write", "read"}
    /\ handler \in {"write", "read"}
    /\ pending \in BOOLEAN /\ sreg \in BOOLEAN /\ csreg \in BOOLEAN
    /\ pointer \in {"NULL", "live", "freed"}
    /\ size \in Sizes \cup {0} /\ arg \in Sizes \cup {0}
    /\ front \in Nat /\ back \in Nat /\ count \in Nat /\ low \in 0 .. Byte - 1
    /\ ~invalid => buffer \in [0 .. size - 1 -> Chars]
    /\ result \in [Actors -> {"BUFFER_OK", "BUFFER_FULL", "BUFFER_EMPTY", "BUFFER_INVALID"}]
    /\ value \in [Actors -> Chars]
    /\ caught \in BOOLEAN /\ promised \in BOOLEAN

\* The queue that the ring stands for, also between the statements of a call:
\* a character has been read once it is in *data, and written once count says so.
going == pc \in {"front", "uncount"}
first == IF pc = "front" THEN (front + 1) % size ELSE front
length == IF going THEN count - 1 ELSE count
queue == IF invalid THEN << >>
         ELSE [i \in 1 .. length |-> buffer[(first + i - 1) % size]]

\* An initialised buffer's indices and count agree, and never leave the memory
\* that was allocated, whoever changed them last and whatever an earlier use of
\* the TBuffer has left.
IndicesAgree ==
    ~invalid =>
        /\ front < size /\ back < size /\ count <= size
        /\ (first + length) % size =
              IF pc = "count" THEN (back + size - 1) % size ELSE back

\* The comments of writeBuffer() and readBuffer(): whatever the handler does
\* and when, the calls of both ends are those of one queue, first in first out.
Fifo == INSTANCE BoundedFifo WITH
            capacity <- IF invalid THEN 0 ELSE size
IsFifo == Fifo!Spec

\* "Re-enable interrupts", says a comment of exitAtomic() (buffer.cpp:26-29).  Between calls
\* interrupts are enabled until a handler runs between the save and the cli, whose own call
\* leaves its clear flag in csreg; from the end of the call that it fell into they are
\* disabled for good, for each later call saves and restores the clear flag.
InterruptsLostIffCaught == pc = "idle" => (sreg <=> ~caught)

\* When the handler only writes, what dataAvailable() says, reading count a byte
\* at a time while it changes, can be relied on until the program reads.
AvailableIsData == promised /\ handler = "write" => queue # << >>

=============================================================================
