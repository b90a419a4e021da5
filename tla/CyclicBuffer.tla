---------------------------- MODULE CyclicBuffer ----------------------------
(***************************************************************************)
(* CyclicBuffer (src/src/PacketManager/CyclicBuffer.cc): the buffer between *)
(* the USB worker thread, which writes, and the thread inside RecvBytes,     *)
(* which reads.  Both bodies run under _mutex; Write looks at _buffer_full   *)
(* before it takes the mutex, so a read can come between the look and the    *)
(* body.  A byte is its place in the stream the writer offers (1, 2, ...).   *)
(***************************************************************************)
EXTENDS Integers, Sequences

CONSTANTS
    BufferSize,  \* _buffer_size
    MaxRequest,  \* bound: bytes asked for in one Read or offered in one Write
    MaxStream    \* bound: bytes accepted in one behaviour

ASSUME BufferAssumption ==
    BufferSize \in Nat \ {0} /\ MaxRequest \in Nat \ {0} /\ MaxStream \in Nat

VARIABLES
    buffer,      \* _buffer, 0 where nothing has been written
    readIndex,   \* _read_index
    writeIndex,  \* _write_index
    bufferFull,  \* _buffer_full
    writing,     \* bytes a Write still has to copy: it has seen the buffer not full; 0 outside
    written,     \* history: bytes accepted so far
    taken,       \* history: bytes returned so far
    out,         \* what the last Read returned
    asked        \* history: how many bytes it was asked for

bufVars == <<buffer, readIndex, writeIndex, bufferFull, writing, written, taken, out, asked>>

Slots == 0..(BufferSize - 1)

Smaller(a, b) == IF a < b THEN a ELSE b

Init ==
    /\ buffer = [s \in Slots |-> 0]
    /\ readIndex = 0 /\ writeIndex = 0 /\ bufferFull = FALSE
    /\ writing = 0 /\ written = 0 /\ taken = 0 /\ out = <<>> /\ asked = 0

-----------------------------------------------------------------------------
\* Copying k bytes, numbered from first, to slot s on (memcpy never wraps).
Copy(buf, s, k, first) ==
    [x \in Slots |-> IF s <= x /\ x < s + k THEN first + (x - s) ELSE buf[x]]

\* (Variants for the mutant runs: no second chunk, an index that never wraps.)
ReadSecondNever(n) == 0
AdvanceUnwrapped(index, k) == index + k

\* The first and the second chunk of a Read of n bytes: up to the end of the array, then on
\* from slot 0 when the first one reached the end and more is wanted.
ReadFirst(n) ==
    IF writeIndex > readIndex THEN Smaller(writeIndex - readIndex, n)
    ELSE IF readIndex > writeIndex \/ bufferFull THEN Smaller(BufferSize - readIndex, n)
    ELSE 0

ReadSecond(n) ==
    IF ~(writeIndex > readIndex) /\ (readIndex > writeIndex \/ bufferFull) /\ n > ReadFirst(n)
    THEN Smaller(writeIndex, n - ReadFirst(n)) ELSE 0

Advance(index, k) == IF index + k = BufferSize THEN 0 ELSE index + k

\* Read(destination, n), n > 0, one step under the mutex.
Read(n) ==
    LET a == ReadFirst(n)
        b == ReadSecond(n)
    IN /\ out' = [i \in 1..(a + b) |-> IF i <= a THEN buffer[readIndex + i - 1] ELSE buffer[i - a - 1]]
       /\ readIndex' = IF writeIndex > readIndex THEN readIndex + a
                       ELSE IF readIndex > writeIndex \/ bufferFull THEN Advance(readIndex, a) + b
                       ELSE readIndex
       /\ bufferFull' = FALSE
       /\ taken' = taken + a + b /\ asked' = n
       /\ UNCHANGED <<buffer, writeIndex, writing, written>>

\* Write(source, n): refused when the buffer looks full ...
WriteRefused ==
    /\ writing = 0 /\ bufferFull
    /\ UNCHANGED bufVars

\* ... otherwise on to the mutex.
WriteEnter(n) ==
    /\ writing = 0 /\ ~bufferFull
    /\ writing' = n
    /\ UNCHANGED <<buffer, readIndex, writeIndex, bufferFull, written, taken, out, asked>>

\* The body under the mutex: a chunk to the end of the array, then one up to the read index.
\* _read_index - _write_index is a size_t, never negative where the code evaluates it.
WriteFirst(n) == IF writeIndex >= readIndex THEN Smaller(BufferSize - writeIndex, n) ELSE 0

WriteSecond(n) ==
    IF n > WriteFirst(n)
    THEN Smaller(readIndex - Advance(writeIndex, WriteFirst(n)), n - WriteFirst(n)) ELSE 0

WriteBody ==
    /\ writing > 0
    /\ LET a == WriteFirst(writing)
           w == Advance(writeIndex, a)
           b == WriteSecond(writing)
       IN /\ buffer' = Copy(Copy(buffer, writeIndex, a, written + 1), w, b, written + a + 1)
          /\ writeIndex' = w + b
          /\ bufferFull' = IF w + b = readIndex /\ a + b > 0 THEN TRUE ELSE bufferFull
          /\ written' = written + a + b
    /\ writing' = 0
    /\ UNCHANGED <<readIndex, taken, out, asked>>

Next ==
    \/ \E n \in 1..MaxRequest : Read(n)
    \/ WriteRefused
    \/ \E n \in 1..MaxRequest : written + n <= MaxStream /\ WriteEnter(n)
    \/ WriteBody

Spec == Init /\ [][Next]_bufVars

-----------------------------------------------------------------------------
\* The type invariant; both indices stay inside the array.
TypeOK ==
    /\ buffer \in [Slots -> Nat]
    /\ readIndex \in Slots /\ writeIndex \in Slots
    /\ bufferFull \in BOOLEAN
    /\ writing \in 0..MaxRequest /\ written \in Nat /\ taken \in Nat
    /\ out \in Seq(Nat) /\ asked \in 0..MaxRequest

\* How many bytes wait to be read, and the slot of the k-th of them (from 0).
Count == IF bufferFull THEN BufferSize
         ELSE IF writeIndex >= readIndex THEN writeIndex - readIndex
         ELSE BufferSize - readIndex + writeIndex

Slot(k) == IF readIndex + k < BufferSize THEN readIndex + k ELSE readIndex + k - BufferSize

\* The unread bytes are exactly the bytes written and not yet returned, in their slots: no
\* write ever lands on an unread byte, however the unlocked check and a read interleave.
UnreadIntact ==
    /\ bufferFull => readIndex = writeIndex
    /\ written = taken + Count
    /\ \A k \in 0..(BufferSize - 1) : k < Count => buffer[Slot(k)] = taken + k + 1

\* Between its unlocked look at _buffer_full and the mutex, the only writer keeps its room.
WriterSawRoom == writing > 0 => ~bufferFull

\* Every read returns the next bytes of the stream: none lost, repeated or out of order.
ReadsInOrder == \A i \in 1..Len(out) : out[i] = taken - Len(out) + i

\* The unread bytes, oldest first.
Unread == [k \in 1..Count |-> buffer[Slot(k - 1)]]

Queue == INSTANCE ByteQueue WITH Capacity <- BufferSize, queue <- Unread

\* The two indices, the flag and the chunked copies implement a bounded first-in first-out
\* queue: every Write appends what fits, every Read removes the oldest bytes.
ImplementsQueue == Queue!Spec

=============================================================================
