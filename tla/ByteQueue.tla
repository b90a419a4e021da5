----------------------------- MODULE ByteQueue -----------------------------
(***************************************************************************)
(* What a byte buffer between one writing and one reading thread promises:  *)
(* a first-in first-out queue of at most Capacity bytes.  A write takes as   *)
(* much of its input as fits, in order (or nothing, when the writer saw the  *)
(* queue full); a read returns the oldest bytes, as many as asked for if     *)
(* there are that many.  A byte is named by its place in the written stream. *)
(***************************************************************************)
EXTENDS Integers, Sequences

CONSTANTS
    Capacity,   \* how many bytes the queue holds
    MaxRequest  \* bound: bytes offered or asked for at once

VARIABLES
    queue,    \* the bytes written and not yet read, oldest first
    written,  \* number of bytes written so far
    out,      \* what the last read returned
    asked     \* how many bytes it was asked for

queueVars == <<queue, written, out, asked>>

Shorter(a, b) == IF a < b THEN a ELSE b

Init == queue = <<>> /\ written = 0 /\ out = <<>> /\ asked = 0

\* Write(n): n bytes offered, those that fit are taken.
Put(n) ==
    LET k == Shorter(n, Capacity - Len(queue)) IN
    /\ queue' = queue \o [i \in 1..k |-> written + i]
    /\ written' = written + k
    /\ UNCHANGED <<out, asked>>

\* Read(n): the oldest bytes, at most n.
Take(n) ==
    LET k == Shorter(n, Len(queue)) IN
    /\ asked' = n
    /\ out' = SubSeq(queue, 1, k)
    /\ queue' = SubSeq(queue, k + 1, Len(queue))
    /\ UNCHANGED written

Next == \E n \in 1..MaxRequest : Put(n) \/ Take(n)

Spec == Init /\ [][Next]_queueVars
=============================================================================
