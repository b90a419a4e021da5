--------------------------- MODULE TransportProofs ---------------------------
(***************************************************************************)
(* Proofs about CyclicBuffer and Transport. The buffer alone, for every     *)
(* size of the array, every request and every length of the stream: the     *)
(* indices stay inside the array, no unread byte is overwritten, reads      *)
(* return the stream in order, and the buffer implements ByteQueue. Then    *)
(* Transport, for any packets, buffer, transfers and losses: whatever the   *)
(* thread in Recv and the worker thread do, they use the buffer as          *)
(* CyclicBuffer allows, so what is proved of it alone holds of it in place. *)
(* Last, the receiver comes back in step: every byte that has arrived is    *)
(* traced to the place it was sent at, and every packet without lost bytes  *)
(* is still to come, being read, returned, or begins close behind a hurt    *)
(* one.                                                                     *)
(***************************************************************************)
EXTENDS Transport, TLAPS, SequenceTheorems, WellFoundedInduction

-----------------------------------------------------------------------------
(* The buffer alone.                                                        *)

\* The inductive invariant.
BufInv == TypeOK /\ UnreadIntact /\ WriterSawRoom

\* The chunks a Read copies, case by case.
LEMMA ReadChunks ==
    ASSUME BufInv, NEW n \in 1..MaxRequest
    PROVE  \/ /\ writeIndex > readIndex
              /\ ReadFirst(n) = Smaller(writeIndex - readIndex, n) /\ ReadSecond(n) = 0
           \/ /\ readIndex > writeIndex \/ (bufferFull /\ readIndex = writeIndex)
              /\ ReadFirst(n) = Smaller(BufferSize - readIndex, n)
              /\ ReadSecond(n) = IF n > ReadFirst(n) THEN Smaller(writeIndex, n - ReadFirst(n)) ELSE 0
           \/ /\ readIndex = writeIndex /\ ~bufferFull
              /\ ReadFirst(n) = 0 /\ ReadSecond(n) = 0
  BY BufferAssumption DEF BufInv, TypeOK, UnreadIntact, Slots, ReadFirst, ReadSecond

\* The number of unread bytes is between nothing and the size of the array.
LEMMA CountRange == ASSUME BufInv PROVE Count \in 0..BufferSize
  BY BufferAssumption DEF BufInv, TypeOK, Count, Slots

\* A Read removes exactly the bytes it returns from the front of the unread ones.
LEMMA ReadAdvances ==
    ASSUME BufInv, NEW n \in 1..MaxRequest, Read(n)
    PROVE  LET m == ReadFirst(n) + ReadSecond(n) IN
           /\ ReadFirst(n) \in Nat /\ ReadSecond(n) \in Nat
           /\ m = Smaller(n, Count) /\ m \in 0..Count /\ readIndex' \in Slots
           /\ taken' = taken + m /\ Count' = Count - m
           /\ \A k \in 0..(BufferSize - 1) : k < Count - m => Slot(k)' = Slot(k + m)
           /\ \A k \in 0..(BufferSize - 1) : k < m =>
                Slot(k) = IF k < ReadFirst(n) THEN readIndex + k ELSE k - ReadFirst(n)
<1> DEFINE a == ReadFirst(n)  b == ReadSecond(n)
<1>0. /\ BufferSize \in Nat \ {0} /\ readIndex \in 0..(BufferSize - 1)
      /\ writeIndex \in 0..(BufferSize - 1) /\ taken \in Nat /\ bufferFull \in BOOLEAN
      /\ n \in Nat \ {0}
  BY BufferAssumption DEF BufInv, TypeOK, Slots
<1>1. /\ taken' = taken + a + b /\ bufferFull' = FALSE /\ writeIndex' = writeIndex
      /\ readIndex' = IF writeIndex > readIndex THEN readIndex + a
                      ELSE IF readIndex > writeIndex \/ bufferFull THEN Advance(readIndex, a) + b
                      ELSE readIndex
  BY DEF Read
<1>2. \/ /\ writeIndex > readIndex
         /\ a = Smaller(writeIndex - readIndex, n) /\ b = 0
      \/ /\ readIndex > writeIndex \/ (bufferFull /\ readIndex = writeIndex)
         /\ a = Smaller(BufferSize - readIndex, n)
         /\ b = IF n > a THEN Smaller(writeIndex, n - a) ELSE 0
      \/ /\ readIndex = writeIndex /\ ~bufferFull
         /\ a = 0 /\ b = 0
  BY ReadChunks
<1>3. bufferFull => readIndex = writeIndex
  BY DEF BufInv, UnreadIntact
<1> HIDE DEF a, b
<1>4. a \in Nat /\ b \in Nat /\ taken' = taken + (a + b)
  BY <1>0, <1>1, <1>2 DEF Smaller
<1>5. a + b = Smaller(n, Count) /\ a + b \in 0..Count
  BY <1>0, <1>2, <1>3 DEF Smaller, Count
<1>6. readIndex' \in Slots
  BY <1>0, <1>1, <1>2 DEF Smaller, Advance, Slots
<1>7. Count' = Count - (a + b)
  BY <1>0, <1>1, <1>2, <1>3 DEF Smaller, Advance, Count
<1>8. ASSUME NEW k \in 0..(BufferSize - 1), k < Count - (a + b)
      PROVE  Slot(k)' = Slot(k + (a + b))
  BY <1>0, <1>1, <1>2, <1>3, <1>8 DEF Smaller, Advance, Count, Slot
<1>9. ASSUME NEW k \in 0..(BufferSize - 1), k < a + b
      PROVE  Slot(k) = IF k < a THEN readIndex + k ELSE k - a
  BY <1>0, <1>2, <1>3, <1>9 DEF Smaller, Slot
<1> QED
  BY <1>4, <1>5, <1>6, <1>7, <1>8, <1>9 DEF a, b

\* What a Read returns: the oldest unread bytes.
LEMMA ReadReturns ==
    ASSUME BufInv, NEW n \in 1..MaxRequest, Read(n)
    PROVE  LET m == ReadFirst(n) + ReadSecond(n) IN
           out' = [i \in 1..m |-> taken + i]
<1> DEFINE a == ReadFirst(n)  b == ReadSecond(n)
<1>1. a + b \in 0..Count /\ Count \in 0..BufferSize /\ a \in Nat /\ b \in Nat
  BY ReadAdvances, CountRange
<1>2. out' = [i \in 1..(a + b) |-> IF i <= a THEN buffer[readIndex + i - 1] ELSE buffer[i - a - 1]]
  BY DEF Read
<1>3. ASSUME NEW i \in 1..(a + b)
      PROVE  (IF i <= a THEN buffer[readIndex + i - 1] ELSE buffer[i - a - 1]) = taken + i
  <2>0. readIndex \in 0..(BufferSize - 1) /\ taken \in Nat /\ BufferSize \in Nat \ {0}
    BY BufferAssumption DEF BufInv, TypeOK, Slots
  <2>1. i - 1 \in 0..(BufferSize - 1) /\ i - 1 < a + b /\ i - 1 < Count
    BY <1>1, <2>0
  <2>2. Slot(i - 1) = IF i - 1 < a THEN readIndex + (i - 1) ELSE (i - 1) - a
    BY <2>1, ReadAdvances
  <2>3. buffer[Slot(i - 1)] = taken + (i - 1) + 1
    BY <2>1 DEF BufInv, UnreadIntact
  <2> HIDE DEF a, b
  <2>4. (IF i <= a THEN buffer[readIndex + i - 1] ELSE buffer[i - a - 1]) = buffer[Slot(i - 1)]
    <3>1. CASE i <= a
      <4>1. Slot(i - 1) = readIndex + i - 1
        BY <1>1, <2>0, <2>2, <3>1
      <4> QED
        BY <3>1, <4>1
    <3>2. CASE ~(i <= a)
      <4>1. Slot(i - 1) = i - a - 1
        BY <1>1, <2>0, <2>2, <3>2
      <4> QED
        BY <3>2, <4>1
    <3> QED
      BY <3>1, <3>2
  <2> QED
    BY <1>1, <2>0, <2>3, <2>4
<1> QED
  BY <1>2, <1>3

LEMMA ReadKeepsInv ==
    ASSUME BufInv, NEW n \in 1..MaxRequest, Read(n)
    PROVE  BufInv'
<1> DEFINE m == ReadFirst(n) + ReadSecond(n)
<1>0. /\ BufferSize \in Nat \ {0} /\ taken \in Nat /\ written \in Nat
      /\ Count \in 0..BufferSize
  BY BufferAssumption, CountRange DEF BufInv, TypeOK
<1>1. /\ m \in 0..Count /\ readIndex' \in Slots
      /\ taken' = taken + m /\ Count' = Count - m
      /\ \A k \in 0..(BufferSize - 1) : k < Count - m => Slot(k)' = Slot(k + m)
  BY ReadAdvances
<1>2. out' = [i \in 1..m |-> taken + i]
  BY ReadReturns
<1>3. UNCHANGED <<buffer, writeIndex, writing, written>> /\ bufferFull' = FALSE
  BY DEF Read
<1> HIDE DEF m
<1>4. TypeOK'
  <2>1. out' \in Seq(Nat)
    <3>1. m \in Nat /\ \A i \in 1..m : taken + i \in Nat
      BY <1>0, <1>1
    <3> QED
      BY <1>2, <3>1
  <2>2. taken' \in Nat /\ asked' \in 0..MaxRequest
    BY <1>0, <1>1, BufferAssumption DEF Read
  <2> QED
    BY <1>1, <1>3, <2>1, <2>2 DEF BufInv, TypeOK, Slots
<1>5. UnreadIntact'
  <2>1. (written = taken + Count)'
    BY <1>0, <1>1, <1>3 DEF BufInv, UnreadIntact
  <2>2. ASSUME NEW k \in 0..(BufferSize - 1), k < Count'
        PROVE  buffer'[Slot(k)'] = taken' + k + 1
    <3>1. k + m \in 0..(BufferSize - 1) /\ k + m < Count /\ k < Count - m
      BY <1>0, <1>1, <2>2
    <3>2. buffer[Slot(k + m)] = taken + (k + m) + 1
      BY <3>1 DEF BufInv, UnreadIntact
    <3>3. Slot(k)' = Slot(k + m)
      BY <1>1, <3>1
    <3> QED
      BY <1>0, <1>1, <1>3, <3>2, <3>3
  <2>3. \A k \in 0..(BufferSize - 1) : k < Count' => buffer'[Slot(k)'] = taken' + k + 1
    BY <2>2
  <2> QED
    BY <1>3, <2>1, <2>3 DEF UnreadIntact
<1>6. WriterSawRoom'
  BY <1>3 DEF WriterSawRoom
<1> QED
  BY <1>4, <1>5, <1>6 DEF BufInv

-----------------------------------------------------------------------------
\* The chunks a Write copies once it holds the mutex, case by case.
LEMMA WriteChunks ==
    ASSUME BufInv, writing > 0
    PROVE  LET a == WriteFirst(writing)
               w == Advance(writeIndex, a)
               b == WriteSecond(writing)
           IN \/ /\ writeIndex >= readIndex /\ a = writing /\ a < BufferSize - writeIndex
                 /\ w = writeIndex + a /\ b = 0
              \/ /\ writeIndex >= readIndex /\ a = BufferSize - writeIndex /\ a <= writing
                 /\ w = 0 /\ b = Smaller(readIndex, writing - a)
              \/ /\ writeIndex < readIndex /\ a = 0
                 /\ w = writeIndex /\ b = Smaller(readIndex - writeIndex, writing)
  BY BufferAssumption DEF BufInv, TypeOK, Slots, WriteFirst, WriteSecond, Advance, Smaller

\* A Write appends the bytes it copies behind the unread ones, in free slots.
LEMMA WriteAdvances ==
    ASSUME BufInv, WriteBody
    PROVE  LET a == WriteFirst(writing)
               w == Advance(writeIndex, a)
               b == WriteSecond(writing)
               m == a + b
           IN /\ a \in Nat /\ b \in Nat /\ w \in Slots
              /\ m = Smaller(writing, BufferSize - Count) /\ m \in 1..(BufferSize - Count)
              /\ w + b \in Slots /\ Count' = Count + m
              /\ bufferFull' \in BOOLEAN /\ (bufferFull' => readIndex = w + b)
              /\ \A k \in 0..(BufferSize - 1) : k < Count =>
                   /\ ~(writeIndex <= Slot(k) /\ Slot(k) < writeIndex + a)
                   /\ ~(w <= Slot(k) /\ Slot(k) < w + b)
              /\ \A k \in 0..(BufferSize - 1) : Count <= k /\ k < Count + m =>
                   IF k - Count < a
                   THEN Slot(k) = writeIndex + (k - Count) /\ ~(w <= Slot(k) /\ Slot(k) < w + b)
                   ELSE Slot(k) = w + (k - Count - a)
<1> DEFINE a == WriteFirst(writing)
           w == Advance(writeIndex, a)
           b == WriteSecond(writing)
<1>0. /\ BufferSize \in Nat \ {0} /\ readIndex \in 0..(BufferSize - 1)
      /\ writeIndex \in 0..(BufferSize - 1) /\ bufferFull = FALSE
      /\ writing \in Nat /\ writing > 0
  BY BufferAssumption DEF BufInv, TypeOK, WriterSawRoom, WriteBody, Slots
<1>1. /\ writeIndex' = w + b /\ readIndex' = readIndex
      /\ bufferFull' = IF w + b = readIndex /\ a + b > 0 THEN TRUE ELSE bufferFull
  BY DEF WriteBody
<1>2. \/ /\ writeIndex >= readIndex /\ a = writing /\ a < BufferSize - writeIndex
         /\ w = writeIndex + a /\ b = 0
      \/ /\ writeIndex >= readIndex /\ a = BufferSize - writeIndex /\ a <= writing
         /\ w = 0 /\ b = Smaller(readIndex, writing - a)
      \/ /\ writeIndex < readIndex /\ a = 0
         /\ w = writeIndex /\ b = Smaller(readIndex - writeIndex, writing)
  BY <1>0, WriteChunks
<1> HIDE DEF a, b, w
<1>3. a \in Nat /\ b \in Nat /\ w \in Slots /\ w + b \in Slots
  BY <1>0, <1>2 DEF Smaller, Slots
<1>4. a + b = Smaller(writing, BufferSize - Count) /\ a + b \in 1..(BufferSize - Count)
  BY <1>0, <1>2 DEF Smaller, Count
<1>5. a + b > 0
  BY <1>0, <1>2 DEF Smaller
<1>6. bufferFull' = IF w + b = readIndex THEN TRUE ELSE FALSE
  BY <1>0, <1>1, <1>5
<1>9. Count' = Count + (a + b)
  <2>1. CASE w + b = readIndex
    <3>1. Count' = BufferSize
      BY <1>6, <2>1 DEF Count
    <3>2. BufferSize = Count + (a + b)
      BY <1>0, <1>2, <2>1 DEF Smaller, Count
    <3> QED
      BY <3>1, <3>2
  <2>2. CASE w + b # readIndex
    <3>0. ~bufferFull'
      BY <1>6, <2>2
    <3>2. Count' = IF writeIndex' >= readIndex' THEN writeIndex' - readIndex'
                   ELSE BufferSize - readIndex' + writeIndex'
      BY <3>0, Zenon DEF Count
    <3>1. writeIndex' = w + b /\ readIndex' = readIndex
      BY <1>1
    <3> QED
      BY <1>0, <1>2, <2>2, <3>1, <3>2 DEF Smaller, Count
  <2> QED
    BY <2>1, <2>2
<1>7. ASSUME NEW k \in 0..(BufferSize - 1), k < Count
      PROVE  /\ ~(writeIndex <= Slot(k) /\ Slot(k) < writeIndex + a)
             /\ ~(w <= Slot(k) /\ Slot(k) < w + b)
  BY <1>0, <1>2, <1>7 DEF Smaller, Count, Slot
<1>8. ASSUME NEW k \in 0..(BufferSize - 1), Count <= k, k < Count + (a + b)
      PROVE  IF k - Count < a
             THEN Slot(k) = writeIndex + (k - Count) /\ ~(w <= Slot(k) /\ Slot(k) < w + b)
             ELSE Slot(k) = w + (k - Count - a)
  BY <1>0, <1>2, <1>8 DEF Smaller, Count, Slot
<1> QED
  BY <1>3, <1>4, <1>6, <1>7, <1>8, <1>9 DEF a, b, w

\* What a Write leaves in the array.
LEMMA CopyTwice ==
    ASSUME NEW u, NEW a \in Nat, NEW w \in Nat, NEW b \in Nat, NEW p, NEW q,
           NEW v \in Nat, NEW x \in Slots
    PROVE  Copy(Copy(u, v, a, p), w, b, q)[x] =
             IF w <= x /\ x < w + b THEN q + (x - w)
             ELSE IF v <= x /\ x < v + a THEN p + (x - v) ELSE u[x]
  BY DEF Copy

LEMMA WriteKeepsInv ==
    ASSUME BufInv, WriteBody
    PROVE  BufInv'
<1> DEFINE a == WriteFirst(writing)
           w == Advance(writeIndex, a)
           b == WriteSecond(writing)
<1>0. /\ BufferSize \in Nat \ {0} /\ taken \in Nat /\ written \in Nat
      /\ Count \in 0..BufferSize /\ readIndex \in 0..(BufferSize - 1)
      /\ writeIndex \in 0..(BufferSize - 1) /\ buffer \in [Slots -> Nat]
      /\ written = taken + Count
  BY BufferAssumption, CountRange DEF BufInv, TypeOK, UnreadIntact, Slots
<1>1. /\ a \in Nat /\ b \in Nat /\ w \in Slots
      /\ a + b \in 1..(BufferSize - Count)
      /\ w + b \in Slots /\ Count' = Count + (a + b)
      /\ bufferFull' \in BOOLEAN /\ (bufferFull' => readIndex = w + b)
      /\ \A k \in 0..(BufferSize - 1) : k < Count =>
           /\ ~(writeIndex <= Slot(k) /\ Slot(k) < writeIndex + a)
           /\ ~(w <= Slot(k) /\ Slot(k) < w + b)
      /\ \A k \in 0..(BufferSize - 1) : Count <= k /\ k < Count + (a + b) =>
           IF k - Count < a
           THEN Slot(k) = writeIndex + (k - Count) /\ ~(w <= Slot(k) /\ Slot(k) < w + b)
           ELSE Slot(k) = w + (k - Count - a)
  BY WriteAdvances
<1>2. /\ buffer' = Copy(Copy(buffer, writeIndex, a, written + 1), w, b, written + a + 1)
      /\ writeIndex' = w + b /\ written' = written + a + b /\ writing' = 0
      /\ UNCHANGED <<readIndex, taken, out, asked>>
  BY DEF WriteBody
<1> HIDE DEF a, b, w
<1>3. ASSUME NEW x \in Slots
      PROVE  buffer'[x] = IF w <= x /\ x < w + b THEN written + a + 1 + (x - w)
                          ELSE IF writeIndex <= x /\ x < writeIndex + a THEN written + 1 + (x - writeIndex)
                          ELSE buffer[x]
  <2>1. w \in Nat /\ writeIndex \in Nat
    BY <1>0, <1>1 DEF Slots
  <2> QED
    BY <1>1, <1>2, <2>1, CopyTwice
<1>4. buffer' \in [Slots -> Nat]
  <2>1. \A x \in Slots : buffer'[x] \in Nat
    BY <1>0, <1>1, <1>3 DEF Slots
  <2>2. buffer' = [x \in Slots |-> buffer'[x]]
    BY <1>2 DEF Copy
  <2> QED
    BY <2>1, <2>2
<1>5. TypeOK'
  <2>1. written' \in Nat
    BY <1>0, <1>1, <1>2
  <2>2. writing' \in 0..MaxRequest
    BY <1>2, BufferAssumption
  <2> QED
    BY <1>1, <1>2, <1>4, <2>1, <2>2 DEF BufInv, TypeOK, Slots
<1>6. UnreadIntact'
  <2>1. (bufferFull => readIndex = writeIndex)'
    BY <1>1, <1>2
  <2>2. (written = taken + Count)'
    BY <1>0, <1>1, <1>2
  <2>3. ASSUME NEW k \in 0..(BufferSize - 1), k < Count'
        PROVE  buffer'[Slot(k)'] = taken' + k + 1
    <3>0. Slot(k)' = Slot(k) /\ Slot(k) \in Slots
      BY <1>0, <1>2 DEF Slot, Slots
    <3>1. CASE k < Count
      <4>1. buffer'[Slot(k)] = buffer[Slot(k)]
        BY <1>1, <1>3, <3>0, <3>1
      <4>2. buffer[Slot(k)] = taken + k + 1
        BY <3>1 DEF BufInv, UnreadIntact
      <4> QED
        BY <1>2, <3>0, <4>1, <4>2
    <3>2. CASE Count <= k /\ k - Count < a
      <4>1. Slot(k) = writeIndex + (k - Count) /\ ~(w <= Slot(k) /\ Slot(k) < w + b)
        BY <1>0, <1>1, <2>3, <3>2
      <4>2. writeIndex <= Slot(k) /\ Slot(k) < writeIndex + a
        BY <1>0, <1>1, <3>2, <4>1
      <4>3. buffer'[Slot(k)] = written + 1 + (Slot(k) - writeIndex)
        BY <1>3, <3>0, <4>1, <4>2
      <4> QED
        BY <1>0, <1>2, <3>0, <4>1, <4>3
    <3>3. CASE Count <= k /\ ~(k - Count < a)
      <4>1. Slot(k) = w + (k - Count - a) /\ k < Count + (a + b)
        BY <1>0, <1>1, <2>3, <3>3
      <4>2. w <= Slot(k) /\ Slot(k) < w + b
        BY <1>0, <1>1, <3>3, <4>1 DEF Slots
      <4>3. buffer'[Slot(k)] = written + a + 1 + (Slot(k) - w)
        BY <1>3, <3>0, <4>2
      <4> QED
        BY <1>0, <1>1, <1>2, <3>0, <4>1, <4>3 DEF Slots
    <3> QED
      BY <1>0, <3>1, <3>2, <3>3
  <2>4. \A k \in 0..(BufferSize - 1) : k < Count' => buffer'[Slot(k)'] = taken' + k + 1
    BY <2>3
  <2> QED
    BY <2>1, <2>2, <2>4 DEF UnreadIntact
<1>7. WriterSawRoom'
  BY <1>2 DEF WriterSawRoom
<1> QED
  BY <1>5, <1>6, <1>7 DEF BufInv

-----------------------------------------------------------------------------
LEMMA BufInvInit == Init => BufInv
<1> SUFFICES ASSUME Init PROVE BufInv
  OBVIOUS
<1>0. Count = 0 /\ BufferSize \in Nat \ {0}
  BY BufferAssumption DEF Init, Count
<1>1. TypeOK
  <2>1. 0 \in Slots /\ 0 \in 0..MaxRequest
    BY BufferAssumption DEF Slots
  <2>2. buffer \in [Slots -> Nat] /\ out \in Seq(Nat) /\ asked \in 0..MaxRequest
    BY <2>1 DEF Init
  <2> QED
    BY <2>1, <2>2 DEF Init, TypeOK
<1>2. UnreadIntact
  BY <1>0 DEF Init, UnreadIntact
<1> QED
  BY <1>1, <1>2 DEF Init, BufInv, WriterSawRoom

LEMMA BufInvStep == BufInv /\ [Next]_bufVars => BufInv'
<1> SUFFICES ASSUME BufInv, [Next]_bufVars PROVE BufInv'
  OBVIOUS
<1>1. ASSUME NEW n \in 1..MaxRequest, Read(n) PROVE BufInv'
  BY <1>1, ReadKeepsInv
<1>2. CASE WriteRefused \/ UNCHANGED bufVars
  <2>1. UNCHANGED bufVars
    BY <1>2 DEF WriteRefused
  <2>2. TypeOK'
    BY <2>1 DEF bufVars, BufInv, TypeOK
  <2>3. UnreadIntact' /\ WriterSawRoom'
    BY <2>1 DEF bufVars, BufInv, UnreadIntact, WriterSawRoom, Count, Slot
  <2> QED
    BY <2>2, <2>3 DEF BufInv
<1>3. ASSUME NEW n \in 1..MaxRequest, WriteEnter(n) PROVE BufInv'
  <2>1. /\ UNCHANGED <<buffer, readIndex, writeIndex, bufferFull, written, taken, out, asked>>
        /\ writing' = n /\ ~bufferFull
    BY <1>3 DEF WriteEnter
  <2>2. TypeOK'
    BY <2>1, BufferAssumption DEF BufInv, TypeOK
  <2>3. UnreadIntact' /\ WriterSawRoom'
    BY <2>1 DEF BufInv, UnreadIntact, WriterSawRoom, Count, Slot
  <2> QED
    BY <2>2, <2>3 DEF BufInv
<1>4. CASE WriteBody
  BY <1>4, WriteKeepsInv
<1> QED
  BY <1>1, <1>2, <1>3, <1>4 DEF Next

\* The indices stay inside the array, no write lands on an unread byte, and the writer's
\* unlocked look at _buffer_full stays good until it holds the mutex.
THEOREM BufferCorrect == Spec => []BufInv
BY BufInvInit, BufInvStep, PTL DEF Spec

\* The type invariant, for every size of the array.
THEOREM BufferTypeCorrect == Spec => []TypeOK
<1>1. BufInv => TypeOK
  BY DEF BufInv
<1> QED
  BY <1>1, BufferCorrect, PTL

\* The bytes waiting in the array are those written and not yet returned, in order.
THEOREM UnreadStaysIntact == Spec => []UnreadIntact
<1>1. BufInv => UnreadIntact
  BY DEF BufInv
<1> QED
  BY <1>1, BufferCorrect, PTL

\* Every read returns the next bytes of the stream.
THEOREM ReadsInOrderHolds == Spec => []ReadsInOrder
<1>1. Init => ReadsInOrder
  BY DEF Init, ReadsInOrder
<1>2. BufInv /\ ReadsInOrder /\ [Next]_bufVars => ReadsInOrder'
  <2> SUFFICES ASSUME BufInv, ReadsInOrder, [Next]_bufVars PROVE ReadsInOrder'
    OBVIOUS
  <2>1. ASSUME NEW n \in 1..MaxRequest, Read(n) PROVE ReadsInOrder'
    <3> DEFINE m == ReadFirst(n) + ReadSecond(n)
    <3>1. out' = [i \in 1..m |-> taken + i]
      BY <2>1, ReadReturns
    <3>2. m \in Nat /\ taken' = taken + m /\ taken \in Nat
      BY <2>1, ReadAdvances, CountRange, BufferAssumption DEF BufInv, TypeOK
    <3> HIDE DEF m
    <3>3. Len(out') = m /\ \A i \in 1..m : out'[i] = taken + i
      BY <3>1, <3>2
    <3> QED
      BY <3>2, <3>3 DEF ReadsInOrder
  <2>2. CASE WriteRefused \/ WriteBody \/ UNCHANGED bufVars
    BY <2>2 DEF WriteRefused, WriteBody, bufVars, ReadsInOrder
  <2>3. ASSUME NEW n \in 1..MaxRequest, WriteEnter(n) PROVE ReadsInOrder'
    BY <2>3 DEF WriteEnter, ReadsInOrder
  <2> QED
    BY <2>1, <2>2, <2>3 DEF Next
<1> QED
  BY <1>1, <1>2, BufferCorrect, PTL DEF Spec

-----------------------------------------------------------------------------
\* Pieces of a numbered stream.
LEMMA StreamIsSeq ==
    ASSUME NEW t \in Nat, NEW c \in Nat
    PROVE  [k \in 1..c |-> t + k] \in Seq(Nat) /\ Len([k \in 1..c |-> t + k]) = c
<1>1. \A k \in 1..c : t + k \in Nat
  OBVIOUS
<1> QED
  BY <1>1

LEMMA StreamTail ==
    ASSUME NEW t \in Nat, NEW c \in Nat, NEW m \in 0..c
    PROVE  SubSeq([k \in 1..c |-> t + k], m + 1, c) = [k \in 1..(c - m) |-> (t + m) + k]
<1> DEFINE s == [k \in 1..c |-> t + k]
           r == [k \in 1..(c - m) |-> (t + m) + k]
           u == SubSeq(s, m + 1, c)
<1>1. s \in Seq(Nat) /\ Len(s) = c /\ \A i \in 1..c : s[i] = t + i
  BY StreamIsSeq
<1>2. m \in Nat /\ m <= c /\ c - m \in Nat /\ t + m \in Nat
  OBVIOUS
<1>3. r \in Seq(Nat) /\ Len(r) = c - m
  BY <1>2, StreamIsSeq
<1>4. \A i \in 1..(c - m) : r[i] = (t + m) + i
  OBVIOUS
<1> HIDE DEF s
<1>5. \A i \in (m + 1)..c : s[i] \in Nat
  BY <1>1, <1>2
<1>6. /\ u \in Seq(Nat)
      /\ Len(u) = IF m + 1 <= c THEN c - (m + 1) + 1 ELSE 0
      /\ \A i \in 1..(c - (m + 1) + 1) : u[i] = s[(m + 1) + i - 1]
  BY <1>2, <1>5, SubSeqProperties
<1> HIDE DEF r, u
<1>7. Len(u) = c - m /\ \A i \in 1..(c - m) : u[i] = (t + m) + i
  <2>1. c - (m + 1) + 1 = c - m /\ (~(m + 1 <= c) => c - m = 0)
    BY <1>2
  <2>2. ASSUME NEW i \in 1..(c - m) PROVE (m + 1) + i - 1 = m + i /\ m + i \in 1..c /\ t + (m + i) = (t + m) + i
    BY <1>2
  <2> QED
    BY <1>1, <1>6, <2>1, <2>2
<1>8. u = r
  BY <1>3, <1>4, <1>6, <1>7, SeqEqual
<1> QED
  BY <1>8 DEF r, s, u

LEMMA StreamAppend ==
    ASSUME NEW t \in Nat, NEW c \in Nat, NEW m \in Nat
    PROVE  [k \in 1..c |-> t + k] \o [k \in 1..m |-> (t + c) + k] = [k \in 1..(c + m) |-> t + k]
<1> DEFINE p == [k \in 1..c |-> t + k]
           q == [k \in 1..m |-> (t + c) + k]
           r == [k \in 1..(c + m) |-> t + k]
<1>1. /\ p \in Seq(Nat) /\ Len(p) = c /\ q \in Seq(Nat) /\ Len(q) = m
      /\ r \in Seq(Nat) /\ Len(r) = c + m
  BY StreamIsSeq
<1>2. /\ \A i \in 1..c : p[i] = t + i
      /\ \A i \in 1..m : q[i] = (t + c) + i
      /\ \A i \in 1..(c + m) : r[i] = t + i
  OBVIOUS
<1> HIDE DEF p, q, r
<1>3. /\ p \o q \in Seq(Nat) /\ Len(p \o q) = c + m
      /\ \A i \in 1..(c + m) : (p \o q)[i] = IF i <= c THEN p[i] ELSE q[i - c]
  BY <1>1, ConcatProperties
<1>4. ASSUME NEW i \in 1..(c + m) PROVE (p \o q)[i] = r[i]
  <2>1. CASE i <= c
    BY <1>2, <1>3, <2>1
  <2>2. CASE ~(i <= c)
    <3>1. i - c \in 1..m /\ (t + c) + (i - c) = t + i
      BY <2>2
    <3> QED
      BY <1>2, <1>3, <2>2, <3>1
  <2> QED
    BY <2>1, <2>2
<1>5. p \o q = r
  BY <1>1, <1>3, <1>4, SeqEqual
<1> QED
  BY <1>5 DEF p, q, r

\* The queue the array stands for holds the next bytes of the stream.
UnreadIsStream == Unread = [k \in 1..Count |-> taken + k]

LEMMA UnreadIs == BufInv => UnreadIsStream
<1> SUFFICES ASSUME BufInv PROVE UnreadIsStream
  OBVIOUS
<1>1. BufferSize \in Nat \ {0} /\ taken \in Nat /\ Count \in 0..BufferSize
  BY BufferAssumption, CountRange DEF BufInv, TypeOK
<1>2. ASSUME NEW k \in 1..Count PROVE buffer[Slot(k - 1)] = taken + k
  <2>1. k - 1 \in 0..(BufferSize - 1) /\ k - 1 < Count
    BY <1>1
  <2>2. buffer[Slot(k - 1)] = taken + (k - 1) + 1
    BY <2>1 DEF BufInv, UnreadIntact
  <2> QED
    BY <1>1, <2>1, <2>2
<1> QED
  BY <1>2 DEF Unread, UnreadIsStream

\* A Read is the queue's Take.
LEMMA ReadTakes ==
    ASSUME BufInv, UnreadIsStream, UnreadIsStream', NEW n \in 1..MaxRequest, Read(n)
    PROVE  Queue!Take(n)
<1> DEFINE m == ReadFirst(n) + ReadSecond(n)
<1>1. /\ m = Smaller(n, Count) /\ m \in 0..Count
      /\ taken' = taken + m /\ Count' = Count - m
  BY ReadAdvances
<1>2. out' = [i \in 1..m |-> taken + i] /\ written' = written /\ asked' = n
  BY ReadReturns DEF Read
<1>3. taken \in Nat /\ Count \in Nat
  BY CountRange, BufferAssumption DEF BufInv, TypeOK
<1>4. Unread = [k \in 1..Count |-> taken + k]
  BY DEF UnreadIsStream
<1>5. Unread' = [k \in 1..Count' |-> taken' + k]
  BY DEF UnreadIsStream
<1> HIDE DEF m
<1>6. Len(Unread) = Count
  BY <1>3, <1>4
<1>7. Queue!Shorter(n, Len(Unread)) = m
  BY <1>1, <1>6 DEF Queue!Shorter, Smaller
<1>8. SubSeq(Unread, 1, m) = out'
  BY <1>1, <1>2, <1>3, <1>4
<1>9. SubSeq(Unread, m + 1, Len(Unread)) = Unread'
  <2>1. SubSeq(Unread, m + 1, Count) = [k \in 1..(Count - m) |-> (taken + m) + k]
    BY <1>1, <1>3, <1>4, StreamTail
  <2> QED
    BY <1>1, <1>5, <1>6, <2>1
<1> QED
  BY <1>2, <1>7, <1>8, <1>9 DEF Queue!Take

\* The body of a Write is the queue's Put.
LEMMA WritePuts ==
    ASSUME BufInv, UnreadIsStream, UnreadIsStream', WriteBody
    PROVE  Queue!Put(writing)
<1> DEFINE m == WriteFirst(writing) + WriteSecond(writing)
<1>1. /\ m = Smaller(writing, BufferSize - Count) /\ m \in Nat
      /\ Count' = Count + m
  BY WriteAdvances
<1>2. written' = written + WriteFirst(writing) + WriteSecond(writing) /\ UNCHANGED <<out, asked, taken>>
  BY DEF WriteBody
<1>3. /\ taken \in Nat /\ Count \in Nat /\ written = taken + Count
      /\ BufferSize \in Nat
  BY CountRange, BufferAssumption DEF BufInv, TypeOK, UnreadIntact
<1>4. written' = written + m
  BY <1>2, <1>3, WriteAdvances
<1>5. Unread = [k \in 1..Count |-> taken + k]
  BY DEF UnreadIsStream
<1>6. Unread' = [k \in 1..Count' |-> taken' + k]
  BY DEF UnreadIsStream
<1> HIDE DEF m
<1>7. Queue!Shorter(writing, BufferSize - Len(Unread)) = m
  <2>1. Len(Unread) = Count
    BY <1>3, <1>5
  <2> QED
    BY <1>1, <2>1 DEF Queue!Shorter, Smaller
<1>8. Unread \o [i \in 1..m |-> written + i] = Unread'
  BY <1>1, <1>2, <1>3, <1>5, <1>6, StreamAppend
<1> QED
  BY <1>2, <1>4, <1>7, <1>8 DEF Queue!Put

\* The buffer implements the queue, for every size of the array and every request.
THEOREM BufferImplementsQueue == Spec => ImplementsQueue
<1>1. Init => Queue!Init
  <2> SUFFICES ASSUME Init PROVE Queue!Init
    OBVIOUS
  <2>1. Count = 0
    BY DEF Init, Count
  <2>2. Unread = <<>>
    BY <2>1 DEF Unread
  <2> QED
    BY <2>2 DEF Init, Queue!Init
<1>2. BufInv => UnreadIsStream
  BY UnreadIs
<1>3. BufInv /\ UnreadIsStream /\ UnreadIsStream' /\ [Next]_bufVars
        => [Queue!Next]_(Queue!queueVars)
  <2> SUFFICES ASSUME BufInv, UnreadIsStream, UnreadIsStream', [Next]_bufVars
               PROVE  Queue!Next \/ UNCHANGED <<Unread, written, out, asked>>
    BY DEF Queue!queueVars
  <2>1. ASSUME NEW n \in 1..MaxRequest, Read(n) PROVE Queue!Next
    BY <2>1, ReadTakes DEF Queue!Next
  <2>2. CASE WriteRefused \/ UNCHANGED bufVars
    BY <2>2 DEF WriteRefused, bufVars, Unread, Count, Slot
  <2>3. ASSUME NEW n \in 1..MaxRequest, WriteEnter(n) PROVE UNCHANGED <<Unread, written, out, asked>>
    BY <2>3 DEF WriteEnter, Unread, Count, Slot
  <2>4. CASE WriteBody
    <3>1. writing \in 1..MaxRequest
      BY <2>4, BufferAssumption DEF WriteBody, BufInv, TypeOK
    <3> QED
      BY <2>4, <3>1, WritePuts DEF Queue!Next
  <2> QED
    BY <2>1, <2>2, <2>3, <2>4 DEF Next
<1> QED
  BY <1>1, <1>2, <1>3, BufferCorrect, PTL DEF Spec, ImplementsQueue, Queue!Spec

-----------------------------------------------------------------------------
(* The buffer between the worker thread and Recv.                           *)

\* Recv never asks for nothing or for more than a payload, and what is accepted, being written and
\* still to come is no more than the device sends.
RecvAsks ==
    /\ need \in Int
    /\ pc \in Reading => need \in 1..MaxPayload

StreamFits ==
    /\ usb \in Seq(Byte)
    /\ Len(usb) + written + writing <= MaxStream

TransportInv == BufInv /\ RecvAsks /\ StreamFits

\* Bytes leave the line from its front.
LEMMA RestIs ==
    ASSUME NEW S, NEW s \in Seq(S), NEW n \in 1..Len(s)
    PROVE  Rest(s, n) \in Seq(S) /\ Len(Rest(s, n)) = Len(s) - n
BY DEF Rest

LEMMA SmallerIs ==
    ASSUME NEW a \in Int, NEW b \in Int
    PROVE  Smaller(a, b) \in Int /\ Smaller(a, b) <= a /\ Smaller(a, b) <= b
BY DEF Smaller

\* A number of bytes within the smaller of two is within each.
LEMMA FewIs ==
    ASSUME NEW a \in Int, NEW b \in Int, NEW n \in 1..Smaller(a, b)
    PROVE  n \in 1..a /\ n \in 1..b
<1>1. Smaller(a, b) \in Int /\ Smaller(a, b) <= a /\ Smaller(a, b) <= b
  BY SmallerIs
<1> QED
  BY <1>1

LEMMA TransferIs ==
    ASSUME StreamFits, NEW n \in 1..Smaller(Transfer, Len(usb))
    PROVE  /\ n \in 1..Len(usb) /\ n \in 1..MaxRequest
           /\ Rest(usb, n) \in Seq(Byte) /\ Len(Rest(usb, n)) = Len(usb) - n
<1>1. Len(usb) \in Nat /\ Transfer \in Nat /\ Transfer <= MaxRequest /\ MaxRequest \in Nat
  BY TransportAssumption, BufferAssumption DEF StreamFits
<1>2. /\ Smaller(Transfer, Len(usb)) \in Int /\ Smaller(Transfer, Len(usb)) <= Transfer
      /\ Smaller(Transfer, Len(usb)) <= Len(usb)
  BY <1>1, SmallerIs
<1>3. n \in Int /\ 1 <= n /\ n <= Smaller(Transfer, Len(usb))
  BY <1>2
<1>4. n \in 1..Len(usb) /\ n \in 1..MaxRequest
  BY <1>1, <1>2, <1>3
<1> QED
  BY <1>4, RestIs DEF StreamFits

\* A read of either kind of port.
LEMMA TakeStep ==
    ASSUME TransportInv, TakeBytes, pc \in Reading
    PROVE  /\ [Next]_bufVars /\ written' = written /\ writing' = writing
           /\ usb' = usb \/ \E n \in 1..Len(usb) : usb' = Rest(usb, n)
<1>1. need \in 1..MaxRequest /\ need \in Int /\ Len(usb) \in Nat
  BY TransportAssumption, BufferAssumption DEF TransportInv, RecvAsks, StreamFits
<1>2. CASE port = "android" /\ Read(need) /\ UNCHANGED workerVars
  BY <1>1, <1>2 DEF Next, Read, workerVars
<1>3. CASE /\ port # "android"
           /\ \E n \in 1..Smaller(need, Len(usb)) : usb' = Rest(usb, n)
           /\ UNCHANGED <<bufVars, port, sending, accepted, losses>>
  <2>1. PICK n \in 1..Smaller(need, Len(usb)) : usb' = Rest(usb, n)
    BY <1>3
  <2>2. n \in 1..Len(usb)
    BY <1>1, FewIs
  <2>3. UNCHANGED bufVars
    BY <1>3
  <2> QED
    BY <2>1, <2>2, <2>3 DEF bufVars
<1> QED
  BY <1>2, <1>3 DEF TakeBytes

\* What a read leaves on the line still fits.
LEMMA TakeFits ==
    ASSUME TransportInv, written' = written, writing' = writing,
           usb' = usb \/ \E n \in 1..Len(usb) : usb' = Rest(usb, n)
    PROVE  StreamFits'
<1>1. usb \in Seq(Byte) /\ Len(usb) \in Nat /\ Len(usb) + written + writing <= MaxStream
      /\ written \in Nat /\ writing \in Nat /\ MaxStream \in Nat
  BY BufferAssumption DEF TransportInv, StreamFits, BufInv, TypeOK
<1>2. usb' \in Seq(Byte) /\ Len(usb') \in Nat /\ Len(usb') <= Len(usb)
  <2>1. CASE usb' = usb
    BY <1>1, <2>1
  <2>2. ASSUME NEW n \in 1..Len(usb), usb' = Rest(usb, n) PROVE usb' \in Seq(Byte) /\ Len(usb') = Len(usb) - n
    BY <1>1, <2>2, RestIs
  <2> QED
    BY <1>1, <2>1, <2>2
<1> QED
  BY <1>1, <1>2 DEF StreamFits

\* RecvBytes is asked for a field of a size that Recv has checked, or Recv returns.
LEMMA AskAsks ==
    ASSUME NEW field \in Reading, NEW n \in 1..MaxPayload, Ask(field, n)
    PROVE  RecvAsks'
BY TransportAssumption DEF Ask, RecvAsks

LEMMA ReturnAsks == ASSUME NEW status, Return(status) PROVE RecvAsks'
  BY DEF Return, RecvAsks, Reading

\* A payload is no longer than the packet's array.
LEMMA PayloadSize == \A k \in 1..Len(Payloads) : Len(Payloads[k]) \in 1..MaxPayload
  BY TransportAssumption

-----------------------------------------------------------------------------
(* The steps of Recv.                                                       *)

\* What every step of a RecvBytes keeps.
RecvKeeps == [Next]_bufVars /\ RecvAsks' /\ StreamFits'

LEMMA RecvSyncStep ==
    ASSUME TransportInv, NEW field \in {"sync1", "sync2"}, NEW sym, NEW next \in Reading,
           RecvSync(field, sym, next)
    PROVE  RecvKeeps
<1>1. TakeBytes /\ pc \in Reading
  BY DEF RecvSync, Complete, Reading
<1>2. 1 \in 0..MaxPayload
  BY TransportAssumption
<1>3. Ask(next, 1) \/ (pc' = "sync" /\ need' = 0)
  BY DEF RecvSync
<1>4. RecvAsks'
  BY <1>2, <1>3, AskAsks DEF RecvAsks, Reading
<1> QED
  BY <1>1, <1>4, TakeStep, TakeFits DEF RecvKeeps

\* What Recv does with payload_size.
LEMMA SizeChecked ==
    ASSUME RecvHeader
    PROVE  \/ Return("RecvFailed")
           \/ got' = Now /\ Ask("hmac", 1)
           \/ \E size \in Sizes(Fresh[1]) :
                size # 0 /\ ~(size > MaxPayload) /\ got' = Now /\ Ask("payload", size)
<1>1. PICK size \in Sizes(Fresh[1]) :
        IF size > MaxPayload THEN Return("RecvFailed")
        ELSE IF size = 0 THEN EmptyPayload
        ELSE got' = Now /\ Ask("payload", size)
  BY DEF RecvHeader
<1> QED
  BY <1>1 DEF EmptyPayload

LEMMA RecvFieldStep ==
    ASSUME TransportInv,
           \/ RecvVersion \/ RecvHeader \/ RecvField("payload", "hmac")
           \/ RecvField("hmac", "crc") \/ RecvCrc
    PROVE  RecvKeeps
<1>1. TakeBytes /\ pc \in Reading
  BY DEF RecvVersion, RecvHeader, RecvField, RecvCrc, Complete, Reading
<1>2. 1 \in 1..MaxPayload
  BY TransportAssumption
<1>3. \/ \E field \in Reading : Ask(field, 1)
      \/ \E status : Return(status)
      \/ \E size \in Sizes(Fresh[1]) : size # 0 /\ ~(size > MaxPayload) /\ Ask("payload", size)
  <2>1. RecvHeader => \/ \E status : Return(status)
                      \/ \E field \in Reading : Ask(field, 1)
                      \/ \E size \in Sizes(Fresh[1]) :
                           size # 0 /\ ~(size > MaxPayload) /\ Ask("payload", size)
    BY SizeChecked DEF Reading
  <2> QED
    BY <2>1 DEF RecvVersion, RecvField, RecvCrc, Reading
<1>4. ASSUME NEW size \in Sizes(Fresh[1]), size # 0, ~(size > MaxPayload), Ask("payload", size)
      PROVE  RecvAsks'
  <2>1. size \in Nat
    BY <1>4, TransportAssumption, PayloadSize DEF Sizes, Indices
  <2>2. size \in 1..MaxPayload
    BY <1>4, <2>1, TransportAssumption
  <2> QED
    BY <1>4, <2>2, AskAsks DEF Reading
<1>5. RecvAsks'
  BY <1>2, <1>3, <1>4, AskAsks, ReturnAsks
<1> QED
  BY <1>1, <1>5, TakeStep, TakeFits DEF RecvKeeps

LEMMA GiveUpAsks == ASSUME RecvAsks, NEW bytes, NEW status, GiveUp(bytes, status) PROVE RecvAsks'
<1>1. (pc' = "sync" /\ need' = 0) \/ Return(status)
  BY DEF GiveUp
<1> QED
  BY <1>1, ReturnAsks DEF RecvAsks, Reading

LEMMA BytesStutter ==
    ASSUME TransportInv, UNCHANGED bufVars, usb' = usb PROVE [Next]_bufVars /\ StreamFits'
BY DEF bufVars, TransportInv, StreamFits

LEMMA RecvPartStep == ASSUME TransportInv, RecvPart PROVE RecvKeeps
<1>1. TakeBytes /\ pc \in Reading /\ pc' = pc
  BY DEF RecvPart
<1>2. Len(Fresh) \in 1..(need - 1) /\ need' = need - Len(Fresh)
  BY DEF RecvPart
<1>3. need \in 1..MaxPayload /\ MaxPayload \in Nat
  BY <1>1, TransportAssumption DEF TransportInv, RecvAsks
<1>4. need' \in 1..MaxPayload
  BY <1>2, <1>3
<1>5. RecvAsks'
  BY <1>4, <1>3 DEF RecvAsks
<1> QED
  BY <1>1, <1>5, TakeStep, TakeFits DEF RecvKeeps

LEMMA RecvEndStep ==
    ASSUME TransportInv, RecvShort \/ RecvError \/ RecvBytesTimeout PROVE RecvKeeps
<1>1. CASE RecvShort
  <2>1. TakeBytes /\ pc \in Reading /\ GiveUp(got \o Fresh, "RecvTimeout")
    BY <1>1 DEF RecvShort
  <2> QED
    BY <2>1, TakeStep, TakeFits, GiveUpAsks DEF RecvKeeps, TransportInv
<1>2. CASE RecvError
  <2>1. GiveUp(got, "RecvFailed") /\ UNCHANGED bufVars /\ usb' = usb
    BY <1>2 DEF RecvError, workerVars
  <2> QED
    BY <2>1, BytesStutter, GiveUpAsks DEF RecvKeeps, TransportInv
<1>3. CASE RecvBytesTimeout
  <2>1. GiveUp(got, "RecvTimeout") /\ UNCHANGED bufVars /\ usb' = usb
    BY <1>3 DEF RecvBytesTimeout, workerVars
  <2> QED
    BY <2>1, BytesStutter, GiveUpAsks DEF RecvKeeps, TransportInv
<1> QED
  BY <1>1, <1>2, <1>3

LEMMA SyncTopStep == ASSUME TransportInv, SyncTop PROVE RecvKeeps
<1>1. UNCHANGED bufVars /\ usb' = usb /\ (Ask("sync1", 1) \/ Return("RecvTimeout"))
  BY DEF SyncTop, workerVars
<1>2. 1 \in 0..MaxPayload /\ "sync1" \in Reading
  BY TransportAssumption DEF Reading
<1> QED
  BY <1>1, <1>2, BytesStutter, AskAsks, ReturnAsks DEF RecvKeeps

LEMMA RecvStep == ASSUME TransportInv, Recv PROVE RecvKeeps
BY SyncTopStep, RecvSyncStep, RecvFieldStep, RecvPartStep, RecvEndStep DEF Recv, Reading

-----------------------------------------------------------------------------
(* The other steps.                                                         *)

LEMMA CallStep == ASSUME TransportInv, Call PROVE RecvKeeps
<1>1. UNCHANGED bufVars /\ usb' = usb /\ pc' = "sync" /\ need' = 0
  BY DEF Call, workerVars
<1> QED
  BY <1>1, BytesStutter DEF RecvKeeps, RecvAsks, Reading

LEMMA ExpireStep == ASSUME TransportInv, Expire PROVE RecvKeeps
<1>1. UNCHANGED bufVars /\ usb' = usb /\ pc' = pc /\ need' = need
  BY DEF Expire, workerVars
<1> QED
  BY <1>1, BytesStutter DEF RecvKeeps, RecvAsks, TransportInv

LEMMA LineLosesStep == ASSUME TransportInv, LineLoses PROVE RecvKeeps
<1>1. PICK n \in 1..Smaller(Transfer, Len(usb)) : usb' = Rest(usb, n)
  BY DEF LineLoses
<1>2. UNCHANGED bufVars /\ pc' = pc /\ need' = need
  BY DEF LineLoses, recvVars
<1>3. n \in 1..Len(usb)
  BY TransferIs DEF TransportInv
<1> QED
  BY <1>1, <1>2, <1>3, TakeFits DEF RecvKeeps, RecvAsks, TransportInv, bufVars

LEMMA WorkerTransferStep == ASSUME TransportInv, WorkerTransfer PROVE RecvKeeps
<1>1. PICK n \in 1..Smaller(Transfer, Len(usb)) :
        /\ usb' = Rest(usb, n)
        /\ \/ UNCHANGED bufVars
           \/ WriteEnter(n)
        /\ UNCHANGED recvVars
  BY DEF WorkerTransfer
<1>2. /\ n \in 1..Len(usb) /\ n \in 1..MaxRequest
      /\ Rest(usb, n) \in Seq(Byte) /\ Len(Rest(usb, n)) = Len(usb) - n
  BY TransferIs DEF TransportInv
<1>3. RecvAsks'
  BY <1>1 DEF recvVars, RecvAsks, TransportInv
<1>4. CASE UNCHANGED bufVars
  BY <1>1, <1>2, <1>3, <1>4, TakeFits DEF RecvKeeps, bufVars
<1>5. CASE WriteEnter(n)
  <2>1. writing = 0 /\ writing' = n /\ written' = written
    BY <1>5 DEF WriteEnter
  <2>2. /\ Len(usb) \in Nat /\ written \in Nat /\ MaxStream \in Nat
        /\ Len(usb) + written + writing <= MaxStream
    BY BufferAssumption DEF TransportInv, StreamFits, BufInv, TypeOK
  <2>3. written + n <= MaxStream
    BY <1>2, <2>1, <2>2
  <2>4. Len(usb') + written' + writing' <= MaxStream
    BY <1>1, <1>2, <2>1, <2>2
  <2> QED
    BY <1>1, <1>2, <1>3, <1>5, <2>3, <2>4 DEF RecvKeeps, StreamFits, Next
<1> QED
  BY <1>1, <1>4, <1>5

LEMMA WorkerWriteStep == ASSUME TransportInv, WorkerWrite PROVE RecvKeeps
<1>1. WriteBody /\ usb' = usb /\ UNCHANGED recvVars
  BY DEF WorkerWrite
<1>2. BufInv /\ writing \in Nat /\ written \in Nat
  BY BufferAssumption DEF TransportInv, BufInv, TypeOK
<1>3. WriteFirst(writing) \in Nat /\ WriteSecond(writing) \in Nat
  BY <1>2, <1>1, WriteAdvances
<1>4. written' = written + WriteFirst(writing) + WriteSecond(writing)
  BY <1>1 DEF WriteBody
<1>5. written' = written + (WriteFirst(writing) + WriteSecond(writing)) /\ writing' = 0 /\ writing > 0
  BY <1>2, <1>1, <1>3, <1>4 DEF WriteBody
<1>6. /\ WriteFirst(writing) + WriteSecond(writing) = Smaller(writing, BufferSize - Count)
      /\ BufferSize - Count \in Int /\ writing \in Nat /\ written \in Nat
  BY <1>2, <1>1, CountRange, WriteAdvances, BufferAssumption
<1>7. /\ Smaller(writing, BufferSize - Count) <= writing
      /\ Smaller(writing, BufferSize - Count) \in Int
  BY <1>6, SmallerIs
<1>8. usb \in Seq(Byte) /\ Len(usb) \in Nat /\ Len(usb) + written + writing <= MaxStream /\ MaxStream \in Nat
  BY BufferAssumption DEF TransportInv, StreamFits
<1>9. Len(usb') + written' + writing' <= MaxStream
  BY <1>1, <1>5, <1>6, <1>7, <1>8
<1> QED
  BY <1>1, <1>8, <1>9 DEF RecvKeeps, StreamFits, RecvAsks, TransportInv, recvVars, Next

-----------------------------------------------------------------------------

LEMMA TransportInvInit == TransportInit => Init /\ TransportInv
<1> SUFFICES ASSUME TransportInit PROVE Init /\ TransportInv
  OBVIOUS
<1>1. Init /\ BufInv
  BY BufInvInit DEF TransportInit
<1>2. RecvAsks
  BY DEF TransportInit, RecvAsks, Reading
<1>3. usb = Stream[Len(Payloads)] /\ written = 0 /\ writing = 0
  BY DEF TransportInit, Init
<1>4. Stream[Len(Payloads)] \in Seq(Byte) /\ Len(Stream[Len(Payloads)]) <= MaxStream
  BY StreamAssumption
<1>5. Len(usb) \in Nat
  BY <1>3, <1>4
<1> QED
  BY <1>1, <1>2, <1>3, <1>4, <1>5 DEF TransportInv, StreamFits

LEMMA TransportInvStep ==
    TransportInv /\ [TransportNext]_vars => [Next]_bufVars /\ TransportInv'
<1> SUFFICES ASSUME TransportInv, [TransportNext]_vars PROVE [Next]_bufVars /\ TransportInv'
  OBVIOUS
<1>1. RecvKeeps
  <2>1. CASE UNCHANGED vars
    BY <2>1, BytesStutter DEF vars, portVars, recvVars, workerVars, RecvKeeps, RecvAsks, TransportInv
  <2>2. CASE TransportNext
    BY <2>2, CallStep, RecvStep, ExpireStep, WorkerTransferStep, WorkerWriteStep, LineLosesStep
       DEF TransportNext
  <2> QED
    BY <2>1, <2>2
<1> QED
  BY <1>1, BufInvStep DEF RecvKeeps, TransportInv

\* Recv and the worker thread only ever use the cyclic buffer as its own specification does: they
\* ask it for at least one byte and never for more than a payload, and offer it whole transfers.
THEOREM TransportUsesBuffer == TransportSpec => Spec
BY TransportInvInit, TransportInvStep, PTL DEF TransportSpec, Spec

\* In place, too, no write lands on an unread byte.
THEOREM TransportKeepsUnread == TransportSpec => []UnreadIntact
BY TransportUsesBuffer, UnreadStaysIntact, PTL

\* And between the two threads the buffer is a first-in first-out queue.
THEOREM TransportImplementsQueue == TransportSpec => ImplementsQueue
BY TransportUsesBuffer, BufferImplementsQueue, PTL

-----------------------------------------------------------------------------
(* The type invariant. It needs that what Recv takes from the buffer has    *)
(* been accepted, and that only whole packets of the device pass the CRC.   *)

Statuses == {"None", "Ok", "RecvTimeout", "RecvFailed", "VersionMismatch", "CrcError"}

RecvKnown ==
    /\ pc \in {"idle", "sync"} \cup Reading /\ need \in 0..MaxPayload
    /\ got \in Seq(Byte) /\ late \in BOOLEAN /\ ret \in Statuses

\* The worker thread writes what it took from the line, and the buffer accepts a part of it.
LineKnown ==
    /\ port \in Ports
    /\ usb \in Seq(Byte) /\ sending \in Seq(Byte) /\ writing = Len(sending)
    /\ accepted \in Seq(Byte) /\ Len(accepted) = written

PacketsKnown == losses \in 0..MaxLosses /\ received \subseteq Indices /\ hurt \subseteq Indices

StreamInv == TransportInv /\ RecvKnown /\ LineKnown /\ PacketsKnown

LEMMA ByteIs == ASSUME NEW b \in Byte PROVE b.of \in Indices
BY DEF Byte

LEMMA SourcesIs == ASSUME NEW s \in Seq(Byte) PROVE Sources(s) \subseteq Indices
<1>1. \A i \in DOMAIN s : s[i] \in Byte
  OBVIOUS
<1> QED
  BY <1>1, ByteIs DEF Sources

LEMMA MemberIs == ASSUME NEW S, NEW s \in Seq(S) PROVE \A j \in DOMAIN s : s[j] \in S
OBVIOUS

LEMMA LastIs ==
    ASSUME NEW S, NEW s \in Seq(S), s # <<>> PROVE Len(s) \in 1..Len(s) /\ s[Len(s)] \in S
OBVIOUS

\* What a RecvBytes takes are bytes the device sent, from the buffer as from the driver.
LEMMA FreshIs ==
    ASSUME StreamInv, TakeBytes, pc \in Reading
    PROVE  Fresh \in Seq(Byte) /\ LineKnown' /\ losses' = losses
<1>1. need \in 1..MaxRequest /\ need \in Int /\ Len(usb) \in Nat /\ need >= 1
  BY TransportAssumption, BufferAssumption DEF StreamInv, TransportInv, RecvAsks, StreamFits
<1>2. CASE port = "android" /\ Read(need) /\ UNCHANGED workerVars
  <2> DEFINE n == ReadFirst(need) + ReadSecond(need)
             bytes == [i \in 1..Len(out') |-> ByteAt(out'[i])]
  <2>1. out' = [i \in 1..n |-> taken + i]
    BY <1>1, <1>2, ReadReturns DEF StreamInv, TransportInv
  <2>2. n \in 0..Count /\ Count \in 0..BufferSize /\ BufferSize \in Nat
    BY <1>1, <1>2, ReadAdvances, CountRange, BufferAssumption DEF StreamInv, TransportInv
  <2>3. taken \in Nat /\ written = taken + Count
    BY DEF StreamInv, TransportInv, BufInv, TypeOK, UnreadIntact
  <2>4. accepted \in Seq(Byte) /\ DOMAIN accepted = 1..written
    BY <2>3 DEF StreamInv, LineKnown
  <2> HIDE DEF n
  <2>5. Len(out') = n
    BY <2>1, <2>2
  <2>6. ASSUME NEW i \in 1..n PROVE ByteAt(out'[i]) \in Byte
    <3>1. out'[i] = taken + i /\ taken + i \in 1..written
      BY <2>1, <2>2, <2>3
    <3>2. \A j \in DOMAIN accepted : accepted[j] \in Byte
      BY <2>4, MemberIs
    <3> QED
      BY <3>1, <3>2, <2>4 DEF ByteAt
  <2>7. bytes \in Seq(Byte)
    BY <2>2, <2>5, <2>6
  <2>8. Fresh = bytes
    BY <1>2 DEF Fresh
  <2>9. writing' = writing /\ written' = written
    BY <1>2 DEF Read
  <2> QED
    BY <1>2, <2>7, <2>8, <2>9 DEF StreamInv, LineKnown, workerVars
<1>3. CASE /\ port # "android"
           /\ \E n \in 1..Smaller(need, Len(usb)) : usb' = Rest(usb, n)
           /\ UNCHANGED <<bufVars, port, sending, accepted, losses>>
  <2>1. PICK n \in 1..Smaller(need, Len(usb)) : usb' = Rest(usb, n)
    BY <1>3
  <2>2. n \in 1..Len(usb)
    BY <1>1, FewIs
  <2>3. usb \in Seq(Byte)
    BY DEF StreamInv, LineKnown
  <2>4. usb' \in Seq(Byte) /\ Len(usb) - Len(usb') = n
    BY <1>1, <2>1, <2>2, <2>3, RestIs
  <2>5. Fresh = SubSeq(usb, 1, n)
    BY <1>3, <2>4 DEF Fresh
  <2>6. SubSeq(usb, 1, n) \in Seq(Byte)
    BY <2>2, <2>3
  <2> QED
    BY <1>3, <2>4, <2>5, <2>6 DEF StreamInv, LineKnown, bufVars
<1> QED
  BY <1>2, <1>3 DEF TakeBytes

\* The packet with the field just read.
LEMMA NowIs == ASSUME StreamInv, TakeBytes, pc \in Reading PROVE Now \in Seq(Byte)
<1>1. got \in Seq(Byte) /\ Fresh \in Seq(Byte)
  BY FreshIs DEF StreamInv, RecvKnown
<1> QED
  BY <1>1 DEF Now

\* How a step of Recv ends: it asks for a field, starts looking again, or returns.
LEMMA MovesOn ==
    ASSUME StreamInv, got' \in Seq(Byte), late' \in BOOLEAN,
           \/ \E field \in Reading, n \in 1..MaxPayload : Ask(field, n)
           \/ \E status \in Statuses : Return(status)
           \/ pc' = "sync" /\ need' = 0 /\ ret' \in Statuses
    PROVE  RecvKnown'
<1>1. MaxPayload \in Nat /\ 0 \in 0..MaxPayload /\ "RecvFailed" \in Statuses /\ ret \in Statuses
  BY TransportAssumption, BufferAssumption DEF Statuses, StreamInv, RecvKnown
<1>2. ASSUME NEW status \in Statuses, Return(status) PROVE RecvKnown'
  BY <1>1, <1>2 DEF Return, RecvKnown
<1>3. ASSUME NEW field \in Reading, NEW n \in 1..MaxPayload, Ask(field, n) PROVE RecvKnown'
  BY <1>1, <1>3 DEF Ask, RecvKnown
<1>4. CASE pc' = "sync" /\ need' = 0 /\ ret' \in Statuses
  BY <1>1, <1>4 DEF RecvKnown
<1> QED
  BY <1>2, <1>3, <1>4

\* The packet that is given up was one of the device's.
LEMMA GiveUpKnown ==
    ASSUME StreamInv, NEW bytes \in Seq(Byte), NEW status \in Statuses, GiveUp(bytes, status),
           losses' = losses
    PROVE  RecvKnown' /\ PacketsKnown'
<1>1. got' \in Seq(Byte) /\ late' \in BOOLEAN
  <2>1. got' = <<>> /\ late' = late
    BY DEF GiveUp, Return
  <2> QED
    BY <2>1 DEF StreamInv, RecvKnown
<1>2. (pc' = "sync" /\ need' = 0 /\ ret' = ret) \/ Return(status)
  BY DEF GiveUp
<1>3. RecvKnown'
  BY <1>1, <1>2, MovesOn DEF StreamInv, RecvKnown
<1>4. hurt' \subseteq Indices
  <2>1. CASE bytes = <<>>
    BY <2>1 DEF GiveUp, StreamInv, PacketsKnown
  <2>2. CASE bytes # <<>>
    <3>1. bytes[Len(bytes)].of \in Indices
      BY <2>2, LastIs, ByteIs
    <3> QED
      BY <2>2, <3>1 DEF GiveUp, StreamInv, PacketsKnown
  <2> QED
    BY <2>1, <2>2
<1> QED
  BY <1>3, <1>4 DEF GiveUp, StreamInv, PacketsKnown

\* Every packet is a header, its payload, and two bytes more.
LEMMA BytesLen ==
    ASSUME NEW k \in Indices
    PROVE  Len(Bytes(k)) = Len(Payloads[k]) + 6 /\ Len(Payloads[k]) \in Nat \ {0}
<1> DEFINE syms == <<"@", "F", "v", "h">> \o Payloads[k] \o <<"m", "c">>
<1>1. Payloads[k] \in Seq(Symbols) /\ Len(Payloads[k]) \in Nat \ {0}
  BY TransportAssumption, PayloadSize DEF Indices
<1>2. Len(syms) = Len(Payloads[k]) + 6 /\ Len(syms) \in Nat
  BY <1>1
<1> HIDE DEF syms
<1>3. Bytes(k) = [i \in 1..Len(syms) |-> [sym |-> syms[i], of |-> k]]
  BY DEF Bytes, syms
<1>4. Len(Bytes(k)) = Len(syms)
  BY <1>2, <1>3
<1> QED
  BY <1>1, <1>2, <1>4

\* What passes the CRC is as long as a packet, and its fourth byte was sent in one.
LEMMA CrcKnown ==
    ASSUME NEW s \in Seq(Byte), s # <<>>, CrcMatches(s) PROVE s[4].of \in Indices
<1>1. s[Len(s)].of \in Indices
  BY LastIs, ByteIs
<1>2. Len(s) = Len(Bytes(s[Len(s)].of))
  BY DEF CrcMatches
<1>3. Len(s) \in Nat /\ Len(s) >= 7
  BY <1>1, <1>2, BytesLen
<1>4. s[4] \in Byte
  BY <1>3
<1> QED
  BY <1>4 DEF Byte

\* What every step keeps of the type.
Kept == RecvKnown' /\ LineKnown' /\ PacketsKnown'

LEMMA RecvKept ==
    ASSUME StreamInv,
           \/ RecvSync("sync1", "@", "sync2") \/ RecvSync("sync2", "F", "version")
           \/ RecvVersion \/ RecvHeader \/ RecvField("payload", "hmac")
           \/ RecvField("hmac", "crc") \/ RecvCrc
    PROVE  Kept
<1>1. TakeBytes /\ pc \in Reading /\ late' = late
  BY DEF RecvSync, RecvVersion, RecvHeader, RecvField, RecvCrc, Complete, Reading
<1>2. LineKnown' /\ losses' = losses /\ Now \in Seq(Byte)
  BY <1>1, FreshIs, NowIs
<1>3. got' = Now \/ got' = <<>>
  BY DEF RecvSync, RecvVersion, RecvHeader, EmptyPayload, RecvField, RecvCrc, Return
<1>4. got' \in Seq(Byte) /\ late' \in BOOLEAN
  <2>1. <<>> \in Seq(Byte)
    OBVIOUS
  <2> QED
    BY <1>1, <1>2, <1>3, <2>1 DEF StreamInv, RecvKnown
<1>5. \/ \E field \in Reading : Ask(field, 1)
      \/ \E status \in Statuses : Return(status)
      \/ \E size \in Sizes(Fresh[1]) : size # 0 /\ ~(size > MaxPayload) /\ Ask("payload", size)
      \/ pc' = "sync" /\ need' = 0 /\ ret' = ret
  <2>1. RecvHeader => \/ \E status \in Statuses : Return(status)
                      \/ \E field \in Reading : Ask(field, 1)
                      \/ \E size \in Sizes(Fresh[1]) :
                           size # 0 /\ ~(size > MaxPayload) /\ Ask("payload", size)
    BY SizeChecked DEF Reading, Statuses
  <2> QED
    BY <2>1 DEF RecvSync, RecvVersion, RecvField, RecvCrc, Reading, Statuses
<1>6. ASSUME NEW size \in Sizes(Fresh[1]), size # 0, ~(size > MaxPayload), Ask("payload", size)
      PROVE  \E field \in Reading, n \in 1..MaxPayload : Ask(field, n)
  <2>1. size \in Nat
    BY <1>6, TransportAssumption, PayloadSize DEF Sizes, Indices
  <2>2. size \in 1..MaxPayload
    BY <1>6, <2>1, TransportAssumption
  <2> QED
    BY <1>6, <2>2 DEF Reading
<1>7. 1 \in 1..MaxPayload
  BY TransportAssumption
<1>8. ret \in Statuses
  BY DEF StreamInv, RecvKnown
<1>9. RecvKnown'
  BY <1>4, <1>5, <1>6, <1>7, <1>8, MovesOn
<1>10. received' \subseteq Indices /\ hurt' = hurt
  <2>1. CASE RecvCrc
    <3>1. Fresh \in Seq(Byte) /\ Len(Fresh) = need /\ need \in 1..MaxPayload /\ MaxPayload \in Nat
      BY <1>1, <2>1, FreshIs, TransportAssumption
         DEF RecvCrc, Complete, StreamInv, TransportInv, RecvAsks
    <3>2. Fresh # <<>> /\ got \in Seq(Byte)
      BY <3>1 DEF StreamInv, RecvKnown
    <3>3. Now # <<>>
      BY <3>1, <3>2 DEF Now
    <3>4. CrcMatches(Now) => Now[4].of \in Indices
      BY <1>2, <3>3, CrcKnown
    <3> QED
      BY <2>1, <3>4 DEF RecvCrc, StreamInv, PacketsKnown
  <2>2. CASE ~RecvCrc
    BY <2>2 DEF RecvSync, RecvVersion, RecvHeader, RecvField, StreamInv, PacketsKnown
  <2> QED
    BY <2>1, <2>2
<1> QED
  BY <1>2, <1>9, <1>10 DEF Kept, PacketsKnown, StreamInv

LEMMA PartKept == ASSUME StreamInv, RecvPart PROVE Kept
<1>1. TakeBytes /\ pc \in Reading /\ got' = Now /\ UNCHANGED <<pc, late, ret, received, hurt>>
  BY DEF RecvPart, Now
<1>2. LineKnown' /\ losses' = losses /\ Now \in Seq(Byte) /\ Fresh \in Seq(Byte)
  BY <1>1, FreshIs, NowIs
<1>3. Len(Fresh) \in 1..(need - 1) /\ need' = need - Len(Fresh)
  BY DEF RecvPart
<1>4. need \in 1..MaxPayload /\ MaxPayload \in Nat
  BY <1>1, TransportAssumption DEF StreamInv, TransportInv, RecvAsks
<1>5. need' \in 0..MaxPayload
  BY <1>3, <1>4
<1> QED
  BY <1>1, <1>2, <1>5 DEF Kept, RecvKnown, PacketsKnown, StreamInv

LEMMA EndKept ==
    ASSUME StreamInv, RecvShort \/ RecvError \/ RecvBytesTimeout PROVE Kept
<1>1. CASE RecvShort
  <2>1. TakeBytes /\ pc \in Reading /\ GiveUp(Now, "RecvTimeout")
    BY <1>1 DEF RecvShort, Now
  <2> QED
    BY <2>1, FreshIs, NowIs, GiveUpKnown DEF Kept, Statuses
<1>2. CASE RecvError \/ RecvBytesTimeout
  <2>1. /\ GiveUp(got, "RecvFailed") \/ GiveUp(got, "RecvTimeout")
        /\ UNCHANGED bufVars /\ UNCHANGED workerVars
    BY <1>2 DEF RecvError, RecvBytesTimeout
  <2>2. LineKnown' /\ losses' = losses
    BY <2>1 DEF bufVars, workerVars, LineKnown, StreamInv
  <2>3. got \in Seq(Byte)
    BY DEF StreamInv, RecvKnown
  <2> QED
    BY <2>1, <2>2, <2>3, GiveUpKnown DEF Kept, Statuses
<1> QED
  BY <1>1, <1>2

\* Nothing moves on the line or in the buffer.
LEMMA HostKept ==
    ASSUME StreamInv, Call \/ SyncTop \/ Expire PROVE Kept
<1>1. UNCHANGED bufVars /\ UNCHANGED workerVars /\ UNCHANGED <<received, hurt>>
  BY DEF Call, SyncTop, Expire
<1>2. LineKnown' /\ PacketsKnown'
  BY <1>1 DEF bufVars, workerVars, LineKnown, PacketsKnown, StreamInv
<1>3. CASE Call
  <2>1. got' = <<>> /\ late' = FALSE /\ pc' = "sync" /\ need' = 0 /\ ret' \in Statuses
    BY <1>3 DEF Call, Statuses
  <2>2. <<>> \in Seq(Byte)
    OBVIOUS
  <2>3. RecvKnown'
    BY <2>1, <2>2, MovesOn
  <2> QED
    BY <1>2, <2>3 DEF Kept
<1>4. CASE SyncTop
  <2>1. got' = <<>> /\ late' \in BOOLEAN
    BY <1>4 DEF SyncTop, Return, StreamInv, RecvKnown
  <2>2. Ask("sync1", 1) \/ Return("RecvTimeout")
    BY <1>4 DEF SyncTop
  <2>3. 1 \in 0..MaxPayload /\ "sync1" \in Reading /\ "RecvTimeout" \in Statuses
    BY TransportAssumption DEF Reading, Statuses
  <2>4. RecvKnown'
    BY <2>1, <2>2, <2>3, MovesOn
  <2> QED
    BY <1>2, <2>4 DEF Kept
<1>5. CASE Expire
  BY <1>2, <1>5 DEF Expire, Kept, RecvKnown, StreamInv
<1> QED
  BY <1>3, <1>4, <1>5

\* A transfer of which bytes are lost.
LEMMA LoseKnown ==
    ASSUME StreamInv, NEW bytes \in Seq(Byte), Lose(bytes), received' = received PROVE PacketsKnown'
<1>1. losses' \in 0..MaxLosses
  BY TransportAssumption DEF Lose, StreamInv, PacketsKnown
<1>2. hurt' \subseteq Indices
  BY SourcesIs DEF Lose, StreamInv, PacketsKnown
<1> QED
  BY <1>1, <1>2 DEF StreamInv, PacketsKnown

LEMMA TransferKept == ASSUME StreamInv, WorkerTransfer \/ LineLoses PROVE Kept
<1>1. PICK n \in 1..Smaller(Transfer, Len(usb)) :
        /\ usb' = Rest(usb, n) /\ UNCHANGED <<port, recvVars, accepted, received>>
        /\ \/ Lose(SubSeq(usb, 1, n)) /\ UNCHANGED <<bufVars, sending>>
           \/ /\ sending = <<>> /\ WriteEnter(n) /\ sending' = SubSeq(usb, 1, n)
              /\ UNCHANGED <<losses, hurt>>
  BY DEF WorkerTransfer, LineLoses
<1>2. n \in 1..Len(usb) /\ Rest(usb, n) \in Seq(Byte)
  BY TransferIs DEF StreamInv, TransportInv
<1>3. usb \in Seq(Byte) /\ Len(usb) \in Nat
  BY DEF StreamInv, LineKnown
<1>4. SubSeq(usb, 1, n) \in Seq(Byte) /\ Len(SubSeq(usb, 1, n)) = n
  BY <1>2, <1>3
<1>5. RecvKnown'
  BY <1>1 DEF recvVars, StreamInv, RecvKnown
<1>6. CASE Lose(SubSeq(usb, 1, n)) /\ UNCHANGED <<bufVars, sending>>
  <2>1. PacketsKnown'
    BY <1>1, <1>4, <1>6, LoseKnown
  <2>2. LineKnown'
    BY <1>1, <1>2, <1>6 DEF StreamInv, LineKnown, bufVars
  <2> QED
    BY <1>5, <2>1, <2>2 DEF Kept
<1>7. CASE /\ sending = <<>> /\ WriteEnter(n) /\ sending' = SubSeq(usb, 1, n)
           /\ UNCHANGED <<losses, hurt>>
  <2>1. PacketsKnown'
    BY <1>1, <1>7 DEF StreamInv, PacketsKnown
  <2>2. writing' = n /\ written' = written
    BY <1>7 DEF WriteEnter
  <2>3. LineKnown'
    BY <1>1, <1>2, <1>4, <1>7, <2>2 DEF StreamInv, LineKnown
  <2> QED
    BY <1>5, <2>1, <2>3 DEF Kept
<1> QED
  BY <1>1, <1>6, <1>7

LEMMA WriteKept == ASSUME StreamInv, WorkerWrite PROVE Kept
<1> DEFINE m == WriteFirst(writing) + WriteSecond(writing)
<1>1. /\ WriteBody /\ accepted' = accepted \o SubSeq(sending, 1, written' - written)
      /\ Lose(Rest(sending, written' - written)) /\ sending' = <<>>
      /\ UNCHANGED <<port, recvVars, usb, received>>
  BY DEF WorkerWrite
<1>2. BufInv /\ writing \in Nat /\ written \in Nat
  BY BufferAssumption DEF StreamInv, TransportInv, BufInv, TypeOK
<1>3. WriteFirst(writing) \in Nat /\ WriteSecond(writing) \in Nat /\ m \in 1..(BufferSize - Count)
      /\ m = Smaller(writing, BufferSize - Count)
  BY <1>2, <1>1, WriteAdvances
<1>4. m \in Nat /\ m >= 1 /\ m <= writing
  <2>1. BufferSize - Count \in Int
    BY <1>2, CountRange, BufferAssumption
  <2> QED
    BY <1>2, <1>3, <2>1, SmallerIs
<1>5. written' = written + m /\ writing' = 0
  BY <1>1, <1>2, <1>3 DEF WriteBody
<1>6. sending \in Seq(Byte) /\ accepted \in Seq(Byte) /\ writing = Len(sending) /\ Len(accepted) = written
  BY DEF StreamInv, LineKnown
<1> HIDE DEF m
<1>7. written' - written = m
  BY <1>2, <1>4, <1>5
<1>8. SubSeq(sending, 1, m) \in Seq(Byte) /\ Len(SubSeq(sending, 1, m)) = m
  BY <1>4, <1>6
<1>9. accepted' \in Seq(Byte) /\ Len(accepted') = written + m
  BY <1>1, <1>4, <1>6, <1>7, <1>8
<1>10. Rest(sending, m) \in Seq(Byte)
  BY <1>4, <1>6, RestIs
<1>11. PacketsKnown'
  BY <1>1, <1>7, <1>10, LoseKnown
<1>12. RecvKnown'
  BY <1>1 DEF recvVars, StreamInv, RecvKnown
<1>13. LineKnown'
  BY <1>1, <1>5, <1>9 DEF StreamInv, LineKnown
<1> QED
  BY <1>11, <1>12, <1>13 DEF Kept

LEMMA StreamInvInit == TransportInit => StreamInv
<1> SUFFICES ASSUME TransportInit PROVE StreamInv
  OBVIOUS
<1>1. TransportInv
  BY TransportInvInit
<1>2. RecvKnown
  <2>1. 0 \in 0..MaxPayload
    BY TransportAssumption, BufferAssumption
  <2>2. got = <<>> /\ <<>> \in Seq(Byte)
    BY DEF TransportInit
  <2> QED
    BY <2>1, <2>2 DEF TransportInit, RecvKnown, Statuses
<1>3. LineKnown
  BY StreamAssumption DEF TransportInit, Init, LineKnown
<1>4. PacketsKnown
  BY TransportAssumption DEF TransportInit, PacketsKnown
<1> QED
  BY <1>1, <1>2, <1>3, <1>4 DEF StreamInv

LEMMA StreamInvStep == StreamInv /\ [TransportNext]_vars => StreamInv'
<1> SUFFICES ASSUME StreamInv, [TransportNext]_vars PROVE StreamInv'
  OBVIOUS
<1>1. TransportInv'
  BY TransportInvStep DEF StreamInv
<1>2. Kept
  <2>1. CASE UNCHANGED vars
    BY <2>1 DEF vars, bufVars, portVars, recvVars, workerVars, Kept, StreamInv, RecvKnown,
                LineKnown, PacketsKnown
  <2>2. CASE Recv
    BY <2>2, RecvKept, PartKept, EndKept, HostKept DEF Recv
  <2>3. CASE Call \/ Expire
    BY <2>3, HostKept
  <2>4. CASE WorkerTransfer \/ LineLoses
    BY <2>4, TransferKept
  <2>5. CASE WorkerWrite
    BY <2>5, WriteKept
  <2> QED
    BY <2>1, <2>2, <2>3, <2>4, <2>5 DEF TransportNext
<1> QED
  BY <1>1, <1>2 DEF Kept, StreamInv

\* The types of the stream's variables, for any packets, ports and losses: what Recv takes has been
\* sent by the device, and the bytes the buffer numbers are the bytes it accepted.
THEOREM TransportTypeCorrect == TransportSpec => []TransportTypeOK
<1>1. StreamInv => TransportTypeOK
  BY DEF StreamInv, TransportInv, BufInv, RecvKnown, LineKnown, PacketsKnown, TransportTypeOK,
         Statuses
<1> QED
  BY <1>1, StreamInvInit, StreamInvStep, PTL DEF TransportSpec

-----------------------------------------------------------------------------
(* The receiver is back in step (BackInStep).  First the stream: it is the  *)
(* packets one behind the other.                                            *)

\* A set of numbers has a least one.
LEMMA LeastExists ==
    ASSUME NEW S, S \subseteq Nat, S # {}
    PROVE  \E x \in S : \A y \in S : x <= y
<1> DEFINE Below == {ss \in Nat \X Nat : ss[1] < ss[2]}
<1>1. IsWellFoundedOn(Below, Nat)
  <2>1. OpToRel(<, Nat) = Below
    BY DEF OpToRel
  <2> QED
    BY <2>1, NatLessThanWellFounded
<1> HIDE DEF Below
<1>2. PICK x \in S : \A y \in S : ~(<<y, x>> \in Below)
  BY <1>1, WFMin
<1>3. ASSUME NEW y \in S, y < x PROVE FALSE
  <2>1. <<y, x>> \in Nat \X Nat /\ <<y, x>>[1] = y /\ <<y, x>>[2] = x
    OBVIOUS
  <2>2. <<y, x>> \in Below
    BY <1>3, <2>1 DEF Below
  <2> QED
    BY <1>2, <2>2
<1> QED
  BY <1>3

\* How many packets there are; the bytes the device sends, and how many.
Packets == Len(Payloads)
L == Len(Stream[Packets])
S == Stream[Packets]

LEMMA PacketsIs == Packets \in Nat /\ Packets >= 1 /\ Indices = 1..Packets
BY TransportAssumption DEF Packets, Indices

\* The recursion over the packets is well defined: a least number of packets for which it were not
\* would be one more than a number for which it is.
LEMMA StreamDef ==
    Stream = [k \in 0..Packets |-> IF k = 0 THEN <<>> ELSE Stream[k - 1] \o Bytes(k)]
<1> DEFINE Made(n) == \E f : f = [k \in 0..n |-> IF k = 0 THEN <<>> ELSE f[k - 1] \o Bytes(k)]
           Bad == {n \in 0..Packets : ~Made(n)}
<1> HIDE DEF Made
<1>1. Packets \in Nat
  BY PacketsIs
<1>2. SUFFICES ASSUME Bad # {} PROVE FALSE
  <2>1. Made(Packets)
    BY <1>1, <1>2
  <2> QED
    BY <2>1 DEF Stream, Packets, Made
<1>3. Bad \subseteq Nat
  BY <1>1
<1>4. PICK n \in Bad : \A i \in Bad : n <= i
  <2> HIDE DEF Bad
  <2> QED
    BY <1>2, <1>3, LeastExists
<1>5. n \in 0..Packets /\ n \in Nat /\ ~Made(n)
  BY <1>3, <1>4
<1>6. CASE n = 0
  <2> DEFINE f == [k \in 0..0 |-> <<>>]
  <2>1. f = [k \in 0..0 |-> IF k = 0 THEN <<>> ELSE f[k - 1] \o Bytes(k)]
    <3>1. \A k \in 0..0 : k = 0
      OBVIOUS
    <3> QED
      BY <3>1
  <2> QED
    BY <1>5, <1>6, <2>1 DEF Made
<1>7. CASE n # 0
  <2>1. n - 1 \in 0..Packets /\ n - 1 < n
    BY <1>1, <1>5, <1>7
  <2>2. Made(n - 1)
    <3>1. ~(n <= n - 1)
      BY <1>5
    <3> QED
      BY <1>4, <2>1, <3>1
  <2>3. PICK f : f = [k \in 0..(n - 1) |-> IF k = 0 THEN <<>> ELSE f[k - 1] \o Bytes(k)]
    BY <2>2 DEF Made
  <2> DEFINE g == [k \in 0..n |-> IF k = n THEN f[n - 1] \o Bytes(n) ELSE f[k]]
  <2>4. ASSUME NEW k \in 0..n PROVE g[k] = IF k = 0 THEN <<>> ELSE g[k - 1] \o Bytes(k)
    <3>1. CASE k = n
      <4>1. n - 1 \in 0..n /\ n - 1 # n
        BY <1>5, <1>7
      <4> QED
        BY <1>7, <3>1, <4>1
    <3>2. CASE k # n
      <4>1. k \in 0..(n - 1) /\ (k # 0 => k - 1 \in 0..n /\ k - 1 # n)
        BY <1>5, <1>7, <3>2
      <4>2. f[k] = IF k = 0 THEN <<>> ELSE f[k - 1] \o Bytes(k)
        BY <2>3, <4>1
      <4> QED
        BY <3>2, <4>1, <4>2
    <3> QED
      BY <3>1, <3>2
  <2>5. g = [k \in 0..n |-> g[k]]
    OBVIOUS
  <2>6. g = [k \in 0..n |-> IF k = 0 THEN <<>> ELSE g[k - 1] \o Bytes(k)]
    <3> HIDE DEF g
    <3> QED
      BY <2>4, <2>5
  <2> QED
    BY <1>5, <2>6 DEF Made
<1> QED
  BY <1>6, <1>7

\* The bytes of a packet; nothing behind its header looks like the start of one.
LEMMA BytesAre ==
    ASSUME NEW k \in Indices
    PROVE  /\ Bytes(k) \in Seq(Byte) /\ Len(Bytes(k)) = Len(Payloads[k]) + 6 /\ Len(Payloads[k]) \in 1..MaxPayload
           /\ \A x \in 1..Len(Bytes(k)) : Bytes(k)[x].of = k
           /\ Bytes(k)[1].sym = "@" /\ Bytes(k)[4].sym = "h" /\ Bytes(k)[Len(Bytes(k))].sym = "c"
           /\ Bytes(k)[2].sym = "F" /\ Bytes(k)[3].sym = "v"
           /\ \A x \in 2..(Len(Bytes(k)) - 2) :
                ~(Bytes(k)[x].sym = "@" /\ Bytes(k)[x + 1].sym = "F" /\ Bytes(k)[x + 2].sym = "v")
<1> DEFINE p == Payloads[k]
           n == Len(p)
           syms == <<"@", "F", "v", "h">> \o p \o <<"m", "c">>
<1>1. p \in Seq(Symbols) /\ n \in Nat /\ n \in 1..MaxPayload /\ MaxPayload \in Nat
  BY TransportAssumption, PayloadSize DEF Indices
<1>2. \A i \in 1..(n - 2) : SubSeq(p, i, i + 2) # <<"@", "F", "v">>
  BY TransportAssumption DEF Indices
<1> HIDE DEF p
<1>3. /\ Len(syms) = n + 6 /\ syms[1] = "@" /\ syms[2] = "F" /\ syms[3] = "v" /\ syms[4] = "h"
      /\ \A x \in 5..(n + 4) : syms[x] = p[x - 4]
      /\ syms[n + 5] = "m" /\ syms[n + 6] = "c"
  BY <1>1
<1> HIDE DEF syms
<1>4. Bytes(k) = [i \in 1..(n + 6) |-> [sym |-> syms[i], of |-> k]]
  BY <1>3 DEF Bytes, syms, p
<1> HIDE DEF n
<1>5. ASSUME NEW x \in 1..(n + 6) PROVE syms[x] \in Symbols \cup {"h", "m", "c"}
  <2>1. CASE x \in 5..(n + 4)
    <3>1. x - 4 \in 1..n
      BY <1>1, <2>1
    <3>2. p[x - 4] \in Symbols
      BY <1>1, <3>1 DEF n
    <3> QED
      BY <1>3, <2>1, <3>2
  <2>2. CASE x \notin 5..(n + 4)
    <3>1. x = 1 \/ x = 2 \/ x = 3 \/ x = 4 \/ x = n + 5 \/ x = n + 6
      BY <1>1, <2>2
    <3> QED
      BY <1>3, <3>1 DEF Symbols
  <2> QED
    BY <2>1, <2>2
<1>6. \A x \in 1..(n + 6) : [sym |-> syms[x], of |-> k] \in Byte
  BY <1>5 DEF Byte
<1>7. Bytes(k) \in Seq(Byte) /\ Len(Bytes(k)) = n + 6
  <2>1. Bytes(k) \in [1..(n + 6) -> Byte]
    BY <1>4, <1>6
  <2> QED
    BY <1>1, <2>1
<1>8. \A x \in 1..(n + 6) : Bytes(k)[x].sym = syms[x] /\ Bytes(k)[x].of = k
  BY <1>4
<1>9. ASSUME NEW x \in 2..(n + 4), syms[x] = "@", syms[x + 1] = "F", syms[x + 2] = "v" PROVE FALSE
  <2>1. x # 2 /\ x # 3 /\ x # 4 /\ x \in Int
    BY <1>3, <1>9
  <2>2. x + 2 # n + 5 /\ x + 2 # n + 6
    BY <1>3, <1>9
  <2>3. x \in 5..(n + 2) /\ x - 4 \in 1..(n - 2)
    BY <1>1, <2>1, <2>2
  <2> DEFINE i == x - 4
  <2>4. p[i] = "@" /\ p[i + 1] = "F" /\ p[i + 2] = "v"
    <3>1. x \in 5..(n + 4) /\ x + 1 \in 5..(n + 4) /\ x + 2 \in 5..(n + 4)
      BY <1>1, <2>3
    <3>2. (x + 1) - 4 = i + 1 /\ (x + 2) - 4 = i + 2
      BY <2>3
    <3> QED
      BY <1>3, <1>9, <3>1, <3>2
  <2>5. i \in 1..(n - 2)
    BY <2>3
  <2> HIDE DEF i
  <2>6. SubSeq(p, i, i + 2) = <<"@", "F", "v">>
    <3>1. i \in 1..Len(p) /\ i + 2 \in 1..Len(p) /\ i \in Nat /\ Len(p) \in Nat
      BY <1>1, <2>5 DEF n
    <3> DEFINE t == SubSeq(p, i, i + 2)
    <3>2. t \in Seq(Symbols) /\ Len(t) = 3 /\ t[1] = p[i] /\ t[2] = p[i + 1] /\ t[3] = p[i + 2]
      <4>1. \A j \in i..(i + 2) : p[j] \in Symbols
        BY <1>1, <3>1
      <4>2. /\ t \in Seq(Symbols) /\ Len(t) = IF i <= i + 2 THEN (i + 2) - i + 1 ELSE 0
            /\ \A j \in 1..((i + 2) - i + 1) : t[j] = p[i + j - 1]
        BY <3>1, <4>1, SubSeqProperties
      <4>3. (i + 2) - i + 1 = 3 /\ i <= i + 2 /\ i + 1 - 1 = i /\ i + 2 - 1 = i + 1 /\ i + 3 - 1 = i + 2
        BY <3>1
      <4> QED
        BY <4>2, <4>3
    <3> HIDE DEF t
    <3>3. t = <<"@", "F", "v">>
      BY <2>4, <3>2
    <3> QED
      BY <3>3 DEF t
  <2> QED
    BY <1>2, <2>5, <2>6
<1>10. /\ 1 \in 1..(n + 6) /\ 2 \in 1..(n + 6) /\ 3 \in 1..(n + 6) /\ 4 \in 1..(n + 6) /\ n + 6 \in 1..(n + 6)
       /\ \A x \in 2..(n + 4) : x \in 1..(n + 6) /\ x + 1 \in 1..(n + 6) /\ x + 2 \in 1..(n + 6)
       /\ (n + 6) - 2 = n + 4
  BY <1>1
<1> DEFINE b == Bytes(k)
<1>11. /\ b \in Seq(Byte) /\ Len(b) = n + 6
       /\ \A x \in 1..(n + 6) : b[x].sym = syms[x] /\ b[x].of = k
  BY <1>7, <1>8
<1> HIDE DEF b
<1>12. \A x \in 2..(n + 4) : ~(b[x].sym = "@" /\ b[x + 1].sym = "F" /\ b[x + 2].sym = "v")
  BY <1>9, <1>10, <1>11
<1>13. /\ b[1].sym = "@" /\ b[4].sym = "h" /\ b[n + 6].sym = "c" /\ b[2].sym = "F" /\ b[3].sym = "v"
  BY <1>3, <1>10, <1>11
<1> QED
  BY <1>1, <1>10, <1>11, <1>12, <1>13 DEF n, p, b

Start(k) == Len(Stream[k - 1])

LEMMA StreamIs ==
    /\ Stream[0] = <<>>
    /\ \A k \in Indices : Stream[k] = Stream[k - 1] \o Bytes(k)
    /\ \A k \in 0..Packets : Stream[k] \in Seq(Byte)
<1>1. Stream[0] = <<>> /\ \A k \in Indices : Stream[k] = Stream[k - 1] \o Bytes(k)
  <2>1. 0 \in 0..Packets /\ \A k \in Indices : k \in 0..Packets /\ k # 0
    BY PacketsIs
  <2>2. \A k \in 0..Packets : Stream[k] = IF k = 0 THEN <<>> ELSE Stream[k - 1] \o Bytes(k)
    BY StreamDef
  <2> QED
    BY <2>1, <2>2
<1> DEFINE Bad == {k \in 0..Packets : Stream[k] \notin Seq(Byte)}
<1>2. ASSUME NEW k \in Bad, \A i \in Bad : k <= i PROVE FALSE
  <2>1. k \in 0..Packets /\ Stream[k] \notin Seq(Byte)
    OBVIOUS
  <2>2. k # 0
    <3>1. <<>> \in Seq(Byte)
      OBVIOUS
    <3> QED
      BY <1>1, <2>1, <3>1
  <2>3. k \in Indices /\ k - 1 \in 0..Packets /\ ~(k <= k - 1)
    BY <2>1, <2>2, PacketsIs
  <2>4. Stream[k - 1] \in Seq(Byte)
    BY <1>2, <2>3
  <2>5. Bytes(k) \in Seq(Byte)
    BY <2>3, BytesAre
  <2>6. Stream[k] \in Seq(Byte)
    <3>1. \A s, b \in Seq(Byte) : s \o b \in Seq(Byte)
      OBVIOUS
    <3>2. Stream[k - 1] \o Bytes(k) \in Seq(Byte)
      BY <2>4, <2>5, <3>1
    <3> QED
      BY <1>1, <2>3, <3>2
  <2> QED
    BY <2>1, <2>6
<1>3. Bad = {}
  <2>1. Bad \subseteq Nat
    BY PacketsIs
  <2> HIDE DEF Bad
  <2> QED
    BY <1>2, <2>1, LeastExists
<1> QED
  BY <1>1, <1>3

\* A packet is where it begins.
LEMMA PacketAt ==
    ASSUME NEW k \in Indices
    PROVE  /\ Start(k) \in Nat /\ Len(Stream[k]) = Start(k) + Len(Bytes(k)) /\ Len(Stream[k]) \in Nat
           /\ \A x \in 1..Len(Bytes(k)) : Stream[k][Start(k) + x] = Bytes(k)[x]
<1>1. k - 1 \in 0..Packets
  BY PacketsIs
<1>2. Stream[k - 1] \in Seq(Byte) /\ Bytes(k) \in Seq(Byte) /\ Stream[k] = Stream[k - 1] \o Bytes(k)
  BY <1>1, StreamIs, BytesAre
<1> DEFINE s == Stream[k - 1]
           b == Bytes(k)
<1>3. s \in Seq(Byte) /\ b \in Seq(Byte) /\ Stream[k] = s \o b
  BY <1>2
<1> HIDE DEF s, b
<1>4. Len(s \o b) = Len(s) + Len(b) /\ \A x \in 1..Len(b) : (s \o b)[Len(s) + x] = b[x]
  BY <1>3
<1> QED
  BY <1>3, <1>4 DEF s, b, Start

\* What follows leaves it there.
LEMMA StreamGrows ==
    ASSUME NEW j \in 0..Packets, NEW k \in j..Packets
    PROVE  Len(Stream[j]) <= Len(Stream[k]) /\ \A p \in 1..Len(Stream[j]) : Stream[k][p] = Stream[j][p]
<1> DEFINE Kept1(n) == Len(Stream[j]) <= Len(Stream[n]) /\ \A p \in 1..Len(Stream[j]) : Stream[n][p] = Stream[j][p]
           Bad == {n \in j..Packets : ~Kept1(n)}
<1>0. j \in Nat /\ Packets \in Nat
  BY PacketsIs
<1>1. ASSUME NEW n \in Bad, \A i \in Bad : n <= i PROVE FALSE
  <2>1. n \in j..Packets /\ ~Kept1(n)
    OBVIOUS
  <2>2. n # j
    <3>1. Stream[j] \in Seq(Byte)
      BY StreamIs
    <3>2. Len(Stream[j]) <= Len(Stream[j])
      BY <3>1
    <3> QED
      BY <2>1, <3>2
  <2>3. n \in Indices /\ n - 1 \in j..Packets /\ ~(n <= n - 1) /\ n - 1 \in 0..Packets
    BY <1>0, <2>1, <2>2, PacketsIs
  <2>4. Kept1(n - 1)
    BY <1>1, <2>3
  <2> DEFINE s == Stream[n - 1]
             b == Bytes(n)
             u == Stream[j]
  <2>5. s \in Seq(Byte) /\ b \in Seq(Byte) /\ u \in Seq(Byte) /\ Stream[n] = s \o b
    BY <2>3, StreamIs, BytesAre
  <2>6. Len(u) <= Len(s) /\ \A p \in 1..Len(u) : s[p] = u[p]
    BY <2>4
  <2> HIDE DEF s, b, u
  <2>7. Len(u) <= Len(s \o b) /\ \A p \in 1..Len(u) : (s \o b)[p] = u[p]
    BY <2>5, <2>6
  <2>8. Kept1(n)
    BY <2>5, <2>7 DEF u
  <2> QED
    BY <2>1, <2>8
<1>2. Bad = {}
  <2>1. Bad \subseteq Nat
    BY <1>0
  <2> HIDE DEF Bad
  <2> QED
    BY <1>1, <2>1, LeastExists
<1>3. Kept1(k)
  <2> HIDE DEF Kept1
  <2> QED
    BY <1>2
<1> QED
  BY <1>3

Size(k) == Len(Bytes(k))

\* Where the packets are in the whole stream.
LEMMA PacketPlaces ==
    /\ L \in Nat /\ S \in Seq(Byte) /\ Len(S) = L
    /\ \A k \in Indices :
         /\ Start(k) \in Nat /\ Size(k) = Len(Payloads[k]) + 6 /\ Size(k) \in Nat /\ Size(k) >= 7
         /\ Start(k) + Size(k) <= L
         /\ \A x \in 1..Size(k) : S[Start(k) + x] = Bytes(k)[x]
    /\ \A j, k \in Indices : j < k =>
         /\ Start(j) + Size(j) <= Start(k)
         /\ Between(j, k) = Start(k) - (Start(j) + Size(j))
<1>0. Packets \in 0..Packets /\ Packets \in Nat /\ Indices = 1..Packets
  BY PacketsIs
<1>1. L \in Nat /\ S \in Seq(Byte) /\ Len(S) = L
  <2>1. S \in Seq(Byte)
    BY <1>0, StreamIs DEF S
  <2> QED
    BY <2>1 DEF L, S
<1>2. ASSUME NEW k \in Indices
      PROVE  /\ Start(k) \in Nat /\ Size(k) = Len(Payloads[k]) + 6 /\ Size(k) \in Nat /\ Size(k) >= 7
             /\ Start(k) + Size(k) <= L
             /\ \A x \in 1..Size(k) : S[Start(k) + x] = Bytes(k)[x]
  <2>1. /\ Start(k) \in Nat /\ Len(Stream[k]) = Start(k) + Size(k)
        /\ \A x \in 1..Size(k) : Stream[k][Start(k) + x] = Bytes(k)[x]
    BY PacketAt DEF Size
  <2>2. Size(k) = Len(Payloads[k]) + 6 /\ Len(Payloads[k]) \in 1..MaxPayload
    BY BytesAre DEF Size
  <2>3. Size(k) \in Nat /\ Size(k) >= 7
    BY <2>2
  <2>4. Len(Stream[k]) <= L /\ \A p \in 1..Len(Stream[k]) : S[p] = Stream[k][p]
    <3>1. k \in 0..Packets /\ Packets \in k..Packets
      BY <1>0
    <3> QED
      BY <3>1, StreamGrows DEF L, S
  <2>5. ASSUME NEW x \in 1..Size(k) PROVE S[Start(k) + x] = Bytes(k)[x]
    <3>1. Start(k) + x \in 1..Len(Stream[k])
      BY <2>1, <2>3
    <3> QED
      BY <2>1, <2>4, <3>1
  <2> QED
    BY <2>1, <2>2, <2>3, <2>4, <2>5
<1>3. ASSUME NEW j \in Indices, NEW k \in Indices, j < k
      PROVE  /\ Start(j) + Size(j) <= Start(k)
             /\ Between(j, k) = Start(k) - (Start(j) + Size(j))
  <2>1. Len(Stream[j]) = Start(j) + Size(j)
    BY PacketAt DEF Size
  <2>2. j \in 0..Packets /\ k - 1 \in j..Packets
    BY <1>0, <1>3
  <2>3. Len(Stream[j]) <= Len(Stream[k - 1])
    BY <2>2, StreamGrows
  <2> QED
    BY <2>1, <2>3 DEF Between, Start
<1> QED
  BY <1>1, <1>2, <1>3

\* Every byte of the stream is in a packet, the one it says.
LEMMA OfIs ==
    ASSUME NEW p \in 1..L
    PROVE  /\ S[p] \in Byte /\ S[p].of \in Indices
           /\ p - Start(S[p].of) \in 1..Size(S[p].of)
           /\ S[p] = Bytes(S[p].of)[p - Start(S[p].of)]
<1> DEFINE Ends == {k \in 0..Packets : p <= Len(Stream[k])}
<1>0. Packets \in 0..Packets /\ Packets \in Nat /\ Indices = 1..Packets /\ L \in Nat /\ p \in Nat /\ 1 <= p /\ p <= L
  BY PacketsIs, PacketPlaces
<1>1. Packets \in Ends /\ Ends \subseteq Nat
  BY <1>0 DEF L
<1>2. PICK k \in Ends : \A i \in Ends : k <= i
  <2> HIDE DEF Ends
  <2> QED
    BY <1>1, LeastExists
<1>3. k # 0
  <2>1. Len(<<>>) = 0
    OBVIOUS
  <2> QED
    BY <1>0, <1>2, <2>1, StreamIs
<1>4. k \in Indices /\ k - 1 \in 0..Packets /\ ~(k <= k - 1)
  BY <1>0, <1>2, <1>3
<1>5. ~(p <= Start(k))
  BY <1>2, <1>4 DEF Start
<1>6. Start(k) \in Nat /\ Len(Stream[k]) = Start(k) + Size(k) /\ Size(k) \in Nat
  BY <1>4, PacketAt, PacketPlaces DEF Size
<1>7. p - Start(k) \in 1..Size(k) /\ Start(k) + (p - Start(k)) = p
  BY <1>0, <1>2, <1>5, <1>6
<1>8. S[p] = Bytes(k)[p - Start(k)]
  BY <1>4, <1>7, PacketPlaces
<1>9. Bytes(k)[p - Start(k)].of = k
  BY <1>4, <1>7, BytesAre DEF Size
<1>10. S[p] \in Byte
  BY <1>0, PacketPlaces
<1> QED
  BY <1>4, <1>7, <1>8, <1>9, <1>10

\* A byte within a packet is that packet's.
LEMMA WithinIs ==
    ASSUME NEW k \in Indices, NEW x \in 1..Size(k)
    PROVE  Start(k) + x \in 1..L /\ S[Start(k) + x].of = k /\ S[Start(k) + x] = Bytes(k)[x]
<1>1. S[Start(k) + x] = Bytes(k)[x] /\ Start(k) \in Nat /\ Start(k) + Size(k) <= L /\ L \in Nat /\ Size(k) \in Nat
  BY PacketPlaces
<1>2. Start(k) + x \in 1..L
  BY <1>1
<1>3. Bytes(k)[x].of = k
  BY BytesAre DEF Size
<1> QED
  BY <1>1, <1>2, <1>3

-----------------------------------------------------------------------------
(* Where the bytes that have arrived were in the stream.                    *)

\* The byte u[x] was sent as the one at a[x]; of what was sent from the first of them on, up to q,
\* only packets that are hurt miss bytes.
Traced(a, u, q, h) ==
    /\ q \in 0..L /\ u \in Seq(Byte)
    /\ a \in [1..Len(u) -> 1..q]
    /\ \A x \in 1..Len(u) : u[x] = S[a[x]]
    /\ \A x, y \in 1..Len(u) : x < y => a[x] < a[y]
    /\ \A x \in 1..Len(u) : \A p \in a[x]..q : S[p].of \in h \/ \E y \in 1..Len(u) : a[y] = p

\* Recv has taken the first n of them; those it has taken begin a packet and are nothing else.
ToCome(a, u, n, q) == {a[x] : x \in (n + 1)..Len(u)} \cup (q + 1)..L
InStep(a, n, k) == n >= 1 /\ \A x \in 1..n : a[x] = Start(k) + x
Covered(k, h) == \E j \in h : j < k /\ Between(j, k) < Swallowed

\* A packet that is not hurt is still to come, is being read, has been returned, or begins close
\* behind one that is hurt.
Accounted(a, u, n, q, h, r) ==
    \A k \in Indices \ (h \cup r) :
        Start(k) + 1 \in ToCome(a, u, n, q) \/ InStep(a, n, k) \/ Covered(k, h)

LEMMA SwallowedIs == Swallowed = MaxPayload + 3 /\ MaxPayload \in Nat /\ MaxPayload >= 1
BY TransportAssumption, BufferAssumption DEF Swallowed

LEMMA TracedIs ==
    ASSUME NEW a, NEW u, NEW q, NEW h, Traced(a, u, q, h)
    PROVE  /\ q \in Nat /\ q <= L /\ L \in Nat /\ u \in Seq(Byte) /\ Len(u) \in Nat
           /\ \A x \in 1..Len(u) : a[x] \in 1..q /\ a[x] \in 1..L /\ a[x] \in Int /\ u[x] = S[a[x]]
           /\ \A x, y \in 1..Len(u) : x < y => a[x] < a[y]
<1>1. /\ q \in 0..L /\ u \in Seq(Byte) /\ a \in [1..Len(u) -> 1..q] /\ L \in Nat
      /\ \A x \in 1..Len(u) : u[x] = S[a[x]]
      /\ \A x, y \in 1..Len(u) : x < y => a[x] < a[y]
  BY PacketPlaces DEF Traced
<1>2. q \in Nat /\ q <= L /\ Len(u) \in Nat
  BY <1>1
<1>3. ASSUME NEW x \in 1..Len(u) PROVE a[x] \in 1..q /\ a[x] \in 1..L /\ a[x] \in Int
  <2>1. a[x] \in 1..q
    BY <1>1
  <2> QED
    BY <1>1, <1>2, <2>1
<1> QED
  BY <1>1, <1>2, <1>3

\* What is missing between two bytes that follow each other is of packets that are hurt.
LEMMA GapIsHurt ==
    ASSUME NEW a, NEW u, NEW q, NEW h, Traced(a, u, q, h),
           NEW x \in 1..Len(u), x + 1 \in 1..Len(u), NEW p \in Int, a[x] < p, p < a[x + 1]
    PROVE  S[p].of \in h
<1>1. Len(u) \in Nat /\ q \in Int /\ \A y \in 1..Len(u) : a[y] \in Int /\ a[y] <= q
  BY PacketPlaces DEF Traced
<1>2. p \in a[x]..q
  BY <1>1
<1>3. ASSUME NEW y \in 1..Len(u), a[y] = p PROVE FALSE
  <2>1. y <= x \/ y >= x + 1
    OBVIOUS
  <2>2. CASE y <= x
    <3>1. a[y] <= a[x]
      BY <1>1, <2>2 DEF Traced
    <3> QED
      BY <1>1, <1>3, <3>1
  <2>3. CASE y >= x + 1
    <3>1. a[x + 1] <= a[y]
      BY <1>1, <2>3 DEF Traced
    <3> QED
      BY <1>1, <1>3, <3>1
  <2> QED
    BY <2>1, <2>2, <2>3
<1> QED
  BY <1>2, <1>3 DEF Traced

\* The byte before a packet is the CRC of the one before it.
LEMMA BeforeIs ==
    ASSUME NEW k \in Indices, Start(k) >= 1
    PROVE  /\ Start(k) \in 1..L /\ S[Start(k)].sym = "c" /\ S[Start(k)].of \in Indices
           /\ S[Start(k)].of < k /\ Between(S[Start(k)].of, k) = 0
<1> DEFINE p == Start(k)
           j == S[p].of
<1>1. p \in Nat /\ p + Size(k) <= L /\ Size(k) \in Nat /\ L \in Nat
  BY PacketPlaces
<1>2. p \in 1..L
  BY <1>1
<1>3. /\ j \in Indices /\ p - Start(j) \in 1..Size(j) /\ S[p] = Bytes(j)[p - Start(j)]
      /\ Start(j) \in Nat /\ Size(j) \in Nat
  BY <1>2, OfIs, PacketPlaces
<1>4. j < k
  <2>1. j # k
    BY <1>1, <1>3
  <2>2. ~(k < j)
    <3>1. k < j => p + Size(k) <= Start(j)
      BY <1>3, PacketPlaces
    <3> QED
      BY <1>1, <1>3, <3>1
  <2>3. j \in Int /\ k \in Int
    BY <1>3, PacketsIs
  <2> QED
    BY <2>1, <2>2, <2>3
<1>5. Start(j) + Size(j) <= p /\ Between(j, k) = p - (Start(j) + Size(j))
  BY <1>3, <1>4, PacketPlaces
<1>6. p - Start(j) = Size(j) /\ Between(j, k) = 0
  BY <1>1, <1>3, <1>5
<1>7. Bytes(j)[Size(j)].sym = "c"
  BY <1>3, BytesAre DEF Size
<1> QED
  BY <1>2, <1>3, <1>4, <1>6, <1>7

\* A set of packets has a last one.
LEMMA LastExists ==
    ASSUME NEW T, T \subseteq Indices, T # {}
    PROVE  \E j \in T : \A i \in T : i <= j
<1> DEFINE Far == {Packets - i : i \in T}
<1>1. Packets \in Nat /\ \A i \in T : i \in Int /\ Packets - i \in Nat
  BY PacketsIs
<1>2. Far \subseteq Nat /\ Far # {}
  BY <1>1
<1>3. PICK x \in Far : \A y \in Far : x <= y
  <2> HIDE DEF Far
  <2> QED
    BY <1>2, LeastExists
<1>4. PICK j \in T : x = Packets - j
  BY <1>3
<1>5. ASSUME NEW i \in T PROVE i <= j
  <2>1. x <= Packets - i
    BY <1>3
  <2> QED
    BY <1>1, <1>4, <2>1
<1> QED
  BY <1>5

\* A packet is before another when a byte of it is, and bytes of different packets are in their order.
LEMMA OrderIs ==
    ASSUME NEW p \in 1..L, NEW k \in Indices
    PROVE  /\ p <= Start(k) => S[p].of < k
           /\ p > Start(k) + Size(k) => k < S[p].of
           /\ p > Start(k) /\ p <= Start(k) + Size(k) => S[p].of = k
<1> DEFINE j == S[p].of
<1>1. /\ j \in Indices /\ p - Start(j) \in 1..Size(j) /\ Start(j) \in Nat /\ Size(j) \in Nat
      /\ Start(k) \in Nat /\ Size(k) \in Nat /\ p \in Int /\ Size(k) >= 7
  BY OfIs, PacketPlaces
<1>2. /\ j < k => Start(j) + Size(j) <= Start(k)
      /\ k < j => Start(k) + Size(k) <= Start(j)
  BY <1>1, PacketPlaces
<1>3. j \in Int /\ k \in Int
  BY <1>1, PacketsIs
<1> HIDE DEF j
<1>4. p > Start(j) /\ p <= Start(j) + Size(j)
  BY <1>1
<1>5. j < k \/ j = k \/ k < j
  BY <1>3
<1>6. p <= Start(k) => j < k
  BY <1>1, <1>2, <1>4, <1>5
<1>7. p > Start(k) + Size(k) => k < j
  BY <1>1, <1>2, <1>4, <1>5
<1>8. p > Start(k) /\ p <= Start(k) + Size(k) => j = k
  BY <1>1, <1>2, <1>4, <1>5
<1> QED
  BY <1>6, <1>7, <1>8 DEF j

\* The packet behind one that is hurt.
LEMMA CoveredBy ==
    ASSUME NEW h, NEW j \in h, NEW k, j < k, Between(j, k) = 0 PROVE Covered(k, h)
<1>1. 0 < Swallowed
  BY SwallowedIs
<1>2. Between(j, k) < Swallowed
  BY <1>1
<1> QED
  BY <1>2 DEF Covered

\* A packet that begins behind one or two bytes which Recv took for sync bytes follows one that
\* lost its end.
LEMMA BehindSync ==
    ASSUME NEW a, NEW u, NEW q, NEW h, Traced(a, u, q, h), h \subseteq Indices,
           NEW y \in 1..Len(u), y + 1 \in 1..Len(u), u[y].sym # "c",
           NEW k \in Indices, a[y + 1] = Start(k) + 1
    PROVE  Covered(k, h)
<1>1. /\ a[y] \in Int /\ 1 <= a[y] /\ a[y] < a[y + 1] /\ Start(k) \in Nat /\ u[y] = S[a[y]]
  <2>1. /\ \A x \in 1..Len(u) : a[x] \in 1..q /\ a[x] \in Int /\ u[x] = S[a[x]]
        /\ \A x, z \in 1..Len(u) : x < z => a[x] < a[z]
    BY TracedIs
  <2>2. y < y + 1 /\ Start(k) \in Nat
    BY PacketPlaces
  <2>3. a[y] \in 1..q /\ a[y] \in Int /\ u[y] = S[a[y]]
    BY <2>1
  <2>4. a[y] < a[y + 1]
    BY <2>1, <2>2
  <2> QED
    BY <2>2, <2>3, <2>4
<1>2. Start(k) >= 1 /\ a[y] <= Start(k)
  BY <1>1
<1>3. /\ S[Start(k)].sym = "c" /\ S[Start(k)].of \in Indices
      /\ S[Start(k)].of < k /\ Between(S[Start(k)].of, k) = 0
  BY <1>2, BeforeIs
<1>4. a[y] # Start(k)
  BY <1>1, <1>3
<1>5. a[y] < Start(k) /\ Start(k) < a[y + 1]
  BY <1>1, <1>2, <1>4
<1>6. S[Start(k)].of \in h
  BY <1>1, <1>5, GapIsHurt
<1> QED
  BY <1>3, <1>6, CoveredBy

\* One that begins within the bytes Recv reads behind a header that is none follows closely one
\* that is hurt: the packets after the last such one are all among those bytes.
LEMMA BehindHeader ==
    ASSUME NEW a, NEW u, NEW q, NEW h, Traced(a, u, q, h), h \subseteq Indices,
           NEW y \in 4..Len(u), y <= MaxPayload + 6, u[3].of \in h,
           NEW k \in Indices \ h, a[y] = Start(k) + 1
    PROVE  Covered(k, h)
<1>0. /\ Len(u) \in Nat /\ 3 \in 1..Len(u) /\ y \in 1..Len(u) /\ y \in Int /\ q \in 0..L /\ L \in Nat
      /\ \A x \in 1..Len(u) : a[x] \in 1..L /\ a[x] \in Int /\ u[x] = S[a[x]]
      /\ \A x, z \in 1..Len(u) : x < z => a[x] < a[z]
  <2>1. q \in Nat /\ q <= L /\ L \in Nat /\ Len(u) \in Nat
    BY TracedIs
  <2>2. 3 \in 1..Len(u) /\ y \in 1..Len(u) /\ y \in Int /\ q \in 0..L
    BY <2>1
  <2>3. \A x \in 1..Len(u) : a[x] \in 1..L /\ a[x] \in Int /\ u[x] = S[a[x]]
    BY TracedIs
  <2>4. \A x, z \in 1..Len(u) : x < z => a[x] < a[z]
    BY TracedIs
  <2> QED
    BY <2>1, <2>2, <2>3, <2>4
<1>1. Start(k) \in Nat /\ a[3] < a[y] /\ a[3] <= Start(k)
  <2>1. a[3] < a[y] /\ Start(k) \in Nat
    BY <1>0, PacketPlaces
  <2> QED
    BY <1>0, <2>1
<1> DEFINE Before == {j \in h : j < k}
<1>2. u[3].of \in Before
  BY <1>0, <1>1, OrderIs
<1>3. PICK j \in Before : \A i \in Before : i <= j
  <2>1. Before \subseteq Indices /\ Before # {}
    BY <1>2
  <2> HIDE DEF Before
  <2> QED
    BY <2>1, LastExists
<1>4. j \in h /\ j \in Indices /\ j < k /\ j \in Int /\ k \in Int
  BY <1>3, PacketsIs
<1> DEFINE e == Start(j) + Size(j)
<1>5. e \in Int /\ e <= Start(k) /\ Between(j, k) = Start(k) - e
  BY <1>4, PacketPlaces
<1>6. a[3] <= e
  <2>1. u[3].of <= j /\ u[3].of = S[a[3]].of
    BY <1>0, <1>2, <1>3
  <2>2. a[3] > e => j < S[a[3]].of
    BY <1>0, <1>4, OrderIs
  <2>3. S[a[3]].of \in Int
    <3>1. a[3] \in 1..L
      BY <1>0
    <3>2. S[a[3]].of \in Indices
      BY <3>1, OfIs
    <3> QED
      BY <3>2, PacketsIs
  <2> QED
    BY <1>0, <1>4, <1>5, <2>1, <2>2, <2>3
<1>7. ASSUME NEW p \in Int, e < p, p <= Start(k) + 1, S[p].of \in h PROVE FALSE
  <2>1. p \in 1..L /\ Size(k) \in Nat /\ Size(k) >= 7 /\ Start(k) \in Nat
    <3>1. Start(j) \in Nat /\ Size(j) \in Nat /\ Start(k) + Size(k) <= L /\ Size(k) >= 7 /\ Size(k) \in Nat
      BY <1>4, PacketPlaces
    <3> QED
      BY <1>0, <1>1, <1>7, <3>1
  <2>2. j < S[p].of
    <3>1. p > Start(j) + Size(j) => j < S[p].of
      BY <1>4, <2>1, OrderIs
    <3> QED
      BY <1>7, <3>1
  <2>3. CASE p = Start(k) + 1
    <3>1. S[p].of = k
      BY <2>1, <2>3, OrderIs
    <3> QED
      BY <1>7, <3>1
  <2>4. CASE p <= Start(k)
    <3>1. S[p].of < k
      BY <2>1, <2>4, OrderIs
    <3>2. S[p].of <= j /\ S[p].of \in Int
      BY <1>3, <1>7, <3>1, <2>1, OfIs, PacketsIs
    <3> QED
      BY <1>4, <2>2, <3>2
  <2> QED
    BY <1>1, <1>7, <2>3, <2>4
<1> DEFINE Bad == {x \in 3..y : a[x] > e /\ a[x] - e > x - 3}
<1> HIDE DEF e
<1>8. ASSUME NEW x \in Bad, \A i \in Bad : x <= i PROVE FALSE
  <2>1. x \in 3..y /\ a[x] > e /\ a[x] - e > x - 3 /\ x # 3
    BY <1>5, <1>6, <1>0
  <2> DEFINE z == x - 1
  <2>2. z \in 3..y /\ z \in 1..Len(u) /\ x \in 1..Len(u) /\ x = z + 1 /\ ~(x <= z) /\ z \in Int
    BY <1>0, <2>1
  <2>3. ~(a[z] > e /\ a[z] - e > z - 3)
    BY <1>8, <2>2
  <2>4. a[z] \in Int /\ a[x] \in Int /\ a[z] < a[x] /\ a[x] <= Start(k) + 1
    <3>1. x = y \/ a[x] < a[y]
      BY <1>0, <2>1, <2>2
    <3>2. z < x
      BY <2>2
    <3>3. a[z] < a[x] /\ a[z] \in Int /\ a[x] \in Int /\ a[y] \in Int
      BY <1>0, <2>2, <3>2
    <3> QED
      BY <3>1, <3>3
  <2> HIDE DEF z
  <2>5. ASSUME NEW p \in Int, e < p, a[z] < p, p < a[x] PROVE FALSE
    <3>1. S[p].of \in h
      BY <2>2, <2>5, GapIsHurt
    <3>2. p <= Start(k) + 1
      BY <1>1, <2>4, <2>5
    <3> QED
      BY <1>7, <2>5, <3>1, <3>2
  <2>6. CASE a[z] <= e
    <3>1. e + 1 \in Int /\ e < e + 1 /\ a[z] < e + 1
      BY <1>5, <2>4, <2>6
    <3>2. ~(e + 1 < a[x])
      BY <2>5, <3>1
    <3> QED
      BY <1>5, <2>1, <2>2, <2>4, <3>2
  <2>7. CASE a[z] > e
    <3>1. a[z] + 1 \in Int /\ e < a[z] + 1 /\ a[z] < a[z] + 1
      BY <1>5, <2>4, <2>7
    <3>2. ~(a[z] + 1 < a[x])
      BY <2>5, <3>1
    <3> QED
      BY <1>5, <2>1, <2>2, <2>3, <2>4, <2>7, <3>2
  <2> QED
    BY <1>5, <2>4, <2>6, <2>7
<1>9. Bad = {}
  <2>1. Bad \subseteq Nat
    BY <1>0
  <2> HIDE DEF Bad
  <2> QED
    BY <1>8, <2>1, LeastExists
<1>10. ~(a[y] > e /\ a[y] - e > y - 3)
  BY <1>0, <1>9
<1>11. Between(j, k) < Swallowed
  BY <1>0, <1>1, <1>5, <1>10, SwallowedIs
<1> QED
  BY <1>4, <1>11 DEF Covered

\* A packet that is not hurt comes in one piece.
LEMMA StaysInStep ==
    ASSUME NEW a, NEW u, NEW q, NEW h, Traced(a, u, q, h),
           NEW k \in Indices \ h, NEW n \in 1..Len(u), InStep(a, n, k),
           NEW n2 \in n..Len(u), n2 <= Size(k)
    PROVE  InStep(a, n2, k)
<1> DEFINE Bad == {x \in 1..n2 : a[x] # Start(k) + x}
<1>0. /\ Len(u) \in Nat /\ Start(k) \in Nat /\ Size(k) \in Nat /\ n \in Int /\ n2 \in Int /\ n >= 1 /\ n <= n2
      /\ n2 <= Len(u) /\ \A x \in 1..Len(u) : a[x] \in Int
  <2>1. u \in Seq(Byte) /\ q \in Int /\ a \in [1..Len(u) -> 1..q]
    BY PacketPlaces DEF Traced
  <2>2. Len(u) \in Nat /\ \A x \in 1..Len(u) : a[x] \in Int
    BY <2>1
  <2> QED
    BY <2>2, PacketPlaces
<1>1. ASSUME NEW x \in Bad, \A i \in Bad : x <= i PROVE FALSE
  <2>1. x \in 1..n2 /\ a[x] # Start(k) + x /\ ~(x <= n) /\ x \in Int
    BY <1>0 DEF InStep
  <2> DEFINE z == x - 1
  <2>2. z \in 1..n2 /\ z \in 1..Len(u) /\ x \in 1..Len(u) /\ x = z + 1 /\ ~(x <= z) /\ z \in Int /\ z < x
    BY <1>0, <2>1
  <2>3. a[z] = Start(k) + z
    BY <1>1, <2>2
  <2>4. a[z] < a[x]
    BY <2>2 DEF Traced
  <2> HIDE DEF z
  <2>5. Start(k) + x \in Int /\ a[z] < Start(k) + x /\ Start(k) + x < a[x]
    BY <1>0, <2>1, <2>2, <2>3, <2>4
  <2>6. S[Start(k) + x].of \in h
    BY <2>2, <2>5, GapIsHurt
  <2>7. x \in 1..Size(k)
    BY <1>0, <2>1
  <2> QED
    BY <2>6, <2>7, WithinIs
<1>2. Bad = {}
  <2>1. Bad \subseteq Nat
    BY <1>0
  <2> HIDE DEF Bad
  <2> QED
    BY <1>1, <2>1, LeastExists
<1> QED
  BY <1>0, <1>2 DEF InStep

\* Recv takes bytes up to the n2-th: what it may read of a packet that it is in step with is that
\* packet; otherwise it reads a sync byte, or behind a header what is no more than a packet.
MayTake(a, u, n, n2, h) ==
    /\ n2 \in n..Len(u)
    /\ \A k \in Indices \ h : InStep(a, n, k) => n2 <= Size(k)
    /\ \/ n2 = n
       \/ n = 0 /\ n2 = 1
       \/ n >= 1 /\ n2 = n + 1 /\ u[n].sym # "c"
       \/ n >= 3 /\ n2 <= MaxPayload + 6 /\ (u[3].of \in h \/ InStep(a, n, u[3].of))

\* When Recv takes as many more bytes as it may, every packet stays accounted for.
LEMMA TakingAccounts ==
    ASSUME NEW a, NEW u, NEW q, NEW h, NEW r, NEW n \in Nat, NEW n2 \in Nat,
           Traced(a, u, q, h), h \subseteq Indices, Accounted(a, u, n, q, h, r), MayTake(a, u, n, n2, h)
    PROVE  Accounted(a, u, n2, q, h, r)
<1> SUFFICES ASSUME NEW k \in Indices \ (h \cup r), ~(Start(k) + 1 \in ToCome(a, u, n2, q))
             PROVE  InStep(a, n2, k) \/ Covered(k, h)
  BY DEF Accounted
<1>0. /\ Len(u) \in Nat /\ q \in Int /\ n2 \in n..Len(u) /\ \A x \in 1..Len(u) : a[x] \in 1..L /\ u[x] = S[a[x]]
      /\ \A x, y \in 1..Len(u) : x < y => a[x] < a[y]
  BY TracedIs DEF MayTake
<1>1. CASE InStep(a, n, k)
  <2>1. n \in 1..Len(u) /\ n2 <= Size(k)
    BY <1>0, <1>1 DEF MayTake, InStep
  <2> QED
    BY <1>0, <1>1, <2>1, StaysInStep
<1>2. CASE Start(k) + 1 \in ToCome(a, u, n, q)
  <2>1. PICK y \in (n + 1)..Len(u) : a[y] = Start(k) + 1
    BY <1>2 DEF ToCome
  <2>2. y \in 1..n2 /\ y \in 1..Len(u) /\ y \in Int /\ y > n
    BY <1>0, <2>1 DEF ToCome
  <2>3. CASE n = 0 /\ n2 = 1
    BY <2>1, <2>2, <2>3 DEF InStep
  <2>4. CASE n >= 1 /\ n2 = n + 1 /\ u[n].sym # "c"
    <3>1. y = n + 1 /\ n \in 1..Len(u) /\ n + 1 \in 1..Len(u)
      BY <1>0, <2>2, <2>4
    <3> QED
      BY <2>1, <2>4, <3>1, BehindSync
  <2>5. CASE n >= 3 /\ n2 <= MaxPayload + 6 /\ u[3].of \in h
    <3>1. y \in 4..Len(u) /\ y <= MaxPayload + 6
      BY <1>0, <2>2, <2>5, SwallowedIs
    <3> QED
      BY <2>1, <2>5, <3>1, BehindHeader
  <2>6. CASE n >= 3 /\ u[3].of \notin h /\ InStep(a, n, u[3].of)
    <3> DEFINE i == u[3].of
    <3>1. 3 \in 1..Len(u) /\ u[3] = S[a[3]] /\ a[3] \in 1..L
      BY <1>0, <2>6
    <3>2. i \in Indices \ h
      BY <2>6, <3>1, OfIs
    <3>3. n2 <= Size(i) /\ n \in 1..Len(u)
      BY <1>0, <2>6, <3>2 DEF MayTake
    <3>4. InStep(a, n2, i)
      BY <1>0, <2>6, <3>2, <3>3, StaysInStep
    <3>5. a[y] = Start(i) + y
      BY <2>2, <3>4 DEF InStep
    <3>6. y \in 1..Size(i) /\ Size(i) \in Nat /\ 1 \in 1..Size(k)
      <4>1. Size(i) \in Nat /\ Size(k) \in Nat /\ Size(k) >= 7
        BY <3>2, PacketPlaces
      <4> QED
        BY <2>2, <3>3, <4>1
    <3>7. S[a[y]].of = i /\ S[a[y]].of = k
      BY <2>1, <3>2, <3>5, <3>6, WithinIs
    <3>8. Start(k) \in Nat /\ y # 1 /\ Start(k) + y = Start(k) + 1
      BY <2>1, <2>2, <2>6, <3>2, <3>5, <3>7, PacketPlaces
    <3> QED
      BY <2>2, <3>8
  <2>7. CASE n2 = n
    BY <1>0, <2>2, <2>7
  <2> QED
    BY <2>3, <2>4, <2>5, <2>6, <2>7 DEF MayTake
<1> QED
  BY <1>1, <1>2 DEF Accounted

\* Recv lets go of the first n bytes u, when they are no packet which is neither hurt nor returned,
\* and the others w remain.
Drops(a, u, n, h, r, w) ==
    /\ n \in 0..Len(u) /\ \A k \in Indices \ (h \cup r) : ~InStep(a, n, k)
    /\ w \in Seq(Byte) /\ Len(w) = Len(u) - n /\ \A x \in 1..Len(w) : w[x] = u[n + x]

\* When Recv lets go of what it has read, every packet stays accounted for.
LEMMA DroppingAccounts ==
    ASSUME NEW a, NEW u, NEW q, NEW h, NEW r, NEW n, NEW h2, NEW r2, NEW w,
           Traced(a, u, q, h), Accounted(a, u, n, q, h, r), h \subseteq h2, r \subseteq r2,
           Drops(a, u, n, h2, r2, w)
    PROVE  \E b : Traced(b, w, q, h2) /\ Accounted(b, w, 0, q, h2, r2)
<1>a. /\ n \in Nat /\ n <= Len(u) /\ \A k \in Indices \ (h2 \cup r2) : ~InStep(a, n, k)
      /\ w \in Seq(Byte) /\ Len(w) = Len(u) - n /\ \A x \in 1..Len(w) : w[x] = u[n + x]
  BY TracedIs DEF Drops
<1> USE <1>a
<1> DEFINE b == [x \in 1..Len(w) |-> a[n + x]]
<1>0. /\ q \in 0..L /\ u \in Seq(Byte) /\ Len(u) \in Nat /\ q \in Int /\ Len(w) \in Nat
      /\ \A x \in 1..Len(u) : a[x] \in 1..q /\ u[x] = S[a[x]]
      /\ \A x, y \in 1..Len(u) : x < y => a[x] < a[y]
      /\ \A x \in 1..Len(w) : n + x \in 1..Len(u)
  <2>1. \A x \in 1..Len(w) : n + x \in 1..Len(u)
    BY TracedIs
  <2>2. q \in 0..L /\ Len(w) \in Nat
    <3>1. q \in Nat /\ q <= L /\ L \in Nat
      BY TracedIs
    <3> QED
      BY <3>1
  <2> QED
    BY <2>1, <2>2, TracedIs
<1>1. Traced(b, w, q, h2)
  <2>1. b \in [1..Len(w) -> 1..q] /\ \A x \in 1..Len(w) : w[x] = S[b[x]]
    BY <1>0
  <2>2. ASSUME NEW x \in 1..Len(w), NEW y \in 1..Len(w), x < y PROVE b[x] < b[y]
    <3>1. n + x < n + y
      BY <2>2
    <3> QED
      BY <1>0, <3>1
  <2>3. ASSUME NEW x \in 1..Len(w), NEW p \in b[x]..q, S[p].of \notin h2
        PROVE  \E y \in 1..Len(w) : b[y] = p
    <3>1. n + x \in 1..Len(u) /\ b[x] = a[n + x] /\ S[p].of \notin h
      BY <1>0, <2>3
    <3>2. PICK y \in 1..Len(u) : a[y] = p
      BY <2>3, <3>1 DEF Traced
    <3>3. ~(y < n + x)
      <4>1. y < n + x => a[y] < a[n + x]
        BY <1>0, <3>1
      <4>2. a[y] \in Int /\ a[n + x] \in Int /\ a[n + x] <= p
        BY <1>0, <3>1
      <4> QED
        BY <3>2, <4>1, <4>2
    <3>4. y - n \in 1..Len(w) /\ n + (y - n) = y
      BY <1>0, <3>3
    <3> QED
      BY <3>2, <3>4
  <2> HIDE DEF b
  <2> QED
    BY <1>0, <2>1, <2>2, <2>3 DEF Traced
<1>2. Accounted(b, w, 0, q, h2, r2)
  <2> SUFFICES ASSUME NEW k \in Indices \ (h2 \cup r2)
               PROVE  Start(k) + 1 \in ToCome(b, w, 0, q) \/ Covered(k, h2)
    BY DEF Accounted
  <2>1. Start(k) + 1 \in ToCome(a, u, n, q) \/ Covered(k, h)
    BY DEF Accounted
  <2>2. CASE Covered(k, h)
    BY <2>2 DEF Covered
  <2>3. CASE \E x \in (n + 1)..Len(u) : Start(k) + 1 = a[x]
    <3>1. PICK x \in (n + 1)..Len(u) : Start(k) + 1 = a[x]
      BY <2>3
    <3>2. x - n \in 1..Len(w) /\ x - n \in (0 + 1)..Len(w) /\ n + (x - n) = x
      BY <1>0
    <3>3. b[x - n] = a[x]
      BY <3>2
    <3> DEFINE z == x - n
    <3>4. z \in (0 + 1)..Len(w) /\ Start(k) + 1 = b[z]
      BY <3>1, <3>2, <3>3
    <3> HIDE DEF z, b
    <3> QED
      BY <3>4 DEF ToCome
  <2> QED
    BY <2>1, <2>2, <2>3 DEF ToCome
<1> QED
  BY <1>1, <1>2

\* l bytes leave the line; the first d of them arrive behind u, and the packets of the others are hurt.
Arrives(u, q, h, w, l, d) ==
    /\ l \in Nat /\ d \in 0..l /\ q + l <= L
    /\ \A p \in (q + d + 1)..(q + l) : S[p].of \in h
    /\ w \in Seq(Byte) /\ Len(w) = Len(u) + d /\ \A x \in 1..Len(u) : w[x] = u[x]
    /\ \A x \in 1..d : w[Len(u) + x] = S[q + x]

\* When bytes arrive, the places of the earlier ones stay and every packet stays accounted for.
LEMMA ArrivingAccounts ==
    ASSUME NEW a, NEW u, NEW q, NEW h, NEW r, NEW n \in Nat, NEW h2, NEW w, NEW l, NEW d,
           Traced(a, u, q, h), Accounted(a, u, n, q, h, r), h \subseteq h2, n <= Len(u),
           Arrives(u, q, h2, w, l, d)
    PROVE  \E b : /\ Traced(b, w, q + l, h2) /\ Accounted(b, w, n, q + l, h2, r)
                  /\ \A x \in 1..Len(u) : b[x] = a[x]
<1>a. /\ l \in Nat /\ d \in 0..l /\ q + l <= L
      /\ \A p \in (q + d + 1)..(q + l) : S[p].of \in h2
      /\ w \in Seq(Byte) /\ Len(w) = Len(u) + d /\ \A x \in 1..Len(u) : w[x] = u[x]
      /\ \A x \in 1..d : w[Len(u) + x] = S[q + x]
  BY DEF Arrives
<1> DEFINE c == Len(u)
           b == [x \in 1..Len(w) |-> IF x <= c THEN a[x] ELSE q + (x - c)]
<1>0. /\ q \in Nat /\ L \in Nat /\ c \in Nat /\ d \in Nat /\ d <= l /\ Len(w) = c + d /\ l \in Nat /\ q + l <= L
      /\ \A x \in 1..c : a[x] \in 1..q /\ u[x] = S[a[x]]
      /\ \A x, y \in 1..c : x < y => a[x] < a[y]
      /\ \A x \in 1..c : \A p \in a[x]..q : S[p].of \in h \/ \E y \in 1..c : a[y] = p
  <2>1. \A x \in 1..c : \A p \in a[x]..q : S[p].of \in h \/ \E y \in 1..c : a[y] = p
    BY DEF Traced
  <2>2. d \in Nat /\ d <= l /\ l \in Nat /\ Len(w) = c + d /\ q + l <= L
    BY <1>a
  <2> QED
    BY <2>1, <2>2, TracedIs
<1>b. q \in Nat /\ L \in Nat /\ c \in Nat /\ d \in Nat /\ l \in Nat /\ d <= l
  BY <1>0
<1>1. \A x \in 1..c : w[x] = u[x]
  BY <1>a
<1>2. \A x \in 1..d : w[c + x] = S[q + x]
  BY <1>a
<1> HIDE DEF c
<1>3. /\ \A x \in 1..c : x \in 1..(c + d) /\ b[x] = a[x]
      /\ \A x \in 1..d : c + x \in 1..(c + d) /\ b[c + x] = q + x
      /\ \A x \in 1..(c + d) : x \in 1..c \/ (x - c \in 1..d /\ c + (x - c) = x)
  BY <1>0
<1>4. b \in [1..(c + d) -> 1..(q + l)] /\ DOMAIN b = 1..(c + d)
  <2>1. ASSUME NEW x \in 1..(c + d) PROVE b[x] \in 1..(q + l)
    <3>1. CASE x \in 1..c
      BY <1>0, <1>3, <3>1
    <3>2. CASE x - c \in 1..d /\ c + (x - c) = x
      <4>1. b[x] = q + (x - c)
        BY <1>3, <3>2
      <4>2. x - c \in 1..d
        BY <3>2
      <4> DEFINE v == x - c
      <4> HIDE DEF b, v
      <4>3. q + v \in 1..(q + l)
        BY <1>b, <4>2 DEF v
      <4> QED
        BY <4>1, <4>3 DEF v
    <3> QED
      BY <1>3, <3>1, <3>2
  <2>2. DOMAIN b = 1..(c + d) /\ b = [x \in 1..(c + d) |-> b[x]]
    BY <1>0
  <2> HIDE DEF b
  <2> QED
    BY <2>1, <2>2
<1> HIDE DEF b
<1>5. ASSUME NEW x \in 1..(c + d) PROVE w[x] = S[b[x]]
  <2>1. CASE x \in 1..c
    BY <1>0, <1>1, <1>3, <2>1
  <2>2. CASE x - c \in 1..d /\ c + (x - c) = x
    <3> DEFINE z == x - c
    <3>1. z \in 1..d /\ x = c + z
      BY <2>2
    <3> HIDE DEF z
    <3> QED
      BY <1>2, <1>3, <3>1
  <2> QED
    BY <1>3, <2>1, <2>2
<1>6. ASSUME NEW x \in 1..(c + d), NEW y \in 1..(c + d), x < y PROVE b[x] < b[y]
  <2>1. CASE y \in 1..c
    <3>1. x \in 1..c
      BY <1>b, <1>6, <2>1
    <3> QED
      BY <1>0, <1>3, <1>6, <2>1, <3>1
  <2>2. CASE x \in 1..c /\ y - c \in 1..d /\ c + (y - c) = y
    <3> DEFINE z == y - c
    <3>1. z \in 1..d /\ b[y] = q + z /\ b[x] = a[x] /\ a[x] \in 1..q
      BY <1>0, <1>3, <2>2
    <3>2. a[x] \in Int /\ a[x] <= q
      BY <1>0, <3>1
    <3> QED
      BY <1>0, <3>1, <3>2
  <2>3. CASE x - c \in 1..d /\ c + (x - c) = x /\ y - c \in 1..d /\ c + (y - c) = y
    <3>1. b[x] = q + (x - c) /\ b[y] = q + (y - c)
      BY <1>3, <2>3
    <3> QED
      BY <1>0, <1>6, <3>1
  <2> QED
    BY <1>0, <1>3, <1>6, <2>1, <2>2, <2>3
<1>7. ASSUME NEW p \in (q + 1)..(q + l) PROVE S[p].of \in h2 \/ \E y \in 1..(c + d) : b[y] = p
  <2>1. CASE p > q + d
    <3>1. p \in (q + d + 1)..(q + l)
      BY <1>0, <2>1
    <3> QED
      BY <1>a, <3>1
  <2>2. CASE ~(p > q + d)
    <3>1. p - q \in 1..d /\ q + (p - q) = p
      BY <1>0, <2>2
    <3>2. p - q \in 1..d => b[c + (p - q)] = q + (p - q) /\ c + (p - q) \in 1..(c + d)
      BY <1>3
    <3> HIDE DEF b
    <3> QED
      BY <3>1, <3>2
  <2> QED
    BY <2>1, <2>2
<1>8. ASSUME NEW x \in 1..(c + d), NEW p \in b[x]..(q + l)
      PROVE  S[p].of \in h2 \/ \E y \in 1..(c + d) : b[y] = p
  <2>1. CASE p > q
    <3>1. p \in (q + 1)..(q + l)
      BY <1>0, <2>1
    <3> QED
      BY <1>7, <3>1
  <2>2. CASE ~(p > q)
    <3>0. b[x] \in 1..(q + l) /\ q + l \in Int
      BY <1>0, <1>4
    <3>1. b[x] \in Int /\ b[x] <= p /\ p \in Int
      BY <3>0
    <3>2. x \in 1..c
      <4>1. ASSUME x - c \in 1..d, c + (x - c) = x PROVE FALSE
        <5>1. b[x] = q + (x - c)
          BY <1>3, <4>1
        <5> QED
          BY <1>0, <2>2, <3>1, <4>1, <5>1
      <4> QED
        BY <1>3, <4>1
    <3>3. p \in a[x]..q
      BY <1>0, <1>3, <2>2, <3>1, <3>2
    <3>4. S[p].of \in h \/ \E y \in 1..c : a[y] = p
      BY <1>0, <3>2, <3>3
    <3> QED
      BY <1>3, <3>4
  <2> QED
    BY <2>1, <2>2
<1>9. Traced(b, w, q + l, h2)
  <2>1. q + l \in 0..L
    BY <1>0
  <2>2. /\ w \in Seq(Byte) /\ b \in [1..Len(w) -> 1..(q + l)] /\ DOMAIN b = 1..Len(w)
        /\ \A x \in 1..Len(w) : w[x] = S[b[x]]
        /\ \A x, y \in 1..Len(w) : x < y => b[x] < b[y]
    <3>1. w \in Seq(Byte) /\ Len(w) = c + d
      BY <1>0, <1>a
    <3> QED
      BY <1>4, <1>5, <1>6, <3>1
  <2>3. \A x \in 1..Len(w) : \A p \in b[x]..(q + l) : S[p].of \in h2 \/ \E y \in 1..Len(w) : b[y] = p
    <3>1. Len(w) = c + d
      BY <1>0
    <3> QED
      BY <1>8, <3>1
  <2> QED
    BY <2>1, <2>2, <2>3 DEF Traced
<1>10. Accounted(b, w, n, q + l, h2, r)
  <2> SUFFICES ASSUME NEW k \in Indices \ (h2 \cup r)
               PROVE  Start(k) + 1 \in ToCome(b, w, n, q + l) \/ InStep(b, n, k) \/ Covered(k, h2)
    BY DEF Accounted
  <2>1. Start(k) + 1 \in ToCome(a, u, n, q) \/ InStep(a, n, k) \/ Covered(k, h)
    BY DEF Accounted
  <2>2. CASE Covered(k, h)
    BY <2>2 DEF Covered
  <2>3. CASE InStep(a, n, k)
    <3>1. \A x \in 1..n : x \in 1..c
      BY <1>0 DEF c
    <3> QED
      BY <1>3, <2>3, <3>1 DEF InStep
  <2>4. CASE \E x \in (n + 1)..c : Start(k) + 1 = a[x]
    <3>1. PICK x \in (n + 1)..c : Start(k) + 1 = a[x]
      BY <2>4
    <3>2. x \in 1..c /\ x \in (n + 1)..Len(w)
      BY <1>0
    <3> QED
      BY <1>3, <3>1, <3>2 DEF ToCome
  <2>5. CASE Start(k) + 1 \in (q + 1)..L
    <3>1. CASE Start(k) + 1 > q + l
      <4>1. Start(k) + 1 \in ((q + l) + 1)..L
        BY <1>0, <2>5, <3>1
      <4> QED
        BY <4>1 DEF ToCome
    <3>2. CASE ~(Start(k) + 1 > q + l)
      <4>1. Start(k) + 1 \in (q + 1)..(q + l) /\ 1 \in 1..Size(k)
        <5>1. Size(k) \in Nat /\ Size(k) >= 7
          BY PacketPlaces
        <5> QED
          BY <1>0, <2>5, <3>2, <5>1
      <4>2. S[Start(k) + 1].of = k
        BY <4>1, WithinIs
      <4>3. PICK y \in 1..(c + d) : b[y] = Start(k) + 1
        BY <1>7, <4>1, <4>2
      <4>4. y \notin 1..c
        <5>1. ASSUME y \in 1..c PROVE FALSE
          <6>1. b[y] \in 1..q
            BY <1>0, <1>3, <5>1
          <6>2. b[y] \in (q + 1)..(q + l)
            BY <4>1, <4>3
          <6> QED
            BY <1>b, <6>1, <6>2
        <5> QED
          BY <5>1
      <4>5. y \in (n + 1)..Len(w)
        BY <1>0, <4>4 DEF c
      <4> QED
        BY <4>3, <4>5 DEF ToCome
    <3> QED
      BY <3>1, <3>2
  <2> QED
    BY <2>1, <2>2, <2>3, <2>4, <2>5 DEF ToCome, c
<1> QED
  BY <1>3, <1>9, <1>10 DEF c

\* What begins like a header is one, unless its packet is hurt.
LEMMA HeaderIs ==
    ASSUME NEW a, NEW u, NEW q, NEW h, Traced(a, u, q, h), Len(u) >= 3,
           u[1].sym = "@", u[2].sym = "F", u[3].sym = "v", u[3].of \notin h
    PROVE  u[3].of \in Indices /\ InStep(a, 3, u[3].of)
<1> DEFINE k == u[3].of
           p == a[3]
           z == p - Start(k)
<1>0. /\ 1 \in 1..Len(u) /\ 2 \in 1..Len(u) /\ 3 \in 1..Len(u)
  BY TracedIs
<1>1. /\ \A x \in 1..Len(u) : a[x] \in 1..L /\ a[x] \in Int /\ u[x] = S[a[x]]
      /\ \A x, y \in 1..Len(u) : x < y => a[x] < a[y]
  BY TracedIs
<1>2. p \in 1..L /\ S[p].of = k
  BY <1>0, <1>1
<1>3. k \in Indices /\ z \in 1..Size(k) /\ S[p] = Bytes(k)[z]
  BY <1>2, OfIs
<1>4. /\ u[1] = S[a[1]] /\ u[2] = S[a[2]] /\ u[3] = S[p]
  BY <1>0, <1>1
<1>5. /\ a[2 + 1] = p /\ a[1 + 1] = a[2] /\ 2 + 1 \in 1..Len(u) /\ 1 + 1 \in 1..Len(u)
  <2>1. 2 + 1 = 3 /\ 1 + 1 = 2
    OBVIOUS
  <2> QED
    BY <1>0, <2>1
<1>6. /\ p \in Int /\ a[1] \in Int /\ a[2] \in Int /\ a[1] < a[2] /\ a[2] < p
  BY <1>0, <1>1
<1> HIDE DEF k, p
<1>7. Start(k) \in Int /\ Size(k) \in Int
  BY <1>3, PacketPlaces
<1>8. p = Start(k) + z
  BY <1>6, <1>7 DEF z
<1> HIDE DEF z
<1>9. z \in Int /\ z >= 1 /\ z <= Size(k)
  BY <1>3, <1>7
<1>10. /\ Bytes(k)[1].sym = "@" /\ Bytes(k)[2].sym = "F"
       /\ \A x \in 2..(Size(k) - 2) :
            ~(Bytes(k)[x].sym = "@" /\ Bytes(k)[x + 1].sym = "F" /\ Bytes(k)[x + 2].sym = "v")
  BY <1>3, BytesAre DEF Size
<1>11. Bytes(k)[z].sym = "v"
  BY <1>3, <1>4
<1>12. z # 1
  BY <1>10, <1>11
\* The byte before in the packet is the one before in u: the packet is not hurt.
<1>13. a[2] = p - 1 /\ S[p - 1] = Bytes(k)[z - 1]
  <2>1. z - 1 \in 1..Size(k)
    BY <1>7, <1>9, <1>12
  <2>2. S[Start(k) + (z - 1)].of = k /\ S[Start(k) + (z - 1)] = Bytes(k)[z - 1]
    BY <1>3, <2>1, WithinIs
  <2>3. Start(k) + (z - 1) = p - 1
    BY <1>7, <1>8, <1>9
  <2>4. S[p - 1].of = k /\ S[p - 1] = Bytes(k)[z - 1]
    BY <2>2, <2>3
  <2>5. S[p - 1].of \notin h
    BY <2>4 DEF k
  <2>6. ASSUME a[2] < p - 1 PROVE FALSE
    <3>1. p - 1 \in Int /\ p - 1 < a[2 + 1]
      BY <1>5, <1>6
    <3> QED
      BY <1>0, <1>5, <2>5, <2>6, <3>1, GapIsHurt
  <2>7. a[2] = p - 1
    BY <1>6, <2>6
  <2> QED
    BY <2>4, <2>7
<1>14. Bytes(k)[z - 1].sym = "F"
  BY <1>4, <1>13
<1>15. z # 2
  BY <1>10, <1>14
<1>16. a[1] = p - 2 /\ S[p - 2] = Bytes(k)[z - 2]
  <2>1. z - 2 \in 1..Size(k)
    BY <1>7, <1>9, <1>12, <1>15
  <2>2. S[Start(k) + (z - 2)].of = k /\ S[Start(k) + (z - 2)] = Bytes(k)[z - 2]
    BY <1>3, <2>1, WithinIs
  <2>3. Start(k) + (z - 2) = p - 2
    BY <1>7, <1>8, <1>9
  <2>4. S[p - 2].of = k /\ S[p - 2] = Bytes(k)[z - 2]
    BY <2>2, <2>3
  <2>5. S[p - 2].of \notin h
    BY <2>4 DEF k
  <2>6. ASSUME a[1] < p - 2 PROVE FALSE
    <3>1. p - 2 < p - 1
      BY <1>6
    <3>2. p - 2 \in Int /\ p - 2 < a[1 + 1]
      BY <1>5, <1>6, <1>13, <3>1
    <3> QED
      BY <1>0, <1>5, <2>5, <2>6, <3>2, GapIsHurt
  <2>7. a[1] = p - 2
    BY <1>6, <1>13, <2>6
  <2> QED
    BY <2>4, <2>7
<1>17. Bytes(k)[z - 2].sym = "@"
  BY <1>4, <1>16
<1>18. z = 3
  <2>1. (z - 2) + 1 = z - 1 /\ (z - 2) + 2 = z
    BY <1>9
  <2>2. ~(z - 2 \in 2..(Size(k) - 2))
    BY <1>10, <1>11, <1>14, <1>17, <2>1
  <2> QED
    BY <1>7, <1>9, <1>12, <1>15, <2>2
<1>19. \A x \in 1..3 : a[x] = Start(k) + x
  <2>1. p = Start(k) + 3
    BY <1>8, <1>18
  <2>2. a[3] = Start(k) + 3
    BY <2>1 DEF p
  <2>3. p - 1 = Start(k) + 2 /\ p - 2 = Start(k) + 1
    BY <1>7, <2>1
  <2>4. a[2] = Start(k) + 2 /\ a[1] = Start(k) + 1
    BY <1>13, <1>16, <2>3
  <2>5. \A x \in 1..3 : x = 1 \/ x = 2 \/ x = 3
    OBVIOUS
  <2> QED
    BY <2>2, <2>4, <2>5
<1>20. k \in Indices /\ InStep(a, 3, k)
  <2>1. 3 >= 1
    OBVIOUS
  <2> QED
    BY <1>3, <1>19, <2>1 DEF InStep
<1> QED
  BY <1>20 DEF k

-----------------------------------------------------------------------------
(* The inductive invariant.                                                 *)

\* The bytes that have arrived and Recv has not taken, and those with what it reads.
Waiting == IF port = "android" THEN [x \in 1..(written - taken) |-> accepted[taken + x]] ELSE <<>>
Ahead == got \o Waiting

\* What has left the line, and what is being written of it.
Front == L - Len(usb) - Len(sending)

LineIs ==
    /\ Len(usb) + Len(sending) <= L
    /\ \A x \in 1..Len(usb) : usb[x] = S[(L - Len(usb)) + x]
    /\ \A x \in 1..Len(sending) : sending[x] = S[Front + x]
    /\ port # "android" => sending = <<>>

\* How much Recv has of a packet in each of its fields.
FieldKnown ==
    /\ pc \in {"idle", "sync", "sync1"} => got = <<>>
    /\ pc \in Reading \ {"payload"} => need = 1
    /\ pc = "sync2" => Len(got) = 1 /\ got[1].sym = "@"
    /\ pc = "version" => Len(got) = 2 /\ got[1].sym = "@" /\ got[2].sym = "F"
    /\ pc = "header" => Len(got) = 3
    /\ pc = "payload" => Len(got) >= 4 /\ Len(got) + need <= MaxPayload + 4
    /\ pc = "hmac" => Len(got) >= 4 /\ Len(got) <= MaxPayload + 4
    /\ pc = "crc" => Len(got) >= 4 /\ Len(got) <= MaxPayload + 5

\* The fields that Recv asks for when it is in step with packet k are those of the packet.
FieldsOf(k) ==
    /\ pc = "payload" => Len(got) + need = Size(k) - 2
    /\ pc = "hmac" => Len(got) = Size(k) - 2
    /\ pc = "crc" => Len(got) = Size(k) - 1

\* Behind a header Recv is in step with a packet, or the packet it seems to be of is hurt.
HeaderKnown(a) ==
    /\ Len(got) >= 3 => got[3].of \in hurt \/ InStep(a, Len(got), got[3].of)
    /\ \A k \in Indices \ hurt : InStep(a, Len(got), k) => FieldsOf(k)

Known(a) ==
    /\ Traced(a, Ahead, Front, hurt)
    /\ Accounted(a, Ahead, Len(got), Front, hurt, received)
    /\ HeaderKnown(a)

StepInv == StreamInv /\ LineIs /\ FieldKnown /\ \E a : Known(a)

\* Joining sequences of bytes.
LEMMA JoinIs ==
    ASSUME NEW s \in Seq(Byte), NEW t \in Seq(Byte)
    PROVE  /\ s \o t \in Seq(Byte) /\ Len(s \o t) = Len(s) + Len(t) /\ Len(s) \in Nat /\ Len(t) \in Nat
           /\ \A x \in 1..Len(s) : (s \o t)[x] = s[x]
           /\ \A x \in 1..Len(t) : (s \o t)[Len(s) + x] = t[x]
OBVIOUS

LEMMA JoinThree ==
    ASSUME NEW s \in Seq(Byte), NEW t \in Seq(Byte), NEW w \in Seq(Byte)
    PROVE  (s \o t) \o w = s \o (t \o w)
OBVIOUS

\* The sequences of a state, and their lengths.
LEMMA StateIs ==
    ASSUME StreamInv
    PROVE  /\ got \in Seq(Byte) /\ usb \in Seq(Byte) /\ sending \in Seq(Byte) /\ accepted \in Seq(Byte)
           /\ Len(got) \in Nat /\ Len(usb) \in Nat /\ Len(sending) \in Nat
           /\ written \in Nat /\ taken \in Nat /\ taken <= written /\ Len(accepted) = written
           /\ need \in Int /\ (pc \in Reading => need \in 1..MaxPayload) /\ MaxPayload \in Nat /\ MaxPayload >= 1
           /\ received \subseteq Indices /\ hurt \subseteq Indices /\ L \in Nat
<1>1. got \in Seq(Byte) /\ usb \in Seq(Byte) /\ sending \in Seq(Byte) /\ accepted \in Seq(Byte)
  BY DEF StreamInv, RecvKnown, LineKnown
<1>2. Len(got) \in Nat /\ Len(usb) \in Nat /\ Len(sending) \in Nat
  BY <1>1
<1>3. written \in Nat /\ taken \in Nat /\ taken <= written
  <2>1. written \in Nat /\ taken \in Nat /\ written = taken + Count
    BY DEF StreamInv, TransportInv, BufInv, TypeOK, UnreadIntact
  <2>2. Count \in 0..BufferSize /\ BufferSize \in Nat
    BY CountRange, BufferAssumption DEF StreamInv, TransportInv
  <2> QED
    BY <2>1, <2>2
<1>4. need \in Int /\ (pc \in Reading => need \in 1..MaxPayload)
  BY DEF StreamInv, TransportInv, RecvAsks
<1> QED
  BY <1>1, <1>2, <1>3, <1>4, SwallowedIs, PacketPlaces DEF StreamInv, LineKnown, PacketsKnown

LEMMA WaitingIs ==
    ASSUME StreamInv
    PROVE  /\ Waiting \in Seq(Byte) /\ Len(Waiting) = IF port = "android" THEN written - taken ELSE 0
           /\ port = "android" => \A x \in 1..(written - taken) : Waiting[x] = accepted[taken + x]
<1>1. CASE port = "android"
  <2> DEFINE d == written - taken
  <2>1. d \in Nat /\ accepted \in Seq(Byte) /\ \A x \in 1..d : taken + x \in 1..Len(accepted)
    BY StateIs
  <2>2. Waiting = [x \in 1..d |-> accepted[taken + x]]
    BY <1>1 DEF Waiting
  <2>3. \A x \in 1..d : accepted[taken + x] \in Byte
    BY <2>1
  <2> HIDE DEF d
  <2>4. Waiting \in Seq(Byte) /\ Len(Waiting) = d /\ \A x \in 1..d : Waiting[x] = accepted[taken + x]
    BY <2>1, <2>2, <2>3
  <2> QED
    BY <1>1, <2>4 DEF d
<1>2. CASE port # "android"
  BY <1>2 DEF Waiting
<1> QED
  BY <1>1, <1>2

\* The first n bytes and the rest.
LEMMA SplitIs ==
    ASSUME NEW s \in Seq(Byte), NEW n \in 0..Len(s)
    PROVE  /\ SubSeq(s, 1, n) \in Seq(Byte) /\ Len(SubSeq(s, 1, n)) = n
           /\ \A x \in 1..n : SubSeq(s, 1, n)[x] = s[x]
           /\ Rest(s, n) \in Seq(Byte) /\ Len(Rest(s, n)) = Len(s) - n
           /\ \A x \in 1..(Len(s) - n) : Rest(s, n)[x] = s[n + x]
BY DEF Rest

\* Where the line ends, and what it may lose.
LEMMA FrontIs ==
    ASSUME StreamInv, LineIs
    PROVE  Front \in Nat /\ Front + Len(sending) + Len(usb) = L /\ L - Len(usb) = Front + Len(sending)
BY StateIs DEF LineIs, Front

\* Bytes that leave the line from its front leave the rest of the stream on it.
LEMMA LineMoves ==
    ASSUME StreamInv, LineIs, NEW n \in 0..Len(usb), usb' = Rest(usb, n)
    PROVE  /\ usb' \in Seq(Byte) /\ Len(usb') = Len(usb) - n /\ L - Len(usb') = (L - Len(usb)) + n
           /\ \A x \in 1..Len(usb') : usb'[x] = S[(L - Len(usb')) + x]
<1>1. /\ usb \in Seq(Byte) /\ Len(usb) \in Nat /\ L \in Nat /\ n \in Int /\ n >= 0
      /\ \A x \in 1..Len(usb) : usb[x] = S[(L - Len(usb)) + x]
  BY StateIs DEF LineIs
<1>2. /\ usb' \in Seq(Byte) /\ Len(usb') = Len(usb) - n
      /\ \A x \in 1..(Len(usb) - n) : usb'[x] = usb[n + x]
  BY <1>1, SplitIs
<1>3. ASSUME NEW x \in 1..Len(usb') PROVE usb'[x] = S[(L - Len(usb')) + x]
  <2>1. n + x \in 1..Len(usb) /\ (L - Len(usb)) + (n + x) = (L - Len(usb')) + x /\ x \in 1..(Len(usb) - n)
    BY <1>1, <1>2
  <2> QED
    BY <1>1, <1>2, <2>1
<1> QED
  BY <1>1, <1>2, <1>3

\* On Android a RecvBytes takes the oldest bytes of those that wait.
LEMMA TakesWaiting ==
    ASSUME StreamInv, TakeBytes, pc \in Reading, port = "android"
    PROVE  /\ Fresh \in Seq(Byte) /\ Len(Fresh) \in 0..need /\ Waiting' \in Seq(Byte)
           /\ Now \o Waiting' = Ahead /\ Now \in Seq(Byte) /\ Len(Now) = Len(got) + Len(Fresh)
           /\ UNCHANGED <<usb, sending, port>>
<1>1. Read(need) /\ UNCHANGED workerVars /\ need \in 1..MaxRequest /\ need \in Nat
  <2>1. need \in 1..MaxPayload /\ MaxPayload \in 1..MaxRequest /\ MaxRequest \in Nat
    BY StateIs, TransportAssumption, BufferAssumption
  <2> QED
    BY <2>1 DEF TakeBytes
<1>2. Fresh = [x \in 1..Len(out') |-> ByteAt(out'[x])]
  BY DEF Fresh
<1> DEFINE m == ReadFirst(need) + ReadSecond(need)
           c == written - taken
<1>3. out' = [x \in 1..m |-> taken + x] /\ m = Smaller(need, Count) /\ m \in 0..Count /\ taken' = taken + m
  BY <1>1, ReadReturns, ReadAdvances DEF StreamInv, TransportInv
<1>4. Count = c /\ Count \in Nat /\ taken \in Nat /\ written \in Nat /\ written = taken + c
  <2>1. written = taken + Count /\ Count \in 0..BufferSize /\ BufferSize \in Nat
    BY CountRange, BufferAssumption DEF StreamInv, TransportInv, BufInv, UnreadIntact
  <2> QED
    BY <2>1, StateIs
<1> HIDE DEF m, c
<1>5. m \in Nat /\ m <= c /\ m <= need /\ c \in Nat
  BY <1>1, <1>3, <1>4, SmallerIs
<1>6. accepted \in Seq(Byte) /\ Len(accepted) = written /\ DOMAIN accepted = 1..written /\ got \in Seq(Byte)
  BY StateIs
<1>7. Fresh \in Seq(Byte) /\ Len(Fresh) = m /\ \A x \in 1..m : Fresh[x] = accepted[taken + x]
  <2>1. Len(out') = m
    BY <1>3, <1>5
  <2>2. ASSUME NEW x \in 1..m PROVE ByteAt(out'[x]) = accepted[taken + x] /\ accepted[taken + x] \in Byte
    <3>1. out'[x] = taken + x /\ taken + x \in 1..written
      BY <1>3, <1>4, <1>5
    <3> QED
      BY <1>6, <3>1, MemberIs DEF ByteAt
  <2>3. Fresh = [x \in 1..m |-> accepted[taken + x]]
    BY <1>2, <2>1, <2>2
  <2> QED
    BY <1>5, <2>2, <2>3
<1>8. /\ UNCHANGED <<usb, sending, port, accepted>> /\ written' = written
  BY <1>1 DEF workerVars, Read
<1>9. /\ Waiting' \in Seq(Byte) /\ Len(Waiting') = c - m
      /\ \A x \in 1..(c - m) : Waiting'[x] = accepted[(taken + m) + x]
  <2>1. Waiting' = [x \in 1..(c - m) |-> accepted[(taken + m) + x]]
    <3>1. written' - taken' = c - m
      BY <1>3, <1>4, <1>5, <1>8
    <3> QED
      BY <1>3, <1>8, <3>1 DEF Waiting
  <2>2. ASSUME NEW x \in 1..(c - m) PROVE accepted[(taken + m) + x] \in Byte
    <3>1. (taken + m) + x \in 1..written
      BY <1>4, <1>5
    <3> QED
      BY <1>6, <3>1, MemberIs
  <2> QED
    BY <1>5, <2>1, <2>2
<1>10. /\ Waiting \in Seq(Byte) /\ Len(Waiting) = c /\ \A x \in 1..c : Waiting[x] = accepted[taken + x]
  BY WaitingIs DEF c
<1>11. Fresh \o Waiting' = Waiting
  <2>0. PICK f \in Seq(Byte), w \in Seq(Byte) : f = Fresh /\ w = Waiting'
    BY <1>7, <1>9
  <2> DEFINE s == f \o w
  <2>1. /\ s \in Seq(Byte) /\ Len(s) = m + (c - m)
        /\ \A x \in 1..m : s[x] = f[x]
        /\ \A x \in 1..(c - m) : s[m + x] = w[x]
    <3>1. Len(f) = m /\ Len(w) = c - m
      BY <2>0, <1>7, <1>9
    <3>2. s \in Seq(Byte) /\ Len(s) = Len(f) + Len(w)
          /\ (\A x \in 1..Len(f) : s[x] = f[x]) /\ \A x \in 1..Len(w) : s[Len(f) + x] = w[x]
      BY JoinIs
    <3> HIDE DEF s
    <3> QED
      BY <3>1, <3>2
  <2> HIDE DEF s
  <2>2. Len(s) = c
    BY <1>5, <2>1
  <2>3. ASSUME NEW x \in 1..c PROVE s[x] = Waiting[x]
    <3>1. CASE x <= m
      BY <1>5, <1>7, <1>10, <2>0, <2>1, <3>1
    <3>2. CASE x > m
      <4> DEFINE z == x - m
      <4>1. z \in 1..(c - m) /\ m + z = x /\ (taken + m) + z = taken + x
        BY <1>4, <1>5, <3>2
      <4> HIDE DEF z
      <4> QED
        BY <1>9, <1>10, <2>0, <2>1, <4>1
    <3> QED
      BY <1>5, <3>1, <3>2
  <2>4. s = Waiting
    BY <1>10, <2>1, <2>2, <2>3, SeqEqual
  <2> QED
    BY <2>0, <2>4 DEF s
<1>12. Now \o Waiting' = Ahead
  <2>1. ASSUME NEW f \in Seq(Byte), NEW w \in Seq(Byte) PROVE (got \o f) \o w = got \o (f \o w)
    BY <1>6, JoinThree
  <2>2. (got \o Fresh) \o Waiting' = got \o (Fresh \o Waiting')
    BY <1>7, <1>9, <2>1
  <2> QED
    BY <1>11, <2>2 DEF Now, Ahead
<1>13. Now \in Seq(Byte) /\ Len(Now) = Len(got) + Len(Fresh)
  BY <1>6, <1>7, JoinIs DEF Now
<1>14. Len(Fresh) \in 0..need
  BY <1>1, <1>5, <1>7
<1> QED
  BY <1>7, <1>8, <1>9, <1>12, <1>13, <1>14

\* On the other ports it takes them from the front of the line.
LEMMA TakesLine ==
    ASSUME StreamInv, TakeBytes, pc \in Reading, port # "android"
    PROVE  /\ Fresh \in Seq(Byte) /\ Len(Fresh) \in 0..need /\ Waiting = <<>> /\ Waiting' = <<>>
           /\ Len(Fresh) \in 0..Len(usb) /\ usb' = Rest(usb, Len(Fresh)) /\ UNCHANGED <<sending, port>>
           /\ \A x \in 1..Len(Fresh) : Fresh[x] = usb[x]
<1>1. /\ need \in Nat /\ usb \in Seq(Byte) /\ Len(usb) \in Nat
  BY StateIs
<1>2. PICK n \in 1..Smaller(need, Len(usb)) : usb' = Rest(usb, n) /\ UNCHANGED <<port, sending>>
  BY DEF TakeBytes
<1>3. n \in 0..need /\ n \in 0..Len(usb) /\ n \in Nat
  <2>1. Smaller(need, Len(usb)) \in Int /\ Smaller(need, Len(usb)) <= need /\ Smaller(need, Len(usb)) <= Len(usb)
    BY <1>1, SmallerIs
  <2> QED
    BY <1>1, <1>2, <2>1
<1>4. Len(usb) - Len(usb') = n
  <2>1. Len(Rest(usb, n)) = Len(usb) - n
    BY <1>1, <1>3, SplitIs
  <2>2. Len(usb') = Len(usb) - n
    BY <1>2, <2>1
  <2> QED
    BY <1>1, <1>3, <2>2
<1>5. Fresh = SubSeq(usb, 1, n)
  BY <1>4 DEF Fresh
<1>6. Fresh \in Seq(Byte) /\ Len(Fresh) = n /\ \A x \in 1..n : Fresh[x] = usb[x]
  BY <1>1, <1>3, <1>5, SplitIs
<1> QED
  BY <1>2, <1>3, <1>6 DEF Waiting

\* What the line has to send stays known when a RecvBytes takes bytes.
LEMMA TakingKeepsLine ==
    ASSUME StreamInv, LineIs, TakeBytes, pc \in Reading
    PROVE  LineIs'
<1>1. CASE port = "android"
  <2>1. UNCHANGED <<usb, sending, port>>
    BY <1>1, TakesWaiting
  <2> QED
    BY <2>1 DEF LineIs, Front
<1>2. CASE port # "android"
  <2>1. usb' = Rest(usb, Len(Fresh)) /\ Len(Fresh) \in 0..Len(usb) /\ sending' = sending /\ port' = port
    BY <1>2, TakesLine
  <2>2. sending = <<>>
    BY <1>2 DEF LineIs
  <2>3. PICK n \in 0..Len(usb) : usb' = Rest(usb, n)
    BY <2>1
  <2>4. /\ usb' \in Seq(Byte) /\ Len(usb') = Len(usb) - n
        /\ \A x \in 1..Len(usb') : usb'[x] = S[(L - Len(usb')) + x]
    BY <2>3, LineMoves
  <2>5. Len(usb') + Len(sending') <= L
    BY <2>1, <2>2, <2>4, StateIs DEF LineIs
  <2>6. \A x \in 1..Len(sending') : sending'[x] = S[Front' + x]
    BY <2>1, <2>2
  <2> QED
    BY <2>1, <2>2, <2>4, <2>5, <2>6 DEF LineIs
<1> QED
  BY <1>1, <1>2

\* The packets stay accounted for when a RecvBytes takes bytes, which are then in front of the others.
LEMMA Taken ==
    ASSUME StreamInv, LineIs, NEW a, Known(a), TakeBytes, pc \in Reading
    PROVE  \E b : /\ Traced(b, Now \o Waiting', Front', hurt)
                  /\ Accounted(b, Now \o Waiting', Len(got), Front', hurt, received)
                  /\ \A x \in 1..Len(got) : b[x] = a[x]
<1>1. CASE port = "android"
  <2>1. Now \o Waiting' = Ahead /\ UNCHANGED <<usb, sending, port>>
    BY <1>1, TakesWaiting
  <2>2. Front' = Front
    BY <2>1 DEF Front
  <2>3. Traced(a, Now \o Waiting', Front', hurt)
    BY <2>1, <2>2 DEF Known
  <2>4. Accounted(a, Now \o Waiting', Len(got), Front', hurt, received)
    BY <2>1, <2>2 DEF Known
  <2> QED
    BY <2>3, <2>4
<1>2. CASE port # "android"
  <2>1. /\ Fresh \in Seq(Byte) /\ Waiting = <<>> /\ Waiting' = <<>> /\ sending' = sending
        /\ Len(Fresh) \in 0..Len(usb) /\ usb' = Rest(usb, Len(Fresh))
        /\ \A x \in 1..Len(Fresh) : Fresh[x] = usb[x]
    BY <1>2, TakesLine
  <2>2. PICK f \in Seq(Byte) : f = Fresh
    BY <2>1
  <2>3. PICK n \in Nat : n = Len(f)
    BY <2>2
  <2>4. /\ got \in Seq(Byte) /\ usb \in Seq(Byte) /\ Len(usb) \in Nat /\ L \in Nat /\ sending = <<>>
        /\ n \in 0..Len(usb) /\ usb' = Rest(usb, n) /\ hurt \subseteq Indices
    BY <1>2, <2>1, <2>2, <2>3, StateIs DEF LineIs
  <2>5. Front = L - Len(usb) /\ Front \in Nat /\ Front' = Front + n /\ Front + n <= L
    <3>1. L - Len(usb') = (L - Len(usb)) + n
      BY <2>4, LineMoves
    <3> QED
      BY <2>1, <2>4, <3>1, FrontIs DEF Front
  <2>6. Ahead = got
    BY <2>1, <2>4, ConcatEmptySeq DEF Ahead
  <2> DEFINE w == got \o f
  <2>7. /\ w \in Seq(Byte) /\ Len(w) = Len(got) + n
        /\ (\A x \in 1..Len(got) : w[x] = got[x]) /\ \A x \in 1..n : w[Len(got) + x] = f[x]
    BY <2>3, <2>4, JoinIs
  <2>8. Now \o Waiting' = w
    <3>1. Now = w
      BY <2>2 DEF Now
    <3> HIDE DEF w
    <3> QED
      BY <2>1, <2>7, <3>1, ConcatEmptySeq
  <2>9. \A x \in 1..n : f[x] = S[Front + x]
    <3>1. \A x \in 1..n : x \in 1..Len(usb) /\ f[x] = usb[x]
      BY <2>1, <2>2, <2>3, <2>4
    <3> QED
      BY <2>4, <2>5, <3>1 DEF LineIs
  <2> HIDE DEF w
  <2>10. \A x \in 1..n : w[Len(got) + x] = S[Front + x]
    BY <2>7, <2>9
  <2>11. Traced(a, got, Front, hurt) /\ Accounted(a, got, Len(got), Front, hurt, received)
    BY <2>6 DEF Known
  <2>12. Arrives(got, Front, hurt, w, n, n)
    <3>1. n \in 0..n /\ \A p \in (Front + n + 1)..(Front + n) : S[p].of \in hurt
      BY <2>3, <2>5
    <3> QED
      BY <2>3, <2>5, <2>7, <2>10, <3>1 DEF Arrives
  <2>13. \E b : /\ Traced(b, w, Front + n, hurt) /\ Accounted(b, w, Len(got), Front + n, hurt, received)
                /\ \A x \in 1..Len(got) : b[x] = a[x]
    <3>1. Len(got) \in Nat /\ Len(got) <= Len(got) /\ hurt \subseteq hurt
      BY <2>4
    <3> QED
      BY <2>11, <2>12, <3>1, ArrivingAccounts
  <2> QED
    BY <2>5, <2>8, <2>13
<1> QED
  BY <1>1, <1>2

\* How many bytes Recv has with those it now takes.
LEMMA TakesFew ==
    ASSUME StreamInv, FieldKnown, pc \in Reading, NEW f \in 0..need
    PROVE  \/ Len(got) = 0 /\ f <= 1
           \/ Len(got) = 1 /\ f <= 1 /\ got[1].sym # "c"
           \/ Len(got) = 2 /\ f <= 1 /\ got[2].sym # "c"
           \/ Len(got) >= 3 /\ Len(got) + f <= MaxPayload + 6
<1>1. need \in Int /\ need >= 1 /\ MaxPayload \in Nat /\ MaxPayload >= 1 /\ got \in Seq(Byte) /\ Len(got) \in Nat
  BY StateIs
<1>2. pc \in Reading \ {"payload"} => need = 1
  BY DEF FieldKnown
<1>3. CASE pc = "sync1"
  <2>1. got = <<>> /\ need = 1
    BY <1>2, <1>3 DEF FieldKnown, Reading
  <2> QED
    BY <2>1
<1>4. CASE pc = "sync2"
  BY <1>1, <1>2, <1>4 DEF FieldKnown, Reading
<1>5. CASE pc = "version"
  BY <1>1, <1>2, <1>5 DEF FieldKnown, Reading
<1>6. CASE pc = "header"
  <2>1. Len(got) = 3
    BY <1>6 DEF FieldKnown
  <2>2. f \in Int /\ f <= 1
    BY <1>1, <1>2, <1>6 DEF Reading
  <2> QED
    BY <1>1, <2>1, <2>2
<1>7. CASE pc = "payload"
  <2>1. Len(got) >= 4 /\ Len(got) + need <= MaxPayload + 4
    BY <1>7 DEF FieldKnown
  <2>2. f \in Int /\ f <= need
    BY <1>1
  <2> QED
    BY <1>1, <2>1, <2>2
<1>8. CASE pc = "hmac"
  BY <1>1, <1>2, <1>8 DEF FieldKnown, Reading
<1>9. CASE pc = "crc"
  BY <1>1, <1>2, <1>9 DEF FieldKnown, Reading
<1> QED
  BY <1>3, <1>4, <1>5, <1>6, <1>7, <1>8, <1>9 DEF Reading

\* In step with a packet that is not hurt it takes no more than the packet.
LEMMA TakesWithin ==
    ASSUME StreamInv, FieldKnown, pc \in Reading, NEW f \in 0..need, NEW a, HeaderKnown(a),
           NEW k \in Indices \ hurt, InStep(a, Len(got), k)
    PROVE  Len(got) + f <= Size(k)
<1>1. need \in Int /\ Len(got) \in Nat /\ Len(got) >= 1 /\ Size(k) \in Nat /\ Size(k) >= 7
  BY StateIs, PacketPlaces DEF InStep
<1>2. pc \in Reading \ {"payload"} => need = 1
  BY DEF FieldKnown
<1>3. /\ pc = "payload" => Len(got) + need = Size(k) - 2
      /\ pc = "hmac" => Len(got) = Size(k) - 2
      /\ pc = "crc" => Len(got) = Size(k) - 1
  BY DEF HeaderKnown, FieldsOf
<1>4. CASE pc \in {"payload", "hmac", "crc"}
  BY <1>1, <1>2, <1>3, <1>4 DEF Reading
<1>5. CASE pc \in {"sync2", "version", "header"}
  <2>1. need = 1
    BY <1>2, <1>5 DEF Reading
  <2>2. Len(got) <= 3
    <3>1. PICK n \in Int : n = Len(got)
      BY <1>1
    <3>2. n = 1 \/ n = 2 \/ n = 3
      BY <1>5, <3>1 DEF FieldKnown
    <3>3. n <= 3
      BY <3>2
    <3> QED
      BY <3>1, <3>3
  <2> QED
    BY <1>1, <2>1, <2>2
<1>6. CASE pc = "sync1"
  <2>1. got = <<>>
    BY <1>6 DEF FieldKnown
  <2> QED
    BY <1>1, <2>1
<1> QED
  BY <1>4, <1>5, <1>6 DEF Reading

\* The packet with the bytes taken, and those that wait behind it.
LEMMA NowLies ==
    ASSUME StreamInv, TakeBytes, pc \in Reading
    PROVE  /\ Now \in Seq(Byte) /\ Len(Now) = Len(got) + Len(Fresh) /\ Len(Fresh) \in 0..need
           /\ Len(Now) \in Len(got)..Len(Now \o Waiting') /\ Len(Now) \in Nat /\ Len(Now \o Waiting') \in Nat
           /\ Waiting' \in Seq(Byte) /\ Len(Waiting') = Len(Now \o Waiting') - Len(Now)
           /\ \A x \in 1..Len(got) : Now[x] = got[x]
           /\ \A x \in 1..Len(Fresh) : Now[Len(got) + x] = Fresh[x]
           /\ \A x \in 1..Len(Now) : (Now \o Waiting')[x] = Now[x]
           /\ \A x \in 1..Len(Waiting') : (Now \o Waiting')[Len(Now) + x] = Waiting'[x]
<1>1. got \in Seq(Byte) /\ Fresh \in Seq(Byte) /\ Len(Fresh) \in 0..need /\ Waiting' \in Seq(Byte) /\ Len(got) \in Nat
  <2>1. <<>> \in Seq(Byte)
    OBVIOUS
  <2> QED
    BY <2>1, StateIs, TakesWaiting, TakesLine
<1>2. PICK f \in Seq(Byte), w \in Seq(Byte) : f = Fresh /\ w = Waiting'
  BY <1>1
<1>3. PICK v \in Seq(Byte) : v = Now
  BY NowIs
<1>4. v = got \o f
  BY <1>2, <1>3 DEF Now
<1>5. /\ Len(v) = Len(got) + Len(f) /\ Len(f) \in Nat /\ Len(w) \in Nat /\ Len(v) \in Nat
      /\ \A x \in 1..Len(got) : v[x] = got[x]
      /\ \A x \in 1..Len(f) : v[Len(got) + x] = f[x]
  BY <1>1, <1>4, JoinIs
<1>6. /\ Len(v \o w) = Len(v) + Len(w)
      /\ \A x \in 1..Len(v) : (v \o w)[x] = v[x]
      /\ \A x \in 1..Len(w) : (v \o w)[Len(v) + x] = w[x]
  BY JoinIs
<1>7. v \o w = Now \o Waiting'
  BY <1>2, <1>3
<1>8. Len(v) \in Len(got)..Len(v \o w) /\ Len(w) = Len(v \o w) - Len(v) /\ Len(v \o w) \in Nat
  BY <1>1, <1>5, <1>6
<1> QED
  BY <1>1, <1>2, <1>3, <1>5, <1>6, <1>7, <1>8

\* Positions that agree on what was read agree on the packet it is in step with.
LEMMA SameStep ==
    ASSUME NEW a, NEW b, NEW n \in Nat, \A x \in 1..n : b[x] = a[x], NEW k
    PROVE  InStep(a, n, k) <=> InStep(b, n, k)
BY DEF InStep

\* When a RecvBytes has taken bytes the packets are accounted for behind them, and what Recv was in
\* step with it still is.
LEMMA TakesOn ==
    ASSUME StreamInv, LineIs, FieldKnown, NEW a, Known(a), TakeBytes, pc \in Reading
    PROVE  \E b : /\ Traced(b, Now \o Waiting', Front', hurt)
                  /\ Accounted(b, Now \o Waiting', Len(Now), Front', hurt, received)
                  /\ \A k \in Indices \ hurt : InStep(a, Len(got), k) => InStep(b, Len(Now), k)
                  /\ \A x \in 1..Len(got) : b[x] = a[x]
<1>1. PICK b : /\ Traced(b, Now \o Waiting', Front', hurt)
               /\ Accounted(b, Now \o Waiting', Len(got), Front', hurt, received)
               /\ \A x \in 1..Len(got) : b[x] = a[x]
  BY Taken
<1> DEFINE n == Len(got)
           n2 == Len(Now)
           u == Now \o Waiting'
           f == Len(Fresh)
<1>2. /\ n2 = n + f /\ f \in 0..need /\ n2 \in n..Len(u) /\ n2 \in Nat /\ Len(u) \in Nat
      /\ \A x \in 1..n : Now[x] = got[x]
      /\ \A x \in 1..n2 : u[x] = Now[x]
  BY NowLies
<1>3. n \in Nat /\ hurt \subseteq Indices /\ MaxPayload \in Nat /\ need \in Int
  BY StateIs
<1>4. \A k : InStep(a, n, k) <=> InStep(b, n, k)
  BY <1>1, <1>3, SameStep
<1>5. HeaderKnown(a)
  BY DEF Known
<1>6. \A x \in 1..n : u[x] = got[x]
  BY <1>2, <1>3
<1>7. ASSUME NEW k \in Indices \ hurt, InStep(b, n, k) PROVE n2 <= Size(k)
  BY <1>2, <1>4, <1>5, <1>7, TakesWithin
<1>8. \/ n = 0 /\ f <= 1
      \/ n = 1 /\ f <= 1 /\ got[1].sym # "c"
      \/ n = 2 /\ f <= 1 /\ got[2].sym # "c"
      \/ n >= 3 /\ n + f <= MaxPayload + 6
  BY <1>2, TakesFew
<1>9. n >= 3 => got[3].of \in hurt \/ InStep(a, n, got[3].of)
  BY <1>5 DEF HeaderKnown
<1> HIDE DEF n, n2, u, f
<1>10. /\ f \in Int /\ f >= 0 /\ n >= 0
       /\ n >= 1 => 1 \in 1..n
       /\ n >= 2 => 2 \in 1..n
       /\ n >= 3 => 3 \in 1..n
  BY <1>2, <1>3
<1>11. MayTake(b, u, n, n2, hurt)
  <2>1. CASE f = 0
    <3>1. n2 = n
      BY <1>2, <1>3, <2>1
    <3> QED
      BY <1>2, <1>7, <3>1 DEF MayTake
  <2>2. CASE f # 0 /\ n < 3
    <3>1. f = 1 /\ (n = 0 \/ (n = 1 /\ u[1].sym # "c") \/ (n = 2 /\ u[2].sym # "c"))
      BY <1>3, <1>6, <1>8, <1>10, <2>2
    <3>2. n2 = n + 1
      BY <1>2, <3>1
    <3>3. \/ n = 0 /\ n2 = 1
          \/ n >= 1 /\ n2 = n + 1 /\ u[n].sym # "c"
      BY <1>3, <3>1, <3>2
    <3> QED
      BY <1>2, <1>7, <3>3 DEF MayTake
  <2>3. CASE n >= 3
    <3>1. n2 <= MaxPayload + 6
      BY <1>2, <1>8, <2>3
    <3>2. u[3].of \in hurt \/ InStep(b, n, u[3].of)
      BY <1>4, <1>6, <1>9, <1>10, <2>3
    <3> QED
      BY <1>2, <1>7, <2>3, <3>1, <3>2 DEF MayTake
  <2> QED
    BY <1>3, <2>1, <2>2, <2>3
<1>12. Traced(b, u, Front', hurt) /\ Accounted(b, u, n, Front', hurt, received)
  BY <1>1 DEF u, n
<1>13. Accounted(b, u, n2, Front', hurt, received)
  BY <1>2, <1>3, <1>11, <1>12, TakingAccounts
<1>14. ASSUME NEW k \in Indices \ hurt, InStep(a, n, k) PROVE InStep(b, n2, k)
  <2>1. InStep(b, n, k)
    BY <1>4, <1>14
  <2>2. n2 <= Size(k) /\ n >= 1
    BY <1>7, <2>1 DEF InStep
  <2>3. n \in 1..Len(u) /\ n2 \in n..Len(u)
    BY <1>2, <1>3, <2>2
  <2> QED
    BY <1>12, <2>1, <2>2, <2>3, StaysInStep
<1> QED
  BY <1>1, <1>12, <1>13, <1>14 DEF n, n2, u

\* Recv goes on with the packet it reads.
LEMMA KeepsKnown ==
    ASSUME StreamInv, LineIs, FieldKnown, NEW a, Known(a), TakeBytes, pc \in Reading,
           got' = Now, hurt' = hurt, received' = received,
           Len(got) >= 3 \/ Len(Now) < 3 \/ (Now[1].sym = "@" /\ Now[2].sym = "F" /\ Now[3].sym = "v" /\ Len(Now) = 3),
           \A k \in Indices \ hurt :
             (Len(got) >= 1 => FieldsOf(k)) /\ (Len(Now) >= 4 => Now[4] = Bytes(k)[4]) => FieldsOf(k)'
    PROVE  \E b : Known(b)'
<1>1. PICK b : /\ Traced(b, Now \o Waiting', Front', hurt)
               /\ Accounted(b, Now \o Waiting', Len(Now), Front', hurt, received)
               /\ \A k \in Indices \ hurt : InStep(a, Len(got), k) => InStep(b, Len(Now), k)
               /\ \A x \in 1..Len(got) : b[x] = a[x]
  BY TakesOn
<1>2. Ahead' = Now \o Waiting'
  BY DEF Ahead
<1>3. Traced(b, Ahead, Front, hurt)'
  BY <1>1, <1>2
<1>4. Accounted(b, Ahead, Len(got), Front, hurt, received)'
  BY <1>1, <1>2
<1> DEFINE n == Len(got)
           n2 == Len(Now)
           u == Now \o Waiting'
<1>5. /\ n \in Nat /\ n2 \in n..Len(u) /\ n2 \in Nat /\ Len(u) \in Nat
      /\ \A x \in 1..n : Now[x] = got[x]
      /\ \A x \in 1..n2 : u[x] = Now[x]
  BY NowLies, StateIs
<1>6. /\ n >= 3 => got[3].of \in hurt \/ InStep(a, n, got[3].of)
      /\ \A k \in Indices \ hurt : InStep(a, n, k) => FieldsOf(k)
  BY DEF Known, HeaderKnown
<1>7. n >= 3 => got[3].of \in Indices
  <2>1. got \in Seq(Byte)
    BY StateIs
  <2> QED
    BY <1>5, <2>1, MemberIs, ByteIs
<1>8. Traced(b, u, Front', hurt)
  BY <1>1
<1>9. (\A k \in Indices \ hurt : InStep(a, n, k) => InStep(b, n2, k)) /\ \A x \in 1..n : b[x] = a[x]
  BY <1>1
<1> HIDE DEF n, n2, u
<1>10. n2 >= 3 => Now[3].of \in hurt \/ InStep(b, n2, Now[3].of)
  <2>1. CASE n >= 3
    <3>1. Now[3] = got[3]
      BY <1>5, <2>1
    <3> QED
      BY <1>6, <1>7, <1>9, <2>1, <3>1
  <2>2. CASE ~(n >= 3) /\ n2 >= 3
    <3>1. Now[1].sym = "@" /\ Now[2].sym = "F" /\ Now[3].sym = "v" /\ n2 = 3
      BY <1>5, <2>2 DEF n, n2
    <3>2. u[1] = Now[1] /\ u[2] = Now[2] /\ u[3] = Now[3] /\ Len(u) >= 3
      BY <1>5, <2>2
    <3>3. u[3].of \notin hurt => InStep(b, 3, u[3].of)
      BY <1>8, <3>1, <3>2, HeaderIs
    <3> QED
      BY <3>1, <3>2, <3>3
  <2> QED
    BY <2>1, <2>2
<1>11. ASSUME NEW k \in Indices \ hurt, InStep(b, n2, k) PROVE FieldsOf(k)'
  <2>1. n >= 1 => FieldsOf(k)
    <3>1. CASE n >= 1
      <4>1. \A x \in 1..n : x \in 1..n2
        BY <1>5
      <4>2. InStep(a, n, k)
        BY <1>9, <1>11, <3>1, <4>1 DEF InStep
      <4> QED
        BY <1>6, <4>2
    <3> QED
      BY <3>1
  <2>2. n2 >= 4 => Now[4] = Bytes(k)[4]
    <3>1. CASE n2 >= 4
      <4>1. 4 \in 1..n2 /\ 4 \in 1..Len(u)
        BY <1>5, <3>1
      <4>2. u[4] = S[b[4]] /\ b[4] = Start(k) + 4
        BY <1>8, <1>11, <4>1, TracedIs DEF InStep
      <4>3. 4 \in 1..Size(k)
        BY PacketPlaces
      <4> QED
        BY <1>5, <4>1, <4>2, <4>3, WithinIs
    <3> QED
      BY <3>1
  <2> QED
    BY <2>1, <2>2 DEF n, n2
<1>12. HeaderKnown(b)'
  BY <1>10, <1>11 DEF HeaderKnown, n2
<1> QED
  BY <1>3, <1>4, <1>12 DEF Known

\* What is in step with a packet are its bytes.
LEMMA InStepBytes ==
    ASSUME NEW b, NEW u, NEW q, NEW h, Traced(b, u, q, h), NEW k \in Indices,
           NEW n \in 0..Len(u), n <= Size(k), InStep(b, n, k)
    PROVE  \A x \in 1..n : u[x] = Bytes(k)[x]
<1>1. Len(u) \in Nat /\ Size(k) \in Nat /\ n \in Nat
  BY TracedIs, PacketPlaces
<1>2. ASSUME NEW x \in 1..n PROVE u[x] = Bytes(k)[x]
  <2>1. x \in 1..Len(u) /\ x \in 1..Size(k)
    BY <1>1
  <2>2. u[x] = S[b[x]]
    BY <2>1, TracedIs
  <2>3. b[x] = Start(k) + x
    BY <1>2 DEF InStep
  <2> QED
    BY <2>1, <2>2, <2>3, WithinIs
<1> QED
  BY <1>2

\* Recv lets go of the bytes it has.
LEMMA LetsGo ==
    ASSUME StreamInv, NEW b, NEW v \in Seq(Byte), NEW w \in Seq(Byte), NEW q,
           Traced(b, v \o w, q, hurt), Accounted(b, v \o w, Len(v), q, hurt, received),
           hurt \subseteq hurt', received \subseteq received', got' = <<>>, Waiting' = w, Front' = q,
           \A k \in Indices \ (hurt' \cup received') : ~InStep(b, Len(v), k)
    PROVE  \E c : Known(c)'
<1> DEFINE u == v \o w
           n == Len(v)
<1>1. /\ Len(u) = n + Len(w) /\ n \in Nat /\ Len(w) \in Nat
      /\ \A x \in 1..Len(w) : u[n + x] = w[x]
  BY JoinIs
<1>2. Traced(b, u, q, hurt) /\ Accounted(b, u, n, q, hurt, received)
  OBVIOUS
<1>3. \A k \in Indices \ (hurt' \cup received') : ~InStep(b, n, k)
  OBVIOUS
<1> HIDE DEF u, n
<1>4. n \in 0..Len(u) /\ Len(w) = Len(u) - n
  BY <1>1
<1>5. Drops(b, u, n, hurt', received', w)
  BY <1>1, <1>3, <1>4 DEF Drops
<1>6. PICK c : Traced(c, w, q, hurt') /\ Accounted(c, w, 0, q, hurt', received')
  BY <1>2, <1>5, DroppingAccounts
<1>7. Ahead' = w
  <2>1. Ahead' = <<>> \o w
    BY DEF Ahead
  <2> QED
    BY <2>1, ConcatEmptySeq
<1>8. Len(got') = 0
  OBVIOUS
<1>9. Traced(c, Ahead, Front, hurt)'
  BY <1>6, <1>7
<1>10. Accounted(c, Ahead, Len(got), Front, hurt, received)'
  BY <1>6, <1>7, <1>8
<1>11. HeaderKnown(c)'
  <2>1. ASSUME NEW k PROVE ~InStep(c, Len(got'), k)
    BY <1>8 DEF InStep
  <2> QED
    BY <1>8, <2>1 DEF HeaderKnown
<1> QED
  BY <1>9, <1>10, <1>11 DEF Known

\* The first n bytes of a packet, in the fields of it.
Begins(k, s) ==
    /\ Len(s) >= 1 /\ Len(s) <= Size(k) /\ \A x \in 1..Len(s) : s[x] = Bytes(k)[x]
    /\ Len(got) >= 1 => FieldsOf(k)

\* Recv drops the packet with the bytes it now takes, which are no packet in step or one that is hurt
\* or returned.
LEMMA DropsKnown ==
    ASSUME StreamInv, LineIs, FieldKnown, NEW a, Known(a), TakeBytes, pc \in Reading,
           got' = <<>>, hurt \subseteq hurt', received \subseteq received',
           \A k \in Indices \ (hurt' \cup received') : ~Begins(k, Now)
    PROVE  \E c : Known(c)'
<1>1. PICK b : /\ Traced(b, Now \o Waiting', Front', hurt)
               /\ Accounted(b, Now \o Waiting', Len(Now), Front', hurt, received)
               /\ \A k \in Indices \ hurt : InStep(a, Len(got), k) => InStep(b, Len(Now), k)
               /\ \A x \in 1..Len(got) : b[x] = a[x]
  BY TakesOn
<1>2. PICK v, w, q : v = Now /\ w = Waiting' /\ q = Front' /\ v \in Seq(Byte) /\ w \in Seq(Byte)
  BY NowLies
<1> DEFINE n == Len(got)
           n2 == Len(v)
           u == v \o w
           f == Len(Fresh)
<1>3. /\ n \in Nat /\ n2 = n + f /\ f \in 0..need /\ need \in Nat /\ n2 \in n..Len(u) /\ n2 \in Nat
      /\ \A x \in 1..n2 : u[x] = v[x]
  BY <1>2, NowLies, StateIs
<1>4. Traced(b, u, q, hurt) /\ Accounted(b, u, n2, q, hurt, received)
  BY <1>1, <1>2
<1>5. n = 0 => f <= 1
  BY <1>3, TakesFew
<1>6. \A k \in Indices \ hurt : InStep(a, n, k) => FieldsOf(k)
  BY DEF Known, HeaderKnown
<1>7. ASSUME NEW k \in Indices \ hurt, InStep(a, n, k) PROVE n + f <= Size(k)
  <2>1. HeaderKnown(a)
    BY DEF Known
  <2> QED
    BY <1>3, <1>7, <2>1, TakesWithin
<1>8. \A x \in 1..n : b[x] = a[x]
  BY <1>1
<1> HIDE DEF n, n2, u, f
<1>9. ASSUME NEW k \in Indices \ (hurt' \cup received'), InStep(b, n2, k) PROVE FALSE
  <2>1. k \in Indices \ hurt /\ n2 >= 1 /\ Size(k) \in Nat /\ Size(k) >= 7
    BY <1>9, PacketPlaces DEF InStep
  <2>2. n >= 1 => InStep(a, n, k)
    <3>1. \A x \in 1..n : x \in 1..n2
      BY <1>3
    <3> QED
      BY <1>8, <1>9, <3>1 DEF InStep
  <2>3. n2 <= Size(k)
    <3>1. CASE n >= 1
      BY <1>3, <1>7, <2>1, <2>2, <3>1
    <3>2. CASE n = 0
      BY <1>3, <1>5, <2>1, <3>2
    <3> QED
      BY <1>3, <3>1, <3>2
  <2>4. n2 \in 0..Len(u)
    BY <1>3
  <2>5. \A x \in 1..n2 : u[x] = Bytes(k)[x]
    BY <1>4, <1>9, <2>1, <2>3, <2>4, InStepBytes
  <2>6. Begins(k, v)
    BY <1>3, <1>6, <2>1, <2>2, <2>3, <2>5 DEF Begins, n, n2
  <2> QED
    BY <1>2, <1>9, <2>6
<1> QED
  BY <1>2, <1>4, <1>9, LetsGo DEF n2, u

\* Recv gives the packet up without more bytes: the packet of the last byte is hurt.
LEMMA GivesUpKnown ==
    ASSUME StreamInv, FieldKnown, NEW a, Known(a), pc \in Reading, NEW status,
           GiveUp(got, status), UNCHANGED <<bufVars, workerVars>>
    PROVE  \E c : Known(c)'
<1>1. got' = <<>> /\ received' = received /\ hurt' = IF got = <<>> THEN hurt ELSE hurt \cup {got[Len(got)].of}
  BY DEF GiveUp, Return
<1>2. Waiting' = Waiting /\ Front' = Front
  BY DEF Waiting, Front, bufVars, workerVars
<1>3. /\ Traced(a, got \o Waiting, Front, hurt)
      /\ Accounted(a, got \o Waiting, Len(got), Front, hurt, received)
      /\ HeaderKnown(a)
  BY DEF Known, Ahead
<1> DEFINE u == got \o Waiting
           n == Len(got)
<1>4. /\ got \in Seq(Byte) /\ Waiting \in Seq(Byte) /\ n \in 0..Len(u) /\ n \in Nat /\ 0 \in 0..need
      /\ \A x \in 1..n : u[x] = got[x]
  <2>1. got \in Seq(Byte) /\ Waiting \in Seq(Byte) /\ 0 \in 0..need
    BY StateIs, WaitingIs
  <2>2. Len(u) = n + Len(Waiting) /\ n \in Nat /\ Len(Waiting) \in Nat
    BY <2>1, JoinIs
  <2> QED
    BY <2>1, <2>2, JoinIs
<1>5. ASSUME NEW k \in Indices \ (hurt' \cup received'), InStep(a, n, k) PROVE FALSE
  <2>1. k \in Indices \ hurt /\ n >= 1 /\ n \in 1..n /\ got # <<>>
    <3>1. n >= 1
      BY <1>5 DEF InStep
    <3> QED
      BY <1>1, <1>4, <3>1
  <2>2. n <= Size(k)
    <3>1. n + 0 <= Size(k)
      BY <1>3, <1>4, <1>5, <2>1, TakesWithin
    <3> QED
      BY <1>4, <3>1
  <2>3. u[n] = Bytes(k)[n]
    <3> HIDE DEF u, n
    <3>1. Traced(a, u, Front, hurt)
      BY <1>3 DEF u
    <3> QED
      BY <1>4, <1>5, <2>1, <2>2, <3>1, InStepBytes
  <2>4. got[n].of = k
    <3>1. n \in 1..Size(k)
      BY <1>4, <2>1, <2>2, PacketPlaces
    <3> QED
      BY <1>4, <2>1, <2>3, <3>1, WithinIs
  <2> QED
    BY <1>1, <2>1, <2>4
<1> HIDE DEF u, n
<1>6. PICK v \in Seq(Byte), w \in Seq(Byte) : v = got /\ w = Waiting
  BY <1>4
<1>q. PICK q : q = Front
  OBVIOUS
<1>7. Traced(a, v \o w, q, hurt) /\ Accounted(a, v \o w, Len(v), q, hurt, received)
  BY <1>3, <1>6, <1>q
<1>8. \A k \in Indices \ (hurt' \cup received') : ~InStep(a, Len(v), k)
  BY <1>5, <1>6 DEF n
<1>9. hurt \subseteq hurt' /\ received \subseteq received' /\ Waiting' = w /\ Front' = q
  BY <1>1, <1>2, <1>6, <1>q
<1> QED
  BY <1>1, <1>7, <1>8, <1>9, LetsGo

\* What a step keeps of the invariant, besides the types.
StepKept == LineIs' /\ FieldKnown' /\ \E a : Known(a)'

\* Without a packet nothing is known of its fields.
LEMMA EndsFields == ASSUME got' = <<>>, pc' \in {"idle", "sync"} PROVE FieldKnown'
BY DEF FieldKnown, Reading

LEMMA LineStays == ASSUME LineIs, UNCHANGED <<port, usb, sending>> PROVE LineIs' /\ Front' = Front
BY DEF LineIs, Front

\* A field that has been read is behind what was read before.
LEMMA FieldDone ==
    ASSUME StreamInv, NEW field \in Reading, Complete(field)
    PROVE  /\ TakeBytes /\ pc = field /\ Len(Now) = Len(got) + need /\ Len(got) \in Nat /\ need \in Nat /\ need >= 1
           /\ Now[Len(got) + 1] = Fresh[1] /\ \A x \in 1..Len(got) : Now[x] = got[x]
<1>1. TakeBytes /\ pc = field /\ pc \in Reading /\ Len(Fresh) = need
  BY DEF Complete
<1>2. need \in Nat /\ need >= 1 /\ Len(got) \in Nat
  BY <1>1, StateIs
<1>3. 1 \in 1..need
  BY <1>2
<1> QED
  BY <1>1, <1>2, <1>3, NowLies

\* Recv gives up inside a packet.
LEMMA StepGivesUp ==
    ASSUME StepInv, RecvError \/ RecvBytesTimeout PROVE StepKept
<1>1. /\ pc \in Reading /\ UNCHANGED <<bufVars, workerVars>>
      /\ \E status \in {"RecvFailed", "RecvTimeout"} : GiveUp(got, status)
  BY DEF RecvError, RecvBytesTimeout
<1>2. StreamInv /\ LineIs /\ FieldKnown /\ \E a : Known(a)
  BY DEF StepInv
<1>3. \E c : Known(c)'
  BY <1>1, <1>2, GivesUpKnown
<1>4. LineIs'
  BY <1>1, <1>2, LineStays DEF workerVars
<1>5. got' = <<>> /\ pc' \in {"idle", "sync"}
  BY <1>1 DEF GiveUp, Return
<1> QED
  BY <1>3, <1>4, <1>5, EndsFields DEF StepKept

\* One ReadFile of too few bytes.
LEMMA StepShort == ASSUME StepInv, RecvShort PROVE StepKept
<1>1. pc \in Reading /\ TakeBytes /\ GiveUp(Now, "RecvTimeout")
  BY DEF RecvShort, Now
<1>2. StreamInv /\ LineIs /\ FieldKnown /\ \E a : Known(a)
  BY DEF StepInv
<1>3. got' = <<>> /\ pc' \in {"idle", "sync"} /\ received' = received
      /\ hurt' = IF Now = <<>> THEN hurt ELSE hurt \cup {Now[Len(Now)].of}
  BY <1>1 DEF GiveUp, Return
<1>4. ASSUME NEW k \in Indices \ (hurt' \cup received'), Begins(k, Now) PROVE FALSE
  <2>1. Now \in Seq(Byte)
    BY <1>1, <1>2, NowIs
  <2>2. PICK n \in Nat : n = Len(Now)
    BY <2>1
  <2>3. n >= 1 /\ n <= Size(k) /\ \A x \in 1..n : Now[x] = Bytes(k)[x]
    BY <1>4, <2>2 DEF Begins
  <2>4. n \in 1..n /\ n \in 1..Size(k) /\ Now # <<>>
    BY <2>1, <2>2, <2>3, PacketPlaces
  <2>5. Now[n].of = k
    BY <2>3, <2>4, WithinIs
  <2> QED
    BY <1>3, <1>4, <2>2, <2>4, <2>5
<1>5. \E c : Known(c)'
  BY <1>1, <1>2, <1>3, <1>4, DropsKnown
<1>6. LineIs'
  BY <1>1, <1>2, TakingKeepsLine
<1> QED
  BY <1>3, <1>5, <1>6, EndsFields DEF StepKept

\* The first bytes of a packet.
LEMMA BeginsIs ==
    ASSUME NEW k \in Indices, NEW s \in Seq(Byte), Begins(k, s)
    PROVE  /\ s[1].sym = "@"
           /\ Len(s) >= 2 => s[2].sym = "F"
           /\ Len(s) >= 3 => s[3].sym = "v"
           /\ Len(s) >= 4 => s[4] = Bytes(k)[4]
<1>1. PICK n \in Nat : n = Len(s)
  OBVIOUS
<1>2. n >= 1 /\ \A x \in 1..n : s[x] = Bytes(k)[x]
  BY <1>1 DEF Begins
<1>3. 1 \in 1..n /\ (n >= 2 => 2 \in 1..n) /\ (n >= 3 => 3 \in 1..n) /\ (n >= 4 => 4 \in 1..n)
  BY <1>2
<1> QED
  BY <1>1, <1>2, <1>3, BytesAre

\* A sync byte.
LEMMA StepSync ==
    ASSUME StepInv, RecvSync("sync1", "@", "sync2") \/ RecvSync("sync2", "F", "version")
    PROVE  StepKept
<1>1. PICK field \in {"sync1", "sync2"} : \E sym, next : /\ RecvSync(field, sym, next)
        /\ \/ field = "sync1" /\ sym = "@" /\ next = "sync2"
           \/ field = "sync2" /\ sym = "F" /\ next = "version"
  OBVIOUS
<1>2. PICK sym, next : /\ RecvSync(field, sym, next)
        /\ \/ field = "sync1" /\ sym = "@" /\ next = "sync2"
           \/ field = "sync2" /\ sym = "F" /\ next = "version"
  BY <1>1
<1>3. /\ Complete(field) /\ UNCHANGED <<received, hurt>>
      /\ \/ Fresh[1].sym = sym /\ got' = Now /\ Ask(next, 1)
         \/ Fresh[1].sym # sym /\ got' = <<>> /\ pc' = "sync"
  BY <1>2 DEF RecvSync
<1>4. StreamInv /\ LineIs /\ FieldKnown /\ \E a : Known(a)
  BY DEF StepInv
<1>5. field \in Reading
  BY DEF Reading
<1>6. /\ TakeBytes /\ pc = field /\ Len(Now) = Len(got) + need /\ Len(got) \in Nat /\ need \in Nat /\ need >= 1
      /\ Now[Len(got) + 1] = Fresh[1] /\ \A x \in 1..Len(got) : Now[x] = got[x]
  BY <1>3, <1>4, <1>5, FieldDone
<1>7. need = 1 /\ (field = "sync1" => Len(got) = 0) /\ (field = "sync2" => Len(got) = 1 /\ got[1].sym = "@")
  <2>1. need = 1
    BY <1>4, <1>6 DEF FieldKnown, Reading
  <2>2. field = "sync1" => got = <<>>
    BY <1>4, <1>6 DEF FieldKnown
  <2>3. field = "sync2" => Len(got) = 1 /\ got[1].sym = "@"
    BY <1>4, <1>6 DEF FieldKnown
  <2> QED
    BY <2>1, <2>2, <2>3
<1>8. /\ field = "sync1" => Len(Now) = 1 /\ Now[1] = Fresh[1]
      /\ field = "sync2" => Len(Now) = 2 /\ Now[2] = Fresh[1] /\ Now[1].sym = "@"
  <2>1. CASE field = "sync1"
    BY <1>6, <1>7, <2>1
  <2>2. CASE field = "sync2"
    <3>1. Len(got) = 1 /\ 1 \in 1..Len(got)
      BY <1>7, <2>2
    <3> QED
      BY <1>6, <1>7, <2>2, <3>1
  <2> QED
    BY <2>1, <2>2
<1>9. LineIs' /\ Now \in Seq(Byte)
  BY <1>4, <1>5, <1>6, TakingKeepsLine, NowIs
<1>10. CASE Fresh[1].sym = sym /\ got' = Now /\ Ask(next, 1)
  <2>1. pc' = next /\ need' = 1
    BY <1>10 DEF Ask
  <2>2. \A k : FieldsOf(k)'
    BY <1>2, <2>1 DEF FieldsOf
  <2>3. Len(Now) < 3
    <3>1. PICK n \in Nat : n = Len(Now)
      BY <1>9
    <3>2. n = 1 \/ n = 2
      BY <1>8, <3>1
    <3>3. n < 3
      BY <3>2
    <3> QED
      BY <3>1, <3>3
  <2>4. \E b : Known(b)'
    BY <1>3, <1>4, <1>5, <1>6, <1>10, <2>2, <2>3, KeepsKnown
  <2>5. FieldKnown'
    BY <1>2, <1>8, <1>10, <2>1 DEF FieldKnown, Reading
  <2> QED
    BY <1>9, <2>4, <2>5 DEF StepKept
<1>11. CASE Fresh[1].sym # sym /\ got' = <<>> /\ pc' = "sync"
  <2>1. ASSUME NEW k \in Indices, Begins(k, Now) PROVE FALSE
    BY <1>2, <1>8, <1>9, <1>11, <2>1, BeginsIs
  <2>2. hurt \subseteq hurt' /\ received \subseteq received'
    BY <1>3
  <2>3. \E b : Known(b)'
    BY <1>4, <1>5, <1>6, <1>11, <2>1, <2>2, DropsKnown
  <2>4. FieldKnown'
    BY <1>11, EndsFields
  <2> QED
    BY <1>9, <2>3, <2>4 DEF StepKept
<1> QED
  BY <1>3, <1>10, <1>11

\* The version.
LEMMA StepVersion == ASSUME StepInv, RecvVersion PROVE StepKept
<1>3. /\ Complete("version") /\ UNCHANGED <<received, hurt>>
      /\ \/ Fresh[1].sym = "v" /\ got' = Now /\ Ask("header", 1)
         \/ Fresh[1].sym # "v" /\ got' = <<>> /\ pc' = "idle"
  BY DEF RecvVersion, Return
<1>4. StreamInv /\ LineIs /\ FieldKnown /\ \E a : Known(a)
  BY DEF StepInv
<1>5. "version" \in Reading
  BY DEF Reading
<1>6. /\ TakeBytes /\ pc = "version" /\ Len(Now) = Len(got) + need /\ Len(got) \in Nat /\ need \in Nat /\ need >= 1
      /\ Now[Len(got) + 1] = Fresh[1] /\ \A x \in 1..Len(got) : Now[x] = got[x]
  BY <1>3, <1>4, <1>5, FieldDone
<1>7. need = 1 /\ Len(got) = 2 /\ got[1].sym = "@" /\ got[2].sym = "F"
  BY <1>4, <1>6 DEF FieldKnown, Reading
<1>8. Len(Now) = 3 /\ Now[1].sym = "@" /\ Now[2].sym = "F" /\ Now[3] = Fresh[1]
  <2>1. Len(got) = 2 /\ 1 \in 1..Len(got) /\ 2 \in 1..Len(got) /\ Len(got) + 1 = 3
    BY <1>7
  <2> QED
    BY <1>6, <1>7, <2>1
<1>9. LineIs' /\ Now \in Seq(Byte)
  BY <1>4, <1>5, <1>6, TakingKeepsLine, NowIs
<1>10. CASE Fresh[1].sym = "v" /\ got' = Now /\ Ask("header", 1)
  <2>1. pc' = "header" /\ need' = 1
    BY <1>10 DEF Ask
  <2>2. \A k : FieldsOf(k)'
    BY <2>1 DEF FieldsOf
  <2>4. \E b : Known(b)'
    BY <1>3, <1>4, <1>5, <1>6, <1>8, <1>10, <2>2, KeepsKnown
  <2>5. FieldKnown'
    BY <1>8, <1>10, <2>1 DEF FieldKnown, Reading
  <2> QED
    BY <1>9, <2>4, <2>5 DEF StepKept
<1>11. CASE Fresh[1].sym # "v" /\ got' = <<>> /\ pc' = "idle"
  <2>1. ASSUME NEW k \in Indices, Begins(k, Now) PROVE FALSE
    BY <1>8, <1>9, <1>11, <2>1, BeginsIs
  <2>2. hurt \subseteq hurt' /\ received \subseteq received'
    BY <1>3
  <2>3. \E b : Known(b)'
    BY <1>4, <1>5, <1>6, <1>11, <2>1, <2>2, DropsKnown
  <2>4. FieldKnown'
    BY <1>11, EndsFields
  <2> QED
    BY <1>9, <2>3, <2>4 DEF StepKept
<1> QED
  BY <1>3, <1>10, <1>11

\* The size in the header of a packet is the one of its payload.
LEMMA HeaderSize ==
    ASSUME NEW k \in Indices, NEW size \in Sizes(Bytes(k)[4])
    PROVE  size = Len(Payloads[k])
<1>1. Bytes(k)[4] \in Byte /\ Bytes(k)[4].sym = "h" /\ Bytes(k)[4].of = k
  <2>1. 4 \in 1..Size(k)
    BY PacketPlaces
  <2> QED
    BY <2>1, BytesAre, WithinIs, MemberIs DEF Size
<1>2. Bytes(k)[4] \in [sym : {"h"}, of : Indices]
  BY <1>1 DEF Byte
<1> QED
  BY <1>1, <1>2 DEF Sizes

LEMMA SizesAre == ASSUME NEW b, NEW size \in Sizes(b) PROVE size \in Nat
<1>1. CASE b \in [sym : {"h"}, of : Indices]
  <2>1. b.of \in Indices /\ size = Len(Payloads[b.of])
    BY <1>1 DEF Sizes
  <2> QED
    BY <2>1, BytesLen
<1>2. CASE b \notin [sym : {"h"}, of : Indices]
  BY <1>2, SwallowedIs DEF Sizes
<1> QED
  BY <1>1, <1>2

\* The rest of the header.
LEMMA StepHeader == ASSUME StepInv, RecvHeader PROVE StepKept
<1>1. PICK size \in Sizes(Fresh[1]) :
        IF size > MaxPayload THEN Return("RecvFailed")
        ELSE IF size = 0 THEN EmptyPayload
        ELSE got' = Now /\ Ask("payload", size)
  BY DEF RecvHeader
<1>2. Complete("header") /\ UNCHANGED <<received, hurt>>
  BY DEF RecvHeader
<1>3. size \in Nat /\ MaxPayload \in Nat
  BY SizesAre, SwallowedIs
<1>4. StreamInv /\ LineIs /\ FieldKnown /\ \E a : Known(a)
  BY DEF StepInv
<1>5. "header" \in Reading
  BY DEF Reading
<1>6. /\ TakeBytes /\ pc = "header" /\ Len(Now) = Len(got) + need /\ Len(got) \in Nat /\ need \in Nat /\ need >= 1
      /\ Now[Len(got) + 1] = Fresh[1]
  BY <1>2, <1>4, <1>5, FieldDone
<1>7. need = 1 /\ Len(got) = 3
  BY <1>4, <1>6 DEF FieldKnown, Reading
<1>8. Len(Now) = 4 /\ Now[4] = Fresh[1] /\ Len(got) >= 3
  BY <1>6, <1>7
<1>9. LineIs' /\ Now \in Seq(Byte)
  BY <1>4, <1>5, <1>6, TakingKeepsLine, NowIs
<1>10. ASSUME NEW k \in Indices, Now[4] = Bytes(k)[4]
       PROVE  size = Size(k) - 6 /\ size \in 1..MaxPayload
  <2>1. size = Len(Payloads[k])
    BY <1>8, <1>10, HeaderSize
  <2> QED
    BY <1>3, <2>1, BytesAre, PacketPlaces
<1>11. CASE size > MaxPayload \/ (size = 0 /\ port # "windows")
  <2>1. got' = <<>> /\ pc' = "idle"
    BY <1>1, <1>11 DEF Return, EmptyPayload
  <2>2. ASSUME NEW k \in Indices, Begins(k, Now) PROVE FALSE
    <3>1. PICK n \in Nat : n = Len(Now)
      BY <1>9
    <3>2. n >= 4
      BY <1>8, <3>1
    <3>3. Now[4] = Bytes(k)[4]
      BY <1>9, <2>2, <3>1, <3>2, BeginsIs
    <3> QED
      BY <1>3, <1>10, <1>11, <3>3
  <2>3. hurt \subseteq hurt' /\ received \subseteq received'
    BY <1>2
  <2>4. \E b : Known(b)'
    BY <1>4, <1>5, <1>6, <2>1, <2>2, <2>3, DropsKnown
  <2> QED
    BY <1>9, <2>1, <2>4, EndsFields DEF StepKept
<1>12. CASE ~(size = 0 \/ size > MaxPayload)
  <2>1. got' = Now /\ pc' = "payload" /\ need' = size
    BY <1>1, <1>12 DEF Ask
  <2>2. Len(got') = 4
    BY <1>8, <2>1
  <2>3. ASSUME NEW k \in Indices, Len(Now) >= 4 => Now[4] = Bytes(k)[4] PROVE FieldsOf(k)'
    <3>1. Now[4] = Bytes(k)[4]
      BY <1>8, <2>3
    <3>2. size = Size(k) - 6 /\ Size(k) \in Nat
      BY <1>10, <3>1, PacketPlaces
    <3>3. 4 + size = Size(k) - 2
      BY <3>2
    <3> QED
      BY <2>1, <2>2, <3>3 DEF FieldsOf
  <2>4. \E b : Known(b)'
    BY <1>2, <1>4, <1>5, <1>6, <1>8, <2>1, <2>3, KeepsKnown
  <2>5. Len(got') >= 4 /\ Len(got') + need' <= MaxPayload + 4
    <3>1. 4 + size <= MaxPayload + 4
      BY <1>3, <1>12
    <3> QED
      BY <2>1, <2>2, <3>1
  <2>6. FieldKnown'
    BY <2>1, <2>5 DEF FieldKnown
  <2> QED
    BY <1>9, <2>4, <2>6 DEF StepKept
<1>13. CASE size = 0 /\ port = "windows"
  <2>1. got' = Now /\ pc' = "hmac" /\ need' = 1
    <3>1. ~(size > MaxPayload)
      BY <1>3, <1>13
    <3> QED
      BY <1>1, <1>13, <3>1 DEF EmptyPayload, Ask
  <2>2. Len(got') = 4
    BY <1>8, <2>1
  <2>3. ASSUME NEW k \in Indices, Len(Now) >= 4 => Now[4] = Bytes(k)[4] PROVE FieldsOf(k)'
    <3>1. Now[4] = Bytes(k)[4]
      BY <1>8, <2>3
    <3>2. FALSE
      BY <1>10, <1>13, <3>1
    <3> QED
      BY <3>2
  <2>4. \E b : Known(b)'
    BY <1>2, <1>4, <1>5, <1>6, <1>8, <2>1, <2>3, KeepsKnown
  <2>5. Len(got') >= 4 /\ Len(got') <= MaxPayload + 4
    BY <1>3, <2>2
  <2>6. FieldKnown'
    BY <2>1, <2>5 DEF FieldKnown, Reading
  <2> QED
    BY <1>9, <2>4, <2>6 DEF StepKept
<1> QED
  BY <1>11, <1>12, <1>13

\* The payload, in parts and as a whole, and the hmac.
LEMMA StepPart == ASSUME StepInv, RecvPart PROVE StepKept
<1>1. /\ pc \in Reading /\ TakeBytes /\ Len(Fresh) \in 1..(need - 1)
      /\ need' = need - Len(Fresh) /\ got' = Now /\ pc' = pc /\ hurt' = hurt /\ received' = received
  BY DEF RecvPart, Now
<1>2. StreamInv /\ LineIs /\ FieldKnown /\ \E a : Known(a)
  BY DEF StepInv
<1>3. need \in Int /\ Len(got) \in Nat
  BY <1>2, StateIs
<1>4. pc = "payload"
  <2>1. need # 1
    BY <1>1, <1>3
  <2> QED
    BY <1>1, <1>2, <2>1 DEF FieldKnown
<1>5. LineIs' /\ Now \in Seq(Byte) /\ Len(Now) = Len(got) + Len(Fresh)
  BY <1>1, <1>2, TakingKeepsLine, NowIs, NowLies
<1>6. PICK n \in Int, m \in Int, f \in Int : n = Len(got) /\ m = Len(got') /\ f = Len(Fresh)
  BY <1>1, <1>3, <1>5
<1>7. m + need' = n + need /\ m >= n
  <2>1. m = n + f
    BY <1>1, <1>5, <1>6
  <2>2. need' = need - f /\ f >= 1
    BY <1>1, <1>6
  <2> QED
    BY <1>3, <1>6, <2>1, <2>2
<1>8. n >= 4 /\ n + need <= MaxPayload + 4
  BY <1>2, <1>4, <1>6 DEF FieldKnown
<1>9. FieldKnown'
  <2>1. m >= 4 /\ m + need' <= MaxPayload + 4
    BY <1>6, <1>7, <1>8
  <2> QED
    BY <1>1, <1>4, <1>6, <2>1 DEF FieldKnown
<1>10. ASSUME NEW k \in Indices, Len(got) >= 1 => FieldsOf(k) PROVE FieldsOf(k)'
  <2>1. n >= 1
    BY <1>6, <1>8
  <2>2. n + need = Size(k) - 2
    BY <1>4, <1>6, <1>10, <2>1 DEF FieldsOf
  <2> QED
    BY <1>1, <1>4, <1>6, <1>7, <2>2 DEF FieldsOf
<1>11. Len(got) >= 3
  BY <1>6, <1>8
<1>12. \E b : Known(b)'
  BY <1>1, <1>2, <1>10, <1>11, KeepsKnown
<1> QED
  BY <1>5, <1>9, <1>12 DEF StepKept

\* A field has been read and the next one begins.
LEMMA StepField ==
    ASSUME StepInv, RecvField("payload", "hmac") \/ RecvField("hmac", "crc") PROVE StepKept
<1>1. PICK field \in {"payload", "hmac"} :
        /\ Complete(field) /\ got' = Now /\ UNCHANGED <<received, hurt>>
        /\ IF field = "payload" THEN Ask("hmac", 1) ELSE Ask("crc", 1)
  BY DEF RecvField
<1>2. need' = 1 /\ pc' = IF field = "payload" THEN "hmac" ELSE "crc"
  BY <1>1 DEF Ask
<1>3. StreamInv /\ LineIs /\ FieldKnown /\ \E a : Known(a)
  BY DEF StepInv
<1>4. field \in Reading
  BY DEF Reading
<1>5. /\ TakeBytes /\ pc = field /\ Len(Now) = Len(got) + need /\ Len(got) \in Nat /\ need \in Nat
  BY <1>1, <1>3, <1>4, FieldDone
<1>6. LineIs' /\ Now \in Seq(Byte)
  BY <1>3, <1>4, <1>5, TakingKeepsLine, NowIs
<1>7. PICK n \in Nat, m \in Nat : n = Len(got) /\ m = Len(got') /\ m = n + need
  BY <1>1, <1>5
<1>8. MaxPayload \in Nat
  BY SwallowedIs
<1>9. /\ n >= 4 /\ field = "payload" => n + need <= MaxPayload + 4
      /\ n >= 4 /\ field = "hmac" => need = 1 /\ n <= MaxPayload + 4
  BY <1>3, <1>5, <1>7 DEF FieldKnown, Reading
<1>10. n >= 4
  BY <1>3, <1>5, <1>7 DEF FieldKnown
<1>11. FieldKnown'
  <2>1. CASE field = "payload"
    <3>1. m >= 4 /\ m <= MaxPayload + 4
      BY <1>5, <1>7, <1>9, <1>10, <2>1
    <3> QED
      BY <1>2, <1>7, <2>1, <3>1 DEF FieldKnown, Reading
  <2>2. CASE field = "hmac"
    <3>1. m >= 4 /\ m <= MaxPayload + 5
      BY <1>7, <1>8, <1>9, <1>10, <2>2
    <3> QED
      BY <1>2, <1>7, <2>2, <3>1 DEF FieldKnown, Reading
  <2> QED
    BY <2>1, <2>2
<1>12. ASSUME NEW k \in Indices, Len(got) >= 1 => FieldsOf(k) PROVE FieldsOf(k)'
  <2>1. FieldsOf(k) /\ Size(k) \in Nat
    BY <1>7, <1>10, <1>12, PacketPlaces
  <2>2. CASE field = "payload"
    <3>1. n + need = Size(k) - 2
      BY <1>5, <1>7, <2>1, <2>2 DEF FieldsOf
    <3> QED
      BY <1>2, <1>7, <2>2, <3>1 DEF FieldsOf
  <2>3. CASE field = "hmac"
    <3>1. n = Size(k) - 2 /\ need = 1
      BY <1>5, <1>7, <1>9, <1>10, <2>1, <2>3 DEF FieldsOf
    <3>2. m = Size(k) - 1
      BY <1>7, <2>1, <3>1
    <3> QED
      BY <1>2, <1>7, <2>3, <3>2 DEF FieldsOf
  <2> QED
    BY <2>2, <2>3
<1>13. Len(got) >= 3
  BY <1>7, <1>10
<1>14. \E b : Known(b)'
  BY <1>1, <1>3, <1>4, <1>5, <1>12, <1>13, KeepsKnown
<1> QED
  BY <1>6, <1>11, <1>14 DEF StepKept

\* The bytes of a packet have its CRC.
LEMMA CrcOf ==
    ASSUME NEW k \in Indices, NEW s \in Seq(Byte), Len(s) = Size(k),
           \A x \in 1..Size(k) : s[x] = Bytes(k)[x]
    PROVE  CrcMatches(s)
<1>1. PICK n \in Nat : n = Size(k) /\ n = Len(s) /\ n >= 1
  BY PacketPlaces
<1>2. \A x \in 1..n : s[x] = Bytes(k)[x] /\ s[x].of = k
  BY <1>1, WithinIs
<1>3. n \in 1..n /\ Bytes(k)[n].sym = "c" /\ Len(Bytes(k)) = n
  BY <1>1, BytesAre DEF Size
<1>4. s[n].sym = "c" /\ s[n].of = k
  BY <1>2, <1>3
<1> HIDE DEF Bytes
<1> QED
  BY <1>1, <1>2, <1>3, <1>4 DEF CrcMatches

\* The CRC.
LEMMA StepCrc == ASSUME StepInv, RecvCrc PROVE StepKept
<1>1. /\ Complete("crc") /\ hurt' = hurt /\ got' = <<>> /\ pc' = "idle"
      /\ received' = IF CrcMatches(Now) THEN received \cup {Now[4].of} ELSE received
  BY DEF RecvCrc, Return
<1>2. StreamInv /\ LineIs /\ FieldKnown /\ \E a : Known(a)
  BY DEF StepInv
<1>3. "crc" \in Reading
  BY DEF Reading
<1>4. /\ TakeBytes /\ pc = "crc" /\ Len(Now) = Len(got) + need /\ Len(got) \in Nat
  BY <1>1, <1>2, <1>3, FieldDone
<1>5. LineIs' /\ Now \in Seq(Byte)
  BY <1>2, <1>3, <1>4, TakingKeepsLine, NowIs
<1>6. need = 1 /\ Len(got) >= 4
  BY <1>2, <1>4 DEF FieldKnown, Reading
<1>7. ASSUME NEW k \in Indices \ (hurt' \cup received'), Begins(k, Now) PROVE FALSE
  <2>1. Len(got) = Size(k) - 1 /\ Size(k) \in Nat
    <3>1. FieldsOf(k)
      BY <1>4, <1>6, <1>7 DEF Begins
    <3> QED
      BY <1>4, <3>1, PacketPlaces DEF FieldsOf
  <2>2. Len(Now) = Size(k)
    BY <1>4, <1>6, <2>1
  <2>3. \A x \in 1..Size(k) : Now[x] = Bytes(k)[x]
    BY <1>7, <2>2 DEF Begins
  <2>4. CrcMatches(Now)
    BY <1>5, <1>7, <2>2, <2>3, CrcOf
  <2>5. 4 \in 1..Size(k)
    BY PacketPlaces
  <2>6. Now[4].of = k
    BY <2>3, <2>5, WithinIs
  <2> QED
    BY <1>1, <1>7, <2>4, <2>6
<1>8. hurt \subseteq hurt' /\ received \subseteq received'
  BY <1>1
<1>9. \E b : Known(b)'
  BY <1>1, <1>2, <1>3, <1>4, <1>7, <1>8, DropsKnown
<1> QED
  BY <1>1, <1>5, <1>9, EndsFields DEF StepKept

-----------------------------------------------------------------------------
(* The steps beside Recv.                                                   *)

\* Bytes that leave the line do not disturb what Recv has read.
LEMMA ArrivesKnown ==
    ASSUME StreamInv, NEW a, Known(a), NEW l, NEW d, Arrives(Ahead, Front, hurt', Ahead', l, d),
           Front' = Front + l, hurt \subseteq hurt', UNCHANGED <<pc, need, got, received>>
    PROVE  \E b : Known(b)'
<1>1. /\ Traced(a, Ahead, Front, hurt) /\ Accounted(a, Ahead, Len(got), Front, hurt, received)
      /\ HeaderKnown(a)
  BY DEF Known
<1>2. Len(got) \in Nat /\ Len(got) <= Len(Ahead) /\ Len(Ahead) \in Nat /\ got \in Seq(Byte)
  <2>1. got \in Seq(Byte) /\ Waiting \in Seq(Byte)
    BY StateIs, WaitingIs
  <2>2. Len(Ahead) = Len(got) + Len(Waiting) /\ Len(got) \in Nat /\ Len(Waiting) \in Nat
    BY <2>1, JoinIs DEF Ahead
  <2> QED
    BY <2>1, <2>2
<1>3. PICK u, w, q, h2 : u = Ahead /\ w = Ahead' /\ q = Front /\ h2 = hurt'
  OBVIOUS
<1>4. PICK b : /\ Traced(b, w, q + l, h2) /\ Accounted(b, w, Len(got), q + l, h2, received)
               /\ \A x \in 1..Len(u) : b[x] = a[x]
  BY <1>1, <1>2, <1>3, ArrivingAccounts
<1>5. \A x \in 1..Len(got) : b[x] = a[x]
  BY <1>2, <1>3, <1>4
<1>6. \A k : InStep(a, Len(got), k) <=> InStep(b, Len(got), k)
  BY <1>2, <1>5, SameStep
<1>7. Traced(b, Ahead, Front, hurt)'
  BY <1>3, <1>4
<1>8. Accounted(b, Ahead, Len(got), Front, hurt, received)'
  BY <1>3, <1>4
<1>9. HeaderKnown(b)'
  <2>1. Len(got) >= 3 => got[3].of \in hurt' \/ InStep(b, Len(got), got[3].of)
    BY <1>1, <1>6 DEF HeaderKnown
  <2>2. ASSUME NEW k \in Indices \ hurt', InStep(b, Len(got), k) PROVE FieldsOf(k)'
    <3>1. FieldsOf(k)
      BY <1>1, <1>6, <2>2 DEF HeaderKnown
    <3> QED
      BY <3>1 DEF FieldsOf
  <2> QED
    BY <2>1, <2>2 DEF HeaderKnown
<1> QED
  BY <1>7, <1>8, <1>9 DEF Known

LEMMA SameFields == ASSUME FieldKnown, UNCHANGED <<pc, need, got>> PROVE FieldKnown'
BY DEF FieldKnown, Reading

\* Bytes are lost at the front of the line.
LEMMA StepLoses ==
    ASSUME StepInv, NEW n \in 1..Len(usb), sending = <<>>, usb' = Rest(usb, n), Lose(SubSeq(usb, 1, n)),
           UNCHANGED <<bufVars, port, recvVars, sending, accepted, received>>
    PROVE  StepKept
<1>1. StreamInv /\ LineIs /\ FieldKnown /\ \E a : Known(a)
  BY DEF StepInv
<1>2. /\ usb \in Seq(Byte) /\ Len(usb) \in Nat /\ L \in Nat /\ n \in 0..Len(usb) /\ n \in Nat
      /\ \A x \in 1..Len(usb) : usb[x] = S[(L - Len(usb)) + x]
      /\ Len(usb) <= L
  BY <1>1, StateIs DEF LineIs
<1>3. /\ usb' \in Seq(Byte) /\ Len(usb') = Len(usb) - n /\ L - Len(usb') = (L - Len(usb)) + n
      /\ \A x \in 1..Len(usb') : usb'[x] = S[(L - Len(usb')) + x]
  BY <1>1, <1>2, LineMoves
<1>4. Front = L - Len(usb) /\ Front' = Front + n /\ Front + n <= L /\ Front \in Nat
  BY <1>2, <1>3 DEF Front
<1>5. LineIs'
  <2>1. Len(usb') + Len(sending') <= L
    BY <1>2, <1>3
  <2> QED
    BY <1>3, <2>1 DEF LineIs
<1>6. FieldKnown'
  BY <1>1, SameFields DEF recvVars
<1>7. Ahead' = Ahead
  <2>1. UNCHANGED <<port, written, taken, accepted, got>>
    BY DEF bufVars, recvVars
  <2> QED
    BY <2>1 DEF Ahead, Waiting
<1>8. Ahead \in Seq(Byte)
  BY <1>1, StateIs, WaitingIs, JoinIs DEF Ahead
<1>9. ASSUME NEW p \in (Front + 1)..(Front + n) PROVE S[p].of \in hurt'
  <2> DEFINE x == p - Front
             t == SubSeq(usb, 1, n)
  <2>1. x \in 1..n /\ Front + x = p /\ x \in 1..Len(usb)
    BY <1>2, <1>4
  <2>2. Len(t) = n /\ t \in Seq(Byte) /\ t[x] = usb[x]
    BY <1>2, <2>1, SplitIs
  <2>3. hurt' = hurt \cup Sources(t)
    BY DEF Lose
  <2>4. usb[x] = S[p]
    BY <1>2, <1>4, <2>1
  <2> HIDE DEF x, t
  <2>5. x \in DOMAIN t
    BY <2>1, <2>2
  <2> QED
    BY <2>2, <2>3, <2>4, <2>5 DEF Sources
<1>10. Arrives(Ahead, Front, hurt', Ahead', n, 0)
  <2>1. PICK u \in Seq(Byte), q \in Nat : u = Ahead /\ q = Front
    BY <1>4, <1>8
  <2>2. q + 0 + 1 = q + 1 /\ 0 \in 0..n /\ q + n <= L /\ Len(u) = Len(u) + 0
    BY <1>2, <1>4, <2>1
  <2>3. \A p \in (q + 0 + 1)..(q + n) : S[p].of \in hurt'
    BY <1>9, <2>1, <2>2
  <2>4. Arrives(u, q, hurt', u, n, 0)
    BY <1>2, <2>2, <2>3 DEF Arrives
  <2> QED
    BY <1>7, <2>1, <2>4
<1>11. hurt \subseteq hurt' /\ UNCHANGED <<pc, need, got, received>>
  BY DEF Lose, recvVars
<1>12. \E b : Known(b)'
  BY <1>1, <1>4, <1>10, <1>11, ArrivesKnown
<1> QED
  BY <1>5, <1>6, <1>12 DEF StepKept

\* The worker thread has read the front of the line and writes it.
LEMMA StepEnters ==
    ASSUME StepInv, NEW n \in 1..Len(usb), sending = <<>>, usb' = Rest(usb, n), port = "android",
           WriteEnter(n), sending' = SubSeq(usb, 1, n),
           UNCHANGED <<port, recvVars, accepted, received, hurt>>
    PROVE  StepKept
<1>1. StreamInv /\ LineIs /\ FieldKnown /\ \E a : Known(a)
  BY DEF StepInv
<1>2. /\ usb \in Seq(Byte) /\ Len(usb) \in Nat /\ L \in Nat /\ n \in 0..Len(usb) /\ n \in Nat
      /\ \A x \in 1..Len(usb) : usb[x] = S[(L - Len(usb)) + x]
      /\ Len(usb) <= L
  BY <1>1, StateIs DEF LineIs
<1>3. /\ usb' \in Seq(Byte) /\ Len(usb') = Len(usb) - n
      /\ \A x \in 1..Len(usb') : usb'[x] = S[(L - Len(usb')) + x]
  BY <1>1, <1>2, LineMoves
<1>4. Len(sending') = n /\ \A x \in 1..n : sending'[x] = usb[x]
  BY <1>2, SplitIs
<1>5. Front = L - Len(usb) /\ Front' = Front /\ Front \in Nat
  BY <1>2, <1>3, <1>4 DEF Front
<1>6. LineIs'
  <2>1. Len(usb') + Len(sending') <= L
    BY <1>2, <1>3, <1>4
  <2>2. ASSUME NEW x \in 1..n PROVE sending'[x] = S[Front + x]
    <3>1. x \in 1..Len(usb)
      BY <1>2
    <3> QED
      BY <1>2, <1>4, <1>5, <3>1
  <2> QED
    BY <1>3, <1>4, <1>5, <2>1, <2>2 DEF LineIs
<1>7. FieldKnown'
  BY <1>1, SameFields DEF recvVars
<1>8. Ahead' = Ahead /\ UNCHANGED <<pc, need, got>>
  <2>1. UNCHANGED <<port, written, taken, accepted, got, pc, need>>
    BY DEF WriteEnter, recvVars
  <2> QED
    BY <2>1 DEF Ahead, Waiting
<1>9. ASSUME NEW a, Known(a) PROVE Known(a)'
  BY <1>5, <1>8, <1>9 DEF Known, HeaderKnown, FieldsOf
<1> QED
  BY <1>1, <1>6, <1>7, <1>9 DEF StepKept

\* The worker takes a transfer off the line, or the line loses one.
LEMMA StepTransfers == ASSUME StepInv, WorkerTransfer \/ LineLoses PROVE StepKept
<1>1. StreamInv /\ LineIs
  BY DEF StepInv
<1>2. PICK n \in 1..Smaller(Transfer, Len(usb)) :
        /\ sending = <<>> /\ usb' = Rest(usb, n) /\ UNCHANGED <<port, recvVars, accepted, received>>
        /\ \/ Lose(SubSeq(usb, 1, n)) /\ UNCHANGED <<bufVars, sending>>
           \/ port = "android" /\ WriteEnter(n) /\ sending' = SubSeq(usb, 1, n) /\ hurt' = hurt
  BY <1>1 DEF WorkerTransfer, LineLoses, LineIs
<1>3. n \in 1..Len(usb)
  BY <1>1, TransferIs DEF StreamInv, TransportInv
<1>4. CASE Lose(SubSeq(usb, 1, n)) /\ UNCHANGED <<bufVars, sending>>
  BY <1>2, <1>3, <1>4, StepLoses
<1>5. CASE port = "android" /\ WriteEnter(n) /\ sending' = SubSeq(usb, 1, n) /\ hurt' = hurt
  BY <1>2, <1>3, <1>5, StepEnters
<1> QED
  BY <1>2, <1>4, <1>5

\* What the Write under way brings behind the bytes that wait.
LEMMA WriteBrings ==
    ASSUME StreamInv, LineIs, WorkerWrite
    PROVE  \E d \in 1..Len(sending) :
             /\ hurt' = hurt \cup Sources(Rest(sending, d)) /\ Ahead \in Seq(Byte)
             /\ Ahead' = Ahead \o SubSeq(sending, 1, d)
<1> DEFINE m == WriteFirst(writing) + WriteSecond(writing)
<1>1. /\ WriteBody /\ accepted' = accepted \o SubSeq(sending, 1, written' - written)
      /\ Lose(Rest(sending, written' - written)) /\ sending # <<>> /\ port' = port /\ got' = got
  BY DEF WorkerWrite, recvVars
<1>2. BufInv /\ writing \in Nat /\ written \in Nat
  BY BufferAssumption DEF StreamInv, TransportInv, BufInv, TypeOK
<1>3. WriteFirst(writing) \in Nat /\ WriteSecond(writing) \in Nat /\ m \in 1..(BufferSize - Count)
      /\ m = Smaller(writing, BufferSize - Count)
  BY <1>2, <1>1, WriteAdvances
<1>4. m \in Nat /\ m >= 1 /\ m <= writing
  <2>1. BufferSize - Count \in Int
    BY <1>2, CountRange, BufferAssumption
  <2> QED
    BY <1>2, <1>3, <2>1, SmallerIs
<1>5. written' = written + m /\ taken' = taken
  BY <1>1, <1>2, <1>3 DEF WriteBody
<1>6. /\ sending \in Seq(Byte) /\ accepted \in Seq(Byte) /\ got \in Seq(Byte)
      /\ writing = Len(sending) /\ Len(accepted) = written /\ taken \in Nat /\ taken <= written
  BY StateIs DEF StreamInv, LineKnown
<1> HIDE DEF m
<1>7. written' - written = m /\ m \in 1..Len(sending) /\ m \in 0..Len(sending)
  BY <1>2, <1>4, <1>5, <1>6
<1>8. port = "android"
  BY <1>1 DEF LineIs
<1> DEFINE t == SubSeq(sending, 1, m)
           c == written - taken
           w == Waiting
           z == w \o t
<1>9. t \in Seq(Byte) /\ Len(t) = m
  BY <1>6, <1>7, SplitIs
<1>10. w \in Seq(Byte) /\ Len(w) = c /\ c \in Nat /\ \A x \in 1..c : w[x] = accepted[taken + x]
  BY <1>2, <1>6, <1>8, WaitingIs
<1>11. accepted' = accepted \o t
  BY <1>1, <1>7
<1> HIDE DEF t, w
<1>12. /\ accepted' \in Seq(Byte)
       /\ \A x \in 1..written : accepted'[x] = accepted[x]
       /\ \A x \in 1..m : accepted'[written + x] = t[x]
  <2>1. accepted \in Seq(Byte) /\ t \in Seq(Byte)
    BY <1>6, <1>9
  <2>2. /\ accepted \o t \in Seq(Byte)
        /\ \A x \in 1..Len(accepted) : (accepted \o t)[x] = accepted[x]
        /\ \A x \in 1..Len(t) : (accepted \o t)[Len(accepted) + x] = t[x]
    BY <2>1, JoinIs
  <2>3. Len(accepted) = written /\ Len(t) = m
    BY <1>6, <1>9
  <2> QED
    BY <1>11, <2>2, <2>3
<1>13. /\ z \in Seq(Byte) /\ Len(z) = c + m
       /\ \A x \in 1..c : z[x] = w[x]
       /\ \A x \in 1..m : z[c + x] = t[x]
  <2>1. /\ z \in Seq(Byte) /\ Len(z) = Len(w) + Len(t)
        /\ (\A x \in 1..Len(w) : z[x] = w[x]) /\ \A x \in 1..Len(t) : z[Len(w) + x] = t[x]
    BY <1>9, <1>10, JoinIs
  <2> HIDE DEF z, c
  <2> QED
    BY <1>9, <1>10, <2>1
<1> HIDE DEF z
<1>14. \A x \in 1..(c + m) : accepted'[taken + x] = z[x]
  <2>1. ASSUME NEW x \in 1..c PROVE accepted'[taken + x] = z[x]
    <3>1. taken + x \in 1..written
      BY <1>2, <1>6
    <3> QED
      BY <1>10, <1>12, <1>13, <3>1
  <2>2. ASSUME NEW x \in 1..m PROVE accepted'[taken + (c + x)] = z[c + x]
    <3>1. taken + (c + x) = written + x
      BY <1>2, <1>6
    <3> QED
      BY <1>12, <1>13, <3>1
  <2>3. ASSUME NEW x \in 1..(c + m), ~(x \in 1..c) PROVE x - c \in 1..m /\ c + (x - c) = x
    BY <1>4, <1>10, <2>3
  <2> HIDE DEF c
  <2> QED
    BY <2>1, <2>2, <2>3
<1>15. Waiting' = z
  <2>1. written' - taken' = c + m
    BY <1>2, <1>4, <1>5, <1>6
  <2>2. Waiting' = [x \in 1..(c + m) |-> accepted'[taken + x]]
    BY <1>1, <1>5, <1>8, <2>1 DEF Waiting
  <2>3. Waiting' = [x \in 1..(c + m) |-> z[x]]
    BY <1>14, <2>2
  <2> HIDE DEF c
  <2>4. z = [x \in 1..(c + m) |-> z[x]]
    BY <1>13
  <2> QED
    BY <2>3, <2>4
<1>16. Ahead' = Ahead \o t
  <2>1. Ahead' = got \o z
    BY <1>1, <1>15 DEF Ahead
  <2>a. got \in Seq(Byte)
    BY <1>6
  <2>2. ASSUME NEW s \in Seq(Byte), NEW v \in Seq(Byte) PROVE (got \o s) \o v = got \o (s \o v)
    BY <2>a, JoinThree
  <2>3. got \o (w \o t) = (got \o w) \o t
    BY <1>9, <1>10, <2>2
  <2> QED
    BY <2>1, <2>3 DEF Ahead, w, z
<1>17. Ahead \in Seq(Byte)
  BY <1>6, <1>10, JoinIs DEF Ahead, w
<1>18. hurt' = hurt \cup Sources(Rest(sending, m))
  BY <1>1, <1>7 DEF Lose
<1> QED
  BY <1>7, <1>16, <1>17, <1>18 DEF t

\* The worker's Write puts what there is room for into the buffer.
LEMMA StepWrites == ASSUME StepInv, WorkerWrite PROVE StepKept
<1>1. StreamInv /\ LineIs /\ FieldKnown /\ \E a : Known(a)
  BY DEF StepInv
<1>2. PICK d \in 1..Len(sending) :
        /\ hurt' = hurt \cup Sources(Rest(sending, d)) /\ Ahead \in Seq(Byte)
        /\ Ahead' = Ahead \o SubSeq(sending, 1, d)
  BY <1>1, WriteBrings
<1>3. sending' = <<>> /\ UNCHANGED <<port, recvVars, usb, received>>
  BY DEF WorkerWrite
<1>4. /\ sending \in Seq(Byte) /\ Len(sending) \in Nat /\ Len(usb) \in Nat /\ L \in Nat
      /\ Len(usb) + Len(sending) <= L
      /\ \A x \in 1..Len(sending) : sending[x] = S[Front + x]
  BY <1>1, StateIs DEF LineIs
<1> DEFINE l == Len(sending)
           t == SubSeq(sending, 1, d)
           z == Rest(sending, d)
<1>5. l \in Nat /\ d \in 0..l /\ d \in Nat /\ Front + l <= L /\ Front \in Nat /\ Front' = Front + l
  <2>1. Len(sending') = 0
    BY <1>3
  <2> QED
    BY <1>1, <1>3, <1>4, <2>1, FrontIs DEF Front
<1>6. LineIs'
  BY <1>1, <1>3, <1>4 DEF LineIs
<1>7. FieldKnown' /\ UNCHANGED <<pc, need, got, received>>
  BY <1>1, <1>3, SameFields DEF recvVars
<1>8. /\ t \in Seq(Byte) /\ Len(t) = d /\ \A x \in 1..d : t[x] = sending[x]
      /\ z \in Seq(Byte) /\ Len(z) = l - d /\ \A x \in 1..(l - d) : z[x] = sending[d + x]
  BY <1>4, <1>5, SplitIs
<1>9a. PICK u \in Seq(Byte), q \in Nat : u = Ahead /\ q = Front
  BY <1>2, <1>5
<1>9b. PICK w : w = Ahead'
  OBVIOUS
<1>9. u = Ahead /\ w = Ahead' /\ q = Front
  BY <1>9a, <1>9b
<1> HIDE DEF t, z
<1>10. /\ w \in Seq(Byte) /\ Len(w) = Len(u) + d /\ \A x \in 1..Len(u) : w[x] = u[x]
       /\ \A x \in 1..d : w[Len(u) + x] = t[x]
  <2>1. w = u \o t
    BY <1>2, <1>9 DEF t
  <2>2. /\ w \in Seq(Byte) /\ Len(w) = Len(u) + Len(t) /\ \A x \in 1..Len(u) : w[x] = u[x]
        /\ \A x \in 1..Len(t) : w[Len(u) + x] = t[x]
    BY <1>8, <2>1, JoinIs
  <2> QED
    BY <1>8, <2>2
<1>11. \A x \in 1..d : w[Len(u) + x] = S[q + x]
  <2>1. ASSUME NEW x \in 1..d PROVE t[x] = S[q + x]
    <3>1. x \in 1..Len(sending)
      BY <1>5
    <3> QED
      BY <1>4, <1>8, <1>9, <3>1
  <2> QED
    BY <1>10, <2>1
<1>12. ASSUME NEW p \in (q + d + 1)..(q + l) PROVE S[p].of \in hurt'
  <2> DEFINE x == p - q
             y == x - d
  <2>1. x \in 1..Len(sending) /\ q + x = p /\ y \in 1..(l - d) /\ d + y = x
    BY <1>5, <1>9
  <2> HIDE DEF x, y
  <2>2. z[y] = S[p]
    BY <1>4, <1>8, <1>9, <2>1
  <2>3. y \in DOMAIN z
    BY <1>8, <2>1
  <2>4. hurt' = hurt \cup Sources(z)
    BY <1>2 DEF z
  <2> QED
    BY <2>2, <2>3, <2>4 DEF Sources
<1>13. Arrives(u, q, hurt', w, l, d)
  BY <1>5, <1>9, <1>10, <1>11, <1>12 DEF Arrives
<1>14. \E b : Known(b)'
  <2>1. Arrives(Ahead, Front, hurt', Ahead', l, d)
    BY <1>9, <1>13
  <2>2. hurt \subseteq hurt'
    BY <1>2
  <2> HIDE DEF l
  <2> QED
    BY <1>1, <1>5, <1>7, <2>1, <2>2, ArrivesKnown
<1> QED
  BY <1>6, <1>7, <1>14 DEF StepKept

\* Recv begins, or looks at its timer.
LEMMA QuietKnown ==
    ASSUME NEW a, Known(a), got = <<>>, got' = <<>>, UNCHANGED <<bufVars, workerVars, received, hurt>>
    PROVE  Known(a)'
<1>1. Ahead' = Ahead /\ Front' = Front
  BY DEF Ahead, Waiting, Front, bufVars, workerVars
<1>2. Len(got) = 0 /\ Len(got') = 0
  OBVIOUS
<1>3. HeaderKnown(a)'
  <2>1. ASSUME NEW k PROVE ~InStep(a, Len(got'), k)
    BY <1>2 DEF InStep
  <2> QED
    BY <1>2, <2>1 DEF HeaderKnown
<1> QED
  BY <1>1, <1>2, <1>3 DEF Known

\* A call of Recv, or the top of its loop, takes no byte.
LEMMA StepQuiet == ASSUME StepInv, Call \/ SyncTop PROVE StepKept
<1>1. LineIs /\ FieldKnown /\ \E a : Known(a)
  BY DEF StepInv
<1>2. /\ pc \in {"idle", "sync"} /\ got' = <<>> /\ UNCHANGED <<bufVars, workerVars, received, hurt>>
      /\ pc' \in {"idle", "sync"} \/ (pc' = "sync1" /\ need' = 1)
  BY DEF Call, SyncTop, Ask, Return
<1>3. got = <<>>
  BY <1>1, <1>2 DEF FieldKnown
<1>4. \E a : Known(a)'
  BY <1>1, <1>2, <1>3, QuietKnown
<1>5. LineIs'
  BY <1>1, <1>2, LineStays DEF workerVars
<1>6. FieldKnown'
  BY <1>2 DEF FieldKnown, Reading
<1> QED
  BY <1>4, <1>5, <1>6 DEF StepKept

\* Steps that touch none of these variables keep the invariant.
LEMMA StepStays ==
    ASSUME StepInv, UNCHANGED <<bufVars, workerVars, received, hurt, pc, need, got>> PROVE StepKept
<1>1. LineIs /\ FieldKnown /\ \E a : Known(a)
  BY DEF StepInv
<1>2. LineIs' /\ Front' = Front
  BY <1>1, LineStays DEF workerVars
<1>3. FieldKnown'
  BY <1>1, SameFields
<1>4. Ahead' = Ahead
  BY DEF Ahead, Waiting, bufVars, workerVars
<1>5. ASSUME NEW a, Known(a) PROVE Known(a)'
  BY <1>2, <1>4, <1>5 DEF Known, HeaderKnown, FieldsOf
<1> QED
  BY <1>1, <1>2, <1>3, <1>5 DEF StepKept

\* The invariant holds at first, every packet still on the line, ...
LEMMA StepInvInit == TransportInit => StepInv
<1> SUFFICES ASSUME TransportInit PROVE StepInv
  OBVIOUS
<1>1. StreamInv
  BY StreamInvInit
<1>2. /\ got = <<>> /\ sending = <<>> /\ usb = S /\ hurt = {} /\ received = {} /\ pc = "idle" /\ need = 0
      /\ written = 0 /\ taken = 0
  BY DEF TransportInit, Init, S, Packets
<1>3. Len(usb) = L /\ L \in Nat /\ Len(sending) = 0
  BY <1>2, PacketPlaces
<1>4. Front = 0
  BY <1>3 DEF Front
<1>5. LineIs
  <2>1. \A x \in 1..Len(usb) : usb[x] = S[(L - Len(usb)) + x]
    BY <1>2, <1>3
  <2> QED
    BY <1>2, <1>3, <2>1 DEF LineIs
<1>6. FieldKnown
  BY <1>2 DEF FieldKnown, Reading
<1>7. Ahead = <<>>
  <2>1. Waiting \in Seq(Byte) /\ Len(Waiting) = 0
    BY <1>1, <1>2, WaitingIs
  <2>2. Waiting = <<>>
    BY <2>1
  <2> QED
    BY <1>2, <2>2 DEF Ahead
<1> DEFINE a == [x \in 1..0 |-> 0]
<1>8. Traced(a, <<>>, 0, {})
  <2>1. <<>> \in Seq(Byte) /\ Len(<<>>) = 0 /\ 0 \in 0..L
    BY <1>3
  <2>2. a \in [1..0 -> 1..0] /\ \A x : ~(x \in 1..0)
    OBVIOUS
  <2> HIDE DEF a
  <2> QED
    BY <2>1, <2>2 DEF Traced
<1> HIDE DEF a
<1>9. Accounted(a, <<>>, 0, 0, {}, {})
  <2>1. ASSUME NEW k \in Indices PROVE Start(k) + 1 \in (0 + 1)..L
    BY <1>3, PacketPlaces
  <2> QED
    BY <2>1 DEF Accounted, ToCome
<1>10. HeaderKnown(a)
  <2>1. Len(got) = 0
    BY <1>2
  <2> QED
    BY <2>1 DEF HeaderKnown, InStep
<1>11. Known(a)
  <2>1. Len(got) = 0
    BY <1>2
  <2> QED
    BY <1>2, <1>4, <1>7, <1>8, <1>9, <1>10, <2>1 DEF Known
<1> QED
  BY <1>1, <1>5, <1>6, <1>11 DEF StepInv

\* ... every step keeps it, ...
LEMMA StepInvStep == StepInv /\ [TransportNext]_vars => StepInv'
<1> SUFFICES ASSUME StepInv, [TransportNext]_vars PROVE StepInv'
  OBVIOUS
<1>1. StreamInv'
  BY StreamInvStep DEF StepInv
<1>2. StepKept
  <2>1. CASE Call \/ SyncTop
    BY <2>1, StepQuiet
  <2>2. CASE RecvSync("sync1", "@", "sync2") \/ RecvSync("sync2", "F", "version")
    BY <2>2, StepSync
  <2>3. CASE RecvVersion
    BY <2>3, StepVersion
  <2>4. CASE RecvHeader
    BY <2>4, StepHeader
  <2>5. CASE RecvField("payload", "hmac") \/ RecvField("hmac", "crc")
    BY <2>5, StepField
  <2>6. CASE RecvCrc
    BY <2>6, StepCrc
  <2>7. CASE RecvPart
    BY <2>7, StepPart
  <2>8. CASE RecvShort
    BY <2>8, StepShort
  <2>9. CASE RecvError \/ RecvBytesTimeout
    BY <2>9, StepGivesUp
  <2>10. CASE Expire
    BY <2>10, StepStays DEF Expire
  <2>11. CASE WorkerTransfer \/ LineLoses
    BY <2>11, StepTransfers
  <2>12. CASE WorkerWrite
    BY <2>12, StepWrites
  <2>13. CASE UNCHANGED vars
    BY <2>13, StepStays DEF vars, portVars, recvVars
  <2>14. Recv => StepKept
    BY <2>1, <2>2, <2>3, <2>4, <2>5, <2>6, <2>7, <2>8, <2>9 DEF Recv
  <2>15. TransportNext => StepKept
    BY <2>1, <2>10, <2>11, <2>12, <2>14 DEF TransportNext
  <2> QED
    BY <2>13, <2>15
<1> QED
  BY <1>1, <1>2 DEF StepInv, StepKept

\* What has not arrived is on the line or in the Write under way.
LEMMA LineHas ==
    ASSUME StreamInv, LineIs, NEW p \in (Front + 1)..L
    PROVE  S[p].of \in Sources(usb) \cup Sources(sending)
<1>1. /\ Front \in Nat /\ L - Len(usb) = Front + Len(sending) /\ Front + Len(sending) + Len(usb) = L
      /\ usb \in Seq(Byte) /\ sending \in Seq(Byte) /\ Len(usb) \in Nat /\ Len(sending) \in Nat /\ L \in Nat
  BY FrontIs, StateIs
<1>2. CASE p <= Front + Len(sending)
  <2> DEFINE x == p - Front
  <2>1. x \in 1..Len(sending) /\ Front + x = p
    BY <1>1, <1>2
  <2> HIDE DEF x
  <2>2. sending[x] = S[p] /\ x \in DOMAIN sending
    <3>1. \A i \in 1..Len(sending) : sending[i] = S[Front + i]
      BY DEF LineIs
    <3>2. x \in DOMAIN sending
      BY <1>1, <2>1
    <3> QED
      BY <2>1, <3>1, <3>2
  <2> QED
    BY <2>2 DEF Sources
<1>3. CASE p > Front + Len(sending)
  <2> DEFINE x == p - (L - Len(usb))
  <2>1. x \in 1..Len(usb) /\ (L - Len(usb)) + x = p
    BY <1>1, <1>3
  <2> HIDE DEF x
  <2>2. usb[x] = S[p] /\ x \in DOMAIN usb
    BY <1>1, <2>1 DEF LineIs
  <2> QED
    BY <2>2 DEF Sources
<1> QED
  BY <1>1, <1>2, <1>3

\* A byte that waits is in its slot of the cyclic buffer.
LEMMA WaitingLies ==
    ASSUME StreamInv, NEW x \in 1..Len(Waiting)
    PROVE  x \in 1..Count /\ ByteAt(buffer[Slot(x - 1)]) = Waiting[x]
<1>1. port = "android" /\ x \in 1..(written - taken) /\ Waiting[x] = accepted[taken + x]
  BY WaitingIs
<1>2. /\ written \in Nat /\ taken \in Nat /\ taken <= written /\ Len(accepted) = written /\ accepted \in Seq(Byte)
  BY StateIs
<1>3. written = taken + Count /\ Count \in 0..BufferSize /\ BufferSize \in Nat
  BY CountRange, BufferAssumption DEF StreamInv, TransportInv, BufInv, UnreadIntact
<1>4. x \in 1..Count /\ x - 1 \in 0..(BufferSize - 1) /\ x - 1 < Count /\ taken + (x - 1) + 1 = taken + x
  BY <1>1, <1>2, <1>3
<1>5. \A k \in 0..(BufferSize - 1) : k < Count => buffer[Slot(k)] = taken + k + 1
  BY DEF StreamInv, TransportInv, BufInv, UnreadIntact
<1>6. buffer[Slot(x - 1)] = taken + x
  BY <1>4, <1>5
<1>7. taken + x \in DOMAIN accepted
  BY <1>1, <1>2
<1> QED
  BY <1>1, <1>4, <1>6, <1>7 DEF ByteAt

\* ... and a packet that has gone past Recv is one of those it accounts for.
LEMMA StepInvShows == StepInv => BackInStep
<1> SUFFICES ASSUME StepInv, NEW k \in Indices, Passed(k), k \notin received, k \notin hurt
             PROVE  \E j \in hurt : j < k /\ Between(j, k) < Swallowed
  BY DEF BackInStep
<1>1. StreamInv /\ LineIs
  BY DEF StepInv
<1>2. PICK a : /\ Traced(a, Ahead, Front, hurt)
               /\ Accounted(a, Ahead, Len(got), Front, hurt, received)
  BY DEF StepInv, Known
<1>3. Start(k) + 1 \in ToCome(a, Ahead, Len(got), Front) \/ InStep(a, Len(got), k) \/ Covered(k, hurt)
  BY <1>2 DEF Accounted
<1>4. got \in Seq(Byte) /\ Waiting \in Seq(Byte)
  BY <1>1, StateIs, WaitingIs
<1>5. /\ Len(Ahead) = Len(got) + Len(Waiting) /\ Len(got) \in Nat /\ Len(Waiting) \in Nat
      /\ \A x \in 1..Len(got) : Ahead[x] = got[x]
      /\ \A x \in 1..Len(Waiting) : Ahead[Len(got) + x] = Waiting[x]
  BY <1>4, JoinIs DEF Ahead
<1>6. 1 \in 1..Size(k) /\ S[Start(k) + 1].of = k
  <2>1. 1 \in 1..Size(k)
    BY PacketPlaces
  <2> QED
    BY <2>1, WithinIs
<1>7. \A x \in 1..Len(Ahead) : Ahead[x] = S[a[x]]
  BY <1>2, TracedIs
<1>8. /\ k \notin Sources(usb) /\ k \notin Sources(sending) /\ k \notin Sources(got)
      /\ \A x \in 1..Count : ByteAt(buffer[Slot(x - 1)]).of # k
  BY DEF Passed
<1>9. ASSUME Start(k) + 1 \in (Front + 1)..L PROVE FALSE
  BY <1>1, <1>6, <1>8, <1>9, LineHas
<1>10. ASSUME NEW x \in (Len(got) + 1)..Len(Ahead), a[x] = Start(k) + 1 PROVE FALSE
  <2> DEFINE y == x - Len(got)
  <2>1. y \in 1..Len(Waiting) /\ Len(got) + y = x /\ x \in 1..Len(Ahead)
    BY <1>5
  <2> HIDE DEF y
  <2>2. Waiting[y].of = k
    BY <1>5, <1>6, <1>7, <1>10, <2>1
  <2>3. y \in 1..Count /\ ByteAt(buffer[Slot(y - 1)]) = Waiting[y]
    BY <1>1, <2>1, WaitingLies
  <2> QED
    BY <1>8, <2>2, <2>3
<1>11. ASSUME InStep(a, Len(got), k) PROVE FALSE
  <2>1. 1 \in 1..Len(got) /\ 1 \in 1..Len(Ahead)
    BY <1>5, <1>11 DEF InStep
  <2>2. a[1] = Start(k) + 1
    BY <1>11, <2>1 DEF InStep
  <2>3. got[1].of = k /\ 1 \in DOMAIN got
    BY <1>4, <1>5, <1>6, <1>7, <2>1, <2>2
  <2> QED
    BY <1>8, <2>3 DEF Sources
<1>12. ~(Start(k) + 1 \in ToCome(a, Ahead, Len(got), Front))
  BY <1>9, <1>10 DEF ToCome
<1> QED
  BY <1>3, <1>11, <1>12 DEF Covered

\* BackInStep: after a lost or a late byte the receiver is in step again within the length of one
\* packet, however the two threads and the line interleave (PacketSender::Recv, WaitSyncBytes).
THEOREM BackInStepHolds == TransportSpec => []BackInStep
<1>1. TransportInit => StepInv
  BY StepInvInit
<1>2. StepInv /\ [TransportNext]_vars => StepInv'
  BY StepInvStep
<1>3. StepInv => BackInStep
  BY StepInvShows
<1> QED
  BY <1>1, <1>2, <1>3, PTL DEF TransportSpec

=============================================================================
