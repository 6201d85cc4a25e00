----------------------------- MODULE BufferOps -----------------------------
(***************************************************************************)
(* The methods of Buffer as operators on its value: the vector, its        *)
(* capacity and the two indices.  Bytes are numbers; 0 is what the vector  *)
(* puts into a slot nobody wrote.                                          *)
(***************************************************************************)
EXTENDS Naturals, Sequences

\* The members: _buffer with its elements and its capacity, _readIndex and
\* _writeIndex.
Members(bytes, capacity, readIndex, writeIndex) ==
    [bytes |-> bytes, capacity |-> capacity,
     readIndex |-> readIndex, writeIndex |-> writeIndex]

\* Buffer(): n is BufferInitSize (1536 in the code).
EmptyBuffer(n) == Members([i \in 1 .. n |-> 0], n, 0, 0)

IsBuffer(b) ==
    /\ b \in [bytes : Seq(Nat), capacity : Nat, readIndex : Nat, writeIndex : Nat]
    /\ b.readIndex <= b.writeIndex
    /\ b.writeIndex <= Len(b.bytes)
    /\ Len(b.bytes) <= b.capacity

ReadableSize(b) == b.writeIndex - b.readIndex
WriteableSize(b) == Len(b.bytes) - b.writeIndex
Readable(b) == SubSeq(b.bytes, b.readIndex + 1, b.writeIndex)

FaultyConsumed(b, n) ==
    IF b.readIndex + n = b.writeIndex
    THEN Members(b.bytes, b.capacity, b.readIndex + n, 0)
    ELSE Members(b.bytes, b.capacity, b.readIndex + n, b.writeIndex)
\* n readable bytes are gone; indices that meet go back to the start.
Consumed(b, n) ==
    IF b.readIndex + n = b.writeIndex
    THEN Members(b.bytes, b.capacity, 0, 0)
    ELSE Members(b.bytes, b.capacity, b.readIndex + n, b.writeIndex)

\* The vector v after data was written behind its first w elements.
Overwritten(v, w, data) ==
    [i \in 1 .. Len(v) |-> IF i - w \in 1 .. Len(data) THEN data[i - w] ELSE v[i]]

\* Push when there is room in front: what is readable moves to the start of
\* the vector, the message is written behind it, and _writeIndex is left at
\* the end of what was readable before.
MovedDown(b, msg) ==
    Members(Overwritten(b.bytes, 0, Readable(b) \o msg), b.capacity,
            0, ReadableSize(b))

\* Push otherwise: resize to _writeIndex, then insert there.  An insert that
\* does not fit reallocates, by the growth rule of libstdc++.
NewCapacity(capacity, w, n) ==
    IF w + n <= capacity THEN capacity ELSE IF n < w THEN w + w ELSE w + n
Inserted(b, msg) ==
    LET w == b.writeIndex
        n == Len(msg)
    IN  Members(SubSeq(b.bytes, 1, w) \o msg, NewCapacity(b.capacity, w, n),
                b.readIndex, w + n)

\* When Push moves the readable bytes down.
FaultyMovesDown(b, n) == n > b.capacity - b.writeIndex
MovesDown(b, n) == n > b.capacity - b.writeIndex /\ n <= b.readIndex

\* Both overloads of Push.
Push(b, msg) ==
    IF MovesDown(b, Len(msg)) THEN MovedDown(b, msg) ELSE Inserted(b, msg)

\* readv put data into the slots behind _writeIndex.
Filled(b, data) ==
    Members(Overwritten(b.bytes, b.writeIndex, data), b.capacity,
            b.readIndex, b.writeIndex + Len(data))

FaultyReceived(b, data) ==
    LET room == WriteableSize(b)
    IN  IF Len(data) > room
        THEN Push(b, SubSeq(data, room + 1, Len(data)))
        ELSE Filled(b, data)
\* ReadFromKernel after readv returned data: what did not fit behind
\* _writeIndex landed in the array on the stack and is pushed.
Received(b, data) ==
    LET room == WriteableSize(b)
    IN  IF Len(data) > room
        THEN Push(Filled(b, SubSeq(data, 1, room)),
                  SubSeq(data, room + 1, Len(data)))
        ELSE Filled(b, data)

=============================================================================
