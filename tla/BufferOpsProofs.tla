--------------------------- MODULE BufferOpsProofs ---------------------------
(***************************************************************************)
(* What the methods of Buffer do, for any buffer and any bytes.            *)
(***************************************************************************)
EXTENDS BufferOps, SequenceTheorems, TLAPS

LEMMA Associative ==
    \A s, t, u \in Seq(Nat) : (s \o t) \o u = s \o (t \o u)
<1> TAKE s, t, u \in Seq(Nat)
<1> QED
  BY ConcatAssociative, SMTT(60)

(***************************************************************************)
(* What the methods do to a well-formed buffer: its indices stay inside    *)
(* the vector, the vector inside its capacity.                             *)
(***************************************************************************)
LEMMA MembersType ==
    ASSUME NEW bytes \in Seq(Nat), NEW c \in Nat, NEW r \in Nat, NEW w \in Nat,
           r <= w, w <= Len(bytes), Len(bytes) <= c
    PROVE  IsBuffer(Members(bytes, c, r, w))
  BY DEF IsBuffer, Members

\* The facts about a buffer that the lemmas below need.
LEMMA BufferFacts ==
    ASSUME NEW b, IsBuffer(b)
    PROVE  /\ b.bytes \in Seq(Nat) /\ Len(b.bytes) \in Nat
           /\ b.capacity \in Nat /\ b.readIndex \in Nat /\ b.writeIndex \in Nat
           /\ b.readIndex <= b.writeIndex /\ b.writeIndex <= Len(b.bytes)
           /\ Len(b.bytes) <= b.capacity
           /\ ReadableSize(b) \in Nat /\ WriteableSize(b) \in Nat
           /\ b.readIndex + ReadableSize(b) = b.writeIndex
           /\ b.writeIndex + WriteableSize(b) = Len(b.bytes)
<1>1. /\ b.bytes \in Seq(Nat)
      /\ b.capacity \in Nat /\ b.readIndex \in Nat /\ b.writeIndex \in Nat
      /\ b.readIndex <= b.writeIndex /\ b.writeIndex <= Len(b.bytes)
      /\ Len(b.bytes) <= b.capacity
  BY DEF IsBuffer
<1>2. Len(b.bytes) \in Nat
  BY <1>1, LenProperties
<1> QED
  BY <1>1, <1>2 DEF ReadableSize, WriteableSize

\* The part of a sequence from k to l.
LEMMA Slice ==
    ASSUME NEW s \in Seq(Nat), NEW k \in Nat \ {0}, NEW l \in Nat,
           k <= l + 1, l <= Len(s)
    PROVE  /\ SubSeq(s, k, l) \in Seq(Nat)
           /\ Len(SubSeq(s, k, l)) = l - k + 1
           /\ \A i \in 1 .. l - k + 1 : SubSeq(s, k, l)[i] = s[k + i - 1]
<1>1. Len(s) \in Nat
  BY LenProperties
<1>2. \A i \in k .. l : s[i] \in Nat
  BY <1>1, ElementOfSeq
<1>3. SubSeq(s, k, l) \in Seq(Nat)
  BY <1>2, SubSeqProperties
<1>4. Len(SubSeq(s, k, l)) = IF k <= l THEN l - k + 1 ELSE 0
  BY <1>2, SubSeqProperties
<1>5. \A i \in 1 .. l - k + 1 : SubSeq(s, k, l)[i] = s[k + i - 1]
  BY <1>2, SubSeqProperties
<1> QED
  BY <1>3, <1>4, <1>5

LEMMA Prefix ==
    ASSUME NEW s \in Seq(Nat), NEW l \in Nat, l <= Len(s)
    PROVE  SubSeq(s, 1, l) \in Seq(Nat) /\ Len(SubSeq(s, 1, l)) = l
<1>1. 1 \in Nat \ {0} /\ 1 <= l + 1
  OBVIOUS
<1>2. SubSeq(s, 1, l) \in Seq(Nat) /\ Len(SubSeq(s, 1, l)) = l - 1 + 1
  BY <1>1, Slice
<1> QED
  BY <1>2

\* Writing into a vector neither grows nor shrinks it.
LEMMA OverwrittenType ==
    ASSUME NEW v \in Seq(Nat), NEW w \in Nat, NEW data \in Seq(Nat)
    PROVE  /\ Overwritten(v, w, data) \in Seq(Nat)
           /\ Len(Overwritten(v, w, data)) = Len(v)
<1>1. /\ Len(v) \in Nat /\ \A i \in 1 .. Len(v) : v[i] \in Nat
      /\ Len(data) \in Nat /\ \A i \in 1 .. Len(data) : data[i] \in Nat
  BY LenProperties, ElementOfSeq
<1>2. Overwritten(v, w, data) \in [1 .. Len(v) -> Nat]
  <2>1. ASSUME NEW i \in 1 .. Len(v)
        PROVE  (IF i - w \in 1 .. Len(data) THEN data[i - w] ELSE v[i]) \in Nat
    BY <1>1, <2>1
  <2> QED
    BY <2>1, Zenon DEF Overwritten
<1>3. Overwritten(v, w, data) \in Seq(Nat)
  BY <1>1, <1>2, SeqDef
<1>4. DOMAIN Overwritten(v, w, data) = 1 .. Len(v)
  BY <1>2
<1>5. Len(Overwritten(v, w, data)) = Len(v)
  BY <1>1, <1>3, <1>4, LenProperties
<1> QED
  BY <1>3, <1>5

LEMMA EmptyBufferType ==
    ASSUME NEW n \in Nat
    PROVE  IsBuffer(EmptyBuffer(n))
<1> DEFINE zeros == [i \in 1 .. n |-> 0]
<1>1. zeros \in Seq(Nat) /\ Len(zeros) = n
  OBVIOUS
<1> HIDE DEF zeros
<1>2. IsBuffer(Members(zeros, n, 0, 0))
  BY <1>1, MembersType
<1> QED
  BY <1>2 DEF EmptyBuffer, zeros

\* What is readable, as a sequence.
LEMMA ReadableType ==
    ASSUME NEW b, IsBuffer(b)
    PROVE  /\ Readable(b) \in Seq(Nat)
           /\ Len(Readable(b)) = ReadableSize(b)
           /\ \A i \in 1 .. ReadableSize(b) :
                 Readable(b)[i] = b.bytes[b.readIndex + i]
<1>0. /\ b.bytes \in Seq(Nat) /\ Len(b.bytes) \in Nat
      /\ b.capacity \in Nat /\ b.readIndex \in Nat /\ b.writeIndex \in Nat
      /\ b.readIndex <= b.writeIndex /\ b.writeIndex <= Len(b.bytes)
      /\ Len(b.bytes) <= b.capacity
      /\ ReadableSize(b) \in Nat /\ WriteableSize(b) \in Nat
      /\ b.readIndex + ReadableSize(b) = b.writeIndex
      /\ b.writeIndex + WriteableSize(b) = Len(b.bytes)
  BY BufferFacts
<1>1. b.readIndex + 1 \in Nat \ {0} /\ b.readIndex + 1 <= b.writeIndex + 1
  BY <1>0
<1>2. b.writeIndex - (b.readIndex + 1) + 1 = ReadableSize(b)
  <2>1. \A x, y \in Nat : (x + y) - (x + 1) + 1 = y
    OBVIOUS
  <2> QED
    BY <1>0, <2>1
<1>3. \A i \in Nat : b.readIndex + 1 + i - 1 = b.readIndex + i
  <2>1. \A x, i \in Nat : x + 1 + i - 1 = x + i
    OBVIOUS
  <2> QED
    BY <1>0, <2>1
<1>4. ASSUME NEW k \in Nat \ {0}, k = b.readIndex + 1
      PROVE  /\ SubSeq(b.bytes, k, b.writeIndex) \in Seq(Nat)
             /\ Len(SubSeq(b.bytes, k, b.writeIndex)) = b.writeIndex - k + 1
             /\ \A i \in 1 .. b.writeIndex - k + 1 :
                   SubSeq(b.bytes, k, b.writeIndex)[i] = b.bytes[k + i - 1]
  BY <1>0, <1>1, <1>4, Slice
<1>5. /\ Readable(b) \in Seq(Nat)
      /\ Len(Readable(b)) = b.writeIndex - (b.readIndex + 1) + 1
      /\ \A i \in 1 .. b.writeIndex - (b.readIndex + 1) + 1 :
            Readable(b)[i] = b.bytes[b.readIndex + 1 + i - 1]
  BY <1>1, <1>4 DEF Readable
<1>6. 1 .. ReadableSize(b) \subseteq Nat
  BY <1>0
<1> QED
  BY <1>2, <1>3, <1>5, <1>6

LEMMA ConsumedType ==
    ASSUME NEW b, IsBuffer(b), NEW n \in 0 .. ReadableSize(b)
    PROVE  IsBuffer(Consumed(b, n))
<1>0. /\ b.bytes \in Seq(Nat) /\ Len(b.bytes) \in Nat
      /\ b.capacity \in Nat /\ b.readIndex \in Nat /\ b.writeIndex \in Nat
      /\ b.readIndex <= b.writeIndex /\ b.writeIndex <= Len(b.bytes)
      /\ Len(b.bytes) <= b.capacity
      /\ ReadableSize(b) \in Nat /\ WriteableSize(b) \in Nat
      /\ b.readIndex + ReadableSize(b) = b.writeIndex
      /\ b.writeIndex + WriteableSize(b) = Len(b.bytes)
  BY BufferFacts
<1>1. IsBuffer(Members(b.bytes, b.capacity, 0, 0))
  BY <1>0, MembersType
<1>2. b.readIndex + n \in Nat /\ b.readIndex + n <= b.writeIndex
  BY <1>0
<1>3. IsBuffer(Members(b.bytes, b.capacity, b.readIndex + n, b.writeIndex))
  BY <1>0, <1>2, MembersType
<1> QED
  BY <1>1, <1>3 DEF Consumed

LEMMA MovedDownType ==
    ASSUME NEW b, IsBuffer(b), NEW msg \in Seq(Nat)
    PROVE  IsBuffer(MovedDown(b, msg))
<1>0. /\ b.bytes \in Seq(Nat) /\ Len(b.bytes) \in Nat
      /\ b.capacity \in Nat /\ b.readIndex \in Nat /\ b.writeIndex \in Nat
      /\ b.readIndex <= b.writeIndex /\ b.writeIndex <= Len(b.bytes)
      /\ Len(b.bytes) <= b.capacity
      /\ ReadableSize(b) \in Nat /\ WriteableSize(b) \in Nat
      /\ b.readIndex + ReadableSize(b) = b.writeIndex
      /\ b.writeIndex + WriteableSize(b) = Len(b.bytes)
  BY BufferFacts
<1> DEFINE bytes == Overwritten(b.bytes, 0, Readable(b) \o msg)
<1>1. Readable(b) \o msg \in Seq(Nat)
  BY ReadableType, ConcatProperties
<1>2. bytes \in Seq(Nat) /\ Len(bytes) = Len(b.bytes)
  BY <1>0, <1>1, OverwrittenType
<1> HIDE DEF bytes
<1>3. /\ b.capacity \in Nat /\ ReadableSize(b) \in Nat
      /\ 0 <= ReadableSize(b) /\ ReadableSize(b) <= Len(bytes)
      /\ Len(bytes) <= b.capacity
  BY <1>0, <1>2
<1>4. IsBuffer(Members(bytes, b.capacity, 0, ReadableSize(b)))
  BY <1>2, <1>3, MembersType
<1> QED
  BY <1>4 DEF MovedDown, bytes

LEMMA InsertedType ==
    ASSUME NEW b, IsBuffer(b), NEW msg \in Seq(Nat)
    PROVE  IsBuffer(Inserted(b, msg))
<1> DEFINE n == Len(msg)
           r == b.readIndex
           w == b.writeIndex
           c == NewCapacity(b.capacity, w, n)
           bytes == SubSeq(b.bytes, 1, w) \o msg
<1>1. /\ b.bytes \in Seq(Nat) /\ w <= Len(b.bytes)
      /\ b.capacity \in Nat /\ r \in Nat /\ w \in Nat /\ r <= w
  BY BufferFacts
<1>2. n \in Nat
  BY LenProperties
<1>3. SubSeq(b.bytes, 1, w) \in Seq(Nat) /\ Len(SubSeq(b.bytes, 1, w)) = w
  BY <1>1, Prefix
<1>4. bytes \in Seq(Nat) /\ Len(bytes) = w + n
  BY <1>3, ConcatProperties
<1>5. c \in Nat /\ w + n <= c
  <2>1. \A x, y, z \in Nat :
           NewCapacity(x, y, z) \in Nat /\ y + z <= NewCapacity(x, y, z)
    BY DEF NewCapacity
  <2> HIDE DEF n, w
  <2> QED
    BY <1>1, <1>2, <2>1
<1>6. Inserted(b, msg) = Members(bytes, c, r, w + n)
  BY DEF Inserted
<1> HIDE DEF n, r, w, c, bytes
<1>7. r <= w + n /\ w + n \in Nat
  BY <1>1, <1>2
<1>8. IsBuffer(Members(bytes, c, r, w + n))
  BY <1>1, <1>4, <1>5, <1>7, MembersType
<1> QED
  BY <1>6, <1>8

LEMMA PushType ==
    ASSUME NEW b, IsBuffer(b), NEW msg \in Seq(Nat)
    PROVE  IsBuffer(Push(b, msg))
  BY MovedDownType, InsertedType DEF Push

LEMMA FilledType ==
    ASSUME NEW b, IsBuffer(b), NEW data \in Seq(Nat),
           Len(data) <= WriteableSize(b)
    PROVE  IsBuffer(Filled(b, data))
<1> DEFINE bytes == Overwritten(b.bytes, b.writeIndex, data)
           w == b.writeIndex + Len(data)
<1>1. bytes \in Seq(Nat) /\ Len(bytes) = Len(b.bytes)
  BY BufferFacts, OverwrittenType
<1> HIDE DEF bytes
<1>2. /\ b.capacity \in Nat /\ b.readIndex \in Nat /\ w \in Nat
      /\ b.readIndex <= w /\ w <= Len(bytes) /\ Len(bytes) <= b.capacity
  BY <1>1, BufferFacts, LenProperties
<1> HIDE DEF w
<1>3. IsBuffer(Members(bytes, b.capacity, b.readIndex, w))
  BY <1>1, <1>2, MembersType
<1> QED
  BY <1>3 DEF Filled, bytes, w

LEMMA ReceivedType ==
    ASSUME NEW b, IsBuffer(b), NEW data \in Seq(Nat)
    PROVE  IsBuffer(Received(b, data))
<1> DEFINE room == WriteableSize(b)
           first == SubSeq(data, 1, room)
           rest == SubSeq(data, room + 1, Len(data))
<1>1. room \in Nat /\ Len(data) \in Nat
  BY BufferFacts, LenProperties
<1>2. CASE Len(data) > room
  <2>1. first \in Seq(Nat) /\ Len(first) = room
    BY <1>1, <1>2, Slice
  <2>2. rest \in Seq(Nat)
    BY <1>1, <1>2, Slice
  <2>3. Received(b, data) = Push(Filled(b, first), rest)
    BY <1>2 DEF Received
  <2> HIDE DEF first, rest
  <2>4. Len(first) <= WriteableSize(b)
    BY <1>1, <2>1
  <2>5. IsBuffer(Filled(b, first))
    BY <2>1, <2>4, FilledType
  <2> QED
    BY <2>2, <2>3, <2>5, PushType
<1>3. CASE ~(Len(data) > room)
  <2>1. Received(b, data) = Filled(b, data)
    BY <1>3 DEF Received
  <2>2. Len(data) <= WriteableSize(b)
    BY <1>1, <1>3
  <2> QED
    BY <2>1, <2>2, FilledType
<1> QED
  BY <1>2, <1>3

-----------------------------------------------------------------------------
(***************************************************************************)
(* What is readable after each of them.                                    *)
(***************************************************************************)
\* A sequence of which length and elements are known.
LEMMA ReadableOf ==
    ASSUME NEW b, IsBuffer(b), NEW s \in Seq(Nat), Len(s) = ReadableSize(b),
           \A i \in 1 .. ReadableSize(b) : b.bytes[b.readIndex + i] = s[i]
    PROVE  Readable(b) = s
  BY ReadableType, SeqEqual

\* Indices that met, and those of a new buffer.
LEMMA NothingReadable ==
    ASSUME NEW b, IsBuffer(b), b.readIndex = b.writeIndex
    PROVE  Readable(b) = <<>>
<1>1. ReadableSize(b) = 0
  BY BufferFacts DEF ReadableSize
<1>2. <<>> \in Seq(Nat) /\ Len(<<>>) = 0
  BY EmptySeq
<1>3. \A i \in 1 .. ReadableSize(b) : b.bytes[b.readIndex + i] = <<>>[i]
  BY <1>1
<1> QED
  BY <1>1, <1>2, <1>3, ReadableOf

LEMMA ReadableEmptyBuffer ==
    ASSUME NEW n \in Nat
    PROVE  Readable(EmptyBuffer(n)) = <<>>
<1>1. EmptyBuffer(n).readIndex = EmptyBuffer(n).writeIndex
  BY DEF EmptyBuffer, Members
<1> QED
  BY <1>1, EmptyBufferType, NothingReadable

\* What is consumed is gone, at the front, and nothing else is.
LEMMA ReadableConsumed ==
    ASSUME NEW b, IsBuffer(b), NEW n \in 0 .. ReadableSize(b)
    PROVE  /\ Readable(Consumed(b, n)) =
                  SubSeq(Readable(b), n + 1, Len(Readable(b)))
           /\ Readable(b) = SubSeq(Readable(b), 1, n) \o Readable(Consumed(b, n))
           /\ SubSeq(Readable(b), 1, n) \in Seq(Nat)
           /\ Len(SubSeq(Readable(b), 1, n)) = n
<1> DEFINE R == Readable(b)
           S == ReadableSize(b)
           d == Consumed(b, n)
<1>0. /\ S \in Nat /\ b.readIndex \in Nat /\ b.writeIndex \in Nat /\ b.readIndex + S = b.writeIndex
      /\ R \in Seq(Nat) /\ Len(R) = S
      /\ \A i \in 1 .. S : R[i] = b.bytes[b.readIndex + i]
  BY BufferFacts, ReadableType
<1>1. IsBuffer(d)
  BY ConsumedType
<1>2. /\ SubSeq(R, n + 1, S) \in Seq(Nat)
      /\ Len(SubSeq(R, n + 1, S)) = S - (n + 1) + 1
      /\ \A i \in 1 .. S - (n + 1) + 1 : SubSeq(R, n + 1, S)[i] = R[(n + 1) + i - 1]
  <2>1. n + 1 \in Nat \ {0} /\ n + 1 <= S + 1 /\ S <= Len(R)
    BY <1>0
  <2> QED
    BY <1>0, <2>1, Slice
<1>3. R = SubSeq(R, 1, n) \o SubSeq(R, n + 1, S)
  <2>1. 1 \in 1 .. Len(R) + 1 /\ n \in 1 - 1 .. Len(R) /\ Len(R) \in n .. Len(R)
    BY <1>0
  <2>2. SubSeq(R, 1, n) \o SubSeq(R, n + 1, Len(R)) = SubSeq(R, 1, Len(R))
    BY <1>0, <2>1, ConcatAdjacentSubSeq
  <2> QED
    BY <1>0, <2>2, SubSeqFull
<1>4. SubSeq(R, 1, n) \in Seq(Nat) /\ Len(SubSeq(R, 1, n)) = n
  BY <1>0, Prefix
<1>5. Readable(d) = SubSeq(R, n + 1, S)
  <2>1. CASE b.readIndex + n = b.writeIndex
    <3>1. d = Members(b.bytes, b.capacity, 0, 0)
      BY <2>1 DEF Consumed
    <3>2. Readable(d) = <<>>
      BY <1>1, <3>1, NothingReadable DEF Members
    <3>3. n = S
      BY <1>0, <2>1
    <3>4. SubSeq(R, n + 1, S) = <<>>
      BY <1>0, <3>3, SubSeqEmpty
    <3> QED
      BY <3>2, <3>4
  <2>2. CASE b.readIndex + n # b.writeIndex
    <3>1. d = Members(b.bytes, b.capacity, b.readIndex + n, b.writeIndex)
      BY <2>2 DEF Consumed
    <3>2. /\ d.bytes = b.bytes /\ d.readIndex = b.readIndex + n
          /\ d.writeIndex = b.writeIndex
      BY <3>1 DEF Members
    <3>3. ReadableSize(d) = S - n
      BY <1>0, <3>2 DEF ReadableSize
    <3>4. Len(SubSeq(R, n + 1, S)) = S - n /\ S - n \in Nat
      BY <1>0, <1>2
    <3>5. ASSUME NEW i \in 1 .. S - n
          PROVE  d.bytes[d.readIndex + i] = SubSeq(R, n + 1, S)[i]
      <4>1. SubSeq(R, n + 1, S)[i] = R[(n + 1) + i - 1]
        BY <1>0, <1>2
      <4>2. (n + 1) + i - 1 = n + i /\ n + i \in 1 .. S
        BY <1>0
      <4>3. R[n + i] = b.bytes[b.readIndex + (n + i)]
        BY <1>0, <4>2
      <4>4. b.readIndex + (n + i) = (b.readIndex + n) + i
        BY <1>0
      <4> QED
        BY <3>2, <4>1, <4>2, <4>3, <4>4
    <3> HIDE DEF R, S, d
    <3> QED
      BY <1>1, <1>2, <3>3, <3>4, <3>5, ReadableOf
  <2> QED
    BY <2>1, <2>2
<1> QED
  BY <1>0, <1>3, <1>4, <1>5

\* Room in front makes Push lose the message.
LEMMA ReadableMovedDown ==
    ASSUME NEW b, IsBuffer(b), NEW msg \in Seq(Nat)
    PROVE  Readable(MovedDown(b, msg)) = Readable(b)
<1> DEFINE R == Readable(b)
           S == ReadableSize(b)
           d == MovedDown(b, msg)
<1>0. /\ S \in Nat /\ R \in Seq(Nat) /\ Len(R) = S /\ S <= Len(b.bytes)
      /\ Len(b.bytes) \in Nat /\ Len(msg) \in Nat
  <2>1. b.readIndex \in Nat /\ b.readIndex + S = b.writeIndex /\ b.writeIndex <= Len(b.bytes)
        /\ S \in Nat /\ Len(b.bytes) \in Nat
    BY BufferFacts
  <2> QED
    BY <2>1, ReadableType, LenProperties
<1>1. /\ d.bytes = Overwritten(b.bytes, 0, R \o msg)
      /\ d.readIndex = 0 /\ d.writeIndex = S
  BY DEF MovedDown, Members
<1>2. IsBuffer(d)
  BY MovedDownType
<1>3. ReadableSize(d) = S
  BY <1>0, <1>1 DEF ReadableSize
<1>4. ASSUME NEW i \in 1 .. S
      PROVE  d.bytes[d.readIndex + i] = R[i]
  <2>1. /\ Len(R \o msg) = S + Len(msg) /\ (R \o msg)[i] = R[i]
    <3>1. /\ Len(R \o msg) = Len(R) + Len(msg)
          /\ \A j \in 1 .. Len(R) + Len(msg) :
                (R \o msg)[j] = IF j <= Len(R) THEN R[j] ELSE msg[j - Len(R)]
      BY <1>0, ConcatProperties
    <3>2. i \in 1 .. Len(R) + Len(msg) /\ i <= Len(R)
      BY <1>0
    <3> QED
      BY <1>0, <3>1, <3>2
  <2>2. i \in 1 .. Len(b.bytes) /\ 0 + i = i /\ i - 0 = i /\ i \in 1 .. Len(R \o msg)
    BY <1>0, <2>1
  <2>3. Overwritten(b.bytes, 0, R \o msg)[i] = (R \o msg)[i]
    BY <2>2 DEF Overwritten
  <2> QED
    BY <1>1, <2>1, <2>2, <2>3
<1> HIDE DEF R, S, d
<1> QED
  BY <1>0, <1>2, <1>3, <1>4, ReadableOf DEF d, R

\* Otherwise it keeps all of it.
LEMMA ReadableInserted ==
    ASSUME NEW b, IsBuffer(b), NEW msg \in Seq(Nat)
    PROVE  Readable(Inserted(b, msg)) = Readable(b) \o msg
<1> DEFINE R == Readable(b)
           S == ReadableSize(b)
           r == b.readIndex
           w == b.writeIndex
           n == Len(msg)
           d == Inserted(b, msg)
<1>0. /\ S \in Nat /\ r \in Nat /\ w \in Nat /\ r + S = w /\ w <= Len(b.bytes)
      /\ b.bytes \in Seq(Nat) /\ Len(b.bytes) \in Nat
  BY BufferFacts
<1>1. /\ R \in Seq(Nat) /\ Len(R) = S /\ \A i \in 1 .. S : R[i] = b.bytes[r + i]
  BY ReadableType
<1>2. n \in Nat
  BY LenProperties
<1>3. /\ d.bytes = SubSeq(b.bytes, 1, w) \o msg
      /\ d.readIndex = r /\ d.writeIndex = w + n
  BY DEF Inserted, Members
<1>4. IsBuffer(d)
  BY InsertedType
<1>5. /\ SubSeq(b.bytes, 1, w) \in Seq(Nat) /\ Len(SubSeq(b.bytes, 1, w)) = w
      /\ \A i \in 1 .. w : SubSeq(b.bytes, 1, w)[i] = b.bytes[i]
  <2>1. 1 \in Nat \ {0} /\ 1 <= w + 1
    BY <1>0
  <2>2. /\ SubSeq(b.bytes, 1, w) \in Seq(Nat)
        /\ Len(SubSeq(b.bytes, 1, w)) = w - 1 + 1
        /\ \A i \in 1 .. w - 1 + 1 : SubSeq(b.bytes, 1, w)[i] = b.bytes[1 + i - 1]
    BY <1>0, <2>1, Slice
  <2>3. w - 1 + 1 = w /\ \A i \in 1 .. w : 1 + i - 1 = i
    BY <1>0
  <2> QED
    BY <2>2, <2>3
<1>6. \A j \in 1 .. w + n : d.bytes[j] = IF j <= w THEN b.bytes[j] ELSE msg[j - w]
  <2>1. \A j \in 1 .. w + n : d.bytes[j] = IF j <= w THEN SubSeq(b.bytes, 1, w)[j]
                                                   ELSE msg[j - w]
    BY <1>3, <1>5, ConcatProperties
  <2>2. \A j \in 1 .. w + n : j <= w => j \in 1 .. w
    BY <1>0, <1>2
  <2> QED
    BY <1>5, <2>1, <2>2
<1>7. /\ R \o msg \in Seq(Nat) /\ Len(R \o msg) = S + n
      /\ \A i \in 1 .. S + n : (R \o msg)[i] = IF i <= S THEN R[i] ELSE msg[i - S]
  <2>1. /\ R \o msg \in Seq(Nat) /\ Len(R \o msg) = Len(R) + Len(msg)
        /\ \A i \in 1 .. Len(R) + Len(msg) :
              (R \o msg)[i] = IF i <= Len(R) THEN R[i] ELSE msg[i - Len(R)]
    BY <1>1, ConcatProperties
  <2> HIDE DEF R, S
  <2> QED
    BY <1>1, <2>1
<1> HIDE DEF R, S, r, w, n, d
<1>8. ReadableSize(d) = S + n
  <2>1. (w + n) - r = S + n
    BY <1>0, <1>2
  <2> QED
    BY <1>3, <2>1 DEF ReadableSize
<1>9. ASSUME NEW i \in 1 .. S + n
      PROVE  d.bytes[d.readIndex + i] = (R \o msg)[i]
  <2>1. r + i \in 1 .. w + n /\ (r + i <= w <=> i <= S) /\ (r + i) - w = i - S
    BY <1>0, <1>2
  <2>2. CASE i <= S
    <3>1. i \in 1 .. S
      BY <1>0, <1>2, <2>2
    <3> QED
      BY <1>1, <1>3, <1>6, <1>7, <2>1, <2>2, <3>1
  <2>3. CASE ~(i <= S)
    BY <1>3, <1>6, <1>7, <2>1, <2>3
  <2> QED
    BY <2>2, <2>3
<1>10. Readable(d) = R \o msg
  BY <1>4, <1>7, <1>8, <1>9, ReadableOf
<1> QED
  BY <1>10 DEF d, R

LEMMA ReadablePush ==
    ASSUME NEW b, IsBuffer(b), NEW msg \in Seq(Nat)
    PROVE  Readable(Push(b, msg)) = IF MovesDown(b, Len(msg)) THEN Readable(b)
                                                              ELSE Readable(b) \o msg
  BY ReadableMovedDown, ReadableInserted DEF Push

LEMMA ReadableFilled ==
    ASSUME NEW b, IsBuffer(b), NEW data \in Seq(Nat),
           Len(data) <= WriteableSize(b)
    PROVE  Readable(Filled(b, data)) = Readable(b) \o data
<1> DEFINE R == Readable(b)
           S == ReadableSize(b)
           r == b.readIndex
           w == b.writeIndex
           n == Len(data)
           d == Filled(b, data)
<1>0. /\ S \in Nat /\ r \in Nat /\ w \in Nat /\ r + S = w
      /\ w + WriteableSize(b) = Len(b.bytes) /\ WriteableSize(b) \in Nat
      /\ Len(b.bytes) \in Nat
  BY BufferFacts
<1>1. /\ R \in Seq(Nat) /\ Len(R) = S /\ \A i \in 1 .. S : R[i] = b.bytes[r + i]
  BY ReadableType
<1>2. n \in Nat /\ w + n <= Len(b.bytes)
  <2>1. n \in Nat
    BY LenProperties
  <2> HIDE DEF n, w
  <2> QED
    BY <1>0, <2>1 DEF n
<1>3. /\ d.bytes = Overwritten(b.bytes, w, data)
      /\ d.readIndex = r /\ d.writeIndex = w + n
  BY DEF Filled, Members
<1>4. IsBuffer(d)
  BY FilledType
<1>5. \A j \in 1 .. Len(b.bytes) :
         d.bytes[j] = IF j - w \in 1 .. n THEN data[j - w] ELSE b.bytes[j]
  BY <1>3 DEF Overwritten
<1>6. /\ R \o data \in Seq(Nat) /\ Len(R \o data) = S + n
      /\ \A i \in 1 .. S + n : (R \o data)[i] = IF i <= S THEN R[i] ELSE data[i - S]
  <2>1. /\ R \o data \in Seq(Nat) /\ Len(R \o data) = Len(R) + Len(data)
        /\ \A i \in 1 .. Len(R) + Len(data) :
              (R \o data)[i] = IF i <= Len(R) THEN R[i] ELSE data[i - Len(R)]
    BY <1>1, ConcatProperties
  <2> HIDE DEF R, S
  <2> QED
    BY <1>1, <2>1
<1> HIDE DEF R, S, r, w, n, d
<1>7. ReadableSize(d) = S + n
  <2>1. (w + n) - r = S + n
    BY <1>0, <1>2
  <2> QED
    BY <1>3, <2>1 DEF ReadableSize
<1>8. ASSUME NEW i \in 1 .. S + n
      PROVE  d.bytes[d.readIndex + i] = (R \o data)[i]
  <2>1. r + i \in 1 .. Len(b.bytes) /\ (r + i) - w = i - S
    BY <1>0, <1>2
  <2>2. CASE i <= S
    <3>1. i \in 1 .. S /\ ~(i - S \in 1 .. n)
      BY <1>0, <1>2, <2>2
    <3> QED
      BY <1>1, <1>3, <1>5, <1>6, <2>1, <2>2, <3>1
  <2>3. CASE ~(i <= S)
    <3>1. i - S \in 1 .. n
      BY <1>0, <1>2, <2>3
    <3> QED
      BY <1>3, <1>5, <1>6, <2>1, <2>3, <3>1
  <2> QED
    BY <2>2, <2>3
<1>9. Readable(d) = R \o data
  BY <1>4, <1>6, <1>7, <1>8, ReadableOf
<1> QED
  BY <1>9 DEF d, R

\* With nothing in front of what is readable, Push keeps the message.
LEMMA NoRoomInFront ==
    ASSUME NEW b, IsBuffer(b), b.readIndex = 0, NEW n \in Nat
    PROVE  ~MovesDown(b, n)
<1>1. /\ b.capacity \in Nat /\ b.writeIndex \in Nat /\ Len(b.bytes) \in Nat
      /\ b.writeIndex <= Len(b.bytes) /\ Len(b.bytes) <= b.capacity
  BY BufferFacts
<1> QED
  BY <1>1 DEF MovesDown

\* Of what readv returned a first part is kept, and all of it if Push keeps the
\* part that landed on the stack.
LEMMA ReadableReceived ==
    ASSUME NEW b, IsBuffer(b), NEW data \in Seq(Nat)
    PROVE  \E k \in 0 .. Len(data) :
              /\ Readable(Received(b, data)) = Readable(b) \o SubSeq(data, 1, k)
              /\ b.readIndex = 0 => k = Len(data)
<1> DEFINE room == WriteableSize(b)
           n == Len(data)
           first == SubSeq(data, 1, room)
           rest == SubSeq(data, room + 1, n)
           f == Filled(b, first)
<1>1. room \in Nat /\ n \in Nat /\ Readable(b) \in Seq(Nat)
  BY BufferFacts, LenProperties, ReadableType
<1>2. CASE n > room
  <2>1. first \in Seq(Nat) /\ Len(first) = room /\ rest \in Seq(Nat)
    BY <1>1, <1>2, Slice
  <2>2. Received(b, data) = Push(f, rest)
    BY <1>2 DEF Received
  <2>3. data = first \o rest
    <3>1. 1 \in 1 .. Len(data) + 1 /\ room \in 1 - 1 .. Len(data) /\ Len(data) \in room .. Len(data)
      BY <1>1, <1>2
    <3>2. first \o rest = SubSeq(data, 1, Len(data))
      BY <1>1, <3>1, ConcatAdjacentSubSeq
    <3> QED
      BY <3>2, SubSeqFull
  <2>4. f.readIndex = b.readIndex
    BY DEF Filled, Members
  <2> HIDE DEF first, rest, f
  <2>5. Len(first) <= WriteableSize(b)
    BY <1>1, <2>1
  <2>6. IsBuffer(f) /\ Readable(f) = Readable(b) \o first
    BY <2>1, <2>5, FilledType, ReadableFilled DEF f
  <2>7. Len(rest) \in Nat
    BY <2>1, LenProperties
  <2>8. CASE MovesDown(f, Len(rest))
    <3>1. Readable(Received(b, data)) = Readable(b) \o first
      BY <2>1, <2>2, <2>6, <2>8, ReadablePush
    <3>2. room \in 0 .. n /\ b.readIndex # 0
      BY <1>1, <1>2, <2>4, <2>6, <2>7, <2>8, NoRoomInFront
    <3> QED
      BY <3>1, <3>2 DEF first
  <2>9. CASE ~MovesDown(f, Len(rest))
    <3>1. Readable(Received(b, data)) = (Readable(b) \o first) \o rest
      BY <2>1, <2>2, <2>6, <2>9, ReadablePush
    <3>2. (Readable(b) \o first) \o rest = Readable(b) \o data
      BY <1>1, <2>1, <2>3, Associative
    <3>3. SubSeq(data, 1, n) = data /\ n \in 0 .. n
      BY <1>1, SubSeqFull
    <3> QED
      BY <3>1, <3>2, <3>3
  <2> QED
    BY <2>8, <2>9
<1>3. CASE ~(n > room)
  <2>1. Received(b, data) = Filled(b, data)
    BY <1>3 DEF Received
  <2>2. Len(data) <= WriteableSize(b)
    BY <1>1, <1>3
  <2>3. Readable(Received(b, data)) = Readable(b) \o data
    BY <2>1, <2>2, ReadableFilled
  <2>4. SubSeq(data, 1, n) = data /\ n \in 0 .. n
    BY <1>1, SubSeqFull
  <2> QED
    BY <2>3, <2>4
<1> QED
  BY <1>2, <1>3

-----------------------------------------------------------------------------
(***************************************************************************)
(* Bytes that are their positions in a stream of n bytes, in order, each   *)
(* at most once.                                                           *)
(***************************************************************************)
Ordered(s, n) ==
    /\ s \in Seq(Nat)
    /\ \A i \in 1 .. Len(s) : s[i] \in 1 .. n
    /\ \A i, j \in 1 .. Len(s) : i < j => s[i] < s[j]

\* The next k bytes of the stream after the first n.
Following(n, k) == [i \in 1 .. k |-> n + i]

LEMMA FollowingType ==
    ASSUME NEW n \in Nat, NEW k \in Nat
    PROVE  /\ Following(n, k) \in Seq(Nat) /\ Len(Following(n, k)) = k
           /\ \A i \in 1 .. k : Following(n, k)[i] = n + i
  BY DEF Following

LEMMA FollowingPrefix ==
    ASSUME NEW n \in Nat, NEW m \in Nat, NEW k \in 0 .. m
    PROVE  SubSeq(Following(n, m), 1, k) = Following(n, k)
<1>1. /\ Following(n, m) \in Seq(Nat) /\ Len(Following(n, m)) = m
      /\ \A i \in 1 .. m : Following(n, m)[i] = n + i
  BY FollowingType
<1>2. /\ Following(n, k) \in Seq(Nat) /\ Len(Following(n, k)) = k
      /\ \A i \in 1 .. k : Following(n, k)[i] = n + i
  BY FollowingType
<1>3. /\ SubSeq(Following(n, m), 1, k) \in Seq(Nat)
      /\ Len(SubSeq(Following(n, m), 1, k)) = k - 1 + 1
      /\ \A i \in 1 .. k - 1 + 1 : SubSeq(Following(n, m), 1, k)[i] = Following(n, m)[1 + i - 1]
  <2>1. 1 \in Nat \ {0} /\ k \in Nat /\ 1 <= k + 1 /\ k <= Len(Following(n, m))
    BY <1>1
  <2> QED
    BY <1>1, <2>1, Slice
<1>4. ASSUME NEW i \in 1 .. k
      PROVE  SubSeq(Following(n, m), 1, k)[i] = Following(n, k)[i]
  <2>1. i \in 1 .. k - 1 + 1 /\ 1 + i - 1 = i /\ i \in 1 .. m
    OBVIOUS
  <2> QED
    BY <1>1, <1>2, <1>3, <2>1
<1>5. k - 1 + 1 = k
  OBVIOUS
<1> QED
  BY <1>2, <1>3, <1>4, <1>5, SeqEqual

LEMMA OrderedEmpty == \A n : Ordered(<<>>, n)
  BY DEF Ordered

LEMMA OrderedMore ==
    ASSUME NEW s, NEW n \in Nat, NEW m \in Nat, n <= m, Ordered(s, n)
    PROVE  Ordered(s, m)
  BY DEF Ordered

\* Bytes that follow keep the order.
LEMMA OrderedFollowing ==
    ASSUME NEW s, NEW n \in Nat, NEW k \in Nat, Ordered(s, n)
    PROVE  Ordered(s \o Following(n, k), n + k)
<1> DEFINE t == Following(n, k)
<1>1. /\ s \in Seq(Nat) /\ Len(s) \in Nat
      /\ \A i \in 1 .. Len(s) : s[i] \in 1 .. n
      /\ \A i, j \in 1 .. Len(s) : i < j => s[i] < s[j]
  BY LenProperties DEF Ordered
<1>2. t \in Seq(Nat) /\ Len(t) = k /\ \A i \in 1 .. k : t[i] = n + i
  BY FollowingType
<1> HIDE DEF t
<1>3. /\ s \o t \in Seq(Nat) /\ Len(s \o t) = Len(s) + Len(t)
      /\ \A i \in 1 .. Len(s) + Len(t) :
            (s \o t)[i] = IF i <= Len(s) THEN s[i] ELSE t[i - Len(s)]
  BY <1>1, <1>2, ConcatProperties
<1>4. ASSUME NEW i \in 1 .. Len(s) + k
      PROVE  /\ i <= Len(s) => i \in 1 .. Len(s) /\ (s \o t)[i] = s[i]
             /\ ~(i <= Len(s)) => i - Len(s) \in 1 .. k /\ (s \o t)[i] = n + (i - Len(s))
  <2>1. CASE i <= Len(s)
    BY <1>1, <1>2, <1>3, <2>1
  <2>2. CASE ~(i <= Len(s))
    <3>1. i - Len(s) \in 1 .. k
      BY <1>1, <2>2
    <3> QED
      BY <1>2, <1>3, <2>2, <3>1
  <2> QED
    BY <2>1, <2>2
<1>5. ASSUME NEW i \in 1 .. Len(s) + k
      PROVE  /\ (s \o t)[i] \in 1 .. n + k
             /\ i <= Len(s) => (s \o t)[i] \in 1 .. n
             /\ ~(i <= Len(s)) => (s \o t)[i] \in n + 1 .. n + k
  <2>1. CASE i <= Len(s)
    <3>1. (s \o t)[i] \in 1 .. n
      BY <1>1, <1>4, <2>1
    <3>2. 1 .. n \subseteq 1 .. n + k
      OBVIOUS
    <3> QED
      BY <2>1, <3>1, <3>2
  <2>2. CASE ~(i <= Len(s))
    <3>1. \A x \in 1 .. k : n + x \in 1 .. n + k /\ n + x \in n + 1 .. n + k
      OBVIOUS
    <3>2. i - Len(s) \in 1 .. k /\ (s \o t)[i] = n + (i - Len(s))
      BY <1>4, <2>2
    <3> QED
      BY <2>2, <3>1, <3>2
  <2> QED
    BY <2>1, <2>2
<1>6. ASSUME NEW i \in 1 .. Len(s) + k, NEW j \in 1 .. Len(s) + k, i < j
      PROVE  (s \o t)[i] < (s \o t)[j]
  <2>1. CASE j <= Len(s)
    BY <1>1, <1>4, <1>6, <2>1
  <2>2. CASE i <= Len(s) /\ ~(j <= Len(s))
    <3>1. \A a \in 1 .. n : \A b \in n + 1 .. n + k : a < b
      OBVIOUS
    <3> QED
      BY <1>5, <2>2, <3>1
  <2>3. CASE ~(i <= Len(s)) /\ ~(j <= Len(s))
    <3>1. i - Len(s) \in Nat /\ j - Len(s) \in Nat /\ i - Len(s) < j - Len(s)
      BY <1>1, <1>6, <2>3
    <3>2. \A a, b \in Nat : a < b => n + a < n + b
      OBVIOUS
    <3> QED
      BY <1>4, <2>3, <3>1, <3>2
  <2> QED
    BY <1>1, <1>6, <2>1, <2>2, <2>3
<1>7. Len(s \o t) = Len(s) + k
  BY <1>2, <1>3
<1> QED
  BY <1>3, <1>5, <1>6, <1>7, Zenon DEF Ordered, t

\* Bytes that are lost on the way do not disturb the order of the others.
LEMMA OrderedCut ==
    ASSUME NEW s \in Seq(Nat), NEW t \in Seq(Nat), NEW u \in Seq(Nat), NEW n,
           Ordered((s \o t) \o u, n)
    PROVE  Ordered(s \o u, n)
<1> DEFINE all == (s \o t) \o u
           cut == s \o u
<1>1. Len(s) \in Nat /\ Len(t) \in Nat /\ Len(u) \in Nat
  BY LenProperties
<1>2. /\ s \o t \in Seq(Nat) /\ Len(s \o t) = Len(s) + Len(t)
      /\ \A i \in 1 .. Len(s) + Len(t) :
            (s \o t)[i] = IF i <= Len(s) THEN s[i] ELSE t[i - Len(s)]
  BY ConcatProperties
<1>3. /\ all \in Seq(Nat) /\ Len(all) = Len(s \o t) + Len(u)
      /\ \A i \in 1 .. Len(s \o t) + Len(u) :
            all[i] = IF i <= Len(s \o t) THEN (s \o t)[i] ELSE u[i - Len(s \o t)]
  BY <1>2, ConcatProperties
<1>4. /\ cut \in Seq(Nat) /\ Len(cut) = Len(s) + Len(u)
      /\ \A i \in 1 .. Len(s) + Len(u) :
            cut[i] = IF i <= Len(s) THEN s[i] ELSE u[i - Len(s)]
  BY ConcatProperties
<1>0. /\ Len(s \o t) = Len(s) + Len(t) /\ Len(all) = Len(s) + Len(t) + Len(u)
      /\ Len(cut) = Len(s) + Len(u)
  BY <1>2, <1>3, <1>4
<1> DEFINE at(i) == IF i <= Len(s) THEN i ELSE i + Len(t)
<1> HIDE DEF all, cut
<1>5. ASSUME NEW i \in 1 .. Len(cut)
      PROVE  at(i) \in 1 .. Len(all) /\ cut[i] = all[at(i)]
  <2>1. CASE i <= Len(s)
    <3>1. at(i) = i /\ i \in 1 .. Len(all) /\ i <= Len(s \o t) /\ i \in 1 .. Len(s) + Len(t)
      BY <1>0, <1>1, <2>1
    <3>2. all[i] = s[i] /\ cut[i] = s[i]
      BY <1>2, <1>3, <1>4, <2>1, <3>1
    <3> QED
      BY <3>1, <3>2
  <2>2. CASE ~(i <= Len(s))
    <3>1. /\ at(i) = i + Len(t) /\ i + Len(t) \in 1 .. Len(all)
          /\ ~(i + Len(t) <= Len(s \o t))
          /\ (i + Len(t)) - Len(s \o t) = i - Len(s)
      BY <1>0, <1>1, <2>2
    <3>2. all[i + Len(t)] = u[i - Len(s)] /\ cut[i] = u[i - Len(s)]
      BY <1>3, <1>4, <2>2, <3>1
    <3> QED
      BY <3>1, <3>2
  <2> QED
    BY <2>1, <2>2
<1>6. \A i, j \in 1 .. Len(cut) : i < j => at(i) < at(j)
  BY <1>1, <1>4
<1> HIDE DEF at
<1>7. Ordered(all, n)
  BY DEF all
<1> QED
  BY <1>4, <1>5, <1>6, <1>7 DEF Ordered, cut

=============================================================================
