---------------------------- MODULE BufferProofs ----------------------------
(***************************************************************************)
(* Proofs about Buffer, for any initial size, any size of the array on the *)
(* stack and messages of any length.                                       *)
(***************************************************************************)
EXTENDS Buffer, BufferOpsProofs

\* Whatever is called on it, the buffer's indices stay inside its vector and
\* the vector inside its capacity.
THEOREM TypeCorrect == Spec => []TypeOK
<1>1. Init => TypeOK
  BY BufferAssumption, EmptyBufferType DEF BufferAssumption, Init, TypeOK
<1>2. TypeOK /\ [Next]_vars => TypeOK'
  <2> SUFFICES ASSUME TypeOK, [Next]_vars
               PROVE  TypeOK'
    OBVIOUS
  <2> USE DEF TypeOK
  <2>0. /\ offered \in Nat
        /\ Readable(buffer) \in Seq(Nat)
        /\ Len(Readable(buffer)) = ReadableSize(buffer)
        /\ ReadableSize(buffer) \in Nat
        /\ \A n \in Nat : Fresh(n) \in Seq(Nat)
    <3>1. ASSUME NEW n \in Nat
          PROVE  Fresh(n) \in Seq(Nat)
      BY BufferAssumption DEF BufferAssumption, Fresh
    <3> QED
      BY <3>1, ReadableType, BufferFacts, BufferAssumption DEF BufferAssumption
  <2>1. ASSUME NEW n \in 0 .. MaxPush, PushMessage(n)
        PROVE  TypeOK'
    BY <2>0, <2>1, PushType DEF PushMessage
  <2>2. ASSUME NEW n \in 0 .. MaxBytes, ReadFromKernel(n)
        PROVE  TypeOK'
    BY <2>0, <2>2, ReceivedType DEF ReadFromKernel
  <2>3. ASSUME NEW n \in 1 .. MaxBytes, WriteIntoKernel(n)
        PROVE  TypeOK'
    <3>1. IsBuffer(buffer')
      BY <2>0, <2>3, ConsumedType DEF WriteIntoKernel
    <3>2. n \in Nat /\ n <= Len(Readable(buffer))
      BY <2>0, <2>3 DEF WriteIntoKernel
    <3>3. SubSeq(Readable(buffer), 1, n) \in Seq(Nat)
      BY <2>0, <3>2, Prefix
    <3> QED
      BY <2>3, <3>1, <3>3, ConcatProperties DEF WriteIntoKernel
  <2>4. CASE GetAllReadable
    <3>1. IsBuffer(buffer')
      BY <2>0, <2>4, ConsumedType DEF GetAllReadable
    <3> QED
      BY <2>0, <2>4, <3>1, ConcatProperties DEF GetAllReadable
  <2>5. CASE GetUntilCRLF
    <3>1. PICK k \in Pairs :
             /\ taken' = taken \o SubSeq(Readable(buffer), 1, k)
             /\ buffer' = Consumed(buffer, k)
             /\ UNCHANGED offered
      BY <2>5 DEF GetUntilCRLF
    <3>2. k \in 0 .. ReadableSize(buffer)
      BY <2>0, <3>1 DEF Pairs
    <3>3. IsBuffer(buffer')
      BY <3>1, <3>2, ConsumedType
    <3>4. k \in Nat /\ k <= Len(Readable(buffer))
      BY <2>0, <3>2
    <3>5. SubSeq(Readable(buffer), 1, k) \in Seq(Nat)
      BY <2>0, <3>4, Prefix
    <3> QED
      BY <3>1, <3>3, <3>5, ConcatProperties
  <2>6. CASE MoveAway
    <3>1. IsBuffer(buffer')
      BY <2>6, EmptyBufferType DEF MoveAway
    <3> QED
      BY <2>0, <2>6, <3>1, ConcatProperties DEF MoveAway
  <2>7. CASE UNCHANGED vars
    BY <2>7 DEF vars
  <2> QED
    BY <2>1, <2>2, <2>3, <2>4, <2>5, <2>6, <2>7 DEF Next
<1> QED
  BY <1>1, <1>2, PTL DEF Spec

-----------------------------------------------------------------------------
(***************************************************************************)
(* The Buffer as a queue of bytes.                                         *)
(***************************************************************************)
LEMMA BufferTypes ==
    ASSUME TypeOK
    PROVE  /\ IsBuffer(buffer) /\ offered \in Nat /\ taken \in Seq(Nat)
           /\ Readable(buffer) \in Seq(Nat)
           /\ Len(Readable(buffer)) = ReadableSize(buffer)
           /\ ReadableSize(buffer) \in Nat
           /\ \A n \in Nat : /\ Fresh(n) = Following(offered, n)
                             /\ Fresh(n) \in Seq(Nat) /\ Len(Fresh(n)) = n
<1>1. IsBuffer(buffer) /\ offered \in Nat /\ taken \in Seq(Nat)
  BY BufferAssumption DEF BufferAssumption, TypeOK
<1>2. ASSUME NEW n \in Nat
      PROVE  /\ Fresh(n) = Following(offered, n)
             /\ Fresh(n) \in Seq(Nat) /\ Len(Fresh(n)) = n
  <2>1. Fresh(n) = Following(offered, n)
    BY DEF Fresh, Following
  <2> QED
    BY <1>1, <2>1, FollowingType
<1> QED
  BY <1>1, <1>2, ReadableType, BufferFacts

\* Some first part of n bytes that are offered is kept.
KeepsSome(n) ==
    \E k \in 0 .. n : Readable(buffer') = Readable(buffer) \o Following(offered, k)

\* It is all of them, as long as nothing was taken since the indices last met.
LEMMA OfferKeeps ==
    ASSUME TypeOK, NEW n \in Nat, PushMessage(n) \/ ReadFromKernel(n)
    PROVE  /\ KeepsSome(n)
           /\ buffer.readIndex = 0 => Readable(buffer') = Readable(buffer) \o Fresh(n)
<1>1. /\ IsBuffer(buffer) /\ offered \in Nat /\ Readable(buffer) \in Seq(Nat)
      /\ Fresh(n) = Following(offered, n) /\ Fresh(n) \in Seq(Nat) /\ Len(Fresh(n)) = n
  BY BufferTypes
<1>2. CASE PushMessage(n)
  <2>1. Readable(buffer') = IF MovesDown(buffer, n) THEN Readable(buffer)
                                                    ELSE Readable(buffer) \o Fresh(n)
    BY <1>1, <1>2, ReadablePush DEF PushMessage
  <2>2. CASE MovesDown(buffer, n)
    <3>1. Following(offered, 0) = <<>>
      BY DEF Following
    <3>2. Readable(buffer') = Readable(buffer) \o Following(offered, 0)
      BY <1>1, <2>1, <2>2, <3>1, ConcatEmptySeq
    <3>3. 0 \in 0 .. n /\ buffer.readIndex # 0
      BY <1>1, <2>2, NoRoomInFront
    <3> QED
      BY <3>2, <3>3 DEF KeepsSome
  <2>3. CASE ~MovesDown(buffer, n)
    <3>1. n \in 0 .. n
      OBVIOUS
    <3> QED
      BY <1>1, <2>1, <2>3, <3>1 DEF KeepsSome
  <2> QED
    BY <2>2, <2>3
<1>3. CASE ReadFromKernel(n)
  <2>1. buffer' = Received(buffer, Fresh(n))
    BY <1>3 DEF ReadFromKernel
  <2>2. PICK k \in 0 .. Len(Fresh(n)) :
           /\ Readable(buffer') = Readable(buffer) \o SubSeq(Fresh(n), 1, k)
           /\ buffer.readIndex = 0 => k = Len(Fresh(n))
    BY <1>1, <2>1, ReadableReceived
  <2>3. k \in 0 .. n
    BY <1>1, <2>2
  <2>4. SubSeq(Fresh(n), 1, k) = Following(offered, k)
    BY <1>1, <2>3, FollowingPrefix
  <2> QED
    BY <1>1, <2>2, <2>3, <2>4 DEF KeepsSome
<1> QED
  BY <1>2, <1>3

\* What is consumed goes to whoever takes it.
LEMMA TakeStep ==
    ASSUME TypeOK, NEW n \in 0 .. ReadableSize(buffer),
           taken' = taken \o SubSeq(Readable(buffer), 1, n),
           Readable(buffer') = SubSeq(Readable(buffer), n + 1, Len(Readable(buffer))),
           UNCHANGED offered
    PROVE  [BQ!Next]_(BQ!vars)
<1>1. /\ taken \in Seq(Nat) /\ Readable(buffer) \in Seq(Nat)
      /\ Len(Readable(buffer)) = ReadableSize(buffer) /\ ReadableSize(buffer) \in Nat
  BY BufferTypes
<1>2. CASE n = 0
  <2>1. SubSeq(Readable(buffer), 1, 0) = <<>>
    BY SubSeqEmpty
  <2>2. taken' = taken
    BY <1>1, <1>2, <2>1, ConcatEmptySeq
  <2>3. SubSeq(Readable(buffer), 1, Len(Readable(buffer))) = Readable(buffer)
    BY <1>1, SubSeqFull
  <2>4. Readable(buffer') = Readable(buffer)
    BY <1>2, <2>3
  <2> QED
    BY <2>2, <2>4 DEF BQ!vars
<1>3. CASE n # 0
  <2>1. n \in 1 .. Len(Readable(buffer))
    BY <1>1, <1>3
  <2> QED
    BY <2>1 DEF BQ!Next, BQ!Take
<1> QED
  BY <1>2, <1>3

\* Whatever is called on it, and however much of an offer it loses, a Buffer is a
\* queue of bytes: what comes out went in before, in that order, each at most once.
THEOREM Refinement == Spec => ImplementsByteQueue
<1>1. Init => BQ!Init
  BY BufferAssumption, ReadableEmptyBuffer DEF BufferAssumption, Init, BQ!Init
<1>2. TypeOK /\ [Next]_vars => [BQ!Next]_(BQ!vars)
  <2> SUFFICES ASSUME TypeOK, [Next]_vars
               PROVE  [BQ!Next]_(BQ!vars)
    OBVIOUS
  <2>0. /\ IsBuffer(buffer) /\ offered \in Nat /\ Readable(buffer) \in Seq(Nat)
        /\ Len(Readable(buffer)) = ReadableSize(buffer) /\ ReadableSize(buffer) \in Nat
        /\ taken \in Seq(Nat)
    BY BufferTypes
  <2>1. ASSUME NEW n \in Nat, PushMessage(n) \/ ReadFromKernel(n)
        PROVE  [BQ!Next]_(BQ!vars)
    <3>1. offered' = offered + n /\ taken' = taken
      BY <2>1 DEF PushMessage, ReadFromKernel
    <3>2. PICK k \in 0 .. n :
             Readable(buffer') = Readable(buffer) \o Following(offered, k)
      BY <2>1, OfferKeeps DEF KeepsSome
    <3>3. CASE n = 0
      <4>1. Following(offered, k) = <<>>
        BY <3>2, <3>3 DEF Following
      <4>2. Readable(buffer') = Readable(buffer) /\ offered' = offered
        BY <2>0, <3>1, <3>2, <3>3, <4>1, ConcatEmptySeq
      <4> QED
        BY <3>1, <4>2 DEF BQ!vars
    <3>4. CASE n # 0
      <4>1. offered' \in Nat /\ offered' > offered /\ k \in 0 .. offered' - offered
        BY <2>0, <3>1, <3>2, <3>4
      <4>2. Readable(buffer') = Readable(buffer) \o [i \in 1 .. k |-> offered + i]
        BY <3>2 DEF Following
      <4>3. BQ!Offer
        BY <3>1, <4>1, <4>2 DEF BQ!Offer
      <4> QED
        BY <4>3 DEF BQ!Next
    <3> QED
      BY <3>3, <3>4
  <2>2. ASSUME NEW n \in 1 .. MaxBytes, WriteIntoKernel(n)
        PROVE  [BQ!Next]_(BQ!vars)
    <3>1. n \in 0 .. ReadableSize(buffer)
      BY <2>0, <2>2 DEF WriteIntoKernel
    <3>2. Readable(buffer') = SubSeq(Readable(buffer), n + 1, Len(Readable(buffer)))
      BY <2>0, <2>2, <3>1, ReadableConsumed DEF WriteIntoKernel
    <3> QED
      BY <2>2, <3>1, <3>2, TakeStep DEF WriteIntoKernel
  <2>3. CASE GetAllReadable
    <3>1. ReadableSize(buffer) \in 0 .. ReadableSize(buffer)
      BY <2>0
    <3>2. SubSeq(Readable(buffer), 1, ReadableSize(buffer)) = Readable(buffer)
      BY <2>0, SubSeqFull
    <3>3. Readable(buffer') =
             SubSeq(Readable(buffer), ReadableSize(buffer) + 1, Len(Readable(buffer)))
      BY <2>0, <2>3, <3>1, ReadableConsumed DEF GetAllReadable
    <3> QED
      BY <2>3, <3>1, <3>2, <3>3, TakeStep DEF GetAllReadable
  <2>4. CASE GetUntilCRLF
    <3>1. PICK k \in Pairs :
             /\ taken' = taken \o SubSeq(Readable(buffer), 1, k)
             /\ buffer' = Consumed(buffer, k)
             /\ UNCHANGED offered
      BY <2>4 DEF GetUntilCRLF
    <3>2. k \in 0 .. ReadableSize(buffer)
      BY <2>0, <3>1 DEF Pairs
    <3>3. Readable(buffer') = SubSeq(Readable(buffer), k + 1, Len(Readable(buffer)))
      BY <2>0, <3>1, <3>2, ReadableConsumed
    <3> QED
      BY <3>1, <3>2, <3>3, TakeStep
  <2>5. CASE MoveAway
    <3>1. ReadableSize(buffer) \in 0 .. ReadableSize(buffer)
      BY <2>0
    <3>2. SubSeq(Readable(buffer), 1, ReadableSize(buffer)) = Readable(buffer)
      BY <2>0, SubSeqFull
    <3>3. SubSeq(Readable(buffer), ReadableSize(buffer) + 1, Len(Readable(buffer))) = <<>>
      BY <2>0, SubSeqEmpty
    <3>4. Readable(buffer') = <<>>
      BY <2>5, ReadableEmptyBuffer DEF MoveAway
    <3> QED
      BY <2>5, <3>1, <3>2, <3>3, <3>4, TakeStep DEF MoveAway
  <2>6. CASE UNCHANGED vars
    BY <2>6 DEF vars, BQ!vars
  <2>7. (0 .. MaxPush) \subseteq Nat /\ (0 .. MaxBytes) \subseteq Nat
    BY BufferAssumption DEF BufferAssumption
  <2> QED
    BY <2>1, <2>2, <2>3, <2>4, <2>5, <2>6, <2>7 DEF Next
<1> QED
  BY <1>1, <1>2, TypeCorrect, PTL DEF Spec, ImplementsByteQueue, BQ!Spec

\* A Buffer that is always emptied at once keeps every byte that it is offered.
THEOREM WholeReadsLoseNothingHolds == Spec => WholeReadsLoseNothing
<1>1. ASSUME TypeOK, [Next]_vars, buffer.readIndex = 0, offered' # offered
      PROVE  Readable(buffer') = Readable(buffer) \o Fresh(offered' - offered)
  <2>1. \E n \in Nat : PushMessage(n) \/ ReadFromKernel(n)
    <3>1. (0 .. MaxPush) \subseteq Nat /\ (0 .. MaxBytes) \subseteq Nat
      BY BufferAssumption DEF BufferAssumption
    <3> QED
      BY <1>1, <3>1 DEF Next, WriteIntoKernel, GetAllReadable, GetUntilCRLF, MoveAway, vars
  <2>2. PICK n \in Nat : PushMessage(n) \/ ReadFromKernel(n)
    BY <2>1
  <2>3. offered' = offered + n /\ offered \in Nat
    BY <1>1, <2>2, BufferTypes DEF PushMessage, ReadFromKernel
  <2>4. offered' - offered = n
    BY <2>3
  <2> QED
    BY <1>1, <2>2, <2>4, OfferKeeps
<1>2. TypeOK /\ [Next]_vars =>
         [buffer.readIndex = 0 /\ offered' # offered
             => Readable(buffer') = Readable(buffer) \o Fresh(offered' - offered)]_vars
  BY <1>1
<1> QED
  BY <1>2, TypeCorrect, PTL DEF Spec, WholeReadsLoseNothing

-----------------------------------------------------------------------------
\* What being a queue of bytes means for the stream.
StreamOrdered == Ordered(taken \o Readable(buffer), offered)

LEMMA QueueKeepsOrder ==
    ASSUME TypeOK, StreamOrdered, [BQ!Next]_(BQ!vars)
    PROVE  StreamOrdered'
<1> DEFINE R == Readable(buffer)
<1>0. /\ taken \in Seq(Nat) /\ R \in Seq(Nat) /\ Len(R) \in Nat /\ offered \in Nat
      /\ taken \o R \in Seq(Nat)
  BY BufferTypes, ConcatProperties
<1>1. CASE BQ!Offer
  <2>1. PICK k \in 0 .. offered' - offered :
           Readable(buffer') = R \o [i \in 1 .. k |-> offered + i]
    BY <1>1 DEF BQ!Offer
  <2>2. taken' = taken /\ offered' \in Nat
    BY <1>1 DEF BQ!Offer
  <2>3. k \in Nat /\ offered + k \in Nat /\ offered + k <= offered'
    <3>1. \A a, b \in Nat : \A i \in 0 .. b - a : i \in Nat /\ a + i \in Nat /\ a + i <= b
      OBVIOUS
    <3> QED
      BY <1>0, <2>1, <2>2, <3>1
  <2>4. Ordered((taken \o R) \o Following(offered, k), offered + k)
    BY <1>0, <2>3, OrderedFollowing DEF StreamOrdered
  <2>5. Following(offered, k) \in Seq(Nat)
    BY <1>0, <2>3, FollowingType
  <2>6. (taken \o R) \o Following(offered, k) = taken \o Readable(buffer')
    BY <1>0, <2>1, <2>5, Associative DEF Following
  <2> QED
    BY <2>2, <2>3, <2>4, <2>6, OrderedMore DEF StreamOrdered
<1>2. ASSUME NEW n \in 1 .. Len(R), BQ!Take(n)
      PROVE  StreamOrdered'
  <2>1. /\ taken' = taken \o SubSeq(R, 1, n) /\ offered' = offered
        /\ Readable(buffer') = SubSeq(R, n + 1, Len(R))
    BY <1>2 DEF BQ!Take
  <2>2. n \in Nat /\ n <= Len(R) /\ n + 1 \in Nat \ {0} /\ n + 1 <= Len(R) + 1
    BY <1>0
  <2>3. SubSeq(R, 1, n) \in Seq(Nat) /\ SubSeq(R, n + 1, Len(R)) \in Seq(Nat)
    BY <1>0, <2>2, Prefix, Slice
  <2>4. SubSeq(R, 1, n) \o SubSeq(R, n + 1, Len(R)) = R
    <3>1. 1 \in 1 .. Len(R) + 1 /\ n \in 1 - 1 .. Len(R) /\ Len(R) \in n .. Len(R)
      BY <1>0
    <3>2. SubSeq(R, 1, n) \o SubSeq(R, n + 1, Len(R)) = SubSeq(R, 1, Len(R))
      BY <1>0, <3>1, ConcatAdjacentSubSeq
    <3> QED
      BY <1>0, <3>2, SubSeqFull
  <2>5. (taken \o SubSeq(R, 1, n)) \o SubSeq(R, n + 1, Len(R)) = taken \o R
    <3>1. (taken \o SubSeq(R, 1, n)) \o SubSeq(R, n + 1, Len(R))
             = taken \o (SubSeq(R, 1, n) \o SubSeq(R, n + 1, Len(R)))
      <4> HIDE DEF R
      <4> QED
        BY <1>0, <2>3, Associative
    <3> QED
      BY <2>4, <3>1
  <2> QED
    BY <2>1, <2>5 DEF StreamOrdered
<1>3. CASE UNCHANGED BQ!vars
  BY <1>3 DEF BQ!vars, StreamOrdered
<1> QED
  BY <1>1, <1>2, <1>3 DEF BQ!Next

\* No byte that comes out of a Buffer is made up, repeated or overtaken.
THEOREM InOrderHolds == Spec => []BQ!InOrder
<1>1. Init => StreamOrdered
  <2>1. <<>> \o <<>> = <<>>
    BY EmptySeq, ConcatEmptySeq
  <2> QED
    BY <2>1, BufferAssumption, ReadableEmptyBuffer, OrderedEmpty
       DEF BufferAssumption, Init, StreamOrdered
<1>2. StreamOrdered => BQ!InOrder
  BY DEF StreamOrdered, Ordered, BQ!InOrder
<1>3. ImplementsByteQueue => [][BQ!Next]_(BQ!vars)
  BY PTL DEF ImplementsByteQueue, BQ!Spec
<1>4. TypeOK /\ StreamOrdered /\ [BQ!Next]_(BQ!vars) => StreamOrdered'
  BY QueueKeepsOrder
<1>5. Spec => Init
  BY DEF Spec
<1> QED
  BY <1>1, <1>2, <1>3, <1>4, <1>5, TypeCorrect, Refinement, PTL

=============================================================================
