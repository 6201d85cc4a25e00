------------------------ MODULE TcpConnectionProofs ------------------------
(***************************************************************************)
(* Proofs about TcpConnection, for any threads, calls, sizes of messages   *)
(* and of the kernel's send buffer.                                        *)
(***************************************************************************)
EXTENDS TcpConnection, BufferOpsProofs

(***************************************************************************)
(* The types.  What the peer has, what the kernel holds and what waits in  *)
(* the out-buffer is one stream; that it is ordered bounds its bytes, so   *)
(* this belongs to the inductive invariant of the types as well.           *)
(***************************************************************************)
Stream == (received \o snd) \o Readable(outBuffer)

StreamInv ==
    /\ IsBuffer(outBuffer)
    /\ offered \in Nat
    /\ snd \in Seq(Nat) /\ Len(snd) <= SndSize
    /\ received \in Seq(Nat)
    /\ Ordered(Stream, offered)

FlagsType ==
    /\ currState \in {"Connected", "Disconnecting", "Disconnected"}
    /\ isReading \in BOOLEAN /\ isWriting \in BOOLEAN
    /\ revents \subseteq {"in", "hup", "out", "err"}
    /\ registered \in BOOLEAN /\ interest \subseteq {"in", "out"}
    /\ inMap \in BOOLEAN

LoopType ==
    /\ loopPc \in LoopPcs
    /\ frames \in Seq({"message", "closing"})
    /\ closings \in 0 .. 2

TasksType ==
    /\ queue \in Seq(Tasks) /\ batch \in 0 .. Len(queue)
    /\ userPc \in [Users -> {<<>>} \cup ({"store", "queue"} \X Tasks)]
    /\ calls \in 0 .. MaxCalls

NetType ==
    /\ rcv \in 0 .. MaxRcv
    /\ peerFin \in BOOLEAN /\ finSent \in BOOLEAN
    /\ reset \in BOOLEAN /\ sockErr \in BOOLEAN

TypeInv == StreamInv /\ FlagsType /\ LoopType /\ TasksType /\ NetType

-----------------------------------------------------------------------------
(* The bytes. *)

\* write() takes no more than there is, and no more than fits.
LEMMA SendableFits ==
    ASSUME NEW b, IsBuffer(b), snd \in Seq(Nat), Len(snd) <= SndSize
    PROVE  /\ Sendable(b) \in 0 .. ReadableSize(b)
           /\ Len(snd) + Sendable(b) <= SndSize
<1>1. /\ ReadableSize(b) \in Nat /\ Len(snd) \in Nat /\ SndSize \in Nat
  BY ConnectionAssumption, BufferFacts, LenProperties
<1> QED
  BY <1>1 DEF Sendable

\* What write() takes moves from the buffer into the kernel.
LEMMA WriteMovesBytes ==
    ASSUME NEW b, IsBuffer(b), snd \in Seq(Nat), Len(snd) <= SndSize,
           WriteIntoKernel(b)
    PROVE  /\ IsBuffer(outBuffer')
           /\ snd' \in Seq(Nat) /\ Len(snd') <= SndSize
           /\ snd' \o Readable(outBuffer') = snd \o Readable(b)
<1> DEFINE k == Sendable(b)
           R == Readable(b)
           taken == SubSeq(R, 1, k)
<1>1. /\ k \in 0 .. ReadableSize(b) /\ Len(snd) + k <= SndSize
      /\ Len(snd) \in Nat /\ SndSize \in Nat
      /\ R \in Seq(Nat) /\ Len(R) = ReadableSize(b) /\ ReadableSize(b) \in Nat
  BY SendableFits, BufferFacts, ReadableType, LenProperties, ConnectionAssumption
<1>2. outBuffer' = Written(b) /\ snd' = snd \o taken
  BY DEF WriteIntoKernel
<1>3. IsBuffer(Written(b)) /\ Readable(Written(b)) \in Seq(Nat)
  BY <1>1, ConsumedType, ReadableType DEF Written
<1>4. /\ taken \in Seq(Nat) /\ Len(taken) = k
      /\ taken \o Readable(Written(b)) = R
  <2>1. CASE k = 0
    <3>1. taken = <<>>
      BY <1>1, <2>1, SubSeqEmpty
    <3>2. Written(b) = b
      BY <2>1 DEF Written
    <3> QED
      BY <1>1, <2>1, <3>1, <3>2, ConcatEmptySeq, EmptySeq
  <2>2. CASE k # 0
    <3>1. Written(b) = Consumed(b, k)
      BY <2>2 DEF Written
    <3> HIDE DEF k
    <3> QED
      BY <1>1, <3>1, ReadableConsumed
  <2> QED
    BY <2>1, <2>2
<1> HIDE DEF k, R, taken
<1>5. snd' \in Seq(Nat) /\ Len(snd') = Len(snd) + Len(taken)
  BY <1>2, <1>4, ConcatProperties
<1>6. Len(snd') <= SndSize
  BY <1>1, <1>4, <1>5
<1>7. (snd \o taken) \o Readable(Written(b)) = snd \o R
  <2>1. \A s, t, u \in Seq(Nat) : (s \o t) \o u = s \o (t \o u)
    BY Associative
  <2>2. (snd \o taken) \o Readable(Written(b)) = snd \o (taken \o Readable(Written(b)))
    BY <1>3, <1>4, <2>1
  <2> QED
    BY <1>4, <2>2
<1> QED
  BY <1>2, <1>3, <1>5, <1>6, <1>7 DEF R

\* A write keeps the order of the stream.
LEMMA WriteKeepsStream ==
    ASSUME NEW b, IsBuffer(b), snd \in Seq(Nat), Len(snd) <= SndSize,
           received \in Seq(Nat), received' = received, offered' \in Nat,
           Ordered((received \o snd) \o Readable(b), offered'),
           WriteIntoKernel(b)
    PROVE  StreamInv'
<1>1. /\ IsBuffer(outBuffer')
      /\ snd' \in Seq(Nat) /\ Len(snd') <= SndSize
      /\ snd' \o Readable(outBuffer') = snd \o Readable(b)
  BY WriteMovesBytes
<1>2. Readable(outBuffer') \in Seq(Nat) /\ Readable(b) \in Seq(Nat)
  BY <1>1, ReadableType
<1>3. (received \o snd) \o Readable(b) = received \o (snd \o Readable(b))
  BY <1>2, Associative
<1>4. (received \o snd') \o Readable(outBuffer') = received \o (snd' \o Readable(outBuffer'))
  <2>1. \A s, t, u \in Seq(Nat) : (s \o t) \o u = s \o (t \o u)
    BY Associative
  <2> QED
    BY <1>1, <1>2, <2>1
<1>5. Stream' = (received \o snd) \o Readable(b)
  BY <1>1, <1>3, <1>4 DEF Stream, Readable
<1> QED
  BY <1>1, <1>5 DEF StreamInv

\* send() takes the next bytes of the stream, or loses them, but puts none
\* before another.
LEMMA SendKeepsStream ==
    ASSUME StreamInv, NEW n \in Nat, DoSend(n), received' = received
    PROVE  StreamInv'
<1> DEFINE new == Following(offered, n)
           pushed == Push(outBuffer, new)
<1>0. /\ IsBuffer(outBuffer) /\ offered \in Nat /\ offered + n \in Nat
      /\ snd \in Seq(Nat) /\ Len(snd) <= SndSize /\ received \in Seq(Nat)
      /\ Ordered(Stream, offered)
  BY DEF StreamInv
<1>1. offered' = offered + n /\ WriteIntoKernel(pushed)
  BY DEF DoSend, Following
<1>2. new \in Seq(Nat)
  BY <1>0, FollowingType
<1> HIDE DEF new
<1>3. IsBuffer(pushed) /\ Readable(outBuffer) \in Seq(Nat) /\ received \o snd \in Seq(Nat)
  BY <1>0, <1>2, PushType, ReadableType, ConcatProperties
<1>4. Ordered((received \o snd) \o Readable(pushed), offered + n)
  <2>1. CASE MovesDown(outBuffer, Len(new))
    <3>1. Readable(pushed) = Readable(outBuffer)
      BY <1>0, <1>2, <2>1, ReadablePush
    <3>2. offered <= offered + n
      BY <1>0
    <3> QED
      BY <1>0, <3>1, <3>2, OrderedMore DEF Stream
  <2>2. CASE ~MovesDown(outBuffer, Len(new))
    <3>1. Readable(pushed) = Readable(outBuffer) \o new
      BY <1>0, <1>2, <2>2, ReadablePush
    <3>2. (received \o snd) \o (Readable(outBuffer) \o new) = Stream \o new
      BY <1>2, <1>3, Associative DEF Stream
    <3>3. Ordered(Stream \o new, offered + n)
      BY <1>0, OrderedFollowing DEF new
    <3> QED
      BY <3>1, <3>2, <3>3
  <2> QED
    BY <2>1, <2>2
<1> HIDE DEF pushed
<1> QED
  BY <1>0, <1>1, <1>3, <1>4, WriteKeepsStream

LEMMA ReceiveKeepsStream ==
    ASSUME StreamInv, PeerReceives
    PROVE  StreamInv'
<1>1. /\ snd # <<>> /\ received' = Append(received, Head(snd)) /\ snd' = Tail(snd)
      /\ outBuffer' = outBuffer /\ offered' = offered
  BY DEF PeerReceives, Local
<1>2. snd \in Seq(Nat) /\ received \in Seq(Nat) /\ Len(snd) <= SndSize /\ Len(snd) \in Nat
      /\ SndSize \in Nat
  BY LenProperties, ConnectionAssumption DEF StreamInv
<1>3. /\ Head(snd) \in Nat /\ Tail(snd) \in Seq(Nat) /\ Len(Tail(snd)) = Len(snd) - 1
      /\ Len(Tail(snd)) \in Nat /\ snd = <<Head(snd)>> \o Tail(snd)
  BY <1>1, <1>2, HeadTailProperties, LenProperties
<1>4. received' = received \o <<Head(snd)>> /\ <<Head(snd)>> \in Seq(Nat)
  BY <1>1, <1>2, <1>3, AppendIsConcat
<1>5. received' \o snd' = received \o snd
  <2>1. (received \o <<Head(snd)>>) \o Tail(snd) = received \o (<<Head(snd)>> \o Tail(snd))
    BY <1>2, <1>3, <1>4, Associative
  <2> QED
    BY <1>1, <1>3, <1>4, <2>1
<1>6. Stream' = Stream
  BY <1>1, <1>5 DEF Stream, Readable
<1>7. received' \in Seq(Nat) /\ snd' \in Seq(Nat) /\ Len(snd') <= SndSize
  <2>1. received' \in Seq(Nat)
    BY <1>2, <1>4, ConcatProperties
  <2> QED
    BY <1>1, <1>2, <1>3, <2>1
<1> QED
  BY <1>1, <1>6, <1>7 DEF StreamInv

LEMMA ResetKeepsStream ==
    ASSUME StreamInv, PeerResets
    PROVE  StreamInv'
<1>1. /\ snd' = <<>> /\ received' = received /\ outBuffer' = outBuffer
      /\ offered' = offered
  BY DEF PeerResets, Local
<1>2. /\ received \in Seq(Nat) /\ snd \in Seq(Nat) /\ Readable(outBuffer) \in Seq(Nat)
      /\ Ordered((received \o snd) \o Readable(outBuffer), offered)
  BY ReadableType DEF StreamInv, Stream
<1>3. Ordered(received \o Readable(outBuffer), offered)
  BY <1>2, OrderedCut
<1>4. received \o <<>> = received
  BY <1>2, ConcatEmptySeq
<1>5. Ordered(Stream', offered')
  BY <1>1, <1>3, <1>4 DEF Stream, Readable
<1>6. <<>> \in Seq(Nat) /\ Len(<<>>) = 0 /\ SndSize \in Nat
  BY EmptySeq, ConnectionAssumption
<1> QED
  BY <1>1, <1>5, <1>6 DEF StreamInv

LEMMA StreamSame ==
    ASSUME StreamInv, UNCHANGED <<outBuffer, snd, offered, received>>
    PROVE  StreamInv'
  BY DEF StreamInv, Stream, Readable, IsBuffer

LEMMA SendTask ==
    ASSUME NEW t \in Tasks
    PROVE  t.op \in Ops /\ (t.op = "send" => t.size \in Sizes)
<1>1. CASE t \in [op : {"send"}, size : Sizes]
  BY <1>1 DEF Ops
<1>2. CASE t \in [op : {"shutdown", "force"}]
  BY <1>2 DEF Ops
<1> QED
  BY <1>1, <1>2 DEF Tasks

\* The first task of a batch.
LEMMA NextTask ==
    ASSUME TasksType, batch > 0
    PROVE  /\ Head(queue) \in Tasks /\ Tail(queue) \in Seq(Tasks)
           /\ Len(Tail(queue)) = Len(queue) - 1
           /\ batch - 1 \in 0 .. Len(queue) - 1
           /\ queue # <<>>
<1>1. queue \in Seq(Tasks) /\ batch \in 0 .. Len(queue) /\ Len(queue) \in Nat
  BY LenProperties DEF TasksType
<1>2. queue # <<>>
  BY <1>1, EmptySeq
<1>3. batch - 1 \in 0 .. Len(queue) - 1
  BY <1>1
<1> QED
  BY <1>1, <1>2, <1>3, HeadTailProperties

LEMMA StreamKept ==
    ASSUME StreamInv, TasksType, Next
    PROVE  StreamInv'
<1> Sizes \subseteq Nat
  BY ConnectionAssumption
<1>1. CASE Wait \/ HandleHup \/ HandleRead \/ HandleError \/ BeginTasks \/ EndTasks
  <2>1. UNCHANGED <<outBuffer, snd, offered, received>>
    BY <1>1, Zenon DEF Wait, HandleHup, HandleRead, HandleError, BeginTasks, EndTasks, out
  <2> QED
    BY <2>1, StreamSame
<1>2. CASE HandleWrite
  <2>1. UNCHANGED <<offered, received>>
    BY <1>2 DEF HandleWrite
  <2>2. CASE UNCHANGED out
    BY <2>1, <2>2, StreamSame DEF out
  <2>3. CASE WriteIntoKernel(outBuffer)
    BY <2>1, <2>3, WriteKeepsStream DEF StreamInv, Stream
  <2> QED
    BY <1>2, <2>2, <2>3 DEF HandleWrite
<1>3. CASE RunTask
  <2>1. received' = received /\ batch > 0
    BY <1>3 DEF RunTask
  <2>2. CASE Head(queue).op = "send" /\ DoSend(Head(queue).size)
    <3>1. Head(queue).size \in Nat
      BY <2>1, <2>2, NextTask, SendTask
    <3> QED
      BY <2>1, <2>2, <3>1, SendKeepsStream
  <2>3. CASE UNCHANGED <<out, offered>>
    BY <2>1, <2>3, StreamSame DEF out
  <2> QED
    BY <1>3, <2>2, <2>3 DEF RunTask
<1>4. ASSUME NEW n \in Sizes, CallSend(n)
      PROVE  StreamInv'
  BY <1>4, SendKeepsStream DEF CallSend
<1>5. CASE CallShutdown \/ CallForceClose \/ Return
  <2>1. UNCHANGED <<outBuffer, snd, offered, received>>
    BY <1>5, Zenon DEF CallShutdown, CallForceClose, Return, out
  <2> QED
    BY <2>1, StreamSame
<1>6. ASSUME NEW u \in Users, UserStep(u)
      PROVE  StreamInv'
  <2>1. UNCHANGED <<outBuffer, snd, offered, received>>
    BY <1>6, Zenon DEF UserStep, UserGoesOn, UserLooks, UserStores, UserQueues, out
  <2> QED
    BY <2>1, StreamSame
<1>7. CASE PeerSends \/ PeerFins
  <2>1. UNCHANGED <<outBuffer, snd, offered, received>>
    BY <1>7, Zenon DEF PeerSends, PeerFins, Local
  <2> QED
    BY <2>1, StreamSame
<1> QED
  BY <1>1, <1>2, <1>3, <1>4, <1>5, <1>6, <1>7, ReceiveKeepsStream, ResetKeepsStream
     DEF Next, LoopStep, CallbackStep, PeerStep

-----------------------------------------------------------------------------
(* The rest of the types. *)

LEMMA DoSendTypes ==
    ASSUME FlagsType, sockErr \in BOOLEAN, NEW n, DoSend(n)
    PROVE  /\ isReading' = isReading /\ isWriting' \in BOOLEAN
           /\ registered' \in BOOLEAN /\ interest' \subseteq {"in", "out"}
           /\ sockErr' \in BOOLEAN
  BY DEF DoSend, WriteIntoKernel, UpdateDispatcher, Wanted, FlagsType

LEMMA FlagsKept ==
    ASSUME FlagsType, NetType, Next
    PROVE  FlagsType'
<1>1. CASE Wait
  BY <1>1 DEF Wait, FlagsType, disp, Reported
<1>2. CASE HandleHup
  BY <1>2 DEF HandleHup, DoClose, FlagsType
<1>3. CASE HandleRead
  BY <1>3 DEF HandleRead, DoClose, FlagsType
<1>4. CASE HandleWrite
  BY <1>4 DEF HandleWrite, UpdateDispatcher, Wanted, Left, FlagsType, disp
<1>5. CASE HandleError \/ BeginTasks \/ EndTasks
  BY <1>5 DEF HandleError, BeginTasks, EndTasks, FlagsType, disp
<1>6. CASE RunTask
  <2>1. UNCHANGED <<revents, inMap>>
    BY <1>6 DEF RunTask
  <2>2. CASE DoSend(Head(queue).size) /\ UNCHANGED currState
    BY <2>1, <2>2, DoSendTypes DEF FlagsType, NetType
  <2>3. CASE UNCHANGED <<currState, disp>>
    BY <2>1, <2>3 DEF FlagsType, disp
  <2>4. CASE DoClose(currState, "tasks") /\ UNCHANGED <<registered, interest>>
    BY <2>1, <2>4 DEF DoClose, FlagsType
  <2> QED
    BY <1>6, <2>2, <2>3, <2>4 DEF RunTask
<1>7. ASSUME NEW n \in Sizes, CallSend(n)
      PROVE  FlagsType'
  <2>1. UNCHANGED <<currState, revents, inMap>> /\ DoSend(n)
    BY <1>7 DEF CallSend
  <2> QED
    BY <2>1, DoSendTypes DEF FlagsType, NetType
<1>8. CASE CallShutdown
  BY <1>8 DEF CallShutdown, FlagsType, disp
<1>9. CASE CallForceClose
  BY <1>9 DEF CallForceClose, DoClose, FlagsType
<1>10. CASE Return
  BY <1>10 DEF Return, DoRemove, FlagsType, disp
<1>11. ASSUME NEW u \in Users, UserStep(u)
       PROVE  FlagsType'
  BY <1>11 DEF UserStep, UserGoesOn, UserLooks, UserStores, UserQueues, FlagsType, disp
<1>12. CASE PeerStep
  BY <1>12 DEF PeerStep, PeerReceives, PeerSends, PeerFins, PeerResets, Local, FlagsType, disp
<1> QED
  BY <1>1, <1>2, <1>3, <1>4, <1>5, <1>6, <1>7, <1>8, <1>9, <1>10, <1>11, <1>12
     DEF Next, LoopStep, CallbackStep

\* A callback is entered, or returns.
LEMMA CallbackEntered ==
    ASSUME frames \in Seq({"message", "closing"})
    PROVE  /\ Append(frames, "closing") \in Seq({"message", "closing"})
           /\ Len(Append(frames, "closing")) = Len(frames) + 1
           /\ \A i \in 1 .. Len(frames) : Append(frames, "closing")[i] = frames[i]
           /\ Append(frames, "closing")[Len(frames) + 1] = "closing"
<1>1. "closing" \in {"message", "closing"}
  OBVIOUS
<1> QED
  BY <1>1, AppendProperties

LEMMA CallbackReturns ==
    ASSUME frames \in Seq({"message", "closing"}), frames # <<>>
    PROVE  /\ SubSeq(frames, 1, Len(frames) - 1) \in Seq({"message", "closing"})
           /\ Len(SubSeq(frames, 1, Len(frames) - 1)) = Len(frames) - 1
           /\ \A i \in 1 .. Len(frames) - 1 :
                 SubSeq(frames, 1, Len(frames) - 1)[i] = frames[i]
           /\ Len(frames) \in Nat \ {0}
           /\ frames[Len(frames)] \in {"message", "closing"}
<1>1. Len(frames) \in Nat /\ Len(frames) # 0
  BY LenProperties, EmptySeq
<1>2. \A i \in 1 .. Len(frames) : frames[i] \in {"message", "closing"}
  BY ElementOfSeq
<1>3. 1 \in Int /\ Len(frames) - 1 \in Int /\ 1 .. Len(frames) - 1 \subseteq 1 .. Len(frames)
  BY <1>1
<1>4. /\ SubSeq(frames, 1, Len(frames) - 1) \in Seq({"message", "closing"})
      /\ Len(SubSeq(frames, 1, Len(frames) - 1)) =
            IF 1 <= Len(frames) - 1 THEN Len(frames) - 1 - 1 + 1 ELSE 0
      /\ \A i \in 1 .. Len(frames) - 1 - 1 + 1 :
            SubSeq(frames, 1, Len(frames) - 1)[i] = frames[1 + i - 1]
  BY <1>2, <1>3, SubSeqProperties
<1>5. \A n \in Nat \ {0} : n - 1 - 1 + 1 = n - 1 /\ (~(1 <= n - 1) => n - 1 = 0)
  OBVIOUS
<1>6. \A i \in Nat : 1 + i - 1 = i
  OBVIOUS
<1>7. 1 .. Len(frames) - 1 \subseteq Nat
  BY <1>1
<1>8. Len(frames) \in 1 .. Len(frames)
  BY <1>1
<1> QED
  BY <1>1, <1>2, <1>4, <1>5, <1>6, <1>7, <1>8

LEMMA DoCloseTypes ==
    ASSUME LoopType, NEW st, NEW next \in LoopPcs, DoClose(st, next)
    PROVE  LoopType'
<1>1. closings' \in 0 .. 2
  BY DEF DoClose, LoopType
<1>2. frames' \in Seq({"message", "closing"})
  BY CallbackEntered DEF DoClose, LoopType
<1> QED
  BY <1>1, <1>2 DEF DoClose, LoopType

LEMMA DoShutdownTypes ==
    ASSUME LoopType, NetType, NEW next \in LoopPcs,
           DoShutdown(next) \/ ShutdownWrite(next)
    PROVE  /\ loopPc' \in LoopPcs /\ frames' \in Seq({"message", "closing"})
           /\ finSent' \in BOOLEAN
<1>1. <<>> \in Seq({"message", "closing"}) /\ "failed" \in LoopPcs
  BY EmptySeq DEF LoopPcs
<1> QED
  BY <1>1 DEF DoShutdown, ShutdownWrite, LoopType, NetType

LEMMA LoopKept ==
    ASSUME LoopType, NetType, Next
    PROVE  LoopType'
<1>1. CASE Wait \/ HandleError \/ BeginTasks \/ EndTasks
  BY <1>1 DEF Wait, HandleError, BeginTasks, EndTasks, LoopType, LoopPcs
<1>2. CASE HandleHup
  <2>1. "read" \in LoopPcs
    BY DEF LoopPcs
  <2>2. CASE DoClose(currState, "read")
    BY <2>1, <2>2, DoCloseTypes
  <2> QED
    BY <1>2, <2>1, <2>2 DEF HandleHup, LoopType
<1>3. CASE HandleRead
  <2>1. "write" \in LoopPcs
    BY DEF LoopPcs
  <2>2. CASE DoClose(currState, "write")
    BY <2>1, <2>2, DoCloseTypes
  <2>3. CASE frames' = <<"message">> /\ loopPc' = "write" /\ UNCHANGED closings
    <3>1. <<"message">> \in Seq({"message", "closing"})
      OBVIOUS
    <3> QED
      BY <2>1, <2>3, <3>1 DEF LoopType
  <2> QED
    BY <1>3, <2>1, <2>2, <2>3 DEF HandleRead, LoopType
<1>4. CASE HandleWrite
  <2>1. "except" \in LoopPcs /\ UNCHANGED closings
    BY <1>4 DEF HandleWrite, LoopPcs
  <2>2. CASE ShutdownWrite("except")
    BY <2>1, <2>2, DoShutdownTypes DEF LoopType
  <2> QED
    BY <1>4, <2>1, <2>2 DEF HandleWrite, LoopType
<1>5. CASE RunTask
  <2>1. "tasks" \in LoopPcs
    BY DEF LoopPcs
  <2>2. CASE UNCHANGED <<loop, closings>>
    BY <2>2 DEF loop, LoopType
  <2>3. CASE DoShutdown("tasks") /\ UNCHANGED closings
    BY <2>1, <2>3, DoShutdownTypes DEF LoopType
  <2>4. CASE DoClose(currState, "tasks")
    BY <2>1, <2>4, DoCloseTypes
  <2> QED
    BY <1>5, <2>2, <2>3, <2>4 DEF RunTask
<1>6. ASSUME NEW n \in Sizes, CallSend(n)
      PROVE  LoopType'
  BY <1>6 DEF CallSend, loop, LoopType
<1>7. CASE CallShutdown
  <2>1. DoShutdown(loopPc) /\ UNCHANGED closings
    BY <1>7 DEF CallShutdown
  <2> QED
    BY <2>1, DoShutdownTypes DEF LoopType
<1>8. CASE CallForceClose
  <2>1. PICK st : DoClose(st, loopPc)
    BY <1>8 DEF CallForceClose
  <2> QED
    BY <2>1, DoCloseTypes DEF LoopType
<1>9. CASE Return
  BY <1>9, CallbackReturns DEF Return, LoopType
<1>10. ASSUME NEW u \in Users, UserStep(u)
       PROVE  LoopType'
  BY <1>10 DEF UserStep, UserGoesOn, UserLooks, UserStores, UserQueues, LoopType, loop
<1>11. CASE PeerStep
  BY <1>11 DEF PeerStep, PeerReceives, PeerSends, PeerFins, PeerResets, Local, LoopType, loop
<1> QED
  BY <1>1, <1>2, <1>3, <1>4, <1>5, <1>6, <1>7, <1>8, <1>9, <1>10, <1>11
     DEF Next, LoopStep, CallbackStep

LEMMA TasksKept ==
    ASSUME TasksType, Next
    PROVE  TasksType'
<1> USE ConnectionAssumption
<1>0. queue \in Seq(Tasks) /\ Len(queue) \in Nat /\ batch \in 0 .. Len(queue)
  BY LenProperties DEF TasksType
<1>1. CASE UNCHANGED <<tasks, userPc, calls>>
  BY <1>1 DEF TasksType, tasks
<1>2. CASE BeginTasks
  BY <1>0, <1>2 DEF BeginTasks, TasksType
<1>3. CASE RunTask
  <2>1. /\ batch > 0 /\ batch' = batch - 1 /\ queue' = Tail(queue)
        /\ UNCHANGED <<userPc, calls>>
    BY <1>3 DEF RunTask
  <2>2. queue' \in Seq(Tasks) /\ batch' \in 0 .. Len(queue')
    BY <2>1, NextTask
  <2> QED
    BY <2>1, <2>2 DEF TasksType
<1>4. ASSUME UNCHANGED <<tasks, userPc>>, calls < MaxCalls, calls' = calls + 1
      PROVE  TasksType'
  BY <1>4 DEF TasksType, tasks
<1>5. ASSUME NEW n \in Sizes, CallSend(n)
      PROVE  TasksType'
  BY <1>4, <1>5 DEF CallSend, MayCall
<1>6. CASE CallShutdown \/ CallForceClose
  BY <1>4, <1>6 DEF CallShutdown, CallForceClose, MayCall
<1>7. ASSUME NEW u \in Users, NEW t \in Tasks, UserLooks(u, t) \/ UserStores(u, t)
      PROVE  TasksType'
  <2>1. userPc' \in [Users -> {<<>>} \cup ({"store", "queue"} \X Tasks)]
    BY <1>7 DEF UserLooks, UserStores, TasksType
  <2> QED
    BY <1>7, <2>1 DEF UserLooks, UserStores, TasksType, tasks
<1>9. ASSUME NEW u \in Users, NEW t \in Tasks, UserQueues(u, t)
      PROVE  TasksType'
  <2>1. queue' \in Seq(Tasks) /\ batch' \in 0 .. Len(queue')
    BY <1>0, <1>9, AppendProperties DEF UserQueues
  <2>2. userPc' \in [Users -> {<<>>} \cup ({"store", "queue"} \X Tasks)]
    BY <1>9 DEF UserQueues, TasksType
  <2> QED
    BY <1>9, <2>1, <2>2 DEF UserQueues, TasksType
<1>11. CASE Wait \/ HandleHup \/ HandleRead \/ HandleWrite \/ HandleError \/ EndTasks \/ Return
  BY <1>1, <1>11, Zenon DEF Wait, HandleHup, HandleRead, HandleWrite, HandleError, EndTasks, Return, tasks
<1>12. CASE PeerStep
  BY <1>1, <1>12, Zenon DEF PeerStep, PeerReceives, PeerSends, PeerFins, PeerResets, Local, tasks
<1> QED
  BY <1>2, <1>3, <1>5, <1>6, <1>7, <1>9, <1>11, <1>12
     DEF Next, LoopStep, CallbackStep, UserStep, UserGoesOn

LEMMA NetKept ==
    ASSUME FlagsType, LoopType, NetType, Next
    PROVE  NetType'
<1> USE ConnectionAssumption
<1>1. CASE Wait \/ HandleHup \/ HandleError \/ BeginTasks \/ EndTasks
  BY <1>1 DEF Wait, HandleHup, HandleError, BeginTasks, EndTasks, NetType, net
<1>2. CASE HandleRead
  <2>1. sockErr' \in BOOLEAN /\ UNCHANGED <<peerFin, reset, finSent>>
    BY <1>2 DEF HandleRead, NetType
  <2>2. rcv' \in 0 .. MaxRcv
    BY <1>2 DEF HandleRead, NetType, ReadResult
  <2> QED
    BY <2>1, <2>2 DEF NetType
<1>3. CASE HandleWrite
  <2>1. UNCHANGED net /\ sockErr' \in BOOLEAN
    BY <1>3 DEF HandleWrite, WriteIntoKernel, NetType
  <2>2. finSent' \in BOOLEAN
    BY <1>3 DEF HandleWrite, ShutdownWrite, NetType
  <2> QED
    BY <2>1, <2>2 DEF NetType, net
<1>4. CASE RunTask
  <2>1. UNCHANGED net
    BY <1>4 DEF RunTask
  <2>2. sockErr' \in BOOLEAN
    BY <1>4, DoSendTypes DEF RunTask, NetType
  <2>3. finSent' \in BOOLEAN
    BY <1>4 DEF RunTask, DoShutdown, ShutdownWrite, NetType
  <2> QED
    BY <2>1, <2>2, <2>3 DEF NetType, net
<1>5. ASSUME NEW n \in Sizes, CallSend(n)
      PROVE  NetType'
  BY <1>5, DoSendTypes DEF CallSend, NetType, net
<1>6. CASE CallShutdown
  BY <1>6 DEF CallShutdown, DoShutdown, ShutdownWrite, NetType, net
<1>7. CASE CallForceClose \/ Return
  BY <1>7 DEF CallForceClose, Return, NetType, net
<1>8. ASSUME NEW u \in Users, UserStep(u)
      PROVE  NetType'
  BY <1>8 DEF UserStep, UserGoesOn, UserLooks, UserStores, UserQueues, NetType, net
<1>9. CASE PeerReceives \/ PeerFins \/ PeerResets
  BY <1>9 DEF PeerReceives, PeerFins, PeerResets, Local, NetType, net
<1>10. CASE PeerSends
  <2>1. rcv' \in 0 .. MaxRcv
    BY <1>10 DEF PeerSends, NetType
  <2> QED
    BY <1>10, <2>1 DEF PeerSends, Local, NetType
<1> QED
  BY <1>1, <1>2, <1>3, <1>4, <1>5, <1>6, <1>7, <1>8, <1>9, <1>10
     DEF Next, LoopStep, CallbackStep, PeerStep

-----------------------------------------------------------------------------
LEMMA SequenceOf ==
    ASSUME NEW S, NEW s \in Seq(Nat), \A i \in 1 .. Len(s) : s[i] \in S
    PROVE  s \in Seq(S)
<1>1. s = [i \in 1 .. Len(s) |-> s[i]] /\ Len(s) \in Nat
  BY LenProperties
<1>2. s \in [1 .. Len(s) -> S]
  BY <1>1
<1> QED
  BY <1>1, <1>2, SeqDef

\* The peer gets the bytes in order: what TypeInv says of the stream.
LEMMA TypeInvImplies ==
    ASSUME TypeInv
    PROVE  TypeOK /\ StreamInOrder
<1>1. /\ snd \in Seq(Nat) /\ received \in Seq(Nat) /\ Readable(outBuffer) \in Seq(Nat)
      /\ Len(snd) \in Nat /\ Len(received) \in Nat
      /\ Stream \in Seq(Nat)
      /\ \A i \in 1 .. Len(Stream) : Stream[i] \in Bytes
      /\ \A i, j \in 1 .. Len(Stream) : i < j => Stream[i] < Stream[j]
  BY ReadableType, LenProperties DEF TypeInv, StreamInv, Ordered, Bytes
<1>2. /\ received \o snd \in Seq(Nat) /\ Len(received \o snd) = Len(received) + Len(snd)
      /\ \A i \in 1 .. Len(received) + Len(snd) :
            (received \o snd)[i] = IF i <= Len(received) THEN received[i]
                                   ELSE snd[i - Len(received)]
  BY <1>1, ConcatProperties
<1>3. /\ Len(Stream) = Len(received \o snd) + Len(Readable(outBuffer))
      /\ \A i \in 1 .. Len(received \o snd) + Len(Readable(outBuffer)) :
            Stream[i] = IF i <= Len(received \o snd) THEN (received \o snd)[i]
                        ELSE Readable(outBuffer)[i - Len(received \o snd)]
  BY <1>1, <1>2, ConcatProperties DEF Stream
<1>4. Len(Readable(outBuffer)) \in Nat
  BY <1>1, LenProperties
<1>5. ASSUME NEW i \in 1 .. Len(received) + Len(snd)
      PROVE  (received \o snd)[i] \in Bytes
  <2>1. i \in 1 .. Len(Stream) /\ i <= Len(received \o snd)
    BY <1>1, <1>2, <1>3, <1>4
  <2> QED
    BY <1>1, <1>2, <1>3, <2>1
<1>6. ASSUME NEW i \in 1 .. Len(received)
      PROVE  received[i] \in Bytes
  <2>1. i \in 1 .. Len(received) + Len(snd) /\ i <= Len(received)
    BY <1>1
  <2> QED
    BY <1>2, <1>5, <2>1
<1>7. ASSUME NEW i \in 1 .. Len(snd)
      PROVE  snd[i] \in Bytes
  <2>1. /\ Len(received) + i \in 1 .. Len(received) + Len(snd)
        /\ ~(Len(received) + i <= Len(received)) /\ (Len(received) + i) - Len(received) = i
    BY <1>1
  <2> QED
    BY <1>2, <1>5, <2>1
<1>8. snd \in Seq(Bytes) /\ received \in Seq(Bytes)
  BY <1>1, <1>6, <1>7, SequenceOf
<1>9. StreamInOrder
  <2>1. DOMAIN Stream = 1 .. Len(Stream)
    BY <1>1, LenProperties
  <2>2. Stream = received \o snd \o Readable(outBuffer)
    BY DEF Stream
  <2> QED
    BY <1>1, <2>1, <2>2 DEF StreamInOrder
<1> QED
  BY <1>8, <1>9 DEF TypeInv, StreamInv, FlagsType, LoopType, TasksType, NetType, TypeOK

LEMMA InitTypes ==
    ASSUME Init
    PROVE  TypeInv
<1> USE ConnectionAssumption DEF Init
<1>1. <<>> \in Seq(Nat) /\ Len(<<>>) = 0 /\ <<>> \in Seq(Tasks)
      /\ <<>> \in Seq({"message", "closing"}) /\ <<>> \o <<>> = <<>>
  BY EmptySeq, ConcatEmptySeq
<1>2. StreamInv
  <2>1. IsBuffer(outBuffer) /\ Readable(outBuffer) = <<>>
    BY EmptyBufferType, ReadableEmptyBuffer
  <2>2. Stream = <<>>
    BY <1>1, <2>1 DEF Stream
  <2> QED
    BY <1>1, <2>1, <2>2, OrderedEmpty DEF StreamInv
<1>3. FlagsType /\ LoopType /\ TasksType /\ NetType
  <2>1. FlagsType /\ LoopType /\ NetType
    <3>1. FlagsType
      BY DEF FlagsType
    <3>2. LoopType
      BY <1>1 DEF LoopType, LoopPcs
    <3>3. NetType
      <4>1. rcv \in 0 .. MaxRcv
        OBVIOUS
      <4>2. peerFin \in BOOLEAN /\ finSent \in BOOLEAN /\ reset \in BOOLEAN /\ sockErr \in BOOLEAN
        OBVIOUS
      <4> QED
        BY <4>1, <4>2 DEF NetType
    <3> QED
      BY <3>1, <3>2, <3>3
  <2>2. userPc \in [Users -> {<<>>} \cup ({"store", "queue"} \X Tasks)]
    OBVIOUS
  <2>3. queue \in Seq(Tasks) /\ batch \in 0 .. Len(queue) /\ calls \in 0 .. MaxCalls
    BY <1>1
  <2> QED
    BY <2>1, <2>2, <2>3 DEF TasksType
<1> QED
  BY <1>2, <1>3 DEF TypeInv

LEMMA StutterTypes ==
    ASSUME TypeInv, UNCHANGED vars
    PROVE  TypeInv'
<1> USE DEF vars
<1>1. StreamInv'
  BY StreamSame DEF TypeInv, out
<1>2. FlagsType' /\ LoopType' /\ TasksType' /\ NetType'
  BY DEF TypeInv, FlagsType, LoopType, TasksType, NetType, disp, loop, tasks, net
<1> QED
  BY <1>1, <1>2 DEF TypeInv

LEMMA TypesInvariant == Spec => []TypeInv
<1>1. Init => TypeInv
  BY InitTypes
<1>2. TypeInv /\ [Next]_vars => TypeInv'
  <2> SUFFICES ASSUME TypeInv, [Next]_vars
               PROVE  TypeInv'
    OBVIOUS
  <2>1. CASE Next
    BY <2>1, StreamKept, FlagsKept, LoopKept, TasksKept, NetKept DEF TypeInv
  <2>2. CASE UNCHANGED vars
    BY <2>2, StutterTypes
  <2> QED
    BY <2>1, <2>2
<1> QED
  BY <1>1, <1>2, PTL DEF Spec

\* The type invariant of a connection.
THEOREM TypeCorrect == Spec => []TypeOK
<1>1. TypeInv => TypeOK
  BY TypeInvImplies
<1> QED
  BY <1>1, TypesInvariant, PTL

\* However the kernel cuts the writes, whatever is sent while others are under
\* way and whatever the network loses, the peer gets the bytes in the order in
\* which send() got them, each at most once (TcpConnection.cpp:67-77, 129-149).
THEOREM StreamInOrderHolds == Spec => []StreamInOrder
<1>1. TypeInv => StreamInOrder
  BY TypeInvImplies
<1> QED
  BY <1>1, TypesInvariant, PTL

-----------------------------------------------------------------------------
(***************************************************************************)
(* What epoll watches for.  It is out of step with the flags only from the *)
(* first step of a close to the removal of the dispatcher, that is while   *)
(* the loop is in the closing callback, and after an exception ended Start.*)
(* A message callback is never entered from another callback, so the one   *)
(* that returns was the only one.                                          *)
(***************************************************************************)
InClosing == \E i \in 1 .. Len(frames) : frames[i] = "closing"

Watched == Wanted(isReading, isWriting)

MessageIsFirst == \A i \in 1 .. Len(frames) : frames[i] = "message" => i = 1
IdleOutside == loopPc \in {"poll", "failed"} => frames = <<>>
InStep == registered /\ loopPc # "failed" /\ ~InClosing => interest = Watched

SyncInv == MessageIsFirst /\ IdleOutside /\ InStep

\* No callback, one message, and one closing callback more.
LEMMA FramesFacts ==
    ASSUME frames \in Seq({"message", "closing"})
    PROVE  /\ Len(frames) \in Nat
           /\ frames = <<>> => ~InClosing /\ MessageIsFirst
           /\ frames = <<"message">> => ~InClosing /\ MessageIsFirst
  BY LenProperties DEF InClosing, MessageIsFirst

LEMMA SyncSame ==
    ASSUME SyncInv, UNCHANGED <<loop, disp>>
    PROVE  SyncInv'
  BY DEF SyncInv, MessageIsFirst, IdleOutside, InStep, InClosing, Watched, Wanted, loop, disp

\* The loop goes on to a place where callbacks may be under way.
LEMMA SyncGoesOn ==
    ASSUME SyncInv, UNCHANGED <<frames, disp>>,
           loopPc # "failed", loopPc' \notin {"poll", "failed"}
    PROVE  SyncInv'
  BY DEF SyncInv, MessageIsFirst, IdleOutside, InStep, InClosing, Watched, Wanted, disp

LEMMA CloseKeepsSync ==
    ASSUME LoopType, SyncInv, NEW st, NEW next, next \notin {"poll", "failed"},
           loopPc # "failed", DoClose(st, next), UNCHANGED <<registered, interest>>
    PROVE  SyncInv'
<1>1. loopPc' = next
  BY DEF DoClose
<1>2. CASE UNCHANGED <<isReading, isWriting, frames>>
  BY <1>1, <1>2, SyncGoesOn DEF disp
<1>3. CASE frames' = Append(frames, "closing")
  <2>1. /\ Len(frames) \in Nat /\ Len(frames') = Len(frames) + 1
        /\ \A i \in 1 .. Len(frames) : frames'[i] = frames[i]
        /\ frames'[Len(frames) + 1] = "closing"
    BY <1>3, CallbackEntered, FramesFacts DEF LoopType
  <2>2. InClosing'
    BY <2>1 DEF InClosing
  <2>3. MessageIsFirst'
    <3>1. ASSUME NEW i \in 1 .. Len(frames'), frames'[i] = "message"
          PROVE  i = 1
      <4>1. i \in 1 .. Len(frames) \/ i = Len(frames) + 1
        BY <2>1
      <4> QED
        BY <2>1, <3>1, <4>1 DEF SyncInv, MessageIsFirst
    <3> QED
      BY <3>1 DEF MessageIsFirst
  <2> QED
    BY <1>1, <2>2, <2>3 DEF SyncInv, IdleOutside, InStep
<1> QED
  BY <1>2, <1>3 DEF DoClose

LEMMA ShutdownKeepsSync ==
    ASSUME LoopType, SyncInv, NEW next, next \notin {"poll", "failed"},
           loopPc # "failed", DoShutdown(next) \/ ShutdownWrite(next),
           UNCHANGED disp \/ (registered' => interest' = Watched')
    PROVE  SyncInv'
<1>1. CASE loopPc' = next /\ UNCHANGED frames
  BY <1>1 DEF SyncInv, MessageIsFirst, IdleOutside, InStep, InClosing, Watched, Wanted, disp
<1>2. CASE loopPc' = "failed" /\ frames' = <<>>
  <2>1. MessageIsFirst'
    BY <1>2 DEF MessageIsFirst
  <2> QED
    BY <1>2, <2>1 DEF SyncInv, IdleOutside, InStep
<1> QED
  BY <1>1, <1>2 DEF DoShutdown, ShutdownWrite

LEMMA SendKeepsSync ==
    ASSUME SyncInv, NEW n, DoSend(n), UNCHANGED loop
    PROVE  SyncInv'
<1>1. CASE UNCHANGED disp
  BY <1>1, SyncSame
<1>2. CASE UpdateDispatcher
  <2>1. interest' = Watched'
    BY <1>2 DEF UpdateDispatcher, Watched, Wanted
  <2> QED
    BY <2>1 DEF SyncInv, MessageIsFirst, IdleOutside, InStep, loop
<1> QED
  BY <1>1, <1>2 DEF DoSend, disp

LEMMA SyncKept ==
    ASSUME LoopType, TasksType, SyncInv, Next
    PROVE  SyncInv'
<1>1. CASE Wait \/ HandleError \/ BeginTasks
  <2>1. UNCHANGED <<frames, disp>> /\ loopPc # "failed" /\ loopPc' \notin {"poll", "failed"}
    BY <1>1 DEF Wait, HandleError, BeginTasks
  <2> QED
    BY <2>1, SyncGoesOn
<1>2. CASE HandleHup
  <2>1. UNCHANGED <<registered, interest>> /\ loopPc # "failed"
    BY <1>2 DEF HandleHup
  <2>2. CASE DoClose(currState, "read")
    BY <2>1, <2>2, CloseKeepsSync
  <2>3. CASE loopPc' = "read" /\ UNCHANGED <<isReading, isWriting, frames>>
    BY <2>1, <2>3, SyncGoesOn DEF disp
  <2> QED
    BY <1>2, <2>2, <2>3 DEF HandleHup
<1>3. CASE HandleRead
  <2>1. UNCHANGED <<registered, interest>> /\ loopPc # "failed" /\ frames = <<>>
    BY <1>3 DEF HandleRead
  <2>2. CASE DoClose(currState, "write")
    BY <2>1, <2>2, CloseKeepsSync
  <2>3. CASE loopPc' = "write" /\ UNCHANGED <<isReading, isWriting, frames>>
    BY <2>1, <2>3, SyncGoesOn DEF disp
  <2>4. CASE loopPc' = "write" /\ frames' = <<"message">> /\ UNCHANGED <<isReading, isWriting>>
    <3>1. MessageIsFirst' /\ ~InClosing
      BY <2>1, <2>4 DEF MessageIsFirst, InClosing
    <3> QED
      BY <2>1, <2>4, <3>1 DEF SyncInv, IdleOutside, InStep, Watched, Wanted
  <2> QED
    BY <1>3, <2>2, <2>3, <2>4 DEF HandleRead
<1>4. CASE HandleWrite
  <2>1. loopPc # "failed" /\ frames = <<>>
    BY <1>4 DEF HandleWrite
  <2>2. CASE loopPc' = "except" /\ UNCHANGED <<disp, frames>>
    BY <2>1, <2>2, SyncGoesOn
  <2>3. CASE WriteIntoKernel(outBuffer)
    <3>1. UNCHANGED disp \/ (registered' => interest' = Watched')
      BY <1>4, <2>3 DEF HandleWrite, UpdateDispatcher, Watched, Wanted, disp
    <3>2. CASE ShutdownWrite("except")
      BY <2>1, <3>1, <3>2, ShutdownKeepsSync
    <3>3. CASE loopPc' = "except" /\ UNCHANGED frames
      BY <2>1, <3>1, <3>3
         DEF SyncInv, MessageIsFirst, IdleOutside, InStep, InClosing, Watched, Wanted, disp
    <3> QED
      BY <1>4, <2>3, <3>2, <3>3, <2>2 DEF HandleWrite
  <2> QED
    BY <1>4, <2>2, <2>3 DEF HandleWrite
<1>5. CASE EndTasks
  BY <1>5 DEF EndTasks, SyncInv, MessageIsFirst, IdleOutside, InStep, InClosing, Watched, Wanted, disp
<1>6. CASE RunTask
  <2>1. loopPc = "tasks"
    BY <1>6 DEF RunTask
  <2>2. CASE DoSend(Head(queue).size) /\ UNCHANGED loop
    BY <2>2, SendKeepsSync
  <2>3. CASE DoShutdown("tasks") /\ UNCHANGED disp
    BY <2>1, <2>3, ShutdownKeepsSync
  <2>4. CASE DoClose(currState, "tasks") /\ UNCHANGED <<registered, interest>>
    BY <2>1, <2>4, CloseKeepsSync
  <2> QED
    BY <1>6, <2>2, <2>3, <2>4 DEF RunTask
<1>7. ASSUME NEW n \in Sizes, CallSend(n)
      PROVE  SyncInv'
  BY <1>7, SendKeepsSync DEF CallSend
\* A call from a callback, or from outside of them.
<1>8. ASSUME NEW op, MayCall(op)
      PROVE  loopPc \notin {"poll", "failed"}
  BY <1>8 DEF MayCall, SyncInv, IdleOutside
<1>9. CASE CallShutdown
  <2>1. loopPc \notin {"poll", "failed"} /\ DoShutdown(loopPc) /\ UNCHANGED disp
    BY <1>8, <1>9 DEF CallShutdown
  <2> QED
    BY <2>1, ShutdownKeepsSync
<1>10. CASE CallForceClose
  <2>1. loopPc \notin {"poll", "failed"} /\ UNCHANGED <<registered, interest>>
    BY <1>8, <1>10 DEF CallForceClose
  <2>2. PICK st : DoClose(st, loopPc)
    BY <1>10 DEF CallForceClose
  <2> QED
    BY <2>1, <2>2, CloseKeepsSync
<1>11. CASE Return
  <2>1. /\ frames # <<>> /\ frames' = SubSeq(frames, 1, Len(frames) - 1)
        /\ UNCHANGED loopPc
    BY <1>11 DEF Return
  <2>2. /\ frames' \in Seq({"message", "closing"})
        /\ Len(frames') = Len(frames) - 1
        /\ \A i \in 1 .. Len(frames) - 1 : frames'[i] = frames[i]
        /\ Len(frames) \in Nat \ {0}
        /\ frames[Len(frames)] \in {"message", "closing"}
    BY <2>1, CallbackReturns DEF LoopType
  <2>3. loopPc \notin {"poll", "failed"}
    BY <2>1 DEF SyncInv, IdleOutside
  <2>4. MessageIsFirst'
    <3>1. 1 .. Len(frames') \subseteq 1 .. Len(frames)
      BY <2>2
    <3> QED
      BY <2>2, <3>1 DEF SyncInv, MessageIsFirst
  <2>5. CASE frames[Len(frames)] = "closing"
    <3>1. ~registered'
      BY <1>11, <2>5 DEF Return, DoRemove
    <3> QED
      BY <2>1, <2>3, <2>4, <3>1 DEF SyncInv, IdleOutside, InStep
  <2>6. CASE frames[Len(frames)] = "message"
    <3>1. UNCHANGED disp
      BY <1>11, <2>6 DEF Return
    <3>2. Len(frames) = 1
      BY <2>2, <2>6 DEF SyncInv, MessageIsFirst
    <3>3. ~InClosing
      BY <2>6, <3>2 DEF InClosing
    <3> QED
      BY <2>1, <2>3, <2>4, <3>1, <3>3 DEF SyncInv, IdleOutside, InStep, Watched, Wanted, disp
  <2> QED
    BY <2>2, <2>5, <2>6
<1>12. ASSUME NEW u \in Users, UserStep(u)
       PROVE  SyncInv'
  BY <1>12, SyncSame, Zenon DEF UserStep, UserGoesOn, UserLooks, UserStores, UserQueues, loop, disp
<1>13. CASE PeerStep
  BY <1>13, SyncSame, Zenon DEF PeerStep, PeerReceives, PeerSends, PeerFins, PeerResets, Local, loop, disp
<1> QED
  BY <1>1, <1>2, <1>3, <1>4, <1>5, <1>6, <1>7, <1>9, <1>10, <1>11, <1>12, <1>13
     DEF Next, LoopStep, CallbackStep

LEMMA SyncInvariant == Spec => [](TypeInv /\ SyncInv)
<1>1. Init => SyncInv
  BY DEF Init, SyncInv, MessageIsFirst, IdleOutside, InStep, Watched, Wanted
<1>2. TypeInv /\ SyncInv /\ [Next]_vars => SyncInv'
  <2> SUFFICES ASSUME TypeInv, SyncInv, [Next]_vars
               PROVE  SyncInv'
    OBVIOUS
  <2>1. CASE Next
    BY <2>1, SyncKept DEF TypeInv
  <2>2. CASE UNCHANGED vars
    BY <2>2, SyncSame DEF vars
  <2> QED
    BY <2>1, <2>2
<1> QED
  BY <1>1, <1>2, TypesInvariant, PTL DEF Spec

\* Whatever is called where, and also while a close is under way: when the loop
\* waits, epoll watches for what the dispatcher is interested in
\* (TcpConnection.cpp:74-75, 140-141, 165-170).
THEOREM InterestInSyncHolds == Spec => []InterestInSync
<1>1. TypeInv /\ SyncInv => InterestInSync
  <2> SUFFICES ASSUME TypeInv, SyncInv, loopPc = "poll", registered
               PROVE  interest = Watched
    BY DEF InterestInSync, Watched, Wanted
  <2>1. frames = <<>>
    BY DEF SyncInv, IdleOutside
  <2>2. ~InClosing
    BY <2>1 DEF InClosing
  <2> QED
    BY <2>2 DEF SyncInv, InStep
<1> QED
  BY <1>1, SyncInvariant, PTL

-----------------------------------------------------------------------------
(***************************************************************************)
(* No message after the closing callback.  A close clears the dispatcher's *)
(* interest in reading, so that a later round does not report input; what  *)
(* is left is the round the close happens in, whose events were fetched    *)
(* before.  A close by the connection's own events happens either without  *)
(* input among them or after the input was dealt with; one that somebody   *)
(* else forces on the loop thread may come between, and then a message is  *)
(* delivered after all.                                                    *)
(***************************************************************************)
DeafAfterClose == closings > 0 => ~isReading
GoneUnwatched == ~registered => interest = {}
NoCallbackBefore ==
    /\ loopPc = "before" => frames = <<>>
    /\ loopPc = "read" => frames = <<>> \/ closings > 0
NoInputLeft == closings > 0 /\ loopPc \in {"before", "read"} => "in" \notin revents

DeafInv == DeafAfterClose /\ GoneUnwatched /\ NoCallbackBefore /\ NoInputLeft

LEMMA DeafSame ==
    ASSUME DeafInv, UNCHANGED <<loop, disp, revents, closings>>
    PROVE  DeafInv'
  BY DEF DeafInv, DeafAfterClose, GoneUnwatched, NoCallbackBefore, NoInputLeft, loop, disp

LEMMA CloseIsDeaf ==
    ASSUME LoopType, DeafInv, NEW st, NEW next, DoClose(st, next)
    PROVE  /\ DeafAfterClose' /\ (closings > 0 => closings' > 0)
           /\ closings' = 0 => UNCHANGED <<closings, frames>>
           /\ closings' > 0 \/ UNCHANGED <<closings, frames>>
<1>1. CASE UNCHANGED <<isReading, isWriting, frames, closings>>
  <2>1. closings \in 0 .. 2
    BY DEF LoopType
  <2> QED
    BY <1>1, <2>1 DEF DeafInv, DeafAfterClose
<1>2. CASE isReading' = FALSE /\ closings' = IF closings < 2 THEN closings + 1 ELSE 2
  <2>1. closings' > 0 /\ closings' # 0
    BY <1>2 DEF LoopType
  <2> QED
    BY <1>2, <2>1 DEF DeafAfterClose
<1> QED
  BY <1>1, <1>2 DEF DoClose

\* Far from the input, only the flags matter.
LEMMA DeafElsewhere ==
    ASSUME DeafAfterClose', GoneUnwatched', loopPc' \notin {"before", "read"}
    PROVE  DeafInv'
  BY DEF DeafInv, NoCallbackBefore, NoInputLeft

LEMMA SendIsDeaf ==
    ASSUME DeafInv, NEW n, DoSend(n), UNCHANGED closings
    PROVE  DeafAfterClose' /\ GoneUnwatched'
  BY DEF DoSend, UpdateDispatcher, Wanted, DeafInv, DeafAfterClose, GoneUnwatched

LEMMA DeafKept ==
    ASSUME "force" \notin OtherOps, LoopType, SyncInv, DeafInv, Next
    PROVE  DeafInv'
<1>1. CASE Wait
  <2>1. UNCHANGED <<disp, frames, closings>> /\ frames = <<>> /\ ~InClosing
    BY <1>1 DEF Wait, SyncInv, IdleOutside, InClosing
  <2>2. DeafAfterClose' /\ GoneUnwatched'
    BY <2>1 DEF DeafInv, DeafAfterClose, GoneUnwatched, disp
  <2>3. CASE loopPc' = "swap"
    BY <2>2, <2>3, DeafElsewhere
  <2>4. CASE revents' = Reported /\ loopPc' = "before"
    <3>1. ASSUME closings > 0
          PROVE  "in" \notin Reported
      <4>1. "in" \notin interest
        BY <1>1, <2>1, <3>1
           DEF Wait, SyncInv, InStep, Watched, Wanted, DeafInv, DeafAfterClose, GoneUnwatched
      <4> QED
        BY <4>1 DEF Reported
    <3> QED
      BY <2>1, <2>2, <2>4, <3>1 DEF DeafInv, NoCallbackBefore, NoInputLeft
  <2> QED
    BY <1>1, <2>3, <2>4 DEF Wait
<1>2. CASE HandleHup
  <2>1. /\ UNCHANGED <<registered, interest, revents>> /\ loopPc = "before" /\ frames = <<>>
        /\ loopPc' = "read"
    BY <1>2 DEF HandleHup, DoClose
  <2>2. CASE DoClose(currState, "read") /\ "in" \notin revents
    <3>1. DeafAfterClose' /\ (closings' > 0 \/ UNCHANGED frames)
      BY <2>2, CloseIsDeaf
    <3> QED
      BY <2>1, <2>2, <3>1 DEF DeafInv, GoneUnwatched, NoCallbackBefore, NoInputLeft
  <2>3. CASE UNCHANGED <<isReading, frames, closings>>
    BY <2>1, <2>3
       DEF DeafInv, DeafAfterClose, GoneUnwatched, NoCallbackBefore, NoInputLeft
  <2> QED
    BY <1>2, <2>2, <2>3 DEF HandleHup
<1>3. CASE HandleRead
  <2>1. loopPc' = "write" /\ UNCHANGED <<registered, interest>>
    BY <1>3 DEF HandleRead, DoClose
  <2>2. DeafAfterClose'
    BY <1>3, CloseIsDeaf DEF HandleRead, DeafInv, DeafAfterClose
  <2> QED
    BY <2>1, <2>2, DeafElsewhere DEF DeafInv, GoneUnwatched
<1>4. CASE HandleWrite
  <2>1. loopPc' \notin {"before", "read"}
    BY <1>4 DEF HandleWrite, ShutdownWrite
  <2>2. DeafAfterClose' /\ GoneUnwatched'
    BY <1>4 DEF HandleWrite, UpdateDispatcher, Wanted, DeafInv, DeafAfterClose, GoneUnwatched, disp
  <2> QED
    BY <2>1, <2>2, DeafElsewhere
<1>5. CASE HandleError \/ BeginTasks \/ EndTasks
  <2>1. loopPc' \notin {"before", "read"} /\ UNCHANGED <<disp, closings>>
    BY <1>5 DEF HandleError, BeginTasks, EndTasks
  <2> QED
    BY <2>1, DeafElsewhere DEF DeafInv, DeafAfterClose, GoneUnwatched, disp
<1>6. CASE RunTask
  <2>1. loopPc' \notin {"before", "read"}
    BY <1>6 DEF RunTask, DoShutdown, ShutdownWrite, DoClose, loop
  <2>2. CASE DoSend(Head(queue).size) /\ UNCHANGED closings
    BY <2>1, <2>2, SendIsDeaf, DeafElsewhere
  <2>3. CASE UNCHANGED <<disp, closings>>
    BY <2>1, <2>3, DeafElsewhere DEF DeafInv, DeafAfterClose, GoneUnwatched, disp
  <2>4. CASE DoClose(currState, "tasks") /\ UNCHANGED <<registered, interest>>
    BY <2>1, <2>4, CloseIsDeaf, DeafElsewhere DEF DeafInv, GoneUnwatched
  <2> QED
    BY <1>6, <2>2, <2>3, <2>4 DEF RunTask
<1>7. ASSUME NEW n \in Sizes, CallSend(n)
      PROVE  DeafInv'
  <2>1. DoSend(n) /\ UNCHANGED <<loop, revents, closings>>
    BY <1>7 DEF CallSend
  <2> QED
    BY <2>1, SendIsDeaf DEF DeafInv, NoCallbackBefore, NoInputLeft, loop
<1>8. CASE CallShutdown
  <2>1. UNCHANGED <<disp, revents, closings>> /\ DoShutdown(loopPc)
    BY <1>8 DEF CallShutdown
  <2>2. CASE UNCHANGED <<loopPc, frames>>
    BY <2>1, <2>2, DeafSame DEF loop
  <2>3. CASE loopPc' = "failed"
    BY <2>1, <2>3, DeafElsewhere DEF DeafInv, DeafAfterClose, GoneUnwatched, disp
  <2> QED
    BY <2>1, <2>2, <2>3 DEF DoShutdown, ShutdownWrite
<1>9. CASE CallForceClose
  <2>1. UNCHANGED <<registered, interest, revents>> /\ frames # <<>>
    BY <1>9 DEF CallForceClose, MayCall
  <2>2. PICK st : DoClose(st, loopPc)
    BY <1>9 DEF CallForceClose
  <2>3. loopPc' = loopPc /\ loopPc # "before" /\ (loopPc = "read" => closings > 0)
    BY <2>1, <2>2 DEF DoClose, DeafInv, NoCallbackBefore
  <2>4. DeafAfterClose' /\ (closings > 0 => closings' > 0)
    BY <2>2, CloseIsDeaf
  <2> QED
    BY <2>1, <2>3, <2>4 DEF DeafInv, GoneUnwatched, NoCallbackBefore, NoInputLeft
<1>10. CASE Return
  <2>1. UNCHANGED <<revents, loopPc, closings>> /\ frames # <<>>
    BY <1>10 DEF Return
  <2>2. DeafAfterClose' /\ GoneUnwatched'
    BY <1>10 DEF Return, DoRemove, DeafInv, DeafAfterClose, GoneUnwatched, disp
  <2> QED
    BY <2>1, <2>2 DEF DeafInv, NoCallbackBefore, NoInputLeft
<1>11. ASSUME NEW u \in Users, UserStep(u)
       PROVE  DeafInv'
  BY <1>11, DeafSame, Zenon DEF UserStep, UserGoesOn, UserLooks, UserStores, UserQueues, loop, disp
<1>12. CASE PeerStep
  BY <1>12, DeafSame, Zenon DEF PeerStep, PeerReceives, PeerSends, PeerFins, PeerResets, Local, loop, disp
<1> QED
  BY <1>1, <1>2, <1>3, <1>4, <1>5, <1>6, <1>7, <1>8, <1>9, <1>10, <1>11, <1>12
     DEF Next, LoopStep, CallbackStep

\* The only step that enters the message callback is a read.
LEMMA MessageComesFromRead ==
    ASSUME LoopType, Next, frames = <<>>, frames' = <<"message">>
    PROVE  loopPc = "read" /\ "in" \in revents
<1>0. <<"message">> # <<>>
  OBVIOUS
<1>1. ASSUME NEW st, NEW next, DoClose(st, next)
      PROVE  FALSE
  <2>1. CASE UNCHANGED frames
    BY <1>0, <2>1
  <2>2. CASE frames' = Append(frames, "closing")
    <3>1. frames'[Len(frames) + 1] = "closing" /\ Len(frames) = 0
      BY <2>2, CallbackEntered DEF LoopType
    <3> QED
      BY <3>1
  <2> QED
    BY <1>1, <2>1, <2>2 DEF DoClose
<1>2. ASSUME NEW next, DoShutdown(next) \/ ShutdownWrite(next)
      PROVE  FALSE
  BY <1>0, <1>2 DEF DoShutdown, ShutdownWrite
<1>3. CASE HandleRead
  BY <1>0, <1>1, <1>3 DEF HandleRead
<1>4. ~(Wait \/ HandleError \/ BeginTasks \/ EndTasks \/ Return)
  BY <1>0 DEF Wait, HandleError, BeginTasks, EndTasks, Return
<1>5. ~(HandleHup \/ CallForceClose)
  BY <1>0, <1>1 DEF HandleHup, CallForceClose
<1>6. ~(HandleWrite \/ CallShutdown)
  BY <1>0, <1>2 DEF HandleWrite, CallShutdown
<1>7. ~RunTask
  BY <1>0, <1>1, <1>2 DEF RunTask, loop
<1>8. ~ \E n \in Sizes : CallSend(n)
  BY <1>0 DEF CallSend, loop
<1>9. ~ \E u \in Users : UserStep(u)
  BY <1>0 DEF UserStep, UserGoesOn, UserLooks, UserStores, UserQueues, loop
<1>10. ~PeerStep
  BY <1>0 DEF PeerStep, PeerReceives, PeerSends, PeerFins, PeerResets, Local, loop
<1> QED
  BY <1>3, <1>4, <1>5, <1>6, <1>7, <1>8, <1>9, <1>10 DEF Next, LoopStep, CallbackStep

\* If nobody but the connection itself and other threads force its close, no
\* message is delivered after the closing callback began, not even one that was
\* fetched in the same round (TcpConnection.cpp:109-126, 165).
THEOREM NoMessageAfterClosingHolds ==
    ASSUME "force" \notin OtherOps
    PROVE  Spec => NoMessageAfterClosing
<1>1. Init => DeafInv
  BY DEF Init, DeafInv, DeafAfterClose, GoneUnwatched, NoCallbackBefore, NoInputLeft
<1>2. TypeInv /\ SyncInv /\ DeafInv /\ [Next]_vars => DeafInv'
  <2> SUFFICES ASSUME TypeInv, SyncInv, DeafInv, [Next]_vars
               PROVE  DeafInv'
    OBVIOUS
  <2>1. CASE Next
    BY <2>1, DeafKept DEF TypeInv
  <2>2. CASE UNCHANGED vars
    BY <2>2, DeafSame DEF vars
  <2> QED
    BY <2>1, <2>2
<1>3. TypeInv /\ DeafInv /\ [Next]_vars =>
          [closings > 0 /\ frames = <<>> => frames' # <<"message">>]_vars
  <2> SUFFICES ASSUME TypeInv, DeafInv, Next, closings > 0, frames = <<>>,
                      frames' = <<"message">>
               PROVE  FALSE
    OBVIOUS
  <2>1. loopPc = "read" /\ "in" \in revents
    BY MessageComesFromRead DEF TypeInv
  <2> QED
    BY <2>1 DEF DeafInv, NoInputLeft
<1> QED
  BY <1>1, <1>2, <1>3, SyncInvariant, PTL DEF Spec, NoMessageAfterClosing

-----------------------------------------------------------------------------
(***************************************************************************)
(* The FIN after the data.  handleWrite takes "WriteIntoKernel returned    *)
(* false" for "everything was written", also when write took nothing.      *)
(* That does not happen while the event it acts upon is true: the send     *)
(* buffer has room, unless our side is shut or reset already and no FIN    *)
(* can follow.  A send in the message callback, or in a callback of        *)
(* somebody else earlier in the round, uses the room up; one in the        *)
(* closing callback does so too, but the removal that follows stops the    *)
(* writing.                                                                *)
(***************************************************************************)
RoomInv ==
    /\ loopPc \in {"before", "read", "write"} /\ "out" \in revents
    /\ isWriting /\ ~InClosing
    => Len(snd) < SndSize \/ finSent \/ reset

LEMMA RoomSame ==
    ASSUME RoomInv, UNCHANGED <<loop, disp, revents, snd, finSent, reset>>
    PROVE  RoomInv'
  BY DEF RoomInv, InClosing, loop, disp

\* A close stops the writing until its callback has returned.
LEMMA CloseStopsWriting ==
    ASSUME LoopType, NEW st, NEW next, DoClose(st, next)
    PROVE  ~isWriting' \/ UNCHANGED <<isWriting, frames>>
  BY DEF DoClose

LEMMA RoomKept ==
    ASSUME "send" \notin MessageOps \cup OtherOps,
           StreamInv, LoopType, SyncInv, RoomInv, Next
    PROVE  RoomInv'
<1>1. CASE Wait
  <2>1. UNCHANGED <<snd, finSent, reset>>
    BY <1>1 DEF Wait, out, net
  <2>2. "out" \in Reported => Len(snd) < SndSize \/ finSent \/ reset
    BY DEF Reported, Poll
  <2> QED
    BY <1>1, <2>1, <2>2 DEF Wait, RoomInv
<1>2. CASE HandleHup \/ HandleRead
  <2>1. /\ loopPc \in {"before", "read"} /\ ~InClosing
        /\ UNCHANGED <<revents, snd, finSent, reset>>
    BY <1>2 DEF HandleHup, HandleRead, out, net, InClosing
  <2>2. ~isWriting' \/ UNCHANGED isWriting
    BY <1>2, CloseStopsWriting DEF HandleHup, HandleRead
  <2> QED
    BY <2>1, <2>2 DEF RoomInv
<1>3. CASE HandleWrite \/ HandleError \/ BeginTasks \/ EndTasks \/ RunTask
  <2>1. loopPc' \notin {"before", "read", "write"}
    BY <1>3 DEF HandleWrite, HandleError, BeginTasks, EndTasks, RunTask, DoShutdown,
                ShutdownWrite, DoClose, loop
  <2> QED
    BY <2>1 DEF RoomInv
\* Only the closing callback sends on this thread.
<1>4. ASSUME NEW n \in Sizes, CallSend(n)
      PROVE  RoomInv'
  <2>1. MayCall("send") /\ UNCHANGED loop
    BY <1>4 DEF CallSend
  <2>2. frames # <<>> /\ frames[Len(frames)] # "message"
    BY <2>1 DEF MayCall
  <2>3. Len(frames) \in 1 .. Len(frames) /\ frames[Len(frames)] = "closing"
    BY <2>2, CallbackReturns DEF LoopType
  <2>4. InClosing'
    BY <2>1, <2>3 DEF InClosing, loop
  <2> QED
    BY <2>4 DEF RoomInv
<1>5. CASE CallShutdown
  <2>1. UNCHANGED <<isWriting, revents, snd, reset>> /\ DoShutdown(loopPc)
    BY <1>5 DEF CallShutdown, disp, out, net
  <2>2. CASE UNCHANGED <<loopPc, frames>> /\ (UNCHANGED finSent \/ finSent' = TRUE)
    BY <2>1, <2>2 DEF RoomInv, InClosing
  <2>3. CASE loopPc' = "failed"
    BY <2>3 DEF RoomInv
  <2> QED
    BY <2>1, <2>2, <2>3 DEF DoShutdown, ShutdownWrite
<1>6. CASE CallForceClose
  <2>1. UNCHANGED <<revents, snd, finSent, reset>>
    BY <1>6 DEF CallForceClose, out, net
  <2>2. PICK st : DoClose(st, loopPc)
    BY <1>6 DEF CallForceClose
  <2>3. loopPc' = loopPc /\ (~isWriting' \/ UNCHANGED <<isWriting, frames>>)
    BY <2>2, CloseStopsWriting DEF DoClose
  <2> QED
    BY <2>1, <2>3 DEF RoomInv, InClosing
<1>7. CASE Return
  <2>1. /\ frames # <<>> /\ UNCHANGED <<loopPc, revents, snd, finSent, reset>>
    BY <1>7 DEF Return, out, net
  <2>2. CASE frames[Len(frames)] = "closing"
    <3>1. ~isWriting'
      BY <1>7, <2>2 DEF Return, DoRemove
    <3> QED
      BY <3>1 DEF RoomInv
  <2>3. CASE frames[Len(frames)] = "message"
    <3>1. Len(frames) = 1
      BY <2>1, <2>3, CallbackReturns DEF LoopType, SyncInv, MessageIsFirst
    <3>2. ~InClosing /\ UNCHANGED isWriting
      BY <1>7, <2>3, <3>1 DEF Return, disp, InClosing
    <3> QED
      BY <2>1, <3>2 DEF RoomInv
  <2> QED
    BY <2>1, <2>2, <2>3, CallbackReturns DEF LoopType
<1>8. ASSUME NEW u \in Users, UserStep(u)
      PROVE  RoomInv'
  <2>1. UNCHANGED <<loop, disp, revents, snd, finSent, reset>>
    BY <1>8, Zenon DEF UserStep, UserGoesOn, UserLooks, UserStores, UserQueues, out, net
  <2> QED
    BY <2>1, RoomSame
<1>9. CASE PeerReceives
  <2>1. /\ UNCHANGED <<loop, disp, revents, finSent, reset>>
        /\ snd # <<>> /\ snd' = Tail(snd)
    BY <1>9, Zenon DEF PeerReceives, Local, net
  <2>2. Len(snd') = Len(snd) - 1 /\ Len(snd) \in Nat /\ SndSize \in Nat
    BY <2>1, HeadTailProperties, LenProperties, ConnectionAssumption DEF StreamInv
  <2>3. Len(snd) < SndSize => Len(snd') < SndSize
    BY <2>2
  <2> QED
    BY <2>1, <2>3 DEF RoomInv, InClosing, loop, disp
<1>10. CASE PeerSends \/ PeerFins
  <2>1. UNCHANGED <<loop, disp, revents, snd, finSent, reset>>
    BY <1>10, Zenon DEF PeerSends, PeerFins, Local
  <2> QED
    BY <2>1, RoomSame
<1>11. CASE PeerResets
  BY <1>11 DEF PeerResets, RoomInv
<1> QED
  BY <1>1, <1>2, <1>3, <1>4, <1>5, <1>6, <1>7, <1>8, <1>9, <1>10, <1>11
     DEF Next, LoopStep, CallbackStep, PeerStep

\* When there is room, a write that leaves nothing to be continued wrote all.
LEMMA NothingLeft ==
    ASSUME NEW b, IsBuffer(b), snd \in Seq(Nat), Len(snd) < SndSize,
           ~finSent, ~reset, ReadableSize(b) > 0, ~Left(b)
    PROVE  ReadableSize(Written(b)) = 0
<1>1. /\ b.readIndex \in Nat /\ b.writeIndex \in Nat /\ ReadableSize(b) \in Nat
      /\ b.readIndex + ReadableSize(b) = b.writeIndex
      /\ Len(snd) \in Nat /\ SndSize \in Nat
  BY BufferFacts, LenProperties, ConnectionAssumption
<1>2. Sendable(b) > 0 /\ Sendable(b) \in Nat
  BY <1>1 DEF Sendable
<1>3. Sendable(b) = ReadableSize(b)
  <2>1. Len(snd) <= SndSize
    BY <1>1
  <2>2. Sendable(b) \in 0 .. ReadableSize(b)
    BY <2>1, SendableFits
  <2> QED
    BY <1>1, <1>2, <2>2 DEF Left
<1>4. Written(b) = Consumed(b, ReadableSize(b))
  BY <1>2, <1>3 DEF Written
<1>5. Written(b) = Members(b.bytes, b.capacity, 0, 0)
  BY <1>1, <1>4 DEF Consumed
<1> QED
  BY <1>5 DEF ReadableSize, Members

LEMMA FinFollowsData ==
    ASSUME StreamInv, RoomInv, Next, finSent', ~finSent
    PROVE  ReadableSize(outBuffer') = 0
<1>0. finSent' # finSent
  OBVIOUS
<1>1. CASE HandleWrite
  <2>1. /\ loopPc = "write" /\ "out" \in revents /\ ReadableSize(outBuffer) > 0
        /\ isWriting /\ frames = <<>>
        /\ outBuffer' = Written(outBuffer) /\ ~Left(outBuffer) /\ ~reset
    BY <1>0, <1>1 DEF HandleWrite, WriteIntoKernel, ShutdownWrite
  <2>2. Len(snd) < SndSize
    BY <2>1 DEF RoomInv, InClosing
  <2> QED
    BY <2>1, <2>2, NothingLeft DEF StreamInv
<1>2. ASSUME NEW next, DoShutdown(next), UNCHANGED out
      PROVE  ReadableSize(outBuffer') = 0
  BY <1>0, <1>2 DEF DoShutdown, out, ReadableSize
<1>3. CASE RunTask
  BY <1>0, <1>2, <1>3 DEF RunTask
<1>4. CASE CallShutdown
  BY <1>2, <1>4 DEF CallShutdown
<1>5. ~(Wait \/ HandleHup \/ HandleRead \/ HandleError \/ BeginTasks \/ EndTasks)
  BY <1>0 DEF Wait, HandleHup, HandleRead, HandleError, BeginTasks, EndTasks
<1>6. ~(CallForceClose \/ Return) /\ ~ \E n \in Sizes : CallSend(n)
  BY <1>0 DEF CallForceClose, Return, CallSend
<1>7. ~ \E u \in Users : UserStep(u)
  BY <1>0 DEF UserStep, UserGoesOn, UserLooks, UserStores, UserQueues
<1>8. ~PeerStep
  BY <1>0 DEF PeerStep, PeerReceives, PeerSends, PeerFins, PeerResets, Local
<1> QED
  BY <1>1, <1>3, <1>4, <1>5, <1>6, <1>7, <1>8 DEF Next, LoopStep, CallbackStep

\* If neither the message callback nor other code on the loop thread sends, our
\* side of a connection is shut only when nothing waits to be written, whatever
\* other threads and the closing callback send and shut
\* (TcpConnection.cpp:100-107, 136-146).
THEOREM FinAfterDataHolds ==
    ASSUME "send" \notin MessageOps \cup OtherOps
    PROVE  Spec => FinAfterData
<1>1. Init => RoomInv
  BY DEF Init, RoomInv
<1>2. TypeInv /\ SyncInv /\ RoomInv /\ [Next]_vars => RoomInv'
  <2> SUFFICES ASSUME TypeInv, SyncInv, RoomInv, [Next]_vars
               PROVE  RoomInv'
    OBVIOUS
  <2>1. CASE Next
    BY <2>1, RoomKept DEF TypeInv
  <2>2. CASE UNCHANGED vars
    BY <2>2, RoomSame DEF vars, out, net
  <2> QED
    BY <2>1, <2>2
<1>3. TypeInv /\ RoomInv /\ [Next]_vars =>
          [finSent' /\ ~finSent => ReadableSize(outBuffer') = 0]_vars
  BY FinFollowsData DEF TypeInv
<1> QED
  BY <1>1, <1>2, <1>3, SyncInvariant, PTL DEF Spec, FinAfterData

-----------------------------------------------------------------------------
(***************************************************************************)
(* The life of a connection.  The closing callback is called once because  *)
(* handleClose looks at _currState, which is Disconnected as soon as the   *)
(* callback has returned: so nothing may force a close from within the     *)
(* callback, and no other thread may store Disconnecting over Disconnected *)
(* or queue a close that is run in the callback's Reactor.                 *)
(***************************************************************************)
OnlySends ==
    /\ \A i \in 1 .. Len(queue) : queue[i].op = "send"
    /\ \A u \in Users : \A t \in Tasks :
           /\ userPc[u] # <<"store", t>>
           /\ userPc[u] = <<"queue", t>> => t.op = "send"

ToldOnce == closings \in {0, 1}
Nesting == frames \in {<<>>, <<"message">>, <<"closing">>, <<"message", "closing">>}
TellingNow == InClosing => closings = 1 /\ currState # "Disconnected"
ToldIsOver ==
    closings = 1 /\ ~InClosing /\ loopPc # "failed" => currState = "Disconnected"

LifeInv == OnlySends /\ ToldOnce /\ Nesting /\ TellingNow /\ ToldIsOver

\* Callbacks one in another.
LEMMA NestedCallbacks ==
    /\ Append(<<>>, "closing") = <<"closing">>
    /\ Append(<<"message">>, "closing") = <<"message", "closing">>
    /\ SubSeq(<<"closing">>, 1, Len(<<"closing">>) - 1) = <<>>
    /\ SubSeq(<<"message", "closing">>, 1, Len(<<"message", "closing">>) - 1) = <<"message">>
    /\ \E i \in 1 .. Len(<<"closing">>) : <<"closing">>[i] = "closing"
    /\ \E i \in 1 .. Len(<<"message", "closing">>) : <<"message", "closing">>[i] = "closing"
<1> DEFINE F == {"message", "closing"}
<1>0. /\ <<"message">> \in Seq(F) /\ <<"message", "closing">> \in Seq(F)
      /\ Len(<<"message">>) = 1 /\ Len(<<"message", "closing">>) = 2
      /\ <<"message">>[1] = "message" /\ <<"message", "closing">>[1] = "message"
      /\ <<"message", "closing">>[2] = "closing"
  OBVIOUS
<1>1. /\ Append(<<>>, "closing") = <<"closing">>
      /\ Append(<<"message">>, "closing") = <<"message", "closing">>
  <2>1. Append(<<>>, "closing") = <<"closing">>
    <3>1. <<>> \in Seq(F) /\ "closing" \in F /\ <<"closing">> \in Seq(F)
      OBVIOUS
    <3>2. Append(<<>>, "closing") = <<>> \o <<"closing">>
      BY <3>1, AppendIsConcat
    <3> QED
      BY <3>1, <3>2, ConcatEmptySeq
  <2>2. /\ Append(<<"message">>, "closing") \in Seq(F)
        /\ Len(Append(<<"message">>, "closing")) = Len(<<"message">>) + 1
        /\ \A i \in 1 .. Len(<<"message">>) :
              Append(<<"message">>, "closing")[i] = <<"message">>[i]
        /\ Append(<<"message">>, "closing")[Len(<<"message">>) + 1] = "closing"
    <3>1. "closing" \in F
      OBVIOUS
    <3> QED
      BY <1>0, <3>1, AppendProperties
  <2>3. 1 + 1 = 2 /\ 1 .. 2 = {1, 2} /\ 1 .. 1 = {1}
    OBVIOUS
  <2>4. \A i \in 1 .. 2 : Append(<<"message">>, "closing")[i] = <<"message", "closing">>[i]
    BY <1>0, <2>2, <2>3
  <2>5. Len(Append(<<"message">>, "closing")) = 2
    BY <1>0, <2>2, <2>3
  <2> QED
    BY <1>0, <2>1, <2>2, <2>4, <2>5, SeqEqual
<1>2. Len(<<"closing">>) = 1 /\ Len(<<"message", "closing">>) = 2
  OBVIOUS
<1>3. SubSeq(<<"closing">>, 1, 0) = <<>>
  BY SubSeqEmpty
<1>4. SubSeq(<<"message", "closing">>, 1, 1) = <<"message">>
  <2>1. \A i \in 1 .. 1 : <<"message", "closing">>[i] \in F
    BY <1>0
  <2>2. /\ SubSeq(<<"message", "closing">>, 1, 1) \in Seq(F)
        /\ Len(SubSeq(<<"message", "closing">>, 1, 1)) = 1
        /\ \A i \in 1 .. 1 :
              SubSeq(<<"message", "closing">>, 1, 1)[i] = <<"message", "closing">>[i]
    BY <1>0, <2>1, SubSeqProperties
  <2>3. \A i \in 1 .. 1 : SubSeq(<<"message", "closing">>, 1, 1)[i] = <<"message">>[i]
    BY <1>0, <2>2
  <2> QED
    BY <1>0, <2>2, <2>3, SeqEqual
<1>5. \E i \in 1 .. 1 : <<"closing">>[i] = "closing"
  OBVIOUS
<1>6. \E i \in 1 .. 2 : <<"message", "closing">>[i] = "closing"
  OBVIOUS
<1>7. 1 - 1 = 0 /\ 2 - 1 = 1
  OBVIOUS
<1> QED
  BY <1>1, <1>2, <1>3, <1>4, <1>5, <1>6, <1>7

LEMMA OnlySendsKept ==
    ASSUME UserOps \subseteq {"send"}, TasksType, OnlySends, Next
    PROVE  OnlySends'
<1>0. queue \in Seq(Tasks) /\ Len(queue) \in Nat
  BY LenProperties DEF TasksType
<1>1. CASE UNCHANGED <<queue, userPc>>
  BY <1>1 DEF OnlySends
<1>2. CASE RunTask
  <2>1. batch > 0 /\ queue' = Tail(queue) /\ UNCHANGED userPc
    BY <1>2 DEF RunTask
  <2>2. queue # <<>>
    BY <2>1, NextTask
  <2>3. /\ Len(queue') = Len(queue) - 1
        /\ \A i \in 1 .. Len(queue') : queue'[i] = queue[i + 1]
    BY <1>0, <2>1, <2>2, HeadTailProperties
  <2>4. \A i \in 1 .. Len(queue') : i + 1 \in 1 .. Len(queue)
    BY <1>0, <2>3
  <2> QED
    BY <2>1, <2>3, <2>4 DEF OnlySends
<1>3. ASSUME NEW u \in Users, NEW t \in Tasks, UserLooks(u, t)
      PROVE  OnlySends'
  <2>1. /\ t.op = "send" /\ UNCHANGED queue
        /\ userPc' = [userPc EXCEPT ![u] = <<"queue", t>>]
    BY <1>3 DEF UserLooks, tasks
  <2>2. \A v \in Users : userPc'[v] = IF v = u THEN <<"queue", t>> ELSE userPc[v]
    BY <2>1 DEF TasksType
  <2> QED
    BY <2>1, <2>2 DEF OnlySends
<1>4. ASSUME NEW u \in Users, NEW t \in Tasks, UserQueues(u, t)
      PROVE  OnlySends'
  <2>1. /\ userPc[u] = <<"queue", t>> /\ queue' = Append(queue, t)
        /\ userPc' = [userPc EXCEPT ![u] = <<>>]
    BY <1>4 DEF UserQueues
  <2>2. t.op = "send"
    BY <2>1 DEF OnlySends
  <2>3. /\ Len(queue') = Len(queue) + 1
        /\ \A i \in 1 .. Len(queue) : queue'[i] = queue[i]
        /\ queue'[Len(queue) + 1] = t
    BY <1>0, <2>1, <2>2, AppendProperties
  <2>4. \A i \in 1 .. Len(queue') : i \in 1 .. Len(queue) \/ i = Len(queue) + 1
    BY <1>0, <2>3
  <2>5. \A i \in 1 .. Len(queue') : queue'[i].op = "send"
    BY <2>2, <2>3, <2>4 DEF OnlySends
  <2>6. \A v \in Users : userPc'[v] = IF v = u THEN <<>> ELSE userPc[v]
    BY <2>1 DEF TasksType
  <2>7. \A v \in Users : \A x \in Tasks :
            /\ userPc'[v] # <<"store", x>>
            /\ userPc'[v] = <<"queue", x>> => x.op = "send"
    BY <2>6 DEF OnlySends
  <2> QED
    BY <2>5, <2>7 DEF OnlySends
<1>5. ~ \E u \in Users : \E t \in Tasks : UserStores(u, t)
  BY DEF UserStores, OnlySends
<1>6. CASE \/ Wait \/ HandleHup \/ HandleRead \/ HandleWrite \/ HandleError
           \/ BeginTasks \/ EndTasks
  BY <1>1, <1>6, Zenon DEF Wait, HandleHup, HandleRead, HandleWrite, HandleError,
                           BeginTasks, EndTasks, tasks
<1>7. CASE CallbackStep
  BY <1>1, <1>7, Zenon DEF CallbackStep, CallSend, CallShutdown, CallForceClose, Return, tasks
<1>8. CASE PeerStep
  BY <1>1, <1>8, Zenon DEF PeerStep, PeerReceives, PeerSends, PeerFins, PeerResets, Local, tasks
<1> QED
  BY <1>2, <1>3, <1>4, <1>5, <1>6, <1>7, <1>8 DEF Next, LoopStep, UserStep, UserGoesOn

\* What a step shows of the connection's life.
Lives == CL!Next \/ UNCHANGED CL!vars

\* Calls and events that neither tell nor remove.
LEMMA LifeSame ==
    ASSUME LifeInv, OnlySends', UNCHANGED <<currState, closings, inMap>>,
           \/ loopPc # "failed" /\ UNCHANGED frames
           \/ UNCHANGED loop
           \/ loopPc' = "failed" /\ frames' = <<>>
    PROVE  LifeInv' /\ Lives
<1>1. Lives
  BY DEF Lives, CL!vars
<1>2. CASE UNCHANGED frames /\ (loopPc' = loopPc \/ loopPc # "failed")
  <2>1. InClosing' <=> InClosing
    BY <1>2 DEF InClosing
  <2>2. ToldOnce' /\ TellingNow'
    BY <2>1 DEF LifeInv, ToldOnce, TellingNow
  <2>3. Nesting'
    BY <1>2 DEF LifeInv, Nesting
  <2>4. ToldIsOver'
    BY <1>2, <2>1 DEF LifeInv, ToldIsOver
  <2> QED
    BY <1>1, <2>2, <2>3, <2>4 DEF LifeInv
<1>3. CASE loopPc' = "failed" /\ frames' = <<>>
  <2>1. ~InClosing'
    BY <1>3 DEF InClosing
  <2>2. ToldOnce' /\ TellingNow' /\ ToldIsOver'
    BY <1>3, <2>1 DEF LifeInv, ToldOnce, TellingNow, ToldIsOver
  <2>3. Nesting'
    BY <1>3 DEF Nesting
  <2> QED
    BY <1>1, <2>2, <2>3 DEF LifeInv
<1> QED
  BY <1>1, <1>2, <1>3 DEF loop

\* A close that finds the connection not yet removed tells the user, once.
LEMMA CloseTells ==
    ASSUME LoopType, LifeInv, OnlySends', ~InClosing, loopPc # "failed",
           NEW st, NEW next, DoClose(st, next), UNCHANGED inMap,
           st = currState \/ (st = "Disconnecting" /\ currState # "Disconnected")
    PROVE  LifeInv' /\ Lives
<1>1. CASE st = "Disconnected"
  <2>1. UNCHANGED <<currState, closings, frames>> /\ currState = "Disconnected"
    BY <1>1 DEF DoClose
  <2> QED
    BY <2>1, LifeSame
<1>2. CASE st # "Disconnected"
  <2>1. currState # "Disconnected" /\ closings = 0
    BY <1>2 DEF LifeInv, ToldOnce, ToldIsOver
  <2>2. closings' = 1 /\ currState' = st /\ frames' = Append(frames, "closing")
    BY <1>2, <2>1 DEF DoClose
  <2>3. frames = <<>> \/ frames = <<"message">>
    BY DEF LifeInv, Nesting, InClosing
  <2>4. frames' = <<"closing">> \/ frames' = <<"message", "closing">>
    BY <2>2, <2>3, NestedCallbacks
  <2>5. InClosing'
    BY <2>4, NestedCallbacks DEF InClosing
  <2>6. LifeInv'
    BY <1>2, <2>2, <2>4, <2>5 DEF LifeInv, ToldOnce, Nesting, TellingNow, ToldIsOver
  <2>7. CL!Tell
    BY <2>1, <2>2 DEF CL!Tell
  <2> QED
    BY <2>6, <2>7 DEF Lives, CL!Next
<1> QED
  BY <1>1, <1>2

LEMMA LifeKept ==
    ASSUME UserOps \subseteq {"send"}, "force" \notin ClosingOps,
           FlagsType, LoopType, TasksType, SyncInv, LifeInv, Next
    PROVE  LifeInv' /\ Lives
<1>0. OnlySends'
  BY OnlySendsKept DEF LifeInv
<1>1. CASE Wait \/ HandleError \/ BeginTasks \/ EndTasks
  <2>1. UNCHANGED <<currState, closings, inMap, frames>> /\ loopPc # "failed"
    BY <1>1 DEF Wait, HandleError, BeginTasks, EndTasks
  <2> QED
    BY <1>0, <2>1, LifeSame
<1>2. CASE HandleHup
  <2>1. loopPc # "failed" /\ UNCHANGED inMap /\ ~InClosing
    BY <1>2 DEF HandleHup, InClosing
  <2>2. CASE DoClose(currState, "read")
    BY <1>0, <2>1, <2>2, CloseTells
  <2>3. CASE UNCHANGED <<currState, frames, closings>>
    BY <1>0, <2>1, <2>3, LifeSame
  <2> QED
    BY <1>2, <2>2, <2>3 DEF HandleHup
<1>3. CASE HandleRead
  <2>1. loopPc # "failed" /\ UNCHANGED inMap /\ ~InClosing
    BY <1>3 DEF HandleRead, InClosing
  <2>2. CASE DoClose(currState, "write")
    BY <1>0, <2>1, <2>2, CloseTells
  <2>3. CASE UNCHANGED <<currState, frames, closings>>
    BY <1>0, <2>1, <2>3, LifeSame
  <2>4. CASE frames' = <<"message">> /\ UNCHANGED <<currState, closings>>
    <3>1. ~InClosing'
      BY <2>4 DEF InClosing
    <3> QED
      BY <1>0, <2>1, <2>4, <3>1
         DEF LifeInv, ToldOnce, Nesting, TellingNow, ToldIsOver, Lives, CL!vars
  <2> QED
    BY <1>3, <2>2, <2>3, <2>4 DEF HandleRead
<1>4. CASE HandleWrite
  <2>1. UNCHANGED <<currState, closings, inMap>> /\ loopPc # "failed"
    BY <1>4 DEF HandleWrite
  <2>2. UNCHANGED frames \/ (loopPc' = "failed" /\ frames' = <<>>)
    BY <1>4 DEF HandleWrite, ShutdownWrite
  <2> QED
    BY <1>0, <2>1, <2>2, LifeSame
<1>5. CASE RunTask
  <2>1. Head(queue).op = "send"
    <3>1. queue \in Seq(Tasks) /\ queue # <<>>
      BY <1>5, NextTask DEF RunTask, TasksType
    <3>2. Len(queue) \in Nat /\ Len(queue) # 0 /\ Head(queue) = queue[1]
      BY <3>1, LenProperties, EmptySeq
    <3> QED
      BY <3>2 DEF LifeInv, OnlySends
  <2>2. UNCHANGED <<currState, loop, closings, inMap>>
    BY <1>5, <2>1 DEF RunTask
  <2> QED
    BY <1>0, <2>2, LifeSame
<1>6. ASSUME NEW n \in Sizes, CallSend(n)
      PROVE  LifeInv' /\ Lives
  <2>1. UNCHANGED <<currState, loop, closings, inMap>>
    BY <1>6 DEF CallSend
  <2> QED
    BY <1>0, <2>1, LifeSame
<1>7. CASE CallShutdown
  <2>1. /\ currState = "Connected" /\ currState' = "Disconnecting"
        /\ UNCHANGED <<closings, inMap>> /\ DoShutdown(loopPc)
    BY <1>7 DEF CallShutdown
  <2>2. Lives
    BY <2>1 DEF Lives, CL!Next, CL!StartClosing
  <2>3. CASE UNCHANGED <<loopPc, frames>>
    BY <1>0, <2>1, <2>2, <2>3 DEF LifeInv, ToldOnce, Nesting, TellingNow, ToldIsOver, InClosing
  <2>4. CASE loopPc' = "failed" /\ frames' = <<>>
    <3>1. ~InClosing'
      BY <2>4 DEF InClosing
    <3> QED
      BY <1>0, <2>1, <2>2, <2>4, <3>1 DEF LifeInv, ToldOnce, Nesting, TellingNow, ToldIsOver
  <2> QED
    BY <2>1, <2>3, <2>4 DEF DoShutdown, ShutdownWrite
<1>8. CASE CallForceClose
  <2>1. MayCall("force") /\ UNCHANGED inMap
    BY <1>8 DEF CallForceClose
  <2>2. ~InClosing
    BY <2>1 DEF MayCall, InClosing, LifeInv, Nesting
  <2>3. loopPc # "failed"
    BY <2>1 DEF MayCall, SyncInv, IdleOutside
  <2>4. PICK st : /\ DoClose(st, loopPc)
                  /\ st = currState \/ (st = "Disconnecting" /\ currState # "Disconnected")
    BY <1>8 DEF CallForceClose
  <2> QED
    BY <1>0, <2>1, <2>2, <2>3, <2>4, CloseTells
<1>9. CASE Return
  <2>1. /\ frames # <<>> /\ frames' = SubSeq(frames, 1, Len(frames) - 1)
        /\ UNCHANGED <<loopPc, closings>> /\ loopPc # "failed"
    BY <1>9 DEF Return, SyncInv, IdleOutside
  <2>2. CASE frames = <<"message">>
    <3>1. ~InClosing /\ UNCHANGED <<currState, inMap>>
      BY <1>9, <2>2 DEF Return, InClosing
    <3>2. frames' = <<>>
      BY <2>1, <2>2
    <3>3. ~InClosing'
      BY <3>2 DEF InClosing
    <3> QED
      BY <1>0, <2>1, <3>1, <3>2, <3>3
         DEF LifeInv, ToldOnce, Nesting, TellingNow, ToldIsOver, Lives, CL!vars
  <2>3. CASE frames = <<"closing">> \/ frames = <<"message", "closing">>
    <3>1. frames[Len(frames)] = "closing" /\ InClosing
      BY <2>3 DEF InClosing
    <3>2. currState' = "Disconnected" /\ inMap' = FALSE
      BY <1>9, <3>1 DEF Return, DoRemove
    <3>3. closings = 1 /\ currState # "Disconnected"
      BY <3>1 DEF LifeInv, TellingNow
    <3>4. frames' = <<>> \/ frames' = <<"message">>
      BY <2>1, <2>3, NestedCallbacks
    <3>5. ~InClosing'
      BY <3>4 DEF InClosing
    <3>6. CL!Remove
      BY <2>1, <3>2, <3>3 DEF CL!Remove
    <3> QED
      BY <1>0, <2>1, <3>2, <3>3, <3>4, <3>5, <3>6
         DEF LifeInv, ToldOnce, Nesting, TellingNow, ToldIsOver, Lives, CL!Next
  <2> QED
    BY <2>1, <2>2, <2>3 DEF LifeInv, Nesting
<1>10. ASSUME NEW u \in Users, UserStep(u)
       PROVE  LifeInv' /\ Lives
  <2>1. UNCHANGED <<loop, closings, inMap>>
    BY <1>10, Zenon DEF UserStep, UserGoesOn, UserLooks, UserStores, UserQueues
  <2>2. UNCHANGED currState
    BY <1>10 DEF UserStep, UserGoesOn, UserLooks, UserStores, UserQueues, LifeInv, OnlySends
  <2> QED
    BY <1>0, <2>1, <2>2, LifeSame
<1>11. CASE PeerStep
  <2>1. UNCHANGED <<currState, loop, closings, inMap>>
    BY <1>11, Zenon DEF PeerStep, PeerReceives, PeerSends, PeerFins, PeerResets, Local
  <2> QED
    BY <1>0, <2>1, LifeSame
<1> QED
  BY <1>1, <1>2, <1>3, <1>4, <1>5, <1>6, <1>7, <1>8, <1>9, <1>10, <1>11
     DEF Next, LoopStep, CallbackStep

\* If other threads only send and nobody forces a close from within the closing
\* callback, a connection lives as ConnectionLifecycle says: it may start to
\* close, calls the closing callback once, and is then removed for good
\* (TcpConnection.cpp:44-52, 79-98, 156-172).
THEOREM Refinement ==
    ASSUME UserOps \subseteq {"send"}, "force" \notin ClosingOps
    PROVE  Spec => ImplementsLifecycle
<1>1. Init => LifeInv /\ CL!Init
  <2> SUFFICES ASSUME Init
               PROVE  LifeInv /\ CL!Init
    OBVIOUS
  <2>1. CL!Init
    BY DEF Init, CL!Init
  <2>2. ~InClosing
    BY DEF Init, InClosing
  <2> QED
    BY <2>1, <2>2 DEF Init, LifeInv, OnlySends, ToldOnce, Nesting, TellingNow, ToldIsOver
<1>2. TypeInv /\ SyncInv /\ LifeInv /\ [Next]_vars => LifeInv' /\ [CL!Next]_(CL!vars)
  <2> SUFFICES ASSUME TypeInv, SyncInv, LifeInv, [Next]_vars
               PROVE  LifeInv' /\ [CL!Next]_(CL!vars)
    OBVIOUS
  <2>1. CASE Next
    BY <2>1, LifeKept DEF TypeInv, Lives
  <2>2. CASE UNCHANGED vars
    <3>1. UNCHANGED <<currState, closings, inMap, loop>> /\ OnlySends'
      BY <2>2 DEF vars, LifeInv, OnlySends, tasks
    <3> QED
      BY <3>1, LifeSame DEF Lives
  <2> QED
    BY <2>1, <2>2
<1> QED
  BY <1>1, <1>2, SyncInvariant, PTL DEF Spec, ImplementsLifecycle, CL!Spec

=============================================================================
