------------------------ MODULE BlockingQueueProofs ------------------------
(***************************************************************************)
(* Proofs about BlockingQueue, for any threads and any size.               *)
(***************************************************************************)
EXTENDS BlockingQueue, SequenceTheorems, FiniteSetTheorems, TLAPS

\* A thread that is inside Push has called it: what it pushes has a number.
PushCounted == \A p \in Producers : pc[p] # "outside" => pushes[p] >= 1

IInv == TypeOK /\ PushCounted

Pcs == {"outside", "called", "waiting", "woken"}

\* Whoever leaves moves itself and at most one waiter, to where they may be.
LEMMA LeavesFacts ==
    ASSUME TypeOK, NEW t \in Threads, Leaves(t)
    PROVE  /\ pc' \in [Threads -> Pcs]
           /\ \A u \in Threads : pc'[u] # "outside" => pc[u] # "outside"
<1>1. pc \in [Threads -> Pcs]
  BY DEF TypeOK, Pcs
<1>2. CASE Waiting = {}
  BY <1>1, <1>2 DEF Leaves, Pcs
<1>3. CASE Waiting # {}
  <2>1. PICK w \in Waiting :
            pc' = [pc EXCEPT ![t] = "outside", ![w] = "woken"]
    BY <1>3 DEF Leaves
  <2>2. w \in Threads /\ pc[w] = "waiting"
    BY DEF Waiting
  <2> QED
    BY <1>1, <2>1, <2>2 DEF Pcs
<1> QED
  BY <1>2, <1>3

LEMMA InitInv == Init => IInv
<1> SUFFICES ASSUME Init
             PROVE  IInv
  OBVIOUS
<1>1. queue \in Seq(Items) /\ Len(queue) <= Size
  BY QueueAssumption DEF Init, QueueAssumption
<1>2. pushes \in [Producers -> 0 .. MaxPushes] /\ throws \in 0 .. MaxThrows
  BY QueueAssumption DEF Init, QueueAssumption
<1>3. pc \in [Threads -> Pcs]
  BY DEF Init, Pcs
<1>4. PushCounted
  BY DEF Init, PushCounted, Threads
<1> QED
  BY <1>1, <1>2, <1>3, <1>4 DEF Init, IInv, TypeOK, Pcs

\* What Push puts into the queue is an element, and there is room for it.
LEMMA PushFacts ==
    ASSUME IInv, NEW p \in Producers, Push(p)
    PROVE  /\ <<p, pushes[p]>> \in Items
           /\ queue' = Append(queue, <<p, pushes[p]>>)
           /\ queue' \in Seq(Items) /\ Len(queue') <= Size
<1>1. pc[p] # "outside"
  BY DEF Push, HasLock
<1>2. pushes[p] \in 1 .. MaxPushes
  BY <1>1, QueueAssumption DEF IInv, TypeOK, PushCounted, QueueAssumption
<1>3. <<p, pushes[p]>> \in Items
  BY <1>2 DEF Items
<1>4. queue \in Seq(Items) /\ Len(queue) < Size
  BY DEF IInv, TypeOK, Push
<1> QED
  BY <1>3, <1>4, AppendProperties, LenProperties, QueueAssumption
  DEF Push, QueueAssumption

\* What Pop takes was in the queue.
LEMMA PopFacts ==
    ASSUME IInv, NEW c \in Consumers, Pop(c)
    PROVE  /\ popped' \in Seq(Items)
           /\ queue' \in Seq(Items) /\ Len(queue') <= Size
<1>1. queue \in Seq(Items) /\ queue # <<>> /\ Len(queue) <= Size
  BY DEF IInv, TypeOK, Pop
<1>2. Head(queue) \in Items /\ Tail(queue) \in Seq(Items)
      /\ Len(Tail(queue)) = Len(queue) - 1
  BY <1>1, HeadTailProperties
<1>3. Len(Tail(queue)) <= Size
  BY <1>1, <1>2, LenProperties, QueueAssumption DEF QueueAssumption
<1> QED
  BY <1>2, <1>3, AppendProperties DEF IInv, TypeOK, Pop

LEMMA StepInv == IInv /\ [Next]_vars => IInv'
<1> SUFFICES ASSUME IInv, [Next]_vars
             PROVE  IInv'
  OBVIOUS
<1> USE QueueAssumption DEF QueueAssumption
<1>1. /\ pc \in [Threads -> Pcs] /\ pushes \in [Producers -> 0 .. MaxPushes]
      /\ throws \in 0 .. MaxThrows /\ PushCounted /\ TypeOK
      /\ Producers \subseteq Threads /\ Consumers \subseteq Threads
  BY DEF IInv, TypeOK, Pcs, Threads
<1>2. ASSUME NEW p \in Producers, CallPush(p)
      PROVE  IInv'
  <2>1. pushes' \in [Producers -> 0 .. MaxPushes] /\ pushes'[p] >= 1
    BY <1>1, <1>2 DEF CallPush
  <2>2. pc' \in [Threads -> Pcs]
    BY <1>1, <1>2 DEF CallPush, Pcs
  <2>3. PushCounted'
    BY <1>1, <1>2, <2>1 DEF CallPush, PushCounted
  <2> QED
    BY <1>2, <2>1, <2>2, <2>3 DEF CallPush, IInv, TypeOK, Pcs
<1>3. ASSUME NEW p \in Producers, Push(p)
      PROVE  IInv'
  <2>1. /\ pc' \in [Threads -> Pcs]
        /\ \A u \in Threads : pc'[u] # "outside" => pc[u] # "outside"
    BY <1>1, <1>3, LeavesFacts DEF Push
  <2>2. PushCounted'
    BY <1>1, <1>3, <2>1 DEF Push, PushCounted
  <2>3. queue' \in Seq(Items) /\ Len(queue') <= Size
    BY <1>3, PushFacts
  <2> QED
    BY <1>3, <2>1, <2>2, <2>3 DEF Push, IInv, TypeOK, Pcs
<1>4. ASSUME NEW c \in Consumers, Pop(c)
      PROVE  IInv'
  <2>1. /\ pc' \in [Threads -> Pcs]
        /\ \A u \in Threads : pc'[u] # "outside" => pc[u] # "outside"
    BY <1>1, <1>4, LeavesFacts DEF Pop
  <2>2. PushCounted'
    BY <1>1, <1>4, <2>1 DEF Pop, PushCounted
  <2>3. /\ popped' \in Seq(Items)
        /\ queue' \in Seq(Items) /\ Len(queue') <= Size
    BY <1>4, PopFacts
  <2> QED
    BY <1>4, <2>1, <2>2, <2>3 DEF Pop, IInv, TypeOK, Pcs
<1>5. ASSUME NEW t \in Threads, NEW there \in Pcs,
             pc' = [pc EXCEPT ![t] = there],
             t \in Producers /\ there # "outside" => pc[t] # "outside",
             UNCHANGED <<queue, pushes, popped>>, throws' \in 0 .. MaxThrows
      PROVE  IInv'
  <2>1. pc' \in [Threads -> Pcs]
    BY <1>1, <1>5
  <2>2. PushCounted'
    BY <1>1, <1>5 DEF PushCounted
  <2> QED
    BY <1>5, <2>1, <2>2 DEF IInv, TypeOK, Pcs
<1>6. ASSUME NEW p \in Producers, PushWaits(p)
      PROVE  IInv'
  BY <1>1, <1>5, <1>6 DEF PushWaits, HasLock, Pcs
<1>7. ASSUME NEW c \in Consumers, CallPop(c) \/ PopWaits(c)
      PROVE  IInv'
  <2>1. c \notin Producers
    OBVIOUS
  <2> QED
    BY <1>1, <1>5, <1>7, <2>1 DEF CallPop, PopWaits, Pcs
<1>8. ASSUME NEW t \in Threads, Throws(t) \/ WakeSpuriously(t)
      PROVE  IInv'
  <2>1. throws' \in 0 .. MaxThrows
    BY <1>1, <1>8 DEF Throws, WakeSpuriously
  <2> QED
    BY <1>1, <1>5, <1>8, <2>1 DEF Throws, WakeSpuriously, Pcs
<1>9. CASE UNCHANGED vars
  BY <1>9 DEF vars, IInv, TypeOK, PushCounted
<1> QED
  BY <1>2, <1>3, <1>4, <1>6, <1>7, <1>8, <1>9
  DEF Next, ProducerStep, ConsumerStep

LEMMA Invariance == Spec => []IInv
  BY InitInv, StepInv, PTL DEF Spec

\* The types of a BlockingQueue's state: never more elements than _size, whatever
\* wakes the threads (BlockingQueue.cpp:9-35).
THEOREM TypeCorrect == Spec => []TypeOK
<1>1. IInv => TypeOK
  BY DEF IInv
<1> QED
  BY <1>1, Invariance, PTL

\* The queue between its threads is a bounded queue: in order, each element once
\* (BlockingQueue.cpp:9-35).
THEOREM Refinement == Spec => ImplementsBoundedQueue
<1>1. Init => BQ!Init
  BY DEF Init, BQ!Init
<1>2. IInv /\ [Next]_vars => [BQ!Next]_<<queue, popped>>
  <2> SUFFICES ASSUME IInv, [Next]_vars
               PROVE  [BQ!Next]_<<queue, popped>>
    OBVIOUS
  <2>1. ASSUME NEW p \in Producers, Push(p)
        PROVE  BQ!Next
    BY <2>1, PushFacts DEF Push, BQ!Next, BQ!Put
  <2>2. ASSUME NEW c \in Consumers, Pop(c)
        PROVE  BQ!Next
    BY <2>2 DEF Pop, BQ!Next, BQ!Take
  <2>3. CASE \/ \E p \in Producers : CallPush(p) \/ PushWaits(p)
             \/ \E c \in Consumers : CallPop(c) \/ PopWaits(c)
             \/ \E t \in Threads : Throws(t) \/ WakeSpuriously(t)
             \/ UNCHANGED vars
    BY <2>3 DEF CallPush, PushWaits, CallPop, PopWaits, Throws, WakeSpuriously,
       vars
  <2> QED
    BY <2>1, <2>2, <2>3 DEF Next, ProducerStep, ConsumerStep
<1> QED
  BY <1>1, <1>2, Invariance, PTL DEF Spec, ImplementsBoundedQueue, BQ!Spec

-----------------------------------------------------------------------------
(***************************************************************************)
(* Who waits.  Threads of both kinds may wait at the same time, and a      *)
(* notification may reach the wrong kind.  But since the queue was empty   *)
(* for the last time no consumer began to wait, since it was full for the  *)
(* last time no producer, and each Push and Pop in between woke somebody.  *)
(* So the number of waiting threads is bounded by what was pushed, or      *)
(* popped, since then.                                                     *)
(***************************************************************************)
WaitingProducers == Cardinality(Waiting \cap Producers)
WaitingConsumers == Cardinality(Waiting \cap Consumers)

\* How many more there are of one kind than the queue has room for.
AtLeast0(n) == IF n > 0 THEN n ELSE 0
SpareProducers == AtLeast0(Cardinality(Producers) - Size)
SpareConsumers == AtLeast0(Cardinality(Consumers) - Size)

\* With n elements in the queue, p producers and c consumers may wait if it was
\* empty after it was last full ...
Filling(n, p, c) ==
    /\ p <= SpareProducers
    /\ p + c <= AtLeast0(SpareProducers + Cardinality(Consumers) - n)

\* ... or full after it was last empty.
Draining(n, p, c) ==
    /\ c <= SpareConsumers
    /\ p + c <= AtLeast0(SpareConsumers + Cardinality(Producers) + n - Size)

Allowed(n, p, c) == Filling(n, p, c) \/ Draining(n, p, c)

CountInv == Allowed(Len(queue), WaitingProducers, WaitingConsumers)

\* There are threads of both kinds, and at most twice as many as the queue has
\* room for.  With one more they may all end up waiting.
RoomForHalf ==
    /\ IsFiniteSet(Producers) /\ Producers # {}
    /\ IsFiniteSet(Consumers) /\ Consumers # {}
    /\ Cardinality(Producers) + Cardinality(Consumers) <= 2 * Size

LEMMA PartOfFinite ==
    ASSUME NEW S, IsFiniteSet(S), NEW T
    PROVE  /\ IsFiniteSet(T \cap S) /\ Cardinality(T \cap S) \in 0 .. Cardinality(S)
           /\ Cardinality(T \cap S) = 0 => T \cap S = {}
<1>1. T \cap S \in SUBSET S
  OBVIOUS
<1> QED
  BY <1>1, FS_Subset, FS_CardinalityType, FS_EmptySet

\* The numbers that CountInv is about.
LEMMA CountConstants ==
    ASSUME RoomForHalf
    PROVE  /\ Cardinality(Producers) \in Nat \ {0}
           /\ Cardinality(Consumers) \in Nat \ {0}
           /\ Size \in Nat \ {0}
  BY FS_CardinalityType, FS_EmptySet, QueueAssumption
  DEF RoomForHalf, QueueAssumption

LEMMA CountTypes ==
    ASSUME RoomForHalf, TypeOK
    PROVE  /\ Len(queue) \in 0 .. Size
           /\ IsFiniteSet(Waiting \cap Producers)
           /\ IsFiniteSet(Waiting \cap Consumers)
           /\ WaitingProducers \in 0 .. Cardinality(Producers)
           /\ WaitingConsumers \in 0 .. Cardinality(Consumers)
<1>1. Len(queue) \in 0 .. Size
  BY CountConstants, LenProperties DEF TypeOK
<1> QED
  BY <1>1, PartOfFinite DEF RoomForHalf, WaitingProducers, WaitingConsumers

LEMMA CountTypesNext ==
    ASSUME RoomForHalf, TypeOK'
    PROVE  /\ Len(queue') \in 0 .. Size
           /\ WaitingProducers' \in 0 .. Cardinality(Producers)
           /\ WaitingConsumers' \in 0 .. Cardinality(Consumers)
<1>1. Len(queue') \in 0 .. Size
  BY CountConstants, LenProperties DEF TypeOK
<1> QED
  BY <1>1, PartOfFinite DEF RoomForHalf, WaitingProducers, WaitingConsumers

\* One waiter less.
LEMMA WaiterGoes ==
    ASSUME RoomForHalf, TypeOK, NEW w \in Waiting, Waiting' = Waiting \ {w}
    PROVE  \/ /\ WaitingProducers' = WaitingProducers - 1
              /\ WaitingConsumers' = WaitingConsumers
           \/ /\ WaitingProducers' = WaitingProducers
              /\ WaitingConsumers' = WaitingConsumers - 1
<1>1. IsFiniteSet(Waiting \cap Producers) /\ IsFiniteSet(Waiting \cap Consumers)
  BY CountTypes
<1>2. w \in Producers \/ w \in Consumers
  BY DEF Waiting, Threads
<1>3. CASE w \in Producers
  <2>1. /\ Waiting' \cap Producers = (Waiting \cap Producers) \ {w}
        /\ Waiting' \cap Consumers = Waiting \cap Consumers
        /\ w \in Waiting \cap Producers
    BY <1>3, QueueAssumption DEF QueueAssumption
  <2> QED
    BY <1>1, <2>1, FS_RemoveElement DEF WaitingProducers, WaitingConsumers
<1>4. CASE w \in Consumers
  <2>1. /\ Waiting' \cap Consumers = (Waiting \cap Consumers) \ {w}
        /\ Waiting' \cap Producers = Waiting \cap Producers
        /\ w \in Waiting \cap Consumers
    BY <1>4, QueueAssumption DEF QueueAssumption
  <2> QED
    BY <1>1, <2>1, FS_RemoveElement DEF WaitingProducers, WaitingConsumers
<1> QED
  BY <1>2, <1>3, <1>4

\* One waiter more.
LEMMA ProducerComes ==
    ASSUME RoomForHalf, TypeOK, NEW p \in Producers, p \notin Waiting,
           Waiting' = Waiting \cup {p}
    PROVE  /\ WaitingProducers' = WaitingProducers + 1
           /\ WaitingConsumers' = WaitingConsumers
<1>1. IsFiniteSet(Waiting \cap Producers)
  BY CountTypes
<1>2. /\ Waiting' \cap Producers = (Waiting \cap Producers) \cup {p}
      /\ Waiting' \cap Consumers = Waiting \cap Consumers
  BY QueueAssumption DEF QueueAssumption
<1> QED
  BY <1>1, <1>2, FS_AddElement DEF WaitingProducers, WaitingConsumers

LEMMA ConsumerComes ==
    ASSUME RoomForHalf, TypeOK, NEW c \in Consumers, c \notin Waiting,
           Waiting' = Waiting \cup {c}
    PROVE  /\ WaitingProducers' = WaitingProducers
           /\ WaitingConsumers' = WaitingConsumers + 1
<1>1. IsFiniteSet(Waiting \cap Consumers)
  BY CountTypes
<1>2. /\ Waiting' \cap Consumers = (Waiting \cap Consumers) \cup {c}
      /\ Waiting' \cap Producers = Waiting \cap Producers
  BY QueueAssumption DEF QueueAssumption
<1> QED
  BY <1>1, <1>2, FS_AddElement DEF WaitingProducers, WaitingConsumers

\* Whoever leaves wakes a waiter, if there is one.
LEMMA LeavesWakes ==
    ASSUME RoomForHalf, TypeOK, NEW t \in Threads, HasLock(t), Leaves(t)
    PROVE  \/ /\ Waiting = {}
              /\ WaitingProducers = 0 /\ WaitingProducers' = 0
              /\ WaitingConsumers = 0 /\ WaitingConsumers' = 0
           \/ /\ \/ /\ WaitingProducers' = WaitingProducers - 1
                    /\ WaitingConsumers' = WaitingConsumers
                 \/ /\ WaitingProducers' = WaitingProducers
                    /\ WaitingConsumers' = WaitingConsumers - 1
              /\ \E u \in Threads : HasLock(u)'
<1>1. pc \in [Threads -> Pcs] /\ t \notin Waiting
  BY DEF TypeOK, Pcs, HasLock, Waiting
<1>2. CASE Waiting = {}
  <2>1. Waiting' = {}
    BY <1>1, <1>2 DEF Leaves, Waiting
  <2>2. \A S : {} \cap S = {} /\ Cardinality({}) = 0
    BY FS_EmptySet
  <2> QED
    BY <1>2, <2>1, <2>2 DEF WaitingProducers, WaitingConsumers
<1>3. CASE Waiting # {}
  <2>1. PICK w \in Waiting :
            pc' = [pc EXCEPT ![t] = "outside", ![w] = "woken"]
    BY <1>3 DEF Leaves
  <2>2. w \in Threads /\ w # t
    BY <1>1 DEF Waiting
  <2>3. Waiting' = Waiting \ {w}
    BY <1>1, <2>1, <2>2 DEF Waiting
  <2>4. HasLock(w)'
    BY <1>1, <2>1, <2>2 DEF HasLock
  <2> QED
    BY <2>2, <2>3, <2>4, WaiterGoes
<1> QED
  BY <1>2, <1>3

LEMMA CountInit == RoomForHalf /\ Init => CountInv
<1> SUFFICES ASSUME RoomForHalf, Init
             PROVE  CountInv
  OBVIOUS
<1>1. Waiting = {} /\ Len(queue) = 0
  BY DEF Init, Waiting
<1>2. WaitingProducers = 0 /\ WaitingConsumers = 0
  <2>1. Waiting \cap Producers = {} /\ Waiting \cap Consumers = {}
    BY <1>1
  <2> QED
    BY <2>1, FS_EmptySet DEF WaitingProducers, WaitingConsumers
<1>3. Filling(0, 0, 0)
  BY CountConstants DEF Filling, SpareProducers, AtLeast0
<1> QED
  BY <1>1, <1>2, <1>3 DEF CountInv, Allowed

\* What a step of a thread does to the numbers of waiting threads.
LEMMA StepKinds ==
    ASSUME RoomForHalf, IInv, [Next]_vars
    PROVE  \/ /\ \E p \in Producers : PushWaits(p)
              /\ WaitingProducers' = WaitingProducers + 1
              /\ WaitingConsumers' = WaitingConsumers
              /\ Len(queue) = Size /\ Len(queue') = Len(queue)
           \/ /\ \E c \in Consumers : PopWaits(c)
              /\ WaitingProducers' = WaitingProducers
              /\ WaitingConsumers' = WaitingConsumers + 1
              /\ Len(queue) = 0 /\ Len(queue') = Len(queue)
           \/ /\ \E t \in Threads : HasLock(t) /\ Leaves(t)
              /\ \/ Len(queue') = Len(queue) + 1
                 \/ Len(queue') = Len(queue) - 1
              /\ UNCHANGED throws
           \/ /\ \/ UNCHANGED <<WaitingProducers, WaitingConsumers>>
                 \/ /\ WaitingProducers' = WaitingProducers - 1
                    /\ WaitingConsumers' = WaitingConsumers
                 \/ /\ WaitingProducers' = WaitingProducers
                    /\ WaitingConsumers' = WaitingConsumers - 1
              /\ UNCHANGED queue
              /\ \/ \E t \in Threads : HasLock(t)'
                 \/ throws' > 0
                 \/ UNCHANGED <<pc, throws>>
<1>1. /\ TypeOK /\ pc \in [Threads -> Pcs] /\ throws \in Nat
      /\ queue \in Seq(Items)
      /\ Producers \subseteq Threads /\ Consumers \subseteq Threads
  BY QueueAssumption DEF IInv, TypeOK, Pcs, Threads, QueueAssumption
<1>2. ASSUME NEW t \in Threads, NEW there \in {"outside", "called"},
             t \notin Waiting, pc' = [pc EXCEPT ![t] = there]
      PROVE  UNCHANGED <<WaitingProducers, WaitingConsumers>>
  <2>1. Waiting' = Waiting
    BY <1>1, <1>2 DEF Waiting
  <2> QED
    BY <2>1 DEF WaitingProducers, WaitingConsumers
<1>3. ASSUME NEW t \in Producers \cup Consumers, CallPush(t) \/ CallPop(t)
      PROVE  /\ UNCHANGED <<WaitingProducers, WaitingConsumers, queue>>
             /\ \E u \in Threads : HasLock(u)'
  <2>1. t \in Threads /\ t \notin Waiting /\ pc' = [pc EXCEPT ![t] = "called"]
    BY <1>1, <1>3 DEF CallPush, CallPop, Waiting
  <2>2. HasLock(t)'
    BY <1>1, <2>1 DEF HasLock
  <2> QED
    BY <1>2, <1>3, <2>1, <2>2 DEF CallPush, CallPop
<1>4. ASSUME NEW t \in Threads, Throws(t)
      PROVE  /\ UNCHANGED <<WaitingProducers, WaitingConsumers, queue>>
             /\ throws' > 0
  <2>1. t \notin Waiting /\ pc' = [pc EXCEPT ![t] = "outside"]
    BY <1>4 DEF Throws, HasLock, Waiting
  <2>2. throws' > 0
    BY <1>1, <1>4 DEF Throws
  <2> QED
    BY <1>2, <1>4, <2>1, <2>2 DEF Throws
<1>5. ASSUME NEW t \in Threads, WakeSpuriously(t)
      PROVE  /\ \/ /\ WaitingProducers' = WaitingProducers - 1
                   /\ WaitingConsumers' = WaitingConsumers
                \/ /\ WaitingProducers' = WaitingProducers
                   /\ WaitingConsumers' = WaitingConsumers - 1
             /\ UNCHANGED queue
             /\ \E u \in Threads : HasLock(u)'
  <2>1. t \in Waiting /\ Waiting' = Waiting \ {t}
    BY <1>1, <1>5 DEF WakeSpuriously, Waiting
  <2>2. HasLock(t)'
    BY <1>1, <1>5 DEF WakeSpuriously, HasLock
  <2> QED
    BY <1>1, <1>5, <2>1, <2>2, WaiterGoes DEF WakeSpuriously
<1>6. ASSUME NEW p \in Producers, PushWaits(p)
      PROVE  /\ WaitingProducers' = WaitingProducers + 1
             /\ WaitingConsumers' = WaitingConsumers
             /\ Len(queue) = Size /\ Len(queue') = Len(queue)
  <2>1. p \notin Waiting /\ Waiting' = Waiting \cup {p}
    BY <1>1, <1>6 DEF PushWaits, HasLock, Waiting
  <2> QED
    BY <1>1, <1>6, <2>1, ProducerComes DEF PushWaits
<1>7. ASSUME NEW c \in Consumers, PopWaits(c)
      PROVE  /\ WaitingProducers' = WaitingProducers
             /\ WaitingConsumers' = WaitingConsumers + 1
             /\ Len(queue) = 0 /\ Len(queue') = Len(queue)
  <2>1. c \notin Waiting /\ Waiting' = Waiting \cup {c}
    BY <1>1, <1>7 DEF PopWaits, HasLock, Waiting
  <2> QED
    BY <1>1, <1>7, <2>1, ConsumerComes DEF PopWaits
<1>8. ASSUME NEW p \in Producers, Push(p)
      PROVE  HasLock(p) /\ Leaves(p) /\ Len(queue') = Len(queue) + 1
             /\ UNCHANGED throws
  <2>1. queue' = Append(queue, <<p, pushes[p]>>) /\ <<p, pushes[p]>> \in Items
    BY <1>8, PushFacts
  <2>2. Len(queue') = Len(queue) + 1
    BY <1>1, <2>1, AppendProperties
  <2> QED
    BY <1>8, <2>2 DEF Push
<1>9. ASSUME NEW c \in Consumers, Pop(c)
      PROVE  HasLock(c) /\ Leaves(c) /\ Len(queue') = Len(queue) - 1
             /\ UNCHANGED throws
  <2>1. Len(queue') = Len(queue) - 1
    BY <1>1, <1>9, HeadTailProperties DEF Pop
  <2> QED
    BY <1>9, <2>1 DEF Pop
<1>10. CASE UNCHANGED vars
  <2>1. Waiting' = Waiting
    BY <1>10 DEF vars, Waiting
  <2> QED
    BY <1>10, <2>1 DEF vars, WaitingProducers, WaitingConsumers
<1> QED
  BY <1>1, <1>3, <1>4, <1>5, <1>6, <1>7, <1>8, <1>9, <1>10
  DEF Next, ProducerStep, ConsumerStep

\* The steps of these numbers that keep them Allowed.
LEMMA AllowedSteps ==
    ASSUME RoomForHalf,
           NEW n \in 0 .. Size, NEW p \in 0 .. Cardinality(Producers),
           NEW c \in 0 .. Cardinality(Consumers), Allowed(n, p, c)
    PROVE  /\ n = Size /\ p + 1 <= Cardinality(Producers) => Allowed(n, p + 1, c)
           /\ n = 0 /\ c + 1 <= Cardinality(Consumers) => Allowed(n, p, c + 1)
           /\ p > 0 => /\ Allowed(n, p - 1, c)
                       /\ Allowed(n + 1, p - 1, c) /\ Allowed(n - 1, p - 1, c)
           /\ c > 0 => /\ Allowed(n, p, c - 1)
                       /\ Allowed(n + 1, p, c - 1) /\ Allowed(n - 1, p, c - 1)
           /\ p = 0 /\ c = 0 => Allowed(n + 1, p, c) /\ Allowed(n - 1, p, c)
  BY CountConstants
  DEF RoomForHalf, Allowed, Filling, Draining, SpareProducers, SpareConsumers,
      AtLeast0

LEMMA CountStep == RoomForHalf /\ IInv /\ CountInv /\ [Next]_vars => CountInv'
<1> SUFFICES ASSUME RoomForHalf, IInv, CountInv, [Next]_vars
             PROVE  CountInv'
  OBVIOUS
<1> DEFINE n == Len(queue)
           p == WaitingProducers
           c == WaitingConsumers
<1>1. TypeOK /\ TypeOK'
  BY StepInv DEF IInv
<1>2. /\ n \in 0 .. Size /\ p \in 0 .. Cardinality(Producers)
      /\ c \in 0 .. Cardinality(Consumers) /\ Allowed(n, p, c)
  BY <1>1, CountTypes DEF CountInv
<1>3. p' <= Cardinality(Producers) /\ c' <= Cardinality(Consumers) /\ p' >= 0 /\ c' >= 0
  BY <1>1, CountTypesNext
<1> SUFFICES Allowed(n', p', c')
  BY DEF CountInv
<1> HIDE DEF n, p, c
<1>4. CASE p' = p + 1 /\ c' = c /\ n = Size /\ n' = n
  BY <1>2, <1>3, <1>4, AllowedSteps
<1>5. CASE p' = p /\ c' = c + 1 /\ n = 0 /\ n' = n
  BY <1>2, <1>3, <1>5, AllowedSteps
<1>6. CASE p = 0 /\ p' = 0 /\ c = 0 /\ c' = 0 /\ (n' = n + 1 \/ n' = n - 1)
  BY <1>2, <1>6, AllowedSteps
<1>7. CASE p' = p - 1 /\ c' = c /\ (n' = n + 1 \/ n' = n - 1 \/ n' = n)
  BY <1>2, <1>3, <1>7, AllowedSteps
<1>8. CASE p' = p /\ c' = c - 1 /\ (n' = n + 1 \/ n' = n - 1 \/ n' = n)
  BY <1>2, <1>3, <1>8, AllowedSteps
<1>9. CASE UNCHANGED <<p, c>> /\ n' = n
  BY <1>2, <1>9
<1>10. ASSUME NEW t \in Threads, HasLock(t), Leaves(t)
       PROVE  \/ p = 0 /\ p' = 0 /\ c = 0 /\ c' = 0
              \/ p' = p - 1 /\ c' = c
              \/ p' = p /\ c' = c - 1
  BY <1>1, <1>10, LeavesWakes DEF p, c
<1>11. UNCHANGED queue => n' = n
  BY DEF n
<1> QED
  BY <1>4, <1>5, <1>6, <1>7, <1>8, <1>9, <1>10, <1>11, StepKinds DEF n, p, c

\* The threads never all wait for one another, if the queue has room for half as
\* many elements as there are threads (BlockingQueue.cpp:13-19, 26-33).
THEOREM NoStandstillHolds ==
    ASSUME RoomForHalf
    PROVE  Spec => []NoStandstill
<1>1. Init => IInv /\ CountInv
  BY InitInv, CountInit
<1>2. IInv /\ CountInv /\ [Next]_vars => (IInv /\ CountInv)'
  BY StepInv, CountStep
<1>3. IInv /\ CountInv => NoStandstill
  <2> SUFFICES ASSUME IInv, CountInv, Waiting = Threads
               PROVE  FALSE
    BY DEF NoStandstill
  <2>1. Waiting \cap Producers = Producers /\ Waiting \cap Consumers = Consumers
    BY DEF Threads
  <2>2. /\ WaitingProducers = Cardinality(Producers)
        /\ WaitingConsumers = Cardinality(Consumers)
    BY <2>1 DEF WaitingProducers, WaitingConsumers
  <2> QED
    BY <2>2, CountConstants
    DEF CountInv, Allowed, Filling, Draining, SpareProducers, SpareConsumers,
        AtLeast0
<1> QED
  BY <1>1, <1>2, <1>3, PTL DEF Spec

-----------------------------------------------------------------------------
\* No more threads of either kind than the queue has room for.  With one producer
\* more, two consumers are enough to use up all the notifications.
RoomForEach ==
    /\ RoomForHalf
    /\ Cardinality(Producers) <= Size
    /\ Cardinality(Consumers) <= Size

\* At the bounds of the queue only threads of one kind wait.
LEMMA NoWrongWaiter ==
    ASSUME RoomForEach, IInv, CountInv
    PROVE  /\ Len(queue) = Size => WaitingConsumers = 0
           /\ Len(queue) = 0 => WaitingProducers = 0
  BY CountConstants, CountTypes
  DEF RoomForEach, IInv, CountInv, Allowed, Filling, Draining, SpareProducers,
      SpareConsumers, AtLeast0

LEMMA WokenStep ==
    RoomForEach /\ IInv /\ CountInv /\ WaiterIsWoken /\ [Next]_vars => WaiterIsWoken'
<1> SUFFICES ASSUME RoomForEach, IInv, CountInv, WaiterIsWoken, [Next]_vars,
                    (throws = 0)', NEW w \in Waiting',
                    IF w \in Producers THEN Len(queue') < Size ELSE queue' # <<>>
             PROVE  \E t \in Threads : HasLock(t)'
  BY DEF WaiterIsWoken
<1> USE DEF RoomForEach
<1>1. /\ w \in Threads /\ TypeOK /\ TypeOK'
      /\ w \in Producers \/ w \in Consumers
  BY StepInv DEF IInv, Waiting, Threads
<1>2. w \in Producers => WaitingProducers' # 0
  BY PartOfFinite DEF RoomForHalf, WaitingProducers
<1>3. w \in Consumers => WaitingConsumers' # 0
  BY PartOfFinite DEF RoomForHalf, WaitingConsumers
<1>4. CASE /\ WaitingConsumers' = WaitingConsumers
           /\ Len(queue) = Size /\ Len(queue') = Len(queue)
  BY <1>1, <1>3, <1>4, NoWrongWaiter, CountConstants
<1>5. CASE /\ WaitingProducers' = WaitingProducers
           /\ Len(queue) = 0 /\ Len(queue') = Len(queue)
  <2>1. queue' \in Seq(Items)
    BY <1>1 DEF TypeOK
  <2>2. queue' = <<>>
    BY <1>5, <2>1, EmptySeq
  <2> QED
    BY <1>1, <1>2, <1>5, <2>2, NoWrongWaiter
<1>6. ASSUME NEW t \in Threads, HasLock(t), Leaves(t)
      PROVE  \E u \in Threads : HasLock(u)'
  <2>1. ~(WaitingProducers' = 0 /\ WaitingConsumers' = 0)
    BY <1>1, <1>2, <1>3
  <2> QED
    BY <1>1, <1>6, <2>1, LeavesWakes
<1>7. CASE UNCHANGED <<queue, pc, throws>>
  <2>1. w \in Waiting
    BY <1>7 DEF Waiting
  <2>2. PICK t \in Threads : HasLock(t)
    BY <1>7, <2>1 DEF WaiterIsWoken
  <2> QED
    BY <1>7, <2>2 DEF HasLock
<1>8. ~(throws' > 0)
  OBVIOUS
<1> QED
  BY <1>4, <1>5, <1>6, <1>7, <1>8, StepKinds

\* A waiter that could go on has somebody who will wake it, if no call throws and
\* there is room for as many elements as there are threads of a kind
\* (BlockingQueue.cpp:19, 33).
THEOREM WaiterIsWokenHolds ==
    ASSUME RoomForEach
    PROVE  Spec => []WaiterIsWoken
<1>1. Init => IInv /\ CountInv /\ WaiterIsWoken
  <2>1. Init => Waiting = {}
    BY DEF Init, Waiting
  <2> QED
    BY <2>1, InitInv, CountInit DEF RoomForEach, WaiterIsWoken
<1>2. /\ IInv /\ CountInv /\ WaiterIsWoken /\ [Next]_vars
      => (IInv /\ CountInv /\ WaiterIsWoken)'
  BY StepInv, CountStep, WokenStep DEF RoomForEach
<1> QED
  BY <1>1, <1>2, PTL DEF Spec

=============================================================================
