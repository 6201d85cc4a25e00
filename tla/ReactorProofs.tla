--------------------------- MODULE ReactorProofs ---------------------------
(***************************************************************************)
(* Proofs about Reactor, for any sets of callers, tasks and sources, any   *)
(* size of the event list and any limit of the eventfd counter.            *)
(***************************************************************************)
EXTENDS Reactor, SequenceTheorems, TLAPS

(***************************************************************************)
(* Type correctness.                                                       *)
(***************************************************************************)
LEMMA HeadTailType ==
    ASSUME NEW S, NEW s \in Seq(S), s # <<>>
    PROVE  Head(s) \in S /\ Tail(s) \in Seq(S)
  BY HeadTailProperties

LEMMA BumpType ==
    ASSUME NEW n \in 0 .. EventfdMax
    PROVE  Bump(n) \in 0 .. EventfdMax /\ Bump(n) > 0
  BY ReactorAssumption DEF ReactorAssumption, Bump

\* Every variable keeps its type, the eventfd counter its limit.
THEOREM TypeCorrect == Spec => []TypeOK
<1>1. ASSUME Init PROVE TypeOK
  <2>1. 0 \in 0 .. EventfdMax /\ EventListInit \in Nat \ {0}
    BY ReactorAssumption DEF ReactorAssumption
  <2>2. <<>> \in Seq(Tasks)
    OBVIOUS
  <2>3. callerPc \in [Callers -> {"out", "queued", "stopping"}]
    BY <1>1 DEF Init
  <2> QED
    BY <1>1, <2>1, <2>2, <2>3 DEF Init, TypeOK, LoopPcs
<1>2. TypeOK /\ [Next]_vars => TypeOK'
  <2> SUFFICES ASSUME TypeOK, [Next]_vars
               PROVE  TypeOK'
    OBVIOUS
  <2> USE DEF TypeOK, LoopPcs
  <2>1. CASE Start
    BY <2>1 DEF Start
  <2>2. CASE CheckReacting
    BY <2>2 DEF CheckReacting
  <2>3. CASE Wait
    <3>1. PICK some \in SUBSET Reported :
             avail' = some /\ eventListSize' = Grown(Cardinality(some))
      BY <2>3 DEF Wait
    <3>2. eventListSize' \in Nat \ {0}
      BY <3>1 DEF Grown
    <3>3. avail' \in SUBSET (Sources \cup {Eventfd})
      BY <3>1 DEF Reported
    <3> QED
      BY <2>3, <3>2, <3>3 DEF Wait
  <2>4. CASE HandleWakeup
    BY <2>4, ReactorAssumption DEF HandleWakeup, ReactorAssumption
  <2>5. ASSUME NEW s \in Sources, HandleEvents(s)
        PROVE  TypeOK'
    BY <2>5 DEF HandleEvents
  <2>6. CASE BeginDeal
    BY <2>6 DEF BeginDeal
  <2>7. CASE SwapTasks
    BY <2>7 DEF SwapTasks
  <2>8. CASE RunTask
    BY <2>8, HeadTailType DEF RunTask
  <2>9. CASE EndDeal
    BY <2>9 DEF EndDeal
  <2>10. ASSUME NEW t \in Tasks, QueueInThread(t)
         PROVE  TypeOK'
    BY <2>10, BumpType DEF QueueInThread, MustWake
  <2>11. CASE StopInThread
    BY <2>11 DEF StopInThread
  <2>12. CASE Return
    BY <2>12 DEF Return
  <2>13. CASE Throw
    <3>1. tmp' = <<>> /\ <<>> \in Seq(Tasks)
      BY <2>13 DEF Throw
    <3> QED
      BY <2>13, <3>1 DEF Throw
  <2>14. CASE WaitFails
    BY <2>14 DEF WaitFails
  <2>15. ASSUME NEW c \in Callers, NEW t \in Tasks, Queue(c, t)
         PROVE  TypeOK'
    BY <2>15 DEF Queue
  <2>16. ASSUME NEW c \in Callers, Stop(c)
         PROVE  TypeOK'
    BY <2>16 DEF Stop
  <2>17. ASSUME NEW c \in Callers, Wakeup(c)
         PROVE  TypeOK'
    BY <2>17, BumpType DEF Wakeup
  <2>18. ASSUME NEW s \in Sources, Arrive(s)
         PROVE  TypeOK'
    BY <2>18 DEF Arrive
  <2>19. CASE UNCHANGED vars
    BY <2>19 DEF vars
  <2> QED
    BY <2>1, <2>2, <2>3, <2>4, <2>5, <2>6, <2>7, <2>8, <2>9, <2>10, <2>11,
       <2>12, <2>13, <2>14, <2>15, <2>16, <2>17, <2>18, <2>19
    DEF Next, LoopStep, CallbackStep, CallerStep
<1> QED
  BY <1>1, <1>2, PTL DEF Spec

(***************************************************************************)
(* No lost wakeup and no lost stop.  Between SwapTasks and the next wait a *)
(* task can only be added together with a write of the eventfd: by another *)
(* thread, which always writes, or inside a task, where _isTaskRunning is  *)
(* set.  And nobody resets the eventfd after SwapTasks in that round.      *)
(* What the owner adds before Start is not owed.                           *)
(***************************************************************************)
FlagInv == loopPc \in {"swap", "tasks"} => isTaskRunning
PlaceInv == inCallback => loopPc \in {"events", "tasks"}
BatchInv == loopPc # "tasks" => tmp = <<>>
WakeInv ==
    loopPc \in {"idle", "tasks", "check", "wait"} /\ Owed # {} => WakePending

IInv == FlagInv /\ PlaceInv /\ BatchInv /\ WakeInv /\ NoLostStop

\* What the owner adds to the list before Start is not owed, so nothing else is.
LEMMA OwedAppend ==
    ASSUME NEW s \in Seq(Tasks), NEW t \in Tasks, NEW E
    PROVE  {Append(s, t)[i] : i \in DOMAIN Append(s, t)} \ (E \cup {t})
             \subseteq {s[i] : i \in DOMAIN s} \ E
  OBVIOUS

LEMMA Inductive == TypeOK /\ IInv /\ [Next]_vars => IInv'
<1> SUFFICES ASSUME TypeOK, IInv, [Next]_vars
             PROVE  IInv'
  OBVIOUS
<1> USE DEF IInv, FlagInv, PlaceInv, BatchInv, WakeInv, NoLostStop, WakePending,
            TypeOK, Owed
<1>1. CASE Start
  BY <1>1 DEF Start
<1>2. CASE CheckReacting
  BY <1>2 DEF CheckReacting
<1>3. CASE Wait
  BY <1>3 DEF Wait
<1>4. CASE HandleWakeup
  BY <1>4 DEF HandleWakeup
<1>5. ASSUME NEW s \in Sources, HandleEvents(s)
      PROVE  IInv'
  BY <1>5 DEF HandleEvents
<1>6. CASE BeginDeal
  BY <1>6 DEF BeginDeal
<1>7. CASE SwapTasks
  BY <1>7 DEF SwapTasks
<1>8. CASE RunTask
  BY <1>8 DEF RunTask
<1>9. CASE EndDeal
  BY <1>9 DEF EndDeal
<1>10. ASSUME NEW t \in Tasks, QueueInThread(t)
       PROVE  IInv'
  <2>1. loopPc \in {"idle", "events", "tasks"}
    BY <1>10 DEF QueueInThread
  <2>2. CASE loopPc = "idle"
    <3>1. Owed' \subseteq Owed
      <4>1. pendingTasks' = Append(pendingTasks, t) /\ early' = early \cup {t}
        BY <1>10, <2>2 DEF QueueInThread
      <4> QED
        BY <4>1, OwedAppend
    <3>2. eventfd > 0 => eventfd' > 0
      BY <1>10, BumpType DEF QueueInThread, MustWake
    <3>3. WakePending => WakePending'
      BY <1>10, <3>2 DEF QueueInThread
    <3>4. WakeInv'
      BY <1>10, <2>2, <3>1, <3>3 DEF QueueInThread
    <3> QED
      BY <1>10, <2>2, <3>4 DEF QueueInThread
  <2>3. CASE loopPc = "events"
    BY <1>10, <2>3 DEF QueueInThread
  <2>4. CASE loopPc = "tasks"
    <3>1. eventfd' > 0
      BY <1>10, <2>4, BumpType DEF QueueInThread, MustWake
    <3> QED
      BY <1>10, <2>4, <3>1 DEF QueueInThread
  <2> QED
    BY <2>1, <2>3, <2>4, <2>2
<1>11. CASE StopInThread
  BY <1>11 DEF StopInThread
<1>12. CASE Return
  BY <1>12 DEF Return
<1>13. CASE Throw
  BY <1>13 DEF Throw
<1>14. CASE WaitFails
  BY <1>14 DEF WaitFails
<1>15. ASSUME NEW c \in Callers, NEW t \in Tasks, Queue(c, t)
       PROVE  IInv'
  <2>1. callerPc'[c] # "out"
    BY <1>15 DEF Queue
  <2> QED
    BY <1>15, <2>1 DEF Queue
<1>16. ASSUME NEW c \in Callers, Stop(c)
       PROVE  IInv'
  <2>1. callerPc'[c] # "out"
    BY <1>16 DEF Stop
  <2> QED
    BY <1>16, <2>1 DEF Stop
<1>17. ASSUME NEW c \in Callers, Wakeup(c)
       PROVE  IInv'
  <2>1. eventfd' > 0
    BY <1>17, BumpType DEF Wakeup
  <2> QED
    BY <1>17, <2>1 DEF Wakeup
<1>18. ASSUME NEW s \in Sources, Arrive(s)
       PROVE  IInv'
  BY <1>18 DEF Arrive
<1>19. CASE UNCHANGED vars
  BY <1>19 DEF vars
<1> QED
  BY <1>1, <1>2, <1>3, <1>4, <1>5, <1>6, <1>7, <1>8, <1>9, <1>10, <1>11,
     <1>12, <1>13, <1>14, <1>15, <1>16, <1>17, <1>18, <1>19
  DEF Next, LoopStep, CallbackStep, CallerStep

\* The invariant behind the two theorems below.
THEOREM Invariance == Spec => [](TypeOK /\ IInv)
<1>1. Init => IInv
  BY DEF Init, IInv, FlagInv, PlaceInv, BatchInv, WakeInv, NoLostStop, Owed
<1> QED
  BY <1>1, TypeCorrect, Inductive, PTL DEF Spec

\* The loop never sleeps on a task it was handed.
THEOREM NoLostWakeupHolds == Spec => []NoLostWakeup
<1>1. IInv => NoLostWakeup
  BY DEF IInv, WakeInv, NoLostWakeup
<1> QED
  BY <1>1, Invariance, PTL

\* The loop never sleeps through a Stop.
THEOREM NoLostStopHolds == Spec => []NoLostStop
<1>1. IInv => NoLostStop
  BY DEF IInv
<1> QED
  BY <1>1, Invariance, PTL

(***************************************************************************)
(* Reactor implements TaskQueue.                                           *)
(***************************************************************************)
LEMMA ConcatEmpty ==
    ASSUME NEW S, NEW s \in Seq(S)
    PROVE  <<>> \o s = s /\ s \o <<>> = s
  BY ConcatProperties, SeqEqual, LenProperties

LEMMA ConcatAppend ==
    ASSUME NEW S, NEW s \in Seq(S), NEW q \in Seq(S), NEW e \in S
    PROVE  s \o Append(q, e) = Append(s \o q, e)
  BY ConcatProperties, AppendProperties, SeqEqual, LenProperties

LEMMA ConcatHead ==
    ASSUME NEW S, NEW s \in Seq(S), NEW q \in Seq(S), s # <<>>
    PROVE  /\ s \o q # <<>>
           /\ Head(s \o q) = Head(s)
           /\ Tail(s \o q) = Tail(s) \o q
<1>1. /\ s \o q \in Seq(S) /\ Len(s \o q) = Len(s) + Len(q)
      /\ Len(s) \in Nat \ {0} /\ Len(q) \in Nat
  BY ConcatProperties, LenProperties, EmptySeq
<1>2. s \o q # <<>>
  BY <1>1, EmptySeq
<1>3. Head(s \o q) = Head(s)
  BY <1>1, <1>2, ConcatProperties, HeadTailProperties
<1>4. Tail(s \o q) = Tail(s) \o q
  BY <1>1, <1>2, ConcatProperties, HeadTailProperties, SeqEqual, LenProperties
<1> QED
  BY <1>2, <1>3, <1>4

LEMMA DropPrefix ==
    ASSUME NEW S, NEW s \in Seq(S), NEW q \in Seq(S)
    PROVE  SubSeq(s \o q, Len(s) + 1, Len(s \o q)) = q
<1> DEFINE t == SubSeq(s \o q, Len(s) + 1, Len(s \o q))
<1>1. /\ s \o q \in Seq(S) /\ Len(s \o q) = Len(s) + Len(q)
      /\ Len(s) \in Nat /\ Len(q) \in Nat
  BY ConcatProperties, LenProperties
<1>2. \A i \in Len(s) + 1 .. Len(s \o q) : (s \o q)[i] \in S
  BY <1>1, ElementOfSeq
<1>3. t \in Seq(S) /\ Len(t) = Len(q)
  BY <1>1, <1>2, SubSeqProperties
<1>4. ASSUME NEW i \in 1 .. Len(q)
      PROVE  t[i] = q[i]
  <2>1. t[i] = (s \o q)[Len(s) + 1 + i - 1]
    BY <1>1, <1>2, SubSeqProperties
  <2> QED
    BY <1>1, <2>1, ConcatProperties
<1> QED
  BY <1>3, <1>4, SeqEqual

\* Every behaviour of the reactor is one of TaskQueue: tasks run in the order
\* in which they were handed over, each at most once.
THEOREM Refinement == Spec => ImplementsTaskQueue
<1> DEFINE queue == tmp \o pendingTasks
<1>1. Init => TQ!Init
  BY ConcatEmpty DEF Init, TQ!Init
<1>2. TypeOK /\ IInv /\ [Next]_vars => [TQ!Next]_(TQ!vars)
  <2> SUFFICES ASSUME TypeOK, IInv, [Next]_vars
               PROVE  TQ!Next \/ UNCHANGED <<queue, executed, posted>>
    BY DEF TQ!vars
  <2> USE DEF TypeOK
  <2>1. ASSUME NEW t \in Tasks,
               tmp' = tmp /\ executed' = executed /\ t \notin posted,
               posted' = posted \cup {t},
               pendingTasks' = Append(pendingTasks, t)
        PROVE  TQ!Next
    <3>1. queue' = Append(queue, t)
      BY <2>1, ConcatAppend
    <3> QED
      BY <2>1, <3>1 DEF TQ!Next, TQ!Post
  <2>2. CASE SwapTasks
    <3>1. tmp = <<>>
      BY <2>2 DEF SwapTasks, IInv, BatchInv
    <3>2. queue' = queue
      BY <2>2, <3>1, ConcatEmpty DEF SwapTasks
    <3> QED
      BY <2>2, <3>2 DEF SwapTasks
  <2>3. CASE RunTask
    <3>1. /\ queue # <<>>
          /\ executed' = Append(executed, Head(queue))
          /\ queue' = Tail(queue)
      BY <2>3, ConcatHead DEF RunTask
    <3> QED
      BY <2>3, <3>1 DEF RunTask, TQ!Next, TQ!Run
  <2>4. CASE Throw
    <3>1. queue' = pendingTasks
      BY <2>4, ConcatEmpty DEF Throw
    <3>2. CASE tmp = <<>>
      BY <2>4, <3>1, <3>2, ConcatEmpty DEF Throw
    <3>3. CASE tmp # <<>>
      <4>1. Len(tmp) \in 1 .. Len(queue)
        BY <3>3, ConcatProperties, LenProperties, EmptySeq
      <4>2. queue' = SubSeq(queue, Len(tmp) + 1, Len(queue))
        BY <3>1, DropPrefix
      <4> HIDE DEF queue
      <4>3. TQ!Discard
        BY <2>4, <4>1, <4>2 DEF Throw, TQ!Discard, queue
      <4> QED
        BY <4>3 DEF TQ!Next
    <3> QED
      BY <3>2, <3>3
  <2>5. CASE \/ Start \/ CheckReacting \/ Wait \/ WaitFails \/ HandleWakeup
             \/ \E s \in Sources : HandleEvents(s) \/ Arrive(s)
             \/ BeginDeal \/ EndDeal \/ StopInThread \/ Return
             \/ \E c \in Callers : Stop(c) \/ Wakeup(c)
             \/ UNCHANGED vars
    <3>1. UNCHANGED <<tmp, pendingTasks, executed, posted>>
      BY <2>5 DEF Start, CheckReacting, Wait, WaitFails, HandleWakeup,
         HandleEvents, Arrive, BeginDeal, EndDeal, StopInThread, Return, Stop,
         Wakeup, vars
    <3> QED
      BY <3>1
  <2>6. ASSUME NEW t \in Tasks, QueueInThread(t)
        PROVE  TQ!Next
    BY <2>1, <2>6 DEF QueueInThread
  <2>7. ASSUME NEW c \in Callers, NEW t \in Tasks, Queue(c, t)
        PROVE  TQ!Next
    BY <2>1, <2>7 DEF Queue
  <2> QED
    BY <2>2, <2>3, <2>4, <2>5, <2>6, <2>7
    DEF Next, LoopStep, CallbackStep, CallerStep
<1> QED
  BY <1>1, <1>2, Invariance, PTL DEF Spec, ImplementsTaskQueue, TQ!Spec

=============================================================================
