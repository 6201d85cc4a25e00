-------------------------- MODULE TaskQueueProofs --------------------------
(***************************************************************************)
(* Every behaviour of TaskQueue runs each task at most once.               *)
(***************************************************************************)
EXTENDS TaskQueue, SequenceTheorems, TLAPS

LEMMA TypeCorrect == Spec => []TypeOK
<1>1. Init => TypeOK
  BY DEF Init, TypeOK
<1>2. TypeOK /\ [Next]_vars => TypeOK'
  <2> SUFFICES ASSUME TypeOK, [Next]_vars
               PROVE  TypeOK'
    OBVIOUS
  <2> USE DEF TypeOK
  <2>1. ASSUME NEW t \in Tasks, Post(t)
        PROVE  TypeOK'
    BY <2>1 DEF Post
  <2>2. CASE Run
    BY <2>2, HeadTailProperties DEF Run
  <2>3. CASE Discard
    BY <2>3 DEF Discard
  <2>4. CASE UNCHANGED vars
    BY <2>4 DEF vars
  <2> QED
    BY <2>1, <2>2, <2>3, <2>4 DEF Next
<1> QED
  BY <1>1, <1>2, PTL DEF Spec

\* Taking the head of a queue and putting it behind what was taken before
\* leaves the two in a row as they were.
LEMMA MoveHead ==
    ASSUME NEW S, NEW s \in Seq(S), NEW q \in Seq(S), q # <<>>
    PROVE  Append(s, Head(q)) \o Tail(q) = s \o q
  BY HeadTailProperties, LenProperties, ConcatProperties, SeqEqual

\* A task runs at most once, and only after it was handed over.
THEOREM RunOnceHolds == Spec => []RunOnce
<1>1. Init => RunOnce
  BY DEF Init, RunOnce, history
<1>2. TypeOK /\ RunOnce /\ [Next]_vars => RunOnce'
  <2> SUFFICES ASSUME TypeOK, RunOnce, [Next]_vars
               PROVE  RunOnce'
    OBVIOUS
  <2>0. history \in Seq(Tasks)
    BY ConcatProperties DEF TypeOK, history
  <2>1. ASSUME NEW t \in Tasks, Post(t)
        PROVE  RunOnce'
    <3>1. history' = Append(history, t)
      BY <2>1 DEF Post, TypeOK, history
    <3>2. /\ Len(history') = Len(history) + 1
          /\ \A i \in 1 .. Len(history) : history'[i] = history[i]
          /\ history'[Len(history) + 1] = t
      BY <2>0, <3>1
    <3> HIDE DEF history
    <3> QED
      BY <2>0, <2>1, <3>2, LenProperties DEF Post, RunOnce
  <2>2. CASE Run
    <3>1. history' = history
      BY <2>2, MoveHead DEF Run, TypeOK, history
    <3> QED
      BY <2>2, <3>1 DEF Run, RunOnce
  <2>3. CASE Discard
    <3>1. PICK n \in 1 .. Len(queue) : queue' = SubSeq(queue, n + 1, Len(queue))
      BY <2>3 DEF Discard
    <3>2. executed' = executed /\ posted' = posted
      BY <2>3 DEF Discard
    <3>3. /\ Len(queue) \in Nat /\ Len(executed) \in Nat
          /\ \A i \in n + 1 .. Len(queue) : queue[i] \in Tasks
      BY LenProperties, ElementOfSeq DEF TypeOK
    <3>4. /\ queue' \in Seq(Tasks)
          /\ Len(queue') = Len(queue) - n
          /\ \A i \in 1 .. Len(queue') : queue'[i] = queue[n + i]
      <4>1. SubSeq(queue, n + 1, Len(queue)) \in Seq(Tasks)
        BY <3>3, SubSeqProperties
      <4>2. Len(SubSeq(queue, n + 1, Len(queue))) = Len(queue) - n
        BY <3>3, SubSeqProperties
      <4>3. \A i \in 1 .. Len(queue) - n :
               SubSeq(queue, n + 1, Len(queue))[i] = queue[n + i]
        BY <3>3, SubSeqProperties
      <4> QED
        BY <3>1, <4>1, <4>2, <4>3
    <3> DEFINE old(i) == IF i <= Len(executed) THEN i ELSE i + n
    <3>5. history' = executed \o queue' /\ history = executed \o queue
      BY <3>2 DEF history
    <3>6. /\ Len(history') = Len(executed) + Len(queue')
          /\ Len(history) = Len(executed) + Len(queue)
      BY <3>4, <3>5, ConcatProperties DEF TypeOK
    <3>7. ASSUME NEW i \in 1 .. Len(history')
          PROVE  old(i) \in 1 .. Len(history) /\ history'[i] = history[old(i)]
      <4> DEFINE m == Len(executed)
      <4>1. history'[i] = IF i <= m THEN executed[i] ELSE queue'[i - m]
        BY <3>4, <3>5, <3>6, ConcatProperties DEF TypeOK
      <4>2. old(i) \in 1 .. Len(history)
        BY <3>3, <3>4, <3>6
      <4>3. history[old(i)] = IF old(i) <= m THEN executed[old(i)]
                              ELSE queue[old(i) - m]
        BY <3>5, <3>6, <4>2, ConcatProperties DEF TypeOK
      <4>4. CASE i <= m
        BY <4>1, <4>2, <4>3, <4>4
      <4>5. CASE i > m
        <5>1. i - m \in 1 .. Len(queue') /\ old(i) > m /\ old(i) - m = n + (i - m)
          BY <3>3, <3>4, <3>6, <4>5
        <5>2. queue'[i - m] = queue[n + (i - m)]
          BY <3>4, <5>1
        <5> QED
          BY <3>3, <4>1, <4>2, <4>3, <4>5, <5>1, <5>2
      <4> QED
        BY <3>3, <4>4, <4>5
    <3>8. ASSUME NEW i \in 1 .. Len(history'), NEW j \in 1 .. Len(history'),
                 old(i) = old(j)
          PROVE  i = j
      BY <3>3, <3>4, <3>6, <3>8
    <3> HIDE DEF old
    <3> QED
      BY <3>2, <3>7, <3>8 DEF RunOnce
  <2>4. CASE UNCHANGED vars
    BY <2>4 DEF vars, RunOnce, history
  <2> QED
    BY <2>1, <2>2, <2>3, <2>4 DEF Next
<1> QED
  BY <1>1, <1>2, TypeCorrect, PTL DEF Spec

=============================================================================
