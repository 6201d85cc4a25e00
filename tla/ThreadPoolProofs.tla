-------------------------- MODULE ThreadPoolProofs --------------------------
(***************************************************************************)
(* Proofs about ThreadPool, for any number of workers and calls.           *)
(***************************************************************************)
EXTENDS ThreadPool, SequenceTheorems, TLAPS

\* An Append as the steps below use it.
LEMMA AppendFacts ==
    ASSUME NEW S, NEW s \in Seq(S), NEW e \in S
    PROVE  /\ Append(s, e) \in Seq(S)
           /\ Len(s) \in Nat /\ Len(Append(s, e)) = Len(s) + 1
           /\ DOMAIN s = 1 .. Len(s)
           /\ \A i \in 1 .. Len(s) : Append(s, e)[i] = s[i]
           /\ Append(s, e)[Len(s) + 1] = e
  BY AppendProperties, LenProperties

\* The slot that GetAvailReactor uses is one of the first MaxNum.
LEMMA SlotRange ==
    ASSUME index \in 0 .. MaxNum
    PROVE  Slot \in 0 .. MaxNum - 1
  BY ThreadPoolAssumption DEF ThreadPoolAssumption, Slot

-----------------------------------------------------------------------------
(***************************************************************************)
(* The hand-over.  While the owner starts a thread and waits for its       *)
(* Reactor, every earlier worker is past the store to _tmp, so that what   *)
(* _tmp holds is null or the address of the newest worker's Reactor.       *)
(***************************************************************************)
Starting == ownerPc \in {"test", "wait", "push"}
BeforeStore(w) == workerPc[w] \in {"check", "create"}

\* The list has one Reactor for each worker that was waited for.
LengthInv ==
    /\ ownerPc = "spawn" => Len(reactors) = threads
    /\ Starting => Len(reactors) + 1 = threads
    /\ ownerPc = "ready" => Len(reactors) = MaxNum

HandOverInv ==
    /\ \A w \in Workers : w > threads => workerPc[w] = "none"
    /\ ownerPc = "spawn" => \A w \in Workers : ~BeforeStore(w)
    /\ Starting => /\ \A w \in Workers : w < threads => ~BeforeStore(w)
                   /\ tmp \in {None, threads}
                   /\ tmp = threads => ~BeforeStore(threads)
    /\ ownerPc = "push" => tmp = threads

IInv == LengthInv /\ HandOverInv /\ ListedInOrder

LEMMA InitInv == Init => TypeOK /\ IInv
<1> SUFFICES ASSUME Init
             PROVE  TypeOK /\ IInv
  OBVIOUS
<1>1. TypeOK
  <2>1. reactors \in Seq(Workers) /\ Len(reactors) <= threads
    BY DEF Init
  <2>2. index \in 0 .. MaxNum /\ threads \in 0 .. MaxNum
    BY ThreadPoolAssumption DEF ThreadPoolAssumption, Init
  <2>3. workerPc \in [Workers -> {"none", "check", "create", "notify", "loop",
                                  "ended"}]
    BY DEF Init
  <2>4. handed \in [Workers -> Nat]
    BY DEF Init
  <2>5. alive \subseteq Workers /\ tmp \in Workers \cup {None}
    BY DEF Init
  <2>6. isRunning \in BOOLEAN /\ waiting \in BOOLEAN
    BY DEF Init
  <2>7. ownerPc \in {"spawn", "test", "wait", "push", "ready", "join", "gone"}
    BY DEF Init
  <2> QED
    BY <2>1, <2>2, <2>3, <2>4, <2>5, <2>6, <2>7 DEF TypeOK
<1>2. IInv
  BY DEF Init, IInv, LengthInv, HandOverInv, ListedInOrder, Starting,
         BeforeStore, None
<1> QED
  BY <1>1, <1>2

LEMMA TypeStep == TypeOK /\ IInv /\ [Next]_vars => TypeOK'
<1> SUFFICES ASSUME TypeOK, IInv, [Next]_vars
             PROVE  TypeOK'
  OBVIOUS
<1> USE ThreadPoolAssumption DEF ThreadPoolAssumption, TypeOK, Workers, None
<1>1. CASE Spawn
  BY <1>1 DEF Spawn
<1>2. CASE SpawnFails
  BY <1>2 DEF SpawnFails
<1>3. CASE Test
  BY <1>3 DEF Test
<1>4. CASE Block
  BY <1>4 DEF Block
<1>5. CASE WakeSpuriously
  BY <1>5 DEF WakeSpuriously
<1>6. CASE PushReactor
  <2>1. tmp \in Workers /\ Len(reactors) + 1 = threads
    BY <1>6 DEF PushReactor, IInv, LengthInv, HandOverInv, Starting
  <2>2. reactors' \in Seq(Workers) /\ Len(reactors') = Len(reactors) + 1
    BY <1>6, <2>1, AppendFacts DEF PushReactor
  <2> QED
    BY <1>6, <2>1, <2>2 DEF PushReactor
<1>7. CASE GetAvailReactor
  <2>1. Slot \in 0 .. MaxNum - 1
    BY SlotRange
  <2>2. index' \in 0 .. MaxNum
    BY <1>7, <2>1 DEF GetAvailReactor
  <2>3. ASSUME NEW k
        PROVE  [handed EXCEPT ![k] = @ + 1] \in [Workers -> Nat]
    <3>1. handed \in [Workers -> Nat]
      BY DEF TypeOK
    <3>2. CASE k \in Workers
      <4>1. handed[k] + 1 \in Nat
        BY <3>1, <3>2
      <4> QED
        BY <3>1, <4>1, Zenon
    <3>3. CASE k \notin Workers
      BY <3>1, <3>3, Zenon
    <3> QED
      BY <3>2, <3>3
  <2>4. handed' \in [Workers -> Nat]
    BY <1>7, <2>3 DEF GetAvailReactor
  <2> QED
    BY <1>7, <2>2, <2>4 DEF GetAvailReactor
<1>8. CASE Destroy
  BY <1>8 DEF Destroy
<1>9. CASE Join
  BY <1>9 DEF Join
<1>10. ASSUME NEW w \in Workers, CheckRunning(w)
       PROVE  TypeOK'
  BY <1>10 DEF CheckRunning
<1>11. ASSUME NEW w \in Workers, Create(w)
       PROVE  TypeOK'
  BY <1>11 DEF Create
<1>12. ASSUME NEW w \in Workers, Notify(w)
       PROVE  TypeOK'
  BY <1>12 DEF Notify
<1>13. ASSUME NEW w \in Workers, LoopEnds(w)
       PROVE  TypeOK'
  BY <1>13 DEF LoopEnds
<1>14. CASE UNCHANGED vars
  BY <1>14 DEF vars
<1> QED
  BY <1>1, <1>2, <1>3, <1>4, <1>5, <1>6, <1>7, <1>8, <1>9, <1>10, <1>11, <1>12,
     <1>13, <1>14 DEF Next, OwnerStep, WorkerStep

\* A step that leaves the list and the owner's place alone keeps LengthInv and
\* ListedInOrder.
LEMMA ListUntouched ==
    ASSUME LengthInv, ListedInOrder, UNCHANGED <<reactors, threads, ownerPc>>
    PROVE  LengthInv' /\ ListedInOrder'
  BY DEF LengthInv, ListedInOrder, Starting

LEMMA InvStep == TypeOK /\ IInv /\ [Next]_vars => IInv'
<1> SUFFICES ASSUME TypeOK, IInv, [Next]_vars
             PROVE  IInv'
  OBVIOUS
<1> USE ThreadPoolAssumption
        DEF ThreadPoolAssumption, TypeOK, IInv, HandOverInv, Starting, BeforeStore,
            Workers, None
<1>1. CASE Spawn
  <2>1. LengthInv' /\ ListedInOrder'
    BY <1>1 DEF Spawn, LengthInv, ListedInOrder
  <2>2. HandOverInv'
    BY <1>1 DEF Spawn
  <2> QED
    BY <2>1, <2>2
<1>2. CASE SpawnFails
  BY <1>2 DEF SpawnFails, LengthInv, ListedInOrder
<1>3. CASE Test
  BY <1>3 DEF Test, LengthInv, ListedInOrder
<1>4. CASE Block
  BY <1>4 DEF Block, LengthInv, ListedInOrder
<1>5. CASE WakeSpuriously
  BY <1>5, ListUntouched DEF WakeSpuriously
<1>6. CASE PushReactor
  <2>1. tmp = threads /\ Len(reactors) + 1 = threads
    BY <1>6 DEF PushReactor, LengthInv
  <2>2. /\ Len(reactors) \in Nat /\ Len(reactors') = Len(reactors) + 1
        /\ DOMAIN reactors = 1 .. Len(reactors)
        /\ DOMAIN reactors' = 1 .. Len(reactors')
        /\ \A i \in 1 .. Len(reactors) : reactors'[i] = reactors[i]
        /\ reactors'[Len(reactors) + 1] = tmp
    BY <1>6, <2>1, AppendFacts, AppendProperties, LenProperties DEF PushReactor
  <2>3. ListedInOrder'
    <3> SUFFICES ASSUME NEW i \in DOMAIN reactors'
                 PROVE  reactors'[i] = i
      BY DEF ListedInOrder
    <3>1. i \in 1 .. Len(reactors) \/ i = Len(reactors) + 1
      BY <2>2
    <3>2. CASE i \in 1 .. Len(reactors)
      BY <2>2, <3>2 DEF ListedInOrder
    <3>3. CASE i = Len(reactors) + 1
      BY <2>1, <2>2, <3>3
    <3> QED
      BY <3>1, <3>2, <3>3
  <2>4. LengthInv'
    BY <1>6, <2>1, <2>2 DEF PushReactor, LengthInv
  <2>5. HandOverInv'
    <3>1. \A w \in Workers : ~BeforeStore(w)
      <4> SUFFICES ASSUME NEW w \in Workers
                   PROVE  ~BeforeStore(w)
        OBVIOUS
      <4>1. w < threads \/ w = threads \/ w > threads
        OBVIOUS
      <4> QED
        BY <1>6, <2>1, <4>1 DEF PushReactor
    <3>2. /\ ownerPc' \in {"spawn", "ready"}
          /\ UNCHANGED <<workerPc, threads>>
      BY <1>6 DEF PushReactor
    <3> QED
      BY <3>1, <3>2
  <2> QED
    BY <2>3, <2>4, <2>5
<1>7. CASE GetAvailReactor
  BY <1>7, ListUntouched DEF GetAvailReactor
<1>8. CASE Destroy
  BY <1>8 DEF Destroy, LengthInv, ListedInOrder
<1>9. CASE Join
  BY <1>9 DEF Join, LengthInv, ListedInOrder
<1>10. ASSUME NEW w \in Workers, CheckRunning(w)
       PROVE  IInv'
  <2>1. HandOverInv'
    BY <1>10 DEF CheckRunning
  <2> QED
    BY <1>10, <2>1, ListUntouched DEF CheckRunning
<1>11. ASSUME NEW w \in Workers, Create(w)
       PROVE  IInv'
  <2>1. HandOverInv'
    BY <1>11 DEF Create
  <2> QED
    BY <1>11, <2>1, ListUntouched DEF Create
<1>12. ASSUME NEW w \in Workers, Notify(w)
       PROVE  IInv'
  <2>1. HandOverInv'
    BY <1>12 DEF Notify
  <2> QED
    BY <1>12, <2>1, ListUntouched DEF Notify
<1>13. ASSUME NEW w \in Workers, LoopEnds(w)
       PROVE  IInv'
  <2>1. HandOverInv'
    BY <1>13 DEF LoopEnds
  <2> QED
    BY <1>13, <2>1, ListUntouched DEF LoopEnds
<1>14. CASE UNCHANGED vars
  BY <1>14 DEF vars, LengthInv, ListedInOrder
<1> QED
  BY <1>1, <1>2, <1>3, <1>4, <1>5, <1>6, <1>7, <1>8, <1>9, <1>10, <1>11, <1>12,
     <1>13, <1>14 DEF Next, OwnerStep, WorkerStep

-----------------------------------------------------------------------------
\* The invariant that the theorems below follow from.
THEOREM Invariance == Spec => [](TypeOK /\ IInv)
<1>1. TypeOK /\ IInv /\ [Next]_vars => (TypeOK /\ IInv)'
  BY TypeStep, InvStep
<1> QED
  BY <1>1, InitInv, PTL DEF Spec

\* Every variable of the pool and of its threads has its type.
THEOREM TypeCorrect == Spec => []TypeOK
  BY Invariance, PTL

\* However the threads interleave, the i-th slot of the pool holds the Reactor of
\* the i-th worker (ThreadPool.cpp:66-79, 88-91).
THEOREM ListedInOrderHolds == Spec => []ListedInOrder
<1>1. IInv => ListedInOrder
  BY DEF IInv
<1> QED
  BY <1>1, Invariance, PTL

\* _reactors.at never throws (ThreadPool.cpp:57-64).
THEOREM SlotExistsHolds == Spec => []SlotExists
<1>1. TypeOK /\ IInv => SlotExists
  <2> SUFFICES ASSUME TypeOK, IInv, ownerPc = "ready"
               PROVE  Slot + 1 \in DOMAIN reactors
    BY DEF SlotExists
  <2>1. Slot \in 0 .. MaxNum - 1
    BY SlotRange DEF TypeOK
  <2>2. DOMAIN reactors = 1 .. MaxNum
    BY LenProperties DEF TypeOK, IInv, LengthInv
  <2> QED
    BY <2>1, <2>2, ThreadPoolAssumption DEF ThreadPoolAssumption
<1> QED
  BY <1>1, Invariance, PTL

-----------------------------------------------------------------------------
(***************************************************************************)
(* Who may go.  A Reactor leaves its worker's stack only after somebody    *)
(* stopped it, and only those who were handed it can.                      *)
(***************************************************************************)
Loops(w) == workerPc[w] \in {"notify", "loop"} /\ w \in alive

\* The Reactor in _tmp, and those of the list that nobody was handed, are running
\* or about to.
AliveInv ==
    /\ Starting /\ tmp = threads => Loops(threads)
    /\ \A w \in Workers : w <= Len(reactors) /\ handed[w] = 0 => Loops(w)

LEMMA AliveInit == Init => AliveInv
  BY DEF Init, AliveInv, Starting

LEMMA AliveStep == TypeOK /\ IInv /\ AliveInv /\ [Next]_vars => AliveInv'
<1> SUFFICES ASSUME TypeOK, IInv, AliveInv, [Next]_vars
             PROVE  AliveInv'
  OBVIOUS
<1>0. Len(reactors) \in Nat
  BY LenProperties DEF TypeOK
<1> USE ThreadPoolAssumption
        DEF ThreadPoolAssumption, TypeOK, AliveInv, Starting, Loops, Workers, None
<1>1. CASE Spawn
  <2>1. /\ ~Starting /\ tmp' = None /\ threads' > 0
        /\ UNCHANGED <<reactors, handed, alive>>
    BY <1>1 DEF Spawn
  <2>2. Len(reactors) = threads
    BY <1>1 DEF Spawn, IInv, LengthInv
  <2> QED
    BY <1>0, <1>1, <2>1, <2>2 DEF Spawn
<1>2. CASE SpawnFails
  BY <1>2 DEF SpawnFails
<1>3. CASE Test
  BY <1>3 DEF Test
<1>4. CASE Block
  BY <1>4 DEF Block
<1>5. CASE WakeSpuriously
  BY <1>5 DEF WakeSpuriously
<1>6. CASE PushReactor
  <2>1. tmp = threads /\ Len(reactors) + 1 = threads
    BY <1>6 DEF PushReactor, IInv, LengthInv, HandOverInv
  <2>2. Len(reactors') = Len(reactors) + 1
    BY <1>6, <2>1, AppendFacts DEF PushReactor
  <2> QED
    BY <1>0, <1>6, <2>1, <2>2 DEF PushReactor
<1>7. CASE GetAvailReactor
  <2>1. \A w \in Workers : handed'[w] = 0 => handed[w] = 0
    BY <1>7 DEF GetAvailReactor
  <2> QED
    BY <1>7, <2>1 DEF GetAvailReactor
<1>8. CASE Destroy
  BY <1>8 DEF Destroy
<1>9. CASE Join
  BY <1>9 DEF Join
<1>10. ASSUME NEW w \in Workers, CheckRunning(w)
       PROVE  AliveInv'
  BY <1>10 DEF CheckRunning
<1>11. ASSUME NEW w \in Workers, Create(w)
       PROVE  AliveInv'
  BY <1>0, <1>11 DEF Create
<1>12. ASSUME NEW w \in Workers, Notify(w)
       PROVE  AliveInv'
  BY <1>12 DEF Notify
<1>13. ASSUME NEW w \in Workers, LoopEnds(w)
       PROVE  AliveInv'
  BY <1>13 DEF LoopEnds
<1>14. CASE UNCHANGED vars
  BY <1>14 DEF vars
<1> QED
  BY <1>1, <1>2, <1>3, <1>4, <1>5, <1>6, <1>7, <1>8, <1>9, <1>10, <1>11, <1>12,
     <1>13, <1>14 DEF Next, OwnerStep, WorkerStep

\* A Reactor that is handed out for the first time exists, whatever happened to the
\* others (ThreadPool.cpp:57-64, 85-93; ThreadPool.h:102-105).
THEOREM ListedIsAliveHolds == Spec => []ListedIsAlive
<1>1. TypeOK /\ IInv /\ AliveInv => ListedIsAlive
  <2> SUFFICES ASSUME TypeOK, IInv, AliveInv, NEW i \in DOMAIN reactors,
                      handed[reactors[i]] = 0
               PROVE  reactors[i] \in alive
    BY DEF ListedIsAlive
  <2>1. reactors[i] = i /\ i \in Workers /\ i <= Len(reactors)
    BY LenProperties, ElementOfSeq DEF TypeOK, IInv, ListedInOrder
  <2> QED
    BY <2>1 DEF AliveInv, Loops
<1> QED
  BY <1>1, AliveInit, AliveStep, Invariance, PTL DEF Spec

=============================================================================
