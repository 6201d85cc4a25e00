----------------------------- MODULE ThreadPool -----------------------------
(***************************************************************************)
(* The ThreadPool of a TcpServer: the thread that constructs, uses and     *)
(* destroys it, and one worker thread per Reactor.  A worker's Reactor     *)
(* lives on the worker's stack; module Reactor says what it does.  Worker  *)
(* w is the w-th thread, and its number stands for the address of its      *)
(* Reactor.                                                                *)
(***************************************************************************)
EXTENDS Naturals, Sequences, FiniteSets

CONSTANTS
    MaxNum,         \* _maxNum: the greater of what was asked for and of the
                    \* number of processors
    MaxCalls        \* bound: how often a Reactor is handed out

ASSUME ThreadPoolAssumption ==
    /\ MaxNum \in Nat \ {0}
    /\ MaxCalls \in Nat

Workers == 1 .. MaxNum
None == 0       \* nullptr

VARIABLES
    isRunning,      \* _isRunning
    tmp,            \* _tmp
    index,          \* _index
    reactors,       \* _reactors
    threads,        \* how many threads _threads holds
    waiting,        \* the owner is blocked in _cond.wait
    ownerPc,        \* where the owner is
    workerPc,       \* where each worker is
    alive,          \* the Reactors that exist
    handed          \* history: how often each Reactor was handed out

vars == <<isRunning, tmp, index, reactors, threads, waiting, ownerPc, workerPc,
          alive, handed>>

TypeOK ==
    /\ isRunning \in BOOLEAN /\ waiting \in BOOLEAN
    /\ tmp \in Workers \cup {None}
    /\ index \in 0 .. MaxNum
    /\ reactors \in Seq(Workers) /\ Len(reactors) <= threads
    /\ threads \in 0 .. MaxNum
    /\ ownerPc \in {"spawn", "test", "wait", "push", "ready", "join", "gone"}
    /\ workerPc \in [Workers -> {"none", "check", "create", "notify", "loop",
                                 "ended"}]
    /\ alive \subseteq Workers
    /\ handed \in [Workers -> Nat]

Init ==
    /\ isRunning = TRUE
    /\ tmp = None
    /\ index = 0
    /\ reactors = <<>>
    /\ threads = 0
    /\ waiting = FALSE
    /\ ownerPc = "spawn"
    /\ workerPc = [w \in Workers |-> "none"]
    /\ alive = {}
    /\ handed = [w \in Workers |-> 0]

-----------------------------------------------------------------------------
(* The owner: the constructor and its initReactors.                        *)

FaultySpawn ==
    /\ ownerPc = "spawn"
    /\ threads < MaxNum
    /\ threads' = threads + 1
    /\ workerPc' = [workerPc EXCEPT ![threads + 1] = "check"]
    /\ ownerPc' = "test"
    /\ UNCHANGED <<isRunning, tmp, index, reactors, waiting, alive, handed>>

\* The next worker is started.
Spawn ==
    /\ ownerPc = "spawn"
    /\ threads < MaxNum
    /\ tmp' = None
    /\ threads' = threads + 1
    /\ workerPc' = [workerPc EXCEPT ![threads + 1] = "check"]
    /\ ownerPc' = "test"
    /\ UNCHANGED <<isRunning, index, reactors, waiting, alive, handed>>

\* The thread cannot be created: the constructor rethrows, and the members
\* that were constructed are destroyed.
SpawnFails ==
    /\ ownerPc = "spawn"
    /\ threads < MaxNum
    /\ tmp' = None
    /\ isRunning' = FALSE
    /\ ownerPc' = "join"
    /\ UNCHANGED <<index, reactors, threads, waiting, workerPc, alive, handed>>

\* while(_tmp == nullptr), under _mtx.  No worker ever takes _mtx.
Test ==
    /\ ownerPc = "test" /\ ~waiting
    /\ ownerPc' = IF tmp = None THEN "wait" ELSE "push"
    /\ UNCHANGED <<isRunning, tmp, index, reactors, threads, waiting, workerPc,
                   alive, handed>>

FaultyBlock ==
    /\ ownerPc = "wait"
    /\ waiting' = TRUE
    /\ ownerPc' = "push"
    /\ UNCHANGED <<isRunning, tmp, index, reactors, threads, workerPc, alive,
                   handed>>

\* _cond.wait: a notification that came before this step is gone.
Block ==
    /\ ownerPc = "wait"
    /\ waiting' = TRUE
    /\ ownerPc' = "test"
    /\ UNCHANGED <<isRunning, tmp, index, reactors, threads, workerPc, alive,
                   handed>>

\* A condition variable may wake for no reason; nothing says it will.
WakeSpuriously ==
    /\ waiting
    /\ waiting' = FALSE
    /\ UNCHANGED <<isRunning, tmp, index, reactors, threads, ownerPc, workerPc,
                   alive, handed>>

PushReactor ==
    /\ ownerPc = "push" /\ ~waiting
    /\ reactors' = Append(reactors, tmp)
    /\ ownerPc' = IF threads < MaxNum THEN "spawn" ELSE "ready"
    /\ UNCHANGED <<isRunning, tmp, index, threads, waiting, workerPc, alive,
                   handed>>

-----------------------------------------------------------------------------
(* The owner: what it does with the pool.                                  *)

FaultySlot == IF index > MaxNum THEN 0 ELSE index
\* The slot that GetAvailReactor uses.
Slot == IF index >= MaxNum - 1 THEN 0 ELSE index

GetAvailReactor ==
    /\ ownerPc = "ready"
    /\ handed[reactors[Slot + 1]] < MaxCalls
    /\ handed' = [handed EXCEPT ![reactors[Slot + 1]] = @ + 1]
    /\ index' = Slot + 1
    /\ UNCHANGED <<isRunning, tmp, reactors, threads, waiting, ownerPc,
                   workerPc, alive>>

\* ~ThreadPool; nobody waits on _cond any more.  _joiner is destroyed next.
Destroy ==
    /\ ownerPc = "ready"
    /\ isRunning' = FALSE
    /\ ownerPc' = "join"
    /\ UNCHANGED <<tmp, index, reactors, threads, waiting, workerPc, alive,
                   handed>>

\* ~ThreadJoiner: all the threads have ended.
Join ==
    /\ ownerPc = "join"
    /\ \A w \in 1 .. threads : workerPc[w] = "ended"
    /\ ownerPc' = "gone"
    /\ UNCHANGED <<isRunning, tmp, index, reactors, threads, waiting, workerPc,
                   alive, handed>>

-----------------------------------------------------------------------------
(* workerThread.                                                           *)

CheckRunning(w) ==
    /\ workerPc[w] = "check"
    /\ workerPc' = [workerPc EXCEPT ![w] = IF isRunning THEN "create" ELSE "ended"]
    /\ UNCHANGED <<isRunning, tmp, index, reactors, threads, waiting, ownerPc,
                   alive, handed>>

FaultyCreate(w) ==
    /\ workerPc[w] = "create"
    /\ tmp' = w
    /\ workerPc' = [workerPc EXCEPT ![w] = "notify"]
    /\ UNCHANGED <<isRunning, index, reactors, threads, waiting, ownerPc, alive,
                   handed>>

\* The Reactor is constructed and its address stored, without _mtx.
Create(w) ==
    /\ workerPc[w] = "create"
    /\ alive' = alive \cup {w}
    /\ tmp' = w
    /\ workerPc' = [workerPc EXCEPT ![w] = "notify"]
    /\ UNCHANGED <<isRunning, index, reactors, threads, waiting, ownerPc, handed>>

\* notify_one reaches the owner only if it is already blocked.
Notify(w) ==
    /\ workerPc[w] = "notify"
    /\ waiting' = FALSE
    /\ workerPc' = [workerPc EXCEPT ![w] = "loop"]
    /\ UNCHANGED <<isRunning, tmp, index, reactors, threads, ownerPc, alive,
                   handed>>

\* Somebody who was handed the Reactor stopped it: Start returns, and the Reactor leaves its scope.
LoopEnds(w) ==
    /\ workerPc[w] = "loop"
    /\ ownerPc \in {"ready", "join"} /\ handed[w] > 0
    /\ alive' = alive \ {w}
    /\ workerPc' = [workerPc EXCEPT ![w] = "check"]
    /\ UNCHANGED <<isRunning, tmp, index, reactors, threads, waiting, ownerPc,
                   handed>>

-----------------------------------------------------------------------------
OwnerStep == Spawn \/ Test \/ Block \/ PushReactor \/ Join

WorkerStep(w) == CheckRunning(w) \/ Create(w) \/ Notify(w)

Next ==
    \/ OwnerStep
    \/ SpawnFails \/ WakeSpuriously
    \/ GetAvailReactor \/ Destroy
    \/ \E w \in Workers : WorkerStep(w) \/ LoopEnds(w)

\* Threads keep running; nobody has to call anything.
Fairness == WF_vars(OwnerStep) /\ \A w \in Workers : WF_vars(WorkerStep(w))

Spec == Init /\ [][Next]_vars /\ Fairness

-----------------------------------------------------------------------------
\* The i-th slot of the pool gets the i-th worker's Reactor, although all the
\* workers hand theirs over through the one variable _tmp
\* (ThreadPool.cpp:66-79, 88-91).
ListedInOrder == \A i \in DOMAIN reactors : reactors[i] = i

\* A Reactor that is handed out for the first time exists
\* (ThreadPool.cpp:57-64, 85-93; ThreadPool.h:102-105).
ListedIsAlive ==
    \A i \in DOMAIN reactors : handed[reactors[i]] = 0 => reactors[i] \in alive

\* _reactors.at never throws (ThreadPool.cpp:57-64).
SlotExists == ownerPc = "ready" => Slot + 1 \in DOMAIN reactors

-----------------------------------------------------------------------------
(* What a comment promises and the code does not keep.                     *)

\* The constructor comes back: the worker's notification reaches it
\* (ThreadPool.cpp:90).
ConstructorReturns == <>(ownerPc \in {"ready", "join"})

\* Reactors are allocated in a cycle, which starts again at the limit, so that none is
\* handed out twice more than another (ThreadPool.cpp:59-62).
AllocatedInCycle == \A v, w \in Workers : handed[v] <= handed[w] + 1

=============================================================================
