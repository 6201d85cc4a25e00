--------------------------- MODULE BlockingQueue ---------------------------
(***************************************************************************)
(* BlockingQueue: producers and consumers around one mutex and one         *)
(* condition variable.  Everything a thread does between taking _lock and  *)
(* giving it up, in wait or by returning, is one step.  An element is      *)
(* named by the producer that pushed it and by the number of the push.     *)
(***************************************************************************)
EXTENDS Naturals, Sequences, FiniteSets

CONSTANTS
    Producers, Consumers,
    Size,           \* _size
    MaxPushes,      \* bound: how often each producer calls Push
    MaxThrows       \* bound: how many calls end with an exception

ASSUME QueueAssumption ==
    /\ Producers \cap Consumers = {}
    /\ Size \in Nat
    /\ MaxPushes \in Nat /\ MaxThrows \in Nat

Threads == Producers \cup Consumers
Items == Producers \X (1 .. MaxPushes)

VARIABLES
    queue,          \* _queue
    pc,             \* where each thread is: outside, in a call and about to
                    \* take _lock, blocked in _cond.wait, or woken and about to
                    \* take _lock again
    pushes,         \* history: calls of Push, by producer
    popped,         \* history: what Pop returned, in order
    throws          \* history: how many calls ended with an exception

vars == <<queue, pc, pushes, popped, throws>>

TypeOK ==
    /\ queue \in Seq(Items) /\ Len(queue) <= Size
    /\ pc \in [Threads -> {"outside", "called", "waiting", "woken"}]
    /\ pushes \in [Producers -> 0 .. MaxPushes]
    /\ popped \in Seq(Items)
    /\ throws \in 0 .. MaxThrows

Init ==
    /\ queue = <<>>
    /\ pc = [t \in Threads |-> "outside"]
    /\ pushes = [p \in Producers |-> 0]
    /\ popped = <<>>
    /\ throws = 0

-----------------------------------------------------------------------------
Waiting == {t \in Threads : pc[t] = "waiting"}
HasLock(t) == pc[t] \in {"called", "woken"}

FaultyLeaves(t) == pc' = [pc EXCEPT ![t] = "outside"]
\* notify_one wakes one of those that wait, of whichever kind, and t returns.
Leaves(t) ==
    IF Waiting = {}
    THEN pc' = [pc EXCEPT ![t] = "outside"]
    ELSE \E w \in Waiting : pc' = [pc EXCEPT ![t] = "outside", ![w] = "woken"]

CallPush(p) ==
    /\ pc[p] = "outside"
    /\ pushes[p] < MaxPushes
    /\ pushes' = [pushes EXCEPT ![p] = @ + 1]
    /\ pc' = [pc EXCEPT ![p] = "called"]
    /\ UNCHANGED <<queue, popped, throws>>

\* The tests of the two while loops fail: the thread waits.
PushWaits(p) ==
    /\ HasLock(p)
    /\ Len(queue) = Size
    /\ pc' = [pc EXCEPT ![p] = "waiting"]
    /\ UNCHANGED <<queue, pushes, popped, throws>>

FaultyPush(p) ==
    /\ HasLock(p)
    /\ pc[p] = "called" => Len(queue) < Size
    /\ queue' = Append(queue, <<p, pushes[p]>>)
    /\ Leaves(p)
    /\ UNCHANGED <<pushes, popped, throws>>

Push(p) ==
    /\ HasLock(p)
    /\ Len(queue) < Size
    /\ queue' = Append(queue, <<p, pushes[p]>>)
    /\ Leaves(p)
    /\ UNCHANGED <<pushes, popped, throws>>

CallPop(c) ==
    /\ pc[c] = "outside"
    /\ pc' = [pc EXCEPT ![c] = "called"]
    /\ UNCHANGED <<queue, pushes, popped, throws>>

PopWaits(c) ==
    /\ HasLock(c)
    /\ queue = <<>>
    /\ pc' = [pc EXCEPT ![c] = "waiting"]
    /\ UNCHANGED <<queue, pushes, popped, throws>>

Pop(c) ==
    /\ HasLock(c)
    /\ queue # <<>>
    /\ popped' = Append(popped, Head(queue))
    /\ queue' = Tail(queue)
    /\ Leaves(c)
    /\ UNCHANGED <<pushes, throws>>

\* Copying the element, or the allocation for it, throws: the call leaves the
\* queue as it was and notifies nobody, even if it was itself notified.
Throws(t) ==
    /\ HasLock(t)
    /\ IF t \in Producers THEN Len(queue) < Size ELSE queue # <<>>
    /\ pc' = [pc EXCEPT ![t] = "outside"]
    /\ throws < MaxThrows
    /\ throws' = throws + 1
    /\ UNCHANGED <<queue, pushes, popped>>

\* A condition variable may wake for no reason; nothing says it will.
WakeSpuriously(t) ==
    /\ pc[t] = "waiting"
    /\ pc' = [pc EXCEPT ![t] = "woken"]
    /\ UNCHANGED <<queue, pushes, popped, throws>>

-----------------------------------------------------------------------------
ProducerStep(p) == PushWaits(p) \/ Push(p)
ConsumerStep(c) == PopWaits(c) \/ Pop(c)

Next ==
    \/ \E p \in Producers : CallPush(p) \/ ProducerStep(p)
    \/ \E c \in Consumers : CallPop(c) \/ ConsumerStep(c)
    \/ \E t \in Threads : Throws(t) \/ WakeSpuriously(t)

\* A thread that wants _lock gets it in the end, as nobody holds it for ever:
\* its own step stays enabled until it is taken.  Consumers come back for more.
Fairness ==
    /\ \A p \in Producers : WF_vars(ProducerStep(p))
    /\ \A c \in Consumers : WF_vars(ConsumerStep(c)) /\ WF_vars(CallPop(c))

Spec == Init /\ [][Next]_vars /\ Fairness

-----------------------------------------------------------------------------
\* Elements come out in the order in which they went in, each once, and there are
\* never more than _size of them (BlockingQueue.cpp:9-34).
BQ == INSTANCE BoundedQueue WITH items <- queue, taken <- popped
ImplementsBoundedQueue == BQ!Spec

\* The threads never all wait for one another, although each notification goes to
\* one waiter of either kind (BlockingQueue.cpp:13-19, 26-33).
NoStandstill == Waiting # Threads

\* A waiter that could go on has somebody who will wake it, or is going to
\* (BlockingQueue.cpp:19, 33).
WaiterIsWoken ==
    throws = 0 /\ (\E t \in Waiting : IF t \in Producers THEN Len(queue) < Size
                                                     ELSE queue # <<>>)
        => \E t \in Threads : HasLock(t)

\* What was pushed is popped in the end, if consumers keep coming
\* (BlockingQueue.cpp:9-34).
EverythingPopped == []<>(queue = <<>>)

=============================================================================
