----------------------------- MODULE TaskQueue -----------------------------
(***************************************************************************)
(* What a Reactor promises to a thread that hands it a task: the task is   *)
(* run at most once, and tasks are run in the order in which they were     *)
(* handed over.  Nothing is said of threads, locks, wakeups or epoll;      *)
(* module Reactor is shown to implement this specification.                *)
(***************************************************************************)
EXTENDS Naturals, Sequences

CONSTANT Tasks      \* every call of RunInQueue is a task of its own

VARIABLES
    queue,          \* tasks handed over and not yet started, oldest first
    executed,       \* tasks started so far, in the order they were started
    posted          \* every task ever handed over

vars == <<queue, executed, posted>>

TypeOK ==
    /\ queue \in Seq(Tasks)
    /\ executed \in Seq(Tasks)
    /\ posted \in SUBSET Tasks

Init ==
    /\ queue = <<>>
    /\ executed = <<>>
    /\ posted = {}

Post(t) ==
    /\ t \notin posted
    /\ posted' = posted \cup {t}
    /\ queue' = Append(queue, t)
    /\ UNCHANGED executed

Run ==
    /\ queue # <<>>
    /\ executed' = Append(executed, Head(queue))
    /\ queue' = Tail(queue)
    /\ UNCHANGED posted

\* A task that throws takes the tasks that were to follow it with it.
Discard ==
    /\ \E n \in 1 .. Len(queue) : queue' = SubSeq(queue, n + 1, Len(queue))
    /\ UNCHANGED <<executed, posted>>

Next ==
    \/ \E t \in Tasks : Post(t)
    \/ Run
    \/ Discard

Spec == Init /\ [][Next]_vars

\* Everything handed over and not discarded, oldest first.
history == executed \o queue

\* What is started is started once, and never while it still waits: the tasks
\* of history are pairwise different, and each of them was handed over
\* (Reactor.cpp:95-109, dealRemainedTasks).
RunOnce ==
    /\ \A i \in 1 .. Len(history) : history[i] \in posted
    /\ \A i, j \in 1 .. Len(history) : history[i] = history[j] => i = j

=============================================================================
