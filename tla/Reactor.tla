------------------------------ MODULE Reactor ------------------------------
(***************************************************************************)
(* One Reactor: the event loop of the thread that owns it (Start), the     *)
(* epoll wait of its Multiplexer, the eventfd that ends that wait, and the *)
(* list of tasks that other threads hand over (RunInQueue, which           *)
(* RunInternally is off the reactor's thread).                             *)
(*                                                                         *)
(* A step is what another thread can observe: one atomic store, one        *)
(* critical section of _mtx, one system call.                              *)
(***************************************************************************)
EXTENDS Naturals, Sequences, FiniteSets

CONSTANTS
    Callers,        \* threads other than the reactor's that call into it
    Tasks,          \* every call of RunInQueue is a task of its own
    Sources,        \* the registered dispatchers other than the eventfd's
    Eventfd,        \* the eventfd's dispatcher
    EventListInit,  \* initial size of the epoll event list (8 in the code)
    EventfdMax      \* largest value of the eventfd counter (2^64-2 on Linux)

ASSUME ReactorAssumption ==
    /\ EventListInit \in Nat \ {0}
    /\ EventfdMax \in Nat \ {0}
    /\ Eventfd \notin Sources

VARIABLES
    isReacting,     \* _isReacting
    isTaskRunning,  \* _isTaskRunning
    pendingTasks,   \* _pendingTasks
    eventfd,        \* the kernel's counter behind the eventfd
    ready,          \* sources the kernel would report (level triggered)
    eventListSize,  \* _eventList.size() of the Multiplexer
    avail,          \* _availDispatchers still to be handled in this round
    tmp,            \* the batch dealRemainedTasks swapped out, not yet started
    loopPc,         \* where the reactor's thread is
    inCallback,     \* it is inside a dispatcher's callback or a task
    callerPc,       \* where each other thread is
    posted,         \* history: every task handed over
    early,          \* history: those its own thread handed over before Start
    executed        \* history: tasks started, in order

vars == <<isReacting, isTaskRunning, pendingTasks, eventfd, ready,
          eventListSize, avail, tmp, loopPc, inCallback, callerPc, posted, early,
          executed>>

LoopPcs == {"idle", "check", "wait", "events", "swap", "tasks",
            "stopped", "failed"}

TypeOK ==
    /\ isReacting \in BOOLEAN
    /\ isTaskRunning \in BOOLEAN
    /\ pendingTasks \in Seq(Tasks)
    /\ eventfd \in 0 .. EventfdMax
    /\ ready \in SUBSET Sources
    /\ eventListSize \in Nat \ {0}
    /\ avail \in SUBSET (Sources \cup {Eventfd})
    /\ tmp \in Seq(Tasks)
    /\ loopPc \in LoopPcs
    /\ inCallback \in BOOLEAN
    /\ callerPc \in [Callers -> {"out", "queued", "stopping"}]
    /\ posted \in SUBSET Tasks
    /\ early \in SUBSET posted
    /\ executed \in Seq(Tasks)

\* The constructor has run: the eventfd is registered for reading.
Init ==
    /\ isReacting = FALSE
    /\ isTaskRunning = FALSE
    /\ pendingTasks = <<>>
    /\ eventfd = 0
    /\ ready = {}
    /\ eventListSize = EventListInit
    /\ avail = {}
    /\ tmp = <<>>
    /\ loopPc = "idle"
    /\ inCallback = FALSE
    /\ callerPc = [c \in Callers |-> "out"]
    /\ posted = {} /\ early = {}
    /\ executed = <<>>

-----------------------------------------------------------------------------
(* Definitions named Faulty... are plausible mistakes in the definition    *)
(* that follows them.  No action uses them: they are there to show that    *)
(* the properties can fail.                                                *)

\* Wakeup: a nonblocking write of 1.  At the counter's limit the write fails
\* with EAGAIN, which the code ignores.
Bump(n) == IF n < EventfdMax THEN n + 1 ELSE n

FaultyGrown(n) == eventListSize
FaultyShrunk(n) ==
    IF n >= eventListSize THEN eventListSize \div 2 ELSE eventListSize
\* A list that epoll_wait filled is doubled.
Grown(n) == IF n >= eventListSize THEN 2 * eventListSize ELSE eventListSize

FaultyMustWake == FALSE
\* When RunInQueue on the reactor's own thread writes the eventfd.
MustWake == isTaskRunning

(* The reactor's own thread. *)

Start ==
    /\ loopPc = "idle"
    /\ isReacting' = TRUE
    /\ loopPc' = "check"
    /\ UNCHANGED <<isTaskRunning, pendingTasks, eventfd, ready, eventListSize,
                   avail, tmp, inCallback, callerPc, posted, early, executed>>

\* while(_isReacting), and the clear() that opens the round.
CheckReacting ==
    /\ loopPc = "check"
    /\ \/ isReacting /\ loopPc' = "wait" /\ avail' = {}
       \/ ~isReacting /\ loopPc' = "stopped" /\ UNCHANGED avail
    /\ UNCHANGED <<isReacting, isTaskRunning, pendingTasks, eventfd, ready,
                   eventListSize, tmp, inCallback, callerPc, posted, early,
                   executed>>

Reported == ready \cup (IF eventfd > 0 THEN {Eventfd} ELSE {})

\* epoll_wait reports as many ready descriptors as the event list holds.
Wait ==
    /\ loopPc = "wait"
    /\ Reported # {}
    /\ \E some \in SUBSET Reported :
          /\ Cardinality(some) = IF Cardinality(Reported) < eventListSize
                                 THEN Cardinality(Reported)
                                 ELSE eventListSize
          /\ avail' = some
          /\ eventListSize' = Grown(Cardinality(some))
    /\ loopPc' = "events"
    /\ UNCHANGED <<isReacting, isTaskRunning, pendingTasks, eventfd, ready, tmp,
                   inCallback, callerPc, posted, early, executed>>

\* epoll_wait returns -1 (EINTR included): Wait throws out of Start.
WaitFails ==
    /\ loopPc = "wait"
    /\ loopPc' = "failed"
    /\ UNCHANGED <<isReacting, isTaskRunning, pendingTasks, eventfd, ready,
                   eventListSize, avail, tmp, inCallback, callerPc, posted,
                   early, executed>>

\* The eventfd's own callback: one read, which resets the counter.
HandleWakeup ==
    /\ loopPc = "events" /\ ~inCallback
    /\ Eventfd \in avail
    /\ avail' = avail \ {Eventfd}
    /\ eventfd' = 0
    /\ UNCHANGED <<isReacting, isTaskRunning, pendingTasks, ready,
                   eventListSize, tmp, loopPc, inCallback, callerPc, posted,
                   early, executed>>

\* Another dispatcher's callback is entered; it may or may not drain its source.
HandleEvents(s) ==
    /\ loopPc = "events" /\ ~inCallback
    /\ s \in avail
    /\ avail' = avail \ {s}
    /\ ready' \in {ready, ready \ {s}}
    /\ inCallback' = TRUE
    /\ UNCHANGED <<isReacting, isTaskRunning, pendingTasks, eventfd,
                   eventListSize, tmp, loopPc, callerPc, posted, early,
                   executed>>

\* The round's events are handled: dealRemainedTasks sets its flag ...
BeginDeal ==
    /\ loopPc = "events" /\ ~inCallback
    /\ avail = {}
    /\ isTaskRunning' = TRUE
    /\ loopPc' = "swap"
    /\ UNCHANGED <<isReacting, pendingTasks, eventfd, ready, eventListSize,
                   avail, tmp, inCallback, callerPc, posted, early, executed>>

FaultySwapTasks ==
    /\ loopPc = "swap"
    /\ tmp' = pendingTasks
    /\ loopPc' = "tasks"
    /\ UNCHANGED <<isReacting, isTaskRunning, pendingTasks, eventfd, ready,
                   eventListSize, avail, inCallback, callerPc, posted, early,
                   executed>>

\* ... swaps the list out under the lock ...
SwapTasks ==
    /\ loopPc = "swap"
    /\ tmp' = pendingTasks
    /\ pendingTasks' = <<>>
    /\ loopPc' = "tasks"
    /\ UNCHANGED <<isReacting, isTaskRunning, eventfd, ready, eventListSize,
                   avail, inCallback, callerPc, posted, early, executed>>

\* ... runs what it swapped out ...
RunTask ==
    /\ loopPc = "tasks" /\ ~inCallback
    /\ tmp # <<>>
    /\ executed' = Append(executed, Head(tmp))
    /\ tmp' = Tail(tmp)
    /\ inCallback' = TRUE
    /\ UNCHANGED <<isReacting, isTaskRunning, pendingTasks, eventfd, ready,
                   eventListSize, avail, loopPc, callerPc, posted, early>>

\* ... and clears its flag.
EndDeal ==
    /\ loopPc = "tasks" /\ ~inCallback
    /\ tmp = <<>>
    /\ isTaskRunning' = FALSE
    /\ loopPc' = "check"
    /\ UNCHANGED <<isReacting, pendingTasks, eventfd, ready, eventListSize,
                   avail, tmp, inCallback, callerPc, posted, early, executed>>

-----------------------------------------------------------------------------
(* User code on the reactor's own thread, inside a callback or a task, or  *)
(* before it calls Start.  A RunInternally there just calls the task and   *)
(* leaves no trace here.                                                   *)

\* RunInQueue: nobody but this thread reads the eventfd, so the append and
\* the write after it are one step.  Before Start there is no write.
QueueInThread(t) ==
    /\ inCallback \/ loopPc = "idle"
    /\ t \notin posted
    /\ posted' = posted \cup {t}
    /\ early' = IF loopPc = "idle" THEN early \cup {t} ELSE early
    /\ pendingTasks' = Append(pendingTasks, t)
    /\ eventfd' = IF MustWake THEN Bump(eventfd) ELSE eventfd
    /\ UNCHANGED <<isReacting, isTaskRunning, ready, eventListSize, avail, tmp,
                   loopPc, inCallback, callerPc, executed>>

StopInThread ==
    /\ inCallback
    /\ isReacting
    /\ isReacting' = FALSE
    /\ UNCHANGED <<isTaskRunning, pendingTasks, eventfd, ready, eventListSize,
                   avail, tmp, loopPc, inCallback, callerPc, posted, early,
                   executed>>

Return ==
    /\ inCallback
    /\ inCallback' = FALSE
    /\ UNCHANGED <<isReacting, isTaskRunning, pendingTasks, eventfd, ready,
                   eventListSize, avail, tmp, loopPc, callerPc, posted, early,
                   executed>>

\* An exception leaves Start; unwinding destroys the rest of the batch.
Throw ==
    /\ inCallback
    /\ inCallback' = FALSE
    /\ tmp' = <<>>
    /\ loopPc' = "failed"
    /\ UNCHANGED <<isReacting, isTaskRunning, pendingTasks, eventfd, ready,
                   eventListSize, avail, callerPc, posted, early, executed>>

-----------------------------------------------------------------------------
(* The other threads. *)

\* RunInQueue up to the end of its critical section.
Queue(c, t) ==
    /\ callerPc[c] = "out"
    /\ t \notin posted
    /\ posted' = posted \cup {t}
    /\ pendingTasks' = Append(pendingTasks, t)
    /\ callerPc' = [callerPc EXCEPT ![c] = "queued"]
    /\ UNCHANGED <<isReacting, isTaskRunning, eventfd, ready, eventListSize,
                   avail, tmp, loopPc, inCallback, early, executed>>

FaultyStop(c) ==
    /\ callerPc[c] = "out"
    /\ isReacting' = FALSE
    /\ UNCHANGED <<isTaskRunning, pendingTasks, eventfd, ready, eventListSize,
                   avail, tmp, loopPc, inCallback, callerPc, posted, early,
                   executed>>

\* Stop up to its store.
Stop(c) ==
    /\ callerPc[c] = "out"
    /\ isReacting' = FALSE
    /\ callerPc' = [callerPc EXCEPT ![c] = "stopping"]
    /\ UNCHANGED <<isTaskRunning, pendingTasks, eventfd, ready, eventListSize,
                   avail, tmp, loopPc, inCallback, posted, early, executed>>

\* The Wakeup that ends both.
Wakeup(c) ==
    /\ callerPc[c] \in {"queued", "stopping"}
    /\ eventfd' = Bump(eventfd)
    /\ callerPc' = [callerPc EXCEPT ![c] = "out"]
    /\ UNCHANGED <<isReacting, isTaskRunning, pendingTasks, ready,
                   eventListSize, avail, tmp, loopPc, inCallback, posted, early,
                   executed>>

\* The kernel: a source becomes ready.
Arrive(s) ==
    /\ s \notin ready
    /\ ready' = ready \cup {s}
    /\ UNCHANGED <<isReacting, isTaskRunning, pendingTasks, eventfd,
                   eventListSize, avail, tmp, loopPc, inCallback, callerPc,
                   posted, early, executed>>

-----------------------------------------------------------------------------
LoopStep ==
    \/ Start \/ CheckReacting \/ Wait \/ HandleWakeup
    \/ \E s \in Sources : HandleEvents(s)
    \/ BeginDeal \/ SwapTasks \/ RunTask \/ EndDeal

CallbackStep ==
    \/ \E t \in Tasks : QueueInThread(t)
    \/ StopInThread
    \/ Return

CallerStep ==
    \/ \E c \in Callers, t \in Tasks : Queue(c, t)
    \/ \E c \in Callers : Stop(c) \/ Wakeup(c)

Next ==
    \/ LoopStep
    \/ CallbackStep
    \/ Throw \/ WaitFails
    \/ CallerStep
    \/ \E s \in Sources : Arrive(s)

\* The reactor's thread keeps running, a callback returns, and a thread that
\* began a call finishes it.  Nobody has to call, to stop or to send.
Fairness ==
    /\ WF_vars(LoopStep)
    /\ WF_vars(Return)
    /\ \A c \in Callers : WF_vars(Wakeup(c))

Spec == Init /\ [][Next]_vars /\ Fairness

-----------------------------------------------------------------------------
Over == loopPc \in {"stopped", "failed"}

\* The eventfd is readable, or a thread is about to make it so.
WakePending == eventfd > 0 \/ \E c \in Callers : callerPc[c] # "out"

\* The tasks that wait, without those for which nobody was to be woken: what the
\* owner queues before Start stays until something else ends the first wait.
Owed == {pendingTasks[i] : i \in DOMAIN pendingTasks} \ early

\* No lost wakeup: the loop never sleeps in epoll_wait on a task it was handed,
\* by another thread, in a callback or in a task, unless the eventfd ends that
\* sleep (Reactor.cpp:69-79, RunInQueue).
NoLostWakeup == loopPc = "wait" /\ Owed # {} => WakePending

\* No lost stop: once the loop runs, it never sleeps through a Stop
\* (Reactor.cpp:135-140).
NoLostStop == loopPc = "wait" /\ ~isReacting => WakePending

\* The reactor implements TaskQueue; what waits is what is left of the batch
\* followed by what was handed over since (Reactor.cpp:95-109).
TQ == INSTANCE TaskQueue WITH queue <- tmp \o pendingTasks
ImplementsTaskQueue == TQ!Spec

\* Every task that is handed over is run, unless the loop ends first, by a Stop,
\* an exception or a failing epoll_wait, or its own thread queued it before Start
\* (Reactor.h:64-68: without the extra wakeup tasks would starve).
EveryTaskRuns ==
    \A t \in Tasks :
        t \in posted \ early ~> Over \/ \E i \in DOMAIN executed : executed[i] = t

\* A Stop that finds the loop running ends it (Reactor.cpp:135-140).
StopEndsLoop == loopPc # "idle" /\ ~isReacting ~> Over

\* Every ready descriptor gets its callback however the kernel chooses what it
\* reports, because a full event list grows (Multiplexer.cpp:93-95).
EverySourceServed == \A s \in Sources : s \in ready ~> s \in avail \/ Over

=============================================================================
