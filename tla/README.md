# simpleton: a verification project

simpleton is a small C++11 library for TCP servers built around the reactor
pattern: one event loop per thread on top of epoll, with callbacks for new
connections, messages and closing. These modules model its core for TLC. What TLC checks of its safety
on small instances, TLAPS proves for all of them.

Paths below are relative to the repository; all its files lie in `src/`.

## The system

| part | state | operations | used by |
|---|---|---|---|
| `Reactor` | `_isReacting`, `_isTaskRunning`, `_pendingTasks` under `_mtx`, an eventfd, the round's `_availDispatchers` | `Start`, `Stop`, `RunInternally`, `RunInQueue`, `Wakeup`, `UpdateDispatcher`, `DeleteDispatcher` | everything |
| `Multiplexer` | epoll descriptor, `_eventList`, map from descriptor to dispatcher | `UpdateDispathcer`, `DeleteDispatcher`, `Wait` | `Reactor` |
| `Dispatcher` | `_events`, `_revents`, read and write flags, four callbacks | setters, `HandleReturnEvents` | `Reactor`, `TcpConnection`, `Acceptor` |
| `TcpConnection` | `_currState`, dispatcher, in- and out-buffer, user callbacks | `Send`, `Shutdown`, `ForceClose`, the four event handlers, `ConnectionEstablished`, `ConnectionRemoved` | user code, `TcpServer` |
| `Buffer` | a `vector<char>` and two indices | `Push`, `ReadFromKernel`, `WriteIntoKernel`, `GetAllReadable`, `GetUntilCRLF`, move | `TcpConnection`, user code |
| `ThreadPool`, `ThreadJoiner` | `_isRunning`, `_tmp`, `_index`, `_reactors`, `_threads` | constructor, `GetAvailReactor`, destructor | `TcpServer` |
| `TcpServer` | map of connections under `_mtx`, acceptor, pool | constructor, `handleNewConn`, `removeConnection` | user code |
| `Acceptor` | listening socket and its dispatcher | `Listen`, `handleRead` | `TcpServer` |
| `BlockingQueue` | bounded deque, one mutex, one condition variable | `Push`, `Pop` | nobody |
| `Socket`, `EndPoint`, `Exceptions`, `Callbacks`, `main.cpp`, `TestClient.py` | wrappers, values, an echo server and its client | | |

How they interact: the thread that owns a Reactor waits in
`Multiplexer::Wait`, calls `HandleReturnEvents` of every dispatcher that epoll
reported, and then runs the tasks that were queued. Other threads reach the
loop only through `RunInQueue` and `Stop`: they change a shared variable and
then write the eventfd, whose readiness ends the wait. A `TcpConnection` is a
dispatcher's set of callbacks; user code runs inside them and calls back into
the connection. The pool creates one thread with a Reactor on its stack per
worker and hands the Reactor's address to the accepting thread. There the `Acceptor`'s
dispatcher calls `handleNewConn`, which creates a `TcpConnection`, hands its dispatcher to
one of the pool's loops, lists it, sets its callbacks and queues
`ConnectionEstablished` for that loop. The connection lives as long as the map, `handleNewConn`
or a queued task holds a `shared_ptr`; dispatchers and the first task have its bare address.

What is hard in it:

- a loop that is about to sleep, and a thread that is about to wake it;
- tasks queued by tasks, tasks that throw, a batch that is swapped out;
- what epoll reported at the start of a round is old when it is acted upon;
- user callbacks that call `Send`, `Shutdown` and `ForceClose` on the connection
  that is calling them, and closing callbacks nested in one another;
- partial writes, a full kernel buffer, FIN and RST in every order;
- other threads that look at the state of a connection and act later;
- the hand-over of Reactors at the start of the pool and its end;
- a connection whose events arrive on one thread while another still sets it up;
- descriptor numbers that the kernel gives out again, in maps keyed by them;
- one condition variable for those who wait for room and those who wait for elements.

What makes each part correct, in short. Reactor: no task is lost, run twice or
overtaken; the loop does not sleep on work; `Stop` ends it. Buffer: bytes come out
in order, once. TcpConnection: the peer receives the stream in order; what is
registered with epoll agrees with the flags; one closing callback, then removal;
FIN after the last byte; a close is noticed. ThreadPool: the list holds one
existing reactor per worker, and its constructor and destructor return.
TcpServer: a connection's events come after it was set up and find it in the map; no loop
has the address of a connection that is gone; who closes is forgotten and who connects is accepted.
BlockingQueue: a bounded queue, first in, first out, whose threads never all wait.

The file `Acceptor.cpp` contains a stray word in line 4 and does not compile at this
commit; the models read the program as if the word were not there.

## The modules

`TaskQueue` &larr; `Reactor`, `ByteQueue` &larr; `Buffer`, `ConnectionLifecycle`
&larr; `TcpConnection` and `BoundedQueue` &larr; `BlockingQueue` are pairs of an abstract and a detailed specification, the
detailed one shown to implement the other. `BufferOps` holds the Buffer's methods
as operators; `Buffer` and `TcpConnection` both use them. `Multiplexer` does the same
for the multiplexer's map; `TcpServer` has one such value per loop. `MC...` modules add what TLC
needs, `...Proofs` modules hold the theorems, `BufferOpsProofs` the lemmas that
`BufferProofs` and `TcpConnectionProofs` share. A definition called `Faulty...` is a plausible
mistake in the definition it precedes; no action uses it, and putting
it in the place of the right one makes the property it is meant for fail.

### Reactor (`Reactor.tla`)

A step is what another thread can see: one atomic store, one critical section,
one system call. `loopPc` follows `Start` (`Reactor.cpp:111-133`) and
`dealRemainedTasks` (95-109): `check`, `wait`, `events`, `swap`, `tasks`. Inside a callback
or a task (`inCallback`) user code may queue a task, stop the loop, return or throw. The owning thread may also queue tasks
before `Start`; nothing is written to the eventfd then (`Reactor.cpp:76-78`), and `early` remembers these tasks.
`Queue` and `Stop` of another thread end with a separate `Wakeup`. The eventfd is a
counter with a limit at which a write fails silently, as in `Reactor.cpp:81-86`. `Wait`
reports any set of ready descriptors that fits the event list, and doubles a full
list. `RunInternally` on the loop's own thread is a call and leaves no trace; off it,
it is `RunInQueue`. Every call of `RunInQueue` is a different element of `Tasks`.

### Buffer (`BufferOps.tla`, `Buffer.tla`)

The value of a Buffer is its vector, capacity and two indices, all as the code keeps
them, including what `Push` does to a vector without room (moving down, or `resize`
and `insert` with libstdc++'s growth). Bytes are numbered by their position in the
stream of everything offered, so that losing, repeating or reordering one shows.

### TcpConnection (`TcpConnection.tla`)

One connection after `ConnectionEstablished`. `loopPc` walks through the branches of
`HandleReturnEvents` (`before` the hang-up branch, `read`, `write`, `except`) and the
tasks; `frames` is the stack of user callbacks the loop is in. `DoSend`, `DoShutdown`,
`DoClose` and `DoRemove` are the private methods of the class; `DoClose` ends inside the closing
callback and `Return` goes on with `ConnectionRemoved`. Calls from other
threads take three steps, the look at `_currState` (`UserLooks`), the store to it (`UserStores`) and the queueing (`UserQueues`); `Send` has
no store. The kernel is a bounded send buffer, a count of readable bytes, and flags for FIN, RST
and SO_ERROR; `Poll` is what Linux's `tcp_poll` makes of them. `Reactor` is used as
`TaskQueue` promises: queued tasks run in order between two rounds.
`OtherOps` are calls on the loop's thread by code that belongs to something else,
such as the callback of another connection in the same round.

### ThreadPool (`ThreadPool.tla`)

The owner walks through `initReactors` (`spawn`, `test`, `wait`, `push`), then uses the pool and
destroys it; each worker through `workerThread`. `_cond.wait` is a step of its own after
the test of `_tmp`, because the worker stores and notifies without the mutex. Waits
may end spuriously, and creating a thread may throw. A Reactor that
was handed out may be stopped; its worker then makes another one.

### TcpServer, Acceptor, Multiplexer (`TcpServer.tla`, `Multiplexer.tla`)

Loop 0 is the Reactor of the accepting thread, the others are the pool's. Each loop goes
through `wait`, `events` and `tasks`; `round` is `_availDispatchers`. `Accept` is `Acceptor::handleRead` up to
the choice of a loop; then `acceptPc` follows `handleNewConn` (`TcpServer.cpp:48-78`): the constructor with its
`RunInternally` (`Construct`), the map (`List`), one step per callback that makes a difference, the second `RunInternally`
(`Establish`) and the return. In between every other loop may take its steps, so that
a connection can get a message or its end before it is set up. The constructor may throw when it sets the keep-alive option, after the
loop has its dispatcher (`SetKeepAliveThrows`). `_currState` has no initial value in the code: whoever reads it
first finds any value of `Leftover`. A missing callback or a `shared_from_this` without an owner
throws, the exception leaves the loop, and `aborted` ends the behaviour, as it ends the process.

A handler is followed to its end. `Enter` takes a dispatcher out of the round; `handler` then says where `HandleReturnEvents` is:
in the closing callback (`closing`), in what follows the read branch (`rest`), or there after `ConnectionRemoved` (`removed`), when the connection
may be gone already. `EndHandler` is the write branch and the return. In a callback the program may send, and may keep the pointer it was handed:
`user` is a thread that has it, makes at most one call of `Send` or `ForceClose` in the steps of the code, and drops
it, perhaps before the task it queued has run. `Send` may leave bytes and set the write event, whatever has become of the dispatcher; a
connection that comes to be registered again after its removal is `late`. When a loop goes on in a connection that was destroyed
(`UseDestroyed`) the program may end or get away with it.

`Referenced` is the count of `shared_ptr`s being positive; the tasks of a batch keep theirs until the batch
is destroyed (`Reactor.cpp:99-109`). Destroying a connection closes its descriptor: epoll forgets
it (`Closed`), the map does not. `LowestFree` gives it out again. `UpdateFails` is epoll's answer when map and kernel
disagree. How Reactors are made and woken is the business of `ThreadPool` and `Reactor`, what a connection does with its bytes and
with `Shutdown` that of `TcpConnection`.

### BlockingQueue (`BlockingQueue.tla`)

What a thread does between taking `_lock` and giving it up is one step. A thread
is `outside`, `called` (about to take the lock), `waiting` or `woken`, which is about to take it again and to
look once more. `Leaves` is `notify_one` and the return: any one waiter is woken, of whichever kind. `Throws` is
the copy of the element failing: then nothing is notified.

## The runs

| run | instance | what it shows |
|---|---|---|
| `reactor` | 2 threads, 2 tasks, 2 descriptors, event list 1, eventfd limit 2 | `NoLostWakeup`, `NoLostStop`; refinement of `TaskQueue`; `EveryTaskRuns`, `StopEndsLoop`, `EverySourceServed` |
| `buffer` | vector of 2, stack array of 2, pushes up to 3, 7 bytes in all | refinement of `ByteQueue`; `WholeReadsLoseNothing` |
| `connection_safety` | 1 other thread; every call in every place, callbacks nested three deep | `StreamInOrder`, `InterestInSync`, `CloseNoticed` |
| `connection_lifecycle` | 2 other threads that send; callbacks that shut down and force a close, not from within the closing callback; foreign code of the same loop shuts down | refinement of `ConnectionLifecycle`; `NoMessageAfterClosing`, `FinAfterData` |
| `blocking_queue` | 2 producers, 2 consumers, room for 2, 3 calls of `Push` each, 2 exceptions | `NoStandstill`, `WaiterIsWoken`; refinement of `BoundedQueue`; `EverythingPopped` |
| `server` | 2 clients; no pool, a pool whose first loop is used, one of which two loops are used; 1 or 2 descriptors; in two of the instances a connection that sends and whose pointer the program keeps | `WaitFindsDispatcher`, `NoDangling`, `NoStaleAddress`; `ClosedIsDestroyed`, `EverybodyAccepted` |
| `pool` | 4 workers, spurious wakeups, failing thread creation, reactors stopped and replaced | `ListedInOrder`, `ListedIsAlive`, `SlotExists` |

The restrictions of `connection_lifecycle` are not there to save states: outside them
a property fails. A `Send` in a message callback, which is what the echo server of `main.cpp` makes, can let the FIN overtake data: it
fills the kernel's buffer, the EPOLLOUT of the round is stale, and `handleWrite` takes EWOULDBLOCK for
"all written" (`TcpConnection.cpp:135-146`). A `Shutdown` or `ForceClose` of another thread tests `_currState` and then
stores to it; if the loop removes the connection in between, the store brings it back to
`Disconnecting`, and a queued `handleClose` calls the closing callback again; so does a forced close within the closing callback. A connection that
another connection's callback closes by force still delivers the message of the same
round, after its closing callback, because `handleRead` looks at no state. The theorems below have each property under its own
condition, which is weaker than all of these together.

`NoStandstill` needs a queue with room for half as many elements as there are threads. With less, two producers can
fill it while the consumers that were woken are outrun, each notification goes to a thread of the
wrong kind, and everybody waits. `WaiterIsWoken` needs in addition room for the threads of each kind. The section on
the proofs says where each of these conditions is used.
`ClosedIsDestroyed` excepts the connections in `early`, which were removed before `ConnectionEstablished` ran: if
the map did not have them yet, or the callback was not set, they stay listed for ever. The server run gives
`_currState` two values to start with, one that `handleClose` acts on and one that it ignores.
`NoDangling` excepts the entries that a late `send` leaves behind, and there is nothing else to except; `WaitFindsDispatcher` shows that they do
no harm while descriptors are watched: closing the descriptor ends the watching, and whoever gets the number next replaces the
entry. `NoStaleAddress` names the three ways in which a loop does come to use a connection that is gone: the rest of `HandleReturnEvents` after
`ConnectionRemoved` (which `connection_freed` shows by itself), a late registration, and a task bound to a bare `this` whose caller dropped its pointer before it ran.
`NoLostWakeup` and `EveryTaskRuns` except the tasks in `early`, for which the code writes no wakeup.

These runs end in a counterexample, each against a sentence of the code's own comments:

| run | the sentence | what happens |
|---|---|---|
| `connection_shutdown` | `Buffer.cpp:80`, `TcpConnection.cpp:71` | `write` answers EWOULDBLOCK, `WriteIntoKernel` reports it as "all written" (`Buffer.cpp:67`), `send` watches for nothing, and the FIN that was to follow the bytes is never sent |
| `connection_freed` | `TcpConnection.h:6` | the connection dies inside its own event handling |
| `server_early` | `TcpConnection.h:83` | the user gets a message of a connection that is not established; what he answers is dropped |
| `pool_construct` | `ThreadPool.cpp:90` | the notification is lost |
| `pool_cycle` | `ThreadPool.cpp:59-62`, `ThreadPool.h:80` | the index is reset one too early: of two reactors the first gets every connection |

Seen while modelling and left without a run, since a look at the line is enough:
`Push` after moving the readable bytes down does not count the message, so that it is lost (`Buffer.cpp:137`, 170);
a `send` that drains the backlog itself leaves the write event set, so that the loop spins and a `Shutdown` waits for ever (`TcpConnection.cpp:72-76`);
a `Stop` before `Start` is overwritten (`Reactor.cpp:115`); a task queued by the owning thread before `Start` is not
woken for (`Reactor.cpp:77`); `GetUntilCRLF` searches for `ab` (`Buffer.cpp:36`); the list keeps the address of a Reactor that is gone
(`ThreadPool.cpp:88`, `ListedIsAlive` speaks of the first hand-out); `~ThreadPool` stops no Reactor, so its join ends only if
somebody else did (`ThreadPool.cpp:38`); a `send` that was queued before the removal registers the dispatcher again (`TcpConnection.cpp:75`).

### Bounds

`Tasks` bounds the calls of `RunInQueue`; two let one be queued while another is run, by a task or by
another thread. `EventListInit` and `EventfdMax` are as small as they
can be so that both limits are reached. `MaxBytes`, `InitSize` and `TmpSize` are chosen so that
every branch of `Push` is taken with an index at 0, in the middle and at the end.
In the connection, `SndSize` of one or two bytes against messages of one or two gives complete, partial
and refused writes; `MaxCalls` of three or four is enough for a backlog, a
call that drains it and a close; `MaxDepth` of three allows a closing callback in a
message callback and one more inside it; `closings` is counted up to 2, which is enough to see "more than once".
`MaxCalls` of the pool lets the index wrap around. The server's small instances have one connection whose pointer is
kept, because its thread interleaves with everything; its one call is enough for a task that comes before or after the removal. Two clients are enough for a descriptor to be used
again and for one connection to be set up while another dies; each sends one message and closes, in any order with
everything else. A pool of two uses one loop and a pool of three uses two, because of the off-by-one of `GetAvailReactor`.
`MaxPushes` of three overfills the queue by one producer alone; `MaxThrows` bounds the exceptions, since
any number of them in a row would keep the queue from being emptied. Deadlock is not checked: a loop
that was stopped, a connection that was removed and a pool that is gone do stop, and so does a run whose bounded calls are used up.

### Fairness

The thread of a loop keeps running (weak fairness of its steps), user callbacks return,
and a thread that began a call finishes it: all this the operating system's
scheduler gives, as no step of a started call blocks. Nobody has to call,
to send, to stop, or to read; `connection_shutdown` alone adds a peer that keeps
reading, so that the peer cannot be blamed. `Throw` and `WaitFails` are never forced.
In the server every loop keeps running; clients need not do anything. In the queue whoever waits for the lock gets
it, as each critical section ends, and consumers come back for more, without which nothing could be promised; producers need not.

## What is proved

`TaskQueueProofs`: the abstract queue never starts a task twice (`RunOnceHolds`). The type invariant is
inductive together with `RunOnce`, which speaks of executed and waiting tasks at
once: a step that moves the head of the queue leaves their concatenation as it was.

`ReactorProofs`, for every set of threads, tasks and descriptors and every limit
(assuming `ReactorAssumption`: positive limits, an eventfd dispatcher that is none of the others):
type correctness, `NoLostWakeup`, `NoLostStop`, and that every behaviour of the Reactor
is one of `TaskQueue`. `NoLostWakeup` is not inductive, since it speaks of one point of the loop only.
Its strengthening `IInv` says at every point of a round where no swap is still to come that what waits has a wakeup
pending (`Owed`: what was queued before `Start` is left out), that `_isTaskRunning` is set while the batch is run (else a task that queues a
task writes nothing), and the same of a `Stop` before the next test of `_isReacting`. The
refinement maps the abstract queue to the rest of the batch followed by the pending list, so the swap is a
stutter, and a task that throws discards a part of it.

`BufferOpsProofs` has two lemmas for each method of Buffer. One says that the method keeps a
well-formed buffer well-formed (the two indices ordered and inside the vector, the vector inside its
capacity), the other what is readable afterwards: `ReadableConsumed`, `ReadableInserted`,
`ReadableMovedDown` (where the message is lost), `ReadableFilled`, `ReadableReceived`. None has a bound on sizes or
messages. `Ordered(s, n)` is the other half of the module: a sequence of bytes in the order of the stream, each at most once;
what follows the stream can be appended, and a part can be cut out.

`BufferProofs`: type correctness; every behaviour of a Buffer is one of `ByteQueue` (`Refinement`), and therefore no byte that
comes out was made up, repeated or overtaken (`InOrderHolds`); a Buffer whose read index is at the start keeps the whole offer
(`WholeReadsLoseNothingHolds`: `Push` loses a message only if it moves bytes down, and with
`_readIndex` at 0 there is no room in front to move to).

`ThreadPoolProofs`, for any number of workers (assuming `ThreadPoolAssumption`: at least one):
type correctness, `ListedInOrder`, `SlotExists`, `ListedIsAlive`. The strengthening `IInv` adds
that the list is one shorter than the threads while a worker is waited for (`LengthInv`), and that
meanwhile every earlier worker is past its store to `_tmp`, so that `_tmp` is null or the newest
worker's Reactor (`HandOverInv`). Without a lock around the store this is all that keeps the list in order.
`AliveInv` adds that a worker whose Reactor nobody was handed is at its notification or in its loop (only who
was handed a Reactor can stop it).

`BlockingQueueProofs`, for any threads, any size and any number of exceptions: type correctness, with the limit on the length, and that
the queue is a `BoundedQueue`. The only strengthening is that a producer inside `Push` has called it (`PushCounted`), so that its
element has a number. Both hold because every wait is inside a `while`; they say nothing of who is woken. That does depend on the number of
threads. `NoStandstill` is proved if there are threads of both kinds and at most twice as many as the queue has room for (`RoomForHalf`).
Its strengthening `CountInv` bounds how many producers and consumers can be waiting for each length of the queue: those of one kind
come to wait while the queue fills up or while it drains, and each step that changes the length wakes one of them. `WaiterIsWoken` needs in addition that
neither kind is larger than the queue (`RoomForEach`). Neither condition can be dropped: with 2 producers, 1 consumer and room for 1 everybody may wait, and with 4
producers, 2 consumers and room for 3 a notification can go to a producer that cannot use it while another could go on, although they never all wait.

`TcpConnectionProofs`, for any threads, any calls in any place and all sizes (assuming `ConnectionAssumption`), has six theorems:

| theorem | condition | strengthening |
|---|---|---|
| `TypeCorrect`, `StreamInOrderHolds` | none | `StreamInv`: what the peer has, what the kernel holds and what waits in the out-buffer is one `Ordered` sequence |
| `InterestInSyncHolds` | none | `SyncInv`: flags and epoll agree whenever the dispatcher is registered and the loop is not in a closing callback; a message callback is never entered from another callback |
| `NoMessageAfterClosingHolds` | foreign code of the loop thread forces no close | `DeafInv`: after a close the dispatcher does not want input, and what is left of the round has none |
| `FinAfterDataHolds` | neither the message callback nor foreign code sends | `RoomInv`: while EPOLLOUT waits to be handled there is room in the kernel's buffer, unless our side is shut or reset |
| `Refinement` | other threads only send; the closing callback forces no close | `LifeInv`: the closing callback is under way exactly between the count of its call and `Disconnected` |

`StreamInv` has to be part of the type invariant, because only the order bounds the bytes by `offered`. A write moves a first part of the
buffer to the kernel, so it leaves the concatenation as it was; a reset cuts a part out of the middle. Each condition is needed: with any of the excluded calls
TLC finds a counterexample on an instance of the size of the runs (for `FinAfterData` with four calls). A call of the closing callback may send although
it uses up the room, because the removal that follows ends the writing.

`TcpServerProofs`, for any number of clients, loops and descriptors (assuming `ServerAssumption`): type correctness, `WaitFindsDispatcher`, `NoDangling`,
`NoStaleAddress`. `ServerInv` is one invariant for all four, and its parts need each other:

- `MuxInv`: each multiplexer's map is a function from descriptors to dispatchers and has what the kernel watches;
- `LifeInv`: who waits to be accepted is new, and the connection of `handleNewConn` exists;
- `FdInv`: the connections that exist have a descriptor each, all different, the others none; this is what makes an entry of the map that of one connection;
- `RefInv`: a `shared_ptr` keeps its connection alive;
- `MapInv`: an entry belongs to a connection that was registered in this loop, under its own descriptor while it exists; it is held by the server's map or
  `handleNewConn` unless it is late; and if epoll watches the descriptor, the connection exists;
- `RoundInv`: what a loop has in its round or its handler is registered with it, unless it is late or already removed; a closing callback that runs in a task
  is that of a call the user has made;
- `TaskInv`: a task is queued for its connection's loop; one that is still to register its dispatcher belongs to a connection that is held, there is one of it, and
  it comes before every other task of the connection;
- `UserInv`: who was handed a pointer, or is late, was registered before;
- `FreshInv`: a connection whose constructor is about to run is known to no loop.

There is one lemma per action, and lemmas for what they have in common, above all that the last `shared_ptr` goes,
the connection is destroyed and its descriptor is closed. Because of `MapInv` that happens only to connections without an entry, or with a late one that epoll then
forgets, so a descriptor that is used again finds none that is watched. The invariant follows a handler and a task to its end, also
in a connection that is gone: the exceptions in `NoStaleAddress` are the cases that are left over in `RoundInv` and `TaskInv`, and the proof shows that there are no others.

Model-checked and not proved: the liveness properties (`EveryTaskRuns`, `StopEndsLoop`, `EverySourceServed`, `CloseNoticed`, `ClosedIsDestroyed`,
`EverybodyAccepted`, `EverythingPopped`), since the prover has no rule for fairness and cannot reason about ENABLED; and what the runs with a counterexample
show, which a proof has nothing to add to. Every invariant, action property and refinement of the other runs is proved.

## What is not modelled

`EndPoint`, `Exceptions` and `Callbacks` hold no state. `Socket` appears as the kernel calls
that change something. Urgent data and timeouts (the library has none) are left out, and so are errors of `write` that the code does not expect, which it
throws (`Buffer.cpp:70`). The destructors of `TcpServer`, `Acceptor` and `Reactor` are left out: the server's waits for loops that nobody stops, and
what a Reactor does after its server is gone is up to the program that owns both. Transient errors of `accept` (EINTR, ECONNABORTED) only repeat the round. The in-buffer of a
connection is left out: only user code reads it. The life of the arguments of a queued `send` (it holds a reference to the caller's string) is not state of the program
and is not modelled. Failed calls that change nothing take no step.

In the server model `Shutdown` is left out (its task writes or shuts, and touches neither map nor references), a connection's
callbacks do not close another connection, and the pointer is taken in the callbacks for new connections and messages, not in the closing one. `TcpConnection` has the
calls of foreign code (`OtherOps`) and those inside the closing callback.

## Plan

In order of importance; all stages but the last are done.

1. Reactor with its abstract queue, and the proofs of both.
2. Buffer as operators and as a state machine.
3. TcpConnection over the Buffer's operators.
4. ThreadPool.
5. `TcpServer` with `Acceptor`: `handleNewConn` on the accepting thread against the loop that may
   deliver events before the connection is set up; accept errors and the descriptor limit.
6. `Multiplexer` with its map of several descriptors, whose numbers are closed and used again.
7. `BlockingQueue` with several producers and consumers, the bounded queue it implements, and the proof that it does.
8. Proofs of the safety properties of ThreadPool, BlockingQueue, Buffer, TcpConnection and TcpServer, and of the
   refinements of `ByteQueue` and `ConnectionLifecycle`.
9. Still to do: an abstract specification of what TcpServer promises about one client (accepted, set up, heard,
   forgotten), with TcpServer shown to implement it; the fairness-free halves of the liveness properties
   (that nothing makes their goal unreachable) as invariants, where they say more than the runs.
