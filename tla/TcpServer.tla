----------------------------- MODULE TcpServer -----------------------------
(***************************************************************************)
(* A TcpServer: the thread that accepts connections, in the callback of    *)
(* the Acceptor's dispatcher, and the loops of the pool to which it hands  *)
(* them.  A connection is set up step by step on the accepting thread,     *)
(* while the loop it was handed to may already deliver its events.         *)
(*                                                                         *)
(* Loop 0 is the accepting thread's Reactor; the loops of the pool follow, *)
(* if there are any.  A connection is named by its client.  What it does   *)
(* with the bytes, and with calls of Shutdown, is the business of module   *)
(* TcpConnection; here it matters who knows its address, and when it is    *)
(* destroyed.                                                              *)
(***************************************************************************)
EXTENDS Multiplexer, Integers, SequencesExt

CONSTANTS
    Clients,        \* who connects, each once
    Listener,       \* the Acceptor's dispatcher
    Instances,      \* how many threads the server may be created with, how many
                    \* descriptors may then be left for connections, who may
                    \* connect, and to which of these connections the program
                    \* writes or keeps a pointer
    Leftover        \* what the memory of a new connection may hold for
                    \* _currState, which the constructor does not initialise

States == {"Connecting", "Connected", "Disconnecting", "Disconnected"}

ASSUME ServerAssumption ==
    /\ Listener \notin Clients
    /\ Instances \subseteq [threads : Nat, descriptors : Nat,
                           clients : SUBSET Clients, active : SUBSET Clients]
    /\ Leftover \subseteq States

VARIABLES
    instance,       \* the one of Instances that runs
    index,          \* _pool._index
    listenQueue,    \* kernel: who waits to be accepted
    mail,           \* kernel: the message each client sends, once
    fin,            \* kernel: the clients that closed their side
    fd,             \* the descriptor of each connection's socket
    acceptPc,       \* where the accepting thread is in handleNewConn
    newConn,        \* handleNewConn's newConn, as a set of at most one
    life,           \* each TcpConnection: its constructor runs, it is owned by
                    \* a shared_ptr, it is destroyed
    io,             \* the loop each connection was handed to
    currState,      \* _currState, "unset" until someone looks at it
    callbacks,      \* the callbacks of each connection that are set
    connections,    \* _connections
    mux,            \* the Multiplexer of each loop
    pending,        \* the tasks queued for each loop
    batch,          \* those it swapped out and still has to run
    kept,           \* connections of the "establish" tasks it ran and still keeps
    loopPc,         \* where each loop is
    round,          \* _availDispatchers that it has still to handle
    revents,        \* _revents of each connection's dispatcher
    handler,        \* the connection whose code it is in, and where, as a set
                    \* of at most one
    writing,        \* the connections whose write event is set
    user,           \* what the thread does that keeps a pointer to a connection
    told,           \* history: the callbacks the user got
    early,          \* history: connections removed before ConnectionEstablished
    late,           \* history: connections registered again since their removal
    aborted         \* an exception left a loop

kernel == <<listenQueue, mail, fin>>
accept == <<index, acceptPc, newConn>>
conn == <<life, fd, io, currState, callbacks, connections>>
tasks == <<pending, batch, kept>>
loop == <<loopPc, round, revents, handler>>
output == <<writing, late>>
history == <<told, early>>
vars == <<instance, kernel, accept, conn, mux, tasks, loop, output, user, history,
          aborted>>

NoFd == -1
ListenFd == 0
poolSize == instance.threads    \* _pool._maxNum
fdLimit == instance.descriptors \* kernel: what the process has left
AllLoops == 0 .. Max({i.threads : i \in Instances})
Loops == 0 .. poolSize
Tasks == {"register", "establish", "send", "close"} \X Clients
\* In handleClose, in what HandleReturnEvents does after its read branch, or there
\* after ConnectionRemoved.
Stages == {"closing", "rest", "removed"}
\* The pointer is kept; a call has looked at _currState, and is to queue send,
\* to store Disconnecting, or to queue handleClose; it came back; the pointer
\* is gone.
UserPcs == {"none", "holds", "send", "store", "close", "called", "dropped"}
Callbacks == {"message", "remove"}
Fds == 1 .. fdLimit

TypeOK ==
    /\ instance \in Instances
    /\ index \in Nat
    /\ listenQueue \in Seq(Clients)
    /\ mail \in [Clients -> {"unsent", "unread", "read"}]
    /\ fin \subseteq Clients
    /\ fd \in [Clients -> Fds \cup {NoFd}]
    /\ acceptPc \in {"idle", "construct", "list", "establish", "return"}
                        \cup Callbacks
    /\ newConn \subseteq Clients /\ Cardinality(newConn) <= 1
    /\ life \in [Clients -> {"none", "constructed", "owned", "destroyed"}]
    /\ io \in [Clients -> Loops]
    /\ currState \in [Clients -> States \cup {"unset"}]
    /\ callbacks \in [Clients -> SUBSET Callbacks]
    /\ connections \subseteq Clients
    /\ \A r \in Loops : /\ DOMAIN mux[r].map \subseteq Fds \cup {ListenFd}
                        /\ mux[r].watched \subseteq Fds \cup {ListenFd}
    /\ pending \in [Loops -> Seq(Tasks)] /\ batch \in [Loops -> Seq(Tasks)]
    /\ kept \in [Loops -> SUBSET Clients]
    /\ loopPc \in [Loops -> {"wait", "events", "tasks"}]
    /\ round \in [Loops -> SUBSET (Clients \cup {Listener})]
    /\ revents \in [Clients -> SUBSET {"in", "out"}]
    /\ handler \in [Loops -> SUBSET (Clients \X Stages)]
    /\ writing \subseteq Clients /\ late \subseteq Clients
    /\ user \in [Clients -> UserPcs]
    /\ told \in [Clients -> SUBSET {"established", "message"}]
    /\ early \subseteq Clients
    /\ aborted \in BOOLEAN

\* The constructor: the pool's loops run, and the Acceptor listens.
Init ==
    /\ instance \in Instances
    /\ index = 0
    /\ listenQueue = <<>> /\ mail = [c \in Clients |-> "unsent"] /\ fin = {}
    /\ fd = [c \in Clients |-> NoFd]
    /\ acceptPc = "idle" /\ newConn = {}
    /\ life = [c \in Clients |-> "none"]
    /\ io = [c \in Clients |-> 0]
    /\ currState = [c \in Clients |-> "unset"]
    /\ callbacks = [c \in Clients |-> {}]
    /\ connections = {}
    /\ mux = [r \in Loops |-> IF r = 0
                              THEN Updated(NewMultiplexer, ListenFd, Listener)
                              ELSE NewMultiplexer]
    /\ pending = [r \in Loops |-> <<>>] /\ batch = [r \in Loops |-> <<>>]
    /\ kept = [r \in Loops |-> {}]
    /\ loopPc = [r \in Loops |-> "wait"]
    /\ round = [r \in Loops |-> {}] /\ revents = [c \in Clients |-> {}]
    /\ handler = [r \in Loops |-> {}]
    /\ writing = {} /\ late = {} /\ user = [c \in Clients |-> "none"]
    /\ told = [c \in Clients |-> {}] /\ early = {}
    /\ aborted = FALSE

-----------------------------------------------------------------------------
(* The clients. *)

Queued == ToSet(listenQueue)
Exists(c) == life[c] \in {"constructed", "owned"}
Reachable(c) == c \in Queued \/ Exists(c)
Server == <<instance, accept, conn, mux, tasks, loop, output, user, history, aborted>>

Connect(c) ==
    /\ ~aborted
    /\ c \in instance.clients /\ life[c] = "none" /\ c \notin Queued
    /\ listenQueue' = Append(listenQueue, c)
    /\ UNCHANGED <<mail, fin, Server>>

ClientSends(c) ==
    /\ ~aborted /\ Reachable(c) /\ c \notin fin
    /\ mail[c] = "unsent"
    /\ mail' = [mail EXCEPT ![c] = "unread"]
    /\ UNCHANGED <<listenQueue, fin, Server>>

ClientCloses(c) ==
    /\ ~aborted /\ Reachable(c) /\ c \notin fin
    /\ fin' = fin \cup {c}
    /\ UNCHANGED <<listenQueue, mail, Server>>

-----------------------------------------------------------------------------
(* What the steps are made of. *)

Runs(r, pc) == ~aborted /\ r \in Loops /\ loopPc[r] = pc

\* The loop is between two dispatchers of its round.
Between(r) == Runs(r, "events") /\ handler[r] = {} /\ (r = 0 => acceptPc = "idle")

FaultyReferenced(c) == c \in connections \cup newConn
\* Somebody holds a shared_ptr to the connection: the map, handleNewConn, the
\* user, or a task that is to call ConnectionEstablished, until its batch is done
\* with.  The other tasks are bound to the bare address.
Referenced(c) ==
    \/ c \in connections \cup newConn
    \/ user[c] \notin {"none", "dropped"}
    \/ \E r \in Loops : \/ <<"establish", c>> \in ToSet(pending[r] \o batch[r])
                        \/ c \in kept[r]

\* The last steps of one that drops references to cs, with the loops' Multiplexers
\* being m: whoever has none left is destroyed and its socket closed.
DropReferences(cs, m) ==
    LET gone == {c \in cs : ~Referenced(c)'}
    IN  /\ life' = [c \in Clients |-> IF c \in gone THEN "destroyed" ELSE life[c]]
        /\ fd' = [c \in Clients |-> IF c \in gone THEN NoFd ELSE fd[c]]
        /\ mux' = [r \in Loops |-> Closed(m[r], {fd[c] : c \in gone})]

\* Reactor::UpdateDispatcher of c on its loop; a failure leaves the loop.
UpdateDispatcher(c) ==
    IF UpdateFails(mux[io[c]], fd[c])
    THEN aborted' = TRUE /\ UNCHANGED mux
    ELSE /\ mux' = [mux EXCEPT ![io[c]] = Updated(@, fd[c], c)]
         /\ UNCHANGED aborted

\* The same when a write event was set or unset: it does not ask whether the
\* dispatcher has been deleted, and then adds it.
Refresh(c) ==
    /\ UpdateDispatcher(c)
    /\ late' = IF fd[c] \in DOMAIN mux[io[c]].map THEN late ELSE late \cup {c}

\* send: perhaps bytes are left, and the write event is not set yet.
Send(c) ==
    \/ UNCHANGED <<mux, aborted, writing, late>>
    \/ /\ c \in instance.active /\ c \notin writing
       /\ writing' = writing \cup {c}
       /\ Refresh(c)

\* What _currState is when somebody looks at it.
Seen(c) == IF currState[c] = "unset" THEN Leftover ELSE {currState[c]}

\* A callback gets a pointer to c, in state st: it may give it to another thread,
\* and send.
CallBack(c, st) ==
    /\ \/ UNCHANGED user
       \/ c \in instance.active /\ user[c] = "none" /\ user' = [user EXCEPT ![c] = "holds"]
    /\ IF st = "Connected" THEN Send(c)
                           ELSE UNCHANGED <<mux, aborted, writing, late>>

\* handleClose up to and with the closing callback.  What is sent in it changes
\* nothing here: ConnectionRemoved follows.
BeginClose(r, c) ==
    \E st \in Seen(c) :
        /\ currState' = [currState EXCEPT ![c] = st]
        /\ handler' = IF st \in {"Connected", "Disconnecting"}
                      THEN [handler EXCEPT ![r] = {<<c, "closing">>}]
                      ELSE IF loopPc[r] = "events"
                      THEN [handler EXCEPT ![r] = {<<c, "rest">>}]
                      ELSE handler

-----------------------------------------------------------------------------
(* A round of a loop. *)

\* Descriptors with something to read, or to accept, that somebody waits for: one
\* that is registered late waits for nothing.
Readable(r) ==
    {f \in mux[r].watched :
        \/ f = ListenFd /\ listenQueue # <<>>
        \/ \E c \in Clients \ late : fd[c] = f /\ (mail[c] = "unread" \/ c \in fin)}
Writable(r) == {f \in mux[r].watched : \E c \in writing : fd[c] = f}

\* Multiplexer::Wait.
Wait(r) ==
    /\ Runs(r, "wait")
    /\ \E out \in SUBSET Writable(r) :
        LET ready == Readable(r) \cup out
        IN  /\ pending[r] # <<>> \/ ready # {}
            /\ IF ready \subseteq DOMAIN mux[r].map
               THEN /\ round' = [round EXCEPT ![r] = {mux[r].map[f] : f \in ready}]
                    /\ revents' = [c \in Clients |->
                          IF fd[c] \in ready
                          THEN {e \in {"in", "out"} :
                                   fd[c] \in IF e = "in" THEN Readable(r) ELSE out}
                          ELSE revents[c]]
                    /\ loopPc' = [loopPc EXCEPT ![r] = "events"]
                    /\ UNCHANGED aborted
               ELSE aborted' = TRUE /\ UNCHANGED <<round, revents, loopPc>>
    /\ UNCHANGED <<instance, kernel, accept, conn, mux, tasks, handler, output, user,
                   history>>

\* HandleReturnEvents of a connection, which leaves the round ...
Enter(r, c) ==
    /\ Between(r) /\ c \in round[r]
    /\ round' = [round EXCEPT ![r] = @ \ {c}]

\* ... for its handleRead: a message.  The callback must be set, and
\* shared_from_this needs the shared_ptr; otherwise both throw.
HandleMessage(r, c) ==
    /\ Enter(r, c) /\ "in" \in revents[c]
    /\ mail[c] = "unread"
    /\ mail' = [mail EXCEPT ![c] = "read"]
    /\ handler' = [handler EXCEPT ![r] = {<<c, "rest">>}]
    /\ IF life[c] = "owned" /\ "message" \in callbacks[c]
       THEN /\ told' = [told EXCEPT ![c] = @ \cup {"message"}]
            /\ \E st \in Seen(c) : /\ currState' = [currState EXCEPT ![c] = st]
                                   /\ CallBack(c, st)
       ELSE aborted' = TRUE /\ UNCHANGED <<told, currState, user, mux, output>>
    /\ UNCHANGED <<instance, listenQueue, fin, accept, life, fd, io, callbacks,
                   connections, tasks, loopPc, revents, early>>

\* ... for its handleRead: the end of the stream ...
HandleEof(r, c) ==
    /\ Enter(r, c) /\ "in" \in revents[c]
    /\ mail[c] # "unread"
    /\ BeginClose(r, c)
    /\ UNCHANGED <<instance, kernel, accept, life, fd, io, callbacks, connections, mux,
                   tasks, loopPc, revents, output, user, history, aborted>>

\* ... or for nothing to read.
HandleNoInput(r, c) ==
    /\ Enter(r, c) /\ "in" \notin revents[c]
    /\ handler' = [handler EXCEPT ![r] = {<<c, "rest">>}]
    /\ UNCHANGED <<instance, kernel, accept, conn, mux, tasks, loopPc, revents, output,
                   user, history, aborted>>

FaultyUnregistered(r, c) == mux
\* Reactor::DeleteDispatcher.  EPOLL_CTL_DEL cannot fail: under the descriptor of a
\* connection that exists its loop has no other entry.
Unregistered(r, c) == [mux EXCEPT ![r] = Deleted(@, fd[c])]

\* The rest of handleClose: ConnectionRemoved and the removeConnection it calls.
ConnectionRemoved(r, c) ==
    /\ ~aborted /\ r \in Loops
    /\ handler[r] = {<<c, "closing">>} /\ life[c] # "destroyed"
    /\ handler' = [handler EXCEPT ![r] = IF loopPc[r] = "events"
                                         THEN {<<c, "removed">>} ELSE {}]
    /\ connections' = IF "remove" \in callbacks[c] THEN connections \ {c}
                                                   ELSE connections
    /\ early' = IF "established" \in told[c] THEN early ELSE early \cup {c}
    /\ currState' = [currState EXCEPT ![c] = "Disconnected"]
    /\ writing' = writing \ {c} /\ late' = late \ {c}
    /\ UNCHANGED <<instance, newConn, tasks, user>>
    /\ DropReferences({c}, Unregistered(r, c))
    /\ UNCHANGED <<kernel, index, acceptPc, io, callbacks, loopPc, round, revents,
                   told, aborted>>

\* What is left of HandleReturnEvents: the write branch, in which handleWrite may
\* get everything written.
EndHandler(r, c) ==
    /\ Runs(r, "events") /\ life[c] # "destroyed"
    /\ handler[r] \in {{<<c, "rest">>}, {<<c, "removed">>}}
    /\ handler' = [handler EXCEPT ![r] = {}]
    /\ revents' = [revents EXCEPT ![c] = {}]
    /\ \/ UNCHANGED <<mux, aborted, writing, late>>
       \/ /\ "out" \in revents[c] /\ c \in writing
          /\ writing' = writing \ {c}
          /\ Refresh(c)
    /\ UNCHANGED <<instance, kernel, accept, conn, tasks, loopPc, round, user, history>>

\* dealRemainedTasks: the swap, the tasks, the end.
BeginTasks(r) ==
    /\ Between(r) /\ round[r] = {}
    /\ batch' = [batch EXCEPT ![r] = pending[r]]
    /\ pending' = [pending EXCEPT ![r] = <<>>]
    /\ loopPc' = [loopPc EXCEPT ![r] = "tasks"]
    /\ UNCHANGED <<instance, kernel, accept, conn, mux, kept, round, revents, handler,
                   output, user, history, aborted>>

TakeTask(r, t) ==
    /\ Runs(r, "tasks") /\ handler[r] = {}
    /\ batch[r] # <<>> /\ Head(batch[r]) = t
    /\ batch' = [batch EXCEPT ![r] = Tail(@)]

RunRegister(r, c) ==
    /\ TakeTask(r, <<"register", c>>)
    /\ UpdateDispatcher(c)
    /\ UNCHANGED <<instance, kernel, accept, conn, pending, kept, loop, output, user,
                   history>>

FaultyRunEstablish(r, c) ==
    /\ TakeTask(r, <<"establish", c>>)
    /\ kept' = [kept EXCEPT ![r] = @ \cup {c}]
    /\ told' = [told EXCEPT ![c] = @ \cup {"established"}]
    /\ CallBack(c, currState[c])
    /\ UNCHANGED <<instance, kernel, accept, conn, pending, loop, early>>
\* ConnectionEstablished; the batch keeps the task, and its reference.
RunEstablish(r, c) ==
    /\ TakeTask(r, <<"establish", c>>)
    /\ kept' = [kept EXCEPT ![r] = @ \cup {c}]
    /\ currState' = [currState EXCEPT ![c] = "Connected"]
    /\ told' = [told EXCEPT ![c] = @ \cup {"established"}]
    /\ CallBack(c, "Connected")
    /\ UNCHANGED <<instance, kernel, accept, life, fd, io, callbacks, connections,
                   pending, loop, early>>

\* send, whatever has become of the connection since it was queued.
RunSend(r, c) ==
    /\ TakeTask(r, <<"send", c>>) /\ life[c] # "destroyed"
    /\ Send(c)
    /\ UNCHANGED <<instance, kernel, accept, conn, pending, kept, loop, user, history>>

\* handleClose, queued by ForceClose.
RunClose(r, c) ==
    /\ TakeTask(r, <<"close", c>>) /\ life[c] # "destroyed"
    /\ BeginClose(r, c)
    /\ UNCHANGED <<instance, kernel, accept, life, fd, io, callbacks, connections, mux,
                   pending, kept, loopPc, round, revents, output, user, history,
                   aborted>>

\* The loop goes on in a connection that was destroyed: in its handler, in its
\* handleClose, in a task bound to its address.  The program may end here, or get
\* away with it.
UseDestroyed(r, c) ==
    /\ life[c] = "destroyed"
    /\ \/ /\ ~aborted /\ r \in Loops
          /\ \E st \in Stages : handler[r] = {<<c, st>>}
          /\ handler' = [handler EXCEPT ![r] = {}]
          /\ UNCHANGED batch
       \/ /\ \E op \in {"send", "close"} : TakeTask(r, <<op, c>>)
          /\ UNCHANGED handler
    /\ aborted' \in BOOLEAN
    /\ UNCHANGED <<instance, kernel, accept, conn, mux, pending, kept, loopPc, round,
                   revents, output, user, history>>

\* The batch is destroyed.
EndTasks(r) ==
    /\ Runs(r, "tasks") /\ handler[r] = {} /\ batch[r] = <<>>
    /\ loopPc' = [loopPc EXCEPT ![r] = "wait"]
    /\ kept' = [kept EXCEPT ![r] = {}]
    /\ UNCHANGED <<instance, newConn, connections, pending, batch, user>>
    /\ DropReferences(kept[r], mux)
    /\ UNCHANGED <<kernel, index, acceptPc, io, currState, callbacks, round, revents,
                   handler, output, history, aborted>>

-----------------------------------------------------------------------------
(* A thread of the user that keeps the pointer one of the callbacks gave   *)
(* it, makes at most one call, of Send or of ForceClose, and drops it.     *)

Elsewhere == <<instance, kernel, accept, io, callbacks, connections, kept, batch, loop,
               output, history, aborted>>

\* The call looks at _currState ...
UserCalls(c, op) ==
    /\ ~aborted /\ user[c] = "holds"
    /\ \E st \in Seen(c) :
        /\ currState' = [currState EXCEPT ![c] = st]
        /\ user' = [user EXCEPT ![c] =
              IF st = "Connected" THEN IF op = "send" THEN "send" ELSE "store"
                                  ELSE IF op = "send" THEN "called" ELSE "close"]
    /\ UNCHANGED <<Elsewhere, life, fd, mux, pending>>

\* ... ForceClose stores what it should be ...
UserStores(c) ==
    /\ ~aborted /\ user[c] = "store"
    /\ currState' = [currState EXCEPT ![c] = "Disconnecting"]
    /\ user' = [user EXCEPT ![c] = "close"]
    /\ UNCHANGED <<Elsewhere, life, fd, mux, pending>>

\* ... and the task is queued.
UserQueues(c) ==
    /\ ~aborted /\ user[c] \in {"send", "close"}
    /\ pending' = [pending EXCEPT ![io[c]] = Append(@, <<user[c], c>>)]
    /\ user' = [user EXCEPT ![c] = "called"]
    /\ UNCHANGED <<Elsewhere, life, fd, currState, mux>>

\* The pointer is dropped, perhaps while the task is queued.
UserDrops(c) ==
    /\ ~aborted /\ user[c] \in {"holds", "called"}
    /\ user' = [user EXCEPT ![c] = "dropped"]
    /\ UNCHANGED <<Elsewhere, currState, pending>>
    /\ DropReferences({c}, mux)

-----------------------------------------------------------------------------
(* The Acceptor's handleRead and the server's handleNewConn, in loop 0. *)

Free == Fds \ {fd[c] : c \in Clients}
LowestFree == CHOOSE f \in Free : \A g \in Free : f <= g

\* ThreadPool::GetAvailReactor.
Slot == IF index >= poolSize - 1 THEN 0 ELSE index

FaultyChosenLoop == Slot + 1
\* A loop of the pool, or the accepting thread's if the pool is empty.
ChosenLoop == IF poolSize = 0 THEN 0 ELSE Slot + 1

AtListener ==
    /\ Between(0) /\ Listener \in round[0]
    /\ round' = [round EXCEPT ![0] = @ \ {Listener}]

\* Accept succeeds; the loop is chosen, and the TcpConnection's memory allocated.
Accept ==
    /\ AtListener
    /\ listenQueue # <<>> /\ Free # {}
    /\ LET c == Head(listenQueue)
       IN  /\ fd' = [fd EXCEPT ![c] = LowestFree]
           /\ newConn' = {c}
           /\ life' = [life EXCEPT ![c] = "constructed"]
           /\ io' = [io EXCEPT ![c] = ChosenLoop]
           /\ index' = ChosenLoop   \* stays 0 if the pool is empty
    /\ listenQueue' = Tail(listenQueue)
    /\ acceptPc' = "construct"
    /\ UNCHANGED <<instance, mail, fin, currState, callbacks, connections, mux, tasks,
                   loopPc, revents, handler, output, user, history, aborted>>

FaultyAcceptNothing ==
    /\ AtListener
    /\ Free = {}
    /\ mux' = [mux EXCEPT ![0] = Deleted(@, ListenFd)]
    /\ UNCHANGED <<instance, kernel, accept, conn, tasks, loopPc, revents, handler,
                   output, user, history, aborted>>
\* EMFILE: an invalid Socket, and the client stays in the queue.
AcceptNothing ==
    /\ AtListener
    /\ Free = {}
    /\ UNCHANGED <<instance, kernel, accept, conn, mux, tasks, loopPc, revents, handler,
                   output, user, history, aborted>>

\* An error that Accept does not expect.
AcceptThrows ==
    /\ AtListener
    /\ aborted' = TRUE
    /\ UNCHANGED <<instance, kernel, accept, conn, mux, tasks, loopPc, revents, handler,
                   output, user, history>>

\* The constructor of TcpConnection hands the dispatcher to the loop ...
Construct(c) ==
    /\ ~aborted /\ acceptPc = "construct" /\ newConn = {c}
    /\ acceptPc' = "list"
    /\ IF io[c] = 0
       THEN UpdateDispatcher(c) /\ UNCHANGED pending
       ELSE /\ pending' = [pending EXCEPT ![io[c]] = Append(@, <<"register", c>>)]
            /\ UNCHANGED <<mux, aborted>>
    /\ UNCHANGED <<instance, kernel, index, newConn, conn, batch, kept, loop, output,
                   user, history>>

\* ... sets an option of the socket, and may throw although the loop has its
\* dispatcher already ...
SetKeepAliveThrows ==
    /\ ~aborted /\ acceptPc = "list"
    /\ aborted' = TRUE
    /\ UNCHANGED <<instance, kernel, accept, conn, mux, tasks, loop, output, user,
                   history>>

\* ... make_shared returns, and the connection is listed.
List(c) ==
    /\ ~aborted /\ acceptPc = "list" /\ newConn = {c}
    /\ acceptPc' = "message"
    /\ life' = [life EXCEPT ![c] = "owned"]
    /\ connections' = connections \cup {c}
    /\ UNCHANGED <<instance, kernel, index, newConn, fd, io, currState, callbacks, mux,
                   tasks, loop, output, user, history, aborted>>

\* The callback that acceptPc names is set.  The others of the user are not told
\* apart from the one for messages: the first is used last, and to be told of the
\* closing or not makes no difference here.
SetCallback(c) ==
    /\ ~aborted /\ acceptPc \in Callbacks /\ newConn = {c}
    /\ callbacks' = [callbacks EXCEPT ![c] = @ \cup {acceptPc}]
    /\ acceptPc' = IF acceptPc = "message" THEN "remove" ELSE "establish"
    /\ UNCHANGED <<instance, kernel, index, newConn, life, fd, io, currState,
                   connections, mux, tasks, loop, output, user, history, aborted>>

\* ConnectionEstablished is called, or queued for the connection's loop ...
Establish(c) ==
    /\ ~aborted /\ acceptPc = "establish" /\ newConn = {c}
    /\ acceptPc' = "return"
    /\ IF io[c] = 0
       THEN /\ currState' = [currState EXCEPT ![c] = "Connected"]
            /\ told' = [told EXCEPT ![c] = @ \cup {"established"}]
            /\ CallBack(c, "Connected")
            /\ UNCHANGED pending
       ELSE /\ pending' = [pending EXCEPT ![io[c]] = Append(@, <<"establish", c>>)]
            /\ UNCHANGED <<currState, told, mux, aborted, output, user>>
    /\ UNCHANGED <<instance, kernel, index, newConn, life, fd, io, callbacks,
                   connections, batch, kept, loop, early>>

\* ... and handleNewConn returns, perhaps with the last reference.
Return(c) ==
    /\ ~aborted /\ acceptPc = "return" /\ newConn = {c}
    /\ acceptPc' = "idle" /\ newConn' = {}
    /\ UNCHANGED <<instance, connections, tasks, user>>
    /\ DropReferences({c}, mux)
    /\ UNCHANGED <<kernel, index, io, currState, callbacks, loop, output, history,
                   aborted>>

-----------------------------------------------------------------------------
AcceptStep ==
    \/ Accept \/ AcceptNothing
    \/ \E c \in Clients : \/ Construct(c) \/ List(c) \/ SetCallback(c)
                          \/ Establish(c) \/ Return(c)

LoopStep(r) ==
    \/ Wait(r)
    \/ \E c \in Clients : \/ HandleMessage(r, c) \/ HandleEof(r, c)
                          \/ HandleNoInput(r, c) \/ ConnectionRemoved(r, c)
                          \/ EndHandler(r, c)
    \/ BeginTasks(r)
    \/ \E c \in Clients : \/ RunRegister(r, c) \/ RunEstablish(r, c)
                          \/ RunSend(r, c) \/ RunClose(r, c)
    \/ \E c \in Clients : UseDestroyed(r, c)
    \/ EndTasks(r)

UserStep(c) == UserStores(c) \/ UserQueues(c) \/ UserDrops(c)

Next ==
    \/ AcceptStep \/ AcceptThrows \/ SetKeepAliveThrows
    \/ \E r \in AllLoops : LoopStep(r)
    \/ \E c \in Clients : \/ Connect(c) \/ ClientSends(c) \/ ClientCloses(c)
                          \/ \E op \in {"send", "close"} : UserCalls(c, op)
                          \/ UserStep(c)

\* Every thread keeps running, and does not keep a pointer for ever.
Fairness ==
    /\ \A r \in AllLoops : WF_vars(LoopStep(r) \/ (r = 0 /\ AcceptStep))
    /\ \A c \in Clients : WF_vars(UserStep(c))

Spec == Init /\ [][Next]_vars /\ Fairness

-----------------------------------------------------------------------------
\* Whatever epoll reports, Wait finds its dispatcher, and it is that of a connection
\* that exists and owns the descriptor: what a late registration leaves in the map
\* of one that is gone is never found (Multiplexer.cpp:79-92, TcpConnection.cpp:44-77).
WaitFindsDispatcher ==
    \A r \in Loops :
        /\ Consistent(mux[r])
        /\ \A f \in mux[r].watched \ {ListenFd} :
              LET c == mux[r].map[f]
              IN  Exists(c) /\ fd[c] = f

\* A dispatcher in the map of a loop is that of a connection that exists and was
\* handed to this loop, under the descriptor it owns: destroying a connection
\* leaves no entry that a descriptor used again would find - unless a send, whose
\* caller or task comes after the removal, registered the dispatcher again: only
\* this leaves one (Multiplexer.cpp:26-70, TcpServer.cpp:41-46,
\* TcpConnection.cpp:44-52, 67-77).
NoDangling ==
    \A r \in Loops : \A f \in DOMAIN mux[r].map \ {ListenFd} :
        LET c == mux[r].map[f]
        IN  c \in late \/ (Exists(c) /\ fd[c] = f /\ io[c] = r)

\* A client that closes is noticed although its events may come before the
\* connection is established: the connection is destroyed and its descriptor
\* free again.  (Not if it was removed early: then it stays for ever.)
\* (TcpServer.cpp:48-78, TcpConnection.cpp:35-52, 156-172)
ClosedIsDestroyed ==
    []<>(aborted \/ \A c \in fin \ early : life[c] \in {"none", "destroyed"})

\* Whoever connects is accepted, as soon as there is a descriptor: at its limit
\* the server goes on when a client closes (Acceptor.cpp:62-76,
\* Socket.cpp:89-127).
EverybodyAccepted ==
    []<>(\/ aborted \/ listenQueue = <<>>
         \/ Free = {} /\ \A c \in fin \ early : fd[c] = NoFd)

\* Nor is a loop left with the bare address of a connection that is gone, in its
\* list of available dispatchers, in a handler or in a task, with three exceptions:
\* after ConnectionRemoved what is left of HandleReturnEvents runs in a connection
\* that may be gone; one that was registered again late may be reported; and the
\* thread that queued a send or a handleClose may have dropped its pointer before
\* the task ran (TcpConnection.cpp:17-22, 63, 86, 156-172, Dispatcher.cpp:11-40,
\* TcpServer.cpp:60-77).
NoStaleAddress ==
    \A r \in Loops :
        /\ \A c \in round[r] \ ({Listener} \cup late) : Exists(c)
        /\ \A h \in handler[r] :
              \/ Exists(h[1])
              \/ h[2] = "rest" /\ h[1] \in late
              \/ h[2] = "closing" /\ loopPc[r] = "tasks" /\ user[h[1]] = "dropped"
              \/ h[2] = "removed"
        /\ \A t \in ToSet(pending[r] \o batch[r]) :
              \/ Exists(t[2])
              \/ t[1] \in {"send", "close"} /\ user[t[2]] = "dropped"

-----------------------------------------------------------------------------
(* What a comment promises and the code does not keep.                     *)

\* The user hears of a connection first when its initialisation is complete
\* (TcpConnection.h:83).
EstablishedFirst ==
    \A c \in Clients : "message" \in told[c] => "established" \in told[c]

=============================================================================
