--------------------------- MODULE TcpConnection ---------------------------
(***************************************************************************)
(* One TcpConnection after ConnectionEstablished: the loop thread of its   *)
(* Reactor, which dispatches the events of its Dispatcher and runs the     *)
(* tasks queued for it; other threads that call Send, Shutdown and         *)
(* ForceClose; the callbacks of the user, which may call them too; and the *)
(* socket with the peer behind it.                                         *)
(*                                                                         *)
(* The Reactor is taken at its word (module TaskQueue): queued tasks run   *)
(* in order, between two rounds of events.  The in-buffer is left out: it  *)
(* is a Buffer that only the user reads.  A byte that is sent is its       *)
(* position in the stream of everything passed to send().                  *)
(***************************************************************************)
EXTENDS BufferOps, FiniteSets

CONSTANTS
    Users,          \* threads other than the loop's that use the connection
    UserOps,        \* the calls such a thread makes
    MessageOps,     \* the calls made in the new-message callback
    ClosingOps,     \* the calls made in the closing callback
    OtherOps,       \* the calls made on the loop thread in callbacks and tasks
                    \* that belong to someone else
    KeepsRef,       \* the user holds a shared_ptr to the connection
    PeerOps,        \* what the peer does: "send", "fin", "reset"
    InitSize,       \* BufferInitSize
    SndSize,        \* the kernel's send buffer, in bytes
    Sizes,          \* sizes of the messages that are sent
    MaxCalls,       \* bound: calls of Send, Shutdown and ForceClose in a run
    MaxRcv,         \* bound: bytes the peer sends
    MaxDepth        \* bound: callbacks nested in one another

Ops == {"send", "shutdown", "force"}

\* Only a callback of the connection itself is handed a pointer to it.
ASSUME ConnectionAssumption ==
    /\ UserOps \subseteq Ops
    /\ MessageOps \subseteq Ops
    /\ ClosingOps \subseteq Ops
    /\ OtherOps \subseteq Ops
    /\ KeepsRef \in BOOLEAN
    /\ ~KeepsRef => Users = {} /\ OtherOps = {}
    /\ InitSize \in Nat
    /\ SndSize \in Nat \ {0}
    /\ Sizes \subseteq Nat \ {0}
    /\ MaxCalls \in Nat /\ MaxRcv \in Nat

VARIABLES
    currState,      \* _currState
    isReading,      \* _dispatcher._isReading; what _events says follows from
    isWriting,      \* it and from _dispatcher._isWriting
    revents,        \* _dispatcher._revents
    registered,     \* the Multiplexer's map holds the dispatcher
    interest,       \* what epoll was told to watch for
    outBuffer,      \* _outBuffer
    inMap,          \* TcpServer::_connections holds the connection
    queue,          \* tasks queued for this connection in the Reactor
    batch,          \* how many of them are in the batch being run
    loopPc,         \* where the loop thread is
    frames,         \* user callbacks it is in, innermost last
    userPc,         \* where each other thread is, and in which call, if any
    calls,          \* history: calls made so far
    offered,        \* history: bytes passed to send() so far
    closings,       \* history: calls of the closing callback (2: more)
    snd,            \* kernel: bytes written and not yet received by the peer
    received,       \* history: bytes the peer has received
    rcv,            \* kernel: how many bytes wait to be read
    peerFin,        \* kernel: the peer closed its side
    finSent,        \* kernel: shutdown(SHUT_WR) was called
    reset,          \* kernel: the peer reset the connection
    sockErr         \* kernel: SO_ERROR is set

loop == <<loopPc, frames>>
disp == <<isReading, isWriting, registered, interest>>
out == <<outBuffer, snd>>
tasks == <<queue, batch>>
net == <<rcv, peerFin, reset>>
vars == <<currState, disp, revents, out, inMap, tasks, loop, userPc, calls,
          offered, closings, received, net, finSent, sockErr>>

Tasks == [op : {"send"}, size : Sizes] \cup [op : {"shutdown", "force"}]
LoopPcs == {"poll", "before", "read", "write", "except", "swap", "tasks",
            "failed"}
Bytes == 1 .. offered

TypeOK ==
    /\ currState \in {"Connected", "Disconnecting", "Disconnected"}
    /\ isReading \in BOOLEAN /\ isWriting \in BOOLEAN
    /\ revents \subseteq {"in", "hup", "out", "err"}
    /\ registered \in BOOLEAN /\ interest \subseteq {"in", "out"}
    /\ IsBuffer(outBuffer)
    /\ inMap \in BOOLEAN
    /\ queue \in Seq(Tasks) /\ batch \in 0 .. Len(queue)
    /\ loopPc \in LoopPcs
    /\ frames \in Seq({"message", "closing"})
    /\ userPc \in [Users -> {<<>>} \cup ({"store", "queue"} \X Tasks)]
    /\ calls \in 0 .. MaxCalls /\ offered \in Nat /\ closings \in 0 .. 2
    /\ snd \in Seq(Bytes) /\ Len(snd) <= SndSize /\ received \in Seq(Bytes)
    /\ rcv \in 0 .. MaxRcv
    /\ peerFin \in BOOLEAN /\ finSent \in BOOLEAN
    /\ reset \in BOOLEAN /\ sockErr \in BOOLEAN

Init ==
    /\ currState = "Connected"
    /\ isReading = TRUE /\ isWriting = FALSE
    /\ revents = {}
    /\ registered = TRUE /\ interest = {"in"}
    /\ outBuffer = EmptyBuffer(InitSize)
    /\ inMap = TRUE
    /\ queue = <<>> /\ batch = 0
    /\ loopPc = "poll" /\ frames = <<>>
    /\ userPc = [u \in Users |-> <<>>]
    /\ calls = 0 /\ offered = 0 /\ closings = 0
    /\ snd = <<>> /\ received = <<>>
    /\ rcv = 0 /\ peerFin = FALSE /\ finSent = FALSE
    /\ reset = FALSE /\ sockErr = FALSE

-----------------------------------------------------------------------------
(* What the handlers are made of.  A definition named Faulty... is a       *)
(* plausible mistake in the one that follows it and is used by no action.  *)

\* The object is gone: neither the server's map nor the user nor the argument
\* of a callback refers to it.
Destroyed == ~inMap /\ ~KeepsRef /\ frames = <<>>

\* write(): what fits goes into the kernel, nothing once our side is shut.
Sendable(b) ==
    IF finSent \/ reset THEN 0
    ELSE IF ReadableSize(b) < SndSize - Len(snd) THEN ReadableSize(b)
    ELSE SndSize - Len(snd)

FaultyWritten(b) == b
\* WriteIntoKernel leaves the buffer alone when write fails ...
Written(b) == IF Sendable(b) = 0 THEN b ELSE Consumed(b, Sendable(b))

\* ... and returns true only if write took some bytes, but not all: EAGAIN
\* looks to the caller as if nothing were left.
Left(b) == Sendable(b) > 0 /\ Sendable(b) < ReadableSize(b)

\* WriteIntoKernel on b, which becomes the out-buffer.
WriteIntoKernel(b) ==
    /\ outBuffer' = Written(b)
    /\ snd' = snd \o SubSeq(Readable(b), 1, Sendable(b))
    /\ sockErr' = (sockErr /\ ReadableSize(b) = 0)

\* What _events says of reading and writing.
Wanted(reading, writing) ==
    (IF reading THEN {"in"} ELSE {}) \cup (IF writing THEN {"out"} ELSE {})

FaultyUpdateDispatcher == UNCHANGED <<registered, interest>>
\* Reactor::UpdateDispatcher after the flags were set.
UpdateDispatcher ==
    /\ registered' = TRUE
    /\ interest' = Wanted(isReading', isWriting')

\* Socket::ShutdownWrite, after which the loop is at next.  On a socket that
\* is closed for good the call fails and throws, out of Start.
ShutdownWrite(next) ==
    \/ ~reset /\ finSent' = TRUE /\ loopPc' = next /\ UNCHANGED frames
    \/ /\ reset \/ (finSent /\ peerFin)
       /\ loopPc' = "failed" /\ frames' = <<>>
       /\ UNCHANGED finSent

\* send(): no look at the state of the connection.
DoSend(n) ==
    LET pushed == Push(outBuffer, [i \in 1 .. n |-> offered + i])
    IN  /\ offered' = offered + n
        /\ WriteIntoKernel(pushed)
        /\ UNCHANGED isReading
        /\ IF Left(pushed) /\ ~isWriting
           THEN isWriting' = TRUE /\ UpdateDispatcher
           ELSE UNCHANGED <<isWriting, registered, interest>>

FaultyDoShutdown(next) == ShutdownWrite(next)
\* shutdown(): later, in handleWrite, if something is still to be written.
DoShutdown(next) ==
    IF ~isWriting /\ ReadableSize(outBuffer) = 0
    THEN ShutdownWrite(next)
    ELSE loopPc' = next /\ UNCHANGED <<finSent, frames>>

FaultyDoClose(st, next) ==
    /\ loopPc' = next
    /\ currState' = st
    /\ isReading' = FALSE /\ isWriting' = FALSE
    /\ frames' = Append(frames, "closing")
    /\ closings' = IF closings < 2 THEN closings + 1 ELSE 2
\* handleClose up to and into the closing callback, for a connection in
\* state st; next is where the loop goes on.
DoClose(st, next) ==
    /\ loopPc' = next
    /\ currState' = st
    /\ IF st = "Disconnected"
       THEN UNCHANGED <<isReading, isWriting, frames, closings>>
       ELSE /\ isReading' = FALSE /\ isWriting' = FALSE
            /\ frames' = Append(frames, "closing")
            /\ closings' = IF closings < 2 THEN closings + 1 ELSE 2

FaultyDoRemove ==
    /\ currState' = "Disconnected"
    /\ isReading' = FALSE /\ isWriting' = FALSE
    /\ inMap' = FALSE
    /\ UNCHANGED <<registered, interest>>
\* ConnectionRemoved and the TcpServer::removeConnection it calls.
DoRemove ==
    /\ currState' = "Disconnected"
    /\ isReading' = FALSE /\ isWriting' = FALSE
    /\ registered' = FALSE /\ interest' = {}
    /\ inMap' = FALSE

-----------------------------------------------------------------------------
(* The loop thread: one round of events, then the tasks.                   *)

\* What the kernel says of the socket (tcp_poll of Linux) ...
Poll ==
    [in  |-> rcv > 0 \/ peerFin \/ reset,
     out |-> Len(snd) < SndSize \/ finSent \/ reset,
     hup |-> (finSent /\ peerFin) \/ reset,
     err |-> sockErr]

\* ... and what of it epoll_wait reports: EPOLLHUP and EPOLLERR always.
Reported ==
    {e \in interest \cup (IF registered THEN {"hup", "err"} ELSE {}) : Poll[e]}

\* Multiplexer::Wait: an event here, a task, or something else's event.
Wait ==
    /\ loopPc = "poll"
    /\ IF Reported # {}
       THEN revents' = Reported /\ loopPc' = "before"
       ELSE /\ queue # <<>> \/ OtherOps # {}
            /\ loopPc' = "swap"
            /\ UNCHANGED revents
    /\ UNCHANGED <<currState, disp, out, inMap, tasks, frames, userPc, calls,
                   offered, closings, received, net, finSent, sockErr>>

\* HandleReturnEvents, branch by branch.  On Linux the first one does not
\* fire while EPOLLIN is watched: a socket that hangs up is readable.
HandleHup ==
    /\ loopPc = "before" /\ frames = <<>>
    /\ IF "hup" \in revents /\ "in" \notin revents
       THEN DoClose(currState, "read")
       ELSE /\ loopPc' = "read"
            /\ UNCHANGED <<currState, isReading, isWriting, frames, closings>>
    /\ UNCHANGED <<registered, interest, revents, out, inMap, tasks, userPc,
                   calls, offered, received, net, finSent, sockErr>>

FaultyReadResult == IF rcv > 0 THEN "data" ELSE "error"
\* What readv returns: > 0, 0 or -1 (a pending error, or EAGAIN).
ReadResult ==
    IF rcv > 0 THEN "data"
    ELSE IF ~sockErr /\ (peerFin \/ reset) THEN "eof" ELSE "error"

HandleRead ==
    /\ loopPc = "read" /\ frames = <<>>
    /\ \/ /\ "in" \in revents /\ ReadResult = "data"
          /\ \E left \in 0 .. rcv - 1 : rcv' = left
          /\ frames' = <<"message">>
          /\ loopPc' = "write"
          /\ UNCHANGED <<currState, isReading, isWriting, closings, sockErr>>
       \/ /\ "in" \in revents /\ ReadResult = "eof"
          /\ DoClose(currState, "write")
          /\ UNCHANGED <<rcv, sockErr>>
       \/ /\ "in" \notin revents \/ ReadResult = "error"
          /\ sockErr' = (sockErr /\ "in" \notin revents)
          /\ loopPc' = "write"
          /\ UNCHANGED <<currState, isReading, isWriting, frames, closings, rcv>>
    /\ UNCHANGED <<registered, interest, revents, out, inMap, tasks, userPc,
                   calls, offered, received, peerFin, reset, finSent>>

\* Whatever WriteIntoKernel leaves for EAGAIN or an error counts as written.
HandleWrite ==
    /\ loopPc = "write" /\ frames = <<>>
    /\ \/ /\ "out" \notin revents \/ ~isWriting \/ ReadableSize(outBuffer) = 0
          /\ loopPc' = "except"
          /\ UNCHANGED <<disp, out, frames, finSent, sockErr>>
       \/ /\ "out" \in revents /\ isWriting /\ ReadableSize(outBuffer) > 0
          /\ WriteIntoKernel(outBuffer)
          /\ isWriting' = Left(outBuffer)
          /\ UNCHANGED isReading
          /\ IF Left(outBuffer) THEN UNCHANGED <<registered, interest>>
                                ELSE UpdateDispatcher
          /\ IF ~Left(outBuffer) /\ currState = "Disconnecting"
             THEN ShutdownWrite("except")
             ELSE loopPc' = "except" /\ UNCHANGED <<frames, finSent>>
    /\ UNCHANGED <<currState, revents, inMap, tasks, userPc, calls, offered,
                   closings, received, net>>

HandleError ==
    /\ loopPc = "except" /\ frames = <<>>
    /\ sockErr' = (sockErr /\ "err" \notin revents)
    /\ loopPc' = "swap"
    /\ UNCHANGED <<currState, disp, revents, out, inMap, tasks, frames, userPc,
                   calls, offered, closings, received, net, finSent>>

\* dealRemainedTasks swaps out what is queued, and runs it.
BeginTasks ==
    /\ loopPc = "swap" /\ frames = <<>>
    /\ batch' = Len(queue)
    /\ loopPc' = "tasks"
    /\ UNCHANGED <<currState, disp, revents, out, inMap, queue, frames, userPc,
                   calls, offered, closings, received, net, finSent, sockErr>>

RunTask ==
    /\ loopPc = "tasks" /\ frames = <<>>
    /\ batch > 0
    /\ batch' = batch - 1
    /\ queue' = Tail(queue)
    /\ \/ /\ Head(queue).op = "send"
          /\ DoSend(Head(queue).size)
          /\ UNCHANGED <<currState, loop, closings, finSent>>
       \/ /\ Head(queue).op = "shutdown"
          /\ DoShutdown("tasks")
          /\ UNCHANGED <<currState, disp, out, offered, closings, sockErr>>
       \/ /\ Head(queue).op = "force"
          /\ DoClose(currState, "tasks")
          /\ UNCHANGED <<registered, interest, out, offered, finSent, sockErr>>
    /\ UNCHANGED <<revents, inMap, userPc, calls, received, net>>

EndTasks ==
    /\ loopPc = "tasks" /\ frames = <<>>
    /\ batch = 0
    /\ loopPc' = "poll"
    /\ UNCHANGED <<currState, disp, revents, out, inMap, tasks, frames, userPc,
                   calls, offered, closings, received, net, finSent, sockErr>>

-----------------------------------------------------------------------------
(* User code on the loop thread.                                           *)

\* Who may make this call: the innermost callback of this connection or, before
\* and after the connection's events of the round, a callback or a task of
\* someone else.
MayCall(op) ==
    /\ calls < MaxCalls
    /\ IF frames = <<>>
       THEN loopPc \in {"before", "swap", "tasks"} /\ op \in OtherOps
       ELSE IF frames[Len(frames)] = "message"
            THEN op \in MessageOps
            ELSE op \in ClosingOps

CallSend(n) ==
    /\ MayCall("send")
    /\ currState = "Connected"
    /\ calls' = calls + 1
    /\ DoSend(n)
    /\ UNCHANGED <<currState, revents, inMap, tasks, loop, userPc, closings,
                   received, net, finSent>>

CallShutdown ==
    /\ MayCall("shutdown")
    /\ currState = "Connected"
    /\ calls' = calls + 1
    /\ currState' = "Disconnecting"
    /\ DoShutdown(loopPc)
    /\ UNCHANGED <<disp, revents, out, inMap, tasks, userPc, offered, closings,
                   received, net, sockErr>>

CallForceClose ==
    /\ MayCall("force")
    /\ Len(frames) < MaxDepth
    /\ calls' = calls + 1
    /\ DoClose(IF currState = "Connected" THEN "Disconnecting" ELSE currState,
               loopPc)
    /\ UNCHANGED <<registered, interest, revents, out, inMap, tasks, userPc,
                   offered, received, net, finSent, sockErr>>

\* A callback returns; after the closing callback handleClose goes on to
\* ConnectionRemoved.
Return ==
    /\ frames # <<>>
    /\ frames' = SubSeq(frames, 1, Len(frames) - 1)
    /\ IF frames[Len(frames)] = "closing"
       THEN DoRemove
       ELSE UNCHANGED <<currState, disp, inMap>>
    /\ UNCHANGED <<revents, out, tasks, loopPc, userPc, calls, offered,
                   closings, received, net, finSent, sockErr>>

-----------------------------------------------------------------------------
(* Other threads look at _currState, store to it, and append to the        *)
(* Reactor's list, as three steps.                                         *)

\* Send and Shutdown return unless the connection is connected; ForceClose
\* queues handleClose whatever the state.
UserLooks(u, t) ==
    /\ t.op \in UserOps
    /\ calls < MaxCalls
    /\ userPc[u] = <<>>
    /\ currState = "Connected" \/ t.op = "force"
    /\ calls' = calls + 1
    /\ userPc' = [userPc EXCEPT ![u] =
                     <<IF currState = "Connected" /\ t.op # "send"
                       THEN "store" ELSE "queue", t>>]
    /\ UNCHANGED <<currState, disp, revents, out, inMap, tasks, loop, offered,
                   closings, received, net, finSent, sockErr>>

UserStores(u, t) ==
    /\ userPc[u] = <<"store", t>>
    /\ currState' = "Disconnecting"
    /\ userPc' = [userPc EXCEPT ![u] = <<"queue", t>>]
    /\ UNCHANGED <<disp, revents, out, inMap, tasks, loop, calls, offered,
                   closings, received, net, finSent, sockErr>>

UserQueues(u, t) ==
    /\ userPc[u] = <<"queue", t>>
    /\ queue' = Append(queue, t)
    /\ userPc' = [userPc EXCEPT ![u] = <<>>]
    /\ UNCHANGED <<currState, disp, revents, out, inMap, batch, loop, calls,
                   offered, closings, received, net, finSent, sockErr>>

-----------------------------------------------------------------------------
(* The peer and the network. *)

Local == <<currState, disp, revents, outBuffer, inMap, tasks, loop, userPc,
           calls, offered, closings, finSent>>

PeerReceives ==
    /\ snd # <<>>
    /\ received' = Append(received, Head(snd))
    /\ snd' = Tail(snd)
    /\ UNCHANGED <<Local, net, sockErr>>

PeerSends ==
    /\ "send" \in PeerOps
    /\ ~peerFin /\ ~reset
    /\ rcv < MaxRcv
    /\ rcv' = rcv + 1
    /\ UNCHANGED <<Local, snd, received, peerFin, reset, sockErr>>

PeerFins ==
    /\ "fin" \in PeerOps
    /\ ~peerFin /\ ~reset
    /\ peerFin' = TRUE
    /\ UNCHANGED <<Local, snd, received, rcv, reset, sockErr>>

PeerResets ==
    /\ "reset" \in PeerOps
    /\ ~reset
    /\ reset' = TRUE /\ sockErr' = TRUE
    /\ snd' = <<>>
    /\ UNCHANGED <<Local, received, rcv, peerFin>>

-----------------------------------------------------------------------------
LoopStep ==
    \/ Wait
    \/ HandleHup \/ HandleRead \/ HandleWrite \/ HandleError
    \/ BeginTasks \/ RunTask \/ EndTasks

CallbackStep ==
    \/ \E n \in Sizes : CallSend(n)
    \/ CallShutdown \/ CallForceClose
    \/ Return

UserGoesOn(u) == \E t \in Tasks : UserStores(u, t) \/ UserQueues(u, t)

UserStep(u) ==
    \/ \E t \in Tasks : UserLooks(u, t)
    \/ UserGoesOn(u)

PeerStep == PeerReceives \/ PeerSends \/ PeerFins \/ PeerResets

Next ==
    \/ LoopStep \/ CallbackStep
    \/ \E u \in Users : UserStep(u)
    \/ PeerStep

\* The loop's thread keeps running, callbacks return, calls come to an end.
Fairness ==
    /\ WF_vars(LoopStep)
    /\ WF_vars(Return)
    /\ \A u \in Users : WF_vars(UserGoesOn(u))

Spec == Init /\ [][Next]_vars /\ Fairness

\* The same with a peer that keeps reading.
ReadingPeerSpec == Spec /\ WF_vars(PeerReceives)

-----------------------------------------------------------------------------
\* The peer gets the bytes in the order in which send() got them, each at most
\* once, through every partial write (Buffer.cpp:53-82, TcpConnection.cpp:67-77,
\* 129-149).
StreamInOrder ==
    LET all == received \o snd \o Readable(outBuffer)
    IN  \A i, j \in DOMAIN all : i < j => all[i] < all[j]

\* When the loop is about to wait, epoll watches for what the dispatcher says
\* it is interested in (TcpConnection.cpp:74-75, 140-141, 165-170).
InterestInSync ==
    loopPc = "poll" /\ registered =>
        interest = Wanted(isReading, isWriting)

\* The life of the connection is that of ConnectionLifecycle: one closing
\* callback, then removal for good - if other threads only send and the closing
\* callback forces no close (TcpConnection.cpp:44-52, 79-98, 156-172).
CL == INSTANCE ConnectionLifecycle
          WITH state <- currState, told <- closings, listed <- inMap
ImplementsLifecycle == CL!Spec

\* No message is delivered after the closing callback began, unless other code of
\* the loop's thread forced the close (TcpConnection.cpp:109-126, 165).
NoMessageAfterClosing ==
    [][closings > 0 /\ frames = <<>> => frames' # <<"message">>]_vars

\* Our side of the connection is shut only when nothing waits to be written, if
\* neither the message callback nor other code of the loop's thread sends
\* (TcpConnection.cpp:100-107, 136-146).
FinAfterData ==
    [][finSent' /\ ~finSent => ReadableSize(outBuffer') = 0]_vars

\* A peer that closes is noticed, whatever else happens on the connection, unless
\* an exception ends the loop (TcpConnection.cpp:109-126, 156-172).
CloseNoticed ==
    peerFin ~> ~inMap \/ loopPc = "failed"

-----------------------------------------------------------------------------
(* What the comments promise and the code does not keep.                   *)

\* A connection that starts to close gets its FIN out, or is closed by the peer:
\* what could not be written at once is watched for, and the FIN follows it
\* (TcpConnection.cpp:71, 142-145, Buffer.cpp:80).
ShutdownCompletes ==
    currState = "Disconnecting" ~> finSent \/ ~inMap \/ loopPc = "failed"

\* The loop does not use the connection after its destruction: what is left of
\* HandleReturnEvents reads _revents (TcpConnection.h:5-7).
NoUseAfterFree ==
    Destroyed => loopPc \notin {"before", "read", "write", "except"}

=============================================================================
