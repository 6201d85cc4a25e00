------------------------------- MODULE Buffer -------------------------------
(***************************************************************************)
(* One Buffer under any sequence of calls of its methods by one thread.  A *)
(* byte is its position in the stream of everything offered to the buffer, *)
(* by Push or by the kernel.  A call that fails (EWOULDBLOCK, EPIPE, a     *)
(* read error) and PeekAllReadable leave the buffer as it was, and so take *)
(* no step here.                                                           *)
(***************************************************************************)
EXTENDS BufferOps

CONSTANTS
    InitSize,   \* BufferInitSize
    TmpSize,    \* TmpBufSize, the array on the stack of ReadFromKernel
    MaxPush,    \* bound: longest message of a Push
    MaxBytes,   \* bound: bytes offered in a run
    Letter      \* the character at each position of the stream

ASSUME BufferAssumption ==
    /\ InitSize \in Nat
    /\ TmpSize \in Nat
    /\ MaxPush \in Nat
    /\ MaxBytes \in Nat
    /\ DOMAIN Letter = 1 .. MaxBytes

VARIABLES
    buffer,     \* the Buffer
    taken,      \* history: bytes handed out, by any method
    offered     \* history: how many bytes were offered

vars == <<buffer, taken, offered>>

TypeOK ==
    /\ IsBuffer(buffer)
    /\ taken \in Seq(Nat)
    /\ offered \in 0 .. MaxBytes

Init ==
    /\ buffer = EmptyBuffer(InitSize)
    /\ taken = <<>>
    /\ offered = 0

Fresh(n) == [i \in 1 .. n |-> offered + i]

\* Push of a message of n bytes.
PushMessage(n) ==
    /\ offered + n <= MaxBytes
    /\ buffer' = Push(buffer, Fresh(n))
    /\ offered' = offered + n
    /\ UNCHANGED taken

\* readv returns n bytes, at most what both of its arrays hold.
ReadFromKernel(n) ==
    /\ n <= WriteableSize(buffer) + TmpSize
    /\ offered + n <= MaxBytes
    /\ buffer' = Received(buffer, Fresh(n))
    /\ offered' = offered + n
    /\ UNCHANGED taken

\* write takes n bytes, perhaps fewer than there are.
WriteIntoKernel(n) ==
    /\ n \in 1 .. ReadableSize(buffer)
    /\ taken' = taken \o SubSeq(Readable(buffer), 1, n)
    /\ buffer' = Consumed(buffer, n)
    /\ UNCHANGED offered

GetAllReadable ==
    /\ taken' = taken \o Readable(buffer)
    /\ buffer' = Consumed(buffer, ReadableSize(buffer))
    /\ UNCHANGED offered

\* Where search() would find the array {'a','b'} that is named crlf.
Pairs ==
    {k \in 0 .. ReadableSize(buffer) - 2 :
        /\ Letter[Readable(buffer)[k + 1]] = "a"
        /\ Letter[Readable(buffer)[k + 2]] = "b"}

\* Up to the first pair; the pair itself stays readable, so the indices do not
\* meet.
GetUntilCRLF ==
    \E k \in Pairs :
        /\ \A j \in Pairs : k <= j
        /\ taken' = taken \o SubSeq(Readable(buffer), 1, k)
        /\ buffer' = Consumed(buffer, k)
        /\ UNCHANGED offered

\* The moved-to Buffer takes the vector and the indices along.
MoveAway ==
    /\ taken' = taken \o Readable(buffer)
    /\ buffer' = EmptyBuffer(0)
    /\ UNCHANGED offered

Next ==
    \/ \E n \in 0 .. MaxPush : PushMessage(n)
    \/ \E n \in 0 .. MaxBytes : ReadFromKernel(n)
    \/ \E n \in 1 .. MaxBytes : WriteIntoKernel(n)
    \/ GetAllReadable
    \/ GetUntilCRLF
    \/ MoveAway

Spec == Init /\ [][Next]_vars

-----------------------------------------------------------------------------
\* However the calls are mixed, bytes come out in order, each at most once, and
\* what is lost of an offer is its end (Buffer.cpp:13-182).
BQ == INSTANCE ByteQueue WITH queue <- Readable(buffer)
ImplementsByteQueue == BQ!Spec

\* A buffer that is always emptied at once, as main.cpp's echo does with
\* GetAllReadable, loses nothing: every offer it gets is kept
\* (Buffer.cpp:118-149, 151-182).
WholeReadsLoseNothing ==
    [][buffer.readIndex = 0 /\ offered' # offered
          => Readable(buffer') = Readable(buffer) \o Fresh(offered' - offered)]_vars

=============================================================================
