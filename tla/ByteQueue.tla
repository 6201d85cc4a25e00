----------------------------- MODULE ByteQueue -----------------------------
(***************************************************************************)
(* What a Buffer is to the code around it: bytes come out in the order in  *)
(* which they went in, each at most once.  A byte is its position in the   *)
(* stream of everything that was ever offered.  The end of an offer, or    *)
(* all of it, may be lost; module Buffer says when the code loses it.      *)
(***************************************************************************)
EXTENDS Naturals, Sequences

VARIABLES
    queue,      \* bytes that wait to be taken, oldest first
    taken,      \* bytes taken so far
    offered     \* how many bytes were offered so far

vars == <<queue, taken, offered>>

TypeOK ==
    /\ queue \in Seq(Nat)
    /\ taken \in Seq(Nat)
    /\ offered \in Nat

Init ==
    /\ queue = <<>>
    /\ taken = <<>>
    /\ offered = 0

\* More bytes of the stream are offered, and the first k of them are kept.
Offer ==
    /\ offered' \in Nat
    /\ offered' > offered
    /\ \E k \in 0 .. offered' - offered :
          queue' = queue \o [i \in 1 .. k |-> offered + i]
    /\ UNCHANGED taken

Take(n) ==
    /\ taken' = taken \o SubSeq(queue, 1, n)
    /\ queue' = SubSeq(queue, n + 1, Len(queue))
    /\ UNCHANGED offered

Next ==
    \/ Offer
    \/ \E n \in 1 .. Len(queue) : Take(n)

Spec == Init /\ [][Next]_vars

\* No byte is made up, repeated or overtaken (Buffer.cpp, every method).
InOrder ==
    LET all == taken \o queue
    IN  /\ \A i \in 1 .. Len(all) : all[i] \in 1 .. offered
        /\ \A i, j \in 1 .. Len(all) : i < j => all[i] < all[j]

=============================================================================
