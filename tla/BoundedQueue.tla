---------------------------- MODULE BoundedQueue ----------------------------
(***************************************************************************)
(* What BlockingQueue promises: a queue of limited length, first in, first *)
(* out.                                                                    *)
(***************************************************************************)
EXTENDS Naturals, Sequences

CONSTANTS
    Items,      \* what may be put into the queue
    Size        \* how many of them it holds

VARIABLES
    items,      \* what is in the queue
    taken       \* what was taken out of it, in order

Init == items = <<>> /\ taken = <<>>

Put(i) ==
    /\ Len(items) < Size
    /\ items' = Append(items, i)
    /\ UNCHANGED taken

Take ==
    /\ items # <<>>
    /\ items' = Tail(items)
    /\ taken' = Append(taken, Head(items))

Next == Take \/ \E i \in Items : Put(i)

Spec == Init /\ [][Next]_<<items, taken>>

=============================================================================
