------------------------------ MODULE MCBuffer ------------------------------
(* Buffer with a vector of two slots and an array on the stack of two.     *)
EXTENDS Buffer, TLC

\* "ab" twice in a stream of seven bytes.
Text == <<"x", "a", "b", "x", "x", "a", "b">>

=============================================================================
