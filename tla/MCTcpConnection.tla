-------------------------- MODULE MCTcpConnection --------------------------
(* TcpConnection on small instances: messages of one or two bytes, a send  *)
(* buffer of two.                                                          *)
EXTENDS TcpConnection, TLC

Symmetry == Permutations(Users)

=============================================================================
