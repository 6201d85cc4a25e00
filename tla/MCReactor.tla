----------------------------- MODULE MCReactor -----------------------------
(* Reactor on a small instance.  Every task can be handed over once, so the *)
(* set of tasks bounds the runs.                                            *)
EXTENDS Reactor, TLC

=============================================================================
