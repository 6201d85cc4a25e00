---------------------------- MODULE MCThreadPool ----------------------------
(* ThreadPool with a few workers. *)
EXTENDS ThreadPool, TLC

=============================================================================
