---------------------------- MODULE MCTcpServer ----------------------------
(* TcpServer without a pool and with one, whose connections use one loop   *)
(* or two; with a descriptor for each client and with fewer, so that one   *)
(* is used again; and, in the smallest instances, with a connection whose  *)
(* pointer the program keeps and that may have bytes left to write.        *)
EXTENDS TcpServer, TLC

Instance(t, d, cs, act) ==
    [threads |-> t, descriptors |-> d, clients |-> cs, active |-> act]
Active == {CHOOSE c \in Clients : TRUE}
SmallInstances ==
    {Instance(0, 1, Clients, Active), Instance(2, 1, Active, Active)}
        \cup {Instance(t, 1, Clients, {}) : t \in {2, 3}}
        \cup {Instance(t, 2, Clients, {}) : t \in {0, 2}}

=============================================================================
