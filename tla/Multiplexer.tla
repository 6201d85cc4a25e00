---------------------------- MODULE Multiplexer ----------------------------
(***************************************************************************)
(* A Multiplexer as a value: its map from descriptors to dispatchers, and  *)
(* what the kernel keeps beside it, the descriptors that epoll watches.    *)
(* The kernel forgets a descriptor when it is closed; the map does not.    *)
(***************************************************************************)

\* No descriptor is mapped or watched.
NewMultiplexer == [map |-> [f \in {} |-> f], watched |-> {}]

\* epoll_ctl refuses to add what it watches and to modify what it does not.
UpdateFails(m, fd) == (fd \in DOMAIN m.map) # (fd \in m.watched)

\* UpdateDispathcer of a dispatcher d with descriptor fd.
Updated(m, fd, d) ==
    [map     |-> [f \in DOMAIN m.map \cup {fd} |-> IF f = fd THEN d ELSE m.map[f]],
     watched |-> m.watched \cup {fd}]

FaultyDeleted(m, fd) ==
    IF fd \in DOMAIN m.map
    THEN [m EXCEPT !.map = [f \in DOMAIN m.map \ {fd} |-> m.map[f]]]
    ELSE m
\* DeleteDispatcher of a dispatcher with descriptor fd.
Deleted(m, fd) ==
    IF fd \in DOMAIN m.map
    THEN [map     |-> [f \in DOMAIN m.map \ {fd} |-> m.map[f]],
          watched |-> m.watched \ {fd}]
    ELSE m

\* The descriptors fds are closed.
Closed(m, fds) == [m EXCEPT !.watched = @ \ fds]

\* What epoll reports is in the map: otherwise Wait throws, and "only God
\* knows why" (Multiplexer.cpp:84).
Consistent(m) == m.watched \subseteq DOMAIN m.map

=============================================================================
