------------------------ MODULE ConnectionLifecycle ------------------------
(***************************************************************************)
(* What a TcpConnection promises about its life, once it is established:   *)
(* it may start to close, the user's closing callback is called once, and  *)
(* then it leaves the server and the reactor for good.                     *)
(***************************************************************************)
EXTENDS Naturals

VARIABLES
    state,      \* _currState
    told,       \* how often the closing callback was called
    listed      \* the server still lists the connection

vars == <<state, told, listed>>

Init ==
    /\ state = "Connected"
    /\ told = 0
    /\ listed = TRUE

StartClosing ==
    /\ state = "Connected"
    /\ state' = "Disconnecting"
    /\ UNCHANGED <<told, listed>>

\* A forced close both starts to close and calls the callback.
Tell ==
    /\ state # "Disconnected"
    /\ told = 0
    /\ told' = 1
    /\ state' \in {state, "Disconnecting"}
    /\ UNCHANGED listed

Remove ==
    /\ told = 1
    /\ state # "Disconnected"
    /\ state' = "Disconnected"
    /\ listed' = FALSE
    /\ UNCHANGED told

Next == StartClosing \/ Tell \/ Remove

Spec == Init /\ [][Next]_vars

=============================================================================
