-------------------------------- MODULE Drain --------------------------------
(***************************************************************************)
(* What a proxy promises to the process that runs it: connections join and *)
(* leave, the listener is closed once and for good, and the end of Wait    *)
(* means that it is closed and that everybody who joined has left.         *)
(* Nobody joins after that: a handler that comes too late for Wait is not  *)
(* part of this contract.                                                  *)
(*                                                                         *)
(* Module Proxy implements it with a WaitGroup, and module Daemon is built *)
(* on it.                                                                  *)
(***************************************************************************)
CONSTANT Conns

VARIABLES
    accepting,     \* the listener is open
    forwarding,    \* connections that have joined and not left
    finished       \* Wait is over

vars == <<accepting, forwarding, finished>>

Init ==
    /\ accepting = TRUE
    /\ forwarding = {}
    /\ finished = FALSE

(* Shutdown. *)
Close ==
    /\ accepting
    /\ accepting' = FALSE
    /\ UNCHANGED <<forwarding, finished>>

(* A connection that was accepted may join after Close. *)
Join(c) ==
    /\ ~finished
    /\ c \notin forwarding
    /\ forwarding' = forwarding \cup {c}
    /\ UNCHANGED <<accepting, finished>>

Leave(c) ==
    /\ c \in forwarding
    /\ forwarding' = forwarding \ {c}
    /\ UNCHANGED <<accepting, finished>>

(* The last one to leave may be the one that ends Wait. *)
LastLeaves(c) ==
    /\ ~accepting
    /\ ~finished
    /\ forwarding = {c}
    /\ forwarding' = {}
    /\ finished' = TRUE
    /\ UNCHANGED accepting

Finish ==
    /\ ~accepting
    /\ ~finished
    /\ forwarding = {}
    /\ finished' = TRUE
    /\ UNCHANGED <<accepting, forwarding>>

Next ==
    \/ Close
    \/ \E c \in Conns : Join(c) \/ Leave(c) \/ LastLeaves(c)
    \/ Finish

Spec == Init /\ [][Next]_vars

=============================================================================
