------------------------------- MODULE Mutex --------------------------------
(***************************************************************************)
(* What the distributed lock promises its callers: at most one of them is  *)
(* inside its protected operation at any time.                             *)
(***************************************************************************)
CONSTANT Clients
VARIABLE inside    \* the clients whose operation is under way

Init == inside = {}

Acquire(c) == inside = {} /\ inside' = {c}
Release(c) == c \in inside /\ inside' = inside \ {c}

Next == \E c \in Clients : Acquire(c) \/ Release(c)
Spec == Init /\ [][Next]_inside
=============================================================================
