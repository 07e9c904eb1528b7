------------------------------ MODULE MCWithLock ------------------------------
(* An instance of WithLock for TLC: two goroutines of one process. *)
EXTENDS WithLock, TLC

CONSTANTS c1, c2, v1, v2, v3, p1

OnlyHeld == {"held"}
AllFaults == {"command", "crash"}
OneProcess == [c \in Callers |-> p1]
===============================================================================
