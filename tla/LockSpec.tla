------------------------------ MODULE LockSpec ------------------------------
(***************************************************************************)
(* What every backend of the family promises for one lock name: a          *)
(* non-blocking counting semaphore.  It is the contract of lock.Locker and *)
(* lock.Holder: Acquire either takes one of the N places, or answers       *)
(* ErrLocked because at some moment of the call all of them were taken;    *)
(* Release gives the place back.                                           *)
(***************************************************************************)
EXTENDS Naturals, FiniteSets

CONSTANTS Callers, N

VARIABLE state     \* of every caller: "out", "trying", "in" or "refused"

In == {c \in Callers : state[c] = "in"}

Init == state = [c \in Callers |-> "out"]

Call(c) == state[c] = "out" /\ state' = [state EXCEPT ![c] = "trying"]

Grant(c) ==
    /\ state[c] = "trying" /\ Cardinality(In) < N
    /\ state' = [state EXCEPT ![c] = "in"]

\* ErrLocked is decided now, and returned now or later.
Refuse(c) ==
    /\ state[c] = "trying" /\ Cardinality(In) >= N
    /\ \E next \in {"refused", "out"} : state' = [state EXCEPT ![c] = next]

Return(c) == state[c] = "refused" /\ state' = [state EXCEPT ![c] = "out"]

\* The call ends with another error, or with its process.  It is not part of
\* Next: a backend names the steps of its own that abandon a call.
Abandon(c) == state[c] = "trying" /\ state' = [state EXCEPT ![c] = "out"]

Release(c) == state[c] = "in" /\ state' = [state EXCEPT ![c] = "out"]

Next == \E c \in Callers : Call(c) \/ Grant(c) \/ Refuse(c) \/ Return(c) \/ Release(c)

Spec == Init /\ [][Next]_state
=============================================================================
