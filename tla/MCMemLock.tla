------------------------------ MODULE MCMemLock ------------------------------
(* One singleton name and one semaphore of two places, for TLC. *)
EXTENDS MemLock, TLC

CONSTANTS c1, c2, c3, r1, r2

TwoNames == {"job", "pool"}
Limits == "job" :> 1 @@ "pool" :> 2
Symmetry == Permutations({c1, c2, c3}) \cup Permutations({r1, r2})
=============================================================================
