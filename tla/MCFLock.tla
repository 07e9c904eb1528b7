------------------------------- MODULE MCFLock -------------------------------
(* Instances of FLock for TLC. *)
EXTENDS FLock, TLC

CONSTANTS c1, c2, c3, i1, i2, i3, i4

Symmetry3 == Permutations({c1, c2, c3}) \cup Permutations({i1, i2, i3, i4})
BothEnds == {"release", "crash"}
OnlyRelease == {"release"}
AllButRead == {"open", "lock", "fenceWrite", "fenceExist"}
NoFaults == {}
=============================================================================
