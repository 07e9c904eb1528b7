----------------------------- MODULE MCFileLock -----------------------------
(* Small instances of FileLock for TLC.  Every caller runs in a process of  *)
(* its own, which has its name, unless the instance says otherwise.         *)
EXTENDS FileLock, TLC

CONSTANTS a1, a2, b1, c1, s1

All(S, v) == [x \in S |-> v]

\* two lockers and a goroutine in the process of the first; one sweeper
Four == {a1, a2, b1, s1}
FourProc == a1 :> a1 @@ a2 :> a1 @@ b1 :> b1 @@ s1 :> s1
\* three lockers in processes of their own, with a sweeper or without
ABC == {a1, b1, c1}
ABS == {a1, b1, s1}
ABCS == ABC \cup {s1}
OnlyS == {s1}
Nobody == {}
Self == [c \in Callers |-> c]

\* The pids of the three lockers differ, and tell no more than that.
Lockers3 == Permutations(ABC)

\* distinct pids; start ticks by process
Rank == a1 :> 1 @@ b1 :> 2 @@ c1 :> 3 @@ s1 :> 4
Pids == [p \in Processes |-> Rank[p]]
\* c starts later, with the pid that a had
ReusedPids == [p \in Processes |-> IF p = c1 THEN Rank[a1] ELSE Rank[p]]
Starts == [p \in Processes |-> Rank[p]]
OneMachine == All(Processes, "m")
OneHost == All(Processes, "h")
OneUser == All(Processes, "u")
\* b is on another machine
TwoMachines == [p \in Processes |-> IF p = b1 THEN "m2" ELSE "m"]
TwoHosts == [p \in Processes |-> IF p = b1 THEN "h2" ELSE "h"]
OneBoot == All(Processes, 1)

AllFaults == {"io", "fence", "remove"}
SweepFails == {"sweep"}
NoLabel == {}
OnlyIdle == {"idle"}
\* A process that dies at another label leaves the disk as at one of these,
\* with the exception of "write", where the marker stays empty for ever.
CrashPoints == {"idle", "fenceRead", "held"}
=============================================================================
