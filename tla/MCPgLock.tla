------------------------------- MODULE MCPgLock -------------------------------
(* Instances of PgLock for TLC. *)
EXTENDS PgLock, TLC

CONSTANTS c1, c2, c3, s1, s2, s3, p1, p2

\* Two callers share a pool, the third has its own.  Pools of one connection: the
\* second session of the first is for the connection that replaces a closed one.
TwoProcesses ==
    [x \in {c1, c2, s1, s2} |-> p1] @@ [x \in {c3, s3} |-> p2]
AllButCancelRelease == {"pool", "cancel", "break", "drop", "crash"}
OnlyCancelRelease == {"cancelRelease"}
===============================================================================
