------------------------------- MODULE WithLock -------------------------------
(***************************************************************************)
(* The helpers around a backend, here redislock: WithLock, the lock.Locker *)
(* adapter with contrib/gocronlock on top of it, and the gauge of active   *)
(* locks.  They have one context for Acquire, the body and Release.  Every *)
(* step of theirs is one of RedisLock; what they add is who may take it,   *)
(* what the caller is told and what is recorded.                           *)
(***************************************************************************)
EXTENDS RedisLock, Integers

CONSTANTS
    Processes,
    ProcOf      \* the process that a caller runs in

VARIABLES
    job,       \* how every caller uses the lock, and whether its context has ended
    gauge,     \* of every process: the sum of ActiveLocksDelta
    told,      \* the caller who was told nil in the last step
    beaten     \* callers in the lock beside whom another one was told nil

jobVars == <<key, fence, late, call, job, gauge, told, beaten>>

\* A caller has the Holder of Acquire, or leaves it to a helper.
Ways == {"Holder", "helper"}
Job == [via : Ways, ended : BOOLEAN]
NoJob == [via |-> "Holder", ended |-> FALSE]

ASSUME ProcAssumption == ProcOf \in [Callers -> Processes] /\ IsFiniteSet(Callers)

\* Callers without a call have no job; a gauge never falls below zero.
JobTypeOK ==
    /\ job \in [Callers -> Job]
    /\ \A c \in Callers : At(c, "idle") => job[c] = NoJob
    /\ gauge \in [Processes -> Nat]
    /\ told \subseteq Callers
    /\ beaten \subseteq Callers

JobInit ==
    /\ Init
    /\ job = [c \in Callers |-> NoJob]
    /\ gauge = [p \in Processes |-> 0]
    /\ told = {}
    /\ beaten = {}

recordActive(c, delta) == gauge' = [gauge EXCEPT ![ProcOf[c]] = @ + delta]

\* The call of c, and with it the use of its context, ends with an error or nil.
Returns(c, err) ==
    /\ job' = [job EXCEPT ![c] = NoJob]
    /\ told' = IF err = "nil" THEN {c} ELSE {}

\* The context that was given to Acquire has not ended.
Alive(c) == ~job[c].ended

\* Nobody's call ends.
GoesOn == told' = {} /\ UNCHANGED job

-----------------------------------------------------------------------------
(* Acquire *)

Begin(c) ==
    /\ Acquire(c)
    /\ \E w \in Ways : job' = [job EXCEPT ![c].via = w]
    /\ told' = {}
    /\ UNCHANGED gauge

Set(c) == SetNX(c) /\ Alive(c) /\ GoesOn /\ UNCHANGED gauge

RefusedUncounts(c) ==
    /\ SetNXRefused(c) /\ Alive(c)
    /\ IF At(c, "idle")' THEN Returns(c, "ErrLocked") /\ recordActive(c, -1)
                         ELSE GoesOn /\ UNCHANGED gauge

\* ErrLocked when no slot is left: the body does not run, the gauge stays.
Refused(c) ==
    /\ SetNXRefused(c) /\ Alive(c)
    /\ IF At(c, "idle")' THEN Returns(c, "ErrLocked") ELSE GoesOn
    /\ UNCHANGED gauge

\* A command whose context has ended is not sent.
NotSent(c) == job[c].ended => late' = late

SetError(c) == SetNXError(c) /\ NotSent(c) /\ Returns(c, "error") /\ UNCHANGED gauge

\* The deferred hook of acquire counts the new Holder; the body starts.
Acquired(c) ==
    /\ \/ Incr(c) /\ Alive(c)
       \/ IncrError(c) /\ (job[c].ended => fence' = fence)
    /\ recordActive(c, 1)
    /\ GoesOn

-----------------------------------------------------------------------------
(* The body *)

\* Only a caller that has the Holder itself can extend its lease.
Renew(c) ==
    /\ Extend(c) \/ ExtendError(c)
    /\ job[c].via = "Holder"
    /\ GoesOn /\ UNCHANGED gauge

\* How a body ends: WithLock runs fn, which may return an error or panic; to
\* the adapters it is the caller's own business.
bodyResults(c) == IF job[c].via = "helper" THEN {"nil", "error", "panic"} ELSE {"nil"}

releaseResultUnchecked(c) == "nil"

\* What ReleaseContext returns when the script was executed.
releaseResult(c) ==
    IF Matches(SlotOf(c), call[c].val) THEN "nil" ELSE "ErrLockLost"

\* The error of the body wins over the error of Release.
result(fn, rel) == IF fn # "nil" THEN fn ELSE rel

\* Release at the end of the body, whatever its result ...
Finish(c) ==
    /\ Release(c) /\ Alive(c)
    /\ recordActive(c, -1)
    /\ \E fn \in bodyResults(c) : Returns(c, result(fn, releaseResult(c)))

FinishErrorUnrecorded(c) ==
    /\ ReleaseError(c) /\ NotSent(c)
    /\ UNCHANGED gauge
    /\ \E fn \in bodyResults(c) : Returns(c, result(fn, "error"))

\* ... and when Release fails, which it does with a context that has ended.
FinishError(c) ==
    /\ ReleaseError(c) /\ NotSent(c)
    /\ recordActive(c, -1)
    /\ \E fn \in bodyResults(c) : Returns(c, result(fn, "error"))

-----------------------------------------------------------------------------
(* Contexts and processes *)

\* The context of a helper ends.  That of the others matters to one command
\* only, whose failure is SetNXError or IncrError.
EndContext(c) ==
    /\ "command" \in Faults /\ ~At(c, "idle") /\ job[c].via # "Holder" /\ Alive(c)
    /\ job' = [job EXCEPT ![c].ended = TRUE]
    /\ told' = {}
    /\ UNCHANGED <<key, fence, late, call, gauge>>

\* A process starts again with a gauge of zero.
Die(p) ==
    LET S == {c \in Callers : ProcOf[c] = p}
    IN  /\ Crash(S)
        /\ job' = [c \in Callers |-> IF c \in S THEN NoJob ELSE job[c]]
        /\ gauge' = [gauge EXCEPT ![p] = 0]
        /\ told' = {}

Clock == Tick /\ GoesOn /\ UNCHANGED gauge

\* A command arrives after its caller gave up on it, or never.
LateCommand(m) == (Deliver(m) \/ Drop(m)) /\ GoesOn /\ UNCHANGED gauge

JobStep ==
    \/ \E c \in Callers :
        \/ Begin(c) \/ Set(c) \/ Refused(c) \/ SetError(c) \/ Acquired(c)
        \/ Renew(c) \/ Finish(c) \/ FinishError(c) \/ EndContext(c)
    \/ \E p \in Processes : Die(p)
    \/ \E m \in late : LateCommand(m)
    \/ Clock

\* c leaves the lock in this step and is told nil.
ToldNil(c) == Active(c) /\ c \in told'

\* Observes the others who are in the lock when a caller is told nil.
Observe ==
    beaten' = {d \in Callers :
                  /\ Active(d) /\ Active(d)'
                  /\ \/ d \in beaten
                     \/ \E c \in Callers \ {d} : ToldNil(c) /\ SlotOf(c) = SlotOf(d)}

JobNext == JobStep /\ Observe

JobSpec == JobInit /\ [][JobNext]_jobVars

\* The server's clock does not stop, and a caller between SETNX and INCR, for
\* whom it waits at the labels outside Overrun, gets on.
FairJobSpec ==
    /\ JobSpec
    /\ SF_jobVars(Clock /\ Observe)
    /\ \A c \in Callers : WF_jobVars(Acquired(c) /\ Observe)

-----------------------------------------------------------------------------
(* Properties *)

\* Of all callers who were in one slot at the same time, because a lease ran
\* out, at most one is told nil: the others learn from Release, or from
\* WithLock, that they were not alone.  Release is the first one of a Holder:
\* a second one answers nil whatever the first one said.
OneNil == [][\A c \in beaten : c \notin told']_jobVars

\* The gauge of active locks is the number of Holders that were not released,
\* however an Acquire, a body or a Release ends.
GaugeExact ==
    \A p \in Processes :
        gauge[p] = Cardinality({c \in Callers : ProcOf[c] = p /\ At(c, "held")})
===============================================================================
