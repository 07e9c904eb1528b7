---------------------------- MODULE WithLockProofs ----------------------------
(* Theorems about the helpers, for every number of callers and processes:   *)
(* they use the backend as any other caller does, what they tell their      *)
(* callers can be relied on, and the gauge is exact.                        *)
EXTENDS WithLock, RedisLockProofs

(* Every step of a helper is a step of the backend's clients. *)
LEMMA JobIsClient ==
  ASSUME [JobNext]_jobVars
  PROVE  [Next]_vars
<1>1. ASSUME NEW c \in Callers, Begin(c) PROVE Next
  BY <1>1 DEF Begin, Next
<1>2. ASSUME NEW c \in Callers, Set(c) PROVE Next
  BY <1>2 DEF Set, Next
<1>3. ASSUME NEW c \in Callers, Refused(c) PROVE Next
  BY <1>3 DEF Refused, Next
<1>4. ASSUME NEW c \in Callers, SetError(c) PROVE Next
  BY <1>4 DEF SetError, Next
<1>5. ASSUME NEW c \in Callers, Acquired(c) PROVE Next
  BY <1>5 DEF Acquired, Next
<1>6. ASSUME NEW c \in Callers, Renew(c) PROVE Next
  BY <1>6 DEF Renew, Next
<1>7. ASSUME NEW c \in Callers, Finish(c) PROVE Next
  BY <1>7 DEF Finish, Next
<1>8. ASSUME NEW c \in Callers, FinishError(c) PROVE Next
  BY <1>8 DEF FinishError, Next
<1>9. ASSUME NEW c \in Callers, EndContext(c) PROVE UNCHANGED vars
  BY <1>9 DEF EndContext, vars
<1>10. ASSUME NEW p \in Processes, Die(p) PROVE Next
  BY <1>10 DEF Die, Next
<1>11. ASSUME NEW m \in late, LateCommand(m) PROVE Next
  BY <1>11 DEF LateCommand, Next
<1>12. CASE Clock
  BY <1>12 DEF Clock, Next
<1>13. CASE UNCHANGED jobVars
  BY <1>13 DEF jobVars, vars
<1> QED BY <1>1, <1>2, <1>3, <1>4, <1>5, <1>6, <1>7, <1>8, <1>9, <1>10, <1>11, <1>12, <1>13
        DEF JobNext, JobStep

(* The helpers, the adapters and the gauge add no step to the backend: what  *)
(* is proved of RedisLock holds for their callers too.                       *)
THEOREM HelpersAreClients == JobSpec => Spec
<1>1. JobInit => Init
  BY DEF JobInit
<1>2. [JobNext]_jobVars => [Next]_vars
  BY JobIsClient
<1> QED BY <1>1, <1>2, PTL DEF JobSpec, Spec

-----------------------------------------------------------------------------
(* Callers who were beaten have lost their key for good. *)
BeatenLost == \A d \in beaten : d \in Callers /\ Active(d) /\ ~Owns(d)
NilInv == LeaseInv /\ BeatenLost

(* Whoever is told nil owns its key until then, and no key is left on its slot. *)
LEMMA NilOwned ==
  ASSUME TypeOK, JobStep, NEW c \in Callers, ToldNil(c)
  PROVE  Owns(c) /\ key'[SlotOf(c)] = NoKey
<1>1. told' # {} /\ c \in told' /\ Active(c)
  BY DEF ToldNil
<1>2. ASSUME NEW d \in Callers, Returns(d, "ErrLocked") \/ Returns(d, "error")
      PROVE  FALSE
  BY <1>1, <1>2 DEF Returns
<1>3. \A d \in Callers : ~Begin(d) /\ ~Set(d) /\ ~Acquired(d) /\ ~Renew(d) /\ ~EndContext(d)
  BY <1>1 DEF Begin, Set, Acquired, Renew, EndContext, GoesOn
<1>4. \A d \in Callers : ~Refused(d) /\ ~SetError(d)
  BY <1>1, <1>2 DEF Refused, SetError, GoesOn
<1>5. \A d \in Callers : ~FinishError(d)
  <2>1. ASSUME NEW d \in Callers, FinishError(d) PROVE FALSE
    <3>1. PICK fn : Returns(d, result(fn, "error"))
      BY <2>1 DEF FinishError
    <3>2. result(fn, "error") # "nil"
      BY DEF result
    <3> QED BY <1>1, <3>1, <3>2 DEF Returns
  <2> QED BY <2>1
<1>6. ~Clock /\ (\A p \in Processes : ~Die(p)) /\ (\A m \in late : ~LateCommand(m))
  BY <1>1 DEF Clock, Die, LateCommand, GoesOn
<1>7. PICK d \in Callers : Finish(d)
  BY <1>3, <1>4, <1>5, <1>6 DEF JobStep
<1>8. PICK fn : Returns(d, result(fn, releaseResult(d)))
  BY <1>7 DEF Finish
<1>9. d = c /\ result(fn, releaseResult(d)) = "nil"
  BY <1>1, <1>8 DEF Returns
<1>10. releaseResult(c) = "nil"
  BY <1>9 DEF result
<1>11. Matches(SlotOf(c), call[c].val)
  BY <1>10 DEF releaseResult
<1>12. key'[SlotOf(c)] = NoKey
  BY <1>7, <1>9, <1>11 DEF Finish, Release, releaseScript, SlotOf, TypeOK, Call
<1> QED BY <1>1, <1>11, <1>12 DEF Owns

(* Callers who were beaten stay without their key. *)
LEMMA BeatenStep ==
  ASSUME TTL # 0, NilInv, [JobNext]_jobVars
  PROVE  NilInv'
<1>0. [Next]_vars /\ LeaseInv /\ LeaseInv' /\ TypeOK /\ TypeOK' /\ UniqueValues
  BY JobIsClient, LeaseInvStep DEF NilInv, LeaseInv
<1> USE <1>0
<1>1. ASSUME NEW d \in Callers, Active(d), Active(d)', ~Owns(d) PROVE ~Owns(d)'
  <2>1. CASE call'[d] = call[d]
    BY <1>1, <2>1, LeaseStep
  <2>2. CASE Incr(d) \/ IncrError(d)
    BY <1>1, <2>2, DrawStep
  <2>3. ~SetNX(d)
    BY <1>1 DEF SetNX, At, Active
  <2> QED BY <1>1, <2>1, <2>2, <2>3, CallerStep
<1>2. CASE UNCHANGED jobVars
  BY <1>1, <1>2 DEF NilInv, BeatenLost, jobVars, Active
<1>3. CASE JobNext
  <2> SUFFICES ASSUME NEW d \in beaten' PROVE d \in Callers /\ Active(d)' /\ ~Owns(d)'
    BY DEF NilInv, BeatenLost
  <2>1. /\ d \in Callers /\ Active(d) /\ Active(d)'
        /\ d \in beaten \/ \E c \in Callers \ {d} : ToldNil(c) /\ SlotOf(c) = SlotOf(d)
    BY <1>3 DEF JobNext, Observe
  <2>2. ~Owns(d)
    <3>1. CASE d \in beaten
      BY <3>1 DEF NilInv, BeatenLost
    <3>2. ASSUME NEW c \in Callers \ {d}, ToldNil(c), SlotOf(c) = SlotOf(d) PROVE ~Owns(d)
      <4>1. Owns(c)
        BY <1>3, <3>2, NilOwned DEF JobNext
      <4> QED BY <2>1, <3>2, <4>1, OneOwner
    <3> QED BY <2>1, <3>1, <3>2
  <2> QED BY <1>1, <2>1, <2>2
<1> QED BY <1>2, <1>3

(* With a TTL, of all callers who were in one slot at the same time at most   *)
(* one is told nil by WithLock or Release, however many leases run out and    *)
(* however late commands arrive.                                              *)
THEOREM AtMostOneNil == TTL # 0 => (JobSpec => OneNil)
<1> SUFFICES ASSUME TTL # 0 PROVE JobSpec => OneNil
  OBVIOUS
<1>1. JobInit => NilInv
  BY TypeInit DEF JobInit, Init, NilInv, BeatenLost, LeaseInv, UniqueValues, Active, Idle
<1>2. NilInv /\ [JobNext]_jobVars => NilInv'
  BY BeatenStep
<1>3. NilInv /\ [JobNext]_jobVars => [\A c \in beaten : c \notin told']_jobVars
  <2> SUFFICES ASSUME NilInv, JobNext, NEW c \in beaten, c \in told' PROVE FALSE
    BY DEF jobVars
  <2>1. c \in Callers /\ Active(c) /\ ~Owns(c) /\ TypeOK
    BY DEF NilInv, BeatenLost, LeaseInv
  <2> QED BY <2>1, NilOwned DEF JobNext, ToldNil
<1> QED BY <1>1, <1>2, <1>3, PTL DEF JobSpec, OneNil

-----------------------------------------------------------------------------
(* The gauge.  Held(p): the Holders of a process that were not released.     *)
Held(p) == {c \in Callers : ProcOf[c] = p /\ At(c, "held")}
GaugeInv == TypeOK /\ ValueKnown /\ gauge \in [Processes -> Nat] /\ GaugeExact

(* One Holder more, or one less, and as much on the gauge of its process. *)
LEMMA GaugeMoves ==
  ASSUME GaugeInv, NEW c \in Callers, \A d \in Callers \ {c} : call'[d] = call[d],
         \/ ~At(c, "held") /\ At(c, "held")' /\ recordActive(c, 1)
         \/ At(c, "held") /\ ~At(c, "held")' /\ recordActive(c, -1)
  PROVE  gauge' \in [Processes -> Nat] /\ GaugeExact'
<1> USE ProcAssumption
<1>1. \A p \in Processes : gauge[p] = Cardinality(Held(p)) /\ IsFiniteSet(Held(p))
  <2>1. \A p : Held(p) \subseteq Callers
    BY DEF Held
  <2>2. \A p : IsFiniteSet(Held(p))
    BY <2>1, FS_Subset
  <2> QED BY <2>2 DEF GaugeInv, GaugeExact, Held
<1>2. ProcOf[c] \in Processes /\ gauge \in [Processes -> Nat]
  BY DEF GaugeInv
<1>3. \A p \in Processes \ {ProcOf[c]} : Held(p)' = Held(p)
  BY DEF Held, At
<1>4. \A d \in Callers \ {c} : At(d, "held")' <=> At(d, "held")
  BY DEF At
<1>5. CASE ~At(c, "held") /\ At(c, "held")' /\ recordActive(c, 1)
  <2>1. Held(ProcOf[c])' = Held(ProcOf[c]) \cup {c} /\ c \notin Held(ProcOf[c])
    BY <1>4, <1>5 DEF Held
  <2>2. Cardinality(Held(ProcOf[c])') = Cardinality(Held(ProcOf[c])) + 1
    BY <1>1, <1>2, <2>1, FS_AddElement
  <2>3. gauge' = [gauge EXCEPT ![ProcOf[c]] = @ + 1]
    BY <1>5 DEF recordActive
  <2>4. gauge' \in [Processes -> Nat]
    BY <1>2, <2>3
  <2>5. \A p \in Processes : gauge'[p] = Cardinality(Held(p)')
    BY <1>1, <1>2, <1>3, <2>2, <2>3
  <2> QED BY <2>4, <2>5 DEF GaugeExact, Held
<1>6. CASE At(c, "held") /\ ~At(c, "held")' /\ recordActive(c, -1)
  <2>1. Held(ProcOf[c])' = Held(ProcOf[c]) \ {c} /\ c \in Held(ProcOf[c])
    BY <1>4, <1>6 DEF Held
  <2>2. Cardinality(Held(ProcOf[c])') = Cardinality(Held(ProcOf[c])) - 1
    BY <1>1, <1>2, <2>1, FS_RemoveElement
  <2>3. gauge' = [gauge EXCEPT ![ProcOf[c]] = @ + (-1)]
    BY <1>6 DEF recordActive
  <2>4. Cardinality(Held(ProcOf[c])') \in Nat
    BY <1>1, <1>2, <2>1, FS_RemoveElement, FS_CardinalityType
  <2>5. \A p \in Processes : gauge'[p] = Cardinality(Held(p)')
    BY <1>1, <1>2, <1>3, <2>2, <2>3
  <2>6. gauge' \in [Processes -> Nat]
    BY <1>2, <2>2, <2>3, <2>4, <1>1
  <2> QED BY <2>5, <2>6 DEF GaugeExact, Held
<1> QED BY <1>5, <1>6

(* A step that releases and acquires nothing leaves the gauges exact. *)
LEMMA GaugeStays ==
  ASSUME GaugeInv, gauge' = gauge, \A d \in Callers : At(d, "held")' <=> At(d, "held")
  PROVE  gauge' \in [Processes -> Nat] /\ GaugeExact'
<1>1. \A p \in Processes : Held(p)' = Held(p)
  BY DEF Held
<1> QED BY <1>1 DEF GaugeInv, GaugeExact, Held

(* Every step keeps the gauges exact, those of failing calls included. *)
LEMMA GaugeStep ==
  ASSUME GaugeInv, [JobNext]_jobVars
  PROVE  GaugeInv'
<1>0. TypeOK /\ TypeOK' /\ ValueKnown /\ ValueKnown'
  BY JobIsClient, TypeStep DEF GaugeInv
<1> USE <1>0
<1> DEFINE Good == gauge' \in [Processes -> Nat] /\ GaugeExact'
<1> SUFFICES Good
  BY DEF GaugeInv
<1>1. ASSUME NEW c \in Callers, Begin(c) PROVE Good
  BY <1>1, GaugeStays DEF Begin, Acquire, At, TypeOK, Call
<1>2. ASSUME NEW c \in Callers, Set(c) PROVE Good
  <2>1. PICK v : call' = [call EXCEPT ![c].pc = "incr", ![c].val = v]
    BY <1>2 DEF Set, SetNX
  <2>2. \A d \in Callers : At(d, "held")' <=> At(d, "held")
    BY <1>2, <2>1 DEF Set, SetNX, At, TypeOK, Call
  <2> QED BY <1>2, <2>2, GaugeStays DEF Set
<1>3. ASSUME NEW c \in Callers, At(c, "setnx"), call' = [call EXCEPT ![c] = Idle], gauge' = gauge
      PROVE  Good
  BY <1>3, GaugeStays DEF At, Idle, TypeOK, Call
<1>4. ASSUME NEW c \in Callers, Refused(c) PROVE Good
  <2>1. CASE SlotOf(c) + 1 \in Slots
    <3>1. \A d \in Callers : At(d, "held")' <=> At(d, "held")
      BY <1>4, <2>1 DEF Refused, SetNXRefused, NextSlot, At, TypeOK, Call
    <3> QED BY <1>4, <3>1, GaugeStays DEF Refused
  <2>2. CASE SlotOf(c) + 1 \notin Slots
    BY <1>3, <1>4, <2>2 DEF Refused, SetNXRefused, NextSlot
  <2> QED BY <2>1, <2>2
<1>5. ASSUME NEW c \in Callers, SetError(c) PROVE Good
  BY <1>3, <1>5 DEF SetError, SetNXError
<1>6. ASSUME NEW c \in Callers, Acquired(c) PROVE Good
  <2>1. PICK t : call' = [call EXCEPT ![c].pc = "held", ![c].token = t]
    BY <1>6, Zenon DEF Acquired, Incr, IncrError
  <2>2. ~At(c, "held") /\ recordActive(c, 1)
    BY <1>6 DEF Acquired, Incr, IncrError, At
  <2>3. At(c, "held")' /\ \A d \in Callers \ {c} : call'[d] = call[d]
    BY <2>1 DEF At, TypeOK, Call
  <2> QED BY <2>2, <2>3, GaugeMoves
<1>7. ASSUME NEW c \in Callers, Renew(c) PROVE Good
  BY <1>7, GaugeStays DEF Renew, Extend, ExtendError, At
<1>8. ASSUME NEW c \in Callers, Finish(c) \/ FinishError(c) PROVE Good
  <2>1. At(c, "held") /\ recordActive(c, -1) /\ call' = [call EXCEPT ![c] = Idle]
    BY <1>8 DEF Finish, FinishError, Release, ReleaseError
  <2>2. ~At(c, "held")' /\ \A d \in Callers \ {c} : call'[d] = call[d]
    BY <2>1 DEF At, Idle, TypeOK
  <2> QED BY <2>1, <2>2, GaugeMoves
<1>9. ASSUME NEW c \in Callers, EndContext(c) PROVE Good
  BY <1>9, GaugeStays DEF EndContext, At
<1>10. ASSUME NEW p \in Processes, Die(p) PROVE Good
  <2>1. /\ gauge' = [gauge EXCEPT ![p] = 0]
        /\ call' = [c \in Callers |-> IF ProcOf[c] = p THEN Idle ELSE call[c]]
    BY <1>10 DEF Die, Crash
  <2>2. Held(p)' = {}
    BY <2>1 DEF Held, At, Idle
  <2>3. \A q \in Processes \ {p} : Held(q)' = Held(q)
    BY <2>1 DEF Held, At
  <2>4. Cardinality(Held(p)') = 0
    BY <2>2, FS_EmptySet
  <2>5. gauge \in [Processes -> Nat] /\ \A q \in Processes : gauge[q] = Cardinality(Held(q))
    BY DEF GaugeInv, GaugeExact, Held
  <2>6. gauge' \in [Processes -> Nat] /\ \A q \in Processes : gauge'[q] = Cardinality(Held(q)')
    BY <2>1, <2>3, <2>4, <2>5
  <2> QED BY <2>6 DEF GaugeExact, Held
<1>11. ASSUME NEW m \in late, LateCommand(m) PROVE Good
  BY <1>11, GaugeStays DEF LateCommand, Deliver, Drop, At
<1>12. CASE Clock
  BY <1>12, GaugeStays DEF Clock, Tick, At
<1>13. CASE UNCHANGED jobVars
  BY <1>13, GaugeStays DEF jobVars, At
<1> QED BY <1>1, <1>2, <1>4, <1>5, <1>6, <1>7, <1>8, <1>9, <1>10, <1>11, <1>12, <1>13
        DEF JobNext, JobStep

(* Nobody holds the lock yet. *)
LEMMA GaugeInit == JobInit => GaugeInv
<1> SUFFICES ASSUME JobInit PROVE GaugeInv
  OBVIOUS
<1>1. TypeOK /\ ValueKnown
  BY TypeInit DEF JobInit
<1>2. \A p \in Processes : Held(p) = {}
  BY DEF JobInit, Init, Held, At, Idle
<1>3. Cardinality({}) = 0
  BY FS_EmptySet
<1> QED BY <1>1, <1>2, <1>3 DEF JobInit, GaugeInv, GaugeExact, Held

(* The gauge of active locks is always the number of Holders that the process *)
(* has not released, whatever fails, panics or is killed.                     *)
THEOREM GaugeCorrect == JobSpec => []GaugeExact
<1>1. JobInit => GaugeInv
  BY GaugeInit
<1>2. GaugeInv /\ [JobNext]_jobVars => GaugeInv'
  BY GaugeStep
<1>3. GaugeInv => GaugeExact
  BY DEF GaugeInv
<1> QED BY <1>1, <1>2, <1>3, PTL DEF JobSpec

-----------------------------------------------------------------------------
(* Every step keeps the jobs well-typed, and leaves none to a caller without *)
(* a call.                                                                   *)
LEMMA JobTypeStep ==
  ASSUME TypeOK, JobTypeOK, gauge' \in [Processes -> Nat], [JobNext]_jobVars
  PROVE  JobTypeOK'
<1>0. beaten' \subseteq Callers /\ NoJob \in Job
  BY DEF JobNext, Observe, jobVars, JobTypeOK, NoJob, Job, Ways
<1> USE <1>0
<1> DEFINE Good == /\ job' \in [Callers -> Job] /\ told' \subseteq Callers
                   /\ \A d \in Callers : At(d, "idle")' => job'[d] = NoJob
<1> SUFFICES Good
  BY DEF JobTypeOK
<1>1. ASSUME job' = job, told' \subseteq Callers,
             \A d \in Callers : At(d, "idle")' => At(d, "idle")
      PROVE  Good
  BY <1>1 DEF JobTypeOK
<1>2. ASSUME NEW c \in Callers, job' = [job EXCEPT ![c] = NoJob], told' \subseteq Callers,
             \A d \in Callers \ {c} : At(d, "idle")' => At(d, "idle")
      PROVE  Good
  BY <1>2 DEF JobTypeOK
<1>3. ASSUME NEW c \in Callers, NEW err, Returns(c, err), call' = [call EXCEPT ![c] = Idle]
      PROVE  Good
  <2>1. \A d \in Callers \ {c} : At(d, "idle")' => At(d, "idle")
    BY <1>3 DEF At, TypeOK
  <2> QED BY <1>2, <1>3, <2>1 DEF Returns
<1>4. ASSUME NEW c \in Callers, Begin(c) PROVE Good
  <2>1. PICK w \in Ways : job' = [job EXCEPT ![c].via = w]
    BY <1>4 DEF Begin
  <2>2. job' \in [Callers -> Job] /\ told' = {} /\ \A d \in Callers \ {c} : job'[d] = job[d]
    BY <1>4, <2>1 DEF Begin, JobTypeOK, Job
  <2>3. \A d \in Callers : At(d, "idle")' => d # c /\ At(d, "idle")
    BY <1>4 DEF Begin, Acquire, At, TypeOK, Call
  <2> QED BY <2>2, <2>3 DEF JobTypeOK
<1>5. ASSUME NEW c \in Callers, Set(c) PROVE Good
  <2>1. PICK v : call' = [call EXCEPT ![c].pc = "incr", ![c].val = v]
    BY <1>5 DEF Set, SetNX
  <2>2. \A d \in Callers : At(d, "idle")' => At(d, "idle")
    BY <2>1 DEF At, TypeOK, Call
  <2> QED BY <1>1, <1>5, <2>2 DEF Set, GoesOn
<1>6. ASSUME NEW c \in Callers, Refused(c) PROVE Good
  <2>1. CASE SlotOf(c) + 1 \in Slots
    <3>1. ~At(c, "idle")' /\ \A d \in Callers : At(d, "idle")' => At(d, "idle")
      BY <1>6, <2>1 DEF Refused, SetNXRefused, NextSlot, At, TypeOK, Call
    <3> QED BY <1>1, <1>6, <3>1 DEF Refused, GoesOn
  <2>2. CASE SlotOf(c) + 1 \notin Slots
    <3>1. call' = [call EXCEPT ![c] = Idle]
      BY <1>6, <2>2 DEF Refused, SetNXRefused, NextSlot
    <3>2. At(c, "idle")'
      BY <3>1 DEF At, Idle, TypeOK
    <3> QED BY <1>3, <1>6, <3>1, <3>2 DEF Refused
  <2> QED BY <2>1, <2>2
<1>7. ASSUME NEW c \in Callers, SetError(c) PROVE Good
  BY <1>3, <1>7 DEF SetError, SetNXError
<1>8. ASSUME NEW c \in Callers, Acquired(c) PROVE Good
  <2>1. PICK t : call' = [call EXCEPT ![c].pc = "held", ![c].token = t]
    BY <1>8, Zenon DEF Acquired, Incr, IncrError
  <2>2. \A d \in Callers : At(d, "idle")' => At(d, "idle")
    BY <2>1 DEF At, TypeOK, Call
  <2> QED BY <1>1, <1>8, <2>2 DEF Acquired, GoesOn
<1>9. ASSUME NEW c \in Callers, Renew(c) PROVE Good
  BY <1>1, <1>9 DEF Renew, Extend, ExtendError, GoesOn, At
<1>10. ASSUME NEW c \in Callers, Finish(c) PROVE Good
  BY <1>3, <1>10 DEF Finish, Release
<1>11. ASSUME NEW c \in Callers, FinishError(c) PROVE Good
  BY <1>3, <1>11 DEF FinishError, ReleaseError
<1>12. ASSUME NEW c \in Callers, EndContext(c) PROVE Good
  <2>1. job' \in [Callers -> Job] /\ \A d \in Callers \ {c} : job'[d] = job[d]
    BY <1>12 DEF EndContext, JobTypeOK, Job
  <2>2. told' = {} /\ ~At(c, "idle") /\ \A d \in Callers : At(d, "idle")' <=> At(d, "idle")
    BY <1>12 DEF EndContext, At
  <2> QED BY <2>1, <2>2 DEF JobTypeOK
<1>13. ASSUME NEW p \in Processes, Die(p) PROVE Good
  <2>1. /\ job' = [c \in Callers |-> IF ProcOf[c] = p THEN NoJob ELSE job[c]]
        /\ call' = [c \in Callers |-> IF ProcOf[c] = p THEN Idle ELSE call[c]]
        /\ told' = {}
    BY <1>13 DEF Die, Crash
  <2> QED BY <2>1 DEF JobTypeOK, At
<1>14. ASSUME NEW m \in late, LateCommand(m) PROVE Good
  BY <1>1, <1>14 DEF LateCommand, Deliver, Drop, GoesOn, At
<1>15. CASE Clock
  BY <1>1, <1>15 DEF Clock, Tick, GoesOn, At
<1>16. CASE UNCHANGED jobVars
  BY <1>1, <1>16 DEF jobVars, JobTypeOK, At
<1> QED BY <1>4, <1>5, <1>6, <1>7, <1>8, <1>9, <1>10, <1>11, <1>12, <1>13, <1>14, <1>15, <1>16
        DEF JobNext, JobStep

(* Jobs are always well-typed: every way out of a helper ends the job, and no *)
(* gauge falls below zero.                                                    *)
THEOREM JobTypeCorrect == JobSpec => []JobTypeOK
<1> DEFINE Inv == GaugeInv /\ JobTypeOK
<1>1. JobInit => Inv
  BY GaugeInit DEF JobInit, JobTypeOK, NoJob, Job, Ways
<1>2. Inv /\ [JobNext]_jobVars => Inv'
  <2> SUFFICES ASSUME Inv, [JobNext]_jobVars PROVE Inv'
    OBVIOUS
  <2>1. GaugeInv'
    BY GaugeStep
  <2>2. JobTypeOK'
    BY <2>1, JobTypeStep DEF GaugeInv
  <2> QED BY <2>1, <2>2
<1>3. Inv => JobTypeOK
  OBVIOUS
<1> QED BY <1>1, <1>2, <1>3, PTL DEF JobSpec
===============================================================================
