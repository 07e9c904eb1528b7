--------------------------- MODULE FileLockProofs ---------------------------
(* Theorems about FileLock for every set of callers and processes, every    *)
(* limit N and every strategy.                                              *)
EXTENDS FileLock, FiniteSetTheorems, TLAPS

(* The record of a caller without a call is a Call. *)
LEMMA IdleType == Idle \in Call /\ Idle.pc = "idle" /\ Idle.seen = Absent
  BY ConstantsAssumption DEF Idle, Call, Labels, Slots

(* The slot loop stays inside the slots. *)
LEMMA NextSlotType ==
  ASSUME TypeOK, NEW c \in Callers, NextSlot(c)
  PROVE  call' \in [Callers -> Call]
<1>1. SlotOf(c) + 1 < N => SlotOf(c) + 1 \in Slots
  BY ConstantsAssumption DEF TypeOK, SlotOf, Call, Slots
<1>2. SlotOf(c) + 1 < N
      => [Idle EXCEPT !.pc = "create", !.slot = SlotOf(c) + 1] \in Call
  BY <1>1, IdleType DEF Call, Labels
<1> QED BY <1>2, IdleType DEF NextSlot, TypeOK

(* So does the visit of the next marker. *)
LEMMA SweepNextType ==
  ASSUME TypeOK, NEW c \in Callers, NEW rest \in SUBSET Slots, SweepNext(c, rest)
  PROVE  call' \in [Callers -> Call]
<1>1. \A s \in rest :
        [Idle EXCEPT !.pc = "sweepRead", !.slot = s, !.todo = rest \ {s}] \in Call
  BY IdleType DEF Call, Labels
<1> QED BY <1>1, IdleType DEF SweepNext, TypeOK

(* Writing the marker changes no marker but the caller's own. *)
LEMMA WrittenEffect ==
  ASSUME TypeOK, NEW c \in Callers
  PROVE  /\ Written(c) \in [Slots -> Marker \cup {Absent}]
         /\ \A s \in Slots : \/ Written(c)[s] = path[s]
                             \/ path[s].by = c /\ Written(c)[s].by = c
<1>1. CASE path[SlotOf(c)] = [by |-> c, at |-> 0]
  <2>1. Written(c) = [path EXCEPT ![SlotOf(c)].at = now]
    BY <1>1 DEF Written
  <2>2. /\ [path[SlotOf(c)] EXCEPT !.at = now] \in Marker
        /\ [path[SlotOf(c)] EXCEPT !.at = now].by = c
    BY <1>1 DEF Marker, TypeOK
  <2> QED BY <1>1, <2>1, <2>2 DEF TypeOK
<1>2. CASE path[SlotOf(c)] # [by |-> c, at |-> 0]
  BY <1>2 DEF Written, TypeOK
<1> QED BY <1>1, <1>2

(* A step that gives one caller a new record leaves the others alone. *)
LEMMA CallUpdate ==
  ASSUME TypeOK, NEW c \in Callers, NEW r \in Call, call' = [call EXCEPT ![c] = r]
  PROVE  /\ call' \in [Callers -> Call] /\ call'[c] = r
         /\ \A d \in Callers \ {c} : call'[d] = call[d]
  BY DEF TypeOK

(* The records that the steps of a call write are Calls. *)
LEMMA CallRecords ==
  ASSUME NEW r \in Call
  PROVE  /\ \A l \in Labels : [r EXCEPT !.pc = l] \in Call
         /\ \A l \in Labels, m \in Marker \cup {Absent} :
               [r EXCEPT !.seen = m, !.pc = l] \in Call /\ [r EXCEPT !.pc = l, !.seen = m] \in Call
         /\ \A l \in Labels, t \in Nat : /\ [r EXCEPT !.pc = l, !.stamp = t] \in Call
                                       /\ [r EXCEPT !.pc = l, !.prev = t] \in Call
                                       /\ [r EXCEPT !.pc = l, !.token = t] \in Call
<1>1. \A l \in Labels : [r EXCEPT !.pc = l] \in Call
  BY DEF Call
<1>2. \A l \in Labels, m \in Marker \cup {Absent} :
        [r EXCEPT !.seen = m, !.pc = l] \in Call
  BY DEF Call
<1>3. \A l \in Labels, m \in Marker \cup {Absent} :
        [r EXCEPT !.pc = l, !.seen = m] \in Call
  BY DEF Call
<1>4. \A l \in Labels, t \in Nat : [r EXCEPT !.pc = l, !.stamp = t] \in Call
  BY DEF Call
<1>5. \A l \in Labels, t \in Nat : [r EXCEPT !.pc = l, !.prev = t] \in Call
  BY DEF Call
<1>6. \A l \in Labels, t \in Nat : [r EXCEPT !.pc = l, !.token = t] \in Call
  BY DEF Call
<1> QED BY <1>1, <1>2, <1>3, <1>4, <1>5, <1>6

(* The labels that the steps go to. *)
LEMMA LabelTypes ==
  {"create", "write", "read", "retry", "judge", "rename", "fenceRead", "fenceWrite", "held",
   "sweepJudge", "sweepReread", "sweepRemove"} \subseteq Labels
  BY DEF Labels

(* Creating a marker, as TryCreate and RetryCreate do. *)
LEMMA CreateMarkerType ==
  ASSUME TypeOK, NEW c \in Callers, CreateMarker(c)
  PROVE  path' \in [Slots -> Marker \cup {Absent}] /\ call' \in [Callers -> Call]
<1>1. [by |-> c, at |-> 0] \in Marker
  BY DEF Marker
<1>2. path' \in [Slots -> Marker \cup {Absent}]
  BY <1>1 DEF CreateMarker, TypeOK
<1>3. call[c] \in Call
  BY DEF TypeOK
<1>4. [call[c] EXCEPT !.pc = "write"] \in Call
  BY <1>3, CallRecords, LabelTypes
<1> QED BY <1>2, <1>4 DEF CreateMarker, TypeOK

(* Every step keeps the markers, the fence and the calls well-typed. *)
LEMMA TypeStep ==
  ASSUME TypeOK, [Next]_vars
  PROVE  TypeOK'
<1> USE ConstantsAssumption, IdleType
<1>z. ASSUME NEW c \in Callers PROVE call[c] \in Call /\ SlotOf(c) \in Slots
                                    /\ path[SlotOf(c)] \in Marker \cup {Absent}
  BY DEF TypeOK, SlotOf, Call
<1>1. ASSUME NEW c \in Callers, Acquire(c) PROVE TypeOK'
  <2>1. [call[c] EXCEPT !.pc = "create"] \in Call
    BY <1>z, CallRecords, LabelTypes
  <2> QED BY <1>1, <2>1 DEF Acquire, TypeOK
<1>2. ASSUME NEW c \in Callers, TryCreate(c) PROVE TypeOK'
  <2>1. [call[c] EXCEPT !.pc = "read"] \in Call
    BY <1>z, CallRecords, LabelTypes
  <2>2. path' \in [Slots -> Marker \cup {Absent}] /\ call' \in [Callers -> Call]
    BY <1>2, <2>1, CreateMarkerType DEF TryCreate, TypeOK
  <2> QED BY <1>2, <2>2 DEF TryCreate, TypeOK
<1>3. ASSUME NEW c \in Callers, WriteMarker(c) PROVE TypeOK'
  <2>1. [call[c] EXCEPT !.pc = "fenceRead"] \in Call
    BY <1>z, CallRecords, LabelTypes
  <2>2. path' \in [Slots -> Marker \cup {Absent}]
    BY <1>3, WrittenEffect DEF WriteMarker
  <2> QED BY <1>3, <2>1, <2>2 DEF WriteMarker, TypeOK
<1>4. ASSUME NEW c \in Callers, WriteMarkerFails(c) PROVE TypeOK'
  BY <1>4, WrittenEffect DEF WriteMarkerFails, SlotOf, TypeOK
<1>5. ASSUME NEW c \in Callers, ReadMarker(c) PROVE TypeOK'
  <2>1. \A l \in {"retry", "judge"} :
          [call[c] EXCEPT !.seen = path[SlotOf(c)], !.pc = l] \in Call
    BY <1>z, CallRecords, LabelTypes
  <2> QED BY <1>5, <2>1 DEF ReadMarker, TypeOK
<1>6. ASSUME NEW c \in Callers, RetryCreate(c) PROVE TypeOK'
  <2>1. path' \in [Slots -> Marker \cup {Absent}] /\ call' \in [Callers -> Call]
    BY <1>6, CreateMarkerType, NextSlotType DEF RetryCreate, TypeOK
  <2> QED BY <1>6, <2>1 DEF RetryCreate, TypeOK
<1>7. ASSUME NEW c \in Callers, JudgeMarker(c) PROVE TypeOK'
  <2>0. now \in Nat
    BY DEF TypeOK
  <2>1. [call[c] EXCEPT !.pc = "rename", !.stamp = now] \in Call
    BY <1>z, <2>0, CallRecords, LabelTypes
  <2>2. \/ call' = [call EXCEPT ![c] = [call[c] EXCEPT !.pc = "rename", !.stamp = now]]
        \/ NextSlot(c)
    BY <1>7 DEF JudgeMarker
  <2>3. call' \in [Callers -> Call]
    BY <2>1, <2>2, CallUpdate, NextSlotType
  <2> QED BY <1>7, <2>3 DEF JudgeMarker, TypeOK
<1>8. ASSUME NEW c \in Callers, TakeoverRename(c) PROVE TypeOK'
  <2>1. [call[c] EXCEPT !.pc = "fenceRead"] \in Call
    BY <1>z, CallRecords, LabelTypes
  <2>2. [by |-> c, at |-> call[c].stamp] \in Marker
    BY <1>z DEF Marker, Call
  <2> QED BY <1>8, <2>1, <2>2 DEF TakeoverRename, TypeOK
<1>9. ASSUME NEW c \in Callers, AcquireError(c) PROVE TypeOK'
  BY <1>9 DEF AcquireError, TypeOK
<1>10. ASSUME NEW c \in Callers, ReadFence(c) PROVE TypeOK'
  <2>1. \A v \in Nat : [call[c] EXCEPT !.pc = "fenceWrite", !.prev = v] \in Call
    BY <1>z, CallRecords, LabelTypes
  <2>2. PICK v \in Nat : call' = [call EXCEPT ![c].pc = "fenceWrite", ![c].prev = v]
    BY <1>10, Zenon DEF ReadFence, TypeOK
  <2>3. call' \in [Callers -> Call]
    BY <2>1, <2>2 DEF TypeOK
  <2> QED BY <1>10, <2>3 DEF ReadFence, TypeOK
<1>11. ASSUME NEW c \in Callers, WriteFence(c) PROVE TypeOK'
  <2>1. uint64Succ(call[c].prev) \in Nat
    BY DEF uint64Succ, TypeOK, Call
  <2>2. [call[c] EXCEPT !.pc = "held", !.token = uint64Succ(call[c].prev)] \in Call
    BY <1>z, <2>1, CallRecords, LabelTypes
  <2> QED BY <1>11, <2>1, <2>2 DEF WriteFence, TypeOK
<1>12. ASSUME NEW c \in Callers, WriteFenceFails(c) PROVE TypeOK'
  <2>1. [call[c] EXCEPT !.pc = "held"] \in Call
    BY <1>z, CallRecords, LabelTypes
  <2> QED BY <1>12, <2>1 DEF WriteFenceFails, TypeOK
<1>13. ASSUME NEW c \in Callers, Release(c) PROVE TypeOK'
  BY <1>13 DEF Release, SlotOf, TypeOK
<1>14. ASSUME NEW c \in Callers, ReleaseFails(c) PROVE TypeOK'
  BY <1>14 DEF ReleaseFails, TypeOK
<1>15. ASSUME NEW c \in Callers, Sweep(c) PROVE TypeOK'
  BY <1>15, SweepNextType DEF Sweep, TypeOK
<1>16. ASSUME NEW c \in Callers, SweepRead(c) PROVE TypeOK'
  <2>1. call[c].todo \in SUBSET Slots
    BY <1>z DEF Call
  <2>2. [call[c] EXCEPT !.pc = "sweepJudge", !.seen = path[SlotOf(c)]] \in Call
    BY <1>z, CallRecords, LabelTypes
  <2>3. call' \in [Callers -> Call]
    BY <1>16, <2>1, <2>2, SweepNextType DEF SweepRead, TypeOK
  <2> QED BY <1>16, <2>3 DEF SweepRead, TypeOK
<1>17. ASSUME NEW c \in Callers, SweepJudge(c) PROVE TypeOK'
  <2>0. call[c].todo \in SUBSET Slots
    BY <1>z DEF Call
  <2>1. [call[c] EXCEPT !.pc = "sweepReread"] \in Call /\ call[c].todo \in SUBSET Slots
    BY <1>z, <2>0, CallRecords, LabelTypes
  <2>2. CASE isStale(ProcOf[c], call[c].seen)
    BY <1>17, <2>1, <2>2 DEF SweepJudge, TypeOK
  <2>3. CASE ~isStale(ProcOf[c], call[c].seen)
    BY <1>17, <2>1, <2>3, SweepNextType DEF SweepJudge, TypeOK
  <2> QED BY <2>2, <2>3
<1>18. ASSUME NEW c \in Callers, SweepReread(c) PROVE TypeOK'
  <2>0. call[c].todo \in SUBSET Slots
    BY <1>z DEF Call
  <2>1. [call[c] EXCEPT !.pc = "sweepRemove"] \in Call /\ call[c].todo \in SUBSET Slots
    BY <1>z, <2>0, CallRecords, LabelTypes
  <2> QED BY <1>18, <2>1, SweepNextType DEF SweepReread, TypeOK
<1>19. ASSUME NEW c \in Callers, SweepRemove(c) PROVE TypeOK'
  BY <1>19, SweepNextType DEF SweepRemove, SlotOf, TypeOK, Call
<1>20. ASSUME NEW c \in Callers, SweepSkips(c) PROVE TypeOK'
  BY <1>20, SweepNextType DEF SweepSkips, TypeOK, Call
<1>21. ASSUME NEW c \in Callers, SweepStops(c) PROVE TypeOK'
  BY <1>21 DEF SweepStops, TypeOK
<1>22. ASSUME NEW p \in Processes, Crash(p) PROVE TypeOK'
  <2>1. [Idle EXCEPT !.pc = "dead"] \in Call
    BY DEF Call, Labels
  <2> QED BY <1>22, <2>1 DEF Crash, TypeOK
<1>23. ASSUME NEW p \in Processes, Spawn(p) PROVE TypeOK'
  BY <1>23 DEF Spawn, TypeOK
<1>24. CASE Tick
  BY <1>24 DEF Tick, TypeOK
<1>25. CASE UNCHANGED vars
  BY <1>25 DEF vars, TypeOK
<1> QED
  BY <1>1, <1>2, <1>3, <1>4, <1>5, <1>6, <1>7, <1>8, <1>9, <1>10, <1>11, <1>12,
     <1>13, <1>14, <1>15, <1>16, <1>17, <1>18, <1>19, <1>20, <1>21, <1>22, <1>23,
     <1>24, <1>25 DEF Next, Run, Step

(* The state of the marker files, the fence, the processes and the calls is *)
(* always well-typed.                                                       *)
THEOREM TypeCorrect == Spec => []TypeOK
<1>1. Init => TypeOK
  BY ConstantsAssumption, IdleType DEF Init, TypeOK
<1> QED BY <1>1, TypeStep, PTL DEF Spec

-----------------------------------------------------------------------------
(* A live holder is never judged stale.  Whoever holds or reads a marker    *)
(* has to know more: callers in the middle of a call run, a marker was      *)
(* written by a process that has started, pids are unique among those that  *)
(* run, and what a caller judges is a marker and not "no such file".        *)

Judging == {"judge", "rename", "sweepJudge", "sweepReread", "sweepRemove"}

UniquePids ==
  \A p, q \in Processes :
     life[p] = "up" /\ life[q] = "up" /\ MachineOf[p] = MachineOf[q] /\ PidOf[p] = PidOf[q]
     => p = q

CallersRun ==
  \A c \in Callers : call[c].pc \notin {"idle", "dead"} => life[ProcOf[c]] = "up"

WritersStarted ==
  \A s \in Slots : path[s] # Absent => life[ProcOf[path[s].by]] # "unborn"

SeenStarted ==
  \A c \in Callers : call[c].pc \in Judging =>
     call[c].seen \in Marker /\ life[ProcOf[call[c].seen.by]] # "unborn"

LifeInv == TypeOK /\ UniquePids /\ CallersRun /\ WritersStarted /\ SeenStarted /\ JudgedDead

(* The marker of a running process is not stale for any other process. *)
LEMMA LiveNotStale ==
  ASSUME ProbeDecides, UniquePids, NEW p \in Processes, life[p] = "up",
         NEW m \in Marker, life[ProcOf[m.by]] = "up"
  PROVE  ~isStale(p, m)
<1> DEFINE w == ProcOf[m.by]
<1>1. w \in Processes
  BY ConstantsAssumption DEF Marker
<1>2. Strategy = "TimeOnly" => ~timeExpired(m)
  BY ConstantsAssumption DEF ProbeDecides, timeExpired
<1>3. ASSUME HostOf[w] = HostOf[p]
      PROVE  /\ probePID(p, w) # "dead"
             /\ UidOf[p] = UidOf[w] => probePID(p, w) = "alive"
  <2>1. MachineOf[p] = MachineOf[w] /\ (HasStartTime => BootView[p] = BootView[w])
    BY <1>1, <1>3 DEF ProbeDecides, SoundIdentity
  <2>2. Running(p, PidOf[w]) = {w}
    BY <1>1, <2>1 DEF Running, UniquePids
  <2>3. processStartTime(p, w) = processStartTime(w, w)
    BY <2>1 DEF processStartTime
  <2>4. isAlive(p, PidOf[w]) # "dead" /\ (UidOf[p] = UidOf[w] => isAlive(p, PidOf[w]) = "alive")
    BY <2>2 DEF isAlive
  <2> QED BY <2>2, <2>3, <2>4 DEF probePID
<1>4. probeMarker(p, m) # "dead"
  BY <1>3 DEF probeMarker
<1>5. ASSUME Strategy = "PIDFirst", timeExpired(m) PROVE probeMarker(p, m) = "alive"
  <2>1. Probeable
    BY <1>5, ConstantsAssumption DEF ProbeDecides, timeExpired
  <2>2. HostOf[w] = HostOf[p] /\ HostOf[p] # "unknown" /\ UidOf[p] = UidOf[w]
    BY <1>1, <2>1 DEF Probeable
  <2> QED BY <1>3, <1>5, <2>2 DEF probeMarker, timeExpired
<1> QED BY <1>2, <1>4, <1>5 DEF isStale

(* A file that was created and not written yet is not stale either. *)
LEMMA StaleIsWritten ==
  ASSUME NEW p, NEW m, isStale(p, m)
  PROVE  m.at # 0
  BY DEF isStale, probeMarker, timeExpired

(* What ErrLocked, and the move to the next marker, do to the callers. *)
LEMMA NextSlotEffect ==
  ASSUME TypeOK, NEW c \in Callers, NextSlot(c)
  PROVE  /\ \A d \in Callers \ {c} : call'[d] = call[d]
         /\ call'[c].pc \in {"idle", "create"}
  BY IdleType DEF NextSlot, TypeOK, Idle

(* The same for the walk of Sweep: the caller has seen no marker yet. *)
LEMMA SweepNextEffect ==
  ASSUME TypeOK, NEW c \in Callers, NEW rest \in SUBSET Slots, SweepNext(c, rest)
  PROVE  /\ \A d \in Callers \ {c} : call'[d] = call[d]
         /\ call'[c].pc \in {"idle", "sweepRead"}
<1>1. CASE rest = {} /\ call' = [call EXCEPT ![c] = Idle]
  BY <1>1, IdleType DEF TypeOK
<1>2. ASSUME NEW s \in rest,
             call' = [call EXCEPT ![c] = [Idle EXCEPT !.pc = "sweepRead", !.slot = s,
                                                      !.todo = rest \ {s}]]
      PROVE  /\ \A d \in Callers \ {c} : call'[d] = call[d]
             /\ call'[c].pc = "sweepRead"
  BY <1>2 DEF TypeOK, Idle
<1> QED BY <1>1, <1>2 DEF SweepNext

(* The part that all steps of a caller have in common. *)
LEMMA CallerStep ==
  ASSUME LifeInv, TypeOK', NEW c \in Callers,
         life' = life, life[ProcOf[c]] = "up",
         \A d \in Callers \ {c} : call'[d] = call[d],
         \A s \in Slots : path'[s] = path[s] \/ path'[s] = Absent \/ path'[s].by = c,
         call'[c].pc \in Judging =>
            call'[c].seen \in Marker /\ life[ProcOf[call'[c].seen.by]] # "unborn",
         call'[c].pc \in {"rename", "sweepReread", "sweepRemove"} =>
            call'[c].seen.at # 0 /\ life[ProcOf[call'[c].seen.by]] = "dead"
  PROVE  LifeInv'
<1>1. UniquePids'
  BY DEF LifeInv, UniquePids
<1>2. CallersRun'
  BY DEF LifeInv, CallersRun
<1>3. WritersStarted'
  BY DEF LifeInv, WritersStarted
<1>4. SeenStarted'
  BY DEF LifeInv, SeenStarted
<1>5. JudgedDead'
  BY AbsentAssumption DEF LifeInv, JudgedDead, Judging
<1> QED BY <1>1, <1>2, <1>3, <1>4, <1>5 DEF LifeInv

(* A marker that a running process judges stale is the written marker of a  *)
(* dead process.                                                            *)
LEMMA StaleIsDead ==
  ASSUME ProbeDecides, LifeInv, NEW c \in Callers, call[c].pc \in Judging,
         isStale(ProcOf[c], call[c].seen)
  PROVE  call[c].seen.at # 0 /\ life[ProcOf[call[c].seen.by]] = "dead"
<1>1. ProcOf[c] \in Processes /\ life[ProcOf[c]] = "up"
  BY ConstantsAssumption DEF LifeInv, CallersRun, Judging
<1>2. call[c].seen \in Marker /\ life[ProcOf[call[c].seen.by]] # "unborn"
  BY DEF LifeInv, SeenStarted
<1>3. life[ProcOf[call[c].seen.by]] # "up"
  BY <1>1, <1>2, LiveNotStale DEF LifeInv
<1>4. life[ProcOf[call[c].seen.by]] \in {"unborn", "up", "dead"}
  BY <1>2, ConstantsAssumption DEF LifeInv, TypeOK, Marker
<1> QED BY <1>2, <1>3, <1>4, StaleIsWritten

(* Every step preserves the invariant on processes and judgements. *)
LEMMA LifeStep ==
  ASSUME ProbeDecides, LifeInv, [Next]_vars
  PROVE  LifeInv'
<1>0. TypeOK /\ TypeOK'
  BY TypeStep DEF LifeInv
<1> USE <1>0, IdleType, ConstantsAssumption
<1>1. ASSUME NEW c \in Callers, Run(c), path' = path,
             \A d \in Callers \ {c} : call'[d] = call[d],
             call'[c].pc \notin Judging
      PROVE  LifeInv'
  <2>1. life[ProcOf[c]] = "up" /\ life' = life
    BY <1>1 DEF Run, Acquire, Sweep, Step, Release, ReleaseFails, TryCreate, WriteMarker,
       WriteMarkerFails, ReadMarker, RetryCreate, JudgeMarker, TakeoverRename, AcquireError,
       ReadFence, WriteFence, WriteFenceFails, SweepRead, SweepJudge, SweepReread,
       SweepRemove, SweepSkips, SweepStops, At, LifeInv, CallersRun
  <2> QED BY <1>1, <2>1, CallerStep DEF Judging
<1>2. ASSUME NEW c \in Callers, Acquire(c) PROVE LifeInv'
  BY <1>2, <1>1 DEF Acquire, Run, TypeOK, Call, Judging
<1>3. ASSUME NEW c \in Callers, TryCreate(c) PROVE LifeInv'
  <2>1. life[ProcOf[c]] = "up" /\ life' = life
    BY <1>3 DEF TryCreate, At, LifeInv, CallersRun
  <2>2. \A d \in Callers \ {c} : call'[d] = call[d]
    BY <1>3 DEF TryCreate, CreateMarker, TypeOK
  <2>3. call'[c].pc \notin Judging
    BY <1>3 DEF TryCreate, CreateMarker, TypeOK, Call, Judging
  <2>4. \A s \in Slots : path'[s] = path[s] \/ path'[s].by = c
    BY <1>3 DEF TryCreate, CreateMarker, TypeOK
  <2> QED BY <2>1, <2>2, <2>3, <2>4, CallerStep DEF Judging
<1>4. ASSUME NEW c \in Callers, WriteMarker(c) PROVE LifeInv'
  <2>1. life[ProcOf[c]] = "up" /\ life' = life
    BY <1>4 DEF WriteMarker, At, LifeInv, CallersRun
  <2>2. \A d \in Callers \ {c} : call'[d] = call[d]
    BY <1>4 DEF WriteMarker, TypeOK
  <2>3. call'[c].pc \notin Judging
    BY <1>4 DEF WriteMarker, TypeOK, Call, Judging
  <2>4. \A s \in Slots : path'[s] = path[s] \/ path'[s].by = c
    BY <1>4, WrittenEffect DEF WriteMarker
  <2> QED BY <2>1, <2>2, <2>3, <2>4, CallerStep DEF Judging
<1>5. ASSUME NEW c \in Callers, WriteMarkerFails(c) \/ Release(c) PROVE LifeInv'
  <2>1. life[ProcOf[c]] = "up" /\ life' = life
    BY <1>5 DEF WriteMarkerFails, Release, At, LifeInv, CallersRun
  <2>2. (\A d \in Callers \ {c} : call'[d] = call[d]) /\ call'[c].pc \notin Judging
    BY <1>5 DEF WriteMarkerFails, Release, TypeOK, Judging
  <2>3. \A s \in Slots : path'[s] = path[s] \/ path'[s] = Absent \/ path'[s].by = c
    BY <1>5, WrittenEffect DEF WriteMarkerFails, Release, TypeOK
  <2> QED BY <2>1, <2>2, <2>3, CallerStep DEF Judging
<1>6. ASSUME NEW c \in Callers, ReadMarker(c) PROVE LifeInv'
  <2>1. life[ProcOf[c]] = "up" /\ life' = life /\ path' = path
    BY <1>6 DEF ReadMarker, At, LifeInv, CallersRun
  <2>2. \A d \in Callers \ {c} : call'[d] = call[d]
    BY <1>6 DEF ReadMarker, TypeOK
  <2>3. /\ call'[c].pc = IF path[SlotOf(c)] = Absent THEN "retry" ELSE "judge"
        /\ call'[c].seen = path[SlotOf(c)]
    BY <1>6 DEF ReadMarker, TypeOK, Call
  <2>4. SlotOf(c) \in Slots
    BY DEF SlotOf, TypeOK, Call
  <2>5. call'[c].pc \in Judging =>
          call'[c].seen \in Marker /\ life[ProcOf[call'[c].seen.by]] # "unborn"
    BY <2>3, <2>4 DEF Judging, TypeOK, LifeInv, WritersStarted
  <2> QED BY <2>1, <2>2, <2>3, <2>5, CallerStep
<1>7. ASSUME NEW c \in Callers, RetryCreate(c) PROVE LifeInv'
  <2>1. life[ProcOf[c]] = "up" /\ life' = life
    BY <1>7 DEF RetryCreate, At, LifeInv, CallersRun
  <2>2. (\A d \in Callers \ {c} : call'[d] = call[d]) /\ call'[c].pc \notin Judging
    <3>1. CASE CreateMarker(c)
      BY <3>1 DEF CreateMarker, TypeOK, Call, Judging
    <3>2. CASE NextSlot(c)
      BY <3>2, NextSlotEffect DEF Judging
    <3> QED BY <1>7, <3>1, <3>2 DEF RetryCreate
  <2>3. \A s \in Slots : path'[s] = path[s] \/ path'[s].by = c
    BY <1>7 DEF RetryCreate, CreateMarker, TypeOK
  <2> QED BY <2>1, <2>2, <2>3, CallerStep DEF Judging
<1>8. ASSUME NEW c \in Callers, JudgeMarker(c) PROVE LifeInv'
  <2>1. life[ProcOf[c]] = "up" /\ life' = life /\ path' = path /\ call[c].pc \in Judging
    BY <1>8 DEF JudgeMarker, At, LifeInv, CallersRun, Judging
  <2>2. CASE isStale(ProcOf[c], call[c].seen)
    <3>1. call' = [call EXCEPT ![c].pc = "rename", ![c].stamp = now]
      BY <1>8, <2>2 DEF JudgeMarker
    <3>2. /\ \A d \in Callers \ {c} : call'[d] = call[d]
          /\ call'[c].seen = call[c].seen
      BY <3>1 DEF TypeOK, Call
    <3>3. call[c].seen.at # 0 /\ life[ProcOf[call[c].seen.by]] = "dead"
      BY <2>1, <2>2, StaleIsDead
    <3>4. call[c].seen \in Marker
      BY <2>1 DEF LifeInv, SeenStarted
    <3> QED BY <2>1, <3>2, <3>3, <3>4, CallerStep
  <2>3. CASE ~isStale(ProcOf[c], call[c].seen)
    <3>1. NextSlot(c)
      BY <1>8, <2>3 DEF JudgeMarker
    <3> QED BY <2>1, <3>1, NextSlotEffect, CallerStep DEF Judging
  <2> QED BY <2>2, <2>3
<1>9. ASSUME NEW c \in Callers, TakeoverRename(c) PROVE LifeInv'
  <2>1. life[ProcOf[c]] = "up" /\ life' = life
    BY <1>9 DEF TakeoverRename, At, LifeInv, CallersRun
  <2>2. (\A d \in Callers \ {c} : call'[d] = call[d]) /\ call'[c].pc \notin Judging
    BY <1>9 DEF TakeoverRename, TypeOK, Call, Judging
  <2>3. \A s \in Slots : path'[s] = path[s] \/ path'[s].by = c
    BY <1>9 DEF TakeoverRename, TypeOK
  <2> QED BY <2>1, <2>2, <2>3, CallerStep DEF Judging
<1>10. ASSUME NEW c \in Callers,
              AcquireError(c) \/ ReleaseFails(c) \/ SweepStops(c) \/ WriteFenceFails(c)
       PROVE LifeInv'
  <2>1. path' = path /\ (\A d \in Callers \ {c} : call'[d] = call[d])
        /\ call'[c].pc \notin Judging
    BY <1>10 DEF AcquireError, ReleaseFails, SweepStops, WriteFenceFails, TypeOK, Call, Judging
  <2> QED BY <1>10, <2>1, <1>1 DEF Run, Step
<1>11. ASSUME NEW c \in Callers, ReadFence(c) PROVE LifeInv'
  <2>1. PICK v : call' = [call EXCEPT ![c].pc = "fenceWrite", ![c].prev = v]
    BY <1>11, Zenon DEF ReadFence
  <2>2. path' = path /\ (\A d \in Callers \ {c} : call'[d] = call[d])
        /\ call'[c].pc \notin Judging
    BY <1>11, <2>1 DEF ReadFence, TypeOK, Call, Judging
  <2> QED BY <1>11, <2>2, <1>1 DEF Run, Step
<1>12. ASSUME NEW c \in Callers, WriteFence(c) PROVE LifeInv'
  <2>1. path' = path /\ (\A d \in Callers \ {c} : call'[d] = call[d])
        /\ call'[c].pc \notin Judging
    BY <1>12 DEF WriteFence, TypeOK, Call, Judging
  <2> QED BY <1>12, <2>1, <1>1 DEF Run, Step
<1>13. ASSUME NEW c \in Callers, NEW rest \in SUBSET Slots, Run(c), path' = path,
              SweepNext(c, rest)
       PROVE  LifeInv'
  BY <1>13, SweepNextEffect, <1>1 DEF Judging
<1>14. \A c \in Callers : call[c].todo \in SUBSET Slots
  BY DEF TypeOK, Call
<1>15. ASSUME NEW c \in Callers, Sweep(c) PROVE LifeInv'
  BY <1>15, <1>13 DEF Sweep, Run
<1>16. ASSUME NEW c \in Callers, SweepSkips(c) PROVE LifeInv'
  BY <1>16, <1>13, <1>14 DEF SweepSkips, Run, Step
<1>17. ASSUME NEW c \in Callers, SweepRead(c) PROVE LifeInv'
  <2>1. CASE SweepNext(c, call[c].todo)
    BY <1>17, <2>1, <1>13, <1>14 DEF SweepRead, Run, Step
  <2>2. CASE ~SweepNext(c, call[c].todo)
    <3>1. /\ path[SlotOf(c)] # Absent /\ life' = life /\ path' = path
          /\ call' = [call EXCEPT ![c].pc = "sweepJudge", ![c].seen = path[SlotOf(c)]]
      BY <1>17, <2>2 DEF SweepRead
    <3>2. /\ \A d \in Callers \ {c} : call'[d] = call[d]
          /\ call'[c].pc = "sweepJudge" /\ call'[c].seen = path[SlotOf(c)]
      BY <3>1 DEF TypeOK, Call
    <3>3. path[SlotOf(c)] \in Marker /\ life[ProcOf[path[SlotOf(c)].by]] # "unborn"
      BY <3>1 DEF SlotOf, TypeOK, Call, LifeInv, WritersStarted
    <3>4. life[ProcOf[c]] = "up"
      BY <1>17 DEF SweepRead, At, LifeInv, CallersRun
    <3> QED BY <3>1, <3>2, <3>3, <3>4, CallerStep
  <2> QED BY <2>1, <2>2
<1>18. ASSUME NEW c \in Callers, SweepJudge(c) PROVE LifeInv'
  <2>1. CASE SweepNext(c, call[c].todo)
    BY <1>18, <2>1, <1>13, <1>14 DEF SweepJudge, Run, Step
  <2>2. CASE ~SweepNext(c, call[c].todo)
    <3>1. /\ isStale(ProcOf[c], call[c].seen) /\ life' = life /\ path' = path
          /\ call' = [call EXCEPT ![c].pc = "sweepReread"]
      BY <1>18, <2>2 DEF SweepJudge
    <3>2. (\A d \in Callers \ {c} : call'[d] = call[d]) /\ call'[c].seen = call[c].seen
      BY <3>1 DEF TypeOK, Call
    <3>3. call[c].pc \in Judging /\ life[ProcOf[c]] = "up"
      BY <1>18 DEF SweepJudge, At, Judging, LifeInv, CallersRun
    <3>4. call[c].seen.at # 0 /\ life[ProcOf[call[c].seen.by]] = "dead"
      BY <3>1, <3>3, StaleIsDead
    <3>5. call[c].seen \in Marker
      BY <3>3 DEF LifeInv, SeenStarted
    <3> QED BY <3>1, <3>2, <3>3, <3>4, <3>5, CallerStep
  <2> QED BY <2>1, <2>2
<1>19. ASSUME NEW c \in Callers, SweepReread(c) PROVE LifeInv'
  <2>1. CASE SweepNext(c, call[c].todo)
    BY <1>19, <2>1, <1>13, <1>14 DEF SweepReread, Run, Step
  <2>2. CASE ~SweepNext(c, call[c].todo)
    <3>1. /\ life' = life /\ path' = path /\ call[c].pc = "sweepReread"
          /\ call' = [call EXCEPT ![c].pc = "sweepRemove"]
      BY <1>19, <2>2 DEF SweepReread, At
    <3>2. (\A d \in Callers \ {c} : call'[d] = call[d]) /\ call'[c].seen = call[c].seen
      BY <3>1 DEF TypeOK, Call
    <3>3. life[ProcOf[c]] = "up" /\ call[c].seen \in Marker
      BY <3>1 DEF LifeInv, CallersRun, SeenStarted, Judging
    <3>4. call[c].seen.at # 0 /\ life[ProcOf[call[c].seen.by]] = "dead"
      BY <3>1 DEF LifeInv, JudgedDead
    <3> QED BY <3>1, <3>2, <3>3, <3>4, CallerStep
  <2> QED BY <2>1, <2>2
<1>20. ASSUME NEW c \in Callers, SweepRemove(c) PROVE LifeInv'
  <2>1. life[ProcOf[c]] = "up" /\ life' = life
    BY <1>20 DEF SweepRemove, At, LifeInv, CallersRun
  <2>2. (\A d \in Callers \ {c} : call'[d] = call[d]) /\ call'[c].pc \notin Judging
    BY <1>20, <1>14, SweepNextEffect DEF SweepRemove, Judging
  <2>3. \A s \in Slots : path'[s] = path[s] \/ path'[s] = Absent
    BY <1>20 DEF SweepRemove, TypeOK
  <2> QED BY <2>1, <2>2, <2>3, CallerStep DEF Judging
<1>21. ASSUME NEW p \in Processes, Crash(p) PROVE LifeInv'
  <2>1. \A q \in Processes : life'[q] = life[q] \/ (life'[q] = "dead" /\ life[q] = "up")
    BY <1>21 DEF Crash, TypeOK
  <2>2. \A c \in Callers : \/ call'[c].pc = "dead"
                           \/ call'[c] = call[c] /\ life'[ProcOf[c]] = life[ProcOf[c]]
    BY <1>21 DEF Crash, TypeOK, Idle
  <2>3. \A m \in Marker : ProcOf[m.by] \in Processes
    BY DEF Marker
  <2>4. path' = path
    BY <1>21 DEF Crash
  <2>5. UniquePids' /\ CallersRun'
    BY <2>1, <2>2 DEF LifeInv, UniquePids, CallersRun
  <2>6. WritersStarted'
    BY <2>1, <2>3, <2>4 DEF LifeInv, WritersStarted, TypeOK
  <2>7. SeenStarted'
    BY <2>1, <2>2, <2>3 DEF LifeInv, SeenStarted, Judging
  <2>8. JudgedDead'
    BY <2>1, <2>2, <2>3 DEF LifeInv, JudgedDead, SeenStarted, Judging
  <2> QED BY <2>5, <2>6, <2>7, <2>8 DEF LifeInv
<1>22. ASSUME NEW p \in Processes, Spawn(p) PROVE LifeInv'
  <2>1. /\ life[p] = "unborn" /\ path' = path /\ call' = call
        /\ \A q \in Processes : life'[q] = IF q = p THEN "up" ELSE life[q]
    BY <1>22 DEF Spawn, TypeOK
  <2>2. \A m \in Marker : ProcOf[m.by] \in Processes
    BY DEF Marker
  <2>3. UniquePids'
    BY <1>22, <2>1 DEF Spawn, LifeInv, UniquePids
  <2>4. CallersRun' /\ WritersStarted' /\ SeenStarted'
    BY <2>1, <2>2 DEF LifeInv, CallersRun, WritersStarted, SeenStarted, TypeOK
  <2>5. JudgedDead'
    BY <2>1, <2>2 DEF LifeInv, JudgedDead, SeenStarted, Judging
  <2> QED BY <2>3, <2>4, <2>5 DEF LifeInv
<1>23. CASE Tick \/ UNCHANGED vars
  BY <1>23 DEF Tick, vars, LifeInv, UniquePids, CallersRun, WritersStarted, SeenStarted,
     JudgedDead
<1> QED
  BY <1>2, <1>3, <1>4, <1>5, <1>6, <1>7, <1>8, <1>9, <1>10, <1>11, <1>12, <1>15, <1>16,
     <1>17, <1>18, <1>19, <1>20, <1>21, <1>22, <1>23 DEF Next, Run, Step

(* It holds in an empty directory. *)
LEMMA LifeInit == Init => LifeInv
<1> SUFFICES ASSUME Init PROVE LifeInv
  OBVIOUS
<1>1. TypeOK
  BY ConstantsAssumption, IdleType DEF Init, TypeOK
<1>2. \A c \in Callers : call[c].pc = "idle"
  BY IdleType DEF Init
<1>3. UniquePids
  BY PidAssumption DEF Init, UniquePids
<1>4. CallersRun /\ WritersStarted /\ SeenStarted /\ JudgedDead
  BY <1>2 DEF Init, CallersRun, WritersStarted, SeenStarted, JudgedDead, Judging
<1> QED BY <1>1, <1>3, <1>4 DEF LifeInv

(* Where the probe decides, a caller that takes over or sweeps a marker saw *)
(* the complete marker of a process that is dead; however processes die,    *)
(* restart and reuse pids.                                                  *)
THEOREM TakeoverOnlyFromDead == ProbeDecides => (Spec => []JudgedDead)
<1> SUFFICES ASSUME ProbeDecides PROVE Spec => []JudgedDead
  OBVIOUS
<1>2. LifeInv /\ [Next]_vars => LifeInv'
  BY LifeStep
<1>3. LifeInv => JudgedDead
  BY DEF LifeInv
<1> QED BY LifeInit, <1>2, <1>3, PTL DEF Spec

-----------------------------------------------------------------------------
(* Mutual exclusion, as long as no process dies.  The invariant: from the   *)
(* moment the exclusive create succeeded until Release, the path of the     *)
(* slot names the file that this caller created, and the file has been      *)
(* written once the caller has left the label "write".  By JudgedDead       *)
(* nobody can be about to take over or to sweep.                            *)

Owning == {"write", "fenceRead", "fenceWrite", "held"}

OwnersOnDisk ==
  \A c \in Callers : call[c].pc \in Owning =>
     /\ path[SlotOf(c)] # Absent
     /\ path[SlotOf(c)].by = c
     /\ call[c].pc = "write" <=> path[SlotOf(c)].at = 0

NobodyDied == \A p \in Processes : life[p] # "dead"

ExclusionInv == LifeInv /\ NobodyDied /\ OwnersOnDisk

(* While nobody died, nobody is about to take over or to sweep a marker. *)
LEMMA NobodyTakesOver ==
  ASSUME LifeInv, NobodyDied, NEW c \in Callers
  PROVE  call[c].pc \notin {"rename", "sweepReread", "sweepRemove"}
<1> SUFFICES ASSUME call[c].pc \in {"rename", "sweepReread", "sweepRemove"} PROVE FALSE
  OBVIOUS
<1>1. call[c].seen \in Marker /\ life[ProcOf[call[c].seen.by]] = "dead"
  BY DEF LifeInv, SeenStarted, JudgedDead, Judging
<1> QED BY <1>1, ConstantsAssumption DEF NobodyDied, Marker

(* A step of a caller that touches no marker but its own keeps the others.  *)
LEMMA OwnerStep ==
  ASSUME OwnersOnDisk, TypeOK, TypeOK', NEW c \in Callers,
         \A d \in Callers \ {c} : call'[d] = call[d],
         \A s \in Slots : path'[s] = path[s] \/ path[s] = Absent \/ path[s].by = c,
         call'[c].pc \in Owning =>
            /\ path'[call'[c].slot] # Absent
            /\ path'[call'[c].slot].by = c
            /\ call'[c].pc = "write" <=> path'[call'[c].slot].at = 0
  PROVE  OwnersOnDisk'
<1> SUFFICES ASSUME NEW d \in Callers, call'[d].pc \in Owning
             PROVE  /\ path'[call'[d].slot] # Absent
                    /\ path'[call'[d].slot].by = d
                    /\ call'[d].pc = "write" <=> path'[call'[d].slot].at = 0
  BY DEF OwnersOnDisk, SlotOf
<1>1. CASE d = c
  BY <1>1
<1>2. CASE d # c
  <2>1. call'[d] = call[d] /\ call[d].slot \in Slots
    BY <1>2 DEF TypeOK, Call
  <2>2. path'[call[d].slot] = path[call[d].slot]
    BY <1>2, <2>1 DEF OwnersOnDisk, SlotOf
  <2> QED BY <2>1, <2>2 DEF OwnersOnDisk, SlotOf
<1> QED BY <1>1, <1>2

(* Every step preserves the ownership of the markers on the disk. *)
LEMMA ExclusionStep ==
  ASSUME ProbeDecides, CrashAt = {}, ExclusionInv, [Next]_vars
  PROVE  ExclusionInv'
<1>0. LifeInv /\ LifeInv' /\ TypeOK /\ TypeOK' /\ OwnersOnDisk
  BY LifeStep DEF ExclusionInv, LifeInv
<1> USE <1>0, IdleType, ConstantsAssumption
<1>1. NobodyDied' /\ (\A p \in Processes : ~Crash(p))
  <2>1. \A p \in Processes : ~Crash(p)
    BY DEF Crash
  <2>2. ASSUME NEW c \in Callers, Run(c) PROVE life' = life
    BY <2>2 DEF Run, Acquire, Sweep, Step, Release, ReleaseFails, TryCreate, WriteMarker,
       WriteMarkerFails, ReadMarker, RetryCreate, JudgeMarker, TakeoverRename, AcquireError,
       ReadFence, WriteFence, WriteFenceFails, SweepRead, SweepJudge, SweepReread,
       SweepRemove, SweepSkips, SweepStops
  <2>3. ASSUME NEW p \in Processes, Spawn(p) PROVE NobodyDied'
    BY <2>3 DEF Spawn, ExclusionInv, NobodyDied, TypeOK
  <2>4. ASSUME Tick \/ UNCHANGED vars PROVE NobodyDied'
    BY <2>4 DEF Tick, vars, ExclusionInv, NobodyDied
  <2> QED BY <2>1, <2>2, <2>3, <2>4 DEF Next, ExclusionInv, NobodyDied
<1>2. ASSUME NEW c \in Callers, path' = path,
             \A d \in Callers \ {c} : call'[d] = call[d], call'[c].pc \notin Owning
      PROVE  OwnersOnDisk'
  BY <1>2, OwnerStep
<1>3. ASSUME NEW c \in Callers, NextSlot(c), path' = path PROVE OwnersOnDisk'
  BY <1>3, <1>2, NextSlotEffect DEF Owning
<1>4. ASSUME NEW c \in Callers, SweepNext(c, call[c].todo), path' = path PROVE OwnersOnDisk'
  <2>1. call[c].todo \in SUBSET Slots
    BY DEF TypeOK, Call
  <2> QED BY <1>4, <2>1, <1>2, SweepNextEffect DEF Owning
<1>5. ASSUME NEW c \in Callers, CreateMarker(c) PROVE OwnersOnDisk'
  <2>1. \A d \in Callers \ {c} : call'[d] = call[d]
    BY <1>5 DEF CreateMarker, TypeOK
  <2>2. SlotOf(c) \in Slots /\ call'[c].slot = SlotOf(c) /\ call'[c].pc = "write"
    BY <1>5 DEF CreateMarker, SlotOf, TypeOK, Call
  <2>3. path'[SlotOf(c)] = [by |-> c, at |-> 0]
    BY <1>5, <2>2 DEF CreateMarker, TypeOK
  <2>4. path'[SlotOf(c)] # Absent
    BY <2>3, AbsentAssumption DEF Marker
  <2>5. \A s \in Slots : path'[s] = path[s] \/ path[s] = Absent
    BY <1>5 DEF CreateMarker, TypeOK
  <2> QED BY <2>1, <2>2, <2>3, <2>4, <2>5, OwnerStep
<1>6. ASSUME NEW c \in Callers, call[c].pc \in Owning, call'[c].pc \notin Owning,
             \A d \in Callers \ {c} : call'[d] = call[d],
             path' \in {[path EXCEPT ![SlotOf(c)] = Absent], path, Written(c)}
      PROVE  OwnersOnDisk'
  <2>1. path[SlotOf(c)].by = c
    BY <1>6 DEF OwnersOnDisk
  <2>2. \A s \in Slots : path'[s] = path[s] \/ path[s].by = c
    BY <1>6, <2>1, WrittenEffect DEF TypeOK
  <2> QED BY <1>6, <2>2, OwnerStep
<1>7. ASSUME NEW c \in Callers, call[c].pc \in Owning \ {"write"}, path' = path,
             \A d \in Callers \ {c} : call'[d] = call[d],
             call'[c].pc \in Owning \ {"write"}, call'[c].slot = call[c].slot
      PROVE  OwnersOnDisk'
  <2>1. /\ path'[call'[c].slot] # Absent /\ path'[call'[c].slot].by = c
        /\ call'[c].pc = "write" <=> path'[call'[c].slot].at = 0
    BY <1>7 DEF OwnersOnDisk, SlotOf
  <2> QED BY <1>7, <2>1, OwnerStep
<1>8. ASSUME NEW c \in Callers, Acquire(c) PROVE OwnersOnDisk'
  BY <1>8, <1>2 DEF Acquire, TypeOK, Call, Owning
<1>9. ASSUME NEW c \in Callers, TryCreate(c) PROVE OwnersOnDisk'
  <2>1. CASE CreateMarker(c)
    BY <2>1, <1>5
  <2>2. CASE call' = [call EXCEPT ![c].pc = "read"] /\ path' = path
    BY <2>2, <1>2 DEF TypeOK, Call, Owning
  <2> QED BY <1>9, <2>1, <2>2 DEF TryCreate
<1>10. ASSUME NEW c \in Callers, WriteMarker(c) PROVE OwnersOnDisk'
  <2>1. path[SlotOf(c)] # Absent /\ path[SlotOf(c)].by = c /\ path[SlotOf(c)].at = 0
    BY <1>10 DEF WriteMarker, At, OwnersOnDisk, Owning
  <2>2. SlotOf(c) \in Slots /\ path[SlotOf(c)] \in Marker
    BY <2>1 DEF SlotOf, TypeOK, Call
  <2>3. path[SlotOf(c)] = [by |-> c, at |-> 0]
    BY <2>1, <2>2 DEF Marker
  <2>4. path' = [path EXCEPT ![SlotOf(c)].at = now]
    BY <1>10, <2>3 DEF WriteMarker, Written
  <2>5. path'[SlotOf(c)] = [by |-> c, at |-> now]
    BY <2>2, <2>3, <2>4 DEF TypeOK
  <2>6. path'[SlotOf(c)] # Absent /\ path'[SlotOf(c)].at # 0
    BY <2>5, AbsentAssumption DEF Marker, TypeOK
  <2>7. /\ \A d \in Callers \ {c} : call'[d] = call[d]
        /\ call'[c].slot = SlotOf(c) /\ call'[c].pc = "fenceRead"
    BY <1>10 DEF WriteMarker, SlotOf, TypeOK, Call
  <2>8. \A s \in Slots : path'[s] = path[s] \/ path[s].by = c
    BY <2>1, <2>4 DEF TypeOK
  <2> QED BY <2>5, <2>6, <2>7, <2>8, OwnerStep
<1>11. ASSUME NEW c \in Callers, WriteMarkerFails(c) \/ Release(c) PROVE OwnersOnDisk'
  BY <1>11, <1>6 DEF WriteMarkerFails, Release, At, Owning, TypeOK
<1>12. ASSUME NEW c \in Callers, ReadMarker(c) PROVE OwnersOnDisk'
  <2>1. (\A d \in Callers \ {c} : call'[d] = call[d]) /\ call'[c].pc \in {"retry", "judge"}
    BY <1>12 DEF ReadMarker, TypeOK, Call
  <2> QED BY <1>12, <2>1, <1>2 DEF ReadMarker, Owning
<1>13. ASSUME NEW c \in Callers, RetryCreate(c) PROVE OwnersOnDisk'
  BY <1>13, <1>3, <1>5 DEF RetryCreate
<1>14. ASSUME NEW c \in Callers, JudgeMarker(c) PROVE OwnersOnDisk'
  <2>1. CASE NextSlot(c)
    BY <1>14, <2>1, <1>3 DEF JudgeMarker
  <2>2. CASE call' = [call EXCEPT ![c].pc = "rename", ![c].stamp = now]
    BY <1>14, <2>2, <1>2 DEF JudgeMarker, TypeOK, Call, Owning
  <2> QED BY <1>14, <2>1, <2>2 DEF JudgeMarker
<1>15. ASSUME NEW c \in Callers, TakeoverRename(c) \/ SweepReread(c) \/ SweepRemove(c)
       PROVE OwnersOnDisk'
  BY <1>15, NobodyTakesOver DEF TakeoverRename, SweepReread, SweepRemove, At, ExclusionInv
<1>16. ASSUME NEW c \in Callers, AcquireError(c) \/ SweepStops(c) \/ ReleaseFails(c)
       PROVE OwnersOnDisk'
  <2>1. call' = [call EXCEPT ![c] = Idle] /\ path' = path
    BY <1>16 DEF AcquireError, SweepStops, ReleaseFails
  <2> QED BY <2>1, <1>2 DEF Owning, TypeOK
<1>17. ASSUME NEW c \in Callers, ReadFence(c) PROVE OwnersOnDisk'
  <2>1. PICK v : call' = [call EXCEPT ![c].pc = "fenceWrite", ![c].prev = v]
    BY <1>17, Zenon DEF ReadFence
  <2>2. /\ \A d \in Callers \ {c} : call'[d] = call[d]
        /\ call'[c].pc = "fenceWrite" /\ call'[c].slot = call[c].slot
    BY <2>1 DEF TypeOK, Call
  <2> QED BY <1>17, <2>2, <1>7 DEF ReadFence, At, Owning
<1>18. ASSUME NEW c \in Callers, WriteFence(c) \/ WriteFenceFails(c) PROVE OwnersOnDisk'
  <2>1. /\ \A d \in Callers \ {c} : call'[d] = call[d]
        /\ call'[c].pc = "held" /\ call'[c].slot = call[c].slot
    BY <1>18 DEF WriteFence, WriteFenceFails, TypeOK, Call
  <2> QED BY <1>18, <2>1, <1>7 DEF WriteFence, WriteFenceFails, At, Owning
<1>19. ASSUME NEW c \in Callers, Sweep(c) PROVE OwnersOnDisk'
  BY <1>19, <1>2, SweepNextEffect DEF Sweep, Owning
<1>20. ASSUME NEW c \in Callers, SweepRead(c) PROVE OwnersOnDisk'
  <2>1. CASE call' = [call EXCEPT ![c].pc = "sweepJudge", ![c].seen = path[SlotOf(c)]]
    BY <1>20, <2>1, <1>2 DEF SweepRead, TypeOK, Call, Owning
  <2> QED BY <1>20, <2>1, <1>4 DEF SweepRead
<1>21. ASSUME NEW c \in Callers, SweepJudge(c) PROVE OwnersOnDisk'
  <2>1. CASE call' = [call EXCEPT ![c].pc = "sweepReread"]
    BY <1>21, <2>1, <1>2 DEF SweepJudge, TypeOK, Call, Owning
  <2> QED BY <1>21, <2>1, <1>4 DEF SweepJudge
<1>22. ASSUME NEW c \in Callers, SweepSkips(c) PROVE OwnersOnDisk'
  BY <1>22, <1>4 DEF SweepSkips
<1>23. ASSUME NEW p \in Processes, Spawn(p) PROVE OwnersOnDisk'
  BY <1>23 DEF Spawn, OwnersOnDisk, SlotOf
<1>24. ASSUME Tick \/ UNCHANGED vars PROVE OwnersOnDisk'
  BY <1>24 DEF Tick, vars, OwnersOnDisk, SlotOf
<1>25. OwnersOnDisk'
  BY <1>1, <1>8, <1>9, <1>10, <1>11, <1>12, <1>13, <1>14, <1>15, <1>16, <1>17, <1>18,
     <1>19, <1>20, <1>21, <1>22, <1>23, <1>24 DEF Next, Run, Step
<1> QED BY <1>1, <1>25 DEF ExclusionInv

(* Nobody owns a marker in an empty directory. *)
LEMMA ExclusionInit == Init => ExclusionInv
<1> SUFFICES ASSUME Init PROVE ExclusionInv
  OBVIOUS
<1>1. \A c \in Callers : call[c].pc = "idle"
  BY IdleType DEF Init
<1>2. OwnersOnDisk
  BY <1>1 DEF OwnersOnDisk, Owning
<1>3. NobodyDied
  BY DEF Init, NobodyDied
<1> QED BY <1>2, <1>3, LifeInit DEF ExclusionInv

(* N slots have room for N Holders. *)
LEMMA SlotsBoundHolders ==
  ASSUME TypeOK, MutualExclusion
  PROVE  AtMostN
<1> DEFINE f == [c \in Holders |-> SlotOf(c)]
<1>1. f \in [Holders -> Slots]
  BY DEF Holders, SlotOf, TypeOK, Call
<1>2. \A c, d \in Holders : f[c] = f[d] => c = d
  BY DEF MutualExclusion
<1>3. f \in Injection(Holders, Slots)
  BY <1>1, <1>2 DEF Injection, IsInjective
<1>4. IsFiniteSet(Slots) /\ Cardinality(Slots) = N
  BY FS_Interval, ConstantsAssumption DEF Slots
<1>5. Cardinality(Holders) =< Cardinality(Slots)
  BY <1>3, <1>4, FS_Injection
<1> QED BY <1>4, <1>5 DEF AtMostN

(* Where the probe decides, and as long as no process dies while the        *)
(* directory is in use, acquireSlot is exclusive and WithMaxConcurrent(n)   *)
(* is kept, whatever file operations fail: a Holder's marker stays on the   *)
(* disk until its own Release.                                              *)
THEOREM Exclusion ==
  ProbeDecides /\ CrashAt = {}
  => (Spec => [](MutualExclusion /\ HolderKeepsMarker /\ AtMostN))
<1> SUFFICES ASSUME ProbeDecides, CrashAt = {}
             PROVE  Spec => [](MutualExclusion /\ HolderKeepsMarker /\ AtMostN)
  OBVIOUS
<1>1. ExclusionInv /\ [Next]_vars => ExclusionInv'
  BY ExclusionStep
<1>2. ExclusionInv => MutualExclusion /\ HolderKeepsMarker /\ AtMostN
  <2> SUFFICES ASSUME ExclusionInv PROVE MutualExclusion /\ HolderKeepsMarker /\ AtMostN
    OBVIOUS
  <2>1. \A c \in Holders : c \in Callers /\ call[c].pc = "held"
    BY DEF Holders, At
  <2>2. MutualExclusion /\ HolderKeepsMarker
    BY <2>1 DEF ExclusionInv, OwnersOnDisk, Owning, MutualExclusion, HolderKeepsMarker
  <2> QED BY <2>2, SlotsBoundHolders DEF ExclusionInv, LifeInv
<1> QED BY ExclusionInit, <1>1, <1>2, PTL DEF Spec

(* The marker of a Holder stays on the disk, complete and its own, until its *)
(* own Release: the release, the failed write and the Sweep of others, which *)
(* remove whatever the path names, never meet it.                            *)
THEOREM MarkerStays == ProbeDecides /\ CrashAt = {} => (Spec => []HolderKeepsMarker)
<1> SUFFICES ASSUME ProbeDecides, CrashAt = {}
             PROVE  Spec => []HolderKeepsMarker
  OBVIOUS
<1>1. ExclusionInv /\ [Next]_vars => ExclusionInv'
  BY ExclusionStep
<1>2. ExclusionInv => HolderKeepsMarker
  BY DEF ExclusionInv, OwnersOnDisk, Owning, HolderKeepsMarker, Holders, At
<1> QED BY ExclusionInit, <1>1, <1>2, PTL DEF Spec

(* WithMaxConcurrent(n) is kept: the slots have distinct Holders. *)
THEOREM LimitKept == ProbeDecides /\ CrashAt = {} => (Spec => []AtMostN)
<1> SUFFICES ASSUME ProbeDecides, CrashAt = {}
             PROVE  Spec => []AtMostN
  OBVIOUS
<1>1. ExclusionInv /\ [Next]_vars => ExclusionInv'
  BY ExclusionStep
<1>2. ExclusionInv => AtMostN
  <2> SUFFICES ASSUME ExclusionInv PROVE AtMostN
    OBVIOUS
  <2>1. MutualExclusion
    BY DEF ExclusionInv, OwnersOnDisk, Owning, MutualExclusion, Holders, At
  <2> QED BY <2>1, SlotsBoundHolders DEF ExclusionInv, LifeInv
<1> QED BY ExclusionInit, <1>1, <1>2, PTL DEF Spec

-----------------------------------------------------------------------------
(* The control flow of a call: the labels that each step leaves and reaches. *)

Move(c, from, to) ==
  /\ call[c].pc \in from /\ call'[c].pc \in to
  /\ \A d \in Callers \ {c} : call'[d] = call[d]

(* The steps of Acquire and of Release. *)
LEMMA AcquireMoves ==
  ASSUME TypeOK, NEW c \in Callers
  PROVE  /\ Acquire(c) => Move(c, {"idle"}, {"create"})
         /\ TryCreate(c) => Move(c, {"create"}, {"write", "read"})
         /\ WriteMarker(c) => Move(c, {"write"}, {"fenceRead"})
         /\ WriteMarkerFails(c) => Move(c, {"write"}, {"idle"})
         /\ ReadMarker(c) => Move(c, {"read"}, {"retry", "judge"})
         /\ RetryCreate(c) => Move(c, {"retry"}, {"write", "idle", "create"})
         /\ JudgeMarker(c) => Move(c, {"judge"}, {"rename", "idle", "create"})
         /\ TakeoverRename(c) => Move(c, {"rename"}, {"fenceRead"})
         /\ AcquireError(c) => Move(c, {"create", "read", "retry", "rename"}, {"idle"})
         /\ ReadFence(c) => Move(c, {"fenceRead"}, {"fenceWrite"})
         /\ WriteFence(c) => Move(c, {"fenceWrite"}, {"held"})
         /\ WriteFenceFails(c) => Move(c, {"fenceWrite"}, {"held"})
         /\ Release(c) => Move(c, {"held"}, {"idle"})
         /\ ReleaseFails(c) => Move(c, {"held"}, {"idle"})
<1>i. ASSUME call' = [call EXCEPT ![c] = Idle]
      PROVE  call'[c].pc = "idle" /\ \A d \in Callers \ {c} : call'[d] = call[d]
  BY <1>i, IdleType DEF TypeOK
<1>1. Acquire(c) => Move(c, {"idle"}, {"create"})
  <2> SUFFICES ASSUME Acquire(c) PROVE Move(c, {"idle"}, {"create"})
    OBVIOUS
  <2>1. call[c].pc = "idle" /\ call' = [call EXCEPT ![c].pc = "create"]
    BY DEF Acquire, At
  <2>2. call'[c].pc = "create" /\ \A d \in Callers \ {c} : call'[d] = call[d]
    BY <2>1 DEF TypeOK, Call
  <2> QED BY <2>1, <2>2 DEF Move
<1>2. TryCreate(c) => Move(c, {"create"}, {"write", "read"})
  <2> SUFFICES ASSUME TryCreate(c) PROVE Move(c, {"create"}, {"write", "read"})
    OBVIOUS
  <2>1. call[c].pc = "create" /\ (\/ call' = [call EXCEPT ![c].pc = "write"]
                                 \/ call' = [call EXCEPT ![c].pc = "read"])
    BY DEF TryCreate, CreateMarker, At
  <2>2. call'[c].pc \in {"write", "read"} /\ \A d \in Callers \ {c} : call'[d] = call[d]
    BY <2>1 DEF TypeOK, Call
  <2> QED BY <2>1, <2>2 DEF Move
<1>3. WriteMarker(c) => Move(c, {"write"}, {"fenceRead"})
  <2> SUFFICES ASSUME WriteMarker(c) PROVE Move(c, {"write"}, {"fenceRead"})
    OBVIOUS
  <2>1. call[c].pc = "write" /\ call' = [call EXCEPT ![c].pc = "fenceRead"]
    BY DEF WriteMarker, At
  <2>2. call'[c].pc = "fenceRead" /\ \A d \in Callers \ {c} : call'[d] = call[d]
    BY <2>1 DEF TypeOK, Call
  <2> QED BY <2>1, <2>2 DEF Move
<1>4. WriteMarkerFails(c) => Move(c, {"write"}, {"idle"})
  BY <1>i DEF WriteMarkerFails, At, Move
<1>5. ReadMarker(c) => Move(c, {"read"}, {"retry", "judge"})
  <2> SUFFICES ASSUME ReadMarker(c) PROVE Move(c, {"read"}, {"retry", "judge"})
    OBVIOUS
  <2>1. call[c].pc = "read" /\ \A d \in Callers \ {c} : call'[d] = call[d]
    BY DEF ReadMarker, At, TypeOK
  <2>2. call'[c].pc \in {"retry", "judge"}
    BY DEF ReadMarker, TypeOK, Call
  <2> QED BY <2>1, <2>2 DEF Move
<1>6. RetryCreate(c) => Move(c, {"retry"}, {"write", "idle", "create"})
  <2> SUFFICES ASSUME RetryCreate(c) PROVE Move(c, {"retry"}, {"write", "idle", "create"})
    OBVIOUS
  <2>1. call[c].pc = "retry"
    BY DEF RetryCreate, At
  <2>2. CASE call' = [call EXCEPT ![c].pc = "write"]
    <3>1. call'[c].pc = "write" /\ \A d \in Callers \ {c} : call'[d] = call[d]
      BY <2>2 DEF TypeOK, Call
    <3> QED BY <2>1, <3>1 DEF Move
  <2>3. CASE NextSlot(c)
    BY <2>1, <2>3, NextSlotEffect DEF Move
  <2> QED BY <2>2, <2>3 DEF RetryCreate, CreateMarker
<1>7. JudgeMarker(c) => Move(c, {"judge"}, {"rename", "idle", "create"})
  <2> SUFFICES ASSUME JudgeMarker(c) PROVE Move(c, {"judge"}, {"rename", "idle", "create"})
    OBVIOUS
  <2>1. call[c].pc = "judge"
    BY DEF JudgeMarker, At
  <2>2. CASE call' = [call EXCEPT ![c].pc = "rename", ![c].stamp = now]
    <3>1. call'[c].pc = "rename" /\ \A d \in Callers \ {c} : call'[d] = call[d]
      BY <2>2 DEF TypeOK, Call
    <3> QED BY <2>1, <3>1 DEF Move
  <2>3. CASE NextSlot(c)
    BY <2>1, <2>3, NextSlotEffect DEF Move
  <2> QED BY <2>2, <2>3 DEF JudgeMarker
<1>8. TakeoverRename(c) => Move(c, {"rename"}, {"fenceRead"})
  <2> SUFFICES ASSUME TakeoverRename(c) PROVE Move(c, {"rename"}, {"fenceRead"})
    OBVIOUS
  <2>1. call[c].pc = "rename" /\ call' = [call EXCEPT ![c].pc = "fenceRead"]
    BY DEF TakeoverRename, At
  <2>2. call'[c].pc = "fenceRead" /\ \A d \in Callers \ {c} : call'[d] = call[d]
    BY <2>1 DEF TypeOK, Call
  <2> QED BY <2>1, <2>2 DEF Move
<1>9. AcquireError(c) => Move(c, {"create", "read", "retry", "rename"}, {"idle"})
  BY <1>i DEF AcquireError, Move
<1>10. ReadFence(c) => Move(c, {"fenceRead"}, {"fenceWrite"})
  <2> SUFFICES ASSUME ReadFence(c) PROVE Move(c, {"fenceRead"}, {"fenceWrite"})
    OBVIOUS
  <2>1. PICK v : call' = [call EXCEPT ![c].pc = "fenceWrite", ![c].prev = v]
    BY Zenon DEF ReadFence
  <2>2. call'[c].pc = "fenceWrite" /\ \A d \in Callers \ {c} : call'[d] = call[d]
    BY <2>1 DEF TypeOK, Call
  <2> QED BY <2>2 DEF ReadFence, At, Move
<1>11. WriteFence(c) => Move(c, {"fenceWrite"}, {"held"})
  <2> SUFFICES ASSUME WriteFence(c) PROVE Move(c, {"fenceWrite"}, {"held"})
    OBVIOUS
  <2>1. PICK v : call' = [call EXCEPT ![c].pc = "held", ![c].token = v]
    BY Zenon DEF WriteFence
  <2>2. call'[c].pc = "held" /\ \A d \in Callers \ {c} : call'[d] = call[d]
    BY <2>1 DEF TypeOK, Call
  <2> QED BY <2>2 DEF WriteFence, At, Move
<1>12. WriteFenceFails(c) => Move(c, {"fenceWrite"}, {"held"})
  <2> SUFFICES ASSUME WriteFenceFails(c) PROVE Move(c, {"fenceWrite"}, {"held"})
    OBVIOUS
  <2>1. call[c].pc = "fenceWrite" /\ call' = [call EXCEPT ![c].pc = "held"]
    BY DEF WriteFenceFails, At
  <2>2. call'[c].pc = "held" /\ \A d \in Callers \ {c} : call'[d] = call[d]
    BY <2>1 DEF TypeOK, Call
  <2> QED BY <2>1, <2>2 DEF Move
<1>13. /\ Release(c) => Move(c, {"held"}, {"idle"})
       /\ ReleaseFails(c) => Move(c, {"held"}, {"idle"})
  BY <1>i DEF Release, ReleaseFails, At, Move
<1> QED BY <1>1, <1>2, <1>3, <1>4, <1>5, <1>6, <1>7, <1>8, <1>9, <1>10, <1>11, <1>12, <1>13

(* The steps of Sweep. *)
SweepLabels == {"idle", "sweepRead", "sweepJudge", "sweepReread", "sweepRemove"}

LEMMA SweepMoves ==
  ASSUME TypeOK, NEW c \in Callers,
         \/ Sweep(c) \/ SweepRead(c) \/ SweepJudge(c) \/ SweepReread(c)
         \/ SweepRemove(c) \/ SweepSkips(c) \/ SweepStops(c)
  PROVE  Move(c, SweepLabels, SweepLabels)
<1>1. call[c].pc \in SweepLabels
  BY DEF Sweep, SweepRead, SweepJudge, SweepReread, SweepRemove, SweepSkips, SweepStops, At,
     SweepLabels
<1>2. ASSUME NEW rest \in SUBSET Slots, SweepNext(c, rest)
      PROVE  Move(c, SweepLabels, SweepLabels)
  BY <1>1, <1>2, SweepNextEffect DEF Move, SweepLabels
<1>3. call[c].todo \in SUBSET Slots /\ {s \in Slots : path[s] # Absent} \in SUBSET Slots
  BY DEF TypeOK, Call
<1>4. CASE call' = [call EXCEPT ![c].pc = "sweepJudge", ![c].seen = path[SlotOf(c)]]
  <2>1. call'[c].pc = "sweepJudge" /\ \A d \in Callers \ {c} : call'[d] = call[d]
    BY <1>4 DEF TypeOK, Call
  <2> QED BY <1>1, <2>1 DEF Move, SweepLabels
<1>5. ASSUME NEW l \in {"sweepReread", "sweepRemove"}, call' = [call EXCEPT ![c].pc = l]
      PROVE  Move(c, SweepLabels, SweepLabels)
  <2>1. call'[c].pc = l /\ \A d \in Callers \ {c} : call'[d] = call[d]
    BY <1>5 DEF TypeOK, Call
  <2> QED BY <1>1, <2>1 DEF Move, SweepLabels
<1>6. CASE call' = [call EXCEPT ![c] = Idle]
  <2>1. call'[c].pc = "idle" /\ \A d \in Callers \ {c} : call'[d] = call[d]
    BY <1>6, IdleType DEF TypeOK
  <2> QED BY <1>1, <2>1 DEF Move, SweepLabels
<1> QED BY <1>2, <1>3, <1>4, <1>5, <1>6
        DEF Sweep, SweepRead, SweepJudge, SweepReread, SweepRemove, SweepSkips, SweepStops

-----------------------------------------------------------------------------
(* The fence in singleton mode.  One caller at a time is between its         *)
(* exclusive create and its Release, so what ReadFence read is what the file *)
(* has when WriteFence replaces it.                                          *)

ReadIsCurrent == \A c \in Callers : call[c].pc = "fenceWrite" => call[c].prev = fence

FenceInv == ExclusionInv /\ ReadIsCurrent

QuietSingleton == ProbeDecides /\ CrashAt = {} /\ N = 1 /\ "fence" \notin Faults

(* In singleton mode the marker has one owner. *)
LEMMA OneOwner ==
  ASSUME N = 1, ExclusionInv, NEW c \in Callers, NEW d \in Callers,
         call[c].pc \in Owning, call[d].pc \in Owning
  PROVE  c = d
<1>1. call[c].slot = call[d].slot
  BY DEF ExclusionInv, LifeInv, TypeOK, Call, Slots
<1> QED BY <1>1 DEF ExclusionInv, OwnersOnDisk, SlotOf

(* Only WriteFence writes the fence. *)
LEMMA FenceUnchanged ==
  ASSUME NEW c \in Callers, Run(c), ~WriteFence(c)
  PROVE  fence' = fence
  BY DEF Run, Acquire, Sweep, Step, Release, ReleaseFails, TryCreate, WriteMarker,
     WriteMarkerFails, ReadMarker, RetryCreate, JudgeMarker, TakeoverRename, AcquireError,
     ReadFence, WriteFenceFails, SweepRead, SweepJudge, SweepReread, SweepRemove, SweepSkips,
     SweepStops

(* A step other than the two halves of bumpFence leaves no caller between    *)
(* them that was not there, and makes no Holder.                             *)
LEMMA OtherMoves ==
  ASSUME TypeOK, NEW c \in Callers, Run(c), ~ReadFence(c), ~WriteFence(c), ~WriteFenceFails(c)
  PROVE  /\ call'[c].pc \notin {"fenceWrite", "held"}
         /\ \A d \in Callers \ {c} : call'[d] = call[d]
<1>1. CASE \/ Sweep(c) \/ SweepRead(c) \/ SweepJudge(c) \/ SweepReread(c)
           \/ SweepRemove(c) \/ SweepSkips(c) \/ SweepStops(c)
  BY <1>1, SweepMoves DEF Move, SweepLabels
<1>2. CASE \/ Acquire(c) \/ TryCreate(c) \/ WriteMarker(c) \/ WriteMarkerFails(c)
           \/ ReadMarker(c) \/ RetryCreate(c)
  BY <1>2, AcquireMoves DEF Move
<1>3. CASE \/ JudgeMarker(c) \/ TakeoverRename(c) \/ AcquireError(c) \/ Release(c)
           \/ ReleaseFails(c)
  BY <1>3, AcquireMoves DEF Move
<1> QED BY <1>1, <1>2, <1>3 DEF Run, Step

(* What was read stays current. *)
LEMMA FenceStep ==
  ASSUME QuietSingleton, FenceInv, [Next]_vars
  PROVE  FenceInv'
<1>0. ExclusionInv /\ ExclusionInv' /\ TypeOK
  BY ExclusionStep DEF QuietSingleton, FenceInv, ExclusionInv, LifeInv
<1> SUFFICES ASSUME NEW d \in Callers, call'[d].pc = "fenceWrite"
             PROVE  call'[d].prev = fence'
  BY <1>0 DEF FenceInv, ReadIsCurrent
<1>1. ASSUME NEW c \in Callers, ReadFence(c) PROVE call'[d].prev = fence'
  <2>1. call' = [call EXCEPT ![c].pc = "fenceWrite", ![c].prev = fence] /\ fence' = fence
    BY <1>1 DEF ReadFence, QuietSingleton
  <2>2. CASE d = c
    BY <1>0, <2>1, <2>2 DEF TypeOK, Call
  <2>3. CASE d # c
    <3>1. call'[d] = call[d]
      BY <1>0, <2>1, <2>3 DEF TypeOK
    <3> QED BY <2>1, <3>1 DEF FenceInv, ReadIsCurrent
  <2> QED BY <2>2, <2>3
<1>2. ASSUME NEW c \in Callers, WriteFence(c) PROVE call'[d].prev = fence'
  <2>1. Move(c, {"fenceWrite"}, {"held"})
    BY <1>0, <1>2, AcquireMoves
  <2>2. d # c /\ call[d].pc \in Owning /\ call[c].pc \in Owning
    BY <2>1 DEF Move, Owning
  <2> QED BY <1>0, <2>2, OneOwner DEF QuietSingleton
<1>3. ASSUME NEW c \in Callers, WriteFenceFails(c) PROVE call'[d].prev = fence'
  BY <1>3 DEF WriteFenceFails, QuietSingleton
<1>4. ASSUME NEW c \in Callers, Run(c), ~ReadFence(c), ~WriteFence(c), ~WriteFenceFails(c)
      PROVE  call'[d].prev = fence'
  <2>1. d # c /\ call'[d] = call[d] /\ fence' = fence
    BY <1>0, <1>4, OtherMoves, FenceUnchanged
  <2> QED BY <2>1 DEF FenceInv, ReadIsCurrent
<1>5. ASSUME NEW p \in Processes, Crash(p) PROVE FALSE
  BY <1>5, ConstantsAssumption DEF Crash, QuietSingleton
<1>6. ASSUME \/ \E p \in Processes : Spawn(p)
             \/ Tick \/ UNCHANGED vars
      PROVE  call'[d].prev = fence'
  <2>1. call' = call /\ fence' = fence
    BY <1>6 DEF Spawn, Tick, vars
  <2> QED BY <2>1 DEF FenceInv, ReadIsCurrent
<1> QED BY <1>1, <1>2, <1>3, <1>4, <1>5, <1>6 DEF Next

(* A step to a Holder raises the fence, if it does not wrap. *)
LEMMA RaisesFence ==
  ASSUME QuietSingleton, FenceInv, fence + 1 < FenceMod, [Next]_vars, NEW c \in Callers,
         call[c].pc = "fenceWrite", call'[c].pc = "held"
  PROVE  call'[c].token > fence
<1>0. TypeOK /\ fence \in Nat /\ call[c].prev = fence
  BY DEF FenceInv, ExclusionInv, LifeInv, TypeOK, ReadIsCurrent
<1>1. CASE WriteFence(c)
  <2>1. call' = [call EXCEPT ![c].pc = "held", ![c].token = uint64Succ(call[c].prev)]
    BY <1>1 DEF WriteFence
  <2>2. call'[c].token = uint64Succ(call[c].prev)
    BY <1>0, <2>1 DEF TypeOK, Call
  <2> QED BY <1>0, <2>2 DEF uint64Succ
<1>2. ASSUME NEW d \in Callers, Run(d), ~WriteFence(c) PROVE FALSE
  <2>1. CASE d = c
    <3>1. ~ReadFence(c) /\ ~WriteFenceFails(c)
      BY DEF ReadFence, WriteFenceFails, At, QuietSingleton
    <3> QED BY <1>0, <1>2, <2>1, <3>1, OtherMoves
  <2>2. CASE d # c
    <3>1. \/ ReadFence(d) \/ WriteFence(d) \/ WriteFenceFails(d)
          \/ \A e \in Callers \ {d} : call'[e] = call[e]
      BY <1>0, <1>2, OtherMoves
    <3>2. \A e \in Callers \ {d} : call'[e] = call[e]
      BY <1>0, <3>1, AcquireMoves DEF Move
    <3> QED BY <2>2, <3>2
  <2> QED BY <2>1, <2>2
<1>3. ASSUME NEW p \in Processes, Crash(p) PROVE FALSE
  BY <1>3, ConstantsAssumption DEF Crash, QuietSingleton
<1>4. ASSUME \/ \E p \in Processes : Spawn(p)
             \/ Tick \/ UNCHANGED vars
      PROVE  FALSE
  BY <1>4 DEF Spawn, Tick, vars
<1> QED BY <1>1, <1>2, <1>3, <1>4 DEF Next

(* In singleton mode, as long as no process dies and the fence file can be    *)
(* read and written, bumpFence gives every Holder a token that is larger than *)
(* every number the file had, until the uint64 wraps: its read and its write  *)
(* are two steps, but the marker keeps every other caller out of both.        *)
THEOREM FenceRises ==
  QuietSingleton => (Spec /\ [](fence + 1 < FenceMod) => FenceStrict)
<1> SUFFICES ASSUME QuietSingleton
             PROVE  Spec /\ [](fence + 1 < FenceMod) => FenceStrict
  OBVIOUS
<1>1. Init => FenceInv
  BY ExclusionInit, IdleType DEF Init, FenceInv, ReadIsCurrent
<1>2. FenceInv /\ [Next]_vars => FenceInv'
  BY FenceStep
<1>3. FenceInv /\ fence + 1 < FenceMod /\ [Next]_vars =>
        [\A c \in Callers : At(c, "fenceWrite") /\ At(c, "held")' =>
           call'[c].token > fence]_vars
  BY RaisesFence DEF At
<1> QED BY <1>1, <1>2, <1>3, PTL DEF Spec, FenceStrict

-----------------------------------------------------------------------------
(* The refinement.  ErrLocked has to mean that somebody was inside: a marker *)
(* on the disk is that of a caller between its create and its Release, which *)
(* is so as long as nobody dies and no removal or write of a marker fails.   *)

DiskOwned ==
  \A s \in Slots : path[s] # Absent =>
     call[path[s].by].pc \in Owning /\ call[path[s].by].slot = s

DiskInv == ExclusionInv /\ DiskOwned

FilesWork == ProbeDecides /\ CrashAt = {} /\ "io" \notin Faults /\ "remove" \notin Faults

(* A step of c keeps the other owners' markers; c may come, stay or go. *)
LEMMA DiskStep ==
  ASSUME DiskOwned, TypeOK, NEW c \in Callers,
         \A d \in Callers \ {c} : call'[d] = call[d],
         \A s \in Slots : \/ path'[s] = path[s] /\ (path[s] = Absent \/ path[s].by # c)
                          \/ path'[s] = Absent
                          \/ /\ path'[s].by = c
                             /\ call'[c].pc \in Owning /\ call'[c].slot = s
  PROVE  DiskOwned'
<1> SUFFICES ASSUME NEW s \in Slots, path'[s] # Absent
             PROVE  call'[path'[s].by].pc \in Owning /\ call'[path'[s].by].slot = s
  BY DEF DiskOwned
<1>1. CASE path'[s].by = c /\ call'[c].pc \in Owning /\ call'[c].slot = s
  BY <1>1
<1>2. CASE path'[s] = path[s] /\ path[s] # Absent /\ path[s].by # c
  <2>1. path[s].by \in Callers \ {c}
    BY <1>2 DEF TypeOK, Marker
  <2>2. call'[path[s].by] = call[path[s].by]
    BY <2>1
  <2> QED BY <1>2, <2>2 DEF DiskOwned
<1> QED BY <1>1, <1>2

(* Every marker on the disk keeps its owner. *)
LEMMA DiskInvStep ==
  ASSUME FilesWork, DiskInv, [Next]_vars
  PROVE  DiskInv'
<1>0. ExclusionInv /\ ExclusionInv' /\ LifeInv /\ LifeInv' /\ NobodyDied /\ NobodyDied'
      /\ TypeOK /\ TypeOK' /\ DiskOwned
  BY ExclusionStep DEF FilesWork, DiskInv, ExclusionInv, LifeInv
<1> SUFFICES DiskOwned'
  BY <1>0 DEF DiskInv
<1> USE <1>0
\* a caller that owns nothing has no marker on the disk
<1>1. ASSUME NEW c \in Callers, call[c].pc \notin Owning
      PROVE  \A s \in Slots : path[s] = Absent \/ path[s].by # c
  BY <1>1 DEF DiskOwned
<1>2. ASSUME NEW c \in Callers, call[c].pc \notin Owning, path' = path,
             \A d \in Callers \ {c} : call'[d] = call[d]
      PROVE  DiskOwned'
  BY <1>1, <1>2, DiskStep
<1>3. ASSUME NEW c \in Callers, \/ Acquire(c) \/ ReadMarker(c) \/ JudgeMarker(c) PROVE DiskOwned'
  <2>1. call[c].pc \notin Owning /\ \A d \in Callers \ {c} : call'[d] = call[d]
    BY <1>3, AcquireMoves DEF Move, Owning
  <2>2. path' = path
    BY <1>3 DEF Acquire, ReadMarker, JudgeMarker
  <2> QED BY <2>1, <2>2, <1>2
<1>4. ASSUME NEW c \in Callers, CreateMarker(c), call[c].pc \notin Owning PROVE DiskOwned'
  <2>1. /\ \A d \in Callers \ {c} : call'[d] = call[d]
        /\ call'[c].pc = "write" /\ call'[c].slot = call[c].slot
    BY <1>4 DEF CreateMarker, TypeOK, Call
  <2>2. \A s \in Slots : \/ path'[s] = path[s]
                         \/ path'[s] = [by |-> c, at |-> 0] /\ s = call[c].slot
    BY <1>4 DEF CreateMarker, SlotOf, TypeOK
  <2>3. [by |-> c, at |-> 0].by = c
    OBVIOUS
  <2> QED BY <1>1, <1>4, <2>1, <2>2, <2>3, DiskStep DEF Owning
<1>5. ASSUME NEW c \in Callers, TryCreate(c) \/ RetryCreate(c) PROVE DiskOwned'
  <2>1. call[c].pc \notin Owning /\ \A d \in Callers \ {c} : call'[d] = call[d]
    BY <1>5, AcquireMoves DEF Move, Owning
  <2>2. CreateMarker(c) \/ path' = path
    BY <1>5 DEF TryCreate, RetryCreate
  <2> QED BY <2>1, <2>2, <1>2, <1>4
<1>6. ASSUME NEW c \in Callers, WriteMarker(c) PROVE DiskOwned'
  <2>1. /\ \A d \in Callers \ {c} : call'[d] = call[d]
        /\ call[c].pc = "write" /\ call'[c].pc = "fenceRead"
    BY <1>6, AcquireMoves DEF Move
  <2>2. call'[c].slot = call[c].slot
    BY <1>6 DEF WriteMarker, TypeOK, Call
  <2>3. \A s \in Slots : path[s] # Absent =>
           path'[s] # Absent /\ path'[s].by = path[s].by
    <3> SUFFICES ASSUME NEW s \in Slots, path[s] # Absent
                 PROVE  path'[s] # Absent /\ path'[s].by = path[s].by
      OBVIOUS
    <3>1. path'[s] = path[s] \/ path'[s] = [path[s] EXCEPT !.at = now]
      BY <1>6 DEF WriteMarker, Written, TypeOK
    <3>2. path[s] \in Marker
      BY DEF TypeOK
    <3>3. [path[s] EXCEPT !.at = now] \in Marker /\ [path[s] EXCEPT !.at = now].by = path[s].by
      BY <3>2 DEF Marker, TypeOK
    <3> QED BY <3>1, <3>3, AbsentAssumption
  <2>4. \A s \in Slots : path[s] = Absent => path'[s] = Absent
    <3> SUFFICES ASSUME NEW s \in Slots, path[s] = Absent PROVE path'[s] = Absent
      OBVIOUS
    <3>1. Absent # [by |-> c, at |-> 0]
      BY AbsentAssumption DEF Marker
    <3> QED BY <1>6, <3>1 DEF WriteMarker, Written, TypeOK
  <2>5. \A s \in Slots : path[s] # Absent /\ path[s].by = c => call[c].slot = s
    BY DEF DiskOwned
  <2>6. \A s \in Slots : path[s] # Absent /\ path[s].by # c => path'[s] = path[s]
    <3>1. [by |-> c, at |-> 0].by = c
      OBVIOUS
    <3> QED BY <1>6, <2>1, <3>1 DEF WriteMarker, Written, TypeOK, ExclusionInv, OwnersOnDisk, Owning, SlotOf
  <2> QED BY <2>1, <2>2, <2>3, <2>4, <2>5, <2>6, DiskStep DEF Owning
<1>7. ASSUME NEW c \in Callers, ReadFence(c) \/ WriteFence(c) \/ WriteFenceFails(c)
      PROVE  DiskOwned'
  <2>1. /\ \A d \in Callers \ {c} : call'[d] = call[d]
        /\ call'[c].pc \in Owning /\ path' = path
    BY <1>7, AcquireMoves DEF Move, Owning, ReadFence, WriteFence, WriteFenceFails
  <2>2. call'[c].slot = call[c].slot
    <3>1. \/ \E v : call' = [call EXCEPT ![c].pc = "fenceWrite", ![c].prev = v]
          \/ \E v : call' = [call EXCEPT ![c].pc = "held", ![c].token = v]
          \/ call' = [call EXCEPT ![c].pc = "held"]
      BY <1>7, Zenon DEF ReadFence, WriteFence, WriteFenceFails
    <3> QED BY <3>1 DEF TypeOK, Call
  <2>3. \A s \in Slots : path[s] # Absent /\ path[s].by = c => call[c].slot = s
    BY DEF DiskOwned
  <2> QED BY <2>1, <2>2, <2>3, DiskStep
<1>8. ASSUME NEW c \in Callers, Release(c) PROVE DiskOwned'
  <2>1. \A d \in Callers \ {c} : call'[d] = call[d]
    BY <1>8, AcquireMoves DEF Move
  <2>2. \A s \in Slots : IF s = call[c].slot THEN path'[s] = Absent ELSE path'[s] = path[s]
    BY <1>8 DEF Release, SlotOf, TypeOK
  <2>3. \A s \in Slots : path[s] # Absent /\ path[s].by = c => call[c].slot = s
    BY DEF DiskOwned
  <2> QED BY <2>1, <2>2, <2>3, DiskStep
<1>9. ASSUME NEW c \in Callers, \/ WriteMarkerFails(c) \/ AcquireError(c) \/ ReleaseFails(c)
                                \/ SweepSkips(c)
      PROVE  FALSE
  BY <1>9 DEF WriteMarkerFails, AcquireError, ReleaseFails, SweepSkips, FilesWork
<1>10. ASSUME NEW c \in Callers, TakeoverRename(c) \/ SweepRemove(c) PROVE FALSE
  BY <1>10, NobodyTakesOver DEF TakeoverRename, SweepRemove, At
<1>11. ASSUME NEW c \in Callers, Sweep(c) \/ SweepRead(c) \/ SweepJudge(c) \/ SweepReread(c)
                                 \/ SweepStops(c)
       PROVE  DiskOwned'
  <2>1. call[c].pc \notin Owning /\ \A d \in Callers \ {c} : call'[d] = call[d]
    BY <1>11, SweepMoves DEF Move, SweepLabels, Owning
  <2>2. path' = path
    BY <1>11 DEF Sweep, SweepRead, SweepJudge, SweepReread, SweepStops
  <2> QED BY <2>1, <2>2, <1>2
<1>12. ASSUME NEW c \in Callers, Run(c) PROVE DiskOwned'
  BY <1>3, <1>5, <1>6, <1>7, <1>8, <1>9, <1>10, <1>11, <1>12 DEF Run, Step
<1>13. ASSUME NEW p \in Processes, Crash(p) PROVE FALSE
  BY <1>13, ConstantsAssumption DEF Crash, FilesWork
<1>14. ASSUME \/ \E p \in Processes : Spawn(p)
              \/ Tick \/ UNCHANGED vars
       PROVE  DiskOwned'
  <2>1. call' = call /\ path' = path
    BY <1>14 DEF Spawn, Tick, vars
  <2> QED BY <2>1 DEF DiskOwned
<1> QED BY <1>12, <1>13, <1>14 DEF Next

(* There is no marker in an empty directory. *)
LEMMA DiskInit == Init => DiskInv
  BY ExclusionInit DEF Init, DiskInv, DiskOwned

(* The state that the contract has of a caller at a label. *)
Role(l) == IF l \in {"create", "read", "retry"} THEN "trying"
           ELSE IF l \in Owning THEN "in"
           ELSE IF l = "judge" THEN "refused"
           ELSE "out"

(* A step of one caller changes the state of that caller only. *)
LEMMA ContractUpdate ==
  ASSUME NEW c \in Callers, \A d \in Callers \ {c} : call'[d] = call[d]
  PROVE  /\ contractState[c] = Role(call[c].pc)
         /\ contractState' = [contractState EXCEPT ![c] = Role(call'[c].pc)]
         /\ Role(call'[c].pc) = Role(call[c].pc) => UNCHANGED contractState
<1>1. contractState = [d \in Callers |-> Role(call[d].pc)]
  BY DEF contractState, Role, Owning
<1>2. contractState' = [d \in Callers |-> Role(call'[d].pc)]
  BY DEF contractState, Role, Owning
<1> HIDE DEF Role
<1> QED BY <1>1, <1>2

(* The contract's Cardinality, an instance of FiniteSets, is the same one. *)
LEMMA SameCardinality == ASSUME NEW S PROVE Contract!Cardinality(S) = Cardinality(S)
  BY DEF Cardinality, Contract!Cardinality

(* In singleton mode the marker decides: without it the place is free, and   *)
(* whoever finds it finds the place taken.                                   *)
LEMMA MarkerDecides ==
  ASSUME N = 1, DiskInv, NEW s \in Slots
  PROVE  /\ path[s] = Absent => Contract!Cardinality(Contract!In) = 0
         /\ path[s] # Absent => Contract!Cardinality(Contract!In) = 1
<1>0. Contract!In = {c \in Callers : call[c].pc \in Owning}
  BY DEF Contract!In, contractState, Owning
<1>1. ASSUME path[s] = Absent PROVE Contract!Cardinality(Contract!In) = 0
  <2>1. \A c \in Callers : call[c].slot = s
    BY DEF DiskInv, ExclusionInv, LifeInv, TypeOK, Call, Slots
  <2>2. Contract!In = {}
    BY <1>0, <1>1, <2>1 DEF DiskInv, ExclusionInv, OwnersOnDisk, SlotOf
  <2> QED BY <2>2, SameCardinality, FS_EmptySet
<1>2. ASSUME path[s] # Absent PROVE Contract!Cardinality(Contract!In) = 1
  <2>1. path[s].by \in Callers /\ call[path[s].by].pc \in Owning
    BY <1>2 DEF DiskInv, ExclusionInv, LifeInv, DiskOwned, TypeOK, Marker
  <2>2. Contract!In = {path[s].by}
    BY <1>0, <2>1, OneOwner DEF DiskInv
  <2> QED BY <2>2, SameCardinality, FS_Singleton
<1> QED BY <1>1, <1>2

(* Every step is a step of the contract, or none that it can see. *)
LEMMA ContractStep ==
  ASSUME FilesWork, N = 1, DiskInv, [Next]_vars
  PROVE  Contract!Next \/ UNCHANGED contractState
<1>0. DiskInv /\ DiskInv' /\ TypeOK
  BY DiskInvStep DEF DiskInv, ExclusionInv, LifeInv
<1> USE <1>0
\* with one slot, ErrLocked for the slot ends the call
<1>1. ASSUME NEW c \in Callers, NextSlot(c) PROVE call'[c].pc = "idle"
  <2>1. ~(SlotOf(c) + 1 < N)
    BY DEF SlotOf, TypeOK, Call, Slots
  <2>2. call' = [call EXCEPT ![c] = Idle]
    BY <1>1, <2>1 DEF NextSlot
  <2> QED BY <2>2, IdleType DEF TypeOK
<1>2. ASSUME NEW c \in Callers, NEW from, NEW to, Move(c, from, to),
             \A l \in from, k \in to : Role(l) = Role(k)
      PROVE  UNCHANGED contractState
  BY <1>2, ContractUpdate DEF Move
<1>3. ASSUME NEW c \in Callers PROVE SlotOf(c) \in Slots
  BY DEF SlotOf, TypeOK, Call
<1>4. ASSUME NEW c \in Callers, Acquire(c) PROVE Contract!Next
  <2>1. Move(c, {"idle"}, {"create"})
    BY <1>4, AcquireMoves
  <2>2. Contract!Call(c)
    BY <2>1, ContractUpdate DEF Move, Role, Owning, Contract!Call
  <2> QED BY <2>2 DEF Contract!Next
<1>5. ASSUME NEW c \in Callers, CreateMarker(c), call[c].pc \in {"create", "retry"}
      PROVE  Contract!Next
  <2>1. call'[c].pc = "write" /\ \A d \in Callers \ {c} : call'[d] = call[d]
    BY <1>5 DEF CreateMarker, TypeOK, Call
  <2>2. Contract!Cardinality(Contract!In) = 0
    BY <1>3, <1>5, MarkerDecides DEF CreateMarker
  <2>3. Contract!Cardinality(Contract!In) < N
    BY <2>2
  <2>4. Contract!Grant(c)
    BY <1>5, <2>1, <2>3, ContractUpdate DEF Role, Owning, Contract!Grant
  <2> QED BY <2>4 DEF Contract!Next
<1>6. ASSUME NEW c \in Callers, call[c].pc \in {"read", "retry"}, path[SlotOf(c)] # Absent,
             call'[c].pc \in {"judge", "idle"}, \A d \in Callers \ {c} : call'[d] = call[d]
      PROVE  Contract!Next
  <2>1. Contract!Cardinality(Contract!In) = 1
    BY <1>3, <1>6, MarkerDecides
  <2>2. Contract!Cardinality(Contract!In) >= N
    BY <2>1
  <2>3. Role(call[c].pc) = "trying" /\ Role(call'[c].pc) \in {"refused", "out"}
    BY <1>6 DEF Role, Owning
  <2>4. Contract!Refuse(c)
    BY <1>6, <2>2, <2>3, ContractUpdate DEF Contract!Refuse
  <2> QED BY <2>4 DEF Contract!Next
<1>7. ASSUME NEW c \in Callers, TryCreate(c) PROVE Contract!Next \/ UNCHANGED contractState
  <2>1. CASE CreateMarker(c)
    BY <1>5, <1>7, <2>1 DEF TryCreate, At
  <2>2. CASE call' = [call EXCEPT ![c].pc = "read"]
    <3>1. Move(c, {"create"}, {"read"})
      BY <1>7, <2>2 DEF TryCreate, At, Move, TypeOK, Call
    <3> QED BY <3>1, <1>2 DEF Role
  <2> QED BY <1>7, <2>1, <2>2 DEF TryCreate
<1>8. ASSUME NEW c \in Callers, ReadMarker(c) PROVE Contract!Next \/ UNCHANGED contractState
  <2>1. /\ call[c].pc = "read" /\ \A d \in Callers \ {c} : call'[d] = call[d]
        /\ call'[c].pc = IF path[SlotOf(c)] = Absent THEN "retry" ELSE "judge"
    BY <1>8 DEF ReadMarker, At, TypeOK, Call
  <2>2. CASE path[SlotOf(c)] = Absent
    <3>1. Move(c, {"read"}, {"retry"})
      BY <2>1, <2>2 DEF Move
    <3> QED BY <3>1, <1>2 DEF Role
  <2>3. CASE path[SlotOf(c)] # Absent
    BY <1>6, <2>1, <2>3
  <2> QED BY <2>2, <2>3
<1>9. ASSUME NEW c \in Callers, RetryCreate(c) PROVE Contract!Next \/ UNCHANGED contractState
  <2>1. call[c].pc = "retry" /\ \A d \in Callers \ {c} : call'[d] = call[d]
    BY <1>9, AcquireMoves DEF Move
  <2>2. CASE CreateMarker(c)
    BY <1>5, <2>1, <2>2
  <2>3. CASE path[SlotOf(c)] # Absent /\ NextSlot(c)
    BY <1>1, <1>6, <2>1, <2>3
  <2> QED BY <1>9, <2>2, <2>3 DEF RetryCreate
<1>10. ASSUME NEW c \in Callers, JudgeMarker(c) PROVE Contract!Next
  <2>1. /\ call[c].pc = "judge" /\ call'[c].pc \in {"rename", "idle", "create"}
        /\ \A d \in Callers \ {c} : call'[d] = call[d]
    BY <1>10, AcquireMoves DEF Move
  <2>2. LifeInv' /\ NobodyDied'
    BY DEF DiskInv, ExclusionInv
  \* what it judged is the marker of a process that runs: not stale
  <2>3. call'[c].pc # "rename"
    <3>1. SUFFICES ASSUME call'[c].pc = "rename" PROVE FALSE
      OBVIOUS
    <3>2. call'[c].seen \in Marker /\ life'[ProcOf[call'[c].seen.by]] = "dead"
      BY <2>2, <3>1 DEF LifeInv, SeenStarted, JudgedDead, Judging
    <3> QED BY <2>2, <3>2, ConstantsAssumption DEF NobodyDied, Marker
  <2>4. call'[c].pc = "idle"
    <3>1. NextSlot(c)
      <4>1. CASE call' = [call EXCEPT ![c].pc = "rename", ![c].stamp = now]
        <5>1. call'[c].pc = "rename"
          BY <4>1 DEF TypeOK, Call
        <5> QED BY <2>3, <5>1
      <4> QED BY <1>10, <4>1 DEF JudgeMarker
    <3> QED BY <3>1, <1>1
  <2>5. Contract!Return(c)
    BY <2>1, <2>4, ContractUpdate DEF Role, Owning, Contract!Return
  <2> QED BY <2>5 DEF Contract!Next
<1>11. ASSUME NEW c \in Callers, Release(c) PROVE Contract!Next
  <2>1. Move(c, {"held"}, {"idle"})
    BY <1>11, AcquireMoves
  <2>2. Contract!Release(c)
    BY <2>1, ContractUpdate DEF Move, Role, Owning, Contract!Release
  <2> QED BY <2>2 DEF Contract!Next
<1>12. ASSUME NEW c \in Callers,
              WriteMarker(c) \/ ReadFence(c) \/ WriteFence(c) \/ WriteFenceFails(c)
       PROVE  UNCHANGED contractState
  <2>1. Move(c, {"write", "fenceRead", "fenceWrite"}, {"fenceRead", "fenceWrite", "held"})
    BY <1>12, AcquireMoves DEF Move
  <2> QED BY <2>1, <1>2 DEF Role, Owning
<1>13. ASSUME NEW c \in Callers, \/ Sweep(c) \/ SweepRead(c) \/ SweepJudge(c) \/ SweepReread(c)
                                 \/ SweepRemove(c) \/ SweepSkips(c) \/ SweepStops(c)
       PROVE  UNCHANGED contractState
  <2>1. Move(c, SweepLabels, SweepLabels)
    BY <1>13, SweepMoves
  <2> QED BY <2>1, <1>2 DEF Role, Owning, SweepLabels
<1>14. ASSUME NEW c \in Callers, WriteMarkerFails(c) \/ AcquireError(c) \/ ReleaseFails(c)
       PROVE  FALSE
  BY <1>14 DEF WriteMarkerFails, AcquireError, ReleaseFails, FilesWork
<1>15. ASSUME NEW c \in Callers, TakeoverRename(c) PROVE FALSE
  BY <1>15, NobodyTakesOver DEF TakeoverRename, At, DiskInv, ExclusionInv
<1>16. ASSUME NEW c \in Callers, Run(c) PROVE Contract!Next \/ UNCHANGED contractState
  BY <1>4, <1>7, <1>8, <1>9, <1>10, <1>11, <1>12, <1>13, <1>14, <1>15, <1>16 DEF Run, Step
<1>17. ASSUME NEW p \in Processes, Crash(p) PROVE FALSE
  BY <1>17, ConstantsAssumption DEF Crash, FilesWork
<1>18. ASSUME \/ \E p \in Processes : Spawn(p)
              \/ Tick \/ UNCHANGED vars
       PROVE  UNCHANGED contractState
  <2>1. call' = call
    BY <1>18 DEF Spawn, Tick, vars
  <2> QED BY <2>1 DEF contractState
<1> QED BY <1>16, <1>17, <1>18 DEF Next

(* In singleton mode, where the probe decides, as long as no process dies and *)
(* no write or removal of a marker fails, filelock implements the contract of *)
(* the family, whatever sweepers do and whatever happens to the fence: a      *)
(* caller gets the lock only when nobody has it, and ErrLocked means that     *)
(* somebody had it at a moment of the call, also when the marker went away    *)
(* between the failed create and the read, or between the read and the answer.*)
THEOREM SingletonIsALock == FilesWork /\ N = 1 => (Spec => ImplementsContract)
<1> SUFFICES ASSUME FilesWork, N = 1
             PROVE  Spec => ImplementsContract
  OBVIOUS
<1>1. Init => Contract!Init
  BY IdleType DEF Init, Contract!Init, contractState
<1>2. DiskInv /\ [Next]_vars => DiskInv'
  BY DiskInvStep
<1>3. DiskInv /\ [Next]_vars => [Contract!Next]_contractState
  BY ContractStep
<1> QED BY DiskInit, <1>1, <1>2, <1>3, PTL DEF Spec, ImplementsContract, Contract!Spec
=============================================================================
