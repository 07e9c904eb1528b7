------------------------------ MODULE FileLock ------------------------------
(***************************************************************************)
(* The marker-file backend, package filelock.  One lock name in one        *)
(* directory: the marker of every slot, the fence sidecar, the processes   *)
(* that share the directory and the Acquire, Release and Sweep calls that  *)
(* their goroutines have in progress.  Every system call that another      *)
(* process can observe is a step of its own, so calls interleave, and a    *)
(* process can die between any two of them.                                *)
(***************************************************************************)
EXTENDS Naturals, FiniteSets

CONSTANTS
    Callers,       \* goroutines that call Acquire, or Sweep
    Sweepers,      \* the callers that call Sweep; the others call Acquire
    Processes,     \* process incarnations; a restarted service is a new one
    ProcOf,        \* the process a caller runs in
    UpAtStart,     \* the processes that run initially
    PidOf, StartOf,        \* a process's pid, and its start in ticks since boot
    MachineOf, HostOf,     \* its machine, and what hostname() answers there
    UidOf,                 \* its user: kill(2) answers EPERM across users
    BootView,      \* the boot time that a process read from /proc/stat and cached
    HasStartTime,  \* whether the platform exposes process start times
    Strategy,      \* the StaleStrategy of every call
    StaleAfter,    \* the WithStaleAfter window; 0 is "not set"
    N,             \* WithMaxConcurrent
    FenceMod,      \* the fence is a uint64: it wraps here
    CrashAt,       \* the labels at which a process may die
    Faults,        \* the file operations that may fail
    Absent,        \* "no such file"
    MaxFence,      \* bound: no Acquire starts once the fence reached it
    MaxTime        \* bound: the clock stops here

VARIABLES
    path,    \* the marker file of every slot
    fence,   \* the number in <name>.fence; 0 when there is no such file
    life,    \* "unborn", "up" or "dead", per process
    now,     \* the wall clock
    call     \* the call that every caller has in progress, or its Holder

vars == <<path, fence, life, now, call>>

Slots == 0..(N - 1)
Lockers == Callers \ Sweepers

(***************************************************************************)
(* A marker.  by is the caller that created the file and stands for the    *)
(* identity fields the caller's process writes (pid, pid_start, host).     *)
(* at is the acquired time; 0 is the file that was created and not written *)
(* yet: it parses as a marker whose fields are all zero.  The debug fields *)
(* are never read back.                                                    *)
(***************************************************************************)
Marker == [by : Callers, at : Nat]

Labels == {"idle", "create", "write", "read", "retry", "judge", "rename",
           "fenceRead", "fenceWrite", "held", "sweepRead", "sweepJudge",
           "sweepReread", "sweepRemove", "dead"}

Call == [pc    : Labels,
         slot  : Slots,                     \* the slot being probed, or held
         seen  : Marker \cup {Absent},      \* the marker read last
         stamp : Nat,                       \* acquired time in the takeover file
         prev  : Nat,                       \* fence value read by bumpFence
         token : Nat,                       \* the Holder's fencing token
         todo  : SUBSET Slots]              \* markers Sweep has still to visit

Idle == [pc |-> "idle", slot |-> 0, seen |-> Absent, stamp |-> 0,
         prev |-> 0, token |-> 0, todo |-> {}]

ASSUME ConstantsAssumption ==
    /\ Sweepers \subseteq Callers
    /\ UpAtStart \subseteq Processes
    /\ ProcOf \in [Callers -> Processes]
    /\ PidOf \in [Processes -> Nat \ {0}]
    /\ StartOf \in [Processes -> Nat]
    /\ HostOf \in [Processes -> STRING]
    /\ BootView \in [Processes -> Nat \ {0}]
    /\ DOMAIN MachineOf = Processes
    /\ DOMAIN UidOf = Processes
    /\ HasStartTime \in BOOLEAN
    /\ Strategy \in {"PIDFirst", "PIDOnly", "TimeOnly"}
    /\ StaleAfter \in Nat
    /\ N \in Nat \ {0}
    /\ FenceMod \in Nat \ {0, 1}
    /\ CrashAt \subseteq Labels
    /\ Faults \subseteq {"io", "fence", "remove", "sweep"}
    /\ MaxFence \in Nat /\ MaxTime \in Nat \ {0}

\* The kernel gives a pid to one running process of a machine at a time, and
\* two incarnations that share a pid started in different clock ticks.
ASSUME PidAssumption ==
    \A p, q \in Processes : p # q /\ MachineOf[p] = MachineOf[q] /\ PidOf[p] = PidOf[q]
        => /\ StartOf[p] # StartOf[q]
           /\ ~(p \in UpAtStart /\ q \in UpAtStart)

ASSUME AbsentAssumption == Absent \notin Marker

TypeOK ==
    /\ path \in [Slots -> Marker \cup {Absent}]
    /\ fence \in Nat
    /\ life \in [Processes -> {"unborn", "up", "dead"}]
    /\ now \in Nat \ {0}
    /\ call \in [Callers -> Call]

Init ==
    /\ path = [s \in Slots |-> Absent]
    /\ fence = 0
    /\ life = [p \in Processes |-> IF p \in UpAtStart THEN "up" ELSE "unborn"]
    /\ now = 1
    /\ call = [c \in Callers |-> Idle]

-----------------------------------------------------------------------------
(* Staleness: may the process p take over the marker m?                    *)

\* The processes with this pid on the machine of p: at most one.
Running(p, pid) ==
    {q \in Processes : life[q] = "up" /\ MachineOf[q] = MachineOf[p] /\ PidOf[q] = pid}

\* kill(pid, 0): nil, ESRCH, or EPERM
isAlive(p, pid) ==
    IF Running(p, pid) = {} THEN "dead"
    ELSE IF \E q \in Running(p, pid) : UidOf[q] = UidOf[p] THEN "alive"
    ELSE "inconclusive"

\* The start of process q as process p computes it: boot time plus ticks.
\* 0 is the zero Time of a platform that does not tell.
processStartTime(p, q) == IF HasStartTime THEN BootView[p] + StartOf[q] ELSE 0

\* probePID on the pid and pid_start that process w wrote, asked by process p
probePID(p, w) ==
    LET answer == isAlive(p, PidOf[w])
        reused == \E q \in Running(p, PidOf[w]) :
                      /\ processStartTime(w, w) # 0
                      /\ processStartTime(p, q) # 0
                      /\ processStartTime(p, q) # processStartTime(w, w)
    IN  IF answer = "alive" /\ reused THEN "dead" ELSE answer

probeMarkerAnyHost(p, m) ==
    IF m.at = 0 THEN "inconclusive" ELSE probePID(p, ProcOf[m.by])
probeMarkerEmptyIsDead(p, m) ==
    IF m.at = 0 THEN "dead"
    ELSE IF HostOf[p] = "unknown" \/ HostOf[ProcOf[m.by]] # HostOf[p] THEN "inconclusive"
    ELSE probePID(p, ProcOf[m.by])

\* An unwritten marker has pid 0; PIDs of another host mean nothing here.
probeMarker(p, m) ==
    IF m.at = 0 \/ HostOf[p] = "unknown" \/ HostOf[ProcOf[m.by]] # HostOf[p]
    THEN "inconclusive"
    ELSE probePID(p, ProcOf[m.by])

timeExpired(m) == StaleAfter > 0 /\ m.at # 0 /\ now > m.at + StaleAfter

isStaleInconclusiveIsDead(p, m) ==
    IF Strategy = "TimeOnly" THEN timeExpired(m) ELSE probeMarker(p, m) # "alive"

isStale(p, m) ==
    \/ Strategy = "TimeOnly" /\ timeExpired(m)
    \/ Strategy \in {"PIDFirst", "PIDOnly"} /\ probeMarker(p, m) = "dead"
    \/ Strategy = "PIDFirst" /\ probeMarker(p, m) = "inconclusive" /\ timeExpired(m)

-----------------------------------------------------------------------------
(* Acquire *)

At(c, label) == call[c].pc = label
SlotOf(c) == call[c].slot

Acquire(c) ==
    /\ At(c, "idle") /\ c \in Lockers /\ life[ProcOf[c]] = "up"
    /\ fence < MaxFence
    /\ call' = [call EXCEPT ![c].pc = "create"]
    /\ UNCHANGED <<path, fence, life, now>>

NextSlotUnbounded(c) ==
    call' = [call EXCEPT ![c] =
                IF SlotOf(c) + 1 =< N
                THEN [Idle EXCEPT !.pc = "create", !.slot = SlotOf(c) + 1]
                ELSE Idle]

\* ErrLocked for this slot: probe the next one, or return ErrLocked.
NextSlot(c) ==
    call' = [call EXCEPT ![c] =
                IF SlotOf(c) + 1 < N
                THEN [Idle EXCEPT !.pc = "create", !.slot = SlotOf(c) + 1]
                ELSE Idle]

CreateMarkerNoExcl(c) ==
    /\ path' = [path EXCEPT ![SlotOf(c)] = [by |-> c, at |-> 0]]
    /\ call' = [call EXCEPT ![c].pc = "write"]

\* O_CREATE|O_EXCL made the file; the marker is written in a later step.
CreateMarker(c) ==
    /\ path[SlotOf(c)] = Absent
    /\ path' = [path EXCEPT ![SlotOf(c)] = [by |-> c, at |-> 0]]
    /\ call' = [call EXCEPT ![c].pc = "write"]

TryCreate(c) ==
    /\ At(c, "create")
    /\ \/ CreateMarker(c)
       \/ /\ path[SlotOf(c)] # Absent
          /\ call' = [call EXCEPT ![c].pc = "read"]
          /\ UNCHANGED path
    /\ UNCHANGED <<fence, life, now>>

\* The write goes to the open file, which may have been unlinked or replaced.
Written(c) ==
    IF path[SlotOf(c)] = [by |-> c, at |-> 0]
    THEN [path EXCEPT ![SlotOf(c)].at = now] ELSE path

WriteMarker(c) ==
    /\ At(c, "write")
    /\ path' = Written(c)
    /\ call' = [call EXCEPT ![c].pc = "fenceRead"]
    /\ UNCHANGED <<fence, life, now>>

\* The write or the close failed: the path is removed, whatever it names now.
\* Nobody looks at the error of that removal: the marker may stay, unwritten or,
\* when only the close failed, written.
WriteMarkerFails(c) ==
    /\ At(c, "write") /\ "io" \in Faults
    /\ \/ path' = [path EXCEPT ![SlotOf(c)] = Absent]
       \/ "remove" \in Faults /\ path' \in {path, Written(c)}
    /\ call' = [call EXCEPT ![c] = Idle]
    /\ UNCHANGED <<fence, life, now>>

ReadMarker(c) ==
    /\ At(c, "read")
    /\ call' = [call EXCEPT ![c].seen = path[SlotOf(c)],
                            ![c].pc = IF path[SlotOf(c)] = Absent THEN "retry" ELSE "judge"]
    /\ UNCHANGED <<path, fence, life, now>>

RetryCreateLoop(c) ==
    /\ At(c, "retry")
    /\ \/ CreateMarker(c)
       \/ /\ path[SlotOf(c)] # Absent
          /\ call' = [call EXCEPT ![c].pc = "read"]
          /\ UNCHANGED path
    /\ UNCHANGED <<fence, life, now>>

RetryCreateClobbers(c) ==
    /\ At(c, "retry")
    /\ path' = [path EXCEPT ![SlotOf(c)] = [by |-> c, at |-> 0]]
    /\ call' = [call EXCEPT ![c].pc = "write"]
    /\ UNCHANGED <<fence, life, now>>

RetryCreateGivesUp(c) ==
    /\ At(c, "retry") /\ NextSlot(c)
    /\ UNCHANGED <<path, fence, life, now>>

\* The marker raced away before it was read: the fast path once more.
RetryCreate(c) ==
    /\ At(c, "retry")
    /\ \/ CreateMarker(c)
       \/ path[SlotOf(c)] # Absent /\ NextSlot(c) /\ UNCHANGED path
    /\ UNCHANGED <<fence, life, now>>

\* Stale: build the new marker in a temporary file.  Held: ErrLocked.
JudgeMarker(c) ==
    /\ At(c, "judge")
    /\ \/ /\ isStale(ProcOf[c], call[c].seen)
          /\ call' = [call EXCEPT ![c].pc = "rename", ![c].stamp = now]
       \/ ~isStale(ProcOf[c], call[c].seen) /\ NextSlot(c)
    /\ UNCHANGED <<path, fence, life, now>>

\* Rename replaces whatever marker the path names now.
TakeoverRename(c) ==
    /\ At(c, "rename")
    /\ path' = [path EXCEPT ![SlotOf(c)] = [by |-> c, at |-> call[c].stamp]]
    /\ call' = [call EXCEPT ![c].pc = "fenceRead"]
    /\ UNCHANGED <<fence, life, now>>

\* Any other error of a system call is returned; no later slot is probed.
AcquireError(c) ==
    /\ "io" \in Faults /\ call[c].pc \in {"create", "read", "retry", "rename"}
    /\ call' = [call EXCEPT ![c] = Idle]
    /\ UNCHANGED <<path, fence, life, now>>

\* A fence that cannot be read or parsed counts as 0.
ReadFence(c) ==
    /\ At(c, "fenceRead")
    /\ \E v \in {fence} \cup (IF "fence" \in Faults THEN {0} ELSE {}) :
          call' = [call EXCEPT ![c].pc = "fenceWrite", ![c].prev = v]
    /\ UNCHANGED <<path, fence, life, now>>

uint64Succ(v) == IF v + 1 < FenceMod THEN v + 1 ELSE 0

WriteFenceNoBump(c) ==
    /\ At(c, "fenceWrite")
    /\ fence' = call[c].prev
    /\ call' = [call EXCEPT ![c].pc = "held", ![c].token = call[c].prev]
    /\ UNCHANGED <<path, life, now>>

\* Temporary file and rename; Acquire returns the Holder.  A rename that answers
\* ErrExist counts as written.
WriteFence(c) ==
    /\ At(c, "fenceWrite")
    /\ \/ fence' = uint64Succ(call[c].prev)
       \/ "fence" \in Faults /\ UNCHANGED fence
    /\ call' = [call EXCEPT ![c].pc = "held", ![c].token = uint64Succ(call[c].prev)]
    /\ UNCHANGED <<path, life, now>>

\* Fencing is best effort: the lock is held with token 0.
WriteFenceFails(c) ==
    /\ At(c, "fenceWrite") /\ "fence" \in Faults
    /\ call' = [call EXCEPT ![c].pc = "held"]
    /\ UNCHANGED <<path, fence, life, now>>

-----------------------------------------------------------------------------
(* Release *)

\* Removes the path; a path that is gone is no error.
Release(c) ==
    /\ At(c, "held")
    /\ path' = [path EXCEPT ![SlotOf(c)] = Absent]
    /\ call' = [call EXCEPT ![c] = Idle]
    /\ UNCHANGED <<fence, life, now>>

\* Remove failed.  The released flag is set already: no later call retries.
ReleaseFails(c) ==
    /\ At(c, "held") /\ "remove" \in Faults
    /\ call' = [call EXCEPT ![c] = Idle]
    /\ UNCHANGED <<path, fence, life, now>>

-----------------------------------------------------------------------------
(* Sweep *)

SweepNextFirstOnly(c, rest) ==
    \/ (rest = {} \/ ~At(c, "idle")) /\ call' = [call EXCEPT ![c] = Idle]
    \/ \E s \in rest :
          /\ At(c, "idle")
          /\ call' = [call EXCEPT ![c] = [Idle EXCEPT !.pc = "sweepRead", !.slot = s,
                                                      !.todo = rest \ {s}]]

\* Visits a remaining slot.  The listing has the files in the order of their
\* names, in which slot 10 is before slot 2 and which nothing depends on.
SweepNext(c, rest) ==
    \/ rest = {} /\ call' = [call EXCEPT ![c] = Idle]
    \/ \E s \in rest :
          call' = [call EXCEPT ![c] = [Idle EXCEPT !.pc = "sweepRead", !.slot = s,
                                                      !.todo = rest \ {s}]]

Sweep(c) ==
    /\ At(c, "idle") /\ c \in Sweepers /\ life[ProcOf[c]] = "up"
    /\ SweepNext(c, {s \in Slots : path[s] # Absent})
    /\ UNCHANGED <<path, fence, life, now>>

SweepRead(c) ==
    /\ At(c, "sweepRead")
    /\ IF path[SlotOf(c)] = Absent
       THEN SweepNext(c, call[c].todo)
       ELSE call' = [call EXCEPT ![c].pc = "sweepJudge", ![c].seen = path[SlotOf(c)]]
    /\ UNCHANGED <<path, fence, life, now>>

SweepJudge(c) ==
    /\ At(c, "sweepJudge")
    /\ IF isStale(ProcOf[c], call[c].seen)
       THEN call' = [call EXCEPT ![c].pc = "sweepReread"]
       ELSE SweepNext(c, call[c].todo)
    /\ UNCHANGED <<path, fence, life, now>>

\* The acquired times and the pids that two reads returned (0 when unwritten)
SameIdentity(m, k) ==
    /\ m.at = k.at
    /\ m.at # 0 => PidOf[ProcOf[m.by]] = PidOf[ProcOf[k.by]]

SweepReread(c) ==
    /\ At(c, "sweepReread")
    /\ IF path[SlotOf(c)] # Absent /\ SameIdentity(path[SlotOf(c)], call[c].seen)
       THEN call' = [call EXCEPT ![c].pc = "sweepRemove"]
       ELSE SweepNext(c, call[c].todo)
    /\ UNCHANGED <<path, fence, life, now>>

SweepRemove(c) ==
    /\ At(c, "sweepRemove")
    /\ \/ path' = [path EXCEPT ![SlotOf(c)] = Absent]
       \/ "sweep" \in Faults /\ UNCHANGED path
    /\ SweepNext(c, call[c].todo)
    /\ UNCHANGED <<fence, life, now>>

\* A marker that cannot be read is left to the operator.
SweepSkips(c) ==
    /\ "io" \in Faults /\ call[c].pc \in {"sweepRead", "sweepReread"}
    /\ SweepNext(c, call[c].todo)
    /\ UNCHANGED <<path, fence, life, now>>

\* The context was cancelled between two directory entries.
SweepStops(c) ==
    /\ At(c, "sweepRead")
    /\ call' = [call EXCEPT ![c] = Idle]
    /\ UNCHANGED <<path, fence, life, now>>

-----------------------------------------------------------------------------
(* Processes and time *)

Crash(p) ==
    /\ life[p] = "up"
    /\ \E c \in Callers : ProcOf[c] = p
    /\ \A c \in Callers : ProcOf[c] = p => call[c].pc \in CrashAt
    /\ life' = [life EXCEPT ![p] = "dead"]
    /\ call' = [c \in Callers |-> IF ProcOf[c] = p THEN [Idle EXCEPT !.pc = "dead"]
                                                   ELSE call[c]]
    /\ UNCHANGED <<path, fence, now>>

\* A new process; its pid may be the pid of one that died.
Spawn(p) ==
    /\ life[p] = "unborn"
    /\ \A q \in Processes : life[q] = "up" /\ MachineOf[q] = MachineOf[p]
                            => PidOf[q] # PidOf[p]
    /\ life' = [life EXCEPT ![p] = "up"]
    /\ UNCHANGED <<path, fence, now, call>>

Tick ==
    /\ now < MaxTime
    /\ now' = now + 1
    /\ UNCHANGED <<path, fence, life, call>>

\* The steps of an Acquire or a Sweep in progress
Step(c) ==
    \/ TryCreate(c) \/ WriteMarker(c) \/ WriteMarkerFails(c)
    \/ ReadMarker(c) \/ RetryCreate(c) \/ JudgeMarker(c)
    \/ TakeoverRename(c) \/ AcquireError(c)
    \/ ReadFence(c) \/ WriteFence(c) \/ WriteFenceFails(c)
    \/ SweepRead(c) \/ SweepJudge(c) \/ SweepReread(c) \/ SweepRemove(c)
    \/ SweepSkips(c) \/ SweepStops(c)

Run(c) == Acquire(c) \/ Sweep(c) \/ Step(c) \/ Release(c) \/ ReleaseFails(c)

Next ==
    \/ \E c \in Callers : Run(c)
    \/ \E p \in Processes : Crash(p) \/ Spawn(p)
    \/ Tick

Spec == Init /\ [][Next]_vars

\* A goroutine that is runnable runs on: calls end, Holders are released, and
\* lockers and sweepers call again (cron jobs, and Sweep on a timer).  Not every
\* Sweep is cancelled before it comes to the same marker, and not every attempt
\* to remove it fails.  Time passes.
Fairness ==
    /\ WF_vars(Tick)
    /\ \A c \in Callers : WF_vars(Run(c))
    /\ \A c \in Sweepers, s \in Slots :
          /\ SF_vars(SlotOf(c) = s /\ SweepRead(c))
          /\ SF_vars(SlotOf(c) = s /\ SweepRemove(c) /\ path'[s] = Absent)

FairSpec == Spec /\ Fairness

-----------------------------------------------------------------------------
(* Properties *)

Holders == {c \in Callers : At(c, "held")}

\* Everybody who shares the hostname shares the machine, and computes the same
\* start time for the same process.
SoundIdentity ==
    \A p, q \in Processes : HostOf[p] = HostOf[q]
        => MachineOf[p] = MachineOf[q] /\ (HasStartTime => BootView[p] = BootView[q])

\* Every probe gets a conclusive answer: one named host, one user.
Probeable ==
    \A p, q \in Processes :
        HostOf[p] = HostOf[q] /\ HostOf[p] # "unknown" /\ UidOf[p] = UidOf[q]

\* The configurations in which the time window never overrules a live holder:
\* it is not set, never consulted, or every probe is conclusive.
ProbeDecides ==
    /\ SoundIdentity
    /\ \/ StaleAfter = 0
       \/ Strategy = "PIDOnly"
       \/ Strategy = "PIDFirst" /\ Probeable

\* No two Holders have the same slot: acquireSlot gives a marker to one caller.
MutualExclusion == \A c, d \in Holders : SlotOf(c) = SlotOf(d) => c = d

\* WithMaxConcurrent(n): at most n Holders of the name at any moment.
AtMostN == Cardinality(Holders) =< N

\* While a Holder is not released its own, written marker is on the disk:
\* nobody's Release, takeover, Sweep or failed write removed or replaced it.
HolderKeepsMarker ==
    \A c \in Holders : path[SlotOf(c)] # Absent
                       /\ path[SlotOf(c)].by = c /\ path[SlotOf(c)].at # 0

\* A caller that decided to take over or to sweep a marker saw the complete
\* marker of a process that is dead: neither a live holder, nor one between
\* creating and writing its marker, is ever judged stale.
JudgedDead ==
    \A c \in Callers : call[c].pc \in {"rename", "sweepReread", "sweepRemove"} =>
        call[c].seen # Absent /\ call[c].seen.at # 0
        /\ life[ProcOf[call[c].seen.by]] = "dead"

\* bumpFence gives a Holder a token larger than every token given before,
\* of which the fence file holds the largest.
FenceStrict ==
    [][\A c \in Callers : At(c, "fenceWrite") /\ At(c, "held")' =>
           call'[c].token > fence]_vars

\* Acquire is non-blocking: every call returns, whatever the others do.
AcquireReturns ==
    \A c \in Lockers : At(c, "create") ~> call[c].pc \in {"idle", "held", "dead"}

\* Process p is dead and its marker is on slot s
Orphaned(s, p) == path[s] # Absent /\ ProcOf[path[s].by] = p /\ life[p] = "dead"

\* Those who visit every slot, sweepers and lockers when there is one slot, and
\* can tell that p is dead: they run on its host
Caretakers(p) ==
    {c \in Callers : /\ c \in Sweepers \/ N = 1
                     /\ life[ProcOf[c]] = "up" /\ HostOf[ProcOf[c]] = HostOf[p]}

\* The marker that a dead process left on a slot does not stay there for ever
\* as long as somebody who visits the slot still runs on its host: takeover by
\* an Acquire, or Sweep, reclaims it.
DeadMarkerReclaimed ==
    \A s \in Slots, p \in Processes :
        Orphaned(s, p) ~> (~Orphaned(s, p) \/ Caretakers(p) = {})

\* filelock in singleton mode implements the contract of the family as long as
\* nobody dies and no file operation fails: ErrLocked in particular is answered
\* only when somebody held the lock during the call.
contractState == [c \in Callers |->
    CASE call[c].pc \in {"create", "read", "retry"} -> "trying"
      [] call[c].pc \in {"write", "fenceRead", "fenceWrite", "held"} -> "in"
      [] call[c].pc = "judge" -> "refused"
      [] OTHER -> "out"]
Contract == INSTANCE LockSpec WITH state <- contractState
ImplementsContract == Contract!Spec
=============================================================================
