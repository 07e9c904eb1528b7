-------------------------------- MODULE FLock --------------------------------
(***************************************************************************)
(* The kernel-lock backend, package flock.  One lock name in one           *)
(* directory: the directory entry of every slot, the advisory lock that    *)
(* the kernel keeps on every inode, the fence sidecar, and the callers.    *)
(* Open, lock, close and remove are steps of their own, so the name of a   *)
(* lock file and the inode that a caller has open may drift apart.  The    *)
(* fence stays far below the range of its uint64.                          *)
(***************************************************************************)
EXTENDS Naturals, FiniteSets

CONSTANTS
    Callers,      \* callers of Acquire, each with its own descriptors
    Inodes,       \* file identities; one is reused only when nothing refers to it
    None,         \* "no file", "no descriptor", "no lock owner"
    N,            \* WithMaxConcurrent
    UnlinkOpen,   \* an open file can be removed: TRUE on Unix, FALSE on Windows
    Ends,         \* how callers end: {"release", "crash"}
    Faults,       \* the calls that may fail
    MaxFence      \* bound: no Acquire starts once the fence reached it

VARIABLES
    file,     \* the inode that the name of every slot is linked to, or None
    owner,    \* the caller whose descriptor has the inode locked, or None
    fence,    \* the number in <name>.fence, a uint64; 0 when there is no such file
    call      \* the call that every caller has in progress, or its Holder

vars == <<file, owner, fence, call>>

Slots == 0..(N - 1)

Labels == {"idle", "open", "lock", "fenceRead", "fenceWrite", "held", "remove"}

Call == [pc : Labels, slot : Slots, fd : Inodes \cup {None}, prev : Nat, token : Nat]

Idle == [pc |-> "idle", slot |-> 0, fd |-> None, prev |-> 0, token |-> 0]

ASSUME FLockAssumption ==
    /\ N \in Nat \ {0}
    /\ UnlinkOpen \in BOOLEAN
    /\ Ends \subseteq {"release", "crash"}
    /\ Faults \subseteq {"open", "lock", "fenceRead", "fenceWrite", "fenceExist"}
    /\ MaxFence \in Nat
    /\ None \notin Inodes /\ None \notin Callers

TypeOK ==
    /\ file \in [Slots -> Inodes \cup {None}]
    /\ owner \in [Inodes -> Callers \cup {None}]
    /\ fence \in Nat
    /\ call \in [Callers -> Call]

Init ==
    /\ file = [s \in Slots |-> None]
    /\ owner = [i \in Inodes |-> None]
    /\ fence = 0
    /\ call = [c \in Callers |-> Idle]

At(c, label) == call[c].pc = label
Goto(c, label) == call' = [call EXCEPT ![c].pc = label]

\* Who has inode i open
OpenBy(i) == {c \in Callers : call[c].fd = i}

\* Closing c's descriptor drops the lock that it holds.
Close(c) == owner' = [i \in Inodes |-> IF owner[i] = c THEN None ELSE owner[i]]

-----------------------------------------------------------------------------
(* Acquire *)

\* The slot loop starts (singleton mode is the loop over one slot).
Acquire(c) ==
    /\ At(c, "idle") /\ fence < MaxFence
    /\ call' = [call EXCEPT ![c] = [Idle EXCEPT !.pc = "open"]]
    /\ UNCHANGED <<file, owner, fence>>

\* os.OpenFile(O_CREATE|O_RDWR): the file that is there ...
OpenExisting(c) ==
    /\ At(c, "open") /\ file[call[c].slot] # None
    /\ call' = [call EXCEPT ![c].pc = "lock", ![c].fd = file[call[c].slot]]
    /\ UNCHANGED <<file, owner, fence>>

\* ... or a new one.
OpenCreates(c) ==
    /\ At(c, "open") /\ file[call[c].slot] = None
    /\ \E i \in Inodes :
        /\ OpenBy(i) = {} /\ \A s \in Slots : file[s] # i
        /\ file' = [file EXCEPT ![call[c].slot] = i]
        /\ call' = [call EXCEPT ![c].pc = "lock", ![c].fd = i]
    /\ UNCHANGED <<owner, fence>>

TryLockShared(c) ==
    /\ At(c, "lock")
    /\ owner' = [owner EXCEPT ![call[c].fd] = c]
    /\ Goto(c, "fenceRead")
    /\ UNCHANGED <<file, fence>>

\* tryLock succeeds.
TryLock(c) ==
    /\ At(c, "lock") /\ owner[call[c].fd] = None
    /\ owner' = [owner EXCEPT ![call[c].fd] = c]
    /\ Goto(c, "fenceRead")
    /\ UNCHANGED <<file, fence>>

NextSlotUnbounded(c) ==
    call' = [call EXCEPT ![c] = [Idle EXCEPT !.pc = "open", !.slot = call[c].slot + 1]]

\* ErrLocked: the next slot, or the answer of Acquire when there is none.
NextSlot(c) ==
    call' = [call EXCEPT ![c] =
        IF call[c].slot + 1 \in Slots
        THEN [Idle EXCEPT !.pc = "open", !.slot = call[c].slot + 1]
        ELSE Idle]

ContendedAlways(c) ==
    /\ At(c, "lock")
    /\ NextSlot(c)
    /\ UNCHANGED <<file, owner, fence>>

\* tryLock answers EWOULDBLOCK: close, try the next slot.
Contended(c) ==
    /\ At(c, "lock") /\ owner[call[c].fd] # None
    /\ NextSlot(c)
    /\ UNCHANGED <<file, owner, fence>>

\* Opening or locking fails otherwise: Acquire returns the error.
AcquireError(c) ==
    /\ \/ At(c, "open") /\ "open" \in Faults
       \/ At(c, "lock") /\ "lock" \in Faults
    /\ call' = [call EXCEPT ![c] = Idle]
    /\ UNCHANGED <<file, owner, fence>>

\* readFence: a file that cannot be read or parsed counts as zero.
ReadFence(c) ==
    /\ At(c, "fenceRead")
    /\ \E v \in {fence} \cup (IF "fenceRead" \in Faults THEN {0} ELSE {}) :
           call' = [call EXCEPT ![c].pc = "fenceWrite", ![c].prev = v]
    /\ UNCHANGED <<file, owner, fence>>

\* writeFence renames the new number into place; Acquire returns the Holder.  A
\* rename that answers ErrExist counts as written.
WriteFence(c) ==
    /\ At(c, "fenceWrite")
    /\ \/ fence' = call[c].prev + 1
       \/ "fenceExist" \in Faults /\ UNCHANGED fence
    /\ call' = [call EXCEPT ![c].pc = "held", ![c].token = call[c].prev + 1]
    /\ UNCHANGED <<file, owner>>

\* writeFence fails: the Holder's token is zero.
WriteFenceFails(c) ==
    /\ At(c, "fenceWrite") /\ "fenceWrite" \in Faults
    /\ call' = [call EXCEPT ![c].pc = "held", ![c].token = 0]
    /\ UNCHANGED <<file, owner, fence>>

-----------------------------------------------------------------------------
(* Release, and the end of a process *)

\* Release closes the descriptor: the kernel drops the lock.
Release(c) ==
    /\ At(c, "held") /\ "release" \in Ends
    /\ Close(c)
    /\ call' = [call EXCEPT ![c].pc = "remove", ![c].fd = None]
    /\ UNCHANGED <<file, fence>>

RemoveOpen(c) ==
    /\ At(c, "remove")
    /\ file' = [file EXCEPT ![call[c].slot] = None]
    /\ call' = [call EXCEPT ![c] = Idle]
    /\ UNCHANGED <<owner, fence>>

\* Release removes the path, whichever file is there by now, if the system
\* lets it: Windows refuses to remove a file that somebody has open.
Remove(c) ==
    /\ At(c, "remove")
    /\ file' = [file EXCEPT ![call[c].slot] =
                    IF UnlinkOpen \/ OpenBy(@) = {} THEN None ELSE @]
    /\ call' = [call EXCEPT ![c] = Idle]
    /\ UNCHANGED <<owner, fence>>

\* The process dies: the kernel closes its descriptor.  A new one may call.
Crash(c) ==
    /\ ~At(c, "idle") /\ "crash" \in Ends
    /\ Close(c)
    /\ call' = [call EXCEPT ![c] = Idle]
    /\ UNCHANGED <<file, fence>>

Run(c) ==
    \/ OpenExisting(c) \/ OpenCreates(c)
    \/ TryLock(c) \/ Contended(c) \/ AcquireError(c)
    \/ ReadFence(c) \/ WriteFence(c) \/ WriteFenceFails(c)
    \/ Remove(c)

Next == \E c \in Callers : Acquire(c) \/ Run(c) \/ Release(c) \/ Crash(c)

Spec == Init /\ [][Next]_vars

-----------------------------------------------------------------------------
(* Properties *)

\* c's Acquire has locked a file, and Release was not called yet.
Holds(c) == call[c].pc \in {"fenceRead", "fenceWrite", "held"}
Holding == {c \in Callers : Holds(c)}

\* At most WithMaxConcurrent callers hold the lock at any moment, although the
\* name of a lock file and the file that a caller has locked are looked up at
\* different moments.
AtMostN == Cardinality(Holding) =< N

\* The reason why: the file that a caller has open is the file of its slot,
\* as long as it has it open; nobody's lock file is removed under it.
OpenFileIsLinked ==
    \A c \in Callers : call[c].fd # None => file[call[c].slot] = call[c].fd

\* The token of a new Holder is larger than every number that the fence file
\* ever had, or it is zero when the fence file was not writable.
FenceStrict ==
    [][\A c \in Callers : At(c, "fenceWrite") /\ At(c, "held")' =>
           call'[c].token = 0 \/ call'[c].token > fence]_vars

\* Every slot implements the contract of the family with one place, through
\* crashes and failing calls: tryLock succeeds only when nobody is inside, and
\* ErrLocked is answered only while another caller is: as soon as Release closed
\* the file, although it has not removed it yet, the next caller gets in.
contractState(s) == [c \in Callers |->
    IF call[c].slot # s THEN "out"
    ELSE IF call[c].pc \in {"open", "lock"} THEN "trying"
    ELSE IF Holds(c) THEN "in"
    ELSE "out"]
Contract(s) == INSTANCE LockSpec WITH N <- 1, state <- contractState(s)
ImplementsContract ==
    /\ \A s \in Slots : Contract(s)!Init
    /\ [][\A s \in Slots :
            \/ Contract(s)!Next
            \/ UNCHANGED contractState(s)
            \/ \E c \in Callers :
                (AcquireError(c) \/ Crash(c)) /\ ~Contended(c) /\ Contract(s)!Abandon(c)]_vars
=============================================================================
