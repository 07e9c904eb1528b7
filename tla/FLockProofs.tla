----------------------------- MODULE FLockProofs -----------------------------
(* Theorems about FLock for every set of callers and of inodes and for every *)
(* number of slots: where an open file cannot be removed, or where nobody   *)
(* calls Release, the kernel lock is a semaphore of N places.               *)
EXTENDS FLock, FiniteSetTheorems, TLAPS

(* The record of a caller without a call is a Call. *)
LEMMA IdleType == Idle \in Call /\ [Idle EXCEPT !.pc = "open"] \in Call
  BY FLockAssumption DEF Idle, Call, Labels, Slots

(* The slot loop stays inside the slots. *)
LEMMA NextSlotType ==
  ASSUME TypeOK, NEW c \in Callers, NextSlot(c)
  PROVE  call' \in [Callers -> Call]
<1>1. CASE call[c].slot + 1 \in Slots
  <2>1. [Idle EXCEPT !.pc = "open", !.slot = call[c].slot + 1] \in Call
    BY <1>1 DEF Idle, Call, Labels
  <2> QED BY <1>1, <2>1 DEF NextSlot, TypeOK
<1>2. CASE call[c].slot + 1 \notin Slots
  BY <1>2, IdleType DEF NextSlot, TypeOK
<1> QED BY <1>1, <1>2

(* Every step keeps the directory, the locks and the calls well-typed. *)
LEMMA TypeStep ==
  ASSUME TypeOK, [Next]_vars
  PROVE  TypeOK'
<1> USE IdleType
<1>1. ASSUME NEW c \in Callers, Acquire(c) PROVE TypeOK'
  BY <1>1 DEF Acquire, TypeOK
<1>2. ASSUME NEW c \in Callers, OpenExisting(c) PROVE TypeOK'
  <2>1. [call[c] EXCEPT !.pc = "lock", !.fd = file[call[c].slot]] \in Call
    BY DEF TypeOK, Call, Labels
  <2>2. call' = [call EXCEPT ![c] = [call[c] EXCEPT !.pc = "lock", !.fd = file[call[c].slot]]]
    BY <1>2 DEF OpenExisting
  <2> QED BY <1>2, <2>1, <2>2 DEF OpenExisting, TypeOK
<1>3. ASSUME NEW c \in Callers, OpenCreates(c) PROVE TypeOK'
  <2>1. PICK i \in Inodes : /\ file' = [file EXCEPT ![call[c].slot] = i]
                            /\ call' = [call EXCEPT ![c].pc = "lock", ![c].fd = i]
    BY <1>3 DEF OpenCreates
  <2>2. [call[c] EXCEPT !.pc = "lock", !.fd = i] \in Call
    BY DEF TypeOK, Call, Labels
  <2>3. call' = [call EXCEPT ![c] = [call[c] EXCEPT !.pc = "lock", !.fd = i]]
    BY <2>1
  <2>4. call' \in [Callers -> Call]
    BY <2>2, <2>3 DEF TypeOK
  <2>5. file' \in [Slots -> Inodes \cup {None}]
    BY <2>1 DEF TypeOK
  <2> QED BY <1>3, <2>4, <2>5 DEF OpenCreates, TypeOK
<1>4. ASSUME NEW c \in Callers, TryLock(c) PROVE TypeOK'
  BY <1>4 DEF TryLock, Goto, TypeOK, Call, Labels
<1>5. ASSUME NEW c \in Callers, Contended(c) PROVE TypeOK'
  BY <1>5, NextSlotType DEF Contended, TypeOK
<1>6. ASSUME NEW c \in Callers, AcquireError(c) PROVE TypeOK'
  BY <1>6 DEF AcquireError, TypeOK
<1>7. ASSUME NEW c \in Callers, ReadFence(c) PROVE TypeOK'
  <2>1. PICK v \in Nat : call' = [call EXCEPT ![c].pc = "fenceWrite", ![c].prev = v]
    BY <1>7, Zenon DEF ReadFence, TypeOK
  <2>2. [call[c] EXCEPT !.pc = "fenceWrite", !.prev = v] \in Call
    BY DEF TypeOK, Call, Labels
  <2>3. call' \in [Callers -> Call]
    BY <2>1, <2>2 DEF TypeOK
  <2> QED BY <1>7, <2>3 DEF ReadFence, TypeOK
<1>8. ASSUME NEW c \in Callers, WriteFence(c) PROVE TypeOK'
  <2>1. call[c].prev + 1 \in Nat
    BY DEF TypeOK, Call
  <2>2. [call[c] EXCEPT !.pc = "held", !.token = call[c].prev + 1] \in Call
    BY <2>1 DEF TypeOK, Call, Labels
  <2>3. call' \in [Callers -> Call]
    BY <1>8, <2>2 DEF WriteFence, TypeOK
  <2> QED BY <1>8, <2>1, <2>3 DEF WriteFence, TypeOK
<1>9. ASSUME NEW c \in Callers, WriteFenceFails(c) PROVE TypeOK'
  <2>1. [call[c] EXCEPT !.pc = "held", !.token = 0] \in Call
    BY DEF TypeOK, Call, Labels
  <2> QED BY <1>9, <2>1 DEF WriteFenceFails, TypeOK
<1>10. ASSUME NEW c \in Callers, Release(c) PROVE TypeOK'
  <2>1. [call[c] EXCEPT !.pc = "remove", !.fd = None] \in Call
    BY DEF TypeOK, Call, Labels
  <2> QED BY <1>10, <2>1 DEF Release, Close, TypeOK
<1>11. ASSUME NEW c \in Callers, Remove(c) PROVE TypeOK'
  BY <1>11 DEF Remove, TypeOK
<1>12. ASSUME NEW c \in Callers, Crash(c) PROVE TypeOK'
  BY <1>12 DEF Crash, Close, TypeOK
<1>13. CASE UNCHANGED vars
  BY <1>13 DEF vars, TypeOK
<1> QED BY <1>1, <1>2, <1>3, <1>4, <1>5, <1>6, <1>7, <1>8, <1>9, <1>10, <1>11, <1>12, <1>13
        DEF Next, Run

(* The empty directory is well-typed. *)
LEMMA TypeInit == Init => TypeOK
  BY IdleType DEF Init, TypeOK

(* The directory, the kernel's locks and the calls are always well-typed.   *)
THEOREM TypeCorrect == Spec => []TypeOK
  BY TypeInit, TypeStep, PTL DEF Spec

-----------------------------------------------------------------------------
(* Nobody's lock file is removed under it: the system refuses to, or the    *)
(* callers end without Release.                                             *)
NoUnlinkRace == ~UnlinkOpen \/ "release" \notin Ends

(* The inductive invariant: the open file is the linked one, and a caller   *)
(* that holds the lock owns the kernel lock of the file that it has open.   *)
OwnsItsFile ==
  \A c \in Callers : Holds(c) => call[c].fd \in Inodes /\ owner[call[c].fd] = c

OpenToLock == \A c \in Callers : At(c, "lock") => call[c].fd \in Inodes

RemoveOnlyAfterRelease == \A c \in Callers : At(c, "remove") => "release" \in Ends

LinkInv == TypeOK /\ OpenFileIsLinked /\ OwnsItsFile /\ OpenToLock /\ RemoveOnlyAfterRelease

(* A step of c that leaves the directory and the locks of the others alone. *)
LEMMA LocalStep ==
  ASSUME LinkInv, TypeOK', NEW c \in Callers,
         \A d \in Callers \ {c} : call'[d] = call[d],
         file' = file,
         \A i \in Inodes : owner[i] \notin {c, None} => owner'[i] = owner[i],
         call'[c].fd # None => file[call'[c].slot] = call'[c].fd,
         Holds(c)' => call'[c].fd \in Inodes /\ owner'[call'[c].fd] = c,
         At(c, "lock")' => call'[c].fd \in Inodes,
         At(c, "remove")' => "release" \in Ends
  PROVE  LinkInv'
<1>1. OpenFileIsLinked'
  BY DEF LinkInv, OpenFileIsLinked
<1>2. OwnsItsFile'
  <2> SUFFICES ASSUME NEW d \in Callers, Holds(d)'
               PROVE  call'[d].fd \in Inodes /\ owner'[call'[d].fd] = d
    BY DEF OwnsItsFile
  <2>1. CASE d = c
    BY <2>1
  <2>2. CASE d # c
    <3>1. call'[d] = call[d] /\ Holds(d)
      BY <2>2 DEF Holds
    <3>2. call[d].fd \in Inodes /\ owner[call[d].fd] = d /\ d \notin {c, None}
      BY <2>2, <3>1, FLockAssumption DEF LinkInv, OwnsItsFile
    <3> QED BY <3>1, <3>2
  <2> QED BY <2>1, <2>2
<1>3. OpenToLock' /\ RemoveOnlyAfterRelease'
  BY DEF LinkInv, OpenToLock, RemoveOnlyAfterRelease, At
<1> QED BY <1>1, <1>2, <1>3 DEF LinkInv

(* The invariant is inductive where nobody unlinks an open file. *)
LEMMA LinkStep ==
  ASSUME NoUnlinkRace, LinkInv, [Next]_vars
  PROVE  LinkInv'
<1>0. TypeOK /\ TypeOK'
  BY TypeStep DEF LinkInv
<1> USE <1>0
<1>1. ASSUME NEW c \in Callers, call' = [call EXCEPT ![c] = Idle] \/ Acquire(c) \/ NextSlot(c),
             file' = file, \A i \in Inodes : owner[i] \notin {c, None} => owner'[i] = owner[i]
      PROVE  LinkInv'
  <2>1. \A d \in Callers \ {c} : call'[d] = call[d]
    BY <1>1 DEF Acquire, NextSlot, TypeOK
  <2>2. call'[c].fd = None /\ call'[c].pc \in {"idle", "open"}
    <3>1. call'[c] \in {Idle, [Idle EXCEPT !.pc = "open"],
                        [Idle EXCEPT !.pc = "open", !.slot = call[c].slot + 1]}
      BY <1>1, Zenon DEF Acquire, NextSlot, TypeOK
    <3>2. ASSUME NEW s
          PROVE  LET r == [Idle EXCEPT !.pc = "open", !.slot = s] IN r.fd = None /\ r.pc = "open"
      BY DEF Idle
    <3>3. [Idle EXCEPT !.pc = "open"].fd = None /\ [Idle EXCEPT !.pc = "open"].pc = "open"
      BY DEF Idle
    <3>4. Idle.fd = None /\ Idle.pc = "idle"
      BY DEF Idle
    <3> QED BY <3>1, <3>2, <3>3, <3>4, Zenon
  <2> QED BY <1>1, <2>1, <2>2, LocalStep DEF Holds, At
<1>2. ASSUME NEW c \in Callers, Acquire(c) PROVE LinkInv'
  BY <1>1, <1>2 DEF Acquire
<1>3. ASSUME NEW c \in Callers, OpenExisting(c) PROVE LinkInv'
  <2>1. /\ \A d \in Callers \ {c} : call'[d] = call[d]
        /\ call'[c].pc = "lock" /\ call'[c].slot = call[c].slot /\ call[c].slot \in Slots
        /\ call'[c].fd = file[call[c].slot] /\ call'[c].fd # None
    BY <1>3 DEF OpenExisting, TypeOK, Call
  <2>2. call'[c].fd \in Inodes
    BY <2>1 DEF TypeOK
  <2> QED BY <1>3, <2>1, <2>2, LocalStep DEF OpenExisting, Holds, At
<1>4. ASSUME NEW c \in Callers, OpenCreates(c) PROVE LinkInv'
  <2>1. PICK i \in Inodes : /\ file' = [file EXCEPT ![call[c].slot] = i]
                            /\ call' = [call EXCEPT ![c].pc = "lock", ![c].fd = i]
    BY <1>4 DEF OpenCreates
  <2>2. /\ \A d \in Callers \ {c} : call'[d] = call[d]
        /\ call'[c].pc = "lock" /\ call'[c].slot = call[c].slot /\ call'[c].fd = i
        /\ call[c].slot \in Slots /\ file[call[c].slot] = None /\ owner' = owner
    BY <1>4, <2>1 DEF OpenCreates, TypeOK, Call
  \* nobody has the file of this slot open: there was none
  <2>3. \A d \in Callers : call[d].fd # None => call[d].slot # call[c].slot
    BY <2>2 DEF LinkInv, OpenFileIsLinked
  <2>4. OpenFileIsLinked'
    BY <2>1, <2>2, <2>3 DEF LinkInv, OpenFileIsLinked, TypeOK, Call
  <2>5. OwnsItsFile' /\ OpenToLock' /\ RemoveOnlyAfterRelease'
    BY <2>2 DEF LinkInv, OwnsItsFile, OpenToLock, RemoveOnlyAfterRelease, Holds, At
  <2> QED BY <2>4, <2>5 DEF LinkInv
<1>5. ASSUME NEW c \in Callers, TryLock(c) PROVE LinkInv'
  <2>1. /\ \A d \in Callers \ {c} : call'[d] = call[d]
        /\ call'[c].pc = "fenceRead" /\ call'[c].slot = call[c].slot /\ call'[c].fd = call[c].fd
        /\ call[c].fd \in Inodes /\ owner[call[c].fd] = None
        /\ owner' = [owner EXCEPT ![call[c].fd] = c]
    BY <1>5 DEF TryLock, Goto, At, LinkInv, OpenToLock, TypeOK, Call
  <2>2. /\ \A i \in Inodes : owner[i] \notin {c, None} => owner'[i] = owner[i]
        /\ owner'[call[c].fd] = c
    BY <2>1 DEF TypeOK
  <2>3. file' = file /\ (call[c].fd # None => file[call[c].slot] = call[c].fd)
    BY <1>5 DEF TryLock, LinkInv, OpenFileIsLinked
  <2> QED BY <2>1, <2>2, <2>3, LocalStep DEF Holds, At
<1>6. ASSUME NEW c \in Callers, Contended(c) PROVE LinkInv'
  BY <1>1, <1>6 DEF Contended
<1>7. ASSUME NEW c \in Callers, AcquireError(c) PROVE LinkInv'
  BY <1>1, <1>7 DEF AcquireError
<1>8. ASSUME NEW c \in Callers, ReadFence(c) \/ WriteFence(c) \/ WriteFenceFails(c)
      PROVE  LinkInv'
  <2>1. \/ \E v : call' = [call EXCEPT ![c].pc = "fenceWrite", ![c].prev = v]
        \/ \E v : call' = [call EXCEPT ![c].pc = "held", ![c].token = v]
    BY <1>8, Zenon DEF ReadFence, WriteFence, WriteFenceFails
  <2>2. /\ \A d \in Callers \ {c} : call'[d] = call[d]
        /\ call'[c].pc \in {"fenceWrite", "held"}
        /\ call'[c].slot = call[c].slot /\ call'[c].fd = call[c].fd
    BY <2>1 DEF TypeOK, Call
  <2>3. file' = file /\ owner' = owner /\ Holds(c)
    BY <1>8 DEF ReadFence, WriteFence, WriteFenceFails, Holds, At
  <2>4. /\ call[c].fd # None => file[call[c].slot] = call[c].fd
        /\ call[c].fd \in Inodes /\ owner[call[c].fd] = c
    BY <2>3 DEF LinkInv, OpenFileIsLinked, OwnsItsFile
  <2> QED BY <2>2, <2>3, <2>4, LocalStep DEF At
<1>9. ASSUME NEW c \in Callers, Release(c) PROVE LinkInv'
  <2>1. /\ \A d \in Callers \ {c} : call'[d] = call[d]
        /\ call'[c].pc = "remove" /\ call'[c].fd = None
    BY <1>9 DEF Release, TypeOK, Call
  <2>2. \A i \in Inodes : owner[i] \notin {c, None} => owner'[i] = owner[i]
    BY <1>9 DEF Release, Close
  <2> QED BY <1>9, <2>1, <2>2, LocalStep DEF Release, Holds, At
<1>10. ASSUME NEW c \in Callers, Remove(c) PROVE LinkInv'
  <2>1. /\ \A d \in Callers \ {c} : call'[d] = call[d]
        /\ call'[c].pc = "idle" /\ call'[c].fd = None
        /\ owner' = owner /\ call[c].slot \in Slots
    BY <1>10 DEF Remove, Idle, TypeOK, Call
  <2>2. ~UnlinkOpen
    BY <1>10 DEF Remove, LinkInv, RemoveOnlyAfterRelease, NoUnlinkRace
  \* a file that somebody has open stays linked
  <2>3. ASSUME NEW d \in Callers, call[d].fd # None
        PROVE  file'[call[d].slot] = call[d].fd
    <3>1. file[call[d].slot] = call[d].fd /\ call[d].slot \in Slots
      BY <2>3 DEF LinkInv, OpenFileIsLinked, TypeOK, Call
    <3>2. d \in OpenBy(file[call[d].slot])
      BY <3>1 DEF OpenBy
    <3> QED BY <1>10, <2>1, <2>2, <3>1, <3>2 DEF Remove, TypeOK
  <2>4. OpenFileIsLinked'
    BY <2>1, <2>3 DEF OpenFileIsLinked
  <2>5. OwnsItsFile' /\ OpenToLock' /\ RemoveOnlyAfterRelease'
    BY <2>1 DEF LinkInv, OwnsItsFile, OpenToLock, RemoveOnlyAfterRelease, Holds, At
  <2> QED BY <2>4, <2>5 DEF LinkInv
<1>11. ASSUME NEW c \in Callers, Crash(c) PROVE LinkInv'
  BY <1>1, <1>11 DEF Crash, Close
<1>12. CASE UNCHANGED vars
  BY <1>12 DEF vars, LinkInv, OpenFileIsLinked, OwnsItsFile, OpenToLock,
     RemoveOnlyAfterRelease, Holds, At
<1> QED BY <1>2, <1>3, <1>4, <1>5, <1>6, <1>7, <1>8, <1>9, <1>10, <1>11, <1>12 DEF Next, Run

(* It holds in the empty directory. *)
LEMMA LinkInit == Init => LinkInv
  BY TypeInit DEF Init, Idle, LinkInv, OpenFileIsLinked, OwnsItsFile, OpenToLock,
     RemoveOnlyAfterRelease, Holds, At

(* Callers that hold the lock are in different slots, so there are at most N. *)
LEMMA SlotsBoundHolding ==
  ASSUME LinkInv
  PROVE  AtMostN
<1> DEFINE f == [c \in Holding |-> call[c].slot]
<1>1. f \in [Holding -> Slots]
  BY DEF Holding, LinkInv, TypeOK, Call
<1>2. ASSUME NEW c \in Holding, NEW d \in Holding, f[c] = f[d] PROVE c = d
  <2>1. /\ call[c].fd \in Inodes /\ owner[call[c].fd] = c
        /\ call[d].fd \in Inodes /\ owner[call[d].fd] = d
    BY DEF Holding, LinkInv, OwnsItsFile
  <2>2. call[c].fd = file[call[c].slot] /\ call[d].fd = file[call[d].slot]
    BY <2>1, FLockAssumption DEF Holding, LinkInv, OpenFileIsLinked
  <2> QED BY <1>2, <2>1, <2>2
<1>3. f \in Injection(Holding, Slots)
  BY <1>1, <1>2 DEF Injection, IsInjective
<1>4. IsFiniteSet(Slots) /\ Cardinality(Slots) = N
  BY FS_Interval, FLockAssumption DEF Slots
<1>5. Cardinality(Holding) =< Cardinality(Slots)
  BY <1>3, <1>4, FS_Injection
<1> QED BY <1>4, <1>5 DEF AtMostN

(* Where an open file cannot be removed (Windows), or where processes end   *)
(* without Release, at most N callers hold the lock, whatever calls fail    *)
(* and wherever processes die.  The hypothesis cannot be dropped: on Unix,  *)
(* with Release, the run flock_unlink has a counterexample.                 *)
THEOREM KernelExclusion == NoUnlinkRace => (Spec => [](OpenFileIsLinked /\ AtMostN))
<1> SUFFICES ASSUME NoUnlinkRace
             PROVE  Spec => [](OpenFileIsLinked /\ AtMostN)
  OBVIOUS
<1>1. LinkInv /\ [Next]_vars => LinkInv'
  BY LinkStep
<1>2. LinkInv => OpenFileIsLinked /\ AtMostN
  BY SlotsBoundHolding DEF LinkInv
<1> QED BY LinkInit, <1>1, <1>2, PTL DEF Spec

(* Under the same hypothesis the name of a slot and the file that a caller   *)
(* has open never drift apart, between any two of its system calls.          *)
THEOREM OpenFileStaysLinked == NoUnlinkRace => (Spec => []OpenFileIsLinked)
<1> SUFFICES ASSUME NoUnlinkRace
             PROVE  Spec => []OpenFileIsLinked
  OBVIOUS
<1>1. LinkInv /\ [Next]_vars => LinkInv'
  BY LinkStep
<1>2. LinkInv => OpenFileIsLinked
  BY DEF LinkInv
<1> QED BY LinkInit, <1>1, <1>2, PTL DEF Spec

-----------------------------------------------------------------------------
(* In singleton mode nobody else is between the two halves of the fence, so  *)
(* what was read is what the file has when it is written.                    *)
ReadIsCurrent == \A c \in Callers : At(c, "fenceWrite") => call[c].prev = fence

FenceInv == LinkInv /\ ReadIsCurrent

SingleReader == NoUnlinkRace /\ N = 1 /\ "fenceRead" \notin Faults

(* In singleton mode, one caller holds the lock. *)
LEMMA OneHolds ==
  ASSUME N = 1, LinkInv, NEW c \in Callers, NEW d \in Callers, Holds(c), Holds(d)
  PROVE  c = d
<1>1. call[c].slot = call[d].slot
  BY DEF LinkInv, TypeOK, Call, Slots
<1>2. /\ call[c].fd \in Inodes /\ owner[call[c].fd] = c
      /\ call[d].fd \in Inodes /\ owner[call[d].fd] = d
  BY DEF LinkInv, OwnsItsFile
<1>3. call[c].fd = call[d].fd
  BY <1>1, <1>2, FLockAssumption DEF LinkInv, OpenFileIsLinked
<1> QED BY <1>2, <1>3

(* Every step keeps the number that was read current. *)
LEMMA FenceStep ==
  ASSUME SingleReader, FenceInv, [Next]_vars
  PROVE  FenceInv'
<1>0. LinkInv /\ LinkInv' /\ TypeOK /\ TypeOK'
  BY LinkStep DEF SingleReader, FenceInv, LinkInv
<1> SUFFICES ASSUME NEW d \in Callers, At(d, "fenceWrite")'
             PROVE  call'[d].prev = fence'
  BY <1>0 DEF FenceInv, ReadIsCurrent, At
<1>1. ASSUME NEW c \in Callers, ReadFence(c) PROVE call'[d].prev = fence'
  <2>1. call' = [call EXCEPT ![c].pc = "fenceWrite", ![c].prev = fence] /\ fence' = fence
    BY <1>1 DEF ReadFence, SingleReader
  <2>2. CASE d = c
    BY <1>0, <2>1, <2>2 DEF TypeOK, Call
  <2>3. CASE d # c
    BY <1>0, <2>1, <2>3 DEF TypeOK, FenceInv, ReadIsCurrent, At
  <2> QED BY <2>2, <2>3
<1>2. ASSUME NEW c \in Callers, WriteFence(c) PROVE call'[d].prev = fence'
  <2>1. Holds(c) /\ call'[c].pc = "held" /\ (d # c => call'[d] = call[d])
    BY <1>0, <1>2 DEF WriteFence, Holds, At, TypeOK, Call
  <2>2. d # c /\ Holds(d)
    BY <2>1 DEF At, Holds
  <2> QED BY <1>0, <2>1, <2>2, OneHolds DEF SingleReader
<1>3. ASSUME NEW c \in Callers, fence' = fence, d # c => call'[d] = call[d],
             call'[c].pc # "fenceWrite"
      PROVE  call'[d].prev = fence'
  BY <1>3 DEF FenceInv, ReadIsCurrent, At
<1>4. ASSUME NEW c \in Callers, call' = [call EXCEPT ![c] = Idle] \/ Acquire(c) \/ NextSlot(c)
      PROVE  call'[c].pc # "fenceWrite" /\ (d # c => call'[d] = call[d])
  <2>1. call'[c] \in {Idle, [Idle EXCEPT !.pc = "open"],
                      [Idle EXCEPT !.pc = "open", !.slot = call[c].slot + 1]}
    BY <1>0, <1>4, Zenon DEF Acquire, NextSlot, TypeOK
  <2>2. /\ Idle.pc = "idle" /\ [Idle EXCEPT !.pc = "open"].pc = "open"
        /\ [Idle EXCEPT !.pc = "open", !.slot = call[c].slot + 1].pc = "open"
    BY DEF Idle
  <2>3. call'[c].pc # "fenceWrite"
    BY <2>1, <2>2
  <2> QED BY <1>0, <1>4, <2>3 DEF Acquire, NextSlot, TypeOK
<1>5. ASSUME NEW c \in Callers, \/ OpenExisting(c) \/ OpenCreates(c) \/ TryLock(c)
                                \/ WriteFenceFails(c) \/ Release(c)
      PROVE  call'[d].prev = fence'
  <2>1. fence' = fence
    BY <1>5 DEF OpenExisting, OpenCreates, TryLock, WriteFenceFails, Release
  <2>2. call'[c].pc \in {"lock", "fenceRead", "held", "remove"} /\ (d # c => call'[d] = call[d])
    <3>1. \/ \E v : call' = [call EXCEPT ![c].pc = "lock", ![c].fd = v]
          \/ call' = [call EXCEPT ![c].pc = "fenceRead"]
          \/ call' = [call EXCEPT ![c].pc = "held", ![c].token = 0]
          \/ call' = [call EXCEPT ![c].pc = "remove", ![c].fd = None]
      BY <1>5, Zenon DEF OpenExisting, OpenCreates, TryLock, Goto, WriteFenceFails, Release
    <3> QED BY <1>0, <3>1 DEF TypeOK, Call
  <2> QED BY <1>3, <2>1, <2>2
<1>6. ASSUME NEW c \in Callers, \/ Acquire(c) \/ Contended(c) \/ AcquireError(c)
                                \/ Remove(c) \/ Crash(c)
      PROVE  call'[d].prev = fence'
  <2>1. /\ fence' = fence
        /\ call' = [call EXCEPT ![c] = Idle] \/ Acquire(c) \/ NextSlot(c)
    BY <1>6 DEF Acquire, Contended, AcquireError, Remove, Crash
  <2> QED BY <1>3, <1>4, <2>1
<1>7. CASE UNCHANGED vars
  BY <1>7 DEF vars, FenceInv, ReadIsCurrent, At
<1> QED BY <1>1, <1>2, <1>5, <1>6, <1>7 DEF Next, Run

(* A step to a Holder raises the fence, or leaves the token zero. *)
LEMMA RaisesFence ==
  ASSUME FenceInv, [Next]_vars, NEW c \in Callers, At(c, "fenceWrite"), At(c, "held")'
  PROVE  call'[c].token = 0 \/ call'[c].token > fence
<1>0. TypeOK /\ call[c] \in Call /\ call[c].pc = "fenceWrite" /\ call'[c].pc = "held"
  BY DEF FenceInv, LinkInv, TypeOK, At
<1>1. CASE WriteFence(c)
  BY <1>0, <1>1 DEF WriteFence, TypeOK, Call, FenceInv, ReadIsCurrent, At
<1>2. CASE WriteFenceFails(c)
  BY <1>0, <1>2 DEF WriteFenceFails, TypeOK, Call
<1>3. ASSUME NEW d \in Callers, d # c, Acquire(d) \/ Run(d) \/ Release(d) \/ Crash(d)
      PROVE  call'[c] = call[c]
  BY <1>0, <1>3 DEF Acquire, Run, Release, Crash, OpenExisting, OpenCreates, TryLock, Goto,
     Contended, NextSlot, AcquireError, ReadFence, WriteFence, WriteFenceFails, Remove, TypeOK
<1>4. CASE Acquire(c) \/ Release(c) \/ OpenExisting(c) \/ OpenCreates(c) \/ TryLock(c)
           \/ Contended(c) \/ AcquireError(c) \/ ReadFence(c) \/ Remove(c)
  BY <1>0, <1>4 DEF Acquire, Release, OpenExisting, OpenCreates, TryLock, Contended,
     AcquireError, ReadFence, Remove, At
<1>5. CASE Crash(c)
  BY <1>0, <1>5 DEF Crash, Idle, TypeOK
<1>6. CASE UNCHANGED vars
  BY <1>0, <1>6 DEF vars
<1> QED BY <1>0, <1>1, <1>2, <1>3, <1>4, <1>5, <1>6 DEF Next, Run

(* In singleton mode, where nobody's lock file is removed under it and the    *)
(* fence file can be read, the token of a new Holder is larger than every     *)
(* number that the file ever had, or zero when it could not be written;       *)
(* processes may die at any step.  The file has every token that was given,   *)
(* unless a rename answered ErrExist: the next Holder then gets that token    *)
(* once more.                                                                 *)
THEOREM FenceRises == SingleReader => (Spec => FenceStrict)
<1> SUFFICES ASSUME SingleReader
             PROVE  Spec => FenceStrict
  OBVIOUS
<1>1. Init => FenceInv
  BY LinkInit DEF Init, Idle, FenceInv, ReadIsCurrent, At
<1>2. FenceInv /\ [Next]_vars => FenceInv'
  BY FenceStep
<1>3. FenceInv /\ [Next]_vars =>
        [\A c \in Callers : At(c, "fenceWrite") /\ At(c, "held")' =>
           call'[c].token = 0 \/ call'[c].token > fence]_vars
  BY RaisesFence
<1> QED BY <1>1, <1>2, <1>3, PTL DEF Spec, FenceStrict

-----------------------------------------------------------------------------
(* The refinement.  A slot sees a caller as "trying" while it opens and locks *)
(* the file of the slot, and as "in" while it holds the lock.  An owner of a  *)
(* kernel lock is a caller that holds the lock, and by OpenFileIsLinked it is *)
(* the file of this slot that it has locked.                                  *)

OwnerHolds ==
  \A i \in Inodes : owner[i] # None =>
     /\ owner[i] \in Callers
     /\ call[owner[i]].pc \in {"fenceRead", "fenceWrite", "held"}
     /\ call[owner[i]].fd = i

SlotOfFile ==
  \A s \in Slots, t \in Slots : file[s] # None /\ file[s] = file[t] => s = t

ContractInv == LinkInv /\ OwnerHolds /\ SlotOfFile

(* What the steps that start afresh, on a slot or without one, leave. *)
LEMMA FreshCall ==
  ASSUME TypeOK, NEW c \in Callers, call' = [call EXCEPT ![c] = Idle] \/ Acquire(c) \/ NextSlot(c)
  PROVE  /\ \A d \in Callers \ {c} : call'[d] = call[d]
         /\ call'[c].fd = None
         /\ call' = [call EXCEPT ![c] = Idle] => call'[c].pc = "idle"
         /\ Acquire(c) => call'[c].pc = "open"
         /\ NextSlot(c) => \/ call'[c].pc = "open" /\ call'[c].slot = call[c].slot + 1
                           \/ call'[c].pc = "idle"
<1>1. \A d \in Callers \ {c} : call'[d] = call[d]
  BY DEF Acquire, NextSlot, TypeOK
<1>2. ASSUME call' = [call EXCEPT ![c] = Idle] PROVE call'[c].pc = "idle" /\ call'[c].fd = None
  BY <1>2 DEF Idle, TypeOK
<1>3. ASSUME Acquire(c) PROVE call'[c].pc = "open" /\ call'[c].fd = None
  BY <1>3 DEF Acquire, Idle, TypeOK
<1>4. ASSUME NextSlot(c)
      PROVE  /\ \/ call'[c].pc = "open" /\ call'[c].slot = call[c].slot + 1
                \/ call'[c].pc = "idle"
             /\ call'[c].fd = None
  <2>1. CASE call[c].slot + 1 \in Slots
    <3>1. call'[c] = [Idle EXCEPT !.pc = "open", !.slot = call[c].slot + 1]
      BY <1>4, <2>1 DEF NextSlot, TypeOK
    <3> QED BY <3>1 DEF Idle
  <2>2. CASE call[c].slot + 1 \notin Slots
    BY <1>2, <1>4, <2>2 DEF NextSlot
  <2> QED BY <2>1, <2>2
<1> QED BY <1>1, <1>2, <1>3, <1>4

(* What the other steps of a call do to it. *)
LEMMA CallEffect ==
  ASSUME TypeOK, NEW c \in Callers
  PROVE  /\ OpenExisting(c) =>
               /\ \A d \in Callers \ {c} : call'[d] = call[d]
               /\ call[c].pc = "open" /\ call'[c].pc = "lock" /\ call'[c].slot = call[c].slot
         /\ OpenCreates(c) =>
               /\ \A d \in Callers \ {c} : call'[d] = call[d]
               /\ call[c].pc = "open" /\ call'[c].pc = "lock" /\ call'[c].slot = call[c].slot
         /\ TryLock(c) =>
               /\ \A d \in Callers \ {c} : call'[d] = call[d]
               /\ call[c].pc = "lock" /\ call'[c].pc = "fenceRead"
               /\ call'[c].slot = call[c].slot /\ call'[c].fd = call[c].fd
         /\ ReadFence(c) \/ WriteFence(c) \/ WriteFenceFails(c) =>
               /\ \A d \in Callers \ {c} : call'[d] = call[d]
               /\ call[c].pc \in {"fenceRead", "fenceWrite"} /\ call'[c].pc \in {"fenceWrite", "held"}
               /\ call'[c].slot = call[c].slot /\ call'[c].fd = call[c].fd
         /\ Release(c) =>
               /\ \A d \in Callers \ {c} : call'[d] = call[d]
               /\ call[c].pc = "held" /\ call'[c].pc = "remove" /\ call'[c].slot = call[c].slot
<1>1. ASSUME NEW v, NEW w, call' = [call EXCEPT ![c].pc = w, ![c].fd = v]
      PROVE  /\ \A d \in Callers \ {c} : call'[d] = call[d]
             /\ call'[c].pc = w /\ call'[c].slot = call[c].slot
  BY <1>1 DEF TypeOK, Call
<1>2. ASSUME OpenExisting(c)
      PROVE  /\ \A d \in Callers \ {c} : call'[d] = call[d]
             /\ call[c].pc = "open" /\ call'[c].pc = "lock" /\ call'[c].slot = call[c].slot
  BY <1>1, <1>2 DEF OpenExisting, At
<1>3. ASSUME OpenCreates(c)
      PROVE  /\ \A d \in Callers \ {c} : call'[d] = call[d]
             /\ call[c].pc = "open" /\ call'[c].pc = "lock" /\ call'[c].slot = call[c].slot
  <2>1. PICK i \in Inodes : call' = [call EXCEPT ![c].pc = "lock", ![c].fd = i]
    BY <1>3 DEF OpenCreates
  <2> QED BY <1>1, <1>3, <2>1 DEF OpenCreates, At
<1>4. ASSUME TryLock(c)
      PROVE  /\ \A d \in Callers \ {c} : call'[d] = call[d]
             /\ call[c].pc = "lock" /\ call'[c].pc = "fenceRead"
             /\ call'[c].slot = call[c].slot /\ call'[c].fd = call[c].fd
  BY <1>4 DEF TryLock, Goto, At, TypeOK, Call
<1>5. ASSUME ReadFence(c) \/ WriteFence(c) \/ WriteFenceFails(c)
      PROVE  /\ \A d \in Callers \ {c} : call'[d] = call[d]
             /\ call[c].pc \in {"fenceRead", "fenceWrite"} /\ call'[c].pc \in {"fenceWrite", "held"}
             /\ call'[c].slot = call[c].slot /\ call'[c].fd = call[c].fd
  <2>1. \/ \E v : call' = [call EXCEPT ![c].pc = "fenceWrite", ![c].prev = v]
        \/ \E v : call' = [call EXCEPT ![c].pc = "held", ![c].token = v]
    BY <1>5, Zenon DEF ReadFence, WriteFence, WriteFenceFails
  <2>2. /\ \A d \in Callers \ {c} : call'[d] = call[d]
        /\ call'[c].pc \in {"fenceWrite", "held"}
        /\ call'[c].slot = call[c].slot /\ call'[c].fd = call[c].fd
    BY <2>1 DEF TypeOK, Call
  <2>3. call[c].pc \in {"fenceRead", "fenceWrite"}
    BY <1>5 DEF ReadFence, WriteFence, WriteFenceFails, At
  <2> QED BY <2>2, <2>3
<1>6. ASSUME Release(c)
      PROVE  /\ \A d \in Callers \ {c} : call'[d] = call[d]
             /\ call[c].pc = "held" /\ call'[c].pc = "remove" /\ call'[c].slot = call[c].slot
  BY <1>1, <1>6 DEF Release, At
<1> QED BY <1>2, <1>3, <1>4, <1>5, <1>6

(* A step of c keeps the owners' calls when c owns nothing after it, or what *)
(* it owned before.                                                          *)
LEMMA OwnerStep ==
  ASSUME OwnerHolds, NEW c \in Callers,
         \A d \in Callers \ {c} : call'[d] = call[d],
         \A i \in Inodes : owner'[i] = None \/ (owner'[i] = owner[i] /\ owner[i] # c)
                           \/ (owner'[i] = c /\ call'[c].fd = i
                               /\ call'[c].pc \in {"fenceRead", "fenceWrite", "held"})
  PROVE  OwnerHolds'
  BY DEF OwnerHolds

(* The directory links a file to one slot, and its locks have live owners. *)
LEMMA ContractInvStep ==
  ASSUME NoUnlinkRace, ContractInv, [Next]_vars
  PROVE  ContractInv'
<1>0. LinkInv /\ LinkInv' /\ TypeOK /\ OwnerHolds /\ SlotOfFile
  BY LinkStep DEF ContractInv, LinkInv
<1> USE <1>0
<1>1. ASSUME NEW c \in Callers, call[c].pc \notin {"fenceRead", "fenceWrite", "held"}
      PROVE  \A i \in Inodes : owner[i] # c
  BY <1>1, FLockAssumption DEF OwnerHolds
<1>2. ASSUME NEW c \in Callers, Acquire(c) \/ Contended(c) \/ AcquireError(c) PROVE ContractInv'
  <2>1. /\ call' = [call EXCEPT ![c] = Idle] \/ Acquire(c) \/ NextSlot(c)
        /\ owner' = owner /\ file' = file /\ call[c].pc \in {"idle", "open", "lock"}
    BY <1>2 DEF Acquire, Contended, AcquireError, At
  <2>2. OwnerHolds'
    BY <1>1, <2>1, FreshCall, OwnerStep
  <2> QED BY <2>1, <2>2 DEF ContractInv, SlotOfFile
<1>3. ASSUME NEW c \in Callers, OpenExisting(c) PROVE ContractInv'
  <2>1. owner' = owner /\ file' = file
    BY <1>3 DEF OpenExisting
  <2>2. OwnerHolds'
    BY <1>1, <1>3, <2>1, CallEffect, OwnerStep
  <2> QED BY <2>1, <2>2 DEF ContractInv, SlotOfFile
<1>4. ASSUME NEW c \in Callers, OpenCreates(c) PROVE ContractInv'
  <2>1. owner' = owner
    BY <1>4 DEF OpenCreates
  <2>2. OwnerHolds'
    BY <1>1, <1>4, <2>1, CallEffect, OwnerStep
  <2>3. PICK i \in Inodes : /\ \A s \in Slots : file[s] # i
                            /\ file' = [file EXCEPT ![call[c].slot] = i]
    BY <1>4 DEF OpenCreates
  <2>4. SlotOfFile'
    BY <2>3 DEF SlotOfFile, TypeOK
  <2> QED BY <2>2, <2>4 DEF ContractInv
<1>5. ASSUME NEW c \in Callers, TryLock(c) PROVE ContractInv'
  <2>1. file' = file /\ owner' = [owner EXCEPT ![call[c].fd] = c]
    BY <1>5 DEF TryLock
  <2>2. \A i \in Inodes : owner'[i] = owner[i] \/ (i = call[c].fd /\ owner'[i] = c)
    BY <2>1 DEF TypeOK
  <2>3. OwnerHolds'
    BY <1>1, <1>5, <2>2, CallEffect, OwnerStep
  <2> QED BY <2>1, <2>3 DEF ContractInv, SlotOfFile
<1>6. ASSUME NEW c \in Callers, ReadFence(c) \/ WriteFence(c) \/ WriteFenceFails(c)
      PROVE  ContractInv'
  <2>1. file' = file /\ owner' = owner
    BY <1>6 DEF ReadFence, WriteFence, WriteFenceFails
  <2>2. \A i \in Inodes : owner[i] = c => call[c].fd = i
    BY FLockAssumption DEF OwnerHolds
  <2>3. OwnerHolds'
    BY <1>6, <2>1, <2>2, CallEffect, OwnerStep
  <2> QED BY <2>1, <2>3 DEF ContractInv, SlotOfFile
<1>7. ASSUME NEW c \in Callers, Release(c) \/ Crash(c) PROVE ContractInv'
  <2>1. /\ file' = file
        /\ \A i \in Inodes : owner'[i] = None \/ (owner'[i] = owner[i] /\ owner[i] # c)
    BY <1>7 DEF Release, Crash, Close
  <2>2. \A d \in Callers \ {c} : call'[d] = call[d]
    BY <1>7, CallEffect, FreshCall DEF Crash
  <2>3. OwnerHolds'
    BY <2>1, <2>2, OwnerStep
  <2> QED BY <2>1, <2>3 DEF ContractInv, SlotOfFile
<1>8. ASSUME NEW c \in Callers, Remove(c) PROVE ContractInv'
  <2>1. owner' = owner /\ call' = [call EXCEPT ![c] = Idle] /\ call[c].pc = "remove"
    BY <1>8 DEF Remove, At
  <2>2. OwnerHolds'
    BY <1>1, <2>1, FreshCall, OwnerStep
  <2>3. \A s \in Slots : file'[s] = file[s] \/ file'[s] = None
    BY <1>8 DEF Remove, TypeOK
  <2>4. SlotOfFile'
    BY <2>3 DEF SlotOfFile
  <2> QED BY <2>2, <2>4 DEF ContractInv
<1>9. CASE UNCHANGED vars
  BY <1>9 DEF vars, ContractInv, OwnerHolds, SlotOfFile
<1> QED BY <1>2, <1>3, <1>4, <1>5, <1>6, <1>7, <1>8, <1>9 DEF Next, Run

(* They do in the empty directory. *)
LEMMA ContractInvInit == Init => ContractInv
  BY LinkInit DEF Init, ContractInv, OwnerHolds, SlotOfFile

(* The state that a slot has of a caller. *)
Seen(s, r) == IF r.slot # s THEN "out"
              ELSE IF r.pc \in {"open", "lock"} THEN "trying"
              ELSE IF r.pc \in {"fenceRead", "fenceWrite", "held"} THEN "in"
              ELSE "out"

(* A step of one caller changes the state of that caller only. *)
LEMMA ContractUpdate ==
  ASSUME NEW s \in Slots, NEW c \in Callers,
         \A d \in Callers \ {c} : call'[d] = call[d]
  PROVE  /\ contractState(s)[c] = Seen(s, call[c])
         /\ contractState(s)' = [contractState(s) EXCEPT ![c] = Seen(s, call'[c])]
         /\ Seen(s, call'[c]) = Seen(s, call[c]) => UNCHANGED contractState(s)
<1>1. contractState(s) = [d \in Callers |-> Seen(s, call[d])]
  BY DEF contractState, Seen, Holds
<1>2. contractState(s)' = [d \in Callers |-> Seen(s, call'[d])]
  BY DEF contractState, Seen, Holds
<1> HIDE DEF Seen
<1> QED BY <1>1, <1>2

(* The contract's Cardinality, an instance of FiniteSets, is the same one. *)
LEMMA SameCardinality ==
  ASSUME NEW s \in Slots, NEW S
  PROVE  Contract(s)!Cardinality(S) = Cardinality(S)
  BY DEF Cardinality, Contract!Cardinality

(* Whoever is "in" on a slot has locked the file of the slot. *)
LEMMA InOwns ==
  ASSUME ContractInv, NEW s \in Slots, NEW d \in Contract(s)!In
  PROVE  d \in Callers /\ file[s] \in Inodes /\ owner[file[s]] = d
<1>1. d \in Callers /\ call[d].slot = s /\ Holds(d)
  BY DEF Contract!In, contractState
<1>2. call[d].fd \in Inodes /\ owner[call[d].fd] = d
  BY <1>1 DEF ContractInv, LinkInv, OwnsItsFile
<1>3. file[s] = call[d].fd
  BY <1>1, <1>2, FLockAssumption DEF ContractInv, LinkInv, OpenFileIsLinked
<1> QED BY <1>1, <1>2, <1>3

(* The file that a caller is about to lock is that of its slot: free when    *)
(* nobody is "in" there, and locked by the one caller that is.               *)
LEMMA LockDecides ==
  ASSUME ContractInv, NEW c \in Callers, call[c].pc = "lock", NEW s \in Slots, call[c].slot = s
  PROVE  /\ owner[call[c].fd] = None => Contract(s)!Cardinality(Contract(s)!In) = 0
         /\ owner[call[c].fd] # None => Contract(s)!Cardinality(Contract(s)!In) = 1
<1>1. call[c].fd \in Inodes /\ file[s] = call[c].fd
  BY FLockAssumption DEF ContractInv, LinkInv, OpenToLock, OpenFileIsLinked, At
<1>2. ASSUME owner[call[c].fd] = None PROVE Contract(s)!Cardinality(Contract(s)!In) = 0
  <2>1. Contract(s)!In = {}
    BY <1>1, <1>2, InOwns, FLockAssumption
  <2> QED BY <2>1, SameCardinality, FS_EmptySet
<1>3. ASSUME owner[call[c].fd] # None PROVE Contract(s)!Cardinality(Contract(s)!In) = 1
  <2>1. PICK d \in Callers : d = owner[file[s]] /\ Holds(d) /\ call[d].fd = file[s]
    BY <1>1, <1>3 DEF ContractInv, OwnerHolds, Holds
  <2>2. call[d].slot \in Slots /\ file[call[d].slot] = file[s]
    BY <1>1, <2>1, FLockAssumption DEF ContractInv, LinkInv, TypeOK, Call, OpenFileIsLinked
  <2>3. call[d].slot = s
    BY <1>1, <2>2, FLockAssumption DEF ContractInv, SlotOfFile
  <2>4. d \in Contract(s)!In
    BY <2>1, <2>3 DEF Contract!In, contractState, Holds
  <2>5. Contract(s)!In = {d}
    BY <2>1, <2>4, InOwns
  <2> QED BY <2>5, SameCardinality, FS_Singleton
<1> QED BY <1>2, <1>3

(* What the contract of a slot allows: a step of it, a call that is          *)
(* abandoned with an error or with its process, or nothing it can see.       *)
Allowed(s) ==
  \/ Contract(s)!Next
  \/ UNCHANGED contractState(s)
  \/ \E c \in Callers :
        (AcquireError(c) \/ Crash(c)) /\ ~Contended(c) /\ Contract(s)!Abandon(c)

(* Every step is one that the contract of each slot allows. *)
LEMMA ContractStep ==
  ASSUME ContractInv, [Next]_vars, NEW s \in Slots
  PROVE  Allowed(s)
<1>0. TypeOK
  BY DEF ContractInv, LinkInv
<1> USE <1>0
<1>1. ASSUME NEW c \in Callers, \A d \in Callers \ {c} : call'[d] = call[d],
             Seen(s, call[c]) = "out", Seen(s, call'[c]) = "trying"
      PROVE  Contract(s)!Next
  BY <1>1, ContractUpdate DEF Contract!Next, Contract!Call
<1>2. ASSUME NEW c \in Callers, \A d \in Callers \ {c} : call'[d] = call[d],
             Seen(s, call[c]) = "in", Seen(s, call'[c]) = "out"
      PROVE  Contract(s)!Next
  BY <1>2, ContractUpdate DEF Contract!Next, Contract!Release
<1>3. ASSUME NEW c \in Callers, Acquire(c) PROVE Allowed(s)
  <2>1. /\ \A d \in Callers \ {c} : call'[d] = call[d]
        /\ call[c].pc = "idle" /\ call'[c].pc = "open"
    BY <1>3, FreshCall DEF Acquire, At
  <2>2. Seen(s, call[c]) = "out" /\ Seen(s, call'[c]) \in {"out", "trying"}
    BY <2>1 DEF Seen
  <2> QED BY <2>1, <2>2, <1>1, ContractUpdate DEF Allowed
<1>4. ASSUME NEW c \in Callers, OpenExisting(c) \/ OpenCreates(c) PROVE Allowed(s)
  <2>1. /\ \A d \in Callers \ {c} : call'[d] = call[d]
        /\ call[c].pc = "open" /\ call'[c].pc = "lock" /\ call'[c].slot = call[c].slot
    BY <1>4, CallEffect
  <2>2. Seen(s, call'[c]) = Seen(s, call[c])
    BY <2>1 DEF Seen
  <2> QED BY <2>1, <2>2, ContractUpdate DEF Allowed
<1>5. ASSUME NEW c \in Callers, TryLock(c) PROVE Allowed(s)
  <2>1. /\ \A d \in Callers \ {c} : call'[d] = call[d]
        /\ call[c].pc = "lock" /\ call'[c].pc = "fenceRead" /\ call'[c].slot = call[c].slot
    BY <1>5, CallEffect
  <2>2. CASE call[c].slot = s
    <3>1. Seen(s, call[c]) = "trying" /\ Seen(s, call'[c]) = "in"
      BY <2>1, <2>2 DEF Seen
    <3>2. Contract(s)!Cardinality(Contract(s)!In) = 0
      BY <1>5, <2>1, <2>2, LockDecides DEF TryLock
    <3>3. Contract(s)!Cardinality(Contract(s)!In) < 1
      BY <3>2
    <3>4. Contract(s)!Grant(c)
      BY <2>1, <3>1, <3>3, ContractUpdate DEF Contract!Grant
    <3> QED BY <3>4 DEF Contract!Next, Allowed
  <2>3. CASE call[c].slot # s
    <3>1. Seen(s, call'[c]) = Seen(s, call[c])
      BY <2>1, <2>3 DEF Seen
    <3> QED BY <2>1, <3>1, ContractUpdate DEF Allowed
  <2> QED BY <2>2, <2>3
<1>6. ASSUME NEW c \in Callers, Contended(c) PROVE Allowed(s)
  <2>1. /\ \A d \in Callers \ {c} : call'[d] = call[d]
        /\ call[c].pc = "lock" /\ call[c].slot \in Nat
        /\ \/ call'[c].pc = "open" /\ call'[c].slot = call[c].slot + 1
           \/ call'[c].pc = "idle"
    BY <1>6, FreshCall DEF Contended, At, TypeOK, Call, Slots
  <2>2. CASE call[c].slot = s
    <3>1. Seen(s, call[c]) = "trying" /\ Seen(s, call'[c]) = "out"
      BY <2>1, <2>2 DEF Seen
    <3>2. Contract(s)!Cardinality(Contract(s)!In) = 1
      BY <1>6, <2>1, <2>2, LockDecides DEF Contended
    <3>3. Contract(s)!Cardinality(Contract(s)!In) >= 1
      BY <3>2
    <3>4. Contract(s)!Refuse(c)
      BY <2>1, <3>1, <3>3, ContractUpdate DEF Contract!Refuse
    <3> QED BY <3>4 DEF Contract!Next, Allowed
  <2>3. CASE call[c].slot # s
    <3>1. Seen(s, call[c]) = "out" /\ Seen(s, call'[c]) \in {"out", "trying"}
      BY <2>1, <2>3 DEF Seen
    <3> QED BY <2>1, <3>1, <1>1, ContractUpdate DEF Allowed
  <2> QED BY <2>2, <2>3
<1>7. ASSUME NEW c \in Callers, ReadFence(c) \/ WriteFence(c) \/ WriteFenceFails(c)
      PROVE  Allowed(s)
  <2>1. /\ \A d \in Callers \ {c} : call'[d] = call[d]
        /\ call[c].pc \in {"fenceRead", "fenceWrite"} /\ call'[c].pc \in {"fenceWrite", "held"}
        /\ call'[c].slot = call[c].slot
    BY <1>7, CallEffect
  <2>2. Seen(s, call'[c]) = Seen(s, call[c])
    BY <2>1 DEF Seen
  <2> QED BY <2>1, <2>2, ContractUpdate DEF Allowed
<1>8. ASSUME NEW c \in Callers, Release(c) PROVE Allowed(s)
  <2>1. /\ \A d \in Callers \ {c} : call'[d] = call[d]
        /\ call[c].pc = "held" /\ call'[c].pc = "remove"
    BY <1>8, CallEffect
  <2>2. Seen(s, call[c]) \in {"in", "out"} /\ Seen(s, call'[c]) = "out"
    BY <2>1 DEF Seen
  <2> QED BY <2>1, <2>2, <1>2, ContractUpdate DEF Allowed
<1>9. ASSUME NEW c \in Callers, AcquireError(c) \/ Remove(c) \/ Crash(c) PROVE Allowed(s)
  <2>1. /\ \A d \in Callers \ {c} : call'[d] = call[d]
        /\ call'[c].pc = "idle"
    BY <1>9, FreshCall DEF AcquireError, Remove, Crash
  <2>2. Seen(s, call[c]) \in {"trying", "in", "out"} /\ Seen(s, call'[c]) = "out"
    BY <2>1 DEF Seen
  <2>3. CASE Seen(s, call[c]) = "trying"
    <3>1. Contract(s)!Abandon(c)
      BY <2>1, <2>2, <2>3, ContractUpdate DEF Contract!Abandon
    <3>2. ~Remove(c)
      BY <2>3 DEF Remove, At, Seen
    <3>3. Contended(c) => Allowed(s)
      BY <1>6
    <3> QED BY <1>9, <3>1, <3>2, <3>3 DEF Allowed
  <2> QED BY <2>1, <2>2, <2>3, <1>2, ContractUpdate DEF Allowed
<1>10. CASE UNCHANGED vars
  BY <1>10 DEF vars, contractState, Holds, Allowed
<1>11. ASSUME NEW c \in Callers, Acquire(c) \/ Run(c) \/ Release(c) \/ Crash(c) PROVE Allowed(s)
  BY <1>3, <1>4, <1>5, <1>6, <1>7, <1>8, <1>9, <1>11 DEF Run
<1>12. CASE Next
  <2>1. PICK c \in Callers : Acquire(c) \/ Run(c) \/ Release(c) \/ Crash(c)
    BY <1>12, Zenon DEF Next
  <2> QED BY <1>11, <2>1
<1> QED BY <1>10, <1>12

(* The empty directory is the contract's initial state for every slot. *)
LEMMA ContractInit ==
  ASSUME Init, NEW s \in Slots
  PROVE  Contract(s)!Init
  BY DEF Init, Idle, Contract!Init, contractState, Holds

(* Where nobody's lock file is removed under it, every slot is a lock with    *)
(* one place: tryLock gets it only when nobody has it, EWOULDBLOCK is         *)
(* answered only while another caller is between its tryLock and its close,   *)
(* and a process that dies, wherever it does, gives the place back.           *)
THEOREM SlotIsALock == NoUnlinkRace => (Spec => ImplementsContract)
<1> SUFFICES ASSUME NoUnlinkRace
             PROVE  Spec => ImplementsContract
  OBVIOUS
<1>1. Init => \A s \in Slots : Contract(s)!Init
  BY ContractInit
<1>2. ContractInv /\ [Next]_vars => ContractInv'
  BY ContractInvStep
<1>3. ContractInv /\ [Next]_vars =>
        [\A s \in Slots :
            \/ Contract(s)!Next
            \/ UNCHANGED contractState(s)
            \/ \E c \in Callers :
                (AcquireError(c) \/ Crash(c)) /\ ~Contended(c) /\ Contract(s)!Abandon(c)]_vars
  BY ContractStep DEF Allowed
<1> QED BY ContractInvInit, <1>1, <1>2, <1>3, PTL DEF Spec, ImplementsContract
=============================================================================
