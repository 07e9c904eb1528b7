------------------------------- MODULE EtcdLock -------------------------------
(***************************************************************************)
(* The etcd backend, package etcdlock.  One lock name: the leases that the *)
(* cluster has granted, the keys under the prefix of every slot with their *)
(* create revisions, the revision counter and the callers.  Every attempt  *)
(* at a slot has a session, that is a lease of its own, which is kept      *)
(* alive as long as the context that was given to Acquire.                 *)
(***************************************************************************)
EXTENDS Naturals, FiniteSets

CONSTANTS
    Callers,    \* callers of Acquire and Release
    Leases,     \* lease ids; one is granted again only when it is forgotten
    None,       \* "no lease"
    N,          \* WithMaxConcurrent
    Faults,     \* what may go wrong
    MaxRev,     \* bound: no Acquire starts once the revision reached it
    MaxLate     \* bound: this many puts are on their way at a time

VARIABLES
    leases,    \* the leases that the cluster has
    create,    \* of every slot: the create revision of every lease's key, or 0
    rev,       \* the last create revision; revisions of other writes order nothing
    late,      \* puts of a session's key that their caller gave up on
    call       \* the call that every caller has in progress, or its Holder

vars == <<leases, create, rev, late, call>>

Slots == 0..(N - 1)        \* <prefix>/<name>, or <prefix>/<name>/<slot>

Call == [pc : {"idle", "grant", "txn", "delete", "refused", "held", "close"},
         slot : Slots, lease : Leases \cup {None}, token : Nat, ended : BOOLEAN]

Idle == [pc |-> "idle", slot |-> 0, lease |-> None, token |-> 0, ended |-> FALSE]

Put == [slot : Slots, lease : Leases]

\* ctx: the context of Acquire ends; rpc: a request fails, or its answer is
\* lost; partition: a process is cut off for longer than its TTL; crash.
ASSUME EtcdAssumption ==
    /\ N \in Nat \ {0}
    /\ Faults \subseteq {"ctx", "rpc", "partition", "crash"}
    /\ MaxRev \in Nat /\ MaxLate \in Nat
    /\ None \notin Leases

TypeOK ==
    /\ leases \subseteq Leases
    /\ create \in [Slots -> [Leases -> Nat]]
    /\ rev \in Nat
    /\ late \subseteq Put
    /\ call \in [Callers -> Call]

Init ==
    /\ leases = {}
    /\ create = [s \in Slots |-> [l \in Leases |-> 0]]
    /\ rev = 0
    /\ late = {}
    /\ call = [c \in Callers |-> Idle]

At(c, label) == call[c].pc = label
Lease(c) == call[c].lease
SlotOf(c) == call[c].slot

\* TryLock succeeded for c, and c did not call Release since.
Active(c) == At(c, "held")

\* A request with the context of Acquire fails.
Fails(c) == call[c].ended \/ "rpc" \in Faults

-----------------------------------------------------------------------------
(* The cluster *)

HasKey(s, l) == create[s][l] # 0

\* Put the key of a session; the cluster refuses it when the lease is gone.
put(s, l) ==
    IF l \in leases
    THEN /\ create' = [create EXCEPT ![s][l] = rev + 1]
         /\ rev' = rev + 1
    ELSE UNCHANGED <<create, rev>>

delete(s, l) ==
    /\ create' = [create EXCEPT ![s][l] = 0]
    /\ UNCHANGED rev

\* The end of a lease, which takes its keys with it.  A put that arrives after it
\* is refused: late need not have it.
endLease(l) ==
    /\ leases' = leases \ {l}
    /\ create' = [s \in Slots |-> [create[s] EXCEPT ![l] = 0]]
    /\ late' = {t \in late : t.lease # l}
    /\ UNCHANGED rev

\* Lease ids that nobody knows.
Unknown == {l \in Leases \ leases : /\ \A c \in Callers : Lease(c) # l
                                    /\ \A t \in late : t.lease # l}

-----------------------------------------------------------------------------
(* Acquire *)

\* A call starts, or goes on with its next slot.
Acquire(c) == (At(c, "idle") /\ rev < MaxRev) \/ At(c, "grant")

\* NewSession: a lease, and a goroutine that keeps it alive.
NewSession(c) ==
    /\ Acquire(c) /\ ~call[c].ended
    /\ \E l \in Unknown : /\ leases' = leases \cup {l}
                          /\ call' = [call EXCEPT ![c].pc = "txn", ![c].lease = l]
    /\ UNCHANGED <<create, rev, late>>

\* It fails; the lease may have been granted all the same.
NewSessionError(c) ==
    /\ Acquire(c) /\ Fails(c)
    /\ \/ UNCHANGED leases
       \/ \E l \in Unknown : leases' = leases \cup {l}
    /\ call' = [call EXCEPT ![c] = Idle]
    /\ UNCHANGED <<create, rev, late>>

LastCreate(c) == \A l \in Leases \ {Lease(c)} : create[SlotOf(c)][l] < rev + 1

\* There is no key under the prefix that was created before c's.
FirstCreate(c) == \A l \in Leases \ {Lease(c)} : ~HasKey(SlotOf(c), l)

TryLockVersion(c) ==
    /\ At(c, "txn") /\ ~call[c].ended /\ Lease(c) \in leases
    /\ put(SlotOf(c), Lease(c))
    /\ call' = [call EXCEPT ![c] =
                   IF FirstCreate(c)
                   THEN [@ EXCEPT !.pc = "held", !.token = 1]
                   ELSE [@ EXCEPT !.pc = "delete"]]
    /\ UNCHANGED <<leases, late>>

\* TryLock: put the key of the session and look for the oldest one under the
\* prefix, in one transaction.  Its revision is the fencing token.  A TraceID
\* that is then put into the key changes neither create revision nor lease.
TryLock(c) ==
    /\ At(c, "txn") /\ ~call[c].ended /\ Lease(c) \in leases
    /\ put(SlotOf(c), Lease(c))
    /\ call' = [call EXCEPT ![c] =
                   IF FirstCreate(c)
                   THEN [@ EXCEPT !.pc = "held", !.token = rev + 1]
                   ELSE [@ EXCEPT !.pc = "delete"]]
    /\ UNCHANGED <<leases, late>>

\* A put of c's key that c gave up on may be on its way to the cluster still.
PutMayBeLate(c) ==
    \/ UNCHANGED late
    \/ /\ Lease(c) \in leases /\ Cardinality(late) < MaxLate
       /\ late' = late \cup {[slot |-> SlotOf(c), lease |-> Lease(c)]}

\* The transaction fails; it may reach the cluster later.
TryLockError(c) ==
    /\ At(c, "txn") /\ (Fails(c) \/ Lease(c) \notin leases)
    /\ PutMayBeLate(c)
    /\ call' = [call EXCEPT ![c].pc = "close"]
    /\ UNCHANGED <<leases, create, rev>>

\* Somebody's key is older: delete the own one, and answer ErrLocked ...
DeleteKey(c) ==
    /\ At(c, "delete") /\ ~call[c].ended
    /\ delete(SlotOf(c), Lease(c))
    /\ call' = [call EXCEPT ![c].pc = "refused"]
    /\ UNCHANGED <<leases, late>>

\* ... or the error of the deletion.
DeleteKeyError(c) ==
    /\ At(c, "delete") /\ Fails(c)
    /\ delete(SlotOf(c), Lease(c)) \/ UNCHANGED <<create, rev>>
    /\ call' = [call EXCEPT ![c].pc = "close"]
    /\ UNCHANGED <<leases, late>>

-----------------------------------------------------------------------------
(* Release *)

\* The put of the TraceID failed, which Acquire ignores, and is on its way still.
\* It can be told from one that never was as soon as Unlock was called: as long
\* as c holds its key, it changes nothing.
TraceMayBeLate(c) ==
    \/ UNCHANGED late
    \/ Faults \cap {"ctx", "rpc"} # {} /\ PutMayBeLate(c)

\* Unlock deletes the key.  Release does so whatever became of the context ...
Unlock(c) ==
    /\ At(c, "held")
    /\ delete(SlotOf(c), Lease(c))
    /\ call' = [call EXCEPT ![c].pc = "close"]
    /\ TraceMayBeLate(c)
    /\ UNCHANGED leases

\* ... WithLock and the adapters pass on the one of Acquire.  The session is
\* closed all the same.
UnlockError(c) ==
    /\ At(c, "held") /\ Fails(c)
    /\ delete(SlotOf(c), Lease(c)) \/ UNCHANGED <<create, rev>>
    /\ call' = [call EXCEPT ![c].pc = "close"]
    /\ TraceMayBeLate(c)
    /\ UNCHANGED leases

-----------------------------------------------------------------------------
(* session.Close, after Release, ErrLocked or another error *)

NextSlotUnbounded(c) ==
    call' = [call EXCEPT ![c] = IF At(c, "refused")
                                THEN [Idle EXCEPT !.pc = "grant", !.slot = SlotOf(c) + 1,
                                                  !.ended = call[c].ended]
                                ELSE Idle]

\* Acquire goes on with the next slot after ErrLocked, or returns.
NextSlot(c) ==
    call' = [call EXCEPT ![c] = IF At(c, "refused") /\ SlotOf(c) + 1 \in Slots
                                THEN [Idle EXCEPT !.pc = "grant", !.slot = SlotOf(c) + 1,
                                                  !.ended = call[c].ended]
                                ELSE Idle]

\* Close revokes the lease ...
Close(c) ==
    /\ call[c].pc \in {"refused", "close"} /\ ~call[c].ended
    /\ endLease(Lease(c))
    /\ NextSlot(c)

\* ... but with the context of Acquire; nobody looks at its error but Release.
CloseError(c) ==
    /\ call[c].pc \in {"refused", "close"} /\ Fails(c)
    /\ NextSlot(c)
    /\ UNCHANGED <<leases, create, rev, late>>

-----------------------------------------------------------------------------
(* Late puts, leases, contexts and processes *)

\* A key that is there keeps its create revision: the transaction finds it, and
\* the TraceID goes into it.
Deliver(t) ==
    /\ IF HasKey(t.slot, t.lease)
       THEN UNCHANGED <<create, rev>>
       ELSE put(t.slot, t.lease)
    /\ late' = late \ {t}
    /\ UNCHANGED <<leases, call>>

Drop(t) ==
    /\ late' = late \ {t}
    /\ UNCHANGED <<leases, create, rev, call>>

KeepsAliveUntilReturn(l) ==
    \E c \in Callers : /\ Lease(c) = l /\ ~call[c].ended
                       /\ call[c].pc \in {"txn", "delete"}

KeepsAliveUnlessDeleted(l) == \E s \in Slots : HasKey(s, l)

\* The session of c sends keep-alives until it is closed or its context ends.
KeepsAlive(l) ==
    \E c \in Callers : /\ Lease(c) = l /\ ~call[c].ended
                       /\ call[c].pc \in {"txn", "delete", "held"}

Expire(l) ==
    /\ l \in leases
    /\ KeepsAlive(l) => "partition" \in Faults
    /\ endLease(l)
    /\ UNCHANGED call

\* The context of Acquire ends: a deadline, or the caller cancels it.
EndContext(c) ==
    /\ "ctx" \in Faults /\ ~At(c, "idle") /\ ~call[c].ended
    /\ call' = [call EXCEPT ![c].ended = TRUE]
    /\ UNCHANGED <<leases, create, rev, late>>

\* The process of c dies.
Crash(c) ==
    /\ "crash" \in Faults /\ Lease(c) # None
    /\ call' = [call EXCEPT ![c] = Idle]
    /\ UNCHANGED <<leases, create, rev, late>>

Next ==
    \/ \E c \in Callers :
        \/ NewSession(c) \/ NewSessionError(c)
        \/ TryLock(c) \/ TryLockError(c) \/ DeleteKey(c) \/ DeleteKeyError(c)
        \/ Unlock(c) \/ UnlockError(c)
        \/ Close(c) \/ CloseError(c)
        \/ EndContext(c) \/ Crash(c)
    \/ \E t \in late : Deliver(t) \/ Drop(t)
    \/ \E l \in Leases : Expire(l)

Spec == Init /\ [][Next]_vars

\* A lease that nobody keeps alive expires some time.
FairSpec == Spec /\ \A l \in Leases : WF_vars(~KeepsAlive(l) /\ Expire(l))

-----------------------------------------------------------------------------
(* Properties *)

\* A Holder whose lease the cluster still has.
Live(c) == Active(c) /\ Lease(c) \in leases

\* Every slot has one Holder with a living lease, so WithMaxConcurrent is kept,
\* although losers and late puts leave keys under the prefix.
MutualExclusion ==
    \A c, d \in Callers : Live(c) /\ Live(d) /\ SlotOf(c) = SlotOf(d) => c = d

\* A Holder whose lease has ended, and that does not know, has a smaller token
\* than the one that has the slot now.
Fenced ==
    \A c, d \in Callers :
        Active(c) /\ ~Live(c) /\ Live(d) /\ SlotOf(c) = SlotOf(d)
            => call[c].token < call[d].token

\* c has the oldest key of its slot.
Owns(c) ==
    /\ HasKey(SlotOf(c), Lease(c))
    /\ \A l \in Leases : HasKey(SlotOf(c), l)
                            => create[SlotOf(c)][Lease(c)] =< create[SlotOf(c)][l]

\* A Holder owns its slot as long as the context that it gave to Acquire lasts.
KeptWhileContextLives == \A c \in Callers : Active(c) /\ ~call[c].ended => Owns(c)

\* "Healthy holders never lose the lock" (docs/guides/etcdlock.md): a Holder in
\* a process that runs and is connected owns its slot.
HealthyHolderKeepsLock == \A c \in Callers : Active(c) => Owns(c)

\* A key that no call will delete any more, left by a crash, a failed or never
\* sent deletion, or a transaction that arrived late, goes away some time.
KeyFreed ==
    \A s \in Slots, l \in Leases :
        (HasKey(s, l) /\ ~\E c \in Callers : Lease(c) = l) ~> ~HasKey(s, l)
===============================================================================
