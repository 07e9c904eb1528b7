-------------------------------- MODULE PgLock --------------------------------
(***************************************************************************)
(* The Postgres backend, package pglock.  One lock name: the sessions that *)
(* the connection pools have open, the advisory lock that the server keeps *)
(* for the key of every slot, the transaction counter and the callers.     *)
(* A connection has two ends that do not know of each other: the pool may  *)
(* close it long before the server notices, and the server may end the     *)
(* session of a connection that a Holder takes for alive.                  *)
(***************************************************************************)
EXTENDS Naturals, FiniteSets

CONSTANTS
    Callers,     \* callers of Acquire and Release
    Sessions,    \* connections; one is opened again only when both ends forgot it
    Pools,       \* one pgxpool.Pool per process
    PoolOf,      \* the pool of every caller and of every session
    MaxConns,    \* the size of a pool
    None,        \* "no connection", "nobody"
    N,           \* WithMaxConcurrent
    Faults,      \* what may go wrong
    MaxXid       \* bound: no Acquire starts once the counter reached it

VARIABLES
    client,    \* the pool's end of every connection
    server,    \* the sessions that the server has
    lock,      \* of every key: the session that has it, and how often
    xid,       \* txid_current()
    call       \* the call that every caller has in progress, or its Holder

vars == <<client, server, lock, xid, call>>

Slots == 0..(N - 1)        \* the key of a slot is hashKey(name) + slot

Call == [pc : {"idle", "pool", "try", "txid", "held"}, slot : Slots,
         conn : Sessions \cup {None}, token : Nat]

Idle == [pc |-> "idle", slot |-> 0, conn |-> None, token |-> 0]

Lock == [by : Sessions \cup {None}, count : Nat]

Free == [by |-> None, count |-> 0]

\* pool: pool.Acquire fails; cancel: the context of Acquire ends before a query
\* is sent; cancelRelease: the context of ReleaseContext has ended; break: a
\* connection breaks during a query; drop: the server ends a session; crash.
ASSUME PgAssumption ==
    /\ N \in Nat \ {0}
    /\ PoolOf \in [Callers \cup Sessions -> Pools]
    /\ MaxConns \in Nat \ {0} /\ MaxXid \in Nat
    /\ Faults \subseteq {"pool", "cancel", "cancelRelease", "break", "drop", "crash"}
    /\ None \notin Sessions

TypeOK ==
    /\ client \in [Sessions -> {"none", "idle", "used", "broken"}]
    /\ server \subseteq Sessions
    /\ lock \in [Slots -> Lock]
    /\ xid \in Nat
    /\ call \in [Callers -> Call]

Init ==
    /\ client = [s \in Sessions |-> "none"]
    /\ server = {}
    /\ lock = [k \in Slots |-> Free]
    /\ xid = 0
    /\ call = [c \in Callers |-> Idle]

At(c, label) == call[c].pc = label
Conn(c) == call[c].conn
Key(c) == call[c].slot

\* c was granted the advisory lock, and did not call Release since.
Active(c) == call[c].pc \in {"txid", "held"}

Client(c, state) == client' = [client EXCEPT ![Conn(c)] = state]

-----------------------------------------------------------------------------
(* The pool and the server *)

InPool(p, states) == {s \in Sessions : PoolOf[s] = p /\ client[s] \in states}

\* pg_try_advisory_lock answers true: the key is free, or this session has it.
Available(k, s) == lock[k].by \in {None, s}

pg_try_advisory_lock(k, s) ==
    lock' = [lock EXCEPT ![k] = [by |-> s, count |-> @.count + 1]]

pg_advisory_unlock(k, s) ==
    lock' = [lock EXCEPT ![k] = IF @.by # s THEN @
                                ELSE IF @.count > 1 THEN [by |-> s, count |-> @.count - 1]
                                ELSE Free]

\* A query on connection s can fail halfway: the server has no such session any
\* more, or the connection breaks.
Breaks(s) == s \notin server \/ "break" \in Faults

-----------------------------------------------------------------------------
(* Acquire *)

Acquire(c) ==
    /\ At(c, "idle") /\ xid < MaxXid
    /\ call' = [call EXCEPT ![c].pc = "pool"]
    /\ UNCHANGED <<client, server, lock, xid>>

\* pool.Acquire: a connection that is idle ...
PoolTakes(c) ==
    /\ At(c, "pool")
    /\ \E s \in InPool(PoolOf[c], {"idle"}) :
        /\ client' = [client EXCEPT ![s] = "used"]
        /\ call' = [call EXCEPT ![c].pc = "try", ![c].conn = s]
    /\ UNCHANGED <<server, lock, xid>>

\* ... or a new one, if the pool may have one more.  Otherwise c waits.
PoolOpens(c) ==
    /\ At(c, "pool")
    /\ InPool(PoolOf[c], {"idle"}) = {}
    /\ Cardinality(InPool(PoolOf[c], {"used", "broken"})) < MaxConns
    /\ \E s \in InPool(PoolOf[c], {"none"}) \ server :
        /\ client' = [client EXCEPT ![s] = "used"]
        /\ server' = server \cup {s}
        /\ call' = [call EXCEPT ![c].pc = "try", ![c].conn = s]
    /\ UNCHANGED <<lock, xid>>

PoolError(c) ==
    /\ At(c, "pool") /\ "pool" \in Faults
    /\ call' = [call EXCEPT ![c] = Idle]
    /\ UNCHANGED <<client, server, lock, xid>>

TryLockShared(c) ==
    /\ At(c, "try") /\ Conn(c) \in server
    /\ pg_try_advisory_lock(Key(c), Conn(c))
    /\ call' = [call EXCEPT ![c].pc = "txid"]
    /\ UNCHANGED <<client, server, xid>>

\* The server grants the lock.
TryLock(c) ==
    /\ At(c, "try") /\ Conn(c) \in server /\ Available(Key(c), Conn(c))
    /\ pg_try_advisory_lock(Key(c), Conn(c))
    /\ call' = [call EXCEPT ![c].pc = "txid"]
    /\ UNCHANGED <<client, server, xid>>

NextSlotUnbounded(c) ==
    call' = [call EXCEPT ![c] = [Idle EXCEPT !.pc = "pool", !.slot = Key(c) + 1]]

\* ErrLocked: the next slot, or the answer of Acquire when there is none.
NextSlot(c) ==
    call' = [call EXCEPT ![c] = IF Key(c) + 1 \in Slots
                                THEN [Idle EXCEPT !.pc = "pool", !.slot = Key(c) + 1]
                                ELSE Idle]

RefusedKeepsConn(c) ==
    /\ At(c, "try") /\ Conn(c) \in server /\ ~Available(Key(c), Conn(c))
    /\ NextSlot(c)
    /\ UNCHANGED <<client, server, lock, xid>>

\* Another session has it: conn.Release, and the next slot.
Refused(c) ==
    /\ At(c, "try") /\ Conn(c) \in server /\ ~Available(Key(c), Conn(c))
    /\ Client(c, "idle")
    /\ NextSlot(c)
    /\ UNCHANGED <<server, lock, xid>>

\* The query fails and Acquire returns the error.  When the context had ended
\* nothing was sent, and conn.Release puts a sound connection back; otherwise
\* it is closed, and the server may have granted the lock before it broke.
TryError(c) ==
    /\ At(c, "try")
    /\ \/ "cancel" \in Faults /\ Client(c, "idle") /\ UNCHANGED lock
       \/ /\ Breaks(Conn(c)) /\ Client(c, "none")
          /\ \/ UNCHANGED lock
             \/ /\ Conn(c) \in server /\ Available(Key(c), Conn(c))
                /\ pg_try_advisory_lock(Key(c), Conn(c))
    /\ call' = [call EXCEPT ![c] = Idle]
    /\ UNCHANGED <<server, xid>>

TxidStale(c) ==
    /\ At(c, "txid") /\ Conn(c) \in server
    /\ xid' = IF xid = 0 THEN 1 ELSE xid
    /\ call' = [call EXCEPT ![c].pc = "held", ![c].token = IF xid = 0 THEN 1 ELSE xid]
    /\ UNCHANGED <<client, server, lock>>

\* SELECT txid_current() on the session that has the lock; c has its Holder.
Txid(c) ==
    /\ At(c, "txid") /\ Conn(c) \in server
    /\ xid' = xid + 1
    /\ call' = [call EXCEPT ![c].pc = "held", ![c].token = xid + 1]
    /\ UNCHANGED <<client, server, lock>>

TxidErrorGivesUp(c) ==
    /\ At(c, "txid")
    /\ \/ "cancel" \in Faults /\ Client(c, "idle") /\ UNCHANGED xid
       \/ Breaks(Conn(c)) /\ Client(c, "none") /\ xid' \in {xid, xid + 1}
    /\ call' = [call EXCEPT ![c] = Idle]
    /\ UNCHANGED <<server, lock>>

\* Its error, or one of SET application_name before it, is ignored: token zero.
\* The Holder may be left with a connection that is closed already.
TxidError(c) ==
    /\ At(c, "txid")
    /\ \/ "cancel" \in Faults /\ UNCHANGED <<client, xid>>
       \/ Breaks(Conn(c)) /\ Client(c, "broken") /\ xid' \in {xid, xid + 1}
    /\ call' = [call EXCEPT ![c].pc = "held", ![c].token = 0]
    /\ UNCHANGED <<server, lock>>

-----------------------------------------------------------------------------
(* Release *)

ReleaseKeepsLock(c) ==
    /\ At(c, "held") /\ client[Conn(c)] = "used" /\ Conn(c) \in server
    /\ Client(c, "idle")
    /\ call' = [call EXCEPT ![c] = Idle]
    /\ UNCHANGED <<server, lock, xid>>

\* pg_advisory_unlock, then conn.Release
Release(c) ==
    /\ At(c, "held") /\ client[Conn(c)] = "used" /\ Conn(c) \in server
    /\ pg_advisory_unlock(Key(c), Conn(c))
    /\ Client(c, "idle")
    /\ call' = [call EXCEPT ![c] = Idle]
    /\ UNCHANGED <<server, xid>>

ReleaseErrorReturnsEarly(c) ==
    /\ At(c, "held") /\ Breaks(Conn(c))
    /\ call' = [call EXCEPT ![c] = Idle]
    /\ UNCHANGED <<client, server, lock, xid>>

\* The unlock fails; conn.Release follows all the same, and the released flag is
\* set.  When the context had ended nothing was sent, and the pool gets a sound
\* connection back; a connection that is or gets broken is closed.
ReleaseError(c) ==
    /\ At(c, "held")
    /\ \/ /\ "cancelRelease" \in Faults /\ client[Conn(c)] = "used"
          /\ Client(c, "idle") /\ UNCHANGED lock
       \/ /\ client[Conn(c)] = "broken" /\ Client(c, "none") /\ UNCHANGED lock
       \/ /\ client[Conn(c)] = "used" /\ Breaks(Conn(c)) /\ Client(c, "none")
          /\ UNCHANGED lock \/ pg_advisory_unlock(Key(c), Conn(c))
    /\ call' = [call EXCEPT ![c] = Idle]
    /\ UNCHANGED <<server, xid>>

-----------------------------------------------------------------------------
(* Connections and processes come to their end *)

\* The server is rid of a session: it frees its locks.
End(s) ==
    /\ s \in server
    /\ server' = server \ {s}
    /\ lock' = [k \in Slots |-> IF lock[k].by = s THEN Free ELSE lock[k]]
    /\ UNCHANGED <<client, xid, call>>

\* It notices that the pool or the process closed the connection ...
Disconnected(s) == client[s] \in {"none", "broken"} /\ End(s)

\* ... or ends it by itself: a restart, a timeout, pg_terminate_backend.
Drop(s) == "drop" \in Faults /\ client[s] \in {"idle", "used"} /\ End(s)

\* The pool closes an idle connection: too old, idle for too long, or dead.
Retire(s) ==
    /\ client[s] = "idle"
    /\ client' = [client EXCEPT ![s] = "none"]
    /\ UNCHANGED <<server, lock, xid, call>>

\* A process dies, with its pool and all its callers.
Crash(p) ==
    /\ "crash" \in Faults /\ \E s \in Sessions : PoolOf[s] = p /\ client[s] = "used"
    /\ client' = [s \in Sessions |-> IF PoolOf[s] = p THEN "none" ELSE client[s]]
    /\ call' = [c \in Callers |-> IF PoolOf[c] = p THEN Idle ELSE call[c]]
    /\ UNCHANGED <<server, lock, xid>>

Run(c) ==
    \/ PoolTakes(c) \/ PoolOpens(c)
    \/ TryLock(c) \/ Refused(c) \/ TryError(c)
    \/ Txid(c) \/ TxidError(c)
    \/ Release(c) \/ ReleaseError(c)

Next ==
    \/ \E c \in Callers : Acquire(c) \/ PoolError(c) \/ Run(c)
    \/ \E s \in Sessions : Disconnected(s) \/ Drop(s) \/ Retire(s)
    \/ \E p \in Pools : Crash(p)

Spec == Init /\ [][Next]_vars

\* Callers get on, and Holders are released; the pool serves those who wait in
\* turn, and nobody's context need end while it waits; the server notices some
\* time that a connection was closed.
FairSpec ==
    /\ Spec
    /\ \A c \in Callers : WF_vars(Run(c)) /\ SF_vars(PoolTakes(c) \/ PoolOpens(c))
    /\ \A s \in Sessions : WF_vars(Disconnected(s))

-----------------------------------------------------------------------------
(* Properties *)

\* A Holder that the server still has a session for.
Live(c) == Active(c) /\ Conn(c) \in server

\* At most WithMaxConcurrent callers hold the lock, as long as their sessions
\* last, although the server would grant the lock to one session twice and
\* connections go from one caller to the next.
AtMostN == Cardinality({c \in Callers : Live(c)}) =< N

\* A Holder whose session has ended, and that does not know, has a smaller token
\* than the one that has the lock now: the token comes from the session itself,
\* so that nobody draws one after the lock was lost.
Fenced ==
    \A c, d \in Callers :
        /\ At(c, "held") /\ ~Live(c) /\ call[c].token # 0
        /\ At(d, "held") /\ Live(d) /\ call[d].token # 0
        /\ Key(c) = Key(d)
        => call[c].token < call[d].token

\* No connection goes back to the pool with an advisory lock: the lock would
\* stay until the pool retires the connection, and nobody could release it.
PoolClean == \A k \in Slots : lock[k].by # None => client[lock[k].by] # "idle"

\* Every slot implements the contract of the family with one place, where a
\* caller is inside as long as its session lasts: the lock is granted only when
\* nobody is, although the server grants it to one session twice and the pool
\* passes sessions on, and ErrLocked is answered only while another caller is, or
\* while the server has not noticed yet that the connection of a caller that died
\* or of a query that failed was closed.
contractState(k) == [c \in Callers |->
    IF Key(c) # k THEN "out"
    ELSE IF call[c].pc \in {"pool", "try"} THEN "trying"
    ELSE IF Live(c) THEN "in"
    ELSE "out"]
Contract(k) == INSTANCE LockSpec WITH N <- 1, state <- contractState(k)
Unnoticed(k) == lock[k].by # None /\ client[lock[k].by] = "none"
Dies(k) ==
    /\ \E p \in Pools : Crash(p)
    /\ \A c \in Callers : contractState(k)'[c] \in {contractState(k)[c], "out"}
ImplementsContract ==
    /\ \A k \in Slots : Contract(k)!Init
    /\ [][\A k \in Slots :
            \/ Contract(k)!Next
            \/ UNCHANGED contractState(k)
            \/ \E c \in Callers :
                /\ PoolError(c) \/ TryError(c) \/ Refused(c)
                /\ Refused(c) => Unnoticed(k)
                /\ Contract(k)!Abandon(c)
            \/ Dies(k)]_vars

\* Every lock that was granted is free again some time: by its Release, or after
\* a crash, a broken connection or an answer that was lost, by the server.
GrantedIsFreed == \A k \in Slots : lock[k].by # None ~> lock[k].by = None

\* Every Acquire returns, although it waits for a connection when its pool has
\* none left.
AcquireReturns ==
    \A c \in Callers : call[c].pc \in {"pool", "try", "txid"} ~> call[c].pc \in {"idle", "held"}
===============================================================================
