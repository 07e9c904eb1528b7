----------------------------- MODULE PgLockProofs -----------------------------
(* Theorems about PgLock for every set of callers, sessions and pools, every *)
(* pool size and number of slots: the advisory lock of a session excludes    *)
(* other Holders as long as the session lasts, the token of a Holder that    *)
(* lost its session is smaller than the next one's, and, unless the context  *)
(* of a Release had ended, no lock is left in the pool and every slot        *)
(* implements the contract of LockSpec.                                      *)
EXTENDS PgLock, FiniteSetTheorems, TLAPS

(* The record of a caller without a call is a Call. *)
LEMMA IdleType ==
  /\ Idle \in Call
  /\ Idle.pc = "idle" /\ Idle.conn = None /\ Idle.token = 0
  BY PgAssumption DEF Idle, Call, Slots

(* The slot loop stays inside the slots and starts without a connection. *)
LEMMA NextSlotType ==
  ASSUME TypeOK, NEW c \in Callers, NextSlot(c)
  PROVE  /\ call' \in [Callers -> Call]
         /\ \A d \in Callers \ {c} : call'[d] = call[d]
         /\ call'[c].pc \in {"idle", "pool"} /\ call'[c].conn = None
<1> DEFINE r == [Idle EXCEPT !.pc = "pool", !.slot = Key(c) + 1]
<1>1. CASE Key(c) + 1 \in Slots
  <2>1. r \in Call /\ r.pc = "pool" /\ r.conn = None
    BY <1>1 DEF Idle, Call
  <2>2. call' = [call EXCEPT ![c] = r]
    BY <1>1 DEF NextSlot
  <2> HIDE DEF r
  <2> QED BY <2>1, <2>2 DEF TypeOK
<1>2. CASE Key(c) + 1 \notin Slots
  <2>1. call' = [call EXCEPT ![c] = Idle]
    BY <1>2 DEF NextSlot
  <2> QED BY <2>1, IdleType DEF TypeOK
<1> QED BY <1>1, <1>2

(* What the two lock functions do to the type of the table, and to the keys  *)
(* that other sessions have.                                                 *)
LEMMA LockOps ==
  ASSUME TypeOK, NEW k \in Slots, NEW s \in Sessions,
         (pg_try_advisory_lock(k, s) /\ Available(k, s)) \/ pg_advisory_unlock(k, s)
  PROVE  /\ lock' \in [Slots -> Lock]
         /\ \A j \in Slots : lock[j].by \notin {None, s} => lock'[j] = lock[j]
         /\ \A j \in Slots : lock'[j].by \in {lock[j].by, s, None}
         /\ \A j \in Slots \ {k} : lock'[j] = lock[j]
<1>1. lock[k] \in Lock /\ lock[k].count \in Nat
  BY DEF TypeOK, Lock
<1>2. CASE pg_try_advisory_lock(k, s) /\ Available(k, s)
  <2>1. [by |-> s, count |-> lock[k].count + 1] \in Lock
    BY <1>1 DEF Lock
  <2>2. lock' = [lock EXCEPT ![k] = [by |-> s, count |-> lock[k].count + 1]]
    BY <1>2 DEF pg_try_advisory_lock
  <2> QED BY <1>2, <2>1, <2>2 DEF Available, TypeOK
<1>3. CASE pg_advisory_unlock(k, s)
  <2>1. Free \in Lock /\ Free.by = None
    BY DEF Free, Lock
  <2>2. lock[k].count > 1 => [by |-> s, count |-> lock[k].count - 1] \in Lock
    BY <1>1 DEF Lock
  <2>3. \/ lock'[k] \in {lock[k], Free}
        \/ lock[k].count > 1 /\ lock'[k] = [by |-> s, count |-> lock[k].count - 1]
    BY <1>3 DEF pg_advisory_unlock, TypeOK
  <2>4. lock' = [lock EXCEPT ![k] = lock'[k]] /\ (lock[k].by # s => lock'[k] = lock[k])
    BY <1>3 DEF pg_advisory_unlock, TypeOK
  <2> QED BY <1>1, <2>1, <2>2, <2>3, <2>4 DEF TypeOK
<1> QED BY <1>2, <1>3

(* A caller's step leaves the calls of the others alone. *)
Others(c) == \A d \in Callers \ {c} : call'[d] = call[d]

(* The call that a step of c leaves behind: none, one that looks for a        *)
(* connection, one that has it, one that has the lock, or a Holder.           *)
LEMMA CallAfter ==
  ASSUME TypeOK, NEW c \in Callers
  PROVE  /\ Acquire(c) => /\ call' \in [Callers -> Call] /\ Others(c)
                          /\ call'[c].pc = "pool" /\ call'[c].conn = Conn(c)
         /\ \A s \in Sessions : call' = [call EXCEPT ![c].pc = "try", ![c].conn = s] =>
                /\ call' \in [Callers -> Call] /\ Others(c)
                /\ call'[c].pc = "try" /\ call'[c].conn = s
         /\ TryLock(c) => /\ call' \in [Callers -> Call] /\ Others(c) /\ call'[c].pc = "txid"
                          /\ call'[c].conn = Conn(c) /\ call'[c].slot = Key(c)
         /\ \A t \in Nat : call' = [call EXCEPT ![c].pc = "held", ![c].token = t] =>
                /\ call' \in [Callers -> Call] /\ Others(c) /\ call'[c].pc = "held"
                /\ call'[c].conn = Conn(c) /\ call'[c].slot = Key(c) /\ call'[c].token = t
         /\ call' = [call EXCEPT ![c] = Idle] =>
                /\ call' \in [Callers -> Call] /\ Others(c)
                /\ call'[c].pc = "idle" /\ call'[c].conn = None
<1>0. call[c] \in Call
  BY DEF TypeOK
<1>1. ASSUME Acquire(c)
      PROVE  /\ call' \in [Callers -> Call] /\ Others(c)
             /\ call'[c].pc = "pool" /\ call'[c].conn = Conn(c)
  <2>1. [call[c] EXCEPT !.pc = "pool"] \in Call
    BY <1>0 DEF Call
  <2> QED BY <1>0, <1>1, <2>1 DEF Acquire, Others, Conn, TypeOK, Call
<1>2. ASSUME NEW s \in Sessions, call' = [call EXCEPT ![c].pc = "try", ![c].conn = s]
      PROVE  /\ call' \in [Callers -> Call] /\ Others(c)
             /\ call'[c].pc = "try" /\ call'[c].conn = s
  <2>1. [call[c] EXCEPT !.pc = "try", !.conn = s] \in Call
    BY <1>0 DEF Call
  <2> QED BY <1>0, <1>2, <2>1 DEF Others, TypeOK, Call
<1>3. ASSUME TryLock(c)
      PROVE  /\ call' \in [Callers -> Call] /\ Others(c) /\ call'[c].pc = "txid"
             /\ call'[c].conn = Conn(c) /\ call'[c].slot = Key(c)
  <2>1. [call[c] EXCEPT !.pc = "txid"] \in Call
    BY <1>0 DEF Call
  <2> QED BY <1>0, <1>3, <2>1 DEF TryLock, Others, Conn, Key, TypeOK, Call
<1>4. ASSUME NEW t \in Nat, call' = [call EXCEPT ![c].pc = "held", ![c].token = t]
      PROVE  /\ call' \in [Callers -> Call] /\ Others(c) /\ call'[c].pc = "held"
             /\ call'[c].conn = Conn(c) /\ call'[c].slot = Key(c) /\ call'[c].token = t
  <2>1. [call[c] EXCEPT !.pc = "held", !.token = t] \in Call
    BY <1>0 DEF Call
  <2> QED BY <1>0, <1>4, <2>1 DEF Others, Conn, Key, TypeOK, Call
<1>5. ASSUME call' = [call EXCEPT ![c] = Idle]
      PROVE  /\ call' \in [Callers -> Call] /\ Others(c)
             /\ call'[c].pc = "idle" /\ call'[c].conn = None
  BY <1>5, IdleType DEF Others, TypeOK
<1> QED BY <1>1, <1>2, <1>3, <1>4, <1>5

-----------------------------------------------------------------------------
(* The wiring: who has a connection, and in which state the pool's end is.   *)
CallOK(c) ==
  /\ call[c].pc \in {"idle", "pool"} <=> Conn(c) = None
  /\ Conn(c) # None => /\ PoolOf[Conn(c)] = PoolOf[c]
                       /\ client[Conn(c)] \in {"used", "broken"}
  /\ call[c].pc \in {"try", "txid"} => client[Conn(c)] = "used"

OneUser == \A c, d \in Callers : Conn(c) = Conn(d) /\ Conn(c) # None => c = d

WireInv == TypeOK /\ OneUser /\ \A c \in Callers : CallOK(c)

(* A step of c that gives it at most a connection that nobody uses.           *)
LEMMA WireLocal ==
  ASSUME WireInv, TypeOK', NEW c \in Callers, Others(c), CallOK(c)',
         \A s \in Sessions : client'[s] = client[s] \/ s = Conn(c) \/ client[s] \in {"none", "idle"},
         call'[c].conn \in {None, Conn(c)} \/ client[call'[c].conn] \in {"none", "idle"}
  PROVE  WireInv'
<1>1. ASSUME NEW d \in Callers, d # c PROVE CallOK(d)'
  <2>1. call'[d] = call[d] /\ CallOK(d) /\ Conn(d) \in Sessions \cup {None}
    BY <1>1 DEF Others, WireInv, TypeOK, Call, Conn
  <2>2. Conn(d) # None => client'[Conn(d)] = client[Conn(d)]
    BY <1>1, <2>1 DEF CallOK, WireInv, OneUser
  <2> QED BY <2>1, <2>2 DEF CallOK, Conn
<1>2. OneUser'
  <2> SUFFICES ASSUME NEW d \in Callers, d # c PROVE call'[d].conn = call'[c].conn => call'[c].conn = None
    BY DEF OneUser, Conn, Others, WireInv
  <2> QED BY DEF Others, WireInv, OneUser, CallOK, Conn
<1> QED BY <1>1, <1>2 DEF WireInv

(* A caller that does not look for a connection has one. *)
LEMMA HasConn ==
  ASSUME WireInv, NEW c \in Callers
  PROVE  /\ CallOK(c) /\ call[c] \in Call /\ Key(c) \in Slots
         /\ call[c].pc \notin {"idle", "pool"} => Conn(c) \in Sessions
  BY DEF WireInv, TypeOK, CallOK, Conn, Key, Call

(* Every step keeps the types and the wiring. *)
LEMMA WireStep ==
  ASSUME WireInv, [Next]_vars
  PROVE  WireInv'
<1> USE PgAssumption
<1>0. TypeOK
  BY DEF WireInv
<1>1. ASSUME NEW c \in Callers, Acquire(c) PROVE WireInv'
  <2>1. /\ call' \in [Callers -> Call] /\ Others(c)
        /\ call'[c].pc = "pool" /\ call'[c].conn = Conn(c)
    BY <1>0, <1>1, CallAfter
  <2>2. UNCHANGED <<client, server, lock, xid>> /\ At(c, "idle")
    BY <1>1 DEF Acquire
  <2>3. TypeOK'
    BY <1>0, <2>1, <2>2 DEF TypeOK
  <2>4. CallOK(c)'
    BY <2>1, <2>2, HasConn DEF CallOK, Conn, At
  <2> QED BY <2>1, <2>2, <2>3, <2>4, WireLocal
<1>2. ASSUME NEW c \in Callers, PoolTakes(c) \/ PoolOpens(c) PROVE WireInv'
  <2>1. PICK s \in Sessions : /\ PoolOf[s] = PoolOf[c] /\ client[s] \in {"none", "idle"}
                              /\ client' = [client EXCEPT ![s] = "used"]
                              /\ server' \in {server, server \cup {s}}
                              /\ call' = [call EXCEPT ![c].pc = "try", ![c].conn = s]
    <3>1. CASE PoolTakes(c)
      BY <3>1, Zenon DEF PoolTakes, InPool
    <3>2. CASE PoolOpens(c)
      BY <3>2, Zenon DEF PoolOpens, InPool
    <3> QED BY <1>2, <3>1, <3>2
  <2>2. /\ call' \in [Callers -> Call] /\ Others(c)
        /\ call'[c].pc = "try" /\ call'[c].conn = s
    BY <1>0, <2>1, CallAfter
  <2>3. TypeOK'
    BY <1>0, <1>2, <2>1, <2>2 DEF TypeOK, PoolTakes, PoolOpens
  <2>4. CallOK(c)'
    BY <1>0, <2>1, <2>2 DEF CallOK, Conn, TypeOK
  <2> QED BY <1>0, <2>1, <2>2, <2>3, <2>4, WireLocal DEF TypeOK
\* a call ends, or goes on to the next slot, and its connection goes back
<1>3. ASSUME NEW c \in Callers, NEW st \in {"none", "idle"},
             UNCHANGED client \/ (Client(c, st) /\ call[c].pc \notin {"idle", "pool"}),
             lock' \in [Slots -> Lock], UNCHANGED <<server, xid>>,
             NextSlot(c) \/ call' = [call EXCEPT ![c] = Idle]
      PROVE  WireInv'
  <2>1. /\ call' \in [Callers -> Call] /\ Others(c)
        /\ call'[c].pc \in {"idle", "pool"} /\ call'[c].conn = None
    BY <1>0, <1>3, CallAfter, NextSlotType DEF Others
  <2>2. /\ client' \in [Sessions -> {"none", "idle", "used", "broken"}]
        /\ \A s \in Sessions : client'[s] = client[s] \/ s = Conn(c)
    BY <1>0, <1>3, HasConn DEF Client, TypeOK
  <2>3. TypeOK'
    BY <1>0, <1>3, <2>1, <2>2 DEF TypeOK
  <2>4. CallOK(c)'
    BY <2>1 DEF CallOK, Conn
  <2> QED BY <2>1, <2>2, <2>3, <2>4, WireLocal
<1>4. ASSUME NEW c \in Callers, PoolError(c) PROVE WireInv'
  BY <1>0, <1>3, <1>4 DEF PoolError, TypeOK
<1>5. ASSUME NEW c \in Callers, TryLock(c) PROVE WireInv'
  <2>1. /\ call' \in [Callers -> Call] /\ Others(c) /\ call'[c].pc = "txid"
        /\ call'[c].conn = Conn(c)
    BY <1>0, <1>5, CallAfter
  <2>2. UNCHANGED <<client, server, xid>> /\ At(c, "try")
    BY <1>5 DEF TryLock
  <2>3. lock' \in [Slots -> Lock]
    BY <1>0, <1>5, <2>2, HasConn, LockOps DEF TryLock, At
  <2>4. TypeOK'
    BY <1>0, <2>1, <2>2, <2>3 DEF TypeOK
  <2>5. CallOK(c)'
    BY <2>1, <2>2, HasConn DEF CallOK, Conn, At
  <2> QED BY <2>1, <2>2, <2>4, <2>5, WireLocal
<1>6. ASSUME NEW c \in Callers, Refused(c) PROVE WireInv'
  BY <1>0, <1>3, <1>6 DEF Refused, TypeOK, At
<1>7. ASSUME NEW c \in Callers, TryError(c) PROVE WireInv'
  <2>1. Key(c) \in Slots /\ Conn(c) \in Sessions /\ call[c].pc = "try"
    BY <1>7, HasConn DEF TryError, At
  <2>2. lock' \in [Slots -> Lock]
    BY <1>0, <1>7, <2>1, LockOps DEF TryError, TypeOK
  <2>3. PICK st \in {"none", "idle"} : Client(c, st)
    BY <1>7 DEF TryError
  <2> QED BY <1>3, <1>7, <2>1, <2>2, <2>3 DEF TryError
<1>8. ASSUME NEW c \in Callers, Txid(c) \/ TxidError(c) PROVE WireInv'
  <2>1. PICK t \in Nat : call' = [call EXCEPT ![c].pc = "held", ![c].token = t]
    <3>1. xid + 1 \in Nat /\ 0 \in Nat
      BY <1>0 DEF TypeOK
    <3> QED BY <1>8, <3>1, Zenon DEF Txid, TxidError
  <2>2. /\ call' \in [Callers -> Call] /\ Others(c) /\ call'[c].pc = "held"
        /\ call'[c].conn = Conn(c)
    BY <1>0, <2>1, CallAfter
  <2>3. At(c, "txid") /\ Conn(c) \in Sessions /\ CallOK(c)
    BY <1>8, HasConn DEF Txid, TxidError, At
  <2>4. UNCHANGED client \/ Client(c, "broken")
    BY <1>8 DEF Txid, TxidError
  <2>5. TypeOK'
    BY <1>0, <1>8, <2>2, <2>4 DEF Txid, TxidError, TypeOK, Client
  <2>6. CallOK(c)'
    BY <1>0, <2>2, <2>3, <2>4 DEF CallOK, Conn, At, Client, TypeOK
  <2>7. \A s \in Sessions : client'[s] = client[s] \/ s = Conn(c)
    BY <1>0, <2>4 DEF Client, TypeOK
  <2> QED BY <2>2, <2>5, <2>6, <2>7, WireLocal
<1>9. ASSUME NEW c \in Callers, Release(c) \/ ReleaseError(c) PROVE WireInv'
  <2>1. Key(c) \in Slots /\ Conn(c) \in Sessions /\ call[c].pc = "held"
    BY <1>9, HasConn DEF Release, ReleaseError, At
  <2>2. lock' \in [Slots -> Lock]
    BY <1>0, <1>9, <2>1, LockOps DEF Release, ReleaseError, TypeOK
  <2>3. PICK st \in {"none", "idle"} : Client(c, st)
    BY <1>9 DEF Release, ReleaseError
  <2> QED BY <1>3, <1>9, <2>1, <2>2, <2>3 DEF Release, ReleaseError
<1>10. ASSUME NEW s \in Sessions, End(s) PROVE WireInv'
  <2>1. Free \in Lock
    BY DEF Free, Lock
  <2>2. TypeOK'
    BY <1>0, <1>10, <2>1 DEF End, TypeOK
  <2> QED BY <1>10, <2>2 DEF End, WireInv, OneUser, CallOK, Conn
<1>11. ASSUME NEW s \in Sessions, Retire(s) PROVE WireInv'
  <2>1. TypeOK'
    BY <1>0, <1>11 DEF Retire, TypeOK
  <2>2. ASSUME NEW c \in Callers PROVE CallOK(c)'
    BY <1>0, <1>11, HasConn DEF Retire, CallOK, Conn, TypeOK
  <2> QED BY <1>11, <2>1, <2>2 DEF Retire, WireInv, OneUser, Conn
<1>12. ASSUME NEW p \in Pools, Crash(p) PROVE WireInv'
  <2>1. TypeOK'
    BY <1>0, <1>12, IdleType DEF Crash, TypeOK
  <2>2. ASSUME NEW c \in Callers PROVE CallOK(c)'
    <3>1. CASE PoolOf[c] = p
      BY <1>12, <3>1, IdleType DEF Crash, CallOK, Conn
    <3>2. CASE PoolOf[c] # p
      <4>1. call'[c] = call[c] /\ CallOK(c) /\ Conn(c) \in Sessions \cup {None}
        BY <1>0, <1>12, <3>2 DEF Crash, WireInv, TypeOK, Call, Conn
      <4>2. Conn(c) # None => client'[Conn(c)] = client[Conn(c)]
        BY <1>12, <3>2, <4>1 DEF Crash, CallOK
      <4> QED BY <4>1, <4>2 DEF CallOK, Conn
    <3> QED BY <3>1, <3>2
  <2>3. OneUser'
    BY <1>12, IdleType DEF Crash, WireInv, OneUser, Conn
  <2> QED BY <2>1, <2>2, <2>3 DEF WireInv
<1>13. CASE UNCHANGED vars
  BY <1>13 DEF vars, WireInv, TypeOK, OneUser, CallOK, Conn
<1> QED BY <1>1, <1>2, <1>4, <1>5, <1>6, <1>7, <1>8, <1>9, <1>10, <1>11, <1>12, <1>13
        DEF Next, Run, Disconnected, Drop

(* It holds before anybody has called. *)
LEMMA WireInit == Init => WireInv
<1>1. Free \in Lock
  BY DEF Free, Lock
<1> QED BY <1>1, IdleType DEF Init, WireInv, TypeOK, OneUser, CallOK, Conn

(* Pools, sessions, locks and calls are always well-typed.                   *)
THEOREM TypeCorrect == Spec => []TypeOK
<1>1. WireInv => TypeOK
  BY DEF WireInv
<1> QED BY <1>1, WireInit, WireStep, PTL DEF Spec
-----------------------------------------------------------------------------
(* A Holder whose session lasts has the advisory lock of its key, and the    *)
(* tokens of Holders that lost theirs are smaller than those that are drawn  *)
(* later.                                                                    *)
LiveOwns == \A c \in Callers : Live(c) => lock[Key(c)].by = Conn(c)

TokensDrawn == \A c \in Callers : call[c].token =< xid


LiveInv == WireInv /\ LiveOwns
FenceInv == LiveInv /\ TokensDrawn /\ Fenced

(* Two live Holders of one key are one: a session belongs to one caller.     *)
LEMMA OneLive ==
  ASSUME LiveInv, NEW c \in Callers, NEW d \in Callers, Live(c), Live(d), Key(c) = Key(d)
  PROVE  c = d
<1>1. Conn(c) = Conn(d) /\ Conn(c) # None
  BY PgAssumption DEF LiveInv, LiveOwns, WireInv, TypeOK, Live
<1> QED BY <1>1 DEF LiveInv, WireInv, OneUser

(* A step of c that takes no key from another session.                       *)
LEMMA LiveLocal ==
  ASSUME FenceInv, WireInv', NEW c \in Callers, Others(c),
         \A s \in server' \ server : client[s] = "none",
         server \subseteq server',
         \A k \in Slots : lock[k].by \notin {None, Conn(c)} => lock'[k] = lock[k],
         Live(c)' => lock'[call'[c].slot].by = call'[c].conn,
         xid' \in Nat, xid' >= xid,
         \/ call'[c].token = 0
         \/ call'[c].token = call[c].token /\ call'[c].pc # "held"
         \/ call'[c].token = xid + 1 /\ xid' = xid + 1 /\ Live(c)'
  PROVE  FenceInv'
<1> USE PgAssumption
<1>0. WireInv /\ TypeOK /\ TypeOK'
  BY DEF FenceInv, LiveInv, WireInv
<1>1. ASSUME NEW d \in Callers, d # c
      PROVE  /\ call'[d] = call[d] /\ call[d].token \in Nat /\ call[d].token =< xid
             /\ Key(d) \in Slots /\ (Live(d)' <=> Live(d))
  <2>1. call'[d] = call[d] /\ call[d] \in Call
    BY <1>0, <1>1 DEF Others, TypeOK
  <2>2. Active(d) => Conn(d) \in Sessions /\ client[Conn(d)] # "none"
    BY <1>0, HasConn DEF Active, CallOK
  <2>3. Live(d)' <=> Live(d)
    BY <1>0, <2>1, <2>2 DEF Live, Active, Conn
  <2> QED BY <2>1, <2>3 DEF Call, Key, FenceInv, TokensDrawn
<1>2. LiveOwns'
  <2> SUFFICES ASSUME NEW d \in Callers, d # c, Live(d)'
               PROVE  lock'[Key(d)].by = Conn(d)
    BY <1>1 DEF LiveOwns, Key, Conn
  <2>1. Live(d) /\ lock[Key(d)].by = Conn(d) /\ Conn(d) # None
    BY <1>0, <1>1 DEF FenceInv, LiveInv, LiveOwns, Live, TypeOK
  <2>2. Conn(d) # Conn(c)
    BY <1>0, <2>1 DEF WireInv, OneUser
  <2> QED BY <1>1, <2>1, <2>2
<1>3. call'[c].token \in Nat /\ call[c].token \in Nat /\ xid \in Nat /\ call[c].token =< xid
  BY <1>0 DEF TypeOK, Call, FenceInv, TokensDrawn
<1>4. TokensDrawn'
  BY <1>1, <1>3 DEF TokensDrawn
<1>5. Fenced'
  <2> SUFFICES ASSUME NEW a \in Callers, NEW b \in Callers,
                      (At(a, "held") /\ ~Live(a) /\ call[a].token # 0)',
                      (At(b, "held") /\ Live(b) /\ call[b].token # 0)',
                      (Key(a) = Key(b))'
               PROVE  call'[a].token < call'[b].token
    BY DEF Fenced
  <2>1. a # b
    OBVIOUS
  <2>2. CASE a # c /\ b # c
    BY <1>1, <2>2 DEF FenceInv, Fenced, At, Key
  \* c's new token is larger than every other one
  <2>3. CASE b = c
    BY <1>1, <1>3, <2>1, <2>3 DEF At
  <2> QED BY <2>1, <2>2, <2>3 DEF At
<1> QED BY <1>2, <1>4, <1>5 DEF FenceInv, LiveInv
(* The session of a caller's lock is the only one whose keys its step moves. *)
LEMMA FenceStep ==
  ASSUME FenceInv, [Next]_vars
  PROVE  FenceInv'
<1> USE PgAssumption
<1>0. WireInv /\ WireInv' /\ TypeOK /\ xid \in Nat
  BY WireStep DEF FenceInv, LiveInv, WireInv, TypeOK
<1>1. ASSUME NEW c \in Callers, Acquire(c) PROVE FenceInv'
  <2>1. Others(c) /\ call'[c].pc = "pool"
    BY <1>0, <1>1, CallAfter
  <2>2. UNCHANGED <<client, server, lock, xid>> /\ call'[c].token = call[c].token
    BY <1>0, <1>1 DEF Acquire, TypeOK, Call
  <2>3. ~Live(c)'
    BY <2>1 DEF Live, Active
  <2> QED BY <1>0, <2>1, <2>2, <2>3, LiveLocal
<1>2. ASSUME NEW c \in Callers, PoolTakes(c) \/ PoolOpens(c) PROVE FenceInv'
  <2>1. PICK s \in Sessions : /\ server' \in {server, server \cup {s}}
                              /\ s \in server' \ server => client[s] = "none"
                              /\ call' = [call EXCEPT ![c].pc = "try", ![c].conn = s]
    <3>1. CASE PoolTakes(c)
      BY <3>1, Zenon DEF PoolTakes, InPool
    <3>2. CASE PoolOpens(c)
      BY <3>2, Zenon DEF PoolOpens, InPool
    <3> QED BY <1>2, <3>1, <3>2
  <2>2. Others(c) /\ call'[c].pc = "try"
    BY <1>0, <2>1, CallAfter
  <2>3. call'[c].token = call[c].token
    BY <1>0, <2>1 DEF TypeOK, Call
  <2>4. UNCHANGED <<lock, xid>>
    BY <1>2 DEF PoolTakes, PoolOpens
  <2>5. ~Live(c)'
    BY <2>2 DEF Live, Active
  <2>6. server \subseteq server' /\ \A t \in server' \ server : client[t] = "none"
    BY <2>1
  <2> QED BY <1>0, <2>2, <2>3, <2>4, <2>5, <2>6, LiveLocal
\* a call that ends, or tries the next slot, touches its own session's keys only
<1>3. ASSUME NEW c \in Callers, UNCHANGED <<server, xid>>,
             \A k \in Slots : lock[k].by \notin {None, Conn(c)} => lock'[k] = lock[k],
             NextSlot(c) \/ call' = [call EXCEPT ![c] = Idle]
      PROVE  FenceInv'
  <2>1. Others(c) /\ call'[c].pc \in {"idle", "pool"}
    BY <1>0, <1>3, CallAfter, NextSlotType DEF Others
  <2>2. call'[c].token = 0
    <3>1. CASE call' = [call EXCEPT ![c] = Idle]
      BY <1>0, <3>1, IdleType DEF TypeOK
    <3>2. CASE NextSlot(c) /\ Key(c) + 1 \in Slots
      BY <1>0, <3>2 DEF NextSlot, TypeOK, Idle
    <3>3. CASE NextSlot(c) /\ Key(c) + 1 \notin Slots
      BY <1>0, <3>3, IdleType DEF NextSlot, TypeOK
    <3> QED BY <1>3, <3>1, <3>2, <3>3
  <2> QED BY <1>0, <1>3, <2>1, <2>2, LiveLocal DEF Live, Active
<1>4. ASSUME NEW c \in Callers, PoolError(c) PROVE FenceInv'
  BY <1>3, <1>4 DEF PoolError
<1>5. ASSUME NEW c \in Callers, TryLock(c) PROVE FenceInv'
  <2>1. Others(c) /\ call'[c].pc = "txid" /\ call'[c].conn = Conn(c) /\ call'[c].slot = Key(c)
    BY <1>0, <1>5, CallAfter
  <2>0. call'[c].token = call[c].token
    BY <1>0, <1>5 DEF TryLock, TypeOK, Call
  <2>2. UNCHANGED <<client, server, xid>> /\ Key(c) \in Slots /\ Conn(c) \in Sessions
    BY <1>0, <1>5, HasConn DEF TryLock, At
  <2>3. \A k \in Slots : lock[k].by \notin {None, Conn(c)} => lock'[k] = lock[k]
    BY <1>0, <1>5, <2>2, LockOps DEF TryLock
  <2>4. lock'[Key(c)].by = Conn(c)
    BY <1>0, <1>5, <2>2 DEF TryLock, pg_try_advisory_lock, TypeOK
  <2> QED BY <1>0, <2>0, <2>1, <2>2, <2>3, <2>4, LiveLocal
<1>6. ASSUME NEW c \in Callers, Refused(c) PROVE FenceInv'
  BY <1>3, <1>6 DEF Refused
<1>7. ASSUME NEW c \in Callers, TryError(c) PROVE FenceInv'
  <2>1. Key(c) \in Slots /\ Conn(c) \in Sessions
    BY <1>0, <1>7, HasConn DEF TryError, At
  <2>2. \A k \in Slots : lock[k].by \notin {None, Conn(c)} => lock'[k] = lock[k]
    BY <1>0, <1>7, <2>1, LockOps DEF TryError
  <2> QED BY <1>3, <1>7, <2>2 DEF TryError
<1>8. ASSUME NEW c \in Callers, Txid(c) PROVE FenceInv'
  <2>1. /\ Others(c) /\ call'[c].pc = "held" /\ call'[c].conn = Conn(c)
        /\ call'[c].slot = Key(c) /\ call'[c].token = xid + 1
    <3>1. xid + 1 \in Nat /\ call' = [call EXCEPT ![c].pc = "held", ![c].token = xid + 1]
      BY <1>0, <1>8 DEF Txid
    <3> QED BY <1>0, <3>1, CallAfter
  <2>2. Live(c) /\ Live(c)'
    BY <1>8, <2>1 DEF Txid, Live, Active, At, Conn
  <2>3. lock[Key(c)].by = Conn(c)
    BY <2>2 DEF FenceInv, LiveInv, LiveOwns
  <2>4. UNCHANGED <<client, server, lock>> /\ xid' = xid + 1 /\ xid' \in Nat /\ xid' >= xid
    BY <1>0, <1>8 DEF Txid
  <2> QED BY <1>0, <2>1, <2>2, <2>3, <2>4, LiveLocal
<1>9. ASSUME NEW c \in Callers, TxidError(c) PROVE FenceInv'
  <2>1. /\ Others(c) /\ call'[c].pc = "held" /\ call'[c].conn = Conn(c)
        /\ call'[c].slot = Key(c) /\ call'[c].token = 0
    BY <1>0, <1>9, CallAfter DEF TxidError
  <2>2. Live(c)' => Live(c) /\ lock[Key(c)].by = Conn(c)
    BY <1>9, <2>1 DEF TxidError, Live, Active, At, Conn, FenceInv, LiveInv, LiveOwns
  <2>3. UNCHANGED <<server, lock>> /\ xid' \in Nat /\ xid' >= xid
    BY <1>0, <1>9 DEF TxidError
  <2> QED BY <1>0, <2>1, <2>2, <2>3, LiveLocal
<1>10. ASSUME NEW c \in Callers, Release(c) \/ ReleaseError(c) PROVE FenceInv'
  <2>1. Key(c) \in Slots /\ Conn(c) \in Sessions
    BY <1>0, <1>10, HasConn DEF Release, ReleaseError, At
  <2>2. \A k \in Slots : lock[k].by \notin {None, Conn(c)} => lock'[k] = lock[k]
    BY <1>0, <1>10, <2>1, LockOps DEF Release, ReleaseError
  <2> QED BY <1>3, <1>10, <2>2 DEF Release, ReleaseError
\* when a session ends, its Holder was the only live one of its key
<1>11. ASSUME NEW s \in Sessions, End(s) PROVE FenceInv'
  <2>1. UNCHANGED <<client, xid, call>> /\ server' = server \ {s}
    BY <1>11 DEF End
  <2>2. ASSUME NEW c \in Callers
        PROVE  Live(c)' <=> Live(c) /\ Conn(c) # s
    BY <2>1 DEF Live, Active, Conn
  <2>3. LiveOwns'
    BY <1>0, <1>11, <2>1, <2>2, HasConn
       DEF End, LiveOwns, FenceInv, LiveInv, Key, Conn, TypeOK
  <2>4. TokensDrawn'
    BY <2>1 DEF TokensDrawn, FenceInv
  <2>5. Fenced'
    <3> SUFFICES ASSUME NEW a \in Callers, NEW b \in Callers,
                        At(a, "held"), ~Live(a)', call[a].token # 0,
                        At(b, "held"), Live(b)', call[b].token # 0,
                        Key(a) = Key(b)
                 PROVE  call[a].token < call[b].token
      BY <2>1 DEF Fenced, At, Key
    <3>1. Live(b) /\ ~Live(a)
      BY <2>2, OneLive DEF FenceInv
    <3> QED BY <3>1 DEF FenceInv, Fenced
  <2> QED BY <1>0, <2>3, <2>4, <2>5 DEF FenceInv, LiveInv
<1>12. ASSUME NEW s \in Sessions, Retire(s) PROVE FenceInv'
  BY <1>0, <1>12 DEF Retire, FenceInv, LiveInv, LiveOwns, TokensDrawn, Fenced,
                     Live, Active, At, Key, Conn
<1>13. ASSUME NEW p \in Pools, Crash(p) PROVE FenceInv'
  <2>1. UNCHANGED <<server, lock, xid>>
    BY <1>13 DEF Crash
  <2>2. ASSUME NEW c \in Callers
        PROVE  call'[c] = call[c] \/ (call'[c].pc = "idle" /\ call'[c].token = 0)
    BY <1>13, IdleType DEF Crash
  <2>3. LiveOwns'
    BY <2>1, <2>2 DEF LiveOwns, FenceInv, LiveInv, Live, Active, Key, Conn
  <2>4. TokensDrawn'
    BY <1>0, <2>1, <2>2 DEF TokensDrawn, FenceInv
  <2>5. Fenced'
    BY <2>1, <2>2 DEF Fenced, FenceInv, At, Live, Active, Key, Conn
  <2> QED BY <1>0, <2>3, <2>4, <2>5 DEF FenceInv, LiveInv
<1>14. CASE UNCHANGED vars
  BY <1>0, <1>14 DEF vars, FenceInv, LiveInv, LiveOwns, TokensDrawn, Fenced,
                     Live, Active, At, Key, Conn
<1> QED BY <1>1, <1>2, <1>4, <1>5, <1>6, <1>7, <1>8, <1>9, <1>10, <1>11, <1>12, <1>13, <1>14
        DEF Next, Run, Disconnected, Drop
(* It holds before anybody has called. *)
LEMMA FenceInit == Init => FenceInv
  BY WireInit, IdleType DEF Init, FenceInv, LiveInv, LiveOwns, TokensDrawn, Fenced,
                            Live, Active, At

(* Live Holders have different keys, so there are at most N. *)
LEMMA KeysBoundLive ==
  ASSUME LiveInv
  PROVE  AtMostN
<1> DEFINE Holding == {c \in Callers : Live(c)}
           f == [c \in Holding |-> Key(c)]
<1>1. f \in [Holding -> Slots]
  BY DEF LiveInv, WireInv, TypeOK, Call, Key
<1>2. \A c, d \in Holding : f[c] = f[d] => c = d
  BY OneLive
<1>3. f \in Injection(Holding, Slots)
  BY <1>1, <1>2 DEF Injection, IsInjective
<1>4. IsFiniteSet(Slots) /\ Cardinality(Slots) = N
  BY FS_Interval, PgAssumption DEF Slots
<1>5. Cardinality(Holding) =< Cardinality(Slots)
  BY <1>3, <1>4, FS_Injection
<1> QED BY <1>4, <1>5 DEF AtMostN

(* At most N callers have the lock as long as their sessions last, whatever  *)
(* contexts end, connections break and processes die, even if a connection   *)
(* went back to the pool with its lock and a later caller is granted it      *)
(* again.                                                                    *)
THEOREM SessionExclusion == Spec => []AtMostN
<1>1. FenceInv => AtMostN
  BY KeysBoundLive DEF FenceInv
<1> QED BY <1>1, FenceInit, FenceStep, PTL DEF Spec

(* A Holder that lost its session has a smaller token than the one that has  *)
(* the lock now: txid_current() is asked for on the session of the lock.     *)
THEOREM TokenFencesLostSession == Spec => []Fenced
<1>1. FenceInv => Fenced
  BY DEF FenceInv
<1> QED BY <1>1, FenceInit, FenceStep, PTL DEF Spec

-----------------------------------------------------------------------------
(* Every lock has a caller that will release it, once, or a connection that   *)
(* is closed, so that the server will.                                        *)
Kept(k) ==
  \/ client[lock[k].by] = "none"
  \/ \E c \in Callers : Active(c) /\ Conn(c) = lock[k].by /\ Key(c) = k

Accounted(k) ==
  /\ lock[k].by = None => lock[k].count = 0
  /\ lock[k].by # None => lock[k].by \in server /\ lock[k].count = 1 /\ Kept(k)

CleanInv == WireInv /\ \A k \in Slots : Accounted(k)

(* A connection that goes back to the pool has no lock but its caller's.      *)
LEMMA OwnKeyOnly ==
  ASSUME CleanInv, NEW c \in Callers, Conn(c) # None, client[Conn(c)] = "used",
         NEW k \in Slots, lock[k].by = Conn(c)
  PROVE  Active(c) /\ Key(c) = k /\ lock[k].count = 1
<1>1. PICK d \in Callers : Active(d) /\ Conn(d) = lock[k].by /\ Key(d) = k
  BY DEF CleanInv, Accounted, Kept
<1>2. d = c
  BY <1>1 DEF CleanInv, WireInv, OneUser
<1> QED BY <1>1, <1>2 DEF CleanInv, Accounted

(* The keys that a step of c does not touch stay accounted for. *)
LEMMA CleanLocal ==
  ASSUME CleanInv, WireInv', NEW c \in Callers, Others(c), server \subseteq server',
         NEW k \in Slots, lock'[k] = lock[k], lock[k].by # Conn(c) \/ lock[k].by = None,
         lock[k].by # None => client'[lock[k].by] = client[lock[k].by]
  PROVE  Accounted(k)'
<1>1. Accounted(k)
  BY DEF CleanInv
<1>2. CASE lock[k].by = None
  BY <1>1, <1>2 DEF Accounted
<1>3. CASE lock[k].by # None
  <2>1. Kept(k)'
    BY <1>1, <1>3 DEF Accounted, Kept, Others, Active, Conn, Key
  <2> QED BY <1>1, <1>3, <2>1 DEF Accounted
<1> QED BY <1>2, <1>3
(* Unless the context of a Release has ended, every lock stays accounted for. *)
LEMMA CleanStep ==
  ASSUME "cancelRelease" \notin Faults, CleanInv, [Next]_vars
  PROVE  CleanInv'
<1> USE PgAssumption
<1>0. WireInv /\ WireInv' /\ TypeOK /\ TypeOK'
  BY WireStep DEF CleanInv, WireInv
<1> SUFFICES ASSUME NEW k \in Slots PROVE Accounted(k)'
  BY <1>0 DEF CleanInv
<1>a. /\ Accounted(k) /\ lock[k] \in Lock /\ lock[k].by \in Sessions \cup {None}
      /\ Free.by = None /\ Free.count = 0
  BY <1>0 DEF CleanInv, TypeOK, Lock, Free
<1>1. ASSUME NEW c \in Callers, Acquire(c) PROVE Accounted(k)'
  <2>1. Others(c) /\ Conn(c) = None /\ UNCHANGED <<client, server, lock>>
    BY <1>0, <1>1, CallAfter, HasConn DEF Acquire, CallOK, At
  <2> QED BY <1>0, <2>1, CleanLocal
<1>2. ASSUME NEW c \in Callers, PoolTakes(c) \/ PoolOpens(c) PROVE Accounted(k)'
  <2>1. PICK s \in Sessions : /\ client[s] = "idle" \/ s \notin server
                              /\ client' = [client EXCEPT ![s] = "used"]
                              /\ server \subseteq server'
                              /\ call' = [call EXCEPT ![c].pc = "try", ![c].conn = s]
    <3>1. CASE PoolTakes(c)
      BY <3>1, Zenon DEF PoolTakes, InPool
    <3>2. CASE PoolOpens(c)
      BY <3>2, Zenon DEF PoolOpens, InPool
    <3> QED BY <1>2, <3>1, <3>2
  <2>2. Others(c) /\ Conn(c) = None /\ UNCHANGED lock
    BY <1>0, <1>2, <2>1, CallAfter, HasConn DEF PoolTakes, PoolOpens, CallOK, At
  \* nobody has an idle connection, or one that the server does not know
  <2>3. lock[k].by # s
    BY <1>0, <1>a, <2>1, HasConn DEF Accounted, Kept, CallOK
  <2> QED BY <1>0, <1>a, <2>1, <2>2, <2>3, CleanLocal DEF TypeOK
\* a connection without a lock goes back
<1>3. ASSUME NEW c \in Callers, At(c, "try") PROVE Conn(c) \in Sessions /\ lock[k].by # Conn(c)
  BY <1>0, <1>3, HasConn, OwnKeyOnly DEF At, Active, CallOK
<1>4. ASSUME NEW c \in Callers, Refused(c) PROVE Accounted(k)'
  <2>1. Others(c) /\ UNCHANGED <<server, lock>> /\ lock[k].by # Conn(c)
    BY <1>0, <1>3, <1>4, NextSlotType DEF Refused, Others
  <2>2. lock[k].by # None => client'[lock[k].by] = client[lock[k].by]
    BY <1>0, <1>a, <1>4, <2>1 DEF Refused, Client, TypeOK
  <2> QED BY <1>0, <2>1, <2>2, CleanLocal
<1>5. ASSUME NEW c \in Callers, PoolError(c) PROVE Accounted(k)'
  <2>1. Others(c) /\ Conn(c) = None /\ UNCHANGED <<client, server, lock>>
    BY <1>0, <1>5, CallAfter, HasConn DEF PoolError, CallOK, At
  <2> QED BY <1>0, <2>1, CleanLocal
\* a free key is granted once
<1>6. ASSUME NEW c \in Callers, At(c, "try"), Conn(c) \in server,
             Available(Key(c), Conn(c)), pg_try_advisory_lock(Key(c), Conn(c)), k = Key(c)
      PROVE  lock'[k].by = Conn(c) /\ lock'[k].count = 1
  <2>1. lock[k].by = None /\ lock[k].count = 0
    BY <1>a, <1>3, <1>6 DEF Available, Accounted
  <2> QED BY <1>0, <1>6, <2>1 DEF pg_try_advisory_lock, TypeOK
<1>7. ASSUME NEW c \in Callers, TryLock(c) PROVE Accounted(k)'
  <2>1. /\ Others(c) /\ call'[c].pc = "txid" /\ call'[c].conn = Conn(c) /\ call'[c].slot = Key(c)
        /\ UNCHANGED <<client, server>> /\ At(c, "try") /\ Conn(c) \in server
    BY <1>0, <1>7, CallAfter DEF TryLock
  <2>2. CASE k = Key(c)
    <3>1. lock'[k].by = Conn(c) /\ lock'[k].count = 1 /\ Conn(c) # None
      BY <1>3, <1>6, <1>7, <2>1, <2>2 DEF TryLock
    <3>2. Kept(k)'
      BY <2>1, <2>2, <3>1 DEF Kept, Active, Conn, Key
    <3> QED BY <2>1, <3>1, <3>2 DEF Accounted
  <2>3. CASE k # Key(c)
    <3>1. lock'[k] = lock[k]
      BY <1>0, <1>7, <2>3 DEF TryLock, pg_try_advisory_lock, TypeOK
    <3> QED BY <1>0, <1>3, <2>1, <3>1, CleanLocal
  <2> QED BY <2>2, <2>3
<1>8. ASSUME NEW c \in Callers, TryError(c) PROVE Accounted(k)'
  <2>1. /\ Others(c) /\ server' = server /\ At(c, "try")
        /\ Conn(c) \in Sessions /\ lock[k].by # Conn(c)
    BY <1>0, <1>3, <1>8, CallAfter DEF TryError
  <2>2. lock[k].by # None => client'[lock[k].by] = client[lock[k].by]
    BY <1>0, <1>a, <1>8, <2>1 DEF TryError, Client, TypeOK
  <2>3. CASE lock'[k] = lock[k]
    BY <1>0, <2>1, <2>2, <2>3, CleanLocal
  <2>4. CASE lock'[k] # lock[k]
    <3>1. /\ pg_try_advisory_lock(Key(c), Conn(c)) /\ Client(c, "none")
          /\ Conn(c) \in server /\ Available(Key(c), Conn(c))
      BY <1>8, <2>4 DEF TryError
    <3>2. k = Key(c)
      BY <1>0, <2>4, <3>1 DEF pg_try_advisory_lock, TypeOK
    <3>3. lock'[k].by = Conn(c) /\ lock'[k].count = 1 /\ Conn(c) # None
      BY <1>6, <2>1, <3>1, <3>2
    <3>4. Kept(k)'
      BY <1>0, <2>1, <3>1, <3>3 DEF Kept, Client, TypeOK
    <3> QED BY <2>1, <3>1, <3>3, <3>4 DEF Accounted
  <2> QED BY <2>3, <2>4
<1>9. ASSUME NEW c \in Callers, Txid(c) \/ TxidError(c) PROVE Accounted(k)'
  <2>1. PICK t \in Nat : call' = [call EXCEPT ![c].pc = "held", ![c].token = t]
    <3>1. xid + 1 \in Nat /\ 0 \in Nat
      BY <1>0 DEF TypeOK
    <3> QED BY <1>9, <3>1, Zenon DEF Txid, TxidError
  <2>2. /\ Others(c) /\ call'[c].pc = "held" /\ call'[c].conn = Conn(c) /\ call'[c].slot = Key(c)
        /\ UNCHANGED <<server, lock>> /\ Active(c) /\ Conn(c) \in Sessions
    BY <1>0, <1>9, <2>1, CallAfter, HasConn DEF Txid, TxidError, Active, At
  <2>3. CASE lock[k].by = Conn(c)
    <3>1. Kept(k)'
      <4>1. client[Conn(c)] # "none"
        BY <1>0, <2>2, HasConn, PgAssumption DEF CallOK
      <4>2. \A d \in Callers : Active(d) => Active(d)' /\ Conn(d)' = Conn(d) /\ Key(d)' = Key(d)
        BY <2>2 DEF Others, Active, Conn, Key
      <4>3. Kept(k) /\ lock'[k] = lock[k]
        BY <1>a, <2>2, <2>3 DEF Accounted
      <4> QED BY <2>3, <4>1, <4>2, <4>3 DEF Kept
    <3> QED BY <1>a, <2>2, <2>3, <3>1 DEF Accounted
  <2>4. CASE lock[k].by # Conn(c)
    <3>1. lock[k].by # None => client'[lock[k].by] = client[lock[k].by]
      BY <1>0, <1>a, <1>9, <2>4 DEF Txid, TxidError, Client, TypeOK
    <3> QED BY <1>0, <2>2, <2>4, <3>1, CleanLocal
  <2> QED BY <2>3, <2>4
<1>10. ASSUME NEW c \in Callers, Release(c) \/ ReleaseError(c) PROVE Accounted(k)'
  <2>1. /\ Others(c) /\ server' = server /\ At(c, "held")
        /\ Conn(c) \in Sessions /\ Key(c) \in Slots
    BY <1>0, <1>10, CallAfter, HasConn DEF Release, ReleaseError, At
  <2>2. CASE lock[k].by # Conn(c)
    <3>1. lock[k].by # None => client'[lock[k].by] = client[lock[k].by]
      BY <1>0, <1>a, <1>10, <2>2 DEF Release, ReleaseError, Client, TypeOK
    <3>2. lock'[k] = lock[k]
      BY <1>0, <1>10, <2>1, <2>2 DEF Release, ReleaseError, pg_advisory_unlock, TypeOK
    <3> QED BY <1>0, <2>1, <2>2, <3>1, <3>2, CleanLocal
  \* the unlock frees the key of the connection, which it has once
  <2>3. ASSUME lock[k].by = Conn(c), client[Conn(c)] = "used", pg_advisory_unlock(Key(c), Conn(c))
        PROVE  Accounted(k)'
    <3>1. k = Key(c) /\ lock[k].count = 1
      BY <2>1, <2>3, OwnKeyOnly DEF At
    <3>2. lock'[k] = Free
      BY <1>0, <2>3, <3>1 DEF pg_advisory_unlock, TypeOK
    <3> QED BY <1>a, <3>2 DEF Accounted
  \* without it, the connection is closed
  <2>4. ASSUME lock[k].by = Conn(c), UNCHANGED lock, Client(c, "none")
        PROVE  Accounted(k)'
    <3>1. Kept(k)'
      BY <1>0, <2>1, <2>4 DEF Kept, Client, TypeOK
    <3> QED BY <1>a, <2>1, <2>4, <3>1 DEF Accounted
  <2> QED BY <1>10, <2>2, <2>3, <2>4 DEF Release, ReleaseError
<1>11. ASSUME NEW s \in Sessions, End(s) PROVE Accounted(k)'
  <2>1. lock'[k] = IF lock[k].by = s THEN Free ELSE lock[k]
    BY <1>11 DEF End
  <2>2. UNCHANGED <<client, call>> /\ server' = server \ {s}
    BY <1>11 DEF End
  <2>3. lock[k].by # s => (Kept(k)' <=> Kept(k))
    BY <2>1, <2>2 DEF Kept, Active, Conn, Key
  <2> QED BY <1>a, <2>1, <2>2, <2>3 DEF Accounted
<1>12. ASSUME NEW s \in Sessions, Retire(s) PROVE Accounted(k)'
  <2>1. UNCHANGED <<server, lock, call>> /\ client' = [client EXCEPT ![s] = "none"]
    BY <1>12 DEF Retire
  <2>2. Kept(k) /\ lock[k].by \in Sessions => Kept(k)'
    BY <1>0, <2>1 DEF Kept, Active, Conn, Key, TypeOK
  <2> QED BY <1>a, <2>1, <2>2 DEF Accounted
<1>13. ASSUME NEW p \in Pools, Crash(p) PROVE Accounted(k)'
  <2>1. UNCHANGED <<server, lock>>
    BY <1>13 DEF Crash
  <2>2. ASSUME Kept(k), lock[k].by \in Sessions PROVE Kept(k)'
    <3>1. CASE client[lock[k].by] = "none" \/ PoolOf[lock[k].by] = p
      BY <1>13, <2>1, <2>2, <3>1 DEF Crash, Kept
    <3>2. CASE client[lock[k].by] # "none" /\ PoolOf[lock[k].by] # p
      <4>1. PICK c \in Callers : Active(c) /\ Conn(c) = lock[k].by /\ Key(c) = k
        BY <2>2, <3>2 DEF Kept
      <4>2. PoolOf[c] # p
        BY <1>0, <2>2, <3>2, <4>1, HasConn DEF CallOK
      <4>3. call'[c] = call[c]
        BY <1>13, <4>2 DEF Crash
      <4> QED BY <2>1, <4>1, <4>3 DEF Kept, Active, Conn, Key
    <3> QED BY <3>1, <3>2
  <2> QED BY <1>a, <2>1, <2>2 DEF Accounted
<1>14. CASE UNCHANGED vars
  BY <1>a, <1>14 DEF vars, Accounted, Kept, Active, Conn, Key
<1> QED BY <1>1, <1>2, <1>4, <1>5, <1>7, <1>8, <1>9, <1>10, <1>11, <1>12, <1>13, <1>14
        DEF Next, Run, Disconnected, Drop

(* It holds before anybody has called. *)
LEMMA CleanInit == Init => CleanInv
  BY WireInit DEF Init, CleanInv, Accounted, Free

(* As long as no Release is called with a context that has ended, no          *)
(* connection goes back to the pool with a lock.  The hypothesis cannot be    *)
(* dropped: the run pglock_cancelled_release has a counterexample.            *)
THEOREM ReleaseCleansPool == "cancelRelease" \notin Faults => (Spec => []PoolClean)
<1> SUFFICES ASSUME "cancelRelease" \notin Faults
             PROVE  Spec => []PoolClean
  OBVIOUS
<1>1. CleanInv /\ [Next]_vars => CleanInv'
  BY CleanStep
<1>2. CleanInv => PoolClean
  <2> SUFFICES ASSUME CleanInv, NEW k \in Slots, lock[k].by # None
               PROVE  client[lock[k].by] # "idle"
    BY DEF PoolClean
  <2>1. Kept(k)
    BY DEF CleanInv, Accounted
  <2> QED BY <2>1 DEF Kept, CleanInv, WireInv, CallOK, Active
<1> QED BY CleanInit, <1>1, <1>2, PTL DEF Spec
-----------------------------------------------------------------------------
(* The contract of a slot.  What it sees of a caller whose call is r, when    *)
(* the server has the sessions S.                                             *)
Seen(k, r, S) == IF r.slot # k THEN "out"
                 ELSE IF r.pc \in {"pool", "try"} THEN "trying"
                 ELSE IF r.pc \in {"txid", "held"} /\ r.conn \in S THEN "in"
                 ELSE "out"

(* A step that changes what the contract sees of c, and of nobody else. *)
LEMMA ContractUpdate ==
  ASSUME NEW k \in Slots, NEW c \in Callers,
         \A d \in Callers \ {c} : Seen(k, call'[d], server') = Seen(k, call[d], server)
  PROVE  /\ contractState(k)[c] = Seen(k, call[c], server)
         /\ contractState(k)' = [contractState(k) EXCEPT ![c] = Seen(k, call'[c], server')]
         /\ Seen(k, call'[c], server') = Seen(k, call[c], server) => UNCHANGED contractState(k)
<1>1. contractState(k) = [d \in Callers |-> Seen(k, call[d], server)]
  BY DEF contractState, Seen, Live, Active, Key, Conn
<1>2. contractState(k)' = [d \in Callers |-> Seen(k, call'[d], server')]
  BY DEF contractState, Seen, Live, Active, Key, Conn
<1> HIDE DEF Seen
<1> QED BY <1>1, <1>2

(* The contract's Cardinality, an instance of FiniteSets, is the same one. *)
LEMMA SameCardinality ==
  ASSUME NEW k \in Slots, NEW S
  PROVE  Contract(k)!Cardinality(S) = Cardinality(S)
  BY DEF Cardinality, Contract!Cardinality

ContractInv == FenceInv /\ CleanInv

(* Whoever is "in" at a slot is the live owner of its lock. *)
LEMMA InOwns ==
  ASSUME ContractInv, NEW k \in Slots, NEW d \in Contract(k)!In
  PROVE  d \in Callers /\ Live(d) /\ Key(d) = k /\ lock[k].by = Conn(d) /\ Conn(d) # None
<1>1. d \in Callers /\ Live(d) /\ Key(d) = k
  BY DEF Contract!In, contractState
<1>2. Conn(d) \in Sessions
  BY <1>1 DEF ContractInv, CleanInv, WireInv, TypeOK, Live
<1> QED BY <1>1, <1>2, PgAssumption DEF ContractInv, FenceInv, LiveInv, LiveOwns

(* What pg_try_advisory_lock answers decides whether somebody is inside. *)
LEMMA LockDecides ==
  ASSUME ContractInv, NEW c \in Callers, At(c, "try"), NEW k \in Slots, Key(c) = k
  PROVE  /\ Available(k, Conn(c)) => Contract(k)!Cardinality(Contract(k)!In) = 0
         /\ ~Available(k, Conn(c)) => \/ Contract(k)!Cardinality(Contract(k)!In) = 1
                                      \/ Unnoticed(k)
<1>1. ASSUME Available(k, Conn(c)) PROVE Contract(k)!Cardinality(Contract(k)!In) = 0
  <2>1. ASSUME NEW d \in Contract(k)!In PROVE FALSE
    <3>1. d \in Callers /\ Live(d) /\ Conn(d) = Conn(c) /\ Conn(d) # None
      BY <1>1, <2>1, InOwns DEF Available
    <3>2. d = c
      BY <3>1 DEF ContractInv, CleanInv, WireInv, OneUser
    <3> QED BY <3>1, <3>2 DEF Live, Active, At
  <2> QED BY <2>1, SameCardinality, FS_EmptySet
<1>2. ASSUME ~Available(k, Conn(c)), ~Unnoticed(k)
      PROVE  Contract(k)!Cardinality(Contract(k)!In) = 1
  <2>1. lock[k].by # None /\ lock[k].by \in server /\ client[lock[k].by] # "none" /\ Kept(k)
    BY <1>2 DEF Available, Unnoticed, ContractInv, CleanInv, Accounted
  <2>2. PICK d \in Callers : Active(d) /\ Conn(d) = lock[k].by /\ Key(d) = k
    BY <2>1 DEF Kept
  <2>3. Live(d) /\ contractState(k)[d] = "in"
    BY <2>1, <2>2 DEF Live, Active, contractState
  <2>4. d \in Contract(k)!In
    BY <2>3 DEF Contract!In
  <2>5. \A e \in Contract(k)!In : e = d
    BY <2>2, <2>3, InOwns, OneLive DEF ContractInv, FenceInv
  <2>6. Contract(k)!In = {d}
    BY <2>4, <2>5
  <2> QED BY <2>6, SameCardinality, FS_Singleton
<1> QED BY <1>1, <1>2

(* What the contract of a slot allows: a step of it, nothing that it can see, *)
(* a call that is abandoned, or a process that dies.                          *)
Abandoned(k, c) ==
  /\ PoolError(c) \/ TryError(c) \/ Refused(c)
  /\ Refused(c) => Unnoticed(k)
  /\ Contract(k)!Abandon(c)

Allowed(k) ==
  \/ Contract(k)!Next
  \/ UNCHANGED contractState(k)
  \/ \E c \in Callers : Abandoned(k, c)
  \/ Dies(k)

(* A step of c is seen of c only, if the new sessions are nobody else's. *)
LEMMA OthersSeen ==
  ASSUME WireInv, NEW k \in Slots, NEW c \in Callers, Others(c), server \subseteq server',
         \A s \in server' \ server : client[s] \in {"none", "idle"}
  PROVE  \A d \in Callers \ {c} : Seen(k, call'[d], server') = Seen(k, call[d], server)
<1> SUFFICES ASSUME NEW d \in Callers \ {c}
             PROVE  Seen(k, call[d], server') = Seen(k, call[d], server)
  BY DEF Others
<1>1. call[d].pc \in {"txid", "held"} => client[Conn(d)] \in {"used", "broken"}
  BY HasConn, PgAssumption DEF CallOK
<1> QED BY <1>1 DEF Seen, Conn

(* Acquire passes from a slot to the next one, and to no other. *)
LEMMA NextSlotSeen ==
  ASSUME TypeOK, NEW c \in Callers, NextSlot(c)
  PROVE  \/ call'[c].pc = "pool" /\ call'[c].slot = Key(c) + 1
         \/ call'[c].pc = "idle"
  BY IdleType, PgAssumption DEF NextSlot, TypeOK, Call, Idle

(* The callers' own steps. *)
LEMMA CallerAllowed ==
  ASSUME ContractInv, NEW k \in Slots, NEW c \in Callers,
         Acquire(c) \/ PoolError(c) \/ Run(c)
  PROVE  Allowed(k)
<1> USE PgAssumption
<1>0. WireInv /\ TypeOK
  BY DEF ContractInv, CleanInv, WireInv
\* a step that leaves the sessions alone is seen of its caller
<1>b. ASSUME Others(c), server' = server
      PROVE  /\ contractState(k)[c] = Seen(k, call[c], server)
             /\ contractState(k)' = [contractState(k) EXCEPT ![c] = Seen(k, call'[c], server')]
             /\ Seen(k, call'[c], server') = Seen(k, call[c], server) => UNCHANGED contractState(k)
  <2>1. server \subseteq server' /\ \A s \in server' \ server : client[s] \in {"none", "idle"}
    BY <1>b
  <2> QED BY <1>0, <1>b, <2>1, OthersSeen, ContractUpdate
<1>1. ASSUME Others(c), server' = server,
             Seen(k, call[c], server) = "out", Seen(k, call'[c], server') = "trying"
      PROVE  Allowed(k)
  BY <1>1, <1>b DEF Allowed, Contract!Next, Contract!Call
<1>2. CASE Acquire(c)
  <2>1. /\ Others(c) /\ server' = server
        /\ call[c].pc = "idle" /\ call'[c].pc = "pool"
    BY <1>0, <1>2, CallAfter DEF Acquire, At
  <2>2. Seen(k, call[c], server) = "out" /\ Seen(k, call'[c], server') \in {"out", "trying"}
    BY <2>1 DEF Seen
  <2> QED BY <1>1, <1>b, <2>1, <2>2 DEF Allowed
<1>3. CASE PoolTakes(c) \/ PoolOpens(c)
  <2>1. PICK s \in Sessions : /\ client[s] \in {"none", "idle"}
                              /\ server' \in {server, server \cup {s}}
                              /\ call' = [call EXCEPT ![c].pc = "try", ![c].conn = s]
    <3>1. CASE PoolTakes(c)
      BY <3>1, Zenon DEF PoolTakes, InPool
    <3>2. CASE PoolOpens(c)
      BY <3>2, Zenon DEF PoolOpens, InPool
    <3> QED BY <1>3, <3>1, <3>2
  <2>2. Others(c) /\ call[c].pc = "pool" /\ call'[c].pc = "try"
    BY <1>0, <1>3, <2>1, CallAfter DEF PoolTakes, PoolOpens, At
  <2>3. call'[c].slot = call[c].slot
    BY <1>0, <2>1 DEF TypeOK, Call
  <2>4. Seen(k, call'[c], server') = Seen(k, call[c], server)
    BY <2>2, <2>3 DEF Seen
  <2>5. server \subseteq server' /\ \A t \in server' \ server : client[t] \in {"none", "idle"}
    BY <2>1
  <2>6. \A d \in Callers \ {c} : Seen(k, call'[d], server') = Seen(k, call[d], server)
    BY <1>0, <2>2, <2>5, OthersSeen
  <2> QED BY <2>4, <2>6, ContractUpdate DEF Allowed
<1>4. CASE TryLock(c)
  <2>1. /\ Others(c) /\ server' = server /\ call[c].pc = "try" /\ call'[c].pc = "txid"
        /\ call'[c].slot = Key(c) /\ call'[c].conn \in server
    BY <1>0, <1>4, CallAfter DEF TryLock, At
  <2>2. CASE Key(c) = k
    <3>1. Seen(k, call[c], server) = "trying" /\ Seen(k, call'[c], server') = "in"
      BY <2>1, <2>2 DEF Seen, Key
    <3>2. Contract(k)!Cardinality(Contract(k)!In) = 0
      BY <1>4, <2>2, LockDecides DEF TryLock
    <3>3. Contract(k)!Cardinality(Contract(k)!In) < 1
      BY <3>2
    <3>4. Contract(k)!Grant(c)
      BY <1>b, <2>1, <3>1, <3>3 DEF Contract!Grant
    <3> QED BY <3>4 DEF Contract!Next, Allowed
  <2>3. CASE Key(c) # k
    <3>1. Seen(k, call'[c], server') = Seen(k, call[c], server)
      BY <2>1, <2>3 DEF Seen, Key
    <3> QED BY <1>b, <2>1, <3>1 DEF Allowed
  <2> QED BY <2>2, <2>3
<1>5. CASE Refused(c)
  <2>1. /\ Others(c) /\ server' = server /\ call[c].pc = "try" /\ Key(c) \in Nat
        /\ \/ call'[c].pc = "pool" /\ call'[c].slot = Key(c) + 1
           \/ call'[c].pc = "idle"
    BY <1>0, <1>5, NextSlotType, NextSlotSeen, HasConn DEF Refused, Others, At, Slots
  <2>2. CASE Key(c) = k
    <3>1. Seen(k, call[c], server) = "trying" /\ Seen(k, call'[c], server') = "out"
      BY <2>1, <2>2 DEF Seen, Key
    <3>2. CASE Unnoticed(k)
      <4>1. Contract(k)!Abandon(c)
        BY <1>b, <2>1, <3>1 DEF Contract!Abandon
      <4> QED BY <1>5, <3>2, <4>1 DEF Abandoned, Allowed
    <3>3. CASE ~Unnoticed(k)
      <4>1. Contract(k)!Cardinality(Contract(k)!In) = 1
        BY <1>5, <2>2, <3>3, LockDecides DEF Refused
      <4>2. Contract(k)!Cardinality(Contract(k)!In) >= 1
        BY <4>1
      <4>3. Contract(k)!Refuse(c)
        BY <1>b, <2>1, <3>1, <4>2 DEF Contract!Refuse
      <4> QED BY <4>3 DEF Contract!Next, Allowed
    <3> QED BY <3>2, <3>3
  <2>3. CASE Key(c) # k
    <3>1. Seen(k, call[c], server) = "out" /\ Seen(k, call'[c], server') \in {"out", "trying"}
      BY <2>1, <2>3 DEF Seen, Key
    <3> QED BY <1>1, <1>b, <2>1, <3>1 DEF Allowed
  <2> QED BY <2>2, <2>3
<1>6. CASE PoolError(c) \/ TryError(c)
  <2>1. /\ Others(c) /\ server' = server
        /\ call[c].pc \in {"pool", "try"} /\ call'[c].pc = "idle"
    BY <1>0, <1>6, CallAfter DEF PoolError, TryError, At
  <2>2. Seen(k, call[c], server) \in {"trying", "out"} /\ Seen(k, call'[c], server') = "out"
    BY <2>1 DEF Seen
  <2>3. CASE Seen(k, call[c], server) = "trying"
    <3>1. Contract(k)!Abandon(c)
      BY <1>b, <2>1, <2>2, <2>3 DEF Contract!Abandon
    <3> QED BY <1>5, <1>6, <3>1 DEF Abandoned, Allowed
  <2> QED BY <1>b, <2>1, <2>2, <2>3 DEF Allowed
<1>7. CASE Txid(c) \/ TxidError(c)
  <2>1. PICK t \in Nat : call' = [call EXCEPT ![c].pc = "held", ![c].token = t]
    <3>1. xid + 1 \in Nat /\ 0 \in Nat
      BY <1>0 DEF TypeOK
    <3> QED BY <1>7, <3>1, Zenon DEF Txid, TxidError
  <2>2. /\ Others(c) /\ server' = server /\ call[c].pc = "txid" /\ call'[c].pc = "held"
        /\ call'[c].conn = call[c].conn /\ call'[c].slot = call[c].slot
    BY <1>0, <1>7, <2>1, CallAfter DEF Txid, TxidError, At, Conn, Key
  <2>3. Seen(k, call'[c], server') = Seen(k, call[c], server)
    BY <2>2 DEF Seen
  <2> QED BY <1>b, <2>2, <2>3 DEF Allowed
<1>8. CASE Release(c) \/ ReleaseError(c)
  <2>1. /\ Others(c) /\ server' = server /\ call[c].pc = "held" /\ call'[c].pc = "idle"
    BY <1>0, <1>8, CallAfter DEF Release, ReleaseError, At
  <2>2. Seen(k, call[c], server) \in {"in", "out"} /\ Seen(k, call'[c], server') = "out"
    BY <2>1 DEF Seen
  <2>3. CASE Seen(k, call[c], server) = "in"
    <3>1. Contract(k)!Release(c)
      BY <1>b, <2>1, <2>2, <2>3 DEF Contract!Release
    <3> QED BY <3>1 DEF Contract!Next, Allowed
  <2> QED BY <1>b, <2>1, <2>2, <2>3 DEF Allowed
<1> QED BY <1>2, <1>3, <1>4, <1>5, <1>6, <1>7, <1>8 DEF Run

(* A session that ends takes its user out of the slot, and nobody else. *)
LEMMA EndAllowed ==
  ASSUME ContractInv, NEW k \in Slots, NEW s \in Sessions, End(s)
  PROVE  Allowed(k)
<1>0. WireInv /\ server' = server \ {s} /\ call' = call
  BY DEF End, ContractInv, CleanInv
<1>1. ASSUME NEW d \in Callers, Conn(d) # s
      PROVE  Seen(k, call'[d], server') = Seen(k, call[d], server)
  BY <1>0, <1>1 DEF Seen, Conn
<1>2. CASE \A d \in Callers : Conn(d) # s
  <2>1. ASSUME NEW d \in Callers
        PROVE  contractState(k)'[d] = contractState(k)[d]
    BY <1>0, <1>2 DEF contractState, Live, Active, Key, Conn
  <2>2. UNCHANGED contractState(k)
    BY <2>1 DEF contractState
  <2> QED BY <2>2 DEF Allowed
<1>3. ASSUME NEW c \in Callers, Conn(c) = s PROVE Allowed(k)
  <2>1. \A d \in Callers \ {c} : Seen(k, call'[d], server') = Seen(k, call[d], server)
    BY <1>0, <1>1, <1>3, PgAssumption DEF WireInv, OneUser
  <2>2. \/ Seen(k, call'[c], server') = Seen(k, call[c], server)
        \/ Seen(k, call[c], server) = "in" /\ Seen(k, call'[c], server') = "out"
    BY <1>0, <1>3 DEF Seen, Conn
  <2>3. CASE Seen(k, call[c], server) = "in" /\ Seen(k, call'[c], server') = "out"
    <3>1. Contract(k)!Release(c)
      BY <2>1, <2>3, ContractUpdate DEF Contract!Release
    <3> QED BY <3>1 DEF Contract!Next, Allowed
  <2> QED BY <2>1, <2>2, <2>3, ContractUpdate DEF Allowed
<1> QED BY <1>2, <1>3

(* Every step is one that the contract of each slot allows. *)
LEMMA ContractStep ==
  ASSUME ContractInv, [Next]_vars, NEW k \in Slots
  PROVE  Allowed(k)
<1>1. ASSUME NEW s \in Sessions, Retire(s) PROVE Allowed(k)
  BY <1>1 DEF Retire, contractState, Live, Active, Key, Conn, Allowed
<1>2. ASSUME NEW p \in Pools, Crash(p) PROVE Allowed(k)
  <2>1. ASSUME NEW c \in Callers
        PROVE  contractState(k)'[c] \in {contractState(k)[c], "out"}
    <3>1. call'[c] \in {call[c], Idle} /\ server' = server
      BY <1>2 DEF Crash
    <3> QED BY <3>1, IdleType DEF contractState, Live, Active, Key, Conn
  <2> QED BY <1>2, <2>1 DEF Dies, Allowed
<1>3. CASE UNCHANGED vars
  BY <1>3 DEF vars, contractState, Live, Active, Key, Conn, Allowed
<1> QED BY <1>1, <1>2, <1>3, CallerAllowed, EndAllowed DEF Next, Disconnected, Drop

(* Every slot of a semaphore, or the lock itself, is a lock with one place:   *)
(* pg_try_advisory_lock grants it only when no caller with a session is       *)
(* inside, and refuses it only while one is, or while the session of a        *)
(* connection that was closed is still there.  Releases whose context has     *)
(* ended would leave the lock with a connection of the pool, and ErrLocked    *)
(* would then have no owner.                                                  *)
THEOREM SlotIsALock == "cancelRelease" \notin Faults => (Spec => ImplementsContract)
<1> SUFFICES ASSUME "cancelRelease" \notin Faults
             PROVE  Spec => ImplementsContract
  OBVIOUS
<1>1. Init => \A k \in Slots : Contract(k)!Init
  BY DEF Init, Idle, Contract!Init, contractState, Live, Active, Key
<1>2. ContractInv /\ [Next]_vars => ContractInv'
  BY FenceStep, CleanStep DEF ContractInv
<1>3. ContractInv /\ [Next]_vars =>
        [\A k \in Slots :
            \/ Contract(k)!Next
            \/ UNCHANGED contractState(k)
            \/ \E c \in Callers :
                /\ PoolError(c) \/ TryError(c) \/ Refused(c)
                /\ Refused(c) => Unnoticed(k)
                /\ Contract(k)!Abandon(c)
            \/ Dies(k)]_vars
  BY ContractStep DEF Allowed, Abandoned
<1>4. Init => ContractInv
  BY FenceInit, CleanInit DEF ContractInv
<1> QED BY <1>1, <1>2, <1>3, <1>4, PTL DEF Spec, ImplementsContract
===============================================================================
