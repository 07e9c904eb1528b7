---------------------------- MODULE EtcdLockProofs ----------------------------
(* Theorems about EtcdLock for every number of callers, leases and slots:    *)
(* whatever keys losers, late puts and crashes leave under a prefix,         *)
(* one living Holder has a slot, its token is the largest, and it keeps the  *)
(* slot as long as the context that it gave to Acquire.                      *)
EXTENDS EtcdLock, TLAPS

(* The record of a caller without a call is a Call. *)
LEMMA IdleType == Idle \in Call /\ Idle.lease = None /\ Idle.pc = "idle"
  BY EtcdAssumption DEF Idle, Call, Slots

(* Callers with a session know its lease. *)
HasLease == \A c \in Callers :
              call[c].pc \in {"txn", "delete", "refused", "held", "close"} => Lease(c) \in Leases

(* What put, delete and the end of a lease leave is well-typed. *)
LEMMA ClusterType ==
  ASSUME TypeOK, NEW s \in Slots, NEW l \in Leases,
         put(s, l) \/ delete(s, l) \/ endLease(l) \/ UNCHANGED <<create, rev>>
  PROVE  create' \in [Slots -> [Leases -> Nat]] /\ rev' \in Nat
<1>1. CASE put(s, l)
  BY <1>1 DEF put, TypeOK
<1>2. CASE delete(s, l)
  BY <1>2 DEF delete, TypeOK
<1>3. CASE endLease(l)
  BY <1>3 DEF endLease, TypeOK
<1> QED BY <1>1, <1>2, <1>3 DEF TypeOK

(* Close ends a call, or starts the next slot without a lease. *)
LEMMA NextSlotStep ==
  ASSUME TypeOK, NEW c \in Callers, NextSlot(c)
  PROVE  /\ call' \in [Callers -> Call]
         /\ call'[c].lease = None /\ call'[c].pc \in {"idle", "grant"}
         /\ \A d \in Callers \ {c} : call'[d] = call[d]
<1> DEFINE r == IF At(c, "refused") /\ SlotOf(c) + 1 \in Slots
                THEN [Idle EXCEPT !.pc = "grant", !.slot = SlotOf(c) + 1, !.ended = call[c].ended]
                ELSE Idle
<1>1. r \in Call /\ r.lease = None /\ r.pc \in {"idle", "grant"}
  <2>1. call[c].ended \in BOOLEAN
    BY DEF TypeOK, Call
  <2>2. CASE At(c, "refused") /\ SlotOf(c) + 1 \in Slots
    <3>1. r = [pc |-> "grant", slot |-> SlotOf(c) + 1, lease |-> None, token |-> 0,
               ended |-> call[c].ended]
      BY <2>2 DEF Idle
    <3> HIDE DEF r
    <3>2. 0 \in Nat
      OBVIOUS
    <3> QED BY <2>1, <2>2, <3>1, <3>2 DEF Call
  <2> QED BY <2>2, IdleType
<1>2. call' = [call EXCEPT ![c] = r]
  BY DEF NextSlot
<1> HIDE DEF r
<1> QED BY <1>1, <1>2 DEF TypeOK

(* A step that gives one caller a new record leaves the others alone. *)
LEMMA CallUpdate ==
  ASSUME TypeOK, NEW c \in Callers, NEW r \in Call, call' = [call EXCEPT ![c] = r]
  PROVE  /\ call' \in [Callers -> Call] /\ call'[c] = r
         /\ \A d \in Callers \ {c} : call'[d] = call[d]
  BY DEF TypeOK

(* The records that the steps write are Calls. *)
LEMMA CallRecords ==
  ASSUME NEW r \in Call
  PROVE  /\ \A w \in {"delete", "refused", "close"} :
               [r EXCEPT !.pc = w] \in Call /\ [r EXCEPT !.pc = w].lease = r.lease
         /\ \A l \in Leases : /\ [r EXCEPT !.pc = "txn", !.lease = l] \in Call
                              /\ [r EXCEPT !.pc = "txn", !.lease = l].lease = l
         /\ \A n \in Nat : /\ [r EXCEPT !.pc = "held", !.token = n] \in Call
                           /\ [r EXCEPT !.pc = "held", !.token = n].lease = r.lease
         /\ /\ [r EXCEPT !.ended = TRUE] \in Call
            /\ [r EXCEPT !.ended = TRUE].lease = r.lease /\ [r EXCEPT !.ended = TRUE].pc = r.pc
<1>1. \A w \in {"delete", "refused", "close"} :
         [r EXCEPT !.pc = w] \in Call /\ [r EXCEPT !.pc = w].lease = r.lease
  BY DEF Call
<1>2. \A l \in Leases : /\ [r EXCEPT !.pc = "txn", !.lease = l] \in Call
                       /\ [r EXCEPT !.pc = "txn", !.lease = l].lease = l
  BY DEF Call
<1>3. \A n \in Nat : /\ [r EXCEPT !.pc = "held", !.token = n] \in Call
                    /\ [r EXCEPT !.pc = "held", !.token = n].lease = r.lease
  BY DEF Call
<1>4. /\ [r EXCEPT !.ended = TRUE] \in Call
      /\ [r EXCEPT !.ended = TRUE].lease = r.lease /\ [r EXCEPT !.ended = TRUE].pc = r.pc
  BY DEF Call
<1> QED BY <1>1, <1>2, <1>3, <1>4

(* Every step keeps the leases, the keys and the calls well-typed. *)
LEMMA TypeStep ==
  ASSUME TypeOK, HasLease, [Next]_vars
  PROVE  TypeOK' /\ HasLease'
<1> USE EtcdAssumption
<1>z. \A c \in Callers : call[c] \in Call
  BY DEF TypeOK
<1>0. ASSUME NEW c \in Callers, call' = [call EXCEPT ![c] = Idle]
      PROVE  call' \in [Callers -> Call] /\ HasLease'
  BY <1>0, IdleType DEF TypeOK, HasLease, Lease
<1>1. ASSUME NEW c \in Callers, NewSession(c) PROVE TypeOK' /\ HasLease'
  <2>1. PICK l \in Leases : /\ leases' = leases \cup {l}
                            /\ call' = [call EXCEPT ![c].pc = "txn", ![c].lease = l]
    BY <1>1 DEF NewSession, Unknown
  <2>2. call' \in [Callers -> Call] /\ call'[c].lease = l /\ \A d \in Callers \ {c} : call'[d] = call[d]
    <3> DEFINE r == [call[c] EXCEPT !.pc = "txn", !.lease = l]
    <3>1. r \in Call /\ r.lease = l
      BY <1>z, CallRecords
    <3>2. call' = [call EXCEPT ![c] = r]
      BY <2>1
    <3> HIDE DEF r
    <3> QED BY <3>1, <3>2, CallUpdate
  <2> QED BY <1>1, <2>1, <2>2 DEF NewSession, TypeOK, HasLease, Lease
<1>2. ASSUME NEW c \in Callers, NewSessionError(c) PROVE TypeOK' /\ HasLease'
  <2>1. leases' \subseteq Leases
    BY <1>2 DEF NewSessionError, Unknown, TypeOK
  <2> QED BY <1>0, <1>2, <2>1 DEF NewSessionError, TypeOK
<1>3. ASSUME NEW c \in Callers, At(c, "txn") \/ At(c, "delete") \/ At(c, "held")
      PROVE  Lease(c) \in Leases /\ SlotOf(c) \in Slots
  BY <1>3 DEF HasLease, At, Lease, SlotOf, TypeOK, Call
<1>4. ASSUME NEW c \in Callers, TryLock(c) PROVE TypeOK' /\ HasLease'
  <2>1. create' \in [Slots -> [Leases -> Nat]] /\ rev' \in Nat
    BY <1>3, <1>4, ClusterType DEF TryLock
  <2>2. rev + 1 \in Nat
    BY DEF TypeOK
  <2>3. /\ call' \in [Callers -> Call] /\ \A d \in Callers : call'[d].lease = call[d].lease
        /\ \A d \in Callers \ {c} : call'[d] = call[d]
    <3> DEFINE r == IF FirstCreate(c) THEN [call[c] EXCEPT !.pc = "held", !.token = rev + 1]
                                      ELSE [call[c] EXCEPT !.pc = "delete"]
    <3>1. r \in Call /\ r.lease = call[c].lease
      BY <1>z, <2>2, CallRecords
    <3>2. call' = [call EXCEPT ![c] = r]
      BY <1>4 DEF TryLock
    <3> HIDE DEF r
    <3> QED BY <3>1, <3>2, CallUpdate
  <2> QED BY <1>3, <1>4, <2>1, <2>3 DEF TryLock, TypeOK, HasLease, Lease
<1>5. ASSUME NEW c \in Callers, NEW w \in {"refused", "close"}, Lease(c) \in Leases,
             call' = [call EXCEPT ![c].pc = w]
      PROVE  call' \in [Callers -> Call] /\ HasLease'
  <2> DEFINE r == [call[c] EXCEPT !.pc = w]
  <2>0. r \in Call /\ r.lease = call[c].lease /\ call' = [call EXCEPT ![c] = r]
    BY <1>z, <1>5, CallRecords
  <2> HIDE DEF r
  <2>1. call' \in [Callers -> Call] /\ \A d \in Callers : call'[d].lease = call[d].lease
    BY <2>0, CallUpdate
  <2>2. \A d \in Callers \ {c} : call'[d] = call[d]
    BY <2>0, CallUpdate
  <2> QED BY <1>5, <2>1, <2>2 DEF HasLease, Lease
<1>6. ASSUME NEW c \in Callers, TryLockError(c) PROVE TypeOK' /\ HasLease'
  <2>1. [slot |-> SlotOf(c), lease |-> Lease(c)] \in Put
    BY <1>3, <1>6 DEF TryLockError, Put
  <2>2. late' \subseteq Put
    BY <1>6, <2>1 DEF TryLockError, PutMayBeLate, TypeOK
  <2> QED BY <1>3, <1>5, <1>6, <2>2 DEF TryLockError, TypeOK
<1>7. ASSUME NEW c \in Callers, DeleteKey(c) \/ DeleteKeyError(c) \/ Unlock(c) \/ UnlockError(c)
      PROVE  TypeOK' /\ HasLease'
  <2>1. Lease(c) \in Leases /\ SlotOf(c) \in Slots
    BY <1>3, <1>7 DEF DeleteKey, DeleteKeyError, Unlock, UnlockError
  <2>2. create' \in [Slots -> [Leases -> Nat]] /\ rev' \in Nat /\ leases' = leases
    BY <1>7, <2>1, ClusterType DEF DeleteKey, DeleteKeyError, Unlock, UnlockError
  <2>4. [slot |-> SlotOf(c), lease |-> Lease(c)] \in Put
    BY <2>1 DEF Put
  <2>5. late' \subseteq Put
    BY <1>7, <2>4 DEF DeleteKey, DeleteKeyError, Unlock, UnlockError, TraceMayBeLate,
                      PutMayBeLate, TypeOK
  <2>3. \E w \in {"refused", "close"} : call' = [call EXCEPT ![c].pc = w]
    BY <1>7 DEF DeleteKey, DeleteKeyError, Unlock, UnlockError
  <2> QED BY <1>5, <2>1, <2>2, <2>3, <2>5 DEF TypeOK
<1>8. ASSUME NEW c \in Callers, Close(c) \/ CloseError(c) PROVE TypeOK' /\ HasLease'
  <2>1. Lease(c) \in Leases /\ NextSlot(c) /\ late' \subseteq Put
    BY <1>8 DEF Close, CloseError, endLease, HasLease, TypeOK
  <2>2. SlotOf(c) \in Slots
    BY DEF SlotOf, TypeOK, Call
  <2>3. create' \in [Slots -> [Leases -> Nat]] /\ rev' \in Nat /\ leases' \subseteq Leases
    BY <1>8, <2>1, <2>2, ClusterType DEF Close, CloseError, endLease, TypeOK
  <2>4. call' \in [Callers -> Call] /\ HasLease'
    BY <2>1, NextSlotStep DEF HasLease, Lease
  <2> QED BY <2>1, <2>3, <2>4 DEF TypeOK
<1>9. ASSUME NEW c \in Callers, EndContext(c) PROVE TypeOK' /\ HasLease'
  <2>1. call' \in [Callers -> Call]
        /\ \A d \in Callers : call'[d].lease = call[d].lease /\ call'[d].pc = call[d].pc
    <3> DEFINE r == [call[c] EXCEPT !.ended = TRUE]
    <3>1. r \in Call /\ r.lease = call[c].lease /\ r.pc = call[c].pc
      BY <1>z, CallRecords
    <3>2. call' = [call EXCEPT ![c] = r]
      BY <1>9 DEF EndContext
    <3> HIDE DEF r
    <3> QED BY <3>1, <3>2, CallUpdate
  <2> QED BY <1>9, <2>1 DEF EndContext, TypeOK, HasLease, Lease
<1>10. ASSUME NEW c \in Callers, Crash(c) PROVE TypeOK' /\ HasLease'
  BY <1>0, <1>10 DEF Crash, TypeOK
<1>11. ASSUME NEW t \in late, Deliver(t) \/ Drop(t) PROVE TypeOK' /\ HasLease'
  <2>1. t.slot \in Slots /\ t.lease \in Leases
    BY DEF TypeOK, Put
  <2>2. create' \in [Slots -> [Leases -> Nat]] /\ rev' \in Nat
    BY <1>11, <2>1, ClusterType DEF Deliver, Drop
  <2> QED BY <1>11, <2>2 DEF Deliver, Drop, TypeOK, HasLease, Lease
<1>12. ASSUME NEW l \in Leases, Expire(l) PROVE TypeOK' /\ HasLease'
  <2>1. 0 \in Slots
    BY DEF Slots
  <2>2. create' \in [Slots -> [Leases -> Nat]] /\ rev' \in Nat
    BY <1>12, <2>1, ClusterType DEF Expire
  <2> QED BY <1>12, <2>2 DEF Expire, endLease, TypeOK, HasLease, Lease
<1>13. CASE UNCHANGED vars
  BY <1>13 DEF vars, TypeOK, HasLease, Lease
<1> QED BY <1>1, <1>2, <1>4, <1>6, <1>7, <1>8, <1>9, <1>10, <1>11, <1>12, <1>13 DEF Next

(* The empty cluster is well-typed. *)
LEMMA TypeInit == Init => TypeOK /\ HasLease
  BY IdleType DEF Init, TypeOK, HasLease, Idle

(* Leases, keys, late puts and calls are always well-typed; the slot loop     *)
(* stays inside the slots.                                                    *)
THEOREM TypeCorrect == Spec => []TypeOK
  BY TypeInit, TypeStep, PTL DEF Spec

-----------------------------------------------------------------------------
(* A lease is the session of one caller, and a put that is still on its way   *)
(* and may change a key belongs to a session that is being closed, or was.    *)
OneUser == \A c, d \in Callers : Lease(c) = Lease(d) /\ Lease(c) # None => c = d
LateClosed == \A t \in late : \A c \in Callers : Lease(c) = t.lease => At(c, "close")

(* c goes on as it was; its context may have ended. *)
Same(c) == /\ call'[c].pc = call[c].pc /\ call'[c].lease = call[c].lease
           /\ call'[c].slot = call[c].slot /\ call'[c].token = call[c].token
           /\ call[c].ended => call'[c].ended

(* What a step does to one caller. *)
LEMMA CallerStep ==
  ASSUME TypeOK, [Next]_vars, NEW c \in Callers
  PROVE  \/ NewSession(c) \/ TryLock(c) \/ Same(c)
         \/ call'[c].lease = None /\ ~Active(c)'
         \/ call'[c].lease = call[c].lease /\ ~Active(c)' /\ ~At(c, "close")
<1> DEFINE Fate == \/ NewSession(c) \/ TryLock(c) \/ Same(c)
                   \/ call'[c].lease = None /\ ~Active(c)'
                   \/ call'[c].lease = call[c].lease /\ ~Active(c)' /\ ~At(c, "close")
<1> SUFFICES Fate
  OBVIOUS
<1>0. ASSUME call'[c] = call[c] PROVE Fate
  BY <1>0 DEF Same
<1>1. ASSUME NEW d \in Callers, NewSession(d) PROVE Fate
  <2>1. PICK l : call' = [call EXCEPT ![d].pc = "txn", ![d].lease = l]
    BY <1>1 DEF NewSession
  <2>2. d # c => call'[c] = call[c]
    BY <2>1 DEF TypeOK
  <2> QED BY <1>0, <1>1, <2>2
<1>2. ASSUME NEW d \in Callers, call' = [call EXCEPT ![d] = Idle] PROVE Fate
  <2>1. d # c => call'[c] = call[c]
    BY <1>2 DEF TypeOK
  <2>2. d = c => call'[c] = Idle
    BY <1>2 DEF TypeOK
  <2> QED BY <1>0, <2>1, <2>2, IdleType DEF Active, At
<1>3. ASSUME NEW d \in Callers, TryLock(d) PROVE Fate
  <2>1. d # c => call'[c] = call[c]
    BY <1>3 DEF TryLock, TypeOK
  <2> QED BY <1>0, <1>3, <2>1
<1>4. ASSUME NEW d \in Callers, NEW w \in {"refused", "close"}, ~At(d, "close"),
             call' = [call EXCEPT ![d].pc = w]
      PROVE  Fate
  <2>1. d # c => call'[c] = call[c]
    BY <1>4 DEF TypeOK
  <2>2. d = c => call'[c].lease = call[c].lease /\ call'[c].pc = w
    BY <1>4 DEF TypeOK, Call
  <2> QED BY <1>0, <1>4, <2>1, <2>2 DEF Active, At
<1>5. ASSUME NEW d \in Callers,
             TryLockError(d) \/ DeleteKey(d) \/ DeleteKeyError(d) \/ Unlock(d) \/ UnlockError(d)
      PROVE  Fate
  <2>1. ~At(d, "close") /\ \E w \in {"refused", "close"} : call' = [call EXCEPT ![d].pc = w]
    BY <1>5 DEF TryLockError, DeleteKey, DeleteKeyError, Unlock, UnlockError, At
  <2> QED BY <1>4, <2>1
<1>6. ASSUME NEW d \in Callers, Close(d) \/ CloseError(d) PROVE Fate
  <2>1. NextSlot(d)
    BY <1>6 DEF Close, CloseError
  <2>2. d # c => call'[c] = call[c]
    BY <2>1, NextSlotStep
  <2>3. call'[d].lease = None /\ call'[d].pc \in {"idle", "grant"}
    BY <2>1, NextSlotStep
  <2> QED BY <1>0, <2>2, <2>3 DEF Active, At
<1>7. ASSUME NEW d \in Callers, EndContext(d) PROVE Fate
  BY <1>7 DEF EndContext, Same, TypeOK, Call
<1>8. ASSUME NEW d \in Callers, NewSessionError(d) \/ Crash(d) PROVE Fate
  BY <1>2, <1>8 DEF NewSessionError, Crash
<1>9. ASSUME NEW t \in late, Deliver(t) \/ Drop(t) PROVE Fate
  BY <1>0, <1>9 DEF Deliver, Drop
<1>10. ASSUME NEW l \in Leases, Expire(l) PROVE Fate
  BY <1>0, <1>10 DEF Expire
<1>11. CASE UNCHANGED vars
  BY <1>0, <1>11 DEF vars
<1> HIDE DEF Fate
<1> QED BY <1>1, <1>3, <1>5, <1>6, <1>7, <1>8, <1>9, <1>10, <1>11 DEF Next

(* A caller that opens a session gets a lease that nobody knows. *)
LEMMA SessionIsNew ==
  ASSUME TypeOK, NEW c \in Callers, NewSession(c)
  PROVE  /\ \A d \in Callers \ {c} : call'[d] = call[d] /\ Lease(d) # Lease(c)'
         /\ late' = late /\ \A t \in late : t.lease # Lease(c)'
         /\ At(c, "txn")'
<1>1. PICK l \in Unknown : call' = [call EXCEPT ![c].pc = "txn", ![c].lease = l]
  BY DEF NewSession
<1>2. call'[c].pc = "txn" /\ call'[c].lease = l /\ \A d \in Callers \ {c} : call'[d] = call[d]
  BY <1>1 DEF TypeOK, Call
<1>3. (\A d \in Callers : Lease(d) # l) /\ \A t \in late : t.lease # l
  BY DEF Unknown
<1> QED BY <1>2, <1>3 DEF NewSession, Lease, At

SessionInv == TypeOK /\ HasLease /\ OneUser /\ LateClosed

(* The steps after which a put of the caller's key may be late. *)
GivesUp(c) == TryLockError(c) \/ Unlock(c) \/ UnlockError(c)

(* Sessions stay apart. *)
LEMMA SessionStep ==
  ASSUME SessionInv, [Next]_vars
  PROVE  SessionInv'
<1>0. TypeOK /\ HasLease /\ TypeOK' /\ HasLease' /\ OneUser /\ LateClosed
  BY TypeStep DEF SessionInv
<1> USE <1>0
<1>1. CASE \E c \in Callers : NewSession(c)
  <2>1. PICK c \in Callers : NewSession(c)
    BY <1>1
  <2>2. OneUser'
    BY <2>1, SessionIsNew DEF OneUser, Lease
  <2>3. LateClosed'
    BY <2>1, SessionIsNew DEF LateClosed, Lease, At
  <2> QED BY <2>2, <2>3 DEF SessionInv
<1>2. CASE ~\E c \in Callers : NewSession(c)
  <2>1. \A c \in Callers : \/ call'[c].lease = None
                            \/ /\ call'[c].lease = call[c].lease
                               /\ call[c].pc = "close" => call'[c].pc = "close"
    <3> SUFFICES ASSUME NEW c \in Callers
                 PROVE  \/ call'[c].lease = None
                        \/ /\ call'[c].lease = call[c].lease
                           /\ call[c].pc = "close" => call'[c].pc = "close"
      OBVIOUS
    <3>1. CASE TryLock(c)
      <4>1. call'[c].lease = call[c].lease
        <5>1. CASE FirstCreate(c)
          BY <3>1, <5>1 DEF TryLock, TypeOK, Call
        <5>2. CASE ~FirstCreate(c)
          BY <3>1, <5>2 DEF TryLock, TypeOK, Call
        <5> QED BY <5>1, <5>2
      <4> QED BY <3>1, <4>1 DEF TryLock, At
    <3> QED BY <1>2, <3>1, CallerStep DEF Same, At
  <2>2. OneUser'
    BY <2>1 DEF OneUser, Lease, At
  <2>3. late' \subseteq late \/ \E c \in Callers : GivesUp(c)
    BY DEF Next, NewSession, NewSessionError, TryLock, DeleteKey, DeleteKeyError,
           Close, CloseError, EndContext, Crash, Deliver, Drop, Expire, endLease, vars, GivesUp
  <2>4. CASE late' \subseteq late
    <3>1. ASSUME NEW t \in late', NEW c \in Callers, Lease(c)' = t.lease PROVE At(c, "close")'
      <4>1. t \in late /\ t.lease \in Leases
        BY <2>4, <3>1 DEF TypeOK, Put
      <4>2. call'[c].lease # None /\ Lease(c) = t.lease
        BY <2>1, <3>1, <4>1, EtcdAssumption DEF Lease, At
      <4> QED BY <2>1, <4>1, <4>2 DEF LateClosed, Lease, At
    <3> QED BY <2>2, <3>1 DEF LateClosed, SessionInv
  <2>5. CASE \E c \in Callers : GivesUp(c)
    <3>1. PICK c \in Callers : GivesUp(c)
      BY <2>5
    <3>2. /\ At(c, "close")' /\ Lease(c) \in Leases
          /\ late' \subseteq late \cup {[slot |-> SlotOf(c), lease |-> Lease(c)]}
      BY <3>1 DEF GivesUp, TryLockError, Unlock, UnlockError, TraceMayBeLate, PutMayBeLate,
                  HasLease, At, TypeOK, Call
    <3>3. ASSUME NEW t \in late', NEW d \in Callers, Lease(d)' = t.lease PROVE At(d, "close")'
      <4>1. t.lease \in Leases /\ (t \in late \/ t.lease = Lease(c))
        BY <3>2, <3>3 DEF TypeOK, Put
      <4>2. call'[d].lease # None /\ Lease(d) = t.lease
        BY <2>1, <3>3, <4>1, EtcdAssumption DEF Lease, At
      <4>3. CASE t \in late
        BY <2>1, <4>2, <4>3 DEF LateClosed, Lease, At
      <4>4. CASE t.lease = Lease(c)
        BY <3>2, <4>1, <4>2, <4>4, EtcdAssumption DEF OneUser
      <4> QED BY <4>1, <4>3, <4>4
    <3> QED BY <2>2, <3>3 DEF LateClosed, SessionInv
  <2> QED BY <2>3, <2>4, <2>5
<1> QED BY <1>1, <1>2

(* The empty cluster has no sessions. *)
LEMMA SessionInit == Init => SessionInv
  BY TypeInit, IdleType DEF Init, SessionInv, OneUser, LateClosed, Lease

-----------------------------------------------------------------------------
(* What a step does to the leases: a granted one is nobody's, and one that    *)
(* ends was closed, or expired.                                               *)
LEMMA LeaseStep ==
  ASSUME SessionInv, [Next]_vars
  PROVE  /\ \A l \in leases' \ leases : l \in Unknown
         /\ \A l \in leases \ leases' :
               Expire(l) \/ \E c \in Callers : Lease(c) = l /\ Close(c)
<1> DEFINE Goal == /\ \A l \in leases' \ leases : l \in Unknown
                   /\ \A l \in leases \ leases' :
                         Expire(l) \/ \E c \in Callers : Lease(c) = l /\ Close(c)
<1> SUFFICES Goal
  OBVIOUS
<1>0. ASSUME leases' = leases PROVE Goal
  BY <1>0
<1>1. ASSUME NEW c \in Callers, NewSession(c) \/ NewSessionError(c) PROVE Goal
  BY <1>1 DEF NewSession, NewSessionError
<1>2. ASSUME NEW c \in Callers, Close(c) PROVE Goal
  <2>1. leases' = leases \ {Lease(c)}
    BY <1>2 DEF Close, endLease
  <2> QED BY <1>2, <2>1
<1>3. ASSUME NEW l \in Leases, Expire(l) PROVE Goal
  <2>1. leases' = leases \ {l}
    BY <1>3 DEF Expire, endLease
  <2> QED BY <1>3, <2>1
<1>4. ASSUME NEW c \in Callers,
             \/ TryLock(c) \/ TryLockError(c) \/ DeleteKey(c) \/ DeleteKeyError(c) \/ Unlock(c)
             \/ UnlockError(c) \/ CloseError(c) \/ EndContext(c) \/ Crash(c)
      PROVE  Goal
  <2>1. leases' = leases
    BY <1>4 DEF TryLock, TryLockError, DeleteKey, DeleteKeyError, Unlock, UnlockError,
                CloseError, EndContext, Crash
  <2> QED BY <1>0, <2>1
<1>5. ASSUME NEW t \in late, Deliver(t) \/ Drop(t) PROVE Goal
  BY <1>0, <1>5 DEF Deliver, Drop
<1>6. CASE UNCHANGED vars
  BY <1>0, <1>6 DEF vars
<1> HIDE DEF Goal
<1> QED BY <1>1, <1>2, <1>3, <1>4, <1>5, <1>6 DEF Next

(* What a step does to the key of a lease: a new key is the youngest and not  *)
(* a Holder's, and a key goes when its lease ends or its caller gives it up.  *)
LEMMA KeyStep ==
  ASSUME SessionInv, [Next]_vars, NEW s \in Slots, NEW l \in Leases
  PROVE  /\ rev' \in {rev, rev + 1}
         /\ \/ create'[s][l] = create[s][l]
            \/ /\ create'[s][l] = rev + 1 /\ rev' = rev + 1
               /\ \A c \in Callers : Lease(c) = l => ~Active(c)
            \/ /\ create'[s][l] = 0
               /\ l \notin leases' \/ \A c \in Callers : Lease(c) = l => ~Active(c)'
<1> DEFINE Goal == /\ rev' \in {rev, rev + 1}
                   /\ \/ create'[s][l] = create[s][l]
                      \/ /\ create'[s][l] = rev + 1 /\ rev' = rev + 1
                         /\ \A c \in Callers : Lease(c) = l => ~Active(c)
                      \/ /\ create'[s][l] = 0
                         /\ l \notin leases' \/ \A c \in Callers : Lease(c) = l => ~Active(c)'
<1> SUFFICES Goal
  OBVIOUS
<1> USE DEF SessionInv
<1>0. ASSUME UNCHANGED <<create, rev>> PROVE Goal
  BY <1>0
<1>1. ASSUME NEW z \in Slots, NEW k \in Leases, put(z, k),
             \A c \in Callers : Lease(c) = k => ~Active(c)
      PROVE  Goal
  <2>1. CASE k \in leases
    <3>1. create' = [create EXCEPT ![z][k] = rev + 1] /\ rev' = rev + 1
      BY <1>1, <2>1 DEF put
    <3>2. CASE z = s /\ k = l
      BY <1>1, <3>1, <3>2 DEF TypeOK
    <3>3. CASE ~(z = s /\ k = l)
      BY <3>1, <3>3 DEF TypeOK
    <3> QED BY <3>2, <3>3
  <2> QED BY <1>0, <1>1, <2>1 DEF put
<1>2. ASSUME NEW z \in Slots, NEW k \in Leases, delete(z, k),
             \A c \in Callers : Lease(c) = k => ~Active(c)'
      PROVE  Goal
  <2>1. CASE z = s /\ k = l
    BY <1>2, <2>1 DEF delete, TypeOK
  <2>2. CASE ~(z = s /\ k = l)
    BY <1>2, <2>2 DEF delete, TypeOK
  <2> QED BY <2>1, <2>2
<1>3. ASSUME NEW k \in Leases, endLease(k) PROVE Goal
  BY <1>3 DEF endLease, TypeOK
<1>4. ASSUME NEW c \in Callers, TryLock(c) PROVE Goal
  <2>1. SlotOf(c) \in Slots /\ Lease(c) \in Leases
    BY <1>4 DEF TryLock, At, TypeOK, Call, HasLease, SlotOf
  <2>2. \A d \in Callers : Lease(d) = Lease(c) => ~Active(d)
    BY <1>4, <2>1, EtcdAssumption DEF TryLock, OneUser, Active, At
  <2> QED BY <1>1, <1>4, <2>1, <2>2 DEF TryLock
<1>5. ASSUME NEW c \in Callers, DeleteKey(c) \/ DeleteKeyError(c) \/ Unlock(c) \/ UnlockError(c)
      PROVE  Goal
  <2>1. SlotOf(c) \in Slots /\ Lease(c) \in Leases
    BY <1>5 DEF DeleteKey, DeleteKeyError, Unlock, UnlockError, At, TypeOK, Call, HasLease, SlotOf
  <2>2. \E w \in {"refused", "close"} : call' = [call EXCEPT ![c].pc = w]
    BY <1>5 DEF DeleteKey, DeleteKeyError, Unlock, UnlockError
  <2>3. call'[c].pc # "held"
    BY <2>2 DEF TypeOK, Call
  <2>4. \A d \in Callers : Lease(d) = Lease(c) => ~Active(d)'
    BY <2>1, <2>3, EtcdAssumption DEF OneUser, Active, At
  <2>5. delete(SlotOf(c), Lease(c)) \/ UNCHANGED <<create, rev>>
    BY <1>5 DEF DeleteKey, DeleteKeyError, Unlock, UnlockError
  <2> QED BY <1>0, <1>2, <2>1, <2>4, <2>5
<1>6. ASSUME NEW c \in Callers, Close(c) PROVE Goal
  BY <1>3, <1>6 DEF Close, HasLease
<1>7. ASSUME NEW t \in late, Deliver(t) PROVE Goal
  <2>1. t.slot \in Slots /\ t.lease \in Leases
    BY DEF TypeOK, Put
  <2>2. \A d \in Callers : Lease(d) = t.lease => ~Active(d)
    BY DEF LateClosed, Active, At
  <2> QED BY <1>0, <1>1, <1>7, <2>1, <2>2 DEF Deliver
<1>8. ASSUME NEW k \in Leases, Expire(k) PROVE Goal
  BY <1>3, <1>8 DEF Expire
<1>9. ASSUME NEW c \in Callers,
             \/ NewSession(c) \/ NewSessionError(c) \/ TryLockError(c) \/ CloseError(c)
             \/ EndContext(c) \/ Crash(c)
      PROVE  Goal
  BY <1>0, <1>9 DEF NewSession, NewSessionError, TryLockError, CloseError, EndContext, Crash
<1>10. ASSUME NEW t \in late, Drop(t) PROVE Goal
  BY <1>0, <1>10 DEF Drop
<1>11. CASE UNCHANGED vars
  BY <1>0, <1>11 DEF vars
<1> HIDE DEF Goal
<1> QED BY <1>4, <1>5, <1>6, <1>7, <1>8, <1>9, <1>10, <1>11 DEF Next

-----------------------------------------------------------------------------
(* No key is younger than the revision counter, and the key of a living       *)
(* Holder is older than every other key of its slot.                          *)
Bounded == \A s \in Slots, l \in Leases : create[s][l] =< rev

First(c) == /\ create[SlotOf(c)][Lease(c)] # 0
            /\ \A l \in Leases \ {Lease(c)} :
                  create[SlotOf(c)][l] # 0 => create[SlotOf(c)][Lease(c)] < create[SlotOf(c)][l]

HoldersFirst == \A c \in Callers : Live(c) => First(c)

KeyInv == SessionInv /\ Bounded /\ HoldersFirst

(* A caller that is a Holder after a step was one, or TryLock made it one. *)
LEMMA HolderStep ==
  ASSUME SessionInv, [Next]_vars, NEW c \in Callers, Active(c)'
  PROVE  TryLock(c) \/ (Active(c) /\ Same(c))
<1>1. ~NewSession(c)
  BY SessionIsNew DEF SessionInv, Active, At
<1>2. Same(c) => Active(c)
  BY DEF Same, Active, At
<1> QED BY <1>1, <1>2, CallerStep DEF SessionInv

(* A Holder that still has its lease after a step, and that TryLock did not   *)
(* make one, had it before.                                                   *)
LEMMA LiveStep ==
  ASSUME SessionInv, [Next]_vars, NEW c \in Callers, Live(c)', ~TryLock(c)
  PROVE  /\ Live(c) /\ Same(c)
         /\ Lease(c) \in Leases /\ SlotOf(c) \in Slots
         /\ Lease(c)' = Lease(c) /\ SlotOf(c)' = SlotOf(c)
<1>1. Active(c) /\ Same(c)
  BY HolderStep DEF Live
<1>2. Lease(c)' = Lease(c) /\ SlotOf(c)' = SlotOf(c)
  BY <1>1 DEF Same, Lease, SlotOf
<1>3. Lease(c) \in leases
  <2>1. Lease(c) \in leases'
    BY <1>2 DEF Live
  <2>2. Lease(c) \notin Unknown
    BY DEF Unknown
  <2> QED BY <2>1, <2>2, LeaseStep
<1>4. Lease(c) \in Leases /\ SlotOf(c) \in Slots
  BY <1>1 DEF SessionInv, HasLease, TypeOK, Call, Active, At, SlotOf
<1> QED BY <1>1, <1>2, <1>3, <1>4 DEF Live

(* What TryLock does when it makes its caller a Holder. *)
LEMMA Winner ==
  ASSUME SessionInv, NEW c \in Callers, TryLock(c), Active(c)'
  PROVE  /\ FirstCreate(c) /\ Lease(c) \in leases /\ leases' = leases
         /\ Lease(c) \in Leases /\ SlotOf(c) \in Slots
         /\ Lease(c)' = Lease(c) /\ SlotOf(c)' = SlotOf(c)
         /\ create' = [create EXCEPT ![SlotOf(c)][Lease(c)] = rev + 1] /\ rev' = rev + 1
         /\ call'[c].token = rev + 1
         /\ \A d \in Callers \ {c} : call'[d] = call[d]
<1>1. FirstCreate(c)
  <2> SUFFICES ASSUME ~FirstCreate(c) PROVE FALSE
    OBVIOUS
  <2> QED BY DEF TryLock, SessionInv, TypeOK, Call, Active, At
<1>2. /\ call'[c].lease = call[c].lease /\ call'[c].slot = call[c].slot /\ call'[c].token = rev + 1
      /\ \A d \in Callers \ {c} : call'[d] = call[d]
  BY <1>1 DEF TryLock, SessionInv, TypeOK, Call
<1>3. Lease(c) \in Leases /\ SlotOf(c) \in Slots
  BY DEF TryLock, SessionInv, HasLease, TypeOK, Call, At, SlotOf
<1> QED BY <1>1, <1>2, <1>3 DEF TryLock, put, Lease, SlotOf

(* A step keeps the key of every living Holder the oldest of its slot. *)
LEMMA KeyInvStep ==
  ASSUME KeyInv, [Next]_vars
  PROVE  KeyInv'
<1>0. SessionInv /\ Bounded /\ HoldersFirst /\ SessionInv' /\ TypeOK /\ TypeOK'
  BY SessionStep DEF KeyInv, SessionInv
<1> USE <1>0
<1>1. Bounded'
  <2> SUFFICES ASSUME NEW s \in Slots, NEW l \in Leases PROVE create'[s][l] =< rev'
    BY DEF Bounded
  <2>1. create[s][l] =< rev /\ create[s][l] \in Nat /\ rev \in Nat
    BY DEF Bounded, TypeOK
  <2>2. rev' \in {rev, rev + 1}
    BY KeyStep
  <2>3. create'[s][l] \in {create[s][l], 0} \/ (create'[s][l] = rev + 1 /\ rev' = rev + 1)
    BY KeyStep
  <2> QED BY <2>1, <2>2, <2>3
<1>2. HoldersFirst'
  <2> SUFFICES ASSUME NEW c \in Callers, Live(c)' PROVE First(c)'
    BY DEF HoldersFirst
  <2>1. CASE TryLock(c)
    <3>1. /\ FirstCreate(c) /\ Lease(c) \in Leases /\ SlotOf(c) \in Slots
          /\ Lease(c)' = Lease(c) /\ SlotOf(c)' = SlotOf(c)
          /\ create' = [create EXCEPT ![SlotOf(c)][Lease(c)] = rev + 1]
      BY <2>1, Winner DEF Live
    <3>2. create'[SlotOf(c)][Lease(c)] = rev + 1 /\ rev + 1 # 0
      BY <3>1 DEF TypeOK
    <3>3. \A l \in Leases \ {Lease(c)} : create'[SlotOf(c)][l] = 0
      BY <3>1 DEF TypeOK, FirstCreate, HasKey
    <3> QED BY <3>1, <3>2, <3>3 DEF First
  <2>2. CASE ~TryLock(c)
    <3>1. /\ Live(c) /\ Same(c) /\ Lease(c) \in Leases /\ SlotOf(c) \in Slots
          /\ Lease(c)' = Lease(c) /\ SlotOf(c)' = SlotOf(c)
      BY <2>2, LiveStep
    <3>2. First(c)
      BY <3>1 DEF HoldersFirst
    <3>3. create'[SlotOf(c)][Lease(c)] = create[SlotOf(c)][Lease(c)]
      <4>1. Active(c) /\ Active(c)' /\ Lease(c) \in leases'
        BY <3>1 DEF Live
      <4> QED BY <3>1, <4>1, KeyStep
    <3>4. ASSUME NEW l \in Leases \ {Lease(c)}, create'[SlotOf(c)][l] # 0
          PROVE  create[SlotOf(c)][Lease(c)] < create'[SlotOf(c)][l]
      <4>1. create'[SlotOf(c)][l] \in {create[SlotOf(c)][l], rev + 1}
        BY <3>1, <3>4, KeyStep
      <4>2. create[SlotOf(c)][Lease(c)] =< rev /\ create[SlotOf(c)][Lease(c)] \in Nat /\ rev \in Nat
        BY <3>1 DEF Bounded, TypeOK
      <4>3. CASE create'[SlotOf(c)][l] = create[SlotOf(c)][l]
        BY <3>2, <3>4, <4>3 DEF First
      <4>4. CASE create'[SlotOf(c)][l] = rev + 1
        BY <4>2, <4>4
      <4> QED BY <4>1, <4>3, <4>4
    <3> QED BY <3>1, <3>2, <3>3, <3>4 DEF First
  <2> QED BY <2>1, <2>2
<1> QED BY <1>1, <1>2 DEF KeyInv

(* The empty cluster has no keys. *)
LEMMA KeyInvInit == Init => KeyInv
<1> SUFFICES ASSUME Init PROVE Bounded /\ HoldersFirst
  BY SessionInit DEF KeyInv
<1>1. Bounded
  BY DEF Init, Bounded
<1>2. \A c \in Callers : ~Active(c)
  BY IdleType DEF Init, Active, At
<1> QED BY <1>1, <1>2 DEF HoldersFirst, Live

(* Two Holders cannot both have the oldest key. *)
LEMMA OneFirst == KeyInv => MutualExclusion
<1> SUFFICES ASSUME KeyInv, NEW c \in Callers, NEW d \in Callers,
                    Live(c), Live(d), SlotOf(c) = SlotOf(d), c # d
             PROVE  FALSE
  BY DEF MutualExclusion
<1>1. First(c) /\ First(d)
  BY DEF KeyInv, HoldersFirst
<1>2. Lease(c) \in Leases /\ Lease(d) \in Leases /\ SlotOf(c) \in Slots
  BY DEF KeyInv, SessionInv, HasLease, TypeOK, Call, Live, Active, At, SlotOf
<1>3. Lease(c) # Lease(d)
  BY <1>2, EtcdAssumption DEF KeyInv, SessionInv, OneUser
<1>4. create[SlotOf(c)][Lease(c)] \in Nat /\ create[SlotOf(c)][Lease(d)] \in Nat
  BY <1>2 DEF KeyInv, SessionInv, TypeOK
<1>5. create[SlotOf(c)][Lease(c)] < create[SlotOf(c)][Lease(d)]
  BY <1>1, <1>2, <1>3 DEF First
<1>6. create[SlotOf(c)][Lease(d)] < create[SlotOf(c)][Lease(c)]
  BY <1>1, <1>2, <1>3 DEF First
<1> QED BY <1>4, <1>5, <1>6

(* At any number of callers, slots and leases, a slot has one Holder with a   *)
(* living lease: the transaction of TryLock lets a caller in only when no     *)
(* older key is there, and nobody but its owner, or the end of its lease,     *)
(* takes the key of a Holder away.                                            *)
THEOREM OneHolderPerSlot == Spec => []MutualExclusion
  BY KeyInvInit, KeyInvStep, OneFirst, PTL DEF Spec

-----------------------------------------------------------------------------
(* Every Holder's token is a revision of the past. *)
TokensPast == \A c \in Callers : Active(c) => call[c].token =< rev

FenceInv == KeyInv /\ TokensPast /\ Fenced

(* Only TryLock makes a Holder, and with the largest token of all. *)
LEMMA FenceStep ==
  ASSUME FenceInv, [Next]_vars
  PROVE  FenceInv'
<1>0. KeyInv /\ KeyInv' /\ SessionInv /\ TypeOK /\ TokensPast /\ Fenced /\ MutualExclusion
  BY KeyInvStep, OneFirst DEF FenceInv, KeyInv, SessionInv
<1> USE <1>0
<1>1. rev \in Nat /\ rev' \in {rev, rev + 1}
  <2>1. CASE Leases = {}
    <3>1. ~\E c \in Callers : TryLock(c) \/ DeleteKey(c) \/ DeleteKeyError(c) \/ Unlock(c)
                              \/ UnlockError(c) \/ Close(c)
      BY <2>1 DEF TryLock, DeleteKey, DeleteKeyError, Unlock, UnlockError, Close, SessionInv,
                  HasLease, At
    <3>2. late = {}
      BY <2>1 DEF TypeOK, Put
    <3>3. rev' = rev
      BY <2>1, <3>1, <3>2 DEF Next, vars, NewSession, NewSessionError, TryLockError, CloseError,
                              EndContext, Crash
    <3> QED BY <3>3 DEF TypeOK
  <2>2. CASE Leases # {}
    <3>1. 0 \in Slots
      BY EtcdAssumption DEF Slots
    <3> QED BY <2>2, <3>1, KeyStep DEF TypeOK
  <2> QED BY <2>1, <2>2
<1>2. \A c \in Callers : call[c].token \in Nat
  BY DEF TypeOK, Call
<1>3. TokensPast'
  <2> SUFFICES ASSUME NEW c \in Callers, Active(c)' PROVE call'[c].token =< rev'
    BY DEF TokensPast
  <2>1. CASE TryLock(c)
    BY <1>1, <2>1, Winner
  <2>2. CASE ~TryLock(c)
    <3>1. Active(c) /\ call'[c].token = call[c].token
      BY <2>2, HolderStep DEF Same
    <3>2. call[c].token =< rev
      BY <3>1 DEF TokensPast
    <3> QED BY <1>1, <1>2, <3>1, <3>2
  <2> QED BY <2>1, <2>2
<1>4. Fenced'
  <2> SUFFICES ASSUME NEW c \in Callers, NEW d \in Callers, Active(c)', ~Live(c)', Live(d)',
                      SlotOf(c)' = SlotOf(d)'
               PROVE  call'[c].token < call'[d].token
    BY DEF Fenced
  <2>1. ~TryLock(c)
    <3> SUFFICES ASSUME TryLock(c) PROVE Live(c)'
      OBVIOUS
    <3>1. Lease(c)' \in leases'
      BY Winner
    <3> QED BY <3>1 DEF Live
  <2>2. Active(c) /\ Same(c)
    BY <2>1, HolderStep
  <2>3. SlotOf(c)' = SlotOf(c) /\ call'[c].token = call[c].token /\ call[c].token =< rev
    BY <2>2 DEF Same, SlotOf, TokensPast
  <2>4. CASE TryLock(d)
    <3>1. call'[d].token = rev + 1
      BY <2>4, Winner DEF Live
    <3> QED BY <1>1, <1>2, <2>3, <3>1
  <2>5. CASE ~TryLock(d)
    <3>1. Live(d) /\ Same(d) /\ SlotOf(d)' = SlotOf(d)
      BY <2>5, LiveStep
    <3>2. c # d
      OBVIOUS
    <3>3. ~Live(c)
      BY <2>3, <3>1, <3>2 DEF MutualExclusion
    <3>4. call[c].token < call[d].token
      BY <2>2, <2>3, <3>1, <3>3 DEF Fenced
    <3> QED BY <2>3, <3>1, <3>4 DEF Same
  <2> QED BY <2>4, <2>5
<1> QED BY <1>3, <1>4 DEF FenceInv

(* A Holder whose lease has ended without its knowledge has a smaller token   *)
(* than the Holder that has its slot now: create revisions only grow.         *)
THEOREM TokenFencesLostLease == Spec => []Fenced
<1>1. Init => FenceInv
  <2>1. Init => \A c \in Callers : ~Active(c)
    BY IdleType DEF Init, Active, At
  <2> QED BY <2>1, KeyInvInit DEF FenceInv, TokensPast, Fenced
<1>2. FenceInv => Fenced
  BY DEF FenceInv
<1> QED BY <1>1, <1>2, FenceStep, PTL DEF Spec

-----------------------------------------------------------------------------
(* A Holder whose context lasts has its lease. *)
KeptAlive == \A c \in Callers : Active(c) /\ ~call[c].ended => Lease(c) \in leases

(* Its own session renews it, and nobody else closes it. *)
LEMMA KeptAliveStep ==
  ASSUME KeyInv, KeptAlive, "partition" \notin Faults, [Next]_vars
  PROVE  KeptAlive'
<1>0. SessionInv /\ TypeOK
  BY DEF KeyInv, SessionInv
<1> SUFFICES ASSUME NEW c \in Callers, Active(c)', ~call'[c].ended
             PROVE  Lease(c)' \in leases'
  BY DEF KeptAlive
<1>1. CASE TryLock(c)
  BY <1>0, <1>1, Winner
<1>2. CASE ~TryLock(c)
  <2>1. Active(c) /\ Same(c)
    BY <1>0, <1>2, HolderStep
  <2>2. Lease(c)' = Lease(c) /\ ~call[c].ended
    BY <2>1 DEF Same, Lease
  <2>3. Lease(c) \in leases /\ Lease(c) \in Leases
    BY <1>0, <2>1, <2>2 DEF KeptAlive, TypeOK
  <2>4. ~Expire(Lease(c))
    BY <2>1, <2>2 DEF Expire, KeepsAlive, Active, At
  <2>5. ASSUME NEW d \in Callers, Lease(d) = Lease(c), Close(d) PROVE FALSE
    <3>1. d = c
      BY <1>0, <2>3, <2>5, EtcdAssumption DEF SessionInv, OneUser
    <3> QED BY <2>1, <2>5, <3>1 DEF Close, Active, At
  <2>6. Lease(c) \in leases'
    BY <1>0, <2>3, <2>4, <2>5, LeaseStep
  <2> QED BY <2>2, <2>6
<1> QED BY <1>1, <1>2

(* As long as no process is cut off for longer than its TTL, a Holder owns    *)
(* its slot until it calls Release or the context that it gave to Acquire     *)
(* ends, at any number of callers and whatever requests fail.                 *)
THEOREM HolderKeepsSlot == "partition" \notin Faults => (Spec => []KeptWhileContextLives)
<1> SUFFICES ASSUME "partition" \notin Faults PROVE Spec => []KeptWhileContextLives
  OBVIOUS
<1> DEFINE Inv == KeyInv /\ KeptAlive
<1>1. Init => Inv
  <2>1. Init => \A c \in Callers : ~Active(c)
    BY IdleType DEF Init, Active, At
  <2> QED BY <2>1, KeyInvInit DEF KeptAlive
<1>2. Inv /\ [Next]_vars => Inv'
  BY KeyInvStep, KeptAliveStep
<1>3. Inv => KeptWhileContextLives
  <2> SUFFICES ASSUME Inv, NEW c \in Callers, Active(c), ~call[c].ended PROVE Owns(c)
    BY DEF KeptWhileContextLives
  <2>1. First(c)
    BY DEF KeptAlive, KeyInv, HoldersFirst, Live
  <2>2. Lease(c) \in Leases /\ SlotOf(c) \in Slots
    BY DEF KeyInv, SessionInv, HasLease, TypeOK, Call, Active, At, SlotOf
  <2>3. \A l \in Leases : create[SlotOf(c)][l] \in Nat
    BY <2>2 DEF KeyInv, SessionInv, TypeOK
  <2> QED BY <2>1, <2>2, <2>3 DEF First, Owns, HasKey
<1> QED BY <1>1, <1>2, <1>3, PTL DEF Spec
===============================================================================
