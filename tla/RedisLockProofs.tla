--------------------------- MODULE RedisLockProofs ---------------------------
(* Theorems about RedisLock for every set of callers and of identifiers, every *)
(* number of slots and every TTL: the Lua guards protect a lease from every  *)
(* command but the clock, and no lease comes back once it was lost.          *)
EXTENDS RedisLock, FiniteSetTheorems, TLAPS

(* The record of a caller without a call is a Call. *)
LEMMA IdleType == Idle \in Call
  BY RedisAssumption DEF Idle, Call, Slots

(* Every command leaves well-typed keys. *)
LEMMA CommandType ==
  ASSUME TypeOK, NEW s \in Slots, NEW v \in Values,
         setnx(s, v) \/ releaseScript(s, v) \/ extendScript(s, v)
  PROVE  key' \in [Slots -> Key \cup {NoKey}]
<1> USE RedisAssumption
<1>1. [val |-> v, left |-> TTL] \in Key
  BY DEF Key
<1>2. \A k \in Key : [k EXCEPT !.left = TTL] \in Key
  BY DEF Key
<1>3. CASE setnx(s, v)
  BY <1>1, <1>3 DEF setnx, TypeOK
<1>4. CASE releaseScript(s, v)
  BY <1>4 DEF releaseScript, TypeOK
<1>5. CASE extendScript(s, v)
  <2>1. Matches(s, v) => key[s] \in Key
    BY DEF Matches, TypeOK
  <2> QED BY <1>2, <1>5, <2>1 DEF extendScript, TypeOK
<1> QED BY <1>3, <1>4, <1>5

(* A command that nobody waits for is a Command. *)
LEMMA GiveUpType ==
  ASSUME TypeOK, NEW c \in Callers, NEW op \in {"setnx", "extend", "release"},
         NEW v \in Values, GiveUp(op, c, v)
  PROVE  late' \subseteq Command /\ key' = key /\ fence' = fence
<1>1. [op |-> op, slot |-> SlotOf(c), val |-> v] \in Command
  BY DEF Command, SlotOf, TypeOK, Call
<1> QED BY <1>1 DEF GiveUp, TypeOK

(* A caller that has set a key knows its value. *)
ValueKnown == \A c \in Callers : Active(c) => call[c].val \in Values

(* Every step keeps the keys, the commands and the calls well-typed. *)
LEMMA TypeStep ==
  ASSUME TypeOK, ValueKnown, [Next]_vars
  PROVE  TypeOK' /\ ValueKnown'
<1> USE IdleType, RedisAssumption
<1>0. ASSUME NEW c \in Callers, call' = [call EXCEPT ![c] = Idle]
      PROVE  call' \in [Callers -> Call] /\ ValueKnown'
  <2>1. call' \in [Callers -> Call]
    BY <1>0 DEF TypeOK
  <2>2. \A d \in Callers : Active(d)' => call'[d] = call[d]
    BY <1>0 DEF Active, Idle, TypeOK
  <2> QED BY <2>1, <2>2 DEF ValueKnown, Active
<1>1. ASSUME NEW c \in Callers, Acquire(c) PROVE TypeOK' /\ ValueKnown'
  <2>1. TypeOK'
    BY <1>1 DEF Acquire, TypeOK, Call
  <2>2. \A d \in Callers : Active(d)' => call'[d] = call[d]
    BY <1>1 DEF Acquire, Active, TypeOK, Call
  <2> QED BY <2>1, <2>2 DEF ValueKnown, Active
<1>2. ASSUME NEW c \in Callers, SetNX(c) PROVE TypeOK' /\ ValueKnown'
  <2>1. PICK v \in Values : /\ setnx(SlotOf(c), v)
                            /\ call' = [call EXCEPT ![c].pc = "incr", ![c].val = v]
    BY <1>2 DEF SetNX, Fresh
  <2>2. [call[c] EXCEPT !.pc = "incr", !.val = v] \in Call
    BY DEF TypeOK, Call
  <2>3. call' = [call EXCEPT ![c] = [call[c] EXCEPT !.pc = "incr", !.val = v]]
    BY <2>1
  <2>4. call' \in [Callers -> Call]
    BY <2>2, <2>3 DEF TypeOK
  <2>5. key' \in [Slots -> Key \cup {NoKey}]
    BY <2>1, CommandType DEF SlotOf, TypeOK, Call
  <2>6. TypeOK'
    BY <1>2, <2>4, <2>5 DEF SetNX, TypeOK
  <2>7. \A d \in Callers : call'[d] = call[d] \/ call'[d].val = v
    BY <2>1 DEF TypeOK, Call
  <2> QED BY <2>6, <2>7 DEF ValueKnown, Active
<1>3. ASSUME NEW c \in Callers, SetNXRefused(c) PROVE TypeOK' /\ ValueKnown'
  <2>1. CASE SlotOf(c) + 1 \in Slots
    <3>1. call' = [call EXCEPT ![c].slot = SlotOf(c) + 1]
      BY <1>3, <2>1 DEF SetNXRefused, NextSlot
    <3>2. call' \in [Callers -> Call]
      BY <2>1, <3>1 DEF TypeOK, Call
    <3>3. \A d \in Callers : call'[d].pc = call[d].pc /\ call'[d].val = call[d].val
      BY <3>1 DEF TypeOK, Call
    <3> QED BY <1>3, <3>2, <3>3 DEF SetNXRefused, TypeOK, ValueKnown, Active
  <2>2. CASE SlotOf(c) + 1 \notin Slots
    BY <1>0, <1>3, <2>2 DEF SetNXRefused, NextSlot, TypeOK
  <2> QED BY <2>1, <2>2
<1>4. ASSUME NEW c \in Callers, SetNXError(c) PROVE TypeOK' /\ ValueKnown'
  <2>1. PICK v \in Values : GiveUp("setnx", c, v)
    BY <1>4 DEF SetNXError, Fresh
  <2> QED BY <1>0, <1>4, <2>1, GiveUpType DEF SetNXError, TypeOK
<1>5. ASSUME NEW c \in Callers, Incr(c) \/ IncrError(c) PROVE TypeOK' /\ ValueKnown'
  <2>1. fence' \in Nat /\ key' = key /\ late' = late
    BY <1>5 DEF Incr, IncrError, TypeOK
  <2>2. PICK t \in Nat : call' = [call EXCEPT ![c].pc = "held", ![c].token = t]
    <3>1. fence + 1 \in Nat /\ 0 \in Nat
      BY DEF TypeOK
    <3> QED BY <1>5, <3>1, Zenon DEF Incr, IncrError
  <2>3. [call[c] EXCEPT !.pc = "held", !.token = t] \in Call
    BY DEF TypeOK, Call
  <2>4. call' \in [Callers -> Call]
    BY <2>2, <2>3 DEF TypeOK
  <2>5. Active(c)
    BY <1>5 DEF Incr, IncrError, At, Active
  <2>6. \A d \in Callers : call'[d].val = call[d].val /\ (Active(d)' => Active(d))
    BY <2>2, <2>5 DEF TypeOK, Call, Active
  <2> QED BY <2>1, <2>4, <2>6 DEF TypeOK, ValueKnown
<1>6. ASSUME NEW c \in Callers, At(c, "held") PROVE call[c].val \in Values /\ SlotOf(c) \in Slots
  BY <1>6 DEF ValueKnown, Active, At, SlotOf, TypeOK, Call
<1>7. ASSUME NEW c \in Callers, Extend(c) PROVE TypeOK' /\ ValueKnown'
  BY <1>6, <1>7, CommandType DEF Extend, TypeOK, ValueKnown, Active
<1>8. ASSUME NEW c \in Callers, ExtendError(c) PROVE TypeOK' /\ ValueKnown'
  BY <1>6, <1>8, GiveUpType DEF ExtendError, TypeOK, ValueKnown, Active
<1>9. ASSUME NEW c \in Callers, Release(c) PROVE TypeOK' /\ ValueKnown'
  BY <1>0, <1>6, <1>9, CommandType DEF Release, TypeOK
<1>10. ASSUME NEW c \in Callers, ReleaseError(c) PROVE TypeOK' /\ ValueKnown'
  BY <1>0, <1>6, <1>10, GiveUpType DEF ReleaseError, TypeOK
<1>11. ASSUME NEW S \in SUBSET Callers, Crash(S) PROVE TypeOK' /\ ValueKnown'
  <2>1. call' \in [Callers -> Call]
    BY <1>11 DEF Crash, TypeOK
  <2>2. \A d \in Callers : Active(d)' => call'[d] = call[d]
    BY <1>11 DEF Crash, Active, Idle
  <2> QED BY <1>11, <2>1, <2>2 DEF Crash, TypeOK, ValueKnown, Active
<1>12. ASSUME NEW m \in late, Deliver(m) PROVE TypeOK' /\ ValueKnown'
  <2>1. m.slot \in Slots /\ m.val \in Values
    BY DEF TypeOK, Command
  <2>2. key' \in [Slots -> Key \cup {NoKey}]
    BY <1>12, <2>1, CommandType DEF Deliver
  <2> QED BY <1>12, <2>2 DEF Deliver, TypeOK, ValueKnown, Active
<1>13. ASSUME NEW m \in late, Drop(m) PROVE TypeOK' /\ ValueKnown'
  BY <1>13 DEF Drop, TypeOK, ValueKnown, Active
<1>14. CASE Tick
  <2>1. \A s \in Slots : Aged(key[s]) \in Key \cup {NoKey}
    BY DEF Aged, TypeOK, Key
  <2> QED BY <1>14, <2>1 DEF Tick, TypeOK, ValueKnown, Active
<1>15. CASE UNCHANGED vars
  BY <1>15 DEF vars, TypeOK, ValueKnown, Active
<1> QED BY <1>1, <1>2, <1>3, <1>4, <1>5, <1>7, <1>8, <1>9, <1>10, <1>11, <1>12, <1>13, <1>14, <1>15
        DEF Next

(* The empty server is well-typed. *)
LEMMA TypeInit == Init => TypeOK /\ ValueKnown
  BY IdleType DEF Init, TypeOK, ValueKnown, Active, Idle

(* The keys, the commands in flight and the calls are always well-typed. *)
THEOREM TypeCorrect == Spec => []TypeOK
  BY TypeInit, TypeStep, PTL DEF Spec

-----------------------------------------------------------------------------
(* The random identifiers are what the Lua guards stand on: no two Holders  *)
(* share one, and no Release or SETNX that is still in flight carries the   *)
(* identifier of a Holder.                                                  *)
UniqueValues ==
  /\ \A c, d \in Callers : Active(c) /\ Active(d) /\ c # d => call[c].val # call[d].val
  /\ \A m \in late : \A c \in Callers : m.op # "extend" /\ Active(c) => m.val # call[c].val

LeaseInv == TypeOK /\ ValueKnown /\ UniqueValues

(* The identifiers stay unique. *)
LEMMA LeaseInvStep ==
  ASSUME LeaseInv, [Next]_vars
  PROVE  LeaseInv'
<1>0. TypeOK /\ TypeOK' /\ ValueKnown /\ ValueKnown' /\ UniqueValues
  BY TypeStep DEF LeaseInv
<1> USE <1>0
<1> SUFFICES UniqueValues'
  BY DEF LeaseInv
<1>1. ASSUME late' \subseteq late,
             \A d \in Callers : Active(d)' => Active(d) /\ call'[d].val = call[d].val
      PROVE  UniqueValues'
  BY <1>1 DEF UniqueValues
<1>2. ASSUME NEW c \in Callers, call' = [call EXCEPT ![c] = Idle]
      PROVE  \A d \in Callers : Active(d)' => d # c /\ Active(d) /\ call'[d].val = call[d].val
  BY <1>2 DEF Active, Idle, TypeOK
<1>3. ASSUME NEW c \in Callers, Acquire(c) \/ SetNXRefused(c) PROVE UniqueValues'
  <2>1. \A d \in Callers : Active(d)' => Active(d) /\ call'[d].val = call[d].val
    <3>1. CASE Acquire(c)
      BY <3>1 DEF Acquire, Active, TypeOK, Call
    <3>2. CASE SetNXRefused(c) /\ SlotOf(c) + 1 \in Slots
      BY <3>2 DEF SetNXRefused, NextSlot, Active, TypeOK, Call
    <3>3. CASE SetNXRefused(c) /\ SlotOf(c) + 1 \notin Slots
      BY <3>3, <1>2 DEF SetNXRefused, NextSlot
    <3> QED BY <1>3, <3>1, <3>2, <3>3
  <2> QED BY <1>1, <1>3, <2>1 DEF Acquire, SetNXRefused
<1>4. ASSUME NEW c \in Callers, SetNX(c) PROVE UniqueValues'
  <2>1. PICK v \in Fresh : call' = [call EXCEPT ![c].pc = "incr", ![c].val = v]
    BY <1>4 DEF SetNX
  <2>2. call'[c].val = v /\ \A d \in Callers \ {c} : call'[d] = call[d]
    BY <2>1 DEF TypeOK, Call
  <2>3. (\A d \in Callers : call[d].val # v) /\ (\A m \in late : m.val # v)
    BY DEF Fresh
  <2>4. \A d \in Callers \ {c} : Active(d)' => Active(d)
    BY <2>2 DEF Active
  <2>5. late' = late
    BY <1>4 DEF SetNX
  <2>6. \A a, b \in Callers : Active(a)' /\ Active(b)' /\ a # b => call'[a].val # call'[b].val
    BY <2>2, <2>3, <2>4 DEF UniqueValues
  <2>7. \A m \in late : \A a \in Callers : m.op # "extend" /\ Active(a)' => m.val # call'[a].val
    BY <2>2, <2>3, <2>4 DEF UniqueValues
  <2> QED BY <2>5, <2>6, <2>7 DEF UniqueValues
<1>5. ASSUME NEW c \in Callers, SetNXError(c) PROVE UniqueValues'
  <2>1. PICK v \in Fresh : late' \subseteq late \cup {[op |-> "setnx", slot |-> SlotOf(c), val |-> v]}
    BY <1>5 DEF SetNXError, GiveUp
  <2>2. \A d \in Callers : call[d].val # v
    BY DEF Fresh
  <2>3. \A d \in Callers : Active(d)' => Active(d) /\ call'[d].val = call[d].val
    BY <1>2, <1>5 DEF SetNXError
  <2> QED BY <2>1, <2>2, <2>3 DEF UniqueValues
<1>6. ASSUME NEW c \in Callers, Incr(c) \/ IncrError(c) PROVE UniqueValues'
  <2>1. \E t : call' = [call EXCEPT ![c].pc = "held", ![c].token = t]
    BY <1>6, Zenon DEF Incr, IncrError
  <2>2. Active(c) /\ late' = late
    BY <1>6 DEF Incr, IncrError, At, Active
  <2>3. \A d \in Callers : Active(d)' => Active(d) /\ call'[d].val = call[d].val
    BY <2>1, <2>2 DEF Active, TypeOK, Call
  <2> QED BY <1>1, <2>2, <2>3
<1>7. ASSUME NEW c \in Callers, Extend(c) PROVE UniqueValues'
  BY <1>1, <1>7 DEF Extend, Active
<1>8. ASSUME NEW c \in Callers, ExtendError(c) PROVE UniqueValues'
  <2>1. call' = call /\ late' \subseteq late \cup {[op |-> "extend", slot |-> SlotOf(c), val |-> call[c].val]}
    BY <1>8 DEF ExtendError, GiveUp
  <2> QED BY <2>1 DEF UniqueValues, Active
<1>9. ASSUME NEW c \in Callers, Release(c) PROVE UniqueValues'
  BY <1>1, <1>2, <1>9 DEF Release
<1>14. ASSUME NEW S \in SUBSET Callers, Crash(S) PROVE UniqueValues'
  <2>1. \A d \in Callers : Active(d)' => call'[d] = call[d]
    BY <1>14 DEF Crash, Active, Idle
  <2> QED BY <1>1, <1>14, <2>1 DEF Crash, Active
<1>10. ASSUME NEW c \in Callers, ReleaseError(c) PROVE UniqueValues'
  <2>1. late' \subseteq late \cup {[op |-> "release", slot |-> SlotOf(c), val |-> call[c].val]}
    BY <1>10 DEF ReleaseError, GiveUp
  <2>2. \A d \in Callers : Active(d)' => d # c /\ Active(d) /\ call'[d].val = call[d].val
    BY <1>2, <1>10 DEF ReleaseError
  <2>3. Active(c)
    BY <1>10 DEF ReleaseError, At, Active
  <2> QED BY <2>1, <2>2, <2>3 DEF UniqueValues
<1>11. ASSUME NEW m \in late, Deliver(m) \/ Drop(m) PROVE UniqueValues'
  BY <1>1, <1>11 DEF Deliver, Drop, Active
<1>12. CASE Tick
  BY <1>1, <1>12 DEF Tick, Active
<1>13. CASE UNCHANGED vars
  BY <1>1, <1>13 DEF vars, Active
<1> QED BY <1>3, <1>4, <1>5, <1>6, <1>7, <1>8, <1>9, <1>10, <1>11, <1>12, <1>13, <1>14
        DEF Next

(* A command with an identifier that is not c's leaves c's lease as it is.  *)
LEMMA ForeignCommand ==
  ASSUME TypeOK, TypeOK', NEW c \in Callers, call'[c] = call[c],
         NEW s \in Slots, NEW v \in Values, v # call[c].val,
         setnx(s, v) \/ releaseScript(s, v) \/ extendScript(s, v)
  PROVE  Owns(c)' <=> Owns(c)
<1> DEFINE k == SlotOf(c)
<1>1. k \in Slots /\ SlotOf(c)' = k /\ (Active(c)' <=> Active(c))
  BY DEF SlotOf, Active, TypeOK, Call
<1>2. CASE setnx(s, v)
  <2>1. key'[k] = key[k] \/ (key[k] = NoKey /\ key'[k].val = v)
    BY <1>1, <1>2 DEF setnx, TypeOK
  <2> QED BY <1>1, <2>1 DEF Owns, Matches
<1>3. CASE releaseScript(s, v)
  <2>1. key'[k] = key[k] \/ (Matches(k, v) /\ key'[k] = NoKey)
    BY <1>1, <1>3 DEF releaseScript, TypeOK
  <2> QED BY <1>1, <2>1 DEF Owns, Matches
<1>4. CASE extendScript(s, v)
  <2>1. key'[k] = key[k] \/ (Matches(k, v) /\ (key'[k] = NoKey \/ key'[k].val = v))
    BY <1>1, <1>4 DEF extendScript, TypeOK, Matches, Key
  <2> QED BY <1>1, <2>1 DEF Owns, Matches
<1> QED BY <1>2, <1>3, <1>4

(* An Extend with c's identifier neither ends nor revives c's lease. *)
LEMMA OwnExtend ==
  ASSUME TTL # 0, TypeOK, TypeOK', NEW c \in Callers, call'[c] = call[c],
         NEW s \in Slots, extendScript(s, call[c].val)
  PROVE  Owns(c)' <=> Owns(c)
<1> DEFINE k == SlotOf(c)
<1>1. k \in Slots /\ SlotOf(c)' = k /\ (Active(c)' <=> Active(c))
  BY DEF SlotOf, Active, TypeOK, Call
<1>2. key'[k] = key[k] \/ (Matches(k, call[c].val) /\ key'[k] = [key[k] EXCEPT !.left = TTL])
  BY <1>1 DEF extendScript, TypeOK
<1>3. ASSUME Matches(k, call[c].val), key'[k] = [key[k] EXCEPT !.left = TTL]
      PROVE  key'[k] # NoKey /\ key'[k].val = call[c].val
  <2>1. key[k] \in Key
    BY <1>1, <1>3 DEF Matches, TypeOK
  <2>2. [key[k] EXCEPT !.left = TTL] \in Key /\ [key[k] EXCEPT !.left = TTL].val = key[k].val
    BY <2>1, RedisAssumption DEF Key
  <2> QED BY <1>3, <2>2, RedisAssumption DEF Matches
<1> QED BY <1>1, <1>2, <1>3 DEF Owns, Matches

(* No step but the clock's ends a lease, and none revives it. *)
LEMMA LeaseStep ==
  ASSUME TTL # 0, LeaseInv, [Next]_vars, NEW c \in Callers, Active(c), call'[c] = call[c]
  PROVE  (Owns(c)' <=> Owns(c)) \/ (Tick /\ Owns(c) /\ ~Owns(c)' /\ Expires(SlotOf(c)))
<1>0. TypeOK /\ TypeOK' /\ ValueKnown /\ UniqueValues
  BY TypeStep DEF LeaseInv
<1> USE <1>0
<1>1. ASSUME key' = key PROVE Owns(c)' <=> Owns(c)
  BY <1>1 DEF Owns, Active, Matches, SlotOf
<1>2. ASSUME NEW d \in Callers, SetNX(d) PROVE Owns(c)' <=> Owns(c)
  <2>1. PICK v \in Fresh : setnx(SlotOf(d), v)
    BY <1>2 DEF SetNX
  <2>2. v \in Values /\ v # call[c].val /\ SlotOf(d) \in Slots
    BY DEF Fresh, SlotOf, TypeOK, Call
  <2> QED BY <2>1, <2>2, ForeignCommand
<1>3. ASSUME NEW d \in Callers, At(d, "held")
      PROVE  /\ call[d].val \in Values /\ SlotOf(d) \in Slots
             /\ d # c => call[d].val # call[c].val
  BY <1>3 DEF ValueKnown, UniqueValues, Active, At, SlotOf, TypeOK, Call
<1>4. ASSUME NEW d \in Callers, Extend(d) PROVE Owns(c)' <=> Owns(c)
  <2>1. CASE d = c
    BY <1>3, <1>4, <2>1, OwnExtend DEF Extend
  <2>2. CASE d # c
    BY <1>3, <1>4, <2>2, ForeignCommand DEF Extend
  <2> QED BY <2>1, <2>2
<1>5. ASSUME NEW d \in Callers, Release(d) PROVE Owns(c)' <=> Owns(c)
  <2>1. d # c
    BY <1>5 DEF Release, Active, Idle, TypeOK
  <2> QED BY <1>3, <1>5, <2>1, ForeignCommand DEF Release
<1>6. ASSUME NEW m \in late, Deliver(m) PROVE Owns(c)' <=> Owns(c)
  <2>1. m.slot \in Slots /\ m.val \in Values
    BY DEF TypeOK, Command
  <2>2. CASE m.val # call[c].val
    BY <1>6, <2>1, <2>2, ForeignCommand DEF Deliver
  <2>3. CASE m.val = call[c].val
    <3>1. m.op = "extend"
      BY <2>3 DEF UniqueValues
    <3> QED BY <1>6, <2>1, <2>3, <3>1, OwnExtend DEF Deliver
  <2> QED BY <2>2, <2>3
<1>7. CASE Tick
  <2> DEFINE k == SlotOf(c)
  <2>1. k \in Slots /\ SlotOf(c)' = k /\ (Active(c)' <=> Active(c)) /\ key'[k] = Aged(key[k])
    BY <1>7 DEF Tick, SlotOf, Active, TypeOK, Call
  <2>2. CASE key[k] = NoKey
    BY <2>1, <2>2 DEF Owns, Matches, Aged
  <2>3. CASE key[k] # NoKey /\ key[k].left = 1
    <3>1. key'[k] = NoKey
      BY <2>1, <2>3 DEF Aged
    <3> QED BY <1>7, <2>1, <2>3, <3>1 DEF Owns, Matches, Expires
  <2>4. CASE key[k] # NoKey /\ key[k].left # 1
    <3>1. key[k] \in Key
      BY <2>1, <2>4 DEF TypeOK
    <3>2. CASE key[k].left = 0
      BY <2>1, <2>4, <3>2 DEF Owns, Matches, Aged
    <3>3. CASE key[k].left # 0
      <4>1. key'[k] = [key[k] EXCEPT !.left = @ - 1]
        BY <2>1, <2>4, <3>3 DEF Aged
      <4>2. [key[k] EXCEPT !.left = @ - 1] \in Key /\ [key[k] EXCEPT !.left = @ - 1].val = key[k].val
        BY <2>4, <3>1, <3>3, RedisAssumption DEF Key
      <4>3. key'[k] # NoKey /\ key'[k].val = key[k].val
        BY <4>1, <4>2, RedisAssumption
      <4> QED BY <2>1, <2>4, <4>3 DEF Owns, Matches
    <3> QED BY <3>2, <3>3
  <2> QED BY <2>2, <2>3, <2>4
<1>8. CASE UNCHANGED vars
  BY <1>1, <1>8 DEF vars
<1>9. ASSUME NEW d \in Callers,
             \/ Acquire(d) \/ SetNXRefused(d) \/ SetNXError(d) \/ Incr(d) \/ IncrError(d)
             \/ ExtendError(d) \/ ReleaseError(d)
      PROVE  key' = key
  BY <1>9 DEF Acquire, SetNXRefused, SetNXError, Incr, IncrError, ExtendError, ReleaseError,
     GiveUp
<1>11. ASSUME NEW S \in SUBSET Callers, Crash(S) PROVE key' = key
  BY <1>11 DEF Crash
<1>10. ASSUME NEW m \in late, Drop(m) PROVE key' = key
  BY <1>10 DEF Drop
<1> QED BY <1>1, <1>2, <1>4, <1>5, <1>6, <1>7, <1>8, <1>9, <1>10, <1>11 DEF Next

(* With a TTL, a Holder's lease is ended by its own Release or by the clock *)
(* and by nothing else, however late other commands arrive, and a Release   *)
(* that finds its own value proves that the lease was never interrupted.    *)
THEOREM LeaseIsSafe == TTL # 0 => (Spec => LostOnlyByExpiry /\ NeverRegained)
<1> SUFFICES ASSUME TTL # 0 PROVE Spec => LostOnlyByExpiry /\ NeverRegained
  OBVIOUS
<1>1. Init => LeaseInv
  BY TypeInit DEF Init, LeaseInv, UniqueValues, Active, Idle
<1>2. LeaseInv /\ [Next]_vars => LeaseInv'
  BY LeaseInvStep
<1>3. LeaseInv /\ [Next]_vars =>
        [\A c \in Callers : Owns(c) /\ call'[c] = call[c] /\ ~Owns(c)' => Expires(SlotOf(c))]_vars
  BY LeaseStep DEF Owns
<1>4. LeaseInv /\ [Next]_vars =>
        [\A c \in Callers : At(c, "held") /\ ~Owns(c) /\ call'[c] = call[c] => ~Owns(c)']_vars
  BY LeaseStep DEF At, Active
<1> QED BY <1>1, <1>2, <1>3, <1>4, PTL DEF Spec, LostOnlyByExpiry, NeverRegained

(* With a TTL, a Holder that lost its lease does not get it back: neither a *)
(* late Extend nor a new key brings back a value that is gone.              *)
THEOREM LeaseStaysLost == TTL # 0 => (Spec => NeverRegained)
BY LeaseIsSafe

-----------------------------------------------------------------------------
(* Tokens.  Where callers are quick between SETNX and INCR, a caller that   *)
(* draws its token still has the key.                                       *)
DrawsWithKey == \A c \in Callers : At(c, "incr") => Owns(c)
TokensDrawn == \A c \in Callers : call[c].token =< fence
FenceInv == LeaseInv /\ DrawsWithKey /\ TokensDrawn /\ Fenced

(* Active callers have one key per slot between them. *)
LEMMA OneOwner ==
  ASSUME LeaseInv, NEW c \in Callers, NEW d \in Callers, Owns(c), Owns(d),
         SlotOf(c) = SlotOf(d)
  PROVE  c = d
  BY DEF LeaseInv, UniqueValues, Owns, Matches

(* The counter never falls, and a token that changes is zero or the counter. *)
LEMMA TokenStep ==
  ASSUME TypeOK, TokensDrawn, [Next]_vars
  PROVE  TokensDrawn'
<1> USE DEF TokensDrawn
<1>0. fence \in Nat /\ \A c \in Callers : call[c] \in Call
  BY DEF TypeOK
<1>1. ASSUME fence' = fence, \A d \in Callers : call'[d].token \in {0, call[d].token}
      PROVE  TokensDrawn'
  BY <1>0, <1>1
<1>2. ASSUME NEW c \in Callers, call' = [call EXCEPT ![c] = Idle]
      PROVE  \A d \in Callers : call'[d].token \in {0, call[d].token}
  BY <1>2 DEF Idle, TypeOK
<1>3. ASSUME NEW c \in Callers, Acquire(c) PROVE TokensDrawn'
  BY <1>1, <1>3 DEF Acquire, TypeOK, Call
<1>4. ASSUME NEW c \in Callers, SetNX(c) PROVE TokensDrawn'
  <2>1. PICK v : call' = [call EXCEPT ![c].pc = "incr", ![c].val = v]
    BY <1>4 DEF SetNX
  <2>2. \A d \in Callers : call'[d].token = call[d].token
    BY <2>1 DEF TypeOK, Call
  <2> QED BY <1>1, <1>4, <2>2 DEF SetNX
<1>5. ASSUME NEW c \in Callers, SetNXRefused(c) PROVE TokensDrawn'
  <2>1. CASE SlotOf(c) + 1 \in Slots
    BY <1>1, <1>5, <2>1 DEF SetNXRefused, NextSlot, TypeOK, Call
  <2>2. CASE SlotOf(c) + 1 \notin Slots
    BY <1>1, <1>2, <1>5, <2>2 DEF SetNXRefused, NextSlot
  <2> QED BY <2>1, <2>2
<1>6. ASSUME NEW c \in Callers, SetNXError(c) \/ ReleaseError(c) \/ Release(c) PROVE TokensDrawn'
  BY <1>1, <1>2, <1>6 DEF SetNXError, ReleaseError, Release, GiveUp
<1>7. ASSUME NEW c \in Callers, Incr(c) PROVE TokensDrawn'
  <2>1. fence' = fence + 1 /\ \A d \in Callers : call'[d].token \in {fence + 1, call[d].token}
    BY <1>7 DEF Incr, TypeOK, Call
  <2> QED BY <1>0, <2>1 DEF Call
<1>8. ASSUME NEW c \in Callers, IncrError(c) PROVE TokensDrawn'
  <2>1. fence' \in {fence, fence + 1} /\ \A d \in Callers : call'[d].token \in {0, call[d].token}
    BY <1>8 DEF IncrError, TypeOK, Call
  <2> QED BY <1>0, <2>1 DEF Call
<1>9. ASSUME NEW c \in Callers, Extend(c) \/ ExtendError(c) PROVE TokensDrawn'
  BY <1>1, <1>9 DEF Extend, ExtendError, GiveUp
<1>10. ASSUME NEW S \in SUBSET Callers, Crash(S) PROVE TokensDrawn'
  BY <1>1, <1>10 DEF Crash, Idle
<1>11. ASSUME NEW m \in late, Deliver(m) \/ Drop(m) PROVE TokensDrawn'
  BY <1>1, <1>11 DEF Deliver, Drop
<1>12. CASE Tick \/ UNCHANGED vars
  BY <1>1, <1>12 DEF Tick, vars
<1> QED BY <1>3, <1>4, <1>5, <1>6, <1>7, <1>8, <1>9, <1>10, <1>11, <1>12 DEF Next

(* What a step does to one caller. *)
LEMMA CallerStep ==
  ASSUME TypeOK, [Next]_vars, NEW c \in Callers
  PROVE  call'[c] = call[c] \/ ~Active(c)' \/ SetNX(c) \/ Incr(c) \/ IncrError(c)
<1> SUFFICES ASSUME ~SetNX(c), ~Incr(c), ~IncrError(c)
             PROVE  call'[c] = call[c] \/ ~Active(c)'
  OBVIOUS
<1>1. ASSUME NEW d \in Callers, call' = [call EXCEPT ![d] = Idle]
      PROVE  call'[c] = call[c] \/ ~Active(c)'
  BY <1>1 DEF Active, Idle, TypeOK
<1>2. ASSUME NEW d \in Callers, Acquire(d) PROVE call'[c] = call[c] \/ ~Active(c)'
  BY <1>2 DEF Acquire, Active, TypeOK, Call
<1>3. ASSUME NEW d \in Callers, SetNX(d) PROVE call'[c] = call[c]
  <2>1. PICK v : call' = [call EXCEPT ![d].pc = "incr", ![d].val = v]
    BY <1>3 DEF SetNX
  <2> QED BY <1>3, <2>1 DEF TypeOK
<1>4. ASSUME NEW d \in Callers, SetNXRefused(d) PROVE call'[c] = call[c] \/ ~Active(c)'
  <2>1. CASE SlotOf(d) + 1 \in Slots
    BY <1>4, <2>1 DEF SetNXRefused, NextSlot, At, Active, TypeOK, Call
  <2>2. CASE SlotOf(d) + 1 \notin Slots
    BY <1>1, <1>4, <2>2 DEF SetNXRefused, NextSlot
  <2> QED BY <2>1, <2>2
<1>5. ASSUME NEW d \in Callers, SetNXError(d) \/ Release(d) \/ ReleaseError(d)
      PROVE  call'[c] = call[c] \/ ~Active(c)'
  BY <1>1, <1>5 DEF SetNXError, Release, ReleaseError
<1>6. ASSUME NEW d \in Callers, Incr(d) \/ IncrError(d) PROVE call'[c] = call[c]
  <2>1. PICK t : call' = [call EXCEPT ![d].pc = "held", ![d].token = t]
    BY <1>6, Zenon DEF Incr, IncrError
  <2> QED BY <1>6, <2>1 DEF TypeOK
<1>7. ASSUME NEW d \in Callers, Extend(d) \/ ExtendError(d) PROVE call'[c] = call[c]
  BY <1>7 DEF Extend, ExtendError
<1>8. ASSUME NEW S \in SUBSET Callers, Crash(S) PROVE call'[c] = call[c] \/ ~Active(c)'
  BY <1>8 DEF Crash, Active, Idle
<1>9. ASSUME NEW m \in late, Deliver(m) \/ Drop(m) PROVE call'[c] = call[c]
  BY <1>9 DEF Deliver, Drop
<1>10. CASE Tick \/ UNCHANGED vars
  BY <1>10 DEF Tick, vars
<1> QED BY <1>2, <1>3, <1>4, <1>5, <1>6, <1>7, <1>8, <1>9, <1>10 DEF Next

(* A caller that draws its token keeps its key and its slot. *)
LEMMA DrawStep ==
  ASSUME TypeOK, NEW c \in Callers, Incr(c) \/ IncrError(c)
  PROVE  (Owns(c)' <=> Owns(c)) /\ call'[c].slot = call[c].slot /\ call'[c].val = call[c].val
         /\ At(c, "held")'
<1>1. PICK t : call' = [call EXCEPT ![c].pc = "held", ![c].token = t]
  BY Zenon DEF Incr, IncrError
<1>2. call'[c].slot = call[c].slot /\ call'[c].val = call[c].val /\ call'[c].pc = "held"
  BY <1>1 DEF TypeOK, Call
<1>3. Active(c) /\ Active(c)' /\ key' = key
  BY <1>2 DEF Incr, IncrError, At, Active
<1> QED BY <1>2, <1>3 DEF Owns, Matches, SlotOf, At

(* Where callers are quick between SETNX and INCR, every step keeps Fenced. *)
LEMMA FenceStep ==
  ASSUME TTL # 0, "incr" \notin Overrun, FenceInv, [Next]_vars
  PROVE  FenceInv'
<1>0. TypeOK /\ LeaseInv /\ LeaseInv' /\ TypeOK' /\ DrawsWithKey /\ TokensDrawn /\ Fenced
  BY LeaseInvStep DEF FenceInv, LeaseInv
<1> USE <1>0
<1>1. TokensDrawn'
  BY TokenStep
<1>2. ASSUME NEW c \in Callers, SetNX(c) PROVE Owns(c)'
  <2>1. PICK v \in Values : /\ setnx(SlotOf(c), v)
                            /\ call' = [call EXCEPT ![c].pc = "incr", ![c].val = v]
    BY <1>2 DEF SetNX, Fresh
  <2>2. call'[c].pc = "incr" /\ call'[c].val = v /\ call'[c].slot = SlotOf(c) /\ SlotOf(c) \in Slots
    BY <2>1 DEF TypeOK, Call, SlotOf
  <2>3. key'[SlotOf(c)] = [val |-> v, left |-> TTL]
    BY <1>2, <2>1, <2>2 DEF setnx, SetNX, TypeOK
  <2>4. key'[SlotOf(c)] # NoKey /\ key'[SlotOf(c)].val = v
    BY <2>3, RedisAssumption DEF Key
  <2> QED BY <2>2, <2>4 DEF Owns, Active, Matches, SlotOf
<1>3. ASSUME NEW c \in Callers, At(c, "incr")' PROVE Owns(c)'
  <2>1. Active(c)' /\ ~At(c, "held")'
    BY <1>3 DEF At, Active
  <2>2. CASE call'[c] = call[c]
    <3>1. At(c, "incr") /\ Active(c) /\ Owns(c)
      BY <1>3, <2>2 DEF At, Active, DrawsWithKey
    <3>2. ~(Tick /\ Expires(SlotOf(c)))
      BY <3>1, RedisAssumption DEF Tick, At
    <3> QED BY <2>2, <3>1, <3>2, LeaseStep
  <2>3. CASE Incr(c) \/ IncrError(c)
    BY <2>1, <2>3, DrawStep
  <2> QED BY <1>2, <2>1, <2>2, <2>3, CallerStep
<1>4. DrawsWithKey'
  BY <1>3 DEF DrawsWithKey
<1>5. ASSUME NEW c \in Callers, NEW d \in Callers,
             At(c, "held")', ~Owns(c)', call'[c].token # 0,
             At(d, "held")', Owns(d)', call'[d].token # 0, SlotOf(c)' = SlotOf(d)'
      PROVE  call'[c].token < call'[d].token
  <2>0. call[c].token \in Nat /\ fence \in Nat
    BY DEF TypeOK, Call
  <2>1. ASSUME NEW e \in Callers, At(e, "held")'
        PROVE  (call'[e] = call[e] /\ At(e, "held") /\ Active(e)) \/ Incr(e) \/ IncrError(e)
    <3>1. Active(e)' /\ ~SetNX(e)
      BY <2>1 DEF At, Active, SetNX, TypeOK, Call
    <3> QED BY <2>1, <3>1, CallerStep DEF At, Active
  <2>2. call'[c] = call[c] /\ At(c, "held") /\ Active(c)
    <3>1. ASSUME Incr(c) \/ IncrError(c) PROVE FALSE
      <4>1. Owns(c)
        BY <3>1 DEF DrawsWithKey, Incr, IncrError
      <4> QED BY <1>5, <3>1, <4>1, DrawStep
    <3> QED BY <1>5, <2>1, <3>1
  <2>3. CASE call'[d] = call[d] /\ At(d, "held") /\ Active(d)
    <3>1. Owns(d)
      BY <1>5, <2>3, LeaseStep
    <3>2. SlotOf(c) = SlotOf(d)
      BY <1>5, <2>2, <2>3 DEF SlotOf
    <3>3. ~Owns(c)
      BY <1>5, <3>1, <3>2, OneOwner
    <3> QED BY <1>5, <2>2, <2>3, <3>1, <3>2, <3>3 DEF Fenced
  <2>4. CASE Incr(d)
    <3>1. call'[d].token = fence + 1
      BY <2>4 DEF Incr, TypeOK, Call
    <3> QED BY <2>0, <2>2, <3>1 DEF TokensDrawn
  <2>5. CASE IncrError(d)
    BY <1>5, <2>5 DEF IncrError, TypeOK, Call
  <2> QED BY <1>5, <2>1, <2>3, <2>4, <2>5
<1>6. Fenced'
  BY <1>5 DEF Fenced
<1> QED BY <1>1, <1>4, <1>6 DEF FenceInv

(* A Holder that lost its lease has a smaller token than the one that has    *)
(* the key now, for every number of callers and slots and whatever arrives   *)
(* late, where no lease runs out between SETNX and INCR.                     *)
THEOREM TokenFencesLostLease ==
  TTL # 0 /\ "incr" \notin Overrun => (Spec => []Fenced)
<1> SUFFICES ASSUME TTL # 0, "incr" \notin Overrun PROVE Spec => []Fenced
  OBVIOUS
<1>1. Init => FenceInv
  <2> SUFFICES ASSUME Init PROVE FenceInv
    OBVIOUS
  <2>1. LeaseInv
    BY TypeInit DEF Init, LeaseInv, UniqueValues, Active, Idle
  <2>2. \A c \in Callers : call[c].pc = "idle" /\ call[c].token = 0
    BY DEF Init, Idle
  <2> QED BY <2>1, <2>2 DEF Init, FenceInv, DrawsWithKey, TokensDrawn, Fenced, At
<1>2. FenceInv /\ [Next]_vars => FenceInv'
  BY FenceStep
<1>3. FenceInv => Fenced
  BY DEF FenceInv
<1> QED BY <1>1, <1>2, <1>3, PTL DEF Spec
=============================================================================
