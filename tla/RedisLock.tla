------------------------------ MODULE RedisLock ------------------------------
(***************************************************************************)
(* The Redis backend, package redislock.  One lock name: the lock key of   *)
(* every slot with the value and the time to live that the server keeps,   *)
(* the fence counter, the callers, and the commands that a caller gave up  *)
(* on (its context ended, its connection broke) and that may still reach   *)
(* the server.  The server executes commands and scripts one at a time.    *)
(***************************************************************************)
EXTENDS Naturals, FiniteSets

CONSTANTS
    Callers,    \* callers of Acquire, Extend and Release
    Values,     \* random identifiers; one is drawn again only when forgotten
    NoKey,      \* "no such key"
    N,          \* WithMaxConcurrent
    TTL,        \* WithTTL, in ticks; 0 stores the key without an expiry
    Overrun,    \* the labels of Acquire and of a Holder at which a lease may end
    Faults,     \* what may go wrong: commands fail, processes crash
    MaxFence,   \* bound: no Acquire starts once the counter reached it
    MaxLate     \* bound: the commands in flight without their caller

VARIABLES
    key,      \* of every slot: the value and the ticks left, or NoKey
    fence,    \* the counter <prefix>:<name>:fence
    late,     \* the commands whose caller does not wait for them any more
    call      \* the call that every caller has in progress, or its Holder

vars == <<key, fence, late, call>>

Slots == 0..(N - 1)

Key == [val : Values, left : 0..TTL]        \* left = 0: no expiry
Command == [op : {"setnx", "extend", "release"}, slot : Slots, val : Values]
Call == [pc : {"idle", "setnx", "incr", "held"}, slot : Slots,
         val : Values \cup {NoKey}, token : Nat]

Idle == [pc |-> "idle", slot |-> 0, val |-> NoKey, token |-> 0]

ASSUME RedisAssumption ==
    /\ N \in Nat \ {0}
    /\ TTL \in Nat
    /\ Overrun \subseteq {"incr", "held"}
    /\ Faults \subseteq {"command", "crash"}
    /\ MaxFence \in Nat /\ MaxLate \in Nat
    /\ NoKey \notin Key \cup Values

TypeOK ==
    /\ key \in [Slots -> Key \cup {NoKey}]
    /\ fence \in Nat
    /\ late \subseteq Command
    /\ call \in [Callers -> Call]

Init ==
    /\ key = [s \in Slots |-> NoKey]
    /\ fence = 0
    /\ late = {}
    /\ call = [c \in Callers |-> Idle]

At(c, label) == call[c].pc = label
SlotOf(c) == call[c].slot

\* The key of slot s has value v.
Matches(s, v) == key[s] # NoKey /\ key[s].val = v

\* c set the key of its slot, and did not call Release since.
Active(c) == call[c].pc \in {"incr", "held"}

\* The key is still the one that c set.
Owns(c) == Active(c) /\ Matches(SlotOf(c), call[c].val)

\* randomToken: a value that nobody else knows
Fresh == {v \in Values : /\ \A s \in Slots : ~Matches(s, v)
                         /\ \A c \in Callers : call[c].val # v
                         /\ \A m \in late : m.val # v}

-----------------------------------------------------------------------------
(* The commands, as the server executes them *)

setnxNoTTL(s, v) == key' = IF key[s] = NoKey THEN [key EXCEPT ![s] = [val |-> v, left |-> 0]] ELSE key

\* SET key value NX EX ttl
setnx(s, v) ==
    key' = IF key[s] = NoKey THEN [key EXCEPT ![s] = [val |-> v, left |-> TTL]] ELSE key

releaseUnguarded(s, v) == key' = [key EXCEPT ![s] = NoKey]

\* if GET = value then DEL
releaseScript(s, v) == key' = [key EXCEPT ![s] = IF Matches(s, v) THEN NoKey ELSE @]

extendRestores(s, v) ==
    key' = [key EXCEPT ![s] = IF key[s] = NoKey \/ Matches(s, v) THEN [val |-> v, left |-> TTL] ELSE @]

\* if GET = value then PEXPIRE; to expire in zero milliseconds is to delete
extendScript(s, v) ==
    key' = [key EXCEPT ![s] = IF ~Matches(s, v) THEN @
                              ELSE IF TTL = 0 THEN NoKey
                              ELSE [@ EXCEPT !.left = TTL]]

-----------------------------------------------------------------------------
(* Acquire *)

Acquire(c) ==
    /\ At(c, "idle") /\ fence < MaxFence
    /\ call' = [call EXCEPT ![c].pc = "setnx"]
    /\ UNCHANGED <<key, fence, late>>

\* SETNX answers 1: the key is c's.
SetNX(c) ==
    /\ At(c, "setnx") /\ key[SlotOf(c)] = NoKey
    /\ \E v \in Fresh : /\ setnx(SlotOf(c), v)
                        /\ call' = [call EXCEPT ![c].pc = "incr", ![c].val = v]
    /\ UNCHANGED <<fence, late>>

NextSlotUnbounded(c) == call' = [call EXCEPT ![c].slot = SlotOf(c) + 1]

\* ErrLocked: the next slot, or the answer of Acquire when there is none.
NextSlot(c) ==
    IF SlotOf(c) + 1 \in Slots
    THEN call' = [call EXCEPT ![c].slot = SlotOf(c) + 1]
    ELSE call' = [call EXCEPT ![c] = Idle]

\* SETNX answers 0.
SetNXRefused(c) ==
    /\ At(c, "setnx") /\ key[SlotOf(c)] # NoKey
    /\ NextSlot(c)
    /\ UNCHANGED <<key, fence, late>>

\* A command of c fails: it is not sent, or c gives up on it and the server may
\* get it now, later or never.
GiveUp(op, c, v) ==
    /\ "command" \in Faults
    /\ \/ UNCHANGED late
       \/ /\ Cardinality(late) < MaxLate
          /\ late' = late \cup {[op |-> op, slot |-> SlotOf(c), val |-> v]}
    /\ UNCHANGED <<key, fence>>

\* Acquire returns the error of SETNX.
SetNXError(c) ==
    /\ At(c, "setnx")
    /\ \E v \in Fresh : GiveUp("setnx", c, v)
    /\ call' = [call EXCEPT ![c] = Idle]

IncrReads(c) ==
    /\ At(c, "incr")
    /\ fence' = IF fence = 0 THEN 1 ELSE fence
    /\ call' = [call EXCEPT ![c].pc = "held", ![c].token = IF fence = 0 THEN 1 ELSE fence]
    /\ UNCHANGED <<key, late>>

\* INCR, a command of its own; Acquire returns the Holder.
Incr(c) ==
    /\ At(c, "incr")
    /\ fence' = fence + 1
    /\ call' = [call EXCEPT ![c].pc = "held", ![c].token = fence + 1]
    /\ UNCHANGED <<key, late>>

\* The error of INCR is ignored: token zero, whether the server counted or not.
IncrError(c) ==
    /\ At(c, "incr") /\ "command" \in Faults
    /\ fence' \in {fence, fence + 1}
    /\ call' = [call EXCEPT ![c].pc = "held", ![c].token = 0]
    /\ UNCHANGED <<key, late>>

-----------------------------------------------------------------------------
(* The Holder *)

Extend(c) ==
    /\ At(c, "held")
    /\ extendScript(SlotOf(c), call[c].val)
    /\ UNCHANGED <<fence, late, call>>

ExtendError(c) ==
    /\ At(c, "held")
    /\ GiveUp("extend", c, call[c].val)
    /\ UNCHANGED call

\* Release, or ReleaseContext: nil, or ErrLockLost when the key was not c's.  The
\* next calls on the same Holder answer nil and do nothing: they are no steps.
Release(c) ==
    /\ At(c, "held")
    /\ releaseScript(SlotOf(c), call[c].val)
    /\ call' = [call EXCEPT ![c] = Idle]
    /\ UNCHANGED <<fence, late>>

\* The script fails; the released flag is set, so nobody calls it again.
ReleaseError(c) ==
    /\ At(c, "held")
    /\ GiveUp("release", c, call[c].val)
    /\ call' = [call EXCEPT ![c] = Idle]

-----------------------------------------------------------------------------
(* The server, the clock and the end of a process *)

\* A command reaches the server after its caller gave up on it ...
Deliver(m) ==
    /\ \/ m.op = "setnx" /\ setnx(m.slot, m.val)
       \/ m.op = "extend" /\ extendScript(m.slot, m.val)
       \/ m.op = "release" /\ releaseScript(m.slot, m.val)
    /\ late' = late \ {m}
    /\ UNCHANGED <<fence, call>>

\* ... or never.
Drop(m) == late' = late \ {m} /\ UNCHANGED <<key, fence, call>>

Expires(s) == key[s] # NoKey /\ key[s].left = 1

Aged(k) == IF k = NoKey \/ k.left = 0 THEN k
           ELSE IF k.left = 1 THEN NoKey
           ELSE [k EXCEPT !.left = @ - 1]

\* A tick of the server's clock.  At the labels outside Overrun callers are
\* quick: they get on before their lease runs out.
Tick ==
    /\ \E s \in Slots : key[s] # NoKey /\ key[s].left > 0
    /\ \A c \in Callers : Owns(c) /\ Expires(SlotOf(c)) => call[c].pc \in Overrun
    /\ key' = [s \in Slots |-> Aged(key[s])]
    /\ UNCHANGED <<fence, late, call>>

\* A process dies, of which S are the callers; their keys stay.
Crash(S) ==
    /\ "crash" \in Faults /\ \E c \in S : Active(c)
    /\ call' = [c \in Callers |-> IF c \in S THEN Idle ELSE call[c]]
    /\ UNCHANGED <<key, fence, late>>

Next ==
    \/ \E c \in Callers :
        \/ Acquire(c) \/ SetNX(c) \/ SetNXRefused(c) \/ SetNXError(c)
        \/ Incr(c) \/ IncrError(c)
        \/ Extend(c) \/ ExtendError(c) \/ Release(c) \/ ReleaseError(c)
    \/ \E S \in SUBSET Callers : Crash(S)
    \/ \E m \in late : Deliver(m) \/ Drop(m)
    \/ Tick

Spec == Init /\ [][Next]_vars

-----------------------------------------------------------------------------
(* Properties *)

\* A Holder that did not release loses its key by the clock only, never by a
\* late Release, Extend or SETNX of somebody else, or by its own Extend.
LostOnlyByExpiry ==
    [][\A c \in Callers : Owns(c) /\ call'[c] = call[c] /\ ~Owns(c)' => Expires(SlotOf(c))]_vars

\* A lease that was lost stays lost: a Release that finds its own value proves
\* that nobody else had the key since Acquire.
NeverRegained ==
    [][\A c \in Callers : At(c, "held") /\ ~Owns(c) /\ call'[c] = call[c] => ~Owns(c)']_vars

\* A Holder that lost its lease has a smaller token than the one that has the
\* key now, so that whoever remembers the largest token can reject its writes.
Fenced ==
    \A c, d \in Callers :
        /\ At(c, "held") /\ ~Owns(c) /\ call[c].token # 0
        /\ At(d, "held") /\ Owns(d) /\ call[d].token # 0
        /\ SlotOf(c) = SlotOf(d)
        => call[c].token < call[d].token

\* The key of a Holder that died, of a Release that never arrived or of a SETNX
\* whose answer was lost is free again some time, without anybody's help.
OrphanFreed ==
    \A s \in Slots : (key[s] # NoKey /\ ~\E c \in Callers : Owns(c) /\ SlotOf(c) = s)
                         ~> (key[s] = NoKey \/ \E c \in Callers : Owns(c) /\ SlotOf(c) = s)
=============================================================================
