------------------------------- MODULE MemLock -------------------------------
(***************************************************************************)
(* The in-memory backend, package memlock: one Factory, the two maps that  *)
(* its mutex guards, the token counters that it does not guard, and the    *)
(* goroutines that acquire names and release Holders.  A Holder may be     *)
(* released by several goroutines at once.                                 *)
(***************************************************************************)
EXTENDS Naturals, FiniteSets

CONSTANTS
    Callers,      \* goroutines that call Acquire
    Releasers,    \* the goroutines that share a Holder and call Release on it
    Names,        \* lock names
    Limit,        \* the WithMaxConcurrent of every name
    NoEntry,      \* "no such key in the map"
    MaxToken      \* bound: no Acquire starts once a counter reached it

VARIABLES
    held,         \* Factory.state: the count of every name, or NoEntry
    tokens,       \* Factory.tokens: the counter of every name; 0 when new
    call,         \* the Acquire in progress, or the Holder, of every caller
    rel           \* what every releaser of every Holder is doing

vars == <<held, tokens, call, rel>>

ASSUME MemAssumption ==
    /\ IsFiniteSet(Callers)
    /\ Limit \in [Names -> Nat \ {0}]
    /\ NoEntry \notin Nat
    /\ MaxToken \in Nat

Call == [pc : {"idle", "enter", "bump", "held", "freed"},
         name : Names, token : Nat, released : BOOLEAN]

TypeOK ==
    /\ held \in [Names -> (Nat \ {0}) \cup {NoEntry}]
    /\ tokens \in [Names -> Nat]
    /\ call \in [Callers -> Call]
    /\ rel \in [Callers -> [Releasers -> {"ready", "won", "done"}]]

Init ==
    /\ held = [n \in Names |-> NoEntry]
    /\ tokens = [n \in Names |-> 0]
    /\ call \in [Callers -> {[pc |-> "idle", name |-> n, token |-> 0, released |-> FALSE] :
                                 n \in Names}]
    /\ rel = [c \in Callers |-> [r \in Releasers |-> "ready"]]

At(c, label) == call[c].pc = label
NameOf(c) == call[c].name
Count(n) == IF held[n] = NoEntry THEN 0 ELSE held[n]

\* Acquire with a context that is not cancelled
Acquire(c, n) ==
    /\ At(c, "idle") /\ tokens[n] < MaxToken
    /\ call' = [call EXCEPT ![c].pc = "enter", ![c].name = n]
    /\ UNCHANGED <<held, tokens, rel>>

TakePlaceOffByOne(c) ==
    /\ At(c, "enter")
    /\ Count(NameOf(c)) =< Limit[NameOf(c)]
    /\ held' = [held EXCEPT ![NameOf(c)] = Count(NameOf(c)) + 1]
    /\ call' = [call EXCEPT ![c].pc = "bump"]
    /\ UNCHANGED <<tokens, rel>>

\* The critical section: there is room, the count goes up.
TakePlace(c) ==
    /\ At(c, "enter")
    /\ Count(NameOf(c)) < Limit[NameOf(c)]
    /\ held' = [held EXCEPT ![NameOf(c)] = Count(NameOf(c)) + 1]
    /\ call' = [call EXCEPT ![c].pc = "bump"]
    /\ UNCHANGED <<tokens, rel>>

RefuseOffByOne(c) ==
    /\ At(c, "enter")
    /\ Count(NameOf(c)) + 1 >= Limit[NameOf(c)]
    /\ call' = [call EXCEPT ![c].pc = "idle"]
    /\ UNCHANGED <<held, tokens, rel>>

\* The critical section: no room, ErrLocked.
Refuse(c) ==
    /\ At(c, "enter")
    /\ Count(NameOf(c)) >= Limit[NameOf(c)]
    /\ call' = [call EXCEPT ![c].pc = "idle"]
    /\ UNCHANGED <<held, tokens, rel>>

\* The counter goes up after the mutex was unlocked; Acquire returns.
Bump(c) ==
    /\ At(c, "bump")
    /\ tokens' = [tokens EXCEPT ![NameOf(c)] = @ + 1]
    /\ call' = [call EXCEPT ![c].pc = "held", ![c].token = tokens[NameOf(c)] + 1]
    /\ UNCHANGED <<held, rel>>

ReleaseUnchecked(c, r) ==
    /\ call[c].pc \in {"held", "freed"} /\ rel[c][r] = "ready"
    /\ call' = [call EXCEPT ![c].released = TRUE]
    /\ rel' = [rel EXCEPT ![c][r] = "won"]
    /\ UNCHANGED <<held, tokens>>

\* Release: one caller wins the compare-and-swap, for the others it is a no-op.
Release(c, r) ==
    /\ call[c].pc \in {"held", "freed"} /\ rel[c][r] = "ready"
    /\ call' = [call EXCEPT ![c].released = TRUE]
    /\ rel' = [rel EXCEPT ![c][r] = IF call[c].released THEN "done" ELSE "won"]
    /\ UNCHANGED <<held, tokens>>

FreePlaceKeepsKey(c, r) ==
    /\ rel[c][r] = "won"
    /\ held' = [held EXCEPT ![NameOf(c)] = IF @ = NoEntry THEN NoEntry ELSE @ - 1]
    /\ rel' = [rel EXCEPT ![c][r] = "done"]
    /\ call' = [call EXCEPT ![c].pc = "freed"]
    /\ UNCHANGED tokens

FreePlaceResets(c, r) ==
    /\ rel[c][r] = "won"
    /\ held' = [held EXCEPT ![NameOf(c)] = IF @ = NoEntry \/ @ =< 1 THEN NoEntry ELSE @ - 1]
    /\ tokens' = [tokens EXCEPT ![NameOf(c)] = IF Count(NameOf(c)) =< 1 THEN 0 ELSE @]
    /\ rel' = [rel EXCEPT ![c][r] = "done"]
    /\ call' = [call EXCEPT ![c].pc = "freed"]

\* The winner's critical section: the count goes down, at zero the key goes.
FreePlace(c, r) ==
    /\ rel[c][r] = "won"
    /\ held' = [held EXCEPT ![NameOf(c)] = IF @ = NoEntry \/ @ =< 1 THEN NoEntry ELSE @ - 1]
    /\ rel' = [rel EXCEPT ![c][r] = "done"]
    /\ call' = [call EXCEPT ![c].pc = "freed"]
    /\ UNCHANGED tokens

\* Nobody uses the released Holder any more; its caller may acquire again.
Forget(c) ==
    /\ At(c, "freed") /\ \A r \in Releasers : rel[c][r] # "won"
    /\ call' = [call EXCEPT ![c].pc = "idle", ![c].token = 0, ![c].released = FALSE]
    /\ rel' = [rel EXCEPT ![c] = [r \in Releasers |-> "ready"]]
    /\ UNCHANGED <<held, tokens>>

Next ==
    \E c \in Callers :
        \/ \E n \in Names : Acquire(c, n)
        \/ TakePlace(c) \/ Refuse(c) \/ Bump(c)
        \/ \E r \in Releasers : Release(c, r) \/ FreePlace(c, r)
        \/ Forget(c)

Spec == Init /\ [][Next]_vars

-----------------------------------------------------------------------------
(* Properties *)

\* The callers that occupy a place of name n
Owners(n) == {c \in Callers : NameOf(c) = n /\ call[c].pc \in {"bump", "held"}}

\* The count in the map is the number of callers that occupy a place, at every
\* moment and however many goroutines release a Holder: with TypeOK, which has
\* no zero counts, the map has no key for a name that nobody occupies.
CountIsHolders == \A n \in Names : Count(n) = Cardinality(Owners(n))

\* At most Limit Holders of a name at any moment.
WithinLimit == \A n \in Names : Cardinality(Owners(n)) =< Limit[n]

\* The token of a singleton Holder is where the counter of its name stands
HolderHasCurrentToken ==
    \A c \in Callers : At(c, "held") /\ Limit[NameOf(c)] = 1
                       => call[c].token = tokens[NameOf(c)] /\ call[c].token > 0

\* In singleton mode the one Holder has the largest token that was ever given,
\* although the counter is incremented outside the mutex and the name's entry in
\* the other map comes and goes: the counter never goes back.
HolderHasNewestToken ==
    /\ []HolderHasCurrentToken
    /\ [][\A n \in Names : tokens'[n] >= tokens[n]]_vars

\* memlock implements the contract of the family for every name, in singleton
\* and in semaphore mode: ErrLocked is answered only when all places are taken.
contractState(n) == [c \in Callers |->
    IF NameOf(c) # n THEN "out"
    ELSE IF call[c].pc = "enter" THEN "trying"
    ELSE IF call[c].pc \in {"bump", "held"} THEN "in"
    ELSE "out"]
Contract(n) == INSTANCE LockSpec WITH N <- Limit[n], state <- contractState(n)
ImplementsContract ==
    /\ \A n \in Names : Contract(n)!Init
    /\ [][\A n \in Names : Contract(n)!Next \/ UNCHANGED contractState(n)]_vars
=============================================================================
