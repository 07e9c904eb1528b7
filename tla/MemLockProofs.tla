---------------------------- MODULE MemLockProofs ----------------------------
(* Theorems about MemLock for every finite set of callers, every set of     *)
(* names and releasers, and every limit.                                    *)
EXTENDS MemLock, FiniteSetTheorems, TLAPS

(* Every operation of the Factory keeps the maps and the calls well-typed. *)
LEMMA TypeStep ==
  ASSUME TypeOK, [Next]_vars
  PROVE  TypeOK'
<1> USE MemAssumption
<1>1. ASSUME NEW c \in Callers, NEW n \in Names, Acquire(c, n) PROVE TypeOK'
  BY <1>1 DEF Acquire, TypeOK, Call
<1>2. ASSUME NEW c \in Callers, TakePlace(c) PROVE TypeOK'
  <2>1. NameOf(c) \in Names /\ Count(NameOf(c)) + 1 \in Nat \ {0}
    BY DEF Count, NameOf, TypeOK, Call
  <2> QED BY <1>2, <2>1 DEF TakePlace, TypeOK, Call
<1>3. ASSUME NEW c \in Callers, Refuse(c) PROVE TypeOK'
  BY <1>3 DEF Refuse, TypeOK, Call
<1>4. ASSUME NEW c \in Callers, Bump(c) PROVE TypeOK'
  <2>1. NameOf(c) \in Names /\ tokens[NameOf(c)] + 1 \in Nat
    BY DEF NameOf, TypeOK, Call
  <2>2. [call[c] EXCEPT !.pc = "held", !.token = tokens[NameOf(c)] + 1] \in Call
    BY <2>1 DEF TypeOK, Call
  <2>3. call' = [call EXCEPT ![c] = [call[c] EXCEPT !.pc = "held", !.token = tokens[NameOf(c)] + 1]]
    BY <1>4 DEF Bump
  <2>4. call' \in [Callers -> Call]
    BY <2>2, <2>3 DEF TypeOK
  <2>5. tokens' \in [Names -> Nat] /\ held' = held /\ rel' = rel
    BY <1>4, <2>1 DEF Bump, TypeOK
  <2> QED BY <2>4, <2>5 DEF TypeOK
<1>5. ASSUME NEW c \in Callers, NEW r \in Releasers, Release(c, r) PROVE TypeOK'
  <2>1. [call[c] EXCEPT !.released = TRUE] \in Call
    BY DEF TypeOK, Call
  <2>2. call' \in [Callers -> Call] /\ held' = held /\ tokens' = tokens
    BY <1>5, <2>1 DEF Release, TypeOK
  <2>3. rel' \in [Callers -> [Releasers -> {"ready", "won", "done"}]]
    BY <1>5 DEF Release, TypeOK
  <2> QED BY <2>2, <2>3 DEF TypeOK
<1>6. ASSUME NEW c \in Callers, NEW r \in Releasers, FreePlace(c, r) PROVE TypeOK'
  <2>1. PICK k \in Names : k = NameOf(c)
    BY DEF NameOf, TypeOK, Call
  <2>2. (IF held[k] = NoEntry \/ held[k] =< 1 THEN NoEntry ELSE held[k] - 1)
           \in (Nat \ {0}) \cup {NoEntry}
    BY DEF TypeOK
  <2>3. held' \in [Names -> (Nat \ {0}) \cup {NoEntry}]
    BY <1>6, <2>1, <2>2 DEF FreePlace, TypeOK
  <2>4. [call[c] EXCEPT !.pc = "freed"] \in Call
    BY DEF TypeOK, Call
  <2>5. call' \in [Callers -> Call] /\ tokens' = tokens
    BY <1>6, <2>4 DEF FreePlace, TypeOK
  <2>6. rel' \in [Callers -> [Releasers -> {"ready", "won", "done"}]]
    BY <1>6 DEF FreePlace, TypeOK
  <2> QED BY <2>3, <2>5, <2>6 DEF TypeOK
<1>7. ASSUME NEW c \in Callers, Forget(c) PROVE TypeOK'
  <2>1. [call[c] EXCEPT !.pc = "idle", !.token = 0, !.released = FALSE] \in Call
    BY DEF TypeOK, Call
  <2>2. call' \in [Callers -> Call] /\ held' = held /\ tokens' = tokens
    BY <1>7, <2>1 DEF Forget, TypeOK
  <2>3. rel' \in [Callers -> [Releasers -> {"ready", "won", "done"}]]
    BY <1>7 DEF Forget, TypeOK
  <2> QED BY <2>2, <2>3 DEF TypeOK
<1>8. CASE UNCHANGED vars
  BY <1>8 DEF vars, TypeOK
<1> QED BY <1>1, <1>2, <1>3, <1>4, <1>5, <1>6, <1>7, <1>8 DEF Next

(* The empty maps of NewFactory are well-typed. *)
LEMMA TypeInit == Init => TypeOK
<1> SUFFICES ASSUME Init PROVE TypeOK
  OBVIOUS
<1>1. {[pc |-> "idle", name |-> n, token |-> 0, released |-> FALSE] : n \in Names} \subseteq Call
  <2>1. \A n \in Names : [pc |-> "idle", name |-> n, token |-> 0, released |-> FALSE] \in Call
    BY DEF Call
  <2> QED BY <2>1, Zenon
<1>2. call \in [Callers -> Call]
  BY <1>1 DEF Init
<1>3. /\ held \in [Names -> (Nat \ {0}) \cup {NoEntry}] /\ tokens \in [Names -> Nat]
      /\ rel \in [Callers -> [Releasers -> {"ready", "won", "done"}]]
  BY DEF Init
<1> QED BY <1>2, <1>3 DEF TypeOK

(* The maps, the counters and the calls are always well-typed. *)
THEOREM TypeCorrect == Spec => []TypeOK
  BY TypeInit, TypeStep, PTL DEF Spec

-----------------------------------------------------------------------------
(* The compare-and-swap has one winner per Holder, and the winner frees a   *)
(* place that is still occupied.                                            *)

OneWinner ==
  /\ \A c \in Callers : \A r \in Releasers : rel[c][r] = "won" =>
        /\ call[c].pc = "held" /\ call[c].released
        /\ \A q \in Releasers : rel[c][q] = "won" => q = r
  /\ \A c \in Callers : call[c].pc = "freed" => call[c].released

(* No two releasers win, and nobody wins after the place was freed. *)
LEMMA OneWinnerStep ==
  ASSUME TypeOK, OneWinner, [Next]_vars
  PROVE  OneWinner'
<1>1. ASSUME NEW c \in Callers, rel' = rel, \A d \in Callers \ {c} : call'[d] = call[d],
             call[c].pc # "held", call'[c].pc # "freed"
      PROVE  OneWinner'
  BY <1>1 DEF OneWinner
<1>2. ASSUME NEW c \in Callers, NEW n \in Names, Acquire(c, n) PROVE OneWinner'
  BY <1>2, <1>1 DEF Acquire, At, TypeOK, Call
<1>3. ASSUME NEW c \in Callers, TakePlace(c) \/ Refuse(c) \/ Bump(c) PROVE OneWinner'
  BY <1>3, <1>1 DEF TakePlace, Refuse, Bump, At, TypeOK, Call
<1>4. ASSUME NEW c \in Callers, NEW r \in Releasers, Release(c, r) PROVE OneWinner'
  <2>1. /\ \A d \in Callers \ {c} : call'[d] = call[d] /\ rel'[d] = rel[d]
        /\ call'[c].pc = call[c].pc /\ call'[c].released
        /\ \A q \in Releasers \ {r} : rel'[c][q] = rel[c][q]
        /\ rel'[c][r] = IF call[c].released THEN "done" ELSE "won"
    BY <1>4 DEF Release, TypeOK, Call
  <2>2. ASSUME ~call[c].released
        PROVE  call[c].pc = "held" /\ \A q \in Releasers : rel[c][q] # "won"
    BY <1>4, <2>2 DEF Release, OneWinner
  <2> QED BY <2>1, <2>2 DEF OneWinner
<1>5. ASSUME NEW c \in Callers, NEW r \in Releasers, FreePlace(c, r) PROVE OneWinner'
  <2>1. /\ \A d \in Callers \ {c} : call'[d] = call[d] /\ rel'[d] = rel[d]
        /\ call'[c].pc = "freed" /\ call'[c].released = call[c].released
        /\ \A q \in Releasers \ {r} : rel'[c][q] = rel[c][q]
        /\ rel'[c][r] = "done" /\ rel[c][r] = "won"
    BY <1>5 DEF FreePlace, TypeOK, Call
  <2> QED BY <2>1 DEF OneWinner
<1>6. ASSUME NEW c \in Callers, Forget(c) PROVE OneWinner'
  <2>1. /\ \A d \in Callers \ {c} : call'[d] = call[d] /\ rel'[d] = rel[d]
        /\ call'[c].pc = "idle" /\ \A q \in Releasers : rel'[c][q] = "ready"
    BY <1>6 DEF Forget, TypeOK, Call
  <2> QED BY <2>1 DEF OneWinner
<1>7. CASE UNCHANGED vars
  BY <1>7 DEF vars, OneWinner
<1> QED BY <1>2, <1>3, <1>4, <1>5, <1>6, <1>7 DEF Next

-----------------------------------------------------------------------------
(* The count is the number of owners. *)

(* Owners can be counted. *)
LEMMA OwnersFinite ==
  \A n \in Names : IsFiniteSet(Owners(n)) /\ Cardinality(Owners(n)) \in Nat
<1> SUFFICES ASSUME NEW n \in Names
             PROVE  IsFiniteSet(Owners(n)) /\ Cardinality(Owners(n)) \in Nat
  OBVIOUS
<1>1. Owners(n) \in SUBSET Callers
  BY DEF Owners
<1> QED BY <1>1, MemAssumption, FS_Subset, FS_CardinalityType

(* A caller that takes a place is one owner more. *)
LEMMA OwnerComes ==
  ASSUME NEW S, NEW T, NEW c, IsFiniteSet(S), c \notin S, T = S \cup {c}
  PROVE  Cardinality(T) = Cardinality(S) + 1
  BY FS_AddElement

(* A winner that frees its place is one owner less. *)
LEMMA OwnerGoes ==
  ASSUME NEW S, NEW T, NEW c, IsFiniteSet(S), c \in S, T = S \ {c}
  PROVE  Cardinality(T) = Cardinality(S) - 1 /\ Cardinality(S) # 0
  BY FS_RemoveElement, FS_EmptySet

MemInv == TypeOK /\ OneWinner /\ CountIsHolders /\ WithinLimit /\ HolderHasCurrentToken

(* A step that leaves the owners, the counts and the owners' tokens alone.  *)
LEMMA QuietStep ==
  ASSUME MemInv, TypeOK', OneWinner', NEW c \in Callers,
         held' = held, tokens' = tokens,
         \A d \in Callers \ {c} : call'[d] = call[d],
         \/ call[c].pc \notin {"bump", "held"} /\ call'[c].pc \notin {"bump", "held"}
         \/ call'[c].pc = call[c].pc /\ call'[c].name = call[c].name
            /\ call'[c].token = call[c].token
  PROVE  MemInv'
<1>1. \A n \in Names : Owners(n)' = Owners(n)
  BY DEF Owners, NameOf
<1>2. CountIsHolders' /\ WithinLimit'
  BY <1>1 DEF MemInv, CountIsHolders, WithinLimit, Count
<1>3. HolderHasCurrentToken'
  BY DEF MemInv, HolderHasCurrentToken, At, NameOf
<1> QED BY <1>2, <1>3 DEF MemInv

(* A step that changes the owners and the count of one name, k, by as much. *)
LEMMA CountStep ==
  ASSUME CountIsHolders, TypeOK', NEW k \in Names,
         \A n \in Names \ {k} : Owners(n)' = Owners(n) /\ held'[n] = held[n],
         \/ held'[k] = Cardinality(Owners(k)') /\ held'[k] \in Nat
         \/ held'[k] = NoEntry /\ Cardinality(Owners(k)') = 0
  PROVE  CountIsHolders'
<1> SUFFICES ASSUME NEW n \in Names
             PROVE  (IF held'[n] = NoEntry THEN 0 ELSE held'[n]) = Cardinality(Owners(n)')
  BY DEF CountIsHolders, Count
<1>1. CASE n = k
  BY <1>1, MemAssumption
<1>2. CASE n # k
  BY <1>2 DEF CountIsHolders, Count
<1> QED BY <1>1, <1>2

(* Every step preserves the inductive invariant. *)
LEMMA MemStep ==
  ASSUME MemInv, [Next]_vars
  PROVE  MemInv'
<1>0. TypeOK /\ TypeOK' /\ OneWinner /\ OneWinner'
  BY TypeStep, OneWinnerStep DEF MemInv
<1> USE <1>0, MemAssumption
<1>1. ASSUME NEW c \in Callers, NEW n \in Names, Acquire(c, n) PROVE MemInv'
  BY <1>1, QuietStep DEF Acquire, At, TypeOK, Call
<1>2. ASSUME NEW c \in Callers, TakePlace(c) PROVE MemInv'
  <2>0. PICK k \in Names : k = call[c].name
    BY DEF TypeOK, Call
  <2>1. /\ \A d \in Callers \ {c} : call'[d] = call[d]
        /\ call[c].pc = "enter" /\ call'[c].pc = "bump" /\ call'[c].name = k /\ k \in Names
    BY <2>0, <1>2 DEF TakePlace, At, NameOf, TypeOK, Call
  <2>2. Owners(k)' = Owners(k) \cup {c} /\ c \notin Owners(k)
    BY <2>0, <2>1 DEF Owners, NameOf
  <2>3. \A n \in Names \ {k} : Owners(n)' = Owners(n)
    BY <2>0, <2>1 DEF Owners, NameOf
  <2>4. Cardinality(Owners(k)') = Cardinality(Owners(k)) + 1
    BY <2>2, OwnersFinite, OwnerComes
  <2>5. /\ held'[k] = Cardinality(Owners(k)) + 1
        /\ \A n \in Names \ {k} : held'[n] = held[n]
    BY <1>2, <2>0 DEF TakePlace, MemInv, CountIsHolders, TypeOK, NameOf
  <2>6. Cardinality(Owners(k)) < Limit[k]
    BY <1>2, <2>0 DEF TakePlace, MemInv, CountIsHolders, NameOf
  <2>7. Cardinality(Owners(k)) \in Nat /\ Limit[k] \in Nat
    BY <2>1, OwnersFinite
  <2>8. CountIsHolders'
    BY <2>3, <2>4, <2>5, <2>7, CountStep DEF MemInv
  <2>9. WithinLimit'
    <3>1. Cardinality(Owners(k)') =< Limit[k]
      BY <2>4, <2>6, <2>7
    <3> QED BY <2>3, <3>1 DEF MemInv, WithinLimit
  <2>10. HolderHasCurrentToken'
    BY <1>2, <2>1 DEF TakePlace, MemInv, HolderHasCurrentToken, At, NameOf
  <2> QED BY <2>8, <2>9, <2>10 DEF MemInv
<1>3. ASSUME NEW c \in Callers, Refuse(c) PROVE MemInv'
  BY <1>3, QuietStep DEF Refuse, At, TypeOK, Call
<1>4. ASSUME NEW c \in Callers, Bump(c) PROVE MemInv'
  <2>0. PICK k \in Names : k = call[c].name
    BY DEF TypeOK, Call
  <2>1. /\ \A d \in Callers \ {c} : call'[d] = call[d]
        /\ call[c].pc = "bump" /\ call'[c].pc = "held" /\ call'[c].name = k /\ k \in Names
        /\ call'[c].token = tokens[k] + 1
    BY <2>0, <1>4 DEF Bump, At, NameOf, TypeOK, Call
  <2>2. \A n \in Names : Owners(n)' = Owners(n)
    BY <2>0, <2>1 DEF Owners, NameOf
  <2>3. CountIsHolders' /\ WithinLimit'
    BY <1>4, <2>2 DEF Bump, MemInv, CountIsHolders, WithinLimit, Count
  <2>4. tokens'[k] = tokens[k] + 1 /\ \A n \in Names \ {k} : tokens'[n] = tokens[n]
    BY <1>4, <2>0 DEF Bump, TypeOK, NameOf
  \* the place is the only one: nobody else holds a token of this name
  <2>5. ASSUME NEW d \in Callers, d # c, call[d].pc = "held", call[d].name = k, Limit[k] = 1
        PROVE  FALSE
    <3>1. {c, d} \subseteq Owners(k)
      BY <2>0, <2>1, <2>5 DEF Owners, NameOf
    <3>2. Cardinality(Owners(k)) = 1
      BY <2>1, <2>5, <3>1, OwnersFinite, FS_EmptySet DEF MemInv, WithinLimit
    <3> QED BY <2>1, <2>5, <3>1, <3>2, OwnersFinite, FS_Singleton
  <2>6. HolderHasCurrentToken'
    <3> SUFFICES ASSUME NEW d \in Callers, call'[d].pc = "held", Limit[call'[d].name] = 1
                 PROVE  /\ call'[d].token = tokens'[call'[d].name] /\ call'[d].token > 0
      BY DEF HolderHasCurrentToken, At, NameOf
    <3>1. CASE d = c
      BY <2>1, <2>4, <3>1 DEF TypeOK
    <3>2. CASE d # c
      <4>1. call'[d] = call[d] /\ call[d].name \in Names /\ call[d].name # k
        BY <2>1, <2>5, <3>2 DEF TypeOK, Call
      <4> QED BY <2>4, <4>1 DEF MemInv, HolderHasCurrentToken, At, NameOf
    <3> QED BY <3>1, <3>2
  <2> QED BY <2>3, <2>6 DEF MemInv
<1>5. ASSUME NEW c \in Callers, NEW r \in Releasers, Release(c, r) PROVE MemInv'
  BY <1>5, QuietStep DEF Release, TypeOK, Call
<1>6. ASSUME NEW c \in Callers, NEW r \in Releasers, FreePlace(c, r) PROVE MemInv'
  <2>0. PICK k \in Names : k = call[c].name
    BY DEF TypeOK, Call
  <2>1. /\ \A d \in Callers \ {c} : call'[d] = call[d]
        /\ call[c].pc = "held" /\ call'[c].pc = "freed" /\ call'[c].name = k /\ k \in Names
    <3>1. call[c].pc = "held"
      BY <1>6 DEF FreePlace, OneWinner
    <3>2. call' = [call EXCEPT ![c].pc = "freed"]
      BY <1>6 DEF FreePlace
    <3> QED BY <2>0, <3>1, <3>2 DEF TypeOK, Call
  <2>2. Owners(k)' = Owners(k) \ {c} /\ c \in Owners(k)
    <3>1. c \in Owners(k) /\ c \notin Owners(k)'
      BY <2>0, <2>1 DEF Owners, NameOf
    <3>2. \A d \in Callers \ {c} : d \in Owners(k)' <=> d \in Owners(k)
      BY <2>1 DEF Owners, NameOf
    <3>3. Owners(k) \subseteq Callers /\ Owners(k)' \subseteq Callers
      BY DEF Owners
    <3> QED BY <3>1, <3>2, <3>3
  <2>3. \A n \in Names \ {k} : Owners(n)' = Owners(n)
    BY <2>0, <2>1 DEF Owners, NameOf
  <2>4. Cardinality(Owners(k)') = Cardinality(Owners(k)) - 1
    BY <2>2, OwnersFinite, OwnerGoes
  <2>5. Cardinality(Owners(k)) \in Nat /\ Cardinality(Owners(k)) # 0 /\ Limit[k] \in Nat
    BY <2>2, OwnersFinite, OwnerGoes
  <2>6. held[k] = Cardinality(Owners(k))
    BY <2>1, <2>5 DEF MemInv, CountIsHolders, Count
  <2>7. /\ held'[k] = IF held[k] =< 1 THEN NoEntry ELSE held[k] - 1
        /\ \A n \in Names \ {k} : held'[n] = held[n]
    BY <1>6, <2>0, <2>5, <2>6 DEF FreePlace, TypeOK, NameOf
  <2>8. CountIsHolders'
    BY <2>3, <2>4, <2>5, <2>6, <2>7, CountStep DEF MemInv
  <2>9. WithinLimit'
    <3>1. Cardinality(Owners(k)) =< Limit[k]
      BY <2>1 DEF MemInv, WithinLimit
    <3>2. Cardinality(Owners(k)') =< Limit[k]
      BY <2>4, <2>5, <3>1
    <3> QED BY <2>3, <3>2 DEF MemInv, WithinLimit
  <2>10. HolderHasCurrentToken'
    BY <1>6, <2>1 DEF FreePlace, MemInv, HolderHasCurrentToken, At, NameOf
  <2> QED BY <2>8, <2>9, <2>10 DEF MemInv
<1>7. ASSUME NEW c \in Callers, Forget(c) PROVE MemInv'
  BY <1>7, QuietStep DEF Forget, At, TypeOK, Call
<1>8. CASE UNCHANGED vars
  BY <1>8 DEF vars, MemInv, CountIsHolders, WithinLimit, HolderHasCurrentToken, Count,
     Owners, At, NameOf
<1> QED BY <1>1, <1>2, <1>3, <1>4, <1>5, <1>6, <1>7, <1>8 DEF Next

(* It holds when the Factory is new. *)
LEMMA MemInit == Init => MemInv
<1> SUFFICES ASSUME Init PROVE MemInv
  OBVIOUS
<1>1. \A c \in Callers : call[c].pc = "idle"
  BY DEF Init
<1>2. \A n \in Names : Owners(n) = {}
  BY <1>1 DEF Owners
<1>3. \A n \in Names : Cardinality(Owners(n)) = 0 /\ held[n] = NoEntry
  BY <1>2, FS_EmptySet DEF Init
<1>4. CountIsHolders /\ WithinLimit
  BY <1>3, MemAssumption DEF CountIsHolders, WithinLimit, Count
<1>5. OneWinner /\ HolderHasCurrentToken
  BY <1>1 DEF Init, OneWinner, HolderHasCurrentToken, At
<1> QED BY <1>4, <1>5, TypeInit DEF MemInv

(* The count in the map is the number of occupied places, however many      *)
(* goroutines release the same Holder, and never exceeds the limit.         *)
THEOREM CountCorrect == Spec => [](CountIsHolders /\ WithinLimit)
<1>1. MemInv => CountIsHolders /\ WithinLimit
  BY DEF MemInv
<1> QED BY MemInit, MemStep, <1>1, PTL DEF Spec

(* WithMaxConcurrent(n): at no moment do more than Limit[n] callers occupy a *)
(* place of a name, from the critical section of their Acquire to that of    *)
(* the Release that wins.                                                    *)
THEOREM LimitKept == Spec => []WithinLimit
<1>1. MemInv => WithinLimit
  BY DEF MemInv
<1> QED BY MemInit, MemStep, <1>1, PTL DEF Spec

(* No step turns a token counter back. *)
LEMMA TokensGrow ==
  ASSUME TypeOK, [Next]_vars
  PROVE  [\A n \in Names : tokens'[n] >= tokens[n]]_vars
<1> SUFFICES ASSUME NEW n \in Names, Next PROVE tokens'[n] >= tokens[n]
  OBVIOUS
<1>0. tokens[n] \in Nat
  BY DEF TypeOK
<1>1. ASSUME NEW c \in Callers, Bump(c) PROVE tokens'[n] >= tokens[n]
  BY <1>0, <1>1 DEF Bump, TypeOK
<1>2. CASE UNCHANGED tokens
  BY <1>0, <1>2
<1> QED BY <1>1, <1>2 DEF Next, Acquire, TakePlace, Refuse, Release, FreePlace, Forget

(* The singleton Holder has the largest token of its name that was ever given. *)
THEOREM NewestToken == Spec => HolderHasNewestToken
<1>1. MemInv => HolderHasCurrentToken /\ TypeOK
  BY DEF MemInv
<1>2. MemInv /\ [Next]_vars => [\A n \in Names : tokens'[n] >= tokens[n]]_vars
  BY <1>1, TokensGrow
<1> QED BY MemInit, MemStep, <1>1, <1>2, PTL DEF Spec, HolderHasNewestToken

-----------------------------------------------------------------------------
(* The refinement.  A name sees a caller as "trying" inside its critical      *)
(* section and as "in" from there to the winner's; CountIsHolders makes the   *)
(* count that TakePlace and Refuse test the number of callers that are "in".  *)

(* The state that a name has of a caller. *)
Seen(n, r) == IF r.name # n THEN "out"
              ELSE IF r.pc = "enter" THEN "trying"
              ELSE IF r.pc \in {"bump", "held"} THEN "in"
              ELSE "out"

(* A step of one caller changes the state of that caller only. *)
LEMMA ContractUpdate ==
  ASSUME NEW n \in Names, NEW c \in Callers,
         \A d \in Callers \ {c} : call'[d] = call[d]
  PROVE  /\ contractState(n)[c] = Seen(n, call[c])
         /\ contractState(n)' = [contractState(n) EXCEPT ![c] = Seen(n, call'[c])]
<1>1. contractState(n) = [d \in Callers |-> Seen(n, call[d])]
  BY DEF contractState, Seen, NameOf
<1>2. contractState(n)' = [d \in Callers |-> Seen(n, call'[d])]
  BY DEF contractState, Seen, NameOf
<1> HIDE DEF Seen
<1> QED BY <1>1, <1>2

(* The callers that are "in" are the owners. *)
LEMMA InIsOwners ==
  ASSUME NEW n \in Names
  PROVE  Contract(n)!In = Owners(n)
  BY DEF Contract!In, contractState, Owners, NameOf

(* The contract's Cardinality, an instance of FiniteSets, is the same one. *)
LEMMA SameCardinality ==
  ASSUME NEW n \in Names, NEW S
  PROVE  Contract(n)!Cardinality(S) = Cardinality(S)
  BY DEF Cardinality, Contract!Cardinality

(* Every step of the Factory is a step of the contract of each name, or none *)
(* that it can see.                                                          *)
LEMMA ContractStep ==
  ASSUME MemInv, [Next]_vars, NEW n \in Names
  PROVE  Contract(n)!Next \/ UNCHANGED contractState(n)
<1>0. TypeOK /\ OneWinner /\ \A c \in Callers : call[c] \in Call
  BY DEF MemInv, TypeOK
<1> USE <1>0
<1>1. Contract(n)!Cardinality(Contract(n)!In) = Count(n)
  BY InIsOwners, SameCardinality DEF MemInv, CountIsHolders
<1>2. ASSUME NEW c \in Callers, \A d \in Callers \ {c} : call'[d] = call[d],
             Seen(n, call'[c]) = Seen(n, call[c])
      PROVE  UNCHANGED contractState(n)
  <2>1. contractState(n) = [contractState(n) EXCEPT ![c] = contractState(n)[c]]
    BY DEF contractState
  <2> QED BY <1>2, <2>1, ContractUpdate
<1>3. ASSUME NEW c \in Callers, NEW m \in Names, Acquire(c, m)
      PROVE  Contract(n)!Next \/ UNCHANGED contractState(n)
  <2>1. /\ \A d \in Callers \ {c} : call'[d] = call[d]
        /\ call[c].pc = "idle" /\ call'[c].pc = "enter" /\ call'[c].name = m
    BY <1>3 DEF Acquire, At, TypeOK, Call
  <2>2. CASE m = n
    <3>1. Seen(n, call[c]) = "out" /\ Seen(n, call'[c]) = "trying"
      BY <2>1, <2>2 DEF Seen
    <3>2. Contract(n)!Call(c)
      BY <2>1, <3>1, ContractUpdate DEF Contract!Call
    <3> QED BY <3>2 DEF Contract!Next
  <2>3. CASE m # n
    BY <2>1, <2>3, <1>2 DEF Seen
  <2> QED BY <2>2, <2>3
<1>4. ASSUME NEW c \in Callers, TakePlace(c)
      PROVE  Contract(n)!Next \/ UNCHANGED contractState(n)
  <2>1. /\ \A d \in Callers \ {c} : call'[d] = call[d]
        /\ call[c].pc = "enter" /\ call'[c].pc = "bump" /\ call'[c].name = call[c].name
    BY <1>4 DEF TakePlace, At, TypeOK, Call
  <2>2. CASE call[c].name = n
    <3>1. Seen(n, call[c]) = "trying" /\ Seen(n, call'[c]) = "in"
      BY <2>1, <2>2 DEF Seen
    <3>2. Contract(n)!Cardinality(Contract(n)!In) < Limit[n]
      BY <1>1, <1>4, <2>2 DEF TakePlace, NameOf
    <3>3. Contract(n)!Grant(c)
      BY <2>1, <3>1, <3>2, ContractUpdate DEF Contract!Grant
    <3> QED BY <3>3 DEF Contract!Next
  <2>3. CASE call[c].name # n
    BY <2>1, <2>3, <1>2 DEF Seen
  <2> QED BY <2>2, <2>3
<1>5. ASSUME NEW c \in Callers, Refuse(c)
      PROVE  Contract(n)!Next \/ UNCHANGED contractState(n)
  <2>1. /\ \A d \in Callers \ {c} : call'[d] = call[d]
        /\ call[c].pc = "enter" /\ call'[c].pc = "idle" /\ call'[c].name = call[c].name
    BY <1>5 DEF Refuse, At, TypeOK, Call
  <2>2. CASE call[c].name = n
    <3>1. Seen(n, call[c]) = "trying" /\ Seen(n, call'[c]) = "out"
      BY <2>1, <2>2 DEF Seen
    <3>2. Contract(n)!Cardinality(Contract(n)!In) >= Limit[n]
      BY <1>1, <1>5, <2>2 DEF Refuse, NameOf
    <3>3. Contract(n)!Refuse(c)
      BY <2>1, <3>1, <3>2, ContractUpdate DEF Contract!Refuse
    <3> QED BY <3>3 DEF Contract!Next
  <2>3. CASE call[c].name # n
    BY <2>1, <2>3, <1>2 DEF Seen
  <2> QED BY <2>2, <2>3
<1>6. ASSUME NEW c \in Callers, Bump(c)
      PROVE  UNCHANGED contractState(n)
  <2>1. /\ \A d \in Callers \ {c} : call'[d] = call[d]
        /\ call[c].pc = "bump" /\ call'[c].pc = "held" /\ call'[c].name = call[c].name
    BY <1>6 DEF Bump, At, TypeOK, Call
  <2> QED BY <2>1, <1>2 DEF Seen
<1>7. ASSUME NEW c \in Callers, NEW r \in Releasers, Release(c, r)
      PROVE  UNCHANGED contractState(n)
  <2>1. /\ \A d \in Callers \ {c} : call'[d] = call[d]
        /\ call'[c].pc = call[c].pc /\ call'[c].name = call[c].name
    BY <1>7 DEF Release, TypeOK, Call
  <2> QED BY <2>1, <1>2 DEF Seen
<1>8. ASSUME NEW c \in Callers, NEW r \in Releasers, FreePlace(c, r)
      PROVE  Contract(n)!Next \/ UNCHANGED contractState(n)
  <2>0. call[c].pc = "held" /\ call' = [call EXCEPT ![c].pc = "freed"]
    BY <1>8 DEF FreePlace, OneWinner
  <2>1. /\ \A d \in Callers \ {c} : call'[d] = call[d]
        /\ call'[c].pc = "freed" /\ call'[c].name = call[c].name
    BY <2>0 DEF TypeOK, Call
  <2>2. CASE call[c].name = n
    <3>1. Seen(n, call[c]) = "in" /\ Seen(n, call'[c]) = "out"
      BY <2>0, <2>1, <2>2 DEF Seen
    <3>2. Contract(n)!Release(c)
      BY <2>1, <3>1, ContractUpdate DEF Contract!Release
    <3> QED BY <3>2 DEF Contract!Next
  <2>3. CASE call[c].name # n
    BY <2>1, <2>3, <1>2 DEF Seen
  <2> QED BY <2>2, <2>3
<1>9. ASSUME NEW c \in Callers, Forget(c)
      PROVE  UNCHANGED contractState(n)
  <2>1. /\ \A d \in Callers \ {c} : call'[d] = call[d]
        /\ call[c].pc = "freed" /\ call'[c].pc = "idle" /\ call'[c].name = call[c].name
    BY <1>9 DEF Forget, At, TypeOK, Call
  <2> QED BY <2>1, <1>2 DEF Seen
<1>10. CASE UNCHANGED vars
  BY <1>10 DEF vars, contractState, NameOf
<1> QED BY <1>3, <1>4, <1>5, <1>6, <1>7, <1>8, <1>9, <1>10 DEF Next

(* A new Factory is the contract's initial state for every name. *)
LEMMA ContractInit ==
  ASSUME Init, NEW n \in Names
  PROVE  Contract(n)!Init
<1>1. \A c \in Callers : call[c].pc = "idle"
  BY DEF Init
<1> QED BY <1>1 DEF Contract!Init, contractState

(* For every name memlock implements the contract of the family: a non-blocking *)
(* semaphore of Limit[n] places, in which a place is given only when one is     *)
(* free, ErrLocked is answered only when none is, and however many goroutines   *)
(* release a Holder, one place comes back.                                      *)
THEOREM MemLockIsASemaphore == Spec => ImplementsContract
<1>1. Init => \A n \in Names : Contract(n)!Init
  BY ContractInit
<1>2. MemInv /\ [Next]_vars =>
        [\A n \in Names : Contract(n)!Next \/ UNCHANGED contractState(n)]_vars
  BY ContractStep
<1> QED BY MemInit, MemStep, <1>1, <1>2, PTL DEF Spec, ImplementsContract
=============================================================================
