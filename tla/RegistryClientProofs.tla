------------------------- MODULE RegistryClientProofs -------------------------
(***************************************************************************)
(* The circuit breaker of RegistryClient is earned, and its calls keep     *)
(* what RemoteCall promises their callers, for any number of calls, tries, *)
(* renewals and sessions, and any threshold.                               *)
(***************************************************************************)
EXTENDS RegistryClient, FiniteSetTheorems, TLAPS

Where == {"start", "login", "asking", "sending", "givenUp", "counting"} \cup Over

Typed ==
    /\ pc \in [Calls -> Where]
    /\ client \in [Calls -> Client]
    /\ cookies \in Sessions \cup {None}
    /\ kept \in [Otps -> Sessions \cup {None}]
    /\ fails \in Nat /\ breaker \in BOOLEAN
    /\ logins \in 0..MaxLogins

(* The calls that gave up and were counted: a call stays one of them.      *)
Unreachable == {c \in Calls : pc[c] = "unreachable"}

(* What stands in Redis, and what a call has read of it, is covered by     *)
(* calls counted before.                                                   *)
Covered ==
    /\ fails <= Cardinality(Unreachable)
    /\ breaker => Cardinality(Unreachable) >= Threshold
    /\ \A c \in Calls : pc[c] = "counting" => client[c].noted <= Cardinality(Unreachable)

LEMMA UnreachableFinite == IsFiniteSet(Unreachable) /\ Cardinality(Unreachable) \in Nat
<1>1. IsFiniteSet(Calls)
  BY ClientAssumption
<1>2. Unreachable \subseteq Calls
  BY DEF Unreachable
<1>3. IsFiniteSet(Unreachable)
  BY <1>1, <1>2, FS_Subset
<1> QED BY <1>3, FS_CardinalityType

LEMMA FreshTyped == ASSUME NEW c \in Calls PROVE Fresh(c) \in Client /\ Fresh(c).noted = 0
  BY ClientAssumption DEF Fresh, Client

(* A call that goes on to its own request, or ends.                        *)
LEMMA ProceedTyped ==
    ASSUME Typed, NEW c \in Calls, Proceed(c), pc[c] \in {"asking", "sending"}
    PROVE  /\ pc' \in [Calls -> Where] /\ client' \in [Calls -> Client]
           /\ kept' \in [Otps -> Sessions \cup {None}]
           /\ pc'[c] \in {"asking", "done"}
           /\ \A d \in Calls \ {c} : pc'[d] = pc[d] /\ client'[d] = client[d]
<1>1. CASE client[c].leg = "farmer"
  <2> DEFINE r == [client[c] EXCEPT !.leg = "own", !.tries = 0]
  <2>1. /\ client' = [client EXCEPT ![c] = r]
        /\ pc' = [pc EXCEPT ![c] = "asking"] /\ kept' = kept
    BY <1>1 DEF Proceed, Goto
  <2>2. 0 \in 0..(MaxTries - 1)
    BY ClientAssumption
  <2>3. client[c] \in Client
    BY DEF Typed
  <2>4. r \in Client
    BY <2>2, <2>3 DEF Client
  <2> HIDE DEF r
  <2> QED BY <2>1, <2>4 DEF Typed, Where
<1>2. CASE client[c].leg = "own"
  <2>1. client' = [client EXCEPT ![c] = Fresh(c)] /\ pc' = [pc EXCEPT ![c] = "done"]
        /\ kept' = IF c \in Otps THEN [kept EXCEPT ![c] = client[c].session] ELSE kept
    BY <1>2 DEF Proceed, End, Goto
  <2>2. client[c].session \in Sessions \cup {None}
    BY DEF Typed, Client
  <2> QED BY <2>1, <2>2, FreshTyped DEF Typed, Where, Over
<1> QED BY <1>1, <1>2 DEF Typed, Client

(* A step of a call that counts nothing: it is typed, nobody else moves,   *)
(* and what is noted is what stands.                                       *)
Quiet(c) ==
    /\ Typed'
    /\ pc[c] # "unreachable" /\ pc'[c] # "unreachable"
    /\ \A d \in Calls \ {c} : pc'[d] = pc[d] /\ client'[d] = client[d]
    /\ pc'[c] = "counting" => client'[c].noted = fails
    /\ fails' \in {0, fails} /\ breaker' = breaker

(* Every step of a call but the last one of a call that gave up is quiet.  *)
LEMMA QuietSteps ==
    ASSUME Typed, NEW c \in Calls, Step(c), ~CountFailure(c)
    PROVE  Quiet(c)
<1>1. client[c] \in Client /\ 0 \in 0..(MaxTries - 1) /\ 0 \in Nat
  BY ClientAssumption DEF Typed
<1>2. CASE Build(c)
  <2> DEFINE own  == KeptFor(c)
             used == IF own # None THEN own ELSE cookies
             r    == [client[c] EXCEPT !.bound = own # None, !.session = used]
             at   == IF used = None THEN "login" ELSE "asking"
  <2>1. own \in Sessions \cup {None}
    BY ClientAssumption DEF KeptFor, Typed
  <2>2. used \in Sessions \cup {None}
    BY <2>1 DEF Typed
  <2>3. client' = [client EXCEPT ![c] = r] /\ pc' = [pc EXCEPT ![c] = at] /\ pc[c] = "start"
    BY <1>2 DEF Build, Goto
  <2>4. UNCHANGED <<cookies, kept, fails, breaker, logins>>
    BY <1>2 DEF Build, redisVars, registry
  <2> HIDE DEF own, used
  <2>5. r \in Client
    BY <1>1, <2>2 DEF Client
  <2>6. at \in {"login", "asking"}
    OBVIOUS
  <2> HIDE DEF r, at
  <2> QED BY <2>3, <2>4, <2>5, <2>6 DEF Quiet, Typed, Where
<1>3. CASE Login(c)
  <2>0. pc[c] = "login" /\ UNCHANGED <<kept, fails, breaker>>
    BY <1>3 DEF Login
  <2>1. CASE /\ logins < MaxLogins /\ logins' = logins + 1
             /\ client' = [client EXCEPT ![c].session = logins'] /\ cookies' = logins'
             /\ pc' = [pc EXCEPT ![c] = "asking"]
    <3> DEFINE r == [client[c] EXCEPT !.session = logins']
    <3>1. logins' \in 1..MaxLogins
      BY <2>1, ClientAssumption DEF Typed
    <3>2. r \in Client
      BY <1>1, <3>1 DEF Client, Sessions
    <3>3. client' = [client EXCEPT ![c] = r]
      BY <2>1
    <3> HIDE DEF r
    <3> QED BY <2>0, <2>1, <3>1, <3>2, <3>3 DEF Quiet, Typed, Where, Sessions
  <2>2. CASE End(c, "failed") /\ UNCHANGED <<logins, cookies>>
    BY <2>0, <2>2, FreshTyped DEF End, Goto, Quiet, Typed, Where, Over
  <2> QED BY <1>3, <2>1, <2>2 DEF Login, Goto
<1>4. CASE Remember(c)
  <2>1. pc[c] = "asking" /\ Proceed(c) /\ UNCHANGED <<cookies, fails, breaker, logins>>
    BY <1>4 DEF Remember, registry
  <2> QED BY <2>1, ProceedTyped DEF Quiet, Typed
<1>5. CASE CheckBreaker(c)
  <2>0. pc[c] = "asking" /\ UNCHANGED <<cookies, kept, fails, breaker, logins>>
    BY <1>5 DEF CheckBreaker, redisVars, registry
  <2>1. CASE End(c, "failed")
    BY <2>0, <2>1, FreshTyped DEF End, Goto, Quiet, Typed, Where, Over
  <2>2. CASE client' = [client EXCEPT ![c].looked = TRUE] /\ pc' = [pc EXCEPT ![c] = "sending"]
    <3> DEFINE r == [client[c] EXCEPT !.looked = TRUE]
    <3>1. r \in Client
      BY <1>1 DEF Client
    <3>2. client' = [client EXCEPT ![c] = r]
      BY <2>2
    <3> HIDE DEF r
    <3> QED BY <2>0, <2>2, <3>1, <3>2 DEF Quiet, Typed, Where
  <2> QED BY <1>5, <2>1, <2>2 DEF CheckBreaker, Goto
<1>6. CASE Answered(c)
  <2>1. pc[c] = "sending" /\ Proceed(c) /\ fails' = 0 /\ UNCHANGED <<cookies, breaker, logins>>
    BY <1>6 DEF Answered, registry
  <2> QED BY <1>1, <2>1, ProceedTyped DEF Quiet, Typed
<1>7. CASE Declined(c)
  <2>0. /\ pc[c] = "sending" /\ End(c, "failed")
        /\ UNCHANGED <<cookies, kept, fails, breaker, logins>>
    BY <1>7 DEF Declined, redisVars, registry
  <2> QED BY <2>0, FreshTyped DEF End, Goto, Quiet, Typed, Where, Over
<1>8. CASE Renew(c)
  <2> DEFINE r == [client[c] EXCEPT !.renewals = @ + 1]
  <2>1. /\ client' = [client EXCEPT ![c] = r] /\ pc' = [pc EXCEPT ![c] = "login"]
        /\ cookies' = None /\ pc[c] = "sending" /\ client[c].renewals < MaxRenewals
        /\ UNCHANGED <<kept, fails, breaker, logins>>
    BY <1>8 DEF Renew, Goto, registry
  <2>2. r \in Client
    BY <1>1, <2>1, ClientAssumption DEF Client
  <2> HIDE DEF r
  <2> QED BY <2>1, <2>2 DEF Quiet, Typed, Where
<1>9. CASE Unanswered(c)
  <2>0. pc[c] = "sending" /\ UNCHANGED <<cookies, kept, fails, breaker, logins>>
    BY <1>9 DEF Unanswered, redisVars, registry
  <2>1. PICK n \in 0..1 :
            IF client[c].tries + 1 < MaxTries
            THEN /\ client' = [client EXCEPT ![c].tries = @ + 1, ![c].handled = @ + n]
                 /\ pc' = [pc EXCEPT ![c] = "asking"]
            ELSE /\ client' = [client EXCEPT ![c].handled = @ + n]
                 /\ pc' = [pc EXCEPT ![c] = "givenUp"]
    BY <1>9 DEF Unanswered, Goto
  <2>2. CASE client[c].tries + 1 < MaxTries
    <3> DEFINE r == [client[c] EXCEPT !.tries = @ + 1, !.handled = @ + n]
    <3>1. r \in Client
      <4>1. client[c].tries \in 0..(MaxTries - 1) /\ client[c].handled \in Nat
        BY <1>1 DEF Client
      <4>2. client[c].tries + 1 \in 0..(MaxTries - 1) /\ client[c].handled + n \in Nat
        BY <2>2, <4>1, ClientAssumption
      <4> QED BY <1>1, <4>2 DEF Client
    <3>2. client' = [client EXCEPT ![c] = r] /\ pc' = [pc EXCEPT ![c] = "asking"]
      BY <1>1, <2>1, <2>2 DEF Typed
    <3> HIDE DEF r
    <3> QED BY <2>0, <3>1, <3>2 DEF Quiet, Typed, Where
  <2>3. CASE ~(client[c].tries + 1 < MaxTries)
    <3> DEFINE r == [client[c] EXCEPT !.handled = @ + n]
    <3>1. r \in Client
      BY <1>1 DEF Client
    <3>2. client' = [client EXCEPT ![c] = r] /\ pc' = [pc EXCEPT ![c] = "givenUp"]
      BY <2>1, <2>3
    <3> HIDE DEF r
    <3> QED BY <2>0, <3>1, <3>2 DEF Quiet, Typed, Where
  <2> QED BY <2>2, <2>3
<1>10. CASE ReadFails(c)
  <2> DEFINE r == [client[c] EXCEPT !.noted = fails]
  <2>1. /\ client' = [client EXCEPT ![c] = r] /\ pc' = [pc EXCEPT ![c] = "counting"]
        /\ pc[c] = "givenUp" /\ UNCHANGED <<cookies, kept, fails, breaker, logins>>
    BY <1>10 DEF ReadFails, Goto, redisVars, registry
  <2>2. r \in Client /\ r.noted = fails
    BY <1>1 DEF Client, Typed
  <2> HIDE DEF r
  <2> QED BY <2>1, <2>2 DEF Quiet, Typed, Where
<1> QED BY <1>2, <1>3, <1>4, <1>5, <1>6, <1>7, <1>8, <1>9, <1>10 DEF Step

(* Whatever a call knows, Covered speaks of.                               *)
LEMMA QuietCovers == ASSUME Typed, Covered, NEW c \in Calls, Quiet(c) PROVE Covered'
<1>1. Unreachable' = Unreachable
  BY DEF Quiet, Unreachable
<1>2. Cardinality(Unreachable) \in Nat
  BY UnreachableFinite
<1>3. fails' <= Cardinality(Unreachable) /\ (breaker' => Cardinality(Unreachable) >= Threshold)
  BY <1>2 DEF Quiet, Covered
<1>4. \A d \in Calls : pc'[d] = "counting" => client'[d].noted <= Cardinality(Unreachable)
  BY DEF Quiet, Covered
<1> QED BY <1>1, <1>3, <1>4 DEF Covered

(* A failure is counted: one more call covers one more failure, and what a *)
(* call noted before still is covered, even where this one overwrites it.  *)
LEMMA CountingCovers ==
    ASSUME Typed, Covered, NEW c \in Calls, CountFailure(c)
    PROVE  Typed' /\ Covered'
<1> DEFINE u == Cardinality(Unreachable)
<1>1. /\ pc[c] = "counting" /\ fails' = client[c].noted + 1
      /\ breaker' = (breaker \/ fails' >= Threshold)
      /\ pc' = [pc EXCEPT ![c] = "unreachable"] /\ client' = [client EXCEPT ![c] = Fresh(c)]
      /\ UNCHANGED <<cookies, kept, logins>>
  BY DEF CountFailure, End, Goto, registry
<1>2. client[c].noted \in Nat /\ client[c].noted <= u
  BY <1>1 DEF Typed, Client, Covered
<1>3. Unreachable' = Unreachable \cup {c} /\ c \notin Unreachable
  BY <1>1 DEF Typed, Unreachable
<1>4. Cardinality(Unreachable') = u + 1
  BY <1>3, UnreachableFinite, FS_AddElement
<1>5. u \in Nat /\ Threshold \in Nat
  BY UnreachableFinite, ClientAssumption
<1> HIDE DEF u
<1>6. fails' \in Nat /\ fails' <= u + 1
  BY <1>1, <1>2, <1>5
<1>7. Typed'
  <2>1. pc' \in [Calls -> Where]
    BY <1>1 DEF Typed, Where, Over
  <2>2. client' \in [Calls -> Client]
    BY <1>1, FreshTyped DEF Typed
  <2>3. breaker' \in BOOLEAN
    BY <1>1 DEF Typed
  <2> QED BY <1>1, <1>6, <2>1, <2>2, <2>3 DEF Typed
<1>8. breaker' => u + 1 >= Threshold
  <2>1. CASE breaker
    BY <1>5, <2>1 DEF Covered, u
  <2>2. CASE fails' >= Threshold
    BY <1>5, <1>6, <2>2
  <2> QED BY <1>1, <2>1, <2>2
<1>9. ASSUME NEW d \in Calls, pc'[d] = "counting" PROVE client'[d].noted <= u + 1
  <2>1. d # c /\ pc[d] = "counting" /\ client'[d] = client[d]
    BY <1>1, <1>9 DEF Typed
  <2>2. client[d].noted \in Nat /\ client[d].noted <= u
    BY <2>1 DEF Typed, Client, Covered, u
  <2> QED BY <1>5, <2>1, <2>2
<1> QED BY <1>4, <1>6, <1>7, <1>8, <1>9 DEF Covered

LEMMA CoveredInductive == Typed /\ Covered /\ [Next]_vars => Typed' /\ Covered'
<1> SUFFICES ASSUME Typed, Covered, [Next]_vars PROVE Typed' /\ Covered'
  OBVIOUS
<1>0. Cardinality(Unreachable) \in Nat
  BY UnreachableFinite
<1>1. CASE Expire
  <2>1. /\ pc' = pc /\ client' = client /\ logins' = logins
        /\ fails' \in {0, fails} /\ cookies' \in {cookies, None}
    BY <1>1 DEF Expire, registry
  <2>2. breaker' \in BOOLEAN /\ (breaker' => breaker)
    <3>1. breaker' = breaker \/ breaker' = FALSE
      BY <1>1 DEF Expire
    <3>2. breaker \in BOOLEAN
      BY DEF Typed
    <3>3. CASE breaker' = breaker
      <4>1. breaker' \in BOOLEAN
        BY <3>2, <3>3, Zenon
      <4> QED BY <3>3, <4>1, Zenon
    <3>4. CASE breaker' = FALSE
      BY <3>4, Zenon
    <3> QED BY <3>1, <3>3, <3>4, Zenon
  <2>3. kept' \in [Otps -> Sessions \cup {None}]
    BY <1>1 DEF Expire, Typed
  <2>4. Unreachable' = Unreachable
    BY <2>1 DEF Unreachable
  <2>5. Typed'
    BY <2>1, <2>2, <2>3 DEF Typed
  <2>6. Covered'
    BY <1>0, <2>1, <2>2, <2>4 DEF Covered
  <2> QED BY <2>5, <2>6
<1>2. CASE UNCHANGED <<pc, client, redisVars, logins>>
  BY <1>2 DEF Typed, Covered, Unreachable, redisVars
<1>3. ASSUME NEW c \in Calls, Step(c) PROVE Typed' /\ Covered'
  <2>1. CASE CountFailure(c)
    BY <2>1, CountingCovers
  <2>2. CASE ~CountFailure(c)
    <3>1. Quiet(c)
      BY <1>3, <2>2, QuietSteps
    <3> QED BY <3>1, QuietCovers DEF Quiet
  <2> QED BY <2>1, <2>2
<1> QED BY <1>1, <1>2, <1>3 DEF Next, EndSession, vars, registry

LEMMA CoveredStarts == Init => Typed /\ Covered
<1> SUFFICES ASSUME Init PROVE Typed /\ Covered
  OBVIOUS
<1>1. Cardinality(Unreachable) \in Nat
  BY UnreachableFinite
<1>2. client \in [Calls -> Client] /\ \A c \in Calls : pc[c] = "start"
  BY FreshTyped DEF Init
<1>3. Typed
  <2>1. pc \in [Calls -> Where]
    BY DEF Init, Where
  <2>2. kept \in [Otps -> Sessions \cup {None}] /\ cookies \in Sessions \cup {None}
    BY DEF Init
  <2>3. logins \in 0..MaxLogins
    BY ClientAssumption DEF Init
  <2>4. fails \in Nat /\ breaker \in BOOLEAN
    BY DEF Init
  <2> QED BY <1>2, <2>1, <2>2, <2>3, <2>4 DEF Typed
<1> QED BY <1>1, <1>2, <1>3 DEF Init, Covered

(* What stands is covered by calls counted before, who are among those     *)
(* that gave up.                                                           *)
LEMMA CoveredEarns == Covered => BreakerEarned
<1> DEFINE GivenUp == {c \in Calls : pc[c] \in {"counting", "unreachable"}}
<1>1. Unreachable \subseteq GivenUp /\ GivenUp \subseteq Calls
  BY DEF Unreachable
<1>2. IsFiniteSet(GivenUp)
  BY <1>1, FS_Subset, ClientAssumption
<1>3. Cardinality(Unreachable) <= Cardinality(GivenUp)
  BY <1>1, <1>2, FS_Subset
<1>4. Cardinality(Unreachable) \in Nat /\ Cardinality(GivenUp) \in Nat /\ Threshold \in Nat
  BY <1>2, UnreachableFinite, FS_CardinalityType, ClientAssumption
<1> HIDE DEF GivenUp
<1>5. Covered => /\ fails <= Cardinality(Unreachable)
                 /\ breaker => Cardinality(GivenUp) >= Threshold
  BY <1>3, <1>4 DEF Covered
<1> QED BY <1>5 DEF BreakerEarned, GivenUp, Unreachable

(* For any number of calls, of tries, of renewals and of sessions, and any *)
(* threshold: the breaker of _call_rpc opens, and its failure count        *)
(* stands, only by as many calls that each exhausted their retries, however*)
(* their unlocked reads and writes of the count interleave.                *)
THEOREM BreakerIsEarned == Spec => []BreakerEarned
<1>1. Spec => [](Typed /\ Covered)
  BY CoveredStarts, CoveredInductive, PTL DEF Spec
<1> QED BY <1>1, CoveredEarns, PTL

(***************************************************************************)
(* The caller's view.                                                      *)
(***************************************************************************)
(* What RegistryClient's INSTANCE puts for phase and effects.              *)
PhaseOf(at) == CASE at = "start" -> "idle"
                 [] at = "done"  -> "answered"
                 [] at \in Over \ {"done"} -> "refused"
                 [] OTHER -> "open"
PhaseMap    == [c \in Calls |-> PhaseOf(pc[c])]
EffectMap   == [c \in Calls |-> client[c].handled]
PromiseStep == [Promise!Next]_(Promise!vars)

Working == {"login", "asking", "sending"}

(* A call's own request was carried out at most once for each time it was  *)
(* sent without an answer, and not before the farmer was asked for.        *)
Sent(c, at, own) ==
    /\ at \in {"start"} \cup Over => own.handled = 0
    /\ at \in Working => own.handled <= own.tries
    /\ own.leg = "farmer" => own.handled = 0 /\ c \notin Searches
SentOften == \A c \in Calls : Sent(c, pc[c], client[c])

LEMMA Phases ==
    /\ PhaseOf("start") = "idle" /\ PhaseOf("done") = "answered"
    /\ PhaseOf("failed") = "refused" /\ PhaseOf("unreachable") = "refused"
    /\ \A at \in Working \cup {"givenUp", "counting"} : PhaseOf(at) = "open"
BY DEF PhaseOf, Over, Working

LEMMA FreshSent ==
    ASSUME NEW c \in Calls, NEW at \in {"start"} \cup Over PROVE Sent(c, at, Fresh(c))
<1>1. Fresh(c).handled = 0 /\ (Fresh(c).leg = "farmer" => c \in Otps \cup Acts)
  BY ClientAssumption DEF Fresh
<1> QED BY <1>1, ClientAssumption DEF Sent, Working, Over

(* How the caller sees a step of one call.                                 *)
LEMMA Seen ==
    ASSUME Typed, SentOften, NEW c \in Calls, NEW at \in Where, NEW own \in Client, Sent(c, at, own),
           pc' = [pc EXCEPT ![c] = at], client' = [client EXCEPT ![c] = own]
    PROVE  /\ SentOften'
           /\ PhaseMap' = [PhaseMap EXCEPT ![c] = PhaseOf(at)]
           /\ EffectMap' = [EffectMap EXCEPT ![c] = own.handled]
<1>1. /\ pc'[c] = at /\ client'[c] = own
      /\ \A d \in Calls \ {c} : pc'[d] = pc[d] /\ client'[d] = client[d]
  BY DEF Typed
<1>2. SentOften'
  BY <1>1 DEF SentOften
<1>3. /\ \A d \in Calls : PhaseMap'[d] = IF d = c THEN PhaseOf(at) ELSE PhaseMap[d]
      /\ \A d \in Calls : EffectMap'[d] = IF d = c THEN own.handled ELSE EffectMap[d]
  BY <1>1 DEF PhaseMap, EffectMap
<1>4. /\ PhaseMap = [d \in Calls |-> PhaseMap[d]] /\ PhaseMap' = [d \in Calls |-> PhaseMap'[d]]
      /\ EffectMap = [d \in Calls |-> EffectMap[d]] /\ EffectMap' = [d \in Calls |-> EffectMap'[d]]
  BY DEF PhaseMap, EffectMap
<1> HIDE DEF PhaseMap, EffectMap
<1>5. PhaseMap' = [PhaseMap EXCEPT ![c] = PhaseOf(at)]
  BY <1>3, <1>4
<1>6. EffectMap' = [EffectMap EXCEPT ![c] = own.handled]
  BY <1>3, <1>4
<1> QED BY <1>2, <1>5, <1>6

(* The caller sees nothing of a call that goes on.                         *)
LEMMA Unseen ==
    ASSUME Typed, NEW c \in Calls, PhaseMap' = [PhaseMap EXCEPT ![c] = PhaseMap[c]],
           EffectMap' = [EffectMap EXCEPT ![c] = EffectMap[c]]
    PROVE  PhaseMap' = PhaseMap /\ EffectMap' = EffectMap
<1>1. PhaseMap \in [Calls -> {PhaseMap[d] : d \in Calls}] /\ EffectMap \in [Calls -> {EffectMap[d] : d \in Calls}]
  BY DEF PhaseMap, EffectMap
<1> HIDE DEF PhaseMap, EffectMap
<1> QED BY <1>1

LEMMA Stutters == PhaseMap' = PhaseMap /\ EffectMap' = EffectMap /\ memo' = memo => PromiseStep
BY DEF PromiseStep, Promise!vars, PhaseMap, EffectMap, PhaseOf

LEMMA Begins ==
    ASSUME NEW c \in Calls, PhaseMap[c] = "idle", memo' = memo,
           PhaseMap' = [PhaseMap EXCEPT ![c] = "open"], EffectMap' = [EffectMap EXCEPT ![c] = 0]
    PROVE  PromiseStep
<1>1. Promise!Begin(c)
  BY DEF Promise!Begin, Promise!End, PhaseMap, EffectMap, PhaseOf
<1> QED BY <1>1 DEF PromiseStep, Promise!Next

LEMMA Refuses ==
    ASSUME NEW c \in Calls, PhaseMap[c] = "open", memo' = memo,
           PhaseMap' = [PhaseMap EXCEPT ![c] = "refused"], EffectMap' = [EffectMap EXCEPT ![c] = 0]
    PROVE  PromiseStep
<1>1. Promise!Refuse(c)
  BY DEF Promise!Refuse, Promise!End, PhaseMap, EffectMap, PhaseOf
<1> QED BY <1>1 DEF PromiseStep, Promise!Next

LEMMA Recalls ==
    ASSUME NEW c \in Searches, PhaseMap[c] = "open", memo' = memo, TopicOf[c] \in memo,
           PhaseMap' = [PhaseMap EXCEPT ![c] = "answered"], EffectMap' = [EffectMap EXCEPT ![c] = 0]
    PROVE  PromiseStep
<1>1. Promise!Recall(c)
  BY DEF Promise!Recall, Promise!End, PhaseMap, EffectMap, PhaseOf
<1> QED BY <1>1 DEF PromiseStep, Promise!Next, Calls

LEMMA CarriesOut ==
    ASSUME NEW c \in Calls, PhaseMap[c] = "open", EffectMap[c] < MaxTries,
           \/ /\ PhaseMap' = [PhaseMap EXCEPT ![c] = "answered"] /\ EffectMap' = [EffectMap EXCEPT ![c] = 0]
              /\ memo' = IF c \in Searches THEN memo \cup {TopicOf[c]} ELSE memo
           \/ /\ EffectMap' = [EffectMap EXCEPT ![c] = EffectMap[c] + 1]
              /\ PhaseMap' = PhaseMap /\ memo' = memo
    PROVE  PromiseStep
<1>1. Promise!CarryOut(c)
  BY DEF Promise!CarryOut, Promise!End, PhaseMap, EffectMap, PhaseOf
<1> QED BY <1>1 DEF PromiseStep, Promise!Next

LEMMA Learns ==
    ASSUME NEW c \in Calls \ Searches, PhaseMap[c] = "open", memo' = memo \cup {"farmer"},
           PhaseMap' = PhaseMap, EffectMap' = EffectMap
    PROVE  PromiseStep
<1>1. Promise!Learn
  BY DEF Promise!Learn, PhaseMap, EffectMap, PhaseOf
<1> QED BY <1>1 DEF PromiseStep, Promise!Next

LEMMA Forgets == PhaseMap' = PhaseMap /\ EffectMap' = EffectMap /\ memo' \in SUBSET memo => PromiseStep
<1>1. PhaseMap' = PhaseMap /\ EffectMap' = EffectMap /\ memo' \in SUBSET memo => Promise!Forget
  BY DEF Promise!Forget, PhaseMap, EffectMap, PhaseOf
<1> QED BY <1>1 DEF PromiseStep, Promise!Next

(* Each step of a call, as its caller sees it.                             *)
LEMMA CallKeeps ==
    ASSUME Typed, SentOften, NEW c \in Calls, Step(c)
    PROVE  SentOften' /\ PromiseStep
<1> DEFINE own == client[c]
<1>0. /\ own \in Client /\ Sent(c, pc[c], own) /\ pc[c] \in Where
      /\ PhaseMap[c] = PhaseOf(pc[c]) /\ EffectMap[c] = own.handled
      /\ Fresh(c) \in Client /\ Fresh(c).handled = 0
      /\ {"failed", "done", "unreachable"} \subseteq Over
      /\ Working \cup {"givenUp", "counting"} \cup Over \subseteq Where
      /\ Working = {"login", "asking", "sending"} /\ ~\E w \in Working : w \in {"start"} \cup Over
  BY FreshTyped, ClientAssumption DEF Typed, SentOften, PhaseMap, EffectMap, Fresh, Over, Where, Working
<1> HIDE DEF own
(* The call goes on, or gives up.                                          *)
<1>1. ASSUME NEW at \in Working \cup {"givenUp", "counting"}, NEW r \in Client,
             pc' = [pc EXCEPT ![c] = at], client' = [client EXCEPT ![c] = r],
             Sent(c, at, r), r.handled = own.handled, PhaseMap[c] = "open"
      PROVE  SentOften' /\ PhaseMap' = PhaseMap /\ EffectMap' = EffectMap
  <2>1. PhaseOf(at) = "open"
    BY Phases
  <2>2. at \in Where
    BY <1>0
  <2>3. /\ SentOften' /\ PhaseMap' = [PhaseMap EXCEPT ![c] = PhaseMap[c]]
        /\ EffectMap' = [EffectMap EXCEPT ![c] = EffectMap[c]]
    BY <1>0, <1>1, <2>1, <2>2, Seen
  <2> QED BY <2>3, Unseen
(* The call ends.                                                          *)
<1>2. ASSUME NEW how \in Over, End(c, how)
      PROVE  /\ SentOften' /\ PhaseMap' = [PhaseMap EXCEPT ![c] = PhaseOf(how)]
             /\ EffectMap' = [EffectMap EXCEPT ![c] = 0]
  <2>1. pc' = [pc EXCEPT ![c] = how] /\ client' = [client EXCEPT ![c] = Fresh(c)]
    BY <1>2 DEF End, Goto
  <2>2. Sent(c, how, Fresh(c)) /\ how \in Where
    BY <1>0, FreshSent
  <2> QED BY <1>0, <2>1, <2>2, Seen
<1>3. ASSUME NEW how \in {"failed", "unreachable"}, End(c, how), PhaseMap[c] = "open", memo' = memo
      PROVE  SentOften' /\ PromiseStep
  <2>1. PhaseOf(how) = "refused" /\ how \in Over
    BY <1>0, Phases
  <2> QED BY <1>2, <1>3, <2>1, Refuses
(* An answer on the way to the call's own request.                         *)
<1>4. ASSUME own.leg = "farmer", Proceed(c), pc[c] \in Working
      PROVE  SentOften' /\ PhaseMap' = PhaseMap /\ EffectMap' = EffectMap
  <2> DEFINE r == [own EXCEPT !.leg = "own", !.tries = 0]
  <2>1. pc' = [pc EXCEPT ![c] = "asking"] /\ client' = [client EXCEPT ![c] = r]
    BY <1>4 DEF Proceed, Goto, own
  <2>2. r \in Client /\ r.handled = own.handled /\ r.leg = "own" /\ r.tries = 0
    <3>1. 0 \in 0..(MaxTries - 1)
      BY ClientAssumption
    <3> QED BY <1>0, <3>1 DEF Client
  <2> HIDE DEF r
  <2>3. own.handled = 0
    BY <1>0, <1>4 DEF Sent
  <2>4. Sent(c, "asking", r) /\ "asking" \in Working
    BY <1>0, <2>2, <2>3 DEF Sent
  <2>5. PhaseMap[c] = "open"
    BY <1>0, <1>4, Phases
  <2> QED BY <1>1, <2>1, <2>2, <2>4, <2>5
<1>5. ASSUME own.leg = "own", Proceed(c)
      PROVE  /\ SentOften' /\ PhaseMap' = [PhaseMap EXCEPT ![c] = "answered"]
             /\ EffectMap' = [EffectMap EXCEPT ![c] = 0]
  <2>1. End(c, "done")
    BY <1>5 DEF Proceed, own
  <2> QED BY <1>0, <1>2, <2>1, Phases
<1>6. own.leg \in {"farmer", "own"} /\ own.handled \in Nat /\ own.tries \in 0..(MaxTries - 1)
  BY <1>0 DEF Client
<1>7. own.leg = "farmer" => c \notin Searches
  BY <1>0 DEF Sent
<1>8. CASE Build(c)
  <2> DEFINE key  == KeptFor(c)
             used == IF key # None THEN key ELSE cookies
             r    == [own EXCEPT !.bound = key # None, !.session = used]
             at   == IF used = None THEN "login" ELSE "asking"
  <2>1. client' = [client EXCEPT ![c] = r] /\ pc' = [pc EXCEPT ![c] = at] /\ pc[c] = "start" /\ memo' = memo
    BY <1>8 DEF Build, Goto, redisVars, own
  <2>2. key \in Sessions \cup {None}
    BY ClientAssumption DEF KeptFor, Typed
  <2>3. used \in Sessions \cup {None}
    BY <2>2 DEF Typed
  <2> HIDE DEF key, used
  <2>4. r \in Client /\ r.handled = own.handled /\ r.tries = own.tries /\ r.leg = own.leg
    BY <1>0, <2>3 DEF Client
  <2>5. at \in Working
    BY DEF Working
  <2> HIDE DEF r, at
  <2>6. own.handled = 0
    BY <1>0, <2>1 DEF Sent
  <2>7. Sent(c, at, r)
    BY <1>0, <1>6, <1>7, <2>4, <2>5, <2>6 DEF Sent
  <2>8. PhaseOf(at) = "open" /\ PhaseMap[c] = "idle" /\ at \in Where
    BY <1>0, <2>1, <2>5, Phases
  <2>9. /\ SentOften' /\ PhaseMap' = [PhaseMap EXCEPT ![c] = "open"]
        /\ EffectMap' = [EffectMap EXCEPT ![c] = 0]
    BY <2>1, <2>4, <2>6, <2>7, <2>8, Seen
  <2> QED BY <2>1, <2>8, <2>9, Begins
<1>9. CASE Login(c)
  <2>1. pc[c] = "login" /\ memo' = memo /\ PhaseMap[c] = "open"
    BY <1>0, <1>9, Phases DEF Login
  <2>2. CASE /\ logins < MaxLogins /\ logins' = logins + 1
             /\ client' = [client EXCEPT ![c].session = logins'] /\ Goto(c, "asking")
    <3> DEFINE r == [own EXCEPT !.session = logins']
    <3>1. client' = [client EXCEPT ![c] = r] /\ pc' = [pc EXCEPT ![c] = "asking"]
      BY <2>2 DEF Goto, own
    <3>2. logins' \in Sessions
      BY <2>2, ClientAssumption DEF Typed, Sessions
    <3>3. r \in Client /\ r.handled = own.handled /\ r.tries = own.tries /\ r.leg = own.leg
      BY <1>0, <3>2 DEF Client
    <3> HIDE DEF r
    <3>4. Sent(c, "asking", r) /\ "asking" \in Working
      BY <1>0, <2>1, <3>3 DEF Sent
    <3> QED BY <1>1, <2>1, <3>1, <3>3, <3>4, Stutters
  <2> QED BY <1>3, <1>9, <2>1, <2>2 DEF Login
<1>10. CASE Remember(c)
  <2>1. pc[c] = "asking" /\ Proceed(c) /\ memo' = memo /\ Topic(c) \cap memo # {} /\ PhaseMap[c] = "open"
    BY <1>0, <1>10, Phases DEF Remember
  <2>2. CASE own.leg = "farmer"
    <3>1. pc[c] \in Working
      BY <1>0, <2>1
    <3> QED BY <1>4, <2>1, <2>2, <3>1, Stutters
  <2>3. CASE own.leg = "own"
    <3>1. c \in Searches /\ TopicOf[c] \in memo
      BY <2>1, <2>3 DEF Topic, own
    <3> QED BY <1>5, <2>1, <2>3, <3>1, Recalls
  <2> QED BY <1>6, <2>2, <2>3
<1>11. CASE CheckBreaker(c)
  <2>1. pc[c] = "asking" /\ memo' = memo /\ PhaseMap[c] = "open"
    BY <1>0, <1>11, Phases DEF CheckBreaker, redisVars
  <2>2. CASE client' = [client EXCEPT ![c].looked = TRUE] /\ Goto(c, "sending")
    <3> DEFINE r == [own EXCEPT !.looked = TRUE]
    <3>1. client' = [client EXCEPT ![c] = r] /\ pc' = [pc EXCEPT ![c] = "sending"]
      BY <2>2 DEF Goto, own
    <3>2. r \in Client /\ r.handled = own.handled /\ r.tries = own.tries /\ r.leg = own.leg
      BY <1>0 DEF Client
    <3> HIDE DEF r
    <3>3. Sent(c, "sending", r) /\ "sending" \in Working
      BY <1>0, <2>1, <3>2 DEF Sent
    <3> QED BY <1>1, <2>1, <3>1, <3>2, <3>3, Stutters
  <2> QED BY <1>3, <1>11, <2>1, <2>2 DEF CheckBreaker
<1>12. CASE Answered(c)
  <2>1. pc[c] = "sending" /\ Proceed(c) /\ memo' = memo \cup Topic(c) /\ PhaseMap[c] = "open"
    BY <1>0, <1>12, Phases DEF Answered
  <2>2. CASE own.leg = "farmer"
    <3>1. Topic(c) = {"farmer"} /\ pc[c] \in Working
      BY <1>0, <1>7, <2>1, <2>2 DEF Topic, own
    <3> QED BY <1>4, <1>7, <2>1, <2>2, <3>1, Learns
  <2>3. CASE own.leg = "own"
    <3>1. memo' = IF c \in Searches THEN memo \cup {TopicOf[c]} ELSE memo
      BY <2>1, <2>3 DEF Topic, own
    <3>2. EffectMap[c] < MaxTries
      <4>1. own.handled <= own.tries
        BY <1>0, <2>1 DEF Sent
      <4> QED BY <1>0, <1>6, <4>1, ClientAssumption
    <3> QED BY <1>5, <2>1, <2>3, <3>1, <3>2, CarriesOut
  <2> QED BY <1>6, <2>2, <2>3
<1>13. CASE Declined(c)
  <2>1. pc[c] = "sending" /\ memo' = memo /\ PhaseMap[c] = "open" /\ End(c, "failed")
    BY <1>0, <1>13, Phases DEF Declined, redisVars
  <2> QED BY <1>3, <2>1
<1>14. CASE Renew(c)
  <2> DEFINE r == [own EXCEPT !.renewals = own.renewals + 1]
  <2>1. /\ client' = [client EXCEPT ![c] = r] /\ pc' = [pc EXCEPT ![c] = "login"]
        /\ pc[c] = "sending" /\ own.renewals < MaxRenewals /\ memo' = memo
    BY <1>14 DEF Renew, Goto, own
  <2>2. PhaseMap[c] = "open"
    BY <1>0, <2>1, Phases
  <2>3. r \in Client /\ r.handled = own.handled /\ r.tries = own.tries /\ r.leg = own.leg
    BY <1>0, <2>1, ClientAssumption DEF Client
  <2> HIDE DEF r
  <2>4. Sent(c, "login", r) /\ "login" \in Working
    BY <1>0, <2>1, <2>3 DEF Sent
  <2> QED BY <1>1, <2>1, <2>2, <2>3, <2>4, Stutters
<1>15. CASE Unanswered(c)
  <2>1. pc[c] = "sending" /\ memo' = memo /\ PhaseMap[c] = "open" /\ own.handled <= own.tries
    BY <1>0, <1>15, Phases DEF Unanswered, redisVars, Sent
  <2>2. PICK n \in 0..1 :
            /\ n = 1 => own.leg = "own"
            /\ IF own.tries + 1 < MaxTries
               THEN /\ client' = [client EXCEPT ![c].tries = @ + 1, ![c].handled = @ + n]
                    /\ Goto(c, "asking")
               ELSE client' = [client EXCEPT ![c].handled = @ + n] /\ Goto(c, "givenUp")
    BY <1>15 DEF Unanswered, own
  <2> DEFINE again == own.tries + 1 < MaxTries
             r     == IF again THEN [own EXCEPT !.tries = own.tries + 1, !.handled = own.handled + n]
                               ELSE [own EXCEPT !.handled = own.handled + n]
             at    == IF again THEN "asking" ELSE "givenUp"
  <2>3. client' = [client EXCEPT ![c] = r] /\ pc' = [pc EXCEPT ![c] = at]
    <3>1. CASE again
      BY <1>0, <2>2, <3>1 DEF Goto, own, Typed, Client
    <3>2. CASE ~again
      BY <1>0, <2>2, <3>2 DEF Goto, own, Typed, Client
    <3> QED BY <3>1, <3>2
  <2>4. /\ r \in Client /\ r.handled = own.handled + n /\ r.leg = own.leg
        /\ r.tries = IF again THEN own.tries + 1 ELSE own.tries
    <3>1. own.handled + n \in Nat
      BY <1>6
    <3>2. CASE again
      <4>1. own.tries + 1 \in 0..(MaxTries - 1)
        BY <1>6, <3>2, ClientAssumption
      <4> QED BY <1>0, <3>1, <3>2, <4>1 DEF Client
    <3>3. CASE ~again
      BY <1>0, <3>1, <3>3 DEF Client
    <3> QED BY <3>2, <3>3
  <2> HIDE DEF r
  <2>5. at = "asking" => r.handled <= r.tries
    BY <1>6, <2>1, <2>4
  <2>6. r.leg = "farmer" => r.handled = 0 /\ c \notin Searches
    <3>1. own.leg = "farmer" => own.handled = 0
      BY <1>0 DEF Sent
    <3> QED BY <1>7, <2>2, <2>4, <3>1
  <2>7. at \in {"asking", "givenUp"}
    OBVIOUS
  <2> HIDE DEF at, again
  <2>8. Sent(c, at, r) /\ at \in Working \cup {"givenUp", "counting"} /\ at \in Where
    BY <2>5, <2>6, <2>7 DEF Sent, Working, Over, Where
  <2>9. CASE n = 0
    <3>1. r.handled = own.handled
      BY <1>6, <2>4, <2>9
    <3> QED BY <1>1, <2>1, <2>3, <2>4, <2>8, <3>1, Stutters
  <2>10. CASE n = 1
    <3>1. PhaseOf(at) = "open"
      BY <2>8, Phases
    <3>2. /\ SentOften' /\ PhaseMap' = [PhaseMap EXCEPT ![c] = PhaseMap[c]]
          /\ EffectMap' = [EffectMap EXCEPT ![c] = EffectMap[c] + 1]
      <4>1. r.handled = EffectMap[c] + 1 /\ PhaseOf(at) = PhaseMap[c]
        BY <1>0, <2>1, <2>4, <2>10, <3>1
      <4>2. /\ SentOften' /\ PhaseMap' = [PhaseMap EXCEPT ![c] = PhaseOf(at)]
            /\ EffectMap' = [EffectMap EXCEPT ![c] = r.handled]
        BY <2>3, <2>4, <2>8, Seen
      <4> QED BY <4>1, <4>2
    <3>3. PhaseMap' = PhaseMap
      BY <3>2 DEF PhaseMap
    <3>4. EffectMap[c] < MaxTries
      BY <1>0, <1>6, <2>1, ClientAssumption
    <3> QED BY <2>1, <3>2, <3>3, <3>4, CarriesOut
  <2> QED BY <2>9, <2>10
<1>16. CASE ReadFails(c)
  <2> DEFINE r == [own EXCEPT !.noted = fails]
  <2>1. /\ client' = [client EXCEPT ![c] = r] /\ pc' = [pc EXCEPT ![c] = "counting"]
        /\ pc[c] = "givenUp" /\ memo' = memo
    BY <1>16 DEF ReadFails, Goto, redisVars, own
  <2>2. PhaseMap[c] = "open"
    BY <1>0, <2>1, Phases
  <2>3. r \in Client /\ r.handled = own.handled /\ r.leg = own.leg
    BY <1>0 DEF Client, Typed
  <2> HIDE DEF r
  <2>4. Sent(c, "counting", r)
    BY <1>0, <2>3 DEF Sent, Working, Over
  <2> QED BY <1>1, <2>1, <2>2, <2>3, <2>4, Stutters
<1>17. CASE CountFailure(c)
  <2>1. pc[c] = "counting" /\ memo' = memo /\ PhaseMap[c] = "open" /\ End(c, "unreachable")
    BY <1>0, <1>17, Phases DEF CountFailure
  <2> QED BY <1>3, <2>1
<1> QED BY <1>8, <1>9, <1>10, <1>11, <1>12, <1>13, <1>14, <1>15, <1>16, <1>17 DEF Step

LEMMA PromiseSteps == Typed /\ SentOften /\ [Next]_vars => SentOften' /\ PromiseStep
<1> SUFFICES ASSUME Typed, SentOften, [Next]_vars PROVE SentOften' /\ PromiseStep
  OBVIOUS
<1>1. ASSUME pc' = pc, client' = client, memo' \in SUBSET memo PROVE SentOften' /\ PromiseStep
  <2>1. SentOften' /\ PhaseMap' = PhaseMap /\ EffectMap' = EffectMap
    BY <1>1 DEF SentOften, PhaseMap, EffectMap
  <2> QED BY <1>1, <2>1, Forgets
<1>2. CASE Expire
  <2>1. pc' = pc /\ client' = client /\ memo' \in SUBSET memo
    BY <1>2 DEF Expire
  <2> QED BY <1>1, <2>1
<1>3. CASE UNCHANGED vars \/ \E s \in Sessions : EndSession(s)
  BY <1>1, <1>3 DEF EndSession, vars, redisVars
<1> QED BY <1>2, <1>3, CallKeeps DEF Next

(* For any number of calls, tries, renewals and sessions: a request is     *)
(* carried out at most MaxTries times, an answer means that it was or that *)
(* one like it is remembered, and what was refused stays refused.  That    *)
(* every call ends is not part of it.                                      *)
THEOREM PromiseKept == Spec => Promise!Init /\ [][Promise!Next]_(Promise!vars)
<1>1. Init => SentOften /\ Promise!Init
  <2> SUFFICES ASSUME Init PROVE SentOften /\ Promise!Init
    OBVIOUS
  <2>1. \A c \in Calls : pc[c] = "start" /\ client[c] = Fresh(c) /\ client[c].handled = 0
    BY DEF Init, Fresh
  <2>2. SentOften
    BY <2>1, FreshSent DEF SentOften
  <2>3. PhaseOf("start") = "idle"
    BY Phases
  <2>4. PhaseMap = [c \in Calls |-> "idle"] /\ EffectMap = [c \in Calls |-> 0] /\ memo = {}
    BY <2>1, <2>3 DEF PhaseMap, EffectMap, Init
  <2>5. Promise!Init
    BY <2>4 DEF Promise!Init, PhaseMap, EffectMap, PhaseOf
  <2> QED BY <2>2, <2>5
<1>2. Spec => []Typed
  BY CoveredStarts, CoveredInductive, PTL DEF Spec
<1> QED BY <1>1, <1>2, PromiseSteps, PTL DEF Spec, PromiseStep
=============================================================================
