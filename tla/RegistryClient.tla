--------------------------- MODULE RegistryClient ---------------------------
(***************************************************************************)
(* OpenG2PConsentClient and the consent endpoints that call it, several at *)
(* once: the portal session shared through Redis, its renewal, the retries *)
(* of a request, the circuit breaker, and the session an OTP is bound to.  *)
(*                                                                         *)
(* A search asks for what the client remembers: the farmer, the reasons or *)
(* the fields a consent may name.  An otp call (request_otp) asks for the  *)
(* farmer, then for an OTP; an act sends a request about the OTP of an otp *)
(* call, submit_consent after it asked for the farmer, verify_otp at once. *)
(* The registry is external: it ends sessions when it likes, carries out a *)
(* request or not, and its answer may be lost either way.                  *)
(***************************************************************************)
EXTENDS Naturals, FiniteSets

CONSTANTS Searches, Otps, Acts,
          OtpOf,        \* the otp call an act is about
          Submits,      \* the acts that submit a consent
          TopicOf,      \* what a search asks for
          MaxTries,     \* times a request is sent (3 in the code)
          Threshold,    \* give-ups that open the breaker (3 in the code)
          MaxRenewals,  \* Python's recursion limit, in renewals of one call
          MaxLogins,    \* sessions the registry grants: a bound of the instance
          None

Calls    == Searches \cup Otps \cup Acts
Sessions == 1..MaxLogins
Topics   == {"farmer", "reasons", "fields"}

ASSUME ClientAssumption ==
    /\ OtpOf \in [Acts -> Otps] /\ Submits \subseteq Acts
    /\ TopicOf \in [Searches -> Topics]
    /\ Searches \cap Otps = {} /\ Searches \cap Acts = {} /\ Otps \cap Acts = {}
    /\ {MaxTries, Threshold, MaxLogins} \subseteq Nat \ {0} /\ MaxRenewals \in Nat
    /\ IsFiniteSet(Calls) /\ None \notin Nat

VARIABLES pc,       \* where each call stands
          client,   \* the client of a call under way
          cookies,  \* the cached portal session
          kept,     \* the session kept for each OTP transaction
          memo,     \* the topics whose answer is cached
          fails,    \* failure count
          breaker,  \* cb:openg2p is "open"
          logins,   \* sessions granted
          live      \* sessions the registry honours

redisVars == <<cookies, kept, memo, fails, breaker>>
registry  == <<logins, live>>
vars == <<pc, client, redisVars, registry>>

(* leg: what the call asks now; bound: the session is its transaction's and*)
(* not the portal's; handled: how often the registry carried out the call's*)
(* own request; looked: it saw the breaker closed; noted: the failure count*)
(* it read.                                                                *)
Client == [ leg : {"farmer", "own"}, session : Sessions \cup {None}, bound : BOOLEAN,
            tries : 0..(MaxTries - 1), renewals : 0..MaxRenewals,
            looked : BOOLEAN, noted : Nat, handled : Nat ]

Fresh(c) == [leg |-> IF c \in Otps \cup Submits THEN "farmer" ELSE "own", session |-> None, bound |-> FALSE,
             tries |-> 0, renewals |-> 0, looked |-> FALSE, noted |-> 0, handled |-> 0]
Over     == {"done", "failed", "unreachable"}

Init ==
    /\ pc = [c \in Calls |-> "start"]
    /\ client = [c \in Calls |-> Fresh(c)]
    /\ logins = 0 /\ live = {}
    /\ cookies = None /\ kept = [o \in Otps |-> None]
    /\ memo = {} /\ fails = 0 /\ breaker = FALSE

Goto(c, where) == pc' = [pc EXCEPT ![c] = where]
End(c, how)    == Goto(c, how) /\ client' = [client EXCEPT ![c] = Fresh(c)]

(***************************************************************************)
(* The client's construction.                                              *)
(***************************************************************************)
(* An act takes the session kept for its transaction; without one, and for *)
(* any other call, the client is the portal's.                             *)
KeptFor(c) == IF c \in Acts THEN kept[OtpOf[c]] ELSE None

Build(c) ==
    LET own  == KeptFor(c)
        used == IF own # None THEN own ELSE cookies IN
    /\ pc[c] = "start"
    /\ c \in Acts => pc[OtpOf[c]] = "done"
    /\ client' = [client EXCEPT ![c].bound = own # None, ![c].session = used]
    /\ Goto(c, IF used = None THEN "login" ELSE "asking")
    /\ UNCHANGED <<redisVars, registry>>

(* _authenticate: no breaker, no retry.                                    *)
Login(c) ==
    /\ pc[c] = "login"
    /\ \/ /\ logins < MaxLogins
          /\ logins' = logins + 1 /\ live' = live \cup {logins'}
          /\ client' = [client EXCEPT ![c].session = logins'] /\ cookies' = logins'
          /\ Goto(c, "asking")
       \/ End(c, "failed") /\ UNCHANGED <<logins, live, cookies>>
    /\ UNCHANGED <<kept, memo, fails, breaker>>

(***************************************************************************)
(* A request.                                                              *)
(***************************************************************************)
(* What an answered request leads to: from the farmer to the call's own    *)
(* request; then an otp call keeps its session, and the call is done.      *)
Proceed(c) ==
    \/ /\ client[c].leg = "farmer"
       /\ client' = [client EXCEPT ![c].leg = "own", ![c].tries = 0]
       /\ Goto(c, "asking") /\ UNCHANGED kept
    \/ /\ client[c].leg = "own"
       /\ kept' = IF c \in Otps THEN [kept EXCEPT ![c] = client[c].session] ELSE kept
       /\ End(c, "done")

(* What the call asks now that the client may remember, if anything.       *)
Topic(c) == IF c \in Searches THEN {TopicOf[c]}
            ELSE IF client[c].leg = "farmer" THEN {"farmer"} ELSE {}

Remember(c) ==
    /\ pc[c] = "asking" /\ Topic(c) \cap memo # {}
    /\ Proceed(c)
    /\ UNCHANGED <<cookies, memo, fails, breaker, registry>>

(* _call_rpc looks at the breaker.  Frappe's get_value may answer a repeat-*)
(* ed question of one web request from that request's own copy: a call that*)
(* saw the breaker closed may not see it open.                             *)
CheckBreaker(c) ==
    /\ pc[c] = "asking" /\ Topic(c) \cap memo = {}
    /\ \/ breaker /\ End(c, "failed")
       \/ /\ ~breaker \/ client[c].looked
          /\ client' = [client EXCEPT ![c].looked = TRUE]
          /\ Goto(c, "sending")
    /\ UNCHANGED <<redisVars, registry>>

(* An answer that says success clears the failure count.                   *)
Answered(c) ==
    /\ pc[c] = "sending" /\ client[c].session \in live
    /\ Proceed(c)
    /\ memo' = memo \cup Topic(c)
    /\ fails' = 0
    /\ UNCHANGED <<cookies, breaker, registry>>

(* An answer that says failure ends the call, and so does a session that   *)
(* is not honoured and cannot be renewed.                                  *)
Declined(c) ==
    /\ pc[c] = "sending"
    /\ End(c, "failed")
    /\ UNCHANGED <<redisVars, registry>>

(* The session is not honoured: the portal's is dropped from the cache and *)
(* asked for anew, within the same attempt and one call deeper.            *)
Renew(c) ==
    /\ pc[c] = "sending" /\ client[c].session \notin live
    /\ ~client[c].bound /\ client[c].renewals < MaxRenewals
    /\ client' = [client EXCEPT ![c].renewals = @ + 1]
    /\ cookies' = None
    /\ Goto(c, "login")
    /\ UNCHANGED <<kept, memo, fails, breaker, registry>>

RetryForever(c) ==  \* mutant: the attempt is not passed on
    pc[c] = "sending" /\ Goto(c, "asking") /\ UNCHANGED <<client, redisVars, registry>>

CountEveryTry(c) ==  \* mutant: a failure is counted for every attempt
    /\ pc[c] = "sending" /\ client[c].tries + 1 < MaxTries
    /\ client' = [client EXCEPT ![c].tries = @ + 1] /\ Goto(c, "asking")
    /\ fails' = fails + 1 /\ UNCHANGED <<cookies, kept, memo, breaker, registry>>

(* No answer came, whether or not the registry carried the request out: it *)
(* is sent again, up to MaxTries times in all.                             *)
Unanswered(c) ==
    LET carried == IF client[c].session \in live /\ client[c].leg = "own" THEN 0..1 ELSE {0} IN
    /\ pc[c] = "sending"
    /\ \E n \in carried :
         IF client[c].tries + 1 < MaxTries
         THEN /\ client' = [client EXCEPT ![c].tries = @ + 1, ![c].handled = @ + n]
              /\ Goto(c, "asking")
         ELSE /\ client' = [client EXCEPT ![c].handled = @ + n]
              /\ Goto(c, "givenUp")
    /\ UNCHANGED <<redisVars, registry>>

(* The failure count is read, and then set.                                *)
ReadFails(c) ==
    /\ pc[c] = "givenUp"
    /\ client' = [client EXCEPT ![c].noted = fails]
    /\ Goto(c, "counting")
    /\ UNCHANGED <<redisVars, registry>>

CountFailure(c) ==
    /\ pc[c] = "counting"
    /\ fails' = client[c].noted + 1
    /\ breaker' = (breaker \/ fails' >= Threshold)
    /\ End(c, "unreachable")
    /\ UNCHANGED <<cookies, kept, memo, registry>>

(***************************************************************************)
(* Redis keys expire, sessions end.                                        *)
(***************************************************************************)
Expire ==
    \/ cookies # None /\ cookies' = None /\ UNCHANGED <<pc, client, kept, memo, fails, breaker, registry>>
    \/ (\E t \in memo : memo' = memo \ {t}) /\ UNCHANGED <<pc, client, cookies, kept, fails, breaker, registry>>
    \/ fails > 0 /\ fails' = 0 /\ UNCHANGED <<pc, client, cookies, kept, memo, breaker, registry>>
    \/ breaker /\ breaker' = FALSE /\ UNCHANGED <<pc, client, cookies, kept, memo, fails, registry>>
    \/ \E o \in Otps : /\ kept[o] # None /\ kept' = [kept EXCEPT ![o] = None]
                       /\ UNCHANGED <<pc, client, cookies, memo, fails, breaker, registry>>

EndSession(s) == /\ s \in live /\ live' = live \ {s}
                 /\ UNCHANGED <<pc, client, redisVars, logins>>

Step(c) == \/ Build(c) \/ Login(c) \/ Remember(c)
           \/ CheckBreaker(c) \/ Answered(c) \/ Declined(c) \/ Renew(c) \/ Unanswered(c)
           \/ ReadFails(c) \/ CountFailure(c)

Next == \/ Expire
        \/ \E s \in Sessions : EndSession(s)
        \/ \E c \in Calls : Step(c)

(* A call's worker goes on: every wait of it has a timeout.                *)
Spec == Init /\ [][Next]_vars /\ \A c \in Calls : WF_vars(Step(c))

(***************************************************************************)
(* Properties.                                                             *)
(***************************************************************************)
(* The breaker is earned: it opens, and the failure count stands, only by  *)
(* as many calls that each exhausted their retries; calls that count at    *)
(* the same time, or over a success, never count for more.                 *)
BreakerEarned ==
    LET GivenUp == {c \in Calls : pc[c] \in {"counting", "unreachable"}} IN
    /\ fails <= Cardinality({c \in Calls : pc[c] = "unreachable"})
    /\ breaker => Cardinality(GivenUp) >= Threshold

(* The caller's view: a request is carried out at most MaxTries times, an  *)
(* answer means that it was, whatever sessions, retries and breaker do     *)
(* meanwhile, and every call that began ends.                              *)
Promise == INSTANCE RemoteCall WITH
    Memorable <- Searches,
    phase     <- [c \in Calls |-> CASE pc[c] = "start" -> "idle"
                                   [] pc[c] = "done"  -> "answered"
                                   [] pc[c] \in Over \ {"done"} -> "refused"
                                   [] OTHER -> "open"],
    effects   <- [c \in Calls |-> client[c].handled],
    known     <- memo

KeepsPromise == Promise!Spec
=============================================================================
