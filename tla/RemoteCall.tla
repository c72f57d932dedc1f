----------------------------- MODULE RemoteCall -----------------------------
(***************************************************************************)
(* What a caller may rely on when it asks the OpenG2P registry something:  *)
(* the request is carried out a bounded number of times, an answer means   *)
(* that it was carried out (or, for what may be remembered, that an        *)
(* earlier one was), a refusal means nothing, and one of the two comes.    *)
(***************************************************************************)
EXTENDS Naturals

CONSTANTS Calls, MaxTries,
          Memorable,  \* the calls whose answer may be remembered
          TopicOf     \* what those are about

VARIABLES phase,     \* idle, open, answered or refused
          effects,   \* how often the registry carried an open request out
          known      \* the topics of which an answer is remembered

vars == <<phase, effects, known>>

Init == /\ phase = [c \in Calls |-> "idle"]
        /\ effects = [c \in Calls |-> 0]
        /\ known = {}

End(c, how) == /\ phase' = [phase EXCEPT ![c] = how]
               /\ effects' = [effects EXCEPT ![c] = 0]

Begin(c) ==
    /\ phase[c] = "idle"
    /\ \E how \in {"open", "refused"} : End(c, how)
    /\ UNCHANGED known

(* Its answer arrives, or does not.                                        *)
CarryOut(c) ==
    /\ phase[c] = "open" /\ effects[c] < MaxTries
    /\ \/ /\ End(c, "answered")
          /\ known' = IF c \in Memorable THEN known \cup {TopicOf[c]} ELSE known
       \/ effects' = [effects EXCEPT ![c] = @ + 1] /\ UNCHANGED <<phase, known>>

Recall(c) ==
    /\ phase[c] = "open" /\ c \in Memorable /\ TopicOf[c] \in known
    /\ End(c, "answered")
    /\ UNCHANGED known

Refuse(c) ==
    /\ phase[c] = "open"
    /\ End(c, "refused")
    /\ UNCHANGED known

(* An answer is forgotten, or learned by a call on its way to its own      *)
(* question.                                                               *)
Forget == known' \in SUBSET known /\ UNCHANGED <<phase, effects>>
Learn  == /\ \E c \in Calls \ Memorable : phase[c] = "open"
          /\ known' = known \cup {"farmer"} /\ UNCHANGED <<phase, effects>>

Next == \/ Forget \/ Learn
        \/ \E c \in Calls : Begin(c) \/ CarryOut(c) \/ Recall(c) \/ Refuse(c)

Ends == \A c \in Calls : phase[c] = "open" ~> phase[c] # "open"

Spec == Init /\ [][Next]_vars /\ Ends
=============================================================================
