---------------------------- MODULE MCLeadIntake ----------------------------
(* Two agents and two deliveries.                                          *)
EXTENDS LeadIntake, TLC

CONSTANTS r1, r2, d1, d2, p1, p2, x1, x2

MCPhones   == {p1, p2}
MCRefs     == {x1, x2}

(* The agents clash over the phone, the deliveries with both and with each *)
(* other; the first delivery carries no reference.                         *)
MCRequests == {r1, r2, d1, d2}
MCKinds    == (r1 :> "create") @@ (r2 :> "create") @@ (d1 :> "inbound") @@ (d2 :> "inbound")
MCPhoneOf  == [r \in MCRequests |-> p1]
MCRefOf    == (r1 :> x1) @@ (r2 :> x1) @@ (d1 :> None) @@ (d2 :> x1)
=============================================================================
