-------------------------- MODULE MCDashboardRollup --------------------------
(* One farmer with the same consent at two banks, another at one bank twice*)
(* and with a place of its own on one application; two declined for one    *)
(* reason in different places.                                             *)
EXTENDS DashboardRollup, TLC

CONSTANTS a1, a2, a3, a4, c1, c2, p1, p2, w1, w2

MCBankOf      == (a1 :> "b1") @@ (a2 :> "b2") @@ (a3 :> "b1") @@ (a4 :> "b1")
MCApplicantOf == (a1 :> p1) @@ (a2 :> p1) @@ (a3 :> p2) @@ (a4 :> p2)
MCConsentOf   == (a1 :> c1) @@ (a2 :> c1) @@ (a3 :> c2) @@ (a4 :> None)
MCProductOf   == [a \in Apps |-> IF a = a2 THEN "tools" ELSE "seed"]
MCMonthOf     == [a \in Apps |-> IF a = a1 THEN "May" ELSE "June"]
MCOwnPlaceOf  == [a \in Apps |-> IF a = a3 THEN "y" ELSE ""]
MCPlaceOf     == (p1 :> "x") @@ (p2 :> "")
MCOwnerOf     == (c1 :> p1) @@ (c2 :> None)
MCFieldsOf    == (c1 :> {"name", "land"}) @@ (c2 :> {})
MCFirst       == (a1 :> 1) @@ (a2 :> 2) @@ (a3 :> 3) @@ (a4 :> 4)

Is(status, entry, reason) == [status |-> status, entry |-> entry, reason |-> reason]
Has(status, delivered)    == [status |-> status, delivered |-> delivered]

MCInitFacts ==
    { [ app     |-> (a1 :> Is("Rejected", FALSE, "income")) @@ (a2 :> Is("Active", TRUE, ""))
                    @@ (a3 :> Is("Rejected", FALSE, "income")) @@ (a4 :> Is("In Transition", TRUE, "")),
        consent |-> (c1 :> Has("Approved", FALSE)) @@ (c2 :> Has("Pending OTP", FALSE)) ],
      [ app     |-> (a1 :> Is("Completed", FALSE, "")) @@ (a2 :> Is("Rejected", FALSE, ""))
                    @@ (a3 :> Is("Active", TRUE, "")) @@ (a4 :> Is("Cancelled", FALSE, "")),
        consent |-> (c1 :> Has("Failed", FALSE)) @@ (c2 :> Has("Revoked", TRUE)) ] }
=============================================================================
