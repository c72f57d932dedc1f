------------------------------ MODULE MCLeadLoan ------------------------------
(***************************************************************************)
(* LeadLoan for TLC.  The bank's pipeline has one in-transition stage and  *)
(* one completed stage of its own; archetypes are accepted as well.        *)
(***************************************************************************)
EXTENDS LeadLoan, TLC

CONSTANTS s1, s2

MCStages         == {s1, s2}
MCStageArchetype == (s1 :> "In Transition") @@ (s2 :> "Completed")
MCDelivered      == {"Approved", "Revoked"}
OnlyApproved     == {"Approved"}

(* Rows of a table are interchangeable.                                    *)
Symmetry == UNION { Permutations(rows) :
                    rows \in {Leads, Apps, Consents, Profiles, Visits} }
=============================================================================
