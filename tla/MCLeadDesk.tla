----------------------------- MODULE MCLeadDesk -----------------------------
(* Leads read one a page in two of the orders, two calls that write.       *)
EXTENDS LeadDesk, TLC

CONSTANTS c1, c2

MCViews == {[tab |-> "all", by |-> "loan_amount", desc |-> TRUE],
            [tab |-> "my", by |-> "creation", desc |-> TRUE]}

Symmetry == Permutations({c1, c2})
=============================================================================
