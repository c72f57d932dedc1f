-------------------------- MODULE MCDashboardStats --------------------------
(* One bank with two pipeline stages and one stage for decided loans.      *)
EXTENDS DashboardStats, TLC

CONSTANTS w1, w2, p1, a1, a2, f1, s1, s2, s3

MCTwoStages == {s1, s3}
MCTwoArchetype == (s1 :> "In Transition") @@ (s3 :> "Completed")
MCStages == {s1, s2, s3}
MCArchetype == (s1 :> "In Transition") @@ (s2 :> "In Transition") @@ (s3 :> "Completed")

NothingYet == {[k \in Keys |-> Gone]}

(* Nothing; a product and a decided application beside a draft; two        *)
(* applications with the bank: all of one farmer.                          *)
MCBeginnings ==
    LET Of(status, stage) == [status |-> status, stage |-> stage, farmer |-> f1]
    IN NothingYet \cup
       { (p1 :> [Gone EXCEPT !.status = "Pending Approval"])
             @@ (a1 :> Of("Completed", s3)) @@ (a2 :> Of("Active", None)),
         (p1 :> Gone) @@ (a1 :> Of("In Transition", s1)) @@ (a2 :> Of("In Transition", s1)) }
=============================================================================
