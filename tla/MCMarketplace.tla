--------------------------- MODULE MCMarketplace ---------------------------
(* An operator, a Bank Admin who signed up, and a person yet unknown.      *)
EXTENDS Catalog, TLC

CONSTANTS op, ba, ag, b1, p1, c1, c2

MCUsers == {op, ba, ag}
ContentSymmetry == Permutations({c1, c2})

MCStaff == [u \in MCUsers |-> IF u = op THEN {"operator"} ELSE IF u = ba THEN {"admin"} ELSE {}]
=============================================================================
