------------------------ MODULE MCApplicationIntake ------------------------
(* Three calls for one lead; then two calls at a time on the file of the   *)
(* application one of them created, one of the two the farmer's.           *)
EXTENDS ApplicationFile

CONSTANTS r1, r2, r3, l1, farmer, staff, o1

MCRequests == {r1, r2, r3}
MCLeadOf   == [r \in MCRequests |-> l1]
=============================================================================
