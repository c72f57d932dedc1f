-------------------------- MODULE MCConsentRequest --------------------------
(* One key used twice, an OTP verified twice, a consent submitted twice.   *)
EXTENDS ConsentRequest

CONSTANTS o1, o2, v1, v2, u1, u2, j1

MCActs   == {v1, v2, u1, u2}
MCKindOf == [c \in MCActs |-> IF c \in {v1, v2} THEN "verify" ELSE "submit"]
=============================================================================
