-------------------------- MODULE MCRegistryClient --------------------------
(* A search for the fields, a request for an OTP, the consent under it.    *)
EXTENDS RegistryClient

CONSTANTS s1, o1, a1

MCOtpOf   == [a \in Acts |-> o1]
MCTopicOf == [s \in Searches |-> "fields"]
=============================================================================
