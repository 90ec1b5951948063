---------------------------- MODULE MCAdmission ----------------------------
(* Admission for TLC: three listeners, one of them TLS, peers of two addresses. *)
EXTENDS Admission, TLC

CONSTANTS s1, s2, s3, a1, a2

Ips == s1 :> a1 @@ s2 :> a1 @@ s3 :> a2
SameAddr == Permutations({s1, s2})
=============================================================================
