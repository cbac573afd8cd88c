-------------------------- MODULE MCEmailVerification --------------------------
(* Instances of EmailVerification for TLC. *)
EXTENDS EmailVerification, TLC

CONSTANTS r1, r2

RequestSymmetry == Permutations(Requests)
================================================================================
