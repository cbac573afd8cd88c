----------------------------- MODULE MCDeadLetters -----------------------------
(* Instances of DeadLetters for TLC. *)
EXTENDS DeadLetters

CONSTANTS w1, w2, b1, b2

WhoSymmetry == Permutations(Consumers) \cup Permutations(Admins)
================================================================================
