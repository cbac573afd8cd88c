---------------------------- MODULE MCRegistration ----------------------------
(* Instances of Registration for TLC. *)
EXTENDS Registration, TLC

CONSTANTS a1, i1, u1, u2, v1, v2, e1

OneSetting == {[cap |-> 2, threshold |-> 2, contribution |-> FALSE, issuance |-> TRUE]}

VisitorSymmetry == Permutations(Visitors)

SameEmail == [u \in Users |-> e1]
===============================================================================
