-------------------------- MODULE MCInvitationLedger --------------------------
(* Instances of InvitationLedger for TLC. *)
EXTENDS InvitationLedger, TLC

CONSTANTS a1, a2, i1, i2, c1, c2, c3, w1, w2

Fixed == [cap |-> 2, threshold |-> 2, contribution |-> FALSE, issuance |-> TRUE]

\* Links and claims under one setting.
LinkSettings == {Fixed}

\* The cap is lowered and raised under links and claims that are out.
CapSettings == {[Fixed EXCEPT !.contribution = TRUE, !.threshold = 1],
                [Fixed EXCEPT !.cap = 1, !.issuance = FALSE]}

\* Contributions switched on and off, cap and threshold moving.
AwardSettings ==
  {[cap |-> 1, threshold |-> 2, contribution |-> TRUE, issuance |-> TRUE],
   [cap |-> 2, threshold |-> 1, contribution |-> TRUE, issuance |-> FALSE],
   [cap |-> 2, threshold |-> 1, contribution |-> FALSE, issuance |-> TRUE]}

PlusMinusOne == {-1, 1}
MinusOneAndTwo == {-1, 2}

ClaimSymmetry == Permutations(Claims) \cup Permutations(Links)
WorkerSymmetry == Permutations(Workers)
===============================================================================
