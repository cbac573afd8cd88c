-------------------------- MODULE MCRelationships --------------------------
EXTENDS Relationships, TLC

\* Accounts, row ids and workers are interchangeable: Init chooses every
\* assignment of the accounts.
Interchangeable == Permutations(Accounts) \cup Permutations(Ids) \cup Permutations(Workers)
=============================================================================
