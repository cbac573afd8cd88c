------------------------------ MODULE CreditBank ------------------------------
(***************************************************************************)
(* What the invitation ledger promises, without links, claims, audit rows  *)
(* or awards: an account has credits that are free, credits that it holds  *)
(* out (on links or with claims), and credits that its invitations spent.  *)
(* Credits come from nowhere only up to the limit, leave held only one at  *)
(* a time for a completed sign-up, and are lost only when they are reset.  *)
(***************************************************************************)
EXTENDS Integers

CONSTANT Accounts

VARIABLES
  limit,   \* the ownership cap in force
  free,    \* credits an account may still issue
  held,    \* credits out on links or with undecided sign-ups
  spent    \* credits that completed sign-ups cost it

bank == <<limit, free, held, spent>>

BankInit ==
  /\ limit \in Nat
  /\ free = [a \in Accounts |-> 0]
  /\ held = [a \in Accounts |-> 0]
  /\ spent = [a \in Accounts |-> 0]

\* Credits go out on a link, or come back from it: nothing is minted or lost.
Exchange(a) ==
  /\ free' = [free EXCEPT ![a] = @ + (held[a] - held'[a])]
  /\ held' = [held EXCEPT ![a] = held'[a]]
  /\ free'[a] \in Nat /\ held'[a] \in Nat
  /\ UNCHANGED <<limit, spent>>

\* A sign-up completes: its inviter pays the one credit that was out for it.
Spend(a) ==
  /\ held[a] > 0
  /\ held' = [held EXCEPT ![a] = @ - 1]
  /\ spent' = [spent EXCEPT ![a] = @ + 1]
  /\ UNCHANGED <<limit, free>>

\* Credits are granted, awarded, taken away or clamped: nobody is given more
\* than fits under the limit in force.
Regulate ==
  /\ \A a \in Accounts : free'[a] > free[a] => free'[a] + held[a] <= limit'
  /\ UNCHANGED <<held, spent>>

\* The accounts of A lose what is free and what is still on their links.
Reset(A) ==
  /\ free' = [a \in Accounts |-> IF a \in A THEN 0 ELSE free[a]]
  /\ \A a \in Accounts : held'[a] <= held[a] /\ (a \notin A => held'[a] = held[a])
  /\ UNCHANGED <<limit, spent>>

BankNext ==
  \/ \E a \in Accounts : Exchange(a) \/ Spend(a)
  \/ Regulate
  \/ \E A \in SUBSET Accounts : Reset(A)

BankSpec == BankInit /\ [][BankNext]_bank
===============================================================================
