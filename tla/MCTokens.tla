------------------------------ MODULE MCTokens ------------------------------
(* Instances of Tokens for TLC. *)
EXTENDS Tokens, TLC

CONSTANTS t1, t2, t3, c1, b1, b2, w1, w2

\* Requests that share a hazard run together.
AllScenes ==
  {{"resolve", "revoke", "setRole", "login"},
   {"resolve", "endSession", "login"},
   {"resolve", "revokeOthers", "login"},
   {"resolve", "revoke", "decide", "login"},
   {"resolve", "exchange", "authorize", "decide"},
   {"challenge"}}
=============================================================================
