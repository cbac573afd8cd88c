---------------------------- MODULE MCPermissions ----------------------------
(* Instance of Permissions for TLC. *)
EXTENDS Permissions, TLC

CONSTANTS a, v, h1, h2

\* The handlers are interchangeable.
HandlerSymmetry == Permutations(Handlers)
=============================================================================
