------------------------------ MODULE MCAccess ------------------------------
(* A small instance of Access for TLC. *)
EXTENDS Access, TLC

CONSTANTS q1, q2, alice, bob, super, clerk

Sym == Permutations({q1, q2})
=============================================================================
