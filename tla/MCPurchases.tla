---------------------------- MODULE MCPurchases ----------------------------
(***************************************************************************)
(* One supplier, one purchase and two returns of it, two sessions.         *)
(***************************************************************************)
EXTENDS Purchases, TLC

CONSTANTS r1, r2, t1, t2, s1, p1

Interchangeable == Permutations({r1, r2}) \cup Permutations({t1, t2})
=============================================================================
