------------------------------ MODULE MCTokens ------------------------------
(***************************************************************************)
(* One user, two pairs of tokens, two requests at a time, two moments in a *)
(* second.                                                                 *)
(***************************************************************************)
EXTENDS Tokens, TLC

CONSTANTS r1, r2, p1, p2, u1

Interchangeable == Permutations({r1, r2}) \cup Permutations({p1, p2})
=============================================================================
