------------------------------ MODULE MCPayroll ------------------------------
(***************************************************************************)
(* One member of staff, one order with two lines of labour, two sessions.  *)
(***************************************************************************)
EXTENDS Payroll

CONSTANTS r1, r2, s1, o1, l1, l2, c1, c2, k1, k2, a1, a2, p1, p2

Interchangeable == Permutations({r1, r2})
=============================================================================
