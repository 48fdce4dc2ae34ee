------------------------------- MODULE MCStock -------------------------------
(***************************************************************************)
(* Instances of Stock for TLC.                                             *)
(***************************************************************************)
EXTENDS Stock

CONSTANTS i1, i2

L(i, q) == [item |-> i, qty |-> q]

\* One line, one item in two lines, and two items.
MCLineLists == {<<L(i1, 1)>>, <<L(i1, 1), L(i1, 1)>>, <<L(i2, 1), L(i1, 1)>>}

\* Sessions are interchangeable, and so are the keys of documents.
MCSymmetry == Permutations(Requests) \cup Permutations(DocIds)
=============================================================================
