------------------------------- MODULE MCSales -------------------------------
(***************************************************************************)
(* Instances of Sales for TLC.                                             *)
(***************************************************************************)
EXTENDS Sales, TLC

\* Sessions are interchangeable, and so are the keys of invoices and returns.
MCSymmetry ==
    Permutations(Requests) \cup Permutations(Invoices) \cup Permutations(Returns)
=============================================================================
