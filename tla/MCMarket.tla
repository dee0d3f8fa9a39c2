------------------------------ MODULE MCMarket ------------------------------
(***************************************************************************)
(* A small board for TLC: any of the market.c calls, in any order.         *)
(***************************************************************************)
EXTENDS Market, TLC

\* Tags and documents are interchangeable: nothing orders or names one of them.
Symmetry == Permutations(Tag) \cup Permutations(DocId)
=============================================================================
