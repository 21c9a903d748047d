----------------------------- MODULE MCAggPages -----------------------------
(* Instances of AggPages for TLC.                                           *)
EXTENDS AggPages, TLC

SymPages == Permutations(Pages)
=============================================================================
