----------------------------- MODULE MCFreshness -----------------------------
(* Instances of Freshness for TLC; paths and contents are interchangeable. *)
EXTENDS Freshness, TLC

CONSTANTS p1, p2, c1, c2

DataSymmetry == Permutations(Path) \cup Permutations(Content)
===============================================================================
