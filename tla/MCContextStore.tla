---------------------------- MODULE MCContextStore ----------------------------
(* Instances of ContextStore for TLC. *)
EXTENDS ContextStore, TLC

CONSTANTS s1, s2, k1, k2, v1, v2

\* Conversations, keys and texts are interchangeable.
DataSymmetry == Permutations(Session) \cup Permutations(Key) \cup Permutations(Text)
===============================================================================
