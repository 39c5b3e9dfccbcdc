------------------------------ MODULE MCEmbedJob ------------------------------
(* Instances of EmbedJob for TLC. *)
EXTENDS EmbedJob, TLC

CONSTANTS r1, r2, m1, m2, d1, d2, x, y, z, blank, mute

\* A text without a vector comes between the others.
PlainRank == [t \in Text |-> CASE t = y -> 3 [] t = mute -> 1 [] OTHER -> 0]
===============================================================================
