----------------------------- MODULE MCSourceSync -----------------------------
(* Instances of SourceSync for TLC. *)
EXTENDS SourceSync, TLC

CONSTANTS t1, t2, p1, p2
===============================================================================
