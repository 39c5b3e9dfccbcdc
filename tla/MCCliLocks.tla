------------------------------ MODULE MCCliLocks ------------------------------
(* Instances of CliLocks for TLC. *)
EXTENDS CliLocks, TLC

CONSTANTS c1, c2, o1, f1, f2
===============================================================================
