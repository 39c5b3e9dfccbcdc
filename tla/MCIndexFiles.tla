----------------------------- MODULE MCIndexFiles -----------------------------
(* Instances of IndexFiles for TLC. *)
EXTENDS IndexFiles, TLC

CONSTANTS p1, p2

\* One path is longer than the other; one gram is in both documents.
BytesOf == p1 :> <<11>> @@ p2 :> <<12, 13>>
GramSets == p1 :> {21, 22} @@ p2 :> {22, 23}
===============================================================================
