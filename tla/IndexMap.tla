------------------------------- MODULE IndexMap -------------------------------
(***************************************************************************)
(* What an `Index` handle promises about content, with no documents ids,   *)
(* segments or delete sets: the working tree maps paths to content, edits  *)
(* are buffered per path, searches see one map (`visible`) and a later     *)
(* process sees another (`durable`).  OverlayIndex is shown to implement   *)
(* this specification.                                                     *)
(***************************************************************************)
CONSTANTS Path,        \* repository-relative paths
          Content,     \* contents that can be indexed
          Absent,      \* no file, or no document, at a path
          Unindexable  \* a binary, oversized or unreadable file

VARIABLES tree,     \* the working tree
          edits,    \* the buffered edit of each path, if any
          visible,  \* what a search of this handle is answered from
          durable   \* what a process that opens the directory now would see

mapVars == <<tree, edits, visible, durable>>

File == Content \cup {Absent, Unindexable}
Edit == {"none", "changed", "deleted"}
NoEdits == [p \in Path |-> "none"]

\* The content the index holds for a file: only readable text is indexed.
Indexed(file) == IF file \in Content THEN file ELSE Absent

\* The committed map after applying every buffered edit to the map m.
Applied(m) ==
    [p \in Path |-> CASE edits[p] = "changed" -> Indexed(tree[p])
                      [] edits[p] = "deleted" -> Absent
                      [] OTHER                -> m[p]]

Snapshot == [p \in Path |-> Indexed(tree[p])]

Init == /\ tree \in [Path -> File]
        /\ edits = NoEdits
        /\ visible = Snapshot
        /\ durable = Snapshot

\* Somebody edits the repository.
Touch == /\ \E p \in Path, f \in File : tree' = [tree EXCEPT ![p] = f]
         /\ UNCHANGED <<edits, visible, durable>>

\* notify_change and notify_delete: the last edit of a path wins.
Notify == /\ \E p \in Path, k \in Edit \ {"none"} : edits' = [edits EXCEPT ![p] = k]
          /\ UNCHANGED <<tree, visible, durable>>

\* commit_batch applies the whole buffer at once.
Commit == /\ visible' = Applied(visible)
          /\ edits' = NoEdits
          /\ UNCHANGED <<tree, durable>>

\* A flush or a compaction makes exactly the visible map durable.
Persist == /\ durable' = visible
           /\ UNCHANGED <<tree, edits, visible>>

\* A full rebuild indexes the tree and keeps the buffered edits.
Rebuild == /\ visible' = Snapshot
           /\ durable' = Snapshot
           /\ UNCHANGED <<tree, edits>>

\* Another process, or the same one after a crash, opens the directory.
Reopen == /\ visible' = durable
          /\ edits' = NoEdits
          /\ UNCHANGED <<tree, durable>>

Next == Touch \/ Notify \/ Commit \/ Persist \/ Rebuild \/ Reopen

Spec == Init /\ [][Next]_mapVars
===============================================================================
