------------------------------ MODULE ContextBook ------------------------------
(***************************************************************************)
(* What a context store promises: a book of conversation turns and a map   *)
(* of documents.  Its callers ask for one turn operation and one write at  *)
(* a time; an operation takes effect in one step or not at all, and        *)
(* nothing else changes the book: rotation, compaction, collection, a      *)
(* crash and a reopening are invisible here.                               *)
(***************************************************************************)
EXTENDS Naturals, FiniteSets

CONSTANTS Session,    \* conversations
          Key,        \* document keys other than those of turns
          Text,       \* document texts
          Unreadable, \* a text that is not indexed
          Nothing     \* what the map holds for a key without a document

VARIABLES book,  \* its turns and its documents
          turn,  \* the turn operation asked for: record a turn, forget a conversation
          write  \* the write asked for: documents to replace, keys to remove

bvars == <<book, turn, write>>

BInit ==
    /\ book = [turns |-> {}, docs |-> [k \in Key |-> Nothing]]
    /\ turn = <<>>
    /\ write = [upserts |-> [k \in {} |-> Nothing], removals |-> {}]

\* The turn asked for enters, if it is indexed, under a sequence number no turn of the
\* book has.
Record(old, new) ==
    /\ turn.record.compiles
    /\ new.docs = old.docs
    /\ new.turns = old.turns \cup {turn.record}
    /\ \A u \in old.turns : u.seq < turn.record.seq

\* Turns of the conversation to forget go, the journaled ones first.
Forget(old, new) ==
    /\ new.docs = old.docs
    /\ new.turns \subseteq old.turns
    /\ \A t \in old.turns \ new.turns : t.session = turn'.forget

\* The write asked for, all of it: a document that is not indexed is removed.
Write(old, new) ==
    /\ new.turns = old.turns
    /\ new.docs = [k \in Key |->
          CASE k \in DOMAIN write.upserts ->
                 IF write.upserts[k] = Unreadable THEN Nothing ELSE write.upserts[k]
            [] k \notin DOMAIN write.upserts /\ k \in write.removals -> Nothing
            [] OTHER -> old.docs[k]]

\* A step that changes the book is the effect of what is asked for.
BNext ==
    \E old \in {book}, new \in {book'} :
        \/ new = old
        \/ "record" \in DOMAIN turn /\ Record(old, new)
        \/ "forget" \in DOMAIN turn' /\ Forget(old, new)
        \/ Write(old, new)

BSpec == BInit /\ [][BNext]_bvars
===============================================================================
