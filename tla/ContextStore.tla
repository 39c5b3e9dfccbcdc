----------------------------- MODULE ContextStore -----------------------------
(***************************************************************************)
(* The context engine's durable store: one writing process, one process    *)
(* that opened the store read-only, and the directory between them.        *)
(*                                                                         *)
(* In the writer, turns are recorded and forgotten under the memory lock   *)
(* and segments are written under the segment lock, so a turn is recorded  *)
(* while a write or a compaction runs.  The published snapshot has two     *)
(* halves, the durable segments and the live turns, each replaced by its   *)
(* own path.  A file is what its bytes say for ever (`bytes`); `present`   *)
(* is what the directory lists.  A torn journal record ends the replay and *)
(* is cut on open, so a torn append is an append that left nothing.        *)
(*                                                                         *)
(* Faults = {"write"}: an operation fails before its rename.  "sync" in    *)
(* Faults: it fails after the rename, when the directory cannot be synced  *)
(* or the new journal not reopened.                                        *)
(***************************************************************************)
EXTENDS Naturals, Sequences, FiniteSets, FiniteSetsExt

CONSTANTS Session, Key, Text, Nothing,
          Unreadable,  \* a text compile_all skips (binary, or too large)
          Faults,
          FlushTurns,  \* memory_flush_turns
          BatchDocs,   \* documents in a full segment (batch_bytes)
          MaxSegments, \* small segments maybe_compact tolerates
          MaxTurns,    \* bound: turns recorded
          MaxWrites,   \* bound: writes and compactions
          MaxEvents    \* bound: crashes, failed operations and loads by the reader

ASSUME StoreAssumption ==
    /\ Faults \subseteq {"write", "sync"}
    /\ FlushTurns \in Nat \ {0} /\ BatchDocs \in Nat \ {0}
    /\ Nothing \notin Text \cup {Unreadable} /\ Unreadable \notin Text

VARIABLES
    bytes,     \* content of every segment file ever written, by file number
    present,   \* segment files in the directory
    manifest,  \* manifest.json
    journal,   \* the records of journal.log
    writer,    \* the writing process: its manifest, live turns and journal handle
    shown,     \* live turns of the published snapshot (its segments are the manifest's)
    mem,       \* the turn operation that holds the memory lock
    seg,       \* the write that holds the segment lock
    reader,    \* the read-only process
    count,     \* operations so far, by kind
    acked,     \* history: turns recorded and not asked to be forgotten
    gone       \* history: conversations whose forgetting was reported done

hist == <<acked, gone>>
vars == <<bytes, present, manifest, journal, writer, shown, mem, seg, reader, count, hist>>

-------------------------------------------------------------------------------
(* Documents, segments and snapshots *)

\* A turn is indexed as the document `turn:<seq>`, if that compiles.
TurnDoc(t) == [key |-> <<"turn", t.seq>>, turn |-> {t},
               text |-> IF t.compiles THEN Nothing ELSE Unreadable]
FileDoc(k, v) == [key |-> <<"doc", k>>, turn |-> {}, text |-> v]
TurnDocs(turns) == {TurnDoc(t) : t \in turns}
KeysOf(docs) == {d.key : d \in docs}

\* What compile_all rejects goes to no segment: not to a file, nor to the live one.
Readable(docs) == {d \in docs : d.text # Unreadable}
Skipped(docs) == KeysOf(docs \ Readable(docs))
LiveDocs(turns) == Readable(TurnDocs(turns))

\* A manifest lists segment files, each with the keys of its dead documents.  Files are
\* listed in the order of their numbers.
Listed(m) == DOMAIN m.dead
Undead(m, f) == KeysOf(bytes[f]) \ m.dead[f]

\* StoreSnapshot::build: of a key in several places the last one counts, and none that
\* is dead; the live turns come last.
Alive(m, live, f) ==
    {d \in bytes[f] : /\ d.key \in Undead(m, f) \ KeysOf(LiveDocs(live))
                      /\ \A g \in Listed(m) : g > f => d.key \notin Undead(m, g)}
Visible(m, live) == (UNION {Alive(m, live, f) : f \in Listed(m)}) \cup LiveDocs(live)

\* The turns open keeps of a replayed journal.
AfterMutant(turns, through) == {t \in turns : t.seq > through + 1}
After(turns, through) == {t \in turns : t.seq > through}

Published == Visible(writer.manifest, shown)
\* What a process that opens the store now finds.
Recoverable == Visible(manifest, After(journal, manifest.through))

TurnsOf(docs) == UNION {d.turn : d \in docs}
DocsOf(docs) ==
    [k \in Key |->
        IF \E d \in docs : d.key = <<"doc", k>>
        THEN (CHOOSE d \in docs : d.key = <<"doc", k>>).text ELSE Nothing]

-------------------------------------------------------------------------------
(* Initial state: a store that was just created, and a reader that opened it *)

NoManifest == [gen |-> 0, dead |-> <<>>, through |-> 0]
Idle == [pc |-> "idle"]

\* `last` is the highest sequence number that the manifest or the journal records.
IsLast(last, m, live) ==
    m.through <= last /\ \A t \in live : t.seq <= last
Opened(m, live, last) ==
    [up |-> TRUE, manifest |-> m, live |-> live, next |-> last + 1, linked |-> TRUE]

Init ==
    /\ bytes = <<>> /\ present = {}
    /\ manifest = NoManifest /\ journal = {}
    /\ writer = Opened(NoManifest, {}, 0) /\ shown = {}
    /\ mem = Idle /\ seg = Idle
    /\ reader = [pc |-> "idle", manifest |-> NoManifest, turns |-> {}, next |-> NoManifest,
                 read |-> {}]
    /\ count = [turns |-> 0, writes |-> 0, events |-> 0]
    /\ acked = {} /\ gone = {}

Tick(kind) == count' = [count EXCEPT ![kind] = @ + 1]
CanFail(fault) == fault \in Faults /\ count.events < MaxEvents

-------------------------------------------------------------------------------
(* Writes: stage segment files, then commit one manifest *)

\* push and flush: batches end at a size in bytes, so a write may be cut into files
\* anywhere.
IsCut(cut, docs) ==
    /\ UNION {cut[i] : i \in DOMAIN cut} = docs
    /\ \A i \in DOMAIN cut : cut[i] # {} /\ Cardinality(cut[i]) <= BatchDocs
    /\ \A i, j \in DOMAIN cut : i # j => cut[i] \cap cut[j] = {}
Cuts(docs) ==
    {cut \in UNION {[1 .. n -> SUBSET docs] : n \in 0 .. Cardinality(docs)} : IsCut(cut, docs)}

\* A write whose files are on disk: what it publishes, removes, drops and makes durable.
\* It takes the segment lock; `by` is the operation it is part of.
NoWrite == [upserts |-> [k \in {} |-> Nothing], removals |-> {}]
Stage(by, asked, docs, removals, drop, through) ==
    /\ seg = Idle
    /\ \E cut \in Cuts(Readable(docs)) :
          LET files == Len(bytes) + 1 .. Len(bytes) + Len(cut) IN
          /\ bytes' = bytes \o cut
          /\ present' = present \cup files
          /\ seg' = [pc |-> "commit", by |-> by, asked |-> asked, files |-> files,
                     removals |-> removals \cup Skipped(docs), drop |-> drop,
                     through |-> through]

\* commit: removals of unknown or staged keys lapse.
StagedDocs(w) == UNION {bytes[f] : f \in w.files}
Removed(w) == (w.removals \ KeysOf(StagedDocs(w))) \cap KeysOf(Published)
SupersededIn(f, keys) == keys \cap KeysOf(Alive(writer.manifest, shown, f))
Committed(w) ==
    LET m == writer.manifest
        keys == KeysOf(StagedDocs(w)) \cup Removed(w)
    IN  [gen |-> m.gen + 1,
         dead |-> [f \in (Listed(m) \ w.drop) \cup w.files |->
                      IF f \in w.files THEN {} ELSE m.dead[f] \cup SupersededIn(f, keys)],
         through |-> IF w.through > m.through THEN w.through ELSE m.through]
Publishes(w) == w.files # {} \/ Removed(w) # {} \/ w.drop # {} \/ w.through # 0

\* The segment lock goes with the write, or stays with the turn operation it is part of.
Released == IF seg.by \in {"flush", "forget"} THEN [seg EXCEPT !.pc = "done"] ELSE Idle

\* A write with nothing to publish leaves the generation unchanged.
CommitNothing ==
    /\ seg.pc = "commit" /\ ~Publishes(seg)
    /\ seg' = Released
    /\ UNCHANGED <<bytes, present, manifest, journal, writer, shown, mem, reader, count, hist>>

\* The manifest is renamed into place and the snapshot replaced, with its live half
\* cleared by a flush.
Commit ==
    /\ seg.pc = "commit" /\ Publishes(seg)
    /\ manifest' = Committed(seg)
    /\ writer' = [writer EXCEPT !.manifest = Committed(seg),
                                !.live = IF seg.by = "flush" THEN {} ELSE @]
    /\ shown' = IF seg.by = "flush" THEN {} ELSE shown
    /\ seg' = [seg EXCEPT !.pc = "gc"]
    /\ UNCHANGED <<bytes, present, journal, mem, reader, count, hist>>

\* Staging or the new manifest's rename fails, or the rename is done and syncing the
\* directory fails.  The operation ends in an error and the process keeps its manifest.
CommitFails ==
    /\ seg.pc = "commit" /\ Publishes(seg)
    /\ \/ CanFail("write") /\ UNCHANGED manifest
       \/ CanFail("sync") /\ manifest' = Committed(seg)
    /\ Tick("events")
    /\ seg' = Idle
    /\ mem' = IF seg.by \in {"flush", "forget"} THEN Idle ELSE mem
    /\ UNCHANGED <<bytes, present, journal, writer, shown, reader, hist>>

\* gc: what the manifest does not name goes, before the lock is released.
CollectedMutant(m) == present \cap (Listed(m) \ seg.files)
Collected(m) == present \cap Listed(m)
Collect ==
    /\ seg.pc = "gc"
    /\ present' = Collected(writer.manifest)
    /\ seg' = Released
    /\ UNCHANGED <<bytes, manifest, journal, writer, shown, mem, reader, count, hist>>

\* apply: upsert and remove in one generation.  Of a key asked for twice the last text
\* counts.
Apply(upserts, removals) ==
    /\ writer.up /\ count.writes < MaxWrites
    /\ Stage("apply", [upserts |-> upserts, removals |-> removals],
             {FileDoc(k, upserts[k]) : k \in DOMAIN upserts},
             {<<"doc", k>> : k \in removals}, {}, 0)
    /\ Tick("writes")
    /\ UNCHANGED <<manifest, journal, writer, shown, mem, reader, hist>>

\* rewrite: the live documents of the chosen segments go to new segments.
Small(f) == Cardinality(bytes[f]) < BatchDocs
RewriteDocsMutant(chosen) == UNION {bytes[f] : f \in chosen}
RewriteDocs(chosen) == UNION {Alive(writer.manifest, shown, f) : f \in chosen}
Compact(by, chosen) ==
    /\ writer.up /\ count.writes < MaxWrites
    /\ \/ Cardinality(chosen) > 1
       \/ \E f \in chosen : Alive(writer.manifest, shown, f) # bytes[f]
    /\ Stage(by, NoWrite, RewriteDocs(chosen), {}, chosen, 0)
    /\ Tick("writes")
    /\ UNCHANGED <<manifest, journal, writer, shown, mem, reader, hist>>

CompactAll == Compact("compact", Listed(writer.manifest))
\* maybe_compact merges the small segments when there are too many.
CompactSmall ==
    LET small == {f \in Listed(writer.manifest) : Small(f)} IN
    Cardinality(small) > MaxSegments /\ Compact("merge", small)

-------------------------------------------------------------------------------
(* Turns *)

\* append_turn takes the memory lock and writes the record, of a turn that compiles or not.
AppendBegin(s, compiles) ==
    /\ writer.up /\ mem = Idle /\ count.turns < MaxTurns
    /\ mem' = [pc |-> "append",
               turn |-> [seq |-> writer.next, session |-> s, text |-> count.turns + 1,
                         compiles |-> compiles]]
    /\ Tick("turns")
    /\ gone' = gone \ {s}
    /\ UNCHANGED <<bytes, present, manifest, journal, writer, shown, seg, reader, acked>>

\* The record is synced.  A journal handle left behind by a rotation writes to a file
\* the directory no longer lists.
Journaled(t) == IF writer.linked THEN journal \cup {t} ELSE journal
AppendDone ==
    /\ mem.pc = "append"
    /\ journal' = Journaled(mem.turn)
    /\ writer' = [writer EXCEPT !.live = @ \cup {mem.turn}, !.next = @ + 1]
    /\ mem' = [mem EXCEPT !.pc = "appended"]
    /\ UNCHANGED <<bytes, present, manifest, shown, seg, reader, count, hist>>

\* The append fails and is cut back.
AppendFails ==
    /\ mem.pc = "append" /\ CanFail("write")
    /\ Tick("events")
    /\ mem' = Idle
    /\ UNCHANGED <<bytes, present, manifest, journal, writer, shown, seg, reader, hist>>

\* Too few live turns, or a write holds the segment lock: publish the turn and return.
AppendPublish ==
    /\ mem.pc = "appended"
    /\ Cardinality(writer.live) < FlushTurns \/ seg # Idle
    /\ shown' = writer.live
    /\ acked' = acked \cup {mem.turn}
    /\ mem' = Idle
    /\ UNCHANGED <<bytes, present, manifest, journal, writer, seg, reader, count, gone>>

\* flush_memory_locked stages every live turn; those that do not compile are dropped.
StageFlush ==
    \E last \in writer.live :
        /\ \A t \in writer.live : t.seq <= last.seq
        /\ Stage("flush", NoWrite, TurnDocs(writer.live), {}, {}, last.seq)
AppendFlush ==
    /\ mem.pc = "appended" /\ Cardinality(writer.live) >= FlushTurns
    /\ StageFlush
    /\ mem' = [mem EXCEPT !.pc = "flush"]
    /\ UNCHANGED <<manifest, journal, writer, shown, reader, count, hist>>

\* flush_memory waits for both locks.
FlushMemory ==
    /\ writer.up /\ mem = Idle
    /\ StageFlush
    /\ mem' = [pc |-> "flush"]
    /\ UNCHANGED <<manifest, journal, writer, shown, reader, count, hist>>

\* Journal::create over the old journal: done, failed before the rename, or failed
\* after it, with the process still holding the old file.
Rewrite(keep) == journal' = keep /\ writer' = [writer EXCEPT !.linked = TRUE]
RewriteFails(keep) ==
    /\ Tick("events")
    /\ \/ CanFail("write") /\ UNCHANGED <<journal, writer>>
       \/ CanFail("sync") /\ journal' = keep /\ writer' = [writer EXCEPT !.linked = FALSE]

\* The flush is committed; the rotation may fail and the flush still succeeds.
Rotate ==
    /\ seg.pc = "done" /\ seg.by = "flush"
    /\ \/ Rewrite({}) /\ UNCHANGED count
       \/ RewriteFails({})
    /\ seg' = Idle /\ mem' = Idle
    /\ acked' = IF "turn" \in DOMAIN mem THEN acked \cup {mem.turn} ELSE acked
    /\ UNCHANGED <<bytes, present, manifest, shown, reader, gone>>

\* forget_session: the journal is rewritten without the conversation's live turns.
Kept(s) == {t \in writer.live : t.session # s}
Unack(s) == acked' = {t \in acked : t.session # s}
Known(s) == \E t \in TurnsOf(Published) \cup writer.live : t.session = s
ForgetJournaled(s) ==
    /\ writer.up /\ mem = Idle /\ Known(s)
    /\ Unack(s)
    /\ IF Kept(s) = writer.live THEN UNCHANGED <<journal, writer, shown>>
       ELSE /\ journal' = Kept(s)
            /\ writer' = [writer EXCEPT !.linked = TRUE, !.live = Kept(s)]
            /\ shown' = Kept(s)
    /\ mem' = [pc |-> "forget", session |-> s]
    /\ UNCHANGED <<bytes, present, manifest, seg, reader, count, gone>>
ForgetFails(s) ==
    /\ writer.up /\ mem = Idle /\ Kept(s) # writer.live
    /\ RewriteFails(Kept(s))
    /\ Unack(s)
    /\ UNCHANGED <<bytes, present, manifest, shown, mem, seg, reader, gone>>

\* Then what is left of it in the snapshot is marked dead.
SessionKeysMutant(s) == KeysOf(TurnDocs({t \in writer.live : t.session = s}))
SessionKeys(s) == KeysOf({d \in Published : \E t \in d.turn : t.session = s})
ForgetCompacted ==
    /\ mem.pc = "forget" /\ SessionKeys(mem.session) # {}
    /\ Stage("forget", NoWrite, {}, SessionKeys(mem.session), {}, 0)
    /\ mem' = [mem EXCEPT !.pc = "unindex"]
    /\ UNCHANGED <<manifest, journal, writer, shown, reader, count, hist>>
ForgetDone ==
    /\ \/ mem.pc = "forget" /\ SessionKeys(mem.session) = {} /\ UNCHANGED seg
       \/ mem.pc = "unindex" /\ seg.pc = "done" /\ seg' = Idle
    /\ gone' = gone \cup {mem.session}
    /\ mem' = Idle
    /\ UNCHANGED <<bytes, present, manifest, journal, writer, shown, reader, count, acked>>

-------------------------------------------------------------------------------
(* Death and reopening of the writing process *)

\* The process dies.  A record being appended is whole or torn; a torn one is cut on open.
Crash ==
    /\ writer.up /\ count.events < MaxEvents
    /\ Tick("events")
    /\ \/ UNCHANGED journal
       \/ mem.pc = "append" /\ journal' = Journaled(mem.turn)
    /\ writer' = [writer EXCEPT !.up = FALSE]
    /\ mem' = Idle /\ seg' = Idle
    /\ UNCHANGED <<bytes, present, manifest, shown, reader, hist>>

\* open: replay what the manifest does not hold, and sweep.
Open ==
    /\ ~writer.up
    /\ LET live == After(journal, manifest.through) IN
       /\ \E last \in {manifest.through} \cup {t.seq : t \in live} :
             IsLast(last, manifest, live) /\ writer' = Opened(manifest, live, last)
       /\ shown' = live
    /\ present' = Collected(manifest)
    /\ UNCHANGED <<bytes, manifest, journal, mem, seg, reader, count, hist>>

-------------------------------------------------------------------------------
(* The read-only process: one attempt of load_read_only, which takes no lock *)

ReadManifest ==
    /\ reader.pc = "idle" /\ count.events < MaxEvents
    /\ Tick("events")
    /\ reader' = [reader EXCEPT !.pc = "journal", !.next = manifest]
    /\ UNCHANGED <<bytes, present, manifest, journal, writer, shown, mem, seg, hist>>

\* The turns of a load are kept aside until its segments are open.
ReadJournal ==
    /\ reader.pc = "journal"
    /\ reader' = [reader EXCEPT !.pc = "open", !.read = After(journal, reader.next.through)]
    /\ UNCHANGED <<bytes, present, manifest, journal, writer, shown, mem, seg, count, hist>>

\* open_durable reuses the segments the old snapshot holds open; a file that is gone
\* ends the attempt.
Openable(m) == Listed(m) \subseteq present \cup Listed(reader.manifest)
LiveThrough(turns) == Max({0} \cup {t.seq : t \in turns})
\* reload publishes when the generation or the last live turn differs.
Differs ==
    \/ reader.next.gen # reader.manifest.gen
    \/ LiveThrough(reader.read) # LiveThrough(reader.turns)

OpenSegments ==
    /\ reader.pc = "open"
    /\ LET loads == Openable(reader.next) /\ Differs IN
       reader' = [pc |-> "idle",
                  manifest |-> IF loads THEN reader.next ELSE reader.manifest,
                  turns |-> IF loads THEN reader.read ELSE reader.turns,
                  next |-> NoManifest, read |-> {}]
    /\ UNCHANGED <<bytes, present, manifest, journal, writer, shown, mem, seg, count, hist>>

-------------------------------------------------------------------------------
Upserts == UNION {[K -> Text \cup {Unreadable}] : K \in SUBSET Key}
Writes ==
    \/ \E u \in Upserts, r \in SUBSET Key : DOMAIN u \cup r # {} /\ Apply(u, r \ DOMAIN u)
    \/ CompactAll \/ CompactSmall
    \/ CommitNothing \/ Commit \/ CommitFails \/ Collect
Turns ==
    \/ \E s \in Session, compiles \in BOOLEAN : AppendBegin(s, compiles)
    \/ \E s \in Session : ForgetJournaled(s) \/ ForgetFails(s)
    \/ AppendDone \/ AppendFails \/ AppendPublish \/ AppendFlush
    \/ FlushMemory \/ Rotate \/ ForgetCompacted \/ ForgetDone
Reads == ReadManifest \/ ReadJournal \/ OpenSegments

Next == Writes \/ Turns \/ Crash \/ Open \/ Reads
Spec == Init /\ [][Next]_vars

-------------------------------------------------------------------------------
(* Properties *)

TypeOK ==
    /\ \A f \in DOMAIN bytes : bytes[f] # {}
    /\ present \subseteq DOMAIN bytes
    /\ \A m \in {manifest, writer.manifest, reader.manifest, reader.next} :
          /\ Listed(m) \subseteq DOMAIN bytes
          /\ \A f \in Listed(m) : m.dead[f] \subseteq KeysOf(bytes[f])
    /\ seg.pc \in {"idle", "commit", "gc", "done"}
    /\ mem.pc \in {"idle", "append", "appended", "flush", "forget", "unindex"}
    /\ reader.pc \in {"idle", "journal", "open"}
    /\ Listed(manifest) \subseteq present

\* The durable content, what a process opening the directory would find, changes only
\* as the abstract book says: a record, a forget or a write does it in one step, and a
\* flush, a rotation, a compaction, a collection and a crash at any point do nothing.
Book == INSTANCE ContextBook WITH
    book <- [turns |-> TurnsOf(Recoverable), docs |-> DocsOf(Recoverable)],
    turn <- CASE mem.pc = "append" -> [record |-> mem.turn]
              [] mem.pc \in {"forget", "unindex"} -> [forget |-> mem.session]
              [] OTHER -> <<>>,
    write <- IF seg = Idle THEN NoWrite ELSE seg.asked
ImplementsBook == Book!BSpec

\* append_turn "durably records" and makes searchable: a turn it returned for is found
\* again by any later open, whatever flush, rotation, compaction or crash came between;
\* but for a turn that does not compile, which append_turn returns for as well, which no
\* search finds, and which the next flush drops.
AckedIsRecoverable == {t \in acked : t.compiles} \subseteq TurnsOf(Recoverable)

\* A conversation reported forgotten is neither shown nor found by a restart, whether
\* its turns were journaled, compacted or both, and whether they compile or not.
ForgottenStaysGone ==
    \A t \in TurnsOf(Recoverable \cup Published) \cup After(journal, manifest.through) :
        t.session \notin gone
===============================================================================
