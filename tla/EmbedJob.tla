------------------------------- MODULE EmbedJob -------------------------------
(***************************************************************************)
(* The vectors of the context store: embedding runs, which hold no lock,   *)
(* the sidecar files they write beside the segments, the tables loaded for *)
(* queries, and the writes and compactions that go on meanwhile.           *)
(*                                                                         *)
(* A document has one passage, and a passage is the text embedded for it   *)
(* (breadcrumb, symbol and body); a row of a table holds the hash of the   *)
(* text its vector was computed for.  Segment names are never used again,  *)
(* so segments are numbered as they are written.  `Mute` texts get a zero  *)
(* vector, which has no quantized form.                                    *)
(***************************************************************************)
EXTENDS Naturals, Sequences, FiniteSets, SequencesExt, FiniteSetsExt

CONSTANTS Run, Model, Doc, Text,
          Blank, Mute,    \* texts without a body, and with a zero vector
          Rank,           \* prose first: the rank of each text
          Batch,          \* EmbedOptions.batch
          MaxPassages,    \* EmbedOptions.max_passages
          Prune,          \* EmbedOptions.prune_other_models
          MaxWrites,      \* bound: documents put or removed
          MaxCompactions, \* bound: compactions
          MaxFaults       \* bound: failed calls and writes, cancels, crashes

ASSUME EmbedAssumption ==
    /\ Blank \cup Mute \subseteq Text
    /\ Rank \in [Text -> Nat]
    /\ Batch \in Nat \ {0} /\ MaxPassages \in Nat \ {0} /\ Prune \in BOOLEAN

VARIABLES
    passages,  \* every segment ever written: a sequence of [doc, text]
    segments,  \* the durable segments of the manifest and the snapshot
    generation,\* the manifest's generation
    dead,      \* dead passages, as <<segment, row>>
    files,     \* sidecars in the directory: for each model, tables by segment
    cache,     \* VectorCache: for each model [snap, tables], or None
    run,       \* the embedding runs
    compacting,\* the compaction that holds the segment lock, or None
    count,     \* operations so far, by kind
    covered,   \* history: the passages that the last undisturbed run of a model reported
               \* covered, where compactions have moved them
    mixed      \* history: models whose files and loaded tables may have come apart

hist == <<covered, mixed>>
store == <<passages, segments, generation, dead>>
vars == <<store, files, cache, run, compacting, count, hist>>

None == [absent |-> TRUE]
Idle == [pc |-> "idle"]
NoTables == <<>>
Broken == <<>>  \* a sidecar whose checksum or header is wrong
Tick(kind) == count' = [count EXCEPT ![kind] = @ + 1]
CanFail == count.faults < MaxFaults

\* A snapshot's segments, dead passages and generation (the writes so far).
Snapshot == [segments |-> segments, dead |-> dead, generation |-> generation]
Rows(s) == 1 .. Len(passages[s])
Passages(snap) == {a \in UNION {{s} \X Rows(s) : s \in snap.segments} : a \notin snap.dead}
TextAt(a) == passages[a[1]][a[2]].text
Places(d) == {a \in Passages(Snapshot) : passages[a[1]][a[2]].doc = d}
Extend(tables, new) ==
    [s \in DOMAIN tables \cup DOMAIN new |-> IF s \in DOMAIN new THEN new[s] ELSE tables[s]]
One(s, table) == [t \in {s} |-> table]
Kept(tables, S) == [s \in DOMAIN tables \cap S |-> tables[s]]
\* S in the order of Precedes: what SetToSortSeq gives, stated so that it can be reasoned about.
Ordered(S, Precedes(_, _)) ==
    CHOOSE q \in [1 .. Cardinality(S) -> S] :
        \A i, j \in 1 .. Cardinality(S) : i < j => Precedes(q[i], q[j])
Earlier(a, b) == a[1] < b[1] \/ (a[1] = b[1] /\ a[2] < b[2])

Init ==
    /\ passages = <<>> /\ segments = {} /\ generation = 0 /\ dead = {}
    /\ files = [m \in Model |-> NoTables]
    /\ cache = [m \in Model |-> None]
    /\ run = [r \in Run |-> Idle]
    /\ compacting = None
    /\ count = [writes |-> 0, compactions |-> 0, faults |-> 0]
    /\ covered = [m \in Model |-> {}] /\ mixed = {}

-------------------------------------------------------------------------------
(* Writes and compactions, under the segment lock *)

\* Every run in flight meets something it was not planned for.
Disturbed == [r \in Run |-> IF run[r] = Idle THEN Idle ELSE [run[r] EXCEPT !.alone = FALSE]]

\* gc: sidecars of segments the manifest no longer names are removed.
PublishMutant(listed, gone) ==
    /\ segments' = listed /\ generation' = generation + 1
    /\ dead' = dead \cup gone
    /\ files' = [m \in Model |-> Kept(files[m], listed)]
Publish(listed, gone) ==
    /\ segments' = listed /\ generation' = generation + 1
    /\ dead' = {a \in dead \cup gone : a[1] \in listed}
    /\ files' = [m \in Model |-> Kept(files[m], listed)]

Put(d, x) ==
    /\ compacting = None /\ count.writes < MaxWrites /\ Tick("writes")
    /\ passages' = Append(passages, <<[doc |-> d, text |-> x]>>)
    /\ Publish(segments \cup {Len(passages) + 1}, Places(d))
    /\ UNCHANGED <<cache, run, compacting, hist>>

Delete(d) ==
    /\ compacting = None /\ count.writes < MaxWrites /\ Tick("writes")
    /\ Places(d) # {}
    /\ Publish(segments, Places(d))
    /\ UNCHANGED <<passages, cache, run, compacting, hist>>

\* A sidecar that fails validation counts as missing.
Decoded(m) == Kept(files[m], {s \in DOMAIN files[m] : files[m][s] # Broken})

\* collect: the vectors of the segments about to be dropped, by the text they are for.
CarriedMutant(S) ==
    [m \in Model |-> IF cache[m] = None THEN {}
        ELSE (UNION {ToSet(cache[m].tables[s]) : s \in S \cap DOMAIN cache[m].tables}) \ {None}]
Carried(S) ==
    [m \in Model |-> (UNION {ToSet(Decoded(m)[s]) : s \in S \cap DOMAIN Decoded(m)}) \ {None}]

\* rewrite, of all segments or of the small ones alone, which it selects by size (any may be
\* small): nothing to do for one segment with nothing dead.
CompactCollect(S) ==
    /\ compacting = None /\ count.compactions < MaxCompactions /\ Tick("compactions")
    /\ Cardinality(S) > 1 \/ \E a \in dead : a[1] \in S
    /\ compacting' = [drop |-> S, carried |-> Carried(S), committed |-> FALSE, todo |-> {}]
    /\ run' = Disturbed
    /\ UNCHANGED <<store, files, cache, hist>>

\* The live documents of the dropped segments, in one new segment.
Live(S) == Ordered({a \in Passages(Snapshot) : a[1] \in S}, Earlier)
\* A covered passage of a dropped segment is now each passage of the new one with its text.
Moves(X, S) ==
    LET live == Live(S)
        texts == {TextAt(a) : a \in {b \in X : b[1] \in S}}
    IN  {a \in X : a[1] \notin S}
        \cup {<<Len(passages) + 1, i>> : i \in {j \in DOMAIN live : TextAt(live[j]) \in texts}}
CompactCommit ==
    /\ compacting # None /\ ~compacting.committed
    /\ LET live == Live(compacting.drop)
           docs == [i \in DOMAIN live |-> passages[live[i][1]][live[i][2]]]
           new == IF docs = <<>> THEN {} ELSE {Len(passages) + 1}
       IN  /\ passages' = passages \o (IF docs = <<>> THEN <<>> ELSE <<docs>>)
           /\ Publish((segments \ compacting.drop) \cup new, {})
           /\ compacting' = [compacting EXCEPT !.committed = TRUE, !.todo =
                                {m \in Model : new # {} /\ compacting.carried[m] # {}}]
    /\ covered' = [m \in Model |-> Moves(covered[m], compacting.drop)]
    /\ UNCHANGED <<cache, run, count, mixed>>

\* insert: only a model whose tables are loaded sees what was written.
Inserted(m, new) ==
    IF cache[m] = None THEN cache
    ELSE [cache EXCEPT ![m].tables = Extend(@, new)]

\* carry_vectors: a sidecar for the new segment, from the texts carried.
CarriedTableMutant(m, s) ==
    LET row == SetToSeq(compacting.carried[m])
    IN  [p \in Rows(s) |-> IF p \in DOMAIN row THEN row[p] ELSE None]
CarriedTable(m, s) ==
    [p \in Rows(s) |-> IF passages[s][p].text \in compacting.carried[m]
                       THEN passages[s][p].text ELSE None]
CompactCarry(m) ==
    /\ compacting # None /\ m \in compacting.todo
    /\ LET s == Len(passages)
           table == CarriedTable(m, s)
           new == IF ToSet(table) \subseteq {None} THEN NoTables ELSE One(s, table)
       IN  \/ /\ files' = [files EXCEPT ![m] = Extend(@, new)]
              /\ cache' = Inserted(m, new)
              /\ UNCHANGED <<count, covered>>
           \/ /\ new # NoTables /\ CanFail /\ Tick("faults")
              /\ covered' = [covered EXCEPT ![m] = {a \in @ : a[1] # s}]
              /\ UNCHANGED <<files, cache>>
    /\ compacting' = [compacting EXCEPT !.committed = TRUE, !.todo = @ \ {m}]
    /\ UNCHANGED <<store, run, mixed>>
CompactEnd ==
    /\ compacting # None /\ compacting.committed /\ compacting.todo = {}
    /\ compacting' = None
    /\ UNCHANGED <<store, files, cache, run, count, hist>>

-------------------------------------------------------------------------------
(* The tables of a snapshot *)

\* A table already loaded is kept; a sidecar is read for a segment not seen before.
Merged(m) == IF cache[m] = None THEN Decoded(m) ELSE Extend(Decoded(m), cache[m].tables)
Tables(m, snap) ==
    IF cache[m] # None /\ cache[m].generation = snap.generation THEN cache[m].tables
    ELSE Kept(Merged(m), snap.segments)
Loaded(m, snap) == [generation |-> snap.generation, tables |-> Tables(m, snap)]
Embedded(tables, a) == a[1] \in DOMAIN tables /\ tables[a[1]][a[2]] # None
Served(m) == {a \in Passages(Snapshot) : Embedded(Tables(m, Snapshot), a)}

Query(m) ==
    /\ cache' = [cache EXCEPT ![m] = Loaded(m, Snapshot)]
    /\ UNCHANGED <<store, files, run, compacting, count, hist>>

-------------------------------------------------------------------------------
(* An embedding run *)

At(r, pc) == run[r].pc = pc

Start(r, m) ==
    /\ run[r] = Idle
    /\ run' = [q \in Run |-> IF q = r
                 THEN [pc |-> "load", model |-> m, snap |-> Snapshot,
                       alone |-> compacting = None /\ \A o \in Run : run[o] = Idle]
                 ELSE Disturbed[q]]
    /\ UNCHANGED <<store, files, cache, compacting, count, hist>>

\* A passage with a vector is covered; one whose text has a vector anywhere gets that
\* vector; the others are work, and the segments of both have a table staged.
Vectors(tables) == (UNION {ToSet(tables[s]) : s \in DOMAIN tables}) \ {None}
LackingMutant(tables, snap) ==
    {a \in Passages(snap) : a[1] \notin DOMAIN tables /\ TextAt(a) \notin Blank}
Lacking(tables, snap) ==
    {a \in Passages(snap) : ~Embedded(tables, a) /\ TextAt(a) \notin Blank}
Before(a, b) == \/ Rank[TextAt(a)] < Rank[TextAt(b)]
                \/ Rank[TextAt(a)] = Rank[TextAt(b)] /\ Earlier(a, b)
\* Identical text is queued once, where it comes first.
Firsts(work) == {a \in work : \A b \in work : TextAt(b) = TextAt(a) => b = a \/ Before(a, b)}
Fill(tables, segs, texts, snap) ==
    [s \in segs |-> [p \in Rows(s) |->
        LET has == s \in DOMAIN tables IN
        IF has /\ tables[s][p] # None THEN tables[s][p]
        ELSE IF <<s, p>> \in Passages(snap) /\ passages[s][p].text \in texts
             THEN passages[s][p].text ELSE None]]

Load(r) ==
    /\ At(r, "load")
    /\ LET m == run[r].model
           snap == run[r].snap
           existing == Tables(m, snap)
           lacking == Lacking(existing, snap)
           work == Ordered(Firsts({a \in lacking : TextAt(a) \notin Vectors(existing)}), Before)
           texts == [i \in DOMAIN work |-> TextAt(work[i])]
       IN  /\ cache' = [cache EXCEPT ![m] = Loaded(m, snap)]
           /\ run' = [run EXCEPT ![r] = [pc |-> "embed", model |-> m, snap |-> snap,
                        alone |-> @.alone,
                        existing |-> existing, staged |-> {a[1] : a \in lacking},
                        queue |-> SubSeq(texts, 1, Min({MaxPassages, Len(texts)})),
                        vectors |-> Vectors(existing), failed |-> FALSE]]
    /\ UNCHANGED <<store, files, compacting, count, hist>>

\* quantize: a zero vector has no direction.
Quantized(texts) == texts \ Mute

\* One call of the embedder, and the progress callback after it.
EmbedBatch(r) ==
    /\ At(r, "embed") /\ run[r].queue # <<>>
    /\ LET n == Min({Batch, Len(run[r].queue)})
           got == Quantized(ToSet(SubSeq(run[r].queue, 1, n)))
           rest == SubSeq(run[r].queue, n + 1, Len(run[r].queue))
           goOn == [run[r] EXCEPT !.vectors = @ \cup got, !.queue = rest]
       IN  \/ run' = [run EXCEPT ![r] = goOn] /\ UNCHANGED count
           \/ /\ CanFail /\ Tick("faults")
              /\ \/ run' = [run EXCEPT ![r].queue = <<>>, ![r].failed = TRUE]
                 \/ run' = [run EXCEPT ![r] = [goOn EXCEPT !.queue = <<>>]]
    /\ UNCHANGED <<store, files, cache, compacting, hist>>

\* The staged tables, with what was embedded: after an error or a cancel, too.
Finish(r) ==
    /\ At(r, "embed") /\ run[r].queue = <<>>
    /\ run' = [run EXCEPT ![r] = [pc |-> "write", model |-> @.model, snap |-> @.snap,
                 alone |-> @.alone, failed |-> @.failed, existing |-> @.existing,
                 tables |-> Fill(@.existing, @.staged, @.vectors, @.snap),
                 todo |-> @.staged]]
    /\ UNCHANGED <<store, files, cache, compacting, count, hist>>

\* A query has loaded vectors since the run planned that the run's table does not have.
Overtaken(r, s) ==
    LET m == run[r].model
    IN  /\ cache[m] # None /\ s \in DOMAIN cache[m].tables
        /\ \E p \in Rows(s) : cache[m].tables[s][p] \notin {None, run[r].tables[s][p]}
WriteSidecar(r, s) ==
    /\ At(r, "write") /\ s \in run[r].todo
    /\ \/ /\ files' = [files EXCEPT ![run[r].model] = Extend(@, One(s, run[r].tables[s]))]
          /\ run' = [run EXCEPT ![r].todo = @ \ {s}]
          /\ mixed' = IF run[r].alone /\ ~Overtaken(r, s) THEN mixed ELSE mixed \cup {run[r].model}
          /\ UNCHANGED count
       \/ /\ CanFail /\ Tick("faults")
          /\ run' = [run EXCEPT ![r] = Idle]
          /\ UNCHANGED <<files, mixed>>
    /\ UNCHANGED <<store, cache, compacting, covered>>

Insert(r) ==
    /\ At(r, "write") /\ run[r].todo = {}
    /\ cache' = Inserted(run[r].model, run[r].tables)
    /\ run' = [run EXCEPT ![r].pc = "prune"]
    /\ UNCHANGED <<store, files, compacting, count, hist>>

\* prune_other_models, and the report.
Covers(r) ==
    {a \in Passages(run[r].snap) : Embedded(Extend(run[r].existing, run[r].tables), a)}
PruneOthers(r) ==
    /\ At(r, "prune")
    /\ files' = IF Prune THEN [m \in Model |-> IF m = run[r].model THEN files[m] ELSE NoTables]
                ELSE files
    /\ covered' = [m \in Model |->
            IF m # run[r].model THEN IF Prune THEN {} ELSE covered[m]
            ELSE IF run[r].failed \/ ~run[r].alone THEN covered[m] ELSE Covers(r)]
    /\ mixed' = IF Prune THEN mixed \cup {m \in Model : m # run[r].model /\ cache[m] # None}
                ELSE mixed
    /\ run' = [run EXCEPT ![r] = Idle]
    /\ UNCHANGED <<store, cache, compacting, count>>

\* The process dies and starts again; the tables are on disk.
Crash ==
    /\ CanFail /\ Tick("faults")
    /\ cache' = [m \in Model |-> None]
    /\ run' = [r \in Run |-> Idle]
    /\ compacting' = None
    /\ covered' = [m \in Model |-> IF compacting = None /\ m \notin mixed THEN covered[m] ELSE {}]
    /\ mixed' = {}
    /\ UNCHANGED <<store, files>>

\* A sidecar rots on disk.
Rot(m, s) ==
    /\ CanFail /\ Tick("faults")
    /\ s \in DOMAIN files[m]
    /\ files' = [files EXCEPT ![m] = Extend(@, One(s, Broken))]
    /\ covered' = [covered EXCEPT ![m] = {}] /\ mixed' = mixed \cup {m}
    /\ UNCHANGED <<store, cache, run, compacting>>

-------------------------------------------------------------------------------
Host == \E d \in Doc : Delete(d) \/ \E x \in Text : Put(d, x)
Compact ==
    \/ CompactCommit \/ CompactEnd
    \/ \E m \in Model : CompactCarry(m)
Proceed(r) ==
    \/ (\E m \in Model : Start(r, m)) \/ Load(r) \/ EmbedBatch(r) \/ Finish(r)
    \/ (\E s \in DOMAIN passages : WriteSidecar(r, s))
    \/ Insert(r) \/ PruneOthers(r)

Next ==
    \/ Host \/ Compact \/ Crash
    \/ \E m \in Model : \E s \in segments : Rot(m, s)
    \/ \E S \in SUBSET segments : CompactCollect(S)
    \/ \E m \in Model : Query(m)
    \/ \E r \in Run : Proceed(r)
\* A compaction and a run are scheduled, and the host embeds again and again ("the next
\* run continues").
Spec == Init /\ [][Next]_vars /\ WF_vars(Compact) /\ \A r \in Run : WF_vars(Proceed(r))

-------------------------------------------------------------------------------
(* Properties *)

TypeOK ==
    /\ dead \subseteq UNION {{s} \X Rows(s) : s \in segments}
    /\ \A m \in Model : \A s \in DOMAIN files[m] :
          s \in DOMAIN passages /\ (files[m][s] = Broken \/ DOMAIN files[m][s] = Rows(s))
    /\ \A r \in Run : At(r, "write") => run[r].todo \subseteq DOMAIN run[r].tables

\* A passage is never given the vector of another text: not by a run that reuses vectors,
\* nor by a compaction that moves passages to other rows of other segments, nor by
\* tables loaded for another generation.
VectorOfItsText ==
    \A m \in Model :
        LET loaded == IF cache[m] = None THEN NoTables ELSE cache[m].tables
            right(tables) == \A s \in DOMAIN tables : \A p \in DOMAIN tables[s] :
                                tables[s][p] \in {None, passages[s][p].text}
        IN  right(Decoded(m)) /\ right(loaded)

\* "A passage is embedded once per model however often its document is re-synced or
\* compacted": a run does not ask the embedder again for the text of a passage that an
\* earlier run reported covered, while its segment is listed and, once a compaction has
\* dropped that, while a passage with its text is among those rewritten; whatever failed,
\* died, was written or compacted between them.  So the quoted line is excepted where a
\* compaction of the small segments drops the covered passage, dead, and a passage written
\* since with the same text stays in a large one.  Excepted, too, is a model in `mixed`: a
\* sidecar rotted, runs (or a run and a compaction) overlapped, a run of another model
\* pruned the sidecars of loaded tables, or a sidecar was written over one that a query had
\* loaded meanwhile.
EmbeddedOnce ==
    \A r \in Run : At(r, "embed") /\ run[r].alone /\ run[r].model \notin mixed =>
        ToSet(run[r].queue) \cap {TextAt(a) : a \in covered[run[r].model]} = {}

\* Texts with a zero vector are asked for by every run.  A text is starved when
\* max_passages of them come before it wherever it stands.
MutesBefore(b) ==
    {TextAt(c) : c \in {d \in Passages(Snapshot) : TextAt(d) \in Mute \ Blank /\ Before(d, b)}}
Reached(x) ==
    \E b \in Passages(Snapshot) : TextAt(b) = x /\ Cardinality(MutesBefore(b)) < MaxPassages

\* "A run stopped by max_passages or an error keeps what it embedded, and the next run
\* continues": in the end queries are served every passage that has a vector, but for those
\* whose text is starved.
EventuallyCovered ==
    <>[](\A m \in Model : \A a \in Passages(Snapshot) \ Served(m) :
            TextAt(a) \in Blank \cup Mute \/ ~Reached(TextAt(a)))
===============================================================================
