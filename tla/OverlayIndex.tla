----------------------------- MODULE OverlayIndex -----------------------------
(***************************************************************************)
(* The documents of one index: immutable base segments on disk, the set of *)
(* deleted base documents, the in-memory overlay of uncommitted drift, and *)
(* the operations that move documents between them: commit_batch,          *)
(* flush_overlay, maybe_compact, compact, a full rebuild and a reopen.     *)
(*                                                                         *)
(* `data` of a document stands for the content whose grams the postings    *)
(* hold.  The buffered edits are kept as the per-path fold that            *)
(* take_for_commit computes.  Client threads notify and commit at any      *)
(* time; one maintenance thread runs the multi-step operations, whose      *)
(* place is `job`.  commit_batch, the durable write and the rewrite each   *)
(* run under write.lock and are one step; another process can only refuse  *)
(* a lock here (see DirLocks).  Ids are followed up to MaxDocId, one limit *)
(* for the u32 overflow checks and for the total open accepts.             *)
(***************************************************************************)
EXTENDS Naturals, FiniteSets

CONSTANTS Path, Content, Absent, Unindexable,
          MaxSegments,     \* config.max_segments
          EnforcePercent,  \* OVERLAY_ENFORCE_THRESHOLD (50 in the code)
          CompactPercent,  \* the overlay ratio that triggers compaction (10)
          MaxDocId         \* the last document id, in memory and on disk

ASSUME ContentAssumption == /\ Absent \notin Content
                            /\ Unindexable \notin Content
                            /\ Absent # Unindexable
ASSUME PathAssumption == IsFiniteSet(Path)
ASSUME LimitAssumption == /\ MaxSegments \in Nat \ {0}
                          /\ EnforcePercent \in Nat
                          /\ CompactPercent \in Nat
                          /\ MaxDocId \in Nat
                          /\ Cardinality(Path) <= MaxDocId

VARIABLES tree,      \* the working tree
          edits,     \* PendingEdits, folded
          manifest,  \* manifest.json and the files it names
          snap,      \* the handle's IndexSnapshot
          book,      \* FlushBookkeeping::non_doc_paths
          job        \* where the maintenance thread is

vars == <<tree, edits, manifest, snap, book, job>>

File == Content \cup {Absent, Unindexable}
NoEdits == [p \in Path |-> "none"]
Id == 0 .. MaxDocId
Doc == [id : Id, path : Path, data : Content]
Segment == [base : Id, docs : SUBSET Doc]
Jobs == {"idle", "flush", "write", "maybe", "plan", "compact", "rewrite"}

\* Every document id fits the width of the postings, on disk and in memory.
TypeOK ==
    /\ tree \in [Path -> File]
    /\ edits \in [Path -> {"none", "changed", "deleted"}]
    /\ manifest \in [segs : SUBSET Segment, deletes : SUBSET Id]
    /\ snap \in [segs : SUBSET Segment, deletes : SUBSET Id, docs : SUBSET Doc,
                 next : Id, limit : Id]
    /\ book \in SUBSET Path
    /\ job \in Jobs

-------------------------------------------------------------------------------
(* Segments and views *)

BaseDocs(segs) == UNION {s.docs : s \in segs}

Count(s) == Cardinality(s.docs)

DocCount(segs) == Cardinality(BaseDocs(segs))

Ids(docs) == {d.id : d \in docs}

\* The first id no segment reaches: the largest base_doc_id + doc_count.
BaseLimit(segs) ==
    LET ends == {s.base + Count(s) : s \in segs}
    IN  IF segs = {} THEN 0 ELSE CHOOSE n \in ends : \A m \in ends : m <= n

\* The documents a query can return from base segments minus the delete set.
Surviving(segs, deletes) == {d \in BaseDocs(segs) : d.id \notin deletes}

Live(view) == Surviving(view.segs, view.deletes) \cup view.docs

\* The checks of open_inner: a segment's documents sit at consecutive ids from
\* its base, ids repeat nowhere, segments do not regress, and the total is
\* bounded.
SegmentOpens(s) == \A d \in s.docs : s.base <= d.id /\ d.id < s.base + Count(s)

CanOpen(m) ==
    /\ \A s \in m.segs : SegmentOpens(s) /\ s.base + Count(s) <= MaxDocId
    /\ \A s, t \in m.segs : s.base < t.base => s.base + Count(s) <= t.base
    /\ \A s, t \in m.segs : s.base = t.base => s = t
    /\ \A d, e \in BaseDocs(m.segs) : d.id = e.id => d = e

\* A fresh snapshot of the directory: empty overlay, ids not yet assigned.
Opened(m) == [segs |-> m.segs, deletes |-> m.deletes, docs |-> {}, next |-> 0, limit |-> 0]

\* The documents docs numbered from first on, num giving each its position.
Numbered(docs, num, first) ==
    {[id |-> first + num[d], path |-> d.path, data |-> d.data] : d \in docs}

\* The position of each document of docs in the order of the old ids.
Rank(docs) == [d \in docs |-> Cardinality({e \in docs : e.id < d.id})]

LowestId(docs) == CHOOSE n \in Ids(docs) : \A m \in Ids(docs) : n <= m

\* The documents cut into segments: batch gives the writer of each id.
Written(docs, batch) ==
    LET part(b) == {d \in docs : batch[d.id] = b}
    IN  {[base |-> LowestId(part(b)), docs |-> part(b)] : b \in {batch[d.id] : d \in docs}}

\* A writer is filled before the next one is opened.
Batches(ids) == {b \in [ids -> 1 .. Cardinality(ids)] : \A i, j \in ids : i < j => b[i] <= b[j]}

Numberings(S) == {f \in [S -> 0 .. Cardinality(S) - 1] : \A x, y \in S : f[x] = f[y] => x = y}

-------------------------------------------------------------------------------
(* commit_batch *)

Changed == {p \in Path : edits[p] = "changed"}
Deleted == {p \in Path : edits[p] = "deleted"}

\* Read at commit time: a file that is gone or cannot be indexed is evicted.
VisibleChanged == {p \in Changed : tree[p] \in Content}
RemovedMutant == Deleted
Removed == Deleted \cup (Changed \ VisibleChanged)

KeptOverlay == {d \in snap.docs : d.path \notin VisibleChanged \cup Removed}

OverlayFull ==
    LET projected == Cardinality(KeptOverlay) + Cardinality(VisibleChanged)
        base == DocCount(snap.segs)
    IN  base > 0 /\ projected * 100 > base * EnforcePercent

StableIdsMutant == TRUE
\* OverlayView::build_incremental keeps the ids of untouched documents while
\* the base has not grown, and renumbers them above the new base otherwise.
StableIds == BaseLimit(snap.segs) = snap.limit

CarriedDocs ==
    IF StableIds THEN KeptOverlay
                 ELSE Numbered(KeptOverlay, Rank(KeptOverlay), BaseLimit(snap.segs))

FirstNewId == IF StableIds THEN snap.next
                           ELSE BaseLimit(snap.segs) + Cardinality(KeptOverlay)

NextIdAfter == FirstNewId + Cardinality(VisibleChanged)

CommitFails == OverlayFull \/ NextIdAfter > MaxDocId

DeletesAfterMutant == snap.deletes \cup {d.id : d \in {e \in BaseDocs(snap.segs) : e.path \in Removed}}

DeletesAfterOverlayMutant ==
    snap.deletes \cup {d.id : d \in {e \in Live(snap) : e.path \in Changed \cup Deleted}}

\* compute_delete_set: every base document of a path the batch touched.
DeletesAfter == snap.deletes \cup {d.id : d \in {e \in BaseDocs(snap.segs) : e.path \in Changed \cup Deleted}}

NewDocs(order) ==
    {[id |-> FirstNewId + order[p], path |-> p, data |-> tree[p]] : p \in VisibleChanged}

CommitBatch ==
    /\ edits # NoEdits
    /\ ~CommitFails
    /\ \E order \in Numberings(VisibleChanged) :
          snap' = [segs    |-> snap.segs,
                   deletes |-> DeletesAfter,
                   docs    |-> CarriedDocs \cup NewDocs(order),
                   next    |-> NextIdAfter,
                   limit   |-> BaseLimit(snap.segs)]
    /\ edits' = NoEdits
    /\ book' = book \cup Removed
    /\ UNCHANGED <<tree, manifest>>

-------------------------------------------------------------------------------
(* Client threads and the environment *)

Touch == /\ \E p \in Path, f \in File : tree' = [tree EXCEPT ![p] = f]
         /\ UNCHANGED <<edits, manifest, snap, book, job>>

Notify == /\ \E p \in Path, k \in {"changed", "deleted"} : edits' = [edits EXCEPT ![p] = k]
          /\ UNCHANGED <<tree, manifest, snap, book, job>>

\* A failing commit re-queues what it drained and changes nothing.
ClientCommit == CommitBatch /\ UNCHANGED job

-------------------------------------------------------------------------------
(* The maintenance thread *)

\* flush_overlay, maybe_compact or compact is called.
Call == /\ job = "idle"
        /\ job' \in {"flush", "maybe", "compact"}
        /\ UNCHANGED <<tree, edits, manifest, snap, book>>

AfterCommit == [flush |-> "write", maybe |-> "plan", compact |-> "rewrite"]

\* Each of the three begins by committing what is pending.
CommitFirst ==
    /\ job \in {"flush", "maybe", "compact"}
    /\ \/ /\ CommitBatch
          /\ job' = AfterCommit[job]
       \/ /\ edits = NoEdits
          /\ job' = AfterCommit[job]
          /\ UNCHANGED <<tree, edits, manifest, snap, book>>
       \/ /\ edits # NoEdits /\ CommitFails
          /\ job' = "idle"
          /\ UNCHANGED <<tree, edits, manifest, snap, book>>

NothingToFlush == snap.docs = {} /\ book = {}

FlushNothing == /\ job = "write" /\ NothingToFlush
                /\ job' = "idle"
                /\ UNCHANGED <<tree, edits, manifest, snap, book>>

SnapshotMatchesManifest == /\ Cardinality(snap.segs) = Cardinality(manifest.segs)
                           /\ DocCount(snap.segs) = DocCount(manifest.segs)

DeltaSegment == IF snap.docs = {} THEN {}
                ELSE {[base |-> LowestId(snap.docs), docs |-> snap.docs]}

Flushed == [segs |-> manifest.segs \cup DeltaSegment, deletes |-> snap.deletes]

\* The handle adopts a rewritten directory if it opens; otherwise the caller
\* gets the error and the old snapshot stays.  A flush has drained the book by
\* then, a compaction and a rebuild have not.
Install(m, onSuccess) ==
    IF CanOpen(m)
    THEN snap' = Opened(m) /\ book' = {} /\ job' = onSuccess
    ELSE /\ book' = IF job = "write" THEN {} ELSE book
         /\ job' = "idle"
         /\ UNCHANGED snap

FlushWrite == /\ job = "write" /\ ~NothingToFlush
              /\ SnapshotMatchesManifest
              /\ manifest' = Flushed
              /\ Install(Flushed, "maybe")
              /\ UNCHANGED <<tree, edits>>

\* write.lock is taken, or, with the bookkeeping drained already, the directory
\* lock is taken by another process or the consistency guard refuses.
FlushRefused == /\ job = "write" /\ ~NothingToFlush
                /\ book' \in {book, {}}
                /\ job' = "idle"
                /\ UNCHANGED <<tree, edits, manifest, snap>>

-------------------------------------------------------------------------------
(* Compaction *)

OverlayRatioExceeded ==
    LET base == DocCount(snap.segs)
        overlay == Cardinality(snap.docs)
    IN  IF base = 0 THEN overlay > 0 ELSE overlay * 100 > base * CompactPercent

SegmentLimitExceeded == Cardinality(snap.segs) > MaxSegments

\* From the segment that holds the first deleted document on.
DeleteSuffix ==
    {s \in snap.segs : \E x \in snap.deletes :
        \A t \in snap.segs : s.base < t.base => x < t.base}

\* The segments past the first MaxSegments - 1.
LimitSuffix ==
    IF SegmentLimitExceeded
    THEN {s \in snap.segs : Cardinality({t \in snap.segs : t.base < s.base}) >= MaxSegments - 1}
    ELSE {}

\* bloat stands for the file-id high-water mark trigger, whose counters are
\* not kept here.
PlanFires(bloat) == OverlayRatioExceeded \/ SegmentLimitExceeded \/ bloat

PlannedSuffix(bloat) ==
    IF bloat /\ ~OverlayRatioExceeded /\ ~SegmentLimitExceeded
    THEN snap.segs
    ELSE DeleteSuffix \cup LimitSuffix

Plan == /\ job = "plan"
        /\ \E bloat \in BOOLEAN : job' = IF PlanFires(bloat) THEN "compact" ELSE "idle"
        /\ UNCHANGED <<tree, edits, manifest, snap, book>>

ForcedPlanFires(bloat) == PlanFires(bloat) \/ snap.docs # {} \/ snap.deletes # {}

\* The documents a compaction of the suffix rewrites.
Moved(suffix) == Surviving(suffix, snap.deletes) \cup snap.docs

Prefix(suffix) == {s \in manifest.segs : s.base \notin {t.base : t \in suffix}}

BasesMatch == {s.base : s \in snap.segs} = {s.base : s \in manifest.segs}

RewriteFits(suffix) ==
    BaseLimit(Prefix(suffix)) + Cardinality(Moved(suffix)) <= MaxDocId

RewrittenMutant(suffix) == Moved(suffix)

Rewritten(suffix) ==
    Numbered(Moved(suffix), Rank(Moved(suffix)), BaseLimit(Prefix(suffix)))

Compacted(suffix, batch) ==
    [segs |-> Prefix(suffix) \cup Written(Rewritten(suffix), batch), deletes |-> {}]

Rewrite ==
    /\ job = "rewrite"
    /\ BasesMatch
    /\ \E bloat \in BOOLEAN :
          /\ ForcedPlanFires(bloat)
          /\ RewriteFits(PlannedSuffix(bloat))
          /\ \E batch \in Batches(Ids(Rewritten(PlannedSuffix(bloat)))) :
                LET m == Compacted(PlannedSuffix(bloat), batch)
                IN  manifest' = m /\ Install(m, "idle")
    /\ UNCHANGED <<tree, edits>>

\* No plan, a lock conflict, a diverging manifest or an id overflow.
RewriteRefused == /\ job = "rewrite"
                  /\ job' = "idle"
                  /\ UNCHANGED <<tree, edits, manifest, snap, book>>

-------------------------------------------------------------------------------
(* Rebuild and reopen *)

ReadablePaths == {p \in Path : tree[p] \in Content}

BuiltDocs(order) == {[id |-> order[p], path |-> p, data |-> tree[p]] : p \in ReadablePaths}

Built(order, batch) == [segs |-> Written(BuiltDocs(order), batch), deletes |-> {}]

\* build_index followed by install_rebuilt_index: pending edits are notified
\* again, everything else is replaced.
Rebuild ==
    /\ job = "idle"
    /\ \E order \in Numberings(ReadablePaths) :
          \E batch \in Batches(Ids(BuiltDocs(order))) :
             LET m == Built(order, batch)
             IN  manifest' = m /\ Install(m, "idle")
    /\ UNCHANGED <<tree, edits>>

\* The process exits, or dies at any point, and the directory is opened again.
Reopen == /\ CanOpen(manifest)
          /\ snap' = Opened(manifest)
          /\ edits' = NoEdits
          /\ book' = {}
          /\ job' = "idle"
          /\ UNCHANGED <<tree, manifest>>

Init == /\ tree \in [Path -> File]
        /\ edits = NoEdits
        /\ \E order \in Numberings(ReadablePaths) :
              \E batch \in Batches(Ids(BuiltDocs(order))) :
                 /\ manifest = Built(order, batch)
                 /\ snap = Opened(Built(order, batch))
        /\ book = {}
        /\ job = "idle"

Next == \/ Touch \/ Notify \/ ClientCommit
        \/ Call \/ CommitFirst
        \/ FlushNothing \/ FlushWrite \/ FlushRefused
        \/ Plan \/ Rewrite \/ RewriteRefused
        \/ Rebuild \/ Reopen

Spec == Init /\ [][Next]_vars

-------------------------------------------------------------------------------
(* Properties *)

\* A search never reports a path twice: at most one live document per path in
\* the snapshot, however commits, flushes, compactions and reopens interleave.
OneLiveDocPerPath == \A d, e \in Live(snap) : d.path = e.path => d = e

\* A posting id names one document: overlay ids are distinct and lie above
\* every base segment, so base and overlay lookups never collide.
IdsResolve ==
    /\ \A d, e \in BaseDocs(snap.segs) \cup snap.docs : d.id = e.id => d = e
    /\ \A d \in snap.docs : BaseLimit(snap.segs) <= d.id /\ d.id < snap.next

\* The delete set only ever hides base documents of the snapshot it is part
\* of: an id that a compaction or rebuild reassigned is never hidden by it.
DeletesNameBaseDocs == snap.deletes \subseteq Ids(BaseDocs(snap.segs))

\* A compaction or a rebuild never leaves a directory that open rejects: the
\* renumbered documents fill their segments without gap or overlap.
RewritesOpen == [][manifest' # manifest /\ job # "write" => CanOpen(manifest')]_vars

\* What flush.rs documents as the flush precondition: the overlay ids are a
\* gap-free run, so the directory a flush wrote can be opened.
FlushOpens == [][manifest' # manifest /\ job = "write" => CanOpen(manifest')]_vars

\* The map a view answers from.
MapOf(docs) == [p \in Path |-> IF \E d \in docs : d.path = p
                               THEN (CHOOSE d \in docs : d.path = p).data
                               ELSE Absent]

VisibleMap == MapOf(Live(snap))
DurableMap == MapOf(Surviving(manifest.segs, manifest.deletes))

\* flush_overlay answers "nothing to flush" only when a later process would see
\* what this one sees.
NothingMeansDurable == [][FlushNothing => DurableMap = VisibleMap]_vars

IM == INSTANCE IndexMap WITH visible <- VisibleMap, durable <- DurableMap

\* The documents implement the maps: a commit applies exactly the buffered
\* edits, a flush or compaction changes no content, and nothing else moves.
ImplementsMap == IM!Spec
===============================================================================
