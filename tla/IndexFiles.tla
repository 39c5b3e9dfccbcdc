------------------------------ MODULE IndexFiles ------------------------------
(***************************************************************************)
(* The files of an index directory and the order in which a full build, a  *)
(* flush and a compaction write, publish and collect them.  Segment and    *)
(* delete-set files carry fresh names and are found through manifest.json, *)
(* which is replaced by a rename; paths.idx has one fixed name.  A writer  *)
(* may fail or die between any two file operations.                        *)
(*                                                                         *)
(* One writer runs at a time (DirLocks).  A document is its segment's name *)
(* and its path.  A writer is let in when its snapshot has the segments of *)
(* the manifest; that the code compares only counts is left to DirLocks.   *)
(* The worktree anchor, the symbol database and the .tmp files are not     *)
(* modelled.                                                               *)
(*                                                                         *)
(* Power may be lost.  The delete set, paths.idx and the manifest are      *)
(* fsynced before they are named; segments are not, and come back as       *)
(* SegmentFile says.                                                       *)
(***************************************************************************)
EXTENDS SegmentFile

CONSTANTS MaxSegments, \* config.max_segments
          MaxName,     \* bound: file names in use at one time
          Trees,       \* bound: the files a build may find
          Kinds,       \* the writers of this instance
          MayFail      \* whether writers may fail or die half way

ASSUME KindAssumption == Kinds \subseteq {"build", "flush", "compact"} /\ MayFail \in BOOLEAN
ASSUME TreesAssumption == Trees \subseteq SUBSET Path
ASSUME BoundAssumption == MaxSegments \in Nat /\ MaxName \in Nat \ {0}
ASSUME PathAssumption == Path # {}

VARIABLES segs,     \* the segment files: documents' paths by name, as written
          disk,     \* what is left of those that were there when power was lost
          sets,     \* the delete-set files: hidden documents by name
          pathsIdx, \* the path list in paths.idx
          manifest, \* manifest.json
          handle,   \* the open handle's snapshot
          op        \* the running writer

vars == <<segs, disk, sets, pathsIdx, manifest, handle, op>>

Name == 1 .. MaxName
None == 0
Doc == Name \X Path

\* The path index of paths.idx is believed when `trusted` says it was written.
Manifest == [order : Seq(Name), deletes : Name \cup {None}, trusted : BOOLEAN]

\* `docs` are the documents of the mapped segments, which a collection does not
\* take away; `book` says that commits since the last flush resolved paths
\* without a document.
Snapshot == [order : Seq(Name), docs : SUBSET Doc, hidden : SUBSET Doc,
             overlay : SUBSET Path, index : SUBSET Path, book : BOOLEAN]

\* The process is gone; its snapshot is no manifest's.
Nowhere == [order |-> <<None>>, docs |-> {}, hidden |-> {}, overlay |-> {}, index |-> {}, book |-> FALSE]

Step == {"none", "segments", "deletes", "flushIndex", "manifest", "gc", "index", "adopt"}

\* `paths` are for paths.idx, `todo` the segments still to write, `missed` the paths that
\* damaged lists lack, and `next` the manifest to save.
Operation == [kind : Kinds \cup {"none"}, step : Step, paths : SUBSET Path,
              todo : Seq((SUBSET Path) \ {{}}), missed : SUBSET Path, next : Manifest]

\* Types; a segment file is never empty, which open would refuse.
TypeOK ==
    /\ DOMAIN segs \subseteq Name /\ \A n \in DOMAIN segs : segs[n] \in (SUBSET Path) \ {{}}
    /\ DOMAIN disk \subseteq DOMAIN segs
    /\ DOMAIN sets \subseteq Name /\ \A n \in DOMAIN sets : sets[n] \in SUBSET Doc
    /\ pathsIdx \in SUBSET Path
    /\ manifest \in Manifest
    /\ handle \in Snapshot \cup {Nowhere}
    /\ op \in Operation

Idle == [kind |-> "none", step |-> "none", paths |-> {}, todo |-> <<>>, missed |-> {},
         next |-> [order |-> <<>>, deletes |-> None, trusted |-> FALSE]]

Proceed(step) == op' = [op EXCEPT !.step = step]

-------------------------------------------------------------------------------
(* Opening and reading a directory *)

\* What a process reads of a segment file: all of it, before power was lost; what a
\* compaction took over stays missing from the lists, under checksums that fit.
Whole(paths, missed) ==
    [opens |-> TRUE, intact |-> TRUE, listed |-> paths, misread |-> {}, missed |-> missed, sound |-> TRUE]
Read(n) == IF n \in DOMAIN disk THEN disk[n] ELSE Whole(segs[n], {})

\* A document without a readable record is skipped.
DocsIn(order) == {d \in Doc : \E i \in DOMAIN order : d[1] = order[i] /\ d[2] \in Read(d[1]).listed}

PathsOf(docs) == {d[2] : d \in docs}

Hidden(m) == IF m.deletes = None THEN {} ELSE sets[m.deletes]

\* open_inner: the path list is believed, or made from every document, the
\* hidden ones included.
Opened(m) == [order |-> m.order, docs |-> DocsIn(m.order), hidden |-> Hidden(m), overlay |-> {}, book |-> FALSE,
              index |-> IF m.trusted THEN pathsIdx ELSE PathsOf(DocsIn(m.order))]

LivePaths(s) == PathsOf(s.docs \ s.hidden) \cup s.overlay

FilesPresent(m) == /\ \A i \in DOMAIN m.order : m.order[i] \in DOMAIN segs
                   /\ m.deletes # None => m.deletes \in DOMAIN sets

\* Bound: while a segment is damaged nothing else goes wrong.
Faulty == MayFail /\ DOMAIN disk = {}

Opens(m) == FilesPresent(m) /\ \A i \in DOMAIN m.order : Read(m.order[i]).opens

-------------------------------------------------------------------------------
(* File operations *)

\* A uuid names nothing else.
Used == DOMAIN segs \cup DOMAIN sets \cup ToSet(manifest.order) \cup ToSet(handle.order)
            \cup {d[1] : d \in handle.hidden}

Fresh == CHOOSE n \in Name : n \notin Used

With(files, n, content) == [m \in DOMAIN files \cup {n} |-> IF m = n THEN content ELSE files[m]]

Only(files, keep) == [m \in DOMAIN files \cap keep |-> files[m]]

\* gc_orphan_segments removes what this manifest does not name.
Gc(m) == /\ segs' = Only(segs, ToSet(m.order))
         /\ disk' = Only(disk, ToSet(m.order))
         /\ sets' = Only(sets, {m.deletes})

\* The ways to write documents as at most two segments, none of them empty.
Cuts(paths) == IF paths = {} THEN {<<>>}
               ELSE {<<paths>>} \cup {<<part, paths \ part>> : part \in (SUBSET paths) \ {{}, paths}}

-------------------------------------------------------------------------------
(* commit_batch: in memory only *)

Commit(changed, removed) ==
    /\ op = Idle /\ handle # Nowhere
    /\ changed \cup removed # {} /\ changed \cap removed = {}
    /\ LET touched == changed \cup removed
       IN  handle' = [handle EXCEPT
                        !.overlay = (@ \ removed) \cup changed,
                        !.hidden  = @ \cup {d \in handle.docs : d[2] \in touched},
                        !.index   = (@ \ removed) \cup changed,
                        !.book    = @ \/ removed # {}]
    /\ UNCHANGED <<segs, disk, sets, pathsIdx, manifest, op>>

-------------------------------------------------------------------------------
(* The writers begin *)

SameBase == handle.order = manifest.order

\* build_index reads the tree and first collects what a crash left behind.
BuildBegin(paths) ==
    /\ op = Idle /\ "build" \in Kinds
    /\ Gc(manifest)
    /\ \E cut \in Cuts(paths) :
          op' = [Idle EXCEPT !.kind = "build", !.step = "segments", !.paths = paths, !.todo = cut, !.next.trusted = TRUE]
    /\ UNCHANGED <<pathsIdx, manifest, handle>>

\* A segment is written even for an empty overlay.
FlushBeginMutant ==
    /\ op = Idle /\ "flush" \in Kinds
    /\ SameBase
    /\ handle.overlay # {} \/ handle.book
    /\ op' = [Idle EXCEPT !.kind = "flush", !.step = "segments", !.paths = handle.index,
                          !.todo = <<handle.overlay>>, !.next.order = manifest.order]
    /\ handle' = [handle EXCEPT !.book = FALSE]
    /\ UNCHANGED <<segs, disk, sets, pathsIdx, manifest>>

\* flush_overlay_durable writes the overlay as one segment, if there is one;
\* the bookkeeping is drained before anything can fail.
FlushBegin ==
    /\ op = Idle /\ "flush" \in Kinds
    /\ SameBase
    /\ handle.overlay # {} \/ handle.book
    /\ op' = [Idle EXCEPT !.kind = "flush", !.step = "segments", !.paths = handle.index,
                          !.todo = IF handle.overlay = {} THEN <<>> ELSE <<handle.overlay>>, !.next.order = manifest.order]
    /\ handle' = [handle EXCEPT !.book = FALSE]
    /\ UNCHANGED <<segs, disk, sets, pathsIdx, manifest>>

\* What forced_plan lets a compaction keep: the segments before the first hidden
\* document and within the segment limit; nothing when only path ids ran away,
\* which can happen at any time here.
DocsOf(i) == {d \in handle.docs : d[1] = handle.order[i]}

SegmentLimitExceeded == Len(handle.order) > MaxSegments

KeptByPlan ==
    LET clean(k) == \A i \in 1 .. k : DocsOf(i) \cap handle.hidden = {}
        most     == IF SegmentLimitExceeded THEN MaxSegments - 1 ELSE Len(handle.order)
        longest  == {k \in 0 .. most : clean(k) /\ ~(k < most /\ clean(k + 1))}
    IN  CASE SegmentLimitExceeded -> longest
          [] ~SegmentLimitExceeded /\ handle.overlay \cup handle.hidden # {} -> longest \cup {0}
          [] OTHER -> {0}

\* compact_index keeps a prefix and collects the paths it rewrites, with the lists of their
\* grams.  It stops at a document without a record and at a list it cannot read, and takes
\* over a record with anything for a path, which is no document here.
Unreadable(n) == ~Read(n).sound \/ \E p \in segs[n] \ (Read(n).listed \cup Read(n).misread) :
                                      <<n, p>> \notin handle.hidden

CompactFrom(kept, stops) ==
    /\ op = Idle /\ "compact" \in Kinds
    /\ SameBase
    /\ kept \in KeptByPlan
    /\ LET prefix    == SubSeq(handle.order, 1, kept)
           rewritten == ToSet(handle.order) \ ToSet(prefix)
           stays     == {d \in handle.docs : d[1] \in ToSet(prefix)}
           live      == handle.docs \ (stays \cup handle.hidden)
           moved     == PathsOf(live) \cup handle.overlay
       IN  /\ stops => \A n \in rewritten : ~Unreadable(n)
           /\ \E cut \in Cuts(moved) :
                 op' = [op EXCEPT !.kind = "compact", !.step = "segments", !.paths = moved,
                                  !.todo = cut,
                                  !.missed = {d[2] : d \in {e \in live : e[2] \in Read(e[1]).missed}},
                                  !.next.order = prefix, !.next.trusted = TRUE]
    /\ UNCHANGED <<segs, disk, sets, pathsIdx, manifest, handle>>

\* What cannot be read is skipped, as an opening does.
CompactBeginMutant(kept) == CompactFrom(kept, FALSE)
CompactBegin(kept) == CompactFrom(kept, TRUE)

-------------------------------------------------------------------------------
(* The writers' file operations, in the order of the code *)

WriteSegment ==
    /\ op.step = "segments" /\ op.todo # <<>>
    /\ Name \ Used # {}
    /\ segs' = With(segs, Fresh, Head(op.todo))
    /\ LET lacking == op.missed \cap Head(op.todo)
       IN  disk' = IF lacking = {} THEN disk ELSE With(disk, Fresh, Whole(Head(op.todo), lacking))
    /\ op' = [op EXCEPT !.todo = Tail(@), !.next.order = Append(@, Fresh)]
    /\ UNCHANGED <<sets, pathsIdx, manifest, handle>>

SegmentsDone ==
    /\ op.step = "segments" /\ op.todo = <<>>
    /\ Proceed(IF op.kind = "flush" THEN "deletes" ELSE "manifest")
    /\ UNCHANGED <<segs, disk, sets, pathsIdx, manifest, handle>>

\* The delete set has one file that every flush writes over.
WriteDeletesMutant ==
    /\ op.step = "deletes"
    /\ Name \ Used # {}
    /\ LET name == IF manifest.deletes = None THEN Fresh ELSE manifest.deletes
       IN  /\ sets' = With(sets, name, handle.hidden)
           /\ op' = [op EXCEPT !.step = "flushIndex", !.next.deletes = name]
    /\ UNCHANGED <<segs, disk, pathsIdx, manifest, handle>>

WriteDeletes ==
    /\ op.step = "deletes"
    /\ \/ /\ handle.hidden # {} /\ Name \ Used # {}
          /\ sets' = With(sets, Fresh, handle.hidden)
          /\ op' = [op EXCEPT !.step = "flushIndex", !.next.deletes = Fresh]
       \/ handle.hidden = {} /\ Proceed("flushIndex") /\ UNCHANGED sets
    /\ UNCHANGED <<segs, disk, pathsIdx, manifest, handle>>

\* A flush writes paths.idx before the manifest and records whether it did.
WriteFlushIndex ==
    /\ op.step = "flushIndex"
    /\ \/ /\ pathsIdx' = op.paths
          /\ op' = [op EXCEPT !.step = "manifest", !.next.trusted = TRUE]
       \/ Faulty /\ Proceed("manifest") /\ UNCHANGED pathsIdx
    /\ UNCHANGED <<segs, disk, sets, manifest, handle>>

SaveManifest ==
    /\ op.step = "manifest"
    /\ manifest' = op.next
    /\ Proceed("gc")
    /\ UNCHANGED <<segs, disk, sets, pathsIdx, handle>>

\* The collection keeps the files of the snapshot the writer started from.
CollectMutant ==
    /\ op.step = "gc"
    /\ segs' = Only(segs, ToSet(handle.order))
    /\ UNCHANGED <<disk, sets>>
    /\ Proceed("adopt")
    /\ UNCHANGED <<pathsIdx, manifest, handle>>

Collect ==
    /\ op.step = "gc"
    /\ Gc(manifest)
    /\ Proceed(IF op.kind = "flush" THEN "adopt" ELSE "index")
    /\ UNCHANGED <<pathsIdx, manifest, handle>>

\* A build and a compaction write paths.idx last and go on without it.
WriteIndex ==
    /\ op.step = "index"
    /\ \/ pathsIdx' = op.paths
       \/ Faulty /\ UNCHANGED pathsIdx
    /\ Proceed("adopt")
    /\ UNCHANGED <<segs, disk, sets, manifest, handle>>

\* The written directory is opened and installed.
Adopt ==
    /\ op.step = "adopt"
    /\ Opens(manifest)
    /\ handle' = Opened(manifest)
    /\ op' = Idle
    /\ UNCHANGED <<segs, disk, sets, pathsIdx, manifest>>

\* A file operation fails: the caller gets the error and keeps its snapshot.
Fail ==
    /\ Faulty /\ op # Idle
    /\ op' = Idle
    /\ UNCHANGED <<segs, disk, sets, pathsIdx, manifest, handle>>

\* The process exits or dies; a later one opens what is there.
Restart ==
    /\ op = Idle \/ Faulty
    /\ Opens(manifest)
    /\ handle' = Opened(manifest)
    /\ op' = Idle
    /\ UNCHANGED <<segs, disk, sets, pathsIdx, manifest>>

\* Power is lost: of a segment that was not yet on the disk there is what is left of it; one
\* that no manifest names is lost as a whole (that it may stay, Fail shows).
PowerLoss ==
    /\ Faulty
    /\ \E i \in DOMAIN manifest.order, o \in Outcomes :
          LET n == manifest.order[i]
          IN  /\ o[1] = segs[n] /\ o[2] = IF i = 1 THEN 0 ELSE LaterBase
              /\ o[3] # Whole(segs[n], {})
              /\ disk' = With(disk, n, o[3])
    /\ segs' = Only(segs, ToSet(manifest.order))
    /\ handle' = Nowhere
    /\ op' = Idle
    /\ UNCHANGED <<sets, pathsIdx, manifest>>

Init == /\ segs = [n \in {1} |-> Path]
        /\ disk = [n \in {} |-> {}]
        /\ sets = [n \in {} |-> {}]
        /\ pathsIdx = Path
        /\ manifest = [order |-> <<1>>, deletes |-> None, trusted |-> TRUE]
        /\ handle = Opened(manifest)
        /\ op = Idle

Next == \/ \E changed, removed \in SUBSET Path : Commit(changed, removed)
        \/ \E paths \in Trees : BuildBegin(paths)
        \/ FlushBegin
        \/ \E kept \in 0 .. MaxName : CompactBegin(kept)
        \/ WriteSegment \/ SegmentsDone \/ WriteDeletes \/ WriteFlushIndex
        \/ SaveManifest \/ Collect \/ WriteIndex \/ Adopt
        \/ Fail \/ Restart \/ PowerLoss

Spec == Init /\ [][Next]_vars

-------------------------------------------------------------------------------
(* Properties *)

\* Wherever a writer dies, every file the manifest names is there: the
\* directory can be opened.
ManifestFilesExist == FilesPresent(manifest)

\* The live documents that the directory was given.
Written(order) == {d \in Doc : \E i \in DOMAIN order : d[1] = order[i] /\ d[2] \in segs[d[1]]}
Durable == Written(manifest.order) \ Hidden(manifest)

\* A writer's effect is all or nothing: what a later process finds changes only
\* when the manifest is replaced, never with a file written or collected.
OnlyManifestPublishes == [][Durable' # Durable => op.step = "manifest"]_vars

\* A segment that lost anything fails a full verification (`st verify`), unless a compaction
\* made new lists from damaged ones: neither structural checks nor checksums pass over a loss.
PassesLacking == {n \in DOMAIN disk : disk[n].intact /\ (disk[n].listed # segs[n] \/ disk[n].missed # {})}
VerifyFindsLoss == [][PassesLacking' \subseteq PassesLacking \/ op.kind = "compact"]_vars

\* A compaction makes no loss permanent: what it publishes are the documents that the
\* segments of its snapshot were given, without the hidden ones, and those of the overlay;
\* but for a document whose record has another path.
Given == (PathsOf(Written(handle.order) \ handle.hidden) \cup handle.overlay)
             \ UNION {Read(n).misread : n \in ToSet(handle.order)}
LossIsNotCompacted ==
    [][op.kind = "compact" /\ op.step = "manifest" /\ manifest' # manifest
          => Given \subseteq PathsOf(Durable')]_vars

\* A path filter finds every live document: its path is in the path index.
IndexComplete == LivePaths(handle) \subseteq handle.index
===============================================================================
