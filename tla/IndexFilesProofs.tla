---------------------------- MODULE IndexFilesProofs ----------------------------
(***************************************************************************)
(* What holds of an index directory wherever a writer dies or power is     *)
(* lost, for any number of paths, file names and segments: the manifest's  *)
(* files are there, only its replacement publishes, and a compaction       *)
(* carries every readable document over.                                   *)
(***************************************************************************)
EXTENDS IndexFiles, TLAPS

-------------------------------------------------------------------------------
(* The operators of IndexFiles *)

\* A collection keeps what it is told to, as it was.
LEMMA OnlyLemma ==
  ASSUME NEW files, NEW keep
  PROVE  /\ DOMAIN Only(files, keep) = DOMAIN files \cap keep
         /\ \A m \in DOMAIN files \cap keep : Only(files, keep)[m] = files[m]
BY DEF Only

\* A fresh name names nothing yet.
LEMMA FreshIsUnused ==
  ASSUME Name \ Used # {}
  PROVE  Fresh \in Name /\ Fresh \notin Used
<1>1. \E n \in Name : n \notin Used
  OBVIOUS
<1> QED BY <1>1 DEF Fresh

\* Sequences of one and of two.
LEMMA OneAndTwo ==
  ASSUME NEW S, NEW x \in S, NEW y \in S
  PROVE  /\ <<x>> \in Seq(S) /\ ToSet(<<x>>) = {x}
         /\ <<x, y>> \in Seq(S) /\ ToSet(<<x, y>>) = {x, y}
<1>1. <<x>> \in Seq(S) /\ DOMAIN <<x>> = {1} /\ <<x>>[1] = x
  OBVIOUS
<1>2. <<x, y>> \in Seq(S) /\ DOMAIN <<x, y>> = {1, 2} /\ <<x, y>>[1] = x /\ <<x, y>>[2] = y
  OBVIOUS
<1>3. ToSet(<<x>>) = {x}
  BY <1>1 DEF ToSet
<1>4. ToSet(<<x, y>>) = {x, y}
  BY <1>2 DEF ToSet
<1> QED BY <1>1, <1>2, <1>3, <1>4

\* Segments to write: nonempty, and together all the documents.
LEMMA CutsLemma ==
  ASSUME NEW paths \in SUBSET Path, NEW cut \in Cuts(paths)
  PROVE  /\ cut \in Seq((SUBSET Path) \ {{}})
         /\ UNION ToSet(cut) = paths
<1>1. CASE paths = {}
  <2>1. cut = <<>>
    BY <1>1 DEF Cuts
  <2>2. ToSet(cut) = {}
    BY <2>1 DEF ToSet
  <2> QED BY <1>1, <2>1, <2>2
<1>2. CASE paths # {} /\ cut = <<paths>>
  <2>1. paths \in (SUBSET Path) \ {{}}
    BY <1>2
  <2>2. cut \in Seq((SUBSET Path) \ {{}}) /\ ToSet(cut) = {paths}
    BY <1>2, <2>1, OneAndTwo
  <2> QED BY <2>2
<1>3. CASE paths # {} /\ \E part \in (SUBSET paths) \ {{}, paths} : cut = <<part, paths \ part>>
  <2>1. PICK part \in (SUBSET paths) \ {{}, paths} : cut = <<part, paths \ part>>
    BY <1>3
  <2>2. PICK x \in paths : x \notin part
    OBVIOUS
  <2>3. part \in (SUBSET Path) \ {{}} /\ paths \ part \in (SUBSET Path) \ {{}}
    BY <2>2
  <2>4. cut \in Seq((SUBSET Path) \ {{}}) /\ ToSet(cut) = {part, paths \ part}
    BY <2>1, <2>3, OneAndTwo, ZenonT(30)
  <2> QED BY <2>4
<1> QED BY <1>1, <1>2, <1>3 DEF Cuts

\* A prefix has no other elements.
LEMMA PrefixLemma ==
  ASSUME NEW S, NEW s \in Seq(S), NEW k \in 0 .. Len(s)
  PROVE  /\ SubSeq(s, 1, k) \in Seq(S)
         /\ ToSet(SubSeq(s, 1, k)) \subseteq ToSet(s)
<1>1. SubSeq(s, 1, k) \in Seq(S) /\ Len(SubSeq(s, 1, k)) = k
  OBVIOUS
<1>2. \A i \in 1 .. k : SubSeq(s, 1, k)[i] = s[i]
  OBVIOUS
<1>3. ToSet(SubSeq(s, 1, k)) \subseteq ToSet(s)
  <2> SUFFICES ASSUME NEW i \in DOMAIN SubSeq(s, 1, k) PROVE SubSeq(s, 1, k)[i] \in ToSet(s)
    BY DEF ToSet
  <2>1. i \in 1 .. k /\ i \in DOMAIN s
    BY <1>1
  <2> QED BY <1>2, <2>1 DEF ToSet
<1> QED BY <1>1, <1>3

\* Appending a name adds it.
LEMMA AppendLemma ==
  ASSUME NEW S, NEW s \in Seq(S), NEW x \in S
  PROVE  Append(s, x) \in Seq(S) /\ ToSet(Append(s, x)) = ToSet(s) \cup {x}
<1>1. /\ Append(s, x) \in Seq(S) /\ Len(Append(s, x)) = Len(s) + 1
      /\ \A i \in 1 .. Len(s) : Append(s, x)[i] = s[i]
      /\ Append(s, x)[Len(s) + 1] = x
  OBVIOUS
<1>2. ToSet(s) \cup {x} \subseteq ToSet(Append(s, x))
  BY <1>1 DEF ToSet
<1>3. ToSet(Append(s, x)) \subseteq ToSet(s) \cup {x}
  BY <1>1 DEF ToSet
<1> QED BY <1>1, <1>2, <1>3

\* What is left to write is what is written next and the rest.
LEMMA HeadTailLemma ==
  ASSUME NEW S, NEW s \in Seq(S), s # <<>>
  PROVE  /\ Head(s) \in S /\ Tail(s) \in Seq(S)
         /\ ToSet(s) = {Head(s)} \cup ToSet(Tail(s))
<1>1. /\ Head(s) \in S /\ Tail(s) \in Seq(S) /\ Len(Tail(s)) = Len(s) - 1 /\ Len(s) \in Nat \ {0}
      /\ Head(s) = s[1] /\ \A i \in 1 .. Len(s) - 1 : Tail(s)[i] = s[i + 1]
  OBVIOUS
<1>2. {Head(s)} \cup ToSet(Tail(s)) \subseteq ToSet(s)
  BY <1>1 DEF ToSet
<1>3. ASSUME NEW i \in 1 .. Len(s) PROVE s[i] \in {Head(s)} \cup ToSet(Tail(s))
  <2>1. CASE i = 1
    BY <1>1, <2>1
  <2>2. CASE i # 1
    <3>1. i - 1 \in 1 .. Len(s) - 1 /\ (i - 1) + 1 = i
      BY <1>1, <2>2
    <3>2. s[i] = Tail(s)[i - 1] /\ i - 1 \in DOMAIN Tail(s)
      BY <1>1, <3>1
    <3> QED BY <3>2 DEF ToSet
  <2> QED BY <2>1, <2>2
<1>4. ToSet(s) \subseteq {Head(s)} \cup ToSet(Tail(s))
  BY <1>3 DEF ToSet
<1> QED BY <1>1, <1>2, <1>4

\* A snapshot on the manifest's base is a real one.
LEMMA SameBaseIsSnapshot ==
  ASSUME TypeOK, SameBase
  PROVE  handle \in Snapshot
<1>1. CASE handle = Nowhere
  <2>1. manifest.order \in Seq(Name) /\ manifest.order = <<None>>
    BY <1>1 DEF TypeOK, Manifest, SameBase, Nowhere
  <2>2. manifest.order[1] = None /\ 1 \in DOMAIN manifest.order
    BY <2>1
  <2>3. None \in Name
    BY <2>1, <2>2
  <2> QED BY <2>3, BoundAssumption DEF Name, None
<1> QED BY <1>1 DEF TypeOK

\* The plan keeps a prefix of the snapshot's segments.
LEMMA KeptLemma ==
  ASSUME TypeOK, SameBase, NEW kept \in KeptByPlan
  PROVE  kept \in 0 .. Len(handle.order)
<1>1. Len(handle.order) \in Nat
  BY SameBaseIsSnapshot DEF Snapshot
<1> DEFINE most == IF SegmentLimitExceeded THEN MaxSegments - 1 ELSE Len(handle.order)
<1>2. most <= Len(handle.order) /\ most \in Int
  BY <1>1, BoundAssumption DEF SegmentLimitExceeded
<1>3. KeptByPlan \subseteq (0 .. most) \cup {0}
  BY DEF KeptByPlan
<1> HIDE DEF most
<1> QED BY <1>1, <1>2, <1>3

-------------------------------------------------------------------------------
(* Types and the files of the manifest *)

\* The paths of documents are paths.
LEMMA PathsLemma == \A docs \in SUBSET Doc : PathsOf(docs) \subseteq Path
BY DEF PathsOf, Doc

\* What opening a readable directory gives is a snapshot.
LEMMA OpenedLemma ==
  ASSUME manifest \in Manifest, pathsIdx \in SUBSET Path, FilesPresent(manifest),
         \A n \in DOMAIN sets : sets[n] \in SUBSET Doc
  PROVE  Opened(manifest) \in Snapshot
<1>1. manifest.order \in Seq(Name) /\ manifest.deletes \in Name \cup {None}
  BY DEF Manifest
<1>2. DocsIn(manifest.order) \in SUBSET Doc
  BY DEF DocsIn
<1>3. Hidden(manifest) \in SUBSET Doc
  BY DEF Hidden, FilesPresent
<1>4. PathsOf(DocsIn(manifest.order)) \subseteq Path /\ pathsIdx \in SUBSET Path
  BY <1>2, PathsLemma
<1> QED BY <1>1, <1>2, <1>3, <1>4 DEF Opened, Snapshot

\* Between two operations.
LEMMA IdleType == Idle \in Operation
BY DEF Idle, Operation, Step, Manifest

\* Until it is saved, the manifest that a writer prepares names files that are there.
WritingFiles == op.step \in {"segments", "deletes", "flushIndex", "manifest"} => FilesPresent(op.next)

FilesInv == TypeOK /\ ManifestFilesExist /\ WritingFiles

\* At first there is one segment of all paths.
LEMMA InitFiles == Init => FilesInv
<1> SUFFICES ASSUME Init PROVE FilesInv
  OBVIOUS
<1>1. ManifestFilesExist /\ WritingFiles
  BY DEF Init, ManifestFilesExist, WritingFiles, FilesPresent, Idle
<1>2. TypeOK
  <2>1. DOMAIN segs \subseteq Name /\ \A n \in DOMAIN segs : segs[n] \in (SUBSET Path) \ {{}}
    BY BoundAssumption, PathAssumption DEF Init, Name
  <2>2. manifest \in Manifest /\ pathsIdx \in SUBSET Path
    BY BoundAssumption DEF Init, Manifest, Name
  <2>3. DOMAIN disk = {} /\ DOMAIN sets = {}
    BY DEF Init
  <2>4. handle \in Snapshot
    BY <1>1, <2>2, <2>3, OpenedLemma DEF Init, ManifestFilesExist
  <2> QED BY <2>1, <2>2, <2>3, <2>4, IdleType DEF Init, TypeOK
<1> QED BY <1>1, <1>2 DEF FilesInv

\* A step that writes and collects nothing, and prepares no manifest, keeps the files.
LEMMA SameFiles ==
  ASSUME FilesInv, UNCHANGED <<segs, sets, manifest>>,
         op'.step \in {"segments", "deletes", "flushIndex", "manifest"} =>
             \/ op.step \in {"segments", "deletes", "flushIndex", "manifest"} /\ op'.next = op.next
             \/ FilesPresent(op'.next)
  PROVE  ManifestFilesExist' /\ WritingFiles'
BY DEF FilesInv, ManifestFilesExist, WritingFiles, FilesPresent

\* A collection by the saved manifest leaves the files it names.
LEMMA GcFiles ==
  ASSUME FilesInv, Gc(manifest), manifest' = manifest
  PROVE  /\ FilesPresent(manifest)'
         /\ DOMAIN segs' = DOMAIN segs \cap ToSet(manifest.order)
         /\ \A n \in DOMAIN segs' : segs'[n] = segs[n]
         /\ DOMAIN disk' = DOMAIN disk \cap ToSet(manifest.order)
         /\ \A n \in DOMAIN disk' : disk'[n] = disk[n]
         /\ DOMAIN sets' = DOMAIN sets \cap {manifest.deletes}
         /\ \A n \in DOMAIN sets' : sets'[n] = sets[n]
<1>1. /\ DOMAIN segs' = DOMAIN segs \cap ToSet(manifest.order)
      /\ \A n \in DOMAIN segs' : segs'[n] = segs[n]
      /\ DOMAIN disk' = DOMAIN disk \cap ToSet(manifest.order)
      /\ \A n \in DOMAIN disk' : disk'[n] = disk[n]
      /\ DOMAIN sets' = DOMAIN sets \cap {manifest.deletes}
      /\ \A n \in DOMAIN sets' : sets'[n] = sets[n]
  BY OnlyLemma, ZenonT(30) DEF Gc
<1>2. FilesPresent(manifest)'
  BY <1>1 DEF FilesInv, ManifestFilesExist, FilesPresent, ToSet
<1> QED BY <1>1, <1>2

\* Every action keeps the types.
LEMMA TypeStep ==
  ASSUME FilesInv, [Next]_vars
  PROVE  TypeOK'
<1> USE DEF FilesInv
<1>1. /\ DOMAIN segs \subseteq Name /\ \A n \in DOMAIN segs : segs[n] \in (SUBSET Path) \ {{}}
      /\ DOMAIN disk \subseteq DOMAIN segs
      /\ DOMAIN sets \subseteq Name /\ \A n \in DOMAIN sets : sets[n] \in SUBSET Doc
      /\ pathsIdx \in SUBSET Path
      /\ manifest \in Manifest
      /\ handle \in Snapshot \cup {Nowhere}
      /\ op \in Operation
  BY DEF TypeOK
<1>2. FilesPresent(manifest)
  BY DEF ManifestFilesExist
<1>3. Opened(manifest) \in Snapshot
  BY <1>1, <1>2, OpenedLemma
<1>4. ASSUME NEW step \in Step, Proceed(step) PROVE op' \in Operation
  BY <1>1, <1>4 DEF Proceed, Operation
<1>5. ASSUME NEW changed \in SUBSET Path, NEW removed \in SUBSET Path, Commit(changed, removed) PROVE TypeOK'
  <2>1. handle \in Snapshot
    BY <1>1, <1>5 DEF Commit
  <2>2. handle' \in Snapshot
    BY <1>5, <2>1 DEF Commit, Snapshot
  <2> QED BY <1>1, <1>5, <2>2 DEF Commit, TypeOK
<1>6. ASSUME NEW paths \in Trees, BuildBegin(paths) PROVE TypeOK'
  <2>1. paths \in SUBSET Path
    BY TreesAssumption
  <2>2. PICK cut \in Cuts(paths) :
           op' = [Idle EXCEPT !.kind = "build", !.step = "segments", !.paths = paths, !.todo = cut, !.next.trusted = TRUE]
    BY <1>6 DEF BuildBegin
  <2>3. cut \in Seq((SUBSET Path) \ {{}})
    BY <2>1, CutsLemma
  <2>4. op' \in Operation
    BY <1>6, <2>1, <2>2, <2>3, IdleType DEF BuildBegin, Operation, Manifest, Step
  <2> QED BY <1>1, <1>6, <2>4, GcFiles DEF BuildBegin, TypeOK
<1>7. CASE FlushBegin
  <2>1. handle \in Snapshot
    BY <1>7, SameBaseIsSnapshot DEF FlushBegin
  <2>2. handle' \in Snapshot
    BY <1>7, <2>1 DEF FlushBegin, Snapshot
  <2> DEFINE cut == IF handle.overlay = {} THEN <<>> ELSE <<handle.overlay>>
  <2>3. cut \in Seq((SUBSET Path) \ {{}})
    <3>1. CASE handle.overlay = {}
      BY <3>1
    <3>2. CASE handle.overlay \in (SUBSET Path) \ {{}}
      BY <3>2, OneAndTwo
    <3> QED BY <2>1, <3>1, <3>2 DEF Snapshot
  <2>4. handle.index \in SUBSET Path /\ manifest.order \in Seq(Name)
    BY <1>1, <2>1 DEF Snapshot, Manifest
  <2>5. op' = [Idle EXCEPT !.kind = "flush", !.step = "segments", !.paths = handle.index,
                           !.todo = cut, !.next.order = manifest.order]
    BY <1>7 DEF FlushBegin
  <2> HIDE DEF cut
  <2>6. op' = [kind |-> "flush", step |-> "segments", paths |-> handle.index, todo |-> cut, missed |-> {},
               next |-> [order |-> manifest.order, deletes |-> None, trusted |-> FALSE]]
    BY <2>5 DEF Idle
  <2>7. op' \in Operation
    <3>1. op'.next \in Manifest
      BY <2>4, <2>6 DEF Manifest
    <3>2. "flush" \in Kinds /\ "segments" \in Step
      BY <1>7 DEF FlushBegin, Step
    <3> QED BY <2>3, <2>4, <2>6, <3>1, <3>2 DEF Operation
  <2> QED BY <1>1, <1>7, <2>2, <2>7 DEF FlushBegin, TypeOK
<1>8. ASSUME NEW kept, CompactBegin(kept) PROVE TypeOK'
  <2> DEFINE prefix == SubSeq(handle.order, 1, kept)
             stays  == {d \in handle.docs : d[1] \in ToSet(prefix)}
             live   == handle.docs \ (stays \cup handle.hidden)
             moved  == PathsOf(live) \cup handle.overlay
             lost   == {d[2] : d \in {e \in live : e[2] \in Read(e[1]).missed}}
  <2>1. PICK cut \in Cuts(moved) :
           op' = [op EXCEPT !.kind = "compact", !.step = "segments", !.paths = moved, !.todo = cut,
                            !.missed = lost, !.next.order = prefix, !.next.trusted = TRUE]
    BY <1>8 DEF CompactBegin, CompactFrom
  <2>2. handle \in Snapshot /\ SameBase /\ kept \in KeptByPlan
    BY <1>8, SameBaseIsSnapshot DEF CompactBegin, CompactFrom
  <2>3. prefix \in Seq(Name)
    BY <2>2, KeptLemma, PrefixLemma DEF Snapshot
  <2>4. moved \in SUBSET Path /\ lost \in SUBSET Path
    <3>1. live \in SUBSET Doc /\ handle.overlay \in SUBSET Path
      BY <2>2 DEF Snapshot
    <3> HIDE DEF live
    <3> QED BY <3>1, PathsLemma DEF Doc
  <2>5. cut \in Seq((SUBSET Path) \ {{}})
    BY <2>1, <2>4, CutsLemma
  <2> HIDE DEF prefix, moved, lost
  <2>6. "compact" \in Kinds
    BY <1>8 DEF CompactBegin, CompactFrom
  <2>7. op' \in Operation
    BY <1>1, <2>1, <2>3, <2>4, <2>5, <2>6 DEF Operation, Manifest, Step
  <2> QED BY <1>1, <1>8, <2>7 DEF CompactBegin, CompactFrom, TypeOK
<1>9. CASE WriteSegment
  <2> DEFINE lacking == op.missed \cap Head(op.todo)
  <2>1. op.todo \in Seq((SUBSET Path) \ {{}}) /\ op.todo # <<>> /\ op.next.order \in Seq(Name) /\ op.next \in Manifest
    BY <1>1, <1>9 DEF WriteSegment, Operation, Manifest
  <2>2. Head(op.todo) \in (SUBSET Path) \ {{}} /\ Tail(op.todo) \in Seq((SUBSET Path) \ {{}})
    BY <2>1, HeadTailLemma
  <2>3. Fresh \in Name
    BY <1>9, FreshIsUnused DEF WriteSegment
  <2>4. Append(op.next.order, Fresh) \in Seq(Name)
    BY <2>1, <2>3, AppendLemma
  <2>5. /\ DOMAIN segs' = DOMAIN segs \cup {Fresh} /\ segs'[Fresh] = Head(op.todo)
        /\ \A m \in DOMAIN segs \ {Fresh} : segs'[m] = segs[m]
    <3>1. segs' = With(segs, Fresh, Head(op.todo))
      BY <1>9 DEF WriteSegment
    <3> QED BY <3>1 DEF With
  <2>6. DOMAIN disk' \subseteq DOMAIN disk \cup {Fresh}
    <3>1. disk' = disk \/ \E content : disk' = With(disk, Fresh, content)
      BY <1>9 DEF WriteSegment
    <3> QED BY <3>1 DEF With
  <2>7. op' \in Operation
    BY <1>1, <1>9, <2>1, <2>2, <2>4 DEF WriteSegment, Operation, Manifest
  <2>8. \A n \in DOMAIN segs' : segs'[n] \in (SUBSET Path) \ {{}}
    BY <1>1, <2>2, <2>5
  <2> QED BY <1>1, <1>9, <2>3, <2>5, <2>6, <2>7, <2>8 DEF WriteSegment, TypeOK
<1>10. CASE SegmentsDone
  <2>1. op' \in Operation
    BY <1>4, <1>10 DEF SegmentsDone, Step
  <2> QED BY <1>1, <1>10, <2>1 DEF SegmentsDone, TypeOK
<1>11. CASE WriteDeletes
  <2>1. op' \in Operation
    <3>1. CASE Proceed("flushIndex")
      BY <1>4, <3>1 DEF Step
    <3>2. CASE Name \ Used # {} /\ op' = [op EXCEPT !.step = "flushIndex", !.next.deletes = Fresh]
      BY <1>1, <3>2, FreshIsUnused DEF Operation, Manifest, Step
    <3> QED BY <1>11, <3>1, <3>2 DEF WriteDeletes
  <2>2. DOMAIN sets' \subseteq Name /\ \A n \in DOMAIN sets' : sets'[n] \in SUBSET Doc
    <3>1. CASE sets' = sets
      BY <1>1, <3>1
    <3>2. CASE handle.hidden # {} /\ Name \ Used # {} /\ sets' = With(sets, Fresh, handle.hidden)
      <4>1. handle.hidden \in SUBSET Doc
        BY <1>1 DEF Snapshot, Nowhere
      <4>2. /\ DOMAIN sets' = DOMAIN sets \cup {Fresh} /\ sets'[Fresh] = handle.hidden
            /\ \A m \in DOMAIN sets \ {Fresh} : sets'[m] = sets[m]
        BY <3>2 DEF With
      <4>3. Fresh \in Name
        BY <3>2, FreshIsUnused
      <4> QED BY <1>1, <4>1, <4>2, <4>3
    <3> QED BY <1>11, <3>1, <3>2 DEF WriteDeletes
  <2> QED BY <1>1, <1>11, <2>1, <2>2 DEF WriteDeletes, TypeOK
<1>12. CASE WriteFlushIndex
  <2>1. op' \in Operation /\ pathsIdx' \in SUBSET Path
    <3>1. CASE Proceed("manifest") /\ UNCHANGED pathsIdx
      BY <1>1, <1>4, <3>1 DEF Step
    <3>2. CASE pathsIdx' = op.paths /\ op' = [op EXCEPT !.step = "manifest", !.next.trusted = TRUE]
      BY <1>1, <3>2 DEF Operation, Manifest, Step
    <3> QED BY <1>12, <3>1, <3>2 DEF WriteFlushIndex
  <2> QED BY <1>1, <1>12, <2>1 DEF WriteFlushIndex, TypeOK
<1>13. CASE SaveManifest
  <2>1. op' \in Operation /\ manifest' \in Manifest
    BY <1>1, <1>4, <1>13 DEF SaveManifest, Step, Operation
  <2> QED BY <1>1, <1>13, <2>1 DEF SaveManifest, TypeOK
<1>14. CASE Collect
  <2>1. op' \in Operation
    BY <1>4, <1>14 DEF Collect, Step
  <2> QED BY <1>1, <1>14, <2>1, GcFiles DEF Collect, TypeOK
<1>15. CASE WriteIndex
  <2>1. op' \in Operation /\ pathsIdx' \in SUBSET Path
    BY <1>1, <1>4, <1>15 DEF WriteIndex, Step, Operation
  <2> QED BY <1>1, <1>15, <2>1 DEF WriteIndex, TypeOK
<1>16. CASE Adopt \/ Restart
  BY <1>1, <1>3, <1>16, IdleType DEF Adopt, Restart, TypeOK
<1>17. CASE Fail
  BY <1>1, <1>17, IdleType DEF Fail, TypeOK
<1>18. CASE PowerLoss
  <2>1. PICK i \in DOMAIN manifest.order, o \in Outcomes : disk' = With(disk, manifest.order[i], o[3])
    BY <1>18 DEF PowerLoss
  <2>2. DOMAIN disk' = {manifest.order[i]}
    <3>1. DOMAIN disk = {}
      BY <1>18 DEF PowerLoss, Faulty
    <3> QED BY <2>1, <3>1 DEF With
  <2>3. DOMAIN segs' = DOMAIN segs \cap ToSet(manifest.order) /\ \A n \in DOMAIN segs' : segs'[n] = segs[n]
    <3>1. segs' = Only(segs, ToSet(manifest.order))
      BY <1>18 DEF PowerLoss
    <3> QED BY <3>1, OnlyLemma
  <2>4. manifest.order[i] \in DOMAIN segs'
    BY <1>2, <2>3 DEF FilesPresent, ToSet
  <2> QED BY <1>1, <1>18, <2>2, <2>3, <2>4, IdleType DEF PowerLoss, TypeOK
<1>19. CASE UNCHANGED vars
  BY <1>1, <1>19 DEF vars, TypeOK
<1> QED BY <1>5, <1>6, <1>7, <1>8, <1>9, <1>10, <1>11, <1>12, <1>13, <1>14, <1>15, <1>16, <1>17, <1>18, <1>19 DEF Next

\* A new segment or delete-set file leaves those there that were there.
LEMMA GrownFiles ==
  ASSUME FilesInv, DOMAIN segs \subseteq DOMAIN segs', DOMAIN sets \subseteq DOMAIN sets', manifest' = manifest,
         op.step \in {"segments", "deletes", "flushIndex", "manifest"},
         /\ \A i \in DOMAIN op'.next.order : op'.next.order[i] \in DOMAIN segs \cup DOMAIN segs'
         /\ op'.next.deletes # None => op'.next.deletes \in DOMAIN sets \cup DOMAIN sets'
  PROVE  ManifestFilesExist' /\ WritingFiles'
BY DEF FilesInv, ManifestFilesExist, WritingFiles, FilesPresent

\* Every action leaves the files there that the manifest names, and those that the next
\* one will name.
LEMMA FilesStep ==
  ASSUME FilesInv, [Next]_vars
  PROVE  ManifestFilesExist' /\ WritingFiles'
<1> DEFINE Preparing == {"segments", "deletes", "flushIndex", "manifest"}
<1>1. op \in Operation /\ manifest \in Manifest
  BY DEF FilesInv, TypeOK
<1>2. Idle.step \notin Preparing
  BY DEF Idle
<1>3. ASSUME NEW step \in Step, Proceed(step) PROVE op'.step = step /\ op'.next = op.next
  BY <1>1, <1>3 DEF Proceed, Operation
<1>4. ASSUME NEW changed \in SUBSET Path, NEW removed \in SUBSET Path, Commit(changed, removed)
      PROVE  ManifestFilesExist' /\ WritingFiles'
  BY <1>2, <1>4, SameFiles DEF Commit
<1>5. ASSUME NEW paths \in Trees, BuildBegin(paths) PROVE ManifestFilesExist' /\ WritingFiles'
  <2>1. op'.next.order = <<>> /\ op'.next.deletes = None
    BY <1>5 DEF BuildBegin, Idle
  <2> QED BY <1>5, <2>1, GcFiles DEF BuildBegin, ManifestFilesExist, WritingFiles, FilesPresent
<1>6. CASE FlushBegin
  <2>1. op'.next.order = manifest.order /\ op'.next.deletes = None
    BY <1>6 DEF FlushBegin, Idle
  <2>2. FilesPresent(op'.next)
    BY <2>1 DEF FilesInv, ManifestFilesExist, FilesPresent
  <2> QED BY <1>6, <2>2, SameFiles DEF FlushBegin
<1>7. ASSUME NEW kept, CompactBegin(kept) PROVE ManifestFilesExist' /\ WritingFiles'
  <2>1. op = Idle /\ SameBase /\ kept \in KeptByPlan
    BY <1>7 DEF CompactBegin, CompactFrom
  <2>2. op'.next.order = SubSeq(handle.order, 1, kept) /\ op'.next.deletes = None
    <3> DEFINE prefix == SubSeq(handle.order, 1, kept)
               stays  == {d \in handle.docs : d[1] \in ToSet(prefix)}
               live   == handle.docs \ (stays \cup handle.hidden)
               moved  == PathsOf(live) \cup handle.overlay
               lost   == {d[2] : d \in {e \in live : e[2] \in Read(e[1]).missed}}
    <3>1. PICK cut \in Cuts(moved) :
             op' = [op EXCEPT !.kind = "compact", !.step = "segments", !.paths = moved, !.todo = cut,
                              !.missed = lost, !.next.order = prefix, !.next.trusted = TRUE]
      BY <1>7 DEF CompactBegin, CompactFrom
    <3> HIDE DEF moved, lost
    <3>2. op.next.deletes = None
      BY <2>1 DEF Idle
    <3> QED BY <1>1, <3>1, <3>2 DEF Operation, Manifest
  <2>3. handle.order \in Seq(Name) /\ kept \in 0 .. Len(handle.order)
    BY <2>1, SameBaseIsSnapshot, KeptLemma DEF FilesInv, Snapshot
  <2>4. ToSet(op'.next.order) \subseteq ToSet(manifest.order)
    BY <2>1, <2>2, <2>3, PrefixLemma DEF SameBase
  <2>5. FilesPresent(op'.next)
    BY <2>2, <2>4 DEF FilesInv, ManifestFilesExist, FilesPresent, ToSet
  <2> QED BY <1>7, <2>5, SameFiles DEF CompactBegin, CompactFrom
<1>8. CASE WriteSegment
  <2>1. op.next.order \in Seq(Name) /\ Fresh \in Name
    BY <1>1, <1>8, FreshIsUnused DEF WriteSegment, Operation, Manifest
  <2>2. op'.next.order = Append(op.next.order, Fresh) /\ op'.next.deletes = op.next.deletes
    BY <1>1, <1>8 DEF WriteSegment, Operation, Manifest
  <2>3. ToSet(op'.next.order) = ToSet(op.next.order) \cup {Fresh}
    BY <2>1, <2>2, AppendLemma
  <2>4. DOMAIN segs' = DOMAIN segs \cup {Fresh}
    <3>1. segs' = With(segs, Fresh, Head(op.todo))
      BY <1>8 DEF WriteSegment
    <3> QED BY <3>1 DEF With
  <2>5. FilesPresent(op.next)
    BY <1>8 DEF FilesInv, WritingFiles, WriteSegment
  <2> QED BY <1>8, <2>2, <2>3, <2>4, <2>5, GrownFiles DEF WriteSegment, FilesPresent, ToSet
<1>9. CASE SegmentsDone
  <2>1. op.step \in Preparing /\ op'.next = op.next
    BY <1>3, <1>9 DEF SegmentsDone, Step
  <2> QED BY <1>9, <2>1, SameFiles DEF SegmentsDone
<1>10. CASE WriteDeletes
  <2>1. CASE Proceed("flushIndex") /\ UNCHANGED sets
    <3>1. op.step \in Preparing /\ op'.next = op.next
      BY <1>3, <1>10, <2>1 DEF WriteDeletes, Step
    <3> QED BY <1>10, <2>1, <3>1, SameFiles DEF WriteDeletes
  <2>2. CASE sets' = With(sets, Fresh, handle.hidden) /\ op' = [op EXCEPT !.step = "flushIndex", !.next.deletes = Fresh]
    <3>1. DOMAIN sets' = DOMAIN sets \cup {Fresh}
      BY <2>2 DEF With
    <3>2. op'.next.order = op.next.order /\ op'.next.deletes = Fresh
      BY <1>1, <2>2 DEF Operation, Manifest
    <3>3. FilesPresent(op.next)
      BY <1>10 DEF FilesInv, WritingFiles, WriteDeletes
    <3> QED BY <1>10, <3>1, <3>2, <3>3, GrownFiles DEF WriteDeletes, FilesPresent
  <2> QED BY <1>10, <2>1, <2>2 DEF WriteDeletes
<1>11. CASE WriteFlushIndex
  <2>1. op'.next.order = op.next.order /\ op'.next.deletes = op.next.deletes
    <3>1. CASE Proceed("manifest")
      BY <1>3, <3>1 DEF Step
    <3>2. CASE op' = [op EXCEPT !.step = "manifest", !.next.trusted = TRUE]
      BY <1>1, <3>2 DEF Operation, Manifest
    <3> QED BY <1>11, <3>1, <3>2 DEF WriteFlushIndex
  <2>2. FilesPresent(op.next)
    BY <1>11 DEF WriteFlushIndex, FilesInv, WritingFiles
  <2> QED BY <1>11, <2>1, <2>2, SameFiles DEF WriteFlushIndex, FilesPresent
<1>12. CASE SaveManifest
  <2>1. FilesPresent(op.next) /\ op'.step = "gc"
    BY <1>3, <1>12 DEF SaveManifest, FilesInv, WritingFiles, Step
  <2> QED BY <1>12, <2>1 DEF SaveManifest, ManifestFilesExist, WritingFiles, FilesPresent
<1>13. CASE Collect
  <2>1. op'.step \notin Preparing
    BY <1>3, <1>13 DEF Collect, Step
  <2> QED BY <1>13, <2>1, GcFiles DEF Collect, ManifestFilesExist, WritingFiles
<1>14. CASE WriteIndex
  <2>1. op'.step \notin Preparing
    BY <1>3, <1>14 DEF WriteIndex, Step
  <2> QED BY <1>14, <2>1, SameFiles DEF WriteIndex
<1>15. CASE Adopt \/ Restart \/ Fail
  BY <1>2, <1>15, SameFiles DEF Adopt, Restart, Fail
<1>16. CASE PowerLoss
  <2>1. DOMAIN segs' = DOMAIN segs \cap ToSet(manifest.order)
    <3>1. segs' = Only(segs, ToSet(manifest.order))
      BY <1>16 DEF PowerLoss
    <3> QED BY <3>1, OnlyLemma
  <2>2. FilesPresent(manifest)'
    BY <1>16, <2>1 DEF PowerLoss, FilesInv, ManifestFilesExist, FilesPresent, ToSet
  <2> QED BY <1>2, <1>16, <2>2 DEF PowerLoss, ManifestFilesExist, WritingFiles
<1>17. CASE UNCHANGED vars
  BY <1>17 DEF vars, FilesInv, ManifestFilesExist, WritingFiles, FilesPresent
<1> QED BY <1>4, <1>5, <1>6, <1>7, <1>8, <1>9, <1>10, <1>11, <1>12, <1>13, <1>14, <1>15, <1>16, <1>17 DEF Next

\* FilesInv holds in every state, through crashes and power loss.
THEOREM FilesInvariant == Spec => []FilesInv
<1>1. FilesInv /\ [Next]_vars => FilesInv'
  BY TypeStep, FilesStep DEF FilesInv
<1> QED BY <1>1, InitFiles, PTL DEF Spec

\* Every variable keeps its type; no segment is ever written empty.
THEOREM TypeCorrect == Spec => []TypeOK
<1>1. FilesInv => TypeOK
  BY DEF FilesInv
<1> QED BY <1>1, FilesInvariant, PTL

\* Wherever a writer dies, the files that the manifest names are there.
THEOREM DirectoryOpens == Spec => []ManifestFilesExist
<1>1. FilesInv => ManifestFilesExist
  BY DEF FilesInv
<1> QED BY <1>1, FilesInvariant, PTL

-------------------------------------------------------------------------------
(* Only the replacement of the manifest publishes *)

\* A step that leaves the manifest and the files it names alone publishes nothing.
LEMMA SameDurable ==
  ASSUME FilesInv, manifest' = manifest,
         \A n \in ToSet(manifest.order) : n \in DOMAIN segs => segs'[n] = segs[n],
         \A n \in DOMAIN sets : n = manifest.deletes => sets'[n] = sets[n]
  PROVE  Durable' = Durable
<1>1. \A i \in DOMAIN manifest.order : segs'[manifest.order[i]] = segs[manifest.order[i]]
  BY DEF FilesInv, ManifestFilesExist, FilesPresent, ToSet
<1>2. Written(manifest.order)' = Written(manifest.order)
  BY <1>1 DEF Written
<1>3. Hidden(manifest)' = Hidden(manifest)
  BY DEF FilesInv, ManifestFilesExist, FilesPresent, Hidden
<1> QED BY <1>2, <1>3 DEF Durable

\* What a fresh name leaves alone.
LEMMA FreshElsewhere ==
  ASSUME Name \ Used # {}
  PROVE  /\ Fresh \notin DOMAIN segs /\ Fresh \notin DOMAIN sets
         /\ Fresh \notin ToSet(manifest.order) /\ Fresh \notin ToSet(handle.order)
BY FreshIsUnused DEF Used

\* The segment that is written is the first to write, under a fresh name.
LEMMA WrittenSegment ==
  ASSUME FilesInv, WriteSegment
  PROVE  /\ DOMAIN segs' = DOMAIN segs \cup {Fresh} /\ segs'[Fresh] = Head(op.todo)
         /\ \A n \in DOMAIN segs : n # Fresh /\ segs'[n] = segs[n]
         /\ DOMAIN disk \subseteq DOMAIN disk' /\ DOMAIN disk' \subseteq DOMAIN disk \cup {Fresh}
         /\ \A n \in DOMAIN disk : disk'[n] = disk[n]
<1>1. Fresh \notin DOMAIN segs /\ DOMAIN disk \subseteq DOMAIN segs
  BY FreshElsewhere DEF WriteSegment, FilesInv, TypeOK
<1>2. segs' = With(segs, Fresh, Head(op.todo))
  BY DEF WriteSegment
<1>3. DOMAIN segs' = DOMAIN segs \cup {Fresh} /\ segs'[Fresh] = Head(op.todo) /\ \A n \in DOMAIN segs : n # Fresh /\ segs'[n] = segs[n]
  BY <1>1, <1>2 DEF With
<1>4. disk' = disk \/ \E content : disk' = With(disk, Fresh, content)
  BY DEF WriteSegment
<1>5. /\ DOMAIN disk \subseteq DOMAIN disk' /\ DOMAIN disk' \subseteq DOMAIN disk \cup {Fresh}
      /\ \A n \in DOMAIN disk : disk'[n] = disk[n]
  BY <1>1, <1>4 DEF With
<1> QED BY <1>3, <1>5

\* No other action changes what a later process finds.
LEMMA PublishStep ==
  ASSUME FilesInv, [Next]_vars, op.step # "manifest"
  PROVE  Durable' = Durable
<1>1. CASE \E changed, removed \in SUBSET Path : Commit(changed, removed)
  BY <1>1, SameDurable DEF Commit
<1>2. CASE (\E paths \in Trees : BuildBegin(paths)) \/ Collect
  <2>1. Gc(manifest) /\ manifest' = manifest
    BY <1>2 DEF BuildBegin, Collect
  <2>2. \A n \in ToSet(manifest.order) : n \in DOMAIN segs => segs'[n] = segs[n]
    BY <2>1, GcFiles
  <2>3. \A n \in DOMAIN sets : n = manifest.deletes => sets'[n] = sets[n]
    BY <2>1, GcFiles
  <2> QED BY <2>1, <2>2, <2>3, SameDurable
<1>3. CASE FlushBegin \/ \E kept \in 0 .. MaxName : CompactBegin(kept)
  BY <1>3, SameDurable DEF FlushBegin, CompactBegin, CompactFrom
<1>4. CASE WriteSegment
  BY <1>4, WrittenSegment, SameDurable DEF WriteSegment
<1>5. CASE WriteDeletes
  <2>1. \A n \in DOMAIN sets : sets'[n] = sets[n]
    <3>1. CASE Name \ Used # {} /\ sets' = With(sets, Fresh, handle.hidden)
      BY <3>1, FreshElsewhere DEF With
    <3> QED BY <1>5, <3>1 DEF WriteDeletes
  <2> QED BY <1>5, <2>1, SameDurable DEF WriteDeletes
<1>6. CASE SegmentsDone \/ WriteFlushIndex \/ WriteIndex \/ Adopt \/ Fail \/ Restart
  BY <1>6, SameDurable DEF SegmentsDone, WriteFlushIndex, WriteIndex, Adopt, Fail, Restart
<1>7. CASE SaveManifest
  BY <1>7 DEF SaveManifest
<1>8. CASE PowerLoss
  <2>1. segs' = Only(segs, ToSet(manifest.order))
    BY <1>8 DEF PowerLoss
  <2>2. \A n \in ToSet(manifest.order) : n \in DOMAIN segs => segs'[n] = segs[n]
    BY <2>1, OnlyLemma, ZenonT(30)
  <2> QED BY <1>8, <2>2, SameDurable DEF PowerLoss
<1>9. CASE UNCHANGED vars
  BY <1>9, SameDurable DEF vars
<1> QED BY <1>1, <1>2, <1>3, <1>4, <1>5, <1>6, <1>7, <1>8, <1>9 DEF Next

\* A writer's effect is all or nothing: what a later process finds changes only when the
\* manifest is replaced, never with a file written, collected or lost half way.
THEOREM OnlySavedIsFound == Spec => OnlyManifestPublishes
<1>1. FilesInv /\ [Next]_vars => [Durable' # Durable => op.step = "manifest"]_vars
  BY PublishStep
<1> QED BY <1>1, FilesInvariant, PTL DEF Spec, OnlyManifestPublishes

-------------------------------------------------------------------------------
(* A compaction loses no document *)

\* A snapshot has every document that can be read from the segments it still finds.
DocsMapped ==
    \A n \in ToSet(handle.order) \cap DOMAIN segs : \A p \in Path \cap Read(n).listed : <<n, p>> \in handle.docs

\* A compaction works on the snapshot of the manifest and hides nothing: what its snapshot
\* was given is in the segments of the manifest it prepares, or still to be written.
CompactionCovers ==
    op.kind = "compact" =>
        /\ op.step \notin {"deletes", "flushIndex"}
        /\ op.step = "manifest" => op.todo = <<>>
        /\ op.step \in {"segments", "manifest"} =>
              /\ SameBase
              /\ op.next.deletes = None
              /\ Given \subseteq PathsOf(Written(op.next.order)) \cup UNION ToSet(op.todo)

LossInv == FilesInv /\ DocsMapped /\ CompactionCovers

\* A snapshot stays mapped while the segments it finds stay as they are.
LEMMA SameDocs ==
  ASSUME DocsMapped, handle'.order = handle.order, handle'.docs = handle.docs,
         \A n \in ToSet(handle.order) \cap DOMAIN segs' : n \in DOMAIN segs /\ Read(n)' = Read(n)
  PROVE  DocsMapped'
BY DEF DocsMapped

\* An opened directory is mapped.
LEMMA OpenedDocs ==
  ASSUME TypeOK, handle' = Opened(manifest), UNCHANGED <<segs, disk>>
  PROVE  DocsMapped'
<1> SUFFICES ASSUME NEW n \in ToSet(manifest.order) \cap DOMAIN segs, NEW p \in Path \cap Read(n).listed
             PROVE  <<n, p>> \in DocsIn(manifest.order)
  BY DEF DocsMapped, Opened, Read
<1>1. <<n, p>> \in Doc
  BY DEF TypeOK, Doc
<1>2. PICK i \in DOMAIN manifest.order : n = manifest.order[i]
  BY DEF ToSet
<1> QED BY <1>1, <1>2 DEF DocsIn

\* Every action keeps snapshots mapped: a collection takes files away and changes none,
\* and a fresh name is none of theirs.
LEMMA DocsStep ==
  ASSUME LossInv, [Next]_vars
  PROVE  DocsMapped'
<1> USE DEF LossInv
<1>1. DOMAIN disk \subseteq DOMAIN segs /\ DOMAIN segs \subseteq Name
  BY DEF FilesInv, TypeOK
<1>2. ASSUME UNCHANGED <<segs, disk>>, handle'.order = handle.order, handle'.docs = handle.docs PROVE DocsMapped'
  BY <1>2, SameDocs DEF Read
<1>3. ASSUME NEW changed, NEW removed, Commit(changed, removed) PROVE DocsMapped'
  <2>1. handle \in Snapshot
    BY <1>3 DEF Commit, FilesInv, TypeOK
  <2>2. handle'.order = handle.order /\ handle'.docs = handle.docs
    BY <1>3, <2>1 DEF Commit, Snapshot
  <2> QED BY <1>2, <1>3, <2>2 DEF Commit
<1>4. CASE (\E paths \in Trees : BuildBegin(paths)) \/ Collect
  <2>1. Gc(manifest) /\ manifest' = manifest /\ handle' = handle
    BY <1>4 DEF BuildBegin, Collect
  <2>2. ASSUME NEW n \in DOMAIN segs' PROVE n \in DOMAIN segs /\ Read(n)' = Read(n)
    BY <2>1, <2>2, GcFiles DEF Read
  <2> QED BY <2>1, <2>2, SameDocs
<1>5. CASE FlushBegin
  <2>1. handle \in Snapshot
    BY <1>5, SameBaseIsSnapshot DEF FlushBegin, FilesInv
  <2>2. handle'.order = handle.order /\ handle'.docs = handle.docs
    BY <1>5, <2>1 DEF FlushBegin, Snapshot
  <2> QED BY <1>2, <1>5, <2>2 DEF FlushBegin
<1>6. CASE WriteSegment
  <2>1. Fresh \notin ToSet(handle.order) /\ handle' = handle
    BY <1>6, FreshElsewhere DEF WriteSegment
  <2>2. ASSUME NEW n \in ToSet(handle.order) \cap DOMAIN segs' PROVE n \in DOMAIN segs /\ Read(n)' = Read(n)
    BY <1>6, <2>1, <2>2, WrittenSegment DEF Read
  <2> QED BY <2>1, <2>2, SameDocs
<1>7. CASE Adopt \/ Restart
  BY <1>7, OpenedDocs DEF Adopt, Restart, FilesInv
<1>8. CASE (\E kept \in 0 .. MaxName : CompactBegin(kept)) \/ SegmentsDone \/ WriteDeletes \/ WriteFlushIndex
           \/ SaveManifest \/ WriteIndex \/ Fail
  BY <1>2, <1>8 DEF CompactBegin, CompactFrom, SegmentsDone, WriteDeletes, WriteFlushIndex, SaveManifest, WriteIndex, Fail
<1>9. CASE PowerLoss
  <2>1. DOMAIN segs' \subseteq Name
    BY <1>9, TypeStep DEF TypeOK
  <2>2. ToSet(handle'.order) = {None}
    BY <1>9, OneAndTwo, ZenonT(30) DEF PowerLoss, Nowhere
  <2> QED BY <2>1, <2>2 DEF DocsMapped, Name, None
<1>10. CASE UNCHANGED vars
  BY <1>2, <1>10 DEF vars
<1> QED BY <1>3, <1>4, <1>5, <1>6, <1>7, <1>8, <1>9, <1>10 DEF Next

\* The plan's prefix and the rewritten documents are all that the snapshot was given: the
\* compaction reads every document of the segments it rewrites, or stops.
LEMMA CompactionBegins ==
  ASSUME LossInv, NEW kept, CompactBegin(kept)
  PROVE  CompactionCovers'
<1> DEFINE prefix == SubSeq(handle.order, 1, kept)
           stays  == {d \in handle.docs : d[1] \in ToSet(prefix)}
           live   == handle.docs \ (stays \cup handle.hidden)
           moved  == PathsOf(live) \cup handle.overlay
           lost   == {d[2] : d \in {e \in live : e[2] \in Read(e[1]).missed}}
<1>1. PICK cut \in Cuts(moved) :
         op' = [op EXCEPT !.kind = "compact", !.step = "segments", !.paths = moved, !.todo = cut,
                          !.missed = lost, !.next.order = prefix, !.next.trusted = TRUE]
  BY DEF CompactBegin, CompactFrom
<1>2. /\ op = Idle /\ SameBase /\ kept \in KeptByPlan
      /\ \A n \in ToSet(handle.order) \ ToSet(prefix) : ~Unreadable(n)
      /\ UNCHANGED <<segs, disk, sets, pathsIdx, manifest, handle>>
  BY DEF CompactBegin, CompactFrom
<1>3. op \in Operation /\ handle \in Snapshot
  BY <1>2, SameBaseIsSnapshot DEF LossInv, FilesInv, TypeOK
<1>4. moved \in SUBSET Path
  BY <1>3, PathsLemma DEF Snapshot
<1>5. UNION ToSet(cut) = moved
  BY <1>1, <1>4, CutsLemma
<1>6. Given \subseteq PathsOf(Written(prefix)) \cup moved
  <2> SUFFICES ASSUME NEW p \in Given, p \notin handle.overlay, p \notin PathsOf(Written(prefix))
               PROVE  p \in PathsOf(live)
    OBVIOUS
  <2>1. PICK d \in Written(handle.order) \ handle.hidden : p = d[2]
    BY DEF Given, PathsOf
  <2>2. PICK i \in DOMAIN handle.order : d[1] = handle.order[i] /\ d[2] \in segs[d[1]]
    BY <2>1 DEF Written
  <2>3. d \in Doc /\ d = <<d[1], p>> /\ p \in Path
    BY <2>1 DEF Written, Doc
  <2>4. d[1] \in ToSet(handle.order) /\ d[1] \in DOMAIN segs
    BY <1>2, <2>2 DEF ToSet, SameBase, LossInv, FilesInv, ManifestFilesExist, FilesPresent
  <2>5. d[1] \notin ToSet(prefix)
    <3> SUFFICES ASSUME d[1] \in ToSet(prefix) PROVE FALSE
      OBVIOUS
    <3>1. PICK j \in DOMAIN prefix : d[1] = prefix[j]
      BY DEF ToSet
    <3>2. d \in Written(prefix)
      BY <2>2, <2>3, <3>1 DEF Written
    <3> QED BY <2>3, <3>2 DEF PathsOf
  <2>6. p \notin Read(d[1]).misread
    BY <2>4 DEF Given
  <2>7. p \in Read(d[1]).listed
    BY <1>2, <2>1, <2>2, <2>3, <2>4, <2>5, <2>6 DEF Unreadable
  <2>8. d \in handle.docs
    BY <2>3, <2>4, <2>7 DEF LossInv, DocsMapped
  <2>9. d \in live
    BY <2>1, <2>5, <2>8
  <2> HIDE DEF live
  <2> QED BY <2>1, <2>9 DEF PathsOf
<1>7. Given' = Given /\ SameBase'
  BY <1>2, ZenonT(30) DEF Given, Written, Read, SameBase
<1> HIDE DEF prefix, moved, lost
<1>8. op'.step = "segments" /\ op'.todo = cut /\ op'.next.order = prefix /\ op'.next.deletes = op.next.deletes
  BY <1>1, <1>3 DEF Operation, Manifest
<1>9. op.next.deletes = None
  BY <1>2 DEF Idle
<1>10. PathsOf(Written(op.next.order))' = PathsOf(Written(prefix))
  BY <1>2, <1>8 DEF Written, PathsOf
<1> QED BY <1>5, <1>6, <1>7, <1>8, <1>9, <1>10 DEF CompactionCovers

\* Writing a segment moves its documents from what is left to write to what is written.
LEMMA CompactionWrites ==
  ASSUME LossInv, op.kind = "compact", WriteSegment
  PROVE  CompactionCovers'
<1>1. op \in Operation /\ SameBase /\ FilesPresent(op.next) /\ DOMAIN disk \subseteq DOMAIN segs
  BY DEF LossInv, FilesInv, TypeOK, CompactionCovers, WriteSegment, WritingFiles
<1>2. /\ op.todo \in Seq((SUBSET Path) \ {{}}) /\ op.todo # <<>> /\ op.next.order \in Seq(Name) /\ Fresh \in Name
      /\ Fresh \notin ToSet(handle.order) /\ UNCHANGED <<manifest, handle>>
  BY <1>1, FreshIsUnused, FreshElsewhere DEF WriteSegment, Operation, Manifest
<1>3. Head(op.todo) \in SUBSET Path /\ ToSet(op.todo) = {Head(op.todo)} \cup ToSet(Tail(op.todo))
  BY <1>2, HeadTailLemma
<1>4. /\ op'.kind = op.kind /\ op'.step = "segments" /\ op'.todo = Tail(op.todo)
      /\ op'.next.order = Append(op.next.order, Fresh) /\ op'.next.deletes = op.next.deletes
  BY <1>1 DEF WriteSegment, Operation, Manifest
<1>5. \A n \in ToSet(handle.order) : n \in DOMAIN segs /\ segs'[n] = segs[n] /\ Read(n)' = Read(n)
  <2> SUFFICES ASSUME NEW n \in ToSet(handle.order)
               PROVE  n \in DOMAIN segs /\ segs'[n] = segs[n] /\ Read(n)' = Read(n)
    OBVIOUS
  <2>1. n \in DOMAIN segs
    BY <1>1 DEF SameBase, ToSet, LossInv, FilesInv, ManifestFilesExist, FilesPresent
  <2>2. segs'[n] = segs[n] /\ (n \in DOMAIN disk' <=> n \in DOMAIN disk) /\ (n \in DOMAIN disk => disk'[n] = disk[n])
    BY <1>1, <1>2, <2>1, WrittenSegment DEF LossInv
  <2> QED BY <2>1, <2>2 DEF Read
<1>6. Given' = Given
  <2>1. Written(handle.order)' = Written(handle.order)
    BY <1>2, <1>5 DEF Written, ToSet
  <2>2. {Read(n).misread : n \in ToSet(handle.order)}' = {Read(n).misread : n \in ToSet(handle.order)}
    BY <1>2, <1>5
  <2> QED BY <1>2, <2>1, <2>2 DEF Given
<1>7. /\ \A n \in ToSet(op.next.order) : n \in DOMAIN segs /\ segs'[n] = segs[n]
      /\ segs'[Fresh] = Head(op.todo)
  BY <1>1, WrittenSegment DEF LossInv, FilesPresent, ToSet
<1>8. PathsOf(Written(op.next.order)) \cup Head(op.todo) \subseteq PathsOf(Written(op.next.order))'
  <2> SUFFICES ASSUME NEW p \in PathsOf(Written(op.next.order)) \cup Head(op.todo)
               PROVE  \E d \in Written(op.next.order)' : p = d[2]
    BY DEF PathsOf
  <2>1. op'.next.order \in Seq(Name) /\ ToSet(op'.next.order) = ToSet(op.next.order) \cup {Fresh}
    BY <1>2, <1>4, AppendLemma
  <2>2. ASSUME NEW n \in ToSet(op'.next.order), n \in Name, p \in Path, p \in segs'[n] PROVE <<n, p>> \in Written(op.next.order)'
    BY <2>2 DEF Written, Doc, ToSet
  <2>3. CASE p \in Head(op.todo)
    <3>1. <<Fresh, p>> \in Written(op.next.order)'
      BY <1>2, <1>3, <1>7, <2>1, <2>2, <2>3
    <3> QED BY <3>1
  <2>4. CASE p \in PathsOf(Written(op.next.order))
    <3>1. PICK d \in Written(op.next.order) : p = d[2]
      BY <2>4 DEF PathsOf
    <3>2. d[1] \in ToSet(op.next.order) /\ d[1] \in Name /\ p \in Path /\ p \in segs[d[1]]
      BY <3>1 DEF Written, Doc, ToSet
    <3>3. <<d[1], p>> \in Written(op.next.order)'
      BY <1>7, <2>1, <2>2, <3>2
    <3> QED BY <3>3
  <2> QED BY <2>3, <2>4
<1>9. Given \subseteq PathsOf(Written(op.next.order)) \cup UNION ToSet(op.todo) /\ op.next.deletes = None
  BY DEF LossInv, CompactionCovers, WriteSegment
<1>10. SameBase'
  BY <1>1, <1>2 DEF SameBase
<1>11. UNION ToSet(op.todo) = Head(op.todo) \cup UNION ToSet(op'.todo)
  BY <1>3, <1>4
<1>12. Given' \subseteq PathsOf(Written(op.next.order))' \cup UNION ToSet(op'.todo)
  BY <1>6, <1>8, <1>9, <1>11
<1> QED BY <1>4, <1>9, <1>10, <1>12 DEF CompactionCovers

\* Every action keeps a running compaction's promise; the others run for no compaction.
LEMMA CoversStep ==
  ASSUME LossInv, [Next]_vars
  PROVE  CompactionCovers'
<1>1. op \in Operation
  BY DEF LossInv, FilesInv, TypeOK
<1>2. ASSUME NEW step \in Step, Proceed(step)
      PROVE  op'.step = step /\ op'.kind = op.kind /\ op'.todo = op.todo /\ op'.next = op.next
  BY <1>1, <1>2 DEF Proceed, Operation
<1>3. ASSUME op' = Idle PROVE CompactionCovers'
  BY <1>3 DEF CompactionCovers, Idle
<1>4. ASSUME NEW changed, NEW removed, Commit(changed, removed) PROVE CompactionCovers'
  BY <1>3, <1>4 DEF Commit
<1>5. ASSUME NEW paths \in Trees, BuildBegin(paths) PROVE CompactionCovers'
  BY <1>5 DEF BuildBegin, Idle, CompactionCovers
<1>6. CASE FlushBegin
  BY <1>6 DEF FlushBegin, Idle, CompactionCovers
<1>7. CASE \E kept \in 0 .. MaxName : CompactBegin(kept)
  BY <1>7, CompactionBegins
<1>8. CASE WriteSegment
  <2>1. op'.kind = op.kind
    BY <1>1, <1>8 DEF WriteSegment, Operation
  <2> QED BY <1>8, <2>1, CompactionWrites DEF CompactionCovers
<1>9. CASE SegmentsDone
  <2>1. /\ op'.step = IF op.kind = "flush" THEN "deletes" ELSE "manifest"
        /\ op'.kind = op.kind /\ op'.todo = op.todo /\ op'.next = op.next
    BY <1>2, <1>9 DEF SegmentsDone, Step
  <2>2. Given' = Given /\ Written(op.next.order)' = Written(op.next.order) /\ SameBase' = SameBase
    BY <1>9, <2>1 DEF SegmentsDone, Given, Written, Read, SameBase
  <2>3. op.step = "segments" /\ op.todo = <<>>
    BY <1>9 DEF SegmentsDone
  <2>4. PathsOf(Written(op.next.order))' = PathsOf(Written(op.next.order))
    BY <2>2 DEF PathsOf
  <2> QED BY <2>1, <2>2, <2>3, <2>4 DEF LossInv, CompactionCovers
<1>10. CASE WriteDeletes
  <2>1. op'.kind = op.kind
    BY <1>1, <1>10 DEF WriteDeletes, Proceed, Operation
  <2> QED BY <1>10, <2>1 DEF WriteDeletes, LossInv, CompactionCovers
<1>11. CASE WriteFlushIndex
  <2>1. op'.kind = op.kind
    BY <1>1, <1>11 DEF WriteFlushIndex, Proceed, Operation
  <2> QED BY <1>11, <2>1 DEF WriteFlushIndex, LossInv, CompactionCovers
<1>12. CASE SaveManifest \/ Collect \/ WriteIndex
  <2>1. op'.step \in {"gc", "adopt", "index"}
    BY <1>2, <1>12 DEF SaveManifest, Collect, WriteIndex, Step
  <2> QED BY <2>1 DEF CompactionCovers
<1>13. CASE Adopt \/ Fail \/ Restart \/ PowerLoss
  BY <1>3, <1>13 DEF Adopt, Fail, Restart, PowerLoss
<1>14. CASE UNCHANGED vars
  BY <1>14 DEF vars, LossInv, CompactionCovers, Given, Written, PathsOf, Read, SameBase
<1> QED BY <1>4, <1>5, <1>6, <1>7, <1>8, <1>9, <1>10, <1>11, <1>12, <1>13, <1>14 DEF Next

\* LossInv holds in every state.
THEOREM LossInvariant == Spec => []LossInv
<1>1. Init => LossInv
  <2> SUFFICES ASSUME Init PROVE LossInv
    OBVIOUS
  <2>1. FilesInv
    BY InitFiles
  <2>2. DocsMapped
    <3> SUFFICES ASSUME NEW n \in ToSet(manifest.order) \cap DOMAIN segs, NEW p \in Path \cap Read(n).listed
                 PROVE  <<n, p>> \in DocsIn(manifest.order)
      BY DEF Init, DocsMapped, Opened
    <3>1. <<n, p>> \in Doc
      BY <2>1 DEF FilesInv, TypeOK, Doc
    <3>2. PICK i \in DOMAIN manifest.order : n = manifest.order[i]
      BY DEF ToSet
    <3> QED BY <3>1, <3>2 DEF DocsIn
  <2>3. CompactionCovers
    BY DEF Init, CompactionCovers, Idle
  <2> QED BY <2>1, <2>2, <2>3 DEF LossInv
<1>2. LossInv /\ [Next]_vars => LossInv'
  BY TypeStep, FilesStep, DocsStep, CoversStep DEF LossInv, FilesInv
<1> QED BY <1>1, <1>2, PTL DEF Spec

\* A compaction makes no loss permanent: when it replaces the manifest, it publishes every
\* document of the overlay and every one that its snapshot's segments were given and that
\* is not hidden, whatever power loss left of them; but for a record with another path.
THEOREM CompactionKeepsDocs == Spec => LossIsNotCompacted
<1>1. ASSUME LossInv, [Next]_vars, op.kind = "compact", op.step = "manifest", manifest' # manifest
      PROVE  Given \subseteq PathsOf(Durable')
  <2>1. SaveManifest
    BY <1>1 DEF Next, vars, Commit, BuildBegin, FlushBegin, CompactBegin, CompactFrom, WriteSegment, SegmentsDone,
                WriteDeletes, WriteFlushIndex, Collect, WriteIndex, Adopt, Fail, Restart, PowerLoss
  <2>2. op.todo = <<>> /\ op.next.deletes = None /\ Given \subseteq PathsOf(Written(op.next.order)) \cup UNION ToSet(op.todo)
    BY <1>1 DEF LossInv, CompactionCovers
  <2>3. ToSet(op.todo) = {}
    BY <2>2 DEF ToSet
  <2>4. manifest' = op.next /\ segs' = segs
    BY <2>1 DEF SaveManifest
  <2>5. Durable' = Written(op.next.order)
    BY <2>2, <2>4 DEF Durable, Written, Hidden
  <2> QED BY <2>2, <2>3, <2>5
<1>2. LossInv /\ [Next]_vars =>
         [op.kind = "compact" /\ op.step = "manifest" /\ manifest' # manifest => Given \subseteq PathsOf(Durable')]_vars
  BY <1>1
<1> QED BY <1>2, LossInvariant, PTL DEF Spec, LossIsNotCompacted
================================================================================
