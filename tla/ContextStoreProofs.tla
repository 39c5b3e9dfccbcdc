-------------------------- MODULE ContextStoreProofs --------------------------
(***************************************************************************)
(* Proofs about ContextStore, for any conversations, keys, texts, limits   *)
(* and numbers of operations, when a failing rename fails before it is     *)
(* done ("sync" is not among the faults).                                  *)
(*                                                                         *)
(* What later processes find is spread over the journal and the listed     *)
(* segments, and each piece of it moves while other pieces change.  The    *)
(* invariant says where it is: `Pending` in the journal, `Held` in the     *)
(* segments, each document in one place and every turn on its side of the  *)
(* manifest's `through`; and, while a write is staged, that its files hold *)
(* what the commit is going to take from elsewhere.                        *)
(***************************************************************************)
EXTENDS ContextStore, TLAPS, FiniteSetTheorems

Record == [seq : Nat, session : Session, text : Nat, compiles : BOOLEAN]
DocKey == ({"turn"} \X Nat) \cup ({"doc"} \X Key)
Document == [key : DocKey, turn : SUBSET Record, text : Text \cup {Nothing}]
Proper(d) == \/ \E t \in d.turn : d = TurnDoc(t)
             \/ \E k \in Key, v \in Text : d = FileDoc(k, v)

\* What the journal adds to the manifest, and what the manifest's segments show.
Pending == After(journal, manifest.through)
Indexed(turns) == {t \in turns : t.compiles}
Shows(m, f) == {d \in bytes[f] : d.key \in Undead(m, f)}
Held(m) == UNION {Shows(m, f) : f \in Listed(m)}
Found(t) == t \in Pending \/ ~t.compiles \/ TurnDoc(t) \in Held(manifest)

Fits(m) ==
    /\ m = [gen |-> m.gen, dead |-> m.dead, through |-> m.through]
    /\ m.gen \in Nat /\ m.through \in Nat
    /\ Listed(m) \subseteq DOMAIN bytes
    /\ \A f \in Listed(m) : m.dead[f] \subseteq KeysOf(bytes[f])

\* A file never holds a key twice, and all manifests speak of files that were written.
FilesInv ==
    /\ bytes \in Seq(SUBSET Document)
    /\ \A f \in DOMAIN bytes :
          /\ bytes[f] # {} /\ \A d \in bytes[f] : Proper(d)
          /\ \A d, e \in bytes[f] : d.key = e.key => d = e
    /\ present \subseteq DOMAIN bytes
    /\ Fits(manifest)

\* A document is shown by one segment at most, and turns that were flushed lie behind
\* `through`.
ManifestInv ==
    /\ writer.manifest = manifest
    /\ Listed(manifest) \subseteq present
    /\ \A f, g \in Listed(manifest) : f # g => Undead(manifest, f) \cap Undead(manifest, g) = {}
    /\ \A f \in Listed(manifest) : \A d \in bytes[f] : \A t \in d.turn : t.seq <= manifest.through

\* The process has the turns that a replay would give it, and shows no other.
JournalInv ==
    /\ journal \subseteq Record /\ shown \subseteq Pending
    /\ \A t, u \in Pending : t.seq = u.seq => t = u
    /\ writer = [up |-> writer.up, manifest |-> writer.manifest, live |-> writer.live,
                 next |-> writer.next, linked |-> writer.linked]
    /\ writer.up \in BOOLEAN /\ writer.next \in Nat
    /\ writer.up => /\ writer.live = Pending /\ writer.linked
                    /\ writer.next > manifest.through
                    /\ \A t \in Pending : t.seq < writer.next

MemTypes ==
    {Idle} \cup [pc : {"append", "appended", "flush"}, turn : Record]
        \cup [pc : {"flush"}] \cup [pc : {"forget", "unindex"}, session : Session]
MemInv ==
    /\ mem \in MemTypes
    /\ mem # Idle => writer.up
    /\ mem.pc = "append" => mem.turn.seq = writer.next /\ mem.turn.session \notin gone
    /\ mem.pc = "appended" \/ (mem.pc = "flush" /\ "turn" \in DOMAIN mem) => Found(mem.turn)
    /\ mem.pc \in {"forget", "unindex"} =>
          \A t \in Pending \cup acked : t.session # mem.session
    /\ mem.pc = "flush" <=> seg # Idle /\ seg.by = "flush"
    /\ mem.pc = "unindex" <=> seg # Idle /\ seg.by = "forget"

SegTypes ==
    [pc : {"commit", "gc", "done"}, by : {"flush", "forget", "apply", "compact", "merge"},
     asked : [upserts : Upserts, removals : SUBSET Key], files : SUBSET Nat,
     removals : SUBSET DocKey, drop : SUBSET Nat, through : Nat]

\* A document of a turn of the conversation that is being forgotten.
Theirs(d) == \E t \in d.turn : t.session = mem.session
\* What a staged write is going to publish, by the operation it is part of.
FlushStaged ==
    /\ StagedDocs(seg) = TurnDocs(Indexed(Pending)) /\ seg.drop = {}
    /\ seg.removals = {<<"turn", t.seq>> : t \in Pending \ Indexed(Pending)}
    /\ \A t \in Pending : t.seq <= seg.through
    /\ \E t \in Pending : t.seq = seg.through
ForgetStaged ==
    /\ seg.files = {} /\ seg.drop = {} /\ seg.through = 0
    /\ KeysOf({d \in Held(manifest) : Theirs(d)}) = seg.removals
ApplyStaged ==
    LET ups == seg.asked.upserts IN
    /\ StagedDocs(seg) = {FileDoc(k, ups[k]) : k \in {i \in DOMAIN ups : ups[i] # Unreadable}}
    /\ seg.removals = {<<"doc", k>> : k \in seg.asked.removals}
                         \cup {<<"doc", k>> : k \in {i \in DOMAIN ups : ups[i] = Unreadable}}
    /\ DOMAIN ups \cap seg.asked.removals = {}
    /\ seg.drop = {} /\ seg.through = 0
CompactStaged ==
    /\ seg.drop \subseteq Listed(manifest) /\ seg.removals = {} /\ seg.through = 0
    /\ StagedDocs(seg) = UNION {Shows(manifest, f) : f \in seg.drop}
Staged ==
    /\ seg.files \subseteq present /\ seg.files \cap Listed(manifest) = {}
    /\ \A f, g \in seg.files : f # g => KeysOf(bytes[f]) \cap KeysOf(bytes[g]) = {}
    /\ seg.by = "flush" => FlushStaged
    /\ seg.by = "forget" => ForgetStaged
    /\ seg.by = "apply" => ApplyStaged
    /\ seg.by \in {"compact", "merge"} => CompactStaged
\* What a turn operation may rely on once its write is committed.
Settled ==
    /\ seg.by = "flush" => Pending = {}
    /\ seg.by = "forget" => \A d \in Held(manifest) : ~Theirs(d)
SegInv ==
    seg # Idle =>
       /\ seg \in SegTypes /\ writer.up
       /\ seg.by # "apply" => seg.asked = NoWrite
       /\ seg.pc = "commit" => Staged
       /\ seg.pc # "commit" => Settled
       /\ seg.pc = "done" => seg.by \in {"flush", "forget"}

\* Every acknowledged turn that compiles is found, and no turn of a forgotten conversation.
HistInv ==
    /\ \A t \in acked : Found(t)
    /\ \A t \in Pending : t.session \notin gone
    /\ \A d \in Held(manifest) : \A t \in d.turn : t.session \notin gone

ReaderInv ==
    /\ reader = [pc |-> reader.pc, manifest |-> reader.manifest, turns |-> reader.turns,
                 next |-> reader.next, read |-> reader.read]
    /\ reader.pc \in {"idle", "journal", "open"}
    /\ Fits(reader.manifest) /\ Fits(reader.next)

StoreInv == FilesInv /\ ManifestInv /\ JournalInv /\ MemInv /\ SegInv /\ HistInv
IInv == StoreInv /\ ReaderInv

-------------------------------------------------------------------------------
(* Documents *)

\* The keys of turns and of other documents are apart.
LEMMA Keys ==
    /\ \A m, n : <<"turn", m>> = <<"turn", n>> => m = n
    /\ \A k, l : <<"doc", k>> = <<"doc", l>> => k = l
    /\ \A n, k : <<"turn", n>> # <<"doc", k>>
OBVIOUS

\* The fields of documents.
LEMMA DocFields ==
    /\ \A t : TurnDoc(t).key = <<"turn", t.seq>> /\ TurnDoc(t).turn = {t}
    /\ \A k, v : FileDoc(k, v).key = <<"doc", k>> /\ FileDoc(k, v).turn = {}
              /\ FileDoc(k, v).text = v
BY DEF TurnDoc, FileDoc

\* The turns that compile are those with a document.
LEMMA LiveDocsAre ==
    ASSUME NEW T \in SUBSET Record
    PROVE  /\ LiveDocs(T) = TurnDocs(Indexed(T))
           /\ Skipped(TurnDocs(T)) = {<<"turn", t.seq>> : t \in T \ Indexed(T)}
<1>1. \A t \in T : TurnDoc(t).text # Unreadable <=> t.compiles
  BY StoreAssumption DEF TurnDoc, Record
<1>2. LiveDocs(T) = TurnDocs(Indexed(T))
  BY <1>1 DEF LiveDocs, Readable, TurnDocs, Indexed
<1>3. TurnDocs(T) \ LiveDocs(T) = {TurnDoc(t) : t \in T \ Indexed(T)}
  BY <1>1 DEF LiveDocs, Readable, TurnDocs, Indexed
<1>4. Skipped(TurnDocs(T)) = {d.key : d \in {TurnDoc(t) : t \in T \ Indexed(T)}}
  BY <1>3 DEF Skipped, KeysOf, LiveDocs
<1>5. {d.key : d \in {TurnDoc(t) : t \in T \ Indexed(T)}} = {TurnDoc(t).key : t \in T \ Indexed(T)}
  OBVIOUS
<1>6. \A t \in T : TurnDoc(t).key = <<"turn", t.seq>>
  BY DocFields
<1>7. {TurnDoc(t).key : t \in T \ Indexed(T)} = {<<"turn", t.seq>> : t \in T \ Indexed(T)}
  BY <1>6
<1> QED
  BY <1>2, <1>4, <1>5, <1>7

\* No document of a segment has the key of a turn behind `through`.
LEMMA PendingKeys ==
    ASSUME FilesInv, ManifestInv,
           NEW f \in Listed(manifest), NEW d \in bytes[f], NEW t, t.seq > manifest.through
    PROVE  d.key # TurnDoc(t).key
<1>1. Proper(d) /\ \A u \in d.turn : u.seq <= manifest.through
  BY DEF FilesInv, ManifestInv, Fits
<1>2. CASE \E u \in d.turn : d = TurnDoc(u)
  <2>1. PICK u \in d.turn : d = TurnDoc(u)
    BY <1>2
  <2>2. u.seq \in Nat /\ manifest.through \in Nat
    <3>1. bytes[f] \in SUBSET Document
      BY DEF FilesInv, Fits
    <3>2. d.turn \subseteq Record
      BY <3>1 DEF Document
    <3> QED
      BY <3>2 DEF Record, FilesInv, Fits
  <2>3. u.seq # t.seq
    BY <1>1, <2>2
  <2> QED
    BY <2>1, <2>3, Keys, DocFields
<1>3. CASE \E k \in Key, v \in Text : d = FileDoc(k, v)
  BY <1>3, Keys, DocFields
<1> QED
  BY <1>1, <1>2, <1>3 DEF Proper

\* Beside turns the manifest does not hold, a segment shows all it has undead.
LEMMA AliveIsShown ==
    ASSUME FilesInv, ManifestInv, NEW live \in SUBSET Pending, NEW f \in Listed(manifest)
    PROVE  Alive(manifest, live, f) = Shows(manifest, f)
<1> SUFFICES ASSUME NEW d \in Shows(manifest, f) PROVE d \in Alive(manifest, live, f)
  BY DEF Alive, Shows
<1>1. d \in bytes[f] /\ d.key \in Undead(manifest, f)
  BY DEF Shows
<1>2. d.key \notin KeysOf(LiveDocs(live))
  <2> SUFFICES ASSUME NEW t \in live PROVE d.key # TurnDoc(t).key
    BY DEF KeysOf, LiveDocs, Readable, TurnDocs
  <2>1. t.seq > manifest.through
    BY DEF Pending, After
  <2> QED
    BY <1>1, <2>1, PendingKeys
<1>3. \A g \in Listed(manifest) : g > f => d.key \notin Undead(manifest, g)
  <2> SUFFICES ASSUME NEW g \in Listed(manifest), g > f PROVE d.key \notin Undead(manifest, g)
    OBVIOUS
  <2>1. g # f
    <3>1. f \in Nat /\ g \in Nat
      BY DEF FilesInv, Fits
    <3> QED
      BY <3>1
  <2> QED
    BY <1>1, <2>1 DEF ManifestInv
<1> QED
  BY <1>1, <1>2, <1>3 DEF Alive

\* What a later process finds, and what this one shows.
LEMMA Contents ==
    ASSUME FilesInv, ManifestInv, JournalInv
    PROVE  /\ Recoverable = Held(manifest) \cup TurnDocs(Indexed(Pending))
           /\ Published = Held(manifest) \cup TurnDocs(Indexed(shown))
<1>1. \A f \in Listed(manifest) : Alive(manifest, Pending, f) = Shows(manifest, f)
  BY AliveIsShown
<1>2. \A f \in Listed(manifest) : Alive(manifest, shown, f) = Shows(manifest, f)
  BY AliveIsShown DEF JournalInv
<1>3. /\ UNION {Alive(manifest, Pending, f) : f \in Listed(manifest)} = Held(manifest)
      /\ UNION {Alive(manifest, shown, f) : f \in Listed(manifest)} = Held(manifest)
  BY <1>1, <1>2 DEF Held
<1>4. Recoverable = Held(manifest) \cup TurnDocs(Indexed(Pending))
  <2>1. Pending \in SUBSET Record
    BY DEF Pending, After, JournalInv
  <2> QED
    BY <1>3, <2>1, LiveDocsAre DEF Recoverable, Visible, Pending
<1>5. Published = Held(manifest) \cup TurnDocs(Indexed(shown))
  <2>1. shown \in SUBSET Record
    BY DEF Pending, After, JournalInv
  <2> QED
    BY <1>3, <2>1, LiveDocsAre DEF Published, Visible, ManifestInv
<1> QED
  BY <1>4, <1>5

-------------------------------------------------------------------------------
(* What a step that leaves the manifest alone keeps *)

\* What the segments show depends on the manifest and on the files it lists.
LEMMA ShownKept ==
    ASSUME FilesInv, manifest' = manifest, \A f \in DOMAIN bytes : bytes'[f] = bytes[f]
    PROVE  /\ \A f \in Listed(manifest) : /\ Undead(manifest, f)' = Undead(manifest, f)
                                          /\ Shows(manifest, f)' = Shows(manifest, f)
           /\ Held(manifest)' = Held(manifest)
<1>1. Listed(manifest)' = Listed(manifest)
  BY DEF Listed
<1>2. \A f \in Listed(manifest) : bytes'[f] = bytes[f]
  BY DEF FilesInv, Fits
<1>3. \A f \in Listed(manifest) : Undead(manifest, f)' = Undead(manifest, f)
  BY <1>2 DEF Undead
<1>4. \A f \in Listed(manifest) : Shows(manifest, f)' = Shows(manifest, f)
  BY <1>2, <1>3 DEF Shows
<1> QED
  BY <1>1, <1>3, <1>4 DEF Held

LEMMA FitsKept ==
    ASSUME NEW m, Fits(m), DOMAIN bytes \subseteq DOMAIN bytes',
           \A f \in DOMAIN bytes : bytes'[f] = bytes[f],
           NEW n, n = m
    PROVE  /\ n = [gen |-> n.gen, dead |-> n.dead, through |-> n.through]
           /\ n.gen \in Nat /\ n.through \in Nat
           /\ DOMAIN n.dead \subseteq DOMAIN bytes'
           /\ \A f \in DOMAIN n.dead : n.dead[f] \subseteq KeysOf(bytes'[f])
BY DEF Fits, Listed

LEMMA FilesKept ==
    ASSUME FilesInv, bytes' = bytes, manifest' = manifest, present' \subseteq DOMAIN bytes
    PROVE  FilesInv'
BY DEF FilesInv, Fits, Listed, KeysOf, Proper, TurnDoc, FileDoc

LEMMA ManifestKept ==
    ASSUME FilesInv, ManifestInv, manifest' = manifest, writer'.manifest = writer.manifest,
           \A f \in DOMAIN bytes : bytes'[f] = bytes[f], Listed(manifest) \subseteq present'
    PROVE  ManifestInv'
<1>1. Listed(manifest)' = Listed(manifest)
  BY DEF Listed
<1>2. \A f, g \in Listed(manifest)' :
         f # g => Undead(manifest, f)' \cap Undead(manifest, g)' = {}
  BY <1>1, ShownKept DEF ManifestInv
<1>3. \A f \in Listed(manifest)' : \A d \in bytes'[f] : \A t \in d.turn : t.seq <= manifest'.through
  BY <1>1 DEF ManifestInv, FilesInv, Fits
<1> QED
  BY <1>1, <1>2, <1>3 DEF ManifestInv

LEMMA JournalKept ==
    ASSUME JournalInv, journal' = journal, manifest' = manifest, writer' = writer,
           shown' \subseteq Pending
    PROVE  JournalInv' /\ Pending' = Pending
<1>1. Pending' = Pending
  BY DEF Pending, After
<1> QED
  BY <1>1 DEF JournalInv

LEMMA ReaderKept ==
    ASSUME ReaderInv, reader' = reader, DOMAIN bytes \subseteq DOMAIN bytes',
           \A f \in DOMAIN bytes : bytes'[f] = bytes[f]
    PROVE  ReaderInv'
BY FitsKept DEF ReaderInv, Fits, Listed

\* A turn stays found while journal, manifest and files are what they were.
LEMMA FoundKept ==
    ASSUME FilesInv, manifest' = manifest, journal' = journal,
           \A f \in DOMAIN bytes : bytes'[f] = bytes[f]
    PROVE  /\ Pending' = Pending /\ Held(manifest)' = Held(manifest)
           /\ \A t : Found(t)' <=> Found(t)
<1>1. Pending' = Pending
  BY DEF Pending, After
<1>2. Held(manifest)' = Held(manifest)
  BY ShownKept
<1> QED
  BY <1>1, <1>2 DEF Found

-------------------------------------------------------------------------------
(* Staging *)

\* A staged write has put its documents into files of their own that no manifest lists.
LEMMA StageLemma ==
    ASSUME FilesInv, NEW by, NEW asked, NEW docs, NEW removals, NEW drop, NEW through,
           Readable(docs) \subseteq Document, \A d \in Readable(docs) : Proper(d),
           \A d, e \in Readable(docs) : d.key = e.key => d = e,
           Stage(by, asked, docs, removals, drop, through), manifest' = manifest
    PROVE  /\ seg = Idle /\ FilesInv'
           /\ DOMAIN bytes \subseteq DOMAIN bytes'
           /\ \A f \in DOMAIN bytes : bytes'[f] = bytes[f]
           /\ present \subseteq present'
           /\ seg' = [pc |-> "commit", by |-> by, asked |-> asked, files |-> seg'.files,
                      removals |-> removals \cup Skipped(docs), drop |-> drop,
                      through |-> through]
           /\ seg'.files \subseteq present' /\ seg'.files \subseteq Nat
           /\ seg'.files \cap DOMAIN bytes = {}
           /\ \A f, g \in seg'.files : f # g => KeysOf(bytes'[f]) \cap KeysOf(bytes'[g]) = {}
           /\ UNION {bytes'[f] : f \in seg'.files} = Readable(docs)
<1> DEFINE R == Readable(docs)
<1>1. PICK cut \in Cuts(R) :
         /\ bytes' = bytes \o cut
         /\ present' = present \cup (Len(bytes) + 1 .. Len(bytes) + Len(cut))
         /\ seg' = [pc |-> "commit", by |-> by, asked |-> asked,
                    files |-> Len(bytes) + 1 .. Len(bytes) + Len(cut),
                    removals |-> removals \cup Skipped(docs), drop |-> drop,
                    through |-> through]
  BY DEF Stage
<1>2. PICK n \in Nat : cut \in [1 .. n -> SUBSET R]
  BY <1>1, SMTT(30) DEF Cuts
<1>3. IsCut(cut, R)
  BY DEF Cuts
<1> HIDE DEF R
<1> DEFINE L == Len(bytes)
<1>4. L \in Nat /\ DOMAIN bytes = 1 .. L
  BY DEF FilesInv
<1>5. Len(cut) = n /\ DOMAIN cut = 1 .. n
  BY <1>2
<1>6. /\ DOMAIN bytes' = 1 .. L + n
      /\ \A f \in DOMAIN bytes : bytes'[f] = bytes[f]
      /\ \A i \in 1 .. n : bytes'[L + i] = cut[i]
      /\ \A S : R \subseteq S /\ bytes \in Seq(SUBSET S) => bytes' \in Seq(SUBSET S)
  <2>1. \A S : R \subseteq S /\ bytes \in Seq(SUBSET S) => bytes \o cut \in Seq(SUBSET S)
    <3> SUFFICES ASSUME NEW S, R \subseteq S, bytes \in Seq(SUBSET S)
                 PROVE  bytes \o cut \in Seq(SUBSET S)
      OBVIOUS
    <3>1. cut \in Seq(SUBSET S)
      BY <1>2
    <3> QED
      BY <3>1
  <2>2. bytes \in Seq(SUBSET Document) /\ cut \in Seq(SUBSET R)
    BY <1>2 DEF FilesInv
  <2>3. /\ DOMAIN (bytes \o cut) = 1 .. Len(bytes) + Len(cut)
        /\ \A f \in 1 .. Len(bytes) : (bytes \o cut)[f] = bytes[f]
        /\ \A i \in 1 .. Len(cut) : (bytes \o cut)[Len(bytes) + i] = cut[i]
    BY <2>2
  <2>4. bytes' = bytes \o cut
    BY <1>1
  <2> QED
    BY <1>4, <1>5, <2>1, <2>3, <2>4
<1> HIDE DEF L
<1>7. seg'.files = L + 1 .. L + n
  BY <1>1, <1>5 DEF L
<1>8. \A f \in seg'.files : f - L \in 1 .. n /\ bytes'[f] = cut[f - L]
  BY <1>4, <1>6, <1>7
<1>9. \A f \in seg'.files : bytes'[f] \subseteq R /\ bytes'[f] # {}
  BY <1>2, <1>3, <1>5, <1>8 DEF IsCut
<1>10. UNION {bytes'[f] : f \in seg'.files} = R
  <2>1. ASSUME NEW d \in R PROVE \E f \in seg'.files : d \in bytes'[f]
    <3>1. PICK i \in 1 .. n : d \in cut[i]
      BY <1>3, <1>5 DEF IsCut
    <3>2. L + i \in seg'.files /\ bytes'[L + i] = cut[i]
      BY <1>4, <1>6, <1>7
    <3> QED
      BY <3>1, <3>2
  <2> QED
    BY <1>9, <2>1
<1>11. ASSUME NEW f \in seg'.files, NEW g \in seg'.files, f # g
       PROVE  KeysOf(bytes'[f]) \cap KeysOf(bytes'[g]) = {}
  <2>1. cut[f - L] \cap cut[g - L] = {}
    <3>1. f - L # g - L
      BY <1>4, <1>7, <1>11
    <3> QED
      BY <1>3, <1>5, <1>8, <3>1 DEF IsCut
  <2>2. bytes'[f] \cap bytes'[g] = {}
    BY <1>8, <2>1
  <2>3. \A d, e \in R : d.key = e.key => d = e
    BY DEF R
  <2> QED
    BY <1>9, <2>2, <2>3 DEF KeysOf
<1>12. /\ seg'.files \cap DOMAIN bytes = {} /\ seg'.files \subseteq Nat
       /\ seg'.files \subseteq present' /\ DOMAIN bytes \subseteq DOMAIN bytes'
       /\ DOMAIN bytes' = DOMAIN bytes \cup seg'.files
       /\ present' = present \cup seg'.files
  BY <1>1, <1>4, <1>5, <1>6, <1>7 DEF L
<1>13. FilesInv'
  <2>1. bytes' \in Seq(SUBSET Document)
    <3>1. R \subseteq Document
      BY DEF R
    <3> QED
      BY <1>6, <3>1 DEF FilesInv
  <2>2. \A f \in DOMAIN bytes' :
           /\ bytes'[f] # {} /\ \A d \in bytes'[f] : Proper(d)
           /\ \A d, e \in bytes'[f] : d.key = e.key => d = e
    <3>1. \A d \in R : Proper(d)
      BY DEF R
    <3>2. \A d, e \in R : d.key = e.key => d = e
      BY DEF R
    <3> QED
      BY <1>6, <1>9, <1>12, <3>1, <3>2 DEF FilesInv
  <2>3. Fits(manifest)'
    BY <1>6, <1>12, FitsKept DEF FilesInv, Fits, Listed
  <2> QED
    BY <1>12, <2>1, <2>2, <2>3 DEF FilesInv, Proper, TurnDoc, FileDoc
<1>14. seg = Idle
  BY DEF Stage
<1> QED
  BY <1>1, <1>6, <1>7, <1>10, <1>11, <1>12, <1>13, <1>14, <1>5 DEF R, L

\* What staging leaves alone.
LEMMA StageKeeps ==
    ASSUME IInv, NEW by, NEW asked, NEW docs, NEW removals, NEW drop, NEW through,
           Readable(docs) \subseteq Document, \A d \in Readable(docs) : Proper(d),
           \A d, e \in Readable(docs) : d.key = e.key => d = e,
           Stage(by, asked, docs, removals, drop, through),
           UNCHANGED <<manifest, journal, writer, shown, reader, hist>>
    PROVE  /\ FilesInv' /\ ManifestInv' /\ JournalInv' /\ HistInv' /\ ReaderInv'
           /\ Pending' = Pending /\ Held(manifest)' = Held(manifest)
           /\ \A f \in Listed(manifest) : Shows(manifest, f)' = Shows(manifest, f)
           /\ \A t : Found(t)' <=> Found(t)
           /\ Listed(manifest)' = Listed(manifest)
           /\ StagedDocs(seg)' = Readable(docs)
           /\ seg'.files \cap Listed(manifest) = {}
<1>1. FilesInv /\ ManifestInv /\ JournalInv /\ HistInv /\ ReaderInv
  BY DEF IInv, StoreInv
<1>2. /\ manifest' = manifest /\ journal' = journal /\ writer' = writer /\ shown' = shown
      /\ reader' = reader /\ acked' = acked /\ gone' = gone
  BY DEF hist
<1>3. /\ FilesInv' /\ DOMAIN bytes \subseteq DOMAIN bytes'
      /\ \A f \in DOMAIN bytes : bytes'[f] = bytes[f]
      /\ present \subseteq present' /\ seg'.files \cap DOMAIN bytes = {}
      /\ UNION {bytes'[f] : f \in seg'.files} = Readable(docs)
  BY <1>1, <1>2, StageLemma
<1>4. ManifestInv'
  BY <1>1, <1>2, <1>3, ManifestKept DEF ManifestInv
<1>5. JournalInv'
  BY <1>1, <1>2, JournalKept DEF JournalInv
<1>6. /\ Pending' = Pending /\ Held(manifest)' = Held(manifest)
      /\ \A t : Found(t)' <=> Found(t)
  BY <1>1, <1>2, <1>3, FoundKept
<1>7. \A f \in Listed(manifest) : Shows(manifest, f)' = Shows(manifest, f)
  BY <1>1, <1>2, <1>3, ShownKept
<1>8. HistInv'
  BY <1>1, <1>2, <1>6 DEF HistInv
<1>9. ReaderInv'
  BY <1>1, <1>2, <1>3, ReaderKept
<1>10. StagedDocs(seg)' = Readable(docs)
  BY <1>3 DEF StagedDocs
<1>11. Listed(manifest)' = Listed(manifest) /\ seg'.files \cap Listed(manifest) = {}
  BY <1>1, <1>2, <1>3 DEF Listed, FilesInv, Fits
<1> QED
  BY <1>3, <1>4, <1>5, <1>6, <1>7, <1>8, <1>9, <1>10, <1>11

\* A write staged outside of a turn operation.
LEMMA MemBeside ==
    ASSUME MemInv, seg = Idle, seg' # Idle, seg'.by \notin {"flush", "forget"},
           UNCHANGED <<mem, writer, hist>>, Pending' = Pending, \A t : Found(t)' <=> Found(t)
    PROVE  MemInv'
BY DEF MemInv, hist

LEMMA ApplyStep ==
    ASSUME IInv, NEW u \in Upserts, NEW r \in SUBSET Key, DOMAIN u \cap r = {}, Apply(u, r)
    PROVE  IInv'
<1> DEFINE docs == {FileDoc(k, u[k]) : k \in DOMAIN u}
           good == {k \in DOMAIN u : u[k] # Unreadable}
           bad == {k \in DOMAIN u : u[k] = Unreadable}
           asked == [upserts |-> u, removals |-> r]
           gone_ == {<<"doc", k>> : k \in r}
<1>1. DOMAIN u \subseteq Key /\ \A k \in DOMAIN u : u[k] \in Text \cup {Unreadable}
  BY DEF Upserts
<1>2. Readable(docs) = {FileDoc(k, u[k]) : k \in good}
  BY DocFields DEF Readable
<1>3. Skipped(docs) = {<<"doc", k>> : k \in bad}
  <2>1. docs \ Readable(docs) = {FileDoc(k, u[k]) : k \in bad}
    BY DocFields DEF Readable
  <2>2. Skipped(docs) = {d.key : d \in {FileDoc(k, u[k]) : k \in bad}}
    BY <2>1 DEF Skipped, KeysOf
  <2>3. ASSUME NEW k \in bad PROVE FileDoc(k, u[k]).key = <<"doc", k>>
    BY DocFields
  <2> QED
    BY <2>2, <2>3
<1>4. Readable(docs) \subseteq Document
  <2> SUFFICES ASSUME NEW k \in good PROVE FileDoc(k, u[k]) \in Document
    BY <1>2
  <2> QED
    BY <1>1 DEF FileDoc, Document, DocKey
<1>5. \A d \in Readable(docs) : Proper(d)
  BY <1>1, <1>2 DEF Proper
<1>6. \A d, e \in Readable(docs) : d.key = e.key => d = e
  BY <1>2, DocFields, Keys
<1>7. /\ Stage("apply", asked, docs, gone_, {}, 0)
      /\ UNCHANGED <<manifest, journal, writer, shown, mem, reader, hist>> /\ writer.up
  BY DEF Apply
<1>i. FilesInv /\ ManifestInv /\ JournalInv /\ MemInv /\ SegInv /\ HistInv /\ ReaderInv
  BY DEF IInv, StoreInv
<1> HIDE DEF docs, asked, gone_
<1>8. /\ FilesInv' /\ ManifestInv' /\ JournalInv' /\ HistInv' /\ ReaderInv'
      /\ Pending' = Pending /\ \A t : Found(t)' <=> Found(t)
      /\ Listed(manifest)' = Listed(manifest)
      /\ StagedDocs(seg)' = Readable(docs) /\ seg'.files \cap Listed(manifest) = {}
  BY <1>4, <1>5, <1>6, <1>7, StageKeeps
<1>9. /\ seg = Idle
      /\ seg' = [pc |-> "commit", by |-> "apply", asked |-> asked, files |-> seg'.files,
                 removals |-> gone_ \cup Skipped(docs), drop |-> {}, through |-> 0]
      /\ seg'.files \subseteq present' /\ seg'.files \subseteq Nat
      /\ \A f, g \in seg'.files : f # g => KeysOf(bytes'[f]) \cap KeysOf(bytes'[g]) = {}
  BY <1>i, <1>4, <1>5, <1>6, <1>7, StageLemma
<1>10. seg' # Idle /\ seg'.by = "apply" /\ seg'.pc = "commit"
  BY <1>9 DEF Idle
<1>11. MemInv'
  BY <1>i, <1>7, <1>8, <1>9, <1>10, MemBeside
<1>12. ApplyStaged'
  <2>1. seg'.asked.upserts = u /\ seg'.asked.removals = r /\ seg'.drop = {} /\ seg'.through = 0
    BY <1>9 DEF asked
  <2>2. seg'.removals = {<<"doc", k>> : k \in r} \cup {<<"doc", k>> : k \in bad}
    BY <1>3, <1>9 DEF gone_
  <2> QED
    BY <1>2, <1>8, <2>1, <2>2 DEF ApplyStaged
<1>13. SegInv'
  <2>1. seg' \in SegTypes
    <3>1. gone_ \cup Skipped(docs) \subseteq DocKey
      BY <1>1, <1>3 DEF gone_, DocKey
    <3>2. asked \in [upserts : Upserts, removals : SUBSET Key]
      BY DEF asked
    <3> QED
      BY <1>9, <3>1, <3>2 DEF SegTypes
  <2>2. Staged'
    BY <1>8, <1>9, <1>10, <1>12 DEF Staged
  <2>3. writer'.up
    BY <1>7
  <2> QED
    BY <1>10, <2>1, <2>2, <2>3 DEF SegInv
<1> QED
  BY <1>8, <1>11, <1>13 DEF IInv, StoreInv

LEMMA NoWriteType == NoWrite \in [upserts : Upserts, removals : SUBSET Key]
<1> DEFINE none == [k \in {} |-> Nothing]
<1>1. \A S : none \in [{} -> S]
  OBVIOUS
<1>2. none \in Upserts
  <2>1. {} \in SUBSET Key
    OBVIOUS
  <2>2. none \in [{} -> Text \cup {Unreadable}]
    BY <1>1
  <2> HIDE DEF none
  <2>3. \E K \in SUBSET Key : none \in [K -> Text \cup {Unreadable}]
    BY <2>1, <2>2
  <2> QED
    BY <2>3 DEF Upserts
<1>3. NoWrite = [upserts |-> none, removals |-> {}]
  BY DEF NoWrite
<1> HIDE DEF none
<1> QED
  BY <1>2, <1>3

LEMMA CompactStep ==
    ASSUME IInv, NEW by \in {"compact", "merge"}, NEW chosen \in SUBSET Listed(manifest),
           Compact(by, chosen)
    PROVE  IInv'
<1> DEFINE docs == UNION {Shows(manifest, f) : f \in chosen}
<1>i. FilesInv /\ ManifestInv /\ JournalInv /\ MemInv /\ SegInv /\ HistInv /\ ReaderInv
  BY DEF IInv, StoreInv
<1>1. RewriteDocs(chosen) = docs
  <2>1. \A f \in chosen : Alive(writer.manifest, shown, f) = Shows(manifest, f)
    BY <1>i, AliveIsShown DEF ManifestInv, JournalInv
  <2> QED
    BY <2>1 DEF RewriteDocs
<1>2. /\ docs \subseteq Document
      /\ \A d \in docs : Proper(d) /\ d.text # Unreadable
  <2> SUFFICES ASSUME NEW f \in chosen, NEW d \in Shows(manifest, f)
               PROVE  d \in Document /\ Proper(d) /\ d.text # Unreadable
    OBVIOUS
  <2>1. f \in DOMAIN bytes /\ d \in bytes[f]
    BY <1>i DEF Shows, FilesInv, Fits
  <2>2. d \in Document /\ Proper(d)
    BY <1>i, <2>1 DEF FilesInv
  <2>3. d.text \in Text \cup {Nothing}
    BY <2>2 DEF Document
  <2> QED
    BY <2>2, <2>3, StoreAssumption
<1>3. \A d, e \in docs : d.key = e.key => d = e
  <2> SUFFICES ASSUME NEW f \in chosen, NEW d \in Shows(manifest, f),
                      NEW g \in chosen, NEW e \in Shows(manifest, g), d.key = e.key
               PROVE  d = e
    OBVIOUS
  <2>1. f = g
    BY <1>i DEF ManifestInv, Shows
  <2> QED
    BY <1>i, <2>1 DEF FilesInv, Fits, Shows
<1>4. Readable(docs) = docs /\ Skipped(docs) = {}
  BY <1>2 DEF Readable, Skipped, KeysOf
<1> HIDE DEF docs
<1>5. /\ Stage(by, NoWrite, docs, {}, chosen, 0)
      /\ UNCHANGED <<manifest, journal, writer, shown, mem, reader, hist>> /\ writer.up
  BY <1>1 DEF Compact
<1>6. /\ FilesInv' /\ ManifestInv' /\ JournalInv' /\ HistInv' /\ ReaderInv'
      /\ Pending' = Pending /\ \A t : Found(t)' <=> Found(t)
      /\ Listed(manifest)' = Listed(manifest)
      /\ \A f \in Listed(manifest) : Shows(manifest, f)' = Shows(manifest, f)
      /\ StagedDocs(seg)' = docs /\ seg'.files \cap Listed(manifest) = {}
  BY <1>2, <1>3, <1>4, <1>5, StageKeeps
<1>7. /\ seg = Idle
      /\ seg' = [pc |-> "commit", by |-> by, asked |-> NoWrite, files |-> seg'.files,
                 removals |-> {} \cup Skipped(docs), drop |-> chosen, through |-> 0]
      /\ seg'.files \subseteq present' /\ seg'.files \subseteq Nat
      /\ \A f, g \in seg'.files : f # g => KeysOf(bytes'[f]) \cap KeysOf(bytes'[g]) = {}
  BY <1>i, <1>2, <1>3, <1>4, <1>5, StageLemma
<1>8. /\ seg' # Idle /\ seg'.by = by /\ seg'.pc = "commit" /\ seg'.asked = NoWrite
      /\ seg'.removals = {} /\ seg'.drop = chosen /\ seg'.through = 0
  BY <1>4, <1>7 DEF Idle
<1>9. MemInv'
  BY <1>i, <1>5, <1>6, <1>7, <1>8, MemBeside
<1>10. CompactStaged'
  BY <1>6, <1>8 DEF CompactStaged, docs
<1>11. SegInv'
  <2>1. seg' \in SegTypes
    <3>1. chosen \subseteq Nat
      BY <1>i DEF FilesInv, Fits
    <3>2. NoWrite \in [upserts : Upserts, removals : SUBSET Key]
      BY NoWriteType
    <3> QED
      BY <1>4, <1>7, <3>1, <3>2 DEF SegTypes
  <2>2. Staged'
    BY <1>6, <1>7, <1>8, <1>10 DEF Staged
  <2> QED
    BY <1>5, <1>8, <2>1, <2>2 DEF SegInv
<1> QED
  BY <1>6, <1>9, <1>11 DEF IInv, StoreInv

\* The live turns as documents.
LEMMA PendingDocs ==
    ASSUME JournalInv
    PROVE  LET docs == TurnDocs(Indexed(Pending)) IN
           /\ docs \subseteq Document
           /\ \A d \in docs : Proper(d)
           /\ \A d, e \in docs : d.key = e.key => d = e
           /\ Readable(TurnDocs(Pending)) = docs
           /\ Skipped(TurnDocs(Pending)) = {<<"turn", t.seq>> : t \in Pending \ Indexed(Pending)}
<1>1. Pending \in SUBSET Record
  BY DEF Pending, After, JournalInv
<1>2. ASSUME NEW t \in Indexed(Pending) PROVE TurnDoc(t) \in Document /\ Proper(TurnDoc(t))
  <2>1. t \in Record /\ t.seq \in Nat /\ t.compiles
    BY <1>1 DEF Record, Indexed
  <2>2. TurnDoc(t) \in Document
    BY <2>1 DEF TurnDoc, Document, DocKey
  <2>3. Proper(TurnDoc(t))
    BY DocFields DEF Proper
  <2> QED
    BY <2>2, <2>3
<1>3. \A d, e \in TurnDocs(Indexed(Pending)) : d.key = e.key => d = e
  BY DocFields, Keys DEF TurnDocs, Indexed, JournalInv
<1> QED
  BY <1>1, <1>2, <1>3, LiveDocsAre DEF TurnDocs, LiveDocs

\* The flush of a turn operation, whose lock it keeps.
LEMMA FlushStaging ==
    ASSUME IInv, StageFlush, writer.up, mem' \in MemTypes, mem'.pc = "flush",
           "turn" \in DOMAIN mem' => Found(mem'.turn),
           UNCHANGED <<manifest, journal, writer, shown, reader, count, hist>>
    PROVE  IInv'
<1> DEFINE docs == TurnDocs(Pending)
           live == TurnDocs(Indexed(Pending))
           skipped == {<<"turn", t.seq>> : t \in Pending \ Indexed(Pending)}
<1>i. FilesInv /\ ManifestInv /\ JournalInv /\ MemInv /\ SegInv /\ HistInv /\ ReaderInv
  BY DEF IInv, StoreInv
<1>1. writer.live = Pending
  BY <1>i DEF JournalInv
<1>2. PICK last \in Pending :
         /\ \A t \in Pending : t.seq <= last.seq
         /\ Stage("flush", NoWrite, docs, {}, {}, last.seq)
  BY <1>1 DEF StageFlush
<1>3. last.seq \in Nat
  BY <1>i DEF Pending, After, JournalInv, Record
<1>4. /\ live \subseteq Document /\ \A d \in live : Proper(d)
      /\ \A d, e \in live : d.key = e.key => d = e
      /\ Readable(docs) = live /\ Skipped(docs) = skipped
  BY <1>i, PendingDocs
<1>r. /\ Readable(docs) \subseteq Document /\ \A d \in Readable(docs) : Proper(d)
      /\ \A d, e \in Readable(docs) : d.key = e.key => d = e
  BY <1>4
<1>k. skipped \subseteq DocKey
  BY <1>i DEF Pending, After, JournalInv, Record, DocKey
<1> HIDE DEF docs, live, skipped
<1>5. /\ FilesInv' /\ ManifestInv' /\ JournalInv' /\ HistInv' /\ ReaderInv'
      /\ Pending' = Pending /\ \A t : Found(t)' <=> Found(t)
      /\ Listed(manifest)' = Listed(manifest)
      /\ StagedDocs(seg)' = live /\ seg'.files \cap Listed(manifest) = {}
  BY <1>2, <1>4, StageKeeps
<1>6. /\ seg = Idle
      /\ seg' = [pc |-> "commit", by |-> "flush", asked |-> NoWrite, files |-> seg'.files,
                 removals |-> {} \cup Skipped(docs), drop |-> {}, through |-> last.seq]
      /\ seg'.files \subseteq present' /\ seg'.files \subseteq Nat
      /\ \A f, g \in seg'.files : f # g => KeysOf(bytes'[f]) \cap KeysOf(bytes'[g]) = {}
  <2>1. manifest' = manifest /\ FilesInv
    BY <1>i
  <2> DEFINE none == {}
  <2>2. Stage("flush", NoWrite, docs, none, none, last.seq)
    BY <1>2
  <2> HIDE DEF none
  <2>3. /\ seg = Idle
        /\ seg' = [pc |-> "commit", by |-> "flush", asked |-> NoWrite, files |-> seg'.files,
                   removals |-> none \cup Skipped(docs), drop |-> none, through |-> last.seq]
        /\ seg'.files \subseteq present' /\ seg'.files \subseteq Nat
        /\ \A f, g \in seg'.files : f # g => KeysOf(bytes'[f]) \cap KeysOf(bytes'[g]) = {}
    BY <1>r, <2>1, <2>2, StageLemma
  <2> QED
    BY <2>3 DEF none
<1>7. /\ seg' # Idle /\ seg'.by = "flush" /\ seg'.pc = "commit" /\ seg'.asked = NoWrite
      /\ seg'.removals = skipped /\ seg'.drop = {} /\ seg'.through = last.seq
  BY <1>4, <1>6 DEF Idle
<1>8. MemInv'
  BY <1>5, <1>7 DEF MemInv
<1>9. FlushStaged'
  BY <1>2, <1>5, <1>7 DEF FlushStaged, TurnDocs, TurnDoc, Indexed, live, skipped
<1>10. seg' \in SegTypes
  BY <1>k, <1>3, <1>4, <1>6, NoWriteType DEF SegTypes
<1>11. Staged'
  BY <1>5, <1>6, <1>7, <1>9 DEF Staged
<1>12. SegInv'
  BY <1>7, <1>10, <1>11 DEF SegInv
<1> QED
  BY <1>5, <1>8, <1>12 DEF IInv, StoreInv

LEMMA AppendFlushStep == ASSUME IInv, AppendFlush PROVE IInv'
<1>1. /\ mem.pc = "appended" /\ mem' = [mem EXCEPT !.pc = "flush"] /\ StageFlush
      /\ UNCHANGED <<manifest, journal, writer, shown, reader, count, hist>>
  BY DEF AppendFlush
<1>2. mem \in [pc : {"append", "appended", "flush"}, turn : Record] /\ Found(mem.turn)
      /\ writer.up
  BY <1>1 DEF IInv, StoreInv, MemInv, MemTypes, Idle
<1>3. mem' \in MemTypes /\ mem'.pc = "flush" /\ mem'.turn = mem.turn
  BY <1>1, <1>2 DEF MemTypes
<1> QED
  BY <1>1, <1>2, <1>3, FlushStaging

LEMMA FlushMemoryStep == ASSUME IInv, FlushMemory PROVE IInv'
<1>1. /\ writer.up /\ mem' = [pc |-> "flush"] /\ StageFlush
      /\ UNCHANGED <<manifest, journal, writer, shown, reader, count, hist>>
  BY DEF FlushMemory
<1>2. mem' \in MemTypes /\ mem'.pc = "flush" /\ "turn" \notin DOMAIN mem'
  BY <1>1 DEF MemTypes
<1> QED
  BY <1>1, <1>2, FlushStaging

LEMMA ForgetCompactedStep == ASSUME IInv, ForgetCompacted PROVE IInv'
<1> DEFINE s == mem.session
           keys == SessionKeys(s)
<1>i. FilesInv /\ ManifestInv /\ JournalInv /\ MemInv /\ SegInv /\ HistInv /\ ReaderInv
  BY DEF IInv, StoreInv
<1>1. /\ mem.pc = "forget" /\ mem' = [mem EXCEPT !.pc = "unindex"]
      /\ Stage("forget", NoWrite, {}, keys, {}, 0)
      /\ UNCHANGED <<manifest, journal, writer, shown, reader, count, hist>>
  BY DEF ForgetCompacted
<1>2. mem \in [pc : {"forget", "unindex"}, session : Session] /\ writer.up
      /\ \A t \in Pending \cup acked : t.session # s
  BY <1>i, <1>1 DEF MemInv, MemTypes, Idle
<1>3. mem' \in MemTypes /\ mem'.pc = "unindex" /\ mem'.session = s
  BY <1>1, <1>2 DEF MemTypes
<1>4. keys = KeysOf({d \in Held(manifest) : Theirs(d)})
  <2>1. Published = Held(manifest) \cup TurnDocs(Indexed(shown))
    BY <1>i, Contents
  <2>2. \A d \in TurnDocs(Indexed(shown)) : \A t \in d.turn : t.session # s
    BY <1>i, <1>2, DocFields DEF TurnDocs, Indexed, JournalInv
  <2>3. {d \in Published : \E t \in d.turn : t.session = s} = {d \in Held(manifest) : Theirs(d)}
    BY <2>1, <2>2 DEF Theirs
  <2> QED
    BY <2>3 DEF SessionKeys
<1>5. keys \subseteq DocKey
  <2> SUFFICES ASSUME NEW d \in Held(manifest) PROVE d.key \in DocKey
    BY <1>4 DEF KeysOf
  <2>1. PICK f \in Listed(manifest) : d \in bytes[f]
    BY DEF Held, Shows
  <2>2. d \in Document
    BY <1>i, <2>1 DEF FilesInv, Fits
  <2> QED
    BY <2>2 DEF Document
<1> HIDE DEF keys, s
<1> DEFINE none == {}
<1>6. Readable(none) = none /\ Skipped(none) = none
  BY DEF Readable, Skipped, KeysOf
<1>7. Stage("forget", NoWrite, none, keys, {}, 0)
  BY <1>1
<1>e. none = {}
  OBVIOUS
<1> HIDE DEF none
<1>r. /\ Readable(none) \subseteq Document /\ \A d \in Readable(none) : Proper(d)
      /\ \A d, e \in Readable(none) : d.key = e.key => d = e
  BY <1>6, <1>e
<1>8. /\ FilesInv' /\ ManifestInv' /\ JournalInv' /\ HistInv' /\ ReaderInv'
      /\ Pending' = Pending /\ Held(manifest)' = Held(manifest)
      /\ \A t : Found(t)' <=> Found(t)
      /\ Listed(manifest)' = Listed(manifest)
      /\ StagedDocs(seg)' = none /\ seg'.files \cap Listed(manifest) = {}
  BY <1>1, <1>6, <1>7, <1>e, StageKeeps
<1>9. /\ seg = Idle /\ FilesInv'
      /\ seg' = [pc |-> "commit", by |-> "forget", asked |-> NoWrite, files |-> seg'.files,
                 removals |-> keys \cup Skipped(none), drop |-> {}, through |-> 0]
      /\ seg'.files \subseteq present' /\ seg'.files \subseteq Nat
      /\ \A f, g \in seg'.files : f # g => KeysOf(bytes'[f]) \cap KeysOf(bytes'[g]) = {}
  <2>1. manifest' = manifest
    BY <1>1
  <2> QED
    BY <1>i, <1>7, <1>r, <2>1, StageLemma
<1>10. /\ seg' # Idle /\ seg'.by = "forget" /\ seg'.pc = "commit" /\ seg'.asked = NoWrite
       /\ seg'.removals = keys /\ seg'.drop = {} /\ seg'.through = 0
  BY <1>6, <1>9, <1>e DEF Idle
<1>11. seg'.files = {}
  <2>1. seg'.files \subseteq DOMAIN bytes'
    BY <1>9 DEF FilesInv
  <2> QED
    BY <1>8, <1>9, <1>e, <2>1 DEF StagedDocs, FilesInv
<1>12. MemInv'
  BY <1>1, <1>2, <1>3, <1>8, <1>10 DEF MemInv, hist
<1>13. ForgetStaged'
  BY <1>3, <1>4, <1>8, <1>10, <1>11 DEF ForgetStaged, KeysOf, Theirs, s
<1>14. seg' \in SegTypes
  BY <1>5, <1>6, <1>9, <1>e, NoWriteType DEF SegTypes
<1>15. Staged'
  BY <1>8, <1>9, <1>10, <1>13 DEF Staged
<1>16. SegInv'
  BY <1>1, <1>2, <1>10, <1>14, <1>15 DEF SegInv
<1> QED
  BY <1>8, <1>12, <1>16 DEF IInv, StoreInv

-------------------------------------------------------------------------------
(* Committing *)

\* The segments show a key once.
LEMMA HeldKeys ==
    ASSUME FilesInv, ManifestInv, NEW d \in Held(manifest), NEW e \in Held(manifest),
           d.key = e.key
    PROVE  d = e
<1>1. PICK f \in Listed(manifest) : d \in bytes[f] /\ d.key \in Undead(manifest, f)
  BY DEF Held, Shows
<1>2. PICK g \in Listed(manifest) : e \in bytes[g] /\ e.key \in Undead(manifest, g)
  BY DEF Held, Shows
<1>3. f = g
  BY <1>1, <1>2 DEF ManifestInv
<1> QED
  BY <1>1, <1>2, <1>3 DEF FilesInv, Fits

\* What a segment shows is proper, and of turns up to `through`.
LEMMA HeldDocs ==
    ASSUME FilesInv, ManifestInv, NEW d \in Held(manifest)
    PROVE  /\ d \in Document /\ Proper(d)
           /\ \A t \in d.turn : t.seq <= manifest.through
           /\ \A t : t.seq > manifest.through => d.key # TurnDoc(t).key
<1>1. PICK f \in Listed(manifest) : d \in bytes[f]
  BY DEF Held, Shows
<1>2. d \in Document /\ Proper(d) /\ \A t \in d.turn : t.seq <= manifest.through
  BY <1>1 DEF FilesInv, Fits, ManifestInv
<1>3. \A t : t.seq > manifest.through => d.key # TurnDoc(t).key
  BY <1>1, PendingKeys
<1> QED
  BY <1>2, <1>3

\* What a commit replaces: the keys it stages, and those it removes.
Replaced == KeysOf(StagedDocs(seg)) \cup Removed(seg)

\* The manifest of a commit: replaced keys are dead in the segments it keeps.
LEMMA CommittedManifest ==
    ASSUME FilesInv, ManifestInv, JournalInv, Staged
    PROVE  LET m == Committed(seg) IN
           /\ m = [gen |-> m.gen, dead |-> m.dead, through |-> m.through]
           /\ m.gen = manifest.gen + 1
           /\ m.through = IF seg.through > manifest.through THEN seg.through
                                                            ELSE manifest.through
           /\ Listed(m) = (Listed(manifest) \ seg.drop) \cup seg.files
           /\ \A f \in Listed(manifest) \ seg.drop :
                 m.dead[f] = manifest.dead[f] \cup (Replaced \cap Undead(manifest, f))
           /\ \A f \in seg.files : m.dead[f] = {}
           /\ \A f \in Listed(manifest) \ seg.drop :
                 Undead(m, f) = Undead(manifest, f) \ Replaced
           /\ \A f \in seg.files : Undead(m, f) = KeysOf(bytes[f])
<1> DEFINE m == Committed(seg)
           old == Listed(manifest) \ seg.drop
<1>1. \A f \in Listed(manifest) : SupersededIn(f, Replaced) = Replaced \cap Undead(manifest, f)
  <2> SUFFICES ASSUME NEW f \in Listed(manifest)
               PROVE  KeysOf(Alive(writer.manifest, shown, f)) = Undead(manifest, f)
    BY DEF SupersededIn
  <2>1. Alive(writer.manifest, shown, f) = Shows(manifest, f)
    BY AliveIsShown DEF ManifestInv, JournalInv
  <2> QED
    BY <2>1 DEF Shows, KeysOf, Undead
<1>2. m = [gen |-> manifest.gen + 1,
           dead |-> [f \in old \cup seg.files |->
                        IF f \in seg.files THEN {}
                        ELSE manifest.dead[f] \cup SupersededIn(f, Replaced)],
           through |-> IF seg.through > manifest.through THEN seg.through
                                                         ELSE manifest.through]
  BY DEF Committed, Replaced, ManifestInv
<1> HIDE DEF m
<1>3. Listed(m) = old \cup seg.files
  BY <1>2 DEF Listed
<1>4. \A f \in old : m.dead[f] = manifest.dead[f] \cup (Replaced \cap Undead(manifest, f))
  BY <1>1, <1>2 DEF Staged
<1>5. \A f \in seg.files : m.dead[f] = {}
  BY <1>2
<1>6. \A f \in old : Undead(m, f) = Undead(manifest, f) \ Replaced
  BY <1>4 DEF Undead
<1>7. \A f \in seg.files : Undead(m, f) = KeysOf(bytes[f])
  BY <1>5 DEF Undead
<1>8. /\ m = [gen |-> m.gen, dead |-> m.dead, through |-> m.through]
      /\ m.gen = manifest.gen + 1
      /\ m.through = IF seg.through > manifest.through THEN seg.through ELSE manifest.through
  BY <1>2
<1> QED
  BY <1>3, <1>4, <1>5, <1>6, <1>7, <1>8 DEF m

\* What the segments show after the commit.
LEMMA CommittedHeld ==
    ASSUME FilesInv, ManifestInv, JournalInv, Staged
    PROVE  Held(Committed(seg)) =
              {d \in UNION {Shows(manifest, f) : f \in Listed(manifest) \ seg.drop} :
                  d.key \notin Replaced} \cup StagedDocs(seg)
<1> DEFINE m == Committed(seg)
           old == Listed(manifest) \ seg.drop
<1>1. /\ Listed(m) = old \cup seg.files
      /\ \A f \in old : Undead(m, f) = Undead(manifest, f) \ Replaced
      /\ \A f \in seg.files : Undead(m, f) = KeysOf(bytes[f])
  BY CommittedManifest
<1> HIDE DEF m
<1>2. \A f \in seg.files : Shows(m, f) = bytes[f]
  BY <1>1 DEF Shows, KeysOf
<1>3. \A f \in old : Shows(m, f) = {d \in Shows(manifest, f) : d.key \notin Replaced}
  BY <1>1 DEF Shows
<1>4. \A d : d \in Held(m) <=> (\E f \in old : d \in Shows(m, f)) \/ (\E f \in seg.files : d \in Shows(m, f))
  BY <1>1 DEF Held
<1> QED
  BY <1>2, <1>3, <1>4 DEF StagedDocs, m

\* The staged operations, by what they change.
LEMMA HeldAfter ==
    ASSUME FilesInv, ManifestInv, JournalInv, Staged
    PROVE  LET m == Committed(seg) IN
           /\ seg.by = "flush" => Held(m) = Held(manifest) \cup TurnDocs(Indexed(Pending))
           /\ seg.by = "forget" => Held(m) = {d \in Held(manifest) : ~Theirs(d)}
           /\ seg.by = "apply" =>
                 /\ Held(m) = {d \in Held(manifest) : d.key \notin Replaced} \cup StagedDocs(seg)
                 /\ \A t : TurnDoc(t).key \notin Replaced
                 /\ \A d \in StagedDocs(seg) : d.turn = {}
           /\ seg.by \in {"compact", "merge"} => Held(m) = Held(manifest)
<1> DEFINE m == Committed(seg)
           rest == UNION {Shows(manifest, f) : f \in Listed(manifest) \ seg.drop}
<1>1. Held(m) = {d \in rest : d.key \notin Replaced} \cup StagedDocs(seg)
  BY CommittedHeld
<1>2. seg.drop = {} => rest = Held(manifest)
  BY DEF Held
<1>3. rest \subseteq Held(manifest)
  BY DEF Held
<1> HIDE DEF m
<1>4. CASE seg.by = "flush"
  <2> DEFINE skipped == {<<"turn", t.seq>> : t \in Pending \ Indexed(Pending)}
  <2>1. StagedDocs(seg) = TurnDocs(Indexed(Pending)) /\ seg.removals = skipped /\ seg.drop = {}
    BY <1>4 DEF Staged, FlushStaged
  <2>0. skipped \cap KeysOf(Published) = {}
    <3> SUFFICES ASSUME NEW t \in Pending \ Indexed(Pending), NEW d \in Published,
                        d.key = <<"turn", t.seq>>
                 PROVE  FALSE
      BY DEF KeysOf
    <3>1. d \in Held(manifest) \/ \E u \in Indexed(shown) : d = TurnDoc(u)
      BY Contents DEF TurnDocs
    <3>2. d \notin Held(manifest)
      <4>1. t.seq > manifest.through
        BY DEF Pending, After
      <4> QED
        BY <4>1, HeldDocs, DocFields
    <3>3. PICK u \in Indexed(shown) : d = TurnDoc(u)
      BY <3>1, <3>2
    <3>4. u \in Pending /\ u.seq = t.seq /\ u.compiles
      BY <3>3, Keys, DocFields DEF Indexed, JournalInv
    <3> QED
      BY <3>4 DEF Indexed, JournalInv
  <2> HIDE DEF skipped
  <2>2. Replaced = KeysOf(TurnDocs(Indexed(Pending)))
    BY <2>0, <2>1 DEF Replaced, Removed
  <2>3. ASSUME NEW d \in Held(manifest) PROVE d.key \notin Replaced
    <3>1. \A t \in Pending : d.key # TurnDoc(t).key
      BY HeldDocs DEF Pending, After
    <3> QED
      BY <2>2, <3>1 DEF KeysOf, TurnDocs, Indexed
  <2> QED
    BY <1>1, <1>2, <1>4, <2>1, <2>3 DEF m
<1>5. CASE seg.by = "forget"
  <2> DEFINE theirs == {d \in Held(manifest) : Theirs(d)}
  <2>1. seg.files = {} /\ seg.drop = {} /\ seg.removals = KeysOf(theirs)
    BY <1>5 DEF Staged, ForgetStaged
  <2>2. StagedDocs(seg) = {}
    BY <2>1 DEF StagedDocs
  <2>3. KeysOf(theirs) \subseteq KeysOf(Published)
    BY Contents DEF KeysOf
  <2>4. Replaced = KeysOf(theirs)
    BY <2>1, <2>2, <2>3 DEF Replaced, Removed, KeysOf
  <2>5. ASSUME NEW d \in Held(manifest) PROVE d.key \in KeysOf(theirs) <=> Theirs(d)
    BY HeldKeys DEF KeysOf
  <2> QED
    BY <1>1, <1>2, <1>5, <2>1, <2>2, <2>4, <2>5 DEF m
<1>6. CASE seg.by = "apply"
  <2> DEFINE ups == seg.asked.upserts
             good == {i \in DOMAIN ups : ups[i] # Unreadable}
  <2>1. /\ StagedDocs(seg) = {FileDoc(k, ups[k]) : k \in good} /\ seg.drop = {}
        /\ \A x \in seg.removals : \E k : x = <<"doc", k>>
    BY <1>6 DEF Staged, ApplyStaged
  <2>2. \A x \in Replaced : \E k : x = <<"doc", k>>
    <3>1. ASSUME NEW d \in StagedDocs(seg) PROVE \E k : d.key = <<"doc", k>>
      <4>1. PICK k \in good : d = FileDoc(k, ups[k])
        BY <2>1
      <4> QED
        BY <4>1, DocFields
    <3>2. \A x \in KeysOf(StagedDocs(seg)) : \E k : x = <<"doc", k>>
      BY <3>1 DEF KeysOf
    <3>3. Removed(seg) \subseteq seg.removals
      BY DEF Removed
    <3>4. \A x \in Removed(seg) : \E k : x = <<"doc", k>>
      BY <2>1, <3>3
    <3> QED
      BY <3>2, <3>4 DEF Replaced
  <2>3. \A t : TurnDoc(t).key \notin Replaced
    BY <2>2, Keys, DocFields
  <2>4. \A d \in StagedDocs(seg) : d.turn = {}
    BY <2>1, DocFields
  <2> QED
    BY <1>1, <1>2, <1>6, <2>1, <2>3, <2>4 DEF m
<1>7. CASE seg.by \in {"compact", "merge"}
  <2>1. /\ seg.drop \subseteq Listed(manifest) /\ seg.removals = {}
        /\ StagedDocs(seg) = UNION {Shows(manifest, f) : f \in seg.drop}
    BY <1>7 DEF Staged, CompactStaged
  <2>2. Replaced = KeysOf(StagedDocs(seg))
    BY <2>1 DEF Replaced, Removed
  <2>3. Held(manifest) = rest \cup StagedDocs(seg)
    BY <2>1 DEF Held
  <2>4. ASSUME NEW d \in rest, d.key \in Replaced PROVE d \in StagedDocs(seg)
    <3>1. PICK e \in StagedDocs(seg) : e.key = d.key
      BY <2>2, <2>4 DEF KeysOf
    <3>2. d = e
      BY <2>3, <2>4, <3>1, HeldKeys
    <3> QED
      BY <3>1, <3>2
  <2> QED
    BY <1>1, <1>7, <2>3, <2>4 DEF m
<1> QED
  BY <1>4, <1>5, <1>6, <1>7 DEF m

\* A committed manifest fits the files, and keeps what ManifestInv says of a manifest.
LEMMA CommitFits ==
    ASSUME FilesInv, ManifestInv, JournalInv, seg \in SegTypes,
           seg.by # "apply" => seg.asked = NoWrite, Staged
    PROVE  LET m == Committed(seg) IN
           /\ Fits(m) /\ Listed(m) \subseteq present
           /\ m.through >= manifest.through
           /\ \A f, g \in Listed(m) : f # g => Undead(m, f) \cap Undead(m, g) = {}
           /\ \A f \in Listed(m) : \A d \in bytes[f] : \A t \in d.turn : t.seq <= m.through
<1> DEFINE m == Committed(seg)
           old == Listed(manifest) \ seg.drop
<1>1. /\ m = [gen |-> m.gen, dead |-> m.dead, through |-> m.through]
      /\ m.gen = manifest.gen + 1
      /\ m.through = IF seg.through > manifest.through THEN seg.through ELSE manifest.through
      /\ Listed(m) = old \cup seg.files
      /\ \A f \in old : m.dead[f] = manifest.dead[f] \cup (Replaced \cap Undead(manifest, f))
      /\ \A f \in seg.files : m.dead[f] = {}
      /\ \A f \in old : Undead(m, f) = Undead(manifest, f) \ Replaced
      /\ \A f \in seg.files : Undead(m, f) = KeysOf(bytes[f])
  BY CommittedManifest
<1> HIDE DEF m
<1>2. seg.through \in Nat /\ manifest.through \in Nat /\ manifest.gen \in Nat
  BY DEF SegTypes, FilesInv, Fits
<1>3. /\ m.through \in Nat /\ m.gen \in Nat
      /\ m.through >= manifest.through /\ m.through >= seg.through
  BY <1>1, <1>2
<1>4. Listed(m) \subseteq present /\ Listed(m) \subseteq DOMAIN bytes
  BY <1>1 DEF ManifestInv, Staged, FilesInv
<1>5. Fits(m)
  <2>1. \A f \in old : m.dead[f] \subseteq KeysOf(bytes[f])
    BY <1>1 DEF FilesInv, Fits, Undead
  <2> QED
    BY <1>1, <1>3, <1>4, <2>1 DEF Fits
<1>6. \A f \in seg.files : Undead(m, f) \subseteq Replaced
  BY <1>1 DEF Replaced, StagedDocs, KeysOf
<1>7. \A f, g \in Listed(m) : f # g => Undead(m, f) \cap Undead(m, g) = {}
  <2> SUFFICES ASSUME NEW f \in Listed(m), NEW g \in Listed(m), f # g
               PROVE  Undead(m, f) \cap Undead(m, g) = {}
    OBVIOUS
  <2>1. CASE f \in old /\ g \in old
    BY <1>1, <2>1 DEF ManifestInv
  <2>2. CASE f \in seg.files /\ g \in seg.files
    BY <1>1, <2>2 DEF Staged
  <2>3. CASE f \in old /\ g \in seg.files
    BY <1>1, <1>6, <2>3
  <2>4. CASE g \in old /\ f \in seg.files
    BY <1>1, <1>6, <2>4
  <2> QED
    BY <1>1, <2>1, <2>2, <2>3, <2>4
<1>8. ASSUME NEW f \in Listed(m), NEW d \in bytes[f], NEW t \in d.turn
      PROVE  t.seq <= m.through
  <2>0. t.seq \in Nat
    <3>1. bytes[f] \in SUBSET Document
      BY <1>4 DEF FilesInv
    <3> QED
      BY <3>1 DEF Document, Record
  <2>1. CASE f \in old
    <3>1. t.seq <= manifest.through
      BY <2>1 DEF ManifestInv
    <3> QED
      BY <1>2, <1>3, <2>0, <3>1
  <2>2. CASE f \in seg.files
    <3>1. d \in StagedDocs(seg)
      BY <2>2 DEF StagedDocs
    <3>2. CASE seg.by = "flush"
      <4>1. t \in Pending
        BY <3>1, <3>2, DocFields DEF Staged, FlushStaged, TurnDocs, Indexed
      <4>2. t.seq <= seg.through
        BY <3>2, <4>1 DEF Staged, FlushStaged
      <4> QED
        BY <1>2, <1>3, <2>0, <4>2
    <3>3. CASE seg.by = "forget"
      BY <2>2, <3>3 DEF Staged, ForgetStaged
    <3>4. CASE seg.by = "apply"
      <4>1. d.turn = {}
        BY <3>1, <3>4, HeldAfter
      <4> QED
        BY <4>1
    <3>5. CASE seg.by \in {"compact", "merge"}
      <4>1. d \in Held(manifest)
        BY <3>1, <3>5 DEF Staged, CompactStaged, Held
      <4>2. t.seq <= manifest.through
        BY <4>1, HeldDocs
      <4> QED
        BY <1>2, <1>3, <2>0, <4>2
    <3> QED
      BY <3>2, <3>3, <3>4, <3>5 DEF SegTypes
  <2> QED
    BY <1>1, <2>1, <2>2
<1> QED
  BY <1>3, <1>4, <1>5, <1>7, <1>8 DEF m

\* The new manifest as the published one.
LEMMA Renamed ==
    ASSUME NEW m, manifest' = m, bytes' = bytes
    PROVE  /\ Held(manifest)' = Held(m) /\ Listed(manifest)' = Listed(m)
           /\ \A f : Undead(manifest, f)' = Undead(m, f)
           /\ Fits(manifest)' <=> Fits(m)
<1>1. Listed(manifest)' = Listed(m)
  BY DEF Listed
<1>2. \A f : Undead(manifest, f)' = Undead(m, f)
  BY DEF Undead, KeysOf
<1>3. \A f : Shows(manifest, f)' = Shows(m, f)
  BY <1>2 DEF Shows
<1>4. Held(manifest)' = Held(m)
  BY <1>1, <1>3 DEF Held
<1>5. Fits(manifest)' <=> Fits(m)
  BY <1>1 DEF Fits, KeysOf, Listed
<1> QED
  BY <1>1, <1>2, <1>4, <1>5

\* The journal's part, when a manifest takes over: a flush takes all of it.
LEMMA PendingAfter ==
    ASSUME FilesInv, JournalInv, seg \in SegTypes, Staged,
           manifest'.through = IF seg.through > manifest.through THEN seg.through
                                                                 ELSE manifest.through,
           journal' = journal
    PROVE  /\ seg.by = "flush" => Pending' = {} /\ seg.through > manifest.through
           /\ seg.by # "flush" => Pending' = Pending
           /\ Pending' \subseteq Pending
<1>1. /\ seg.through \in Nat /\ manifest.through \in Nat
      /\ \A t \in journal : t.seq \in Nat
  BY DEF SegTypes, FilesInv, Fits, JournalInv, Record
<1>2. Pending = {t \in journal : t.seq > manifest.through}
  BY DEF Pending, After
<1>3. Pending' = {t \in journal : t.seq > manifest'.through}
  BY DEF Pending, After
<1>4. CASE seg.by = "flush"
  <2>1. \A t \in Pending : t.seq <= seg.through
    BY <1>4 DEF Staged, FlushStaged
  <2>2. \E t \in Pending : t.seq = seg.through
    BY <1>4 DEF Staged, FlushStaged
  <2>3. seg.through > manifest.through
    BY <1>2, <2>2
  <2>4. ASSUME NEW t \in Pending' PROVE FALSE
    <3>1. t \in journal /\ t.seq > seg.through
      BY <1>3, <2>3
    <3>2. t \in Pending
      BY <1>1, <1>2, <2>3, <3>1
    <3> QED
      BY <1>1, <2>1, <3>1, <3>2
  <2>5. Pending' = {}
    BY <2>4
  <2> QED
    BY <1>4, <2>3, <2>5
<1>5. CASE seg.by # "flush"
  <2>1. seg.through = 0
    BY <1>5 DEF Staged, ForgetStaged, ApplyStaged, CompactStaged, SegTypes
  <2>2. manifest'.through = manifest.through
    BY <1>1, <2>1
  <2> QED
    BY <1>2, <1>3, <1>5, <2>2
<1> QED
  BY <1>4, <1>5

\* What a commit changes: a flush moves the journal's turns to the segments, forgetting
\* takes those of its conversation away, and every other turn is found as before.
LEMMA CommitEffect ==
    ASSUME StoreInv, Commit
    PROVE  /\ seg # Idle /\ seg \in SegTypes /\ Staged
           /\ Held(manifest)' = Held(Committed(seg))
           /\ seg.by = "flush" => Pending' = {} /\ Held(manifest)' = Held(manifest) \cup TurnDocs(Indexed(Pending))
           /\ seg.by # "flush" => Pending' = Pending
           /\ seg.by = "forget" => Held(manifest)' = {d \in Held(manifest) : ~Theirs(d)}
           /\ seg.by \notin {"flush", "forget"} =>
                 \A d \in Held(manifest)' : d \in Held(manifest) \/ d.turn = {}
           /\ \A t : Found(t) /\ (seg.by = "forget" => t.session # mem.session) => Found(t)'
<1> DEFINE m == Committed(seg)
<1>i. FilesInv /\ ManifestInv /\ JournalInv /\ MemInv /\ SegInv /\ HistInv
  BY DEF StoreInv
<1>1. /\ seg.pc = "commit" /\ bytes' = bytes /\ journal' = journal /\ mem' = mem
      /\ manifest' = m
  BY DEF Commit
<1>2. seg # Idle
  BY <1>1 DEF Idle
<1>3. seg \in SegTypes /\ Staged /\ (seg.by # "apply" => seg.asked = NoWrite)
  BY <1>i, <1>1, <1>2 DEF SegInv
<1>4. m.through = IF seg.through > manifest.through THEN seg.through ELSE manifest.through
  BY <1>i, <1>3, CommittedManifest
<1>5. /\ seg.by = "flush" => Held(m) = Held(manifest) \cup TurnDocs(Indexed(Pending))
      /\ seg.by = "forget" => Held(m) = {d \in Held(manifest) : ~Theirs(d)}
      /\ seg.by = "apply" =>
            /\ Held(m) = {d \in Held(manifest) : d.key \notin Replaced} \cup StagedDocs(seg)
            /\ \A t : TurnDoc(t).key \notin Replaced
            /\ \A d \in StagedDocs(seg) : d.turn = {}
      /\ seg.by \in {"compact", "merge"} => Held(m) = Held(manifest)
  BY <1>i, <1>3, HeldAfter
<1> HIDE DEF m
<1>6. Held(manifest)' = Held(m)
  BY <1>1, Renamed
<1>7. /\ seg.by = "flush" => Pending' = {}
      /\ seg.by # "flush" => Pending' = Pending
  BY <1>i, <1>1, <1>3, <1>4, PendingAfter
<1>8. ASSUME NEW t, Found(t), seg.by = "forget" => t.session # mem.session PROVE Found(t)'
  <2>0. CASE ~t.compiles
    BY <2>0 DEF Found
  <2>1. t.compiles => t \in Pending \/ TurnDoc(t) \in Held(manifest)
    BY <1>8 DEF Found
  <2>2. CASE seg.by = "flush" /\ t.compiles
    <3>1. TurnDoc(t) \in Held(m)
      BY <1>5, <2>1, <2>2 DEF TurnDocs, Indexed
    <3> QED
      BY <1>6, <3>1 DEF Found, TurnDoc
  <2>3. CASE seg.by # "flush" /\ t \in Pending
    BY <1>7, <2>3 DEF Found
  <2>4. CASE seg.by # "flush" /\ TurnDoc(t) \in Held(manifest)
    <3>1. CASE seg.by = "forget"
      <4>1. ~Theirs(TurnDoc(t))
        BY <1>8, <3>1, DocFields DEF Theirs
      <4>2. TurnDoc(t) \in Held(m)
        BY <1>5, <2>4, <3>1, <4>1
      <4> QED
        BY <1>6, <4>2 DEF Found, TurnDoc
    <3>2. CASE seg.by = "apply"
      <4>1. TurnDoc(t) \in Held(m)
        BY <1>5, <2>4, <3>2
      <4> QED
        BY <1>6, <4>1 DEF Found, TurnDoc
    <3>3. CASE seg.by \in {"compact", "merge"}
      <4>1. TurnDoc(t) \in Held(m)
        BY <1>5, <2>4, <3>3
      <4> QED
        BY <1>6, <4>1 DEF Found, TurnDoc
    <3> QED
      BY <1>3, <2>4, <3>1, <3>2, <3>3 DEF SegTypes
  <2> QED
    BY <2>0, <2>1, <2>2, <2>3, <2>4
<1>9. seg.by \notin {"flush", "forget"} =>
         \A d \in Held(m) : d \in Held(manifest) \/ d.turn = {}
  BY <1>3, <1>5 DEF SegTypes
<1> QED
  BY <1>2, <1>3, <1>5, <1>6, <1>7, <1>8, <1>9 DEF m

LEMMA CommitStep == ASSUME IInv, Commit PROVE IInv'
<1> DEFINE m == Committed(seg)
<1>i. FilesInv /\ ManifestInv /\ JournalInv /\ MemInv /\ SegInv /\ HistInv /\ ReaderInv
  BY DEF IInv, StoreInv
<1>1. /\ seg.pc = "commit" /\ manifest' = m
      /\ writer' = [writer EXCEPT !.manifest = m,
                                  !.live = IF seg.by = "flush" THEN {} ELSE writer.live]
      /\ shown' = IF seg.by = "flush" THEN {} ELSE shown
      /\ seg' = [seg EXCEPT !.pc = "gc"]
      /\ bytes' = bytes /\ present' = present /\ journal' = journal /\ mem' = mem
      /\ reader' = reader /\ acked' = acked /\ gone' = gone
  BY DEF Commit, hist
<1>2. /\ seg # Idle /\ seg \in SegTypes /\ Staged
      /\ Held(manifest)' = Held(m)
      /\ seg.by = "flush" => Pending' = {} /\ Held(manifest)' = Held(manifest) \cup TurnDocs(Indexed(Pending))
      /\ seg.by # "flush" => Pending' = Pending
      /\ seg.by = "forget" => Held(manifest)' = {d \in Held(manifest) : ~Theirs(d)}
      /\ seg.by \notin {"flush", "forget"} =>
            \A d \in Held(manifest)' : d \in Held(manifest) \/ d.turn = {}
      /\ \A t : Found(t) /\ (seg.by = "forget" => t.session # mem.session) => Found(t)'
  <2>1. StoreInv
    BY DEF IInv
  <2> QED
    BY <2>1, CommitEffect
<1>3. seg.by # "apply" => seg.asked = NoWrite
  BY <1>i, <1>2 DEF SegInv
<1>4. /\ Fits(m) /\ Listed(m) \subseteq present /\ m.through >= manifest.through
      /\ \A f, g \in Listed(m) : f # g => Undead(m, f) \cap Undead(m, g) = {}
      /\ \A f \in Listed(m) : \A d \in bytes[f] : \A t \in d.turn : t.seq <= m.through
  BY <1>i, <1>2, <1>3, CommitFits
<1>5. m.through = IF seg.through > manifest.through THEN seg.through ELSE manifest.through
  BY <1>i, <1>2, CommittedManifest
<1>6. seg.by = "flush" => seg.through > manifest.through
  BY <1>i, <1>1, <1>2, <1>5, PendingAfter
<1> HIDE DEF m
<1>7. /\ Listed(manifest)' = Listed(m) /\ \A f : Undead(manifest, f)' = Undead(m, f)
      /\ Fits(manifest)'
  BY <1>1, <1>4, Renamed
<1>8. writer' = [up |-> writer.up, manifest |-> m,
                 live |-> IF seg.by = "flush" THEN {} ELSE writer.live,
                 next |-> writer.next, linked |-> writer.linked]
  BY <1>i, <1>1 DEF JournalInv
<1>9. FilesInv'
  BY <1>i, <1>1, <1>7 DEF FilesInv, Proper, TurnDoc, FileDoc
<1>10. ManifestInv'
  BY <1>1, <1>4, <1>7, <1>8 DEF ManifestInv
<1>11. JournalInv'
  <2>1. writer.up /\ writer.live = Pending /\ writer.linked /\ writer.next > manifest.through
        /\ (\A t \in Pending : t.seq < writer.next) /\ writer.next \in Nat
    BY <1>i, <1>2 DEF JournalInv, SegInv
  <2>2. Pending' \subseteq Pending
    BY <1>2
  <2>3. shown' \subseteq Pending'
    BY <1>i, <1>1, <1>2 DEF JournalInv
  <2>4. writer'.live = Pending'
    BY <1>2, <1>8, <2>1
  <2>5. writer.next > m.through
    <3>1. CASE seg.by = "flush"
      <4>1. PICK t \in Pending : t.seq = seg.through
        BY <1>2, <3>1 DEF Staged, FlushStaged
      <4>2. m.through = seg.through
        BY <1>5, <1>6, <3>1
      <4> QED
        BY <2>1, <4>1, <4>2, <1>2 DEF SegTypes
    <3>2. CASE seg.by # "flush"
      <4>1. seg.through = 0
        BY <1>2, <3>2 DEF Staged, ForgetStaged, ApplyStaged, CompactStaged, SegTypes
      <4>2. manifest.through \in Nat
        BY <1>i DEF FilesInv, Fits
      <4> QED
        BY <1>5, <2>1, <4>1, <4>2
    <3> QED
      BY <3>1, <3>2
  <2>6. /\ \A t \in Pending' : t.seq < writer'.next
        /\ \A t, u \in Pending' : t.seq = u.seq => t = u
    BY <1>i, <1>8, <2>1, <2>2 DEF JournalInv
  <2>7. /\ writer'.up /\ writer'.linked /\ writer'.next = writer.next
        /\ writer' = [up |-> writer'.up, manifest |-> writer'.manifest, live |-> writer'.live,
                      next |-> writer'.next, linked |-> writer'.linked]
    BY <1>8, <2>1
  <2>8. journal' \subseteq Record
    BY <1>i, <1>1 DEF JournalInv
  <2> QED
    BY <1>1, <2>1, <2>3, <2>4, <2>5, <2>6, <2>7, <2>8 DEF JournalInv
<1>12. seg' # Idle /\ seg'.by = seg.by /\ seg'.pc = "gc" /\ seg' \in SegTypes /\ seg'.asked = seg.asked
  <2>1. seg' \in SegTypes /\ seg'.by = seg.by /\ seg'.pc = "gc" /\ seg'.asked = seg.asked
    BY <1>1, <1>2 DEF SegTypes
  <2> QED
    BY <2>1 DEF Idle
<1>13. MemInv'
  <2>1. writer'.up = writer.up /\ writer'.next = writer.next
    BY <1>8
  <2>2. seg.by = "forget" <=> mem.pc = "unindex"
    BY <1>i, <1>2 DEF MemInv
  <2>3. ASSUME NEW t, t = mem.turn,
               mem.pc = "appended" \/ (mem.pc = "flush" /\ "turn" \in DOMAIN mem)
        PROVE  Found(t)'
    BY <1>i, <1>2, <2>2, <2>3 DEF MemInv
  <2>4. Pending' \subseteq Pending
    BY <1>2
  <2>5. /\ mem' \in MemTypes
        /\ mem' # Idle => writer'.up
        /\ mem'.pc = "append" => mem'.turn.seq = writer'.next /\ mem'.turn.session \notin gone'
        /\ mem'.pc \in {"forget", "unindex"} =>
              \A t \in Pending' \cup acked' : t.session # mem'.session
    BY <1>i, <1>1, <2>1, <2>4 DEF MemInv
  <2>6. /\ mem'.pc = "flush" <=> seg' # Idle /\ seg'.by = "flush"
        /\ mem'.pc = "unindex" <=> seg' # Idle /\ seg'.by = "forget"
    BY <1>i, <1>1, <1>2, <1>12 DEF MemInv
  <2>7. ASSUME mem'.pc = "appended" \/ (mem'.pc = "flush" /\ "turn" \in DOMAIN mem')
        PROVE  Found(mem.turn)'
    <3>1. PICK t : t = mem.turn
      OBVIOUS
    <3>2. Found(t)' /\ t = mem'.turn
      BY <1>1, <2>3, <2>7, <3>1
    <3> QED
      BY <3>2 DEF Found
  <2> QED
    BY <2>5, <2>6, <2>7 DEF MemInv
<1>14. SegInv'
  <2>1. Settled'
    <3>1. seg'.by = "flush" => Pending' = {}
      BY <1>2, <1>12
    <3>2. seg'.by = "forget" => \A d \in Held(manifest)' : ~ Theirs(d)'
      BY <1>1, <1>2, <1>12 DEF Theirs
    <3> QED
      BY <3>1, <3>2 DEF Settled
  <2>2. writer'.up
    BY <1>i, <1>2, <1>8 DEF SegInv
  <2> QED
    BY <1>3, <1>12, <2>1, <2>2 DEF SegInv
<1>15. HistInv'
  <2>1. ASSUME NEW t \in acked PROVE Found(t)'
    <3>1. seg.by = "forget" => t.session # mem.session
      BY <1>i, <1>2 DEF MemInv
    <3>2. Found(t)
      BY <1>i DEF HistInv
    <3> QED
      BY <1>2, <3>1, <3>2
  <2>2. \A t \in Pending' : t.session \notin gone
    BY <1>i, <1>2 DEF HistInv
  <2>3. ASSUME NEW d \in Held(manifest)', NEW t \in d.turn PROVE t.session \notin gone
    <3>1. CASE seg.by = "flush" /\ d \in TurnDocs(Indexed(Pending))
      BY <1>i, <3>1, DocFields DEF HistInv, TurnDocs, Indexed
    <3>2. CASE d \in Held(manifest)
      BY <1>i, <3>2 DEF HistInv
    <3> QED
      BY <1>2, <2>3, <3>1, <3>2
  <2> QED
    BY <1>1, <2>1, <2>2, <2>3 DEF HistInv
<1>16. ReaderInv'
  BY <1>i, <1>1, ReaderKept
<1> QED
  BY <1>9, <1>10, <1>11, <1>13, <1>14, <1>15, <1>16 DEF IInv, StoreInv

-------------------------------------------------------------------------------
(* Steps that leave the durable content alone *)

\* Files, manifest and what is pending stay: so does what is found.
LEMMA Quiet ==
    ASSUME FilesInv, ManifestInv, JournalInv, HistInv, ReaderInv,
           UNCHANGED <<bytes, manifest, writer, reader>>, Pending' = Pending,
           journal' \subseteq Record, shown' \subseteq Pending,
           Listed(manifest) \subseteq present', present' \subseteq present,
           \A t \in acked' : Found(t), gone' \subseteq gone
    PROVE  /\ FilesInv' /\ ManifestInv' /\ JournalInv' /\ HistInv' /\ ReaderInv'
           /\ Held(manifest)' = Held(manifest)
           /\ \A t : Found(t)' <=> Found(t)
<1>1. FilesInv'
  BY FilesKept DEF FilesInv
<1>2. ManifestInv'
  BY ManifestKept
<1>3. JournalInv'
  BY DEF JournalInv
<1>4. Held(manifest)' = Held(manifest)
  BY ShownKept
<1>5. \A t : Found(t)' <=> Found(t)
  BY <1>4 DEF Found
<1>6. HistInv'
  BY <1>4, <1>5 DEF HistInv
<1>7. ReaderInv'
  BY ReaderKept
<1> QED
  BY <1>1, <1>2, <1>3, <1>4, <1>5, <1>6, <1>7

\* A write that waits for its commit, or for its lock to be released.
LEMMA SegKept ==
    ASSUME FilesInv, SegInv, UNCHANGED <<seg, bytes, manifest>>, present' = present,
           seg # Idle => writer'.up,
           seg # Idle /\ seg.by = "flush" => Pending' = Pending,
           seg # Idle /\ seg.by = "forget" => mem'.session = mem.session
    PROVE  SegInv'
<1> SUFFICES ASSUME seg # Idle PROVE SegInv'
  BY DEF SegInv
<1>1. /\ seg \in SegTypes /\ (seg.by # "apply" => seg.asked = NoWrite)
      /\ (seg.pc = "commit" => Staged) /\ (seg.pc # "commit" => Settled)
      /\ (seg.pc = "done" => seg.by \in {"flush", "forget"})
  BY DEF SegInv
<1>2. /\ Held(manifest)' = Held(manifest) /\ Listed(manifest)' = Listed(manifest)
      /\ \A f \in Listed(manifest) : Shows(manifest, f)' = Shows(manifest, f)
  BY ShownKept DEF Listed
<1>3. seg.by = "forget" => \A d : Theirs(d)' <=> Theirs(d)
  BY DEF Theirs
<1>4. ASSUME seg.pc = "commit" PROVE Staged'
  <2>1. StagedDocs(seg)' = StagedDocs(seg)
    BY DEF StagedDocs
  <2>2. seg.by = "flush" => FlushStaged'
    BY <1>1, <1>4, <2>1 DEF Staged, FlushStaged, TurnDocs, TurnDoc
  <2>3. ASSUME seg.by = "forget" PROVE ForgetStaged'
    <3>1. {d \in Held(manifest) : Theirs(d)}' = {d \in Held(manifest) : Theirs(d)}
      BY <1>2, <1>3, <2>3
    <3>2. KeysOf({d \in Held(manifest) : Theirs(d)})' = KeysOf({d \in Held(manifest) : Theirs(d)})
      BY <3>1 DEF KeysOf
    <3> QED
      BY <1>1, <1>4, <2>3, <3>2 DEF Staged, ForgetStaged
  <2>4. seg.by = "apply" => ApplyStaged'
    BY <1>1, <1>4, <2>1 DEF Staged, ApplyStaged, FileDoc
  <2>5. ASSUME seg.by \in {"compact", "merge"} PROVE CompactStaged'
    <3>1. CompactStaged
      BY <1>1, <1>4, <2>5 DEF Staged
    <3>2. UNION {Shows(manifest, f)' : f \in seg.drop} = UNION {Shows(manifest, f) : f \in seg.drop}
      BY <1>2, <3>1 DEF CompactStaged
    <3> QED
      BY <1>2, <2>1, <3>1, <3>2 DEF CompactStaged
  <2> QED
    BY <1>1, <1>2, <1>4, <2>2, <2>3, <2>4, <2>5 DEF Staged, KeysOf
<1>5. seg.pc # "commit" => Settled'
  BY <1>1, <1>2, <1>3 DEF Settled
<1> QED
  BY <1>1, <1>4, <1>5 DEF SegInv

LEMMA CommitNothingStep == ASSUME IInv, CommitNothing PROVE IInv'
<1>i. FilesInv /\ ManifestInv /\ JournalInv /\ MemInv /\ SegInv /\ HistInv /\ ReaderInv
  BY DEF IInv, StoreInv
<1>1. /\ seg.pc = "commit" /\ ~Publishes(seg) /\ seg' = Released
      /\ UNCHANGED <<bytes, present, manifest, journal, writer, shown, mem, reader, acked, gone>>
  BY DEF CommitNothing, hist
<1>2. seg # Idle
  BY <1>1 DEF Idle
<1>3. seg \in SegTypes /\ Staged /\ writer.up /\ (seg.by # "apply" => seg.asked = NoWrite)
  BY <1>i, <1>1, <1>2 DEF SegInv
<1>4. seg.files = {} /\ Removed(seg) = {} /\ seg.through = 0
  BY <1>1 DEF Publishes
<1>5. Pending' = Pending
  BY <1>1 DEF Pending, After
<1>6. /\ FilesInv' /\ ManifestInv' /\ JournalInv' /\ HistInv' /\ ReaderInv'
      /\ Held(manifest)' = Held(manifest) /\ \A t : Found(t)' <=> Found(t)
  <2>1. shown' \subseteq Pending /\ journal' \subseteq Record
    BY <1>i, <1>1 DEF JournalInv
  <2>2. Listed(manifest) \subseteq present' /\ present' \subseteq present
    BY <1>i, <1>1 DEF ManifestInv
  <2>3. \A t \in acked' : Found(t)
    BY <1>i, <1>1 DEF HistInv
  <2> QED
    BY <1>i, <1>1, <1>5, <2>1, <2>2, <2>3, Quiet
<1>7. seg.by # "flush"
  <2> SUFFICES ASSUME seg.by = "flush" PROVE FALSE
    OBVIOUS
  <2>1. PICK t \in Pending : t.seq = 0
    BY <1>3, <1>4 DEF Staged, FlushStaged
  <2>2. 0 > manifest.through /\ manifest.through \in Nat
    BY <1>i, <2>1 DEF Pending, After, FilesInv, Fits
  <2> QED
    BY <2>2
<1>8. CASE seg.by = "forget"
  <2>1. seg' = [seg EXCEPT !.pc = "done"]
    BY <1>1, <1>8 DEF Released
  <2>2. seg' \in SegTypes /\ seg'.by = "forget" /\ seg'.pc = "done" /\ seg'.asked = seg.asked
    BY <1>3, <1>8, <2>1 DEF SegTypes
  <2>3. seg' # Idle
    BY <2>2 DEF Idle
  <2>4. \A d \in Held(manifest) : ~Theirs(d)
    <3>1. seg.removals = KeysOf({d \in Held(manifest) : Theirs(d)})
      BY <1>3, <1>8 DEF Staged, ForgetStaged
    <3>2. seg.removals \subseteq KeysOf(Published)
      BY <1>i, <3>1, Contents DEF KeysOf
    <3>3. KeysOf(StagedDocs(seg)) = {}
      BY <1>4 DEF StagedDocs, KeysOf
    <3>4. seg.removals = {}
      BY <1>4, <3>2, <3>3 DEF Removed
    <3> QED
      BY <3>1, <3>4 DEF KeysOf
  <2>5. Settled'
    BY <1>1, <1>6, <2>2, <2>4 DEF Settled, Theirs
  <2>6. SegInv'
    BY <1>1, <1>3, <1>8, <2>2, <2>5 DEF SegInv
  <2>7. MemInv'
    BY <1>i, <1>1, <1>2, <1>5, <1>6, <1>8, <2>2, <2>3 DEF MemInv
  <2> QED
    BY <1>6, <2>6, <2>7 DEF IInv, StoreInv
<1>9. CASE seg.by # "forget"
  <2>1. seg' = Idle
    BY <1>1, <1>7, <1>9 DEF Released
  <2>2. SegInv'
    BY <2>1 DEF SegInv
  <2>3. MemInv'
    BY <1>i, <1>1, <1>2, <1>5, <1>6, <1>7, <1>9, <2>1 DEF MemInv
  <2> QED
    BY <1>6, <2>2, <2>3 DEF IInv, StoreInv
<1> QED
  BY <1>8, <1>9

LEMMA CollectStep == ASSUME IInv, Collect PROVE IInv'
<1>i. FilesInv /\ ManifestInv /\ JournalInv /\ MemInv /\ SegInv /\ HistInv /\ ReaderInv
  BY DEF IInv, StoreInv
<1>1. /\ seg.pc = "gc" /\ seg' = Released /\ present' = present \cap Listed(manifest)
      /\ UNCHANGED <<bytes, manifest, journal, writer, shown, mem, reader, acked, gone>>
  BY <1>i DEF Collect, Collected, hist, ManifestInv
<1>2. seg # Idle
  BY <1>1 DEF Idle
<1>3. seg \in SegTypes /\ Settled /\ writer.up /\ (seg.by # "apply" => seg.asked = NoWrite)
  BY <1>i, <1>1, <1>2 DEF SegInv
<1>4. Pending' = Pending
  BY <1>1 DEF Pending, After
<1>5. /\ FilesInv' /\ ManifestInv' /\ JournalInv' /\ HistInv' /\ ReaderInv'
      /\ Held(manifest)' = Held(manifest) /\ \A t : Found(t)' <=> Found(t)
  <2>1. shown' \subseteq Pending /\ journal' \subseteq Record
    BY <1>i, <1>1 DEF JournalInv
  <2>2. Listed(manifest) \subseteq present' /\ present' \subseteq present
    BY <1>i, <1>1 DEF ManifestInv
  <2>3. \A t \in acked' : Found(t)
    BY <1>i, <1>1 DEF HistInv
  <2> QED
    BY <1>i, <1>1, <1>4, <2>1, <2>2, <2>3, Quiet
<1>6. CASE seg.by \in {"flush", "forget"}
  <2>1. seg' = [seg EXCEPT !.pc = "done"]
    BY <1>1, <1>6 DEF Released
  <2>2. seg' \in SegTypes /\ seg'.by = seg.by /\ seg'.pc = "done" /\ seg'.asked = seg.asked
    BY <1>3, <1>6, <2>1 DEF SegTypes
  <2>3. seg' # Idle
    BY <2>2 DEF Idle
  <2>4. Settled'
    BY <1>1, <1>3, <1>4, <1>5, <2>2 DEF Settled, Theirs
  <2>5. SegInv'
    BY <1>1, <1>3, <1>6, <2>2, <2>4 DEF SegInv
  <2>6. MemInv'
    BY <1>i, <1>1, <1>2, <1>4, <1>5, <2>2, <2>3 DEF MemInv
  <2> QED
    BY <1>5, <2>5, <2>6 DEF IInv, StoreInv
<1>7. CASE seg.by \notin {"flush", "forget"}
  <2>1. seg' = Idle
    BY <1>1, <1>7 DEF Released
  <2>2. SegInv'
    BY <2>1 DEF SegInv
  <2>3. MemInv'
    BY <1>i, <1>1, <1>2, <1>4, <1>5, <1>7, <2>1 DEF MemInv
  <2> QED
    BY <1>5, <2>2, <2>3 DEF IInv, StoreInv
<1> QED
  BY <1>6, <1>7

\* "sync" is not among the faults, so an operation that fails has changed nothing yet.
LEMMA CommitFailsStep == ASSUME IInv, "sync" \notin Faults, CommitFails PROVE IInv'
<1>i. FilesInv /\ ManifestInv /\ JournalInv /\ MemInv /\ SegInv /\ HistInv /\ ReaderInv
  BY DEF IInv, StoreInv
<1>1. /\ seg.pc = "commit" /\ seg' = Idle
      /\ mem' = IF seg.by \in {"flush", "forget"} THEN Idle ELSE mem
      /\ UNCHANGED <<bytes, present, manifest, journal, writer, shown, reader, acked, gone>>
  BY DEF CommitFails, CanFail, hist
<1>2. Pending' = Pending
  BY <1>1 DEF Pending, After
<1>3. /\ FilesInv' /\ ManifestInv' /\ JournalInv' /\ HistInv' /\ ReaderInv'
      /\ Held(manifest)' = Held(manifest) /\ \A t : Found(t)' <=> Found(t)
  <2>1. shown' \subseteq Pending /\ journal' \subseteq Record
    BY <1>i, <1>1 DEF JournalInv
  <2>2. Listed(manifest) \subseteq present' /\ present' \subseteq present
    BY <1>i, <1>1 DEF ManifestInv
  <2>3. \A t \in acked' : Found(t)
    BY <1>i, <1>1 DEF HistInv
  <2> QED
    BY <1>i, <1>1, <1>2, <2>1, <2>2, <2>3, Quiet
<1>4. SegInv'
  BY <1>1 DEF SegInv
<1>5. seg # Idle
  BY <1>1 DEF Idle
<1>6. CASE seg.by \in {"flush", "forget"}
  <2>1. mem' = Idle
    BY <1>1, <1>6
  <2>2. MemInv'
    BY <1>1, <2>1 DEF MemInv, MemTypes, Idle
  <2> QED
    BY <1>3, <1>4, <2>2 DEF IInv, StoreInv
<1>7. CASE seg.by \notin {"flush", "forget"}
  <2>1. mem' = mem
    BY <1>1, <1>7
  <2>2. MemInv'
    BY <1>i, <1>1, <1>2, <1>3, <1>5, <1>7, <2>1 DEF MemInv
  <2> QED
    BY <1>3, <1>4, <2>2 DEF IInv, StoreInv
<1> QED
  BY <1>6, <1>7

\* The counters.
CountInv == count \in [turns : Nat, writes : Nat, events : Nat]

LEMMA AppendBeginStep ==
    ASSUME IInv, CountInv, NEW s \in Session, NEW compiles \in BOOLEAN, AppendBegin(s, compiles)
    PROVE  IInv'
<1> DEFINE turn == [seq |-> writer.next, session |-> s, text |-> count.turns + 1,
                    compiles |-> compiles]
<1>i. FilesInv /\ ManifestInv /\ JournalInv /\ MemInv /\ SegInv /\ HistInv /\ ReaderInv
  BY DEF IInv, StoreInv
<1>1. /\ writer.up /\ mem = Idle /\ mem' = [pc |-> "append", turn |-> turn]
      /\ gone' = gone \ {s}
      /\ UNCHANGED <<bytes, present, manifest, journal, writer, shown, seg, reader, acked>>
  BY DEF AppendBegin
<1>2. turn \in Record /\ turn.seq = writer.next /\ turn.session = s
  BY <1>i DEF Record, JournalInv, CountInv
<1> HIDE DEF turn
<1>3. Pending' = Pending
  BY <1>1 DEF Pending, After
<1>4. /\ FilesInv' /\ ManifestInv' /\ JournalInv' /\ HistInv' /\ ReaderInv'
      /\ Held(manifest)' = Held(manifest) /\ \A t : Found(t)' <=> Found(t)
  <2>1. shown' \subseteq Pending /\ journal' \subseteq Record
    BY <1>i, <1>1 DEF JournalInv
  <2>2. Listed(manifest) \subseteq present' /\ present' \subseteq present
    BY <1>i, <1>1 DEF ManifestInv
  <2>3. \A t \in acked' : Found(t)
    BY <1>i, <1>1 DEF HistInv
  <2> QED
    BY <1>i, <1>1, <1>3, <2>1, <2>2, <2>3, Quiet
<1>5. seg # Idle => seg.by \notin {"flush", "forget"}
  BY <1>i, <1>1 DEF MemInv, Idle
<1>6. SegInv'
  BY <1>i, <1>1, <1>3, <1>5, SegKept
<1>7. mem' \in MemTypes /\ mem'.pc = "append" /\ mem'.turn = turn
  BY <1>1, <1>2 DEF MemTypes
<1>8. MemInv'
  BY <1>1, <1>2, <1>5, <1>7 DEF MemInv
<1> QED
  BY <1>4, <1>6, <1>8 DEF IInv, StoreInv

\* A turn that enters the journal.
LEMMA Journaling ==
    ASSUME FilesInv, ManifestInv, JournalInv, HistInv, NEW turn \in Record,
           writer.up, turn.seq = writer.next, turn.session \notin gone,
           journal' = journal \cup {turn},
           UNCHANGED <<bytes, present, manifest, acked, gone>>
    PROVE  /\ FilesInv' /\ HistInv' /\ Held(manifest)' = Held(manifest)
           /\ Pending' = Pending \cup {turn} /\ journal' \subseteq Record
           /\ \A t \in Pending' : t.seq < writer.next + 1
           /\ \A t, u \in Pending' : t.seq = u.seq => t = u
           /\ \A t : Found(t) => Found(t)'
<1>1. /\ writer.next \in Nat /\ manifest.through \in Nat /\ writer.next > manifest.through
      /\ \A t \in Pending : t.seq < writer.next
      /\ journal \subseteq Record
  BY DEF JournalInv, FilesInv, Fits
<1>2. Pending' = Pending \cup {turn}
  BY <1>1 DEF Pending, After
<1>3. \A t \in Pending : t.seq \in Nat
  BY <1>1 DEF Pending, After, Record
<1>4. /\ \A t \in Pending' : t.seq < writer.next + 1
      /\ \A t, u \in Pending' : t.seq = u.seq => t = u
  BY <1>1, <1>2, <1>3 DEF JournalInv
<1>5. Held(manifest)' = Held(manifest)
  BY ShownKept
<1>6. \A t : Found(t) => Found(t)'
  BY <1>2, <1>5 DEF Found
<1>7. FilesInv'
  BY FilesKept DEF FilesInv
<1>8. HistInv'
  BY <1>2, <1>5, <1>6 DEF HistInv
<1> QED
  BY <1>1, <1>2, <1>4, <1>5, <1>6, <1>7, <1>8

LEMMA AppendDoneStep == ASSUME IInv, AppendDone PROVE IInv'
<1>i. FilesInv /\ ManifestInv /\ JournalInv /\ MemInv /\ SegInv /\ HistInv /\ ReaderInv
  BY DEF IInv, StoreInv
<1> DEFINE turn == mem.turn
<1>1. /\ mem.pc = "append" /\ journal' = Journaled(turn)
      /\ writer' = [writer EXCEPT !.live = writer.live \cup {turn}, !.next = writer.next + 1]
      /\ mem' = [mem EXCEPT !.pc = "appended"]
      /\ UNCHANGED <<bytes, present, manifest, shown, seg, reader, acked, gone>>
  BY DEF AppendDone, hist
<1>2. /\ mem # Idle /\ writer.up /\ turn.seq = writer.next /\ turn.session \notin gone
      /\ mem \in [pc : {"append", "appended", "flush"}, turn : Record]
  BY <1>i, <1>1 DEF MemInv, MemTypes, Idle
<1>3. turn \in Record /\ writer.linked /\ journal' = journal \cup {turn}
  BY <1>i, <1>1, <1>2 DEF JournalInv, Journaled
<1>m. mem' \in MemTypes /\ mem'.pc = "appended" /\ mem'.turn = turn /\ mem' # Idle
  BY <1>1, <1>2 DEF MemTypes, Idle
<1> HIDE DEF turn
<1>4. /\ FilesInv' /\ HistInv' /\ Held(manifest)' = Held(manifest)
      /\ Pending' = Pending \cup {turn} /\ journal' \subseteq Record
      /\ \A t \in Pending' : t.seq < writer.next + 1
      /\ \A t, u \in Pending' : t.seq = u.seq => t = u
  BY <1>i, <1>1, <1>2, <1>3, Journaling
<1>5. writer' = [up |-> writer.up, manifest |-> writer.manifest,
                 live |-> writer.live \cup {turn}, next |-> writer.next + 1,
                 linked |-> writer.linked]
  BY <1>i, <1>1 DEF JournalInv
<1>6. ManifestInv'
  BY <1>i, <1>1, <1>5, ManifestKept DEF ManifestInv
<1>7. JournalInv'
  <2>1. /\ writer.live = Pending /\ writer.next > manifest.through /\ shown \subseteq Pending
        /\ writer.next \in Nat /\ manifest.through \in Nat
    BY <1>i, <1>2 DEF JournalInv, FilesInv, Fits
  <2>2. writer.next + 1 > manifest.through /\ writer.next + 1 \in Nat
    BY <2>1
  <2>3. /\ writer'.up = writer.up /\ writer'.live = Pending' /\ writer'.linked = writer.linked
        /\ writer'.next = writer.next + 1
    BY <1>4, <1>5, <2>1
  <2>4. shown' \subseteq Pending'
    BY <1>1, <1>4, <2>1
  <2>5. writer' = [up |-> writer'.up, manifest |-> writer'.manifest, live |-> writer'.live,
                   next |-> writer'.next, linked |-> writer'.linked]
    BY <1>5
  <2> QED
    BY <1>1, <1>2, <1>3, <1>4, <2>2, <2>3, <2>4, <2>5, ZenonT(30) DEF JournalInv
<1>8. seg # Idle => seg.by \notin {"flush", "forget"}
  BY <1>i, <1>1 DEF MemInv
<1>9. SegInv'
  <2>1. writer'.up
    BY <1>2, <1>5
  <2> QED
    BY <1>i, <1>1, <1>8, <2>1, SegKept
<1>10. MemInv'
  <2>1. writer'.up
    BY <1>2, <1>5
  <2>2. Found(mem.turn)'
    BY <1>4, <1>m DEF Found
  <2> QED
    BY <1>1, <1>8, <1>m, <2>1, <2>2 DEF MemInv
<1>11. ReaderInv'
  BY <1>i, <1>1, ReaderKept
<1> QED
  BY <1>4, <1>6, <1>7, <1>9, <1>10, <1>11 DEF IInv, StoreInv

LEMMA CrashStep == ASSUME IInv, Crash PROVE IInv'
<1>i. FilesInv /\ ManifestInv /\ JournalInv /\ MemInv /\ SegInv /\ HistInv /\ ReaderInv
  BY DEF IInv, StoreInv
<1>1. /\ writer.up /\ writer' = [writer EXCEPT !.up = FALSE] /\ mem' = Idle /\ seg' = Idle
      /\ journal' = journal \/ (mem.pc = "append" /\ journal' = Journaled(mem.turn))
      /\ UNCHANGED <<bytes, present, manifest, shown, reader, acked, gone>>
  BY DEF Crash, hist
<1>2. writer' = [up |-> FALSE, manifest |-> writer.manifest, live |-> writer.live,
                 next |-> writer.next, linked |-> writer.linked]
  BY <1>i, <1>1 DEF JournalInv
<1>3. /\ FilesInv' /\ HistInv' /\ Pending \subseteq Pending' /\ journal' \subseteq Record
      /\ \A t, u \in Pending' : t.seq = u.seq => t = u
  <2>1. CASE journal' = journal
    <3>1. /\ Pending' = Pending /\ Held(manifest)' = Held(manifest)
          /\ \A t : Found(t)' <=> Found(t)
      BY <1>i, <1>1, <2>1, FoundKept
    <3>2. FilesInv'
      BY <1>i, <1>1, FilesKept DEF FilesInv
    <3>3. HistInv'
      BY <1>i, <1>1, <3>1 DEF HistInv
    <3> QED
      BY <1>i, <2>1, <3>1, <3>2, <3>3 DEF JournalInv
  <2>2. CASE mem.pc = "append" /\ journal' = Journaled(mem.turn)
    <3> DEFINE turn == mem.turn
    <3>1. /\ turn.seq = writer.next /\ turn.session \notin gone
          /\ mem \in [pc : {"append", "appended", "flush"}, turn : Record]
      BY <1>i, <2>2 DEF MemInv, MemTypes, Idle
    <3>2. turn \in Record /\ journal' = journal \cup {turn}
      BY <1>i, <1>1, <2>2, <3>1 DEF JournalInv, Journaled
    <3> HIDE DEF turn
    <3>3. /\ FilesInv' /\ HistInv' /\ Pending' = Pending \cup {turn} /\ journal' \subseteq Record
          /\ \A t, u \in Pending' : t.seq = u.seq => t = u
      BY <1>i, <1>1, <3>1, <3>2, Journaling
    <3> QED
      BY <3>3
  <2> QED
    BY <1>1, <2>1, <2>2
<1>4. ManifestInv'
  BY <1>i, <1>1, <1>2, ManifestKept DEF ManifestInv
<1>5. JournalInv'
  BY <1>i, <1>1, <1>2, <1>3 DEF JournalInv
<1>6. MemInv' /\ SegInv'
  BY <1>1 DEF MemInv, MemTypes, SegInv, Idle
<1>7. ReaderInv'
  BY <1>i, <1>1, ReaderKept
<1> QED
  BY <1>3, <1>4, <1>5, <1>6, <1>7 DEF IInv, StoreInv

LEMMA AppendFailsStep == ASSUME IInv, AppendFails PROVE IInv'
<1>i. FilesInv /\ ManifestInv /\ JournalInv /\ MemInv /\ SegInv /\ HistInv /\ ReaderInv
  BY DEF IInv, StoreInv
<1>1. /\ mem.pc = "append" /\ mem' = Idle
      /\ UNCHANGED <<bytes, present, manifest, journal, writer, shown, seg, reader, acked, gone>>
  BY DEF AppendFails, hist
<1>2. Pending' = Pending
  BY <1>1 DEF Pending, After
<1>3. /\ FilesInv' /\ ManifestInv' /\ JournalInv' /\ HistInv' /\ ReaderInv'
      /\ Held(manifest)' = Held(manifest) /\ \A t : Found(t)' <=> Found(t)
  BY <1>i, <1>1, <1>2, Quiet DEF JournalInv, ManifestInv, HistInv
<1>4. seg # Idle => seg.by \notin {"flush", "forget"}
  BY <1>i, <1>1 DEF MemInv
<1>5. SegInv'
  BY <1>i, <1>1, <1>4, SegKept DEF SegInv
<1>6. MemInv'
  BY <1>1, <1>4 DEF MemInv, MemTypes, Idle
<1> QED
  BY <1>3, <1>5, <1>6 DEF IInv, StoreInv

LEMMA AppendPublishStep == ASSUME IInv, AppendPublish PROVE IInv'
<1>i. FilesInv /\ ManifestInv /\ JournalInv /\ MemInv /\ SegInv /\ HistInv /\ ReaderInv
  BY DEF IInv, StoreInv
<1>1. /\ mem.pc = "appended" /\ mem' = Idle /\ shown' = writer.live
      /\ acked' = acked \cup {mem.turn}
      /\ UNCHANGED <<bytes, present, manifest, journal, writer, seg, reader, gone>>
  BY DEF AppendPublish
<1>2. Pending' = Pending /\ writer.live = Pending /\ Found(mem.turn)
  <2>1. mem # Idle
    BY <1>1 DEF Idle
  <2> QED
    BY <1>i, <1>1, <2>1 DEF Pending, After, MemInv, JournalInv
<1>3. /\ FilesInv' /\ ManifestInv' /\ JournalInv' /\ HistInv' /\ ReaderInv'
      /\ Held(manifest)' = Held(manifest) /\ \A t : Found(t)' <=> Found(t)
  <2>1. \A t \in acked' : Found(t)
    BY <1>i, <1>1, <1>2 DEF HistInv
  <2> QED
    BY <1>i, <1>1, <1>2, <2>1, Quiet DEF JournalInv, ManifestInv
<1>4. seg # Idle => seg.by \notin {"flush", "forget"}
  BY <1>i, <1>1 DEF MemInv
<1>5. SegInv'
  BY <1>i, <1>1, <1>4, SegKept DEF SegInv
<1>6. MemInv'
  BY <1>1, <1>4 DEF MemInv, MemTypes, Idle
<1> QED
  BY <1>3, <1>5, <1>6 DEF IInv, StoreInv

\* A rotation empties a journal that has nothing pending.
LEMMA RotateStep == ASSUME IInv, "sync" \notin Faults, Rotate PROVE IInv'
<1>i. FilesInv /\ ManifestInv /\ JournalInv /\ MemInv /\ SegInv /\ HistInv /\ ReaderInv
  BY DEF IInv, StoreInv
<1>1. /\ seg.pc = "done" /\ seg.by = "flush" /\ seg' = Idle /\ mem' = Idle
      /\ acked' = IF "turn" \in DOMAIN mem THEN acked \cup {mem.turn} ELSE acked
      /\ UNCHANGED <<bytes, present, manifest, shown, reader, gone>>
      /\ \/ journal' = {} /\ writer' = [writer EXCEPT !.linked = TRUE]
         \/ journal' = journal /\ writer' = writer
  BY DEF Rotate, Rewrite, RewriteFails, CanFail
<1>2. seg # Idle
  BY <1>1 DEF Idle
<1>3. Pending = {} /\ writer.up /\ mem.pc = "flush"
  BY <1>i, <1>1, <1>2 DEF SegInv, Settled, MemInv
<1>4. writer' = writer
  <2>1. writer.linked = TRUE
    <3>1. writer.linked
      BY <1>i, <1>3 DEF JournalInv
    <3> QED
      BY <1>i, <3>1 DEF JournalInv
  <2> QED
    BY <1>i, <1>1, <2>1 DEF JournalInv
<1>5. Pending' = Pending /\ journal' \subseteq Record
  BY <1>i, <1>1, <1>3 DEF Pending, After, JournalInv
<1>6. \A t \in acked' : Found(t)
  BY <1>i, <1>1, <1>3 DEF HistInv, MemInv
<1>7. /\ FilesInv' /\ ManifestInv' /\ JournalInv' /\ HistInv' /\ ReaderInv'
  BY <1>i, <1>1, <1>4, <1>5, <1>6, Quiet DEF JournalInv, ManifestInv
<1>8. MemInv' /\ SegInv'
  BY <1>1 DEF MemInv, MemTypes, SegInv, Idle
<1> QED
  BY <1>7, <1>8 DEF IInv, StoreInv

LEMMA ForgetJournaledStep ==
    ASSUME IInv, NEW s \in Session, ForgetJournaled(s) PROVE IInv'
<1>i. FilesInv /\ ManifestInv /\ JournalInv /\ MemInv /\ SegInv /\ HistInv /\ ReaderInv
  BY DEF IInv, StoreInv
<1> DEFINE keep == {t \in Pending : t.session # s}
<1>1. /\ writer.up /\ mem = Idle /\ acked' = {t \in acked : t.session # s}
      /\ mem' = [pc |-> "forget", session |-> s]
      /\ UNCHANGED <<bytes, present, manifest, seg, reader, gone>>
      /\ \/ Kept(s) = writer.live /\ UNCHANGED <<journal, writer, shown>>
         \/ /\ journal' = Kept(s) /\ shown' = Kept(s)
            /\ writer' = [writer EXCEPT !.linked = TRUE, !.live = Kept(s)]
  BY DEF ForgetJournaled, Unack
<1>2. writer.live = Pending /\ writer.linked /\ Kept(s) = keep
  BY <1>i, <1>1 DEF JournalInv, Kept
<1>3. Pending' = keep /\ journal' \subseteq Record /\ shown' \subseteq keep
  BY <1>i, <1>1, <1>2 DEF Pending, After, JournalInv
<1>4. writer' = [up |-> writer.up, manifest |-> writer.manifest, live |-> keep,
                 next |-> writer.next, linked |-> writer'.linked] /\ writer'.linked
  BY <1>i, <1>1, <1>2 DEF JournalInv
<1> HIDE DEF keep
<1>5. Held(manifest)' = Held(manifest)
  BY <1>i, <1>1, ShownKept
<1>6. \A t : Found(t) /\ t.session # s => Found(t)'
  BY <1>3, <1>5 DEF Found, keep
<1>7. FilesInv'
  BY <1>i, <1>1, FilesKept DEF FilesInv
<1>8. ManifestInv'
  BY <1>i, <1>1, <1>4, ManifestKept DEF ManifestInv
<1>9. JournalInv'
  <2>1. \A t \in Pending' : t.seq < writer.next
    BY <1>i, <1>1, <1>3 DEF JournalInv, keep
  <2>2. \A t, u \in Pending' : t.seq = u.seq => t = u
    BY <1>i, <1>3 DEF JournalInv, keep
  <2>3. writer.next \in Nat /\ writer.next > manifest.through
    BY <1>i, <1>1 DEF JournalInv
  <2>4. /\ writer'.up = writer.up /\ writer'.live = Pending' /\ writer'.next = writer.next
        /\ writer' = [up |-> writer'.up, manifest |-> writer'.manifest, live |-> writer'.live,
                      next |-> writer'.next, linked |-> writer'.linked]
    BY <1>3, <1>4
  <2> QED
    BY <1>1, <1>3, <1>4, <2>1, <2>2, <2>3, <2>4 DEF JournalInv
<1>10. HistInv'
  <2>1. \A t \in acked' : Found(t)'
    BY <1>i, <1>1, <1>6 DEF HistInv
  <2>2. \A t \in Pending' : t.session \notin gone'
    BY <1>i, <1>1, <1>3 DEF HistInv, keep
  <2>3. \A d \in Held(manifest)' : \A t \in d.turn : t.session \notin gone'
    BY <1>i, <1>1, <1>5 DEF HistInv
  <2> QED
    BY <2>1, <2>2, <2>3 DEF HistInv
<1>11. seg # Idle => seg.by \notin {"flush", "forget"}
  BY <1>i, <1>1 DEF MemInv, Idle
<1>12. SegInv'
  BY <1>i, <1>1, <1>4, <1>11, SegKept DEF SegInv
<1>13. MemInv'
  <2>1. mem' \in MemTypes /\ mem'.pc = "forget" /\ mem'.session = s
    BY <1>1 DEF MemTypes
  <2>2. \A t \in Pending' \cup acked' : t.session # s
    BY <1>1, <1>3 DEF keep
  <2> QED
    BY <1>1, <1>4, <1>11, <2>1, <2>2 DEF MemInv
<1>14. ReaderInv'
  BY <1>i, <1>1, ReaderKept
<1> QED
  BY <1>7, <1>8, <1>9, <1>10, <1>12, <1>13, <1>14 DEF IInv, StoreInv

LEMMA ForgetFailsStep ==
    ASSUME IInv, "sync" \notin Faults, NEW s \in Session, ForgetFails(s) PROVE IInv'
<1>i. FilesInv /\ ManifestInv /\ JournalInv /\ MemInv /\ SegInv /\ HistInv /\ ReaderInv
  BY DEF IInv, StoreInv
<1>1. /\ acked' \subseteq acked
      /\ UNCHANGED <<bytes, present, manifest, journal, writer, shown, mem, seg, reader, gone>>
  BY DEF ForgetFails, RewriteFails, CanFail, Unack
<1>2. Pending' = Pending
  BY <1>1 DEF Pending, After
<1>3. /\ FilesInv' /\ ManifestInv' /\ JournalInv' /\ HistInv' /\ ReaderInv'
      /\ Held(manifest)' = Held(manifest) /\ \A t : Found(t)' <=> Found(t)
  <2>1. \A t \in acked' : Found(t)
    BY <1>i, <1>1 DEF HistInv
  <2> QED
    BY <1>i, <1>1, <1>2, <2>1, Quiet DEF JournalInv, ManifestInv
<1>4. SegInv'
  BY <1>i, <1>1, <1>2, SegKept DEF SegInv
<1>5. MemInv'
  BY <1>i, <1>1, <1>2, <1>3 DEF MemInv
<1> QED
  BY <1>3, <1>4, <1>5 DEF IInv, StoreInv

LEMMA ForgetDoneStep == ASSUME IInv, ForgetDone PROVE IInv'
<1>i. FilesInv /\ ManifestInv /\ JournalInv /\ MemInv /\ SegInv /\ HistInv /\ ReaderInv
  BY DEF IInv, StoreInv
<1> DEFINE s == mem.session
<1>1. /\ gone' = gone \cup {s} /\ mem' = Idle
      /\ UNCHANGED <<bytes, present, manifest, journal, writer, shown, reader, acked>>
      /\ \/ mem.pc = "forget" /\ SessionKeys(s) = {} /\ seg' = seg
         \/ mem.pc = "unindex" /\ seg.pc = "done" /\ seg' = Idle
  BY DEF ForgetDone
<1>2. \A t \in Pending \cup acked : t.session # s
  BY <1>i, <1>1 DEF MemInv
<1>3. \A d \in Held(manifest) : ~Theirs(d)
  <2>1. CASE mem.pc = "forget" /\ SessionKeys(s) = {}
    <3> SUFFICES ASSUME NEW d \in Held(manifest), Theirs(d) PROVE FALSE
      OBVIOUS
    <3>1. d \in Published
      BY <1>i, Contents
    <3>2. d.key \in SessionKeys(s)
      BY <3>1 DEF SessionKeys, KeysOf, Theirs
    <3> QED
      BY <2>1, <3>2
  <2>2. CASE mem.pc = "unindex" /\ seg.pc = "done"
    BY <1>i, <2>2 DEF MemInv, SegInv, Settled
  <2> QED
    BY <1>1, <2>1, <2>2
<1>4. /\ Pending' = Pending /\ Held(manifest)' = Held(manifest)
      /\ \A t : Found(t)' <=> Found(t)
  BY <1>i, <1>1, FoundKept
<1>5. FilesInv'
  BY <1>i, <1>1, FilesKept DEF FilesInv
<1>6. ManifestInv' /\ JournalInv'
  BY <1>i, <1>1, <1>4, ManifestKept, JournalKept DEF ManifestInv, JournalInv
<1>7. HistInv'
  <2>1. \A d \in Held(manifest) : \A t \in d.turn : t.session # s
    BY <1>3 DEF Theirs
  <2> QED
    BY <1>i, <1>1, <1>2, <1>4, <2>1 DEF HistInv
<1>8. SegInv'
  <2>1. CASE seg' = Idle
    BY <2>1 DEF SegInv
  <2>2. CASE mem.pc = "forget" /\ seg' = seg
    <3>1. seg # Idle => seg.by \notin {"flush", "forget"}
      BY <1>i, <2>2 DEF MemInv
    <3> QED
      BY <1>i, <1>1, <2>2, <3>1, SegKept DEF SegInv
  <2> QED
    BY <1>1, <2>1, <2>2
<1>9. MemInv'
  <2>1. seg' # Idle => seg'.by \notin {"flush", "forget"}
    BY <1>i, <1>1 DEF MemInv
  <2> QED
    BY <1>1, <2>1 DEF MemInv, MemTypes, Idle
<1>10. ReaderInv'
  BY <1>i, <1>1, ReaderKept
<1> QED
  BY <1>5, <1>6, <1>7, <1>8, <1>9, <1>10 DEF IInv, StoreInv

\* The turns a restart finds are those that were pending, and none is in a segment.
LEMMA OpenStep == ASSUME IInv, Open PROVE IInv'
<1>i. FilesInv /\ ManifestInv /\ JournalInv /\ MemInv /\ SegInv /\ HistInv /\ ReaderInv
  BY DEF IInv, StoreInv
<1>1. /\ ~writer.up /\ shown' = Pending /\ present' = present \cap Listed(manifest)
      /\ UNCHANGED <<bytes, manifest, journal, mem, seg, reader, acked, gone>>
  BY DEF Open, Collected, Pending, hist
<1>2. PICK last \in {manifest.through} \cup {t.seq : t \in Pending} :
         IsLast(last, manifest, Pending) /\ writer' = Opened(manifest, Pending, last)
  BY DEF Open, Pending
<1>3. mem = Idle /\ seg = Idle
  BY <1>i, <1>1 DEF MemInv, SegInv
<1>4. Pending' = Pending
  BY <1>1 DEF Pending, After
<1>5. /\ last \in Nat /\ manifest.through \in Nat /\ manifest.through <= last
      /\ \A t \in Pending : t.seq \in Nat /\ t.seq <= last
  BY <1>i, <1>2 DEF FilesInv, Fits, IsLast, Pending, After, JournalInv, Record
<1>6. writer' = [up |-> TRUE, manifest |-> manifest, live |-> Pending, next |-> last + 1,
                 linked |-> TRUE]
  BY <1>2 DEF Opened
<1>7. JournalInv'
  <2>1. /\ last + 1 \in Nat /\ last + 1 > manifest.through
        /\ \A t \in Pending : t.seq < last + 1
    BY <1>5
  <2> QED
    BY <1>i, <1>1, <1>4, <1>6, <2>1 DEF JournalInv
<1>8. /\ Held(manifest)' = Held(manifest) /\ \A t : Found(t)' <=> Found(t)
  BY <1>i, <1>1, FoundKept
<1>9. FilesInv'
  BY <1>i, <1>1, FilesKept DEF FilesInv
<1>10. ManifestInv'
  BY <1>i, <1>1, <1>6, ManifestKept DEF ManifestInv
<1>11. HistInv'
  BY <1>i, <1>1, <1>4, <1>8 DEF HistInv
<1>12. MemInv' /\ SegInv'
  BY <1>1, <1>3 DEF MemInv, MemTypes, SegInv, Idle
<1>13. ReaderInv'
  BY <1>i, <1>1, ReaderKept
<1> QED
  BY <1>7, <1>9, <1>10, <1>11, <1>12, <1>13 DEF IInv, StoreInv

\* What the reader does is no concern of the writer.
LEMMA Beside ==
    ASSUME StoreInv,
           UNCHANGED <<bytes, present, manifest, journal, writer, shown, mem, seg, acked, gone>>
    PROVE  StoreInv'
<1>i. FilesInv /\ ManifestInv /\ JournalInv /\ MemInv /\ SegInv /\ HistInv
  BY DEF StoreInv
<1>1. /\ Pending' = Pending /\ Held(manifest)' = Held(manifest)
      /\ \A t : Found(t)' <=> Found(t)
  BY <1>i, FoundKept
<1>2. FilesInv' /\ ManifestInv' /\ JournalInv'
  BY <1>i, FilesKept, ManifestKept, JournalKept DEF FilesInv, ManifestInv, JournalInv
<1>3. SegInv'
  BY <1>i, <1>1, SegKept DEF SegInv
<1>4. MemInv'
  BY <1>i, <1>1 DEF MemInv
<1>5. HistInv'
  BY <1>i, <1>1 DEF HistInv
<1> QED
  BY <1>2, <1>3, <1>4, <1>5 DEF StoreInv

LEMMA NoManifestFits == FilesInv => Fits(NoManifest)
<1>1. DOMAIN NoManifest.dead = {}
  BY DEF NoManifest
<1>2. /\ NoManifest.gen = 0 /\ NoManifest.through = 0
      /\ NoManifest = [gen |-> NoManifest.gen, dead |-> NoManifest.dead,
                       through |-> NoManifest.through]
  BY DEF NoManifest
<1> QED
  BY <1>1, <1>2 DEF Fits, Listed

\* The manifests a reader holds fit as long as the files stay.
LEMMA ReaderFits ==
    ASSUME bytes' = bytes, Fits(reader'.manifest), Fits(reader'.next),
           reader'.pc \in {"idle", "journal", "open"},
           reader' = [pc |-> reader'.pc, manifest |-> reader'.manifest, turns |-> reader'.turns,
                      next |-> reader'.next, read |-> reader'.read]
    PROVE  ReaderInv'
<1>1. ASSUME NEW m, Fits(m)
      PROVE  /\ m = [gen |-> m.gen, dead |-> m.dead, through |-> m.through]
             /\ m.gen \in Nat /\ m.through \in Nat /\ DOMAIN m.dead \subseteq DOMAIN bytes'
             /\ \A f \in DOMAIN m.dead : m.dead[f] \subseteq KeysOf(bytes'[f])
  BY <1>1 DEF Fits, Listed
<1>2. Fits(reader.manifest)'
  BY <1>1 DEF Fits, Listed
<1>3. Fits(reader.next)'
  BY <1>1 DEF Fits, Listed
<1> QED
  BY <1>2, <1>3 DEF ReaderInv

LEMMA ReadsStep == ASSUME IInv, Reads PROVE IInv'
<1>i. FilesInv /\ ReaderInv /\ StoreInv
  BY DEF IInv, StoreInv
<1>1. UNCHANGED <<bytes, present, manifest, journal, writer, shown, mem, seg, acked, gone>>
  BY DEF Reads, ReadManifest, ReadJournal, OpenSegments, hist
<1>2. StoreInv'
  BY <1>i, <1>1, Beside
<1>3. Fits(manifest) /\ Fits(NoManifest) /\ Fits(reader.manifest) /\ Fits(reader.next)
  BY <1>i, NoManifestFits DEF FilesInv, ReaderInv
<1>4. ASSUME ReadManifest PROVE ReaderInv'
  <2>1. /\ reader'.manifest = reader.manifest /\ reader'.next = manifest /\ reader'.pc = "journal"
        /\ reader' = [pc |-> reader'.pc, manifest |-> reader'.manifest, turns |-> reader'.turns,
                      next |-> reader'.next, read |-> reader'.read]
    BY <1>i, <1>4 DEF ReadManifest, ReaderInv
  <2> QED
    BY <1>1, <1>3, <2>1, ReaderFits
<1>5. ASSUME ReadJournal PROVE ReaderInv'
  <2>1. /\ reader'.manifest = reader.manifest /\ reader'.next = reader.next /\ reader'.pc = "open"
        /\ reader' = [pc |-> reader'.pc, manifest |-> reader'.manifest, turns |-> reader'.turns,
                      next |-> reader'.next, read |-> reader'.read]
    BY <1>i, <1>5 DEF ReadJournal, ReaderInv
  <2> QED
    BY <1>1, <1>3, <2>1, ReaderFits
<1>6. ASSUME OpenSegments PROVE ReaderInv'
  <2>1. /\ reader'.manifest \in {reader.manifest, reader.next} /\ reader'.next = NoManifest
        /\ reader'.pc = "idle"
        /\ reader' = [pc |-> reader'.pc, manifest |-> reader'.manifest, turns |-> reader'.turns,
                      next |-> reader'.next, read |-> reader'.read]
    BY <1>6 DEF OpenSegments
  <2>2. Fits(reader'.manifest) /\ Fits(reader'.next)
    BY <1>3, <2>1
  <2> QED
    BY <1>1, <2>1, <2>2, ReaderFits
<1>7. ReaderInv'
  BY <1>4, <1>5, <1>6 DEF Reads
<1> QED
  BY <1>2, <1>7 DEF IInv

-------------------------------------------------------------------------------
(* The invariant *)

LEMMA InitInv == Init => IInv /\ CountInv
<1> SUFFICES ASSUME Init PROVE IInv /\ CountInv
  OBVIOUS
<1>1. /\ bytes = <<>> /\ present = {} /\ manifest = NoManifest /\ journal = {}
      /\ writer = Opened(NoManifest, {}, 0) /\ shown = {} /\ mem = Idle /\ seg = Idle
      /\ reader = [pc |-> "idle", manifest |-> NoManifest, turns |-> {}, next |-> NoManifest,
                   read |-> {}]
      /\ count = [turns |-> 0, writes |-> 0, events |-> 0] /\ acked = {} /\ gone = {}
  BY DEF Init
<1>2. DOMAIN NoManifest.dead = {} /\ NoManifest.through = 0 /\ NoManifest.gen = 0
  BY DEF NoManifest
<1>3. /\ NoManifest = [gen |-> NoManifest.gen, dead |-> NoManifest.dead,
                       through |-> NoManifest.through]
  BY DEF NoManifest
<1> HIDE DEF NoManifest
<1>4. Fits(NoManifest)
  BY <1>2, <1>3 DEF Fits, Listed
<1>5. Listed(manifest) = {} /\ Pending = {} /\ Held(manifest) = {}
  BY <1>1, <1>2 DEF Listed, Pending, After, Held
<1>6. FilesInv
  BY <1>1, <1>4 DEF FilesInv
<1>7. writer = [up |-> TRUE, manifest |-> NoManifest, live |-> {}, next |-> 1, linked |-> TRUE]
  BY <1>1 DEF Opened
<1>8. ManifestInv
  BY <1>1, <1>5, <1>7 DEF ManifestInv
<1>9. JournalInv
  <2>1. /\ writer.up = TRUE /\ writer.live = {} /\ writer.next = 1 /\ writer.linked = TRUE
        /\ writer = [up |-> writer.up, manifest |-> writer.manifest, live |-> writer.live,
                     next |-> writer.next, linked |-> writer.linked]
    BY <1>7
  <2>2. manifest.through = 0
    BY <1>1, <1>2
  <2>3. journal \subseteq Record /\ shown \subseteq Pending
    BY <1>1, <1>5
  <2>4. \A t \in Pending : t.seq < writer.next
    BY <1>5
  <2>5. \A t, u \in Pending : t.seq = u.seq => t = u
    BY <1>5
  <2>6. writer.next \in Nat /\ writer.next > manifest.through
    BY <2>1, <2>2
  <2>7. writer.up \in BOOLEAN
    BY <2>1
  <2>8. writer.linked /\ writer.live = Pending
    BY <1>5, <2>1
  <2> QED
    BY <2>1, <2>3, <2>4, <2>5, <2>6, <2>7, <2>8 DEF JournalInv
<1>10. MemInv /\ SegInv
  BY <1>1 DEF MemInv, MemTypes, SegInv, Idle
<1>11. HistInv
  BY <1>1, <1>5 DEF HistInv
<1>12. ReaderInv
  BY <1>1, <1>4 DEF ReaderInv
<1>13. CountInv
  BY <1>1 DEF CountInv
<1> QED
  BY <1>6, <1>8, <1>9, <1>10, <1>11, <1>12, <1>13 DEF IInv, StoreInv

LEMMA CountStep == CountInv /\ [Next]_vars => CountInv'
<1> SUFFICES ASSUME CountInv, [Next]_vars PROVE CountInv'
  OBVIOUS
<1>1. ASSUME NEW kind \in {"turns", "writes", "events"}, Tick(kind) PROVE CountInv'
  BY <1>1 DEF Tick, CountInv
<1>2. \/ count' = count
      \/ Tick("turns") \/ Tick("writes") \/ Tick("events")
  BY DEF Next, Writes, Turns, Reads, Apply, CompactAll, CompactSmall, Compact, CommitNothing,
         Commit, CommitFails, Collect, AppendBegin, AppendDone, AppendFails, AppendPublish,
         AppendFlush, FlushMemory, Rotate, RewriteFails, ForgetJournaled, ForgetFails,
         ForgetCompacted, ForgetDone, Crash, Open, ReadManifest, ReadJournal, OpenSegments, vars
<1> QED
  BY <1>1, <1>2 DEF CountInv

LEMMA CompactChosen ==
    ASSUME IInv, CompactAll \/ CompactSmall PROVE IInv'
<1>1. writer.manifest = manifest
  BY DEF IInv, StoreInv, ManifestInv
<1>2. \E by \in {"compact", "merge"}, chosen \in SUBSET Listed(manifest) : Compact(by, chosen)
  BY <1>1 DEF CompactAll, CompactSmall
<1> QED
  BY <1>2, CompactStep

LEMMA StepInv ==
    ASSUME IInv, CountInv, "sync" \notin Faults, [Next]_vars PROVE IInv'
<1>1. CASE Writes
  <2>1. ASSUME NEW u \in Upserts, NEW r \in SUBSET Key, Apply(u, r \ DOMAIN u) PROVE IInv'
    <3>1. r \ DOMAIN u \in SUBSET Key /\ DOMAIN u \cap (r \ DOMAIN u) = {}
      OBVIOUS
    <3> QED
      BY <2>1, <3>1, ApplyStep
  <2> QED
    BY <1>1, <2>1, CompactChosen, CommitNothingStep, CommitStep, CommitFailsStep, CollectStep
       DEF Writes
<1>2. CASE Turns
  BY <1>2, AppendBeginStep, ForgetJournaledStep, ForgetFailsStep, AppendDoneStep,
     AppendFailsStep, AppendPublishStep, AppendFlushStep, FlushMemoryStep, RotateStep,
     ForgetCompactedStep, ForgetDoneStep DEF Turns
<1>3. CASE Reads
  BY <1>3, ReadsStep
<1>4. CASE UNCHANGED vars
  <2>1. /\ StoreInv /\ ReaderInv
        /\ UNCHANGED <<bytes, present, manifest, journal, writer, shown, mem, seg, acked, gone>>
        /\ reader' = reader
    BY <1>4 DEF IInv, vars, hist
  <2>2. StoreInv'
    BY <2>1, Beside
  <2>3. ReaderInv'
    BY <2>1, ReaderKept
  <2> QED
    BY <2>2, <2>3 DEF IInv
<1> QED
  BY <1>1, <1>2, <1>3, <1>4, CrashStep, OpenStep DEF Next

\* The counters only count: text numbers of recorded turns stay numbers.
THEOREM Counts == Spec => []CountInv
<1>1. Init => CountInv
  BY InitInv
<1> QED
  BY <1>1, CountStep, PTL DEF Spec

\* Where the content of the store is, at every moment between journaling, staging,
\* committing, rotating and reopening it, and what a staged write may rely on.
THEOREM StoreInvariant == ASSUME "sync" \notin Faults PROVE Spec => []IInv
<1>1. Init => IInv
  BY InitInv
<1>2. IInv /\ CountInv /\ [Next]_vars => IInv'
  BY StepInv
<1> QED
  BY <1>1, <1>2, Counts, PTL DEF Spec

\* Every manifest, the writer's, the published one and those a reader holds, speaks of
\* files that were written and of documents they have, and the published one of files
\* that are in the directory.
THEOREM TypeCorrect == ASSUME "sync" \notin Faults PROVE Spec => []TypeOK
<1>1. IInv => TypeOK
  <2> SUFFICES ASSUME IInv PROVE TypeOK
    OBVIOUS
  <2>1. FilesInv /\ ManifestInv /\ MemInv /\ SegInv /\ ReaderInv
    BY DEF IInv, StoreInv
  <2>2. \A m \in {manifest, writer.manifest, reader.manifest, reader.next} : Fits(m)
    BY <2>1 DEF FilesInv, ManifestInv, ReaderInv
  <2>3. seg.pc \in {"idle", "commit", "gc", "done"}
    BY <2>1 DEF SegInv, SegTypes, Idle
  <2>4. mem.pc \in {"idle", "append", "appended", "flush", "forget", "unindex"}
    BY <2>1 DEF MemInv, MemTypes, Idle
  <2> QED
    BY <2>1, <2>2, <2>3, <2>4 DEF TypeOK, Fits, FilesInv, ManifestInv, ReaderInv
<1> QED
  BY <1>1, StoreInvariant, PTL

\* append_turn "durably records": a turn that compiles, once it returned for it, is found
\* by any later open, whatever flush, rotation, compaction, write or crash comes between.
THEOREM AckedStaysRecoverable ==
    ASSUME "sync" \notin Faults PROVE Spec => []AckedIsRecoverable
<1>1. IInv => AckedIsRecoverable
  <2> SUFFICES ASSUME IInv, NEW t \in acked, t.compiles PROVE t \in TurnsOf(Recoverable)
    BY DEF AckedIsRecoverable
  <2>1. FilesInv /\ ManifestInv /\ JournalInv /\ Found(t)
    BY DEF IInv, StoreInv, HistInv
  <2>2. TurnDoc(t) \in Recoverable
    BY <2>1, Contents DEF Found, TurnDocs, Indexed
  <2> QED
    BY <2>2, DocFields DEF TurnsOf
<1> QED
  BY <1>1, StoreInvariant, PTL

\* A conversation reported forgotten is shown by no snapshot and found by no restart.
THEOREM ForgottenNeverReturns ==
    ASSUME "sync" \notin Faults PROVE Spec => []ForgottenStaysGone
<1>1. IInv => ForgottenStaysGone
  <2> SUFFICES ASSUME IInv PROVE ForgottenStaysGone
    OBVIOUS
  <2>1. FilesInv /\ ManifestInv /\ JournalInv /\ HistInv
    BY DEF IInv, StoreInv
  <2>2. ASSUME NEW d \in Recoverable \cup Published, NEW t \in d.turn
        PROVE  t.session \notin gone
    <3>1. d \in Held(manifest) \/ d \in TurnDocs(Indexed(Pending))
      BY <2>1, Contents DEF JournalInv, TurnDocs, Indexed
    <3> QED
      BY <2>1, <2>2, <3>1, DocFields DEF HistInv, TurnDocs, Indexed
  <2>3. \A t \in After(journal, manifest.through) : t.session \notin gone
    BY <2>1 DEF HistInv, Pending
  <2> QED
    BY <2>2, <2>3 DEF ForgottenStaysGone, TurnsOf
<1> QED
  BY <1>1, StoreInvariant, PTL

-------------------------------------------------------------------------------
(* The store implements the book *)

BookTurns == TurnsOf(Recoverable)
BookDocs == DocsOf(Recoverable)

\* The book, told from the segments and the journal.
Content ==
    /\ BookTurns = TurnsOf(Held(manifest)) \cup Indexed(Pending)
    /\ BookDocs = [k \in Key |-> BookDocs[k]]
    /\ \A k \in Key, d \in Held(manifest) : d.key = <<"doc", k>> => BookDocs[k] = d.text
    /\ \A k \in Key :
          (\A d \in Held(manifest) : d.key # <<"doc", k>>) => BookDocs[k] = Nothing

LEMMA ContentIs == StoreInv => Content
<1> SUFFICES ASSUME StoreInv PROVE Content
  OBVIOUS
<1>i. FilesInv /\ ManifestInv /\ JournalInv
  BY DEF StoreInv
<1>1. Recoverable = Held(manifest) \cup TurnDocs(Indexed(Pending))
  BY <1>i, Contents
<1>2. TurnsOf(TurnDocs(Indexed(Pending))) = Indexed(Pending)
  <2>1. \A t \in Indexed(Pending) : TurnDoc(t).turn = {t}
    BY DocFields
  <2>2. TurnsOf(TurnDocs(Indexed(Pending))) = UNION {TurnDoc(t).turn : t \in Indexed(Pending)}
    BY DEF TurnsOf, TurnDocs
  <2> QED
    BY <2>1, <2>2
<1>3. BookTurns = TurnsOf(Held(manifest)) \cup Indexed(Pending)
  BY <1>1, <1>2 DEF BookTurns, TurnsOf
<1>4. \A k, d : d \in Recoverable /\ d.key = <<"doc", k>> => d \in Held(manifest)
  <2>1. \A d \in TurnDocs(Indexed(Pending)) : \A k : d.key # <<"doc", k>>
    <3>1. \A t \in Indexed(Pending) : \A k : TurnDoc(t).key # <<"doc", k>>
      BY DocFields, Keys
    <3> QED
      BY <3>1 DEF TurnDocs
  <2> QED
    BY <1>1, <2>1
<1>5. BookDocs = [k \in Key |->
         IF \E d \in Recoverable : d.key = <<"doc", k>>
         THEN (CHOOSE d \in Recoverable : d.key = <<"doc", k>>).text ELSE Nothing]
  BY DEF BookDocs, DocsOf
<1>6. ASSUME NEW k \in Key, NEW d \in Held(manifest), d.key = <<"doc", k>>
      PROVE  BookDocs[k] = d.text
  <2>1. d \in Recoverable
    BY <1>1
  <2> DEFINE e == CHOOSE e \in Recoverable : e.key = <<"doc", k>>
  <2>2. e \in Recoverable /\ e.key = <<"doc", k>>
    BY <1>6, <2>1
  <2>3. BookDocs[k] = e.text
    BY <1>5, <2>2
  <2> HIDE DEF e
  <2>4. e = d
    BY <1>i, <1>4, <1>6, <2>2, HeldKeys
  <2> QED
    BY <2>3, <2>4
<1>7. ASSUME NEW k \in Key, \A d \in Held(manifest) : d.key # <<"doc", k>>
      PROVE  BookDocs[k] = Nothing
  BY <1>4, <1>5, <1>7
<1>8. BookDocs = [k \in Key |-> BookDocs[k]]
  BY <1>5
<1> QED
  BY <1>3, <1>6, <1>7, <1>8 DEF Content

\* Documents other than turns that stay where they were.
LEMMA SameDocs ==
    ASSUME Content, Content',
           \A k \in Key : \A d : d.key = <<"doc", k>> =>
              (d \in Held(manifest)' <=> d \in Held(manifest))
    PROVE  BookDocs' = BookDocs
<1>1. ASSUME NEW k \in Key PROVE BookDocs'[k] = BookDocs[k]
  <2>1. CASE \E d \in Held(manifest) : d.key = <<"doc", k>>
    BY <2>1 DEF Content
  <2>2. CASE \A d \in Held(manifest) : d.key # <<"doc", k>>
    BY <2>2 DEF Content
  <2> QED
    BY <2>1, <2>2
<1>2. BookDocs' = [k \in Key |-> BookDocs'[k]] /\ BookDocs = [k \in Key |-> BookDocs[k]]
  BY DEF Content
<1> QED
  BY <1>1, <1>2

LEMMA BookStays ==
    ASSUME BookTurns' = BookTurns, BookDocs' = BookDocs PROVE Book!BNext
BY DEF BookTurns, BookDocs, Book!BNext

LEMMA BookRecords ==
    ASSUME mem.pc = "append", mem.turn.compiles, BookDocs' = BookDocs, BookTurns' = BookTurns \cup {mem.turn},
           \A u \in BookTurns : u.seq < mem.turn.seq
    PROVE  Book!BNext
BY DEF BookTurns, BookDocs, Book!BNext, Book!Record

LEMMA BookForgets ==
    ASSUME mem'.pc \in {"forget", "unindex"}, BookDocs' = BookDocs, BookTurns' \subseteq BookTurns,
           \A t \in BookTurns \ BookTurns' : t.session = mem'.session
    PROVE  Book!BNext
BY DEF BookTurns, BookDocs, Book!BNext, Book!Forget

LEMMA BookWrites ==
    ASSUME seg # Idle, BookTurns' = BookTurns,
           LET ups == seg.asked.upserts IN
           BookDocs' = [k \in Key |->
              CASE k \in DOMAIN ups -> IF ups[k] = Unreadable THEN Nothing ELSE ups[k]
                [] k \notin DOMAIN ups /\ k \in seg.asked.removals -> Nothing
                [] OTHER -> BookDocs[k]]
    PROVE  Book!BNext
BY DEF BookTurns, BookDocs, Book!BNext, Book!Write

LEMMA ContentNext == StoreInv' => Content'
BY ContentIs, PTL

\* The book of the next state.
LEMMA BookAfter ==
    ASSUME StoreInv, StoreInv', NEW held, NEW pending,
           Held(manifest)' = held, Pending' = pending
    PROVE  BookTurns' = TurnsOf(held) \cup Indexed(pending)
<1>1. BookTurns' = TurnsOf(Held(manifest))' \cup Indexed(Pending)'
  BY ContentNext DEF Content
<1>2. TurnsOf(Held(manifest))' = TurnsOf(held)
  BY DEF TurnsOf
<1>3. Indexed(Pending)' = Indexed(pending)
  BY DEF Indexed
<1> QED
  BY <1>1, <1>2, <1>3

LEMMA BookBefore ==
    ASSUME StoreInv PROVE BookTurns = TurnsOf(Held(manifest)) \cup Indexed(Pending)
BY ContentIs DEF Content

\* A step that moves neither manifest nor pending turns.
LEMMA QuietBook ==
    ASSUME StoreInv, StoreInv', manifest' = manifest, \A f \in DOMAIN bytes : bytes'[f] = bytes[f],
           Pending' = Pending
    PROVE  Book!BNext
<1>1. Held(manifest)' = Held(manifest)
  BY ShownKept DEF StoreInv
<1>2. BookTurns' = BookTurns
  BY <1>1, BookAfter, BookBefore
<1>3. BookDocs' = BookDocs
  BY <1>1, ContentIs, ContentNext, SameDocs
<1> QED
  BY <1>2, <1>3, BookStays

LEMMA StageBytes ==
    ASSUME FilesInv, NEW by, NEW asked, NEW docs, NEW removals, NEW drop, NEW through,
           Stage(by, asked, docs, removals, drop, through)
    PROVE  \A f \in DOMAIN bytes : bytes'[f] = bytes[f]
<1>1. PICK cut \in Cuts(Readable(docs)) : bytes' = bytes \o cut
  BY DEF Stage
<1>2. PICK n \in Nat : cut \in [1 .. n -> SUBSET Readable(docs)]
  BY <1>1 DEF Cuts
<1>3. cut \in Seq(SUBSET Readable(docs)) /\ bytes \in Seq(SUBSET Document)
  BY <1>2 DEF FilesInv
<1>4. \A f \in 1 .. Len(bytes) : (bytes \o cut)[f] = bytes[f]
  BY <1>3
<1>5. DOMAIN bytes = 1 .. Len(bytes)
  BY <1>3
<1> QED
  BY <1>1, <1>4, <1>5

\* Documents of turns, and the others.
LEMMA TurnOrDoc ==
    ASSUME FilesInv, ManifestInv, NEW d \in Held(manifest)
    PROVE  /\ \A t \in d.turn : d = TurnDoc(t)
           /\ \A k : d.key = <<"doc", k>> => d.turn = {}
<1>1. Proper(d)
  BY HeldDocs
<1>2. CASE \E t \in d.turn : d = TurnDoc(t)
  BY <1>2, DocFields, Keys
<1>3. CASE \E k \in Key, v \in Text : d = FileDoc(k, v)
  BY <1>3, DocFields
<1> QED
  BY <1>1, <1>2, <1>3 DEF Proper

LEMMA TurnsBefore ==
    ASSUME StoreInv, NEW n \in Nat, n > manifest.through, \A t \in Pending : t.seq < n,
           NEW t \in BookTurns
    PROVE  t.seq < n
<1>i. FilesInv /\ ManifestInv /\ JournalInv
  BY DEF StoreInv
<1>1. CASE t \in Indexed(Pending)
  BY <1>1 DEF Indexed
<1>2. CASE t \in TurnsOf(Held(manifest))
  <2>1. PICK d \in Held(manifest) : t \in d.turn
    BY <1>2 DEF TurnsOf
  <2>2. d \in Document /\ t.seq <= manifest.through
    BY <1>i, <2>1, HeldDocs
  <2>3. t.seq \in Nat /\ manifest.through \in Nat
    BY <1>i, <2>1, <2>2 DEF Document, Record, FilesInv, Fits
  <2> QED
    BY <2>2, <2>3
<1> QED
  BY <1>1, <1>2, BookBefore

\* A record that enters the journal, whether the process lives to say so or not.
LEMMA JournalingBook ==
    ASSUME StoreInv, StoreInv', mem.pc = "append", journal' = Journaled(mem.turn),
           UNCHANGED <<bytes, present, manifest, acked, gone>>
    PROVE  Book!BNext
<1> DEFINE turn == mem.turn
<1>i. FilesInv /\ ManifestInv /\ JournalInv /\ MemInv /\ HistInv
  BY DEF StoreInv
<1>1. /\ mem # Idle /\ writer.up /\ turn.seq = writer.next /\ turn.session \notin gone
      /\ mem \in [pc : {"append", "appended", "flush"}, turn : Record]
  BY <1>i DEF MemInv, MemTypes, Idle
<1>2. turn \in Record /\ writer.linked /\ journal' = journal \cup {turn}
  BY <1>i, <1>1 DEF JournalInv, Journaled
<1> HIDE DEF turn
<1>3. Held(manifest)' = Held(manifest) /\ Pending' = Pending \cup {turn}
  BY <1>i, <1>1, <1>2, Journaling
<1>4. BookTurns' = IF turn.compiles THEN BookTurns \cup {turn} ELSE BookTurns
  <2>1. Indexed(Pending \cup {turn}) =
           IF turn.compiles THEN Indexed(Pending) \cup {turn} ELSE Indexed(Pending)
    BY DEF Indexed
  <2>2. BookTurns' = TurnsOf(Held(manifest)) \cup Indexed(Pending \cup {turn})
    BY <1>3, BookAfter
  <2> QED
    BY <2>1, <2>2, BookBefore
<1>5. BookDocs' = BookDocs
  BY <1>3, ContentIs, ContentNext, SameDocs
<1>6. \A u \in BookTurns : u.seq < turn.seq
  <2>1. /\ writer.next \in Nat /\ writer.next > manifest.through
        /\ \A t \in Pending : t.seq < writer.next
    BY <1>i, <1>1 DEF JournalInv
  <2> QED
    BY <1>1, <2>1, TurnsBefore
<1>7. CASE turn.compiles
  BY <1>4, <1>5, <1>6, <1>7, BookRecords DEF turn
<1>8. CASE ~turn.compiles
  BY <1>4, <1>5, <1>8, BookStays
<1> QED
  BY <1>7, <1>8

LEMMA ForgetJournaledBook ==
    ASSUME StoreInv, StoreInv', NEW s \in Session, ForgetJournaled(s) PROVE Book!BNext
<1>i. FilesInv /\ ManifestInv /\ JournalInv
  BY DEF StoreInv
<1> DEFINE keep == {t \in Pending : t.session # s}
<1>1. /\ writer.up /\ mem' = [pc |-> "forget", session |-> s]
      /\ UNCHANGED <<bytes, present, manifest>>
      /\ \/ Kept(s) = writer.live /\ journal' = journal
         \/ journal' = Kept(s)
  BY DEF ForgetJournaled
<1>2. writer.live = Pending /\ Kept(s) = keep
  BY <1>i, <1>1 DEF JournalInv, Kept
<1>3. Pending' = keep
  BY <1>i, <1>1, <1>2 DEF Pending, After, JournalInv
<1>4. /\ Indexed(keep) \subseteq Indexed(Pending)
      /\ \A t \in Indexed(Pending) \ Indexed(keep) : t.session = s
  BY DEF Indexed
<1> HIDE DEF keep
<1>5. Held(manifest)' = Held(manifest)
  BY <1>i, <1>1, ShownKept
<1>6. BookTurns' = TurnsOf(Held(manifest)) \cup Indexed(keep)
  BY <1>3, <1>5, BookAfter
<1>7. BookTurns = TurnsOf(Held(manifest)) \cup Indexed(Pending)
  BY BookBefore
<1>8. BookDocs' = BookDocs
  BY <1>5, ContentIs, ContentNext, SameDocs
<1>9. mem'.pc = "forget" /\ mem'.session = s
  BY <1>1
<1> QED
  BY <1>4, <1>6, <1>7, <1>8, <1>9, BookForgets

\* A commit: moving turns and rewriting documents changes no content, forgetting takes
\* turns of one conversation, and a write takes effect as a whole.
LEMMA CommitBook == ASSUME StoreInv, StoreInv', Commit PROVE Book!BNext
<1> DEFINE m == Committed(seg)
<1>i. FilesInv /\ ManifestInv /\ JournalInv /\ MemInv /\ SegInv
  BY DEF StoreInv
<1>1. /\ seg # Idle /\ seg \in SegTypes /\ Staged
      /\ Held(manifest)' = Held(m)
      /\ seg.by = "flush" => Pending' = {} /\ Held(manifest)' = Held(manifest) \cup TurnDocs(Indexed(Pending))
      /\ seg.by # "flush" => Pending' = Pending
      /\ seg.by = "forget" => Held(manifest)' = {d \in Held(manifest) : ~Theirs(d)}
  BY CommitEffect
<1>2. mem' = mem
  BY DEF Commit
<1>3. CASE seg.by = "flush"
  <2>1. TurnsOf(Held(manifest) \cup TurnDocs(Indexed(Pending))) =
           TurnsOf(Held(manifest)) \cup Indexed(Pending)
    <3>1. \A t \in Indexed(Pending) : TurnDoc(t).turn = {t}
      BY DocFields
    <3>2. TurnsOf(Held(manifest) \cup TurnDocs(Indexed(Pending))) =
             TurnsOf(Held(manifest)) \cup (UNION {TurnDoc(t).turn : t \in Indexed(Pending)})
      BY DEF TurnsOf, TurnDocs
    <3> QED
      BY <3>1, <3>2
  <2> DEFINE none == {}
  <2>2. Pending' = none
    BY <1>1, <1>3
  <2>3. \A S : S \cup Indexed(none) = S
    BY DEF Indexed
  <2> HIDE DEF none
  <2>4. BookTurns' = TurnsOf(Held(manifest) \cup TurnDocs(Indexed(Pending))) \cup Indexed(none)
    BY <1>1, <1>3, <2>2, BookAfter
  <2>5. BookTurns' = BookTurns
    BY <2>1, <2>3, <2>4, BookBefore
  <2>6. \A k, d : d.key = <<"doc", k>> => d \notin TurnDocs(Indexed(Pending))
    <3>1. \A k : \A t \in Indexed(Pending) : TurnDoc(t).key # <<"doc", k>>
      BY DocFields, Keys
    <3> QED
      BY <3>1 DEF TurnDocs
  <2>7. BookDocs' = BookDocs
    BY <1>1, <1>3, <2>6, ContentIs, ContentNext, SameDocs
  <2> QED
    BY <2>5, <2>7, BookStays
<1>4. CASE seg.by = "forget"
  <2> DEFINE rest == {d \in Held(manifest) : ~Theirs(d)}
  <2>1. Held(manifest)' = rest /\ Pending' = Pending
    BY <1>1, <1>4
  <2>2. mem'.pc = "unindex"
    BY <1>i, <1>1, <1>2, <1>4 DEF MemInv
  <2>3. ASSUME NEW d \in Held(manifest), NEW t \in d.turn, d \notin rest
        PROVE  t.session = mem.session
    <3>1. PICK u \in d.turn : u.session = mem.session
      BY <2>3 DEF Theirs
    <3>2. d = TurnDoc(t) /\ d = TurnDoc(u)
      BY <1>i, <3>1, TurnOrDoc
    <3>3. {t} = {u}
      BY <3>2, DocFields
    <3> QED
      BY <3>1, <3>3
  <2>4. \A d \in Held(manifest) : d.turn = {} => d \in rest
    BY DEF Theirs
  <2> HIDE DEF rest
  <2>5. /\ BookTurns' = TurnsOf(rest) \cup Indexed(Pending)
        /\ BookTurns = TurnsOf(Held(manifest)) \cup Indexed(Pending)
    BY <2>1, BookAfter, BookBefore
  <2>6. rest \subseteq Held(manifest)
    BY DEF rest
  <2>7. /\ BookTurns' \subseteq BookTurns
        /\ \A t \in BookTurns \ BookTurns' : t.session = mem.session
    BY <2>3, <2>5, <2>6 DEF TurnsOf
  <2>8. \A k, d : d.key = <<"doc", k>> => (d \in rest <=> d \in Held(manifest))
    BY <1>i, <2>4, <2>6, TurnOrDoc
  <2>9. BookDocs' = BookDocs
    BY <2>1, <2>8, ContentIs, ContentNext, SameDocs
  <2> QED
    BY <1>2, <2>2, <2>7, <2>9, BookForgets
<1>5. CASE seg.by \in {"compact", "merge"}
  <2>1. Held(m) = Held(manifest)
    BY <1>i, <1>1, <1>5, HeldAfter
  <2> HIDE DEF m
  <2>2. Held(manifest)' = Held(manifest) /\ Pending' = Pending
    BY <1>1, <1>5, <2>1
  <2>3. BookTurns' = BookTurns
    BY <2>2, BookAfter, BookBefore
  <2>4. BookDocs' = BookDocs
    BY <2>2, ContentIs, ContentNext, SameDocs
  <2> QED
    BY <2>3, <2>4, BookStays
<1>6. CASE seg.by = "apply"
  <2> DEFINE ups == seg.asked.upserts
             rems == seg.asked.removals
             good == {k \in DOMAIN ups : ups[k] # Unreadable}
             bad == {k \in DOMAIN ups : ups[k] = Unreadable}
             staged == {FileDoc(k, ups[k]) : k \in good}
             rest == {d \in Held(manifest) : d.key \notin Replaced}
  <2>1. /\ StagedDocs(seg) = staged
        /\ seg.removals = {<<"doc", k>> : k \in rems} \cup {<<"doc", k>> : k \in bad}
        /\ DOMAIN ups \cap rems = {}
    BY <1>1, <1>6 DEF Staged, ApplyStaged
  <2>2. Held(m) = rest \cup staged /\ \A t : TurnDoc(t).key \notin Replaced
    BY <1>i, <1>1, <1>6, <2>1, HeldAfter
  <2>3. Held(manifest)' = rest \cup staged /\ Pending' = Pending
    BY <1>1, <1>6, <2>2
  <2>4. KeysOf(StagedDocs(seg)) = {<<"doc", k>> : k \in good}
    <3>1. KeysOf(StagedDocs(seg)) = {FileDoc(k, ups[k]).key : k \in good}
      BY <2>1 DEF KeysOf
    <3>2. \A k \in good : FileDoc(k, ups[k]).key = <<"doc", k>>
      BY DocFields
    <3> QED
      BY <3>1, <3>2
  <2>5. ASSUME NEW d \in Held(manifest), NEW k, d.key = <<"doc", k>>
        PROVE  d.key \in Replaced <=> k \in DOMAIN ups \cup rems
    <3>1. d.key \in KeysOf(Published)
      BY <1>i, Contents DEF KeysOf
    <3>2. d.key \in KeysOf(StagedDocs(seg)) <=> k \in good
      BY <2>4, <2>5, Keys
    <3>3. d.key \in seg.removals <=> k \in rems \cup bad
      BY <2>1, <2>5, Keys
    <3>4. d.key \in Replaced <=> d.key \in KeysOf(StagedDocs(seg)) \/ d.key \in seg.removals
      BY <3>1 DEF Replaced, Removed
    <3> QED
      BY <3>2, <3>3, <3>4
  <2> HIDE DEF m
  <2>6. BookTurns' = BookTurns
    <3>1. TurnsOf(rest \cup staged) = TurnsOf(Held(manifest))
      <4>1. \A d \in staged : d.turn = {}
        BY DocFields
      <4>2. \A d \in Held(manifest) : \A t \in d.turn : d \in rest
        BY <1>i, <2>2, TurnOrDoc
      <4>3. rest \subseteq Held(manifest)
        OBVIOUS
      <4> HIDE DEF rest, staged
      <4> QED
        BY <4>1, <4>2, <4>3 DEF TurnsOf
    <3> HIDE DEF rest, staged
    <3> QED
      BY <2>3, <3>1, BookAfter, BookBefore
  <2>7. ASSUME NEW k \in Key
        PROVE  BookDocs'[k] = CASE k \in DOMAIN ups ->
                                      IF ups[k] = Unreadable THEN Nothing ELSE ups[k]
                                [] k \notin DOMAIN ups /\ k \in rems -> Nothing
                                [] OTHER -> BookDocs[k]
    <3>0. /\ \A d \in Held(manifest)' : d.key = <<"doc", k>> => BookDocs'[k] = d.text
          /\ (\A d \in Held(manifest)' : d.key # <<"doc", k>>) => BookDocs'[k] = Nothing
      BY ContentNext DEF Content
    <3>1. CASE k \in good
      <4>1. FileDoc(k, ups[k]) \in Held(manifest)'
        BY <2>3, <3>1
      <4>2. FileDoc(k, ups[k]).key = <<"doc", k>> /\ FileDoc(k, ups[k]).text = ups[k]
        BY DocFields
      <4>3. BookDocs'[k] = ups[k]
        BY <3>0, <4>1, <4>2
      <4> QED
        BY <3>1, <4>3
    <3>2. \A d \in staged : d.key = <<"doc", k>> => k \in good
      <4>1. \A l \in good : FileDoc(l, ups[l]).key = <<"doc", k>> => l = k
        BY DocFields, Keys
      <4> QED
        BY <4>1
    <3>3. CASE k \in bad \/ k \in rems
      <4>1. k \notin good
        BY <2>1, <3>3
      <4>2. \A d \in Held(manifest)' : d.key # <<"doc", k>>
        BY <2>3, <2>5, <3>2, <3>3, <4>1
      <4>3. BookDocs'[k] = Nothing
        BY <3>0, <4>2
      <4> QED
        BY <2>1, <3>3, <4>3
    <3>4. CASE k \notin DOMAIN ups /\ k \notin rems
      <4>1. \A d : d.key = <<"doc", k>> => (d \in Held(manifest)' <=> d \in Held(manifest))
        BY <2>3, <2>5, <3>2, <3>4
      <4>2. /\ \A d \in Held(manifest) : d.key = <<"doc", k>> => BookDocs[k] = d.text
            /\ (\A d \in Held(manifest) : d.key # <<"doc", k>>) => BookDocs[k] = Nothing
        BY ContentIs DEF Content
      <4>3. BookDocs'[k] = BookDocs[k]
        BY <3>0, <4>1, <4>2
      <4> QED
        BY <3>4, <4>3
    <3> QED
      BY <3>1, <3>3, <3>4
  <2>8. BookDocs' = [k \in Key |-> BookDocs'[k]]
    BY ContentNext DEF Content
  <2>9. BookDocs' = [k \in Key |->
            CASE k \in DOMAIN ups -> IF ups[k] = Unreadable THEN Nothing ELSE ups[k]
              [] k \notin DOMAIN ups /\ k \in rems -> Nothing
              [] OTHER -> BookDocs[k]]
    BY <2>7, <2>8
  <2> QED
    BY <1>1, <2>6, <2>9, BookWrites
<1> QED
  BY <1>1, <1>3, <1>4, <1>5, <1>6 DEF SegTypes

LEMMA StepBook ==
    ASSUME IInv, IInv', "sync" \notin Faults, [Next]_vars PROVE Book!BNext
<1>i. StoreInv /\ StoreInv' /\ FilesInv /\ ManifestInv /\ JournalInv /\ SegInv /\ MemInv
  BY DEF IInv, StoreInv
<1>1. ASSUME NEW by, NEW asked, NEW docs, NEW removals, NEW drop, NEW through,
             Stage(by, asked, docs, removals, drop, through),
             manifest' = manifest, journal' = journal
      PROVE  Book!BNext
  <2>1. \A f \in DOMAIN bytes : bytes'[f] = bytes[f]
    BY <1>i, <1>1, StageBytes
  <2>2. Pending' = Pending
    BY <1>1 DEF Pending, After
  <2> QED
    BY <1>i, <1>1, <2>1, <2>2, QuietBook
<1>2. ASSUME bytes' = bytes, manifest' = manifest, journal' = journal PROVE Book!BNext
  <2>1. Pending' = Pending
    BY <1>2 DEF Pending, After
  <2> QED
    BY <1>i, <1>2, <2>1, QuietBook
<1>3. CASE Writes
  <2>1. ASSUME NEW u, NEW r, Apply(u, r) PROVE Book!BNext
    BY <1>1, <2>1 DEF Apply
  <2>2. ASSUME NEW by, NEW chosen, Compact(by, chosen) PROVE Book!BNext
    BY <1>1, <2>2 DEF Compact
  <2>3. CASE CompactAll \/ CompactSmall
    BY <2>2, <2>3 DEF CompactAll, CompactSmall
  <2>4. CASE CommitNothing \/ CommitFails \/ Collect
    BY <1>2, <2>4 DEF CommitNothing, CommitFails, CanFail, Collect
  <2>5. CASE Commit
    BY <1>i, <2>5, CommitBook
  <2> QED
    BY <1>3, <2>1, <2>3, <2>4, <2>5 DEF Writes
<1>4. CASE Turns
  <2>1. ASSUME StageFlush, manifest' = manifest, journal' = journal PROVE Book!BNext
    BY <1>1, <2>1 DEF StageFlush
  <2>2. CASE AppendFlush \/ FlushMemory
    BY <2>1, <2>2 DEF AppendFlush, FlushMemory
  <2>3. CASE ForgetCompacted
    BY <1>1, <2>3 DEF ForgetCompacted
  <2>4. CASE AppendFails \/ AppendPublish \/ ForgetDone
    BY <1>2, <2>4 DEF AppendFails, AppendPublish, ForgetDone
  <2>5. ASSUME NEW s \in Session,
               (\E compiles \in BOOLEAN : AppendBegin(s, compiles)) \/ ForgetFails(s)
        PROVE  Book!BNext
    BY <1>2, <2>5 DEF AppendBegin, ForgetFails, RewriteFails, CanFail
  <2>6. ASSUME NEW s \in Session, ForgetJournaled(s) PROVE Book!BNext
    BY <1>i, <2>6, ForgetJournaledBook
  <2>7. CASE AppendDone
    <3>1. /\ mem.pc = "append" /\ journal' = Journaled(mem.turn)
          /\ UNCHANGED <<bytes, present, manifest, acked, gone>>
      BY <2>7 DEF AppendDone, hist
    <3> QED
      BY <1>i, <3>1, JournalingBook
  <2>8. CASE Rotate
    <3>1. /\ seg.pc = "done" /\ seg.by = "flush" /\ bytes' = bytes /\ manifest' = manifest
          /\ journal' = {} \/ journal' = journal
      BY <2>8 DEF Rotate, Rewrite, RewriteFails, CanFail
    <3>2. Pending = {}
      BY <1>i, <3>1 DEF SegInv, Settled, Idle
    <3>3. Pending' = Pending
      BY <3>1, <3>2 DEF Pending, After
    <3> QED
      BY <1>i, <3>1, <3>3, QuietBook
  <2> QED
    BY <1>4, <2>2, <2>3, <2>4, <2>5, <2>6, <2>7, <2>8 DEF Turns
<1>5. CASE Crash
  <2>1. /\ UNCHANGED <<bytes, present, manifest, acked, gone>>
        /\ journal' = journal \/ (mem.pc = "append" /\ journal' = Journaled(mem.turn))
    BY <1>5 DEF Crash, hist
  <2> QED
    BY <1>2, <1>i, <2>1, JournalingBook
<1>6. CASE Open \/ Reads \/ UNCHANGED vars
  BY <1>2, <1>6 DEF Open, Reads, ReadManifest, ReadJournal, OpenSegments, vars
<1> QED
  BY <1>3, <1>4, <1>5, <1>6 DEF Next

LEMMA InitBook == Init => Book!BInit
<1> SUFFICES ASSUME Init PROVE Book!BInit
  OBVIOUS
<1>1. StoreInv
  BY InitInv DEF IInv
<1>2. /\ manifest = NoManifest /\ journal = {} /\ mem = Idle /\ seg = Idle
  BY DEF Init
<1>3. DOMAIN NoManifest.dead = {}
  BY DEF NoManifest
<1>4. Held(manifest) = {} /\ Pending = {}
  BY <1>2, <1>3 DEF Held, Listed, Pending, After
<1>5. BookTurns = {}
  BY <1>1, <1>4, BookBefore DEF TurnsOf, Indexed
<1>6. BookDocs = [k \in Key |-> Nothing]
  BY <1>1, <1>4, ContentIs DEF Content
<1> QED
  BY <1>2, <1>5, <1>6 DEF Book!BInit, BookTurns, BookDocs, NoWrite, Idle

\* The store implements the book: records, forgettings and writes take effect in one
\* step, and rotation, compaction, collection, a crash and a reopening change nothing of
\* what the next process to open the directory finds.
THEOREM StoreImplementsBook == ASSUME "sync" \notin Faults PROVE Spec => ImplementsBook
<1>1. IInv /\ IInv' /\ [Next]_vars => [Book!BNext]_(Book!bvars)
  BY StepBook
<1> QED
  BY InitBook, <1>1, StoreInvariant, PTL DEF Spec, Book!BSpec, ImplementsBook
===============================================================================
