---------------------------- MODULE EmbedJobProofs ----------------------------
(***************************************************************************)
(* No passage is ever given the vector of another text, and the text of a  *)
(* passage that a run has reported covered is not embedded again while the *)
(* passage, or one that a compaction made of it, is stored, for any        *)
(* documents, texts, models, runs and compactions.                         *)
(*                                                                         *)
(* The first part follows every table that lies on disk, is loaded for     *)
(* queries, or is in a run's or a compaction's hands: it has as many rows  *)
(* as its segment has passages, and each row that has a vector has that of *)
(* the passage's own text.  The second part compares these tables with     *)
(* each other: what a query is served is on disk, and what was covered is  *)
(* found by whoever looks next, unless a compaction has it in its hands.   *)
(***************************************************************************)
EXTENDS EmbedJob, FiniteSetTheorems, WellFoundedInduction, TLAPS

\* A table of segment s, and tables by segment, of the passages ps.
RightTable(s, table, ps) == /\ DOMAIN table = 1 .. Len(ps[s])
                            /\ \A p \in 1 .. Len(ps[s]) : table[p] \in {None, ps[s][p].text}
Right(tables, ps) == /\ DOMAIN tables \subseteq DOMAIN ps
                     /\ \A s \in DOMAIN tables : RightTable(s, tables[s], ps)

\* Segments are numbered as they are written.
Numbered == /\ \E S : passages \in Seq(S)
            /\ segments \subseteq DOMAIN passages
            /\ \A a \in dead : \E s \in segments : \E p \in Rows(s) : a = <<s, p>>

OnDisk == /\ DOMAIN files = Model
          /\ \A m \in Model : /\ DOMAIN files[m] \subseteq DOMAIN passages
                              /\ \A s \in DOMAIN files[m] :
                                    files[m][s] = Broken \/ RightTable(s, files[m][s], passages)
InCache == /\ DOMAIN cache = Model
           /\ \A m \in Model : cache[m] # None =>
                 DOMAIN cache[m] = {"generation", "tables"} /\ Right(cache[m].tables, passages)

\* What a run holds, by where it is.
InRun(r) ==
    \/ run[r] = Idle
    \/ /\ run[r].model \in Model /\ run[r].snap.segments \subseteq DOMAIN passages
       /\ \/ /\ run[r].pc = "load" /\ DOMAIN run[r] = {"pc", "model", "snap", "alone"}
          \/ /\ run[r].pc = "embed"
             /\ DOMAIN run[r] = {"pc", "model", "snap", "alone", "existing", "staged", "queue",
                                 "vectors", "failed"}
             /\ Right(run[r].existing, passages) /\ run[r].staged \subseteq run[r].snap.segments
          \/ /\ run[r].pc \in {"write", "prune"}
             /\ DOMAIN run[r] = {"pc", "model", "snap", "alone", "failed", "existing", "tables", "todo"}
             /\ Right(run[r].existing, passages) /\ Right(run[r].tables, passages)
             /\ run[r].todo \subseteq DOMAIN run[r].tables
             /\ DOMAIN run[r].tables \subseteq run[r].snap.segments
InRuns == DOMAIN run = Run /\ \A r \in Run : InRun(r)

\* A compaction carries vectors to a segment that was written.
Carrying == compacting # None =>
    /\ DOMAIN compacting = {"drop", "carried", "committed", "todo"}
    /\ compacting.todo # {} => Len(passages) \in DOMAIN passages

IInv == Numbered /\ OnDisk /\ InCache /\ InRuns /\ Carrying

-------------------------------------------------------------------------------
(* Tables *)

\* Of the operators on tables, only Fill and CarriedTable make rows.
LEMMA RightKept ==
  ASSUME NEW T, NEW S, Right(T, passages)
  PROVE  Right(Kept(T, S), passages)
BY DEF Right, Kept

LEMMA RightExtend ==
  ASSUME NEW T, NEW U, Right(T, passages), Right(U, passages)
  PROVE  Right(Extend(T, U), passages)
BY DEF Right, Extend

LEMMA RightDecoded ==
  ASSUME OnDisk, NEW m \in Model
  PROVE  Right(Decoded(m), passages)
BY DEF OnDisk, Decoded, Kept, Right

LEMMA RightTables ==
  ASSUME OnDisk, InCache, NEW m \in Model, NEW snap
  PROVE  Right(Tables(m, snap), passages)
<1>1. Right(Decoded(m), passages)
  BY RightDecoded
<1>2. cache[m] # None => Right(cache[m].tables, passages)
  BY DEF InCache
<1> QED BY <1>1, <1>2, RightKept, RightExtend DEF Tables, Merged

\* A row is filled from its own table, or with the vector of its own text.
LEMMA RightFill ==
  ASSUME NEW T, NEW segs, NEW texts, NEW snap, Right(T, passages), segs \subseteq DOMAIN passages
  PROVE  Right(Fill(T, segs, texts, snap), passages) /\ DOMAIN Fill(T, segs, texts, snap) = segs
<1> DEFINE F == Fill(T, segs, texts, snap)
<1>1. DOMAIN F = segs
  BY DEF Fill
<1>2. ASSUME NEW s \in segs PROVE RightTable(s, F[s], passages)
  <2>1. /\ DOMAIN F[s] = 1 .. Len(passages[s])
        /\ \A p \in 1 .. Len(passages[s]) : F[s][p] =
              LET has == s \in DOMAIN T IN
              IF has /\ T[s][p] # None THEN T[s][p]
              ELSE IF <<s, p>> \in Passages(snap) /\ passages[s][p].text \in texts
                   THEN passages[s][p].text ELSE None
    BY DEF Fill, Rows
  <2>2. s \in DOMAIN T => \A p \in 1 .. Len(passages[s]) : T[s][p] \in {None, passages[s][p].text}
    BY DEF Right, RightTable
  <2> QED BY <2>1, <2>2 DEF RightTable
<1> QED BY <1>1, <1>2 DEF Right

LEMMA RightCarried ==
  ASSUME NEW m, NEW s \in DOMAIN passages
  PROVE  RightTable(s, CarriedTable(m, s), passages)
BY DEF CarriedTable, RightTable, Rows

-------------------------------------------------------------------------------
(* Writes and compactions *)

\* What was written stays.
Grown(ps, qs) == DOMAIN ps \subseteq DOMAIN qs /\ \A s \in DOMAIN ps : qs[s] = ps[s]

LEMMA RightGrown ==
  ASSUME NEW T, NEW ps, NEW qs, Grown(ps, qs), Right(T, ps)
  PROVE  Right(T, qs)
BY DEF Grown, Right, RightTable

LEMMA AppendGrows ==
  ASSUME NEW ps, \E S : ps \in Seq(S), NEW x
  PROVE  /\ \E S : Append(ps, x) \in Seq(S)
         /\ ps \o <<x>> = Append(ps, x)
         /\ Grown(ps, Append(ps, x))
         /\ DOMAIN Append(ps, x) = DOMAIN ps \cup {Len(ps) + 1}
         /\ Len(Append(ps, x)) = Len(ps) + 1 /\ Append(ps, x)[Len(ps) + 1] = x
<1>1. PICK S : ps \in Seq(S)
  OBVIOUS
<1>2. ps \in Seq(S \cup {x}) /\ x \in S \cup {x}
  BY <1>1
<1>3. /\ Append(ps, x) \in Seq(S \cup {x}) /\ Len(ps) \in Nat /\ DOMAIN ps = 1 .. Len(ps)
      /\ DOMAIN Append(ps, x) = 1 .. Len(ps) + 1
      /\ \A i \in 1 .. Len(ps) : Append(ps, x)[i] = ps[i]
      /\ Append(ps, x)[Len(ps) + 1] = x /\ Len(Append(ps, x)) = Len(ps) + 1
  BY <1>2
<1>4. ps \o <<x>> = Append(ps, x)
  BY <1>2
<1>5. 1 .. Len(ps) + 1 = (1 .. Len(ps)) \cup {Len(ps) + 1}
  BY <1>3
<1> QED BY <1>3, <1>4, <1>5 DEF Grown

LEMMA LiveRows ==
  ASSUME NEW a \in Passages(Snapshot)
  PROVE  \E s \in segments : \E p \in Rows(s) : a = <<s, p>>
BY DEF Passages, Snapshot

\* Nothing that is held changes when segments are published.
LEMMA PublishStep ==
  ASSUME IInv, NEW listed, NEW gone, Publish(listed, gone), Grown(passages, passages'),
         \E S : passages' \in Seq(S), listed \subseteq DOMAIN passages',
         \A a \in gone : \E s \in segments : \E p \in Rows(s) : a = <<s, p>>,
         UNCHANGED <<cache, run>>
  PROVE  (Numbered /\ OnDisk /\ InCache /\ InRuns)'
<1> USE DEF IInv
<1>1. Numbered'
  <2>1. ASSUME NEW a \in dead' PROVE \E s \in segments' : \E p \in Rows(s)' : a = <<s, p>>
    <3>1. a \in dead \cup gone /\ a[1] \in listed /\ segments' = listed
      BY DEF Publish
    <3>2. PICK s \in segments : \E p \in Rows(s) : a = <<s, p>>
      BY <3>1 DEF Numbered
    <3>3. Rows(s)' = Rows(s) /\ a[1] = s
      BY <3>2 DEF Rows, Grown, Numbered
    <3> QED BY <3>1, <3>2, <3>3
  <2> QED BY <2>1 DEF Numbered, Publish
<1>2. OnDisk'
  BY DEF OnDisk, Publish, Kept, Grown, RightTable
<1>3. InCache'
  BY RightGrown DEF InCache
<1>4. ASSUME NEW r \in Run PROVE InRun(r)'
  <2>1. InRun(r) /\ run' = run
    BY DEF InRuns
  <2>2. \A T : Right(T, passages) => Right(T, passages')
    BY RightGrown
  <2>3. DOMAIN passages \subseteq DOMAIN passages'
    BY DEF Grown
  <2> QED BY <2>1, <2>2, <2>3 DEF InRun
<1> QED BY <1>1, <1>2, <1>3, <1>4 DEF InRuns

LEMMA WriteSteps ==
  ASSUME IInv, Host \/ CompactCommit
  PROVE  IInv'
<1> USE DEF IInv
<1>1. /\ \E S : passages \in Seq(S)
      /\ segments \subseteq DOMAIN passages /\ Grown(passages, passages)
  BY DEF Numbered, Grown
<1>2. ASSUME NEW d \in Doc, NEW x \in Text, Put(d, x) PROVE IInv'
  <2>1. PICK new : passages' = Append(passages, new)
    BY <1>2 DEF Put
  <2>2. /\ Grown(passages, passages') /\ \E S : passages' \in Seq(S)
        /\ segments \cup {Len(passages) + 1} \subseteq DOMAIN passages'
    <3>1. /\ Grown(passages, passages') /\ \E S : passages' \in Seq(S)
          /\ DOMAIN passages' = DOMAIN passages \cup {Len(passages) + 1}
      BY <1>1, <2>1, AppendGrows
    <3> QED BY <1>1, <3>1
  <2>3. (Numbered /\ OnDisk /\ InCache /\ InRuns)'
    BY <2>2, <1>2, PublishStep, LiveRows DEF Put, Places
  <2>4. Carrying'
    BY <1>2 DEF Put, Carrying
  <2> QED BY <2>3, <2>4
<1>3. ASSUME NEW d \in Doc, Delete(d) PROVE IInv'
  <2>1. (Numbered /\ OnDisk /\ InCache /\ InRuns)'
    BY <1>1, <1>3, PublishStep, LiveRows DEF Delete, Places
  <2>2. Carrying'
    BY <1>3 DEF Delete, Carrying
  <2> QED BY <2>1, <2>2
<1>4. ASSUME CompactCommit PROVE IInv'
  <2> DEFINE live == Live(compacting.drop)
             docs == [i \in DOMAIN live |-> passages[live[i][1]][live[i][2]]]
             new == IF docs = <<>> THEN {} ELSE {Len(passages) + 1}
  <2>1. /\ passages' = passages \o (IF docs = <<>> THEN <<>> ELSE <<docs>>)
        /\ Publish((segments \ compacting.drop) \cup new, {})
        /\ compacting' = [compacting EXCEPT !.committed = TRUE, !.todo =
                             {m \in Model : new # {} /\ compacting.carried[m] # {}}]
        /\ compacting # None /\ UNCHANGED <<cache, run>>
    BY <1>4 DEF CompactCommit
  <2> HIDE DEF docs
  <2>2. /\ Grown(passages, passages') /\ \E S : passages' \in Seq(S)
        /\ (segments \ compacting.drop) \cup new \subseteq DOMAIN passages'
        /\ new # {} => Len(passages') \in DOMAIN passages'
    <3>1. CASE docs = <<>>
      BY <3>1, <2>1, <1>1
    <3>2. CASE docs # <<>>
      <4>1. passages' = Append(passages, docs)
        BY <3>2, <2>1, <1>1, AppendGrows
      <4>2. /\ Grown(passages, passages') /\ \E S : passages' \in Seq(S)
            /\ DOMAIN passages' = DOMAIN passages \cup {Len(passages) + 1}
            /\ Len(passages') = Len(passages) + 1
        BY <1>1, <4>1, AppendGrows
      <4> QED BY <1>1, <3>2, <4>2
    <3> QED BY <3>1, <3>2
  <2> HIDE DEF new
  <2>3. (Numbered /\ OnDisk /\ InCache /\ InRuns)'
    BY <2>1, <2>2, PublishStep
  <2>4. Carrying'
    BY <2>1, <2>2 DEF Carrying
  <2> QED BY <2>3, <2>4
<1> QED BY <1>2, <1>3, <1>4 DEF Host

\* A sidecar is put in its place.
LEMMA FilesStep ==
  ASSUME OnDisk, NEW m \in Model, NEW T, UNCHANGED passages,
         DOMAIN T \subseteq DOMAIN passages,
         \A s \in DOMAIN T : T[s] = Broken \/ RightTable(s, T[s], passages),
         files' = [files EXCEPT ![m] = Extend(@, T)]
  PROVE  OnDisk'
BY DEF OnDisk, Extend

LEMMA InsertedStep ==
  ASSUME InCache, NEW m \in Model, NEW T, UNCHANGED passages, Right(T, passages),
         cache' = Inserted(m, T)
  PROVE  InCache'
<1>1. CASE cache[m] = None
  BY <1>1 DEF Inserted, InCache
<1>2. CASE cache[m] # None
  <2>1. cache' = [cache EXCEPT ![m] = [cache[m] EXCEPT !.tables = Extend(cache[m].tables, T)]]
    BY <1>2 DEF Inserted
  <2>2. Right(Extend(cache[m].tables, T), passages)
    BY <1>2, RightExtend DEF InCache
  <2>3. /\ DOMAIN cache' = Model /\ DOMAIN cache'[m] = {"generation", "tables"}
        /\ cache'[m].tables = Extend(cache[m].tables, T)
        /\ \A o \in Model : o # m => cache'[o] = cache[o]
    BY <1>2, <2>1 DEF InCache
  <2> QED BY <2>2, <2>3 DEF InCache
<1> QED BY <1>1, <1>2

\* Disturbing a run changes nothing of what it holds.
LEMMA DisturbedRun ==
  ASSUME InRuns, NEW r \in Run, UNCHANGED passages,
         run'[r] = run[r] \/ run'[r] = Disturbed[r] \/ run'[r] = Idle
  PROVE  InRun(r)'
<1>1. InRun(r)
  BY DEF InRuns
<1>2. CASE run'[r] = run[r]
  BY <1>1, <1>2 DEF InRun
<1>3. CASE run'[r] = Idle
  BY <1>3 DEF InRun
<1>4. CASE run[r] # Idle /\ run'[r] = [run[r] EXCEPT !.alone = FALSE]
  <2>1. DOMAIN run'[r] = DOMAIN run[r]
    BY <1>4
  <2>2. \A f \in DOMAIN run[r] : f # "alone" => run'[r][f] = run[r][f]
    BY <1>4
  <2> QED BY <1>1, <1>4, <2>1, <2>2 DEF InRun
<1> QED BY <1>2, <1>3, <1>4 DEF Disturbed

LEMMA CompactSteps ==
  ASSUME IInv, (\E S \in SUBSET segments : CompactCollect(S)) \/ (\E m \in Model : CompactCarry(m)) \/ CompactEnd
  PROVE  IInv'
<1> USE DEF IInv
<1>1. ASSUME NEW S \in SUBSET segments, CompactCollect(S) PROVE IInv'
  <2>1. /\ UNCHANGED <<passages, segments, dead, files, cache>> /\ run' = Disturbed
        /\ compacting' = [drop |-> S, carried |-> Carried(S), committed |-> FALSE, todo |-> {}]
    BY <1>1 DEF CompactCollect, store
  <2>2. Numbered' /\ OnDisk' /\ InCache'
    BY <2>1 DEF Numbered, OnDisk, InCache, Rows
  <2>3. InRuns'
    BY <2>1, DisturbedRun DEF InRuns, Disturbed
  <2>4. Carrying'
    BY <2>1 DEF Carrying
  <2> QED BY <2>2, <2>3, <2>4
<1>2. ASSUME NEW m \in Model, CompactCarry(m) PROVE IInv'
  <2> DEFINE s == Len(passages)
             table == CarriedTable(m, s)
             new == IF ToSet(table) \subseteq {None} THEN NoTables ELSE One(s, table)
  <2>1. /\ UNCHANGED <<passages, segments, dead, run>> /\ compacting # None /\ m \in compacting.todo
        /\ \/ files' = [files EXCEPT ![m] = Extend(@, new)] /\ cache' = Inserted(m, new)
           \/ UNCHANGED <<files, cache>>
        /\ compacting' = [compacting EXCEPT !.committed = TRUE, !.todo = @ \ {m}]
    BY <1>2 DEF CompactCarry, store
  <2>2. s \in DOMAIN passages
    BY <2>1 DEF Carrying
  <2>3. RightTable(s, table, passages)
    BY <2>2, RightCarried
  <2> HIDE DEF s, table
  <2>4. Right(new, passages)
    BY <2>2, <2>3 DEF Right, One, NoTables
  <2> HIDE DEF new
  <2>5. Numbered' /\ InRuns'
    BY <2>1 DEF Numbered, InRuns, InRun, Rows
  <2>6. OnDisk'
    <3>1. CASE files' = [files EXCEPT ![m] = Extend(@, new)]
      BY <3>1, <2>1, <2>4, FilesStep DEF Right
    <3>2. CASE UNCHANGED files
      BY <3>2, <2>1 DEF OnDisk
    <3> QED BY <3>1, <3>2, <2>1
  <2>7. InCache'
    <3>1. CASE cache' = Inserted(m, new)
      BY <3>1, <2>1, <2>4, InsertedStep
    <3>2. CASE UNCHANGED cache
      BY <3>2, <2>1 DEF InCache
    <3> QED BY <3>1, <3>2, <2>1
  <2>8. Carrying'
    BY <2>1, <2>2 DEF Carrying, s
  <2> QED BY <2>5, <2>6, <2>7, <2>8
<1>3. CASE CompactEnd
  BY <1>3 DEF CompactEnd, store, Numbered, OnDisk, InCache, InRuns, InRun, Carrying, Rows
<1> QED BY <1>1, <1>2, <1>3

-------------------------------------------------------------------------------
(* Queries, crashes and rot *)

LEMMA LoadedStep ==
  ASSUME OnDisk, InCache, NEW m \in Model, NEW snap, UNCHANGED passages,
         cache' = [cache EXCEPT ![m] = Loaded(m, snap)]
  PROVE  InCache'
<1>1. Right(Tables(m, snap), passages)
  BY RightTables
<1> QED BY <1>1 DEF InCache, Loaded

LEMMA OtherSteps ==
  ASSUME IInv,
         (\E m \in Model : Query(m)) \/ Crash \/ (\E m \in Model : \E s \in segments : Rot(m, s))
  PROVE  IInv'
<1> USE DEF IInv
<1>1. UNCHANGED <<passages, segments, dead>>
  BY DEF Query, Crash, Rot, store
<1>2. Numbered'
  BY <1>1 DEF Numbered, Rows
<1>3. ASSUME NEW m \in Model, Query(m) PROVE IInv'
  <2>1. InCache'
    BY <1>1, <1>3, LoadedStep DEF Query
  <2> QED BY <1>1, <1>2, <1>3, <2>1 DEF Query, OnDisk, InRuns, InRun, Carrying
<1>4. CASE Crash
  BY <1>1, <1>2, <1>4 DEF Crash, OnDisk, InCache, InRuns, InRun, Carrying
<1>5. ASSUME NEW m \in Model, NEW s \in segments, Rot(m, s) PROVE IInv'
  <2> DEFINE T == One(s, Broken)
  <2>1. /\ DOMAIN T \subseteq DOMAIN passages /\ \A x \in DOMAIN T : T[x] = Broken
        /\ files' = [files EXCEPT ![m] = Extend(@, T)] /\ UNCHANGED <<cache, run, compacting>>
    BY <1>5 DEF Rot, One, Numbered
  <2> HIDE DEF T
  <2>2. OnDisk'
    BY <1>1, <2>1, FilesStep
  <2> QED BY <1>1, <1>2, <2>1, <2>2 DEF InCache, InRuns, InRun, Carrying
<1> QED BY <1>3, <1>4, <1>5

-------------------------------------------------------------------------------
(* An embedding run *)

\* What holds of the run itself is enough when the others go on, disturbed or not.
LEMMA RunStep ==
  ASSUME IInv, NEW r \in Run, UNCHANGED <<passages, segments, dead, compacting>>,
         DOMAIN run' = Run, InRun(r)',
         \A o \in Run : o # r => run'[o] = run[o] \/ run'[o] = Disturbed[o]
  PROVE  (Numbered /\ InRuns /\ Carrying)'
<1>1. \A o \in Run : o # r => InRun(o)'
  BY DisturbedRun DEF IInv
<1> QED BY <1>1 DEF IInv, Numbered, InRuns, Carrying, Rows

LEMMA StagedSegments ==
  ASSUME NEW tables, NEW snap
  PROVE  {a[1] : a \in Lacking(tables, snap)} \subseteq snap.segments
BY DEF Lacking, Passages

LEMMA ProceedStep ==
  ASSUME IInv, NEW r \in Run, Proceed(r)
  PROVE  IInv'
<1> USE DEF IInv
<1>1. UNCHANGED <<passages, segments, dead, compacting>>
  BY DEF Proceed, Start, Load, EmbedBatch, Finish, WriteSidecar, Insert, PruneOthers, store
<1>2. DOMAIN run = Run /\ InRun(r)
  BY DEF InRuns
<1>3. ASSUME NEW m \in Model, Start(r, m) PROVE IInv'
  <2>1. /\ DOMAIN run' = Run /\ UNCHANGED <<files, cache>>
        /\ run'[r] = [pc |-> "load", model |-> m, snap |-> Snapshot,
                      alone |-> compacting = None /\ \A o \in Run : run[o] = Idle]
        /\ \A o \in Run : o # r => run'[o] = Disturbed[o]
    BY <1>3 DEF Start
  <2>2. Snapshot.segments \subseteq DOMAIN passages
    BY DEF Snapshot, Numbered
  <2>3. InRun(r)'
    BY <1>1, <2>1, <2>2 DEF InRun
  <2> QED BY <1>1, <2>1, <2>3, RunStep DEF OnDisk, InCache
<1>4. ASSUME NEW l, run' = [run EXCEPT ![r] = l]
      PROVE  /\ DOMAIN run' = Run /\ run'[r] = l
             /\ \A o \in Run : o # r => run'[o] = run[o]
  BY <1>2, <1>4
<1>5. CASE Load(r)
  <2> DEFINE m == run[r].model
             snap == run[r].snap
             existing == Tables(m, snap)
             lacking == Lacking(existing, snap)
             work == Ordered(Firsts({a \in lacking : TextAt(a) \notin Vectors(existing)}), Before)
             texts == [i \in DOMAIN work |-> TextAt(work[i])]
             l == [pc |-> "embed", model |-> m, snap |-> snap, alone |-> run[r].alone,
                   existing |-> existing, staged |-> {a[1] : a \in lacking},
                   queue |-> SubSeq(texts, 1, Min({MaxPassages, Len(texts)})),
                   vectors |-> Vectors(existing), failed |-> FALSE]
  <2>1. /\ run[r].pc = "load" /\ run' = [run EXCEPT ![r] = l]
        /\ cache' = [cache EXCEPT ![m] = Loaded(m, snap)] /\ UNCHANGED files
    BY <1>5 DEF Load, At, store
  <2>2. m \in Model /\ snap.segments \subseteq DOMAIN passages
    BY <1>2, <2>1 DEF InRun, Idle
  <2>3. Right(existing, passages)
    BY <2>2, RightTables
  <2>4. {a[1] : a \in lacking} \subseteq snap.segments
    BY StagedSegments
  <2> HIDE DEF texts, work, lacking, existing
  <2>5. InRun(r)'
    <3>1. run'[r] = l
      BY <1>4, <2>1
    <3> QED BY <1>1, <2>2, <2>3, <2>4, <3>1 DEF InRun
  <2>6. InCache'
    BY <1>1, <2>1, <2>2, LoadedStep
  <2> QED BY <1>1, <1>4, <2>1, <2>5, <2>6, RunStep DEF OnDisk
<1>6. CASE EmbedBatch(r)
  <2> DEFINE n == Min({Batch, Len(run[r].queue)})
             got == Quantized(ToSet(SubSeq(run[r].queue, 1, n)))
             rest == SubSeq(run[r].queue, n + 1, Len(run[r].queue))
             more == run[r].vectors \cup got
             goOn == [run[r] EXCEPT !.vectors = more, !.queue = rest]
  <2>1. /\ run[r].pc = "embed" /\ UNCHANGED <<files, cache>>
        /\ \/ run' = [run EXCEPT ![r] = goOn]
           \/ run' = [run EXCEPT ![r] = [run[r] EXCEPT !.queue = <<>>, !.failed = TRUE]]
           \/ run' = [run EXCEPT ![r] = [goOn EXCEPT !.queue = <<>>]]
    BY <1>2, <1>6 DEF EmbedBatch, At, store
  <2> HIDE DEF rest, got, more
  <2>2. /\ DOMAIN run' = Run /\ \A o \in Run : o # r => run'[o] = run[o]
        /\ DOMAIN run'[r] = DOMAIN run[r]
        /\ \A f \in DOMAIN run[r] : f \notin {"queue", "vectors", "failed"} => run'[r][f] = run[r][f]
    BY <1>2, <2>1
  <2>3. InRun(r)'
    BY <1>1, <1>2, <2>1, <2>2 DEF InRun, Idle
  <2> QED BY <1>1, <2>1, <2>2, <2>3, RunStep DEF OnDisk, InCache
<1>7. CASE Finish(r)
  <2> DEFINE c == run[r]
             l == [pc |-> "write", model |-> c.model, snap |-> c.snap, alone |-> c.alone,
                   failed |-> c.failed, existing |-> c.existing,
                   tables |-> Fill(c.existing, c.staged, c.vectors, c.snap), todo |-> c.staged]
  <2>1. c.pc = "embed" /\ run' = [run EXCEPT ![r] = l] /\ UNCHANGED <<files, cache>>
    BY <1>7 DEF Finish, At, store
  <2>2. /\ c.model \in Model /\ c.snap.segments \subseteq DOMAIN passages
        /\ Right(c.existing, passages) /\ c.staged \subseteq DOMAIN passages
        /\ c.staged \subseteq c.snap.segments
    BY <1>2, <2>1 DEF InRun, Idle
  <2>3. Right(l.tables, passages) /\ DOMAIN l.tables = c.staged
    BY <2>2, RightFill
  <2>4. InRun(r)'
    <3>1. run'[r] = l
      BY <1>4, <2>1
    <3> HIDE DEF c
    <3> QED BY <1>1, <2>2, <2>3, <3>1 DEF InRun
  <2> QED BY <1>1, <1>4, <2>1, <2>4, RunStep DEF OnDisk, InCache
<1>8. ASSUME NEW s \in DOMAIN passages, WriteSidecar(r, s) PROVE IInv'
  <2> DEFINE m == run[r].model
             T == One(s, run[r].tables[s])
  <2>1. /\ run[r].pc = "write" /\ s \in run[r].todo /\ UNCHANGED cache
        /\ \/ /\ files' = [files EXCEPT ![m] = Extend(@, T)]
              /\ run' = [run EXCEPT ![r] = [run[r] EXCEPT !.todo = run[r].todo \ {s}]]
           \/ run' = [run EXCEPT ![r] = Idle] /\ UNCHANGED files
    BY <1>8 DEF WriteSidecar, At, store
  <2>2. /\ m \in Model /\ Right(run[r].tables, passages) /\ s \in DOMAIN run[r].tables
        /\ run[r] # Idle
    BY <1>2, <2>1 DEF InRun, Idle
  <2>3. Right(T, passages)
    BY <2>2 DEF One, Right
  <2> HIDE DEF T
  <2>4. OnDisk'
    <3>1. CASE files' = [files EXCEPT ![m] = Extend(@, T)]
      BY <3>1, <1>1, <2>2, <2>3, FilesStep DEF Right
    <3>2. CASE UNCHANGED files
      BY <3>2, <1>1 DEF OnDisk
    <3> QED BY <3>1, <3>2, <2>1
  <2>5. InRun(r)'
    <3>1. CASE run' = [run EXCEPT ![r] = Idle]
      <4>1. run'[r] = Idle
        BY <3>1, <1>4
      <4> QED BY <4>1 DEF InRun
    <3>2. CASE run' = [run EXCEPT ![r] = [run[r] EXCEPT !.todo = run[r].todo \ {s}]]
      <4>1. run'[r] = [run[r] EXCEPT !.todo = run[r].todo \ {s}]
        BY <3>2, <1>4
      <4> QED BY <4>1, <1>1, <1>2, <2>1, <2>2 DEF InRun
    <3> QED BY <3>1, <3>2, <2>1
  <2>6. DOMAIN run' = Run /\ \A o \in Run : o # r => run'[o] = run[o]
    BY <2>1, <1>2
  <2> QED BY <1>1, <2>1, <2>4, <2>5, <2>6, RunStep DEF InCache
<1>9. CASE Insert(r)
  <2>1. /\ run[r].pc = "write" /\ cache' = Inserted(run[r].model, run[r].tables) /\ UNCHANGED files
        /\ run' = [run EXCEPT ![r] = [run[r] EXCEPT !.pc = "prune"]]
    BY <1>9 DEF Insert, At, store
  <2>2. /\ run[r].model \in Model /\ Right(run[r].tables, passages) /\ run[r] # Idle
    BY <1>2, <2>1 DEF InRun, Idle
  <2>3. InCache'
    BY <1>1, <2>1, <2>2, InsertedStep
  <2>4. InRun(r)'
    <3>1. run'[r] = [run[r] EXCEPT !.pc = "prune"]
      BY <1>4, <2>1
    <3> QED BY <3>1, <1>1, <1>2, <2>1, <2>2 DEF InRun
  <2> QED BY <1>1, <1>4, <2>1, <2>3, <2>4, RunStep DEF OnDisk
<1>10. CASE PruneOthers(r)
  <2>1. /\ run' = [run EXCEPT ![r] = Idle] /\ UNCHANGED cache
        /\ \/ UNCHANGED files
           \/ files' = [m \in Model |-> IF m = run[r].model THEN files[m] ELSE NoTables]
    BY <1>10 DEF PruneOthers, store
  <2>2. InRun(r)'
    <3>1. run'[r] = Idle
      BY <1>4, <2>1
    <3> QED BY <3>1 DEF InRun
  <2>3. OnDisk'
    BY <1>1, <2>1 DEF OnDisk, NoTables
  <2> QED BY <1>1, <1>4, <2>1, <2>2, <2>3, RunStep DEF InCache
<1> QED BY <1>3, <1>5, <1>6, <1>7, <1>8, <1>9, <1>10 DEF Proceed

-------------------------------------------------------------------------------
(* The inductive invariant of the first part, and its theorems *)

LEMMA InitIInv == Init => IInv
<1> SUFFICES ASSUME Init PROVE IInv
  OBVIOUS
<1>1. passages \in Seq({}) /\ segments = {} /\ dead = {}
  BY DEF Init
<1>2. Numbered
  BY <1>1 DEF Numbered
<1>3. OnDisk /\ InCache
  BY DEF Init, OnDisk, InCache, NoTables
<1>4. InRuns /\ Carrying
  BY DEF Init, InRuns, InRun, Carrying
<1> QED BY <1>2, <1>3, <1>4 DEF IInv

LEMMA StepIInv ==
  ASSUME IInv, [Next]_vars
  PROVE  IInv'
<1>1. CASE UNCHANGED vars
  BY <1>1 DEF vars, store, IInv, Numbered, OnDisk, InCache, InRuns, InRun, Carrying, Rows
<1>2. CASE Host \/ CompactCommit
  BY <1>2, WriteSteps
<1>3. CASE (\E S \in SUBSET segments : CompactCollect(S)) \/ (\E m \in Model : CompactCarry(m)) \/ CompactEnd
  BY <1>3, CompactSteps
<1>4. CASE (\E m \in Model : Query(m)) \/ Crash \/ (\E m \in Model : \E s \in segments : Rot(m, s))
  BY <1>4, OtherSteps
<1>5. CASE \E r \in Run : Proceed(r)
  BY <1>5, ProceedStep
<1> QED BY <1>1, <1>2, <1>3, <1>4, <1>5 DEF Next, Compact

\* Sidecars are of segments that were written and have their rows, or are broken and
\* count as missing; a run writes only tables it has.
THEOREM TypeCorrect == Spec => []TypeOK
<1>1. IInv => TypeOK
  <2> SUFFICES ASSUME IInv PROVE TypeOK
    OBVIOUS
  <2>1. dead \subseteq UNION {{s} \X Rows(s) : s \in segments}
    BY DEF IInv, Numbered
  <2>2. \A m \in Model : \A s \in DOMAIN files[m] :
           s \in DOMAIN passages /\ (files[m][s] = Broken \/ DOMAIN files[m][s] = Rows(s))
    BY DEF IInv, OnDisk, RightTable, Rows
  <2>3. \A r \in Run : At(r, "write") => run[r].todo \subseteq DOMAIN run[r].tables
    BY DEF IInv, InRuns, InRun, At, Idle
  <2> QED BY <2>1, <2>2, <2>3 DEF TypeOK
<1> QED BY <1>1, InitIInv, StepIInv, PTL DEF Spec

\* A query never compares a passage with the vector of another text: not after a run that
\* reused vectors of equal texts, a compaction that moved passages to other rows of another
\* segment, a table loaded for an earlier generation, a failed write, a crash or rot.
THEOREM VectorsAreOwn == Spec => []VectorOfItsText
<1>1. IInv => VectorOfItsText
  <2> SUFFICES ASSUME IInv, NEW m \in Model
               PROVE  LET loaded == IF cache[m] = None THEN NoTables ELSE cache[m].tables
                          right(tables) == \A s \in DOMAIN tables : \A p \in DOMAIN tables[s] :
                                              tables[s][p] \in {None, passages[s][p].text}
                      IN  right(Decoded(m)) /\ right(loaded)
    BY DEF VectorOfItsText
  <2>1. Right(Decoded(m), passages)
    BY RightDecoded DEF IInv
  <2>2. cache[m] # None => Right(cache[m].tables, passages)
    BY DEF IInv, InCache
  <2>3. DOMAIN NoTables = {}
    BY DEF NoTables
  <2> QED BY <2>1, <2>2, <2>3 DEF Right, RightTable
<1> QED BY <1>1, InitIInv, StepIInv, PTL DEF Spec

-------------------------------------------------------------------------------
(* Orders *)

\* Induction: a set that has 0 and every successor has every number.
LEMMA AllNumbers ==
  ASSUME NEW T, 0 \in T, \A n \in Nat : n \in T => n + 1 \in T
  PROVE  \A n \in Nat : n \in T
<1> DEFINE Left == Nat \ T
<1> SUFFICES ASSUME Left # {} PROVE FALSE
  OBVIOUS
<1>1. Left \subseteq Nat
  OBVIOUS
<1> HIDE DEF Left
<1>2. PICK n \in Left : \A m \in Left : <<m, n>> \notin OpToRel(<, Nat)
  BY <1>1, NatLessThanWellFounded, WFMin, Zenon
<1>3. \A m \in Left : m \in Nat /\ n \in Nat /\ ~(m < n)
  BY <1>1, <1>2, Zenon DEF OpToRel
<1>4. n \in Nat /\ n # 0
  BY <1>1 DEF Left
<1>5. n - 1 \in Nat /\ (n - 1) + 1 = n /\ n - 1 < n
  BY <1>4
<1>6. n - 1 \in T
  BY <1>3, <1>5 DEF Left
<1> QED BY <1>5, <1>6 DEF Left

\* R puts any two members of S in order.
Orders(R, S) == /\ \A a, b \in S : a = b \/ <<a, b>> \in R \/ <<b, a>> \in R
                /\ \A a, b, c \in S : <<a, b>> \in R /\ <<b, c>> \in R => <<a, c>> \in R
                /\ \A a \in S : <<a, a>> \notin R

LEMMA LastExists ==
  ASSUME NEW S, IsFiniteSet(S), NEW R, Orders(R, S)
  PROVE  \A T \in SUBSET S : T # {} => \E a \in T : \A b \in T : b = a \/ <<b, a>> \in R
<1> DEFINE Ends(T) == \E a \in T : \A b \in T : b = a \/ <<b, a>> \in R
           N == {n \in Nat : \A T \in SUBSET S : Cardinality(T) = n + 1 => Ends(T)}
<1>1. \A T \in SUBSET S : IsFiniteSet(T) /\ Cardinality(T) \in Nat
  BY FS_Subset, FS_CardinalityType
<1>2. 0 \in N
  <2> SUFFICES ASSUME NEW T \in SUBSET S, Cardinality(T) = 1 PROVE Ends(T)
    OBVIOUS
  <2>1. PICK a : T = {a}
    BY <1>1, FS_Singleton
  <2> QED BY <2>1
<1>3. ASSUME NEW n \in Nat, n \in N PROVE n + 1 \in N
  <2> SUFFICES ASSUME NEW T \in SUBSET S, Cardinality(T) = (n + 1) + 1 PROVE Ends(T)
    OBVIOUS
  <2>1. PICK a : a \in T
    BY FS_EmptySet
  <2>2. Cardinality(T \ {a}) = n + 1
    BY <1>1, <2>1, FS_RemoveElement
  <2>3. PICK e \in T \ {a} : \A b \in T \ {a} : b = e \/ <<b, e>> \in R
    BY <1>3, <2>2
  <2>4. CASE <<a, e>> \in R
    BY <2>3, <2>4
  <2>5. CASE <<e, a>> \in R
    BY <2>1, <2>3, <2>5 DEF Orders
  <2> QED BY <2>1, <2>3, <2>4, <2>5 DEF Orders
<1> HIDE DEF N
<1>4. \A n \in Nat : n \in N
  BY <1>2, <1>3, AllNumbers
<1>5. ASSUME NEW T \in SUBSET S, T # {} PROVE Ends(T)
  <2>1. Cardinality(T) \in Nat /\ Cardinality(T) # 0
    BY <1>1, <1>5, FS_EmptySet
  <2>2. Cardinality(T) - 1 \in N /\ (Cardinality(T) - 1) + 1 = Cardinality(T)
    BY <1>4, <2>1
  <2> QED BY <2>2 DEF N
<1> QED BY <1>5

Sorted(q, n, R) == \A i, j \in 1 .. n : i < j => <<q[i], q[j]>> \in R

LEMMA SortExists ==
  ASSUME NEW S, IsFiniteSet(S), NEW R, Orders(R, S)
  PROVE  \E q \in [1 .. Cardinality(S) -> S] : Sorted(q, Cardinality(S), R)
<1> DEFINE Sorts(n, T) == \E q \in [1 .. n -> T] : Sorted(q, n, R)
           N == {n \in Nat : \A T \in SUBSET S : Cardinality(T) = n => Sorts(n, T)}
<1>1. \A T \in SUBSET S : IsFiniteSet(T) /\ Cardinality(T) \in Nat
  BY FS_Subset, FS_CardinalityType
<1>2. 0 \in N
  <2> SUFFICES ASSUME NEW T \in SUBSET S PROVE Sorts(0, T)
    OBVIOUS
  <2>1. [i \in 1 .. 0 |-> i] \in [1 .. 0 -> T] /\ Sorted([i \in 1 .. 0 |-> i], 0, R)
    BY DEF Sorted
  <2> QED BY <2>1
<1>3. ASSUME NEW n \in Nat, n \in N PROVE n + 1 \in N
  <2> SUFFICES ASSUME NEW T \in SUBSET S, Cardinality(T) = n + 1 PROVE Sorts(n + 1, T)
    OBVIOUS
  <2>1. T # {}
    BY FS_EmptySet
  <2>2. PICK a \in T : \A b \in T : b = a \/ <<b, a>> \in R
    BY <2>1, LastExists
  <2>3. Cardinality(T \ {a}) = n
    BY <1>1, FS_RemoveElement
  <2>4. PICK q \in [1 .. n -> T \ {a}] : Sorted(q, n, R)
    BY <1>3, <2>3
  <2> DEFINE p == [i \in 1 .. n + 1 |-> IF i = n + 1 THEN a ELSE q[i]]
  <2>5. \A i \in 1 .. n + 1 : i # n + 1 => i \in 1 .. n /\ q[i] \in T \ {a}
    BY <2>4
  <2>6. p \in [1 .. n + 1 -> T]
    BY <2>5
  <2>7. ASSUME NEW i \in 1 .. n + 1, NEW j \in 1 .. n + 1, i < j PROVE <<p[i], p[j]>> \in R
    <3>1. i # n + 1 /\ p[i] = q[i] /\ i \in 1 .. n /\ q[i] \in T /\ q[i] # a
      BY <2>5, <2>7
    <3>2. CASE j = n + 1
      BY <2>2, <3>1, <3>2
    <3>3. CASE j # n + 1
      BY <2>4, <2>5, <2>7, <3>1, <3>3 DEF Sorted
    <3> QED BY <3>2, <3>3
  <2> HIDE DEF p
  <2>8. Sorted(p, n + 1, R)
    BY <2>7 DEF Sorted
  <2> QED BY <2>6, <2>8
<1> HIDE DEF N
<1>4. \A n \in Nat : n \in N
  BY <1>2, <1>3, AllNumbers
<1> QED BY <1>1, <1>4 DEF N

\* The passages of segments that were written are finitely many.
LEMMA FiniteRows ==
  ASSUME passages \in Seq(Seq([doc : Doc, text : Text])), NEW S \in SUBSET DOMAIN passages,
         NEW A, \A a \in A : \E s \in S : \E p \in Rows(s) : a = <<s, p>>
  PROVE  /\ IsFiniteSet(A)
         /\ \A a \in A : /\ a = <<a[1], a[2]>> /\ a[1] \in Nat /\ a[2] \in Nat
                         /\ passages[a[1]][a[2]] \in [doc : Doc, text : Text]
<1> DEFINE f == [s \in S |-> {s} \X Rows(s)]
           I == {f[s] : s \in S}
<1> DEFINE Row == [doc : Doc, text : Text]
<1>1. /\ DOMAIN passages = 1 .. Len(passages) /\ Len(passages) \in Nat
      /\ \A s \in S : /\ s \in Nat /\ Len(passages[s]) \in Nat /\ Rows(s) = 1 .. Len(passages[s])
                      /\ \A p \in Rows(s) : passages[s][p] \in Row
  <2>1. passages \in Seq(Seq(Row))
    OBVIOUS
  <2> HIDE DEF Row
  <2>2. DOMAIN passages = 1 .. Len(passages) /\ Len(passages) \in Nat
    BY <2>1
  <2>3. ASSUME NEW s \in S PROVE s \in Nat /\ passages[s] \in Seq(Row)
    BY <2>1, <2>2
  <2>4. \A t \in Seq(Row) : Len(t) \in Nat /\ \A p \in 1 .. Len(t) : t[p] \in Row
    OBVIOUS
  <2> QED BY <2>2, <2>3, <2>4 DEF Rows
<1> HIDE DEF Row
<1>2. IsFiniteSet(S)
  <2>1. IsFiniteSet(1 .. Len(passages))
    BY <1>1, FS_Interval
  <2> QED BY <1>1, <2>1, FS_Subset
<1>3. ASSUME NEW s \in S PROVE IsFiniteSet(f[s])
  <2>1. IsFiniteSet(1 .. Len(passages[s]))
    BY <1>1, FS_Interval
  <2>2. IsFiniteSet({s}) /\ IsFiniteSet(Rows(s))
    BY <1>1, <2>1, FS_Singleton
  <2> QED BY <2>2, FS_Product
<1>4. IsFiniteSet(I)
  <2>1. f \in Surjection(S, I)
    BY DEF Surjection
  <2> QED BY <1>2, <2>1, FS_Surjection
<1>5. IsFiniteSet(UNION I)
  BY <1>3, <1>4, FS_UNION
<1>6. A \subseteq UNION I
  BY DEF I, f
<1>7. IsFiniteSet(A)
  BY <1>5, <1>6, FS_Subset
<1> QED BY <1>1, <1>7 DEF Row

\* What Ordered picks enumerates the set.
LEMMA EarlierOrdered ==
  ASSUME NEW S, IsFiniteSet(S), \A a \in S : a = <<a[1], a[2]>> /\ a[1] \in Nat /\ a[2] \in Nat
  PROVE  Cardinality(S) \in Nat /\ Ordered(S, Earlier) \in [1 .. Cardinality(S) -> S]
<1> DEFINE R == {e \in S \X S : Earlier(e[1], e[2])}
           n == Cardinality(S)
<1>1. \A a, b \in S : <<a, b>> \in R <=> Earlier(a, b)
  OBVIOUS
<1>2. Orders(R, S)
  <2>1. ASSUME NEW a \in S, NEW b \in S, ~Earlier(a, b), ~Earlier(b, a) PROVE a = b
    BY <2>1 DEF Earlier
  <2>2. ASSUME NEW a \in S, NEW b \in S, NEW c \in S, Earlier(a, b), Earlier(b, c)
        PROVE  Earlier(a, c)
    BY <2>2 DEF Earlier
  <2>3. \A a \in S : ~Earlier(a, a)
    BY DEF Earlier
  <2> HIDE DEF R
  <2> QED BY <1>1, <2>1, <2>2, <2>3 DEF Orders
<1>3. \E p \in [1 .. n -> S] : \A i, j \in 1 .. n : i < j => Earlier(p[i], p[j])
  <2> HIDE DEF R
  <2>1. PICK p \in [1 .. n -> S] : Sorted(p, n, R)
    BY <1>2, SortExists
  <2>2. ASSUME NEW i \in 1 .. n, NEW j \in 1 .. n, i < j PROVE Earlier(p[i], p[j])
    <3>1. <<p[i], p[j]>> \in R
      BY <2>1, <2>2 DEF Sorted
    <3>2. p[i] \in S /\ p[j] \in S
      BY <2>1
    <3> QED BY <1>1, <3>1, <3>2
  <2> QED BY <2>2
<1> QED BY <1>3, FS_CardinalityType DEF Ordered

LEMMA BeforeOrdered ==
  ASSUME NEW S, IsFiniteSet(S),
         \A a \in S : /\ a = <<a[1], a[2]>> /\ a[1] \in Nat /\ a[2] \in Nat
                      /\ passages[a[1]][a[2]] \in [doc : Doc, text : Text]
  PROVE  Cardinality(S) \in Nat /\ Ordered(S, Before) \in [1 .. Cardinality(S) -> S]
<1> DEFINE R == {e \in S \X S : Before(e[1], e[2])}
           n == Cardinality(S)
<1>1. \A a, b \in S : <<a, b>> \in R <=> Before(a, b)
  OBVIOUS
<1>2. Orders(R, S)
  <2>1. \A a \in S : Rank[TextAt(a)] \in Nat
    BY EmbedAssumption DEF TextAt
  <2>2. ASSUME NEW a \in S, NEW b \in S, ~Before(a, b), ~Before(b, a) PROVE a = b
    BY <2>1, <2>2 DEF Before, Earlier
  <2>3. ASSUME NEW a \in S, NEW b \in S, NEW c \in S, Before(a, b), Before(b, c)
        PROVE  Before(a, c)
    BY <2>1, <2>3 DEF Before, Earlier
  <2>4. \A a \in S : ~Before(a, a)
    BY <2>1 DEF Before, Earlier
  <2> HIDE DEF R
  <2> QED BY <1>1, <2>2, <2>3, <2>4 DEF Orders
<1>3. \E p \in [1 .. n -> S] : \A i, j \in 1 .. n : i < j => Before(p[i], p[j])
  <2> HIDE DEF R
  <2>1. PICK p \in [1 .. n -> S] : Sorted(p, n, R)
    BY <1>2, SortExists
  <2>2. ASSUME NEW i \in 1 .. n, NEW j \in 1 .. n, i < j PROVE Before(p[i], p[j])
    <3>1. <<p[i], p[j]>> \in R
      BY <2>1, <2>2 DEF Sorted
    <3>2. p[i] \in S /\ p[j] \in S
      BY <2>1
    <3> QED BY <1>1, <3>1, <3>2
  <2> QED BY <2>2
<1> QED BY <1>3, FS_CardinalityType DEF Ordered

-------------------------------------------------------------------------------
(* Tables compared: on disk (D or F), in a cache entry (c.tables), found by   *)
(* a run (E) and made by it (T)                                               *)

\* Every passage of X has a vector in the tables T of the segments S.
AllIn(X, T, S) == \A a \in X : /\ a[1] \in DOMAIN T \cap S
                              /\ a[2] \in DOMAIN T[a[1]] /\ T[a[1]][a[2]] # None
\* U has every vector that T has for S, in the same place.
Below(T, U, S) == \A s \in DOMAIN T \cap S : \A p \in DOMAIN T[s] :
    T[s][p] # None => s \in DOMAIN U /\ p \in DOMAIN U[s] /\ U[s][p] = T[s][p]
\* T and U are the same tables for S.
Same(T, U, S) == \A s \in S : (s \in DOMAIN T <=> s \in DOMAIN U) /\ (s \in DOMAIN T => U[s] = T[s])

\* What Merged, Tables and Loaded make of a cache entry and the tables on disk.
Mix(c, D) == IF c = None THEN D ELSE Extend(D, c.tables)
View(c, D, S, g) == IF c # None /\ c.generation = g THEN c.tables ELSE Kept(Mix(c, D), S)
Reload(c, D, S, g) == [generation |-> g, tables |-> View(c, D, S, g)]

\* What is loaded for S is on disk.
OnFile(c, D, S) == c # None => Below(c.tables, D, S)
\* A run that sees the segments S at generation g finds a vector for every passage of X.
Held(X, c, D, S, g) == /\ AllIn(X, Mix(c, D), S)
                       /\ c # None /\ c.generation = g => AllIn(X, c.tables, S)

LEMMA NotNone == ASSUME NEW g, NEW T PROVE [generation |-> g, tables |-> T] # None
BY DEF None

LEMMA AllInBelow ==
  ASSUME NEW X, NEW T, NEW U, NEW S, AllIn(X, T, S), Below(T, U, S)
  PROVE  AllIn(X, U, S)
BY DEF AllIn, Below

LEMMA AllInMore ==
  ASSUME NEW X, NEW Y, NEW T, NEW S, NEW Z, AllIn(X, T, S), Y \subseteq X, S \subseteq Z
  PROVE  AllIn(Y, T, Z)
BY DEF AllIn

LEMMA BelowLess ==
  ASSUME NEW T, NEW U, NEW S, NEW Z, Below(T, U, S), Z \subseteq S
  PROVE  Below(T, U, Z)
BY DEF Below

LEMMA BelowBelow ==
  ASSUME NEW T, NEW U, NEW V, NEW S, Below(T, U, S), Below(U, V, S)
  PROVE  Below(T, V, S)
BY DEF Below

LEMMA SameBelow ==
  ASSUME NEW T, NEW U, NEW S, Same(T, U, S)
  PROVE  Below(T, U, S) /\ Below(U, T, S)
BY DEF Below, Same

\* Tables loaded over those on disk.
LEMMA MixBelow ==
  ASSUME NEW c, NEW D, NEW S
  PROVE  /\ OnFile(c, D, S) => Below(Mix(c, D), D, S)
         /\ c # None => Below(c.tables, Mix(c, D), S)
         /\ \A U : (c # None => Below(c.tables, U, S)) /\ Below(D, U, S) => Below(Mix(c, D), U, S)
<1>1. ASSUME c = None PROVE Mix(c, D) = D
  BY <1>1 DEF Mix
<1>2. ASSUME c # None
      PROVE  /\ DOMAIN Mix(c, D) = DOMAIN D \cup DOMAIN c.tables
             /\ \A s \in DOMAIN Mix(c, D) :
                   Mix(c, D)[s] = IF s \in DOMAIN c.tables THEN c.tables[s] ELSE D[s]
  BY <1>2 DEF Mix, Extend
<1>3. CASE c = None
  BY <1>1, <1>3 DEF Below
<1>4. CASE c # None
  BY <1>2, <1>4 DEF Below, OnFile
<1> QED BY <1>3, <1>4

\* To load tables again loses nothing of what was loaded, and finds what is on disk.
LEMMA ReloadOnFile ==
  ASSUME NEW c, NEW D, NEW S, NEW Z, NEW g, OnFile(c, D, S)
  PROVE  OnFile(Reload(c, D, Z, g), D, S)
<1>1. Below(Mix(c, D), D, S)
  BY MixBelow
<1>2. Below(Kept(Mix(c, D), Z), D, S)
  BY <1>1 DEF Below, Kept
<1> QED BY <1>2 DEF OnFile, Reload, View

LEMMA ReloadHeld ==
  ASSUME NEW X, NEW c, NEW D, NEW S, NEW g, NEW Z, NEW h, OnFile(c, D, S),
         Held(X, c, D, S, g), h = g => S \subseteq Z
  PROVE  Held(X, Reload(c, D, Z, h), D, S, g)
<1> DEFINE n == Reload(c, D, Z, h)
<1>1. n # None /\ n.tables = View(c, D, Z, h) /\ n.generation = h
  BY NotNone DEF Reload
<1>2. CASE c # None /\ c.generation = h
  BY <1>1, <1>2 DEF View, Held, Mix
<1>3. CASE ~(c # None /\ c.generation = h)
  <2> DEFINE M == Mix(c, D)
  <2>1. n.tables = Kept(M, Z)
    BY <1>1, <1>3 DEF View
  <2>2. Below(M, D, S) /\ AllIn(X, M, S)
    BY MixBelow DEF Held
  <2> HIDE DEF M, n
  <2>3. /\ DOMAIN Mix(n, D) = DOMAIN D \cup (DOMAIN M \cap Z)
        /\ \A s \in DOMAIN Mix(n, D) : Mix(n, D)[s] = IF s \in DOMAIN M \cap Z THEN M[s] ELSE D[s]
    BY <1>1, <2>1 DEF Mix, Extend, Kept
  <2>4. Below(M, Mix(n, D), S)
    BY <2>2, <2>3 DEF Below
  <2>5. AllIn(X, Mix(n, D), S)
    BY <2>2, <2>4, AllInBelow
  <2>6. h = g => AllIn(X, n.tables, S)
    BY <2>1, <2>2 DEF AllIn, Kept
  <2> QED BY <1>1, <2>5, <2>6 DEF Held, n
<1> QED BY <1>2, <1>3

LEMMA ViewHeld ==
  ASSUME NEW X, NEW c, NEW D, NEW S, NEW g, Held(X, c, D, S, g)
  PROVE  AllIn(X, View(c, D, S, g), S)
BY DEF View, Held, AllIn, Kept

LEMMA ReloadKeeps ==
  ASSUME NEW c, NEW D, NEW E, NEW S, NEW Z, NEW g, c # None, Below(E, c.tables, S), S \subseteq Z
  PROVE  Below(E, Reload(c, D, Z, g).tables, S)
<1>1. Below(E, Mix(c, D), S)
  BY MixBelow, BelowBelow
<1>2. Below(E, Kept(Mix(c, D), Z), S)
  BY <1>1 DEF Below, Kept
<1> QED BY <1>2 DEF Reload, View

LEMMA ReloadBelow ==
  ASSUME NEW c, NEW D, NEW T, NEW S, NEW Z, NEW g, c # None => Below(c.tables, T, S), Below(D, T, S)
  PROVE  Below(Reload(c, D, Z, g).tables, T, S)
<1>1. Below(Mix(c, D), T, S)
  BY MixBelow
<1>2. Below(Kept(Mix(c, D), Z), T, S)
  BY <1>1 DEF Below, Kept
<1> QED BY <1>2 DEF Reload, View

\* An entry with the tables T inserted.
Put1(c, T) == [c EXCEPT !.tables = Extend(c.tables, T)]
Entry(c) == DOMAIN c = {"generation", "tables"}

LEMMA Put1Is ==
  ASSUME NEW c, NEW T, Entry(c)
  PROVE  /\ Entry(Put1(c, T)) /\ Put1(c, T).generation = c.generation /\ Put1(c, T) # None
         /\ DOMAIN Put1(c, T).tables = DOMAIN c.tables \cup DOMAIN T
         /\ \A s \in DOMAIN Put1(c, T).tables :
               Put1(c, T).tables[s] = IF s \in DOMAIN T THEN T[s] ELSE c.tables[s]
<1>1. Put1(c, T).tables = Extend(c.tables, T)
  BY DEF Put1, Entry
<1>2. DOMAIN Put1(c, T) = {"generation", "tables"} /\ Put1(c, T).generation = c.generation
  BY DEF Put1, Entry
<1>3. DOMAIN None = {"absent"}
  BY DEF None
<1>4. "absent" \notin {"generation", "tables"}
  OBVIOUS
<1>5. Put1(c, T) # None
  BY <1>2, <1>3, <1>4
<1> QED BY <1>1, <1>2, <1>5 DEF Entry, Extend

\* A run inserts what it has written, which nobody wrote over: nothing is lost.
LEMMA InsertHeld ==
  ASSUME NEW X, NEW c, NEW D, NEW S, NEW g, NEW T, c # None, Entry(c), OnFile(c, D, S),
         \A s \in DOMAIN T \cap S : s \in DOMAIN D /\ D[s] = T[s],
         Below(c.tables, T, DOMAIN T \cap S), Held(X, c, D, S, g)
  PROVE  OnFile(Put1(c, T), D, S) /\ Held(X, Put1(c, T), D, S, g)
<1> DEFINE n == Put1(c, T)
<1>1. /\ n.generation = c.generation /\ n # None /\ DOMAIN n.tables = DOMAIN c.tables \cup DOMAIN T
      /\ \A s \in DOMAIN n.tables : n.tables[s] = IF s \in DOMAIN T THEN T[s] ELSE c.tables[s]
  BY Put1Is
<1> HIDE DEF n
<1>2. OnFile(n, D, S)
  BY <1>1 DEF OnFile, Below
<1>3. Below(c.tables, n.tables, S)
  BY <1>1 DEF Below
<1>4. /\ DOMAIN Mix(n, D) = DOMAIN D \cup DOMAIN n.tables
      /\ \A s \in DOMAIN Mix(n, D) : Mix(n, D)[s] = IF s \in DOMAIN n.tables THEN n.tables[s] ELSE D[s]
  BY <1>1 DEF Mix, Extend
<1>5. /\ DOMAIN Mix(c, D) = DOMAIN D \cup DOMAIN c.tables
      /\ \A s \in DOMAIN Mix(c, D) : Mix(c, D)[s] = IF s \in DOMAIN c.tables THEN c.tables[s] ELSE D[s]
  BY DEF Mix, Extend
<1>6. Below(Mix(c, D), Mix(n, D), S)
  BY <1>1, <1>4, <1>5 DEF Below
<1>7. AllIn(X, Mix(n, D), S) /\ (c.generation = g => AllIn(X, n.tables, S))
  BY <1>3, <1>6, AllInBelow DEF Held
<1> QED BY <1>1, <1>2, <1>7 DEF Held, n

LEMMA InsertKeeps ==
  ASSUME NEW c, NEW E, NEW T, NEW S, Entry(c), Below(E, c.tables, S), Below(E, T, DOMAIN T)
  PROVE  Below(E, Put1(c, T).tables, S) /\ Below(T, Put1(c, T).tables, S)
BY Put1Is DEF Below

\* A sidecar written over another loses none of the texts that the run has found, if what
\* is loaded of that segment has no more than it.
LEMMA WriteHeld ==
  ASSUME NEW X, NEW c, NEW D, NEW F, NEW S, NEW g, NEW E, NEW Z, NEW s,
         c # None, OnFile(c, D, S), Held(X, c, D, S, g), Same(D, F, S \ {s}),
         Below(c.tables, F, {s}), AllIn(X, E, Z), Below(E, c.tables, Z), Z \subseteq S
  PROVE  OnFile(c, F, S) /\ Held(X, c, F, S, g)
<1>1. OnFile(c, F, S)
  BY DEF OnFile, Below, Same
<1>2. AllIn(X, c.tables, S)
  BY AllInBelow, AllInMore
<1>3. AllIn(X, Mix(c, F), S)
  BY <1>2, MixBelow, AllInBelow
<1> QED BY <1>1, <1>3 DEF Held

\* More segments are listed, and nothing of those that were is lost.
LEMMA ListHeld ==
  ASSUME NEW X, NEW Y, NEW c, NEW D, NEW F, NEW S, NEW Z, NEW g, NEW h,
         OnFile(c, D, S), Held(X, c, D, S, g), Y \subseteq X, Same(D, F, S), S \subseteq Z,
         c # None => DOMAIN c.tables \cap Z \subseteq S /\ (c.generation = h => h = g)
  PROVE  OnFile(c, F, Z) /\ Held(Y, c, F, Z, h)
<1>1. OnFile(c, F, Z)
  BY DEF OnFile, Below, Same
<1>2. Below(Mix(c, D), Mix(c, F), S)
  <2>1. CASE c = None
    BY <2>1 DEF Below, Same, Mix
  <2>2. CASE c # None
    BY <2>2 DEF Below, Same, Mix, Extend
  <2> QED BY <2>1, <2>2
<1>3. AllIn(Y, Mix(c, F), Z)
  BY <1>2, AllInBelow, AllInMore DEF Held
<1>4. c # None /\ c.generation = h => AllIn(Y, c.tables, Z)
  BY AllInMore DEF Held
<1> QED BY <1>1, <1>3, <1>4 DEF Held

LEMMA AllInWithin ==
  ASSUME NEW X, NEW Y, NEW T, NEW S, NEW Z, AllIn(X, T, S), Y \subseteq X, \A a \in Y : a[1] \in Z
  PROVE  AllIn(Y, T, Z)
BY DEF AllIn

\* The table of the segment s has the passages of Y there, and the others are found elsewhere.
LEMMA CarryHeld ==
  ASSUME NEW X, NEW Y, NEW c, NEW D, NEW F, NEW S, NEW s, NEW g, s \in DOMAIN F, s \in S,
         OnFile(c, D, S), Held(X, c, D, S, g), Same(D, F, S \ {s}),
         \A a \in Y : \/ a \in X /\ a[1] # s
                      \/ a[1] = s /\ a[2] \in DOMAIN F[s] /\ F[s][a[2]] # None
  PROVE  /\ c = None => OnFile(c, F, S) /\ Held(Y, c, F, S, g)
         /\ Entry(c) => /\ OnFile(Put1(c, One(s, F[s])), F, S)
                        /\ Held(Y, Put1(c, One(s, F[s])), F, S, g)
<1>1. DOMAIN One(s, F[s]) = {s} /\ One(s, F[s])[s] = F[s]
  BY DEF One
<1>2. CASE c = None
  <2>1. AllIn(X, D, S) /\ Mix(c, F) = F
    BY <1>2 DEF Held, Mix
  <2>2. AllIn(Y, F, S)
    BY <2>1 DEF AllIn, Same
  <2> QED BY <1>2, <2>1, <2>2 DEF OnFile, Held, Entry, None
<1>3. CASE c # None
  <2> SUFFICES ASSUME Entry(c)
               PROVE  /\ OnFile(Put1(c, One(s, F[s])), F, S)
                      /\ Held(Y, Put1(c, One(s, F[s])), F, S, g)
    BY <1>3
  <2> DEFINE n == Put1(c, One(s, F[s]))
  <2>1. /\ n # None /\ n.generation = c.generation /\ DOMAIN n.tables = DOMAIN c.tables \cup {s}
        /\ n.tables[s] = F[s] /\ \A t \in DOMAIN c.tables \ {s} : n.tables[t] = c.tables[t]
    BY <1>1, Put1Is
  <2> HIDE DEF n
  <2>2. OnFile(n, F, S)
    <3>1. Below(c.tables, D, S)
      BY <1>3 DEF OnFile
    <3>2. Below(n.tables, F, S)
      BY <2>1, <3>1 DEF Below, Same
    <3> QED BY <3>2 DEF OnFile
  <2>3. /\ DOMAIN Mix(n, F) = DOMAIN F \cup DOMAIN n.tables
        /\ \A t \in DOMAIN Mix(n, F) : Mix(n, F)[t] = IF t \in DOMAIN n.tables THEN n.tables[t] ELSE F[t]
    BY <2>1 DEF Mix, Extend
  <2>4. /\ DOMAIN Mix(c, D) = DOMAIN D \cup DOMAIN c.tables
        /\ \A t \in DOMAIN Mix(c, D) : Mix(c, D)[t] = IF t \in DOMAIN c.tables THEN c.tables[t] ELSE D[t]
    BY <1>3 DEF Mix, Extend
  <2>5. AllIn(X, Mix(c, D), S) /\ (c.generation = g => AllIn(X, c.tables, S))
    BY <1>3 DEF Held
  <2>6. AllIn(Y, Mix(n, F), S)
    <3> SUFFICES ASSUME NEW a \in Y
                 PROVE  /\ a[1] \in DOMAIN Mix(n, F) \cap S
                        /\ a[2] \in DOMAIN Mix(n, F)[a[1]] /\ Mix(n, F)[a[1]][a[2]] # None
      BY DEF AllIn
    <3>1. CASE a \in X /\ a[1] # s
      <4>1. /\ a[1] \in DOMAIN Mix(c, D) \cap S /\ a[2] \in DOMAIN Mix(c, D)[a[1]]
            /\ Mix(c, D)[a[1]][a[2]] # None
        BY <2>5, <3>1 DEF AllIn
      <4>2. a[1] \in DOMAIN Mix(n, F) /\ Mix(n, F)[a[1]] = Mix(c, D)[a[1]]
        BY <2>1, <2>3, <2>4, <3>1, <4>1 DEF Same
      <4> QED BY <4>1, <4>2
    <3>2. CASE ~(a \in X /\ a[1] # s)
      BY <2>1, <2>3, <3>2
    <3> QED BY <3>1, <3>2
  <2>7. c.generation = g => AllIn(Y, n.tables, S)
    BY <2>1, <2>5 DEF AllIn
  <2> QED BY <2>1, <2>2, <2>6, <2>7 DEF Held, n
<1> QED BY <1>2, <1>3

-------------------------------------------------------------------------------
(* What a run that nobody disturbs finds *)

Has(r) == run[r] # Idle
Past(r) == run[r] # Idle /\ run[r].pc # "load"
Pending(m) == compacting # None /\ m \in compacting.todo
\* The segment a compaction has yet to give the vectors it carries, and what was covered
\* elsewhere.
New(m) == IF Pending(m) THEN {Len(passages)} ELSE {}
Rest(m) == {a \in covered[m] : a[1] \notin New(m)}

\* No segment is without a passage.
Stored == /\ passages \in Seq(Seq([doc : Doc, text : Text])) /\ DOMAIN covered = Model
          /\ \A s \in DOMAIN passages : passages[s] # <<>>

\* Generations tell snapshots apart.
Dated == /\ generation \in Nat
         /\ \A m \in Model : cache[m] # None => cache[m].generation \in 0 .. generation
         /\ \A r \in Run : Has(r) => /\ run[r].snap.generation \in 0 .. generation
                                     /\ run[r].snap.generation = generation => run[r].snap.segments = segments
         /\ \A r \in Run : Past(r) => cache[run[r].model] # None

Lonely(r) == Has(r) /\ run[r].alone =>
    /\ compacting = None /\ \A o \in Run \ {r} : run[o] = Idle
    /\ run[r].snap.segments \subseteq segments

\* What was reported covered is found by a run that starts now, but for what a compaction
\* has in its hands.
Found(m) == /\ OnFile(cache[m], Decoded(m), segments)
            /\ Held(Rest(m), cache[m], Decoded(m), segments, generation)
Moving == compacting # None =>
    /\ DOMAIN compacting.carried = Model
    /\ compacting.todo \subseteq Model
    /\ ~compacting.committed => compacting.drop \subseteq segments /\ compacting.todo = {}
    /\ compacting.todo # {} => Len(passages) \in segments
Moved(m) == compacting # None =>
    /\ None \notin compacting.carried[m]
    /\ ~compacting.committed =>
          \A a \in covered[m] : a[1] \in compacting.drop => TextAt(a) \in compacting.carried[m]
    /\ \A a \in covered[m] : a[1] \in New(m) =>
          a[2] \in Rows(Len(passages)) /\ TextAt(a) \in compacting.carried[m]

\* A run c, with the passages X covered, the entry e loaded and the tables D on disk.
Plan(c, X, e, D) == c.alone =>
    IF c.pc = "load" THEN Held(X, e, D, c.snap.segments, c.snap.generation)
    ELSE /\ AllIn(X, c.existing, c.snap.segments)
         /\ Below(c.existing, D, c.snap.segments)
         /\ Below(c.existing, e.tables, c.snap.segments)
         /\ c.pc = "prune" => c.todo = {} /\ Below(c.tables, e.tables, c.snap.segments)
Wrote(c) == DOMAIN c.tables \ c.todo
Written(c, e, D, S, late) == c.pc = "write" \/ (c.pc = "prune" /\ c.alone) =>
    /\ Wrote(c) \cap S \cap late = {}
    /\ \A s \in Wrote(c) \cap S : s \in DOMAIN D /\ D[s] = c.tables[s]
    /\ Below(e.tables, c.tables, Wrote(c) \cap S)
OneWrote(c, d) == c.pc = "write" /\ d.pc = "write" /\ c.model = d.model => Wrote(c) = {} \/ Wrote(d) = {}
RunClean(r) == Has(r) /\ run[r].model \notin mixed =>
    LET m == run[r].model
    IN  /\ Plan(run[r], covered[m], cache[m], Decoded(m))
        /\ Written(run[r], cache[m], Decoded(m), segments, New(m))
        /\ \A o \in Run \ {r} : OneWrote(run[r], run[o])

\* What a run fills its tables with, and what it asks for.
Filled(c) == /\ c.pc \in {"write", "prune"} => Below(c.existing, c.tables, DOMAIN c.tables)
             /\ c.pc = "embed" => c.queue \in Seq(Text) /\ ToSet(c.queue) \cap Vectors(c.existing) = {}

JInv == /\ Stored /\ Dated /\ Moving
        /\ \A r \in Run : Lonely(r) /\ RunClean(r) /\ Filled(run[r])
        /\ \A m \in Model \ mixed : Found(m) /\ Moved(m)

LEMMA InitJ == Init => JInv
<1> SUFFICES ASSUME Init PROVE JInv
  OBVIOUS
<1>1. /\ passages = <<>> /\ segments = {} /\ generation = 0 /\ files = [m \in Model |-> NoTables]
      /\ cache = [m \in Model |-> None] /\ run = [r \in Run |-> Idle] /\ compacting = None
      /\ covered = [m \in Model |-> {}]
  BY DEF Init
<1>2. Stored /\ Dated /\ Moving
  BY <1>1 DEF Stored, Dated, Moving, Has, Past
<1>3. ASSUME NEW r \in Run PROVE Lonely(r) /\ RunClean(r) /\ Filled(run[r])
  BY <1>1 DEF Lonely, RunClean, Filled, Has, Idle
<1>4. ASSUME NEW m \in Model PROVE Found(m) /\ Moved(m)
  BY <1>1 DEF Found, Moved, Rest, OnFile, Held, AllIn
<1> QED BY <1>2, <1>3, <1>4 DEF JInv

LEMMA EntryOk ==
  ASSUME IInv, NEW m \in Model, cache[m] # None
  PROVE  Entry(cache[m]) /\ Right(cache[m].tables, passages)
BY DEF IInv, InCache, Entry

LEMMA TablesView ==
  ASSUME NEW m, NEW snap
  PROVE  /\ Tables(m, snap) = View(cache[m], Decoded(m), snap.segments, snap.generation)
         /\ Loaded(m, snap) = Reload(cache[m], Decoded(m), snap.segments, snap.generation)
         /\ Merged(m) = Mix(cache[m], Decoded(m))
BY DEF Tables, Merged, Loaded, View, Reload, Mix

\* Runs in flight are of known shapes.
LEMMA RunShape ==
  ASSUME IInv, NEW r \in Run, Has(r)
  PROVE  /\ run[r].model \in Model /\ run[r].snap.segments \subseteq DOMAIN passages
         /\ run[r].pc \in {"load", "embed", "write", "prune"}
         /\ run[r].pc # "load" => Right(run[r].existing, passages)
         /\ run[r].pc \in {"write", "prune"} =>
               /\ Right(run[r].tables, passages) /\ run[r].todo \subseteq DOMAIN run[r].tables
               /\ DOMAIN run[r].tables \subseteq run[r].snap.segments
BY DEF IInv, InRuns, InRun, Has

LEMMA IdleRun == Idle.pc = "idle" /\ DOMAIN Idle = {"pc"}
BY DEF Idle

LEMMA RestAll ==
  ASSUME NEW m, ~Pending(m)
  PROVE  Rest(m) = covered[m] /\ New(m) = {}
BY DEF Rest, New

LEMMA RestSame ==
  ASSUME NEW m, passages' = passages, covered'[m] = covered[m], Pending(m)' <=> Pending(m)
  PROVE  Rest(m)' = Rest(m) /\ New(m)' = New(m)
<1>1. New(m)' = New(m)
  BY DEF New
<1> QED BY <1>1 DEF Rest

-------------------------------------------------------------------------------
(* Writes *)

LEMMA DecodedKept ==
  ASSUME NEW m \in Model, NEW L, files' = [o \in Model |-> Kept(files[o], L)], DOMAIN files = Model
  PROVE  Same(Decoded(m), Decoded(m)', L) /\ DOMAIN Decoded(m)' \subseteq L
BY DEF Decoded, Kept, Same

LEMMA HostJ ==
  ASSUME IInv, JInv, Host
  PROVE  JInv'
<1>1. PICK L, G : /\ Publish(L, G) /\ segments \subseteq L /\ L \subseteq segments \cup {Len(passages) + 1}
                  /\ compacting = None /\ UNCHANGED <<cache, run, compacting, hist>>
                  /\ \/ UNCHANGED passages
                     \/ \E d \in Doc : \E x \in Text :
                            passages' = Append(passages, <<[doc |-> d, text |-> x]>>)
  <2>1. CASE \E d \in Doc : \E x \in Text : Put(d, x)
    BY <2>1 DEF Put
  <2>2. CASE \E d \in Doc : Delete(d)
    BY <2>2 DEF Delete
  <2> QED BY <2>1, <2>2 DEF Host
<1>2. /\ segments' = L /\ generation' = generation + 1 /\ generation \in Nat
      /\ files' = [m \in Model |-> Kept(files[m], L)] /\ DOMAIN files = Model
  BY <1>1 DEF Publish, JInv, Dated, IInv, OnDisk
<1>3. /\ passages \in Seq(Seq([doc : Doc, text : Text])) /\ Len(passages) \in Nat
      /\ DOMAIN passages = 1 .. Len(passages)
  BY DEF JInv, Stored
<1>4. Stored'
  <2>1. ASSUME NEW d \in Doc, NEW x \in Text
        PROVE  /\ <<[doc |-> d, text |-> x]>> \in Seq([doc : Doc, text : Text])
               /\ <<[doc |-> d, text |-> x]>> # <<>>
    OBVIOUS
  <2> DEFINE Segment == Seq([doc : Doc, text : Text])
  <2>2. passages' = passages \/ \E t \in Segment : t # <<>> /\ passages' = Append(passages, t)
    BY <1>1, <2>1
  <2>3. passages \in Seq(Segment)
    BY <1>3
  <2> HIDE DEF Segment
  <2>4. passages' \in Seq(Segment)
    BY <2>2, <2>3
  <2>5. \A s \in DOMAIN passages' : passages'[s] # <<>>
    <3>1. \A s \in DOMAIN passages : passages[s] # <<>>
      BY DEF JInv, Stored
    <3>2. ASSUME NEW t \in Segment, t # <<>>, passages' = Append(passages, t)
          PROVE  \A s \in DOMAIN passages' : passages'[s] # <<>>
      <4>1. \A s \in DOMAIN passages' : s \in DOMAIN passages \/ s = Len(passages) + 1
        BY <2>3, <3>2
      <4>2. passages'[Len(passages) + 1] = t /\ \A s \in DOMAIN passages : passages'[s] = passages[s]
        BY <2>3, <3>2
      <4> QED BY <3>1, <3>2, <4>1, <4>2
    <3> QED BY <2>2, <3>1, <3>2
  <2> QED BY <1>1, <2>4, <2>5 DEF Stored, JInv, hist, Segment
<1>5. Dated'
  BY <1>1, <1>2 DEF JInv, Dated, Has, Past
<1>6. Moving'
  BY <1>1 DEF Moving
<1>7. \A r \in Run : Lonely(r)' /\ Filled(run[r])'
  BY <1>1, <1>2 DEF JInv, Lonely, Filled, Has
<1>8. ASSUME NEW m \in Model
      PROVE  /\ Same(Decoded(m), Decoded(m)', L) /\ Same(Decoded(m), Decoded(m)', segments)
             /\ cache[m] # None => /\ DOMAIN cache[m].tables \cap L \subseteq segments
                                   /\ cache[m].generation # generation + 1
  <2>1. Same(Decoded(m), Decoded(m)', L)
    BY <1>2, DecodedKept
  <2>2. cache[m] # None => DOMAIN cache[m].tables \subseteq DOMAIN passages
    BY EntryOk DEF Right
  <2>3. cache[m] # None => cache[m].generation # generation + 1
    BY <1>2 DEF JInv, Dated
  <2> QED BY <1>1, <1>3, <2>1, <2>2, <2>3 DEF Same
<1>9. ASSUME NEW m \in Model \ mixed' PROVE Found(m)' /\ Moved(m)'
  <2>1. Found(m) /\ ~Pending(m) /\ m \in Model
    BY <1>1, <1>9 DEF JInv, Pending, hist
  <2>2. cache[m] # None => /\ DOMAIN cache[m].tables \cap L \subseteq segments
                           /\ (cache[m].generation = generation + 1 => generation + 1 = generation)
    BY <1>8
  <2>3. OnFile(cache[m], Decoded(m)', L) /\ Held(covered[m], cache[m], Decoded(m)', L, generation + 1)
    <3>1. OnFile(cache[m], Decoded(m), segments) /\ Held(covered[m], cache[m], Decoded(m), segments, generation)
      BY <2>1, RestAll DEF Found
    <3>2. Same(Decoded(m), Decoded(m)', segments) /\ segments \subseteq L
      BY <1>1, <1>8, <2>1
    <3> QED BY <2>2, <3>1, <3>2, ListHeld
  <2>4. Moved(m)'
    BY <1>1 DEF Moved
  <2>5. Rest(m)' = covered[m]
    BY <1>1 DEF Rest, New, Pending, hist
  <2> QED BY <1>1, <1>2, <2>3, <2>4, <2>5 DEF Found
<1>10. ASSUME NEW r \in Run, NEW m \in Model, Has(r), m = run[r].model, m \notin mixed
       PROVE  /\ Plan(run[r], covered[m], cache[m], Decoded(m)')
              /\ Written(run[r], cache[m], Decoded(m)', L, New(m)')
              /\ \A o \in Run \ {r} : OneWrote(run[r], run[o])
  <2> DEFINE D == Decoded(m)
             F == Decoded(m)'
             c == run[r]
  <2>1. m \in Model /\ c.snap.segments \subseteq DOMAIN passages /\ Lonely(r)
    BY <1>10, RunShape DEF JInv
  <2>2. /\ Plan(c, covered[m], cache[m], D) /\ Written(c, cache[m], D, segments, New(m))
        /\ \A o \in Run \ {r} : OneWrote(c, run[o])
    BY <1>10 DEF JInv, RunClean
  <2>3. Same(D, F, L) /\ Same(D, F, segments)
    BY <1>8, <2>1
  <2>4. New(m)' = {}
    BY <1>1 DEF New, Pending
  <2>5. Past(r) => cache[m] # None
    BY <1>10 DEF JInv, Dated, Past, Has
  <2>6. OnFile(cache[m], D, segments)
    BY <1>10 DEF JInv, Found
  <2>7. DOMAIN c.tables \subseteq DOMAIN passages \/ c.pc \notin {"write", "prune"}
    BY <1>10, <2>1, RunShape
  <2> HIDE DEF D, F
  <2>8. Plan(c, covered[m], cache[m], F)
    <3> SUFFICES ASSUME c.alone PROVE Plan(c, covered[m], cache[m], F)
      BY DEF Plan
    <3>1. c.snap.segments \subseteq segments
      BY <1>10, <2>1 DEF Lonely
    <3>2. Same(D, F, c.snap.segments)
      BY <2>3, <3>1 DEF Same
    <3>3. CASE c.pc = "load"
      <4>1. Held(covered[m], cache[m], D, c.snap.segments, c.snap.generation)
        BY <2>2, <3>3 DEF Plan
      <4>2. OnFile(cache[m], D, c.snap.segments)
        BY <2>6, <3>1, BelowLess DEF OnFile
      <4>3. Held(covered[m], cache[m], F, c.snap.segments, c.snap.generation)
        BY <3>2, <4>1, <4>2, ListHeld
      <4> QED BY <3>3, <4>3 DEF Plan
    <3>4. CASE c.pc # "load"
      <4>1. Below(c.existing, D, c.snap.segments)
        BY <2>2, <3>4 DEF Plan
      <4>2. Below(c.existing, F, c.snap.segments)
        BY <3>2, <4>1, SameBelow, BelowBelow
      <4> QED BY <2>2, <3>4, <4>2 DEF Plan
    <3> QED BY <3>3, <3>4
  <2>9. Written(c, cache[m], F, L, New(m)')
    <3> SUFFICES ASSUME c.pc = "write" \/ (c.pc = "prune" /\ c.alone)
                 PROVE  Written(c, cache[m], F, L, New(m)')
      BY DEF Written
    <3>1. Wrote(c) \cap L = Wrote(c) \cap segments
      BY <1>1, <1>3, <2>7 DEF Wrote
    <3>2. \A s \in Wrote(c) \cap segments : s \in DOMAIN F /\ F[s] = c.tables[s]
      BY <2>2, <2>3 DEF Written, Same
    <3> QED BY <2>2, <2>4, <3>1, <3>2 DEF Written
  <2> QED BY <2>2, <2>8, <2>9 DEF F
<1>11. ASSUME NEW r \in Run PROVE RunClean(r)'
  BY <1>1, <1>2, <1>10, RunShape DEF RunClean, Has, hist
<1> QED BY <1>4, <1>5, <1>6, <1>7, <1>9, <1>11 DEF JInv

-------------------------------------------------------------------------------
(* Steps that leave files, tables and the store as they are *)

\* A disturbed run d is the run c in all but that it is no longer alone.
Alike(d, c) == /\ d # Idle /\ d.model = c.model /\ d.pc = c.pc /\ d.snap = c.snap
               /\ c.pc # "load" => d.existing = c.existing
               /\ c.pc = "embed" => d.queue = c.queue
               /\ c.pc \in {"write", "prune"} => d.tables = c.tables /\ d.todo = c.todo

LEMMA DisturbedAlike ==
  ASSUME IInv, NEW r \in Run, Has(r), NEW d, d = [run[r] EXCEPT !.alone = FALSE]
  PROVE  ~d.alone /\ Alike(d, run[r])
<1> DEFINE c == run[r]
<1>1. {"pc", "model", "snap", "alone"} \subseteq DOMAIN c
  BY DEF IInv, InRuns, InRun, Has
<1>2. /\ c.pc # "load" => "existing" \in DOMAIN c
      /\ c.pc = "embed" => "queue" \in DOMAIN c
      /\ c.pc \in {"write", "prune"} => "tables" \in DOMAIN c /\ "todo" \in DOMAIN c
  BY DEF IInv, InRuns, InRun, Has
<1> HIDE DEF c
<1>3. DOMAIN d = DOMAIN c /\ d.alone = FALSE /\ \A f \in DOMAIN c : f # "alone" => d[f] = c[f]
  BY <1>1 DEF c
<1>4. d # Idle
  BY <1>1, <1>3, IdleRun
<1>5. Alike(d, c)
  BY <1>1, <1>2, <1>3, <1>4 DEF Alike
<1>6. ~d.alone
  BY <1>3
<1> QED BY <1>5, <1>6 DEF c

LEMMA CollectJ ==
  ASSUME IInv, JInv, NEW S0 \in SUBSET segments, CompactCollect(S0)
  PROVE  JInv'
<1>1. /\ UNCHANGED <<store, files, cache, hist>> /\ run' = Disturbed /\ compacting = None
      /\ compacting' = [drop |-> S0, carried |-> Carried(S0), committed |-> FALSE, todo |-> {}]
  BY DEF CompactCollect
<1>2. DOMAIN run = Run /\ compacting' # None /\ \A m \in Model : New(m)' = {}
  BY <1>1 DEF IInv, InRuns, None, New, Pending
<1>3. ASSUME NEW r \in Run
      PROVE  /\ ~Has(r) => run'[r] = run[r]
             /\ Has(r) => ~run'[r].alone /\ Alike(run'[r], run[r])
  BY <1>1, DisturbedAlike DEF Disturbed, Has
<1>4. Stored' /\ Moving'
  BY <1>1 DEF JInv, Stored, Moving, Carried, store, hist
<1>5. Dated'
  <2>1. ASSUME NEW r \in Run, run'[r] # Idle
        PROVE  /\ run[r] # Idle /\ run'[r].snap = run[r].snap
               /\ run'[r].pc = run[r].pc /\ run'[r].model = run[r].model
    BY <1>3, <2>1 DEF Has, Alike
  <2>2. UNCHANGED <<generation, segments, cache>>
    BY <1>1 DEF store
  <2> QED BY <2>1, <2>2 DEF JInv, Dated, Has, Past
<1>6. ASSUME NEW r \in Run PROVE Lonely(r)' /\ Filled(run[r])'
  <2>1. CASE ~Has(r)
    BY <1>3, <2>1, IdleRun DEF Lonely, Filled, Has
  <2>2. CASE Has(r)
    <3>1. ~run'[r].alone /\ Alike(run'[r], run[r]) /\ Filled(run[r])
      BY <1>3, <2>2 DEF JInv
    <3>2. Filled(run'[r])
      BY <3>1 DEF Filled, Alike
    <3> QED BY <3>1, <3>2 DEF Lonely, Filled
  <2> QED BY <2>1, <2>2
<1>7. ASSUME NEW m \in Model \ mixed PROVE Found(m)' /\ Moved(m)'
  <2>1. Found(m) /\ ~Pending(m)
    BY <1>1 DEF JInv, Pending
  <2>2. Decoded(m)' = Decoded(m) /\ ~Pending(m)'
    BY <1>1 DEF Decoded, Pending
  <2>3. Below(Mix(cache[m], Decoded(m)), Decoded(m), segments)
    BY <2>1, MixBelow DEF Found
  <2>4. AllIn(covered[m], Decoded(m), segments)
    BY <2>1, <2>3, RestAll, AllInBelow DEF Found, Held
  <2>5. Carried(S0)[m] = (UNION {ToSet(Decoded(m)[s]) : s \in S0 \cap DOMAIN Decoded(m)}) \ {None}
    BY DEF Carried
  <2>6. ASSUME NEW a \in covered[m], a[1] \in S0 PROVE TextAt(a) \in Carried(S0)[m]
    <3>1. /\ a[1] \in S0 \cap DOMAIN Decoded(m) /\ a[2] \in DOMAIN Decoded(m)[a[1]]
          /\ Decoded(m)[a[1]][a[2]] # None
      BY <2>4, <2>6 DEF AllIn
    <3>2. Decoded(m)[a[1]][a[2]] = TextAt(a)
      BY <3>1, RightDecoded DEF IInv, Right, RightTable, TextAt
    <3> QED BY <2>5, <3>1, <3>2 DEF ToSet
  <2>7. None \notin Carried(S0)[m]
    BY <2>5
  <2>8. Rest(m)' = Rest(m) /\ New(m)' = {}
    BY <1>1, <2>1, <2>2, RestSame DEF store, hist, New
  <2> QED BY <1>1, <2>1, <2>2, <2>6, <2>7, <2>8 DEF Found, Moved, TextAt, store, hist
<1>8. ASSUME NEW r \in Run, NEW m \in Model, Has(r), m = run[r].model, m \notin mixed
      PROVE  /\ Plan(run'[r], covered[m], cache[m], Decoded(m)')
             /\ Written(run'[r], cache[m], Decoded(m)', segments, New(m)')
  <2>1. Written(run[r], cache[m], Decoded(m), segments, New(m))
    BY <1>8 DEF JInv, RunClean
  <2>2. Decoded(m)' = Decoded(m)
    BY <1>1 DEF Decoded
  <2>3. ~run'[r].alone /\ Alike(run'[r], run[r])
    BY <1>3, <1>8
  <2>4. Plan(run'[r], covered[m], cache[m], Decoded(m)')
    BY <2>3 DEF Plan
  <2>5. CASE run[r].pc = "write"
    <3>1. run'[r].pc = "write" /\ run'[r].tables = run[r].tables /\ run'[r].todo = run[r].todo
      BY <2>3, <2>5 DEF Alike
    <3>2. Wrote(run'[r]) = Wrote(run[r]) /\ segments' = segments
      BY <1>1, <3>1 DEF Wrote, store
    <3> QED BY <1>2, <2>1, <2>4, <2>2, <2>5, <3>1, <3>2 DEF Written
  <2>6. CASE run[r].pc # "write"
    BY <2>3, <2>4, <2>6 DEF Written, Alike
  <2> QED BY <2>4, <2>5, <2>6
<1>9. ASSUME NEW r \in Run, NEW o \in Run \ {r}, Has(r), run[r].model \notin mixed
      PROVE  OneWrote(run'[r], run'[o])
  <2>1. OneWrote(run[r], run[o])
    BY <1>9 DEF JInv, RunClean
  <2>2. CASE Has(o)
    BY <1>3, <1>9, <2>1, <2>2 DEF OneWrote, Wrote, Alike
  <2>3. CASE ~Has(o)
    BY <1>3, <2>3, IdleRun DEF OneWrote, Has
  <2> QED BY <2>2, <2>3
<1>10. ASSUME NEW r \in Run PROVE RunClean(r)'
  <2>1. Has(r)' => Has(r) /\ run'[r].model = run[r].model
    BY <1>3 DEF Has, Alike
  <2> QED BY <1>1, <1>8, <1>9, <2>1, RunShape DEF RunClean, store, hist
<1> QED BY <1>1, <1>4, <1>5, <1>6, <1>7, <1>10 DEF JInv, hist

LEMMA EndJ ==
  ASSUME IInv, JInv, CompactEnd \/ UNCHANGED vars
  PROVE  JInv'
<1>1. /\ UNCHANGED <<store, files, cache, run, hist>>
      /\ compacting' = compacting \/ (compacting' = None /\ compacting # None /\ compacting.todo = {})
  BY DEF CompactEnd, vars
<1>2. \A m \in Model : Pending(m)' <=> Pending(m)
  BY <1>1 DEF Pending
<1>3. \A m \in Model : Rest(m)' = Rest(m) /\ New(m)' = New(m)
  BY <1>1, <1>2, RestSame DEF store, hist
<1>4. Stored' /\ Moving' /\ Dated'
  BY <1>1 DEF JInv, Stored, Moving, Dated, Has, Past, store, hist
<1>5. \A r \in Run : Lonely(r)' /\ Filled(run[r])'
  BY <1>1 DEF JInv, Lonely, Filled, Has, store
<1>6. \A m \in Model : Decoded(m)' = Decoded(m)
  BY <1>1 DEF Decoded
<1>7. ASSUME NEW m \in Model \ mixed PROVE Found(m)' /\ Moved(m)'
  BY <1>1, <1>2, <1>3, <1>6 DEF JInv, Found, Moved, TextAt, store, hist, Rows
<1>8. ASSUME NEW r \in Run PROVE RunClean(r)'
  <2>1. ASSUME NEW m \in Model, Has(r), m = run[r].model, m \notin mixed
        PROVE  /\ Plan(run[r], covered[m], cache[m], Decoded(m)')
               /\ Written(run[r], cache[m], Decoded(m)', segments, New(m)')
               /\ \A o \in Run \ {r} : OneWrote(run[r], run[o])
    BY <1>3, <1>6, <2>1 DEF JInv, RunClean, Written
  <2> QED BY <1>1, <2>1, RunShape DEF RunClean, Has, store, hist
<1> QED BY <1>1, <1>4, <1>5, <1>7, <1>8 DEF JInv, hist

-------------------------------------------------------------------------------
(* Loading *)

LEMMA LoadedKeeps ==
  ASSUME IInv, JInv, NEW m \in Model, m \notin mixed, NEW snap, NEW e, e = Loaded(m, snap),
         snap.generation = generation => snap.segments = segments
  PROVE  /\ OnFile(e, Decoded(m), segments)
         /\ Held(Rest(m), e, Decoded(m), segments, generation)
         /\ \A r \in Run : Has(r) /\ run[r].model = m =>
               /\ Written(run[r], e, Decoded(m), segments, New(m))
               /\ run[r].snap.segments \subseteq snap.segments => Plan(run[r], covered[m], e, Decoded(m))
<1> DEFINE D == Decoded(m)
           k == cache[m]
<1>1. e = Reload(k, D, snap.segments, snap.generation)
  BY TablesView
<1>2. OnFile(k, D, segments) /\ Held(Rest(m), k, D, segments, generation)
  BY DEF JInv, Found
<1>3. ASSUME NEW r \in Run, Has(r), run[r].model = m
      PROVE  /\ Plan(run[r], covered[m], k, D) /\ Written(run[r], k, D, segments, New(m))
             /\ Lonely(r) /\ (run[r].pc # "load" => k # None)
  BY <1>3 DEF JInv, RunClean, Dated, Past, Has
<1> HIDE DEF D, k
<1>4. OnFile(e, D, segments)
  BY <1>1, <1>2, ReloadOnFile
<1>5. Held(Rest(m), e, D, segments, generation)
  BY <1>1, <1>2, ReloadHeld
<1>6. ASSUME NEW r \in Run, Has(r), run[r].model = m
      PROVE  Written(run[r], e, D, segments, New(m))
  <2> DEFINE c == run[r]
  <2> SUFFICES ASSUME c.pc = "write" \/ (c.pc = "prune" /\ c.alone)
               PROVE  Written(c, e, D, segments, New(m))
    BY DEF Written
  <2>1. /\ Wrote(c) \cap segments \cap New(m) = {}
        /\ \A s \in Wrote(c) \cap segments : s \in DOMAIN D /\ D[s] = c.tables[s]
        /\ Below(k.tables, c.tables, Wrote(c) \cap segments)
    BY <1>3, <1>6 DEF Written
  <2>2. Below(D, c.tables, Wrote(c) \cap segments)
    BY <2>1 DEF Below, Wrote
  <2>3. Below(e.tables, c.tables, Wrote(c) \cap segments)
    BY <1>1, <2>1, <2>2, ReloadBelow
  <2> QED BY <2>1, <2>3 DEF Written
<1>7. ASSUME NEW r \in Run, Has(r), run[r].model = m, run[r].snap.segments \subseteq snap.segments
      PROVE  Plan(run[r], covered[m], e, D)
  <2> DEFINE c == run[r]
  <2> SUFFICES ASSUME c.alone PROVE Plan(c, covered[m], e, D)
    BY DEF Plan
  <2>1. Plan(c, covered[m], k, D) /\ c.snap.segments \subseteq segments /\ (c.pc # "load" => k # None)
    BY <1>3, <1>7 DEF Lonely
  <2>2. CASE c.pc = "load"
    <3>1. Held(covered[m], k, D, c.snap.segments, c.snap.generation)
      BY <2>1, <2>2 DEF Plan
    <3>2. OnFile(k, D, c.snap.segments)
      BY <1>2, <2>1, BelowLess DEF OnFile
    <3>3. Held(covered[m], e, D, c.snap.segments, c.snap.generation)
      BY <1>1, <1>7, <3>1, <3>2, ReloadHeld
    <3> QED BY <2>2, <3>3 DEF Plan
  <2>3. CASE c.pc # "load"
    <3>1. Below(c.existing, e.tables, c.snap.segments)
      BY <1>1, <1>7, <2>1, <2>3, ReloadKeeps DEF Plan
    <3>2. c.pc = "prune" => Below(c.tables, e.tables, c.snap.segments)
      BY <1>1, <1>7, <2>1, <2>3, ReloadKeeps DEF Plan
    <3> QED BY <2>1, <2>3, <3>1, <3>2 DEF Plan
  <2> QED BY <2>2, <2>3
<1> QED BY <1>4, <1>5, <1>6, <1>7 DEF D

LEMMA QueryJ ==
  ASSUME IInv, JInv, NEW m \in Model, Query(m)
  PROVE  JInv'
<1> DEFINE e == Loaded(m, Snapshot)
<1>1. /\ cache' = [cache EXCEPT ![m] = e] /\ DOMAIN cache = Model
      /\ UNCHANGED <<store, files, run, compacting, hist>>
  BY DEF Query, IInv, InCache
<1>2. e # None /\ e.generation = generation
  BY NotNone DEF Loaded, Snapshot
<1>3. Snapshot.generation = generation /\ Snapshot.segments = segments
  BY DEF Snapshot
<1>4. \A o \in Model : Decoded(o)' = Decoded(o) /\ (Pending(o)' <=> Pending(o))
  BY <1>1 DEF Decoded, Pending
<1>5. m \notin mixed =>
         /\ OnFile(e, Decoded(m), segments)
         /\ Held(Rest(m), e, Decoded(m), segments, generation)
         /\ \A r \in Run : Has(r) /\ run[r].model = m =>
               /\ Written(run[r], e, Decoded(m), segments, New(m))
               /\ run[r].snap.segments \subseteq segments => Plan(run[r], covered[m], e, Decoded(m))
  BY <1>3, LoadedKeeps
<1> HIDE DEF e
<1>6. Stored' /\ Moving'
  BY <1>1 DEF JInv, Stored, Moving, store, hist
<1>7. Dated'
  BY <1>1, <1>2 DEF JInv, Dated, Has, Past, store
<1>8. \A r \in Run : Lonely(r)' /\ Filled(run[r])'
  BY <1>1 DEF JInv, Lonely, Filled, Has, store
<1>9. ASSUME NEW o \in Model \ mixed PROVE Found(o)' /\ Moved(o)'
  BY <1>1, <1>4, <1>5, RestSame DEF JInv, Found, Moved, TextAt, Rows, store, hist
<1>10. ASSUME NEW r \in Run, NEW o \in Model, Has(r), o = run[r].model, o \notin mixed
       PROVE  /\ Plan(run[r], covered[o], cache'[o], Decoded(o))
              /\ Written(run[r], cache'[o], Decoded(o), segments, New(o))
              /\ \A q \in Run \ {r} : OneWrote(run[r], run[q])
  <2>1. /\ Plan(run[r], covered[o], cache[o], Decoded(o))
        /\ Written(run[r], cache[o], Decoded(o), segments, New(o))
        /\ \A q \in Run \ {r} : OneWrote(run[r], run[q])
    BY <1>10 DEF JInv, RunClean
  <2>2. CASE o # m
    BY <1>1, <2>1, <2>2
  <2>3. CASE o = m
    <3>1. cache'[o] = e
      BY <1>1, <2>3
    <3>2. run[r].alone => run[r].snap.segments \subseteq segments
      BY <1>10 DEF JInv, Lonely
    <3>3. Plan(run[r], covered[o], e, Decoded(o))
      BY <1>5, <1>10, <2>3, <3>2 DEF Plan
    <3> QED BY <1>5, <1>10, <2>1, <2>3, <3>1, <3>3
  <2> QED BY <2>2, <2>3
<1>11. ASSUME NEW r \in Run PROVE RunClean(r)'
  <2>1. \A k \in Model : New(k)' = New(k)
    BY <1>1 DEF New, Pending, store
  <2>2. /\ run' = run /\ covered' = covered /\ mixed' = mixed /\ segments' = segments
    BY <1>1 DEF store, hist
  <2>3. \A o \in Model : Decoded(o)' = Decoded(o)
    BY <1>4
  <2>4. Has(r) => run[r].model \in Model
    BY RunShape
  <2> QED BY <1>10, <2>1, <2>2, <2>3, <2>4 DEF RunClean, Has
<1> QED BY <1>1, <1>6, <1>7, <1>8, <1>9, <1>11 DEF JInv, hist

-------------------------------------------------------------------------------
(* Crashes and rot *)

LEMMA CrashJ ==
  ASSUME IInv, JInv, Crash
  PROVE  JInv'
<1>1. /\ cache' = [m \in Model |-> None] /\ run' = [r \in Run |-> Idle] /\ compacting' = None
      /\ covered' = [m \in Model |-> IF compacting = None /\ m \notin mixed THEN covered[m] ELSE {}]
      /\ mixed' = {} /\ UNCHANGED <<store, files>>
  BY DEF Crash
<1>2. Stored' /\ Moving'
  BY <1>1 DEF JInv, Stored, Moving, store
<1>3. Dated'
  BY <1>1 DEF JInv, Dated, Has, Past, store
<1>4. \A r \in Run : Lonely(r)' /\ RunClean(r)' /\ Filled(run[r])'
  BY <1>1, IdleRun DEF Lonely, RunClean, Filled, Has
<1>5. ASSUME NEW m \in Model PROVE Found(m)' /\ Moved(m)'
  <2>1. Decoded(m)' = Decoded(m) /\ segments' = segments /\ cache'[m] = None
    BY <1>1 DEF Decoded, store
  <2>2. Moved(m)'
    BY <1>1 DEF Moved
  <2>3. AllIn(covered'[m], Decoded(m), segments)
    <3>1. CASE compacting = None /\ m \notin mixed
      <4>1. Found(m) /\ ~Pending(m)
        BY <3>1 DEF JInv, Pending
      <4>2. Below(Mix(cache[m], Decoded(m)), Decoded(m), segments)
        BY <4>1, MixBelow DEF Found
      <4>3. AllIn(covered[m], Decoded(m), segments)
        BY <4>1, <4>2, RestAll, AllInBelow DEF Found, Held
      <4> QED BY <1>1, <3>1, <4>3
    <3>2. CASE ~(compacting = None /\ m \notin mixed)
      BY <1>1, <3>2 DEF AllIn
    <3> QED BY <3>1, <3>2
  <2>4. Rest(m)' = covered'[m]
    BY <1>1 DEF Rest, New, Pending
  <2> QED BY <2>1, <2>2, <2>3, <2>4 DEF Found, OnFile, Held, Mix
<1> QED BY <1>1, <1>2, <1>3, <1>4, <1>5 DEF JInv

LEMMA RotJ ==
  ASSUME IInv, JInv, NEW m \in Model, NEW s, Rot(m, s)
  PROVE  JInv'
<1>1. /\ files' = [files EXCEPT ![m] = Extend(@, One(s, Broken))] /\ DOMAIN files = Model
      /\ covered' = [covered EXCEPT ![m] = {}] /\ mixed' = mixed \cup {m}
      /\ UNCHANGED <<store, cache, run, compacting>>
  BY DEF Rot, IInv, OnDisk
<1>2. \A o \in Model \ {m} : /\ Decoded(o)' = Decoded(o) /\ covered'[o] = covered[o]
                             /\ (Pending(o)' <=> Pending(o))
  BY <1>1 DEF JInv, Stored, Decoded, Pending
<1>3. Stored' /\ Moving' /\ Dated'
  BY <1>1 DEF JInv, Stored, Moving, Dated, Has, Past, store
<1>4. \A r \in Run : Lonely(r)' /\ Filled(run[r])'
  BY <1>1 DEF JInv, Lonely, Filled, Has, store
<1>5. ASSUME NEW o \in Model \ mixed' PROVE Found(o)' /\ Moved(o)'
  BY <1>1, <1>2, <1>5, RestSame DEF JInv, Found, Moved, TextAt, Rows, store
<1>6. ASSUME NEW r \in Run, NEW o \in Model, Has(r), o = run[r].model, o \notin mixed, o # m
      PROVE  /\ Plan(run[r], covered'[o], cache[o], Decoded(o)')
             /\ Written(run[r], cache[o], Decoded(o)', segments, New(o))
             /\ \A q \in Run \ {r} : OneWrote(run[r], run[q])
  BY <1>2, <1>6 DEF JInv, RunClean
<1>7. ASSUME NEW r \in Run PROVE RunClean(r)'
  <2>1. \A k \in Model : New(k)' = New(k)
    BY <1>1 DEF New, Pending, store
  <2> QED BY <1>1, <1>6, <2>1, RunShape DEF RunClean, Has, store
<1> QED BY <1>1, <1>3, <1>4, <1>5, <1>7 DEF JInv

-------------------------------------------------------------------------------
(* A run's steps *)

LEMMA DisturbedWritten ==
  ASSUME NEW c, NEW d, ~d.alone, Alike(d, c), NEW X, NEW e, NEW D, NEW S, NEW late, Written(c, e, D, S, late)
  PROVE  Plan(d, X, e, D) /\ Written(d, e, D, S, late)
<1>1. CASE c.pc = "write"
  <2>1. d.pc = "write" /\ d.tables = c.tables /\ d.todo = c.todo
    BY <1>1 DEF Alike
  <2>2. Wrote(d) = Wrote(c)
    BY <2>1 DEF Wrote
  <2> QED BY <1>1, <2>1, <2>2 DEF Plan, Written
<1>2. CASE c.pc # "write"
  BY <1>2 DEF Alike, Plan, Written
<1> QED BY <1>1, <1>2

LEMMA StartJ ==
  ASSUME IInv, JInv, NEW r \in Run, NEW m \in Model, Start(r, m)
  PROVE  JInv'
<1> DEFINE l == [pc |-> "load", model |-> m, snap |-> Snapshot,
                 alone |-> compacting = None /\ \A o \in Run : run[o] = Idle]
<1>1. /\ run'[r] = l /\ run[r] = Idle /\ \A o \in Run \ {r} : run'[o] = Disturbed[o]
      /\ UNCHANGED <<store, files, cache, compacting, hist>>
  BY DEF Start
<1>2. ASSUME NEW o \in Run \ {r}
      PROVE  /\ ~Has(o) => run'[o] = run[o]
             /\ Has(o) => ~run'[o].alone /\ Alike(run'[o], run[o])
  BY <1>1, DisturbedAlike DEF Disturbed, Has
<1>3. /\ run'[r].pc = "load" /\ run'[r].model = m /\ run'[r].snap = Snapshot /\ run'[r] # Idle
      /\ run'[r].alone => compacting = None /\ \A o \in Run : run[o] = Idle
  <2>1. /\ l.pc = "load" /\ l.model = m /\ l.snap = Snapshot
        /\ l.alone = (compacting = None /\ \A o \in Run : run[o] = Idle)
    OBVIOUS
  <2>2. "load" # "idle"
    OBVIOUS
  <2> QED BY <1>1, <2>1, <2>2, IdleRun
<1>4. /\ Snapshot.segments = segments /\ Snapshot.generation = generation
      /\ UNCHANGED <<passages, segments, generation, covered, mixed>>
  BY <1>1 DEF Snapshot, store, hist
<1>5. \A o \in Model : Decoded(o)' = Decoded(o) /\ (Pending(o)' <=> Pending(o))
  BY <1>1 DEF Decoded, Pending
<1> HIDE DEF l
<1>6. Stored' /\ Moving'
  BY <1>1, <1>4 DEF JInv, Stored, Moving
<1>7. Dated'
  <2>1. ASSUME NEW o \in Run \ {r}, run'[o] # Idle
        PROVE  /\ run[o] # Idle /\ run'[o].snap = run[o].snap
               /\ run'[o].pc = run[o].pc /\ run'[o].model = run[o].model
    BY <1>2, <2>1 DEF Has, Alike
  <2>2. UNCHANGED cache
    BY <1>1
  <2> QED BY <1>3, <1>4, <2>1, <2>2 DEF JInv, Dated, Has, Past
<1>8. ASSUME NEW o \in Run PROVE Lonely(o)' /\ Filled(run[o])'
  <2>1. CASE o = r
    <3>1. run'[r].alone => \A q \in Run \ {r} : run'[q] = Idle
      BY <1>2, <1>3 DEF Has
    <3> QED BY <1>1, <1>3, <1>4, <2>1, <3>1 DEF Lonely, Filled, Has
  <2>2. CASE o # r /\ ~Has(o)
    BY <1>2, <2>2, IdleRun DEF Lonely, Filled, Has
  <2>3. CASE o # r /\ Has(o)
    <3>1. ~run'[o].alone /\ Alike(run'[o], run[o]) /\ Filled(run[o])
      BY <1>2, <2>3 DEF JInv
    <3>2. Filled(run'[o])
      BY <3>1 DEF Filled, Alike
    <3> QED BY <3>1, <3>2 DEF Lonely, Filled
  <2> QED BY <2>1, <2>2, <2>3
<1>9. ASSUME NEW o \in Model \ mixed PROVE Found(o)' /\ Moved(o)'
  <2>1. Found(o) /\ Moved(o)
    BY <1>9 DEF JInv
  <2>2. Rest(o)' = Rest(o) /\ New(o)' = New(o)
    BY <1>1, <1>4, <1>5, RestSame
  <2> QED BY <1>1, <1>4, <1>5, <2>1, <2>2 DEF Found, Moved, TextAt, Rows
<1>10. ASSUME NEW o \in Run, NEW k \in Model, k = run'[o].model, Has(o)', k \notin mixed
       PROVE  /\ Plan(run'[o], covered[k], cache[k], Decoded(k))
              /\ Written(run'[o], cache[k], Decoded(k), segments, New(k))
              /\ \A q \in Run \ {o} : OneWrote(run'[o], run'[q])
  <2>1. CASE o = r
    <3>1. run'[r].alone => Held(covered[k], cache[k], Decoded(k), segments, generation)
      <4>1. run'[r].alone => ~Pending(k)
        BY <1>3 DEF Pending
      <4> QED BY <1>10, <4>1, RestAll DEF JInv, Found
    <3> QED BY <1>3, <1>4, <2>1, <3>1 DEF Plan, Written, OneWrote
  <2>2. CASE o # r
    <3>1. Has(o) /\ ~run'[o].alone /\ Alike(run'[o], run[o]) /\ k = run[o].model
      BY <1>2, <1>10, <2>2 DEF Has, Alike
    <3>2. /\ Written(run[o], cache[k], Decoded(k), segments, New(k))
          /\ \A q \in Run \ {o} : OneWrote(run[o], run[q])
      BY <1>10, <3>1 DEF JInv, RunClean
    <3>3. /\ Plan(run'[o], covered[k], cache[k], Decoded(k))
          /\ Written(run'[o], cache[k], Decoded(k), segments, New(k))
      BY <3>1, <3>2, DisturbedWritten
    <3>4. ASSUME NEW q \in Run \ {o} PROVE OneWrote(run'[o], run'[q])
      <4>1. CASE q = r
        BY <1>3, <4>1 DEF OneWrote
      <4>2. CASE q # r /\ ~Has(q)
        BY <1>2, <4>2, IdleRun DEF OneWrote, Has
      <4>3. CASE q # r /\ Has(q)
        BY <1>2, <3>1, <3>2, <4>3 DEF OneWrote, Wrote, Alike
      <4> QED BY <4>1, <4>2, <4>3
    <3> QED BY <3>3, <3>4
  <2> QED BY <2>1, <2>2
<1>11. ASSUME NEW o \in Run PROVE RunClean(o)'
  <2>1. \A k \in Model : New(k)' = New(k)
    BY <1>1 DEF New, Pending, store
  <2>2. Has(o)' => run'[o].model \in Model
    <3>1. CASE o = r
      BY <1>3, <3>1
    <3>2. CASE o # r
      BY <1>2, <3>2, RunShape DEF Has, Alike
    <3> QED BY <3>1, <3>2
  <2>3. UNCHANGED <<cache, covered, mixed, segments>>
    BY <1>1, <1>4
  <2> QED BY <1>5, <1>10, <2>1, <2>2, <2>3 DEF RunClean, Has
<1> QED BY <1>4, <1>6, <1>7, <1>8, <1>9, <1>11 DEF JInv

\* What a step of the run r must show, when the others stay as they are.
LEMMA StepJ ==
  ASSUME IInv, JInv, NEW r \in Run, Has(r), NEW m \in Model, m = run[r].model, NEW l,
         run'[r] = l, \A o \in Run \ {r} : run'[o] = run[o],
         UNCHANGED <<store, compacting, covered>>, mixed \subseteq mixed',
         \A k \in Model \ {m} : cache'[k] = cache[k] /\ Decoded(k)' = Decoded(k),
         cache[m] # None => cache'[m] # None,
         cache'[m] # None => cache'[m].generation \in 0 .. generation,
         l # Idle => /\ l.model = m /\ l.snap = run[r].snap /\ l.alone = run[r].alone
                     /\ l.pc # "load" => cache'[m] # None,
         Filled(l),
         m \notin mixed' =>
            /\ OnFile(cache'[m], Decoded(m)', segments)
            /\ Held(Rest(m), cache'[m], Decoded(m)', segments, generation)
            /\ l # Idle => /\ Plan(l, covered[m], cache'[m], Decoded(m)')
                           /\ Written(l, cache'[m], Decoded(m)', segments, New(m))
            /\ \A o \in Run \ {r} : Has(o) /\ run[o].model = m =>
                  /\ Written(run[o], cache'[m], Decoded(m)', segments, New(m))
                  /\ OneWrote(l, run[o])
  PROVE  JInv'
<1>1. UNCHANGED <<passages, segments, generation, compacting, covered>>
  BY DEF store
<1>2. \A k \in Model : Pending(k)' <=> Pending(k)
  BY <1>1 DEF Pending
<1>3. Stored' /\ Moving'
  BY <1>1 DEF JInv, Stored, Moving
<1>4. Dated'
  <2>1. \A k \in Model : cache'[k] # None => cache'[k].generation \in 0 .. generation
    BY DEF JInv, Dated
  <2>2. \A o \in Run : Has(o)' => Has(o) /\ run'[o].snap = run[o].snap
    BY DEF Has
  <2>3. ASSUME NEW o \in Run, Past(o)' PROVE cache'[run'[o].model] # None
    <3>1. CASE o = r
      BY <2>3, <3>1 DEF Past
    <3>2. CASE o # r
      <4>1. run'[o] = run[o] /\ Past(o) /\ Has(o)
        BY <2>3, <3>2 DEF Past, Has
      <4>2. cache[run[o].model] # None /\ run[o].model \in Model
        BY <4>1, RunShape DEF JInv, Dated
      <4> QED BY <4>1, <4>2
    <3> QED BY <3>1, <3>2
  <2> QED BY <1>1, <2>1, <2>2, <2>3 DEF JInv, Dated, Has
<1>5. ASSUME NEW o \in Run PROVE Lonely(o)' /\ Filled(run[o])'
  <2>1. CASE o = r
    BY <1>1, <2>1 DEF JInv, Lonely, Has, Filled
  <2>2. CASE o # r
    <3>1. run'[o] = run[o] /\ ~(Has(o) /\ run[o].alone)
      BY <2>2 DEF JInv, Lonely, Has
    <3> QED BY <3>1 DEF JInv, Lonely, Has, Filled
  <2> QED BY <2>1, <2>2
<1>6. ASSUME NEW k \in Model \ mixed' PROVE Found(k)' /\ Moved(k)'
  <2>1. Found(k)'
    BY <1>1, <1>2, <1>6, RestSame DEF JInv, Found
  <2>2. Moved(k)'
    BY <1>1, <1>2, <1>6, RestSame DEF JInv, Moved, TextAt, Rows
  <2> QED BY <2>1, <2>2
<1>7. ASSUME NEW o \in Run, Has(o)', NEW k \in Model, k = run'[o].model, k \notin mixed'
      PROVE  /\ Plan(run'[o], covered[k], cache'[k], Decoded(k)')
             /\ Written(run'[o], cache'[k], Decoded(k)', segments, New(k))
             /\ \A q \in Run \ {o} : OneWrote(run'[o], run'[q])
  <2>1. CASE o = r
    <3>1. k = m /\ l # Idle
      BY <1>7, <2>1 DEF Has
    <3>2. ASSUME NEW q \in Run \ {r} PROVE OneWrote(l, run[q])
      <4>1. CASE ~Has(q)
        BY <4>1, IdleRun DEF OneWrote, Has
      <4>2. CASE Has(q) /\ run[q].model = m
        BY <1>7, <3>1, <4>2
      <4>3. CASE run[q].model # m
        BY <1>7, <2>1, <3>1, <4>3 DEF OneWrote
      <4> QED BY <4>1, <4>2, <4>3
    <3> QED BY <1>7, <2>1, <3>1, <3>2
  <2>2. CASE o # r
    <3>1. run'[o] = run[o] /\ Has(o) /\ ~run[o].alone /\ k = run[o].model /\ k \notin mixed
      BY <1>7, <2>2 DEF JInv, Lonely, Has
    <3>2. Plan(run'[o], covered[k], cache'[k], Decoded(k)')
      BY <3>1 DEF Plan
    <3>3. /\ Written(run[o], cache[k], Decoded(k), segments, New(k))
          /\ \A q \in Run \ {o} : OneWrote(run[o], run[q])
      BY <3>1 DEF JInv, RunClean
    <3>4. Written(run[o], cache'[k], Decoded(k)', segments, New(k))
      BY <1>7, <2>2, <3>1, <3>3
    <3>5. OneWrote(run[o], l)
      <4>1. CASE k = m
        BY <1>7, <2>2, <3>1, <4>1 DEF OneWrote
      <4>2. CASE k # m /\ l # Idle
        BY <3>1, <4>2 DEF OneWrote
      <4>3. CASE l = Idle
        BY <4>3, IdleRun DEF OneWrote
      <4> QED BY <4>1, <4>2, <4>3
    <3> QED BY <2>2, <3>1, <3>2, <3>3, <3>4, <3>5
  <2> QED BY <2>1, <2>2
<1>8. ASSUME NEW o \in Run PROVE RunClean(o)'
  <2>1. \A k \in Model : New(k)' = New(k)
    BY <1>1 DEF New, Pending, store
  <2>2. Has(o)' => run'[o].model \in Model
    BY RunShape DEF Has
  <2> QED BY <1>1, <1>7, <2>1, <2>2 DEF RunClean, Has
<1> QED BY <1>1, <1>3, <1>4, <1>5, <1>6, <1>8 DEF JInv

\* Of a queue, any part asks for no more.
LEMMA Part ==
  ASSUME NEW T, NEW q \in Seq(T), NEW a \in Nat \ {0}, NEW b \in Nat, b <= Len(q)
  PROVE  SubSeq(q, a, b) \in Seq(T) /\ ToSet(SubSeq(q, a, b)) \subseteq ToSet(q)
<1>1. SubSeq(q, a, b) \in Seq(T)
  OBVIOUS
<1>2. Len(SubSeq(q, a, b)) = IF a <= b THEN b - a + 1 ELSE 0
  OBVIOUS
<1>3. \A i \in 1 .. Len(SubSeq(q, a, b)) : SubSeq(q, a, b)[i] = q[a + i - 1] /\ a + i - 1 \in 1 .. Len(q)
  BY <1>2
<1>4. DOMAIN q = 1 .. Len(q) /\ DOMAIN SubSeq(q, a, b) = 1 .. Len(SubSeq(q, a, b))
  BY <1>1
<1> QED BY <1>1, <1>3, <1>4 DEF ToSet

LEMMA MinOf ==
  ASSUME NEW a \in Nat, NEW b \in Nat
  PROVE  Min({a, b}) \in Nat /\ Min({a, b}) <= a /\ Min({a, b}) <= b
<1>1. \E x \in {a, b} : \A y \in {a, b} : x <= y
  OBVIOUS
<1>2. Min({a, b}) \in {a, b} /\ \A y \in {a, b} : Min({a, b}) <= y
  BY <1>1 DEF Min
<1> QED BY <1>2

\* The others, where the run's step touches neither files nor tables.
LEMMA QuietStepJ ==
  ASSUME IInv, JInv, NEW r \in Run, Has(r), NEW m \in Model, m = run[r].model, NEW l,
         run'[r] = l, \A o \in Run \ {r} : run'[o] = run[o],
         UNCHANGED <<store, files, cache, compacting, hist>>,
         l # Idle => /\ l.model = m /\ l.snap = run[r].snap /\ l.alone = run[r].alone
                     /\ l.pc # "load" => cache[m] # None,
         Filled(l),
         m \notin mixed =>
            /\ l # Idle => /\ Plan(l, covered[m], cache[m], Decoded(m))
                           /\ Written(l, cache[m], Decoded(m), segments, New(m))
            /\ \A o \in Run \ {r} : Has(o) /\ run[o].model = m => OneWrote(l, run[o])
  PROVE  JInv'
<1>1. \A k \in Model : Decoded(k)' = Decoded(k)
  BY DEF Decoded
<1>2. UNCHANGED <<covered, mixed>>
  BY DEF hist
<1>3. cache[m] # None => cache[m].generation \in 0 .. generation
  BY DEF JInv, Dated
<1>4. m \notin mixed =>
         /\ OnFile(cache[m], Decoded(m), segments)
         /\ Held(Rest(m), cache[m], Decoded(m), segments, generation)
         /\ \A o \in Run \ {r} : Has(o) /\ run[o].model = m =>
               Written(run[o], cache[m], Decoded(m), segments, New(m))
  BY DEF JInv, Found, RunClean
<1> QED BY <1>1, <1>2, <1>3, <1>4, StepJ

LEMMA BatchJ ==
  ASSUME IInv, JInv, NEW r \in Run, EmbedBatch(r)
  PROVE  JInv'
<1> DEFINE c == run[r]
           n == Min({Batch, Len(run[r].queue)})
           got == Quantized(ToSet(SubSeq(run[r].queue, 1, n)))
           rest == SubSeq(run[r].queue, n + 1, Len(run[r].queue))
           more == run[r].vectors \cup got
           goOn == [run[r] EXCEPT !.vectors = more, !.queue = rest]
<1>1. /\ c.pc = "embed" /\ UNCHANGED <<store, files, cache, compacting, hist>> /\ DOMAIN run = Run
      /\ \/ run' = [run EXCEPT ![r] = goOn]
         \/ run' = [run EXCEPT ![r] = [run[r] EXCEPT !.queue = <<>>, !.failed = TRUE]]
         \/ run' = [run EXCEPT ![r] = [goOn EXCEPT !.queue = <<>>]]
  BY DEF EmbedBatch, At, IInv, InRuns
<1>2. c.queue \in Seq(Text) /\ ToSet(c.queue) \cap Vectors(c.existing) = {}
  BY <1>1 DEF JInv, Filled
<1>3. rest \in Seq(Text) /\ ToSet(rest) \subseteq ToSet(c.queue)
  <2>1. Len(c.queue) \in Nat /\ n \in Nat /\ n + 1 \in Nat \ {0}
    BY <1>2, MinOf, EmbedAssumption
  <2> HIDE DEF n, c
  <2> QED BY <1>2, <2>1, Part DEF c
<1> HIDE DEF rest, got, more
<1>4. PICK l : /\ run'[r] = l /\ \A o \in Run \ {r} : run'[o] = run[o]
               /\ DOMAIN l = DOMAIN c /\ l.queue \in {<<>>, rest}
               /\ \A f \in DOMAIN c : f \notin {"queue", "vectors", "failed"} => l[f] = c[f]
  <2>1. /\ \A o \in Run \ {r} : run'[o] = run[o]
        /\ \/ run'[r] = goOn
           \/ run'[r] = [run[r] EXCEPT !.queue = <<>>, !.failed = TRUE]
           \/ run'[r] = [goOn EXCEPT !.queue = <<>>]
    BY <1>1
  <2>2. {"queue", "vectors", "failed"} \subseteq DOMAIN c
    BY <1>1 DEF IInv, InRuns, InRun, Idle
  <2>3. DOMAIN run'[r] = DOMAIN c /\ run'[r].queue \in {<<>>, rest}
    BY <2>1, <2>2
  <2>4. \A f \in DOMAIN c : f \notin {"queue", "vectors", "failed"} => run'[r][f] = c[f]
    BY <2>1, <2>2
  <2> QED BY <2>1, <2>3, <2>4
<1>5. /\ Has(r) /\ c.model \in Model
      /\ DOMAIN c = {"pc", "model", "snap", "alone", "existing", "staged", "queue", "vectors", "failed"}
  BY <1>1 DEF IInv, InRuns, InRun, Idle, Has
<1>6. /\ l.pc = "embed" /\ l.model = c.model /\ l.snap = c.snap /\ l.alone = c.alone
      /\ l.existing = c.existing /\ l # Idle
  BY <1>1, <1>4, <1>5 DEF Idle
<1>7. Filled(l)
  <2>1. l.queue \in Seq(Text) /\ ToSet(l.queue) \subseteq ToSet(c.queue)
    <3>1. <<>> \in Seq(Text) /\ ToSet(<<>>) = {}
      BY DEF ToSet
    <3> QED BY <1>3, <1>4, <3>1
  <2> QED BY <1>2, <1>6, <2>1 DEF Filled
<1>8. cache[c.model] # None
  BY <1>1, <1>5 DEF JInv, Dated, Past, Has
<1> DEFINE m == c.model
<1>9. m \notin mixed =>
         /\ Plan(l, covered[m], cache[m], Decoded(m))
         /\ Written(l, cache[m], Decoded(m), segments, New(m))
         /\ \A o \in Run \ {r} : OneWrote(l, run[o])
  <2> SUFFICES ASSUME m \notin mixed
               PROVE  /\ Plan(l, covered[m], cache[m], Decoded(m))
                      /\ Written(l, cache[m], Decoded(m), segments, New(m))
                      /\ \A o \in Run \ {r} : OneWrote(l, run[o])
    OBVIOUS
  <2>1. Plan(c, covered[m], cache[m], Decoded(m))
    BY <1>5 DEF JInv, RunClean
  <2> QED BY <1>1, <1>6, <2>1 DEF Plan, Written, OneWrote
<1> QED BY <1>1, <1>4, <1>5, <1>6, <1>7, <1>8, <1>9, QuietStepJ

LEMMA FillKeeps ==
  ASSUME NEW T, NEW segs, NEW texts, NEW snap, Right(T, passages)
  PROVE  /\ DOMAIN Fill(T, segs, texts, snap) = segs
         /\ Below(T, Fill(T, segs, texts, snap), segs)
<1> DEFINE F == Fill(T, segs, texts, snap)
<1>1. /\ DOMAIN F = segs /\ \A s \in segs : DOMAIN F[s] = Rows(s)
      /\ \A s \in segs : \A p \in Rows(s) : s \in DOMAIN T /\ T[s][p] # None => F[s][p] = T[s][p]
  BY DEF Fill
<1>2. \A s \in DOMAIN T : DOMAIN T[s] = Rows(s)
  BY DEF Right, RightTable, Rows
<1> QED BY <1>1, <1>2 DEF Below

LEMMA FinishJ ==
  ASSUME IInv, JInv, NEW r \in Run, Finish(r)
  PROVE  JInv'
<1> DEFINE c == run[r]
           m == c.model
           F == Fill(c.existing, c.staged, c.vectors, c.snap)
           l == [pc |-> "write", model |-> c.model, snap |-> c.snap, alone |-> c.alone,
                 failed |-> c.failed, existing |-> c.existing, tables |-> F, todo |-> c.staged]
<1>1. c.pc = "embed" /\ run' = [run EXCEPT ![r] = l] /\ UNCHANGED <<store, files, cache, compacting, hist>>
  BY DEF Finish, At
<1>2. Has(r) /\ m \in Model /\ Right(c.existing, passages)
  BY <1>1 DEF IInv, InRuns, InRun, Idle, Has
<1>3. DOMAIN F = c.staged /\ Below(c.existing, F, c.staged)
  BY <1>2, FillKeeps
<1>4. run'[r] = l /\ \A o \in Run \ {r} : run'[o] = run[o]
  BY <1>1 DEF IInv, InRuns
<1>5. cache[m] # None
  BY <1>1, <1>2 DEF JInv, Dated, Past, Has
<1>6. m \notin mixed => Plan(c, covered[m], cache[m], Decoded(m))
  BY <1>2 DEF JInv, RunClean
<1> HIDE DEF F
<1>7. /\ l.pc = "write" /\ l.model = m /\ l.snap = c.snap /\ l.alone = c.alone
      /\ l.existing = c.existing /\ l.tables = F /\ l.todo = c.staged /\ l # Idle
  <2>1. /\ l.pc = "write" /\ l.model = m /\ l.snap = c.snap /\ l.alone = c.alone
        /\ l.existing = c.existing /\ l.tables = F /\ l.todo = c.staged
    OBVIOUS
  <2> HIDE DEF l
  <2> QED BY <2>1, IdleRun
<1> HIDE DEF l
<1>8. Wrote(l) = {}
  BY <1>3, <1>7 DEF Wrote
<1>9. Filled(l)
  BY <1>3, <1>7 DEF Filled
<1>10. m \notin mixed =>
          /\ Plan(l, covered[m], cache[m], Decoded(m))
          /\ Written(l, cache[m], Decoded(m), segments, New(m))
          /\ \A o \in Run \ {r} : OneWrote(l, run[o])
  BY <1>1, <1>6, <1>7, <1>8 DEF Plan, Written, OneWrote, Below
<1> QED BY <1>1, <1>2, <1>4, <1>5, <1>7, <1>9, <1>10, QuietStepJ

\* The texts a run asks for are of its snapshot, and none has a vector.
LEMMA QueueIsWork ==
  ASSUME Stored, NEW existing, NEW snap, snap.segments \subseteq DOMAIN passages,
         NEW work,
         work = Ordered(Firsts({a \in Lacking(existing, snap) : TextAt(a) \notin Vectors(existing)}), Before),
         NEW texts, texts = [i \in DOMAIN work |-> TextAt(work[i])],
         NEW queue, queue = SubSeq(texts, 1, Min({MaxPassages, Len(texts)}))
  PROVE  queue \in Seq(Text) /\ ToSet(queue) \cap Vectors(existing) = {}
<1> DEFINE W == Firsts({a \in Lacking(existing, snap) : TextAt(a) \notin Vectors(existing)})
           n == Cardinality(W)
<1>1. \A a \in W : a \in Passages(snap) /\ TextAt(a) \notin Vectors(existing)
  BY DEF Firsts, Lacking
<1>2. \A a \in W : \E s \in snap.segments : \E p \in Rows(s) : a = <<s, p>>
  BY <1>1 DEF Passages
<1> HIDE DEF W
<1>3. /\ IsFiniteSet(W)
      /\ \A a \in W : /\ a = <<a[1], a[2]>> /\ a[1] \in Nat /\ a[2] \in Nat
                      /\ passages[a[1]][a[2]] \in [doc : Doc, text : Text]
  <2>1. passages \in Seq(Seq([doc : Doc, text : Text])) /\ snap.segments \in SUBSET DOMAIN passages
    BY DEF Stored
  <2> QED BY <1>2, <2>1, FiniteRows
<1>4. n \in Nat /\ work \in [1 .. n -> W]
  BY <1>3, BeforeOrdered DEF W
<1>5. \A a \in W : TextAt(a) \in Text
  BY <1>3 DEF TextAt
<1>6. DOMAIN texts = 1 .. n /\ \A i \in 1 .. n : texts[i] \in Text /\ texts[i] \notin Vectors(existing)
  BY <1>1, <1>4, <1>5
<1>7. texts \in Seq(Text) /\ Len(texts) = n
  <2>1. texts \in [1 .. n -> Text]
    BY <1>6
  <2> HIDE DEF n
  <2> QED BY <1>4, <2>1
<1>8. ToSet(texts) \cap Vectors(existing) = {}
  BY <1>6 DEF ToSet
<1>9. Min({MaxPassages, Len(texts)}) \in Nat /\ Min({MaxPassages, Len(texts)}) <= Len(texts)
  BY <1>4, <1>7, MinOf, EmbedAssumption
<1>10. queue \in Seq(Text) /\ ToSet(queue) \subseteq ToSet(texts)
  <2> DEFINE k == Min({MaxPassages, Len(texts)})
  <2>1. k \in Nat /\ k <= Len(texts) /\ 1 \in Nat \ {0}
    BY <1>9
  <2> HIDE DEF k
  <2>2. SubSeq(texts, 1, k) \in Seq(Text) /\ ToSet(SubSeq(texts, 1, k)) \subseteq ToSet(texts)
    BY <1>7, <2>1, Part
  <2> QED BY <2>2 DEF k
<1> QED BY <1>8, <1>10

LEMMA LoadJ ==
  ASSUME IInv, JInv, NEW r \in Run, Load(r)
  PROVE  JInv'
<1> DEFINE c == run[r]
           m == c.model
           snap == c.snap
           e == Loaded(m, snap)
           existing == Tables(m, snap)
           lacking == Lacking(existing, snap)
           work == Ordered(Firsts({a \in lacking : TextAt(a) \notin Vectors(existing)}), Before)
           texts == [i \in DOMAIN work |-> TextAt(work[i])]
           queue == SubSeq(texts, 1, Min({MaxPassages, Len(texts)}))
           l == [pc |-> "embed", model |-> m, snap |-> snap, alone |-> c.alone,
                 existing |-> existing, staged |-> {a[1] : a \in lacking},
                 queue |-> queue, vectors |-> Vectors(existing), failed |-> FALSE]
<1>1. /\ c.pc = "load" /\ run' = [run EXCEPT ![r] = l] /\ cache' = [cache EXCEPT ![m] = e]
      /\ UNCHANGED <<store, files, compacting, hist>>
  BY DEF Load, At
<1>2. Has(r)
  BY <1>1, IdleRun DEF Has
<1>3. m \in Model /\ snap.segments \subseteq DOMAIN passages
  BY <1>2, RunShape
<1>4. run'[r] = l /\ \A o \in Run \ {r} : run'[o] = run[o]
  BY <1>1 DEF IInv, InRuns
<1>5. cache'[m] = e /\ \A k \in Model \ {m} : cache'[k] = cache[k]
  BY <1>1, <1>3 DEF IInv, InCache
<1>6. e # None /\ e.generation = snap.generation /\ e.tables = existing /\ e.generation \in 0 .. generation
  <2>1. e # None /\ e.generation = snap.generation /\ e.tables = existing
    BY NotNone DEF Loaded
  <2>2. snap.generation \in 0 .. generation
    BY <1>2 DEF JInv, Dated
  <2> QED BY <2>1, <2>2
<1>7. queue \in Seq(Text) /\ ToSet(queue) \cap Vectors(existing) = {}
  BY <1>3, QueueIsWork DEF JInv
<1>8. m \notin mixed =>
         /\ OnFile(e, Decoded(m), segments)
         /\ Held(Rest(m), e, Decoded(m), segments, generation)
         /\ \A o \in Run : Has(o) /\ run[o].model = m => Written(run[o], e, Decoded(m), segments, New(m))
  <2>1. snap.generation = generation => snap.segments = segments
    BY <1>2 DEF JInv, Dated
  <2> HIDE DEF c, e
  <2> QED BY <1>3, <2>1, LoadedKeeps DEF e
<1>9. m \notin mixed /\ c.alone => /\ AllIn(covered[m], existing, snap.segments)
                                   /\ Below(existing, Decoded(m), snap.segments)
  <2> SUFFICES ASSUME m \notin mixed, c.alone
               PROVE  /\ AllIn(covered[m], existing, snap.segments)
                      /\ Below(existing, Decoded(m), snap.segments)
    OBVIOUS
  <2>1. Held(covered[m], cache[m], Decoded(m), snap.segments, snap.generation)
    BY <1>1, <1>2 DEF JInv, RunClean, Plan
  <2>2. existing = View(cache[m], Decoded(m), snap.segments, snap.generation)
    BY TablesView
  <2>3. OnFile(cache[m], Decoded(m), snap.segments)
    BY <1>2, <1>3, BelowLess DEF JInv, Found, Lonely, OnFile
  <2>4. AllIn(covered[m], existing, snap.segments)
    BY <2>1, <2>2, ViewHeld
  <2>5. e = Reload(cache[m], Decoded(m), snap.segments, snap.generation)
    BY TablesView
  <2> HIDE DEF e, existing
  <2>6. OnFile(e, Decoded(m), snap.segments)
    BY <2>3, <2>5, ReloadOnFile
  <2> QED BY <1>6, <2>4, <2>6 DEF OnFile
<1> HIDE DEF queue, texts, work, lacking, existing, e
<1>10. /\ l.pc = "embed" /\ l.model = m /\ l.snap = snap /\ l.alone = c.alone
       /\ l.existing = existing /\ l.queue = queue /\ l # Idle
  <2>1. /\ l.pc = "embed" /\ l.model = m /\ l.snap = snap /\ l.alone = c.alone
        /\ l.existing = existing /\ l.queue = queue
    OBVIOUS
  <2> HIDE DEF l
  <2> QED BY <2>1, IdleRun
<1> HIDE DEF l
<1>11. Filled(l)
  BY <1>7, <1>10 DEF Filled
<1>12. m \notin mixed =>
          /\ Plan(l, covered[m], e, Decoded(m)) /\ Written(l, e, Decoded(m), segments, New(m))
          /\ \A o \in Run \ {r} : OneWrote(l, run[o])
  <2>1. Below(existing, e.tables, snap.segments)
    BY <1>6 DEF Below
  <2> QED BY <1>6, <1>9, <1>10, <2>1 DEF Plan, Written, OneWrote
<1>13. \A k \in Model : Decoded(k)' = Decoded(k)
  BY <1>1 DEF Decoded
<1>14. UNCHANGED <<covered, mixed, store, compacting>>
  BY <1>1 DEF hist
<1>15. \E k \in Model : k = m /\ cache'[k] = e /\ Decoded(k)' = Decoded(k)
  BY <1>3, <1>5, <1>13
<1>16. PICK k \in Model : k = m /\ cache'[k] = e /\ Decoded(k)' = Decoded(k)
  BY <1>15
<1>17. \A j \in Model \ {k} : cache'[j] = cache[j] /\ Decoded(j)' = Decoded(j)
  BY <1>5, <1>13, <1>16
<1> QED BY <1>2, <1>4, <1>6, <1>8, <1>10, <1>11, <1>12, <1>14, <1>16, <1>17, StepJ

LEMMA InsertJ ==
  ASSUME IInv, JInv, NEW r \in Run, Insert(r)
  PROVE  JInv'
<1> DEFINE c == run[r]
           l == [run[r] EXCEPT !.pc = "prune"]
<1>1. /\ c.pc = "write" /\ c.todo = {} /\ cache' = Inserted(c.model, c.tables) /\ run' = [run EXCEPT ![r] = l]
      /\ UNCHANGED <<store, files, compacting, hist>>
  BY DEF Insert, At
<1>2. Has(r)
  BY <1>1, IdleRun DEF Has
<1>3. PICK m \in Model : m = c.model
  BY <1>2, RunShape
<1>4. cache[m] # None /\ Entry(cache[m])
  BY <1>1, <1>2, <1>3, EntryOk DEF JInv, Dated, Past, Has
<1> DEFINE k == cache[m]
           T == c.tables
           e == Put1(k, T)
           D == Decoded(m)
           Z == c.snap.segments
<1>5. cache'[m] = e /\ \A o \in Model \ {m} : cache'[o] = cache[o]
  BY <1>1, <1>3, <1>4 DEF Inserted, Put1, Entry, IInv, InCache
<1>6. /\ Entry(e) /\ e.generation = k.generation /\ e # None
      /\ DOMAIN e.tables = DOMAIN k.tables \cup DOMAIN T
      /\ \A s \in DOMAIN e.tables : e.tables[s] = IF s \in DOMAIN T THEN T[s] ELSE k.tables[s]
  BY <1>4, Put1Is
<1>7. \A o \in Model : Decoded(o)' = Decoded(o)
  BY <1>1 DEF Decoded
<1>8. run'[r] = l /\ \A o \in Run \ {r} : run'[o] = run[o]
  BY <1>1 DEF IInv, InRuns
<1>9. DOMAIN c = {"pc", "model", "snap", "alone", "failed", "existing", "tables", "todo"}
  BY <1>1, <1>2 DEF Has, IInv, InRuns, InRun
<1>10. /\ l.pc = "prune" /\ l.model = m /\ l.snap = c.snap /\ l.alone = c.alone /\ l.existing = c.existing
       /\ l.tables = T /\ l.todo = {} /\ l # Idle
  <2>1. l.pc = "prune" /\ \A f \in DOMAIN c : f # "pc" => l[f] = c[f]
    BY <1>9
  <2> QED BY <1>1, <1>3, <1>9, <2>1, IdleRun
<1>11. Below(c.existing, T, DOMAIN T)
  BY <1>1 DEF JInv, Filled
<1>12. Filled(l)
  BY <1>10, <1>11 DEF Filled
<1>13. m \notin mixed =>
          /\ OnFile(k, D, segments) /\ Held(Rest(m), k, D, segments, generation)
          /\ Plan(c, covered[m], k, D) /\ Written(c, k, D, segments, New(m))
          /\ \A o \in Run \ {r} : /\ OneWrote(c, run[o])
                                  /\ Has(o) /\ run[o].model = m => Written(run[o], k, D, segments, New(m))
  BY <1>2, <1>3 DEF JInv, Found, RunClean
<1>14. \A o \in Run \ {r} : Has(o) => ~run[o].alone
  BY <1>2 DEF JInv, Lonely, Has
<1>15. Wrote(c) = DOMAIN T /\ Wrote(l) = DOMAIN T
  BY <1>1, <1>10 DEF Wrote
<1>16. e.generation \in 0 .. generation
  BY <1>4, <1>6 DEF JInv, Dated
<1>17. cache[m] # None
  BY <1>4
<1> HIDE DEF l, e, k, D
<1>18. ASSUME m \notin mixed
       PROVE  /\ OnFile(e, D, segments) /\ (Held(Rest(m), e, D, segments, generation))
              /\ Plan(l, covered[m], e, D) /\ Written(l, e, D, segments, New(m))
              /\ \A o \in Run \ {r} : Has(o) /\ run[o].model = m =>
                    Written(run[o], e, D, segments, New(m)) /\ OneWrote(l, run[o])
  <2>1. /\ \A s \in DOMAIN T \cap segments : s \in DOMAIN D /\ D[s] = T[s]
        /\ Below(k.tables, T, DOMAIN T \cap segments)
    BY <1>1, <1>13, <1>15, <1>18 DEF Written
  <2>2. k # None /\ Entry(k)
    BY <1>4 DEF k
  <2>3. ASSUME NEW X, Held(X, k, D, segments, generation)
        PROVE  OnFile(e, D, segments) /\ Held(X, e, D, segments, generation)
    BY <1>13, <1>18, <2>1, <2>2, <2>3, InsertHeld DEF e
  <2>4. Held({}, k, D, segments, generation)
    BY DEF Held, AllIn
  <2>5. Plan(l, covered[m], e, D)
    <3> SUFFICES ASSUME c.alone PROVE Plan(l, covered[m], e, D)
      BY <1>10 DEF Plan
    <3>1. AllIn(covered[m], c.existing, Z) /\ Below(c.existing, D, Z) /\ Below(c.existing, k.tables, Z)
      BY <1>1, <1>13, <1>18 DEF Plan
    <3>2. Below(c.existing, e.tables, Z) /\ Below(T, e.tables, Z)
      BY <1>11, <2>2, <3>1, InsertKeeps DEF e
    <3> QED BY <1>10, <3>1, <3>2 DEF Plan
  <2>6. Written(l, e, D, segments, New(m))
    <3>1. Below(e.tables, T, DOMAIN T \cap segments)
      BY <1>6 DEF Below
    <3>2. DOMAIN T \cap segments \cap New(m) = {}
      BY <1>1, <1>13, <1>15, <1>18 DEF Written
    <3> QED BY <1>10, <1>15, <2>1, <3>1, <3>2 DEF Written
  <2>7. ASSUME NEW o \in Run \ {r}, Has(o), run[o].model = m
        PROVE  Written(run[o], e, D, segments, New(m)) /\ OneWrote(l, run[o])
    <3>1. OneWrote(l, run[o])
      BY <1>10 DEF OneWrote
    <3>2. Written(run[o], k, D, segments, New(m)) /\ OneWrote(c, run[o]) /\ ~run[o].alone
      BY <1>13, <1>14, <1>18, <2>7
    <3>3. CASE run[o].pc = "write"
      <4>1. Wrote(run[o]) = {} \/ DOMAIN T = {}
        BY <1>1, <1>3, <1>15, <2>7, <3>2, <3>3 DEF OneWrote
      <4>2. Below(k.tables, run[o].tables, Wrote(run[o]) \cap segments)
        BY <3>2, <3>3 DEF Written
      <4>3. Below(e.tables, run[o].tables, Wrote(run[o]) \cap segments)
        BY <1>6, <4>1, <4>2 DEF Below
      <4> QED BY <3>1, <3>2, <3>3, <4>3 DEF Written
    <3>4. CASE run[o].pc # "write"
      BY <3>1, <3>2, <3>4 DEF Written
    <3> QED BY <3>3, <3>4
  <2> QED BY <1>13, <1>18, <2>3, <2>4, <2>5, <2>6, <2>7
<1>19. UNCHANGED <<store, compacting, covered, mixed>>
  BY <1>1 DEF hist
<1>20. \A o \in Model \ {m} : cache'[o] = cache[o] /\ Decoded(o)' = Decoded(o)
  BY <1>5, <1>7
<1>21. cache'[m] = e /\ Decoded(m)' = D
  BY <1>5, <1>7 DEF D
<1> QED BY <1>2, <1>3, <1>6, <1>8, <1>10, <1>12, <1>16, <1>18, <1>19, <1>20, <1>21, StepJ

LEMMA SidecarJ ==
  ASSUME IInv, JInv, NEW r \in Run, NEW s \in DOMAIN passages, WriteSidecar(r, s)
  PROVE  JInv'
<1> DEFINE c == run[r]
           l == [run[r] EXCEPT !.todo = run[r].todo \ {s}]
           T == c.tables
<1>1. /\ c.pc = "write" /\ s \in c.todo /\ UNCHANGED <<store, cache, compacting, covered>>
      /\ \/ /\ files' = [files EXCEPT ![c.model] = Extend(@, One(s, T[s]))] /\ run' = [run EXCEPT ![r] = l]
            /\ mixed' = IF c.alone /\ ~Overtaken(r, s) THEN mixed ELSE mixed \cup {c.model}
         \/ run' = [run EXCEPT ![r] = Idle] /\ UNCHANGED <<files, mixed>>
  BY DEF WriteSidecar, At
<1>2. Has(r)
  BY <1>1, IdleRun DEF Has
<1>3. PICK m \in Model : m = c.model
  BY <1>2, RunShape
<1>4. cache[m] # None
  BY <1>1, <1>2, <1>3 DEF JInv, Dated, Past, Has
<1>5. \A o \in Run \ {r} : run'[o] = run[o]
  BY <1>1 DEF IInv, InRuns
<1>6. CASE run' = [run EXCEPT ![r] = Idle] /\ UNCHANGED <<files, mixed>>
  <2>1. run'[r] = Idle /\ Filled(Idle)
    BY <1>6, IdleRun DEF IInv, InRuns, Filled
  <2>2. \A o \in Run \ {r} : OneWrote(Idle, run[o])
    BY IdleRun DEF OneWrote
  <2>3. UNCHANGED <<store, files, cache, compacting, hist>>
    BY <1>1, <1>6 DEF hist
  <2> QED BY <1>2, <1>3, <1>5, <2>1, <2>2, <2>3, QuietStepJ
<1>7. CASE /\ files' = [files EXCEPT ![c.model] = Extend(@, One(s, T[s]))] /\ run' = [run EXCEPT ![r] = l]
           /\ mixed' = IF c.alone /\ ~Overtaken(r, s) THEN mixed ELSE mixed \cup {c.model}
  <2> DEFINE k == cache[m]
             D == Decoded(m)
             F == Decoded(m)'
             Z == c.snap.segments
  <2>1. DOMAIN c = {"pc", "model", "snap", "alone", "failed", "existing", "tables", "todo"}
    BY <1>1, <1>2 DEF Has, IInv, InRuns, InRun
  <2>2. /\ Right(T, passages) /\ Right(c.existing, passages) /\ s \in DOMAIN T /\ c.todo \subseteq DOMAIN T
    BY <1>1, <1>2, RunShape
  <2>3. Right(k.tables, passages)
    BY <1>4, EntryOk
  <2>4. DOMAIN T[s] = Rows(s) /\ T[s] # Broken
    <3>1. passages[s] \in Seq([doc : Doc, text : Text]) /\ passages[s] # <<>>
      BY DEF JInv, Stored
    <3>2. Len(passages[s]) \in Nat /\ Len(passages[s]) # 0
      BY <3>1
    <3>3. DOMAIN T[s] = 1 .. Len(passages[s])
      BY <2>2 DEF Right, RightTable
    <3>4. DOMAIN Broken = {}
      BY DEF Broken
    <3> QED BY <3>2, <3>3, <3>4 DEF Rows
  <2>5. DOMAIN files = Model /\ files'[m] = Extend(files[m], One(s, T[s]))
    BY <1>3, <1>7 DEF IInv, OnDisk
  <2>6. s \in DOMAIN F /\ F[s] = T[s] /\ \A x \in {y : y \in DOMAIN D \cup DOMAIN F} \ {s} :
           (x \in DOMAIN D <=> x \in DOMAIN F) /\ (x \in DOMAIN D => F[x] = D[x])
    BY <2>4, <2>5 DEF Decoded, Kept, Extend, One
  <2>7. \A o \in Model \ {m} : cache'[o] = cache[o] /\ Decoded(o)' = Decoded(o)
    BY <1>1, <1>3, <1>7 DEF Decoded, IInv, OnDisk
  <2>8. run'[r] = l
    BY <1>7 DEF IInv, InRuns
  <2>9. /\ l.pc = "write" /\ l.model = m /\ l.snap = c.snap /\ l.alone = c.alone /\ l.existing = c.existing
        /\ l.tables = T /\ l.todo = c.todo \ {s} /\ l # Idle
    <3>1. l.todo = c.todo \ {s} /\ \A f \in DOMAIN c : f # "todo" => l[f] = c[f]
      BY <2>1
    <3> QED BY <1>1, <1>3, <2>1, <3>1, IdleRun
  <2>10. Below(c.existing, T, DOMAIN T)
    BY <1>1 DEF JInv, Filled
  <2>11. Filled(l)
    BY <2>9, <2>10 DEF Filled
  <2>12. mixed \subseteq mixed' /\ (m \notin mixed' => m \notin mixed /\ c.alone /\ ~Overtaken(r, s))
    BY <1>3, <1>7
  <2>13. Wrote(l) = Wrote(c) \cup {s}
    BY <1>1, <2>2, <2>9 DEF Wrote
  <2>14. k.generation \in 0 .. generation
    BY <1>4 DEF JInv, Dated
  <2>15. cache'[m] = k
    BY <1>1
  <2> HIDE DEF l, F
  <2>16. ASSUME m \notin mixed'
         PROVE  /\ OnFile(k, F, segments) /\ Held(Rest(m), k, F, segments, generation)
                /\ Plan(l, covered[m], k, F) /\ Written(l, k, F, segments, New(m))
                /\ \A o \in Run \ {r} : ~Has(o)
    <3>1. /\ c.alone /\ m \notin mixed /\ compacting = None /\ Z \subseteq segments
          /\ \A o \in Run \ {r} : ~Has(o)
      BY <1>2, <2>12, <2>16 DEF JInv, Lonely, Has
    <3>2. OnFile(k, D, segments) /\ Held(covered[m], k, D, segments, generation)
      <4>1. Rest(m) = covered[m]
        BY <3>1, RestAll DEF Pending
      <4> QED BY <3>1, <4>1 DEF JInv, Found
    <3>3. AllIn(covered[m], c.existing, Z) /\ Below(c.existing, D, Z) /\ Below(c.existing, k.tables, Z)
      BY <1>1, <1>2, <1>3, <3>1 DEF JInv, RunClean, Plan
    <3>4. /\ \A x \in Wrote(c) \cap segments : x \in DOMAIN D /\ D[x] = T[x]
          /\ Below(k.tables, T, Wrote(c) \cap segments)
      BY <1>1, <1>2, <1>3, <3>1 DEF JInv, RunClean, Written
    <3>5. Below(k.tables, T, {s})
      <4>1. s \in DOMAIN k.tables => \A p \in Rows(s) : k.tables[s][p] \in {None, T[s][p]}
        BY <1>3, <1>4, <2>12, <2>16 DEF Overtaken
      <4>2. s \in DOMAIN k.tables => DOMAIN k.tables[s] = Rows(s)
        BY <2>3 DEF Right, RightTable, Rows
      <4> QED BY <2>2, <2>4, <4>1, <4>2 DEF Below
    <3> HIDE DEF k, D, T
    <3>6. Same(D, F, segments \ {s})
      BY <2>6 DEF Same
    <3>7. Below(k.tables, F, {s})
      BY <2>6, <3>5 DEF Below
    <3>8. OnFile(k, F, segments) /\ Held(covered[m], k, F, segments, generation)
      <4>1. k # None
        BY <1>4 DEF k
      <4> DEFINE E == c.existing
                 X == covered[m]
      <4>2. AllIn(X, E, Z) /\ Below(E, k.tables, Z)
        BY <3>3
      <4>3. Held(X, k, D, segments, generation) /\ Z \subseteq segments
        BY <3>1, <3>2
      <4> HIDE DEF E, X, Z
      <4> QED BY <3>2, <3>6, <3>7, <4>1, <4>2, <4>3, WriteHeld DEF X
    <3>9. Below(c.existing, F, Z)
      BY <2>2, <2>6, <2>10, <3>3 DEF Below
    <3>10. Plan(l, covered[m], k, F)
      BY <2>9, <3>3, <3>9 DEF Plan
    <3>11. \A x \in Wrote(l) \cap segments : x \in DOMAIN F /\ F[x] = T[x]
      BY <2>6, <2>13, <3>4
    <3>12. Below(k.tables, T, Wrote(l) \cap segments)
      BY <2>13, <3>4, <3>5 DEF Below
    <3>13. Written(l, k, F, segments, New(m))
      BY <2>9, <3>1, <3>11, <3>12 DEF Written, New, Pending
    <3>14. Rest(m) = covered[m]
      BY <3>1, RestAll DEF Pending
    <3> QED BY <3>1, <3>8, <3>10, <3>13, <3>14
  <2> HIDE DEF k
  <2>17. F = Decoded(m)'
    BY DEF F
  <2>18. /\ cache[m] # None => cache'[m] # None
         /\ cache'[m] # None => cache'[m].generation \in 0 .. generation
    BY <1>4, <2>14, <2>15 DEF k
  <2>19. m \notin mixed' =>
            /\ OnFile(cache'[m], Decoded(m)', segments)
            /\ Held(Rest(m), cache'[m], Decoded(m)', segments, generation)
            /\ l # Idle => /\ Plan(l, covered[m], cache'[m], Decoded(m)')
                           /\ Written(l, cache'[m], Decoded(m)', segments, New(m))
            /\ \A o \in Run \ {r} : Has(o) /\ run[o].model = m =>
                  /\ Written(run[o], cache'[m], Decoded(m)', segments, New(m))
                  /\ OneWrote(l, run[o])
    BY <2>15, <2>16, <2>17
  <2>20. l # Idle => /\ l.model = m /\ l.snap = run[r].snap /\ l.alone = run[r].alone
                     /\ l.pc # "load" => cache'[m] # None
    BY <1>4, <2>9, <2>15 DEF k
  <2> QED BY <1>1, <1>2, <1>3, <1>5, <2>7, <2>8, <2>11, <2>12, <2>18, <2>19, <2>20, StepJ
<1> QED BY <1>1, <1>6, <1>7

LEMMA PruneJ ==
  ASSUME IInv, JInv, NEW r \in Run, PruneOthers(r)
  PROVE  JInv'
<1> DEFINE c == run[r]
           X == Covers(r)
           Z == c.snap.segments
<1>1. /\ c.pc = "prune" /\ UNCHANGED <<store, cache, compacting>> /\ run' = [run EXCEPT ![r] = Idle]
      /\ files' = IF Prune THEN [m \in Model |-> IF m = c.model THEN files[m] ELSE NoTables] ELSE files
      /\ covered' = [m \in Model |-> IF m # c.model THEN IF Prune THEN {} ELSE covered[m]
                        ELSE IF c.failed \/ ~c.alone THEN covered[m] ELSE X]
      /\ mixed' = IF Prune THEN mixed \cup {m \in Model : m # c.model /\ cache[m] # None} ELSE mixed
  BY DEF PruneOthers, At
<1>2. Has(r)
  BY <1>1, IdleRun DEF Has
<1>3. PICK m \in Model : m = c.model
  BY <1>2, RunShape
<1>4. /\ run'[r] = Idle /\ \A o \in Run \ {r} : run'[o] = run[o]
      /\ UNCHANGED <<passages, segments, generation, cache, compacting>>
  BY <1>1 DEF IInv, InRuns, store
<1>5. Decoded(m)' = Decoded(m) /\ mixed \subseteq mixed' /\ (m \notin mixed' <=> m \notin mixed)
  BY <1>1, <1>3 DEF Decoded, IInv, OnDisk
<1>6. ASSUME NEW k \in Model \ {m}, k \notin mixed'
      PROVE  /\ k \notin mixed
             /\ \/ cache[k] = None /\ covered'[k] = {}
                \/ Decoded(k)' = Decoded(k) /\ covered'[k] = covered[k]
  BY <1>1, <1>3, <1>6 DEF Decoded
<1>7. \A o \in Run : Has(o)' => o # r /\ Has(o) /\ run'[o] = run[o] /\ ~run[o].alone
  BY <1>2, <1>4 DEF JInv, Lonely, Has
<1>8. cache[m] # None
  BY <1>1, <1>2, <1>3 DEF JInv, Dated, Past, Has
<1>9. DOMAIN covered' = Model /\ covered'[m] = IF c.failed \/ ~c.alone THEN covered[m] ELSE X
  BY <1>1, <1>3
<1> HIDE DEF X
<1>10. Stored' /\ Moving'
  BY <1>4, <1>9 DEF JInv, Stored, Moving
<1>11. Dated'
  BY <1>4, <1>7 DEF JInv, Dated, Has, Past
<1>12. ASSUME NEW o \in Run PROVE Lonely(o)' /\ Filled(run[o])'
  <2>1. CASE o = r
    BY <1>4, <2>1, IdleRun DEF Lonely, Filled, Has
  <2>2. CASE o # r
    BY <1>4, <1>7, <2>2 DEF JInv, Lonely, Filled
  <2> QED BY <2>1, <2>2
<1>13. ASSUME m \notin mixed, c.alone
       PROVE  Held(X, cache[m], Decoded(m), segments, generation) /\ compacting = None
  <2> DEFINE U == Extend(c.existing, c.tables)
             e == cache[m]
  <2>1. Z \subseteq segments /\ compacting = None
    BY <1>2, <1>13 DEF JInv, Lonely
  <2>2. Below(c.existing, e.tables, Z) /\ Below(c.tables, e.tables, Z)
    BY <1>1, <1>2, <1>3, <1>13 DEF JInv, RunClean, Plan
  <2>3. Right(c.existing, passages) /\ Right(c.tables, passages)
    BY <1>1, <1>2, RunShape
  <2>4. Right(U, passages)
    BY <2>3, RightExtend
  <2>5. Below(U, e.tables, Z)
    BY <2>2 DEF Below, Extend
  <2>6. AllIn(X, U, Z)
    <3> SUFFICES ASSUME NEW a \in Covers(r)
                 PROVE  /\ a[1] \in DOMAIN U \cap Z
                        /\ a[2] \in DOMAIN U[a[1]] /\ U[a[1]][a[2]] # None
      BY DEF AllIn, X
    <3>1. PICK s \in Z : \E p \in Rows(s) : a = <<s, p>>
      BY DEF Covers, Passages
    <3>2. PICK p \in Rows(s) : a = <<s, p>>
      BY <3>1
    <3>3. s \in DOMAIN U /\ U[s][p] # None
      BY <3>2 DEF Covers, Embedded
    <3>4. p \in DOMAIN U[s]
      BY <2>4, <3>2, <3>3 DEF Right, RightTable, Rows
    <3> QED BY <3>1, <3>2, <3>3, <3>4
  <2> HIDE DEF U, Z, e
  <2>7. AllIn(X, e.tables, Z)
    BY <2>5, <2>6, AllInBelow
  <2>8. AllIn(X, e.tables, segments)
    BY <2>1, <2>7, AllInMore
  <2>9. e # None
    BY <1>8 DEF e
  <2>10. AllIn(X, Mix(e, Decoded(m)), segments)
    BY <2>8, <2>9, MixBelow, AllInBelow
  <2> QED BY <2>1, <2>8, <2>10 DEF Held, e
<1>14. ASSUME NEW k \in Model \ mixed' PROVE Found(k)' /\ Moved(k)'
  <2>1. CASE k = m
    <3>1. Found(m) /\ Moved(m) /\ m \notin mixed
      BY <1>5, <1>14, <2>1 DEF JInv
    <3>2. CASE c.failed \/ ~c.alone
      <4>1. covered'[m] = covered[m]
        BY <1>9, <3>2
      <4>2. Rest(m)' = Rest(m) /\ New(m)' = New(m)
        BY <1>4, <4>1, RestSame DEF Pending
      <4> QED BY <1>4, <1>5, <2>1, <3>1, <4>1, <4>2 DEF Found, Moved, TextAt, Rows
    <3>3. CASE ~(c.failed \/ ~c.alone)
      <4>1. covered'[m] = X /\ compacting' = None
        BY <1>4, <1>9, <1>13, <3>1, <3>3
      <4>2. Held(covered'[m], cache[m], Decoded(m), segments, generation)
        BY <1>13, <3>1, <3>3, <4>1
      <4>3. Rest(m)' = covered'[m]
        BY <4>1 DEF Rest, New, Pending
      <4> QED BY <1>4, <1>5, <2>1, <3>1, <4>1, <4>2, <4>3 DEF Found, Moved
    <3> QED BY <3>2, <3>3
  <2>2. CASE k # m
    <3>1. Found(k) /\ Moved(k)
      BY <1>6, <1>14, <2>2 DEF JInv
    <3>2. CASE Decoded(k)' = Decoded(k) /\ covered'[k] = covered[k]
      <4>1. Rest(k)' = Rest(k) /\ New(k)' = New(k)
        BY <1>4, <3>2, RestSame DEF Pending
      <4> QED BY <1>4, <3>1, <3>2, <4>1 DEF Found, Moved, TextAt, Rows
    <3>3. CASE cache[k] = None /\ covered'[k] = {}
      <4>1. Rest(k)' = {}
        BY <3>3 DEF Rest
      <4> QED BY <1>4, <3>1, <3>3, <4>1 DEF Found, Moved, OnFile, Held, AllIn
    <3> QED BY <1>6, <1>14, <2>2, <3>2, <3>3
  <2> QED BY <2>1, <2>2
<1>15. ASSUME NEW o \in Run, Has(o)', NEW k \in Model, k = run[o].model, k \notin mixed'
       PROVE  /\ Plan(run[o], covered'[k], cache[k], Decoded(k)')
              /\ Written(run[o], cache[k], Decoded(k)', segments, New(k))
              /\ \A q \in Run \ {o} : OneWrote(run[o], run'[q])
  <2>1. o # r /\ Has(o) /\ ~run[o].alone /\ k \notin mixed
    BY <1>5, <1>7, <1>15
  <2>2. Plan(run[o], covered'[k], cache[k], Decoded(k)')
    BY <2>1 DEF Plan
  <2>3. /\ Written(run[o], cache[k], Decoded(k), segments, New(k))
        /\ \A q \in Run \ {o} : OneWrote(run[o], run[q])
    BY <1>15, <2>1 DEF JInv, RunClean
  <2>4. Written(run[o], cache[k], Decoded(k)', segments, New(k))
    <3>1. CASE Decoded(k)' = Decoded(k)
      BY <2>3, <3>1
    <3>2. CASE k # m /\ cache[k] = None
      <4>1. run[o].pc = "load"
        BY <1>15, <2>1, <3>2 DEF JInv, Dated, Past, Has
      <4> QED BY <4>1 DEF Written
    <3> QED BY <1>5, <1>6, <1>15, <3>1, <3>2
  <2>5. ASSUME NEW q \in Run \ {o} PROVE OneWrote(run[o], run'[q])
    BY <1>4, <2>3, IdleRun DEF OneWrote
  <2> QED BY <2>2, <2>4, <2>5
<1>16. ASSUME NEW o \in Run PROVE RunClean(o)'
  <2>1. \A k \in Model : New(k)' = New(k)
    BY <1>4 DEF New, Pending
  <2>2. Has(o)' => run'[o] = run[o] /\ run[o].model \in Model
    BY <1>7, RunShape
  <2> QED BY <1>4, <1>15, <2>1, <2>2 DEF RunClean, Has
<1> QED BY <1>10, <1>11, <1>12, <1>14, <1>16 DEF JInv

-------------------------------------------------------------------------------
(* A compaction moves the passages *)

\* A row of the new segment has the document it was made of.
LEMMA LiveIs ==
  ASSUME IInv, Stored, NEW S \in SUBSET segments, NEW live, live = Live(S),
         NEW docs, docs = [i \in DOMAIN live |-> passages[live[i][1]][live[i][2]]]
  PROVE  /\ docs \in Seq([doc : Doc, text : Text]) /\ DOMAIN docs = 1 .. Len(docs)
         /\ DOMAIN docs = DOMAIN live /\ \A i \in DOMAIN live : docs[i].text = TextAt(live[i])
<1> DEFINE A == {a \in Passages(Snapshot) : a[1] \in S}
           n == Cardinality(A)
           Row == [doc : Doc, text : Text]
<1>1. \A a \in A : \E s \in segments : \E p \in Rows(s) : a = <<s, p>>
  BY DEF Passages, Snapshot
<1>2. live = Ordered(A, Earlier)
  BY DEF Live
<1> HIDE DEF A
<1>3. /\ IsFiniteSet(A)
      /\ \A a \in A : /\ a = <<a[1], a[2]>> /\ a[1] \in Nat /\ a[2] \in Nat
                      /\ passages[a[1]][a[2]] \in Row
  <2>1. segments \in SUBSET DOMAIN passages /\ passages \in Seq(Seq([doc : Doc, text : Text]))
    BY DEF IInv, Numbered, Stored
  <2> QED BY <1>1, <2>1, FiniteRows
<1>4. n \in Nat /\ live \in [1 .. n -> A]
  <2>1. Cardinality(A) \in Nat /\ Ordered(A, Earlier) \in [1 .. Cardinality(A) -> A]
    BY <1>3, EarlierOrdered
  <2> QED BY <1>2, <2>1
<1> HIDE DEF n, Row
<1>5. docs \in [1 .. n -> Row]
  BY <1>3, <1>4
<1>6. docs \in Seq(Row) /\ Len(docs) = n
  BY <1>4, <1>5
<1>7. \A i \in DOMAIN live : docs[i].text = TextAt(live[i])
  BY DEF TextAt
<1> QED BY <1>4, <1>5, <1>6, <1>7 DEF Row

LEMMA CommitJ ==
  ASSUME IInv, JInv, CompactCommit
  PROVE  JInv'
<1> DEFINE drop == compacting.drop
           live == Live(drop)
           docs == [i \in DOMAIN live |-> passages[live[i][1]][live[i][2]]]
           new == IF docs = <<>> THEN {} ELSE {Len(passages) + 1}
           todo == {m \in Model : new # {} /\ compacting.carried[m] # {}}
           K == segments \ drop
           L == K \cup new
           Segment == Seq([doc : Doc, text : Text])
<1>1. /\ compacting # None /\ ~compacting.committed /\ Publish(L, {})
      /\ passages' = passages \o (IF docs = <<>> THEN <<>> ELSE <<docs>>)
      /\ compacting' = [compacting EXCEPT !.committed = TRUE, !.todo = todo]
      /\ covered' = [m \in Model |-> Moves(covered[m], drop)]
      /\ UNCHANGED <<cache, run, count, mixed>>
  BY DEF CompactCommit
<1>2. drop \subseteq segments /\ compacting.todo = {} /\ DOMAIN compacting.carried = Model
  BY <1>1 DEF JInv, Moving
<1>3. DOMAIN compacting = {"drop", "carried", "committed", "todo"}
  BY <1>1 DEF IInv, Carrying
<1>4. /\ compacting'.committed /\ compacting'.todo = todo /\ compacting'.carried = compacting.carried
      /\ compacting' # None
  <2>1. DOMAIN compacting' = DOMAIN compacting /\ "absent" \notin DOMAIN compacting
    BY <1>1, <1>3
  <2> QED BY <1>1, <1>3, <2>1 DEF None
<1>5. /\ segments' = L /\ generation' = generation + 1 /\ generation \in Nat
      /\ files' = [m \in Model |-> Kept(files[m], L)] /\ DOMAIN files = Model
  BY <1>1 DEF Publish, JInv, Dated, IInv, OnDisk
<1>6. /\ passages \in Seq(Segment) /\ DOMAIN passages = 1 .. Len(passages) /\ Len(passages) \in Nat
      /\ \A s \in DOMAIN passages : passages[s] # <<>>
  <2>1. passages \in Seq(Segment) /\ \A s \in DOMAIN passages : passages[s] # <<>>
    BY DEF JInv, Stored
  <2> HIDE DEF Segment
  <2> QED BY <2>1
<1>7. /\ docs \in Segment /\ DOMAIN docs = 1 .. Len(docs) /\ DOMAIN docs = DOMAIN live
      /\ \A i \in DOMAIN live : docs[i].text = TextAt(live[i])
  BY <1>2, LiveIs DEF JInv
<1> HIDE DEF docs, live
<1>8. segments \subseteq DOMAIN passages
  BY DEF IInv, Numbered
<1>9. /\ docs = <<>> => passages' = passages
      /\ docs # <<>> => /\ passages' = Append(passages, docs)
                        /\ Len(passages') = Len(passages) + 1 /\ passages'[Len(passages) + 1] = docs
  <2>1. \E S : passages \in Seq(S)
    BY <1>6
  <2> HIDE DEF Segment
  <2>2. passages \o <<>> = passages
    BY <1>6
  <2>3. /\ passages \o <<docs>> = Append(passages, docs) /\ Len(Append(passages, docs)) = Len(passages) + 1
        /\ Append(passages, docs)[Len(passages) + 1] = docs
    BY <2>1, AppendGrows
  <2> QED BY <1>1, <2>2, <2>3
<1>10. Stored'
  <2> HIDE DEF Segment
  <2>1. passages' \in Seq(Segment)
    BY <1>6, <1>7, <1>9
  <2>2. \A s \in DOMAIN passages' : passages'[s] # <<>>
    <3>1. CASE docs = <<>>
      BY <1>6, <1>9, <3>1
    <3>2. CASE docs # <<>>
      <4>1. \A s \in DOMAIN passages' : s \in DOMAIN passages \/ s = Len(passages) + 1
        BY <1>6, <1>9, <3>2
      <4>2. \A s \in DOMAIN passages : passages'[s] = passages[s]
        BY <1>6, <1>9, <3>2
      <4> QED BY <1>6, <1>9, <3>2, <4>1, <4>2
    <3> QED BY <3>1, <3>2
  <2>3. DOMAIN covered' = Model
    BY <1>1
  <2> QED BY <2>1, <2>2, <2>3 DEF Stored, Segment
<1>11. Dated'
  <2>1. \A r \in Run : ~(Has(r) /\ run[r].snap.generation = generation + 1)
    BY <1>5 DEF JInv, Dated
  <2> QED BY <1>1, <1>5, <2>1 DEF JInv, Dated, Has, Past
<1>12. Moving'
  <2>1. new # {} => Len(passages') \in L
    BY <1>9
  <2> QED BY <1>2, <1>4, <1>5, <2>1 DEF Moving
<1>13. \A r \in Run : ~(Has(r) /\ run[r].alone)
  BY <1>1 DEF JInv, Lonely
<1>14. \A r \in Run : Lonely(r)' /\ Filled(run[r])'
  BY <1>1, <1>13 DEF JInv, Lonely, Filled, Has
<1>15. \A S \in SUBSET DOMAIN passages : S \cap L = S \cap K
  BY <1>6
<1>16. ASSUME NEW m \in Model PROVE Same(Decoded(m), Decoded(m)', K)
  <2>1. Same(Decoded(m), Decoded(m)', L)
    BY <1>5, DecodedKept
  <2> QED BY <2>1 DEF Same
<1>17. ASSUME NEW m \in Model, m \notin mixed PROVE Found(m)' /\ Moved(m)'
  <2> DEFINE X == covered[m]
             Y == Rest(m)'
             kept == {a \in X : a[1] \notin drop}
             texts == {TextAt(a) : a \in {b \in X : b[1] \in drop}}
             moved == {<<Len(passages) + 1, i>> : i \in {j \in DOMAIN live : TextAt(live[j]) \in texts}}
             g == generation
  <2>1. None \notin compacting.carried[m] /\ texts \subseteq compacting.carried[m]
    BY <1>1, <1>17 DEF JInv, Moved
  <2>2. OnFile(cache[m], Decoded(m), segments) /\ Held(X, cache[m], Decoded(m), segments, g)
    <3>1. ~Pending(m)
      BY <1>2 DEF Pending
    <3> QED BY <1>17, <3>1, RestAll DEF JInv, Found
  <2>3. covered'[m] = kept \cup moved
    BY <1>1 DEF Moves, live
  <2>4. Pending(m)' <=> new # {} /\ compacting.carried[m] # {}
    BY <1>4 DEF Pending
  <2>5. moved # {} => Pending(m)' /\ Len(passages') = Len(passages) + 1 /\ docs # <<>>
    <3> SUFFICES ASSUME NEW i \in DOMAIN live, TextAt(live[i]) \in texts
                 PROVE  Pending(m)' /\ Len(passages') = Len(passages) + 1 /\ docs # <<>>
      OBVIOUS
    <3>1. docs # <<>>
      BY <1>7
    <3> QED BY <1>9, <2>1, <2>4, <3>1
  <2>6. \A a \in kept : a[1] \in K
    <3>1. \A a \in X : a[1] \in segments
      BY <2>2 DEF Held, AllIn
    <3> QED BY <3>1
  <2>7. Y \subseteq kept
    <3>1. \A a \in moved : a[1] = Len(passages) + 1
      OBVIOUS
    <3> HIDE DEF kept, moved
    <3>2. moved # {} => New(m)' = {Len(passages) + 1}
      BY <2>5 DEF New
    <3> QED BY <2>3, <3>1, <3>2 DEF Rest
  <2>8. Found(m)'
    <3>1. OnFile(cache[m], Decoded(m), K)
      BY <2>2 DEF OnFile, Below
    <3>2. Held(kept, cache[m], Decoded(m), K, g)
      BY <2>2, <2>6, AllInWithin DEF Held
    <3>3. cache[m] # None => /\ DOMAIN cache[m].tables \cap L \subseteq K
                             /\ (cache[m].generation = g + 1 => g + 1 = g)
      <4>1. cache[m] # None => DOMAIN cache[m].tables \subseteq DOMAIN passages
        BY EntryOk DEF Right
      <4>2. cache[m] # None => cache[m].generation # g + 1
        BY <1>5 DEF JInv, Dated
      <4> QED BY <1>15, <4>1, <4>2
    <3>4. Same(Decoded(m), Decoded(m)', K) /\ K \subseteq L
      BY <1>16
    <3> HIDE DEF kept, moved, Y, K, L, X
    <3>5. OnFile(cache[m], Decoded(m)', L) /\ Held(Y, cache[m], Decoded(m)', L, g + 1)
      BY <2>7, <3>1, <3>2, <3>3, <3>4, ListHeld
    <3> QED BY <1>1, <1>5, <3>5 DEF Found, Y
  <2>9. ASSUME NEW a \in covered'[m], a[1] \in New(m)'
        PROVE  a[2] \in Rows(Len(passages))' /\ TextAt(a)' \in compacting.carried[m]
    <3>1. docs # <<>> /\ a[1] = Len(passages) + 1 /\ Len(passages') = Len(passages) + 1
      BY <1>9, <2>4, <2>9 DEF New
    <3>2. a \notin kept
      BY <1>6, <1>8, <2>6, <3>1
    <3>3. PICK i \in DOMAIN live : TextAt(live[i]) \in texts /\ a = <<Len(passages) + 1, i>>
      BY <2>3, <3>2
    <3>4. passages'[a[1]] = docs /\ a[2] = i
      BY <1>9, <3>1, <3>3
    <3>5. TextAt(a)' = TextAt(live[i])
      BY <1>7, <3>4 DEF TextAt
    <3>6. a[2] \in Rows(Len(passages))'
      BY <1>7, <1>9, <3>1, <3>3, <3>4 DEF Rows
    <3> QED BY <2>1, <3>3, <3>5, <3>6
  <2>10. Moved(m)'
    BY <1>4, <2>1, <2>9 DEF Moved
  <2> QED BY <2>8, <2>10
<1>18. ASSUME NEW r \in Run PROVE RunClean(r)'
  <2> SUFFICES ASSUME Has(r), NEW m \in Model, m = run[r].model, m \notin mixed
               PROVE  /\ Plan(run[r], covered'[m], cache[m], Decoded(m)')
                      /\ Written(run[r], cache[m], Decoded(m)', L, New(m)')
                      /\ \A o \in Run \ {r} : OneWrote(run[r], run[o])
    BY <1>1, <1>5, RunShape DEF RunClean, Has
  <2>1. ~run[r].alone
    BY <1>13
  <2>2. /\ \A o \in Run \ {r} : OneWrote(run[r], run[o])
        /\ Written(run[r], cache[m], Decoded(m), segments, New(m))
    BY DEF JInv, RunClean
  <2>3. ASSUME run[r].pc = "write" PROVE Written(run[r], cache[m], Decoded(m)', L, New(m)')
    <3> DEFINE W == Wrote(run[r])
    <3>1. W \subseteq DOMAIN passages
      BY <2>3, RunShape DEF Wrote, Right
    <3>2. W \cap L = W \cap K /\ New(m)' \cap DOMAIN passages = {}
      <4>1. New(m)' # {} => New(m)' = {Len(passages) + 1}
        BY <1>4, <1>9 DEF New, Pending
      <4> QED BY <1>6, <1>15, <3>1, <4>1
    <3>3. /\ \A s \in W \cap segments : s \in DOMAIN Decoded(m) /\ Decoded(m)[s] = run[r].tables[s]
          /\ Below(cache[m].tables, run[r].tables, W \cap segments)
      BY <2>2, <2>3 DEF Written
    <3>4. \A s \in W \cap K : s \in DOMAIN Decoded(m)' /\ Decoded(m)'[s] = run[r].tables[s]
      BY <1>16, <3>3 DEF Same
    <3>5. Below(cache[m].tables, run[r].tables, W \cap K)
      BY <3>3 DEF Below
    <3> HIDE DEF K, L
    <3> QED BY <3>1, <3>2, <3>4, <3>5 DEF Written
  <2> QED BY <2>1, <2>2, <2>3 DEF Plan, Written
<1> QED BY <1>1, <1>10, <1>11, <1>12, <1>14, <1>17, <1>18 DEF JInv

LEMMA CarryJ ==
  ASSUME IInv, JInv, NEW m \in Model, CompactCarry(m)
  PROVE  JInv'
<1> DEFINE s == Len(passages)
           table == CarriedTable(m, s)
           new == IF ToSet(table) \subseteq {None} THEN NoTables ELSE One(s, table)
           k == cache[m]
           D == Decoded(m)
           F == Decoded(m)'
           texts == compacting.carried[m]
<1>1. /\ compacting # None /\ m \in compacting.todo /\ UNCHANGED <<store, run, mixed>>
      /\ compacting' = [compacting EXCEPT !.committed = TRUE, !.todo = compacting.todo \ {m}]
      /\ \/ /\ files' = [files EXCEPT ![m] = Extend(@, new)] /\ cache' = Inserted(m, new)
            /\ UNCHANGED covered
         \/ covered' = [covered EXCEPT ![m] = {a \in @ : a[1] # s}] /\ UNCHANGED <<files, cache>>
  BY DEF CompactCarry
<1>2. /\ compacting.committed /\ s \in segments /\ DOMAIN compacting.carried = Model
      /\ compacting.todo \subseteq Model
  BY <1>1 DEF JInv, Moving
<1>3. DOMAIN compacting = {"drop", "carried", "committed", "todo"} /\ s \in DOMAIN passages
  BY <1>1 DEF IInv, Carrying
<1>4. /\ compacting'.committed /\ compacting'.todo = compacting.todo \ {m}
      /\ compacting'.carried = compacting.carried /\ compacting' # None
  <2>1. DOMAIN compacting' = DOMAIN compacting /\ "absent" \notin DOMAIN compacting
    BY <1>1, <1>3
  <2> QED BY <1>1, <1>3, <2>1 DEF None
<1>5. UNCHANGED <<passages, segments, generation, run, mixed>>
  BY <1>1 DEF store
<1>6. DOMAIN files = Model /\ DOMAIN cache = Model /\ DOMAIN covered = Model
  BY DEF IInv, OnDisk, InCache, JInv, Stored
<1>7. \A o \in Model \ {m} : /\ Decoded(o)' = Decoded(o) /\ cache'[o] = cache[o] /\ covered'[o] = covered[o]
                             /\ (Pending(o)' <=> Pending(o))
  <2>1. \A o \in Model \ {m} : cache'[o] = cache[o] /\ covered'[o] = covered[o] /\ files'[o] = files[o]
    BY <1>1, <1>6 DEF Inserted
  <2>2. \A o \in Model \ {m} : Pending(o)' <=> Pending(o)
    BY <1>1, <1>4 DEF Pending
  <2> QED BY <2>1, <2>2 DEF Decoded
<1>8. ~Pending(m)' /\ Pending(m) /\ New(m) = {s} /\ New(m)' = {} /\ Rest(m)' = covered'[m]
  BY <1>1, <1>4 DEF Pending, New, Rest
<1>9. k # None => Entry(k)
  BY EntryOk
<1>10. cache'[m] = k \/ (k # None /\ cache'[m] = Put1(k, new))
  BY <1>1, <1>6, <1>9 DEF Inserted, Put1, Entry
<1>11. k # None => cache'[m] # None /\ cache'[m].generation = k.generation
  BY <1>9, <1>10, Put1Is
<1>12. Stored' /\ Moving'
  BY <1>1, <1>2, <1>4, <1>5, <1>6 DEF JInv, Stored, Moving
<1>13. Dated'
  <2>1. \A o \in Model : cache'[o] # None => cache[o] # None /\ cache'[o].generation = cache[o].generation
    BY <1>7, <1>10, <1>11
  <2>2. \A o \in Model : cache[o] # None => cache'[o] # None
    BY <1>7, <1>11
  <2>3. \A r \in Run : Past(r) => run[r].model \in Model
    BY RunShape DEF Past, Has
  <2> QED BY <1>5, <2>1, <2>2, <2>3 DEF JInv, Dated, Has, Past
<1>14. \A r \in Run : ~(Has(r) /\ run[r].alone)
  BY <1>1 DEF JInv, Lonely
<1>15. \A r \in Run : Lonely(r)' /\ Filled(run[r])'
  BY <1>5, <1>14 DEF JInv, Lonely, Filled, Has
<1>16. ASSUME m \notin mixed PROVE Found(m)'
  <2> DEFINE X == Rest(m)
             S == segments
             g == generation
             n == cache'[m]
  <2>1. OnFile(k, D, S) /\ Held(X, k, D, S, g) /\ None \notin texts
    BY <1>1, <1>16 DEF JInv, Found, Moved
  <2>2. \A a \in covered[m] : \/ a \in X /\ a[1] # s
                              \/ a[1] = s /\ a[2] \in Rows(s) /\ TextAt(a) \in texts
    BY <1>1, <1>8, <1>16 DEF JInv, Moved, Rest
  <2>3. /\ DOMAIN table = Rows(s)
        /\ \A p \in Rows(s) : table[p] = IF passages[s][p].text \in texts THEN passages[s][p].text ELSE None
    BY DEF CarriedTable
  <2>4. \A a \in covered[m] : \/ a \in X /\ a[1] # s
                              \/ a[1] = s /\ a[2] \in DOMAIN table /\ table[a[2]] # None
    BY <2>1, <2>2, <2>3 DEF TextAt
  <2> SUFFICES OnFile(n, F, S) /\ Held(covered'[m], n, F, S, g)
    BY <1>5, <1>8 DEF Found
  <2> HIDE DEF table, texts
  <2>5. CASE covered' = [covered EXCEPT ![m] = {a \in @ : a[1] # s}] /\ UNCHANGED <<files, cache>>
    <3>1. covered'[m] = X /\ n = k /\ F = D
      BY <1>6, <1>8, <2>5 DEF Decoded, Rest
    <3> QED BY <2>1, <3>1
  <2>6. CASE files' = [files EXCEPT ![m] = Extend(@, new)] /\ cache' = Inserted(m, new) /\ UNCHANGED covered
    <3>1. files'[m] = Extend(files[m], new) /\ n = IF k = None THEN k ELSE Put1(k, new)
      BY <1>6, <1>9, <2>6 DEF Inserted, Put1, Entry
    <3>2. CASE ToSet(table) \subseteq {None}
      <4>1. DOMAIN new = {}
        BY <3>2 DEF NoTables
      <4>2. covered'[m] = X
        <5>1. \A i \in DOMAIN table : table[i] = None
          BY <3>2 DEF ToSet
        <5>2. covered[m] \subseteq X
          BY <2>4, <5>1
        <5> QED BY <2>6, <5>2 DEF Rest
      <4> HIDE DEF new
      <4>3. Same(D, F, S)
        BY <3>1, <4>1 DEF Same, Decoded, Kept, Extend
      <4> HIDE DEF X, n, D, F, k, S, g
      <4>4. OnFile(n, D, S) /\ Held(X, n, D, S, g)
        <5>1. CASE k = None
          BY <2>1, <3>1, <5>1
        <5>2. CASE k # None
          <6>1. /\ \A t \in DOMAIN new \cap S : t \in DOMAIN D /\ D[t] = new[t]
                /\ Below(k.tables, new, DOMAIN new \cap S)
            BY <4>1 DEF Below
          <6> QED BY <1>9, <2>1, <3>1, <5>2, <6>1, InsertHeld
        <5> QED BY <5>1, <5>2
      <4>5. OnFile(n, F, S) /\ Held(X, n, F, S, g)
        BY <4>3, <4>4, ListHeld
      <4> QED BY <4>2, <4>5
    <3>3. CASE ~(ToSet(table) \subseteq {None})
      <4>1. new = One(s, table) /\ DOMAIN One(s, table) = {s} /\ One(s, table)[s] = table
        BY <3>3 DEF One
      <4>2. table # Broken
        <5>1. DOMAIN table # {}
          BY <3>3 DEF ToSet
        <5>2. DOMAIN Broken = {}
          BY DEF Broken
        <5> QED BY <5>1, <5>2
      <4>3. s \in DOMAIN F /\ F[s] = table
        BY <3>1, <4>1, <4>2 DEF Decoded, Kept, Extend
      <4>4. Same(D, F, S \ {s})
        BY <3>1, <4>1 DEF Same, Decoded, Kept, Extend
      <4>5. n = IF k = None THEN k ELSE Put1(k, One(s, table))
        BY <3>1, <4>1
      <4> DEFINE Y == covered[m]
      <4>6. \A a \in Y : \/ a \in X /\ a[1] # s
                         \/ a[1] = s /\ a[2] \in DOMAIN F[s] /\ F[s][a[2]] # None
        BY <2>4, <4>3
      <4>7. covered'[m] = Y /\ s \in S
        BY <1>2, <2>6
      <4> HIDE DEF X, Y, n, g, F, k, s, new, S, D
      <4>8. /\ k = None => OnFile(k, F, S) /\ Held(Y, k, F, S, g)
            /\ Entry(k) => /\ OnFile(Put1(k, One(s, F[s])), F, S)
                           /\ Held(Y, Put1(k, One(s, F[s])), F, S, g)
        BY <2>1, <4>3, <4>4, <4>6, <4>7, CarryHeld
      <4> QED BY <1>9, <4>3, <4>5, <4>7, <4>8
    <3> QED BY <3>2, <3>3
  <2> QED BY <1>1, <2>5, <2>6
<1>17. ASSUME NEW o \in Model \ mixed' PROVE Found(o)' /\ Moved(o)'
  <2>1. Moved(o)'
    <3>1. Moved(o) /\ o \in Model
      BY <1>5, <1>17 DEF JInv
    <3>2. CASE o = m
      BY <1>1, <1>2, <1>4, <1>8, <3>1, <3>2 DEF Moved
    <3>3. CASE o # m
      <4>1. New(o)' = New(o) /\ covered'[o] = covered[o]
        BY <1>5, <1>7, <3>1, <3>3, RestSame
      <4> QED BY <1>1, <1>4, <1>5, <3>1, <4>1 DEF Moved, Rows, TextAt
    <3> QED BY <3>2, <3>3
  <2>2. Found(o)'
    <3>1. CASE o = m
      BY <1>5, <1>16, <1>17, <3>1
    <3>2. CASE o # m
      BY <1>5, <1>7, <1>17, <3>2, RestSame DEF JInv, Found
    <3> QED BY <3>1, <3>2
  <2> QED BY <2>1, <2>2
<1>18. ASSUME NEW r \in Run PROVE RunClean(r)'
  <2> SUFFICES ASSUME Has(r), NEW o \in Model, o = run[r].model, o \notin mixed
               PROVE  /\ Plan(run[r], covered'[o], cache'[o], Decoded(o)')
                      /\ Written(run[r], cache'[o], Decoded(o)', segments, New(o)')
                      /\ \A q \in Run \ {r} : OneWrote(run[r], run[q])
    BY <1>5, RunShape DEF RunClean, Has
  <2>1. ~run[r].alone
    BY <1>14
  <2>2. /\ Written(run[r], cache[o], Decoded(o), segments, New(o))
        /\ \A q \in Run \ {r} : OneWrote(run[r], run[q])
    BY DEF JInv, RunClean
  <2>3. ASSUME run[r].pc = "write" PROVE Written(run[r], cache'[o], Decoded(o)', segments, New(o)')
    <3> DEFINE W == Wrote(run[r])
    <3>1. CASE o # m
      BY <1>5, <1>7, <2>2, <3>1, RestSame
    <3>2. CASE o = m
      <4>1. /\ W \cap segments \cap {s} = {}
            /\ \A t \in W \cap segments : t \in DOMAIN D /\ D[t] = run[r].tables[t]
            /\ Below(k.tables, run[r].tables, W \cap segments)
        BY <1>8, <2>2, <2>3, <3>2 DEF Written
      <4>2. k # None
        BY <2>3, <3>2 DEF JInv, Dated, Past, Has
      <4>3. DOMAIN new \subseteq {s}
        BY DEF One, NoTables
      <4> HIDE DEF new
      <4>4. \A t \in W \cap segments : t \in DOMAIN F /\ F[t] = D[t]
        <5>1. files'[m] = files[m] \/ files'[m] = Extend(files[m], new)
          BY <1>1, <1>6
        <5> QED BY <4>1, <4>3, <5>1 DEF Decoded, Kept, Extend
      <4>5. Below(cache'[m].tables, run[r].tables, W \cap segments)
        <5>1. CASE cache'[m] = k
          BY <4>1, <5>1
        <5>2. CASE cache'[m] = Put1(k, new)
          <6>1. /\ DOMAIN cache'[m].tables = DOMAIN k.tables \cup DOMAIN new
                /\ \A t \in DOMAIN cache'[m].tables :
                      cache'[m].tables[t] = IF t \in DOMAIN new THEN new[t] ELSE k.tables[t]
            BY <1>9, <4>2, <5>2, Put1Is
          <6> QED BY <4>1, <4>3, <6>1 DEF Below
        <5> QED BY <1>10, <5>1, <5>2
      <4> QED BY <1>8, <3>2, <4>1, <4>4, <4>5 DEF Written
    <3> QED BY <3>1, <3>2
  <2> QED BY <2>1, <2>2, <2>3 DEF Plan, Written
<1> QED BY <1>5, <1>12, <1>13, <1>15, <1>17, <1>18 DEF JInv

-------------------------------------------------------------------------------
(* The invariant of the second part is inductive *)

LEMMA StepJInv ==
  ASSUME IInv, JInv, [Next]_vars
  PROVE  JInv'
<1>1. CASE UNCHANGED vars \/ CompactEnd
  BY <1>1, EndJ
<1>2. CASE Host
  BY <1>2, HostJ
<1>3. CASE CompactCommit
  BY <1>3, CommitJ
<1>4. CASE \E m \in Model : CompactCarry(m)
  BY <1>4, CarryJ
<1>5. CASE \E S \in SUBSET segments : CompactCollect(S)
  BY <1>5, CollectJ
<1>6. CASE Crash
  BY <1>6, CrashJ
<1>7. CASE \E m \in Model : \E s \in segments : Rot(m, s)
  BY <1>7, RotJ
<1>8. CASE \E m \in Model : Query(m)
  BY <1>8, QueryJ
<1>9. ASSUME NEW r \in Run, Proceed(r) PROVE JInv'
  <2>1. CASE \E m \in Model : Start(r, m)
    BY <2>1, StartJ
  <2>2. CASE \E s \in DOMAIN passages : WriteSidecar(r, s)
    BY <2>2, SidecarJ
  <2> QED BY <1>9, <2>1, <2>2, LoadJ, BatchJ, FinishJ, InsertJ, PruneJ DEF Proceed
<1> QED BY <1>1, <1>2, <1>3, <1>4, <1>5, <1>6, <1>7, <1>8, <1>9 DEF Next, Compact

LEMMA OnceInvariant == Spec => [](IInv /\ JInv)
<1>1. Init => IInv /\ JInv
  BY InitIInv, InitJ
<1>2. IInv /\ JInv /\ [Next]_vars => (IInv /\ JInv)'
  BY StepIInv, StepJInv
<1> QED BY <1>1, <1>2, PTL DEF Spec

\* The text of a passage that a run has reported covered is not embedded again while the
\* passage is listed, or one with its text that a compaction rewrote with it: not after
\* writes, compactions, failed calls and failed writes, crashes, cancels and limits.
\* (EmbeddedOnce names what it excepts: passages that a compaction of the small segments
\* leaves behind, and models in `mixed`.)
THEOREM NotEmbeddedTwice == Spec => []EmbeddedOnce
<1>1. IInv /\ JInv => EmbeddedOnce
  <2> SUFFICES ASSUME IInv, JInv, NEW r \in Run, At(r, "embed"), run[r].alone, run[r].model \notin mixed
               PROVE  ToSet(run[r].queue) \cap {TextAt(a) : a \in covered[run[r].model]} = {}
    BY DEF EmbeddedOnce
  <2>1. run[r].pc = "embed" /\ Has(r)
    BY IdleRun DEF At, Has
  <2>2. PICK m \in Model : m = run[r].model
    BY <2>1, RunShape
  <2>3. ToSet(run[r].queue) \cap Vectors(run[r].existing) = {}
    BY <2>1 DEF JInv, Filled
  <2>4. AllIn(covered[m], run[r].existing, run[r].snap.segments)
    BY <2>1, <2>2 DEF JInv, RunClean, Plan
  <2>5. Right(run[r].existing, passages)
    BY <2>1, RunShape
  <2>6. ASSUME NEW a \in covered[m] PROVE TextAt(a) \in Vectors(run[r].existing)
    <3> DEFINE E == run[r].existing
    <3>1. a[1] \in DOMAIN E /\ a[2] \in DOMAIN E[a[1]] /\ E[a[1]][a[2]] # None
      BY <2>4 DEF AllIn
    <3>2. E[a[1]][a[2]] = TextAt(a)
      BY <2>5, <3>1 DEF Right, RightTable, TextAt
    <3> QED BY <3>1, <3>2 DEF Vectors, ToSet
  <2> QED BY <2>2, <2>3, <2>6
<1> QED BY <1>1, OnceInvariant, PTL

\* Every vector that a query is served.
Durable == \A m \in Model \ mixed : \A a \in Served(m) : Embedded(Decoded(m), a)

\* "Vectors are written next to their segments": no query is served a vector that a crash
\* would take away, since a run and a compaction write a sidecar before they show its
\* table, and nothing removes one that is shown, but for the models in `mixed`.
THEOREM ServedIsDurable == Spec => []Durable
<1>1. IInv /\ JInv => Durable
  <2> SUFFICES ASSUME IInv, JInv, NEW m \in Model \ mixed, NEW a \in Served(m)
               PROVE  Embedded(Decoded(m), a)
    BY DEF Durable
  <2> DEFINE T == Tables(m, Snapshot)
             D == Decoded(m)
  <2>1. OnFile(Loaded(m, Snapshot), D, segments)
    BY TablesView, ReloadOnFile DEF JInv, Found
  <2>2. Below(T, D, segments)
    BY <2>1, NotNone DEF OnFile, Loaded
  <2>3. PICK s \in segments : \E p \in Rows(s) : a = <<s, p>>
    BY DEF Served, Passages, Snapshot
  <2>4. PICK p \in Rows(s) : a = <<s, p>>
    BY <2>3
  <2>5. s \in DOMAIN T /\ T[s][p] # None
    BY <2>4 DEF Served, Embedded
  <2>6. Right(T, passages)
    BY RightTables DEF IInv
  <2>7. DOMAIN T[s] = Rows(s)
    BY <2>5, <2>6 DEF Right, RightTable, Rows
  <2> QED BY <2>2, <2>4, <2>5, <2>7 DEF Below, Embedded
<1> QED BY <1>1, OnceInvariant, PTL
===============================================================================
