---------------------------- MODULE FreshnessProofs ----------------------------
(***************************************************************************)
(* Freshness for every tree, content, history and bound.  The directory    *)
(* holds what base_commit promises as long as HEAD rests while an update   *)
(* runs; an update and a fresh search answer from the files as they are    *)
(* when, besides, a notified file is read in the tick of its notification  *)
(* and a failed flush keeps what it took.                                  *)
(***************************************************************************)
EXTENDS Freshness, SequenceTheorems, TLAPS

-------------------------------------------------------------------------------
(* Types *)

Mtime == 0 .. MaxMoves + 1
Commit == [parent : Nat, tree : Tree]
Entry == [data : File, mtime : Mtime]
Op == [kind : {"none", "update", "search", "flush", "compact"}, step : Steps, then : Steps,
       epoch : Mtime, head : Nat, view : View]
Anchor == UNION {[s -> Stat] : s \in SUBSET Path}
Durable == [map : Tree, ahead : SUBSET Path, base : Nat, anchor : Anchor]
Types ==
    /\ work \in [Path -> Entry] /\ moves \in 0 .. MaxMoves /\ now \in 1 .. moves + 1
    /\ log \in Seq(Commit) /\ head \in DOMAIN log
    /\ \A c \in DOMAIN log : log[c].parent < c
    /\ durable \in Durable /\ durable.base \in DOMAIN log
    /\ visible \in View /\ overlay \in SUBSET Path
    /\ pending \in [Path -> {"none", "changed", "deleted"}]
    /\ book \in [epoch : Mtime, paths : SUBSET Path]
    /\ op \in Op
    /\ op.step = "read" <=> op.epoch # None
    /\ op.step = "flushDelta" => op.head \in DOMAIN log
    /\ touched \in SUBSET Path

\* A batch is committed for the step it goes on with; a rebuild ends the call, or a flush follows.
Batch(thens) == op.step \in {"commit", "read"} /\ op.then \in thens
Rebuild(thens) == op.step \in {"build", "buildHead"} /\ op.then \in thens
Places ==
    /\ op.step \in {"commit", "read"} => Batch({"check", "head", "answer", "flush", "write", "compact"})
    /\ op.step \in {"build", "buildHead"} => Rebuild({"done", "flush"})
TypeInv == Types /\ Places

-------------------------------------------------------------------------------
(* What base_commit promises *)

\* What a view did not read ahead of a commit is that of the commit.
Agree(view, c) == \A p \in Path \ view.ahead : view.map[p] = log[c].tree[p]

\* While a delta is read, what it does not read is the same in base_commit and HEAD.
DeltaCovers ==
    Batch({"head"}) => \A p \in Path \ Edited : log[durable.base].tree[p] = HeadTree[p]

Based ==
    /\ Agree(durable, durable.base) /\ Agree(visible, durable.base)
    /\ DeltaCovers
    /\ op.step \in {"head", "flushDelta"} => Agree(visible, head)
    /\ op.step = "flushDelta" => op.head = head
    /\ op.step = "buildHead" => Agree(op.view, head)

BaseInv == TypeInv /\ Based

-------------------------------------------------------------------------------
(* What the anchor and the bookkeeping know *)

Present(p) == work[p].data # Absent
Fresh(p) == visible.map[p] = work[p].data

\* Times: nothing is stamped after now, and a deletion that is not applied yet was
\* overtaken in this tick if the file is there again.
Timed ==
    /\ \A p \in Path : work[p].mtime <= now
    /\ book.epoch <= now /\ op.epoch <= now
    /\ \A p \in Path : pending[p] = "deleted" /\ Present(p) => work[p].mtime = now

\* An anchored stat is older than the epochs of what is not flushed.
AnchorIsOld ==
    \A p \in DOMAIN durable.anchor : durable.anchor[p] # Absent =>
        /\ durable.anchor[p] < now
        /\ book.epoch # None => durable.anchor[p] < book.epoch
        /\ op.epoch # None => durable.anchor[p] < op.epoch

\* A file that still has its anchored stat is indexed with the content it has.
AnchorIsTrue ==
    \A p \in DOMAIN durable.anchor : durable.anchor[p] = Observed(p) /\ Present(p) =>
        Fresh(p) /\ durable.map[p] = work[p].data

\* What the overlay read, and what was removed, is current unless written since the epoch.
BookIsTrue ==
    /\ book.epoch = None => overlay \cup book.paths = {}
    /\ \A p \in overlay \cup book.paths : Present(p) /\ work[p].mtime < book.epoch => Fresh(p)

Anchored == Timed /\ AnchorIsOld /\ AnchorIsTrue /\ BookIsTrue

-------------------------------------------------------------------------------
(* What a call has achieved at each of its steps *)

\* After the detection of an update base_commit is HEAD.
Detected == op.kind = "update" /\ (op.step \in {"detect", "flush", "write"} \/ Batch({"flush", "write"}))
AtHead == Detected => durable.base = head

\* Only an update follows HEAD, rebuilds, and flushes what it detected.
Kinds ==
    /\ op.step = "detect" => op.kind \in {"update", "search"}
    /\ op.step \in {"stale", "check", "diff", "head", "flushDelta", "build", "buildHead", "done"} => op.kind = "update"
    /\ Batch({"check", "head", "flush"}) => op.kind = "update"

Reads(p) == pending[p] = "changed" \/ (pending[p] = "none" /\ Fresh(p))
Drifted == Steady \cap Drift

Flushing == op.kind = "update" /\ (op.step = "flush" \/ Batch({"write"}))
Achieved ==
    /\ Batch({"answer", "flush"}) => \A p \in Drifted : Reads(p)
    /\ Flushing => \A p \in Drifted : Fresh(p) /\ pending[p] # "deleted"
    /\ Rebuild({"flush"}) => \A p \in Drifted : pending[p] # "deleted"
    /\ op.step = "buildHead" => \A p \in Path \ touched : op.view.map[p] = work[p].data
    /\ op.step = "write" /\ op.kind = "update" => \A p \in Drifted : Fresh(p)
    /\ DriftIsFresh /\ CleanIsFresh

FreshInv == BaseInv /\ Anchored /\ AtHead /\ Kinds /\ Achieved

-------------------------------------------------------------------------------
(* Type correctness *)

LEMMA EmptyTypes ==
  /\ NoEdits \in [Path -> {"none", "changed", "deleted"}]
  /\ NoBook \in [epoch : Mtime, paths : SUBSET Path]
  /\ NoAnchor \in Anchor
  /\ NoView \in View
  /\ Idle \in Op
<1>1. NoAnchor \in [{} -> Stat] /\ {} \in SUBSET Path
  BY DEF NoAnchor
<1>2. NoAnchor \in Anchor
  BY <1>1 DEF Anchor
<1>3. NoView \in View
  BY DEF NoView, View, Tree, File
<1>4. Idle \in Op
  BY <1>3, BoundAssumption DEF Idle, Op, Steps, Mtime, None
<1> QED BY <1>2, <1>3, <1>4, BoundAssumption DEF NoEdits, NoBook, Mtime, None

LEMMA WorksType == Types => Works \in Tree /\ HeadTree \in Tree /\ Drift \in SUBSET Path
<1> SUFFICES ASSUME Types PROVE Works \in Tree /\ HeadTree \in Tree /\ Drift \in SUBSET Path
  OBVIOUS
<1>1. \A p \in Path : work[p].data \in File
  BY DEF Types, Entry
<1>2. log \in Seq(Commit) /\ head \in DOMAIN log
  BY DEF Types
<1>3. log[head] \in Commit
  BY <1>2
<1> QED BY <1>1, <1>3 DEF Works, Tree, HeadTree, Drift, Commit

LEMMA InitTypes == Init => TypeInv
<1> SUFFICES ASSUME Init PROVE TypeInv
  OBVIOUS
<1> USE EmptyTypes, BoundAssumption
<1>1. PICK c \in Content : log = <<[tree |-> [p \in Path |-> c], parent |-> None]>>
  BY DEF Init
<1>2. log \in Seq(Commit) /\ Len(log) = 1 /\ DOMAIN log = {1} /\ log[1].tree \in Tree /\ log[1].parent = 0
  BY <1>1 DEF Commit, Tree, File, None
<1>3. work \in [Path -> Entry] /\ moves \in 0 .. MaxMoves /\ now \in 1 .. moves + 1 /\ head \in DOMAIN log
  BY <1>2 DEF Init, Entry, Mtime, Tree
<1>4. durable \in Durable /\ durable.base \in DOMAIN log /\ visible \in View
  BY <1>2 DEF Init, Durable, View
<1>5. op = Idle /\ op.step = "idle" /\ op.epoch = None
  BY DEF Init, Idle
<1>6. \A d \in DOMAIN log : log[d].parent < d
  BY <1>2
<1>7. /\ overlay \in SUBSET Path /\ touched \in SUBSET Path
      /\ pending \in [Path -> {"none", "changed", "deleted"}]
      /\ book \in [epoch : Mtime, paths : SUBSET Path]
  BY DEF Init
<1>8. Types
  BY <1>2, <1>3, <1>4, <1>5, <1>6, <1>7 DEF Types
<1> QED BY <1>5, <1>8 DEF TypeInv, Places, Batch, Rebuild


\* The repository's moves change nothing of the index, and only add to the log.
Moves == \/ \E p \in Path, f \in File : Edit(p, f)
         \/ Tick
         \/ \E paths \in SUBSET Path : GitCommit(paths)
         \/ \E c \in DOMAIN log : Switch(c)

RepoTypes ==
    /\ work \in [Path -> Entry] /\ moves \in 0 .. MaxMoves /\ now \in 1 .. moves + 1
    /\ log \in Seq(Commit) /\ head \in DOMAIN log
    /\ \A c \in DOMAIN log : log[c].parent < c
    /\ touched \in SUBSET Path

LEMMA WritesTypes ==
  ASSUME Types, NEW new \in Tree, Writes(new)
  PROVE  work' \in [Path -> Entry] /\ touched' \in SUBSET Path
<1>1. now \in Mtime
  BY BoundAssumption DEF Types, Mtime
<1> QED BY <1>1 DEF Writes, Types, Entry, Tree

LEMMA LogGrows ==
  ASSUME Types, NEW e \in Commit, e.parent \in DOMAIN log, log' = Append(log, e)
  PROVE  /\ log' \in Seq(Commit) /\ DOMAIN log' = 1 .. Len(log) + 1 /\ DOMAIN log = 1 .. Len(log)
         /\ \A c \in DOMAIN log : c \in DOMAIN log' /\ log'[c] = log[c]
         /\ Len(log) + 1 \in DOMAIN log' /\ log'[Len(log) + 1] = e
         /\ \A c \in DOMAIN log' : log'[c].parent < c
<1>1. log \in Seq(Commit) /\ Len(log) \in Nat /\ DOMAIN log = 1 .. Len(log)
  BY DEF Types
<1>2. /\ log' \in Seq(Commit) /\ DOMAIN log' = 1 .. Len(log) + 1
      /\ \A c \in 1 .. Len(log) : log'[c] = log[c]
      /\ log'[Len(log) + 1] = e
  BY <1>1
<1>3. \A c \in DOMAIN log : c \in DOMAIN log' /\ log'[c] = log[c]
  BY <1>1, <1>2
<1>4. Len(log) + 1 \in DOMAIN log' /\ log'[Len(log) + 1] = e
  BY <1>1, <1>2
<1>5. e.parent < Len(log) + 1
  BY <1>1
<1>6. ASSUME NEW c \in DOMAIN log' PROVE log'[c].parent < c
  <2>1. c \in DOMAIN log \/ c = Len(log) + 1
    BY <1>1, <1>2
  <2> QED BY <2>1, <1>3, <1>4, <1>5 DEF Types
<1> QED BY <1>1, <1>2, <1>3, <1>4, <1>6

\* What a move leaves of the commits.
LEMMA MoveLog ==
  ASSUME Types, Moves
  PROVE  /\ UNCHANGED index
         /\ log' \in Seq(Commit) /\ head' \in DOMAIN log'
         /\ \A c \in DOMAIN log : c \in DOMAIN log' /\ log'[c] = log[c]
         /\ \A c \in DOMAIN log' : log'[c].parent < c
<1>1. ASSUME UNCHANGED log, head' \in DOMAIN log, UNCHANGED index
      PROVE  /\ UNCHANGED index
             /\ log' \in Seq(Commit) /\ head' \in DOMAIN log'
             /\ \A c \in DOMAIN log : c \in DOMAIN log' /\ log'[c] = log[c]
             /\ \A c \in DOMAIN log' : log'[c].parent < c
  BY <1>1 DEF Types
<1>2. CASE \E p \in Path, f \in File : Edit(p, f)
  BY <1>1, <1>2 DEF Edit, Move, Types
<1>3. CASE Tick
  BY <1>1, <1>3 DEF Tick, Move, Types
<1>4. CASE \E c \in DOMAIN log : Switch(c)
  BY <1>1, <1>4 DEF Switch, Move
<1>5. ASSUME NEW paths \in SUBSET Path, GitCommit(paths)
      PROVE  /\ UNCHANGED index
             /\ log' \in Seq(Commit) /\ head' \in DOMAIN log'
             /\ \A c \in DOMAIN log : c \in DOMAIN log' /\ log'[c] = log[c]
             /\ \A c \in DOMAIN log' : log'[c].parent < c
  <2> DEFINE e == [parent |-> head, tree |-> [p \in Path |-> IF p \in paths THEN Works[p] ELSE HeadTree[p]]]
  <2>1. e.tree \in Tree
    BY WorksType DEF Tree
  <2>2. e.parent = head /\ head \in DOMAIN log /\ head \in Nat
    BY DEF Types
  <2>3. e \in Commit
    BY <2>1, <2>2 DEF Commit
  <2>4. log' = Append(log, e) /\ head' = Len(log') /\ UNCHANGED index
    BY <1>5 DEF GitCommit, Move
  <2> HIDE DEF e
  <2>5. Len(log') = Len(log) + 1
    BY <2>3, <2>4 DEF Types
  <2> QED BY <2>2, <2>3, <2>4, <2>5, LogGrows
<1> QED BY <1>2, <1>3, <1>4, <1>5 DEF Moves

LEMMA MoveTypes == TypeInv /\ Moves => TypeInv'
<1> SUFFICES ASSUME TypeInv, Moves PROVE TypeInv'
  OBVIOUS
<1> USE BoundAssumption
<1>0. Types /\ Works \in Tree /\ HeadTree \in Tree
  BY WorksType DEF TypeInv
<1>1. /\ UNCHANGED index
      /\ log' \in Seq(Commit) /\ head' \in DOMAIN log'
      /\ \A c \in DOMAIN log : c \in DOMAIN log' /\ log'[c] = log[c]
      /\ \A c \in DOMAIN log' : log'[c].parent < c
  BY <1>0, MoveLog
<1>2. work' \in [Path -> Entry] /\ touched' \in SUBSET Path /\ moves' \in 0 .. MaxMoves /\ now' \in 1 .. moves' + 1
  <2>1. Move /\ (UNCHANGED now \/ now' = now + 1) => moves' \in 0 .. MaxMoves /\ now' \in 1 .. moves' + 1
    BY <1>0 DEF Move, Types
  <2>2. ASSUME NEW p \in Path, NEW f \in File, Edit(p, f)
        PROVE  work' \in [Path -> Entry] /\ touched' \in SUBSET Path
    <3>1. [Works EXCEPT ![p] = f] \in Tree
      BY <1>0 DEF Tree
    <3> QED BY <1>0, <2>2, <3>1, WritesTypes DEF Edit
  <2>3. ASSUME NEW c \in DOMAIN log, Switch(c)
        PROVE  work' \in [Path -> Entry] /\ touched' \in SUBSET Path
    <3>0. log[c] \in Commit
      BY <1>0 DEF Types
    <3>1. log[c].tree \in Tree
      BY <3>0 DEF Commit
    <3>2. [p \in Path |-> IF p \in Drift THEN Works[p] ELSE log[c].tree[p]] \in Tree
      BY <1>0, <3>1 DEF Tree
    <3> QED BY <1>0, <2>3, <3>2, WritesTypes DEF Switch
  <2>4. UNCHANGED <<work, touched>> => work' \in [Path -> Entry] /\ touched' \in SUBSET Path
    BY <1>0 DEF Types
  <2>5. CASE \E p \in Path, f \in File : Edit(p, f)
    BY <2>1, <2>2, <2>5 DEF Edit
  <2>6. CASE Tick
    BY <2>1, <2>4, <2>6 DEF Tick
  <2>7. CASE \E paths \in SUBSET Path : GitCommit(paths)
    BY <2>1, <2>4, <2>7 DEF GitCommit
  <2>8. CASE \E c \in DOMAIN log : Switch(c)
    BY <2>1, <2>3, <2>8 DEF Switch
  <2> QED BY <2>5, <2>6, <2>7, <2>8 DEF Moves
<1>3. Types'
  BY <1>0, <1>1, <1>2 DEF Types, index
<1> QED BY <1>1, <1>3 DEF TypeInv, Places, Batch, Rebuild, index

LEMMA CommitTypes == Types => \A c \in DOMAIN log : log[c] \in Commit /\ log[c].tree \in Tree
<1> SUFFICES ASSUME Types, NEW c \in DOMAIN log PROVE log[c] \in Commit /\ log[c].tree \in Tree
  OBVIOUS
<1>1. log[c] \in Commit
  BY DEF Types
<1> QED BY <1>1 DEF Commit

LEMMA AnchorTypes ==
  ASSUME NEW f \in Anchor
  PROVE  DOMAIN f \subseteq Path /\ (\A p \in DOMAIN f : f[p] \in Stat)
<1>1. PICK s \in SUBSET Path : f \in [s -> Stat]
  BY DEF Anchor
<1> QED BY <1>1

LEMMA ObservedTypes == Types => \A p \in Path : Observed(p) \in Stat
BY DEF Types, Entry, Observed, Stat, Mtime

LEMMA NextAnchorTypes == Types => NextAnchor \in Anchor /\ NoAnchor \in Anchor
<1> SUFFICES ASSUME Types PROVE NextAnchor \in Anchor
  BY EmptyTypes
<1> DEFINE flushed == overlay \cup book.paths
           trusted == {p \in flushed : Settled(Observed(p), book.epoch)}
           carried == DOMAIN durable.anchor \ flushed
           next == [p \in trusted \cup carried |-> IF p \in trusted THEN Observed(p) ELSE durable.anchor[p]]
<1>1. flushed \subseteq Path /\ durable.anchor \in Anchor
  BY DEF Types, Durable
<1>2. DOMAIN durable.anchor \subseteq Path /\ \A p \in DOMAIN durable.anchor : durable.anchor[p] \in Stat
  BY <1>1, AnchorTypes
<1>3. next \in [trusted \cup carried -> Stat] /\ trusted \cup carried \in SUBSET Path
  BY <1>1, <1>2, ObservedTypes
<1>4. next \in Anchor
  BY <1>3 DEF Anchor
<1>5. NextAnchor = IF book.epoch = None THEN NoAnchor ELSE next
  BY DEF NextAnchor
<1> HIDE DEF next
<1> QED BY <1>4, <1>5, EmptyTypes

LEMMA WrittenTypes ==
  ASSUME Types, NEW view \in View, NEW base \in DOMAIN log, NEW anchor \in Anchor, Written(view, base, anchor)
  PROVE  /\ durable' \in Durable /\ durable'.base \in DOMAIN log /\ visible' \in View
         /\ overlay' \in SUBSET Path /\ book' \in [epoch : Mtime, paths : SUBSET Path]
<1>1. base \in Nat /\ view.map \in Tree /\ Ahead(view, base) \in SUBSET Path
  BY DEF Types, View, Ahead
<1>2. durable' = [map |-> view.map, ahead |-> Ahead(view, base), base |-> base, anchor |-> anchor]
  BY DEF Written
<1>3. visible' = [view EXCEPT !.ahead = Ahead(view, base)] /\ overlay' = {} /\ book' = NoBook
  BY DEF Written
<1> QED BY <1>1, <1>2, <1>3, EmptyTypes DEF Durable, View

LEMMA NotifiedTypes ==
  ASSUME Types, NEW paths
  PROVE  Notified(paths) \in [Path -> {"none", "changed", "deleted"}]
BY DEF Types, Notified

LEMMA ReadTypes == Types => Read \in View /\ Edited \in SUBSET Path /\ Documents \in SUBSET Edited
BY WorksType DEF Types, Read, Edited, Documents, View, Tree, File

\* Everything a step of the index may change, with its type.
LEMMA IndexTypes ==
  ASSUME TypeInv, UNCHANGED <<work, now, log, head, moves>>, touched' \in {touched, {}},
         durable' \in Durable, durable'.base \in DOMAIN log, visible' \in View, overlay' \in SUBSET Path,
         pending' \in [Path -> {"none", "changed", "deleted"}],
         book' \in [epoch : Mtime, paths : SUBSET Path],
         op' \in Op, op'.step = "read" <=> op'.epoch # None, op'.step = "flushDelta" => op'.head \in DOMAIN log,
         Places'
  PROVE  TypeInv'
BY DEF TypeInv, Types

LEMMA SameTypes ==
  ASSUME TypeInv
  PROVE  /\ durable \in Durable /\ durable.base \in DOMAIN log /\ visible \in View /\ overlay \in SUBSET Path
         /\ pending \in [Path -> {"none", "changed", "deleted"}]
         /\ book \in [epoch : Mtime, paths : SUBSET Path]
         /\ op \in Op /\ touched \in {touched, {}}
         /\ head \in DOMAIN log /\ head \in Nat
         /\ op.step = "read" <=> op.epoch # None
         /\ op.step = "flushDelta" => op.head \in DOMAIN log
BY DEF TypeInv, Types

\* A step that only moves the running operation on.
OpStep == UNCHANGED <<durable, visible, pending, overlay, book, repo>>
LEMMA OpSteps ==
  ASSUME TypeInv, OpStep \/ (UNCHANGED <<durable, visible, overlay, book, repo>> /\ (\E paths : pending' = Notified(paths))),
         op' \in Op, op'.step = "read" <=> op'.epoch # None, op'.step = "flushDelta" => op'.head \in DOMAIN log,
         Places'
  PROVE  TypeInv'
<1>1. Types
  BY DEF TypeInv
<1>2. pending' \in [Path -> {"none", "changed", "deleted"}]
  BY <1>1, NotifiedTypes, SameTypes DEF OpStep
<1>3. UNCHANGED <<durable, visible, overlay, book, repo>>
  BY DEF OpStep
<1> QED BY <1>2, <1>3, SameTypes, IndexTypes DEF repo

\* The steps of a call that change nothing but the running operation, or what is pending.
Starts == Update \/ SearchFresh \/ FlushCall \/ CompactCall
Passes == Stale \/ Check \/ Diff \/ RecordHead \/ Flush \/ Stamp \/ CommitFails \/ Return

LEMMA StartTypes == TypeInv /\ Starts => TypeInv'
<1> SUFFICES ASSUME TypeInv, Starts PROVE TypeInv'
  OBVIOUS
<1>1. OpStep
  BY DEF Starts, Update, SearchFresh, FlushCall, CompactCall, OpStep
<1>2. op = Idle /\ Idle \in Op /\ Idle.epoch = None /\ Idle.step = "idle"
  BY EmptyTypes DEF Starts, Update, SearchFresh, FlushCall, CompactCall, Idle
<1>3. /\ op' \in Op /\ op'.epoch = None
      /\ op'.step \in {"stale", "detect", "flush", "compact", "commit"}
      /\ op'.step = "commit" => op'.then = "compact"
  <2>1. CASE Update
    BY <1>2, <2>1 DEF Update, Op, Steps
  <2>2. CASE SearchFresh
    BY <1>2, <2>2 DEF SearchFresh, Op, Steps
  <2>3. CASE FlushCall
    BY <1>2, <2>3 DEF FlushCall, Op, Steps
  <2>4. CASE CompactCall
    BY <1>2, <2>4 DEF CompactCall, Op, Steps
  <2> QED BY <2>1, <2>2, <2>3, <2>4 DEF Starts
<1> QED BY <1>1, <1>3, OpSteps DEF Places, Batch, Rebuild

LEMMA PassTypes == TypeInv /\ Passes => TypeInv'
<1> SUFFICES ASSUME TypeInv, Passes PROVE TypeInv'
  OBVIOUS
<1> USE SameTypes
<1>0. Places /\ Types /\ BoundAssumption
  BY BoundAssumption DEF TypeInv
<1>1. CASE Stale
  <2>1. /\ op' \in Op /\ op'.epoch = op.epoch /\ op.step = "stale"
        /\ op'.step = "check" \/ (op'.step = "commit" /\ op'.then = "check")
    BY <1>1, ZenonT(30) DEF Stale, Goto, Commits, Op, Steps
  <2> QED BY <1>1, <2>1, OpSteps DEF Places, Batch, Rebuild, OpStep, Stale
<1>2. CASE Check
  <2>1. /\ op' \in Op /\ op'.epoch = op.epoch /\ op.step = "check"
        /\ op'.step \in {"detect", "diff"} \/ (op'.step = "build" /\ op'.then = "done")
    BY <1>2, ZenonT(30) DEF Check, Goto, Op, Steps
  <2> QED BY <1>2, <2>1, OpSteps DEF Places, Batch, Rebuild, OpStep, Check
<1>3. CASE Diff
  <2>1. /\ op' \in Op /\ op'.epoch = op.epoch /\ op.step = "diff"
        /\ (op'.step = "commit" /\ op'.then = "head") \/ (op'.step = "build" /\ op'.then = "done")
    BY <1>3 DEF Diff, Commits, Op, Steps
  <2>2. OpStep \/ (UNCHANGED <<durable, visible, overlay, book, repo>> /\ (\E paths : pending' = Notified(paths)))
    BY <1>3 DEF Diff, OpStep
  <2> QED BY <2>1, <2>2, OpSteps DEF Places, Batch, Rebuild
<1>4. CASE RecordHead
  <2>1. /\ op' \in Op /\ op'.epoch = op.epoch /\ op.step = "head"
        /\ op'.step = "flushDelta" /\ op'.head = head
    BY <1>4 DEF RecordHead, Op, Steps
  <2> QED BY <1>4, <2>1, OpSteps DEF Places, Batch, Rebuild, OpStep, RecordHead
<1>5. CASE Flush
  <2>1. /\ op' \in Op /\ op'.epoch = op.epoch /\ op.step = "flush"
        /\ op'.step = "write" \/ (op'.step = "commit" /\ op'.then = "write")
    BY <1>5, ZenonT(30) DEF Flush, Goto, Commits, Op, Steps
  <2> QED BY <1>5, <2>1, OpSteps DEF Places, Batch, Rebuild, OpStep, Flush
<1>6. CASE Stamp
  <2>1. now \in Mtime /\ now # None
    BY <1>0 DEF Types, Mtime, None, BoundAssumption
  <2>2. op' \in Op /\ op'.epoch # None /\ op'.step = "read" /\ op'.then = op.then /\ op.step = "commit"
    BY <1>6, <2>1 DEF Stamp, Op, Steps
  <2> QED BY <1>0, <1>6, <2>2, OpSteps DEF Places, Batch, Rebuild, OpStep, Stamp
<1>7. CASE CommitFails
  <2>1. Idle \in Op /\ [Idle EXCEPT !.kind = op.kind, !.step = "build", !.then = "done"] \in Op
        /\ [Idle EXCEPT !.kind = op.kind, !.step = "build", !.then = "flush"] \in Op
        /\ [Idle EXCEPT !.kind = op.kind, !.step = "done"] \in Op
    BY EmptyTypes DEF Op, Steps
  <2>2. /\ op' \in Op /\ op'.epoch = None
        /\ op'.step \in {"build", "done", "idle"}
        /\ op'.step = "build" => op'.then \in {"done", "flush"}
    <3>1. /\ Idle \in Op /\ Idle.epoch = None /\ Idle.step = "idle"
          /\ "kind" \in DOMAIN Idle /\ "step" \in DOMAIN Idle /\ "then" \in DOMAIN Idle
      BY EmptyTypes DEF Idle
    <3> QED BY <1>7, <2>1, <3>1 DEF CommitFails, Op
  <2> QED BY <1>7, <2>2, OpSteps DEF Places, Batch, Rebuild, OpStep, CommitFails
<1>8. CASE Return
  <2>1. op' = Idle /\ Idle \in Op /\ Idle.epoch = None /\ Idle.step = "idle"
    BY <1>8, EmptyTypes DEF Return, Idle
  <2> QED BY <1>8, <2>1, OpSteps DEF Places, Batch, Rebuild, OpStep, Return
<1> QED BY <1>1, <1>2, <1>3, <1>4, <1>5, <1>6, <1>7, <1>8 DEF Passes

\* A batch, the durable writes and a detection.
Changes == CommitBatch \/ FlushDelta \/ BuildRead \/ BuildHead \/ FlushWrite \/ Compact \/ Detect

LEMMA FailedBook ==
  ASSUME TypeInv, BookOfFailed
  PROVE  book' \in [epoch : Mtime, paths : SUBSET Path]
BY SameTypes, EmptyTypes DEF BookOfFailed

LEMMA AnchorsTypes == TypeInv => Anchors \subseteq Anchor /\ durable.anchor \in Anchor
BY NextAnchorTypes DEF TypeInv, Types, Anchors, Durable

LEMMA ChangeTypes == TypeInv /\ Changes => TypeInv'
<1> SUFFICES ASSUME TypeInv, Changes PROVE TypeInv'
  OBVIOUS
<1> USE SameTypes
<1>0. Places /\ Types /\ Idle \in Op /\ Idle.epoch = None /\ Idle.step = "idle"
  BY EmptyTypes DEF TypeInv, Idle
<1>1. CASE CommitBatch
  <2>1. op' \in Op /\ op'.epoch = None /\ op'.step = op.then /\ op.step = "read"
    <3>1. None \in Mtime
      BY BoundAssumption DEF Mtime, None
    <3> QED BY <1>1, <3>1 DEF CommitBatch, Op
  <2>2. op'.step \in {"check", "head", "answer", "flush", "write", "compact"}
    BY <1>0, <2>1 DEF Places, Batch
  <2>3. visible' \in View /\ overlay' \in SUBSET Path /\ pending' \in [Path -> {"none", "changed", "deleted"}]
    BY <1>0, <1>1, ReadTypes, EmptyTypes DEF CommitBatch
  <2>4. book' \in [epoch : Mtime, paths : SUBSET Path]
    <3>1. op.epoch \in Mtime /\ Edited \ Documents \subseteq Path
      BY <1>0, ReadTypes DEF Op
    <3> QED BY <1>1, <3>1 DEF CommitBatch
  <2>5. UNCHANGED <<durable, work, now, log, head, moves, touched>>
    BY <1>1 DEF CommitBatch, repo
  <2> QED BY <2>1, <2>2, <2>3, <2>4, <2>5, IndexTypes DEF Places, Batch, Rebuild
<1>2. CASE FlushDelta
  <2>1. op.step = "flushDelta" /\ op.head \in DOMAIN log /\ visible \in View /\ op.epoch = None
    BY <1>2 DEF FlushDelta
  <2>2. UNCHANGED <<pending, work, now, log, head, moves, touched>>
    BY <1>2 DEF FlushDelta, repo
  <2>3. /\ durable' \in Durable /\ durable'.base \in DOMAIN log /\ visible' \in View /\ overlay' \in SUBSET Path
        /\ book' \in [epoch : Mtime, paths : SUBSET Path]
    BY <1>0, <1>2, <2>1, WrittenTypes, FailedBook, AnchorsTypes DEF FlushDelta
  <2>4. /\ op' \in Op /\ op'.epoch = None
        /\ op'.step \in {"detect", "idle"} \/ (op'.step = "build" /\ op'.then = "done")
    <3>1. [op EXCEPT !.step = "detect", !.head = None] \in Op
      BY DEF Op, Steps, None
    <3>2. [op EXCEPT !.step = "build", !.then = "done", !.head = None] \in Op
      BY DEF Op, Steps, None
    <3>3. op'.epoch = None
      BY <1>0, <1>2, <2>1 DEF FlushDelta, Op
    <3>4. op'.step \in {"detect", "idle"} \/ (op'.step = "build" /\ op'.then = "done")
      BY <1>0, <1>2, <2>1 DEF FlushDelta, Op
    <3> QED BY <1>0, <1>2, <3>1, <3>2, <3>3, <3>4 DEF FlushDelta
  <2> QED BY <2>2, <2>3, <2>4, IndexTypes DEF Places, Batch, Rebuild
<1>3. CASE BuildRead
  <2>1. UNCHANGED <<durable, visible, pending, overlay, book, work, now, log, head, moves>> /\ touched' \in {touched, {}}
    BY <1>3 DEF BuildRead
  <2>2. /\ op' \in Op /\ op'.epoch = None
        /\ op'.step = "idle" \/ (op'.step = "buildHead" /\ op'.then = op.then)
    <3>1. [map |-> Works, ahead |-> Drift] \in View
      BY <1>0, WorksType DEF View
    <3>2. op.step = "build" /\ op.epoch = None
      BY <1>3 DEF BuildRead
    <3> QED BY <1>0, <1>3, <3>1, <3>2 DEF BuildRead, Op, Steps
  <2>3. op.then \in {"done", "flush"}
    BY <1>0, <1>3 DEF BuildRead, Places, Rebuild
  <2> QED BY <2>1, <2>2, <2>3, IndexTypes DEF Places, Batch, Rebuild
<1>4. CASE BuildHead
  <2>1. op.step = "buildHead" /\ op.view \in View /\ op.then \in {"done", "flush"} /\ op.epoch = None
    BY <1>0, <1>4 DEF BuildHead, Places, Rebuild, Op
  <2>2. Written(op.view, head, NoAnchor) /\ UNCHANGED <<pending, work, now, log, head, moves, touched>>
    BY <1>4 DEF BuildHead, repo
  <2>3. /\ durable' \in Durable /\ durable'.base \in DOMAIN log /\ visible' \in View /\ overlay' \in SUBSET Path
        /\ book' \in [epoch : Mtime, paths : SUBSET Path]
    BY <1>0, <2>1, <2>2, WrittenTypes, EmptyTypes
  <2>4. op' \in Op /\ op'.epoch = None /\ op'.step = op.then
    <3>1. NoView \in View /\ op.then \in Steps
      BY EmptyTypes DEF Op
    <3> QED BY <1>4, <2>1, <3>1 DEF BuildHead, Op
  <2> QED BY <2>1, <2>2, <2>3, <2>4, IndexTypes DEF Places, Batch, Rebuild
<1>5. CASE FlushWrite
  <2>1. op.step = "write" /\ visible \in View /\ op.epoch = None
    BY <1>5 DEF FlushWrite
  <2>2. UNCHANGED <<pending, work, now, log, head, moves, touched>>
    BY <1>5 DEF FlushWrite, repo
  <2>3. /\ durable' \in Durable /\ durable'.base \in DOMAIN log /\ visible' \in View /\ overlay' \in SUBSET Path
        /\ book' \in [epoch : Mtime, paths : SUBSET Path]
    BY <1>0, <1>5, <2>1, WrittenTypes, FailedBook, AnchorsTypes DEF FlushWrite, FlushKeepsBase
  <2>4. op' \in Op /\ op'.epoch = None /\ op'.step \in {"idle", "done"}
    <3>1. Flushed \in Op /\ Flushed.epoch = None /\ Flushed.step \in {"idle", "done"}
      BY <1>0, <2>1 DEF Flushed, Op, Steps
    <3> QED BY <1>0, <1>5, <3>1 DEF FlushWrite
  <2> QED BY <2>2, <2>3, <2>4, IndexTypes DEF Places, Batch, Rebuild
<1>6. CASE Compact
  <2>1. UNCHANGED <<pending, work, now, log, head, moves, touched>> /\ op' = Idle
    BY <1>6 DEF Compact, repo
  <2>2. /\ durable' \in Durable /\ durable'.base \in DOMAIN log /\ visible' \in View /\ overlay' \in SUBSET Path
        /\ book' \in [epoch : Mtime, paths : SUBSET Path]
    BY <1>0, <1>6, WrittenTypes, AnchorsTypes DEF Compact, CompactedBase
  <2> QED BY <1>0, <2>1, <2>2, IndexTypes DEF Places, Batch, Rebuild
<1>7. CASE Detect
  <2>1. UNCHANGED <<durable, visible, overlay, book, work, now, log, head, moves>> /\ touched' = {}
    BY <1>7 DEF Detect
  <2>2. pending' \in [Path -> {"none", "changed", "deleted"}]
    BY <1>0, <1>7, NotifiedTypes DEF Detect
  <2>3. /\ op' \in Op /\ op'.epoch = None
        /\ op'.step \in {"answer", "done", "idle"} \/ (op'.step = "commit" /\ op'.then \in {"answer", "flush"})
    <3>1. op.step = "detect" /\ op.epoch = None
      BY <1>7 DEF Detect
    <3> QED BY <1>0, <1>7, <3>1, ZenonT(30) DEF Detect, Goto, Commits, Op, Steps
  <2> QED BY <2>1, <2>2, <2>3, IndexTypes DEF Places, Batch, Rebuild
<1> QED BY <1>1, <1>2, <1>3, <1>4, <1>5, <1>6, <1>7 DEF Changes

LEMMA RestartTypes == TypeInv /\ Restart => TypeInv'
<1> SUFFICES ASSUME TypeInv, Restart PROVE TypeInv'
  OBVIOUS
<1>1. /\ visible' = [map |-> durable.map, ahead |-> durable.ahead]
      /\ pending' = NoEdits /\ overlay' = {} /\ book' = NoBook /\ op' = Idle
      /\ UNCHANGED <<durable, work, now, log, head, moves, touched>>
  BY DEF Restart, repo
<1>2. visible' \in View
  BY <1>1, SameTypes DEF Durable, View
<1>3. Idle \in Op /\ Idle.epoch = None /\ Idle.step = "idle"
  BY EmptyTypes DEF Idle
<1> QED BY <1>1, <1>2, <1>3, SameTypes, EmptyTypes, IndexTypes DEF Places, Batch, Rebuild

LEMMA NextCases == Next => Moves \/ Starts \/ Passes \/ Changes \/ Restart
BY DEF Next, Moves, Starts, Passes, Changes

LEMMA StepTypes == TypeInv /\ [Next]_vars => TypeInv'
<1>1. TypeInv /\ UNCHANGED vars => TypeInv'
  BY DEF TypeInv, Types, Places, Batch, Rebuild, vars, index, repo
<1> QED BY <1>1, NextCases, MoveTypes, StartTypes, PassTypes, ChangeTypes, RestartTypes

\* The types of the specification; the anchor names only paths, and only a commit that
\* reads has an epoch.
THEOREM TypeCorrect == Spec => []TypeOK
<1>1. TypeInv => TypeOK
  <2> SUFFICES ASSUME TypeInv PROVE TypeOK
    OBVIOUS
  <2> USE SameTypes, BoundAssumption
  <2>1. Types
    BY DEF TypeInv
  <2>2. work \in [Path -> [data : File, mtime : 0 .. MaxMoves + 1]] /\ now \in 1 .. MaxMoves + 1
    BY <2>1 DEF Types, Entry, Mtime
  <2>3. \A c \in DOMAIN log : log[c].tree \in Tree /\ log[c].parent \in 0 .. c - 1
    <3> SUFFICES ASSUME NEW c \in DOMAIN log PROVE log[c].tree \in Tree /\ log[c].parent \in 0 .. c - 1
      OBVIOUS
    <3>1. c \in Nat /\ log[c].parent < c
      BY <2>1 DEF Types
    <3> QED BY <2>1, <3>1, CommitTypes DEF Commit
  <2>4. DOMAIN durable.anchor \subseteq Path /\ \A p \in DOMAIN durable.anchor : durable.anchor[p] \in Stat
    BY AnchorsTypes, AnchorTypes
  <2>5. durable.map \in Tree /\ durable.ahead \subseteq Path
    BY DEF Durable
  <2>6. /\ op.step \in Steps /\ op.then \in Steps /\ op.kind \in {"none", "update", "search", "flush", "compact"}
        /\ op.epoch \in 0 .. MaxMoves + 1
    BY DEF Op, Mtime
  <2> QED BY <2>2, <2>3, <2>4, <2>5, <2>6 DEF TypeOK, Mtime
<1> QED BY <1>1, InitTypes, StepTypes, PTL DEF Spec

-------------------------------------------------------------------------------
(* base_commit: every step keeps what it promises *)

LEMMA WrittenAgrees ==
  ASSUME NEW view, NEW base, NEW anchor, Agree(view, base), Written(view, base, anchor), "ahead" \in DOMAIN view,
         UNCHANGED log
  PROVE  /\ durable'.base = base /\ durable'.map = view.map /\ visible'.map = view.map
         /\ durable'.anchor = anchor /\ durable'.ahead = Ahead(view, base) /\ visible'.ahead = Ahead(view, base)
         /\ Agree(durable, durable.base)' /\ Agree(visible, durable.base)'
<1>1. /\ durable'.base = base /\ durable'.map = view.map /\ durable'.ahead = Ahead(view, base)
      /\ durable'.anchor = anchor
  BY DEF Written
<1>2. visible'.ahead = Ahead(view, base) /\ visible'.map = view.map
  BY DEF Written
<1>3. \A p \in Path \ Ahead(view, base) : view.map[p] = log[base].tree[p]
  BY DEF Agree, Ahead
<1> QED BY <1>1, <1>2, <1>3 DEF Agree

LEMMA ViewFields == TypeInv => "ahead" \in DOMAIN visible /\ "ahead" \in DOMAIN op.view
BY DEF TypeInv, Types, Op, View

LEMMA MoveBased ==
  ASSUME ~HeadMoves, TypeInv, Based, Moves
  PROVE  Based'
<1>1. /\ UNCHANGED index
      /\ \A c \in DOMAIN log : c \in DOMAIN log' /\ log'[c] = log[c]
  BY MoveLog DEF TypeInv
<1>2. durable.base \in DOMAIN log /\ head \in DOMAIN log
  BY SameTypes
<1>3. op.step \in {"idle", "answer", "done"} \/ head' = head
  BY DEF Moves, Edit, Tick, GitCommit, Switch, HeadMayMove
<1> QED
  BY <1>1, <1>2, <1>3 DEF Based, Agree, DeltaCovers, Batch, Edited, HeadTree, index

LEMMA OpBased ==
  ASSUME Based, UNCHANGED <<durable, visible, log, head>>,
         DeltaCovers', op'.step \in {"head", "flushDelta"} => Agree(visible, head),
         op'.step = "flushDelta" => op'.head = head, op'.step = "buildHead" => Agree(op'.view, head)
  PROVE  Based'
BY DEF Based, Agree

LEMMA StartBased ==
  ASSUME TypeInv, Based, Starts
  PROVE  Based'
<1>1. op'.step \in {"stale", "detect", "flush", "compact"} \/ (op'.step = "commit" /\ op'.then = "compact")
  <2>1. op = Idle /\ op \in Op
    BY SameTypes DEF Starts, Update, SearchFresh, FlushCall, CompactCall
  <2> QED BY <2>1 DEF Starts, Update, SearchFresh, FlushCall, CompactCall, Op
<1>2. UNCHANGED <<durable, visible, log, head>>
  BY DEF Starts, Update, SearchFresh, FlushCall, CompactCall, repo
<1> QED BY <1>1, <1>2, OpBased DEF DeltaCovers, Batch

LEMMA PassBased ==
  ASSUME TypeInv, Based, Passes
  PROVE  Based'
<1> USE SameTypes DEF Op
<1>0. UNCHANGED <<durable, visible, log, head>>
  BY DEF Passes, Stale, Check, Diff, RecordHead, Flush, Stamp, CommitFails, Return, repo
<1>1. CASE Stale
  <2>1. op'.step = "check" \/ (op'.step = "commit" /\ op'.then = "check")
    BY <1>1 DEF Stale, Goto, Commits
  <2> QED BY <1>0, <2>1, OpBased DEF DeltaCovers, Batch
<1>2. CASE Check
  <2>1. op'.step \in {"detect", "diff", "build"}
    BY <1>2 DEF Check, Goto
  <2> QED BY <1>0, <2>1, OpBased DEF DeltaCovers, Batch
<1>3. CASE Diff
  <2>1. CASE op'.step = "build"
    BY <1>0, <2>1, OpBased DEF DeltaCovers, Batch
  <2>2. CASE op'.step = "commit" /\ pending' = Notified({p \in Path : HeadTree[p] # log[durable.base].tree[p]})
    <3>1. \A p \in Path : HeadTree[p] # log[durable.base].tree[p] => pending'[p] # "none"
      BY <2>2 DEF Notified
    <3>2. DeltaCovers'
      BY <1>0, <3>1 DEF DeltaCovers, Edited, HeadTree
    <3> QED BY <1>0, <2>2, <3>2, OpBased
  <2> QED BY <1>3, <2>1, <2>2 DEF Diff, Commits
<1>4. CASE RecordHead
  <2>1. op'.step = "flushDelta" /\ op'.head = head /\ op.step = "head"
    BY <1>4 DEF RecordHead
  <2> QED BY <1>0, <2>1, OpBased DEF DeltaCovers, Batch, Based
<1>5. CASE Flush
  <2>1. op'.step = "write" \/ (op'.step = "commit" /\ op'.then = "write")
    BY <1>5 DEF Flush, Goto, Commits
  <2> QED BY <1>0, <2>1, OpBased DEF DeltaCovers, Batch
<1>6. CASE Stamp
  <2>1. op'.step = "read" /\ op'.then = op.then /\ op.step = "commit" /\ UNCHANGED <<pending, durable, log, head>>
    BY <1>6 DEF Stamp, repo
  <2>2. DeltaCovers'
    BY <2>1 DEF DeltaCovers, Batch, Edited, HeadTree, Based
  <2> QED BY <1>0, <2>1, <2>2, OpBased
<1>7. CASE CommitFails
  <2>1. op'.step \in {"build", "done", "idle"}
    <3>1. Idle \in Op /\ Idle.step = "idle"
      BY EmptyTypes DEF Idle
    <3> QED BY <1>7, <3>1 DEF CommitFails
  <2> QED BY <1>0, <2>1, OpBased DEF DeltaCovers, Batch
<1>8. CASE Return
  <2>1. op'.step = "idle"
    BY <1>8 DEF Return, Idle
  <2> QED BY <1>0, <2>1, OpBased DEF DeltaCovers, Batch
<1> QED BY <1>1, <1>2, <1>3, <1>4, <1>5, <1>6, <1>7, <1>8 DEF Passes

\* Reading a batch keeps a view in agreement with base_commit, and makes a delta one of HEAD.
LEMMA ReadAgrees ==
  ASSUME TypeInv, Based
  PROVE  /\ Agree(Read, durable.base)
         /\ Batch({"head"}) => Agree(Read, head)
<1>1. \A p \in Path \ Read.ahead : /\ p \in Edited => Read.map[p] = log[durable.base].tree[p] /\ Read.map[p] = log[head].tree[p]
                                   /\ p \notin Edited => p \notin visible.ahead /\ Read.map[p] = visible.map[p]
  BY DEF Read
<1> QED BY <1>1 DEF Agree, Based, DeltaCovers, HeadTree

LEMMA ChangeBased ==
  ASSUME ~HeadMoves, TypeInv, Based, Changes
  PROVE  Based'
<1>0. op \in Op /\ Idle.step = "idle" /\ "ahead" \in DOMAIN visible /\ "ahead" \in DOMAIN op.view
  BY SameTypes, ViewFields DEF Idle
<1>1. CASE CommitBatch
  <2>1. op.step = "read" /\ op'.step = op.then /\ visible' = Read /\ UNCHANGED <<durable, log, head>>
    BY <1>0, <1>1 DEF CommitBatch, Op, repo
  <2>2. op.then \in {"check", "head", "answer", "flush", "write", "compact"}
    BY <2>1 DEF TypeInv, Places, Batch
  <2>3. op.then = "head" => Batch({"head"})
    BY <2>1 DEF Batch
  <2> QED BY <2>1, <2>2, <2>3, ReadAgrees DEF Based, Agree, DeltaCovers, Batch
<1>2. CASE FlushDelta
  <2>1. UNCHANGED <<log, head>> /\ op.step = "flushDelta" /\ op'.step \in {"detect", "idle", "build"}
    BY <1>0, <1>2 DEF FlushDelta, repo, Op
  <2>2. op.head = head /\ Agree(visible, op.head)
    BY <2>1 DEF Based
  <2>3. UNCHANGED <<durable, visible>> \/ \E anchor : Written(visible, op.head, anchor)
    BY <1>2 DEF FlushDelta
  <2>4. Agree(durable, durable.base)' /\ Agree(visible, durable.base)'
    BY <1>0, <2>1, <2>2, <2>3, WrittenAgrees DEF Based, Agree
  <2> QED BY <2>1, <2>4 DEF Based, DeltaCovers, Batch
<1>3. CASE BuildRead
  <2>1. UNCHANGED <<durable, visible, log, head, work>>
        /\ (op'.step = "idle" \/ (op'.step = "buildHead" /\ op'.view = [map |-> Works, ahead |-> Drift]))
    BY <1>0, <1>3 DEF BuildRead, Op
  <2>2. Agree([map |-> Works, ahead |-> Drift], head)
    BY DEF Agree, Drift, HeadTree
  <2>3. DeltaCovers'
    BY <2>1 DEF DeltaCovers, Batch
  <2> QED BY <2>1, <2>2, <2>3, OpBased
<1>4. CASE BuildHead
  <2>1. /\ UNCHANGED <<log, head>> /\ op.step = "buildHead" /\ op'.step = op.then
        /\ Written(op.view, head, NoAnchor)
    BY <1>0, <1>4 DEF BuildHead, repo, Op
  <2>2. op.then \in {"done", "flush"} /\ Agree(op.view, head)
    BY <2>1 DEF TypeInv, Places, Rebuild, Based
  <2>3. Agree(durable, durable.base)' /\ Agree(visible, durable.base)'
    BY <1>0, <2>1, <2>2, WrittenAgrees
  <2> QED BY <2>1, <2>2, <2>3 DEF Based, DeltaCovers, Batch
<1>5. CASE FlushWrite
  <2>1. UNCHANGED <<log, head>> /\ op'.step \in {"done", "idle"} /\ Agree(visible, durable.base)
    BY <1>0, <1>5 DEF FlushWrite, repo, Op, Flushed, Based
  <2>2. UNCHANGED <<durable, visible>> \/ \E anchor : Written(visible, durable.base, anchor)
    BY <1>5 DEF FlushWrite, FlushKeepsBase
  <2>3. Agree(durable, durable.base)' /\ Agree(visible, durable.base)'
    BY <1>0, <2>1, <2>2, WrittenAgrees DEF Based, Agree
  <2> QED BY <2>1, <2>3 DEF Based, DeltaCovers, Batch
<1>6. CASE Compact
  <2>1. UNCHANGED <<log, head>> /\ op'.step = "idle" /\ Agree(visible, durable.base)
    BY <1>0, <1>6 DEF Compact, repo, Based
  <2>2. UNCHANGED <<durable, visible>> \/ \E anchor : Written(visible, durable.base, anchor)
    BY <1>6 DEF Compact, CompactedBase
  <2>3. Agree(durable, durable.base)' /\ Agree(visible, durable.base)'
    BY <1>0, <2>1, <2>2, WrittenAgrees DEF Based, Agree
  <2> QED BY <2>1, <2>3 DEF Based, DeltaCovers, Batch
<1>7. CASE Detect
  <2>1. UNCHANGED <<durable, visible, log, head>>
        /\ (op'.step \in {"answer", "done", "idle"} \/ (op'.step = "commit" /\ op'.then \in {"answer", "flush"}))
    BY <1>0, <1>7 DEF Detect, Goto, Commits, Op
  <2> QED BY <2>1, OpBased DEF DeltaCovers, Batch
<1> QED BY <1>1, <1>2, <1>3, <1>4, <1>5, <1>6, <1>7 DEF Changes

LEMMA BaseStep == ~HeadMoves /\ BaseInv /\ [Next]_vars => BaseInv'
<1> SUFFICES ASSUME ~HeadMoves, BaseInv, [Next]_vars PROVE BaseInv'
  OBVIOUS
<1>1. TypeInv /\ Based /\ TypeInv'
  BY StepTypes DEF BaseInv
<1>2. CASE Restart
  <2>1. /\ visible' = [map |-> durable.map, ahead |-> durable.ahead]
        /\ UNCHANGED <<durable, log, head>> /\ op'.step = "idle"
    BY <1>2 DEF Restart, repo, Idle
  <2> QED BY <1>1, <2>1 DEF BaseInv, Based, Agree, DeltaCovers, Batch
<1>3. CASE UNCHANGED vars
  BY <1>1, <1>3 DEF BaseInv, Based, Agree, DeltaCovers, Batch, Edited, HeadTree, vars, index, repo
<1> QED BY <1>1, <1>2, <1>3, NextCases, MoveBased, StartBased, PassBased, ChangeBased DEF BaseInv

LEMMA BaseInit == Init => BaseInv
<1> SUFFICES ASSUME Init PROVE Based
  BY InitTypes DEF BaseInv
<1>1. /\ durable.map = log[1].tree /\ durable.base = 1 /\ visible.map = log[1].tree
      /\ op.step = "idle"
  BY DEF Init, Idle
<1> QED BY <1>1 DEF Based, Agree, DeltaCovers, Batch

\* What base_commit promises of the directory, which committed changes are detected by: what
\* was not read ahead of it has that commit's content.  HEAD may move between updates, to a
\* commit that is no ancestor, too, but not while an update runs.
THEOREM BaseStaysApplied ==
  ASSUME ~HeadMoves
  PROVE  Spec => []BaseIsApplied
<1>1. BaseInv /\ [Next]_vars => BaseInv'
  BY BaseStep
<1>2. BaseInv => BaseIsApplied
  BY DEF BaseInv, Based, Agree, BaseIsApplied
<1> QED BY BaseInit, <1>1, <1>2, PTL DEF Spec

-------------------------------------------------------------------------------
(* The anchor and the bookkeeping: every step keeps what they know *)

\* A move writes a file in this tick, and notes it; only a tick by itself moves the clock.
LEMMA MoveFiles ==
  ASSUME TypeInv, Moves
  PROVE  /\ UNCHANGED index
         /\ \A p \in Path : \/ work'[p] = work[p]
                            \/ work'[p].mtime = now /\ work'[p].data # work[p].data /\ p \in touched'
         /\ touched \subseteq touched'
         /\ now \in Nat /\ now' \in Nat /\ now <= now'
         /\ now' = now \/ (UNCHANGED work /\ (Slow \/ pending = NoEdits))
<1> DEFINE Goal == /\ UNCHANGED index
                   /\ \A p \in Path : \/ work'[p] = work[p]
                                      \/ work'[p].mtime = now /\ work'[p].data # work[p].data /\ p \in touched'
                   /\ touched \subseteq touched'
                   /\ now \in Nat /\ now' \in Nat /\ now <= now'
                   /\ now' = now \/ (UNCHANGED work /\ (Slow \/ pending = NoEdits))
<1>0. Types /\ now \in Nat
  BY BoundAssumption DEF TypeInv, Types
<1>1. ASSUME NEW new, Writes(new), UNCHANGED now, UNCHANGED index
      PROVE  Goal
  <2>1. \A p \in Path : work'[p] = IF new[p] = work[p].data THEN work[p] ELSE [data |-> new[p], mtime |-> now]
    BY <1>1 DEF Writes
  <2> QED BY <1>0, <1>1, <2>1 DEF Writes
<1>2. CASE \E p \in Path, f \in File : Edit(p, f)
  BY <1>1, <1>2 DEF Edit, Move
<1>3. CASE Tick
  BY <1>0, <1>3 DEF Tick, Move
<1>4. CASE \E paths \in SUBSET Path : GitCommit(paths)
  BY <1>0, <1>4 DEF GitCommit, Move
<1>5. CASE \E c \in DOMAIN log : Switch(c)
  BY <1>1, <1>5 DEF Switch, Move
<1> QED BY <1>2, <1>3, <1>4, <1>5 DEF Moves

LEMMA MoveAnchored ==
  ASSUME ~Slow, TypeInv, Anchored, Moves
  PROVE  Anchored'
<1>0. Types
  BY DEF TypeInv
<1>1. /\ UNCHANGED <<durable, visible, pending, overlay, book, op>>
      /\ \A p \in Path : \/ work'[p] = work[p]
                         \/ work'[p].mtime = now /\ work'[p].data # work[p].data
      /\ now \in Nat /\ now' \in Nat /\ now <= now'
      /\ now' = now \/ (UNCHANGED work /\ pending = NoEdits)
  BY MoveFiles DEF index
<1>2. /\ \A p \in Path : work[p].mtime \in Nat /\ work'[p].mtime \in Nat
      /\ book.epoch \in Nat /\ op.epoch \in Nat
      /\ overlay \cup book.paths \subseteq Path
  BY <1>0, <1>1 DEF Types, Entry, Op, Mtime
<1>3. DOMAIN durable.anchor \subseteq Path /\ \A p \in DOMAIN durable.anchor : durable.anchor[p] \in Stat
  BY AnchorsTypes, AnchorTypes
<1>4. \A s \in Stat : s # Absent => s \in Nat
  BY DEF Stat
<1>5. Timed'
  <2>1. (\A p \in Path : work[p].mtime <= now)'
    BY <1>1, <1>2 DEF Anchored, Timed
  <2>2. (book.epoch <= now /\ op.epoch <= now)'
    BY <1>1, <1>2 DEF Anchored, Timed
  <2>3. (\A p \in Path : pending[p] = "deleted" /\ Present(p) => work[p].mtime = now)'
    <3>1. CASE now' = now
      BY <1>1, <3>1 DEF Anchored, Timed, Present
    <3>2. CASE pending = NoEdits
      BY <1>1, <3>2 DEF NoEdits
    <3> QED BY <1>1, <3>1, <3>2
  <2> QED BY <2>1, <2>2, <2>3 DEF Timed
<1>6. AnchorIsOld'
  BY <1>1, <1>2, <1>3, <1>4 DEF Anchored, AnchorIsOld
<1>7. AnchorIsTrue'
  <2> SUFFICES ASSUME NEW p \in DOMAIN durable.anchor,
                      durable.anchor[p] = (IF work'[p].data = Absent THEN Absent ELSE work'[p].mtime), work'[p].data # Absent
               PROVE  visible.map[p] = work'[p].data /\ durable.map[p] = work'[p].data
    BY <1>1 DEF AnchorIsTrue, Observed, Present, Fresh
  <2>1. p \in Path /\ durable.anchor[p] = work'[p].mtime
    BY <1>3
  <2>2. durable.anchor[p] # Absent
    BY <2>1, <1>2, AbsentAssumption
  <2>3. durable.anchor[p] < now
    BY <2>1, <2>2 DEF Anchored, AnchorIsOld
  <2>4. work'[p] = work[p]
    BY <1>1, <2>1, <2>3
  <2> QED BY <2>1, <2>4 DEF Anchored, AnchorIsTrue, Observed, Present, Fresh
<1>8. BookIsTrue'
  <2>1. ASSUME NEW p \in overlay \cup book.paths, work'[p].data # Absent, work'[p].mtime < book.epoch
        PROVE  visible.map[p] = work'[p].data
    <3>1. p \in Path /\ book.epoch <= now
      BY <1>2 DEF Anchored, Timed
    <3>2. work'[p] = work[p]
      BY <1>1, <1>2, <2>1, <3>1
    <3> QED BY <2>1, <3>1, <3>2 DEF Anchored, BookIsTrue, Present, Fresh
  <2> QED BY <1>1, <2>1 DEF Anchored, BookIsTrue, Present, Fresh
<1> QED BY <1>5, <1>6, <1>7, <1>8 DEF Anchored

\* A step that leaves the index alone and notifies what git reported.
LEMMA OpAnchored ==
  ASSUME TypeInv, Anchored, UNCHANGED <<durable, visible, overlay, book, work, now>>,
         UNCHANGED pending \/ \E paths : pending' = Notified(paths),
         op'.epoch \in {None, op.epoch, now}
  PROVE  Anchored'
<1>1. Types /\ now \in Nat /\ None = 0 /\ op.epoch \in Nat
  BY BoundAssumption DEF TypeInv, Types, None, Op, Mtime
<1>2. \A p \in Path : pending'[p] = "deleted" /\ Present(p) => pending[p] = "deleted"
  BY DEF Notified, Present
<1>3. Timed'
  BY <1>1, <1>2 DEF Anchored, Timed, Present
<1>4. AnchorIsOld'
  BY <1>1 DEF Anchored, AnchorIsOld
<1>5. AnchorIsTrue' /\ BookIsTrue'
  BY DEF Anchored, AnchorIsTrue, BookIsTrue, Observed, Present, Fresh
<1> QED BY <1>3, <1>4, <1>5 DEF Anchored

LEMMA PassAnchored ==
  ASSUME TypeInv, Anchored, Starts \/ Passes \/ Detect \/ BuildRead
  PROVE  Anchored'
<1> USE SameTypes DEF Op
<1>1. UNCHANGED <<durable, visible, overlay, book, work, now>> /\ (UNCHANGED pending \/ \E paths : pending' = Notified(paths))
  BY DEF Starts, Update, SearchFresh, FlushCall, CompactCall, Passes, Stale, Check, Diff, RecordHead, Flush,
         Stamp, CommitFails, Return, Detect, BuildRead, repo
<1>2. op'.epoch \in {None, op.epoch, now}
  <2>1. Idle.epoch = None /\ Idle \in Op
    BY EmptyTypes DEF Idle
  <2>2. Starts => op'.epoch = op.epoch
    BY DEF Starts, Update, SearchFresh, FlushCall, CompactCall
  <2>3. CommitFails => op'.epoch = None
    BY <2>1 DEF CommitFails
  <2>4. Passes /\ ~CommitFails => op'.epoch \in {None, op.epoch, now}
    BY <2>1 DEF Passes, Stale, Check, Diff, RecordHead, Flush, Stamp, Return, Goto, Commits
  <2>5. Detect \/ BuildRead => op'.epoch \in {None, op.epoch}
    BY <2>1 DEF Detect, BuildRead, Goto, Commits
  <2> QED BY <2>2, <2>3, <2>4, <2>5
<1> QED BY <1>1, <1>2, OpAnchored

LEMMA BatchAnchored ==
  ASSUME TypeInv, Anchored, CommitBatch
  PROVE  Anchored'
<1>1. /\ Types /\ now \in Nat /\ op.epoch \in Nat /\ book.epoch \in Nat /\ None = 0
      /\ \A p \in Path : work[p].mtime \in Nat
  BY BoundAssumption DEF TypeInv, Types, None, Op, Mtime, Entry
<1>2. op.epoch # None /\ op'.epoch = None /\ UNCHANGED <<durable, work, now>> /\ pending' = NoEdits
  BY SameTypes DEF CommitBatch, repo, Op
<1>3. /\ visible'.map = Read.map
      /\ overlay' = (overlay \ Edited) \cup Documents
      /\ book'.paths = book.paths \cup (Edited \ Documents)
      /\ book'.epoch = (IF book.epoch = None THEN op.epoch ELSE book.epoch)
  BY DEF CommitBatch
<1>4. \A p \in Path : /\ p \notin Edited => Read.map[p] = visible.map[p]
                      /\ p \in Documents => Read.map[p] = work[p].data
  BY DEF Read, Works, Documents
<1>5. \A p \in Edited \ Documents : Present(p) => work[p].mtime = now
  BY <1>1 DEF Edited, Documents, Present, Anchored, Timed, Types
<1>6. book'.epoch # None /\ book'.epoch <= now /\ book'.epoch \in Nat
  BY <1>1, <1>2, <1>3 DEF Anchored, Timed
<1>7. Timed'
  BY <1>1, <1>2, <1>6 DEF Anchored, Timed, NoEdits
<1>8. AnchorIsOld'
  BY <1>1, <1>2, <1>3 DEF Anchored, AnchorIsOld
<1>9. AnchorIsTrue'
  <2> SUFFICES ASSUME NEW p \in DOMAIN durable.anchor, durable.anchor[p] = Observed(p), Present(p)
               PROVE  Read.map[p] = work[p].data /\ durable.map[p] = work[p].data
    BY <1>2, <1>3 DEF AnchorIsTrue, Observed, Present, Fresh
  <2>1. p \in Path /\ durable.anchor[p] = work[p].mtime /\ durable.anchor[p] # Absent
    BY <1>1, AnchorsTypes, AnchorTypes, AbsentAssumption DEF Observed, Present
  <2>2. durable.anchor[p] < now /\ Fresh(p) /\ durable.map[p] = work[p].data
    BY <2>1 DEF Anchored, AnchorIsOld, AnchorIsTrue
  <2>3. p \notin Edited \ Documents
    BY <1>1, <1>5, <2>1, <2>2
  <2> QED BY <1>4, <2>1, <2>2, <2>3 DEF Fresh
<1>10. BookIsTrue'
  <2> SUFFICES ASSUME NEW p \in overlay' \cup book'.paths, Present(p), work[p].mtime < book'.epoch
               PROVE  Read.map[p] = work[p].data
    BY <1>2, <1>3, <1>6 DEF BookIsTrue, Present, Fresh
  <2>1. p \in Path
    BY <1>3, ReadTypes DEF TypeInv, Types
  <2>2. CASE p \in Edited \ Documents
    BY <1>1, <1>5, <1>6, <2>1, <2>2
  <2>3. CASE p \in Documents
    BY <1>4, <2>1, <2>3
  <2>4. CASE p \notin Edited
    <3>1. p \in overlay \cup book.paths
      BY <1>3, <2>4, ReadTypes DEF TypeInv
    <3>2. book.epoch # None /\ Fresh(p)
      BY <1>3, <3>1 DEF Anchored, BookIsTrue
    <3> QED BY <1>4, <2>1, <2>4, <3>2 DEF Fresh
  <2> QED BY <2>2, <2>3, <2>4
<1> QED BY <1>7, <1>8, <1>9, <1>10 DEF Anchored

\* An anchor that is old and true may be installed with the view it is true of.
LEMMA WrittenAnchored ==
  ASSUME TypeInv, Anchored, NEW view, NEW base, NEW anchor, Written(view, base, anchor),
         UNCHANGED <<work, now, pending>>, op'.epoch = None,
         \A p \in DOMAIN anchor : anchor[p] # Absent => anchor[p] < now,
         \A p \in DOMAIN anchor : anchor[p] = Observed(p) /\ Present(p) => view.map[p] = work[p].data
  PROVE  Anchored'
<1>1. /\ durable'.map = view.map /\ visible'.map = view.map /\ durable'.anchor = anchor
      /\ overlay' = {} /\ book'.epoch = None /\ book'.paths = {}
  BY DEF Written, NoBook
<1>2. now \in Nat /\ None = 0
  BY BoundAssumption DEF TypeInv, Types, None
<1>3. Timed'
  BY <1>1, <1>2 DEF Anchored, Timed, Present
<1>4. AnchorIsOld' /\ AnchorIsTrue' /\ BookIsTrue'
  BY <1>1 DEF AnchorIsOld, AnchorIsTrue, BookIsTrue, Observed, Present, Fresh
<1> QED BY <1>3, <1>4 DEF Anchored

\* What a flush anchors is old, and true of the view it writes.
LEMMA NextAnchorIsTrue ==
  ASSUME TypeInv, Anchored, NEW anchor \in Anchors
  PROVE  /\ \A p \in DOMAIN anchor : anchor[p] # Absent => anchor[p] < now
         /\ \A p \in DOMAIN anchor : anchor[p] = Observed(p) /\ Present(p) => visible.map[p] = work[p].data
<1> DEFINE flushed == overlay \cup book.paths
           trusted == {p \in flushed : Settled(Observed(p), book.epoch)}
           carried == DOMAIN durable.anchor \ flushed
           next == [p \in trusted \cup carried |-> IF p \in trusted THEN Observed(p) ELSE durable.anchor[p]]
<1>1. /\ now \in Nat /\ book.epoch \in Nat /\ book.epoch <= now /\ flushed \subseteq Path
      /\ \A p \in Path : work[p].mtime \in Nat
  BY BoundAssumption DEF TypeInv, Types, Mtime, Entry, Anchored, Timed
<1>2. CASE anchor = NoAnchor
  BY <1>2 DEF NoAnchor
<1>3. CASE anchor = next
  <2> SUFFICES ASSUME NEW p \in trusted \cup carried
               PROVE  /\ next[p] # Absent => next[p] < now
                      /\ next[p] = Observed(p) /\ Present(p) => visible.map[p] = work[p].data
    BY <1>3
  <2>1. CASE p \in trusted
    <3>1. p \in Path /\ Settled(Observed(p), book.epoch) /\ next[p] = Observed(p)
      BY <1>1, <2>1
    <3>2. Present(p) => work[p].mtime < book.epoch
      BY <1>1, <3>1, AbsentAssumption DEF Settled, Observed, Present
    <3>3. Observed(p) # Absent => Present(p) /\ Observed(p) = work[p].mtime
      BY DEF Observed, Present
    <3>4. Present(p) => Fresh(p)
      BY <2>1, <3>2 DEF Anchored, BookIsTrue
    <3> HIDE DEF next
    <3> QED BY <1>1, <3>1, <3>2, <3>3, <3>4 DEF Fresh
  <2>2. CASE p \notin trusted
    <3>1. p \in DOMAIN durable.anchor /\ next[p] = durable.anchor[p]
      BY <2>2
    <3> HIDE DEF next
    <3> QED BY <3>1 DEF Anchored, AnchorIsOld, AnchorIsTrue, Fresh
  <2> QED BY <2>1, <2>2
<1> QED BY <1>2, <1>3 DEF Anchors, NextAnchor

LEMMA ChangeAnchored ==
  ASSUME ~Drains, TypeInv, Anchored, FlushDelta \/ BuildHead \/ FlushWrite \/ Compact
  PROVE  Anchored'
<1>1. UNCHANGED <<work, now, pending>> /\ op.epoch = None
  BY SameTypes DEF FlushDelta, BuildHead, FlushWrite, Compact, repo
<1>2. op'.epoch = None
  <2>1. Idle.epoch = None /\ op \in Op
    BY SameTypes DEF Idle
  <2> QED BY <1>1, <2>1 DEF FlushDelta, BuildHead, FlushWrite, Compact, Flushed, Op
<1>3. ASSUME UNCHANGED <<durable, visible, overlay, book>> PROVE Anchored'
  BY <1>1, <1>2, <1>3, OpAnchored
<1>4. BookOfFailed => UNCHANGED book
  BY DEF BookOfFailed
<1>5. ASSUME NEW base, NEW anchor \in Anchors, Written(visible, base, anchor) PROVE Anchored'
  BY <1>1, <1>2, <1>5, NextAnchorIsTrue, WrittenAnchored
<1>6. CASE FlushDelta
  BY <1>3, <1>4, <1>5, <1>6 DEF FlushDelta
<1>7. CASE BuildHead
  <2>1. Written(op.view, head, NoAnchor) /\ DOMAIN NoAnchor = {}
    BY <1>7 DEF BuildHead, NoAnchor
  <2> QED BY <1>1, <1>2, <2>1, WrittenAnchored
<1>8. CASE FlushWrite
  BY <1>3, <1>4, <1>5, <1>8 DEF FlushWrite
<1>9. CASE Compact
  <2>1. Written(visible, CompactedBase, durable.anchor) \/ UNCHANGED <<durable, visible, overlay, book>>
    BY <1>9 DEF Compact
  <2>2. /\ \A p \in DOMAIN durable.anchor : durable.anchor[p] # Absent => durable.anchor[p] < now
        /\ \A p \in DOMAIN durable.anchor : durable.anchor[p] = Observed(p) /\ Present(p) => visible.map[p] = work[p].data
    BY DEF Anchored, AnchorIsOld, AnchorIsTrue, Fresh
  <2> QED BY <1>1, <1>2, <1>3, <2>1, <2>2, WrittenAnchored
<1> QED BY <1>6, <1>7, <1>8, <1>9

LEMMA RestartAnchored ==
  ASSUME TypeInv, Anchored, Restart
  PROVE  Anchored'
<1>1. /\ visible'.map = durable.map /\ pending' = NoEdits /\ overlay' = {} /\ book'.epoch = None /\ book'.paths = {}
      /\ op'.epoch = None /\ UNCHANGED <<durable, work, now>>
  BY DEF Restart, repo, NoBook, Idle
<1>2. now \in Nat /\ None = 0
  BY BoundAssumption DEF TypeInv, Types, None
<1>3. Timed'
  BY <1>1, <1>2 DEF Anchored, Timed, NoEdits
<1>4. AnchorIsOld' /\ AnchorIsTrue' /\ BookIsTrue'
  BY <1>1 DEF Anchored, AnchorIsOld, AnchorIsTrue, BookIsTrue, Observed, Present, Fresh
<1> QED BY <1>3, <1>4 DEF Anchored

-------------------------------------------------------------------------------
(* A call: every step keeps what it has achieved *)

CallInv == AtHead /\ Kinds /\ Achieved

\* A move adds no file to those that are steady and drift, and leaves the content of each.
LEMMA MoveSteady ==
  ASSUME TypeInv, Moves
  PROVE  /\ \A p \in Path \ touched' : p \notin touched /\ work'[p] = work[p]
         /\ \A p \in Drifted' : p \in Drifted
         /\ op.step \in {"idle", "answer", "done"} \/ HeadMoves \/ head' = head
<1>1. \A p \in Path \ touched' : p \notin touched /\ work'[p] = work[p]
  BY MoveFiles
<1>3. head \in DOMAIN log /\ log \in Seq(Commit) /\ \A c \in DOMAIN log : log'[c] = log[c]
  BY MoveLog DEF TypeInv, Types
<1>4. ASSUME NEW p \in Path \ touched', work[p].data = HeadTree[p]
      PROVE  work[p].data = log'[head'].tree[p]
  <2>1. CASE head' = head
    BY <1>3, <1>4, <2>1 DEF HeadTree
  <2>2. ASSUME NEW paths \in SUBSET Path, GitCommit(paths)
        PROVE  work[p].data = log'[head'].tree[p]
    <3>1. Len(log) \in Nat /\ Len(log') = Len(log) + 1
      BY <1>3, <2>2 DEF GitCommit
    <3>2. log'[head'].tree[p] = IF p \in paths THEN Works[p] ELSE HeadTree[p]
      BY <1>3, <2>2, <3>1 DEF GitCommit
    <3> QED BY <1>4, <3>2 DEF Works
  <2>3. ASSUME NEW c \in DOMAIN log, Switch(c)
        PROVE  work[p].data = log'[head'].tree[p]
    <3>1. p \notin Drift
      BY <1>4 DEF Drift, Works
    <3>2. log[c].tree[p] = work[p].data
      BY <1>1, <2>3, <3>1 DEF Switch, Writes
    <3> QED BY <2>3, <3>2 DEF Switch
  <2> QED BY <2>1, <2>2, <2>3 DEF Moves, Edit, Tick
<1>5. \A p \in Drifted' : p \in Drifted
  BY <1>1, <1>4 DEF Drifted, Steady, Drift, Works, HeadTree
<1>6. op.step \in {"idle", "answer", "done"} \/ HeadMoves \/ head' = head
  BY DEF Moves, Edit, Tick, GitCommit, Switch, HeadMayMove
<1> QED BY <1>1, <1>5, <1>6

LEMMA MoveCall ==
  ASSUME ~HeadMoves, TypeInv, CallInv, Moves
  PROVE  CallInv'
<1>1. /\ UNCHANGED <<durable, visible, pending, overlay, book, op>>
      /\ \A p \in Path \ touched' : p \notin touched /\ work'[p] = work[p]
      /\ \A p \in Drifted' : p \in Drifted
      /\ op.step \in {"idle", "answer", "done"} \/ head' = head
  BY MoveFiles, MoveSteady DEF index
<1>2. \A p \in Drifted' : work'[p] = work[p] /\ p \in Path
  BY <1>1 DEF Drifted, Steady
<1>3. AtHead' /\ Kinds'
  BY <1>1 DEF CallInv, AtHead, Detected, Kinds, Batch
<1>4. /\ (Batch({"answer", "flush"}) => \A p \in Drifted : Reads(p))'
      /\ (Flushing => \A p \in Drifted : Fresh(p) /\ pending[p] # "deleted")'
      /\ (Rebuild({"flush"}) => \A p \in Drifted : pending[p] # "deleted")'
      /\ (op.step = "write" /\ op.kind = "update" => \A p \in Drifted : Fresh(p))'
  BY <1>1, <1>2 DEF CallInv, Achieved, Batch, Rebuild, Flushing, Reads, Fresh
<1>5. (op.step = "buildHead" => \A p \in Path \ touched : op.view.map[p] = work[p].data)'
  BY <1>1 DEF CallInv, Achieved
<1>6. DriftIsFresh'
  <2>1. (Steady \cap Drift)' = Drifted' /\ Steady \cap Drift = Drifted
    BY DEF Drifted
  <2> QED BY <1>1, <1>2, <2>1 DEF CallInv, Achieved, DriftIsFresh
<1>7. CleanIsFresh'
  <2> SUFFICES ASSUME op.step = "done", NEW p \in ((Steady \ Drift) \ Ahead(visible, durable.base))'
               PROVE  visible.map[p] = work'[p].data
    BY <1>1 DEF CleanIsFresh
  <2>1. p \in Steady /\ work'[p] = work[p]
    BY <1>1 DEF Steady
  <2>2. p \notin Ahead(visible, durable.base)
    BY <1>1, SameTypes, MoveLog DEF Ahead, TypeInv
  <2> QED BY <2>1, <2>2 DEF CallInv, Achieved, DriftIsFresh, CleanIsFresh
<1> QED BY <1>3, <1>4, <1>5, <1>6, <1>7 DEF CallInv, Achieved

LEMMA StartCall ==
  ASSUME TypeInv, CallInv, Starts
  PROVE  CallInv'
<1>1. \/ op'.step = "stale" /\ op'.kind = "update"
      \/ op'.step = "detect" /\ op'.kind = "search"
      \/ op'.step = "flush" /\ op'.kind = "flush"
      \/ op'.step \in {"compact", "commit"} /\ op'.then \in {"idle", "compact"} /\ op'.kind = "compact"
  BY SameTypes DEF Starts, Update, SearchFresh, FlushCall, CompactCall, Op
<1> QED BY <1>1 DEF CallInv, AtHead, Detected, Kinds, Achieved, Flushing, Batch, Rebuild, DriftIsFresh, CleanIsFresh

\* With base_commit at HEAD and the drift answered, every file is.
LEMMA CleanAtHead ==
  ASSUME Based, durable.base = head, NEW p \in Path \ Drift, p \notin Ahead(visible, durable.base)
  PROVE  visible.map[p] = work[p].data
<1>1. work[p].data = log[head].tree[p]
  BY DEF Drift, Works, HeadTree
<1> QED BY <1>1 DEF Based, Agree, Ahead

LEMMA PassCall ==
  ASSUME BaseInv, CallInv, Passes
  PROVE  CallInv'
<1>0. TypeInv /\ Based /\ op \in Op
  BY SameTypes DEF BaseInv
<1>1. CASE Stale
  <2>1. op'.step = "check" \/ (op'.step = "commit" /\ op'.then = "check")
    BY <1>0, <1>1 DEF Stale, Goto, Commits, Op
  <2>2. op'.kind = "update"
    BY <1>0, <1>1 DEF Stale, Goto, Commits, Op, CallInv, Kinds
  <2> QED BY <2>1, <2>2 DEF CallInv, AtHead, Detected, Kinds, Achieved, Flushing, Batch, Rebuild, DriftIsFresh, CleanIsFresh
<1>2. CASE Check
  <2>1. /\ op'.step \in {"detect", "diff"} \/ (op'.step = "build" /\ op'.then = "done")
        /\ op'.step = "detect" => durable'.base = head'
    BY <1>0, <1>2 DEF Check, Goto, Op, repo
  <2>2. op'.kind = "update"
    BY <1>0, <1>2 DEF Check, Goto, Op, CallInv, Kinds
  <2> QED BY <2>1, <2>2 DEF CallInv, AtHead, Detected, Kinds, Achieved, Flushing, Batch, Rebuild, DriftIsFresh, CleanIsFresh
<1>3. CASE Diff
  <2>1. (op'.step = "commit" /\ op'.then = "head") \/ (op'.step = "build" /\ op'.then = "done")
    BY <1>0, <1>3 DEF Diff, Commits, Op
  <2>2. op'.kind = "update"
    BY <1>0, <1>3 DEF Diff, Commits, Op, CallInv, Kinds
  <2> QED BY <2>1, <2>2 DEF CallInv, AtHead, Detected, Kinds, Achieved, Flushing, Batch, Rebuild, DriftIsFresh, CleanIsFresh
<1>4. CASE RecordHead
  <2>1. op'.step = "flushDelta" /\ op'.kind = "update"
    BY <1>0, <1>4 DEF RecordHead, Op, CallInv, Kinds
  <2> QED BY <2>1 DEF CallInv, AtHead, Detected, Kinds, Achieved, Flushing, Batch, Rebuild, DriftIsFresh, CleanIsFresh
<1>5. CASE Flush
  <2>1. /\ op.step = "flush" /\ op'.kind = op.kind
        /\ op'.step = "write" \/ (op'.step = "commit" /\ op'.then = "write")
    BY <1>0, <1>5 DEF Flush, Goto, Commits, Op
  <2>2. UNCHANGED <<durable, visible, pending, work, log, head, touched>>
    BY <1>5 DEF Flush, repo
  <2> QED BY <2>1, <2>2 DEF CallInv, AtHead, Detected, Kinds, Achieved, Flushing, Batch, Rebuild, DriftIsFresh, CleanIsFresh,
                            Drifted, Steady, Drift, Works, HeadTree, Fresh
<1>6. CASE Stamp
  <2>1. op.step = "commit" /\ op'.kind = op.kind /\ op'.step = "read" /\ op'.then = op.then
    BY <1>0, <1>6 DEF Stamp, Op
  <2>2. UNCHANGED <<durable, visible, pending, work, log, head, touched>>
    BY <1>6 DEF Stamp, repo
  <2> QED BY <2>1, <2>2 DEF CallInv, AtHead, Detected, Kinds, Achieved, Flushing, Batch, Rebuild, DriftIsFresh, CleanIsFresh,
                            Drifted, Steady, Drift, Works, HeadTree, Fresh, Reads
<1>7. CASE CommitFails
  <2>0. op.step = "read" /\ UNCHANGED <<durable, visible, pending, work, log, head, touched>>
    BY <1>7 DEF CommitFails, repo
  <2>1. Idle \in Op /\ Idle.step = "idle"
    BY EmptyTypes DEF Idle
  <2>2. \/ op.then = "head" /\ op'.step = "build" /\ op'.then = "done" /\ op'.kind = op.kind
        \/ op.then = "flush" /\ op'.step = "build" /\ op'.then = "flush" /\ op'.kind = op.kind
        \/ op.then = "write" /\ op.kind = "update" /\ op'.step = "done" /\ op'.kind = op.kind
        \/ op'.step = "idle"
    BY <1>0, <1>7, <2>1 DEF CommitFails, Op
  <2>3. CASE op.then = "head" /\ op'.step = "build" /\ op'.then = "done" /\ op'.kind = op.kind
    BY <2>0, <2>3 DEF CallInv, AtHead, Detected, Kinds, Achieved, Flushing, Batch, Rebuild, DriftIsFresh, CleanIsFresh
  <2>4. CASE op.then = "flush" /\ op'.step = "build" /\ op'.then = "flush" /\ op'.kind = op.kind
    <3>1. \A p \in Drifted' : pending'[p] # "deleted"
      BY <2>0, <2>4 DEF CallInv, Achieved, Batch, Drifted, Steady, Drift, Works, HeadTree, Reads
    <3>2. op.kind = "update"
      BY <2>0, <2>4 DEF CallInv, Kinds, Batch
    <3> QED BY <2>4, <3>1, <3>2 DEF CallInv, AtHead, Detected, Kinds, Achieved, Flushing, Batch, Rebuild, DriftIsFresh, CleanIsFresh
  <2>5. CASE op.then = "write" /\ op.kind = "update" /\ op'.step = "done" /\ op'.kind = op.kind
    <3>1. durable.base = head /\ \A p \in Drifted : Fresh(p)
      BY <2>0, <2>5 DEF CallInv, AtHead, Detected, Achieved, Flushing, Batch
    <3>2. DriftIsFresh'
      BY <2>0, <3>1 DEF DriftIsFresh, Drifted, Steady, Drift, Works, HeadTree, Fresh
    <3>3. \A p \in (Steady \ Drift) \ Ahead(visible, durable.base) : visible.map[p] = work[p].data
      BY <1>0, <3>1, CleanAtHead DEF Steady
    <3>4. CleanIsFresh'
      BY <2>0, <3>3 DEF CleanIsFresh, Steady, Drift, Works, HeadTree, Ahead
    <3> QED BY <2>5, <3>2, <3>4 DEF CallInv, AtHead, Detected, Kinds, Achieved, Flushing, Batch, Rebuild
  <2>6. CASE op'.step = "idle"
    BY <2>6 DEF CallInv, AtHead, Detected, Kinds, Achieved, Flushing, Batch, Rebuild, DriftIsFresh, CleanIsFresh
  <2> QED BY <2>2, <2>3, <2>4, <2>5, <2>6
<1>8. CASE Return
  <2>1. op'.step = "idle"
    BY <1>8 DEF Return, Idle
  <2> QED BY <2>1 DEF CallInv, AtHead, Detected, Kinds, Achieved, Flushing, Batch, Rebuild, DriftIsFresh, CleanIsFresh
<1> QED BY <1>1, <1>2, <1>3, <1>4, <1>5, <1>6, <1>7, <1>8 DEF Passes

\* What is known of a file that is steady and drifts once it is looked for: it is notified, or
\* indexed as it is.
LEMMA DetectReads ==
  ASSUME TypeInv, Anchored, NEW p \in Drift, Present(p)
  PROVE  /\ p \notin Unflushed(Drift) => Fresh(p) /\ pending[p] # "deleted"
         /\ p \in Unflushed(Drift) => Notified(Unflushed(Drift))[p] = "changed"
         /\ p \notin Unflushed(Drift) => Notified(Unflushed(Drift))[p] = pending[p]
<1>1. p \in Path
  BY DEF Drift
<1>2. ASSUME p \notin Unflushed(Drift) PROVE Fresh(p) /\ pending[p] # "deleted"
  <2>1. p \in DOMAIN durable.anchor /\ durable.anchor[p] = Observed(p)
    BY <1>2 DEF Unflushed
  <2>2. Fresh(p)
    BY <2>1 DEF Anchored, AnchorIsTrue
  <2>3. work[p].mtime \in Nat /\ now \in Nat
    BY <1>1, BoundAssumption DEF TypeInv, Types, Entry, Mtime
  <2>4. durable.anchor[p] = work[p].mtime /\ durable.anchor[p] # Absent
    BY <2>1, <2>3, AbsentAssumption DEF Observed, Present
  <2>5. work[p].mtime < now
    BY <2>1, <2>4 DEF Anchored, AnchorIsOld
  <2> QED BY <1>1, <2>2, <2>3, <2>5 DEF Anchored, Timed
<1> QED BY <1>1, <1>2 DEF Notified, Present

LEMMA DetectCall ==
  ASSUME BaseInv, Anchored, CallInv, Detect
  PROVE  CallInv'
<1>0. TypeInv /\ Based /\ op \in Op /\ op.step = "detect"
  BY SameTypes DEF BaseInv, Detect
<1>1. UNCHANGED <<durable, visible, work, log, head>> /\ touched' = {}
  BY DEF Detect
<1>2. Drift' = Drift /\ Drifted' = {p \in Drift : Present(p)}
  BY <1>1 DEF Drifted, Steady, Drift, Works, HeadTree, Present
<1>3. op.kind \in {"update", "search"} /\ (op.kind = "update" => durable.base = head)
  BY <1>0 DEF CallInv, Kinds, AtHead, Detected
<1>4. /\ op'.kind = op.kind \/ op'.step = "idle"
      /\ \/ op'.step = "idle"
         \/ Unflushed(Drift) = {} /\ op'.step = (IF op.kind = "search" THEN "answer" ELSE "done")
         \/ /\ op'.step = "commit" /\ op'.then = (IF op.kind = "search" THEN "answer" ELSE "flush")
            /\ pending' = Notified(Unflushed(Drift))
  <2>1. Idle.step = "idle"
    BY DEF Idle
  <2> QED BY <1>0, <2>1 DEF Detect, Goto, Commits, Op
<1>5. CASE op'.step = "idle"
  BY <1>5 DEF CallInv, AtHead, Detected, Kinds, Achieved, Flushing, Batch, Rebuild, DriftIsFresh, CleanIsFresh
<1>6. CASE /\ op'.kind = op.kind
           /\ Unflushed(Drift) = {} /\ op'.step = (IF op.kind = "search" THEN "answer" ELSE "done")
  <2>1. \A p \in Drifted' : Fresh(p)
    BY <1>0, <1>2, <1>6, DetectReads
  <2>2. DriftIsFresh'
    <3>1. (Steady \cap Drift)' = Drifted'
      BY DEF Drifted
    <3> QED BY <1>1, <2>1, <3>1 DEF DriftIsFresh, Fresh
  <2>3. CleanIsFresh'
    <3> SUFFICES ASSUME op'.step = "done", NEW p \in ((Steady \ Drift) \ Ahead(visible, durable.base))'
                 PROVE  visible.map[p] = work[p].data
      BY <1>1 DEF CleanIsFresh
    <3>1. op.kind = "update"
      BY <1>3, <1>6
    <3>2. p \in Path \ Drift /\ p \notin Ahead(visible, durable.base)
      BY <1>1, <1>2 DEF Steady, Ahead
    <3> QED BY <1>0, <1>3, <3>1, <3>2, CleanAtHead
  <2> QED BY <1>3, <1>6, <2>2, <2>3 DEF CallInv, AtHead, Detected, Kinds, Achieved, Flushing, Batch, Rebuild
<1>7. CASE /\ op'.kind = op.kind
           /\ op'.step = "commit" /\ op'.then = (IF op.kind = "search" THEN "answer" ELSE "flush")
           /\ pending' = Notified(Unflushed(Drift))
  <2>1. \A p \in Drifted' : Reads(p)'
    <3> SUFFICES ASSUME NEW p \in Drift, Present(p)
                 PROVE  pending'[p] = "changed" \/ (pending'[p] = "none" /\ Fresh(p))
      BY <1>1, <1>2 DEF Reads, Fresh
    <3>1. p \in Path /\ pending[p] \in {"none", "changed", "deleted"}
      BY <1>0, SameTypes DEF Drift
    <3> QED BY <1>0, <1>7, <3>1, DetectReads
  <2>2. AtHead' /\ Kinds'
    BY <1>1, <1>3, <1>7 DEF AtHead, Detected, Kinds, Batch
  <2> QED BY <1>7, <2>1, <2>2 DEF CallInv, Achieved, Flushing, Batch, Rebuild, DriftIsFresh, CleanIsFresh
<1> QED BY <1>4, <1>5, <1>6, <1>7

\* What a batch reads is as it is.
LEMMA BatchReads ==
  ASSUME TypeInv, NEW p \in Path, Present(p)
  PROVE  /\ Reads(p) => Read.map[p] = work[p].data
         /\ Fresh(p) /\ pending[p] # "deleted" => Read.map[p] = work[p].data
<1>1. pending[p] \in {"none", "changed", "deleted"}
  BY SameTypes
<1> QED BY <1>1 DEF Read, Reads, Edited, Documents, Present, Fresh, Works

LEMMA BatchCall ==
  ASSUME BaseInv, CallInv, CommitBatch
  PROVE  CallInv'
<1>0. TypeInv /\ op \in Op
  BY SameTypes DEF BaseInv
<1>1. /\ op.step = "read" /\ op'.step = op.then /\ op'.kind = op.kind /\ op'.then = op.then
      /\ visible'.map = Read.map /\ pending' = NoEdits
      /\ UNCHANGED <<durable, work, log, head, touched>>
  BY <1>0 DEF CommitBatch, Op, repo
<1>2. op.then \in {"check", "head", "answer", "flush", "write", "compact"}
  BY <1>0, <1>1 DEF TypeInv, Places, Batch
<1>3. /\ Drifted' = Drifted /\ (Steady \cap Drift)' = Drifted
      /\ \A p \in Drifted : p \in Path /\ Present(p)
  BY <1>1 DEF Drifted, Steady, Drift, Works, HeadTree, Present
<1>4. AtHead'
  BY <1>1, <1>2 DEF CallInv, AtHead, Detected, Batch
<1>5. Kinds'
  BY <1>1, <1>2 DEF CallInv, Kinds, Batch
<1>6. op.then \in {"answer", "flush"} \/ (op.then = "write" /\ op.kind = "update")
        => \A p \in Drifted : visible'.map[p] = work'[p].data
  <2>1. op.then \in {"answer", "flush"} => \A p \in Drifted : Reads(p)
    BY <1>1 DEF CallInv, Achieved, Batch
  <2>2. op.then = "write" /\ op.kind = "update" => \A p \in Drifted : Fresh(p) /\ pending[p] # "deleted"
    BY <1>1 DEF CallInv, Achieved, Flushing, Batch
  <2> QED BY <1>0, <1>1, <1>3, <2>1, <2>2, BatchReads
<1>7. Flushing' => \A p \in Drifted' : Fresh(p)' /\ pending'[p] # "deleted"
  <2> SUFFICES ASSUME Flushing', NEW p \in Drifted PROVE Fresh(p)' /\ pending'[p] # "deleted"
    BY <1>3
  <2>1. op.then = "flush"
    BY <1>1, <1>2 DEF Flushing, Batch
  <2> QED BY <1>1, <1>3, <1>6, <2>1 DEF Fresh, NoEdits
<1>8. op'.step = "write" /\ op'.kind = "update" => \A p \in Drifted' : Fresh(p)'
  BY <1>1, <1>3, <1>6 DEF Fresh
<1>9. DriftIsFresh' /\ CleanIsFresh'
  BY <1>1, <1>2, <1>3, <1>6 DEF DriftIsFresh, CleanIsFresh
<1> QED BY <1>1, <1>2, <1>4, <1>5, <1>7, <1>8, <1>9 DEF CallInv, Achieved, Batch, Rebuild

LEMMA WriteCall ==
  ASSUME ~HeadMoves, BaseInv, Based', CallInv, FlushDelta \/ FlushWrite \/ Compact
  PROVE  CallInv'
<1>0. TypeInv /\ Based /\ op \in Op /\ "ahead" \in DOMAIN visible
  BY SameTypes, ViewFields DEF BaseInv
<1>1. CASE FlushDelta
  <2>0. op.step = "flushDelta" /\ UNCHANGED <<work, log, head, touched>> /\ Idle.step = "idle"
    BY <1>1 DEF FlushDelta, repo, Idle
  <2>1. \/ op'.step = "idle"
        \/ op'.kind = op.kind /\ op'.step = "build" /\ op'.then = "done"
        \/ op'.kind = op.kind /\ op'.step = "detect" /\ \E anchor : Written(visible, op.head, anchor)
    <3>1. CASE op' = Idle
      BY <2>0, <3>1
    <3>2. CASE op' = [op EXCEPT !.step = "detect", !.head = None] /\ \E anchor : Written(visible, op.head, anchor)
      BY <1>0, <3>2 DEF Op
    <3>3. CASE op' = [op EXCEPT !.step = "build", !.then = "done", !.head = None]
      BY <1>0, <3>3 DEF Op
    <3> QED BY <1>1, <3>1, <3>2, <3>3 DEF FlushDelta
  <2>2. op'.step = "detect" => durable'.base = head'
    BY <1>0, <2>0, <2>1 DEF Written, Based
  <2>3. op.kind = "update"
    BY <2>0 DEF CallInv, Kinds
  <2> QED BY <2>0, <2>1, <2>2, <2>3 DEF CallInv, AtHead, Detected, Kinds, Achieved, Flushing, Batch, Rebuild, DriftIsFresh, CleanIsFresh
<1>2. CASE FlushWrite
  <2>1. /\ op.step = "write" /\ UNCHANGED <<work, log, head, touched>>
        /\ op'.step = "idle" \/ (op'.kind = op.kind /\ op.kind = "update" /\ op'.step = "done"
              /\ (UNCHANGED <<durable, visible>> \/ \E anchor : Written(visible, durable.base, anchor)))
    BY <1>0, <1>2 DEF FlushWrite, FlushKeepsBase, Flushed, Op, repo, Idle
  <2>2. CASE op'.step = "idle"
    BY <2>2 DEF CallInv, AtHead, Detected, Kinds, Achieved, Flushing, Batch, Rebuild, DriftIsFresh, CleanIsFresh
  <2>3. CASE /\ op'.kind = op.kind /\ op.kind = "update" /\ op'.step = "done"
             /\ (UNCHANGED <<durable, visible>> \/ \E anchor : Written(visible, durable.base, anchor))
    <3>1. visible'.map = visible.map /\ durable'.base = durable.base
      BY <1>0, <2>1, <2>3, WrittenAgrees DEF Based
    <3>2. durable.base = head /\ \A p \in Drifted : Fresh(p)
      BY <2>1, <2>3 DEF CallInv, AtHead, Detected, Achieved
    <3>3. DriftIsFresh'
      BY <2>1, <3>1, <3>2 DEF DriftIsFresh, Drifted, Steady, Drift, Works, HeadTree, Fresh
    <3>4. CleanIsFresh'
      <4> SUFFICES ASSUME NEW p \in ((Steady \ Drift) \ Ahead(visible, durable.base))'
                   PROVE  visible'.map[p] = work'[p].data
        BY DEF CleanIsFresh
      <4>1. work'[p].data = log'[head'].tree[p] /\ p \in Path
        BY DEF Steady, Drift, Works, HeadTree
      <4>2. durable'.base = head'
        BY <2>1, <3>1, <3>2
      <4> QED BY <4>1, <4>2 DEF Based, Agree, Ahead
    <3> QED BY <2>3, <3>3, <3>4 DEF CallInv, AtHead, Detected, Kinds, Achieved, Flushing, Batch, Rebuild
  <2> QED BY <2>1, <2>2, <2>3
<1>3. CASE Compact
  <2>1. op'.step = "idle"
    BY <1>3 DEF Compact, Idle
  <2> QED BY <2>1 DEF CallInv, AtHead, Detected, Kinds, Achieved, Flushing, Batch, Rebuild, DriftIsFresh, CleanIsFresh
<1> QED BY <1>1, <1>2, <1>3

\* A rebuild answers every file that is not written since.
LEMMA BuildCall ==
  ASSUME BaseInv, CallInv, BuildRead \/ BuildHead
  PROVE  CallInv'
<1>0. TypeInv /\ Based /\ op \in Op /\ "ahead" \in DOMAIN op.view
  BY SameTypes, ViewFields DEF BaseInv
<1>1. op.kind = "update" /\ op.then \in {"done", "flush"}
  BY <1>0 DEF BuildRead, BuildHead, CallInv, Kinds, TypeInv, Places, Rebuild
<1>2. CASE BuildRead
  <2>1. /\ op.step = "build" /\ UNCHANGED <<pending, work, log, head>>
        /\ \/ op'.step = "idle"
           \/ /\ op'.step = "buildHead" /\ op'.then = op.then /\ op'.kind = op.kind
              /\ op'.view.map = Works /\ touched' = (IF op.then = "done" THEN {} ELSE touched)
    <3>1. op.step = "build" /\ UNCHANGED <<pending, work, log, head>> /\ Idle.step = "idle"
      BY <1>2 DEF BuildRead, Idle
    <3>2. CASE op' = Idle
      BY <3>1, <3>2
    <3>3. CASE /\ op' = [op EXCEPT !.step = "buildHead", !.view = [map |-> Works, ahead |-> Drift]]
               /\ touched' = (IF op.then = "done" THEN {} ELSE touched)
      BY <1>0, <3>1, <3>3 DEF Op
    <3> QED BY <1>2, <3>2, <3>3 DEF BuildRead
  <2>2. CASE op'.step = "idle"
    BY <2>2 DEF CallInv, AtHead, Detected, Kinds, Achieved, Flushing, Batch, Rebuild, DriftIsFresh, CleanIsFresh
  <2>3. CASE /\ op'.step = "buildHead" /\ op'.then = op.then /\ op'.kind = op.kind
             /\ op'.view.map = Works /\ touched' = (IF op.then = "done" THEN {} ELSE touched)
    <3>1. Rebuild({"flush"})' => \A p \in Drifted' : pending'[p] # "deleted"
      BY <2>1, <2>3 DEF CallInv, Achieved, Rebuild, Drifted, Steady, Drift, Works, HeadTree
    <3>2. \A p \in Path \ touched' : op'.view.map[p] = work'[p].data
      BY <2>1, <2>3 DEF Works
    <3> QED BY <1>1, <2>3, <3>1, <3>2 DEF CallInv, AtHead, Detected, Kinds, Achieved, Flushing, Batch, Rebuild, DriftIsFresh, CleanIsFresh
  <2> QED BY <2>1, <2>2, <2>3
<1>3. CASE BuildHead
  <2>1. /\ op.step = "buildHead" /\ UNCHANGED <<pending, work, log, head, touched>>
        /\ Written(op.view, head, NoAnchor)
        /\ op'.step = op.then /\ op'.kind = op.kind
    BY <1>0, <1>3 DEF BuildHead, Op, repo
  <2>2. durable'.base = head /\ visible'.map = op.view.map
    BY <1>0, <2>1, WrittenAgrees DEF Based
  <2>3. \A p \in Path \ touched' : visible'.map[p] = work'[p].data
    BY <2>1, <2>2 DEF CallInv, Achieved
  <2>4. DriftIsFresh' /\ CleanIsFresh' /\ (\A p \in Drifted' : Fresh(p)')
    BY <2>3 DEF DriftIsFresh, CleanIsFresh, Drifted, Steady, Fresh
  <2>5. op.then = "flush" => \A p \in Drifted' : pending'[p] # "deleted"
    BY <2>1 DEF CallInv, Achieved, Rebuild, Drifted, Steady, Drift, Works, HeadTree
  <2> QED BY <1>1, <2>1, <2>2, <2>4, <2>5 DEF CallInv, AtHead, Detected, Kinds, Achieved, Flushing, Batch, Rebuild
<1> QED BY <1>2, <1>3

LEMMA FreshStep ==
  ASSUME ~HeadMoves, ~Slow, ~Drains
  PROVE  FreshInv /\ [Next]_vars => FreshInv'
<1> SUFFICES ASSUME FreshInv, [Next]_vars PROVE FreshInv'
  OBVIOUS
<1>1. BaseInv /\ TypeInv /\ Based /\ Anchored /\ CallInv /\ BaseInv' /\ Based'
  BY BaseStep DEF FreshInv, CallInv, BaseInv
<1>2. CASE Moves
  BY <1>1, <1>2, MoveAnchored, MoveCall DEF FreshInv, CallInv
<1>3. CASE Starts
  BY <1>1, <1>3, PassAnchored, StartCall DEF FreshInv, CallInv
<1>4. CASE Passes
  BY <1>1, <1>4, PassAnchored, PassCall DEF FreshInv, CallInv
<1>5. CASE Changes
  <2>1. CASE CommitBatch
    BY <1>1, <2>1, BatchAnchored, BatchCall DEF FreshInv, CallInv
  <2>2. CASE FlushDelta \/ FlushWrite \/ Compact
    BY <1>1, <2>2, ChangeAnchored, WriteCall DEF FreshInv, CallInv
  <2>3. CASE BuildRead
    BY <1>1, <2>3, PassAnchored, BuildCall DEF FreshInv, CallInv
  <2>4. CASE BuildHead
    BY <1>1, <2>4, ChangeAnchored, BuildCall DEF FreshInv, CallInv
  <2>5. CASE Detect
    BY <1>1, <2>5, PassAnchored, DetectCall DEF FreshInv, CallInv
  <2> QED BY <1>5, <2>1, <2>2, <2>3, <2>4, <2>5 DEF Changes
<1>6. CASE Restart
  <2>1. op'.step = "idle"
    BY <1>6 DEF Restart, Idle
  <2>2. CallInv'
    BY <2>1 DEF CallInv, AtHead, Detected, Kinds, Achieved, Flushing, Batch, Rebuild, DriftIsFresh, CleanIsFresh
  <2> QED BY <1>1, <1>6, <2>2, RestartAnchored DEF FreshInv, CallInv
<1>7. CASE UNCHANGED vars
  <2>1. Anchored'
    BY <1>1, <1>7 DEF Anchored, Timed, AnchorIsOld, AnchorIsTrue, BookIsTrue, Present, Fresh, Observed, vars, index, repo
  <2>2. CallInv'
    BY <1>1, <1>7 DEF CallInv, AtHead, Detected, Kinds, Achieved, Flushing, Batch, Rebuild, DriftIsFresh, CleanIsFresh,
                      Drifted, Steady, Drift, Works, HeadTree, Ahead, Reads, Fresh, vars, index, repo
  <2> QED BY <1>1, <2>1, <2>2 DEF FreshInv, CallInv
<1> QED BY <1>2, <1>3, <1>4, <1>5, <1>6, <1>7, NextCases

LEMMA FreshInit == Init => FreshInv
<1> SUFFICES ASSUME Init PROVE FreshInv
  OBVIOUS
<1>1. BaseInv /\ op.step = "idle" /\ op.epoch = 0 /\ book.epoch = 0
  BY BaseInit DEF Init, Idle, NoBook, None
<1>2. /\ durable.anchor = NoAnchor /\ DOMAIN NoAnchor = {} /\ pending = NoEdits /\ now = 1 /\ overlay \cup book.paths = {}
      /\ \A p \in Path : work[p].mtime = 0
  BY DEF Init, NoAnchor, NoBook
<1>3. Anchored
  BY <1>1, <1>2 DEF Anchored, Timed, AnchorIsOld, AnchorIsTrue, BookIsTrue, NoEdits
<1> QED
  BY <1>1, <1>3 DEF FreshInv, AtHead, Detected, Kinds, Achieved, Flushing, Batch, Rebuild, DriftIsFresh, CleanIsFresh

\* When a fresh search or an update returns, a file that is there, differs from HEAD and was
\* not written since the detection is answered from the content it has: however the file was
\* edited, committed, checked out, anchored, flushed or re-queued before, and whatever failed.
\* A notified file is read in the tick of its notification, and a failed flush keeps what it took.
THEOREM DriftStaysFresh ==
  ASSUME ~HeadMoves, ~Slow, ~Drains
  PROVE  Spec => []DriftIsFresh
<1>1. FreshInv /\ [Next]_vars => FreshInv'
  BY FreshStep
<1>2. FreshInv => DriftIsFresh
  BY DEF FreshInv, Achieved
<1> QED BY FreshInit, <1>1, <1>2, PTL DEF Spec

\* Under the same conditions an update answers committed files from the content they have,
\* unless the index took the path from a file ahead of its commit before.
THEOREM CleanStaysFresh ==
  ASSUME ~HeadMoves, ~Slow, ~Drains
  PROVE  Spec => []CleanIsFresh
<1>1. FreshInv /\ [Next]_vars => FreshInv'
  BY FreshStep
<1>2. FreshInv => CleanIsFresh
  BY DEF FreshInv, Achieved
<1> QED BY FreshInit, <1>1, <1>2, PTL DEF Spec
===============================================================================
