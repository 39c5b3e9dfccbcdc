------------------------------- MODULE Freshness -------------------------------
(***************************************************************************)
(* How the index follows git: a moved HEAD is applied as the difference    *)
(* between two commits (rebuild_if_stale), uncommitted drift as what git   *)
(* status reports less what a flush anchored (update_from_git,             *)
(* retain_unflushed), and everything else as a full rebuild.               *)
(*                                                                         *)
(* `now` counts the ticks of file timestamps; RACY_MARGIN is what makes an *)
(* mtime of an earlier tick older than the read.  All contents have the    *)
(* same size, which is when a stat tells least.  A view of the index is a  *)
(* map of paths and, for the properties, the set `ahead` of paths that     *)
(* were read and need not hold what base_commit does.  Excluded files, ids *)
(* and locks are left to OverlayIndex and DirLocks; a lock conflict is one *)
(* of the errors here.  Compactions that follow a flush of themselves      *)
(* change nothing that this module sees.                                   *)
(***************************************************************************)
EXTENDS Naturals, Sequences

CONSTANTS Path, Content, Absent,
          MaxMoves,  \* bound: edits, commits, checkouts and ticks of a behaviour
          MaxLog,    \* bound: commits in the repository
          HeadMoves, \* whether HEAD may move while an update runs
          Slow,      \* whether a tick may pass between notifying and reading
          Drains     \* whether a flush may fail after it drained the bookkeeping

ASSUME AbsentAssumption == Absent \notin Content /\ Absent \notin Nat
ASSUME BoundAssumption == MaxMoves \in Nat /\ MaxLog \in Nat \ {0}
ASSUME SwitchAssumption == {HeadMoves, Slow, Drains} \subseteq BOOLEAN

VARIABLES work,    \* the working tree: content and mtime
          now,     \* the clock, in ticks of a timestamp
          log,     \* the commits: tree and parent
          head,    \* git's HEAD
          durable, \* the directory: view, base_commit and worktree anchor
          visible, \* the handle's view
          pending, \* buffered edits
          overlay, \* paths of the overlay's documents
          book,    \* FlushBookkeeping
          op,      \* the running operation
          touched, \* history: paths written since the last detection
          moves    \* moves of the environment so far

index == <<durable, visible, pending, overlay, book, op>>
repo == <<work, now, log, head, touched, moves>>
vars == <<index, repo>>

File == Content \cup {Absent}
Tree == [Path -> File]
View == [map : Tree, ahead : SUBSET Path]
None == 0
Stat == (0 .. MaxMoves + 1) \cup {Absent}
NoEdits == [p \in Path |-> "none"]
NoBook == [epoch |-> None, paths |-> {}]
NoAnchor == [p \in {} |-> Absent]
NoView == [map |-> [p \in Path |-> Absent], ahead |-> {}]
Idle == [kind |-> "none", step |-> "idle", then |-> "idle", epoch |-> None, head |-> None, view |-> NoView]
Steps == {"idle", "stale", "check", "diff", "detect", "commit", "read", "head", "flushDelta",
          "build", "buildHead", "flush", "write", "compact", "answer", "done"}

\* Types; the anchor names only paths, and only a commit that reads has an epoch.
TypeOK ==
    /\ work \in [Path -> [data : File, mtime : 0 .. MaxMoves + 1]]
    /\ now \in 1 .. MaxMoves + 1
    /\ \A c \in DOMAIN log : log[c].tree \in Tree /\ log[c].parent \in 0 .. c - 1
    /\ head \in DOMAIN log
    /\ durable.map \in Tree /\ durable.ahead \subseteq Path /\ durable.base \in DOMAIN log
    /\ DOMAIN durable.anchor \subseteq Path
    /\ \A p \in DOMAIN durable.anchor : durable.anchor[p] \in Stat
    /\ visible \in View
    /\ pending \in [Path -> {"none", "changed", "deleted"}]
    /\ overlay \subseteq Path
    /\ book \in [epoch : 0 .. MaxMoves + 1, paths : SUBSET Path]
    /\ op.step \in Steps /\ op.then \in Steps /\ op.kind \in {"none", "update", "search", "flush", "compact"}
    /\ op.epoch \in 0 .. MaxMoves + 1 /\ (op.step = "read" <=> op.epoch # None)

Goto(step) == op' = [op EXCEPT !.step = step]

-------------------------------------------------------------------------------
(* The repository *)

Works == [p \in Path |-> work[p].data]
HeadTree == log[head].tree

\* git status: the paths that differ from HEAD.
Drift == {p \in Path : Works[p] # HeadTree[p]}

\* Whether HEAD can be reached from a commit.
IsAncestor(a, b) ==
    LET ancestors[c \in 0 .. Len(log)] == IF c = None THEN {} ELSE {c} \cup ancestors[log[c].parent]
    IN  a \in ancestors[b]

\* What a stat of a path tells.
Observed(p) == IF work[p].data = Absent THEN Absent ELSE work[p].mtime

Writes(new) ==
    /\ work' = [p \in Path |-> IF new[p] = work[p].data THEN work[p] ELSE [data |-> new[p], mtime |-> now]]
    /\ touched' = touched \cup {p \in Path : new[p] # work[p].data}

Move == moves < MaxMoves /\ moves' = moves + 1 /\ UNCHANGED index

\* A file is written, removed, or restored with git checkout -- path.
Edit(p, f) ==
    /\ Move
    /\ f # work[p].data
    /\ Writes([Works EXCEPT ![p] = f])
    /\ UNCHANGED <<now, log, head>>

Tick == /\ Move
        /\ Slow \/ pending = NoEdits
        /\ now' = now + 1
        /\ UNCHANGED <<work, log, head, touched>>

HeadMayMove == HeadMoves \/ op.step \in {"idle", "answer", "done"}

\* Some of the drift is committed.
GitCommit(paths) ==
    /\ Move
    /\ HeadMayMove
    /\ Len(log) < MaxLog
    /\ paths # {} /\ paths \subseteq Drift
    /\ log' = Append(log, [parent |-> head,
                           tree   |-> [p \in Path |-> IF p \in paths THEN Works[p] ELSE HeadTree[p]]])
    /\ head' = Len(log')
    /\ UNCHANGED <<work, now, touched>>

\* Checkout, merge or reset: git refuses to write over drift.
Switch(c) ==
    /\ Move
    /\ HeadMayMove
    /\ c # head
    /\ \A p \in Drift : log[c].tree[p] = HeadTree[p]
    /\ Writes([p \in Path |-> IF p \in Drift THEN Works[p] ELSE log[c].tree[p]])
    /\ head' = c
    /\ UNCHANGED <<now, log>>

-------------------------------------------------------------------------------
(* apply_changed_paths and commit_batch *)

\* A path that is there is notified as changed, one that is not as deleted.
Notified(paths) ==
    [p \in Path |-> IF p \notin paths THEN pending[p]
                    ELSE IF work[p].data = Absent THEN "deleted" ELSE "changed"]

\* Only the first commit after a flush is stamped.
StampMutant ==
    /\ op.step = "commit"
    /\ op' = [op EXCEPT !.step = "read", !.epoch = IF book.epoch = None THEN now ELSE None]
    /\ UNCHANGED <<durable, visible, pending, overlay, book, repo>>

\* The read epoch is stamped before the first file is read.
Stamp ==
    /\ op.step = "commit"
    /\ op' = [op EXCEPT !.step = "read", !.epoch = now]
    /\ UNCHANGED <<durable, visible, pending, overlay, book, repo>>

Edited == {p \in Path : pending[p] # "none"}
Documents == {p \in Edited : pending[p] = "changed" /\ work[p].data # Absent}

\* The map after the buffered edits.
Read ==
    LET map == [p \in Path |-> IF p \notin Edited THEN visible.map[p]
                               ELSE IF p \in Documents THEN Works[p] ELSE Absent]
    IN  [map |-> map,
         ahead |-> (visible.ahead \ Edited)
                       \cup {p \in Edited : \E c \in {durable.base, head} : map[p] # log[c].tree[p]}]

CommitBatch ==
    /\ op.step = "read"
    /\ visible' = Read
    /\ overlay' = (overlay \ Edited) \cup Documents
    /\ book' = [epoch |-> IF book.epoch = None THEN op.epoch ELSE book.epoch,
                paths |-> book.paths \cup (Edited \ Documents)]
    /\ pending' = NoEdits
    /\ op' = [op EXCEPT !.step = op.then, !.epoch = None]
    /\ UNCHANGED <<durable, repo>>

\* The batch is re-queued.  A delta is answered by a rebuild, an overlay too full
\* for an unbounded update, too; a flush is reported only; the rest ends the call.
CommitFails ==
    /\ op.step = "read"
    /\ \/ op.then = "head" /\ op' = [Idle EXCEPT !.kind = op.kind, !.step = "build", !.then = "done"]
       \/ op.then = "flush" /\ op' = [Idle EXCEPT !.kind = op.kind, !.step = "build", !.then = "flush"]
       \/ op.kind = "update" /\ op.then = "write" /\ op' = [Idle EXCEPT !.kind = op.kind, !.step = "done"]
       \/ op.then # "head" /\ op' = Idle
    /\ UNCHANGED <<durable, visible, pending, overlay, book, repo>>

-------------------------------------------------------------------------------
(* rebuild_if_stale *)

Commits(then) == op' = [op EXCEPT !.step = "commit", !.then = then]

Stale ==
    /\ op.step = "stale"
    /\ IF pending = NoEdits THEN Goto("check") ELSE Commits("check")
    /\ UNCHANGED <<durable, visible, pending, overlay, book, repo>>

\* base_commit against HEAD, and whether there is a way from one to the other.
Check ==
    /\ op.step = "check"
    /\ IF durable.base = head THEN Goto("detect")
       ELSE IF IsAncestor(durable.base, head) THEN Goto("diff")
       ELSE op' = [op EXCEPT !.step = "build", !.then = "done"]
    /\ UNCHANGED <<durable, visible, pending, overlay, book, repo>>

\* git diff is asked for HEAD by name.  No change, too many changes or too many
\* segments are answered by a rebuild.
Diff ==
    /\ op.step = "diff"
    /\ LET changes == {p \in Path : HeadTree[p] # log[durable.base].tree[p]}
       IN  \/ changes # {} /\ pending' = Notified(changes) /\ Commits("head")
           \/ op' = [op EXCEPT !.step = "build", !.then = "done"] /\ UNCHANGED pending
    /\ UNCHANGED <<durable, visible, overlay, book, repo>>

\* HEAD is asked again for the commit to record.
RecordHead ==
    /\ op.step = "head"
    /\ op' = [op EXCEPT !.step = "flushDelta", !.head = head]
    /\ UNCHANGED <<durable, visible, pending, overlay, book, repo>>

-------------------------------------------------------------------------------
(* The worktree anchor *)

\* Settled: absent, or written in a tick before the read epoch.
Settled(stat, epoch) == stat = Absent \/ stat < epoch

\* build_next: what this flush wrote or removed is observed again, the rest of
\* the previous anchor is carried forward.  Without an epoch there is no anchor.
NextAnchor ==
    LET flushed == overlay \cup book.paths
        trusted == {p \in flushed : Settled(Observed(p), book.epoch)}
        carried == DOMAIN durable.anchor \ flushed
    IN  IF book.epoch = None THEN NoAnchor
        ELSE [p \in trusted \cup carried |-> IF p \in trusted THEN Observed(p) ELSE durable.anchor[p]]

\* write_anchor: an anchor that cannot be written is left out.
Anchors == {NextAnchor, NoAnchor}

\* Anchored paths are dropped without a look at the file.
UnflushedMutant(paths) == paths \ DOMAIN durable.anchor

\* retain_unflushed
Unflushed(paths) ==
    {p \in paths : p \in DOMAIN durable.anchor => durable.anchor[p] # Observed(p)}

-------------------------------------------------------------------------------
(* Durable writes *)

\* The paths of a view that are ahead of a commit.
Ahead(view, commit) == {p \in view.ahead : view.map[p] # log[commit].tree[p]}

\* The written directory is installed: an empty overlay, a fresh bookkeeping.
Written(view, base, anchor) ==
    /\ durable' = [map |-> view.map, ahead |-> Ahead(view, base), base |-> base, anchor |-> anchor]
    /\ visible' = [view EXCEPT !.ahead = Ahead(view, base)]
    /\ overlay' = {} /\ book' = NoBook

\* take_anchor_inputs: the bookkeeping is gone when the write fails.
BookOfFailed == book' \in (IF Drains THEN {book, NoBook} ELSE {book})

\* run_durable_flush with AdvanceHead; an error is answered by a rebuild.
FlushDelta ==
    /\ op.step = "flushDelta"
    /\ \/ /\ \E anchor \in Anchors : Written(visible, op.head, anchor)
          /\ op' \in {[op EXCEPT !.step = "detect", !.head = None], Idle}
       \/ /\ op' = [op EXCEPT !.step = "build", !.then = "done", !.head = None]
          /\ BookOfFailed
          /\ UNCHANGED <<durable, visible, overlay>>
    /\ UNCHANGED <<pending, repo>>

\* build_index reads the tree, and then the commit to record.
BuildRead ==
    /\ op.step = "build"
    /\ \/ /\ op' = [op EXCEPT !.step = "buildHead", !.view = [map |-> Works, ahead |-> Drift]]
          /\ touched' = IF op.then = "done" THEN {} ELSE touched
       \/ op' = Idle /\ UNCHANGED touched
    /\ UNCHANGED <<durable, visible, pending, overlay, book, work, now, log, head, moves>>

BuildHead ==
    /\ op.step = "buildHead"
    /\ Written(op.view, head, NoAnchor)
    /\ op' = [op EXCEPT !.step = op.then, !.view = NoView]
    /\ UNCHANGED <<pending, repo>>

\* The base advances with the drift that is flushed.
FlushKeepsBaseMutant == head
FlushKeepsBase == durable.base

\* flush_overlay commits what is pending and writes what there is.
Flush ==
    /\ op.step = "flush"
    /\ IF pending = NoEdits THEN Goto("write") ELSE Commits("write")
    /\ UNCHANGED <<durable, visible, pending, overlay, book, repo>>

\* An update returns what it achieved; a flush by itself promises no freshness.
Flushed == IF op.kind = "update" THEN [op EXCEPT !.step = "done"] ELSE Idle

FlushWrite ==
    /\ op.step = "write"
    /\ \/ /\ overlay = {} /\ book.paths = {}
          /\ op' = Flushed
          /\ UNCHANGED <<durable, visible, pending, overlay, book>>
       \/ /\ overlay # {} \/ book.paths # {}
          /\ \E anchor \in Anchors : Written(visible, FlushKeepsBase, anchor)
          /\ op' = Flushed
          /\ UNCHANGED pending
       \/ /\ overlay # {} \/ book.paths # {}
          /\ op' = Idle
          /\ BookOfFailed
          /\ UNCHANGED <<durable, visible, pending, overlay>>
    /\ UNCHANGED repo

\* HEAD is recorded by a compaction, too.
CompactedBaseMutant == head

\* A compaction carries base_commit and the anchor forward.
CompactedBase == durable.base

Compact ==
    /\ op.step = "compact"
    /\ \/ Written(visible, CompactedBase, durable.anchor)
       \/ UNCHANGED <<durable, visible, overlay, book>>
    /\ op' = Idle
    /\ UNCHANGED <<pending, repo>>

-------------------------------------------------------------------------------
(* update_from_git *)

\* A search gives up on a listing that is cut off or too long.
Detect ==
    /\ op.step = "detect"
    /\ touched' = {}
    /\ LET paths == Unflushed(Drift)
           end == IF op.kind = "search" THEN "answer" ELSE "flush"
       IN  \/ /\ paths = {}
              /\ Goto(IF op.kind = "search" THEN "answer" ELSE "done")
              /\ UNCHANGED pending
           \/ paths # {} /\ pending' = Notified(paths) /\ Commits(end)
           \/ op.kind = "search" /\ paths # {} /\ op' = Idle /\ UNCHANGED pending
    /\ UNCHANGED <<durable, visible, overlay, book, work, now, log, head, moves>>

-------------------------------------------------------------------------------
(* Calls *)

\* st update, or its steps called on a handle that stays open.
Update == /\ op = Idle
          /\ op' = [op EXCEPT !.kind = "update", !.step = "stale"]
          /\ UNCHANGED <<durable, visible, pending, overlay, book, repo>>

\* search_fresh does not look at HEAD.
SearchFresh == /\ op = Idle
               /\ op' = [op EXCEPT !.kind = "search", !.step = "detect"]
               /\ UNCHANGED <<durable, visible, pending, overlay, book, repo>>

FlushCall == /\ op = Idle
             /\ op' = [op EXCEPT !.kind = "flush", !.step = "flush"]
             /\ UNCHANGED <<durable, visible, pending, overlay, book, repo>>

CompactCall == /\ op = Idle
               /\ op' = [op EXCEPT !.kind = "compact",
                                   !.step = IF pending = NoEdits THEN "compact" ELSE "commit",
                                   !.then = IF pending = NoEdits THEN "idle" ELSE "compact"]
               /\ UNCHANGED <<durable, visible, pending, overlay, book, repo>>

Return == /\ op.step \in {"answer", "done"}
          /\ op' = Idle
          /\ UNCHANGED <<durable, visible, pending, overlay, book, repo>>

\* The process exits or dies and another one opens the directory.
Restart ==
    /\ visible' = [map |-> durable.map, ahead |-> durable.ahead]
    /\ pending' = NoEdits /\ overlay' = {} /\ book' = NoBook /\ op' = Idle
    /\ UNCHANGED <<durable, repo>>

-------------------------------------------------------------------------------
\* A repository with one commit, indexed a while ago.
Init ==
    /\ \E c \in Content : log = <<[tree |-> [p \in Path |-> c], parent |-> None]>>
    /\ work = [p \in Path |-> [data |-> log[1].tree[p], mtime |-> 0]]
    /\ now = 1 /\ head = 1 /\ touched = {} /\ moves = 0
    /\ durable = [map |-> log[1].tree, ahead |-> {}, base |-> 1, anchor |-> NoAnchor]
    /\ visible = [map |-> log[1].tree, ahead |-> {}]
    /\ pending = NoEdits /\ overlay = {} /\ book = NoBook /\ op = Idle

Next == \/ \E p \in Path, f \in File : Edit(p, f)
        \/ Tick
        \/ \E paths \in SUBSET Path : GitCommit(paths)
        \/ \E c \in DOMAIN log : Switch(c)
        \/ Stamp \/ CommitBatch \/ CommitFails
        \/ Stale \/ Check \/ Diff \/ RecordHead \/ FlushDelta
        \/ BuildRead \/ BuildHead \/ Flush \/ FlushWrite \/ Compact
        \/ Detect \/ Update \/ SearchFresh \/ FlushCall \/ CompactCall \/ Return \/ Restart

Spec == Init /\ [][Next]_vars

-------------------------------------------------------------------------------
(* Properties *)

\* Files that are there and were not written since the last detection.
Steady == {p \in Path : work[p].data # Absent} \ touched

\* When a search or an update returns, uncommitted files are answered from the
\* content they have.
DriftIsFresh ==
    op.step \in {"answer", "done"} => \A p \in Steady \cap Drift : visible.map[p] = work[p].data

\* What base_commit promises of the directory: what was not read since holds
\* the content of that commit (detect_committed_changes).
BaseIsApplied == \A p \in Path \ durable.ahead : durable.map[p] = log[durable.base].tree[p]

\* When an update returns, committed files are answered from the content they
\* have, unless the index took the path from a file ahead of its commit before.
CleanIsFresh ==
    op.step = "done" => \A p \in (Steady \ Drift) \ Ahead(visible, durable.base) : visible.map[p] = work[p].data

\* What the documentation says: an update applies what changed since the index
\* was built, and then a search is answered from the files as they are.
UpdatedIsFresh == op.step = "done" => \A p \in Steady : visible.map[p] = work[p].data
===============================================================================
