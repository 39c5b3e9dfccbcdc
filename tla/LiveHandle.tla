------------------------------ MODULE LiveHandle ------------------------------
(***************************************************************************)
(* One `Index` handle shared by the threads of a process.  The pending     *)
(* buffer and the snapshot are shared; write.lock is the only mutual       *)
(* exclusion, is taken with try_lock and is not held while a rebuilt index *)
(* is installed.                                                           *)
(*                                                                         *)
(* `gen` is the generation of the directory a snapshot was opened from, or *)
(* that the directory has; `map` is what a search is answered from.  A     *)
(* flush and a compaction have the same shape here: both write the         *)
(* captured snapshot.  Their consistency guards compare counts and bases;  *)
(* here they compare generations, so a coincidence of counts is left to    *)
(* DirLocks.                                                               *)
(***************************************************************************)
EXTENDS Naturals, FiniteSets, Sequences, SequencesExt

CONSTANTS Thread,
          Uses,         \* how a handle is used: which threads commit, which maintain it
                        \* (flush_overlay, compact, rebuild), which edits watchers report
          Path, Content, Absent,
          MaxPending,   \* bound: buffered edits
          MaxGen        \* bound: directory generations

ASSUME UseAssumption ==
    \A u \in Uses : /\ u.committers \subseteq Thread /\ u.maintainers \subseteq Thread
                    /\ u.kinds \subseteq {"changed", "deleted"} /\ "changed" \in u.kinds
ASSUME AbsentAssumption == Absent \notin Content
ASSUME BoundAssumption == MaxPending \in Nat /\ MaxGen \in Nat

VARIABLES use,      \* how this handle is used
          tree,     \* the working tree
          dirty,    \* history: paths touched since they were last notified
          pending,  \* PendingEdits::uncommitted
          handle,   \* the snapshot a search loads
          disk,     \* the directory
          writer,   \* who holds write.lock
          pc,       \* where each thread is
          mem       \* each thread's locals

vars == <<use, tree, dirty, pending, handle, disk, writer, pc, mem>>

File == Content \cup {Absent}
Map == [Path -> File]
Snapshot == [gen : 0 .. MaxGen, map : Map]
Edit == [path : Path, kind : use.kinds]
Nobody == "nobody"
ASSUME NobodyAssumption == Nobody \notin Thread

\* Where write.lock is held.
Holding == {"load", "take", "read", "store", "requeue", "write"}

\* Types, and write.lock is held by exactly the thread that is inside it: what
\* commit_batch, flush_overlay and compact rely on between load and store.
TypeOK ==
    /\ tree \in Map
    /\ dirty \subseteq Path
    /\ \A i \in DOMAIN pending : pending[i] \in Edit
    /\ handle \in Snapshot /\ disk \in Snapshot
    /\ writer \in Thread \cup {Nobody}
    /\ pc \in [Thread -> {"idle", "lock", "load", "take", "read", "store", "requeue",
                          "capture", "write", "build", "install", "swap", "renotify"}]
    /\ \A t \in Thread : /\ mem[t].snap \in Snapshot
                         /\ mem[t].then \in {"idle", "capture"}
                         /\ pc[t] \in Holding <=> writer = t
                         /\ \A i \in DOMAIN mem[t].drained : mem[t].drained[i] \in Edit

Goto(t, label) == pc' = [pc EXCEPT ![t] = label]

-------------------------------------------------------------------------------
(* The environment *)

Touch(p, f) ==
    /\ f # tree[p]
    /\ tree' = [tree EXCEPT ![p] = f]
    /\ dirty' = dirty \cup {p}
    /\ UNCHANGED <<use, pending, handle, disk, writer, pc, mem>>

\* notify_change, or notify_delete for a file that is gone.
Notify(p, k) ==
    /\ Len(pending) < MaxPending
    /\ k = "deleted" => tree[p] = Absent
    /\ pending' = Append(pending, [path |-> p, kind |-> k])
    /\ dirty' = dirty \ {p}
    /\ UNCHANGED <<use, tree, handle, disk, writer, pc, mem>>

-------------------------------------------------------------------------------
(* commit_batch *)

CommitCall(t) ==
    /\ pc[t] = "idle" /\ t \in use.committers
    /\ pending # <<>>
    /\ Goto(t, "lock")
    /\ mem' = [mem EXCEPT ![t].then = "idle"]
    /\ UNCHANGED <<use, tree, dirty, pending, handle, disk, writer>>

\* try_lock: somebody else's lock is a LockConflict.
LockMutant(t) ==
    /\ pc[t] = "lock"
    /\ Goto(t, "load")
    /\ writer' = t
    /\ UNCHANGED <<use, tree, dirty, pending, handle, disk, mem>>

Lock(t) ==
    /\ pc[t] = "lock"
    /\ \/ writer = Nobody /\ writer' = t /\ Goto(t, "load")
       \/ writer # Nobody /\ UNCHANGED writer /\ Goto(t, "idle")
    /\ UNCHANGED <<use, tree, dirty, pending, handle, disk, mem>>

Load(t) ==
    /\ pc[t] = "load"
    /\ mem' = [mem EXCEPT ![t].snap = handle]
    /\ Goto(t, "take")
    /\ UNCHANGED <<use, tree, dirty, pending, handle, disk, writer>>

Take(t) ==
    /\ pc[t] = "take"
    /\ mem' = [mem EXCEPT ![t].drained = pending]
    /\ pending' = <<>>
    /\ Goto(t, "read")
    /\ UNCHANGED <<use, tree, dirty, handle, disk, writer>>

\* The kind of the last edit of a path, as take_for_commit folds them.
LastKind(edits, p) ==
    edits[SelectLastInSubSeq(edits, 1, Len(edits), LAMBDA e : e.path = p)].kind

Touched(edits) == {edits[i].path : i \in DOMAIN edits}

\* The map after the drained edits: changed files are read now, and one that
\* has vanished is evicted.
Applied(map, edits) ==
    [p \in Path |-> IF p \notin Touched(edits) THEN map[p]
                    ELSE IF LastKind(edits, p) = "changed" THEN tree[p] ELSE Absent]

\* Reading either succeeds or the batch aborts: overlay full, id overflow.
Read(t) ==
    /\ pc[t] = "read"
    /\ \/ /\ mem' = [mem EXCEPT ![t].snap.map = Applied(@, mem[t].drained)]
          /\ Goto(t, "store")
       \/ Goto(t, "requeue") /\ UNCHANGED mem
    /\ UNCHANGED <<use, tree, dirty, pending, handle, disk, writer>>

Store(t) ==
    /\ pc[t] = "store"
    /\ handle' = mem[t].snap
    /\ writer' = Nobody
    /\ mem' = [mem EXCEPT ![t].drained = <<>>]
    /\ Goto(t, mem[t].then)
    /\ UNCHANGED <<use, tree, dirty, pending, disk>>

\* Only the last edit of each path stays, in order.
LastPerPath(edits) ==
    LET last == {i \in DOMAIN edits : \A j \in DOMAIN edits : j > i => edits[j].path # edits[i].path}
    IN  [k \in 1 .. Cardinality(last) |->
            edits[CHOOSE i \in last : Cardinality({j \in last : j <= i}) = k]]

\* requeue_uncommitted: the drained edits were observed first and stay first.
RequeuedMutant(drained, newer) == LastPerPath(newer \o drained)

Requeued(drained, newer) == LastPerPath(drained \o newer)

Requeue(t) ==
    /\ pc[t] = "requeue"
    /\ pending' = IF mem[t].drained = <<>> THEN pending ELSE Requeued(mem[t].drained, pending)
    /\ writer' = Nobody
    /\ mem' = [mem EXCEPT ![t].drained = <<>>]
    /\ Goto(t, "idle")
    /\ UNCHANGED <<use, tree, dirty, handle, disk>>

-------------------------------------------------------------------------------
(* flush_overlay, compact, rebuild_with *)

FlushCall(t) ==
    /\ pc[t] = "idle" /\ t \in use.maintainers
    /\ Goto(t, IF pending = <<>> THEN "capture" ELSE "lock")
    /\ mem' = [mem EXCEPT ![t].then = "capture"]
    /\ UNCHANGED <<use, tree, dirty, pending, handle, disk, writer>>

\* Under write.lock the snapshot to write is loaded; a conflict, or nothing to
\* write, ends the call.
Capture(t) ==
    /\ pc[t] = "capture"
    /\ \/ /\ writer = Nobody /\ writer' = t
          /\ mem' = [mem EXCEPT ![t].snap = handle]
          /\ Goto(t, "write")
       \/ Goto(t, "idle") /\ UNCHANGED <<writer, mem>>
    /\ UNCHANGED <<use, tree, dirty, pending, handle, disk>>

\* The map becomes the next generation of the directory, which is then opened
\* to be installed, unless another process takes the shared lock away first.
Publish(t, map) ==
    /\ disk.gen < MaxGen
    /\ disk' = [gen |-> disk.gen + 1, map |-> map]
    /\ \/ mem' = [mem EXCEPT ![t].snap = disk'] /\ Goto(t, "install")
       \/ UNCHANGED mem /\ Goto(t, "idle")

\* The captured snapshot is written and write.lock dropped; or the guard
\* refuses another base, the directory lock is taken, or the write fails.
Write(t) ==
    /\ pc[t] = "write"
    /\ writer' = Nobody
    /\ \/ mem[t].snap.gen = disk.gen /\ Publish(t, mem[t].snap.map)
       \/ Goto(t, "idle") /\ UNCHANGED <<disk, mem>>
    /\ UNCHANGED <<use, tree, dirty, pending, handle>>

RebuildCall(t) ==
    /\ pc[t] = "idle" /\ t \in use.maintainers
    /\ Goto(t, "build")
    /\ UNCHANGED <<use, tree, dirty, pending, handle, disk, writer, mem>>

\* build_index reads the whole tree under write.lock, or ends with an error.
Build(t) ==
    /\ pc[t] = "build"
    /\ \/ writer = Nobody /\ Publish(t, tree)
       \/ Goto(t, "idle") /\ UNCHANGED <<disk, mem>>
    /\ UNCHANGED <<use, tree, dirty, pending, handle, writer>>

\* install_rebuilt_index, which runs without write.lock: drain, swap, and
\* notify the drained edits again.
InstallTake(t) ==
    /\ pc[t] = "install"
    /\ mem' = [mem EXCEPT ![t].drained = pending]
    /\ pending' = <<>>
    /\ Goto(t, "swap")
    /\ UNCHANGED <<use, tree, dirty, handle, disk, writer>>

Swap(t) ==
    /\ pc[t] = "swap"
    /\ handle' = mem[t].snap
    /\ Goto(t, "renotify")
    /\ UNCHANGED <<use, tree, dirty, pending, disk, writer, mem>>

RenotifyMutant(t) ==
    /\ pc[t] = "renotify"
    /\ mem' = [mem EXCEPT ![t].drained = <<>>]
    /\ Goto(t, "idle")
    /\ UNCHANGED <<use, tree, dirty, pending, handle, disk, writer>>

Renotify(t) ==
    /\ pc[t] = "renotify"
    /\ \/ /\ mem[t].drained # <<>>
          /\ pending' = Append(pending, Head(mem[t].drained))
          /\ mem' = [mem EXCEPT ![t].drained = Tail(@)]
          /\ UNCHANGED pc
       \/ mem[t].drained = <<>> /\ Goto(t, "idle") /\ UNCHANGED <<pending, mem>>
    /\ UNCHANGED <<use, tree, dirty, handle, disk, writer>>

-------------------------------------------------------------------------------
Init == /\ use \in Uses
        /\ tree \in Map
        /\ dirty = {}
        /\ pending = <<>>
        /\ disk = [gen |-> 0, map |-> tree]
        /\ handle = disk
        /\ writer = Nobody
        /\ pc = [t \in Thread |-> "idle"]
        /\ mem = [t \in Thread |-> [snap |-> disk, drained |-> <<>>, then |-> "idle"]]

ThreadStep(t) ==
    \/ CommitCall(t) \/ Lock(t) \/ Load(t) \/ Take(t) \/ Read(t) \/ Store(t) \/ Requeue(t)
    \/ FlushCall(t) \/ Capture(t) \/ Write(t)
    \/ RebuildCall(t) \/ Build(t)
    \/ InstallTake(t) \/ Swap(t) \/ Renotify(t)

Next == \/ \E p \in Path, f \in File : Touch(p, f)
        \/ \E p \in Path, k \in use.kinds : Notify(p, k)
        \/ \E t \in Thread : ThreadStep(t)

Spec == Init /\ [][Next]_vars

-------------------------------------------------------------------------------
(* Properties *)

Quiescent == pending = <<>> /\ \A t \in Thread : pc[t] = "idle"

\* After commit_batch returns, changes are visible to subsequent queries: once
\* nothing is buffered or running, a path whose every change was notified is
\* answered from its current content.
NotifiedIsVisible == Quiescent => \A p \in Path \ dirty : handle.map[p] = tree[p]

\* A thread will still publish, re-queue or notify again what it holds of p.
InHand(p) == \E t \in Thread : \/ p \in Touched(mem[t].drained)
                               \/ pc[t] \in {"install", "swap"} /\ mem[t].snap.map[p] = tree[p]

\* No edit is dropped: a path that is notified but still answered from older
\* content is buffered, or is in the hands of a thread that will publish or
\* re-queue it, or is about to be replaced by a newer snapshot.
NoEditDropped ==
    \A p \in Path \ dirty : handle.map[p] # tree[p] => p \in Touched(pending) \/ InHand(p)
===============================================================================
