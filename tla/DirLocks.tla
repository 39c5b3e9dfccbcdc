------------------------------- MODULE DirLocks -------------------------------
(***************************************************************************)
(* Several processes on one index directory.  dir.lock is a flock that     *)
(* every open handle holds shared and a writer holds exclusive, on a       *)
(* descriptor of its own; write.lock serializes writers and commits.       *)
(* Every lock is tried, never waited for, and a flock is neither promoted  *)
(* nor demoted in place: one lock is let go before the other is taken.     *)
(*                                                                         *)
(* A directory is its generation, a new number for every durable write,    *)
(* and its number of segments, which stands for the counts and bases that  *)
(* are all a writer compares with its snapshot.                            *)
(***************************************************************************)
EXTENDS Naturals

CONSTANTS Process,
          MaxGen,   \* bound: durable writes
          MaxSegs   \* bound: segments in a directory

ASSUME BoundAssumption == MaxGen \in Nat /\ MaxSegs \in Nat \ {0}

VARIABLES shared,    \* the descriptors on which a process holds dir.lock shared
          exclusive, \* who holds dir.lock exclusive
          writer,    \* who holds write.lock
          disk,      \* the directory
          handle,    \* the directory each open handle was opened from
          pc,        \* where each process is
          mem        \* what its operation captured, wrote or opened

vars == <<shared, exclusive, writer, disk, handle, pc, mem>>

Nobody == "nobody"
ASSUME NobodyAssumption == Nobody \notin Process

Dir == [gen : 0 .. MaxGen, segs : 1 .. MaxSegs]

\* A process without a handle is "closed", one that serves a handle is "idle".
Steps == {"closed", "idle", "commit", "unlock", "exclusive", "guard", "buildEx", "buildLock",
          "build", "release", "downgrade", "open", "relock", "failed"}

\* Types, and dir.lock is held exclusive by exactly the process that is inside
\* it, with no reader beside it.
TypeOK ==
    /\ shared \in [Process -> SUBSET {"own", "new"}]
    /\ exclusive \in Process \cup {Nobody} /\ writer \in Process \cup {Nobody}
    /\ disk \in Dir /\ handle \in [Process -> Dir]
    /\ pc \in [Process -> Steps]
    /\ mem \in [Process -> [dir : Dir, keep : BOOLEAN]]
    /\ \A p \in Process : exclusive = p <=> pc[p] \in {"guard", "buildLock", "build", "release"}
    /\ exclusive # Nobody => \A p \in Process : shared[p] = {}

\* What a process without an operation, and one without a handle, remembers.
First == [gen |-> 0, segs |-> 1]
Empty == [dir |-> First, keep |-> FALSE]
Forget(p) == mem' = [mem EXCEPT ![p] = Empty]

Goto(p, label) == pc' = [pc EXCEPT ![p] = label]

\* A failed operation keeps the handle it was called on, if there is one.
Fail(p) == Goto(p, IF mem[p].keep THEN "failed" ELSE "closed")

-------------------------------------------------------------------------------
(* The locks *)

CanShare == exclusive = Nobody
CanExclude == exclusive = Nobody /\ \A p \in Process : shared[p] = {}

Hold(p, fd) == shared' = [shared EXCEPT ![p] = @ \cup {fd}]
LetGo(p, fd) == shared' = [shared EXCEPT ![p] = @ \ {fd}]

\* The holder's own release; somebody else's lock stays.
Freed(lock, p) == IF lock = p THEN Nobody ELSE lock

-------------------------------------------------------------------------------
(* Index::open, drop, commit_batch *)

Open(p) ==
    /\ pc[p] = "closed"
    /\ CanShare
    /\ Hold(p, "own")
    /\ handle' = [handle EXCEPT ![p] = disk]
    /\ Goto(p, "idle")
    /\ UNCHANGED <<exclusive, writer, disk, mem>>

\* The process exits, or dies wherever it is: the system drops its locks.
Exit(p) ==
    /\ pc[p] # "closed"
    /\ shared' = [shared EXCEPT ![p] = {}]
    /\ exclusive' = Freed(exclusive, p)
    /\ writer' = Freed(writer, p)
    /\ Goto(p, "closed")
    /\ handle' = [handle EXCEPT ![p] = First] /\ Forget(p)
    /\ UNCHANGED disk

CommitBegin(p) ==
    /\ pc[p] = "idle"
    /\ writer = Nobody
    /\ writer' = p
    /\ Goto(p, "commit")
    /\ UNCHANGED <<shared, exclusive, disk, handle, mem>>

CommitEnd(p) ==
    /\ pc[p] = "commit"
    /\ writer' = Nobody
    /\ Goto(p, "idle")
    /\ UNCHANGED <<shared, exclusive, disk, handle, mem>>

-------------------------------------------------------------------------------
(* run_durable_flush and compact *)

\* The snapshot is captured under write.lock.
FlushBegin(p) ==
    /\ pc[p] = "idle"
    /\ writer = Nobody
    /\ writer' = p
    /\ mem' = [mem EXCEPT ![p] = [dir |-> handle[p], keep |-> TRUE]]
    /\ Goto(p, "unlock")
    /\ UNCHANGED <<shared, exclusive, disk, handle>>

FlushUnlock(p) ==
    /\ pc[p] = "unlock"
    /\ LetGo(p, "own")
    /\ Goto(p, "exclusive")
    /\ UNCHANGED <<exclusive, writer, disk, handle, mem>>

FlushExclusive(p) ==
    /\ pc[p] = "exclusive"
    /\ \/ CanExclude /\ exclusive' = p /\ Goto(p, "guard") /\ UNCHANGED writer
       \/ ~CanExclude /\ writer' = Nobody /\ Fail(p) /\ UNCHANGED exclusive
    /\ UNCHANGED <<shared, disk, handle, mem>>

\* flush_overlay_durable and compact_index compare what they can of the base.
SameShape(p) == mem[p].dir.segs = disk.segs

Publish(p, segs) ==
    /\ disk.gen < MaxGen
    /\ disk' = [gen |-> disk.gen + 1, segs |-> segs]
    /\ mem' = [mem EXCEPT ![p].dir = disk']
    /\ Goto(p, "release")
    /\ UNCHANGED <<exclusive, writer>>

\* The error return leaves the exclusive lock behind.
AbandonMutant(p) ==
    /\ writer' = Freed(writer, p)
    /\ Fail(p)
    /\ UNCHANGED <<exclusive, disk, mem>>

\* The operation returns an error: its two locks go with its locals.
Abandon(p) ==
    /\ exclusive' = Nobody
    /\ writer' = Freed(writer, p)
    /\ Fail(p)
    /\ UNCHANGED <<disk, mem>>

\* A flush adds a segment or only deletes; a compaction leaves any number.
FlushWrite(p) ==
    /\ pc[p] = "guard"
    /\ \/ /\ SameShape(p)
          /\ \E segs \in 1 .. MaxSegs : Publish(p, segs)
       \/ Abandon(p)
    /\ UNCHANGED <<shared, handle>>

-------------------------------------------------------------------------------
(* build_index, on its own or under rebuild_with *)

BuildBegin(p) ==
    /\ pc[p] \in {"closed", "idle"}
    /\ LetGo(p, "own")
    /\ mem' = [mem EXCEPT ![p].keep = (pc[p] = "idle")]
    /\ Goto(p, "buildEx")
    /\ UNCHANGED <<exclusive, writer, disk, handle>>

BuildExclusive(p) ==
    /\ pc[p] = "buildEx"
    /\ \/ CanExclude /\ exclusive' = p /\ Goto(p, "buildLock")
       \/ ~CanExclude /\ Fail(p) /\ UNCHANGED exclusive
    /\ UNCHANGED <<shared, writer, disk, handle, mem>>

\* The builder goes on without write.lock.
BuildLockMutant(p) ==
    /\ pc[p] = "buildLock"
    /\ writer' = IF writer = Nobody THEN p ELSE writer
    /\ Goto(p, "build")
    /\ UNCHANGED <<shared, exclusive, disk, handle, mem>>

BuildLock(p) ==
    /\ pc[p] = "buildLock"
    /\ \/ writer = Nobody /\ writer' = p /\ Goto(p, "build") /\ UNCHANGED <<exclusive, disk, mem>>
       \/ writer # Nobody /\ Abandon(p)
    /\ UNCHANGED <<shared, handle>>

Build(p) ==
    /\ pc[p] = "build"
    /\ \/ \E segs \in 1 .. MaxSegs : Publish(p, segs)
       \/ Abandon(p)
    /\ UNCHANGED <<shared, handle>>

-------------------------------------------------------------------------------
(* The common end: the exclusive lock becomes a shared one, the directory is   *)
(* opened on the new descriptor, and the caller takes its own lock again.      *)

Release(p) ==
    /\ pc[p] = "release"
    /\ exclusive' = Nobody
    /\ Goto(p, "downgrade")
    /\ UNCHANGED <<shared, writer, disk, handle, mem>>

Downgrade(p) ==
    /\ pc[p] = "downgrade"
    /\ writer' = Freed(writer, p)
    /\ \/ CanShare /\ Hold(p, "new") /\ Goto(p, "open")
       \/ ~CanShare /\ Fail(p) /\ UNCHANGED shared
    /\ UNCHANGED <<exclusive, disk, handle, mem>>

\* Opening may fail; a build without a handle becomes one.
OpenWritten(p) ==
    /\ pc[p] = "open"
    /\ \/ LetGo(p, "new") /\ Fail(p) /\ UNCHANGED <<handle, mem>>
       \/ mem[p].keep /\ Goto(p, "relock")
          /\ mem' = [mem EXCEPT ![p].dir = disk] /\ UNCHANGED <<shared, handle>>
       \/ ~mem[p].keep /\ Goto(p, "idle")
          /\ shared' = [shared EXCEPT ![p] = {"own"}]
          /\ handle' = [handle EXCEPT ![p] = disk] /\ Forget(p)
    /\ UNCHANGED <<exclusive, writer, disk>>

\* Under the caller's own lock the opened index is installed.  Nobody can hold
\* the exclusive lock now, but the code still handles a conflict.
Install(p) ==
    /\ pc[p] = "relock"
    /\ CanShare
    /\ shared' = [shared EXCEPT ![p] = {"own"}]
    /\ handle' = [handle EXCEPT ![p] = mem[p].dir]
    /\ Goto(p, "idle") /\ Forget(p)
    /\ UNCHANGED <<exclusive, writer, disk>>

\* After an error the shared lock is tried once and the outcome only logged.
Recover(p) ==
    /\ pc[p] = "failed"
    /\ IF CanShare THEN Hold(p, "own") ELSE UNCHANGED shared
    /\ Goto(p, "idle") /\ Forget(p)
    /\ UNCHANGED <<exclusive, writer, disk, handle>>

-------------------------------------------------------------------------------
Init == /\ shared = [p \in Process |-> {}]
        /\ exclusive = Nobody
        /\ writer = Nobody
        /\ disk = First
        /\ handle = [p \in Process |-> First]
        /\ pc = [p \in Process |-> "closed"]
        /\ mem = [p \in Process |-> Empty]

ProcessStep(p) ==
    \/ Open(p) \/ Exit(p) \/ CommitBegin(p) \/ CommitEnd(p)
    \/ FlushBegin(p) \/ FlushUnlock(p) \/ FlushExclusive(p) \/ FlushWrite(p)
    \/ BuildBegin(p) \/ BuildExclusive(p) \/ BuildLock(p) \/ Build(p)
    \/ Release(p) \/ Downgrade(p) \/ OpenWritten(p) \/ Install(p) \/ Recover(p)

Next == \E p \in Process : ProcessStep(p)

Spec == Init /\ [][Next]_vars

-------------------------------------------------------------------------------
(* Properties *)

\* The window between letting the exclusive lock go and installing is harmless:
\* nobody replaces the directory a writer wrote before that writer opened it.
WrittenIsOpened ==
    \A p \in Process : pc[p] \in {"release", "downgrade", "open", "relock"} => disk = mem[p].dir

\* What delta_apply.rs says of its guard: the snapshot describes the base that
\* the flush extends, or the flush does not happen.
FlushExtendsItsBase ==
    [][\A p \in Process : pc[p] = "guard" /\ disk' # disk => mem[p].dir.gen = disk.gen]_vars
===============================================================================
