----------------------------- MODULE CliLocksProofs -----------------------------
(***************************************************************************)
(* The locks of an index directory, for any number of processes: which     *)
(* lock a process holds wherever it is, that no writer's directory is      *)
(* replaced before it is opened, and that the command line only takes the  *)
(* steps of DirLocks.                                                      *)
(***************************************************************************)
EXTENDS CliLocks, TLAPS

-------------------------------------------------------------------------------
(* The inductive invariant of DirLocks *)

\* write.lock is held by exactly the process that commits, flushes or builds, until
\* the new directory is under a shared lock.
WriterFollows ==
    \A p \in Process : writer = p <=>
        pc[p] \in {"commit", "unlock", "exclusive", "guard", "build", "release", "downgrade"}

\* The shared lock of the served handle is given up before the exclusive one is
\* tried, and the opened directory is held on its own descriptor.
SharedFollows ==
    \A p \in Process :
        /\ pc[p] \in {"closed", "exclusive", "guard", "buildEx", "buildLock", "build",
                      "release", "downgrade", "failed"} => shared[p] = {}
        /\ pc[p] \in {"open", "relock"} => shared[p] = {"new"}
        /\ pc[p] \in {"idle", "commit", "unlock"} => shared[p] \subseteq {"own"}

IInv == TypeOK /\ WriterFollows /\ SharedFollows /\ WrittenIsOpened

\* Initially nobody runs.
LEMMA InitInvariant == Init => IInv
BY NobodyAssumption, BoundAssumption
   DEF Init, IInv, TypeOK, WriterFollows, SharedFollows, WrittenIsOpened, Steps, Dir, First, Empty

\* A durable write: who writes holds both locks, so nobody else is between a write and
\* its opening.
LEMMA PublishInvariant ==
  ASSUME IInv, NEW p \in Process, pc[p] \in {"guard", "build"}, writer = p,
         NEW segs \in 1 .. MaxSegs, Publish(p, segs), UNCHANGED <<shared, handle>>
  PROVE  IInv'
<1> USE NobodyAssumption, BoundAssumption
<1>1. TypeOK /\ WriterFollows /\ SharedFollows /\ WrittenIsOpened
  BY DEF IInv
<1>2. /\ disk' = [gen |-> disk.gen + 1, segs |-> segs]
      /\ pc' = [pc EXCEPT ![p] = "release"] /\ mem' = [mem EXCEPT ![p].dir = disk']
      /\ UNCHANGED <<shared, exclusive, writer, handle>>
  BY DEF Publish, Goto
<1>3. disk' \in Dir
  BY <1>1, <1>2 DEF Publish, TypeOK, Dir
<1>4. mem' \in [Process -> [dir : Dir, keep : BOOLEAN]]
  BY <1>1, <1>2, <1>3 DEF TypeOK
<1>5. pc' \in [Process -> Steps] /\ pc'[p] = "release" /\ \A q \in Process \ {p} : pc'[q] = pc[q]
  BY <1>1, <1>2 DEF TypeOK, Steps
<1>6. exclusive = p
  BY <1>1 DEF TypeOK
<1>7. TypeOK'
  BY <1>1, <1>2, <1>3, <1>4, <1>5, <1>6 DEF TypeOK
<1>8. WriterFollows'
  BY <1>1, <1>2, <1>5 DEF WriterFollows
<1>9. SharedFollows'
  BY <1>1, <1>2, <1>5, <1>6 DEF TypeOK, SharedFollows
<1>10. WrittenIsOpened'
  <2> SUFFICES ASSUME NEW q \in Process, pc'[q] \in {"release", "downgrade", "open", "relock"}
               PROVE  disk' = mem'[q].dir
    BY DEF WrittenIsOpened
  <2>1. CASE q = p
    BY <1>1, <1>2, <2>1 DEF TypeOK
  <2>2. CASE q # p
    <3>1. pc[q] \in {"release", "downgrade", "open", "relock"}
      BY <1>5, <2>2
    <3>2. pc[q] \notin {"release", "downgrade"}
      BY <1>1, <2>2 DEF WriterFollows
    <3>3. pc[q] \notin {"open", "relock"}
      BY <1>1, <1>6 DEF TypeOK, SharedFollows
    <3> QED BY <3>1, <3>2, <3>3
  <2> QED BY <2>1, <2>2
<1> QED BY <1>7, <1>8, <1>9, <1>10 DEF IInv

\* The error return gives both locks back.
LEMMA AbandonInvariant ==
  ASSUME IInv, NEW p \in Process, pc[p] \in {"guard", "build", "buildLock"}, Abandon(p), UNCHANGED <<shared, handle>>
  PROVE  IInv'
<1> USE NobodyAssumption, BoundAssumption
<1>1. TypeOK /\ WriterFollows /\ SharedFollows /\ WrittenIsOpened
  BY DEF IInv
<1>2. /\ exclusive' = Nobody /\ writer' = IF writer = p THEN Nobody ELSE writer
      /\ UNCHANGED <<shared, disk, mem, handle>>
  BY DEF Abandon, Freed
<1>3. pc' = [pc EXCEPT ![p] = IF mem[p].keep THEN "failed" ELSE "closed"]
  BY DEF Abandon, Fail, Goto
<1>4. /\ pc' \in [Process -> Steps]
      /\ pc'[p] \in {"failed", "closed"} /\ \A q \in Process \ {p} : pc'[q] = pc[q]
  BY <1>1, <1>3 DEF TypeOK, Steps
<1>5. exclusive = p
  BY <1>1 DEF TypeOK
<1>6. TypeOK'
  BY <1>1, <1>2, <1>4, <1>5 DEF TypeOK
<1>7. WriterFollows'
  BY <1>1, <1>2, <1>4 DEF WriterFollows
<1>8. SharedFollows'
  BY <1>1, <1>2, <1>4, <1>5 DEF TypeOK, SharedFollows
<1>9. WrittenIsOpened'
  BY <1>1, <1>2, <1>4 DEF WrittenIsOpened
<1> QED BY <1>6, <1>7, <1>8, <1>9 DEF IInv

\* Every step of a process keeps the invariant: the lock a step takes is free, and only
\* the holder of both locks writes the directory.
LEMMA StepInvariant ==
  ASSUME IInv, NEW p \in Process, ProcessStep(p)
  PROVE  IInv'
<1> USE NobodyAssumption, BoundAssumption DEF Steps
<1>1. TypeOK /\ WriterFollows /\ SharedFollows /\ WrittenIsOpened
  BY DEF IInv
<1>2. CASE Open(p)
  <2>1. TypeOK'
    BY <1>1, <1>2 DEF Open, CanShare, Hold, Goto, TypeOK, SharedFollows
  <2>2. WriterFollows'
    BY <1>1, <1>2 DEF Open, CanShare, Hold, Goto, TypeOK, WriterFollows
  <2>3. SharedFollows'
    BY <1>1, <1>2 DEF Open, CanShare, Hold, Goto, TypeOK, SharedFollows
  <2>4. WrittenIsOpened'
    BY <1>1, <1>2 DEF Open, CanShare, Hold, Goto, TypeOK, WriterFollows, SharedFollows, WrittenIsOpened
  <2> QED BY <2>1, <2>2, <2>3, <2>4 DEF IInv
<1>3. CASE Exit(p)
  <2>1. TypeOK'
    BY <1>1, <1>3 DEF Exit, Freed, Goto, Forget, Empty, First, Dir, TypeOK, SharedFollows
  <2>2. WriterFollows'
    BY <1>1, <1>3 DEF Exit, Freed, Goto, Forget, Empty, First, Dir, TypeOK, WriterFollows
  <2>3. SharedFollows'
    BY <1>1, <1>3 DEF Exit, Freed, Goto, Forget, Empty, First, Dir, TypeOK, SharedFollows
  <2>4. WrittenIsOpened'
    BY <1>1, <1>3 DEF Exit, Freed, Goto, Forget, Empty, First, Dir, TypeOK, WriterFollows, SharedFollows, WrittenIsOpened
  <2> QED BY <2>1, <2>2, <2>3, <2>4 DEF IInv
<1>4. CASE CommitBegin(p)
  <2>1. TypeOK'
    BY <1>1, <1>4 DEF CommitBegin, Goto, TypeOK, SharedFollows
  <2>2. WriterFollows'
    BY <1>1, <1>4 DEF CommitBegin, Goto, TypeOK, WriterFollows
  <2>3. SharedFollows'
    BY <1>1, <1>4 DEF CommitBegin, Goto, TypeOK, SharedFollows
  <2>4. WrittenIsOpened'
    BY <1>1, <1>4 DEF CommitBegin, Goto, TypeOK, WriterFollows, SharedFollows, WrittenIsOpened
  <2> QED BY <2>1, <2>2, <2>3, <2>4 DEF IInv
<1>5. CASE CommitEnd(p)
  <2>1. TypeOK'
    BY <1>1, <1>5 DEF CommitEnd, Goto, TypeOK, SharedFollows
  <2>2. WriterFollows'
    BY <1>1, <1>5 DEF CommitEnd, Goto, TypeOK, WriterFollows
  <2>3. SharedFollows'
    BY <1>1, <1>5 DEF CommitEnd, Goto, TypeOK, SharedFollows
  <2>4. WrittenIsOpened'
    BY <1>1, <1>5 DEF CommitEnd, Goto, TypeOK, WriterFollows, SharedFollows, WrittenIsOpened
  <2> QED BY <2>1, <2>2, <2>3, <2>4 DEF IInv
<1>6. CASE FlushBegin(p)
  <2>1. TypeOK'
    BY <1>1, <1>6 DEF FlushBegin, Goto, TypeOK, SharedFollows
  <2>2. WriterFollows'
    BY <1>1, <1>6 DEF FlushBegin, Goto, TypeOK, WriterFollows
  <2>3. SharedFollows'
    BY <1>1, <1>6 DEF FlushBegin, Goto, TypeOK, SharedFollows
  <2>4. WrittenIsOpened'
    BY <1>1, <1>6 DEF FlushBegin, Goto, TypeOK, WriterFollows, SharedFollows, WrittenIsOpened
  <2> QED BY <2>1, <2>2, <2>3, <2>4 DEF IInv
<1>7. CASE FlushUnlock(p)
  <2>1. TypeOK'
    BY <1>1, <1>7 DEF FlushUnlock, LetGo, Goto, TypeOK, SharedFollows
  <2>2. WriterFollows'
    BY <1>1, <1>7 DEF FlushUnlock, LetGo, Goto, TypeOK, WriterFollows
  <2>3. SharedFollows'
    BY <1>1, <1>7 DEF FlushUnlock, LetGo, Goto, TypeOK, SharedFollows
  <2>4. WrittenIsOpened'
    BY <1>1, <1>7 DEF FlushUnlock, LetGo, Goto, TypeOK, WriterFollows, SharedFollows, WrittenIsOpened
  <2> QED BY <2>1, <2>2, <2>3, <2>4 DEF IInv
<1>8. CASE FlushExclusive(p)
  <2>1. TypeOK'
    BY <1>1, <1>8 DEF FlushExclusive, CanExclude, Goto, Fail, TypeOK, SharedFollows
  <2>2. WriterFollows'
    BY <1>1, <1>8 DEF FlushExclusive, CanExclude, Goto, Fail, TypeOK, WriterFollows
  <2>3. SharedFollows'
    BY <1>1, <1>8 DEF FlushExclusive, CanExclude, Goto, Fail, TypeOK, SharedFollows
  <2>4. WrittenIsOpened'
    BY <1>1, <1>8 DEF FlushExclusive, CanExclude, Goto, Fail, TypeOK, WriterFollows, SharedFollows, WrittenIsOpened
  <2> QED BY <2>1, <2>2, <2>3, <2>4 DEF IInv
<1>9. CASE FlushWrite(p)
  <2>1. writer = p
    BY <1>1, <1>9 DEF FlushWrite, WriterFollows
  <2> QED BY <1>9, <2>1, PublishInvariant, AbandonInvariant DEF FlushWrite
<1>10. CASE BuildBegin(p)
  <2>1. TypeOK'
    <3>1. pc' \in [Process -> Steps] /\ pc'[p] = "buildEx" /\ \A q \in Process \ {p} : pc'[q] = pc[q]
      BY <1>1, <1>10 DEF BuildBegin, Goto, TypeOK
    <3>2. mem' \in [Process -> [dir : Dir, keep : BOOLEAN]]
      BY <1>1, <1>10, ZenonT(30) DEF BuildBegin, TypeOK
    <3>3. shared' \in [Process -> SUBSET {"own", "new"}]
      BY <1>1, <1>10 DEF BuildBegin, LetGo, TypeOK
    <3>4. exclusive # Nobody => \A q \in Process : shared'[q] = {}
      BY <1>1, <1>10 DEF BuildBegin, LetGo, TypeOK
    <3> QED BY <1>1, <1>10, <3>1, <3>2, <3>3, <3>4 DEF BuildBegin, TypeOK
  <2>2. WriterFollows'
    BY <1>1, <1>10 DEF BuildBegin, LetGo, Goto, TypeOK, WriterFollows
  <2>3. SharedFollows'
    BY <1>1, <1>10 DEF BuildBegin, LetGo, Goto, TypeOK, SharedFollows
  <2>4. WrittenIsOpened'
    BY <1>1, <1>10 DEF BuildBegin, LetGo, Goto, TypeOK, WriterFollows, SharedFollows, WrittenIsOpened
  <2> QED BY <2>1, <2>2, <2>3, <2>4 DEF IInv
<1>11. CASE BuildExclusive(p)
  <2>1. TypeOK'
    BY <1>1, <1>11 DEF BuildExclusive, CanExclude, Goto, Fail, TypeOK, SharedFollows
  <2>2. WriterFollows'
    BY <1>1, <1>11 DEF BuildExclusive, CanExclude, Goto, Fail, TypeOK, WriterFollows
  <2>3. SharedFollows'
    BY <1>1, <1>11 DEF BuildExclusive, CanExclude, Goto, Fail, TypeOK, SharedFollows
  <2>4. WrittenIsOpened'
    BY <1>1, <1>11 DEF BuildExclusive, CanExclude, Goto, Fail, TypeOK, WriterFollows, SharedFollows, WrittenIsOpened
  <2> QED BY <2>1, <2>2, <2>3, <2>4 DEF IInv
<1>12. CASE BuildLock(p)
  <2>1. CASE Abandon(p)
    BY <1>12, <2>1, AbandonInvariant DEF BuildLock
  <2>2. CASE ~Abandon(p)
    <3>1. TypeOK'
      BY <1>1, <1>12, <2>2 DEF BuildLock, Goto, TypeOK
    <3>2. WriterFollows'
      BY <1>1, <1>12, <2>2 DEF BuildLock, Goto, TypeOK, WriterFollows
    <3>3. SharedFollows'
      BY <1>1, <1>12, <2>2 DEF BuildLock, Goto, TypeOK, SharedFollows
    <3>4. WrittenIsOpened'
      BY <1>1, <1>12, <2>2 DEF BuildLock, Goto, TypeOK, WrittenIsOpened
    <3> QED BY <3>1, <3>2, <3>3, <3>4 DEF IInv
  <2> QED BY <2>1, <2>2
<1>13. CASE Build(p)
  <2>1. writer = p
    BY <1>1, <1>13 DEF Build, WriterFollows
  <2> QED BY <1>13, <2>1, PublishInvariant, AbandonInvariant DEF Build
<1>14. CASE Release(p)
  <2>1. TypeOK'
    BY <1>1, <1>14 DEF Release, Goto, TypeOK, SharedFollows
  <2>2. WriterFollows'
    BY <1>1, <1>14 DEF Release, Goto, TypeOK, WriterFollows
  <2>3. SharedFollows'
    BY <1>1, <1>14 DEF Release, Goto, TypeOK, SharedFollows
  <2>4. WrittenIsOpened'
    BY <1>1, <1>14 DEF Release, Goto, TypeOK, WriterFollows, SharedFollows, WrittenIsOpened
  <2> QED BY <2>1, <2>2, <2>3, <2>4 DEF IInv
<1>15. CASE Downgrade(p)
  <2>1. TypeOK'
    BY <1>1, <1>15 DEF Downgrade, CanShare, Hold, Freed, Goto, Fail, TypeOK, SharedFollows
  <2>2. WriterFollows'
    BY <1>1, <1>15 DEF Downgrade, CanShare, Hold, Freed, Goto, Fail, TypeOK, WriterFollows
  <2>3. SharedFollows'
    BY <1>1, <1>15 DEF Downgrade, CanShare, Hold, Freed, Goto, Fail, TypeOK, SharedFollows
  <2>4. WrittenIsOpened'
    BY <1>1, <1>15 DEF Downgrade, CanShare, Hold, Freed, Goto, Fail, TypeOK, WriterFollows, SharedFollows, WrittenIsOpened
  <2> QED BY <2>1, <2>2, <2>3, <2>4 DEF IInv
<1>16. CASE OpenWritten(p)
  <2>1. TypeOK'
    <3>1. pc' \in [Process -> Steps] /\ pc'[p] \in {"failed", "closed", "relock", "idle"}
      BY <1>1, <1>16 DEF OpenWritten, Fail, Goto, TypeOK
    <3>2. \A q \in Process \ {p} : pc'[q] = pc[q]
      BY <1>1, <1>16 DEF OpenWritten, Fail, Goto, TypeOK
    <3>3. Empty \in [dir : Dir, keep : BOOLEAN]
      BY DEF Empty, First, Dir
    <3>4. mem' \in [Process -> [dir : Dir, keep : BOOLEAN]]
      BY <1>1, <1>16, <3>3 DEF OpenWritten, Forget, TypeOK
    <3>5. shared' \in [Process -> SUBSET {"own", "new"}] /\ handle' \in [Process -> Dir]
      BY <1>1, <1>16 DEF OpenWritten, LetGo, TypeOK
    <3>6. exclusive = Nobody
      BY <1>1, <1>16 DEF OpenWritten, TypeOK, SharedFollows
    <3>7. exclusive' = exclusive /\ writer' = writer /\ disk' = disk
      BY <1>16 DEF OpenWritten
    <3> QED BY <1>1, <1>16, <3>1, <3>2, <3>4, <3>5, <3>6, <3>7 DEF OpenWritten, TypeOK
  <2>2. WriterFollows'
    BY <1>1, <1>16 DEF OpenWritten, LetGo, Goto, Fail, Forget, Empty, First, Dir, TypeOK, WriterFollows
  <2>3. SharedFollows'
    BY <1>1, <1>16, SMTT(30) DEF OpenWritten, LetGo, Goto, Fail, Forget, Empty, First, Dir, TypeOK, SharedFollows
  <2>4. WrittenIsOpened'
    BY <1>1, <1>16 DEF OpenWritten, LetGo, Goto, Fail, Forget, Empty, First, Dir, TypeOK, WriterFollows, SharedFollows, WrittenIsOpened
  <2> QED BY <2>1, <2>2, <2>3, <2>4 DEF IInv
<1>17. CASE Install(p)
  <2>1. TypeOK'
    BY <1>1, <1>17 DEF Install, CanShare, Goto, Forget, Empty, First, Dir, TypeOK, SharedFollows
  <2>2. WriterFollows'
    BY <1>1, <1>17 DEF Install, CanShare, Goto, Forget, Empty, First, Dir, TypeOK, WriterFollows
  <2>3. SharedFollows'
    BY <1>1, <1>17 DEF Install, CanShare, Goto, Forget, Empty, First, Dir, TypeOK, SharedFollows
  <2>4. WrittenIsOpened'
    BY <1>1, <1>17 DEF Install, CanShare, Goto, Forget, Empty, First, Dir, TypeOK, WriterFollows, SharedFollows, WrittenIsOpened
  <2> QED BY <2>1, <2>2, <2>3, <2>4 DEF IInv
<1>18. CASE Recover(p)
  <2>1. TypeOK'
    BY <1>1, <1>18 DEF Recover, CanShare, Hold, Goto, Forget, Empty, First, Dir, TypeOK, SharedFollows
  <2>2. WriterFollows'
    BY <1>1, <1>18 DEF Recover, CanShare, Hold, Goto, Forget, Empty, First, Dir, TypeOK, WriterFollows
  <2>3. SharedFollows'
    BY <1>1, <1>18 DEF Recover, CanShare, Hold, Goto, Forget, Empty, First, Dir, TypeOK, SharedFollows
  <2>4. WrittenIsOpened'
    BY <1>1, <1>18 DEF Recover, CanShare, Hold, Goto, Forget, Empty, First, Dir, TypeOK, WriterFollows, SharedFollows, WrittenIsOpened
  <2> QED BY <2>1, <2>2, <2>3, <2>4 DEF IInv
<1> QED BY <1>2, <1>3, <1>4, <1>5, <1>6, <1>7, <1>8, <1>9, <1>10, <1>11, <1>12, <1>13, <1>14, <1>15, <1>16, <1>17, <1>18 DEF ProcessStep

\* Nothing changes without a step of a process.
LEMMA StutterInvariant == IInv /\ UNCHANGED vars => IInv'
BY DEF vars, IInv, TypeOK, WriterFollows, SharedFollows, WrittenIsOpened

\* IInv holds in every state of DirLocks.
THEOREM Invariant == Spec => []IInv
<1>1. IInv /\ [Next]_vars => IInv'
  BY StepInvariant, StutterInvariant DEF Next
<1> QED BY <1>1, InitInvariant, PTL DEF Spec

\* dir.lock is exclusive for the one process inside, and no handle is served beside it.
THEOREM TypeCorrect == Spec => []TypeOK
<1>1. IInv => TypeOK
  BY DEF IInv
<1> QED BY <1>1, Invariant, PTL

\* Nobody replaces the directory that a flush, a compaction or a build wrote before that
\* writer has opened it, although it holds no lock on dir.lock for a moment.
THEOREM NothingBetweenWriteAndOpen == Spec => []WrittenIsOpened
<1>1. IInv => WrittenIsOpened
  BY DEF IInv
<1> QED BY <1>1, Invariant, PTL

-------------------------------------------------------------------------------
(* The command line takes the steps of DirLocks *)

\* Whatever a command does to the locks and the directory is a step of its process in
\* DirLocks, or none.
LEMMA CliStepIsStep == [CliNext]_allvars => [Next]_vars
<1> SUFFICES ASSUME [CliNext]_allvars PROVE [Next]_vars
  OBVIOUS
<1> USE DEF ProcessStep
<1>1. ASSUME NEW p \in Cli, Step(p) PROVE ProcessStep(p) \/ UNCHANGED vars
  <2>1. CASE OpenIndex(p) \/ OpenConflict(p) \/ Finish(p)
    BY <2>1 DEF OpenIndex, OpenConflict, Finish
  <2>2. CASE BoundedCommit(p) \/ SearchStale(p) \/ SearchBehind(p) \/ CommitDone(p)
    BY <2>2 DEF BoundedCommit, SearchStale, SearchBehind, CommitDone
  <2>3. CASE Answer(p) \/ CheckStamp(p) \/ Spawn(p)
    BY <2>3 DEF Answer, CheckStamp, Spawn
  <2>4. CASE UpdateNothing(p) \/ UpdateCommit(p) \/ UpdateRebuilds(p) \/ UpdateConflict(p)
    BY <2>4 DEF UpdateNothing, UpdateCommit, UpdateRebuilds, UpdateConflict
  <2>5. CASE FlushStarts(p) \/ FlushConflict(p) \/ WriteStep(p) \/ WriteEnds(p) \/ RebuildEnds(p)
    BY <2>5 DEF FlushStarts, FlushConflict, WriteStep, WriteEnds, RebuildEnds
  <2> QED BY <1>1, <2>1, <2>2, <2>3, <2>4, <2>5 DEF Step
<1>2. CASE \E f \in File : Change(f)
  BY <1>2 DEF Change
<1>3. CASE StampAges
  BY <1>3 DEF StampAges
<1>4. CASE \E p \in Cli : UserRuns(p) \/ Step(p)
  <2>1. PICK p \in Cli : UserRuns(p) \/ Step(p)
    BY <1>4
  <2>2. CASE UserRuns(p)
    BY <2>2 DEF UserRuns
  <2>3. CASE Step(p)
    BY <1>1, <2>3, CliAssumption DEF Next
  <2> QED BY <2>1, <2>2, <2>3
<1>5. CASE \E p \in Process \ Cli : Other(p)
  BY <1>5 DEF Other, Next
<1>6. CASE UNCHANGED allvars
  BY <1>6 DEF allvars
<1> QED BY <1>2, <1>3, <1>4, <1>5, <1>6 DEF CliNext

\* Searches with their bounded updates, retries and detached catch-ups keep to the
\* protocol of the locks.
THEOREM CliImplementsLocks == CliSpec => Spec
<1>1. CliInit => Init
  BY DEF CliInit
<1> QED BY <1>1, CliStepIsStep, PTL DEF CliSpec, Spec

\* What a command wrote is what it opens, whatever the other commands and processes do.
THEOREM CliOpensWhatItWrote == CliSpec => []WrittenIsOpened
BY CliImplementsLocks, NothingBetweenWriteAndOpen, PTL

-------------------------------------------------------------------------------
(* Commands that wait hold nothing *)

Places == {"open", "update", "commit", "answer", "stamp", "touch", "exit", "flush", "write", "rebuild"}
CommandState == [cmd : {"search", "update"}, at : Places, tries : Nat, seen : SUBSET File, catchup : BOOLEAN]

\* A process without a command, and one about to open, has no handle.
CliInv ==
    /\ cli \in [Cli -> CommandState \cup {None}]
    /\ behind \in SUBSET File
    /\ \A p \in Cli : cli[p] = None \/ cli[p].at = "open" => pc[p] = "closed"

\* A step of one process does not move another.
LEMMA OthersStay ==
  ASSUME NEW p \in Process, ProcessStep(p), NEW q \in Process \ {p}, pc \in [Process -> Steps]
  PROVE  pc'[q] = pc[q]
BY DEF ProcessStep, Open, Exit, CommitBegin, CommitEnd, FlushBegin, FlushUnlock, FlushExclusive, FlushWrite,
       BuildBegin, BuildExclusive, BuildLock, Build, Release, Downgrade, OpenWritten, Install, Recover,
       Publish, Abandon, Fail, Goto

\* A new command, and one started over, is at its beginning; the others move on from it.
LEMMA CommandTypes ==
  /\ \A c \in CommandState : c # None
  /\ \A cmd \in {"search", "update"} : Command(cmd) \in CommandState /\ Command(cmd).at = "open"
  /\ \A c \in CommandState : \A place \in Places :
        [c EXCEPT !.at = place] \in CommandState /\ [c EXCEPT !.at = place].at = place
  /\ \A c \in CommandState : \A files \in SUBSET File :
        [c EXCEPT !.seen = files] \in CommandState /\ [c EXCEPT !.seen = files].at = c.at
<1>1. \A c \in CommandState : c # None
  <2> SUFFICES ASSUME NEW c \in CommandState, c = None PROVE FALSE
    OBVIOUS
  <2>1. c.cmd \in {"search", "update"}
    BY DEF CommandState
  <2>2. c.cmd = "none"
    BY DEF None
  <2> QED BY <2>1, <2>2
<1>2. \A cmd \in {"search", "update"} : Command(cmd) \in CommandState /\ Command(cmd).at = "open"
  BY DEF Command, CommandState, Places
<1>3. \A c \in CommandState : \A place \in Places :
        [c EXCEPT !.at = place] \in CommandState /\ [c EXCEPT !.at = place].at = place
  BY DEF CommandState
<1>4. \A c \in CommandState : \A files \in SUBSET File :
        [c EXCEPT !.seen = files] \in CommandState /\ [c EXCEPT !.seen = files].at = c.at
  BY DEF CommandState
<1> QED BY <1>1, <1>2, <1>3, <1>4

\* The command of p becomes c: the invariant asks only about p.
LEMMA BecomesInvariant ==
  ASSUME CliInv, NEW p \in Cli, NEW c \in CommandState \cup {None}, Becomes(p, c),
         behind' \in SUBSET File,
         \A q \in Cli \ {p} : pc'[q] = pc[q],
         c = None \/ c.at = "open" => pc'[p] = "closed"
  PROVE  CliInv'
BY DEF CliInv, Becomes

\* Moving on is becoming, and never to the beginning.
LEMMA MovesInvariant ==
  ASSUME CliInv, NEW p \in Cli, cli[p] # None, NEW place \in Places \ {"open"}, Moves(p, place),
         behind' \in SUBSET File,
         \A q \in Cli \ {p} : pc'[q] = pc[q]
  PROVE  CliInv'
<1>1. cli[p] \in CommandState /\ Becomes(p, [cli[p] EXCEPT !.at = place])
  BY DEF CliInv, Becomes, Moves
<1>2. /\ [cli[p] EXCEPT !.at = place] \in CommandState /\ [cli[p] EXCEPT !.at = place].at = place
      /\ [cli[p] EXCEPT !.at = place] # None
  BY <1>1, CommandTypes
<1> QED BY <1>1, <1>2, BecomesInvariant

\* A command started over, or given up, is one whose process has no handle.
LEMMA RetriedInvariant ==
  ASSUME CliInv, NEW p \in Cli, cli[p] # None, Becomes(p, Retried(p)), behind' \in SUBSET File,
         \A q \in Cli \ {p} : pc'[q] = pc[q],
         pc'[p] = "closed"
  PROVE  CliInv'
<1>1. cli[p] \in CommandState
  BY DEF CliInv
<1>2. Retried(p) \in CommandState \cup {None}
  <2> DEFINE again == Command(cli[p].cmd)
  <2>1. again \in CommandState
    BY <1>1 DEF CommandState, Command, Places
  <2>2. cli[p].tries + 1 \in Nat
    BY <1>1 DEF CommandState
  <2>3. [again EXCEPT !.tries = cli[p].tries + 1] \in CommandState
    BY <2>1, <2>2 DEF CommandState
  <2> QED BY <2>3 DEF Retried
<1> QED BY <1>2, BecomesInvariant

\* Every step keeps the invariant: only an ended process is without a command, and a
\* conflict is waited for without a handle.
LEMMA CliInvariantStep ==
  ASSUME TypeOK, CliInv, NEW p \in Cli, Step(p)
  PROVE  CliInv'
<1>1. p \in Process /\ Cli \subseteq Process
  BY CliAssumption
<1>2. pc \in [Process -> Steps] /\ behind \in SUBSET File /\ cli \in [Cli -> CommandState \cup {None}]
  BY DEF TypeOK, CliInv
<1>3. \A q \in Cli \ {p} : ProcessStep(p) => pc'[q] = pc[q]
  BY <1>1, <1>2, OthersStay
<1> USE <1>1, <1>2, <1>3 DEF At, Running, Places
<1>4. CASE OpenIndex(p)
  BY <1>4, MovesInvariant DEF OpenIndex, ProcessStep
<1>5. CASE OpenConflict(p)
  BY <1>5, RetriedInvariant DEF OpenConflict, CliInv, vars
<1>6. CASE Finish(p)
  <2>1. pc'[p] = "closed" /\ ProcessStep(p) /\ Becomes(p, None) /\ behind' = behind
    BY <1>6 DEF Finish, Exit, Goto, ProcessStep
  <2> QED BY <2>1, BecomesInvariant
<1>7. CASE BoundedCommit(p)
  BY <1>7, MovesInvariant DEF BoundedCommit, ProcessStep
<1>8. CASE SearchStale(p)
  BY <1>8, MovesInvariant DEF SearchStale, vars
<1>9. CASE SearchBehind(p)
  <2> DEFINE c == [cli[p] EXCEPT !.at = "answer", !.catchup = TRUE]
  <2>1. cli[p] \in CommandState
    BY <1>9 DEF SearchBehind
  <2>2. c \in CommandState /\ c.at = "answer"
    BY <2>1 DEF CommandState
  <2>3. c # None
    BY <2>2, CommandTypes
  <2>4. Becomes(p, c) /\ behind' = behind /\ pc' = pc
    BY <1>9 DEF SearchBehind, vars
  <2> HIDE DEF c
  <2> QED BY <2>2, <2>3, <2>4, BecomesInvariant
<1>10. CASE CommitDone(p)
  <2> DEFINE place == IF cli[p].cmd = "search" THEN "answer" ELSE "flush"
             c == [cli[p] EXCEPT !.seen = behind, !.at = place]
  <2>1. cli[p] \in CommandState
    BY <1>10 DEF CommitDone
  <2>2. c \in CommandState /\ c.at # "open"
    BY <2>1 DEF CommandState
  <2>3. c # None
    BY <2>2, CommandTypes
  <2>4. Becomes(p, c) /\ behind' = behind /\ ProcessStep(p)
    BY <1>10 DEF CommitDone, ProcessStep
  <2> HIDE DEF c
  <2> QED BY <2>2, <2>3, <2>4, BecomesInvariant
<1>11. CASE Answer(p)
  BY <1>11, MovesInvariant DEF Answer, vars
<1>12. CASE CheckStamp(p)
  BY <1>12, MovesInvariant DEF CheckStamp, vars
<1>13. CASE Spawn(p)
  <2>1. cli[p] \in CommandState /\ behind' = behind /\ pc' = pc
    BY <1>13 DEF Spawn, vars
  <2>2. CASE Moves(p, "exit")
    BY <1>13, <2>1, <2>2, MovesInvariant DEF Spawn
  <2>3. ASSUME NEW q \in Cli, cli[q] = None, cli' = [cli EXCEPT ![p].at = "exit", ![q] = Command("update")]
        PROVE  CliInv'
    <3>1. q # p
      BY <1>13, <2>3 DEF Spawn
    <3> DEFINE c == [cli[p] EXCEPT !.at = "exit"]
    <3>2. c \in CommandState /\ c.at = "exit"
      BY <2>1, CommandTypes
    <3>3. Command("update") \in CommandState
      BY CommandTypes
    <3>4. /\ cli' \in [Cli -> CommandState \cup {None}]
          /\ cli'[p] = c /\ cli'[q] = Command("update")
          /\ \A r \in Cli \ {p, q} : cli'[r] = cli[r]
      BY <2>3, <3>1, <3>2, <3>3
    <3> HIDE DEF c
    <3>5. cli'[p] # None
      BY <3>2, <3>4, CommandTypes
    <3>6. ASSUME NEW r \in Cli, cli'[r] = None \/ cli'[r].at = "open" PROVE pc'[r] = "closed"
      <4>1. CASE r = p
        BY <3>2, <3>4, <3>5, <3>6, <4>1
      <4>2. CASE r = q
        BY <2>1, <2>3, <4>2 DEF CliInv
      <4>3. CASE r \in Cli \ {p, q}
        BY <2>1, <3>4, <3>6, <4>3 DEF CliInv
      <4> QED BY <4>1, <4>2, <4>3
    <3> QED BY <2>1, <3>4, <3>6 DEF CliInv
  <2> QED BY <1>13, <2>2, <2>3 DEF Spawn
<1>14. CASE UpdateNothing(p)
  BY <1>14, MovesInvariant DEF UpdateNothing, vars
<1>15. CASE UpdateCommit(p)
  BY <1>15, MovesInvariant DEF UpdateCommit, ProcessStep
<1>16. CASE UpdateRebuilds(p)
  <2> DEFINE c == [cli[p] EXCEPT !.at = "rebuild", !.seen = behind]
  <2>1. cli[p] \in CommandState
    BY <1>16 DEF UpdateRebuilds
  <2>2. c \in CommandState /\ c.at = "rebuild"
    BY <2>1 DEF CommandState
  <2>3. c # None
    BY <2>2, CommandTypes
  <2>4. Becomes(p, c) /\ behind' = behind /\ ProcessStep(p)
    BY <1>16 DEF UpdateRebuilds, ProcessStep
  <2> HIDE DEF c
  <2> QED BY <2>2, <2>3, <2>4, BecomesInvariant
<1>17. CASE UpdateConflict(p)
  <2>1. pc'[p] = "closed" /\ ProcessStep(p) /\ Becomes(p, Retried(p)) /\ behind' = behind /\ cli[p] # None
    BY <1>17 DEF UpdateConflict, Exit, Goto, ProcessStep
  <2> QED BY <2>1, RetriedInvariant
<1>18. CASE FlushStarts(p)
  BY <1>18, MovesInvariant DEF FlushStarts, ProcessStep
<1>19. CASE FlushConflict(p)
  BY <1>19, MovesInvariant DEF FlushConflict, vars
<1>20. CASE WriteStep(p)
  <2>1. /\ cli[p] # None /\ cli[p].at \in {"write", "rebuild"} /\ ProcessStep(p)
        /\ cli' = cli /\ behind' \in SUBSET File
    BY <1>20 DEF WriteStep, Persists, ProcessStep
  <2> QED BY <2>1 DEF CliInv
<1>21. CASE WriteEnds(p)
  BY <1>21, MovesInvariant DEF WriteEnds, vars
<1>22. CASE RebuildEnds(p)
  <2>1. CASE Moves(p, "exit") /\ UNCHANGED vars
    BY <1>22, <2>1, MovesInvariant DEF RebuildEnds, vars
  <2>2. CASE Exit(p) /\ Becomes(p, Retried(p))
    <3>1. pc'[p] = "closed" /\ ProcessStep(p) /\ behind' = behind /\ cli[p] # None
      BY <1>22, <2>2 DEF RebuildEnds, Exit, Goto, ProcessStep
    <3> QED BY <2>2, <3>1, RetriedInvariant
  <2> QED BY <1>22, <2>1, <2>2 DEF RebuildEnds
<1> QED BY <1>4, <1>5, <1>6, <1>7, <1>8, <1>9, <1>10, <1>11, <1>12, <1>13, <1>14, <1>15, <1>16, <1>17,
           <1>18, <1>19, <1>20, <1>21, <1>22 DEF Step

\* The same for the tree, the clock, the user and the other processes.
LEMMA CliInvariantNext == TypeOK /\ CliInv /\ [CliNext]_allvars => CliInv'
<1> SUFFICES ASSUME TypeOK, CliInv, [CliNext]_allvars PROVE CliInv'
  OBVIOUS
<1>1. CASE \E f \in File : Change(f)
  <2>1. PICK f \in File : Change(f)
    BY <1>1
  <2>2. \A p \in Cli : cli'[p] = IF cli[p] = None THEN None ELSE [cli[p] EXCEPT !.seen = @ \ {f}]
    BY <2>1 DEF Change
  <2>3. ASSUME NEW p \in Cli
        PROVE  /\ cli'[p] \in CommandState \cup {None}
               /\ cli'[p] = None <=> cli[p] = None
               /\ cli[p] # None => cli'[p].at = cli[p].at
    <3>1. CASE cli[p] = None
      BY <2>2, <3>1
    <3>2. CASE cli[p] # None
      <4>1. cli[p] \in CommandState
        BY <3>2 DEF CliInv
      <4>2. cli[p].seen \ {f} \in SUBSET File
        BY <4>1 DEF CommandState
      <4>3. cli'[p] = [cli[p] EXCEPT !.seen = cli[p].seen \ {f}]
        BY <2>2, <3>2
      <4> QED BY <3>2, <4>1, <4>2, <4>3, CommandTypes
    <3> QED BY <3>1, <3>2
  <2>4. cli' \in [Cli -> CommandState \cup {None}]
    BY <2>1, <2>3 DEF Change
  <2>5. pc' = pc /\ behind' = behind \cup {f}
    BY <2>1 DEF Change, vars
  <2> QED BY <2>3, <2>4, <2>5 DEF CliInv
<1>2. CASE StampAges
  BY <1>2 DEF StampAges, vars, CliInv
<1>3. ASSUME NEW p \in Cli, UserRuns(p) PROVE CliInv'
  <2>1. PICK cmd \in {"search", "update"} : Becomes(p, Command(cmd))
    BY <1>3 DEF UserRuns
  <2>2. pc' = pc /\ behind' = behind /\ pc[p] = "closed"
    BY <1>3 DEF UserRuns, vars, CliInv
  <2>3. Command(cmd) \in CommandState /\ behind \in SUBSET File
    BY CommandTypes DEF CliInv
  <2> QED BY <2>1, <2>2, <2>3, BecomesInvariant
<1>4. ASSUME NEW p \in Process \ Cli, Other(p) PROVE CliInv'
  <2>1. \A q \in Cli : pc'[q] = pc[q]
    BY <1>4, OthersStay, CliAssumption DEF Other, TypeOK
  <2> QED BY <1>4, <2>1 DEF Other, cvars, CliInv
<1>5. CASE UNCHANGED allvars
  BY <1>5 DEF allvars, vars, cvars, CliInv
<1> QED BY <1>1, <1>2, <1>3, <1>4, <1>5, CliInvariantStep DEF CliNext

\* A command that has ended, one that waits to open the index again, and one not yet
\* started hold no lock: whoever they wait for is not held up by them.
THEOREM WaitingHoldsNothing == CliSpec => []IdleHoldsNothing
<1>1. CliInit => CliInv
  BY CliAssumption DEF CliInit, Init, CliInv
<1>2. CliSpec => []CliInv
  <2>1. Spec => []TypeOK
    BY TypeCorrect
  <2> QED BY <1>1, <2>1, CliImplementsLocks, CliInvariantNext, PTL DEF CliSpec
<1>3. IInv /\ CliInv => IdleHoldsNothing
  <2> SUFFICES ASSUME IInv, CliInv, NEW p \in Cli, cli[p] = None \/ At(p, "open")
               PROVE  shared[p] = {} /\ exclusive # p /\ writer # p
    BY DEF IdleHoldsNothing
  <2>1. pc[p] = "closed" /\ p \in Process
    BY CliAssumption DEF CliInv, At
  <2> QED BY <2>1 DEF IInv, TypeOK, WriterFollows, SharedFollows
<1> QED BY <1>2, <1>3, CliImplementsLocks, Invariant, PTL
================================================================================
