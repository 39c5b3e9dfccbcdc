------------------------------- MODULE CliLocks -------------------------------
(***************************************************************************)
(* The command line on one index directory: searches, which retry a locked *)
(* directory, apply a bounded update in memory and spawn a detached        *)
(* `st update` when the index stays behind, and the updates themselves.    *)
(* Every lock they meet is the one of DirLocks, whose other processes      *)
(* (embedders, `st index`, compactions) take any of its steps and may stop *)
(* for ever inside one.                                                    *)
(***************************************************************************)
EXTENDS DirLocks, FiniteSets

CONSTANTS Cli,        \* the processes that run `st`
          File,
          MaxFiles,   \* auto_update_max_files
          Retries,    \* attempts after the first that a lock conflict is retried
          MaxChanges, \* bound: changes of the tree
          MaxRuns     \* bound: commands the user starts

ASSUME CliAssumption == Cli \subseteq Process /\ MaxFiles \in Nat /\ Retries \in Nat

VARIABLES cli,     \* what each `st` process runs and where it is
          behind,  \* files whose content is not in the durable index
          stamp,   \* async-catchup-stamp: touched less than 5 s ago, or not
          count    \* changes of the tree and commands of the user so far

cvars == <<cli, behind, stamp, count>>
allvars == <<vars, cvars>>

None == [cmd |-> "none"]
Command(cmd) == [cmd |-> cmd, at |-> "open", tries |-> 0, seen |-> {}, catchup |-> FALSE]
At(p, place) == cli[p] # None /\ cli[p].at = place
Running(p, cmd, place) == At(p, place) /\ cli[p].cmd = cmd
Becomes(p, c) == cli' = [cli EXCEPT ![p] = c]
Moves(p, place) == cli' = [cli EXCEPT ![p].at = place]

CliInit ==
    /\ Init
    /\ cli = [p \in Cli |-> None]
    /\ behind = {}
    /\ stamp \in {"old", "recent"}
    /\ count = [changes |-> 0, runs |-> 0]

-------------------------------------------------------------------------------
(* The tree, the clock, the user *)

\* A file changes: whatever a process read of it is out of date.
Change(f) ==
    /\ count.changes < MaxChanges
    /\ count' = [count EXCEPT !.changes = @ + 1]
    /\ behind' = behind \cup {f}
    /\ cli' = [p \in Cli |-> IF cli[p] = None THEN None ELSE [cli[p] EXCEPT !.seen = @ \ {f}]]
    /\ UNCHANGED <<vars, stamp>>

StampAges ==
    /\ stamp = "recent" /\ stamp' = "old"
    /\ UNCHANGED <<vars, cli, behind, count>>

UserRuns(p) ==
    /\ cli[p] = None /\ count.runs < MaxRuns
    /\ count' = [count EXCEPT !.runs = @ + 1]
    /\ \E cmd \in {"search", "update"} : Becomes(p, Command(cmd))
    /\ UNCHANGED <<vars, behind, stamp>>

-------------------------------------------------------------------------------
(* Opening, for both commands *)

OpenIndex(p) ==
    /\ At(p, "open") /\ Open(p)
    /\ Moves(p, "update")
    /\ UNCHANGED <<behind, stamp, count>>

\* The attempts are not counted.
RetriedMutant(p) == Command(cli[p].cmd)

\* A conflict is slept on and tried again, Retries times; then the command ends with the
\* error, loudly.
Retried(p) ==
    IF cli[p].tries < Retries
    THEN [Command(cli[p].cmd) EXCEPT !.tries = cli[p].tries + 1]
    ELSE None
OpenConflict(p) ==
    /\ At(p, "open") /\ ~CanShare
    /\ Becomes(p, Retried(p))
    /\ UNCHANGED <<vars, behind, stamp, count>>

\* The process ends, and its locks go with it.
Finish(p) ==
    /\ At(p, "exit") /\ Exit(p)
    /\ Becomes(p, None)
    /\ UNCHANGED <<behind, stamp, count>>

-------------------------------------------------------------------------------
(* st <pattern>: run_bounded_auto_update, the answer, maybe_spawn_async_catchup *)

\* Few enough changed files and the writer lock is free: they are committed in memory.
BoundedCommit(p) ==
    /\ Running(p, "search", "update")
    /\ behind # {} /\ Cardinality(behind) <= MaxFiles
    /\ CommitBegin(p)
    /\ Moves(p, "commit")
    /\ UNCHANGED <<behind, stamp, count>>

\* Nothing changed, or the update ended in an error other than a full overlay.
SearchStale(p) ==
    /\ Running(p, "search", "update")
    /\ behind = {} \/ (Cardinality(behind) <= MaxFiles /\ writer # Nobody)
    /\ Moves(p, "answer")
    /\ UNCHANGED <<vars, behind, stamp, count>>

\* Too many files, too little time or a full overlay: the catch-up is asked for.
SearchBehind(p) ==
    /\ Running(p, "search", "update") /\ behind # {}
    /\ Becomes(p, [cli[p] EXCEPT !.at = "answer", !.catchup = TRUE])
    /\ UNCHANGED <<vars, behind, stamp, count>>

CommitDone(p) ==
    /\ At(p, "commit") /\ CommitEnd(p)
    /\ Becomes(p, [cli[p] EXCEPT !.seen = behind,
                                 !.at = IF cli[p].cmd = "search" THEN "answer" ELSE "flush"])
    /\ UNCHANGED <<behind, stamp, count>>

\* The results are printed first.
Answer(p) ==
    /\ At(p, "answer")
    /\ Moves(p, IF cli[p].catchup THEN "stamp" ELSE "exit")
    /\ UNCHANGED <<vars, behind, stamp, count>>

CheckStamp(p) ==
    /\ At(p, "stamp")
    /\ Moves(p, IF stamp = "recent" THEN "exit" ELSE "touch")
    /\ UNCHANGED <<vars, behind, stamp, count>>

\* The stamp is touched before the child is spawned; the child is not waited for.
Spawn(p) ==
    /\ At(p, "touch")
    /\ stamp' = "recent"
    /\ \/ \E q \in {r \in Cli : cli[r] = None} :
             cli' = [cli EXCEPT ![p].at = "exit", ![q] = Command("update")]
       \/ (\A r \in Cli : cli[r] # None) /\ Moves(p, "exit")
    /\ UNCHANGED <<vars, behind, count>>

-------------------------------------------------------------------------------
(* st update *)

UpdateNothing(p) ==
    /\ Running(p, "update", "update") /\ behind = {}
    /\ Moves(p, "exit")
    /\ UNCHANGED <<vars, behind, stamp, count>>

UpdateCommit(p) ==
    /\ Running(p, "update", "update") /\ behind # {}
    /\ CommitBegin(p)
    /\ Moves(p, "commit")
    /\ UNCHANGED <<behind, stamp, count>>

\* A missing index, a moved HEAD that no delta covers or an overlay that would be too full is a
\* rebuild of the index.
UpdateRebuilds(p) ==
    /\ Running(p, "update", "update") /\ behind # {}
    /\ BuildBegin(p)
    /\ Becomes(p, [cli[p] EXCEPT !.at = "rebuild", !.seen = behind])
    /\ UNCHANGED <<behind, stamp, count>>

\* The index stays open between two attempts.
UpdateConflictMutant(p) ==
    /\ Running(p, "update", "update") /\ behind # {} /\ writer # Nobody
    /\ Becomes(p, Retried(p))
    /\ UNCHANGED <<vars, behind, stamp, count>>

\* A conflict of an update drops the index and starts over.
UpdateConflict(p) ==
    /\ Running(p, "update", "update") /\ behind # {} /\ writer # Nobody
    /\ Exit(p)
    /\ Becomes(p, Retried(p))
    /\ UNCHANGED <<behind, stamp, count>>

FlushStarts(p) ==
    /\ At(p, "flush") /\ FlushBegin(p)
    /\ Moves(p, "write")
    /\ UNCHANGED <<behind, stamp, count>>

\* A flush that fails is reported and the command still ends well.
FlushConflict(p) ==
    /\ At(p, "flush") /\ writer # Nobody
    /\ Moves(p, "exit")
    /\ UNCHANGED <<vars, behind, stamp, count>>

\* The steps of a flush or a rebuild; publishing puts what was read into the index.
Persists(p) == behind' = IF disk' # disk THEN behind \ cli[p].seen ELSE behind
WriteStep(p) ==
    /\ cli[p] # None /\ cli[p].at \in {"write", "rebuild"} /\ pc[p] # "idle"
    /\ \/ FlushUnlock(p) \/ FlushExclusive(p) \/ FlushWrite(p)
       \/ BuildExclusive(p) \/ BuildLock(p) \/ Build(p)
       \/ Release(p) \/ Downgrade(p) \/ OpenWritten(p) \/ Install(p) \/ Recover(p)
    /\ Persists(p)
    /\ UNCHANGED <<cli, stamp, count>>

WriteEnds(p) ==
    /\ At(p, "write") /\ pc[p] = "idle"
    /\ Moves(p, "exit")
    /\ UNCHANGED <<vars, behind, stamp, count>>

\* A rebuild that met a lock is started over, one that did its work is done.
RebuildEnds(p) ==
    /\ At(p, "rebuild") /\ pc[p] = "idle"
    /\ \/ Moves(p, "exit") /\ UNCHANGED vars
       \/ cli[p].seen \cap behind # {} /\ Exit(p) /\ Becomes(p, Retried(p))
    /\ UNCHANGED <<behind, stamp, count>>

-------------------------------------------------------------------------------
Step(p) ==
    \/ OpenIndex(p) \/ OpenConflict(p) \/ Finish(p)
    \/ BoundedCommit(p) \/ SearchStale(p) \/ SearchBehind(p) \/ CommitDone(p)
    \/ Answer(p) \/ CheckStamp(p) \/ Spawn(p)
    \/ UpdateNothing(p) \/ UpdateCommit(p) \/ UpdateRebuilds(p) \/ UpdateConflict(p)
    \/ FlushStarts(p) \/ FlushConflict(p) \/ WriteStep(p) \/ WriteEnds(p) \/ RebuildEnds(p)

Other(p) ==
    /\ ProcessStep(p)
    /\ UNCHANGED cvars

CliNext ==
    \/ \E f \in File : Change(f)
    \/ StampAges
    \/ \E p \in Cli : UserRuns(p) \/ Step(p)
    \/ \E p \in Process \ Cli : Other(p)

\* The system runs every `st` process; nothing is assumed of the others.
CliSpec == CliInit /\ [][CliNext]_allvars /\ \A p \in Cli : WF_allvars(Step(p))

-------------------------------------------------------------------------------
(* Properties *)

\* "A genuine long writer still surfaces the same loud error": a search or an update ends,
\* though another process may hold any lock for ever and others take turns with it.
CommandsEnd == \A p \in Cli : cli[p] # None ~> cli[p] = None

\* A process that runs no command holds no lock, and one that waits between attempts
\* does not stand in the way of the writer it waits for.
IdleHoldsNothing ==
    \A p \in Cli : (cli[p] = None \/ At(p, "open")) =>
        shared[p] = {} /\ exclusive # p /\ writer # p
===============================================================================
