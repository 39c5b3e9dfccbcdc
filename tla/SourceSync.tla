------------------------------ MODULE SourceSync ------------------------------
(***************************************************************************)
(* A store kept in line with a directory: sync_directory and sync_paths by *)
(* several threads of the writing process, the change catalogue they read  *)
(* before the writer lock and save after it, and a directory that changes  *)
(* at any moment.                                                          *)
(*                                                                         *)
(* A file's text is its version and `stamp` its mtime; files have the same *)
(* size, so a stat matches when the stamps do.  `aged` says that the mtime *)
(* is further back than RACY_MARGIN.                                       *)
(*                                                                         *)
(* Env names what the directory does beyond new files, edits with a new    *)
(* mtime, deletions and files that become ignored: "racy" edits within one *)
(* tick of the clock, files that appear while a sync runs ("appear") and   *)
(* not only between syncs, files no longer ignored ("unignore"), earlier   *)
(* contents ("revert"), and a second read that fails ("unread").           *)
(***************************************************************************)
EXTENDS Naturals

CONSTANTS Thread,
          Name,        \* relative paths of the files
          Large,       \* paths whose content is not kept by the hashing read
          Binary,      \* versions that decode_text rejects
          Env,
          MaxVersion,  \* bound: changes of a file's content
          MaxIgnores,  \* bound: changes of the ignore rules
          MaxPartial,  \* bound: syncs of single paths
          MaxFaults    \* bound: crashes, cancellations, failed hashes and saves

ASSUME SyncAssumption ==
    /\ Large \subseteq Name
    /\ Env \subseteq {"racy", "appear", "unignore", "revert", "unread"}

VARIABLES
    file,       \* the directory: version (0 when absent), stamp, aged, ignored
    version,    \* versions and stamps used up so far, by path
    store,      \* the documents under the label: [text, hash], or None
    catalogue,  \* catalogue.idx: [digest, stamp] by path, or None
    writer,     \* the thread that holds the writer lock
    sync,       \* each thread's sync
    count,      \* operations so far, by kind
    quiet       \* history: threads whose sync of the directory has seen no change and no fault

syncVars == <<file, version, store, catalogue, writer, sync, count, quiet>>
dir == <<file, version>>

None == [absent |-> TRUE]
Idle == [pc |-> "idle"]
Present(p) == file[p].text # 0

InitSync ==
    /\ file = [p \in Name |-> [text |-> 0, stamp |-> 0, aged |-> FALSE, ignored |-> FALSE]]
    /\ version = [p \in Name |-> 0]
    /\ store = [p \in Name |-> None] /\ catalogue = [p \in Name |-> None]
    /\ writer = None
    /\ sync = [t \in Thread |-> Idle]
    /\ count = [ignores |-> 0, partial |-> 0, faults |-> 0]
    /\ quiet = {}

Tick(kind) == count' = [count EXCEPT ![kind] = @ + 1]
CanFail == count.faults < MaxFaults

-------------------------------------------------------------------------------
(* The directory *)

Changes(p, f) ==
    /\ file' = [file EXCEPT ![p] = f]
    /\ quiet' = {}
    /\ UNCHANGED <<store, catalogue, writer, sync>>

\* Content the file never had, or an earlier one back, under an mtime that is new or,
\* within one tick, the one the last version has.
Contents(p) == {version[p] + 1} \cup IF "revert" \in Env THEN 1 .. version[p] ELSE {}
Edit(p) ==
    /\ version[p] < MaxVersion
    /\ Present(p) \/ (\A t \in Thread : sync[t] = Idle) \/ "appear" \in Env
    /\ version' = [version EXCEPT ![p] = @ + 1]
    /\ \E text \in Contents(p) :
          \/ Changes(p, [file[p] EXCEPT !.text = text, !.stamp = version'[p], !.aged = FALSE])
          \/ "racy" \in Env /\ Present(p) /\ ~file[p].aged
             /\ Changes(p, [file[p] EXCEPT !.text = text])
    /\ UNCHANGED count

Delete(p) ==
    /\ Present(p)
    /\ Changes(p, [file[p] EXCEPT !.text = 0])
    /\ UNCHANGED <<version, count>>

Ignore(p) ==
    /\ count.ignores < MaxIgnores /\ Present(p)
    /\ ~file[p].ignored \/ "unignore" \in Env
    /\ Changes(p, [file[p] EXCEPT !.ignored = ~@])
    /\ Tick("ignores")
    /\ UNCHANGED version

Age(p) ==
    /\ Present(p) /\ ~file[p].aged
    /\ file' = [file EXCEPT ![p].aged = TRUE]
    /\ UNCHANGED <<version, store, catalogue, writer, sync, count, quiet>>

-------------------------------------------------------------------------------
(* Observing a path against the catalogue *)

StatMatches(entry, f) == entry # None /\ entry.stamp = f.stamp
\* is_settled: the recorded mtime is far enough from the moment of this observation.
IsSettled(entry, f) == f.aged
Entry(f) == [digest |-> f.text, stamp |-> f.stamp]

Kind(entry, f) ==
    IF f.text = 0 THEN IF entry = None THEN "none" ELSE "deleted"
    ELSE IF StatMatches(entry, f) /\ IsSettled(entry, f) THEN "unchanged"
    ELSE IF entry = None THEN "added"
    ELSE IF entry.digest = f.text THEN "touched" ELSE "modified"

\* What the catalogue holds of the path from then on.
Recorded(entry, f) ==
    IF f.text = 0 THEN None
    ELSE IF Kind(entry, f) = "unchanged" THEN entry ELSE Entry(f)

-------------------------------------------------------------------------------
(* One sync *)

Mine(t, pc) == sync[t].pc = pc
Step(t, s) == sync' = [sync EXCEPT ![t] = s]
Documents == {p \in Name : store[p] # None}

\* enumerate_files, or the paths the caller names; the catalogue is opened before the
\* writer lock is taken.
Begin(t, candidates, discovered) ==
    /\ Mine(t, "idle")
    /\ Step(t, [pc |-> "walked", candidates |-> candidates, discovered |-> discovered])
    /\ UNCHANGED <<dir, store, catalogue, writer>>
SyncDirectory(t) ==
    /\ Begin(t, {}, {p \in Name : Present(p) /\ ~file[p].ignored})
    /\ quiet' = quiet \cup {t}
    /\ UNCHANGED count
SyncPath(t, p) ==
    /\ count.partial < MaxPartial /\ Tick("partial")
    /\ ~file[p].ignored
    /\ Begin(t, {p}, {p} \cap {q \in Name : Present(q)})
    /\ quiet' = quiet \ {t}

OpenCatalogue(t) ==
    /\ Mine(t, "walked")
    /\ Step(t, [pc |-> "opened", candidates |-> sync[t].candidates,
                discovered |-> sync[t].discovered, catalogue |-> catalogue])
    /\ UNCHANGED <<dir, store, catalogue, writer, count, quiet>>

\* write_batched takes the writer lock; the known documents are read under it.
Observed(s) == IF s.candidates = {} THEN s.discovered \cup Documents ELSE s.candidates
TakeLock(t) ==
    /\ Mine(t, "opened") /\ writer = None
    /\ writer' = [holder |-> t]
    /\ Step(t, [pc |-> "observe", observe |-> Observed(sync[t]), todo |-> Observed(sync[t]),
                discovered |-> sync[t].discovered, catalogue |-> sync[t].catalogue,
                known |-> Documents, changed |-> {}, staged |-> {}, removals |-> {}])
    /\ UNCHANGED <<dir, store, catalogue, count, quiet>>

\* observe_paths: stat, and hash what the catalogue does not vouch for.
Observe(t, p) ==
    /\ Mine(t, "observe") /\ p \in sync[t].todo
    /\ LET s == sync[t]
           kind == Kind(s.catalogue[p], file[p])
       IN  Step(t, [s EXCEPT !.todo = @ \ {p},
                             !.catalogue[p] = Recorded(@, file[p]),
                             !.changed = IF kind \in {"added", "modified"} /\ p \in s.discovered
                                         THEN @ \cup {[path |-> p, digest |-> file[p].text]}
                                         ELSE @])
    /\ UNCHANGED <<dir, store, catalogue, writer, count, quiet>>

\* A file that cannot be hashed is Uncertain and its entry stays.
ObserveFails(t, p) ==
    /\ Mine(t, "observe") /\ p \in sync[t].todo /\ Present(p) /\ CanFail
    /\ ~(StatMatches(sync[t].catalogue[p], file[p]) /\ IsSettled(sync[t].catalogue[p], file[p]))
    /\ Tick("faults")
    /\ Step(t, [sync[t] EXCEPT !.todo = @ \ {p}])
    /\ quiet' = quiet \ {t}
    /\ UNCHANGED <<dir, store, catalogue, writer>>

\* The changed files of a chunk are processed when all of it is observed.  A large one
\* is read again: it may be another version by now, or not readable.
SecondRead(r) ==
    IF r.path \notin Large THEN {r.digest}
    ELSE {file[r.path].text} \cup IF "unread" \in Env THEN {0} ELSE {}
InStore(r) == store[r.path] # None /\ store[r.path].hash = r.digest
Process(t, r) ==
    /\ Mine(t, "observe") /\ sync[t].todo = {} /\ r \in sync[t].changed
    /\ LET s == [sync[t] EXCEPT !.changed = @ \ {r}] IN
       IF InStore(r) THEN Step(t, s)
       ELSE \E text \in SecondRead(r) :
              IF text = 0 \/ text \in Binary
              THEN Step(t, [s EXCEPT !.removals = @ \cup ({r.path} \cap s.known)])
              ELSE Step(t, [s EXCEPT !.staged = @ \cup {[path |-> r.path, text |-> text,
                                                         hash |-> r.digest]}])
    /\ UNCHANGED <<dir, store, catalogue, writer, count, quiet>>

\* Everything lands in one generation, and the lock is released.
GoneMutant(s) == s.removals
Gone(s) == s.removals \cup ((s.observe \cap s.known) \ s.discovered)
Published(s) ==
    [p \in Name |->
        IF \E d \in s.staged : d.path = p
        THEN LET d == CHOOSE e \in s.staged : e.path = p IN [text |-> d.text, hash |-> d.hash]
        ELSE IF p \in Gone(s) THEN None ELSE store[p]]
Commit(t) ==
    /\ Mine(t, "observe") /\ sync[t].todo = {} /\ sync[t].changed = {}
    /\ store' = Published(sync[t])
    /\ writer' = None
    /\ Step(t, [pc |-> "committed", catalogue |-> sync[t].catalogue])
    /\ UNCHANGED <<dir, catalogue, count, quiet>>

\* The catalogue is saved after the generation is durable and the lock is free.
Save(t) ==
    /\ Mine(t, "committed")
    /\ catalogue' = sync[t].catalogue
    /\ Step(t, Idle)
    /\ UNCHANGED <<dir, store, writer, count, quiet>>

\* The caller cancels or the write fails, or the catalogue cannot be saved.
AbortMutant(t) ==
    /\ sync[t].pc \in {"observe", "committed"} /\ CanFail /\ Tick("faults")
    /\ Step(t, Idle)
    /\ writer' = IF Mine(t, "observe") THEN None ELSE writer
    /\ quiet' = quiet \ {t}
    /\ catalogue' = sync[t].catalogue
    /\ UNCHANGED <<dir, store>>
Abort(t) ==
    /\ sync[t].pc \in {"observe", "committed"} /\ CanFail /\ Tick("faults")
    /\ Step(t, Idle)
    /\ writer' = IF Mine(t, "observe") THEN None ELSE writer
    /\ quiet' = quiet \ {t}
    /\ UNCHANGED <<dir, store, catalogue>>

\* The process dies and is started again: the store and the catalogue are on disk.
Crash ==
    /\ CanFail /\ Tick("faults")
    /\ \E t \in Thread : sync[t] # Idle
    /\ sync' = [t \in Thread |-> Idle]
    /\ writer' = None
    /\ quiet' = {}
    /\ UNCHANGED <<dir, store, catalogue>>

-------------------------------------------------------------------------------
Directory == \E p \in Name : Edit(p) \/ Delete(p) \/ Ignore(p) \/ Age(p)
Proceed(t) ==
    \/ SyncDirectory(t) \/ OpenCatalogue(t) \/ TakeLock(t) \/ Commit(t) \/ Save(t)
    \/ \E p \in Name : Observe(t, p)
    \/ IF "changed" \in DOMAIN sync[t] THEN \E r \in sync[t].changed : Process(t, r) ELSE FALSE
Disturb ==
    \/ \E t \in Thread, p \in Name : SyncPath(t, p) \/ ObserveFails(t, p)
    \/ \E t \in Thread : Abort(t)
    \/ Crash

NextSync == Directory \/ (\E t \in Thread : Proceed(t)) \/ Disturb
\* The process schedules its threads, and its host syncs the directory again and again.
SpecSync == InitSync /\ [][NextSync]_syncVars /\ \A t \in Thread : WF_syncVars(Proceed(t))

-------------------------------------------------------------------------------
(* Properties *)

SyncTypes ==
    /\ \A p \in Name : catalogue[p] # None => catalogue[p].stamp <= version[p]
    /\ \A t \in Thread : Mine(t, "observe") <=> writer = [holder |-> t]
    /\ \A t \in Thread : Mine(t, "observe") =>
          /\ sync[t].todo \subseteq sync[t].observe
          /\ {r.path : r \in sync[t].changed} \cap {d.path : d \in sync[t].staged} = {}

Mirrors(docs) ==
    \A p \in Name :
        IF Present(p) /\ ~file[p].ignored /\ file[p].text \notin Binary
        THEN docs[p] # None /\ docs[p].text = file[p].text
        ELSE docs[p] = None

\* "Bring the documents under source.label in line with the directory": the generation of
\* a sync that saw neither a change of the directory nor a fault is the directory,
\* whatever other syncs committed, saved, failed or died before and beside it.
SyncedIsMirrored ==
    [][\A t \in Thread : Commit(t) /\ t \in quiet => Mirrors(store')]_syncVars

\* No sync puts back an older text of a file, though syncs overlap and catalogues are
\* saved out of order.
NeverOlder ==
    [][\A p \in Name : store[p] # None /\ store'[p] # None => store[p].text <= store'[p].text]_syncVars

\* "An interrupted sync is simply redone": when the directory has settled, the syncs that
\* follow bring the store in line with it and leave it so.
EventuallyMirrored == <>[]Mirrors(store)
===============================================================================
