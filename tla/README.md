# syntext: TLA+ models and proofs

`st` (crate `syntext`, `src/src/`) is a code search tool.  It keeps an index of
a repository in `.syntext/` (immutable segment files with sparse n-gram
postings, a manifest, a delete set, a path list), answers a search from that
index plus an in-memory overlay of drift, and keeps the index in step with git.
`src/context/` builds a context engine on it: a store of documents and
conversation turns, embeddings, retrieval, and the assembly of prompts, used by
programs through a C interface and Swift classes.

The models are about what is hard to test there: documents and their ids, the
threads and processes that share one index or one store, the order in which
files are replaced and what a crash leaves, how the index follows git, whether
an answer read from grams is the answer of a scan, and whether what a prompt
shows is what the request may see.

Contents

1. The system: components, state, operations
2. How the components interact, and which behaviours are hard
3. The modules, and how they correspond to the code
4. The runs
5. What is proved
6. Where the code and its documentation disagree
7. What is only model-checked, and what is not modelled
8. Plan

## 1. The system

| Component | Code | State | Operations | What makes it correct |
|---|---|---|---|---|
| Overlay index | `index/commit.rs`, `pending.rs`, `overlay/`, `flush.rs`, `delta_apply.rs`, `compact.rs`, `compact_plan.rs`, `helpers.rs` | base segments, delete set, overlay documents with ids, pending edits, flush bookkeeping | `notify_change`, `notify_delete`, `commit_batch`, `flush_overlay`, `maybe_compact`, `compact`, `rebuild`, `open` | one live document per path; an id names one document; a written directory opens; no operation changes content it should not |
| Live handle | `index/mod.rs`, `commit.rs`, `pending.rs`, `update.rs` | `PendingEdits` (mutex), the snapshot (`ArcSwap`), `write.lock` | the same, called by several threads; `install_rebuilt_index` | no edit is dropped |
| Directory locks | `index/helpers.rs`, `open.rs`, `flush.rs`, `update.rs`, `build.rs`, `compact.rs` | `dir.lock` (flock, shared or exclusive), `write.lock` | open, drop, commit, flush, compaction, build | a reader's directory is not replaced under it; a writer opens what it wrote |
| Index files | `index/manifest.rs`, `paths_idx.rs`, `deletes_idx.rs`, `segment/`, `build.rs`, `delta_apply.rs`, `compact.rs`, `open.rs` | segment files, delete-set files, `paths.idx`, `manifest.json` | write, rename, collect, open | after a failure, a death or a loss of power the directory opens, with the content of before or after; a damaged segment is found, and no compaction makes the damage permanent |
| Segment format | `index/segment/`, `posting/` | `.dict` and `.post` of a segment | write, open, look up, verify | what is read is what was written, or an error |
| Freshness | `index/freshness.rs`, `delta.rs`, `update.rs`, `worktree_anchor.rs`, `flush.rs`, `fsmonitor.rs` | `base_commit`, the worktree anchor, the read epoch | `update_from_git`, `rebuild_if_stale`, `search_fresh`, `retain_unflushed`, `build_next` | base_commit is passed over no file; after an update a path is answered from its current content |
| Path index | `path/mod.rs`, `path/filter.rs` | path ↔ file id, tombstones | insert, remove, filters | ids are stable within a handle; a filter finds every live path |
| Tokenizer and gram covering | `tokenizer/`, `query/` | none (pure) | `build_all`, `build_covering`, regex decomposition | every text that contains a literal has the literal's covering grams |
| Posting lists and search | `posting/`, `search/` | a match counter shared by the verifying threads | intersection, union, verification, collection | candidates are a superset of the matches; the answer is that of a scan |
| Command line | `cli/` | a catch-up stamp, a detached `st update` | search, update, manage; retries, stream, output modes | a command ends; rows and exit code are those of the arguments |
| Agent hooks | `hook/core/`, `hook/protocols/` | none | read a shell line, rewrite it, answer in a protocol | a rewritten line asks what the agent's line asked |
| C interface | `ffi/`, `context/src/ffi/` | objects behind handles, callbacks, a chat index | make, borrow and free handles | a handle resolves, a callback is valid, nothing leaks, one writer |
| Swift bindings | `swift/`, `swift/Sources/SyntextContext/` | what a class keeps alive | wrappers of the C interface | release in the right order |
| Context store | `context/src/store/`, `memory.rs` | journal, generations, segments, dead keys | append, flush, compact, forget, recover, reload | an acknowledged turn survives; a forgotten one does not come back |
| Changes and sync | `changes/`, `context/src/compile/sync.rs`, `directory.rs` | catalogue of fingerprints, cursor | `sync_directory`, `sync_paths` | the store ends up in line with the directory |
| Embeddings | `context/src/embed/` | sidecar tables, a vector cache | run, carry over a compaction, prune, query | a vector belongs to the text of its passage |
| Retrieval, packing, assembly | `context/src/retrieve/`, `pack/`, `graph/`, `memory.rs`, `engine/` | none beyond the store and the live tree | retrieve, rank, pack, assemble | nothing unseen, one version of a file, no turn twice, nothing forgotten |
| Snapshot caches, git output codec, symbols | `index/snapshot.rs`, `porcelain.rs`, `worktree_codec.rs`, `symbol/` | caches, an SQLite database | – | not modelled, see 7 |

## 2. Interactions and hard behaviours

* **One index, several threads.**  A long-lived embedder (the C and Swift
  interfaces, the context engine) shares one `Index`.  Watcher threads append to
  `PendingEdits`; any thread may call `commit_batch`, which drains the buffer,
  reads the changed files, makes a new overlay and stores a new snapshot.  A
  flush or a compaction first commits, then writes the snapshot, opens the
  written directory and installs it.  `write.lock` is held by a commit and by a
  durable write, not by an installation.
* **One directory, several processes.**  Each open handle holds `dir.lock`
  shared; writers take it exclusive.  A flock is not promoted in place: a flush
  lets its shared lock go and then tries the exclusive one, and lets that go
  before it takes shared again to open what it wrote.  Locks are tried, never
  waited for; the command line retries a bounded number of times and leaves what
  is behind to a detached `st update`, throttled by a stamp.
* **One directory, several files.**  `manifest.json` is replaced by a rename and
  names segment and delete-set files, whose names are fresh.  `paths.idx` has
  one fixed name and is paired with the manifest by a version number.  Segments
  are not synced before the manifest is.
* **Ids.**  A document id is assigned by a commit, kept across later commits,
  becomes the id of a document on disk at a flush and is reassigned at a
  compaction.  The delete set is a set of ids.  That the two stay in step over
  any sequence of calls is what `OverlayIndex` is about.
* **Git.**  Drift is asked of `git status`; the base of the index is a commit id
  recorded when files were read.  Files and HEAD move while they are read.
* **One store, one writer, any reader.**  Turns are appended under the memory
  lock, segments are written under the segment lock, and a flush moves turns
  from the one to the other; the published snapshot has a half for each.  A
  crash may fall between staging, the manifest's rename, the journal's rotation
  and the collection of files.
* **Work without a lock.**  Embedding runs, directory syncs, retrieval and
  assembly read a snapshot, work on it without a lock, and publish or answer
  while others write, compact, forget and die.
* **Handles.**  A host frees pointers in any order while engines, calls and
  callbacks still refer to what is behind them; calls fail or panic midway.

`PROJECT.json` lists the hazards one by one, at their lines, with the properties
that cover each.

## 3. The modules

```
the index                                   the context engine
---------                                   ------------------
IndexMap      what a handle promises        ContextBook    what a store promises
   ^ refines                                   ^ refines
OverlayIndex  documents, ids, segments      ContextStore   journal, segments, reader
   + CorpusProofs                              + ContextStoreProofs

LiveHandle    threads of one process        SourceSync     a store and a directory
   + SharedHandlesProofs                       + CorpusProofs
                                            EmbedJob       vectors and their sidecars
                                               + EmbedJobProofs
                                            Evidence       packing into a budget
DirLocks      processes on one directory       ^ EXTENDS         ^ EXTENDS
   ^ EXTENDS, and implements                Retrieve             Assemble
CliLocks      commands, retries, catch-up     five sources,       conversation memory
   + CliLocksProofs                           one ranking         and the prompt
                                               + AnswerProofs      + AnswerProofs

SegmentFile   cells of a segment            HostApi        handles of a host program
   ^ EXTENDS                                   + SharedHandlesProofs
IndexFiles    order of file operations
   + IndexFilesProofs

Freshness     the working tree and git
   + FreshnessProofs

Tokenizer (+ CorpusProofs), Paths
   ^ EXTENDS
Search        one search, its threads
   ^ EXTENDS
CliSearch     a command line and its rows
   ^ EXTENDS
AgentHooks    a shell line and its rewrite
```

The MC modules instantiate these for TLC: `MCOverlayIndex`, `MCIndexFiles`,
`MCFreshness`, `MCCliLocks`, `MCContextStore`, `MCSourceSync`, `MCEmbedJob`,
`MCAssemble`, `MCSharedHandles` (`LiveHandle` beside `HostApi`), `MCSearch`
(`Search`, `CliSearch` and `AgentHooks` in one instance) and `MCRetrieve`
(`Retrieve` with `Evidence`).  Operators whose names end in `Mutant` are
variants of a definition with a plausible bug in it; no specification uses them.

The components are cut where the code itself serialises: `OverlayIndex` takes
the durable write as one step because `write.lock` and `dir.lock` make it one,
`LiveHandle` shows what `write.lock` does not cover, `DirLocks` what `dir.lock`
does not cover, and `IndexFiles` takes the durable write apart.  `Freshness`
takes all of these for granted and asks what the content is compared with the
files and commits it came from.  On the other side `ContextStore` gives readers
one snapshot, which `Retrieve` and `Assemble` take for granted.

### IndexMap

The abstract specification.  The working tree maps paths to content; edits are
buffered per path; a search sees the map `visible`, a later process the map
`durable`.  `Commit` applies the buffer to `visible`, `Persist` copies `visible`
to `durable`, `Rebuild` takes both from the tree, `Reopen` takes `visible` from
`durable`.  Nothing in it knows of documents.

### OverlayIndex

| TLA+ | Code |
|---|---|
| `manifest.segs`, `manifest.deletes` | `Manifest::segments` and the file of `deletes_file` |
| `snap.segs`, `snap.deletes` | `BaseSegments` and the delete set of an `IndexSnapshot` |
| `snap.docs`, `snap.next`, `snap.limit` | `OverlayView`: its documents, `next_doc_id`, the base limit its ids were assigned above |
| `edits` | `PendingEdits`, as `take_for_commit` folds it: the last edit of a path wins |
| `book` | `FlushBookkeeping::non_doc_paths` |
| `job` | where the thread that runs `flush_overlay`, `maybe_compact` or `compact` is |
| `CommitBatch` | `commit_batch`: `Removed`, `OverlayFull` (the overlay limit), `build_incremental` (`StableIds`, `CarriedDocs`, `NextIdAfter`), `compute_delete_set` (`DeletesAfter`) |
| `FlushWrite`, `Install` | `run_durable_flush`, `flush_overlay_durable`, `install_rebuilt_index` |
| `PlanFires`, `PlannedSuffix`, `Rewritten`, `Written` | `compaction_plan`, `forced_plan`, `compact_index` and its batches |
| `Rebuild` | `rebuild` and `build_index` |
| `CanOpen` | the segment checks of `open_inner` |

A document's `data` stands for the content whose grams its postings hold.  The
environment changes any file to any content, to nothing, or to something that
cannot be indexed, at any time; client threads notify and commit at any time;
the maintenance thread's calls are split where the code lets `write.lock` go,
so that a client's commit may fall between the commit a flush begins with and
its write.

The order in which the paths of a batch get their ids, and where a writer ends
one segment and begins the next, depend on hash order, the thread pool and
sizes in bytes: any order and any cut may happen.

### LiveHandle

The same operations at the grain of the shared variables.  `commit_batch` is
`CommitCall`, `Lock` (try), `Load` the snapshot, `Take` the buffer, `Read` the
files (or fail), `Store` or `Requeue`.  A flush or compaction is `FlushCall`,
the commit it begins with, `Capture` under `write.lock`, `Write`, and then,
without the lock, `InstallTake`, `Swap`, `Renotify`.  Documents are left out: a
snapshot is a map and the generation of the directory it was opened from.
`dirty` is a history variable: paths changed on disk that no watcher has
reported yet, about which nothing is promised.  `use` says how a program uses
its handle: which threads commit, which maintain, which edits are reported.

### DirLocks and CliLocks

`DirLocks` is about processes, `dir.lock` shared on a handle's own descriptor
(`"own"`) or on that of a newly opened directory (`"new"`), `dir.lock`
exclusive, `write.lock`.  A flush is `FlushBegin`, `FlushUnlock`,
`FlushExclusive`, `FlushWrite`, `Release`, `Downgrade`, `OpenWritten`,
`Install`; a build enters the same sequence by `BuildBegin`, `BuildExclusive`,
`BuildLock`, `Build`.  Every step may fail where the code returns an error, and
a process may exit or die anywhere.  The directory is a generation and a number
of segments; the number stands for the counts that `flush_overlay_durable` and
the bases that `compact_index` compare.

`CliLocks` puts `st` on it.  `cli[p]` is the command of a process and where it
is: a search opens (`OpenIndex`), retries a locked directory (`OpenConflict`,
`open_retry.rs`), commits a bounded update in memory (`BoundedCommit`), leaves
more than that to a detached update (`SearchBehind`, `CheckStamp`, `Spawn`), and
answers; an update commits and flushes or rebuilds.  Each of these moves the
command and takes the step of `DirLocks` that its process takes, so that
`CliSpec => Spec` is a theorem.  Processes that are not commands take any step
of `DirLocks` and may stop for ever inside one.

### SegmentFile and IndexFiles

`SegmentFile` is the v3 format as cells: document table, dictionary of grams,
posting lists as varints or bitmaps, both checksums, the checks of a structural
and of a full open, lookups, and the pages a loss of power leaves of a file that
was not synced.

In `IndexFiles`, `BuildBegin`, `FlushBegin` and `CompactBegin` set up what a
writer is going to write (`op`), and one action per file operation follows, in
the order of that writer's code: segments, delete set, `paths.idx`, manifest and
collection for a flush; segments, manifest, collection and `paths.idx` for a
build and a compaction.  `Fail` ends a writer with an error, `Restart` with the
process; `Adopt` opens and installs; `PowerLoss` ends the process and leaves of
one segment what `SegmentFile` says may be left (`disk`).

### Freshness

| TLA+ | Code |
|---|---|
| `work`, `now` | the files, and the clock their mtimes come from |
| `log`, `head` | the commits and git's HEAD |
| `durable.base`, `durable.anchor` | `Manifest::base_commit` and the file of `worktree_anchor_file` |
| `book` | `FlushBookkeeping`: the earliest read epoch since the last flush, the paths that made no document |
| `Drift` | `git status` |
| `Stale`, `Check`, `Diff`, `RecordHead`, `FlushDelta` | `rebuild_if_stale`, `try_committed_delta`, `apply_committed_delta_update` |
| `BuildRead`, `BuildHead` | the full rebuild: the tree first, then HEAD |
| `Detect`, `Notified`, `Stamp`, `CommitBatch` | `update_from_git`, `apply_changed_paths`, the read epoch, the commit |
| `Unflushed`, `Settled`, `NextAnchor` | `retain_unflushed`, `is_settled`, `build_next` |
| `Update`, `SearchFresh`, `FlushCall`, `CompactCall` | `st update` (`try_update_once`), `search_fresh`, `flush_overlay`, `compact` |

The environment edits and removes files, restores them, commits some of the
drift, moves HEAD over clean files as git does, and lets time pass, between any
two steps.  An update is one `op` that goes through the steps of
`try_update_once`; it may fail wherever the code returns an error, and the
process may exit anywhere.

A timestamp is a tick of `now`.  A tick stands for more than `RACY_MARGIN` and
for the resolution of the file system: two writes in one tick have one mtime,
and a stat of an earlier tick than the read is settled.

`ahead` and `touched` are history.  `ahead` holds the paths of a view that were
read from the working tree with content that base_commit, or HEAD at that
moment, does not have; it separates "read ahead of the commit" from "never
read".  `touched` holds the files written since the last detection began: no
detection can be asked for those.  Three constants restrict the environment, so
that one cause can be told from another: `HeadMoves` lets HEAD move while an
update runs, `Slow` lets a tick pass between notification and read, `Drains`
lets a flush fail after it took the bookkeeping.

### Tokenizer, Paths, Search

`Tokenizer` cuts a text as `tokenizer/` does (delimiters, rare bigrams of the
lowercased text, camel case), and says which grams are stored of a text
(`build_all`) and which a query may demand of a literal or of a fragment of a
regex (`build_covering` and its inner form).  The weight table is the constant
`Rare`, the set of bigrams at or above the boundary threshold.  `Paths` is the
path index with its stable ids and tombstones, the filter by path, type and
glob, and the scope of a command line.

`Search` is one search on a snapshot: `Plan` takes the pattern to the gram index
or to a scan, `Resolved` and `Report` are the verifying threads that share a
match counter, `Collect` sorts and cuts.  A document is in the base, in the
overlay with or without a base version below it, or deleted, and may be
unreadable by the time it is verified.  A regex is its HIR, and `Words` is the
set of what it matches; decomposition (`Walk`, `ExactVariants`), simplification,
word and line bounds and the line arithmetic of the verifier are those of the
code.  `Scan`, which reads every line, is the reference.

### CliSearch and AgentHooks

`CliSearch` is `st PATTERN [PATH]...`: `Check` the arguments, `ReadStream`,
`OpenForSearch`, one search per path argument (`Ask`, `Merged`), `PostFilter`,
the stream's rows spliced in, and the rows and exit code of each output mode;
`Fallback` scans without an index, `ListFiles` and `Invert` are `--files` and
`-v`.  What should be shown is defined apart from this, from the arguments and
the texts alone (`Inputs`, `Chosen`, `Expected`).

`AgentHooks` reads a shell line as `hook/core/shell.rs` does, rewrites `rg` and
`grep` commands option by option (`RewriteRg`, `RewriteGrep`) or leaves the line
alone, answers in the protocol of each agent (`Shells`, `Verdict`), and lets the
agent run the line it was given; `st` then reads its own arguments again and
runs as in `CliSearch`.

### ContextBook and ContextStore

`ContextBook` is a set of turns and a map of documents, changed by one turn
operation and one write at a time, each in one step or not at all.

| TLA+ | Code |
|---|---|
| `bytes`, `present` | the segment files: what each says for ever, and which are in the directory |
| `manifest` | `manifest.json`: the listed segments with the dead keys of each, its generation, and `through`, the last turn flushed into segments |
| `journal` | the records of `journal.log` |
| `writer`, `shown` | `Writer`: its manifest, live turns, journal handle; the live half of the published snapshot |
| `mem` | who holds the memory lock and where: `AppendBegin`, `AppendDone`, `AppendPublish`, `ForgetJournaled`, `ForgetCompacted`, `Rotate` |
| `seg` | the write under the segment lock: `StageFlush`, `Apply`, `Compact`, then `Commit`, `Collect`, `FlushMemory` |
| `reader` | a process that opened the store read-only: `ReadManifest`, `ReadJournal`, `OpenSegments` |
| `Recoverable` | what a process opening the directory would find: the listed documents that are not dead, and the journaled turns past `through` |

A segment is a set of documents, and a staged write is any cut of its documents
into files; the store's content does not depend on where a cut falls.  A document
or a turn may be one that `compile_all` rejects (`Readable`, `Skipped`): a write
removes such a document, and such a turn is journaled and acknowledged like any
other, is in no live segment, and goes at the next flush (`TurnDoc`).  `Faults`
says where an operation may fail: before its rename (`"write"`), or after it
(`"sync"`, see 6).  `Crash` ends the writer between any two steps; `Open`
recovers as `Store::open` does.  `acked` is history: turns `append_turn`
returned for and nobody forgot.

### SourceSync, EmbedJob

`SourceSync`: threads that run `sync_directory` or `sync_paths` read the change
catalogue before the writer lock (`OpenCatalogue`), observe files and hash them,
take the lock, read a second time what they keep, commit and save the catalogue
after.  Files change between any two steps; `Env` names the changes beyond
edits, deletions and new ignore rules.  `quiet` is history: the threads whose sync
of the whole directory has seen neither a change nor a fault.

`EmbedJob`: a run takes a snapshot, loads the tables (`Load`), embeds unique
texts in batches (`EmbedBatch`), writes a sidecar per segment (`WriteSidecar`),
inserts into the cache (`Insert`) and prunes; a compaction of all segments or of
any set of them, the small ones, collects the vectors of those it drops
(`CompactCollect`), replaces them by one segment (`CompactCommit`) and writes
tables for that one (`CompactCarry`); a query loads tables for its snapshot.
Some texts get no vector (`Mute`).  Sidecars rot, writes fail, processes die.
`covered` and `mixed` are history: the passages that runs of a model reported
covered, led through compactions (`Moves`), and the models whose files and loaded
tables may have come apart.

### Evidence, Retrieve, Assemble

`Evidence` packs ranked passages into a budget: `Merge`, `Fill` with
`Condense`, `Widen`, `Trim`, pass after pass.  Tokens are lines; the tokenizer
may be `drift` away from additive.  `Retrieve` produces the ranking: `Lexical`
candidates, `Hop` by hop through the entity graph, `SearchIdentifier` in the
live files, which are edited meanwhile, `Nearest` vectors, then `Lift` of chains
and `Rank`.  Scores are integers.  `Assemble` is the prompt: `Measure` and
`FitHistory`, `RetrieveEvidence` without the turns that are repeated verbatim, packing,
`Shrink` and `DropTurn` until it fits or `Exceed`, while writers record, forget
and resume a conversation.

### HostApi

A host's threads call functions of the C interface.  `heap` is what is behind
the pointers the host has, `objs` the counted objects (stores, embedders,
counters, indexes), `locks` those with a lock on their directory.  A function is
a program of steps (`Clone`, `Make`, `Return`), each of which may fail or panic
(`Fail`), whereupon what the call made is dropped; `Free` and `Retire` are the
host's.  The host keeps the header's contract and nothing more: nothing is freed
while a call uses it, userdata outlives the handles made with it (which the
Swift classes see to).  `chat` is the chat index, edited under a read-write lock
and published by a swap.

## 4. The runs

A passing run explores the whole state space of its instance.  Deadlock is
checked in those where nothing may stop (`overlay_docs`, `fresh_update`,
`shared_handles`, `sync_mirror`, `embed_job`); the others stop where a command,
a search or an assembly has ended or a bound leaves nothing to do.

| Run | Question | Instance | Outcome |
|---|---|---|---|
| `overlay_docs` | Do ids, deletes and documents stay in step, and implement `IndexMap`, over any sequence of operations? | 2 paths, 1 content, at most 1 segment before compaction is due, ids 0–3 | holds |
| `overlay_gap` | Can a flush write a directory that does not open? | the same | it can |
| `files_crash` | After a failure, a death or a loss of power at any file operation, what does the directory hold? | 2 paths, all three writers, 3 file names, pages of 8 cells, one segment damaged at a time | holds |
| `fresh_update` | Over edits, commits, checkouts, failures and restarts, is base_commit applied and an update fresh? | 2 paths, 2 contents, 5 moves of the environment, 3 commits, all three restrictions | holds, up to undone drift |
| `shared_handles` | Do threads that share an index lose an edit? Do threads that share handles through the C interface use, leak or lock what they should not? | 1 path, 2 contents, 2 threads; 2 callers, 6 kinds of host program | holds |
| `cli_locks` | Does every command end, and does a writer open what it wrote, whatever other processes do? | 2 `st` processes and an embedder, 2 changes, 1 retry, 1 command of the user | holds |
| `store_turns` | Does the store implement the book, with an acknowledged turn that compiles kept and a forgotten one gone? | 2 conversations, 2 turns that compile or do not, 1 key, 2 writes or compactions, 1 crash, failure or load by the reader | holds |
| `sync_mirror` | Does a sync mirror the directory, and does the store end up in line with it? | 2 threads, 1 path, 3 versions, one of them binary, 1 new ignore rule, 1 sync of the path, 1 fault | holds |
| `search_answer` | Is an answer from grams the answer of a scan, are rows and exit code those of the arguments, and does a rewritten line mean what it meant? | some hundred sessions over indexes of up to 2 documents | holds |
| `embed_job` | Is a vector that of its text, is the text of a covered passage not embedded again, is every passage covered in the end that is not starved? | 1 run, 1 model, 2 documents, 2 texts and one without a vector that comes before one of them, 1 passage a run, 2 writes, 1 compaction of any segments, 1 fault | holds, but for what compactions leave behind and starved texts |
| `context_evidence` | Does retrieved and packed evidence keep to what the request may see, one version of a file, and chains in order? | 10 documents, 5 sources, 1 edit of a file meanwhile, 4 budgets | holds |
| `context_answer` | Does a prompt repeat a turn, bring back a forgotten one, or shrink for ever? | 2 turns, 3 windows, 1 forgetting, 1 fault, 2 writers | holds |

What the properties say:

* `OneLiveDocPerPath` and `IdsResolve` relate overlay, segments and delete set;
  each takes a commit and a flush or compaction to break.  `RewritesOpen` and
  `FlushOpens` are action properties: what a rewrite, and a flush, may write.
  `ImplementsMap` is the refinement: a path a compaction resurrects, a document
  a flush forgets, or an eviction that a commit leaves out shows here.
* `ManifestFilesExist` and `OnlyManifestPublishes` are about a directory at any
  moment of a write.  `VerifyFindsLoss`: what a loss of power took of a segment
  fails a full verification, unless a compaction resealed it.
  `LossIsNotCompacted`: a compaction publishes every live document its segments
  were given, or stops.
* `BaseIsApplied` relates the directory to the history of commits at every
  moment, after failed deltas, rebuilds, checkouts and compactions.
  `DriftIsFresh` and `CleanIsFresh` are what a search or an update has achieved
  when it returns, for uncommitted and for committed files that nobody wrote
  since it listed them.  `CleanIsFresh` leaves out the paths that are ahead of
  base_commit (see undone drift in 6).
* `NoEditDropped` follows an edit from the watcher to the snapshot, through the
  failure paths.  `HandlesResolve`, `CallbacksAreValid`, `NothingLeaks`,
  `OneWriter` and `CommittedIsFound` are about any order of calls and frees.
* `WrittenIsOpened` says that the gap between exclusive and shared is covered,
  by `write.lock`.  `CommandsEnd` is what "a genuine long writer still surfaces
  the same loud error" promises: a command ends though another process holds a
  lock for ever.
* `AckedIsRecoverable`, `ForgottenStaysGone` and `ImplementsBook` compare the
  writer's memory, two files that are replaced one after the other, and what
  callers were told.
* `SyncedIsMirrored` is about a sync that saw neither a change nor a fault,
  whatever syncs committed, saved or died before and beside it.
  `EventuallyMirrored` is about the others.
* `SearchIsScan` and `LimitIsFilled` compare `Search` with `Scan`;
  `AnswerIsReference`, `CapIsFilled` and `CodeTellsAnswer` compare the rows and
  the exit code of a command with what its arguments ask of the inputs;
  `RewriteKeepsMeaning` compares the `st` an agent runs with the `rg` or `grep`
  it wrote.
* `VectorOfItsText` and `EmbeddedOnce` follow a text across runs, crashes and
  compactions, as long as its segment is listed or a compaction has rewritten a
  passage with the text; `EventuallyCovered` is "the next run continues", for
  passages that are not starved by texts without a vector (`Reached`).
* `CondensedShowsWhy`, `NothingUnseen`, `OneVersion` and `ChainsFollow` relate a
  packet to the request and to what the tree held; `TurnsOnce` and
  `ForgottenStaysOut` relate a prompt to the conversation; `AssembleEnds` is
  termination of the shrinking.

### Bounds, and why they are enough

* Two paths in the index modules: one that is edited and one that must not be
  disturbed, or two whose ids compete.  A gap in ids needs two documents.  One
  content suffices in `overlay_docs`, since operations do not look into content;
  content, absence and an unindexable file are all there.  `MaxDocId = 3` lets a
  base of two documents take two overlay ids, with the renumbering after the
  base grew and the overflow of the next one.  `MaxSegments = 1` makes the
  segment limit bite at the second segment.  `EnforcePercent = 100` and
  `CompactPercent = 10` make both sides of the two thresholds reachable with two
  documents (the code has 50 and 10).
* `MaxPending`, `MaxGen`, `MaxName`, `MaxSegs` cap buffers and counters; each is
  large enough for two durable writes in a row, the second of which starts from
  the first's result.
* `files_crash`: pages of 8 cells cut a `.dict` and a `.post` of one or two
  documents at several places, so that header, records, lists and checksums can
  be lost apart; `Threshold = 2` has a posting list in each of its two forms.
  While a segment is damaged no other failure happens.
* `fresh_update`: five moves allow an edit, a tick, a commit or checkout and two
  more edits around an update; three commits are a base, its successor and a
  fork.  Both contents have one size, so that a stat tells them apart by mtime.
* `store_turns`: with `FlushTurns = 2` the second turn makes the flush, and one
  turn is forgotten before or after it; one crash, failure or load may fall
  between any two steps.  A third turn or a second event takes more than the
  five minutes a run should take; the theorems of 5 have no such bound.  Each
  turn compiles or does not, so that a flush moves both, one or none.
* `sync_mirror`: the hazards are between two syncs of one path.  The file is
  large, so its bytes are read a second time.
* `search_answer`: alphabets have a delimiter, a rare bigram, a capital and a
  letter of several bytes in both cases, which the verifier folds (`UnicodeLower`)
  and the grams do not (`AsciiLower`); texts and patterns are those where covering,
  folding, word bounds or line arithmetic could go wrong.
* `embed_job`: with `MaxPassages = 1` a run embeds one text, `PlainRank` has the text
  without a vector behind one and before another, so that it starves the one or
  not according to what is there; two writes make two segments, of which a
  compaction takes one or both.
* Symmetry is over paths, contents, callers and conversations which no
  definition tells apart, and only in runs without liveness.

### Fairness

Four specifications assume fairness, each weak and no more than the code gives:

* `CliSpec`: `WF(Step(p))` for each `st` process.  Every lock is tried, never
  waited for, and retries are bounded, so a command that runs has always a step
  to take.  Other processes have no fairness: they may hold a lock for ever.
* `SourceSync`: `WF(Proceed(t))`.  A thread runs to completion once it has the
  lock, the lock is released on every path, and the host syncs its directory
  again and again; that is what the host of "an interrupted sync is simply
  redone" does.  Nothing is assumed of changes, faults and crashes.
* `EmbedJob`: `WF(Compact)` and `WF(Proceed(r))`.  Both run to completion without
  waiting for a lock, and the host embeds again ("the next run continues").
* `Assemble`: `WF(Assembler)`.  An assembly is one thread that waits for nobody.

## 5. What is proved

A theorem holds for every value of the constants that the named assumptions
allow: any number of processes, callers, conversations or paths, any limits, any
behaviour however long.  The proofs are checked by TLAPS to the last leaf;
`PROJECT.json` lists the results.

### Documents and ids (`CorpusProofs`)

For any finite set of paths, any contents and any limits with
`Cardinality(Path) <= MaxDocId` and `MaxSegments > 0` (`ContentAssumption`,
`PathAssumption`, `LimitAssumption`):

* `Invariant` (`Spec => []IInv`), and from it `TypeCorrect`, `OneLiveDoc`,
  `IdsUnambiguous`, `DeletesNameDocs` and the action property
  `RewrittenDirectoryOpens`;
* `Refinement`: `Spec => ImplementsMap`.

`TypeOK` is more than types: every id that a commit, a flush or a compaction
computes stays below the limit of the postings.  The properties alone are not
inductive: that ids above the base are free depends on the layout of segments,
and that a flush may extend the manifest depends on how the manifest relates to
the snapshot.  `IInv` adds

* `Laid(snap.segs)`: every segment fills the ids from its base without a gap and
  segments do not overlap, so that `BaseLimit` separates base from overlay;
* `OverlayAbove`: overlay ids are distinct, at or above that limit and below
  `next`, and `next` is past the limit when the ids were assigned above it;
* `Linked`: the manifest has the snapshot's segments and is good, or it is
  `Broken` — it cannot be opened and is the snapshot's segments with one more.

`Broken` is there because a flush with gapped ids really writes such a directory
(run `overlay_gap`) and the handle goes on with its old snapshot.  The invariant
says how far the damage reaches: the next flush is refused by the guard that
compares counts, a compaction by the one that compares bases, no process can
open the directory, and a rebuild mends it.  That is why the safety properties
hold nevertheless, and why the refinement maps such a flush to `Persist`.

The step lemmas have one case per action of `Next`; the work is in the commit
(carried and new documents share no id, and renumbered ones keep their order),
in the flush and in the rewrite (prefix, then renumbered batches), and the
lemmas about `BaseLimit`, `Rank` and batches come first in the module.

### Threads of one handle (`SharedHandlesProofs`)

For any threads, paths, contents and bounds (`UseAssumption`, `AbsentAssumption`,
`BoundAssumption`, `NobodyAssumption`):

* `LocksAreHeld` (`Spec => []TypeOK`), whatever the uses;
* `EditsKept` (`NoEditDropped`) and `CommittedIsVisible` (`NotifiedIsVisible`), when
  every use is `Separate`: any number of threads commit, or one thread flushes,
  compacts and rebuilds while its watchers report changes.  The restriction is
  needed: with a commit beside a maintainer, or deletions that are notified again
  after a swap, both properties are false (see 6).

`NoEditDropped` is not inductive.  `EditsInv` adds that a commit works on the snapshot
that searches load (`Fresh`: nobody can store between its load and its store),
that a thread holds edits only between draining and letting go (`Emptied`), that a
deletion which no later edit follows, in the buffer or in a batch, is of a file
that is still gone (`Erased`: a batch that applies an older deletion would evict a
file that came back), and that a map about to be stored or installed is as new as
the tree but for edits that are still buffered or in hand (`Coming`).  `InItsHand`
says that while a thread holds `write.lock` nobody else has an edit.  The lemmas
about sequences say what `take_for_commit` and `requeue_uncommitted` keep: the last
edit of every path (`LastKindLemma`, `LastPerPathLemma`), in the order of two
batches (`InARow`).

### Grams (`CorpusProofs`)

`RequiredIsStored`: for every alphabet, weight table and gram length
(`TokenAssumption`), each gram that a literal query demands is stored of every
text that contains the literal in any ASCII case.  `InnerIsStored` says the same
of a fragment of a regex.  So an index lookup never loses a document that a scan
would find in it.  The argument is that a cut depends on two neighbouring
characters: a span between two cuts inside a literal is a span of every text
around it, camel-case cuts refine it on both sides, and lowering case moves none
of the cuts that a query relies on.

### Sources (`CorpusProofs`)

For any threads, paths, large paths, binary versions and bounds, without what `Env`
names (`Env = {}`, each member of which refutes the property, see 6):

* `QuietSyncsMirror`, `SpecSync => SyncedIsMirrored`, and `TextsGrow`,
  `SpecSync => NeverOlder`, from `SyncInvariant`.

A catalogue is read before the writer lock is taken and saved after it is let go, so
it may be older or newer than the store by any number of commits, and yet a sync
takes its word for every file whose stat it matches.  `SyncInv` says why it may: an
entry that has the mtime of a file that is there vouches for the store (`Vouches`),
in the catalogue on disk as in those that threads have read or are going to save.
That survives the commit of another sync because everything the holder of the lock
has read is at least as new as any entry that anyone recorded before (`Before`), and
because a file that shows now has shown since the walk of every sync that runs
(`WalkInv`).  While a sync is at work its new entries vouch for what its commit is
going to leave (`InHand`): each path is still to be observed, changed, staged, to be
removed or right as it is, and in one of these stages only (`StageInv`).
`QuietInv` adds that an undisturbed sync has an entry of every file.

### Files (`IndexFilesProofs`)

For any paths, trees, file names and cuts into segments (`BoundAssumption`,
`PathAssumption`, `TreesAssumption`, `KindAssumption`):

* `TypeCorrect`; `DirectoryOpens` (`ManifestFilesExist`) and `OnlySavedIsFound`
  (`OnlyManifestPublishes`), from `FilesInv`: besides the manifest's files, those
  of the manifest that a writer prepares (`op.next`) are there from the moment
  it names them to the rename, because names are fresh and nothing is collected
  in between;
* `CompactionKeepsDocs` (`LossIsNotCompacted`), from `LossInv`: a snapshot has
  every document that can still be read from its segments (`DocsMapped`), and
  all that a compaction's snapshot was given is in the segments it keeps or has
  written, or still to be written (`CompactionCovers`).

### Following git (`FreshnessProofs`)

For any paths, contents and bounds (`AbsentAssumption`, `BoundAssumption`,
`SwitchAssumption`):

* `TypeCorrect`, with the steps at which a batch or a rebuild may be (`Places`);
* `BaseStaysApplied` (`BaseIsApplied`), when HEAD moves only between updates.
  `BaseInv` says that the directory and what is visible agree with base_commit on
  every path that was not read ahead of it, and that while a delta is applied, and
  until it is flushed, all paths on which base_commit and HEAD differ are among
  those being read;
* `DriftStaysFresh` and `CleanStaysFresh` (`DriftIsFresh`, `CleanIsFresh`), when
  besides no tick passes between a notification and its read and a failed flush
  keeps the bookkeeping it took.  Each restriction is needed: section 6 says what
  happens without it.

`FreshInv` is `BaseInv` and four more parts.  `Anchored`: no stamp and no epoch is
of a later tick than the clock; a file whose stat is the anchor's has the content
that the flushed view answers; what the overlay has read, and what a notification
removed, is current unless it was written since the epoch (`BookIsTrue`).  `AtHead`:
after its detection an update's base_commit is HEAD.  `Kinds`: which calls reach
which steps.  `Achieved`: what each step leaves for the next one, path by path;
between detection and answer a drifted path is either answered already or among
the pending ones.  TLC checked all of it as an invariant of the instance of
`fresh_update` (4,647,238 states).

### Locks and commands (`CliLocksProofs`)

For any processes, any of which are commands (`BoundAssumption`,
`NobodyAssumption`, `CliAssumption`):

* `TypeCorrect`: `dir.lock` is exclusive for exactly the process inside it, with
  no reader beside it; `NothingBetweenWriteAndOpen`, `Spec => []WrittenIsOpened`.
  `IInv` says which locks each value of `pc` implies.
* `CliImplementsLocks`, `CliSpec => Spec`: every step of a search, an update or a
  detached catch-up is a step of its process in `DirLocks`, or none; hence
  `CliOpensWhatItWrote`.
* `WaitingHoldsNothing`, `CliSpec => []IdleHoldsNothing`: a command that has
  ended, and one that waits to open the index again, holds no lock.  `CliInv`
  relates where a command is to where its process is.

### Handles (`SharedHandlesProofs`)

For every host, any finite number of threads and any sequence of calls, failures
and frees (`HostAssumption`): `HostInvariant` (`HostSpec => []HostIInv`), and from it
`HandlesAlwaysResolve`, `CallbacksStayValid`, `NothingIsLeaked`,
`AlwaysOneWriter`, `CommittedStaysFound`.  `HostIInv` is `HandleInv` and `ChatInv`.
The first counts: an object's `strong` is the number of handles and of running
calls that refer to it; whoever can reach an object that calls back was made
with its userdata, which is not released; what is left of a call's program
clones only from its arguments, and each object once; a writer has the lock of
its store.  The second says that a commit is a reader from reading the documents
to its unlocking, so that what it read is still all there is when it publishes,
and that promised, shown and edited are in this order for every document.

### The context store (`ContextStoreProofs`)

For any conversations, keys, texts, limits, any cut of documents into segments,
any number of turns, writes, compactions, failures and crashes
(`StoreAssumption`), and under the hypothesis `"sync" \notin Faults` — a failing
operation fails before its rename; what happens otherwise is in 6:

* `StoreInvariant` (`Spec => []IInv`), `TypeCorrect`;
* `AckedStaysRecoverable`: a turn that compiles and that `append_turn` returned for is
  found by any later open;
* `ForgottenNeverReturns`: a conversation reported forgotten is shown by no
  snapshot and found by no restart, nor in the journal;
* `StoreImplementsBook`: `Spec => ImplementsBook`, the refinement of
  `ContextBook`, whose turns are those that compile.

`IInv` is a conjunction of parts by what they are about:

* `FilesInv`, `ManifestInv`: a file never holds a key twice; listed files are
  present; no key is alive in two listed files; flushed turns lie behind
  `through`;
* `JournalInv`, `MemInv`: sequence numbers of pending turns are distinct and
  below the writer's next; its live turns are those a replay would give; the
  turn an operation has journaled is found; a conversation being forgotten has
  no turn left in the journal;
* `SegInv`: a staged write holds what its commit takes from elsewhere (`Staged`)
  — a flush the pending turns that compile, up to the new `through`, which all the
  pending ones are behind; a compaction what the
  files it drops show; a forgetting the keys of all the conversation's flushed
  turns — and a committed one has left nothing behind (`Settled`);
* `HistInv`: acknowledged turns that compile are found, forgotten conversations have
  no turn, pending or held;
* `ReaderInv`: types.

The content of the store is `Held`, the documents of listed files that are not
dead, and `Pending`, the journaled turns past `through`; a document is in one of
the two and in one file of it.  As far as that is
concerned a step moves documents between files (compaction) or from the journal
to a file (flush), adds or removes by key, or leaves `Held` and `Pending` alone
(staging, rotation, collection, crash, reopening, everything the reader does).
The refinement is that case distinction: `BookTurns` are the turns of both that compile,
`BookDocs` the other documents of `Held`, and a flush, a rotation and a
compaction leave both as they were.

### Vectors (`EmbedJobProofs`)

For any runs, models, documents, texts and limits (`EmbedAssumption`):

* `TypeCorrect` and `VectorsAreOwn` (`VectorOfItsText`), from `IInv`;
* `NotEmbeddedTwice` (`EmbeddedOnce`) and `ServedIsDurable`, from `OnceInvariant`.

`VectorOfItsText` speaks of what is on disk and in the cache; `IInv` follows the same
tables through the hands of those who work without a lock.  `Right` says of a table that it has as
many rows as its segment has passages and that a row has no vector or that of the
passage's own text.  It is kept of the loaded tables (`InCache`), of those a run
found, fills and writes (`InRun`), and of the sidecars, which may also be broken
(`OnDisk`).  Two facts carry it through writes: segment names are never reused, so
that a table of a segment that is gone can become stale but not wrong
(`RightGrown`), and rows are made in two places only, by reuse of equal texts
(`RightFill`) and by a compaction that looks its new rows up by text
(`RightCarried`).

`EmbeddedOnce` compares a run with what earlier runs reported, and there are two places
where a run finds vectors: the tables the process has loaded, and, for segments it has
not seen, the sidecars.  `JInv` says how the two are related.  What is loaded is on
disk (`OnFile`, which is `ServedIsDurable`), so that a crash, or a compaction, which
collects from disk, loses nothing; and what was covered is found in the loaded tables
laid over the sidecars, in the loaded tables alone when a run would take those as they
are (`Held`), or else is in the hands of a compaction (`Moved`), whose new segment has
a passage of it.  A run that nobody disturbs has found all of it (`Plan`) and makes
tables that have at least what it found; the sidecars it has written so far are those
on disk (`Written`).  The order of the steps matters everywhere: a sidecar is written
before its table is shown, tables are shown before others are pruned, and a compaction
collects before it drops.  Two lemmas make an enumeration of a finite set out of a
sort (`EarlierOrdered`, for the documents a compaction moves, and `BeforeOrdered`, for
the work of a run); they rest on an induction that is drawn from the well-foundedness
of the naturals (`AllNumbers`).

A compaction of some segments takes their vectors along for the passages it rewrites
and for no others, so `covered` follows a passage into the new segment when a passage
with its text is rewritten, and is given up otherwise (`Moves`, and 6).

The attempt showed what `EmbeddedOnce` has to except (`mixed`): besides overlapping
runs, rot, and compactions beside a run, two sequences of legal calls that the bounds
of `embed_job` do not reach (see 6).  The model now marks them at the two places where
they begin, `WriteSidecar` (`Overtaken`) and `PruneOthers`.

### Evidence and prompts (`AnswerProofs`)

For any documents cut into passages, any options and any tokenizer
(`EvidenceAssumption`), any finite snapshot, graph, vectors and live tree
(`RetrieveAssumption`), any conversation, roles and windows (`AssembleAssumption`):

* `CondensedStillShowsWhy`, `UnseenStaysOut`, `OneVersionOfEach` and
  `ChainsAreInOrder` of `SpecAll`, from `RetrieveInv`;
* `AssemblyTypes`, `TurnsAppearOnce` and `ForgottenForGood` of `SpecAssembly`, from
  `AssembleInv`.

Both invariants contain `PackInv`, that of the packer: every span and every block,
through merging, sorting, condensing, widening and trimming, is made of passages
of the documents that were ranked (`Span`, `Block`), and a condensed block shows
what `CondensedShowsWhy` asks for.  So what holds of the documents of a ranking
holds of the evidence.  Its lemmas are about sorting by a total order (`RankIsTaken`,
`OrderIsTotal`: the order in which `Sorted` takes the elements of a set has each of
them once), about the gaps between kept lines (`GapsCover`), and about each way to
condense (`CondenseKeeps`).

`RetrieveInv` adds, stage by stage: candidates and places reached in the graph are
of visible documents (`WalkInv`); live texts are the first one opened for their key,
of keys not excluded, under a granted scope (`ReadInv`); only places that may be
shown together have a score (`ScoreInv`); and a passage is raised to less than the
score of one that leads to it (`LiftInv`), because a hop carries at most 85 percent
of a score (`CarryIsLess`, `InheritedFollows`).  Since the ranking is by score
(`BestAreFirst`), what leads comes first, even when it is raised itself.  One part
of `RetrieveAssumption` is a promise of another module: the snapshot has one
version of each key (`ContextStore`).

`AssembleInv` adds that the turns in memory are numbered and that no finished
deletion counts one of them (`MemoryInv`); that a turn a writer is between the two
steps of recording is not one a deletion of another writer has taken (`WriterInv`);
and what a request has fixed (`AskedInv`): the turns kept are a suffix of the
history read at its start, and none of them is one that a deletion had taken by
then.  Undisturbed, the memory is still that history, so that its last `Len(kept)`
turns, which retrieval leaves out, are the turns kept, after any number of
`Shrink` and `DropTurn`.  `RankedInv` says it of the ranking: no passage in it is of a
turn left out or taken by a deletion.

## 6. Where the code and its documentation disagree

One disagreement is a run whose property is violated, with the lines quoted in
`PROJECT.json`:

* **A flush can write a directory that cannot be opened** (`overlay_gap`).  The
  writer gives the delta segment its lowest id as base and takes the ids for
  consecutive (`delta_apply.rs:78-80`).  Committing a path twice before a flush
  drops the first id, which is never reused; `open` then rejects the segment as
  corrupt.

The following were met while modelling.  They have no run; where a module states
the property, its name is given and an instance of the module shows it.

The index:

* A commit can be lost: `install_rebuilt_index` stores its snapshot without
  `write.lock`, and a commit that another thread stored after the rewritten
  directory was captured is overwritten (`NoEditDropped` with a use that has both
  committers and maintainers; `shared_handles` keeps them apart).  It also
  notifies drained edits again behind those that arrived meanwhile, so that an
  older edit of a path can override a newer one, which `pending.rs:141-142` rules
  out for `requeue_uncommitted`.
* A compaction that keeps segments writes `paths.idx` from the paths of the
  rewritten suffix (`compact.rs:294` against its lines 30-34), and `paths.idx`
  and `manifest.json` are paired by a format version that never changes
  (`IndexComplete`).
* The guard of a flush compares counts: a rebuild by another process in the gap
  between the two locks, with as many segments and documents, is not noticed
  (`FlushExtendsItsBase` in `DirLocks`).  A handle whose operation failed tries
  its shared lock once and goes on without it (`Recover`), while
  `update.rs:312-318` expects a handle to be locked again.
* A flush of deletions that fails has drained their bookkeeping, and the retry
  finds "nothing to flush"; the same drains the read epoch, so that the epoch of
  a later commit vouches for content that was read before it (`Freshness` with
  `Drains`); `flush.rs:246-249` expects re-applies and nothing else.
* An edit that was applied and then undone with `git checkout` is no drift any
  more, and no update looks at the file until a commit changes it
  (`CleanIsFresh` reserves this).  A build and a delta ask for HEAD after they
  read; when it moved in between, the difference is never applied
  (`BaseIsApplied` with `HeadMoves`).  A file deleted and created again during an
  update is removed by its notification and then anchored as it is
  (`DriftIsFresh` with `Slow`).
* `.dict` and `.post` are written without a sync (`segment_writer.rs:104-105`)
  before a manifest that is synced names them.  The structural checks of an open
  pass some losses, a compaction of such a segment writes the missing lists under
  right checksums (against the comment on `DictVerify` in `open.rs`), and a
  document that cannot be decoded makes every compaction fail until a rebuild.

Search, the command line and hooks:

* `verify_regex` skips a match that crosses a line end and with it one that
  begins inside it (`verifier.rs:164-175`, against its lines 8-9).
* Word bounds read the first and last byte of a literal as Latin-1 characters,
  so that `-w` misses a word that begins with a letter of several bytes; an
  alternation whose branches begin or end in different kinds of characters gets
  one bound for all (`Bounds`, part of `Settles`, excepts both).
* A literal under `-i` demands grams lowercased in ASCII (`tokenizer/covering.rs:112,173`,
  `tokenizer/mod.rs:254`), and documents are stored with the same, while the
  verifier folds Unicode (`search/mod.rs:137`).  With a cased letter outside ASCII, or with
  `k` or `s`, which fold to the Kelvin sign and the long s, the search misses a document
  that has the other case when the grams it demands are in other documents, against
  "no false negatives" (`tests/oracle/DIVERGENCES.md:41`).  `Cases`, part of `Settles`,
  excepts such literals; with `Settles(q) == Bounds(q)` the run shows the loss.
* `search.rs:292-294` takes the content of a file to be the same in the searches of
  several path arguments, but each reads the file again; `.` beside another path
  is dropped, so that the other narrows the search; `--files-without-match` and `-v`
  ignore `--max-depth`; the context options are ignored under `-v`; write errors
  of `-v` lines are ignored; `--files` exits 0 with nothing listed (`Settled`
  excepts these).
* `cmd_update` retries a locked directory when it opens, not when it flushes, and
  overlapping searches can keep a flush from its exclusive lock for ever.
* The shell reader of the hooks takes a line end for a blank and does not know
  comments or globs (`shell.rs`), `rg` in a subdirectory becomes a search of the
  repository, and a basic regex of grep is handed over as it is (`Overlooked`
  excepts these).

The context engine:

* A journal rotation that fails after its rename leaves the writer with a handle
  to the unlinked file; later turns are acknowledged and lost at the next start.
  This is `"sync" \in Faults`, which the theorems exclude.
* A read-only process may read the manifest before a flush and the journal after
  its rotation, and then misses acknowledged turns; a reload compares only the
  generation and the last live turn (`mod.rs:281`), so a reader goes on showing
  an earlier turn that was forgotten in the journal.
* A turn that cannot be compiled (a NUL among its first 8192 characters, or
  longer than `max_doc_bytes`) is journaled and acknowledged, never searchable,
  and dropped at the flush (`live.rs:47-59`, `write.rs:117-128`), after
  which a replay skips its record, against "Durably record one conversation turn and
  make it searchable" (`live.rs:65`).  The model has such turns, and
  `AckedIsRecoverable` and the turns of the book are those that compile; without
  `t.compiles` in the property the run shows the loss.  `append_turn` may return an
  error for a turn it journaled.
* Overlapping syncs may save their catalogues in another order than they
  committed.  No document gets an older text by it (`TextsGrow`), but with any one
  member of `Env` an undisturbed sync misses a file until its next change
  (`SyncedIsMirrored`): one written twice within a tick, one that appeared between
  a walk and its observation, one ignored no longer, one that got earlier contents
  back, and one whose second read failed, which removes its document.
* Overlapping embedding runs, or a run and a compaction, may embed a text twice
  (`EmbeddedOnce` reserves this); switching models while a run of the old one
  lasts leaves sidecars of both.
* A compaction of the small segments carries the vectors of the segments it drops to
  the one it makes and to no other (`compact.rs:94-98`, `job.rs:329-341`).  When a text
  was embedded in a small segment, its document removed, and a document with the text
  put into a large segment before the next run, the compaction drops the only sidecar
  with its vector, and an undisturbed run embeds it again, against "embedded once per
  model however often its document is re-synced or compacted" (`embed/mod.rs:7-8`).
  `EmbeddedOnce` gives up a covered passage at that point (`Moves`); when `Moves` goes on
  to the passage in the large segment, the run shows the text embedded again.
* `max_passages` cuts the list of texts before they are embedded (`job.rs:192`), and a text
  whose vector is zero is queued again by every run (`job.rs:205`): when as many such texts
  are ranked first as a run may take, no run embeds anything behind them, against "The
  next call continues where this one stopped" (`job.rs:23-24`).  `EventuallyCovered`
  excepts the texts behind them (`Reached`); without that the run shows it.
* Vectors can be in the cache and not on disk, against "written next to their
  segments and used by every query from then on" (`job.rs:100-103`), and are then
  embedded again after the next restart or compaction.  With `prune_other_models`, a
  run of a second model removes the sidecars of the first, whose tables stay loaded
  (`job.rs:240-261`, `registry.rs:38-88`); when the host switches back, the run of the
  first model finds everything covered in memory, writes nothing, and removes the
  sidecars of the second.  And a run that writes a sidecar and fails at the next one
  does not insert it; the next run plans without it, a query after a write loads it
  from disk, and when that run overwrites it with fewer rows and fails as well, the
  loaded table is ahead of the file.  `EmbeddedOnce` excepts both (`mixed`).
* A `record` that has journaled its turn when a `forget` of another thread begins
  pushes it after the history is cleared (`memory.rs:117-158`): a turn deleted from
  the store stays in the handle, against "and from this handle" at
  `memory.rs:145`.  `ForgottenStaysOut` does not count such a turn (`Unpushed`).
* A turn recorded between the choice of history and retrieval can be repeated in
  the evidence (`memory.rs:6-9` against `KeptIsExcluded`); trimmed and merged
  passages are not reported as excluded; the exemption of the nearest passages
  does not always reach the packer (`pipeline.rs:136-138`, `NearestReachPacking`).
* An engine with `syntext` keeps a shared lock, so that `syntext_index_build` by
  the same host conflicts, and the message of a locked store speaks of another
  process though the handle may be the host's own.

## 7. What is only model-checked, and what is not modelled

Only model-checked:

* Liveness, which the proof system does not reach: `CommandsEnd`,
  `EventuallyMirrored`, `EventuallyCovered`, `AssembleEnds`.
* `VerifyFindsLoss`: it holds of checksums that tell the contents of the instance
  apart, which no checksum does in general.
* `Search`, `CliSearch`, `AgentHooks`: what a regex matches is defined by recursion
  over its syntax (`RECURSIVE`), which the provers do not take; of this part,
  `CorpusProofs` has what can be proved (`RequiredIsStored`).
* `DirLocks`' `Spec` has no fairness, and the theorems about `CliSpec` use none.

Left out of the modelled components, on purpose:

* in `OverlayIndex`, grams, postings, the symbol database and the path filters;
  the file-id high-water mark and the byte sizes that cut batches are free
  choices;
* `EINTR` and the fork window of a descriptor;
* in every module but `Freshness`, the worktree anchor and `base_commit`; in
  `Freshness`, a git that fails (a failing `git status` counts as no changes),
  repositories without a commit, excluded files, two handles at once, an anchor
  of too many entries, and files moved into place with an mtime of their own;
* v2 segments, text decoding, the mapping of files into memory;
* `--replace`, `--sym` and `--refs`, configuration files, shell initialisation,
  benchmarks; the wording and layout of what is printed, but for whether a file
  name is shown;
* of retrieval, the analysis of a question into terms and identifiers, those
  signals of the reranker that no property is about (they are in the prior of a
  document), sanitizing, receipts;
* the JSON of requests and answers, the strings handed to a host, the async
  wrappers in Swift.

Not modelled: the git output and anchor codec and the snapshot caches (pure
functions and a cache, whose results other modules take), symbols (best effort,
never fatal to a commit), the installation of hooks (edits of other tools'
configuration files), and the analysis of documents into structure and graph
(pure functions of a text).

## 8. Plan

Done: every module above, its runs, and the theorems of 5.  What is left would be
new parts (7), and properties out of the provers' reach.
