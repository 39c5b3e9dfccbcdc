-------------------------------- MODULE HostApi --------------------------------
(***************************************************************************)
(* The C interface and the Swift classes over it: threads of a host call   *)
(* functions that make, borrow and free what is behind pointers.  Stores,  *)
(* embedders, token counters and indexes are counted (Arc); a store opened *)
(* for writing and an index keep a lock on their directory.  A chat index  *)
(* is edited under a read-write lock and publishes by a swap.              *)
(*                                                                         *)
(* A function is a program of steps, some of which may end the call with   *)
(* an error or a caught panic; what the call made until then is dropped.   *)
(* The JSON of requests and answers, the strings and errors handed to the  *)
(* host, and what the functions do to stores and indexes are left out, and *)
(* so are the functions that touch no handle.  The host keeps              *)
(* the header's contract: nothing is freed while a call uses it, and the   *)
(* userdata of a callback outlives the handles made with it, which the     *)
(* Swift classes see to.  There is one directory of each kind, one chat    *)
(* index, and one process.                                                 *)
(***************************************************************************)
EXTENDS Naturals, Sequences, FiniteSets, Functions, TLC

CONSTANTS Caller,
          Hosts,     \* what hosts do: the sets of functions they call
          User,      \* userdata of callbacks
          ChatDoc,   \* ids of chat documents
          MaxHeap,   \* bound: allocations at one time
          MaxObj,    \* bound: counted objects
          MaxEdits   \* bound: edits of chat documents

\* A host has finitely many threads; the bounds are numbers.
ASSUME HostAssumption == IsFiniteSet(Caller) /\ MaxHeap \in Nat /\ MaxObj \in Nat

VARIABLES host,    \* the functions this host calls
          heap,    \* behind the pointers the host has: [kind, refs, users]; `users` is what
                   \* the host passed to make it
          objs,    \* counted objects: [kind, strong, user, how]
          locks,   \* the objects that have a lock on their directory
          retired, \* userdata the host has released
          calls,   \* the call of each thread: [todo, args, held, users, gives, seen]
          chat     \* [docs, shown, readers, edits, promised], documents by the number of their edit

hostVars == <<host, heap, objs, locks, retired, calls, chat>>

None == "none"
Fresh == [d \in ChatDoc |-> 0]
Idle == [todo |-> <<>>, args |-> {}, held |-> {}, users |-> {}, gives |-> "idle", seen |-> Fresh]
Answers == {"idle", "status", "commit"}
Running(t) == calls[t].gives # "idle"
At(t, do) == calls[t].todo # <<>> /\ Head(calls[t].todo).do = do
Todo(t) == Head(calls[t].todo)
Past(t, held) == [calls EXCEPT ![t] = [calls[t] EXCEPT !.todo = Tail(@), !.held = held]]

Added(f, x, v) == [y \in DOMAIN f \cup {x} |-> IF y = x THEN v ELSE f[y]]

Handles(kind) == {a \in DOMAIN heap : heap[a].kind = kind}
Used == (UNION {heap[a].refs : a \in DOMAIN heap}) \cup (UNION {calls[t].held : t \in Caller})
Behind(a, kind) == {o \in heap[a].refs : o \in DOMAIN objs /\ objs[o].kind = kind}

-------------------------------------------------------------------------------
(* Steps of functions *)

Step(do, kind, of) == [do |-> do, kind |-> kind, of |-> of]

Work == Step("work", None, None)
Clones(os) == IF os = {} THEN <<>> ELSE <<Step("clone", None, CHOOSE o \in os : TRUE)>>
Made(kind, us) == IF us = {} THEN <<>> ELSE <<Step("new", kind, CHOOSE u \in us : TRUE)>>
Callback(os) == IF os = {} THEN <<>> ELSE <<Step("callback", None, CHOOSE o \in os : TRUE)>>
Makes(program) == {i \in DOMAIN program : program[i].do \in {"new", "open"}}
AtMostOne(S) == {T \in SUBSET S : Cardinality(T) <= 1}

Enter(t, fn, program, args, users, gives) ==
    /\ fn \in host /\ ~Running(t)
    /\ gives \notin Answers => Cardinality(DOMAIN heap) + Cardinality({s \in Caller : calls[s].gives \notin Answers}) < MaxHeap
    /\ Makes(program) # {} =>
           Cardinality(DOMAIN objs) + Cardinality(Makes(program))
               + Cardinality(UNION {{s} \X Makes(calls[s].todo) : s \in Caller}) <= MaxObj
    /\ calls' = [calls EXCEPT ![t] = [todo |-> program, args |-> args, held |-> {}, users |-> users,
                                      gives |-> gives, seen |-> Fresh]]
    /\ UNCHANGED <<host, heap, objs, locks, retired, chat>>

StoreOpen(t) == \E how \in {"writer", "reader"} :
    Enter(t, "store_open", <<Step("open", "store", how)>>, {}, {}, "store")

EmbedderNew(t) == \E u \in User \ retired :
    Enter(t, "embedder_new", Made("embedder", {u}), {}, {u}, "embedder")

\* The engine has its own references: to the store, to the embedder of a handle, if one is given,
\* to a counter over the host's callback, and to an index it opens.
EngineNew(t) == \E s \in Handles("store"), e \in AtMostOne(Handles("embedder")),
                   u \in AtMostOne(User \ retired), index \in {<<>>} \cup {<<Step("open", "index", "shared"), Work>> : f \in host \cap {"index_open"}} :
    Enter(t, "engine_new",
          Clones(Behind(s, "store")) \o Clones(UNION {Behind(a, "embedder") : a \in e})
                    \o Made("counter", u) \o index,
          {s} \cup e, u \cup UNION {heap[a].users : a \in e}, "engine")

MemoryOpen(t) == \E s \in Handles("store") :
    Enter(t, "memory_open", Clones(Behind(s, "store")) \o <<Work>>, {s}, {}, "memory")

IndexOpen(t) == \E how \in {"shared", "exclusive"} :
    Enter(t, "index_open", <<Step("open", "index", how)>>, {}, {}, "index")

\* prepare, assemble, search and the tools: the question is embedded, passages are counted.
Ask(t) == \E g \in Handles("engine"), m \in AtMostOne(Handles("memory")) :
    Enter(t, "ask", Callback(Behind(g, "embedder")) \o Callback(Behind(g, "counter")) \o <<Work>>,
          {g} \cup m, {}, "status")

Embed(t) == \E s \in Handles("store"), e \in Handles("embedder") :
    Enter(t, "embed", Callback(Behind(e, "embedder")) \o <<Work>>, {s, e}, {}, "status")

\* The tools of a model, and the functions that borrow one handle and answer with a string or a
\* status.
CallTool(t) == \E g \in Handles("engine") :
    Enter(t, "tool", Callback(Behind(g, "embedder")) \o Callback(Behind(g, "counter")) \o <<Work>>, {g}, {}, "status")
UseStore(t) == \E s \in Handles("store") : Enter(t, "manage", <<Work>>, {s}, {}, "status")
UseMemory(t) == \E m \in Handles("memory") : Enter(t, "manage", <<Work>>, {m}, {}, "status")
UseIndex(t) == \E i \in Handles("index") : Enter(t, "manage", <<Work>>, {i}, {}, "status")
UseChat(t) == \E a \in Handles("chat") : Enter(t, "chat", <<Work>>, {a}, {}, "status")

ChatNew(t) == /\ Handles("chat") = {} /\ \A s \in Caller : calls[s].gives # "chat"
              /\ Enter(t, "chat", <<>>, {}, {}, "chat")
Edits == chat.edits + Cardinality({t \in Caller : \E i \in DOMAIN calls[t].todo : calls[t].todo[i].do = "edit"})
ChatEdit(t) == \E a \in Handles("chat"), d \in ChatDoc :
    Edits < MaxEdits /\ Enter(t, "chat", <<Step("edit", None, d)>>, {a}, {}, "status")
CommitMutant(t) == \E a \in Handles("chat") :
    Enter(t, "chat", <<Step("read", None, None), Step("build", None, None), Step("unlock", None, None),
                       Step("publish", None, None)>>, {a}, {}, "commit")
Commit(t) == \E a \in Handles("chat") :
    Enter(t, "chat", <<Step("read", None, None), Step("build", None, None), Step("publish", None, None),
                       Step("unlock", None, None)>>, {a}, {}, "commit")

Begin(t) == \/ StoreOpen(t) \/ EmbedderNew(t) \/ EngineNew(t) \/ MemoryOpen(t) \/ IndexOpen(t)
            \/ Ask(t) \/ Embed(t) \/ CallTool(t) \/ UseStore(t) \/ UseMemory(t) \/ UseIndex(t)
            \/ ChatNew(t) \/ ChatEdit(t) \/ Commit(t) \/ UseChat(t)

-------------------------------------------------------------------------------
(* Counted objects *)

\* What is left when the references to S are dropped.
Dropped(S) == [o \in {p \in DOMAIN objs : p \notin S \/ objs[p].strong > 1} |->
                 [objs[o] EXCEPT !.strong = IF o \in S THEN @ - 1 ELSE @]]

CloneMutant(t) ==
    /\ At(t, "clone")
    /\ calls' = Past(t, calls[t].held \cup {Todo(t).of})
    /\ UNCHANGED <<host, heap, objs, locks, retired, chat>>

Clone(t) ==
    /\ At(t, "clone")
    /\ objs' = [objs EXCEPT ![Todo(t).of].strong = @ + 1]
    /\ calls' = Past(t, calls[t].held \cup {Todo(t).of})
    /\ UNCHANGED <<host, heap, locks, retired, chat>>

\* A directory has one writer; an index is built when nobody has it open.
Conflict(kind, how) ==
    /\ how \in {"writer", "exclusive"}
    /\ \E o \in locks : objs[o].kind = kind

New(t, kind, user, how) ==
    LET free == (1 .. MaxObj) \ (DOMAIN objs \cup Used)
        o == CHOOSE n \in free : TRUE
    IN  /\ free # {}
        /\ objs' = Added(objs, o, [kind |-> kind, strong |-> 1, user |-> user, how |-> how])
        /\ locks' = locks \cup {p \in {o} : how \in {"writer", "shared", "exclusive"}}
        /\ calls' = Past(t, calls[t].held \cup {o})
        /\ UNCHANGED <<host, heap, retired, chat>>

Make(t) ==
    \/ At(t, "new") /\ New(t, Todo(t).kind, Todo(t).of, None)
    \/ /\ At(t, "open") /\ ~Conflict(Todo(t).kind, Todo(t).of)
       /\ New(t, Todo(t).kind, None, Todo(t).of)

\* The host's function has answered, the work is done.
Proceed(t) ==
    /\ At(t, "callback") \/ At(t, "work") \/ At(t, "build")
    /\ calls' = Past(t, calls[t].held)
    /\ UNCHANGED <<host, heap, objs, locks, retired, chat>>

-------------------------------------------------------------------------------
(* The chat index *)

EditStep(t) ==
    /\ At(t, "edit") /\ chat.readers = {}
    /\ chat' = [chat EXCEPT !.edits = @ + 1, !.docs[Todo(t).of] = chat.edits + 1]
    /\ calls' = Past(t, {})
    /\ UNCHANGED <<host, heap, objs, locks, retired>>

\* commit reads under the lock, builds, and swaps before the lock goes.
CommitStep(t) ==
    /\ \/ /\ At(t, "read")
          /\ chat' = [chat EXCEPT !.readers = @ \cup {t}]
          /\ calls' = [Past(t, {}) EXCEPT ![t].seen = chat.docs]
       \/ /\ At(t, "publish")
          /\ chat' = [chat EXCEPT !.shown = calls[t].seen]
          /\ calls' = Past(t, {})
       \/ /\ At(t, "unlock")
          /\ chat' = [chat EXCEPT !.readers = @ \ {t}]
          /\ calls' = Past(t, {})
    /\ UNCHANGED <<host, heap, objs, locks, retired>>

-------------------------------------------------------------------------------
(* The end of a call *)

Pointers == (1 .. MaxHeap) \ DOMAIN heap
Given(kind, refs, users) ==
    Added(heap, CHOOSE a \in Pointers : TRUE, [kind |-> kind, refs |-> refs, users |-> users])

\* ffi_ptr and ffi_status: a handle, a string, or nothing but the status.
Return(t) ==
    /\ Running(t) /\ calls[t].todo = <<>>
    /\ LET c == calls[t]
       IN  /\ c.gives \in Answers \/ Pointers # {}
           /\ heap' = IF c.gives \in {"status", "commit"} THEN heap ELSE Given(c.gives, c.held, c.users)
           /\ chat' = IF c.gives = "commit" THEN [chat EXCEPT !.promised = c.seen] ELSE chat
    /\ calls' = [calls EXCEPT ![t] = Idle]
    /\ UNCHANGED <<host, objs, locks, retired>>

\* Arguments are read before anything is made: a NULL handle or string, text that is not UTF-8,
\* or JSON that is no such request ends the call.
MayFail(t) == \/ \E do \in {"open", "callback", "work", "edit", "build"} : At(t, do)
              \/ calls[t].held = {} /\ (At(t, "clone") \/ At(t, "new"))

\* An error, or a panic: the locals are dropped, the guard of a lock with them, and err_out, when
\* there is one, gets the error.
FailMutant(t) ==
    /\ MayFail(t)
    /\ chat' = [chat EXCEPT !.readers = @ \ {t}]
    /\ calls' = [calls EXCEPT ![t] = Idle]
    /\ UNCHANGED <<host, heap, objs, locks, retired>>

Fail(t) ==
    /\ MayFail(t)
    /\ objs' = Dropped(calls[t].held)
    /\ locks' = locks \cap DOMAIN objs'
    /\ chat' = [chat EXCEPT !.readers = @ \ {t}]
    /\ calls' = [calls EXCEPT ![t] = Idle]
    /\ UNCHANGED <<host, heap, retired>>

-------------------------------------------------------------------------------
(* The host *)

NoChat == [docs |-> Fresh, shown |-> Fresh, readers |-> {}, edits |-> 0, promised |-> Fresh]

FreeMutant(a) ==
    /\ \A t \in Caller : a \notin calls[t].args
    /\ heap' = Restrict(heap, DOMAIN heap \ {a})
    /\ objs' = Dropped(heap[a].refs)
    /\ locks' = (locks \cap DOMAIN objs') \ (IF heap[a].kind = "store" THEN heap[a].refs ELSE {})
    /\ chat' = IF heap[a].kind = "chat" THEN NoChat ELSE chat
    /\ UNCHANGED <<host, retired, calls>>

\* The *_free functions.
Free(a) ==
    /\ \A t \in Caller : a \notin calls[t].args
    /\ heap' = Restrict(heap, DOMAIN heap \ {a})
    /\ objs' = Dropped(heap[a].refs)
    /\ locks' = locks \cap DOMAIN objs'
    /\ chat' = IF heap[a].kind = "chat" THEN NoChat ELSE chat
    /\ UNCHANGED <<host, retired, calls>>

\* A Swift engine keeps its counter's box and its embedder, and frees its handle first.
KeepsMutant(a) == IF heap[a].kind = "engine" /\ Behind(a, "embedder") # {}
                  THEN {objs[o].user : o \in Behind(a, "counter")} ELSE heap[a].users
Keeps(a) == heap[a].users

Retire(u) ==
    /\ u \notin retired
    /\ \A a \in DOMAIN heap : u \notin Keeps(a)
    /\ \A t \in Caller : u \notin calls[t].users
    /\ retired' = retired \cup {u}
    /\ UNCHANGED <<host, heap, objs, locks, calls, chat>>

-------------------------------------------------------------------------------
HostInit ==
    /\ host \in Hosts
    /\ heap = <<>> /\ objs = <<>> /\ locks = {} /\ retired = {}
    /\ calls = [t \in Caller |-> Idle]
    /\ chat = NoChat

HostNext ==
    \/ \E t \in Caller : \/ Begin(t) \/ Clone(t) \/ Make(t) \/ Proceed(t) \/ EditStep(t) \/ CommitStep(t)
                         \/ Return(t) \/ Fail(t)
    \/ \E a \in DOMAIN heap : Free(a)
    \/ \E u \in User : Retire(u)

HostSpec == HostInit /\ [][HostNext]_hostVars

-------------------------------------------------------------------------------
(* Properties *)

\* Handles may be freed in any order: what a live handle or a running call refers to has not been
\* dropped, although the handle it was made from may be gone.
HandlesResolve == Used \subseteq DOMAIN objs

\* A host function is only called with userdata the host has not released, whichever of the
\* handles made with it are freed.
CallbacksAreValid ==
    \A t \in Caller : At(t, "callback") =>
        Todo(t).of \in DOMAIN objs /\ objs[Todo(t).of].user \notin retired

\* Failed and finished calls leave nothing behind: an object has as many references as it counts,
\* and once every handle is freed no object, no lock on a directory and no reader of the chat index
\* remains.
NothingLeaks ==
    /\ \A o \in DOMAIN objs : objs[o].strong = Cardinality({a \in DOMAIN heap : o \in heap[a].refs})
                                             + Cardinality({t \in Caller : o \in calls[t].held})
    /\ locks \subseteq Used
    /\ \A t \in Caller : ~Running(t) => t \notin chat.readers

\* As long as an engine or a conversation has a store, nobody else opens it for writing, freed
\* store handle or not.
OneWriter == \A o, p \in DOMAIN objs : objs[o].how = "writer" /\ objs[p].how = "writer" => o = p

\* A commit that has returned is found by every search from then on, whatever commits ran at the
\* same time.
CommittedIsFound == \A d \in ChatDoc : chat.shown[d] >= chat.promised[d]
===============================================================================
