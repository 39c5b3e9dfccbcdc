------------------------------ MODULE Assemble ------------------------------
(***************************************************************************)
(* Assembling a prompt: a conversation memory whose turns are journaled    *)
(* in the store and kept in the process, the history of it that a prompt   *)
(* repeats verbatim, and the evidence retrieved and packed (Evidence) into *)
(* what the window leaves, while other threads record, forget and resume.  *)
(*                                                                         *)
(* The n-th turn the store numbers is the document Turn[n], of one         *)
(* passage; retrieval ranks what it may see as `Ranking` has it.  A reader *)
(* of the store takes one snapshot (ContextStore).                         *)
(***************************************************************************)
EXTENDS Evidence

CONSTANTS Writer,    \* threads that record and forget
          Turn,      \* the documents of the turns, by sequence number
          Roles,     \* the role of each turn
          Ranking,   \* the passages of the store by relevance
          Windows,   \* bound: context windows asked for
          SystemCost, QuestionCost, \* tokens of the system prompt and the question
          Policy,    \* tokens of the texts that come with evidence
          Overhead,  \* MESSAGE_OVERHEAD
          Template,  \* what the host's own template adds to each message
          MinAnswer, MaxAnswer, MinMargin, MinShrink, \* 256, 2048, 32 and 16
          HistoryTenths, \* ChatRequest.history_share
          Separate,  \* EvidencePlacement::SeparateMessage
          MaxForgets, MaxFaults, MaxAsks \* bounds

ASSUME AssembleAssumption ==
    /\ Turn \in Seq(Doc) /\ DOMAIN Roles = DOMAIN Turn
    /\ \A n \in DOMAIN Turn : Len(Passages[Turn[n]]) = 1
    /\ \A m, n \in DOMAIN Turn : Turn[m] = Turn[n] => m = n
    /\ Ranking \in Seq(RankedPassage) /\ Windows \subseteq Nat
    /\ {SystemCost, QuestionCost, Policy, Overhead, Template, MinAnswer, MaxAnswer,
        MinMargin, HistoryTenths} \subseteq Nat
    /\ MinShrink \in Nat \ {0} /\ Separate \in BOOLEAN

VARIABLES
    numbered, \* turns the store has numbered
    live,     \* sequence numbers of the turns the store still has
    memory,   \* ConversationMemory.turns: sequence numbers, oldest first
    writer,   \* what each writer is doing
    asked,    \* the request being assembled
    count,    \* operations so far, by kind
    undone,   \* history: turns whose deletion a caller saw finish
    disturbed \* history: something was recorded or forgotten while assembling

conversation == <<numbered, live, memory, writer>>
assembling == <<asked, count, undone, disturbed>>
assemblyVars == <<evidence, conversation, assembling>>

Idle == [pc |-> "idle"]
Running == asked.pc \in {"read", "keys", "snapshot", "pack"}
Tick(kind) == count' = [count EXCEPT ![kind] = @ + 1]
Disturbing == disturbed' = (disturbed \/ Running)

InitPacker ==
    /\ phase = "packed" /\ budget = 0 /\ drift \in Drifts /\ ranked = <<>> /\ todo = <<>>
    /\ spans = <<>> /\ blocks = <<>> /\ used = 0 /\ excluded = <<>>
    /\ cursor = FirstPass /\ trimmed = <<>>
InitAssembly ==
    /\ InitPacker
    /\ numbered = 0 /\ live = {} /\ memory = <<>>
    /\ writer = [w \in Writer |-> Idle]
    /\ asked = Idle /\ undone = {} /\ disturbed = FALSE
    /\ count = [forgets |-> 0, faults |-> 0, asks |-> 0]

-------------------------------------------------------------------------------
(* ConversationMemory *)

\* record: append_turn journals and numbers the turn; a failure after the
\* journaling leaves it in the store and not in the memory.
AppendTurnMutant(w) ==
    /\ writer[w] = Idle /\ numbered < Len(Turn)
    /\ live' = live \cup {numbered + 1}
    /\ writer' = [writer EXCEPT ![w] = [pc |-> "push", seq |-> numbered + 1]]
    /\ Disturbing /\ UNCHANGED <<numbered, memory, asked, count, undone, evidence>>
AppendTurn(w) ==
    /\ writer[w] = Idle /\ numbered < Len(Turn)
    /\ numbered' = numbered + 1 /\ live' = live \cup {numbered + 1}
    /\ writer' = [writer EXCEPT ![w] = [pc |-> "push", seq |-> numbered + 1]]
    /\ Disturbing /\ UNCHANGED <<memory, asked, count, undone, evidence>>
AppendFails(w) ==
    /\ writer[w].pc = "push" /\ count.faults < MaxFaults /\ Tick("faults")
    /\ writer' = [writer EXCEPT ![w] = Idle]
    /\ Disturbing /\ UNCHANGED <<numbered, live, memory, asked, undone, evidence>>
Push(w) ==
    /\ writer[w].pc = "push"
    /\ memory' = Append(memory, writer[w].seq)
    /\ writer' = [writer EXCEPT ![w] = Idle]
    /\ Disturbing /\ UNCHANGED <<numbered, live, asked, count, undone, evidence>>

\* Turns journaled by a record that has not reached the memory yet.
Unpushed == {writer[v].seq : v \in {x \in Writer : writer[x].pc = "push"}}

\* forget: the turns leave the store, then the process.  A record between its
\* two steps pushes its turn after that: `gone` does not count that turn.
ForgetStored(w) ==
    /\ writer[w] = Idle /\ count.forgets < MaxForgets /\ Tick("forgets")
    /\ writer' = [writer EXCEPT ![w] = [pc |-> "clear", gone |-> live \ Unpushed]]
    /\ live' = {}
    /\ Disturbing /\ UNCHANGED <<numbered, memory, asked, undone, evidence>>
ForgetClearMutant(w) ==
    /\ writer[w].pc = "clear"
    /\ undone' = undone \cup writer[w].gone
    /\ writer' = [writer EXCEPT ![w] = Idle]
    /\ Disturbing /\ UNCHANGED <<numbered, live, memory, asked, count, evidence>>
ForgetClear(w) ==
    /\ writer[w].pc = "clear"
    /\ memory' = <<>> /\ undone' = undone \cup writer[w].gone
    /\ writer' = [writer EXCEPT ![w] = Idle]
    /\ Disturbing /\ UNCHANGED <<numbered, live, asked, count, evidence>>

\* The process dies and resumes the session: the persisted turns by number.
Resume ==
    /\ count.faults < MaxFaults /\ Tick("faults")
    /\ memory' = Sorted(live, LAMBDA m, n : m < n)
    /\ writer' = [w \in Writer |-> Idle]
    /\ asked' = Idle
    /\ phase' = "packed"
    /\ UNCHANGED <<numbered, live, undone, disturbed,
                   budget, drift, ranked, todo, spans, blocks, used, excluded, cursor, trimmed>>

-------------------------------------------------------------------------------
(* The budget of a window *)

MessageCost(n) == Overhead + Size([doc |-> Turn[n], idx |-> 1])
HistoryCost(kept) == SumOf([k \in DOMAIN kept |-> MessageCost(kept[k])])
Generation(w) == Least(w \div 2, Least(MaxAnswer, Most(MinAnswer, w \div 4)))
Margin(w) == Most(w \div 32, MinMargin)
Limit(w) == Minus(w, Generation(w))
EvidenceTokens(w, kept) ==
    Minus(w, SystemCost + Overhead + HistoryCost(kept) + QuestionCost + Overhead
             + Generation(w) + Margin(w))

\* A prompt begins with a turn of the user.
FromUser(turns) ==
    LET users == {k \in DOMAIN turns : Roles[turns[k]] = "user"}
    IN  IF users = {} THEN <<>> ELSE SubSeq(turns, Min(users), Len(turns))
\* The longest run of recent turns within the share of the window.
FitHistory(turns, w) ==
    LET cap == (w * HistoryTenths) \div 10
        suffix(k) == SubSeq(turns, k, Len(turns))
        fits == {k \in 1 .. Len(turns) + 1 : HistoryCost(suffix(k)) <= cap}
    IN  FromUser(suffix(Min(fits)))
DropOldest(turns) == FromUser(Tail(turns))

\* count_messages of the whole prompt: the policy comes with the evidence.
PromptTokens(kept) ==
    LET shown == blocks # <<>>
        messages == Len(kept) + (IF shown /\ Separate THEN 3 ELSE 2)
    IN  SystemCost + Overhead + HistoryCost(kept) + QuestionCost + Overhead
        + (IF shown THEN Policy + Rendered(blocks) ELSE 0)
        + (IF shown /\ Separate THEN Overhead ELSE 0)
        + Template * messages

-------------------------------------------------------------------------------
(* assemble *)

\* The history is read once, for the whole of the assembly.
Ask(w) ==
    /\ ~Running /\ count.asks < MaxAsks /\ Tick("asks")
    /\ asked' = [pc |-> "read", window |-> w, history |-> memory,
                 kept |-> FitHistory(memory, w), recent |-> {}, seen |-> {},
                 gone |-> undone]
    /\ disturbed' = \E v \in Writer : writer[v] # Idle
    /\ UNCHANGED <<conversation, undone, evidence>>

\* The outer loop: the budget with the history kept now.
Measure ==
    /\ asked.pc = "read"
    /\ budget' = EvidenceTokens(asked.window, asked.kept)
    /\ asked' = [asked EXCEPT !.pc = "keys"]
    /\ UNCHANGED <<conversation, count, undone, disturbed, phase, drift, ranked, todo, spans, blocks,
                   used, excluded, cursor, trimmed>>

\* prepare: the most recent turns are excluded, by number and by key,
RecentKeysMutant ==
    /\ asked.pc = "keys"
    /\ asked' = [asked EXCEPT !.pc = "snapshot",
                              !.recent = {memory[k] : k \in {i \in DOMAIN memory :
                                              i > Len(memory) - Len(asked.history)}}]
    /\ UNCHANGED <<conversation, count, undone, disturbed, evidence>>
RecentKeys ==
    /\ asked.pc = "keys"
    /\ asked' = [asked EXCEPT !.pc = "snapshot",
                              !.recent = {memory[k] : k \in {i \in DOMAIN memory :
                                              i > Len(memory) - Len(asked.kept)}}]
    /\ UNCHANGED <<conversation, count, undone, disturbed, evidence>>

\* then retrieval reads a snapshot of the store, and the result is packed.
Retrievable(d) ==
    \A n \in DOMAIN Turn : d = Turn[n] => n \in live \ asked.recent
RetrieveEvidence ==
    /\ asked.pc = "snapshot"
    /\ asked' = [asked EXCEPT !.pc = "pack", !.seen = {n \in live : Retrievable(Turn[n])}]
    /\ ranked' = Subsequence(Ranking, {k \in DOMAIN Ranking : Retrievable(Ranking[k].doc)})
    /\ todo' = ranked'
    /\ phase' = "merge" /\ spans' = <<>> /\ blocks' = <<>> /\ used' = 0 /\ excluded' = <<>>
    /\ cursor' = FirstPass /\ trimmed' = <<>>
    /\ UNCHANGED <<conversation, count, undone, disturbed, budget, drift>>

PackEvidence == asked.pc = "pack" /\ phase # "packed" /\ Pack /\ UNCHANGED <<conversation, assembling>>

Over == Minus(PromptTokens(asked.kept), Limit(asked.window))
Packed == asked.pc = "pack" /\ phase = "packed"

Answer ==
    /\ Packed /\ Over = 0
    /\ asked' = [asked EXCEPT !.pc = "answered"]
    /\ UNCHANGED <<conversation, count, undone, disturbed, evidence>>
ShrinkMutant ==
    /\ Packed /\ Over > 0 /\ blocks # <<>>
    /\ budget' = Minus(budget, Over - 1)
    /\ asked' = [asked EXCEPT !.pc = "keys"]
    /\ UNCHANGED <<conversation, count, undone, disturbed, phase, drift, ranked, todo, spans, blocks,
                   used, excluded, cursor, trimmed>>
Shrink ==
    /\ Packed /\ Over > 0 /\ blocks # <<>>
    /\ budget' = Minus(budget, Most(Over, MinShrink))
    /\ asked' = [asked EXCEPT !.pc = "keys"]
    /\ UNCHANGED <<conversation, count, undone, disturbed, phase, drift, ranked, todo, spans, blocks,
                   used, excluded, cursor, trimmed>>
DropTurnMutant ==
    /\ Packed /\ Over > 0 /\ asked.kept # <<>>
    /\ asked' = [asked EXCEPT !.pc = "read", !.kept = DropOldest(@)]
    /\ UNCHANGED <<conversation, count, undone, disturbed, evidence>>
DropTurn ==
    /\ Packed /\ Over > 0 /\ blocks = <<>> /\ asked.kept # <<>>
    /\ asked' = [asked EXCEPT !.pc = "read", !.kept = DropOldest(@)]
    /\ UNCHANGED <<conversation, count, undone, disturbed, evidence>>
Exceed ==
    /\ Packed /\ Over > 0 /\ blocks = <<>> /\ asked.kept = <<>>
    /\ asked' = [asked EXCEPT !.pc = "exceeded"]
    /\ UNCHANGED <<conversation, count, undone, disturbed, evidence>>

Assembler == Measure \/ RecentKeys \/ RetrieveEvidence \/ PackEvidence \/ Answer \/ Shrink \/ DropTurn \/ Exceed
Conversation ==
    \E w \in Writer : AppendTurn(w) \/ AppendFails(w) \/ Push(w) \/ ForgetStored(w) \/ ForgetClear(w)
NextAssembly == Assembler \/ Conversation \/ Resume \/ \E w \in Windows : Ask(w)
\* One thread runs an assembly to its end: nothing in it waits for another.
SpecAssembly == InitAssembly /\ [][NextAssembly]_assemblyVars /\ WF_assemblyVars(Assembler)

-------------------------------------------------------------------------------
(* Properties *)

\* Every value has its type.
AssembleTypeOK ==
    /\ numbered \in 0 .. Len(Turn) /\ live \subseteq 1 .. numbered
    /\ memory \in Seq(1 .. numbered) /\ undone \subseteq 1 .. numbered
    /\ asked.pc \in {"idle", "read", "keys", "snapshot", "pack", "answered", "exceeded"}
    /\ disturbed \in BOOLEAN

Answered == asked.pc = "answered"
InEvidence(n) == OfDocument(Turn[n]) # {}

\* A turn repeated verbatim in a prompt is not in its evidence as well, and a
\* turn left out of the history stays within reach of retrieval: the keys
\* excluded are those of the turns kept, however many were dropped and however
\* the budget was shrunk -- unless a turn was recorded or forgotten meanwhile.
TurnsOnce ==
    Answered /\ ~disturbed => \A n \in ToSet(asked.history) :
        /\ n \in ToSet(asked.kept) => ~InEvidence(n)
        /\ n \in live => n \in ToSet(asked.kept) \cup asked.seen

\* The same with no exception for turns recorded meanwhile, as the memory's
\* documentation has it: exactly the turns kept verbatim are excluded.
KeptIsExcluded ==
    Answered => \A n \in ToSet(asked.kept) : ~InEvidence(n)

\* A turn whose deletion the user saw finish before asking is in no prompt,
\* neither verbatim nor as evidence, whatever is recorded or forgotten while the
\* prompt is assembled, and across failed writes and restarts; a turn still
\* being recorded when its session is forgotten is not one of them.
ForgottenStaysOut ==
    Answered => \A n \in asked.gone : n \notin ToSet(asked.kept) /\ ~InEvidence(n)

\* History goes last: a turn that fits its share of the window is dropped only
\* when the prompt without any evidence does not fit with it.
PlainPrompt(kept) ==
    SystemCost + QuestionCost + 2 * Overhead + HistoryCost(kept) + Template * (Len(kept) + 2)
HistoryGoesLast ==
    Answered => LET fit == FitHistory(asked.history, asked.window)
                IN  \A k \in DOMAIN fit : LET longer == SubSeq(fit, k, Len(fit)) IN
                        /\ Roles[fit[k]] = "user" /\ Len(longer) > Len(asked.kept)
                        => PlainPrompt(longer) > Limit(asked.window)

\* Every assembly ends, with a prompt or with WindowExceeded, whatever the
\* tokenizer and however the conversation goes on.
AssembleEnds == Running ~> ~Running
=============================================================================
