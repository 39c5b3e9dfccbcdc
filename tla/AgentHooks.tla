-------------------------------- MODULE AgentHooks --------------------------------
(***************************************************************************)
(* The hooks of coding agents: before an agent runs a shell line, the hook *)
(* reads it, turns rg and grep in an indexed repository into st, and tells *)
(* the agent in its own protocol; the agent then runs the line it was      *)
(* given, and st answers as in CliSearch.                                  *)
(*                                                                         *)
(* A line is a sequence of words and of the marks between them.  A word is *)
(* [is, name, flags, inline, text]: a long option, a bundle of short ones, *)
(* "--", an assignment or a plain word; inline is what is attached to it   *)
(* (a set of at most one value) and text is the word read as a value.  A   *)
(* value is [text, hir, path, glob, type]: what it is as a literal, as a   *)
(* regex, as a path, as a glob and as a file type.                         *)
(***************************************************************************)
EXTENDS CliSearch

CONSTANTS Request,      \* sessions that begin with an agent: families of CliSearch's with
                        \* [agent, call, line, heard, indexed]
          NoValue,      \* the value of "--", and of a word that is never read as one
          Subcommand,   \* words that name a subcommand of st
          WithoutMatch, \* the value without-match
          BasicToo      \* the values that mean the same as a basic regex

-------------------------------------------------------------------------------
(* shell.rs: words and marks.  A line end is a blank like any other. *)

IsMark(t) == t.is = "mark"
Unclosed(line) == \E t \in Range(line) : t.is = "quote"
HasExpansion(line) == \E t \in Range(line) : t.is = "expansion"
Refuses(line) == \E t \in Range(line) : IsMark(t) /\ t.name \in {"|", ">", "&"}

EndCommand(acc) ==
    IF acc.words = <<>> THEN acc
    ELSE [items |-> Append(acc.items, [is |-> "command", words |-> acc.words]), words |-> <<>>]
ParseToken(acc, t) ==
    CASE ~IsMark(t) -> [acc EXCEPT !.words = Append(@, t)]
      [] t.name = "newline" -> acc
      [] OTHER -> LET ended == EndCommand(acc) IN [ended EXCEPT !.items = Append(@, t)]
Parse(line) == EndCommand(FoldLeft(ParseToken, [items |-> <<>>, words |-> <<>>], line)).items

-------------------------------------------------------------------------------
(* rewrite_rg.rs, rewrite_grep.rs: the options st has too, in their order *)

Word0(kind, name) == [is |-> kind, name |-> name, flags |-> <<>>, inline |-> {}, text |-> NoValue]
PlainWord(value) == [Word0("plain", "") EXCEPT !.text = value]
Short(flag) == [Word0("short", "") EXCEPT !.flags = <<flag>>]
EndOfOptions == Word0("dashes", "")
IsPlain(w) == w.is \notin {"long", "short", "dashes"}
Attached(w) == CHOOSE v \in w.inline : TRUE

Unread == [ok |-> TRUE, out |-> <<>>, free |-> <<>>, after |-> FALSE, wants |-> "", regexp |-> FALSE,
           recursive |-> FALSE]
Rejecting(acc) == [acc EXCEPT !.ok = FALSE]
Emit(acc, words) == [acc EXCEPT !.out = @ \o words]
Switches == {"n", "F", "i"}
Takers == {"t", "g", "e"}
ShortOf(name) == CASE name = "line-number" -> "n" [] name = "fixed-strings" -> "F"
                   [] name = "ignore-case" -> "i" [] name = "type" -> "t" [] name = "glob" -> "g"
                   [] name = "regexp" -> "e" [] OTHER -> name
EmitSwitches(acc, flags) ==
    LET kept == SelectSeq(flags, LAMBDA f : f \in Switches) IN
    Emit(acc, [i \in DOMAIN kept |-> Short(kept[i])])

\* An option that takes a value: attached to it, or the next word, whatever it looks like.
TakeValue(acc, flag, w) ==
    LET opened == [Emit(acc, <<Short(flag)>>) EXCEPT !.regexp = @ \/ flag = "e"] IN
    IF w.inline = {} THEN [opened EXCEPT !.wants = "value"]
    ELSE Emit(opened, <<PlainWord(Attached(w))>>)

ParseRgLong(acc, w) ==
    CASE ShortOf(w.name) \in Switches /\ w.inline = {} -> EmitSwitches(acc, <<ShortOf(w.name)>>)
      [] w.name = "json" /\ w.inline = {} -> Emit(acc, <<w>>)
      [] ShortOf(w.name) \in Takers -> TakeValue(acc, ShortOf(w.name), w)
      [] OTHER -> Rejecting(acc)
\* A bundle is read up to the first option that takes a value, which takes the rest.
ParseRgShort(acc, w) ==
    LET switches == SelectSeq(w.flags, LAMBDA f : f \in Switches) IN
    CASE switches = w.flags -> EmitSwitches(acc, w.flags)
      [] switches = Front(w.flags) /\ Last(w.flags) \in Takers ->
             TakeValue(EmitSwitches(acc, w.flags), Last(w.flags), w)
      [] OTHER -> Rejecting(acc)
RgStep(acc, w) ==
    IF acc.wants # "" THEN [Emit(acc, <<PlainWord(w.text)>>) EXCEPT !.wants = ""]
    ELSE IF acc.after \/ IsPlain(w) THEN [acc EXCEPT !.free = Append(@, w)]
    ELSE IF w.is = "dashes" THEN [acc EXCEPT !.after = TRUE]
    ELSE IF w.is = "long" THEN ParseRgLong(acc, w) ELSE ParseRgShort(acc, w)

ParseGrepLong(acc, w) ==
    CASE w.name \in {"recursive", "dereference-recursive"} /\ w.inline = {} -> [acc EXCEPT !.recursive = TRUE]
      [] ShortOf(w.name) \in Switches /\ w.inline = {} -> EmitSwitches(acc, <<ShortOf(w.name)>>)
      [] w.name = "binary-files" /\ w.inline = {} -> [acc EXCEPT !.wants = "binary"]
      [] w.name = "binary-files" /\ w.inline = {WithoutMatch} -> acc
      [] OTHER -> Rejecting(acc)
ParseGrepShort(acc, w) ==
    IF Range(w.flags) \subseteq Switches \cup {"R", "r", "I"}
    THEN [EmitSwitches(acc, w.flags) EXCEPT !.recursive = @ \/ Range(w.flags) \cap {"R", "r"} # {}]
    ELSE Rejecting(acc)
GrepStep(acc, w) ==
    IF acc.wants # "" THEN IF w.text = WithoutMatch THEN [acc EXCEPT !.wants = ""] ELSE Rejecting(acc)
    ELSE IF acc.after \/ IsPlain(w) THEN [acc EXCEPT !.free = Append(@, w)]
    ELSE IF w.is = "dashes" THEN [acc EXCEPT !.after = TRUE]
    ELSE IF w.is = "long" THEN ParseGrepLong(acc, w) ELSE ParseGrepShort(acc, w)

\* The plain words are set behind "--", so that none is read as an option or a subcommand.
SeparatedMutant(acc) == acc.out \o acc.free
Separated(acc) == IF acc.free = <<>> THEN acc.out ELSE acc.out \o <<EndOfOptions>> \o acc.free
RewriteRg(words) ==
    LET acc == FoldLeft(LAMBDA a, w : IF a.ok THEN RgStep(a, w) ELSE a, Unread, words) IN
    IF acc.ok /\ acc.wants = "" /\ (acc.regexp \/ acc.free # <<>>) THEN {Separated(acc)} ELSE {}
RewriteGrep(words) ==
    LET acc == FoldLeft(LAMBDA a, w : IF a.ok THEN GrepStep(a, w) ELSE a, Unread, words) IN
    IF acc.ok /\ acc.wants = "" /\ acc.recursive /\ Len(acc.free) >= 2 THEN {Separated(acc)} ELSE {}

-------------------------------------------------------------------------------
(* rewrite.rs: a line is rewritten as a whole or not at all *)

Assignments(words) == Cardinality({i \in DOMAIN words : \A j \in 1 .. i : words[j].is = "env"})
Programs(words) == {words[i].name : i \in DOMAIN words \cap {Assignments(words) + 1}}
ArgWords(words) == SubSeq(words, Assignments(words) + 2, Len(words))
Searches(item) == ~IsMark(item) /\ Programs(item.words) \cap {"rg", "grep"} # {}
RewriteWords(words) ==
    {Leading(Assignments(words), words) \o <<Word0("plain", "st")>> \o new :
        new \in IF Programs(words) = {"rg"} THEN RewriteRg(ArgWords(words)) ELSE RewriteGrep(ArgWords(words))}

\* What rewrite_shell_command makes of a line; a set of at most one.
RewriteLine(line) ==
    LET items == Parse(line)
        rewritten == [i \in DOMAIN items |->
            CASE IsMark(items[i]) -> {<<items[i]>>}
              [] Searches(items[i]) -> RewriteWords(items[i].words)
              [] OTHER -> {items[i].words}]
    IN  IF \/ Unclosed(line) \/ HasExpansion(line) \/ Refuses(line)
           \/ \A item \in Range(items) : ~Searches(item)
           \/ {} \in Range(rewritten)
        THEN {}
        ELSE {FlattenSeq([i \in DOMAIN items |-> CHOOSE words \in rewritten[i] : TRUE])}
RewriteForCwd == IF session.indexed THEN RewriteLine(session.line) ELSE {}

-------------------------------------------------------------------------------
(* hook/protocols: what the hook says to each agent *)

Shells(agent) == CASE agent = "claude" -> {"Bash"}
                   [] agent = "vscode" -> {"runTerminalCommand", "Bash", "bash"}
                   [] agent = "copilot" -> {"bash"}
                   [] agent = "gemini" -> {"run_shell_command"}
                   [] OTHER -> {session.call}
Verdict(agent) == CASE agent \in {"claude", "vscode", "cursor"} -> "ask"
                    [] agent = "copilot" -> "deny"
                    [] OTHER -> "replace"
Decided(decision, line) == [pc |-> "decided", decision |-> decision, line |-> line]

\* Nothing is said of a request that cannot be read in time, of another tool, or of a line
\* that stays as it is; the Grep tool of an indexed repository is refused.
Respond ==
    /\ cli.pc = "hook"
    /\ LET asked == session.heard /\ session.call \in Shells(session.agent) IN
       cli' = CASE session.heard /\ session.agent = "claude" /\ session.call = "Grep" /\ session.indexed ->
                       Decided("refuse", <<>>)
                [] asked /\ RewriteForCwd # {} ->
                       Decided(Verdict(session.agent), CHOOSE line \in RewriteForCwd : TRUE)
                [] OTHER -> Decided("pass", session.line)
    /\ Still

-------------------------------------------------------------------------------
(* cli/args and cli/mod.rs: what st makes of its words *)

Given(acc, flag, value) == [acc EXCEPT !.given = Append(@, <<flag, value>>), !.wants = ""]
TakeOrWait(acc, flag, w) == IF w.inline = {} THEN [acc EXCEPT !.wants = flag] ELSE Given(acc, flag, Attached(w))
ReadStep(acc, w, reserved) ==
    IF acc.wants # "" THEN Given(acc, acc.wants, w.text)
    ELSE IF acc.after \/ IsPlain(w)
    THEN [acc EXCEPT !.free = Append(@, w.text),
                     !.flags = IF acc.after \/ w.text \notin reserved THEN @ ELSE @ \cup {"managed"}]
    ELSE IF w.is = "dashes" THEN [acc EXCEPT !.after = TRUE]
    ELSE IF w.is = "long"
    THEN IF ShortOf(w.name) \in Takers \cup {"binary-files"} THEN TakeOrWait(acc, ShortOf(w.name), w)
         ELSE [acc EXCEPT !.flags = @ \cup {ShortOf(w.name)}]
    ELSE LET read == [acc EXCEPT !.flags = @ \cup (Range(w.flags) \ Takers)] IN
         IF Last(w.flags) \in Takers THEN TakeOrWait(read, Last(w.flags), w) ELSE read
Values(given, flag) ==
    LET of == SelectSeq(given, LAMBDA g : g[1] = flag) IN [i \in DOMAIN of |-> of[i][2]]

\* Before "--" a plain word may be a subcommand, which is no search ("managed").
\* Several -e are one pattern of alternatives; without any the first plain word is the pattern.
Effective(values, fixed) ==
    LET Regex(v) == IF fixed THEN [op |-> "lit", text |-> v.text] ELSE v.hir IN
    IF Len(values) > 1
    THEN [literal |-> FALSE, hir |-> [op |-> "alt", subs |-> [i \in DOMAIN values |-> Regex(values[i])]]]
    ELSE IF fixed \/ values[1].hir.op = "lit" THEN [literal |-> TRUE, text |-> values[1].text]
    ELSE [literal |-> FALSE, hir |-> values[1].hir]
ArgsOf(words, reserved) ==
    LET read == FoldLeft(LAMBDA acc, w : ReadStep(acc, w, reserved),
                         [flags |-> {}, given |-> <<>>, free |-> <<>>, after |-> FALSE, wants |-> ""],
                         words)
        regexps == Values(read.given, "e")
        globs == Values(read.given, "g")
        types == Values(read.given, "t")
        patterns == IF regexps = <<>> THEN Leading(1, read.free) ELSE regexps
        paths == IF regexps = <<>> THEN Tail(read.free) ELSE read.free
    IN  [session.args EXCEPT
            !.pattern = Effective(patterns, "F" \in read.flags) @@ [ci |-> "i" \in read.flags, wrap |-> "none"],
            !.paths = [i \in DOMAIN paths |-> paths[i].path],
            !.types = {value.type : value \in Range(types)},
            !.globs = [i \in DOMAIN globs |-> globs[i].glob],
            !.flags = read.flags \cap {"json", "managed"}]

\* The agent runs the st of the line it was offered.
Offered == cli.decision \notin {"pass", "refuse"}
RunSt == /\ cli.pc = "decided" /\ Offered
         /\ \E item \in Range(Parse(cli.line)) :
               /\ ~IsMark(item) /\ Programs(item.words) = {"st"}
               /\ session' = [session EXCEPT !.args = ArgsOf(ArgWords(item.words), Subcommand)]
         /\ cli' = [pc |-> "check"]
         /\ UNCHANGED <<corpus, query, run>>

HookInit == /\ \E family \in Request : session \in family
            /\ corpus \in Corpus /\ query = Options({})
            /\ run = Idle /\ cli = [pc |-> "hook"]
AgentInit == CliInit \/ HookInit
AgentNext == CliNext \/ Respond \/ RunSt
AgentSpec == AgentInit /\ [][AgentNext]_allVars

-------------------------------------------------------------------------------
(* Properties *)

\* To a shell a line end ends a command.
Shelled(line) ==
    Parse([i \in DOMAIN line |-> IF IsMark(line[i]) /\ line[i].name = "newline"
                                 THEN [line[i] EXCEPT !.name = ";"] ELSE line[i]])
\* What the hook does not look at: a line end between commands, a wildcard the shell would
\* expand, and that grep reads a basic regex.
Overlooked ==
    \/ \E t \in Range(session.line) : (IsMark(t) /\ t.name = "newline") \/ t.is = "wildcard"
    \/ \E item \in Range(Parse(session.line)) :
          /\ ~IsMark(item) /\ Programs(item.words) = {"grep"}
          /\ \E w \in Range(item.words) : w.text \notin BasicToo

\* A line an agent is given instead of its own runs the same commands in the same order, and
\* each st in it asks what the rg or grep in its place asked: the same pattern, paths, filters
\* and form of answer, however the options were ordered, bundled and spelled; one search that
\* st would answer differently leaves the whole line as it was.
RewriteKeepsMeaning ==
    cli.pc = "decided" /\ Offered /\ ~Overlooked =>
        LET old == Shelled(session.line)
            new == Shelled(cli.line)
        IN  /\ Len(new) = Len(old)
            /\ \A i \in DOMAIN old :
                  IF ~Searches(old[i]) THEN new[i] = old[i]
                  ELSE LET before == old[i].words
                           after == new[i].words
                       IN  /\ Programs(after) = {"st"}
                           /\ Leading(Assignments(before), before) = Leading(Assignments(after), after)
                           /\ ArgsOf(ArgWords(after), Subcommand) = ArgsOf(ArgWords(before), {})

===============================================================================
