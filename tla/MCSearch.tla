-------------------------------- MODULE MCSearch --------------------------------
(* Instances of Search, CliSearch and AgentHooks for TLC. *)
EXTENDS AgentHooks

CONSTANTS Classes \* character classes of the regexes

LineFeed == "\n"
Return == "\r"
Drawn == {{"a", "b"}}
Letters == {"a", "b", "A", "e", "E"}
Chars == Letters \cup {"_", "\n", "\r"}
\* E and e stand for one letter of several bytes in its two cases, _ for a delimiter that is of no word.
OneByte == Letters \ {"e", "E"}
AsciiLower == [c \in Chars |-> IF c = "A" THEN "a" ELSE c]
UnicodeLower == [AsciiLower EXCEPT !["E"] = "e"]
Delimiters == {"_", "\n", "\r"}
Joints == {<<"b", "b">>}

Lit(t) == [op |-> "lit", text |-> t]
Set(s) == [op |-> "class", set |-> s]
Cat(a, b) == [op |-> "cat", subs |-> <<a, b>>]
Alt(a, b) == [op |-> "alt", subs |-> <<a, b>>]
Rep(a, n, m) == [op |-> "rep", min |-> n, max |-> m, sub |-> a]
Cap(a) == [op |-> "cap", sub |-> a]

Token == Lit(<<"_", "a", "b", "_">>)
Part == Lit(<<"a", "b">>)
Hirs ==
    {Cat(Rep(Cap(Token), 0, 1), Lit(<<"a">>)), Alt(Token, Part), Alt(Token, Lit(<<"_", "b", "b", "_">>)),
     Cat(Part, Alt(Lit(<<"_">>), Lit(<<"a", "_">>))), Rep(Cap(Lit(<<"_", "a", "b">>)), 2, 2),
     Cat(Rep(Token, 1, 2), Lit(<<"b">>)), Rep(Lit(<<"a">>), 0, 2), [op |-> "look"],
     Cat(Lit(<<"_", "a", "b">>), Lit(<<"\n">>))}
    \cup {Cat(Token, Set(c)) : c \in Classes} \cup {Cat(Lit(<<"a">>), Rep(Set(c), 0, 2)) : c \in Classes}

\* Alternatives that differ at their edges, at one only, or not at all.
Wrapped ==
    {Alt(Part, Lit(<<"_", "a">>)), Alt(Part, Lit(<<"a", "_">>)), Alt(Lit(<<"a">>), Lit(<<"b">>)),
     Cat(Lit(<<"a">>), Rep(Lit(<<"_">>), 0, 1)), Cat(Part, Alt(Lit(<<"_">>), Lit(<<"a">>))), Set({"a", "_"}), Token}

Literals == {<<>>, <<"b", "e">>, <<"a">>, <<"a", "b">>, <<"_", "a", "b", "_">>, <<"b", "_", "a">>, <<"_", "b", "b">>,
             <<"_", "a", "a", "_">>, <<"_", "b", "e", "_">>}

Wraps == {"none", "word", "line"}
Options0 == [ci : {FALSE}, wrap : {"none"}, limit : {0}, deterministic : {FALSE}]
Limits == [ci : {FALSE}, wrap : {"none"}, limit : {1, 2}, deterministic : BOOLEAN]
AnyPath == [filter |-> {}, types |-> {}, nots |-> {}]
Asked(literal, pattern, o) ==
    (IF literal THEN [literal |-> TRUE, text |-> pattern] ELSE [literal |-> FALSE, hir |-> pattern])
    @@ o @@ AnyPath
Filters == [filter : {{}, {[dir |-> TRUE, rel |-> <<"lib">>]}, {[dir |-> FALSE, rel |-> <<"a.rs">>]},
                      {[dir |-> FALSE, rel |-> <<"lib", "a.rs">>]}},
            types : {{}, {"rs"}}, nots : {{}, {"md"}}]
Asks == UNION {
    {Asked(TRUE, t, o) : t \in Literals, o \in [ci : BOOLEAN, wrap : Wraps, limit : {0}, deterministic : {FALSE}]},
    {Asked(FALSE, h, o) : h \in Hirs, o \in Options0},
    {Asked(FALSE, h, o) : h \in Wrapped, o \in [ci : {FALSE}, wrap : {"word", "line"}, limit : {0}, deterministic : {FALSE}]},
    {Asked(TRUE, t, o) : t \in {<<"a", "b">>, <<>>}, o \in Limits},
    {Asked(FALSE, h, o) : h \in {Rep(Lit(<<"a">>), 0, 2)}, o \in Limits},
    {f @@ Asked(TRUE, <<"a">>, o) : o \in Options0, f \in Filters}}

Texts == {<<"b", "a", "b", "\n", "b">>, <<"_", "a", "A", "_">>, <<"_", "a", "a", "_">>, <<"a", "_", "a", "b", "_", "a", "b">>,
          <<"\n", "a", "b", "\r", "\n", "_", "a", "b", "_">>, <<"_", "b", "b", "_", "\n", "a">>,
          <<"_", "b", "e", "_">>, <<"_", "b", "E", "_">>, <<>>}
Docs ==
    [text : Texts, place : {"base", "overlay"}, readable : {TRUE}]
    \cup [text : {<<"_", "a", "b", "_">>}, place : {"base", "edited", "deleted"}, readable : BOOLEAN]

-------------------------------------------------------------------------------
(* The command line *)

Names == {"a.rs", "b.md", "lib", "src", "xa.rs"}
Stems == [n \in Names |-> CASE n = "a.rs" -> "a" [] n = "b.md" -> "b" [] n = "xa.rs" -> "xa" [] OTHER -> n]
Exts == [n \in Names |-> CASE n \in {"a.rs", "xa.rs"} -> "rs" [] n = "b.md" -> "md" [] OTHER -> "none"]
Endings == {<<n, n>> : n \in Names} \cup {<<"xa.rs", "a.rs">>}
Beginnings == {<<n, n>> : n \in Names}
Places == <<<<"a.rs">>, <<"lib", "a.rs">>, <<"lib", "src", "b.md">>>>

File(t, p, r) == [text |-> t, place |-> p, readable |-> r]
Two == <<"a", "\n", "b", "\n", "a", "a">>
One == <<"b", "\n", "a">>
None == <<"b", "\n", "b">>
Indexes == {<<File(Two, "base", TRUE), File(One, "edited", TRUE), File(None, "overlay", TRUE)>>,
            <<File(Two, "base", TRUE), File(Two, "edited", TRUE), File(One, "overlay", TRUE)>>,
            <<File(One, "deleted", TRUE), File(Two, "base", TRUE), File(One, "base", FALSE)>>}

Text(t) == [literal |-> TRUE, text |-> t, ci |-> FALSE, wrap |-> "none"]
Plain == [pattern |-> Text(<<"a">>), paths |-> <<>>, types |-> {}, nots |-> {}, globs |-> <<>>, depth |-> {},
          count |-> {}, results |-> {}, before |-> 0, after |-> 0, flags |-> {}]
Tty == [piped |-> FALSE, readable |-> TRUE, text |-> <<>>]
Pipe(t) == [piped |-> TRUE, readable |-> TRUE, text |-> t]
Shell == [args |-> Plain, cwd |-> <<>>, stdin |-> Tty, index |-> "there", sink |-> "open", tool |-> "rg"]
With(a) == a @@ Plain
In(s, a) == [args |-> With(a)] @@ s @@ Shell

Glob(exclude, base, set) == [exclude |-> exclude, base |-> base, set |-> set, malformed |-> FALSE]
Rs == Glob(FALSE, TRUE, {<<"a.rs">>, <<"xa.rs">>})
NoSrc == Glob(TRUE, FALSE, {<<"lib", "src", "b.md">>})
NotA == Glob(TRUE, TRUE, {<<"a.rs">>})
GlobLists == {<<>>, <<Rs>>, <<NoSrc>>, <<NotA, Rs>>, <<Rs, NotA>>}
Lib == <<"lib">>
Scopes == {<<>>, <<Lib>>, <<<<"a.rs">>>>, <<<<"a.rs">>, <<"lib", "src">>>>, <<Lib, <<"lib", "a.rs">>>>,
           <<<<"xa.rs">>>>, <<<<"xa.rs">>, <<"a.rs">>>>, <<<<"..", "lib", ".">>>>}
ScopeSessions == {
    {In([cwd |-> c], [paths |-> p, globs |-> g, depth |-> d]) :
        c \in {<<>>}, p \in Scopes, g \in GlobLists, d \in {{}, {0}, {1}}},
    {In([cwd |-> c], [paths |-> p, types |-> t, nots |-> n, count |-> m]) :
        c \in {<<>>, Lib}, p \in Scopes, t \in {{}, {"rs"}}, n \in {{}, {"md"}}, m \in {{}, {1}}}}

Pipeline == <<"-">>
Mixes == {<<>>, <<Pipeline>>, <<Pipeline, Pipeline>>, <<Pipeline, Lib>>, <<Lib, Pipeline>>, <<<<"a.rs">>, Pipeline>>}
Flags == {"without", "l", "count", "json", "quiet", "only", "count_matches", "invert"}
Overriding == {"without", "l", "count", "json", "count_matches"}
Modes == {f \in SUBSET Flags : Cardinality(f) <= 3 /\ Cardinality(f \cap Overriding) <= 1}
ModeSessions == {
    {In([stdin |-> s], [paths |-> p, flags |-> f, count |-> m]) :
        s \in {Tty, Pipe(Two), Pipe(<<"b">>), Pipe(<<"a", "0", "b">>)}, p \in Mixes, f \in Modes, m \in {{}, {1}}},
    {In([stdin |-> Pipe(One)], [paths |-> p, flags |-> f, before |-> 1, pattern |-> Text(t)]) :
        p \in {<<Lib>>, <<<<"a.rs">>, Pipeline>>}, f \in {{}, {"json"}, {"only"}, {"h"}, {"count_matches"}},
        t \in {<<"a">>, <<>>}},
    {In([stdin |-> s], [paths |-> p, flags |-> f, pattern |-> [Text(<<"a">>) EXCEPT !.wrap = w]]) :
        s \in {Tty, Pipe(Two)}, p \in {<<>>, <<Pipeline, Lib>>}, w \in Wraps,
        f \in {{}, {"invert"}, {"l"}, {"count"}, {"count_matches"}, {"json"}}},
    {In([stdin |-> Pipe(Two), cwd |-> c], [paths |-> p, flags |-> f, before |-> 1, globs |-> g]) :
        c \in {<<>>, Lib}, p \in Scopes \cup Mixes, f \in Modes, g \in {<<>>, <<NotA>>}}}

CapSessions ==
    {In([stdin |-> s], [paths |-> p, flags |-> f, results |-> {n}, count |-> m, globs |-> g]) :
        s \in {Tty, Pipe(One)}, p \in {<<>>, <<Lib>>, <<Pipeline, Lib>>, <<Pipeline>>}, f \in {{}, {"l"}, {"json"}}, n \in 0 .. 3,
        m \in {{}, {1}}, g \in {<<>>, <<NotA>>}}

ListSessions ==
    {In([index |-> i, sink |-> k], [flags |-> {"files"}, paths |-> p, globs |-> g, depth |-> d, results |-> r]) :
        i \in {"there", "missing"}, k \in {"open", "full"}, p \in Scopes \cup {<<Pipeline>>, <<<<"gone">>, Lib>>},
        g \in GlobLists, d \in {{}, {1}}, r \in {{}, {1}}}
ReservedSessions ==
    {In([cwd |-> <<>>], [flags |-> f, paths |-> p, depth |-> d]) :
        f \in {{}, {"without"}, {"invert"}}, p \in {<<<<".">>, Lib>>, <<<<".">>>>, <<Lib>>}, d \in {{}, {0}}}

Bad == [exclude |-> FALSE, base |-> TRUE, set |-> {}, malformed |-> TRUE]
FailSessions == {
    {In([index |-> i, tool |-> t, stdin |-> s], [paths |-> p]) :
        i \in {"missing", "broken"}, t \in {"rg", "grep", "none", "off"}, s \in {Tty, Pipe(One)}, p \in {<<Lib>>, <<Pipeline, Lib>>}},
    {In([sink |-> k, stdin |-> Pipe(One)], [paths |-> p, flags |-> f]) :
        k \in {"closed", "full"}, p \in Mixes, f \in Modes},
    {In([stdin |-> s], [paths |-> p, flags |-> f, results |-> r]) :
        s \in {Tty, [Pipe(One) EXCEPT !.readable = FALSE]}, f \in Modes, r \in {{}, {1}},
        p \in {<<Pipeline>>, <<Pipeline, Lib>>, <<<<"gone">>>>, <<<<"gone">>, <<"a.rs">>>>}},
    {In([sink |-> k], a) : k \in {"open", "closed"},
            a \in {[globs |-> <<Bad>>], [pattern |-> Text(<<"\n">>)], [paths |-> <<<<"gone">>, Lib>>]}}}
Sessions == {ListSessions, ReservedSessions, CapSessions} \cup ScopeSessions \cup ModeSessions \cup FailSessions
Caller == [library |-> TRUE]

-------------------------------------------------------------------------------
(* Agents *)

Value(t, h, p, g, type) == [text |-> t, hir |-> h, path |-> p, glob |-> g, type |-> type]
Blank == Value(<<"_">>, Lit(<<"_">>), <<"gone">>, Rs, "rs")
Reserved == Value(<<"e">>, Lit(<<"e">>), <<"gone">>, Rs, "rs")
Harmless == Value(<<"E">>, Lit(<<"E">>), <<"gone">>, Rs, "rs")
ValueA == Value(<<"a">>, Lit(<<"a">>), <<"a.rs">>, Rs, "rs")
ValueB == Value(<<"b">>, Lit(<<"b">>), Lib, NotA, "md")
ValueAB == Value(<<"A">>, Alt(Lit(<<"a">>), Lit(<<"b">>)), <<"gone">>, Rs, "rs")
Subcommands == {Reserved}
Basics == {Blank, Reserved, Harmless, ValueA, ValueB}

Named0(name, value) == [is |-> "plain", name |-> name, flags |-> <<>>, inline |-> {}, text |-> value]
Option(name, inline) == [Named0(name, Blank) EXCEPT !.is = "long", !.inline = inline]
Bundle(flags, inline) == [Named0("", Blank) EXCEPT !.is = "short", !.flags = flags, !.inline = inline]
Mark(name) == [is |-> "mark", name |-> name]
Token0(kind) == [Named0("", Blank) EXCEPT !.is = kind]

RgWords == {PlainWord(ValueA), PlainWord(ValueB), PlainWord(Reserved), EndOfOptions,
            Option("line-number", {}), Option("json", {}), Option("type", {}), Option("glob", {ValueB}),
            Bundle(<<"i", "n">>, {}), Bundle(<<"i", "e">>, {}), Bundle(<<"e">>, {ValueAB}), Bundle(<<"v">>, {})}
GrepWords == {PlainWord(ValueA), PlainWord(ValueB), PlainWord(Harmless), EndOfOptions, Option("recursive", {}),
              Option("binary-files", {}), Option("binary-files", {Harmless}), Bundle(<<"i", "R">>, {}),
              Bundle(<<"r", "c">>, {})}
Line(name, words) == <<Named0(name, Blank)>> \o words
Agent == [agent |-> "claude", call |-> "Bash", heard |-> TRUE, indexed |-> TRUE, line |-> <<>>] @@ Shell
Rg == Line("rg", <<PlainWord(ValueA)>>)
Grep == Line("grep", <<Bundle(<<"r">>, {}), PlainWord(ValueB), PlainWord(ValueB)>>)
Other == Line("ls", <<PlainWord(ValueB)>>)
Marks == {Mark("&&"), Mark(";"), Mark("|"), Mark(">"), Mark("&"), Mark("newline")}
Requests == {
    {[line |-> Line("rg", w)] @@ Agent : w \in SeqOf(RgWords, 3)},
    {[line |-> Line("grep", w)] @@ Agent : w \in SeqOf(GrepWords, 4)},
    {[line |-> a \o <<m>> \o b] @@ Agent : a \in {Rg, Other, <<Token0("env")>> \o Grep, <<Token0("env")>>},
        m \in Marks, b \in {Rg, Grep, Other, <<>>, Line("rg", <<Bundle(<<"v">>, {})>>)}},
    {[line |-> Append(l, Token0(k))] @@ Agent : l \in {Rg, Grep, Other}, k \in {"quote", "expansion", "wildcard"}},
    {[line |-> l, agent |-> a, call |-> c, heard |-> h, indexed |-> i] @@ Agent :
        l \in {Rg, Other}, a \in {"claude", "vscode", "copilot", "gemini", "cursor", "opencode"},
        c \in {"Bash", "bash", "Grep", "run_shell_command"}, h \in BOOLEAN, i \in BOOLEAN}}
===============================================================================
