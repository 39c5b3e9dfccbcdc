-------------------------------- MODULE CliSearch --------------------------------
(***************************************************************************)
(* st PATTERN [PATH]...: the arguments are checked, a piped stream is read *)
(* first, the index is searched once for every path argument, the matches  *)
(* are merged, filtered, joined with the stream's and shown in the form    *)
(* asked for; the exit code says what was found.  The searches are those   *)
(* of Search, whose threads run here.                                      *)
(*                                                                         *)
(* What is printed is a sequence of rows <<kind, file, line, number>>;     *)
(* file 0 is the stream.  Prefixes, colours and the layout of a line are   *)
(* left out, but for whether file names are shown.                         *)
(***************************************************************************)
EXTENDS Search

CONSTANTS Session,   \* families of invocations [args, cwd, stdin, index, sink, tool]
          Library,   \* a session that is not the command line's: a caller of the library
          Corpus,    \* the indexes the command line is run on
          Dash,      \* the argument "-"
          NUL        \* a byte of a binary stream

VARIABLES session, \* the invocation; args: [pattern, paths, types, nots, globs, depth, count,
                   \* results, before, after, flags]
          cli      \* where it is

cliVars == <<session, cli>>
allVars == <<corpus, query, run, session, cli>>

args == session.args
Has(flag) == flag \in args.flags
Stream == 0
Idle == [pc |-> "idle"]

-------------------------------------------------------------------------------
(* Before the index: conflicts of the arguments, and the stream *)

BadGlob == \E g \in Range(args.globs) : g.malformed
Conflict == args.results # {} /\ args.flags \cap {"count", "count_matches", "invert", "without", "files"} # {}

RealPaths == SelectSeq(args.paths, LAMBDA p : p # Dash \/ Has("files"))
Dashes == {i \in DOMAIN args.paths : args.paths[i] = Dash}

\* decide_stdin: "-" always, no path at all when something is piped.
Decision ==
    CASE Dashes # {} -> IF Len(args.paths) = 1 THEN "stream" ELSE "both"
      [] args.paths = <<>> /\ session.stdin.piped -> "stream"
      [] OTHER -> "index"

\* dash_precedes_real_paths
StreamFirst == \A i \in DOMAIN args.paths : args.paths[i] = Dash
                                           \/ \E j \in Dashes : j < i

\* A NUL ends a line of the stream.
Binary == NUL \in Range(session.stdin.text)
Content == [i \in DOMAIN session.stdin.text |->
              IF session.stdin.text[i] = NUL THEN NL ELSE session.stdin.text[i]]
TextOf(f) == IF f = Stream THEN Content ELSE corpus[f].text

\* for_each_line, and the submatches of a line.
LinesOf(t) == SetToSortSeq({s \in {0} \cup {p + 1 : p \in Newlines(t, 0, Len(t))} : s < Len(t)}, <)
LineText(t, start) == SubSeq(t, start + 1, ContentEnd(t, start, LineEnd(t, start)))
Submatches(line) == FindIter(Hits(args.pattern, line), Len(line), 0, 0)

\* for_each_inverted_line: the lines the pattern does not match.
Inverted(t) ==
    LET starts == LinesOf(t)
        lines == SelectSeq([i \in DOMAIN starts |-> i],
                           LAMBDA i : Hits(args.pattern, LineText(t, starts[i])) = {})
    IN  [i \in DOMAIN lines |-> [line |-> lines[i], from |-> 0, to |-> 0]]

\* truncate_matches_per_file: runs of one file are next to each other.
PerFile(matches, most) ==
    IF most = {} THEN matches
    ELSE LET kept == {i \in DOMAIN matches : \A n \in most :
                        Cardinality({j \in 1 .. i : matches[j][1] = matches[i][1]}) <= n}
         IN  [k \in 1 .. Cardinality(kept) |-> matches[SetToSortSeq(kept, <)[k]]]

\* collect_stdin: path filters do not apply to a stream; its lines are replaced by a notice
\* when it is binary and lines were to be printed.
Listing == {"count", "count_matches", "l", "without", "quiet", "json"}
Collected ==
    LET found == IF Has("invert") THEN Inverted(Content) ELSE VerifyHits(args.pattern, Content, TRUE)
        kept == PerFile([i \in DOMAIN found |-> <<Stream, found[i]>>], args.count)
        notice == Binary /\ args.flags \cap Listing = {} /\ kept # <<>>
    IN  [matches |-> IF notice THEN <<>> ELSE kept, notice |-> notice, first |-> StreamFirst]

-------------------------------------------------------------------------------
(* The files a search covers *)

Disk == {PathOf[d] : d \in {e \in Ids : corpus[e].readable /\ corpus[e].place # "deleted"}}
Specs == PathSpecs(Disk, session.cwd, RealPaths)
Missing == {i \in DOMAIN RealPaths : ~Exists(Disk, Relativized(session.cwd, RealPaths[i]))}

\* library_max_results: a limit reaches the library only when nothing after it drops matches,
\* and with one more than is asked for, to know whether there was more.
PushdownMutant(filtered) ==
    IF args.results = {} \/ filtered THEN 0 ELSE Max(args.results) + 1
Pushdown(filtered) ==
    IF \/ args.results = {} \/ filtered \/ args.types # {} \/ args.nots # {} \/ args.globs # <<>>
       \/ args.depth # {} \/ args.count # {}
       \/ args.flags \cap {"l", "without", "count", "count_matches", "invert"} # {}
    THEN 0 ELSE Max(args.results) + 1

\* search_options, for the whole index or for one path argument.
Options(filter) ==
    args.pattern @@ [limit |-> Pushdown(filter # {}), deterministic |-> FALSE, filter |-> filter,
                     types |-> args.types, nots |-> args.nots]
Queries == IF Specs = <<>> THEN <<Options({})>>
           ELSE [i \in DOMAIN Specs |-> Options({Specs[i]})]

\* apply_post_filters
PostFilter(matches) ==
    LET kept == SelectSeq(matches, LAMBDA m :
                    /\ MatchesAnySpec(PathOf[m[1]], Specs)
                    /\ MatchesOptionalGlob(PathOf[m[1]], args.types, args.nots, args.globs)
                    /\ WithinDepth(PathOf[m[1]], Specs, args.depth))
    IN  PerFile(kept, args.count)

\* collect_scoped_paths: the paths of the snapshot, whatever their depth.
Scoped == SelectSeq([d \in Ids |-> d], LAMBDA d :
              /\ PathOf[d] \in Range(PathIx.slots)
              /\ MatchesAnySpec(PathOf[d], Specs)
              /\ MatchesOptionalGlob(PathOf[d], args.types, args.nots, args.globs))

\* splice_stdin_half: the stream's matches stand where "-" stood among the arguments.
SpliceMutant(half, matches) == FoldSet(LAMBDA h, acc : h.matches \o acc, matches, half)
Splice(half, matches) ==
    FoldSet(LAMBDA h, acc : IF h.first THEN h.matches \o acc ELSE acc \o h.matches, matches, half)
WithStream(half, files) ==
    FoldSet(LAMBDA h, acc : IF h.first THEN <<Stream>> \o acc ELSE acc \o <<Stream>>, files, half)

-------------------------------------------------------------------------------
(* What is printed for a list of matches *)

FilesOf(matches) == SetToSortSeq({m[1] : m \in Range(matches)}, <)
LinesIn(matches, f) == {m[2].line : m \in {n \in Range(matches) : n[1] = f}}
ForEach(seq, Op(_)) == FoldLeft(LAMBDA acc, x : acc \o Op(x), <<>>, seq)

Leading(n, seq) == SubSeq(seq, 1, Min({n, Len(seq)}))

\* apply_max_results: under -l the limit counts files.
Capped(matches) ==
    IF args.results = {} THEN matches
    ELSE LET n == Max(args.results) IN
         IF Has("l")
         THEN SelectSeq(matches, LAMBDA m : m[1] \in Range(Leading(n, FilesOf(matches))))
         ELSE Leading(n, matches)
Truncated(matches) == Len(Capped(matches)) < Len(matches)

\* render_only_matching: every submatch that is not empty; an inverted line as a whole.
OnlyRows(f, line) ==
    LET subs == SelectSeq(Submatches(LineText(TextOf(f), LinesOf(TextOf(f))[line])),
                          LAMBDA h : h.from < h.to)
    IN  IF Has("invert") THEN <<<<"match", f, line, 0>>>>
        ELSE [i \in DOMAIN subs |-> <<"only", f, line, subs[i].from>>]
MatchRows(f, line) == IF Has("only") /\ ~Has("json") THEN OnlyRows(f, line) ELSE <<<<"match", f, line, 0>>>>

\* render_with_context, render_json: by file, the matching lines and those around them.
Around(f, lines) ==
    {i \in DOMAIN LinesOf(TextOf(f)) : \E l \in lines : l <= i + args.before /\ i <= l + args.after}
Block(f, lines) ==
    ForEach(SetToSortSeq(Around(f, lines), <),
            LAMBDA i : IF i \in lines THEN MatchRows(f, i) ELSE <<<<"context", f, i, 0>>>>)
Blocks(matches) == ForEach(FilesOf(matches), LAMBDA f : Block(f, LinesIn(matches, f)))
Summary(n, cut) == <<<<"summary", 0, n, IF cut THEN 1 ELSE 0>>>>

\* render_count_matches
CountsMatches == Has("count_matches") \/ (Has("count") /\ Has("only"))
SubmatchCount(matches, f) ==
    FoldSet(LAMBDA l, acc : acc + Len(Submatches(LineText(TextOf(f), LinesOf(TextOf(f))[l]))), 0,
            LinesIn(matches, f))
FileRows(files) == [i \in DOMAIN files |-> <<"file", files[i], 0, 0>>]
CountRows(files, Count(_)) ==
    SelectSeq([i \in DOMAIN files |-> <<"count", files[i], Count(files[i]), 0>>],
              LAMBDA r : r[3] > 0)

\* render_capped: what comes first among the modes asked for.
Unmatched(matches, inputs) == SelectSeq(inputs, LAMBDA f : \A m \in Range(matches) : m[1] # f)
Rows(matches, inputs, cut) ==
    IF Has("without") THEN IF Has("quiet") THEN <<>> ELSE FileRows(Unmatched(matches, inputs))
    ELSE IF matches = <<>> THEN IF Has("json") THEN Summary(0, cut) ELSE <<>>
    ELSE IF Has("quiet") THEN <<>>
    ELSE IF Has("l") THEN FileRows(FilesOf(matches))
    ELSE IF CountsMatches THEN CountRows(FilesOf(matches), LAMBDA f : SubmatchCount(matches, f))
    ELSE IF Has("count") THEN CountRows(FilesOf(matches), LAMBDA f : Cardinality(LinesIn(matches, f)))
    ELSE IF Has("json") THEN Blocks(matches) \o Summary(Len(matches), cut)
    ELSE IF args.before + args.after > 0 THEN Blocks(matches)
    ELSE ForEach(matches, LAMBDA m : MatchRows(m[1], m[2].line))
CodeMutant(matches, inputs, rows) == IF matches = <<>> THEN 1 ELSE 0
Code(matches, inputs, rows) ==
    IF Has("without") THEN IF Unmatched(matches, inputs) = <<>> THEN 1 ELSE 0
    ELSE IF matches = <<>> THEN 1
    ELSE IF CountsMatches /\ ~Has("quiet") /\ rows = <<>> THEN 1 ELSE 0

\* shows_filename_by_default, before "-" is taken out of the arguments.
NamedByDefault ==
    IF Dashes # {} THEN Len(args.paths) > 1 ELSE Len(Specs) # 1 \/ Specs[1].dir
Named(single) == Has("H") \/ (~Has("h") /\ ~single /\ NamedByDefault)

\* A write that fails ends the output: a closed pipe is no error, a full disk is.
Written(rows, code) ==
    IF rows = <<>> \/ session.sink = "open" THEN code
    ELSE IF session.sink = "closed" THEN 0 ELSE 2

-------------------------------------------------------------------------------
(* The command *)

Exit(code, rows, cut, single) ==
    cli' = [pc |-> "exit", code |-> code, cut |-> cut, named |-> Named(single),
            shown |-> IF session.sink = "open" THEN rows ELSE <<>>]
Fail == cli' = [pc |-> "exit", code |-> 2, shown |-> <<>>, cut |-> FALSE, named |-> FALSE]
Still == UNCHANGED <<corpus, query, run, session>>

Check == /\ cli.pc = "check"
         /\ IF BadGlob \/ Conflict THEN Fail
            ELSE cli' = [pc |-> IF Has("files") THEN "list" ELSE "stream"]
         /\ Still

\* The stream alone, or nothing but dashes.
Notice(half) == IF half.notice THEN <<<<"notice", Stream, 0, 0>>>> ELSE <<>>
FromStream(half, single) ==
    LET kept == Capped(half.matches)
        cut == Truncated(half.matches)
        rows == Rows(kept, <<Stream>>, cut)
    IN  IF half.notice THEN Exit(Written(Notice(half), 0), Notice(half), FALSE, single)
        ELSE Exit(Written(rows, Code(kept, <<Stream>>, rows)), rows, cut, single)
ReadStream ==
    /\ cli.pc = "stream"
    /\ IF Decision = "index" THEN cli' = [pc |-> "open", half |-> {}]
       ELSE IF ~session.stdin.readable \/ (Decision = "both" /\ Has("invert")) THEN Fail
       ELSE IF RealPaths = <<>> THEN FromStream(Collected, Decision = "stream")
       ELSE cli' = [pc |-> "open", half |-> {Collected}]
    /\ Still

OpenForSearch ==
    /\ cli.pc = "open"
    /\ CASE session.index = "there" ->
               cli' = [pc |-> "search", half |-> cli.half, at |-> 0, merged |-> {}]
         [] session.index = "missing" /\ cli.half = {} -> cli' = [pc |-> "fallback"]
         [] OTHER -> Fail
    /\ Still

\* cmd_files lists paths of the snapshot without reading a file.
ListFiles ==
    /\ cli.pc = "list"
    /\ IF session.index # "there" THEN Fail
       ELSE LET rows == FileRows(SelectSeq(Scoped, LAMBDA d : WithinDepth(PathOf[d], Specs, args.depth)))
                code == IF Missing = {} THEN 0 ELSE 2
            IN  Exit(IF session.sink = "full" THEN Written(rows, code) ELSE code, rows, FALSE, FALSE)
    /\ Still

\* handle_missing_index: rg is run on the arguments as they were given, grep on what it
\* understands of them; its exit code is the command's.
GrepAsks == [args EXCEPT !.types = {}, !.nots = {}, !.depth = {}, !.results = {},
                         !.flags = @ \ {"quiet", "json", "count_matches"}]
Fallback ==
    /\ cli.pc = "fallback"
    /\ \/ session.tool \in {"off", "none"} /\ Fail
       \/ /\ session.tool \in {"rg", "grep"}
          /\ \E code \in 0 .. 2 :
                cli' = [pc |-> "child", tool |-> session.tool, code |-> code,
                        asks |-> IF session.tool = "rg" THEN args ELSE GrepAsks]
    /\ Still

\* A path that does not exist is reported, and exits 2 whatever the others gave.
Judged(code) == IF Missing = {} THEN code ELSE 2

\* run_search asks the library once for each argument.
Merged == IF run.pc = "done" THEN cli.merged \cup Range(run.result) ELSE cli.merged
Ask == /\ cli.pc = "search" /\ ~Has("invert")
       /\ run.pc \in {"idle", "done"} /\ cli.at < Len(Queries)
       /\ query' = Queries[cli.at + 1]
       /\ run' = [pc |-> "route"]
       /\ cli' = [cli EXCEPT !.at = @ + 1, !.merged = Merged]
       /\ UNCHANGED <<corpus, session>>
AskFails == /\ cli.pc = "search" /\ run.pc = "error" /\ Fail
            /\ Still

\* sort_and_dedup_matches, apply_post_filters, the stream's half, render_results.
Answer ==
    /\ cli.pc = "search" /\ run.pc = "done" /\ cli.at = Len(Queries)
    /\ LET results == Splice(cli.half, PostFilter(Sorted(Merged)))
           kept == Capped(results)
           inputs == WithStream(cli.half, Scoped)
           lines == Rows(kept, inputs, Truncated(results))
           notice == FoldSet(LAMBDA h, acc : Notice(h), <<>>, cli.half)
           rows == IF \A h \in cli.half : h.first THEN notice \o lines ELSE lines \o notice
           code == IF notice # <<>> THEN 0 ELSE Code(kept, inputs, lines)
       IN  Exit(Judged(Written(rows, code)), rows, Truncated(results), FALSE)
    /\ Still

\* render_invert_match reads every file of the scope itself.
InvertedIn(d) ==
    LET lines == Inverted(corpus[d].text) IN PerFile([i \in DOMAIN lines |-> <<d, lines[i]>>], args.count)
InvertRows(inputs, selected) ==
    LET lines == [i \in DOMAIN selected |-> <<"match", selected[i][1], selected[i][2].line, 0>>] IN
    IF Has("quiet") /\ selected # <<>> THEN <<>>
    ELSE IF Has("l") THEN FileRows(FilesOf(selected))
    ELSE IF Has("without") THEN (IF Has("json") /\ ~Has("count") THEN lines ELSE <<>>)
                                \o FileRows(Unmatched(selected, inputs))
    ELSE IF Has("count") THEN CountRows(FilesOf(selected), LAMBDA d : Cardinality(LinesIn(selected, d)))
    ELSE lines \o IF Has("json") THEN Summary(Len(selected), FALSE) ELSE <<>>
InvertCode(inputs, selected) ==
    IF Has("without") /\ ~(Has("quiet") /\ selected # <<>>)
    THEN IF Unmatched(selected, inputs) = <<>> THEN 1 ELSE 0
    ELSE IF selected = <<>> THEN 1 ELSE 0
\* The result of writing a line is not looked at.
Shown(rows, code) ==
    Exit(Judged(IF args.flags \cap {"l", "without", "count", "json"} = {} THEN code ELSE Written(rows, code)),
         rows, FALSE, FALSE)
InvertScan(inputs, selected) == Shown(InvertRows(inputs, selected), InvertCode(inputs, selected))
Invert ==
    /\ cli.pc = "search" /\ Has("invert")
    /\ LET inputs == SelectSeq(Scoped, LAMBDA d : corpus[d].readable) IN
       InvertScan(inputs, ForEach(inputs, InvertedIn))
    /\ Still

\* A caller of the library, or the command line on some index.
CliInit ==
    \/ Init /\ session = Library /\ cli = [pc |-> "library"]
    \/ /\ \E family \in Session : session \in family
       /\ corpus \in Corpus /\ query = Options({})
       /\ run = Idle /\ cli = [pc |-> "check"]

Searching == cli.pc \in {"library", "search"} /\ Next /\ UNCHANGED cliVars
CliNext == \/ Searching
           \/ Check \/ ListFiles \/ ReadStream \/ OpenForSearch \/ Fallback
           \/ Ask \/ AskFails \/ Answer \/ Invert
CliSpec == CliInit /\ [][CliNext]_allVars

-------------------------------------------------------------------------------
(* Properties *)

\* What a reader of the documentation would select: the inputs, the lines of each that
\* match, or do not under -v, and the first of them where -m says how many.
Streamed == Decision # "index" /\ ~Has("files")
Covers(p, rel) == StartsWith(p, rel) /\ \A n \in args.depth : Len(p) - Len(rel) - 1 <= n
LastFit(p) == {i \in DOMAIN args.globs :
                 /\ GlobFits(args.globs[i], p)
                 /\ \A j \in i + 1 .. Len(args.globs) : ~GlobFits(args.globs[j], p)}
Wanted(p) ==
    /\ IF RealPaths = <<>> THEN Covers(p, <<>>)
       ELSE \E arg \in Range(RealPaths) : Covers(p, Relativized(session.cwd, arg))
    /\ args.types # {} => Ext[Last(p)] \in args.types
    /\ Ext[Last(p)] \notin args.nots
    /\ \A i \in LastFit(p) : ~args.globs[i].exclude
    /\ LastFit(p) = {} => \A g \in Range(args.globs) : g.exclude
Files == IF Streamed /\ RealPaths = <<>> THEN {}
         ELSE {d \in Live : Wanted(PathOf[d]) /\ (Has("invert") => corpus[d].readable)}
Inputs == (IF Streamed THEN {Stream} ELSE {}) \cup Files
Hitting(f) == {m.line : m \in LineMatches(args.pattern, TextOf(f))}
LinesAre(f, wanted) == {l \in DOMAIN LinesOf(TextOf(f)) : (l \in wanted) # Has("invert")}
FirstOf(lines) == {l \in lines : \A n \in args.count : Cardinality({k \in lines : k <= l}) <= n}
Lines(f) == IF f # Stream /\ ~corpus[f].readable THEN {} ELSE FirstOf(LinesAre(f, Hitting(f)))
Chosen == [f \in Inputs |-> Lines(f)]
Pairs(chosen) == {<<f, l>> \in (DOMAIN chosen) \X (1 .. MaxWord) : l \in chosen[f]}
Silences == Binary /\ args.flags \cap Listing = {}

Contexts(chosen, f) ==
    {i \in DOMAIN LinesOf(TextOf(f)) \ chosen[f] :
        \E l \in chosen[f] : l <= i + args.before /\ i <= l + args.after}
Expected(chosen) ==
    LET hit == {f \in DOMAIN chosen : chosen[f] # {}}
        silent == IF Silences THEN hit \cap {Stream} ELSE {}
    IN  IF Has("files") THEN {<<"file", f, 0, 0>> : f \in DOMAIN chosen}
        ELSE IF Has("quiet") THEN {}
        ELSE IF Has("without") THEN {<<"file", f, 0, 0>> : f \in DOMAIN chosen \ hit}
        ELSE IF Has("l") THEN {<<"file", f, 0, 0>> : f \in hit}
        ELSE IF Has("count") /\ ~Has("only") THEN {<<"count", f, Cardinality(chosen[f]), 0>> : f \in hit}
        ELSE UNION {
            {<<"notice", f, 0, 0>> : f \in silent},
            {<<"match", c[1], c[2], 0>> : c \in {p \in Pairs(chosen) : p[1] \notin silent}},
            UNION {{<<"context", f, i, 0>> : i \in Contexts(chosen, f)} : f \in hit \ silent}}
Answered == cli.pc = "exit" /\ cli.code # 2 /\ session.sink = "open" /\ args.results = {}
\* Excepted: the root beside another path is dropped; --files-without-match and -v look at
\* --max-depth in part only; -v shows no context of a file, counts no submatches of a stream
\* and, with -q and --files-without-match, does not mind the last.
Settled ==
    /\ Len(Specs) \in {0, Len(RealPaths)}
    /\ Has("without") => args.depth = {}
    /\ Has("invert") => /\ args.depth = {}
                        /\ Streamed \/ args.before + args.after = 0
                        /\ ~(Streamed /\ CountsMatches)
                        /\ ~(Has("quiet") /\ Has("without"))

\* Rows of one input stay together, its lines in order; inputs come by path, the stream
\* where "-" stood, or first where matches are grouped by file.
Grouped == args.flags \cap {"l", "count", "count_matches", "json"} # {} \/ args.before + args.after > 0
Place(f) == IF f = Stream /\ ~StreamFirst /\ ~Grouped THEN Len(PathOf) + 1 ELSE f
InOrder(rows) ==
    \A i, j \in DOMAIN rows : i < j /\ rows[i][1] # "summary" /\ rows[j][1] # "summary" =>
        \/ Place(rows[i][2]) < Place(rows[j][2])
        \/ /\ rows[i][2] = rows[j][2]
           /\ rows[i][1] \in {"match", "context"} => rows[i][3] < rows[j][3]

\* Without --max-results, and but for what Settled excepts, the command shows exactly the
\* lines, files or counts of the inputs that its arguments name, every input's rows together
\* and in order: through one search per path argument, ids that filter by path, filters that
\* are applied again, a stream read before the index is opened, and a scan of its own under -v.
AnswerIsReference ==
    Answered /\ Settled /\ args.flags \cap {"only", "count_matches"} = {} =>
        /\ {r \in Range(cli.shown) : r[1] # "summary"} = Expected(Chosen)
        /\ InOrder(cli.shown)

\* --max-results shows that many lines, or files under -l, when there are so many, and says
\* that it cut exactly when there were more, though the search may stop early and stops one
\* line later than asked.
CapIsFilled ==
    /\ cli.pc = "exit" /\ cli.code # 2 /\ session.sink = "open" /\ args.results # {}
    /\ Settled /\ args.flags \cap {"quiet", "only"} = {}
    =>
        LET all == IF Has("l") THEN {c[1] : c \in Pairs(Chosen)} ELSE Pairs(Chosen)
            rows == {IF Has("l") THEN r[2] ELSE <<r[2], r[3]>> :
                        r \in {q \in Range(cli.shown) : q[1] \in {"match", "file"}}}
        IN  /\ rows \subseteq all
            /\ Cardinality(rows) = Min({Max(args.results), Cardinality(all)})
            /\ cli.cut <=> Cardinality(all) > Max(args.results)

RefusedStream == Streamed /\ (~session.stdin.readable \/ (Decision = "both" /\ Has("invert")))
RefusedFiles ==
    /\ ~(Streamed /\ RealPaths = <<>>)
    /\ \/ session.index # "there"
       \/ Missing # {}
       \/ args.flags \cap {"invert", "files"} = {} /\ Rejected(Options({}))
Refused == BadGlob \/ Conflict \/ RefusedStream \/ RefusedFiles
FoundIn(chosen) ==
    IF Has("files") THEN TRUE
    ELSE IF Has("without") THEN {} \in Range(chosen)
    ELSE 0 \notin args.results /\ \E f \in DOMAIN chosen : chosen[f] # {}

\* The exit code is 0 when something was selected and 1 when nothing was, in every mode;
\* it is 2 for a refused or unreadable input, also when other inputs matched, and when the
\* answer could not be written.
CodeTellsAnswer ==
    cli.pc = "exit" =>
        IF Refused THEN cli.code = 2
        ELSE LET found == FoundIn(Chosen) IN
             /\ Settled /\ session.sink = "open" => cli.code = IF found THEN 0 ELSE 1
             /\ session.sink = "full" /\ found /\ Expected(Chosen) # {} /\ ~Has("invert") => cli.code = 2

===============================================================================
