--------------------------------- MODULE Search ---------------------------------
(***************************************************************************)
(* One search: the pattern is routed to the gram index or to a full scan,  *)
(* the candidates are read and verified by a pool of threads that share a  *)
(* match counter, and the matches are sorted and cut to the limit.         *)
(*                                                                         *)
(* A regex is its HIR; what it matches is a set of words.  A document is   *)
(* the text that was indexed, and whether it can still be read.            *)
(***************************************************************************)
EXTENDS Tokenizer, Paths

CONSTANTS Word,      \* characters between which there is no word boundary
          LeadWord,  \* characters whose first byte, read as a character of its own, is of a word
          TrailWord, \* the same of the last byte
          Fold,      \* case folding of the verifier (Unicode), which the index does not use
          NL, CR,    \* line ends
          Doc,       \* documents
          Query,     \* [literal, text | hir, ci, wrap: none, word or line, limit, deterministic, filter, types, nots]
          PathOf,    \* the path of a document; ids are in the order of the paths
          MaxDocs,   \* bound: documents of an index
          MaxWord,   \* bound: length of a word of a regex
          MaxVariants,   \* MAX_LITERAL_VARIANTS
          ScanPercent    \* scan_threshold

VARIABLES corpus, \* the documents by id: [text, place, readable]; one is in the base, in the
                  \* overlay with or without a base version below, or deleted
          query,  \* the pattern and its options
          run     \* where the search is

vars == <<corpus, query, run>>

-------------------------------------------------------------------------------
(* Regexes: the words of a HIR *)

Concat(A, B) == {w \in {a \o b : a \in A, b \in B} : Len(w) <= MaxWord}
Power(A, n) == FoldLeft(LAMBDA acc, i : Concat(acc, A), {<<>>}, [i \in 1 .. n |-> i])

RECURSIVE Words(_)
Words(h) ==
    CASE h.op \in {"empty", "look"} -> {<<>>}
      [] h.op = "lit" -> {h.text}
      [] h.op = "class" -> {<<c>> : c \in h.set}
      [] h.op = "cap" -> Words(h.sub)
      [] h.op = "cat" -> FoldLeft(LAMBDA acc, s : Concat(acc, Words(s)), {<<>>}, h.subs)
      [] h.op = "alt" -> UNION {Words(s) : s \in Range(h.subs)}
      [] h.op = "rep" -> UNION {Power(Words(h.sub), n) : n \in h.min .. h.max}

-------------------------------------------------------------------------------
(* regex_decompose: which grams a match must bring *)

All == [op |-> "all"]
Never == [op |-> "none"]
Grams(gs) == [op |-> "grams", grams |-> gs]

\* exact_literal_variants, as a set of at most one list of literals.
Joined(a, b) ==
    [n \in 1 .. Len(a) * Len(b) |-> a[((n - 1) \div Len(b)) + 1] \o b[((n - 1) % Len(b)) + 1]]
JoinVariants(A, B) ==
    {Joined(p[1], p[2]) : p \in {q \in A \X B : Len(q[1]) * Len(q[2]) <= MaxVariants}}
AddVariants(A, B) ==
    {p[1] \o p[2] : p \in {q \in A \X B : Len(q[1]) + Len(q[2]) <= MaxVariants}}

RECURSIVE ExactVariants(_)
ExactVariants(h) ==
    CASE h.op = "empty" -> {<< <<>> >>}
      [] h.op = "lit" -> {<<h.text>>}
      [] h.op = "cap" -> ExactVariants(h.sub)
      [] h.op = "cat" -> FoldLeft(LAMBDA acc, s : JoinVariants(acc, ExactVariants(s)),
                                  {<< <<>> >>}, h.subs)
      [] h.op = "alt" -> FoldLeft(LAMBDA acc, s : AddVariants(acc, ExactVariants(s)),
                                  {<<>>}, h.subs)
      [] h.op = "rep" /\ h.max = h.min /\ h.max <= 4 ->
             FoldLeft(LAMBDA acc, i : JoinVariants(acc, ExactVariants(h.sub)),
                      {<< <<>> >>}, [i \in 1 .. h.min |-> i])
      [] OTHER -> {}

\* exact_literal_query: each variant must bring a gram.
ExactQuery(h) ==
    {IF Len(v) = 1 THEN Grams(Inner(v[1]))
     ELSE [op |-> "or", subs |-> [i \in DOMAIN v |-> Grams(Inner(v[i]))]] :
        v \in {u \in ExactVariants(h) : u # <<>> /\ \A i \in DOMAIN u : Inner(u[i]) # {}}}

\* An optional part demands its grams, too.
RECURSIVE WalkMutant(_)
WalkMutant(h) ==
    IF h.op = "rep" THEN WalkMutant(h.sub)
    ELSE IF ExactQuery(h) # {} THEN CHOOSE q \in ExactQuery(h) : TRUE
    ELSE IF h.op = "cat" THEN [op |-> "and", subs |-> [i \in DOMAIN h.subs |-> WalkMutant(h.subs[i])]]
    ELSE All

RECURSIVE Walk(_)
Walk(h) ==
    IF ExactQuery(h) # {} THEN CHOOSE q \in ExactQuery(h) : TRUE
    ELSE CASE h.op = "lit" -> IF Inner(h.text) = {} THEN All ELSE Grams(Inner(h.text))
           [] h.op = "cat" -> [op |-> "and", subs |-> [i \in DOMAIN h.subs |-> Walk(h.subs[i])]]
           [] h.op = "alt" -> [op |-> "or", subs |-> [i \in DOMAIN h.subs |-> Walk(h.subs[i])]]
           [] h.op = "rep" -> IF h.min >= 1 THEN Walk(h.sub) ELSE All
           [] h.op = "cap" -> Walk(h.sub)
           [] OTHER -> All

RECURSIVE Simplify(_)
Simplify(q) ==
    CASE q.op = "and" ->
           LET kept == SelectSeq([i \in DOMAIN q.subs |-> Simplify(q.subs[i])],
                                 LAMBDA c : c # All)
           IN  CASE Len(kept) = 0 -> All [] Len(kept) = 1 -> kept[1]
                 [] OTHER -> [q EXCEPT !.subs = kept]
      [] q.op = "or" ->
           LET subs == [i \in DOMAIN q.subs |-> Simplify(q.subs[i])]
           IN  IF \E i \in DOMAIN subs : subs[i] = All THEN All
               ELSE IF Len(subs) = 0 THEN Never
               ELSE IF Len(subs) = 1 THEN subs[1] ELSE [q EXCEPT !.subs = subs]
      [] OTHER -> q

-------------------------------------------------------------------------------
(* route_query *)

RECURSIVE LiteralNewline(_)
LiteralNewline(h) ==
    CASE h.op = "lit" -> NL \in Range(h.text)
      [] h.op \in {"cat", "alt"} -> \E i \in DOMAIN h.subs : LiteralNewline(h.subs[i])
      [] h.op \in {"rep", "cap"} -> LiteralNewline(h.sub)
      [] OTHER -> FALSE
Rejected(q) == IF q.literal THEN NL \in Range(q.text) ELSE LiteralNewline(q.hir)

Route(q) ==
    IF ~q.literal
    THEN LET tree == Simplify(Walk(q.hir)) IN
         IF tree \in {All, Never} THEN [to |-> "scan"] ELSE [to |-> "index", tree |-> tree]
    ELSE IF ~q.ci THEN [to |-> "literal"]
    ELSE IF Required(q.text) = {} THEN [to |-> "scan"]
    ELSE [to |-> "index", tree |-> Grams(Required(q.text))]

-------------------------------------------------------------------------------
(* Postings and their evaluation *)

Ids == DOMAIN corpus
Live == {d \in Ids : corpus[d].place # "deleted"}
Stored(g) == {d \in Ids : g \in BuildAll(corpus[d].text)}

\* posting_bitmap: the lists of all segments and of the overlay, less the delete set.
Posting(g) == Stored(g) \cap Live

\* execute_query: children and grams are taken in the order of their cardinality and an
\* empty intersection ends it, which only saves work.
RECURSIVE Execute(_)
Execute(q) ==
    CASE q.op = "and" -> Live \cap {d \in Ids : \A i \in DOMAIN q.subs : d \in Execute(q.subs[i])}
      [] q.op = "or" -> UNION {Execute(q.subs[i]) : i \in DOMAIN q.subs}
      [] q.op = "grams" -> {d \in Live : \A g \in q.grams : d \in Posting(g)}
      [] q.op = "all" -> Live
      [] q.op = "none" -> {}

\* should_use_index: the smallest list is selective, or two or three of them together
\* are.  A stored count includes deleted documents.
Selective(n) == n * 100 <= Cardinality(Live) * ScanPercent
Smallest(n, gs) ==
    CHOOSE S \in kSubset(n, gs) :
        \A a \in S, b \in gs \ S : Cardinality(Stored(a)) <= Cardinality(Stored(b))
Probe(n, gs) ==
    /\ Cardinality(gs) >= n
    /\ LET hit == {d \in Live : \A g \in Smallest(n, gs) : d \in Posting(g)}
       IN  hit = {} \/ Selective(Cardinality(hit))
ShouldUseIndex(gs) ==
    /\ gs # {} /\ Live # {}
    /\ \/ \E g \in gs : Selective(Cardinality(Stored(g)))
       \/ Probe(2, gs) \/ Probe(3, gs)

Candidates(q) ==
    LET route == Route(q) IN
    CASE route.to = "literal" ->
             IF ShouldUseIndex(Required(q.text)) THEN Execute(Grams(Required(q.text))) ELSE Live
      [] route.to = "index" ->
             IF route.tree.op = "grams" /\ ~ShouldUseIndex(route.tree.grams) THEN Live
             ELSE IF Execute(route.tree) = {} THEN Live ELSE Execute(route.tree)
      [] OTHER -> Live

-------------------------------------------------------------------------------
(* The verifier: matches of a text, one to a line *)

WordAt(t, i) == i \in 1 .. Len(t) /\ t[i] \in Word
WordEdge(t, p) == WordAt(t, p) # WordAt(t, p + 1)
Folded(w) == [i \in 1 .. Len(w) |-> Fold[w[i]]]

\* build_effective_pattern: -x asks for a whole line, -w puts a bound before and after each
\* alternative of the pattern: a word boundary where the alternative starts or ends with a
\* word character, and its opposite where it does not.  (When all alternatives have the same
\* bounds one pair stands around the whole pattern, which is the same.)  The pattern without
\* its bounds chooses the route.
RECURSIVE StartsWithWord(_)
StartsWithWord(h) ==
    CASE h.op = "lit" -> h.text # <<>> /\ Head(h.text) \in LeadWord
      [] h.op = "class" -> h.set \cap Word # {}
      [] h.op = "cat" -> StartsWithWord(Head(h.subs))
      [] h.op = "alt" -> \E i \in DOMAIN h.subs : StartsWithWord(h.subs[i])
      [] h.op \in {"rep", "cap"} -> StartsWithWord(h.sub)
      [] OTHER -> FALSE
RECURSIVE EndsWithWord(_)
EndsWithWord(h) ==
    CASE h.op = "lit" -> h.text # <<>> /\ Last(h.text) \in TrailWord
      [] h.op = "class" -> h.set \cap Word # {}
      [] h.op = "cat" -> EndsWithWord(Last(h.subs))
      [] h.op = "alt" -> \E i \in DOMAIN h.subs : EndsWithWord(h.subs[i])
      [] h.op \in {"rep", "cap"} -> EndsWithWord(h.sub)
      [] OTHER -> FALSE
Alternatives(q) == IF q.literal THEN {[op |-> "lit", text |-> q.text]}
                   ELSE IF q.hir.op = "alt" THEN Range(q.hir.subs) ELSE {q.hir}

\* ^ and $ of a text with several lines, whose ends may be CR NL.
AtLineStart(t, p) ==
    p = 0 \/ t[p] = NL \/ (t[p] = CR /\ (p = Len(t) \/ t[p + 1] # NL))
AtLineEnd(t, p) ==
    p = Len(t) \/ t[p + 1] = CR \/ (t[p + 1] = NL /\ (p = 0 \/ t[p] # CR))

\* Where the pattern matches: from one position up to another.
Patterns(q) == IF q.literal THEN {q.text} ELSE Words(q.hir)
Found(q, words, t) ==
    LET has(w, k) == IF q.ci THEN OccursAt(Folded(w), Folded(t), k) ELSE OccursAt(w, t, k)
        at == {<<k, w>> \in (0 .. Len(t)) \X words : has(w, k)}
    IN  {[from |-> f[1], to |-> f[1] + Len(f[2])] : f \in at}
\* A word boundary on either side, whatever the alternative starts and ends with.
BoundedMutant(q, alt, t) == {h \in Found(q, Words(alt), t) : WordEdge(t, h.from) /\ WordEdge(t, h.to)}
Bounded(q, alt, t) ==
    {h \in Found(q, Words(alt), t) : /\ WordEdge(t, h.from) = StartsWithWord(alt)
                                    /\ WordEdge(t, h.to) = EndsWithWord(alt)}
Hits(q, t) ==
    CASE q.wrap = "none" -> Found(q, Patterns(q), t)
      [] q.wrap = "line" -> {h \in Found(q, Patterns(q), t) : AtLineStart(t, h.from) /\ AtLineEnd(t, h.to)}
      [] q.wrap = "word" -> UNION {Bounded(q, alt, t) : alt \in Alternatives(q)}

\* find_iter: leftmost, longest, not overlapping; no empty match at the end of the last.
RECURSIVE FindIter(_, _, _, _)
FindIter(hits, len, p, last) ==
    LET ahead == {h \in hits : h.from >= p}
        first == {h \in ahead : \A g \in ahead : h.from <= g.from}
        hit == CHOOSE h \in first : \A g \in first : g.to <= h.to
    IN  IF p > len \/ ahead = {} THEN <<>>
        ELSE IF hit.to = hit.from /\ last = hit.to + 1
        THEN FindIter(hits, len, hit.to + 1, last)
        ELSE <<hit>> \o FindIter(hits, len, hit.to, hit.to + 1)

\* verify_literal and verify_regex: the scan keeps the line it is in and how far it has
\* counted line ends.
Newlines(t, from, to) == {p \in from .. to - 1 : t[p + 1] = NL}
LineStart(t, from, p) == Max({from} \cup {n + 1 : n \in Newlines(t, from, p)})
LineEnd(t, p) == Min({Len(t)} \cup Newlines(t, p, Len(t)))
ContentEnd(t, start, end) == IF end > start /\ t[end] = CR THEN end - 1 ELSE end
Scanned(t, regex, acc, hit) ==
    LET start == LineStart(t, acc.counted, hit.from)
        end == LineEnd(t, hit.from)
        line == acc.line + Cardinality(Newlines(t, acc.counted, start))
    IN
    IF \/ hit.from < acc.end \/ acc.last = start + 1
       \/ regex /\ (start >= Len(t) \/ hit.to > end)
    THEN acc
    ELSE [line |-> line, counted |-> Max({acc.counted, start}), end |-> end, last |-> start + 1,
          matches |-> Append(acc.matches,
             [line |-> line, from |-> hit.from - start,
              to |-> Min({hit.to, ContentEnd(t, start, end)}) - start])]
ScanStart == [line |-> 1, counted |-> 0, end |-> 0, last |-> 0, matches |-> <<>>]
VerifyHits(q, t, regex) ==
    FoldLeft(LAMBDA acc, h : Scanned(t, regex, acc, h), ScanStart,
             FindIter(Hits(q, t), Len(t), 0, 0)).matches

\* verify_empty: every line, but none behind the last line end.
VerifyEmpty(t) ==
    LET starts == {0} \cup {p + 1 : p \in Newlines(t, 0, Len(t))}
        lines == SetToSortSeq({s \in starts : s < Len(t)}, <)
    IN  [i \in DOMAIN lines |-> [line |-> i, from |-> 0, to |-> 0]]

Verify(q, t) ==
    IF q.literal /\ q.text = <<>> /\ q.wrap = "none" THEN VerifyEmpty(t)
    ELSE VerifyHits(q, t, ~q.literal \/ q.ci \/ q.wrap # "none")

-------------------------------------------------------------------------------
(* The path filter of a search works on the file ids of the snapshot *)

PathsIn(places) == {PathOf[d] : d \in {e \in Ids : corpus[e].place \in places}}
BasePaths == SelectSeq([d \in Ids |-> PathOf[d]],
                       LAMBDA p : p \in PathsIn({"base", "edited", "deleted"}))
PathIx == BuildIncremental(Build(BasePaths), PathsIn({"deleted"}), PathsIn({"edited", "overlay"}))
Unfiltered == query.types = {} /\ query.nots = {} /\ query.filter = {}

\* A base document finds its id through its path, one of the overlay in the map of the
\* commit; without an id the path itself is looked at.
InFilter(d) ==
    \/ Unfiltered
    \/ IF PathOf[d] \in DOMAIN PathIx.ids
       THEN PathIx.ids[PathOf[d]] \in BuildFilter(PathIx, query.types, query.nots, query.filter)
       ELSE MatchesPathFilter(PathOf[d], query.types, query.nots, query.filter)

-------------------------------------------------------------------------------
(* The search *)

\* Any index of a few documents, any query.
Init ==
    /\ query \in Query
    /\ \E n \in 1 .. MaxDocs : corpus \in [1 .. n -> Doc]
    /\ run = [pc |-> "route"]

Error == /\ run.pc = "route" /\ Rejected(query)
         /\ run' = [pc |-> "error"]
         /\ UNCHANGED <<corpus, query>>

Plan == /\ run.pc = "route" /\ ~Rejected(query)
        /\ run' = [pc |-> "verify", todo |-> Candidates(query), busy |-> {}, count |-> 0,
                   found |-> {}]
        /\ UNCHANGED <<corpus, query>>

\* A thread takes a candidate, or skips it when the counter has reached the limit.
Limited == query.limit # 0
Take(d) ==
    /\ run.pc = "verify" /\ d \in run.todo
    /\ IF Limited /\ ~query.deterministic /\ run.count >= query.limit
       THEN run' = [run EXCEPT !.todo = @ \ {d}]
       ELSE run' = [run EXCEPT !.todo = @ \ {d}, !.busy = @ \cup {d}]
    /\ UNCHANGED <<corpus, query>>

\* It resolves the document and verifies its text; a deleted or unreadable one has none.
Resolved(d) == d \in Live /\ corpus[d].readable
Report(d) ==
    IF Resolved(d) /\ InFilter(d) THEN {<<d, m>> : m \in Range(Verify(query, corpus[d].text))} ELSE {}
\* The counter counts files.
CountedMutant(d) == run.count + (IF Report(d) = {} THEN 0 ELSE query.limit)
Counted(d) == run.count + (IF Limited THEN Cardinality(Report(d)) ELSE 0)
Finish(d) ==
    /\ run.pc = "verify" /\ d \in run.busy
    /\ run' = [run EXCEPT !.busy = @ \ {d}, !.count = Counted(d), !.found = @ \cup Report(d)]
    /\ UNCHANGED <<corpus, query>>

\* sort_matches, then truncate.
Before(a, b) == a[1] < b[1] \/ (a[1] = b[1] /\ a[2].line < b[2].line)
Sorted(matches) ==
    [i \in 1 .. Cardinality(matches) |->
        CHOOSE m \in matches : Cardinality({n \in matches : Before(n, m)}) = i - 1]
Cropped(matches) == SubSeq(matches, 1, Min({query.limit, Len(matches)}))
Collect ==
    /\ run.pc = "verify" /\ run.todo = {} /\ run.busy = {}
    /\ run' = [pc |-> "done",
               result |-> IF Limited THEN Cropped(Sorted(run.found)) ELSE Sorted(run.found)]
    /\ UNCHANGED <<corpus, query>>

Work == \E d \in Ids : Take(d) \/ Finish(d)
Next == Error \/ Plan \/ Work \/ Collect
Spec == Init /\ [][Next]_vars

-------------------------------------------------------------------------------
(* Properties *)

\* The lines of a text, and what a search that looks at each on its own reports: with -w a
\* match has no word character on either side of it, with -x it is the whole line.
Starts(t) == {s \in {0} \cup {p + 1 : p \in Newlines(t, 0, Len(t))} : s < Len(t)}
Fits(q, t, start, h) ==
    CASE q.wrap = "none" -> TRUE
      [] q.wrap = "word" -> ~WordAt(t, h.from) /\ ~WordAt(t, h.to + 1)
      [] q.wrap = "line" -> h.from = start /\ h.to = ContentEnd(t, start, LineEnd(t, start))
LineMatches(q, t) ==
    LET found == Found(q, Patterns(q), t)
        in(s) == {h \in found : s <= h.from /\ h.to <= LineEnd(t, s) /\ Fits(q, t, s, h)}
        first(s) == CHOOSE h \in in(s) : \A g \in in(s) :
                        h.from < g.from \/ (h.from = g.from /\ h.to >= g.to)
    IN  {[line |-> 1 + Cardinality(Newlines(t, 0, s)), from |-> first(s).from - s,
          to |-> Min({first(s).to, ContentEnd(t, s, LineEnd(t, s))}) - s] :
            s \in {r \in Starts(t) : in(r) # {}}}
Passing == {d \in Live : /\ Resolved(d)
                         /\ MatchesPathFilter(PathOf[d], query.types, query.nots, query.filter)}
Scan == UNION {{<<d, m>> : m \in LineMatches(query, corpus[d].text)} : d \in Passing}

\* Excepted: an alternative under -w whose matches do not all start, or end, with what its
\* bound was chosen for: a class or a group with characters of both kinds, an edge that may be
\* empty, or a letter of several bytes.
Bounds(q) ==
    q.wrap = "word" => \A alt \in Alternatives(q) : \A w \in Words(alt) :
        /\ w # <<>>
        /\ (Head(w) \in Word) = StartsWithWord(alt)
        /\ (Last(w) \in Word) = EndsWithWord(alt)
\* Excepted: under -i, a literal that demands a gram with a letter the verifier folds and the
\* grams, lowercased in ASCII, tell from its other case.
OneCase(c) == \A d \in Char : Fold[d] = Fold[c] => Lower[d] = Lower[c]
Cases(q) ==
    q.literal /\ q.ci => \A g \in Required(q.text) : \A c \in Range(g) : OneCase(c)
Settles(q) == Bounds(q) /\ Cases(q)

\* A search without a limit reports the first match of every matching line of every
\* readable document whose path passes the filter, as a scan of all documents line by line
\* would: whatever grams the pattern demands, how its regex was taken apart, which route
\* was chosen, what bounds -w or -x put around which alternative, in which case its letters
\* stand under -i (but for what Settles excepts), and which file ids commits have given and
\* taken.
SearchIsScan ==
    run.pc = "done" /\ ~Limited /\ Settles(query) => run.result = Sorted(Scan)

\* A limit is filled when there are enough matches, though threads stop early on a counter
\* they share; a deterministic search reports the first ones.
LimitIsFilled ==
    run.pc = "done" /\ Limited =>
        /\ Range(run.result) \subseteq Scan
        /\ Len(run.result) = Min({query.limit, Cardinality(Scan)})
        /\ query.deterministic => run.result = Cropped(Sorted(Scan))

===============================================================================
