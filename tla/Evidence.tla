------------------------------ MODULE Evidence ------------------------------
(***************************************************************************)
(* Packing ranked passages into evidence of at most `budget` tokens:       *)
(* merging neighbours into spans, filling by score, condensing what does   *)
(* not fit whole, widening into what is left, and trimming what the real   *)
(* count shows to be too much.                                             *)
(*                                                                         *)
(* Passages are whole lines, a line or an omission marker is one token,    *)
(* and a rendered block costs Wrap more.  Scores are integers (a score of  *)
(* 1.0 is 100).  A tokenizer need not be additive: `drift` is what each    *)
(* block adds to the count of the whole text beyond the sum of its parts.  *)
(***************************************************************************)
EXTENDS Naturals, Sequences, FiniteSets, SequencesExt, FiniteSetsExt

CONSTANTS Doc,
          Blank,     \* for each document, whether each line is blank
          Passages,  \* its passages: [first, last, section, terms, anchor, focus]
          Sections,  \* its sections: [first, last]
          Budgets,   \* bound: the budgets packed for
          Drifts,    \* bound: how far the tokenizer is from additive
          Rankings,  \* bound: the rankings packed
          Wrap,      \* tokens of a block around its text
          Preamble,  \* tokens of the line that opens the evidence
          Joint,     \* tokens between two blocks
          MaxBlocks, PerDocCap, MergeGap, ContextLines, MinBlock, \* PackOptions
          FloorTenths, ShareTenths, NearPercent,                  \* its fractions
          Expand, DocumentOrder

RankedPassage ==
    {p \in [doc : Doc, idx : Nat, score : Nat, exempt : BOOLEAN] : p.idx \in DOMAIN Passages[p.doc]}

ASSUME EvidenceAssumption ==
    /\ \A d \in Doc : Len(Passages[d]) \in Nat /\ DOMAIN Passages[d] = 1 .. Len(Passages[d])
    /\ \A d \in Doc : \A i \in DOMAIN Passages[d] : LET p == Passages[d][i] IN
           /\ p.first \in Nat \ {0} /\ p.last \in Nat /\ p.focus \in Seq(Nat)
           /\ p.first <= p.last /\ p.last <= Len(Blank[d])
    /\ Rankings \subseteq Seq(RankedPassage)
    /\ Budgets \subseteq Nat /\ Drifts \subseteq Nat
    /\ {Wrap, Preamble, Joint, MaxBlocks, PerDocCap, MergeGap, ContextLines,
        MinBlock, FloorTenths, ShareTenths, NearPercent} \subseteq Nat
    /\ {Expand, DocumentOrder} \subseteq BOOLEAN

VARIABLES
    phase,    \* "merge", "fill", "widen", "trim" or "packed"
    budget, drift,
    ranked,   \* the passages, best first: [doc, idx, score, exempt]
    todo,     \* passages still to merge, then spans still to fill
    spans,    \* spans merged so far
    blocks,   \* blocks accepted, then the blocks of the packet
    used,     \* tokens spent so far
    excluded, \* what was left out and why
    cursor,   \* where widening is: [pass, at, grew]
    trimmed   \* history: blocks the last count removed

evidence == <<phase, budget, drift, ranked, todo, spans, blocks, used, excluded, cursor, trimmed>>

At(p) == Passages[p.doc][p.idx]
Size(p) == At(p).last - At(p).first + 1
SpanCap == (budget * ShareTenths) \div 10
Exclude(p, reason) == excluded' = Append(excluded, [passage |-> p, reason |-> reason])
Best(s) == s.members[1]
Least(a, b) == IF a < b THEN a ELSE b
Most(a, b) == IF a > b THEN a ELSE b
Minus(a, b) == IF a < b THEN 0 ELSE a - b

\* The elements of I in the order Before, which is total on them.
Sorted(I, Before(_, _)) ==
    [k \in 1 .. Cardinality(I) |->
        CHOOSE i \in I : Cardinality({j \in I : Before(j, i)}) = k - 1]
Taken(seq, order) == [k \in DOMAIN order |-> seq[order[k]]]
Subsequence(seq, I) == Taken(seq, Sorted(I, LAMBDA j, i : j < i))
ByKey(seq, Before(_, _)) ==  \* a stable sort
    Taken(seq, Sorted(DOMAIN seq, LAMBDA j, i :
                   Before(seq[j], seq[i]) \/ (~Before(seq[i], seq[j]) /\ j < i)))

FirstPass == [pass |-> 1, at |-> 1, grew |-> FALSE]

Init ==
    /\ phase = "merge" /\ budget \in Budgets /\ drift \in Drifts
    /\ ranked \in Rankings /\ todo = ranked
    /\ spans = <<>> /\ blocks = <<>> /\ used = 0 /\ excluded = <<>>
    /\ cursor = FirstPass /\ trimmed = <<>>

-------------------------------------------------------------------------------
(* Merging neighbours *)

Near(s, p) ==
    /\ s.doc = p.doc
    /\ \/ p.idx + 1 >= s.first /\ p.idx <= s.last + 1
       \/ At(p).first <= s.to + MergeGap /\ s.from <= At(p).last + MergeGap
    /\ s.tokens + Size(p) <= SpanCap

Single(p) ==
    [doc |-> p.doc, members |-> <<p>>, first |-> p.idx, last |-> p.idx,
     from |-> At(p).first, to |-> At(p).last, score |-> p.score, tokens |-> Size(p)]
Joined(s, p, score) ==
    [doc |-> s.doc, members |-> Append(s.members, p),
     first |-> Least(s.first, p.idx), last |-> Most(s.last, p.idx),
     from |-> Least(s.from, At(p).first), to |-> Most(s.to, At(p).last),
     score |-> score, tokens |-> s.tokens + Size(p)]
WithMemberMutant(s, p) == Joined(s, p, s.score + (15 * p.score) \div 100)
WithMember(s, p) ==
    Joined(s, p, Least(s.score + (15 * p.score) \div 100, (120 * Best(s).score) \div 100))

BelowFloor(p) == 10 * p.score < ranked[1].score * FloorTenths /\ ~p.exempt

Merge ==
    /\ phase = "merge" /\ todo # <<>> /\ todo' = Tail(todo)
    /\ LET p == Head(todo)
           near == {k \in DOMAIN spans : Near(spans[k], p)}
       IN  IF BelowFloor(p) THEN Exclude(p, "BelowFloor") /\ UNCHANGED spans
           ELSE /\ spans' = IF near = {} THEN Append(spans, Single(p))
                            ELSE [spans EXCEPT ![Min(near)] = WithMember(@, p)]
                /\ UNCHANGED excluded
    /\ UNCHANGED <<phase, budget, drift, ranked, blocks, used, cursor, trimmed>>

Merged ==
    /\ phase = "merge" /\ todo = <<>>
    /\ phase' = "fill"
    /\ todo' = ByKey(spans, LAMBDA s, t : s.score > t.score)
    /\ UNCHANGED <<budget, drift, ranked, spans, blocks, used, excluded, cursor, trimmed>>

-------------------------------------------------------------------------------
(* Blocks, whole and condensed *)

LinesOf(s) == s.from .. s.to

\* The omitted stretches of a span, each one marker unless it is one blank line.
Gaps(keep, s) ==
    {g \in LinesOf(s) \X LinesOf(s) :
        /\ g[1] <= g[2] /\ (g[1] .. g[2]) \cap keep = {}
        /\ g[1] = s.from \/ g[1] - 1 \in keep
        /\ g[2] = s.to \/ g[2] + 1 \in keep}
Kept(keep, s) == {g \in Gaps(keep, s) : g[1] = g[2] /\ Blank[s.doc][g[1]]}
Markers(keep, s) == Gaps(keep, s) \ Kept(keep, s)
Shown(keep, s) == keep \cup {g[1] : g \in Kept(keep, s)}
BodySize(keep, s) == Cardinality(Shown(keep, s)) + Cardinality(Markers(keep, s))

Whole(s) ==
    [span |-> s, lines |-> LinesOf(s), markers |-> {}, condensed |-> FALSE, expanded |-> FALSE,
     tokens |-> Wrap + s.to - s.from + 1]
Elided(s, keep) ==
    [span |-> s, lines |-> Shown(keep, s), markers |-> Markers(keep, s), condensed |-> TRUE,
     expanded |-> FALSE, tokens |-> Wrap + BodySize(keep, s)]

Anchor(s) ==
    LET p == At(Best(s))  line == p.first + p.anchor[1]
    IN  LinesOf(s) \cap (line .. line + p.anchor[2] - 1)
Focus(s) ==
    LET lines == FlattenSeq([m \in DOMAIN s.members |-> At(s.members[m]).focus])
    IN  Subsequence(lines, {k \in DOMAIN lines : lines[k] \in LinesOf(s)})

\* The last of `keeps` before the first that does not fit, if any fits.
LastFitting(keeps, fits(_)) ==
    LET good == {k \in DOMAIN keeps : \A j \in 1 .. k : fits(keeps[j])}
    IN  IF good = {} THEN {} ELSE {keeps[Max(good)]}

\* The lines kept of a span that must fit in `room` tokens, if any can be.
CondenseMutant(s, room) ==
    LET focus == Focus(s)
        fits(keep) == Wrap + BodySize(keep, s) <= room
    IN  IF focus = <<>>
        THEN LastFitting([i \in 1 .. s.to - s.from + 1 |-> s.from .. s.from + i - 1], fits)
        ELSE LastFitting([i \in DOMAIN focus |-> {s.from} \cup {focus[j] : j \in 1 .. i}], fits)
Condense(s, room) ==
    LET base == {s.from} \cup Anchor(s)
        focus == Focus(s)
        fits(keep) == Wrap + BodySize(keep, s) <= room
        tries == <<ContextLines, ContextLines \div 2, 1, 0>>
        window(k) == base \cup (LinesOf(s) \cap
                         UNION {Minus(f, tries[k]) .. f + tries[k] : f \in ToSet(focus)})
        fitting == {k \in DOMAIN tries : fits(window(k))}
    IN  IF focus = <<>>
        THEN LastFitting([i \in 1 .. s.to - s.from + 1 |-> base \cup (s.from .. s.from + i - 1)],
                         fits)
        ELSE IF fitting # {} THEN {window(Min(fitting))}
        ELSE LastFitting([i \in DOMAIN focus |-> base \cup {focus[j] : j \in 1 .. i}], fits)

-------------------------------------------------------------------------------
(* Filling by score *)

FirstCost == IF blocks = <<>> THEN Preamble + Joint ELSE Joint
Remaining == Minus(budget, used + FirstCost)
NearDuplicate(s) ==
    LET terms == At(Best(s)).terms
    IN  \E k \in DOMAIN blocks :
            LET other == At(Best(blocks[k].span)).terms
            IN  /\ terms # {} /\ other # {}
                /\ 100 * Cardinality(terms \cap other) >
                       NearPercent * Cardinality(terms \cup other)
OfDocument(d) == {k \in DOMAIN blocks : blocks[k].span.doc = d}

Refused(s) ==
    IF Len(blocks) >= MaxBlocks THEN "MaxBlocks"
    ELSE IF Cardinality(OfDocument(s.doc)) >= PerDocCap THEN "PerDocumentCap"
    ELSE IF NearDuplicate(s) THEN "NearDuplicate" ELSE "no"

\* The whole span, else the span condensed, else nothing.
Fitted(s) ==
    IF Whole(s).tokens <= Remaining THEN {Whole(s)}
    ELSE IF Remaining < MinBlock THEN {}
    ELSE {Elided(s, keep) : keep \in Condense(s, Remaining)}

Fill ==
    /\ phase = "fill" /\ todo # <<>> /\ todo' = Tail(todo)
    /\ LET s == Head(todo)
       IN  IF Refused(s) # "no" THEN Exclude(Best(s), Refused(s)) /\ UNCHANGED <<blocks, used>>
           ELSE IF Fitted(s) = {} THEN Exclude(Best(s), "Budget") /\ UNCHANGED <<blocks, used>>
           ELSE \E b \in Fitted(s) :
                    /\ blocks' = Append(blocks, b) /\ used' = used + FirstCost + b.tokens
                    /\ UNCHANGED excluded
    /\ UNCHANGED <<phase, budget, drift, ranked, spans, cursor, trimmed>>

Filled ==
    /\ phase = "fill" /\ todo = <<>>
    /\ phase' = IF Expand /\ blocks # <<>> THEN "widen" ELSE "trim"
    /\ UNCHANGED <<budget, drift, ranked, todo, spans, blocks, used, excluded, cursor, trimmed>>

-------------------------------------------------------------------------------
(* Widening into the leftover budget *)

Passes == 2
Leftover == Minus(budget, used)

\* The passages of the section around the best passage, when they cover the span.
SectionRange(s) ==
    LET k == At(Best(s)).section
        inside == {i \in DOMAIN Passages[s.doc] :
                      /\ Passages[s.doc][i].first >= Sections[s.doc][k].first
                      /\ Passages[s.doc][i].last <= Sections[s.doc][k].last}
    IN  IF k = 0 \/ inside = {} THEN <<>>
        ELSE IF Min(inside) <= s.first /\ Max(inside) >= s.last
             THEN <<<<Min(inside), Max(inside)>>>> ELSE <<>>

Ranges(s) ==
    LET lo == Most(1, s.first - 1)  hi == Least(s.last + 1, Len(Passages[s.doc]))
    IN  SectionRange(s) \o <<<<lo, hi>>, <<s.first, hi>>, <<lo, s.last>>>>
Grown(s, r) ==
    [s EXCEPT !.first = Least(r[1], @), !.last = Most(r[2], @),
              !.from = Least(Passages[s.doc][r[1]].first, @),
              !.to = Most(Passages[s.doc][r[2]].last, @)]
Overlap(s, t) == s.doc = t.doc /\ s.from <= t.to /\ t.from <= s.to
Collides(k, s) == \E j \in DOMAIN blocks : j # k /\ Overlap(blocks[j].span, s)

\* The first of the ranges tried, if any, that the k-th block may take.
Wider(k) ==
    LET s == blocks[k].span
        fits(ranges) ==
            {r \in DOMAIN ranges :
                /\ ranges[r] # <<s.first, s.last>> /\ ranges[r][1] <= ranges[r][2]
                /\ \E t \in {Grown(s, ranges[r])} :
                       ~Collides(k, t) /\ Whole(t).tokens <= blocks[k].tokens + Leftover}
    IN  {Grown(s, ranges[Min(fits(ranges))]) : ranges \in {x \in {Ranges(s)} : fits(x) # {}}}

Widen ==
    /\ phase = "widen" /\ cursor.at <= Len(blocks) /\ Leftover >= budget \div 8
    /\ LET k == cursor.at
           wider == IF blocks[k].condensed THEN {} ELSE Wider(k)
       IN  /\ cursor' = [cursor EXCEPT !.at = k + 1, !.grew = @ \/ wider # {}]
           /\ IF wider = {} THEN UNCHANGED <<blocks, used>>
              ELSE \E s \in wider : LET b == [Whole(s) EXCEPT !.expanded = TRUE] IN
                       /\ blocks' = [blocks EXCEPT ![k] = b]
                       /\ used' = used + b.tokens - Least(blocks[k].tokens, b.tokens)
    /\ UNCHANGED <<phase, budget, drift, ranked, todo, spans, excluded, trimmed>>

MorePassesMutant == cursor.at > Len(blocks) /\ cursor.grew
MorePasses == cursor.at > Len(blocks) /\ cursor.grew /\ cursor.pass < Passes

\* A pass that grew nothing, the last pass, or too little left ends the widening.
Widened ==
    /\ phase = "widen"
    /\ cursor.at > Len(blocks) \/ Leftover < budget \div 8
    /\ IF MorePasses
       THEN cursor' = [pass |-> cursor.pass + 1, at |-> 1, grew |-> FALSE] /\ UNCHANGED phase
       ELSE phase' = "trim" /\ UNCHANGED cursor
    /\ UNCHANGED <<budget, drift, ranked, todo, spans, blocks, used, excluded, trimmed>>

-------------------------------------------------------------------------------
(* Ordering and the real count *)

SumOf(seq) == FoldFunction(+, 0, seq)
Rendered(bs) ==
    IF bs = <<>> THEN 0
    ELSE Preamble + SumOf([k \in DOMAIN bs |-> Joint + bs[k].tokens + drift])

\* Documents by their best block, then lines.
InOrder(bs) ==
    IF ~DocumentOrder THEN bs
    ELSE LET place(d) == Min({k \in DOMAIN bs : bs[k].span.doc = d})
         IN  ByKey(bs, LAMBDA a, b :
                 \/ place(a.span.doc) < place(b.span.doc)
                 \/ (a.span.doc = b.span.doc /\ a.span.from < b.span.from))

Weakest(bs) ==
    Min({k \in DOMAIN bs : \A j \in DOMAIN bs : bs[k].span.score <= bs[j].span.score})

TrimMutant ==
    /\ phase = "trim"
    /\ LET bs == InOrder(blocks)
       IN  IF Rendered(bs) > budget
           THEN /\ blocks' = RemoveAt(bs, Len(bs))
                /\ trimmed' = Append(trimmed, bs[Len(bs)]) /\ UNCHANGED phase
           ELSE phase' = "packed" /\ blocks' = bs /\ UNCHANGED trimmed
    /\ UNCHANGED <<budget, drift, ranked, todo, spans, used, excluded, cursor>>
Trim ==
    /\ phase = "trim"
    /\ LET bs == InOrder(blocks)
       IN  IF Rendered(bs) > budget
           THEN /\ blocks' = RemoveAt(bs, Weakest(bs))
                /\ trimmed' = Append(trimmed, bs[Weakest(bs)]) /\ UNCHANGED phase
           ELSE phase' = "packed" /\ blocks' = bs /\ UNCHANGED trimmed
    /\ UNCHANGED <<budget, drift, ranked, todo, spans, used, excluded, cursor>>

Pack == Merge \/ Merged \/ Fill \/ Filled \/ Widen \/ Widened \/ Trim

-------------------------------------------------------------------------------
(* Properties *)

\* Every value has its type.
TypeOK ==
    /\ phase \in {"merge", "fill", "widen", "trim", "packed"}
    /\ budget \in Nat /\ drift \in Nat /\ used \in Nat
    /\ cursor \in [pass : 1 .. Passes, at : Nat, grew : BOOLEAN]
    /\ \A k \in DOMAIN blocks : LET b == blocks[k] IN
           /\ b.span.doc \in Doc /\ b.lines \subseteq LinesOf(b.span) /\ b.tokens \in Nat

\* A condensed block still opens with the first line of its span, shows the
\* whole anchor of its best passage and, where anything in it matched, a
\* matched line; what it leaves out is under a marker.
CondensedShowsWhy ==
    \A k \in DOMAIN blocks : blocks[k].condensed =>
        LET b == blocks[k]  s == b.span  matched == ToSet(Focus(s)) IN
        /\ {s.from} \cup Anchor(s) \subseteq b.lines
        /\ matched # {} => matched \cap b.lines # {}
        /\ LinesOf(s) = b.lines \cup UNION {g[1] .. g[2] : g \in b.markers}

\* A run of weak neighbours never outranks the single passage it grew on by
\* more than a fifth.
RunsStayWeak ==
    \A k \in DOMAIN spans : \A m \in DOMAIN spans[k].members :
        100 * spans[k].score <= 120 * Max({spans[k].members[i].score :
                                           i \in DOMAIN spans[k].members})

\* The count of the whole text takes the weakest blocks out, and no others:
\* nothing it removed was better than anything it kept.
WeakestGoesFirst ==
    \A t \in DOMAIN trimmed : \A k \in DOMAIN blocks :
        trimmed[t].span.score <= blocks[k].span.score

=============================================================================
