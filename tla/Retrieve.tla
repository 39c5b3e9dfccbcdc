------------------------------ MODULE Retrieve ------------------------------
(***************************************************************************)
(* Retrieving evidence for a question: lexical candidates, a walk of the   *)
(* entity graph, exact matches in the live files, nearest vectors, one     *)
(* ranking of them all, and the packing of what it yields (Evidence).      *)
(*                                                                         *)
(* A document is one version of a text: stored in the snapshot, or read    *)
(* live from the tree, where `Twin` is the stored version with the same    *)
(* bytes.  A place <<d, i>> is the i-th passage of d.  Weights and         *)
(* activations are percent; the signals of the reranker that no property   *)
(* is about are in the prior of a document.                                *)
(***************************************************************************)
EXTENDS Evidence

CONSTANTS
    StoredDoc, Key, ScopeOf, DeadSets, \* the snapshot; bound: what is deleted
    Scopes, ScopeSets, ExcludeSets,    \* bound: what a request grants and excludes
    Question, Idf, PostingsBudget, CandidateLimit, \* the question's terms
    Edges, Defs, Mentions, Seeds, Damping, \* the entity graph, and entities it starts from
    Answers, CoMention,                    \* parts of the question a relation answers
    Hops, Beam, MaxLinks,
    Vectors, NearLimit,         \* similarity of each place with a vector
    FileKey, Version, Twin, SourceScope, Identifiers, Matches, \* the live tree
    MaxEdits,                \* bound: edits of files while retrieving
    Prior, RerankLimit, MaxResults, MaxLifts, NearestExempt,
    WLex, WExact, WGraph, WNear

Places(D) == UNION {{<<d, i>> : i \in DOMAIN Passages[d]} : d \in D}

\* The snapshot has one version of each key (ContextStore), and the rankings
\* given to packing show one version of each as well.
ASSUME RetrieveAssumption ==
    /\ StoredDoc \cap Version = {} /\ StoredDoc \cup Version \subseteq Doc
    /\ IsFiniteSet(StoredDoc) /\ IsFiniteSet(Version)
    /\ \A D \in DeadSets : \A d, e \in StoredDoc \ D : Key[d] = Key[e] => d = e
    /\ \A r \in Rankings : \A i, j \in DOMAIN r : Key[r[i].doc] = Key[r[j].doc] => r[i].doc = r[j].doc
    /\ SourceScope \in Scopes /\ \A d \in StoredDoc : ScopeOf[d] \in Scopes
    /\ IsFiniteSet(Question) /\ \A t \in Question : Idf[t] \in Nat
    /\ IsFiniteSet(Edges) /\ \A e \in Edges : /\ e.at \in Places(StoredDoc) /\ e.conf \in Nat
                                               /\ {e.from, e.to} \subseteq DOMAIN Damping
    /\ \A e \in DOMAIN Damping : /\ Damping[e] \in Nat
                                 /\ Defs[e] \cup Mentions[e] \subseteq Places(StoredDoc)
    /\ IsFiniteSet(DOMAIN Seeds) /\ DOMAIN Seeds \subseteq DOMAIN Damping
    /\ \A e \in DOMAIN Seeds : Seeds[e] \in Nat
    /\ DOMAIN Vectors \subseteq Places(StoredDoc) /\ \A a \in DOMAIN Vectors : Vectors[a] \in Nat
    /\ \A d \in StoredDoc \cup Version : Prior[d] \in Nat
    /\ {PostingsBudget, CandidateLimit, Hops, Beam, MaxLinks, NearLimit, RerankLimit,
        MaxResults, MaxLifts, NearestExempt, WLex, WExact, WGraph, WNear} \subseteq Nat

VARIABLES
    stage,   \* "lexical", "walk", "exact", "score", "lift", "rank" or "ranked"
    dead, granted, exclude, \* of the snapshot and the request
    lex,     \* lexical score of each candidate
    best,    \* entities reached: [act, steps]
    frontier, hop,
    hits,    \* places the graph reached: [act, chain]
    tree,    \* the version of each file now
    edits,
    ident,   \* the identifier searched next
    opened,  \* live documents by key, as first read
    stored,  \* stored places with an exact match: <<d, i, line>>
    liveHits,\* live places with an exact match
    score,   \* the scores of the candidates
    lifted,  \* those raised along a chain
    raced    \* history: a file changed while its identifiers were searched

request == <<dead, granted, exclude>>
walked == <<lex, best, frontier, hop, hits>>
read == <<tree, edits, ident, opened, stored, liveHits, raced>>
scoring == <<score, lifted>>
retrieval == <<stage, request, walked, read, scoring>>
allVars == <<retrieval, evidence>>

Asked == {r \in DOMAIN Answers : Answers[r] # {}}
Empty == [x \in {} |-> 0]
TermsOf(a) == Passages[a[1]][a[2]].terms
BestFirst(S, weight) ==  \* by weight, ties in one fixed order
    LET top(T) == CHOOSE x \in T : \A y \in T : weight[y] <= weight[x]
        picked[k \in 0 .. Cardinality(S)] ==
            IF k = 0 THEN <<>>
            ELSE LET before == picked[k - 1] IN Append(before, top(S \ ToSet(before)))
    IN  picked[Cardinality(S)]
First(seq, n) == SubSeq(seq, 1, Least(n, Len(seq)))

InitRetrieval ==
    /\ stage = "lexical"
    /\ dead \in DeadSets /\ granted \in ScopeSets /\ exclude \in ExcludeSets
    /\ lex = Empty /\ best = Empty /\ frontier = {} /\ hop = 0 /\ hits = Empty
    /\ tree \in [FileKey -> Version] /\ (\A k \in FileKey : Key[tree[k]] = k)
    /\ edits = 0 /\ ident = 1 /\ opened = Empty /\ stored = {} /\ liveHits = {}
    /\ raced = FALSE /\ score = Empty /\ lifted = Empty
InitAll ==
    /\ InitRetrieval
    /\ phase = "packed" /\ budget \in Budgets /\ drift \in Drifts /\ ranked = <<>> /\ todo = <<>>
    /\ spans = <<>> /\ blocks = <<>> /\ used = 0 /\ excluded = <<>>
    /\ cursor = FirstPass /\ trimmed = <<>>

-------------------------------------------------------------------------------
(* Visibility and lexical candidates *)

Alive == StoredDoc \ dead
Lookup(k) == {d \in Alive : Key[d] = k}
VisibleMutant == {d \in Alive : Key[d] \notin exclude}
Visible == {d \in Alive : ScopeOf[d] \in granted /\ Key[d] \notin exclude}
Seen(a) == a[1] \in Visible

\* The two rarest terms always; a commoner one only within the budget.
Frequency(t) == Cardinality({a \in Places(StoredDoc) : t \in TermsOf(a)})
Rarest ==
    LET t == {x \in Question : Frequency(x) > 0}
    IN  BestFirst(t, [x \in t |-> Cardinality(Places(StoredDoc)) - Frequency(x)])
Traversed ==
    LET spend[k \in 0 .. Len(Rarest)] ==
            IF k = 0 THEN [terms |-> {}, cost |-> 0]
            ELSE LET before == spend[k - 1]  df == Frequency(Rarest[k])
                 IN  IF k > 2 /\ before.cost + df > PostingsBudget THEN before
                     ELSE [terms |-> before.terms \cup {Rarest[k]}, cost |-> before.cost + df]
    IN  spend[Len(Rarest)].terms

MatchingMutant == {a \in Places(Alive) : TermsOf(a) \cap Traversed # {}}
Matching == {a \in Places(Visible) : TermsOf(a) \cap Traversed # {}}
Lexical ==
    /\ stage = "lexical" /\ stage' = "walk"
    /\ LET sum == [a \in Matching |-> SumFunctionOnSet(Idf, TermsOf(a) \cap Traversed)]
       IN  lex' = [a \in ToSet(First(BestFirst(Matching, sum), CandidateLimit)) |-> sum[a]]
    /\ best' = [e \in DOMAIN Seeds |-> [act |-> Seeds[e], steps |-> <<>>]]
    /\ frontier' = DOMAIN Seeds
    /\ UNCHANGED <<hop, hits, request, read, scoring, evidence>>

-------------------------------------------------------------------------------
(* The walk of the entity graph *)

\* What one hop from the frontier offers: an entity, through an edge.
Through(e, key) == IF e.from = key THEN e.to ELSE e.from
Activation(e, key) ==
    (best[key].act * e.conf * 60 * (IF e.rel \in Asked THEN 25 ELSE 10) * Damping[key])
        \div 10000000
Offers ==
    {[to |-> Through(p[1], p[2]), act |-> Activation(p[1], p[2]), at |-> p[1].at,
      steps |-> Append(best[p[2]].steps, p[1])] :
        p \in {x \in Edges \X frontier : x[2] \in {x[1].from, x[1].to}}}
HopOffersMutant == {o \in Offers : o.act >= 2}
HopOffers ==
    {o \in Offers : o.act >= 2 /\ (hop >= 2 => o.steps[Len(o.steps)].rel \in Asked)}

\* The strongest of several chains to one place wins, an earlier one on ties.
Upsert(old, new) ==
    [a \in DOMAIN old \cup {x.at : x \in new} |->
        LET here == {x \in new : x.at = a}
            top == CHOOSE x \in here : \A y \in here : y.act <= x.act
        IN  IF here = {} THEN old[a]
            ELSE IF a \in DOMAIN old /\ old[a].act >= top.act THEN old[a]
            ELSE [act |-> top.act, chain |-> top.chain]]
Chain(steps, link, entity) == [steps |-> steps, link |-> link, entity |-> entity]

Hop ==
    /\ stage = "walk" /\ hop < Hops /\ frontier # {}
    /\ LET better == {o \in HopOffers : o.to \notin DOMAIN best \/ best[o.to].act < o.act}
           top(e) == CHOOSE o \in better : o.to = e /\ \A p \in better : p.to = e => p.act <= o.act
           found == {o.to : o \in better}
           kept == ToSet(First(BestFirst(found, [e \in found |-> top(e).act]), Beam))
       IN  /\ hits' = Upsert(hits, {[at |-> o.at, act |-> o.act,
                                     chain |-> Chain(o.steps, "states", o.to)] :
                                        o \in {x \in HopOffers : Seen(x.at)}})
           /\ frontier' = kept
           /\ best' = [e \in DOMAIN best \cup kept |->
                          IF e \in kept THEN [act |-> top(e).act, steps |-> top(e).steps]
                          ELSE best[e]]
    /\ hop' = hop + 1
    /\ UNCHANGED <<stage, lex, request, read, scoring, evidence>>

\* Passages that define or mention what was reached, lexical matches first.
Links(e, places, link, weight) ==
    LET seen == {x \in places : Seen(x)}
        order == BestFirst(seen, [x \in seen |-> IF x \in DOMAIN lex THEN 1 ELSE 0])
    IN  {[at |-> a, act |-> (best[e].act * weight) \div 100,
          chain |-> Chain(best[e].steps, link, e)] : a \in ToSet(First(order, MaxLinks))}
LinkPassages ==
    /\ stage = "walk" /\ stage' = "exact"
    /\ hop = Hops \/ frontier = {}
    /\ hits' = Upsert(hits, UNION {
           Links(e, Defs[e], "defines", 100)
           \cup Links(e, Mentions[e], "mentions", IF best[e].steps = <<>> THEN 30 ELSE 50) :
               e \in DOMAIN best})
    /\ UNCHANGED <<lex, best, frontier, hop, request, read, scoring, evidence>>

-------------------------------------------------------------------------------
(* Exact matches in the live files *)

\* A file is written while the identifiers are searched one after another.
Edit(k, v) ==
    /\ stage = "exact" /\ edits < MaxEdits /\ edits' = edits + 1
    /\ Key[v] = k /\ v # tree[k] /\ tree' = [tree EXCEPT ![k] = v]
    /\ raced' = (raced \/ ident > 1)
    /\ UNCHANGED <<stage, ident, opened, stored, liveHits, request, walked, scoring, evidence>>

\* The passages of d that hold a matched line.
Hit(d, lines) ==
    {x \in {d} \X (DOMAIN Passages[d]) \X lines :
        x[3] \in Passages[d][x[2]].first .. Passages[d][x[2]].last}
Found == {k \in FileKey \ exclude : Matches[tree[k]][Identifiers[ident]] # {}}
CurrentMutant(k) == Lookup(k) # {} 
\* The store holds the very bytes just read, under this key.
Current(k) == Twin[tree[k]] \in Lookup(k)

SearchIdentifier ==
    /\ stage = "exact" /\ SourceScope \in granted /\ ident <= Len(Identifiers)
    /\ LET lines(k) == Matches[tree[k]][Identifiers[ident]]
           same == (UNION {Lookup(k) : k \in {x \in Found : Current(x)}}) \cap Visible
           newer == {k \in Found : ~Current(k)}
       IN  /\ stored' = stored \cup UNION {Hit(d, lines(Key[d])) : d \in same}
           /\ opened' = [k \in DOMAIN opened \cup newer |->
                            IF k \in DOMAIN opened THEN opened[k] ELSE tree[k]]
           /\ liveHits' = liveHits \cup UNION {Hit(opened'[k], lines(k)) : k \in newer}
    /\ ident' = ident + 1
    /\ UNCHANGED <<stage, tree, edits, raced, request, walked, scoring, evidence>>

\* The request may not read the scope of the tree, or every identifier is done.
Searched ==
    /\ stage = "exact" /\ stage' = "score"
    /\ SourceScope \notin granted \/ ident > Len(Identifiers)
    /\ UNCHANGED <<request, walked, read, scoring, evidence>>

-------------------------------------------------------------------------------
(* One ranking *)

Nearest == First(BestFirst({a \in DOMAIN Vectors : Seen(a)}, Vectors), NearLimit)
Similarity(a) ==
    IF Nearest = <<>> \/ a \notin DOMAIN Vectors THEN 0
    ELSE LET hi == Vectors[Nearest[1]]  lo == Vectors[Nearest[Len(Nearest)]]
         IN  IF hi = lo THEN IF Vectors[a] >= hi THEN 100 ELSE 0
             ELSE Least(100, (Minus(Vectors[a], lo) * 100) \div (hi - lo))

PlaceOf(h) == <<h[1], h[2]>>
Exact == {PlaceOf(h) : h \in stored \cup liveHits}
LexPercent(a) ==
    IF a \in DOMAIN lex THEN (lex[a] * 100) \div Max({lex[b] : b \in DOMAIN lex} \cup {1}) ELSE 0
Graph(a) == IF a \in DOMAIN hits THEN hits[a].act ELSE 0
Prelim(a) == LexPercent(a) + Graph(a) + Similarity(a) + (IF a \in Exact THEN 100 ELSE 0)
Pool == DOMAIN lex \cup DOMAIN hits \cup {PlaceOf(h) : h \in stored} \cup ToSet(Nearest)

\* Stored copies of files read live are left to the live text.
LiveKeys == {Key[h[1]] : h \in liveHits}
Reranked == ToSet(First(BestFirst(Pool, [a \in Pool |-> Prelim(a)]), Most(1, RerankLimit)))
CandidatesMutant ==
    Reranked \cup {PlaceOf(h) : h \in liveHits}
Candidates ==
    {a \in Reranked : Key[a[1]] \notin LiveKeys}
    \cup {PlaceOf(h) : h \in liveHits}

\* combine: nothing without a tie to the question.
Coverage(a) ==
    IF Question = {} THEN 0
    ELSE (100 * Cardinality(TermsOf(a) \cap Question)) \div Cardinality(Question)
Tied(a) == Coverage(a) > 0 \/ a \in Exact \/ Graph(a) > 0 \/ Similarity(a) > 0
Combined(a) ==
    ((WLex * Coverage(a) + WExact * (IF a \in Exact THEN 100 ELSE 0)
      + WGraph * Least(100, Graph(a)) + WNear * Similarity(a)) * Prior[a[1]]) \div 10000
ScoreCandidates ==
    /\ stage = "score" /\ stage' = "lift"
    /\ score' = [a \in {x \in Candidates : Tied(x) /\ Combined(x) > 0} |-> Combined(a)]
    /\ UNCHANGED <<lifted, request, walked, read, evidence>>

-------------------------------------------------------------------------------
(* Relevance along chains *)

\* How many hops lead from a into the path `path`, if it leads there.
StepsOf(a) == IF a \in DOMAIN hits THEN hits[a].chain.steps ELSE <<>>
SameStep(x, y) == x.from = y.from /\ x.rel = y.rel /\ x.to = y.to
HopsFrom(a, path) ==
    LET mine == StepsOf(a)  n == Len(mine)
    IN  IF a \notin DOMAIN hits THEN {}
        ELSE IF mine = <<>>
             THEN IF hits[a].chain.entity \in {path[1].from, path[1].to} THEN {Len(path)} ELSE {}
        ELSE IF /\ n <= Len(path) /\ \A k \in 1 .. Least(n, Len(path)) : SameStep(mine[k], path[k])
                /\ n < Len(path) \/ hits[a].chain.link = "states"
             THEN {Most(1, Len(path) - n)} ELSE {}

Carry[n \in 0 .. Hops] == IF n = 0 THEN 100 ELSE (Carry[n - 1] * 85) \div 100
States(a) == hits[a].chain.link \in {"states", "defines"}
LeadsMutant(b, a) == b # a /\ HopsFrom(b, StepsOf(a)) # {}
Leads(b, a) ==
    LET path == StepsOf(a)
        evidenceOfHop == States(a) /\ \E k \in DOMAIN path : path[k].rel \in Asked
    IN  /\ b # a /\ HopsFrom(b, path) # {}
        /\ \/ evidenceOfHop
           \/ /\ path[Len(path)].rel \notin CoMention
              /\ (TermsOf(a) \cap Question) \ TermsOf(b) # {}
Inherited(a) ==
    LET last == StepsOf(a)[Len(StepsOf(a))]
        from == {(score[x[1]] * Carry[x[2]]) \div 100 :
                    x \in {y \in (DOMAIN score) \X (1 .. Hops) :
                              Leads(y[1], a) /\ y[2] \in HopsFrom(y[1], StepsOf(a))}}
    IN  (Max(from \cup {0}) * (IF last.rel \in Asked THEN 100 ELSE 90)) \div 100
Fresh(a) ==
    LET path == StepsOf(a)
    IN  Answers[path[Len(path)].rel] \
            UNION {Answers[path[k].rel] : k \in 1 .. Len(path) - 1} # {}
\* Fresh first, then asked, then evidence of the relation itself.
Merit(a) == (IF Fresh(a) THEN 400 ELSE 0)
            + (IF StepsOf(a)[Len(StepsOf(a))].rel \in Asked THEN 200 ELSE 0)
            + (IF States(a) THEN 100 ELSE 0)
Lift ==
    /\ stage = "lift" /\ stage' = "rank"
    /\ \E up \in {[a \in {x \in DOMAIN score : StepsOf(x) # <<>>} |-> Inherited(a)]} :
           LET higher == {a \in DOMAIN up : up[a] > score[a]}
               taken == First(BestFirst(higher, [a \in higher |-> 1000 * Merit(a) + up[a]]),
                              MaxLifts)
           IN  lifted' = [a \in ToSet(taken) |-> up[a]]
    /\ UNCHANGED <<score, request, walked, read, evidence>>

Final(a) == IF a \in DOMAIN lifted THEN lifted[a] ELSE score[a]
Exempt(a) == a \in DOMAIN lifted \cup ToSet(First(Nearest, NearestExempt))
Rank ==
    /\ stage = "rank" /\ stage' = "ranked"
    /\ \E order \in {First(BestFirst(DOMAIN score, [a \in DOMAIN score |-> Final(a)]), MaxResults)} :
           ranked' = [k \in DOMAIN order |->
               [doc |-> order[k][1], idx |-> order[k][2], score |-> Final(order[k]),
                exempt |-> Exempt(order[k])]]
    /\ todo' = ranked' /\ phase' = "merge"
    /\ UNCHANGED <<request, walked, read, scoring, budget, drift, spans, blocks, used, excluded,
                   cursor, trimmed>>

RetrieveStep ==
    \/ Lexical \/ Hop \/ LinkPassages \/ SearchIdentifier \/ Searched
    \/ ScoreCandidates \/ Lift \/ Rank
    \/ \E k \in FileKey, v \in Version : Edit(k, v)
PackStep == stage = "ranked" /\ Pack /\ UNCHANGED retrieval

\* Retrieval from its start, and packing of any ranking at all.
Fixed ==
    /\ stage = "ranked" /\ dead = {} /\ granted = Scopes /\ exclude = {}
    /\ lex = Empty /\ best = Empty /\ frontier = {} /\ hop = 0 /\ hits = Empty
    /\ tree = [k \in FileKey |-> CHOOSE v \in Version : Key[v] = k]
    /\ edits = 0 /\ ident = 1 /\ opened = Empty /\ stored = {} /\ liveHits = {}
    /\ raced = FALSE /\ score = Empty /\ lifted = Empty
NextAll == RetrieveStep \/ PackStep
SpecAll == (InitAll \/ (Fixed /\ Init)) /\ [][NextAll]_allVars

-------------------------------------------------------------------------------
(* Properties *)

\* Every value has its type.
RetrieveTypeOK ==
    /\ stage \in {"lexical", "walk", "exact", "score", "lift", "rank", "ranked"}
    /\ DOMAIN lex \subseteq Places(Visible) /\ DOMAIN hits \subseteq Places(StoredDoc)
    /\ \A h \in stored \cup liveHits : PlaceOf(h) \in Places(StoredDoc \cup Version)
    /\ frontier \subseteq DOMAIN best /\ hop \in 0 .. Hops

\* Nothing reaches the evidence from a document the request may not see: one
\* deleted from the snapshot, of a scope it does not grant, or excluded by key,
\* whichever of the five sources found it.
NothingUnseen ==
    stage = "ranked" => \A k \in DOMAIN blocks :
        LET d == blocks[k].span.doc
        IN  /\ Key[d] \notin exclude
            /\ IF d \in StoredDoc THEN d \notin dead /\ ScopeOf[d] \in granted
               ELSE SourceScope \in granted

\* A packet never shows two versions of one file, however the file is written
\* while its identifiers are searched: the live text replaces the stored copy.
OneVersion ==
    stage = "ranked" => \A i, j \in DOMAIN ranked :
        Key[ranked[i].doc] = Key[ranked[j].doc] => ranked[i].doc = ranked[j].doc

\* Unless a file is written meanwhile, a line recorded as an exact match is one
\* in the text of the document it is recorded for.
TextMatches(d, l) ==
    \E v \in Version : (v = d \/ Twin[v] = d) /\ \E k \in DOMAIN Matches[v] : l \in Matches[v][k]
ExactLinesMatch ==
    ~raced => \A h \in stored \cup liveHits : TextMatches(h[1], h[3])

\* The end of a chain of relations is not shown without what leads to it: a
\* passage ranked above its own score comes after one that leads into its path
\* and, where the question does not ask for the relation, after one that it
\* adds a term to.
ChainsFollow ==
    stage = "ranked" => \A j \in DOMAIN ranked :
        LET a == <<ranked[j].doc, ranked[j].idx>>
        IN  a \in DOMAIN lifted =>
                \E i \in 1 .. j - 1 :
                    LET b == <<ranked[i].doc, ranked[i].idx>>
                    IN  /\ HopsFrom(b, StepsOf(a)) # {}
                        /\ \/ \E k \in DOMAIN StepsOf(a) : StepsOf(a)[k].rel \in Asked
                           \/ (TermsOf(a) \cap Question) \ TermsOf(b) # {}

\* The few passages nearest the question by vector reach packing whatever their
\* weighted score, as the pipeline says; only live text takes the place of one.
NearestReachPacking ==
    stage = "ranked" => \A a \in ToSet(First(Nearest, NearestExempt)) :
        Key[a[1]] \in LiveKeys \/ \E j \in DOMAIN ranked : a = <<ranked[j].doc, ranked[j].idx>>
=============================================================================
