----------------------------- MODULE MCRetrieve -----------------------------
(* Instances of Retrieve for TLC. *)
EXTENDS Retrieve, TLC

CONSTANTS docA, docB, fs, o, old, n1, n2, v1, v2, v3, t1, t2, q1, q2, q3, q4, none,
          ka, kb, kf, ko, kd, kn, shared, private, e1, e2, e3, e4, e5

\* docA: eight lines in four passages, the first three of them one section;
\* docB: one passage of seven lines, two matched lines far apart;
\* fs: a stored file, v1 its bytes in the tree, v2 and v3 later texts of it;
\* o: of another scope; old: a document that may be deleted.
AllDocs == {docA, docB, fs, o, old, n1, n2, v1, v2, v3}
SomeBlank == [d \in AllDocs |->
    IF d = docA THEN [i \in 1 .. 8 |-> i = 5]
    ELSE IF d = docB THEN [i \in 1 .. 7 |-> i = 3] ELSE [i \in 1 .. 4 |-> FALSE]]
Passage(i, j, k, ts, anchor, focus) ==
    [first |-> i, last |-> j, section |-> k, terms |-> ts, anchor |-> anchor, focus |-> focus]
Plain(i, j, ts) == Passage(i, j, 0, ts, <<0, 1>>, <<i>>)
SomePassages == [d \in AllDocs |->
    CASE d = docA -> <<Passage(1, 2, 1, {t1}, <<0, 1>>, <<>>),
                    Passage(3, 4, 1, {t2}, <<0, 1>>, <<4>>),
                    Passage(5, 6, 1, {}, <<0, 0>>, <<6>>),
                    Passage(7, 8, 0, {t1, t2}, <<1, 1>>, <<>>)>>
      [] d = docB -> <<Passage(1, 7, 0, {t1, t2}, <<1, 1>>, <<4, 7>>)>>
      [] d \in {fs, v1} -> <<Plain(1, 2, {q1}), Plain(3, 4, {q1, q2})>>
      [] d = v3 -> <<Plain(1, 4, {q1})>>
      [] d = v2 -> <<Plain(1, 1, {q2}), Plain(2, 4, {q1})>>
      [] d = o -> <<Plain(1, 3, {q3})>>
      [] d = old -> <<Plain(1, 1, {q3, q4}), Plain(2, 2, {q2})>>
      [] d = n1 -> <<Plain(1, 2, {t2}), Plain(3, 4, {q1})>>
      [] d = n2 -> <<Plain(1, 1, {q1, q2, q4})>>]
SomeSections == [d \in AllDocs |-> IF d = docA THEN <<[first |-> 1, last |-> 6]>> ELSE <<>>]

\* Every order of at most three of the five passages of docA and docB, with scores
\* that fall steeply or hardly, and the last one exempt from the floor or not.
Given == {<<docA, 1>>, <<docA, 2>>, <<docA, 3>>, <<docA, 4>>, <<docB, 1>>}
Scores == {<<100, 80, 20, 20>>, <<100, 100, 80, 60>>}
SomeRankings ==
    {[i \in DOMAIN order |-> [doc |-> order[i][1], idx |-> order[i][2], score |-> scores[i],
                              exempt |-> (i = Len(order) /\ exempt)]] :
        order \in {s \in UNION {[1 .. n -> Given] : n \in 1 .. 4} : IsInjective(s)},
        scores \in Scores, exempt \in BOOLEAN}

Kept3 == {fs, o, old, n1, n2}
Keys == [d \in AllDocs |->
    CASE d = docA -> ka [] d = docB -> kb [] d \in {fs, v1, v2, v3} -> kf [] d = o -> ko
      [] d = old -> kd [] d = n1 -> kn [] d = n2 -> n2]
DocScope == [d \in Kept3 |-> IF d = o THEN private ELSE shared]
Deleted == {{}, {old}}
AllScopes == {shared, private}
Grants == {{shared}, {private}, {shared, private}}
Excludes == {{}, {kf}}
Asks == {q1, q2, q3, q4}
Weights == (q1 :> 2) @@ (q2 :> 5) @@ (q3 :> 20) @@ (q4 :> 30)

\* e1 works for e2 (fs), e2 acquired e3 (o), e3 founded e4 (n1), and e1 and e4
\* are mentioned together (old).
Edge(x, y, r, c, p) == [from |-> x, to |-> y, rel |-> r, conf |-> c, at |-> p]
SomeEdges == {Edge(e1, e2, "works", 90, <<fs, 1>>), Edge(e2, e3, "acquired", 90, <<o, 1>>),
              Edge(e3, e4, "founded", 90, <<n1, 1>>), Edge(e1, e4, "with", 60, <<old, 2>>),
              Edge(e2, e4, "cites", 60, <<n2, 1>>),
              Edge(e2, e5, "cites", 90, <<n1, 2>>)}
SomeDefs == [e \in {e1, e2, e3, e4, e5} |-> IF e = e1 THEN {<<fs, 2>>} ELSE {}]
SomeMentions == [e \in {e1, e2, e3, e4, e5} |-> IF e = e4 THEN {<<old, 1>>} ELSE {}]
FromE1 == (e1 :> 90)
NoDamping == [e \in {e1, e2, e3, e4, e5} |-> 90]
Parts == [r \in {"works", "acquired", "founded", "with", "cites"} |->
             IF r = "acquired" THEN {q2} ELSE IF r = "founded" THEN {q3} ELSE {}]

SomeVectors == (<<fs, 1>> :> 90) @@ (<<o, 1>> :> 80) @@ (<<n1, 1>> :> 70) @@ (<<old, 1>> :> 60)
TwinOf == (v1 :> fs) @@ (v2 :> none) @@ (v3 :> none)
TwoIdentifiers == <<"f", "g">>
MatchLines == (v1 :> ("f" :> {1} @@ "g" :> {4})) @@ (v2 :> ("f" :> {2} @@ "g" :> {1, 3}))
    @@ (v3 :> ("f" :> {} @@ "g" :> {4}))
EvenPrior == [d \in AllDocs |-> IF d = old THEN 80 ELSE 100]
=============================================================================
