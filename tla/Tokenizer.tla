------------------------------- MODULE Tokenizer -------------------------------
(***************************************************************************)
(* The sparse n-grams of a text: where a text is cut, which grams the      *)
(* index stores of it, and which grams a query may demand.  A gram stands  *)
(* for its hash; two grams with one hash only add candidates.              *)
(***************************************************************************)
EXTENDS Naturals, Sequences

CONSTANTS Char,
          Lower,     \* ASCII lowercase of a character
          Forced,    \* delimiters, which always cut a text
          LowerCase, \* ASCII lowercase letters
          UpperCase, \* ASCII uppercase letters
          Rare,      \* lowercase bigrams at or above BOUNDARY_THRESHOLD
          MinGram,   \* MIN_GRAM_LEN
          MaxGram    \* MAX_GRAM_LEN

ASSUME TokenAssumption ==
    /\ Lower \in [Char -> Char]
    /\ \A c \in Char : Lower[c] \in Forced <=> c \in Forced
    /\ MinGram \in Nat /\ MaxGram \in Nat

Lowered(t) == [i \in 1 .. Len(t) |-> Lower[t[i]]]

-------------------------------------------------------------------------------
(* Cuts: a position is the number of characters before it *)

Inside(t) == 1 .. Len(t) - 1

\* is_forced_boundary on either side, or a rare bigram of a lowercased text.
Cut(t, i) == t[i] \in Forced \/ t[i + 1] \in Forced \/ <<t[i], t[i + 1]>> \in Rare

\* with_boundary_positions_lower, on a lowercased text.
LowerBoundaries(t) == {0, Len(t)} \cup {i \in Inside(t) : Cut(t, i)}

\* camel_case_boundaries, on the text as it is.
CamelBoundaries(t) == {i \in Inside(t) : t[i] \in LowerCase /\ t[i + 1] \in UpperCase}

\* boundary_positions, and merge_boundaries of the two above.
Boundaries(t) == LowerBoundaries(Lowered(t)) \cup CamelBoundaries(t)

\* windows(2): two cuts without another between them, as long as a gram may be.
Spans(cuts) ==
    {w \in cuts \X cuts :
        /\ w[1] < w[2] /\ \A c \in cuts : c <= w[1] \/ w[2] <= c
        /\ MinGram <= w[2] - w[1] /\ w[2] - w[1] <= MaxGram}

Gram(t, w) == SubSeq(Lowered(t), w[1] + 1, w[2])

-------------------------------------------------------------------------------
(* Index time *)

\* The extra cuts of camel case are added to the spans without them, or instead.
BuildAllMutant(t) == {Gram(t, w) : w \in Spans(Boundaries(t))}
BuildAll(t) ==
    {Gram(t, w) : w \in Spans(LowerBoundaries(Lowered(t))) \cup Spans(Boundaries(t))}

-------------------------------------------------------------------------------
(* Query time *)

\* An end of the query is a cut of every text around it only behind a delimiter.
RealMutant(q, w) == TRUE
Real(q, w) ==
    /\ w[1] > 0 \/ Lower[q[1]] \in Forced
    /\ w[2] < Len(q) \/ Lower[q[Len(q)]] \in Forced

QuerySpans(q, cuts) == IF Len(q) < MinGram THEN {} ELSE Spans(cuts)

\* build_covering: both ends real, or at least one not.
Required(q) ==
    {Gram(q, w) : w \in {v \in QuerySpans(q, LowerBoundaries(Lowered(q))) : Real(q, v)}}
Optional(q) ==
    {Gram(q, w) : w \in {v \in QuerySpans(q, LowerBoundaries(Lowered(q))) : ~Real(q, v)}}

\* build_covering_inner, for a fragment of a regex.
Inner(q) == {Gram(q, w) : w \in {v \in QuerySpans(q, Boundaries(q)) : Real(q, v)}}

-------------------------------------------------------------------------------
(* What the two must agree on *)

\* q is in t behind its k-th character.
OccursAt(q, t, k) ==
    /\ k \in 0 .. Len(t) /\ k + Len(q) <= Len(t)
    /\ \A i \in 1 .. Len(q) : t[k + i] = q[i]
===============================================================================
