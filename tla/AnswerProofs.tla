---------------------------- MODULE AnswerProofs ----------------------------
(***************************************************************************)
(* Proofs about what reaches a prompt: the packer (Evidence), the          *)
(* conversation and its window (Assemble), and retrieval (Retrieve).       *)
(***************************************************************************)
EXTENDS Retrieve, Assemble, FiniteSetTheorems, SequenceTheorems, WellFoundedInduction, TLAPS

-------------------------------------------------------------------------------
(* Counting *)

\* Every nonempty set of numbers has a least element.
LEMMA LeastExists ==
  ASSUME NEW T, T \subseteq Nat, T # {}
  PROVE  \E n \in T : \A m \in T : n <= m
<1>1. PICK n \in T : \A m \in T : <<m, n>> \notin OpToRel(<, Nat)
  BY NatLessThanWellFounded, WFMin, Zenon
<1>2. \A m \in T : m \in Nat /\ n \in Nat /\ ~(m < n)
  BY <1>1, Zenon DEF OpToRel
<1> QED BY <1>2

\* Induction: a set that has 0 and every successor has every number.
LEMMA NatSet ==
  ASSUME NEW T, 0 \in T, \A n \in Nat : n \in T => n + 1 \in T
  PROVE  \A n \in Nat : n \in T
<1> SUFFICES ASSUME Nat \ T # {} PROVE FALSE
  OBVIOUS
<1>1. PICK n \in Nat \ T : \A m \in Nat \ T : n <= m
  BY LeastExists
<1>2. n # 0 /\ n - 1 \in Nat /\ ~(n <= n - 1)
  BY <1>1
<1>3. n - 1 \in T /\ (n - 1) + 1 = n
  BY <1>1, <1>2
<1> QED BY <1>1, <1>2, <1>3

\* The least of a set of numbers is in it.
LEMMA LeastIsMember ==
  ASSUME NEW T, T \subseteq Nat, T # {}
  PROVE  Min(T) \in T /\ \A m \in T : Min(T) <= m
BY LeastExists DEF Min

\* A finite set that is not empty has an element of the greatest weight.
LEMMA GreatestExists ==
  ASSUME NEW S, IsFiniteSet(S), S # {}, NEW w, \A x \in S : w[x] \in Nat
  PROVE  \E x \in S : \A y \in S : w[y] <= w[x]
<1>1. PICK n \in Nat : ExistsSurjection(1 .. n, S)
  BY FS_NatSurjection
<1>2. PICK f \in [1 .. n -> S] : \A x \in S : \E i \in 1 .. n : f[i] = x
  BY <1>1 DEF ExistsSurjection, Surjection
<1> DEFINE Top(m) == \E i \in 1 .. m : \A j \in 1 .. m : w[f[j]] <= w[f[i]]
           T == {m \in Nat : m = 0 \/ m > n \/ Top(m)}
<1>3. 0 \in T
  OBVIOUS
<1>4. ASSUME NEW m \in Nat, m \in T PROVE m + 1 \in T
  <2>1. CASE m + 1 > n
    BY <2>1
  <2>2. CASE m = 0 /\ m + 1 <= n
    <3>1. f[1] \in S /\ 1 .. 1 = {1}
      BY <2>2
    <3>2. Top(1)
      BY <3>1
    <3> QED BY <2>2, <3>2
  <2>3. CASE m # 0 /\ m + 1 <= n
    <3>1. PICK i \in 1 .. m : \A j \in 1 .. m : w[f[j]] <= w[f[i]]
      BY <1>4, <2>3
    <3>2. f[i] \in S /\ f[m + 1] \in S /\ \A j \in 1 .. m : f[j] \in S
      BY <1>2, <2>3, <3>1
    <3>3. CASE w[f[i]] <= w[f[m + 1]]
      <4>1. \A j \in 1 .. m + 1 : w[f[j]] <= w[f[m + 1]]
        BY <3>1, <3>2, <3>3
      <4> QED BY <4>1
    <3>4. CASE ~(w[f[i]] <= w[f[m + 1]])
      <4>1. \A j \in 1 .. m + 1 : w[f[j]] <= w[f[i]]
        BY <3>1, <3>2, <3>4
      <4>2. i \in 1 .. m + 1
        BY <3>1
      <4> QED BY <4>1, <4>2
    <3> QED BY <3>3, <3>4
  <2> QED BY <2>1, <2>2, <2>3
<1>5. n \in T
  <2> HIDE DEF T
  <2> QED BY <1>3, <1>4, NatSet
<1>6. n # 0
  BY <1>2
<1>7. PICK i \in 1 .. n : \A j \in 1 .. n : w[f[j]] <= w[f[i]]
  BY <1>5, <1>6
<1> QED BY <1>2, <1>7

\* The greatest of a finite set of numbers is in it.
LEMMA GreatestIsMember ==
  ASSUME NEW T, T \subseteq Nat, T # {}, IsFiniteSet(T)
  PROVE  Max(T) \in T /\ \A m \in T : m <= Max(T)
<1> DEFINE same == [x \in T |-> x]
<1>1. PICK n \in T : \A m \in T : same[m] <= same[n]
  <2>1. \A x \in T : same[x] \in Nat
    OBVIOUS
  <2> HIDE DEF same
  <2> QED BY <2>1, GreatestExists
<1>2. \A m \in T : n >= m
  BY <1>1
<1> QED BY <1>2 DEF Max

\* ahead[i] is what comes before i in a strict total order of I.
TotalOrder(I, ahead) ==
  /\ ahead \in [I -> SUBSET I]
  /\ \A i \in I : i \notin ahead[i]
  /\ \A i, j, k \in I : i \in ahead[j] /\ j \in ahead[k] => i \in ahead[k]
  /\ \A i, j \in I : i = j \/ i \in ahead[j] \/ j \in ahead[i]

\* In a finite strict total order every rank is taken.
LEMMA RankIsTaken ==
  ASSUME NEW I, IsFiniteSet(I), NEW ahead, TotalOrder(I, ahead)
  PROVE  \A k \in 1 .. Cardinality(I) : \E i \in I : Cardinality(ahead[i]) = k - 1
<1> USE DEF TotalOrder
<1> DEFINE n == Cardinality(I)
           rank == [i \in I |-> Cardinality(ahead[i])]
<1>1. n \in Nat
  BY FS_CardinalityType
<1>2. \A i \in I : IsFiniteSet(ahead[i]) /\ Cardinality(ahead[i]) \in Nat
  BY FS_Subset, FS_CardinalityType
<1>3. ASSUME NEW T \in SUBSET I, NEW U \in SUBSET T, U # T
      PROVE  Cardinality(U) < Cardinality(T)
  <2>1. IsFiniteSet(T) /\ IsFiniteSet(U)
    BY FS_Subset
  <2>2. Cardinality(T) \in Nat /\ Cardinality(U) \in Nat
    BY <2>1, FS_CardinalityType
  <2>3. Cardinality(U) <= Cardinality(T) /\ (Cardinality(T) = Cardinality(U) => T = U)
    BY <2>1, FS_Subset
  <2> QED BY <1>3, <2>2, <2>3
<1>4. \A i \in I : rank[i] \in 0 .. n - 1
  <2> SUFFICES ASSUME NEW i \in I PROVE rank[i] \in 0 .. n - 1
    OBVIOUS
  <2>1. ahead[i] # I
    OBVIOUS
  <2>2. Cardinality(ahead[i]) < n
    BY <1>3, <2>1
  <2> QED BY <1>1, <1>2, <2>2
<1>5. \A i, j \in I : i # j => rank[i] # rank[j]
  <2>1. ASSUME NEW i \in I, NEW j \in I, i \in ahead[j] PROVE rank[i] < rank[j]
    <3>1. ahead[i] \subseteq ahead[j] /\ ahead[i] # ahead[j]
      BY <2>1
    <3> QED BY <1>3, <3>1
  <2>2. \A i \in I : rank[i] \in Nat
    BY <1>2
  <2> HIDE DEF rank
  <2> QED BY <2>1, <2>2
<1>6. IsFiniteSet(0 .. n - 1) /\ Cardinality(0 .. n - 1) = n
  BY <1>1, FS_Interval
<1>7. rank \in Injection(I, 0 .. n - 1)
  <2>1. rank \in [I -> 0 .. n - 1]
    BY <1>4
  <2> HIDE DEF rank
  <2> QED BY <1>5, <2>1 DEF Injection, IsInjective
<1>8. rank \in Surjection(I, 0 .. n - 1)
  <2> HIDE DEF rank
  <2> QED BY <1>6, <1>7, FS_Injection
<1>9. \A m \in 0 .. n - 1 : \E i \in I : rank[i] = m
  <2> HIDE DEF rank
  <2> QED BY <1>8 DEF Surjection
<1>10. \A k \in 1 .. n : k - 1 \in 0 .. n - 1
  BY <1>1
<1> QED BY <1>9, <1>10

\* order has the element of each rank, if there is one.
Follows(order, I, ahead) ==
  /\ DOMAIN order = 1 .. Cardinality(I)
  /\ \A k \in DOMAIN order :
         (\E i \in I : Cardinality(ahead[i]) = k - 1) =>
             order[k] \in I /\ Cardinality(ahead[order[k]]) = k - 1

\* What has each rank in turn is the whole of I, in its order.
LEMMA OrderIsTotal ==
  ASSUME NEW I, IsFiniteSet(I), NEW ahead, TotalOrder(I, ahead), NEW order, Follows(order, I, ahead)
  PROVE  /\ DOMAIN order = 1 .. Cardinality(I) /\ Cardinality(I) \in Nat
         /\ \A k \in 1 .. Cardinality(I) : order[k] \in I
         /\ \A i \in I : \E k \in 1 .. Cardinality(I) : order[k] = i
         /\ \A k, m \in 1 .. Cardinality(I) : k < m => order[k] \in ahead[order[m]]
<1> DEFINE n == Cardinality(I)
<1>1. \A k \in 1 .. n : \E i \in I : Cardinality(ahead[i]) = k - 1
  BY RankIsTaken
<1>2. n \in Nat
  BY FS_CardinalityType
<1>3. DOMAIN order = 1 .. n /\ \A k \in 1 .. n : order[k] \in I /\ Cardinality(ahead[order[k]]) = k - 1
  BY <1>1 DEF Follows
<1> USE DEF TotalOrder
<1> HIDE DEF n
<1>4. \A i \in I : \E k \in 1 .. n : order[k] = i
  <2> DEFINE o == [k \in 1 .. n |-> order[k]]
  <2>1. o \in [1 .. n -> I] /\ \A k \in 1 .. n : Cardinality(ahead[o[k]]) = k - 1
    BY <1>3
  <2>2. \A k \in 1 .. n : o[k] = order[k]
    OBVIOUS
  <2> HIDE DEF o
  <2>3. o \in Injection(1 .. n, I)
    <3>1. \A k, m \in 1 .. n : o[k] = o[m] => k = m
      BY <1>2, <2>1
    <3> QED BY <2>1, <3>1 DEF Injection, IsInjective
  <2>4. Cardinality(1 .. n) = n /\ IsFiniteSet(1 .. n)
    BY <1>2, FS_Interval
  <2>5. o \in Surjection(1 .. n, I)
    BY <2>3, <2>4, FS_Injection DEF n
  <2> QED BY <2>2, <2>5 DEF Surjection
<1>5. ASSUME NEW k \in 1 .. n, NEW m \in 1 .. n, k < m PROVE order[k] \in ahead[order[m]]
  <2>1. order[k] \in I /\ order[m] \in I
    BY <1>3
  <2>2. order[k] # order[m]
    BY <1>2, <1>3, <1>5
  <2>3. ASSUME order[m] \in ahead[order[k]] PROVE FALSE
    <3>1. ahead[order[m]] \subseteq ahead[order[k]] /\ IsFiniteSet(ahead[order[k]])
      BY <2>1, <2>3, FS_Subset
    <3>2. Cardinality(ahead[order[m]]) <= Cardinality(ahead[order[k]])
      BY <3>1, FS_Subset
    <3> QED BY <1>2, <1>3, <1>5, <3>2
  <2> QED BY <2>1, <2>2, <2>3
<1> QED BY <1>2, <1>3, <1>4, <1>5 DEF n

\* A set of numbers in its order.
LEMMA NumbersSorted ==
  ASSUME NEW I, I \subseteq Nat, IsFiniteSet(I)
  PROVE  LET order == Sorted(I, LAMBDA j, i : j < i) IN
         /\ order \in [1 .. Cardinality(I) -> I] /\ Cardinality(I) \in Nat
         /\ \A i \in I : \E k \in 1 .. Cardinality(I) : order[k] = i
         /\ \A k, m \in 1 .. Cardinality(I) : k < m => order[k] < order[m]
<1> DEFINE ahead == [i \in I |-> {j \in I : j < i}]
           order == Sorted(I, LAMBDA j, i : j < i)
<1>1. \A i \in I : ahead[i] = {j \in I : j < i}
  OBVIOUS
<1>2. order = [k \in 1 .. Cardinality(I) |->
                  CHOOSE i \in I : Cardinality({j \in I : j < i}) = k - 1]
  BY DEF Sorted
<1>3. TotalOrder(I, ahead)
  BY DEF TotalOrder
<1> HIDE DEF ahead, order
<1>4. \A k \in 1 .. Cardinality(I) : \E i \in I : Cardinality({j \in I : j < i}) = k - 1
  <2>1. \A k \in 1 .. Cardinality(I) : \E i \in I : Cardinality(ahead[i]) = k - 1
    BY <1>3, RankIsTaken
  <2>2. \A i \in I : Cardinality({j \in I : j < i}) = Cardinality(ahead[i])
    BY <1>1
  <2> QED BY <2>1, <2>2
<1>5. Follows(order, I, ahead)
  <2>1. DOMAIN order = 1 .. Cardinality(I)
    BY <1>2
  <2>2. \A k \in 1 .. Cardinality(I) : order[k] \in I /\ Cardinality({j \in I : j < order[k]}) = k - 1
    BY <1>2, <1>4
  <2>3. \A i \in I : Cardinality({j \in I : j < i}) = Cardinality(ahead[i])
    BY <1>1
  <2> QED BY <2>1, <2>2, <2>3 DEF Follows
<1>6. /\ DOMAIN order = 1 .. Cardinality(I) /\ Cardinality(I) \in Nat
      /\ \A k \in 1 .. Cardinality(I) : order[k] \in I
      /\ \A i \in I : \E k \in 1 .. Cardinality(I) : order[k] = i
      /\ \A k, m \in 1 .. Cardinality(I) : k < m => order[k] \in ahead[order[m]]
  BY <1>3, <1>5, OrderIsTotal
<1>7. \A k, m \in 1 .. Cardinality(I) : k < m => order[k] < order[m]
  BY <1>1, <1>6
<1>8. order \in [1 .. Cardinality(I) -> I]
  BY <1>2, <1>6
<1> QED BY <1>6, <1>7, <1>8 DEF order

\* A subsequence is a sequence of the elements at its places, all of them.
LEMMA SubsequenceIsSeq ==
  ASSUME NEW S, NEW seq, NEW I, I \subseteq Nat, IsFiniteSet(I), \A i \in I : seq[i] \in S
  PROVE  /\ Subsequence(seq, I) \in Seq(S)
         /\ \A k \in DOMAIN Subsequence(seq, I) : \E i \in I : Subsequence(seq, I)[k] = seq[i]
         /\ \A i \in I : \E k \in DOMAIN Subsequence(seq, I) : Subsequence(seq, I)[k] = seq[i]
<1> DEFINE order == Sorted(I, LAMBDA j, i : j < i)
           n == Cardinality(I)
<1>1. /\ n \in Nat /\ order \in [1 .. n -> I]
      /\ \A i \in I : \E k \in 1 .. n : order[k] = i
  BY NumbersSorted
<1>2. Subsequence(seq, I) = Taken(seq, order)
  BY DEF Subsequence
<1> HIDE DEF order, n
<1>3. DOMAIN order = 1 .. n /\ \A k \in 1 .. n : order[k] \in I /\ seq[order[k]] \in S
  BY <1>1
<1> DEFINE sub == Taken(seq, order)
<1>4. /\ sub \in Seq(S) /\ DOMAIN sub = 1 .. n
      /\ \A k \in 1 .. n : sub[k] = seq[order[k]]
  BY <1>1, <1>3 DEF Taken
<1> HIDE DEF sub
<1>5. \A k \in DOMAIN sub : \E i \in I : sub[k] = seq[i]
  BY <1>3, <1>4
<1>6. ASSUME NEW i \in I PROVE \E k \in DOMAIN sub : sub[k] = seq[i]
  <2>1. PICK k \in 1 .. n : order[k] = i
    BY <1>1
  <2> QED BY <1>4, <2>1
<1> QED BY <1>2, <1>4, <1>5, <1>6 DEF sub

LEMMA PartOfSeq ==
  ASSUME NEW S, NEW seq \in Seq(S), NEW I \in SUBSET (DOMAIN seq)
  PROVE  /\ Subsequence(seq, I) \in Seq(S)
         /\ \A k \in DOMAIN Subsequence(seq, I) : \E i \in I : Subsequence(seq, I)[k] = seq[i]
<1>1. DOMAIN seq = 1 .. Len(seq) /\ Len(seq) \in Nat /\ \A i \in I : seq[i] \in S
  OBVIOUS
<1>2. I \subseteq Nat /\ IsFiniteSet(I)
  <2>1. \A n \in Nat : IsFiniteSet(1 .. n)
    BY FS_Interval
  <2>2. IsFiniteSet(DOMAIN seq)
    BY <1>1, <2>1
  <2> QED BY <1>1, <2>2, FS_Subset
<1>3. \A i \in I : seq[i] \in S
  BY <1>1
<1> QED BY <1>2, <1>3, SubsequenceIsSeq

-------------------------------------------------------------------------------
(* Spans and blocks (Evidence) *)

PassageOf(D) == {p \in RankedPassage : p.doc \in D}
Span(D) ==
  {s \in [doc : D, members : Seq(PassageOf(D)), first : Nat, last : Nat, from : Nat, to : Nat,
          score : Nat, tokens : Nat] :
      /\ s.members # <<>>
      /\ s.first \in DOMAIN Passages[s.doc] /\ s.last \in DOMAIN Passages[s.doc]
      /\ s.from <= s.to}

\* What CondensedShowsWhy says of one block.
ShowsWhy(b) ==
  b.condensed =>
    LET s == b.span  matched == ToSet(Focus(s)) IN
    /\ {s.from} \cup Anchor(s) \subseteq b.lines
    /\ matched # {} => matched \cap b.lines # {}
    /\ LinesOf(s) = b.lines \cup UNION {g[1] .. g[2] : g \in b.markers}
Block(D) ==
  {b \in [span : Span(D), lines : SUBSET Nat, markers : SUBSET (Nat \X Nat),
          condensed : BOOLEAN, expanded : BOOLEAN, tokens : Nat] :
      b.lines \subseteq LinesOf(b.span) /\ ShowsWhy(b)}

LEMMA SpanFields ==
  ASSUME NEW D, NEW s \in Span(D)
  PROVE  /\ s.doc \in D /\ s.members \in Seq(PassageOf(D)) /\ s.members # <<>>
         /\ s.first \in Nat /\ s.last \in Nat /\ s.from \in Nat /\ s.to \in Nat
         /\ s.score \in Nat /\ s.tokens \in Nat
         /\ s.first \in DOMAIN Passages[s.doc] /\ s.last \in DOMAIN Passages[s.doc]
         /\ s.from <= s.to
         /\ Best(s) \in PassageOf(D)
<1>1. /\ s.doc \in D /\ s.members \in Seq(PassageOf(D)) /\ s.members # <<>>
      /\ s.first \in Nat /\ s.last \in Nat /\ s.from \in Nat /\ s.to \in Nat
      /\ s.score \in Nat /\ s.tokens \in Nat
      /\ s.first \in DOMAIN Passages[s.doc] /\ s.last \in DOMAIN Passages[s.doc]
      /\ s.from <= s.to
  BY DEF Span
<1>2. Best(s) \in PassageOf(D)
  BY <1>1 DEF Best
<1> QED BY <1>1, <1>2

LEMMA BlockFields ==
  ASSUME NEW D, NEW b \in Block(D)
  PROVE  b.span \in Span(D) /\ b.tokens \in Nat /\ b.lines \subseteq LinesOf(b.span) /\ ShowsWhy(b)
BY DEF Block

LEMMA PassageFields ==
  ASSUME NEW D, D \subseteq Doc, NEW p \in PassageOf(D)
  PROVE  /\ p.doc \in D /\ p.idx \in Nat /\ p.score \in Nat /\ p.idx \in DOMAIN Passages[p.doc]
         /\ At(p).first \in Nat /\ At(p).last \in Nat /\ At(p).first <= At(p).last
         /\ Size(p) \in Nat /\ At(p).focus \in Seq(Nat)
<1>1. p.doc \in D /\ p.idx \in Nat /\ p.score \in Nat /\ p.idx \in DOMAIN Passages[p.doc]
  BY DEF PassageOf, RankedPassage
<1>2. At(p).first \in Nat /\ At(p).last \in Nat /\ At(p).first <= At(p).last /\ At(p).focus \in Seq(Nat)
  BY <1>1, EvidenceAssumption DEF At
<1> QED BY <1>1, <1>2 DEF Size

LEMMA SingleIsSpan ==
  ASSUME NEW D, D \subseteq Doc, NEW p \in PassageOf(D)
  PROVE  Single(p) \in Span(D)
<1>1. /\ p.doc \in D /\ p.idx \in Nat /\ p.score \in Nat /\ p.idx \in DOMAIN Passages[p.doc]
      /\ At(p).first \in Nat /\ At(p).last \in Nat /\ At(p).first <= At(p).last
      /\ Size(p) \in Nat
  BY PassageFields
<1>2. <<p>> \in Seq(PassageOf(D)) /\ <<p>> # <<>>
  OBVIOUS
<1> QED BY <1>1, <1>2 DEF Single, Span

LEMMA LeastMost ==
  ASSUME NEW a \in Nat, NEW b \in Nat
  PROVE  /\ Least(a, b) \in {a, b} /\ Least(a, b) <= a /\ Least(a, b) <= b
         /\ Most(a, b) \in {a, b} /\ a <= Most(a, b) /\ b <= Most(a, b)
BY DEF Least, Most

LEMMA Percent ==
  ASSUME NEW a \in Nat, NEW k \in Nat
  PROVE  (k * a) \div 100 \in Nat
<1>1. k * a \in Nat
  OBVIOUS
<1> QED BY <1>1

LEMMA MemberKeepsSpan ==
  ASSUME NEW D, D \subseteq Doc, NEW s \in Span(D), NEW p \in PassageOf(D), Near(s, p)
  PROVE  WithMember(s, p) \in Span(D)
<1>1. p.doc = s.doc
  BY DEF Near
<1>2. /\ p.doc \in D /\ p.idx \in Nat /\ p.score \in Nat /\ p.idx \in DOMAIN Passages[p.doc]
      /\ At(p).first \in Nat /\ At(p).last \in Nat /\ At(p).first <= At(p).last
      /\ Size(p) \in Nat
  BY PassageFields
<1>3. /\ s.members \in Seq(PassageOf(D)) /\ s.first \in Nat /\ s.last \in Nat
      /\ s.from \in Nat /\ s.to \in Nat /\ s.score \in Nat /\ s.tokens \in Nat
      /\ s.first \in DOMAIN Passages[s.doc] /\ s.last \in DOMAIN Passages[s.doc]
      /\ s.from <= s.to /\ Best(s) \in PassageOf(D)
  BY SpanFields
<1>4. Best(s).score \in Nat
  BY <1>3, PassageFields
<1> DEFINE members == Append(s.members, p)
           sum == Least(s.score + (15 * p.score) \div 100, (120 * Best(s).score) \div 100)
<1>5. members \in Seq(PassageOf(D)) /\ members # <<>>
  BY <1>3
<1>6. sum \in Nat
  <2>1. (15 * p.score) \div 100 \in Nat /\ (120 * Best(s).score) \div 100 \in Nat
    BY <1>2, <1>4, Percent
  <2>2. s.score + (15 * p.score) \div 100 \in Nat
    BY <1>3, <2>1
  <2> QED BY <2>1, <2>2, LeastMost
<1> HIDE DEF members, sum
<1>7. WithMember(s, p) =
        [doc |-> s.doc, members |-> members, first |-> Least(s.first, p.idx),
         last |-> Most(s.last, p.idx), from |-> Least(s.from, At(p).first),
         to |-> Most(s.to, At(p).last), score |-> sum, tokens |-> s.tokens + Size(p)]
  BY DEF WithMember, Joined, members, sum
<1>8. /\ Least(s.first, p.idx) \in {s.first, p.idx} /\ Most(s.last, p.idx) \in {s.last, p.idx}
      /\ Least(s.from, At(p).first) \in {s.from, At(p).first} /\ Least(s.from, At(p).first) <= s.from
      /\ Most(s.to, At(p).last) \in {s.to, At(p).last} /\ s.to <= Most(s.to, At(p).last)
  BY <1>2, <1>3, LeastMost
<1>9. /\ Least(s.first, p.idx) \in Nat /\ Most(s.last, p.idx) \in Nat
      /\ Least(s.first, p.idx) \in DOMAIN Passages[s.doc]
      /\ Most(s.last, p.idx) \in DOMAIN Passages[s.doc]
  BY <1>1, <1>2, <1>3, <1>8
<1>10. /\ Least(s.from, At(p).first) \in Nat /\ Most(s.to, At(p).last) \in Nat
       /\ Least(s.from, At(p).first) <= Most(s.to, At(p).last)
       /\ s.tokens + Size(p) \in Nat
  <2>1. Least(s.from, At(p).first) \in Nat /\ Most(s.to, At(p).last) \in Nat
    BY <1>2, <1>3, <1>8
  <2>2. \A a, b, c, d \in Nat : a <= b /\ b <= c /\ c <= d => a <= d
    OBVIOUS
  <2>3. s.tokens + Size(p) \in Nat
    BY <1>2, <1>3
  <2> HIDE DEF members, sum
  <2> QED BY <1>3, <1>8, <2>1, <2>2, <2>3
<1> QED BY <1>1, <1>2, <1>5, <1>6, <1>7, <1>9, <1>10, SMTT(30) DEF Span

LEMMA LinesAreFinite ==
  ASSUME NEW D, NEW s \in Span(D)
  PROVE  IsFiniteSet(LinesOf(s)) /\ LinesOf(s) \subseteq Nat /\ s.from \in LinesOf(s)
<1>1. s.from \in Nat /\ s.to \in Nat /\ s.from <= s.to
  BY SpanFields
<1>2. IsFiniteSet(s.from .. s.to)
  BY <1>1, FS_Interval
<1> QED BY <1>1, <1>2 DEF LinesOf

LEMMA WholeIsBlock ==
  ASSUME NEW D, NEW s \in Span(D), Wrap \in Nat
  PROVE  Whole(s) \in Block(D) /\ [Whole(s) EXCEPT !.expanded = TRUE] \in Block(D)
<1>1. s.from \in Nat /\ s.to \in Nat /\ s.from <= s.to
  BY SpanFields
<1>2. LinesOf(s) \subseteq Nat
  BY LinesAreFinite
<1>3. Wrap + s.to - s.from + 1 \in Nat
  BY <1>1
<1> QED BY <1>2, <1>3 DEF Whole, Block, ShowsWhy

-------------------------------------------------------------------------------
(* What a condensed block shows *)

\* Every omitted line of a span lies in one of its gaps.
LEMMA GapsCover ==
  ASSUME NEW D, NEW s \in Span(D), NEW keep, keep \subseteq LinesOf(s),
         NEW l \in LinesOf(s), l \notin keep
  PROVE  \E g \in Gaps(keep, s) : l \in g[1] .. g[2]
<1>1. s.from \in Nat /\ s.to \in Nat /\ l \in Nat /\ s.from <= l /\ l <= s.to
  <2>1. s.from \in Nat /\ s.to \in Nat
    BY SpanFields
  <2> QED BY <2>1 DEF LinesOf
<1> DEFINE Before == {a \in s.from .. l : (a .. l) \cap keep = {}}
           After == {b \in l .. s.to : (l .. b) \cap keep = {}}
<1>2. l \in Before /\ l \in After
  BY <1>1
<1>3. PICK a \in Before : \A m \in Before : a <= m
  <2>1. Before \subseteq Nat /\ Before # {}
    BY <1>1, <1>2
  <2> HIDE DEF Before
  <2> QED BY <2>1, LeastExists
<1>4. PICK b \in After : \A m \in After : m <= b
  <2>1. After \subseteq Nat /\ After # {}
    BY <1>1, <1>2
  <2>2. IsFiniteSet(l .. s.to)
    BY <1>1, FS_Interval
  <2>3. IsFiniteSet(After)
    BY <2>2, FS_Subset
  <2> HIDE DEF After
  <2> QED BY <2>1, <2>3, GreatestIsMember
<1>5. /\ a \in Nat /\ s.from <= a /\ a <= l /\ (a .. l) \cap keep = {}
      /\ b \in Nat /\ l <= b /\ b <= s.to /\ (l .. b) \cap keep = {}
  BY <1>1, <1>3, <1>4
<1>6. a <= b /\ a \in LinesOf(s) /\ b \in LinesOf(s) /\ l \in a .. b
  BY <1>1, <1>5 DEF LinesOf
<1>7. (a .. b) \cap keep = {}
  <2>1. \A x \in a .. b : x \in a .. l \/ x \in l .. b
    BY <1>1, <1>5
  <2> QED BY <1>5, <2>1
<1>8. a = s.from \/ a - 1 \in keep
  <2> SUFFICES ASSUME a # s.from, a - 1 \notin keep PROVE FALSE
    OBVIOUS
  <2>1. a - 1 \in s.from .. l /\ ~(a <= a - 1)
    BY <1>1, <1>5
  <2>2. \A x \in (a - 1) .. l : x = a - 1 \/ x \in a .. l
    BY <1>1, <1>5
  <2>3. ((a - 1) .. l) \cap keep = {}
    BY <1>5, <2>2
  <2> QED BY <1>3, <2>1, <2>3
<1>9. b = s.to \/ b + 1 \in keep
  <2> SUFFICES ASSUME b # s.to, b + 1 \notin keep PROVE FALSE
    OBVIOUS
  <2>1. b + 1 \in l .. s.to /\ ~(b + 1 <= b)
    BY <1>1, <1>5
  <2>2. \A x \in l .. (b + 1) : x = b + 1 \/ x \in l .. b
    BY <1>1, <1>5
  <2>3. (l .. (b + 1)) \cap keep = {}
    BY <1>5, <2>2
  <2> QED BY <1>4, <2>1, <2>3
<1>10. <<a, b>> \in Gaps(keep, s)
  BY <1>6, <1>7, <1>8, <1>9 DEF Gaps
<1> QED BY <1>6, <1>10

\* What a condensed span shows and marks, it has between them.
LEMMA ElidedIsBlock ==
  ASSUME NEW D, NEW s \in Span(D), Wrap \in Nat, NEW keep, keep \subseteq LinesOf(s),
         {s.from} \cup Anchor(s) \subseteq keep,
         ToSet(Focus(s)) # {} => ToSet(Focus(s)) \cap keep # {}
  PROVE  Elided(s, keep) \in Block(D)
<1>1. IsFiniteSet(LinesOf(s)) /\ LinesOf(s) \subseteq Nat
  BY LinesAreFinite
<1>2. Gaps(keep, s) \subseteq LinesOf(s) \X LinesOf(s)
  BY DEF Gaps
<1>3. \A g \in Gaps(keep, s) :
          g[1] \in Nat /\ g[2] \in Nat /\ g[1] .. g[2] \subseteq LinesOf(s) /\ g[1] \in LinesOf(s)
  <2> SUFFICES ASSUME NEW g \in Gaps(keep, s)
               PROVE  g[1] \in Nat /\ g[2] \in Nat /\ g[1] .. g[2] \subseteq LinesOf(s) /\ g[1] \in LinesOf(s)
    OBVIOUS
  <2>1. g[1] \in LinesOf(s) /\ g[2] \in LinesOf(s)
    BY <1>2
  <2>2. s.from \in Nat /\ s.to \in Nat
    BY SpanFields
  <2> QED BY <2>1, <2>2 DEF LinesOf
<1>4. Shown(keep, s) \subseteq LinesOf(s) /\ keep \subseteq Shown(keep, s)
  BY <1>3 DEF Shown, Kept
<1>5. Markers(keep, s) \subseteq Gaps(keep, s)
  BY DEF Markers
<1>6. LinesOf(s) = Shown(keep, s) \cup UNION {g[1] .. g[2] : g \in Markers(keep, s)}
  <2>1. ASSUME NEW l \in LinesOf(s), l \notin Shown(keep, s)
        PROVE  \E g \in Markers(keep, s) : l \in g[1] .. g[2]
    <3>1. PICK g \in Gaps(keep, s) : l \in g[1] .. g[2]
      BY <1>4, <2>1, GapsCover
    <3>2. g \notin Kept(keep, s)
      <4> SUFFICES ASSUME g \in Kept(keep, s) PROVE FALSE
        OBVIOUS
      <4>1. g[1] = g[2] /\ g[1] \in Shown(keep, s)
        BY DEF Kept, Shown
      <4>2. l = g[1]
        BY <1>3, <3>1, <4>1
      <4> QED BY <2>1, <4>1, <4>2
    <3> QED BY <3>1, <3>2 DEF Markers
  <2>2. \A g \in Markers(keep, s) : g[1] .. g[2] \subseteq LinesOf(s)
    BY <1>3, <1>5
  <2> QED BY <1>4, <2>1, <2>2
<1>7. Wrap + BodySize(keep, s) \in Nat
  <2>1. IsFiniteSet(LinesOf(s) \X LinesOf(s))
    BY <1>1, FS_Product
  <2>2. IsFiniteSet(Markers(keep, s)) /\ IsFiniteSet(Shown(keep, s))
    BY <1>1, <1>2, <1>4, <1>5, <2>1, FS_Subset
  <2>3. Cardinality(Markers(keep, s)) \in Nat /\ Cardinality(Shown(keep, s)) \in Nat
    BY <2>2, FS_CardinalityType
  <2> QED BY <2>3 DEF BodySize
<1>8. Shown(keep, s) \subseteq Nat /\ Markers(keep, s) \subseteq Nat \X Nat
  BY <1>1, <1>2, <1>4, <1>5
<1> DEFINE b == Elided(s, keep)
<1>9. /\ b.span = s /\ b.lines = Shown(keep, s) /\ b.markers = Markers(keep, s)
      /\ b.condensed = TRUE /\ b.expanded = FALSE /\ b.tokens = Wrap + BodySize(keep, s)
  BY DEF Elided
<1>10. ShowsWhy(b)
  <2>1. {s.from} \cup Anchor(s) \subseteq Shown(keep, s)
    BY <1>4
  <2>2. ToSet(Focus(s)) # {} => ToSet(Focus(s)) \cap Shown(keep, s) # {}
    BY <1>4
  <2> HIDE DEF b
  <2> QED BY <1>6, <1>9, <2>1, <2>2 DEF ShowsWhy
<1>11. b \in [span : Span(D), lines : SUBSET Nat, markers : SUBSET (Nat \X Nat),
              condensed : BOOLEAN, expanded : BOOLEAN, tokens : Nat]
  BY <1>7, <1>8 DEF Elided
<1> HIDE DEF b
<1>12. b \in Block(D)
  BY <1>4, <1>9, <1>10, <1>11 DEF Block
<1> QED BY <1>12 DEF b

-------------------------------------------------------------------------------
(* Recursion on numbers *)

\* f starts so and goes on from each number to the next by step.
Recursive(f, X, start, step, n) ==
  f \in [0 .. n -> X] /\ f[0] = start /\ \A k \in 1 .. n : f[k] = step[<<k, f[k - 1]>>]

\* A value at 0 and a step from each number to the next define a function.
LEMMA Recursion ==
  ASSUME NEW X, NEW start \in X, NEW step \in [Nat \X X -> X], NEW n \in Nat
  PROVE  \E f : Recursive(f, X, start, step, n)
<1> DEFINE Good(f, m) ==
             f \in [0 .. m -> X] /\ f[0] = start
             /\ \A k \in 1 .. m : f[k] = step[<<k, f[k - 1]>>]
           T == {m \in Nat : \E f \in [0 .. m -> X] : Good(f, m)}
<1>1. 0 \in T
  <2>1. Good([k \in 0 .. 0 |-> start], 0)
    OBVIOUS
  <2> QED BY <2>1
<1>2. ASSUME NEW m \in Nat, m \in T PROVE m + 1 \in T
  <2>1. PICK f \in [0 .. m -> X] : Good(f, m)
    BY <1>2
  <2> DEFINE g == [k \in 0 .. m + 1 |-> IF k = m + 1 THEN step[<<m + 1, f[m]>>] ELSE f[k]]
  <2>2. f[m] \in X /\ m + 1 \in Nat
    BY <2>1
  <2>3. g \in [0 .. m + 1 -> X] /\ g[0] = start
    BY <2>1, <2>2
  <2>4. ASSUME NEW k \in 1 .. m + 1 PROVE g[k] = step[<<k, g[k - 1]>>]
    <3>1. CASE k = m + 1
      <4>1. g[k] = step[<<m + 1, f[m]>>] /\ k - 1 = m /\ m \in 0 .. m + 1 /\ m # m + 1
        BY <3>1
      <4>2. g[m] = f[m]
        BY <4>1
      <4> HIDE DEF g
      <4> QED BY <3>1, <4>1, <4>2
    <3>2. CASE k # m + 1
      <4>1. k \in 1 .. m /\ k - 1 \in 0 .. m /\ k - 1 # m + 1
        BY <3>2
      <4>2. g[k] = f[k] /\ g[k - 1] = f[k - 1]
        BY <4>1, <3>2
      <4>3. f[k] = step[<<k, f[k - 1]>>]
        BY <2>1, <4>1
      <4> HIDE DEF g
      <4> QED BY <4>2, <4>3
    <3> QED BY <3>1, <3>2
  <2> HIDE DEF g
  <2>5. Good(g, m + 1)
    BY <2>3, <2>4
  <2> QED BY <2>2, <2>3, <2>5
<1>3. n \in T
  <2> HIDE DEF T
  <2> QED BY <1>1, <1>2, NatSet
<1> QED BY <1>3 DEF Recursive

\* Sequences in a row are a sequence.
LEMMA FlattenIsSeq ==
  ASSUME NEW seqs \in Seq(Seq(Nat))
  PROVE  FlattenSeq(seqs) \in Seq(Nat)
<1> DEFINE n == Len(seqs)
<1>1. CASE n = 0
  BY <1>1 DEF FlattenSeq
<1>2. CASE n # 0
  <2>1. n \in Nat /\ n >= 1 /\ \A i \in 1 .. n : seqs[i] \in Seq(Nat)
    BY <1>2
  <2> HIDE DEF n
  <2> DEFINE step == [p \in Nat \X Seq(Nat) |-> IF p[1] \in 1 .. n THEN p[2] \o seqs[p[1]] ELSE p[2]]
             Is(f) == f = [i \in 1 .. n |-> IF i = 1 THEN seqs[i] ELSE f[i - 1] \o seqs[i]]
  <2>2. \E f \in [1 .. n -> Seq(Nat)] : Is(f)
    <3>1. step \in [Nat \X Seq(Nat) -> Seq(Nat)]
      BY <2>1
    <3>2. <<>> \in Seq(Nat)
      OBVIOUS
    <3>3. PICK f : Recursive(f, Seq(Nat), <<>>, step, n)
      <4> HIDE DEF step, Is
      <4>1. n \in Nat
        BY <2>1
      <4> QED BY <4>1, <3>1, <3>2, Recursion
    <3>4. \A k \in 1 .. n : f[k] = f[k - 1] \o seqs[k]
      <4> SUFFICES ASSUME NEW k \in 1 .. n PROVE f[k] = f[k - 1] \o seqs[k]
        OBVIOUS
      <4>1. f[k - 1] \in Seq(Nat) /\ k \in Nat
        BY <2>1, <3>3 DEF Recursive
      <4>2. step[<<k, f[k - 1]>>] = f[k - 1] \o seqs[k]
        BY <4>1
      <4> QED BY <3>3, <4>2 DEF Recursive
    <3> DEFINE g == [i \in 1 .. n |-> f[i]]
    <3>5. g \in [1 .. n -> Seq(Nat)]
      BY <3>3 DEF Recursive
    <3>6. ASSUME NEW i \in 1 .. n PROVE g[i] = IF i = 1 THEN seqs[i] ELSE g[i - 1] \o seqs[i]
      <4>1. CASE i = 1
        <5>1. f[1] = <<>> \o seqs[1]
          <6>1. 1 \in 1 .. n /\ 1 - 1 = 0
            BY <2>1
          <6>2. f[1] = f[1 - 1] \o seqs[1]
            BY <3>4, <6>1
          <6>3. f[1 - 1] = <<>>
            BY <3>3 DEF Recursive
          <6> QED BY <6>2, <6>3
        <5>2. <<>> \o seqs[1] = seqs[1]
          BY <2>1
        <5> QED BY <4>1, <5>1, <5>2
      <4>2. CASE i # 1
        <5>1. i - 1 \in 1 .. n /\ g[i - 1] = f[i - 1]
          BY <2>1, <4>2
        <5> QED BY <3>4, <4>2, <5>1
      <4> QED BY <4>1, <4>2
    <3> HIDE DEF g
    <3>7. Is(g)
      BY <3>5, <3>6
    <3> QED BY <3>5, <3>7
  <2> DEFINE h == CHOOSE f : Is(f)
  <2>3. Is(h)
    <3> HIDE DEF Is
    <3> QED BY <2>2
  <2>4. FlattenSeq(seqs) = h[n]
    BY <1>2 DEF FlattenSeq, n
  <2> HIDE DEF h
  <2> DEFINE T == {i \in Nat : i = 0 \/ i > n \/ h[i] \in Seq(Nat)}
  <2>5. 0 \in T
    OBVIOUS
  <2>6. ASSUME NEW i \in Nat, i \in T PROVE i + 1 \in T
    <3>1. CASE i + 1 > n
      BY <3>1
    <3>2. CASE ~(i + 1 > n) /\ i = 0
      <4>1. h[1] = seqs[1]
        BY <2>1, <2>3
      <4> QED BY <2>1, <3>2, <4>1
    <3>3. CASE ~(i + 1 > n) /\ i # 0
      <4>1. i + 1 \in 1 .. n /\ i + 1 # 1 /\ (i + 1) - 1 = i
        BY <2>1, <3>3
      <4>2. h[i + 1] = h[i] \o seqs[i + 1]
        BY <2>3, <4>1
      <4>3. h[i] \in Seq(Nat) /\ seqs[i + 1] \in Seq(Nat)
        BY <2>1, <2>6, <3>3, <4>1
      <4>4. h[i] \o seqs[i + 1] \in Seq(Nat)
        BY <4>3
      <4>5. h[i + 1] \in Seq(Nat) /\ i + 1 \in Nat
        BY <4>2, <4>4
      <4> QED BY <4>5
    <3> QED BY <3>1, <3>2, <3>3
  <2>7. n \in T
    <3> HIDE DEF T
    <3> QED BY <2>1, <2>5, <2>6, NatSet
  <2> QED BY <2>1, <2>4, <2>7
<1> QED BY <1>1, <1>2

\* The matched lines of a span are lines of it.
LEMMA FocusInLines ==
  ASSUME NEW D, D \subseteq Doc, NEW s \in Span(D)
  PROVE  Focus(s) \in Seq(LinesOf(s))
<1> DEFINE focuses == [m \in DOMAIN s.members |-> At(s.members[m]).focus]
           lines == FlattenSeq(focuses)
           within == {k \in DOMAIN lines : lines[k] \in LinesOf(s)}
<1>1. s.members \in Seq(PassageOf(D))
  BY SpanFields
<1>2. focuses \in Seq(Seq(Nat))
  <2>1. \A m \in DOMAIN s.members : At(s.members[m]).focus \in Seq(Nat)
    BY <1>1, PassageFields
  <2> QED BY <1>1, <2>1
<1> HIDE DEF focuses
<1>3. lines \in Seq(Nat)
  BY <1>2, FlattenIsSeq
<1> HIDE DEF lines
<1>4. within \subseteq Nat /\ IsFiniteSet(within)
  <2>1. DOMAIN lines = 1 .. Len(lines) /\ Len(lines) \in Nat
    BY <1>3
  <2>2. IsFiniteSet(1 .. Len(lines))
    BY <2>1, FS_Interval
  <2> QED BY <2>1, <2>2, FS_Subset
<1>5. \A k \in within : lines[k] \in LinesOf(s)
  OBVIOUS
<1>6. Focus(s) = Subsequence(lines, within)
  BY DEF Focus, lines, focuses
<1> HIDE DEF within
<1> QED BY <1>4, <1>5, <1>6, SubsequenceIsSeq

\* The last number of a run is in it.
LEMMA LastIsIn ==
  ASSUME NEW n \in Nat, NEW good \in SUBSET (1 .. n), good # {}
  PROVE  Max(good) \in good
<1>1. IsFiniteSet(1 .. n)
  BY FS_Interval
<1>2. IsFiniteSet(good)
  BY <1>1, FS_Subset
<1>3. good \subseteq Nat
  OBVIOUS
<1> QED BY <1>2, <1>3, GreatestIsMember

\* However little room there is, what is kept opens the span, has the anchor of
\* its best passage, and a matched line if there is one.
LEMMA CondenseKeeps ==
  ASSUME NEW D, D \subseteq Doc, NEW s \in Span(D), NEW room, NEW keep \in Condense(s, room)
  PROVE  /\ keep \subseteq LinesOf(s)
         /\ {s.from} \cup Anchor(s) \subseteq keep
         /\ ToSet(Focus(s)) # {} => ToSet(Focus(s)) \cap keep # {}
<1> DEFINE base == {s.from} \cup Anchor(s)
           focus == Focus(s)
           fits(x) == Wrap + BodySize(x, s) <= room
           tries == <<ContextLines, ContextLines \div 2, 1, 0>>
           window(k) == base \cup (LinesOf(s) \cap
                         UNION {Minus(f, tries[k]) .. f + tries[k] : f \in ToSet(focus)})
           fitting == {k \in DOMAIN tries : fits(window(k))}
           opening == [i \in 1 .. s.to - s.from + 1 |-> base \cup (s.from .. s.from + i - 1)]
           marked == [i \in DOMAIN focus |-> base \cup {focus[j] : j \in 1 .. i}]
<1>1. focus \in Seq(LinesOf(s))
  BY FocusInLines
<1>2. base \subseteq LinesOf(s)
  BY LinesAreFinite DEF Anchor
<1>3. s.from \in Nat /\ s.to \in Nat /\ s.from <= s.to
  BY SpanFields
<1>4. CASE focus = <<>>
  <2> DEFINE good == {k \in DOMAIN opening : \A j \in 1 .. k : fits(opening[j])}
  <2>1. keep \in (IF good = {} THEN {} ELSE {opening[Max(good)]})
    BY <1>4 DEF Condense, LastFitting
  <2>2. good \in SUBSET (1 .. s.to - s.from + 1) /\ s.to - s.from + 1 \in Nat
    BY <1>3
  <2> HIDE DEF good
  <2>3. Max(good) \in 1 .. s.to - s.from + 1
    BY <2>1, <2>2, LastIsIn
  <2>4. keep = base \cup (s.from .. s.from + Max(good) - 1)
    BY <2>1, <2>3
  <2>5. s.from .. s.from + Max(good) - 1 \subseteq LinesOf(s)
    BY <1>3, <2>3 DEF LinesOf
  <2>6. ToSet(focus) = {}
    BY <1>4 DEF ToSet
  <2> QED BY <1>2, <2>4, <2>5, <2>6
<1>5. CASE focus # <<>> /\ fitting # {}
  <2>1. keep = window(Min(fitting))
    BY <1>5 DEF Condense
  <2>2. \A k : base \subseteq window(k) /\ window(k) \subseteq LinesOf(s)
    BY <1>2
  <2>3. Min(fitting) \in 1 .. 4
    <3>1. fitting \subseteq 1 .. 4
      OBVIOUS
    <3> HIDE DEF fitting
    <3>2. fitting \subseteq Nat /\ fitting # {}
      BY <1>5, <3>1
    <3>3. Min(fitting) \in fitting
      BY <3>2, LeastIsMember
    <3> QED BY <3>1, <3>3
  <2>4. focus[1] \in ToSet(focus) /\ focus[1] \in LinesOf(s) /\ focus[1] \in Nat
    BY <1>1, <1>5, LinesAreFinite DEF ToSet
  <2>5. \A k \in 1 .. 4 : tries[k] \in Nat
    BY EvidenceAssumption
  <2>6. \A k \in 1 .. 4 : focus[1] \in Minus(focus[1], tries[k]) .. focus[1] + tries[k]
    <3> HIDE DEF tries, focus
    <3> QED BY <2>4, <2>5 DEF Minus
  <2>7. \A k \in 1 .. 4 : focus[1] \in window(k)
    <3> HIDE DEF tries, focus
    <3> QED BY <2>4, <2>6
  <2> HIDE DEF window, fitting, tries, focus
  <2> QED BY <2>1, <2>2, <2>3, <2>4, <2>7 DEF base, focus
<1>6. CASE focus # <<>> /\ fitting = {}
  <2> DEFINE good == {k \in DOMAIN marked : \A j \in 1 .. k : fits(marked[j])}
  <2>1. keep \in (IF good = {} THEN {} ELSE {marked[Max(good)]})
    BY <1>6 DEF Condense, LastFitting
  <2>2. DOMAIN focus = 1 .. Len(focus) /\ Len(focus) \in Nat /\ good \in SUBSET (1 .. Len(focus))
    BY <1>1
  <2> HIDE DEF good, fitting, window
  <2>3. good # {} /\ Max(good) \in 1 .. Len(focus)
    BY <2>1, <2>2, LastIsIn
  <2>4. keep = base \cup {focus[j] : j \in 1 .. Max(good)}
    BY <2>1, <2>2, <2>3
  <2>5. \A j \in 1 .. Max(good) : focus[j] \in LinesOf(s) /\ focus[j] \in ToSet(focus)
    BY <1>1, <2>2, <2>3 DEF ToSet
  <2>6. 1 \in 1 .. Max(good)
    BY <2>2, <2>3
  <2> HIDE DEF focus, base
  <2> QED BY <1>2, <2>4, <2>5, <2>6 DEF focus, base
<1> QED BY <1>4, <1>5, <1>6

-------------------------------------------------------------------------------
(* Orders of spans and blocks *)

\* What is taken from a sequence at each of its places is a sequence like it.
LEMMA ReorderedIsSeq ==
  ASSUME NEW S, NEW seq \in Seq(S), NEW ahead, TotalOrder(DOMAIN seq, ahead),
         NEW order, Follows(order, DOMAIN seq, ahead)
  PROVE  /\ Taken(seq, order) \in Seq(S) /\ Len(Taken(seq, order)) = Len(seq)
         /\ \A i \in DOMAIN seq : \E k \in DOMAIN seq : Taken(seq, order)[k] = seq[i]
<1> DEFINE I == DOMAIN seq
           n == Len(seq)
<1>1. I = 1 .. n /\ n \in Nat /\ \A i \in I : seq[i] \in S
  OBVIOUS
<1>2. IsFiniteSet(I) /\ Cardinality(I) = n
  <2>1. IsFiniteSet(1 .. n) /\ Cardinality(1 .. n) = n
    BY <1>1, FS_Interval
  <2> HIDE DEF I, n
  <2> QED BY <1>1, <2>1
<1>3. TotalOrder(I, ahead) /\ Follows(order, I, ahead)
  OBVIOUS
<1> HIDE DEF I, n
<1>4. /\ DOMAIN order = 1 .. n
      /\ \A k \in 1 .. n : order[k] \in I
      /\ \A i \in I : \E k \in 1 .. n : order[k] = i
  BY <1>2, <1>3, OrderIsTotal
<1>6. Taken(seq, order) = [k \in 1 .. n |-> seq[order[k]]]
  BY <1>4 DEF Taken
<1>7. Taken(seq, order) \in Seq(S) /\ Len(Taken(seq, order)) = n
  <2>1. \A k \in 1 .. n : seq[order[k]] \in S
    BY <1>1, <1>4
  <2>2. [k \in 1 .. n |-> seq[order[k]]] \in [1 .. n -> S]
    BY <2>1
  <2>3. n \in Nat
    BY <1>1
  <2> DEFINE taken == [k \in 1 .. n |-> seq[order[k]]]
  <2> HIDE DEF taken
  <2>4. taken \in Seq(S) /\ Len(taken) = n
    BY <2>2, <2>3 DEF taken
  <2> QED BY <1>6, <2>4 DEF taken
<1>9. \A i \in I : \E k \in 1 .. n : Taken(seq, order)[k] = seq[i]
  BY <1>4, <1>6
<1> QED BY <1>1, <1>7, <1>9 DEF I, n

\* Ordered by their scores, the spans are what they were.
LEMMA ScoredIsSeq ==
  ASSUME NEW S, NEW seq \in Seq(S), \A x \in S : x.score \in Nat
  PROVE  ByKey(seq, LAMBDA s, t : s.score > t.score) \in Seq(S)
<1> DEFINE I == DOMAIN seq
           ahead == [i \in I |-> {j \in I : seq[j].score > seq[i].score
                                            \/ (~(seq[i].score > seq[j].score) /\ j < i)}]
           order == [k \in 1 .. Cardinality(I) |->
                        CHOOSE i \in I : Cardinality({j \in I : seq[j].score > seq[i].score
                                            \/ (~(seq[i].score > seq[j].score) /\ j < i)}) = k - 1]
<1>1. \A i \in I : ahead[i] = {j \in I : seq[j].score > seq[i].score
                                            \/ (~(seq[i].score > seq[j].score) /\ j < i)}
  OBVIOUS
<1>2. ByKey(seq, LAMBDA s, t : s.score > t.score) = Taken(seq, order)
  BY DEF ByKey, Sorted
<1>3. \A i \in I : i \in Nat /\ seq[i].score \in Nat
  OBVIOUS
<1>5. DOMAIN order = 1 .. Cardinality(I)
  OBVIOUS
<1>6. \A k \in DOMAIN order :
             (\E i \in I : Cardinality(ahead[i]) = k - 1) =>
                 order[k] \in I /\ Cardinality(ahead[order[k]]) = k - 1
  <2> SUFFICES ASSUME NEW k \in DOMAIN order, NEW i \in I, Cardinality(ahead[i]) = k - 1
               PROVE  order[k] \in I /\ Cardinality(ahead[order[k]]) = k - 1
    OBVIOUS
  <2> DEFINE R(m) == Cardinality({j \in I : seq[j].score > seq[m].score
                                            \/ (~(seq[m].score > seq[j].score) /\ j < m)})
  <2>1. \A m \in I : R(m) = Cardinality(ahead[m])
    BY <1>1
  <2>2. order[k] = CHOOSE m \in I : R(m) = k - 1
    BY <1>5
  <2> HIDE DEF R, order, ahead
  <2>3. R(i) = k - 1
    BY <2>1
  <2>4. order[k] \in I /\ R(order[k]) = k - 1
    BY <2>2, <2>3
  <2> QED BY <2>1, <2>4
<1>7. \A i, j \in I : i \in ahead[j] <=> (seq[i].score > seq[j].score
                                            \/ (~(seq[j].score > seq[i].score) /\ i < j))
  BY <1>1
<1> HIDE DEF order
<1>8. TotalOrder(I, ahead)
  <2>1. ahead \in [I -> SUBSET I]
    OBVIOUS
  <2> HIDE DEF ahead
  <2>2. /\ \A i \in I : i \notin ahead[i]
        /\ \A i, j \in I : i = j \/ i \in ahead[j] \/ j \in ahead[i]
    BY <1>3, <1>7
  <2>3. \A i, j, k \in I : i \in ahead[j] /\ j \in ahead[k] => i \in ahead[k]
    BY <1>3, <1>7
  <2> QED BY <2>1, <2>2, <2>3 DEF TotalOrder
<1>9. Follows(order, I, ahead)
  BY <1>5, <1>6 DEF Follows
<1> HIDE DEF ahead
<1>10. Taken(seq, order) \in Seq(S)
  BY <1>8, <1>9, ReorderedIsSeq
<1> QED BY <1>2, <1>10

\* Ordered by document and line, the blocks are what they were.
LEMMA InOrderIsSeq ==
  ASSUME NEW S, NEW bs \in Seq(S), \A x \in S : x.span.from \in Nat
  PROVE  /\ InOrder(bs) \in Seq(S) /\ Len(InOrder(bs)) = Len(bs)
<1>1. CASE ~DocumentOrder
  BY <1>1 DEF InOrder
<1>2. CASE DocumentOrder
  <2> DEFINE I == DOMAIN bs
             place(d) == Min({k \in DOMAIN bs : bs[k].span.doc = d})
             before(a, b) == \/ place(a.span.doc) < place(b.span.doc)
                             \/ (a.span.doc = b.span.doc /\ a.span.from < b.span.from)
             behind(j, i) == before(bs[j], bs[i]) \/ (~before(bs[i], bs[j]) /\ j < i)
             ahead == [i \in I |-> {j \in I : behind(j, i)}]
             R(m) == Cardinality({j \in I : behind(j, m)})
             order == [k \in 1 .. Cardinality(I) |-> CHOOSE i \in I : R(i) = k - 1]
  <2>1. \A i \in I : ahead[i] = {j \in I : behind(j, i)}
    OBVIOUS
  <2>2. InOrder(bs) = Taken(bs, order)
    BY <1>2 DEF InOrder, ByKey, Sorted
  <2>3. DOMAIN order = 1 .. Cardinality(I)
    OBVIOUS
  <2>4. \A i \in I : R(i) = Cardinality(ahead[i])
    <3> HIDE DEF behind
    <3> QED BY <2>1
  <2>5. \A k \in DOMAIN order : order[k] = CHOOSE i \in I : R(i) = k - 1
    OBVIOUS
  <2>6. ahead \in [I -> SUBSET I]
    OBVIOUS
  <2> HIDE DEF ahead, R, order
  <2>7. Follows(order, I, ahead)
    BY <2>3, <2>4, <2>5 DEF Follows
  <2>8. \A i \in I : place(bs[i].span.doc) \in I /\ bs[place(bs[i].span.doc)].span.doc = bs[i].span.doc
    <3> SUFFICES ASSUME NEW i \in I
                 PROVE  place(bs[i].span.doc) \in I /\ bs[place(bs[i].span.doc)].span.doc = bs[i].span.doc
      OBVIOUS
    <3> DEFINE same == {k \in DOMAIN bs : bs[k].span.doc = bs[i].span.doc}
    <3>1. same \subseteq Nat /\ i \in same
      OBVIOUS
    <3> HIDE DEF same
    <3>2. Min(same) \in same
      BY <3>1, LeastIsMember
    <3> QED BY <3>2 DEF same
  <2>9. \A i \in I : i \in Nat /\ bs[i].span.from \in Nat
    OBVIOUS
  <2>10. \A i \in I : place(bs[i].span.doc) \in Nat
    BY <2>8
  <2>11. \A i, j \in I : place(bs[i].span.doc) = place(bs[j].span.doc) => bs[i].span.doc = bs[j].span.doc
    BY <2>8
  <2> DEFINE P == [i \in I |-> place(bs[i].span.doc)]
             F == [i \in I |-> bs[i].span.from]
             lower(j, i) == P[j] < P[i] \/ (P[j] = P[i] /\ F[j] < F[i])
  <2>12. \A i \in I : P[i] \in Nat /\ F[i] \in Nat /\ i \in Nat
    BY <2>9, <2>10
  <2>13. \A i, j \in I : before(bs[j], bs[i]) <=> lower(j, i)
    <3>1. \A i \in I : P[i] = place(bs[i].span.doc) /\ F[i] = bs[i].span.from
      OBVIOUS
    <3>2. \A i, j \in I : bs[i].span.doc = bs[j].span.doc <=> P[i] = P[j]
      BY <2>11
    <3> HIDE DEF place, P, F
    <3> QED BY <3>1, <3>2
  <2> HIDE DEF place, P, F, before
  <2>14. \A i, j \in I : i \in ahead[j] <=> (lower(i, j) \/ (~lower(j, i) /\ i < j))
    BY <2>1, <2>13
  <2> HIDE DEF I
  <2>15. TotalOrder(I, ahead)
    <3>1. \A i \in I : i \notin ahead[i]
      BY <2>12, <2>14
    <3>2. \A i, j \in I : i = j \/ i \in ahead[j] \/ j \in ahead[i]
      BY <2>12, <2>14
    <3>3. \A i, j, k \in I : i \in ahead[j] /\ j \in ahead[k] => i \in ahead[k]
      BY <2>12, <2>14
    <3> QED BY <2>6, <3>1, <3>2, <3>3 DEF TotalOrder
  <2> QED BY <2>2, <2>7, <2>15, ReorderedIsSeq DEF I
<1> QED BY <1>1, <1>2

\* There is a weakest block.
LEMMA WeakestIsOne ==
  ASSUME NEW S, NEW bs \in Seq(S), bs # <<>>, \A x \in S : x.span.score \in Nat
  PROVE  Weakest(bs) \in DOMAIN bs
<1> DEFINE T == {bs[k].span.score : k \in DOMAIN bs}
           weak == {k \in DOMAIN bs : \A j \in DOMAIN bs : bs[k].span.score <= bs[j].span.score}
<1>1. 1 \in DOMAIN bs /\ \A k \in DOMAIN bs : bs[k].span.score \in Nat
  OBVIOUS
<1>2. T \subseteq Nat /\ T # {}
  BY <1>1
<1>3. PICK n \in T : \A m \in T : n <= m
  <2> HIDE DEF T
  <2> QED BY <1>2, LeastExists
<1>4. weak # {} /\ weak \subseteq Nat
  <2>1. PICK k \in DOMAIN bs : bs[k].span.score = n
    BY <1>3
  <2>2. \A j \in DOMAIN bs : bs[j].span.score \in T
    OBVIOUS
  <2>3. k \in weak
    BY <1>3, <2>1, <2>2
  <2>4. weak \subseteq DOMAIN bs
    OBVIOUS
  <2>5. DOMAIN bs \subseteq Nat
    OBVIOUS
  <2> HIDE DEF weak
  <2> QED BY <2>3, <2>4, <2>5
<1>5. Min(weak) \in weak
  <2> HIDE DEF weak
  <2> QED BY <1>4, LeastIsMember
<1> QED BY <1>5 DEF Weakest

LEMMA RemovedIsSeq ==
  ASSUME NEW S, NEW bs \in Seq(S), NEW i \in DOMAIN bs
  PROVE  RemoveAt(bs, i) \in Seq(S)
<1>1. Len(bs) \in Nat /\ i \in 1 .. Len(bs)
  OBVIOUS
<1>2. SubSeq(bs, 1, i - 1) \in Seq(S)
  <2>1. 1 \in 1 .. Len(bs) + 1 /\ i - 1 \in 1 - 1 .. Len(bs)
    BY <1>1
  <2> QED BY <2>1, SubSeqProperties
<1>3. SubSeq(bs, i + 1, Len(bs)) \in Seq(S)
  <2>1. i + 1 \in 1 .. Len(bs) + 1 /\ Len(bs) \in (i + 1) - 1 .. Len(bs)
    BY <1>1
  <2> QED BY <2>1, SubSeqProperties
<1> QED BY <1>2, <1>3 DEF RemoveAt

\* A span widened over passages of its document is a span.
LEMMA GrownIsSpan ==
  ASSUME NEW D, D \subseteq Doc, NEW s \in Span(D), NEW r,
         r[1] \in DOMAIN Passages[s.doc], r[2] \in DOMAIN Passages[s.doc]
  PROVE  Grown(s, r) \in Span(D)
<1>1. /\ s.doc \in D /\ s.members \in Seq(PassageOf(D)) /\ s.members # <<>>
      /\ s.first \in Nat /\ s.last \in Nat /\ s.from \in Nat /\ s.to \in Nat
      /\ s.score \in Nat /\ s.tokens \in Nat
      /\ s.first \in DOMAIN Passages[s.doc] /\ s.last \in DOMAIN Passages[s.doc]
      /\ s.from <= s.to
  BY SpanFields
<1>2. /\ r[1] \in Nat /\ r[2] \in Nat
      /\ Passages[s.doc][r[1]].first \in Nat /\ Passages[s.doc][r[2]].last \in Nat
  <2>1. s.doc \in Doc
    BY <1>1
  <2>2. /\ DOMAIN Passages[s.doc] = 1 .. Len(Passages[s.doc]) /\ Len(Passages[s.doc]) \in Nat
        /\ \A i \in DOMAIN Passages[s.doc] :
              Passages[s.doc][i].first \in Nat /\ Passages[s.doc][i].last \in Nat
    BY <2>1, EvidenceAssumption
  <2> QED BY <2>2
<1> DEFINE first == Least(r[1], s.first)
           last == Most(r[2], s.last)
           from == Least(Passages[s.doc][r[1]].first, s.from)
           to == Most(Passages[s.doc][r[2]].last, s.to)
<1>3. first \in {r[1], s.first} /\ last \in {r[2], s.last}
  BY <1>1, <1>2, LeastMost
<1>4. from \in Nat /\ from <= s.from /\ to \in Nat /\ s.to <= to
  BY <1>1, <1>2, LeastMost
<1>5. s \in [doc : D, members : Seq(PassageOf(D)), first : Nat, last : Nat, from : Nat, to : Nat,
             score : Nat, tokens : Nat]
  BY DEF Span
<1>6. Grown(s, r) = [s EXCEPT !.first = first, !.last = last, !.from = from, !.to = to]
  BY DEF Grown
<1> HIDE DEF first, last, from, to
<1>7. first \in DOMAIN Passages[s.doc] /\ last \in DOMAIN Passages[s.doc] /\ first \in Nat /\ last \in Nat
  BY <1>1, <1>2, <1>3
<1>8. from <= to
  <2>1. \A a, b, c, d \in Nat : a <= b /\ b <= c /\ c <= d => a <= d
    OBVIOUS
  <2> QED BY <1>1, <1>4, <2>1
<1> DEFINE t == Grown(s, r)
<1>9. t.doc = s.doc /\ t.members = s.members /\ t.first = first /\ t.last = last /\ t.from = from /\ t.to = to
  BY <1>5, <1>6
<1>10. t \in [doc : D, members : Seq(PassageOf(D)), first : Nat, last : Nat, from : Nat, to : Nat,
              score : Nat, tokens : Nat]
  BY <1>4, <1>5, <1>6, <1>7
<1> HIDE DEF t
<1>11. t \in Span(D)
  BY <1>1, <1>7, <1>8, <1>9, <1>10 DEF Span
<1> QED BY <1>11 DEF t

\* The ranges tried are of passages of the document.
LEMMA RangesAreInside ==
  ASSUME NEW D, D \subseteq Doc, NEW s \in Span(D)
  PROVE  Ranges(s) \in Seq((DOMAIN Passages[s.doc]) \X (DOMAIN Passages[s.doc]))
<1> DEFINE N == Len(Passages[s.doc])
           lo == Most(1, s.first - 1)
           hi == Least(s.last + 1, N)
           P == (1 .. N) \X (1 .. N)
<1>1. N \in Nat /\ DOMAIN Passages[s.doc] = 1 .. N
  BY SpanFields, EvidenceAssumption
<1>2. s.first \in 1 .. N /\ s.last \in 1 .. N
  BY <1>1, SpanFields
<1>3. lo \in 1 .. N /\ hi \in 1 .. N
  BY <1>1, <1>2 DEF Least, Most
<1>4. SectionRange(s) \in Seq(P)
  <2> DEFINE inside == {i \in DOMAIN Passages[s.doc] :
                      /\ Passages[s.doc][i].first >= Sections[s.doc][At(Best(s)).section].first
                      /\ Passages[s.doc][i].last <= Sections[s.doc][At(Best(s)).section].last}
  <2>1. inside \subseteq 1 .. N
    BY <1>1
  <2>2. IsFiniteSet(1 .. N)
    <3>1. \A n \in Nat : IsFiniteSet(1 .. n)
      BY FS_Interval
    <3> QED BY <1>1, <3>1
  <2>3. SectionRange(s) \in {<<>>, <<<<Min(inside), Max(inside)>>>>} /\ (inside = {} => SectionRange(s) = <<>>)
    BY DEF SectionRange
  <2> HIDE DEF inside
  <2>4. inside # {} => Min(inside) \in 1 .. N /\ Max(inside) \in 1 .. N
    <3> SUFFICES ASSUME inside # {} PROVE Min(inside) \in 1 .. N /\ Max(inside) \in 1 .. N
      OBVIOUS
    <3>1. inside \subseteq Nat
      BY <2>1
    <3>2. IsFiniteSet(inside)
      BY <2>1, <2>2, FS_Subset
    <3>3. Min(inside) \in inside /\ Max(inside) \in inside
      BY <3>1, <3>2, LeastIsMember, GreatestIsMember
    <3> QED BY <2>1, <3>3
  <2>5. <<>> \in Seq(P)
    OBVIOUS
  <2>6. CASE inside # {}
    <3>1. <<Min(inside), Max(inside)>> \in P
      BY <2>4, <2>6
    <3> HIDE DEF P
    <3>2. <<<<Min(inside), Max(inside)>>>> \in Seq(P)
      BY <3>1
    <3> QED BY <2>3, <2>5, <3>2
  <2> QED BY <2>3, <2>5, <2>6
<1>5. <<<<lo, hi>>, <<s.first, hi>>, <<lo, s.last>>>> \in Seq(P)
  BY <1>2, <1>3
<1>6. Ranges(s) = SectionRange(s) \o <<<<lo, hi>>, <<s.first, hi>>, <<lo, s.last>>>>
  BY DEF Ranges
<1> HIDE DEF P, lo, hi
<1>7. Ranges(s) \in Seq(P)
  BY <1>4, <1>5, <1>6
<1> QED BY <1>1, <1>7 DEF P

\* What widening takes is a span.
LEMMA WiderIsSpan ==
  ASSUME NEW D, D \subseteq Doc, blocks \in Seq(Block(D)), NEW k \in DOMAIN blocks,
         NEW t \in Wider(k)
  PROVE  t \in Span(D)
<1> DEFINE s == blocks[k].span
           ranges == Ranges(s)
           fits == {r \in DOMAIN ranges :
                /\ ranges[r] # <<s.first, s.last>> /\ ranges[r][1] <= ranges[r][2]
                /\ \E x \in {Grown(s, ranges[r])} :
                       ~Collides(k, x) /\ Whole(x).tokens <= blocks[k].tokens + Leftover}
           in == DOMAIN Passages[s.doc]
<1>1. s \in Span(D)
  BY BlockFields
<1>2. ranges \in Seq(in \X in)
  BY <1>1, RangesAreInside
<1>3. fits # {} /\ t = Grown(s, ranges[Min(fits)])
  BY DEF Wider
<1>4. fits \subseteq DOMAIN ranges
  OBVIOUS
<1> HIDE DEF fits, ranges, in
<1>5. DOMAIN ranges \subseteq Nat
  BY <1>2
<1>6. Min(fits) \in DOMAIN ranges
  <2>1. fits \subseteq Nat
    BY <1>4, <1>5
  <2> QED BY <1>3, <1>4, <2>1, LeastIsMember
<1>7. ranges[Min(fits)][1] \in in /\ ranges[Min(fits)][2] \in in
  BY <1>2, <1>6
<1> HIDE DEF s
<1>8. Grown(s, ranges[Min(fits)]) \in Span(D)
  BY <1>1, <1>7, GrownIsSpan DEF in
<1> QED BY <1>3, <1>8

-------------------------------------------------------------------------------
(* The packer *)

RankedDocs == {ranked[k].doc : k \in DOMAIN ranked}
PackTypes ==
  /\ phase \in {"merge", "fill", "widen", "trim", "packed"}
  /\ budget \in Nat /\ drift \in Nat /\ used \in Nat
  /\ cursor \in [pass : 1 .. Passes, at : Nat \ {0}, grew : BOOLEAN]
  /\ ranked \in Seq(RankedPassage)
PackInv ==
  /\ PackTypes
  /\ spans \in Seq(Span(RankedDocs)) /\ blocks \in Seq(Block(RankedDocs))
  /\ phase = "merge" => todo \in Seq(PassageOf(RankedDocs))
  /\ phase = "fill" => todo \in Seq(Span(RankedDocs))

LEMMA PassagesOfDocs ==
  ASSUME NEW r \in Seq(RankedPassage)
  PROVE  LET docs == {r[k].doc : k \in DOMAIN r}
         IN  docs \subseteq Doc /\ r \in Seq(PassageOf(docs))
<1> DEFINE docs == {r[k].doc : k \in DOMAIN r}
<1>1. \A k \in DOMAIN r : r[k] \in RankedPassage /\ r[k].doc \in Doc /\ r[k].doc \in docs
  BY DEF RankedPassage
<1>2. docs \subseteq Doc
  BY <1>1
<1> HIDE DEF docs
<1>3. \A k \in DOMAIN r : r[k] \in PassageOf(docs)
  BY <1>1 DEF PassageOf
<1>4. DOMAIN r = 1 .. Len(r) /\ Len(r) \in Nat
  OBVIOUS
<1> QED BY <1>2, <1>3, <1>4 DEF docs

LEMMA RankedInDocs ==
  ASSUME ranked \in Seq(RankedPassage)
  PROVE  RankedDocs \subseteq Doc /\ ranked \in Seq(PassageOf(RankedDocs))
BY PassagesOfDocs DEF RankedDocs

LEMMA MergeStep == PackInv /\ Merge => PackInv'
<1> SUFFICES ASSUME PackInv, Merge PROVE PackInv'
  OBVIOUS
<1> DEFINE D == RankedDocs
           p == Head(todo)
           near == {k \in DOMAIN spans : Near(spans[k], p)}
<1>1. D \subseteq Doc
  BY RankedInDocs DEF PackInv, PackTypes
<1>2. /\ phase' = phase /\ phase = "merge" /\ todo \in Seq(PassageOf(D)) /\ todo # <<>>
      /\ todo' = Tail(todo)
      /\ budget' = budget /\ drift' = drift /\ ranked' = ranked /\ blocks' = blocks
      /\ used' = used /\ cursor' = cursor
      /\ \/ spans' = spans
         \/ spans' = IF near = {} THEN Append(spans, Single(p))
                     ELSE [spans EXCEPT ![Min(near)] = WithMember(@, p)]
  BY DEF Merge, PackInv
<1>3. RankedDocs' = D
  BY <1>2 DEF RankedDocs
<1>4. p \in PassageOf(D) /\ todo' \in Seq(PassageOf(D))
  BY <1>2
<1>5. spans \in Seq(Span(D))
  BY DEF PackInv
<1>6. spans' \in Seq(Span(D))
  <2>1. CASE spans' = spans
    BY <1>5, <2>1
  <2>2. CASE near = {} /\ spans' = Append(spans, Single(p))
    <3>1. Single(p) \in Span(D)
      BY <1>1, <1>4, SingleIsSpan
    <3> QED BY <1>5, <2>2, <3>1
  <2>3. CASE near # {} /\ spans' = [spans EXCEPT ![Min(near)] = WithMember(@, p)]
    <3>1. near \subseteq Nat /\ near \subseteq DOMAIN spans
      BY <1>5
    <3>2. Min(near) \in near
      <4> HIDE DEF near
      <4> QED BY <2>3, <3>1, LeastIsMember
    <3>3. Near(spans[Min(near)], p) /\ Min(near) \in DOMAIN spans /\ spans[Min(near)] \in Span(D)
      BY <1>5, <3>2
    <3> HIDE DEF near, p, D
    <3>4. WithMember(spans[Min(near)], p) \in Span(D)
      BY <1>1, <1>4, <3>3, MemberKeepsSpan
    <3> QED BY <1>5, <2>3, <3>3, <3>4
  <2> QED BY <1>2, <2>1, <2>2, <2>3
<1> QED BY <1>2, <1>3, <1>4, <1>6 DEF PackInv, PackTypes

LEMMA MergedStep == PackInv /\ Merged => PackInv'
<1> SUFFICES ASSUME PackInv, Merged PROVE PackInv'
  OBVIOUS
<1> DEFINE D == RankedDocs
<1>1. /\ phase' = "fill" /\ todo' = ByKey(spans, LAMBDA s, t : s.score > t.score)
      /\ budget' = budget /\ drift' = drift /\ ranked' = ranked /\ blocks' = blocks
      /\ used' = used /\ cursor' = cursor /\ spans' = spans
  BY DEF Merged
<1>2. RankedDocs' = D
  BY <1>1 DEF RankedDocs
<1>3. spans \in Seq(Span(D))
  BY DEF PackInv
<1>4. \A x \in Span(D) : x.score \in Nat
  BY SpanFields
<1>5. ByKey(spans, LAMBDA s, t : s.score > t.score) \in Seq(Span(D))
  <2> HIDE DEF D
  <2> QED BY <1>3, <1>4, ScoredIsSeq
<1>6. todo' \in Seq(Span(D))
  BY <1>1, <1>5
<1> QED BY <1>1, <1>2, <1>6 DEF PackInv, PackTypes

\* What fits is a block.
LEMMA FittedIsBlock ==
  ASSUME NEW D, D \subseteq Doc, NEW s \in Span(D), NEW b \in Fitted(s)
  PROVE  b \in Block(D)
<1>1. Wrap \in Nat
  BY EvidenceAssumption
<1>2. b = Whole(s) \/ \E keep \in Condense(s, Remaining) : b = Elided(s, keep)
  BY DEF Fitted
<1>3. Whole(s) \in Block(D)
  BY <1>1, WholeIsBlock
<1>4. ASSUME NEW keep \in Condense(s, Remaining) PROVE Elided(s, keep) \in Block(D)
  <2>1. /\ keep \subseteq LinesOf(s)
        /\ {s.from} \cup Anchor(s) \subseteq keep
        /\ ToSet(Focus(s)) # {} => ToSet(Focus(s)) \cap keep # {}
    BY CondenseKeeps
  <2> QED BY <1>1, <2>1, ElidedIsBlock
<1> QED BY <1>2, <1>3, <1>4

LEMMA FillStep == PackInv /\ Fill => PackInv'
<1> SUFFICES ASSUME PackInv, Fill PROVE PackInv'
  OBVIOUS
<1> DEFINE D == RankedDocs
           s == Head(todo)
<1>1. D \subseteq Doc
  BY RankedInDocs DEF PackInv, PackTypes
<1>2. /\ phase' = phase /\ phase = "fill" /\ todo \in Seq(Span(D)) /\ todo # <<>>
      /\ todo' = Tail(todo)
      /\ budget' = budget /\ drift' = drift /\ ranked' = ranked /\ spans' = spans
      /\ cursor' = cursor
      /\ \/ blocks' = blocks /\ used' = used
         \/ \E b \in Fitted(s) : blocks' = Append(blocks, b) /\ used' = used + FirstCost + b.tokens
  BY DEF Fill, PackInv
<1>3. RankedDocs' = D
  BY <1>2 DEF RankedDocs
<1>4. s \in Span(D) /\ todo' \in Seq(Span(D))
  BY <1>2
<1>5. blocks \in Seq(Block(D)) /\ used \in Nat
  BY DEF PackInv, PackTypes
<1>6. blocks' \in Seq(Block(D)) /\ used' \in Nat
  <2>1. CASE blocks' = blocks /\ used' = used
    BY <1>5, <2>1
  <2>2. ASSUME NEW b \in Fitted(s), blocks' = Append(blocks, b), used' = used + FirstCost + b.tokens
        PROVE  blocks' \in Seq(Block(D)) /\ used' \in Nat
    <3> HIDE DEF D, s
    <3>1. b \in Block(D)
      BY <1>1, <1>4, FittedIsBlock
    <3>2. b.tokens \in Nat
      BY <3>1, BlockFields
    <3>3. FirstCost \in Nat
      BY EvidenceAssumption DEF FirstCost
    <3> QED BY <1>5, <2>2, <3>1, <3>2, <3>3
  <2> QED BY <1>2, <2>1, <2>2
<1> QED BY <1>2, <1>3, <1>4, <1>6 DEF PackInv, PackTypes

LEMMA FilledStep == PackInv /\ Filled => PackInv'
<1> SUFFICES ASSUME PackInv, Filled PROVE PackInv'
  OBVIOUS
<1>1. /\ phase' \in {"widen", "trim"}
      /\ budget' = budget /\ drift' = drift /\ ranked' = ranked /\ spans' = spans
      /\ blocks' = blocks /\ used' = used /\ cursor' = cursor
  BY DEF Filled
<1>2. RankedDocs' = RankedDocs
  BY <1>1 DEF RankedDocs
<1> QED BY <1>1, <1>2 DEF PackInv, PackTypes

LEMMA WidenStep == PackInv /\ Widen => PackInv'
<1> SUFFICES ASSUME PackInv, Widen PROVE PackInv'
  OBVIOUS
<1> DEFINE D == RankedDocs
           k == cursor.at
           wider == IF blocks[k].condensed THEN {} ELSE Wider(k)
<1>1. D \subseteq Doc
  BY RankedInDocs DEF PackInv, PackTypes
<1>2. /\ phase' = phase /\ phase = "widen" /\ k <= Len(blocks)
      /\ budget' = budget /\ drift' = drift /\ ranked' = ranked /\ spans' = spans
      /\ cursor' = [cursor EXCEPT !.at = k + 1, !.grew = @ \/ wider # {}]
      /\ \/ blocks' = blocks /\ used' = used
         \/ \E s \in wider : LET b == [Whole(s) EXCEPT !.expanded = TRUE] IN
                /\ blocks' = [blocks EXCEPT ![k] = b]
                /\ used' = used + b.tokens - Least(blocks[k].tokens, b.tokens)
  BY DEF Widen
<1>3. RankedDocs' = D
  BY <1>2 DEF RankedDocs
<1>4. cursor \in [pass : 1 .. Passes, at : Nat \ {0}, grew : BOOLEAN]
  BY DEF PackInv, PackTypes
<1>5. cursor' \in [pass : 1 .. Passes, at : Nat \ {0}, grew : BOOLEAN]
  <2> DEFINE some == wider # {}
  <2>1. some \in BOOLEAN
    OBVIOUS
  <2>2. cursor' = [cursor EXCEPT !.at = k + 1, !.grew = @ \/ some]
    BY <1>2
  <2> HIDE DEF wider, some
  <2>3. cursor' = [pass |-> cursor.pass, at |-> cursor.at + 1, grew |-> (cursor.grew \/ some)]
    BY <1>4, <2>2
  <2>4. (cursor.grew \/ some) \in BOOLEAN
    OBVIOUS
  <2>5. cursor.at + 1 \in Nat \ {0}
    BY <1>4
  <2> QED BY <1>4, <2>3, <2>4, <2>5
<1>6. blocks \in Seq(Block(D)) /\ used \in Nat
  BY DEF PackInv, PackTypes
<1>7. blocks' \in Seq(Block(D)) /\ used' \in Nat
  <2>1. CASE blocks' = blocks /\ used' = used
    BY <1>6, <2>1
  <2>2. ASSUME NEW s \in wider,
               LET b == [Whole(s) EXCEPT !.expanded = TRUE] IN
                /\ blocks' = [blocks EXCEPT ![k] = b]
                /\ used' = used + b.tokens - Least(blocks[k].tokens, b.tokens)
        PROVE  blocks' \in Seq(Block(D)) /\ used' \in Nat
    <3> DEFINE b == [Whole(s) EXCEPT !.expanded = TRUE]
    <3>1. s \in Wider(k)
      OBVIOUS
    <3>2. k \in DOMAIN blocks
      BY <1>2, <1>4, <1>6
    <3> HIDE DEF wider, k, D
    <3>3. s \in Span(D)
      BY <1>1, <1>6, <3>1, <3>2, WiderIsSpan
    <3>4. Wrap \in Nat
      BY EvidenceAssumption
    <3>5. b \in Block(D)
      BY <3>3, <3>4, WholeIsBlock
    <3>6. blocks' = [blocks EXCEPT ![k] = b] /\ used' = used + b.tokens - Least(blocks[k].tokens, b.tokens)
      BY <2>2
    <3> HIDE DEF b
    <3>7. blocks[k] \in Block(D)
      BY <1>6, <3>2
    <3>8. b.tokens \in Nat /\ blocks[k].tokens \in Nat
      BY <3>5, <3>7, BlockFields
    <3>9. Least(blocks[k].tokens, b.tokens) \in Nat /\ Least(blocks[k].tokens, b.tokens) <= b.tokens
      BY <3>8, LeastMost
    <3>10. used' \in Nat
      BY <1>6, <3>6, <3>8, <3>9
    <3> QED BY <1>6, <3>2, <3>5, <3>6, <3>10
  <2> QED BY <1>2, <2>1, <2>2
<1> QED BY <1>2, <1>3, <1>5, <1>7 DEF PackInv, PackTypes

LEMMA WidenedStep == PackInv /\ Widened => PackInv'
<1> SUFFICES ASSUME PackInv, Widened PROVE PackInv'
  OBVIOUS
<1>1. /\ phase' \in {"widen", "trim"}
      /\ budget' = budget /\ drift' = drift /\ ranked' = ranked /\ spans' = spans
      /\ blocks' = blocks /\ used' = used
      /\ cursor' = cursor \/ (MorePasses /\ cursor' = [pass |-> cursor.pass + 1, at |-> 1, grew |-> FALSE])
  BY DEF Widened
<1>2. RankedDocs' = RankedDocs
  BY <1>1 DEF RankedDocs
<1>3. cursor' \in [pass : 1 .. Passes, at : Nat \ {0}, grew : BOOLEAN]
  <2>1. cursor \in [pass : 1 .. 2, at : Nat \ {0}, grew : BOOLEAN]
    BY DEF PackInv, PackTypes, Passes
  <2>2. ASSUME cursor.pass < 2 PROVE cursor.pass + 1 \in 1 .. 2
    BY <2>1, <2>2
  <2>3. CASE cursor' = cursor
    BY <2>1, <2>3 DEF Passes
  <2>4. CASE MorePasses /\ cursor' = [pass |-> cursor.pass + 1, at |-> 1, grew |-> FALSE]
    BY <2>2, <2>4 DEF MorePasses, Passes
  <2> QED BY <1>1, <2>3, <2>4
<1> QED BY <1>1, <1>2, <1>3 DEF PackInv, PackTypes

LEMMA TrimStep == PackInv /\ Trim => PackInv'
<1> SUFFICES ASSUME PackInv, Trim PROVE PackInv'
  OBVIOUS
<1> DEFINE D == RankedDocs
           bs == InOrder(blocks)
<1>1. D \subseteq Doc
  BY RankedInDocs DEF PackInv, PackTypes
<1>2. /\ budget' = budget /\ drift' = drift /\ ranked' = ranked /\ spans' = spans
      /\ used' = used /\ cursor' = cursor /\ phase = "trim"
      /\ \/ Rendered(bs) > budget /\ blocks' = RemoveAt(bs, Weakest(bs)) /\ phase' = phase
         \/ phase' = "packed" /\ blocks' = bs
  BY DEF Trim
<1>3. RankedDocs' = D
  BY <1>2 DEF RankedDocs
<1>4. \A b \in Block(D) : b.span.from \in Nat /\ b.span.score \in Nat
  BY BlockFields, SpanFields
<1>5. bs \in Seq(Block(D))
  <2>1. blocks \in Seq(Block(D))
    BY DEF PackInv
  <2> HIDE DEF D
  <2> QED BY <1>4, <2>1, InOrderIsSeq
<1>6. budget \in Nat
  BY DEF PackInv, PackTypes
<1>7. blocks' \in Seq(Block(D))
  <2> HIDE DEF bs, D
  <2>1. ASSUME Rendered(bs) > budget PROVE RemoveAt(bs, Weakest(bs)) \in Seq(Block(D))
    <3>1. bs # <<>>
      BY <1>6, <2>1 DEF Rendered
    <3>2. Weakest(bs) \in DOMAIN bs
      BY <1>4, <1>5, <3>1, WeakestIsOne
    <3> QED BY <1>5, <3>2, RemovedIsSeq
  <2> QED BY <1>2, <1>5, <2>1
<1> QED BY <1>2, <1>3, <1>7 DEF PackInv, PackTypes

\* Each step of the packer keeps what it has: spans and blocks of the documents
\* that were ranked, and the lines that every condensed block must show.
LEMMA PackKeeps == PackInv /\ Pack => PackInv' /\ ranked' = ranked /\ budget' = budget
<1>1. Pack => ranked' = ranked /\ budget' = budget
  BY DEF Pack, Merge, Merged, Fill, Filled, Widen, Widened, Trim
<1> QED BY <1>1, MergeStep, MergedStep, FillStep, FilledStep, WidenStep, WidenedStep, TrimStep DEF Pack

-------------------------------------------------------------------------------
(* Sums *)

\* The sum of a function over the subsets of I, as the fold has it.
Sums(f, fun, I) ==
  f = [s \in SUBSET I |-> IF s = {} THEN 0
                          ELSE LET x == CHOOSE x \in s : TRUE IN fun[x] + f[s \ {x}]]

LEMMA SumsExist ==
  ASSUME NEW I, IsFiniteSet(I), NEW fun, \A i \in I : fun[i] \in Nat
  PROVE  \E f : Sums(f, fun, I)
<1> DEFINE Small(m) == {s \in SUBSET I : Cardinality(s) <= m}
           one(s) == CHOOSE x \in s : TRUE
           Good(f, m) == f = [s \in Small(m) |->
                                 IF s = {} THEN 0 ELSE fun[one(s)] + f[s \ {one(s)}]]
           T == {m \in Nat : \E f : Good(f, m)}
<1>1. \A s \in SUBSET I : IsFiniteSet(s) /\ Cardinality(s) \in Nat /\ (Cardinality(s) = 0 <=> s = {})
  BY FS_Subset, FS_CardinalityType, FS_EmptySet
<1>2. \A s \in SUBSET I : s # {} => /\ one(s) \in s /\ s \ {one(s)} \in SUBSET I
                                    /\ Cardinality(s \ {one(s)}) = Cardinality(s) - 1
  BY <1>1, FS_RemoveElement
<1> HIDE DEF one
<1>3. 0 \in T
  <2> DEFINE f == [s \in Small(0) |-> 0]
  <2>1. \A s \in Small(0) : s = {}
    BY <1>1
  <2>2. Good(f, 0)
    <3> HIDE DEF Small
    <3> QED BY <2>1
  <2> QED BY <2>2
<1>4. ASSUME NEW m \in Nat, m \in T PROVE m + 1 \in T
  <2>1. PICK f : Good(f, m)
    BY <1>4
  <2> DEFINE g == [s \in Small(m + 1) |-> IF s = {} THEN 0 ELSE fun[one(s)] + f[s \ {one(s)}]]
  <2>2. \A s \in Small(m + 1) : s # {} => s \ {one(s)} \in Small(m)
    BY <1>1, <1>2
  <2>3. \A s \in Small(m) : s \in Small(m + 1)
    BY <1>1
  <2> HIDE DEF Small
  <2>4. \A s \in Small(m) : g[s] = f[s]
    BY <2>1, <2>3
  <2>5. \A s \in Small(m + 1) : s # {} => g[s] = fun[one(s)] + g[s \ {one(s)}]
    BY <2>2, <2>4
  <2>6. \A s \in Small(m + 1) : s = {} => g[s] = 0
    OBVIOUS
  <2>7. DOMAIN g = Small(m + 1) /\ g = [s \in DOMAIN g |-> g[s]]
    OBVIOUS
  <2> HIDE DEF g
  <2>8. Good(g, m + 1)
    BY <2>5, <2>6, <2>7
  <2> HIDE DEF Good
  <2>9. (\E x : Good(x, m + 1)) /\ m + 1 \in Nat
    BY <2>8
  <2> QED BY <2>9
<1>5. Cardinality(I) \in T
  <2> HIDE DEF T
  <2> QED BY <1>3, <1>4, FS_CardinalityType, NatSet
<1>6. Small(Cardinality(I)) = SUBSET I
  <2>1. \A s \in SUBSET I : Cardinality(s) <= Cardinality(I)
    BY FS_Subset
  <2> QED BY <2>1
<1>7. PICK f : Good(f, Cardinality(I))
  BY <1>5
<1> HIDE DEF Small
<1> QED BY <1>6, <1>7 DEF Sums, one

\* The sum of numbers is a number.
LEMMA SumIsNat ==
  ASSUME NEW I, IsFiniteSet(I), NEW fun, \A i \in I : fun[i] \in Nat
  PROVE  /\ FoldFunctionOnSet(+, 0, fun, I) \in Nat
         /\ I = {} => FoldFunctionOnSet(+, 0, fun, I) = 0
<1> DEFINE sums == CHOOSE f : Sums(f, fun, I)
           one(s) == CHOOSE x \in s : TRUE
           T == {m \in Nat : \A s \in SUBSET I : Cardinality(s) = m => sums[s] \in Nat}
<1>1. Sums(sums, fun, I)
  BY SumsExist
<1>2. FoldFunctionOnSet(+, 0, fun, I) = sums[I]
  BY DEF FoldFunctionOnSet, MapThenFoldSet, Sums
<1> HIDE DEF sums
<1>3. \A s \in SUBSET I : sums[s] = IF s = {} THEN 0 ELSE fun[one(s)] + sums[s \ {one(s)}]
  BY <1>1 DEF Sums
<1>4. \A s \in SUBSET I : IsFiniteSet(s) /\ Cardinality(s) \in Nat /\ (Cardinality(s) = 0 <=> s = {})
  BY FS_Subset, FS_CardinalityType, FS_EmptySet
<1>5. \A s \in SUBSET I : s # {} => /\ one(s) \in s /\ s \ {one(s)} \in SUBSET I
                                    /\ Cardinality(s \ {one(s)}) = Cardinality(s) - 1
  BY <1>4, FS_RemoveElement
<1> HIDE DEF one
<1>6. 0 \in T
  BY <1>3, <1>4
<1>7. ASSUME NEW m \in Nat, m \in T PROVE m + 1 \in T
  <2>1. ASSUME NEW s \in SUBSET I, Cardinality(s) = m + 1 PROVE sums[s] \in Nat
    <3>1. s # {} /\ one(s) \in I /\ Cardinality(s \ {one(s)}) = m /\ s \ {one(s)} \in SUBSET I
      BY <1>4, <1>5, <2>1
    <3>2. sums[s \ {one(s)}] \in Nat /\ fun[one(s)] \in Nat
      BY <1>7, <3>1
    <3>3. sums[s] = fun[one(s)] + sums[s \ {one(s)}]
      BY <1>3, <3>1
    <3> QED BY <3>2, <3>3
  <2> QED BY <2>1
<1>8. Cardinality(I) \in Nat /\ Cardinality(I) \in T
  <2> HIDE DEF T
  <2> QED BY <1>6, <1>7, FS_CardinalityType, NatSet
<1> QED BY <1>2, <1>3, <1>8

LEMMA SumOfIsNat ==
  ASSUME NEW seq \in Seq(Nat)
  PROVE  SumOf(seq) \in Nat /\ (seq = <<>> => SumOf(seq) = 0)
<1>1. IsFiniteSet(DOMAIN seq) /\ \A i \in DOMAIN seq : seq[i] \in Nat
  <2>1. DOMAIN seq = 1 .. Len(seq) /\ Len(seq) \in Nat
    OBVIOUS
  <2>2. \A n \in Nat : IsFiniteSet(1 .. n)
    BY FS_Interval
  <2> QED BY <2>1, <2>2
<1>2. SumOf(seq) = FoldFunctionOnSet(+, 0, seq, DOMAIN seq)
  BY DEF SumOf, FoldFunction
<1>3. seq = <<>> => DOMAIN seq = {}
  OBVIOUS
<1>4. /\ FoldFunctionOnSet(+, 0, seq, DOMAIN seq) \in Nat
      /\ DOMAIN seq = {} => FoldFunctionOnSet(+, 0, seq, DOMAIN seq) = 0
  BY <1>1, SumIsNat
<1> QED BY <1>2, <1>3, <1>4

-------------------------------------------------------------------------------
(* The conversation *)

\* The types of what is remembered; a turn forgotten for good is not in the store,
\* nor in the memory, nor on its way there.
MemoryInv ==
  /\ numbered \in 0 .. Len(Turn) /\ live \subseteq 1 .. numbered /\ undone \subseteq 1 .. numbered
  /\ memory \in Seq(Nat) /\ disturbed \in BOOLEAN
  /\ undone \cap live = {}
  /\ \A k \in DOMAIN memory : memory[k] \in (1 .. numbered) \ undone

\* A record in progress is of a numbered turn that no deletion counts as gone.
WriterInv ==
  /\ DOMAIN writer = Writer
  /\ \A v \in Writer : writer[v].pc = "push" =>
         /\ writer[v].seq \in (1 .. numbered) \ undone
         /\ \A u \in Writer : writer[u].pc = "clear" => writer[v].seq \notin writer[u].gone
  /\ \A u \in Writer : writer[u].pc = "clear" =>
         writer[u].gone \subseteq 1 .. numbered /\ writer[u].gone \cap live = {}

\* What a step of the conversation leaves an assembly with.
Later ==
  /\ UNCHANGED <<asked, evidence>>
  /\ numbered' \in Nat /\ numbered <= numbered' /\ undone \subseteq undone'
  /\ \A n \in 1 .. numbered : n \in live' => n \in live
  /\ disturbed' \in BOOLEAN /\ (~disturbed' => ~disturbed /\ ~Running)

LEMMA TurnsType ==
  /\ Len(Turn) \in Nat /\ DOMAIN Turn = 1 .. Len(Turn)
  /\ \A n \in DOMAIN Turn : Turn[n] \in Doc
BY AssembleAssumption

LEMMA DisturbingType ==
  ASSUME disturbed \in BOOLEAN, Disturbing
  PROVE  disturbed' \in BOOLEAN /\ (~disturbed' => ~disturbed /\ ~Running)
BY DEF Disturbing, Running

LEMMA AppendTurnStep ==
  ASSUME MemoryInv, WriterInv, NEW w \in Writer, AppendTurn(w)
  PROVE  MemoryInv' /\ WriterInv' /\ Later
<1> DEFINE n == numbered + 1
<1>1. /\ numbered < Len(Turn) /\ numbered' = n /\ live' = live \cup {n}
      /\ writer' = [writer EXCEPT ![w] = [pc |-> "push", seq |-> n]]
      /\ memory' = memory /\ asked' = asked /\ undone' = undone /\ evidence' = evidence
      /\ Disturbing
  BY DEF AppendTurn
<1>2. /\ numbered \in 0 .. Len(Turn) /\ live \subseteq 1 .. numbered /\ undone \subseteq 1 .. numbered
      /\ memory \in Seq(Nat) /\ disturbed \in BOOLEAN
      /\ undone \cap live = {}
      /\ \A k \in DOMAIN memory : memory[k] \in (1 .. numbered) \ undone
  BY DEF MemoryInv
<1>3. /\ n \in 1 .. Len(Turn) /\ n \notin 1 .. numbered
      /\ \A m \in 1 .. numbered : m \in 1 .. n
      /\ numbered \in Nat /\ n \in Nat /\ numbered <= n /\ n \in 1 .. n
  BY <1>1, <1>2, TurnsType
<1>4. disturbed' \in BOOLEAN /\ (~disturbed' => ~disturbed /\ ~Running)
  BY <1>1, <1>2, DisturbingType
<1> HIDE DEF n
<1>5. MemoryInv'
  BY <1>1, <1>2, <1>3, <1>4 DEF MemoryInv
<1>6. Later
  BY <1>1, <1>3, <1>4 DEF Later
<1>7. /\ DOMAIN writer' = Writer
      /\ \A v \in Writer : v # w => writer'[v] = writer[v]
      /\ writer'[w].pc = "push" /\ writer'[w].seq = n
  BY <1>1 DEF WriterInv
<1>8. ASSUME NEW u \in Writer, writer'[u].pc = "clear"
      PROVE  writer'[u].gone = writer[u].gone /\ writer[u].gone \subseteq 1 .. numbered
             /\ writer[u].gone \cap live = {} /\ writer[u].pc = "clear"
  BY <1>7, <1>8 DEF WriterInv
<1>9. ASSUME NEW v \in Writer, writer'[v].pc = "push"
      PROVE  /\ writer'[v].seq \in (1 .. n) \ undone
             /\ \A u \in Writer : writer'[u].pc = "clear" => writer'[v].seq \notin writer'[u].gone
  <2>1. CASE v = w
    BY <1>2, <1>3, <1>7, <1>8, <2>1
  <2>2. CASE v # w
    <3>1. writer'[v] = writer[v] /\ writer[v].pc = "push"
      BY <1>7, <1>9, <2>2
    <3>2. writer[v].seq \in (1 .. numbered) \ undone
      BY <3>1 DEF WriterInv
    <3>3. \A u \in Writer : writer[u].pc = "clear" => writer[v].seq \notin writer[u].gone
      BY <3>1 DEF WriterInv
    <3> QED BY <1>3, <1>8, <3>1, <3>2, <3>3
  <2> QED BY <2>1, <2>2
<1>10. \A u \in Writer : writer'[u].pc = "clear" =>
         writer'[u].gone \subseteq 1 .. n /\ writer'[u].gone \cap live' = {}
  BY <1>1, <1>3, <1>8
<1>11. WriterInv'
  BY <1>1, <1>7, <1>9, <1>10 DEF WriterInv
<1> QED BY <1>5, <1>6, <1>11

\* A writer that ends leaves the others as they are.
LEMMA IdleWriter ==
  ASSUME WriterInv, NEW w \in Writer, writer' = [writer EXCEPT ![w] = Idle],
         numbered' = numbered, live' = live,
         undone' \subseteq 1 .. numbered,
         \A v \in Writer : v # w /\ writer[v].pc = "push" => writer[v].seq \notin undone'
  PROVE  WriterInv'
<1>1. /\ DOMAIN writer' = Writer
      /\ \A v \in Writer : v # w => writer'[v] = writer[v]
      /\ writer'[w].pc = "idle"
  BY DEF WriterInv, Idle
<1>2. \A v \in Writer : writer'[v].pc \in {"push", "clear"} => v # w /\ writer'[v] = writer[v]
  BY <1>1
<1>3. ASSUME NEW v \in Writer, writer'[v].pc = "push"
      PROVE  /\ writer'[v].seq \in (1 .. numbered) \ undone'
             /\ \A u \in Writer : writer'[u].pc = "clear" => writer'[v].seq \notin writer'[u].gone
  <2>1. v # w /\ writer'[v] = writer[v] /\ writer[v].pc = "push"
    BY <1>2, <1>3
  <2>2. writer[v].seq \in (1 .. numbered) \ undone'
    BY <2>1 DEF WriterInv
  <2>3. \A u \in Writer : writer'[u].pc = "clear" => writer[v].seq \notin writer'[u].gone
    BY <1>2, <2>1 DEF WriterInv
  <2> QED BY <2>1, <2>2, <2>3
<1>4. \A u \in Writer : writer'[u].pc = "clear" =>
         writer'[u].gone \subseteq 1 .. numbered /\ writer'[u].gone \cap live = {}
  BY <1>2 DEF WriterInv
<1> QED BY <1>1, <1>3, <1>4 DEF WriterInv

LEMMA AppendFailsStep ==
  ASSUME MemoryInv, WriterInv, NEW w \in Writer, AppendFails(w)
  PROVE  MemoryInv' /\ WriterInv' /\ Later
<1>1. /\ writer' = [writer EXCEPT ![w] = Idle] /\ Disturbing
      /\ numbered' = numbered /\ live' = live /\ memory' = memory /\ undone' = undone
      /\ asked' = asked /\ evidence' = evidence
  BY DEF AppendFails
<1>2. disturbed' \in BOOLEAN /\ (~disturbed' => ~disturbed /\ ~Running)
  BY <1>1, DisturbingType DEF MemoryInv
<1>3. numbered \in Nat
  BY TurnsType DEF MemoryInv
<1>4. MemoryInv'
  BY <1>1, <1>2 DEF MemoryInv
<1>5. WriterInv'
  <2>1. undone' \subseteq 1 .. numbered
    BY <1>1 DEF MemoryInv
  <2>2. \A v \in Writer : v # w /\ writer[v].pc = "push" => writer[v].seq \notin undone'
    BY <1>1 DEF WriterInv
  <2> QED BY <1>1, <2>1, <2>2, IdleWriter
<1>6. Later
  BY <1>1, <1>2, <1>3 DEF Later
<1> QED BY <1>4, <1>5, <1>6

LEMMA PushStep ==
  ASSUME MemoryInv, WriterInv, NEW w \in Writer, Push(w)
  PROVE  MemoryInv' /\ WriterInv' /\ Later
<1>1. /\ writer[w].pc = "push" /\ memory' = Append(memory, writer[w].seq)
      /\ writer' = [writer EXCEPT ![w] = Idle] /\ Disturbing
      /\ numbered' = numbered /\ live' = live /\ undone' = undone
      /\ asked' = asked /\ evidence' = evidence
  BY DEF Push
<1>2. disturbed' \in BOOLEAN /\ (~disturbed' => ~disturbed /\ ~Running)
  BY <1>1, DisturbingType DEF MemoryInv
<1>3. numbered \in Nat
  BY TurnsType DEF MemoryInv
<1>4. writer[w].seq \in (1 .. numbered) \ undone /\ writer[w].seq \in Nat
  BY <1>1, <1>3 DEF WriterInv
<1>5. memory \in Seq(Nat) /\ \A k \in DOMAIN memory : memory[k] \in (1 .. numbered) \ undone
  BY DEF MemoryInv
<1>6. memory' \in Seq(Nat) /\ \A k \in DOMAIN memory' : memory'[k] \in (1 .. numbered) \ undone
  <2> DEFINE n == writer[w].seq
  <2>1. n \in (1 .. numbered) \ undone /\ n \in Nat /\ memory' = Append(memory, n)
    BY <1>1, <1>4
  <2> HIDE DEF n
  <2>2. \A k \in DOMAIN Append(memory, n) : k \in DOMAIN memory \/ k = Len(memory) + 1
    BY <1>5, <2>1
  <2>3. Append(memory, n)[Len(memory) + 1] = n /\ \A k \in DOMAIN memory : Append(memory, n)[k] = memory[k]
    BY <1>5, <2>1
  <2>4. \A k \in DOMAIN Append(memory, n) : Append(memory, n)[k] \in (1 .. numbered) \ undone
    BY <1>5, <2>1, <2>2, <2>3
  <2>5. Append(memory, n) \in Seq(Nat)
    BY <1>5, <2>1
  <2> QED BY <2>1, <2>4, <2>5
<1>7. MemoryInv'
  BY <1>1, <1>2, <1>6 DEF MemoryInv
<1>8. WriterInv'
  <2>1. undone' \subseteq 1 .. numbered
    BY <1>1 DEF MemoryInv
  <2>2. \A v \in Writer : v # w /\ writer[v].pc = "push" => writer[v].seq \notin undone'
    BY <1>1 DEF WriterInv
  <2> QED BY <1>1, <2>1, <2>2, IdleWriter
<1>9. Later
  BY <1>1, <1>2, <1>3 DEF Later
<1> QED BY <1>7, <1>8, <1>9

LEMMA ForgetStoredStep ==
  ASSUME MemoryInv, WriterInv, NEW w \in Writer, ForgetStored(w)
  PROVE  MemoryInv' /\ WriterInv' /\ Later
<1>1. /\ writer[w] = Idle /\ writer' = [writer EXCEPT ![w] = [pc |-> "clear", gone |-> live \ Unpushed]]
      /\ live' = {} /\ Disturbing
      /\ numbered' = numbered /\ memory' = memory /\ undone' = undone
      /\ asked' = asked /\ evidence' = evidence
  BY DEF ForgetStored
<1>2. disturbed' \in BOOLEAN /\ (~disturbed' => ~disturbed /\ ~Running)
  BY <1>1, DisturbingType DEF MemoryInv
<1>3. numbered \in Nat /\ live \subseteq 1 .. numbered
  BY TurnsType DEF MemoryInv
<1>4. MemoryInv'
  BY <1>1, <1>2 DEF MemoryInv
<1>5. /\ DOMAIN writer' = Writer
      /\ \A v \in Writer : v # w => writer'[v] = writer[v]
      /\ writer'[w].pc = "clear" /\ writer'[w].gone = live \ Unpushed
  BY <1>1 DEF WriterInv
<1>6. \A v \in Writer : writer'[v].pc = "push" => v # w /\ writer'[v] = writer[v] /\ writer[v].pc = "push"
  BY <1>5
<1>7. ASSUME NEW v \in Writer, writer'[v].pc = "push"
      PROVE  /\ writer'[v].seq \in (1 .. numbered) \ undone
             /\ \A u \in Writer : writer'[u].pc = "clear" => writer'[v].seq \notin writer'[u].gone
  <2>1. writer[v].pc = "push" /\ writer'[v] = writer[v]
    BY <1>6, <1>7
  <2>2. writer[v].seq \in (1 .. numbered) \ undone
    BY <2>1 DEF WriterInv
  <2>3. \A u \in Writer : writer[u].pc = "clear" => writer[v].seq \notin writer[u].gone
    BY <2>1 DEF WriterInv
  <2>4. writer[v].seq \in Unpushed
    BY <2>1 DEF Unpushed
  <2>5. ASSUME NEW u \in Writer, writer'[u].pc = "clear" PROVE writer[v].seq \notin writer'[u].gone
    <3>1. CASE u = w
      BY <1>5, <2>4, <3>1
    <3>2. CASE u # w
      BY <1>5, <2>3, <2>5, <3>2
    <3> QED BY <3>1, <3>2
  <2> QED BY <2>1, <2>2, <2>5
<1>8. \A u \in Writer : writer'[u].pc = "clear" =>
         writer'[u].gone \subseteq 1 .. numbered /\ writer'[u].gone \cap live' = {}
  <2> SUFFICES ASSUME NEW u \in Writer, writer'[u].pc = "clear"
               PROVE  writer'[u].gone \subseteq 1 .. numbered
    BY <1>1
  <2>1. CASE u = w
    BY <1>3, <1>5, <2>1
  <2>2. CASE u # w
    BY <1>5, <2>2 DEF WriterInv
  <2> QED BY <2>1, <2>2
<1>9. WriterInv'
  BY <1>1, <1>5, <1>7, <1>8 DEF WriterInv
<1>10. Later
  BY <1>1, <1>2, <1>3 DEF Later
<1> QED BY <1>4, <1>9, <1>10

LEMMA ForgetClearStep ==
  ASSUME MemoryInv, WriterInv, NEW w \in Writer, ForgetClear(w)
  PROVE  MemoryInv' /\ WriterInv' /\ Later
<1>1. /\ writer[w].pc = "clear" /\ memory' = <<>> /\ undone' = undone \cup writer[w].gone
      /\ writer' = [writer EXCEPT ![w] = Idle] /\ Disturbing
      /\ numbered' = numbered /\ live' = live
      /\ asked' = asked /\ evidence' = evidence
  BY DEF ForgetClear
<1>2. disturbed' \in BOOLEAN /\ (~disturbed' => ~disturbed /\ ~Running)
  BY <1>1, DisturbingType DEF MemoryInv
<1>3. numbered \in Nat
  BY TurnsType DEF MemoryInv
<1>4. writer[w].gone \subseteq 1 .. numbered /\ writer[w].gone \cap live = {}
  BY <1>1 DEF WriterInv
<1>5. undone' \subseteq 1 .. numbered /\ undone' \cap live = {}
  BY <1>1, <1>4 DEF MemoryInv
<1>6. MemoryInv'
  BY <1>1, <1>2, <1>5 DEF MemoryInv
<1>7. WriterInv'
  <2>1. \A v \in Writer : v # w /\ writer[v].pc = "push" => writer[v].seq \notin undone'
    BY <1>1 DEF WriterInv
  <2> QED BY <1>1, <1>5, <2>1, IdleWriter
<1>8. Later
  BY <1>1, <1>2, <1>3 DEF Later
<1> QED BY <1>6, <1>7, <1>8

LEMMA ConversationStep == MemoryInv /\ WriterInv /\ Conversation => MemoryInv' /\ WriterInv' /\ Later
BY AppendTurnStep, AppendFailsStep, PushStep, ForgetStoredStep, ForgetClearStep DEF Conversation

-------------------------------------------------------------------------------
(* The history of a prompt *)

\* s is the end of t.
Suffix(s, t) ==
  Len(s) <= Len(t) /\ \A i \in 1 .. Len(s) : s[i] = t[Len(t) - Len(s) + i]

LEMMA SuffixElements ==
  ASSUME NEW s \in Seq(Nat), NEW t \in Seq(Nat), Suffix(s, t)
  PROVE  ToSet(s) \subseteq ToSet(t)
<1>1. \A i \in 1 .. Len(s) : Len(t) - Len(s) + i \in DOMAIN t
  BY DEF Suffix
<1>2. \A i \in DOMAIN s : s[i] = t[Len(t) - Len(s) + i] /\ Len(t) - Len(s) + i \in DOMAIN t
  BY <1>1 DEF Suffix
<1>3. \A j \in DOMAIN t : t[j] \in ToSet(t)
  BY DEF ToSet
<1>4. \A i \in DOMAIN s : s[i] \in ToSet(t)
  BY <1>2, <1>3
<1> QED BY <1>4 DEF ToSet

LEMMA SuffixOfSuffix ==
  ASSUME NEW s \in Seq(Nat), NEW t \in Seq(Nat), NEW u \in Seq(Nat), Suffix(s, t), Suffix(t, u)
  PROVE  Suffix(s, u)
<1>1. Len(s) \in Nat /\ Len(t) \in Nat /\ Len(u) \in Nat /\ Len(s) <= Len(t) /\ Len(t) <= Len(u)
  BY DEF Suffix
<1>2. ASSUME NEW i \in 1 .. Len(s) PROVE s[i] = u[Len(u) - Len(s) + i]
  <2> DEFINE j == Len(t) - Len(s) + i
  <2>1. s[i] = t[j]
    BY DEF Suffix
  <2>2. j \in 1 .. Len(t) /\ Len(u) - Len(t) + j = Len(u) - Len(s) + i
    BY <1>1
  <2> HIDE DEF j
  <2>3. t[j] = u[Len(u) - Len(t) + j]
    BY <2>2 DEF Suffix
  <2> QED BY <2>1, <2>2, <2>3
<1> QED BY <1>1, <1>2 DEF Suffix

LEMMA RestIsSuffix ==
  ASSUME NEW t \in Seq(Nat), NEW k \in 1 .. Len(t) + 1
  PROVE  /\ SubSeq(t, k, Len(t)) \in Seq(Nat) /\ Suffix(SubSeq(t, k, Len(t)), t)
         /\ k = Len(t) + 1 => SubSeq(t, k, Len(t)) = <<>>
<1> DEFINE s == SubSeq(t, k, Len(t))
<1>1. Len(t) \in Nat /\ k \in Nat /\ 1 <= k /\ k <= Len(t) + 1
  OBVIOUS
<1>2. s \in Seq(Nat) /\ Len(s) = Len(t) - k + 1 /\ \A i \in 1 .. Len(s) : s[i] = t[k + i - 1]
  <2>1. \A i \in k .. Len(t) : t[i] \in Nat
    BY <1>1
  <2> QED BY <1>1, <2>1, SubSeqProperties
<1> HIDE DEF s
<1>3. \A i \in 1 .. Len(s) : k + i - 1 = Len(t) - Len(s) + i
  BY <1>1, <1>2
<1>4. Suffix(s, t)
  BY <1>1, <1>2, <1>3 DEF Suffix
<1>5. k = Len(t) + 1 => s = <<>>
  BY <1>1, <1>2
<1> QED BY <1>2, <1>4, <1>5 DEF s

LEMMA FromUserIsSuffix ==
  ASSUME NEW t \in Seq(Nat)
  PROVE  FromUser(t) \in Seq(Nat) /\ Suffix(FromUser(t), t)
<1> DEFINE users == {k \in DOMAIN t : Roles[t[k]] = "user"}
<1>1. FromUser(t) = IF users = {} THEN <<>> ELSE SubSeq(t, Min(users), Len(t))
  BY DEF FromUser
<1>2. CASE users = {}
  <2>1. <<>> \in Seq(Nat) /\ Suffix(<<>>, t)
    BY DEF Suffix
  <2> QED BY <1>1, <1>2, <2>1
<1>3. CASE users # {}
  <2>1. users \subseteq Nat /\ users \subseteq 1 .. Len(t)
    OBVIOUS
  <2> HIDE DEF users
  <2>2. Min(users) \in 1 .. Len(t)
    BY <1>3, <2>1, LeastIsMember
  <2>3. Min(users) \in 1 .. Len(t) + 1
    BY <2>2
  <2> QED BY <1>1, <1>3, <2>3, RestIsSuffix
<1> QED BY <1>2, <1>3

LEMMA MessageIsNat ==
  ASSUME NEW n \in DOMAIN Turn
  PROVE  MessageCost(n) \in Nat
<1> DEFINE p == [doc |-> Turn[n], idx |-> 1]
<1>1. Turn[n] \in Doc /\ Len(Passages[Turn[n]]) = 1
  BY TurnsType, AssembleAssumption
<1>2. 1 \in DOMAIN Passages[Turn[n]]
  BY <1>1, EvidenceAssumption
<1>3. At(p) = Passages[Turn[n]][1]
  BY DEF At
<1>4. At(p).first \in Nat /\ At(p).last \in Nat /\ At(p).first <= At(p).last
  BY <1>1, <1>2, <1>3, EvidenceAssumption
<1>5. Size(p) \in Nat
  BY <1>4 DEF Size
<1> HIDE DEF p
<1>6. MessageCost(n) = Overhead + Size(p)
  BY DEF MessageCost, p
<1> QED BY <1>5, <1>6, AssembleAssumption

LEMMA HistoryIsNat ==
  ASSUME NEW kept \in Seq(Nat), \A k \in DOMAIN kept : kept[k] \in DOMAIN Turn
  PROVE  HistoryCost(kept) \in Nat /\ (kept = <<>> => HistoryCost(kept) = 0)
<1> DEFINE costs == [k \in DOMAIN kept |-> MessageCost(kept[k])]
<1>1. \A k \in DOMAIN kept : MessageCost(kept[k]) \in Nat
  BY MessageIsNat
<1>2. DOMAIN kept = 1 .. Len(kept) /\ Len(kept) \in Nat
  OBVIOUS
<1>3. costs \in Seq(Nat) /\ (kept = <<>> => costs = <<>>)
  BY <1>1, <1>2
<1> HIDE DEF costs
<1>4. HistoryCost(kept) = SumOf(costs)
  BY DEF HistoryCost, costs
<1> QED BY <1>3, <1>4, SumOfIsNat

LEMMA FitHistoryIsSuffix ==
  ASSUME NEW t \in Seq(Nat), \A k \in DOMAIN t : t[k] \in DOMAIN Turn, NEW w \in Nat
  PROVE  FitHistory(t, w) \in Seq(Nat) /\ Suffix(FitHistory(t, w), t)
<1> DEFINE cap == (w * HistoryTenths) \div 10
           suffix(k) == SubSeq(t, k, Len(t))
           fits == {k \in 1 .. Len(t) + 1 : HistoryCost(suffix(k)) <= cap}
<1>1. FitHistory(t, w) = FromUser(suffix(Min(fits)))
  BY DEF FitHistory
<1>2. cap \in Nat
  <2>1. w * HistoryTenths \in Nat
    <3>1. HistoryTenths \in Nat
      BY AssembleAssumption
    <3> QED BY <3>1
  <2> DEFINE x == w * HistoryTenths
  <2>2. x \in Nat
    BY <2>1
  <2> HIDE DEF x
  <2>3. x \div 10 \in Nat
    BY <2>2
  <2> QED BY <2>3 DEF x
<1>3. Len(t) + 1 \in fits
  <2>1. Len(t) + 1 \in 1 .. Len(t) + 1
    OBVIOUS
  <2>2. suffix(Len(t) + 1) = <<>>
    BY <2>1, RestIsSuffix
  <2>3. <<>> \in Seq(Nat) /\ \A k \in DOMAIN << >> : <<>>[k] \in DOMAIN Turn
    OBVIOUS
  <2>4. HistoryCost(<<>>) = 0
    BY <2>3, HistoryIsNat
  <2> HIDE DEF cap, suffix
  <2> QED BY <1>2, <2>1, <2>2, <2>4
<1>4. fits \subseteq Nat /\ fits \subseteq 1 .. Len(t) + 1
  OBVIOUS
<1> HIDE DEF fits
<1>5. Min(fits) \in 1 .. Len(t) + 1
  BY <1>3, <1>4, LeastIsMember
<1>6. suffix(Min(fits)) \in Seq(Nat) /\ Suffix(suffix(Min(fits)), t)
  BY <1>5, RestIsSuffix
<1> HIDE DEF suffix
<1>7. FromUser(suffix(Min(fits))) \in Seq(Nat) /\ Suffix(FromUser(suffix(Min(fits))), suffix(Min(fits)))
  BY <1>6, FromUserIsSuffix
<1>8. Suffix(FromUser(suffix(Min(fits))), t)
  BY <1>6, <1>7, SuffixOfSuffix
<1> QED BY <1>1, <1>7, <1>8

LEMMA DropOldestIsSuffix ==
  ASSUME NEW t \in Seq(Nat), t # <<>>
  PROVE  DropOldest(t) \in Seq(Nat) /\ Suffix(DropOldest(t), t)
<1>1. Tail(t) \in Seq(Nat) /\ Suffix(Tail(t), t)
  BY DEF Suffix
<1>2. FromUser(Tail(t)) \in Seq(Nat) /\ Suffix(FromUser(Tail(t)), Tail(t))
  BY <1>1, FromUserIsSuffix
<1> HIDE DEF FromUser
<1>3. Suffix(FromUser(Tail(t)), t)
  BY <1>1, <1>2, SuffixOfSuffix
<1> QED BY <1>2, <1>3 DEF DropOldest

\* The most recent turns of the memory, as many as are kept, are those kept.
LEMMA RecentAreKept ==
  ASSUME NEW s \in Seq(Nat), NEW t \in Seq(Nat), Suffix(s, t)
  PROVE  {t[k] : k \in {i \in DOMAIN t : i > Len(t) - Len(s)}} = ToSet(s)
<1>1. Len(s) \in Nat /\ Len(t) \in Nat /\ Len(s) <= Len(t)
      /\ DOMAIN s = 1 .. Len(s) /\ DOMAIN t = 1 .. Len(t)
  BY DEF Suffix
<1>2. ASSUME NEW k \in DOMAIN t, k > Len(t) - Len(s) PROVE t[k] \in ToSet(s)
  <2>1. PICK i \in 1 .. Len(s) : k = Len(t) - Len(s) + i
    <3>1. k - (Len(t) - Len(s)) \in 1 .. Len(s) /\ k = Len(t) - Len(s) + (k - (Len(t) - Len(s)))
      BY <1>1, <1>2
    <3> QED BY <3>1
  <2>2. s[i] = t[k]
    BY <2>1 DEF Suffix
  <2> QED BY <1>1, <2>2 DEF ToSet
<1>3. ASSUME NEW i \in DOMAIN s
      PROVE  \E k \in DOMAIN t : k > Len(t) - Len(s) /\ t[k] = s[i]
  <2>1. Len(t) - Len(s) + i \in DOMAIN t /\ Len(t) - Len(s) + i > Len(t) - Len(s)
    BY <1>1
  <2>2. s[i] = t[Len(t) - Len(s) + i]
    BY <1>1 DEF Suffix
  <2> QED BY <2>1, <2>2
<1> QED BY <1>2, <1>3 DEF ToSet

-------------------------------------------------------------------------------
(* A prompt being assembled *)

Request ==
  [pc : {"read", "keys", "snapshot", "pack", "answered", "exceeded"}, window : Nat,
   history : Seq(Nat), kept : Seq(Nat), recent : SUBSET Nat, seen : SUBSET Nat, gone : SUBSET Nat]

\* The history read is of numbered turns not gone, and what is kept of it its end.
HistoryInv(a, n, forgotten) ==
  /\ a \in Request /\ Suffix(a.kept, a.history)
  /\ ToSet(a.history) \subseteq (1 .. n) \ a.gone /\ a.gone \subseteq forgotten

\* The ranking is of turns neither gone nor excluded, and each turn of the history
\* that is still stored was excluded or seen.
RankedInv(a, docs, stored_) ==
  /\ \A n \in DOMAIN Turn : Turn[n] \in docs => n \notin a.recent /\ n \notin a.gone
  /\ \A n \in ToSet(a.history) : n \in stored_ => n \in a.recent \/ n \in a.seen

\* What is excluded are the turns kept, while nothing disturbs the assembly.
AskedInv ==
  /\ asked = Idle \/ HistoryInv(asked, numbered, undone)
  /\ Running /\ ~disturbed => memory = asked.history
  /\ asked.pc \in {"snapshot", "pack", "answered"} /\ ~disturbed => asked.recent = ToSet(asked.kept)
  /\ asked.pc \in {"pack", "answered"} => RankedInv(asked, RankedDocs, live)

AssembleInv == PackInv /\ MemoryInv /\ WriterInv /\ AskedInv

LEMMA RequestFields ==
  ASSUME NEW a, NEW n, NEW forgotten, a = Idle \/ HistoryInv(a, n, forgotten), a.pc # "idle"
  PROVE  /\ HistoryInv(a, n, forgotten)
         /\ a.window \in Nat /\ a.history \in Seq(Nat) /\ a.kept \in Seq(Nat)
         /\ a.recent \subseteq Nat /\ a.seen \subseteq Nat
         /\ Suffix(a.kept, a.history) /\ ToSet(a.kept) \subseteq ToSet(a.history)
         /\ ToSet(a.history) \subseteq (1 .. n) \ a.gone /\ a.gone \subseteq forgotten
         /\ \A k \in DOMAIN a.kept : a.kept[k] \in ToSet(a.history)
<1>1. HistoryInv(a, n, forgotten)
  BY DEF Idle
<1>2. /\ a.window \in Nat /\ a.history \in Seq(Nat) /\ a.kept \in Seq(Nat)
      /\ a.recent \subseteq Nat /\ a.seen \subseteq Nat
      /\ Suffix(a.kept, a.history)
      /\ ToSet(a.history) \subseteq (1 .. n) \ a.gone /\ a.gone \subseteq forgotten
  BY <1>1 DEF HistoryInv, Request
<1>3. ToSet(a.kept) \subseteq ToSet(a.history)
  BY <1>2, SuffixElements
<1>4. \A k \in DOMAIN a.kept : a.kept[k] \in ToSet(a.kept)
  BY DEF ToSet
<1> QED BY <1>1, <1>2, <1>3, <1>4

LEMMA EvidenceStays ==
  ASSUME PackInv, UNCHANGED evidence
  PROVE  PackInv' /\ RankedDocs' = RankedDocs
BY DEF PackInv, PackTypes, evidence, RankedDocs

LEMMA TalkStep ==
  ASSUME AssembleInv, Conversation
  PROVE  AssembleInv'
<1>1. MemoryInv' /\ WriterInv' /\ Later
  BY ConversationStep DEF AssembleInv
<1>2. PackInv' /\ RankedDocs' = RankedDocs /\ asked' = asked
  BY <1>1, EvidenceStays DEF AssembleInv, Later
<1>3. /\ numbered \in Nat /\ numbered' \in Nat /\ numbered <= numbered' /\ undone \subseteq undone'
      /\ \A n \in 1 .. numbered : n \in live' => n \in live
      /\ ~disturbed' => ~disturbed /\ ~Running
  BY <1>1, TurnsType DEF Later, AssembleInv, MemoryInv
<1>4. asked = Idle \/ HistoryInv(asked, numbered, undone)
  BY DEF AssembleInv, AskedInv
<1>5. asked' = Idle \/ HistoryInv(asked', numbered', undone')
  <2>1. \A n \in 1 .. numbered : n \in 1 .. numbered'
    BY <1>3
  <2> QED BY <1>2, <1>3, <1>4, <2>1 DEF HistoryInv
<1>6. Running' /\ ~disturbed' => memory' = asked'.history
  BY <1>2, <1>3 DEF Running
<1>7. asked'.pc \in {"snapshot", "pack", "answered"} /\ ~disturbed' => asked'.recent = ToSet(asked'.kept)
  BY <1>2, <1>3 DEF AssembleInv, AskedInv
<1>8. asked'.pc \in {"pack", "answered"} => RankedInv(asked', RankedDocs', live')
  <2> SUFFICES ASSUME asked.pc \in {"pack", "answered"} PROVE RankedInv(asked, RankedDocs, live')
    BY <1>2
  <2>1. RankedInv(asked, RankedDocs, live)
    BY DEF AssembleInv, AskedInv
  <2>2. ToSet(asked.history) \subseteq 1 .. numbered
    BY <1>4, RequestFields
  <2> QED BY <1>3, <2>1, <2>2 DEF RankedInv
<1> QED BY <1>1, <1>2, <1>5, <1>6, <1>7, <1>8 DEF AssembleInv, AskedInv

LEMMA ResumeStep ==
  ASSUME AssembleInv, Resume
  PROVE  AssembleInv'
<1>1. /\ memory' = Sorted(live, LAMBDA m, n : m < n)
      /\ writer' = [w \in Writer |-> Idle] /\ asked' = Idle /\ phase' = "packed"
      /\ numbered' = numbered /\ live' = live /\ undone' = undone /\ disturbed' = disturbed
      /\ budget' = budget /\ drift' = drift /\ ranked' = ranked /\ todo' = todo
      /\ spans' = spans /\ blocks' = blocks /\ used' = used /\ cursor' = cursor
  BY DEF Resume
<1>2. PackInv'
  BY <1>1 DEF AssembleInv, PackInv, PackTypes, RankedDocs
<1>3. MemoryInv'
  <2>1. numbered \in Nat /\ live \subseteq 1 .. numbered /\ undone \cap live = {}
    BY TurnsType DEF AssembleInv, MemoryInv
  <2>2. live \subseteq Nat
    BY <2>1
  <2>3. IsFiniteSet(live)
    <3>1. \A n \in Nat : IsFiniteSet(1 .. n)
      BY FS_Interval
    <3>2. IsFiniteSet(1 .. numbered)
      BY <2>1, <3>1
    <3> QED BY <2>1, <3>2, FS_Subset
  <2> DEFINE order == Sorted(live, LAMBDA m, n : m < n)
  <2>4. order \in [1 .. Cardinality(live) -> live] /\ Cardinality(live) \in Nat
    BY <2>2, <2>3, NumbersSorted
  <2> HIDE DEF order
  <2>5. order \in Seq(Nat) /\ \A k \in DOMAIN order : order[k] \in live
    <3> DEFINE c == Cardinality(live)
    <3>1. c \in Nat /\ DOMAIN order = 1 .. c /\ \A k \in 1 .. c : order[k] \in live
      BY <2>4
    <3>2. order \in [1 .. c -> Nat]
      BY <2>2, <2>4
    <3> HIDE DEF c
    <3>3. order \in Seq(Nat)
      BY <3>1, <3>2
    <3> QED BY <3>1, <3>3
  <2>6. memory' = order
    BY <1>1 DEF order
  <2> QED BY <1>1, <2>1, <2>5, <2>6 DEF AssembleInv, MemoryInv
<1>4. WriterInv'
  BY <1>1 DEF WriterInv, Idle
<1>5. AskedInv'
  BY <1>1 DEF AskedInv, Idle, Running
<1> QED BY <1>2, <1>3, <1>4, <1>5 DEF AssembleInv

LEMMA AskStep ==
  ASSUME AssembleInv, NEW w \in Windows, Ask(w)
  PROVE  AssembleInv'
<1> DEFINE a == [pc |-> "read", window |-> w, history |-> memory,
                 kept |-> FitHistory(memory, w), recent |-> {}, seen |-> {},
                 gone |-> undone]
<1>1. /\ asked' = a /\ disturbed' \in BOOLEAN
      /\ numbered' = numbered /\ live' = live /\ memory' = memory /\ writer' = writer
      /\ undone' = undone /\ evidence' = evidence
  BY DEF Ask, conversation
<1>2. /\ numbered \in 0 .. Len(Turn) /\ live \subseteq 1 .. numbered /\ undone \subseteq 1 .. numbered
      /\ memory \in Seq(Nat) /\ \A k \in DOMAIN memory : memory[k] \in (1 .. numbered) \ undone
      /\ undone \cap live = {}
  BY DEF AssembleInv, MemoryInv
<1>3. numbered \in Nat /\ \A n \in 1 .. numbered : n \in DOMAIN Turn
  BY <1>2, TurnsType
<1>4. FitHistory(memory, w) \in Seq(Nat) /\ Suffix(FitHistory(memory, w), memory) /\ w \in Nat
  <2>1. w \in Nat /\ \A k \in DOMAIN memory : memory[k] \in DOMAIN Turn
    BY <1>2, <1>3, AssembleAssumption
  <2> QED BY <1>2, <2>1, FitHistoryIsSuffix
<1>5. ToSet(memory) \subseteq (1 .. numbered) \ undone
  BY <1>2 DEF ToSet
<1>6. /\ a.pc = "read" /\ a.window = w /\ a.history = memory /\ a.gone = undone
      /\ a.kept = FitHistory(memory, w)
  OBVIOUS
<1>7. a \in Request
  <2>1. undone \in SUBSET Nat /\ {} \in SUBSET Nat
    BY <1>2, <1>3
  <2> DEFINE fit == FitHistory(memory, w)
  <2>2. fit \in Seq(Nat)
    BY <1>4
  <2> HIDE DEF fit
  <2>3. [pc |-> "read", window |-> w, history |-> memory, kept |-> fit, recent |-> {}, seen |-> {},
         gone |-> undone] \in Request
    BY <1>2, <1>4, <2>1, <2>2 DEF Request
  <2> QED BY <2>3 DEF fit
<1> HIDE DEF a
<1>8. HistoryInv(a, numbered, undone)
  BY <1>4, <1>5, <1>6, <1>7 DEF HistoryInv
<1>9. AskedInv'
  BY <1>1, <1>6, <1>8 DEF AskedInv, Running
<1>10. PackInv' /\ MemoryInv' /\ WriterInv'
  BY <1>1, EvidenceStays DEF AssembleInv, MemoryInv, WriterInv
<1> QED BY <1>9, <1>10 DEF AssembleInv

\* What an assembler's step leaves of the conversation.
LEMMA ConversationStays ==
  ASSUME MemoryInv, WriterInv, UNCHANGED conversation, UNCHANGED <<undone, disturbed>>
  PROVE  MemoryInv' /\ WriterInv'
BY DEF MemoryInv, WriterInv, conversation

LEMMA MeasureStep ==
  ASSUME AssembleInv, Measure
  PROVE  AssembleInv'
<1>1. /\ asked.pc = "read" /\ budget' = EvidenceTokens(asked.window, asked.kept)
      /\ asked' = [asked EXCEPT !.pc = "keys"]
      /\ UNCHANGED conversation /\ undone' = undone /\ disturbed' = disturbed
      /\ phase' = phase /\ drift' = drift /\ ranked' = ranked /\ todo' = todo /\ spans' = spans
      /\ blocks' = blocks /\ used' = used /\ cursor' = cursor
      /\ numbered' = numbered /\ live' = live /\ memory' = memory
  BY DEF Measure, conversation
<1>2. /\ HistoryInv(asked, numbered, undone)
      /\ asked.window \in Nat /\ asked.kept \in Seq(Nat)
      /\ ToSet(asked.history) \subseteq (1 .. numbered) \ asked.gone
      /\ \A k \in DOMAIN asked.kept : asked.kept[k] \in ToSet(asked.history)
  BY <1>1, RequestFields DEF AssembleInv, AskedInv
<1>3. budget' \in Nat
  <2>1. numbered \in 0 .. Len(Turn)
    BY DEF AssembleInv, MemoryInv
  <2>2. \A n \in 1 .. numbered : n \in DOMAIN Turn
    BY <2>1, TurnsType
  <2>3. HistoryCost(asked.kept) \in Nat
    BY <1>2, <2>2, HistoryIsNat
  <2> DEFINE h == HistoryCost(asked.kept)
             w == asked.window
  <2>4. h \in Nat /\ w \in Nat
    BY <1>2, <2>3
  <2> HIDE DEF h, w
  <2>5. Generation(w) \in Nat
    <3>1. w \div 2 \in Nat /\ w \div 4 \in Nat /\ MinAnswer \in Nat /\ MaxAnswer \in Nat
      BY <2>4, AssembleAssumption
    <3> QED BY <3>1 DEF Generation, Least, Most
  <2>6. Margin(w) \in Nat
    <3>1. w \div 32 \in Nat /\ MinMargin \in Nat
      BY <2>4, AssembleAssumption
    <3> QED BY <3>1 DEF Margin, Most
  <2> DEFINE g == Generation(w)
             m == Margin(w)
  <2>7. EvidenceTokens(w, asked.kept) =
          Minus(w, SystemCost + Overhead + h + QuestionCost + Overhead + g + m)
    BY DEF EvidenceTokens, h
  <2> HIDE DEF g, m
  <2>8. Minus(w, SystemCost + Overhead + h + QuestionCost + Overhead + g + m) \in Nat
    <3>1. SystemCost \in Nat /\ Overhead \in Nat /\ QuestionCost \in Nat /\ g \in Nat /\ m \in Nat
      BY <2>5, <2>6, AssembleAssumption DEF g, m
    <3> QED BY <2>4, <3>1 DEF Minus
  <2> QED BY <1>1, <2>7, <2>8 DEF w
<1>4. PackInv'
  BY <1>1, <1>3 DEF AssembleInv, PackInv, PackTypes, RankedDocs
<1>5. /\ asked'.pc = "keys" /\ asked'.history = asked.history
      /\ HistoryInv(asked', numbered, undone)
  BY <1>1, <1>2 DEF HistoryInv, Request
<1>6. AskedInv'
  BY <1>1, <1>5 DEF AssembleInv, AskedInv, Running
<1> QED BY <1>1, <1>4, <1>6, ConversationStays DEF AssembleInv

LEMMA RecentKeysStep ==
  ASSUME AssembleInv, RecentKeys
  PROVE  AssembleInv'
<1> DEFINE recent == {memory[k] : k \in {i \in DOMAIN memory : i > Len(memory) - Len(asked.kept)}}
<1>1. /\ asked.pc = "keys" /\ asked' = [asked EXCEPT !.pc = "snapshot", !.recent = recent]
      /\ UNCHANGED conversation /\ undone' = undone /\ disturbed' = disturbed /\ UNCHANGED evidence
      /\ numbered' = numbered /\ live' = live /\ memory' = memory
  BY DEF RecentKeys, conversation
<1>2. /\ HistoryInv(asked, numbered, undone) /\ asked.kept \in Seq(Nat) /\ asked.history \in Seq(Nat)
      /\ Suffix(asked.kept, asked.history)
  BY <1>1, RequestFields DEF AssembleInv, AskedInv
<1>3. recent \subseteq Nat
  BY DEF AssembleInv, MemoryInv
<1>4. ~disturbed => memory = asked.history
  BY <1>1 DEF AssembleInv, AskedInv, Running
<1>5. ~disturbed => recent = ToSet(asked.kept)
  BY <1>2, <1>4, RecentAreKept
<1> HIDE DEF recent
<1>6. /\ asked'.pc = "snapshot" /\ asked'.history = asked.history /\ asked'.kept = asked.kept
      /\ asked'.recent = recent /\ HistoryInv(asked', numbered, undone)
  BY <1>1, <1>2, <1>3 DEF HistoryInv, Request
<1>7. AskedInv'
  BY <1>1, <1>4, <1>5, <1>6 DEF AskedInv, Running
<1> QED BY <1>1, <1>7, EvidenceStays, ConversationStays DEF AssembleInv

LEMMA RetrieveEvidenceStep ==
  ASSUME AssembleInv, RetrieveEvidence
  PROVE  AssembleInv'
<1> DEFINE seen_ == {n \in live : Retrievable(Turn[n])}
           places == {k \in DOMAIN Ranking : Retrievable(Ranking[k].doc)}
           found == Subsequence(Ranking, places)
<1>1. /\ asked.pc = "snapshot" /\ asked' = [asked EXCEPT !.pc = "pack", !.seen = seen_]
      /\ ranked' = found /\ todo' = found
      /\ phase' = "merge" /\ spans' = <<>> /\ blocks' = <<>> /\ used' = 0
      /\ cursor' = FirstPass /\ budget' = budget /\ drift' = drift
      /\ UNCHANGED conversation /\ undone' = undone /\ disturbed' = disturbed
      /\ numbered' = numbered /\ live' = live /\ memory' = memory
  BY DEF RetrieveEvidence, conversation
<1>2. /\ HistoryInv(asked, numbered, undone) /\ asked.gone \subseteq undone
      /\ ToSet(asked.history) \subseteq (1 .. numbered) \ asked.gone
  BY <1>1, RequestFields DEF AssembleInv, AskedInv
<1>3. /\ numbered \in Nat /\ live \subseteq 1 .. numbered /\ undone \cap live = {}
      /\ \A n \in 1 .. numbered : n \in DOMAIN Turn
  BY TurnsType DEF AssembleInv, MemoryInv
<1>4. /\ found \in Seq(RankedPassage)
      /\ \A k \in DOMAIN found : \E i \in places : found[k] = Ranking[i]
  <2>1. Ranking \in Seq(RankedPassage)
    BY AssembleAssumption
  <2>2. places \in SUBSET (DOMAIN Ranking)
    OBVIOUS
  <2> HIDE DEF places
  <2>3. found \in Seq(RankedPassage)
    BY <2>1, <2>2, PartOfSeq
  <2>4. \A k \in DOMAIN found : \E i \in places : found[k] = Ranking[i]
    BY <2>1, <2>2, PartOfSeq
  <2> QED BY <2>3, <2>4
<1>5. \A k \in DOMAIN found : Retrievable(found[k].doc)
  BY <1>4
<1> HIDE DEF found, places
<1>6. PackInv'
  <2>1. FirstPass \in [pass : 1 .. Passes, at : Nat \ {0}, grew : BOOLEAN]
    BY DEF FirstPass, Passes
  <2>2. PackTypes'
    BY <1>1, <1>4, <2>1 DEF AssembleInv, PackInv, PackTypes
  <2>3. found \in Seq(PassageOf(RankedDocs'))
    BY <1>1, <1>4, PassagesOfDocs DEF RankedDocs
  <2> QED BY <1>1, <2>2, <2>3 DEF PackInv
<1>7. \A d \in RankedDocs' : Retrievable(d)
  BY <1>1, <1>5 DEF RankedDocs
<1>8. \A n \in DOMAIN Turn : Turn[n] \in RankedDocs' => n \in live /\ n \notin asked.recent
  BY <1>7 DEF Retrievable
<1>9. \A n \in live : n \notin asked.recent => n \in seen_
  <2>1. \A n \in live : n \in DOMAIN Turn
    BY <1>3
  <2>2. \A m, n \in DOMAIN Turn : Turn[m] = Turn[n] => m = n
    BY AssembleAssumption
  <2> QED BY <2>1, <2>2 DEF Retrievable
<1>10. seen_ \subseteq Nat
  <2>1. live \subseteq Nat
    BY <1>3
  <2>2. \A n \in seen_ : n \in live
    OBVIOUS
  <2> HIDE DEF seen_
  <2> QED BY <2>1, <2>2
<1> HIDE DEF seen_
<1>11. /\ asked'.pc = "pack" /\ asked'.history = asked.history /\ asked'.kept = asked.kept
       /\ asked'.recent = asked.recent /\ asked'.gone = asked.gone /\ asked'.seen = seen_
       /\ HistoryInv(asked', numbered, undone)
  BY <1>1, <1>2, <1>10 DEF HistoryInv, Request
<1>12. RankedInv(asked', RankedDocs', live')
  BY <1>1, <1>2, <1>3, <1>8, <1>9, <1>11 DEF RankedInv
<1>13. AskedInv'
  BY <1>1, <1>11, <1>12 DEF AssembleInv, AskedInv, Running
<1> QED BY <1>1, <1>6, <1>13, ConversationStays DEF AssembleInv

LEMMA RenderedIsNat ==
  ASSUME NEW D, NEW bs \in Seq(Block(D)), drift \in Nat
  PROVE  Rendered(bs) \in Nat
<1> DEFINE counts == [k \in DOMAIN bs |-> Joint + bs[k].tokens + drift]
<1>1. Joint \in Nat /\ Preamble \in Nat
  BY EvidenceAssumption
<1>2. \A k \in DOMAIN bs : bs[k].tokens \in Nat
  BY BlockFields
<1>3. \A k \in DOMAIN bs : Joint + bs[k].tokens + drift \in Nat
  BY <1>1, <1>2
<1>4. DOMAIN bs = 1 .. Len(bs) /\ Len(bs) \in Nat
  OBVIOUS
<1>5. counts \in Seq(Nat)
  BY <1>3, <1>4
<1> HIDE DEF counts
<1>6. SumOf(counts) \in Nat
  BY <1>5, SumOfIsNat
<1>7. Rendered(bs) = IF bs = <<>> THEN 0 ELSE Preamble + SumOf(counts)
  BY DEF Rendered, counts
<1> QED BY <1>1, <1>6, <1>7

LEMMA OverIsNat ==
  ASSUME PackInv, MemoryInv, asked.kept \in Seq(Nat), asked.window \in Nat,
         ToSet(asked.history) \subseteq (1 .. numbered) \ asked.gone,
         \A k \in DOMAIN asked.kept : asked.kept[k] \in ToSet(asked.history)
  PROVE  Over \in Nat
<1> DEFINE h == HistoryCost(asked.kept)
           r == Rendered(blocks)
           l == Limit(asked.window)
           m == Template * (Len(asked.kept) + IF blocks # <<>> /\ Separate THEN 3 ELSE 2)
<1>1. h \in Nat
  <2>1. \A n \in 1 .. numbered : n \in DOMAIN Turn
    BY TurnsType DEF MemoryInv
  <2> QED BY <2>1, HistoryIsNat
<1>2. r \in Nat
  BY RenderedIsNat DEF PackInv, PackTypes
<1>3. l \in Nat
  <2> DEFINE w == asked.window
  <2>1. w \in Nat
    OBVIOUS
  <2> HIDE DEF w
  <2>2. Generation(w) \in Nat
    <3>1. w \div 2 \in Nat /\ w \div 4 \in Nat /\ MinAnswer \in Nat /\ MaxAnswer \in Nat
      BY <2>1, AssembleAssumption
    <3> QED BY <3>1 DEF Generation, Least, Most
  <2> DEFINE g == Generation(w)
  <2>3. g \in Nat
    BY <2>2
  <2> HIDE DEF g
  <2>4. Minus(w, g) \in Nat
    BY <2>1, <2>3 DEF Minus
  <2> QED BY <2>4 DEF Limit, g, w
<1>4. m \in Nat
  <2> DEFINE more == IF blocks # <<>> /\ Separate THEN 3 ELSE 2
             c == Len(asked.kept) + more
  <2>1. c \in Nat /\ Template \in Nat
    <3>1. Len(asked.kept) \in Nat
      OBVIOUS
    <3>2. more \in Nat
      OBVIOUS
    <3>3. Template \in Nat
      BY AssembleAssumption
    <3> HIDE DEF more
    <3> QED BY <3>1, <3>2, <3>3
  <2> HIDE DEF c
  <2>2. Template * c \in Nat
    BY <2>1
  <2> QED BY <2>2 DEF c, more
<1>5. PromptTokens(asked.kept) \in Nat
  <2>1. PromptTokens(asked.kept) =
          SystemCost + Overhead + h + QuestionCost + Overhead
          + (IF blocks # <<>> THEN Policy + r ELSE 0)
          + (IF blocks # <<>> /\ Separate THEN Overhead ELSE 0) + m
    BY DEF PromptTokens
  <2> HIDE DEF h, r, m
  <2>2. SystemCost \in Nat /\ Overhead \in Nat /\ QuestionCost \in Nat /\ Policy \in Nat
    BY AssembleAssumption
  <2> QED BY <1>1, <1>2, <1>4, <2>1, <2>2
<1> DEFINE t == PromptTokens(asked.kept)
<1>6. t \in Nat
  BY <1>5
<1> HIDE DEF t, l
<1>7. Over = Minus(t, l)
  BY DEF Over, t, l
<1> QED BY <1>3, <1>6, <1>7 DEF Minus

LEMMA PackEvidenceStep ==
  ASSUME AssembleInv, PackEvidence
  PROVE  AssembleInv'
<1>1. /\ Pack /\ UNCHANGED conversation /\ UNCHANGED <<undone, disturbed>> /\ asked' = asked
      /\ numbered' = numbered /\ live' = live /\ memory' = memory
      /\ undone' = undone /\ disturbed' = disturbed
  BY DEF PackEvidence, conversation, assembling
<1>2. PackInv' /\ RankedDocs' = RankedDocs
  BY <1>1, PackKeeps DEF AssembleInv, RankedDocs
<1>3. AskedInv'
  BY <1>1, <1>2 DEF AssembleInv, AskedInv, Running
<1> QED BY <1>1, <1>2, <1>3, ConversationStays DEF AssembleInv

LEMMA AnswerStep ==
  ASSUME AssembleInv, Answer
  PROVE  AssembleInv'
<1>1. /\ asked.pc = "pack" /\ asked' = [asked EXCEPT !.pc = "answered"]
      /\ UNCHANGED conversation /\ undone' = undone /\ disturbed' = disturbed /\ UNCHANGED evidence
      /\ numbered' = numbered /\ live' = live /\ memory' = memory
  BY DEF Answer, Packed, conversation
<1>2. HistoryInv(asked, numbered, undone) /\ RankedInv(asked, RankedDocs, live)
  BY <1>1, RequestFields DEF AssembleInv, AskedInv
<1>3. /\ asked'.pc = "answered" /\ asked'.history = asked.history /\ asked'.kept = asked.kept
      /\ asked'.recent = asked.recent /\ asked'.gone = asked.gone /\ asked'.seen = asked.seen
      /\ HistoryInv(asked', numbered, undone)
  BY <1>1, <1>2 DEF HistoryInv, Request
<1>4. PackInv' /\ RankedDocs' = RankedDocs
  BY <1>1, EvidenceStays DEF AssembleInv
<1>5. RankedInv(asked', RankedDocs, live)
  BY <1>2, <1>3 DEF RankedInv
<1>6. AskedInv'
  BY <1>1, <1>3, <1>4, <1>5 DEF AssembleInv, AskedInv, Running
<1> QED BY <1>1, <1>4, <1>6, ConversationStays DEF AssembleInv

LEMMA ShrinkStep ==
  ASSUME AssembleInv, Shrink
  PROVE  AssembleInv'
<1>1. /\ asked.pc = "pack" /\ asked' = [asked EXCEPT !.pc = "keys"]
      /\ budget' = Minus(budget, Most(Over, MinShrink))
      /\ UNCHANGED conversation /\ undone' = undone /\ disturbed' = disturbed
      /\ phase' = phase /\ drift' = drift /\ ranked' = ranked /\ todo' = todo /\ spans' = spans
      /\ blocks' = blocks /\ used' = used /\ cursor' = cursor
      /\ numbered' = numbered /\ live' = live /\ memory' = memory /\ Over > 0
  BY DEF Shrink, Packed, conversation
<1>2. HistoryInv(asked, numbered, undone) /\ asked.kept \in Seq(Nat) /\ asked.window \in Nat
      /\ ToSet(asked.history) \subseteq (1 .. numbered) \ asked.gone
      /\ \A k \in DOMAIN asked.kept : asked.kept[k] \in ToSet(asked.history)
  BY <1>1, RequestFields DEF AssembleInv, AskedInv
<1>3. budget' \in Nat
  <2>1. Over \in Nat
    BY <1>2, OverIsNat DEF AssembleInv
  <2>2. Most(Over, MinShrink) \in Nat /\ budget \in Nat
    BY <2>1, AssembleAssumption DEF Most, AssembleInv, PackInv, PackTypes
  <2> DEFINE m == Most(Over, MinShrink)
  <2> HIDE DEF m
  <2>3. Minus(budget, m) \in Nat
    BY <2>2 DEF Minus, m
  <2> QED BY <1>1, <2>3 DEF m
<1>4. PackInv'
  BY <1>1, <1>3 DEF AssembleInv, PackInv, PackTypes, RankedDocs
<1>5. /\ asked'.pc = "keys" /\ asked'.history = asked.history
      /\ HistoryInv(asked', numbered, undone)
  BY <1>1, <1>2 DEF HistoryInv, Request
<1>6. AskedInv'
  BY <1>1, <1>5 DEF AssembleInv, AskedInv, Running
<1> QED BY <1>1, <1>4, <1>6, ConversationStays DEF AssembleInv

LEMMA DropTurnStep ==
  ASSUME AssembleInv, DropTurn
  PROVE  AssembleInv'
<1>1. /\ asked.pc = "pack" /\ asked.kept # <<>>
      /\ asked' = [asked EXCEPT !.pc = "read", !.kept = DropOldest(asked.kept)]
      /\ UNCHANGED conversation /\ undone' = undone /\ disturbed' = disturbed /\ UNCHANGED evidence
      /\ numbered' = numbered /\ live' = live /\ memory' = memory
  BY DEF DropTurn, Packed, conversation
<1>2. HistoryInv(asked, numbered, undone) /\ asked.kept \in Seq(Nat) /\ asked.history \in Seq(Nat)
      /\ Suffix(asked.kept, asked.history)
  BY <1>1, RequestFields DEF AssembleInv, AskedInv
<1> DEFINE kept == DropOldest(asked.kept)
<1>3. kept \in Seq(Nat) /\ Suffix(kept, asked.history)
  <2>1. DropOldest(asked.kept) \in Seq(Nat) /\ Suffix(DropOldest(asked.kept), asked.kept)
    BY <1>1, <1>2, DropOldestIsSuffix
  <2> QED BY <1>2, <2>1, SuffixOfSuffix
<1> HIDE DEF kept
<1>4. asked' = [asked EXCEPT !.pc = "read", !.kept = kept]
  BY <1>1 DEF kept
<1>5. /\ asked'.pc = "read" /\ asked'.history = asked.history
      /\ HistoryInv(asked', numbered, undone)
  BY <1>2, <1>3, <1>4 DEF HistoryInv, Request
<1>6. AskedInv'
  BY <1>1, <1>5 DEF AssembleInv, AskedInv, Running
<1> QED BY <1>1, <1>6, EvidenceStays, ConversationStays DEF AssembleInv

LEMMA ExceedStep ==
  ASSUME AssembleInv, Exceed
  PROVE  AssembleInv'
<1>1. /\ asked.pc = "pack" /\ asked' = [asked EXCEPT !.pc = "exceeded"]
      /\ UNCHANGED conversation /\ undone' = undone /\ disturbed' = disturbed /\ UNCHANGED evidence
      /\ numbered' = numbered /\ live' = live /\ memory' = memory
  BY DEF Exceed, Packed, conversation
<1>2. HistoryInv(asked, numbered, undone)
  BY <1>1, RequestFields DEF AssembleInv, AskedInv
<1>3. asked'.pc = "exceeded" /\ HistoryInv(asked', numbered, undone)
  BY <1>1, <1>2 DEF HistoryInv, Request
<1>4. AskedInv'
  BY <1>1, <1>3 DEF AssembleInv, AskedInv, Running
<1> QED BY <1>1, <1>4, EvidenceStays, ConversationStays DEF AssembleInv

LEMMA AssembleStart == InitAssembly => AssembleInv
<1> SUFFICES ASSUME InitAssembly PROVE AssembleInv
  OBVIOUS
<1>1. PackInv
  <2>1. FirstPass \in [pass : 1 .. Passes, at : Nat \ {0}, grew : BOOLEAN]
    BY DEF FirstPass, Passes
  <2>2. drift \in Nat
    BY EvidenceAssumption DEF InitAssembly, InitPacker
  <2> QED BY <2>1, <2>2 DEF InitAssembly, InitPacker, PackInv, PackTypes
<1>2. MemoryInv
  <2>1. numbered = 0 /\ live = {} /\ memory = <<>> /\ undone = {} /\ disturbed = FALSE
    BY DEF InitAssembly
  <2>2. 0 \in 0 .. Len(Turn) /\ <<>> \in Seq(Nat) /\ DOMAIN << >> = {}
    BY TurnsType
  <2> QED BY <2>1, <2>2 DEF MemoryInv
<1>3. WriterInv
  BY DEF InitAssembly, WriterInv, Idle
<1>4. AskedInv
  BY DEF InitAssembly, AskedInv, Idle, Running
<1> QED BY <1>1, <1>2, <1>3, <1>4 DEF AssembleInv

LEMMA AssembleStep == AssembleInv /\ [NextAssembly]_assemblyVars => AssembleInv'
<1> SUFFICES ASSUME AssembleInv, [NextAssembly]_assemblyVars PROVE AssembleInv'
  OBVIOUS
<1>1. CASE Assembler
  BY <1>1, MeasureStep, RecentKeysStep, RetrieveEvidenceStep, PackEvidenceStep, AnswerStep,
     ShrinkStep, DropTurnStep, ExceedStep DEF Assembler
<1>2. CASE Conversation
  BY <1>2, TalkStep
<1>3. CASE Resume
  BY <1>3, ResumeStep
<1>4. CASE \E w \in Windows : Ask(w)
  BY <1>4, AskStep
<1>5. CASE UNCHANGED assemblyVars
  <2>1. /\ UNCHANGED evidence /\ UNCHANGED conversation /\ UNCHANGED <<undone, disturbed>>
        /\ asked' = asked /\ numbered' = numbered /\ live' = live /\ memory' = memory
        /\ undone' = undone /\ disturbed' = disturbed
    BY <1>5 DEF assemblyVars, conversation, assembling
  <2>2. PackInv' /\ RankedDocs' = RankedDocs
    BY <2>1, EvidenceStays DEF AssembleInv
  <2>3. AskedInv'
    BY <2>1, <2>2 DEF AssembleInv, AskedInv, Running
  <2> QED BY <2>1, <2>2, <2>3, ConversationStays DEF AssembleInv
<1> QED BY <1>1, <1>2, <1>3, <1>4, <1>5 DEF NextAssembly

LEMMA Assembling == SpecAssembly => []AssembleInv
BY AssembleStart, AssembleStep, PTL DEF SpecAssembly

\* A block in the evidence is of a document of the ranking.
LEMMA EvidenceIsRanked ==
  ASSUME PackInv, NEW d, OfDocument(d) # {}
  PROVE  d \in RankedDocs
<1>1. PICK k \in DOMAIN blocks : blocks[k].span.doc = d
  BY DEF OfDocument
<1>2. blocks[k] \in Block(RankedDocs)
  BY DEF PackInv
<1>3. blocks[k].span \in Span(RankedDocs)
  BY <1>2, BlockFields
<1> QED BY <1>1, <1>3, SpanFields

\* Every value of an assembly has its type: the memory and the deletions are of
\* numbered turns.
THEOREM AssemblyTypes == SpecAssembly => []AssembleTypeOK
<1>1. AssembleInv => AssembleTypeOK
  <2> SUFFICES ASSUME AssembleInv PROVE AssembleTypeOK
    OBVIOUS
  <2>1. memory \in Seq(1 .. numbered)
    BY DEF AssembleInv, MemoryInv
  <2>2. asked.pc \in {"idle", "read", "keys", "snapshot", "pack", "answered", "exceeded"}
    BY DEF AssembleInv, AskedInv, HistoryInv, Request, Idle
  <2> QED BY <2>1, <2>2 DEF AssembleTypeOK, AssembleInv, MemoryInv
<1> QED BY <1>1, Assembling, PTL

\* A turn of the history is repeated verbatim or within reach of retrieval, and
\* not both, for any conversation, window and tokenizer: the keys excluded when
\* evidence is retrieved (RecentKeys) are still those of the turns kept when the
\* prompt is answered, after every Shrink and DropTurn.
THEOREM TurnsAppearOnce == SpecAssembly => []TurnsOnce
<1>1. AssembleInv => TurnsOnce
  <2> SUFFICES ASSUME AssembleInv, asked.pc = "answered", ~disturbed, NEW n \in ToSet(asked.history)
               PROVE  /\ n \in ToSet(asked.kept) => ~InEvidence(n)
                      /\ n \in live => n \in ToSet(asked.kept) \cup asked.seen
    BY DEF TurnsOnce, Answered
  <2>1. asked.recent = ToSet(asked.kept) /\ RankedInv(asked, RankedDocs, live)
    BY DEF AssembleInv, AskedInv
  <2>2. n \in DOMAIN Turn
    <3>1. ToSet(asked.history) \subseteq 1 .. numbered
      BY RequestFields DEF AssembleInv, AskedInv
    <3> QED BY <3>1, TurnsType DEF AssembleInv, MemoryInv
  <2>3. InEvidence(n) => Turn[n] \in RankedDocs
    BY EvidenceIsRanked DEF AssembleInv, InEvidence
  <2> QED BY <2>1, <2>2, <2>3 DEF RankedInv
<1> QED BY <1>1, Assembling, PTL

\* A turn forgotten before the question is asked comes back in no answer, whoever
\* records, forgets, fails or restarts meanwhile: forget takes it from the store
\* before the process, and what is restored or retrieved is what the store has.
THEOREM ForgottenForGood == SpecAssembly => []ForgottenStaysOut
<1>1. AssembleInv => ForgottenStaysOut
  <2> SUFFICES ASSUME AssembleInv, asked.pc = "answered", NEW n \in asked.gone
               PROVE  n \notin ToSet(asked.kept) /\ ~InEvidence(n)
    BY DEF ForgottenStaysOut, Answered
  <2>1. RankedInv(asked, RankedDocs, live)
    BY DEF AssembleInv, AskedInv
  <2>2. /\ ToSet(asked.history) \subseteq (1 .. numbered) \ asked.gone /\ asked.gone \subseteq undone
        /\ ToSet(asked.kept) \subseteq ToSet(asked.history)
    BY RequestFields DEF AssembleInv, AskedInv
  <2>3. n \in DOMAIN Turn
    BY <2>2, TurnsType DEF AssembleInv, MemoryInv
  <2>4. InEvidence(n) => Turn[n] \in RankedDocs
    BY EvidenceIsRanked DEF AssembleInv, InEvidence
  <2> QED BY <2>1, <2>2, <2>3, <2>4 DEF RankedInv
<1> QED BY <1>1, Assembling, PTL

-------------------------------------------------------------------------------
(* The best first (Retrieve) *)

\* f[k] is the k best of S.
Picks(f, S, weight) ==
  f = [k \in 0 .. Cardinality(S) |->
          IF k = 0 THEN <<>>
          ELSE Append(f[k - 1], CHOOSE x \in S \ ToSet(f[k - 1]) :
                                    \A y \in S \ ToSet(f[k - 1]) : weight[y] <= weight[x])]

LEMMA PicksExist ==
  ASSUME NEW S, IsFiniteSet(S), NEW weight
  PROVE  \E f : Picks(f, S, weight)
<1> DEFINE next(s) == Append(s, CHOOSE x \in S \ ToSet(s) :
                                    \A y \in S \ ToSet(s) : weight[y] <= weight[x])
           Good(f, m) == f = [k \in 0 .. m |-> IF k = 0 THEN <<>> ELSE next(f[k - 1])]
           T == {m \in Nat : \E f : Good(f, m)}
<1> HIDE DEF next
<1>1. 0 \in T
  <2> DEFINE f == [k \in 0 .. 0 |-> <<>>]
  <2>1. \A k \in 0 .. 0 : k = 0
    OBVIOUS
  <2>2. Good(f, 0)
    BY <2>1
  <2> HIDE DEF f, Good
  <2> QED BY <2>2
<1>2. ASSUME NEW m \in Nat, m \in T PROVE m + 1 \in T
  <2>1. PICK f : Good(f, m)
    BY <1>2
  <2> DEFINE g == [k \in 0 .. m + 1 |-> IF k = 0 THEN <<>> ELSE next(f[k - 1])]
  <2>2. \A k \in 0 .. m : k \in 0 .. m + 1 /\ g[k] = f[k]
    BY <2>1
  <2>3. \A k \in 0 .. m + 1 : k # 0 => k - 1 \in 0 .. m
    OBVIOUS
  <2>4. \A k \in 0 .. m + 1 : g[k] = IF k = 0 THEN <<>> ELSE next(f[k - 1])
    OBVIOUS
  <2>5. DOMAIN g = 0 .. m + 1 /\ g = [k \in DOMAIN g |-> g[k]]
    OBVIOUS
  <2> HIDE DEF g
  <2>6. \A k \in 0 .. m + 1 : g[k] = IF k = 0 THEN <<>> ELSE next(g[k - 1])
    BY <2>2, <2>3, <2>4
  <2>7. Good(g, m + 1)
    BY <2>5, <2>6
  <2> HIDE DEF Good
  <2>8. (\E x : Good(x, m + 1)) /\ m + 1 \in Nat
    BY <2>7
  <2> QED BY <2>8
<1>3. Cardinality(S) \in T
  <2> HIDE DEF T
  <2> QED BY <1>1, <1>2, FS_CardinalityType, NatSet
<1>4. PICK f : Good(f, Cardinality(S))
  BY <1>3
<1> QED BY <1>4 DEF Picks, next

\* s are different elements of S, none of them lighter than one after it or left out.
Heaviest(s, S, weight) ==
  /\ s \in Seq(S)
  /\ \A i, j \in DOMAIN s : i < j => s[i] # s[j] /\ weight[s[j]] <= weight[s[i]]
  /\ \A i \in DOMAIN s : \A y \in S : y \notin ToSet(s) => weight[y] <= weight[s[i]]

LEMMA PickIsHeaviest ==
  ASSUME NEW S, IsFiniteSet(S), NEW weight, \A x \in S : weight[x] \in Nat,
         NEW s, Heaviest(s, S, weight), Len(s) < Cardinality(S), NEW x,
         x = CHOOSE z \in S \ ToSet(s) : \A y \in S \ ToSet(s) : weight[y] <= weight[z]
  PROVE  Heaviest(Append(s, x), S, weight) /\ Len(Append(s, x)) = Len(s) + 1
<1> DEFINE rest == S \ ToSet(s)
<1>1. s \in Seq(S) /\ Len(s) \in Nat /\ DOMAIN s = 1 .. Len(s)
  BY DEF Heaviest
<1>2. rest # {}
  <2> SUFFICES ASSUME rest = {} PROVE FALSE
    OBVIOUS
  <2>1. \A y \in S : \E i \in 1 .. Len(s) : s[i] = y
    BY <1>1 DEF ToSet
  <2>2. s \in Surjection(1 .. Len(s), S)
    BY <1>1, <2>1 DEF Surjection
  <2>3. Cardinality(S) <= Len(s)
    BY <1>1, <2>2, FS_SurjCardinalityBound DEF ExistsSurjection
  <2> QED BY <1>1, <2>3, FS_CardinalityType
<1>3. \E z \in rest : \A y \in rest : weight[y] <= weight[z]
  <2>1. IsFiniteSet(rest)
    BY FS_Subset
  <2>2. \A z \in rest : weight[z] \in Nat
    OBVIOUS
  <2> HIDE DEF rest
  <2> QED BY <1>2, <2>1, <2>2, GreatestExists
<1>4. x \in rest /\ \A y \in rest : weight[y] <= weight[x]
  BY <1>3
<1>5. x \in S /\ x \notin ToSet(s) /\ \A y \in S : y \notin ToSet(s) => weight[y] <= weight[x]
  BY <1>4
<1> HIDE DEF rest
<1> DEFINE t == Append(s, x)
<1>6. /\ t \in Seq(S) /\ Len(t) = Len(s) + 1 /\ DOMAIN t = 1 .. Len(s) + 1
      /\ t[Len(s) + 1] = x /\ \A i \in 1 .. Len(s) : t[i] = s[i]
  BY <1>1, <1>5
<1>7. \A i \in 1 .. Len(s) + 1 : i \in 1 .. Len(s) \/ i = Len(s) + 1
  BY <1>1
<1>8. \A i \in 1 .. Len(s) : s[i] \in ToSet(s) /\ s[i] \in S
  BY <1>1 DEF ToSet
<1> HIDE DEF t
<1>9. ASSUME NEW i \in DOMAIN t, NEW j \in DOMAIN t, i < j
      PROVE  t[i] # t[j] /\ weight[t[j]] <= weight[t[i]]
  <2>1. i \in 1 .. Len(s)
    BY <1>1, <1>6, <1>9
  <2>2. CASE j \in 1 .. Len(s)
    BY <1>1, <1>6, <1>9, <2>1, <2>2 DEF Heaviest
  <2>3. CASE j = Len(s) + 1
    BY <1>1, <1>5, <1>6, <1>8, <2>1, <2>3 DEF Heaviest
  <2> QED BY <1>6, <1>7, <2>2, <2>3
<1>10. \A y \in S : y \notin ToSet(t) => y \notin ToSet(s)
  <2>1. \A i \in 1 .. Len(s) : s[i] \in ToSet(t)
    <3>1. \A i \in DOMAIN t : t[i] \in ToSet(t)
      BY DEF ToSet
    <3> QED BY <1>1, <1>6, <3>1
  <2> QED BY <1>1, <2>1 DEF ToSet
<1>11. ASSUME NEW i \in DOMAIN t, NEW y \in S, y \notin ToSet(t) PROVE weight[y] <= weight[t[i]]
  <2>1. CASE i \in 1 .. Len(s)
    BY <1>1, <1>6, <1>10, <1>11, <2>1 DEF Heaviest
  <2>2. CASE i = Len(s) + 1
    BY <1>5, <1>6, <1>10, <1>11, <2>2
  <2> QED BY <1>6, <1>7, <2>1, <2>2
<1>12. Heaviest(t, S, weight)
  BY <1>6, <1>9, <1>11 DEF Heaviest
<1> QED BY <1>6, <1>12 DEF t

\* b is all of S, by weight.
ByWeight(b, S, weight) ==
  /\ b \in Seq(S) /\ \A x \in S : \E k \in DOMAIN b : b[k] = x
  /\ \A i, j \in DOMAIN b : i < j => b[i] # b[j] /\ weight[b[j]] <= weight[b[i]]

LEMMA BestAreFirst ==
  ASSUME NEW S, IsFiniteSet(S), NEW weight, \A x \in S : weight[x] \in Nat
  PROVE  ByWeight(BestFirst(S, weight), S, weight)
<1> DEFINE f == CHOOSE g : Picks(g, S, weight)
           n == Cardinality(S)
           T == {k \in Nat : k > n \/ (Heaviest(f[k], S, weight) /\ Len(f[k]) = k)}
<1>1. BestFirst(S, weight) = f[n]
  BY DEF BestFirst, Picks
<1>2. Picks(f, S, weight)
  BY PicksExist
<1>3. n \in Nat
  BY FS_CardinalityType
<1> DEFINE pick(s) == CHOOSE z \in S \ ToSet(s) : \A y \in S \ ToSet(s) : weight[y] <= weight[z]
<1> HIDE DEF f
<1>4. \A m \in 0 .. n : f[m] = IF m = 0 THEN <<>> ELSE Append(f[m - 1], pick(f[m - 1]))
  BY <1>2 DEF Picks, pick
<1> HIDE DEF pick
<1>5. 0 \in T
  <2>1. f[0] = <<>>
    BY <1>3, <1>4
  <2>2. Heaviest(<<>>, S, weight) /\ Len(<<>>) = 0
    BY DEF Heaviest
  <2> QED BY <2>1, <2>2
<1>6. ASSUME NEW k \in Nat, k \in T PROVE k + 1 \in T
  <2>1. CASE k + 1 > n
    BY <2>1
  <2>2. CASE k + 1 <= n
    <3>1. k < n /\ k + 1 \in 0 .. n /\ k + 1 # 0 /\ (k + 1) - 1 = k
      BY <1>3, <2>2
    <3>2. Heaviest(f[k], S, weight) /\ Len(f[k]) = k
      BY <1>3, <1>6, <3>1
    <3> DEFINE s == f[k]
               x == pick(s)
    <3>3. f[k + 1] = Append(s, x)
      BY <1>4, <3>1
    <3>4. x = CHOOSE z \in S \ ToSet(s) : \A y \in S \ ToSet(s) : weight[y] <= weight[z]
      BY DEF pick
    <3>5. Heaviest(s, S, weight) /\ Len(s) < Cardinality(S)
      BY <3>1, <3>2
    <3> HIDE DEF x, s
    <3>6. Heaviest(Append(s, x), S, weight) /\ Len(Append(s, x)) = Len(s) + 1
      BY <3>4, <3>5, PickIsHeaviest
    <3>7. Heaviest(f[k + 1], S, weight) /\ Len(f[k + 1]) = k + 1 /\ k + 1 \in Nat
      BY <3>2, <3>3, <3>6 DEF s
    <3> QED BY <3>7
  <2> QED BY <1>3, <2>1, <2>2
<1>7. n \in T
  <2> HIDE DEF T, n
  <2> QED BY <1>3, <1>5, <1>6, NatSet
<1> DEFINE b == f[n]
<1>8. Heaviest(b, S, weight) /\ Len(b) = n
  BY <1>3, <1>7
<1> HIDE DEF b, n
<1>9. b \in Seq(S) /\ DOMAIN b = 1 .. n
      /\ \A i, j \in DOMAIN b : i < j => b[i] # b[j] /\ weight[b[j]] <= weight[b[i]]
  BY <1>8 DEF Heaviest
<1>10. b \in Injection(1 .. n, S)
  <2>1. \A i, j \in 1 .. n : b[i] = b[j] => i = j
    BY <1>3, <1>9
  <2>2. b \in [1 .. n -> S]
    BY <1>8, <1>9
  <2> QED BY <2>1, <2>2 DEF Injection, IsInjective
<1>11. Cardinality(1 .. n) = n
  BY <1>3, FS_Interval
<1>12. b \in Surjection(1 .. n, S)
  BY <1>10, <1>11, FS_Injection DEF n
<1> QED BY <1>1, <1>9, <1>12 DEF ByWeight, Surjection, b, n

LEMMA FirstOf ==
  ASSUME NEW S, NEW b \in Seq(S), NEW n \in Nat
  PROVE  /\ First(b, n) \in Seq(S) /\ ToSet(First(b, n)) \subseteq S
         /\ IsFiniteSet(ToSet(First(b, n)))
         /\ DOMAIN First(b, n) = 1 .. Least(n, Len(b))
         /\ \A k \in DOMAIN First(b, n) : k \in DOMAIN b /\ First(b, n)[k] = b[k]
<1> DEFINE m == Least(n, Len(b))
           s == First(b, n)
<1>1. m \in Nat /\ m <= Len(b) /\ m <= n
  BY DEF Least
<1>2. s = SubSeq(b, 1, m)
  BY DEF First
<1> HIDE DEF m, s
<1>3. s \in Seq(S) /\ Len(s) = m /\ DOMAIN s = 1 .. m /\ \A k \in 1 .. m : k \in DOMAIN b /\ s[k] = b[k]
  <2>1. \A k \in 1 .. m : b[k] \in S
    BY <1>1
  <2> QED BY <1>1, <1>2, <2>1, SubSeqProperties
<1>4. ToSet(s) \subseteq S
  BY <1>3 DEF ToSet
<1>5. IsFiniteSet(ToSet(s))
  <2>1. s \in [1 .. m -> ToSet(s)] /\ \A y \in ToSet(s) : \E k \in 1 .. m : s[k] = y
    BY <1>3 DEF ToSet
  <2>2. s \in Surjection(1 .. m, ToSet(s))
    BY <2>1 DEF Surjection
  <2>3. \A i \in Nat : IsFiniteSet(1 .. i)
    BY FS_Interval
  <2> QED BY <1>1, <2>2, <2>3, FS_Surjection
<1> QED BY <1>3, <1>4, <1>5 DEF m, s

LEMMA FewBest ==
  ASSUME NEW S, IsFiniteSet(S), NEW weight, \A x \in S : weight[x] \in Nat, NEW n \in Nat
  PROVE  /\ ToSet(First(BestFirst(S, weight), n)) \subseteq S
         /\ IsFiniteSet(ToSet(First(BestFirst(S, weight), n)))
<1> DEFINE b == BestFirst(S, weight)
<1>1. b \in Seq(S)
  BY BestAreFirst DEF ByWeight
<1> HIDE DEF b
<1> QED BY <1>1, FirstOf DEF b

LEMMA ImageIsFinite ==
  ASSUME NEW S, IsFiniteSet(S), NEW f
  PROVE  IsFiniteSet({f[x] : x \in S})
<1> DEFINE g == [x \in S |-> f[x]]
           T == {f[x] : x \in S}
<1>1. g \in [S -> T] /\ \A y \in T : \E x \in S : g[x] = y
  OBVIOUS
<1> HIDE DEF g, T
<1>2. g \in Surjection(S, T)
  BY <1>1 DEF Surjection
<1>3. IsFiniteSet(T)
  BY <1>2, FS_Surjection
<1> QED BY <1>3 DEF T

LEMMA PlaceFields ==
  ASSUME NEW D, NEW a \in Places(D)
  PROVE  /\ a[1] \in D /\ a[2] \in DOMAIN Passages[a[1]] /\ a = <<a[1], a[2]>>
BY DEF Places

LEMMA PlacesAreFinite ==
  ASSUME NEW D, D \subseteq Doc, IsFiniteSet(D)
  PROVE  IsFiniteSet(Places(D))
<1> DEFINE of == [d \in D |-> {<<d, i>> : i \in DOMAIN Passages[d]}]
<1>1. ASSUME NEW d \in D PROVE IsFiniteSet(of[d])
  <2> DEFINE f == [i \in DOMAIN Passages[d] |-> <<d, i>>]
             I == DOMAIN Passages[d]
  <2>1. I = 1 .. Len(Passages[d]) /\ Len(Passages[d]) \in Nat
    BY EvidenceAssumption
  <2>2. IsFiniteSet(I)
    <3>1. \A n \in Nat : IsFiniteSet(1 .. n)
      BY FS_Interval
    <3> QED BY <2>1, <3>1
  <2>3. of[d] = {f[i] : i \in I}
    OBVIOUS
  <2> HIDE DEF of, f, I
  <2> QED BY <2>2, <2>3, ImageIsFinite
<1>2. Places(D) = UNION {of[d] : d \in D}
  BY DEF Places
<1> HIDE DEF of
<1> DEFINE sets == {of[d] : d \in D}
<1>3. IsFiniteSet(sets)
  BY ImageIsFinite
<1>4. \A s \in sets : IsFiniteSet(s)
  BY <1>1
<1> HIDE DEF sets
<1>5. IsFiniteSet(UNION sets)
  BY <1>3, <1>4, FS_UNION
<1> QED BY <1>2, <1>5 DEF sets

LEMMA StoredPlaces ==
  /\ IsFiniteSet(Places(StoredDoc)) /\ IsFiniteSet(Places(Version))
  /\ Visible \subseteq StoredDoc
  /\ \A a \in Places(Visible) : a \in Places(StoredDoc)
  /\ \A a \in Places(StoredDoc) : Seen(a) => a \in Places(Visible)
<1>1. IsFiniteSet(Places(StoredDoc)) /\ IsFiniteSet(Places(Version))
  BY RetrieveAssumption, PlacesAreFinite
<1>2. Visible \subseteq StoredDoc
  BY DEF Visible, Alive
<1> QED BY <1>1, <1>2 DEF Places, Seen

LEMMA Product ==
  ASSUME NEW a \in Nat, NEW b \in Nat
  PROVE  a * b \in Nat
OBVIOUS

LEMMA Quotient ==
  ASSUME NEW a \in Nat, NEW b \in Nat, b # 0
  PROVE  a \div b \in Nat
OBVIOUS

LEMMA FrequencyIsNat ==
  ASSUME NEW t
  PROVE  Frequency(t) \in Nat /\ Cardinality(Places(StoredDoc)) - Frequency(t) \in Nat
<1> DEFINE with == {a \in Places(StoredDoc) : t \in TermsOf(a)}
<1>1. with \subseteq Places(StoredDoc)
  OBVIOUS
<1>2. Frequency(t) = Cardinality(with)
  BY DEF Frequency
<1> HIDE DEF with
<1>3. Cardinality(with) \in Nat /\ Cardinality(with) <= Cardinality(Places(StoredDoc))
      /\ Cardinality(Places(StoredDoc)) \in Nat
  BY <1>1, StoredPlaces, FS_Subset, FS_CardinalityType
<1> QED BY <1>2, <1>3

LEMMA RarestAreAsked == Rarest \in Seq(Question)
<1> DEFINE t == {x \in Question : Frequency(x) > 0}
           w == [x \in t |-> Cardinality(Places(StoredDoc)) - Frequency(x)]
<1>1. Rarest = BestFirst(t, w)
  BY DEF Rarest
<1>2. \A x \in t : w[x] \in Nat
  BY FrequencyIsNat
<1>3. IsFiniteSet(t) /\ \A x \in t : x \in Question
  BY RetrieveAssumption, FS_Subset
<1> HIDE DEF t, w
<1> DEFINE b == BestFirst(t, w)
<1>4. b \in Seq(t)
  BY <1>2, <1>3, BestAreFirst DEF ByWeight
<1> HIDE DEF b
<1>5. b \in Seq(Question)
  BY <1>3, <1>4
<1> QED BY <1>1, <1>5 DEF b

\* Only terms of the question are traversed.
LEMMA TraversedAreAsked == Traversed \subseteq Question
<1> DEFINE X == [terms : SUBSET Question, cost : Nat]
           start == [terms |-> {}, cost |-> 0]
           rare == Rarest
           n == Len(rare)
           After(k, b) == IF k > 2 /\ b.cost + Frequency(rare[k]) > PostingsBudget THEN b
                          ELSE [terms |-> b.terms \cup {rare[k]}, cost |-> b.cost + Frequency(rare[k])]
           Is(f) == f = [k \in 0 .. n |-> IF k = 0 THEN start ELSE After(k, f[k - 1])]
           spend == CHOOSE f : Is(f)
<1>1. Traversed = spend[n].terms
  BY DEF Traversed
<1>2. rare \in Seq(Question) /\ n \in Nat /\ DOMAIN rare = 1 .. n
  BY RarestAreAsked
<1> HIDE DEF rare, n
<1>3. \A k \in 1 .. n : \A b \in X : After(k, b) \in X
  BY <1>2, FrequencyIsNat
<1>4. start \in X
  OBVIOUS
<1> HIDE DEF After, X, start
<1>5. \E f : Is(f)
  <2> DEFINE step == [p \in Nat \X X |-> IF p[1] \in 1 .. n THEN After(p[1], p[2]) ELSE p[2]]
  <2>1. step \in [Nat \X X -> X]
    BY <1>3
  <2>2. PICK f : Recursive(f, X, start, step, n)
    <3> HIDE DEF step, Is
    <3> QED BY <1>2, <1>4, <2>1, Recursion
  <2>3. f \in [0 .. n -> X] /\ f[0] = start
    BY <2>2 DEF Recursive
  <2>4. \A k \in 1 .. n : f[k] = After(k, f[k - 1])
    <3> SUFFICES ASSUME NEW k \in 1 .. n PROVE f[k] = After(k, f[k - 1])
      OBVIOUS
    <3>1. f[k - 1] \in X /\ k \in Nat
      BY <1>2, <2>3
    <3>2. step[<<k, f[k - 1]>>] = After(k, f[k - 1])
      BY <3>1
    <3> QED BY <2>2, <3>2 DEF Recursive
  <2>5. \A k \in 0 .. n : k # 0 => k \in 1 .. n
    BY <1>2
  <2>6. Is(f)
    BY <2>3, <2>4, <2>5
  <2> HIDE DEF Is
  <2> QED BY <2>6
<1>6. Is(spend)
  <2> HIDE DEF Is
  <2> QED BY <1>5
<1> HIDE DEF spend
<1> DEFINE T == {k \in Nat : k > n \/ spend[k] \in X}
<1>7. 0 \in T
  BY <1>2, <1>4, <1>6
<1>8. ASSUME NEW k \in Nat, k \in T PROVE k + 1 \in T
  <2>1. CASE k + 1 > n
    BY <2>1
  <2>2. CASE ~(k + 1 > n)
    <3>1. k + 1 \in 1 .. n /\ k + 1 \in 0 .. n /\ k + 1 # 0 /\ (k + 1) - 1 = k /\ spend[k] \in X
      BY <1>2, <1>8, <2>2
    <3>2. spend[k + 1] = After(k + 1, spend[k])
      BY <1>6, <3>1
    <3> QED BY <1>3, <3>1, <3>2
  <2> QED BY <2>1, <2>2
<1>9. n \in T
  <2> HIDE DEF T
  <2> QED BY <1>2, <1>7, <1>8, NatSet
<1>10. spend[n] \in X
  BY <1>2, <1>9
<1>11. \A x \in X : x.terms \subseteq Question
  BY DEF X
<1> QED BY <1>1, <1>10, <1>11

LEMMA MatchIsNat ==
  ASSUME NEW a
  PROVE  SumFunctionOnSet(Idf, TermsOf(a) \cap Traversed) \in Nat
<1> DEFINE I == TermsOf(a) \cap Traversed
<1>1. I \subseteq Question
  BY TraversedAreAsked
<1> HIDE DEF I
<1>2. IsFiniteSet(I) /\ \A t \in I : Idf[t] \in Nat
  BY <1>1, RetrieveAssumption, FS_Subset
<1>3. FoldFunctionOnSet(+, 0, Idf, I) \in Nat
  BY <1>2, SumIsNat
<1> QED BY <1>3 DEF SumFunctionOnSet, I

-------------------------------------------------------------------------------
(* What retrieval may read *)

WalkInv ==
  /\ DOMAIN lex \subseteq Places(Visible) /\ \A a \in DOMAIN lex : lex[a] \in Nat
  /\ IsFiniteSet(DOMAIN best) /\ DOMAIN best \subseteq DOMAIN Damping
  /\ \A e \in DOMAIN best : best[e].act \in Nat
  /\ frontier \subseteq DOMAIN best
  /\ DOMAIN hits \subseteq Places(Visible) /\ \A a \in DOMAIN hits : hits[a].act \in Nat

\* The live texts are of keys not excluded, one for each key, in a scope granted.
ReadInv ==
  /\ tree \in [FileKey -> Version] /\ \A k \in FileKey : Key[tree[k]] = k
  /\ \A h \in stored : PlaceOf(h) \in Places(Visible)
  /\ \A k \in DOMAIN opened : opened[k] \in Version /\ Key[opened[k]] = k /\ k \notin exclude
  /\ \A h \in liveHits : /\ PlaceOf(h) \in Places(Version)
                         /\ Key[h[1]] \in DOMAIN opened /\ h[1] = opened[Key[h[1]]]
  /\ liveHits # {} => SourceScope \in granted

LEMMA LexicalStep ==
  ASSUME WalkInv, Lexical
  PROVE  WalkInv'
<1> DEFINE sum == [a \in Matching |-> SumFunctionOnSet(Idf, TermsOf(a) \cap Traversed)]
           top == ToSet(First(BestFirst(Matching, sum), CandidateLimit))
<1>1. /\ lex' = [a \in top |-> sum[a]]
      /\ best' = [e \in DOMAIN Seeds |-> [act |-> Seeds[e], steps |-> <<>>]]
      /\ frontier' = DOMAIN Seeds /\ hits' = hits
      /\ dead' = dead /\ granted' = granted /\ exclude' = exclude
  BY DEF Lexical, request
<1>2. Visible' = Visible
  BY <1>1 DEF Visible, Alive
<1>3. \A a \in Matching : a \in Places(Visible) /\ a \in Places(StoredDoc)
  BY StoredPlaces DEF Matching
<1>4. IsFiniteSet(Matching)
  BY <1>3, StoredPlaces, FS_Subset
<1>5. \A a \in Matching : sum[a] \in Nat
  BY MatchIsNat
<1>6. CandidateLimit \in Nat
  BY RetrieveAssumption
<1> HIDE DEF sum
<1>7. top \subseteq Matching
  BY <1>4, <1>5, <1>6, FewBest
<1> HIDE DEF top
<1>8. DOMAIN lex' \subseteq Places(Visible) /\ \A a \in DOMAIN lex' : lex'[a] \in Nat
  BY <1>1, <1>3, <1>5, <1>7
<1>9. /\ IsFiniteSet(DOMAIN best') /\ DOMAIN best' \subseteq DOMAIN Damping /\ frontier' \subseteq DOMAIN best'
      /\ \A e \in DOMAIN best' : best'[e].act \in Nat
  <2>1. DOMAIN best' = DOMAIN Seeds /\ \A e \in DOMAIN Seeds : best'[e].act = Seeds[e]
    BY <1>1
  <2>2. /\ IsFiniteSet(DOMAIN Seeds) /\ DOMAIN Seeds \subseteq DOMAIN Damping
        /\ \A e \in DOMAIN Seeds : Seeds[e] \in Nat
    BY RetrieveAssumption
  <2> QED BY <1>1, <2>1, <2>2
<1> QED BY <1>1, <1>2, <1>8, <1>9 DEF WalkInv

LEMMA StrongestExists ==
  ASSUME NEW T, IsFiniteSet(T), T # {}, \A x \in T : x.act \in Nat
  PROVE  \E x \in T : \A y \in T : y.act <= x.act
<1> DEFINE w == [x \in T |-> x.act]
<1>1. \A x \in T : w[x] \in Nat /\ w[x] = x.act
  OBVIOUS
<1> HIDE DEF w
<1>2. \E x \in T : \A y \in T : w[y] <= w[x]
  BY <1>1, GreatestExists
<1> QED BY <1>1, <1>2

LEMMA UpsertKeeps ==
  ASSUME NEW P, NEW old, DOMAIN old \subseteq P, \A a \in DOMAIN old : old[a].act \in Nat,
         NEW new, IsFiniteSet(new), \A x \in new : x.at \in P /\ x.act \in Nat
  PROVE  /\ DOMAIN Upsert(old, new) \subseteq P
         /\ \A a \in DOMAIN Upsert(old, new) : Upsert(old, new)[a].act \in Nat
<1> DEFINE here(a) == {x \in new : x.at = a}
           top(a) == CHOOSE x \in here(a) : \A y \in here(a) : y.act <= x.act
<1>1. Upsert(old, new) =
        [a \in DOMAIN old \cup {x.at : x \in new} |->
            IF here(a) = {} THEN old[a]
            ELSE IF a \in DOMAIN old /\ old[a].act >= top(a).act THEN old[a]
            ELSE [act |-> top(a).act, chain |-> top(a).chain]]
  BY DEF Upsert
<1>2. ASSUME NEW a, here(a) # {} PROVE top(a).act \in Nat
  <2> DEFINE T == here(a)
  <2>1. IsFiniteSet(T) /\ T # {} /\ \A x \in T : x.act \in Nat
    BY <1>2, FS_Subset
  <2> HIDE DEF T
  <2>2. \E x \in T : \A y \in T : y.act <= x.act
    BY <2>1, StrongestExists
  <2>3. top(a) \in T
    BY <2>2 DEF T
  <2> QED BY <2>1, <2>3
<1>3. \A a : here(a) = {} <=> a \notin {x.at : x \in new}
  OBVIOUS
<1>4. {x.at : x \in new} \subseteq P
  OBVIOUS
<1> HIDE DEF here, top
<1> DEFINE up == Upsert(old, new)
<1>5. DOMAIN up = DOMAIN old \cup {x.at : x \in new}
  BY <1>1
<1>6. \A a \in DOMAIN up : up[a] = IF here(a) = {} THEN old[a]
            ELSE IF a \in DOMAIN old /\ old[a].act >= top(a).act THEN old[a]
            ELSE [act |-> top(a).act, chain |-> top(a).chain]
  BY <1>1
<1> HIDE DEF up
<1>7. ASSUME NEW a \in DOMAIN up PROVE up[a].act \in Nat
  <2>1. CASE here(a) = {}
    BY <1>3, <1>5, <1>6, <2>1
  <2>2. CASE here(a) # {}
    BY <1>2, <1>6, <2>2
  <2> QED BY <2>1, <2>2
<1> QED BY <1>4, <1>5, <1>7 DEF up

\* What a hop offers is of entities, through places of stored documents.
LEMMA OffersAreWeighed ==
  ASSUME WalkInv
  PROVE  /\ IsFiniteSet(Offers)
         /\ \A o \in Offers : o.to \in DOMAIN Damping /\ o.at \in Places(StoredDoc) /\ o.act \in Nat
<1> DEFINE pairs == {x \in Edges \X frontier : x[2] \in {x[1].from, x[1].to}}
           offer == [p \in pairs |->
                       [to |-> Through(p[1], p[2]), act |-> Activation(p[1], p[2]), at |-> p[1].at,
                        steps |-> Append(best[p[2]].steps, p[1])]]
<1>1. Offers = {offer[p] : p \in pairs}
  BY DEF Offers
<1>2. IsFiniteSet(pairs)
  <2>1. IsFiniteSet(frontier)
    BY FS_Subset DEF WalkInv
  <2>2. IsFiniteSet(Edges \X frontier)
    BY <2>1, RetrieveAssumption, FS_Product
  <2> QED BY <2>2, FS_Subset
<1>3. ASSUME NEW p \in pairs
      PROVE  /\ offer[p].to \in DOMAIN Damping /\ offer[p].at \in Places(StoredDoc)
             /\ offer[p].act \in Nat
  <2> DEFINE e == p[1]
             key == p[2]
  <2>1. e \in Edges /\ key \in frontier /\ key \in {e.from, e.to}
    OBVIOUS
  <2>2. /\ e.at \in Places(StoredDoc) /\ e.conf \in Nat /\ e.from \in DOMAIN Damping
        /\ e.to \in DOMAIN Damping
    BY <2>1, RetrieveAssumption
  <2>3. best[key].act \in Nat /\ Damping[key] \in Nat
    BY <2>1, <2>2, RetrieveAssumption DEF WalkInv
  <2>4. offer[p].to = Through(e, key) /\ offer[p].act = Activation(e, key) /\ offer[p].at = e.at
    OBVIOUS
  <2> HIDE DEF offer, e, key
  <2>5. Through(e, key) \in DOMAIN Damping
    BY <2>2 DEF Through
  <2>6. Activation(e, key) \in Nat
    <3> DEFINE a == best[key].act * e.conf
               b == a * 60
               c == b * (IF e.rel \in Asked THEN 25 ELSE 10)
               d == c * Damping[key]
    <3>1. a \in Nat
      BY <2>2, <2>3, Product
    <3> HIDE DEF a
    <3>2. b \in Nat
      BY <3>1
    <3> HIDE DEF b
    <3>3. c \in Nat
      BY <3>2
    <3> HIDE DEF c
    <3>4. d \in Nat
      BY <2>3, <3>3, Product
    <3> HIDE DEF d
    <3>5. d \div 10000000 \in Nat
      BY <3>4
    <3>6. Activation(e, key) = d \div 10000000
      BY DEF Activation, a, b, c, d
    <3> QED BY <3>5, <3>6
  <2> QED BY <2>2, <2>4, <2>5, <2>6
<1> HIDE DEF pairs, offer
<1>4. IsFiniteSet({offer[p] : p \in pairs})
  BY <1>2, ImageIsFinite
<1> QED BY <1>1, <1>3, <1>4

LEMMA HopStep ==
  ASSUME WalkInv, Hop
  PROVE  WalkInv'
<1> DEFINE better == {o \in HopOffers : o.to \notin DOMAIN best \/ best[o.to].act < o.act}
           top(e) == CHOOSE o \in better : o.to = e /\ \A p \in better : p.to = e => p.act <= o.act
           found == {o.to : o \in better}
           weight == [e \in found |-> top(e).act]
           kept == ToSet(First(BestFirst(found, weight), Beam))
           visible == {x \in HopOffers : Seen(x.at)}
           hit == [o \in visible |-> [at |-> o.at, act |-> o.act, chain |-> Chain(o.steps, "states", o.to)]]
           new == {hit[o] : o \in visible}
<1>1. /\ hits' = Upsert(hits, new) /\ frontier' = kept
      /\ best' = [e \in DOMAIN best \cup kept |->
                     IF e \in kept THEN [act |-> top(e).act, steps |-> top(e).steps] ELSE best[e]]
      /\ lex' = lex /\ dead' = dead /\ granted' = granted /\ exclude' = exclude
  <2>1. new = {[at |-> o.at, act |-> o.act, chain |-> Chain(o.steps, "states", o.to)] : o \in visible}
    OBVIOUS
  <2> HIDE DEF new, hit
  <2> QED BY <2>1 DEF Hop, request
<1>2. Visible' = Visible
  BY <1>1 DEF Visible, Alive
<1>3. /\ IsFiniteSet(HopOffers)
      /\ \A o \in HopOffers : o.to \in DOMAIN Damping /\ o.at \in Places(StoredDoc) /\ o.act \in Nat
  <2>1. HopOffers \subseteq Offers
    BY DEF HopOffers
  <2> QED BY <2>1, OffersAreWeighed, FS_Subset
<1>4. IsFiniteSet(better) /\ IsFiniteSet(visible)
  BY <1>3, FS_Subset
<1>5. ASSUME NEW e \in found PROVE top(e).act \in Nat /\ e \in DOMAIN Damping
  <2> DEFINE T == {o \in better : o.to = e}
  <2>1. IsFiniteSet(T)
    <3>1. T \subseteq better
      OBVIOUS
    <3> QED BY <1>4, <3>1, FS_Subset
  <2>2. T # {} /\ \A x \in T : x.act \in Nat /\ x.to = e /\ x \in better
    BY <1>3
  <2>3. \A o \in better : o.to = e => o \in T
    OBVIOUS
  <2> HIDE DEF T, better, found
  <2>4. PICK x \in T : \A y \in T : y.act <= x.act
    BY <2>1, <2>2, StrongestExists
  <2>5. x \in better /\ x.to = e /\ \A p \in better : p.to = e => p.act <= x.act
    BY <2>2, <2>3, <2>4
  <2>6. top(e) \in better /\ top(e).to = e
    BY <2>5
  <2>7. top(e) \in HopOffers
    BY <2>6 DEF better
  <2> QED BY <1>3, <2>6, <2>7
<1>6. kept \subseteq found /\ IsFiniteSet(kept)
  <2>1. \A e \in found : weight[e] \in Nat
    BY <1>5
  <2>2. IsFiniteSet(found)
    <3> DEFINE to == [o \in better |-> o.to]
    <3>1. found = {to[o] : o \in better}
      OBVIOUS
    <3> HIDE DEF to, better, found
    <3> QED BY <1>4, <3>1, ImageIsFinite
  <2>3. Beam \in Nat
    BY RetrieveAssumption
  <2> HIDE DEF found, weight
  <2> QED BY <2>1, <2>2, <2>3, FewBest
<1>7. IsFiniteSet(new) /\ \A x \in new : x.at \in Places(Visible) /\ x.act \in Nat
  <2>1. \A o \in visible : hit[o].at \in Places(Visible) /\ hit[o].act \in Nat
    BY <1>3, StoredPlaces
  <2> HIDE DEF visible, hit
  <2> QED BY <1>4, <2>1, ImageIsFinite
<1> HIDE DEF better, top, found, kept, new
<1>8. /\ DOMAIN lex \subseteq Places(Visible) /\ \A a \in DOMAIN lex : lex[a] \in Nat
      /\ IsFiniteSet(DOMAIN best) /\ DOMAIN best \subseteq DOMAIN Damping
      /\ \A e \in DOMAIN best : best[e].act \in Nat
      /\ DOMAIN hits \subseteq Places(Visible) /\ \A a \in DOMAIN hits : hits[a].act \in Nat
  BY DEF WalkInv
<1>9. /\ DOMAIN best' = DOMAIN best \cup kept /\ IsFiniteSet(DOMAIN best \cup kept)
      /\ \A e \in DOMAIN best \cup kept : best'[e].act \in Nat
  <2>1. DOMAIN best' = DOMAIN best \cup kept
    BY <1>1
  <2>2. IsFiniteSet(DOMAIN best \cup kept)
    BY <1>6, <1>8, FS_Union
  <2>3. ASSUME NEW e \in DOMAIN best \cup kept PROVE best'[e].act \in Nat
    <3>1. CASE e \in kept
      BY <1>1, <1>5, <1>6, <3>1
    <3>2. CASE e \notin kept
      BY <1>1, <1>8, <3>2
    <3> QED BY <3>1, <3>2
  <2> QED BY <2>1, <2>2, <2>3
<1>10. DOMAIN hits' \subseteq Places(Visible) /\ \A a \in DOMAIN hits' : hits'[a].act \in Nat
  BY <1>1, <1>7, <1>8, UpsertKeeps
<1>11. kept \subseteq DOMAIN Damping
  BY <1>5, <1>6
<1> QED BY <1>1, <1>2, <1>8, <1>9, <1>10, <1>11 DEF WalkInv

LEMMA LinksAreSeen ==
  ASSUME WalkInv, NEW e \in DOMAIN best, NEW places, places \subseteq Places(StoredDoc), NEW link,
         NEW weight \in Nat
  PROVE  /\ IsFiniteSet(Links(e, places, link, weight))
         /\ \A x \in Links(e, places, link, weight) : x.at \in Places(Visible) /\ x.act \in Nat
<1> DEFINE seen == {x \in places : Seen(x)}
           first == [x \in seen |-> IF x \in DOMAIN lex THEN 1 ELSE 0]
           kept == ToSet(First(BestFirst(seen, first), MaxLinks))
           act == (best[e].act * weight) \div 100
           made == [a \in kept |-> [at |-> a, act |-> act, chain |-> Chain(best[e].steps, link, e)]]
<1>1. Links(e, places, link, weight) = {made[a] : a \in kept}
  BY DEF Links
<1>2. seen \subseteq Places(Visible)
  BY StoredPlaces
<1>3. IsFiniteSet(seen)
  <2>1. seen \subseteq Places(StoredDoc)
    OBVIOUS
  <2> QED BY <2>1, StoredPlaces, FS_Subset
<1>4. \A x \in seen : first[x] \in Nat
  OBVIOUS
<1>5. MaxLinks \in Nat
  BY RetrieveAssumption
<1>6. act \in Nat
  <2> DEFINE p == best[e].act * weight
  <2>1. best[e].act \in Nat
    BY DEF WalkInv
  <2>2. p \in Nat
    BY <2>1, Product
  <2> HIDE DEF p
  <2> QED BY <2>2 DEF p
<1> HIDE DEF seen, first
<1>7. kept \subseteq seen /\ IsFiniteSet(kept)
  BY <1>3, <1>4, <1>5, FewBest
<1> HIDE DEF kept, act
<1>8. \A a \in kept : made[a].at = a /\ made[a].act = act
  OBVIOUS
<1> HIDE DEF made
<1>9. IsFiniteSet({made[a] : a \in kept})
  BY <1>7, ImageIsFinite
<1> QED BY <1>1, <1>2, <1>6, <1>7, <1>8, <1>9

LEMMA LinkPassagesStep ==
  ASSUME WalkInv, LinkPassages
  PROVE  WalkInv'
<1> DEFINE of == [e \in DOMAIN best |->
                    Links(e, Defs[e], "defines", 100)
                    \cup Links(e, Mentions[e], "mentions", IF best[e].steps = <<>> THEN 30 ELSE 50)]
           sets == {of[e] : e \in DOMAIN best}
           new == UNION sets
<1>1. /\ hits' = Upsert(hits, new) /\ lex' = lex /\ best' = best /\ frontier' = frontier
      /\ dead' = dead /\ granted' = granted /\ exclude' = exclude
  <2>1. sets = {Links(e, Defs[e], "defines", 100)
                \cup Links(e, Mentions[e], "mentions", IF best[e].steps = <<>> THEN 30 ELSE 50) :
                e \in DOMAIN best}
    OBVIOUS
  <2> HIDE DEF sets, of
  <2> QED BY <2>1 DEF LinkPassages, request
<1>2. Visible' = Visible
  BY <1>1 DEF Visible, Alive
<1>3. ASSUME NEW e \in DOMAIN best
      PROVE  IsFiniteSet(of[e]) /\ \A x \in of[e] : x.at \in Places(Visible) /\ x.act \in Nat
  <2> DEFINE w == IF best[e].steps = <<>> THEN 30 ELSE 50
             defs == Links(e, Defs[e], "defines", 100)
             mentions == Links(e, Mentions[e], "mentions", w)
  <2>1. Defs[e] \subseteq Places(StoredDoc) /\ Mentions[e] \subseteq Places(StoredDoc)
    BY RetrieveAssumption DEF WalkInv
  <2>2. w \in Nat /\ 100 \in Nat
    OBVIOUS
  <2>3. of[e] = defs \cup mentions
    OBVIOUS
  <2> HIDE DEF w
  <2>4. IsFiniteSet(defs) /\ \A x \in defs : x.at \in Places(Visible) /\ x.act \in Nat
    BY <2>1, <2>2, LinksAreSeen
  <2>5. IsFiniteSet(mentions) /\ \A x \in mentions : x.at \in Places(Visible) /\ x.act \in Nat
    BY <2>1, <2>2, LinksAreSeen
  <2> HIDE DEF defs, mentions, of
  <2>6. IsFiniteSet(defs \cup mentions)
    BY <2>4, <2>5, FS_Union
  <2> QED BY <2>3, <2>4, <2>5, <2>6
<1> HIDE DEF of
<1>4. IsFiniteSet(sets)
  BY ImageIsFinite DEF WalkInv
<1>5. \A s \in sets : IsFiniteSet(s) /\ \A x \in s : x.at \in Places(Visible) /\ x.act \in Nat
  BY <1>3
<1> HIDE DEF sets
<1>6. IsFiniteSet(new)
  BY <1>4, <1>5, FS_UNION
<1>7. \A x \in new : x.at \in Places(Visible) /\ x.act \in Nat
  BY <1>5
<1> HIDE DEF new
<1>8. DOMAIN hits \subseteq Places(Visible) /\ \A a \in DOMAIN hits : hits[a].act \in Nat
  BY DEF WalkInv
<1>9. DOMAIN hits' \subseteq Places(Visible) /\ \A a \in DOMAIN hits' : hits'[a].act \in Nat
  BY <1>1, <1>6, <1>7, <1>8, UpsertKeeps
<1> QED BY <1>1, <1>2, <1>9 DEF WalkInv

LEMMA WalkStays ==
  ASSUME WalkInv, UNCHANGED <<request, walked>>
  PROVE  WalkInv'
<1>1. /\ lex' = lex /\ best' = best /\ frontier' = frontier /\ hits' = hits
      /\ dead' = dead /\ granted' = granted /\ exclude' = exclude
  BY DEF request, walked
<1>2. Visible' = Visible
  BY <1>1 DEF Visible, Alive
<1> QED BY <1>1, <1>2 DEF WalkInv

LEMMA ReadStays ==
  ASSUME ReadInv, UNCHANGED <<request, read>>
  PROVE  ReadInv'
<1>1. /\ tree' = tree /\ opened' = opened /\ stored' = stored /\ liveHits' = liveHits
      /\ dead' = dead /\ granted' = granted /\ exclude' = exclude
  BY DEF request, read
<1>2. Visible' = Visible
  BY <1>1 DEF Visible, Alive
<1> QED BY <1>1, <1>2 DEF ReadInv, PlaceOf

LEMMA EditStep ==
  ASSUME ReadInv, NEW k \in FileKey, NEW v \in Version, Edit(k, v)
  PROVE  ReadInv'
<1>1. /\ tree' = [tree EXCEPT ![k] = v] /\ Key[v] = k
      /\ opened' = opened /\ stored' = stored /\ liveHits' = liveHits
      /\ dead' = dead /\ granted' = granted /\ exclude' = exclude
  BY DEF Edit, request
<1>2. Visible' = Visible
  BY <1>1 DEF Visible, Alive
<1>3. tree' \in [FileKey -> Version] /\ \A x \in FileKey : Key[tree'[x]] = x
  BY <1>1 DEF ReadInv
<1> QED BY <1>1, <1>2, <1>3 DEF ReadInv, PlaceOf

LEMMA HitPlaces ==
  ASSUME NEW D, NEW d \in D, NEW lines, NEW h \in Hit(d, lines)
  PROVE  PlaceOf(h) \in Places(D) /\ h[1] = d
<1>1. h[1] = d /\ h[2] \in DOMAIN Passages[d]
  BY DEF Hit
<1> QED BY <1>1 DEF PlaceOf, Places

LEMMA BothIn ==
  ASSUME NEW A, NEW B
  PROVE  A \cap B \subseteq B
OBVIOUS

LEMMA SearchIdentifierStep ==
  ASSUME ReadInv, SearchIdentifier
  PROVE  ReadInv'
<1> DEFINE lines(k) == Matches[tree[k]][Identifiers[ident]]
           same == (UNION {Lookup(k) : k \in {x \in Found : Current(x)}}) \cap Visible
           newer == {k \in Found : ~Current(k)}
<1>1. /\ SourceScope \in granted /\ tree' = tree
      /\ stored' = stored \cup UNION {Hit(d, lines(Key[d])) : d \in same}
      /\ opened' = [k \in DOMAIN opened \cup newer |-> IF k \in DOMAIN opened THEN opened[k] ELSE tree[k]]
      /\ liveHits' = liveHits \cup UNION {Hit(opened'[k], lines(k)) : k \in newer}
      /\ dead' = dead /\ granted' = granted /\ exclude' = exclude
  BY DEF SearchIdentifier, request
<1>2. Visible' = Visible
  BY <1>1 DEF Visible, Alive
<1>3. same \subseteq Visible
  BY BothIn
<1>4. \A k \in newer : k \in FileKey /\ k \notin exclude
  BY DEF Found
<1> HIDE DEF lines, same, newer
<1>5. \A h \in stored' : PlaceOf(h) \in Places(Visible)
  <2> SUFFICES ASSUME NEW h \in stored' PROVE PlaceOf(h) \in Places(Visible)
    OBVIOUS
  <2>1. CASE h \in stored
    BY <2>1 DEF ReadInv
  <2>2. CASE h \notin stored
    <3>1. PICK d \in same : h \in Hit(d, lines(Key[d]))
      BY <1>1, <2>2
    <3>2. d \in Visible
      BY <1>3, <3>1
    <3> QED BY <3>1, <3>2, HitPlaces
  <2> QED BY <2>1, <2>2
<1>6. DOMAIN opened' = DOMAIN opened \cup newer
  BY <1>1
<1>7. \A k \in DOMAIN opened' : opened'[k] \in Version /\ Key[opened'[k]] = k /\ k \notin exclude
  <2> SUFFICES ASSUME NEW k \in DOMAIN opened'
               PROVE  opened'[k] \in Version /\ Key[opened'[k]] = k /\ k \notin exclude
    OBVIOUS
  <2>1. CASE k \in DOMAIN opened
    BY <1>1, <2>1 DEF ReadInv
  <2>2. CASE k \notin DOMAIN opened
    <3>1. k \in FileKey /\ k \notin exclude /\ opened'[k] = tree[k]
      BY <1>1, <1>4, <1>6, <2>2
    <3> QED BY <3>1 DEF ReadInv
  <2> QED BY <2>1, <2>2
<1>8. \A h \in liveHits' : /\ PlaceOf(h) \in Places(Version)
                           /\ Key[h[1]] \in DOMAIN opened' /\ h[1] = opened'[Key[h[1]]]
  <2> SUFFICES ASSUME NEW h \in liveHits'
               PROVE  /\ PlaceOf(h) \in Places(Version)
                      /\ Key[h[1]] \in DOMAIN opened' /\ h[1] = opened'[Key[h[1]]]
    OBVIOUS
  <2>1. CASE h \in liveHits
    <3>1. /\ PlaceOf(h) \in Places(Version) /\ Key[h[1]] \in DOMAIN opened
          /\ h[1] = opened[Key[h[1]]]
      BY <2>1 DEF ReadInv
    <3>2. opened'[Key[h[1]]] = opened[Key[h[1]]]
      BY <1>1, <3>1
    <3> QED BY <1>6, <3>1, <3>2
  <2>2. CASE h \notin liveHits
    <3>1. PICK k \in newer : h \in Hit(opened'[k], lines(k))
      BY <1>1, <2>2
    <3>2. k \in DOMAIN opened' /\ opened'[k] \in Version /\ Key[opened'[k]] = k
      BY <1>6, <1>7, <3>1
    <3>3. PlaceOf(h) \in Places(Version) /\ h[1] = opened'[k]
      BY <3>1, <3>2, HitPlaces
    <3> QED BY <3>2, <3>3
  <2> QED BY <2>1, <2>2
<1>9. tree \in [FileKey -> Version] /\ \A k \in FileKey : Key[tree[k]] = k
  BY DEF ReadInv
<1> QED BY <1>1, <1>2, <1>5, <1>7, <1>8, <1>9 DEF ReadInv, PlaceOf

-------------------------------------------------------------------------------
(* Scores and chains *)

LEMMA NearestAreSeen ==
  /\ ByWeight(BestFirst({a \in DOMAIN Vectors : Seen(a)}, Vectors), {a \in DOMAIN Vectors : Seen(a)}, Vectors)
  /\ Nearest \in Seq({a \in DOMAIN Vectors : Seen(a)})
  /\ ToSet(Nearest) \subseteq Places(Visible)
  /\ \A i, j \in DOMAIN Nearest : i < j => Vectors[Nearest[j]] <= Vectors[Nearest[i]]
  /\ \A a \in DOMAIN Vectors : Vectors[a] \in Nat
<1> DEFINE S == {a \in DOMAIN Vectors : Seen(a)}
           b == BestFirst(S, Vectors)
<1>1. DOMAIN Vectors \subseteq Places(StoredDoc) /\ \A a \in DOMAIN Vectors : Vectors[a] \in Nat
  BY RetrieveAssumption
<1>2. S \subseteq Places(Visible) /\ \A a \in S : Vectors[a] \in Nat
  BY <1>1, StoredPlaces
<1>3. IsFiniteSet(S)
  <2>1. S \subseteq Places(StoredDoc)
    BY <1>1
  <2> QED BY <2>1, StoredPlaces, FS_Subset
<1>4. NearLimit \in Nat
  BY RetrieveAssumption
<1>5. Nearest = First(b, NearLimit)
  BY DEF Nearest
<1> HIDE DEF S
<1>6. ByWeight(b, S, Vectors)
  BY <1>2, <1>3, BestAreFirst
<1> HIDE DEF b
<1>7. b \in Seq(S) /\ \A i, j \in DOMAIN b : i < j => Vectors[b[j]] <= Vectors[b[i]]
  BY <1>6 DEF ByWeight
<1>8. /\ Nearest \in Seq(S) /\ ToSet(Nearest) \subseteq S
      /\ \A k \in DOMAIN Nearest : k \in DOMAIN b /\ Nearest[k] = b[k]
  <2> DEFINE s == First(b, NearLimit)
  <2>1. b \in Seq(S)
    BY <1>7
  <2>2. s \in Seq(S) /\ ToSet(s) \subseteq S
    BY <1>4, <2>1, FirstOf
  <2>3. \A k \in DOMAIN s : k \in DOMAIN b /\ s[k] = b[k]
    BY <1>4, <2>1, FirstOf
  <2> HIDE DEF s
  <2>4. Nearest = s
    BY <1>5 DEF s
  <2> QED BY <2>2, <2>3, <2>4
<1>9. \A i, j \in DOMAIN Nearest : i < j => Vectors[Nearest[j]] <= Vectors[Nearest[i]]
  BY <1>7, <1>8
<1> QED BY <1>1, <1>2, <1>6, <1>8, <1>9 DEF S, b

LEMMA SimilarityIsNat ==
  ASSUME NEW a
  PROVE  Similarity(a) \in Nat
<1>1. CASE Nearest = <<>> \/ a \notin DOMAIN Vectors
  BY <1>1 DEF Similarity
<1>2. CASE Nearest # <<>> /\ a \in DOMAIN Vectors
  <2> DEFINE S == {x \in DOMAIN Vectors : Seen(x)}
             hi == Vectors[Nearest[1]]
             lo == Vectors[Nearest[Len(Nearest)]]
  <2>1. Similarity(a) = IF hi = lo THEN IF Vectors[a] >= hi THEN 100 ELSE 0
                        ELSE Least(100, (Minus(Vectors[a], lo) * 100) \div (hi - lo))
    BY <1>2 DEF Similarity
  <2>2. Nearest \in Seq(S) /\ \A x \in S : Vectors[x] \in Nat
    BY NearestAreSeen
  <2> HIDE DEF S
  <2>3. hi \in Nat /\ lo \in Nat /\ Vectors[a] \in Nat
    BY <1>2, <2>2, NearestAreSeen
  <2>4. lo <= hi
    <3>1. 1 \in DOMAIN Nearest /\ Len(Nearest) \in DOMAIN Nearest /\ Len(Nearest) \in Nat \ {0}
      BY <1>2, <2>2
    <3>2. CASE Len(Nearest) = 1
      BY <2>3, <3>2
    <3>3. CASE 1 < Len(Nearest)
      BY <3>1, <3>3, NearestAreSeen
    <3> QED BY <3>1, <3>2, <3>3, SMTT(30)
  <2> HIDE DEF hi, lo
  <2>5. hi # lo => Least(100, (Minus(Vectors[a], lo) * 100) \div (hi - lo)) \in Nat
    <3> DEFINE n == Minus(Vectors[a], lo) * 100
               d == hi - lo
    <3> SUFFICES ASSUME hi # lo PROVE Least(100, n \div d) \in Nat
      OBVIOUS
    <3>1. n \in Nat
      BY <2>3 DEF Minus
    <3>2. d \in Nat /\ d # 0
      BY <2>3, <2>4
    <3> HIDE DEF n, d
    <3>3. n \div d \in Nat
      BY <3>1, <3>2, Quotient
    <3> QED BY <3>3 DEF Least
  <2> QED BY <2>1, <2>5
<1> QED BY <1>1, <1>2

LEMMA LexPercentIsNat ==
  ASSUME WalkInv, NEW a
  PROVE  LexPercent(a) \in Nat
<1>1. CASE a \notin DOMAIN lex
  BY <1>1 DEF LexPercent
<1>2. CASE a \in DOMAIN lex
  <2> DEFINE scores == {lex[b] : b \in DOMAIN lex}
             T == scores \cup {1}
  <2>1. \A b \in DOMAIN lex : lex[b] \in Nat
    BY DEF WalkInv
  <2>2. IsFiniteSet(DOMAIN lex)
    <3>1. DOMAIN lex \subseteq Places(StoredDoc)
      BY StoredPlaces DEF WalkInv
    <3> QED BY <3>1, StoredPlaces, FS_Subset
  <2>3. IsFiniteSet(scores) /\ scores \subseteq Nat
    BY <2>1, <2>2, ImageIsFinite
  <2>5. LexPercent(a) = (lex[a] * 100) \div Max(T)
    BY <1>2 DEF LexPercent
  <2> HIDE DEF scores
  <2>4. IsFiniteSet(T) /\ T \subseteq Nat /\ 1 \in T /\ T # {}
    <3>1. IsFiniteSet({1})
      BY FS_Singleton
    <3>2. IsFiniteSet(T)
      BY <2>3, <3>1, FS_Union
    <3> QED BY <2>3, <3>2
  <2> HIDE DEF T
  <2>6. Max(T) \in Nat /\ Max(T) # 0
    <3>1. Max(T) \in T /\ \A m \in T : m <= Max(T)
      BY <2>4, GreatestIsMember
    <3> DEFINE top == Max(T)
    <3> HIDE DEF top
    <3>2. top \in T /\ \A m \in T : m <= top
      BY <3>1 DEF top
    <3>3. top \in Nat /\ 1 <= top
      BY <2>4, <3>2
    <3>4. top \in Nat /\ top # 0
      BY <3>3
    <3> QED BY <3>4 DEF top
  <2> DEFINE n == lex[a] * 100
  <2>7. n \in Nat
    BY <1>2, <2>1
  <2> HIDE DEF n
  <2>8. n \div Max(T) \in Nat
    BY <2>6, <2>7, Quotient
  <2> QED BY <2>5, <2>8 DEF n
<1> QED BY <1>1, <1>2

LEMMA PrelimIsNat ==
  ASSUME WalkInv, NEW a
  PROVE  Prelim(a) \in Nat /\ Graph(a) \in Nat
<1>1. Graph(a) \in Nat
  BY DEF Graph, WalkInv
<1>2. LexPercent(a) \in Nat /\ Similarity(a) \in Nat
  BY LexPercentIsNat, SimilarityIsNat
<1> QED BY <1>1, <1>2 DEF Prelim

\* What a ranking may show: visible places that no live text replaces, and live ones.
Eligible ==
  {a \in Places(Visible) : Key[a[1]] \notin LiveKeys} \cup {PlaceOf(h) : h \in liveHits}

LEMMA CandidatesAreEligible ==
  ASSUME WalkInv, ReadInv
  PROVE  Candidates \subseteq Eligible
<1> DEFINE weight == [a \in Pool |-> Prelim(a)]
<1>1. Pool \subseteq Places(Visible)
  <2>1. DOMAIN lex \subseteq Places(Visible) /\ DOMAIN hits \subseteq Places(Visible)
    BY DEF WalkInv
  <2>2. {PlaceOf(h) : h \in stored} \subseteq Places(Visible)
    BY DEF ReadInv
  <2> QED BY <2>1, <2>2, NearestAreSeen DEF Pool
<1>2. IsFiniteSet(Pool)
  <2>1. Pool \subseteq Places(StoredDoc)
    BY <1>1, StoredPlaces
  <2> QED BY <2>1, StoredPlaces, FS_Subset
<1>3. \A a \in Pool : weight[a] \in Nat
  BY PrelimIsNat
<1>4. Most(1, RerankLimit) \in Nat
  BY RetrieveAssumption DEF Most
<1>5. Reranked = ToSet(First(BestFirst(Pool, weight), Most(1, RerankLimit)))
  BY DEF Reranked
<1> HIDE DEF weight
<1>6. Reranked \subseteq Pool
  BY <1>2, <1>3, <1>4, <1>5, FewBest
<1> QED BY <1>1, <1>6 DEF Candidates, Eligible

LEMMA EligiblePlaces ==
  ASSUME ReadInv
  PROVE  /\ IsFiniteSet(Eligible)
         /\ \A a \in Eligible : a \in Places(StoredDoc \cup Version)
<1>1. {a \in Places(Visible) : Key[a[1]] \notin LiveKeys} \subseteq Places(StoredDoc)
  BY StoredPlaces
<1>2. {PlaceOf(h) : h \in liveHits} \subseteq Places(Version)
  BY DEF ReadInv
<1>3. Eligible \subseteq Places(StoredDoc) \cup Places(Version)
  BY <1>1, <1>2 DEF Eligible
<1>4. IsFiniteSet(Places(StoredDoc) \cup Places(Version))
  BY StoredPlaces, FS_Union
<1>5. IsFiniteSet(Eligible)
  BY <1>3, <1>4, FS_Subset
<1>6. \A a \in Places(StoredDoc) \cup Places(Version) : a \in Places(StoredDoc \cup Version)
  BY DEF Places
<1> QED BY <1>3, <1>5, <1>6

LEMMA CombinedIsNat ==
  ASSUME WalkInv, ReadInv, NEW a \in Eligible
  PROVE  Combined(a) \in Nat
<1> DEFINE exact == IF a \in Exact THEN 100 ELSE 0
           graph == Least(100, Graph(a))
           c == WLex * Coverage(a)
           x == WExact * exact
           g == WGraph * graph
           n == WNear * Similarity(a)
           total == c + x + g + n
           p == total * Prior[a[1]]
<1>1. WLex \in Nat /\ WExact \in Nat /\ WGraph \in Nat /\ WNear \in Nat
  BY RetrieveAssumption
<1>2. Prior[a[1]] \in Nat
  <2>1. a[1] \in StoredDoc \cup Version
    BY EligiblePlaces, PlaceFields
  <2> QED BY <2>1, RetrieveAssumption
<1>3. exact \in Nat
  OBVIOUS
<1>4. graph \in Nat
  BY PrelimIsNat DEF Least
<1>5. Coverage(a) \in Nat
  <2>1. IsFiniteSet(Question)
    BY RetrieveAssumption
  <2>2. CASE Question = {}
    BY <2>2 DEF Coverage
  <2>3. CASE Question # {}
    <3> DEFINE q == Cardinality(Question)
               m == 100 * Cardinality(TermsOf(a) \cap Question)
    <3>1. q \in Nat /\ q # 0
      BY <2>1, <2>3, FS_CardinalityType, FS_EmptySet
    <3>2. m \in Nat
      <4>1. IsFiniteSet(TermsOf(a) \cap Question)
        <5>1. TermsOf(a) \cap Question \subseteq Question
          OBVIOUS
        <5> QED BY <2>1, <5>1, FS_Subset
      <4>2. Cardinality(TermsOf(a) \cap Question) \in Nat
        BY <4>1, FS_CardinalityType
      <4> QED BY <4>2
    <3>3. Coverage(a) = m \div q
      BY <2>3 DEF Coverage
    <3> HIDE DEF m, q
    <3> QED BY <3>1, <3>2, <3>3, Quotient
  <2> QED BY <2>2, <2>3
<1>6. Similarity(a) \in Nat
  BY SimilarityIsNat
<1>7. Combined(a) = p \div 10000
  BY DEF Combined
<1> HIDE DEF exact, graph
<1>8. c \in Nat /\ x \in Nat /\ g \in Nat /\ n \in Nat
  BY <1>1, <1>3, <1>4, <1>5, <1>6, Product
<1> HIDE DEF c, x, g, n
<1>9. total \in Nat
  BY <1>8
<1> HIDE DEF total
<1>10. p \in Nat
  BY <1>2, <1>9, Product
<1> HIDE DEF p
<1>11. p \div 10000 \in Nat
  BY <1>10
<1> QED BY <1>7, <1>11

ScoreInv ==
  DOMAIN score \subseteq Eligible /\ \A a \in DOMAIN score : score[a] \in Nat \ {0}

LEMMA ScoreCandidatesStep ==
  ASSUME WalkInv, ReadInv, ScoreCandidates
  PROVE  ScoreInv'
<1> DEFINE scored == {x \in Candidates : Tied(x) /\ Combined(x) > 0}
<1>1. /\ score' = [a \in scored |-> Combined(a)] /\ liveHits' = liveHits
      /\ dead' = dead /\ granted' = granted /\ exclude' = exclude
  BY DEF ScoreCandidates, request, read
<1>2. Eligible' = Eligible
  BY <1>1 DEF Eligible, LiveKeys, Visible, Alive, PlaceOf
<1>3. \A a \in scored : a \in Eligible /\ Combined(a) \in Nat \ {0}
  BY CandidatesAreEligible, CombinedIsNat
<1> HIDE DEF scored
<1> QED BY <1>1, <1>2, <1>3 DEF ScoreInv

LEMMA CarryIsLess ==
  /\ \A n \in 1 .. Hops : Carry[n] \in 0 .. 85
  /\ Carry[0] = 100
<1> DEFINE X == 0 .. 100
           step == [p \in Nat \X X |-> (p[2] * 85) \div 100]
           Is(f) == f = [n \in 0 .. Hops |-> IF n = 0 THEN 100 ELSE (f[n - 1] * 85) \div 100]
<1>1. Hops \in Nat
  BY RetrieveAssumption
<1>2. step \in [Nat \X X -> X] /\ 100 \in X
  OBVIOUS
<1>3. \A k \in Nat, x \in X : step[<<k, x>>] = (x * 85) \div 100
  OBVIOUS
<1> HIDE DEF step
<1>4. \A x \in X : (x * 85) \div 100 \in 0 .. 85
  OBVIOUS
<1> HIDE DEF X
<1>5. PICK f : Recursive(f, X, 100, step, Hops)
  BY <1>1, <1>2, Recursion
<1>6. f \in [0 .. Hops -> X] /\ f[0] = 100 /\ \A k \in 1 .. Hops : f[k] = (f[k - 1] * 85) \div 100
  <2>1. f \in [0 .. Hops -> X] /\ f[0] = 100
    BY <1>5 DEF Recursive
  <2>2. \A k \in 1 .. Hops : k \in Nat /\ k - 1 \in 0 .. Hops
    BY <1>1
  <2>3. \A k \in 1 .. Hops : f[k] = step[<<k, f[k - 1]>>]
    BY <1>5 DEF Recursive
  <2>4. ASSUME NEW k \in 1 .. Hops PROVE f[k] = (f[k - 1] * 85) \div 100
    <3>1. f[k - 1] \in X /\ k \in Nat
      BY <2>1, <2>2
    <3>2. step[<<k, f[k - 1]>>] = (f[k - 1] * 85) \div 100
      BY <1>3, <3>1
    <3> QED BY <2>3, <3>2
  <2> QED BY <2>1, <2>4
<1>7. Is(f)
  <2>1. \A k \in 0 .. Hops : k # 0 => k \in 1 .. Hops
    BY <1>1
  <2> QED BY <1>6, <2>1
<1>8. Carry = CHOOSE c : Is(c)
  BY DEF Carry
<1>9. Is(Carry)
  <2> HIDE DEF Is
  <2> QED BY <1>7, <1>8
<1> DEFINE T == {n \in Nat : n > Hops \/ Carry[n] = f[n]}
<1>10. 0 \in T /\ Carry[0] = 100
  BY <1>1, <1>6, <1>9
<1>11. ASSUME NEW n \in Nat, n \in T PROVE n + 1 \in T
  <2>1. CASE n + 1 > Hops
    BY <2>1
  <2>2. CASE ~(n + 1 > Hops)
    <3>1. n + 1 \in 0 .. Hops /\ n + 1 \in 1 .. Hops /\ n + 1 # 0 /\ (n + 1) - 1 = n /\ Carry[n] = f[n]
      BY <1>1, <1>11, <2>2
    <3>2. Carry[n + 1] = (Carry[n] * 85) \div 100
      BY <1>9, <3>1
    <3>3. f[n + 1] = (f[n] * 85) \div 100
      BY <1>6, <3>1
    <3> QED BY <3>1, <3>2, <3>3
  <2> QED BY <2>1, <2>2
<1>12. \A n \in Nat : n \in T
  <2> HIDE DEF T
  <2> QED BY <1>10, <1>11, NatSet
<1>13. ASSUME NEW n \in 1 .. Hops PROVE Carry[n] \in 0 .. 85
  <2>1. n \in Nat /\ ~(n > Hops) /\ n - 1 \in 0 .. Hops
    BY <1>1
  <2>2. Carry[n] = f[n]
    BY <1>12, <2>1
  <2>3. f[n - 1] \in X /\ f[n] = (f[n - 1] * 85) \div 100
    BY <1>6, <2>1
  <2> QED BY <1>4, <2>2, <2>3
<1> QED BY <1>10, <1>13

LEMMA Shrinks ==
  ASSUME NEW s \in Nat \ {0}, NEW c \in 0 .. 85
  PROVE  (s * c) \div 100 \in Nat /\ (s * c) \div 100 < s
<1>1. s * c \in Nat /\ s * c <= s * 85
  <2>1. 85 - c \in Nat
    OBVIOUS
  <2>2. s * (85 - c) \in Nat
    BY <2>1
  <2>3. s * 85 = s * c + s * (85 - c)
    OBVIOUS
  <2>4. s * c \in Nat
    OBVIOUS
  <2> QED BY <2>2, <2>3, <2>4
<1> DEFINE p == s * c
<1>2. p \in Nat /\ p <= s * 85
  BY <1>1
<1> HIDE DEF p
<1>3. p \div 100 \in Nat /\ p \div 100 < s
  BY <1>2
<1> QED BY <1>3 DEF p

\* What a passage inherits is less than the score of one that leads to it.
LEMMA InheritedFollows ==
  ASSUME ReadInv, ScoreInv, NEW a
  PROVE  /\ Inherited(a) \in Nat
         /\ Inherited(a) > 0 => \E b \in DOMAIN score : Leads(b, a) /\ Inherited(a) < score[b]
<1> DEFINE last == StepsOf(a)[Len(StepsOf(a))]
           share == IF last.rel \in Asked THEN 100 ELSE 90
           pairs == {y \in (DOMAIN score) \X (1 .. Hops) :
                       Leads(y[1], a) /\ y[2] \in HopsFrom(y[1], StepsOf(a))}
           gift == [x \in pairs |-> (score[x[1]] * Carry[x[2]]) \div 100]
           from == {gift[x] : x \in pairs}
           all == from \cup {0}
<1>1. Inherited(a) = (Max(all) * share) \div 100
  <2>1. from = {(score[x[1]] * Carry[x[2]]) \div 100 : x \in pairs}
    OBVIOUS
  <2> HIDE DEF from, gift
  <2> QED BY <2>1 DEF Inherited
<1>2. share \in {90, 100}
  OBVIOUS
<1> HIDE DEF share
<1>3. \A x \in pairs : x[1] \in DOMAIN score /\ x[2] \in 1 .. Hops /\ Leads(x[1], a)
  OBVIOUS
<1>4. IsFiniteSet(pairs)
  <2>1. IsFiniteSet(DOMAIN score)
    BY EligiblePlaces, FS_Subset DEF ScoreInv
  <2>2. IsFiniteSet(1 .. Hops)
    <3>1. \A n \in Nat : IsFiniteSet(1 .. n)
      BY FS_Interval
    <3> QED BY <3>1, RetrieveAssumption
  <2>3. IsFiniteSet((DOMAIN score) \X (1 .. Hops))
    BY <2>1, <2>2, FS_Product
  <2>4. pairs \subseteq (DOMAIN score) \X (1 .. Hops)
    OBVIOUS
  <2> HIDE DEF pairs
  <2> QED BY <2>3, <2>4, FS_Subset
<1> HIDE DEF pairs
<1>5. ASSUME NEW x \in pairs PROVE gift[x] \in Nat /\ gift[x] < score[x[1]]
  <2>1. score[x[1]] \in Nat \ {0} /\ Carry[x[2]] \in 0 .. 85
    BY <1>3, CarryIsLess DEF ScoreInv
  <2>2. gift[x] = (score[x[1]] * Carry[x[2]]) \div 100
    OBVIOUS
  <2> HIDE DEF gift
  <2> QED BY <2>1, <2>2, Shrinks
<1> HIDE DEF gift
<1>6. IsFiniteSet(from) /\ from \subseteq Nat
  BY <1>4, <1>5, ImageIsFinite
<1>7. \A m \in from : \E x \in pairs : m = gift[x]
  OBVIOUS
<1> HIDE DEF from
<1>8. IsFiniteSet(all) /\ all \subseteq Nat /\ all # {}
  <2>1. IsFiniteSet({0})
    BY FS_Singleton
  <2>2. IsFiniteSet(all)
    BY <1>6, <2>1, FS_Union
  <2> QED BY <1>6, <2>2
<1> DEFINE top == Max(all)
<1>9. top \in all
  <2> HIDE DEF all
  <2> QED BY <1>8, GreatestIsMember
<1>10. Inherited(a) = (top * share) \div 100
  BY <1>1
<1> HIDE DEF top
<1>11. top \in Nat /\ (top # 0 => top \in from)
  BY <1>6, <1>9
<1>12. Inherited(a) \in Nat /\ Inherited(a) <= top
  <2>1. CASE share = 90
    BY <1>10, <1>11, <2>1
  <2>2. CASE share = 100
    BY <1>10, <1>11, <2>2
  <2> QED BY <1>2, <2>1, <2>2
<1>13. ASSUME Inherited(a) > 0
       PROVE  \E b \in DOMAIN score : Leads(b, a) /\ Inherited(a) < score[b]
  <2>1. top \in from
    BY <1>11, <1>12, <1>13
  <2>2. PICK x \in pairs : top = gift[x]
    BY <1>7, <2>1
  <2>3. x[1] \in DOMAIN score /\ Leads(x[1], a) /\ top < score[x[1]]
    BY <1>3, <1>5, <2>2
  <2>4. score[x[1]] \in Nat
    BY <2>3 DEF ScoreInv
  <2>5. Inherited(a) < score[x[1]]
    BY <1>11, <1>12, <2>3, <2>4
  <2> QED BY <2>3, <2>5
<1> QED BY <1>12, <1>13

\* A passage is raised above its own score to less than that of one that leads to it.
LiftInv ==
  \A a \in DOMAIN lifted :
    /\ a \in DOMAIN score /\ lifted[a] \in Nat /\ score[a] < lifted[a]
    /\ \E b \in DOMAIN score : Leads(b, a) /\ lifted[a] < score[b]

LEMMA ChainsStay ==
  ASSUME hits' = hits, NEW a, NEW b
  PROVE  /\ StepsOf(a)' = StepsOf(a)
         /\ HopsFrom(b, StepsOf(a))' = HopsFrom(b, StepsOf(a))
         /\ Leads(b, a)' = Leads(b, a)
<1>1. StepsOf(a)' = StepsOf(a)
  BY DEF StepsOf
<1>2. HopsFrom(b, StepsOf(a))' = HopsFrom(b, StepsOf(a))
  BY DEF HopsFrom, StepsOf
<1>3. Leads(b, a)' = Leads(b, a)
  BY DEF Leads, HopsFrom, StepsOf, States
<1> QED BY <1>1, <1>2, <1>3

LEMMA LiftStep ==
  ASSUME ReadInv, ScoreInv, Lift
  PROVE  LiftInv'
<1> DEFINE up == [a \in {x \in DOMAIN score : StepsOf(x) # <<>>} |-> Inherited(a)]
           higher == {a \in DOMAIN up : up[a] > score[a]}
           weight == [a \in higher |-> 1000 * Merit(a) + up[a]]
           taken == ToSet(First(BestFirst(higher, weight), MaxLifts))
<1>1. lifted' = [a \in taken |-> up[a]] /\ score' = score /\ hits' = hits
  <2> DEFINE above(u) == {a \in DOMAIN u : u[a] > score[a]}
             first(u) == First(BestFirst(above(u), [a \in above(u) |-> 1000 * Merit(a) + u[a]]), MaxLifts)
  <2>1. score' = score /\ hits' = hits
    BY DEF Lift, walked
  <2>2. \E u \in {up} : lifted' = [a \in ToSet(first(u)) |-> u[a]]
    BY Zenon DEF Lift
  <2>3. lifted' = [a \in ToSet(first(up)) |-> up[a]]
    <3> HIDE DEF up, first
    <3> QED BY <2>2
  <2>4. taken = ToSet(first(up))
    OBVIOUS
  <2> HIDE DEF up, first, taken
  <2> QED BY <2>1, <2>3, <2>4
<1>2. \A a \in DOMAIN up : a \in DOMAIN score /\ up[a] = Inherited(a)
  OBVIOUS
<1> HIDE DEF up
<1>3. \A a \in higher : a \in DOMAIN score /\ up[a] = Inherited(a) /\ up[a] \in Nat /\ up[a] > score[a]
  BY <1>2, InheritedFollows
<1>4. taken \subseteq higher
  <2>1. \A a : Merit(a) \in Nat
    BY DEF Merit
  <2>2. \A a \in higher : weight[a] \in Nat
    BY <1>3, <2>1
  <2>3. IsFiniteSet(higher)
    <3>1. IsFiniteSet(DOMAIN score)
      BY EligiblePlaces, FS_Subset DEF ScoreInv
    <3>2. higher \subseteq DOMAIN score
      BY <1>3
    <3> QED BY <3>1, <3>2, FS_Subset
  <2>4. MaxLifts \in Nat
    BY RetrieveAssumption
  <2> HIDE DEF higher, weight
  <2> QED BY <2>2, <2>3, <2>4, FewBest
<1> HIDE DEF higher, taken
<1>5. ASSUME NEW a \in taken
      PROVE  /\ a \in DOMAIN score /\ lifted'[a] \in Nat /\ score[a] < lifted'[a]
             /\ \E b \in DOMAIN score : Leads(b, a) /\ lifted'[a] < score[b]
  <2>1. /\ a \in DOMAIN score /\ lifted'[a] = Inherited(a) /\ Inherited(a) \in Nat
        /\ Inherited(a) > score[a] /\ score[a] \in Nat
    BY <1>1, <1>3, <1>4, <1>5 DEF ScoreInv
  <2>2. Inherited(a) > 0
    BY <2>1
  <2>3. \E b \in DOMAIN score : Leads(b, a) /\ Inherited(a) < score[b]
    BY <2>2, InheritedFollows
  <2> QED BY <2>1, <2>3
<1>6. \A a, b : Leads(b, a)' = Leads(b, a)
  BY <1>1, ChainsStay
<1>7. DOMAIN lifted' = taken
  BY <1>1
<1> QED BY <1>1, <1>5, <1>6, <1>7 DEF LiftInv

-------------------------------------------------------------------------------
(* The ranking *)

\* What NothingUnseen asks of a document that is shown.
MayShow(d) ==
  /\ Key[d] \notin exclude
  /\ IF d \in StoredDoc THEN d \notin dead /\ ScopeOf[d] \in granted ELSE SourceScope \in granted

LEMMA EligibleMayShow ==
  ASSUME ReadInv, NEW a \in Eligible
  PROVE  MayShow(a[1])
<1>1. CASE a \in Places(Visible)
  <2>1. a[1] \in Visible
    BY <1>1, PlaceFields
  <2> QED BY <2>1 DEF MayShow, Visible, Alive
<1>2. CASE a \notin Places(Visible)
  <2>1. PICK h \in liveHits : a = PlaceOf(h)
    BY <1>2 DEF Eligible
  <2>2. a[1] = h[1] /\ a \in Places(Version)
    BY <2>1 DEF ReadInv, PlaceOf
  <2>3. a[1] \in Version /\ a[1] \notin StoredDoc
    BY <2>2, PlaceFields, RetrieveAssumption
  <2>4. Key[h[1]] \in DOMAIN opened /\ h[1] = opened[Key[h[1]]] /\ SourceScope \in granted
    BY DEF ReadInv
  <2>5. Key[a[1]] \notin exclude
    BY <2>2, <2>4 DEF ReadInv
  <2> QED BY <2>3, <2>4, <2>5 DEF MayShow
<1> QED BY <1>1, <1>2

LEMMA EligibleIsOneVersion ==
  ASSUME ReadInv, dead \in DeadSets, NEW a \in Eligible, NEW b \in Eligible, Key[a[1]] = Key[b[1]]
  PROVE  a[1] = b[1]
<1> DEFINE Stored(x) == x \in Places(Visible) /\ Key[x[1]] \notin LiveKeys
           Live(x) == Key[x[1]] \in LiveKeys /\ x[1] = opened[Key[x[1]]]
<1>1. ASSUME NEW x \in Eligible PROVE Stored(x) \/ Live(x)
  <2>1. ASSUME NEW h \in liveHits, x = PlaceOf(h) PROVE Live(x)
    <3>1. x[1] = h[1] /\ h[1] = opened[Key[h[1]]]
      BY <2>1 DEF ReadInv, PlaceOf
    <3> QED BY <3>1 DEF LiveKeys
  <2> QED BY <2>1 DEF Eligible
<1>2. CASE Stored(a) /\ Stored(b)
  <2>1. a[1] \in StoredDoc \ dead /\ b[1] \in StoredDoc \ dead
    <3>1. a[1] \in Visible /\ b[1] \in Visible
      BY <1>2, PlaceFields
    <3> QED BY <3>1 DEF Visible, Alive
  <2>2. \A d, e \in StoredDoc \ dead : Key[d] = Key[e] => d = e
    BY RetrieveAssumption
  <2> QED BY <2>1, <2>2
<1>3. CASE Live(a) /\ Live(b)
  BY <1>3
<1>4. Stored(a) <=> Stored(b)
  BY <1>1
<1> QED BY <1>1, <1>2, <1>3, <1>4

\* A raised passage comes after one that leads to it.
LEMMA ChainsAreFollowed ==
  ASSUME ReadInv, ScoreInv, LiftInv,
         NEW final, final = [a \in DOMAIN score |-> Final(a)],
         NEW order, order = First(BestFirst(DOMAIN score, final), MaxResults)
  PROVE  /\ order \in Seq(DOMAIN score) /\ \A a \in DOMAIN score : final[a] \in Nat
         /\ \A j \in DOMAIN order : order[j] \in DOMAIN lifted =>
                \E i \in 1 .. j - 1 : Leads(order[i], order[j])
<1> DEFINE S == DOMAIN score
           b == BestFirst(S, final)
<1>1. IsFiniteSet(S) /\ MaxResults \in Nat
  <2>1. IsFiniteSet(S)
    BY EligiblePlaces, FS_Subset DEF ScoreInv
  <2> QED BY <2>1, RetrieveAssumption
<1>2. ASSUME NEW a \in S
      PROVE  /\ final[a] \in Nat /\ score[a] \in Nat /\ score[a] <= final[a]
             /\ a \in DOMAIN lifted => final[a] = lifted[a]
  BY DEF Final, ScoreInv, LiftInv
<1>3. ByWeight(b, S, final)
  <2> HIDE DEF S
  <2> QED BY <1>1, <1>2, BestAreFirst
<1> HIDE DEF b
<1>4. /\ b \in Seq(S) /\ \A x \in S : \E k \in DOMAIN b : b[k] = x
      /\ \A i, j \in DOMAIN b : i < j => final[b[j]] <= final[b[i]]
  BY <1>3 DEF ByWeight
<1>5. order \in Seq(S)
  BY <1>1, <1>4, FirstOf DEF b
<1>6. \A k \in DOMAIN order : k \in DOMAIN b /\ order[k] = b[k]
  <2> DEFINE s == First(b, MaxResults)
  <2>1. b \in Seq(S)
    BY <1>4
  <2>2. \A k \in DOMAIN s : k \in DOMAIN b /\ s[k] = b[k]
    BY <1>1, <2>1, FirstOf
  <2>3. order = s
    BY DEF b
  <2> HIDE DEF s
  <2> QED BY <2>2, <2>3
<1>7. ASSUME NEW j \in DOMAIN order, order[j] \in DOMAIN lifted
      PROVE  \E i \in 1 .. j - 1 : Leads(order[i], order[j])
  <2> DEFINE a == order[j]
  <2>1. a \in S /\ a = b[j] /\ j \in DOMAIN b
    BY <1>5, <1>6
  <2>2. PICK c \in S : Leads(c, a) /\ lifted[a] < score[c]
    BY <1>7 DEF LiftInv
  <2>3. PICK i \in DOMAIN b : b[i] = c
    BY <1>4
  <2>4. lifted[a] \in Nat /\ final[a] < final[c]
    <3>1. final[a] = lifted[a] /\ final[a] \in Nat
      BY <1>2, <1>7, <2>1
    <3>2. score[c] <= final[c] /\ score[c] \in Nat /\ final[c] \in Nat
      BY <1>2
    <3> QED BY <2>2, <3>1, <3>2
  <2>5. i \in Nat /\ j \in Nat /\ DOMAIN b = 1 .. Len(b) /\ DOMAIN order = 1 .. Len(order) /\ Len(order) \in Nat
    BY <1>4, <1>5, <2>1
  <2>6. i < j
    <3>1. final[a] \in Nat /\ final[c] \in Nat
      BY <1>2, <2>1
    <3>2. i # j
      BY <2>1, <2>3, <2>4, <3>1
    <3>3. ~(j < i)
      <4>1. j < i => final[b[i]] <= final[b[j]]
        BY <1>4, <2>1
      <4> QED BY <2>1, <2>3, <2>4, <3>1, <4>1
    <3> QED BY <2>5, <3>2, <3>3
  <2>7. i \in DOMAIN order /\ i \in 1 .. j - 1
    BY <2>5, <2>6
  <2>8. order[i] = c
    BY <1>6, <2>3, <2>7
  <2> QED BY <2>2, <2>7, <2>8
<1> QED BY <1>2, <1>5, <1>7

\* What ChainsFollow asks of a passage and one ranked before it.
LeadsIn(b, a) ==
  /\ HopsFrom(b, StepsOf(a)) # {}
  /\ \/ \E k \in DOMAIN StepsOf(a) : StepsOf(a)[k].rel \in Asked
     \/ (TermsOf(a) \cap Question) \ TermsOf(b) # {}

LEMMA LeadersLeadIn ==
  ASSUME NEW a, NEW b, Leads(b, a)
  PROVE  LeadsIn(b, a)
BY DEF Leads, LeadsIn

\* What the retrieval promises of a ranking.
PlaceAt(k) == <<ranked[k].doc, ranked[k].idx>>
RankedRight ==
  /\ \A d \in RankedDocs : MayShow(d)
  /\ \A i, j \in DOMAIN ranked : Key[ranked[i].doc] = Key[ranked[j].doc] => ranked[i].doc = ranked[j].doc
  /\ \A j \in DOMAIN ranked : \A a \in DOMAIN lifted :
        a = PlaceAt(j) => \E i \in 1 .. j - 1 : \E b \in {PlaceAt(i)} : LeadsIn(b, a)

LEMMA RankStep ==
  ASSUME PackInv, spans = <<>>, blocks = <<>>, dead \in DeadSets, ReadInv, ScoreInv, LiftInv, Rank
  PROVE  PackInv' /\ RankedRight'
<1> DEFINE final == [a \in DOMAIN score |-> Final(a)]
           order == First(BestFirst(DOMAIN score, final), MaxResults)
           passage(k) == [doc |-> order[k][1], idx |-> order[k][2], score |-> Final(order[k]),
                          exempt |-> Exempt(order[k])]
<1>1. /\ ranked' = [k \in DOMAIN order |-> passage(k)]
      /\ todo' = ranked' /\ phase' = "merge" /\ budget' = budget /\ drift' = drift
      /\ spans' = spans /\ blocks' = blocks /\ used' = used /\ cursor' = cursor
  <2>1. /\ todo' = ranked' /\ phase' = "merge" /\ budget' = budget /\ drift' = drift
        /\ spans' = spans /\ blocks' = blocks /\ used' = used /\ cursor' = cursor
    BY DEF Rank
  <2>2. \E o \in {order} : ranked' = [k \in DOMAIN o |->
          [doc |-> o[k][1], idx |-> o[k][2], score |-> Final(o[k]), exempt |-> Exempt(o[k])]]
    BY Zenon DEF Rank
  <2> HIDE DEF order
  <2>3. ranked' = [k \in DOMAIN order |-> passage(k)]
    BY <2>2
  <2> QED BY <2>1, <2>3
<1>2. /\ hits' = hits /\ lifted' = lifted
      /\ dead' = dead /\ granted' = granted /\ exclude' = exclude
  BY DEF Rank, request, walked, scoring
<1>3. /\ order \in Seq(DOMAIN score) /\ \A a \in DOMAIN score : final[a] \in Nat
      /\ \A j \in DOMAIN order : order[j] \in DOMAIN lifted =>
            \E i \in 1 .. j - 1 : Leads(order[i], order[j])
  BY ChainsAreFollowed
<1>4. \A a \in DOMAIN score : Final(a) \in Nat
  BY <1>3
<1> HIDE DEF final, order
<1>5. \A a \in DOMAIN score : /\ a \in Eligible /\ a[1] \in StoredDoc \cup Version
                              /\ a[2] \in DOMAIN Passages[a[1]] /\ a = <<a[1], a[2]>>
  BY EligiblePlaces, PlaceFields DEF ScoreInv
<1>6. DOMAIN order = 1 .. Len(order) /\ Len(order) \in Nat /\ \A k \in DOMAIN order : order[k] \in DOMAIN score
  BY <1>3
<1>7. \A k \in DOMAIN order : /\ ranked'[k] = passage(k) /\ ranked'[k].doc = order[k][1]
                              /\ <<ranked'[k].doc, ranked'[k].idx>> = order[k]
  BY <1>1, <1>5, <1>6
<1>8. ASSUME NEW k \in DOMAIN order PROVE passage(k) \in RankedPassage
  <2>1. order[k] \in DOMAIN score
    BY <1>6
  <2>2. order[k][1] \in Doc /\ order[k][2] \in DOMAIN Passages[order[k][1]]
    BY <1>5, <2>1, RetrieveAssumption
  <2>3. order[k][2] \in Nat
    BY <2>2, EvidenceAssumption, SMTT(30)
  <2>4. Final(order[k]) \in Nat /\ Exempt(order[k]) \in BOOLEAN
    BY <1>4, <2>1 DEF Exempt
  <2> QED BY <2>2, <2>3, <2>4 DEF RankedPassage
<1>9. ranked' \in Seq(RankedPassage) /\ DOMAIN ranked' = DOMAIN order
  BY <1>1, <1>6, <1>8
<1> HIDE DEF passage
<1>10. PackInv'
  <2>1. ranked' \in Seq(PassageOf(RankedDocs'))
    BY <1>9, PassagesOfDocs DEF RankedDocs
  <2>2. PackTypes'
    BY <1>1, <1>9 DEF PackInv, PackTypes
  <2>3. spans' \in Seq(Span(RankedDocs')) /\ blocks' \in Seq(Block(RankedDocs'))
    BY <1>1
  <2> QED BY <1>1, <2>1, <2>2, <2>3 DEF PackInv, PassageOf, Span, Block, ShowsWhy
<1>11. \A d \in RankedDocs' : MayShow(d)'
  <2>1. \A d : MayShow(d) => MayShow(d)'
    BY <1>2 DEF MayShow
  <2>2. RankedDocs' = {ranked'[k].doc : k \in DOMAIN ranked'}
    BY DEF RankedDocs
  <2>3. \A k \in DOMAIN ranked' : MayShow(ranked'[k].doc)
    <3> SUFFICES ASSUME NEW k \in DOMAIN order PROVE MayShow(order[k][1])
      BY <1>7, <1>9
    <3> QED BY <1>5, <1>6, EligibleMayShow
  <2>4. \A d \in RankedDocs' : MayShow(d)
    BY <2>2, <2>3
  <2> QED BY <2>1, <2>4
<1>12. \A i, j \in DOMAIN ranked' : Key[ranked'[i].doc] = Key[ranked'[j].doc] => ranked'[i].doc = ranked'[j].doc
  <2> SUFFICES ASSUME NEW i \in DOMAIN order, NEW j \in DOMAIN order, Key[order[i][1]] = Key[order[j][1]]
               PROVE  order[i][1] = order[j][1]
    BY <1>7, <1>9
  <2>1. order[i] \in Eligible /\ order[j] \in Eligible
    BY <1>5, <1>6
  <2> QED BY <2>1, EligibleIsOneVersion
<1>13. ASSUME NEW j \in DOMAIN order, order[j] \in DOMAIN lifted
       PROVE  \E i \in 1 .. j - 1 : i \in DOMAIN order /\ LeadsIn(order[i], order[j])
  <2>1. PICK i \in 1 .. j - 1 : Leads(order[i], order[j])
    BY <1>3, <1>13
  <2>2. i \in DOMAIN order
    BY <1>6
  <2> QED BY <2>1, <2>2, LeadersLeadIn
<1>14. \A k \in DOMAIN order : PlaceAt(k)' = order[k]
  BY <1>7 DEF PlaceAt
<1>15. \A a, b : LeadsIn(b, a) => LeadsIn(b, a)'
  <2> SUFFICES ASSUME NEW a, NEW b, LeadsIn(b, a) PROVE LeadsIn(b, a)'
    OBVIOUS
  <2>1. StepsOf(a)' = StepsOf(a) /\ HopsFrom(b, StepsOf(a))' = HopsFrom(b, StepsOf(a))
    BY <1>2, ChainsStay
  <2> QED BY <2>1 DEF LeadsIn
<1>16. ASSUME NEW j \in DOMAIN order, NEW a \in DOMAIN lifted, a = order[j]
       PROVE  \E i \in 1 .. j - 1 : \E b \in {PlaceAt(i)'} : LeadsIn(b, a)'
  <2>1. PICK i \in 1 .. j - 1 : i \in DOMAIN order /\ LeadsIn(order[i], order[j])
    BY <1>13, <1>16
  <2>2. \E b \in {PlaceAt(i)'} : LeadsIn(b, a)
    BY <1>14, <1>16, <2>1
  <2> QED BY <1>15, <2>2
<1>17. \A j \in DOMAIN ranked' : \A a \in DOMAIN lifted' :
          a = PlaceAt(j)' => \E i \in 1 .. j - 1 : \E b \in {PlaceAt(i)'} : LeadsIn(b, a)'
  BY <1>2, <1>9, <1>14, <1>16
<1> QED BY <1>10, <1>11, <1>12, <1>17 DEF RankedRight

RetrieveInv ==
  /\ PackInv
  /\ stage \in {"lexical", "walk", "exact", "score", "lift", "rank", "ranked"}
  /\ stage # "ranked" => spans = <<>> /\ blocks = <<>> /\ dead \in DeadSets /\ WalkInv /\ ReadInv
  /\ stage \in {"lift", "rank"} => ScoreInv
  /\ stage = "rank" => LiftInv
  /\ stage = "ranked" => RankedRight

LEMMA PackStart ==
  ASSUME phase \in {"merge", "packed"}, budget \in Budgets, drift \in Drifts, ranked \in Seq(RankedPassage),
         phase = "merge" => todo = ranked,
         spans = <<>>, blocks = <<>>, used = 0, cursor = FirstPass
  PROVE  PackInv
<1>1. budget \in Nat /\ drift \in Nat
  BY EvidenceAssumption
<1>2. cursor \in [pass : 1 .. Passes, at : Nat \ {0}, grew : BOOLEAN]
  BY DEF FirstPass, Passes
<1>3. PackTypes
  BY <1>1, <1>2 DEF PackTypes
<1>4. phase = "merge" => todo \in Seq(PassageOf(RankedDocs))
  BY RankedInDocs
<1>5. spans \in Seq(Span(RankedDocs)) /\ blocks \in Seq(Block(RankedDocs))
  OBVIOUS
<1> QED BY <1>3, <1>4, <1>5 DEF PackInv

LEMMA RetrieveStart == InitAll \/ (Fixed /\ Init) => RetrieveInv
<1>1. ASSUME InitAll PROVE RetrieveInv
  <2>1. /\ stage = "lexical" /\ dead \in DeadSets
        /\ lex = Empty /\ best = Empty /\ frontier = {} /\ hits = Empty
        /\ tree \in [FileKey -> Version] /\ \A k \in FileKey : Key[tree[k]] = k
        /\ opened = Empty /\ stored = {} /\ liveHits = {}
    BY <1>1 DEF InitAll, InitRetrieval
  <2>2. DOMAIN Empty = {} /\ IsFiniteSet({})
    BY FS_EmptySet DEF Empty
  <2>3. WalkInv
    BY <2>1, <2>2 DEF WalkInv
  <2>4. ReadInv
    BY <2>1, <2>2 DEF ReadInv
  <2>5. PackInv /\ spans = <<>> /\ blocks = <<>>
    <3>1. /\ phase = "packed" /\ budget \in Budgets /\ drift \in Drifts /\ ranked = <<>>
          /\ spans = <<>> /\ blocks = <<>> /\ used = 0 /\ cursor = FirstPass
      BY <1>1 DEF InitAll
    <3>2. ranked \in Seq(RankedPassage)
      BY <3>1
    <3> QED BY <3>1, <3>2, PackStart
  <2> QED BY <2>1, <2>3, <2>4, <2>5 DEF RetrieveInv
<1>2. ASSUME Fixed, Init PROVE RetrieveInv
  <2>1. /\ stage = "ranked" /\ dead = {} /\ granted = Scopes /\ exclude = {} /\ lifted = Empty
    BY <1>2 DEF Fixed
  <2>2. /\ phase = "merge" /\ budget \in Budgets /\ drift \in Drifts
        /\ ranked \in Rankings /\ todo = ranked
        /\ spans = <<>> /\ blocks = <<>> /\ used = 0 /\ cursor = FirstPass
    BY <1>2 DEF Init
  <2>3. ranked \in Seq(RankedPassage)
    BY <2>2, EvidenceAssumption
  <2>4. PackInv
    BY <2>2, <2>3, PackStart
  <2>5. \A d : MayShow(d)
    <3>1. SourceScope \in Scopes /\ \A d \in StoredDoc : ScopeOf[d] \in Scopes
      BY RetrieveAssumption
    <3> QED BY <2>1, <3>1 DEF MayShow
  <2>6. \A i, j \in DOMAIN ranked : Key[ranked[i].doc] = Key[ranked[j].doc] => ranked[i].doc = ranked[j].doc
    BY <2>2, RetrieveAssumption
  <2>7. DOMAIN lifted = {}
    BY <2>1 DEF Empty
  <2>8. RankedRight
    BY <2>5, <2>6, <2>7 DEF RankedRight
  <2> QED BY <2>1, <2>4, <2>8 DEF RetrieveInv
<1> QED BY <1>1, <1>2

LEMMA RankingStays ==
  ASSUME RankedRight, UNCHANGED <<request, hits, lifted, ranked>>
  PROVE  RankedRight'
<1>1. /\ hits' = hits /\ lifted' = lifted /\ ranked' = ranked
      /\ dead' = dead /\ granted' = granted /\ exclude' = exclude
  BY DEF request
<1>2. \A d : MayShow(d) => MayShow(d)'
  BY <1>1 DEF MayShow
<1>3. \A a, b : LeadsIn(b, a) => LeadsIn(b, a)'
  <2> SUFFICES ASSUME NEW a, NEW b, LeadsIn(b, a) PROVE LeadsIn(b, a)'
    OBVIOUS
  <2>1. StepsOf(a)' = StepsOf(a) /\ HopsFrom(b, StepsOf(a))' = HopsFrom(b, StepsOf(a))
    BY <1>1, ChainsStay
  <2> QED BY <2>1 DEF LeadsIn
<1>4. RankedDocs' = RankedDocs /\ \A k : PlaceAt(k)' = PlaceAt(k)
  BY <1>1 DEF RankedDocs, PlaceAt
<1>5. \A j \in DOMAIN ranked' : \A a \in DOMAIN lifted' :
          a = PlaceAt(j)' => \E i \in 1 .. j - 1 : \E b \in {PlaceAt(i)'} : LeadsIn(b, a)'
  <2> SUFFICES ASSUME NEW j \in DOMAIN ranked, NEW a \in DOMAIN lifted, a = PlaceAt(j)
               PROVE  \E i \in 1 .. j - 1 : \E b \in {PlaceAt(i)'} : LeadsIn(b, a)'
    BY <1>1, <1>4
  <2>1. PICK i \in 1 .. j - 1 : \E b \in {PlaceAt(i)} : LeadsIn(b, a)
    BY DEF RankedRight
  <2> QED BY <1>3, <1>4, <2>1
<1>6. \A d \in RankedDocs' : MayShow(d)'
  BY <1>2, <1>4 DEF RankedRight
<1>7. \A i, j \in DOMAIN ranked' : Key[ranked'[i].doc] = Key[ranked'[j].doc] => ranked'[i].doc = ranked'[j].doc
  BY <1>1 DEF RankedRight
<1> QED BY <1>5, <1>6, <1>7 DEF RankedRight

LEMMA ScoreStays ==
  ASSUME ScoreInv, UNCHANGED <<score, request, read>>
  PROVE  ScoreInv'
<1>1. /\ score' = score /\ liveHits' = liveHits
      /\ dead' = dead /\ granted' = granted /\ exclude' = exclude
  BY DEF request, read
<1>2. Eligible' = Eligible
  BY <1>1 DEF Eligible, LiveKeys, Visible, Alive, PlaceOf
<1> QED BY <1>1, <1>2 DEF ScoreInv

LEMMA LiftStays ==
  ASSUME LiftInv, UNCHANGED <<score, hits, lifted>>
  PROVE  LiftInv'
<1>1. \A a, b : Leads(b, a)' = Leads(b, a)
  BY ChainsStay
<1> QED BY <1>1 DEF LiftInv

\* Retrieval before there is a ranking: the packer has nothing yet.
Reading ==
  /\ PackInv /\ spans = <<>> /\ blocks = <<>> /\ dead \in DeadSets /\ WalkInv /\ ReadInv

LEMMA ReadingStep ==
  ASSUME RetrieveInv, RetrieveStep, stage # "rank"
  PROVE  Reading' /\ stage' \in {"lexical", "walk", "exact", "score", "lift", "rank"}
         /\ stage # "ranked"
<1>1. stage # "ranked" /\ UNCHANGED evidence /\ dead' = dead
      /\ stage' \in {"lexical", "walk", "exact", "score", "lift", "rank"}
  <2>1. stage # "ranked"
    BY DEF RetrieveStep, Lexical, Hop, LinkPassages, SearchIdentifier, Searched, ScoreCandidates,
           Lift, Rank, Edit
  <2>2. UNCHANGED evidence
    BY DEF RetrieveStep, Lexical, Hop, LinkPassages, SearchIdentifier, Searched, ScoreCandidates,
           Lift, Rank, Edit
  <2>3. dead' = dead
    BY DEF RetrieveStep, Lexical, Hop, LinkPassages, SearchIdentifier, Searched, ScoreCandidates,
           Lift, Rank, Edit, request
  <2>4. stage' \in {"lexical", "walk", "exact", "score", "lift", "rank"}
    BY DEF RetrieveStep, Lexical, Hop, LinkPassages, SearchIdentifier, Searched, ScoreCandidates,
           Lift, Rank, Edit
  <2> QED BY <2>1, <2>2, <2>3, <2>4
<1>2. PackInv /\ spans = <<>> /\ blocks = <<>> /\ dead \in DeadSets /\ WalkInv /\ ReadInv
  BY <1>1 DEF RetrieveInv
<1>3. PackInv' /\ spans' = <<>> /\ blocks' = <<>> /\ dead' \in DeadSets
  <2>1. PackInv'
    BY <1>1, <1>2, EvidenceStays
  <2> QED BY <1>1, <1>2, <2>1 DEF evidence
<1>4. WalkInv' /\ ReadInv'
  <2>1. CASE Lexical
    <3>1. UNCHANGED <<request, read>>
      BY <2>1 DEF Lexical
    <3> QED BY <1>2, <2>1, <3>1, LexicalStep, ReadStays
  <2>2. CASE Hop
    <3>1. UNCHANGED <<request, read>>
      BY <2>2 DEF Hop
    <3> QED BY <1>2, <2>2, <3>1, HopStep, ReadStays
  <2>3. CASE LinkPassages
    <3>1. UNCHANGED <<request, read>>
      BY <2>3 DEF LinkPassages
    <3> QED BY <1>2, <2>3, <3>1, LinkPassagesStep, ReadStays
  <2>4. CASE SearchIdentifier
    <3>1. UNCHANGED <<request, walked>>
      BY <2>4 DEF SearchIdentifier
    <3> QED BY <1>2, <2>4, <3>1, SearchIdentifierStep, WalkStays
  <2>5. ASSUME NEW k \in FileKey, NEW v \in Version, Edit(k, v) PROVE WalkInv' /\ ReadInv'
    <3>1. UNCHANGED <<request, walked>>
      BY <2>5 DEF Edit
    <3> QED BY <1>2, <2>5, <3>1, EditStep, WalkStays
  <2>6. CASE Searched \/ ScoreCandidates \/ Lift
    <3>1. UNCHANGED <<request, walked, read>>
      BY <2>6 DEF Searched, ScoreCandidates, Lift
    <3> QED BY <1>2, <3>1, WalkStays, ReadStays
  <2>7. ~Rank
    BY DEF Rank
  <2> QED BY <2>1, <2>2, <2>3, <2>4, <2>5, <2>6, <2>7 DEF RetrieveStep
<1> QED BY <1>1, <1>3, <1>4 DEF Reading

\* One step of retrieval or of the packing that follows it.
LEMMA RetrieveNext ==
  ASSUME RetrieveInv, [NextAll]_allVars
  PROVE  RetrieveInv'
<1>1. ASSUME RetrieveStep, stage # "rank" PROVE RetrieveInv'
  <2>1. Reading' /\ stage' \in {"lexical", "walk", "exact", "score", "lift", "rank"} /\ stage # "ranked"
    BY <1>1, ReadingStep
  <2>2. WalkInv /\ ReadInv /\ (stage \in {"lift", "rank"} => ScoreInv)
    BY <2>1 DEF RetrieveInv
  <2>3. CASE ScoreCandidates
    <3>1. stage' = "lift" /\ ScoreInv'
      BY <2>2, <2>3, ScoreCandidatesStep DEF ScoreCandidates
    <3> QED BY <2>1, <3>1 DEF RetrieveInv, Reading
  <2>4. CASE Lift
    <3>1. stage = "lift" /\ stage' = "rank" /\ UNCHANGED <<score, request, read>>
      BY <2>4 DEF Lift
    <3>2. ScoreInv' /\ LiftInv'
      BY <2>2, <2>4, <3>1, ScoreStays, LiftStep
    <3> QED BY <2>1, <3>1, <3>2 DEF RetrieveInv, Reading
  <2>5. CASE ~ScoreCandidates /\ ~Lift
    <3>1. stage' \in {"walk", "exact", "score"}
      BY <1>1, <2>5 DEF RetrieveStep, Lexical, Hop, LinkPassages, SearchIdentifier, Searched, Rank, Edit
    <3> QED BY <2>1, <3>1 DEF RetrieveInv, Reading
  <2> QED BY <2>3, <2>4, <2>5
<1>2. ASSUME RetrieveStep, stage = "rank" PROVE RetrieveInv'
  <2>1. Rank
    BY <1>2 DEF RetrieveStep, Lexical, Hop, LinkPassages, SearchIdentifier, Searched, ScoreCandidates,
                Lift, Edit
  <2>2. stage' = "ranked"
    BY <2>1 DEF Rank
  <2>3. PackInv' /\ RankedRight'
    BY <1>2, <2>1, RankStep DEF RetrieveInv
  <2> QED BY <2>2, <2>3 DEF RetrieveInv
<1>3. ASSUME PackStep PROVE RetrieveInv'
  <2>1. stage = "ranked" /\ Pack /\ UNCHANGED retrieval
    BY <1>3 DEF PackStep
  <2>2. PackInv' /\ ranked' = ranked
    BY <2>1, PackKeeps DEF RetrieveInv
  <2>3. stage' = "ranked" /\ UNCHANGED <<request, hits, lifted>>
    BY <2>1 DEF retrieval, walked, scoring
  <2>4. RankedRight'
    BY <2>1, <2>2, <2>3, RankingStays DEF RetrieveInv
  <2> QED BY <2>2, <2>3, <2>4 DEF RetrieveInv
<1>4. ASSUME UNCHANGED allVars PROVE RetrieveInv'
  <2>1. UNCHANGED retrieval /\ UNCHANGED evidence
    BY <1>4 DEF allVars
  <2>2. /\ stage' = stage /\ UNCHANGED <<request, walked, read>> /\ UNCHANGED <<score, lifted>>
    BY <2>1 DEF retrieval, scoring
  <2>3. hits' = hits /\ dead' = dead
    BY <2>2 DEF walked, request
  <2>4. spans' = spans /\ blocks' = blocks /\ ranked' = ranked
    BY <2>1 DEF evidence
  <2>5. PackInv'
    BY <2>1, EvidenceStays DEF RetrieveInv
  <2>6. WalkInv => WalkInv'
    BY <2>2, WalkStays
  <2>7. ReadInv => ReadInv'
    BY <2>2, ReadStays
  <2>8. ScoreInv => ScoreInv'
    BY <2>2, ScoreStays
  <2>9. LiftInv => LiftInv'
    BY <2>2, <2>3, LiftStays
  <2>10. RankedRight => RankedRight'
    BY <2>2, <2>3, <2>4, RankingStays
  <2> QED BY <2>2, <2>3, <2>4, <2>5, <2>6, <2>7, <2>8, <2>9, <2>10 DEF RetrieveInv
<1> QED BY <1>1, <1>2, <1>3, <1>4 DEF NextAll

LEMMA Retrieving == SpecAll => []RetrieveInv
<1>1. RetrieveInv /\ [NextAll]_allVars => RetrieveInv'
  BY RetrieveNext
<1> QED BY <1>1, RetrieveStart, PTL DEF SpecAll

\* A condensed block opens with the first line of its span and shows the anchor
\* of its best passage and a matched line, the rest under markers: for any
\* passages, options, budget, tokenizer and ranking, and whatever merging,
\* filling, widening and trimming did to the span before (condense).
THEOREM CondensedStillShowsWhy == SpecAll => []CondensedShowsWhy
<1>1. RetrieveInv => CondensedShowsWhy
  <2> SUFFICES ASSUME RetrieveInv, NEW k \in DOMAIN blocks PROVE ShowsWhy(blocks[k])
    BY DEF CondensedShowsWhy, ShowsWhy
  <2>1. blocks[k] \in Block(RankedDocs)
    BY DEF RetrieveInv, PackInv
  <2> QED BY <2>1, BlockFields
<1> QED BY <1>1, Retrieving, PTL

\* Evidence comes from documents the request may see and from no other, for any
\* snapshot, graph, vectors and live tree, and however the tree is written
\* meanwhile: each of the five sources filters what it offers, and the packer
\* adds no document.
THEOREM UnseenStaysOut == SpecAll => []NothingUnseen
<1>1. RetrieveInv => NothingUnseen
  <2> SUFFICES ASSUME RetrieveInv, stage = "ranked", NEW k \in DOMAIN blocks
               PROVE  MayShow(blocks[k].span.doc)
    BY DEF NothingUnseen, MayShow
  <2>1. blocks[k] \in Block(RankedDocs)
    BY DEF RetrieveInv, PackInv
  <2>2. blocks[k].span.doc \in RankedDocs
    <3>1. blocks[k].span \in Span(RankedDocs)
      BY <2>1, BlockFields
    <3> QED BY <3>1, SpanFields
  <2> QED BY <2>2 DEF RetrieveInv, RankedRight
<1> QED BY <1>1, Retrieving, PTL

\* No packet shows two versions of one file: a live text is the first one opened
\* for its key, however often the file is written while its identifiers are
\* searched, and stored copies of its key leave the candidates.
THEOREM OneVersionOfEach == SpecAll => []OneVersion
<1>1. RetrieveInv => OneVersion
  BY DEF RetrieveInv, RankedRight, OneVersion
<1> QED BY <1>1, Retrieving, PTL

\* A passage raised along a chain comes after one that leads into its path: each
\* hop passes on less than the score it starts from, so one pass of lifting
\* orders chains of any length (lift_along_chains).
THEOREM ChainsAreInOrder == SpecAll => []ChainsFollow
<1>1. RetrieveInv => ChainsFollow
  <2> SUFFICES ASSUME RetrieveInv, stage = "ranked", NEW j \in DOMAIN ranked, PlaceAt(j) \in DOMAIN lifted
               PROVE  \E i \in 1 .. j - 1 : LeadsIn(PlaceAt(i), PlaceAt(j))
    BY DEF ChainsFollow, PlaceAt, LeadsIn
  <2> QED BY DEF RetrieveInv, RankedRight
<1> QED BY <1>1, Retrieving, PTL

===============================================================================
