----------------------------- MODULE CorpusProofs -----------------------------
(***************************************************************************)
(* What there is to be found: the documents of a code index (OverlayIndex) *)
(* and the grams that find them (Tokenizer), and the documents of a store  *)
(* that is kept in line with a directory (SourceSync).                     *)
(*                                                                         *)
(* The inductive invariant of OverlayIndex: the snapshot's segments lie    *)
(* next to each other and its delete set names their documents (GoodBase); *)
(* overlay ids start where the segments end (OverlayAbove); and the        *)
(* directory either holds the snapshot's segments or one more that open    *)
(* rejects (Linked), which is why the guards of a flush and of a           *)
(* compaction are enough.                                                  *)
(*                                                                         *)
(* What a query may demand is stored of every text it occurs in, for all   *)
(* alphabets, delimiters, weights and gram lengths.  A gram is a span      *)
(* between two neighbouring cuts.  Whether a place inside the query is a   *)
(* cut depends on the characters around it, which are the same in the      *)
(* text; an end of the query is a cut of the text when a delimiter stands  *)
(* there.  So a real span of the query is, shifted, a span of the text.    *)
(*                                                                         *)
(* The invariant of SourceSync (SyncInv) says what a catalogue is worth:   *)
(* an entry with the mtime a file has vouches for the store (Vouches), or, *)
(* while a sync is at work, for what its commit is going to leave          *)
(* (InHand); and what is read under the lock is no older than what any     *)
(* catalogue, however late it is saved, has recorded (Before).             *)
(***************************************************************************)
EXTENDS OverlayIndex, Tokenizer, SourceSync, FiniteSetTheorems, WellFoundedInduction, TLAPS

-------------------------------------------------------------------------------
(* What the operators compute: extreme ids, the rank renumbering, the cut into segments *)

\* Every nonempty set of naturals has a least element.
LEMMA MinNat ==
  ASSUME NEW S \in SUBSET Nat, S # {}
  PROVE  \E n \in S : \A m \in S : n <= m
<1> DEFINE Below == {1 .. n : n \in S}
<1>1. Below \subseteq FiniteSubsetsOf(Nat)
  <2> SUFFICES ASSUME NEW n \in S PROVE 1 .. n \in FiniteSubsetsOf(Nat)
    OBVIOUS
  <2>1. IsFiniteSet(1 .. n)
    BY FS_Interval
  <2>2. (1 .. n) \subseteq Nat
    OBVIOUS
  <2> QED BY <2>1, <2>2 DEF FiniteSubsetsOf
<1>2. Below # {}
  OBVIOUS
<1>3. PICK b \in Below : \A c \in Below : <<c, b>> \notin StrictSubsetOrdering(Nat)
  BY <1>1, <1>2, FS_StrictSubsetOrderingWellFounded, WFMin
<1>4. PICK n \in S : b = 1 .. n
  OBVIOUS
<1>5. \A m \in S : n <= m
  <2> SUFFICES ASSUME NEW m \in S, m < n PROVE FALSE
    OBVIOUS
  <2>1. (1 .. m) \subseteq (1 .. n) /\ n \in (1 .. n) /\ n \notin (1 .. m)
    OBVIOUS
  <2>2. 1 .. m \in Below /\ 1 .. m \in SUBSET Nat /\ 1 .. n \in SUBSET Nat
    OBVIOUS
  <2> QED BY <1>3, <1>4, <2>1, <2>2 DEF StrictSubsetOrdering
<1> QED BY <1>5

\* A nonempty set of naturals below k has a greatest element.
LEMMA MaxNat ==
  ASSUME NEW k \in Nat, NEW S \in SUBSET (0 .. k), S # {}
  PROVE  \E n \in S : \A m \in S : m <= n
<1> DEFINE T == {k - n : n \in S}
<1>1. T \in SUBSET Nat /\ T # {}
  <2>1. ASSUME NEW n \in S PROVE k - n \in Nat
    <3>1. n \in 0 .. k
      OBVIOUS
    <3> QED BY <3>1
  <2>2. PICK n \in S : TRUE
    OBVIOUS
  <2>3. k - n \in T
    OBVIOUS
  <2> QED BY <2>1, <2>3
<1>2. PICK t \in T : \A u \in T : t <= u
  BY <1>1, MinNat
<1>3. PICK n \in S : t = k - n
  OBVIOUS
<1>4. ASSUME NEW m \in S PROVE m <= n
  <2>1. k - m \in T
    OBVIOUS
  <2> QED BY <1>2, <1>3, <2>1
<1> QED BY <1>4

\* LowestId: the base_doc_id a segment writer records is the least id it holds.
LEMMA LowestIdLemma ==
  ASSUME NEW docs \in SUBSET Doc, docs # {}
  PROVE  /\ LowestId(docs) \in Ids(docs)
         /\ \A d \in docs : LowestId(docs) <= d.id
         /\ LowestId(docs) \in Id
<1>1. Ids(docs) \in SUBSET Nat /\ Ids(docs) # {} /\ Ids(docs) \subseteq Id
  BY LimitAssumption DEF Ids, Doc, Id
<1>2. \E n \in Ids(docs) : \A m \in Ids(docs) : n <= m
  BY <1>1, MinNat
<1>3. LowestId(docs) \in Ids(docs) /\ \A m \in Ids(docs) : LowestId(docs) <= m
  BY <1>2 DEF LowestId
<1> QED BY <1>1, <1>3 DEF Ids

\* Segments whose ends fit the id space.
EndsFit(segs) == \A s \in segs : /\ s.base \in Id
                                 /\ Count(s) \in Nat
                                 /\ s.base + Count(s) <= MaxDocId

\* base_doc_id_limit is an id no segment reaches past.
LEMMA BaseLimitLemma ==
  ASSUME NEW segs, EndsFit(segs)
  PROVE  /\ BaseLimit(segs) \in Id
         /\ \A s \in segs : s.base + Count(s) <= BaseLimit(segs)
         /\ segs # {} => \E s \in segs : BaseLimit(segs) = s.base + Count(s)
<1> DEFINE ends == {s.base + Count(s) : s \in segs}
<1>1. CASE segs = {}
  BY <1>1, LimitAssumption DEF BaseLimit, Id
<1>2. CASE segs # {}
  <2>1. ends \in SUBSET (0 .. MaxDocId) /\ ends # {}
    BY <1>2, LimitAssumption DEF EndsFit, Id
  <2>2. \E n \in ends : \A m \in ends : m <= n
    BY <2>1, LimitAssumption, MaxNat
  <2>3. BaseLimit(segs) = CHOOSE n \in ends : \A m \in ends : m <= n
    BY <1>2 DEF BaseLimit
  <2>4. BaseLimit(segs) \in ends /\ \A m \in ends : m <= BaseLimit(segs)
    BY <2>2, <2>3
  <2> QED BY <2>1, <2>4 DEF Id
<1> QED BY <1>1, <1>2

\* Documents with distinct ids.
Distinct(docs) == \A d, e \in docs : d.id = e.id => d = e

\* Documents with distinct ids are finitely many: the ids of the code are bounded.
LEMMA DistinctFinite ==
  ASSUME NEW docs \in SUBSET Doc, Distinct(docs)
  PROVE  /\ IsFiniteSet(docs)
         /\ IsFiniteSet(Ids(docs))
         /\ Cardinality(docs) \in Nat
         /\ Cardinality(Ids(docs)) = Cardinality(docs)
<1> DEFINE f == [d \in docs |-> d.id]
<1>1. IsFiniteSet(Id)
  BY FS_Interval, LimitAssumption DEF Id
<1>2. Ids(docs) \in SUBSET Id
  BY DEF Ids, Doc
<1>3. IsFiniteSet(Ids(docs))
  BY <1>1, <1>2, FS_Subset
<1>4. f \in Bijection(docs, Ids(docs))
  BY DEF Bijection, Injection, Surjection, IsInjective, Ids, Distinct
<1>5. f \in Injection(docs, Ids(docs)) /\ f \in Surjection(docs, Ids(docs))
  BY <1>4 DEF Bijection
<1> QED BY <1>3, <1>5, FS_Injection, FS_CardinalityType

\* An injection of a finite set into as many numbers reaches all of them.
LEMMA InjectionOnto ==
  ASSUME NEW S, IsFiniteSet(S), NEW f \in [S -> 0 .. Cardinality(S) - 1],
         \A x, y \in S : f[x] = f[y] => x = y
  PROVE  \A k \in 0 .. Cardinality(S) - 1 : \E x \in S : f[x] = k
<1> DEFINE T == 0 .. Cardinality(S) - 1
<1>1. Cardinality(S) \in Nat
  BY FS_CardinalityType
<1>2. IsFiniteSet(T) /\ Cardinality(T) = Cardinality(S)
  BY <1>1, FS_Interval
<1>3. f \in Injection(S, T)
  BY DEF Injection, IsInjective
<1>4. f \in Surjection(S, T)
  BY <1>2, <1>3, FS_Injection
<1> QED BY <1>4 DEF Surjection

\* The rank in id order numbers documents from 0 on, keeps the order and
\* leaves no gap.
LEMMA RankLemma ==
  ASSUME NEW docs \in SUBSET Doc, Distinct(docs)
  PROVE  /\ Rank(docs) \in [docs -> 0 .. Cardinality(docs) - 1]
         /\ \A d, e \in docs : d.id < e.id => Rank(docs)[d] < Rank(docs)[e]
         /\ \A d, e \in docs : Rank(docs)[d] = Rank(docs)[e] => d = e
<1> DEFINE Under(d) == {e \in docs : e.id < d.id}
<1>0. \A d \in docs : d.id \in Nat
  BY LimitAssumption DEF Doc, Id
<1>1. IsFiniteSet(docs) /\ Cardinality(docs) \in Nat
  BY DistinctFinite
<1>2. ASSUME NEW d \in docs
      PROVE  IsFiniteSet(Under(d)) /\ Cardinality(Under(d)) \in 0 .. Cardinality(docs) - 1
  <2>1. Under(d) \in SUBSET docs /\ Under(d) # docs
    BY <1>0
  <2>2. IsFiniteSet(Under(d)) /\ Cardinality(Under(d)) <= Cardinality(docs)
        /\ Cardinality(Under(d)) # Cardinality(docs)
    BY <1>1, <2>1, FS_Subset
  <2>3. Cardinality(Under(d)) \in Nat
    BY <2>2, FS_CardinalityType
  <2> QED BY <1>1, <2>2, <2>3
<1>3. ASSUME NEW d \in docs, NEW e \in docs, d.id < e.id
      PROVE  Cardinality(Under(d)) < Cardinality(Under(e))
  <2>1. Under(d) \in SUBSET Under(e) /\ Under(d) # Under(e)
    BY <1>0, <1>3
  <2>2. Cardinality(Under(d)) <= Cardinality(Under(e))
        /\ Cardinality(Under(d)) # Cardinality(Under(e))
    BY <1>2, <2>1, FS_Subset
  <2>3. Cardinality(Under(d)) \in Nat /\ Cardinality(Under(e)) \in Nat
    BY <1>2, FS_CardinalityType
  <2> HIDE DEF Under
  <2> QED BY <2>2, <2>3
<1>4. Rank(docs) = [d \in docs |-> Cardinality(Under(d))]
  BY DEF Rank
<1>5. ASSUME NEW d \in docs, NEW e \in docs, Rank(docs)[d] = Rank(docs)[e]
      PROVE  d = e
  <2>1. Cardinality(Under(d)) = Cardinality(Under(e))
    BY <1>4, <1>5
  <2>2. Cardinality(Under(d)) \in Nat
    BY <1>2, FS_CardinalityType
  <2>3. d.id \in Nat /\ e.id \in Nat
    BY <1>0
  <2>4. d.id < e.id => Cardinality(Under(d)) < Cardinality(Under(e))
    BY <1>3
  <2>5. e.id < d.id => Cardinality(Under(e)) < Cardinality(Under(d))
    BY <1>3
  <2>6. d.id = e.id
    <3> HIDE DEF Under
    <3> QED BY <2>1, <2>2, <2>3, <2>4, <2>5
  <2> QED BY <2>6 DEF Distinct
<1> HIDE DEF Under
<1> QED BY <1>2, <1>3, <1>4, <1>5

\* Documents that hold exactly the ids first, first + 1, ..., first + n - 1.
Fills(docs, first, n) == Distinct(docs) /\ Ids(docs) = first .. (first + n - 1)

\* What Numbered does: it moves each document to its number and nothing else.
LEMMA NumberedLemma ==
  ASSUME NEW docs \in SUBSET Doc, Distinct(docs), NEW first \in Nat,
         NEW num \in [docs -> 0 .. Cardinality(docs) - 1],
         \A d, e \in docs : num[d] = num[e] => d = e,
         first + Cardinality(docs) <= MaxDocId
  PROVE  /\ Numbered(docs, num, first) \in SUBSET Doc
         /\ Fills(Numbered(docs, num, first), first, Cardinality(docs))
         /\ \A x \in Numbered(docs, num, first) :
               \E d \in docs : /\ x.id = first + num[d]
                              /\ x.path = d.path /\ x.data = d.data
         /\ \A d \in docs :
               \E x \in Numbered(docs, num, first) : x.path = d.path /\ x.data = d.data
<1> DEFINE n == Cardinality(docs)
           new(d) == [id |-> first + num[d], path |-> d.path, data |-> d.data]
<1>1. IsFiniteSet(docs) /\ n \in Nat
  BY DistinctFinite
<1>2. Numbered(docs, num, first) = {new(d) : d \in docs}
  BY DEF Numbered
<1>3. ASSUME NEW d \in docs PROVE num[d] \in 0 .. n - 1
  OBVIOUS
<1>4. ASSUME NEW d \in docs PROVE new(d) \in Doc
  <2>1. first + num[d] \in Id
    BY <1>1, <1>3, LimitAssumption DEF Id
  <2> QED BY <2>1 DEF Doc
<1>5. Distinct(Numbered(docs, num, first))
  <2> SUFFICES ASSUME NEW d \in docs, NEW e \in docs, new(d).id = new(e).id
               PROVE  d = e
    BY <1>2 DEF Distinct
  <2>1. num[d] = num[e]
    BY <1>1, <1>3
  <2> QED BY <2>1
<1>6. Ids(Numbered(docs, num, first)) = {first + num[d] : d \in docs}
  <2>1. \A d \in docs : new(d).id = first + num[d]
    OBVIOUS
  <2>2. {x.id : x \in {new(d) : d \in docs}} = {new(d).id : d \in docs}
    OBVIOUS
  <2> QED BY <1>2, <2>1, <2>2, ZenonT(30) DEF Ids
<1>7. {first + num[d] : d \in docs} = first .. (first + n - 1)
  <2>1. ASSUME NEW i \in first .. (first + n - 1)
        PROVE  \E d \in docs : i = first + num[d]
    <3>1. i - first \in 0 .. n - 1
      BY <1>1
    <3>2. PICK d \in docs : num[d] = i - first
      BY <1>1, <3>1, InjectionOnto
    <3> QED BY <1>1, <3>2
  <2>2. ASSUME NEW d \in docs PROVE first + num[d] \in first .. (first + n - 1)
    BY <1>1, <1>3
  <2> QED BY <2>1, <2>2
<1>8. \A d \in docs : new(d) \in Numbered(docs, num, first)
  BY <1>2
<1>9. Fills(Numbered(docs, num, first), first, n)
  BY <1>5, <1>6, <1>7 DEF Fills
<1>10. \A x \in Numbered(docs, num, first) : \E d \in docs : x = new(d)
  BY <1>2
<1>11. Numbered(docs, num, first) \in SUBSET Doc
  BY <1>4, <1>10
<1>12. \A x \in Numbered(docs, num, first) :
          \E d \in docs : x.id = first + num[d] /\ x.path = d.path /\ x.data = d.data
  BY <1>10
<1>13. \A d \in docs :
          \E x \in Numbered(docs, num, first) : x.path = d.path /\ x.data = d.data
  BY <1>8
<1> QED BY <1>9, <1>11, <1>12, <1>13

\* Segments that open next to each other: each is gap-free and nonempty, none
\* reaches into another, and the ids stay in range.
Laid(segs) ==
    /\ segs \in SUBSET Segment
    /\ \A s \in segs : s.docs # {} /\ SegmentOpens(s) /\ Distinct(s.docs)
    /\ EndsFit(segs)
    /\ \A s, t \in segs : s.base < t.base => s.base + Count(s) <= t.base
    /\ \A s, t \in segs : s.base = t.base => s = t

\* Cutting a gap-free run of documents into writers gives segments that hold
\* the same documents, open, and stay inside the run.
LEMMA WrittenLemma ==
  ASSUME NEW docs \in SUBSET Doc, NEW first \in Nat, NEW n \in Nat,
         Fills(docs, first, n), first + n <= MaxDocId,
         NEW batch \in Batches(Ids(docs))
  PROVE  /\ Laid(Written(docs, batch))
         /\ BaseDocs(Written(docs, batch)) = docs
         /\ \A s \in Written(docs, batch) : first <= s.base /\ s.base + Count(s) <= first + n
<1> DEFINE part(b) == {d \in docs : batch[d.id] = b}
           used == {batch[d.id] : d \in docs}
           seg(b) == [base |-> LowestId(part(b)), docs |-> part(b)]
<1>0. /\ Ids(docs) = first .. (first + n - 1) /\ Distinct(docs)
      /\ \A d \in docs : d.id \in Nat
  BY LimitAssumption DEF Fills, Doc, Id
<1>1. /\ batch \in [Ids(docs) -> 1 .. Cardinality(Ids(docs))]
      /\ \A i, j \in Ids(docs) : i < j => batch[i] <= batch[j]
  BY DEF Batches
<1>2. \A i \in Ids(docs) : batch[i] \in Nat
  <2>1. Cardinality(Ids(docs)) \in Nat
    BY <1>0, DistinctFinite
  <2> QED BY <1>1, <2>1
<1>3. Written(docs, batch) = {seg(b) : b \in used}
  BY DEF Written
<1>4. ASSUME NEW b \in used
      PROVE  \E hi \in Nat : /\ LowestId(part(b)) \in Nat
                            /\ LowestId(part(b)) <= hi
                            /\ Ids(part(b)) = LowestId(part(b)) .. hi
                            /\ first <= LowestId(part(b)) /\ hi <= first + n - 1
  <2> DEFINE lo == LowestId(part(b))
  <2>1. part(b) \in SUBSET Doc /\ part(b) # {} /\ part(b) \subseteq docs
    OBVIOUS
  <2>2. lo \in Ids(part(b)) /\ \A i \in Ids(part(b)) : lo <= i
    BY <2>1, LowestIdLemma DEF Ids
  <2>3. Ids(part(b)) \subseteq Ids(docs) /\ Ids(part(b)) \subseteq 0 .. (first + n - 1)
    BY <1>0, <2>1 DEF Ids
  <2>4. PICK hi \in Ids(part(b)) : \A i \in Ids(part(b)) : i <= hi
    <3>1. first + n - 1 \in Nat
      BY <1>0, <2>2, <2>3
    <3> HIDE DEF part
    <3> QED BY <2>2, <2>3, <3>1, MaxNat
  <2>5. ASSUME NEW i \in Ids(docs) PROVE i \in Ids(part(b)) <=> batch[i] = b
    BY DEF Ids
  <2>6. ASSUME NEW i \in lo .. hi PROVE i \in Ids(part(b))
    <3>1. lo \in Ids(docs) /\ hi \in Ids(docs) /\ batch[lo] = b /\ batch[hi] = b
      BY <2>2, <2>3, <2>4, <2>5
    <3>2. i \in Ids(docs)
      BY <1>0, <3>1
    <3>3. batch[lo] <= batch[i] /\ batch[i] <= batch[hi]
      BY <1>0, <1>1, <1>2, <3>1, <3>2
    <3>4. batch[i] \in Nat /\ b \in Nat
      BY <1>2, <3>1, <3>2
    <3>5. b <= batch[i] /\ batch[i] <= b
      BY <3>1, <3>3
    <3>6. batch[i] = b
      BY <3>4, <3>5
    <3> QED BY <2>5, <3>2, <3>6
  <2>7. ASSUME NEW i \in Ids(part(b)) PROVE i \in lo .. hi
    <3>1. i \in Nat /\ lo \in Nat /\ hi \in Nat
      BY <2>2, <2>3, <2>4
    <3> QED BY <2>2, <2>4, <3>1
  <2>8. Ids(part(b)) = lo .. hi
    BY <2>6, <2>7
  <2>9. lo \in first .. (first + n - 1) /\ hi \in first .. (first + n - 1)
    BY <1>0, <2>2, <2>3, <2>4
  <2>10. hi \in Nat /\ lo \in Nat /\ lo <= hi /\ first <= lo /\ hi <= first + n - 1
    BY <2>2, <2>4, <2>9
  <2> HIDE DEF part
  <2> QED BY <2>8, <2>10
<1>5. ASSUME NEW b \in used
      PROVE  /\ part(b) \in SUBSET Doc /\ part(b) # {} /\ Distinct(part(b))
             /\ seg(b).base = LowestId(part(b)) /\ seg(b).docs = part(b)
             /\ Cardinality(part(b)) \in Nat
             /\ seg(b) \in Segment /\ SegmentOpens(seg(b))
             /\ first <= seg(b).base /\ seg(b).base + Count(seg(b)) <= first + n
             /\ Ids(part(b)) = seg(b).base .. (seg(b).base + Count(seg(b)) - 1)
  <2>1. PICK hi \in Nat : /\ LowestId(part(b)) \in Nat
                          /\ LowestId(part(b)) <= hi
                          /\ Ids(part(b)) = LowestId(part(b)) .. hi
                          /\ first <= LowestId(part(b)) /\ hi <= first + n - 1
    BY <1>4
  <2>2. part(b) \in SUBSET Doc /\ part(b) # {} /\ Distinct(part(b))
    BY <1>0 DEF Distinct
  <2>3. Cardinality(part(b)) = hi - LowestId(part(b)) + 1
    <3>1. Cardinality(Ids(part(b))) = hi - LowestId(part(b)) + 1
      BY <2>1, FS_Interval
    <3> HIDE DEF part
    <3> QED BY <2>2, <3>1, DistinctFinite
  <2>4. seg(b) \in Segment
    BY <2>2, LowestIdLemma DEF Segment
  <2>5. ASSUME NEW d \in part(b)
        PROVE  LowestId(part(b)) <= d.id /\ d.id < LowestId(part(b)) + Cardinality(part(b))
    <3>1. d.id \in Ids(part(b))
      BY DEF Ids
    <3> HIDE DEF part
    <3> QED BY <2>1, <2>3, <3>1
  <2>6. SegmentOpens(seg(b))
    BY <2>5 DEF SegmentOpens, Count
  <2>7. Count(seg(b)) = Cardinality(part(b))
    BY DEF Count
  <2>8. LowestId(part(b)) + (hi - LowestId(part(b)) + 1) - 1 = hi
    BY <2>1
  <2> HIDE DEF part
  <2> QED BY <2>1, <2>2, <2>3, <2>4, <2>6, <2>7, <2>8
<1>8. ASSUME NEW b \in used
      PROVE  /\ seg(b).base \in Nat /\ Count(seg(b)) \in Nat /\ Count(seg(b)) > 0
             /\ seg(b).base \in Ids(part(b))
             /\ seg(b).base + Count(seg(b)) - 1 \in Ids(part(b))
  <2>1. LowestId(part(b)) \in Nat /\ LowestId(part(b)) \in Ids(part(b))
    BY <1>4, <1>5, LowestIdLemma
  <2>2. Count(seg(b)) = Cardinality(part(b)) /\ seg(b).base = LowestId(part(b))
    BY DEF Count
  <2>3. Cardinality(part(b)) # 0 /\ Cardinality(part(b)) \in Nat
    BY <1>5, DistinctFinite, FS_EmptySet
  <2>4. Ids(part(b)) = seg(b).base .. (seg(b).base + Count(seg(b)) - 1)
    BY <1>5
  <2> HIDE DEF seg, part
  <2> QED BY <2>1, <2>2, <2>3, <2>4
<1>6. ASSUME NEW b \in used, NEW c \in used, b < c
      PROVE  seg(b).base + Count(seg(b)) <= seg(c).base
  <2>1. /\ seg(b).base \in Nat /\ Count(seg(b)) \in Nat /\ seg(c).base \in Nat
        /\ seg(b).base + Count(seg(b)) - 1 \in Ids(part(b))
        /\ seg(c).base \in Ids(part(c))
    BY <1>8
  <2>2. ASSUME NEW i \in Ids(part(b)), NEW j \in Ids(part(c)) PROVE i < j
    <3>1. i \in Ids(docs) /\ j \in Ids(docs) /\ batch[i] = b /\ batch[j] = c
      BY DEF Ids
    <3>2. i \in Nat /\ j \in Nat /\ batch[i] < batch[j]
      BY <1>0, <1>6, <3>1
    <3>3. batch[i] \in Nat /\ batch[j] \in Nat
      BY <1>2, <3>1
    <3> QED BY <1>1, <3>1, <3>2, <3>3
  <2>3. seg(b).base + Count(seg(b)) - 1 < seg(c).base
    BY <2>1, <2>2
  <2> HIDE DEF seg
  <2> QED BY <2>1, <2>3
<1>7. ASSUME NEW b \in used, NEW c \in used
      PROVE  b = c \/ b < c \/ c < b
  <2>1. b \in Nat /\ c \in Nat
    BY <1>2 DEF Ids
  <2> QED BY <2>1
<1>9. ASSUME NEW b \in used, NEW c \in used, seg(b).base < seg(c).base
      PROVE  seg(b).base + Count(seg(b)) <= seg(c).base
  <2>1. /\ seg(b).base \in Nat /\ Count(seg(b)) \in Nat /\ Count(seg(b)) > 0
        /\ seg(c).base \in Nat /\ Count(seg(c)) \in Nat /\ Count(seg(c)) > 0
    BY <1>8
  <2>2. b < c => seg(b).base + Count(seg(b)) <= seg(c).base
    BY <1>6
  <2>3. c < b => seg(c).base + Count(seg(c)) <= seg(b).base
    BY <1>6
  <2>4. b = c \/ b < c \/ c < b
    BY <1>7
  <2> HIDE DEF seg, used, part
  <2> QED BY <1>9, <2>1, <2>2, <2>3, <2>4
<1>10. ASSUME NEW b \in used, NEW c \in used, seg(b).base = seg(c).base
       PROVE  seg(b) = seg(c)
  <2>1. /\ seg(b).base \in Nat /\ Count(seg(b)) \in Nat /\ Count(seg(b)) > 0
        /\ seg(c).base \in Nat /\ Count(seg(c)) \in Nat /\ Count(seg(c)) > 0
    BY <1>8
  <2>2. b < c => seg(b).base + Count(seg(b)) <= seg(c).base
    BY <1>6
  <2>3. c < b => seg(c).base + Count(seg(c)) <= seg(b).base
    BY <1>6
  <2>4. b = c \/ b < c \/ c < b
    BY <1>7
  <2> HIDE DEF seg, used, part
  <2> QED BY <1>10, <2>1, <2>2, <2>3, <2>4
<1>11. EndsFit(Written(docs, batch))
  <2>1. ASSUME NEW b \in used
        PROVE  seg(b).base \in Id /\ Count(seg(b)) \in Nat
               /\ seg(b).base + Count(seg(b)) <= MaxDocId
    <3>1. seg(b).base + Count(seg(b)) <= first + n
      BY <1>5
    <3>2. seg(b).base \in Nat /\ Count(seg(b)) \in Nat
      BY <1>8
    <3> HIDE DEF seg, used, part
    <3> QED BY <3>1, <3>2, LimitAssumption DEF Id
  <2> QED BY <1>3, <2>1 DEF EndsFit
<1>12. Laid(Written(docs, batch))
  <2>0. \A s \in Written(docs, batch) : \E b \in used : s = seg(b)
    BY <1>3
  <2>1. Written(docs, batch) \in SUBSET Segment
    <3>1. \A b \in used : seg(b) \in Segment
      BY <1>5
    <3> HIDE DEF seg, used
    <3> QED BY <2>0, <3>1
  <2>2. \A s \in Written(docs, batch) : s.docs # {} /\ SegmentOpens(s) /\ Distinct(s.docs)
    <3>1. \A b \in used : seg(b).docs # {} /\ SegmentOpens(seg(b)) /\ Distinct(seg(b).docs)
      BY <1>5
    <3> HIDE DEF seg, used
    <3> QED BY <2>0, <3>1
  <2>3. \A s, t \in Written(docs, batch) : s.base < t.base => s.base + Count(s) <= t.base
    <3> HIDE DEF seg, used
    <3> QED BY <1>9, <2>0
  <2>4. \A s, t \in Written(docs, batch) : s.base = t.base => s = t
    <3> HIDE DEF seg, used
    <3> QED BY <1>10, <2>0
  <2> QED BY <1>11, <2>1, <2>2, <2>3, <2>4 DEF Laid
<1>13. BaseDocs(Written(docs, batch)) = docs
  <2>1. ASSUME NEW d \in docs PROVE d \in BaseDocs(Written(docs, batch))
    <3>1. batch[d.id] \in used /\ d \in part(batch[d.id])
      OBVIOUS
    <3>2. seg(batch[d.id]) \in Written(docs, batch) /\ d \in seg(batch[d.id]).docs
      BY <1>3, <3>1
    <3> QED BY <3>2 DEF BaseDocs
  <2>2. ASSUME NEW d \in BaseDocs(Written(docs, batch)) PROVE d \in docs
    <3>1. PICK s \in Written(docs, batch) : d \in s.docs
      BY DEF BaseDocs
    <3>2. PICK b \in used : s = seg(b)
      BY <1>3
    <3> QED BY <3>1, <3>2
  <2> QED BY <2>1, <2>2
<1>14. \A s \in Written(docs, batch) : first <= s.base /\ s.base + Count(s) <= first + n
  BY <1>3, <1>5
<1> QED BY <1>12, <1>13, <1>14

-------------------------------------------------------------------------------
(* The parts of the inductive invariant *)

OnePerPath(docs) == \A d, e \in docs : d.path = e.path => d = e

\* Two sets of documents that hold the same paths with the same content.
SameContent(A, B) ==
    /\ \A d \in A : \E e \in B : d.path = e.path /\ d.data = e.data
    /\ \A e \in B : \E d \in A : d.path = e.path /\ d.data = e.data

GoodBase(m) == /\ Laid(m.segs)
               /\ m.deletes \subseteq Ids(BaseDocs(m.segs))
               /\ OnePerPath(Surviving(m.segs, m.deletes))

OverlayAbove == /\ Distinct(snap.docs)
                /\ \A d \in snap.docs : BaseLimit(snap.segs) <= d.id /\ d.id < snap.next
                /\ snap.limit = BaseLimit(snap.segs) => BaseLimit(snap.segs) <= snap.next

Broken == /\ ~CanOpen(manifest)
          /\ \E s : /\ manifest.segs = snap.segs \cup {s}
                    /\ \A t \in snap.segs : t.base # s.base

Linked == (manifest.segs = snap.segs /\ GoodBase(manifest)) \/ Broken

StoreInv == /\ manifest \in [segs : SUBSET Segment, deletes : SUBSET Id]
            /\ snap \in [segs : SUBSET Segment, deletes : SUBSET Id, docs : SUBSET Doc,
                         next : Id, limit : Id]
            /\ Laid(snap.segs)
            /\ snap.deletes \subseteq Ids(BaseDocs(snap.segs))
            /\ OverlayAbove
            /\ OneLiveDocPerPath
            /\ Linked

ClientInv == /\ tree \in [Path -> File]
             /\ edits \in [Path -> {"none", "changed", "deleted"}]
             /\ book \in SUBSET Path
             /\ job \in Jobs

IInv == ClientInv /\ StoreInv

-------------------------------------------------------------------------------
(* Consequences of the layout *)

\* Neighbouring segments share no id, so a document belongs to one of them.
LEMMA LaidDistinct ==
  ASSUME NEW segs, Laid(segs)
  PROVE  /\ BaseDocs(segs) \in SUBSET Doc
         /\ Distinct(BaseDocs(segs))
         /\ \A d \in BaseDocs(segs) : d.id < BaseLimit(segs)
         /\ \A s, t \in segs : \A d \in s.docs : d \in t.docs => s = t
         /\ CanOpen([segs |-> segs, deletes |-> {}])
<1>0. /\ segs \in SUBSET Segment /\ EndsFit(segs)
      /\ \A s \in segs : SegmentOpens(s) /\ Distinct(s.docs)
      /\ \A s, t \in segs : s.base < t.base => s.base + Count(s) <= t.base
      /\ \A s, t \in segs : s.base = t.base => s = t
  BY DEF Laid
<1>1. ASSUME NEW s \in segs
      PROVE  /\ s.base \in Nat /\ Count(s) \in Nat /\ s.docs \in SUBSET Doc
             /\ \A d \in s.docs : d.id \in Nat /\ s.base <= d.id /\ d.id < s.base + Count(s)
  BY <1>0, LimitAssumption DEF EndsFit, Segment, SegmentOpens, Doc, Id
<1>2. ASSUME NEW s \in segs, NEW t \in segs, NEW d \in s.docs, NEW e \in t.docs, d.id = e.id
      PROVE  s = t
  <2>1. CASE s.base < t.base
    BY <1>0, <1>1, <1>2, <2>1
  <2>2. CASE t.base < s.base
    BY <1>0, <1>1, <1>2, <2>2
  <2>3. s.base \in Nat /\ t.base \in Nat
    BY <1>1
  <2>4. CASE s.base = t.base
    BY <1>0, <2>4
  <2> QED BY <2>1, <2>2, <2>3, <2>4
<1>3. BaseDocs(segs) \in SUBSET Doc
  BY <1>1 DEF BaseDocs
<1>4. Distinct(BaseDocs(segs))
  <2> SUFFICES ASSUME NEW d \in BaseDocs(segs), NEW e \in BaseDocs(segs), d.id = e.id
               PROVE  d = e
    BY DEF Distinct
  <2>1. PICK s \in segs : d \in s.docs
    BY DEF BaseDocs
  <2>2. PICK t \in segs : e \in t.docs
    BY DEF BaseDocs
  <2>3. s = t
    BY <1>2, <2>1, <2>2
  <2> QED BY <1>0, <2>1, <2>2, <2>3 DEF Distinct
<1>5. ASSUME NEW d \in BaseDocs(segs) PROVE d.id < BaseLimit(segs)
  <2>1. PICK s \in segs : d \in s.docs
    BY DEF BaseDocs
  <2>2. s.base + Count(s) <= BaseLimit(segs) /\ BaseLimit(segs) \in Nat
    BY <1>0, BaseLimitLemma, LimitAssumption DEF Id
  <2> QED BY <1>1, <2>1, <2>2
<1>6. CanOpen([segs |-> segs, deletes |-> {}])
  BY <1>0, <1>4 DEF CanOpen, EndsFit, Distinct
<1>7. \A s, t \in segs : \A d \in s.docs : d \in t.docs => s = t
  BY <1>2
<1> QED BY <1>3, <1>4, <1>5, <1>6, <1>7

\* What open checks depends on the segments only.
LEMMA CanOpenSegs ==
  ASSUME NEW m, NEW n, m.segs = n.segs
  PROVE  CanOpen(m) <=> CanOpen(n)
BY DEF CanOpen

\* Segments that lie next to each other pass every check of open.
LEMMA LaidOpens ==
  ASSUME NEW m, Laid(m.segs)
  PROVE  CanOpen(m)
<1>1. CanOpen([segs |-> m.segs, deletes |-> {}])
  BY LaidDistinct
<1> QED BY <1>1, CanOpenSegs

\* Segments that open and are well formed lie next to each other.
LEMMA OpenLaid ==
  ASSUME NEW m, CanOpen(m), m.segs \in SUBSET Segment,
         \A s \in m.segs : s.docs # {} /\ Distinct(s.docs)
  PROVE  Laid(m.segs)
<1>1. ASSUME NEW s \in m.segs PROVE s.base \in Id /\ Count(s) \in Nat
  <2>1. s.docs \in SUBSET Doc /\ s.base \in Id
    BY DEF Segment
  <2> QED BY <2>1, DistinctFinite DEF Count
<1>2. EndsFit(m.segs)
  BY <1>1 DEF EndsFit, CanOpen
<1> QED BY <1>2 DEF Laid, CanOpen

\* A fresh snapshot of a good directory satisfies the store invariant.
LEMMA OpenedGood ==
  ASSUME NEW m \in [segs : SUBSET Segment, deletes : SUBSET Id], GoodBase(m),
         manifest' = m, snap' = Opened(m)
  PROVE  StoreInv'
<1>1. 0 \in Id /\ BaseLimit(m.segs) \in Id
  <2>1. EndsFit(m.segs)
    BY DEF GoodBase, Laid
  <2> QED BY <2>1, BaseLimitLemma, LimitAssumption DEF Id
<1>2. snap' = [segs |-> m.segs, deletes |-> m.deletes, docs |-> {}, next |-> 0, limit |-> 0]
  BY DEF Opened
<1>3. snap' \in [segs : SUBSET Segment, deletes : SUBSET Id, docs : SUBSET Doc,
                 next : Id, limit : Id]
  BY <1>1, <1>2
<1>4. OverlayAbove'
  BY <1>1, <1>2, LimitAssumption DEF OverlayAbove, Distinct, Id
<1>5. OneLiveDocPerPath'
  BY <1>2 DEF OneLiveDocPerPath, Live, GoodBase, OnePerPath
<1>6. Linked'
  BY <1>2 DEF Linked
<1> QED BY <1>2, <1>3, <1>4, <1>5, <1>6 DEF StoreInv, GoodBase

-------------------------------------------------------------------------------
(* Full rebuild *)

\* A build of the tree lays its documents from id 0 and indexes a path once.
LEMMA BuiltGood ==
  ASSUME tree \in [Path -> File],
         NEW order \in Numberings(ReadablePaths),
         NEW batch \in Batches(Ids(BuiltDocs(order)))
  PROVE  /\ Built(order, batch) \in [segs : SUBSET Segment, deletes : SUBSET Id]
         /\ GoodBase(Built(order, batch))
         /\ Surviving(Built(order, batch).segs, Built(order, batch).deletes) = BuiltDocs(order)
<1> DEFINE R == ReadablePaths
           n == Cardinality(R)
           new(p) == [id |-> order[p], path |-> p, data |-> tree[p]]
<1>1. R \in SUBSET Path /\ \A p \in R : tree[p] \in Content
  BY DEF ReadablePaths
<1>2. IsFiniteSet(R) /\ n \in Nat /\ n <= MaxDocId
  <2>1. IsFiniteSet(R) /\ n <= Cardinality(Path)
    BY <1>1, PathAssumption, FS_Subset
  <2>2. n \in Nat /\ Cardinality(Path) \in Nat
    BY <2>1, PathAssumption, FS_CardinalityType
  <2> HIDE DEF n
  <2> QED BY <2>1, <2>2, LimitAssumption
<1>3. order \in [R -> 0 .. n - 1] /\ \A p, q \in R : order[p] = order[q] => p = q
  BY DEF Numberings
<1>4. BuiltDocs(order) = {new(p) : p \in R}
  BY DEF BuiltDocs
<1>5. BuiltDocs(order) \in SUBSET Doc
  <2>1. ASSUME NEW p \in R PROVE new(p) \in Doc
    <3>1. order[p] \in Id
      <4> HIDE DEF n, R
      <4> QED BY <1>2, <1>3, LimitAssumption DEF Id
    <3> QED BY <1>1, <3>1 DEF Doc
  <2> QED BY <1>4, <2>1
<1>6. Distinct(BuiltDocs(order)) /\ OnePerPath(BuiltDocs(order))
  BY <1>3, <1>4 DEF Distinct, OnePerPath
<1>7. Ids(BuiltDocs(order)) = 0 .. (0 + n - 1)
  <2>1. \A k \in 0 .. n - 1 : \E p \in R : order[p] = k
    BY <1>2, <1>3, InjectionOnto
  <2>2. \A p \in R : new(p) \in BuiltDocs(order) /\ new(p).id = order[p]
    BY <1>4
  <2>3. \A d \in BuiltDocs(order) : \E p \in R : d.id = order[p]
    BY <1>4
  <2>4. 0 + n - 1 = n - 1
    BY <1>2
  <2>5. ASSUME NEW k \in 0 .. n - 1 PROVE k \in Ids(BuiltDocs(order))
    <3>1. PICK p \in R : order[p] = k
      BY <2>1
    <3> QED BY <2>2, <3>1 DEF Ids
  <2>6. ASSUME NEW k \in Ids(BuiltDocs(order)) PROVE k \in 0 .. n - 1
    <3>1. PICK d \in BuiltDocs(order) : k = d.id
      BY DEF Ids
    <3>2. PICK p \in R : d.id = order[p]
      BY <2>3
    <3> QED BY <1>3, <3>1, <3>2
  <2> HIDE DEF n
  <2> QED BY <2>4, <2>5, <2>6
<1>8. Fills(BuiltDocs(order), 0, n)
  BY <1>6, <1>7 DEF Fills
<1>9. Laid(Written(BuiltDocs(order), batch)) /\ BaseDocs(Written(BuiltDocs(order), batch)) = BuiltDocs(order)
  <2>1. 0 + n <= MaxDocId /\ 0 \in Nat
    BY <1>2
  <2> QED BY <1>2, <1>5, <1>8, <2>1, WrittenLemma
<1> QED BY <1>6, <1>9 DEF Built, GoodBase, Surviving, OnePerPath, Laid

-------------------------------------------------------------------------------
(* Commit *)

\* The first id a commit assigns lies above the segments and above every
\* document it carries over.
LEMMA CarriedLemma ==
  ASSUME StoreInv, ~CommitFails,
         Cardinality(VisibleChanged) \in Nat
  PROVE  /\ CarriedDocs \in SUBSET Doc
         /\ Distinct(CarriedDocs)
         /\ FirstNewId \in Nat /\ BaseLimit(snap.segs) <= FirstNewId
         /\ NextIdAfter = FirstNewId + Cardinality(VisibleChanged) /\ NextIdAfter \in Id
         /\ \A d \in CarriedDocs : BaseLimit(snap.segs) <= d.id /\ d.id < FirstNewId
         /\ \A x \in CarriedDocs : \E d \in KeptOverlay : x.path = d.path
         /\ OnePerPath(CarriedDocs)
         /\ SameContent(KeptOverlay, CarriedDocs)
<1> DEFINE L == BaseLimit(snap.segs)
           k == Cardinality(KeptOverlay)
<1>1. KeptOverlay \in SUBSET Doc /\ Distinct(KeptOverlay) /\ OnePerPath(KeptOverlay)
  BY DEF KeptOverlay, StoreInv, OverlayAbove, Distinct, OnePerPath, OneLiveDocPerPath, Live
<1>2. k \in Nat
  BY <1>1, DistinctFinite
<1>3. L \in Id /\ L \in Nat /\ snap.next \in Nat
  <2>1. EndsFit(snap.segs)
    BY DEF StoreInv, Laid
  <2> QED BY <2>1, BaseLimitLemma, LimitAssumption DEF StoreInv, Id
<1>4. NextIdAfter = FirstNewId + Cardinality(VisibleChanged)
  BY DEF NextIdAfter
<1>5. CASE StableIds
  <2>1. FirstNewId = snap.next /\ CarriedDocs = KeptOverlay /\ L <= snap.next
    BY <1>5 DEF FirstNewId, CarriedDocs, StableIds, StoreInv, OverlayAbove
  <2>2. NextIdAfter \in Nat /\ NextIdAfter <= MaxDocId
    BY <1>3, <1>4, <2>1, LimitAssumption DEF CommitFails
  <2>3. \A d \in KeptOverlay : L <= d.id /\ d.id < snap.next
    BY DEF KeptOverlay, StoreInv, OverlayAbove
  <2>4. SameContent(KeptOverlay, CarriedDocs)
    BY <2>1 DEF SameContent
  <2> QED BY <1>1, <1>3, <1>4, <2>1, <2>2, <2>3, <2>4, LimitAssumption DEF Id
<1>6. CASE ~StableIds
  <2>1. FirstNewId = L + k /\ CarriedDocs = Numbered(KeptOverlay, Rank(KeptOverlay), L)
    BY <1>6 DEF FirstNewId, CarriedDocs
  <2>2. FirstNewId \in Nat /\ L <= FirstNewId
    BY <1>2, <1>3, <2>1
  <2>3. NextIdAfter \in Nat /\ NextIdAfter <= MaxDocId
    BY <1>4, <2>2, LimitAssumption DEF CommitFails
  <2>4. L + k <= MaxDocId
    BY <1>2, <1>3, <1>4, <2>1, <2>3, LimitAssumption
  <2>5. /\ CarriedDocs \in SUBSET Doc
        /\ Fills(CarriedDocs, L, k)
        /\ \A x \in CarriedDocs : \E d \in KeptOverlay :
              x.id = L + Rank(KeptOverlay)[d] /\ x.path = d.path /\ x.data = d.data
        /\ \A d \in KeptOverlay : \E x \in CarriedDocs : x.path = d.path /\ x.data = d.data
    BY <1>1, <1>3, <2>1, <2>4, RankLemma, NumberedLemma
  <2>6. \A d \in CarriedDocs : L <= d.id /\ d.id < L + k
    <3>1. \A d \in CarriedDocs : d.id \in L .. (L + k - 1)
      BY <2>5 DEF Fills, Ids
    <3> QED BY <1>2, <1>3, <3>1
  <2>7. OnePerPath(CarriedDocs)
    <3> SUFFICES ASSUME NEW x \in CarriedDocs, NEW y \in CarriedDocs, x.path = y.path
                 PROVE  x = y
      BY DEF OnePerPath
    <3>1. PICK d \in KeptOverlay : x.id = L + Rank(KeptOverlay)[d] /\ x.path = d.path
      BY <2>5
    <3>2. PICK e \in KeptOverlay : y.id = L + Rank(KeptOverlay)[e] /\ y.path = e.path
      BY <2>5
    <3>3. d = e
      BY <1>1, <3>1, <3>2 DEF OnePerPath
    <3> QED BY <2>5, <3>1, <3>2, <3>3 DEF Fills, Distinct
  <2>8. NextIdAfter \in Id
    BY <2>3, LimitAssumption DEF Id
  <2>9. Distinct(CarriedDocs) /\ \A x \in CarriedDocs : \E d \in KeptOverlay : x.path = d.path
    BY <2>5 DEF Fills
  <2>10. SameContent(KeptOverlay, CarriedDocs)
    BY <2>5 DEF SameContent
  <2> QED BY <1>4, <2>1, <2>2, <2>5, <2>6, <2>7, <2>8, <2>9, <2>10
<1> QED BY <1>5, <1>6

\* commit_batch keeps the store invariant.
LEMMA CommitGood ==
  ASSUME IInv, CommitBatch
  PROVE  StoreInv'
<1> DEFINE L == BaseLimit(snap.segs)
           V == VisibleChanged
           touched == Changed \cup Deleted
<1>1. /\ V \in SUBSET Path /\ V \subseteq touched /\ VisibleChanged \cup Removed = touched
      /\ \A p \in V : tree[p] \in Content
  BY DEF VisibleChanged, Changed, Deleted, Removed
<1>2. IsFiniteSet(V) /\ Cardinality(V) \in Nat
  BY <1>1, PathAssumption, FS_Subset, FS_CardinalityType
<1>3. StoreInv /\ ~CommitFails
  BY DEF IInv, CommitBatch
<1>4. PICK order \in Numberings(V) :
         snap' = [segs    |-> snap.segs,
                  deletes |-> DeletesAfter,
                  docs    |-> CarriedDocs \cup NewDocs(order),
                  next    |-> NextIdAfter,
                  limit   |-> L]
  BY DEF CommitBatch
<1>5. manifest' = manifest
  BY DEF CommitBatch
<1>6. /\ CarriedDocs \in SUBSET Doc
      /\ Distinct(CarriedDocs)
      /\ FirstNewId \in Nat /\ L <= FirstNewId
      /\ NextIdAfter = FirstNewId + Cardinality(V) /\ NextIdAfter \in Id
      /\ \A d \in CarriedDocs : L <= d.id /\ d.id < FirstNewId
      /\ \A x \in CarriedDocs : \E d \in KeptOverlay : x.path = d.path
      /\ OnePerPath(CarriedDocs)
  BY <1>2, <1>3, CarriedLemma
<1>7. /\ order \in [V -> 0 .. Cardinality(V) - 1]
      /\ \A p, q \in V : order[p] = order[q] => p = q
  BY DEF Numberings
<1> DEFINE new(p) == [id |-> FirstNewId + order[p], path |-> p, data |-> tree[p]]
<1>8. NewDocs(order) = {new(p) : p \in V}
  BY DEF NewDocs
<1>9. ASSUME NEW p \in V
      PROVE  /\ new(p) \in Doc
             /\ FirstNewId <= FirstNewId + order[p] /\ FirstNewId + order[p] < NextIdAfter
  <2>1. order[p] \in 0 .. Cardinality(V) - 1
    BY <1>7
  <2>2. /\ FirstNewId <= FirstNewId + order[p] /\ FirstNewId + order[p] < NextIdAfter
        /\ FirstNewId + order[p] \in Id
    <3> HIDE DEF V
    <3> QED BY <1>2, <1>6, <2>1, LimitAssumption DEF Id
  <2> QED BY <1>1, <2>2 DEF Doc
<1>10. \A d \in NewDocs(order) : FirstNewId <= d.id /\ d.id < NextIdAfter /\ d.path \in V
  BY <1>8, <1>9
<1>11. Distinct(NewDocs(order)) /\ OnePerPath(NewDocs(order))
  <2>1. ASSUME NEW p \in V, NEW q \in V, new(p).id = new(q).id PROVE p = q
    <3>1. order[p] \in Int /\ order[q] \in Int
      BY <1>7
    <3>2. FirstNewId + order[p] = FirstNewId + order[q]
      BY <2>1
    <3>3. \A f \in Nat, a, b \in Int : f + a = f + b => a = b
      OBVIOUS
    <3>4. order[p] = order[q]
      BY <1>6, <3>1, <3>2, <3>3
    <3> QED BY <1>7, <3>4
  <2> QED BY <1>8, <2>1 DEF Distinct, OnePerPath
<1>12. snap'.docs \in SUBSET Doc
  BY <1>4, <1>6, <1>8, <1>9
<1>13. Laid(snap.segs) /\ L \in Id /\ L \in Nat
  <2>1. Laid(snap.segs)
    BY <1>3 DEF StoreInv
  <2> QED BY <2>1, BaseLimitLemma, LimitAssumption DEF Laid, Id
<1>14. DeletesAfter \subseteq Ids(BaseDocs(snap.segs)) /\ DeletesAfter \in SUBSET Id
  <2>1. DeletesAfter \subseteq Ids(BaseDocs(snap.segs))
    BY <1>3 DEF DeletesAfter, StoreInv, Ids
  <2>2. BaseDocs(snap.segs) \in SUBSET Doc
    BY <1>13, LaidDistinct
  <2> QED BY <2>1, <2>2 DEF Ids, Doc
<1>15. OverlayAbove'
  <2>1. ASSUME NEW d \in snap'.docs PROVE L <= d.id /\ d.id < NextIdAfter
    <3>1. d.id \in Nat /\ NextIdAfter \in Nat
      BY <1>6, <1>12, LimitAssumption DEF Doc, Id
    <3>2. CASE d \in CarriedDocs
      <4> HIDE DEF V
      <4> QED BY <1>2, <1>6, <1>13, <3>1, <3>2
    <3>3. CASE d \in NewDocs(order)
      BY <1>6, <1>10, <1>13, <3>1, <3>3
    <3> QED BY <1>4, <3>2, <3>3
  <2>2. Distinct(snap'.docs)
    <3> SUFFICES ASSUME NEW d \in snap'.docs, NEW e \in snap'.docs, d.id = e.id
                 PROVE  d = e
      BY DEF Distinct
    <3>1. d.id \in Nat /\ e.id \in Nat
      BY <1>12, LimitAssumption DEF Doc, Id
    <3>2. d \in CarriedDocs /\ e \in CarriedDocs => d = e
      BY <1>6 DEF Distinct
    <3>3. d \in NewDocs(order) /\ e \in NewDocs(order) => d = e
      BY <1>11 DEF Distinct
    <3>4. d \in CarriedDocs => d.id < FirstNewId
      BY <1>6
    <3>5. e \in CarriedDocs => e.id < FirstNewId
      BY <1>6
    <3>6. d \in NewDocs(order) => FirstNewId <= d.id
      BY <1>10
    <3>7. e \in NewDocs(order) => FirstNewId <= e.id
      BY <1>10
    <3> QED BY <1>4, <1>6, <3>1, <3>2, <3>3, <3>4, <3>5, <3>6, <3>7
  <2>3. L <= NextIdAfter
    <3> HIDE DEF V
    <3> QED BY <1>2, <1>6, <1>13
  <2>4. snap'.segs = snap.segs /\ snap'.next = NextIdAfter /\ snap'.limit = L
    BY <1>4
  <2> QED BY <2>1, <2>2, <2>3, <2>4 DEF OverlayAbove
<1>16. OneLiveDocPerPath'
  <2>1. ASSUME NEW d \in Surviving(snap.segs, DeletesAfter)
        PROVE  d \in Live(snap) /\ d.path \notin touched
    BY DEF Surviving, Live, DeletesAfter
  <2>2. ASSUME NEW d \in CarriedDocs
        PROVE  \E e \in snap.docs : e.path = d.path /\ e.path \notin touched
    BY <1>1, <1>6 DEF KeptOverlay
  <2>3. OnePerPath(Live(snap))
    BY <1>3 DEF StoreInv, OneLiveDocPerPath, OnePerPath
  <2>4. ASSUME NEW d \in Surviving(snap.segs, DeletesAfter), NEW e \in CarriedDocs
        PROVE  d.path # e.path
    <3> SUFFICES ASSUME d.path = e.path PROVE FALSE
      OBVIOUS
    <3>1. PICK f \in snap.docs : f.path = e.path
      BY <2>2
    <3>2. f = d
      BY <2>1, <2>3, <3>1 DEF OnePerPath, Live
    <3>3. L <= d.id
      BY <1>3, <3>1, <3>2 DEF StoreInv, OverlayAbove
    <3>4. d.id < L /\ d \in Doc
      BY <1>13, LaidDistinct DEF Surviving
    <3>5. d.id \in Nat
      BY <3>4, LimitAssumption DEF Doc, Id
    <3> QED BY <1>13, <3>3, <3>4, <3>5
  <2>5. ASSUME NEW d \in Live(snap'), NEW e \in Live(snap'), d.path = e.path
        PROVE  d = e
    <3> DEFINE S == Surviving(snap.segs, DeletesAfter)
    <3>1. Live(snap') = S \cup CarriedDocs \cup NewDocs(order)
      BY <1>4 DEF Live
    <3>2. d \in S /\ e \in S => d = e
      BY <2>1, <2>3, <2>5 DEF OnePerPath
    <3>3. d \in CarriedDocs /\ e \in CarriedDocs => d = e
      BY <1>6, <2>5 DEF OnePerPath
    <3>4. d \in NewDocs(order) /\ e \in NewDocs(order) => d = e
      BY <1>11, <2>5 DEF OnePerPath
    <3>5. \A x \in S \cup CarriedDocs : x.path \notin touched
      BY <2>1, <2>2
    <3>6. \A x \in NewDocs(order) : x.path \in touched
      BY <1>1, <1>10
    <3> HIDE DEF S
    <3> QED BY <2>4, <2>5, <3>1, <3>2, <3>3, <3>4, <3>5, <3>6 DEF S
  <2> QED BY <2>5 DEF OneLiveDocPerPath
<1>17. Linked'
  <2>1. snap'.segs = snap.segs
    BY <1>4
  <2>2. Linked
    BY <1>3 DEF StoreInv
  <2> QED BY <1>5, <2>1, <2>2 DEF Linked, Broken
<1>18. /\ manifest' \in [segs : SUBSET Segment, deletes : SUBSET Id]
       /\ snap' \in [segs : SUBSET Segment, deletes : SUBSET Id, docs : SUBSET Doc,
                     next : Id, limit : Id]
  <2>1. snap.segs \in SUBSET Segment /\ manifest \in [segs : SUBSET Segment, deletes : SUBSET Id]
    BY <1>3 DEF StoreInv
  <2> QED BY <1>4, <1>5, <1>6, <1>12, <1>13, <1>14, <2>1
<1> QED BY <1>4, <1>13, <1>14, <1>15, <1>16, <1>17, <1>18 DEF StoreInv

-------------------------------------------------------------------------------
(* Flush *)

\* A Broken directory is refused by the guards of a flush and of a compaction.
LEMMA BrokenRefused ==
  ASSUME StoreInv, Broken
  PROVE  ~SnapshotMatchesManifest /\ ~BasesMatch
<1>1. PICK s : manifest.segs = snap.segs \cup {s} /\ \A t \in snap.segs : t.base # s.base
  BY DEF Broken
<1>2. IsFiniteSet(snap.segs)
  <2> DEFINE f == [t \in snap.segs |-> t.base]
  <2>1. IsFiniteSet(Id)
    BY FS_Interval, LimitAssumption DEF Id
  <2>2. f \in Injection(snap.segs, Id)
    BY DEF Injection, IsInjective, StoreInv, Laid, Segment
  <2> QED BY <2>1, <2>2, FS_Injection
<1>3. s \notin snap.segs
  BY <1>1
<1>4. Cardinality(snap.segs \cup {s}) = Cardinality(snap.segs) + 1
      /\ Cardinality(snap.segs) \in Nat
  BY <1>2, <1>3, FS_AddElement, FS_CardinalityType
<1>5. ~SnapshotMatchesManifest
  BY <1>1, <1>4 DEF SnapshotMatchesManifest
<1>6. ~BasesMatch
  BY <1>1 DEF BasesMatch
<1> QED BY <1>5, <1>6

\* The documents a flush makes durable are the live ones.
LEMMA FlushKeepsLive ==
  ASSUME StoreInv, SnapshotMatchesManifest
  PROVE  /\ manifest.segs = snap.segs
         /\ Flushed = [segs |-> snap.segs \cup DeltaSegment, deletes |-> snap.deletes]
         /\ BaseDocs(Flushed.segs) = BaseDocs(snap.segs) \cup snap.docs
         /\ Surviving(Flushed.segs, Flushed.deletes) = Live(snap)
<1>1. Linked /\ ~Broken
  BY BrokenRefused DEF StoreInv
<1>2. manifest.segs = snap.segs
  BY <1>1 DEF Linked
<1>3. /\ snap.segs \in SUBSET Segment /\ snap.docs \in SUBSET Doc /\ snap.deletes \in SUBSET Id
      /\ Laid(snap.segs) /\ Distinct(snap.docs)
  BY DEF StoreInv, OverlayAbove
<1>4. Flushed = [segs |-> snap.segs \cup DeltaSegment, deletes |-> snap.deletes]
  BY <1>2 DEF Flushed
<1>5. BaseDocs(Flushed.segs) = BaseDocs(snap.segs) \cup snap.docs
  <2>1. BaseDocs(snap.segs \cup DeltaSegment) = BaseDocs(snap.segs) \cup BaseDocs(DeltaSegment)
    BY DEF BaseDocs
  <2>2. BaseDocs(DeltaSegment) = snap.docs
    <3>1. CASE snap.docs = {}
      BY <3>1 DEF BaseDocs, DeltaSegment
    <3>2. CASE snap.docs # {}
      <4> DEFINE s == [base |-> LowestId(snap.docs), docs |-> snap.docs]
      <4>1. DeltaSegment = {s} /\ s.docs = snap.docs
        BY <3>2 DEF DeltaSegment
      <4> HIDE DEF s
      <4> QED BY <4>1 DEF BaseDocs
    <3> QED BY <3>1, <3>2
  <2> QED BY <1>4, <2>1, <2>2
<1>6. BaseLimit(snap.segs) \in Nat
  BY <1>3, BaseLimitLemma, LimitAssumption DEF Laid, Id
<1>7. \A d \in snap.docs : d.id \notin snap.deletes
  <2> SUFFICES ASSUME NEW d \in snap.docs, NEW e \in BaseDocs(snap.segs), e.id = d.id
               PROVE  FALSE
    BY DEF StoreInv, Ids
  <2>1. e.id < BaseLimit(snap.segs) /\ e \in Doc
    BY <1>3, LaidDistinct
  <2>2. BaseLimit(snap.segs) <= d.id
    BY DEF StoreInv, OverlayAbove
  <2>3. e.id \in Nat
    BY <2>1, LimitAssumption DEF Doc, Id
  <2> QED BY <1>6, <2>1, <2>2, <2>3
<1>8. Surviving(Flushed.segs, Flushed.deletes) = Live(snap)
  BY <1>4, <1>5, <1>7 DEF Surviving, Live
<1> QED BY <1>2, <1>4, <1>5, <1>8

\* A flush keeps the store invariant: it installs what it wrote if that opens,
\* and leaves a directory its guard and the compaction's refuse otherwise.
LEMMA FlushGood ==
  ASSUME IInv, manifest' = Flushed, SnapshotMatchesManifest,
         IF CanOpen(Flushed) THEN snap' = Opened(Flushed) ELSE UNCHANGED snap
  PROVE  StoreInv'
<1>1. StoreInv
  BY DEF IInv
<1>3. /\ manifest.segs = snap.segs
      /\ Flushed = [segs |-> snap.segs \cup DeltaSegment, deletes |-> snap.deletes]
      /\ BaseDocs(Flushed.segs) = BaseDocs(snap.segs) \cup snap.docs
      /\ Surviving(Flushed.segs, Flushed.deletes) = Live(snap)
  BY <1>1, FlushKeepsLive
<1>4. /\ snap.segs \in SUBSET Segment /\ snap.docs \in SUBSET Doc /\ snap.deletes \in SUBSET Id
      /\ Laid(snap.segs) /\ Distinct(snap.docs)
  BY <1>1 DEF StoreInv, OverlayAbove
<1>5. Flushed = [segs |-> snap.segs \cup DeltaSegment, deletes |-> snap.deletes]
  BY <1>3
<1>6. DeltaSegment \in SUBSET Segment
  <2>1. CASE snap.docs = {}
    BY <2>1 DEF DeltaSegment
  <2>2. CASE snap.docs # {}
    <3>1. LowestId(snap.docs) \in Id
      BY <1>4, <2>2, LowestIdLemma
    <3> QED BY <1>4, <2>2, <3>1 DEF DeltaSegment, Segment
  <2> QED BY <2>1, <2>2
<1>7. \A s \in DeltaSegment : s.docs = snap.docs /\ s.docs # {} /\ Distinct(s.docs)
  BY <1>4 DEF DeltaSegment
<1>8. Flushed \in [segs : SUBSET Segment, deletes : SUBSET Id]
  BY <1>4, <1>5, <1>6
<1>9. BaseDocs(Flushed.segs) = BaseDocs(snap.segs) \cup snap.docs
  BY <1>3
<1>10. BaseLimit(snap.segs) \in Nat
  BY <1>4, BaseLimitLemma, LimitAssumption DEF Laid, Id
<1>12. Surviving(Flushed.segs, Flushed.deletes) = Live(snap)
  BY <1>3
<1>13. CASE CanOpen(Flushed)
  <2>1. Laid(Flushed.segs)
    <3>1. \A s \in Flushed.segs : s.docs # {} /\ Distinct(s.docs)
      BY <1>4, <1>5, <1>7 DEF Laid
    <3> QED BY <1>8, <1>13, <3>1, OpenLaid
  <2>2. GoodBase(Flushed)
    <3>1. Flushed.deletes \subseteq Ids(BaseDocs(Flushed.segs))
      BY <1>1, <1>5, <1>9 DEF StoreInv, Ids
    <3> QED BY <1>1, <1>12, <2>1, <3>1 DEF GoodBase, OnePerPath, StoreInv, OneLiveDocPerPath
  <2> QED BY <1>8, <1>13, <2>2, OpenedGood
<1>14. CASE ~CanOpen(Flushed)
  <2>1. snap.docs # {}
    <3>1. snap.docs = {} => Flushed.segs = snap.segs
      BY <1>5 DEF DeltaSegment
    <3> QED BY <1>4, <1>14, <3>1, LaidOpens
  <2> DEFINE s == [base |-> LowestId(snap.docs), docs |-> snap.docs]
  <2>2. Flushed.segs = snap.segs \cup {s}
    BY <1>5, <2>1 DEF DeltaSegment
  <2>3. ASSUME NEW t \in snap.segs PROVE t.base # s.base
    <3>1. PICK d \in snap.docs : LowestId(snap.docs) = d.id
      BY <1>4, <2>1, LowestIdLemma DEF Ids
    <3>2. BaseLimit(snap.segs) <= d.id /\ d.id \in Nat
      BY <1>1, <1>4, LimitAssumption DEF StoreInv, OverlayAbove, Doc, Id
    <3>3. PICK e \in t.docs : TRUE
      BY <1>4 DEF Laid
    <3>4. t.base <= e.id /\ e \in Doc
      BY <1>4 DEF Laid, SegmentOpens, Segment
    <3>5. e.id < BaseLimit(snap.segs)
      BY <1>4, LaidDistinct DEF BaseDocs
    <3>6. t.base \in Nat /\ e.id \in Nat
      BY <1>4, <3>4, LimitAssumption DEF Segment, Doc, Id
    <3> QED BY <1>10, <3>1, <3>2, <3>4, <3>5, <3>6
  <2>4. Broken'
    <3>1. ~CanOpen(manifest')
      BY <1>14
    <3>2. snap' = snap /\ manifest'.segs = snap.segs \cup {s}
      BY <1>14, <2>2
    <3> QED BY <2>3, <3>1, <3>2 DEF Broken, CanOpen, SegmentOpens, BaseDocs, Count
  <2>5. snap' = snap /\ manifest' \in [segs : SUBSET Segment, deletes : SUBSET Id]
    BY <1>8, <1>14
  <2> QED BY <1>1, <2>4, <2>5 DEF StoreInv, OverlayAbove, OneLiveDocPerPath, Linked
<1> QED BY <1>13, <1>14

-------------------------------------------------------------------------------
(* Compaction *)

\* Adding segments past the limit of the ones that are kept.
LEMMA LaidUnion ==
  ASSUME NEW P, NEW W, Laid(P), Laid(W), \A s \in W : BaseLimit(P) <= s.base
  PROVE  Laid(P \cup W)
<1>1. ASSUME NEW s \in P \cup W
      PROVE  s.base \in Nat /\ Count(s) \in Nat /\ Count(s) > 0
  <2>1. s.base \in Nat /\ Count(s) \in Nat /\ SegmentOpens(s) /\ s.docs # {} /\ s \in Segment
    BY LimitAssumption DEF Laid, EndsFit, Id
  <2>2. PICK d \in s.docs : s.base <= d.id /\ d.id < s.base + Count(s) /\ d.id \in Nat
    BY <2>1, LimitAssumption DEF SegmentOpens, Segment, Doc, Id
  <2> QED BY <2>1, <2>2
<1>2. BaseLimit(P) \in Nat /\ \A s \in P : s.base + Count(s) <= BaseLimit(P)
  BY BaseLimitLemma, LimitAssumption DEF Laid, Id
<1>3. ASSUME NEW s \in P, NEW t \in W
      PROVE  s.base + Count(s) <= t.base /\ s.base < t.base
  <2>1. s.base + Count(s) <= BaseLimit(P) /\ BaseLimit(P) <= t.base
    BY <1>2
  <2>2. s.base \in Nat /\ Count(s) \in Nat /\ Count(s) > 0 /\ t.base \in Nat
    BY <1>1
  <2> QED BY <1>2, <2>1, <2>2
<1>4. ASSUME NEW s \in P \cup W, NEW t \in P \cup W
      PROVE  /\ s.base < t.base => s.base + Count(s) <= t.base
             /\ s.base = t.base => s = t
  <2>1. s.base \in Nat /\ t.base \in Nat
    BY <1>1
  <2>2. CASE s \in P /\ t \in P
    BY <2>2 DEF Laid
  <2>3. CASE s \in W /\ t \in W
    BY <2>3 DEF Laid
  <2>4. CASE s \in P /\ t \in W
    BY <1>3, <2>1, <2>4
  <2>5. CASE s \in W /\ t \in P
    BY <1>3, <2>1, <2>5
  <2> QED BY <2>2, <2>3, <2>4, <2>5
<1>5. /\ P \cup W \in SUBSET Segment /\ EndsFit(P \cup W)
      /\ \A s \in P \cup W : s.docs # {} /\ SegmentOpens(s) /\ Distinct(s.docs)
  BY DEF Laid, EndsFit
<1> QED BY <1>4, <1>5 DEF Laid

\* Some of the segments of a directory that opens still open: a kept prefix.
LEMMA LaidSubset ==
  ASSUME NEW P, NEW Q, Laid(Q), P \subseteq Q
  PROVE  Laid(P)
BY DEF Laid, EndsFit

\* The planner's suffix: what it leaves out holds no deleted document, which is
\* why a compaction may drop the whole delete set.
LEMMA PrefixUndeleted ==
  ASSUME StoreInv, NEW bloat \in BOOLEAN,
         NEW s \in snap.segs, s \notin PlannedSuffix(bloat), NEW d \in s.docs
  PROVE  d.id \notin snap.deletes
<1>1. Laid(snap.segs)
  BY DEF StoreInv
<1>2. s \notin DeleteSuffix
  BY DEF PlannedSuffix
<1>3. SUFFICES ASSUME d.id \in snap.deletes PROVE FALSE
  OBVIOUS
<1>4. PICK t \in snap.segs : s.base < t.base /\ ~(d.id < t.base)
  BY <1>2, <1>3 DEF DeleteSuffix
<1>5. /\ s.base + Count(s) <= t.base /\ d.id < s.base + Count(s)
      /\ s.base \in Nat /\ Count(s) \in Nat /\ t.base \in Nat /\ d.id \in Nat
  BY <1>1, <1>4, LimitAssumption DEF Laid, SegmentOpens, EndsFit, Segment, Doc, Id
<1> QED BY <1>4, <1>5

\* The directory a compaction writes opens and has one document per path.
LEMMA RewriteGood ==
  ASSUME StoreInv, BasesMatch, NEW bloat \in BOOLEAN, RewriteFits(PlannedSuffix(bloat)),
         NEW batch \in Batches(Ids(Rewritten(PlannedSuffix(bloat))))
  PROVE  /\ Compacted(PlannedSuffix(bloat), batch) \in [segs : SUBSET Segment, deletes : SUBSET Id]
         /\ GoodBase(Compacted(PlannedSuffix(bloat), batch))
         /\ SameContent(Live(snap), Surviving(Compacted(PlannedSuffix(bloat), batch).segs,
                                             Compacted(PlannedSuffix(bloat), batch).deletes))
<1> DEFINE suffix == PlannedSuffix(bloat)
           P == Prefix(suffix)
           M == Moved(suffix)
           L == BaseLimit(P)
           R == Rewritten(suffix)
           W == Written(R, batch)
<1>1. manifest.segs = snap.segs /\ Laid(snap.segs)
  BY BrokenRefused DEF StoreInv, Linked
<1>2. suffix \subseteq snap.segs
  BY DEF PlannedSuffix, DeleteSuffix, LimitSuffix
<1>3. P = snap.segs \ suffix
  <2>1. P = {s \in snap.segs : s.base \notin {t.base : t \in suffix}}
    BY <1>1 DEF Prefix
  <2>2. ASSUME NEW s \in snap.segs, NEW t \in suffix, s.base = t.base PROVE s = t
    BY <1>1, <1>2, <2>2 DEF Laid
  <2> HIDE DEF suffix
  <2> QED BY <2>1, <2>2
<1>4. Laid(P) /\ L \in Nat
  <2>1. Laid(P)
    BY <1>1, <1>3, LaidSubset
  <2> QED BY <2>1, BaseLimitLemma, LimitAssumption DEF Laid, Id
<1>5. M \subseteq Live(snap) /\ M = Surviving(suffix, snap.deletes) \cup snap.docs
  BY <1>2 DEF Moved, Live, Surviving, BaseDocs
<1>6. /\ BaseDocs(snap.segs) \in SUBSET Doc /\ Distinct(BaseDocs(snap.segs))
      /\ \A d \in BaseDocs(snap.segs) : d.id < BaseLimit(snap.segs)
      /\ \A s, t \in snap.segs : \A d \in s.docs : d \in t.docs => s = t
  BY <1>1, LaidDistinct
<1>7. /\ snap.docs \in SUBSET Doc /\ Distinct(snap.docs)
      /\ \A d \in snap.docs : BaseLimit(snap.segs) <= d.id
      /\ BaseLimit(snap.segs) \in Nat
  BY <1>1, BaseLimitLemma, LimitAssumption DEF StoreInv, OverlayAbove, Laid, Id
<1>8. \A d \in BaseDocs(snap.segs), e \in snap.docs : d.id # e.id
  <2> SUFFICES ASSUME NEW d \in BaseDocs(snap.segs), NEW e \in snap.docs, d.id = e.id
               PROVE  FALSE
    OBVIOUS
  <2>1. d.id \in Nat
    BY <1>6, LimitAssumption DEF Doc, Id
  <2> QED BY <1>6, <1>7, <2>1
<1>9. M \in SUBSET Doc /\ Distinct(M)
  <2>1. M \subseteq BaseDocs(snap.segs) \cup snap.docs
    BY <1>5 DEF Live, Surviving
  <2> HIDE DEF M
  <2> QED BY <1>6, <1>7, <1>8, <2>1 DEF Distinct
<1>10. Cardinality(M) \in Nat /\ L + Cardinality(M) <= MaxDocId
  BY <1>9, DistinctFinite DEF RewriteFits
<1>11. /\ R \in SUBSET Doc
       /\ Fills(R, L, Cardinality(M))
       /\ \A x \in R : \E d \in M : x.id = L + Rank(M)[d] /\ x.path = d.path /\ x.data = d.data
       /\ \A d \in M : \E x \in R : x.path = d.path /\ x.data = d.data
  <2>1. R = Numbered(M, Rank(M), L)
    BY DEF Rewritten
  <2> HIDE DEF R, M, L
  <2> QED BY <1>4, <1>9, <1>10, <2>1, RankLemma, NumberedLemma
<1>12. /\ Laid(W) /\ BaseDocs(W) = R
       /\ \A s \in W : L <= s.base
  <2> HIDE DEF R, M, L, suffix
  <2> QED BY <1>4, <1>10, <1>11, WrittenLemma DEF R, suffix
<1>13. Laid(P \cup W)
  <2> HIDE DEF P, W
  <2> QED BY <1>4, <1>12, LaidUnion
<1>14. Compacted(suffix, batch) = [segs |-> P \cup W, deletes |-> {}]
  BY DEF Compacted
<1>15. Surviving(P \cup W, {}) = BaseDocs(P) \cup R
  <2>1. BaseDocs(P \cup W) = BaseDocs(P) \cup BaseDocs(W)
    BY DEF BaseDocs
  <2> HIDE DEF P, W, R
  <2> QED BY <1>12, <2>1 DEF Surviving
<1>16. ASSUME NEW d \in BaseDocs(P) PROVE d \in Live(snap) /\ d \notin M
  <2>1. PICK s \in P : d \in s.docs
    BY DEF BaseDocs
  <2>2. s \in snap.segs /\ s \notin suffix
    BY <1>3, <2>1
  <2>3. d \in BaseDocs(snap.segs) /\ d.id \notin snap.deletes
    BY <2>1, <2>2, PrefixUndeleted DEF BaseDocs
  <2>4. d \in Live(snap)
    BY <2>3 DEF Live, Surviving
  <2>5. d \notin snap.docs
    BY <1>8, <2>3
  <2>6. d \notin BaseDocs(suffix)
    <3> SUFFICES ASSUME NEW t \in suffix, d \in t.docs PROVE FALSE
      BY DEF BaseDocs
    <3> QED BY <1>2, <1>6, <2>1, <2>2
  <2>7. d \notin M
    BY <1>5, <2>5, <2>6 DEF Surviving
  <2> QED BY <2>4, <2>7
<1>17. OnePerPath(BaseDocs(P) \cup R)
  <2>1. \A d, e \in Live(snap) : d.path = e.path => d = e
    BY DEF StoreInv, OneLiveDocPerPath
  <2>2. ASSUME NEW x \in R, NEW y \in R, x.path = y.path PROVE x = y
    <3>1. PICK d \in M : x.id = L + Rank(M)[d] /\ x.path = d.path
      BY <1>11
    <3>2. PICK e \in M : y.id = L + Rank(M)[e] /\ y.path = e.path
      BY <1>11
    <3>3. d = e
      BY <1>5, <2>1, <2>2, <3>1, <3>2
    <3> QED BY <1>11, <3>1, <3>2, <3>3 DEF Fills, Distinct
  <2>3. ASSUME NEW d \in BaseDocs(P), NEW y \in R PROVE d.path # y.path
    <3>1. PICK e \in M : y.path = e.path
      BY <1>11
    <3> QED BY <1>5, <1>16, <2>1, <3>1
  <2>4. ASSUME NEW d \in BaseDocs(P), NEW e \in BaseDocs(P), d.path = e.path PROVE d = e
    BY <1>16, <2>1, <2>4
  <2> HIDE DEF P, R
  <2> QED BY <2>2, <2>3, <2>4 DEF OnePerPath
<1>18. GoodBase(Compacted(suffix, batch))
  <2> HIDE DEF P, W, R
  <2> QED BY <1>13, <1>14, <1>15, <1>17 DEF GoodBase
<1>19. Compacted(suffix, batch) \in [segs : SUBSET Segment, deletes : SUBSET Id]
  BY <1>13, <1>14 DEF Laid
<1>20. SameContent(Live(snap), BaseDocs(P) \cup R)
  <2>1. ASSUME NEW d \in Live(snap) PROVE d \in BaseDocs(P) \/ d \in M
    <3>1. CASE d \in snap.docs
      BY <1>5, <3>1
    <3>2. CASE d \in Surviving(snap.segs, snap.deletes)
      <4>1. PICK s \in snap.segs : d \in s.docs
        BY <3>2 DEF Surviving, BaseDocs
      <4>2. s \in P => d \in BaseDocs(P)
        BY <4>1 DEF BaseDocs
      <4>3. s \in suffix => d \in Surviving(suffix, snap.deletes)
        BY <3>2, <4>1 DEF Surviving, BaseDocs
      <4> HIDE DEF P, M, suffix
      <4> QED BY <1>3, <1>5, <4>1, <4>2, <4>3
    <3> QED BY <3>1, <3>2 DEF Live
  <2> HIDE DEF P, R, M
  <2> QED BY <1>5, <1>11, <1>16, <2>1 DEF SameContent
<1>21. SameContent(Live(snap), Surviving(Compacted(suffix, batch).segs, Compacted(suffix, batch).deletes))
  <2>1. Compacted(suffix, batch).segs = P \cup W /\ Compacted(suffix, batch).deletes = {}
    BY <1>14
  <2>2. SameContent(Live(snap), Surviving(P \cup W, {}))
    BY <1>15, <1>20
  <2> HIDE DEF P, W, R
  <2> QED BY <2>1, <2>2
<1> QED BY <1>18, <1>19, <1>21

-------------------------------------------------------------------------------
(* The inductive invariant *)

\* The first build establishes the inductive invariant.
LEMMA InitInv == Init => IInv
<1> SUFFICES ASSUME Init PROVE IInv
  OBVIOUS
<1>1. PICK order \in Numberings(ReadablePaths) :
        \E batch \in Batches(Ids(BuiltDocs(order))) :
          manifest = Built(order, batch) /\ snap = Opened(Built(order, batch))
  BY DEF Init
<1>2. PICK batch \in Batches(Ids(BuiltDocs(order))) :
        manifest = Built(order, batch) /\ snap = Opened(Built(order, batch))
  BY <1>1
<1>3. manifest \in [segs : SUBSET Segment, deletes : SUBSET Id] /\ GoodBase(manifest)
  BY <1>2, BuiltGood DEF Init
<1>4. snap = [segs |-> manifest.segs, deletes |-> manifest.deletes, docs |-> {},
              next |-> 0, limit |-> 0]
  BY <1>2 DEF Opened
<1>5. 0 \in Id /\ BaseLimit(manifest.segs) \in Id
  BY <1>3, BaseLimitLemma, LimitAssumption DEF GoodBase, Laid, Id
<1>6. StoreInv
  BY <1>3, <1>4, <1>5, LimitAssumption
     DEF StoreInv, OverlayAbove, Distinct, OneLiveDocPerPath, Live, Linked, GoodBase,
         OnePerPath, Id
<1>7. ClientInv
  BY DEF Init, ClientInv, NoEdits, Jobs
<1> QED BY <1>6, <1>7 DEF IInv

\* A step that leaves the store alone keeps its invariant.
LEMMA StoreUnchanged ==
  ASSUME StoreInv, UNCHANGED <<manifest, snap>>
  PROVE  StoreInv'
<1>1. manifest' = manifest /\ snap' = snap
  OBVIOUS
<1> QED BY <1>1 DEF StoreInv, OverlayAbove, OneLiveDocPerPath, Live, Surviving, BaseDocs, BaseLimit,
                    Distinct, Linked, Broken, CanOpen, SegmentOpens, Count, GoodBase, Laid,
                    EndsFit, OnePerPath, Ids

\* Every operation, client step and reopen preserves the inductive invariant.
LEMMA StepInv == IInv /\ [Next]_vars => IInv'
<1> SUFFICES ASSUME IInv, [Next]_vars PROVE IInv'
  OBVIOUS
<1> USE DEF IInv
<1>1. CASE Touch
  BY <1>1, StoreUnchanged DEF Touch, ClientInv
<1>2. CASE Notify
  BY <1>2, StoreUnchanged DEF Notify, ClientInv
<1>3. ASSUME CommitBatch PROVE StoreInv' /\ tree' = tree /\ edits' = NoEdits /\ book' \in SUBSET Path
  <2>1. Removed \in SUBSET Path
    BY DEF Removed, Deleted, Changed
  <2> QED BY <1>3, <2>1, CommitGood DEF CommitBatch, ClientInv
<1>4. NoEdits \in [Path -> {"none", "changed", "deleted"}]
  BY DEF NoEdits
<1>5. CASE ClientCommit
  BY <1>3, <1>4, <1>5 DEF ClientCommit, ClientInv
<1>6. CASE Call
  BY <1>6, StoreUnchanged DEF Call, ClientInv, Jobs
<1>7. CASE CommitFirst
  <2>1. job' \in Jobs
    BY <1>7 DEF CommitFirst, AfterCommit, Jobs
  <2>2. CASE CommitBatch
    BY <1>3, <1>4, <2>1, <2>2 DEF ClientInv
  <2>3. CASE UNCHANGED <<tree, edits, manifest, snap, book>>
    BY <2>1, <2>3, StoreUnchanged DEF ClientInv
  <2> QED BY <1>7, <2>2, <2>3 DEF CommitFirst
<1>8. CASE FlushNothing \/ FlushRefused \/ Plan \/ RewriteRefused
  BY <1>8, StoreUnchanged DEF FlushNothing, FlushRefused, Plan, RewriteRefused, ClientInv, Jobs
<1>9. CASE FlushWrite
  <2>1. /\ manifest' = Flushed /\ SnapshotMatchesManifest
        /\ IF CanOpen(Flushed) THEN snap' = Opened(Flushed) ELSE UNCHANGED snap
    BY <1>9 DEF FlushWrite, Install
  <2>2. ClientInv'
    BY <1>9 DEF FlushWrite, Install, ClientInv, Jobs
  <2> QED BY <2>1, <2>2, FlushGood
<1>10. CASE Rewrite
  <2>1. PICK bloat \in BOOLEAN :
          /\ RewriteFits(PlannedSuffix(bloat))
          /\ \E batch \in Batches(Ids(Rewritten(PlannedSuffix(bloat)))) :
                LET m == Compacted(PlannedSuffix(bloat), batch)
                IN  manifest' = m /\ Install(m, "idle")
    BY <1>10 DEF Rewrite
  <2>2. PICK batch \in Batches(Ids(Rewritten(PlannedSuffix(bloat)))) :
          /\ manifest' = Compacted(PlannedSuffix(bloat), batch)
          /\ Install(Compacted(PlannedSuffix(bloat), batch), "idle")
    BY <2>1
  <2> DEFINE m == Compacted(PlannedSuffix(bloat), batch)
  <2>3. m \in [segs : SUBSET Segment, deletes : SUBSET Id] /\ GoodBase(m)
    BY <1>10, <2>1, RewriteGood DEF Rewrite
  <2>4. CanOpen(m)
    BY <2>3, LaidOpens DEF GoodBase
  <2>5. snap' = Opened(m) /\ book' = {} /\ job' = "idle"
    BY <2>2, <2>4 DEF Install
  <2> HIDE DEF m
  <2> QED BY <1>10, <2>2, <2>3, <2>5, OpenedGood DEF ClientInv, Jobs, Rewrite, m
<1>11. CASE Rebuild
  <2>1. PICK order \in Numberings(ReadablePaths) :
          \E batch \in Batches(Ids(BuiltDocs(order))) :
             LET m == Built(order, batch)
             IN  manifest' = m /\ Install(m, "idle")
    BY <1>11 DEF Rebuild
  <2>2. PICK batch \in Batches(Ids(BuiltDocs(order))) :
          manifest' = Built(order, batch) /\ Install(Built(order, batch), "idle")
    BY <2>1
  <2> DEFINE m == Built(order, batch)
  <2>3. m \in [segs : SUBSET Segment, deletes : SUBSET Id] /\ GoodBase(m)
    BY BuiltGood DEF ClientInv
  <2>4. CanOpen(m)
    BY <2>3, LaidOpens DEF GoodBase
  <2>5. snap' = Opened(m) /\ book' = {} /\ job' = "idle"
    BY <2>2, <2>4 DEF Install
  <2> HIDE DEF m
  <2> QED BY <1>11, <2>2, <2>3, <2>5, OpenedGood DEF ClientInv, Jobs, Rebuild, m
<1>12. CASE Reopen
  <2>1. ~Broken
    BY <1>12 DEF Reopen, Broken
  <2>2. GoodBase(manifest) /\ manifest \in [segs : SUBSET Segment, deletes : SUBSET Id]
    BY <2>1 DEF StoreInv, Linked
  <2>3. manifest' = manifest /\ snap' = Opened(manifest)
    BY <1>12 DEF Reopen
  <2>4. StoreInv'
    BY <2>2, <2>3, OpenedGood
  <2> QED BY <1>4, <1>12, <2>4 DEF Reopen, ClientInv, Jobs
<1>13. CASE UNCHANGED vars
  BY <1>13, StoreUnchanged DEF vars, ClientInv
<1> QED BY <1>1, <1>2, <1>5, <1>6, <1>7, <1>8, <1>9, <1>10, <1>11, <1>12, <1>13 DEF Next

\* The inductive invariant holds in every reachable state of OverlayIndex.
THEOREM Invariant == Spec => []IInv
BY InitInv, StepInv, PTL DEF Spec

-------------------------------------------------------------------------------
(* Theorems *)

\* Every document id, in the overlay and in every segment on disk, stays in the
\* id space whatever commits, flushes, compactions and rebuilds do.
THEOREM TypeCorrect == Spec => []TypeOK
<1>1. IInv => TypeOK
  BY DEF IInv, ClientInv, StoreInv, TypeOK
<1> QED BY <1>1, Invariant, PTL

\* A search never reports a path from two documents.
THEOREM OneLiveDoc == Spec => []OneLiveDocPerPath
<1>1. IInv => OneLiveDocPerPath
  BY DEF IInv, StoreInv
<1> QED BY <1>1, Invariant, PTL

\* A posting id names one document, and overlay ids lie above the segments.
THEOREM IdsUnambiguous == Spec => []IdsResolve
<1>1. IInv => IdsResolve
  <2> SUFFICES ASSUME IInv PROVE IdsResolve
    OBVIOUS
  <2>1. /\ Laid(snap.segs) /\ snap.docs \in SUBSET Doc /\ Distinct(snap.docs)
        /\ \A d \in snap.docs : BaseLimit(snap.segs) <= d.id /\ d.id < snap.next
    BY DEF IInv, StoreInv, OverlayAbove
  <2>2. /\ BaseDocs(snap.segs) \in SUBSET Doc /\ Distinct(BaseDocs(snap.segs))
        /\ \A d \in BaseDocs(snap.segs) : d.id < BaseLimit(snap.segs)
        /\ BaseLimit(snap.segs) \in Nat
    <3>1. EndsFit(snap.segs)
      BY <2>1 DEF Laid
    <3>2. BaseLimit(snap.segs) \in Nat
      BY <3>1, BaseLimitLemma, LimitAssumption DEF Id
    <3> QED BY <2>1, <3>2, LaidDistinct
  <2>3. \A d \in BaseDocs(snap.segs), e \in snap.docs : d.id # e.id
    <3> SUFFICES ASSUME NEW d \in BaseDocs(snap.segs), NEW e \in snap.docs, d.id = e.id
                 PROVE  FALSE
      OBVIOUS
    <3>1. d.id \in Nat
      BY <2>2, LimitAssumption DEF Doc, Id
    <3> QED BY <2>1, <2>2, <3>1
  <2> QED BY <2>1, <2>2, <2>3 DEF IdsResolve, Distinct
<1> QED BY <1>1, Invariant, PTL

\* The delete set never outlives the ids it was computed for.
THEOREM DeletesNameDocs == Spec => []DeletesNameBaseDocs
<1>1. IInv => DeletesNameBaseDocs
  BY DEF IInv, StoreInv, DeletesNameBaseDocs
<1> QED BY <1>1, Invariant, PTL

\* Whatever a compaction or a rebuild writes can be opened.
THEOREM RewrittenDirectoryOpens == Spec => RewritesOpen
<1>1. IInv /\ [Next]_vars => [manifest' # manifest /\ job # "write" => CanOpen(manifest')]_vars
  <2> SUFFICES ASSUME IInv, Next, manifest' # manifest, job # "write" PROVE CanOpen(manifest')
    BY DEF vars
  <2>1. Rewrite \/ Rebuild
    BY DEF Next, Touch, Notify, ClientCommit, CommitBatch, Call, CommitFirst, FlushNothing,
           FlushWrite, FlushRefused, Plan, RewriteRefused, Reopen
  <2>2. CASE Rewrite
    <3>1. PICK bloat \in BOOLEAN :
            /\ RewriteFits(PlannedSuffix(bloat))
            /\ \E batch \in Batches(Ids(Rewritten(PlannedSuffix(bloat)))) :
                  manifest' = Compacted(PlannedSuffix(bloat), batch)
      BY <2>2 DEF Rewrite
    <3>2. GoodBase(manifest')
      BY <2>2, <3>1, RewriteGood DEF Rewrite, IInv
    <3> QED BY <3>2, LaidOpens DEF GoodBase
  <2>3. CASE Rebuild
    <3>1. PICK order \in Numberings(ReadablePaths) :
            \E batch \in Batches(Ids(BuiltDocs(order))) : manifest' = Built(order, batch)
      BY <2>3 DEF Rebuild
    <3>2. GoodBase(manifest')
      BY <3>1, BuiltGood DEF IInv, ClientInv
    <3> QED BY <3>2, LaidOpens DEF GoodBase
  <2> QED BY <2>1, <2>2, <2>3
<1> QED BY <1>1, Invariant, PTL DEF Spec, RewritesOpen

-------------------------------------------------------------------------------
(* OverlayIndex implements IndexMap: every operation does to the two maps what the
   abstract one says, because a path has one live document. *)

\* The map of a set of documents with one document per path.
LEMMA MapOfLemma ==
  ASSUME NEW A, OnePerPath(A), NEW p \in Path
  PROVE  /\ \A d \in A : d.path = p => MapOf(A)[p] = d.data
         /\ (\A d \in A : d.path # p) => MapOf(A)[p] = Absent
<1>1. MapOf(A)[p] = IF \E d \in A : d.path = p
                    THEN (CHOOSE d \in A : d.path = p).data ELSE Absent
  BY DEF MapOf
<1>2. ASSUME NEW d \in A, d.path = p PROVE MapOf(A)[p] = d.data
  <2>1. (CHOOSE e \in A : e.path = p) = d
    BY <1>2 DEF OnePerPath
  <2> QED BY <1>1, <1>2, <2>1
<1> QED BY <1>1, <1>2

\* Documents with the same content and one per path answer the same map.
LEMMA SameMap ==
  ASSUME NEW A, NEW B, OnePerPath(A), OnePerPath(B), SameContent(A, B)
  PROVE  MapOf(A) = MapOf(B)
<1>1. ASSUME NEW p \in Path PROVE MapOf(A)[p] = MapOf(B)[p]
  <2>1. CASE \E d \in A : d.path = p
    <3>1. PICK d \in A : d.path = p
      BY <2>1
    <3>2. PICK e \in B : e.path = p /\ e.data = d.data
      BY <3>1 DEF SameContent
    <3> QED BY <3>1, <3>2, MapOfLemma
  <2>2. CASE \A d \in A : d.path # p
    <3>1. \A e \in B : e.path # p
      BY <2>2 DEF SameContent
    <3> QED BY <2>2, <3>1, MapOfLemma
  <2> QED BY <2>1, <2>2
<1> QED BY <1>1 DEF MapOf

\* The invariant makes the visible map well defined: one live document per path.
LEMMA LiveOnePerPath == StoreInv => OnePerPath(Live(snap))
BY DEF StoreInv, OneLiveDocPerPath, OnePerPath

\* Both maps after a directory has been opened.
LEMMA OpenedMaps ==
  ASSUME NEW m, manifest' = m, snap' = Opened(m)
  PROVE  /\ DurableMap' = MapOf(Surviving(m.segs, m.deletes))
         /\ VisibleMap' = MapOf(Surviving(m.segs, m.deletes))
<1>1. DurableMap' = MapOf(Surviving(m.segs, m.deletes))
  BY DEF DurableMap, MapOf, Surviving, BaseDocs
<1>2. snap'.segs = m.segs /\ snap'.deletes = m.deletes /\ snap'.docs = {}
  BY DEF Opened
<1>3. VisibleMap' = MapOf(Surviving(m.segs, m.deletes))
  BY <1>2 DEF VisibleMap, MapOf, Live, Surviving, BaseDocs
<1> QED BY <1>1, <1>3

\* A flush makes the visible map durable, whether or not the result opens.
LEMMA FlushMap ==
  ASSUME IInv, FlushWrite
  PROVE  DurableMap' = VisibleMap /\ VisibleMap' = VisibleMap
<1>1. /\ manifest' = Flushed /\ SnapshotMatchesManifest
      /\ snap' = Opened(Flushed) \/ snap' = snap
      /\ Surviving(Flushed.segs, Flushed.deletes) = Live(snap)
  <2>1. manifest' = Flushed /\ SnapshotMatchesManifest
        /\ (snap' = Opened(Flushed) \/ snap' = snap)
    BY DEF FlushWrite, Install
  <2> QED BY <2>1, FlushKeepsLive DEF IInv
<1>2. DurableMap' = VisibleMap
  BY <1>1 DEF DurableMap, VisibleMap, MapOf, Surviving, BaseDocs
<1>3. CASE snap' = snap
  BY <1>2, <1>3 DEF VisibleMap, MapOf, Live, Surviving, BaseDocs
<1>4. CASE snap' = Opened(Flushed)
  <2>1. VisibleMap' = MapOf(Surviving(Flushed.segs, Flushed.deletes))
    BY <1>1, <1>4, OpenedMaps
  <2> QED BY <1>1, <1>2, <2>1 DEF VisibleMap
<1> QED BY <1>1, <1>2, <1>3, <1>4

\* A build holds exactly the tree.
LEMMA BuiltMap ==
  ASSUME tree \in [Path -> File],
         NEW order \in Numberings(ReadablePaths),
         NEW batch \in Batches(Ids(BuiltDocs(order)))
  PROVE  MapOf(Surviving(Built(order, batch).segs, Built(order, batch).deletes)) = IM!Snapshot
<1> DEFINE B == Surviving(Built(order, batch).segs, Built(order, batch).deletes)
<1>1. B = BuiltDocs(order)
  BY BuiltGood
<1>2. OnePerPath(B)
  BY BuiltGood DEF GoodBase
<1>3. ASSUME NEW p \in Path PROVE MapOf(B)[p] = IM!Indexed(tree[p])
  <2>1. CASE p \in ReadablePaths
    <3> DEFINE b == [id |-> order[p], path |-> p, data |-> tree[p]]
    <3>0. b \in B /\ b.path = p /\ b.data = tree[p]
      BY <1>1, <2>1 DEF BuiltDocs
    <3>1. PICK d \in B : d.path = p /\ d.data = tree[p]
      BY <3>0
    <3> QED BY <1>2, <2>1, <3>1, MapOfLemma DEF IM!Indexed, ReadablePaths
  <2>2. CASE p \notin ReadablePaths
    <3>1. \A d \in B : d.path # p
      BY <1>1, <2>2 DEF BuiltDocs
    <3> QED BY <1>2, <2>2, <3>1, MapOfLemma DEF IM!Indexed, ReadablePaths
  <2> QED BY <2>1, <2>2
<1> QED BY <1>3 DEF MapOf, IM!Snapshot

\* What a commit leaves live: the new content of the changed paths, nothing of
\* the removed ones, everything else as it was.
LEMMA CommitContent ==
  ASSUME IInv, CommitBatch
  PROVE  /\ \A d \in Live(snap') : d.path \in VisibleChanged => d.data = tree[d.path]
         /\ \A p \in VisibleChanged : \E d \in Live(snap') : d.path = p
         /\ \A d \in Live(snap') : d.path \notin Removed
         /\ \A d \in Live(snap') : d.path \notin Changed \cup Deleted =>
               \E e \in Live(snap) : e.path = d.path /\ e.data = d.data
         /\ \A e \in Live(snap) : e.path \notin Changed \cup Deleted =>
               \E d \in Live(snap') : e.path = d.path /\ e.data = d.data
<1> DEFINE S == Surviving(snap.segs, DeletesAfter)
           touched == Changed \cup Deleted
<1>1. PICK order \in Numberings(VisibleChanged) :
         snap' = [segs    |-> snap.segs,
                  deletes |-> DeletesAfter,
                  docs    |-> CarriedDocs \cup NewDocs(order),
                  next    |-> NextIdAfter,
                  limit   |-> BaseLimit(snap.segs)]
  BY DEF CommitBatch
<1>2. Live(snap') = S \cup CarriedDocs \cup NewDocs(order)
  BY <1>1 DEF Live
<1>3. VisibleChanged \cup Removed = touched /\ VisibleChanged \in SUBSET Path
      /\ VisibleChanged \cap Removed = {}
  BY DEF VisibleChanged, Removed, Changed, Deleted
<1>4. SameContent(KeptOverlay, CarriedDocs)
  <2>1. Cardinality(VisibleChanged) \in Nat
    BY <1>3, PathAssumption, FS_Subset, FS_CardinalityType
  <2> QED BY <2>1, CarriedLemma DEF IInv, CommitBatch
<1>5. S \subseteq Live(snap) /\ \A d \in S : d.path \notin touched
  BY DEF Surviving, Live, DeletesAfter
<1>6. \A d \in CarriedDocs : d.path \notin touched /\ \E e \in Live(snap) : e.path = d.path /\ e.data = d.data
  BY <1>3, <1>4 DEF SameContent, KeptOverlay, Live
<1>7. \A d \in NewDocs(order) : d.path \in VisibleChanged /\ d.data = tree[d.path]
  BY DEF NewDocs
<1>8. \A p \in VisibleChanged : \E d \in NewDocs(order) : d.path = p
  <2> SUFFICES ASSUME NEW p \in VisibleChanged PROVE \E d \in NewDocs(order) : d.path = p
    OBVIOUS
  <2> DEFINE d == [id |-> FirstNewId + order[p], path |-> p, data |-> tree[p]]
  <2>1. d \in NewDocs(order) /\ d.path = p
    BY DEF NewDocs
  <2> QED BY <2>1
<1>9. ASSUME NEW e \in Live(snap), e.path \notin touched
      PROVE  \E d \in Live(snap') : e.path = d.path /\ e.data = d.data
  <2>1. CASE e \in snap.docs
    <3>1. e \in KeptOverlay
      BY <1>3, <1>9, <2>1 DEF KeptOverlay
    <3> QED BY <1>2, <1>4, <3>1 DEF SameContent
  <2>2. CASE e \in Surviving(snap.segs, snap.deletes)
    <3>1. e.id \notin DeletesAfter
      <4> SUFFICES ASSUME NEW f \in BaseDocs(snap.segs), f.path \in touched, f.id = e.id
                   PROVE  FALSE
        BY <2>2 DEF DeletesAfter, Surviving
      <4>1. Distinct(BaseDocs(snap.segs))
        BY LaidDistinct DEF IInv, StoreInv
      <4> QED BY <1>9, <2>2, <4>1 DEF Distinct, Surviving
    <3>2. e \in S
      BY <2>2, <3>1 DEF Surviving
    <3> QED BY <1>2, <3>2
  <2> QED BY <2>1, <2>2 DEF Live
<1> HIDE DEF S
<1> QED BY <1>2, <1>3, <1>5, <1>6, <1>7, <1>8, <1>9

\* A commit applies the buffered edit of every path and nothing else.
LEMMA CommitMap ==
  ASSUME IInv, CommitBatch
  PROVE  VisibleMap' = IM!Applied(VisibleMap)
<1>1. StoreInv /\ StoreInv'
  BY CommitGood DEF IInv
<1>2. OnePerPath(Live(snap)) /\ OnePerPath(Live(snap'))
  BY <1>1, LiveOnePerPath DEF StoreInv, OneLiveDocPerPath, OnePerPath
<1>3. /\ \A d \in Live(snap') : d.path \in VisibleChanged => d.data = tree[d.path]
      /\ \A p \in VisibleChanged : \E d \in Live(snap') : d.path = p
      /\ \A d \in Live(snap') : d.path \notin Removed
      /\ \A d \in Live(snap') : d.path \notin Changed \cup Deleted =>
            \E e \in Live(snap) : e.path = d.path /\ e.data = d.data
      /\ \A e \in Live(snap) : e.path \notin Changed \cup Deleted =>
            \E d \in Live(snap') : e.path = d.path /\ e.data = d.data
  BY CommitContent
<1>4. ASSUME NEW p \in Path PROVE MapOf(Live(snap'))[p] = IM!Applied(VisibleMap)[p]
  <2>0. VisibleMap = MapOf(Live(snap)) /\ edits[p] \in {"none", "changed", "deleted"}
    BY DEF VisibleMap, IInv, ClientInv
  <2>1. CASE p \in VisibleChanged
    <3>1. MapOf(Live(snap'))[p] = tree[p]
      BY <1>2, <1>3, <2>1, MapOfLemma
    <3> QED BY <2>1, <3>1 DEF IM!Applied, IM!Indexed, VisibleChanged, Changed
  <2>2. CASE p \in Removed
    <3>1. MapOf(Live(snap'))[p] = Absent
      BY <1>2, <1>3, <2>2, MapOfLemma
    <3> QED BY <2>2, <3>1 DEF IM!Applied, IM!Indexed, Removed, VisibleChanged, Changed, Deleted
  <2>3. CASE p \notin Changed \cup Deleted
    <3>1. MapOf(Live(snap'))[p] = MapOf(Live(snap))[p]
      <4>1. CASE \E e \in Live(snap) : e.path = p
        BY <1>2, <1>3, <2>3, <4>1, MapOfLemma
      <4>2. CASE \A e \in Live(snap) : e.path # p
        BY <1>2, <1>3, <2>3, <4>2, MapOfLemma
      <4> QED BY <4>1, <4>2
    <3>2. edits[p] = "none"
      BY <2>0, <2>3 DEF Changed, Deleted
    <3> QED BY <2>0, <3>1, <3>2 DEF IM!Applied
  <2> QED BY <2>1, <2>2, <2>3 DEF Removed, VisibleChanged, Changed, Deleted
<1> QED BY <1>4 DEF VisibleMap, MapOf, IM!Applied

-------------------------------------------------------------------------------

\* The first build starts the abstract maps in an initial state.
LEMMA InitMaps == Init => IM!Init
<1> SUFFICES ASSUME Init PROVE IM!Init
  OBVIOUS
<1>1. PICK order \in Numberings(ReadablePaths) :
        \E batch \in Batches(Ids(BuiltDocs(order))) :
          manifest = Built(order, batch) /\ snap = Opened(Built(order, batch))
  BY DEF Init
<1>2. PICK batch \in Batches(Ids(BuiltDocs(order))) :
        manifest = Built(order, batch) /\ snap = Opened(Built(order, batch))
  BY <1>1
<1>3. DurableMap = IM!Snapshot
  BY <1>2, BuiltMap DEF Init, DurableMap
<1>4. VisibleMap = DurableMap
  BY <1>2 DEF VisibleMap, DurableMap, Live, Opened
<1> QED BY <1>3, <1>4 DEF Init, IM!Init, File, IM!File, NoEdits, IM!NoEdits

\* Every step of the documents is a step of the abstract maps, or changes none.
LEMMA StepMaps == IInv /\ IInv' /\ [Next]_vars => [IM!Next]_(IM!mapVars)
<1> SUFFICES ASSUME IInv, IInv', [Next]_vars PROVE IM!Next \/ UNCHANGED IM!mapVars
  OBVIOUS
<1> USE DEF IInv
<1>0. ASSUME UNCHANGED <<manifest, snap>>
      PROVE  VisibleMap' = VisibleMap /\ DurableMap' = DurableMap
  BY <1>0 DEF VisibleMap, DurableMap, MapOf, Live, Surviving, BaseDocs
<1>1. CASE Touch
  BY <1>0, <1>1 DEF Touch, IM!Next, IM!Touch, File, IM!File
<1>2. CASE Notify
  BY <1>0, <1>2 DEF Notify, IM!Next, IM!Notify, IM!Edit
<1>3. ASSUME CommitBatch PROVE IM!Commit
  <2>1. DurableMap' = DurableMap
    BY <1>3 DEF CommitBatch, DurableMap, MapOf, Surviving, BaseDocs
  <2>2. VisibleMap' = IM!Applied(VisibleMap)
    BY <1>3, CommitMap
  <2> QED BY <1>3, <2>1, <2>2 DEF CommitBatch, IM!Commit, NoEdits, IM!NoEdits
<1>4. CASE ClientCommit
  BY <1>3, <1>4 DEF ClientCommit, IM!Next
<1>5. CASE CommitFirst
  <2>1. CASE CommitBatch
    BY <1>3, <2>1 DEF IM!Next
  <2>2. CASE UNCHANGED <<tree, edits, manifest, snap, book>>
    BY <1>0, <2>2 DEF IM!mapVars
  <2> QED BY <1>5, <2>1, <2>2 DEF CommitFirst
<1>6. CASE Call \/ FlushNothing \/ FlushRefused \/ Plan \/ RewriteRefused \/ UNCHANGED vars
  <2>1. UNCHANGED <<tree, edits, manifest, snap>>
    BY <1>6 DEF Call, FlushNothing, FlushRefused, Plan, RewriteRefused, vars
  <2> QED BY <1>0, <2>1 DEF IM!mapVars
<1>7. ASSUME NEW m, GoodBase(m), manifest' = m, SameContent(Live(snap), Surviving(m.segs, m.deletes)),
             snap' = Opened(m) \/ snap' = snap
      PROVE  DurableMap' = VisibleMap /\ VisibleMap' = VisibleMap
  <2>1. OnePerPath(Live(snap)) /\ OnePerPath(Surviving(m.segs, m.deletes))
    BY <1>7, LiveOnePerPath DEF GoodBase
  <2>2. MapOf(Surviving(m.segs, m.deletes)) = VisibleMap
    BY <1>7, <2>1, SameMap DEF VisibleMap
  <2>3. DurableMap' = MapOf(Surviving(m.segs, m.deletes))
    BY <1>7 DEF DurableMap, MapOf, Surviving, BaseDocs
  <2>4. CASE snap' = snap
    BY <2>2, <2>3, <2>4 DEF VisibleMap, MapOf, Live, Surviving, BaseDocs
  <2>5. CASE snap' = Opened(m)
    <3>1. Live(Opened(m)) = Surviving(m.segs, m.deletes)
      BY DEF Live, Opened
    <3>2. VisibleMap' = MapOf(Live(Opened(m)))
      BY <2>5 DEF VisibleMap, MapOf, Live, Surviving, BaseDocs
    <3> QED BY <2>2, <2>3, <3>1, <3>2
  <2> QED BY <1>7, <2>4, <2>5
<1>8. CASE FlushWrite
  <2>1. DurableMap' = VisibleMap /\ VisibleMap' = VisibleMap
    BY <1>8, FlushMap
  <2> QED BY <1>8, <2>1 DEF FlushWrite, IM!Next, IM!Persist
<1>9. CASE Rewrite
  <2>1. PICK bloat \in BOOLEAN :
          /\ RewriteFits(PlannedSuffix(bloat))
          /\ \E batch \in Batches(Ids(Rewritten(PlannedSuffix(bloat)))) :
                LET m == Compacted(PlannedSuffix(bloat), batch)
                IN  manifest' = m /\ Install(m, "idle")
    BY <1>9 DEF Rewrite
  <2>2. PICK batch \in Batches(Ids(Rewritten(PlannedSuffix(bloat)))) :
          /\ manifest' = Compacted(PlannedSuffix(bloat), batch)
          /\ Install(Compacted(PlannedSuffix(bloat), batch), "idle")
    BY <2>1
  <2>3. DurableMap' = VisibleMap /\ VisibleMap' = VisibleMap
    BY <1>7, <1>9, <2>1, <2>2, RewriteGood DEF Rewrite, Install
  <2> QED BY <1>9, <2>3 DEF Rewrite, IM!Next, IM!Persist
<1>10. CASE Rebuild
  <2>1. PICK order \in Numberings(ReadablePaths) :
          \E batch \in Batches(Ids(BuiltDocs(order))) :
             LET m == Built(order, batch)
             IN  manifest' = m /\ Install(m, "idle")
    BY <1>10 DEF Rebuild
  <2>2. PICK batch \in Batches(Ids(BuiltDocs(order))) :
          manifest' = Built(order, batch) /\ Install(Built(order, batch), "idle")
    BY <2>1
  <2> DEFINE m == Built(order, batch)
  <2>3. GoodBase(m) /\ MapOf(Surviving(m.segs, m.deletes)) = IM!Snapshot
    BY BuiltGood, BuiltMap DEF ClientInv
  <2>4. snap' = Opened(m)
    BY <2>2, <2>3, LaidOpens DEF Install, GoodBase
  <2>5. DurableMap' = IM!Snapshot /\ VisibleMap' = IM!Snapshot
    BY <2>2, <2>3, <2>4, OpenedMaps
  <2> QED BY <1>10, <2>5 DEF Rebuild, IM!Next, IM!Rebuild
<1>11. CASE Reopen
  <2>1. VisibleMap' = DurableMap /\ DurableMap' = DurableMap
    BY <1>11, OpenedMaps DEF Reopen, DurableMap
  <2> QED BY <1>11, <2>1 DEF Reopen, IM!Next, IM!Reopen, NoEdits, IM!NoEdits
<1> QED BY <1>1, <1>2, <1>4, <1>5, <1>6, <1>8, <1>9, <1>10, <1>11 DEF Next

\* Commits apply exactly the buffered edits, flushes and compactions move
\* content to disk without changing it, and a reopen loses only what was not
\* made durable.
THEOREM Refinement == Spec => ImplementsMap
BY InitMaps, StepMaps, Invariant, PTL DEF Spec, IM!Spec, ImplementsMap

-------------------------------------------------------------------------------
(* Grams (Tokenizer) *)

\* Lowercasing keeps a text a text of the same length.
LEMMA LoweredText ==
    ASSUME NEW t \in Seq(Char)
    PROVE  /\ Lowered(t) \in Seq(Char)
           /\ Len(Lowered(t)) = Len(t)
           /\ \A i \in 1 .. Len(t) : Lowered(t)[i] = Lower[t[i]]
  <1>1. \A i \in 1 .. Len(t) : Lower[t[i]] \in Char
    BY TokenAssumption
  <1>2. Len(t) \in Nat
    OBVIOUS
  <1> QED BY <1>1, <1>2 DEF Lowered

\* A query that occurs in a text occurs in it with both in lowercase.
LEMMA OccursLowered ==
    ASSUME NEW q \in Seq(Char), NEW d \in Seq(Char), NEW k, OccursAt(q, d, k)
    PROVE  OccursAt(Lowered(q), Lowered(d), k)
  <1>1. k \in 0 .. Len(d) /\ k + Len(q) <= Len(d) /\ \A i \in 1 .. Len(q) : d[k + i] = q[i]
    BY DEF OccursAt
  <1>2. Len(Lowered(q)) = Len(q) /\ Len(Lowered(d)) = Len(d)
    BY LoweredText
  <1>3. ASSUME NEW i \in 1 .. Len(q) PROVE Lowered(d)[k + i] = Lowered(q)[i]
    <2>1. k + i \in 1 .. Len(d)
      BY <1>1
    <2> QED BY <1>1, <2>1, LoweredText
  <1> QED BY <1>1, <1>2, <1>3 DEF OccursAt

\* A span between two cuts of a query is one of a text whose cuts are the same inside the
\* query, and at the ends of the query where the span reaches them.
LEMMA ShiftedSpan ==
    ASSUME NEW n \in Nat, NEW k \in Nat, NEW inner, NEW outer, inner \subseteq 0 .. n, outer \subseteq Nat,
           \A i \in 1 .. n - 1 : i \in inner <=> k + i \in outer,
           NEW w \in Spans(inner),
           w[1] = 0 => k \in outer, w[2] = n => k + n \in outer
    PROVE  <<k + w[1], k + w[2]>> \in Spans(outer)
  <1> DEFINE v == <<k + w[1], k + w[2]>>
  <1>1. /\ w \in inner \X inner
        /\ w[1] < w[2] /\ \A c \in inner : c <= w[1] \/ w[2] <= c
        /\ MinGram <= w[2] - w[1] /\ w[2] - w[1] <= MaxGram
    BY DEF Spans
  <1>2. w[1] \in 0 .. n /\ w[2] \in 0 .. n /\ w[1] \in inner /\ w[2] \in inner
    BY <1>1
  <1>3. v[1] \in outer
    BY <1>1, <1>2
  <1>4. v[2] \in outer
    BY <1>1, <1>2
  <1>5. ASSUME NEW c \in outer PROVE c <= v[1] \/ v[2] <= c
    <2> SUFFICES ASSUME k + w[1] < c, c < k + w[2] PROVE FALSE
      BY <1>2
    <2>1. c - k \in 1 .. n - 1 /\ k + (c - k) = c
      BY <1>2
    <2>2. c - k \in inner
      BY <2>1
    <2> QED BY <1>1, <1>2, <2>1, <2>2
  <1>6. v[2] - v[1] = w[2] - w[1] /\ v[1] < v[2]
    BY <1>1, <1>2
  <1> QED BY <1>1, <1>3, <1>4, <1>5, <1>6 DEF Spans

\* The gram of a span of a query is the gram of the shifted span of the text.
LEMMA ShiftedGram ==
    ASSUME NEW q \in Seq(Char), NEW d \in Seq(Char), NEW k, OccursAt(Lowered(q), Lowered(d), k),
           NEW a \in 0 .. Len(q), NEW b \in 0 .. Len(q)
    PROVE  Gram(d, <<k + a, k + b>>) = Gram(q, <<a, b>>)
  <1> DEFINE lq == Lowered(q)
             ld == Lowered(d)
  <1>1. lq \in Seq(Char) /\ ld \in Seq(Char) /\ Len(lq) = Len(q) /\ Len(ld) = Len(d)
    BY LoweredText
  <1>2. k \in Nat /\ k + Len(q) <= Len(d) /\ \A i \in 1 .. Len(q) : ld[k + i] = lq[i]
    BY <1>1 DEF OccursAt
  <1> HIDE DEF lq, ld
  <1>3. SubSeq(ld, k + a + 1, k + b) = SubSeq(lq, a + 1, b)
    <2>1. SubSeq(ld, k + a + 1, k + b) = [i \in 1 .. (k + b) - (k + a + 1) + 1 |-> ld[i + (k + a + 1) - 1]]
      BY <1>1, <1>2
    <2>2. SubSeq(lq, a + 1, b) = [i \in 1 .. b - (a + 1) + 1 |-> lq[i + (a + 1) - 1]]
      BY <1>1
    <2>3. (k + b) - (k + a + 1) + 1 = b - (a + 1) + 1
      BY <1>2
    <2>4. ASSUME NEW i \in 1 .. b - (a + 1) + 1
          PROVE  ld[i + (k + a + 1) - 1] = lq[i + (a + 1) - 1]
      <3>1. k \in Nat /\ Len(q) \in Nat
        BY <1>2
      <3>2. a + i \in 1 .. Len(q) /\ i + (a + 1) - 1 = a + i /\ i + (k + a + 1) - 1 = k + (a + i)
        BY <3>1, SMTT(30)
      <3> QED BY <1>2, <3>2
    <2> QED BY <2>1, <2>2, <2>3, <2>4
  <1> QED BY <1>3 DEF Gram, lq, ld

-------------------------------------------------------------------------------
(* The cuts of a query and of a text it occurs in *)

\* Inside the query the cuts of the lowercased texts are the same.
LEMMA LowerCutsAgree ==
    ASSUME NEW q \in Seq(Char), NEW d \in Seq(Char), NEW k, OccursAt(Lowered(q), Lowered(d), k),
           NEW i \in 1 .. Len(q) - 1
    PROVE  i \in LowerBoundaries(Lowered(q)) <=> k + i \in LowerBoundaries(Lowered(d))
  <1> DEFINE lq == Lowered(q)
             ld == Lowered(d)
  <1>1. Len(lq) = Len(q) /\ Len(ld) = Len(d) /\ Len(q) \in Nat /\ Len(d) \in Nat
    BY LoweredText
  <1>2. k \in Nat /\ k + Len(q) <= Len(d) /\ \A j \in 1 .. Len(q) : ld[k + j] = lq[j]
    BY <1>1 DEF OccursAt
  <1>3. ld[k + i] = lq[i] /\ ld[(k + i) + 1] = lq[i + 1]
    <2>1. i \in 1 .. Len(q) /\ i + 1 \in 1 .. Len(q) /\ k + (i + 1) = (k + i) + 1
      BY <1>1, <1>2
    <2> QED BY <1>2, <2>1
  <1>4. Cut(lq, i) <=> Cut(ld, k + i)
    BY <1>3 DEF Cut
  <1>5. /\ i \in Inside(lq) /\ i # 0 /\ i # Len(lq)
        /\ k + i \in Inside(ld) /\ k + i # 0 /\ k + i # Len(ld)
    BY <1>1, <1>2 DEF Inside
  <1> QED BY <1>4, <1>5 DEF LowerBoundaries

\* Inside the query the cuts of camel case are the same when no case is folded.
LEMMA CamelCutsAgree ==
    ASSUME NEW q \in Seq(Char), NEW d \in Seq(Char), NEW k, OccursAt(q, d, k),
           NEW i \in 1 .. Len(q) - 1
    PROVE  i \in CamelBoundaries(q) <=> k + i \in CamelBoundaries(d)
  <1>1. k \in Nat /\ k + Len(q) <= Len(d) /\ \A j \in 1 .. Len(q) : d[k + j] = q[j]
    BY DEF OccursAt
  <1>2. d[k + i] = q[i] /\ d[(k + i) + 1] = q[i + 1]
    <2>1. i \in 1 .. Len(q) /\ i + 1 \in 1 .. Len(q) /\ k + (i + 1) = (k + i) + 1
      BY <1>1
    <2> QED BY <1>1, <2>1
  <1>3. i \in Inside(q) /\ k + i \in Inside(d)
    BY <1>1 DEF Inside
  <1> QED BY <1>2, <1>3 DEF CamelBoundaries

\* Where a delimiter starts or ends the query, the text is cut there.
LEMMA EndsAreCut ==
    ASSUME NEW q \in Seq(Char), NEW d \in Seq(Char), NEW k, OccursAt(Lowered(q), Lowered(d), k),
           Len(q) # 0
    PROVE  /\ Lower[q[1]] \in Forced => k \in LowerBoundaries(Lowered(d))
           /\ Lower[q[Len(q)]] \in Forced => k + Len(q) \in LowerBoundaries(Lowered(d))
  <1> DEFINE n == Len(q)
             lq == Lowered(q)
             ld == Lowered(d)
  <1>1. Len(lq) = n /\ Len(ld) = Len(d) /\ n \in Nat /\ n # 0 /\ Len(d) \in Nat
    BY LoweredText
  <1>2. k \in Nat /\ k + n <= Len(d) /\ \A j \in 1 .. n : ld[k + j] = lq[j]
    BY <1>1 DEF OccursAt
  <1>3. 1 \in 1 .. n /\ n \in 1 .. n
    BY <1>1
  <1>4. ld[k + 1] = Lower[q[1]] /\ ld[k + n] = Lower[q[n]]
    BY <1>2, <1>3, LoweredText
  <1>5. ASSUME Lower[q[1]] \in Forced PROVE k \in LowerBoundaries(ld)
    <2>1. CASE k = 0
      BY <2>1 DEF LowerBoundaries
    <2>2. CASE k # 0
      <3>1. k \in Inside(ld)
        BY <1>1, <1>2, <2>2 DEF Inside
      <3>2. Cut(ld, k)
        BY <1>4, <1>5 DEF Cut
      <3> QED BY <3>1, <3>2 DEF LowerBoundaries
    <2> QED BY <2>1, <2>2
  <1>6. ASSUME Lower[q[n]] \in Forced PROVE k + n \in LowerBoundaries(ld)
    <2>1. CASE k + n = Len(ld)
      BY <2>1 DEF LowerBoundaries
    <2>2. CASE k + n # Len(ld)
      <3>1. k + n \in Inside(ld)
        BY <1>1, <1>2, <2>2 DEF Inside
      <3>2. Cut(ld, k + n)
        BY <1>4, <1>6 DEF Cut
      <3> QED BY <3>1, <3>2 DEF LowerBoundaries
    <2> QED BY <2>1, <2>2
  <1> QED BY <1>5, <1>6

\* Cuts are positions of the text.
LEMMA CutsArePositions ==
    ASSUME NEW t \in Seq(Char)
    PROVE  /\ LowerBoundaries(Lowered(t)) \subseteq 0 .. Len(t)
           /\ Boundaries(t) \subseteq 0 .. Len(t)
  <1>1. Len(Lowered(t)) = Len(t) /\ Len(t) \in Nat
    BY LoweredText
  <1> QED BY <1>1 DEF LowerBoundaries, Boundaries, CamelBoundaries, Inside

-------------------------------------------------------------------------------
(* The theorems *)

\* Every gram a literal query demands is stored of every text that contains it in whatever
\* case: build_covering never demands more than build_all emits, so that an index search
\* for a literal loses no document.
THEOREM RequiredIsStored ==
    ASSUME NEW q \in Seq(Char), NEW d \in Seq(Char), NEW k, OccursAt(Lowered(q), Lowered(d), k)
    PROVE  Required(q) \subseteq BuildAll(d)
  <1> DEFINE cq == LowerBoundaries(Lowered(q))
             cd == LowerBoundaries(Lowered(d))
  <1> SUFFICES ASSUME NEW w \in QuerySpans(q, cq), Real(q, w)
               PROVE  Gram(q, w) \in BuildAll(d)
    BY DEF Required
  <1>1. w \in Spans(cq) /\ w = <<w[1], w[2]>> /\ w[1] \in 0 .. Len(q) /\ w[2] \in 0 .. Len(q)
        /\ w[1] < w[2] /\ Len(q) \in Nat /\ Len(q) # 0
    BY CutsArePositions DEF QuerySpans, Spans
  <1>2. k \in Nat
    BY DEF OccursAt
  <1>3. \A i \in 1 .. Len(q) - 1 : i \in cq <=> k + i \in cd
    BY LowerCutsAgree
  <1>4. (w[1] = 0 => k \in cd) /\ (w[2] = Len(q) => k + Len(q) \in cd)
    BY <1>1, EndsAreCut DEF Real
  <1>5. <<k + w[1], k + w[2]>> \in Spans(cd)
    <2>1. cq \subseteq 0 .. Len(q) /\ cd \subseteq Nat
      BY CutsArePositions
    <2> QED BY <1>1, <1>2, <1>3, <1>4, <2>1, ShiftedSpan
  <1>6. Gram(d, <<k + w[1], k + w[2]>>) = Gram(q, w)
    BY <1>1, ShiftedGram
  <1> QED BY <1>5, <1>6 DEF BuildAll

\* Every gram a fragment of a regex demands is stored of every text that contains the
\* fragment: build_covering_inner cuts at camel case too, and so does build_all.
THEOREM InnerIsStored ==
    ASSUME NEW q \in Seq(Char), NEW d \in Seq(Char), NEW k, OccursAt(q, d, k)
    PROVE  Inner(q) \subseteq BuildAll(d)
  <1> DEFINE cq == Boundaries(q)
             cd == Boundaries(d)
  <1> SUFFICES ASSUME NEW w \in QuerySpans(q, cq), Real(q, w)
               PROVE  Gram(q, w) \in BuildAll(d)
    BY DEF Inner
  <1>1. w \in Spans(cq) /\ w = <<w[1], w[2]>> /\ w[1] \in 0 .. Len(q) /\ w[2] \in 0 .. Len(q)
        /\ w[1] < w[2] /\ Len(q) \in Nat /\ Len(q) # 0
    BY CutsArePositions DEF QuerySpans, Spans
  <1>2. k \in Nat
    BY DEF OccursAt
  <1>3. OccursAt(Lowered(q), Lowered(d), k)
    BY OccursLowered
  <1>4. \A i \in 1 .. Len(q) - 1 : i \in cq <=> k + i \in cd
    BY <1>3, LowerCutsAgree, CamelCutsAgree DEF Boundaries
  <1>5. (w[1] = 0 => k \in cd) /\ (w[2] = Len(q) => k + Len(q) \in cd)
    BY <1>1, <1>3, EndsAreCut DEF Real, Boundaries
  <1>6. <<k + w[1], k + w[2]>> \in Spans(cd)
    <2>1. cq \subseteq 0 .. Len(q) /\ cd \subseteq Nat
      BY CutsArePositions
    <2> QED BY <1>1, <1>2, <1>4, <1>5, <2>1, ShiftedSpan
  <1>7. Gram(d, <<k + w[1], k + w[2]>>) = Gram(q, w)
    BY <1>1, <1>3, ShiftedGram
  <1> QED BY <1>6, <1>7 DEF BuildAll

-------------------------------------------------------------------------------
(* A directory and the store kept in line with it *)

FileState == [text : Nat, stamp : Nat, aged : BOOLEAN, ignored : BOOLEAN]
Fingerprint == [digest : Nat, stamp : Nat]
SavedDoc == [text : Nat, hash : Nat]
ChangedFile == [path : Name, digest : Nat]
StagedDoc == [path : Name, text : Nat, hash : Nat]
Catalogues == [Name -> Fingerprint \cup {None}]

\* A sync, by where it is.
Walked == [pc : {"walked"}, candidates : SUBSET Name, discovered : SUBSET Name]
Loaded == [pc : {"opened"}, candidates : SUBSET Name, discovered : SUBSET Name,
           catalogue : Catalogues]
Observing == [pc : {"observe"}, observe : SUBSET Name, todo : SUBSET Name,
              discovered : SUBSET Name, catalogue : Catalogues, known : SUBSET Name,
              changed : SUBSET ChangedFile, staged : SUBSET StagedDoc, removals : SUBSET Name]
Committed == [pc : {"committed"}, catalogue : Catalogues]
Syncs == {Idle} \cup Walked \cup Loaded \cup Observing \cup Committed

SyncShape ==
  /\ file \in [Name -> FileState] /\ version \in [Name -> Nat]
  /\ store \in [Name -> SavedDoc \cup {None}] /\ catalogue \in Catalogues
  /\ sync \in [Thread -> Syncs]
  /\ \A t \in Thread : Mine(t, "observe") <=> writer = [holder |-> t]

\* Below, a directory is `f`, the versions so far `v`, the documents `docs`, a catalogue
\* `c` and a sync `s`.  A file's mtime and its content are those of its last version.
LatestInv(f, v) == \A p \in Name : f[p].text \in {0, v[p]} /\ f[p].stamp = v[p]
DocsInv(docs, v) ==
  \A p \in Name : docs[p] # None => /\ docs[p].hash \in 1 .. docs[p].text
                                    /\ docs[p].text \in (1 .. v[p]) \ Binary
EntriesInv(c, v) == \A p \in Name : c[p] # None => c[p].digest = c[p].stamp /\ c[p].stamp \in 1 .. v[p]

\* A file that shows has been there since the walk.
Shows(f, p) == f[p].text # 0 /\ ~f[p].ignored
WalkInv(s, f) == \A p \in Name : Shows(f, p) /\ (s.candidates = {} \/ p \in s.candidates)
                                 => p \in s.discovered

\* A path is in one stage of the work under the lock, and what is read of it is no
\* older than the store.
StageInv(s, f, v, docs) ==
  /\ s.known = {p \in Name : docs[p] # None}
  /\ s.todo \subseteq s.observe
  /\ \A p \in s.observe : Shows(f, p) => p \in s.discovered
  /\ \A r \in s.changed : /\ r.path \in s.discovered \ (s.todo \cup s.removals)
                          /\ r.digest \in 1 .. v[r.path]
                          /\ s.catalogue[r.path] # None /\ s.catalogue[r.path].stamp = r.digest
                          /\ docs[r.path] # None => docs[r.path].text <= r.digest
  /\ \A r, q \in s.changed : q.path = r.path => q = r
  /\ \A d \in s.staged : /\ d.path \in s.discovered \ s.todo
                         /\ d.hash \in 1 .. d.text /\ d.text \in (1 .. v[d.path]) \ Binary
                         /\ docs[d.path] # None => docs[d.path].text <= d.hash
  /\ \A d, e \in s.staged : d.path = e.path => d = e
  /\ \A r \in s.changed, d \in s.staged : r.path # d.path
  /\ s.removals \cap s.todo = {}

\* What is read under the lock is no older than what anyone has recorded before.
Before(c, s, f, v) ==
  /\ \A r \in s.changed : c[r.path] # None => c[r.path].stamp <= r.digest
  /\ \A d \in s.staged : c[d.path] # None => c[d.path].stamp <= d.hash
  /\ \A p \in s.removals : c[p] # None /\ c[p].stamp = v[p] => f[p].text \in Binary \cup {0}

\* An entry with the mtime a file has vouches for the store; one that is recorded under
\* the lock, for what is going to be committed.
MirrorsAt(doc, f, p) == IF f[p].text \in Binary THEN doc = None
                        ELSE doc # None /\ doc.text = f[p].text
Current(c, p, f, v) == Shows(f, p) /\ c[p] # None /\ c[p].stamp = v[p]
Vouches(c, f, v, docs) == \A p \in Name : Current(c, p, f, v) => MirrorsAt(docs[p], f, p)
Unstaged(s, p) == \A d \in s.staged : d.path # p
InHand(s, p, f, v, docs) ==
  \/ \E r \in s.changed : r.path = p /\ r.digest = v[p]
  \/ \E d \in s.staged : d.path = p /\ d.text = v[p]
  \/ Unstaged(s, p) /\ f[p].text \in Binary /\ (p \in s.removals \/ docs[p] = None)
  \/ Unstaged(s, p) /\ p \notin s.removals /\ MirrorsAt(docs[p], f, p)
HandInv(s, f, v, docs) == \A p \in Name : Current(s.catalogue, p, f, v) => InHand(s, p, f, v, docs)

\* What is kept of one sync, c being the catalogue on disk.
ThreadInv(s, f, v, docs, c) ==
  /\ s.pc \in {"walked", "opened"} => WalkInv(s, f)
  /\ s.pc \in {"opened", "observe", "committed"} => EntriesInv(s.catalogue, v)
  /\ s.pc \in {"opened", "committed"} => Vouches(s.catalogue, f, v, docs)
  /\ s.pc = "observe" => /\ StageInv(s, f, v, docs) /\ HandInv(s, f, v, docs)
                         /\ Before(c, s, f, v)

\* A sync of the directory that saw no change and no fault has looked at every file.
QuietInv(s, f, v) ==
  /\ s.pc \in {"walked", "opened"} =>
         s.candidates = {} /\ s.discovered = {p \in Name : Shows(f, p)}
  /\ s.pc = "observe" =>
         /\ s.discovered = {p \in Name : Shows(f, p)}
         /\ s.discovered \cup s.known \subseteq s.observe
         /\ \A p \in s.observe \ s.todo : Shows(f, p) => Current(s.catalogue, p, f, v)

Others(ss, f, v) ==
  \A t, u \in Thread : ss[t].pc = "observe" /\ ss[u].pc \in {"opened", "committed"}
                       => Before(ss[u].catalogue, ss[t], f, v)

SyncInv ==
  /\ SyncShape
  /\ LatestInv(file, version) /\ DocsInv(store, version)
  /\ EntriesInv(catalogue, version) /\ Vouches(catalogue, file, version, store)
  /\ \A t \in Thread : ThreadInv(sync[t], file, version, store, catalogue)
  /\ \A t \in Thread \cap quiet : QuietInv(sync[t], file, version)
  /\ Others(sync, file, version)

-------------------------------------------------------------------------------
\* At most one thread is under the lock.
LEMMA OneHolder ==
  ASSUME SyncShape, NEW t \in Thread, NEW u \in Thread, Mine(t, "observe"), Mine(u, "observe")
  PROVE  t = u
<1>1. [holder |-> t] = [holder |-> u]
  BY DEF SyncShape
<1>2. [holder |-> t].holder = [holder |-> u].holder
  BY <1>1
<1> QED BY <1>2

LEMMA SyncAt ==
  ASSUME SyncShape, NEW t \in Thread
  PROVE  /\ sync[t] = Idle \/ sync[t] \in Walked \cup Loaded \cup Observing \cup Committed
         /\ Mine(t, "idle") <=> sync[t] = Idle
         /\ Mine(t, "walked") <=> sync[t] \in Walked
         /\ Mine(t, "opened") <=> sync[t] \in Loaded
         /\ Mine(t, "observe") <=> sync[t] \in Observing
         /\ Mine(t, "committed") <=> sync[t] \in Committed
<1>1. sync[t] \in Syncs
  BY DEF SyncShape
<1>2. Idle.pc = "idle"
  BY DEF Idle
<1>3. /\ \A s \in Walked : s.pc = "walked"
      /\ \A s \in Loaded : s.pc = "opened"
      /\ \A s \in Observing : s.pc = "observe"
      /\ \A s \in Committed : s.pc = "committed"
  BY DEF Walked, Loaded, Observing, Committed
<1> QED BY <1>1, <1>2, <1>3 DEF Syncs, Mine

\* A step of one sync that leaves the directory, the store and the catalogue alone.
LEMMA StepKeeps ==
  ASSUME SyncInv, NEW t \in Thread, NEW s \in Syncs, Step(t, s),
         UNCHANGED <<file, version, store, catalogue>>,
         \A u \in Thread : sync'[u].pc = "observe" <=> writer' = [holder |-> u],
         quiet' \subseteq quiet \cup {t},
         ThreadInv(s, file, version, store, catalogue),
         t \in quiet' => QuietInv(s, file, version),
         s.pc \in {"opened", "committed"} =>
            \A u \in Thread : u # t /\ sync[u].pc = "observe"
                              => Before(s.catalogue, sync[u], file, version),
         s.pc = "observe" =>
            \A u \in Thread : u # t /\ sync[u].pc \in {"opened", "committed"}
                              => Before(sync[u].catalogue, s, file, version)
  PROVE  SyncInv'
<1>1. sync \in [Thread -> Syncs]
  BY DEF SyncInv, SyncShape
<1>2. sync' = [sync EXCEPT ![t] = s]
  BY DEF Step
<1>3. /\ sync' \in [Thread -> Syncs] /\ sync'[t] = s
      /\ \A u \in Thread : u # t => sync'[u] = sync[u]
  BY <1>1, <1>2
<1>4. SyncShape'
  BY <1>3 DEF SyncInv, SyncShape, Mine
<1>5. \A u \in Thread : ThreadInv(sync[u], file, version, store, catalogue)'
  BY <1>3 DEF SyncInv
<1>6. \A u \in Thread \cap quiet' : QuietInv(sync'[u], file, version)
  BY <1>3 DEF SyncInv
<1>7. \A u, w \in Thread : sync'[u].pc = "observe" /\ sync'[w].pc \in {"opened", "committed"}
                           => Before(sync'[w].catalogue, sync'[u], file, version)
  <2> SUFFICES ASSUME NEW u \in Thread, NEW w \in Thread, sync'[u].pc = "observe",
                      sync'[w].pc \in {"opened", "committed"}
               PROVE  Before(sync'[w].catalogue, sync'[u], file, version)
    OBVIOUS
  <2>1. u # w
    OBVIOUS
  <2>2. u # t /\ w # t => Before(sync[w].catalogue, sync[u], file, version)
    BY <1>3 DEF SyncInv, Others
  <2> QED BY <1>3, <2>1, <2>2
<1> QED BY <1>4, <1>5, <1>6, <1>7 DEF SyncInv, Others

\* A step of the directory: versions grow, and a file of the version it had shows and
\* reads as before, if it still does; while a sync runs, nothing new shows.
LEMMA DirectoryKeeps ==
  ASSUME SyncInv, UNCHANGED <<store, catalogue, writer, sync>>,
         file' \in [Name -> FileState], version' \in [Name -> Nat], LatestInv(file', version'),
         \A p \in Name : version[p] <= version'[p],
         \A p \in Name : version'[p] = version[p] /\ file'[p].text # 0 => file'[p].text = file[p].text,
         \A p \in Name : version'[p] = version[p] /\ Shows(file', p) => Shows(file, p),
         \A p \in Name : Shows(file', p) => Shows(file, p) \/ \A t \in Thread : sync[t] = Idle,
         \/ quiet' = {}
         \/ /\ quiet' = quiet /\ version' = version
            /\ \A p \in Name : Shows(file', p) <=> Shows(file, p)
  PROVE  SyncInv'
<1>1. SyncShape'
  BY DEF SyncInv, SyncShape, Mine
<1>2. version \in [Name -> Nat]
  BY DEF SyncInv, SyncShape
<1>3. DocsInv(store, version')
  <2> SUFFICES ASSUME NEW p \in Name, store[p] # None
               PROVE  store[p].hash \in 1 .. store[p].text /\ store[p].text \in (1 .. version'[p]) \ Binary
    BY DEF DocsInv
  <2>1. store[p].hash \in 1 .. store[p].text /\ store[p].text \in (1 .. version[p]) \ Binary
    BY DEF SyncInv, DocsInv
  <2> QED BY <1>2, <2>1
<1>4. \A c \in Catalogues : EntriesInv(c, version) => EntriesInv(c, version')
  <2> SUFFICES ASSUME NEW c \in Catalogues, EntriesInv(c, version), NEW p \in Name, c[p] # None
               PROVE  c[p].digest = c[p].stamp /\ c[p].stamp \in 1 .. version'[p]
    BY DEF EntriesInv
  <2>1. c[p].digest = c[p].stamp /\ c[p].stamp \in 1 .. version[p]
    BY DEF EntriesInv
  <2> QED BY <1>2, <2>1
<1>5. ASSUME NEW c, EntriesInv(c, version), NEW p \in Name, c[p] # None, c[p].stamp = version'[p]
      PROVE  version'[p] = version[p] /\ c[p].stamp = version[p]
  <2>1. c[p].stamp \in 1 .. version[p]
    BY <1>5 DEF EntriesInv
  <2> QED BY <1>2, <1>5, <2>1
<1>6. ASSUME NEW c, EntriesInv(c, version), NEW p \in Name, Current(c, p, file', version')
      PROVE  /\ Current(c, p, file, version) /\ version'[p] = version[p]
             /\ file'[p].text = file[p].text
  BY <1>5, <1>6 DEF Current, Shows
<1>7. ASSUME NEW c, EntriesInv(c, version), Vouches(c, file, version, store)
      PROVE  Vouches(c, file', version', store)
  <2> SUFFICES ASSUME NEW p \in Name, Current(c, p, file', version')
               PROVE  MirrorsAt(store[p], file', p)
    BY DEF Vouches
  <2>1. MirrorsAt(store[p], file, p) /\ file'[p].text = file[p].text
    BY <1>6, <1>7 DEF Vouches
  <2> QED BY <2>1 DEF MirrorsAt
<1>8. ASSUME NEW c \in Catalogues, EntriesInv(c, version), NEW s \in Observing, Before(c, s, file, version)
      PROVE  Before(c, s, file', version')
  <2> SUFFICES ASSUME NEW p \in s.removals, c[p] # None, c[p].stamp = version'[p]
               PROVE  file'[p].text \in Binary \cup {0}
    BY <1>8 DEF Before
  <2>1. p \in Name
    BY DEF Observing
  <2>2. version'[p] = version[p] /\ c[p].stamp = version[p]
    BY <1>5, <1>8, <2>1
  <2>3. file[p].text \in Binary \cup {0}
    BY <1>8, <2>2 DEF Before
  <2> QED BY <2>1, <2>2, <2>3
<1>9. ASSUME NEW t \in Thread
      PROVE  ThreadInv(sync[t], file', version', store, catalogue)
  <2> DEFINE s == sync[t]
  <2>1. ThreadInv(s, file, version, store, catalogue) /\ EntriesInv(catalogue, version)
    BY DEF SyncInv
  <2>2. s \in Loaded \cup Observing \cup Committed => s.catalogue \in Catalogues
    BY DEF Loaded, Observing, Committed
  <2>3. s.pc \in {"opened", "observe", "committed"} =>
           EntriesInv(s.catalogue, version) /\ EntriesInv(s.catalogue, version')
    BY <1>4, <2>1, <2>2, SyncAt DEF ThreadInv, SyncInv, Mine
  <2>4. ASSUME s # Idle
        PROVE  \A p \in Name : Shows(file', p) => Shows(file, p)
    BY <2>4
  <2>5. s.pc \in {"walked", "opened"} => WalkInv(s, file')
    <3>1. ASSUME s.pc \in {"walked", "opened"} PROVE WalkInv(s, file) /\ s # Idle
      BY <2>1, <3>1 DEF ThreadInv, Idle
    <3> QED BY <2>4, <3>1 DEF WalkInv
  <2>6. s.pc \in {"opened", "committed"} => Vouches(s.catalogue, file', version', store)
    <3> HIDE DEF s
    <3> QED BY <1>7, <2>1, <2>3 DEF ThreadInv
  <2>7. ASSUME s.pc = "observe"
        PROVE  StageInv(s, file', version', store)
    <3>1. StageInv(s, file, version, store) /\ s # Idle
      BY <2>1, <2>7 DEF ThreadInv, Idle
    <3>2. s \in Observing /\ SyncInv /\ SyncShape
      BY <2>7, SyncAt DEF SyncInv, Mine
    <3>3. \A p \in s.observe : p \in Name
      BY <3>2 DEF Observing
    <3>4. \A p \in s.observe : Shows(file', p) => p \in s.discovered
      BY <2>4, <3>1, <3>3 DEF StageInv
    <3>5. \A r \in s.changed : r.path \in Name /\ r.digest \in 1 .. version'[r.path]
      <4> SUFFICES ASSUME NEW r \in s.changed PROVE r.path \in Name /\ r.digest \in 1 .. version'[r.path]
        OBVIOUS
      <4>1. r.path \in Name /\ r.digest \in 1 .. version[r.path]
        BY <3>1, <3>2 DEF StageInv, Observing, ChangedFile
      <4> QED BY <1>2, <4>1
    <3>6. \A d \in s.staged : d.path \in Name /\ d.text \in (1 .. version'[d.path]) \ Binary
      <4> SUFFICES ASSUME NEW d \in s.staged
                   PROVE  d.path \in Name /\ d.text \in (1 .. version'[d.path]) \ Binary
        OBVIOUS
      <4>1. d.path \in Name /\ d.text \in (1 .. version[d.path]) \ Binary
        BY <3>1, <3>2 DEF StageInv, Observing, StagedDoc
      <4> QED BY <1>2, <4>1
    <3> HIDE DEF s
    <3> QED BY <3>1, <3>4, <3>5, <3>6 DEF StageInv
  <2>8. ASSUME s.pc = "observe"
        PROVE  HandInv(s, file', version', store)
    <3>1. HandInv(s, file, version, store)
      BY <2>1, <2>8 DEF ThreadInv
    <3> SUFFICES ASSUME NEW p \in Name, Current(s.catalogue, p, file', version')
                 PROVE  InHand(s, p, file', version', store)
      BY DEF HandInv
    <3> HIDE DEF s
    <3>2. /\ Current(s.catalogue, p, file, version) /\ version'[p] = version[p]
          /\ file'[p].text = file[p].text
      BY <1>6, <2>3, <2>8
    <3>3. InHand(s, p, file, version, store)
      BY <3>1, <3>2 DEF HandInv
    <3> QED BY <3>2, <3>3 DEF InHand, MirrorsAt
  <2>9. s.pc = "observe" => Before(catalogue, s, file', version')
    BY <1>8, <2>1, SyncAt DEF ThreadInv, SyncInv, SyncShape, Mine
  <2> QED BY <2>3, <2>5, <2>6, <2>7, <2>8, <2>9 DEF ThreadInv
<1>10. ASSUME NEW t \in Thread \cap quiet'
       PROVE  QuietInv(sync[t], file', version')
  <2>1. /\ quiet' = quiet /\ version' = version
        /\ \A p \in Name : Shows(file', p) <=> Shows(file, p)
    BY <1>10
  <2>2. QuietInv(sync[t], file, version)
    BY <2>1 DEF SyncInv
  <2>3. {p \in Name : Shows(file, p)} = {p \in Name : Shows(file', p)}
    BY <2>1
  <2>4. \A c, p : Current(c, p, file, version) /\ p \in Name => Current(c, p, file', version')
    BY <2>1 DEF Current
  <2>5. Mine(t, "observe") => sync[t].observe \subseteq Name
    BY SyncAt DEF SyncInv, Observing
  <2> QED BY <2>1, <2>2, <2>3, <2>4, <2>5 DEF QuietInv, Mine
<1>11. Others(sync, file', version')
  <2> SUFFICES ASSUME NEW t \in Thread, NEW u \in Thread, sync[t].pc = "observe",
                      sync[u].pc \in {"opened", "committed"}
               PROVE  Before(sync[u].catalogue, sync[t], file', version')
    BY DEF Others
  <2>1. Before(sync[u].catalogue, sync[t], file, version)
    BY DEF SyncInv, Others
  <2>2. sync[t] \in Observing /\ sync[u] \in Loaded \cup Committed
    BY SyncAt DEF SyncInv, Mine
  <2>3. sync[u].catalogue \in Catalogues /\ EntriesInv(sync[u].catalogue, version)
    BY <2>2 DEF SyncInv, ThreadInv, Loaded, Committed
  <2> QED BY <1>8, <2>1, <2>2, <2>3
<1>12. Vouches(catalogue, file', version', store) /\ EntriesInv(catalogue, version')
  BY <1>4, <1>7 DEF SyncInv, SyncShape
<1> QED BY <1>1, <1>3, <1>9, <1>10, <1>11, <1>12 DEF SyncInv

LEMMA ChangesKeeps ==
  ASSUME SyncInv, Env = {}, Directory
  PROVE  SyncInv'
<1>1. file \in [Name -> FileState] /\ version \in [Name -> Nat] /\ LatestInv(file, version)
  BY DEF SyncInv, SyncShape
<1>2. PICK p \in Name : Edit(p) \/ Delete(p) \/ Ignore(p) \/ Age(p)
  BY DEF Directory
<1>3. file[p] \in FileState /\ version[p] \in Nat /\ file[p].text \in {0, version[p]} /\ file[p].stamp = version[p]
  BY <1>1 DEF LatestInv
<1>4. CASE Edit(p)
  <2> DEFINE f == [file[p] EXCEPT !.text = version[p] + 1, !.stamp = version[p] + 1, !.aged = FALSE]
  <2>1. version' = [version EXCEPT ![p] = @ + 1] /\ Contents(p) = {version[p] + 1}
    BY <1>4 DEF Edit, Contents
  <2>2. version'[p] = version[p] + 1 /\ version' \in [Name -> Nat]
        /\ \A q \in Name : q # p => version'[q] = version[q]
    BY <1>1, <2>1
  <2>3. /\ file' = [file EXCEPT ![p] = f]
        /\ quiet' = {} /\ UNCHANGED <<store, catalogue, writer, sync>>
        /\ Present(p) \/ \A t \in Thread : sync[t] = Idle
    BY <1>4, <2>1, <2>2 DEF Edit, Changes
  <2>4. f \in FileState /\ f.text = version[p] + 1 /\ f.stamp = version[p] + 1 /\ f.ignored = file[p].ignored
    <3>1. \A g \in FileState, n \in Nat :
             LET h == [g EXCEPT !.text = n, !.stamp = n, !.aged = FALSE]
             IN  h \in FileState /\ h.text = n /\ h.stamp = n /\ h.ignored = g.ignored
      BY DEF FileState
    <3>2. version[p] + 1 \in Nat
      BY <1>3
    <3> QED BY <1>3, <3>1, <3>2
  <2>5. file' \in [Name -> FileState] /\ file'[p] = f /\ \A q \in Name : q # p => file'[q] = file[q]
    BY <1>1, <2>3, <2>4
  <2>6. LatestInv(file', version')
    BY <1>1, <2>2, <2>4, <2>5 DEF LatestInv
  <2>7. \A q \in Name : Shows(file', q) => Shows(file, q) \/ \A t \in Thread : sync[t] = Idle
    BY <2>3, <2>4, <2>5 DEF Shows, Present
  <2>8. \A q \in Name : version[q] <= version'[q]
    BY <1>1, <2>2
  <2>9. \A q \in Name : version'[q] = version[q] => q # p /\ file'[q] = file[q]
    BY <1>3, <2>2, <2>5
  <2> QED BY <2>2, <2>3, <2>5, <2>6, <2>7, <2>8, <2>9, DirectoryKeeps DEF Shows
<1>5. ASSUME NEW f \in FileState, file' = [file EXCEPT ![p] = f], f.text \in {0, file[p].text},
             f.stamp = file[p].stamp, file[p].ignored => f.ignored,
             UNCHANGED <<version, store, catalogue, writer, sync>>,
             \/ quiet' = {}
             \/ quiet' = quiet /\ f.text = file[p].text /\ f.ignored = file[p].ignored
      PROVE  SyncInv'
  <2>1. file' \in [Name -> FileState] /\ file'[p] = f /\ \A q \in Name : q # p => file'[q] = file[q]
    BY <1>1, <1>5
  <2>2. LatestInv(file', version')
    BY <1>1, <1>3, <1>5, <2>1 DEF LatestInv
  <2>3. \A q \in Name : Shows(file', q) => Shows(file, q)
    BY <1>5, <2>1 DEF Shows
  <2>4. quiet' = {} \/ (quiet' = quiet /\ \A q \in Name : Shows(file', q) <=> Shows(file, q))
    BY <1>5, <2>1 DEF Shows
  <2>5. \A q \in Name : file'[q].text # 0 => file'[q].text = file[q].text
    BY <1>5, <2>1
  <2>6. \A q \in Name : version[q] <= version'[q]
    BY <1>1, <1>5
  <2> QED BY <1>1, <1>5, <2>1, <2>2, <2>3, <2>4, <2>5, <2>6, DirectoryKeeps
<1>6. CASE Delete(p)
  BY <1>3, <1>5, <1>6 DEF Delete, Changes, FileState
<1>7. CASE Ignore(p)
  <2>1. ~file[p].ignored /\ Changes(p, [file[p] EXCEPT !.ignored = ~@]) /\ UNCHANGED version
    BY <1>7 DEF Ignore
  <2> QED BY <1>3, <1>5, <2>1 DEF Changes, FileState
<1>8. CASE Age(p)
  <2>1. file' = [file EXCEPT ![p] = [file[p] EXCEPT !.aged = TRUE]]
    BY <1>1, <1>8 DEF Age
  <2> QED BY <1>3, <1>5, <1>8, <2>1 DEF Age, FileState
<1> QED BY <1>2, <1>4, <1>6, <1>7, <1>8

-------------------------------------------------------------------------------
(* Before the lock *)

\* A sync of other paths of the process is left where it is.
LEMMA BeginsKeeps ==
  ASSUME SyncInv, NEW t \in Thread, NEW candidates \in SUBSET Name, NEW discovered \in SUBSET Name,
         Begin(t, candidates, discovered),
         \A p \in Name : Shows(file, p) /\ (candidates = {} \/ p \in candidates) => p \in discovered,
         quiet' \subseteq quiet \cup {t},
         t \in quiet' => candidates = {} /\ discovered = {p \in Name : Shows(file, p)}
  PROVE  SyncInv'
<1> DEFINE s == [pc |-> "walked", candidates |-> candidates, discovered |-> discovered]
<1>1. /\ Step(t, s) /\ Mine(t, "idle")
      /\ UNCHANGED <<file, version, store, catalogue, writer>>
  BY DEF Begin, dir
<1>2. s \in Syncs /\ s.pc = "walked"
  BY DEF Syncs, Walked
<1>3. WalkInv(s, file)
  BY DEF WalkInv
<1>4. ThreadInv(s, file, version, store, catalogue)
  BY <1>3 DEF ThreadInv
<1>5. t \in quiet' => QuietInv(s, file, version)
  BY DEF QuietInv
<1>6. \A u \in Thread : sync'[u].pc = "observe" <=> writer' = [holder |-> u]
  <2>1. sync \in [Thread -> Syncs] /\ \A u \in Thread : Mine(u, "observe") <=> writer = [holder |-> u]
    BY DEF SyncInv, SyncShape
  <2> QED BY <1>1, <1>2, <2>1 DEF Step, Mine
<1> QED BY <1>1, <1>2, <1>4, <1>5, <1>6, StepKeeps

LEMMA SyncBeginsKeeps ==
  ASSUME SyncInv, NEW t \in Thread, SyncDirectory(t) \/ \E p \in Name : SyncPath(t, p)
  PROVE  SyncInv'
<1>1. CASE SyncDirectory(t)
  <2>1. Begin(t, {}, {p \in Name : Shows(file, p)}) /\ quiet' = quiet \cup {t}
    BY <1>1 DEF SyncDirectory, Shows, Present
  <2> QED BY <2>1, BeginsKeeps
<1>2. ASSUME NEW p \in Name, SyncPath(t, p)
      PROVE  SyncInv'
  <2>1. Begin(t, {p}, {p} \cap {q \in Name : Present(q)}) /\ quiet' = quiet \ {t}
    BY <1>2 DEF SyncPath
  <2>2. \A q \in Name : Shows(file, q) /\ q \in {p} => q \in {p} \cap {w \in Name : Present(w)}
    BY DEF Shows, Present
  <2> QED BY <2>1, <2>2, BeginsKeeps
<1> QED BY <1>1, <1>2

LEMMA OpensKeeps ==
  ASSUME SyncInv, NEW t \in Thread, OpenCatalogue(t)
  PROVE  SyncInv'
<1> DEFINE s == [pc |-> "opened", candidates |-> sync[t].candidates,
                 discovered |-> sync[t].discovered, catalogue |-> catalogue]
<1>1. /\ Step(t, s) /\ Mine(t, "walked") /\ quiet' = quiet
      /\ UNCHANGED <<file, version, store, catalogue, writer>>
  BY DEF OpenCatalogue, dir
<1>2. /\ sync[t] \in Walked /\ catalogue \in Catalogues /\ sync \in [Thread -> Syncs]
      /\ \A u \in Thread : Mine(u, "observe") <=> writer = [holder |-> u]
  BY <1>1, SyncAt DEF SyncInv, SyncShape
<1>3. s \in Loaded /\ s \in Syncs /\ s.pc = "opened"
  BY <1>2 DEF Syncs, Walked, Loaded
<1>4. ThreadInv(sync[t], file, version, store, catalogue) /\ WalkInv(sync[t], file)
  BY <1>1 DEF SyncInv, ThreadInv, Mine
<1>5. ThreadInv(s, file, version, store, catalogue)
  <2>1. WalkInv(s, file)
    BY <1>4 DEF WalkInv
  <2> QED BY <2>1 DEF SyncInv, ThreadInv
<1>6. t \in quiet' => QuietInv(s, file, version)
  BY <1>1 DEF QuietInv, SyncInv, Mine
<1>7. \A u \in Thread : sync'[u].pc = "observe" <=> writer' = [holder |-> u]
  BY <1>1, <1>2 DEF Step, Mine
<1>8. \A u \in Thread : sync[u].pc = "observe" => Before(catalogue, sync[u], file, version)
  BY DEF SyncInv, ThreadInv
<1> QED BY <1>1, <1>3, <1>5, <1>6, <1>7, <1>8, StepKeeps

LEMMA TakeLockKeeps ==
  ASSUME SyncInv, NEW t \in Thread, TakeLock(t)
  PROVE  SyncInv'
<1> DEFINE s == [pc |-> "observe", observe |-> Observed(sync[t]), todo |-> Observed(sync[t]),
                 discovered |-> sync[t].discovered, catalogue |-> sync[t].catalogue,
                 known |-> Documents, changed |-> {}, staged |-> {}, removals |-> {}]
<1>1. /\ Step(t, s) /\ Mine(t, "opened") /\ quiet' = quiet /\ writer = None
      /\ writer' = [holder |-> t] /\ UNCHANGED <<file, version, store, catalogue>>
  BY DEF TakeLock, dir
<1>2. /\ sync[t] \in Loaded /\ sync \in [Thread -> Syncs]
      /\ \A u \in Thread : Mine(u, "observe") <=> writer = [holder |-> u]
  BY <1>1, SyncAt DEF SyncInv, SyncShape
<1>3. Observed(sync[t]) \subseteq Name /\ Documents \subseteq Name
  BY <1>2 DEF Observed, Documents, Loaded
<1>4. s \in Observing /\ s \in Syncs /\ s.pc = "observe"
  BY <1>2, <1>3 DEF Syncs, Loaded, Observing
<1>5. ThreadInv(sync[t], file, version, store, catalogue)
  BY DEF SyncInv
<1>6. WalkInv(sync[t], file) /\ EntriesInv(sync[t].catalogue, version)
      /\ Vouches(sync[t].catalogue, file, version, store)
  BY <1>1, <1>5 DEF ThreadInv, Mine
<1>7. StageInv(s, file, version, store)
  <2>1. \A p \in s.observe : Shows(file, p) => p \in s.discovered
    BY <1>3, <1>6 DEF WalkInv, Observed
  <2>2. s.known = {p \in Name : store[p] # None}
    BY DEF Documents
  <2> QED BY <2>1, <2>2 DEF StageInv
<1>8. HandInv(s, file, version, store)
  BY <1>6 DEF HandInv, InHand, Vouches, Unstaged
<1>9. \A c : Before(c, s, file, version)
  BY DEF Before
<1>10. ThreadInv(s, file, version, store, catalogue)
  BY <1>6, <1>7, <1>8, <1>9 DEF ThreadInv
<1>11. t \in quiet' => QuietInv(s, file, version)
  <2>1. t \in quiet' => sync[t].candidates = {} /\ sync[t].discovered = {p \in Name : Shows(file, p)}
    BY <1>1 DEF QuietInv, SyncInv, Mine
  <2> QED BY <2>1 DEF QuietInv, Observed
<1>12. \A u \in Thread : sync'[u].pc = "observe" <=> writer' = [holder |-> u]
  <2>1. \A u \in Thread : None # [holder |-> u]
    BY DEF None
  <2>2. \A u \in Thread : [holder |-> u].holder = u
    OBVIOUS
  <2>3. \A u \in Thread : ([holder |-> u] = [holder |-> t]) <=> u = t
    BY <2>2
  <2>4. sync'[t] = s /\ \A u \in Thread : u # t => sync'[u] = sync[u]
    BY <1>1, <1>2 DEF Step
  <2> QED BY <1>1, <1>2, <1>4, <2>1, <2>3, <2>4 DEF Mine
<1> QED BY <1>1, <1>4, <1>9, <1>10, <1>11, <1>12, StepKeeps

-------------------------------------------------------------------------------
(* Under the lock *)

\* What the invariant says of the thread that holds the lock.
LEMMA AtWork ==
  ASSUME SyncInv, NEW t \in Thread, Mine(t, "observe")
  PROVE  /\ sync[t] \in Observing /\ sync[t].pc = "observe"
         /\ sync[t].catalogue \in Catalogues /\ EntriesInv(sync[t].catalogue, version)
         /\ StageInv(sync[t], file, version, store) /\ HandInv(sync[t], file, version, store)
         /\ Before(catalogue, sync[t], file, version)
         /\ \A u \in Thread : sync[u].pc \in {"opened", "committed"} =>
               /\ sync[u].catalogue \in Catalogues /\ EntriesInv(sync[u].catalogue, version)
               /\ Vouches(sync[u].catalogue, file, version, store)
               /\ Before(sync[u].catalogue, sync[t], file, version)
         /\ t \in quiet => QuietInv(sync[t], file, version)
         /\ writer = [holder |-> t]
<1>1. sync[t] \in Observing /\ sync[t].pc = "observe" /\ writer = [holder |-> t]
  BY SyncAt DEF SyncInv, SyncShape, Mine
<1>2. sync[t].catalogue \in Catalogues
  BY <1>1 DEF Observing
<1>3. ASSUME NEW u \in Thread, sync[u].pc \in {"opened", "committed"}
      PROVE  /\ sync[u].catalogue \in Catalogues /\ EntriesInv(sync[u].catalogue, version)
             /\ Vouches(sync[u].catalogue, file, version, store)
             /\ Before(sync[u].catalogue, sync[t], file, version)
  <2>1. sync[u] \in Loaded \cup Committed
    BY <1>3, SyncAt DEF SyncInv, Mine
  <2>2. sync[u].catalogue \in Catalogues
    BY <2>1 DEF Loaded, Committed
  <2>3. ThreadInv(sync[u], file, version, store, catalogue)
    BY DEF SyncInv
  <2>4. Before(sync[u].catalogue, sync[t], file, version)
    BY <1>1, <1>3 DEF SyncInv, Others
  <2> QED BY <1>3, <2>2, <2>3, <2>4 DEF ThreadInv
<1>4. ThreadInv(sync[t], file, version, store, catalogue) /\ (t \in quiet => QuietInv(sync[t], file, version))
  BY DEF SyncInv
<1> QED BY <1>1, <1>2, <1>3, <1>4 DEF ThreadInv

\* A step of the work under the lock.
LEMMA WorkKeeps ==
  ASSUME SyncInv, NEW t \in Thread, Mine(t, "observe"), NEW s \in Observing, Step(t, s),
         UNCHANGED <<file, version, store, catalogue, writer>>, quiet' \subseteq quiet,
         EntriesInv(s.catalogue, version), StageInv(s, file, version, store),
         HandInv(s, file, version, store),
         \A c \in Catalogues : EntriesInv(c, version) /\ Before(c, sync[t], file, version)
                                => Before(c, s, file, version),
         t \in quiet' => QuietInv(s, file, version)
  PROVE  SyncInv'
<1>1. s \in Syncs /\ s.pc = "observe"
  BY DEF Syncs, Observing
<1>2. /\ catalogue \in Catalogues /\ EntriesInv(catalogue, version) /\ sync \in [Thread -> Syncs]
      /\ \A u \in Thread : Mine(u, "observe") <=> writer = [holder |-> u]
  BY DEF SyncInv, SyncShape
<1>3. Before(catalogue, s, file, version)
  BY <1>2, AtWork
<1>4. ThreadInv(s, file, version, store, catalogue)
  BY <1>1, <1>3 DEF ThreadInv
<1>5. \A u \in Thread : sync[u].pc \in {"opened", "committed"}
                         => Before(sync[u].catalogue, s, file, version)
  BY AtWork
<1>6. \A u \in Thread : sync'[u].pc = "observe" <=> writer' = [holder |-> u]
  BY <1>1, <1>2 DEF Step, Mine
<1> QED BY <1>1, <1>4, <1>5, <1>6, StepKeeps

\* What an observation records of a file is its mtime; if it does not call the file
\* changed, it had recorded that before.
LEMMA RecordedIsCurrent ==
  ASSUME NEW e \in Fingerprint \cup {None}, NEW f \in FileState, NEW n \in Nat,
         f.text \in {0, n}, f.stamp = n,
         e # None => e.digest = e.stamp /\ e.stamp \in 1 .. n
  PROVE  /\ Recorded(e, f) \in Fingerprint \cup {None}
         /\ Recorded(e, f) # None => Recorded(e, f).digest = n /\ Recorded(e, f).stamp = n /\ n \in 1 .. n
         /\ f.text # 0 => Recorded(e, f) # None
         /\ f.text # 0 /\ Kind(e, f) \notin {"added", "modified"} => e # None /\ e.stamp = n
         /\ Kind(e, f) \in {"added", "modified"} =>
               f.text = n /\ n \in 1 .. n /\ Recorded(e, f) # None
<1>1. None \notin Fingerprint
  BY DEF None, Fingerprint
<1>2. Entry(f) \in Fingerprint /\ Entry(f).digest = f.text /\ Entry(f).stamp = n
  BY DEF Entry, Fingerprint, FileState
<1>3. CASE f.text = 0
  <2>1. Recorded(e, f) = None /\ Kind(e, f) \in {"none", "deleted"}
    BY <1>3 DEF Recorded, Kind
  <2> QED BY <1>3, <2>1
<1>4. CASE f.text # 0
  <2>1. f.text = n /\ n \in 1 .. n
    BY <1>4
  <2>2. CASE StatMatches(e, f) /\ IsSettled(e, f)
    <3>1. Kind(e, f) = "unchanged" /\ Recorded(e, f) = e
      BY <1>4, <2>2 DEF Kind, Recorded
    <3> QED BY <1>1, <2>1, <2>2, <3>1 DEF StatMatches
  <2>3. CASE ~(StatMatches(e, f) /\ IsSettled(e, f))
    <3>1. Kind(e, f) = IF e = None THEN "added" ELSE IF e.digest = f.text THEN "touched" ELSE "modified"
      BY <1>4, <2>3 DEF Kind
    <3>2. Recorded(e, f) = Entry(f)
      BY <1>4, <3>1 DEF Recorded
    <3> QED BY <1>1, <1>2, <2>1, <3>1, <3>2
  <2> QED BY <2>2, <2>3
<1> QED BY <1>3, <1>4

LEMMA ObserveKeeps ==
  ASSUME SyncInv, NEW t \in Thread, NEW p \in Name, Observe(t, p)
  PROVE  SyncInv'
<1> DEFINE s == sync[t]
           e == s.catalogue[p]
           f == file[p]
           c == [s.catalogue EXCEPT ![p] = Recorded(@, f)]
           r == [path |-> p, digest |-> f.text]
           isNew == Kind(e, f) \in {"added", "modified"} /\ p \in s.discovered
           changed == IF isNew THEN s.changed \cup {r} ELSE s.changed
           n == [s EXCEPT !.todo = @ \ {p}, !.catalogue[p] = Recorded(@, f), !.changed = changed]
<1>1. /\ Mine(t, "observe") /\ p \in s.todo /\ Step(t, n) /\ quiet' = quiet
      /\ UNCHANGED <<file, version, store, catalogue, writer>>
  BY DEF Observe, dir
<1>2. /\ s \in Observing /\ s.catalogue \in Catalogues /\ EntriesInv(s.catalogue, version)
      /\ StageInv(s, file, version, store) /\ HandInv(s, file, version, store)
      /\ t \in quiet => QuietInv(s, file, version)
  BY <1>1, AtWork
<1>3. f \in FileState /\ version[p] \in Nat /\ f.text \in {0, version[p]} /\ f.stamp = version[p]
  BY DEF SyncInv, SyncShape, LatestInv
<1>4. e \in Fingerprint \cup {None} /\ (e # None => e.digest = e.stamp /\ e.stamp \in 1 .. version[p])
  BY <1>2 DEF Catalogues, EntriesInv
<1>5. /\ Recorded(e, f) \in Fingerprint \cup {None}
      /\ Recorded(e, f) # None => /\ Recorded(e, f).digest = version[p] /\ Recorded(e, f).stamp = version[p]
                                  /\ version[p] \in 1 .. version[p]
      /\ f.text # 0 => Recorded(e, f) # None
      /\ f.text # 0 /\ Kind(e, f) \notin {"added", "modified"} => e # None /\ e.stamp = version[p]
      /\ isNew => f.text = version[p] /\ version[p] \in 1 .. version[p] /\ Recorded(e, f) # None
  BY <1>3, <1>4, RecordedIsCurrent
<1>6. c \in Catalogues /\ c[p] = Recorded(e, f) /\ \A q \in Name : q # p => c[q] = s.catalogue[q]
  BY <1>2, <1>5 DEF Catalogues
<1>7. r \in ChangedFile /\ changed \subseteq ChangedFile
  BY <1>2, <1>3 DEF ChangedFile, FileState, Observing
<1>8. /\ n \in Observing /\ n.todo = s.todo \ {p} /\ n.catalogue = c /\ n.changed = changed
      /\ n.observe = s.observe /\ n.discovered = s.discovered /\ n.known = s.known
      /\ n.staged = s.staged /\ n.removals = s.removals
  BY <1>2, <1>6, <1>7 DEF Observing
<1>9. EntriesInv(c, version)
  BY <1>2, <1>5, <1>6 DEF EntriesInv
<1>10. /\ \A q \in s.changed : q \in ChangedFile /\ q.path \in Name /\ q.path # p
       /\ \A d \in s.staged : d.path \in Name /\ d.path # p
       /\ p \notin s.removals /\ p \in s.observe
  BY <1>1, <1>2 DEF StageInv, Observing, ChangedFile, StagedDoc
<1>11. store[p] # None => store[p].text <= version[p]
  BY DEF SyncInv, DocsInv
<1> HIDE DEF n, c, f, e, s
<1>12. StageInv(n, file, version, store)
  <2>1. \A q \in changed : /\ q.path \in s.discovered \ (n.todo \cup s.removals)
                           /\ q.digest \in 1 .. version[q.path]
                           /\ c[q.path] # None /\ c[q.path].stamp = q.digest
                           /\ store[q.path] # None => store[q.path].text <= q.digest
    <3>1. ASSUME NEW q \in s.changed
          PROVE  /\ q.path \in s.discovered \ (n.todo \cup s.removals)
                 /\ q.digest \in 1 .. version[q.path]
                 /\ c[q.path] # None /\ c[q.path].stamp = q.digest
                 /\ store[q.path] # None => store[q.path].text <= q.digest
      BY <1>2, <1>6, <1>8, <1>10 DEF StageInv
    <3>2. ASSUME isNew
          PROVE  /\ r.path \in s.discovered \ (n.todo \cup s.removals)
                 /\ r.digest \in 1 .. version[r.path]
                 /\ c[r.path] # None /\ c[r.path].stamp = r.digest
                 /\ store[r.path] # None => store[r.path].text <= r.digest
      BY <3>2, <1>5, <1>6, <1>8, <1>10, <1>11
    <3> QED BY <3>1, <3>2
  <2>2. \A q, w \in changed : w.path = q.path => w = q
    BY <1>2, <1>10 DEF StageInv
  <2>3. \A q \in changed, d \in s.staged : q.path # d.path
    BY <1>2, <1>10 DEF StageInv
  <2>4. /\ s.known = {q \in Name : store[q] # None}
        /\ s.todo \ {p} \subseteq s.observe
        /\ \A q \in s.observe : Shows(file, q) => q \in s.discovered
        /\ s.removals \cap (s.todo \ {p}) = {}
    BY <1>2 DEF StageInv
  <2>5. \A d \in s.staged : /\ d.path \in s.discovered \ (s.todo \ {p})
                            /\ d.hash \in 1 .. d.text /\ d.text \in (1 .. version[d.path]) \ Binary
                            /\ store[d.path] # None => store[d.path].text <= d.hash
    BY <1>2 DEF StageInv
  <2>6. \A d, q \in s.staged : d.path = q.path => d = q
    BY <1>2 DEF StageInv
  <2> HIDE DEF changed
  <2> QED BY <1>8, <2>1, <2>2, <2>3, <2>4, <2>5, <2>6 DEF StageInv
<1>13. HandInv(n, file, version, store)
  <2> SUFFICES ASSUME NEW q \in Name, Current(c, q, file, version)
               PROVE  InHand(n, q, file, version, store)
    BY <1>8 DEF HandInv
  <2>1. InHand(s, q, file, version, store) => InHand(n, q, file, version, store)
    BY <1>8 DEF InHand, Unstaged
  <2>2. CASE Current(s.catalogue, q, file, version)
    BY <1>2, <2>1, <2>2 DEF HandInv
  <2>3. CASE ~Current(s.catalogue, q, file, version)
    <3>1. q = p /\ Shows(file, p)
      BY <1>6, <2>3 DEF Current
    <3>2. isNew
      BY <1>2, <1>5, <1>10, <2>3, <3>1 DEF Current, Shows, StageInv, e, f
    <3>3. r \in n.changed /\ r.path = q /\ r.digest = version[q]
      BY <1>5, <1>8, <3>1, <3>2
    <3> QED BY <3>3 DEF InHand
  <2> QED BY <2>2, <2>3
<1>14. ASSUME NEW cc \in Catalogues, EntriesInv(cc, version), Before(cc, s, file, version)
       PROVE  Before(cc, n, file, version)
  <2>1. isNew /\ cc[p] # None => cc[p].stamp <= r.digest
    BY <1>3, <1>5, <1>14 DEF EntriesInv
  <2> QED BY <1>8, <1>14, <2>1 DEF Before
<1>15. t \in quiet' => QuietInv(n, file, version)
  <2> SUFFICES ASSUME t \in quiet PROVE QuietInv(n, file, version)
    BY <1>1
  <2>1. /\ s.discovered = {q \in Name : Shows(file, q)}
        /\ s.discovered \cup s.known \subseteq s.observe
        /\ \A q \in s.observe \ s.todo : Shows(file, q) => Current(s.catalogue, q, file, version)
    BY <1>1, <1>2 DEF QuietInv, Mine, s
  <2>2. \A q \in n.observe \ n.todo : Shows(file, q) => Current(c, q, file, version)
    <3> SUFFICES ASSUME NEW q \in s.observe, q \notin s.todo \/ q = p, Shows(file, q)
                 PROVE  Current(c, q, file, version)
      BY <1>8
    <3>1. q \in Name
      BY <1>2 DEF Observing
    <3> QED BY <1>5, <1>6, <2>1, <3>1 DEF Current, Shows, f
  <2>3. n.pc = "observe"
    BY <1>8 DEF Observing
  <2> QED BY <1>8, <2>1, <2>2, <2>3 DEF QuietInv
<1> QED BY <1>1, <1>8, <1>9, <1>12, <1>13, <1>14, <1>15, WorkKeeps DEF s

LEMMA ObserveFailsKeeps ==
  ASSUME SyncInv, NEW t \in Thread, NEW p \in Name, ObserveFails(t, p)
  PROVE  SyncInv'
<1> DEFINE s == sync[t]
           n == [s EXCEPT !.todo = @ \ {p}]
<1>1. /\ Mine(t, "observe") /\ p \in s.todo /\ Step(t, n) /\ quiet' = quiet \ {t}
      /\ UNCHANGED <<file, version, store, catalogue, writer>>
  BY DEF ObserveFails, dir
<1>2. /\ s \in Observing /\ EntriesInv(s.catalogue, version)
      /\ StageInv(s, file, version, store) /\ HandInv(s, file, version, store)
  BY <1>1, AtWork
<1>3. /\ n \in Observing /\ n.todo = s.todo \ {p} /\ n.catalogue = s.catalogue
      /\ n.changed = s.changed /\ n.observe = s.observe /\ n.discovered = s.discovered
      /\ n.known = s.known /\ n.staged = s.staged /\ n.removals = s.removals
  BY <1>2 DEF Observing
<1> HIDE DEF n, s
<1>4. StageInv(n, file, version, store)
  BY <1>2, <1>3 DEF StageInv
<1>5. HandInv(n, file, version, store)
  BY <1>2, <1>3 DEF HandInv, InHand, Unstaged
<1>6. \A c : Before(c, s, file, version) => Before(c, n, file, version)
  BY <1>3 DEF Before
<1> QED BY <1>1, <1>2, <1>3, <1>4, <1>5, <1>6, WorkKeeps DEF s

\* A changed file leaves the list of changes: the store has it as it is, or it is staged,
\* or removed because what was read is no document.
LEMMA ProcessKeeps ==
  ASSUME SyncInv, Env = {}, NEW t \in Thread, NEW r \in sync[t].changed, Process(t, r)
  PROVE  SyncInv'
<1> DEFINE s == sync[t]
           p == r.path
           Stored == InStore(r)
<1>1. /\ Mine(t, "observe") /\ s.todo = {} /\ quiet' = quiet
      /\ UNCHANGED <<file, version, store, catalogue, writer>>
  BY DEF Process, dir
<1>2. /\ s \in Observing /\ EntriesInv(s.catalogue, version)
      /\ StageInv(s, file, version, store) /\ HandInv(s, file, version, store)
      /\ t \in quiet => QuietInv(s, file, version)
  BY <1>1, AtWork
<1>3. r \in ChangedFile /\ p \in Name /\ r = [path |-> p, digest |-> r.digest]
  BY <1>2 DEF Observing, ChangedFile
<1>4. /\ file[p] \in FileState /\ version[p] \in Nat /\ file[p].text \in {0, version[p]}
      /\ store[p] # None => /\ store[p].hash \in 1 .. store[p].text
                            /\ store[p].text \in (1 .. version[p]) \ Binary
  BY <1>3 DEF SyncInv, SyncShape, LatestInv, DocsInv
<1>5. /\ p \in s.discovered /\ p \notin s.removals /\ r.digest \in 1 .. version[p]
      /\ s.catalogue[p] # None /\ s.catalogue[p].stamp = r.digest
      /\ store[p] # None => store[p].text <= r.digest
      /\ \A q \in s.changed : q.path = p => q = r
      /\ \A d \in s.staged : d.path # p
      /\ s.known = {q \in Name : store[q] # None}
  BY <1>2 DEF StageInv
<1>6. PICK n : /\ Step(t, n)
               /\ \/ Stored /\ n = [s EXCEPT !.changed = @ \ {r}]
                  \/ \E text \in SecondRead(r) :
                        \/ /\ text = 0 \/ text \in Binary
                           /\ n = [s EXCEPT !.changed = @ \ {r}, !.removals = @ \cup ({p} \cap s.known)]
                        \/ /\ text # 0 /\ text \notin Binary
                           /\ n = [s EXCEPT !.changed = @ \ {r},
                                            !.staged = @ \cup {[path |-> p, text |-> text, hash |-> r.digest]}]
  <2> DEFINE m == [s EXCEPT !.changed = @ \ {r}]
  <2>1. CASE Stored
    BY <2>1 DEF Process
  <2>2. CASE ~Stored
    <3>1. m.known = s.known
      BY <1>2 DEF Observing
    <3>2. /\ [m EXCEPT !.removals = @ \cup ({p} \cap m.known)]
             = [s EXCEPT !.changed = @ \ {r}, !.removals = @ \cup ({p} \cap s.known)]
          /\ \A d : [m EXCEPT !.staged = @ \cup {d}]
                    = [s EXCEPT !.changed = @ \ {r}, !.staged = @ \cup {d}]
      BY <1>2, <3>1 DEF Observing
    <3>3. PICK text \in SecondRead(r) :
             IF text = 0 \/ text \in Binary
             THEN Step(t, [m EXCEPT !.removals = @ \cup ({p} \cap m.known)])
             ELSE Step(t, [m EXCEPT !.staged = @ \cup {[path |-> p, text |-> text, hash |-> r.digest]}])
      BY <2>2 DEF Process
    <3>4. CASE text = 0 \/ text \in Binary
      BY <3>2, <3>3, <3>4
    <3>5. CASE ~(text = 0 \/ text \in Binary)
      BY <3>2, <3>3, <3>5
    <3> QED BY <3>4, <3>5
  <2> QED BY <2>1, <2>2
<1>7. \A text \in SecondRead(r) : text \in {r.digest, file[p].text}
  BY DEF SecondRead
<1>8. PICK removed \in SUBSET {p}, staged \in SUBSET StagedDoc :
         /\ n = [s EXCEPT !.changed = @ \ {r}, !.removals = @ \cup removed, !.staged = @ \cup staged]
         /\ p \in removed => file[p].text \in Binary \cup {0} \/ r.digest # version[p]
         /\ \A d \in staged : /\ d.path = p /\ d.hash = r.digest /\ d.text \notin Binary
                              /\ d.text \in r.digest .. version[p]
                              /\ staged = {d}
         /\ r.digest = version[p] /\ file[p].text # 0 =>
               \/ staged = {} /\ removed = {} /\ MirrorsAt(store[p], file, p)
               \/ staged = {} /\ file[p].text \in Binary /\ (p \in removed \/ store[p] = None)
               \/ \E d \in staged : d.text = version[p]
  <2>1. CASE Stored /\ n = [s EXCEPT !.changed = @ \ {r}]
    <3>1. n = [s EXCEPT !.changed = @ \ {r}, !.removals = @ \cup {}, !.staged = @ \cup {}]
      BY <1>2, <2>1 DEF Observing
    <3>2. r.digest = version[p] /\ file[p].text # 0 => MirrorsAt(store[p], file, p)
      BY <1>4, <1>5, <2>1 DEF InStore, MirrorsAt
    <3> WITNESS {} \in SUBSET {p}, {} \in SUBSET StagedDoc
    <3> QED BY <3>1, <3>2
  <2>2. ASSUME NEW text \in SecondRead(r), text = 0 \/ text \in Binary,
               n = [s EXCEPT !.changed = @ \ {r}, !.removals = @ \cup ({p} \cap s.known)]
        PROVE  \E removed \in SUBSET {p} :
                  /\ n = [s EXCEPT !.changed = @ \ {r}, !.removals = @ \cup removed, !.staged = @ \cup {}]
                  /\ file[p].text \in Binary \cup {0} \/ r.digest # version[p]
                  /\ r.digest = version[p] /\ file[p].text # 0 =>
                        file[p].text \in Binary /\ (p \in removed \/ store[p] = None)
    <3>1. n = [s EXCEPT !.changed = @ \ {r}, !.removals = @ \cup ({p} \cap s.known), !.staged = @ \cup {}]
      BY <1>2, <2>2 DEF Observing
    <3>2. file[p].text \in Binary \cup {0} \/ r.digest # version[p]
      BY <1>4, <1>5, <1>7, <2>2
    <3>3. p \in {p} \cap s.known \/ store[p] = None
      BY <1>3, <1>5
    <3> QED BY <3>1, <3>2, <3>3
  <2>3. ASSUME NEW text \in SecondRead(r), text # 0, text \notin Binary,
               n = [s EXCEPT !.changed = @ \ {r},
                             !.staged = @ \cup {[path |-> p, text |-> text, hash |-> r.digest]}]
        PROVE  \E d \in StagedDoc :
                  /\ n = [s EXCEPT !.changed = @ \ {r}, !.removals = @ \cup {}, !.staged = @ \cup {d}]
                  /\ d.path = p /\ d.hash = r.digest /\ d.text \notin Binary
                  /\ d.text \in r.digest .. version[p]
    <3> DEFINE d == [path |-> p, text |-> text, hash |-> r.digest]
    <3>1. n = [s EXCEPT !.changed = @ \ {r}, !.removals = @ \cup {}, !.staged = @ \cup {d}]
      BY <1>2, <2>3 DEF Observing
    <3>2. text \in r.digest .. version[p] /\ r.digest \in Nat /\ text \in Nat
      BY <1>4, <1>5, <1>7, <2>3
    <3>3. d \in StagedDoc /\ d.path = p /\ d.hash = r.digest /\ d.text = text
      BY <1>3, <3>2 DEF StagedDoc
    <3> HIDE DEF d
    <3> QED BY <2>3, <3>1, <3>2, <3>3
  <2>4. CASE \E text \in SecondRead(r) :
                /\ text = 0 \/ text \in Binary
                /\ n = [s EXCEPT !.changed = @ \ {r}, !.removals = @ \cup ({p} \cap s.known)]
    <3>1. PICK removed \in SUBSET {p} :
             /\ n = [s EXCEPT !.changed = @ \ {r}, !.removals = @ \cup removed, !.staged = @ \cup {}]
             /\ file[p].text \in Binary \cup {0} \/ r.digest # version[p]
             /\ r.digest = version[p] /\ file[p].text # 0 =>
                   file[p].text \in Binary /\ (p \in removed \/ store[p] = None)
      BY <2>2, <2>4
    <3> WITNESS removed \in SUBSET {p}, {} \in SUBSET StagedDoc
    <3> QED BY <3>1
  <2>5. CASE \E text \in SecondRead(r) :
                /\ text # 0 /\ text \notin Binary
                /\ n = [s EXCEPT !.changed = @ \ {r},
                                 !.staged = @ \cup {[path |-> p, text |-> text, hash |-> r.digest]}]
    <3>1. PICK d \in StagedDoc :
             /\ n = [s EXCEPT !.changed = @ \ {r}, !.removals = @ \cup {}, !.staged = @ \cup {d}]
             /\ d.path = p /\ d.hash = r.digest /\ d.text \notin Binary
             /\ d.text \in r.digest .. version[p]
      BY <2>3, <2>5
    <3>2. r.digest = version[p] => d.text = version[p]
      BY <1>4, <3>1
    <3> WITNESS {} \in SUBSET {p}, {d} \in SUBSET StagedDoc
    <3> QED BY <3>1, <3>2
  <2> QED BY <1>6, <2>1, <2>4, <2>5
<1>9. /\ n \in Observing /\ n.todo = s.todo /\ n.catalogue = s.catalogue
      /\ n.changed = s.changed \ {r} /\ n.observe = s.observe /\ n.discovered = s.discovered
      /\ n.known = s.known /\ n.staged = s.staged \cup staged /\ n.removals = s.removals \cup removed
  BY <1>2, <1>3, <1>8 DEF Observing
<1> HIDE DEF s, Stored
<1>10. \A d \in s.staged : d \in StagedDoc
  BY <1>2 DEF Observing
<1>11. StageInv(n, file, version, store)
  <2>1. \A d \in staged : /\ d.path = p /\ p \in s.discovered
                          /\ d.hash \in 1 .. d.text /\ d.text \in (1 .. version[p]) \ Binary
                          /\ store[p] # None => store[p].text <= d.hash
    BY <1>4, <1>5, <1>8
  <2>2. /\ n.known = {q \in Name : store[q] # None} /\ n.todo = {}
        /\ n.removals \cap n.todo = {}
        /\ \A q \in n.observe : Shows(file, q) => q \in n.discovered
    BY <1>1, <1>2, <1>9 DEF StageInv, s
  <2>3. \A q \in n.changed : q \in s.changed /\ q.path # p
    BY <1>5, <1>9
  <2>4. \A q \in n.changed : /\ q.path \in n.discovered \ (n.todo \cup n.removals)
                             /\ q.digest \in 1 .. version[q.path]
                             /\ n.catalogue[q.path] # None /\ n.catalogue[q.path].stamp = q.digest
                             /\ store[q.path] # None => store[q.path].text <= q.digest
    <3> SUFFICES ASSUME NEW q \in s.changed, q.path # p
                 PROVE  /\ q.path \in s.discovered \ (s.todo \cup s.removals \cup removed)
                        /\ q.digest \in 1 .. version[q.path]
                        /\ s.catalogue[q.path] # None /\ s.catalogue[q.path].stamp = q.digest
                        /\ store[q.path] # None => store[q.path].text <= q.digest
      BY <1>9, <2>3
    <3> QED BY <1>2 DEF StageInv
  <2>5. \A d \in n.staged : /\ d.path \in n.discovered \ n.todo
                            /\ d.hash \in 1 .. d.text /\ d.text \in (1 .. version[d.path]) \ Binary
                            /\ store[d.path] # None => store[d.path].text <= d.hash
    <3>1. ASSUME NEW d \in s.staged
          PROVE  /\ d.path \in s.discovered
                 /\ d.hash \in 1 .. d.text /\ d.text \in (1 .. version[d.path]) \ Binary
                 /\ store[d.path] # None => store[d.path].text <= d.hash
      BY <1>2 DEF StageInv
    <3> QED BY <1>9, <2>1, <2>2, <3>1
  <2>6. \A d, e \in n.staged : d.path = e.path => d = e
    <3>1. \A d, e \in s.staged : d.path = e.path => d = e
      BY <1>2 DEF StageInv
    <3>2. \A d, e \in staged : d = e /\ d.path = p
      BY <1>8
    <3> QED BY <1>5, <1>9, <3>1, <3>2
  <2>7. \A q \in n.changed, d \in n.staged : q.path # d.path
    <3>1. \A q \in s.changed, d \in s.staged : q.path # d.path
      BY <1>2 DEF StageInv
    <3> QED BY <1>9, <2>1, <2>3, <3>1
  <2>8. \A q, w \in n.changed : w.path = q.path => w = q
    BY <1>2, <2>3 DEF StageInv
  <2> QED BY <2>2, <2>4, <2>5, <2>6, <2>7, <2>8 DEF StageInv
<1>12. HandInv(n, file, version, store)
  <2> SUFFICES ASSUME NEW q \in Name, Current(s.catalogue, q, file, version)
               PROVE  InHand(n, q, file, version, store)
    BY <1>9 DEF HandInv
  <2>1. InHand(s, q, file, version, store)
    BY <1>2 DEF HandInv
  <2>2. CASE q # p
    <3>1. Unstaged(s, q) => Unstaged(n, q)
      BY <1>8, <1>9, <2>2 DEF Unstaged
    <3> QED BY <1>9, <2>1, <2>2, <3>1 DEF InHand
  <2>3. CASE q = p
    <3>1. r.digest = version[p] /\ file[p].text # 0
      BY <1>5, <2>3 DEF Current, Shows
    <3>2. staged = {} => Unstaged(n, p)
      BY <1>5, <1>9 DEF Unstaged
    <3>3. CASE staged = {} /\ removed = {} /\ MirrorsAt(store[p], file, p)
      BY <1>5, <1>9, <2>3, <3>2, <3>3 DEF InHand
    <3>4. CASE staged = {} /\ file[p].text \in Binary /\ (p \in removed \/ store[p] = None)
      BY <1>9, <2>3, <3>2, <3>4 DEF InHand
    <3>5. CASE \E d \in staged : d.text = version[p]
      <4>1. PICK d \in staged : d.text = version[p]
        BY <3>5
      <4>2. d \in n.staged /\ d.path = p
        BY <1>8, <1>9
      <4> QED BY <2>3, <4>1, <4>2 DEF InHand
    <3> QED BY <1>8, <3>1, <3>3, <3>4, <3>5
  <2> QED BY <2>2, <2>3
<1>13. ASSUME NEW c \in Catalogues, EntriesInv(c, version), Before(c, s, file, version)
       PROVE  Before(c, n, file, version)
  <2>1. c[p] # None => c[p].stamp <= r.digest
    BY <1>13 DEF Before, s
  <2>2. \A q \in n.changed : c[q.path] # None => c[q.path].stamp <= q.digest
    BY <1>9, <1>13 DEF Before
  <2>3. \A d \in n.staged : c[d.path] # None => c[d.path].stamp <= d.hash
    BY <1>8, <1>9, <1>13, <2>1 DEF Before
  <2>4. \A q \in n.removals : c[q] # None /\ c[q].stamp = version[q] => file[q].text \in Binary \cup {0}
    <3>1. ASSUME p \in removed, c[p] # None, c[p].stamp = version[p]
          PROVE  file[p].text \in Binary \cup {0}
      BY <1>4, <1>5, <1>8, <2>1, <3>1
    <3> QED BY <1>9, <1>13, <3>1 DEF Before
  <2> QED BY <2>2, <2>3, <2>4 DEF Before
<1>14. t \in quiet' => QuietInv(n, file, version)
  BY <1>1, <1>2, <1>9 DEF QuietInv, Observing
<1> QED BY <1>1, <1>2, <1>6, <1>9, <1>11, <1>12, <1>13, <1>14, WorkKeeps DEF s

-------------------------------------------------------------------------------
(* What a commit leaves *)

\* A path has the one document staged for it, or none if it is gone, or the one it had.
LEMMA PublishedIs ==
  ASSUME NEW s, \A d, e \in s.staged : d.path = e.path => d = e
  PROVE  \A p \in Name :
            /\ \A d \in s.staged : d.path = p => Published(s)[p] = [text |-> d.text, hash |-> d.hash]
            /\ Unstaged(s, p) => Published(s)[p] = IF p \in Gone(s) THEN None ELSE store[p]
<1> SUFFICES ASSUME NEW p \in Name
             PROVE  /\ \A d \in s.staged : d.path = p => Published(s)[p] = [text |-> d.text, hash |-> d.hash]
                    /\ Unstaged(s, p) => Published(s)[p] = IF p \in Gone(s) THEN None ELSE store[p]
  OBVIOUS
<1> DEFINE chosen == CHOOSE e \in s.staged : e.path = p
<1>1. Published(s)[p] = IF \E d \in s.staged : d.path = p
                        THEN [text |-> chosen.text, hash |-> chosen.hash]
                        ELSE IF p \in Gone(s) THEN None ELSE store[p]
  BY DEF Published
<1>2. ASSUME NEW d \in s.staged, d.path = p
      PROVE  chosen = d
  <2>1. chosen \in s.staged /\ chosen.path = p
    BY <1>2
  <2> HIDE DEF chosen
  <2> QED BY <1>2, <2>1
<1> HIDE DEF chosen
<1> QED BY <1>1, <1>2 DEF Unstaged

\* What vouched for the store before still does.
LEMMA CommitVouches ==
  ASSUME SyncInv, NEW t \in Thread, Mine(t, "observe"),
         NEW c \in Catalogues, EntriesInv(c, version), Before(c, sync[t], file, version),
         Vouches(c, file, version, store)
  PROVE  Vouches(c, file, version, Published(sync[t]))
<1> DEFINE s == sync[t]
<1>1. s \in Observing /\ StageInv(s, file, version, store)
  BY AtWork
<1> SUFFICES ASSUME NEW p \in Name, Current(c, p, file, version)
             PROVE  MirrorsAt(Published(s)[p], file, p)
  BY DEF Vouches
<1> HIDE DEF s
<1>2. /\ MirrorsAt(store[p], file, p) /\ Shows(file, p) /\ c[p] # None /\ c[p].stamp = version[p]
      /\ file[p].text = version[p] /\ version[p] \in Nat
  BY DEF Vouches, Current, Shows, SyncInv, SyncShape, LatestInv
<1>3. /\ \A d \in s.staged : d.path = p => Published(s)[p] = [text |-> d.text, hash |-> d.hash]
      /\ Unstaged(s, p) => Published(s)[p] = IF p \in Gone(s) THEN None ELSE store[p]
  BY <1>1, PublishedIs DEF StageInv
<1>4. ASSUME NEW d \in s.staged, d.path = p
      PROVE  MirrorsAt(Published(s)[p], file, p)
  <2>1. d.hash \in 1 .. d.text /\ d.text \in (1 .. version[p]) \ Binary
    BY <1>1, <1>4 DEF StageInv
  <2>2. version[p] <= d.hash
    BY <1>2, <1>4 DEF Before, s
  <2>3. d.text = version[p] /\ file[p].text \notin Binary
    BY <1>2, <2>1, <2>2
  <2>4. Published(s)[p] = [text |-> d.text, hash |-> d.hash] /\ Published(s)[p] # None
    BY <1>3, <1>4 DEF None
  <2> QED BY <1>2, <2>3, <2>4 DEF MirrorsAt
<1>5. CASE Unstaged(s, p)
  <2>1. CASE p \in Gone(s)
    <3>1. p \in s.removals
      BY <1>1, <1>2, <2>1 DEF Gone, StageInv
    <3>2. file[p].text \in Binary
      BY <1>2, <3>1 DEF Before, Shows, s
    <3> QED BY <1>3, <1>5, <2>1, <3>2 DEF MirrorsAt
  <2> QED BY <1>2, <1>3, <1>5, <2>1
<1> QED BY <1>4, <1>5 DEF Unstaged

\* The catalogue that goes with the commit vouches for it.
LEMMA CommitIsVouched ==
  ASSUME SyncInv, NEW t \in Thread, Mine(t, "observe"), sync[t].changed = {}
  PROVE  Vouches(sync[t].catalogue, file, version, Published(sync[t]))
<1> DEFINE s == sync[t]
<1>1. s \in Observing /\ StageInv(s, file, version, store) /\ HandInv(s, file, version, store)
  BY AtWork
<1> SUFFICES ASSUME NEW p \in Name, Current(s.catalogue, p, file, version)
             PROVE  MirrorsAt(Published(s)[p], file, p)
  BY DEF Vouches
<1>2. Shows(file, p) /\ file[p].text = version[p] /\ version[p] \in Nat
  BY DEF Current, Shows, SyncInv, SyncShape, LatestInv
<1>3. /\ \A d \in s.staged : d.path = p => Published(s)[p] = [text |-> d.text, hash |-> d.hash]
      /\ Unstaged(s, p) => Published(s)[p] = IF p \in Gone(s) THEN None ELSE store[p]
  BY <1>1, PublishedIs DEF StageInv
<1>4. p \in Gone(s) => p \in s.removals
  BY <1>1, <1>2 DEF Gone, StageInv
<1>5. InHand(s, p, file, version, store) /\ s.changed = {}
  BY <1>1 DEF HandInv
<1> HIDE DEF s
<1>6. ASSUME NEW d \in s.staged, d.path = p, d.text = version[p]
      PROVE  MirrorsAt(Published(s)[p], file, p)
  <2>1. d.text \notin Binary
    BY <1>1 DEF StageInv
  <2>2. Published(s)[p] = [text |-> d.text, hash |-> d.hash] /\ Published(s)[p] # None
    BY <1>3, <1>6 DEF None
  <2> QED BY <1>2, <1>6, <2>1, <2>2 DEF MirrorsAt
<1>7. CASE Unstaged(s, p) /\ file[p].text \in Binary /\ (p \in s.removals \/ store[p] = None)
  BY <1>3, <1>7 DEF MirrorsAt, Gone
<1>8. CASE Unstaged(s, p) /\ p \notin s.removals /\ MirrorsAt(store[p], file, p)
  BY <1>3, <1>4, <1>8
<1> QED BY <1>5, <1>6, <1>7, <1>8 DEF InHand

LEMMA CommitKeeps ==
  ASSUME SyncInv, NEW t \in Thread, Commit(t)
  PROVE  SyncInv'
<1> DEFINE s == sync[t]
           n == [pc |-> "committed", catalogue |-> s.catalogue]
<1>1. /\ Mine(t, "observe") /\ s.todo = {} /\ s.changed = {} /\ store' = Published(s)
      /\ writer' = None /\ Step(t, n) /\ quiet' = quiet
      /\ UNCHANGED <<file, version, catalogue>>
  BY DEF Commit, dir
<1>2. /\ s \in Observing /\ s.catalogue \in Catalogues /\ EntriesInv(s.catalogue, version)
      /\ StageInv(s, file, version, store)
  BY <1>1, AtWork
<1>3. /\ sync \in [Thread -> Syncs] /\ store \in [Name -> SavedDoc \cup {None}]
      /\ catalogue \in Catalogues /\ EntriesInv(catalogue, version)
      /\ Vouches(catalogue, file, version, store) /\ version \in [Name -> Nat]
  BY DEF SyncInv, SyncShape
<1>4. /\ n \in Syncs /\ n.pc = "committed"
      /\ sync' \in [Thread -> Syncs] /\ sync'[t] = n
      /\ \A u \in Thread : u # t => sync'[u] = sync[u]
  <2>1. n \in Committed
    BY <1>2 DEF Committed
  <2> QED BY <1>1, <1>3, <2>1 DEF Step, Syncs
<1>5. \A u \in Thread : sync'[u].pc # "observe"
  BY <1>1, <1>4, OneHolder DEF SyncInv, Mine
<1>6. \A p \in Name : /\ \A d \in s.staged : d.path = p => store'[p] = [text |-> d.text, hash |-> d.hash]
                      /\ Unstaged(s, p) => store'[p] = IF p \in Gone(s) THEN None ELSE store[p]
  BY <1>1, <1>2, PublishedIs DEF StageInv
<1>7. \A p \in Name : store'[p] \in SavedDoc \cup {None}
                      /\ (store'[p] # None => /\ store'[p].hash \in 1 .. store'[p].text
                                              /\ store'[p].text \in (1 .. version[p]) \ Binary)
  <2> SUFFICES ASSUME NEW p \in Name
               PROVE  /\ store'[p] \in SavedDoc \cup {None}
                      /\ store'[p] # None => /\ store'[p].hash \in 1 .. store'[p].text
                                             /\ store'[p].text \in (1 .. version[p]) \ Binary
    OBVIOUS
  <2>1. CASE Unstaged(s, p)
    BY <1>3, <1>6, <2>1 DEF SyncInv, DocsInv
  <2>2. ASSUME NEW d \in s.staged, d.path = p
        PROVE  /\ store'[p] \in SavedDoc \cup {None}
               /\ store'[p] # None => /\ store'[p].hash \in 1 .. store'[p].text
                                      /\ store'[p].text \in (1 .. version[p]) \ Binary
    <3>1. /\ d.hash \in 1 .. d.text /\ d.text \in (1 .. version[p]) \ Binary
          /\ d \in StagedDoc
      BY <1>2, <2>2 DEF StageInv, Observing
    <3>2. store'[p] = [text |-> d.text, hash |-> d.hash]
      BY <1>6, <2>2
    <3>3. d.text \in Nat /\ d.hash \in Nat
      BY <3>1 DEF StagedDoc
    <3>4. store'[p].text = d.text /\ store'[p].hash = d.hash /\ store'[p] \in SavedDoc
      BY <3>2, <3>3 DEF SavedDoc
    <3> QED BY <3>1, <3>4
  <2> QED BY <2>1, <2>2 DEF Unstaged
<1>8. store' \in [Name -> SavedDoc \cup {None}] /\ DocsInv(store', version)
  <2>1. store' = [p \in Name |-> store'[p]]
    BY <1>1 DEF Published
  <2> QED BY <1>7, <2>1 DEF DocsInv
<1>9. SyncShape'
  <2>1. \A u \in Thread : None # [holder |-> u]
    BY DEF None
  <2> QED BY <1>1, <1>4, <1>5, <1>8, <2>1 DEF SyncInv, SyncShape, Mine
<1>10. Vouches(catalogue, file, version, store')
  BY <1>1, <1>3, AtWork, CommitVouches
<1>11. \A u \in Thread : ThreadInv(sync'[u], file, version, store', catalogue)
  <2>1. ThreadInv(n, file, version, store', catalogue)
    <3>1. Vouches(s.catalogue, file, version, store')
      BY <1>1, CommitIsVouched
    <3> QED BY <1>2, <3>1 DEF ThreadInv
  <2>2. ASSUME NEW u \in Thread, u # t
        PROVE  ThreadInv(sync[u], file, version, store', catalogue)
    <3>1. ThreadInv(sync[u], file, version, store, catalogue) /\ sync[u].pc # "observe"
      BY <1>4, <1>5, <2>2 DEF SyncInv
    <3>2. sync[u].pc \in {"opened", "committed"} => Vouches(sync[u].catalogue, file, version, store')
      BY <1>1, AtWork, CommitVouches
    <3> QED BY <3>1, <3>2 DEF ThreadInv
  <2> QED BY <1>4, <2>1, <2>2
<1>12. \A u \in Thread \cap quiet : QuietInv(sync'[u], file, version)
  <2>1. QuietInv(n, file, version)
    BY DEF QuietInv
  <2> QED BY <1>4, <2>1 DEF SyncInv
<1>13. Others(sync', file, version)
  BY <1>5 DEF Others
<1> QED BY <1>1, <1>3, <1>8, <1>9, <1>10, <1>11, <1>12, <1>13 DEF SyncInv

LEMMA SaveKeeps ==
  ASSUME SyncInv, NEW t \in Thread, Save(t)
  PROVE  SyncInv'
<1>1. /\ Mine(t, "committed") /\ catalogue' = sync[t].catalogue /\ Step(t, Idle)
      /\ UNCHANGED <<file, version, store, writer, quiet>>
  BY DEF Save, dir
<1>2. /\ sync[t] \in Committed /\ sync \in [Thread -> Syncs]
      /\ ThreadInv(sync[t], file, version, store, catalogue)
  BY <1>1, SyncAt DEF SyncInv, SyncShape
<1>3. /\ catalogue' \in Catalogues /\ EntriesInv(catalogue', version)
      /\ Vouches(catalogue', file, version, store)
  BY <1>1, <1>2 DEF Committed, ThreadInv, Mine
<1>4. Idle \in Syncs /\ Idle.pc = "idle"
  BY DEF Syncs, Idle
<1>5. sync' \in [Thread -> Syncs] /\ sync'[t] = Idle /\ \A u \in Thread : u # t => sync'[u] = sync[u]
  BY <1>1, <1>2, <1>4 DEF Step
<1>6. SyncShape'
  BY <1>1, <1>3, <1>4, <1>5 DEF SyncInv, SyncShape, Mine
<1>7. \A u \in Thread : ThreadInv(sync'[u], file, version, store, catalogue')
  <2>1. ThreadInv(Idle, file, version, store, catalogue')
    BY <1>4 DEF ThreadInv
  <2>2. ASSUME NEW u \in Thread
        PROVE  ThreadInv(sync[u], file, version, store, catalogue')
    <3>1. ThreadInv(sync[u], file, version, store, catalogue)
      BY DEF SyncInv
    <3>2. sync[u].pc = "observe" => Before(catalogue', sync[u], file, version)
      BY <1>1 DEF SyncInv, Others, Mine
    <3> QED BY <3>1, <3>2 DEF ThreadInv
  <2> QED BY <1>5, <2>1, <2>2
<1>8. \A u \in Thread \cap quiet : QuietInv(sync'[u], file, version)
  BY <1>4, <1>5 DEF SyncInv, QuietInv
<1>9. Others(sync', file, version)
  BY <1>4, <1>5 DEF SyncInv, Others
<1> QED BY <1>1, <1>3, <1>6, <1>7, <1>8, <1>9 DEF SyncInv

LEMMA AbortKeeps ==
  ASSUME SyncInv, NEW t \in Thread, Abort(t)
  PROVE  SyncInv'
<1>1. /\ Step(t, Idle) /\ writer' = (IF Mine(t, "observe") THEN None ELSE writer)
      /\ quiet' = quiet \ {t} /\ UNCHANGED <<file, version, store, catalogue>>
  BY DEF Abort, dir
<1>2. Idle \in Syncs /\ Idle.pc = "idle"
  BY DEF Syncs, Idle
<1>3. ThreadInv(Idle, file, version, store, catalogue) /\ QuietInv(Idle, file, version)
  BY <1>2 DEF ThreadInv, QuietInv
<1>4. \A u \in Thread : sync'[u].pc = "observe" <=> writer' = [holder |-> u]
  <2>1. /\ sync \in [Thread -> Syncs]
        /\ \A u \in Thread : Mine(u, "observe") <=> writer = [holder |-> u]
    BY DEF SyncInv, SyncShape
  <2>2. sync'[t] = Idle /\ \A u \in Thread : u # t => sync'[u] = sync[u]
    BY <1>1, <2>1 DEF Step
  <2>3. \A u \in Thread : None # [holder |-> u]
    BY DEF None
  <2>4. CASE Mine(t, "observe")
    BY <1>1, <1>2, <2>2, <2>3, <2>4, OneHolder DEF SyncInv, Mine
  <2>5. CASE ~Mine(t, "observe")
    BY <1>1, <1>2, <2>1, <2>2, <2>5 DEF Mine
  <2> QED BY <2>4, <2>5
<1> QED BY <1>1, <1>2, <1>3, <1>4, StepKeeps

LEMMA CrashKeeps ==
  ASSUME SyncInv, Crash
  PROVE  SyncInv'
<1>1. /\ sync' = [t \in Thread |-> Idle] /\ writer' = None /\ quiet' = {}
      /\ UNCHANGED <<file, version, store, catalogue>>
  BY DEF Crash, dir
<1>2. Idle \in Syncs /\ Idle.pc = "idle"
  BY DEF Syncs, Idle
<1>3. SyncShape'
  <2>1. \A u \in Thread : None # [holder |-> u]
    BY DEF None
  <2> QED BY <1>1, <1>2, <2>1 DEF SyncInv, SyncShape, Mine
<1>4. ThreadInv(Idle, file, version, store, catalogue)
  BY <1>2 DEF ThreadInv
<1> QED BY <1>1, <1>2, <1>3, <1>4 DEF SyncInv, Others

-------------------------------------------------------------------------------
(* Every step *)

LEMMA SyncStarts ==
  ASSUME InitSync
  PROVE  SyncInv
<1>1. 0 \in Nat /\ Idle.pc = "idle" /\ Idle \in Syncs
  BY DEF Idle, Syncs
<1>2. SyncShape
  <2>1. \A u \in Thread : None # [holder |-> u]
    BY DEF None
  <2>2. file \in [Name -> FileState]
    BY DEF InitSync, FileState
  <2>3. catalogue \in Catalogues /\ store \in [Name -> SavedDoc \cup {None}]
    BY DEF InitSync, Catalogues
  <2> QED BY <1>1, <2>1, <2>2, <2>3 DEF InitSync, SyncShape, Mine
<1>3. \A t \in Thread : ThreadInv(sync[t], file, version, store, catalogue)
  BY <1>1 DEF InitSync, ThreadInv
<1>4. LatestInv(file, version) /\ DocsInv(store, version) /\ EntriesInv(catalogue, version)
      /\ Vouches(catalogue, file, version, store)
  BY DEF InitSync, LatestInv, DocsInv, EntriesInv, Vouches, Current
<1>5. Others(sync, file, version)
  BY <1>1 DEF InitSync, Others
<1>6. quiet = {}
  BY DEF InitSync
<1> QED BY <1>2, <1>3, <1>4, <1>5, <1>6 DEF SyncInv

LEMMA SyncGoesOn ==
  ASSUME SyncInv, Env = {}, [NextSync]_syncVars
  PROVE  SyncInv'
<1>1. CASE Directory
  BY <1>1, ChangesKeeps
<1>2. ASSUME NEW t \in Thread, Proceed(t)
      PROVE  SyncInv'
  <2>1. ASSUME NEW r \in sync[t].changed, Process(t, r)
        PROVE  SyncInv'
    BY <2>1, ProcessKeeps
  <2> QED BY <1>2, <2>1, SyncBeginsKeeps, OpensKeeps, TakeLockKeeps, ObserveKeeps, CommitKeeps,
             SaveKeeps DEF Proceed
<1>3. CASE Disturb
  BY <1>3, SyncBeginsKeeps, ObserveFailsKeeps, AbortKeeps, CrashKeeps DEF Disturb
<1>4. CASE UNCHANGED syncVars
  BY <1>4 DEF syncVars, SyncInv, SyncShape, Mine
<1> QED BY <1>1, <1>2, <1>3, <1>4 DEF NextSync

\* The generation of a sync that was not disturbed is the directory.
LEMMA QuietCommitMirrors ==
  ASSUME SyncInv, NEW t \in Thread \cap quiet, Commit(t)
  PROVE  Mirrors(store')
<1> DEFINE s == sync[t]
<1>1. Mine(t, "observe") /\ s.todo = {} /\ s.changed = {} /\ store' = Published(s)
  BY DEF Commit
<1>2. /\ StageInv(s, file, version, store) /\ QuietInv(s, file, version)
      /\ s.discovered = {p \in Name : Shows(file, p)} /\ s.discovered \cup s.known \subseteq s.observe
  BY <1>1, AtWork DEF QuietInv
<1>3. Vouches(s.catalogue, file, version, store')
  BY <1>1, CommitIsVouched
<1> SUFFICES ASSUME NEW p \in Name
             PROVE  IF Present(p) /\ ~file[p].ignored /\ file[p].text \notin Binary
                    THEN store'[p] # None /\ store'[p].text = file[p].text
                    ELSE store'[p] = None
  BY DEF Mirrors
<1>4. CASE Shows(file, p)
  <2>1. Current(s.catalogue, p, file, version)
    BY <1>1, <1>2, <1>4 DEF QuietInv, Mine
  <2>2. MirrorsAt(store'[p], file, p)
    BY <1>3, <2>1 DEF Vouches
  <2> QED BY <1>4, <2>2 DEF MirrorsAt, Shows, Present
<1>5. CASE ~Shows(file, p)
  <2>1. p \notin s.discovered
    BY <1>2, <1>5
  <2>2. Unstaged(s, p)
    BY <1>2, <2>1 DEF StageInv, Unstaged
  <2>3. store'[p] = IF p \in Gone(s) THEN None ELSE store[p]
    BY <1>1, <1>2, <2>2, PublishedIs DEF StageInv
  <2>4. store[p] # None => p \in Gone(s)
    BY <1>2, <2>1 DEF StageInv, Gone
  <2> QED BY <1>5, <2>3, <2>4 DEF Shows, Present
<1> QED BY <1>4, <1>5

LEMMA CommitIsNoOlder ==
  ASSUME SyncInv, NEW t \in Thread, Commit(t), NEW p \in Name, store[p] # None, store'[p] # None
  PROVE  store[p].text <= store'[p].text
<1> DEFINE s == sync[t]
<1>1. StageInv(s, file, version, store) /\ store' = Published(s)
  BY AtWork DEF Commit
<1>2. /\ \A d \in s.staged : d.path = p => store'[p] = [text |-> d.text, hash |-> d.hash]
      /\ Unstaged(s, p) => store'[p] = IF p \in Gone(s) THEN None ELSE store[p]
  BY <1>1, PublishedIs DEF StageInv
<1>3. version[p] \in Nat /\ store[p].text \in 1 .. version[p]
  BY DEF SyncInv, SyncShape, DocsInv
<1>4. CASE Unstaged(s, p)
  BY <1>2, <1>3, <1>4
<1>5. ASSUME NEW d \in s.staged, d.path = p
      PROVE  store[p].text <= store'[p].text
  <2>1. store[p].text <= d.hash /\ d.hash \in 1 .. d.text /\ d.text \in 1 .. version[p]
    BY <1>1, <1>5 DEF StageInv
  <2>2. store'[p] = [text |-> d.text, hash |-> d.hash]
    BY <1>2, <1>5
  <2>3. store'[p].text = d.text
    BY <2>2
  <2> QED BY <1>3, <2>1, <2>3
<1> QED BY <1>4, <1>5 DEF Unstaged

THEOREM SyncInvariant ==
  ASSUME Env = {}
  PROVE  SpecSync => []SyncInv
<1>1. InitSync => SyncInv
  BY SyncStarts
<1>2. SyncInv /\ [NextSync]_syncVars => SyncInv'
  BY SyncGoesOn
<1> QED BY <1>1, <1>2, PTL DEF SpecSync

\* ContextStore::sync ("bring the documents under source.label in line with the
\* directory"): a sync of the whole directory that saw neither a change nor a fault
\* publishes exactly the directory's files, whatever other syncs of the process committed,
\* saved, failed or died before and beside it, and whichever paths and threads there are.
THEOREM QuietSyncsMirror ==
  ASSUME Env = {}
  PROVE  SpecSync => SyncedIsMirrored
<1>1. SyncInv /\ [NextSync]_syncVars
      => [\A t \in Thread : Commit(t) /\ t \in quiet => Mirrors(store')]_syncVars
  BY QuietCommitMirrors
<1> QED BY <1>1, SyncInvariant, PTL DEF SpecSync, SyncedIsMirrored

\* Catalogue::acknowledge after write_batched: though syncs overlap and save their
\* catalogues out of order, none of them puts back an older text of a file.
THEOREM TextsGrow ==
  ASSUME Env = {}
  PROVE  SpecSync => NeverOlder
<1>1. ASSUME SyncInv, [NextSync]_syncVars, NEW p \in Name, store[p] # None, store'[p] # None
      PROVE  store[p].text <= store'[p].text
  <2>1. version[p] \in Nat /\ store[p].text \in 1 .. version[p]
    BY <1>1 DEF SyncInv, SyncShape, DocsInv
  <2>2. CASE UNCHANGED store
    BY <2>1, <2>2
  <2>3. CASE \E t \in Thread : Commit(t)
    BY <1>1, <2>3, CommitIsNoOlder
  <2>4. UNCHANGED store \/ \E t \in Thread : Commit(t)
    <3>1. Directory => UNCHANGED store
      BY DEF Directory, Edit, Delete, Ignore, Age, Changes
    <3>2. Disturb => UNCHANGED store
      BY DEF Disturb, SyncPath, Begin, ObserveFails, Abort, Crash
    <3>3. ASSUME NEW t \in Thread, Proceed(t)
          PROVE  UNCHANGED store \/ Commit(t)
      BY <3>3 DEF Proceed, SyncDirectory, Begin, OpenCatalogue, TakeLock, Observe, Process, Save
    <3>4. UNCHANGED syncVars => UNCHANGED store
      BY DEF syncVars
    <3> QED BY <1>1, <3>1, <3>2, <3>3, <3>4 DEF NextSync
  <2> QED BY <2>2, <2>3, <2>4
<1>2. SyncInv /\ [NextSync]_syncVars
      => [\A p \in Name : store[p] # None /\ store'[p] # None => store[p].text <= store'[p].text]_syncVars
  BY <1>1
<1> QED BY <1>2, SyncInvariant, PTL DEF SpecSync, NeverOlder
===============================================================================
