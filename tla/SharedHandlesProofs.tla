-------------------------- MODULE SharedHandlesProofs --------------------------
(***************************************************************************)
(* What a process shares, for any number of threads.                       *)
(*                                                                         *)
(* LiveHandle: the threads of one handle lose no edit when no commit runs  *)
(* beside a thread that maintains the index.  The proof follows an edit    *)
(* that is not in the snapshot yet: it is buffered, or drained by a        *)
(* thread, or a map that will be installed has it.                         *)
(*                                                                         *)
(* HostApi, for any number of allocations, objects and edits besides:      *)
(* handles resolve, callbacks are called with live userdata, nothing       *)
(* leaks, a store has one writer, and a commit that has returned is found. *)
(***************************************************************************)
EXTENDS LiveHandle, HostApi, FiniteSetTheorems, SequenceTheorems, WellFoundedInduction, TLAPS

-------------------------------------------------------------------------------
(* LiveHandle: the inductive invariant *)

\* Uses in which no commit runs beside a maintainer: any number of threads commit, or
\* one thread maintains and its watchers report changes.
Separate(u) == \/ u.maintainers = {}
               \/ /\ u.committers = {} /\ u.kinds = {"changed"}
                  /\ \A s, t \in u.maintainers : s = t

Places == {"idle", "lock", "load", "take", "read", "store", "requeue",
           "capture", "write", "build", "install", "swap", "renotify"}
Locals == [snap : Snapshot, drained : Seq(Edit), then : {"idle", "capture"}]
Types ==
    /\ use \in Uses /\ tree \in Map /\ dirty \in SUBSET Path
    /\ pending \in Seq(Edit)
    /\ handle \in Snapshot /\ disk \in Snapshot
    /\ writer \in Thread \cup {Nobody}
    /\ pc \in [Thread -> Places] /\ mem \in [Thread -> Locals]
Locked == \A t \in Thread : pc[t] \in Holding <=> writer = t
TypeInv == Types /\ Locked

\* What a thread may be doing, by its part.
Committing == {"lock", "load", "take", "read", "store", "requeue"}
Role(t) == /\ pc[t] # "idle" => t \in use.committers \cup use.maintainers
           /\ pc[t] \in Committing /\ t \notin use.maintainers => mem[t].then = "idle"
           /\ pc[t] \notin Committing \cup {"idle"} => t \in use.maintainers
Roles == \A t \in Thread : Role(t)

\* A commit works on the snapshot that searches load, and a flush writes it.
Loads == \A t \in Thread : pc[t] \in {"take", "read", "write"} => mem[t].snap.map = handle.map

\* A thread holds edits from the moment it drains the buffer until it lets them go.
Emptied == \A t \in Thread :
    pc[t] \notin {"read", "store", "requeue", "swap", "renotify"} => mem[t].drained = <<>>

\* The last edit of p is a deletion.
DeletedLast(edits, p) ==
    \E i \in DOMAIN edits : /\ edits[i].path = p /\ edits[i].kind = "deleted"
                            /\ \A j \in DOMAIN edits : i < j => edits[j].path # p
\* A deletion that no later edit follows is of a file that is still gone.
Erased ==
    \A p \in Path \ dirty :
        /\ DeletedLast(pending, p) => tree[p] = Absent
        /\ \A t \in Thread : pc[t] = "read" \/ pc[t] = "store" \/ pc[t] = "requeue" =>
              p \in Touched(pending) \/ ~DeletedLast(mem[t].drained, p) \/ tree[p] = Absent

\* A map that is about to replace the snapshot is as new, but for what is still to be applied.
Coming == \A t \in Thread : \A p \in Path \ dirty :
    /\ pc[t] = "store" => mem[t].snap.map[p] = tree[p] \/ p \in Touched(pending)
    /\ pc[t] \in {"install", "swap"} =>
          \/ mem[t].snap.map[p] = tree[p]
          \/ p \in Touched(pending) \/ p \in Touched(mem[t].drained)

Kept == Roles /\ Loads /\ Emptied /\ Erased /\ Coming /\ NoEditDropped
EditsInv == TypeInv /\ Kept

-------------------------------------------------------------------------------
(* Sequences of edits *)

LEMMA TouchedOfAppend ==
  ASSUME NEW s \in Seq(Edit), NEW e \in Edit
  PROVE  /\ Append(s, e) \in Seq(Edit)
         /\ Touched(Append(s, e)) = Touched(s) \cup {e.path}
         /\ \A p : DeletedLast(Append(s, e), p) =>
               IF e.path = p THEN e.kind = "deleted" ELSE DeletedLast(s, p)
<1>1. /\ Append(s, e) \in Seq(Edit)
      /\ DOMAIN Append(s, e) = 1 .. Len(s) + 1 /\ DOMAIN s = 1 .. Len(s)
      /\ \A i \in 1 .. Len(s) : Append(s, e)[i] = s[i]
      /\ Append(s, e)[Len(s) + 1] = e /\ Len(s) \in Nat
  OBVIOUS
<1>2. 1 .. Len(s) + 1 = (1 .. Len(s)) \cup {Len(s) + 1}
  BY <1>1
<1>3. Touched(Append(s, e)) = Touched(s) \cup {e.path}
  BY <1>1, <1>2 DEF Touched
<1>4. ASSUME NEW p, DeletedLast(Append(s, e), p)
      PROVE  IF e.path = p THEN e.kind = "deleted" ELSE DeletedLast(s, p)
  <2> DEFINE q == Append(s, e)
  <2>1. PICK i \in DOMAIN q : /\ q[i].path = p /\ q[i].kind = "deleted"
                              /\ \A j \in DOMAIN q : i < j => q[j].path # p
    BY <1>4 DEF DeletedLast
  <2>2. CASE i = Len(s) + 1
    BY <2>1, <2>2, <1>1
  <2>3. CASE i # Len(s) + 1
    <3>1. i \in 1 .. Len(s) /\ i < Len(s) + 1 /\ Len(s) + 1 \in DOMAIN q
      BY <2>1, <2>3, <1>1, <1>2
    <3>2. e.path # p
      BY <3>1, <2>1, <1>1
    <3>3. \A j \in DOMAIN s : i < j => s[j].path # p
      BY <2>1, <1>1, <1>2
    <3> QED BY <3>1, <3>2, <3>3, <2>1, <1>1 DEF DeletedLast
  <2> QED BY <2>2, <2>3
<1> QED BY <1>1, <1>3, <1>4

LEMMA TouchedOfTail ==
  ASSUME NEW s \in Seq(Edit), s # <<>>
  PROVE  /\ Head(s) \in Edit /\ Tail(s) \in Seq(Edit)
         /\ Touched(s) = Touched(Tail(s)) \cup {Head(s).path}
<1>1. /\ Head(s) = s[1] /\ Tail(s) \in Seq(Edit) /\ Len(s) \in Nat \ {0}
      /\ DOMAIN s = 1 .. Len(s) /\ DOMAIN Tail(s) = 1 .. Len(s) - 1
      /\ \A i \in 1 .. Len(s) - 1 : Tail(s)[i] = s[i + 1]
  OBVIOUS
<1>2. s[1] \in Edit
  BY <1>1
<1>3. \A i \in DOMAIN s : i = 1 \/ i - 1 \in DOMAIN Tail(s)
  BY <1>1
<1>4. Touched(s) \subseteq Touched(Tail(s)) \cup {Head(s).path}
  <2> SUFFICES ASSUME NEW i \in DOMAIN s PROVE s[i].path \in Touched(Tail(s)) \cup {Head(s).path}
    BY DEF Touched
  <2>1. CASE i = 1
    BY <2>1, <1>1
  <2>2. CASE i # 1
    <3>1. i - 1 \in DOMAIN Tail(s) /\ i \in Nat
      BY <2>2, <1>3, <1>1
    <3>2. Tail(s)[i - 1] = s[i]
      BY <3>1, <1>1
    <3> QED BY <3>1, <3>2 DEF Touched
  <2> QED BY <2>1, <2>2
<1>5. Touched(Tail(s)) \cup {Head(s).path} \subseteq Touched(s)
  <2>1. Head(s).path \in Touched(s)
    BY <1>1 DEF Touched
  <2>2. ASSUME NEW i \in DOMAIN Tail(s) PROVE Tail(s)[i].path \in Touched(s)
    <3>1. i + 1 \in DOMAIN s /\ Tail(s)[i] = s[i + 1]
      BY <1>1
    <3> QED BY <3>1 DEF Touched
  <2> QED BY <2>1, <2>2 DEF Touched
<1> QED BY <1>1, <1>2, <1>4, <1>5

\* Of two sequences in a row.
LEMMA InARow ==
  ASSUME NEW d \in Seq(Edit), NEW n \in Seq(Edit)
  PROVE  /\ d \o n \in Seq(Edit)
         /\ Touched(d \o n) = Touched(d) \cup Touched(n)
         /\ \A p : DeletedLast(d \o n, p) =>
               DeletedLast(n, p) \/ (p \notin Touched(n) /\ DeletedLast(d, p))
<1> DEFINE s == d \o n
<1>1. /\ s \in Seq(Edit) /\ Len(d) \in Nat /\ Len(n) \in Nat
      /\ DOMAIN s = 1 .. Len(d) + Len(n) /\ DOMAIN d = 1 .. Len(d) /\ DOMAIN n = 1 .. Len(n)
      /\ \A i \in 1 .. Len(d) : s[i] = d[i]
      /\ \A i \in 1 .. Len(n) : s[Len(d) + i] = n[i]
  OBVIOUS
<1>2. \A i \in DOMAIN d : i \in DOMAIN s /\ s[i] = d[i]
  BY <1>1
<1>3. \A i \in DOMAIN n : Len(d) + i \in DOMAIN s /\ s[Len(d) + i] = n[i]
  BY <1>1
<1>4. \A i \in DOMAIN s : i \in DOMAIN d \/ (i - Len(d) \in DOMAIN n /\ s[i] = n[i - Len(d)])
  <2> SUFFICES ASSUME NEW i \in DOMAIN s, i \notin DOMAIN d
               PROVE  i - Len(d) \in DOMAIN n /\ s[i] = n[i - Len(d)]
    OBVIOUS
  <2>1. i \in Nat /\ i - Len(d) \in 1 .. Len(n) /\ Len(d) + (i - Len(d)) = i
    BY <1>1
  <2> QED BY <2>1, <1>1
<1> HIDE DEF s
<1>5. Touched(s) = Touched(d) \cup Touched(n)
  BY <1>2, <1>3, <1>4 DEF Touched
<1>6. ASSUME NEW p, DeletedLast(s, p)
      PROVE  DeletedLast(n, p) \/ (p \notin Touched(n) /\ DeletedLast(d, p))
  <2>1. PICK i \in DOMAIN s : /\ s[i].path = p /\ s[i].kind = "deleted"
                              /\ \A j \in DOMAIN s : i < j => s[j].path # p
    BY <1>6 DEF DeletedLast
  <2>2. CASE i \in DOMAIN d
    <3>1. \A j \in DOMAIN n : i < Len(d) + j
      BY <2>2, <1>1
    <3>2. p \notin Touched(n)
      BY <3>1, <2>1, <1>3 DEF Touched
    <3>3. DeletedLast(d, p)
      BY <2>1, <2>2, <1>2 DEF DeletedLast
    <3> QED BY <3>2, <3>3
  <2>3. CASE i \notin DOMAIN d
    <3>1. i - Len(d) \in DOMAIN n /\ s[i] = n[i - Len(d)] /\ i \in Nat
      BY <2>1, <2>3, <1>4, <1>1
    <3>2. \A j \in DOMAIN n : i - Len(d) < j => i < Len(d) + j
      BY <3>1, <1>1
    <3> QED BY <2>1, <3>1, <3>2, <1>3 DEF DeletedLast
  <2> QED BY <2>2, <2>3
<1> QED BY <1>1, <1>5, <1>6 DEF s

\* Every nonempty set of naturals has a least element.
LEMMA MinNat ==
  ASSUME NEW S \in SUBSET Nat, S # {}
  PROVE  \E n \in S : \A m \in S : n <= m
<1> DEFINE Below == {1 .. n : n \in S}
<1>1. Below \subseteq FiniteSubsetsOf(Nat)
  <2> SUFFICES ASSUME NEW n \in S PROVE 1 .. n \in FiniteSubsetsOf(Nat)
    OBVIOUS
  <2>1. IsFiniteSet(1 .. n)
    BY FS_Interval
  <2>2. (1 .. n) \subseteq Nat
    OBVIOUS
  <2> QED BY <2>1, <2>2 DEF FiniteSubsetsOf
<1>2. Below # {}
  OBVIOUS
<1>3. PICK b \in Below : \A c \in Below : <<c, b>> \notin StrictSubsetOrdering(Nat)
  BY <1>1, <1>2, FS_StrictSubsetOrderingWellFounded, WFMin
<1>4. PICK n \in S : b = 1 .. n
  OBVIOUS
<1>5. \A m \in S : n <= m
  <2> SUFFICES ASSUME NEW m \in S, m < n PROVE FALSE
    OBVIOUS
  <2>1. 1 .. m \subseteq 1 .. n /\ 1 .. m # 1 .. n
    OBVIOUS
  <2>2. 1 .. m \in Below
    OBVIOUS
  <2>3. <<1 .. m, b>> \in StrictSubsetOrdering(Nat)
    BY <2>1, <1>4 DEF StrictSubsetOrdering
  <2> QED BY <2>2, <2>3, <1>3
<1> QED BY <1>5

\* Among the places of a sequence that have a property one is the last.
LEMMA LastPlace ==
  ASSUME NEW n \in Nat, NEW S \in SUBSET (1 .. n), S # {}
  PROVE  \E i \in S : \A j \in S : j <= i
<1> DEFINE T == {n - i : i \in S}
<1>1. T \in SUBSET Nat /\ T # {}
  <2>1. \A i \in S : n - i \in Nat
    OBVIOUS
  <2>2. PICK i \in S : TRUE
    OBVIOUS
  <2>3. n - i \in T
    OBVIOUS
  <2> QED BY <2>1, <2>3
<1> HIDE DEF T
<1>2. PICK m \in T : \A k \in T : m <= k
  BY <1>1, MinNat
<1>3. PICK i \in S : m = n - i
  BY <1>2 DEF T
<1>4. \A j \in S : n - i <= n - j
  BY <1>2, <1>3 DEF T
<1> QED BY <1>3, <1>4

\* take_for_commit: what the last edit of a path says.
LEMMA LastKindLemma ==
  ASSUME NEW s \in Seq(Edit), NEW p \in Touched(s)
  PROVE  /\ LastKind(s, p) \in use.kinds
         /\ LastKind(s, p) = "deleted" => DeletedLast(s, p)
<1> DEFINE I == {i \in 1 .. Len(s) : s[i].path = p}
<1>1. Len(s) \in Nat /\ DOMAIN s = 1 .. Len(s) /\ \A i \in DOMAIN s : s[i] \in Edit
  OBVIOUS
<1>2. I \in SUBSET (1 .. Len(s)) /\ I # {}
  BY <1>1 DEF Touched
<1>3. \E i \in I : \A j \in I : j <= i
  BY <1>1, <1>2, LastPlace
<1>4. Max(I) \in I /\ \A j \in I : j <= Max(I)
  BY <1>3 DEF Max
<1>5. LastKind(s, p) = s[Max(I)].kind
  BY <1>2 DEF LastKind, SelectLastInSubSeq
<1>6. s[Max(I)] \in Edit /\ s[Max(I)].path = p
  BY <1>4, <1>1
<1>7. LastKind(s, p) \in use.kinds
  BY <1>5, <1>6 DEF Edit
<1>8. \A j \in DOMAIN s : Max(I) < j => s[j].path # p
  BY <1>4, <1>1
<1> QED BY <1>4, <1>5, <1>6, <1>7, <1>8, <1>1 DEF DeletedLast

\* requeue_uncommitted keeps the last edit of every path.
LEMMA LastPerPathLemma ==
  ASSUME NEW s \in Seq(Edit)
  PROVE  /\ LastPerPath(s) \in Seq(Edit)
         /\ Touched(LastPerPath(s)) = Touched(s)
         /\ \A p : DeletedLast(LastPerPath(s), p) => DeletedLast(s, p)
<1> DEFINE last == {i \in DOMAIN s : \A j \in DOMAIN s : j > i => s[j].path # s[i].path}
           upTo(i) == {j \in last : j <= i}
           rank == [i \in last |-> Cardinality(upTo(i))]
           n == Cardinality(last)
           at(k) == CHOOSE i \in last : Cardinality(upTo(i)) = k
<1>1. Len(s) \in Nat /\ DOMAIN s = 1 .. Len(s) /\ \A i \in DOMAIN s : s[i] \in Edit
  OBVIOUS
<1>2. IsFiniteSet(last) /\ n \in Nat
  <2>1. IsFiniteSet(DOMAIN s)
    BY <1>1, FS_Interval
  <2> QED BY <2>1, FS_Subset, FS_CardinalityType
<1>3. \A i \in last : IsFiniteSet(upTo(i)) /\ Cardinality(upTo(i)) \in 1 .. n
  <2> SUFFICES ASSUME NEW i \in last
               PROVE  IsFiniteSet(upTo(i)) /\ Cardinality(upTo(i)) \in 1 .. n
    OBVIOUS
  <2>1. upTo(i) \subseteq last /\ i \in upTo(i)
    BY <1>1
  <2> HIDE DEF upTo, last
  <2>2. IsFiniteSet(upTo(i)) /\ Cardinality(upTo(i)) <= n
    BY <2>1, <1>2, FS_Subset
  <2>3. Cardinality(upTo(i)) \in Nat /\ Cardinality(upTo(i)) # 0
    BY <2>1, <2>2, FS_CardinalityType, FS_EmptySet
  <2> QED BY <2>2, <2>3, <1>2
<1>4. ASSUME NEW i \in last, NEW j \in last, i < j PROVE Cardinality(upTo(i)) < Cardinality(upTo(j))
  <2>1. upTo(i) \subseteq upTo(j) /\ j \in upTo(j) /\ j \notin upTo(i)
    BY <1>1, <1>4
  <2>2. IsFiniteSet(upTo(j))
    BY <1>3
  <2> HIDE DEF upTo, last
  <2> QED BY <2>1, <2>2, FS_Subset, FS_CardinalityType
<1>5. \A i, j \in last : Cardinality(upTo(i)) = Cardinality(upTo(j)) => i = j
  <2> SUFFICES ASSUME NEW i \in last, NEW j \in last, Cardinality(upTo(i)) = Cardinality(upTo(j)), i # j
               PROVE  FALSE
    OBVIOUS
  <2>1. i < j \/ j < i
    BY <1>1
  <2> HIDE DEF upTo, last
  <2>2. Cardinality(upTo(i)) \in Nat
    BY <1>3, <1>2 DEF n
  <2> QED BY <2>1, <2>2, <1>4
<1>6. rank \in Surjection(last, 1 .. n)
  <2>1. rank \in Injection(last, 1 .. n)
    <3> HIDE DEF upTo, last, n
    <3> QED BY <1>3, <1>5 DEF Injection, IsInjective
  <2>2. IsFiniteSet(1 .. n) /\ Cardinality(1 .. n) = n
    BY <1>2, FS_Interval
  <2> HIDE DEF rank, last
  <2> QED BY <2>1, <2>2, FS_Injection
<1>7. \A k \in 1 .. n : at(k) \in last /\ Cardinality(upTo(at(k))) = k
  <2> SUFFICES ASSUME NEW k \in 1 .. n PROVE \E i \in last : Cardinality(upTo(i)) = k
    OBVIOUS
  <2> HIDE DEF upTo, last, n
  <2> QED BY <1>6 DEF Surjection
<1>8. LastPerPath(s) = [k \in 1 .. n |-> s[at(k)]]
  BY DEF LastPerPath
<1>9. \A i \in last : Cardinality(upTo(i)) \in 1 .. n /\ at(Cardinality(upTo(i))) = i
  <2> HIDE DEF upTo, last, n
  <2> QED BY <1>3, <1>5, <1>7
<1>10. \A i \in last : i \in DOMAIN s /\ \A j \in DOMAIN s : i < j => s[j].path # s[i].path
  BY <1>1
<1> DEFINE q == LastPerPath(s)
<1> HIDE DEF upTo, n, at, q
<1>11. q \in Seq(Edit) /\ DOMAIN q = 1 .. n /\ \A k \in 1 .. n : q[k] = s[at(k)]
  <2>1. \A k \in 1 .. n : s[at(k)] \in Edit
    BY <1>7, <1>10, <1>1
  <2> QED BY <2>1, <1>8, <1>2 DEF q
<1>12. Touched(q) \subseteq Touched(s)
  BY <1>11, <1>7, <1>10 DEF Touched
<1>13. ASSUME NEW p \in Touched(s) PROVE p \in Touched(q)
  <2> DEFINE S == {j \in DOMAIN s : s[j].path = p}
  <2>1. S \in SUBSET (1 .. Len(s)) /\ S # {}
    BY <1>1, <1>13 DEF Touched
  <2>2. PICK i \in S : \A j \in S : j <= i
    BY <2>1, <1>1, LastPlace
  <2>3. i \in last /\ s[i].path = p
    BY <2>2, <1>1
  <2>4. PICK k \in 1 .. n : q[k] = s[i]
    BY <2>3, <1>9, <1>11
  <2> QED BY <2>3, <2>4, <1>11 DEF Touched
<1>14. ASSUME NEW p, DeletedLast(q, p) PROVE DeletedLast(s, p)
  <2>1. PICK k \in 1 .. n : q[k].path = p /\ q[k].kind = "deleted"
    BY <1>14, <1>11 DEF DeletedLast
  <2>2. at(k) \in last /\ s[at(k)] = q[k]
    BY <1>7, <1>11
  <2> QED BY <2>1, <2>2, <1>10 DEF DeletedLast
<1> QED BY <1>11, <1>12, <1>13, <1>14 DEF q

-------------------------------------------------------------------------------
(* Types and write.lock *)

LEMMA InitTypes == Init => TypeInv
<1> SUFFICES ASSUME Init PROVE TypeInv
  OBVIOUS
<1>1. disk \in Snapshot /\ handle \in Snapshot
  BY BoundAssumption DEF Init, Snapshot
<1>2. <<>> \in Seq(Edit)
  OBVIOUS
<1>3. mem \in [Thread -> Locals]
  BY <1>1, <1>2 DEF Init, Locals
<1>4. Types
  BY <1>1, <1>2, <1>3 DEF Init, Types, Places
<1>5. Locked
  BY NobodyAssumption DEF Init, Locked, Holding
<1> QED BY <1>4, <1>5 DEF TypeInv

\* What a step of t leaves to the other threads.
OnlyOf(t) == /\ \A s \in Thread : s # t => pc'[s] = pc[s] /\ mem'[s] = mem[s]
             /\ writer' = writer \/ (writer \in {t, Nobody} /\ writer' \in {t, Nobody})
             /\ pc'[t] \in Holding <=> writer' = t

LEMMA ThreadTypes ==
  ASSUME TypeInv, NEW t \in Thread, ThreadStep(t)
  PROVE  Types' /\ OnlyOf(t)
<1> USE NobodyAssumption DEF TypeInv, Types
<1> DEFINE Typed == /\ tree' \in Map /\ dirty' \in SUBSET Path /\ handle' \in Snapshot
                    /\ disk' \in Snapshot /\ writer' \in Thread \cup {Nobody}
                    /\ pc' \in [Thread -> Places] /\ pending' \in Seq(Edit)
                    /\ mem' \in [Thread -> Locals]
<1>1. /\ pc[t] \in Places /\ mem[t] \in Locals
      /\ mem[t].snap \in Snapshot /\ mem[t].drained \in Seq(Edit)
      /\ mem[t].then \in {"idle", "capture"} /\ <<>> \in Seq(Edit)
      /\ pc[t] \in Holding <=> writer = t
  BY DEF Locals, Locked
<1>2. \A l \in Locals : [mem EXCEPT ![t] = l] \in [Thread -> Locals]
  OBVIOUS
<1>3. \A s \in Snapshot : [mem[t] EXCEPT !.snap = s] \in Locals
  BY <1>1 DEF Locals
<1>4. ASSUME CommitCall(t) PROVE Typed /\ OnlyOf(t)
  BY <1>1, <1>4 DEF CommitCall, Goto, OnlyOf, Places, Locals, Holding
<1>5. ASSUME Lock(t) PROVE Typed /\ OnlyOf(t)
  BY <1>1, <1>5, SMTT(30) DEF Lock, Goto, OnlyOf, Places, Locals, Holding
<1>6. ASSUME Load(t) PROVE Typed /\ OnlyOf(t)
  BY <1>1, <1>6 DEF Load, Goto, OnlyOf, Places, Locals, Holding
<1>7. ASSUME Take(t) PROVE Typed /\ OnlyOf(t)
  BY <1>1, <1>7 DEF Take, Goto, OnlyOf, Places, Locals, Holding
<1>8. ASSUME Read(t) PROVE Typed /\ OnlyOf(t)
  <2>1. Applied(mem[t].snap.map, mem[t].drained) \in Map
    BY <1>1 DEF Applied, Map, File, Snapshot
  <2>2. [mem[t].snap EXCEPT !.map = Applied(mem[t].snap.map, mem[t].drained)] \in Snapshot
    BY <2>1, <1>1 DEF Snapshot
  <2>3. CASE pc'[t] = "store"
    <3>1. mem' = [mem EXCEPT ![t] = [mem[t] EXCEPT !.snap =
                     [mem[t].snap EXCEPT !.map = Applied(mem[t].snap.map, mem[t].drained)]]]
      BY <2>3, <1>1, <1>8 DEF Read, Goto
    <3>2. mem' \in [Thread -> Locals]
      BY <3>1, <2>2, <1>2, <1>3
    <3>3. \A s \in Thread : s # t => mem'[s] = mem[s]
      BY <3>1
    <3> QED BY <1>1, <3>2, <3>3, <2>3, <1>8 DEF Read, Goto, OnlyOf, Places, Holding
  <2>4. CASE pc'[t] # "store"
    BY <1>1, <2>4, <1>8 DEF Read, Goto, OnlyOf, Places, Locals, Holding
  <2> QED BY <2>3, <2>4
<1>9. ASSUME Store(t) PROVE Typed /\ OnlyOf(t)
  BY <1>1, <1>9 DEF Store, Goto, OnlyOf, Places, Locals, Holding
<1>10. ASSUME Requeue(t) PROVE Typed /\ OnlyOf(t)
  <2>1. pending' \in Seq(Edit)
    BY <1>1, <1>10, InARow, LastPerPathLemma DEF Requeue, Requeued
  <2> QED BY <1>1, <2>1, <1>10 DEF Requeue, Goto, OnlyOf, Places, Locals, Holding
<1>11. ASSUME FlushCall(t) PROVE Typed /\ OnlyOf(t)
  BY <1>1, <1>11 DEF FlushCall, Goto, OnlyOf, Places, Locals, Holding
<1>12. ASSUME Capture(t) PROVE Typed /\ OnlyOf(t)
  <2>1. CASE pc'[t] = "idle"
    BY <1>1, <2>1, <1>12, ZenonT(30) DEF Capture, Goto, OnlyOf, Places, Locals, Holding
  <2>2. CASE pc'[t] # "idle"
    <3>1. mem' = [mem EXCEPT ![t] = [mem[t] EXCEPT !.snap = handle]]
      BY <2>2, <1>1, <1>12 DEF Capture, Goto
    <3>2. mem' \in [Thread -> Locals]
      BY <3>1, <1>2, <1>3
    <3>3. \A s \in Thread : s # t => mem'[s] = mem[s]
      BY <3>1
    <3> QED BY <1>1, <3>2, <3>3, <2>2, <1>12 DEF Capture, Goto, OnlyOf, Places, Holding
  <2> QED BY <2>1, <2>2
<1>13. ASSUME Write(t) PROVE Typed /\ OnlyOf(t)
  <2>1. ASSUME Publish(t, mem[t].snap.map) PROVE Typed /\ OnlyOf(t)
    <3>1. disk' \in Snapshot
      BY <1>1, <2>1, BoundAssumption DEF Publish, Snapshot
    <3>2. mem' = mem \/ mem' = [mem EXCEPT ![t] = [mem[t] EXCEPT !.snap = disk']]
      BY <2>1 DEF Publish
    <3>3. mem' \in [Thread -> Locals]
      BY <3>1, <3>2, <1>2, <1>3
    <3>4. \A s \in Thread : s # t => mem'[s] = mem[s]
      BY <3>2
    <3>5. pc' = [pc EXCEPT ![t] = "install"] \/ pc' = [pc EXCEPT ![t] = "idle"]
      BY <2>1 DEF Publish, Goto
    <3> QED BY <1>1, <3>1, <3>3, <3>4, <3>5, <1>13 DEF Write, OnlyOf, Places, Holding
  <2>2. ASSUME UNCHANGED <<disk, mem>>, Goto(t, "idle") PROVE Typed /\ OnlyOf(t)
    BY <1>1, <2>2, <1>13 DEF Write, Goto, OnlyOf, Places, Locals, Holding
  <2> QED BY <2>1, <2>2, <1>13 DEF Write
<1>14. ASSUME RebuildCall(t) PROVE Typed /\ OnlyOf(t)
  BY <1>1, <1>14 DEF RebuildCall, Goto, OnlyOf, Places, Locals, Holding
<1>15. ASSUME Build(t) PROVE Typed /\ OnlyOf(t)
  <2>1. ASSUME Publish(t, tree) PROVE Typed /\ OnlyOf(t)
    <3>1. disk' \in Snapshot
      BY <1>1, <2>1, BoundAssumption DEF Publish, Snapshot
    <3>2. mem' = mem \/ mem' = [mem EXCEPT ![t] = [mem[t] EXCEPT !.snap = disk']]
      BY <2>1 DEF Publish
    <3>3. mem' \in [Thread -> Locals]
      BY <3>1, <3>2, <1>2, <1>3
    <3>4. \A s \in Thread : s # t => mem'[s] = mem[s]
      BY <3>2
    <3>5. pc' = [pc EXCEPT ![t] = "install"] \/ pc' = [pc EXCEPT ![t] = "idle"]
      BY <2>1 DEF Publish, Goto
    <3> QED BY <1>1, <3>1, <3>3, <3>4, <3>5, <1>15 DEF Build, OnlyOf, Places, Holding
  <2>2. ASSUME UNCHANGED <<disk, mem>>, Goto(t, "idle") PROVE Typed /\ OnlyOf(t)
    BY <1>1, <2>2, <1>15 DEF Build, Goto, OnlyOf, Places, Locals, Holding
  <2> QED BY <2>1, <2>2, <1>15 DEF Build
<1>16. ASSUME InstallTake(t) PROVE Typed /\ OnlyOf(t)
  BY <1>1, <1>16 DEF InstallTake, Goto, OnlyOf, Places, Locals, Holding
<1>17. ASSUME Swap(t) PROVE Typed /\ OnlyOf(t)
  BY <1>1, <1>17 DEF Swap, Goto, OnlyOf, Places, Locals, Holding
<1>18. ASSUME Renotify(t) PROVE Typed /\ OnlyOf(t)
  <2>1. CASE mem[t].drained # <<>>
    <3>1. Head(mem[t].drained) \in Edit /\ Tail(mem[t].drained) \in Seq(Edit)
      BY <1>1, <2>1, TouchedOfTail
    <3>2. Tail(mem[t].drained) \in Seq(Edit) /\ pending' \in Seq(Edit)
      BY <3>1, <2>1, <1>18, TouchedOfAppend DEF Renotify
    <3>3. [mem[t] EXCEPT !.drained = Tail(mem[t].drained)] \in Locals
      BY <3>2, <1>1 DEF Locals
    <3>4. mem' = [mem EXCEPT ![t] = [mem[t] EXCEPT !.drained = Tail(mem[t].drained)]]
      BY <2>1, <1>18 DEF Renotify
    <3>5. mem' \in [Thread -> Locals]
      BY <3>3, <3>4, <1>2
    <3>6. \A s \in Thread : s # t => mem'[s] = mem[s]
      BY <3>4
    <3> QED BY <1>1, <2>1, <3>2, <3>5, <3>6, <1>18 DEF Renotify, OnlyOf, Places, Holding
  <2>2. CASE mem[t].drained = <<>>
    BY <1>1, <2>2, <1>18 DEF Renotify, Goto, OnlyOf, Places, Locals, Holding
  <2> QED BY <2>1, <2>2
<1>19. /\ use' = use /\ Seq(Edit)' = Seq(Edit) /\ Map' = Map /\ Snapshot' = Snapshot
       /\ [Thread -> Locals]' = [Thread -> Locals]
  <2>1. use' = use
    BY DEF ThreadStep, CommitCall, Lock, Load, Take, Read, Store, Requeue, FlushCall, Capture,
           Write, RebuildCall, Build, InstallTake, Swap, Renotify
  <2> QED BY <2>1 DEF Edit, Locals, Snapshot, Map, File
<1>20. Typed /\ OnlyOf(t)
  BY <1>4, <1>5, <1>6, <1>7, <1>8, <1>9, <1>10, <1>11, <1>12, <1>13, <1>14, <1>15, <1>16, <1>17,
     <1>18 DEF ThreadStep
<1> QED BY <1>19, <1>20

LEMMA StepTypes ==
  ASSUME TypeInv, [Next]_vars
  PROVE  TypeInv'
<1> USE DEF TypeInv, Types
<1>1. CASE UNCHANGED vars
  BY <1>1 DEF vars, Locked, Locals, Snapshot, Map, File, Edit, Holding
<1>2. ASSUME NEW p \in Path, NEW f \in File, Touch(p, f) PROVE TypeInv'
  BY <1>2 DEF Touch, Locked, Locals, Snapshot, Map, File, Edit, Holding
<1>3. ASSUME NEW p \in Path, NEW k \in use.kinds, Notify(p, k) PROVE TypeInv'
  <2>1. [path |-> p, kind |-> k] \in Edit
    BY DEF Edit
  <2>2. pending' \in Seq(Edit)
    BY <2>1, <1>3, TouchedOfAppend DEF Notify
  <2>3. Edit' = Edit
    BY <1>3 DEF Notify, Edit
  <2> QED BY <2>2, <2>3, <1>3 DEF Notify, Locked, Locals, Snapshot, Map, File, Holding
<1>4. ASSUME NEW t \in Thread, ThreadStep(t) PROVE TypeInv'
  <2>1. Types' /\ OnlyOf(t)
    BY <1>4, ThreadTypes
  <2>2. ASSUME NEW s \in Thread PROVE pc'[s] \in Holding <=> writer' = s
    <3>1. pc[s] \in Holding <=> writer = s
      BY DEF Locked
    <3> QED BY <2>1, <3>1, NobodyAssumption DEF OnlyOf
  <2>3. Locked'
    BY <2>2 DEF Locked, Holding
  <2> QED BY <2>1, <2>3
<1> QED BY <1>1, <1>2, <1>3, <1>4 DEF Next

\* Whatever the use, write.lock is held by the thread that is inside it and by no other,
\* and what every thread keeps between its steps is of its type.
THEOREM LocksAreHeld == Spec => []TypeOK
<1>1. TypeInv => TypeOK
  <2> SUFFICES ASSUME TypeInv PROVE TypeOK
    OBVIOUS
  <2> USE DEF TypeInv, Types
  <2>1. \A q \in Seq(Edit) : \A i \in DOMAIN q : q[i] \in Edit
    OBVIOUS
  <2>2. ASSUME NEW t \in Thread
        PROVE  /\ mem[t].snap \in Snapshot /\ mem[t].then \in {"idle", "capture"}
               /\ mem[t].drained \in Seq(Edit)
    BY DEF Locals
  <2> QED BY <2>1, <2>2 DEF TypeOK, Locked, Places
<1> QED BY <1>1, InitTypes, StepTypes, PTL DEF Spec

-------------------------------------------------------------------------------
(* Who else is at work *)

\* A maintainer at work is alone, and no deletion was ever notified.
LEMMA Sole ==
  ASSUME TypeInv, Roles, Separate(use), NEW t \in Thread, pc[t] \notin Committing \cup {"idle"}
  PROVE  use.kinds = {"changed"} /\ \A s \in Thread : s # t => pc[s] = "idle"
BY DEF Roles, Role, Separate

\* What is in hand while t holds write.lock, t holds.
LEMMA InItsHand ==
  ASSUME TypeInv, Roles, Emptied, Separate(use), NEW t \in Thread, pc[t] \in Holding,
         NEW p, InHand(p)
  PROVE  p \in Touched(mem[t].drained)
<1>1. PICK s \in Thread : \/ p \in Touched(mem[s].drained)
                          \/ pc[s] \in {"install", "swap"} /\ mem[s].snap.map[p] = tree[p]
  BY DEF InHand
<1>2. pc[s] \in {"read", "store", "requeue", "swap", "renotify", "install"}
  BY <1>1 DEF Emptied, Touched
<1>3. s = t
  <2> SUFFICES ASSUME s # t PROVE FALSE
    OBVIOUS
  <2>1. pc[s] \notin Holding
    BY DEF TypeInv, Locked
  <2>2. pc[s] \in {"swap", "renotify", "install"}
    BY <2>1, <1>2 DEF Holding
  <2>3. pc[t] = "idle"
    BY <2>2, Sole DEF Committing
  <2> QED BY <2>3 DEF Holding
<1> QED BY <1>1, <1>3 DEF Holding

\* A step before a thread drains the buffer leaves every edit where it was.
LEMMA Quiet ==
  ASSUME EditsInv, NEW t \in Thread, OnlyOf(t), UNCHANGED <<use, tree, dirty, pending, handle>>,
         pc[t] \in {"idle", "lock", "load", "capture", "write", "build"},
         pc'[t] \notin {"read", "store", "requeue", "swap", "renotify"},
         mem'[t].drained = mem[t].drained,
         Role(t)',
         pc'[t] \in {"take", "write"} => mem'[t].snap.map = handle.map,
         pc'[t] = "install" =>
            \A p \in Path \ dirty : mem'[t].snap.map[p] = tree[p] \/ p \in Touched(pending)
  PROVE  Kept'
<1> USE DEF EditsInv, Kept, OnlyOf
<1>1. mem[t].drained = <<>>
  BY DEF Emptied
<1>2. Roles'
  BY DEF Roles, Role
<1>3. Loads' /\ Emptied'
  BY <1>1 DEF Loads, Emptied
<1>4. Erased'
  BY DEF Erased, DeletedLast, Touched
<1>5. Coming'
  BY DEF Coming, Touched
<1>6. \A p : InHand(p) => InHand(p)'
  BY DEF InHand, Touched
<1>7. NoEditDropped'
  BY <1>6 DEF NoEditDropped, Touched
<1> QED BY <1>2, <1>3, <1>4, <1>5, <1>7

-------------------------------------------------------------------------------
(* Every step keeps every edit *)

\* Before a commit drains, and while a maintainer writes or builds.
LEMMA QuietSteps ==
  ASSUME EditsInv, Separate(use), NEW t \in Thread, OnlyOf(t),
         CommitCall(t) \/ Lock(t) \/ Load(t) \/ FlushCall(t) \/ Capture(t) \/ Write(t)
         \/ RebuildCall(t) \/ Build(t)
  PROVE  Kept'
<1> DEFINE Goal ==
       /\ UNCHANGED <<use, tree, dirty, pending, handle>>
       /\ pc[t] \in {"idle", "lock", "load", "capture", "write", "build"}
       /\ pc'[t] \notin {"read", "store", "requeue", "swap", "renotify"}
       /\ mem'[t].drained = mem[t].drained
       /\ Role(t)'
       /\ pc'[t] \in {"take", "write"} => mem'[t].snap.map = handle.map
       /\ pc'[t] = "install" =>
            \A p \in Path \ dirty : mem'[t].snap.map[p] = tree[p] \/ p \in Touched(pending)
<1>1. /\ mem \in [Thread -> Locals] /\ pc \in [Thread -> Places] /\ mem[t] \in Locals
      /\ handle \in Snapshot /\ disk \in Snapshot /\ mem[t].snap \in Snapshot
  BY DEF EditsInv, TypeInv, Types, Locals
<1>2. Role(t)
  BY DEF EditsInv, Kept, Roles
<1>3. ASSUME CommitCall(t) PROVE Goal
  BY <1>1, <1>2, <1>3 DEF CommitCall, Goto, Role, Locals, Committing
<1>4. ASSUME Lock(t) PROVE Goal
  BY <1>1, <1>2, <1>4 DEF Lock, Goto, Role, Locals, Committing
<1>5. ASSUME Load(t) PROVE Goal
  BY <1>1, <1>2, <1>5 DEF Load, Goto, Role, Locals, Committing
<1>6. ASSUME FlushCall(t) PROVE Goal
  BY <1>1, <1>2, <1>6 DEF FlushCall, Goto, Role, Locals, Committing
<1>7. ASSUME Capture(t) PROVE Goal
  BY <1>1, <1>2, <1>7 DEF Capture, Goto, Role, Locals, Committing
<1>8. ASSUME RebuildCall(t) PROVE Goal
  BY <1>1, <1>2, <1>8 DEF RebuildCall, Goto, Role, Locals, Committing
<1>9. ASSUME NEW map, Publish(t, map)
      PROVE  /\ mem'[t].drained = mem[t].drained /\ mem'[t].then = mem[t].then
             /\ \/ pc'[t] = "install" /\ mem'[t].snap.map = map
                \/ pc'[t] = "idle"
  <2>1. disk'.map = map
    BY <1>9 DEF Publish
  <2>2. CASE mem' = [mem EXCEPT ![t].snap = disk'] /\ Goto(t, "install")
    BY <2>1, <2>2, <1>1 DEF Goto, Locals
  <2>3. CASE UNCHANGED mem /\ Goto(t, "idle")
    BY <2>3, <1>1 DEF Goto
  <2> QED BY <2>2, <2>3, <1>9 DEF Publish
<1>10. ASSUME Write(t) PROVE Goal
  <2>1. \A p \in Path \ dirty : mem[t].snap.map[p] = tree[p] \/ p \in Touched(pending)
    <3> SUFFICES ASSUME NEW p \in Path \ dirty, handle.map[p] # tree[p], p \notin Touched(pending)
                 PROVE  FALSE
      BY <1>10 DEF EditsInv, Kept, Loads, Write
    <3>1. InHand(p)
      BY DEF EditsInv, Kept, NoEditDropped
    <3>2. p \in Touched(mem[t].drained)
      BY <3>1, <1>10, InItsHand DEF EditsInv, Kept, Write, Holding
    <3> QED BY <3>2, <1>10 DEF EditsInv, Kept, Emptied, Touched, Write
  <2>2. CASE Publish(t, mem[t].snap.map)
    BY <2>1, <2>2, <1>9, <1>1, <1>2, <1>10 DEF Write, Role, Committing
  <2>3. CASE UNCHANGED mem /\ Goto(t, "idle")
    BY <2>3, <1>1, <1>2, <1>10 DEF Write, Goto, Role, Committing
  <2> QED BY <2>2, <2>3, <1>10 DEF Write
<1>11. ASSUME Build(t) PROVE Goal
  <2>1. CASE Publish(t, tree)
    BY <2>1, <1>9, <1>1, <1>2, <1>11 DEF Build, Role, Committing
  <2>2. CASE UNCHANGED mem /\ Goto(t, "idle")
    BY <2>2, <1>1, <1>2, <1>11 DEF Build, Goto, Role, Committing
  <2> QED BY <2>1, <2>2, <1>11 DEF Build
<1>12. Goal
  BY <1>3, <1>4, <1>5, <1>6, <1>7, <1>8, <1>10, <1>11
<1> QED BY <1>12, Quiet

\* Draining under write.lock: what was buffered is in hand.
LEMMA TakeStep ==
  ASSUME EditsInv, Separate(use), NEW t \in Thread, OnlyOf(t), Take(t)
  PROVE  Kept'
<1> USE DEF EditsInv, Kept, OnlyOf
<1>1. /\ mem \in [Thread -> Locals] /\ pc \in [Thread -> Places] /\ mem[t] \in Locals
      /\ pending \in Seq(Edit)
  BY DEF TypeInv, Types
<1>2. /\ pc[t] = "take" /\ pc'[t] = "read"
      /\ mem'[t].snap = mem[t].snap /\ mem'[t].then = mem[t].then
      /\ mem'[t].drained = pending /\ pending' = <<>> /\ mem[t].drained = <<>>
      /\ UNCHANGED <<use, tree, dirty, handle>>
  BY <1>1 DEF Take, Goto, Locals, Emptied
<1>3. \A s \in Thread : s # t => pc[s] \notin Holding
  BY <1>2 DEF TypeInv, Locked, Holding
<1>4. \A s \in Thread : s # t => pc[s] \in Committing \cup {"idle"}
  BY <1>2, Sole
<1>5. Touched(pending') = {} /\ \A p : ~DeletedLast(pending', p)
  BY <1>2 DEF Touched, DeletedLast
<1>6. Roles' /\ Loads' /\ Emptied'
  BY <1>2 DEF Roles, Role, Loads, Emptied, Committing
<1>7. Erased'
  BY <1>2, <1>3, <1>5 DEF Erased, Holding
<1>8. Coming'
  BY <1>2, <1>3, <1>4 DEF Coming, Holding, Committing
<1>9. ASSUME NEW p, InHand(p) \/ p \in Touched(pending) PROVE InHand(p)'
  <2>1. CASE p \in Touched(pending)
    BY <2>1, <1>2 DEF InHand, Touched
  <2>2. CASE InHand(p)
    BY <2>2, <1>2 DEF InHand, Touched
  <2> QED BY <2>1, <2>2, <1>9
<1>10. NoEditDropped'
  BY <1>2, <1>9 DEF NoEditDropped
<1> QED BY <1>6, <1>7, <1>8, <1>10

\* Reading: the new map is of the drained edits, over the snapshot that searches load.
LEMMA ReadStep ==
  ASSUME EditsInv, Separate(use), NEW t \in Thread, OnlyOf(t), Read(t)
  PROVE  Kept'
<1> USE DEF EditsInv, Kept, OnlyOf
<1> DEFINE d == mem[t].drained
<1>1. /\ mem \in [Thread -> Locals] /\ pc \in [Thread -> Places] /\ mem[t] \in Locals
      /\ d \in Seq(Edit) /\ mem[t].snap \in Snapshot /\ use \in Uses
  BY DEF TypeInv, Types, Locals
<1>2. /\ pc[t] = "read" /\ mem'[t].then = mem[t].then /\ mem'[t].drained = d
      /\ \/ pc'[t] = "store" /\ mem'[t].snap.map = Applied(mem[t].snap.map, d)
         \/ pc'[t] = "requeue"
      /\ UNCHANGED <<use, tree, dirty, pending, handle>>
  BY <1>1 DEF Read, Goto, Locals, Snapshot
<1>3. \A s \in Thread : s # t => pc[s] \notin Holding
  BY <1>2 DEF TypeInv, Locked, Holding
<1>4. Roles' /\ Loads' /\ Emptied'
  BY <1>2 DEF Roles, Role, Loads, Emptied, Committing
<1>5. Erased'
  BY <1>2 DEF Erased, DeletedLast, Touched
<1>6. ASSUME NEW p \in Path \ dirty, p \notin Touched(pending)
      PROVE  Applied(mem[t].snap.map, d)[p] = tree[p]
  <2>1. CASE p \notin Touched(d)
    <3>1. mem[t].snap.map[p] = tree[p]
      <4> SUFFICES ASSUME handle.map[p] # tree[p] PROVE FALSE
        BY <1>2 DEF Loads
      <4>1. InHand(p)
        BY <1>6 DEF NoEditDropped
      <4> QED BY <4>1, <2>1, <1>2, InItsHand DEF Holding
    <3> QED BY <3>1, <2>1 DEF Applied
  <2>2. CASE p \in Touched(d) /\ LastKind(d, p) = "changed"
    BY <2>2 DEF Applied
  <2>3. CASE p \in Touched(d) /\ LastKind(d, p) # "changed"
    <3>1. LastKind(d, p) = "deleted" /\ DeletedLast(d, p)
      BY <2>3, <1>1, LastKindLemma, UseAssumption
    <3>2. tree[p] = Absent
      BY <3>1, <1>2, <1>6 DEF Erased
    <3> QED BY <3>2, <2>3 DEF Applied
  <2> QED BY <2>1, <2>2, <2>3
<1>7. Coming'
  BY <1>2, <1>6 DEF Coming, Touched
<1>8. \A p : InHand(p) => InHand(p)'
  BY <1>2 DEF InHand, Touched
<1>9. NoEditDropped'
  BY <1>2, <1>8 DEF NoEditDropped, Touched
<1> QED BY <1>4, <1>5, <1>7, <1>9

\* Publishing: what the new snapshot does not have was notified since.
LEMMA StoreStep ==
  ASSUME EditsInv, Separate(use), NEW t \in Thread, OnlyOf(t), Store(t)
  PROVE  Kept'
<1> USE DEF EditsInv, Kept, OnlyOf
<1>1. /\ mem \in [Thread -> Locals] /\ pc \in [Thread -> Places] /\ mem[t] \in Locals
      /\ mem[t].then \in {"idle", "capture"}
  BY DEF TypeInv, Types, Locals
<1>2. /\ pc[t] = "store" /\ pc'[t] = mem[t].then /\ mem'[t].then = mem[t].then
      /\ mem'[t].drained = <<>> /\ handle' = mem[t].snap
      /\ UNCHANGED <<use, tree, dirty, pending>>
  BY <1>1 DEF Store, Goto, Locals
<1>3. \A s \in Thread : s # t => pc[s] \notin Holding
  BY <1>2 DEF TypeInv, Locked, Holding
<1>4. \A s \in Thread : s # t => pc[s] \in Committing \cup {"idle"}
  BY <1>2, Sole
<1>5. Roles' /\ Loads' /\ Emptied'
  BY <1>1, <1>2, <1>3 DEF Roles, Role, Loads, Emptied, Committing, Holding
<1>6. Erased'
  BY <1>1, <1>2, <1>3 DEF Erased, DeletedLast, Touched, Holding
<1>7. Coming'
  BY <1>1, <1>2, <1>3, <1>4 DEF Coming, Holding, Committing
<1>8. NoEditDropped'
  BY <1>2 DEF NoEditDropped, Coming, Touched
<1> QED BY <1>5, <1>6, <1>7, <1>8

\* A batch that fails puts its edits before those that came since.
LEMMA RequeueStep ==
  ASSUME EditsInv, Separate(use), NEW t \in Thread, OnlyOf(t), Requeue(t)
  PROVE  Kept'
<1> USE DEF EditsInv, Kept, OnlyOf
<1> DEFINE d == mem[t].drained
<1>1. /\ mem \in [Thread -> Locals] /\ pc \in [Thread -> Places] /\ mem[t] \in Locals
      /\ d \in Seq(Edit) /\ pending \in Seq(Edit)
  BY DEF TypeInv, Types, Locals
<1>2. /\ pc[t] = "requeue" /\ pc'[t] = "idle" /\ mem'[t].drained = <<>>
      /\ UNCHANGED <<use, tree, dirty, handle>>
  BY <1>1 DEF Requeue, Goto, Locals
<1>3. /\ Touched(pending') = Touched(d) \cup Touched(pending)
      /\ \A p : DeletedLast(pending', p) =>
            DeletedLast(pending, p) \/ (p \notin Touched(pending) /\ DeletedLast(d, p))
  <2>1. CASE d = <<>>
    BY <2>1 DEF Requeue, Touched
  <2>2. CASE d # <<>>
    <3>1. pending' = LastPerPath(d \o pending)
      BY <2>2 DEF Requeue, Requeued
    <3> HIDE DEF d
    <3> QED BY <3>1, <1>1, InARow, LastPerPathLemma
  <2> QED BY <2>1, <2>2
<1>4. \A s \in Thread : s # t => pc[s] \notin Holding
  BY <1>2 DEF TypeInv, Locked, Holding
<1>5. Roles' /\ Loads' /\ Emptied'
  BY <1>2 DEF Roles, Role, Loads, Emptied, Committing
<1>6. ASSUME NEW p \in Path \ dirty, DeletedLast(pending', p) PROVE tree[p] = Absent
  BY <1>2, <1>3, <1>6 DEF Erased
<1>7. Erased'
  BY <1>2, <1>4, <1>6 DEF Erased, Holding
<1>8. Coming'
  BY <1>2, <1>3 DEF Coming
<1>9. ASSUME NEW p, InHand(p) PROVE p \in Touched(pending') \/ InHand(p)'
  <2>1. CASE p \in Touched(d)
    BY <2>1, <1>3
  <2>2. CASE p \notin Touched(d)
    BY <2>2, <1>2, <1>9 DEF InHand, Touched
  <2> QED BY <2>1, <2>2
<1>10. NoEditDropped'
  BY <1>2, <1>3, <1>9 DEF NoEditDropped
<1> QED BY <1>5, <1>7, <1>8, <1>10

\* Installing a rebuilt index: drain, swap, and notify again.
LEMMA InstallSteps ==
  ASSUME EditsInv, Separate(use), NEW t \in Thread, OnlyOf(t), InstallTake(t) \/ Swap(t) \/ Renotify(t)
  PROVE  Kept'
<1> USE DEF EditsInv, Kept, OnlyOf
<1> DEFINE d == mem[t].drained
<1>1. /\ mem \in [Thread -> Locals] /\ pc \in [Thread -> Places] /\ mem[t] \in Locals
      /\ d \in Seq(Edit) /\ pending \in Seq(Edit)
  BY DEF TypeInv, Types, Locals
<1>2. /\ pc[t] \in {"install", "swap", "renotify"} /\ pc'[t] \in {"swap", "renotify", "idle"}
      /\ UNCHANGED <<use, tree, dirty>>
  BY <1>1 DEF InstallTake, Swap, Renotify, Goto
<1>3. use.kinds = {"changed"} /\ \A s \in Thread : s # t => pc[s] = "idle" /\ pc'[s] = "idle"
  BY <1>2, Sole DEF Committing
<1>4. Roles'
  BY <1>2, <1>3 DEF Roles, Role, Committing
<1>5. CASE InstallTake(t)
  <2>1. /\ pc[t] = "install" /\ pc'[t] = "swap" /\ mem'[t].snap = mem[t].snap /\ d = <<>>
        /\ mem'[t].drained = pending /\ pending' = <<>> /\ handle' = handle
    BY <1>1, <1>5 DEF InstallTake, Goto, Locals, Emptied
  <2>2. Loads' /\ Emptied'
    BY <1>3, <2>1 DEF Loads, Emptied
  <2>3. Erased'
    BY <1>2, <1>3, <2>1 DEF Erased, DeletedLast
  <2>4. Coming'
    BY <1>2, <1>3, <2>1 DEF Coming, Touched
  <2>5. ASSUME NEW p, InHand(p) \/ p \in Touched(pending) PROVE InHand(p)'
    <3>1. CASE p \in Touched(pending)
      BY <3>1, <2>1 DEF InHand, Touched
    <3>2. CASE InHand(p)
      BY <3>2, <1>2, <2>1 DEF InHand, Touched
    <3> QED BY <3>1, <3>2, <2>5
  <2>6. NoEditDropped'
    BY <1>2, <2>1, <2>5 DEF NoEditDropped
  <2> QED BY <1>4, <2>2, <2>3, <2>4, <2>6
<1>6. CASE Swap(t)
  <2>1. /\ pc[t] = "swap" /\ pc'[t] = "renotify" /\ handle' = mem[t].snap
        /\ UNCHANGED <<pending, mem>>
    BY <1>1, <1>6 DEF Swap, Goto
  <2>2. Loads' /\ Emptied'
    BY <1>3, <2>1 DEF Loads, Emptied
  <2>3. Erased'
    BY <1>2, <1>3, <2>1 DEF Erased, DeletedLast, Touched
  <2>4. Coming'
    BY <1>2, <1>3, <2>1 DEF Coming
  <2>5. ASSUME NEW p \in Path \ dirty, handle'.map[p] # tree[p]
        PROVE  p \in Touched(pending) \/ p \in Touched(d)
    BY <2>1, <2>5 DEF Coming
  <2>6. NoEditDropped'
    BY <1>2, <2>1, <2>5 DEF NoEditDropped, InHand, Touched
  <2> QED BY <1>4, <2>2, <2>3, <2>4, <2>6
<1>7. CASE Renotify(t) /\ d # <<>>
  <2>1. /\ pc[t] = "renotify" /\ pc'[t] = "renotify" /\ mem'[t].drained = Tail(d)
        /\ pending' = Append(pending, Head(d)) /\ handle' = handle
    BY <1>1, <1>7 DEF Renotify, Locals
  <2> HIDE DEF d
  <2>2. /\ Head(d) \in Edit /\ Touched(d) = Touched(Tail(d)) \cup {Head(d).path}
        /\ Touched(pending') = Touched(pending) \cup {Head(d).path}
        /\ \A p : DeletedLast(pending', p) =>
              IF Head(d).path = p THEN Head(d).kind = "deleted" ELSE DeletedLast(pending, p)
    BY <1>1, <1>7, <2>1, TouchedOfTail, TouchedOfAppend
  <2>3. Head(d).kind = "changed"
    BY <1>3, <2>2 DEF Edit
  <2>4. Loads' /\ Emptied'
    BY <1>3, <2>1 DEF Loads, Emptied
  <2>5. ASSUME NEW p \in Path \ dirty, DeletedLast(pending', p) PROVE tree[p] = Absent
    BY <2>2, <2>3, <2>5 DEF Erased
  <2>6. Erased'
    BY <1>2, <1>3, <2>1, <2>5 DEF Erased
  <2>7. Coming'
    BY <1>3, <2>1 DEF Coming
  <2>8. ASSUME NEW p, InHand(p) PROVE p \in Touched(pending') \/ InHand(p)'
    <3>1. CASE p \in Touched(d)
      BY <3>1, <2>1, <2>2 DEF InHand
    <3>2. CASE p \notin Touched(d)
      BY <3>2, <1>2, <2>1, <2>8 DEF InHand, Touched, d
    <3> QED BY <3>1, <3>2
  <2>9. NoEditDropped'
    BY <1>2, <2>1, <2>2, <2>8 DEF NoEditDropped
  <2> QED BY <1>4, <2>4, <2>6, <2>7, <2>9
<1>8. CASE Renotify(t) /\ d = <<>>
  <2>1. /\ pc[t] = "renotify" /\ pc'[t] = "idle" /\ UNCHANGED <<pending, mem, handle>>
    BY <1>1, <1>8 DEF Renotify, Goto
  <2>2. Loads' /\ Emptied'
    BY <1>3, <1>8, <2>1 DEF Loads, Emptied
  <2>3. Erased' /\ Coming'
    BY <1>2, <1>3, <2>1 DEF Erased, Coming, DeletedLast, Touched
  <2>4. \A p : InHand(p) => InHand(p)'
    BY <1>2, <2>1 DEF InHand, Touched
  <2>5. NoEditDropped'
    BY <1>2, <2>1, <2>4 DEF NoEditDropped, Touched
  <2> QED BY <1>4, <2>2, <2>3, <2>5
<1> QED BY <1>5, <1>6, <1>7, <1>8

\* A file is written, or a change of it is notified.
LEMMA TouchStep ==
  ASSUME EditsInv, NEW q \in Path, NEW f \in File, Touch(q, f)
  PROVE  Kept'
<1> USE DEF EditsInv, Kept
<1>1. /\ dirty' = dirty \cup {q}
      /\ \A p \in Path \ dirty' : p \in Path \ dirty /\ tree'[p] = tree[p]
      /\ UNCHANGED <<use, pending, handle, mem, pc>>
  BY DEF Touch, TypeInv, Types, Map
<1>2. Roles' /\ Loads' /\ Emptied'
  BY <1>1 DEF Roles, Role, Loads, Emptied
<1>3. Erased'
  BY <1>1 DEF Erased, DeletedLast, Touched
<1>4. Coming'
  BY <1>1 DEF Coming, Touched
<1>5. \A p \in Path \ dirty' : InHand(p) => InHand(p)'
  BY <1>1 DEF InHand, Touched
<1>6. NoEditDropped'
  BY <1>1, <1>5 DEF NoEditDropped, Touched
<1> QED BY <1>2, <1>3, <1>4, <1>6

LEMMA NotifyStep ==
  ASSUME EditsInv, NEW q \in Path, NEW k \in use.kinds, Notify(q, k)
  PROVE  Kept'
<1> USE DEF EditsInv, Kept
<1> DEFINE e == [path |-> q, kind |-> k]
<1>1. /\ pending' = Append(pending, e)
      /\ k = "deleted" => tree[q] = Absent
      /\ dirty' = dirty \ {q} /\ UNCHANGED <<use, tree, handle, mem, pc>>
  BY DEF Notify
<1>2. e \in Edit /\ e.path = q /\ e.kind = k /\ pending \in Seq(Edit)
  BY DEF TypeInv, Types, Edit
<1> HIDE DEF e
<1>3. /\ Touched(pending') = Touched(pending) \cup {q}
      /\ \A p : DeletedLast(pending', p) => IF e.path = p THEN k = "deleted" ELSE DeletedLast(pending, p)
  BY <1>1, <1>2, TouchedOfAppend
<1>4. Roles' /\ Loads' /\ Emptied'
  BY <1>1 DEF Roles, Role, Loads, Emptied
<1>5. Erased'
  <2>1. ASSUME NEW p \in Path \ dirty', DeletedLast(pending', p) PROVE tree[p] = Absent
    BY <1>1, <1>2, <1>3, <2>1 DEF Erased
  <2>2. ASSUME NEW p \in Path \ dirty', NEW t \in Thread,
               pc[t] = "read" \/ pc[t] = "store" \/ pc[t] = "requeue"
        PROVE  p \in Touched(pending') \/ ~DeletedLast(mem[t].drained, p) \/ tree[p] = Absent
    BY <1>1, <1>3, <2>2 DEF Erased
  <2> QED BY <2>1, <2>2, <1>1 DEF Erased, DeletedLast
<1>6. Coming'
  <2>1. ASSUME NEW p \in Path \ dirty', p \notin Touched(pending')
        PROVE  p \in Path \ dirty /\ p \notin Touched(pending)
    BY <1>1, <1>3, <2>1
  <2> QED BY <2>1, <1>1 DEF Coming, Touched
<1>7. \A p : InHand(p) => InHand(p)'
  BY <1>1 DEF InHand, Touched
<1>8. NoEditDropped'
  BY <1>1, <1>3, <1>7 DEF NoEditDropped
<1> QED BY <1>4, <1>5, <1>6, <1>8

LEMMA StepEditsInv ==
  ASSUME EditsInv, Separate(use), [Next]_vars
  PROVE  EditsInv'
<1>1. TypeInv'
  BY StepTypes DEF EditsInv
<1>2. CASE UNCHANGED vars
  <2>1. UNCHANGED <<use, tree, dirty, pending, handle, pc, mem>>
    BY <1>2 DEF vars
  <2>2. Roles' /\ Loads' /\ Emptied'
    BY <2>1 DEF EditsInv, Kept, Roles, Role, Loads, Emptied
  <2>3. Erased'
    BY <2>1 DEF EditsInv, Kept, Erased, DeletedLast, Touched
  <2>4. Coming'
    BY <2>1 DEF EditsInv, Kept, Coming, Touched
  <2>5. NoEditDropped'
    BY <2>1 DEF EditsInv, Kept, NoEditDropped, InHand, Touched
  <2> QED BY <1>1, <2>2, <2>3, <2>4, <2>5 DEF EditsInv, Kept
<1>3. ASSUME NEW p \in Path, NEW f \in File, Touch(p, f) PROVE Kept'
  BY <1>3, TouchStep
<1>4. ASSUME NEW p \in Path, NEW k \in use.kinds, Notify(p, k) PROVE Kept'
  BY <1>4, NotifyStep
<1>5. ASSUME NEW t \in Thread, ThreadStep(t) PROVE Kept'
  <2>1. OnlyOf(t)
    BY <1>5, ThreadTypes DEF EditsInv
  <2> QED BY <1>5, <2>1, QuietSteps, TakeStep, ReadStep, StoreStep, RequeueStep, InstallSteps
          DEF ThreadStep
<1> QED BY <1>1, <1>2, <1>3, <1>4, <1>5 DEF Next, EditsInv

LEMMA InitEditsInv == Init => EditsInv
<1> SUFFICES ASSUME Init PROVE EditsInv
  OBVIOUS
<1>1. TypeInv
  BY InitTypes
<1>2. \A t \in Thread : pc[t] = "idle" /\ mem[t].drained = <<>>
  BY DEF Init
<1>3. pending = <<>> /\ handle.map = tree
  BY DEF Init
<1>4. Roles /\ Loads /\ Emptied
  BY <1>2 DEF Roles, Role, Loads, Emptied, Committing
<1>5. Erased /\ Coming /\ NoEditDropped
  BY <1>2, <1>3 DEF Erased, DeletedLast, Coming, NoEditDropped
<1> QED BY <1>1, <1>4, <1>5 DEF EditsInv, Kept

\* However many threads commit, or beside one thread that flushes, compacts and rebuilds:
\* an edit that was notified and is not in the snapshot yet is never dropped.  A batch
\* that fails, a rebuilt index that is installed while edits come, and a file that
\* changes between its notification and its reading are all among the steps.
THEOREM EditsKept ==
  ASSUME \A u \in Uses : Separate(u)
  PROVE  Spec => []NoEditDropped
<1>1. EditsInv /\ [Next]_vars => EditsInv'
  BY StepEditsInv DEF EditsInv, TypeInv, Types
<1>2. EditsInv => NoEditDropped
  BY DEF EditsInv, Kept
<1> QED BY InitEditsInv, <1>1, <1>2, PTL DEF Spec

\* What commit_batch promises its callers: once nothing is buffered or running, a search is
\* answered from the current content of every file whose last change was notified.
THEOREM CommittedIsVisible ==
  ASSUME \A u \in Uses : Separate(u)
  PROVE  Spec => []NotifiedIsVisible
<1>1. EditsInv /\ [Next]_vars => EditsInv'
  BY StepEditsInv DEF EditsInv, TypeInv, Types
<1>2. EditsInv => NotifiedIsVisible
  <2> SUFFICES ASSUME EditsInv, Quiescent, NEW p \in Path \ dirty, handle.map[p] # tree[p]
               PROVE  FALSE
    BY DEF NotifiedIsVisible
  <2>1. p \notin Touched(pending) /\ \A t \in Thread : p \notin Touched(mem[t].drained)
    BY DEF Quiescent, EditsInv, Kept, Emptied, Touched
  <2> QED BY <2>1 DEF Quiescent, EditsInv, Kept, NoEditDropped, InHand
<1> QED BY InitEditsInv, <1>1, <1>2, PTL DEF Spec

-------------------------------------------------------------------------------
(* The inductive invariant of handles and objects *)

Called == {"embedder", "counter"}
Gives == {"store", "embedder", "engine", "memory", "index", "chat"} \cup Answers

\* The steps functions are made of.
Steps ==
    [do : {"clone", "callback"}, kind : {None}, of : Nat]
        \cup [do : {"new"}, kind : Called, of : User]
        \cup [do : {"open"}, kind : {"store"}, of : {"writer", "reader"}]
        \cup [do : {"open"}, kind : {"index"}, of : {"shared", "exclusive"}]
        \cup [do : {"work", "read", "build", "publish", "unlock"}, kind : {None}, of : {None}]
        \cup [do : {"edit"}, kind : {None}, of : ChatDoc]

Call == [todo : Seq(Steps), args : SUBSET Nat, held : SUBSET Nat, users : SUBSET User,
         gives : Gives, seen : [ChatDoc -> Nat]]

HostTypes ==
    /\ DOMAIN heap \subseteq 1 .. MaxHeap
    /\ \A a \in DOMAIN heap : heap[a] \in [kind : Gives \ Answers, refs : SUBSET Nat, users : SUBSET User]
    /\ DOMAIN objs \subseteq Nat
    /\ \A o \in DOMAIN objs : /\ objs[o].strong \in Nat \ {0}
                              /\ objs[o] = [kind |-> objs[o].kind, strong |-> objs[o].strong,
                                            user |-> objs[o].user, how |-> objs[o].how]
    /\ calls \in [Caller -> Call]
    /\ locks \subseteq DOMAIN objs

\* How often an object is referred to.
InHeap(o) == {a \in DOMAIN heap : o \in heap[a].refs}
InCalls(o) == {t \in Caller : o \in calls[t].held}
Counted == \A o \in DOMAIN objs : objs[o].strong = Cardinality(InHeap(o)) + Cardinality(InCalls(o))

\* Whoever can reach an object that calls back was made with its userdata.
Reaches(users, o) == objs[o].kind \in Called => objs[o].user \in users
HandleFits(a) == heap[a].users \cap retired = {} /\ \A o \in heap[a].refs : Reaches(heap[a].users, o)

\* A step clones from the arguments, each object once, and makes things only for a function that
\* returns a handle.
StepFits(s, args, held, users, gives) ==
    /\ s.do \in {"clone", "callback"} => \E a \in args : s.of \in heap[a].refs
    /\ s.do = "callback" => objs[s.of].kind \in Called
    /\ s.do = "clone" => s.of \notin held /\ Reaches(users, s.of)
    /\ s.do = "new" => s.of \in users
    /\ s.do \in {"clone", "new", "open"} => gives \notin Answers
    /\ s.do \in {"read", "build", "publish", "unlock"} => gives = "commit"
    /\ s.do = "edit" => gives = "status"
Twice(s, r) == s.do = "clone" /\ r.do = "clone" /\ s.of = r.of
Fits(program, args, held, users, gives) ==
    /\ \A i \in DOMAIN program : StepFits(program[i], args, held, users, gives)
    /\ \A i, j \in DOMAIN program : Twice(program[i], program[j]) => i = j
CallFits(t) ==
    /\ calls[t].args \subseteq DOMAIN heap
    /\ calls[t].users \cap retired = {}
    /\ Fits(calls[t].todo, calls[t].args, calls[t].held, calls[t].users, calls[t].gives)
    /\ calls[t].gives \in Answers => calls[t].held = {}
    /\ \A o \in calls[t].held : Reaches(calls[t].users, o)

HandlesFit == \A a \in DOMAIN heap : HandleFits(a)
CallsFit == \A t \in Caller : CallFits(t)

\* A writer has the lock of its store.
WriterLocks == \A o \in DOMAIN objs : objs[o].how = "writer" => o \in locks /\ objs[o].kind = "store"

HandleInv ==
    /\ HostTypes
    /\ HandlesResolve
    /\ Counted
    /\ HandlesFit
    /\ CallsFit
    /\ WriterLocks
    /\ OneWriter

-------------------------------------------------------------------------------
(* The inductive invariant of the chat index *)

Program == <<Step("read", None, None), Step("build", None, None), Step("publish", None, None),
             Step("unlock", None, None)>>
Left(t) == Len(calls[t].todo)
AtMost(f, g) == \A d \in ChatDoc : f[d] <= g[d]

\* A commit has run a part of its program; from its reading to its unlocking it is a reader, and
\* sees the documents there are.
PartOf(t) == Left(t) <= 4 /\ \A i \in 1 .. Left(t) : calls[t].todo[i] = Program[4 - Left(t) + i]
CommitFits(t) ==
    /\ PartOf(t)
    /\ Left(t) \in 1 .. 3 => t \in chat.readers /\ calls[t].seen = chat.docs
    /\ Left(t) <= 1 => AtMost(calls[t].seen, chat.shown)
    /\ calls[t].args \cap Handles("chat") # {}

ChatTypes ==
    /\ chat.docs \in [ChatDoc -> Nat] /\ chat.shown \in [ChatDoc -> Nat] /\ chat.promised \in [ChatDoc -> Nat]
    /\ chat.readers \in SUBSET Caller /\ chat.edits \in Nat
    /\ chat = [docs |-> chat.docs, shown |-> chat.shown, readers |-> chat.readers, edits |-> chat.edits,
               promised |-> chat.promised]
Ordered ==
    /\ AtMost(chat.promised, chat.shown) /\ AtMost(chat.shown, chat.docs)
    /\ \A d \in ChatDoc : chat.docs[d] <= chat.edits
OneChat ==
    /\ \A a, b \in Handles("chat") : a = b
    /\ \A t \in Caller : calls[t].gives = "chat" =>
           Handles("chat") = {} /\ \A s \in Caller : calls[s].gives = "chat" => s = t
CommitsFit == \A t \in Caller : calls[t].gives = "commit" => CommitFits(t)
ReadersCommit == \A t \in chat.readers : calls[t].gives = "commit" /\ Left(t) \in 1 .. 3

ChatInv == ChatTypes /\ Ordered /\ OneChat /\ CommitsFit /\ ReadersCommit

-------------------------------------------------------------------------------
(* Sequences of steps *)

LEMMA One == ASSUME NEW S, NEW s \in S PROVE <<s>> \in Seq(S) /\ DOMAIN <<s>> = {1} /\ <<s>>[1] = s /\ Len(<<s>>) = 1
  OBVIOUS

LEMMA Two ==
  ASSUME NEW a, NEW b
  PROVE  <<a>> \o <<b>> = <<a, b>> /\ DOMAIN <<a, b>> = {1, 2} /\ <<a, b>>[1] = a /\ <<a, b>>[2] = b
<1> DEFINE S == {a, b}
<1>1. /\ <<a>> \in Seq(S) /\ Len(<<a>>) = 1 /\ <<a>>[1] = a
      /\ <<b>> \in Seq(S) /\ Len(<<b>>) = 1 /\ <<b>>[1] = b
  OBVIOUS
<1>2. <<a, b>> \in Seq(S) /\ Len(<<a, b>>) = 2 /\ DOMAIN <<a, b>> = 1 .. 2 /\ <<a, b>>[1] = a /\ <<a, b>>[2] = b
  OBVIOUS
<1>3. /\ <<a>> \o <<b>> \in Seq(S) /\ Len(<<a>> \o <<b>>) = 2
      /\ (<<a>> \o <<b>>)[1] = a /\ (<<a>> \o <<b>>)[2] = b
  BY <1>1
<1>4. <<a>> \o <<b>> = <<a, b>>
  <2> HIDE DEF S
  <2>1. \A i \in 1 .. 2 : i = 1 \/ i = 2
    OBVIOUS
  <2>2. \A i \in 1 .. Len(<<a>> \o <<b>>) : (<<a>> \o <<b>>)[i] = <<a, b>>[i]
    BY <1>2, <1>3, <2>1, Zenon
  <2>3. QED
    BY <1>2, <1>3, <2>2, SeqEqual, Zenon
<1>5. QED
  BY <1>2, <1>4

LEMMA Popped ==
  ASSUME NEW S, NEW p \in Seq(S), p # <<>>
  PROVE  /\ Tail(p) \in Seq(S) /\ Len(Tail(p)) = Len(p) - 1 /\ Len(p) \in Nat \ {0}
         /\ \A i \in DOMAIN Tail(p) : i + 1 \in DOMAIN p /\ Tail(p)[i] = p[i + 1]
         /\ 1 \in DOMAIN p /\ Head(p) = p[1] /\ Head(p) \in S /\ 1 \notin {i + 1 : i \in DOMAIN Tail(p)}
  OBVIOUS

LEMMA Joined ==
  ASSUME NEW S, NEW p \in Seq(S), NEW q \in Seq(S)
  PROVE  /\ p \o q \in Seq(S)
         /\ \A i \in DOMAIN (p \o q) :
                \/ i \in DOMAIN p /\ (p \o q)[i] = p[i]
                \/ i \notin DOMAIN p /\ i - Len(p) \in DOMAIN q /\ (p \o q)[i] = q[i - Len(p)]
  OBVIOUS

LEMMA FitsJoined ==
  ASSUME NEW p \in Seq(Steps), NEW q \in Seq(Steps), NEW args, NEW held, NEW users, NEW gives,
         Fits(p, args, held, users, gives), Fits(q, args, held, users, gives),
         \A i \in DOMAIN p, j \in DOMAIN q : ~Twice(p[i], q[j])
  PROVE  p \o q \in Seq(Steps) /\ Fits(p \o q, args, held, users, gives)
<1>1. /\ p \o q \in Seq(Steps)
      /\ \A i \in DOMAIN (p \o q) :
             \/ i \in DOMAIN p /\ (p \o q)[i] = p[i]
             \/ i \notin DOMAIN p /\ i - Len(p) \in DOMAIN q /\ (p \o q)[i] = q[i - Len(p)]
  BY Joined
<1>2. \A i \in DOMAIN (p \o q) : StepFits((p \o q)[i], args, held, users, gives)
  BY <1>1, Zenon DEF Fits
<1>3. ASSUME NEW i \in DOMAIN (p \o q), NEW j \in DOMAIN (p \o q), Twice((p \o q)[i], (p \o q)[j])
      PROVE  i = j
  <2>1. DOMAIN (p \o q) = 1 .. Len(p \o q) /\ Len(p) \in Nat /\ Len(p \o q) \in Nat
    BY <1>1
  <2>2. CASE i \in DOMAIN p /\ j \in DOMAIN p
    BY <1>1, <1>3, <2>2, Zenon DEF Fits
  <2>3. CASE i \in DOMAIN p /\ j \notin DOMAIN p
    BY <1>1, <1>3, <2>3, Zenon
  <2>4. CASE i \notin DOMAIN p /\ j \in DOMAIN p
    <3>1. Twice((p \o q)[j], (p \o q)[i])
      BY <1>3 DEF Twice
    <3>2. QED
      BY <1>1, <3>1, <2>4, Zenon
  <2>5. CASE i \notin DOMAIN p /\ j \notin DOMAIN p
    <3>1. i - Len(p) = j - Len(p)
      BY <1>1, <1>3, <2>5, Zenon DEF Fits
    <3>2. QED
      BY <2>1, <3>1
  <2>6. QED
    BY <2>2, <2>3, <2>4, <2>5
<1>4. QED
  BY <1>1, <1>2, <1>3, Zenon DEF Fits

LEMMA FitsOne ==
  ASSUME NEW s \in Steps, NEW args, NEW held, NEW users, NEW gives, StepFits(s, args, held, users, gives)
  PROVE  <<s>> \in Seq(Steps) /\ Fits(<<s>>, args, held, users, gives)
<1>1. <<s>> \in Seq(Steps) /\ DOMAIN <<s>> = {1} /\ <<s>>[1] = s
  BY One, Zenon
<1>2. \A i \in DOMAIN <<s>> : i = 1
  BY <1>1, Zenon
<1>3. QED
  BY <1>1, <1>2, Zenon DEF Fits

LEMMA FitsNone == \A args, held, users, gives :
    <<>> \in Seq(Steps) /\ DOMAIN <<>> = {} /\ Fits(<<>>, args, held, users, gives)
<1>1. <<>> \in Seq(Steps) /\ DOMAIN <<>> = {}
  OBVIOUS
<1>2. QED
  BY <1>1, Zenon DEF Fits

LEMMA FitsClones ==
  ASSUME NEW os \in SUBSET Nat, NEW args, NEW held, NEW users, NEW gives, gives \notin Answers,
         \A o \in os : o \notin held /\ Reaches(users, o) /\ \E a \in args : o \in heap[a].refs
  PROVE  /\ Clones(os) \in Seq(Steps) /\ Fits(Clones(os), args, held, users, gives)
         /\ \A i \in DOMAIN Clones(os) : Clones(os)[i].do = "clone" /\ Clones(os)[i].of \in os
<1>1. CASE os = {}
  <2>1. Clones(os) = <<>>
    BY <1>1, Zenon DEF Clones
  <2>2. QED
    BY <2>1, FitsNone, Zenon
<1>2. CASE os # {}
  <2>1. PICK o : o \in os /\ Clones(os) = <<Step("clone", None, o)>>
    BY <1>2, Zenon DEF Clones
  <2>2. Step("clone", None, o) \in Steps
    BY <2>1 DEF Step, Steps
  <2>3. StepFits(Step("clone", None, o), args, held, users, gives)
    BY <2>1 DEF StepFits, Step
  <2>4. <<Step("clone", None, o)>> \in Seq(Steps) /\ Fits(<<Step("clone", None, o)>>, args, held, users, gives)
    BY <2>2, <2>3, FitsOne, Zenon
  <2>5. \A i \in DOMAIN <<Step("clone", None, o)>> : <<Step("clone", None, o)>>[i] = Step("clone", None, o)
    OBVIOUS
  <2>6. Step("clone", None, o).do = "clone" /\ Step("clone", None, o).of = o
    BY DEF Step
  <2>7. QED
    BY <2>1, <2>4, <2>5, <2>6, Zenon
<1>3. QED
  BY <1>1, <1>2

LEMMA FitsCallback ==
  ASSUME NEW os \in SUBSET Nat, NEW args, NEW held, NEW users, NEW gives,
         \A o \in os : objs[o].kind \in Called /\ \E a \in args : o \in heap[a].refs
  PROVE  /\ Callback(os) \in Seq(Steps) /\ Fits(Callback(os), args, held, users, gives)
         /\ \A i \in DOMAIN Callback(os) : Callback(os)[i].do = "callback"
<1>1. CASE os = {}
  <2>1. Callback(os) = <<>>
    BY <1>1, Zenon DEF Callback
  <2>2. QED
    BY <2>1, FitsNone, Zenon
<1>2. CASE os # {}
  <2>1. PICK o : o \in os /\ Callback(os) = <<Step("callback", None, o)>>
    BY <1>2, Zenon DEF Callback
  <2>2. Step("callback", None, o) \in Steps
    BY <2>1 DEF Step, Steps
  <2>3. StepFits(Step("callback", None, o), args, held, users, gives)
    BY <2>1 DEF StepFits, Step
  <2>4. <<Step("callback", None, o)>> \in Seq(Steps) /\ Fits(<<Step("callback", None, o)>>, args, held, users, gives)
    BY <2>2, <2>3, FitsOne, Zenon
  <2>5. \A i \in DOMAIN <<Step("callback", None, o)>> : <<Step("callback", None, o)>>[i] = Step("callback", None, o)
    OBVIOUS
  <2>6. Step("callback", None, o).do = "callback"
    BY DEF Step
  <2>7. QED
    BY <2>1, <2>4, <2>5, <2>6, Zenon
<1>3. QED
  BY <1>1, <1>2

LEMMA FitsMade ==
  ASSUME NEW us \in SUBSET User, NEW kind \in Called, NEW args, NEW held, NEW users, NEW gives,
         gives \notin Answers, us \subseteq users
  PROVE  /\ Made(kind, us) \in Seq(Steps) /\ Fits(Made(kind, us), args, held, users, gives)
         /\ \A i \in DOMAIN Made(kind, us) : Made(kind, us)[i].do = "new"
<1>1. CASE us = {}
  <2>1. Made(kind, us) = <<>>
    BY <1>1, Zenon DEF Made
  <2>2. QED
    BY <2>1, FitsNone, Zenon
<1>2. CASE us # {}
  <2>1. PICK u : u \in us /\ Made(kind, us) = <<Step("new", kind, u)>>
    BY <1>2, Zenon DEF Made
  <2>2. Step("new", kind, u) \in Steps
    BY <2>1 DEF Step, Steps
  <2>3. StepFits(Step("new", kind, u), args, held, users, gives)
    BY <2>1 DEF StepFits, Step
  <2>4. <<Step("new", kind, u)>> \in Seq(Steps) /\ Fits(<<Step("new", kind, u)>>, args, held, users, gives)
    BY <2>2, <2>3, FitsOne, Zenon
  <2>5. \A i \in DOMAIN <<Step("new", kind, u)>> : <<Step("new", kind, u)>>[i] = Step("new", kind, u)
    OBVIOUS
  <2>6. Step("new", kind, u).do = "new"
    BY DEF Step
  <2>7. QED
    BY <2>1, <2>4, <2>5, <2>6, Zenon
<1>3. QED
  BY <1>1, <1>2

LEMMA WorkIs == Work \in Steps /\ Work.do = "work"
  BY DEF Work, Step, Steps

LEMMA FitsWork ==
  ASSUME NEW args, NEW held, NEW users, NEW gives
  PROVE  <<Work>> \in Seq(Steps) /\ Fits(<<Work>>, args, held, users, gives)
<1>1. StepFits(Work, args, held, users, gives)
  BY WorkIs DEF StepFits
<1>2. QED
  BY <1>1, WorkIs, FitsOne, Zenon

-------------------------------------------------------------------------------
(* What steps leave as it was *)

Agree == \A o \in DOMAIN objs \cap DOMAIN objs' : objs'[o].kind = objs[o].kind /\ objs'[o].user = objs[o].user

Resolved ==
    /\ \A a \in DOMAIN heap : heap[a].refs \subseteq DOMAIN objs
    /\ \A t \in Caller : calls[t].held \subseteq DOMAIN objs

LEMMA InUse == HandlesResolve => Resolved
<1>1. ASSUME HandlesResolve, NEW a \in DOMAIN heap, NEW o \in heap[a].refs PROVE o \in DOMAIN objs
  <2>1. o \in UNION {heap[b].refs : b \in DOMAIN heap}
    OBVIOUS
  <2>2. QED
    BY <1>1, <2>1 DEF HandlesResolve, Used
<1>2. ASSUME HandlesResolve, NEW t \in Caller, NEW o \in calls[t].held PROVE o \in DOMAIN objs
  <2>1. o \in UNION {calls[s].held : s \in Caller}
    OBVIOUS
  <2>2. QED
    BY <1>2, <2>1 DEF HandlesResolve, Used
<1>3. QED
  BY <1>1, <1>2 DEF Resolved

LEMMA InUseNext == HandlesResolve' => Resolved'
  BY InUse, PTL

LEMMA HandleStays ==
  ASSUME HandlesResolve, HandlesResolve', Agree, NEW a \in DOMAIN heap, a \in DOMAIN heap', heap'[a] = heap[a],
         HandleFits(a), heap[a].users \cap retired' = {}
  PROVE  HandleFits(a)'
<1>1. heap[a].refs \subseteq DOMAIN objs /\ heap[a].refs \subseteq DOMAIN objs'
  BY InUse, InUseNext DEF Resolved
<1>2. QED
  BY <1>1 DEF HandleFits, Reaches, Agree

LEMMA CallStays ==
  ASSUME HandlesResolve, HandlesResolve', Agree, NEW t \in Caller, calls'[t] = calls[t], CallFits(t),
         \A a \in calls[t].args : a \in DOMAIN heap' /\ heap'[a] = heap[a],
         calls[t].users \cap retired' = {}
  PROVE  CallFits(t)'
<1> DEFINE c == calls[t]
<1>1. /\ \A a \in c.args : heap[a].refs \subseteq DOMAIN objs /\ heap[a].refs \subseteq DOMAIN objs'
      /\ c.held \subseteq DOMAIN objs /\ c.held \subseteq DOMAIN objs'
  <2>1. c.args \subseteq DOMAIN heap
    BY DEF CallFits
  <2>2. QED
    BY <2>1, InUse, InUseNext DEF Resolved
<1>2. \A i \in DOMAIN c.todo : StepFits(c.todo[i], c.args, c.held, c.users, c.gives)'
  <2> SUFFICES ASSUME NEW i \in DOMAIN c.todo PROVE StepFits(c.todo[i], c.args, c.held, c.users, c.gives)'
    OBVIOUS
  <2>1. StepFits(c.todo[i], c.args, c.held, c.users, c.gives)
    BY DEF CallFits, Fits
  <2>2. QED
    BY <1>1, <2>1 DEF StepFits, Reaches, Agree, CallFits
<1>3. QED
  BY <1>1, <1>2 DEF CallFits, Fits, Twice, Reaches, Agree

LEMMA EnterKeepsHandles ==
  ASSUME HandleInv, NEW t \in Caller, NEW fn, NEW program \in Seq(Steps), NEW args \in SUBSET DOMAIN heap,
         NEW users \in SUBSET (User \ retired), NEW gives \in Gives, Fits(program, args, {}, users, gives),
         Enter(t, fn, program, args, users, gives)
  PROVE  HandleInv'
<1> DEFINE c == [todo |-> program, args |-> args, held |-> {}, users |-> users, gives |-> gives, seen |-> Fresh]
<1>1. /\ calls' = [calls EXCEPT ![t] = c] /\ ~Running(t)
      /\ UNCHANGED <<heap, objs, locks, retired>>
  BY DEF Enter
<1>2. calls \in [Caller -> Call] /\ DOMAIN heap \subseteq Nat
  BY HostAssumption DEF HandleInv, HostTypes
<1>3. c \in Call
  <2>1. Fresh \in [ChatDoc -> Nat]
    BY DEF Fresh
  <2>2. QED
    BY <1>2, <2>1 DEF Call
<1>4. /\ calls' \in [Caller -> Call] /\ calls'[t] = c
      /\ \A s \in Caller \ {t} : calls'[s] = calls[s]
  BY <1>1, <1>2, <1>3
<1>5. calls[t].held = {}
  BY <1>1 DEF HandleInv, CallsFit, CallFits, Running, Answers
<1>6. \A s \in Caller : calls'[s].held = calls[s].held
  <2>1. calls'[t].held = calls[t].held
    BY <1>4, <1>5
  <2>2. QED
    BY <1>4, <2>1
<1>7. HostTypes'
  BY <1>1, <1>4 DEF HandleInv, HostTypes
<1>8. HandlesResolve'
  BY <1>1, <1>6 DEF HandleInv, HandlesResolve, Used
<1>9. Counted'
  <2>1. \A o : InHeap(o)' = InHeap(o) /\ InCalls(o)' = InCalls(o)
    BY <1>1, <1>6 DEF InHeap, InCalls
  <2>2. QED
    BY <1>1, <2>1 DEF HandleInv, Counted
<1>10. HandlesFit'
  BY <1>1 DEF HandleInv, HandlesFit, HandleFits, Reaches
<1>11. CallsFit'
  <2>1. ASSUME NEW s \in Caller \ {t} PROVE CallFits(s)'
    <3>1. calls'[s] = calls[s] /\ CallFits(s)
      BY <1>4 DEF HandleInv, CallsFit
    <3>2. QED
      BY <1>1, <3>1 DEF CallFits, Fits, StepFits, Reaches
  <2>2. CallFits(t)'
    <3>1. Fits(program, args, {}, users, gives)'
      BY <1>1 DEF Fits, StepFits, Reaches
    <3>2. Fits(calls[t].todo, calls[t].args, calls[t].held, calls[t].users, calls[t].gives)'
      BY <1>4, <3>1
    <3>3. QED
      BY <1>1, <1>4, <3>2 DEF CallFits
  <2>3. QED
    BY <2>1, <2>2 DEF CallsFit
<1>12. WriterLocks' /\ OneWriter'
  BY <1>1 DEF HandleInv, WriterLocks, OneWriter
<1>13. QED
  BY <1>7, <1>8, <1>9, <1>10, <1>11, <1>12 DEF HandleInv
LEMMA BehindIs ==
  ASSUME HandleInv, NEW a \in DOMAIN heap, NEW kind
  PROVE  /\ Behind(a, kind) \in SUBSET Nat
         /\ \A o \in Behind(a, kind) : o \in heap[a].refs /\ objs[o].kind = kind /\ Reaches(heap[a].users, o)
  BY DEF Behind, HandleInv, HostTypes, HandlesFit, HandleFits

LEMMA UserOK ==
  ASSUME HandleInv, NEW a \in DOMAIN heap
  PROVE  heap[a].users \in SUBSET (User \ retired)
  BY DEF HandleInv, HostTypes, HandlesFit, HandleFits

LEMMA FitsOpen ==
  ASSUME NEW kind, NEW how, <<kind, how>> \in ({"store"} \X {"writer", "reader"}) \cup ({"index"} \X {"shared", "exclusive"}),
         NEW args, NEW held, NEW users, NEW gives, gives \notin Answers
  PROVE  <<Step("open", kind, how)>> \in Seq(Steps) /\ Fits(<<Step("open", kind, how)>>, args, held, users, gives)
<1>1. Step("open", kind, how) \in Steps /\ Step("open", kind, how).do = "open"
  BY DEF Step, Steps
<1>2. StepFits(Step("open", kind, how), args, held, users, gives)
  BY <1>1 DEF StepFits
<1>3. QED
  BY <1>1, <1>2, FitsOne, Zenon

\* Functions that work with handles and answer without one, some after a callback.
LEMMA FitsAnswer ==
  ASSUME HandleInv, NEW a \in DOMAIN heap, NEW args, a \in args, NEW held, NEW users, NEW gives, NEW kind \in Called
  PROVE  /\ Callback(Behind(a, kind)) \in Seq(Steps)
         /\ Fits(Callback(Behind(a, kind)), args, held, users, gives)
         /\ \A i \in DOMAIN Callback(Behind(a, kind)) : Callback(Behind(a, kind))[i].do = "callback"
<1> DEFINE os == Behind(a, kind)
<1>1. os \in SUBSET Nat /\ \A o \in os : objs[o].kind \in Called /\ \E b \in args : o \in heap[b].refs
  BY BehindIs, Zenon
<1> HIDE DEF os
<1>2. /\ Callback(os) \in Seq(Steps)
      /\ Fits(Callback(os), args, held, users, gives)
      /\ \A i \in DOMAIN Callback(os) : Callback(os)[i].do = "callback"
  BY <1>1, FitsCallback, Zenon
<1>3. QED
  BY <1>2, Zenon DEF os

LEMMA FitsTwoCallbacks ==
  ASSUME HandleInv, NEW g \in DOMAIN heap, NEW args, g \in args, NEW held, NEW users, NEW gives
  PROVE  /\ Callback(Behind(g, "embedder")) \o Callback(Behind(g, "counter")) \o <<Work>> \in Seq(Steps)
         /\ Fits(Callback(Behind(g, "embedder")) \o Callback(Behind(g, "counter")) \o <<Work>>, args, held, users, gives)
<1> DEFINE p == Callback(Behind(g, "embedder"))
           q == Callback(Behind(g, "counter"))
<1>1. /\ p \in Seq(Steps) /\ Fits(p, args, held, users, gives) /\ \A i \in DOMAIN p : p[i].do = "callback"
      /\ q \in Seq(Steps) /\ Fits(q, args, held, users, gives) /\ \A i \in DOMAIN q : q[i].do = "callback"
  BY FitsAnswer, Zenon DEF Called
<1>2. <<Work>> \in Seq(Steps) /\ Fits(<<Work>>, args, held, users, gives) /\ \A i \in DOMAIN <<Work>> : <<Work>>[i].do = "work"
  <2>1. \A i \in DOMAIN <<Work>> : <<Work>>[i] = Work
    OBVIOUS
  <2>2. QED
    BY <2>1, FitsWork, WorkIs, Zenon
<1> HIDE DEF p, q
<1>3. p \o q \in Seq(Steps) /\ Fits(p \o q, args, held, users, gives)
  <2>1. \A i \in DOMAIN p, j \in DOMAIN q : ~Twice(p[i], q[j])
    BY <1>1 DEF Twice
  <2>2. QED
    BY <1>1, <2>1, FitsJoined, Zenon
<1>4. (p \o q) \o <<Work>> \in Seq(Steps) /\ Fits((p \o q) \o <<Work>>, args, held, users, gives)
  <2>1. \A i \in DOMAIN (p \o q), j \in DOMAIN <<Work>> : ~Twice((p \o q)[i], <<Work>>[j])
    BY <1>2 DEF Twice
  <2>2. QED
    BY <1>2, <1>3, <2>1, FitsJoined, Zenon
<1>5. QED
  BY <1>4, Zenon DEF p, q

LEMMA EngineFits ==
  ASSUME HandleInv, NEW s \in Handles("store"), NEW e \in SUBSET Handles("embedder"),
         NEW u \in SUBSET (User \ retired), NEW h,
         NEW index \in {<<>>} \cup {<<Step("open", "index", "shared"), Work>> : f \in h}
  PROVE  LET program == Clones(Behind(s, "store")) \o Clones(UNION {Behind(a, "embedder") : a \in e})
                            \o Made("counter", u) \o index
             users   == u \cup UNION {heap[a].users : a \in e}
         IN  /\ program \in Seq(Steps) /\ users \in SUBSET (User \ retired)
             /\ Fits(program, {s} \cup e, {}, users, "engine")
<1> DEFINE S == Behind(s, "store")
           E == UNION {Behind(a, "embedder") : a \in e}
           U == u \cup UNION {heap[a].users : a \in e}
           A == {s} \cup e
           N == {}
           Ok(p) == p \in Seq(Steps) /\ Fits(p, A, N, U, "engine")
<1>1. s \in DOMAIN heap /\ e \subseteq DOMAIN heap
  BY DEF Handles
<1>2. U \in SUBSET (User \ retired)
  <2>1. \A a \in e : heap[a].users \in SUBSET (User \ retired)
    BY <1>1, UserOK
  <2>2. QED
    BY <2>1
<1>3. "engine" \notin Answers /\ "counter" \in Called
  BY DEF Answers, Called
<1>4. /\ S \in SUBSET Nat
      /\ \A o \in S : objs[o].kind = "store" /\ o \notin N /\ Reaches(U, o) /\ \E a \in A : o \in heap[a].refs
  <2>1. S \in SUBSET Nat /\ \A o \in S : o \in heap[s].refs /\ objs[o].kind = "store"
    BY <1>1, BehindIs, Zenon
  <2>2. QED
    BY <2>1 DEF Reaches, Called
<1>5. /\ E \in SUBSET Nat
      /\ \A o \in E : objs[o].kind = "embedder" /\ o \notin N /\ Reaches(U, o) /\ \E a \in A : o \in heap[a].refs
  <2>1. \A a \in e : /\ Behind(a, "embedder") \in SUBSET Nat
                     /\ \A o \in Behind(a, "embedder") :
                           o \in heap[a].refs /\ objs[o].kind = "embedder" /\ Reaches(heap[a].users, o)
    BY <1>1, BehindIs
  <2>2. ASSUME NEW o \in E
        PROVE  o \in Nat /\ objs[o].kind = "embedder" /\ Reaches(U, o) /\ \E a \in A : o \in heap[a].refs
    <3>1. PICK a \in e : o \in Behind(a, "embedder")
      OBVIOUS
    <3>2. heap[a].users \subseteq U
      OBVIOUS
    <3>3. QED
      BY <2>1, <3>1, <3>2 DEF Reaches
  <2>3. QED
    BY <2>2
<1> HIDE DEF S, E, U, A, N
<1>6. /\ Ok(Clones(S)) /\ \A i \in DOMAIN Clones(S) : Clones(S)[i].do = "clone" /\ Clones(S)[i].of \in S
  <2>1. S \in SUBSET Nat /\ \A o \in S : o \notin N /\ Reaches(U, o) /\ \E a \in A : o \in heap[a].refs
    BY <1>4, Zenon
  <2>2. Clones(S) \in Seq(Steps) /\ Fits(Clones(S), A, N, U, "engine")
    BY <1>3, <2>1, FitsClones, Zenon
  <2>3. \A i \in DOMAIN Clones(S) : Clones(S)[i].do = "clone" /\ Clones(S)[i].of \in S
    BY <1>3, <2>1, FitsClones, Zenon
  <2>4. QED
    BY <2>2, <2>3, Zenon
<1>7. /\ Ok(Clones(E)) /\ \A i \in DOMAIN Clones(E) : Clones(E)[i].do = "clone" /\ Clones(E)[i].of \in E
  <2>1. E \in SUBSET Nat /\ \A o \in E : o \notin N /\ Reaches(U, o) /\ \E a \in A : o \in heap[a].refs
    BY <1>5, Zenon
  <2>2. Clones(E) \in Seq(Steps) /\ Fits(Clones(E), A, N, U, "engine")
    BY <1>3, <2>1, FitsClones, Zenon
  <2>3. \A i \in DOMAIN Clones(E) : Clones(E)[i].do = "clone" /\ Clones(E)[i].of \in E
    BY <1>3, <2>1, FitsClones, Zenon
  <2>4. QED
    BY <2>2, <2>3, Zenon
<1>8. Ok(Made("counter", u)) /\ \A i \in DOMAIN Made("counter", u) : Made("counter", u)[i].do = "new"
  <2>1. u \in SUBSET User /\ u \subseteq U
    BY DEF U
  <2>2. QED
    BY <1>3, <2>1, FitsMade, Zenon
<1>9. Ok(index) /\ \A i \in DOMAIN index : index[i].do # "clone"
  <2>1. CASE index = <<>>
    <3>1. Ok(<<>>) /\ DOMAIN <<>> = {}
      BY FitsNone, Zenon
    <3>2. QED
      BY <2>1, <3>1, Zenon
  <2>2. CASE index = <<Step("open", "index", "shared"), Work>>
    <3> DEFINE o == Step("open", "index", "shared")
    <3>1. Ok(<<o>>) /\ Ok(<<Work>>)
      BY <1>3, FitsOpen, FitsWork
    <3>2. o.do = "open" /\ Work.do = "work"
      BY WorkIs DEF Step
    <3> HIDE DEF o
    <3>3. \A i \in DOMAIN <<o>>, j \in DOMAIN <<Work>> : ~Twice(<<o>>[i], <<Work>>[j])
      BY <3>2 DEF Twice
    <3>4. Ok(<<o>> \o <<Work>>)
      BY <3>1, <3>3, FitsJoined, Zenon
    <3>5. <<o>> \o <<Work>> = <<o, Work>> /\ \A i \in DOMAIN <<o, Work>> : <<o, Work>>[i] \in {o, Work}
      <4>1. /\ <<o>> \o <<Work>> = <<o, Work>> /\ DOMAIN <<o, Work>> = {1, 2}
            /\ <<o, Work>>[1] = o /\ <<o, Work>>[2] = Work
        BY Two, Zenon
      <4>2. QED
        BY <4>1
    <3>6. \A i \in DOMAIN <<o, Work>> : <<o, Work>>[i].do # "clone"
      <4>1. o.do # "clone" /\ Work.do # "clone"
        BY <3>2
      <4>2. QED
        BY <3>5, <4>1, Zenon
    <3>7. index = <<o, Work>>
      BY <2>2, Zenon DEF o
    <3>8. QED
      BY <3>4, <3>5, <3>6, <3>7, Zenon
  <2>3. QED
    BY <2>1, <2>2
<1> DEFINE p == Clones(S)
           q == Clones(E)
           m == Made("counter", u)
<1>10. Ok(p \o q)
  <2>1. \A i \in DOMAIN p, j \in DOMAIN q : ~Twice(p[i], q[j])
    BY <1>4, <1>5, <1>6, <1>7 DEF Twice
  <2>2. QED
    BY <1>6, <1>7, <2>1, FitsJoined, Zenon
<1> HIDE DEF p, q, m
<1>11. Ok((p \o q) \o m)
  <2>1. \A i \in DOMAIN (p \o q), j \in DOMAIN m : ~Twice((p \o q)[i], m[j])
    BY <1>8 DEF Twice, m
  <2>2. QED
    BY <1>8, <1>10, <2>1, FitsJoined, Zenon DEF m
<1>12. Ok(((p \o q) \o m) \o index)
  <2>1. \A i \in DOMAIN ((p \o q) \o m), j \in DOMAIN index : ~Twice(((p \o q) \o m)[i], index[j])
    BY <1>9 DEF Twice
  <2>2. QED
    BY <1>9, <1>11, <2>1, FitsJoined, Zenon
<1>13. QED
  BY <1>2, <1>12, Zenon DEF p, q, m, S, E, U, A, N
LEMMA CommitFitsProgram ==
  ASSUME NEW args, NEW held, NEW users
  PROVE  Program \in Seq(Steps) /\ Fits(Program, args, held, users, "commit")
<1>1. \A do \in {"read", "build", "publish", "unlock"} :
          Step(do, None, None) \in Steps /\ Step(do, None, None).do = do
  BY DEF Step, Steps
<1>2. \A s : s.do \in {"read", "build", "publish", "unlock"} => StepFits(s, args, held, users, "commit")
  BY DEF StepFits
<1> DEFINE A == Step("read", None, None)
           B == Step("build", None, None)
           C == Step("publish", None, None)
           D == Step("unlock", None, None)
<1>3. /\ A \in Steps /\ B \in Steps /\ C \in Steps /\ D \in Steps
      /\ A.do = "read" /\ B.do = "build" /\ C.do = "publish" /\ D.do = "unlock"
  BY <1>1, Zenon
<1>4. Program = <<A, B, C, D>>
  BY DEF Program
<1> HIDE DEF A, B, C, D
<1>5. Program \in Seq(Steps)
  <2>1. \A S : \A a, b, c, d \in S : <<a, b, c, d>> \in Seq(S)
    OBVIOUS
  <2>2. QED
    BY <1>3, <1>4, <2>1, Zenon
<1>6. \A i \in DOMAIN Program : Program[i].do \in {"read", "build", "publish", "unlock"}
  <2>1. \A i \in DOMAIN Program : Program[i] \in {A, B, C, D}
    BY <1>4
  <2>2. QED
    BY <1>3, <2>1
<1>7. \A i, j \in DOMAIN Program : ~Twice(Program[i], Program[j])
  BY <1>6 DEF Twice
<1>8. \A i \in DOMAIN Program : StepFits(Program[i], args, held, users, "commit")
  BY <1>6 DEF StepFits
<1>9. QED
  BY <1>5, <1>7, <1>8, Zenon DEF Fits

\* What a function brings into its call.
Entering(program, args, users, gives) ==
    /\ program \in Seq(Steps) /\ args \in SUBSET DOMAIN heap /\ users \in SUBSET (User \ retired) /\ gives \in Gives
    /\ Fits(program, args, {}, users, gives)
    /\ gives = "chat" => Handles("chat") = {} /\ \A s \in Caller : calls[s].gives # "chat"
    /\ gives = "commit" => program = Program /\ args \cap Handles("chat") # {}

LEMMA BeginIs ==
  ASSUME HandleInv, NEW t \in Caller, Begin(t)
  PROVE  \E fn, program, args, users, gives :
             Enter(t, fn, program, args, users, gives) /\ Entering(program, args, users, gives)
<1>1. CASE StoreOpen(t)
  <2>1. PICK how \in {"writer", "reader"} : Enter(t, "store_open", <<Step("open", "store", how)>>, {}, {}, "store")
    BY <1>1 DEF StoreOpen
  <2>2. Entering(<<Step("open", "store", how)>>, {}, {}, "store")
    BY FitsOpen DEF Entering, Gives, Answers
  <2>3. QED
    BY <2>1, <2>2, Zenon
<1>2. CASE EmbedderNew(t)
  <2>1. PICK u \in User \ retired : Enter(t, "embedder_new", Made("embedder", {u}), {}, {u}, "embedder")
    BY <1>2 DEF EmbedderNew
  <2>2. Made("embedder", {u}) \in Seq(Steps) /\ Fits(Made("embedder", {u}), {}, {}, {u}, "embedder")
    BY FitsMade DEF Called, Answers
  <2>3. Entering(Made("embedder", {u}), {}, {u}, "embedder")
    BY <2>2 DEF Entering, Gives
  <2>4. QED
    BY <2>1, <2>3, Zenon
<1>3. CASE EngineNew(t)
  <2>1. PICK s \in Handles("store"), e \in AtMostOne(Handles("embedder")), u \in AtMostOne(User \ retired),
             index \in {<<>>} \cup {<<Step("open", "index", "shared"), Work>> : f \in host \cap {"index_open"}} :
          Enter(t, "engine_new",
                Clones(Behind(s, "store")) \o Clones(UNION {Behind(a, "embedder") : a \in e})
                    \o Made("counter", u) \o index,
                {s} \cup e, u \cup UNION {heap[a].users : a \in e}, "engine")
    BY <1>3, Zenon DEF EngineNew
  <2> DEFINE program == Clones(Behind(s, "store")) \o Clones(UNION {Behind(a, "embedder") : a \in e})
                            \o Made("counter", u) \o index
             args    == {s} \cup e
             users   == u \cup UNION {heap[a].users : a \in e}
  <2>2. e \in SUBSET Handles("embedder") /\ u \in SUBSET (User \ retired)
    BY DEF AtMostOne
  <2>3. program \in Seq(Steps) /\ users \in SUBSET (User \ retired) /\ Fits(program, args, {}, users, "engine")
    BY <2>2, EngineFits, Zenon
  <2>4. args \in SUBSET DOMAIN heap
    BY <2>2 DEF Handles
  <2> HIDE DEF program, args, users
  <2>5. Entering(program, args, users, "engine")
    BY <2>3, <2>4 DEF Entering, Gives
  <2>6. QED
    BY <2>1, <2>5, Zenon DEF program, args, users
<1>4. CASE MemoryOpen(t)
  <2>1. PICK s \in Handles("store") :
          Enter(t, "memory_open", Clones(Behind(s, "store")) \o <<Work>>, {s}, {}, "memory")
    BY <1>4, Zenon DEF MemoryOpen
  <2> DEFINE os == Behind(s, "store")
             p  == Clones(os)
             no == {}
  <2>2. s \in DOMAIN heap
    BY DEF Handles
  <2>3. os \in SUBSET Nat /\ \A o \in os : o \notin no /\ Reaches(no, o) /\ \E a \in {s} : o \in heap[a].refs
    <3>1. os \in SUBSET Nat /\ \A o \in os : o \in heap[s].refs /\ objs[o].kind = "store"
      BY <2>2, BehindIs, Zenon
    <3>2. QED
      BY <3>1 DEF Reaches, Called
  <2> HIDE DEF os, no
  <2>4. /\ p \in Seq(Steps) /\ Fits(p, {s}, no, no, "memory")
        /\ \A i \in DOMAIN p : p[i].do = "clone"
    <3>1. "memory" \notin Answers
      BY DEF Answers
    <3>2. QED
      BY <2>3, <3>1, FitsClones, Zenon
  <2>5. <<Work>> \in Seq(Steps) /\ Fits(<<Work>>, {s}, no, no, "memory") /\ \A i \in DOMAIN <<Work>> : <<Work>>[i] = Work
    BY FitsWork
  <2>6. \A i \in DOMAIN p, j \in DOMAIN <<Work>> : ~Twice(p[i], <<Work>>[j])
    BY <2>5, WorkIs DEF Twice
  <2> HIDE DEF p
  <2>7. p \o <<Work>> \in Seq(Steps) /\ Fits(p \o <<Work>>, {s}, no, no, "memory")
    BY <2>4, <2>5, <2>6, FitsJoined, Zenon
  <2>8. Entering(p \o <<Work>>, {s}, {}, "memory")
    BY <2>2, <2>7 DEF Entering, Gives, no
  <2>9. QED
    BY <2>1, <2>8, Zenon DEF p, os
<1>5. CASE IndexOpen(t)
  <2>1. PICK how \in {"shared", "exclusive"} : Enter(t, "index_open", <<Step("open", "index", how)>>, {}, {}, "index")
    BY <1>5 DEF IndexOpen
  <2>2. Entering(<<Step("open", "index", how)>>, {}, {}, "index")
    BY FitsOpen DEF Entering, Gives, Answers
  <2>3. QED
    BY <2>1, <2>2, Zenon
<1>6. CASE Ask(t)
  <2>1. PICK g \in Handles("engine"), m \in AtMostOne(Handles("memory")) :
          Enter(t, "ask", Callback(Behind(g, "embedder")) \o Callback(Behind(g, "counter")) \o <<Work>>,
                {g} \cup m, {}, "status")
    BY <1>6, Zenon DEF Ask
  <2> DEFINE p == Callback(Behind(g, "embedder")) \o Callback(Behind(g, "counter")) \o <<Work>>
  <2>2. g \in DOMAIN heap /\ {g} \cup m \in SUBSET DOMAIN heap
    BY DEF Handles, AtMostOne
  <2>3. p \in Seq(Steps) /\ Fits(p, {g} \cup m, {}, {}, "status")
    BY <2>2, FitsTwoCallbacks
  <2> HIDE DEF p
  <2>4. Entering(p, {g} \cup m, {}, "status")
    BY <2>2, <2>3 DEF Entering, Gives, Answers
  <2>5. QED
    BY <2>1, <2>4, Zenon DEF p
<1>7. CASE Embed(t)
  <2>1. PICK s \in Handles("store"), e \in Handles("embedder") :
          Enter(t, "embed", Callback(Behind(e, "embedder")) \o <<Work>>, {s, e}, {}, "status")
    BY <1>7, Zenon DEF Embed
  <2> DEFINE p == Callback(Behind(e, "embedder"))
  <2>2. e \in DOMAIN heap /\ {s, e} \in SUBSET DOMAIN heap
    BY DEF Handles
  <2>3. p \in Seq(Steps) /\ Fits(p, {s, e}, {}, {}, "status") /\ \A i \in DOMAIN p : p[i].do = "callback"
    BY <2>2, FitsAnswer DEF Called
  <2>4. <<Work>> \in Seq(Steps) /\ Fits(<<Work>>, {s, e}, {}, {}, "status")
    BY FitsWork
  <2>5. \A i \in DOMAIN p, j \in DOMAIN <<Work>> : ~Twice(p[i], <<Work>>[j])
    BY <2>3 DEF Twice
  <2> HIDE DEF p
  <2>6. p \o <<Work>> \in Seq(Steps) /\ Fits(p \o <<Work>>, {s, e}, {}, {}, "status")
    BY <2>3, <2>4, <2>5, FitsJoined
  <2>7. Entering(p \o <<Work>>, {s, e}, {}, "status")
    BY <2>2, <2>6 DEF Entering, Gives, Answers
  <2>8. QED
    BY <2>1, <2>7, Zenon DEF p
<1>8. CASE CallTool(t)
  <2>1. PICK g \in Handles("engine") :
          Enter(t, "tool", Callback(Behind(g, "embedder")) \o Callback(Behind(g, "counter")) \o <<Work>>, {g}, {}, "status")
    BY <1>8, Zenon DEF CallTool
  <2> DEFINE p == Callback(Behind(g, "embedder")) \o Callback(Behind(g, "counter")) \o <<Work>>
  <2>2. g \in DOMAIN heap
    BY DEF Handles
  <2>3. p \in Seq(Steps) /\ Fits(p, {g}, {}, {}, "status")
    BY <2>2, FitsTwoCallbacks
  <2> HIDE DEF p
  <2>4. Entering(p, {g}, {}, "status")
    BY <2>2, <2>3 DEF Entering, Gives, Answers
  <2>5. QED
    BY <2>1, <2>4, Zenon DEF p
<1>9. CASE UseStore(t) \/ UseMemory(t) \/ UseIndex(t) \/ UseChat(t)
  <2>1. PICK fn, a : a \in DOMAIN heap /\ Enter(t, fn, <<Work>>, {a}, {}, "status")
    BY <1>9, Zenon DEF UseStore, UseMemory, UseIndex, UseChat, Handles
  <2>2. Entering(<<Work>>, {a}, {}, "status")
    BY <2>1, FitsWork DEF Entering, Gives, Answers
  <2>3. QED
    BY <2>1, <2>2, Zenon
<1>10. CASE ChatNew(t)
  <2>1. /\ Handles("chat") = {} /\ \A s \in Caller : calls[s].gives # "chat"
        /\ Enter(t, "chat", <<>>, {}, {}, "chat")
    BY <1>10, Zenon DEF ChatNew
  <2>2. Entering(<<>>, {}, {}, "chat")
    BY <2>1, FitsNone DEF Entering, Gives
  <2>3. QED
    BY <2>1, <2>2, Zenon
<1>11. CASE ChatEdit(t)
  <2>1. PICK a \in Handles("chat"), d \in ChatDoc : Enter(t, "chat", <<Step("edit", None, d)>>, {a}, {}, "status")
    BY <1>11, Zenon DEF ChatEdit
  <2>2. Step("edit", None, d) \in Steps /\ Step("edit", None, d).do = "edit"
    BY DEF Step, Steps
  <2>3. StepFits(Step("edit", None, d), {a}, {}, {}, "status")
    BY <2>2 DEF StepFits
  <2>4. <<Step("edit", None, d)>> \in Seq(Steps) /\ Fits(<<Step("edit", None, d)>>, {a}, {}, {}, "status")
    BY <2>2, <2>3, FitsOne
  <2>5. Entering(<<Step("edit", None, d)>>, {a}, {}, "status")
    BY <2>4 DEF Entering, Gives, Answers, Handles
  <2>6. QED
    BY <2>1, <2>5, Zenon
<1>12. CASE Commit(t)
  <2>1. PICK a \in Handles("chat") : Enter(t, "chat", Program, {a}, {}, "commit")
    BY <1>12, Zenon DEF Commit, Program
  <2>2. Entering(Program, {a}, {}, "commit")
    BY CommitFitsProgram DEF Entering, Gives, Answers, Handles
  <2>3. QED
    BY <2>1, <2>2, Zenon
<1>13. QED
  BY <1>1, <1>2, <1>3, <1>4, <1>5, <1>6, <1>7, <1>8, <1>9, <1>10, <1>11, <1>12 DEF Begin

LEMMA BeginKeepsHandles ==
  ASSUME HandleInv, NEW t \in Caller, Begin(t)
  PROVE  HandleInv'
<1>1. PICK fn, program, args, users, gives :
          Enter(t, fn, program, args, users, gives) /\ Entering(program, args, users, gives)
  BY BeginIs
<1>2. QED
  BY <1>1, EnterKeepsHandles DEF Entering
-------------------------------------------------------------------------------
(* Steps of a call *)

LEMMA PastIs ==
  ASSUME calls \in [Caller -> Call], NEW t \in Caller, NEW held \in SUBSET Nat, calls[t].todo # <<>>
  PROVE  LET next == Past(t, held)
         IN  /\ next \in [Caller -> Call]
             /\ next[t].todo = Tail(calls[t].todo) /\ next[t].args = calls[t].args /\ next[t].held = held
             /\ next[t].users = calls[t].users /\ next[t].gives = calls[t].gives /\ next[t].seen = calls[t].seen
             /\ \A s \in Caller \ {t} : next[s] = calls[s]
<1> DEFINE c == calls[t]
           d == [c EXCEPT !.todo = Tail(@), !.held = held]
<1>1. c \in Call
  OBVIOUS
<1>2. Tail(c.todo) \in Seq(Steps)
  BY <1>1, Popped DEF Call
<1> HIDE DEF c
<1>3. /\ d \in Call /\ d.todo = Tail(c.todo) /\ d.args = c.args /\ d.held = held
      /\ d.users = c.users /\ d.gives = c.gives /\ d.seen = c.seen
  BY <1>1, <1>2 DEF Call
<1>4. Past(t, held) = [calls EXCEPT ![t] = d]
  BY DEF Past, c
<1> HIDE DEF d
<1>5. QED
  BY <1>3, <1>4 DEF c

LEMMA PopFits ==
  ASSUME NEW p \in Seq(Steps), p # <<>>, NEW args, NEW held, NEW users, NEW gives, Fits(p, args, held, users, gives)
  PROVE  /\ Fits(Tail(p), args, held, users, gives)
         /\ StepFits(Head(p), args, held, users, gives)
         /\ \A i \in DOMAIN Tail(p) : ~Twice(Head(p), Tail(p)[i])
<1>1. /\ \A i \in DOMAIN Tail(p) : i + 1 \in DOMAIN p /\ Tail(p)[i] = p[i + 1]
      /\ 1 \in DOMAIN p /\ Head(p) = p[1]
      /\ \A i \in DOMAIN Tail(p) : i \in Nat \ {0}
  BY Popped
<1>2. \A i \in DOMAIN Tail(p) : StepFits(Tail(p)[i], args, held, users, gives)
  BY <1>1, Zenon DEF Fits
<1>3. StepFits(Head(p), args, held, users, gives)
  BY <1>1, Zenon DEF Fits
<1>4. ASSUME NEW i \in DOMAIN Tail(p), NEW j \in DOMAIN Tail(p), Twice(Tail(p)[i], Tail(p)[j])
      PROVE  i = j
  <2>1. i + 1 = j + 1
    BY <1>1, <1>4, Zenon DEF Fits
  <2>2. QED
    BY <1>1, <2>1
<1>5. ASSUME NEW i \in DOMAIN Tail(p), Twice(Head(p), Tail(p)[i])
      PROVE  FALSE
  <2>1. 1 = i + 1
    BY <1>1, <1>5, Zenon DEF Fits
  <2>2. QED
    BY <1>1, <2>1
<1>6. QED
  BY <1>2, <1>3, <1>4, <1>5, Zenon DEF Fits

\* The call of t does its next step and keeps what it holds.
Popping(t) ==
    /\ calls[t].todo # <<>>
    /\ calls' \in [Caller -> Call]
    /\ calls'[t].todo = Tail(calls[t].todo) /\ calls'[t].args = calls[t].args /\ calls'[t].users = calls[t].users
    /\ calls'[t].gives = calls[t].gives
    /\ \A s \in Caller \ {t} : calls'[s] = calls[s]

LEMMA PopKeepsHandles ==
  ASSUME HandleInv, NEW t \in Caller, Popping(t), calls'[t].held = calls[t].held,
         UNCHANGED <<heap, objs, locks, retired>>
  PROVE  HandleInv'
<1>1. \A s \in Caller : calls'[s].held = calls[s].held
  BY DEF Popping
<1>2. HostTypes'
  BY DEF HandleInv, HostTypes, Popping
<1>3. HandlesResolve'
  BY <1>1 DEF HandleInv, HandlesResolve, Used
<1>4. Counted'
  <2>1. \A o : InHeap(o)' = InHeap(o) /\ InCalls(o)' = InCalls(o)
    BY <1>1 DEF InHeap, InCalls
  <2>2. QED
    BY <2>1 DEF HandleInv, Counted
<1>5. HandlesFit'
  BY DEF HandleInv, HandlesFit, HandleFits, Reaches
<1>6. CallsFit'
  <2>1. ASSUME NEW s \in Caller \ {t} PROVE CallFits(s)'
    <3>1. calls'[s] = calls[s] /\ CallFits(s)
      BY DEF HandleInv, CallsFit, Popping
    <3>2. QED
      BY <3>1 DEF CallFits, Fits, StepFits, Reaches
  <2>2. CallFits(t)'
    <3> DEFINE c == calls[t]
    <3>1. CallFits(t) /\ c.todo \in Seq(Steps) /\ c.todo # <<>>
      BY DEF HandleInv, CallsFit, Popping, HostTypes, Call
    <3>2. Fits(Tail(c.todo), c.args, c.held, c.users, c.gives)
      BY <3>1, PopFits DEF CallFits
    <3>3. Fits(calls[t].todo, calls[t].args, calls[t].held, calls[t].users, calls[t].gives)'
      BY <3>2 DEF Fits, StepFits, Reaches, Popping
    <3>4. QED
      BY <3>1, <3>3 DEF CallFits, Reaches, Popping
  <2>3. QED
    BY <2>1, <2>2 DEF CallsFit
<1>7. WriterLocks' /\ OneWriter'
  BY DEF HandleInv, WriterLocks, OneWriter
<1>8. QED
  BY <1>2, <1>3, <1>4, <1>5, <1>6, <1>7 DEF HandleInv

LEMMA NextStep ==
  ASSUME HandleInv, NEW t \in Caller, NEW do, At(t, do)
  PROVE  /\ calls[t].todo \in Seq(Steps) /\ calls[t].todo # <<>> /\ calls[t] \in Call
         /\ Todo(t) \in Steps /\ Todo(t).do = do
         /\ StepFits(Todo(t), calls[t].args, calls[t].held, calls[t].users, calls[t].gives)
         /\ Fits(Tail(calls[t].todo), calls[t].args, calls[t].held, calls[t].users, calls[t].gives)
         /\ \A i \in DOMAIN Tail(calls[t].todo) : ~Twice(Todo(t), Tail(calls[t].todo)[i])
<1> DEFINE c == calls[t]
<1>1. c \in Call /\ c.todo \in Seq(Steps) /\ c.todo # <<>> /\ CallFits(t)
  BY DEF HandleInv, CallsFit, HostTypes, Call, At
<1>2. Fits(c.todo, c.args, c.held, c.users, c.gives)
  BY <1>1 DEF CallFits
<1>3. Head(c.todo) \in Steps
  BY <1>1, Popped
<1>4. QED
  BY <1>1, <1>2, <1>3, PopFits DEF At, Todo

LEMMA ProceedKeepsHandles ==
  ASSUME HandleInv, NEW t \in Caller, Proceed(t)
  PROVE  HandleInv'
<1>1. calls[t].todo # <<>> /\ calls' = Past(t, calls[t].held) /\ UNCHANGED <<heap, objs, locks, retired>>
  BY DEF Proceed, At
<1>2. calls \in [Caller -> Call] /\ calls[t].held \in SUBSET Nat
  BY DEF HandleInv, HostTypes, Call
<1>3. Popping(t) /\ calls'[t].held = calls[t].held
  BY <1>1, <1>2, PastIs DEF Popping
<1>4. QED
  BY <1>1, <1>3, PopKeepsHandles

LEMMA EditKeepsHandles ==
  ASSUME HandleInv, NEW t \in Caller, EditStep(t)
  PROVE  HandleInv'
<1>1. At(t, "edit") /\ calls' = Past(t, {}) /\ UNCHANGED <<heap, objs, locks, retired>>
  BY DEF EditStep
<1>2. calls \in [Caller -> Call] /\ calls[t].held = {}
  BY <1>1, NextStep DEF HandleInv, HostTypes, StepFits, CallsFit, CallFits, Answers
<1>3. Popping(t) /\ calls'[t].held = calls[t].held
  BY <1>1, <1>2, PastIs DEF Popping, At
<1>4. QED
  BY <1>1, <1>3, PopKeepsHandles

\* Reading remembers the documents.
LEMMA CommitStepIs ==
  ASSUME HandleInv, NEW t \in Caller, CommitStep(t), chat.docs \in [ChatDoc -> Nat]
  PROVE  /\ Popping(t) /\ calls[t].held = {} /\ calls'[t].held = {} /\ calls[t].gives = "commit"
         /\ calls'[t].seen = IF At(t, "read") THEN chat.docs ELSE calls[t].seen
         /\ UNCHANGED <<heap, objs, locks, retired>>
<1>1. PICK do \in {"read", "publish", "unlock"} : At(t, do)
  BY DEF CommitStep
<1>2. calls \in [Caller -> Call] /\ calls[t].held = {} /\ calls[t].gives = "commit"
  BY <1>1, NextStep DEF HandleInv, HostTypes, StepFits, CallsFit, CallFits, Answers
<1> DEFINE next == Past(t, {})
<1>3. /\ next \in [Caller -> Call] /\ \A s \in Caller \ {t} : next[s] = calls[s]
      /\ next[t].todo = Tail(calls[t].todo) /\ next[t].args = calls[t].args /\ next[t].held = {}
      /\ next[t].users = calls[t].users /\ next[t].gives = calls[t].gives /\ next[t].seen = calls[t].seen
  BY <1>1, <1>2, PastIs DEF At
<1>4. \/ At(t, "read") /\ calls' = [next EXCEPT ![t].seen = chat.docs]
      \/ ~At(t, "read") /\ calls' = next
  BY DEF CommitStep, At
<1> HIDE DEF next
<1>5. CASE At(t, "read") /\ calls' = [next EXCEPT ![t].seen = chat.docs]
  <2> DEFINE d == [next[t] EXCEPT !.seen = chat.docs]
  <2>1. /\ d \in Call /\ d.todo = next[t].todo /\ d.args = next[t].args /\ d.held = next[t].held
        /\ d.users = next[t].users /\ d.gives = next[t].gives /\ d.seen = chat.docs
    <3>1. next[t] \in Call
      BY <1>3
    <3>2. QED
      BY <3>1 DEF Call
  <2>2. calls' = [next EXCEPT ![t] = d]
    BY <1>5
  <2> HIDE DEF d
  <2>3. calls' \in [Caller -> Call] /\ calls'[t] = d /\ \A s \in Caller \ {t} : calls'[s] = calls[s]
    BY <1>3, <2>1, <2>2
  <2>4. QED
    BY <1>1, <1>2, <1>3, <1>5, <2>1, <2>3 DEF Popping, At, CommitStep
<1>6. CASE ~At(t, "read") /\ calls' = next
  BY <1>1, <1>2, <1>3, <1>6 DEF Popping, At, CommitStep
<1>7. QED
  BY <1>4, <1>5, <1>6

LEMMA CommitStepKeepsHandles ==
  ASSUME HandleInv, NEW t \in Caller, CommitStep(t), chat.docs \in [ChatDoc -> Nat]
  PROVE  HandleInv'
  BY CommitStepIs, PopKeepsHandles
-------------------------------------------------------------------------------
(* References come and go *)

UsedExactly == \A o : o \in Used <=> InHeap(o) # {} \/ InCalls(o) # {}

LEMMA UsedIs == UsedExactly
<1>1. ASSUME NEW o, o \in Used PROVE InHeap(o) # {} \/ InCalls(o) # {}
  <2>1. CASE o \in UNION {heap[a].refs : a \in DOMAIN heap}
    BY <2>1 DEF InHeap
  <2>2. CASE o \in UNION {calls[t].held : t \in Caller}
    BY <2>2 DEF InCalls
  <2>3. QED
    BY <1>1, <2>1, <2>2 DEF Used
<1>2. ASSUME NEW o, NEW a \in InHeap(o) PROVE o \in Used
  <2>1. o \in UNION {heap[b].refs : b \in DOMAIN heap}
    BY DEF InHeap
  <2>2. QED
    BY <2>1 DEF Used
<1>3. ASSUME NEW o, NEW t \in InCalls(o) PROVE o \in Used
  <2>1. o \in UNION {calls[s].held : s \in Caller}
    BY DEF InCalls
  <2>2. QED
    BY <2>1 DEF Used
<1>4. QED
  BY <1>1, <1>2, <1>3 DEF UsedExactly

LEMMA UsedIsNext == UsedExactly'
  BY UsedIs, PTL

LEMMA FewHold ==
  ASSUME HandleInv, NEW o
  PROVE  /\ IsFiniteSet(InHeap(o)) /\ Cardinality(InHeap(o)) \in Nat
         /\ IsFiniteSet(InCalls(o)) /\ Cardinality(InCalls(o)) \in Nat
<1>1. IsFiniteSet(1 .. MaxHeap)
  BY HostAssumption, FS_Interval
<1>2. InHeap(o) \subseteq 1 .. MaxHeap
  BY DEF HandleInv, HostTypes, InHeap
<1>3. InCalls(o) \subseteq Caller
  BY DEF InCalls
<1>4. IsFiniteSet(InHeap(o)) /\ IsFiniteSet(InCalls(o))
  BY <1>1, <1>2, <1>3, FS_Subset, HostAssumption
<1>5. QED
  BY <1>4, FS_CardinalityType

\* A set that gains or loses one element.
LEMMA OneMore ==
  ASSUME NEW S, IsFiniteSet(S), NEW x, x \notin S
  PROVE  Cardinality(S \cup {x}) = Cardinality(S) + 1
  BY FS_AddElement

LEMMA OneLess ==
  ASSUME NEW S, IsFiniteSet(S), NEW x \in S
  PROVE  Cardinality(S \ {x}) = Cardinality(S) - 1 /\ Cardinality(S) >= 1
<1>1. Cardinality(S \ {x}) = Cardinality(S) - 1 /\ IsFiniteSet(S \ {x})
  BY FS_RemoveElement
<1>2. Cardinality(S) \in Nat /\ Cardinality(S \ {x}) \in Nat
  BY <1>1, FS_CardinalityType
<1>3. QED
  BY <1>1, <1>2

LEMMA CloneKeepsHandles ==
  ASSUME HandleInv, NEW t \in Caller, Clone(t)
  PROVE  HandleInv'
<1> PICK o, c : o = Todo(t).of /\ c = calls[t]
  OBVIOUS
<1>1. /\ At(t, "clone") /\ objs' = [objs EXCEPT ![o].strong = @ + 1]
      /\ calls' = Past(t, c.held \cup {o}) /\ UNCHANGED <<heap, locks, retired>>
  BY DEF Clone
<1>2. /\ c.todo \in Seq(Steps) /\ c.todo # <<>> /\ c \in Call
      /\ Todo(t).do = "clone" /\ Todo(t) \in Steps
      /\ StepFits(Todo(t), c.args, c.held, c.users, c.gives)
      /\ Fits(Tail(c.todo), c.args, c.held, c.users, c.gives)
      /\ \A i \in DOMAIN Tail(c.todo) : ~Twice(Todo(t), Tail(c.todo)[i])
  BY <1>1, NextStep
<1>3. CallFits(t) /\ Resolved
  BY InUse DEF HandleInv, CallsFit
<1>4. o \in DOMAIN objs /\ o \in Nat /\ o \notin c.held /\ Reaches(c.users, o)
  BY <1>2, <1>3 DEF StepFits, Resolved, CallFits, HandleInv, HostTypes
<1>5. /\ DOMAIN objs' = DOMAIN objs
      /\ \A p \in DOMAIN objs : /\ objs'[p].kind = objs[p].kind /\ objs'[p].user = objs[p].user /\ objs'[p].how = objs[p].how
                                /\ objs'[p].strong = IF p = o THEN objs[p].strong + 1 ELSE objs[p].strong
                                /\ objs'[p] = [kind |-> objs'[p].kind, strong |-> objs'[p].strong,
                                               user |-> objs'[p].user, how |-> objs'[p].how]
  <2>1. \A p \in DOMAIN objs : objs[p] = [kind |-> objs[p].kind, strong |-> objs[p].strong,
                                          user |-> objs[p].user, how |-> objs[p].how]
    BY DEF HandleInv, HostTypes
  <2>2. DOMAIN objs' = DOMAIN objs /\ \A p \in DOMAIN objs \ {o} : objs'[p] = objs[p]
    BY <1>1
  <2>3. objs'[o] = [kind |-> objs[o].kind, strong |-> objs[o].strong + 1, user |-> objs[o].user, how |-> objs[o].how]
    <3>1. objs'[o] = [objs[o] EXCEPT !.strong = @ + 1]
      BY <1>1, <1>4
    <3>2. QED
      BY <1>4, <2>1, <3>1
  <2>4. QED
    BY <2>1, <2>2, <2>3
<1>6. /\ calls' \in [Caller -> Call]
      /\ calls'[t].todo = Tail(c.todo) /\ calls'[t].args = c.args /\ calls'[t].held = c.held \cup {o}
      /\ calls'[t].users = c.users /\ calls'[t].gives = c.gives
      /\ \A s \in Caller \ {t} : calls'[s] = calls[s]
  <2>1. calls \in [Caller -> Call] /\ c.held \cup {o} \in SUBSET Nat
    BY <1>2, <1>4 DEF HandleInv, HostTypes, Call
  <2>2. QED
    BY <1>1, <1>2, <2>1, PastIs
<1>7. HostTypes'
  <2>1. \A p \in DOMAIN objs' : objs'[p].strong \in Nat \ {0}
    BY <1>5 DEF HandleInv, HostTypes
  <2>2. QED
    BY <1>1, <1>5, <1>6, <2>1 DEF HandleInv, HostTypes
<1>8. HandlesResolve'
  <2>1. \A p : InHeap(p)' = InHeap(p) /\ InCalls(p)' \subseteq InCalls(p) \cup {s \in {t} : p = o}
    BY <1>1, <1>6, ZenonT(30) DEF InHeap, InCalls
  <2>2. \A p \in Used' : p \in Used \/ p = o
    BY <2>1, UsedIs, UsedIsNext DEF UsedExactly
  <2>3. QED
    BY <1>4, <1>5, <2>2 DEF HandleInv, HandlesResolve
<1>9. Counted'
  <2> SUFFICES ASSUME NEW p \in DOMAIN objs
               PROVE  objs'[p].strong = Cardinality(InHeap(p)') + Cardinality(InCalls(p)')
    BY <1>5 DEF Counted
  <2>1. InHeap(p)' = InHeap(p)
    BY <1>1 DEF InHeap
  <2>2. objs[p].strong = Cardinality(InHeap(p)) + Cardinality(InCalls(p))
    BY DEF HandleInv, Counted
  <2>3. CASE p # o
    <3>1. InCalls(p)' = InCalls(p)
      BY <1>6, <2>3 DEF InCalls
    <3>2. QED
      BY <1>5, <2>1, <2>2, <2>3, <3>1
  <2>4. CASE p = o
    <3>1. InCalls(p)' = InCalls(p) \cup {t} /\ t \notin InCalls(p)
      BY <1>4, <1>6, <2>4 DEF InCalls
    <3>2. Cardinality(InCalls(p)') = Cardinality(InCalls(p)) + 1
      BY <3>1, FewHold, OneMore
    <3>3. QED
      BY <1>5, <2>1, <2>2, <2>4, <3>2, FewHold
  <2>5. QED
    BY <2>3, <2>4
<1>10. Agree
  BY <1>5 DEF Agree
<1>11. HandlesFit'
  BY <1>1, <1>8, <1>10, HandleStays DEF HandleInv, HandlesFit, HandleFits
<1>12. CallsFit'
  <2>1. ASSUME NEW s \in Caller \ {t} PROVE CallFits(s)'
    BY <1>1, <1>6, <1>8, <1>10, CallStays DEF HandleInv, CallsFit, CallFits
  <2>2. CallFits(t)'
    <3>1. ASSUME NEW i \in DOMAIN Tail(c.todo)
          PROVE  StepFits(Tail(c.todo)[i], c.args, c.held \cup {o}, c.users, c.gives)'
      <4>1. /\ StepFits(Tail(c.todo)[i], c.args, c.held, c.users, c.gives)
            /\ ~Twice(Todo(t), Tail(c.todo)[i])
        BY <1>2 DEF Fits
      <4>2. \A a \in c.args : a \in DOMAIN heap /\ heap[a].refs \subseteq DOMAIN objs
        BY <1>3 DEF Resolved, CallFits
      <4>3. QED
        BY <1>1, <1>2, <1>5, <4>1, <4>2 DEF StepFits, Twice, Reaches
    <3>2. Fits(calls[t].todo, calls[t].args, calls[t].held, calls[t].users, calls[t].gives)'
      BY <1>2, <1>6, <3>1 DEF Fits
    <3>3. c.held \subseteq DOMAIN objs /\ c.gives \notin Answers
      BY <1>2, <1>3 DEF Resolved, StepFits
    <3>4. \A p \in c.held \cup {o} : Reaches(c.users, p)'
      BY <1>3, <1>4, <1>5, <3>3 DEF Reaches, CallFits
    <3>5. QED
      BY <1>1, <1>3, <1>6, <3>2, <3>3, <3>4 DEF CallFits
  <2>3. QED
    BY <2>1, <2>2 DEF CallsFit
<1>13. WriterLocks' /\ OneWriter'
  BY <1>1, <1>5 DEF HandleInv, WriterLocks, OneWriter
<1>14. QED
  BY <1>7, <1>8, <1>9, <1>11, <1>12, <1>13 DEF HandleInv
LEMMA NewKeepsHandles ==
  ASSUME HandleInv, NEW t \in Caller, NEW do \in {"new", "open"}, At(t, do),
         NEW kind, NEW user, NEW how, New(t, kind, user, how),
         kind \in Called => user \in calls[t].users,
         how = "writer" => kind = "store" /\ \A p \in locks : objs[p].kind # "store"
  PROVE  HandleInv'
<1> PICK c : c = calls[t]
  OBVIOUS
<1> DEFINE new == [kind |-> kind, strong |-> 1, user |-> user, how |-> how]
<1>1. PICK o \in (1 .. MaxObj) \ (DOMAIN objs \cup Used) :
          /\ objs' = Added(objs, o, new)
          /\ locks' = locks \cup {p \in {o} : how \in {"writer", "shared", "exclusive"}}
          /\ calls' = Past(t, c.held \cup {o})
  <2> DEFINE free == (1 .. MaxObj) \ (DOMAIN objs \cup Used)
             n    == CHOOSE n \in free : TRUE
  <2>1. /\ free # {} /\ objs' = Added(objs, n, new)
        /\ locks' = locks \cup {p \in {n} : how \in {"writer", "shared", "exclusive"}}
        /\ calls' = Past(t, c.held \cup {n})
    BY DEF New
  <2>2. n \in free
    BY <2>1
  <2> HIDE DEF n
  <2>3. QED
    BY <2>1, <2>2
<1>2. UNCHANGED <<heap, retired>>
  BY DEF New
<1>3. /\ c.todo \in Seq(Steps) /\ c.todo # <<>> /\ c \in Call
      /\ Todo(t).do \in {"new", "open"}
      /\ StepFits(Todo(t), c.args, c.held, c.users, c.gives)
      /\ Fits(Tail(c.todo), c.args, c.held, c.users, c.gives)
  BY NextStep
<1>4. CallFits(t) /\ Resolved /\ o \in Nat /\ o \notin DOMAIN objs /\ o \notin Used
  BY InUse, HostAssumption DEF HandleInv, CallsFit
<1>5. /\ DOMAIN objs' = DOMAIN objs \cup {o} /\ objs'[o] = new
      /\ \A p \in DOMAIN objs : objs'[p] = objs[p]
  BY <1>1, <1>4 DEF Added
<1>6. /\ calls' \in [Caller -> Call]
      /\ calls'[t].todo = Tail(c.todo) /\ calls'[t].args = c.args /\ calls'[t].held = c.held \cup {o}
      /\ calls'[t].users = c.users /\ calls'[t].gives = c.gives
      /\ \A s \in Caller \ {t} : calls'[s] = calls[s]
  <2>1. calls \in [Caller -> Call] /\ c.held \cup {o} \in SUBSET Nat
    BY <1>3, <1>4 DEF HandleInv, HostTypes, Call
  <2>2. QED
    BY <1>1, <1>3, <2>1, PastIs
<1> HIDE DEF new
<1>7. HostTypes'
  <2>1. \A p \in DOMAIN objs' : /\ objs'[p].strong \in Nat \ {0}
                                /\ objs'[p] = [kind |-> objs'[p].kind, strong |-> objs'[p].strong,
                                               user |-> objs'[p].user, how |-> objs'[p].how]
    <3>1. new = [kind |-> new.kind, strong |-> new.strong, user |-> new.user, how |-> new.how] /\ new.strong = 1
      BY DEF new
    <3>2. QED
      BY <1>5, <3>1 DEF HandleInv, HostTypes
  <2>2. locks' \subseteq DOMAIN objs'
    BY <1>1, <1>5 DEF HandleInv, HostTypes
  <2>3. QED
    BY <1>2, <1>4, <1>5, <1>6, <2>1, <2>2 DEF HandleInv, HostTypes
<1>8. HandlesResolve'
  <2>1. \A p : InHeap(p)' = InHeap(p) /\ InCalls(p)' \subseteq InCalls(p) \cup {s \in {t} : p = o}
    BY <1>2, <1>6 DEF InHeap, InCalls
  <2>2. \A p \in Used' : p \in Used \/ p = o
    BY <2>1, UsedIs, UsedIsNext DEF UsedExactly
  <2>3. QED
    BY <1>5, <2>2 DEF HandleInv, HandlesResolve
<1>9. Counted'
  <2> SUFFICES ASSUME NEW p \in DOMAIN objs \cup {o}
               PROVE  objs'[p].strong = Cardinality(InHeap(p)') + Cardinality(InCalls(p)')
    BY <1>5 DEF Counted
  <2>1. InHeap(p)' = InHeap(p)
    BY <1>2 DEF InHeap
  <2>2. CASE p # o
    <3>1. InCalls(p)' = InCalls(p)
      BY <1>6, <2>2 DEF InCalls
    <3>2. objs[p].strong = Cardinality(InHeap(p)) + Cardinality(InCalls(p))
      BY <2>2 DEF HandleInv, Counted
    <3>3. QED
      BY <1>5, <2>1, <2>2, <3>1, <3>2
  <2>3. CASE p = o
    <3>1. InHeap(p) = {} /\ InCalls(p) = {}
      BY <1>4, <2>3, UsedIs DEF UsedExactly
    <3>2. InCalls(p)' = InCalls(p) \cup {t}
      BY <1>6, <2>3 DEF InCalls
    <3>3. InHeap(p)' = {} /\ InCalls(p)' = {t}
      BY <2>1, <3>1, <3>2
    <3>4. Cardinality({}) = 0 /\ Cardinality({t}) = 1
      BY FS_EmptySet, FS_Singleton
    <3>5. QED
      BY <1>5, <2>3, <3>3, <3>4 DEF new
  <2>4. QED
    BY <2>2, <2>3
<1>10. Agree
  BY <1>5 DEF Agree
<1>11. HandlesFit'
  BY <1>2, <1>8, <1>10, HandleStays DEF HandleInv, HandlesFit, HandleFits
<1>12. CallsFit'
  <2>1. ASSUME NEW s \in Caller \ {t} PROVE CallFits(s)'
    BY <1>2, <1>6, <1>8, <1>10, CallStays DEF HandleInv, CallsFit, CallFits
  <2>2. CallFits(t)'
    <3>1. ASSUME NEW i \in DOMAIN Tail(c.todo)
          PROVE  StepFits(Tail(c.todo)[i], c.args, c.held \cup {o}, c.users, c.gives)'
      <4>1. StepFits(Tail(c.todo)[i], c.args, c.held, c.users, c.gives)
        BY <1>3 DEF Fits
      <4>2. \A a \in c.args : a \in DOMAIN heap /\ heap[a].refs \subseteq DOMAIN objs
        BY <1>4 DEF Resolved, CallFits
      <4>3. QED
        BY <1>2, <1>4, <1>5, <4>1, <4>2 DEF StepFits, Reaches
    <3>2. Fits(calls[t].todo, calls[t].args, calls[t].held, calls[t].users, calls[t].gives)'
      BY <1>3, <1>6, <3>1 DEF Fits
    <3>3. c.held \subseteq DOMAIN objs /\ c.gives \notin Answers
      BY <1>3, <1>4 DEF Resolved, StepFits
    <3>4. \A p \in c.held \cup {o} : Reaches(c.users, p)'
      BY <1>4, <1>5, <3>3 DEF Reaches, CallFits, new
    <3>5. QED
      BY <1>2, <1>4, <1>6, <3>2, <3>3, <3>4 DEF CallFits
  <2>3. QED
    BY <2>1, <2>2 DEF CallsFit
<1>13. WriterLocks'
  <2>1. ASSUME NEW p \in DOMAIN objs, objs'[p].how = "writer"
        PROVE  p \in locks' /\ objs'[p].kind = "store"
    BY <1>1, <1>5, <2>1 DEF HandleInv, WriterLocks
  <2>2. ASSUME objs'[o].how = "writer"
        PROVE  o \in locks' /\ objs'[o].kind = "store"
    BY <1>1, <1>5, <2>2 DEF new
  <2>3. QED
    BY <1>5, <2>1, <2>2 DEF WriterLocks
<1>14. OneWriter'
  <2>1. \A p, q \in DOMAIN objs : objs'[p].how = "writer" /\ objs'[q].how = "writer" => p = q
    BY <1>5 DEF HandleInv, OneWriter
  <2>2. \A p \in DOMAIN objs : objs'[p].how = "writer" /\ objs'[o].how = "writer" => FALSE
    BY <1>5 DEF HandleInv, WriterLocks, new
  <2>3. QED
    BY <1>5, <2>1, <2>2 DEF OneWriter
<1>15. QED
  BY <1>7, <1>8, <1>9, <1>11, <1>12, <1>13, <1>14 DEF HandleInv

LEMMA MakeKeepsHandles ==
  ASSUME HandleInv, NEW t \in Caller, Make(t)
  PROVE  HandleInv'
<1>1. CASE At(t, "new") /\ New(t, Todo(t).kind, Todo(t).of, None)
  <2>1. Todo(t).of \in calls[t].users /\ None # "writer"
    BY <1>1, NextStep DEF StepFits, None
  <2>2. QED
    BY <1>1, <2>1, NewKeepsHandles
<1>2. CASE At(t, "open") /\ ~Conflict(Todo(t).kind, Todo(t).of) /\ New(t, Todo(t).kind, None, Todo(t).of)
  <2>1. Todo(t) \in Steps /\ Todo(t).do = "open"
    BY <1>2, NextStep
  <2>2. Todo(t).kind \notin Called /\ (Todo(t).of = "writer" => Todo(t).kind = "store")
    BY <2>1 DEF Steps, Called
  <2>3. Todo(t).of = "writer" => \A p \in locks : objs[p].kind # "store"
    BY <1>2, <2>2 DEF Conflict
  <2>4. QED
    BY <1>2, <2>2, <2>3, NewKeepsHandles
<1>3. QED
  BY <1>1, <1>2 DEF Make
\* Fewer refer to the objects of S, and nobody refers to another object anew.
LEMMA DropKeepsObjects ==
  ASSUME HandleInv, NEW S \in SUBSET DOMAIN objs, objs' = Dropped(S), locks' = locks \cap DOMAIN objs',
         \A o : InHeap(o)' \subseteq InHeap(o) /\ InCalls(o)' \subseteq InCalls(o),
         \A o \in DOMAIN objs : Cardinality(InHeap(o)') + Cardinality(InCalls(o)')
             = Cardinality(InHeap(o)) + Cardinality(InCalls(o)) - (IF o \in S THEN 1 ELSE 0)
  PROVE  /\ HandlesResolve' /\ Counted' /\ Agree /\ WriterLocks' /\ OneWriter'
         /\ DOMAIN objs' \subseteq DOMAIN objs
         /\ \A o \in DOMAIN objs' : /\ objs'[o].strong \in Nat \ {0}
                                    /\ objs'[o] = [kind |-> objs'[o].kind, strong |-> objs'[o].strong,
                                                   user |-> objs'[o].user, how |-> objs'[o].how]
<1>1. \A o \in DOMAIN objs : /\ objs[o].strong \in Nat \ {0}
                             /\ objs[o] = [kind |-> objs[o].kind, strong |-> objs[o].strong,
                                           user |-> objs[o].user, how |-> objs[o].how]
                             /\ objs[o].strong = Cardinality(InHeap(o)) + Cardinality(InCalls(o))
  BY DEF HandleInv, HostTypes, Counted
<1> DEFINE less(o) == IF o \in S THEN 1 ELSE 0
           Left1(o) == Cardinality(InHeap(o)') + Cardinality(InCalls(o)')
<1>11. \A o \in DOMAIN objs : Left1(o) = objs[o].strong - less(o) /\ less(o) \in {0, 1}
  <2> SUFFICES ASSUME NEW o \in DOMAIN objs
               PROVE  Left1(o) = objs[o].strong - less(o) /\ less(o) \in {0, 1}
    OBVIOUS
  <2>1. Left1(o) = Cardinality(InHeap(o)) + Cardinality(InCalls(o)) - less(o)
    BY Zenon
  <2>2. Cardinality(InHeap(o)) + Cardinality(InCalls(o)) = objs[o].strong
    BY <1>1
  <2>3. less(o) \in {0, 1}
    OBVIOUS
  <2> HIDE DEF Left1, less
  <2>4. QED
    BY <2>1, <2>2, <2>3, FewHold
<1>2. DOMAIN objs' = {p \in DOMAIN objs : p \notin S \/ objs[p].strong > 1}
  BY DEF Dropped
<1>3. \A o \in DOMAIN objs' :
          objs'[o] = [kind |-> objs[o].kind, strong |-> objs[o].strong - less(o),
                      user |-> objs[o].user, how |-> objs[o].how]
  <2> SUFFICES ASSUME NEW o \in DOMAIN objs'
               PROVE  objs'[o] = [kind |-> objs[o].kind, strong |-> objs[o].strong - less(o),
                                  user |-> objs[o].user, how |-> objs[o].how]
    OBVIOUS
  <2>1. o \in DOMAIN objs
    BY <1>2
  <2>2. objs'[o] = [objs[o] EXCEPT !.strong = IF o \in S THEN objs[o].strong - 1 ELSE objs[o].strong]
    BY <1>2 DEF Dropped
  <2>3. (IF o \in S THEN objs[o].strong - 1 ELSE objs[o].strong) = objs[o].strong - less(o)
    BY <1>1, <2>1
  <2>4. QED
    BY <1>1, <2>1, <2>2, <2>3
<1> HIDE DEF less, Left1
<1>4. \A o \in DOMAIN objs' : /\ o \in DOMAIN objs
                              /\ objs'[o].kind = objs[o].kind /\ objs'[o].user = objs[o].user /\ objs'[o].how = objs[o].how
                              /\ objs'[o].strong = objs[o].strong - less(o)
  <2> SUFFICES ASSUME NEW o \in DOMAIN objs'
               PROVE  /\ o \in DOMAIN objs
                      /\ objs'[o].kind = objs[o].kind /\ objs'[o].user = objs[o].user /\ objs'[o].how = objs[o].how
                      /\ objs'[o].strong = objs[o].strong - less(o)
    OBVIOUS
  <2>1. objs'[o] = [kind |-> objs[o].kind, strong |-> objs[o].strong - less(o), user |-> objs[o].user, how |-> objs[o].how]
    BY <1>3, Zenon
  <2>2. QED
    BY <1>2, <2>1
<1>5. Counted'
  BY <1>4, <1>11 DEF Counted, Left1
<1>6. HandlesResolve'
  <2> SUFFICES ASSUME NEW o \in Used' PROVE o \in DOMAIN objs'
    BY DEF HandlesResolve
  <2>1. InHeap(o)' # {} \/ InCalls(o)' # {}
    BY UsedIsNext DEF UsedExactly
  <2>2. o \in DOMAIN objs
    BY <2>1, UsedIs DEF UsedExactly, HandleInv, HandlesResolve
  <2>3. IsFiniteSet(InHeap(o)') /\ IsFiniteSet(InCalls(o)')
    BY FewHold, FS_Subset
  <2>4. Cardinality(InHeap(o)') \in Nat /\ Cardinality(InCalls(o)') \in Nat
    BY <2>3, FS_CardinalityType
  <2>5. Cardinality(InHeap(o)') + Cardinality(InCalls(o)') >= 1
    BY <2>1, <2>3, <2>4, FS_EmptySet
  <2>6. o \in S => objs[o].strong > 1
    BY <1>1, <1>11, <2>2, <2>4, <2>5 DEF Left1, less
  <2>7. QED
    BY <1>2, <2>2, <2>6
<1>7. Agree
  BY <1>4 DEF Agree
<1>8. WriterLocks' /\ OneWriter'
  BY <1>4 DEF HandleInv, WriterLocks, OneWriter
<1>9. \A o \in DOMAIN objs' : objs'[o].strong \in Nat \ {0}
  BY <1>1, <1>2, <1>4 DEF less
<1>10. QED
  BY <1>3, <1>4, <1>5, <1>6, <1>7, <1>8, <1>9

LEMMA IdleFits == Idle \in Call /\ Idle.todo = <<>> /\ Idle.held = {} /\ Idle.args = {} /\ Idle.users = {} /\ Idle.gives = "idle"
<1>1. Fresh \in [ChatDoc -> Nat] /\ <<>> \in Seq(Steps)
  BY DEF Fresh
<1>2. QED
  BY <1>1 DEF Idle, Call, Gives, Answers

LEMMA IdleCallFits ==
  ASSUME NEW t \in Caller, calls'[t] = Idle
  PROVE  CallFits(t)'
<1>1. DOMAIN <<>> = {}
  OBVIOUS
<1>2. Fits(calls[t].todo, calls[t].args, calls[t].held, calls[t].users, calls[t].gives)'
  <2>1. DOMAIN calls'[t].todo = {}
    BY <1>1, IdleFits
  <2>2. QED
    BY <2>1 DEF Fits
<1>3. QED
  BY <1>2, IdleFits DEF CallFits

LEMMA FailKeepsHandles ==
  ASSUME HandleInv, NEW t \in Caller, Fail(t)
  PROVE  HandleInv'
<1> PICK S : S = calls[t].held
  OBVIOUS
<1>1. /\ objs' = Dropped(S) /\ locks' = locks \cap DOMAIN objs'
      /\ calls' = [calls EXCEPT ![t] = Idle] /\ UNCHANGED <<heap, retired>>
  BY DEF Fail
<1>2. S \subseteq DOMAIN objs
  BY InUse DEF HandleInv, Resolved
<1>3. calls' \in [Caller -> Call] /\ calls'[t] = Idle /\ \A s \in Caller \ {t} : calls'[s] = calls[s]
  BY <1>1, IdleFits DEF HandleInv, HostTypes
<1>4. \A o : /\ InHeap(o)' = InHeap(o)
             /\ InCalls(o)' = IF o \in S THEN InCalls(o) \ {t} ELSE InCalls(o)
             /\ o \in S <=> t \in InCalls(o)
  BY <1>1, <1>3, IdleFits DEF InHeap, InCalls
<1>5. ASSUME NEW o \in DOMAIN objs
      PROVE  Cardinality(InHeap(o)') + Cardinality(InCalls(o)')
             = Cardinality(InHeap(o)) + Cardinality(InCalls(o)) - (IF o \in S THEN 1 ELSE 0)
  <2>1. CASE o \in S
    <3>1. Cardinality(InCalls(o)') = Cardinality(InCalls(o)) - 1
      BY <1>4, <2>1, FewHold, OneLess
    <3>2. QED
      BY <1>4, <2>1, <3>1, FewHold
  <2>2. CASE o \notin S
    BY <1>4, <2>2, FewHold
  <2>3. QED
    BY <2>1, <2>2
<1>6. /\ HandlesResolve' /\ Counted' /\ Agree /\ WriterLocks' /\ OneWriter'
      /\ DOMAIN objs' \subseteq DOMAIN objs
      /\ \A o \in DOMAIN objs' : /\ objs'[o].strong \in Nat \ {0}
                                 /\ objs'[o] = [kind |-> objs'[o].kind, strong |-> objs'[o].strong,
                                                user |-> objs'[o].user, how |-> objs'[o].how]
  <2>1. \A o : InHeap(o)' \subseteq InHeap(o) /\ InCalls(o)' \subseteq InCalls(o)
    BY <1>4
  <2>2. QED
    BY <1>1, <1>2, <1>5, <2>1, DropKeepsObjects
<1>7. HostTypes'
  BY <1>1, <1>3, <1>6 DEF HandleInv, HostTypes
<1>8. HandlesFit'
  BY <1>1, <1>6, HandleStays DEF HandleInv, HandlesFit, HandleFits
<1>9. CallsFit'
  <2>1. ASSUME NEW s \in Caller \ {t} PROVE CallFits(s)'
    BY <1>1, <1>3, <1>6, CallStays DEF HandleInv, CallsFit, CallFits
  <2>2. CallFits(t)'
    BY <1>3, IdleCallFits
  <2>3. QED
    BY <2>1, <2>2 DEF CallsFit
<1>10. QED
  BY <1>6, <1>7, <1>8, <1>9 DEF HandleInv

LEMMA FreeKeepsHandles ==
  ASSUME HandleInv, NEW a \in DOMAIN heap, Free(a)
  PROVE  HandleInv'
<1> PICK S : S = heap[a].refs
  OBVIOUS
<1>1. /\ objs' = Dropped(S) /\ locks' = locks \cap DOMAIN objs'
      /\ heap' = Restrict(heap, DOMAIN heap \ {a}) /\ UNCHANGED <<calls, retired>>
      /\ \A t \in Caller : a \notin calls[t].args
  BY DEF Free
<1>2. S \subseteq DOMAIN objs
  BY InUse DEF HandleInv, Resolved
<1>3. DOMAIN heap' = DOMAIN heap \ {a} /\ \A b \in DOMAIN heap' : heap'[b] = heap[b]
  BY <1>1 DEF Restrict
<1>4. \A o : /\ InCalls(o)' = InCalls(o)
             /\ InHeap(o)' = IF o \in S THEN InHeap(o) \ {a} ELSE InHeap(o)
             /\ o \in S <=> a \in InHeap(o)
  BY <1>1, <1>3 DEF InHeap, InCalls
<1>5. ASSUME NEW o \in DOMAIN objs
      PROVE  Cardinality(InHeap(o)') + Cardinality(InCalls(o)')
             = Cardinality(InHeap(o)) + Cardinality(InCalls(o)) - (IF o \in S THEN 1 ELSE 0)
  <2>1. CASE o \in S
    <3>1. Cardinality(InHeap(o)') = Cardinality(InHeap(o)) - 1
      BY <1>4, <2>1, FewHold, OneLess
    <3>2. QED
      BY <1>4, <2>1, <3>1, FewHold
  <2>2. CASE o \notin S
    BY <1>4, <2>2, FewHold
  <2>3. QED
    BY <2>1, <2>2
<1>6. /\ HandlesResolve' /\ Counted' /\ Agree /\ WriterLocks' /\ OneWriter'
      /\ DOMAIN objs' \subseteq DOMAIN objs
      /\ \A o \in DOMAIN objs' : /\ objs'[o].strong \in Nat \ {0}
                                 /\ objs'[o] = [kind |-> objs'[o].kind, strong |-> objs'[o].strong,
                                                user |-> objs'[o].user, how |-> objs'[o].how]
  <2>1. \A o : InHeap(o)' \subseteq InHeap(o) /\ InCalls(o)' \subseteq InCalls(o)
    BY <1>4
  <2>2. QED
    BY <1>1, <1>2, <1>5, <2>1, DropKeepsObjects
<1>7. HostTypes'
  BY <1>1, <1>3, <1>6 DEF HandleInv, HostTypes
<1>8. HandlesFit'
  <2> SUFFICES ASSUME NEW b \in DOMAIN heap' PROVE HandleFits(b)'
    BY DEF HandlesFit
  <2>1. b \in DOMAIN heap /\ heap'[b] = heap[b] /\ HandleFits(b) /\ heap[b].users \cap retired' = {}
    BY <1>1, <1>3 DEF HandleInv, HandlesFit, HandleFits
  <2>2. QED
    BY <1>6, <2>1, HandleStays DEF HandleInv
<1>9. CallsFit'
  <2> SUFFICES ASSUME NEW t \in Caller PROVE CallFits(t)'
    BY DEF CallsFit
  <2>1. CallFits(t) /\ calls'[t] = calls[t]
    BY <1>1 DEF HandleInv, CallsFit
  <2>2. \A b \in calls[t].args : b \in DOMAIN heap' /\ heap'[b] = heap[b]
    BY <1>1, <1>3, <2>1 DEF CallFits
  <2>3. calls[t].users \cap retired' = {}
    BY <1>1, <2>1 DEF CallFits
  <2>4. QED
    BY <1>6, <2>1, <2>2, <2>3, CallStays DEF HandleInv
<1>10. QED
  BY <1>6, <1>7, <1>8, <1>9 DEF HandleInv

LEMMA RetireKeepsHandles ==
  ASSUME HandleInv, NEW u \in User, Retire(u)
  PROVE  HandleInv'
<1>1. /\ \A a \in DOMAIN heap : u \notin heap[a].users
      /\ \A t \in Caller : u \notin calls[t].users
      /\ retired' = retired \cup {u} /\ UNCHANGED <<heap, objs, locks, calls>>
  BY DEF Retire, Keeps
<1>2. HostTypes' /\ WriterLocks' /\ OneWriter'
  BY <1>1 DEF HandleInv, HostTypes, WriterLocks, OneWriter
<1>3. HandlesResolve' /\ Counted'
  <2>1. Used' = Used /\ \A o : InHeap(o)' = InHeap(o) /\ InCalls(o)' = InCalls(o)
    BY <1>1 DEF Used, InHeap, InCalls
  <2>2. QED
    BY <1>1, <2>1 DEF HandleInv, HandlesResolve, Counted
<1>4. HandlesFit'
  BY <1>1 DEF HandleInv, HandlesFit, HandleFits, Reaches
<1>5. CallsFit'
  <2> SUFFICES ASSUME NEW t \in Caller PROVE CallFits(t)'
    BY DEF CallsFit
  <2>1. CallFits(t)
    BY DEF HandleInv, CallsFit
  <2>2. Fits(calls[t].todo, calls[t].args, calls[t].held, calls[t].users, calls[t].gives)'
    BY <1>1, <2>1 DEF CallFits, Fits, StepFits, Reaches
  <2>3. QED
    BY <1>1, <2>1, <2>2 DEF CallFits, Reaches
<1>6. QED
  BY <1>2, <1>3, <1>4, <1>5 DEF HandleInv
LEMMA AnswerKeepsHandles ==
  ASSUME HandleInv, NEW t \in Caller, Return(t), calls[t].gives \in Answers
  PROVE  HandleInv'
<1>1. UNCHANGED <<heap, objs, locks, retired>> /\ calls' = [calls EXCEPT ![t] = Idle]
  BY DEF Return, Answers, Running
<1>2. calls' \in [Caller -> Call] /\ calls'[t] = Idle /\ \A s \in Caller \ {t} : calls'[s] = calls[s]
  BY <1>1, IdleFits DEF HandleInv, HostTypes
<1>3. calls[t].held = {} /\ calls'[t].held = {}
  BY <1>2, IdleFits DEF HandleInv, CallsFit, CallFits
<1>4. \A o : InHeap(o)' = InHeap(o) /\ InCalls(o)' = InCalls(o)
  BY <1>1, <1>2, <1>3 DEF InHeap, InCalls
<1>5. HostTypes' /\ Counted' /\ WriterLocks' /\ OneWriter'
  BY <1>1, <1>2, <1>4 DEF HandleInv, HostTypes, Counted, WriterLocks, OneWriter
<1>6. HandlesResolve'
  <2>1. \A o \in Used' : o \in Used
    BY <1>4, UsedIs, UsedIsNext DEF UsedExactly
  <2>2. QED
    BY <1>1, <2>1 DEF HandleInv, HandlesResolve
<1>7. HandlesFit' /\ Agree
  BY <1>1 DEF HandleInv, HandlesFit, HandleFits, Reaches, Agree
<1>8. CallsFit'
  <2>1. ASSUME NEW s \in Caller \ {t} PROVE CallFits(s)'
    BY <1>1, <1>2, <1>6, <1>7, CallStays DEF HandleInv, CallsFit, CallFits
  <2>2. CallFits(t)'
    BY <1>2, IdleCallFits
  <2>3. QED
    BY <2>1, <2>2 DEF CallsFit
<1>9. QED
  BY <1>5, <1>6, <1>7, <1>8 DEF HandleInv

\* What a call that returns a handle does: its references become the handle's.
LEMMA HandleIs ==
  ASSUME NEW t \in Caller, Return(t), calls[t].gives \notin Answers
  PROVE  /\ UNCHANGED <<objs, locks, retired, chat>> /\ calls' = [calls EXCEPT ![t] = Idle]
         /\ \E a \in Pointers :
                /\ DOMAIN heap' = DOMAIN heap \cup {a} /\ \A b \in DOMAIN heap : heap'[b] = heap[b]
                /\ heap'[a] = [kind |-> calls[t].gives, refs |-> calls[t].held, users |-> calls[t].users]
<1> PICK a, new : /\ a = CHOOSE b \in Pointers : TRUE
                  /\ new = [kind |-> calls[t].gives, refs |-> calls[t].held, users |-> calls[t].users]
  OBVIOUS
<1>1. a \in Pointers /\ a \notin DOMAIN heap
  BY DEF Return, Pointers
<1>2. heap' = Added(heap, a, new)
  BY DEF Return, Given, Answers
<1>3. DOMAIN heap' = DOMAIN heap \cup {a} /\ heap'[a] = new /\ \A b \in DOMAIN heap : heap'[b] = heap[b]
  BY <1>1, <1>2 DEF Added
<1>4. UNCHANGED <<objs, locks, retired, chat>> /\ calls' = [calls EXCEPT ![t] = Idle]
  BY DEF Return, Answers
<1>5. QED
  BY <1>1, <1>3, <1>4

LEMMA HandleKeepsHandles ==
  ASSUME HandleInv, NEW t \in Caller, Return(t), calls[t].gives \notin Answers
  PROVE  HandleInv'
<1> PICK c : c = calls[t]
  OBVIOUS
<1>1. UNCHANGED <<objs, locks, retired>> /\ calls' = [calls EXCEPT ![t] = Idle]
  BY HandleIs
<1>2. PICK a \in Pointers :
          /\ DOMAIN heap' = DOMAIN heap \cup {a} /\ \A b \in DOMAIN heap : heap'[b] = heap[b]
          /\ heap'[a] = [kind |-> c.gives, refs |-> c.held, users |-> c.users]
  BY HandleIs
<1>3. calls' \in [Caller -> Call] /\ calls'[t] = Idle /\ \A s \in Caller \ {t} : calls'[s] = calls[s]
  BY <1>1, IdleFits DEF HandleInv, HostTypes
<1>4. a \in 1 .. MaxHeap /\ a \notin DOMAIN heap /\ CallFits(t) /\ c \in Call
  BY DEF Pointers, HandleInv, CallsFit, HostTypes
<1>5. heap'[a].kind = c.gives /\ heap'[a].refs = c.held /\ heap'[a].users = c.users
  BY <1>2
<1>6. \A o : /\ InHeap(o)' = IF o \in c.held THEN InHeap(o) \cup {a} ELSE InHeap(o)
             /\ InCalls(o)' = IF o \in c.held THEN InCalls(o) \ {t} ELSE InCalls(o)
             /\ a \notin InHeap(o)
             /\ o \in c.held <=> t \in InCalls(o)
  BY <1>2, <1>3, <1>4, <1>5, IdleFits DEF InHeap, InCalls
<1>7. HostTypes'
  <2>1. heap'[a] \in [kind : Gives \ Answers, refs : SUBSET Nat, users : SUBSET User]
    BY <1>2, <1>4 DEF Call
  <2>2. QED
    BY <1>1, <1>2, <1>3, <1>4, <2>1 DEF HandleInv, HostTypes
<1>8. HandlesResolve' /\ Agree
  <2>1. \A o \in Used' : o \in Used
    BY <1>6, UsedIs, UsedIsNext DEF UsedExactly
  <2>2. QED
    BY <1>1, <2>1 DEF HandleInv, HandlesResolve, Agree
<1>9. Counted'
  <2> SUFFICES ASSUME NEW o \in DOMAIN objs
               PROVE  objs[o].strong = Cardinality(InHeap(o)') + Cardinality(InCalls(o)')
    BY <1>1 DEF Counted
  <2>1. objs[o].strong = Cardinality(InHeap(o)) + Cardinality(InCalls(o))
    BY DEF HandleInv, Counted
  <2>2. CASE o \in c.held
    <3>1. /\ Cardinality(InHeap(o)') = Cardinality(InHeap(o)) + 1
          /\ Cardinality(InCalls(o)') = Cardinality(InCalls(o)) - 1
      BY <1>6, <2>2, FewHold, OneMore, OneLess
    <3>2. QED
      BY <2>1, <3>1, FewHold
  <2>3. CASE o \notin c.held
    BY <1>6, <2>1, <2>3
  <2>4. QED
    BY <2>2, <2>3
<1>10. HandlesFit'
  <2>1. ASSUME NEW b \in DOMAIN heap PROVE HandleFits(b)'
    <3>1. b \in DOMAIN heap' /\ heap'[b] = heap[b] /\ HandleFits(b) /\ heap[b].users \cap retired' = {}
      BY <1>1, <1>2 DEF HandleInv, HandlesFit, HandleFits
    <3>2. QED
      BY <1>8, <3>1, HandleStays DEF HandleInv
  <2>2. HandleFits(a)'
    BY <1>1, <1>4, <1>5 DEF HandleFits, CallFits, Reaches
  <2>3. QED
    BY <1>2, <2>1, <2>2 DEF HandlesFit
<1>11. CallsFit'
  <2>1. ASSUME NEW s \in Caller \ {t} PROVE CallFits(s)'
    BY <1>1, <1>2, <1>3, <1>8, CallStays DEF HandleInv, CallsFit, CallFits
  <2>2. CallFits(t)'
    BY <1>3, IdleCallFits
  <2>3. QED
    BY <2>1, <2>2 DEF CallsFit
<1>12. WriterLocks' /\ OneWriter'
  BY <1>1 DEF HandleInv, WriterLocks, OneWriter
<1>13. QED
  BY <1>7, <1>8, <1>9, <1>10, <1>11, <1>12 DEF HandleInv

LEMMA ReturnKeepsHandles == ASSUME HandleInv, NEW t \in Caller, Return(t) PROVE HandleInv'
  BY AnswerKeepsHandles, HandleKeepsHandles
-------------------------------------------------------------------------------
(* The chat index *)

LEMMA Typed ==
  ASSUME HandleInv, NEW t \in Caller
  PROVE  calls[t] \in Call /\ Left(t) \in Nat
  BY DEF HandleInv, HostTypes, Call, Left

\* Where a commit is, by what it does next.
LEMMA Where ==
  ASSUME HandleInv, ChatInv, NEW t \in Caller, calls[t].gives = "commit", NEW do, At(t, do)
  PROVE  /\ CommitFits(t)
         /\ \/ do = "read" /\ Left(t) = 4
            \/ do = "build" /\ Left(t) = 3
            \/ do = "publish" /\ Left(t) = 2
            \/ do = "unlock" /\ Left(t) = 1
<1>1. CommitFits(t)
  BY DEF ChatInv, CommitsFit
<1>2. Left(t) \in 1 .. 4 /\ Todo(t) = calls[t].todo[1]
  <2>1. calls[t].todo \in Seq(Steps) /\ calls[t].todo # <<>>
    BY NextStep
  <2>2. Left(t) <= 4
    BY <1>1 DEF CommitFits, PartOf
  <2>3. Left(t) \in Nat \ {0} /\ Todo(t) = calls[t].todo[1]
    BY <2>1, Popped DEF Left, Todo
  <2>4. QED
    BY <2>2, <2>3
<1>3. Todo(t) = Program[4 - Left(t) + 1]
  BY <1>1, <1>2 DEF CommitFits, PartOf
<1>4. /\ Left(t) = 4 => Todo(t) = Step("read", None, None)
      /\ Left(t) = 3 => Todo(t) = Step("build", None, None)
      /\ Left(t) = 2 => Todo(t) = Step("publish", None, None)
      /\ Left(t) = 1 => Todo(t) = Step("unlock", None, None)
  BY <1>3 DEF Program
<1>5. Todo(t).do = do
  BY DEF At, Todo
<1>6. QED
  BY <1>1, <1>2, <1>4, <1>5 DEF Step

LEMMA PartPopped ==
  ASSUME HandleInv, NEW t \in Caller, Popping(t), PartOf(t)
  PROVE  PartOf(t)' /\ Left(t)' = Left(t) - 1
<1> PICK p : p = calls[t].todo
  OBVIOUS
<1>1. p \in Seq(Steps) /\ p # <<>> /\ calls'[t].todo = Tail(p)
  BY Typed DEF Call, Popping
<1>2. /\ Tail(p) \in Seq(Steps) /\ Len(Tail(p)) = Len(p) - 1 /\ Len(p) \in Nat \ {0}
      /\ \A i \in DOMAIN Tail(p) : Tail(p)[i] = p[i + 1]
  BY <1>1, Popped
<1>3. Left(t) = Len(p) /\ Left(t)' = Len(p) - 1
  BY <1>1, <1>2 DEF Left
<1>4. ASSUME NEW i \in 1 .. Len(p) - 1
      PROVE  Tail(p)[i] = Program[4 - (Len(p) - 1) + i]
  <2>1. i \in DOMAIN Tail(p) /\ i + 1 \in 1 .. Len(p) /\ 4 - Len(p) + (i + 1) = 4 - (Len(p) - 1) + i
    BY <1>2
  <2>2. Tail(p)[i] = p[i + 1]
    BY <1>2, <2>1
  <2>3. p[i + 1] = Program[4 - Len(p) + (i + 1)]
    BY <1>3, <2>1 DEF PartOf
  <2>4. QED
    BY <2>1, <2>2, <2>3
<1>5. Left(t)' <= 4
  BY <1>2, <1>3 DEF PartOf
<1>6. \A i \in 1 .. Left(t)' : calls'[t].todo[i] = Program[4 - Left(t)' + i]
  BY <1>1, <1>3, <1>4
<1>7. QED
  BY <1>3, <1>5, <1>6 DEF PartOf

\* A step of t that leaves the chat index and its handles as they are.
LEMMA ChatStays ==
  ASSUME ChatInv, UNCHANGED chat, Handles("chat")' = Handles("chat"), NEW t \in Caller,
         \A s \in Caller \ {t} : calls'[s] = calls[s],
         calls'[t].gives = "chat" =>
             calls[t].gives = "chat" \/ (Handles("chat") = {} /\ \A s \in Caller : calls[s].gives # "chat"),
         calls'[t].gives = "commit" => CommitFits(t)',
         t \in chat.readers => calls'[t].gives = "commit" /\ Left(t)' \in 1 .. 3
  PROVE  ChatInv'
<1>1. ChatTypes' /\ Ordered'
  BY DEF ChatInv, ChatTypes, Ordered, AtMost
<1>2. OneChat'
  BY DEF ChatInv, OneChat
<1>3. CommitsFit'
  <2>1. ASSUME NEW s \in Caller \ {t}, calls'[s].gives = "commit" PROVE CommitFits(s)'
    <3>1. CommitFits(s) /\ calls'[s] = calls[s]
      BY <2>1 DEF ChatInv, CommitsFit
    <3>2. QED
      BY <3>1 DEF CommitFits, PartOf, Left, AtMost
  <2>2. QED
    BY <2>1 DEF CommitsFit
<1>4. ReadersCommit'
  BY DEF ChatInv, ReadersCommit, Left, ChatTypes
<1>5. QED
  BY <1>1, <1>2, <1>3, <1>4 DEF ChatInv

LEMMA NoReader ==
  ASSUME ChatInv, NEW t, calls[t].gives # "commit"
  PROVE  t \notin chat.readers
  BY DEF ChatInv, ReadersCommit

LEMMA BeginKeepsChat ==
  ASSUME HandleInv, ChatInv, NEW t \in Caller, Begin(t)
  PROVE  ChatInv'
<1>1. PICK fn, program, args, users, gives :
          Enter(t, fn, program, args, users, gives) /\ Entering(program, args, users, gives)
  BY BeginIs
<1> DEFINE c == [todo |-> program, args |-> args, held |-> {}, users |-> users, gives |-> gives, seen |-> Fresh]
<1>2. calls' = [calls EXCEPT ![t] = c] /\ UNCHANGED <<heap, chat>> /\ calls[t].gives = "idle"
  BY <1>1 DEF Enter, Running
<1>3. calls'[t] = c /\ \A s \in Caller \ {t} : calls'[s] = calls[s]
  BY <1>2 DEF HandleInv, HostTypes
<1>4. /\ calls'[t].gives = gives /\ calls'[t].todo = program /\ calls'[t].args = args
  BY <1>3
<1>5. Handles("chat")' = Handles("chat")
  BY <1>2 DEF Handles
<1>6. calls'[t].gives = "chat" => Handles("chat") = {} /\ \A s \in Caller : calls[s].gives # "chat"
  BY <1>1, <1>4 DEF Entering
<1>7. ASSUME calls'[t].gives = "commit" PROVE CommitFits(t)'
  <2>1. calls'[t].todo = Program /\ calls'[t].args \cap Handles("chat") # {}
    BY <1>1, <1>4, <1>7 DEF Entering
  <2>2. Left(t)' = 4
    BY <2>1 DEF Left, Program
  <2>3. PartOf(t)'
    <3>1. \A i \in 1 .. 4 : 4 - 4 + i = i
      OBVIOUS
    <3>2. QED
      BY <2>1, <2>2, <3>1 DEF PartOf
  <2>4. QED
    BY <1>5, <2>1, <2>2, <2>3 DEF CommitFits
<1>8. t \notin chat.readers
  BY <1>2, NoReader
<1>9. QED
  BY <1>2, <1>3, <1>5, <1>6, <1>7, <1>8, ChatStays

LEMMA MakingKeepsChat ==
  ASSUME HandleInv, ChatInv, NEW t \in Caller, Clone(t) \/ Make(t)
  PROVE  ChatInv'
<1>1. PICK do \in {"clone", "new", "open"} : At(t, do)
  BY DEF Clone, Make
<1>2. UNCHANGED <<heap, chat>> /\ \E held : calls' = Past(t, held)
  BY DEF Clone, Make, New
<1>3. calls[t].gives \notin Answers
  BY <1>1, NextStep DEF StepFits
<1>4. calls'[t].gives = calls[t].gives /\ \A s \in Caller \ {t} : calls'[s] = calls[s]
  <2>1. calls \in [Caller -> Call] /\ calls[t] \in Call
    BY DEF HandleInv, HostTypes
  <2>2. PICK held : calls' = [calls EXCEPT ![t] = [calls[t] EXCEPT !.todo = Tail(@), !.held = held]]
    BY <1>2 DEF Past
  <2>3. QED
    BY <2>1, <2>2 DEF Call
<1>5. Handles("chat")' = Handles("chat") /\ t \notin chat.readers
  BY <1>2, <1>3, NoReader DEF Handles, Answers
<1>6. /\ calls'[t].gives = "chat" =>
             calls[t].gives = "chat" \/ (Handles("chat") = {} /\ \A s \in Caller : calls[s].gives # "chat")
      /\ calls'[t].gives # "commit"
  BY <1>3, <1>4 DEF Answers
<1>7. QED
  BY <1>2, <1>4, <1>5, <1>6, ChatStays

LEMMA ProceedKeepsChat ==
  ASSUME HandleInv, ChatInv, NEW t \in Caller, Proceed(t)
  PROVE  ChatInv'
<1>1. calls[t].todo # <<>> /\ calls' = Past(t, calls[t].held) /\ UNCHANGED <<heap, chat>>
  BY DEF Proceed, At
<1>2. calls \in [Caller -> Call] /\ calls[t].held \in SUBSET Nat
  BY DEF HandleInv, HostTypes, Call
<1>3. Popping(t) /\ calls'[t].seen = calls[t].seen
  BY <1>1, <1>2, PastIs DEF Popping
<1>4. Handles("chat")' = Handles("chat")
  BY <1>1 DEF Handles
<1>5. ASSUME calls[t].gives = "commit"
      PROVE  CommitFits(t)' /\ Left(t)' = 2
  <2>1. CommitFits(t) /\ Left(t) = 3
    BY <1>5, Where DEF Proceed
  <2>2. PartOf(t)' /\ Left(t)' = 2
    BY <1>3, <2>1, PartPopped DEF CommitFits
  <2>3. QED
    BY <1>1, <1>3, <1>4, <2>1, <2>2 DEF CommitFits, Popping
<1>6. calls'[t].gives = calls[t].gives /\ \A s \in Caller \ {t} : calls'[s] = calls[s]
  BY <1>3 DEF Popping
<1>7. t \in chat.readers => calls'[t].gives = "commit" /\ Left(t)' \in 1 .. 3
  BY <1>5, <1>6, NoReader
<1>8. /\ calls'[t].gives = "chat" =>
             calls[t].gives = "chat" \/ (Handles("chat") = {} /\ \A s \in Caller : calls[s].gives # "chat")
      /\ calls'[t].gives = "commit" => CommitFits(t)'
  BY <1>5, <1>6
<1>9. QED
  BY <1>1, <1>4, <1>6, <1>7, <1>8, ChatStays
LEMMA EditKeepsChat ==
  ASSUME HandleInv, ChatInv, NEW t \in Caller, EditStep(t)
  PROVE  ChatInv'
<1> PICK d : d = Todo(t).of
  OBVIOUS
<1>1. /\ At(t, "edit") /\ chat.readers = {} /\ calls' = Past(t, {}) /\ UNCHANGED heap
      /\ chat' = [chat EXCEPT !.edits = @ + 1, !.docs[d] = chat.edits + 1]
  BY DEF EditStep
<1>2. calls \in [Caller -> Call] /\ calls[t].gives = "status" /\ d \in ChatDoc
  <2>1. Todo(t) \in Steps /\ Todo(t).do = "edit" /\ calls[t].gives = "status"
    BY <1>1, NextStep DEF StepFits
  <2>2. QED
    BY <2>1 DEF HandleInv, HostTypes, Steps
<1>3. Popping(t)
  BY <1>1, <1>2, PastIs DEF Popping, At
<1>4. /\ chat'.edits = chat.edits + 1 /\ chat'.docs = [chat.docs EXCEPT ![d] = chat.edits + 1]
      /\ chat'.shown = chat.shown /\ chat'.promised = chat.promised /\ chat'.readers = chat.readers
      /\ chat' = [docs |-> chat'.docs, shown |-> chat'.shown, readers |-> chat'.readers, edits |-> chat'.edits,
                  promised |-> chat'.promised]
  <2>1. chat = [docs |-> chat.docs, shown |-> chat.shown, readers |-> chat.readers, edits |-> chat.edits,
                promised |-> chat.promised]
    BY DEF ChatInv, ChatTypes
  <2>2. QED
    BY <1>1, <2>1
<1>5. ChatTypes'
  BY <1>1, <1>2, <1>4 DEF ChatInv, ChatTypes
<1>6. Ordered'
  BY <1>2, <1>4 DEF ChatInv, ChatTypes, Ordered, AtMost
<1>7. Handles("chat")' = Handles("chat") /\ \A s \in Caller : calls'[s].gives = calls[s].gives
  BY <1>1, <1>3 DEF Handles, Popping
<1>8. OneChat'
  BY <1>7 DEF ChatInv, OneChat
<1>9. CommitsFit'
  <2> SUFFICES ASSUME NEW s \in Caller, calls'[s].gives = "commit" PROVE CommitFits(s)'
    BY DEF CommitsFit
  <2>1. CommitFits(s) /\ calls'[s] = calls[s]
    BY <1>2, <1>3, <1>7 DEF ChatInv, CommitsFit, Popping
  <2>2. Left(s)' = Left(s) /\ Left(s) \notin 1 .. 3
    BY <1>1, <2>1 DEF CommitFits, Left
  <2>3. QED
    BY <1>4, <1>7, <2>1, <2>2 DEF CommitFits, PartOf, AtMost
<1>10. ReadersCommit'
  BY <1>1, <1>4 DEF ReadersCommit
<1>11. QED
  BY <1>5, <1>6, <1>8, <1>9, <1>10 DEF ChatInv

LEMMA CommitStepKeepsChat ==
  ASSUME HandleInv, ChatInv, NEW t \in Caller, CommitStep(t)
  PROVE  ChatInv'
<1>1. /\ Popping(t) /\ calls[t].gives = "commit" /\ UNCHANGED heap
      /\ calls'[t].seen = IF At(t, "read") THEN chat.docs ELSE calls[t].seen
  BY CommitStepIs DEF ChatInv, ChatTypes
<1>2. /\ CommitFits(t)
      /\ At(t, "read") => Left(t) = 4
      /\ At(t, "publish") => Left(t) = 2
      /\ At(t, "unlock") => Left(t) = 1
  BY <1>1, Where DEF CommitStep
<1>3. PartOf(t)' /\ Left(t)' = Left(t) - 1
  BY <1>1, <1>2, PartPopped DEF CommitFits
<1>4. /\ Handles("chat")' = Handles("chat") /\ \A s \in Caller : calls'[s].gives = calls[s].gives
      /\ calls'[t].args \cap Handles("chat")' # {}
  BY <1>1, <1>2 DEF Handles, Popping, CommitFits
<1>5. OneChat'
  BY <1>4 DEF ChatInv, OneChat
<1>6. \A s \in Caller \ {t} : calls'[s] = calls[s] /\ Left(s)' = Left(s)
  BY <1>1 DEF Popping, Left
<1>7. chat = [docs |-> chat.docs, shown |-> chat.shown, readers |-> chat.readers, edits |-> chat.edits,
              promised |-> chat.promised]
  BY DEF ChatInv, ChatTypes
<1>8. calls[t].seen \in [ChatDoc -> Nat]
  BY Typed DEF Call
<1>9. CASE At(t, "read")
  <2>1. chat' = [docs |-> chat.docs, shown |-> chat.shown, readers |-> chat.readers \cup {t}, edits |-> chat.edits,
                 promised |-> chat.promised]
    <3>1. chat' = [chat EXCEPT !.readers = @ \cup {t}]
      BY <1>9 DEF CommitStep, At
    <3>2. QED
      BY <1>7, <3>1
  <2>2. ChatTypes' /\ Ordered'
    BY <2>1 DEF ChatInv, ChatTypes, Ordered, AtMost
  <2>3. Left(t)' = 3 /\ calls'[t].seen = chat.docs
    BY <1>1, <1>2, <1>3, <1>9
  <2>4. CommitFits(t)'
    BY <1>3, <1>4, <2>1, <2>3 DEF CommitFits
  <2>5. ASSUME NEW s \in Caller \ {t}, calls'[s].gives = "commit" PROVE CommitFits(s)'
    <3>1. CommitFits(s) /\ calls'[s] = calls[s]
      BY <1>6, <2>5 DEF ChatInv, CommitsFit
    <3>2. QED
      BY <1>4, <1>6, <2>1, <3>1 DEF CommitFits, PartOf, AtMost
  <2>6. CommitsFit'
    BY <2>4, <2>5 DEF CommitsFit
  <2>7. ReadersCommit'
    BY <1>1, <1>4, <1>6, <2>1, <2>3 DEF ChatInv, ChatTypes, ReadersCommit
  <2>8. QED
    BY <1>5, <2>2, <2>6, <2>7 DEF ChatInv
<1>10. CASE At(t, "publish")
  <2> PICK seen : seen = calls[t].seen
    OBVIOUS
  <2>1. chat' = [docs |-> chat.docs, shown |-> seen, readers |-> chat.readers, edits |-> chat.edits,
                 promised |-> chat.promised]
    <3>1. chat' = [chat EXCEPT !.shown = seen]
      BY <1>10 DEF CommitStep, At
    <3>2. QED
      BY <1>7, <3>1
  <2>2. seen = chat.docs /\ t \in chat.readers
    BY <1>2, <1>10 DEF CommitFits
  <2>3. ChatTypes'
    BY <1>8, <2>1 DEF ChatInv, ChatTypes
  <2>4. Ordered'
    BY <2>1, <2>2 DEF ChatInv, ChatTypes, Ordered, AtMost
  <2>5. Left(t)' = 1 /\ calls'[t].seen = seen
    <3>1. ~At(t, "read")
      BY <1>10 DEF At
    <3>2. QED
      BY <1>1, <1>2, <1>3, <1>10, <3>1
  <2>6. CommitFits(t)'
    BY <1>3, <1>4, <1>8, <2>1, <2>2, <2>5 DEF CommitFits, AtMost
  <2>7. ASSUME NEW s \in Caller \ {t}, calls'[s].gives = "commit" PROVE CommitFits(s)'
    <3>1. CommitFits(s) /\ calls'[s] = calls[s]
      BY <1>6, <2>7 DEF ChatInv, CommitsFit
    <3>2. calls[s].seen \in [ChatDoc -> Nat]
      BY Typed DEF Call
    <3>3. Left(s) <= 1 => AtMost(calls[s].seen, seen)
      BY <2>2, <3>1, <3>2 DEF CommitFits, AtMost, ChatInv, ChatTypes, Ordered
    <3>4. QED
      BY <1>4, <1>6, <2>1, <3>1, <3>3 DEF CommitFits, PartOf, AtMost
  <2>8. CommitsFit'
    BY <2>6, <2>7 DEF CommitsFit
  <2>9. ReadersCommit'
    BY <1>1, <1>4, <1>6, <2>1, <2>5 DEF ChatInv, ChatTypes, ReadersCommit
  <2>10. QED
    BY <1>5, <2>3, <2>4, <2>8, <2>9 DEF ChatInv
<1>11. CASE At(t, "unlock")
  <2>1. chat' = [docs |-> chat.docs, shown |-> chat.shown, readers |-> chat.readers \ {t}, edits |-> chat.edits,
                 promised |-> chat.promised]
    <3>1. chat' = [chat EXCEPT !.readers = @ \ {t}]
      BY <1>11 DEF CommitStep, At
    <3>2. QED
      BY <1>7, <3>1
  <2>2. ChatTypes' /\ Ordered'
    BY <2>1 DEF ChatInv, ChatTypes, Ordered, AtMost
  <2>3. Left(t)' = 0 /\ calls'[t].seen = calls[t].seen
    <3>1. ~At(t, "read")
      BY <1>11 DEF At
    <3>2. QED
      BY <1>1, <1>2, <1>3, <1>11, <3>1
  <2>4. CommitFits(t)'
    BY <1>2, <1>3, <1>4, <1>11, <2>1, <2>3 DEF CommitFits, AtMost
  <2>5. ASSUME NEW s \in Caller \ {t}, calls'[s].gives = "commit" PROVE CommitFits(s)'
    <3>1. CommitFits(s) /\ calls'[s] = calls[s]
      BY <1>6, <2>5 DEF ChatInv, CommitsFit
    <3>2. QED
      BY <1>4, <1>6, <2>1, <3>1 DEF CommitFits, PartOf, AtMost
  <2>6. CommitsFit'
    BY <2>4, <2>5 DEF CommitsFit
  <2>7. ReadersCommit'
    BY <1>4, <1>6, <2>1 DEF ChatInv, ChatTypes, ReadersCommit
  <2>8. QED
    BY <1>5, <2>2, <2>6, <2>7 DEF ChatInv
<1>12. QED
  BY <1>9, <1>10, <1>11 DEF CommitStep
\* A call that ends and leaves no chat handle.
LEMMA EndKeepsChat ==
  ASSUME HandleInv, ChatInv, NEW t \in Caller, calls' = [calls EXCEPT ![t] = Idle],
         Handles("chat")' = Handles("chat"),
         chat' = [docs |-> chat.docs, shown |-> chat.shown, readers |-> chat.readers \ {t}, edits |-> chat.edits,
                  promised |-> chat'.promised],
         chat'.promised \in [ChatDoc -> Nat], AtMost(chat'.promised, chat.shown)
  PROVE  ChatInv'
<1>1. calls'[t] = Idle /\ \A s \in Caller \ {t} : calls'[s] = calls[s]
  BY IdleFits DEF HandleInv, HostTypes
<1>2. calls'[t].gives = "idle"
  BY <1>1, IdleFits
<1>3. ChatTypes'
  BY DEF ChatInv, ChatTypes
<1>4. Ordered'
  BY DEF ChatInv, Ordered, AtMost
<1>5. OneChat'
  BY <1>1, <1>2 DEF ChatInv, OneChat
<1>6. CommitsFit'
  <2> SUFFICES ASSUME NEW s \in Caller, calls'[s].gives = "commit" PROVE CommitFits(s)'
    BY DEF CommitsFit
  <2>1. s # t /\ calls'[s] = calls[s] /\ CommitFits(s)
    BY <1>1, <1>2 DEF ChatInv, CommitsFit
  <2>2. QED
    BY <2>1 DEF CommitFits, PartOf, AtMost, Left
<1>7. ReadersCommit'
  <2> SUFFICES ASSUME NEW s \in chat.readers \ {t} PROVE calls'[s].gives = "commit" /\ Left(s)' \in 1 .. 3
    BY DEF ReadersCommit
  <2>1. calls'[s] = calls[s]
    BY <1>1 DEF ChatInv, ChatTypes
  <2>2. QED
    BY <2>1 DEF ChatInv, ReadersCommit, Left
<1>8. QED
  BY <1>3, <1>4, <1>5, <1>6, <1>7 DEF ChatInv

LEMMA ChatIs ==
  ChatInv => chat = [docs |-> chat.docs, shown |-> chat.shown, readers |-> chat.readers, edits |-> chat.edits,
                     promised |-> chat.promised]
  BY DEF ChatInv, ChatTypes

LEMMA FailKeepsChat ==
  ASSUME HandleInv, ChatInv, NEW t \in Caller, Fail(t)
  PROVE  ChatInv'
<1>1. /\ calls' = [calls EXCEPT ![t] = Idle] /\ chat' = [chat EXCEPT !.readers = @ \ {t}]
      /\ UNCHANGED heap
  BY DEF Fail
<1>2. chat' = [docs |-> chat.docs, shown |-> chat.shown, readers |-> chat.readers \ {t}, edits |-> chat.edits,
               promised |-> chat.promised]
  BY <1>1, ChatIs
<1>3. chat'.promised = chat.promised
  BY <1>2
<1>4. chat.promised \in [ChatDoc -> Nat] /\ AtMost(chat.promised, chat.shown)
  BY DEF ChatInv, ChatTypes, Ordered
<1>5. Handles("chat")' = Handles("chat")
  BY <1>1 DEF Handles
<1>6. QED
  BY <1>1, <1>2, <1>3, <1>4, <1>5, EndKeepsChat

LEMMA ReturnKeepsChat ==
  ASSUME HandleInv, ChatInv, NEW t \in Caller, Return(t)
  PROVE  ChatInv'
<1>1. calls[t].todo = <<>> /\ calls[t].gives # "idle" /\ calls' = [calls EXCEPT ![t] = Idle]
  BY DEF Return, Running
<1>2. chat.readers \ {t} = chat.readers
  <2>1. Left(t) = 0
    BY <1>1 DEF Left
  <2>2. QED
    BY <2>1 DEF ChatInv, ReadersCommit
<1>3. chat.promised \in [ChatDoc -> Nat] /\ AtMost(chat.promised, chat.shown)
  BY DEF ChatInv, ChatTypes, Ordered
<1>4. CASE calls[t].gives = "commit"
  <2> PICK seen : seen = calls[t].seen
    OBVIOUS
  <2>1. Left(t) = 0 /\ CommitFits(t)
    BY <1>1, <1>4 DEF ChatInv, CommitsFit, Left
  <2>2. seen \in [ChatDoc -> Nat] /\ AtMost(seen, chat.shown)
    BY <2>1, Typed DEF CommitFits, Call
  <2>3. chat' = [docs |-> chat.docs, shown |-> chat.shown, readers |-> chat.readers \ {t}, edits |-> chat.edits,
                 promised |-> seen]
    <3>1. chat' = [chat EXCEPT !.promised = seen]
      BY <1>4 DEF Return
    <3>2. QED
      BY <1>2, <3>1, ChatIs
  <2>4. chat'.promised = seen
    BY <2>3
  <2>5. Handles("chat")' = Handles("chat")
    BY <1>4 DEF Return, Handles
  <2>6. QED
    BY <1>1, <2>2, <2>3, <2>4, <2>5, EndKeepsChat
<1>5. CASE calls[t].gives = "status"
  <2>1. chat' = chat /\ Handles("chat")' = Handles("chat")
    BY <1>5 DEF Return, Handles
  <2>2. QED
    BY <1>1, <1>2, <1>3, <2>1, ChatIs, EndKeepsChat
<1>6. CASE calls[t].gives \notin Answers
  <2>1. UNCHANGED chat
    BY <1>6, HandleIs
  <2>2. PICK a \in Pointers :
            /\ DOMAIN heap' = DOMAIN heap \cup {a} /\ \A b \in DOMAIN heap : heap'[b] = heap[b]
            /\ heap'[a] = [kind |-> calls[t].gives, refs |-> calls[t].held, users |-> calls[t].users]
    BY <1>6, HandleIs
  <2>3. heap'[a].kind = calls[t].gives /\ a \notin DOMAIN heap
    BY <2>2 DEF Pointers
  <2>4. CASE calls[t].gives # "chat"
    <3>1. Handles("chat")' = Handles("chat")
      BY <2>2, <2>3, <2>4 DEF Handles
    <3>2. QED
      BY <1>1, <1>2, <1>3, <2>1, <3>1, ChatIs, EndKeepsChat
  <2>5. CASE calls[t].gives = "chat"
    <3>1. Handles("chat") = {} /\ \A s \in Caller \ {t} : calls[s].gives # "chat"
      BY <2>5 DEF ChatInv, OneChat
    <3>2. Handles("chat")' = {a}
      BY <2>2, <2>3, <2>5, <3>1 DEF Handles
    <3>3. calls'[t] = Idle /\ \A s \in Caller \ {t} : calls'[s] = calls[s]
      BY <1>1, IdleFits DEF HandleInv, HostTypes
    <3>4. \A s \in Caller : calls[s].gives # "commit"
      BY <3>1 DEF ChatInv, CommitsFit, CommitFits
    <3>5. calls'[t].gives = "idle"
      BY <3>3, IdleFits
    <3>6. \A s \in Caller : calls'[s].gives \notin {"commit", "chat"}
      BY <3>1, <3>3, <3>4, <3>5
    <3>7. chat.readers = {}
      BY <3>4 DEF ChatInv, ReadersCommit, ChatTypes
    <3>8. QED
      BY <2>1, <3>2, <3>6, <3>7 DEF ChatInv, ChatTypes, Ordered, AtMost, OneChat, CommitsFit, ReadersCommit
  <2>6. QED
    BY <2>4, <2>5
<1>7. calls[t].gives \in Gives
  BY Typed DEF Call
<1>8. QED
  BY <1>1, <1>4, <1>5, <1>6 DEF Answers

LEMMA NewChat ==
  ASSUME chat = NoChat
  PROVE  ChatTypes /\ Ordered /\ chat.readers = {}
<1>1. Fresh \in [ChatDoc -> Nat] /\ \A d \in ChatDoc : Fresh[d] = 0
  BY DEF Fresh
<1>2. QED
  BY <1>1 DEF NoChat, ChatTypes, Ordered, AtMost

LEMMA FreeKeepsChat ==
  ASSUME HandleInv, ChatInv, NEW a \in DOMAIN heap, Free(a)
  PROVE  ChatInv'
<1>1. /\ heap' = Restrict(heap, DOMAIN heap \ {a}) /\ UNCHANGED calls
      /\ \A t \in Caller : a \notin calls[t].args
      /\ chat' = IF heap[a].kind = "chat" THEN NoChat ELSE chat
  BY DEF Free
<1>2. DOMAIN heap' = DOMAIN heap \ {a} /\ \A b \in DOMAIN heap' : heap'[b] = heap[b]
  BY <1>1 DEF Restrict
<1>3. Handles("chat")' = Handles("chat") \ {a}
  BY <1>2 DEF Handles
<1>4. CASE heap[a].kind = "chat"
  <2>1. Handles("chat") = {a}
    BY <1>4 DEF ChatInv, OneChat, Handles
  <2>2. \A t \in Caller : calls[t].gives \notin {"commit", "chat"}
    BY <1>1, <2>1 DEF ChatInv, CommitsFit, CommitFits, OneChat
  <2>3. ChatTypes' /\ Ordered' /\ chat'.readers = {}
    <3>1. (chat = NoChat => ChatTypes /\ Ordered /\ chat.readers = {})'
      BY NewChat, PTL
    <3>2. chat' = NoChat'
      BY <1>1, <1>4 DEF NoChat, Fresh
    <3>3. QED
      BY <3>1, <3>2
  <2>4. OneChat' /\ CommitsFit' /\ ReadersCommit'
    BY <1>1, <1>3, <2>1, <2>2, <2>3 DEF OneChat, CommitsFit, ReadersCommit
  <2>5. QED
    BY <2>3, <2>4 DEF ChatInv
<1>5. CASE heap[a].kind # "chat"
  <2>1. Handles("chat")' = Handles("chat") /\ chat' = chat
    BY <1>1, <1>3, <1>5 DEF Handles
  <2>2. QED
    BY <1>1, <2>1 DEF ChatInv, ChatTypes, Ordered, AtMost, OneChat, CommitsFit, CommitFits, PartOf, Left, ReadersCommit
<1>6. QED
  BY <1>4, <1>5

LEMMA RetireKeepsChat ==
  ASSUME ChatInv, NEW u \in User, Retire(u)
  PROVE  ChatInv'
<1>1. UNCHANGED <<heap, calls, chat>>
  BY DEF Retire
<1>2. QED
  BY <1>1 DEF ChatInv, ChatTypes, Ordered, AtMost, OneChat, CommitsFit, CommitFits, PartOf, Left, ReadersCommit, Handles

-------------------------------------------------------------------------------
(* The specification *)

HostIInv == HandleInv /\ ChatInv

LEMMA InitFits == HostInit => HostIInv
<1> SUFFICES ASSUME HostInit PROVE HostIInv
  OBVIOUS
<1>1. /\ DOMAIN heap = {} /\ DOMAIN objs = {} /\ locks = {} /\ retired = {}
      /\ calls = [t \in Caller |-> Idle] /\ chat = NoChat
  <2>1. DOMAIN <<>> = {}
    OBVIOUS
  <2>2. QED
    BY <2>1 DEF HostInit
<1>2. calls \in [Caller -> Call] /\ \A t \in Caller : calls[t] = Idle
  BY <1>1, IdleFits
<1>3. HostTypes /\ Counted /\ HandlesFit /\ WriterLocks /\ OneWriter
  BY <1>1, <1>2 DEF HostTypes, Counted, HandlesFit, WriterLocks, OneWriter
<1>4. HandlesResolve
  <2>1. Used = {}
    BY <1>1, <1>2, IdleFits DEF Used
  <2>2. QED
    BY <2>1 DEF HandlesResolve
<1>5. CallsFit
  <2> SUFFICES ASSUME NEW t \in Caller PROVE CallFits(t)
    BY DEF CallsFit
  <2>1. DOMAIN <<>> = {}
    OBVIOUS
  <2>2. Fits(Idle.todo, Idle.args, Idle.held, Idle.users, Idle.gives)
    BY <2>1, IdleFits DEF Fits
  <2>3. QED
    BY <1>2, <2>2, IdleFits DEF CallFits
<1>6. ChatInv
  <2>1. ChatTypes /\ Ordered /\ chat.readers = {}
    BY <1>1, NewChat
  <2>2. Handles("chat") = {} /\ \A t \in Caller : calls[t].gives = "idle"
    BY <1>1, <1>2, IdleFits DEF Handles
  <2>3. QED
    BY <2>1, <2>2 DEF ChatInv, OneChat, CommitsFit, ReadersCommit
<1>7. QED
  BY <1>3, <1>4, <1>5, <1>6 DEF HostIInv, HandleInv

LEMMA NextKeeps == HostIInv /\ [HostNext]_hostVars => HostIInv'
<1> SUFFICES ASSUME HostIInv, [HostNext]_hostVars PROVE HostIInv'
  OBVIOUS
<1>1. HandleInv /\ ChatInv /\ chat.docs \in [ChatDoc -> Nat]
  BY DEF HostIInv, ChatInv, ChatTypes
<1>2. ASSUME NEW t \in Caller, Begin(t) PROVE HostIInv'
  BY <1>1, <1>2, BeginKeepsHandles, BeginKeepsChat DEF HostIInv
<1>3. ASSUME NEW t \in Caller, Clone(t) PROVE HostIInv'
  BY <1>1, <1>3, CloneKeepsHandles, MakingKeepsChat DEF HostIInv
<1>4. ASSUME NEW t \in Caller, Make(t) PROVE HostIInv'
  BY <1>1, <1>4, MakeKeepsHandles, MakingKeepsChat DEF HostIInv
<1>5. ASSUME NEW t \in Caller, Proceed(t) PROVE HostIInv'
  BY <1>1, <1>5, ProceedKeepsHandles, ProceedKeepsChat DEF HostIInv
<1>6. ASSUME NEW t \in Caller, EditStep(t) PROVE HostIInv'
  BY <1>1, <1>6, EditKeepsHandles, EditKeepsChat DEF HostIInv
<1>7. ASSUME NEW t \in Caller, CommitStep(t) PROVE HostIInv'
  BY <1>1, <1>7, CommitStepKeepsHandles, CommitStepKeepsChat DEF HostIInv
<1>8. ASSUME NEW t \in Caller, Return(t) PROVE HostIInv'
  BY <1>1, <1>8, ReturnKeepsHandles, ReturnKeepsChat DEF HostIInv
<1>9. ASSUME NEW t \in Caller, Fail(t) PROVE HostIInv'
  BY <1>1, <1>9, FailKeepsHandles, FailKeepsChat DEF HostIInv
<1>10. ASSUME NEW a \in DOMAIN heap, Free(a) PROVE HostIInv'
  BY <1>1, <1>10, FreeKeepsHandles, FreeKeepsChat DEF HostIInv
<1>11. ASSUME NEW u \in User, Retire(u) PROVE HostIInv'
  BY <1>1, <1>11, RetireKeepsHandles, RetireKeepsChat DEF HostIInv
<1>12. CASE UNCHANGED hostVars
  <2>1. UNCHANGED <<heap, objs, locks, retired, calls, chat>>
    BY <1>12 DEF hostVars
  <2>2. ChatInv'
    BY <1>1, <2>1 DEF ChatInv, ChatTypes, Ordered, AtMost, OneChat, CommitsFit, CommitFits, PartOf, Left,
        ReadersCommit, Handles
  <2>3. HostTypes' /\ WriterLocks' /\ OneWriter' /\ HandlesFit'
    BY <1>1, <2>1 DEF HandleInv, HostTypes, WriterLocks, OneWriter, HandlesFit, HandleFits, Reaches
  <2>4. HandlesResolve' /\ Counted'
    BY <1>1, <2>1 DEF HandleInv, HandlesResolve, Used, Counted, InHeap, InCalls
  <2>5. CallsFit'
    BY <1>1, <2>1, SMTT(30) DEF HandleInv, CallsFit, CallFits, Fits, StepFits, Reaches
  <2>6. QED
    BY <2>2, <2>3, <2>4, <2>5 DEF HostIInv, HandleInv
<1>13. QED
  BY <1>2, <1>3, <1>4, <1>5, <1>6, <1>7, <1>8, <1>9, <1>10, <1>11, <1>12 DEF HostNext

\* Every reachable state of every host satisfies the invariants of handles, calls and chat.
THEOREM HostInvariant == HostSpec => []HostIInv
<1>1. HostInit => HostIInv
  BY InitFits
<1>2. HostIInv /\ [HostNext]_hostVars => HostIInv'
  BY NextKeeps
<1>3. QED
  BY <1>1, <1>2, PTL DEF HostSpec

\* Nothing a live handle or a running call refers to has been dropped, in whatever order handles
\* are freed: the reference counts of the engine, memory and store functions.
THEOREM HandlesAlwaysResolve == HostSpec => []HandlesResolve
<1>1. HostIInv => HandlesResolve
  BY DEF HostIInv, HandleInv
<1>2. QED
  BY <1>1, HostInvariant, PTL

\* A callback of an embedder or a counter is only called with userdata the host has not released.
THEOREM CallbacksStayValid == HostSpec => []CallbacksAreValid
<1>1. HostIInv => CallbacksAreValid
  <2> SUFFICES ASSUME HandleInv, NEW t \in Caller, At(t, "callback")
               PROVE  Todo(t).of \in DOMAIN objs /\ objs[Todo(t).of].user \notin retired
    BY DEF HostIInv, CallbacksAreValid
  <2>1. PICK a \in calls[t].args : Todo(t).of \in heap[a].refs /\ objs[Todo(t).of].kind \in Called
    BY NextStep DEF StepFits
  <2>2. a \in DOMAIN heap /\ HandleFits(a) /\ heap[a].refs \subseteq DOMAIN objs
    BY InUse DEF HandleInv, CallsFit, CallFits, HandlesFit, Resolved
  <2>3. QED
    BY <2>1, <2>2 DEF HandleFits, Reaches
<1>2. QED
  BY <1>1, HostInvariant, PTL

\* An object has as many references as it counts, every lock on a directory belongs to an object
\* in use, and a call that has ended reads the chat index no more.
THEOREM NothingIsLeaked == HostSpec => []NothingLeaks
<1>1. HostIInv => NothingLeaks
  <2> SUFFICES ASSUME HandleInv, ChatInv PROVE NothingLeaks
    BY DEF HostIInv
  <2>1. \A o \in DOMAIN objs : objs[o].strong = Cardinality({a \in DOMAIN heap : o \in heap[a].refs})
                                              + Cardinality({t \in Caller : o \in calls[t].held})
    BY DEF HandleInv, Counted, InHeap, InCalls
  <2>2. ASSUME NEW o \in locks PROVE o \in Used
    <3>1. o \in DOMAIN objs /\ objs[o].strong \in Nat \ {0}
      BY DEF HandleInv, HostTypes
    <3>2. objs[o].strong = Cardinality(InHeap(o)) + Cardinality(InCalls(o))
      BY <3>1 DEF HandleInv, Counted
    <3>3. InHeap(o) # {} \/ InCalls(o) # {}
      <4>1. Cardinality({}) = 0
        BY FS_EmptySet
      <4>2. InHeap(o) = {} /\ InCalls(o) = {} => objs[o].strong = 0
        BY <3>2, <4>1
      <4>3. QED
        BY <3>1, <4>2
    <3>4. QED
      BY <3>3, UsedIs DEF UsedExactly
  <2>3. \A t \in Caller : ~Running(t) => t \notin chat.readers
    BY NoReader DEF Running
  <2>4. QED
    BY <2>1, <2>2, <2>3 DEF NothingLeaks
<1>2. QED
  BY <1>1, HostInvariant, PTL

\* A store that an engine or a conversation still refers to is opened for writing by nobody else.
THEOREM AlwaysOneWriter == HostSpec => []OneWriter
<1>1. HostIInv => OneWriter
  BY DEF HostIInv, HandleInv
<1>2. QED
  BY <1>1, HostInvariant, PTL

\* What a commit of the chat index has returned is found from then on, whatever edits and commits
\* run beside it: the index is swapped before the lock is released.
THEOREM CommittedStaysFound == HostSpec => []CommittedIsFound
<1>1. HostIInv => CommittedIsFound
  BY DEF HostIInv, ChatInv, Ordered, AtMost, ChatTypes, CommittedIsFound
<1>2. QED
  BY <1>1, HostInvariant, PTL
===============================================================================
