--------------------------- MODULE TransferProofs ---------------------------
(***************************************************************************)
(* What Transfer keeps for any vaults, files and threads: an import adds   *)
(* what its file lists and was not there, once, and nothing of a file it   *)
(* cannot read; what was exported comes back; what is reported is saved.   *)
(*                                                                         *)
(* The loops of the code are folds over a sequence of entries.  A fold is  *)
(* first shown to go through the sequence in turns; what it computes is    *)
(* then shown turn by turn.                                                *)
(***************************************************************************)
EXTENDS Transfer, SequenceTheorems, FiniteSetTheorems, TLAPS

-----------------------------------------------------------------------------
(* Folds in turns *)

\* Among the subsets of a finite set one is smallest: none with an element less is left.
LEMMA SmallestSubset ==
  ASSUME NEW S, IsFiniteSet(S), NEW B \in SUBSET SUBSET S, B # {}
  PROVE  \E T \in B : \A x \in T : T \ {x} \notin B
<1>1. IsWellFoundedOn(StrictSubsetOrdering(S), SUBSET S)
  BY FS_StrictSubsetOrderingWellFounded, FS_FiniteSubsetsOfFinite
<1>2. PICK T \in B : \A U \in B : ~ (<<U, T>> \in StrictSubsetOrdering(S))
  BY <1>1, WFMin
<1>3. ASSUME NEW x \in T PROVE T \ {x} \notin B
  <2>1. <<T \ {x}, T>> \in StrictSubsetOrdering(S)
    BY <1>3 DEF StrictSubsetOrdering
  <2> QED
    BY <2>1, <1>2
<1> QED
  BY <1>3

\* Induction over the numbers up to n, for a set of them instead of a predicate.
LEMMA Turns ==
  ASSUME NEW n \in Nat, NEW P, 0 \in P, \A k \in 1..n : k - 1 \in P => k \in P
  PROVE  \A k \in 0..n : k \in P
<1> DEFINE B == {T \in SUBSET (1..n) : \E k \in 0..n : T = 1..k /\ k \notin P}
<1>1. SUFFICES ASSUME NEW k \in 0..n, k \notin P PROVE FALSE
  OBVIOUS
<1>2. 1..k \in B
  BY <1>1
<1>3. IsFiniteSet(1..n) /\ B \in SUBSET SUBSET (1..n) /\ B # {}
  <2>1. IsFiniteSet(1..n)
    BY FS_Interval
  <2> QED
    BY <1>2, <2>1
<1>4. PICK T \in B : \A x \in T : T \ {x} \notin B
  <2> HIDE DEF B
  <2> QED
    BY <1>3, SmallestSubset
<1>5. PICK m \in 0..n : T = 1..m /\ m \notin P
  BY <1>4
<1>6. m \in 1..n /\ m \in T /\ m - 1 \notin P
  BY <1>5
<1>7. T \ {m} = 1..(m - 1) /\ m - 1 \in 0..n
  BY <1>5, <1>6
<1>8. T \ {m} \in B
  BY <1>4, <1>6, <1>7
<1> QED
  BY <1>4, <1>6, <1>8

\* A fold over 1..n takes the greatest index last.
LEMMA GreatestIndex ==
  ASSUME NEW n \in Nat, NEW s \in SUBSET (1..n), s # {}
  PROVE  Max(s) \in s /\ \A i \in s : i <= Max(s)
<1> DEFINE P == {k \in 0..n : \A u \in SUBSET (1..k) : u = {} \/ \E i \in u : \A j \in u : i >= j}
<1>1. 0 \in P
  OBVIOUS
<1>2. ASSUME NEW k \in 1..n, k - 1 \in P PROVE k \in P
  <2>1. SUFFICES ASSUME NEW u \in SUBSET (1..k), u # {}
                 PROVE  \E i \in u : \A j \in u : i >= j
    BY <1>2
  <2>2. CASE k \in u
    BY <2>2
  <2>3. CASE k \notin u
    <3>1. u \in SUBSET (1..(k - 1))
      BY <2>3
    <3> QED
      BY <1>2, <2>1, <3>1
  <2> QED
    BY <2>2, <2>3
<1> HIDE DEF P
<1>3. n \in P
  BY <1>1, <1>2, Turns
<1>4. PICK i \in s : \A j \in s : i >= j
  BY <1>3 DEF P
<1>5. \A j \in s : j \in Nat
  OBVIOUS
<1> QED
  BY <1>4, <1>5 DEF Max

\* h folds the indices 1..k with the step G, from base on.
FoldsBy(h, k, base, G) ==
  \A s \in SUBSET (1..k) : h[s] = IF s = {} THEN base ELSE G[<<Max(s), h[s \ {Max(s)}]>>]

\* Over the indices 1..n there is a fold for every step G, with values in A.
LEMMA FoldExists ==
  ASSUME NEW n \in Nat, NEW A, NEW base \in A, NEW G \in [(1..n) \X A -> A]
  PROVE  \E h \in [SUBSET (1..n) -> A] : FoldsBy(h, n, base, G)
<1> USE DEF FoldsBy
<1> DEFINE Folds(k, h) == FoldsBy(h, k, base, G)
           P == {k \in 0..n : \E h \in [SUBSET (1..k) -> A] : Folds(k, h)}
<1>1. 0 \in P
  <2> DEFINE h == [s \in SUBSET (1..0) |-> base]
  <2>1. h \in [SUBSET (1..0) -> A] /\ \A s \in SUBSET (1..0) : s = {} /\ h[s] = base
    OBVIOUS
  <2>2. Folds(0, h)
    BY <2>1
  <2> HIDE DEF h, Folds
  <2> QED
    BY <2>1, <2>2
<1>2. ASSUME NEW k \in 1..n, k - 1 \in P PROVE k \in P
  <2>1. PICK h \in [SUBSET (1..(k - 1)) -> A] : Folds(k - 1, h)
    BY <1>2
  <2> DEFINE more == [s \in SUBSET (1..k) |-> IF k \in s THEN G[<<k, h[s \ {k}]>>] ELSE h[s]]
  <2>2. ASSUME NEW s \in SUBSET (1..k)
        PROVE  /\ k \in s => Max(s) = k /\ s \ {k} \in SUBSET (1..(k - 1))
               /\ k \notin s => s \in SUBSET (1..(k - 1))
               /\ s # {} => Max(s) \in s
    <3>1. s # {} => Max(s) \in s /\ \A i \in s : i <= Max(s)
      <4>1. k \in Nat
        OBVIOUS
      <4> HIDE DEF P, Folds
      <4> QED
        BY <4>1, GreatestIndex
    <3>2. k \in s => Max(s) \in 1..k /\ k <= Max(s)
      BY <3>1
    <3> QED
      BY <3>1, <3>2
  <2>3. more \in [SUBSET (1..k) -> A]
    <3>1. ASSUME NEW s \in SUBSET (1..k) PROVE (IF k \in s THEN G[<<k, h[s \ {k}]>>] ELSE h[s]) \in A
      <4>1. CASE k \in s
        <5>1. h[s \ {k}] \in A
          BY <2>2, <4>1
        <5>2. <<k, h[s \ {k}]>> \in (1..n) \X A
          BY <5>1
        <5> HIDE DEF Folds
        <5> QED
          BY <4>1, <5>2
      <4>2. CASE k \notin s
        BY <2>2, <4>2
      <4> QED
        BY <4>1, <4>2
    <3> QED
      BY <3>1
  <2>4. Folds(k, more)
    <3>1. SUFFICES ASSUME NEW s \in SUBSET (1..k)
                   PROVE  more[s] = IF s = {} THEN base ELSE G[<<Max(s), more[s \ {Max(s)}]>>]
      OBVIOUS
    <3>2. CASE k \in s
      <4>1. Max(s) = k /\ s # {} /\ more[s] = G[<<k, h[s \ {k}]>>] /\ more[s \ {k}] = h[s \ {k}]
        BY <2>2, <3>2
      <4> QED
        BY <4>1
    <3>3. CASE k \notin s
      <4>1. s \in SUBSET (1..(k - 1)) /\ more[s] = h[s] /\ more[s \ {Max(s)}] = h[s \ {Max(s)}]
        BY <2>2, <3>3
      <4>2. h[s] = IF s = {} THEN base ELSE G[<<Max(s), h[s \ {Max(s)}]>>]
        BY <2>1, <4>1
      <4> QED
        BY <4>1, <4>2
    <3> QED
      BY <3>2, <3>3
  <2> HIDE DEF Folds, more
  <2> QED
    BY <2>3, <2>4
<1> HIDE DEF P
<1>3. n \in P
  BY <1>1, <1>2, Turns
<1> QED
  BY <1>3 DEF P

\* The entries that are kept are appended one after the other.
OnlyInTurns(g, seq, kept, n) ==
  /\ g[0] = <<>> /\ Only(seq, kept) = g[n]
  /\ \A k \in 1..n : g[k] = IF seq[k] \in kept THEN Append(g[k - 1], seq[k]) ELSE g[k - 1]

LEMMA OnlyTurns ==
  ASSUME NEW S, NEW seq \in Seq(S), NEW kept
  PROVE  \E g \in [0..Len(seq) -> Seq(S)] : OnlyInTurns(g, seq, kept, Len(seq))
<1> DEFINE n == Len(seq)
           A == Seq(S)
           step(i, acc) == IF seq[i] \in kept THEN Append(acc, seq[i]) ELSE acc
           Folds(h) == h = [s \in SUBSET (1..n) |-> IF s = {} THEN <<>>
                              ELSE step(Max(s), h[s \ {Max(s)}])]
           iter == CHOOSE h : Folds(h)
           G == [ia \in (1..n) \X A |-> step(ia[1], ia[2])]
           none == <<>>
<1>1. n \in Nat /\ DOMAIN seq = 1..n /\ none \in A /\ \A i \in 1..n : seq[i] \in S
  BY LenProperties, ElementOfSeq, EmptySeq
<1>2. Only(seq, kept) = iter[1..n]
  BY <1>1 DEF Only, FoldLeft, MapThenFoldSet
<1>3. ASSUME NEW i \in 1..n, NEW acc \in A PROVE step(i, acc) \in A
  BY <1>1, AppendProperties
<1> HIDE DEF A, step
<1>4. G \in [(1..n) \X A -> A]
  BY <1>3
<1>5. \A i \in 1..n : \A acc \in A : G[<<i, acc>>] = step(i, acc)
  OBVIOUS
<1> HIDE DEF G, n, none, Folds
<1>6. PICK h \in [SUBSET (1..n) -> A] :
        \A s \in SUBSET (1..n) : h[s] = IF s = {} THEN none ELSE G[<<Max(s), h[s \ {Max(s)}]>>]
  <2>1. n \in Nat /\ none \in A
    BY <1>1
  <2>2. \E h \in [SUBSET (1..n) -> A] : FoldsBy(h, n, none, G)
    BY <1>4, <2>1, FoldExists
  <2> QED
    BY <2>2 DEF FoldsBy
<1>7. \A s \in SUBSET (1..n) : s # {} => Max(s) \in s
  BY <1>1, GreatestIndex
<1>8. Folds(h)
  <2>1. \A s \in SUBSET (1..n) : h[s] = IF s = {} THEN none ELSE step(Max(s), h[s \ {Max(s)}])
    <3>1. SUFFICES ASSUME NEW s \in SUBSET (1..n), s # {}
                   PROVE  h[s] = step(Max(s), h[s \ {Max(s)}])
      BY <1>6
    <3>2. Max(s) \in 1..n /\ h[s \ {Max(s)}] \in A
      BY <1>6, <1>7, <3>1
    <3> QED
      BY <1>5, <1>6, <3>1, <3>2
  <2>2. h = [s \in SUBSET (1..n) |-> h[s]]
    BY <1>6
  <2> QED
    BY <2>1, <2>2 DEF Folds, none
<1>9. Folds(iter)
  BY <1>8
<1> HIDE DEF iter
<1> USE DEF Folds, none
<1> DEFINE g == [k \in 0..n |-> iter[1..k]]
<1>10. \A k \in 1..n : Max(1..k) = k /\ (1..k) \ {k} = 1..(k - 1) /\ 1..k # {}
  <2>1. SUFFICES ASSUME NEW k \in 1..n PROVE Max(1..k) = k /\ (1..k) \ {k} = 1..(k - 1) /\ 1..k # {}
    OBVIOUS
  <2>2. 1..k \in SUBSET (1..n) /\ k \in 1..k /\ n \in Nat
    BY <1>1
  <2>3. Max(1..k) \in 1..k /\ \A i \in 1..k : i <= Max(1..k)
    BY <2>2, GreatestIndex
  <2> QED
    BY <2>2, <2>3
<1>11. g[0] = <<>> /\ \A k \in 1..n : g[k] = step(k, g[k - 1])
  <2>1. g[0] = <<>>
    BY <1>1, <1>9
  <2>2. ASSUME NEW k \in 1..n PROVE g[k] = step(k, g[k - 1])
    <3>1. 1..k \in SUBSET (1..n) /\ k \in 0..n /\ k - 1 \in 0..n
      BY <1>1
    <3>2. iter[1..k] = step(Max(1..k), iter[(1..k) \ {Max(1..k)}])
      BY <1>9, <1>10, <3>1
    <3> QED
      BY <1>10, <3>1, <3>2
  <2> QED
    BY <2>1, <2>2
<1>12. \A k \in 0..n : g[k] \in A
  <2> DEFINE P == {k \in 0..n : g[k] \in A}
  <2> HIDE DEF g
  <2>1. 0 \in P
    BY <1>1, <1>11
  <2>2. \A k \in 1..n : k - 1 \in P => k \in P
    BY <1>1, <1>3, <1>11
  <2> HIDE DEF P
  <2>3. \A k \in 0..n : k \in P
    BY <1>1, <2>1, <2>2, Turns
  <2> QED
    BY <2>3 DEF P
<1>13. g \in [0..n -> A] /\ Only(seq, kept) = g[n]
  BY <1>1, <1>2, <1>12
<1> HIDE DEF g
<1> QED
  BY <1>11, <1>13 DEF step, A, n, OnlyInTurns

\* The rows of a file are merged one after the other, each into what the ones before it left.
MergedInTurns(g, entries, new, n) ==
  /\ g[0] = entries /\ Merged(entries, new) = g[n]
  /\ \A k \in 1..n :
       g[k] = IF HasLive(g[k - 1], new[k].name) THEN g[k - 1] ELSE Append(g[k - 1], new[k])

LEMMA MergedTurns ==
  ASSUME NEW S, NEW entries \in Seq(S), NEW new \in Seq(S)
  PROVE  \E g \in [0..Len(new) -> Seq(S)] : MergedInTurns(g, entries, new, Len(new))
<1> DEFINE n == Len(new)
           A == Seq(S)
           step(i, acc) == IF HasLive(acc, new[i].name) THEN acc ELSE Append(acc, new[i])
           Folds(h) == h = [s \in SUBSET (1..n) |-> IF s = {} THEN entries
                              ELSE step(Max(s), h[s \ {Max(s)}])]
           iter == CHOOSE h : Folds(h)
           G == [ia \in (1..n) \X A |-> step(ia[1], ia[2])]
<1>1. n \in Nat /\ DOMAIN new = 1..n /\ entries \in A /\ \A i \in 1..n : new[i] \in S
  BY LenProperties, ElementOfSeq
<1>2. Merged(entries, new) = iter[1..n]
  BY <1>1 DEF Merged, FoldLeft, MapThenFoldSet
<1>3. ASSUME NEW i \in 1..n, NEW acc \in A PROVE step(i, acc) \in A
  BY <1>1, AppendProperties
<1> HIDE DEF A, step
<1>4. G \in [(1..n) \X A -> A]
  BY <1>3
<1>5. \A i \in 1..n : \A acc \in A : G[<<i, acc>>] = step(i, acc)
  OBVIOUS
<1> HIDE DEF G, n, Folds
<1>6. PICK h \in [SUBSET (1..n) -> A] :
        \A s \in SUBSET (1..n) : h[s] = IF s = {} THEN entries ELSE G[<<Max(s), h[s \ {Max(s)}]>>]
  <2>1. n \in Nat /\ entries \in A
    BY <1>1
  <2>2. \E h \in [SUBSET (1..n) -> A] : FoldsBy(h, n, entries, G)
    BY <1>4, <2>1, FoldExists
  <2> QED
    BY <2>2 DEF FoldsBy
<1>7. \A s \in SUBSET (1..n) : s # {} => Max(s) \in s
  BY <1>1, GreatestIndex
<1>8. Folds(h)
  <2>1. \A s \in SUBSET (1..n) : h[s] = IF s = {} THEN entries ELSE step(Max(s), h[s \ {Max(s)}])
    <3>1. SUFFICES ASSUME NEW s \in SUBSET (1..n), s # {}
                   PROVE  h[s] = step(Max(s), h[s \ {Max(s)}])
      BY <1>6
    <3>2. Max(s) \in 1..n /\ h[s \ {Max(s)}] \in A
      BY <1>6, <1>7, <3>1
    <3> QED
      BY <1>5, <1>6, <3>1, <3>2
  <2>2. h = [s \in SUBSET (1..n) |-> h[s]]
    BY <1>6
  <2> QED
    BY <2>1, <2>2 DEF Folds
<1>9. Folds(iter)
  BY <1>8
<1> HIDE DEF iter
<1> USE DEF Folds
<1> DEFINE g == [k \in 0..n |-> iter[1..k]]
<1>10. \A k \in 1..n : Max(1..k) = k /\ (1..k) \ {k} = 1..(k - 1) /\ 1..k # {}
  <2>1. SUFFICES ASSUME NEW k \in 1..n PROVE Max(1..k) = k /\ (1..k) \ {k} = 1..(k - 1) /\ 1..k # {}
    OBVIOUS
  <2>2. 1..k \in SUBSET (1..n) /\ k \in 1..k /\ n \in Nat
    BY <1>1
  <2>3. Max(1..k) \in 1..k /\ \A i \in 1..k : i <= Max(1..k)
    BY <2>2, GreatestIndex
  <2> QED
    BY <2>2, <2>3
<1>11. g[0] = entries /\ \A k \in 1..n : g[k] = step(k, g[k - 1])
  <2>1. g[0] = entries
    BY <1>1, <1>9
  <2>2. ASSUME NEW k \in 1..n PROVE g[k] = step(k, g[k - 1])
    <3>1. 1..k \in SUBSET (1..n) /\ k \in 0..n /\ k - 1 \in 0..n
      BY <1>1
    <3>2. iter[1..k] = step(Max(1..k), iter[(1..k) \ {Max(1..k)}])
      BY <1>9, <1>10, <3>1
    <3> QED
      BY <1>10, <3>1, <3>2
  <2> QED
    BY <2>1, <2>2
<1>12. \A k \in 0..n : g[k] \in A
  <2> DEFINE P == {k \in 0..n : g[k] \in A}
  <2> HIDE DEF g
  <2>1. 0 \in P
    BY <1>1, <1>11
  <2>2. \A k \in 1..n : k - 1 \in P => k \in P
    BY <1>1, <1>3, <1>11
  <2> HIDE DEF P
  <2>3. \A k \in 0..n : k \in P
    BY <1>1, <2>1, <2>2, Turns
  <2> QED
    BY <2>3 DEF P
<1>13. g \in [0..n -> A] /\ Merged(entries, new) = g[n]
  BY <1>1, <1>2, <1>12
<1> HIDE DEF g
<1> QED
  BY <1>11, <1>13 DEF step, A, n, MergedInTurns
-----------------------------------------------------------------------------
(* What the loops keep *)

\* One more entry is at the end.
LEMMA RangeOfAppend ==
  ASSUME NEW S, NEW seq \in Seq(S), NEW e \in S
  PROVE  Range(Append(seq, e)) = Range(seq) \cup {e}
<1> DEFINE n == Len(seq)
           more == Append(seq, e)
<1>1. /\ n \in Nat /\ DOMAIN seq = 1..n /\ DOMAIN more = 1..(n + 1)
      /\ more[n + 1] = e /\ \A i \in 1..n : more[i] = seq[i]
  <2>1. more \in Seq(S) /\ Len(more) = n + 1
    BY AppendProperties
  <2> HIDE DEF more
  <2>2. DOMAIN more = 1..(n + 1)
    BY <2>1, LenProperties
  <2> QED
    BY <2>2, LenProperties, AppendProperties DEF more
<1> HIDE DEF more
<1>2. 1..(n + 1) = (1..n) \cup {n + 1}
  BY <1>1
<1>3. Range(more) = Range(seq) \cup {e}
  BY <1>1, <1>2 DEF Range
<1> QED
  BY <1>3 DEF more

\* A fold depends on no more than which of the entries are kept.
LEMMA OnlySame ==
  ASSUME NEW S, NEW seq \in Seq(S), NEW kept, NEW also,
         \A i \in 1..Len(seq) : seq[i] \in kept <=> seq[i] \in also
  PROVE  Only(seq, kept) = Only(seq, also)
<1> DEFINE n == Len(seq)
<1>1. n \in Nat /\ \A i \in 1..n : seq[i] \in kept <=> seq[i] \in also
  BY LenProperties
<1>2. PICK g \in [0..n -> Seq(S)] : OnlyInTurns(g, seq, kept, n)
  BY OnlyTurns
<1>3. PICK h \in [0..n -> Seq(S)] : OnlyInTurns(h, seq, also, n)
  BY OnlyTurns
<1> HIDE DEF n
<1> USE DEF OnlyInTurns
<1> DEFINE P == {k \in 0..n : g[k] = h[k]}
<1>4. 0 \in P
  BY <1>1, <1>2, <1>3
<1>5. \A k \in 1..n : k - 1 \in P => k \in P
  <2>1. SUFFICES ASSUME NEW k \in 1..n, g[k - 1] = h[k - 1] PROVE g[k] = h[k]
    BY <1>1
  <2>2. seq[k] \in kept <=> seq[k] \in also
    BY <1>1
  <2> QED
    BY <1>2, <1>3, <2>1, <2>2
<1> HIDE DEF P
<1>6. n \in P
  <2>1. \A k \in 0..n : k \in P
    BY <1>1, <1>4, <1>5, Turns
  <2> QED
    BY <1>1, <2>1
<1> QED
  BY <1>2, <1>3, <1>6 DEF P

\* The last entry is appended to what is kept of the others, or left out.
LEMMA OnlyAppend ==
  ASSUME NEW S, NEW seq \in Seq(S), NEW e \in S, NEW kept
  PROVE  Only(Append(seq, e), kept) = IF e \in kept THEN Append(Only(seq, kept), e) ELSE Only(seq, kept)
<1> DEFINE n == Len(seq)
           more == Append(seq, e)
<1>1. n \in Nat /\ more \in Seq(S) /\ Len(more) = n + 1 /\ more[n + 1] = e /\ \A i \in 1..n : more[i] = seq[i]
  BY LenProperties, AppendProperties
<1>2. PICK g \in [0..n -> Seq(S)] : OnlyInTurns(g, seq, kept, n)
  BY OnlyTurns
<1> HIDE DEF more
<1>3. PICK h \in [0..Len(more) -> Seq(S)] : OnlyInTurns(h, more, kept, Len(more))
  BY <1>1, OnlyTurns
<1> HIDE DEF n
<1> USE DEF OnlyInTurns
<1> DEFINE P == {k \in 0..n : g[k] = h[k]}
<1>4. 0 \in P
  BY <1>1, <1>2, <1>3
<1>5. \A k \in 1..n : k - 1 \in P => k \in P
  <2>1. SUFFICES ASSUME NEW k \in 1..n, g[k - 1] = h[k - 1] PROVE g[k] = h[k]
    BY <1>1
  <2>2. k \in 1..Len(more) /\ more[k] = seq[k]
    BY <1>1
  <2> QED
    BY <1>2, <1>3, <2>1, <2>2
<1> HIDE DEF P
<1>6. g[n] = h[n]
  <2>1. \A k \in 0..n : k \in P
    BY <1>1, <1>4, <1>5, Turns
  <2> QED
    BY <1>1, <2>1 DEF P
<1>7. h[n + 1] = IF e \in kept THEN Append(h[n], e) ELSE h[n]
  <2>1. n + 1 \in 1..Len(more) /\ (n + 1) - 1 = n
    BY <1>1
  <2> QED
    BY <1>1, <1>3, <2>1
<1> QED
  BY <1>1, <1>2, <1>3, <1>6, <1>7 DEF more

\* What is kept are the entries to keep, all of them, and nothing else.
LEMMA OnlyOf ==
  ASSUME NEW S, NEW seq \in Seq(S), NEW kept
  PROVE  /\ Only(seq, kept) \in Seq(S)
         /\ \A i \in DOMAIN Only(seq, kept) : Only(seq, kept)[i] \in kept
         /\ Range(Only(seq, kept)) = Range(seq) \cap kept
<1> DEFINE n == Len(seq)
           First(k) == {seq[i] : i \in 1..k}
<1>1. n \in Nat /\ DOMAIN seq = 1..n /\ \A i \in 1..n : seq[i] \in S
  BY LenProperties, ElementOfSeq
<1>2. PICK g \in [0..n -> Seq(S)] : OnlyInTurns(g, seq, kept, n)
  BY OnlyTurns
<1> HIDE DEF n
<1> USE DEF OnlyInTurns
<1> DEFINE P == {k \in 0..n : Range(g[k]) = First(k) \cap kept}
<1>3. 0 \in P
  BY <1>1, <1>2 DEF Range
<1>4. ASSUME NEW k \in 1..n, k - 1 \in P PROVE k \in P
  <2>1. First(k) = First(k - 1) \cup {seq[k]} /\ k - 1 \in 0..n /\ k \in 0..n
    <3>1. 1..k = (1..(k - 1)) \cup {k}
      OBVIOUS
    <3> QED
      BY <1>1, <3>1
  <2>2. CASE seq[k] \in kept
    <3>1. g[k] = Append(g[k - 1], seq[k]) /\ g[k - 1] \in Seq(S) /\ seq[k] \in S
      BY <1>1, <1>2, <2>1, <2>2
    <3>2. Range(g[k]) = Range(g[k - 1]) \cup {seq[k]}
      BY <3>1, RangeOfAppend
    <3> HIDE DEF First
    <3> QED
      BY <1>4, <2>1, <2>2, <3>2
  <2>3. CASE seq[k] \notin kept
    <3>1. g[k] = g[k - 1]
      BY <1>2, <2>3
    <3> HIDE DEF First
    <3> QED
      BY <1>4, <2>1, <2>3, <3>1
  <2> QED
    BY <2>2, <2>3
<1>5. n \in P
  <2> HIDE DEF P
  <2>1. \A k \in 0..n : k \in P
    BY <1>1, <1>3, <1>4, Turns
  <2> QED
    BY <1>1, <2>1
<1>6. Only(seq, kept) \in Seq(S) /\ Range(Only(seq, kept)) = Range(seq) \cap kept
  <2>1. Only(seq, kept) = g[n] /\ Range(g[n]) = First(n) \cap kept
    BY <1>2, <1>5
  <2>2. Range(seq) = First(n)
    BY <1>1 DEF Range
  <2>3. Only(seq, kept) \in Seq(S)
    BY <1>1, <1>2
  <2> HIDE DEF First
  <2> QED
    BY <2>1, <2>2, <2>3
<1> QED
  BY <1>6 DEF Range
\* Where nothing is listed nothing is kept.
LEMMA OnlyEmpty ==
  ASSUME NEW kept
  PROVE  Only(<<>>, kept) = <<>>
<1> DEFINE none == <<>>
<1>1. none \in Seq({}) /\ Len(none) = 0
  BY EmptySeq
<1> HIDE DEF none
<1>2. PICK g \in [0..Len(none) -> Seq({})] : OnlyInTurns(g, none, kept, Len(none))
  BY <1>1, OnlyTurns
<1> QED
  BY <1>1, <1>2 DEF OnlyInTurns, none

\* What the loops do not pass over are the entries that are not in the trash.
LEMMA LiveOf ==
  ASSUME NEW entries \in Seq(Entry)
  PROVE  /\ Live(entries) \in Seq(Entry)
         /\ \A i \in DOMAIN Live(entries) : ~Live(entries)[i].deleted
         /\ Range(Live(entries)) = {e \in Range(entries) : ~e.deleted}
         /\ \A name : HasLive(entries, name) <=> \E i \in DOMAIN Live(entries) : Live(entries)[i].name = name
<1> DEFINE kept == {e \in Range(entries) : ~e.deleted}
           live == Live(entries)
<1>1. live = Only(entries, kept)
  BY DEF Live
<1>2. \A e \in kept : e \in Range(entries) /\ ~e.deleted
  OBVIOUS
<1>3. kept = Range(entries) \cap kept
  OBVIOUS
<1> HIDE DEF kept, live
<1>4. live \in Seq(Entry) /\ (\A i \in DOMAIN live : live[i] \in kept) /\ Range(live) = kept
  BY <1>1, <1>3, OnlyOf
<1>5. \A name : HasLive(entries, name) <=> \E i \in DOMAIN live : live[i].name = name
  <2>1. ASSUME NEW name, HasLive(entries, name) PROVE \E i \in DOMAIN live : live[i].name = name
    <3>1. PICK i \in DOMAIN entries : entries[i].name = name /\ ~entries[i].deleted
      BY <2>1 DEF HasLive
    <3>2. entries[i] \in Range(live)
      BY <1>4, <3>1 DEF kept, Range
    <3> QED
      BY <3>1, <3>2 DEF Range
  <2>2. ASSUME NEW name, NEW i \in DOMAIN live, live[i].name = name PROVE HasLive(entries, name)
    <3>1. live[i] \in Range(entries) /\ ~live[i].deleted
      BY <1>2, <1>4
    <3> QED
      BY <2>2, <3>1 DEF HasLive, Range
  <2> QED
    BY <2>1, <2>2
<1> QED
  BY <1>2, <1>4, <1>5 DEF live, kept

\* An entry that is added is live, or in the trash.
LEMMA LiveAppend ==
  ASSUME NEW entries \in Seq(Entry), NEW e \in Entry
  PROVE  Live(Append(entries, e)) = IF e.deleted THEN Live(entries) ELSE Append(Live(entries), e)
<1> DEFINE more == Append(entries, e)
           kept == {x \in Range(entries) : ~x.deleted}
           also == {x \in Range(more) : ~x.deleted}
<1>1. Range(more) = Range(entries) \cup {e}
  BY RangeOfAppend
<1>2. \A i \in 1..Len(entries) : entries[i] \in also <=> entries[i] \in kept
  <2>1. \A i \in 1..Len(entries) : entries[i] \in Range(entries)
    BY LenProperties DEF Range
  <2> QED
    BY <1>1, <2>1
<1>3. e \in also <=> ~e.deleted
  BY <1>1
<1>4. Live(more) = Only(more, also) /\ Live(entries) = Only(entries, kept)
  BY DEF Live
<1> HIDE DEF kept, also
<1>5. Only(entries, also) = Only(entries, kept)
  BY <1>2, OnlySame
<1>6. Only(more, also) = IF e \in also THEN Append(Only(entries, also), e) ELSE Only(entries, also)
  BY OnlyAppend
<1> HIDE DEF more
<1>7. Live(more) = IF e.deleted THEN Live(entries) ELSE Append(Live(entries), e)
  BY <1>3, <1>4, <1>5, <1>6
<1> QED
  BY <1>7 DEF more

\* No secret is the empty text, so that an export lists every live entry.
LEMMA ListedIsLive ==
  ASSUME NEW entries \in Seq(Entry), NEW kind
  PROVE  Listed(kind, entries) = Live(entries)
<1>1. \A e \in Range(entries) : e.secret # Empty
  <2>1. Range(entries) \subseteq Entry
    BY LenProperties DEF Range
  <2> QED
    BY <2>1 DEF Entry
<1>2. {e \in Range(entries) : ~e.deleted /\ (kind = "totp" => e.secret # Empty)}
        = {e \in Range(entries) : ~e.deleted}
  BY <1>1
<1> QED
  BY <1>2 DEF Listed, Live
\* An added entry adds its name.
LEMMA NamesAppend ==
  ASSUME NEW entries \in Seq(Entry), NEW e \in Entry
  PROVE  NamesIn(Append(entries, e)) = NamesIn(entries) \cup {e.name}
<1>1. Range(Append(entries, e)) = Range(entries) \cup {e}
  BY RangeOfAppend
<1>2. \A seq : NamesIn(seq) = {x.name : x \in Range(seq)}
  BY DEF NamesIn, Range
<1> QED
  BY <1>1, <1>2

\* After a merge there are the names that were there and the names of the file.
LEMMA MergedNames ==
  ASSUME NEW entries \in Seq(Entry), NEW new \in Seq(Entry)
  PROVE  /\ Merged(entries, new) \in Seq(Entry)
         /\ NamesIn(Merged(entries, new)) = NamesIn(entries) \cup NamesIn(new)
<1> DEFINE n == Len(new)
           First(k) == {new[i].name : i \in 1..k}
<1>1. n \in Nat /\ DOMAIN new = 1..n /\ \A i \in 1..n : new[i] \in Entry
  BY LenProperties, ElementOfSeq
<1>2. PICK g \in [0..n -> Seq(Entry)] : MergedInTurns(g, entries, new, n)
  BY MergedTurns
<1> HIDE DEF n
<1> USE DEF MergedInTurns
<1> DEFINE P == {k \in 0..n : NamesIn(g[k]) = NamesIn(entries) \cup First(k)}
<1>3. 0 \in P
  BY <1>1, <1>2
<1>4. ASSUME NEW k \in 1..n, k - 1 \in P PROVE k \in P
  <2>1. First(k) = First(k - 1) \cup {new[k].name} /\ k - 1 \in 0..n /\ k \in 0..n
    <3>1. 1..k = (1..(k - 1)) \cup {k}
      OBVIOUS
    <3> QED
      BY <1>1, <3>1
  <2>2. NamesIn(g[k - 1]) = NamesIn(entries) \cup First(k - 1)
    BY <1>4
  <2>3. g[k - 1] \in Seq(Entry) /\ new[k] \in Entry
    BY <1>1, <1>2, <2>1
  <2>4. CASE HasLive(g[k - 1], new[k].name)
    <3>1. new[k].name \in NamesIn(g[k - 1])
      BY <2>4 DEF HasLive, NamesIn
    <3>2. g[k] = g[k - 1]
      BY <1>2, <2>4
    <3> HIDE DEF First
    <3> QED
      BY <2>1, <2>2, <3>1, <3>2
  <2>5. CASE ~HasLive(g[k - 1], new[k].name)
    <3>1. g[k] = Append(g[k - 1], new[k])
      BY <1>2, <2>5
    <3>2. NamesIn(g[k]) = NamesIn(g[k - 1]) \cup {new[k].name}
      BY <2>3, <3>1, NamesAppend
    <3> HIDE DEF First
    <3> QED
      BY <2>1, <2>2, <3>2
  <2> QED
    BY <2>4, <2>5
<1>5. n \in P
  <2> HIDE DEF P
  <2>1. \A k \in 0..n : k \in P
    BY <1>1, <1>3, <1>4, Turns
  <2> QED
    BY <1>1, <2>1
<1>6. Merged(entries, new) = g[n] /\ g[n] \in Seq(Entry) /\ NamesIn(g[n]) = NamesIn(entries) \cup First(n)
  BY <1>1, <1>2, <1>5
<1>7. First(n) = NamesIn(new)
  BY <1>1 DEF NamesIn
<1> HIDE DEF First
<1> QED
  BY <1>6, <1>7

\* An entry whose name no live entry has makes no twins.
LEMMA TwinsAppend ==
  ASSUME NEW entries \in Seq(Entry), NEW e \in Entry, ~HasLive(entries, e.name)
  PROVE  Twins(Append(entries, e)) \subseteq Twins(entries)
<1> DEFINE n == Len(entries)
           more == Append(entries, e)
<1>1. /\ n \in Nat /\ DOMAIN entries = 1..n /\ DOMAIN more = 1..(n + 1)
      /\ more[n + 1] = e /\ \A i \in 1..n : more[i] = entries[i]
  <2>1. more \in Seq(Entry) /\ Len(more) = n + 1
    BY AppendProperties
  <2> HIDE DEF more
  <2>2. DOMAIN more = 1..(n + 1)
    BY <2>1, LenProperties
  <2> QED
    BY <2>2, LenProperties, AppendProperties DEF more
<1> HIDE DEF more, n
<1>2. SUFFICES ASSUME NEW i \in DOMAIN more, NEW j \in DOMAIN more \ {i}, ~more[i].deleted,
                      ~more[j].deleted, more[j].name = more[i].name
               PROVE  more[i].name \in Twins(entries)
  BY DEF Twins, more
<1>3. \A k \in 1..n : ~more[k].deleted => more[k].name # e.name
  BY <1>1 DEF HasLive
<1>4. i \in 1..n /\ j \in 1..n
  BY <1>1, <1>2, <1>3
<1> QED
  BY <1>1, <1>2, <1>4 DEF Twins

\* A merge makes none, whatever the vault and the file repeat.
LEMMA MergedTwins ==
  ASSUME NEW entries \in Seq(Entry), NEW new \in Seq(Entry)
  PROVE  Twins(Merged(entries, new)) \subseteq Twins(entries)
<1> DEFINE n == Len(new)
<1>1. n \in Nat /\ \A i \in 1..n : new[i] \in Entry
  BY LenProperties, ElementOfSeq
<1>2. PICK g \in [0..n -> Seq(Entry)] : MergedInTurns(g, entries, new, n)
  BY MergedTurns
<1> HIDE DEF n
<1> USE DEF MergedInTurns
<1> DEFINE P == {k \in 0..n : Twins(g[k]) \subseteq Twins(entries)}
<1>3. 0 \in P
  BY <1>1, <1>2
<1>4. ASSUME NEW k \in 1..n, k - 1 \in P PROVE k \in P
  <2>1. g[k - 1] \in Seq(Entry) /\ new[k] \in Entry /\ Twins(g[k - 1]) \subseteq Twins(entries)
    BY <1>1, <1>2, <1>4
  <2>2. CASE HasLive(g[k - 1], new[k].name)
    BY <1>2, <2>1, <2>2
  <2>3. CASE ~HasLive(g[k - 1], new[k].name)
    <3>1. g[k] = Append(g[k - 1], new[k])
      BY <1>2, <2>3
    <3>2. Twins(g[k]) \subseteq Twins(g[k - 1])
      BY <2>1, <2>3, <3>1, TwinsAppend
    <3> QED
      BY <2>1, <3>2
  <2> QED
    BY <2>2, <2>3
<1>5. n \in P
  <2> HIDE DEF P
  <2>1. \A k \in 0..n : k \in P
    BY <1>1, <1>3, <1>4, Turns
  <2> QED
    BY <1>1, <2>1
<1> QED
  BY <1>2, <1>5

\* Where no entry is live, live entries of distinct names are added as they are.
LEMMA MergedBack ==
  ASSUME NEW entries \in Seq(Entry), NEW new \in Seq(Entry),
         Live(entries) = <<>>, \A i \in DOMAIN new : ~new[i].deleted, Twins(new) = {}
  PROVE  Live(Merged(entries, new)) = new
<1> DEFINE n == Len(new)
<1>1. n \in Nat /\ DOMAIN new = 1..n /\ \A i \in 1..n : new[i] \in Entry /\ ~new[i].deleted
  BY LenProperties, ElementOfSeq
<1>2. PICK g \in [0..n -> Seq(Entry)] : MergedInTurns(g, entries, new, n)
  BY MergedTurns
<1>3. \A i, j \in 1..n : i # j => new[i].name # new[j].name
  BY <1>1 DEF Twins
<1> HIDE DEF n
<1> USE DEF MergedInTurns
<1> DEFINE Same(k) == Len(Live(g[k])) = k /\ \A i \in 1..k : Live(g[k])[i] = new[i]
           P == {k \in 0..n : Same(k)}
<1>4. 0 \in P
  BY <1>1, <1>2
<1>5. ASSUME NEW k \in 1..n, k - 1 \in P PROVE k \in P
  <2> DEFINE acc == g[k - 1]
             live == Live(acc)
  <2>1. acc \in Seq(Entry) /\ new[k] \in Entry /\ live \in Seq(Entry)
    <3>1. acc \in Seq(Entry) /\ new[k] \in Entry
      BY <1>1, <1>2
    <3> HIDE DEF acc
    <3> QED
      BY <3>1, LiveOf
  <2>2. Len(live) = k - 1 /\ \A i \in 1..(k - 1) : live[i] = new[i]
    BY <1>5
  <2>3. ~HasLive(acc, new[k].name)
    <3>1. \A i \in DOMAIN live : live[i].name # new[k].name
      <4>1. DOMAIN live = 1..(k - 1)
        BY <2>1, <2>2, LenProperties
      <4> HIDE DEF live
      <4> QED
        BY <1>1, <1>3, <2>2, <4>1
    <3>2. \A name : HasLive(acc, name) <=> \E i \in DOMAIN live : live[i].name = name
      <4> HIDE DEF acc
      <4> QED
        BY <2>1, LiveOf
    <3> HIDE DEF acc, live
    <3> QED
      BY <3>1, <3>2
  <2>4. Live(g[k]) = Append(live, new[k])
    <3>1. g[k] = Append(acc, new[k])
      BY <1>2, <2>3
    <3> HIDE DEF acc
    <3> QED
      BY <1>1, <2>1, <3>1, LiveAppend
  <2>5. Len(live) = k - 1 /\ \A i \in 1..(k - 1) : live[i] = new[i]
    BY <2>2
  <2> HIDE DEF live, acc
  <2>6. /\ Len(Append(live, new[k])) = k /\ Append(live, new[k])[k] = new[k]
        /\ \A i \in 1..(k - 1) : Append(live, new[k])[i] = live[i]
    BY <2>1, <2>5, AppendProperties
  <2>7. \A i \in 1..k : i = k \/ i \in 1..(k - 1)
    OBVIOUS
  <2> QED
    BY <2>2, <2>4, <2>6, <2>7
<1>6. n \in P
  <2> HIDE DEF P
  <2>1. \A k \in 0..n : k \in P
    BY <1>1, <1>4, <1>5, Turns
  <2> QED
    BY <1>1, <2>1
<1>7. Live(g[n]) \in Seq(Entry) /\ Merged(entries, new) = g[n]
  <2>1. g[n] \in Seq(Entry)
    BY <1>1, <1>2
  <2> QED
    BY <1>2, <2>1, LiveOf
<1> QED
  BY <1>6, <1>7, SeqEqual DEF n
-----------------------------------------------------------------------------
(* Rows and entries *)

\* What an entry becomes in a file, and a row in a vault.
LEMMA RowsAndEntries ==
  /\ \A row \in Row : ToEntry(row) \in Entry /\ ToEntry(row).name = row.name
  /\ \A e \in Entry : /\ ToRow(e) \in Row /\ ToRow(e).name = e.name
                      /\ ~e.deleted => ToEntry(ToRow(e)) = e
<1>1. ASSUME NEW row \in Row PROVE ToEntry(row) \in Entry /\ ToEntry(row).name = row.name
  <2>1. Buffer(row.secret) \in Value \ {Empty} /\ Buffer(row.note) \in Value \ {Empty}
    BY TransferAssumption DEF Buffer, Row
  <2> QED
    BY <2>1 DEF ToEntry, Entry, Row
<1>2. ASSUME NEW e \in Entry
      PROVE  ToRow(e) \in Row /\ ToRow(e).name = e.name /\ (~e.deleted => ToEntry(ToRow(e)) = e)
  BY DEF ToEntry, ToRow, Buffer, Entry, Row
<1> QED
  BY <1>1, <1>2

\* A sequence of 1..n that grows at each step and is as long goes through all of it.
LEMMA Increasing ==
  ASSUME NEW n \in Nat, NEW s \in [1..n -> 1..n], \A i, j \in 1..n : i < j => s[i] < s[j]
  PROVE  \A i \in 1..n : s[i] = i
<1> DEFINE P == {k \in 0..n : k # 0 => s[k] >= k}
           Q == {k \in 0..n : k # n => s[n - k] <= n - k}
<1>1. \A k \in 1..n : s[k] >= k
  <2>1. 0 \in P
    OBVIOUS
  <2>2. ASSUME NEW k \in 1..n, k - 1 \in P PROVE k \in P
    <3>1. CASE k = 1
      BY <3>1
    <3>2. CASE k # 1
      <4>1. k - 1 \in 1..n /\ k - 1 < k /\ s[k - 1] >= k - 1
        BY <2>2, <3>2
      <4>2. s[k - 1] < s[k] /\ s[k - 1] \in 1..n /\ s[k] \in 1..n
        BY <4>1
      <4> QED
        BY <4>1, <4>2
    <3> QED
      BY <3>1, <3>2
  <2> HIDE DEF P
  <2>3. \A k \in 0..n : k \in P
    BY <2>1, <2>2, Turns
  <2> QED
    BY <2>3 DEF P
<1>2. \A k \in 1..n : s[k] <= k
  <2>1. 0 \in Q
    OBVIOUS
  <2>2. ASSUME NEW k \in 1..n, k - 1 \in Q PROVE k \in Q
    <3>1. CASE k = n
      BY <3>1
    <3>2. CASE k # n
      <4>1. n - k \in 1..n /\ n - (k - 1) \in 1..n /\ n - k < n - (k - 1)
        BY <3>2
      <4>2. s[n - (k - 1)] <= n - (k - 1)
        BY <2>2
      <4>3. s[n - k] < s[n - (k - 1)] /\ s[n - k] \in 1..n /\ s[n - (k - 1)] \in 1..n
        BY <4>1
      <4>4. s[n - k] <= n - k
        BY <4>2, <4>3
      <4> QED
        BY <4>4
    <3> QED
      BY <3>1, <3>2
  <2> HIDE DEF Q
  <2>3. \A k \in 0..n : k \in Q
    BY <2>1, <2>2, Turns
  <2>4. ASSUME NEW k \in 1..n PROVE s[k] <= k
    <3>1. n - k \in 0..n /\ n - k # n /\ n - (n - k) = k
      OBVIOUS
    <3>2. n - k \in Q
      BY <2>3, <3>1
    <3> QED
      BY <3>1, <3>2 DEF Q
  <2> QED
    BY <2>4
<1>3. \A k \in 1..n : s[k] \in 1..n
  OBVIOUS
<1> QED
  BY <1>1, <1>2, <1>3

\* The entries an import gets are those of rows of its file, in their order.
LEMMA ParsedOf ==
  ASSUME NEW f \in Document, NEW new \in Parsed(f)
  PROVE  /\ new \in Seq(Entry) /\ NamesIn(new) \subseteq NamesIn(f.rows)
         /\ Len(new) = Len(f.rows) => \A i \in DOMAIN new : new[i] = ToEntry(f.rows[i])
<1> DEFINE n == Len(f.rows)
<1>1. n \in Nat /\ DOMAIN f.rows = 1..n /\ \A i \in 1..n : f.rows[i] \in Row
  <2>1. f.rows \in Seq(Row)
    BY DEF Document
  <2> QED
    BY <2>1, LenProperties, ElementOfSeq
<1> HIDE DEF n
<1>2. PICK s \in Kept(n) : new = [i \in DOMAIN s |-> ToEntry(f.rows[s[i]])]
  BY DEF Parsed, n
<1>3. PICK m \in 0..n : s \in [1..m -> 1..n] /\ \A i, j \in 1..m : i < j => s[i] < s[j]
  <2>1. CASE calm
    <3>1. s = [i \in 1..n |-> i]
      BY <1>2, <2>1 DEF Kept
    <3>2. n \in 0..n /\ s \in [1..n -> 1..n] /\ \A i, j \in 1..n : i < j => s[i] < s[j]
      BY <1>1, <3>1
    <3> QED
      BY <3>2
  <2>2. CASE ~calm
    <3>1. /\ s \in UNION {[1..k -> 1..n] : k \in 0..n}
          /\ \A i, j \in DOMAIN s : i < j => s[i] < s[j]
      BY <1>2, <2>2 DEF Kept
    <3>2. PICK k \in 0..n : s \in [1..k -> 1..n]
      BY <3>1
    <3> QED
      BY <3>1, <3>2
  <2> QED
    BY <2>1, <2>2
<1>4. \A i \in 1..m : new[i] = ToEntry(f.rows[s[i]]) /\ f.rows[s[i]] \in Row /\ s[i] \in DOMAIN f.rows
  BY <1>1, <1>2, <1>3
<1>5. new \in [1..m -> Entry] /\ m \in Nat
  BY <1>1, <1>2, <1>3, <1>4, RowsAndEntries
<1>6. new \in Seq(Entry) /\ Len(new) = m /\ DOMAIN new = 1..m
  BY <1>5
<1>7. NamesIn(new) \subseteq NamesIn(f.rows)
  BY <1>4, <1>6, RowsAndEntries DEF NamesIn
<1>8. ASSUME m = n PROVE \A i \in DOMAIN new : new[i] = ToEntry(f.rows[i])
  <2>1. \A i \in 1..n : s[i] = i
    BY <1>1, <1>3, <1>8, Increasing
  <2> QED
    BY <1>4, <1>6, <1>8, <2>1
<1> QED
  BY <1>6, <1>7, <1>8 DEF n
\* A file that is exported lists the live entries of the vault, as they are.
IsCopy(f) ==
  f.origin # None =>
    /\ Len(f.origin) = Len(f.rows)
    /\ \A i \in DOMAIN f.origin : ~f.origin[i].deleted /\ f.rows[i] = ToRow(f.origin[i])

LEMMA ExportedOf ==
  ASSUME NEW kind \in Kinds, NEW entries \in Seq(Entry)
  PROVE  /\ Exported(kind, entries) \in Document
         /\ NamesIn(Exported(kind, entries).rows) \subseteq NamesIn(entries)
         /\ IsCopy(Exported(kind, entries))
<1> DEFINE live == Live(entries)
           n == Len(live)
           rows == [i \in DOMAIN live |-> ToRow(live[i])]
<1>1. /\ live \in Seq(Entry) /\ (\A i \in DOMAIN live : ~live[i].deleted)
      /\ Range(live) \subseteq Range(entries)
  BY LiveOf
<1>2. Exported(kind, entries) = [columns |-> Columns[kind], rows |-> rows, bad |-> {}, origin |-> live]
  BY ListedIsLive DEF Exported
<1> HIDE DEF live
<1>3. n \in Nat /\ DOMAIN live = 1..n /\ \A i \in 1..n : live[i] \in Entry
  BY <1>1, LenProperties, ElementOfSeq
<1>4. rows \in [1..n -> Row] /\ \A i \in 1..n : rows[i].name = live[i].name
  BY <1>3, RowsAndEntries
<1>5. rows \in Seq(Row) /\ Len(rows) = n
  BY <1>3, <1>4
<1>6. Exported(kind, entries) \in Document
  <2>1. Columns[kind] \in SUBSET UNION {Columns[k] : k \in Kinds}
    OBVIOUS
  <2> HIDE DEF rows
  <2> QED
    BY <1>1, <1>2, <1>5, <2>1 DEF Document
<1>7. NamesIn(rows) \subseteq NamesIn(entries)
  <2>1. ASSUME NEW i \in 1..n PROVE live[i].name \in NamesIn(entries)
    <3>1. live[i] \in Range(entries)
      BY <1>1, <1>3, <2>1 DEF Range
    <3> QED
      BY <3>1 DEF Range, NamesIn
  <2> QED
    BY <1>3, <1>4, <2>1 DEF NamesIn
<1>8. IsCopy(Exported(kind, entries))
  <2>1. \A i \in DOMAIN live : ~live[i].deleted /\ rows[i] = ToRow(live[i])
    BY <1>1
  <2> HIDE DEF rows
  <2> QED
    BY <1>2, <1>5, <2>1 DEF IsCopy
<1> HIDE DEF rows
<1> QED
  BY <1>2, <1>6, <1>7, <1>8

-----------------------------------------------------------------------------
(* The inductive invariant *)

JobType == [op : Ops, kind : Kinds, pc : {"idle", "prompt", "dialog", "merge", "save", "posted"},
            file : Document \cup {Torn}, entries : Seq(Entry), ok : BOOLEAN,
            key : Vault \cup {None}, home : Vault \cup {None}]

Good(names) == names \cap OnlyBad = {}

\* No name of an unreadable file is in a vault.
Vaults ==
  /\ open \in Vault \cup {None}
  /\ mem \in [Kinds -> Seq(Entry)] /\ (open = None => \A k \in Kinds : mem[k] = <<>>)
  /\ disk \in [Vault -> [entries : [Kinds -> Seq(Entry)], key : Vault \cup {None}]]
  /\ \A k \in Kinds : Good(NamesIn(mem[k])) /\ \A v \in Vault : Good(NamesIn(disk[v].entries[k]))

\* Nor in a file all of whose rows can be read.
FileFits(f) == /\ f.bad = {} \/ f.rows = <<>> => Good(NamesIn(f.rows))
               /\ IsCopy(f)
Files == files \in [File -> Document \cup {Torn}] /\ \A f \in File : FileFits(files[f])

\* An import has the entries that were exported, unless rows were left out.
JobFits(j) ==
  /\ j.op = "none" <=> j.pc = "idle"
  /\ Good(NamesIn(j.entries))
  /\ j.op = "import" /\ j.pc = "merge" /\ j.file.origin # None /\ Len(j.entries) = Len(j.file.rows)
       => /\ j.entries = j.file.origin
          /\ \A i \in DOMAIN j.entries : ~j.entries[i].deleted
Jobs == job \in [Thread -> JobType] /\ \A t \in Thread : JobFits(job[t])

\* A calm user's thread ends in the vault it started in, with its key, and what it has
\* merged stays there.
Waits(j, vault, entries) ==
  /\ j.op # "none" => vault = j.home /\ vault # None
  /\ j.op = "import" /\ j.pc = "save" =>
       j.key = j.home /\ NamesIn(j.entries) \subseteq NamesIn(entries[j.kind])
Waited == calm => \A t \in Thread : Waits(job[t], open, mem)

Shown == started \in 0..MaxStarts /\ calm \in BOOLEAN /\ status \in [text : Texts, kind : Kinds]

IInv == Vaults /\ Files /\ Jobs /\ Waited /\ Shown

\* One thread goes on.
LEMMA JobChange ==
  ASSUME Jobs, NEW t \in Thread, NEW w \in JobType, JobFits(w), job' = [job EXCEPT ![t] = w]
  PROVE  Jobs'
<1>1. job' \in [Thread -> JobType]
  BY DEF Jobs
<1>2. \A u \in Thread : job'[u] = IF u = t THEN w ELSE job[u]
  BY DEF Jobs
<1> QED
  BY <1>1, <1>2 DEF Jobs

\* The others still wait, if the vault is the one it was and has the names it had.
LEMMA WaitedChange ==
  ASSUME Jobs, Waited, NEW t \in Thread, NEW w \in JobType, job' = [job EXCEPT ![t] = w],
         UNCHANGED <<open, calm>>, \A k \in Kinds : NamesIn(mem[k]) \subseteq NamesIn(mem'[k]),
         calm => Waits(w, open, mem')
  PROVE  Waited'
<1>1. SUFFICES ASSUME calm, NEW u \in Thread PROVE Waits(job'[u], open, mem')
  BY DEF Waited
<1>2. CASE u = t
  <2>1. job'[u] = w
    BY <1>2 DEF Jobs
  <2> QED
    BY <1>1, <2>1 DEF Waits
<1>3. CASE u # t
  <2>1. job'[u] = job[u] /\ job[u].kind \in Kinds
    BY <1>3 DEF Jobs, JobType
  <2>2. Waits(job[u], open, mem)
    BY <1>1 DEF Waited
  <2> QED
    BY <2>1, <2>2 DEF Waits
<1> QED
  BY <1>2, <1>3

\* A thread that has nothing to do fits.
LEMMA IdleFits ==
  /\ Idle \in JobType /\ JobFits(Idle) /\ Absent \in Document /\ IsCopy(Absent)
  /\ Idle.op = "none" /\ Idle.pc = "idle" /\ Idle.entries = <<>> /\ FileFits(Absent) /\ FileFits(Torn)
<1>1. Absent \in Document
  BY EmptySeq DEF Absent, Document
<1>2. <<>> \in Seq(Entry) /\ NamesIn(<<>>) = {}
  BY EmptySeq DEF NamesIn
<1>3. Idle \in JobType
  BY <1>1, <1>2 DEF Idle, JobType, Ops, Kinds
<1>4. Good(NamesIn(<<>>))
  BY <1>2 DEF Good
<1>5. IsCopy(Absent) /\ IsCopy(Torn)
  BY DEF Absent, Torn, IsCopy
<1>6. FileFits(Absent)
  BY <1>4, <1>5 DEF FileFits, Absent
<1>7. FileFits(Torn)
  <2>1. Torn.bad = {1} /\ Torn.rows = <<None>> /\ <<None>> # <<>>
    BY DEF Torn, Absent
  <2> QED
    BY <1>5, <2>1 DEF FileFits
<1>8. Idle.op = "none" /\ Idle.pc = "idle" /\ Idle.entries = <<>>
  BY DEF Idle
<1>9. JobFits(Idle)
  BY <1>4, <1>8 DEF JobFits
<1> QED
  BY <1>1, <1>3, <1>5, <1>6, <1>7, <1>8, <1>9
\* The vaults and what is shown are as they were.
LEMMA VaultsStay == ASSUME Vaults, UNCHANGED <<open, mem, disk>> PROVE Vaults'
  BY DEF Vaults

-----------------------------------------------------------------------------
(* The actions *)

\* A thread starts in the vault that is open.
LEMMA SpawnKeeps ==
  ASSUME IInv, NEW t \in Thread, NEW op \in {"export", "import"}, NEW kind \in Kinds,
         NEW pc \in {"prompt", "dialog"}, StartOp, Spawn(t, op, kind, pc),
         UNCHANGED <<open, mem, disk, files, status, calm>>
  PROVE  IInv'
<1>1. PICK w : w = [Idle EXCEPT !.op = op, !.kind = kind, !.pc = pc, !.home = open]
  OBVIOUS
<1>2. job' = [job EXCEPT ![t] = w] /\ open # None /\ started' \in 0..MaxStarts
  BY <1>1, TransferAssumption DEF IInv, Shown, StartOp, Spawn, Go
<1>3. w \in JobType /\ w.op = op /\ w.pc = pc /\ w.home = open /\ w.entries = <<>>
  BY <1>1, IdleFits DEF IInv, Vaults, JobType, Ops
<1>4. JobFits(w)
  BY <1>3, IdleFits DEF JobFits
<1>5. Waits(w, open, mem')
  BY <1>2, <1>3 DEF Waits
<1>6. Vaults'
  BY VaultsStay DEF IInv
<1>7. Files' /\ Shown'
  BY <1>2 DEF IInv, Files, Shown
<1>8. Jobs'
  BY <1>2, <1>3, <1>4, JobChange DEF IInv
<1>9. Waited'
  <2>1. Jobs /\ Waited
    BY DEF IInv
  <2>2. \A k \in Kinds : NamesIn(mem[k]) \subseteq NamesIn(mem'[k])
    OBVIOUS
  <2> QED
    BY <1>2, <1>3, <1>5, <2>1, <2>2, WaitedChange
<1> QED
  BY <1>6, <1>7, <1>8, <1>9 DEF IInv

\* A thread that ends leaves what there is.
LEMMA EndKeeps ==
  ASSUME IInv, NEW t \in Thread, Go(t, Idle), UNCHANGED <<open, mem, disk, files, started, calm>>,
         status' \in [text : Texts, kind : Kinds]
  PROVE  IInv'
<1>1. PICK w : w = Idle
  OBVIOUS
<1>2. job' = [job EXCEPT ![t] = w]
  BY <1>1 DEF Go
<1>3. w \in JobType /\ JobFits(w) /\ Waits(w, open, mem')
  BY <1>1, IdleFits DEF Waits
<1>4. Vaults'
  BY VaultsStay DEF IInv
<1>5. Files' /\ Shown'
  BY DEF IInv, Files, Shown
<1>6. Jobs'
  BY <1>2, <1>3, JobChange DEF IInv
<1>7. Waited'
  <2>1. Jobs /\ Waited
    BY DEF IInv
  <2>2. \A k \in Kinds : NamesIn(mem[k]) \subseteq NamesIn(mem'[k])
    OBVIOUS
  <2> QED
    BY <1>2, <1>3, <2>1, <2>2, WaitedChange
<1> QED
  BY <1>4, <1>5, <1>6, <1>7 DEF IInv

\* The closure shows how the thread ended.
LEMMA ClosureKeeps ==
  ASSUME IInv, NEW t \in Thread, RunClosure(t), UNCHANGED calm
  PROVE  IInv'
<1>1. job[t] \in JobType /\ status \in [text : Texts, kind : Kinds]
  BY DEF IInv, Jobs, Shown
<1>2. Text(job[t]) \in Texts
  BY <1>1 DEF Text, Texts, JobType, Ops
<1>3. status' \in [text : Texts, kind : Kinds]
  BY <1>1, <1>2 DEF RunClosure, JobType
<1>4. Go(t, Idle) /\ UNCHANGED <<open, mem, disk, files, started>>
  BY DEF RunClosure
<1> QED
  BY <1>3, <1>4, EndKeeps

\* An export lists what is in the open vault, or leaves a file nobody reads.
LEMMA WriteKeeps ==
  ASSUME IInv, NEW t \in Thread, WriteFile(t), UNCHANGED calm
  PROVE  IInv'
<1>1. PICK f \in File, ok \in BOOLEAN :
        LET done == ok /\ open # None IN
        /\ Go(t, [job[t] EXCEPT !.pc = "posted", !.ok = done])
        /\ \E c \in IF done THEN {Exported(job[t].kind, mem[job[t].kind])}
                    ELSE {files[f]} \cup (IF open = None THEN {} ELSE {Torn}) :
             files' = [files EXCEPT ![f] = c]
  BY DEF WriteFile
<1>2. UNCHANGED <<open, mem, disk, status, started>> /\ At(t, "export", "prompt")
  BY DEF WriteFile
<1>3. PICK w : w = [job[t] EXCEPT !.pc = "posted", !.ok = ok /\ open # None]
  OBVIOUS
<1>4. /\ job[t] \in JobType /\ JobFits(job[t]) /\ job[t].kind \in Kinds /\ job[t].op = "export"
      /\ job' = [job EXCEPT ![t] = w]
  BY <1>1, <1>2, <1>3 DEF IInv, Jobs, JobType, At, Go
<1>5. w \in JobType /\ w.op = "export" /\ w.pc = "posted" /\ w.entries = job[t].entries /\ w.home = job[t].home
  BY <1>3, <1>4 DEF JobType
<1>6. JobFits(w)
  BY <1>4, <1>5 DEF JobFits
<1>7. calm => Waits(w, open, mem')
  BY <1>4, <1>5 DEF IInv, Waited, Waits
<1>8. Files'
  <2>1. PICK c : /\ files' = [files EXCEPT ![f] = c]
                 /\ c \in {Exported(job[t].kind, mem[job[t].kind]), files[f], Torn}
    BY <1>1
  <2>2. mem[job[t].kind] \in Seq(Entry) /\ Good(NamesIn(mem[job[t].kind]))
    BY <1>4 DEF IInv, Vaults
  <2>3. ASSUME c = Exported(job[t].kind, mem[job[t].kind])
        PROVE  c \in Document /\ FileFits(c)
    <3>1. c \in Document /\ NamesIn(c.rows) \subseteq NamesIn(mem[job[t].kind]) /\ IsCopy(c)
      BY <1>4, <2>2, <2>3, ExportedOf
    <3> QED
      BY <2>2, <3>1 DEF FileFits, Good
  <2>4. c \in Document \cup {Torn} /\ FileFits(c)
    BY <2>1, <2>3, IdleFits DEF IInv, Files
  <2> QED
    BY <2>1, <2>4 DEF IInv, Files
<1>9. Vaults' /\ Shown'
  BY <1>2, VaultsStay DEF IInv, Shown
<1>10. Jobs'
  BY <1>4, <1>5, <1>6, JobChange DEF IInv
<1>11. Waited'
  <2>1. Jobs /\ Waited
    BY DEF IInv
  <2>2. \A k \in Kinds : NamesIn(mem[k]) \subseteq NamesIn(mem'[k])
    BY <1>2
  <2> QED
    BY <1>2, <1>4, <1>5, <1>7, <2>1, <2>2, WaitedChange
<1> QED
  BY <1>8, <1>9, <1>10, <1>11 DEF IInv

\* A file is read to its end, or nothing of it is.
LEMMA ReadKeeps ==
  ASSUME IInv, NEW t \in Thread, ReadFile(t), UNCHANGED calm
  PROVE  IInv'
<1>1. PICK f \in File :
        IF Readable(job[t].kind, files[f])
        THEN \E new \in Parsed(files[f]) :
               Go(t, [job[t] EXCEPT !.pc = "merge", !.file = files[f], !.entries = new])
        ELSE Go(t, [job[t] EXCEPT !.pc = "posted", !.ok = FALSE, !.file = files[f]])
  BY DEF ReadFile
<1>2. UNCHANGED <<open, mem, disk, files, status, started>> /\ At(t, "import", "dialog")
  BY DEF ReadFile
<1>3. /\ job[t] \in JobType /\ JobFits(job[t]) /\ job[t].op = "import" /\ job[t].pc = "dialog"
      /\ files[f] \in Document \cup {Torn} /\ FileFits(files[f])
  BY <1>2 DEF IInv, Jobs, Files, At
<1>4. \E w \in JobType : /\ job' = [job EXCEPT ![t] = w] /\ JobFits(w)
                         /\ w.op = "import" /\ w.pc \in {"merge", "posted"} /\ w.home = job[t].home
  <2>1. CASE Readable(job[t].kind, files[f])
    <3>1. PICK new \in Parsed(files[f]) :
            Go(t, [job[t] EXCEPT !.pc = "merge", !.file = files[f], !.entries = new])
      BY <1>1, <2>1
    <3>2. files[f] \in Document /\ (files[f].bad = {} \/ files[f].rows = <<>>)
      <4>1. files[f] # Torn
        <5>1. Torn.columns = {} /\ Torn.rows = <<None>> /\ <<None>> # <<>> /\ Torn.bad = {1}
          BY DEF Torn, Absent
        <5> QED
          BY <2>1, <5>1 DEF Readable
      <4> QED
        BY <1>3, <2>1, <4>1 DEF Readable
    <3>3. /\ new \in Seq(Entry) /\ NamesIn(new) \subseteq NamesIn(files[f].rows)
          /\ Len(new) = Len(files[f].rows) => \A i \in DOMAIN new : new[i] = ToEntry(files[f].rows[i])
      BY <3>2, ParsedOf
    <3>4. Good(NamesIn(new))
      BY <1>3, <3>2, <3>3 DEF FileFits, Good
    <3> DEFINE w == [job[t] EXCEPT !.pc = "merge", !.file = files[f], !.entries = new]
    <3>5. /\ w \in JobType /\ w.op = "import" /\ w.pc = "merge" /\ w.entries = new
          /\ w.file = files[f] /\ w.home = job[t].home
      BY <1>3, <3>3 DEF JobType
    <3>6. ASSUME files[f].origin # None, Len(new) = Len(files[f].rows)
          PROVE  new = files[f].origin /\ \A i \in DOMAIN new : ~new[i].deleted
      <4> DEFINE origin == files[f].origin
      <4>1. /\ origin \in Seq(Entry) /\ Len(origin) = Len(new)
            /\ \A i \in DOMAIN origin : ~origin[i].deleted /\ files[f].rows[i] = ToRow(origin[i])
        BY <1>3, <3>2, <3>6 DEF FileFits, IsCopy, Document
      <4> HIDE DEF origin
      <4>2. DOMAIN new = 1..Len(new) /\ DOMAIN origin = 1..Len(new) /\ \A i \in 1..Len(new) : origin[i] \in Entry
        BY <3>3, <4>1, LenProperties, ElementOfSeq
      <4>3. \A i \in 1..Len(new) : new[i] = origin[i] /\ ~origin[i].deleted
        BY <3>3, <3>6, <4>1, <4>2, RowsAndEntries
      <4>4. new = origin
        BY <3>3, <4>1, <4>3, SeqEqual
      <4> QED
        BY <4>2, <4>3, <4>4 DEF origin
    <3> HIDE DEF w
    <3>7. JobFits(w)
      BY <3>4, <3>5, <3>6 DEF JobFits
    <3> QED
      BY <3>1, <3>5, <3>7 DEF Go, w
  <2>2. CASE ~Readable(job[t].kind, files[f])
    <3> DEFINE w == [job[t] EXCEPT !.pc = "posted", !.ok = FALSE, !.file = files[f]]
    <3>1. Go(t, w)
      BY <1>1, <2>2
    <3>2. /\ w \in JobType /\ w.op = "import" /\ w.pc = "posted" /\ w.entries = job[t].entries
          /\ w.home = job[t].home
      BY <1>3 DEF JobType
    <3> HIDE DEF w
    <3>3. JobFits(w)
      BY <1>3, <3>2 DEF JobFits
    <3> QED
      BY <3>1, <3>2, <3>3 DEF Go
  <2> QED
    BY <2>1, <2>2
<1>5. PICK w \in JobType : /\ job' = [job EXCEPT ![t] = w] /\ JobFits(w)
                           /\ w.op = "import" /\ w.pc \in {"merge", "posted"} /\ w.home = job[t].home
  BY <1>4
<1>6. calm => Waits(w, open, mem')
  BY <1>3, <1>5 DEF IInv, Waited, Waits
<1>7. Vaults' /\ Shown' /\ Files'
  BY <1>2, VaultsStay DEF IInv, Shown, Files
<1>8. Jobs'
  BY <1>5, JobChange DEF IInv
<1>9. Waited'
  <2>1. Jobs /\ Waited
    BY DEF IInv
  <2>2. \A k \in Kinds : NamesIn(mem[k]) \subseteq NamesIn(mem'[k])
    BY <1>2
  <2> QED
    BY <1>2, <1>5, <1>6, <2>1, <2>2, WaitedChange
<1> QED
  BY <1>7, <1>8, <1>9 DEF IInv

\* A merge adds the names of a file that can be read, and the thread goes on to save.
LEMMA MergeKeeps ==
  ASSUME IInv, NEW t \in Thread, MergeFile(t), UNCHANGED calm
  PROVE  IInv'
<1> DEFINE kind == job[t].kind
           new == job[t].entries
<1>1. /\ job[t] \in JobType /\ JobFits(job[t]) /\ job[t].op = "import" /\ job[t].pc = "merge"
      /\ kind \in Kinds /\ new \in Seq(Entry) /\ Good(NamesIn(new))
  BY DEF MergeFile, At, IInv, Jobs, JobFits, JobType
<1>2. UNCHANGED <<open, disk, files, status, started>>
  BY DEF MergeFile
<1>3. CASE open = None
  <2>1. Go(t, Idle) /\ UNCHANGED mem
    BY <1>3 DEF MergeFile
  <2>2. status' \in [text : Texts, kind : Kinds]
    BY <1>2 DEF IInv, Shown
  <2> QED
    BY <1>2, <2>1, <2>2, EndKeeps
<1>4. CASE open # None
  <2>1. mem' = [mem EXCEPT ![kind] = Merged(@, new)]
    BY <1>4 DEF MergeFile
  <2>2. PICK key \in KeyCopies :
          Go(t, IF key = None THEN Idle ELSE [job[t] EXCEPT !.pc = "save", !.key = key, !.home = open])
    BY <1>4 DEF MergeFile
  <2> HIDE DEF kind, new
  <2>3. mem \in [Kinds -> Seq(Entry)] /\ open \in Vault /\ \A k \in Kinds : Good(NamesIn(mem[k]))
    BY <1>4 DEF IInv, Vaults
  <2>4. /\ Merged(mem[kind], new) \in Seq(Entry)
        /\ NamesIn(Merged(mem[kind], new)) = NamesIn(mem[kind]) \cup NamesIn(new)
    BY <1>1, <2>3, MergedNames
  <2>5. /\ mem' \in [Kinds -> Seq(Entry)] /\ NamesIn(mem'[kind]) = NamesIn(mem[kind]) \cup NamesIn(new)
        /\ \A k \in Kinds : k # kind => mem'[k] = mem[k]
    BY <1>1, <2>1, <2>3, <2>4
  <2>6. \A k \in Kinds : NamesIn(mem[k]) \subseteq NamesIn(mem'[k]) /\ Good(NamesIn(mem'[k]))
    BY <1>1, <2>3, <2>5 DEF Good
  <2>7. PICK w : w = IF key = None THEN Idle ELSE [job[t] EXCEPT !.pc = "save", !.key = key, !.home = open]
    OBVIOUS
  <2>8. job' = [job EXCEPT ![t] = w]
    BY <2>2, <2>7 DEF Go
  <2>9. w \in JobType /\ JobFits(w) /\ (calm => Waits(w, open, mem'))
    <3>1. CASE key = None
      BY <2>7, <3>1, IdleFits DEF Waits
    <3>2. CASE key # None
      <4>1. key = open
        BY <2>2, <3>2 DEF KeyCopies
      <4>2. /\ w \in JobType /\ w.op = "import" /\ w.pc = "save" /\ w.key = open /\ w.home = open
            /\ w.entries = new /\ w.kind = kind
        BY <1>1, <2>3, <2>7, <3>2, <4>1 DEF JobType, new, kind
      <4>3. JobFits(w)
        BY <1>1, <4>2 DEF JobFits
      <4>4. Waits(w, open, mem')
        BY <1>4, <2>5, <4>2 DEF Waits
      <4> QED
        BY <4>2, <4>3, <4>4
    <3> QED
      BY <3>1, <3>2
  <2>10. Vaults'
    BY <1>2, <1>4, <2>5, <2>6 DEF IInv, Vaults
  <2>11. Files' /\ Shown'
    BY <1>2 DEF IInv, Files, Shown
  <2>12. Jobs'
    BY <2>8, <2>9, JobChange DEF IInv
  <2>13. Waited'
    <3>1. Jobs /\ Waited
      BY DEF IInv
    <3> QED
      BY <1>2, <2>6, <2>8, <2>9, <3>1, WaitedChange
  <2> QED
    BY <2>10, <2>11, <2>12, <2>13 DEF IInv
<1> QED
  BY <1>3, <1>4

\* A save writes what is in memory, or leaves a file that does not open.
LEMMA SaveKeeps ==
  ASSUME IInv, NEW t \in Thread, Save(t), UNCHANGED calm
  PROVE  IInv'
<1>1. PICK ok \in BOOLEAN : SaveVault(t, ok)
  BY DEF Save
<1>2. UNCHANGED <<open, mem, files, status, started>> /\ job[t].pc = "save"
  BY DEF Save
<1>3. job[t] \in JobType /\ JobFits(job[t]) /\ job[t].op # "none"
  BY <1>2 DEF IInv, Jobs, JobFits
<1>4. PICK w : w = [job[t] EXCEPT !.pc = "posted", !.ok = ok /\ open # None]
  OBVIOUS
<1>5. job' = [job EXCEPT ![t] = w]
  BY <1>1, <1>4 DEF SaveVault, Go
<1>6. /\ w \in JobType /\ w.op = job[t].op /\ w.pc = "posted" /\ w.entries = job[t].entries
      /\ w.home = job[t].home
  BY <1>3, <1>4 DEF JobType
<1>7. JobFits(w)
  BY <1>3, <1>6 DEF JobFits
<1>8. calm => Waits(w, open, mem')
  BY <1>3, <1>6 DEF IInv, Waited, Waits
<1>9. Vaults'
  <2>1. CASE open = None
    BY <1>1, <1>2, <2>1, VaultsStay DEF IInv, SaveVault
  <2>2. CASE open # None
    <3>1. PICK d : d = IF ok THEN [entries |-> mem, key |-> job[t].key] ELSE [disk[open] EXCEPT !.key = None]
      OBVIOUS
    <3>2. disk' = [disk EXCEPT ![open] = d]
      BY <1>1, <2>2, <3>1 DEF SaveVault
    <3>3. open \in Vault /\ disk[open] \in [entries : [Kinds -> Seq(Entry)], key : Vault \cup {None}]
      BY <2>2 DEF IInv, Vaults
    <3>4. /\ d \in [entries : [Kinds -> Seq(Entry)], key : Vault \cup {None}]
          /\ d.entries \in {mem, disk[open].entries}
      BY <1>3, <3>1, <3>3 DEF IInv, Vaults, JobType
    <3>5. \A k \in Kinds : Good(NamesIn(d.entries[k]))
      BY <3>3, <3>4 DEF IInv, Vaults
    <3> QED
      BY <1>2, <3>2, <3>3, <3>4, <3>5 DEF IInv, Vaults
  <2> QED
    BY <2>1, <2>2
<1>10. Files' /\ Shown'
  BY <1>2 DEF IInv, Files, Shown
<1>11. Jobs'
  BY <1>5, <1>6, <1>7, JobChange DEF IInv
<1>12. Waited'
  <2>1. Jobs /\ Waited
    BY DEF IInv
  <2>2. \A k \in Kinds : NamesIn(mem[k]) \subseteq NamesIn(mem'[k])
    BY <1>2
  <2> QED
    BY <1>2, <1>5, <1>6, <1>8, <2>1, <2>2, WaitedChange
<1> QED
  BY <1>9, <1>10, <1>11, <1>12 DEF IInv

\* The flag of an entry is no part of its name.
LEMMA FlagKeepsNames ==
  ASSUME NEW entries \in Seq(Entry), NEW i \in DOMAIN entries, NEW deleted \in BOOLEAN
  PROVE  LET flagged == [entries EXCEPT ![i].deleted = deleted] IN
         flagged \in Seq(Entry) /\ NamesIn(flagged) = NamesIn(entries)
<1> DEFINE e == [entries[i] EXCEPT !.deleted = deleted]
           n == Len(entries)
           flagged == [entries EXCEPT ![i].deleted = deleted]
<1>1. n \in Nat /\ DOMAIN entries = 1..n /\ \A j \in 1..n : entries[j] \in Entry
  BY LenProperties, ElementOfSeq
<1>2. e \in Entry /\ e.name = entries[i].name
  BY <1>1 DEF Entry
<1>3. flagged = [j \in 1..n |-> IF j = i THEN e ELSE entries[j]]
  BY <1>1
<1> HIDE DEF flagged, e, n
<1>4. flagged \in [1..n -> Entry] /\ DOMAIN flagged = 1..n
  BY <1>1, <1>2, <1>3
<1>5. \A j \in 1..n : flagged[j].name = entries[j].name
  BY <1>2, <1>3
<1>6. flagged \in Seq(Entry)
  BY <1>1, <1>4
<1>7. NamesIn(flagged) = NamesIn(entries)
  BY <1>1, <1>4, <1>5 DEF NamesIn
<1> QED
  BY <1>6, <1>7 DEF flagged

\* One entry's flag is set, and the thread goes on with one copy of the key.
FlagSet(t, op, deleted, kind, i, key) ==
  /\ mem' = [mem EXCEPT ![kind][i].deleted = deleted]
  /\ Go(t, IF key = None THEN Idle
           ELSE [Idle EXCEPT !.op = op, !.kind = kind, !.pc = "save", !.key = key, !.home = open])

\* An entry goes to the trash or comes back, and the vault is saved.
LEMMA FlagKeeps ==
  ASSUME IInv, NEW t \in Thread, NEW op \in {"trash", "restore"}, NEW deleted \in BOOLEAN,
         SetDeleted(t, op, deleted), UNCHANGED calm
  PROVE  IInv'
<1>1. UNCHANGED <<open, disk, files, status>> /\ open # None /\ started' \in 0..MaxStarts
  BY TransferAssumption DEF SetDeleted, StartOp, IInv, Shown
<1>2. PICK kind \in Kinds : \E i \in DOMAIN mem[kind], key \in KeyCopies :
        FlagSet(t, op, deleted, kind, i, key)
  BY DEF SetDeleted, FlagSet
<1>3. PICK i \in DOMAIN mem[kind], key \in KeyCopies : FlagSet(t, op, deleted, kind, i, key)
  BY <1>2
<1>4. /\ mem' = [mem EXCEPT ![kind][i].deleted = deleted]
      /\ Go(t, IF key = None THEN Idle
               ELSE [Idle EXCEPT !.op = op, !.kind = kind, !.pc = "save", !.key = key, !.home = open])
  BY <1>3 DEF FlagSet
<1>5. mem \in [Kinds -> Seq(Entry)] /\ open \in Vault /\ \A k \in Kinds : Good(NamesIn(mem[k]))
  BY <1>1 DEF IInv, Vaults
<1>6. PICK entries : entries = [mem[kind] EXCEPT ![i].deleted = deleted]
  OBVIOUS
<1>7. entries \in Seq(Entry) /\ NamesIn(entries) = NamesIn(mem[kind])
  BY <1>5, <1>6, FlagKeepsNames
<1>8. mem' = [mem EXCEPT ![kind] = entries]
  BY <1>4, <1>6
<1>9. mem' \in [Kinds -> Seq(Entry)] /\ \A k \in Kinds : NamesIn(mem'[k]) = NamesIn(mem[k])
  BY <1>5, <1>7, <1>8
<1>10. PICK w : w = IF key = None THEN Idle
                   ELSE [Idle EXCEPT !.op = op, !.kind = kind, !.pc = "save", !.key = key, !.home = open]
  OBVIOUS
<1>11. job' = [job EXCEPT ![t] = w]
  BY <1>4, <1>10 DEF Go
<1>12. w \in JobType /\ JobFits(w) /\ Waits(w, open, mem')
  <2>1. CASE key = None
    BY <1>10, <2>1, IdleFits DEF Waits
  <2>2. CASE key # None
    <3>1. key = open
      BY <2>2 DEF KeyCopies
    <3>2. w \in JobType /\ w.op = op /\ w.pc = "save" /\ w.home = open /\ w.entries = <<>>
      BY <1>5, <1>10, <2>2, <3>1, IdleFits DEF JobType, Ops
    <3>3. JobFits(w)
      BY <3>2, IdleFits DEF JobFits
    <3> QED
      BY <1>1, <3>2, <3>3 DEF Waits
  <2> QED
    BY <2>1, <2>2
<1>13. Vaults'
  BY <1>1, <1>5, <1>9 DEF IInv, Vaults
<1>14. Files' /\ Shown'
  BY <1>1 DEF IInv, Files, Shown
<1>15. Jobs'
  BY <1>11, <1>12, JobChange DEF IInv
<1>16. Waited'
  <2>1. Jobs /\ Waited
    BY DEF IInv
  <2>2. \A k \in Kinds : NamesIn(mem[k]) \subseteq NamesIn(mem'[k])
    BY <1>9
  <2> QED
    BY <1>1, <1>11, <1>12, <2>1, <2>2, WaitedChange
<1> QED
  BY <1>13, <1>14, <1>15, <1>16 DEF IInv

\* A calm user opens and locks a vault when no thread has to go on.
LEMMA NobodyWaits == ASSUME calm => ~Busy, UNCHANGED <<job, calm>> PROVE Waited'
  BY DEF Busy, Waited, Waits

\* A vault is opened with the entries of its file.
LEMMA UnlockKeeps ==
  ASSUME IInv, NEW v \in Vault, Unlock(v), UNCHANGED calm
  PROVE  IInv'
<1>1. UNCHANGED <<disk, files, job, status, started>> /\ open' = v /\ mem' = disk[v].entries /\ v # None
  BY TransferAssumption DEF Unlock
<1>2. Vaults'
  BY <1>1 DEF IInv, Vaults
<1>3. Files' /\ Jobs' /\ Shown'
  BY <1>1 DEF IInv, Files, Jobs, Shown
<1>4. Waited'
  BY <1>1, NobodyWaits DEF Unlock
<1> QED
  BY <1>2, <1>3, <1>4 DEF IInv

\* A locked vault leaves nothing in memory.
LEMMA LockKeeps ==
  ASSUME IInv, Lock, UNCHANGED calm
  PROVE  IInv'
<1>1. /\ UNCHANGED <<disk, files, job, status>> /\ open' = None /\ mem' = [k \in Kinds |-> <<>>]
      /\ started' \in 0..MaxStarts
  BY TransferAssumption DEF Lock, StartOp, IInv, Shown
<1>2. <<>> \in Seq(Entry) /\ Good(NamesIn(<<>>))
  BY EmptySeq DEF Good, NamesIn
<1>3. \A k \in Kinds : mem'[k] = <<>>
  BY <1>1
<1>4. mem' \in [Kinds -> Seq(Entry)]
  BY <1>1, <1>2
<1>5. Vaults'
  BY <1>1, <1>2, <1>3, <1>4 DEF IInv, Vaults
<1>6. Files' /\ Jobs' /\ Shown'
  BY <1>1 DEF IInv, Files, Jobs, Shown
<1>7. Waited'
  BY <1>1, NobodyWaits DEF Lock
<1> QED
  BY <1>5, <1>6, <1>7 DEF IInv

-----------------------------------------------------------------------------
(* The theorems *)

\* The program starts with no names of unreadable files in its vaults.
LEMMA InitKeeps == Init => IInv
<1> SUFFICES ASSUME Init PROVE IInv
  OBVIOUS
<1>1. <<>> \in Seq(Entry) /\ Good(NamesIn(<<>>))
  BY EmptySeq DEF Good, NamesIn
<1>2. \A k \in Kinds : mem[k] = <<>>
  BY DEF Init
<1>3. mem \in [Kinds -> Seq(Entry)]
  BY <1>1 DEF Init
<1>4. \A v \in Vault, k \in Kinds : Good(NamesIn(Start[v][k]))
  BY DEF Good, OnlyBad
<1>5. \A v \in Vault : disk[v] = [entries |-> Start[v], key |-> v]
  BY DEF Init
<1>6. Vaults
  <2>1. disk \in [Vault -> [entries : [Kinds -> Seq(Entry)], key : Vault \cup {None}]]
    BY FilesAssumption DEF Init
  <2> QED
    BY <1>1, <1>2, <1>3, <1>4, <1>5, <2>1 DEF Init, Vaults
<1>7. Files
  <2>1. ASSUME NEW f \in File PROVE FileFits(Given[f])
    <3>1. CASE Given[f].bad = {}
      BY <3>1, FilesAssumption DEF FileFits, IsCopy, Good, OnlyBad
    <3>2. CASE Given[f].rows = <<>>
      BY <1>1, <3>2, FilesAssumption DEF FileFits, IsCopy
    <3>3. CASE Given[f].bad # {} /\ Given[f].rows # <<>>
      BY <3>3, FilesAssumption DEF FileFits, IsCopy
    <3> QED
      BY <3>1, <3>2, <3>3
  <2> QED
    BY <2>1, FilesAssumption DEF Init, Files
<1>8. \A t \in Thread : job[t] = Idle
  BY DEF Init
<1>9. Jobs
  <2>1. job \in [Thread -> JobType]
    BY IdleFits DEF Init
  <2> QED
    BY <1>8, <2>1, IdleFits DEF Jobs
<1>10. Waited
  BY <1>8, IdleFits DEF Waited, Waits
<1>11. Shown
  BY TransferAssumption DEF Init, Shown, Status, Texts, Kinds
<1> QED
  BY <1>6, <1>7, <1>9, <1>10, <1>11 DEF IInv

\* Every step keeps the invariant.
LEMMA StepKeeps == IInv /\ [Next]_vars => IInv'
<1> SUFFICES ASSUME IInv, [Next]_vars PROVE IInv'
  OBVIOUS
<1>1. CASE UNCHANGED vars
  BY <1>1 DEF vars, steps, IInv, Vaults, Files, Jobs, Waited, Shown
<1>2. ASSUME NEW t \in Thread, NEW kind \in Kinds, StartExport(t, kind) \/ StartImport(t, kind), UNCHANGED calm
      PROVE  IInv'
  <2>1. StartOp /\ UNCHANGED <<open, mem, disk, files, status, calm>>
    BY <1>2 DEF StartExport, StartImport
  <2>2. Spawn(t, "export", kind, "prompt") \/ Spawn(t, "import", kind, "dialog")
    BY <1>2 DEF StartExport, StartImport
  <2>3. CASE Spawn(t, "export", kind, "prompt")
    BY <2>1, <2>3, SpawnKeeps
  <2>4. CASE Spawn(t, "import", kind, "dialog")
    BY <2>1, <2>4, SpawnKeeps
  <2> QED
    BY <2>2, <2>3, <2>4
<1>3. ASSUME NEW t \in Thread, GiveUp(t), UNCHANGED calm PROVE IInv'
  <2>1. Go(t, Idle) /\ UNCHANGED <<open, mem, disk, files, status, started, calm>>
    BY <1>3 DEF GiveUp
  <2>2. status' \in [text : Texts, kind : Kinds]
    BY <2>1 DEF IInv, Shown
  <2> QED
    BY <2>1, <2>2, EndKeeps
<1>4. ASSUME NEW t \in Thread, DeleteEntry(t) \/ RestoreEntry(t), UNCHANGED calm PROVE IInv'
  <2>1. CASE DeleteEntry(t)
    <3>1. SetDeleted(t, "trash", TRUE)
      BY <2>1 DEF DeleteEntry
    <3> QED
      BY <1>4, <3>1, FlagKeeps
  <2>2. CASE RestoreEntry(t)
    <3>1. SetDeleted(t, "restore", FALSE)
      BY <2>2 DEF RestoreEntry
    <3> QED
      BY <1>4, <3>1, FlagKeeps
  <2> QED
    BY <1>4, <2>1, <2>2
<1>5. CASE Next
  <2>1. UNCHANGED calm /\ Step
    BY <1>5 DEF Next
  <2>2. CASE Lock
    BY <2>1, <2>2, LockKeeps
  <2>3. CASE \E v \in Vault : Unlock(v)
    BY <2>1, <2>3, UnlockKeeps
  <2>4. ASSUME NEW t \in Thread, Run(t) PROVE IInv'
    BY <2>1, <2>4, MergeKeeps, SaveKeeps, ClosureKeeps DEF Run
  <2>5. ASSUME NEW t \in Thread, WriteFile(t) \/ ReadFile(t) PROVE IInv'
    BY <2>1, <2>5, WriteKeeps, ReadKeeps
  <2> QED
    BY <1>2, <1>3, <1>4, <2>1, <2>2, <2>3, <2>4, <2>5 DEF Step
<1> QED
  BY <1>1, <1>5

\* The invariant holds in every behaviour.
THEOREM TransferInvariant == Spec => []IInv
  BY InitKeeps, StepKeeps, PTL DEF Spec

\* However imports, exports, saves, deletions and locks interleave, no row of a file with a
\* bad row reaches a vault, in memory or on disk, and every field keeps its type (export_*,
\* import_*, do_import_*, save_vault_state).
THEOREM NoRowOfABadFile == Spec => []BadFileAddsNothing
<1>1. IInv => BadFileAddsNothing
  <2> SUFFICES ASSUME IInv PROVE BadFileAddsNothing
    OBVIOUS
  <2>1. TypeOK
    BY DEF IInv, Vaults, Files, Jobs, JobFits, JobType, Shown, TypeOK
  <2>2. \A k \in Kinds : (NamesIn(mem[k]) \cup UNION {NamesIn(disk[v].entries[k]) : v \in Vault})
                         \cap OnlyBad = {}
    BY DEF IInv, Vaults, Good
  <2> QED
    BY <2>1, <2>2 DEF BadFileAddsNothing
<1> QED
  BY <1>1, TransferInvariant, PTL

\* A thread that has a file to merge goes on by merging it.
LEMMA OnlyMerges ==
  ASSUME IInv, NEW t \in Thread, At(t, "import", "merge"), job'[t] # job[t], [Next]_vars
  PROVE  MergeFile(t)
<1>1. job[t].op = "import" /\ job[t].pc = "merge"
  BY DEF At
<1>2. Step
  BY DEF Next, vars, steps
<1>3. \A u \in Thread : \A w : Go(u, w) => u = t
  BY DEF Go, IInv, Jobs
<1>4. CASE Lock \/ \E v \in Vault : Unlock(v)
  BY <1>4 DEF Lock, Unlock
<1>5. ASSUME NEW u \in Thread, NEW kind \in Kinds, StartExport(u, kind) \/ StartImport(u, kind) PROVE FALSE
  BY <1>1, <1>3, <1>5 DEF StartExport, StartImport, Spawn
<1>6. ASSUME NEW u \in Thread, GiveUp(u) \/ WriteFile(u) \/ ReadFile(u) PROVE FALSE
  BY <1>1, <1>3, <1>6 DEF GiveUp, WriteFile, ReadFile, At
<1>7. ASSUME NEW u \in Thread, Run(u) PROVE MergeFile(t)
  <2>1. CASE MergeFile(u)
    <3>1. u = t
      BY <1>3, <2>1 DEF MergeFile
    <3> QED
      BY <2>1, <3>1
  <2>2. CASE Save(u)
    BY <1>1, <1>3, <2>2 DEF Save, SaveVault
  <2>3. CASE RunClosure(u)
    BY <1>1, <1>3, <2>3 DEF RunClosure
  <2> QED
    BY <1>7, <2>1, <2>2, <2>3 DEF Run
<1>8. ASSUME NEW u \in Thread, DeleteEntry(u) \/ RestoreEntry(u) PROVE FALSE
  BY <1>1, <1>3, <1>8 DEF DeleteEntry, RestoreEntry, SetDeleted
<1> QED
  BY <1>2, <1>4, <1>5, <1>6, <1>7, <1>8 DEF Step

\* What the merge of a thread does to the entries.
LEMMA MergeOf ==
  ASSUME IInv, NEW t \in Thread, MergeFile(t)
  PROVE  /\ job[t] \in JobType /\ JobFits(job[t]) /\ mem \in [Kinds -> Seq(Entry)]
         /\ \A k \in Kinds : \/ mem'[k] = mem[k]
                             \/ k = job[t].kind /\ mem'[k] = Merged(mem[k], job[t].entries)
<1>1. job[t] \in JobType /\ JobFits(job[t]) /\ mem \in [Kinds -> Seq(Entry)]
  BY DEF IInv, Jobs, Vaults
<1>2. CASE open = None
  BY <1>1, <1>2 DEF MergeFile
<1>3. CASE open # None
  <2>1. mem' = [mem EXCEPT ![job[t].kind] = Merged(@, job[t].entries)]
    BY <1>3 DEF MergeFile
  <2> QED
    BY <1>1, <2>1
<1> QED
  BY <1>1, <1>2, <1>3

\* Whatever the files and the vault repeat and however many threads import, an import
\* gives no name to a second live entry (do_import_accounts, do_import_totps).
THEOREM NoTwinsByImport == Spec => ImportMakesNoTwins
<1>1. IInv /\ [Next]_vars =>
        [\A t \in Thread, k \in Kinds : At(t, "import", "merge") /\ job'[t] # job[t]
           => Twins(mem'[k]) \subseteq Twins(mem[k])]_vars
  <2> SUFFICES ASSUME IInv, [Next]_vars, NEW t \in Thread, NEW k \in Kinds,
                      At(t, "import", "merge"), job'[t] # job[t]
               PROVE  Twins(mem'[k]) \subseteq Twins(mem[k])
    OBVIOUS
  <2>1. MergeFile(t)
    BY OnlyMerges
  <2>2. \/ mem'[k] = mem[k]
        \/ mem'[k] = Merged(mem[k], job[t].entries)
    BY <2>1, MergeOf
  <2>3. mem[k] \in Seq(Entry) /\ job[t].entries \in Seq(Entry)
    BY <2>1, MergeOf DEF JobType
  <2> QED
    BY <2>2, <2>3, MergedTwins
<1> QED
  BY <1>1, TransferInvariant, PTL DEF Spec, ImportMakesNoTwins

\* Export, then import into a vault without live entries: with memory for each row it
\* brings back the live entries, each with its fields (from_entry, to_entry, do_import_*).
THEOREM ExportComesBack == Spec => RoundTrip
<1>1. IInv /\ [Next]_vars => [\A t \in Thread : BringsBack(t)]_vars
  <2> SUFFICES ASSUME IInv, [Next]_vars, NEW t \in Thread PROVE BringsBack(t)
    OBVIOUS
  <2> DEFINE k == job[t].kind
             new == job[t].entries
             origin == job[t].file.origin
  <2>1. SUFFICES ASSUME At(t, "import", "merge"), job'[t] # job[t], origin # None, Twins(origin) = {},
                        Len(new) = Len(job[t].file.rows), Live(mem[k]) = <<>>, mem'[k] # mem[k]
                 PROVE  Live(mem'[k]) = origin
    BY DEF BringsBack
  <2>2. MergeFile(t)
    BY <2>1, OnlyMerges
  <2>3. k \in Kinds /\ new \in Seq(Entry) /\ JobFits(job[t]) /\ mem[k] \in Seq(Entry)
    BY <2>2, MergeOf DEF JobType
  <2>4. mem'[k] = Merged(mem[k], new)
    BY <2>1, <2>2, <2>3, MergeOf
  <2>5. new = origin /\ \A i \in DOMAIN new : ~new[i].deleted
    BY <2>1, <2>3 DEF JobFits, At
  <2> HIDE DEF new, origin, k
  <2>6. Live(Merged(mem[k], new)) = new
    BY <2>1, <2>3, <2>5, MergedBack
  <2> QED
    BY <2>4, <2>5, <2>6
<1> QED
  BY <1>1, TransferInvariant, PTL DEF Spec, RoundTrip

\* A calm user who reads "imported" has every entry of the file in the saved vault, under
\* the key of that vault (finish_import, save_vault_state).
THEOREM ImportedIsSaved == Spec => ReportedIsOnDisk
<1>1. IInv /\ [Next]_vars =>
        [\A t \in Thread : (calm /\ At(t, "import", "save") /\ job'[t].pc = "posted" /\ job'[t].ok)
           => OnDisk(t)]_vars
  <2> SUFFICES ASSUME IInv, [Next]_vars, NEW t \in Thread, calm, At(t, "import", "save"),
                      job'[t].pc = "posted", job'[t].ok
               PROVE  OnDisk(t)
    OBVIOUS
  <2>1. job[t].op = "import" /\ job[t].pc = "save" /\ job'[t] # job[t]
    BY DEF At
  <2>2. Step
    BY <2>1 DEF Next, vars, steps
  <2>3. \A u \in Thread : \A w : Go(u, w) => u = t
    BY <2>1 DEF Go, IInv, Jobs
  <2>4. Save(t)
    <3>1. CASE Lock \/ \E v \in Vault : Unlock(v)
      BY <2>1, <3>1 DEF Lock, Unlock
    <3>2. ASSUME NEW u \in Thread, NEW kind \in Kinds, StartExport(u, kind) \/ StartImport(u, kind)
          PROVE  FALSE
      BY <2>1, <2>3, <3>2 DEF StartExport, StartImport, Spawn
    <3>3. ASSUME NEW u \in Thread, GiveUp(u) \/ WriteFile(u) \/ ReadFile(u) PROVE FALSE
      BY <2>1, <2>3, <3>3 DEF GiveUp, WriteFile, ReadFile, At
    <3>4. ASSUME NEW u \in Thread, DeleteEntry(u) \/ RestoreEntry(u) PROVE FALSE
      BY <2>1, <2>3, <3>4 DEF DeleteEntry, RestoreEntry, SetDeleted
    <3>5. ASSUME NEW u \in Thread, Run(u) PROVE Save(t)
      <4>1. CASE MergeFile(u)
        BY <2>1, <2>3, <4>1 DEF MergeFile, At
      <4>2. CASE RunClosure(u)
        BY <2>1, <2>3, <4>2 DEF RunClosure
      <4>3. CASE Save(u)
        <5>1. u = t
          BY <2>3, <4>3 DEF Save, SaveVault
        <5> QED
          BY <4>3, <5>1
      <4> QED
        BY <3>5, <4>1, <4>2, <4>3 DEF Run
    <3> QED
      BY <2>2, <3>1, <3>2, <3>3, <3>4, <3>5 DEF Step
  <2>5. PICK ok \in BOOLEAN : SaveVault(t, ok)
    BY <2>4 DEF Save
  <2>6. job[t] \in JobType /\ job'[t].ok = (ok /\ open # None)
    BY <2>5 DEF SaveVault, Go, IInv, Jobs, JobType
  <2>7. ok /\ open # None /\ open \in Vault
    BY <2>6 DEF IInv, Vaults
  <2>8. disk'[open] = [entries |-> mem, key |-> job[t].key]
    BY <2>5, <2>7 DEF SaveVault, IInv, Vaults
  <2>9. Waits(job[t], open, mem)
    BY DEF IInv, Waited
  <2>10. open = job[t].home /\ job[t].key = open /\ NamesIn(job[t].entries) \subseteq NamesIn(mem[job[t].kind])
    BY <2>1, <2>9 DEF Waits
  <2> QED
    BY <2>8, <2>10 DEF OnDisk
<1> QED
  BY <1>1, TransferInvariant, PTL DEF Spec, ReportedIsOnDisk
=============================================================================
