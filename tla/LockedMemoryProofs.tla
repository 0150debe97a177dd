------------------------- MODULE LockedMemoryProofs -------------------------
(***************************************************************************)
(* What LockedMemory keeps for any accounts, notes, threads and quota: no  *)
(* step takes more pages than there are, what was saved can be opened      *)
(* again, and with pages enough for the largest vault nothing is lost.     *)
(*                                                                         *)
(* The pages are sums, and a sum is recursive. It is first shown to be the *)
(* number of the units it counts; what a thread gives back or takes then   *)
(* follows from the cardinalities of disjoint sets.                        *)
(***************************************************************************)
EXTENDS LockedMemory, FiniteSetTheorems, TLAPS

-----------------------------------------------------------------------------
(* Sums *)

\* Among the subsets of a finite set one is smallest: none with an element less is left.
LEMMA SmallestSubset ==
  ASSUME NEW S, IsFiniteSet(S), NEW B \in SUBSET SUBSET S, B # {}
  PROVE  \E T \in B : \A x \in T : T \ {x} \notin B
<1>1. IsWellFoundedOn(StrictSubsetOrdering(S), SUBSET S)
  BY FS_StrictSubsetOrderingWellFounded, FS_FiniteSubsetsOfFinite
<1>2. PICK T \in B : \A U \in B : ~ (<<U, T>> \in StrictSubsetOrdering(S))
  BY <1>1, WFMin
<1>3. ASSUME NEW x \in T PROVE T \ {x} \notin B
  <2>1. <<T \ {x}, T>> \in StrictSubsetOrdering(S)
    BY <1>3 DEF StrictSubsetOrdering
  <2> QED
    BY <2>1, <1>2
<1> QED
  BY <1>3

\* Induction on a finite set, for a set of its subsets instead of a predicate.
LEMMA SetInduction ==
  ASSUME NEW S, IsFiniteSet(S), NEW P \in SUBSET SUBSET S, {} \in P,
         \A T \in P : \A x \in S \ T : T \cup {x} \in P
  PROVE  P = SUBSET S
<1>1. SUFFICES ASSUME P # SUBSET S PROVE FALSE
  OBVIOUS
<1>2. PICK T \in (SUBSET S) \ P : \A x \in T : T \ {x} \notin (SUBSET S) \ P
  BY <1>1, SmallestSubset
<1>3. PICK x \in T : TRUE
  OBVIOUS
<1>4. (T \ {x}) \cup {x} \in P
  BY <1>2, <1>3
<1> QED
  BY <1>3, <1>4

\* What a function to Nat counts, one unit after the other.
Units(f, S) == UNION {{x} \X (1..f[x]) : x \in S}

\* A summand counts as many units as it says.
LEMMA UnitsOfOne ==
  ASSUME NEW x, NEW n \in Nat
  PROVE  IsFiniteSet({x} \X (1..n)) /\ Cardinality({x} \X (1..n)) = n
<1>1. IsFiniteSet({x}) /\ Cardinality({x}) = 1
  BY FS_Singleton
<1>2. IsFiniteSet(1..n) /\ Cardinality(1..n) = n
  BY FS_Interval
<1> DEFINE A == {x}
           B == 1..n
<1> HIDE DEF A, B
<1>3. IsFiniteSet(A \X B) /\ Cardinality(A \X B) = Cardinality(A) * Cardinality(B)
  BY <1>1, <1>2, FS_Product DEF A, B
<1> QED
  BY <1>1, <1>2, <1>3 DEF A, B

\* The units of a finite sum are finitely many.
LEMMA UnitsFinite ==
  ASSUME NEW S, IsFiniteSet(S), NEW f, \A x \in S : f[x] \in Nat
  PROVE  IsFiniteSet(Units(f, S)) /\ Cardinality(Units(f, S)) \in Nat
<1> DEFINE P == {T \in SUBSET S : IsFiniteSet(Units(f, T))}
<1>1. {} \in P
  <2>1. Units(f, {}) = {}
    BY DEF Units
  <2> QED
    BY <2>1, FS_EmptySet
<1>2. ASSUME NEW T \in P, NEW x \in S \ T PROVE T \cup {x} \in P
  <2>1. Units(f, T \cup {x}) = Units(f, T) \cup ({x} \X (1..f[x]))
    BY DEF Units
  <2>2. IsFiniteSet({x} \X (1..f[x]))
    BY UnitsOfOne
  <2>3. IsFiniteSet(Units(f, T) \cup ({x} \X (1..f[x])))
    BY <2>2, FS_Union
  <2> QED
    BY <2>1, <2>3
<1> HIDE DEF P
<1>3. P = SUBSET S
  <2>1. P \in SUBSET SUBSET S
    BY DEF P
  <2> QED
    BY <1>1, <1>2, <2>1, SetInduction
<1>4. IsFiniteSet(Units(f, S))
  BY <1>3 DEF P
<1> QED
  BY <1>4, FS_CardinalityType

\* One more summand adds its units.
LEMMA UnitsTake ==
  ASSUME NEW S, IsFiniteSet(S), NEW f, \A x \in S : f[x] \in Nat, NEW x \in S
  PROVE  Cardinality(Units(f, S)) = f[x] + Cardinality(Units(f, S \ {x}))
<1> DEFINE A == {x} \X (1..f[x])
           B == Units(f, S \ {x})
<1>1. Units(f, S) = A \cup B /\ A \cap B = {}
  BY DEF Units
<1>2. IsFiniteSet(A) /\ Cardinality(A) = f[x]
  BY UnitsOfOne
<1>3. IsFiniteSet(S \ {x})
  BY FS_RemoveElement
<1>4. IsFiniteSet(B) /\ Cardinality(B) \in Nat
  BY <1>3, UnitsFinite
<1>5. f[x] \in Nat
  OBVIOUS
<1> HIDE DEF A, B
<1>6. Cardinality(A \cup B) = Cardinality(A) + Cardinality(B) - Cardinality(A \cap B)
  BY <1>2, <1>4, FS_Union
<1>7. Cardinality(A \cap B) = 0
  BY <1>1, FS_EmptySet
<1> QED
  BY <1>1, <1>2, <1>4, <1>5, <1>6, <1>7 DEF B

\* A sum is the number of the units it counts: both are built one summand after the
\* other, so that the recursion has a solution, and only one.
LEMMA SumIsCount ==
  ASSUME NEW D, IsFiniteSet(D), NEW f \in [D -> Nat]
  PROVE  SumFunction(f) = Cardinality(Units(f, D))
<1> DEFINE First(s) == CHOOSE x \in s : TRUE
           Solves(h) == h = [s \in SUBSET D |-> IF s = {} THEN 0
                                                ELSE f[First(s)] + h[s \ {First(s)}]]
           g == [s \in SUBSET D |-> Cardinality(Units(f, s))]
           iter == CHOOSE h : Solves(h)
<1>1. SumFunction(f) = iter[D]
  BY DEF SumFunction, SumFunctionOnSet, FoldFunctionOnSet, MapThenFoldSet
<1>2. \A s \in SUBSET D : s # {} => First(s) \in s
  OBVIOUS
<1>3. Cardinality(Units(f, {})) = 0
  BY FS_EmptySet DEF Units
<1>4. \A s \in SUBSET D : s # {} => g[s] = f[First(s)] + g[s \ {First(s)}]
  <2>1. SUFFICES ASSUME NEW s \in SUBSET D, s # {}
                 PROVE  g[s] = f[First(s)] + g[s \ {First(s)}]
    OBVIOUS
  <2> DEFINE x == First(s)
  <2>2. IsFiniteSet(s) /\ x \in s /\ \A y \in s : f[y] \in Nat
    BY <1>2, <2>1, FS_Subset
  <2> HIDE DEF x
  <2>3. Cardinality(Units(f, s)) = f[x] + Cardinality(Units(f, s \ {x}))
    BY <2>2, UnitsTake
  <2> QED
    BY <2>3 DEF x
<1>5. Solves(g)
  BY <1>3, <1>4
<1>6. Solves(iter)
  <2> HIDE DEF Solves
  <2> QED
    BY <1>5
<1> HIDE DEF iter, First, g
<1> DEFINE B == {s \in SUBSET D : iter[s] # g[s]}
<1>7. B = {}
  <2>1. SUFFICES ASSUME B # {} PROVE FALSE
    OBVIOUS
  <2>2. PICK s \in B : \A x \in s : s \ {x} \notin B
    BY <2>1, SmallestSubset
  <2>3. s # {}
    BY <1>5, <1>6
  <2>4. iter[s \ {First(s)}] = g[s \ {First(s)}]
    BY <1>2, <2>2, <2>3
  <2> QED
    BY <1>5, <1>6, <2>3, <2>4
<1> QED
  BY <1>1, <1>7 DEF g

\* What a proof uses of a sum: its type, no summand, one summand taken out.
LEMMA SumFacts ==
  ASSUME NEW D, IsFiniteSet(D), NEW f \in [D -> Nat]
  PROVE  /\ SumFunction(f) \in Nat
         /\ D = {} => SumFunction(f) = 0
         /\ \A x \in D : SumFunction(f) = f[x] + SumFunction([y \in D \ {x} |-> f[y]])
<1>1. SumFunction(f) = Cardinality(Units(f, D))
  BY SumIsCount
<1>2. SumFunction(f) \in Nat
  BY <1>1, UnitsFinite
<1>3. D = {} => SumFunction(f) = 0
  BY <1>1, FS_EmptySet DEF Units
<1>4. ASSUME NEW x \in D PROVE SumFunction(f) = f[x] + SumFunction([y \in D \ {x} |-> f[y]])
  <2> DEFINE h == [y \in D \ {x} |-> f[y]]
  <2>1. IsFiniteSet(D \ {x})
    BY FS_RemoveElement
  <2>2. h \in [D \ {x} -> Nat]
    OBVIOUS
  <2>3. Units(h, D \ {x}) = Units(f, D \ {x})
    BY DEF Units
  <2> HIDE DEF h
  <2>4. SumFunction(h) = Cardinality(Units(h, D \ {x}))
    BY <2>1, <2>2, SumIsCount
  <2>5. Cardinality(Units(f, D)) = f[x] + Cardinality(Units(f, D \ {x}))
    BY UnitsTake
  <2> QED
    BY <1>1, <2>3, <2>4, <2>5 DEF h
<1> QED
  BY <1>2, <1>3, <1>4

\* A sum over more summands, none of them less, is no less.
LEMMA SumMonotonic ==
  ASSUME NEW D, NEW E, IsFiniteSet(E), D \subseteq E, NEW f \in [D -> Nat], NEW g \in [E -> Nat],
         \A x \in D : f[x] <= g[x]
  PROVE  SumFunction(f) <= SumFunction(g)
<1>1. IsFiniteSet(D)
  BY FS_Subset
<1>2. Units(f, D) \subseteq Units(g, E)
  BY DEF Units
<1>3. Cardinality(Units(f, D)) <= Cardinality(Units(g, E))
  BY <1>2, UnitsFinite, FS_Subset
<1> QED
  BY <1>1, <1>3, SumIsCount

\* A sum is no more than its number of summands, each as large as the largest.
LEMMA SumAtMost ==
  ASSUME NEW D, IsFiniteSet(D), NEW n \in Nat, NEW f \in [D -> Nat], \A x \in D : f[x] <= n
  PROVE  SumFunction(f) <= Cardinality(D) * n
<1>1. Units(f, D) \subseteq D \X (1..n)
  BY DEF Units
<1>2. IsFiniteSet(1..n) /\ Cardinality(1..n) = n
  BY FS_Interval
<1> DEFINE N == 1..n
<1> HIDE DEF N
<1>3. IsFiniteSet(D \X N) /\ Cardinality(D \X N) = Cardinality(D) * Cardinality(N)
  BY <1>2, FS_Product DEF N
<1>4. Cardinality(Units(f, D)) <= Cardinality(D \X N)
  BY <1>1, <1>3, FS_Subset DEF N
<1>5. SumFunction(f) = Cardinality(Units(f, D))
  BY SumIsCount
<1> QED
  BY <1>2, <1>3, <1>4, <1>5 DEF N

\* One summand and the sum of the others.
LEMMA SumTake ==
  ASSUME NEW D, IsFiniteSet(D), NEW f \in [D -> Nat], NEW x \in D,
         NEW rest, rest = [y \in D \ {x} |-> f[y]]
  PROVE  SumFunction(f) = f[x] + SumFunction(rest) /\ SumFunction(rest) \in Nat
<1>1. SumFunction(f) = f[x] + SumFunction([y \in D \ {x} |-> f[y]])
  BY SumFacts
<1>2. IsFiniteSet(D \ {x}) /\ rest \in [D \ {x} -> Nat]
  BY FS_RemoveElement
<1>3. SumFunction(rest) \in Nat
  BY <1>2, SumFacts
<1> QED
  BY <1>1, <1>3

\* The greatest of two, of three and of finitely many numbers.
LEMMA MaxOfTwo ==
  ASSUME NEW a \in Int, NEW b \in Int
  PROVE  Max({a, b}) = IF a >= b THEN a ELSE b
<1>1. \E x \in {a, b} : \A y \in {a, b} : x >= y
  OBVIOUS
<1> QED
  BY <1>1 DEF Max

LEMMA MaxOfSet ==
  ASSUME NEW S \in SUBSET Nat, IsFiniteSet(S), S # {}
  PROVE  Max(S) \in S /\ \A x \in S : x <= Max(S)
<1> DEFINE P == {T \in SUBSET S : T = {} \/ \E x \in T : \A y \in T : x >= y}
<1>1. {} \in P
  OBVIOUS
<1>2. ASSUME NEW T \in P, NEW x \in S \ T PROVE T \cup {x} \in P
  <2>1. CASE T = {}
    BY <2>1
  <2>2. CASE T # {}
    <3>1. PICK m \in T : \A y \in T : m >= y
      BY <2>2
    <3>2. CASE m >= x
      BY <3>1, <3>2
    <3>3. CASE x >= m
      BY <3>1, <3>3
    <3> QED
      BY <3>2, <3>3
  <2> QED
    BY <2>1, <2>2
<1>3. P \in SUBSET SUBSET S
  OBVIOUS
<1> HIDE DEF P
<1>4. P = SUBSET S
  BY <1>1, <1>2, <1>3, SetInduction
<1>5. PICK x \in S : \A y \in S : x >= y
  BY <1>4 DEF P
<1> QED
  BY <1>5 DEF Max

-----------------------------------------------------------------------------
(* Pages *)

\* A vault has notes for finitely many accounts.
LEMMA VaultType ==
  ASSUME NEW v
  PROVE  v \in Vault <=> /\ v = [notes |-> v.notes, icons |-> v.icons]
                         /\ v.icons \subseteq Id
                         /\ DOMAIN v.notes \subseteq Id
                         /\ v.notes \in [DOMAIN v.notes -> Notes]
<1>1. \A n : n \in Entries <=> DOMAIN n \subseteq Id /\ n \in [DOMAIN n -> Notes]
  BY DEF Entries
<1> QED
  BY <1>1 DEF Vault

\* The entries and the content of a vault take so many pages, the content one at least.
LEMMA PagesType ==
  ASSUME NEW v \in Vault
  PROVE  /\ IsFiniteSet(DOMAIN v.notes)
         /\ [i \in DOMAIN v.notes |-> 1 + Pages(v.notes[i])] \in [DOMAIN v.notes -> Nat]
         /\ v.notes \in [DOMAIN v.notes -> Nat]
         /\ Buffers(v) \in Nat /\ Content(v) \in Nat /\ Content(v) >= 1
<1>1. IsFiniteSet(DOMAIN v.notes) /\ IsFiniteSet(v.icons)
  BY VaultType, LockedMemoryAssumption, FS_Subset
<1>2. [i \in DOMAIN v.notes |-> 1 + Pages(v.notes[i])] \in [DOMAIN v.notes -> Nat]
  BY VaultType, LockedMemoryAssumption DEF Pages
<1>3. v.notes \in [DOMAIN v.notes -> Nat]
  BY VaultType, LockedMemoryAssumption
<1>4. Buffers(v) \in Nat
  BY <1>1, <1>2, SumFacts DEF Buffers
<1>5. SumFunction(v.notes) \in Nat /\ Cardinality(v.icons) \in Nat
  BY <1>1, <1>3, SumFacts, FS_CardinalityType
<1> QED
  BY <1>1, <1>2, <1>3, <1>4, <1>5 DEF Content

\* A note that is written in takes the place of the one before, or comes with a password.
LEMMA PagesWithNote ==
  ASSUME NEW v \in Vault, NEW id \in Id, NEW n \in Notes
  PROVE  /\ WithNote(v, id, n) \in Vault
         /\ Buffers(WithNote(v, id, n)) =
              IF id \in DOMAIN v.notes THEN Buffers(v) - Pages(v.notes[id]) + Pages(n)
              ELSE Buffers(v) + 1 + Pages(n)
<1> DEFINE D == DOMAIN v.notes
           f == [i \in D |-> 1 + Pages(v.notes[i])]
           m == [i \in D \cup {id} |-> IF i = id THEN n ELSE v.notes[i]]
           u == WithNote(v, id, n)
           g == [i \in D \cup {id} |-> 1 + Pages(m[i])]
<1>1. u = [notes |-> m, icons |-> v.icons]
  BY VaultType DEF WithNote
<1>2. m \in [D \cup {id} -> Notes]
  BY VaultType
<1>3. u \in Vault
  BY <1>1, <1>2, VaultType
<1>4. Buffers(u) = SumFunction(g) /\ Buffers(v) = SumFunction(f)
  BY <1>1 DEF Buffers
<1>5. IsFiniteSet(D) /\ f \in [D -> Nat] /\ Buffers(v) \in Nat
  BY PagesType
<1>6. IsFiniteSet(D \cup {id})
  BY <1>5, FS_AddElement
<1>7. g \in [D \cup {id} -> Nat]
  BY <1>2, LockedMemoryAssumption DEF Pages
<1>8. g[id] = 1 + Pages(n) /\ Pages(n) \in Nat
  BY LockedMemoryAssumption DEF Pages
<1> HIDE DEF u
<1>10. CASE id \notin D
  <2>1. f = [y \in (D \cup {id}) \ {id} |-> g[y]]
    BY <1>10
  <2> HIDE DEF f, g
  <2>2. SumFunction(g) = g[id] + SumFunction(f)
    BY <1>6, <1>7, <2>1, SumTake
  <2>3. Buffers(u) = Buffers(v) + 1 + Pages(n)
    BY <1>4, <1>5, <1>8, <2>2
  <2> QED
    BY <1>3, <1>10, <2>3 DEF u
<1>11. CASE id \in D
  <2> DEFINE h == [y \in D \ {id} |-> f[y]]
  <2>1. h = [y \in (D \cup {id}) \ {id} |-> g[y]]
    BY <1>11
  <2>2. f[id] = 1 + Pages(v.notes[id]) /\ Pages(v.notes[id]) \in Nat
    BY <1>11, VaultType, LockedMemoryAssumption DEF Pages
  <2>3. SumFunction(g) = g[id] + SumFunction(h)
    <3> HIDE DEF g, h
    <3> QED
      BY <1>6, <1>7, <2>1, SumTake
  <2> HIDE DEF g, f
  <2>4. SumFunction(f) = f[id] + SumFunction(h) /\ SumFunction(h) \in Nat
    BY <1>5, <1>11, SumTake
  <2> HIDE DEF h
  <2>5. Buffers(u) = Buffers(v) - Pages(v.notes[id]) + Pages(n)
    BY <1>4, <1>8, <2>2, <2>3, <2>4
  <2> QED
    BY <1>3, <1>11, <2>5 DEF u
<1> QED
  BY <1>10, <1>11

\* What is left of a vault without one account takes no more pages.
Without(v, id) == [notes |-> [i \in DOMAIN v.notes \ {id} |-> v.notes[i]], icons |-> v.icons \ {id}]
LEMMA PagesWithout ==
  ASSUME NEW v \in Vault, NEW id
  PROVE  Without(v, id) \in Vault /\ Buffers(Without(v, id)) <= Buffers(v)
<1> DEFINE u == Without(v, id)
           f == [i \in DOMAIN u.notes |-> 1 + Pages(u.notes[i])]
           g == [i \in DOMAIN v.notes |-> 1 + Pages(v.notes[i])]
<1>1. u \in Vault
  BY VaultType DEF Without
<1>2. /\ DOMAIN u.notes \subseteq DOMAIN v.notes
      /\ \A i \in DOMAIN u.notes : f[i] = g[i]
  BY DEF Without
<1>3. f \in [DOMAIN u.notes -> Nat] /\ g \in [DOMAIN v.notes -> Nat] /\ IsFiniteSet(DOMAIN v.notes)
  BY <1>1, PagesType
<1>4. Buffers(u) = SumFunction(f) /\ Buffers(v) = SumFunction(g)
  BY DEF Buffers
<1> HIDE DEF f, g, u
<1>5. SumFunction(f) <= SumFunction(g)
  BY <1>2, <1>3, SumMonotonic
<1> QED
  BY <1>1, <1>4, <1>5 DEF u

\* No vault takes more pages than the largest one, nor does a new note in it.
LEMMA LargestIsLargest ==
  /\ Largest \in Vault
  /\ \A v \in Vault : Buffers(v) <= Buffers(Largest) /\ Content(v) <= Content(Largest)
  /\ \A n \in Notes, id \in Id : 1 + Pages(n) <= Buffers(Largest)
<1> DEFINE top == Max(Notes)
           big == [i \in Id |-> 1 + Pages(top)]
<1>1. top \in Notes /\ top \in Nat /\ \A n \in Notes : n \in Nat /\ n <= top
  <2>1. Notes # {}
    BY LockedMemoryAssumption
  <2> QED
    BY <2>1, MaxOfSet, LockedMemoryAssumption
<1> HIDE DEF top
<1>2. Largest = [notes |-> [i \in Id |-> top], icons |-> Id]
  BY DEF Largest, top
<1>3. Largest \in Vault
  BY <1>1, <1>2, VaultType
<1>4. \A n \in Notes : Pages(n) \in Nat /\ Pages(n) <= Pages(top)
  BY <1>1 DEF Pages
<1>5. Buffers(Largest) = SumFunction(big) /\ big \in [Id -> Nat] /\ IsFiniteSet(Id)
  BY <1>1, <1>2, <1>4, LockedMemoryAssumption DEF Buffers
<1>6. ASSUME NEW v \in Vault
      PROVE  Buffers(v) <= Buffers(Largest) /\ Content(v) <= Content(Largest)
  <2> DEFINE f == [i \in DOMAIN v.notes |-> 1 + Pages(v.notes[i])]
             all == [i \in Id |-> top]
  <2>1. DOMAIN v.notes \subseteq Id /\ v.notes \in [DOMAIN v.notes -> Notes] /\ v.icons \subseteq Id
    BY VaultType
  <2>2. f \in [DOMAIN v.notes -> Nat] /\ v.notes \in [DOMAIN v.notes -> Nat]
    BY PagesType
  <2>3. \A i \in DOMAIN v.notes : f[i] <= big[i]
    <3>1. SUFFICES ASSUME NEW i \in DOMAIN v.notes PROVE 1 + Pages(v.notes[i]) <= 1 + Pages(top)
      BY <2>1
    <3>2. v.notes[i] \in Notes
      BY <2>1
    <3>3. Pages(v.notes[i]) \in Nat /\ Pages(v.notes[i]) <= Pages(top)
      BY <1>4, <3>2
    <3>4. Pages(top) \in Nat
      BY <1>1, <1>4
    <3> QED
      BY <3>3, <3>4
  <2>4. Buffers(v) = SumFunction(f)
    BY DEF Buffers
  <2>5. all \in [Id -> Nat] /\ \A i \in DOMAIN v.notes : v.notes[i] <= all[i]
    BY <1>1, <2>1
  <2>6. Content(Largest) = 1 + Cardinality(Id) + SumFunction(all)
    BY <1>2 DEF Content
  <2> HIDE DEF f, big, all
  <2>7. SumFunction(f) <= SumFunction(big)
    BY <1>5, <2>1, <2>2, <2>3, SumMonotonic
  <2>8. SumFunction(v.notes) <= SumFunction(all)
    BY <1>5, <2>1, <2>2, <2>5, SumMonotonic
  <2>9. Cardinality(v.icons) <= Cardinality(Id)
    BY <1>5, <2>1, FS_Subset
  <2>10. SumFunction(v.notes) \in Nat /\ SumFunction(all) \in Nat
    BY <1>5, <2>2, <2>5, SumFacts, PagesType
  <2>11. Cardinality(v.icons) \in Nat /\ Cardinality(Id) \in Nat
    BY <1>5, <2>1, FS_Subset, FS_CardinalityType
  <2>12. Content(v) <= Content(Largest)
    BY <2>6, <2>8, <2>9, <2>10, <2>11 DEF Content
  <2> QED
    BY <1>5, <2>4, <2>7, <2>12
<1>7. ASSUME NEW n \in Notes, NEW id \in Id PROVE 1 + Pages(n) <= Buffers(Largest)
  <2> DEFINE rest == [y \in Id \ {id} |-> big[y]]
  <2>1. big[id] = 1 + Pages(top)
    OBVIOUS
  <2> HIDE DEF big
  <2>2. SumFunction(big) = big[id] + SumFunction(rest) /\ SumFunction(rest) \in Nat
    BY <1>5, SumTake
  <2> QED
    BY <1>1, <1>4, <1>5, <2>1, <2>2
<1> QED
  BY <1>3, <1>6, <1>7

-----------------------------------------------------------------------------
(* The inductive invariant *)

WorkerType == [pc : {"idle", "save", "icon", "write", "store", "open"}, id : Id \cup {NoId},
               new : BOOLEAN, pass : BOOLEAN, vault : Vault \cup {NoVault},
               file : BOOLEAN, ok : BOOLEAN]

Types ==
  /\ vault \in Vault \cup {NoVault} /\ file \in Vault \cup {NoVault, Damaged}
  /\ password \in BOOLEAN /\ handle \in BOOLEAN /\ poisoned \in BOOLEAN /\ created \in BOOLEAN
  /\ worker \in [Thread -> WorkerType]
  /\ started \in 0..MaxStarts
  /\ quota \in Quotas

\* What a thread at each point carries. Two copies of the entries fitted when a
\* password change took its clone; while a vault is being opened no other thread has one.
ThreadOK(t) ==
  LET w == worker[t] IN
  /\ w.pc \in {"write", "open"} => w.vault \in Vault
  /\ w.file => w.pc \in {"write", "store", "open"}
  /\ w.pc = "write" => 2 + 2 * Buffers(w.vault) <= quota
  /\ w.pc = "open" => vault = NoVault /\ \A u \in Thread \ {t} : worker[u].pc \in {"idle", "save", "icon"}
Threads == \A t \in Thread : ThreadOK(t)

\* A vault that was opened keeps its file: nobody writes it by its path.
Exclusive == vault # NoVault /\ ~created => Taken

\* With pages enough every copy of the password was made, and so every save has one.
HasPassword(w) == w.pc \in {"save", "open"} \/ (w.pc = "store" /\ w.ok) => w.pass
Ample ==
  quota >= Enough =>
    /\ file # Damaged /\ ~poisoned
    /\ vault # NoVault => password
    /\ \A t \in Thread : HasPassword(worker[t])

IInv == Types /\ Used <= quota /\ Threads /\ Exclusive /\ SavedReopens /\ Ample

-----------------------------------------------------------------------------
(* Who takes how many pages *)

\* What the threads other than t take.
Others(t) == SumFunction([u \in Thread \ {t} |-> Held(worker[u])])

Share == 2 + Buffers(Largest)

\* No thread takes more than its share of Enough.
LEMMA HeldType ==
  ASSUME NEW w \in WorkerType, w.pc \in {"write", "open"} => w.vault \in Vault
  PROVE  Held(w) \in Nat /\ Held(w) <= Share
<1>1. w.pc \in {"idle", "save", "icon", "write", "store", "open"} /\ w.pass \in BOOLEAN
  BY DEF WorkerType
<1>2. If(w.pass) \in 0..1
  BY <1>1 DEF If
<1>3. Buffers(Largest) \in Nat
  BY LargestIsLargest, PagesType
<1>4. CASE w.pc \in {"write", "open"}
  <2>1. Buffers(w.vault) \in Nat /\ Buffers(w.vault) <= Buffers(Largest)
    BY <1>4, LargestIsLargest, PagesType
  <2> QED
    BY <1>2, <1>3, <1>4, <2>1 DEF Held, Share
<1>5. CASE w.pc \notin {"write", "open"}
  BY <1>1, <1>2, <1>3, <1>5 DEF Held, Share
<1> QED
  BY <1>4, <1>5

\* The pages in use: the session, one thread and the others.
LEMMA UsedIs ==
  ASSUME Types, Threads, NEW t \in Thread
  PROVE  /\ Others(t) \in Nat /\ Held(worker[t]) \in Nat
         /\ Used = Session(vault) + (Held(worker[t]) + Others(t))
         /\ quota >= Enough => quota >= Others(t) + 2 * Share + 1 + Content(Largest)
<1> DEFINE f == [u \in Thread |-> Held(worker[u])]
           rest == [u \in Thread \ {t} |-> Held(worker[u])]
<1>1. \A u \in Thread : Held(worker[u]) \in Nat /\ Held(worker[u]) <= Share
  <2>1. SUFFICES ASSUME NEW u \in Thread PROVE Held(worker[u]) \in Nat /\ Held(worker[u]) <= Share
    OBVIOUS
  <2>2. worker[u] \in WorkerType /\ (worker[u].pc \in {"write", "open"} => worker[u].vault \in Vault)
    BY DEF Types, Threads, ThreadOK
  <2> QED
    BY <2>2, HeldType
<1>2. f \in [Thread -> Nat] /\ f[t] = Held(worker[t]) /\ rest = [u \in Thread \ {t} |-> f[u]]
  BY <1>1
<1>3. rest \in [Thread \ {t} -> Nat] /\ \A u \in Thread \ {t} : rest[u] <= Share
  BY <1>1
<1>4. IsFiniteSet(Thread) /\ IsFiniteSet(Thread \ {t}) /\ Cardinality(Thread) \in Nat
      /\ Cardinality(Thread \ {t}) = Cardinality(Thread) - 1 /\ Cardinality(Thread \ {t}) \in Nat
  BY LockedMemoryAssumption, FS_RemoveElement, FS_CardinalityType
<1>5. Share \in Nat /\ Content(Largest) \in Nat
  BY LargestIsLargest, PagesType DEF Share
<1> HIDE DEF f, rest
<1>6. SumFunction(f) = f[t] + SumFunction(rest) /\ SumFunction(rest) \in Nat
  BY <1>2, <1>4, SumTake
<1>7. SumFunction(rest) <= Cardinality(Thread \ {t}) * Share
  BY <1>3, <1>4, <1>5, SumAtMost
<1>8. Used = Session(vault) + SumFunction(f) /\ Others(t) = SumFunction(rest)
  BY DEF Used, Others, f, rest
<1>9. Enough = (1 + Cardinality(Thread)) * Share + 1 + Content(Largest)
  BY DEF Enough, Share
<1>10. quota \in Nat
  BY LockedMemoryAssumption DEF Types
<1>11. (1 + Cardinality(Thread)) * Share = Cardinality(Thread \ {t}) * Share + 2 * Share
  <2>1. \A n, k \in Int : (1 + n) * k = (n - 1) * k + 2 * k
    OBVIOUS
  <2> QED
    BY <1>4, <1>5, <2>1
<1>12. quota >= Enough => quota >= SumFunction(rest) + 2 * Share + 1 + Content(Largest)
  <2> DEFINE p == Cardinality(Thread \ {t}) * Share
             q == (1 + Cardinality(Thread)) * Share
  <2>1. p \in Int
    BY <1>4, <1>5
  <2>2. q = p + 2 * Share
    BY <1>11
  <2>3. SumFunction(rest) <= p /\ Enough = q + 1 + Content(Largest)
    BY <1>7, <1>9
  <2> HIDE DEF p, q
  <2> QED
    BY <1>5, <1>6, <1>10, <2>1, <2>2, <2>3
<1> QED
  BY <1>2, <1>6, <1>8, <1>12

\* After a step of the thread.
LEMMA UsedNext ==
  ASSUME Types, Threads, NEW t \in Thread, NEW w, Held(w) \in Nat,
         worker' = [worker EXCEPT ![t] = w]
  PROVE  Used' = Session(vault)' + (Held(w) + Others(t))
<1> DEFINE f == [u \in Thread |-> Held(worker'[u])]
           rest == [u \in Thread \ {t} |-> Held(worker[u])]
<1>1. \A u \in Thread : Held(worker[u]) \in Nat
  BY UsedIs
<1>2. worker \in [Thread -> WorkerType]
  BY DEF Types
<1>3. f \in [Thread -> Nat] /\ f[t] = Held(w) /\ rest = [u \in Thread \ {t} |-> f[u]]
  BY <1>1, <1>2
<1>4. IsFiniteSet(Thread)
  BY LockedMemoryAssumption
<1> HIDE DEF f, rest
<1>5. SumFunction(f) = f[t] + SumFunction(rest)
  BY <1>3, <1>4, SumTake
<1>6. Used' = Session(vault)' + SumFunction(f) /\ Others(t) = SumFunction(rest)
  BY DEF Used, Others, f, rest
<1> QED
  BY <1>3, <1>5, <1>6

\* The room there is for a session with the vault v, next to a thread and the others.
LEMMA RoomIs ==
  ASSUME Types, Threads, NEW t \in Thread, NEW v \in Vault \cup {NoVault}
  PROVE  /\ Session(v) \in Nat
         /\ Room(v) = quota - (Held(worker[t]) + Others(t)) - Session(v)
         /\ Room(v) \in Int
<1>1. If(password) \in 0..1
  BY DEF Types, If
<1>2. \A u \in Vault \cup {NoVault} : Session(u) \in Nat
  BY <1>1, PagesType DEF Session
<1>3. Session(v) \in Nat /\ Session(vault) \in Nat
  BY <1>2 DEF Types
<1>4. Others(t) \in Nat /\ Held(worker[t]) \in Nat
      /\ Used = Session(vault) + (Held(worker[t]) + Others(t))
  BY UsedIs
<1>5. quota \in Nat
  BY LockedMemoryAssumption DEF Types
<1> QED
  BY <1>3, <1>4, <1>5 DEF Room

-----------------------------------------------------------------------------
(* The steps *)

\* The session the threads leave room for, however large its vault.
LEMMA AmpleRoom ==
  ASSUME IInv, quota >= Enough, NEW t \in Thread, NEW v \in Vault \cup {NoVault}
  PROVE  /\ Room(v) >= Share + 1 + Content(Largest) - Held(worker[t])
         /\ v = NoVault => Room(v) >= 2 * Share + Content(Largest) - Held(worker[t])
         /\ Share \in Nat /\ Share = 2 + Buffers(Largest) /\ Buffers(Largest) \in Nat
         /\ Content(Largest) \in Nat /\ Content(Largest) >= 1 /\ Held(worker[t]) \in Nat
<1>1. /\ Room(v) = quota - (Held(worker[t]) + Others(t)) - Session(v)
      /\ Session(v) \in Nat /\ Held(worker[t]) \in Nat /\ Others(t) \in Nat
      /\ quota >= Others(t) + 2 * Share + 1 + Content(Largest)
  BY UsedIs, RoomIs DEF IInv
<1>2. Buffers(Largest) \in Nat /\ Content(Largest) \in Nat /\ Content(Largest) >= 1
  BY LargestIsLargest, PagesType
<1>3. If(password) \in 0..1
  BY DEF IInv, Types, If
<1>4. Session(v) <= Share /\ (v = NoVault => Session(v) <= 1)
  <2>1. CASE v = NoVault
    BY <1>2, <1>3, <2>1 DEF Session, Share
  <2>2. CASE v # NoVault
    <3>1. Buffers(v) \in Nat /\ Buffers(v) <= Buffers(Largest)
      BY <2>2, LargestIsLargest, PagesType
    <3> QED
      BY <1>2, <1>3, <2>2, <3>1 DEF Session, Share
  <2> QED
    BY <2>1, <2>2
<1>5. quota \in Nat
  BY LockedMemoryAssumption DEF IInv, Types
<1>6. Share \in Nat /\ Share = 2 + Buffers(Largest)
  BY <1>2 DEF Share
<1> QED
  BY <1>1, <1>2, <1>4, <1>5, <1>6

\* A thread that was idle copies the key and the password next to an edited vault.
LEMMA CopyKeeps ==
  ASSUME IInv, NEW t \in Thread, worker[t].pc = "idle",
         NEW v \in Vault, vault # NoVault, Room(v) >= 0, ~poisoned,
         NEW typed \in WorkerType, ~typed.file, Copy(t, v, typed), started' \in 0..MaxStarts,
         UNCHANGED <<created, quota>>
  PROVE  IInv'
<1> DEFINE w == IF Room(v) < 1 THEN Idle
                ELSE [typed EXCEPT !.pc = "save", !.pass = password /\ Room(v) >= 2]
<1> USE DEF IInv
<1>1. /\ vault' = v /\ worker' = [worker EXCEPT ![t] = w]
      /\ UNCHANGED <<password, handle, file, poisoned>>
  BY DEF Copy, Set
<1>2. w \in WorkerType /\ w.pc \in {"idle", "save"} /\ ~w.file
  BY DEF Idle, WorkerType, Types
<1>3. Room(v) \in Int /\ Room(v) = quota - Others(t) - Session(v) /\ Session(v) \in Nat
  <2>1. Held(worker[t]) = 0
    BY DEF Held
  <2> QED
    BY <2>1, RoomIs, UsedIs, LockedMemoryAssumption DEF Types
<1>4. Held(w) \in Nat /\ Held(w) <= Room(v)
  <2>1. CASE Room(v) < 1
    BY <1>3, <2>1 DEF Held, Idle
  <2>2. CASE ~(Room(v) < 1)
    <3>1. Held(w) = 1 + If(password /\ Room(v) >= 2)
      BY <2>2 DEF Held, WorkerType
    <3> QED
      BY <1>3, <2>2, <3>1 DEF If
  <2> QED
    BY <2>1, <2>2
<1> HIDE DEF w
<1>5. Types'
  BY <1>1, <1>2 DEF Types
<1>6. (Used <= quota)'
  <2>1. Used' = Session(vault)' + (Held(w) + Others(t))
    BY <1>1, <1>4, UsedNext
  <2>2. Session(vault)' = Session(v)
    BY <1>1 DEF Session
  <2>3. Others(t) \in Nat /\ quota \in Nat
    BY UsedIs, LockedMemoryAssumption DEF Types
  <2> QED
    BY <1>3, <1>4, <2>1, <2>2, <2>3
<1>7. Threads'
  BY <1>1, <1>2, NoVaultAssumption DEF Threads, ThreadOK, Types
<1>8. Exclusive'
  <2>1. \A u \in Thread : worker[u].file => worker'[u].file
    BY <1>1 DEF Threads, ThreadOK, Types
  <2> QED
    BY <1>1, <2>1 DEF Exclusive, Taken
<1>9. SavedReopens'
  BY <1>1 DEF SavedReopens
<1>10. Ample'
  <2>1. SUFFICES ASSUME quota >= Enough PROVE Ample'
    BY DEF Ample
  <2>2. Room(v) >= 2
    BY <1>3, <2>1, AmpleRoom DEF Held
  <2>3. password
    BY <2>1 DEF Ample
  <2>4. HasPassword(w)
    <3>1. w = [typed EXCEPT !.pc = "save", !.pass = password /\ Room(v) >= 2]
      BY <1>3, <2>2 DEF w
    <3>2. w.pass = (password /\ Room(v) >= 2)
      BY <3>1 DEF WorkerType
    <3> QED
      BY <2>2, <2>3, <3>2 DEF HasPassword
  <2> QED
    BY <1>1, <2>1, <2>3, <2>4 DEF Ample, Types
<1> QED
  BY <1>5, <1>6, <1>7, <1>8, <1>9, <1>10

\* A panic under the mutex changes nothing else; with pages enough there is none.
LEMMA PoisonKeeps ==
  ASSUME IInv, Poison, UNCHANGED <<worker, created, quota>>, started' \in 0..MaxStarts,
         ~(quota >= Enough)
  PROVE  IInv'
<1> USE DEF IInv, Poison
<1>1. Types'
  BY DEF Types
<1>2. Used' = Used
  BY DEF Used, Session
<1>3. Threads'
  BY DEF Threads, ThreadOK
<1>4. Exclusive' /\ SavedReopens' /\ Ample'
  BY DEF Exclusive, Taken, SavedReopens, Ample
<1> QED
  BY <1>1, <1>2, <1>3, <1>4

\* What Begin gives each operation.
LEMMA Begun ==
  ASSUME IInv, NEW t \in Thread, Begin(t)
  PROVE  /\ ~poisoned /\ worker[t].pc = "idle" /\ Held(worker[t]) = 0 /\ ~worker[t].file
         /\ started' \in 0..MaxStarts
         /\ vault # NoVault => vault \in Vault
         /\ Room(vault) \in Nat
<1> USE DEF IInv
<1>1. Room(vault) = quota - Used /\ quota \in Nat /\ Room(vault) \in Int /\ Used <= quota /\ Used \in Nat
  BY RoomIs, UsedIs, LockedMemoryAssumption DEF Types
<1>2. ~poisoned /\ worker[t].pc = "idle" /\ started' \in 0..MaxStarts
  BY LockedMemoryAssumption DEF Begin, Types
<1> QED
  BY <1>1, <1>2 DEF Held, Threads, ThreadOK, Types

\* The room changes by the entries of the vault.
LEMMA RoomChange ==
  ASSUME IInv, NEW t \in Thread, NEW u \in Vault, NEW v \in Vault
  PROVE  Room(v) = Room(u) + Buffers(u) - Buffers(v) /\ Room(v) \in Int
<1>1. /\ Room(v) = quota - (Held(worker[t]) + Others(t)) - Session(v)
      /\ Room(u) = quota - (Held(worker[t]) + Others(t)) - Session(u)
      /\ Held(worker[t]) \in Nat /\ Others(t) \in Nat /\ quota \in Nat
  BY RoomIs, UsedIs, LockedMemoryAssumption DEF IInv, Types
<1>2. If(password) \in 0..1
  BY DEF IInv, Types, If
<1>3. Session(v) = 1 + Buffers(v) + If(password) /\ Session(u) = 1 + Buffers(u) + If(password)
  BY NoVaultAssumption DEF Session
<1>4. Buffers(v) \in Nat /\ Buffers(u) \in Nat
  BY PagesType
<1> QED
  BY <1>1, <1>2, <1>3, <1>4

\* An edited note takes what is left of the pages at most, or the callback panics.
LEMMA UpdateKeeps ==
  ASSUME IInv, NEW t \in Thread, NEW id \in Id, NEW notes \in Notes,
         UpdateEntry(t, id, notes), UNCHANGED <<created, quota>>
  PROVE  IInv'
<1> DEFINE room == Room(vault)
           n == Note(notes, room)
           v == WithNote(vault, id, n)
<1>1. /\ Begin(t) /\ vault # NoVault /\ id \in DOMAIN vault.notes
      /\ IF Unwraps(notes, room) THEN Copy(t, v, [Idle EXCEPT !.id = id])
         ELSE Poison /\ UNCHANGED worker
  BY DEF UpdateEntry
<1>2. /\ ~poisoned /\ worker[t].pc = "idle" /\ Held(worker[t]) = 0 /\ started' \in 0..MaxStarts
      /\ vault \in Vault /\ room \in Nat
  BY <1>1, Begun
<1>3. notes \in Nat /\ n \in Notes /\ \A m \in Notes : Pages(m) \in Nat /\ Pages(m) >= 1
  BY LockedMemoryAssumption DEF Note, Pages
<1>4. CASE Unwraps(notes, room)
  <2>1. v \in Vault /\ Buffers(v) = Buffers(vault) - Pages(vault.notes[id]) + Pages(n)
    BY <1>1, <1>2, <1>3, PagesWithNote
  <2>2. Pages(vault.notes[id]) \in Nat /\ Pages(n) <= room /\ Pages(n) \in Nat
    BY <1>1, <1>2, <1>3, <1>4, VaultType DEF Unwraps, Kept, Note, Pages
  <2>3. Buffers(vault) \in Nat /\ Buffers(v) \in Nat
    BY <1>2, <2>1, PagesType
  <2>4. Room(v) = room + Buffers(vault) - Buffers(v)
    BY <1>2, <2>1, RoomChange
  <2>5. Room(v) >= 0
    <3>1. Room(v) \in Int
      BY <2>1, RoomIs DEF IInv
    <3> HIDE DEF n, v, room
    <3> QED
      BY <1>2, <2>1, <2>2, <2>3, <2>4, <3>1
  <2>6. [Idle EXCEPT !.id = id] \in WorkerType /\ ~[Idle EXCEPT !.id = id].file
    BY DEF Idle, WorkerType
  <2> HIDE DEF v
  <2>7. Copy(t, v, [Idle EXCEPT !.id = id])
    BY <1>1, <1>4
  <2> QED
    BY <1>1, <1>2, <2>1, <2>5, <2>6, <2>7, CopyKeeps
<1>5. CASE ~Unwraps(notes, room)
  <2>1. ~(quota >= Enough)
    <3>1. SUFFICES ASSUME quota >= Enough PROVE FALSE
      OBVIOUS
    <3>2. room >= 2 + Buffers(Largest) + 1 + Content(Largest) /\ Buffers(Largest) \in Nat
          /\ Content(Largest) \in Nat
      BY <1>2, <3>1, AmpleRoom DEF IInv, Types
    <3>3. 1 + Pages(notes) <= Buffers(Largest)
      BY LargestIsLargest
    <3> HIDE DEF room
    <3> QED
      BY <1>2, <1>3, <1>5, <3>2, <3>3 DEF Unwraps, Kept
  <2> QED
    BY <1>1, <1>2, <1>5, <2>1, PoisonKeeps
<1> QED
  BY <1>4, <1>5

\* Without locked memory for a new entry nothing is added; its note then takes what is
\* left at most, or the callback panics.
LEMMA CreateKeeps ==
  ASSUME IInv, NEW t \in Thread, NEW id \in Id, NEW notes \in Notes,
         CreateEntry(t, id, notes), UNCHANGED <<created, quota>>
  PROVE  IInv'
<1> DEFINE typed == [Idle EXCEPT !.id = id, !.new = TRUE]
           room == Room(vault) - 2
           n == Note(notes, room)
           v == WithNote(vault, id, n)
<1>1. Begin(t) /\ vault # NoVault /\ id \notin DOMAIN vault.notes
  BY DEF CreateEntry
<1>2. /\ ~poisoned /\ worker[t].pc = "idle" /\ Held(worker[t]) = 0 /\ started' \in 0..MaxStarts
      /\ vault \in Vault /\ Room(vault) \in Nat
  BY <1>1, Begun
<1>3. notes \in Nat /\ n \in Notes /\ 0 \in Notes /\ \A m \in Notes : Pages(m) \in Nat /\ Pages(m) >= 1
  BY LockedMemoryAssumption DEF Note, Pages
<1>4. typed \in WorkerType /\ ~typed.file
  BY DEF Idle, WorkerType
<1>5. ASSUME NEW m \in Notes
      PROVE  /\ WithNote(vault, id, m) \in Vault
             /\ Room(WithNote(vault, id, m)) = room + 1 - Pages(m)
             /\ Room(WithNote(vault, id, m)) \in Int
  <2> DEFINE u == WithNote(vault, id, m)
  <2>1. u \in Vault /\ Buffers(u) = Buffers(vault) + 1 + Pages(m)
    BY <1>1, <1>2, PagesWithNote
  <2> HIDE DEF u
  <2>2. Room(u) = Room(vault) + Buffers(vault) - Buffers(u) /\ Room(u) \in Int
    BY <1>2, <2>1, RoomChange
  <2>3. Buffers(vault) \in Nat /\ Pages(m) \in Nat
    BY <1>2, <1>3, PagesType
  <2> QED
    BY <1>2, <2>1, <2>2, <2>3 DEF u
<1>6. CASE room < 0
  <2>1. ~(room >= 0)
    BY <1>2, <1>6
  <2> HIDE DEF typed, room
  <2>2. Copy(t, vault, typed)
    BY <1>6, <2>1 DEF CreateEntry, typed, room
  <2> QED
    BY <1>1, <1>2, <1>4, <2>2, CopyKeeps
<1>7. CASE room >= 0 /\ notes = 0
  <2>1. Copy(t, WithNote(vault, id, 0), typed)
    BY <1>2, <1>7 DEF CreateEntry
  <2>2. Room(WithNote(vault, id, 0)) >= 0
    BY <1>2, <1>3, <1>5, <1>7 DEF Pages
  <2> HIDE DEF typed
  <2> QED
    BY <1>1, <1>2, <1>3, <1>4, <1>5, <2>1, <2>2, CopyKeeps
<1>8. CASE room >= 0 /\ notes # 0 /\ Unwraps(notes, room)
  <2>1. Copy(t, v, typed)
    BY <1>2, <1>8 DEF CreateEntry
  <2>2. v \in Vault /\ Room(v) = room + 1 - Pages(n) /\ Room(v) \in Int
    BY <1>3, <1>5
  <2>3. Pages(n) <= room /\ Pages(n) \in Nat
    BY <1>2, <1>3, <1>8 DEF Unwraps, Kept, Note, Pages
  <2>4. Room(v) >= 0
    <3> HIDE DEF v, n
    <3> QED
      BY <1>2, <2>2, <2>3
  <2> HIDE DEF typed, v
  <2> QED
    BY <1>1, <1>2, <1>4, <2>1, <2>2, <2>4, CopyKeeps
<1>9. CASE room >= 0 /\ notes # 0 /\ ~Unwraps(notes, room)
  <2>1. Poison /\ UNCHANGED worker
    BY <1>2, <1>9 DEF CreateEntry
  <2>2. ~(quota >= Enough)
    <3>1. SUFFICES ASSUME quota >= Enough PROVE FALSE
      OBVIOUS
    <3>2. Room(vault) >= 2 + Buffers(Largest) + 1 + Content(Largest) /\ Buffers(Largest) \in Nat
          /\ Content(Largest) \in Nat
      BY <1>2, <3>1, AmpleRoom DEF IInv, Types
    <3>3. 1 + Pages(notes) <= Buffers(Largest)
      BY LargestIsLargest
    <3> QED
      BY <1>2, <1>3, <1>9, <3>2, <3>3 DEF Unwraps, Kept
  <2> QED
    BY <1>2, <2>1, <2>2, PoisonKeeps
<1>10. room < 0 \/ room >= 0
  BY <1>2
<1> QED
  BY <1>6, <1>7, <1>8, <1>9, <1>10

\* A purge gives pages back.
LEMMA PurgeKeeps ==
  ASSUME IInv, NEW t \in Thread, NEW id \in Id, PurgeEntry(t, id), UNCHANGED <<created, quota>>
  PROVE  IInv'
<1> DEFINE v == Without(vault, id)
<1>1. Begin(t) /\ vault # NoVault /\ Copy(t, v, Idle)
  BY DEF PurgeEntry, Without
<1>2. /\ ~poisoned /\ worker[t].pc = "idle" /\ started' \in 0..MaxStarts
      /\ vault \in Vault /\ Room(vault) \in Nat
  BY <1>1, Begun
<1>3. v \in Vault /\ Buffers(v) <= Buffers(vault) /\ Buffers(v) \in Nat /\ Buffers(vault) \in Nat
  BY <1>2, PagesWithout, PagesType
<1> HIDE DEF v
<1>4. Room(v) >= 0
  BY <1>2, <1>3, RoomChange
<1>5. Idle \in WorkerType /\ ~Idle.file
  BY DEF Idle, WorkerType
<1> QED
  BY <1>1, <1>2, <1>3, <1>4, <1>5, CopyKeeps

\* What writing and opening a vault takes, without the maxima.
LEMMA Sizes ==
  ASSUME NEW v \in Vault
  PROVE  /\ ToSave(v) \in Nat /\ ToSave(v) >= 2 /\ ToSave(v) >= 1 + Content(v)
         /\ ToSave(v) <= 1 + Content(Largest)
         /\ ToLoad(v) \in Nat /\ ToLoad(v) >= 2 + Content(v) + Buffers(v)
         /\ \A q \in Int : 3 <= q /\ 2 + Content(v) + Buffers(v) <= q /\ 2 + 2 * Buffers(v) <= q
                             => ToOpen(v) <= q
<1> DEFINE b == Buffers(v)
           c == Content(v)
<1>1. b \in Nat /\ c \in Nat /\ c >= 1 /\ c <= Content(Largest) /\ Content(Largest) \in Nat
  BY LargestIsLargest, PagesType
<1> HIDE DEF b, c
<1>2. ToSave(v) = IF 2 >= 1 + c THEN 2 ELSE 1 + c
  BY <1>1, MaxOfTwo DEF ToSave, c
<1>3. ToLoad(v) = IF 3 >= 2 + c + b THEN 3 ELSE 2 + c + b
  BY <1>1, MaxOfTwo DEF ToLoad, b, c
<1>4. ToLoad(v) \in Nat
  BY <1>1, <1>3
<1>5. ToOpen(v) = IF ToLoad(v) >= 2 + 2 * b THEN ToLoad(v) ELSE 2 + 2 * b
  BY <1>1, <1>4, MaxOfTwo DEF ToOpen, b
<1> QED
  BY <1>1, <1>2, <1>3, <1>4, <1>5 DEF b, c

\* A thread that gives back pages, while the session stays as it is.
LEMMA UsedLess ==
  ASSUME IInv, NEW t \in Thread, NEW w, Held(w) \in Nat, Held(w) <= Held(worker[t]),
         worker' = [worker EXCEPT ![t] = w], UNCHANGED <<vault, password, quota>>
  PROVE  (Used <= quota)'
<1>1. Used' = Session(vault)' + (Held(w) + Others(t))
  BY UsedNext DEF IInv
<1>2. Used = Session(vault) + (Held(worker[t]) + Others(t)) /\ Session(vault) \in Nat
      /\ Others(t) \in Nat /\ Held(worker[t]) \in Nat /\ Used <= quota /\ quota \in Nat
  BY UsedIs, RoomIs, LockedMemoryAssumption DEF IInv, Types
<1>3. Session(vault)' = Session(vault)
  BY DEF Session
<1> QED
  BY <1>1, <1>2, <1>3

\* Whoever had the pages to write the vault next to a clone of it leaves it to be opened.
LEMMA SaveKeeps ==
  ASSUME IInv, NEW t \in Thread, SaveState(t), UNCHANGED <<created, quota>>
  PROVE  IInv'
<1> DEFINE w == worker[t]
           icon == [Idle EXCEPT !.pc = "icon", !.id = w.id, !.new = w.new]
           wrote == file' = Written(vault, w.pass, Room(vault) - Clone)
<1>1. /\ w.pc = "save" /\ ~poisoned /\ UNCHANGED <<vault, password, handle, started>>
      /\ Set(t, Idle) \/ Set(t, icon)
  BY Zenon DEF SaveState
<1>2. \/ UNCHANGED <<file, poisoned>>
      \/ vault # NoVault /\ handle /\ ~Fits(Clone) /\ UNCHANGED file /\ poisoned' = TRUE
      \/ vault # NoVault /\ (handle \/ ~Taken) /\ ~(handle /\ ~Fits(Clone)) /\ wrote /\ UNCHANGED poisoned
  BY DEF SaveState
<1>3. PICK x \in {Idle, icon} : worker' = [worker EXCEPT ![t] = x]
  BY <1>1 DEF Set
<1>4. w \in WorkerType /\ ~w.file /\ Held(w) = 1 + If(w.pass) /\ If(w.pass) \in 0..1
  BY <1>1 DEF IInv, Types, Threads, ThreadOK, Held, If, WorkerType
<1>5. x \in WorkerType /\ x.pc \in {"idle", "icon"} /\ ~x.file /\ Held(x) = 0
  <2>1. Idle \in WorkerType /\ Idle.pc = "idle" /\ ~Idle.file
    BY DEF Idle, WorkerType
  <2>2. icon \in WorkerType /\ icon.pc = "icon" /\ ~icon.file
    BY <1>4 DEF Idle, WorkerType
  <2> HIDE DEF icon
  <2> QED
    BY <2>1, <2>2 DEF Held
<1> HIDE DEF w, icon, wrote
<1>6. vault # NoVault => /\ vault \in Vault /\ Clone \in 0..Buffers(vault) /\ Buffers(vault) \in Nat
                         /\ Buffers(vault) <= Buffers(Largest) /\ Room(vault) \in Int
  BY PagesType, LargestIsLargest, RoomIs DEF IInv, Types, Clone
<1>7. wrote => file' \in {vault, Damaged}
  BY DEF wrote, Written
<1>8. Types'
  BY <1>1, <1>2, <1>3, <1>5, <1>6, <1>7 DEF IInv, Types
<1>9. (Used <= quota)'
  <2>1. Held(x) \in Nat /\ Held(x) <= Held(worker[t])
    BY <1>4, <1>5 DEF w
  <2> QED
    BY <1>1, <1>3, <2>1, UsedLess
<1>10. Threads'
  BY <1>1, <1>3, <1>5 DEF IInv, Threads, ThreadOK, Types
<1>11. Exclusive'
  <2>1. \A u \in Thread : worker[u].file => worker'[u].file
    BY <1>3, <1>4 DEF IInv, Types, w
  <2> QED
    BY <1>1, <2>1 DEF IInv, Exclusive, Taken
<1>12. SavedReopens'
  <2>1. SUFFICES ASSUME ~created, wrote, file' # Damaged, vault # NoVault, handle \/ ~Taken
                 PROVE  ToOpen(file') <= quota
    BY <1>2 DEF IInv, SavedReopens
  <2>2. handle /\ Clone = Buffers(vault)
    BY <2>1 DEF IInv, Exclusive, Clone, Taken
  <2>3. file' = vault /\ w.pass /\ Room(vault) - Clone >= ToSave(vault)
    BY <2>1 DEF wrote, Written
  <2>4. Room(vault) = quota - (2 + Others(t)) - Session(vault) /\ Others(t) \in Nat /\ quota \in Nat
    BY <1>4, <2>3, RoomIs, UsedIs, LockedMemoryAssumption DEF IInv, Types, If, w
  <2>5. Session(vault) >= 1 + Buffers(vault) /\ Session(vault) \in Nat
    <3>1. If(password) \in 0..1
      BY DEF IInv, Types, If
    <3> QED
      BY <1>6, <2>1, <3>1 DEF Session
  <2>6. quota >= 3 + 2 * Buffers(vault) + ToSave(vault) /\ ToSave(vault) \in Nat
    BY <1>6, <2>1, <2>2, <2>3, <2>4, <2>5, Sizes
  <2>7. Content(vault) \in Nat
    BY <1>6, <2>1, PagesType
  <2> QED
    BY <1>6, <2>1, <2>3, <2>4, <2>6, <2>7, Sizes
<1>13. Ample'
  <2>1. SUFFICES ASSUME quota >= Enough PROVE Ample'
    BY DEF Ample
  <2>2. file # Damaged /\ (vault # NoVault => password) /\ w.pass
    BY <1>1, <2>1 DEF IInv, Ample, HasPassword, w
  <2>3. ASSUME vault # NoVault PROVE Fits(Clone) /\ (wrote => file' # Damaged)
    <3>1. /\ Room(vault) >= Buffers(Largest) + 1 + Content(Largest)
          /\ Content(Largest) \in Nat /\ Buffers(Largest) \in Nat
      <4>1. vault \in Vault \cup {NoVault} /\ Held(worker[t]) \in 0..2
        BY <1>4 DEF IInv, Types, w
      <4> QED
        BY <1>6, <2>1, <2>3, <4>1, AmpleRoom
    <3>2. ToSave(vault) <= 1 + Content(Largest) /\ ToSave(vault) \in Nat
      BY <1>6, <2>3, Sizes
    <3>3. Fits(Clone) /\ Room(vault) - Clone >= ToSave(vault)
      BY <1>6, <2>3, <3>1, <3>2 DEF Fits
    <3> QED
      BY <1>6, <2>2, <2>3, <3>3, NoVaultAssumption DEF wrote, Written
  <2>4. \A u \in Thread : HasPassword(worker'[u])
    BY <1>3, <1>5, <2>1 DEF IInv, Ample, HasPassword, Types
  <2> QED
    BY <1>1, <1>2, <2>1, <2>2, <2>3, <2>4 DEF IInv, Ample
<1> QED
  BY <1>8, <1>9, <1>10, <1>11, <1>12, <1>13 DEF IInv

\* A favicon takes no buffer, and while the vault has its file it is not written by its path.
LEMMA IconKeeps ==
  ASSUME IInv, NEW t \in Thread, FetchIcon(t), UNCHANGED <<created, quota>>
  PROVE  IInv'
<1> DEFINE w == worker[t]
           v == IF vault # NoVault /\ ~w.new /\ w.id \in DOMAIN vault.notes
                THEN [vault EXCEPT !.icons = @ \cup {w.id}] ELSE vault
<1>1. /\ w.pc = "icon" /\ ~poisoned /\ UNCHANGED <<password, handle, poisoned, started>>
      /\ vault' = v /\ worker' = [worker EXCEPT ![t] = Idle]
      /\ file' = IF v = NoVault \/ ~Fits(1) \/ Taken THEN file
                 ELSE Written(v, password /\ Fits(2), Room(v) - 2)
  BY DEF FetchIcon, Set
<1>2. w \in WorkerType /\ ~w.file /\ Held(w) = 0
  BY <1>1 DEF IInv, Types, Threads, ThreadOK, Held
<1>3. Idle \in WorkerType /\ Idle.pc = "idle" /\ ~Idle.file /\ Held(Idle) = 0
  BY DEF Idle, WorkerType, Held
<1>4. vault \in Vault \cup {NoVault} /\ (vault # NoVault => vault \in Vault)
  BY DEF IInv, Types
<1>5. /\ v = NoVault <=> vault = NoVault
      /\ vault # NoVault => v \in Vault /\ Buffers(v) = Buffers(vault)
  <2>1. CASE vault # NoVault /\ ~w.new /\ w.id \in DOMAIN vault.notes
    <3>1. v = [vault EXCEPT !.icons = @ \cup {w.id}]
      BY <2>1
    <3>2. w.id \in Id
      BY <1>4, <2>1, VaultType
    <3>3. v \in Vault /\ v.notes = vault.notes
      BY <1>4, <2>1, <3>1, <3>2, VaultType
    <3> QED
      BY <2>1, <3>3, NoVaultAssumption DEF Buffers
  <2>2. CASE ~(vault # NoVault /\ ~w.new /\ w.id \in DOMAIN vault.notes)
    BY <1>4, <2>2
  <2> QED
    BY <2>1, <2>2
<1> HIDE DEF w, v
<1>6. file' \in {file, v, Damaged} /\ (file' = v => v # NoVault \/ file' = file)
  BY <1>1 DEF Written
<1>7. Types'
  BY <1>1, <1>3, <1>4, <1>5, <1>6 DEF IInv, Types
<1>8. (Used <= quota)'
  <2>1. Used' = Session(vault)' + (Held(Idle) + Others(t))
    <3>1. Held(Idle) \in Nat /\ worker' = [worker EXCEPT ![t] = Idle]
      BY <1>1, <1>3
    <3>2. Types /\ Threads
      BY DEF IInv
    <3> QED
      BY <3>1, <3>2, UsedNext
  <2>2. Session(vault)' = Session(vault)
    BY <1>1, <1>5 DEF Session
  <2>3. Used = Session(vault) + (Held(w) + Others(t))
    BY UsedIs DEF IInv, w
  <2>4. Used' = Used
    BY <1>2, <1>3, <2>1, <2>2, <2>3
  <2> QED
    BY <2>4 DEF IInv
<1>9. Threads'
  BY <1>1, <1>3, <1>5 DEF IInv, Threads, ThreadOK, Types
<1>10. Exclusive'
  <2>1. \A u \in Thread : worker[u].file => worker'[u].file
    BY <1>1, <1>2 DEF IInv, Types, w
  <2> QED
    BY <1>1, <1>5, <2>1 DEF IInv, Exclusive, Taken
<1>11. SavedReopens'
  <2>1. ~created => file' = file
    BY <1>1, <1>5 DEF IInv, Exclusive
  <2> QED
    BY <2>1 DEF IInv, SavedReopens
<1>12. Ample'
  <2>1. SUFFICES ASSUME quota >= Enough PROVE Ample'
    BY DEF Ample
  <2>2. file # Damaged /\ (vault # NoVault => password)
    BY <2>1 DEF IInv, Ample
  <2>3. ASSUME v # NoVault PROVE Written(v, password /\ Fits(2), Room(v) - 2) # Damaged
    <3>1. v \in Vault
      BY <1>5, <2>3
    <3>2. /\ Room(v) >= Share + 1 + Content(Largest) /\ Room(vault) >= Share + 1 + Content(Largest)
          /\ Content(Largest) \in Nat /\ Share \in Nat /\ Share >= 2
      BY <1>2, <1>4, <2>1, <3>1, AmpleRoom DEF w
    <3>3. Room(v) \in Int /\ Room(vault) \in Int
      BY <1>4, <3>1, RoomIs DEF IInv
    <3>4. ToSave(v) <= 1 + Content(Largest) /\ ToSave(v) \in Nat
      BY <3>1, Sizes
    <3>5. Fits(2) /\ Room(v) - 2 >= ToSave(v)
      BY <3>2, <3>3, <3>4 DEF Fits
    <3> QED
      BY <1>5, <2>2, <2>3, <3>1, <3>5, NoVaultAssumption DEF Written
  <2>4. \A u \in Thread : HasPassword(worker'[u])
    BY <1>1, <1>3, <2>1 DEF IInv, Ample, HasPassword, Types
  <2> QED
    BY <1>1, <1>5, <2>1, <2>2, <2>3, <2>4 DEF IInv, Ample
<1> QED
  BY <1>7, <1>8, <1>9, <1>10, <1>11, <1>12 DEF IInv

\* A password change has two copies of the entries when it starts: that is what an
\* opening will ask for.
LEMMA ChangeKeeps ==
  ASSUME IInv, NEW t \in Thread, ChangePassword(t), UNCHANGED <<created, quota>>
  PROVE  IInv'
<1> DEFINE w == [Idle EXCEPT !.pc = "write", !.vault = vault, !.file = handle]
<1>1. Begin(t) /\ vault # NoVault
  BY DEF ChangePassword
<1>2. /\ ~poisoned /\ worker[t].pc = "idle" /\ Held(worker[t]) = 0 /\ ~worker[t].file
      /\ started' \in 0..MaxStarts /\ vault \in Vault /\ Room(vault) \in Nat
  BY <1>1, Begun
<1>3. Buffers(vault) \in Nat /\ Session(vault) >= 1 + Buffers(vault) /\ Session(vault) \in Nat
  <2>1. Buffers(vault) \in Nat
    BY <1>2, PagesType
  <2>2. If(password) \in 0..1
    BY DEF IInv, Types, If
  <2> QED
    BY <1>1, <2>1, <2>2 DEF Session
<1>4. /\ Room(vault) = quota - Others(t) - Session(vault)
      /\ Others(t) \in Nat /\ quota \in Nat
  BY <1>2, RoomIs, UsedIs, LockedMemoryAssumption DEF IInv, Types
<1>5. CASE Fits(ToClone(vault))
  <2>1. /\ worker' = [worker EXCEPT ![t] = w] /\ handle' = FALSE
        /\ UNCHANGED <<vault, password, file, poisoned>>
    BY <1>5 DEF ChangePassword, Set
  <2>2. w \in WorkerType /\ w.pc = "write" /\ w.vault = vault /\ w.file = handle
    BY DEF IInv, Types, Idle, WorkerType
  <2> HIDE DEF w
  <2>3. Held(w) = 1 + Buffers(vault)
    BY <2>2 DEF Held
  <2>4. Room(vault) >= 1 + Buffers(vault)
    BY <1>5 DEF Fits, ToClone
  <2>5. Types'
    BY <1>2, <2>1, <2>2 DEF IInv, Types
  <2>6. (Used <= quota)'
    <3>1. Used' = Session(vault)' + (Held(w) + Others(t))
      <4>1. Held(w) \in Nat /\ worker' = [worker EXCEPT ![t] = w]
        BY <1>3, <2>1, <2>3
      <4>2. Types /\ Threads
        BY DEF IInv
      <4> QED
        BY <4>1, <4>2, UsedNext
    <3>2. Session(vault)' = Session(vault)
      BY <2>1 DEF Session
    <3> QED
      BY <1>2, <1>3, <1>4, <2>3, <2>4, <3>1, <3>2
  <2>7. Threads'
    <3>1. 2 + 2 * Buffers(vault) <= quota
      BY <1>2, <1>3, <1>4, <2>4
    <3> QED
      BY <1>1, <1>2, <2>1, <2>2, <3>1 DEF IInv, Threads, ThreadOK, Types
  <2>8. Exclusive'
    <3>1. \A u \in Thread : worker[u].file => worker'[u].file
      BY <1>2, <2>1 DEF IInv, Types
    <3>2. handle => worker'[t].file
      BY <2>1, <2>2 DEF IInv, Types
    <3> QED
      BY <2>1, <3>1, <3>2 DEF IInv, Exclusive, Taken
  <2>9. SavedReopens' /\ Ample'
    BY <2>1, <2>2 DEF IInv, SavedReopens, Ample, HasPassword, Types
  <2> QED
    BY <2>5, <2>6, <2>7, <2>8, <2>9 DEF IInv
<1>6. CASE ~Fits(ToClone(vault))
  <2>1. Poison /\ UNCHANGED worker
    BY <1>6 DEF ChangePassword
  <2>2. ~(quota >= Enough)
    <3>1. SUFFICES ASSUME quota >= Enough PROVE FALSE
      OBVIOUS
    <3>2. Room(vault) >= Share + 1 + Content(Largest) /\ Share = 2 + Buffers(Largest)
          /\ Buffers(Largest) \in Nat /\ Content(Largest) \in Nat
      BY <1>2, <3>1, AmpleRoom DEF IInv, Types
    <3>3. Buffers(vault) <= Buffers(Largest)
      BY <1>2, LargestIsLargest
    <3> QED
      BY <1>2, <1>3, <1>6, <3>2, <3>3 DEF Fits, ToClone
  <2> QED
    BY <1>2, <2>1, <2>2, PoisonKeeps
<1> QED
  BY <1>5, <1>6

\* What was cloned for a password change can be opened, also when the session is locked by
\* the time it is written.
LEMMA WriteKeeps ==
  ASSUME IInv, NEW t \in Thread, WriteVault(t), UNCHANGED <<created, quota>>
  PROVE  IInv'
<1> DEFINE w == worker[t]
           taken == ~w.file /\ Taken
           failed == taken \/ file' = Damaged
           x == [Idle EXCEPT !.pc = "store", !.file = w.file, !.ok = ~failed, !.pass = ~failed /\ Fits(1)]
<1>1. /\ w.pc = "write" /\ UNCHANGED <<vault, password, handle, poisoned, started>>
      /\ worker' = [worker EXCEPT ![t] = x]
      /\ file' = IF taken THEN file ELSE Written(w.vault, TRUE, Room(vault))
  BY DEF WriteVault, Set
<1>2. /\ w \in WorkerType /\ w.vault \in Vault /\ w.file \in BOOLEAN
      /\ 2 + 2 * Buffers(w.vault) <= quota /\ Held(w) = 1 + Buffers(w.vault)
  BY <1>1 DEF IInv, Types, Threads, ThreadOK, Held, WorkerType
<1>3. x \in WorkerType /\ x.pc = "store" /\ x.file = w.file /\ x.ok = ~failed /\ x.pass = (~failed /\ Fits(1))
  BY <1>2 DEF Idle, WorkerType
<1>4. Held(x) \in 0..1
  <2>1. x.pc = "store" /\ x.pass \in BOOLEAN
    BY <1>3
  <2> HIDE DEF x
  <2> QED
    BY <2>1 DEF Held, If
<1> HIDE DEF w, x
<1>5. /\ Buffers(w.vault) \in Nat /\ Content(w.vault) \in Nat
      /\ Buffers(w.vault) <= Buffers(Largest)
      /\ ToSave(w.vault) \in Nat /\ ToSave(w.vault) >= 2 /\ ToSave(w.vault) >= 1 + Content(w.vault)
      /\ ToSave(w.vault) <= 1 + Content(Largest)
  BY <1>2, Sizes, PagesType, LargestIsLargest
<1>6. vault \in Vault \cup {NoVault} /\ Room(vault) \in Int
  BY RoomIs DEF IInv, Types
<1>7. Types'
  BY <1>1, <1>2, <1>3 DEF IInv, Types, Written
<1>8. (Used <= quota)'
  <2>1. Held(x) \in Nat /\ Held(x) <= Held(worker[t])
    BY <1>2, <1>4, <1>5 DEF w
  <2> QED
    BY <1>1, <2>1, UsedLess
<1>9. Threads'
  BY <1>1, <1>2, <1>3 DEF IInv, Threads, ThreadOK, Types, w
<1>10. Exclusive'
  <2>1. \A u \in Thread : worker'[u].file = worker[u].file
    BY <1>1, <1>3 DEF IInv, Types, w
  <2> QED
    BY <1>1, <2>1 DEF IInv, Exclusive, Taken
<1>11. SavedReopens'
  <2>1. SUFFICES ASSUME ~taken, file' # Damaged PROVE ToOpen(file') <= quota
    BY <1>1 DEF IInv, SavedReopens
  <2>2. file' = w.vault /\ Room(vault) >= ToSave(w.vault)
    BY <1>1, <2>1 DEF Written
  <2>3. Room(vault) = quota - (Held(w) + Others(t)) - Session(vault) /\ Others(t) \in Nat
        /\ quota \in Nat /\ Session(vault) \in Nat
    BY <1>6, RoomIs, UsedIs, LockedMemoryAssumption DEF IInv, Types, w
  <2>4. /\ 3 <= quota /\ 2 + Content(w.vault) + Buffers(w.vault) <= quota
    BY <1>2, <1>5, <2>2, <2>3
  <2> QED
    BY <1>2, <2>2, <2>3, <2>4, Sizes
<1>12. Ample'
  <2>1. SUFFICES ASSUME quota >= Enough PROVE Ample'
    BY DEF Ample
  <2>2. file # Damaged /\ ~poisoned /\ (vault # NoVault => password)
    BY <2>1 DEF IInv, Ample
  <2>3. /\ Room(vault) >= Share + 1 + Content(Largest) - Held(w)
        /\ Share = 2 + Buffers(Largest) /\ Buffers(Largest) \in Nat /\ Content(Largest) \in Nat
    BY <1>6, <2>1, AmpleRoom DEF w
  <2>4. Room(vault) >= ToSave(w.vault) /\ Fits(1)
    BY <1>2, <1>5, <1>6, <2>3 DEF Fits
  <2>5. file' # Damaged
    BY <1>1, <1>2, <2>2, <2>4, NoVaultAssumption DEF Written
  <2>6. HasPassword(x)
    BY <1>3, <2>4 DEF HasPassword
  <2>7. \A u \in Thread : HasPassword(worker'[u])
    BY <1>1, <2>1, <2>6 DEF IInv, Ample, Types
  <2> QED
    BY <1>1, <2>1, <2>2, <2>5, <2>7 DEF Ample
<1> QED
  BY <1>7, <1>8, <1>9, <1>10, <1>11, <1>12 DEF IInv

\* The closure gives the handle back and moves one copy of the password into the session.
LEMMA StoreKeeps ==
  ASSUME IInv, NEW t \in Thread, StorePassword(t), UNCHANGED <<created, quota>>
  PROVE  IInv'
<1> DEFINE w == worker[t]
<1>1. /\ w.pc = "store" /\ ~poisoned /\ UNCHANGED <<vault, file, poisoned, started>>
      /\ handle' = (handle \/ (w.file /\ (w.ok => vault # NoVault)))
      /\ password' = IF w.ok THEN w.pass ELSE password
      /\ worker' = [worker EXCEPT ![t] = Idle]
  BY DEF StorePassword, Set
<1>2. w \in WorkerType /\ w.pass \in BOOLEAN /\ Held(w) = If(w.pass)
  BY <1>1 DEF IInv, Types, Held, WorkerType
<1>3. Idle \in WorkerType /\ Idle.pc = "idle" /\ ~Idle.file /\ Held(Idle) = 0
  BY DEF Idle, WorkerType, Held
<1> HIDE DEF w
<1>4. password' \in BOOLEAN /\ handle' \in BOOLEAN
  BY <1>1, <1>2 DEF IInv, Types
<1>5. Types'
  BY <1>1, <1>2, <1>3, <1>4 DEF IInv, Types
<1>6. (Used <= quota)'
  <2>1. Used' = Session(vault)' + (Held(Idle) + Others(t))
    <3>1. Held(Idle) \in Nat /\ worker' = [worker EXCEPT ![t] = Idle]
      BY <1>1, <1>3
    <3>2. Types /\ Threads
      BY DEF IInv
    <3> QED
      BY <3>1, <3>2, UsedNext
  <2>2. Used = Session(vault) + (If(w.pass) + Others(t)) /\ Others(t) \in Nat /\ Used <= quota
        /\ quota \in Nat
    BY <1>2, UsedIs, LockedMemoryAssumption DEF IInv, Types, w
  <2>3. If(password') <= If(password) + If(w.pass) /\ If(password') \in Nat /\ If(password) \in Nat
        /\ If(w.pass) \in Nat
    BY <1>1, <1>2 DEF If, IInv, Types
  <2>4. PICK base \in Nat : Session(vault) = base + If(password) /\ Session(vault)' = base + If(password')
    <3>1. vault # NoVault => 1 + Buffers(vault) \in Nat
      BY PagesType DEF IInv, Types
    <3> QED
      BY <1>1, <3>1 DEF Session
  <2> QED
    BY <1>3, <2>1, <2>2, <2>3, <2>4
<1>7. Threads'
  BY <1>1, <1>3 DEF IInv, Threads, ThreadOK, Types
<1>8. Exclusive'
  <2>1. \A u \in Thread \ {t} : worker'[u] = worker[u]
    BY <1>1 DEF IInv, Types
  <2>2. vault # NoVault /\ (handle \/ w.file) => handle'
    BY <1>1
  <2> QED
    BY <1>1, <2>1, <2>2 DEF IInv, Exclusive, Taken, w
<1>9. SavedReopens'
  BY <1>1 DEF IInv, SavedReopens
<1>10. Ample'
  <2>1. SUFFICES ASSUME quota >= Enough PROVE Ample'
    BY DEF Ample
  <2>2. vault # NoVault => password'
    BY <1>1, <2>1 DEF IInv, Ample, HasPassword, w
  <2>3. \A u \in Thread : HasPassword(worker'[u])
    BY <1>1, <1>3, <2>1 DEF IInv, Ample, HasPassword, Types
  <2> QED
    BY <1>1, <2>1, <2>2, <2>3 DEF IInv, Ample
<1> QED
  BY <1>5, <1>6, <1>7, <1>8, <1>9, <1>10 DEF IInv

\* Opening leaves the thread with a vault whose entries the session can clone.
LEMMA OpenKeeps ==
  ASSUME IInv, NEW t \in Thread, OpenVault(t), UNCHANGED <<created, quota>>
  PROVE  IInv'
<1> DEFINE both == Fits(2 + Buffers(file))
           opening == [Idle EXCEPT !.pc = "open", !.vault = file, !.pass = both, !.file = TRUE]
           x == IF Fits(ToLoad(file)) THEN opening ELSE Idle
<1>1. /\ Begin(t) /\ vault = NoVault /\ ~handle /\ Unused /\ file \notin {NoVault, Damaged}
      /\ worker' = [worker EXCEPT ![t] = x] /\ UNCHANGED <<vault, password, handle, file, poisoned>>
  BY DEF OpenVault, Set
<1>2. /\ ~poisoned /\ worker[t].pc = "idle" /\ Held(worker[t]) = 0 /\ ~worker[t].file
      /\ started' \in 0..MaxStarts /\ Room(vault) \in Nat
  BY <1>1, Begun
<1>3. /\ file \in Vault /\ Buffers(file) \in Nat /\ Content(file) \in Nat /\ Content(file) >= 1
      /\ Buffers(file) <= Buffers(Largest) /\ ToLoad(file) >= 2 + Content(file) + Buffers(file)
      /\ ToLoad(file) \in Nat
  BY <1>1, PagesType, LargestIsLargest, Sizes DEF IInv, Types
<1>4. /\ opening \in WorkerType /\ opening.pc = "open" /\ opening.vault = file
      /\ opening.pass = both
  <2>1. both \in BOOLEAN
    BY DEF Fits
  <2> HIDE DEF both
  <2> QED
    BY <1>3, <2>1 DEF Idle, WorkerType
<1>5. Idle \in WorkerType /\ Idle.pc = "idle" /\ ~Idle.file /\ Held(Idle) = 0
  BY DEF Idle, WorkerType, Held
<1> HIDE DEF opening
<1>6. x \in WorkerType /\ x.pc \in {"idle", "open"} /\ (x.pc = "open" => x = opening) /\ (x.pc = "idle" => ~x.file)
  BY <1>4, <1>5
<1>7. Held(x) \in Nat /\ Held(x) <= Room(vault)
  <2>1. CASE Fits(ToLoad(file))
    <3>1. Held(opening) = 1 + If(opening.pass) + Buffers(file) /\ If(opening.pass) \in 0..1
      BY <1>4 DEF Held, If, WorkerType
    <3> QED
      BY <1>2, <1>3, <2>1, <3>1 DEF Fits
  <2>2. CASE ~Fits(ToLoad(file))
    BY <1>2, <1>5, <2>2
  <2> QED
    BY <2>1, <2>2
<1> HIDE DEF x
<1>8. Types'
  BY <1>1, <1>2, <1>6 DEF IInv, Types
<1>9. (Used <= quota)'
  <2>1. Used' = Session(vault)' + (Held(x) + Others(t))
    <3>1. Held(x) \in Nat /\ worker' = [worker EXCEPT ![t] = x]
      BY <1>1, <1>7
    <3>2. Types /\ Threads
      BY DEF IInv
    <3> QED
      BY <3>1, <3>2, UsedNext
  <2>2. Session(vault)' = Session(vault)
    BY <1>1 DEF Session
  <2>3. Room(vault) = quota - Others(t) - Session(vault) /\ Others(t) \in Nat /\ quota \in Nat
        /\ Session(vault) \in Nat
    BY <1>2, RoomIs, UsedIs, LockedMemoryAssumption DEF IInv, Types
  <2> QED
    BY <1>1, <1>2, <1>7, <2>1, <2>2, <2>3
<1>10. Threads'
  <2>1. \A u \in Thread : worker[u].pc \in {"idle", "save", "icon"}
    BY <1>1 DEF Unused
  <2> QED
    BY <1>1, <1>3, <1>4, <1>6, <2>1 DEF IInv, Threads, ThreadOK, Types
<1>11. Exclusive' /\ SavedReopens'
  BY <1>1 DEF IInv, Exclusive, SavedReopens
<1>12. Ample'
  <2>1. SUFFICES ASSUME quota >= Enough PROVE Ample'
    BY DEF Ample
  <2>2. /\ Room(vault) >= 2 * Share + Content(Largest)
        /\ Share = 2 + Buffers(Largest) /\ Buffers(Largest) \in Nat /\ Content(Largest) \in Nat
    BY <1>1, <1>2, <2>1, AmpleRoom
  <2>3. both
    BY <1>2, <1>3, <2>2 DEF Fits
  <2>4. HasPassword(x)
    BY <1>4, <1>6, <2>3 DEF HasPassword
  <2>5. \A u \in Thread : HasPassword(worker'[u])
    BY <1>1, <2>1, <2>4 DEF IInv, Ample, Types
  <2> QED
    BY <1>1, <2>1, <2>5 DEF IInv, Ample
<1> QED
  BY <1>8, <1>9, <1>10, <1>11, <1>12 DEF IInv

\* The session takes over what the opening thread held, or the closure panics.
LEMMA SessionKeeps ==
  ASSUME IInv, NEW t \in Thread, OpenSession(t), UNCHANGED <<created, quota>>
  PROVE  IInv'
<1> DEFINE w == worker[t]
<1>1. /\ w.pc = "open" /\ ~poisoned /\ worker' = [worker EXCEPT ![t] = Idle] /\ UNCHANGED started
      /\ IF Fits(Buffers(w.vault))
         THEN vault' = w.vault /\ password' = w.pass /\ handle' = TRUE /\ UNCHANGED <<file, poisoned>>
         ELSE Poison
  BY DEF OpenSession, Set
<1>2. /\ w \in WorkerType /\ w.vault \in Vault /\ w.pass \in BOOLEAN
      /\ vault = NoVault /\ \A u \in Thread \ {t} : worker[u].pc \in {"idle", "save", "icon"}
      /\ Held(w) = 1 + If(w.pass) + Buffers(w.vault)
  BY <1>1 DEF IInv, Types, Threads, ThreadOK, Held, WorkerType
<1>3. Idle \in WorkerType /\ Idle.pc = "idle" /\ ~Idle.file /\ Held(Idle) = 0
  BY DEF Idle, WorkerType, Held
<1>4. Buffers(w.vault) \in Nat /\ Buffers(w.vault) <= Buffers(Largest) /\ If(w.pass) \in 0..1
  BY <1>2, PagesType, LargestIsLargest DEF If
<1> HIDE DEF w
<1>5. Types'
  BY <1>1, <1>2, <1>3 DEF IInv, Types, Poison
<1>6. Used' = Session(vault)' + Others(t)
  <2>1. Used' = Session(vault)' + (Held(Idle) + Others(t))
    <3>1. Held(Idle) \in Nat /\ worker' = [worker EXCEPT ![t] = Idle]
      BY <1>1, <1>3
    <3>2. Types /\ Threads
      BY DEF IInv
    <3> QED
      BY <3>1, <3>2, UsedNext
  <2> QED
    BY <1>3, <2>1, UsedIs DEF IInv
<1>7. Used = Session(vault) + (Held(w) + Others(t)) /\ Others(t) \in Nat /\ Held(w) \in Nat
      /\ Used <= quota /\ quota \in Nat /\ Session(vault) \in Nat
  BY UsedIs, RoomIs, LockedMemoryAssumption DEF IInv, Types, w
<1>8. Threads'
  BY <1>1, <1>2, <1>3 DEF IInv, Threads, ThreadOK, Types
<1>9. CASE Fits(Buffers(w.vault))
  <2>1. vault' = w.vault /\ password' = w.pass /\ handle' = TRUE /\ UNCHANGED <<file, poisoned>>
    BY <1>1, <1>9
  <2>2. Session(vault)' = Held(w)
    BY <1>2, <1>4, <2>1, NoVaultAssumption DEF Session
  <2>3. (Used <= quota)'
    BY <1>6, <1>7, <2>2
  <2>4. Exclusive' /\ SavedReopens'
    BY <2>1 DEF IInv, Exclusive, Taken, SavedReopens
  <2>5. Ample'
    BY <1>1, <1>3, <2>1 DEF IInv, Ample, HasPassword, Types, w
  <2> QED
    BY <1>5, <1>8, <2>3, <2>4, <2>5 DEF IInv
<1>10. CASE ~Fits(Buffers(w.vault))
  <2>1. Poison
    BY <1>1, <1>10
  <2>2. Session(vault)' = Session(vault)
    BY <2>1 DEF Poison, Session
  <2>3. (Used <= quota)'
    BY <1>6, <1>7, <2>2
  <2>4. Exclusive' /\ SavedReopens'
    BY <1>2, <2>1 DEF IInv, Exclusive, SavedReopens, Poison
  <2>5. ~(quota >= Enough)
    <3>1. SUFFICES ASSUME quota >= Enough PROVE FALSE
      OBVIOUS
    <3>2. /\ Room(vault) >= 2 * Share + Content(Largest) - Held(w) /\ Room(vault) \in Int
          /\ Share = 2 + Buffers(Largest) /\ Buffers(Largest) \in Nat /\ Content(Largest) \in Nat
      BY <1>2, <3>1, AmpleRoom, RoomIs DEF IInv, w
    <3> QED
      BY <1>2, <1>4, <1>10, <3>2 DEF Fits
  <2> QED
    BY <1>5, <1>8, <2>3, <2>4, <2>5 DEF IInv, Ample
<1> QED
  BY <1>9, <1>10

\* The pages of the new vault are part of what its first save took.
LEMMA CreateVaultKeeps ==
  ASSUME IInv, NEW t \in Thread, CreateVault(t), UNCHANGED quota
  PROVE  IInv'
<1>1. /\ Begin(t) /\ file = NoVault /\ Unused /\ created' = TRUE /\ UNCHANGED <<worker, handle, poisoned>>
      /\ \/ /\ Fits(1 + ToSave(Blank)) /\ file' = Blank /\ vault' = Blank /\ password' = Fits(2)
         \/ /\ ~Fits(1 + ToSave(Blank)) /\ file' = (IF Fits(1) THEN Damaged ELSE file)
            /\ UNCHANGED <<vault, password>>
  BY DEF CreateVault
<1>2. /\ ~poisoned /\ worker[t].pc = "idle" /\ Held(worker[t]) = 0 /\ ~worker[t].file
      /\ started' \in 0..MaxStarts /\ Room(vault) \in Nat
  BY <1>1, Begun
<1>3. Blank \in Vault /\ Buffers(Blank) = 0
  <2>1. Blank \in Vault
    BY VaultType DEF Blank
  <2>2. IsFiniteSet({}) /\ [i \in {} |-> 1 + Pages(Blank.notes[i])] \in [{} -> Nat]
    BY FS_EmptySet
  <2>3. SumFunction([i \in {} |-> 1 + Pages(Blank.notes[i])]) = 0
    BY <2>2, SumFacts
  <2>4. DOMAIN Blank.notes = {}
    BY DEF Blank
  <2> QED
    BY <2>1, <2>3, <2>4 DEF Buffers
<1>4. /\ ToSave(Blank) \in Nat /\ ToSave(Blank) >= 2 /\ ToSave(Blank) <= 1 + Content(Largest)
  BY <1>3, Sizes
<1>5. password' \in BOOLEAN
  <2>1. Fits(2) \in BOOLEAN
    BY DEF Fits
  <2>2. password \in BOOLEAN
    BY DEF IInv, Types
  <2> QED
    BY <1>1, <2>1, <2>2
<1>6. Types'
  BY <1>1, <1>2, <1>3, <1>5 DEF IInv, Types
<1>7. (Used <= quota)'
  <2>1. Used' = Session(vault)' + (Held(worker[t]) + Others(t))
    <3>1. Held(worker[t]) \in Nat /\ worker' = [worker EXCEPT ![t] = worker[t]]
      BY <1>1, <1>2 DEF IInv, Types
    <3>2. Types /\ Threads
      BY DEF IInv
    <3> QED
      BY <3>1, <3>2, UsedNext
  <2>2. /\ Used = Session(vault) + (Held(worker[t]) + Others(t)) /\ Used <= quota
        /\ Room(vault) = quota - Others(t) - Session(vault) /\ Others(t) \in Nat /\ quota \in Nat
        /\ Session(vault) \in Nat
    BY <1>2, RoomIs, UsedIs, LockedMemoryAssumption DEF IInv, Types
  <2>3. Session(vault)' = Session(vault) \/ (Room(vault) >= 3 /\ Session(vault)' \in 1..2)
    <3>1. CASE Fits(1 + ToSave(Blank)) /\ vault' = Blank
      <4>1. Session(vault)' = 1 + 0 + If(password')
        BY <1>3, <3>1, NoVaultAssumption DEF Session
      <4>2. If(password') \in 0..1
        BY DEF If
      <4>3. Room(vault) >= 3
        BY <1>2, <1>4, <3>1 DEF Fits
      <4> QED
        BY <4>1, <4>2, <4>3
    <3>2. CASE UNCHANGED <<vault, password>>
      BY <3>2 DEF Session
    <3> QED
      BY <1>1, <3>1, <3>2
  <2> QED
    BY <1>1, <1>2, <2>1, <2>2, <2>3
<1>8. Threads'
  <2>1. \A u \in Thread : worker[u].pc \in {"idle", "save", "icon"}
    BY <1>1 DEF Unused
  <2> QED
    BY <1>1, <2>1 DEF IInv, Threads, ThreadOK
<1>9. Exclusive' /\ SavedReopens'
  BY <1>1 DEF Exclusive, SavedReopens
<1>10. Ample'
  <2>1. SUFFICES ASSUME quota >= Enough PROVE Ample'
    BY DEF Ample
  <2>2. /\ Room(vault) >= Share + 1 + Content(Largest)
        /\ Share = 2 + Buffers(Largest) /\ Buffers(Largest) \in Nat /\ Content(Largest) \in Nat
    BY <1>2, <2>1, AmpleRoom DEF IInv, Types
  <2>3. Fits(1 + ToSave(Blank)) /\ Fits(2)
    BY <1>2, <1>4, <2>2 DEF Fits
  <2>4. Blank # Damaged
    BY <1>3, NoVaultAssumption
  <2> QED
    BY <1>1, <1>2, <2>1, <2>3, <2>4 DEF IInv, Ample
<1> QED
  BY <1>6, <1>7, <1>8, <1>9, <1>10 DEF IInv

\* What the threads take together.
LEMMA HeldTogether ==
  ASSUME Types, Threads
  PROVE  SumFunction([u \in Thread |-> Held(worker[u])]) \in Nat
<1> DEFINE f == [u \in Thread |-> Held(worker[u])]
<1>1. f \in [Thread -> Nat]
  BY UsedIs
<1>2. IsFiniteSet(Thread)
  BY LockedMemoryAssumption
<1> HIDE DEF f
<1>3. SumFunction(f) \in Nat
  BY <1>1, <1>2, SumFacts
<1> QED
  BY <1>3 DEF f

\* A locked session takes nothing.
LEMMA LockKeeps ==
  ASSUME IInv, Lock, UNCHANGED <<created, quota>>
  PROVE  IInv'
<1>1. /\ ~poisoned /\ vault # NoVault /\ vault' = NoVault /\ password' = FALSE /\ handle' = FALSE
      /\ UNCHANGED <<file, worker, poisoned, started>>
  BY DEF Lock
<1>2. Types'
  BY <1>1 DEF IInv, Types
<1>3. (Used <= quota)'
  <2> DEFINE held == SumFunction([u \in Thread |-> Held(worker[u])])
  <2>1. held \in Nat
    BY HeldTogether DEF IInv
  <2>2. Used = Session(vault) + held /\ Used' = Session(vault)' + held
    BY <1>1 DEF Used
  <2> HIDE DEF held
  <2>3. Session(vault)' = 0
    BY <1>1 DEF Session, If
  <2>4. Session(vault) \in Nat
    <3>1. 1 + Buffers(vault) \in Nat /\ If(password) \in Nat
      BY <1>1, PagesType DEF IInv, Types, If
    <3> QED
      BY <1>1, <3>1 DEF Session
  <2> QED
    BY <1>1, <2>1, <2>2, <2>3, <2>4, LockedMemoryAssumption DEF IInv, Types
<1>4. Threads'
  BY <1>1 DEF IInv, Threads, ThreadOK
<1>5. Exclusive' /\ SavedReopens' /\ Ample'
  BY <1>1 DEF IInv, Exclusive, SavedReopens, Ample
<1> QED
  BY <1>2, <1>3, <1>4, <1>5 DEF IInv

\* Idle threads hold nothing.
LEMMA NothingHeld ==
  ASSUME NEW workers, workers = [t \in Thread |-> Idle]
  PROVE  SumFunction([u \in Thread |-> Held(workers[u])]) = 0
<1> DEFINE f == [u \in Thread |-> Held(workers[u])]
<1>1. f \in [Thread -> Nat] /\ \A u \in Thread : f[u] <= 0
  BY DEF Held, Idle
<1>2. IsFiniteSet(Thread) /\ Cardinality(Thread) \in Nat
  BY LockedMemoryAssumption, FS_CardinalityType
<1> HIDE DEF f
<1>3. SumFunction(f) \in Nat /\ SumFunction(f) <= Cardinality(Thread) * 0
  BY <1>1, <1>2, SumFacts, SumAtMost
<1>4. SumFunction(f) = 0
  BY <1>2, <1>3
<1> QED
  BY <1>4 DEF f

\* A new process has its whole quota, and the file the last one left.
LEMMA RestartKeeps ==
  ASSUME IInv, Restart, UNCHANGED <<created, quota>>
  PROVE  IInv'
<1>1. /\ poisoned /\ vault' = NoVault /\ password' = FALSE /\ handle' = FALSE /\ poisoned' = FALSE
      /\ worker' = [t \in Thread |-> Idle] /\ UNCHANGED <<file, started>>
  BY DEF Restart
<1>2. Idle \in WorkerType /\ Idle.pc = "idle" /\ ~Idle.file
  BY DEF Idle, WorkerType
<1>3. Types'
  BY <1>1, <1>2 DEF IInv, Types
<1>4. Used' = 0
  <2>1. SumFunction([u \in Thread |-> Held(worker'[u])]) = 0
    BY <1>1, NothingHeld
  <2>2. Session(vault)' = 0
    BY <1>1 DEF Session, If
  <2> QED
    BY <2>1, <2>2 DEF Used
<1>5. Threads'
  BY <1>1, <1>2 DEF Threads, ThreadOK
<1>6. Exclusive' /\ SavedReopens' /\ Ample'
  BY <1>1, <1>2 DEF IInv, Exclusive, SavedReopens, Ample, HasPassword
<1>7. (Used <= quota)'
  BY <1>3, <1>4, LockedMemoryAssumption DEF Types
<1> QED
  BY <1>3, <1>5, <1>6, <1>7 DEF IInv

-----------------------------------------------------------------------------
(* The invariant *)

\* The program is started with a vault it has the pages to open, or with none.
LEMMA InitKeeps ==
  ASSUME Init
  PROVE  IInv
<1>1. /\ vault = NoVault /\ password = FALSE /\ handle = FALSE /\ quota \in Quotas
      /\ worker = [t \in Thread |-> Idle] /\ poisoned = FALSE /\ started = 0 /\ created = FALSE
      /\ \/ file = NoVault
         \/ (\E n \in Entries : file = [Blank EXCEPT !.notes = n]) /\ ToOpen(file) <= quota
  BY DEF Init
<1>2. file = NoVault \/ file \in Vault
  <2>1. ASSUME NEW n \in Entries
        PROVE  [Blank EXCEPT !.notes = n] \in Vault
    BY DEF Blank, Vault
  <2> QED
    BY <1>1, <2>1
<1>3. Idle \in WorkerType /\ Idle.pc = "idle" /\ ~Idle.file
  BY DEF Idle, WorkerType
<1>4. Types
  <2>1. worker \in [Thread -> WorkerType]
    BY <1>1, <1>3
  <2>2. started \in 0..MaxStarts
    BY <1>1, LockedMemoryAssumption
  <2> QED
    BY <1>1, <1>2, <2>1, <2>2 DEF Types
<1>5. Used <= quota
  <2>1. SumFunction([u \in Thread |-> Held(worker[u])]) = 0
    BY <1>1, NothingHeld
  <2>2. Session(vault) = 0
    BY <1>1 DEF Session, If
  <2> QED
    BY <1>1, <2>1, <2>2, LockedMemoryAssumption DEF Used
<1>6. Threads
  BY <1>1, <1>3 DEF Threads, ThreadOK
<1>7. Exclusive /\ SavedReopens
  BY <1>1 DEF Exclusive, SavedReopens
<1>8. Ample
  BY <1>1, <1>2, <1>3, NoVaultAssumption DEF Ample, HasPassword
<1> QED
  BY <1>4, <1>5, <1>6, <1>7, <1>8 DEF IInv

\* A step in which nothing happens.
LEMMA StutterKeeps ==
  ASSUME IInv, UNCHANGED vars
  PROVE  IInv'
<1>1. UNCHANGED <<vault, password, handle, file, worker, poisoned, started, created, quota>>
  BY DEF vars
<1>2. (Used <= quota)'
  BY <1>1 DEF IInv, Used, Session
<1>3. Types' /\ Threads'
  BY <1>1 DEF IInv, Types, Threads, ThreadOK
<1>4. Exclusive' /\ SavedReopens'
  BY <1>1 DEF IInv, Exclusive, Taken, SavedReopens
<1>5. Ample'
  BY <1>1 DEF IInv, Ample
<1> QED
  BY <1>2, <1>3, <1>4, <1>5 DEF IInv

\* Whatever the program does, the invariant holds in every state of it.
THEOREM PagesInvariant == Spec => []IInv
<1>1. Init => IInv
  BY InitKeeps
<1>2. IInv /\ [Next]_vars => IInv'
  <2> SUFFICES ASSUME IInv, [Next]_vars
               PROVE  IInv'
    OBVIOUS
  <2>1. CASE UNCHANGED vars
    BY <2>1, StutterKeeps
  <2>2. ASSUME NEW t \in Thread, CreateVault(t), UNCHANGED quota
        PROVE  IInv'
    BY <2>2, CreateVaultKeeps
  <2>3. ASSUME Step, UNCHANGED <<created, quota>>
        PROVE  IInv'
    <3>1. ASSUME NEW t \in Thread, NEW id \in Id, NEW notes \in Notes, UpdateEntry(t, id, notes)
          PROVE  IInv'
      BY <2>3, <3>1, UpdateKeeps
    <3>2. ASSUME NEW t \in Thread, NEW id \in Id, NEW notes \in Notes, CreateEntry(t, id, notes)
          PROVE  IInv'
      BY <2>3, <3>2, CreateKeeps
    <3>3. ASSUME NEW t \in Thread, NEW id \in Id, PurgeEntry(t, id)
          PROVE  IInv'
      BY <2>3, <3>3, PurgeKeeps
    <3>4. ASSUME NEW t \in Thread, SaveState(t)
          PROVE  IInv'
      BY <2>3, <3>4, SaveKeeps
    <3>5. ASSUME NEW t \in Thread, FetchIcon(t)
          PROVE  IInv'
      BY <2>3, <3>5, IconKeeps
    <3>6. ASSUME NEW t \in Thread, ChangePassword(t)
          PROVE  IInv'
      BY <2>3, <3>6, ChangeKeeps
    <3>7. ASSUME NEW t \in Thread, WriteVault(t)
          PROVE  IInv'
      BY <2>3, <3>7, WriteKeeps
    <3>8. ASSUME NEW t \in Thread, StorePassword(t)
          PROVE  IInv'
      BY <2>3, <3>8, StoreKeeps
    <3>9. ASSUME NEW t \in Thread, OpenVault(t)
          PROVE  IInv'
      BY <2>3, <3>9, OpenKeeps
    <3>10. ASSUME NEW t \in Thread, OpenSession(t)
           PROVE  IInv'
      BY <2>3, <3>10, SessionKeeps
    <3>11. CASE Lock
      BY <2>3, <3>11, LockKeeps
    <3>12. CASE Restart
      BY <2>3, <3>12, RestartKeeps
    <3> QED
      BY <2>3, <3>1, <3>2, <3>3, <3>4, <3>5, <3>6, <3>7, <3>8, <3>9, <3>10, <3>11, <3>12 DEF Step
  <2> QED
    BY <2>1, <2>2, <2>3 DEF Next
<1> QED
  BY <1>1, <1>2, PTL DEF Spec

\* No interleaving of the callbacks' threads ever locks more pages than the process may.
THEOREM PagesSuffice == Spec => []TypeOK
<1>1. IInv => TypeOK
  <2> SUFFICES ASSUME IInv
               PROVE  TypeOK
    OBVIOUS
  <2>1. Types /\ Used <= quota
    BY DEF IInv
  <2> QED
    BY <2>1 DEF Types, WorkerType, TypeOK
<1> QED
  BY <1>1, PagesInvariant, PTL

\* What save_vault_state wrote for a vault this process has opened, a process with the same
\* quota opens again: the clone the save took is what the session keeps.
THEOREM SavedVaultsReopen == Spec => []SavedReopens
<1>1. IInv => SavedReopens
  BY DEF IInv
<1> QED
  BY <1>1, PagesInvariant, PTL

\* From Enough pages on, whatever the number of accounts, of threads and of pages of a note,
\* no file is left truncated and no panic under the mutex ends the session.
THEOREM EnoughPagesLoseNothing == Spec => []NothingLost
<1>1. IInv => NothingLost
  BY DEF IInv, Ample, NothingLost
<1> QED
  BY <1>1, PagesInvariant, PTL
=============================================================================
