------------------------- MODULE RayJobPollingProofs -------------------------
(***************************************************************************)
(* Proofs about RayJobPolling, for every number of rows, priorities,       *)
(* concurrency, page size and expiry batch: its types, that a worker       *)
(* claims no more than its slots, that it claims in order and leaves no    *)
(* slot free while a row is claimable, and that a page of the completion   *)
(* scan passes over no tracked row.                                        *)
(*                                                                         *)
(* All of it counts.  The rows, the claimable rows and the tracked rows    *)
(* are ordered by sets that grow along the order (what comes before an     *)
(* element), so that the cardinalities of these sets number the elements   *)
(* one by one (RanksDiffer); the claim, the page and the removal of rows   *)
(* are all defined by such numbers.                                        *)
(***************************************************************************)
EXTENDS RayJobPolling, FiniteSetTheorems, SequenceTheorems, TLAPS

\* The cursor stays within its cycle and the end of the cycle within the table.
TypeOK ==
    /\ rows \in Seq(Row) /\ Len(rows) <= MaxRows
    /\ cycleEnd \in 0..Len(rows) /\ cursor \in 0..cycleEnd
    /\ pc \in {"poll", "claim", "reconcile"}
    /\ faults \in 0..MaxFaults

-----------------------------------------------------------------------------
(***************************************************************************)
(* Numbering a finite set by what comes before its elements.               *)
(***************************************************************************)

\* below[i] grows along an order of S.
Grows(S, below) ==
    /\ below \in [S -> SUBSET S]
    /\ \A i, j \in S : i # j =>
          below[i] # below[j] /\ (below[i] \subseteq below[j] \/ below[j] \subseteq below[i])

LEMMA Segments ==
  \A m \in Nat : /\ IsFiniteSet(0..(m - 1)) /\ Cardinality(0..(m - 1)) = m
                 /\ IsFiniteSet(1..m) /\ Cardinality(1..m) = m
  <1> SUFFICES ASSUME NEW m \in Nat
               PROVE  /\ IsFiniteSet(0..(m - 1)) /\ Cardinality(0..(m - 1)) = m
                      /\ IsFiniteSet(1..m) /\ Cardinality(1..m) = m
    OBVIOUS
  <1>1. IsFiniteSet(0..(m - 1)) /\ Cardinality(0..(m - 1)) = m
    BY FS_Interval
  <1>2. IsFiniteSet(1..m) /\ Cardinality(1..m) = m
    BY FS_Interval
  <1> QED BY <1>1, <1>2

\* Different elements have different numbers.
LEMMA RanksDiffer ==
  ASSUME NEW S, IsFiniteSet(S), NEW below, Grows(S, below)
  PROVE  /\ \A i \in S : Cardinality(below[i]) \in 0..Cardinality(S)
         /\ \A i, j \in S : Cardinality(below[i]) = Cardinality(below[j]) => i = j
  <1>1. \A i \in S : below[i] \in SUBSET S
    BY DEF Grows
  <1>2. \A i \in S : IsFiniteSet(below[i]) /\ Cardinality(below[i]) <= Cardinality(S)
    BY <1>1, FS_Subset
  <1>3. Cardinality(S) \in Nat /\ \A i \in S : Cardinality(below[i]) \in Nat
    BY <1>2, FS_CardinalityType
  <1>4. ASSUME NEW i \in S, NEW j \in S, i # j, below[i] \subseteq below[j]
        PROVE  Cardinality(below[i]) # Cardinality(below[j])
    <2>1. below[i] \in SUBSET below[j] /\ below[i] # below[j]
      BY <1>4 DEF Grows
    <2> QED BY <1>2, <2>1, FS_Subset
  <1>5. \A i, j \in S : i # j => Cardinality(below[i]) # Cardinality(below[j])
    BY <1>4 DEF Grows
  <1> QED BY <1>2, <1>3, <1>5

\* At most n elements have a number below n.
LEMMA FewSmallRanks ==
  ASSUME NEW S, IsFiniteSet(S), NEW below, Grows(S, below), NEW n \in Nat
  PROVE  /\ IsFiniteSet({i \in S : Cardinality(below[i]) < n})
         /\ Cardinality({i \in S : Cardinality(below[i]) < n}) <= n
  <1> DEFINE T == {i \in S : Cardinality(below[i]) < n}
             f == [i \in T |-> Cardinality(below[i])]
  <1>1. \A i \in T : Cardinality(below[i]) \in 0..(n - 1)
    BY RanksDiffer, FS_CardinalityType
  <1>2. f \in Injection(T, 0..(n - 1))
    BY <1>1, RanksDiffer DEF Injection, IsInjective
  <1>3. IsFiniteSet(0..(n - 1)) /\ Cardinality(0..(n - 1)) = n
    BY Segments
  <1> HIDE DEF T, f
  <1>4. IsFiniteSet(T) /\ Cardinality(T) <= n
    BY <1>2, <1>3, FS_Injection
  <1> QED BY <1>4 DEF T

Reflexive(S, below) == \A i \in S : i \in below[i]
Irreflexive(S, below) == \A i \in S : i \notin below[i]

\* Every number from 1 to |S| is taken.
Numbered(S, below) == \A k \in 1..Cardinality(S) : \E i \in S : Cardinality(below[i]) = k

\* When an element counts as coming before itself the numbers are 1 to |S|.
LEMMA RanksOnto ==
  ASSUME NEW S, IsFiniteSet(S), NEW below, Grows(S, below), Reflexive(S, below)
  PROVE  Numbered(S, below)
  <1> DEFINE f == [i \in S |-> Cardinality(below[i])]
  <1>1. Cardinality(S) \in Nat
    BY FS_CardinalityType
  <1>2. ASSUME NEW i \in S
        PROVE  Cardinality(below[i]) # 0
    <2>1. IsFiniteSet(below[i])
      BY FS_Subset DEF Grows
    <2> QED BY <2>1, FS_EmptySet DEF Reflexive
  <1>3. \A i \in S : Cardinality(below[i]) \in 1..Cardinality(S)
    BY <1>1, <1>2, RanksDiffer
  <1>4. f \in Injection(S, 1..Cardinality(S))
    BY <1>3, RanksDiffer DEF Injection, IsInjective
  <1>5. IsFiniteSet(1..Cardinality(S)) /\ Cardinality(1..Cardinality(S)) = Cardinality(S)
    BY <1>1, Segments
  <1>6. f \in Surjection(S, 1..Cardinality(S))
    <2> HIDE DEF f
    <2> QED BY <1>4, <1>5, FS_Injection
  <1> QED BY <1>6 DEF Surjection, Numbered

\* When it does not, the numbers are 0 to |S| - 1.
LEMMA ManySmallRanks ==
  ASSUME NEW S, IsFiniteSet(S), NEW below, Grows(S, below), Irreflexive(S, below),
         NEW n \in Nat, n <= Cardinality(S)
  PROVE  Cardinality({i \in S : Cardinality(below[i]) < n}) = n
  <1> DEFINE T == {i \in S : Cardinality(below[i]) < n}
             f == [i \in S |-> Cardinality(below[i])]
             g == [i \in T |-> Cardinality(below[i])]
  <1>1. Cardinality(S) \in Nat
    BY FS_CardinalityType
  <1>2. ASSUME NEW i \in S
        PROVE  Cardinality(below[i]) # Cardinality(S)
    <2>1. below[i] \in SUBSET S /\ below[i] # S
      BY DEF Grows, Irreflexive
    <2> QED BY <2>1, FS_Subset
  <1>3. \A i \in S : Cardinality(below[i]) \in 0..(Cardinality(S) - 1)
    BY <1>1, <1>2, RanksDiffer
  <1>4. f \in Injection(S, 0..(Cardinality(S) - 1))
    BY <1>3, RanksDiffer DEF Injection, IsInjective
  <1>5. /\ IsFiniteSet(0..(Cardinality(S) - 1))
        /\ Cardinality(0..(Cardinality(S) - 1)) = Cardinality(S)
    BY <1>1, Segments
  <1>6. f \in Surjection(S, 0..(Cardinality(S) - 1))
    <2> HIDE DEF f
    <2> QED BY <1>4, <1>5, FS_Injection
  <1>7. \A k \in 0..(n - 1) : \E i \in S : Cardinality(below[i]) = k
    <2>1. \A k \in 0..(n - 1) : k \in 0..(Cardinality(S) - 1)
      BY <1>1
    <2>2. \A k \in 0..(Cardinality(S) - 1) : \E i \in S : f[i] = k
      BY <1>6 DEF Surjection
    <2> QED BY <2>1, <2>2
  <1>8. \A i \in T : Cardinality(below[i]) \in 0..(n - 1)
    BY <1>3
  <1>9. g \in Injection(T, 0..(n - 1)) /\ g \in Surjection(T, 0..(n - 1))
    <2>1. g \in [T -> 0..(n - 1)]
      BY <1>8
    <2>2. \A k \in 0..(n - 1) : \E i \in T : g[i] = k
      BY <1>7
    <2>3. \A i, j \in T : g[i] = g[j] => i = j
      BY RanksDiffer
    <2> QED BY <2>1, <2>2, <2>3 DEF Injection, IsInjective, Surjection
  <1>10. IsFiniteSet(0..(n - 1)) /\ Cardinality(0..(n - 1)) = n
    BY Segments
  <1> HIDE DEF T, g
  <1>11. Cardinality(T) = n
    BY <1>9, <1>10, FS_Injection
  <1> QED BY <1>11 DEF T

-----------------------------------------------------------------------------
(***************************************************************************)
(* Rows leaving the table.                                                 *)
(***************************************************************************)

\* The rows of a table that its worker claimed itself and still tracks.
Own(s) == {i \in DOMAIN s : s[i].state \in {"running", "completed"} /\ ~s[i].adopted}

LEMMA PositionsAreFinite ==
  ASSUME NEW s \in Seq(Row), NEW T \in SUBSET (DOMAIN s)
  PROVE  /\ IsFiniteSet(T) /\ Cardinality(T) \in Nat /\ Cardinality(T) <= Len(s)
         /\ T \subseteq Nat \ {0} /\ T \subseteq Int
  <1>1. Len(s) \in Nat /\ DOMAIN s = 1..Len(s)
    BY LenProperties
  <1>2. IsFiniteSet(1..Len(s)) /\ Cardinality(1..Len(s)) = Len(s)
    BY <1>1, Segments
  <1>3. T \in SUBSET (1..Len(s))
    BY <1>1
  <1> QED BY <1>1, <1>2, <1>3, FS_Subset, FS_CardinalityType

\* The keys up to a key, with it and without it.
UpTo(D) == [i \in D |-> {j \in D : j <= i}]
Before(D) == [i \in D |-> {j \in D : j < i}]

LEMMA KeysGrow ==
  ASSUME NEW D \in SUBSET Int
  PROVE  Grows(D, UpTo(D)) /\ Grows(D, Before(D))
  <1>1. UpTo(D) \in [D -> SUBSET D] /\ Before(D) \in [D -> SUBSET D]
    BY DEF UpTo, Before
  <1>2. ASSUME NEW i \in D, NEW j \in D, i < j
        PROVE  /\ UpTo(D)[i] # UpTo(D)[j] /\ UpTo(D)[i] \subseteq UpTo(D)[j]
               /\ Before(D)[i] # Before(D)[j] /\ Before(D)[i] \subseteq Before(D)[j]
    <2>1. j \in UpTo(D)[j] /\ j \notin UpTo(D)[i]
      BY <1>2 DEF UpTo
    <2>2. i \in Before(D)[j] /\ i \notin Before(D)[i]
      BY <1>2 DEF Before
    <2>3. ASSUME NEW k \in UpTo(D)[i]
          PROVE  k \in UpTo(D)[j]
      BY <1>2 DEF UpTo
    <2>4. ASSUME NEW k \in Before(D)[i]
          PROVE  k \in Before(D)[j]
      BY <1>2 DEF Before
    <2> QED BY <2>1, <2>2, <2>3, <2>4
  <1>3. \A i, j \in D : i # j => i < j \/ j < i
    OBVIOUS
  <1> QED BY <1>1, <1>2, <1>3 DEF Grows

\* t consists of rows of s at positions in D, each at most once, in their order.
Embeds(f, t, s, D) ==
    /\ f \in Injection(DOMAIN t, D)
    /\ \A k \in DOMAIN t : t[k] = s[f[k]] /\ Cardinality({j \in D : j <= f[k]}) = k

\* What is left of a table are rows that were not to go, each once.
LEMMA WithoutShape ==
  ASSUME NEW s \in Seq(Row), NEW gone
  PROVE  /\ Without(s, gone) \in Seq(Row)
         /\ Len(Without(s, gone)) = Cardinality(DOMAIN s \ gone)
         /\ \E f : Embeds(f, Without(s, gone), s, DOMAIN s \ gone)
  <1> DEFINE D == DOMAIN s \ gone
             n == Cardinality(D)
             f == [k \in 1..n |-> CHOOSE i \in D : Cardinality({j \in D : j <= i}) = k]
             left == [k \in 1..n |-> s[f[k]]]
  <1>1. IsFiniteSet(D) /\ n \in Nat /\ D \subseteq Int /\ D \subseteq DOMAIN s
    BY PositionsAreFinite
  <1>2. Without(s, gone) = left
    BY DEF Without
  <1> HIDE DEF D
  <1>3. Grows(D, UpTo(D))
    BY <1>1, KeysGrow
  <1>4. Reflexive(D, UpTo(D))
    BY <1>1 DEF UpTo, Reflexive
  <1>5. \A k \in 1..n : \E i \in D : Cardinality(UpTo(D)[i]) = k
    <2>1. Numbered(D, UpTo(D))
      BY <1>1, <1>3, <1>4, RanksOnto
    <2> QED BY <2>1 DEF Numbered
  <1>6. \A k \in 1..n : \E i \in D : Cardinality({j \in D : j <= i}) = k
    BY <1>5 DEF UpTo
  <1>7. \A k \in 1..n : f[k] \in D /\ Cardinality({j \in D : j <= f[k]}) = k
    BY <1>6
  <1> HIDE DEF f
  <1>8. \A k \in 1..n : s[f[k]] \in Row
    <2>1. \A i \in D : s[i] \in Row
      BY <1>1, ElementOfSeq, LenProperties
    <2> QED BY <1>7, <2>1
  <1>9. left \in Seq(Row) /\ Len(left) = n /\ DOMAIN left = 1..n
    BY <1>1, <1>8
  <1>10. f \in Injection(1..n, D)
    <2>1. f \in [1..n -> D]
      BY <1>7 DEF f
    <2>2. \A k, l \in 1..n : f[k] = f[l] => k = l
      BY <1>7
    <2> QED BY <2>1, <2>2 DEF Injection, IsInjective
  <1>11. \A k \in 1..n : left[k] = s[f[k]]
    OBVIOUS
  <1> HIDE DEF left, n
  <1>12. Embeds(f, left, s, D)
    BY <1>7, <1>9, <1>10, <1>11 DEF Embeds
  <1> QED BY <1>2, <1>9, <1>12 DEF D, n

\* Rows that leave never add to what the worker claimed itself.
LEMMA WithoutCounts ==
  ASSUME NEW s \in Seq(Row), NEW gone
  PROVE  Cardinality(Own(Without(s, gone))) <= Cardinality(Own(s))
  <1>1. PICK f : Embeds(f, Without(s, gone), s, DOMAIN s \ gone)
    BY WithoutShape
  <1> DEFINE t == Without(s, gone)
             g == [k \in Own(t) |-> f[k]]
  <1>2. \A k \in DOMAIN t : f[k] \in DOMAIN s /\ t[k] = s[f[k]]
    BY <1>1 DEF Embeds, Injection
  <1>3. \A k, l \in DOMAIN t : f[k] = f[l] => k = l
    BY <1>1 DEF Embeds, Injection, IsInjective
  <1> HIDE DEF t
  <1>4. \A k \in Own(t) : k \in DOMAIN t /\ f[k] \in Own(s)
    BY <1>2 DEF Own
  <1>5. g \in Injection(Own(t), Own(s))
    BY <1>3, <1>4 DEF Injection, IsInjective
  <1>6. IsFiniteSet(Own(s))
    BY PositionsAreFinite DEF Own
  <1> HIDE DEF g
  <1>7. Cardinality(Own(t)) <= Cardinality(Own(s))
    BY <1>5, <1>6, FS_Injection
  <1> QED BY <1>7 DEF t

-----------------------------------------------------------------------------
(***************************************************************************)
(* Keys of the completion scan.                                            *)
(***************************************************************************)

\* A key counts the rows up to it, so it shifts by no more than another key
\* behind it is ahead.
LEMMA ShiftMonotone ==
  ASSUME NEW gone \in SUBSET Int, IsFiniteSet(gone), NEW k \in Int, NEW l \in Int, k <= l
  PROVE  /\ Shifted(k, gone) \in Int /\ Shifted(l, gone) \in Int
         /\ Shifted(k, gone) <= Shifted(l, gone)
  <1> DEFINE A == {i \in gone : i <= k}
             B == {i \in gone : i <= l}
             G == (k + 1)..l
  <1>1. A \in SUBSET B /\ B \in SUBSET gone /\ B \cap A = A /\ B \ A \in SUBSET G
    <2>1. \A i \in gone : i <= k => i <= l
      OBVIOUS
    <2>2. \A i \in gone : i <= l /\ ~(i <= k) => i \in G
      OBVIOUS
    <2> HIDE DEF G
    <2> QED BY <2>1, <2>2
  <1>2. IsFiniteSet(B) /\ IsFiniteSet(A)
    BY <1>1, FS_Subset
  <1>3. Cardinality(A) \in Nat /\ Cardinality(B) \in Nat
    BY <1>2, FS_CardinalityType
  <1>4. IsFiniteSet(G) /\ Cardinality(G) = l - k
    <2>1. k + 1 \in Int /\ l \in Int
      OBVIOUS
    <2>2. IsFiniteSet(G) /\ Cardinality(G) = IF k + 1 > l THEN 0 ELSE l - (k + 1) + 1
      BY <2>1, FS_Interval
    <2> QED BY <2>2
  <1>5. Cardinality(B \ A) = Cardinality(B) - Cardinality(B \cap A)
    BY <1>2, FS_Difference
  <1>6. Cardinality(B \ A) <= Cardinality(G)
    BY <1>1, <1>4, FS_Subset
  <1>7. Cardinality(B) - Cardinality(A) <= l - k
    BY <1>1, <1>4, <1>5, <1>6
  <1>8. Shifted(k, gone) = k - Cardinality(A) /\ Shifted(l, gone) = l - Cardinality(B)
    BY DEF Shifted
  <1> HIDE DEF A, B, G
  <1> QED BY <1>3, <1>7, <1>8

\* Keys that are ordered within a table stay so when rows leave it.
LEMMA ShiftedKeys ==
  ASSUME NEW s \in Seq(Row), NEW gone \in SUBSET (DOMAIN s),
         NEW end \in 0..Len(s), NEW key \in 0..end
  PROVE  /\ Shifted(end, gone) \in 0..Len(Without(s, gone))
         /\ Shifted(key, gone) \in 0..Shifted(end, gone)
  <1>1. Len(s) \in Nat /\ DOMAIN s = 1..Len(s)
    BY LenProperties
  <1>2. /\ IsFiniteSet(gone) /\ gone \in SUBSET Int /\ Cardinality(gone) \in Nat
        /\ IsFiniteSet(DOMAIN s) /\ Cardinality(DOMAIN s) = Len(s)
    BY <1>1, PositionsAreFinite, Segments
  <1>3. Shifted(0, gone) = 0
    <2>1. {i \in gone : i <= 0} = {}
      BY <1>1
    <2>2. Cardinality({i \in gone : i <= 0}) = 0
      BY <2>1, FS_EmptySet
    <2> QED BY <2>2 DEF Shifted
  <1>4. Shifted(Len(s), gone) = Len(s) - Cardinality(gone)
    <2>1. {i \in gone : i <= Len(s)} = gone
      BY <1>1
    <2> QED BY <2>1 DEF Shifted
  <1>5. Len(Without(s, gone)) = Len(s) - Cardinality(gone)
    <2>1. Cardinality(DOMAIN s \ gone) = Len(s) - Cardinality(DOMAIN s \cap gone)
      BY <1>2, FS_Difference
    <2>2. DOMAIN s \cap gone = gone
      OBVIOUS
    <2> QED BY <2>1, <2>2, WithoutShape
  <1>6. key \in Int /\ end \in Int /\ 0 <= key /\ key <= end /\ end <= Len(s)
    BY <1>1
  <1>7. Shifted(0, gone) <= Shifted(key, gone) /\ Shifted(key, gone) \in Int
    BY <1>2, <1>6, ShiftMonotone
  <1>8. Shifted(key, gone) <= Shifted(end, gone) /\ Shifted(end, gone) \in Int
    BY <1>2, <1>6, ShiftMonotone
  <1>9. Shifted(end, gone) <= Shifted(Len(s), gone)
    BY <1>1, <1>2, <1>6, ShiftMonotone
  <1> QED BY <1>1, <1>2, <1>3, <1>4, <1>5, <1>7, <1>8, <1>9

\* A row that stays had the key that shifts to its own, and rows stay in order.
LEMMA KeysOfRowsLeft ==
  ASSUME NEW s \in Seq(Row), NEW gone \in SUBSET (DOMAIN s), NEW k \in DOMAIN Without(s, gone)
  PROVE  \E i \in DOMAIN s \ gone :
            /\ Without(s, gone)[k] = s[i] /\ k <= i
            /\ \A m \in Nat : m < i => Shifted(m, gone) < k
  <1>1. Len(s) \in Nat /\ DOMAIN s = 1..Len(s)
    BY LenProperties
  <1>2. IsFiniteSet(gone) /\ gone \in SUBSET Int
    BY PositionsAreFinite
  <1>3. PICK f : Embeds(f, Without(s, gone), s, DOMAIN s \ gone)
    BY WithoutShape
  <1> DEFINE i == f[k]
  <1>4. i \in DOMAIN s \ gone /\ Without(s, gone)[k] = s[i]
    BY <1>3 DEF Embeds, Injection
  <1>5. Cardinality({j \in DOMAIN s \ gone : j <= i}) = k
    BY <1>3 DEF Embeds
  <1> HIDE DEF i
  <1>6. i \in Nat /\ i <= Len(s) /\ i >= 1 /\ i \notin gone
    BY <1>1, <1>4
  <1> DEFINE G == {j \in gone : j <= i}
  <1>7. {j \in DOMAIN s \ gone : j <= i} = (1..i) \ G
    BY <1>1, <1>6
  <1>8. G \in SUBSET gone /\ (1..i) \cap G = G
    BY <1>1, <1>6
  <1>9. IsFiniteSet(1..i) /\ Cardinality(1..i) = i
    BY <1>6, Segments
  <1> HIDE DEF G
  <1>10. Cardinality((1..i) \ G) = i - Cardinality((1..i) \cap G)
    BY <1>9, FS_Difference
  <1>11. k = i - Cardinality(G) /\ Cardinality(G) \in Nat
    <2>1. IsFiniteSet(G)
      BY <1>2, <1>8, FS_Subset
    <2>2. Cardinality(G) \in Nat
      BY <2>1, FS_CardinalityType
    <2>3. Cardinality((1..i) \cap G) = Cardinality(G)
      BY <1>8
    <2> QED BY <1>5, <1>7, <1>10, <2>2, <2>3
  <1>12. k = Shifted(i - 1, gone) + 1
    <2>1. {j \in gone : j <= i - 1} = G
      BY <1>1, <1>6 DEF G
    <2>2. Shifted(i - 1, gone) = (i - 1) - Cardinality(G)
      BY <2>1 DEF Shifted
    <2> QED BY <1>6, <1>11, <2>2
  <1>13. ASSUME NEW m \in Nat, m < i
         PROVE  Shifted(m, gone) < k
    <2>1. m \in Int /\ i - 1 \in Int /\ m <= i - 1
      BY <1>6, <1>13
    <2>2. /\ Shifted(m, gone) \in Int /\ Shifted(i - 1, gone) \in Int
          /\ Shifted(m, gone) <= Shifted(i - 1, gone)
      BY <1>2, <2>1, ShiftMonotone
    <2> QED BY <1>12, <2>2
  <1>14. k <= i
    BY <1>6, <1>11
  <1> QED BY <1>4, <1>13, <1>14

LEMMA LargestKey ==
  ASSUME NEW S \in SUBSET Int, IsFiniteSet(S), S # {}
  PROVE  Largest(S) \in S /\ \A j \in S : j <= Largest(S)
  <1>1. Cardinality(S) \in 1..Cardinality(S)
    BY FS_CardinalityType, FS_EmptySet
  <1>2. Grows(S, UpTo(S)) /\ Reflexive(S, UpTo(S))
    BY KeysGrow DEF UpTo, Reflexive
  <1>3. Numbered(S, UpTo(S))
    BY <1>2, RanksOnto
  <1>4. PICK i \in S : Cardinality(UpTo(S)[i]) = Cardinality(S)
    BY <1>1, <1>3 DEF Numbered
  <1>5. UpTo(S)[i] \in SUBSET S
    BY DEF UpTo
  <1>6. UpTo(S)[i] = S
    BY <1>4, <1>5, FS_Subset
  <1>7. \A j \in S : j <= i
    BY <1>6 DEF UpTo
  <1> QED BY <1>7 DEF Largest

\* What a page of the completion scan is: of the keys it is taken from it
\* holds at least one and at most n, and every one up to any it holds, so
\* that no tracked row is passed over when the cursor moves to its end.
LEMMA PageCoversItsRange ==
  ASSUME NEW S \in SUBSET Int, IsFiniteSet(S), S # {}, NEW n \in Nat \ {0}
  PROVE  /\ Smallest(n, S) \in SUBSET S /\ Smallest(n, S) # {}
         /\ IsFiniteSet(Smallest(n, S)) /\ Cardinality(Smallest(n, S)) <= n
         /\ Largest(Smallest(n, S)) \in Smallest(n, S)
         /\ \A i \in S : i <= Largest(Smallest(n, S)) => i \in Smallest(n, S)
  <1> DEFINE P == Smallest(n, S)
  <1>1. P = {i \in S : Cardinality(Before(S)[i]) < n}
    BY DEF Smallest, Before
  <1>2. Grows(S, Before(S)) /\ Irreflexive(S, Before(S))
    BY KeysGrow DEF Before, Irreflexive
  <1>3. P \in SUBSET S /\ IsFiniteSet(P) /\ Cardinality(P) <= n
    BY <1>1, <1>2, FewSmallRanks
  <1>4. P # {}
    <2>1. Cardinality(S) \in Nat /\ 1 <= Cardinality(S)
      BY FS_CardinalityType, FS_EmptySet
    <2>2. Cardinality({i \in S : Cardinality(Before(S)[i]) < 1}) = 1
      BY <1>2, <2>1, ManySmallRanks
    <2>3. {i \in S : Cardinality(Before(S)[i]) < 1} # {}
      <3>1. ASSUME {i \in S : Cardinality(Before(S)[i]) < 1} = {}
            PROVE  FALSE
        <4>1. Cardinality({}) = 1
          BY <2>2, <3>1
        <4> QED BY <4>1, FS_EmptySet
      <3> QED BY <3>1
    <2>4. PICK i \in S : Cardinality(Before(S)[i]) < 1
      BY <2>3
    <2>5. Cardinality(Before(S)[i]) \in Nat
      BY <1>2, RanksDiffer
    <2> QED BY <1>1, <2>4, <2>5
  <1>5. Largest(P) \in P
    BY <1>3, <1>4, LargestKey
  <1>6. ASSUME NEW m \in P, NEW i \in S, i <= m
        PROVE  i \in P
    <2>1. Before(S)[i] \in SUBSET Before(S)[m]
      <3> HIDE DEF P
      <3>1. m \in S /\ m \in Int
        BY <1>3
      <3>2. \A j \in S : j < i => j < m
        BY <1>6, <3>1
      <3> QED BY <3>1, <3>2 DEF Before
    <2>2. IsFiniteSet(Before(S)[m]) /\ Cardinality(Before(S)[m]) < n
      BY <1>1, <1>2, FS_Subset DEF Before
    <2>3. Cardinality(Before(S)[i]) <= Cardinality(Before(S)[m])
      BY <2>1, <2>2, FS_Subset
    <2>4. Cardinality(Before(S)[i]) \in Nat /\ Cardinality(Before(S)[m]) \in Nat
      BY <1>2, <1>3, RanksDiffer
    <2> QED BY <1>1, <2>2, <2>3, <2>4
  <1> HIDE DEF P
  <1>7. \A i \in S : i <= Largest(P) => i \in P
    BY <1>5, <1>6
  <1> QED BY <1>3, <1>4, <1>5, <1>7 DEF P

-----------------------------------------------------------------------------
(***************************************************************************)
(* The order of claims.                                                    *)
(***************************************************************************)
Ready == In({"ready"})

\* The claimable rows that are claimed before a claimable row.
First == [i \in Ready |-> {j \in Ready : ClaimedBefore(j, i)}]

LEMMA ReadyRows ==
  ASSUME rows \in Seq(Row)
  PROVE  /\ Ready \in SUBSET (DOMAIN rows) /\ IsFiniteSet(Ready) /\ Cardinality(Ready) \in Nat
         /\ \A i \in Ready : i \in Int /\ rows[i].priority \in Int
  <1>1. Ready \in SUBSET (DOMAIN rows)
    BY DEF Ready, In
  <1>2. \A i \in Ready : rows[i] \in Row
    BY <1>1, ElementOfSeq, LenProperties
  <1>3. \A i \in Ready : rows[i].priority \in Int
    BY <1>2, RayJobPollingAssumption DEF Row
  <1> QED BY <1>1, <1>3, PositionsAreFinite

LEMMA ClaimOrder ==
  ASSUME rows \in Seq(Row)
  PROVE  /\ \A i \in Ready : ~ClaimedBefore(i, i)
         /\ \A i, j \in Ready : i # j => ClaimedBefore(i, j) \/ ClaimedBefore(j, i)
         /\ \A i, j, k \in Ready : ClaimedBefore(i, j) /\ ClaimedBefore(j, k) => ClaimedBefore(i, k)
  <1>1. \A i \in Ready : ~ClaimedBefore(i, i)
    BY ReadyRows DEF ClaimedBefore
  <1>2. \A i, j \in Ready : i # j => ClaimedBefore(i, j) \/ ClaimedBefore(j, i)
    BY ReadyRows DEF ClaimedBefore
  <1>3. ASSUME NEW i \in Ready, NEW j \in Ready, NEW k \in Ready,
               ClaimedBefore(i, j), ClaimedBefore(j, k)
        PROVE  ClaimedBefore(i, k)
    BY <1>3, ReadyRows DEF ClaimedBefore
  <1> QED BY <1>1, <1>2, <1>3

LEMMA ClaimOrderGrows ==
  ASSUME rows \in Seq(Row)
  PROVE  Grows(Ready, First) /\ Irreflexive(Ready, First)
  <1>1. First \in [Ready -> SUBSET Ready]
    BY DEF First
  <1>2. Irreflexive(Ready, First)
    BY ClaimOrder DEF First, Irreflexive
  <1>3. ASSUME NEW i \in Ready, NEW j \in Ready, ClaimedBefore(i, j)
        PROVE  First[i] # First[j] /\ First[i] \subseteq First[j]
    <2>1. i \in First[j] /\ i \notin First[i]
      BY <1>3, ClaimOrder DEF First
    <2>2. ASSUME NEW k \in First[i]
          PROVE  k \in First[j]
      BY <1>3, ClaimOrder DEF First
    <2> QED BY <2>1, <2>2
  <1>4. \A i, j \in Ready : i # j => ClaimedBefore(i, j) \/ ClaimedBefore(j, i)
    BY ClaimOrder
  <1>5. \A i, j \in Ready : i # j =>
          First[i] # First[j] /\ (First[i] \subseteq First[j] \/ First[j] \subseteq First[i])
    BY <1>3, <1>4
  <1> QED BY <1>1, <1>2, <1>5 DEF Grows

\* n slots take n claimable rows, or all of them when there are fewer, and no
\* row before one that is claimed before it.
SlotsFilledInOrder ==
    \A n \in Nat :
        /\ Selected(n) \subseteq Ready
        /\ Cardinality(Selected(n)) =
              IF Cardinality(Ready) <= n THEN Cardinality(Ready) ELSE n
        /\ \A i \in Selected(n), j \in Ready : ClaimedBefore(j, i) => j \in Selected(n)

LEMMA SelectedIsFirst ==
  ASSUME rows \in Seq(Row), NEW n \in Nat
  PROVE  /\ Selected(n) = {i \in Ready : Cardinality(First[i]) < n}
         /\ Selected(n) \in SUBSET Ready
         /\ IsFiniteSet(Selected(n)) /\ Cardinality(Selected(n)) \in Nat
         /\ Cardinality(Selected(n)) <= n
  <1>1. Selected(n) = {i \in Ready : Cardinality(First[i]) < n}
    BY DEF Selected, First, Ready
  <1>2. IsFiniteSet(Ready) /\ Grows(Ready, First)
    BY ReadyRows, ClaimOrderGrows
  <1>3. IsFiniteSet(Selected(n)) /\ Cardinality(Selected(n)) <= n
    BY <1>1, <1>2, FewSmallRanks
  <1> QED BY <1>1, <1>3, FS_CardinalityType

LEMMA SlotsFilled ==
  ASSUME rows \in Seq(Row)
  PROVE  SlotsFilledInOrder
  <1> SUFFICES ASSUME NEW n \in Nat
               PROVE  /\ Selected(n) \subseteq Ready
                      /\ Cardinality(Selected(n)) =
                            IF Cardinality(Ready) <= n THEN Cardinality(Ready) ELSE n
                      /\ \A i \in Selected(n), j \in Ready :
                            ClaimedBefore(j, i) => j \in Selected(n)
    BY DEF SlotsFilledInOrder
  <1>1. Selected(n) = {i \in Ready : Cardinality(First[i]) < n}
    BY SelectedIsFirst
  <1>2. /\ IsFiniteSet(Ready) /\ Cardinality(Ready) \in Nat
        /\ Grows(Ready, First) /\ Irreflexive(Ready, First)
    BY ReadyRows, ClaimOrderGrows
  <1>3. \A i \in Ready : Cardinality(First[i]) \in Nat
    BY <1>2, RanksDiffer
  <1>4. Cardinality(Ready) > n => Cardinality(Selected(n)) = n
    <2>1. Cardinality(Ready) > n => n <= Cardinality(Ready)
      BY <1>2
    <2>2. n <= Cardinality(Ready) => Cardinality({i \in Ready : Cardinality(First[i]) < n}) = n
      BY <1>2, ManySmallRanks
    <2> QED BY <1>1, <2>1, <2>2
  <1>5. Cardinality(Ready) <= n => Selected(n) = Ready
    <2> DEFINE c == Cardinality(Ready)
               T == {i \in Ready : Cardinality(First[i]) < c}
    <2>1. c \in Nat /\ c <= Cardinality(Ready)
      BY <1>2
    <2> HIDE DEF c
    <2>2. Cardinality(T) = c
      BY <1>2, <2>1, ManySmallRanks
    <2>3. T \in SUBSET Ready /\ Cardinality(T) = Cardinality(Ready)
      BY <2>2 DEF c
    <2>4. T = Ready
      <3> HIDE DEF T
      <3> QED BY <1>2, <2>3, FS_Subset
    <2>5. \A i \in Ready : Cardinality(First[i]) < c
      BY <2>4
    <2>6. c <= n => \A i \in Ready : Cardinality(First[i]) < n
      BY <1>3, <2>1, <2>5
    <2> QED BY <1>1, <2>6 DEF c
  <1>6. ASSUME NEW i \in Selected(n), NEW j \in Ready, ClaimedBefore(j, i)
        PROVE  j \in Selected(n)
    <2>1. i \in Ready /\ Cardinality(First[i]) < n
      BY <1>1
    <2>2. First[j] \in SUBSET First[i]
      BY <1>6, <2>1, ClaimOrder DEF First
    <2>3. IsFiniteSet(First[i])
      BY <1>2, <2>1, FS_Subset DEF First
    <2>4. Cardinality(First[j]) <= Cardinality(First[i])
      BY <2>2, <2>3, FS_Subset
    <2>5. Cardinality(First[j]) < n
      BY <1>3, <2>1, <2>4
    <2> QED BY <1>1, <2>5
  <1>7. Cardinality(Selected(n)) = IF Cardinality(Ready) <= n THEN Cardinality(Ready) ELSE n
    BY <1>2, <1>4, <1>5
  <1> QED BY <1>1, <1>6, <1>7

-----------------------------------------------------------------------------
(***************************************************************************)
(* What rows that end, are adopted or are claimed do to the table.         *)
(***************************************************************************)

\* A table whose rows are those of s but for some that are other rows of Row.
LEMMA Rewritten ==
  ASSUME NEW s \in Seq(Row), NEW t, t \in [DOMAIN s -> Row]
  PROVE  t \in Seq(Row) /\ Len(t) = Len(s) /\ DOMAIN t = DOMAIN s
  <1>1. Len(s) \in Nat /\ DOMAIN s = 1..Len(s)
    BY LenProperties
  <1>2. t \in [1..Len(s) -> Row]
    BY <1>1
  <1> QED BY <1>1, <1>2

\* The rows in which two tables may differ are no more of the worker's own.
LEMMA OwnShrinks ==
  ASSUME NEW s \in Seq(Row), NEW t \in Seq(Row), Own(t) \subseteq Own(s)
  PROVE  Cardinality(Own(t)) <= Cardinality(Own(s))
  <1>1. Own(s) \in SUBSET (DOMAIN s)
    BY DEF Own
  <1>2. IsFiniteSet(Own(s))
    BY <1>1, PositionsAreFinite
  <1> QED BY <1>2, FS_Subset

LEMMA OwnCount ==
  ASSUME NEW s \in Seq(Row)
  PROVE  Own(s) \in SUBSET (DOMAIN s) /\ IsFiniteSet(Own(s)) /\ Cardinality(Own(s)) \in Nat
  <1>1. Own(s) \in SUBSET (DOMAIN s)
    BY DEF Own
  <1> QED BY <1>1, PositionsAreFinite

\* Ending rows: keys stay ordered and none of the worker's own is added.
LEMMA EndStep ==
  ASSUME NEW table \in Seq(Row), NEW ended \in SUBSET (DOMAIN table),
         NEW again \in SUBSET ended,
         NEW end \in 0..Len(table), NEW key \in 0..end,
         End(table, ended, again, key, end)
  PROVE  /\ rows' \in Seq(Row) /\ Len(rows') <= Len(table)
         /\ cycleEnd' \in 0..Len(rows') /\ cursor' \in 0..cycleEnd'
         /\ Cardinality(Own(rows')) <= Cardinality(Own(table))
  <1> DEFINE next == [i \in DOMAIN table |->
                        IF i \in again THEN [table[i] EXCEPT !.state = "delayed", !.adopted = FALSE]
                        ELSE table[i]]
             gone == ended \ again
  <1>1. rows' = Without(next, gone) /\ cursor' = Shifted(key, gone) /\ cycleEnd' = Shifted(end, gone)
    BY DEF End
  <1>2. \A i \in DOMAIN table : table[i] \in Row
    BY ElementOfSeq, LenProperties
  <1>3. \A i \in DOMAIN table : [table[i] EXCEPT !.state = "delayed", !.adopted = FALSE] \in Row
    BY <1>2 DEF Row, RowState
  <1>4. next \in [DOMAIN table -> Row]
    BY <1>2, <1>3
  <1>5. \A i \in again : i \in DOMAIN table /\ next[i].state = "delayed"
    <2>1. \A i \in again : [table[i] EXCEPT !.state = "delayed", !.adopted = FALSE].state = "delayed"
      BY <1>2 DEF Row
    <2> QED BY <2>1
  <1>6. \A i \in DOMAIN table : i \notin again => next[i] = table[i]
    OBVIOUS
  <1> HIDE DEF next
  <1>7. next \in Seq(Row) /\ Len(next) = Len(table) /\ DOMAIN next = DOMAIN table
    BY <1>4, Rewritten
  <1>8. Own(next) \subseteq Own(table)
    BY <1>5, <1>6, <1>7 DEF Own
  <1>9. gone \in SUBSET (DOMAIN next) /\ end \in 0..Len(next)
    BY <1>7
  <1> HIDE DEF gone
  <1>10. rows' \in Seq(Row) /\ Len(rows') = Cardinality(DOMAIN next \ gone)
    BY <1>1, <1>7, WithoutShape
  <1>11. Cardinality(DOMAIN next \ gone) <= Len(table)
    BY <1>7, PositionsAreFinite
  <1>12. cycleEnd' \in 0..Len(rows') /\ cursor' \in 0..cycleEnd'
    BY <1>1, <1>7, <1>9, ShiftedKeys
  <1>13. Cardinality(Own(rows')) <= Cardinality(Own(next))
    BY <1>1, <1>7, WithoutCounts
  <1>14. Cardinality(Own(next)) <= Cardinality(Own(table))
    BY <1>7, <1>8, OwnShrinks
  <1>15. /\ Cardinality(Own(rows')) \in Nat /\ Cardinality(Own(next)) \in Nat
         /\ Cardinality(Own(table)) \in Nat
    BY <1>7, <1>10, OwnCount
  <1>16. Cardinality(Own(rows')) <= Cardinality(Own(table))
    BY <1>13, <1>14, <1>15
  <1> QED BY <1>10, <1>11, <1>12, <1>16

LEMMA AdoptStep ==
  ASSUME rows \in Seq(Row), NEW adopted \in SUBSET (DOMAIN rows)
  PROVE  /\ Adopt(adopted) \in Seq(Row) /\ Len(Adopt(adopted)) = Len(rows)
         /\ DOMAIN Adopt(adopted) = DOMAIN rows
         /\ Cardinality(Own(Adopt(adopted))) <= Cardinality(Own(rows))
  <1> DEFINE next == Adopt(adopted)
  <1>1. \A i \in DOMAIN rows : rows[i] \in Row
    BY ElementOfSeq, LenProperties
  <1>2. \A i \in DOMAIN rows :
           /\ [rows[i] EXCEPT !.state = "running", !.adopted = TRUE] \in Row
           /\ [rows[i] EXCEPT !.state = "running", !.adopted = TRUE].adopted = TRUE
    BY <1>1 DEF Row, RowState
  <1>3. next \in [DOMAIN rows -> Row]
    BY <1>1, <1>2 DEF Adopt
  <1>4. \A i \in adopted : next[i].adopted = TRUE
    BY <1>2 DEF Adopt
  <1>5. \A i \in DOMAIN rows : i \notin adopted => next[i] = rows[i]
    BY DEF Adopt
  <1> HIDE DEF next
  <1>6. next \in Seq(Row) /\ Len(next) = Len(rows) /\ DOMAIN next = DOMAIN rows
    BY <1>3, Rewritten
  <1>7. Own(next) \subseteq Own(rows)
    BY <1>4, <1>5, <1>6 DEF Own
  <1>8. Cardinality(Own(next)) <= Cardinality(Own(rows))
    BY <1>6, <1>7, OwnShrinks
  <1> QED BY <1>6, <1>8 DEF next

LEMMA ClaimStep ==
  ASSUME rows \in Seq(Row), NEW claimed \in SUBSET (DOMAIN rows), NEW next,
         next = [i \in DOMAIN rows |->
                   IF i \in claimed THEN [rows[i] EXCEPT !.state = "running"] ELSE rows[i]]
  PROVE  /\ next \in Seq(Row) /\ Len(next) = Len(rows) /\ DOMAIN next = DOMAIN rows
         /\ Own(next) \subseteq Own(rows) \cup claimed
  <1>1. \A i \in DOMAIN rows : rows[i] \in Row
    BY ElementOfSeq, LenProperties
  <1>2. \A i \in DOMAIN rows : [rows[i] EXCEPT !.state = "running"] \in Row
    BY <1>1 DEF Row, RowState
  <1>3. next \in [DOMAIN rows -> Row]
    BY <1>1, <1>2
  <1>4. \A i \in DOMAIN rows : i \notin claimed => next[i] = rows[i]
    OBVIOUS
  <1>5. next \in Seq(Row) /\ Len(next) = Len(rows) /\ DOMAIN next = DOMAIN rows
    BY <1>3, Rewritten
  <1>6. Own(next) \subseteq Own(rows) \cup claimed
    BY <1>4, <1>5 DEF Own
  <1> QED BY <1>5, <1>6

-----------------------------------------------------------------------------
(***************************************************************************)
(* The invariant, one lemma per action.                                    *)
(***************************************************************************)

\* The claim into free slots counts every tracked row, of which the worker's
\* own are a part, so the bound on them is inductive with the types alone.
IInv == TypeOK /\ ClaimsWithinConcurrency

LEMMA OwnWithin ==
  /\ ClaimsWithinConcurrency <=> Cardinality(Own(rows)) <= Concurrency
  /\ ClaimsWithinConcurrency' <=> Cardinality(Own(rows')) <= Concurrency
  <1>1. {i \in Active : ~rows[i].adopted} = Own(rows)
    BY DEF Active, In, Own
  <1>2. {i \in Active : ~rows[i].adopted}' = Own(rows')
    BY DEF Active, In, Own
  <1> QED BY <1>1, <1>2 DEF ClaimsWithinConcurrency

\* A step after which the worker has no more rows of its own than before.
LEMMA NoMoreOwn ==
  ASSUME IInv, rows' \in Seq(Row), Cardinality(Own(rows')) <= Cardinality(Own(rows))
  PROVE  ClaimsWithinConcurrency'
  <1>1. Cardinality(Own(rows)) <= Concurrency
    BY OwnWithin DEF IInv
  <1>2. Cardinality(Own(rows)) \in Nat /\ Cardinality(Own(rows')) \in Nat
    BY OwnCount DEF IInv, TypeOK
  <1>3. Concurrency \in Nat
    BY RayJobPollingAssumption
  <1> QED BY <1>1, <1>2, <1>3, OwnWithin

LEMMA FaultStep ==
  ASSUME TypeOK, NEW n \in Nat, Fault(n)
  PROVE  faults' \in 0..MaxFaults
  BY RayJobPollingAssumption DEF TypeOK, Fault

\* Tracked rows and keys of the scan are positions of the table.
LEMMA Keys ==
  ASSUME TypeOK
  PROVE  /\ rows \in Seq(Row) /\ Len(rows) \in Nat /\ DOMAIN rows = 1..Len(rows)
         /\ cursor \in Nat /\ cycleEnd \in Nat /\ cursor <= cycleEnd /\ cycleEnd <= Len(rows)
         /\ \A states : In(states) \in SUBSET (DOMAIN rows)
         /\ Active \in SUBSET (DOMAIN rows)
  <1>1. rows \in Seq(Row) /\ Len(rows) \in Nat /\ DOMAIN rows = 1..Len(rows)
    BY LenProperties DEF TypeOK
  <1>2. cursor \in Nat /\ cycleEnd \in Nat /\ cursor <= cycleEnd /\ cycleEnd <= Len(rows)
    BY <1>1 DEF TypeOK
  <1>3. \A states : In(states) \in SUBSET (DOMAIN rows)
    BY DEF In
  <1> QED BY <1>1, <1>2, <1>3 DEF Active

LEMMA PollWithStep ==
  ASSUME IInv, NEW S \in SUBSET Active, S # {}, NEW end \in 0..Len(rows),
         \A i \in S : i <= end, PollWith(Smallest(PageSize, S), end)
  PROVE  /\ rows' \in Seq(Row) /\ Len(rows') <= Len(rows)
         /\ cycleEnd' \in 0..Len(rows') /\ cursor' \in 0..cycleEnd'
         /\ faults' \in 0..MaxFaults /\ ClaimsWithinConcurrency'
  <1> DEFINE page == Smallest(PageSize, S)
  <1>1. TypeOK /\ rows \in Seq(Row) /\ S \in SUBSET (DOMAIN rows) /\ DOMAIN rows = 1..Len(rows)
    BY Keys DEF IInv
  <1>2. IsFiniteSet(S) /\ S \in SUBSET Int /\ S \in SUBSET Nat
    BY <1>1, PositionsAreFinite
  <1>3. page \in SUBSET S /\ Largest(page) \in page
    BY <1>2, PageCoversItsRange, RayJobPollingAssumption
  <1>4. Largest(page) \in 0..end
    <2> HIDE DEF page
    <2>1. Largest(page) \in S
      BY <1>3
    <2>2. Largest(page) \in Nat /\ Largest(page) <= end
      BY <1>2, <2>1
    <2> QED BY <2>2
  <1> DEFINE receipts == page \cap In({"completed"})
  <1>5. PICK refused \in SUBSET receipts : \E again \in SUBSET (receipts \ refused) :
          /\ End(rows, receipts \ refused, again, Largest(page), end)
          /\ Fault(Cardinality(refused \cup again))
    BY DEF PollWith
  <1>6. PICK again \in SUBSET (receipts \ refused) :
          /\ End(rows, receipts \ refused, again, Largest(page), end)
          /\ Fault(Cardinality(refused \cup again))
    BY <1>5
  <1>7. receipts \ refused \in SUBSET (DOMAIN rows) /\ refused \cup again \in SUBSET (DOMAIN rows)
    BY <1>1, <1>3, <1>5, <1>6
  <1>8. Cardinality(refused \cup again) \in Nat
    BY <1>1, <1>7, PositionsAreFinite
  <1>9. faults' \in 0..MaxFaults
    BY <1>1, <1>6, <1>8, FaultStep
  <1> HIDE DEF page, receipts
  <1>10. /\ rows' \in Seq(Row) /\ Len(rows') <= Len(rows)
         /\ cycleEnd' \in 0..Len(rows') /\ cursor' \in 0..cycleEnd'
         /\ Cardinality(Own(rows')) <= Cardinality(Own(rows))
    BY <1>1, <1>4, <1>6, <1>7, EndStep
  <1>11. ClaimsWithinConcurrency'
    BY <1>10, NoMoreOwn
  <1> QED BY <1>9, <1>10, <1>11

LEMMA PollStep ==
  ASSUME IInv, Poll
  PROVE  IInv'
  <1>1. TypeOK /\ Active \in SUBSET (DOMAIN rows) /\ rows \in Seq(Row)
    BY Keys DEF IInv
  <1>2. Len(rows) \in Nat /\ Len(rows) <= MaxRows /\ MaxRows \in Nat /\ pc' = "claim"
    BY <1>1, Keys, RayJobPollingAssumption DEF TypeOK, Poll
  <1> DEFINE ahead == {i \in Active : cursor < i /\ i <= cycleEnd}
  <1>3. CASE Active = {}
    BY <1>3, <1>1 DEF IInv, TypeOK, Poll, ClaimsWithinConcurrency, Active, In
  <1>4. CASE Active # {} /\ ahead # {}
    <2>1. PollWith(Smallest(PageSize, ahead), cycleEnd)
      BY <1>4 DEF Poll
    <2>2. ahead \in SUBSET Active /\ \A i \in ahead : i <= cycleEnd
      OBVIOUS
    <2>3. cycleEnd \in 0..Len(rows)
      BY <1>1 DEF TypeOK
    <2> HIDE DEF ahead
    <2>4. /\ rows' \in Seq(Row) /\ Len(rows') <= Len(rows)
          /\ cycleEnd' \in 0..Len(rows') /\ cursor' \in 0..cycleEnd'
          /\ faults' \in 0..MaxFaults /\ ClaimsWithinConcurrency'
      BY <1>4, <2>1, <2>2, <2>3, PollWithStep
    <2>5. Len(rows') \in Nat
      BY <2>4, LenProperties
    <2> QED BY <1>2, <2>4, <2>5 DEF IInv, TypeOK
  <1>5. CASE Active # {} /\ ahead = {}
    <2>1. PollWith(Smallest(PageSize, Active), Largest(Active))
      BY <1>5 DEF Poll
    <2>2. IsFiniteSet(Active) /\ Active \in SUBSET Int
      BY <1>1, PositionsAreFinite
    <2>3. Largest(Active) \in Active /\ \A i \in Active : i <= Largest(Active)
      BY <1>5, <2>2, LargestKey
    <2>4. Largest(Active) \in 0..Len(rows)
      BY <1>1, <2>3, LenProperties
    <2>5. /\ rows' \in Seq(Row) /\ Len(rows') <= Len(rows)
          /\ cycleEnd' \in 0..Len(rows') /\ cursor' \in 0..cycleEnd'
          /\ faults' \in 0..MaxFaults /\ ClaimsWithinConcurrency'
      BY <1>5, <2>1, <2>3, <2>4, PollWithStep
    <2>6. Len(rows') \in Nat
      BY <2>5, LenProperties
    <2> QED BY <1>2, <2>5, <2>6 DEF IInv, TypeOK
  <1> QED BY <1>3, <1>4, <1>5

LEMMA ClaimActionStep ==
  ASSUME IInv, Claim
  PROVE  IInv'
  <1> DEFINE expired == Smallest(ExpiryBatch, In({"late"}))
             claimed == IF AvailableSlots > 0 THEN Selected(AvailableSlots) ELSE {}
             table == [i \in DOMAIN rows |->
                         IF i \in claimed THEN [rows[i] EXCEPT !.state = "running"] ELSE rows[i]]
  <1>1. /\ rows' = Without(table, expired) /\ pc' = "reconcile" /\ faults' = faults
        /\ cursor' = Shifted(cursor, expired) /\ cycleEnd' = Shifted(cycleEnd, expired)
    BY DEF Claim
  <1>2. TypeOK /\ rows \in Seq(Row) /\ Active \in SUBSET (DOMAIN rows) /\ Concurrency \in Nat
    BY Keys, RayJobPollingAssumption DEF IInv
  <1>3. IsFiniteSet(Active) /\ Cardinality(Active) \in Nat
    BY <1>2, PositionsAreFinite
  <1>4. AvailableSlots \in Int
    BY <1>2, <1>3 DEF AvailableSlots
  <1>5. AvailableSlots > 0 =>
          /\ Selected(AvailableSlots) \in SUBSET (DOMAIN rows)
          /\ IsFiniteSet(Selected(AvailableSlots))
          /\ Cardinality(Selected(AvailableSlots)) \in Nat
          /\ Cardinality(Selected(AvailableSlots)) <= AvailableSlots
    <2>1. AvailableSlots > 0 => AvailableSlots \in Nat
      BY <1>4
    <2> QED BY <1>2, <2>1, SelectedIsFirst, ReadyRows
  <1>6. /\ claimed \in SUBSET (DOMAIN rows) /\ IsFiniteSet(claimed) /\ Cardinality(claimed) \in Nat
        /\ claimed # {} => Cardinality(claimed) <= AvailableSlots
    BY <1>5, FS_EmptySet
  <1>7. expired \in SUBSET (DOMAIN rows)
    BY <1>2, Keys DEF Smallest
  <1> HIDE DEF claimed, expired
  <1>8. PICK next : next = table
    OBVIOUS
  <1>9. /\ next \in Seq(Row) /\ Len(next) = Len(rows) /\ DOMAIN next = DOMAIN rows
        /\ Own(next) \subseteq Own(rows) \cup claimed
    BY <1>2, <1>6, <1>8, ClaimStep
  <1> HIDE DEF table
  <1>10. rows' = Without(next, expired)
    BY <1>1, <1>8
  <1>11. rows' \in Seq(Row) /\ Len(rows') = Cardinality(DOMAIN next \ expired)
    BY <1>9, <1>10, WithoutShape
  <1>12. Len(rows') <= Len(rows) /\ Len(rows') \in Nat
    BY <1>9, <1>11, PositionsAreFinite
  <1>13. cycleEnd' \in 0..Len(rows') /\ cursor' \in 0..cycleEnd'
    <2>1. cycleEnd \in 0..Len(next) /\ cursor \in 0..cycleEnd /\ expired \in SUBSET (DOMAIN next)
      BY <1>2, <1>7, <1>9 DEF TypeOK
    <2> QED BY <1>1, <1>9, <1>10, <2>1, ShiftedKeys
  <1>14. TypeOK'
    <2>1. Len(rows') <= MaxRows
      BY <1>2, <1>12, Keys, RayJobPollingAssumption DEF TypeOK
    <2> QED BY <1>1, <1>2, <1>11, <1>13, <2>1 DEF TypeOK
  <1>15. Cardinality(Own(rows')) <= Cardinality(Own(next))
    BY <1>9, <1>10, WithoutCounts
  <1>16. /\ Cardinality(Own(rows')) \in Nat /\ Cardinality(Own(next)) \in Nat
         /\ Cardinality(Own(rows)) \in Nat /\ IsFiniteSet(Own(rows))
    BY <1>2, <1>9, <1>11, OwnCount
  <1>17. Cardinality(Own(next)) <= Concurrency
    <2>1. CASE claimed = {}
      <3>1. Own(next) \subseteq Own(rows)
        BY <1>9, <2>1
      <3>2. Cardinality(Own(next)) <= Cardinality(Own(rows))
        BY <1>2, <1>9, <3>1, OwnShrinks
      <3>3. Cardinality(Own(rows)) <= Concurrency
        BY OwnWithin DEF IInv
      <3> QED BY <1>2, <1>16, <3>2, <3>3
    <2>2. CASE claimed # {}
      <3>1. Cardinality(claimed) <= Concurrency - Cardinality(Active)
        BY <1>6, <2>2 DEF AvailableSlots
      <3>2. Own(rows) \in SUBSET Active
        BY DEF Own, Active, In
      <3>3. Own(next) \in SUBSET (Active \cup claimed)
        BY <1>9, <3>2
      <3>4. /\ IsFiniteSet(Active \cup claimed)
            /\ Cardinality(Active \cup claimed) =
                  Cardinality(Active) + Cardinality(claimed) - Cardinality(Active \cap claimed)
        BY <1>3, <1>6, FS_Union
      <3>5. Cardinality(Active \cap claimed) \in Nat
        BY <1>3, FS_Intersection, FS_CardinalityType
      <3>6. Cardinality(Own(next)) <= Cardinality(Active \cup claimed)
        BY <3>3, <3>4, FS_Subset
      <3> QED BY <1>2, <1>3, <1>6, <1>16, <3>1, <3>4, <3>5, <3>6
    <2> QED BY <2>1, <2>2
  <1>18. Cardinality(Own(rows')) <= Concurrency
    BY <1>2, <1>15, <1>16, <1>17
  <1> QED BY <1>14, <1>18, OwnWithin DEF IInv

LEMMA ReconcileStep ==
  ASSUME IInv, Reconcile
  PROVE  IInv'
  <1>1. PICK ended \in SUBSET Active, adopted \in SUBSET In({"elsewhere"}) :
          \E again \in SUBSET ended :
             /\ End(Adopt(adopted), ended, again, cursor, cycleEnd)
             /\ Fault(Cardinality(again \cup adopted))
    BY DEF Reconcile
  <1>2. PICK again \in SUBSET ended :
          /\ End(Adopt(adopted), ended, again, cursor, cycleEnd)
          /\ Fault(Cardinality(again \cup adopted))
    BY <1>1
  <1>3. /\ TypeOK /\ rows \in Seq(Row) /\ ended \in SUBSET (DOMAIN rows)
        /\ adopted \in SUBSET (DOMAIN rows) /\ again \in SUBSET ended
    BY <1>1, <1>2, Keys DEF IInv
  <1>4. PICK table : table = Adopt(adopted)
    OBVIOUS
  <1>5. /\ table \in Seq(Row) /\ Len(table) = Len(rows) /\ DOMAIN table = DOMAIN rows
        /\ Cardinality(Own(table)) <= Cardinality(Own(rows))
    BY <1>3, <1>4, AdoptStep
  <1>6. /\ End(table, ended, again, cursor, cycleEnd)
        /\ ended \in SUBSET (DOMAIN table) /\ cycleEnd \in 0..Len(table) /\ cursor \in 0..cycleEnd
    BY <1>2, <1>3, <1>4, <1>5 DEF TypeOK
  <1>7. /\ rows' \in Seq(Row) /\ Len(rows') <= Len(table)
        /\ cycleEnd' \in 0..Len(rows') /\ cursor' \in 0..cycleEnd'
        /\ Cardinality(Own(rows')) <= Cardinality(Own(table))
    BY <1>3, <1>5, <1>6, EndStep
  <1>8. faults' \in 0..MaxFaults
    <2>1. again \cup adopted \in SUBSET (DOMAIN rows)
      BY <1>3
    <2>2. Cardinality(again \cup adopted) \in Nat
      BY <1>3, <2>1, PositionsAreFinite
    <2> QED BY <1>2, <1>3, <2>2, FaultStep
  <1>9. TypeOK'
    <2>1. Len(rows') \in Nat /\ Len(rows) \in Nat /\ Len(rows) <= MaxRows /\ MaxRows \in Nat
      BY <1>3, <1>7, LenProperties, RayJobPollingAssumption DEF TypeOK
    <2>2. pc' = "poll"
      BY DEF Reconcile
    <2> QED BY <1>5, <1>7, <1>8, <2>1, <2>2 DEF TypeOK
  <1>10. /\ Cardinality(Own(rows')) \in Nat /\ Cardinality(Own(table)) \in Nat
         /\ Cardinality(Own(rows)) \in Nat
    BY <1>3, <1>5, <1>7, OwnCount
  <1>11. Cardinality(Own(rows')) <= Cardinality(Own(rows))
    BY <1>5, <1>7, <1>10
  <1>12. ClaimsWithinConcurrency'
    BY <1>7, <1>11, NoMoreOwn
  <1> QED BY <1>9, <1>12 DEF IInv

LEMMA EndsElsewhereStep ==
  ASSUME IInv, NEW i \in DOMAIN rows, EndsElsewhere(i)
  PROVE  IInv'
  <1>1. PICK again \in SUBSET {i} :
          End(rows, {i}, again, cursor, cycleEnd) /\ Fault(Cardinality(again))
    BY DEF EndsElsewhere
  <1>2. /\ TypeOK /\ rows \in Seq(Row) /\ {i} \in SUBSET (DOMAIN rows)
        /\ again \in SUBSET (DOMAIN rows) /\ again \in SUBSET {i}
        /\ cycleEnd \in 0..Len(rows) /\ cursor \in 0..cycleEnd
    BY <1>1 DEF IInv, TypeOK
  <1>3. /\ rows' \in Seq(Row) /\ Len(rows') <= Len(rows)
        /\ cycleEnd' \in 0..Len(rows') /\ cursor' \in 0..cycleEnd'
        /\ Cardinality(Own(rows')) <= Cardinality(Own(rows))
    BY <1>1, <1>2, EndStep
  <1>4. Cardinality(again) \in Nat
    BY <1>2, PositionsAreFinite
  <1>5. faults' \in 0..MaxFaults
    BY <1>1, <1>2, <1>4, FaultStep
  <1>6. TypeOK'
    <2>1. Len(rows') \in Nat /\ Len(rows) \in Nat /\ Len(rows) <= MaxRows /\ MaxRows \in Nat
      BY <1>2, <1>3, LenProperties, RayJobPollingAssumption DEF TypeOK
    <2>2. pc' = pc
      BY DEF EndsElsewhere
    <2> QED BY <1>2, <1>3, <1>5, <2>1, <2>2 DEF TypeOK
  <1>7. ClaimsWithinConcurrency'
    BY <1>3, NoMoreOwn
  <1> QED BY <1>6, <1>7 DEF IInv

\* A row that changes its state becomes tracked only when it was.
LEMMA BecomesStep ==
  ASSUME IInv, NEW i \in DOMAIN rows, NEW state \in RowState, Becomes(i, state),
         state = "completed" => rows[i].state = "running", state # "running"
  PROVE  IInv'
  <1>1. TypeOK /\ rows \in Seq(Row)
    BY DEF IInv, TypeOK
  <1>2. \A j \in DOMAIN rows : rows[j] \in Row
    BY <1>1, ElementOfSeq, LenProperties
  <1> DEFINE r == [rows[i] EXCEPT !.state = state]
  <1>3. r \in Row /\ r.state = state /\ r.adopted = rows[i].adopted
    BY <1>2 DEF Row
  <1>4. rows' = [rows EXCEPT ![i] = r]
    BY DEF Becomes
  <1> HIDE DEF r
  <1>5. rows' \in [DOMAIN rows -> Row]
    <2>1. rows \in [DOMAIN rows -> Row]
      BY <1>1, LenProperties
    <2> QED BY <1>3, <1>4, <2>1
  <1>6. rows' \in Seq(Row) /\ Len(rows') = Len(rows) /\ DOMAIN rows' = DOMAIN rows
    BY <1>1, <1>5, Rewritten
  <1>7. \A j \in DOMAIN rows : rows'[j] = IF j = i THEN r ELSE rows[j]
    BY <1>4
  <1>8. Own(rows') \subseteq Own(rows)
    BY <1>3, <1>6, <1>7 DEF Own
  <1>9. Cardinality(Own(rows')) <= Cardinality(Own(rows))
    BY <1>1, <1>6, <1>8, OwnShrinks
  <1>10. ClaimsWithinConcurrency'
    BY <1>6, <1>9, NoMoreOwn
  <1>11. TypeOK'
    BY <1>1, <1>6 DEF TypeOK, Becomes
  <1> QED BY <1>10, <1>11 DEF IInv

LEMMA EnqueueStep ==
  ASSUME IInv, Enqueue
  PROVE  IInv'
  <1>1. TypeOK /\ rows \in Seq(Row) /\ Len(rows) \in Nat /\ DOMAIN rows = 1..Len(rows)
    BY Keys DEF IInv
  <1>2. PICK p \in Priorities, s \in {"delayed", "ready"}, w \in BOOLEAN :
          rows' = Append(rows, [state |-> s, priority |-> p, adopted |-> FALSE, watched |-> w])
    BY DEF Enqueue
  <1> DEFINE r == [state |-> s, priority |-> p, adopted |-> FALSE, watched |-> w]
  <1>3. r \in Row /\ r.state \notin {"running", "completed"}
    BY DEF Row, RowState
  <1> HIDE DEF r
  <1>4. /\ rows' \in Seq(Row) /\ Len(rows') = Len(rows) + 1
        /\ \A j \in 1..Len(rows) : rows'[j] = rows[j]
        /\ rows'[Len(rows) + 1] = r
    BY <1>1, <1>2, <1>3, AppendProperties DEF r
  <1>5. DOMAIN rows' = 1..(Len(rows) + 1)
    BY <1>4, LenProperties
  <1>6. Own(rows') \subseteq Own(rows)
    <2>1. \A j \in DOMAIN rows' : j \in DOMAIN rows \/ j = Len(rows) + 1
      BY <1>1, <1>5
    <2> QED BY <1>1, <1>3, <1>4, <2>1 DEF Own
  <1>7. Cardinality(Own(rows')) <= Cardinality(Own(rows))
    BY <1>1, <1>4, <1>6, OwnShrinks
  <1>8. ClaimsWithinConcurrency'
    BY <1>4, <1>7, NoMoreOwn
  <1>9. TypeOK'
    <2>1. Len(rows) < MaxRows /\ cursor' = cursor /\ cycleEnd' = cycleEnd /\ pc' = pc /\ faults' = faults
      BY DEF Enqueue
    <2>2. Len(rows') <= MaxRows /\ cycleEnd' \in 0..Len(rows')
      BY <1>1, <1>4, <2>1, RayJobPollingAssumption DEF TypeOK
    <2> QED BY <1>1, <1>4, <2>1, <2>2 DEF TypeOK
  <1> QED BY <1>8, <1>9 DEF IInv

-----------------------------------------------------------------------------
(***************************************************************************)
(* The completion scan leaves no receipt behind its cursor.                *)
(***************************************************************************)

\* Where the range of the next page begins: behind the cursor, or at the first
\* row when a cycle begins.
Behind == IF {i \in Active : cursor < i /\ i <= cycleEnd} # {} THEN cursor ELSE 0

\* The scan of poll_ray_job_completions: after a poll in which nothing failed no
\* row of the range that the cursor passed has a receipt, also when rows that
\* were not tracked lie in it and rows that left moved the keys.
ScanConsumesItsPage ==
    [][Poll /\ faults' = faults =>
          \A k \in DOMAIN rows' : Behind < k /\ k <= cursor' => rows'[k].state # "completed"]_vars

LEMMA PollWithConsumes ==
  ASSUME IInv, NEW S \in SUBSET Active, S # {}, NEW end, NEW low \in Nat,
         \A i \in Active : low < i /\ i <= Largest(Smallest(PageSize, S)) => i \in S,
         PollWith(Smallest(PageSize, S), end), faults' = faults,
         NEW k \in DOMAIN rows', low < k, k <= cursor'
  PROVE  rows'[k].state # "completed"
  <1> DEFINE page == Smallest(PageSize, S)
             last == Largest(page)
  <1>1. TypeOK /\ rows \in Seq(Row) /\ S \in SUBSET (DOMAIN rows) /\ DOMAIN rows = 1..Len(rows)
    BY Keys DEF IInv
  <1>2. IsFiniteSet(S) /\ S \in SUBSET Int /\ S \in SUBSET Nat
    BY <1>1, PositionsAreFinite
  <1>3. page \in SUBSET S /\ last \in page /\ \A i \in S : i <= last => i \in page
    BY <1>2, PageCoversItsRange, RayJobPollingAssumption
  <1>4. \A i \in Active : low < i /\ i <= last => i \in page
    BY <1>3
  <1> DEFINE receipts == page \cap In({"completed"})
  <1>5. PICK refused \in SUBSET receipts : \E again \in SUBSET (receipts \ refused) :
          /\ End(rows, receipts \ refused, again, last, end)
          /\ Fault(Cardinality(refused \cup again))
    BY DEF PollWith
  <1>6. PICK again \in SUBSET (receipts \ refused) :
          /\ End(rows, receipts \ refused, again, last, end)
          /\ Fault(Cardinality(refused \cup again))
    BY <1>5
  <1> HIDE DEF page, last
  <1>7. receipts \in SUBSET (DOMAIN rows) /\ last \in Nat
    BY <1>1, <1>2, <1>3
  <1>8. refused = {} /\ again = {}
    <2>1. refused \cup again \in SUBSET (DOMAIN rows)
      BY <1>5, <1>6, <1>7
    <2>2. IsFiniteSet(refused \cup again) /\ Cardinality(refused \cup again) \in Nat
      BY <1>1, <2>1, PositionsAreFinite
    <2>3. faults \in Int /\ faults' = faults + Cardinality(refused \cup again)
      BY <1>1, <1>6 DEF Fault, TypeOK
    <2>4. Cardinality(refused \cup again) = 0
      BY <2>2, <2>3
    <2>5. refused \cup again = {}
      BY <2>2, <2>4, FS_EmptySet
    <2> QED BY <2>5
  <1>9. /\ rows' = Without(rows, receipts) /\ cursor' = Shifted(last, receipts)
    <2> DEFINE next == [i \in DOMAIN rows |->
                          IF i \in again THEN [rows[i] EXCEPT !.state = "delayed", !.adopted = FALSE]
                          ELSE rows[i]]
    <2>1. /\ rows' = Without(next, (receipts \ refused) \ again)
          /\ cursor' = Shifted(last, (receipts \ refused) \ again)
      BY <1>6 DEF End
    <2>2. next = rows
      <3>1. next = [i \in DOMAIN rows |-> rows[i]]
        BY <1>8
      <3>2. rows = [i \in DOMAIN rows |-> rows[i]]
        BY <1>1
      <3> QED BY <3>1, <3>2
    <2>3. (receipts \ refused) \ again = receipts
      BY <1>8
    <2> HIDE DEF next, receipts
    <2> QED BY <2>1, <2>2, <2>3
  <1> HIDE DEF receipts
  <1>10. PICK i \in DOMAIN rows \ receipts :
            /\ Without(rows, receipts)[k] = rows[i] /\ k <= i
            /\ \A m \in Nat : m < i => Shifted(m, receipts) < k
    BY <1>1, <1>7, <1>9, KeysOfRowsLeft
  <1>11. k \in Int /\ i \in Int /\ low < i
    <2>1. rows' \in Seq(Row)
      BY <1>1, <1>9, WithoutShape
    <2>2. k \in Int
      BY <2>1, LenProperties
    <2>3. i \in Int
      BY <1>1
    <2> QED BY <1>10, <2>2, <2>3
  <1>12. i <= last
    <2>1. Shifted(last, receipts) \in Int
      <3>1. IsFiniteSet(receipts) /\ receipts \in SUBSET Int
        BY <1>1, <1>7, PositionsAreFinite
      <3> QED BY <1>7, <3>1, ShiftMonotone
    <2>2. ~(Shifted(last, receipts) < k)
      BY <1>9, <1>11, <2>1
    <2> QED BY <1>7, <1>10, <1>11, <2>2
  <1>13. ASSUME rows[i].state = "completed"
         PROVE  FALSE
    <2>1. i \in Active /\ i \in In({"completed"})
      BY <1>10, <1>13 DEF Active, In
    <2>2. i \in receipts
      BY <1>4, <1>11, <1>12, <2>1 DEF receipts
    <2> QED BY <1>10, <2>2
  <1> QED BY <1>9, <1>10, <1>13

LEMMA PollConsumes ==
  ASSUME IInv, Poll, faults' = faults, NEW k \in DOMAIN rows', Behind < k, k <= cursor'
  PROVE  rows'[k].state # "completed"
  <1>1. TypeOK /\ cursor \in Nat /\ Active \in SUBSET (DOMAIN rows) /\ rows \in Seq(Row)
    BY Keys DEF IInv
  <1> DEFINE ahead == {i \in Active : cursor < i /\ i <= cycleEnd}
  <1>2. CASE Active = {}
    <2>1. rows' = rows
      BY <1>2 DEF Poll
    <2> QED BY <1>2, <2>1 DEF Active, In
  <1>3. CASE Active # {} /\ ahead # {}
    <2>1. PollWith(Smallest(PageSize, ahead), cycleEnd) /\ Behind = cursor
      BY <1>3 DEF Poll, Behind
    <2>2. ahead \in SUBSET Active /\ IsFiniteSet(ahead) /\ ahead \in SUBSET Int
      BY <1>1, PositionsAreFinite
    <2>3. \A i \in ahead : cursor < i /\ i <= cycleEnd
      OBVIOUS
    <2>4. \A i \in Active : cursor < i /\ i <= cycleEnd => i \in ahead
      OBVIOUS
    <2> HIDE DEF ahead
    <2>5. Largest(Smallest(PageSize, ahead)) \in ahead
      BY <1>3, <2>2, PageCoversItsRange, RayJobPollingAssumption
    <2>6. ASSUME NEW i \in Active, cursor < i, i <= Largest(Smallest(PageSize, ahead))
          PROVE  i \in ahead
      <3>1. PICK last \in ahead : last = Largest(Smallest(PageSize, ahead))
        BY <2>5
      <3>2. i \in Int /\ last \in Int /\ cycleEnd \in Int /\ last <= cycleEnd
        BY <1>1, <2>2, <2>3, <3>1, Keys, PositionsAreFinite
      <3>3. i <= cycleEnd
        BY <2>6, <3>1, <3>2
      <3> QED BY <2>4, <2>6, <3>3
    <2> QED BY <1>1, <1>3, <2>1, <2>2, <2>6, PollWithConsumes
  <1>4. CASE Active # {} /\ ahead = {}
    <2>1. PollWith(Smallest(PageSize, Active), Largest(Active)) /\ Behind = 0
      BY <1>4 DEF Poll, Behind
    <2> QED BY <1>4, <2>1, PollWithConsumes
  <1> QED BY <1>2, <1>3, <1>4

-----------------------------------------------------------------------------
(***************************************************************************)
(* The theorems.                                                           *)
(***************************************************************************)
LEMMA InitIInv == Init => IInv
  <1> SUFFICES ASSUME Init
               PROVE  IInv
    OBVIOUS
  <1>1. rows = <<>> /\ rows \in Seq(Row) /\ Len(rows) = 0
    BY EmptySeq DEF Init
  <1>2. TypeOK
    BY <1>1, RayJobPollingAssumption DEF TypeOK, Init
  <1>3. Own(rows) = {}
    <2>1. DOMAIN rows = {}
      BY <1>1
    <2> QED BY <2>1 DEF Own
  <1>4. Cardinality(Own(rows)) = 0
    BY <1>3, FS_EmptySet
  <1>5. Cardinality(Own(rows)) <= Concurrency
    BY <1>4, RayJobPollingAssumption
  <1> QED BY <1>2, <1>5, OwnWithin DEF IInv

LEMMA NextIInv == IInv /\ [Next]_vars => IInv'
  <1> SUFFICES ASSUME IInv, [Next]_vars
               PROVE  IInv'
    OBVIOUS
  <1>1. CASE Poll
    BY <1>1, PollStep
  <1>2. CASE Claim
    BY <1>2, ClaimActionStep
  <1>3. CASE Reconcile
    BY <1>3, ReconcileStep
  <1>4. CASE Enqueue
    BY <1>4, EnqueueStep
  <1>5. ASSUME NEW i \in DOMAIN rows, BecomesDue(i)
        PROVE  IInv'
    BY <1>5, BecomesStep DEF BecomesDue, RowState
  <1>6. ASSUME NEW i \in DOMAIN rows, DeadlinePasses(i)
        PROVE  IInv'
    BY <1>6, BecomesStep DEF DeadlinePasses, RowState
  <1>7. ASSUME NEW i \in DOMAIN rows, ClaimedElsewhere(i)
        PROVE  IInv'
    BY <1>7, BecomesStep DEF ClaimedElsewhere, RowState
  <1>8. ASSUME NEW i \in DOMAIN rows, EndsElsewhere(i)
        PROVE  IInv'
    BY <1>8, EndsElsewhereStep
  <1>9. ASSUME NEW i \in DOMAIN rows, JobCompletes(i)
        PROVE  IInv'
    BY <1>9, BecomesStep DEF JobCompletes, RowState
  <1>10. CASE UNCHANGED vars
    BY <1>10 DEF vars, IInv, TypeOK, ClaimsWithinConcurrency, Active, In
  <1> QED BY <1>1, <1>2, <1>3, <1>4, <1>5, <1>6, <1>7, <1>8, <1>9, <1>10 DEF Next

LEMMA Invariance == Spec => []IInv
  BY InitIInv, NextIInv, PTL DEF Spec

\* Every row of the table is well formed, however rows leave and arrive; the
\* completion cursor of the worker stays within its cycle, and the frozen end of
\* the cycle within the table.
THEOREM TypeCorrect == Spec => []TypeOK
  <1>1. IInv => TypeOK
    BY DEF IInv
  <1> QED BY <1>1, Invariance, PTL

\* claim_and_process_tasks never brings the executions that the worker claimed
\* itself over its concurrency, although reconciliation adopts jobs without
\* looking for a slot and completions free slots between two claims.
THEOREM ClaimsStayWithinConcurrency == Spec => []ClaimsWithinConcurrency
  <1>1. IInv => ClaimsWithinConcurrency
    BY DEF IInv
  <1> QED BY <1>1, Invariance, PTL

\* The claim query orders by priority and age: whatever the number of free slots
\* it takes as many claimable rows as there are slots, or all, and never a row
\* while one that is ordered before it stays behind.
THEOREM ClaimsFillSlotsInOrder == Spec => []SlotsFilledInOrder
  <1>1. IInv => SlotsFilledInOrder
    BY SlotsFilled DEF IInv, TypeOK
  <1> QED BY <1>1, Invariance, PTL

\* A poll of poll_ray_job_completions in which nothing fails leaves no persisted
\* completion in the range its cursor passed, however many rows of the range are
\* not tracked and although the rows that end move the keys behind them.
THEOREM ScanLeavesNothingBehind == Spec => ScanConsumesItsPage
  <1>1. IInv /\ [Next]_vars =>
          [Poll /\ faults' = faults =>
             \A k \in DOMAIN rows' :
                Behind < k /\ k <= cursor' => rows'[k].state # "completed"]_vars
    BY PollConsumes
  <1> QED BY <1>1, Invariance, PTL DEF Spec, ScanConsumesItsPage
=============================================================================
