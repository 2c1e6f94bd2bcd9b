----------------------- MODULE ProviderRegistry_proofs -----------------------
(***************************************************************************)
(* Proofs about ProviderRegistry.tla, for any backends and whatever lists  *)
(* of algorithms they return: the map and the order agree, the registry    *)
(* implements the list of ProviderListing.tla, the index by template       *)
(* follows the order, and Match on the index is sound and chooses as Match *)
(* on the list does.                                                       *)
(*                                                                         *)
(* Evicted removes a name as often as its backend lists the template, by   *)
(* recursion.  What it does is proved by induction with the set of the     *)
(* counts for which it is true (NatInd), since an operator cannot be given *)
(* to the induction theorems of the library.                               *)
(***************************************************************************)
EXTENDS ProviderRegistry, SequenceTheorems, FiniteSetTheorems, WellFoundedInduction, TLAPS

(* Induction over the naturals, with the set of those a claim holds for in  *)
(* the place of an operator.                                                *)
LEMMA LeastNat ==
    ASSUME NEW T, T \subseteq Nat, T # {}
    PROVE  \E m \in T : \A k \in T : m <= k
<1>1. PICK m \in T : \A k \in T : ~(<<k, m>> \in OpToRel(<, Nat))
  BY NatLessThanWellFounded, WFMin, Zenon
<1>2. \A k \in T : ~(k < m)
  BY <1>1 DEF OpToRel
<1> QED
  BY <1>2

LEMMA NatInd ==
    ASSUME NEW T, 0 \in T, \A n \in Nat : n \in T => n + 1 \in T
    PROVE  Nat \subseteq T
<1> SUFFICES ASSUME Nat \ T # {} PROVE FALSE
  OBVIOUS
<1>1. PICK m \in Nat \ T : \A k \in Nat \ T : m <= k
  BY LeastNat
<1>2. m # 0 /\ m - 1 \in Nat
  BY <1>1
<1>3. m - 1 \in T
  BY <1>1, <1>2
<1> QED
  BY <1>1, <1>2, <1>3

(* A step applied again and again: the first k results, and all of them.    *)
FirstResults(S, s0, step, k, g) ==
    /\ g \in [0..k -> S]
    /\ g[0] = s0
    /\ \A i \in 1..k : g[i] = step[g[i - 1]]

LEMMA FirstResultsExist ==
    ASSUME NEW S, NEW s0 \in S, NEW step \in [S -> S]
    PROVE  \A k \in Nat : \E g : FirstResults(S, s0, step, k, g)
<1> DEFINE T == {k \in Nat : \E g : FirstResults(S, s0, step, k, g)}
<1>1. 0 \in T
  <2>1. FirstResults(S, s0, step, 0, [i \in 0..0 |-> s0])
    BY DEF FirstResults
  <2> QED
    BY <2>1
<1>2. ASSUME NEW k \in T PROVE k + 1 \in T
  <2>1. PICK g : FirstResults(S, s0, step, k, g)
    BY <1>2
  <2> DEFINE h == [i \in 0..(k + 1) |-> IF i = k + 1 THEN step[g[k]] ELSE g[i]]
  <2>2. k \in Nat /\ g[k] \in S /\ \A i \in 0..k : g[i] \in S
    BY <2>1 DEF FirstResults
  <2>3. h \in [0..(k + 1) -> S]
    BY <2>2
  <2>4. h[0] = s0
    BY <2>1, <2>2 DEF FirstResults
  <2>5. \A i \in 1..(k + 1) : h[i] = step[h[i - 1]]
    <3> TAKE i \in 1..(k + 1)
    <3>1. CASE i = k + 1
      BY <3>1, <2>2
    <3>2. CASE i \in 1..k
      <4>1. h[i] = g[i] /\ h[i - 1] = g[i - 1]
        BY <3>2, <2>2
      <4> QED
        BY <4>1, <3>2, <2>1 DEF FirstResults
    <3> QED
      BY <3>1, <3>2, <2>2
  <2>6. FirstResults(S, s0, step, k + 1, h)
    BY <2>3, <2>4, <2>5 DEF FirstResults
  <2> QED
    BY <2>6, <2>2
<1>3. Nat \subseteq T
  <2> HIDE DEF T
  <2> QED
    BY <1>1, <1>2, NatInd
<1> QED
  BY <1>3

LEMMA FirstResultsAgree ==
    ASSUME NEW S, NEW s0 \in S, NEW step \in [S -> S],
           NEW k \in Nat, NEW l \in Nat, NEW g, NEW h, k <= l,
           FirstResults(S, s0, step, k, g), FirstResults(S, s0, step, l, h)
    PROVE  \A i \in 0..k : g[i] = h[i]
<1> DEFINE T == {i \in Nat : i <= k => g[i] = h[i]}
<1>1. 0 \in T
  BY DEF FirstResults
<1>2. ASSUME NEW i \in T PROVE i + 1 \in T
  <2>1. CASE i + 1 <= k
    <3>1. g[i] = h[i] /\ i + 1 \in 1..k /\ i + 1 \in 1..l /\ (i + 1) - 1 = i
      BY <2>1
    <3>2. g[i + 1] = step[g[i]] /\ h[i + 1] = step[h[i]]
      BY <3>1 DEF FirstResults
    <3> QED
      BY <3>1, <3>2
  <2>2. CASE ~(i + 1 <= k)
    BY <2>2
  <2> QED
    BY <2>1, <2>2
<1>3. Nat \subseteq T
  <2> HIDE DEF T
  <2> QED
    BY <1>1, <1>2, NatInd
<1> QED
  BY <1>3

(* A function defined by recursion on the naturals, one step at a time,     *)
(* exists.                                                                  *)
LEMMA Iterates ==
    ASSUME NEW S, NEW s0 \in S, NEW step \in [S -> S]
    PROVE  \E f \in [Nat -> S] : f[0] = s0 /\ \A i \in Nat : i # 0 => f[i] = step[f[i - 1]]
<1> DEFINE G(k) == CHOOSE g : FirstResults(S, s0, step, k, g)
           f == [k \in Nat |-> G(k)[k]]
<1>1. \A k \in Nat : FirstResults(S, s0, step, k, G(k))
  BY FirstResultsExist
<1> HIDE DEF G
<1>2. \A k \in Nat : G(k)[k] \in S
  BY <1>1 DEF FirstResults
<1>3. ASSUME NEW k \in Nat, k # 0 PROVE G(k)[k] = step[G(k - 1)[k - 1]]
  <2>1. k - 1 \in Nat /\ k - 1 <= k /\ k \in 1..k /\ k - 1 \in 0..(k - 1)
    BY <1>3
  <2>2. FirstResults(S, s0, step, k - 1, G(k - 1)) /\ FirstResults(S, s0, step, k, G(k))
    BY <1>1, <2>1
  <2>3. G(k - 1)[k - 1] = G(k)[k - 1]
    BY <2>1, <2>2, FirstResultsAgree
  <2> QED
    BY <2>1, <2>2, <2>3 DEF FirstResults
<1>4. G(0)[0] = s0
  BY <1>1 DEF FirstResults
<1>5. f \in [Nat -> S]
  BY <1>2
<1>6. ASSUME NEW i \in Nat, i # 0 PROVE f[i] = step[f[i - 1]]
  BY <1>3, <1>6
<1>7. f[0] = s0
  BY <1>4
<1> HIDE DEF f
<1> QED
  BY <1>5, <1>6, <1>7

LEMMA RemoveAtIsWithout ==
    ASSUME NEW S, NEW s \in Seq(S), NEW i \in 1..Len(s)
    PROVE  RemoveAt(s, i) = Listing!Without(s, i)
<1> DEFINE front == SubSeq(s, 1, i - 1)
           back  == SubSeq(s, i + 1, Len(s))
           rest  == Listing!Without(s, i)
<1>1. /\ front \in Seq(S)
      /\ Len(front) = i - 1
      /\ \A k \in 1..(i - 1) : front[k] = s[k]
  BY SubSeqProperties
<1>2. /\ back \in Seq(S)
      /\ Len(back) = Len(s) - i
      /\ \A k \in 1..(Len(s) - i) : back[k] = s[k + i]
  <2>1. back \in Seq(S) /\ Len(back) = Len(s) - i
    BY SubSeqProperties
  <2>2. \A k \in 1..(Len(s) - i) : back[k] = s[(i + 1) + k - 1]
    BY SubSeqProperties, <2>1
  <2> QED
    BY <2>1, <2>2
<1> HIDE DEF front, back
<1>3. /\ front \o back \in Seq(S)
      /\ Len(front \o back) = Len(s) - 1
      /\ \A k \in 1..(Len(s) - 1) :
           (front \o back)[k] = IF k <= i - 1 THEN front[k] ELSE back[k - (i - 1)]
  <2>1. Len(front) + Len(back) = Len(s) - 1
    BY <1>1, <1>2
  <2>2. \A k \in 1..(Len(front) + Len(back)) :
           (front \o back)[k] = IF k <= Len(front) THEN front[k] ELSE back[k - Len(front)]
    BY <1>1, <1>2, ConcatProperties
  <2>3. front \o back \in Seq(S) /\ Len(front \o back) = Len(front) + Len(back)
    BY <1>1, <1>2, ConcatProperties
  <2> QED
    BY <1>1, <2>1, <2>2, <2>3
<1>4. \A k \in 1..(Len(s) - 1) : (front \o back)[k] = IF k < i THEN s[k] ELSE s[k + 1]
  <2> TAKE k \in 1..(Len(s) - 1)
  <2>1. CASE k < i
    BY <2>1, <1>1, <1>3
  <2>2. CASE ~(k < i)
    <3>1. k - (i - 1) \in 1..(Len(s) - i) /\ (k - (i - 1)) + i = k + 1
      BY <2>2
    <3>2. back[k - (i - 1)] = s[k + 1]
      BY <3>1, <1>2
    <3> QED
      BY <2>2, <3>2, <1>3
  <2> QED
    BY <2>1, <2>2
<1>5. rest \in Seq(S) /\ Len(rest) = Len(s) - 1
  <2>1. rest = [j \in 1..(Len(s) - 1) |-> IF j < i THEN s[j] ELSE s[j + 1]]
    BY DEF Listing!Without
  <2>2. \A j \in 1..(Len(s) - 1) : (IF j < i THEN s[j] ELSE s[j + 1]) \in S
    OBVIOUS
  <2> QED
    BY <2>1, <2>2, IsASeq
<1>6. \A k \in 1..(Len(s) - 1) : (front \o back)[k] = rest[k]
  BY <1>4 DEF Listing!Without
<1>7. front \o back = rest
  BY <1>3, <1>5, <1>6, SeqEqual
<1> QED
  BY <1>7 DEF RemoveAt, front, back

(* What RemoveFirst does: nothing, or it takes out one position.            *)
LEMMA RemoveFirstTakesOne ==
    ASSUME NEW S, NEW s \in Seq(S), NEW n, NEW j \in 1..Len(s), s[j] = n
    PROVE  \E i \in 1..Len(s) : s[i] = n /\ RemoveFirst(s, n) = Listing!Without(s, i)
<1> DEFINE I == {k \in 1..Len(s) : s[k] = n}
<1>1. PICK m \in I : \A k \in I : m <= k
  <2>1. I \subseteq Nat /\ j \in I
    OBVIOUS
  <2> QED
    BY <2>1, LeastNat
<1>2. Min(I) \in I
  BY <1>1 DEF Min
<1>3. SelectInSeq(s, LAMBDA v : v = n) = Min(I)
  BY DEF SelectInSeq
<1> HIDE DEF I
<1>4. RemoveFirst(s, n) = RemoveAt(s, Min(I))
  BY <1>3 DEF RemoveFirst
<1> QED
  BY <1>2, <1>4, RemoveAtIsWithout DEF I

(* r lists some of what s lists, in the order of s.                         *)
InOrderOf(r, s) ==
    \A i, j \in DOMAIN r :
        i < j => \E k, l \in DOMAIN s : k < l /\ s[k] = r[i] /\ s[l] = r[j]

LEMMA InOrderOfTrans ==
    ASSUME NEW r, NEW s, NEW u, InOrderOf(r, s), InOrderOf(s, u)
    PROVE  InOrderOf(r, u)
<1> SUFFICES ASSUME NEW i \in DOMAIN r, NEW j \in DOMAIN r, i < j
             PROVE  \E k, l \in DOMAIN u : k < l /\ u[k] = r[i] /\ u[l] = r[j]
  BY DEF InOrderOf
<1>1. PICK k \in DOMAIN s, l \in DOMAIN s : k < l /\ s[k] = r[i] /\ s[l] = r[j]
  BY DEF InOrderOf
<1> QED
  BY <1>1 DEF InOrderOf

LEMMA OccurrencesTyped ==
    ASSUME NEW S, NEW s \in Seq(S), NEW x
    PROVE  /\ IsFiniteSet({i \in DOMAIN s : s[i] = x})
           /\ Occurrences(s, x) \in Nat
           /\ Occurrences(s, x) = 0 <=> ~Contains(s, x)
<1>1. DOMAIN s = 1..Len(s) /\ Len(s) \in Nat
  OBVIOUS
<1>2. IsFiniteSet({i \in DOMAIN s : s[i] = x})
  <2>1. IsFiniteSet(DOMAIN s)
    BY <1>1, FS_Interval
  <2> QED
    BY <2>1, FS_Subset
<1>3. Occurrences(s, x) \in Nat
  BY <1>2, FS_CardinalityType DEF Occurrences
<1>4. Occurrences(s, x) = 0 <=> {i \in DOMAIN s : s[i] = x} = {}
  BY <1>2, FS_EmptySet DEF Occurrences
<1> QED
  BY <1>1, <1>2, <1>3, <1>4 DEF Contains

LEMMA WithoutCounts ==
    ASSUME NEW S, NEW s \in Seq(S), NEW p \in 1..Len(s)
    PROVE  /\ Listing!Without(s, p) \in Seq(S)
           /\ InOrderOf(Listing!Without(s, p), s)
           /\ \A x : Occurrences(Listing!Without(s, p), x) =
                       IF s[p] = x THEN Occurrences(s, x) - 1 ELSE Occurrences(s, x)
<1> DEFINE r == Listing!Without(s, p)
           up(j) == IF j < p THEN j ELSE j + 1
<1>1. Len(s) \in Nat /\ Len(s) - 1 \in Nat /\ DOMAIN s = 1..Len(s)
  OBVIOUS
<1>2. r = [j \in 1..(Len(s) - 1) |-> IF j < p THEN s[j] ELSE s[j + 1]]
  BY DEF Listing!Without
<1>3. \A j \in 1..(Len(s) - 1) : (IF j < p THEN s[j] ELSE s[j + 1]) \in S
  BY <1>1
<1>4. r \in Seq(S)
  BY <1>1, <1>2, <1>3, IsASeq
<1>5. DOMAIN r = 1..(Len(s) - 1)
  BY <1>2
<1>6. \A j \in 1..(Len(s) - 1) : up(j) \in (1..Len(s)) \ {p} /\ r[j] = s[up(j)]
  BY <1>1, <1>2
<1>7. \A i, j \in 1..(Len(s) - 1) : i < j => up(i) < up(j)
  OBVIOUS
<1>8. \A k \in (1..Len(s)) \ {p} : \E j \in 1..(Len(s) - 1) : up(j) = k
  <2> TAKE k \in (1..Len(s)) \ {p}
  <2>1. CASE k < p
    BY <2>1, <1>1
  <2>2. CASE k > p
    <3>1. k - 1 \in 1..(Len(s) - 1) /\ ~(k - 1 < p) /\ (k - 1) + 1 = k
      BY <2>2, <1>1
    <3> QED
      BY <3>1
  <2> QED
    BY <2>1, <2>2
<1> HIDE DEF r, up
<1>9. InOrderOf(r, s)
  BY <1>1, <1>5, <1>6, <1>7 DEF InOrderOf
<1>10. ASSUME NEW x
       PROVE  Occurrences(r, x) = IF s[p] = x THEN Occurrences(s, x) - 1 ELSE Occurrences(s, x)
  <2> DEFINE A == {i \in DOMAIN s : s[i] = x}
             B == {j \in DOMAIN r : r[j] = x}
             f == [j \in B |-> up(j)]
  <2>1. IsFiniteSet(A) /\ IsFiniteSet(B)
    BY <1>4, OccurrencesTyped
  <2>2. \A j \in B : up(j) \in A \ {p}
    BY <1>1, <1>5, <1>6
  <2>3. \A i, j \in B : up(i) = up(j) => i = j
    <3> TAKE i, j \in B
    <3>1. i \in 1..(Len(s) - 1) /\ j \in 1..(Len(s) - 1)
      BY <1>5
    <3>2. up(i) \in Nat /\ up(j) \in Nat
      BY <3>1, <1>6
    <3>3. i < j \/ j < i \/ i = j
      BY <3>1
    <3> QED
      BY <3>1, <3>2, <3>3, <1>7
  <2>4. \A k \in A \ {p} : \E j \in B : up(j) = k
    BY <1>1, <1>5, <1>6, <1>8
  <2> HIDE DEF A, B
  <2>5. f \in Bijection(B, A \ {p})
    BY <2>2, <2>3, <2>4 DEF Bijection, Injection, Surjection, IsInjective
  <2>6. Cardinality(B) = Cardinality(A \ {p})
    BY <2>1, <2>5, FS_Bijection DEF ExistsBijection
  <2>7. p \in A <=> s[p] = x
    BY <1>1 DEF A
  <2>8. Cardinality(A \ {p}) = IF p \in A THEN Cardinality(A) - 1 ELSE Cardinality(A)
    BY <2>1, FS_RemoveElement
  <2> QED
    BY <2>6, <2>7, <2>8 DEF Occurrences, A, B
<1> QED
  BY <1>4, <1>9, <1>10 DEF r

LEMMA RemoveFirstCounts ==
    ASSUME NEW S, NEW s \in Seq(S), NEW n
    PROVE  /\ RemoveFirst(s, n) \in Seq(S)
           /\ InOrderOf(RemoveFirst(s, n), s)
           /\ \A x : x # n => Occurrences(RemoveFirst(s, n), x) = Occurrences(s, x)
           /\ Occurrences(RemoveFirst(s, n), n) =
                IF Occurrences(s, n) = 0 THEN 0 ELSE Occurrences(s, n) - 1
<1>1. CASE Contains(s, n)
  <2>1. PICK i \in 1..Len(s) : s[i] = n /\ RemoveFirst(s, n) = Listing!Without(s, i)
    BY <1>1, RemoveFirstTakesOne DEF Contains
  <2>2. Occurrences(s, n) # 0
    BY <1>1, OccurrencesTyped
  <2> QED
    BY <2>1, <2>2, WithoutCounts
<1>2. CASE ~Contains(s, n)
  <2>1. RemoveFirst(s, n) = s
    BY <1>2 DEF Contains, RemoveFirst
  <2>2. Occurrences(s, n) = 0
    BY <1>2, OccurrencesTyped
  <2>3. InOrderOf(s, s)
    BY DEF InOrderOf
  <2> QED
    BY <2>1, <2>2, <2>3
<1> QED
  BY <1>1, <1>2

(* The function f of Evicted exists.                                        *)
Removals(f, s, n) == f = [i \in Nat |-> IF i = 0 THEN s ELSE RemoveFirst(f[i - 1], n)]

LEMMA RemovalsExist ==
    ASSUME NEW Q, NEW s \in Q, NEW n, \A u \in Q : RemoveFirst(u, n) \in Q
    PROVE  \E f : Removals(f, s, n)
<1> DEFINE step == [u \in Q |-> RemoveFirst(u, n)]
<1>1. step \in [Q -> Q] /\ \A u \in Q : step[u] = RemoveFirst(u, n)
  OBVIOUS
<1> HIDE DEF step
<1>2. PICK f \in [Nat -> Q] : f[0] = s /\ \A i \in Nat : i # 0 => f[i] = step[f[i - 1]]
  BY <1>1, Iterates
<1>3. \A i \in Nat : f[i] = IF i = 0 THEN s ELSE RemoveFirst(f[i - 1], n)
  <2> TAKE i \in Nat
  <2>1. CASE i = 0
    BY <2>1, <1>2
  <2>2. CASE i # 0
    <3>1. i - 1 \in Nat
      BY <2>2
    <3>2. f[i - 1] \in Q
      BY <3>1, <1>2
    <3> QED
      BY <3>2, <2>2, <1>1, <1>2
  <2> QED
    BY <2>1, <2>2
<1>4. f = [i \in Nat |-> f[i]]
  BY <1>2
<1>5. f = [i \in Nat |-> IF i = 0 THEN s ELSE RemoveFirst(f[i - 1], n)]
  BY <1>3, <1>4, Zenon
<1> QED
  BY <1>5 DEF Removals

(* Evicted, by induction on the times the template is in the list.          *)
LEMMA EvictedCounts ==
    ASSUME NEW S, NEW s \in Seq(S), NEW n, NEW list \in Seq(Templates), NEW t
    PROVE  /\ Evicted(s, n, list, t) \in Seq(S)
           /\ InOrderOf(Evicted(s, n, list, t), s)
           /\ \A x : x # n => Occurrences(Evicted(s, n, list, t), x) = Occurrences(s, x)
           /\ Occurrences(s, n) <= Occurrences(list, t)
                => Occurrences(Evicted(s, n, list, t), n) = 0
<1> DEFINE k == Occurrences(list, t)
<1>1. \A u \in Seq(S) : RemoveFirst(u, n) \in Seq(S)
  BY RemoveFirstCounts
<1>2. \E f : Removals(f, s, n)
  BY <1>1, RemovalsExist
<1> DEFINE f == CHOOSE g : Removals(g, s, n)
<1>3. Removals(f, s, n)
  BY <1>2
<1>4. Evicted(s, n, list, t) = f[k]
  BY DEF Evicted, Removals
<1> HIDE DEF f
<1>5. f[0] = s /\ \A i \in Nat : f[i + 1] = RemoveFirst(f[i], n)
  <2>1. \A i \in Nat : f[i] = IF i = 0 THEN s ELSE RemoveFirst(f[i - 1], n)
    BY <1>3 DEF Removals
  <2>2. f[0] = s
    BY <2>1
  <2>3. \A i \in Nat : i + 1 \in Nat /\ i + 1 # 0 /\ (i + 1) - 1 = i
    OBVIOUS
  <2>4. \A i \in Nat : f[i + 1] = RemoveFirst(f[i], n)
    <3> TAKE i \in Nat
    <3>1. f[i + 1] = RemoveFirst(f[(i + 1) - 1], n)
      BY <2>1, <2>3
    <3> QED
      BY <3>1, <2>3
  <2> QED
    BY <2>2, <2>4
<1> DEFINE T == {i \in Nat :
                    /\ f[i] \in Seq(S)
                    /\ InOrderOf(f[i], s)
                    /\ \A x : x # n => Occurrences(f[i], x) = Occurrences(s, x)
                    /\ Occurrences(f[i], n) =
                         IF Occurrences(s, n) <= i THEN 0 ELSE Occurrences(s, n) - i}
<1>6. Occurrences(s, n) \in Nat /\ k \in Nat
  BY OccurrencesTyped
<1> HIDE DEF k
<1>7. 0 \in T
  <2>1. InOrderOf(s, s)
    BY DEF InOrderOf
  <2>2. Occurrences(s, n) = IF Occurrences(s, n) <= 0 THEN 0 ELSE Occurrences(s, n) - 0
    BY <1>6
  <2>3. f[0] = s
    BY <1>5
  <2> QED
    BY <2>1, <2>2, <2>3
<1>8. ASSUME NEW i \in T PROVE i + 1 \in T
  <2> DEFINE u == f[i]
             v == RemoveFirst(u, n)
  <2>1. u \in Seq(S) /\ InOrderOf(u, s) /\ i \in Nat
    OBVIOUS
  <2>2. \A x : x # n => Occurrences(u, x) = Occurrences(s, x)
    OBVIOUS
  <2>3. Occurrences(u, n) = IF Occurrences(s, n) <= i THEN 0 ELSE Occurrences(s, n) - i
    OBVIOUS
  <2>4. f[i + 1] = v
    BY <2>1, <1>5
  <2> HIDE DEF u
  <2>5. /\ v \in Seq(S)
        /\ InOrderOf(v, u)
        /\ \A x : x # n => Occurrences(v, x) = Occurrences(u, x)
        /\ Occurrences(v, n) = IF Occurrences(u, n) = 0 THEN 0 ELSE Occurrences(u, n) - 1
    BY <2>1, RemoveFirstCounts
  <2> HIDE DEF v
  <2>6. InOrderOf(v, s)
    BY <2>1, <2>5, InOrderOfTrans
  <2>7. Occurrences(v, n) = IF Occurrences(s, n) <= i + 1 THEN 0 ELSE Occurrences(s, n) - (i + 1)
    BY <2>1, <2>3, <2>5, <1>6
  <2>8. \A x : x # n => Occurrences(v, x) = Occurrences(s, x)
    BY <2>2, <2>5
  <2> QED
    BY <2>1, <2>4, <2>5, <2>6, <2>7, <2>8
<1>9. k \in T
  <2>1. Nat \subseteq T
    <3> HIDE DEF T
    <3> QED
      BY <1>7, <1>8, NatInd
  <2> QED
    BY <2>1, <1>6
<1> QED
  BY <1>4, <1>6, <1>9 DEF k

(* Indexed: the index grows at its end, by as many.                         *)
LEMMA IndexedCounts ==
    ASSUME NEW S, NEW s \in Seq(S), NEW n \in S, NEW list \in Seq(Templates), NEW t
    PROVE  /\ Indexed(s, n, list, t) \in Seq(S)
           /\ Len(Indexed(s, n, list, t)) = Len(s) + Occurrences(list, t)
           /\ \A i \in 1..Len(s) : Indexed(s, n, list, t)[i] = s[i]
           /\ \A i \in (Len(s) + 1)..(Len(s) + Occurrences(list, t)) :
                Indexed(s, n, list, t)[i] = n
           /\ \A x : Occurrences(Indexed(s, n, list, t), x) =
                Occurrences(s, x) + IF x = n THEN Occurrences(list, t) ELSE 0
<1> DEFINE k == Occurrences(list, t)
           tail == [i \in 1..k |-> n]
           r == Indexed(s, n, list, t)
<1>1. k \in Nat /\ Len(s) \in Nat /\ DOMAIN s = 1..Len(s)
  <2>1. k \in Nat
    BY OccurrencesTyped
  <2> QED
    BY <2>1
<1>2. r = s \o tail
  BY DEF Indexed
<1> HIDE DEF k, r
<1>3. tail \in Seq(S) /\ Len(tail) = k /\ \A i \in 1..k : tail[i] = n
  BY <1>1, IsASeq
<1> HIDE DEF tail
<1>4. /\ r \in Seq(S)
      /\ Len(r) = Len(s) + k
      /\ \A i \in 1..(Len(s) + k) : r[i] = IF i <= Len(s) THEN s[i] ELSE tail[i - Len(s)]
  BY <1>1, <1>2, <1>3, ConcatProperties
<1>5. \A i \in 1..Len(s) : r[i] = s[i]
  BY <1>1, <1>4
<1>6. \A i \in (Len(s) + 1)..(Len(s) + k) : r[i] = n
  <2> TAKE i \in (Len(s) + 1)..(Len(s) + k)
  <2>1. i \in 1..(Len(s) + k) /\ ~(i <= Len(s)) /\ i - Len(s) \in 1..k
    BY <1>1
  <2> QED
    BY <2>1, <1>3, <1>4
<1>7. ASSUME NEW x
      PROVE  Occurrences(r, x) = Occurrences(s, x) + IF x = n THEN k ELSE 0
  <2> DEFINE A == {i \in DOMAIN s : s[i] = x}
             B == IF x = n THEN (Len(s) + 1)..(Len(s) + k) ELSE {}
  <2>1. IsFiniteSet(A)
    BY OccurrencesTyped
  <2>2. IsFiniteSet(B) /\ Cardinality(B) = IF x = n THEN k ELSE 0
    <3>1. Len(s) + 1 \in Int /\ Len(s) + k \in Int
      BY <1>1
    <3>2. /\ IsFiniteSet((Len(s) + 1)..(Len(s) + k))
          /\ Cardinality((Len(s) + 1)..(Len(s) + k)) =
               IF Len(s) + 1 > Len(s) + k THEN 0 ELSE (Len(s) + k) - (Len(s) + 1) + 1
      BY <3>1, FS_Interval
    <3>3. Cardinality((Len(s) + 1)..(Len(s) + k)) = k
      BY <3>2, <1>1
    <3> QED
      BY <3>2, <3>3, FS_EmptySet
  <2>3. A \cap B = {}
    BY <1>1
  <2>4. DOMAIN r = 1..(Len(s) + k)
    BY <1>4
  <2>5. {i \in DOMAIN r : r[i] = x} = A \cup B
    <3>1. \A i \in DOMAIN r : i \in 1..Len(s) \/ i \in (Len(s) + 1)..(Len(s) + k)
      BY <1>1, <2>4
    <3>2. \A i \in 1..Len(s) : i \in DOMAIN r
      BY <1>1, <2>4
    <3>3. \A i \in (Len(s) + 1)..(Len(s) + k) : i \in DOMAIN r
      BY <1>1, <2>4
    <3> QED
      BY <3>1, <3>2, <3>3, <1>1, <1>5, <1>6
  <2> HIDE DEF A, B
  <2>6. Cardinality(A \cup B) = Cardinality(A) + Cardinality(B) - Cardinality(A \cap B)
    BY <2>1, <2>2, FS_Union
  <2>7. Cardinality(A) \in Nat /\ Cardinality(A \cap B) = 0
    BY <2>1, <2>3, FS_CardinalityType, FS_EmptySet
  <2>8. Cardinality(A \cup B) = Cardinality(A) + IF x = n THEN k ELSE 0
    BY <2>2, <2>6, <2>7, <1>1
  <2> QED
    BY <2>5, <2>8 DEF Occurrences, A
<1> QED
  BY <1>4, <1>5, <1>6, <1>7 DEF k, r

-----------------------------------------------------------------------------

(* The inductive invariant: types, and OrderMatchesMap.                     *)
OrderTyped ==
    /\ providers \in [Instances -> Backends \union {NoBackend}]
    /\ order \in Seq(Instances)

OrderInv == OrderTyped /\ OrderMatchesMap

LEMMA InitOrder == Init => OrderInv
  BY DEF Init, OrderInv, OrderTyped, OrderMatchesMap, ToSet

LEMMA NameOf == \A b \in Backends : Desc[b].name \in Instances
  BY BackendAssumption DEF Description

LEMMA RegisterKeepsOrder ==
    ASSUME OrderInv, NEW b \in Backends, Register(b)
    PROVE  OrderInv'
<1> DEFINE n == Desc[b].name
<1>1. n \in Instances /\ b # NoBackend
  BY NameOf, BackendAssumption
<1>2. providers[n] = NoBackend /\ providers' = [providers EXCEPT ![n] = b] /\ order' = Append(order, n)
  BY DEF Register
<1>3. OrderTyped'
  BY <1>1, <1>2 DEF OrderInv, OrderTyped
<1>4. \A i \in DOMAIN order : order[i] # n
  BY <1>2, <1>1 DEF OrderInv, OrderTyped, OrderMatchesMap, ToSet
<1>5. /\ DOMAIN order' = 1..(Len(order) + 1)
      /\ DOMAIN order = 1..Len(order)
      /\ Len(order) \in Nat
      /\ \A i \in 1..Len(order) : order'[i] = order[i]
      /\ order'[Len(order) + 1] = n
  BY <1>1, <1>2 DEF OrderInv, OrderTyped
<1>6. ToSet(order') = ToSet(order) \union {n}
  BY <1>5 DEF ToSet
<1>7. \A m \in Instances : providers'[m] = IF m = n THEN b ELSE providers[m]
  BY <1>2, <1>1 DEF OrderInv, OrderTyped
<1>8. ToSet(order') = {m \in Instances : providers'[m] # NoBackend}
  BY <1>1, <1>6, <1>7 DEF OrderInv, OrderMatchesMap
<1>9. \A i, j \in DOMAIN order' : order'[i] = order'[j] => i = j
  BY <1>4, <1>5 DEF OrderInv, OrderMatchesMap
<1>10. \A m \in ToSet(order') : Desc[providers'[m]].name = m
  BY <1>1, <1>6, <1>7 DEF OrderInv, OrderMatchesMap
<1> QED
  BY <1>3, <1>8, <1>9, <1>10 DEF OrderInv, OrderMatchesMap

(* What Remove does to the order, for a name that is registered at i.       *)
LEMMA RemovedPosition ==
    ASSUME OrderInv, NEW m \in Instances, RemoveBackend(m)
    PROVE  \E i \in 1..Len(order) :
              /\ order[i] = m
              /\ Len(order') = Len(order) - 1
              /\ DOMAIN order' = 1..(Len(order) - 1)
              /\ order' \in Seq(Instances)
              /\ \A j \in 1..(Len(order) - 1) :
                    order'[j] = IF j < i THEN order[j] ELSE order[j + 1]
<1>1. m \in ToSet(order)
  BY DEF OrderInv, OrderMatchesMap, RemoveBackend
<1>2. PICK i \in 1..Len(order) : order[i] = m
  BY <1>1 DEF ToSet, OrderInv, OrderTyped
<1>3. \A j \in 1..Len(order) : order[j] = order[i] => j = i
  BY <1>2 DEF OrderInv, OrderMatchesMap, OrderTyped
<1>4. order' = Listing!Without(order, i)
  <2>1. PICK k \in 1..Len(order) : order[k] = m /\ RemoveFirst(order, m) = Listing!Without(order, k)
    BY <1>2, RemoveFirstTakesOne DEF OrderInv, OrderTyped
  <2>2. k = i
    BY <2>1, <1>2, <1>3
  <2> QED
    BY <2>1, <2>2 DEF RemoveBackend
<1>5. order' = [j \in 1..(Len(order) - 1) |-> IF j < i THEN order[j] ELSE order[j + 1]]
  BY <1>4 DEF Listing!Without
<1>6. Len(order) \in Nat /\ Len(order) - 1 \in Nat
  BY <1>2 DEF OrderInv, OrderTyped
<1>7. \A j \in 1..(Len(order) - 1) : (IF j < i THEN order[j] ELSE order[j + 1]) \in Instances
  BY <1>2, <1>6 DEF OrderInv, OrderTyped
<1>8. order' \in Seq(Instances)
  BY <1>5, <1>6, <1>7, IsASeq
<1> QED
  BY <1>2, <1>5, <1>6, <1>8

LEMMA RemoveKeepsOrder ==
    ASSUME OrderInv, NEW m \in Instances, RemoveBackend(m)
    PROVE  OrderInv'
<1>1. PICK i \in 1..Len(order) :
         /\ order[i] = m
         /\ Len(order') = Len(order) - 1
         /\ DOMAIN order' = 1..(Len(order) - 1)
         /\ order' \in Seq(Instances)
         /\ \A j \in 1..(Len(order) - 1) :
               order'[j] = IF j < i THEN order[j] ELSE order[j + 1]
  BY RemovedPosition
<1>2. DOMAIN order = 1..Len(order) /\ Len(order) \in Nat
  BY DEF OrderInv, OrderTyped
<1>3. providers' = [providers EXCEPT ![m] = NoBackend]
  BY DEF RemoveBackend
<1>4. OrderTyped'
  BY <1>1, <1>3 DEF OrderInv, OrderTyped
<1>5. \A j, k \in DOMAIN order : order[j] = order[k] => j = k
  BY DEF OrderInv, OrderMatchesMap
<1>6. ToSet(order') = ToSet(order) \ {m}
  <2>1. ASSUME NEW j \in 1..(Len(order) - 1)
        PROVE  order'[j] \in ToSet(order) \ {m}
    <3>1. PICK k \in 1..Len(order) : order'[j] = order[k] /\ k # i
      <4>1. CASE j < i
        BY <4>1, <1>1, <1>2
      <4>2. CASE ~(j < i)
        <5>1. j + 1 \in 1..Len(order) /\ j + 1 # i
          BY <4>2, <1>2
        <5> QED
          BY <4>2, <5>1, <1>1
      <4> QED
        BY <4>1, <4>2
    <3>2. order[k] # order[i]
      BY <3>1, <1>2, <1>5
    <3> QED
      BY <3>1, <3>2, <1>1, <1>2 DEF ToSet
  <2>2. ASSUME NEW j \in 1..Len(order), order[j] # m
        PROVE  \E k \in 1..(Len(order) - 1) : order'[k] = order[j]
    <3>1. CASE j < i
      BY <3>1, <1>1, <1>2
    <3>2. CASE ~(j < i)
      <4>1. j > i
        BY <3>2, <2>2, <1>1, <1>2
      <4>2. j - 1 \in 1..(Len(order) - 1) /\ ~(j - 1 < i) /\ (j - 1) + 1 = j
        BY <4>1, <1>2
      <4> QED
        BY <4>2, <1>1
    <3> QED
      BY <3>1, <3>2
  <2>3. ToSet(order') \subseteq ToSet(order) \ {m}
    BY <2>1, <1>1 DEF ToSet
  <2>4. ASSUME NEW n \in ToSet(order), n # m PROVE n \in ToSet(order')
    <3>1. PICK j \in 1..Len(order) : order[j] = n
      BY <2>4, <1>2 DEF ToSet
    <3>2. PICK k \in 1..(Len(order) - 1) : order'[k] = n
      BY <3>1, <2>4, <2>2
    <3> QED
      BY <3>2, <1>1 DEF ToSet
  <2> QED
    BY <2>3, <2>4
<1>7. \A n \in Instances : providers'[n] = IF n = m THEN NoBackend ELSE providers[n]
  BY <1>3 DEF OrderInv, OrderTyped
<1>8. ToSet(order') = {n \in Instances : providers'[n] # NoBackend}
  BY <1>6, <1>7 DEF OrderInv, OrderMatchesMap
<1>9. \A j, k \in DOMAIN order' : order'[j] = order'[k] => j = k
  <2> SUFFICES ASSUME NEW j \in 1..(Len(order) - 1), NEW k \in 1..(Len(order) - 1),
                      order'[j] = order'[k]
               PROVE  j = k
    BY <1>1
  <2>1. (IF j < i THEN order[j] ELSE order[j + 1]) = (IF k < i THEN order[k] ELSE order[k + 1])
    BY <1>1
  <2> QED
    BY <2>1, <1>2, <1>5
<1>10. \A n \in ToSet(order') : Desc[providers'[n]].name = n
  BY <1>6, <1>7 DEF OrderInv, OrderMatchesMap
<1> QED
  BY <1>4, <1>8, <1>9, <1>10 DEF OrderInv, OrderMatchesMap

LEMMA NextKeepsOrder == OrderInv /\ [Next]_vars => OrderInv'
<1> SUFFICES ASSUME OrderInv, [Next]_vars PROVE OrderInv'
  OBVIOUS
<1>1. ASSUME NEW b \in Backends, Register(b) PROVE OrderInv'
  BY <1>1, RegisterKeepsOrder
<1>2. ASSUME NEW n \in Instances, RemoveBackend(n) PROVE OrderInv'
  BY <1>2, RemoveKeepsOrder
<1>3. ASSUME UNCHANGED <<providers, order>> PROVE OrderInv'
  BY <1>3 DEF OrderInv, OrderTyped, OrderMatchesMap
<1> QED
  BY <1>1, <1>2, <1>3 DEF Next, vars, Readvertise

(* The map and the order of registry.go always have the same names: what    *)
(* Register adds to one it adds to the other, and Remove likewise.          *)
THEOREM OrderAndMapAgree == Spec => []OrderMatchesMap
<1>1. Spec => []OrderInv
  BY InitOrder, NextKeepsOrder, PTL DEF Spec
<1>2. OrderInv => OrderMatchesMap
  BY DEF OrderInv
<1> QED
  BY <1>1, <1>2, PTL

-----------------------------------------------------------------------------
(* The refinement. *)

(* The listing of a registry in order. *)
ListOfOrder ==
    /\ List \in Seq(Backends)
    /\ Len(List) = Len(order)
    /\ DOMAIN List = 1..Len(order)
    /\ \A i \in 1..Len(order) : List[i] = providers[order[i]]

LEMMA ListTyped == OrderInv => ListOfOrder
<1> HAVE OrderInv
<1>1. DOMAIN order = 1..Len(order) /\ Len(order) \in Nat
  BY DEF OrderInv, OrderTyped
<1>2. \A i \in 1..Len(order) : providers[order[i]] \in Backends
  BY <1>1 DEF OrderInv, OrderTyped, OrderMatchesMap, ToSet
<1>3. List = [i \in 1..Len(order) |-> providers[order[i]]]
  BY <1>1 DEF List
<1>4. List \in Seq(Backends)
  BY <1>1, <1>2, <1>3, IsASeq
<1> QED
  BY <1>1, <1>3, <1>4 DEF ListOfOrder

LEMMA ListTypedNext == OrderInv' => ListOfOrder'
  BY ListTyped, PTL

LEMMA RegisterAdds ==
    ASSUME OrderInv, OrderInv', NEW b \in Backends, Register(b)
    PROVE  Listing!Added(b)
<1> DEFINE n == Desc[b].name
<1>1. n \in Instances /\ b # NoBackend
  BY NameOf, BackendAssumption
<1>2. providers[n] = NoBackend /\ providers' = [providers EXCEPT ![n] = b] /\ order' = Append(order, n)
  BY DEF Register
<1>3. /\ Len(order) \in Nat
      /\ Len(order') = Len(order) + 1
      /\ \A i \in 1..Len(order) : order'[i] = order[i] /\ order[i] # n /\ order[i] \in Instances
      /\ order'[Len(order) + 1] = n
  BY <1>1, <1>2 DEF OrderInv, OrderTyped, OrderMatchesMap, ToSet
<1>4. /\ List \in Seq(Backends)
      /\ Len(List) = Len(order)
      /\ \A i \in 1..Len(order) : List[i] = providers[order[i]]
  BY ListTyped DEF ListOfOrder
<1>5. /\ List' \in Seq(Backends)
      /\ Len(List') = Len(order')
      /\ \A i \in 1..Len(order') : List'[i] = providers'[order'[i]]
  BY ListTypedNext DEF ListOfOrder
<1>6. \A m \in Instances : providers'[m] = IF m = n THEN b ELSE providers[m]
  BY <1>2, <1>1 DEF OrderInv, OrderTyped
<1>7. List' = Append(List, b)
  <2>1. /\ Append(List, b) \in Seq(Backends)
        /\ Len(Append(List, b)) = Len(List) + 1
        /\ \A i \in 1..Len(List) : Append(List, b)[i] = List[i]
        /\ Append(List, b)[Len(List) + 1] = b
    BY <1>4, AppendProperties
  <2>2. \A i \in 1..Len(List') : List'[i] = Append(List, b)[i]
    <3> TAKE i \in 1..Len(List')
    <3>1. CASE i = Len(order) + 1
      BY <3>1, <2>1, <1>1, <1>3, <1>4, <1>5, <1>6
    <3>2. CASE i \in 1..Len(order)
      BY <3>2, <2>1, <1>3, <1>4, <1>5, <1>6
    <3>3. i \in 1..(Len(order) + 1)
      BY <1>3, <1>5
    <3>4. i = Len(order) + 1 \/ i \in 1..Len(order)
      BY <3>3, <1>3
    <3> QED
      BY <3>1, <3>2, <3>4
  <2> QED
    BY <2>1, <2>2, <1>3, <1>4, <1>5, SeqEqual
<1>8. \A c \in Backends : (\E i \in DOMAIN List : List[i] = c) => Desc[c].name # n
  <2> SUFFICES ASSUME NEW i \in 1..Len(order) PROVE Desc[List[i]].name # n
    BY ListTyped DEF ListOfOrder
  <2>1. Desc[providers[order[i]]].name = order[i]
    BY <1>3 DEF OrderInv, OrderTyped, OrderMatchesMap, ToSet
  <2> QED
    BY <2>1, <1>3, <1>4
<1> QED
  BY <1>7, <1>8 DEF Listing!Added, Listing!Registered

LEMMA RemoveTakesOne ==
    ASSUME OrderInv, OrderInv', NEW m \in Instances, RemoveBackend(m)
    PROVE  \E i \in DOMAIN List : Listing!Removed(i)
<1>1. PICK i \in 1..Len(order) :
         /\ order[i] = m
         /\ Len(order') = Len(order) - 1
         /\ DOMAIN order' = 1..(Len(order) - 1)
         /\ order' \in Seq(Instances)
         /\ \A j \in 1..(Len(order) - 1) :
               order'[j] = IF j < i THEN order[j] ELSE order[j + 1]
  BY RemovedPosition
<1>2. /\ DOMAIN List = 1..Len(order)
      /\ Len(List) = Len(order)
      /\ \A j \in 1..Len(order) : List[j] = providers[order[j]]
  BY ListTyped DEF ListOfOrder
<1>3. /\ Len(order) \in Nat
      /\ \A j \in 1..Len(order) : order[j] \in Instances /\ (order[j] = m => j = i)
  BY <1>1 DEF OrderInv, OrderTyped, OrderMatchesMap
<1>4. List' = [j \in 1..(Len(order) - 1) |-> providers'[order'[j]]]
  BY <1>1 DEF List
<1>5. \A n \in Instances : n # m => providers'[n] = providers[n]
  BY DEF OrderInv, OrderTyped, RemoveBackend
<1>6. ASSUME NEW j \in 1..(Len(order) - 1)
      PROVE  providers'[order'[j]] = IF j < i THEN List[j] ELSE List[j + 1]
  <2>1. CASE j < i
    BY <2>1, <1>1, <1>2, <1>3, <1>5
  <2>2. CASE ~(j < i)
    <3>1. j + 1 \in 1..Len(order) /\ j + 1 # i /\ order'[j] = order[j + 1]
      BY <2>2, <1>1, <1>3
    <3> QED
      BY <3>1, <2>2, <1>2, <1>3, <1>5
  <2> QED
    BY <2>1, <2>2
<1>7. List' = [j \in 1..(Len(List) - 1) |-> IF j < i THEN List[j] ELSE List[j + 1]]
  BY <1>2, <1>4, <1>6
<1> QED
  BY <1>2, <1>7 DEF Listing!Removed, Listing!Without

LEMMA NextIsListed ==
    OrderInv /\ OrderInv' /\ [Next]_vars => [Listing!ListingNext]_List
<1> SUFFICES ASSUME OrderInv, OrderInv', [Next]_vars
             PROVE  Listing!ListingNext \/ UNCHANGED List
  OBVIOUS
<1>1. ASSUME NEW b \in Backends, Register(b) PROVE Listing!ListingNext
  BY <1>1, RegisterAdds DEF Listing!ListingNext
<1>2. ASSUME NEW n \in Instances, RemoveBackend(n) PROVE Listing!ListingNext
  BY <1>2, RemoveTakesOne DEF Listing!ListingNext
<1>3. ASSUME UNCHANGED <<providers, order>> PROVE UNCHANGED List
  BY <1>3 DEF List
<1> QED
  BY <1>1, <1>2, <1>3 DEF Next, vars, Readvertise

(* The registry is the list its users take it for: it starts empty, a       *)
(* registration appends, a removal takes one out and keeps the order, and   *)
(* nothing a backend returns about its algorithms moves it.                 *)
THEOREM RegistryIsAListing == Spec => ImplementsListing
<1>1. Init => Listing!ListingInit
  BY DEF Init, List, Listing!ListingInit
<1>2. Spec => []OrderInv
  BY InitOrder, NextKeepsOrder, PTL DEF Spec
<1>3. Spec => Listing!ListingSpec
  BY <1>1, <1>2, NextIsListed, PTL DEF Spec, Listing!ListingSpec
<1> QED
  BY <1>3 DEF ImplementsListing

-----------------------------------------------------------------------------
(* The index. *)

(* The inductive invariant: the map and the order agree, the index and the  *)
(* lists are typed, the lists that do not change are the first ones, and    *)
(* IndexFollowsOrder.                                                       *)
IndexTyped ==
    /\ byTemplate \in [Templates -> Seq(Instances)]
    /\ supported \in [Backends -> Lists]
    /\ \A b \in Backends \ Changing : supported[b] = FirstList[b]

IndexInv == OrderInv /\ IndexTyped /\ IndexFollowsOrder

(* The place of a name in a sequence; Position is the one in order.         *)
Spot(s, n) == CHOOSE i \in DOMAIN s : s[i] = n

LEMMA PositionIsSpot == \A n : Position(n) = Spot(order, n)
  BY DEF Position, Spot

(* Where a registered name stands.                                          *)
Placed ==
    /\ Len(order) \in Nat
    /\ DOMAIN order = 1..Len(order)
    /\ \A x \in Instances : Contains(order, x) <=> providers[x] # NoBackend
    /\ \A i \in 1..Len(order) : order[i] \in Instances /\ Spot(order, order[i]) = i

LEMMA OrderPlaces == OrderInv => Placed
<1> HAVE OrderInv
<1>1. Len(order) \in Nat /\ DOMAIN order = 1..Len(order)
  BY DEF OrderInv, OrderTyped
<1>2. \A x \in Instances : Contains(order, x) <=> providers[x] # NoBackend
  BY <1>1 DEF OrderInv, OrderMatchesMap, ToSet, Contains
<1>3. \A i \in 1..Len(order) : order[i] \in Instances /\ Spot(order, order[i]) = i
  <2> TAKE i \in 1..Len(order)
  <2>1. \A j \in DOMAIN order : order[j] = order[i] => j = i
    BY <1>1 DEF OrderInv, OrderMatchesMap
  <2> QED
    BY <2>1, <1>1 DEF Spot, OrderInv, OrderTyped
<1> QED
  BY <1>1, <1>2, <1>3 DEF Placed

LEMMA OrderPlacesNext == OrderInv' => Placed'
  BY OrderPlaces, PTL

LEMMA StableTyped == StableNames \subseteq Instances
  BY DEF StableNames

LEMMA ListTypes == \A b \in Backends : IndexTyped => supported[b] \in Seq(Templates)
  BY ListsAssumption DEF IndexTyped

(* A stable name in the index is registered.                                *)
LEMMA StableRegistered ==
    ASSUME IndexInv, NEW t \in Templates, NEW i \in DOMAIN byTemplate[t],
           byTemplate[t][i] \in StableNames
    PROVE  \E p \in 1..Len(order) : order[p] = byTemplate[t][i]
<1> DEFINE names == byTemplate[t]
           x == names[i]
<1>1. names \in Seq(Instances)
  BY DEF IndexInv, IndexTyped
<1>2. Contains(names, x)
  BY <1>1 DEF Contains
<1>3. Occurrences(names, x) # 0
  BY <1>1, <1>2, OccurrencesTyped
<1>4. Contains(order, x)
  BY <1>3 DEF IndexInv, IndexFollowsOrder
<1> QED
  BY <1>4 DEF Contains

LEMMA InitIndex == Init => IndexInv
<1> HAVE Init
<1>1. IndexTyped
  BY ListsAssumption DEF Init, IndexTyped
<1>2. ASSUME NEW t \in Templates, NEW n \in StableNames
      PROVE  Occurrences(byTemplate[t], n) = 0
  <2>1. byTemplate[t] = <<>> /\ <<>> \in Seq(Instances) /\ ~Contains(<<>>, n)
    BY DEF Init, Contains
  <2> QED
    BY <2>1, OccurrencesTyped
<1>3. \A n : ~Contains(order, n)
  BY DEF Init, Contains
<1>4. \A t \in Templates : DOMAIN byTemplate[t] = {}
  BY DEF Init
<1>5. IndexFollowsOrder
  BY <1>2, <1>3, <1>4 DEF IndexFollowsOrder
<1> QED
  BY <1>1, <1>5, InitOrder DEF IndexInv

LEMMA RegisterKeepsIndex ==
    ASSUME IndexInv, OrderInv', NEW b \in Backends, Register(b)
    PROVE  IndexTyped' /\ IndexFollowsOrder'
<1> DEFINE n == Desc[b].name
<1>1. n \in Instances /\ b # NoBackend
  BY NameOf, BackendAssumption
<1>2. /\ providers[n] = NoBackend
      /\ providers' = [providers EXCEPT ![n] = b]
      /\ order' = Append(order, n)
      /\ byTemplate' = [t \in Templates |-> Indexed(byTemplate[t], n, supported[b], t)]
      /\ supported' = supported
  BY DEF Register
<1>3. \A m \in Instances : providers'[m] = IF m = n THEN b ELSE providers[m]
  BY <1>1, <1>2 DEF IndexInv, OrderInv, OrderTyped
<1>4. Placed
  BY OrderPlaces DEF IndexInv
<1>5. /\ \A x \in Instances : Contains(order', x) <=> providers'[x] # NoBackend
      /\ \A i \in 1..Len(order') : Spot(order', order'[i]) = i
  BY OrderPlacesNext DEF Placed
<1>6. /\ Len(order) \in Nat
      /\ Len(order') = Len(order) + 1
      /\ \A i \in 1..Len(order) : order'[i] = order[i]
      /\ order'[Len(order) + 1] = n
  BY <1>1, <1>2 DEF IndexInv, OrderInv, OrderTyped
<1>7. supported[b] \in Seq(Templates)
  BY ListTypes DEF IndexInv
<1> HIDE DEF n
<1>8. ASSUME NEW t \in Templates
      PROVE  /\ byTemplate'[t] \in Seq(Instances)
             /\ byTemplate[t] \in Seq(Instances)
             /\ Len(byTemplate'[t]) = Len(byTemplate[t]) + Occurrences(supported[b], t)
             /\ \A i \in 1..Len(byTemplate[t]) : byTemplate'[t][i] = byTemplate[t][i]
             /\ \A i \in (Len(byTemplate[t]) + 1)..Len(byTemplate'[t]) : byTemplate'[t][i] = n
             /\ \A x : Occurrences(byTemplate'[t], x) =
                         Occurrences(byTemplate[t], x)
                           + IF x = n THEN Occurrences(supported[b], t) ELSE 0
  <2>1. byTemplate[t] \in Seq(Instances)
    BY DEF IndexInv, IndexTyped
  <2>2. byTemplate'[t] = Indexed(byTemplate[t], n, supported[b], t)
    BY <1>2
  <2> DEFINE s == byTemplate[t]
             list == supported[b]
             r == Indexed(s, n, list, t)
  <2>3. /\ r \in Seq(Instances)
        /\ Len(r) = Len(s) + Occurrences(list, t)
        /\ \A i \in 1..Len(s) : r[i] = s[i]
        /\ \A i \in (Len(s) + 1)..(Len(s) + Occurrences(list, t)) : r[i] = n
        /\ \A x : Occurrences(r, x) = Occurrences(s, x) + IF x = n THEN Occurrences(list, t) ELSE 0
    <3>1. s \in Seq(Instances) /\ list \in Seq(Templates)
      BY <2>1, <1>7
    <3> HIDE DEF s, list
    <3>2. /\ r \in Seq(Instances)
          /\ Len(r) = Len(s) + Occurrences(list, t)
          /\ \A i \in 1..Len(s) : r[i] = s[i]
      BY <3>1, <1>1, IndexedCounts
    <3>3. \A i \in (Len(s) + 1)..(Len(s) + Occurrences(list, t)) : r[i] = n
      BY <3>1, <1>1, IndexedCounts
    <3>4. \A x : Occurrences(r, x) = Occurrences(s, x) + IF x = n THEN Occurrences(list, t) ELSE 0
      BY <3>1, <1>1, IndexedCounts
    <3> QED
      BY <3>2, <3>3, <3>4
  <2> QED
    BY <2>1, <2>2, <2>3
<1>9. IndexTyped'
  <2>1. byTemplate' \in [Templates -> Seq(Instances)]
    BY <1>2, <1>8
  <2> QED
    BY <2>1, <1>2 DEF IndexInv, IndexTyped
<1>10. ASSUME NEW t \in Templates, NEW x \in StableNames
       PROVE  Occurrences(byTemplate'[t], x) = IF Contains(order', x)
                                               THEN Occurrences(supported'[providers'[x]], t)
                                               ELSE 0
  <2>1. Occurrences(byTemplate[t], x) = IF Contains(order, x)
                                        THEN Occurrences(supported[providers[x]], t)
                                        ELSE 0
    BY DEF IndexInv, IndexFollowsOrder
  <2>2. x \in Instances
    BY StableTyped
  <2>3. Occurrences(byTemplate[t], x) \in Nat /\ Occurrences(supported[b], t) \in Nat
    BY <1>7, <1>8, OccurrencesTyped
  <2>4. Occurrences(byTemplate'[t], x) =
          Occurrences(byTemplate[t], x) + IF x = n THEN Occurrences(supported[b], t) ELSE 0
    BY <1>8
  <2>5. CASE x = n
    <3>1. ~Contains(order, x) /\ Contains(order', x) /\ providers'[x] = b
      BY <2>5, <1>1, <1>2, <1>3, <1>4, <1>5 DEF Placed
    <3> QED
      BY <3>1, <2>1, <2>3, <2>5, <2>4, <1>2
  <2>6. CASE x # n
    <3>1. (Contains(order', x) <=> Contains(order, x)) /\ providers'[x] = providers[x]
      BY <2>2, <2>6, <1>3, <1>4, <1>5 DEF Placed
    <3> QED
      BY <3>1, <2>1, <2>3, <2>6, <2>4, <1>2
  <2> QED
    BY <2>5, <2>6
<1>11. ASSUME NEW t \in Templates, NEW i \in 1..Len(byTemplate'[t]),
              byTemplate'[t][i] \in StableNames
       PROVE  IF i <= Len(byTemplate[t])
              THEN /\ byTemplate'[t][i] = byTemplate[t][i]
                   /\ Spot(order', byTemplate'[t][i]) = Spot(order, byTemplate[t][i])
                   /\ Spot(order, byTemplate[t][i]) \in 1..Len(order)
              ELSE Spot(order', byTemplate'[t][i]) = Len(order) + 1
  <2>1. CASE i <= Len(byTemplate[t])
    <3>1. i \in DOMAIN byTemplate[t] /\ byTemplate'[t][i] = byTemplate[t][i]
      BY <2>1, <1>8
    <3>2. PICK p \in 1..Len(order) : order[p] = byTemplate[t][i]
      BY <3>1, <1>11, StableRegistered
    <3>3. order'[p] = byTemplate'[t][i] /\ p \in 1..Len(order')
      BY <3>1, <3>2, <1>6
    <3>4. Spot(order, byTemplate[t][i]) = p
      BY <3>2, <1>4 DEF Placed
    <3>5. Spot(order', order'[p]) = p
      BY <3>3, <1>5
    <3>6. Spot(order', byTemplate'[t][i]) = p
      BY <3>3, <3>5
    <3> QED
      BY <2>1, <3>1, <3>4, <3>6
  <2>2. CASE ~(i <= Len(byTemplate[t]))
    <3>1. byTemplate'[t][i] = n
      BY <2>2, <1>8
    <3>2. Len(order) + 1 \in 1..Len(order') /\ order'[Len(order) + 1] = n
      BY <1>6
    <3>3. Spot(order', order'[Len(order) + 1]) = Len(order) + 1
      BY <3>2, <1>5
    <3>4. Spot(order', byTemplate'[t][i]) = Len(order) + 1
      BY <3>1, <3>2, <3>3
    <3> QED
      BY <2>2, <3>4
  <2> QED
    BY <2>1, <2>2
<1>12. ASSUME NEW t \in Templates,
              NEW i \in DOMAIN byTemplate'[t], NEW j \in DOMAIN byTemplate'[t],
              i < j, byTemplate'[t][i] \in StableNames, byTemplate'[t][j] \in StableNames
       PROVE  Spot(order', byTemplate'[t][i]) <= Spot(order', byTemplate'[t][j])
  <2>1. i \in 1..Len(byTemplate'[t]) /\ j \in 1..Len(byTemplate'[t])
    BY <1>8
  <2>2. Len(byTemplate[t]) \in Nat /\ DOMAIN byTemplate[t] = 1..Len(byTemplate[t])
    BY <1>8
  <2> DEFINE at(k) == Spot(order', byTemplate'[t][k])
  <2>3. CASE j <= Len(byTemplate[t])
    <3>1. i <= Len(byTemplate[t])
      BY <2>3, <2>1, <2>2, <1>12
    <3>2. at(i) = Spot(order, byTemplate[t][i]) /\ byTemplate'[t][i] = byTemplate[t][i]
      BY <3>1, <2>1, <1>11, <1>12
    <3>3. at(j) = Spot(order, byTemplate[t][j]) /\ byTemplate'[t][j] = byTemplate[t][j]
      BY <2>3, <2>1, <1>11, <1>12
    <3>4. i \in DOMAIN byTemplate[t] /\ j \in DOMAIN byTemplate[t]
      BY <3>1, <2>1, <2>2, <2>3
    <3>5. Spot(order, byTemplate[t][i]) <= Spot(order, byTemplate[t][j])
      BY <3>2, <3>3, <3>4, <1>12, PositionIsSpot DEF IndexInv, IndexFollowsOrder
    <3> QED
      BY <3>2, <3>3, <3>5
  <2>4. CASE ~(j <= Len(byTemplate[t]))
    <3>1. at(j) = Len(order) + 1
      BY <2>1, <2>4, <1>11, <1>12
    <3>2. at(i) \in 1..(Len(order) + 1)
      <4>1. CASE i <= Len(byTemplate[t])
        BY <4>1, <2>1, <1>6, <1>11, <1>12
      <4>2. CASE ~(i <= Len(byTemplate[t]))
        BY <4>2, <2>1, <1>6, <1>11, <1>12
      <4> QED
        BY <4>1, <4>2
    <3> QED
      BY <3>1, <3>2
  <2> QED
    BY <2>3, <2>4
<1>13. IndexFollowsOrder'
  BY <1>10, <1>12, Zenon DEF IndexFollowsOrder, Position, Spot, StableNames
<1> QED
  BY <1>9, <1>13

LEMMA RemoveKeepsIndex ==
    ASSUME IndexInv, OrderInv', NEW m \in Instances, RemoveBackend(m)
    PROVE  IndexTyped' /\ IndexFollowsOrder'
<1> DEFINE b == providers[m]
<1>1. /\ b \in Backends
      /\ providers' = [providers EXCEPT ![m] = NoBackend]
      /\ byTemplate' = [t \in Templates |-> Evicted(byTemplate[t], m, supported[b], t)]
      /\ supported' = supported
  BY DEF RemoveBackend, IndexInv, OrderInv, OrderTyped
<1>2. \A n \in Instances : providers'[n] = IF n = m THEN NoBackend ELSE providers[n]
  BY <1>1 DEF IndexInv, OrderInv, OrderTyped
<1>3. PICK p \in 1..Len(order) :
         /\ order[p] = m
         /\ Len(order') = Len(order) - 1
         /\ DOMAIN order' = 1..(Len(order) - 1)
         /\ order' \in Seq(Instances)
         /\ \A j \in 1..(Len(order) - 1) :
               order'[j] = IF j < p THEN order[j] ELSE order[j + 1]
  BY RemovedPosition DEF IndexInv
<1>4. Placed
  BY OrderPlaces DEF IndexInv
<1>5. /\ \A x \in Instances : Contains(order', x) <=> providers'[x] # NoBackend
      /\ \A i \in 1..Len(order') : order'[i] \in Instances /\ Spot(order', order'[i]) = i
  BY OrderPlacesNext DEF Placed
<1>6. supported[b] \in Seq(Templates)
  BY <1>1, ListTypes DEF IndexInv
<1>7. b # NoBackend
  BY DEF RemoveBackend
<1> HIDE DEF b
<1>8. ASSUME NEW t \in Templates
      PROVE  /\ byTemplate[t] \in Seq(Instances)
             /\ byTemplate'[t] \in Seq(Instances)
             /\ InOrderOf(byTemplate'[t], byTemplate[t])
             /\ \A x : x # m => Occurrences(byTemplate'[t], x) = Occurrences(byTemplate[t], x)
             /\ Occurrences(byTemplate[t], m) <= Occurrences(supported[b], t)
                  => Occurrences(byTemplate'[t], m) = 0
  <2> DEFINE s == byTemplate[t]
             list == supported[b]
             r == Evicted(s, m, list, t)
  <2>1. s \in Seq(Instances) /\ list \in Seq(Templates)
    BY <1>6 DEF IndexInv, IndexTyped
  <2>2. byTemplate'[t] = r
    BY <1>1
  <2>3. /\ r \in Seq(Instances)
        /\ InOrderOf(r, s)
        /\ \A x : x # m => Occurrences(r, x) = Occurrences(s, x)
        /\ Occurrences(s, m) <= Occurrences(list, t) => Occurrences(r, m) = 0
    <3> HIDE DEF s, list
    <3> QED
      BY <2>1, EvictedCounts
  <2> QED
    BY <2>1, <2>2, <2>3
<1>9. IndexTyped'
  <2>1. byTemplate' \in [Templates -> Seq(Instances)]
    BY <1>1, <1>8
  <2> QED
    BY <2>1, <1>1 DEF IndexInv, IndexTyped
<1>10. ASSUME NEW t \in Templates, NEW x \in StableNames
       PROVE  Occurrences(byTemplate'[t], x) = IF Contains(order', x)
                                               THEN Occurrences(supported'[providers'[x]], t)
                                               ELSE 0
  <2>1. Occurrences(byTemplate[t], x) = IF Contains(order, x)
                                        THEN Occurrences(supported[providers[x]], t)
                                        ELSE 0
    BY DEF IndexInv, IndexFollowsOrder
  <2>2. x \in Instances
    BY StableTyped
  <2>3. CASE x = m
    <3>1. Contains(order, x) /\ ~Contains(order', x) /\ providers[x] = b
      BY <2>3, <1>2, <1>4, <1>5, <1>7 DEF Placed, b
    <3>2. Occurrences(supported[b], t) \in Nat
      BY <1>6, OccurrencesTyped
    <3>3. Occurrences(byTemplate[t], m) <= Occurrences(supported[b], t)
      BY <3>1, <3>2, <2>1, <2>3
    <3>4. Occurrences(byTemplate'[t], m) = 0
      BY <3>3, <1>8
    <3> QED
      BY <3>1, <3>4, <2>3
  <2>4. CASE x # m
    <3>1. (Contains(order', x) <=> Contains(order, x)) /\ providers'[x] = providers[x]
      BY <2>2, <2>4, <1>2, <1>4, <1>5 DEF Placed
    <3>2. Occurrences(byTemplate'[t], x) = Occurrences(byTemplate[t], x)
      BY <2>4, <1>8
    <3> QED
      BY <3>1, <3>2, <2>1, <1>1
  <2> QED
    BY <2>3, <2>4
(* A stable name left in the index is at a in the order that is left, and   *)
(* was at a or behind it before.                                            *)
<1>11. ASSUME NEW t \in Templates, NEW i \in DOMAIN byTemplate'[t],
              byTemplate'[t][i] \in StableNames
       PROVE  \E a \in 1..(Len(order) - 1) :
                 /\ Spot(order', byTemplate'[t][i]) = a
                 /\ Spot(order, byTemplate'[t][i]) = IF a < p THEN a ELSE a + 1
  <2> DEFINE names == byTemplate'[t]
             x == names[i]
  <2>1. names \in Seq(Instances) /\ Contains(names, x)
    BY <1>8 DEF Contains
  <2>2. Occurrences(names, x) # 0
    BY <2>1, OccurrencesTyped
  <2>3. Contains(order', x)
    BY <2>2, <1>10, <1>11
  <2>4. PICK a \in 1..(Len(order) - 1) : order'[a] = x
    BY <2>3, <1>3 DEF Contains
  <2>5. Spot(order', x) = a
    BY <2>4, <1>3, <1>5
  <2>6. Spot(order, x) = IF a < p THEN a ELSE a + 1
    <3>1. CASE a < p
      BY <3>1, <2>4, <1>3, <1>4 DEF Placed
    <3>2. CASE ~(a < p)
      <4>1. a + 1 \in 1..Len(order) /\ order[a + 1] = x
        BY <3>2, <2>4, <1>3, <1>4 DEF Placed
      <4> QED
        BY <4>1, <3>2, <1>4 DEF Placed
    <3> QED
      BY <3>1, <3>2
  <2> QED
    BY <2>5, <2>6
<1>12. ASSUME NEW t \in Templates,
              NEW i \in DOMAIN byTemplate'[t], NEW j \in DOMAIN byTemplate'[t],
              i < j, byTemplate'[t][i] \in StableNames, byTemplate'[t][j] \in StableNames
       PROVE  Spot(order', byTemplate'[t][i]) <= Spot(order', byTemplate'[t][j])
  <2> DEFINE x == byTemplate'[t][i]
             y == byTemplate'[t][j]
  <2>1. PICK k \in DOMAIN byTemplate[t], l \in DOMAIN byTemplate[t] :
           k < l /\ byTemplate[t][k] = x /\ byTemplate[t][l] = y
    BY <1>8, <1>12 DEF InOrderOf
  <2>2. Spot(order, x) <= Spot(order, y)
    <3>1. k \in DOMAIN byTemplate[t] /\ l \in DOMAIN byTemplate[t] /\ k < l
      BY <2>1
    <3>2. byTemplate[t][k] \in StableNames /\ byTemplate[t][l] \in StableNames
      BY <2>1, <1>12
    <3>3. Position(byTemplate[t][k]) <= Position(byTemplate[t][l])
      BY <3>1, <3>2 DEF IndexInv, IndexFollowsOrder
    <3> QED
      BY <3>3, <2>1, PositionIsSpot
  <2>3. PICK a \in 1..(Len(order) - 1) :
           Spot(order', x) = a /\ Spot(order, x) = IF a < p THEN a ELSE a + 1
    BY <1>11, <1>12
  <2>4. PICK c \in 1..(Len(order) - 1) :
           Spot(order', y) = c /\ Spot(order, y) = IF c < p THEN c ELSE c + 1
    BY <1>11, <1>12
  <2> HIDE DEF x, y
  <2>5. a <= c
    BY <2>2, <2>3, <2>4
  <2> QED
    BY <2>3, <2>4, <2>5 DEF x, y
<1>13. IndexFollowsOrder'
  BY <1>10, <1>12, Zenon DEF IndexFollowsOrder, Position, Spot, StableNames
<1> QED
  BY <1>9, <1>13

LEMMA ReadvertiseKeepsIndex ==
    ASSUME IndexInv, NEW b \in Changing, NEW list \in Lists, Readvertise(b, list)
    PROVE  IndexTyped' /\ IndexFollowsOrder'
<1>1. /\ supported' = [supported EXCEPT ![b] = list]
      /\ providers' = providers /\ order' = order /\ byTemplate' = byTemplate
  BY DEF Readvertise
<1>2. b \in Backends
  BY ListsAssumption
<1>3. IndexTyped'
  BY <1>1, <1>2 DEF IndexInv, IndexTyped
<1>4. ASSUME NEW x \in StableNames, Contains(order, x)
      PROVE  supported'[providers[x]] = supported[providers[x]]
  <2>1. x \in ToSet(order) /\ providers[x] \in Backends
    BY <1>4, StableTyped DEF Contains, ToSet, IndexInv, OrderInv, OrderTyped, OrderMatchesMap
  <2>2. Desc[providers[x]].name = x
    BY <2>1 DEF IndexInv, OrderInv, OrderMatchesMap
  <2>3. providers[x] # b
    BY <2>2 DEF StableNames
  <2> QED
    BY <2>1, <2>3, <1>1 DEF IndexInv, IndexTyped
<1>5. ASSUME NEW t \in Templates, NEW x \in StableNames
      PROVE  Occurrences(byTemplate'[t], x) = IF Contains(order', x)
                                              THEN Occurrences(supported'[providers'[x]], t)
                                              ELSE 0
  BY <1>1, <1>4 DEF IndexInv, IndexFollowsOrder
<1>6. ASSUME NEW t \in Templates,
             NEW i \in DOMAIN byTemplate'[t], NEW j \in DOMAIN byTemplate'[t],
             i < j, byTemplate'[t][i] \in StableNames, byTemplate'[t][j] \in StableNames
      PROVE  Spot(order', byTemplate'[t][i]) <= Spot(order', byTemplate'[t][j])
  BY <1>1, <1>6, PositionIsSpot DEF IndexInv, IndexFollowsOrder
<1>7. IndexFollowsOrder'
  BY <1>5, <1>6, Zenon DEF IndexFollowsOrder, Position, Spot, StableNames
<1> QED
  BY <1>3, <1>7

LEMMA NextKeepsIndex == IndexInv /\ [Next]_vars => IndexInv'
<1> SUFFICES ASSUME IndexInv, [Next]_vars PROVE IndexTyped' /\ IndexFollowsOrder'
  BY NextKeepsOrder DEF IndexInv
<1>1. OrderInv'
  BY NextKeepsOrder DEF IndexInv
<1>2. ASSUME NEW b \in Backends, Register(b) PROVE IndexTyped' /\ IndexFollowsOrder'
  BY <1>1, <1>2, RegisterKeepsIndex
<1>3. ASSUME NEW n \in Instances, RemoveBackend(n) PROVE IndexTyped' /\ IndexFollowsOrder'
  BY <1>1, <1>3, RemoveKeepsIndex
<1>4. ASSUME NEW b \in Changing, NEW list \in Lists, Readvertise(b, list)
      PROVE  IndexTyped' /\ IndexFollowsOrder'
  BY <1>4, ReadvertiseKeepsIndex
<1>5. ASSUME UNCHANGED vars PROVE IndexTyped' /\ IndexFollowsOrder'
  BY <1>5 DEF vars, IndexInv, IndexTyped, IndexFollowsOrder, Position
<1> QED
  BY <1>2, <1>3, <1>4, <1>5 DEF Next

LEMMA IndexInvariant == Spec => []IndexInv
  BY InitIndex, NextKeepsIndex, PTL DEF Spec

(* The map holds backends, the order and every list of the index are        *)
(* sequences of names, however Register and Remove alternate.               *)
THEOREM RegistryTyped == Spec => []TypeOK
<1>1. IndexInv => TypeOK
  BY DEF IndexInv, OrderInv, OrderTyped, IndexTyped, TypeOK
<1> QED
  BY <1>1, IndexInvariant, PTL

(* registry.go, byTemplate ("same as order"): for backends that repeat      *)
(* themselves, the index has a name as often as its backend advertises the  *)
(* template, in registration order, after any registrations and removals.   *)
THEOREM IndexInOrder == Spec => []IndexFollowsOrder
<1>1. IndexInv => IndexFollowsOrder
  BY DEF IndexInv
<1> QED
  BY <1>1, IndexInvariant, PTL

-----------------------------------------------------------------------------
(* Match. *)

(* Get returns the backend registered under a name, and the name is its own. *)
LEMMA GetIsRegistered ==
    ASSUME OrderInv, NEW n \in Instances, providers[n] # NoBackend
    PROVE  providers[n] \in Backends /\ Desc[providers[n]].name = n /\ Get(n) = {providers[n]}
<1>1. n \in ToSet(order)
  BY DEF OrderInv, OrderMatchesMap
<1> QED
  BY <1>1 DEF OrderInv, OrderTyped, OrderMatchesMap, Get

LEMMA IndexNames ==
    ASSUME IndexTyped, NEW t \in Templates
    PROVE  /\ byTemplate[t] \in Seq(Instances)
           /\ Len(byTemplate[t]) \in Nat
           /\ DOMAIN byTemplate[t] = 1..Len(byTemplate[t])
           /\ \A i \in DOMAIN byTemplate[t] : byTemplate[t][i] \in Instances
<1>1. byTemplate[t] \in Seq(Instances)
  BY DEF IndexTyped
<1> QED
  BY <1>1

LEMMA MatchSound == OrderInv /\ IndexTyped => MatchIsSound
<1> SUFFICES ASSUME OrderInv, IndexTyped,
                    NEW q \in Asked, NEW t \in Templates,
                    NEW n \in Instances \union {NoInstance}, NEW b \in MatchNow(n, q, t)
             PROVE  /\ Get(Desc[b].name) = {b}
                    /\ EligibleNow(b, q, t)
                    /\ n # NoInstance => Desc[b].name = n
  BY DEF MatchIsSound
<1>1. CASE n = NoInstance
  <2>1. PICK i \in DOMAIN byTemplate[t] :
           b = providers[byTemplate[t][i]] /\ Group(providers[byTemplate[t][i]], q, t) < 3
    BY <1>1 DEF MatchNow
  <2>2. b # NoBackend /\ EligibleNow(b, q, t)
    BY <2>1 DEF Group
  <2>3. byTemplate[t][i] \in Instances
    BY IndexNames
  <2> QED
    BY <1>1, <2>1, <2>2, <2>3, GetIsRegistered
<1>2. CASE n # NoInstance
  <2>1. b \in Get(n) /\ EligibleNow(b, q, t) /\ n \in Instances
    BY <1>2 DEF MatchNow
  <2>2. b = providers[n] /\ b # NoBackend
    BY <2>1 DEF Get
  <2> QED
    BY <2>1, <2>2, GetIsRegistered
<1> QED
  BY <1>1, <1>2

(* registry.Match: with or without a pin, whatever the index says and       *)
(* whatever the backends return from one call to the next, the backend it   *)
(* returns is the one registered under its name, advertises the template    *)
(* now and meets the requirements, and is the pinned one if there is a pin. *)
THEOREM MatchSafe == Spec => []MatchIsSound
<1>1. IndexInv => OrderInv /\ IndexTyped
  BY DEF IndexInv
<1> QED
  BY <1>1, MatchSound, IndexInvariant, PTL

(* What a stable backend advertises now is what it has always advertised.   *)
LEMMA StableAdvertises ==
    ASSUME IndexTyped, NEW b \in Backends, Desc[b].name \in StableNames, NEW t, NEW q
    PROVE  /\ SupportsNow(b, t) <=> Advertises(b, t)
           /\ EligibleNow(b, q, t) <=> Eligible(b, q, t)
<1>1. b \notin Changing
  BY DEF StableNames
<1>2. supported[b] = FirstList[b] /\ FirstList[b] \in Seq(Templates)
  BY <1>1, ListsAssumption DEF IndexTyped
<1>3. ToSet(FirstList[b]) = Desc[b].advertises
  BY ListsAssumption
<1>4. SupportsNow(b, t) <=> Advertises(b, t)
  BY <1>2, <1>3 DEF SupportsNow, Advertises, Contains, ToSet
<1> QED
  BY <1>4 DEF EligibleNow, Eligible

LEMMA PinnedAgrees ==
    ASSUME IndexInv, NEW q, NEW t \in Templates, NEW n \in Instances, n \in StableNames
    PROVE  MatchNow(n, q, t) = Match(List, n, q, t)
<1>1. n # NoInstance
  BY BackendAssumption
<1>2. OrderInv /\ IndexTyped /\ ListOfOrder
  BY ListTyped DEF IndexInv
<1>3. ASSUME NEW b
      PROVE  b \in Get(n) <=> b \in Registered(List, n)
  <2>1. ASSUME b \in Get(n) PROVE b \in Registered(List, n)
    <3>1. b = providers[n] /\ b # NoBackend
      BY <2>1 DEF Get
    <3>2. b \in Backends /\ Desc[b].name = n
      BY <3>1, <1>2, GetIsRegistered
    <3>3. n \in ToSet(order)
      BY <3>1, <1>2 DEF OrderInv, OrderMatchesMap
    <3>4. PICK i \in 1..Len(order) : order[i] = n
      BY <3>3, <1>2 DEF ToSet, OrderInv, OrderTyped
    <3>5. i \in DOMAIN List /\ List[i] = b
      BY <3>1, <3>4, <1>2 DEF ListOfOrder
    <3> QED
      BY <3>2, <3>5 DEF Registered
  <2>2. ASSUME b \in Registered(List, n) PROVE b \in Get(n)
    <3>1. b \in Backends /\ Desc[b].name = n
      BY <2>2 DEF Registered
    <3>2. PICK i \in DOMAIN List : List[i] = b
      BY <2>2 DEF Registered
    <3>3. i \in 1..Len(order) /\ providers[order[i]] = b
      BY <3>2, <1>2 DEF ListOfOrder
    <3>4. order[i] \in ToSet(order) /\ order[i] \in Instances
      BY <3>3, <1>2 DEF ToSet, OrderInv, OrderTyped
    <3>5. order[i] = n
      BY <3>1, <3>3, <3>4, <1>2 DEF OrderInv, OrderMatchesMap
    <3> QED
      BY <3>1, <3>3, <3>5, BackendAssumption DEF Get
  <2> QED
    BY <2>1, <2>2
<1>4. ASSUME NEW b \in Registered(List, n)
      PROVE  EligibleNow(b, q, t) <=> Eligible(b, q, t)
  BY <1>2, StableAdvertises DEF Registered
<1>5. MatchNow(n, q, t) = {b \in Get(n) : EligibleNow(b, q, t)}
  BY <1>1 DEF MatchNow
<1>6. Match(List, n, q, t) = {b \in Registered(List, n) : Eligible(b, q, t)}
  BY <1>1 DEF Match, MatchPinned
<1> QED
  BY <1>3, <1>4, <1>5, <1>6

(* Without a pin: the index, when every name in sight is stable, is the     *)
(* order, restricted to the backends that advertise the template, with      *)
(* repetitions; so the first of the best group is the same in both.         *)
LEMMA UnpinnedAgrees ==
    ASSUME IndexInv, NEW q, NEW t \in Templates,
           ToSet(order) \subseteq StableNames, ToSet(byTemplate[t]) \subseteq StableNames
    PROVE  MatchNow(NoInstance, q, t) = Match(List, NoInstance, q, t)
<1> DEFINE names == byTemplate[t]
           at(i) == Spot(order, names[i])
           g(p) == RankGroup(List[p], q, t)
           group(i) == Group(providers[names[i]], q, t)
<1>1. OrderInv /\ IndexTyped /\ IndexFollowsOrder /\ ListOfOrder /\ Placed
  BY ListTyped, OrderPlaces DEF IndexInv
<1>2. /\ names \in Seq(Instances)
      /\ Len(names) \in Nat
      /\ DOMAIN names = 1..Len(names)
      /\ \A i \in DOMAIN names : names[i] \in Instances /\ names[i] \in StableNames
  BY <1>1, IndexNames DEF ToSet
<1>3. /\ Len(order) \in Nat
      /\ DOMAIN order = 1..Len(order)
      /\ DOMAIN List = 1..Len(order)
      /\ \A p \in 1..Len(order) : /\ List[p] = providers[order[p]]
                                  /\ List[p] \in Backends
                                  /\ List[p] # NoBackend
                                  /\ order[p] \in StableNames
                                  /\ Desc[List[p]].name = order[p]
                                  /\ Spot(order, order[p]) = p
  <2>1. \A p \in 1..Len(order) : order[p] \in ToSet(order)
    BY <1>1 DEF Placed, ToSet
  <2>2. \A p \in 1..Len(order) : List[p] = providers[order[p]] /\ Desc[List[p]].name = order[p]
    BY <2>1, <1>1 DEF OrderInv, OrderMatchesMap, ListOfOrder
  <2>3. \A p \in 1..Len(order) : List[p] \in Backends
    BY <1>1 DEF ListOfOrder
  <2> QED
    BY <2>1, <2>2, <2>3, <1>1, BackendAssumption DEF Placed, ListOfOrder
<1>4. ASSUME NEW i \in DOMAIN names
      PROVE  at(i) \in 1..Len(order) /\ order[at(i)] = names[i]
  <2>1. PICK p \in 1..Len(order) : order[p] = names[i]
    BY <1>2, StableRegistered
  <2> QED
    BY <2>1, <1>3
<1>5. ASSUME NEW p \in 1..Len(order)
      PROVE  Group(providers[order[p]], q, t) = g(p)
  <2>1. EligibleNow(List[p], q, t) <=> Eligible(List[p], q, t)
    BY <1>1, <1>3, StableAdvertises
  <2> QED
    BY <2>1, <1>3 DEF Group, RankGroup
<1>6. ASSUME NEW i \in DOMAIN names PROVE group(i) = g(at(i))
  BY <1>4, <1>5
<1>7. ASSUME NEW i \in DOMAIN names, NEW j \in DOMAIN names, i < j PROVE at(i) <= at(j)
  BY <1>1, <1>2, <1>7, PositionIsSpot DEF IndexFollowsOrder
<1>8. ASSUME NEW p \in 1..Len(order), Eligible(List[p], q, t)
      PROVE  \E i \in DOMAIN names : names[i] = order[p]
  <2>1. supported[List[p]] \in Seq(Templates)
    BY <1>1, <1>3, ListTypes
  <2>2. Contains(supported[List[p]], t)
    BY <1>1, <1>3, <1>8, StableAdvertises DEF EligibleNow, SupportsNow
  <2>3. Occurrences(supported[List[p]], t) # 0
    BY <2>1, <2>2, OccurrencesTyped
  <2>4. Contains(order, order[p])
    BY DEF Contains
  <2>5. Occurrences(names, order[p]) = Occurrences(supported[providers[order[p]]], t)
    BY <1>1, <1>3, <2>4 DEF IndexFollowsOrder
  <2>6. Contains(names, order[p])
    BY <2>3, <2>5, <1>2, <1>3, OccurrencesTyped
  <2> QED
    BY <2>6, <1>2 DEF Contains
<1>9. \A p \in 1..Len(order) : /\ g(p) \in {1, 2, 3}
                               /\ g(p) < 3 <=> Eligible(List[p], q, t)
  BY DEF RankGroup
<1> HIDE DEF names, at, g, group
<1> DEFINE first(i) == /\ group(i) < 3
                       /\ \A j \in DOMAIN names :
                            group(i) < group(j) \/ (group(i) = group(j) /\ i <= j)
           best(p) == /\ Eligible(List[p], q, t)
                      /\ \A r \in (1..Len(order)) \ {p} : g(p) < g(r) \/ (g(p) = g(r) /\ p < r)
<1>10. ASSUME NEW i \in DOMAIN names, first(i) PROVE best(at(i))
  <2>1. at(i) \in 1..Len(order) /\ group(i) = g(at(i)) /\ group(i) < 3
    BY <1>4, <1>6, <1>10
  <2>2. ASSUME NEW r \in (1..Len(order)) \ {at(i)}
        PROVE  g(at(i)) < g(r) \/ (g(at(i)) = g(r) /\ at(i) < r)
    <3>1. CASE ~Eligible(List[r], q, t)
      BY <3>1, <2>1, <1>9
    <3>2. CASE Eligible(List[r], q, t)
      <4>1. PICK j \in DOMAIN names : names[j] = order[r]
        BY <3>2, <1>8
      <4>2. at(j) = r
        BY <4>1, <1>3 DEF at
      <4>3. group(j) = g(r)
        BY <4>2, <1>6
      <4>4. group(i) < group(j) \/ (group(i) = group(j) /\ i <= j)
        BY <1>10
      <4>5. i < j => at(i) <= r
        BY <4>2, <1>7
      <4>6. i # j
        BY <4>2
      <4>7. i \in Nat /\ j \in Nat
        BY <1>2
      <4> QED
        BY <2>1, <4>3, <4>4, <4>5, <4>6, <4>7
    <3> QED
      BY <3>1, <3>2
  <2> QED
    BY <2>1, <2>2, <1>9
<1>11. ASSUME NEW p \in 1..Len(order), best(p)
       PROVE  \E i \in DOMAIN names : names[i] = order[p] /\ first(i)
  <2> DEFINE I == {i \in DOMAIN names : names[i] = order[p]}
  <2>1. I \subseteq Nat /\ I # {}
    BY <1>2, <1>8, <1>11
  <2>2. PICK i \in I : \A j \in I : i <= j
    BY <2>1, LeastNat
  <2>3. i \in DOMAIN names /\ names[i] = order[p] /\ i \in Nat
    BY <2>1
  <2>4. at(i) = p /\ group(i) = g(p)
    BY <2>3, <1>3, <1>6 DEF at
  <2>5. ASSUME NEW j \in DOMAIN names
        PROVE  group(i) < group(j) \/ (group(i) = group(j) /\ i <= j)
    <3>1. at(j) \in 1..Len(order) /\ order[at(j)] = names[j] /\ group(j) = g(at(j))
      BY <1>4, <1>6
    <3>2. CASE at(j) = p
      <4>1. j \in I
        BY <3>1, <3>2
      <4> QED
        BY <4>1, <2>2, <2>4, <3>1, <3>2
    <3>3. CASE at(j) # p
      <4>1. g(p) < g(at(j)) \/ (g(p) = g(at(j)) /\ p < at(j))
        BY <3>1, <3>3, <1>11
      <4>2. j < i => at(j) <= p
        BY <2>3, <2>4, <1>7
      <4>3. j \in Nat
        BY <1>2
      <4> QED
        BY <4>1, <4>2, <4>3, <2>3, <2>4, <3>1
    <3> QED
      BY <3>2, <3>3
  <2>6. group(i) < 3
    BY <2>4, <1>9, <1>11
  <2> QED
    BY <2>3, <2>5, <2>6
<1>12. MatchNow(NoInstance, q, t) = {providers[names[i]] : i \in {k \in DOMAIN names : first(k)}}
  BY DEF MatchNow, names, group
<1>13. \A b : b \in Match(List, NoInstance, q, t) <=>
                \E p \in 1..Len(order) : List[p] = b /\ best(p)
  BY <1>3 DEF Match, MatchFirst, RanksBefore, g
<1> HIDE DEF first, best
<1>14. ASSUME NEW b
       PROVE  b \in MatchNow(NoInstance, q, t) <=> b \in Match(List, NoInstance, q, t)
  <2>1. ASSUME b \in MatchNow(NoInstance, q, t) PROVE b \in Match(List, NoInstance, q, t)
    <3>1. PICK i \in DOMAIN names : first(i) /\ b = providers[names[i]]
      BY <2>1, <1>12
    <3>2. at(i) \in 1..Len(order) /\ best(at(i)) /\ List[at(i)] = b
      BY <3>1, <1>3, <1>4, <1>10
    <3> QED
      BY <3>2, <1>13
  <2>2. ASSUME b \in Match(List, NoInstance, q, t) PROVE b \in MatchNow(NoInstance, q, t)
    <3>1. PICK p \in 1..Len(order) : List[p] = b /\ best(p)
      BY <2>2, <1>13
    <3>2. PICK i \in DOMAIN names : names[i] = order[p] /\ first(i)
      BY <3>1, <1>11
    <3>3. b = providers[names[i]]
      BY <3>1, <3>2, <1>3
    <3> QED
      BY <3>2, <3>3, <1>12
  <2> QED
    BY <2>1, <2>2
<1> QED
  BY <1>14, Zenon

(* registry.Match, reading the index by template, returns what ranking all  *)
(* registered backends in registration order would: the operator by which   *)
(* the orchestrators' modules choose a backend.  (As long as the names it   *)
(* sees belong to backends that repeat themselves.)                         *)
THEOREM IndexMatchAgrees == Spec => []MatchAgrees
<1>1. IndexInv => MatchAgrees
  <2> SUFFICES ASSUME IndexInv,
                      NEW q \in Asked, NEW t \in Templates,
                      NEW n \in Instances \union {NoInstance},
                      (IF n = NoInstance THEN ToSet(order) \union ToSet(byTemplate[t]) ELSE {n})
                          \subseteq StableNames
               PROVE  MatchNow(n, q, t) = Match(List, n, q, t)
    BY DEF MatchAgrees
  <2>1. CASE n = NoInstance
    BY <2>1, UnpinnedAgrees
  <2>2. CASE n # NoInstance
    BY <2>2, PinnedAgrees
  <2> QED
    BY <2>1, <2>2
<1> QED
  BY <1>1, IndexInvariant, PTL

=============================================================================
