---------------------------- MODULE Documents_proofs ----------------------------
(***************************************************************************)
(* Proofs about Documents, ReadingOrder and Evidence, for any pages, any   *)
(* answers of the model and of the OCR engine, and any thresholds: what    *)
(* the resolver finds is there, what it does not find is not; offsets,     *)
(* pages and claims of a row belong to the text it holds; the regions of a *)
(* page hold each of its words once, and a box that is kept is the box of  *)
(* the character it is kept under.                                         *)
(***************************************************************************)
EXTENDS Documents, FiniteSetTheorems, SequenceTheorems, TLAPS

-----------------------------------------------------------------------------
(* Indices in order, and what is picked by them. *)

\* f lists the numbers of `at` upwards, each once.
Lists(f, n, at) ==
    /\ n \in Nat
    /\ f \in [1 .. n -> at]
    /\ \A k, l \in 1 .. n : k < l => f[k] < f[l]
    /\ \A i \in at : \E k \in 1 .. n : f[k] = i

\* How many of `at` are at or before i.
Rank(i, at) == Cardinality({j \in at : j <= i})

\* Ranks number the members of a set from 1 up, in their order.
LEMMA RanksGrow ==
    ASSUME NEW at \in SUBSET Int, IsFiniteSet(at)
    PROVE  /\ \A i \in at : Rank(i, at) \in 1 .. Cardinality(at)
           /\ \A i, j \in at : i < j => Rank(i, at) < Rank(j, at)
  <1> DEFINE Upto(i) == {j \in at : j <= i}
  <1>1. ASSUME NEW i \in at
        PROVE  /\ IsFiniteSet(Upto(i)) /\ Cardinality(Upto(i)) \in Nat
               /\ Cardinality(Upto(i)) # 0 /\ Cardinality(Upto(i)) <= Cardinality(at)
    <2>1. Upto(i) \in SUBSET at /\ i \in Upto(i)
      OBVIOUS
    <2>2. IsFiniteSet(Upto(i)) /\ Cardinality(Upto(i)) <= Cardinality(at)
      BY <2>1, FS_Subset
    <2>3. Cardinality(Upto(i)) \in Nat /\ Cardinality(Upto(i)) # 0
      BY <2>1, <2>2, FS_CardinalityType, FS_EmptySet
    <2> QED
      BY <2>2, <2>3
  <1>2. ASSUME NEW i \in at, NEW j \in at, i < j
        PROVE  Cardinality(Upto(i)) < Cardinality(Upto(j))
    <2>0. i \in Int /\ j \in Int /\ \A m \in at : m \in Int
      OBVIOUS
    <2>1. \A m \in Upto(i) : m \in Upto(j)
      BY <1>2, <2>0
    <2>2. j \in Upto(j) /\ j \notin Upto(i)
      BY <1>2, <2>0
    <2>3. Upto(i) \in SUBSET Upto(j) /\ Upto(i) # Upto(j)
      <3> HIDE DEF Upto
      <3> QED
        BY <2>1, <2>2
    <2>4. /\ Cardinality(Upto(i)) <= Cardinality(Upto(j))
          /\ Cardinality(Upto(i)) # Cardinality(Upto(j))
      BY <1>1, <2>3, FS_Subset
    <2>5. Cardinality(Upto(i)) \in Nat /\ Cardinality(Upto(j)) \in Nat
      BY <1>1
    <2> HIDE DEF Upto
    <2> QED
      BY <2>4, <2>5
  <1>3. Cardinality(at) \in Nat
    BY FS_CardinalityType
  <1>4. \A i \in at : Rank(i, at) = Cardinality(Upto(i))
    BY DEF Rank
  <1> HIDE DEF Upto
  <1> QED
    BY <1>1, <1>2, <1>3, <1>4

\* Counting gives every index a place of its own and leaves no place free.
LEMMA OrderedLists ==
    ASSUME NEW at \in SUBSET Int, IsFiniteSet(at)
    PROVE  /\ Lists(Ordered(at), Cardinality(at), at)
           /\ \A i \in at : Rank(i, at) \in 1 .. Cardinality(at) /\ Ordered(at)[Rank(i, at)] = i
  <1> DEFINE n == Cardinality(at)
             rank == [i \in at |-> Rank(i, at)]
             order == Ordered(at)
  <1>1. n \in Nat
    BY FS_CardinalityType
  <1>2. /\ \A i \in at : Rank(i, at) \in 1 .. n
        /\ \A i, j \in at : i < j => Rank(i, at) < Rank(j, at)
    BY RanksGrow
  <1>3. ASSUME NEW i \in at, NEW j \in at, Rank(i, at) = Rank(j, at) PROVE i = j
    <2>1. ~(Rank(i, at) < Rank(j, at)) /\ ~(Rank(j, at) < Rank(i, at))
      BY <1>1, <1>2, <1>3
    <2> QED
      BY <1>2, <2>1
  <1>4. rank \in Injection(at, 1 .. n)
    BY <1>2, <1>3 DEF Injection, IsInjective
  <1>5. IsFiniteSet(1 .. n) /\ Cardinality(1 .. n) = n
    BY <1>1, FS_Interval
  <1>6. rank \in Surjection(at, 1 .. n)
    <2> HIDE DEF rank
    <2> QED
      BY <1>4, <1>5, FS_Injection
  <1>7. \A k \in 1 .. n : \E i \in at : Rank(i, at) = k
    BY <1>6 DEF Surjection
  <1>8. order = [k \in 1 .. n |-> CHOOSE i \in at : Rank(i, at) = k]
    BY DEF Ordered, Rank
  <1> HIDE DEF order, n, rank
  <1>9. \A k \in 1 .. n : order[k] \in at /\ Rank(order[k], at) = k
    BY <1>7, <1>8
  <1>10. \A i \in at : Rank(i, at) \in 1 .. n /\ order[Rank(i, at)] = i
    BY <1>2, <1>3, <1>9
  <1>11. ASSUME NEW k \in 1 .. n, NEW l \in 1 .. n, k < l PROVE order[k] < order[l]
    <2>1. order[k] \in Int /\ order[l] \in Int /\ order[k] \in at /\ order[l] \in at
      BY <1>9
    <2>2. order[l] < order[k] => l < k
      BY <1>2, <1>9, <2>1
    <2>3. order[l] = order[k] => l = k
      BY <1>9
    <2> QED
      BY <1>1, <1>11, <2>1, <2>2, <2>3
  <1>12. order \in [1 .. n -> at]
    BY <1>8, <1>9
  <1>13. Lists(order, n, at)
    BY <1>1, <1>10, <1>11, <1>12 DEF Lists
  <1> QED
    BY <1>10, <1>13 DEF order, n

\* There is one such list.
LEMMA OneList ==
    ASSUME NEW at \in SUBSET Int, NEW n, NEW f, Lists(f, n, at)
    PROVE  IsFiniteSet(at) /\ n = Cardinality(at) /\ f = Ordered(at)
  <1>1. /\ n \in Nat /\ f \in [1 .. n -> at]
        /\ \A k \in 1 .. n : f[k] \in Int /\ f[k] \in at
        /\ \A k, l \in 1 .. n : k < l => f[k] < f[l]
        /\ \A i \in at : \E k \in 1 .. n : f[k] = i
    BY DEF Lists
  <1>2. ASSUME NEW k \in 1 .. n, NEW l \in 1 .. n, f[l] <= f[k] PROVE l <= k
    <2>1. k \in Nat /\ l \in Nat /\ (k < l => f[k] < f[l]) /\ f[k] \in Int /\ f[l] \in Int
      BY <1>1
    <2> QED
      BY <1>2, <2>1
  <1>3. ASSUME NEW k \in 1 .. n, NEW l \in 1 .. n, l <= k PROVE f[l] <= f[k]
    <2>1. k \in Nat /\ l \in Nat /\ (l < k => f[l] < f[k]) /\ f[k] \in Int /\ f[l] \in Int
      BY <1>1
    <2> QED
      BY <1>3, <2>1
  <1>4. f \in Bijection(1 .. n, at)
    <2>1. \A k, l \in 1 .. n : f[k] = f[l] => k = l
      <3> SUFFICES ASSUME NEW k \in 1 .. n, NEW l \in 1 .. n, f[k] = f[l] PROVE k = l
        OBVIOUS
      <3>1. f[k] <= f[l] /\ f[l] <= f[k] /\ k \in Nat /\ l \in Nat
        BY <1>1
      <3> QED
        BY <1>2, <3>1
    <2> QED
      BY <1>1, <2>1 DEF Bijection, Injection, IsInjective, Surjection
  <1>5. IsFiniteSet(1 .. n) /\ Cardinality(1 .. n) = n
    BY <1>1, FS_Interval
  <1>6. IsFiniteSet(at) /\ Cardinality(at) = n
    BY <1>4, <1>5, FS_Surjection DEF Bijection
  <1>7. ASSUME NEW k \in 1 .. n PROVE Rank(f[k], at) = k
    <2> DEFINE g == [l \in 1 .. k |-> f[l]]
               Upto == {j \in at : j <= f[k]}
    <2>1. k \in Nat /\ 1 .. k \subseteq 1 .. n
      BY <1>1
    <2>2. \A l \in 1 .. k : g[l] \in Upto
      BY <1>1, <1>3, <2>1
    <2>3. \A j \in Upto : \E l \in 1 .. k : g[l] = j
      <3> TAKE j \in Upto
      <3>1. PICK l \in 1 .. n : f[l] = j
        BY <1>1
      <3>2. l <= k
        BY <1>2, <3>1
      <3>3. l \in 1 .. k
        BY <1>1, <2>1, <3>2
      <3> QED
        BY <3>1, <3>3
    <2>4. \A l, m \in 1 .. k : g[l] = g[m] => l = m
      BY <1>4, <2>1 DEF Bijection, Injection, IsInjective
    <2>5. g \in Bijection(1 .. k, Upto)
      <3> HIDE DEF Upto
      <3>1. g \in [1 .. k -> Upto]
        BY <2>2
      <3> HIDE DEF g
      <3> QED
        BY <2>3, <2>4, <3>1 DEF Bijection, Injection, IsInjective, Surjection
    <2>6. IsFiniteSet(1 .. k) /\ Cardinality(1 .. k) = k
      BY <2>1, FS_Interval
    <2>7. Cardinality(Upto) = k
      <3> HIDE DEF g, Upto
      <3> QED
        BY <2>5, <2>6, FS_Surjection DEF Bijection
    <2> QED
      BY <2>7 DEF Rank
  <1>8. /\ Ordered(at) \in [1 .. n -> at]
        /\ \A i \in at : Ordered(at)[Rank(i, at)] = i
    BY <1>6, OrderedLists DEF Lists
  <1>9. \A k \in 1 .. n : Ordered(at)[k] = f[k]
    BY <1>1, <1>7, <1>8
  <1> QED
    BY <1>1, <1>6, <1>8, <1>9

\* The first and the last on a list are the least and the greatest.
LEMMA ListEnds ==
    ASSUME NEW at \in SUBSET Int, at # {}, NEW n, NEW f, Lists(f, n, at)
    PROVE  /\ 1 \in 1 .. n /\ n \in 1 .. n /\ Min(at) = f[1] /\ Max(at) = f[n]
           /\ \A i \in at : f[1] <= i /\ i <= f[n]
  <1>1. /\ n \in Nat /\ \A k \in 1 .. n : f[k] \in at /\ f[k] \in Int
        /\ \A k, l \in 1 .. n : k < l => f[k] < f[l]
        /\ \A i \in at : i \in Int /\ \E k \in 1 .. n : f[k] = i
    BY DEF Lists
  <1>2. 1 \in 1 .. n /\ n \in 1 .. n
    <2>1. PICK k \in 1 .. n : TRUE
      BY <1>1
    <2> QED
      BY <1>1, <2>1
  <1>3. ASSUME NEW i \in at PROVE f[1] <= i /\ i <= f[n]
    <2>1. PICK k \in 1 .. n : f[k] = i
      BY <1>1
    <2>2. (k = 1 \/ f[1] < f[k]) /\ (k = n \/ f[k] < f[n])
      BY <1>1, <1>2
    <2> QED
      BY <1>1, <1>2, <2>1, <2>2
  <1>4. ASSUME NEW x \in at, \A i \in at : x <= i PROVE x = f[1]
    BY <1>1, <1>2, <1>3, <1>4
  <1>5. ASSUME NEW x \in at, \A i \in at : x >= i PROVE x = f[n]
    BY <1>1, <1>2, <1>3, <1>5
  <1>6. f[1] \in at /\ \A i \in at : f[1] <= i
    BY <1>1, <1>2, <1>3
  <1>7. f[n] \in at /\ \A i \in at : f[n] >= i
    BY <1>1, <1>2, <1>3
  <1>8. Min(at) = f[1]
    BY <1>4, <1>6 DEF Min
  <1>9. Max(at) = f[n]
    BY <1>5, <1>7 DEF Max
  <1> QED
    BY <1>2, <1>3, <1>8, <1>9

\* The indices of a sequence are finitely many numbers.
LEMMA IndicesAreFinite ==
    ASSUME NEW m \in Nat, NEW at \in SUBSET (1 .. m)
    PROVE  /\ at \in SUBSET Nat /\ IsFiniteSet(at) /\ Cardinality(at) \in Nat
           /\ Lists(Ordered(at), Cardinality(at), at)
  <1>1. at \in SUBSET Nat
    OBVIOUS
  <1>2. IsFiniteSet(at)
    <2>1. IsFiniteSet(1 .. m)
      BY FS_Interval
    <2> QED
      BY <2>1, FS_Subset
  <1> QED
    BY <1>1, <1>2, FS_CardinalityType, OrderedLists

\* Picking goes by the list of the places.
LEMMA PickedByList ==
    ASSUME NEW seq, NEW at \in SUBSET Int, NEW n, NEW f, Lists(f, n, at)
    PROVE  Picked(seq, at) = [k \in 1 .. n |-> seq[f[k]]]
  BY OneList DEF Picked

\* What is picked from a sequence is one: as long as there are places, each
\* entry from its place.
LEMMA PickedIsSequence ==
    ASSUME NEW S, NEW seq \in Seq(S), NEW at \in SUBSET (1 .. Len(seq))
    PROVE  /\ Picked(seq, at) \in Seq(S)
           /\ Len(Picked(seq, at)) = Cardinality(at)
           /\ Lists(Ordered(at), Cardinality(at), at)
           /\ \A k \in 1 .. Cardinality(at) : /\ Ordered(at)[k] \in at
                                            /\ Picked(seq, at)[k] = seq[Ordered(at)[k]]
  <1> DEFINE n == Cardinality(at)
             f == Ordered(at)
  <1>1. n \in Nat /\ Lists(f, n, at) /\ at \in SUBSET Nat
    <2>1. Len(seq) \in Nat
      OBVIOUS
    <2> QED
      BY <2>1, IndicesAreFinite
  <1> HIDE DEF f, n
  <1>2. Picked(seq, at) = [k \in 1 .. n |-> seq[f[k]]]
    BY <1>1, PickedByList
  <1>3. \A k \in 1 .. n : f[k] \in at /\ seq[f[k]] \in S
    <2>1. \A i \in at : i \in 1 .. Len(seq)
      OBVIOUS
    <2>2. \A i \in 1 .. Len(seq) : seq[i] \in S
      OBVIOUS
    <2> QED
      BY <1>1, <2>1, <2>2 DEF Lists
  <1>4. Picked(seq, at) \in Seq(S) /\ Len(Picked(seq, at)) = n
    BY <1>1, <1>2, <1>3
  <1>5. \A k \in 1 .. n : Picked(seq, at)[k] = seq[f[k]]
    BY <1>2
  <1> QED
    BY <1>1, <1>3, <1>4, <1>5 DEF f, n

-----------------------------------------------------------------------------
(* What is left of a text without its white space. *)

\* Normalising a text makes a text.
LEMMA NFCIsText ==
    ASSUME NEW text \in Texts PROVE NFC(text) \in Texts
  <1> DEFINE marks == {i \in 2 .. Len(text) : text[i] = Mark /\ text[i - 1] = Base}
             composed == [i \in 1 .. Len(text) |-> IF i + 1 \in marks THEN Composed ELSE text[i]]
             at == (1 .. Len(text)) \ marks
  <1>1. composed \in Seq(Characters) /\ Len(composed) = Len(text)
    <2> HIDE DEF marks
    <2> QED
      BY EvidenceAssumption DEF Texts
  <1>2. at \in SUBSET (1 .. Len(composed))
    BY <1>1
  <1>3. NFC(text) = Picked(composed, at)
    BY DEF NFC
  <1> HIDE DEF composed, at
  <1> QED
    BY <1>1, <1>2, <1>3, PickedIsSequence DEF Texts

\* So does removing its U+0000s,
LEMMA WithoutNulIsText ==
    ASSUME NEW text \in Texts PROVE WithoutNul(text) \in Texts
  <1>1. {i \in 1 .. Len(text) : text[i] # Nul} \in SUBSET (1 .. Len(text))
    OBVIOUS
  <1> QED
    BY <1>1, PickedIsSequence DEF WithoutNul, Texts

\* and so do both.
LEMMA PageTextIsText ==
    ASSUME NEW text \in Texts PROVE PageText(text) \in Texts
  BY NFCIsText, WithoutNulIsText DEF PageText

\* The solid places of a text are places of it.
LEMMA SolidIsIndices ==
    ASSUME NEW text \in Texts
    PROVE  /\ Solid(text) \in SUBSET (1 .. Len(text)) /\ Len(text) \in Nat
           /\ Solid(text) \in SUBSET Nat
           /\ \A i \in Nat : i \in Solid(text) <=> i \in 1 .. Len(text) /\ ~IsSpace(text[i])
  BY DEF Solid, Texts

\* Two texts with the same solid characters in the same order, however they
\* are spaced, are one and the same without their spaces.
LEMMA SameSolid ==
    ASSUME NEW t \in Texts, NEW s \in Texts,
           NEW g \in [Solid(t) -> Solid(s)],
           \A i, j \in Solid(t) : i < j => g[i] < g[j],
           \A j \in Solid(s) : \E i \in Solid(t) : g[i] = j,
           \A i \in Solid(t) : s[g[i]] = t[i]
    PROVE  WithoutSpace(s) = WithoutSpace(t)
  <1> DEFINE n == Cardinality(Solid(t))
             order == Ordered(Solid(t))
             f == [k \in 1 .. n |-> g[order[k]]]
  <1>1. n \in Nat /\ Lists(order, n, Solid(t))
    BY SolidIsIndices, IndicesAreFinite
  <1> HIDE DEF order, n
  <1>2. \A k \in 1 .. n : order[k] \in Solid(t) /\ f[k] = g[order[k]] /\ f[k] \in Solid(s)
    BY <1>1 DEF Lists
  <1>3. \A k, l \in 1 .. n : k < l => f[k] < f[l]
    BY <1>1, <1>2 DEF Lists
  <1>4. \A j \in Solid(s) : \E k \in 1 .. n : f[k] = j
    <2> TAKE j \in Solid(s)
    <2>1. PICK i \in Solid(t) : g[i] = j
      OBVIOUS
    <2>2. PICK k \in 1 .. n : order[k] = i
      BY <1>1 DEF Lists
    <2> QED
      BY <1>2, <2>1, <2>2
  <1>5. f \in [1 .. n -> Solid(s)]
    BY <1>2
  <1> HIDE DEF f
  <1>6. Lists(f, n, Solid(s))
    BY <1>1, <1>3, <1>4, <1>5 DEF Lists
  <1>7. WithoutSpace(s) = [k \in 1 .. n |-> s[f[k]]]
    BY <1>6, SolidIsIndices, PickedByList DEF WithoutSpace
  <1>8. WithoutSpace(t) = [k \in 1 .. n |-> t[order[k]]]
    BY <1>1, SolidIsIndices, PickedByList DEF WithoutSpace
  <1>9. \A k \in 1 .. n : s[f[k]] = t[order[k]]
    BY <1>2
  <1> QED
    BY <1>7, <1>8, <1>9

\* A part of a text, by its places.
LEMMA SubSeqFacts ==
    ASSUME NEW t \in Texts, NEW a \in Nat, NEW b \in 0 .. Len(t), a <= b
    PROVE  /\ SubSeq(t, a + 1, b) \in Texts
           /\ Len(SubSeq(t, a + 1, b)) = b - a
           /\ \A i \in 1 .. (b - a) : SubSeq(t, a + 1, b)[i] = t[a + i]
  BY DEF Texts

\* strip takes white space away, and only at the ends.
LEMMA TrimmedKeepsSolid ==
    ASSUME NEW t \in Texts
    PROVE  /\ Trimmed(t) \in Texts
           /\ WithoutSpace(Trimmed(t)) = WithoutSpace(t)
           /\ Trimmed(t) # <<>> => ~IsSpace(Trimmed(t)[1])
  <1> DEFINE n == Cardinality(Solid(t))
             order == Ordered(Solid(t))
             empty == <<>>
  <1>1. n \in Nat /\ Lists(order, n, Solid(t))
    BY SolidIsIndices, IndicesAreFinite
  <1>2. CASE Solid(t) = {}
    <2>1. Trimmed(t) = <<>> /\ <<>> \in Texts
      BY <1>2 DEF Trimmed, Texts
    <2>2. Solid(<<>>) = {}
      BY DEF Solid
    <2>3. WithoutSpace(<<>>) = WithoutSpace(t)
      <3>1. Cardinality({}) = 0 /\ 1 .. 0 = {}
        BY FS_EmptySet
      <3>2. \A x : Picked(x, {}) = [k \in {} |-> x[Ordered({})[k]]]
        BY <3>1 DEF Picked
      <3>3. \A x : Picked(x, {}) = <<>>
        BY <3>2
      <3> QED
        BY <1>2, <2>2, <3>3 DEF WithoutSpace
    <2> QED
      BY <2>1, <2>3
  <1>3. CASE Solid(t) # {}
    <2> DEFINE a == order[1] - 1
               b == order[n]
               s == SubSeq(t, a + 1, b)
               g == [i \in Solid(t) |-> i - a]
    <2> HIDE DEF order, n
    <2>1. /\ order[1] \in Solid(t) /\ order[n] \in Solid(t)
          /\ Min(Solid(t)) = order[1] /\ Max(Solid(t)) = order[n]
          /\ \A i \in Solid(t) : order[1] <= i /\ i <= order[n]
      <3>1. Solid(t) \in SUBSET Nat
        BY SolidIsIndices
      <3>2. /\ 1 \in 1 .. n /\ n \in 1 .. n
            /\ Min(Solid(t)) = order[1] /\ Max(Solid(t)) = order[n]
            /\ \A i \in Solid(t) : order[1] <= i /\ i <= order[n]
        BY <1>1, <1>3, <3>1, ListEnds
      <3> QED
        BY <1>1, <3>2 DEF Lists
    <2>2. /\ a \in Nat /\ b \in 0 .. Len(t) /\ a < b /\ a + 1 = order[1] /\ Len(t) \in Nat
          /\ \A i \in Solid(t) : a + 1 <= i /\ i <= b /\ i \in Nat
      BY <2>1, SolidIsIndices
    <2>3. Trimmed(t) = s
      BY <1>3, <2>1, <2>2 DEF Trimmed
    <2> HIDE DEF a, b
    <2>4. /\ s \in Texts /\ Len(s) = b - a
          /\ \A i \in 1 .. (b - a) : s[i] = t[a + i]
      BY <2>2, SubSeqFacts
    <2> HIDE DEF s
    <2>5. \A i \in Nat : i \in Solid(s) <=> i \in 1 .. (b - a) /\ ~IsSpace(t[a + i])
      BY <2>4, SolidIsIndices
    <2>6. \A i \in Nat : i \in 1 .. (b - a) /\ ~IsSpace(t[a + i]) <=> a + i \in Solid(t) /\ i # 0
      BY <2>2, SolidIsIndices
    <2>7. \A i \in Solid(t) : /\ i - a \in Nat /\ i - a # 0 /\ a + (i - a) = i
                              /\ i - a \in Solid(s) /\ s[i - a] = t[i]
      <3> TAKE i \in Solid(t)
      <3> DEFINE m == i - a
      <3>1. m \in Nat /\ m # 0 /\ a + m = i /\ m \in 1 .. (b - a)
        BY <2>2
      <3> HIDE DEF m
      <3>2. m \in Solid(s) /\ s[m] = t[i]
        BY <2>4, <2>5, <2>6, <3>1
      <3> QED
        BY <3>1, <3>2 DEF m
    <2>8. \A j \in Solid(s) : a + j \in Solid(t) /\ (a + j) - a = j
      BY <2>2, <2>4, <2>5, <2>6, SolidIsIndices
    <2>9. /\ g \in [Solid(t) -> Solid(s)]
          /\ \A i, j \in Solid(t) : i < j => g[i] < g[j]
          /\ \A j \in Solid(s) : \E i \in Solid(t) : g[i] = j
          /\ \A i \in Solid(t) : s[g[i]] = t[i]
      BY <2>2, <2>7, <2>8
    <2> HIDE DEF g
    <2>10. WithoutSpace(s) = WithoutSpace(t)
      BY <2>4, <2>9, SameSolid
    <2>11. ~IsSpace(s[1])
      BY <2>1, <2>2, <2>4, SolidIsIndices
    <2> QED
      BY <2>3, <2>4, <2>10, <2>11
  <1> QED
    BY <1>2, <1>3

-----------------------------------------------------------------------------
(* Finding, and going back through the offsets of a transformed copy. *)

\* Find answers a place where the needle stands, or -1 where there is none.
LEMMA FindIsFirst ==
    ASSUME NEW text \in Texts, NEW needle \in Texts
    PROVE  LET k == Find(text, needle, 0) IN
           /\ k # -1 => /\ k \in Nat /\ k + Len(needle) <= Len(text)
                        /\ SubSeq(text, k + 1, k + Len(needle)) = needle
           /\ k = -1 => \A m \in 0 .. (Len(text) - Len(needle)) :
                          SubSeq(text, m + 1, m + Len(needle)) # needle
  <1> DEFINE places == {k \in 0 .. (Len(text) - Len(needle)) :
                          SubSeq(text, k + 1, k + Len(needle)) = needle}
  <1>1. /\ Len(text) \in Nat /\ Len(needle) \in Nat
        /\ \A k \in places : k \in Nat /\ k + Len(needle) <= Len(text)
    BY DEF Texts
  <1>2. Find(text, needle, 0)
          = IF places = {} THEN -1
            ELSE CHOOSE k \in places : \A other \in places : k <= other
    BY DEF Find, Slice
  <1>3. CASE places = {}
    BY <1>2, <1>3
  <1>4. CASE places # {}
    <2>1. places \in SUBSET Nat /\ places \in SUBSET (0 .. Len(text))
      BY <1>1
    <2>2. IsFiniteSet(places)
      <3>1. IsFiniteSet(0 .. Len(text))
        BY <1>1, FS_Interval
      <3> HIDE DEF places
      <3> QED
        BY <2>1, <3>1, FS_Subset
    <2> HIDE DEF places
    <2>3. Lists(Ordered(places), Cardinality(places), places)
      BY <2>1, <2>2, OrderedLists
    <2>4. \E k \in places : \A other \in places : k <= other
      <3> DEFINE n == Cardinality(places)
                 f == Ordered(places)
      <3> HIDE DEF f, n
      <3>1. Lists(f, n, places)
        BY <2>3 DEF f, n
      <3>2. 1 \in 1 .. n /\ \A other \in places : f[1] <= other
        BY <1>4, <2>1, <3>1, ListEnds
      <3>3. f[1] \in places
        BY <3>1, <3>2 DEF Lists
      <3> QED
        BY <3>2, <3>3
    <2>5. Find(text, needle, 0) \in places
      BY <1>2, <1>4, <2>4
    <2> DEFINE k == Find(text, needle, 0)
    <2>6. /\ k \in Nat /\ k + Len(needle) <= Len(text)
          /\ SubSeq(text, k + 1, k + Len(needle)) = needle
      <3> HIDE DEF k
      <3>1. k \in places
        BY <2>5 DEF k
      <3> QED
        BY <1>1, <3>1 DEF places
    <2>7. k # -1
      <3> HIDE DEF k
      <3> QED
        BY <2>6
    <2> QED
      BY <2>6, <2>7
  <1> QED
    BY <1>3, <1>4

\* The space a copy is written with is white space.
LEMMA SpacesAreSpaces == IsSpace(Space) /\ Space \in Characters
  BY EvidenceAssumption DEF IsSpace

\* A transformed copy keeps the characters at the indices, white space as
\* spaces, and where each of them was.
LEMMA IndexedIsACopy ==
    ASSUME NEW t \in Texts, NEW at \in SUBSET (1 .. Len(t)),
           NEW n, n = Cardinality(at), NEW order, order = Ordered(at)
    PROVE  /\ n \in Nat /\ Lists(order, n, at)
           /\ Indexed(t, at).text \in Texts /\ Len(Indexed(t, at).text) = n
           /\ \A k \in 1 .. n :
                /\ order[k] \in at /\ order[k] \in 1 .. Len(t)
                /\ Indexed(t, at).offsets[k] = order[k] - 1
                /\ IsSpace(Indexed(t, at).text[k]) <=> IsSpace(t[order[k]])
                /\ ~IsSpace(t[order[k]]) => Indexed(t, at).text[k] = t[order[k]]
  <1> DEFINE kept == Picked(t, at)
             copy == [k \in 1 .. n |-> IF IsSpace(kept[k]) THEN Space ELSE kept[k]]
  <1>1. Len(t) \in Nat
    BY DEF Texts
  <1>2. n \in Nat /\ Lists(order, n, at)
    BY <1>1, IndicesAreFinite
  <1>3. /\ kept \in Seq(Characters) /\ Len(kept) = n
        /\ \A k \in 1 .. n : order[k] \in at /\ kept[k] = t[order[k]]
    BY PickedIsSequence DEF Texts
  <1>4. /\ Indexed(t, at).text = copy
        /\ Indexed(t, at).offsets = [k \in 1 .. n |-> order[k] - 1]
    BY DEF Indexed
  <1> HIDE DEF kept
  <1>5. \A k \in 1 .. n : kept[k] \in Characters
    BY <1>3
  <1>6. copy \in Texts /\ Len(copy) = n
    BY <1>2, <1>5, SpacesAreSpaces DEF Texts
  <1>7. ASSUME NEW k \in 1 .. n
        PROVE  /\ order[k] \in at /\ order[k] \in 1 .. Len(t)
               /\ Indexed(t, at).offsets[k] = order[k] - 1
               /\ IsSpace(Indexed(t, at).text[k]) <=> IsSpace(t[order[k]])
               /\ ~IsSpace(t[order[k]]) => Indexed(t, at).text[k] = t[order[k]]
    BY <1>3, <1>4, SpacesAreSpaces
  <1> QED
    BY <1>2, <1>4, <1>6, <1>7

\* A stretch of the copy has the solid characters of the stretch of the
\* source between the origins of its ends.
LEMMA WindowsAgree ==
    ASSUME NEW t \in Texts, NEW at \in SUBSET (1 .. Len(t)), Solid(t) \subseteq at,
           NEW n, n = Cardinality(at), NEW order, order = Ordered(at),
           NEW a \in Nat, NEW b \in 0 .. n, a < b
    PROVE  /\ order[a + 1] \in 1 .. Len(t) /\ order[b] \in 1 .. Len(t)
           /\ order[a + 1] <= order[b]
           /\ WithoutSpace(SubSeq(t, order[a + 1], order[b]))
                = WithoutSpace(SubSeq(Indexed(t, at).text, a + 1, b))
  <1> DEFINE copy == Indexed(t, at).text
             c == order[a + 1] - 1
             d == order[b]
             w == SubSeq(copy, a + 1, b)
             s == SubSeq(t, c + 1, d)
             g == [k \in Solid(w) |-> order[a + k] - c]
  <1>1. /\ n \in Nat /\ Lists(order, n, at)
        /\ copy \in Texts /\ Len(copy) = n
        /\ \A k \in 1 .. n :
                /\ order[k] \in at /\ order[k] \in 1 .. Len(t)
                /\ IsSpace(copy[k]) <=> IsSpace(t[order[k]])
                /\ ~IsSpace(t[order[k]]) => copy[k] = t[order[k]]
    BY IndexedIsACopy
  <1>2. Len(t) \in Nat
    BY DEF Texts
  <1>3. \A k, l \in 1 .. n : k < l => order[k] < order[l]
    BY <1>1 DEF Lists
  <1>4. \A k, l \in 1 .. n : k <= l <=> order[k] <= order[l]
    <2> SUFFICES ASSUME NEW k \in 1 .. n, NEW l \in 1 .. n PROVE k <= l <=> order[k] <= order[l]
      OBVIOUS
    <2>1. /\ k \in Nat /\ l \in Nat /\ order[k] \in Nat /\ order[l] \in Nat
          /\ k < l => order[k] < order[l]
          /\ l < k => order[l] < order[k]
      BY <1>1, <1>2, <1>3
    <2> QED
      BY <2>1
  <1> HIDE DEF copy
  <1>5. a + 1 \in 1 .. n /\ b \in 1 .. n
    BY <1>1
  <1>6. /\ order[a + 1] \in 1 .. Len(t) /\ order[b] \in 1 .. Len(t)
        /\ order[a + 1] <= order[b]
    BY <1>1, <1>4, <1>5
  <1>7. c \in Nat /\ d \in 0 .. Len(t) /\ c < d /\ c + 1 = order[a + 1]
    BY <1>2, <1>6
  <1> HIDE DEF c, d
  <1>8. /\ s \in Texts /\ Len(s) = d - c
        /\ \A i \in 1 .. (d - c) : s[i] = t[c + i]
    BY <1>7, SubSeqFacts
  <1>9. /\ w \in Texts /\ Len(w) = b - a
        /\ \A k \in 1 .. (b - a) : w[k] = copy[a + k]
    BY <1>1, SubSeqFacts
  <1> HIDE DEF s, w
  <1>10. \A k \in Nat : k \in Solid(w) <=> k \in 1 .. (b - a) /\ ~IsSpace(copy[a + k])
    BY <1>9, SolidIsIndices
  <1>11. \A i \in Nat : i \in Solid(s) <=> i \in 1 .. (d - c) /\ ~IsSpace(t[c + i])
    BY <1>8, SolidIsIndices
  <1>12. \A k \in Solid(w) : k \in 1 .. (b - a) /\ k \in Nat
    BY <1>9, SolidIsIndices
  <1>13. \A k \in 1 .. (b - a) : /\ a + k \in 1 .. n /\ a + k \in Nat
                                 /\ order[a + k] - c \in Nat
                                 /\ order[a + k] - c \in 1 .. (d - c)
                                 /\ c + (order[a + k] - c) = order[a + k]
    <2> TAKE k \in 1 .. (b - a)
    <2>1. a + k \in 1 .. n /\ a + 1 <= a + k /\ a + k <= b
      BY <1>1
    <2>2. order[a + 1] <= order[a + k] /\ order[a + k] <= order[b] /\ order[a + k] \in Nat
      BY <1>1, <1>4, <1>5, <2>1
    <2>3. c + 1 <= order[a + k] /\ order[a + k] <= d
      BY <1>7, <2>2 DEF d
    <2> QED
      BY <1>7, <2>1, <2>2, <2>3
  <1>14. ASSUME NEW k \in Solid(w)
         PROVE  order[a + k] - c \in Solid(s) /\ s[order[a + k] - c] = w[k]
    <2>1. k \in 1 .. (b - a) /\ ~IsSpace(copy[a + k]) /\ w[k] = copy[a + k]
      BY <1>9, <1>10, <1>12
    <2> DEFINE i == order[a + k] - c
    <2>2. a + k \in 1 .. n /\ i \in Nat /\ i \in 1 .. (d - c) /\ c + i = order[a + k]
      BY <1>13, <2>1
    <2> HIDE DEF i
    <2>3. ~IsSpace(t[c + i]) /\ copy[a + k] = t[c + i]
      BY <1>1, <2>1, <2>2
    <2>4. i \in Solid(s) /\ s[i] = w[k]
      BY <1>8, <1>11, <2>1, <2>2, <2>3
    <2> QED
      BY <2>4 DEF i
  <1>15. ASSUME NEW k \in Solid(w), NEW l \in Solid(w), k < l PROVE g[k] < g[l]
    <2>1. a + k \in 1 .. n /\ a + l \in 1 .. n /\ a + k < a + l
      <3>1. /\ k \in Nat /\ l \in Nat /\ k < l
            /\ k \in 1 .. (b - a) /\ l \in 1 .. (b - a)
        BY <1>12, <1>15
      <3>2. a + k < a + l
        BY <3>1
      <3> QED
        BY <1>13, <3>1, <3>2
    <2>2. order[a + k] < order[a + l] /\ order[a + k] \in Nat /\ order[a + l] \in Nat
      BY <1>1, <1>3, <2>1
    <2> QED
      BY <1>7, <2>2
  <1>16. ASSUME NEW i \in Solid(s) PROVE \E k \in Solid(w) : g[k] = i
    <2>1. i \in Nat /\ i \in 1 .. (d - c) /\ ~IsSpace(t[c + i])
      BY <1>8, <1>11, SolidIsIndices
    <2>2. c + i \in Solid(t)
      BY <1>7, <2>1, <1>2, SolidIsIndices
    <2>3. PICK r \in 1 .. n : order[r] = c + i
      BY <1>1, <2>2 DEF Lists
    <2>4. order[a + 1] <= order[r] /\ order[r] <= order[b]
      BY <1>7, <2>1, <2>3 DEF d
    <2>5. a + 1 <= r /\ r <= b
      BY <1>4, <1>5, <2>4
    <2> DEFINE k == r - a
    <2>6. k \in 1 .. (b - a) /\ k \in Nat /\ a + k = r
      BY <1>1, <2>3, <2>5
    <2> HIDE DEF k
    <2>7. ~IsSpace(copy[a + k])
      BY <1>1, <2>1, <2>3, <2>6
    <2>8. k \in Solid(w)
      BY <1>10, <2>6, <2>7
    <2>9. g[k] = i
      BY <1>7, <2>1, <2>3, <2>6, <2>8
    <2> QED
      BY <2>8, <2>9
  <1>17. /\ g \in [Solid(w) -> Solid(s)]
         /\ \A k \in Solid(w) : s[g[k]] = w[k]
    BY <1>14
  <1> HIDE DEF g
  <1>18. WithoutSpace(s) = WithoutSpace(w)
    BY <1>8, <1>9, <1>15, <1>16, <1>17, SameSolid
  <1> QED
    BY <1>6, <1>7, <1>18 DEF s, w, d, copy

\* The whole copy has the solid characters of the whole source, and begins
\* with its first one.
LEMMA CopyKeepsSolid ==
    ASSUME NEW t \in Texts, NEW at \in SUBSET (1 .. Len(t)), Solid(t) \subseteq at
    PROVE  /\ WithoutSpace(Indexed(t, at).text) = WithoutSpace(t)
           /\ t # <<>> /\ ~IsSpace(t[1]) =>
                /\ 1 \in 1 .. Len(Indexed(t, at).text)
                /\ ~IsSpace(Indexed(t, at).text[1])
  <1> DEFINE n == Cardinality(at)
             order == Ordered(at)
             copy == Indexed(t, at).text
             g == [k \in Solid(copy) |-> order[k]]
  <1>1. /\ n \in Nat /\ Lists(order, n, at)
        /\ copy \in Texts /\ Len(copy) = n
        /\ \A k \in 1 .. n :
                /\ order[k] \in at /\ order[k] \in 1 .. Len(t)
                /\ IsSpace(copy[k]) <=> IsSpace(t[order[k]])
                /\ ~IsSpace(t[order[k]]) => copy[k] = t[order[k]]
    BY IndexedIsACopy
  <1> HIDE DEF copy, order, n
  <1>2. Len(t) \in Nat
    BY DEF Texts
  <1>3. \A k \in Nat : k \in Solid(copy) <=> k \in 1 .. n /\ ~IsSpace(copy[k])
    BY <1>1, SolidIsIndices
  <1>4. \A i \in Nat : i \in Solid(t) <=> i \in 1 .. Len(t) /\ ~IsSpace(t[i])
    BY SolidIsIndices
  <1>5. \A k \in Solid(copy) : k \in 1 .. n /\ k \in Nat
    BY <1>1, SolidIsIndices
  <1>6. ASSUME NEW k \in Solid(copy) PROVE order[k] \in Solid(t) /\ t[order[k]] = copy[k]
    <2>1. k \in 1 .. n /\ ~IsSpace(copy[k])
      BY <1>3, <1>5
    <2>2. ~IsSpace(t[order[k]]) /\ order[k] \in 1 .. Len(t) /\ copy[k] = t[order[k]]
      BY <1>1, <2>1
    <2>3. order[k] \in Nat
      BY <1>2, <2>2
    <2> QED
      BY <1>4, <2>2, <2>3
  <1>7. ASSUME NEW k \in Solid(copy), NEW l \in Solid(copy), k < l PROVE g[k] < g[l]
    BY <1>1, <1>5, <1>7 DEF Lists
  <1>8. ASSUME NEW i \in Solid(t) PROVE \E k \in Solid(copy) : g[k] = i
    <2>1. PICK k \in 1 .. n : order[k] = i
      BY <1>1 DEF Lists
    <2>2. ~IsSpace(t[i]) /\ k \in Nat
      BY <1>1, <1>4, SolidIsIndices
    <2>3. k \in Solid(copy)
      BY <1>1, <1>3, <2>1, <2>2
    <2> QED
      BY <2>1, <2>3
  <1>9. /\ g \in [Solid(copy) -> Solid(t)]
        /\ \A k \in Solid(copy) : t[g[k]] = copy[k]
    BY <1>6
  <1> HIDE DEF g
  <1>10. WithoutSpace(t) = WithoutSpace(copy)
    BY <1>1, <1>7, <1>8, <1>9, SameSolid
  <1>11. ASSUME t # <<>>, ~IsSpace(t[1])
         PROVE  1 \in 1 .. Len(copy) /\ ~IsSpace(copy[1])
    <2>1. 1 \in 1 .. Len(t)
      BY <1>11 DEF Texts
    <2>2. 1 \in at /\ \A i \in at : i \in Nat /\ 1 <= i
      BY <1>2, <1>4, <1>11, <2>1
    <2>3. at \in SUBSET Int /\ at # {}
      BY <2>2
    <2>4. 1 \in 1 .. n /\ \A i \in at : order[1] <= i
      BY <1>1, <2>3, ListEnds
    <2>5. order[1] = 1
      BY <1>1, <2>2, <2>4
    <2> QED
      BY <1>1, <1>11, <2>4, <2>5
  <1> QED
    BY <1>10, <1>11 DEF copy

\* What a quote that was found comes to: it cites the text, within it, and
\* begins on a solid character.
Pinned(source, r) ==
    /\ r.found /\ Cites(source, r)
    /\ r.start \in Nat /\ r.end \in Nat /\ r.end <= Len(source)
    /\ ~IsSpace(source[r.start + 1])

\* The first tier.
LEMMA ExactIsPinned ==
    ASSUME NEW source \in Texts, NEW asked \in Texts, NEW quote \in Texts,
           quote # <<>>, ~IsSpace(quote[1]),
           WithoutSpace(quote) = WithoutSpace(NFC(asked)),
           NEW at, at = Find(source, quote, 0), at # -1, NEW count
    PROVE  Pinned(source, Span(source, asked, at, at + Len(quote), "exact", count))
  <1> DEFINE r == Span(source, asked, at, at + Len(quote), "exact", count)
             m == Len(quote)
  <1>1. m \in Nat /\ 1 <= m /\ Len(source) \in Nat
    BY DEF Texts
  <1>2. at \in Nat /\ at + m <= Len(source) /\ SubSeq(source, at + 1, at + m) = quote
    BY FindIsFirst
  <1>a. at \in Nat /\ at + m <= Len(source)
    BY <1>2
  <1>3. /\ r.found /\ r.start = at /\ r.end = at + m /\ r.asked = asked
        /\ r.quote = SubSeq(source, at + 1, at + m)
    BY DEF Span, Slice
  <1> HIDE DEF r, m
  <1>4. at + m \in 0 .. Len(source) /\ at <= at + m /\ 1 \in 1 .. ((at + m) - at)
    <2>1. at + m \in Nat /\ at <= at + m /\ (at + m) - at = m
      BY <1>1, <1>a
    <2> QED
      BY <1>1, <1>a, <2>1
  <1>5. SubSeq(source, at + 1, at + m)[1] = source[at + 1]
    BY <1>2, <1>4, SubSeqFacts
  <1>6. r.start < r.end
    BY <1>1, <1>a, <1>3
  <1>7. Cites(source, r)
    BY <1>2, <1>3, <1>6 DEF Cites, Slice
  <1>8. r.start \in Nat /\ r.end \in Nat /\ r.end <= Len(source)
    <2>1. at \in Nat /\ at + m \in Nat /\ at + m <= Len(source)
      BY <1>1, <1>a
    <2> QED
      BY <1>3, <2>1
  <1>9. ~IsSpace(source[r.start + 1])
    BY <1>2, <1>3, <1>5
  <1>10. Pinned(source, r)
    BY <1>3, <1>7, <1>8, <1>9 DEF Pinned
  <1> QED
    BY <1>10 DEF r, m

\* The two tiers that search a transformed copy.
LEMMA ViaIsPinned ==
    ASSUME NEW source \in Texts, NEW asked \in Texts, NEW quote \in Texts,
           quote # <<>>, ~IsSpace(quote[1]),
           WithoutSpace(quote) = WithoutSpace(NFC(asked)),
           NEW I \in SUBSET (1 .. Len(source)), Solid(source) \subseteq I,
           NEW J \in SUBSET (1 .. Len(quote)), Solid(quote) \subseteq J,
           NEW kind,
           Find(Indexed(source, I).text, Indexed(quote, J).text, 0) # -1
    PROVE  Pinned(source, Via(source, asked, Indexed(source, I), Indexed(quote, J).text, kind))
  <1> DEFINE copy == Indexed(source, I).text
             offsets == Indexed(source, I).offsets
             needle == Indexed(quote, J).text
             at == Find(copy, needle, 0)
             m == Len(needle)
             n == Cardinality(I)
             order == Ordered(I)
             r == Via(source, asked, Indexed(source, I), needle, kind)
  <1>1. /\ n \in Nat /\ copy \in Texts /\ Len(copy) = n
        /\ \A k \in 1 .. n :
             /\ order[k] \in 1 .. Len(source) /\ offsets[k] = order[k] - 1
             /\ IsSpace(copy[k]) <=> IsSpace(source[order[k]])
    BY IndexedIsACopy
  <1>2. needle \in Texts
    BY IndexedIsACopy
  <1>3. /\ WithoutSpace(needle) = WithoutSpace(quote)
        /\ 1 \in 1 .. m /\ ~IsSpace(needle[1])
    BY CopyKeepsSolid
  <1>4. m \in Nat /\ 1 <= m /\ Len(source) \in Nat
    BY <1>2, <1>3 DEF Texts
  <1>5. /\ at \in Nat /\ at + m <= n
        /\ SubSeq(copy, at + 1, at + m) = needle
    <2> HIDE DEF copy, needle
    <2> QED
      BY <1>1, <1>2, FindIsFirst DEF copy, needle
  <1>6. /\ r.found /\ r.start = offsets[at + 1] /\ r.end = offsets[at + m] + 1
        /\ r.asked = asked /\ r.quote = Slice(source, offsets[at + 1], offsets[at + m] + 1)
    BY DEF Via, Span
  <1> HIDE DEF copy, offsets, needle, at, m, n, order, r
  <1>7. /\ at + m \in 0 .. n /\ at < at + m /\ at + 1 \in 1 .. n /\ at + m \in 1 .. n
        /\ at <= at + m /\ 1 \in 1 .. ((at + m) - at)
    BY <1>1, <1>4, <1>5
  <1>8. /\ order[at + 1] \in 1 .. Len(source) /\ order[at + m] \in 1 .. Len(source)
        /\ order[at + 1] <= order[at + m]
        /\ WithoutSpace(SubSeq(source, order[at + 1], order[at + m])) = WithoutSpace(needle)
    <2>1. /\ order[at + 1] \in 1 .. Len(source) /\ order[at + m] \in 1 .. Len(source)
          /\ order[at + 1] <= order[at + m]
          /\ WithoutSpace(SubSeq(source, order[at + 1], order[at + m]))
               = WithoutSpace(SubSeq(copy, at + 1, at + m))
      BY <1>5, <1>7, WindowsAgree DEF order, n, copy
    <2> QED
      BY <1>5, <2>1
  <1>9. /\ r.start \in Nat /\ r.end \in Nat /\ r.end <= Len(source) /\ r.start < r.end
        /\ r.start + 1 = order[at + 1] /\ r.end = order[at + m]
    BY <1>1, <1>4, <1>6, <1>7, <1>8
  <1>10. r.quote = SubSeq(source, order[at + 1], order[at + m])
    BY <1>6, <1>9 DEF Slice
  <1>11. Cites(source, r)
    BY <1>3, <1>6, <1>8, <1>9, <1>10 DEF Cites
  <1>12. needle[1] = copy[at + 1]
    <2>1. SubSeq(copy, at + 1, at + m)[1] = copy[at + 1]
      BY <1>1, <1>5, <1>7, SubSeqFacts
    <2> QED
      BY <1>5, <2>1
  <1>13. ~IsSpace(source[r.start + 1])
    BY <1>1, <1>3, <1>7, <1>9, <1>12
  <1>14. Pinned(source, r)
    BY <1>6, <1>9, <1>11, <1>13 DEF Pinned
  <1> QED
    BY <1>14 DEF r, needle

\* What the collapsed copy keeps of a text.
CollapsedFrom(t) ==
    {i \in 1 .. Len(t) : \/ ~IsSpace(t[i])
                         \/ /\ i > 1 /\ ~IsSpace(t[i - 1])
                            /\ \E j \in i .. Len(t) : ~IsSpace(t[j])}

\* Both copies are of this kind, and keep every solid character.
LEMMA CopiesAreIndexed ==
    ASSUME NEW t
    PROVE  /\ Collapsed(t) = Indexed(t, CollapsedFrom(t))
           /\ Solid(t) \subseteq CollapsedFrom(t)
           /\ CollapsedFrom(t) \in SUBSET (1 .. Len(t))
           /\ Stripped(t) = Indexed(t, Solid(t))
           /\ Solid(t) \in SUBSET (1 .. Len(t))
  BY DEF Collapsed, Stripped, CollapsedFrom, Solid

\* Whatever the resolver finds, in whichever tier, is pinned to the document
\* it normalised.
THEOREM ResolvedIsPinned ==
    ASSUME NEW document \in Texts, NEW asked \in Texts,
           Resolve(document, asked).found
    PROVE  Pinned(NFC(document), Resolve(document, asked))
  <1> DEFINE source == NFC(document)
             quote == Trimmed(NFC(asked))
             r == Resolve(document, asked)
  <1>1. source \in Texts /\ NFC(asked) \in Texts
    BY NFCIsText
  <1>2. /\ quote \in Texts /\ WithoutSpace(quote) = WithoutSpace(NFC(asked))
        /\ quote # <<>> => ~IsSpace(quote[1])
    BY <1>1, TrimmedKeepsSolid
  <1>3. r = Searched(source, asked, quote)
    BY DEF Resolve
  <1> HIDE DEF source, quote, r
  <1>4. \A reason : Rejected(asked, reason).found = FALSE
    BY DEF Rejected
  <1>5. quote # <<>> /\ r = InTiers(source, asked, quote)
    BY <1>3, <1>4 DEF Searched, r
  <1>6. CASE Find(source, quote, 0) # -1
    <2>1. r = Span(source, asked, Find(source, quote, 0),
                   Find(source, quote, 0) + Len(quote), "exact", Occurrences(source, quote))
      BY <1>5, <1>6 DEF InTiers
    <2> QED
      BY <1>1, <1>2, <1>5, <1>6, <2>1, ExactIsPinned DEF source, r
  <1>7. CASE /\ Find(source, quote, 0) = -1
             /\ Find(Collapsed(source).text, Collapsed(quote).text, 0) # -1
    <2>1. r = Via(source, asked, Collapsed(source), Collapsed(quote).text, "collapsed")
      BY <1>5, <1>7 DEF InTiers
    <2>2. Pinned(source, r)
      <3>1. /\ Collapsed(source) = Indexed(source, CollapsedFrom(source))
            /\ CollapsedFrom(source) \in SUBSET (1 .. Len(source)) /\ Solid(source) \subseteq CollapsedFrom(source)
            /\ Collapsed(quote) = Indexed(quote, CollapsedFrom(quote))
            /\ CollapsedFrom(quote) \in SUBSET (1 .. Len(quote)) /\ Solid(quote) \subseteq CollapsedFrom(quote)
        BY CopiesAreIndexed
      <3>2. Find(Indexed(source, CollapsedFrom(source)).text, Indexed(quote, CollapsedFrom(quote)).text, 0) # -1
        BY <1>7, <3>1
      <3>3. Pinned(source, Via(source, asked, Indexed(source, CollapsedFrom(source)),
                               Indexed(quote, CollapsedFrom(quote)).text, "collapsed"))
        BY <1>1, <1>2, <1>5, <3>1, <3>2, ViaIsPinned
      <3> QED
        BY <2>1, <3>1, <3>3
    <2> QED
      BY <2>2 DEF source, r
  <1>8. CASE /\ Find(source, quote, 0) = -1
             /\ Find(Collapsed(source).text, Collapsed(quote).text, 0) = -1
             /\ Len(Stripped(quote).text) >= MinStrippedChars
             /\ Find(Stripped(source).text, Stripped(quote).text, 0) # -1
    <2>1. r = Via(source, asked, Stripped(source), Stripped(quote).text, "stripped")
      BY <1>5, <1>8 DEF InTiers
    <2>2. Pinned(source, r)
      <3>1. /\ Stripped(source) = Indexed(source, Solid(source))
            /\ Solid(source) \in SUBSET (1 .. Len(source)) /\ Solid(source) \subseteq Solid(source)
            /\ Stripped(quote) = Indexed(quote, Solid(quote))
            /\ Solid(quote) \in SUBSET (1 .. Len(quote)) /\ Solid(quote) \subseteq Solid(quote)
        BY CopiesAreIndexed
      <3>2. Find(Indexed(source, Solid(source)).text, Indexed(quote, Solid(quote)).text, 0) # -1
        BY <1>8, <3>1
      <3>3. Pinned(source, Via(source, asked, Indexed(source, Solid(source)),
                               Indexed(quote, Solid(quote)).text, "stripped"))
        BY <1>1, <1>2, <1>5, <3>1, <3>2, ViaIsPinned
      <3> QED
        BY <2>1, <3>1, <3>3
    <2> QED
      BY <2>2 DEF source, r
  <1>9. \/ Find(source, quote, 0) # -1
        \/ /\ Find(source, quote, 0) = -1
           /\ Find(Collapsed(source).text, Collapsed(quote).text, 0) # -1
        \/ /\ Find(source, quote, 0) = -1
           /\ Find(Collapsed(source).text, Collapsed(quote).text, 0) = -1
           /\ Len(Stripped(quote).text) >= MinStrippedChars
           /\ Find(Stripped(source).text, Stripped(quote).text, 0) # -1
    <2> SUFFICES ASSUME /\ Find(source, quote, 0) = -1
                        /\ Find(Collapsed(source).text, Collapsed(quote).text, 0) = -1
                        /\ ~(/\ Len(Stripped(quote).text) >= MinStrippedChars
                             /\ Find(Stripped(source).text, Stripped(quote).text, 0) # -1)
                 PROVE  FALSE
      OBVIOUS
    <2>1. r = Rejected(asked, "not_found")
      BY <1>5 DEF InTiers
    <2> QED
      BY <1>4, <2>1 DEF r
  <1> QED
    BY <1>6, <1>7, <1>8, <1>9

-----------------------------------------------------------------------------
(* What is not found is not there. *)

\* Any number cuts a list in two.
LEMMA CutOfAList ==
    ASSUME NEW at \in SUBSET Nat, NEW n, NEW f, Lists(f, n, at), NEW i \in Nat
    PROVE  \E a \in 0 .. n : \A r \in 1 .. n : r <= a <=> f[r] <= i
  <1> DEFINE T == {r \in 1 .. n : f[r] <= i}
  <1>1. /\ n \in Nat /\ \A k \in 1 .. n : f[k] \in Nat
        /\ \A k, l \in 1 .. n : k < l => f[k] < f[l]
    BY DEF Lists
  <1>2. CASE T = {}
    <2>1. 0 \in 0 .. n /\ \A r \in 1 .. n : r <= 0 <=> f[r] <= i
      BY <1>1, <1>2
    <2> QED
      BY <2>1
  <1>3. CASE T # {}
    <2> DEFINE a == Ordered(T)[Cardinality(T)]
    <2>1. T \in SUBSET Int /\ T \in SUBSET (1 .. n)
      BY <1>1
    <2>2. Lists(Ordered(T), Cardinality(T), T)
      <3> HIDE DEF T
      <3> QED
        BY <1>1, <2>1, IndicesAreFinite
    <2>3. a \in T /\ \A r \in T : r <= a
      <3> HIDE DEF T
      <3>1. Cardinality(T) \in 1 .. Cardinality(T) /\ \A r \in T : r <= a
        BY <1>3, <2>1, <2>2, ListEnds
      <3> QED
        BY <2>2, <3>1 DEF Lists
    <2> HIDE DEF a
    <2>4. a \in 1 .. n /\ f[a] <= i
      BY <2>3
    <2>5. ASSUME NEW r \in 1 .. n, r <= a PROVE f[r] <= i
      <3>1. r \in Nat /\ a \in Nat /\ f[r] \in Nat /\ f[a] \in Nat /\ (r < a => f[r] < f[a])
        BY <1>1, <2>4
      <3> QED
        BY <2>4, <2>5, <3>1
    <2>6. a \in 0 .. n /\ \A r \in 1 .. n : r <= a <=> f[r] <= i
      BY <1>1, <2>3, <2>4, <2>5
    <2> QED
      BY <2>6
  <1> QED
    BY <1>2, <1>3

\* A text without its white space, by the list of its solid places.
LEMMA WithoutSpaceIsSolid ==
    ASSUME NEW t \in Texts, NEW n, n = Cardinality(Solid(t)),
           NEW order, order = Ordered(Solid(t))
    PROVE  /\ n \in Nat /\ Lists(order, n, Solid(t))
           /\ WithoutSpace(t) \in Texts /\ Len(WithoutSpace(t)) = n
           /\ \A k \in 1 .. n : order[k] \in Solid(t) /\ WithoutSpace(t)[k] = t[order[k]]
  <1>1. Solid(t) \in SUBSET (1 .. Len(t)) /\ Len(t) \in Nat
    BY SolidIsIndices
  <1> QED
    BY <1>1, IndicesAreFinite, PickedIsSequence DEF WithoutSpace, Texts

\* Stripped to its solid characters, a text still holds each of its parts.
LEMMA PartsStayTogether ==
    ASSUME NEW t \in Texts, NEW i \in Nat, NEW j \in 0 .. Len(t), i <= j
    PROVE  LET part == WithoutSpace(Slice(t, i, j)) IN
           /\ part \in Texts
           /\ \E a \in 0 .. (Len(WithoutSpace(t)) - Len(part)) :
                SubSeq(WithoutSpace(t), a + 1, a + Len(part)) = part
  <1> DEFINE part == WithoutSpace(Slice(t, i, j))
             n == Cardinality(Solid(t))
             order == Ordered(Solid(t))
             w == WithoutSpace(t)
             s == SubSeq(t, i + 1, j)
  <1>1. /\ n \in Nat /\ Lists(order, n, Solid(t)) /\ w \in Texts /\ Len(w) = n
        /\ \A k \in 1 .. n : order[k] \in Solid(t) /\ w[k] = t[order[k]]
    BY WithoutSpaceIsSolid
  <1>2. Len(t) \in Nat /\ j \in Nat
    BY DEF Texts
  <1>3. /\ s \in Texts /\ Len(s) = j - i /\ part = WithoutSpace(s)
        /\ \A k \in 1 .. (j - i) : s[k] = t[i + k]
    BY SubSeqFacts DEF Slice
  <1>4. /\ Solid(t) \in SUBSET Nat
        /\ \A x \in Nat : x \in Solid(t) <=> x \in 1 .. Len(t) /\ ~IsSpace(t[x])
    BY SolidIsIndices
  <1> HIDE DEF n, order, w, s, part
  <1>5. /\ Solid(s) \in SUBSET Nat
        /\ \A x \in Nat : x \in Solid(s) <=> x \in 1 .. (j - i) /\ ~IsSpace(t[i + x])
    BY <1>3, SolidIsIndices
  <1>6. PICK a \in 0 .. n : \A r \in 1 .. n : r <= a <=> order[r] <= i
    BY <1>1, <1>4, CutOfAList
  <1>7. PICK b \in 0 .. n : \A r \in 1 .. n : r <= b <=> order[r] <= j
    BY <1>1, <1>2, <1>4, CutOfAList
  <1>8. \A r \in 1 .. n : order[r] \in Nat /\ order[r] \in Solid(t)
    BY <1>1, <1>4
  <1>9. a <= b /\ a \in Nat /\ b \in Nat
    <2>1. ASSUME b < a PROVE FALSE
      <3>1. a \in 1 .. n /\ a <= a /\ ~(a <= b)
        BY <1>1, <2>1
      <3>2. order[a] <= i /\ ~(order[a] <= j) /\ order[a] \in Nat
        BY <1>6, <1>7, <1>8, <3>1
      <3> QED
        BY <1>2, <3>2
    <2> QED
      BY <1>1, <2>1
  <1> DEFINE m == b - a
             h == [k \in 1 .. m |-> order[a + k] - i]
  <1>10. m \in Nat /\ a + m = b
    BY <1>9
  <1> HIDE DEF m
  <1>11. ASSUME NEW k \in 1 .. m
         PROVE  /\ k \in Nat /\ a + k \in 1 .. n /\ order[a + k] \in Nat
                /\ i < order[a + k] /\ order[a + k] <= j
                /\ h[k] = order[a + k] - i /\ h[k] \in Nat /\ i + h[k] = order[a + k]
                /\ h[k] \in 1 .. (j - i)
                /\ h[k] \in Solid(s) /\ s[h[k]] = w[a + k]
    <2>1. k \in Nat /\ a + k \in 1 .. n /\ ~(a + k <= a) /\ a + k <= b
      BY <1>1, <1>9, <1>10
    <2>2. /\ order[a + k] \in Nat /\ ~(order[a + k] <= i) /\ order[a + k] <= j
          /\ order[a + k] \in Solid(t)
      BY <1>6, <1>7, <1>8, <2>1
    <2>3. /\ h[k] = order[a + k] - i /\ h[k] \in Nat /\ i + h[k] = order[a + k]
          /\ h[k] \in 1 .. (j - i) /\ i < order[a + k]
      BY <1>2, <2>2
    <2> HIDE DEF h
    <2>4. h[k] \in Solid(s)
      BY <1>4, <1>5, <2>2, <2>3
    <2>5. s[h[k]] = w[a + k]
      BY <1>1, <1>3, <2>1, <2>3
    <2> QED
      BY <2>1, <2>2, <2>3, <2>4, <2>5
  <1>12. h \in [1 .. m -> Solid(s)]
    BY <1>11
  <1> HIDE DEF h
  <1>13. ASSUME NEW k \in 1 .. m, NEW l \in 1 .. m, k < l PROVE h[k] < h[l]
    <2>1. a + k \in 1 .. n /\ a + l \in 1 .. n /\ a + k < a + l
      <3>1. k \in Nat /\ l \in Nat
        BY <1>11
      <3>2. a + k < a + l
        BY <1>9, <1>13, <3>1
      <3> QED
        BY <1>11, <3>2
    <2>2. order[a + k] < order[a + l]
      BY <1>1, <2>1 DEF Lists
    <2>3. /\ h[k] = order[a + k] - i /\ h[l] = order[a + l] - i
          /\ order[a + k] \in Nat /\ order[a + l] \in Nat
      BY <1>11
    <2> QED
      BY <2>2, <2>3
  <1>14. ASSUME NEW x \in Solid(s) PROVE \E k \in 1 .. m : h[k] = x
    <2>1. x \in Nat /\ x \in 1 .. (j - i) /\ ~IsSpace(t[i + x])
      BY <1>5
    <2>2. i + x \in Solid(t) /\ i + x <= j /\ ~(i + x <= i)
      BY <1>2, <1>4, <2>1
    <2>3. PICK r \in 1 .. n : order[r] = i + x
      BY <1>1, <2>2 DEF Lists
    <2>4. r <= b /\ ~(r <= a) /\ r \in Nat
      BY <1>1, <1>6, <1>7, <2>2, <2>3
    <2> DEFINE k == r - a
    <2>5. k \in 1 .. m /\ a + k = r
      BY <1>9, <1>10, <2>4
    <2> HIDE DEF k
    <2>6. h[k] = order[a + k] - i
      BY <1>11, <2>5
    <2>7. h[k] = x
      BY <2>1, <2>3, <2>5, <2>6
    <2> QED
      BY <2>5, <2>7
  <1>15. Lists(h, m, Solid(s))
    BY <1>10, <1>12, <1>13, <1>14 DEF Lists
  <1>16. part = [k \in 1 .. m |-> s[h[k]]]
    BY <1>3, <1>5, <1>15, PickedByList DEF WithoutSpace
  <1>17. /\ SubSeq(w, a + 1, b) \in Texts /\ Len(SubSeq(w, a + 1, b)) = m
         /\ \A k \in 1 .. m : SubSeq(w, a + 1, b)[k] = w[a + k]
    BY <1>1, <1>9, <1>10, SubSeqFacts DEF m
  <1>18. part \in Texts /\ Len(part) = m
    <2>1. m = Cardinality(Solid(s))
      BY <1>5, <1>15, OneList
    <2> QED
      BY <1>3, <2>1, WithoutSpaceIsSolid
  <1>19. \A k \in 1 .. m : SubSeq(w, a + 1, b)[k] = part[k]
    BY <1>11, <1>16, <1>17
  <1>20. SubSeq(w, a + 1, b) = part
    BY <1>10, <1>17, <1>18, <1>19, SeqEqual DEF Texts
  <1>21. a \in 0 .. (Len(w) - Len(part)) /\ b = a + Len(part)
    BY <1>1, <1>9, <1>10, <1>18
  <1> QED
    BY <1>18, <1>20, <1>21 DEF w, part

\* The stripped copy is the text without its white space.
LEMMA StrippedIsWithoutSpace ==
    ASSUME NEW t \in Texts PROVE Stripped(t).text = WithoutSpace(t)
  <1> DEFINE n == Cardinality(Solid(t))
             order == Ordered(Solid(t))
             kept == Picked(t, Solid(t))
  <1>1. \A k \in 1 .. n : order[k] \in Solid(t) /\ WithoutSpace(t)[k] = t[order[k]]
    BY WithoutSpaceIsSolid
  <1>2. \A i \in Solid(t) : ~IsSpace(t[i])
    BY DEF Solid
  <1>3. kept = WithoutSpace(t) /\ kept = [k \in 1 .. n |-> t[order[k]]]
    BY DEF WithoutSpace, Picked
  <1>4. Stripped(t).text = [k \in 1 .. n |-> IF IsSpace(kept[k]) THEN Space ELSE kept[k]]
    BY DEF Stripped, Indexed
  <1> HIDE DEF kept, n, order
  <1>5. \A k \in 1 .. n : ~IsSpace(kept[k]) /\ kept[k] = t[order[k]]
    BY <1>1, <1>2, <1>3
  <1> QED
    BY <1>3, <1>4, <1>5

\* A quote long enough to be looked for without its spaces, and not found,
\* is in no part of the document the resolver normalised.
THEOREM RejectedIsAbsent ==
    ASSUME NEW document \in Texts, NEW asked \in Texts,
           NEW r, r = Resolve(document, asked), ~r.found,
           r.reason = "not_found",
           Len(WithoutSpace(NFC(asked))) >= MinStrippedChars
    PROVE  IsAbsent(NFC(document), asked)
  <1> DEFINE source == NFC(document)
             quote == Trimmed(NFC(asked))
             said == WithoutSpace(NFC(asked))
  <1>1. source \in Texts /\ NFC(asked) \in Texts
    BY NFCIsText
  <1>2. quote \in Texts /\ WithoutSpace(quote) = said
    BY <1>1, TrimmedKeepsSolid
  <1>3. r = Searched(source, asked, quote)
    BY DEF Resolve
  <1>4. said \in Texts
    BY <1>1, WithoutSpaceIsSolid
  <1> HIDE DEF source, quote, said
  <1>5. Stripped(source).text = WithoutSpace(source) /\ Stripped(quote).text = said
    BY <1>1, <1>2, StrippedIsWithoutSpace
  <1>6. r = InTiers(source, asked, quote)
    BY <1>3 DEF Searched, Rejected
  <1>7. Find(WithoutSpace(source), said, 0) = -1
    <2>1. \A start, end, kind, count : Span(source, asked, start, end, kind, count).found
      BY DEF Span
    <2>2. \A indexed, needle, kind : Via(source, asked, indexed, needle, kind).found
      BY <2>1 DEF Via
    <2>3. Find(source, quote, 0) = -1
      BY <1>6, <2>1 DEF InTiers
    <2>4. Find(Collapsed(source).text, Collapsed(quote).text, 0) = -1
      BY <1>6, <2>2, <2>3 DEF InTiers
    <2>5. ~(/\ Len(Stripped(quote).text) >= MinStrippedChars
            /\ Find(Stripped(source).text, Stripped(quote).text, 0) # -1)
      BY <1>6, <2>2, <2>3, <2>4 DEF InTiers
    <2> QED
      BY <1>5, <2>5 DEF said
  <1>8. WithoutSpace(source) \in Texts
    BY <1>1, WithoutSpaceIsSolid
  <1>9. SUFFICES ASSUME NEW i \in 0 .. Len(source), NEW j \in i .. Len(source),
                        WithoutSpace(SubSeq(source, i + 1, j)) = said
                 PROVE  FALSE
    BY DEF IsAbsent, Slice, source, said
  <1>10. i \in Nat /\ j \in 0 .. Len(source) /\ i <= j
    BY <1>1 DEF Texts
  <1>11. PICK a \in 0 .. (Len(WithoutSpace(source)) - Len(said)) :
           SubSeq(WithoutSpace(source), a + 1, a + Len(said)) = said
    <2> DEFINE part == WithoutSpace(Slice(source, i, j))
    <2>1. \E a \in 0 .. (Len(WithoutSpace(source)) - Len(part)) :
            SubSeq(WithoutSpace(source), a + 1, a + Len(part)) = part
      BY <1>1, <1>10, PartsStayTogether
    <2>2. part = said
      BY <1>9 DEF Slice
    <2> HIDE DEF part
    <2> QED
      BY <2>1, <2>2
  <1> QED
    BY <1>4, <1>7, <1>8, <1>11, FindIsFirst

-----------------------------------------------------------------------------
(* Numbers, and what is built by going up through them. *)

\* What holds of 0 and goes from each number to the next holds of all.
LEMMA NumbersByInduction ==
    ASSUME NEW P, 0 \in P, \A m \in Nat : m \in P => m + 1 \in P
    PROVE  \A m \in Nat : m \in P
  <1> SUFFICES ASSUME NEW x \in Nat, x \notin P PROVE FALSE
    OBVIOUS
  <1> DEFINE S == {m \in 0 .. x : m \notin P}
  <1>1. S \in SUBSET Int /\ S \in SUBSET (0 .. x) /\ x \in S
    OBVIOUS
  <1>2. IsFiniteSet(S)
    <2>1. IsFiniteSet(0 .. x)
      BY FS_Interval
    <2> HIDE DEF S
    <2> QED
      BY <1>1, <2>1, FS_Subset
  <1>3. PICK y \in S : \A m \in S : y <= m
    <2> DEFINE n == Cardinality(S)
               f == Ordered(S)
    <2> HIDE DEF S
    <2>1. Lists(f, n, S)
      BY <1>1, <1>2, OrderedLists
    <2> HIDE DEF f, n
    <2>2. 1 \in 1 .. n /\ \A m \in S : f[1] <= m
      BY <1>1, <2>1, ListEnds
    <2>3. f[1] \in S
      BY <2>1, <2>2 DEF Lists
    <2> QED
      BY <2>2, <2>3
  <1>4. y \in Nat /\ y <= x /\ y \notin P /\ y # 0
    BY <1>1, <1>3
  <1>5. y - 1 \in Nat /\ (y - 1) + 1 = y /\ ~(y <= y - 1) /\ y - 1 \in 0 .. x
    BY <1>4
  <1>6. y - 1 \notin S
    BY <1>3, <1>5
  <1>7. y - 1 \in P
    BY <1>5, <1>6
  <1> QED
    BY <1>4, <1>5, <1>7

\* f goes up from `first`, a step at a time.
Climbs(f, n, first, step) ==
    f = [i \in 1 .. n |-> IF i = 1 THEN first ELSE step[i][f[i - 1]]]

\* A first value and a step define a function up to any number.
LEMMA StepsDefine ==
    ASSUME NEW A, NEW first \in A, NEW step \in [Nat -> [A -> A]]
    PROVE  \A n \in Nat : \E f \in [1 .. n -> A] : Climbs(f, n, first, step)
  <1> DEFINE Built(n, f) ==
               /\ f \in [1 .. n -> A]
               /\ \A i \in 1 .. n : f[i] = IF i = 1 THEN first ELSE step[i][f[i - 1]]
             P == {n \in Nat : \E f : Built(n, f)}
  <1>1. 0 \in P
    <2>1. Built(0, [i \in 1 .. 0 |-> first])
      OBVIOUS
    <2> QED
      BY <2>1
  <1>2. ASSUME NEW m \in Nat, m \in P PROVE m + 1 \in P
    <2>1. PICK f : Built(m, f)
      BY <1>2
    <2> DEFINE last == IF m = 0 THEN first ELSE step[m + 1][f[m]]
               g == [i \in 1 .. (m + 1) |-> IF i = m + 1 THEN last ELSE f[i]]
    <2>2. last \in A
      <3>1. CASE m = 0
        BY <3>1
      <3>2. CASE m # 0
        <4>1. f[m] \in A /\ m + 1 \in Nat
          BY <2>1, <3>2
        <4> QED
          BY <3>2, <4>1
      <3> QED
        BY <3>1, <3>2
    <2> HIDE DEF last
    <2>3. g \in [1 .. (m + 1) -> A]
      BY <2>1, <2>2
    <2>4. ASSUME NEW i \in 1 .. (m + 1)
          PROVE  g[i] = IF i = 1 THEN first ELSE step[i][g[i - 1]]
      <3>1. CASE i = m + 1 /\ m = 0
        BY <3>1 DEF last
      <3>2. CASE i = m + 1 /\ m # 0
        <4>1. i - 1 = m /\ m \in 1 .. (m + 1) /\ m # m + 1 /\ i # 1
          BY <3>2
        <4>2. g[m] = f[m] /\ g[i] = last
          BY <3>2, <4>1
        <4> QED
          BY <3>2, <4>1, <4>2 DEF last
      <3>3. CASE i # m + 1
        <4>1. i \in 1 .. m /\ g[i] = f[i]
          BY <3>3
        <4>2. f[i] = IF i = 1 THEN first ELSE step[i][f[i - 1]]
          BY <2>1, <4>1
        <4>3. i # 1 => i - 1 \in 1 .. (m + 1) /\ i - 1 # m + 1
          BY <4>1
        <4>4. i # 1 => g[i - 1] = f[i - 1]
          BY <4>3
        <4> QED
          BY <4>1, <4>2, <4>4
      <3> QED
        BY <3>1, <3>2, <3>3
    <2> HIDE DEF g
    <2>5. Built(m + 1, g)
      BY <2>3, <2>4
    <2> HIDE DEF Built
    <2> QED
      BY <2>5
  <1> HIDE DEF P
  <1>3. \A n \in Nat : n \in P
    BY <1>1, <1>2, NumbersByInduction
  <1> SUFFICES ASSUME NEW n \in Nat
               PROVE  \E f \in [1 .. n -> A] : Climbs(f, n, first, step)
    OBVIOUS
  <1>4. PICK f : Built(n, f)
    BY <1>3 DEF P
  <1>5. Climbs(f, n, first, step)
    BY <1>4 DEF Climbs
  <1> QED
    BY <1>4, <1>5

\* What begins in A and never leaves it, a step at a time.
LEMMA StepsStayWithin ==
    ASSUME NEW A, NEW n \in Nat, NEW f,
           \A i \in 1 .. n : /\ i = 1 => f[i] \in A
                             /\ i # 1 /\ f[i - 1] \in A => f[i] \in A
    PROVE  \A i \in 1 .. n : f[i] \in A
  <1> DEFINE P == {m \in Nat : m + 1 \in 1 .. n => f[m + 1] \in A}
  <1>1. 0 \in P
    OBVIOUS
  <1>2. ASSUME NEW m \in Nat, m \in P PROVE m + 1 \in P
    <2> SUFFICES ASSUME (m + 1) + 1 \in 1 .. n PROVE f[(m + 1) + 1] \in A
      OBVIOUS
    <2>1. m + 1 \in 1 .. n /\ ((m + 1) + 1) - 1 = m + 1 /\ (m + 1) + 1 # 1
      OBVIOUS
    <2>2. f[m + 1] \in A
      BY <1>2, <2>1
    <2> QED
      BY <2>1, <2>2
  <1> HIDE DEF P
  <1>3. \A m \in Nat : m \in P
    BY <1>1, <1>2, NumbersByInduction
  <1> SUFFICES ASSUME NEW i \in 1 .. n PROVE f[i] \in A
    OBVIOUS
  <1>4. i - 1 \in Nat /\ (i - 1) + 1 = i
    OBVIOUS
  <1>5. i - 1 \in P
    BY <1>3, <1>4
  <1> QED
    BY <1>4, <1>5 DEF P

-----------------------------------------------------------------------------
(* Texts, or anything else in sequences, joined: where each of them is. *)

\* A function on 1 .. n is a sequence of that length.
LEMMA FunctionIsSequence ==
    ASSUME NEW S, NEW n \in Nat, NEW f \in [1 .. n -> S]
    PROVE  f \in Seq(S) /\ Len(f) = n
  OBVIOUS

\* Spans that follow one another with a gap between.
Spanned(texts, spans, gap) ==
    /\ spans \in Seq([start : Nat, end : Nat]) /\ Len(spans) = Len(texts)
    /\ \A i \in 1 .. Len(texts) :
         /\ spans[i].start \in Nat /\ spans[i].end \in Nat
         /\ spans[i].end = spans[i].start + Len(texts[i])
         /\ i = 1 => spans[i].start = 0
         /\ i # 1 => spans[i].start = spans[i - 1].end + gap

\* What SpansOf counts, a text at a time.
LEMMA SpansStep ==
    ASSUME NEW S, NEW texts \in Seq(Seq(S)), NEW gap \in Nat
    PROVE  Spanned(texts, SpansOf(texts, gap), gap)
  <1> DEFINE n == Len(texts)
             step == [i \in Nat |-> [x \in Nat |->
                        IF i - 1 \in 1 .. n THEN x + Len(texts[i - 1]) + gap ELSE 0]]
             Starts(f) == f = [i \in 1 .. n |->
                                 IF i = 1 THEN 0 ELSE f[i - 1] + Len(texts[i - 1]) + gap]
             start == CHOOSE f : Starts(f)
             spans == [i \in 1 .. n |-> [start |-> start[i], end |-> start[i] + Len(texts[i])]]
  <1>1. n \in Nat
    OBVIOUS
  <1>2. \A i \in 1 .. n : Len(texts[i]) \in Nat
    OBVIOUS
  <1>3. step \in [Nat -> [Nat -> Nat]]
    <2>1. \A x \in Nat, i \in Nat :
            (IF i - 1 \in 1 .. n THEN x + Len(texts[i - 1]) + gap ELSE 0) \in Nat
      <3> SUFFICES ASSUME NEW x \in Nat, NEW i \in Nat, i - 1 \in 1 .. n
                   PROVE  x + Len(texts[i - 1]) + gap \in Nat
        OBVIOUS
      <3>1. Len(texts[i - 1]) \in Nat
        BY <1>2
      <3> QED
        BY <1>1, <3>1
    <2> QED
      BY <2>1
  <1>4. PICK f \in [1 .. n -> Nat] : Climbs(f, n, 0, step)
    <2> HIDE DEF step, n
    <2> QED
      BY <1>1, <1>3, StepsDefine
  <1>5. \A i \in 1 .. n : i # 1 =>
          step[i][f[i - 1]] = f[i - 1] + Len(texts[i - 1]) + gap
    <2> SUFFICES ASSUME NEW i \in 1 .. n, i # 1
                 PROVE  step[i][f[i - 1]] = f[i - 1] + Len(texts[i - 1]) + gap
      OBVIOUS
    <2>1. i \in Nat /\ i - 1 \in 1 .. n /\ f[i - 1] \in Nat
      <3> HIDE DEF n, step
      <3>1. i \in Nat /\ i - 1 \in 1 .. n
        BY <1>1
      <3> QED
        BY <3>1
    <2> QED
      BY <2>1
  <1> HIDE DEF step
  <1>6. Starts(f)
    BY <1>4, <1>5 DEF Climbs
  <1>7. Starts(start)
    <2> HIDE DEF Starts
    <2> QED
      BY <1>6
  <1>8. SpansOf(texts, gap) = spans
    BY DEF SpansOf
  <1> HIDE DEF start
  <1>9. \A i \in 1 .. n : start[i] = IF i = 1 THEN 0 ELSE start[i - 1] + Len(texts[i - 1]) + gap
    BY <1>7
  <1>10. \A i \in 1 .. n : start[i] \in Nat
    <2>1. ASSUME NEW i \in 1 .. n
          PROVE  /\ i = 1 => start[i] \in Nat
                 /\ i # 1 /\ start[i - 1] \in Nat => start[i] \in Nat
      <3>1. i = 1 => start[i] \in Nat
        BY <1>9
      <3>2. ASSUME i # 1, start[i - 1] \in Nat PROVE start[i] \in Nat
        <4>1. i - 1 \in 1 .. n
          BY <1>1, <3>2
        <4>2. Len(texts[i - 1]) \in Nat /\ start[i] = start[i - 1] + Len(texts[i - 1]) + gap
          BY <1>2, <1>9, <3>2, <4>1
        <4> QED
          BY <3>2, <4>2
      <3> QED
        BY <3>1, <3>2
    <2> HIDE DEF n
    <2> QED
      BY <1>1, <2>1, StepsStayWithin
  <1>14. \A i \in 1 .. n : /\ spans[i] \in [start : Nat, end : Nat]
                           /\ spans[i].start = start[i] /\ spans[i].end = start[i] + Len(texts[i])
    BY <1>2, <1>10
  <1>15. spans = [i \in 1 .. n |-> spans[i]]
    OBVIOUS
  <1> HIDE DEF spans
  <1>17. spans \in Seq([start : Nat, end : Nat]) /\ Len(spans) = n
    <2> DEFINE Pairs == [start : Nat, end : Nat]
    <2>1. \A i \in 1 .. n : spans[i] \in Pairs
      BY <1>14
    <2> HIDE DEF Pairs, n
    <2>2. spans \in [1 .. n -> Pairs]
      BY <1>15, <2>1
    <2>3. spans \in Seq(Pairs) /\ Len(spans) = n
      BY <1>1, <2>2, FunctionIsSequence
    <2> QED
      BY <2>3 DEF Pairs
  <1>16. ASSUME NEW i \in 1 .. n
         PROVE  /\ spans[i].start \in Nat /\ spans[i].end \in Nat
                /\ spans[i].end = spans[i].start + Len(texts[i])
                /\ i = 1 => spans[i].start = 0
                /\ i # 1 => spans[i].start = spans[i - 1].end + gap
    <2>1. /\ spans[i].start \in Nat /\ spans[i].end \in Nat
          /\ spans[i].end = spans[i].start + Len(texts[i])
          /\ i = 1 => spans[i].start = 0
      BY <1>2, <1>9, <1>10, <1>14
    <2>2. ASSUME i # 1 PROVE spans[i].start = spans[i - 1].end + gap
      <3>1. i - 1 \in 1 .. n
        BY <1>1, <2>2
      <3>2. spans[i].start = start[i - 1] + Len(texts[i - 1]) + gap
        BY <1>1, <1>9, <1>14, <2>2
      <3> QED
        BY <1>14, <3>1, <3>2
    <2> QED
      BY <2>1, <2>2
  <1> QED
    BY <1>8, <1>16, <1>17 DEF Spanned

After(a, separator, x) == a \o separator \o x

\* text is made of the texts in their order, with the separator between.
Joins(S, texts, separator, text) ==
    \E joined \in [1 .. Len(texts) -> Seq(S)] :
        /\ text = joined[Len(texts)]
        /\ \A i \in 1 .. Len(texts) :
             joined[i] = IF i = 1 THEN texts[1] ELSE After(joined[i - 1], separator, texts[i])

\* The recursion both Joined and FlattenSeq are written with has a solution.
LEMMA JoiningIsDefined ==
    ASSUME NEW S, NEW texts \in Seq(Seq(S)), texts # <<>>, NEW separator \in Seq(S)
    PROVE  \E f \in [1 .. Len(texts) -> Seq(S)] :
             f = [i \in 1 .. Len(texts) |->
                    IF i = 1 THEN texts[1] ELSE After(f[i - 1], separator, texts[i])]
  <1> DEFINE n == Len(texts)
             step == [i \in Nat |-> [x \in Seq(S) |->
                        IF i \in 1 .. n THEN After(x, separator, texts[i]) ELSE <<>>]]
  <1>1. n \in Nat /\ texts[1] \in Seq(S) /\ \A i \in 1 .. n : texts[i] \in Seq(S)
    OBVIOUS
  <1>2. \A x \in Seq(S), y \in Seq(S) : After(x, separator, y) \in Seq(S)
    BY DEF After
  <1>3. <<>> \in Seq(S)
    OBVIOUS
  <1>4. step \in [Nat -> [Seq(S) -> Seq(S)]]
    BY <1>1, <1>2, <1>3
  <1>5. PICK f \in [1 .. n -> Seq(S)] : Climbs(f, n, texts[1], step)
    <2> DEFINE first == texts[1]
               A == Seq(S)
    <2>1. first \in A /\ step \in [Nat -> [A -> A]]
      BY <1>1, <1>4
    <2> HIDE DEF step, n, first, A
    <2>2. PICK f \in [1 .. n -> A] : Climbs(f, n, first, step)
      BY <1>1, <2>1, StepsDefine
    <2> QED
      BY <2>2 DEF first, A
  <1>6. \A i \in 1 .. n : i # 1 => step[i][f[i - 1]] = After(f[i - 1], separator, texts[i])
    <2> SUFFICES ASSUME NEW i \in 1 .. n, i # 1
                 PROVE  step[i][f[i - 1]] = After(f[i - 1], separator, texts[i])
      OBVIOUS
    <2>1. i \in Nat /\ i - 1 \in 1 .. n /\ f[i - 1] \in Seq(S)
      <3> HIDE DEF n, step
      <3>1. i \in Nat /\ i - 1 \in 1 .. n
        BY <1>1
      <3> QED
        BY <3>1
    <2> QED
      BY <2>1
  <1> HIDE DEF step
  <1>7. f = [i \in 1 .. n |-> IF i = 1 THEN texts[1] ELSE After(f[i - 1], separator, texts[i])]
    BY <1>5, <1>6 DEF Climbs
  <1> QED
    BY <1>7

\* And any solution joins.
LEMMA JoiningJoins ==
    ASSUME NEW S, NEW texts \in Seq(Seq(S)), texts # <<>>, NEW separator \in Seq(S),
           NEW f,
           f = [i \in 1 .. Len(texts) |-> f[i]],
           \A i \in 1 .. Len(texts) :
             /\ i = 1 => f[i] = texts[1]
             /\ i # 1 /\ f[i - 1] \in Seq(S) => f[i] = After(f[i - 1], separator, texts[i])
    PROVE  Joins(S, texts, separator, f[Len(texts)])
  <1> DEFINE n == Len(texts)
             A == Seq(S)
  <1>1. n \in Nat /\ \A i \in 1 .. n : texts[i] \in A
    OBVIOUS
  <1>2. \A x \in A, y \in A : After(x, separator, y) \in A
    BY DEF After
  <1>3. texts[1] \in A
    OBVIOUS
  <1> HIDE DEF A
  <1>4. ASSUME NEW i \in 1 .. n
        PROVE  /\ i = 1 => f[i] \in A
               /\ i # 1 /\ f[i - 1] \in A => f[i] \in A
    <2>1. texts[i] \in A
      BY <1>1
    <2> QED
      BY <1>2, <1>3, <2>1 DEF A
  <1> HIDE DEF n
  <1>5. \A i \in 1 .. n : f[i] \in A
    BY <1>1, <1>4, StepsStayWithin
  <1>6. f \in [1 .. n -> A]
    BY <1>5 DEF n
  <1>7. ASSUME NEW i \in 1 .. n, i # 1 PROVE f[i] = After(f[i - 1], separator, texts[i])
    <2>1. i - 1 \in 1 .. n
      BY <1>1, <1>7
    <2>2. f[i - 1] \in A
      BY <1>5, <2>1
    <2> QED
      BY <1>7, <2>2 DEF A, n
  <1> QED
    BY <1>6, <1>7 DEF A, n, Joins

\* str.join joins.
LEMMA JoinedJoins ==
    ASSUME NEW S, NEW texts \in Seq(Seq(S)), texts # <<>>, NEW separator \in Seq(S)
    PROVE  Joins(S, texts, separator, Joined(texts, separator))
  <1> DEFINE Grows(f) == f = [i \in 1 .. Len(texts) |->
                                IF i = 1 THEN texts[1] ELSE After(f[i - 1], separator, texts[i])]
             joined == CHOOSE f : Grows(f)
  <1>1. Joined(texts, separator) = joined[Len(texts)]
    BY DEF Joined, After
  <1>2. \E f : Grows(f)
    BY JoiningIsDefined
  <1>3. Grows(joined)
    <2> HIDE DEF Grows
    <2> QED
      BY <1>2
  <1> HIDE DEF joined
  <1>4. /\ joined = [i \in 1 .. Len(texts) |-> joined[i]]
        /\ \A i \in 1 .. Len(texts) :
             /\ i = 1 => joined[i] = texts[1]
             /\ i # 1 => joined[i] = After(joined[i - 1], separator, texts[i])
    BY <1>3
  <1> HIDE DEF Grows
  <1>5. Joins(S, texts, separator, joined[Len(texts)])
    BY <1>4, JoiningJoins
  <1> QED
    BY <1>1, <1>5

\* Flattening is joining with nothing between.
LEMMA FlatJoins ==
    ASSUME NEW S, NEW seqs \in Seq(Seq(S)), seqs # <<>>
    PROVE  Joins(S, seqs, <<>>, FlattenSeq(seqs))
  <1> DEFINE Grows(f) == f = [i \in 1 .. Len(seqs) |->
                                IF i = 1 THEN seqs[i] ELSE f[i - 1] \o seqs[i]]
             joined == CHOOSE f : Grows(f)
  <1>1. FlattenSeq(seqs) = joined[Len(seqs)]
    BY DEF FlattenSeq
  <1>2. <<>> \in Seq(S) /\ \A x \in Seq(S), y \in Seq(S) : After(x, <<>>, y) = x \o y
    BY DEF After
  <1>3. PICK f \in [1 .. Len(seqs) -> Seq(S)] :
          f = [i \in 1 .. Len(seqs) |->
                 IF i = 1 THEN seqs[1] ELSE After(f[i - 1], <<>>, seqs[i])]
    <2> DEFINE nothing == <<>>
    <2>1. nothing \in Seq(S)
      BY <1>2
    <2> HIDE DEF nothing, joined
    <2>2. \E f \in [1 .. Len(seqs) -> Seq(S)] :
             f = [i \in 1 .. Len(seqs) |->
                    IF i = 1 THEN seqs[1] ELSE After(f[i - 1], nothing, seqs[i])]
      BY <2>1, JoiningIsDefined
    <2> QED
      BY <2>2 DEF nothing
  <1>4. \A i \in 1 .. Len(seqs) : i # 1 => After(f[i - 1], <<>>, seqs[i]) = f[i - 1] \o seqs[i]
    <2> TAKE i \in 1 .. Len(seqs)
    <2> HAVE i # 1
    <2>1. i - 1 \in 1 .. Len(seqs) /\ seqs[i] \in Seq(S)
      OBVIOUS
    <2>2. f[i - 1] \in Seq(S)
      BY <2>1
    <2> QED
      BY <1>2, <2>1, <2>2
  <1>5. Grows(f)
    BY <1>3, <1>4
  <1>6. Grows(joined)
    <2> HIDE DEF Grows
    <2> QED
      BY <1>5
  <1> HIDE DEF joined
  <1>7. /\ joined = [i \in 1 .. Len(seqs) |-> joined[i]]
        /\ \A i \in 1 .. Len(seqs) :
             /\ i = 1 => joined[i] = seqs[1]
             /\ i # 1 => joined[i] = joined[i - 1] \o seqs[i]
    BY <1>6
  <1>8. \A i \in 1 .. Len(seqs) : seqs[i] \in Seq(S)
    OBVIOUS
  <1> HIDE DEF Grows
  <1>9. \A i \in 1 .. Len(seqs) :
          i # 1 /\ joined[i - 1] \in Seq(S) => joined[i] = After(joined[i - 1], <<>>, seqs[i])
    BY <1>2, <1>7, <1>8
  <1>10. Joins(S, seqs, <<>>, joined[Len(seqs)])
    BY <1>2, <1>7, <1>9, JoiningJoins
  <1> QED
    BY <1>1, <1>10

Together(a, x) == a \o x

\* Two sequences together, by their places.
LEMMA TogetherPlaces ==
    ASSUME NEW S, NEW a \in Seq(S), NEW x \in Seq(S)
    PROVE  /\ Together(a, x) \in Seq(S) /\ Len(Together(a, x)) = Len(a) + Len(x)
           /\ \A k \in 1 .. Len(a) + Len(x) :
                Together(a, x)[k] = IF k <= Len(a) THEN a[k] ELSE x[k - Len(a)]
  BY ConcatProperties DEF Together

\* t is a, then the separator, then x, by their places.
Follows(S, t, a, separator, x) ==
    /\ t \in Seq(S) /\ Len(t) = Len(a) + Len(separator) + Len(x)
    /\ \A k \in 1 .. Len(a) : t[k] = a[k]
    /\ \A k \in 1 .. Len(separator) : t[Len(a) + k] = separator[k]
    /\ \A k \in 1 .. Len(x) : t[Len(a) + Len(separator) + k] = x[k]

\* A sequence, a separator and another sequence follow each other.
LEMMA AfterPlaces ==
    ASSUME NEW S, NEW a \in Seq(S), NEW separator \in Seq(S), NEW x \in Seq(S)
    PROVE  Follows(S, After(a, separator, x), a, separator, x)
  <1> DEFINE s == Together(a, separator)
             t == After(a, separator, x)
             gap == Len(separator)
  <1>1. gap \in Nat /\ Len(a) \in Nat /\ Len(x) \in Nat
    OBVIOUS
  <1>2. /\ s \in Seq(S) /\ Len(s) = Len(a) + gap
        /\ \A k \in 1 .. (Len(a) + gap) : s[k] = IF k <= Len(a) THEN a[k] ELSE separator[k - Len(a)]
    BY TogetherPlaces
  <1>3. t = Together(s, x)
    BY DEF After, Together
  <1> HIDE DEF s, t, gap
  <1>4. /\ t \in Seq(S) /\ Len(t) = Len(s) + Len(x)
        /\ \A k \in 1 .. (Len(s) + Len(x)) : t[k] = IF k <= Len(s) THEN s[k] ELSE x[k - Len(s)]
    BY <1>2, <1>3, TogetherPlaces
  <1>5. \A k \in 1 .. Len(a) : t[k] = a[k]
    BY <1>1, <1>2, <1>4
  <1>6. \A k \in 1 .. gap : t[Len(a) + k] = separator[k]
    <2> TAKE k \in 1 .. gap
    <2>1. /\ Len(a) + k \in 1 .. (Len(a) + gap) /\ ~(Len(a) + k <= Len(a))
          /\ (Len(a) + k) - Len(a) = k /\ Len(a) + k \in 1 .. (Len(s) + Len(x))
          /\ Len(a) + k <= Len(s)
      BY <1>1, <1>2
    <2>2. s[Len(a) + k] = separator[k]
      BY <1>2, <2>1
    <2> QED
      BY <1>4, <2>1, <2>2
  <1>7. \A k \in 1 .. Len(x) : t[Len(a) + gap + k] = x[k]
    <2> TAKE k \in 1 .. Len(x)
    <2> DEFINE p == Len(a) + gap + k
    <2>1. p \in 1 .. (Len(s) + Len(x)) /\ ~(p <= Len(s)) /\ p - Len(s) = k
      BY <1>1, <1>2
    <2> HIDE DEF p
    <2>2. t[p] = x[k]
      BY <1>4, <2>1
    <2> QED
      BY <2>2 DEF p
  <1>8. t \in Seq(S) /\ Len(t) = Len(a) + gap + Len(x)
    BY <1>1, <1>2, <1>4
  <1> QED
    BY <1>5, <1>6, <1>7, <1>8 DEF t, gap, Follows

\* Each of the texts lies in the whole where its span says, the separator
\* after each but the last, and nothing else is there.
Laid(texts, text, spans, separator) ==
    LET n == Len(texts)
        gap == Len(separator)
    IN  /\ Len(text) = spans[n].end
        /\ \A i \in 1 .. n :
             /\ spans[i].end <= Len(text)
             /\ \A k \in 1 .. Len(texts[i]) : text[spans[i].start + k] = texts[i][k]
             /\ i # n => /\ spans[i].end + gap <= Len(text)
                         /\ \A k \in 1 .. gap : text[spans[i].end + k] = separator[k]
        /\ \A b \in 1 .. Len(text) :
             \E i \in 1 .. n : spans[i].start < b /\ b <= spans[i].end + gap

\* What is joined lies where SpansOf says.
LEMMA JoinedIsLaid ==
    ASSUME NEW S, NEW texts \in Seq(Seq(S)), texts # <<>>, NEW separator \in Seq(S),
           NEW text, Joins(S, texts, separator, text)
    PROVE  /\ text \in Seq(S)
           /\ Spanned(texts, SpansOf(texts, Len(separator)), Len(separator))
           /\ Laid(texts, text, SpansOf(texts, Len(separator)), separator)
  <1> DEFINE gap == Len(separator)
             spans == SpansOf(texts, gap)
             n == Len(texts)
  <1>1. n \in Nat /\ n # 0 /\ gap \in Nat /\ 1 \in 1 .. n /\ n \in 1 .. n
    OBVIOUS
  <1>2. Spanned(texts, spans, gap)
    BY SpansStep
  <1>3. PICK joined \in [1 .. n -> Seq(S)] :
          /\ text = joined[n]
          /\ \A i \in 1 .. n : joined[i] = IF i = 1 THEN texts[1]
                                           ELSE After(joined[i - 1], separator, texts[i])
    BY DEF Joins
  <1> HIDE DEF spans, n, gap
  <1>4. \A i \in 1 .. n :
           /\ texts[i] \in Seq(S) /\ Len(texts[i]) \in Nat
           /\ spans[i].start \in Nat /\ spans[i].end \in Nat
           /\ spans[i].end = spans[i].start + Len(texts[i])
           /\ i = 1 => spans[i].start = 0
           /\ i # 1 => spans[i].start = spans[i - 1].end + gap
    BY <1>2 DEF Spanned, n
  <1> DEFINE Sits(m) ==
               /\ Len(joined[m]) = spans[m].end
               /\ \A i \in 1 .. m :
                    /\ spans[i].end <= spans[m].end
                    /\ \A k \in 1 .. Len(texts[i]) : joined[m][spans[i].start + k] = texts[i][k]
                    /\ i # m => /\ spans[i].end + gap <= spans[m].end
                                /\ \A k \in 1 .. gap : joined[m][spans[i].end + k] = separator[k]
               /\ \A b \in 1 .. spans[m].end :
                    \E i \in 1 .. m : spans[i].start < b /\ b <= spans[i].end + gap
             P == {m \in Nat : m + 1 \in 1 .. n => Sits(m + 1)}
  <1>5. 0 \in P
    <2>1. joined[1] = texts[1] /\ spans[1].start = 0
          /\ spans[1].end = Len(texts[1]) /\ Len(texts[1]) \in Nat
      <3>1. spans[1].end = spans[1].start + Len(texts[1]) /\ Len(texts[1]) \in Nat
            /\ spans[1].start = 0
        BY <1>1, <1>4
      <3> QED
        BY <1>1, <1>3, <3>1
    <2>2. \A i \in 1 .. 1 : i = 1
      OBVIOUS
    <2>3. \A k \in 1 .. Len(texts[1]) : joined[1][spans[1].start + k] = texts[1][k]
      BY <2>1
    <2>4. \A b \in 1 .. spans[1].end :
            \E i \in 1 .. 1 : spans[i].start < b /\ b <= spans[i].end + gap
      BY <1>1, <2>1
    <2>5. Sits(1)
      BY <2>1, <2>2, <2>3, <2>4
    <2> HIDE DEF Sits
    <2> QED
      BY <2>5
  <1>6. ASSUME NEW m \in Nat, m \in P PROVE m + 1 \in P
    <2> DEFINE l == m + 1
               o == l + 1
    <2> SUFFICES ASSUME o \in 1 .. n PROVE Sits(o)
      BY DEF P
    <2>1. l \in Nat /\ o \in Nat /\ l \in 1 .. n /\ o # 1 /\ o - 1 = l /\ l + 1 = o /\ l # o
      BY <1>1
    <2>2. Sits(l)
      BY <1>6, <2>1
    <2> HIDE DEF P, l, o
    <2> DEFINE a == joined[l]
               x == texts[o]
               t == joined[o]
    <2>3. a \in Seq(S) /\ x \in Seq(S) /\ t = After(a, separator, x)
      BY <1>3, <1>4, <2>1
    <2> HIDE DEF x, t
    <2>4. /\ Len(t) = Len(a) + gap + Len(x)
          /\ \A k \in 1 .. Len(a) : t[k] = a[k]
          /\ \A k \in 1 .. gap : t[Len(a) + k] = separator[k]
          /\ \A k \in 1 .. Len(x) : t[Len(a) + gap + k] = x[k]
      <3> HIDE DEF a
      <3>1. separator \in Seq(S)
        OBVIOUS
      <3>2. Follows(S, After(a, separator, x), a, separator, x)
        BY <2>3, <3>1, AfterPlaces
      <3>3. Follows(S, t, a, separator, x)
        BY <2>3, <3>2
      <3> QED
        BY <3>3 DEF gap, Follows
    <2>5. /\ spans[o].start = Len(a) + gap /\ spans[o].end = spans[o].start + Len(x)
          /\ spans[l].end = Len(a) /\ Len(a) \in Nat /\ Len(x) \in Nat
          /\ spans[o].end = Len(a) + gap + Len(x)
      <3>1. spans[o].start = spans[l].end + gap /\ spans[o].end = spans[o].start + Len(x)
            /\ Len(x) \in Nat
        BY <1>4, <2>1 DEF x
      <3>2. spans[l].end = Len(a) /\ spans[l].end \in Nat
        BY <1>4, <2>1, <2>2
      <3> QED
        BY <3>1, <3>2
    <2>6. Len(t) = spans[o].end
      BY <2>4, <2>5
    <2>7. ASSUME NEW i \in 1 .. o
          PROVE  /\ spans[i].end <= spans[o].end
                 /\ \A k \in 1 .. Len(texts[i]) : t[spans[i].start + k] = texts[i][k]
                 /\ i # o => /\ spans[i].end + gap <= spans[o].end
                             /\ \A k \in 1 .. gap : t[spans[i].end + k] = separator[k]
      <3>1. CASE i = o
        <4>1. \A k \in 1 .. Len(x) : t[spans[o].start + k] = x[k]
          BY <2>4, <2>5
        <4>2. spans[o].end <= spans[o].end
          BY <1>4, <2>1
        <4> QED
          BY <3>1, <4>1, <4>2 DEF x
      <3>2. CASE i # o
        <4>1. i \in 1 .. l /\ i \in 1 .. n
          BY <1>1, <2>1, <3>2
        <4>2. /\ spans[i].end <= Len(a)
              /\ spans[i].start \in Nat /\ spans[i].end \in Nat /\ Len(texts[i]) \in Nat
              /\ spans[i].end = spans[i].start + Len(texts[i])
              /\ \A k \in 1 .. Len(texts[i]) : a[spans[i].start + k] = texts[i][k]
              /\ i # l => /\ spans[i].end + gap <= Len(a)
                          /\ \A k \in 1 .. gap : a[spans[i].end + k] = separator[k]
          BY <1>4, <2>2, <2>5, <4>1
        <4> HIDE DEF a
        <4>3. spans[i].end + gap <= spans[o].end /\ spans[i].end <= spans[o].end
          <5> DEFINE e == spans[i].end
                     z == spans[o].end
          <5>1. /\ e \in Nat /\ e <= Len(a) /\ z = Len(a) + gap + Len(x)
                /\ gap \in Nat /\ Len(a) \in Nat /\ Len(x) \in Nat
            BY <1>1, <2>5, <4>2
          <5> HIDE DEF e, z
          <5>2. e + gap <= z /\ e <= z
            BY <5>1
          <5> QED
            BY <5>2 DEF e, z
        <4>4. \A k \in 1 .. Len(texts[i]) : t[spans[i].start + k] = texts[i][k]
          <5> TAKE k \in 1 .. Len(texts[i])
          <5> DEFINE b == spans[i].start
                     e == spans[i].end
                     size == Len(texts[i])
          <5>2. /\ b \in Nat /\ e \in Nat /\ Len(a) \in Nat /\ size \in Nat
                /\ e = b + size /\ e <= Len(a) /\ k \in 1 .. size
            BY <2>5, <4>2
          <5> HIDE DEF b, e, size
          <5>1. spans[i].start + k \in 1 .. Len(a)
            <6>1. b + k \in 1 .. Len(a)
              BY <5>2
            <6> QED
              BY <6>1 DEF b
          <5> QED
            BY <2>4, <4>2, <5>1
        <4>5. \A k \in 1 .. gap : t[spans[i].end + k] = separator[k]
          <5>1. CASE i = l
            BY <2>4, <2>5, <5>1
          <5>2. CASE i # l
            <6> TAKE k \in 1 .. gap
            <6> DEFINE e == spans[i].end
            <6>2. e \in Nat /\ Len(a) \in Nat /\ e + gap <= Len(a) /\ gap \in Nat
              BY <1>1, <2>5, <4>2, <5>2
            <6> HIDE DEF e
            <6>3. e + k \in 1 .. Len(a)
              BY <6>2
            <6>1. spans[i].end + k \in 1 .. Len(a)
              BY <6>3 DEF e
            <6> QED
              BY <2>4, <4>2, <5>2, <6>1
          <5> QED
            BY <5>1, <5>2
        <4> QED
          BY <4>3, <4>4, <4>5
      <3> QED
        BY <3>1, <3>2
    <2>8. ASSUME NEW b \in 1 .. spans[o].end
          PROVE  \E i \in 1 .. o : spans[i].start < b /\ b <= spans[i].end + gap
      <3>1. CASE b <= Len(a)
        <4>1. b \in 1 .. spans[l].end
          BY <2>5, <3>1
        <4>2. PICK i \in 1 .. l : spans[i].start < b /\ b <= spans[i].end + gap
          BY <2>2, <4>1
        <4>3. i \in 1 .. o
          BY <2>1
        <4> QED
          BY <4>2, <4>3
      <3>2. CASE Len(a) < b /\ b <= Len(a) + gap
        <4>1. l \in 1 .. o
          BY <2>1
        <4>2. spans[l].start <= spans[l].end /\ spans[l].start \in Nat
          <5> DEFINE b0 == spans[l].start
                     e0 == spans[l].end
                     s0 == Len(texts[l])
          <5>1. b0 \in Nat /\ e0 = b0 + s0 /\ s0 \in Nat
            BY <1>4, <2>1
          <5> HIDE DEF b0, e0, s0
          <5>2. b0 <= e0 /\ b0 \in Nat
            BY <5>1
          <5> QED
            BY <5>2 DEF b0, e0
        <4> QED
          BY <2>5, <3>2, <4>1, <4>2
      <3>3. CASE Len(a) + gap < b
        <4>1. o \in 1 .. o
          BY <2>1
        <4>2. spans[o].start < b /\ b <= spans[o].end + gap
          BY <1>1, <2>5, <3>3
        <4> QED
          BY <4>1, <4>2
      <3>4. b <= Len(a) \/ (Len(a) < b /\ b <= Len(a) + gap) \/ Len(a) + gap < b
        <4> DEFINE c == Len(a)
                   z == spans[o].end
                   s == Len(x)
        <4>3. c \in Nat /\ gap \in Nat /\ s \in Nat /\ z = c + gap + s
          BY <1>1, <2>5
        <4>4. b \in 1 .. z
          OBVIOUS
        <4> HIDE DEF c, z, s
        <4>1. c \in Nat /\ gap \in Nat /\ z \in Nat /\ b \in 1 .. z
          BY <4>3, <4>4
        <4>2. b <= c \/ (c < b /\ b <= c + gap) \/ c + gap < b
          BY <4>1
        <4> QED
          BY <4>2 DEF c
      <3> QED
        BY <3>1, <3>2, <3>3, <3>4
    <2> QED
      BY <2>6, <2>7, <2>8 DEF t
  <1> HIDE DEF P
  <1>7. \A m \in Nat : m \in P
    BY <1>5, <1>6, NumbersByInduction
  <1>8. Sits(n)
    <2>1. n - 1 \in Nat /\ (n - 1) + 1 = n
      BY <1>1
    <2>2. n - 1 \in P
      BY <1>7, <2>1
    <2> HIDE DEF Sits
    <2> QED
      BY <1>1, <2>1, <2>2 DEF P
  <1>9. text \in Seq(S) /\ text = joined[n]
    BY <1>1, <1>3
  <1>10. Laid(texts, text, spans, separator)
    BY <1>8, <1>9 DEF Laid, n, gap
  <1> QED
    BY <1>2, <1>9, <1>10 DEF spans, gap

-----------------------------------------------------------------------------
(* Least and greatest, images, and stretches of numbers. *)

\* A finite set of numbers has its least and its greatest.
LEMMA Extremes ==
    ASSUME NEW at \in SUBSET Int, IsFiniteSet(at), at # {}
    PROVE  /\ Min(at) \in at /\ Max(at) \in at /\ Min(at) \in Int /\ Max(at) \in Int
           /\ \A i \in at : Min(at) <= i /\ i <= Max(at)
  <1> DEFINE n == Cardinality(at)
             f == Ordered(at)
  <1>1. Lists(f, n, at)
    BY OrderedLists
  <1> HIDE DEF n, f
  <1>2. /\ 1 \in 1 .. n /\ n \in 1 .. n /\ Min(at) = f[1] /\ Max(at) = f[n]
        /\ \A i \in at : f[1] <= i /\ i <= f[n]
    BY <1>1, ListEnds
  <1>3. f[1] \in at /\ f[n] \in at
    BY <1>1, <1>2 DEF Lists
  <1> QED
    BY <1>2, <1>3

\* What a function makes of a finite set is finite.
LEMMA ImageIsFinite ==
    ASSUME NEW S, IsFiniteSet(S), NEW f
    PROVE  IsFiniteSet({f[x] : x \in S})
  <1> DEFINE T == {f[x] : x \in S}
             g == [x \in S |-> f[x]]
  <1>1. g \in [S -> T] /\ \A t \in T : \E x \in S : g[x] = t
    OBVIOUS
  <1> HIDE DEF g, T
  <1>2. g \in Surjection(S, T)
    BY <1>1 DEF Surjection
  <1>3. IsFiniteSet(T)
    BY <1>2, FS_Surjection
  <1> QED
    BY <1>3 DEF T

\* one is at, cut into stretches: each as long as it can be, in order, and
\* none of at left out.
Cut(at, breaks, one) ==
    /\ one \in Seq([from : at, to : at])
    /\ \A r \in 1 .. Len(one) :
         LET from == one[r].from
             to   == one[r].to
         IN  /\ from \in at /\ to \in at /\ from <= to
             /\ from - 1 \notin at \/ from \in breaks
             /\ to + 1 \notin at \/ to + 1 \in breaks
             /\ \A i \in from .. to : i \in at
             /\ \A i \in (from + 1) .. to : i \notin breaks
    /\ \A r, s \in 1 .. Len(one) : r < s => one[r].to < one[s].from
    /\ \A i \in at : \E r \in 1 .. Len(one) : one[r].from <= i /\ i <= one[r].to

\* Stretches cuts.
LEMMA StretchesCut ==
    ASSUME NEW at \in SUBSET Int, IsFiniteSet(at), NEW breaks
    PROVE  Cut(at, breaks, Stretches(at, breaks))
  <1> DEFINE starts   == {i \in at : i - 1 \notin at \/ i \in breaks}
             within(i) == {j \in at : i <= j /\ (i + 1) .. j \subseteq at \ starts}
             reach(i) == Max(within(i))
             order    == Ordered(starts)
             n        == Cardinality(starts)
             one      == [r \in 1 .. n |-> [from |-> order[r], to |-> reach(order[r])]]
  <1>1. Stretches(at, breaks) = one
    BY DEF Stretches
  <1>2. starts \in SUBSET Int /\ starts \in SUBSET at /\ IsFiniteSet(starts)
    <2>1. starts \in SUBSET at
      OBVIOUS
    <2> QED
      BY <2>1, FS_Subset
  <1>3. ASSUME NEW i \in at
        PROVE  /\ reach(i) \in within(i) /\ reach(i) \in Int /\ i \in Int
               /\ \A j \in within(i) : j <= reach(i)
    <2>1. i \in Int /\ i <= i /\ (i + 1) .. i = {}
      OBVIOUS
    <2>2. within(i) \in SUBSET at /\ i \in within(i)
      BY <2>1
    <2>3. IsFiniteSet(within(i)) /\ within(i) \in SUBSET Int /\ within(i) # {}
      BY <2>2, FS_Subset
    <2> DEFINE W == within(i)
    <2> HIDE DEF W
    <2>4. Max(W) \in W /\ Max(W) \in Int /\ \A j \in W : j <= Max(W)
      BY <2>3, Extremes DEF W
    <2> QED
      BY <2>1, <2>4 DEF W
  <1>4. ASSUME NEW i \in at
        PROVE  /\ reach(i) \in at /\ i <= reach(i) /\ reach(i) \in Int /\ i \in Int
               /\ \A j \in (i + 1) .. reach(i) : j \in at /\ j \notin starts
    BY <1>3
  <1>5. ASSUME NEW i \in at, reach(i) + 1 \in at, reach(i) + 1 \notin starts
        PROVE  FALSE
    <2> DEFINE j == reach(i) + 1
    <2>1. i <= reach(i) /\ reach(i) \in Int /\ i \in Int
      BY <1>4
    <2>2. \A k \in (i + 1) .. j : k \in at /\ k \notin starts
      <3> TAKE k \in (i + 1) .. j
      <3>1. k = j \/ k \in (i + 1) .. reach(i)
        <4> HIDE DEF reach
        <4> QED
          BY <2>1
      <3> QED
        BY <1>4, <1>5, <3>1
    <2>3. j \in at /\ i <= j /\ ~(j <= reach(i))
      <3> HIDE DEF reach
      <3> QED
        BY <1>5, <2>1
    <2>4. j \in within(i)
      <3> HIDE DEF reach, starts, j
      <3> QED
        BY <2>2, <2>3
    <2> QED
      BY <1>3, <2>3, <2>4
  <1>6. Lists(order, n, starts)
    BY <1>2, OrderedLists
  <1>7. /\ n \in Nat
        /\ \A r \in 1 .. n : order[r] \in starts /\ order[r] \in at /\ order[r] \in Int
        /\ \A r, s \in 1 .. n : r < s => order[r] < order[s]
        /\ \A i \in starts : \E r \in 1 .. n : order[r] = i
    BY <1>2, <1>6 DEF Lists
  <1>8. \A i \in at : i \in starts <=> i - 1 \notin at \/ i \in breaks
    OBVIOUS
  <1>9. ASSUME NEW i \in at
        PROVE  \E s \in starts : s <= i /\ i <= reach(s)
    <2> DEFINE U == {j \in at : j <= i /\ j .. i \subseteq at}
               m == Min(U)
               T == {j \in starts : m <= j /\ j <= i}
               s == Max(T)
    <2>1. i \in Int /\ i .. i = {i}
      OBVIOUS
    <2>2. i \in U /\ U \in SUBSET at
      BY <2>1
    <2>3. IsFiniteSet(U) /\ U \in SUBSET Int /\ U # {}
      BY <2>2, FS_Subset
    <2>4. m \in U /\ m \in Int /\ \A j \in U : m <= j
      <3> HIDE DEF U
      <3> QED
        BY <2>3, Extremes
    <2>5. m \in at /\ m <= i /\ \A j \in m .. i : j \in at
      BY <2>4
    <2>6. m - 1 \notin at
      <3> SUFFICES ASSUME m - 1 \in at PROVE FALSE
        OBVIOUS
      <3> HIDE DEF m
      <3>1. m - 1 <= i /\ ~(m <= m - 1)
        BY <2>1, <2>4, <2>5
      <3>2. \A j \in (m - 1) .. i : j \in at
        <4> TAKE j \in (m - 1) .. i
        <4>1. j = m - 1 \/ j \in m .. i
          BY <2>1, <2>4
        <4> QED
          BY <2>5, <4>1
      <3>3. m - 1 \in U
        BY <3>1, <3>2
      <3> QED
        BY <2>4, <3>1, <3>3
    <2> HIDE DEF U, m
    <2>7. m \in T
      <3>1. m \in starts
        BY <1>8, <2>5, <2>6
      <3> HIDE DEF starts
      <3> QED
        BY <2>4, <2>5, <3>1
    <2>8. T \in SUBSET starts
      OBVIOUS
    <2>9. IsFiniteSet(T) /\ T \in SUBSET Int /\ T # {}
      BY <1>2, <2>7, <2>8, FS_Subset
    <2>10. s \in T /\ s \in Int /\ \A j \in T : j <= s
      <3> HIDE DEF T
      <3> QED
        BY <2>9, Extremes
    <2>11. s \in starts /\ m <= s /\ s <= i
      BY <2>10
    <2> HIDE DEF s
    <2>12. \A j \in (s + 1) .. i : j \in at /\ j \notin starts
      <3> TAKE j \in (s + 1) .. i
      <3>1. j \in m .. i /\ j \in Int /\ ~(j <= s) /\ m <= j /\ j <= i
        BY <2>1, <2>4, <2>10, <2>11
      <3>2. j \notin T
        BY <2>10, <3>1
      <3> HIDE DEF starts
      <3> QED
        BY <2>5, <3>1, <3>2
    <2>13. i \in within(s)
      <3> HIDE DEF starts
      <3> QED
        BY <2>11, <2>12
    <2>14. s \in at
      BY <1>2, <2>11
    <2>15. i <= reach(s)
      BY <1>3, <2>13, <2>14
    <2> QED
      BY <2>11, <2>15
  <1>10. \A r \in 1 .. n : one[r].from = order[r] /\ one[r].to = reach(order[r])
    OBVIOUS
  <1> HIDE DEF starts, within, reach, order, n
  <1>11. one \in Seq([from : at, to : at]) /\ Len(one) = n
    <2>1. \A r \in 1 .. n : one[r] \in [from : at, to : at]
      BY <1>4, <1>7
    <2> QED
      BY <1>7, <2>1
  <1> HIDE DEF one
  <1>12. ASSUME NEW r \in 1 .. n
         PROVE  LET from == one[r].from
                    to   == one[r].to
                IN  /\ from \in at /\ to \in at /\ from <= to
                    /\ from - 1 \notin at \/ from \in breaks
                    /\ to + 1 \notin at \/ to + 1 \in breaks
                    /\ \A i \in from .. to : i \in at
                    /\ \A i \in (from + 1) .. to : i \notin breaks
    <2> DEFINE f == one[r].from
               t == one[r].to
    <2>1. f \in starts /\ f \in at /\ f \in Int /\ t = reach(f)
      BY <1>7, <1>10
    <2>2. /\ t \in at /\ f <= t /\ t \in Int
          /\ \A j \in (f + 1) .. t : j \in at /\ j \notin starts
      BY <1>4, <2>1
    <2>3. ~(t + 1 \in at /\ t + 1 \notin starts)
      BY <1>5, <2>1
    <2> HIDE DEF f, t
    <2>4. \A i \in f .. t : i \in at
      <3> TAKE i \in f .. t
      <3>1. i = f \/ i \in (f + 1) .. t
        BY <2>1, <2>2
      <3> QED
        BY <2>1, <2>2, <3>1
    <2>5. \A i \in (f + 1) .. t : i \notin breaks
      BY <1>8, <2>2
    <2>6. t + 1 \notin at \/ t + 1 \in breaks
      <3> SUFFICES ASSUME t + 1 \in at PROVE t + 1 \in breaks
        OBVIOUS
      <3>1. t + 1 \in starts /\ (t + 1) - 1 = t
        BY <2>2, <2>3
      <3> QED
        BY <1>8, <2>2, <3>1
    <2>7. f - 1 \notin at \/ f \in breaks
      BY <1>8, <2>1
    <2> QED
      BY <2>1, <2>2, <2>4, <2>5, <2>6, <2>7 DEF f, t
  <1>13. ASSUME NEW r \in 1 .. n, NEW s \in 1 .. n, r < s PROVE one[r].to < one[s].from
    <2> DEFINE t == one[r].to
               f == one[s].from
               e == one[r].from
    <2>1. /\ e \in at /\ e \in Int /\ t = reach(e) /\ f \in starts /\ f \in Int /\ e < f
      BY <1>7, <1>10, <1>13
    <2>2. /\ t \in Int /\ e <= t /\ \A j \in (e + 1) .. t : j \notin starts
      BY <1>4, <2>1
    <2> HIDE DEF t, f, e
    <2>3. t < f
      <3>1. f <= t => f \in (e + 1) .. t
        BY <2>1, <2>2
      <3> QED
        BY <2>1, <2>2, <3>1
    <2> QED
      BY <2>3 DEF t, f
  <1>14. ASSUME NEW i \in at PROVE \E r \in 1 .. n : one[r].from <= i /\ i <= one[r].to
    <2>1. PICK s \in starts : s <= i /\ i <= reach(s)
      BY <1>9
    <2>2. PICK r \in 1 .. n : order[r] = s
      BY <1>7
    <2>3. one[r].from = s /\ one[r].to = reach(s)
      BY <1>10, <2>2
    <2> QED
      BY <2>1, <2>3
  <1>15. Cut(at, breaks, one)
    BY <1>11, <1>12, <1>13, <1>14 DEF Cut
  <1> QED
    BY <1>1, <1>15

-----------------------------------------------------------------------------
(* The rows of a page. *)

\* Rows that hold all the words, each within the tolerance of its first and
\* further from the next than that.
Rowed(words, rows, firsts) ==
    /\ rows \in Seq(SUBSET words) /\ firsts \in Seq(Int) /\ Len(firsts) = Len(rows)
    /\ \A w \in words : \E i \in 1 .. Len(rows) : w \in rows[i]
    /\ \A i \in 1 .. Len(rows) :
         /\ rows[i] # {}
         /\ \A w \in rows[i] : firsts[i] <= w.top /\ w.top <= firsts[i] + RowTolerance
    /\ \A i, j \in 1 .. Len(rows) : i < j => firsts[i] + RowTolerance < firsts[j]

\* The first top of each row, as _rows carries it from word to word.
Carried(first, tops, n) ==
    first = [k \in 1 .. n |->
               IF k > 1 /\ tops[k] - first[k - 1] <= RowTolerance THEN first[k - 1] ELSE tops[k]]

\* There is such a function,
LEMMA CarriedIsDefined ==
    ASSUME NEW n \in Nat, NEW tops \in [1 .. n -> Int]
    PROVE  \E first : Carried(first, tops, n)
  <1> DEFINE start == IF n = 0 THEN 0 ELSE tops[1]
             step == [i \in Nat |-> [x \in Int |->
                        IF i \in 1 .. n /\ ~(tops[i] - x <= RowTolerance) THEN tops[i] ELSE x]]
  <1>1. start \in Int /\ (n # 0 => start = tops[1])
    OBVIOUS
  <1>2. step \in [Nat -> [Int -> Int]]
    OBVIOUS
  <1>3. PICK f \in [1 .. n -> Int] : Climbs(f, n, start, step)
    <2> HIDE DEF start, step
    <2> QED
      BY <1>1, <1>2, StepsDefine
  <1>4. ASSUME NEW k \in 1 .. n
        PROVE  f[k] = IF k > 1 /\ tops[k] - f[k - 1] <= RowTolerance THEN f[k - 1] ELSE tops[k]
    <2>1. CASE k = 1
      BY <1>1, <1>3, <2>1 DEF Climbs
    <2>2. CASE k # 1
      <3>1. k - 1 \in 1 .. n /\ k > 1 /\ k \in Nat
        BY <2>2
      <3>2. f[k - 1] \in Int /\ f[k] = step[k][f[k - 1]]
        BY <1>3, <2>2, <3>1 DEF Climbs
      <3>3. step[k][f[k - 1]] = IF ~(tops[k] - f[k - 1] <= RowTolerance) THEN tops[k] ELSE f[k - 1]
        BY <3>1, <3>2
      <3> QED
        BY <3>1, <3>2, <3>3
    <2> QED
      BY <2>1, <2>2
  <1> QED
    BY <1>3, <1>4 DEF Carried

\* and it stays within the tolerance, or leaves it for good.
LEMMA CarriedKeepsApart ==
    ASSUME NEW n \in Nat, NEW tops \in [1 .. n -> Int],
           \A l, k \in 1 .. n : l < k => tops[l] < tops[k],
           NEW first, Carried(first, tops, n)
    PROVE  /\ first \in [1 .. n -> Int]
           /\ \A k \in 1 .. n : first[k] <= tops[k] /\ tops[k] <= first[k] + RowTolerance
           /\ \A l, k \in 1 .. n : l <= k => \/ first[l] = first[k]
                                             \/ first[l] + RowTolerance < first[k]
  <1>0. RowTolerance \in Nat
    BY ReadingOrderAssumption
  <1>1. /\ first = [k \in 1 .. n |-> first[k]]
        /\ \A k \in 1 .. n :
             first[k] = IF k > 1 /\ tops[k] - first[k - 1] <= RowTolerance
                          THEN first[k - 1] ELSE tops[k]
    BY DEF Carried
  <1>2. \A k \in 1 .. n : first[k] \in Int
    <2>1. ASSUME NEW k \in 1 .. n
          PROVE  /\ k = 1 => first[k] \in Int
                 /\ k # 1 /\ first[k - 1] \in Int => first[k] \in Int
      <3>1. /\ tops[k] \in Int
            /\ first[k] = tops[k] \/ (k > 1 /\ first[k] = first[k - 1])
        BY <1>1
      <3> QED
        BY <3>1
    <2> QED
      BY <2>1, StepsStayWithin
  <1>3. ASSUME NEW k \in 1 .. n, k # 1
        PROVE  /\ k - 1 \in 1 .. n
               /\ \/ first[k] = first[k - 1] /\ tops[k] <= first[k] + RowTolerance
                  \/ first[k] = tops[k] /\ first[k - 1] + RowTolerance < first[k]
    <2>1. k - 1 \in 1 .. n /\ k > 1
      BY <1>3
    <2>2. tops[k] \in Int /\ first[k - 1] \in Int /\ first[k] \in Int
      BY <1>2, <2>1
    <2>3. CASE tops[k] - first[k - 1] <= RowTolerance
      <3>1. first[k] = first[k - 1]
        BY <1>1, <2>1, <2>3
      <3>2. tops[k] <= first[k] + RowTolerance
        BY <1>0, <2>2, <2>3, <3>1
      <3> QED
        BY <2>1, <3>1, <3>2
    <2>4. CASE ~(tops[k] - first[k - 1] <= RowTolerance)
      <3>1. first[k] = tops[k]
        BY <1>1, <2>1, <2>4
      <3>2. first[k - 1] + RowTolerance < first[k]
        BY <1>0, <2>2, <2>4, <3>1
      <3> QED
        BY <2>1, <3>1, <3>2
    <2> QED
      BY <2>3, <2>4
  <1>4. first \in [1 .. n -> Int]
    BY <1>1, <1>2
  <1>5. ASSUME NEW l \in 1 .. n, NEW k \in 1 .. n, l <= k
        PROVE  \/ first[l] = first[k] \/ first[l] + RowTolerance < first[k]
    <2> DEFINE P == {m \in Nat : l + m \in 1 .. n =>
                       first[l] = first[l + m] \/ first[l] + RowTolerance < first[l + m]}
    <2>1. 0 \in P
      OBVIOUS
    <2>2. ASSUME NEW m \in Nat, m \in P PROVE m + 1 \in P
      <3> SUFFICES ASSUME l + (m + 1) \in 1 .. n
                   PROVE  \/ first[l] = first[l + (m + 1)]
                          \/ first[l] + RowTolerance < first[l + (m + 1)]
        OBVIOUS
      <3> DEFINE p == l + (m + 1)
      <3>1. p \in 1 .. n /\ p # 1 /\ p - 1 = l + m /\ l + m \in 1 .. n
        OBVIOUS
      <3>2. first[l] = first[p - 1] \/ first[l] + RowTolerance < first[p - 1]
        BY <2>2, <3>1
      <3> HIDE DEF p
      <3>3. first[p] = first[p - 1] \/ first[p - 1] + RowTolerance < first[p]
        BY <1>3, <3>1
      <3>4. first[l] \in Int /\ first[p - 1] \in Int /\ first[p] \in Int
        BY <1>2, <3>1
      <3>5. first[l] = first[p] \/ first[l] + RowTolerance < first[p]
        BY <1>0, <3>2, <3>3, <3>4
      <3> QED
        BY <3>5 DEF p
    <2> HIDE DEF P
    <2>3. \A m \in Nat : m \in P
      BY <2>1, <2>2, NumbersByInduction
    <2>4. k - l \in Nat /\ l + (k - l) = k
      BY <1>5
    <2> QED
      BY <2>3, <2>4 DEF P
  <1>6. \A k \in 1 .. n : first[k] <= tops[k]
    <2> DEFINE g == [k \in 1 .. n |-> tops[k] - first[k]]
    <2>1. ASSUME NEW k \in 1 .. n
          PROVE  /\ k = 1 => g[k] \in Nat
                 /\ k # 1 /\ g[k - 1] \in Nat => g[k] \in Nat
      <3>1. tops[k] \in Int /\ first[k] \in Int /\ g[k] = tops[k] - first[k]
        BY <1>2
      <3>2. first[k] = tops[k] => g[k] \in Nat
        BY <3>1
      <3>3. k = 1 => first[k] = tops[k]
        <4>1. k = 1 => ~(k > 1)
          OBVIOUS
        <4> QED
          BY <1>1, <4>1
      <3>4. ASSUME k # 1, g[k - 1] \in Nat, first[k] # tops[k] PROVE g[k] \in Nat
        <4>1. first[k] = first[k - 1] /\ k - 1 \in 1 .. n /\ k - 1 < k
          BY <1>3, <3>4
        <4>2. /\ tops[k - 1] \in Int /\ tops[k - 1] < tops[k]
              /\ g[k - 1] = tops[k - 1] - first[k - 1] /\ first[k - 1] \in Int
          BY <1>2, <4>1
        <4> HIDE DEF g
        <4> QED
          BY <3>1, <3>4, <4>1, <4>2
      <3> HIDE DEF g
      <3> QED
        BY <3>2, <3>3, <3>4
    <2> HIDE DEF g
    <2>2. \A k \in 1 .. n : g[k] \in Nat
      BY <2>1, StepsStayWithin
    <2> USE DEF g
    <2> TAKE k \in 1 .. n
    <2>3. tops[k] - first[k] \in Nat /\ tops[k] \in Int /\ first[k] \in Int
      BY <1>2, <2>2
    <2> QED
      BY <2>3
  <1>7. ASSUME NEW k \in 1 .. n PROVE tops[k] <= first[k] + RowTolerance
    <2>1. tops[k] \in Int /\ first[k] \in Int
      BY <1>2
    <2>2. CASE first[k] = tops[k]
      BY <1>0, <2>1, <2>2
    <2>3. CASE first[k] # tops[k]
      <3>1. k # 1
        <4>1. k > 1
          BY <1>1, <2>3
        <4> QED
          BY <4>1
      <3> QED
        BY <1>3, <2>3, <3>1
    <2> QED
      BY <2>2, <2>3
  <1> QED
    BY <1>4, <1>5, <1>6, <1>7

\* Rows makes such rows.
LEMMA RowsAreRowed ==
    ASSUME NEW words \in SUBSET Words, IsFiniteSet(words)
    PROVE  \E firsts : Rowed(words, Rows(words), firsts)
  <1> DEFINE at == {w.top : w \in words}
             tops == Ordered(at)
             n == Cardinality(at)
             Carry(f) == f = [k \in DOMAIN tops |->
                                IF k > 1 /\ tops[k] - f[k - 1] <= RowTolerance
                                  THEN f[k - 1] ELSE tops[k]]
             first == CHOOSE f : Carry(f)
             begin == {first[k] : k \in DOMAIN tops}
             firsts == Ordered(begin)
             m == Cardinality(begin)
             row(top) == {w \in words : \E k \in DOMAIN tops : tops[k] = w.top /\ first[k] = top}
             rows == [r \in DOMAIN firsts |-> row(firsts[r])]
  <1>1. Rows(words) = rows
    BY DEF Rows
  <1>2. at \in SUBSET Int /\ IsFiniteSet(at) /\ \A w \in words : w.top \in Int /\ w.top \in at
    <2>1. \A w \in words : w.top \in Int
      BY DEF Words
    <2> DEFINE top == [w \in words |-> w.top]
    <2>2. at = {top[w] : w \in words}
      OBVIOUS
    <2> HIDE DEF top
    <2>3. IsFiniteSet({top[w] : w \in words})
      BY ImageIsFinite
    <2> QED
      BY <2>1, <2>2, <2>3
  <1> HIDE DEF at
  <1>3. Lists(tops, n, at)
    BY <1>2, OrderedLists
  <1>4. /\ n \in Nat /\ tops \in [1 .. n -> Int] /\ DOMAIN tops = 1 .. n
        /\ \A l, k \in 1 .. n : l < k => tops[l] < tops[k]
        /\ \A i \in at : \E k \in 1 .. n : tops[k] = i
    <2> HIDE DEF tops, n
    <2>1. \A k \in 1 .. n : tops[k] \in Int
      BY <1>2, <1>3 DEF Lists
    <2> QED
      BY <1>3, <2>1 DEF Lists
  <1> HIDE DEF tops, n
  <1>5. \A f : Carry(f) <=> Carried(f, tops, n)
    BY <1>4 DEF Carried
  <1>6. Carried(first, tops, n)
    <2>1. \E f : Carry(f)
      BY <1>4, <1>5, CarriedIsDefined
    <2>2. Carry(first)
      <3> HIDE DEF Carry
      <3> QED
        BY <2>1
    <2> HIDE DEF first, Carry
    <2> QED
      BY <1>5, <2>2
  <1> HIDE DEF first, Carry
  <1>7. /\ first \in [1 .. n -> Int]
        /\ \A k \in 1 .. n : first[k] <= tops[k] /\ tops[k] <= first[k] + RowTolerance
        /\ \A l, k \in 1 .. n : l <= k => first[l] = first[k] \/ first[l] + RowTolerance < first[k]
    BY <1>4, <1>6, CarriedKeepsApart
  <1>8. begin \in SUBSET Int /\ IsFiniteSet(begin)
    <2>1. IsFiniteSet(1 .. n)
      BY <1>4, FS_Interval
    <2>2. IsFiniteSet({first[k] : k \in 1 .. n})
      BY <2>1, ImageIsFinite
    <2> QED
      BY <1>4, <1>7, <2>2
  <1>9. \A b : b \in begin <=> \E k \in 1 .. n : first[k] = b
    BY <1>4
  <1> HIDE DEF begin
  <1>10. Lists(firsts, m, begin)
    BY <1>8, OrderedLists
  <1> HIDE DEF firsts, m
  <1>11. /\ m \in Nat /\ firsts \in [1 .. m -> Int] /\ DOMAIN firsts = 1 .. m
         /\ \A i \in 1 .. m : firsts[i] \in begin
         /\ \A i, j \in 1 .. m : i < j => firsts[i] < firsts[j]
         /\ \A b \in begin : \E i \in 1 .. m : firsts[i] = b
    <2>1. \A i \in 1 .. m : firsts[i] \in Int
      BY <1>8, <1>10 DEF Lists
    <2> QED
      BY <1>10, <2>1 DEF Lists
  <1>12. \A i \in 1 .. m : rows[i] = row(firsts[i])
    BY <1>11
  <1>13. \A i \in 1 .. m : rows[i] \in SUBSET words
    BY <1>12
  <1>14. rows \in Seq(SUBSET words) /\ Len(rows) = m
    <2> DEFINE Sets == SUBSET words
    <2>1. rows \in [1 .. m -> Sets]
      BY <1>11, <1>13
    <2> HIDE DEF Sets, rows
    <2>2. rows \in Seq(Sets) /\ Len(rows) = m
      BY <1>11, <2>1, FunctionIsSequence
    <2> QED
      BY <2>2 DEF Sets
  <1>15. ASSUME NEW i \in 1 .. m, NEW w
         PROVE  w \in rows[i] <=> w \in words /\ \E k \in 1 .. n : tops[k] = w.top
                                                                    /\ first[k] = firsts[i]
    BY <1>4, <1>12
  <1> HIDE DEF rows, row
  <1>16. ASSUME NEW w \in words PROVE \E i \in 1 .. m : w \in rows[i]
    <2>1. PICK k \in 1 .. n : tops[k] = w.top
      BY <1>2, <1>4
    <2>2. first[k] \in begin
      BY <1>9
    <2>3. PICK i \in 1 .. m : firsts[i] = first[k]
      BY <1>11, <2>2
    <2> QED
      BY <1>15, <2>1, <2>3
  <1>17. ASSUME NEW i \in 1 .. m
         PROVE  /\ rows[i] # {}
                /\ \A w \in rows[i] : firsts[i] <= w.top /\ w.top <= firsts[i] + RowTolerance
    <2>1. PICK k \in 1 .. n : first[k] = firsts[i]
      BY <1>9, <1>11
    <2>2. tops[k] \in at
      BY <1>3 DEF Lists
    <2>3. PICK w \in words : tops[k] = w.top
      BY <2>2 DEF at
    <2>4. w \in rows[i]
      BY <1>15, <2>1, <2>3
    <2>5. ASSUME NEW v \in rows[i]
          PROVE  firsts[i] <= v.top /\ v.top <= firsts[i] + RowTolerance
      <3>1. PICK l \in 1 .. n : tops[l] = v.top /\ first[l] = firsts[i]
        BY <1>15
      <3> QED
        BY <1>7, <3>1
    <2> QED
      BY <2>4, <2>5
  <1>18. ASSUME NEW i \in 1 .. m, NEW j \in 1 .. m, i < j
         PROVE  firsts[i] + RowTolerance < firsts[j]
    <2>1. firsts[i] \in Int /\ firsts[j] \in Int /\ firsts[i] < firsts[j]
          /\ RowTolerance \in Nat
      BY <1>11, <1>18, ReadingOrderAssumption
    <2>2. PICK l \in 1 .. n : first[l] = firsts[i]
      BY <1>9, <1>11
    <2>3. PICK k \in 1 .. n : first[k] = firsts[j]
      BY <1>9, <1>11
    <2>4. l \in Int /\ k \in Int
      OBVIOUS
    <2>5. CASE l <= k
      BY <1>7, <2>1, <2>2, <2>3, <2>5
    <2>6. CASE k <= l
      <3>1. firsts[j] = firsts[i] \/ firsts[j] + RowTolerance < firsts[i]
        BY <1>7, <2>2, <2>3, <2>6
      <3> QED
        BY <2>1, <3>1
    <2> QED
      BY <2>4, <2>5, <2>6
  <1>19. firsts \in Seq(Int) /\ Len(firsts) = m
    BY <1>11, FunctionIsSequence
  <1>20. Rowed(words, rows, firsts)
    BY <1>14, <1>16, <1>17, <1>18, <1>19 DEF Rowed
  <1> QED
    BY <1>1, <1>20

-----------------------------------------------------------------------------
(* The text of some words, and the boxes under it. *)

\* Joined or flattened, sequences are one sequence of what they hold.
LEMMA JoinedIsSequence ==
    ASSUME NEW S, NEW texts \in Seq(Seq(S)), NEW separator \in Seq(S)
    PROVE  Joined(texts, separator) \in Seq(S) /\ FlattenSeq(texts) \in Seq(S)
  <1>1. CASE texts = <<>>
    <2>1. Joined(texts, separator) = <<>> /\ FlattenSeq(texts) = <<>>
      BY <1>1 DEF Joined, FlattenSeq
    <2> QED
      BY <2>1
  <1>2. CASE texts # <<>>
    <2>1. Joined(texts, separator) \in Seq(S)
      BY <1>2, JoinedJoins, JoinedIsLaid
    <2>2. FlattenSeq(texts) \in Seq(S)
      <3> DEFINE nothing == <<>>
                 flat == FlattenSeq(texts)
      <3>1. nothing \in Seq(S) /\ Joins(S, texts, nothing, flat)
        BY <1>2, FlatJoins
      <3> HIDE DEF nothing, flat
      <3>2. flat \in Seq(S)
        BY <1>2, <3>1, JoinedIsLaid
      <3> QED
        BY <3>2 DEF flat
    <2> QED
      BY <2>1, <2>2
  <1> QED
    BY <1>1, <1>2

\* A finite set can be listed.
LEMMA SetToSeqIsSequence ==
    ASSUME NEW S, IsFiniteSet(S)
    PROVE  SetToSeq(S) \in Seq(S)
  <1> DEFINE n == Cardinality(S)
  <1>1. n \in Nat /\ ExistsBijection(1 .. n, S)
    BY FS_CardinalityType
  <1>2. PICK f : f \in Bijection(1 .. n, S)
    BY <1>1 DEF ExistsBijection
  <1>3. \E list \in [1 .. n -> S] : IsInjective(list)
    BY <1>2 DEF Bijection, Injection
  <1>4. SetToSeq(S) \in [1 .. n -> S]
    BY <1>3 DEF SetToSeq
  <1> QED
    BY <1>1, <1>4, FunctionIsSequence

\* The ink of some words, and the characters it may stand under.
Ink(words) == [word : SUBSET words, glyph : Nat]

Shows(box, words, char) ==
    /\ box \in Ink(words)
    /\ \E w \in words : /\ box.word = {w} /\ box.glyph \in 1 .. Len(w.text)
                        /\ w.text[box.glyph] = char

\* What the text map of some words is made of.
Entries(words) ==
    {e \in [char : Characters, ink : Ink(words)] :
        e.ink # NoInk => Shows(e.ink, words, e.char)}

\* The runs whose boxes each show the character they are over.
RunsOver(words, text) ==
    {x \in [start : Nat, boxes : Seq(Ink(words))] :
        \A k \in 1 .. Len(x.boxes) :
            x.start + k \in 1 .. Len(text) /\ Shows(x.boxes[k], words, text[x.start + k])}

\* The glyphs of a word are entries, and so is a separator.
LEMMA GlyphsAreEntries ==
    ASSUME NEW words \in SUBSET Words
    PROVE  /\ \A w \in words : Glyphs(w) \in Seq(Entries(words))
           /\ \A c \in Characters : Separator(c) \in Seq(Entries(words))
  <1>1. ASSUME NEW w \in words PROVE Glyphs(w) \in Seq(Entries(words))
    <2> DEFINE box(k) == [word |-> {w}, glyph |-> k]
               e(k) == [char |-> w.text[k], ink |-> box(k)]
    <2>1. w.text \in Seq(Characters) /\ Len(w.text) \in Nat
      BY DEF Words, Texts
    <2>2. ASSUME NEW k \in 1 .. Len(w.text) PROVE e(k) \in Entries(words)
      <3>1. k \in Nat /\ w.text[k] \in Characters /\ {w} \in SUBSET words
        BY <2>1
      <3>2. box(k) \in Ink(words)
        BY <3>1 DEF Ink
      <3>3. Shows(box(k), words, w.text[k])
        BY <3>1, <3>2 DEF Shows
      <3>4. /\ e(k) \in [char : Characters, ink : Ink(words)]
            /\ e(k).ink = box(k) /\ e(k).char = w.text[k]
        BY <3>1, <3>2
      <3> HIDE DEF e
      <3> QED
        BY <3>3, <3>4 DEF Entries
    <2>3. Glyphs(w) = [k \in 1 .. Len(w.text) |-> e(k)]
      BY DEF Glyphs
    <2> HIDE DEF e
    <2> QED
      BY <2>1, <2>2, <2>3
  <1>2. ASSUME NEW c \in Characters PROVE Separator(c) \in Seq(Entries(words))
    <2> DEFINE e == [char |-> c, ink |-> NoInk]
    <2>1. NoInk \in Ink(words)
      BY DEF NoInk, Ink
    <2>2. e \in [char : Characters, ink : Ink(words)] /\ e.ink = NoInk
      BY <2>1
    <2>3. e \in Entries(words)
      BY <2>2 DEF Entries
    <2>4. Separator(c) = <<e>>
      BY DEF Separator
    <2> HIDE DEF e
    <2> QED
      BY <2>3, <2>4
  <1> QED
    BY <1>1, <1>2

\* Across lists words of the row.
LEMMA AcrossIsSequence ==
    ASSUME NEW row \in SUBSET Words, IsFiniteSet(row)
    PROVE  Across(row) \in Seq(row)
  <1> DEFINE at == {w.x0 : w \in row}
             lefts == Ordered(at)
             n == Cardinality(at)
             here(k) == {w \in row : w.x0 = lefts[k]}
             parts == [k \in DOMAIN lefts |-> SetToSeq(here(k))]
  <1>1. Across(row) = FlattenSeq(parts)
    BY DEF Across
  <1>2. IsFiniteSet(at)
    <2> DEFINE x0 == [w \in row |-> w.x0]
    <2>1. at = {x0[w] : w \in row}
      OBVIOUS
    <2> HIDE DEF x0, at
    <2>2. IsFiniteSet({x0[w] : w \in row})
      BY ImageIsFinite
    <2> QED
      BY <2>1, <2>2
  <1>3. n \in Nat
    BY <1>2, FS_CardinalityType
  <1>4. DOMAIN lefts = 1 .. n
    BY DEF Ordered
  <1> HIDE DEF lefts, n
  <1>5. ASSUME NEW k \in 1 .. n PROVE SetToSeq(here(k)) \in Seq(row)
    <2> DEFINE some == here(k)
    <2>1. some \in SUBSET row
      OBVIOUS
    <2> HIDE DEF some
    <2>2. IsFiniteSet(some)
      BY <2>1, FS_Subset
    <2>3. SetToSeq(some) \in Seq(some)
      BY <2>2, SetToSeqIsSequence
    <2>4. SetToSeq(some) \in Seq(row)
      BY <2>1, <2>3
    <2> QED
      BY <2>4 DEF some
  <1>6. parts \in Seq(Seq(row))
    <2> DEFINE S == Seq(row)
    <2>1. parts \in [1 .. n -> S]
      BY <1>4, <1>5
    <2> HIDE DEF S, parts
    <2>2. parts \in Seq(S)
      BY <1>3, <2>1, FunctionIsSequence
    <2> QED
      BY <2>2 DEF S
  <1> HIDE DEF parts
  <1>7. <<>> \in Seq(row)
    OBVIOUS
  <1> QED
    BY <1>1, <1>6, <1>7, JoinedIsSequence

\* The text map of some words is made of their glyphs and of white space.
LEMMA TextMapIsMap ==
    ASSUME NEW words \in SUBSET Words, IsFiniteSet(words)
    PROVE  TextMap(words) \in Seq(Entries(words))
  <1> DEFINE E == Entries(words)
             glyphs(row) == [k \in DOMAIN Across(row) |-> Glyphs(Across(row)[k])]
             line(row) == Joined(glyphs(row), Separator(Space))
             rows == Rows(words)
             lines == [i \in DOMAIN rows |-> line(rows[i])]
  <1>1. TextMap(words) = Joined(lines, Separator(Newline))
    BY DEF TextMap
  <1>2. Separator(Space) \in Seq(E) /\ Separator(Newline) \in Seq(E)
    BY GlyphsAreEntries, EvidenceAssumption
  <1>3. \A w \in words : Glyphs(w) \in Seq(E)
    BY GlyphsAreEntries
  <1>4. rows \in Seq(SUBSET words)
    BY RowsAreRowed DEF Rowed
  <1> HIDE DEF E, rows
  <1>5. ASSUME NEW row \in SUBSET words PROVE line(row) \in Seq(E)
    <2> DEFINE across == Across(row)
               g == glyphs(row)
               S == Seq(E)
    <2>1. IsFiniteSet(row) /\ row \in SUBSET Words
      BY FS_Subset
    <2>2. across \in Seq(row)
      BY <2>1, AcrossIsSequence
    <2>3. g = [k \in DOMAIN across |-> Glyphs(across[k])]
      OBVIOUS
    <2> HIDE DEF across, S, g
    <2>4. Len(across) \in Nat /\ DOMAIN across = 1 .. Len(across)
          /\ \A k \in 1 .. Len(across) : across[k] \in words
      BY <2>2
    <2>5. g \in [1 .. Len(across) -> S]
      BY <1>3, <2>3, <2>4 DEF S
    <2>6. g \in Seq(S)
      BY <2>4, <2>5, FunctionIsSequence
    <2>7. Joined(g, Separator(Space)) \in Seq(E)
      BY <1>2, <2>6, JoinedIsSequence DEF S
    <2> QED
      BY <2>7 DEF g
  <1>6. lines \in Seq(Seq(E))
    <2> DEFINE S == Seq(E)
    <2>1. Len(rows) \in Nat /\ DOMAIN rows = 1 .. Len(rows)
          /\ \A i \in 1 .. Len(rows) : rows[i] \in SUBSET words
      BY <1>4
    <2>2. \A i \in 1 .. Len(rows) : line(rows[i]) \in S
      BY <1>5, <2>1
    <2> HIDE DEF line, S
    <2>3. lines \in [1 .. Len(rows) -> S]
      BY <2>1, <2>2
    <2> HIDE DEF lines
    <2>4. lines \in Seq(S)
      BY <2>1, <2>3, FunctionIsSequence
    <2> QED
      BY <2>4 DEF S
  <1> HIDE DEF lines
  <1>7. TextMap(words) \in Seq(E)
    BY <1>1, <1>2, <1>6, JoinedIsSequence
  <1> QED
    BY <1>7 DEF E

\* The characters of a map are a text.
LEMMA CharsAreText ==
    ASSUME NEW words, NEW map \in Seq(Entries(words))
    PROVE  /\ CharsOf(map) \in Texts /\ Len(CharsOf(map)) = Len(map)
           /\ \A k \in 1 .. Len(map) : CharsOf(map)[k] = map[k].char
  <1>1. \A k \in 1 .. Len(map) : map[k].char \in Characters
    BY DEF Entries
  <1>2. Len(map) \in Nat
    OBVIOUS
  <1> QED
    BY <1>1, <1>2 DEF CharsOf, Texts

\* The boxes runs_for puts together are each over their character.
LEMMA RunsForIsOver ==
    ASSUME NEW words, NEW map \in Seq(Entries(words))
    PROVE  RunsFor(map) \in Seq(RunsOver(words, CharsOf(map)))
  <1> DEFINE text == CharsOf(map)
             R == RunsOver(words, text)
             inked == {k \in 1 .. Len(map) : map[k].ink # NoInk}
             turns == {k \in inked : k - 1 \in inked /\ Line(map[k - 1].ink) # Line(map[k].ink)}
             one == Stretches(inked, turns)
             boxes(f, t) == [k \in 1 .. (t - f + 1) |-> map[f - 1 + k].ink]
             run(r) == Run(one[r].from - 1, boxes(one[r].from, one[r].to))
  <1>1. RunsFor(map) = [r \in DOMAIN one |-> run(r)]
    BY DEF RunsFor
  <1>2. inked \in SUBSET (1 .. Len(map)) /\ Len(map) \in Nat
    OBVIOUS
  <1>3. inked \in SUBSET Int /\ IsFiniteSet(inked)
    <2> HIDE DEF inked
    <2>1. inked \in SUBSET Nat /\ IsFiniteSet(inked)
      BY <1>2, IndicesAreFinite
    <2> QED
      BY <2>1
  <1>4. Cut(inked, turns, one)
    <2> HIDE DEF inked, turns
    <2> QED
      BY <1>3, StretchesCut
  <1>5. Len(text) = Len(map) /\ \A k \in 1 .. Len(map) : text[k] = map[k].char
    BY CharsAreText
  <1>6. ASSUME NEW k \in inked
        PROVE  /\ k \in 1 .. Len(text) /\ k \in Int /\ k >= 1
               /\ map[k].ink \in Ink(words) /\ Shows(map[k].ink, words, text[k])
    <2>1. k \in 1 .. Len(map) /\ map[k].ink # NoInk
      OBVIOUS
    <2>2. map[k] \in Entries(words)
      BY <2>1
    <2>3. Shows(map[k].ink, words, map[k].char)
      BY <2>1, <2>2 DEF Entries
    <2> QED
      BY <1>2, <1>5, <2>1, <2>3 DEF Shows
  <1> HIDE DEF text, inked, turns, one
  <1>7. /\ one \in Seq([from : inked, to : inked]) /\ DOMAIN one = 1 .. Len(one) /\ Len(one) \in Nat
        /\ \A r \in 1 .. Len(one) :
             /\ one[r].from \in inked /\ one[r].to \in inked /\ one[r].from <= one[r].to
             /\ \A i \in one[r].from .. one[r].to : i \in inked
    <2>1. one \in Seq([from : inked, to : inked])
      BY <1>4 DEF Cut
    <2>2. DOMAIN one = 1 .. Len(one) /\ Len(one) \in Nat
      BY <2>1
    <2>3. \A r \in 1 .. Len(one) :
             /\ one[r].from \in inked /\ one[r].to \in inked /\ one[r].from <= one[r].to
             /\ \A i \in one[r].from .. one[r].to : i \in inked
      BY <1>4 DEF Cut
    <2> QED
      BY <2>1, <2>2, <2>3
  <1>8. ASSUME NEW r \in 1 .. Len(one) PROVE run(r) \in R
    <2> DEFINE f == one[r].from
               t == one[r].to
               b == boxes(f, t)
               n == t - f + 1
               x == run(r)
    <2>1. f \in inked /\ t \in inked /\ f <= t /\ \A i \in f .. t : i \in inked
      BY <1>7
    <2>2. f \in Int /\ t \in Int /\ f >= 1
      BY <1>6, <2>1
    <2>3. x = [start |-> f - 1, boxes |-> b]
      BY DEF Run
    <2> HIDE DEF f, t, x
    <2>4. n \in Nat /\ f - 1 \in Nat
      BY <2>1, <2>2
    <2>5. ASSUME NEW k \in 1 .. n
          PROVE  /\ (f - 1) + k \in 1 .. Len(text) /\ b[k] \in Ink(words)
                 /\ Shows(b[k], words, text[(f - 1) + k])
      <3> DEFINE i == (f - 1) + k
      <3>1. i \in f .. t /\ b[k] = map[i].ink
        BY <2>2
      <3> HIDE DEF i
      <3>2. i \in inked
        BY <2>1, <3>1
      <3>3. i \in 1 .. Len(text) /\ b[k] \in Ink(words) /\ Shows(b[k], words, text[i])
        BY <1>6, <3>1, <3>2
      <3> QED
        BY <3>3 DEF i
    <2>6. b = [k \in 1 .. n |-> b[k]]
      OBVIOUS
    <2> HIDE DEF b, n
    <2>7. b \in [1 .. n -> Ink(words)]
      BY <2>5, <2>6
    <2>8. b \in Seq(Ink(words)) /\ Len(b) = n
      BY <2>4, <2>7, FunctionIsSequence
    <2>9. /\ x \in [start : Nat, boxes : Seq(Ink(words))] /\ x.start = f - 1 /\ x.boxes = b
      BY <2>3, <2>4, <2>8
    <2>10. x \in R
      BY <2>5, <2>8, <2>9 DEF RunsOver
    <2> QED
      BY <2>10 DEF x
  <1> HIDE DEF run, R
  <1>9. RunsFor(map) \in [1 .. Len(one) -> R]
    BY <1>1, <1>7, <1>8
  <1>10. RunsFor(map) \in Seq(R)
    BY <1>7, <1>9, FunctionIsSequence
  <1> QED
    BY <1>10 DEF R, text

\* A text within another, from some offset on.
Lies(text, whole, offset) ==
    \A k \in 1 .. Len(text) : offset + k \in 1 .. Len(whole) /\ whole[offset + k] = text[k]

\* Runs that are moved with their text stay over it.
LEMMA ShiftStaysOver ==
    ASSUME NEW words, NEW text, NEW whole, NEW offset \in Nat, Lies(text, whole, offset),
           NEW runs_ \in Seq(RunsOver(words, text))
    PROVE  Shift(runs_, offset) \in Seq(RunsOver(words, whole))
  <1> DEFINE R == RunsOver(words, whole)
             moved(i) == [runs_[i] EXCEPT !.start = @ + offset]
  <1>1. Shift(runs_, offset) = [i \in 1 .. Len(runs_) |-> moved(i)]
    BY DEF Shift
  <1>2. ASSUME NEW i \in 1 .. Len(runs_) PROVE moved(i) \in R
    <2> DEFINE x == runs_[i]
               y == moved(i)
    <2>1. /\ x \in [start : Nat, boxes : Seq(Ink(words))]
          /\ \A k \in 1 .. Len(x.boxes) :
               x.start + k \in 1 .. Len(text) /\ Shows(x.boxes[k], words, text[x.start + k])
      BY DEF RunsOver
    <2>2. y = [x EXCEPT !.start = x.start + offset]
      OBVIOUS
    <2> HIDE DEF x, y
    <2>3. /\ y \in [start : Nat, boxes : Seq(Ink(words))]
          /\ y.start = x.start + offset /\ y.boxes = x.boxes /\ x.start \in Nat
      BY <2>1, <2>2
    <2>4. ASSUME NEW k \in 1 .. Len(y.boxes)
          PROVE  y.start + k \in 1 .. Len(whole) /\ Shows(y.boxes[k], words, whole[y.start + k])
      <3> DEFINE p == x.start + k
      <3>1. p \in 1 .. Len(text) /\ Shows(y.boxes[k], words, text[p])
        BY <2>1, <2>3
      <3>2. k \in Int /\ y.start + k = offset + p
        BY <2>3
      <3> HIDE DEF p
      <3>3. offset + p \in 1 .. Len(whole) /\ whole[offset + p] = text[p]
        BY <3>1 DEF Lies
      <3> QED
        BY <3>1, <3>2, <3>3
    <2>5. y \in R
      BY <2>3, <2>4 DEF RunsOver
    <2> QED
      BY <2>5 DEF y
  <1> HIDE DEF moved, R
  <1>3. Shift(runs_, offset) \in [1 .. Len(runs_) -> R] /\ Len(runs_) \in Nat
    BY <1>1, <1>2
  <1>4. Shift(runs_, offset) \in Seq(R)
    BY <1>3, FunctionIsSequence
  <1> QED
    BY <1>4 DEF R

-----------------------------------------------------------------------------
(* Rows in groups. *)

\* How far down and up some words reach.
LEMMA Extents ==
    ASSUME NEW G \in SUBSET Words, IsFiniteSet(G), G # {}
    PROVE  /\ Lowest(G) \in Int /\ Highest(G) \in Int
           /\ \A w \in G : w.bottom <= Lowest(G) /\ Highest(G) <= w.top
           /\ \E w \in G : w.bottom = Lowest(G)
           /\ \E w \in G : w.top = Highest(G)
  <1> DEFINE bottoms == {w.bottom : w \in G}
             tops == {w.top : w \in G}
             bottom == [w \in G |-> w.bottom]
             top == [w \in G |-> w.top]
  <1>1. \A w \in G : w.bottom \in Int /\ w.top \in Int
    BY DEF Words
  <1>2. bottoms \in SUBSET Int /\ bottoms # {} /\ tops \in SUBSET Int /\ tops # {}
    BY <1>1
  <1>3. bottoms = {bottom[w] : w \in G} /\ tops = {top[w] : w \in G}
    OBVIOUS
  <1> HIDE DEF bottom, top
  <1>4. IsFiniteSet(bottoms) /\ IsFiniteSet(tops)
    <2> HIDE DEF bottoms, tops
    <2>1. IsFiniteSet({bottom[w] : w \in G}) /\ IsFiniteSet({top[w] : w \in G})
      BY ImageIsFinite
    <2> QED
      BY <1>3, <2>1
  <1>5. /\ \A w \in G : w.bottom \in bottoms /\ w.top \in tops
        /\ \A b \in bottoms : \E w \in G : w.bottom = b
        /\ \A t \in tops : \E w \in G : w.top = t
    OBVIOUS
  <1>6. Lowest(G) = Max(bottoms) /\ Highest(G) = Min(tops)
    BY DEF Lowest, Highest
  <1> HIDE DEF bottoms, tops
  <1>7. /\ Max(bottoms) \in bottoms /\ Max(bottoms) \in Int
        /\ \A i \in bottoms : i <= Max(bottoms)
    BY <1>2, <1>4, Extremes
  <1>8. Min(tops) \in tops /\ Min(tops) \in Int /\ \A i \in tops : Min(tops) <= i
    BY <1>2, <1>4, Extremes
  <1> QED
    BY <1>5, <1>6, <1>7, <1>8

\* The k-th smallest of some numbers is one of them.
LEMMA KthSmallestIsOne ==
    ASSUME NEW n \in Nat, NEW numbers \in [1 .. n -> Int], NEW k \in 1 .. n
    PROVE  \E i \in 1 .. n : KthSmallest(numbers, k) = numbers[i]
  <1> DEFINE values == {numbers[i] : i \in 1 .. n}
             upto(h) == {i \in 1 .. n : numbers[i] <= h}
             enough == {h \in values : Cardinality(upto(h)) >= k}
             most == Max(values)
  <1>1. IsFiniteSet(1 .. n) /\ Cardinality(1 .. n) = n
    BY FS_Interval
  <1>2. /\ values \in SUBSET Int
        /\ \A i \in 1 .. n : numbers[i] \in values
        /\ \A h \in values : \E i \in 1 .. n : numbers[i] = h
    OBVIOUS
  <1>3. IsFiniteSet(values)
    BY <1>1, ImageIsFinite
  <1>4. values # {}
    BY <1>2
  <1>5. KthSmallest(numbers, k) = Min(enough)
    BY DEF KthSmallest
  <1>6. enough \in SUBSET values
    OBVIOUS
  <1>7. \A h \in values : Cardinality(upto(h)) >= k => h \in enough
    OBVIOUS
  <1> HIDE DEF values, enough
  <1>8. most \in values /\ most \in Int /\ \A h \in values : h <= most
    BY <1>2, <1>3, <1>4, Extremes
  <1>9. upto(most) = 1 .. n
    <2> HIDE DEF most
    <2> QED
      BY <1>2, <1>8
  <1>10. most \in enough
    <2> DEFINE some == upto(most)
    <2>1. some = 1 .. n
      BY <1>9
    <2> HIDE DEF some
    <2>2. Cardinality(some) >= k
      BY <1>1, <2>1
    <2> HIDE DEF upto, most
    <2> QED
      BY <1>7, <1>8, <2>2 DEF some
  <1> HIDE DEF most, upto
  <1>11. IsFiniteSet(enough) /\ enough \in SUBSET Int /\ enough # {}
    BY <1>2, <1>3, <1>6, <1>10, FS_Subset
  <1>12. Min(enough) \in enough
    BY <1>11, Extremes
  <1> QED
    BY <1>2, <1>5, <1>6, <1>12

\* Words that take up room have a median height.
LEMMA MedianIsPositive ==
    ASSUME NEW words \in SUBSET Words, IsFiniteSet(words),
           \A w \in words : w.top < w.bottom,
           NEW rows \in Seq(SUBSET words), \A i \in 1 .. Len(rows) : rows[i] # {},
           Len(rows) >= 2
    PROVE  TwiceMedian(rows) \in Nat
  <1> DEFINE n == Len(rows)
             heights == [i \in 1 .. n |-> Lowest(rows[i]) - Highest(rows[i])]
             a == (n + 1) \div 2
             b == (n + 2) \div 2
  <1>1. n \in Nat /\ n >= 2
    OBVIOUS
  <1>2. a \in 1 .. n /\ b \in 1 .. n
    <2> HIDE DEF n
    <2> QED
      BY <1>1
  <1>3. \A i \in 1 .. n : heights[i] \in Nat
    <2> SUFFICES ASSUME NEW i \in 1 .. n PROVE Lowest(rows[i]) - Highest(rows[i]) \in Nat
      OBVIOUS
    <2> DEFINE row == rows[i]
    <2>1. row \in SUBSET words /\ row # {}
      OBVIOUS
    <2> HIDE DEF row
    <2>2. row \in SUBSET Words /\ IsFiniteSet(row)
      BY <2>1, FS_Subset
    <2>3. /\ Lowest(row) \in Int /\ Highest(row) \in Int
          /\ \A w \in row : w.bottom <= Lowest(row) /\ Highest(row) <= w.top
      BY <2>1, <2>2, Extents
    <2>4. PICK w \in row : TRUE
      BY <2>1
    <2>5. w.top \in Int /\ w.bottom \in Int /\ w.top < w.bottom
      BY <2>1, <2>2 DEF Words
    <2> DEFINE lo == Lowest(row)
               hi == Highest(row)
               top == w.top
               bottom == w.bottom
    <2>6. /\ lo \in Int /\ hi \in Int /\ top \in Int /\ bottom \in Int
          /\ top < bottom /\ bottom <= lo /\ hi <= top
      BY <2>3, <2>5
    <2> HIDE DEF lo, hi, top, bottom
    <2>7. lo - hi \in Nat
      BY <2>6
    <2> QED
      BY <2>7 DEF lo, hi, row
  <1>4. heights = [i \in 1 .. n |-> heights[i]]
    OBVIOUS
  <1>5. TwiceMedian(rows) = KthSmallest(heights, a) + KthSmallest(heights, b)
    BY DEF TwiceMedian
  <1> HIDE DEF heights, n, a, b
  <1>6. heights \in [1 .. n -> Int]
    BY <1>3, <1>4
  <1>7. \E i \in 1 .. n : KthSmallest(heights, a) = heights[i]
    BY <1>1, <1>2, <1>6, KthSmallestIsOne
  <1>8. \E i \in 1 .. n : KthSmallest(heights, b) = heights[i]
    BY <1>1, <1>2, <1>6, KthSmallestIsOne
  <1>9. KthSmallest(heights, a) \in Nat /\ KthSmallest(heights, b) \in Nat
    BY <1>3, <1>7, <1>8
  <1> QED
    BY <1>5, <1>9

\* The words in groups, none of them empty.
InGroups(words, groups) ==
    /\ groups \in Seq(SUBSET words)
    /\ \A g \in 1 .. Len(groups) : groups[g] # {}
    /\ \A w \in words : \E g \in 1 .. Len(groups) : w \in groups[g]

\* Every word is above all of the groups after its own.
OneAboveTheOther(groups) ==
    \A g, h \in 1 .. Len(groups) : g < h =>
        \A v \in groups[g], w \in groups[h] : v.bottom <= w.top

\* Groups puts the words in groups.
LEMMA GroupsHoldTheWords ==
    ASSUME NEW words \in SUBSET Words, IsFiniteSet(words)
    PROVE  InGroups(words, Groups(words))
  <1> DEFINE rows == Rows(words)
             n == Len(rows)
             wide == {i \in 2 .. n :
                        4 * (Highest(rows[i]) - Lowest(rows[i - 1])) >= 3 * TwiceMedian(rows)}
             group == Stretches(1 .. n, wide)
             members(g) == UNION {rows[i] : i \in group[g].from .. group[g].to}
             groups == [g \in DOMAIN group |-> members(g)]
  <1>1. Groups(words) = groups
    BY DEF Groups, Grouped
  <1>2. /\ rows \in Seq(SUBSET words)
        /\ \A i \in 1 .. n : rows[i] # {}
        /\ \A w \in words : \E i \in 1 .. n : w \in rows[i]
    BY RowsAreRowed DEF Rowed
  <1>3. n \in Nat /\ 1 .. n \in SUBSET Int /\ IsFiniteSet(1 .. n)
    <2>1. n \in Nat
      BY <1>2
    <2> QED
      BY <2>1, FS_Interval
  <1>4. Cut(1 .. n, wide, group)
    <2> HIDE DEF n, wide
    <2> QED
      BY <1>3, StretchesCut
  <1> HIDE DEF rows, n, wide, group
  <1>5. /\ Len(group) \in Nat /\ DOMAIN group = 1 .. Len(group)
        /\ \A g \in 1 .. Len(group) :
             /\ group[g].from \in 1 .. n /\ group[g].to \in 1 .. n
             /\ group[g].from <= group[g].to
             /\ \A i \in group[g].from .. group[g].to : i \in 1 .. n
        /\ \A i \in 1 .. n : \E g \in 1 .. Len(group) : group[g].from <= i /\ i <= group[g].to
    <2>1. group \in Seq([from : 1 .. n, to : 1 .. n])
      BY <1>4 DEF Cut
    <2>2. Len(group) \in Nat /\ DOMAIN group = 1 .. Len(group)
      BY <2>1
    <2> QED
      BY <1>4, <2>2 DEF Cut
  <1>6. ASSUME NEW g \in 1 .. Len(group) PROVE members(g) \in SUBSET words /\ members(g) # {}
    <2>1. \A i \in group[g].from .. group[g].to : rows[i] \in SUBSET words
      BY <1>2, <1>5 DEF n
    <2>2. members(g) \in SUBSET words
      BY <2>1
    <2>3. group[g].from \in group[g].from .. group[g].to
      BY <1>5
    <2>4. rows[group[g].from] # {} /\ rows[group[g].from] \in {rows[i] : i \in group[g].from .. group[g].to}
      BY <1>2, <1>5, <2>3
    <2> QED
      BY <2>2, <2>4
  <1>7. ASSUME NEW w \in words PROVE \E g \in 1 .. Len(group) : w \in members(g)
    <2>1. PICK i \in 1 .. n : w \in rows[i]
      BY <1>2
    <2>2. PICK g \in 1 .. Len(group) : group[g].from <= i /\ i <= group[g].to
      BY <1>5
    <2>3. i \in group[g].from .. group[g].to
      BY <1>5, <2>2
    <2>4. w \in members(g)
      BY <2>1, <2>3
    <2> QED
      BY <2>4
  <1>8. groups = [g \in 1 .. Len(group) |-> members(g)]
    BY <1>5
  <1> HIDE DEF members
  <1>9. \A g \in 1 .. Len(group) : groups[g] = members(g)
    BY <1>8
  <1>10. groups \in Seq(SUBSET words) /\ Len(groups) = Len(group)
    <2> DEFINE Sets == SUBSET words
    <2>1. groups \in [1 .. Len(group) -> Sets]
      BY <1>6, <1>8
    <2> HIDE DEF Sets, groups
    <2>2. groups \in Seq(Sets) /\ Len(groups) = Len(group)
      BY <1>5, <2>1, FunctionIsSequence
    <2> QED
      BY <2>2 DEF Sets
  <1> HIDE DEF groups
  <1>11. InGroups(words, groups)
    BY <1>6, <1>7, <1>9, <1>10 DEF InGroups
  <1> QED
    BY <1>1, <1>11

\* On a page whose rows do not reach into each other, neither do its groups.
LEMMA GroupsAreApart ==
    ASSUME NEW page, IsPage(page), RowsApart(page), OnPage(page)
    PROVE  OneAboveTheOther(Groups(page.words))
  <1> DEFINE words == page.words
             rows == Rows(words)
             n == Len(rows)
             wide == {i \in 2 .. n :
                        4 * (Highest(rows[i]) - Lowest(rows[i - 1])) >= 3 * TwiceMedian(rows)}
             group == Stretches(1 .. n, wide)
             members(g) == UNION {rows[i] : i \in group[g].from .. group[g].to}
             groups == [g \in DOMAIN group |-> members(g)]
  <1>1. Groups(words) = groups
    BY DEF Groups, Grouped
  <1>2. /\ words \in SUBSET Words /\ IsFiniteSet(words) /\ RowTolerance \in Nat
        /\ \A w \in words : w.top \in Int /\ w.bottom \in Int /\ w.top < w.bottom
        /\ \A v, w \in words :
             v.top < w.top => (w.top - v.top <= RowTolerance \/ v.bottom <= w.top)
    BY ReadingOrderAssumption DEF IsPage, RowsApart, OnPage, Words
  <1> HIDE DEF words
  <1>3. PICK firsts : Rowed(words, rows, firsts)
    BY <1>2, RowsAreRowed
  <1> HIDE DEF rows
  <1>4. /\ rows \in Seq(SUBSET words) /\ n \in Nat
        /\ \A i \in 1 .. n : rows[i] # {} /\ rows[i] \in SUBSET words /\ firsts[i] \in Int
        /\ \A i \in 1 .. n : \A w \in rows[i] : firsts[i] <= w.top /\ w.top <= firsts[i] + RowTolerance
        /\ \A i, j \in 1 .. n : i < j => firsts[i] + RowTolerance < firsts[j]
    <2>1. rows \in Seq(SUBSET words) /\ firsts \in Seq(Int) /\ Len(firsts) = n
      BY <1>3 DEF Rowed
    <2>2. n \in Nat /\ \A i \in 1 .. n : rows[i] \in SUBSET words /\ firsts[i] \in Int
      BY <2>1
    <2> QED
      BY <1>3, <2>1, <2>2 DEF Rowed
  <1>5. Cut(1 .. n, wide, group)
    <2>1. n \in Nat /\ 1 .. n \in SUBSET Int /\ IsFiniteSet(1 .. n)
      BY <1>4, FS_Interval
    <2> HIDE DEF n, wide
    <2> QED
      BY <2>1, StretchesCut
  <1>6. ASSUME NEW i \in 1 .. n
        PROVE  /\ Lowest(rows[i]) \in Int /\ Highest(rows[i]) \in Int
               /\ \A w \in rows[i] : w.bottom <= Lowest(rows[i]) /\ Highest(rows[i]) <= w.top
    <2> DEFINE row == rows[i]
    <2>1. row \in SUBSET words /\ row # {}
      BY <1>4
    <2> HIDE DEF row
    <2>2. row \in SUBSET Words /\ IsFiniteSet(row)
      BY <1>2, <2>1, FS_Subset
    <2>3. /\ Lowest(row) \in Int /\ Highest(row) \in Int
          /\ \A w \in row : w.bottom <= Lowest(row) /\ Highest(row) <= w.top
      BY <2>1, <2>2, Extents
    <2> QED
      BY <2>3 DEF row
  <1>7. ASSUME NEW i \in wide PROVE i - 1 \in 1 .. n /\ i \in 1 .. n
                                    /\ Lowest(rows[i - 1]) <= Highest(rows[i])
    <2>1. i \in 2 .. n /\ 4 * (Highest(rows[i]) - Lowest(rows[i - 1])) >= 3 * TwiceMedian(rows)
      OBVIOUS
    <2>2. n >= 2 /\ i - 1 \in 1 .. n /\ i \in 1 .. n
      <3> HIDE DEF n
      <3> QED
        BY <1>4, <2>1
    <2>3. TwiceMedian(rows) \in Nat
      BY <1>2, <1>4, <2>2, MedianIsPositive
    <2> DEFINE lo == Lowest(rows[i - 1])
               hi == Highest(rows[i])
               median == TwiceMedian(rows)
    <2>4. lo \in Int /\ hi \in Int /\ median \in Nat /\ 4 * (hi - lo) >= 3 * median
      BY <1>6, <2>1, <2>2, <2>3
    <2> HIDE DEF lo, hi, median
    <2>5. lo <= hi
      BY <2>4
    <2> QED
      BY <2>2, <2>5 DEF lo, hi
  <1> HIDE DEF n, wide, group
  \* Rows with a wide gap between, or another row.
  <1>8. ASSUME NEW i \in 1 .. n, NEW j \in 1 .. n, i < j, j # i + 1 \/ j \in wide,
               NEW v \in rows[i], NEW w \in rows[j]
        PROVE  v.bottom <= w.top
    <2>1. /\ v \in words /\ w \in words
          /\ v.top \in Int /\ v.bottom \in Int /\ w.top \in Int
      BY <1>2, <1>4
    <2>2. CASE j \in wide /\ j = i + 1
      <3>1. j - 1 = i
        BY <1>4, <2>2
      <3>2. Lowest(rows[i]) <= Highest(rows[j])
        BY <1>7, <2>2, <3>1
      <3> DEFINE lo == Lowest(rows[i])
                 hi == Highest(rows[j])
                 bottom == v.bottom
                 top == w.top
      <3>3. lo \in Int /\ hi \in Int /\ bottom <= lo /\ hi <= top /\ lo <= hi
            /\ bottom \in Int /\ top \in Int
        BY <1>6, <2>1, <3>2
      <3> HIDE DEF lo, hi, bottom, top
      <3>4. bottom <= top
        BY <3>3
      <3> QED
        BY <3>4 DEF bottom, top
    <2>3. CASE j # i + 1
      <3> DEFINE between == i + 1
                 a == firsts[i]
                 b == firsts[between]
                 c == firsts[j]
                 t == v.top
                 u == w.top
      <3>1. between \in 1 .. n /\ i < between /\ between < j
        BY <1>4, <1>8, <2>3
      <3> HIDE DEF between
      <3>2. /\ a + RowTolerance < b /\ b + RowTolerance < c
            /\ t <= a + RowTolerance /\ c <= u
            /\ a \in Int /\ b \in Int /\ c \in Int /\ t \in Int /\ u \in Int
            /\ RowTolerance \in Nat
        BY <1>2, <1>4, <2>1, <3>1
      <3> HIDE DEF a, b, c, t, u
      <3>3. t < u /\ ~(u - t <= RowTolerance)
        BY <3>2
      <3>4. v.top < w.top /\ ~(w.top - v.top <= RowTolerance)
        BY <3>3 DEF t, u
      <3> QED
        BY <1>2, <2>1, <3>4
    <2> QED
      BY <1>8, <2>2, <2>3
  <1>9. /\ Len(group) \in Nat /\ DOMAIN group = 1 .. Len(group)
        /\ \A g \in 1 .. Len(group) :
             /\ group[g].from \in 1 .. n /\ group[g].to \in 1 .. n
             /\ group[g].from <= group[g].to
             /\ group[g].from - 1 \notin 1 .. n \/ group[g].from \in wide
             /\ \A i \in group[g].from .. group[g].to : i \in 1 .. n
        /\ \A g, h \in 1 .. Len(group) : g < h => group[g].to < group[h].from
    <2>1. group \in Seq([from : 1 .. n, to : 1 .. n])
      BY <1>5 DEF Cut
    <2>2. Len(group) \in Nat /\ DOMAIN group = 1 .. Len(group)
      BY <2>1
    <2> QED
      BY <1>5, <2>2 DEF Cut
  <1>10. ASSUME NEW g \in 1 .. Len(group), NEW h \in 1 .. Len(group), g < h,
                NEW v \in members(g), NEW w \in members(h)
         PROVE  v.bottom <= w.top
    <2>1. PICK i \in group[g].from .. group[g].to : v \in rows[i]
      OBVIOUS
    <2>2. PICK j \in group[h].from .. group[h].to : w \in rows[j]
      OBVIOUS
    <2> DEFINE to == group[g].to
               from == group[h].from
    <2>3. i \in 1 .. n /\ j \in 1 .. n /\ i <= to /\ to < from /\ from <= j
          /\ to \in 1 .. n /\ from \in 1 .. n
          /\ (from - 1 \notin 1 .. n \/ from \in wide)
      BY <1>9, <1>10
    <2> HIDE DEF to, from
    <2>4. i < j /\ (j = i + 1 => j = from /\ from - 1 = i)
      BY <1>4, <2>3
    <2>5. j # i + 1 \/ j \in wide
      BY <2>3, <2>4
    <2> QED
      BY <1>8, <2>1, <2>2, <2>3, <2>4, <2>5
  <1>11. /\ Len(groups) = Len(group)
         /\ \A g \in 1 .. Len(group) : groups[g] = members(g)
    BY <1>9
  <1> HIDE DEF members, groups
  <1>12. OneAboveTheOther(groups)
    BY <1>10, <1>11 DEF OneAboveTheOther
  <1> QED
    BY <1>1, <1>12 DEF words

-----------------------------------------------------------------------------
(* Gutters and bands. *)

Gutters == [from : Int, to : Int]

Strips == [top : Int, bottom : Int, gutter : Gutters]

\* No word reaches into the gutter.
ClearOf(words, gutter) == \A w \in words : w.x1 <= gutter.from \/ gutter.to <= w.x0

\* A gutter that has width, and that no word reaches into; or none.
IsGutter(gutter, words) ==
    /\ gutter \in Gutters
    /\ gutter # NoGutter => gutter.from < gutter.to /\ ClearOf(words, gutter)

\* The greater and the lesser of two.
LEMMA OfTwo ==
    ASSUME NEW a \in Int, NEW b \in Int
    PROVE  /\ Max({a, b}) \in {a, b} /\ a <= Max({a, b}) /\ b <= Max({a, b})
           /\ Min({a, b}) \in {a, b} /\ Min({a, b}) <= a /\ Min({a, b}) <= b
  <1> DEFINE two == {a, b}
  <1>1. IsFiniteSet(two)
    <2>1. IsFiniteSet({a}) /\ two = {a} \cup {b}
      BY FS_Singleton
    <2> QED
      BY <2>1, FS_AddElement
  <1>2. two \in SUBSET Int /\ two # {} /\ a \in two /\ b \in two
    OBVIOUS
  <1> HIDE DEF two
  <1>3. /\ Min(two) \in two /\ Max(two) \in two
        /\ \A i \in two : Min(two) <= i /\ i <= Max(two)
    BY <1>1, <1>2, Extremes
  <1>4. /\ Max(two) \in two /\ a <= Max(two) /\ b <= Max(two)
        /\ Min(two) \in two /\ Min(two) <= a /\ Min(two) <= b
    BY <1>2, <1>3
  <1> QED
    BY <1>4 DEF two

\* Of some gaps, one is the widest, and of those the first.
LEMMA WidestIsOne ==
    ASSUME NEW gaps \in SUBSET Gutters, IsFiniteSet(gaps), gaps # {}
    PROVE  Widest(gaps) \in gaps
  <1> DEFINE width == [gap \in gaps |-> Width(gap)]
             widths == {width[gap] : gap \in gaps}
             most == Max(widths)
             best == {gap \in gaps : Width(gap) = most}
             from == [gap \in best |-> gap.from]
             froms == {from[gap] : gap \in best}
             least == Min(froms)
             Leads(gap) == \A other \in gaps :
               Width(other) < Width(gap) \/ (Width(other) = Width(gap) /\ gap.from <= other.from)
  <1>1. \A gap \in gaps : gap.from \in Int /\ gap.to \in Int /\ Width(gap) \in Int
    BY DEF Gutters, Width
  <1>2. \A gap \in gaps : width[gap] = Width(gap)
    OBVIOUS
  <1> HIDE DEF width
  <1>3. widths \in SUBSET Int /\ widths # {} /\ IsFiniteSet(widths)
    <2>1. widths \in SUBSET Int /\ widths # {}
      BY <1>1, <1>2
    <2>2. IsFiniteSet(widths)
      BY ImageIsFinite
    <2> QED
      BY <2>1, <2>2
  <1>4. /\ \A gap \in gaps : Width(gap) \in widths
        /\ \A x \in widths : \E gap \in gaps : Width(gap) = x
    BY <1>2
  <1> HIDE DEF widths
  <1>5. most \in widths /\ most \in Int /\ \A x \in widths : x <= most
    BY <1>3, Extremes
  <1> HIDE DEF most
  <1>6. best \in SUBSET gaps /\ best # {} /\ \A gap \in best : Width(gap) = most
    BY <1>4, <1>5
  <1>7. \A gap \in gaps : Width(gap) = most => gap \in best
    OBVIOUS
  <1>8. IsFiniteSet(best)
    BY <1>6, FS_Subset
  <1> HIDE DEF best
  <1>9. \A gap \in best : from[gap] = gap.from /\ gap.from \in Int
    BY <1>1, <1>6
  <1> HIDE DEF from
  <1>10. froms \in SUBSET Int /\ froms # {} /\ IsFiniteSet(froms)
    <2>1. froms \in SUBSET Int /\ froms # {}
      BY <1>6, <1>9
    <2>2. IsFiniteSet(froms)
      BY <1>8, ImageIsFinite
    <2> QED
      BY <2>1, <2>2
  <1>11. /\ \A gap \in best : gap.from \in froms
         /\ \A x \in froms : \E gap \in best : gap.from = x
    BY <1>9
  <1> HIDE DEF froms
  <1>12. least \in froms /\ \A x \in froms : least <= x
    BY <1>10, Extremes
  <1>13. PICK gap \in best : gap.from = least
    BY <1>11, <1>12
  <1>14. Leads(gap)
    <2> SUFFICES ASSUME NEW other \in gaps
                 PROVE  \/ Width(other) < Width(gap)
                        \/ Width(other) = Width(gap) /\ gap.from <= other.from
      OBVIOUS
    <2>1. Width(gap) = most /\ Width(other) <= most /\ Width(other) \in Int
      BY <1>1, <1>4, <1>5, <1>6, <1>13
    <2>2. Width(other) = most => gap.from <= other.from
      BY <1>7, <1>11, <1>12, <1>13
    <2> DEFINE x == Width(other)
    <2> HIDE DEF x
    <2>3. x < most \/ x = most
      BY <1>5, <2>1 DEF x
    <2> QED
      BY <2>1, <2>2, <2>3 DEF x
  <1>15. Widest(gaps) = CHOOSE g \in gaps : Leads(g)
    BY DEF Widest
  <1> HIDE DEF Leads
  <1> QED
    BY <1>6, <1>13, <1>14, <1>15

\* What _gutter finds is one, or none.
LEMMA GutterIsClear ==
    ASSUME NEW words \in SUBSET Words, IsFiniteSet(words), NEW pageWidth
    PROVE  IsGutter(Gutter(words, pageWidth), words)
  <1> DEFINE gaps == Gaps(words)
             S == words \X words
             between == [p \in S |-> [from |-> p[1].x1, to |-> p[2].x0]]
  <1>1. /\ gaps \in SUBSET Gutters
        /\ \A gap \in gaps : gap.from < gap.to /\ ClearOf(words, gap)
    BY DEF Gaps, Gutters, ClearOf, Words
  <1>2. IsFiniteSet(gaps)
    <2>1. IsFiniteSet(S)
      BY FS_Product
    <2>2. gaps \in SUBSET {between[p] : p \in S}
      <3> SUFFICES ASSUME NEW gap \in gaps PROVE \E p \in S : gap = between[p]
        OBVIOUS
      <3>1. PICK v \in words, w \in words : gap.from = v.x1 /\ gap.to = w.x0
        BY DEF Gaps
      <3>2. gap = [from |-> v.x1, to |-> w.x0]
        BY <3>1 DEF Gaps
      <3>3. <<v, w>> \in S /\ between[<<v, w>>] = [from |-> v.x1, to |-> w.x0]
        OBVIOUS
      <3> HIDE DEF S, between
      <3> QED
        BY <3>2, <3>3
    <2> HIDE DEF S, between
    <2>3. IsFiniteSet({between[p] : p \in S})
      BY <2>1, ImageIsFinite
    <2> QED
      BY <2>2, <2>3, FS_Subset
  <1>3. Gutter(words, pageWidth) = NoGutter
        \/ (gaps # {} /\ Gutter(words, pageWidth) = Widest(gaps))
    BY DEF Gutter
  <1> HIDE DEF gaps
  <1>4. NoGutter \in Gutters
    BY DEF NoGutter, Gutters
  <1>5. gaps # {} => Widest(gaps) \in gaps
    BY <1>1, <1>2, WidestIsOne
  <1>6. gaps # {} => IsGutter(Widest(gaps), words)
    BY <1>1, <1>5 DEF IsGutter
  <1>7. IsGutter(NoGutter, words)
    BY <1>4 DEF IsGutter
  <1> QED
    BY <1>3, <1>6, <1>7

\* The groups before the i-th are above t, and the others below.
Splits(groups, i, t) ==
    \A g \in 1 .. Len(groups) : \A w \in groups[g] :
        (g < i => w.bottom <= t) /\ (i <= g => t <= w.top)

\* A band for each group, with a gutter of its words.
Banded(groups, bands) ==
    /\ bands \in Seq(Strips) /\ Len(bands) = Len(groups)
    /\ \A i \in 1 .. Len(groups) : IsGutter(bands[i].gutter, groups[i])

\* BandsOf makes such bands,
LEMMA BandsAreBanded ==
    ASSUME NEW page, IsPage(page), NEW groups, InGroups(page.words, groups)
    PROVE  Banded(groups, BandsOf(groups, page))
  <1> DEFINE n == Len(groups)
             middle(i) == (Lowest(groups[i]) + Highest(groups[i + 1])) \div 2
             band(i) == [top    |-> IF i = 1 THEN page.edges.top ELSE middle(i - 1),
                         bottom |-> IF i = n THEN page.edges.bottom ELSE middle(i),
                         gutter |-> Gutter(groups[i], page.edges.right - page.edges.left)]
             bands == [i \in 1 .. n |-> band(i)]
  <1>1. BandsOf(groups, page) = bands
    BY DEF BandsOf
  <1>2. /\ groups \in Seq(SUBSET page.words) /\ n \in Nat
        /\ \A i \in 1 .. n : groups[i] \in SUBSET page.words /\ groups[i] # {}
    BY DEF InGroups
  <1>3. page.words \in SUBSET Words /\ IsFiniteSet(page.words)
        /\ page.edges.top \in Int /\ page.edges.bottom \in Int
    BY DEF IsPage
  <1> HIDE DEF n
  <1>4. ASSUME NEW i \in 1 .. n
        PROVE  /\ groups[i] \in SUBSET Words /\ IsFiniteSet(groups[i])
               /\ Lowest(groups[i]) \in Int /\ Highest(groups[i]) \in Int
    <2> DEFINE group == groups[i]
    <2>1. group \in SUBSET page.words /\ group # {}
      BY <1>2
    <2> HIDE DEF group
    <2>2. group \in SUBSET Words /\ IsFiniteSet(group)
      BY <1>3, <2>1, FS_Subset
    <2>3. Lowest(group) \in Int /\ Highest(group) \in Int
      BY <2>1, <2>2, Extents
    <2> QED
      BY <2>2, <2>3 DEF group
  <1>5. ASSUME NEW i \in 1 .. n, i # n PROVE middle(i) \in Int
    <2>1. i + 1 \in 1 .. n
      BY <1>2, <1>5
    <2>2. Lowest(groups[i]) \in Int /\ Highest(groups[i + 1]) \in Int
      BY <1>4, <2>1
    <2> QED
      BY <2>2
  <1>6. ASSUME NEW i \in 1 .. n
        PROVE  band(i) \in Strips /\ IsGutter(band(i).gutter, groups[i])
    <2> DEFINE gutter == Gutter(groups[i], page.edges.right - page.edges.left)
               top == IF i = 1 THEN page.edges.top ELSE middle(i - 1)
               bottom == IF i = n THEN page.edges.bottom ELSE middle(i)
    <2>1. IsGutter(gutter, groups[i])
      BY <1>4, GutterIsClear
    <2>2. top \in Int
      <3>1. CASE i = 1
        BY <1>3, <3>1
      <3>2. CASE i # 1
        <4>1. i - 1 \in 1 .. n /\ i - 1 # n
          BY <1>2, <3>2
        <4> HIDE DEF middle
        <4> QED
          BY <1>5, <3>2, <4>1
      <3> QED
        BY <3>1, <3>2
    <2>3. bottom \in Int
      <3> HIDE DEF middle
      <3> QED
        BY <1>3, <1>5
    <2>4. band(i) = [top |-> top, bottom |-> bottom, gutter |-> gutter]
      OBVIOUS
    <2> HIDE DEF band, top, bottom, gutter
    <2> QED
      BY <2>1, <2>2, <2>3, <2>4 DEF IsGutter, Strips
  <1> HIDE DEF band
  <1>7. \A i \in 1 .. n : bands[i] = band(i)
    OBVIOUS
  <1>8. bands \in Seq(Strips) /\ Len(bands) = n
    <2>1. bands \in [1 .. n -> Strips]
      BY <1>6
    <2> HIDE DEF bands
    <2> QED
      BY <1>2, <2>1, FunctionIsSequence
  <1> HIDE DEF bands
  <1>9. Banded(groups, bands)
    BY <1>6, <1>7, <1>8 DEF Banded, n
  <1> QED
    BY <1>1, <1>9

\* and they run between the groups, out to the edges.
LEMMA BandsSplit ==
    ASSUME NEW page, IsPage(page), OnPage(page),
           NEW groups, InGroups(page.words, groups), OneAboveTheOther(groups)
    PROVE  \A i \in 1 .. Len(groups) :
             /\ Splits(groups, i, BandsOf(groups, page)[i].top)
             /\ Splits(groups, i + 1, BandsOf(groups, page)[i].bottom)
  <1> DEFINE n == Len(groups)
             middle(i) == (Lowest(groups[i]) + Highest(groups[i + 1])) \div 2
             bands == BandsOf(groups, page)
  <1>1. \A i \in 1 .. n : /\ bands[i].top = IF i = 1 THEN page.edges.top ELSE middle(i - 1)
                          /\ bands[i].bottom = IF i = n THEN page.edges.bottom ELSE middle(i)
    BY DEF BandsOf
  <1> HIDE DEF bands
  <1>2. /\ n \in Nat
        /\ \A i \in 1 .. n : groups[i] \in SUBSET page.words /\ groups[i] # {}
    BY DEF InGroups
  <1>3. /\ page.words \in SUBSET Words /\ IsFiniteSet(page.words)
        /\ page.edges.top \in Int /\ page.edges.bottom \in Int
        /\ \A w \in page.words : /\ w.top \in Int /\ w.bottom \in Int /\ w.top < w.bottom
                                 /\ page.edges.top <= w.top /\ w.bottom <= page.edges.bottom
    BY DEF IsPage, OnPage, Words
  <1>4. \A g, h \in 1 .. n : g < h => \A v \in groups[g], w \in groups[h] : v.bottom <= w.top
    BY DEF OneAboveTheOther
  <1> HIDE DEF n
  <1>5. ASSUME NEW i \in 1 .. n
        PROVE  /\ Lowest(groups[i]) \in Int /\ Highest(groups[i]) \in Int
               /\ \A w \in groups[i] : w.bottom <= Lowest(groups[i]) /\ Highest(groups[i]) <= w.top
               /\ \E w \in groups[i] : w.bottom = Lowest(groups[i])
               /\ \E w \in groups[i] : w.top = Highest(groups[i])
    <2> DEFINE group == groups[i]
    <2>1. group \in SUBSET page.words /\ group # {}
      BY <1>2
    <2> HIDE DEF group
    <2>2. group \in SUBSET Words /\ IsFiniteSet(group)
      BY <1>3, <2>1, FS_Subset
    <2>3. /\ Lowest(group) \in Int /\ Highest(group) \in Int
          /\ \A w \in group : w.bottom <= Lowest(group) /\ Highest(group) <= w.top
          /\ \E w \in group : w.bottom = Lowest(group)
          /\ \E w \in group : w.top = Highest(group)
      BY <2>1, <2>2, Extents
    <2> QED
      BY <2>3 DEF group
  \* The middle between two groups is between all that is before and after.
  <1>6. ASSUME NEW i \in 1 .. n, i # n PROVE Splits(groups, i + 1, middle(i))
    <2> DEFINE j == i + 1
               lo == Lowest(groups[i])
               hi == Highest(groups[j])
               m == middle(i)
    <2>1. j \in 1 .. n /\ i < j
      BY <1>2, <1>6
    <2>2. PICK v \in groups[i] : v.bottom = lo
      BY <1>5
    <2>3. PICK w \in groups[j] : w.top = hi
      BY <1>5, <2>1
    <2>4. lo \in Int /\ hi \in Int /\ m = (lo + hi) \div 2
      BY <1>5, <2>1
    <2>5. lo <= hi
      BY <1>4, <2>1, <2>2, <2>3
    <2> HIDE DEF lo, hi, m
    <2>6. m \in Int /\ lo <= m /\ m <= hi
      BY <2>4, <2>5
    <2>7. ASSUME NEW g \in 1 .. n, NEW u \in groups[g]
          PROVE  (g < j => u.bottom <= m) /\ (j <= g => m <= u.top)
      <3>0. /\ u.top \in Int /\ u.bottom \in Int
            /\ v.top \in Int /\ v.bottom \in Int /\ w.top \in Int /\ w.bottom \in Int
            /\ v.top < v.bottom /\ w.top < w.bottom
        BY <1>2, <1>3, <2>1
      <3>1. CASE g = i
        <4>1. u.bottom <= lo
          BY <1>5, <3>1 DEF lo
        <4>2. g < j /\ ~(j <= g)
          BY <1>2, <2>1, <3>1
        <4> DEFINE bottom == u.bottom
        <4>3. bottom \in Int /\ bottom <= lo
          BY <3>0, <4>1
        <4> HIDE DEF bottom
        <4>4. bottom <= m
          BY <2>4, <2>6, <4>3
        <4> QED
          BY <4>2, <4>4 DEF bottom
      <3>2. CASE g < i
        <4>1. u.bottom <= v.top
          BY <1>4, <3>2
        <4> DEFINE bottom == u.bottom
                   t == v.top
                   b == v.bottom
        <4>2. bottom \in Int /\ t \in Int /\ b \in Int /\ bottom <= t /\ t < b /\ b = lo
          BY <2>2, <3>0, <4>1
        <4> HIDE DEF bottom, t, b
        <4>3. bottom <= m
          BY <2>4, <2>6, <4>2
        <4>4. ~(j <= g)
          BY <1>2, <2>1, <3>2
        <4> QED
          BY <4>3, <4>4 DEF bottom
      <3>3. CASE g = j
        <4>1. hi <= u.top
          BY <1>5, <3>3 DEF hi
        <4>2. ~(g < j)
          BY <1>2, <2>1, <3>3
        <4> DEFINE top == u.top
        <4>3. top \in Int /\ hi <= top
          BY <3>0, <4>1
        <4> HIDE DEF top
        <4>4. m <= top
          BY <2>4, <2>6, <4>3
        <4> QED
          BY <4>2, <4>4 DEF top
      <3>4. CASE j < g
        <4>1. w.bottom <= u.top
          BY <1>4, <2>1, <3>4
        <4> DEFINE top == u.top
                   t == w.top
                   b == w.bottom
        <4>2. top \in Int /\ t \in Int /\ b \in Int /\ b <= top /\ t < b /\ t = hi
          BY <2>3, <3>0, <4>1
        <4> HIDE DEF top, t, b
        <4>3. m <= top
          BY <2>4, <2>6, <4>2
        <4>4. ~(g < j)
          BY <1>2, <2>1, <3>4
        <4> QED
          BY <4>3, <4>4 DEF top
      <3>5. g = i \/ g < i \/ g = j \/ j < g
        BY <1>2, <2>1
      <3> QED
        BY <3>1, <3>2, <3>3, <3>4, <3>5
    <2>8. Splits(groups, j, m)
      BY <2>7 DEF Splits, n
    <2> QED
      BY <2>8 DEF m
  <1>7. Splits(groups, 1, page.edges.top)
    <2> SUFFICES ASSUME NEW g \in 1 .. n, NEW w \in groups[g]
                 PROVE  (g < 1 => w.bottom <= page.edges.top) /\ (1 <= g => page.edges.top <= w.top)
      BY DEF Splits, n
    <2>1. ~(g < 1) /\ w \in page.words
      BY <1>2
    <2> QED
      BY <1>3, <2>1
  <1>8. Splits(groups, n + 1, page.edges.bottom)
    <2> SUFFICES ASSUME NEW g \in 1 .. n, NEW w \in groups[g]
                 PROVE  /\ g < n + 1 => w.bottom <= page.edges.bottom
                        /\ n + 1 <= g => page.edges.bottom <= w.top
      BY DEF Splits, n
    <2>1. ~(n + 1 <= g) /\ w \in page.words
      BY <1>2
    <2> QED
      BY <1>3, <2>1
  <1> SUFFICES ASSUME NEW i \in 1 .. n
               PROVE  Splits(groups, i, bands[i].top) /\ Splits(groups, i + 1, bands[i].bottom)
    BY DEF n, bands
  <1> HIDE DEF middle
  <1>9. Splits(groups, i, bands[i].top)
    <2>1. CASE i = 1
      BY <1>1, <1>7, <2>1
    <2>2. CASE i # 1
      <3>1. i - 1 \in 1 .. n /\ i - 1 # n /\ (i - 1) + 1 = i
        BY <1>2, <2>2
      <3>2. Splits(groups, (i - 1) + 1, middle(i - 1))
        BY <1>6, <3>1
      <3> QED
        BY <1>1, <2>2, <3>1, <3>2
    <2> QED
      BY <2>1, <2>2
  <1>10. Splits(groups, i + 1, bands[i].bottom)
    BY <1>1, <1>6, <1>8
  <1> QED
    BY <1>9, <1>10

-----------------------------------------------------------------------------
(* Bands with a gutter in common. *)

\* What two gutters that meet have in common.
LEMMA OverlapIsWithin ==
    ASSUME NEW one \in Gutters, NEW other \in Gutters, Meets(one, other),
           one.from < one.to, other.from < other.to
    PROVE  LET common == Overlap(one, other) IN
           /\ common \in Gutters /\ common # NoGutter /\ common.from < common.to
           /\ one.from <= common.from /\ common.to <= one.to
           /\ other.from <= common.from /\ common.to <= other.to
  <1> DEFINE a == one.from
             b == one.to
             c == other.from
             d == other.to
             f == Max({a, c})
             t == Min({b, d})
             common == Overlap(one, other)
  <1>1. /\ a \in Int /\ b \in Int /\ c \in Int /\ d \in Int
        /\ a < b /\ c < d /\ a < d /\ c < b
    BY DEF Gutters, Meets
  <1>2. common = [from |-> f, to |-> t]
    BY DEF Overlap
  <1> HIDE DEF a, b, c, d, common
  <1>3. f \in {a, c} /\ a <= f /\ c <= f /\ t \in {b, d} /\ t <= b /\ t <= d
    BY <1>1, OfTwo
  <1> HIDE DEF f, t
  <1>4. f \in Int /\ t \in Int /\ f < t
    BY <1>1, <1>3
  <1>5. common \in Gutters /\ common.from = f /\ common.to = t
    BY <1>2, <1>4 DEF Gutters
  <1>6. common # NoGutter
    BY <1>4, <1>5 DEF NoGutter
  <1> QED
    BY <1>3, <1>4, <1>5, <1>6 DEF a, b, c, d, common

\* Columns go on from one gutter to the next.
GoOn(gutter, other) == gutter # NoGutter /\ other # NoGutter /\ Meets(gutter, other)

\* The gutter so far, as _merge_columned_bands carries it from band to band.
SoFar(common, bands) ==
    common = [i \in 1 .. Len(bands) |->
                IF i > 1 /\ GoOn(common[i - 1], bands[i].gutter)
                  THEN Overlap(common[i - 1], bands[i].gutter) ELSE bands[i].gutter]

\* There is such a function.
LEMMA SoFarIsDefined ==
    ASSUME NEW bands \in Seq(Strips)
    PROVE  \E common : SoFar(common, bands)
  <1> DEFINE n == Len(bands)
             nothing == NoGutter
             start == IF n = 0 THEN nothing ELSE bands[1].gutter
             next(i, x) == IF i \in 1 .. n
                             THEN IF GoOn(x, bands[i].gutter) THEN Overlap(x, bands[i].gutter)
                                                              ELSE bands[i].gutter
                             ELSE nothing
             step == [i \in Nat |-> [x \in Gutters |-> next(i, x)]]
  <1>1. n \in Nat /\ nothing \in Gutters
        /\ \A i \in 1 .. n : bands[i].gutter \in Gutters
    <2>1. n \in Nat /\ \A i \in 1 .. n : bands[i] \in Strips
      OBVIOUS
    <2>2. nothing \in Gutters
      BY DEF NoGutter, Gutters
    <2>3. \A x \in Strips : x.gutter \in Gutters
      BY DEF Strips
    <2> QED
      BY <2>1, <2>2, <2>3
  <1>2. \A x \in Gutters, y \in Gutters : Overlap(x, y) \in Gutters
    <2> SUFFICES ASSUME NEW x \in Gutters, NEW y \in Gutters PROVE Overlap(x, y) \in Gutters
      OBVIOUS
    <2>1. x.from \in Int /\ x.to \in Int /\ y.from \in Int /\ y.to \in Int
      BY DEF Gutters
    <2>2. Max({x.from, y.from}) \in Int
      BY <2>1, OfTwo
    <2>3. Min({x.to, y.to}) \in Int
      BY <2>1, OfTwo
    <2> QED
      BY <2>2, <2>3 DEF Overlap, Gutters
  <1>3. \A i \in Nat, x \in Gutters : next(i, x) \in Gutters
    BY <1>1, <1>2
  <1>4. start \in Gutters /\ (n # 0 => start = bands[1].gutter)
    BY <1>1
  <1>5. \A i \in Nat, x \in Gutters : step[i][x] = next(i, x)
    OBVIOUS
  <1>6. step \in [Nat -> [Gutters -> Gutters]]
    <2> HIDE DEF next
    <2> QED
      BY <1>3
  <1> HIDE DEF step, start, n
  <1>7. PICK f \in [1 .. n -> Gutters] : Climbs(f, n, start, step)
    BY <1>1, <1>4, <1>6, StepsDefine
  <1>8. ASSUME NEW k \in 1 .. n
        PROVE  f[k] = IF k > 1 /\ GoOn(f[k - 1], bands[k].gutter)
                        THEN Overlap(f[k - 1], bands[k].gutter) ELSE bands[k].gutter
    <2>1. CASE k = 1
      <3>1. ~(k > 1) /\ n # 0
        BY <1>1, <2>1
      <3> QED
        BY <1>4, <1>7, <2>1, <3>1 DEF Climbs
    <2>2. CASE k # 1
      <3>1. k - 1 \in 1 .. n /\ k > 1 /\ k \in Nat
        BY <1>1, <2>2
      <3>2. f[k - 1] \in Gutters /\ f[k] = step[k][f[k - 1]]
        BY <1>7, <2>2, <3>1 DEF Climbs
      <3>3. f[k] = next(k, f[k - 1])
        BY <1>5, <3>1, <3>2
      <3> QED
        BY <3>1, <3>3
    <2> QED
      BY <2>1, <2>2
  <1> QED
    BY <1>7, <1>8 DEF SoFar, n

\* The strips take the groups in stretches, from the top of the first to the
\* bottom of the last, and a gutter is one for all of them.
Gathered(groups, bands, strips, ends) ==
    /\ strips \in Seq(Strips) /\ Len(ends) = Len(strips)
    /\ \A r \in 1 .. Len(strips) :
         LET from == ends[r].from
             to   == ends[r].to
         IN  /\ from \in 1 .. Len(groups) /\ to \in 1 .. Len(groups) /\ from <= to
             /\ strips[r].top = bands[from].top
             /\ strips[r].bottom = bands[to].bottom
             /\ strips[r].gutter # NoGutter =>
                  /\ strips[r].gutter.from < strips[r].gutter.to
                  /\ \A g \in from .. to : ClearOf(groups[g], strips[r].gutter)
    /\ \A r, s \in 1 .. Len(strips) : r < s => ends[r].to < ends[s].from
    /\ \A g \in 1 .. Len(groups) :
         \E r \in 1 .. Len(strips) : ends[r].from <= g /\ g <= ends[r].to

\* Merged makes such strips.
LEMMA MergedIsGathered ==
    ASSUME NEW words \in SUBSET Words, NEW groups, InGroups(words, groups),
           NEW bands, Banded(groups, bands)
    PROVE  \E ends : Gathered(groups, bands, Merged(bands), ends)
  <1> DEFINE n == Len(bands)
             goesOn(gutter, i) == /\ gutter # NoGutter /\ bands[i].gutter # NoGutter
                                  /\ Meets(gutter, bands[i].gutter)
             Carry(f) == f = [i \in 1 .. n |->
                                IF i > 1 /\ goesOn(f[i - 1], i)
                                  THEN Overlap(f[i - 1], bands[i].gutter) ELSE bands[i].gutter]
             common == CHOOSE f : Carry(f)
             breaks == {i \in 2 .. n : ~goesOn(common[i - 1], i)}
             one == Stretches(1 .. n, breaks)
             strip(r) == [top    |-> bands[one[r].from].top,
                          bottom |-> bands[one[r].to].bottom,
                          gutter |-> common[one[r].to]]
             strips == [r \in DOMAIN one |-> strip(r)]
  <1>1. Merged(bands) = strips
    BY DEF Merged
  <1>2. /\ bands \in Seq(Strips) /\ n \in Nat /\ Len(groups) = n
        /\ \A i \in 1 .. n : bands[i] \in Strips /\ IsGutter(bands[i].gutter, groups[i])
    BY DEF Banded
  <1>3. \A f : Carry(f) <=> SoFar(f, bands)
    BY DEF SoFar, GoOn
  <1>4. SoFar(common, bands)
    <2>1. \E f : Carry(f)
      BY <1>2, <1>3, SoFarIsDefined
    <2>2. Carry(common)
      <3> HIDE DEF Carry
      <3> QED
        BY <2>1
    <2> HIDE DEF common, Carry
    <2> QED
      BY <1>3, <2>2
  <1> HIDE DEF common, Carry
  <1>5. \A i \in 1 .. n : common[i] = IF i > 1 /\ GoOn(common[i - 1], bands[i].gutter)
                                        THEN Overlap(common[i - 1], bands[i].gutter)
                                        ELSE bands[i].gutter
    BY <1>4 DEF SoFar
  <1>6. \A i \in breaks : i \in 2 .. n
    OBVIOUS
  <1>7. \A i \in 2 .. n : i \notin breaks => GoOn(common[i - 1], bands[i].gutter)
    BY DEF GoOn
  <1>8. Cut(1 .. n, breaks, one)
    <2>1. 1 .. n \in SUBSET Int /\ IsFiniteSet(1 .. n)
      BY <1>2, FS_Interval
    <2> HIDE DEF n, breaks
    <2> QED
      BY <2>1, StretchesCut
  <1> HIDE DEF n, goesOn, breaks, one
  <1>9. /\ Len(one) \in Nat /\ DOMAIN one = 1 .. Len(one)
        /\ \A r \in 1 .. Len(one) :
             /\ one[r].from \in 1 .. n /\ one[r].to \in 1 .. n
             /\ one[r].from <= one[r].to
             /\ \A i \in (one[r].from + 1) .. one[r].to : i \notin breaks
        /\ \A r, s \in 1 .. Len(one) : r < s => one[r].to < one[s].from
        /\ \A i \in 1 .. n : \E r \in 1 .. Len(one) : one[r].from <= i /\ i <= one[r].to
    <2>1. one \in Seq([from : 1 .. n, to : 1 .. n])
      BY <1>8 DEF Cut
    <2>2. Len(one) \in Nat /\ DOMAIN one = 1 .. Len(one)
      BY <2>1
    <2> QED
      BY <1>8, <2>2 DEF Cut
  \* The gutter so far has width, and is within the one before it.
  <1> DEFINE Wide(gutter) == gutter \in Gutters /\ (gutter # NoGutter => gutter.from < gutter.to)
  <1>10. ASSUME NEW i \in 1 .. n PROVE bands[i].gutter \in Gutters /\ Wide(bands[i].gutter)
    BY <1>2 DEF IsGutter
  <1>11. ASSUME NEW i \in 1 .. n, i # 1, Wide(common[i - 1]),
                GoOn(common[i - 1], bands[i].gutter)
         PROVE  /\ Wide(common[i]) /\ common[i - 1] # NoGutter
                /\ common[i - 1].from <= common[i].from /\ common[i].to <= common[i - 1].to
                /\ bands[i].gutter.from <= common[i].from
                /\ common[i].to <= bands[i].gutter.to
    <2> DEFINE a == common[i - 1]
               b == bands[i].gutter
               c == common[i]
    <2>1. i > 1
      BY <1>2, <1>11
    <2>2. /\ a \in Gutters /\ b \in Gutters /\ Meets(a, b)
          /\ a.from < a.to /\ b.from < b.to /\ c = Overlap(a, b) /\ a # NoGutter
      BY <1>5, <1>10, <1>11, <2>1 DEF GoOn
    <2> HIDE DEF a, b, c
    <2>3. /\ Overlap(a, b) \in Gutters /\ Overlap(a, b).from < Overlap(a, b).to
          /\ a.from <= Overlap(a, b).from /\ Overlap(a, b).to <= a.to
          /\ b.from <= Overlap(a, b).from /\ Overlap(a, b).to <= b.to
      BY <2>2, OverlapIsWithin
    <2>4. /\ c \in Gutters /\ c.from < c.to
          /\ a.from <= c.from /\ c.to <= a.to /\ b.from <= c.from /\ c.to <= b.to
      BY <2>2, <2>3
    <2> QED
      BY <2>2, <2>4 DEF a, b, c
  <1>12. \A i \in 1 .. n : Wide(common[i])
    <2> DEFINE W == {g \in Gutters : Wide(g)}
    <2>1. ASSUME NEW i \in 1 .. n
          PROVE  /\ i = 1 => common[i] \in W
                 /\ i # 1 /\ common[i - 1] \in W => common[i] \in W
      <3>1. CASE i > 1 /\ GoOn(common[i - 1], bands[i].gutter)
        BY <1>2, <1>11, <3>1
      <3>2. CASE ~(i > 1 /\ GoOn(common[i - 1], bands[i].gutter))
        <4>1. common[i] = bands[i].gutter
          BY <1>5, <3>2
        <4> QED
          BY <1>10, <4>1
      <3> QED
        BY <3>1, <3>2
    <2> HIDE DEF W
    <2>2. \A i \in 1 .. n : common[i] \in W
      BY <1>2, <2>1, StepsStayWithin
    <2> QED
      BY <2>2 DEF W
  <1> HIDE DEF Wide
  <1>13. \A i \in 1 .. n : \A w \in groups[i] : w.x0 \in Int /\ w.x1 \in Int
    <2>1. groups \in Seq(SUBSET words)
      BY DEF InGroups
    <2>2. \A i \in 1 .. n : groups[i] \in SUBSET words
      BY <1>2, <2>1
    <2> QED
      BY <2>2 DEF Words
  \* A narrower gutter is as clear.
  <1>14. ASSUME NEW g \in 1 .. n, NEW wide \in Gutters, NEW narrow \in Gutters,
                wide.from <= narrow.from, narrow.to <= wide.to, ClearOf(groups[g], wide)
         PROVE  ClearOf(groups[g], narrow)
    <2> SUFFICES ASSUME NEW w \in groups[g] PROVE w.x1 <= narrow.from \/ narrow.to <= w.x0
      BY DEF ClearOf
    <2> DEFINE a == wide.from
               b == wide.to
               c == narrow.from
               d == narrow.to
               x == w.x0
               y == w.x1
    <2>1. /\ a \in Int /\ b \in Int /\ c \in Int /\ d \in Int /\ x \in Int /\ y \in Int
          /\ a <= c /\ d <= b /\ (y <= a \/ b <= x)
      BY <1>13, <1>14 DEF Gutters, ClearOf
    <2> HIDE DEF a, b, c, d, x, y
    <2>2. y <= c \/ d <= x
      BY <2>1
    <2> QED
      BY <2>2 DEF c, d, x, y
  <1>15. ASSUME NEW i \in 1 .. n, common[i] # NoGutter PROVE ClearOf(groups[i], common[i])
    <2>1. CASE i > 1 /\ GoOn(common[i - 1], bands[i].gutter)
      <3>1. i - 1 \in 1 .. n /\ i # 1
        BY <1>2, <2>1
      <3>2. /\ bands[i].gutter.from <= common[i].from /\ common[i].to <= bands[i].gutter.to
            /\ bands[i].gutter # NoGutter
        BY <1>11, <1>12, <2>1, <3>1 DEF GoOn
      <3>3. common[i] \in Gutters /\ bands[i].gutter \in Gutters
            /\ ClearOf(groups[i], bands[i].gutter)
        BY <1>2, <1>10, <1>12, <3>2 DEF Wide, IsGutter
      <3> QED
        BY <1>14, <3>2, <3>3
    <2>2. CASE ~(i > 1 /\ GoOn(common[i - 1], bands[i].gutter))
      <3>1. common[i] = bands[i].gutter
        BY <1>5, <2>2
      <3> QED
        BY <1>2, <1>15, <3>1 DEF IsGutter
    <2> QED
      BY <2>1, <2>2
  <1>16. ASSUME NEW r \in 1 .. Len(one), common[one[r].to] # NoGutter,
                NEW g \in one[r].from .. one[r].to
         PROVE  ClearOf(groups[g], common[one[r].to])
    <2> DEFINE from == one[r].from
               to == one[r].to
               All(i) == \A h \in from .. i : ClearOf(groups[h], common[i])
               P == {m \in Nat : from + m \in from .. to /\ common[from + m] # NoGutter
                                   => All(from + m)}
    <2>1. from \in 1 .. n /\ to \in 1 .. n /\ from <= to
          /\ \A i \in (from + 1) .. to : i \notin breaks
      BY <1>9
    <2> HIDE DEF from, to
    <2>2. 0 \in P
      <3> SUFFICES ASSUME common[from] # NoGutter PROVE All(from)
        BY <2>1
      <3>1. \A h \in from .. from : h = from
        BY <2>1
      <3> QED
        BY <1>15, <2>1, <3>1
    <2>3. ASSUME NEW m \in Nat, m \in P PROVE m + 1 \in P
      <3> DEFINE i == from + (m + 1)
      <3> SUFFICES ASSUME i \in from .. to, common[i] # NoGutter PROVE All(i)
        OBVIOUS
      <3>1. /\ i \in (from + 1) .. to /\ i \in 1 .. n /\ i \in 2 .. n /\ i # 1
            /\ i - 1 = from + m /\ from + m \in from .. to /\ i - 1 \in 1 .. n
        BY <1>2, <2>1
      <3>2. All(from + m) \/ common[from + m] = NoGutter
        BY <2>3, <3>1
      <3> HIDE DEF i, P
      <3>3. GoOn(common[i - 1], bands[i].gutter)
        BY <1>7, <2>1, <3>1
      <3>4. /\ common[i - 1] # NoGutter
            /\ common[i - 1].from <= common[i].from /\ common[i].to <= common[i - 1].to
        BY <1>11, <1>12, <3>1, <3>3
      <3>5. All(i - 1)
        BY <3>1, <3>2, <3>4
      <3>6. common[i] \in Gutters /\ common[i - 1] \in Gutters
        BY <1>12, <3>1 DEF Wide
      <3>7. ASSUME NEW h \in from .. i PROVE ClearOf(groups[h], common[i])
        <4>1. CASE h = i
          BY <1>15, <3>1, <4>1
        <4>2. CASE h # i
          <5>1. h \in from .. (i - 1) /\ h \in 1 .. n
            BY <1>2, <2>1, <3>1, <4>2
          <5>2. ClearOf(groups[h], common[i - 1])
            BY <3>5, <5>1
          <5> QED
            BY <1>14, <3>4, <3>6, <5>1, <5>2
        <4> QED
          BY <4>1, <4>2
      <3> QED
        BY <3>7
    <2> HIDE DEF P
    <2>4. \A m \in Nat : m \in P
      BY <2>2, <2>3, NumbersByInduction
    <2>5. to - from \in Nat /\ from + (to - from) = to /\ to \in from .. to
      BY <1>2, <2>1
    <2>6. All(to)
      BY <1>16, <2>4, <2>5 DEF P, to
    <2> QED
      BY <2>6 DEF from, to
  <1>17. ASSUME NEW r \in 1 .. Len(one)
         PROVE  /\ strip(r) \in Strips
                /\ strip(r).top = bands[one[r].from].top
                /\ strip(r).bottom = bands[one[r].to].bottom
                /\ strip(r).gutter = common[one[r].to]
    <2>1. bands[one[r].from] \in Strips /\ bands[one[r].to] \in Strips
          /\ common[one[r].to] \in Gutters
      BY <1>2, <1>9, <1>12 DEF Wide
    <2> QED
      BY <2>1 DEF Strips
  <1>18. strips = [r \in 1 .. Len(one) |-> strip(r)]
    BY <1>9
  <1> HIDE DEF strip
  <1>19. \A r \in 1 .. Len(one) : strips[r] = strip(r)
    BY <1>18
  <1>20. strips \in Seq(Strips) /\ Len(strips) = Len(one)
    <2>1. strips \in [1 .. Len(one) -> Strips]
      BY <1>17, <1>18
    <2> HIDE DEF strips
    <2> QED
      BY <1>9, <2>1, FunctionIsSequence
  <1> HIDE DEF strips
  <1>21. ASSUME NEW r \in 1 .. Len(strips)
         PROVE  LET from == one[r].from
                    to   == one[r].to
                IN  /\ from \in 1 .. Len(groups) /\ to \in 1 .. Len(groups) /\ from <= to
                    /\ strips[r].top = bands[from].top
                    /\ strips[r].bottom = bands[to].bottom
                    /\ strips[r].gutter # NoGutter =>
                         /\ strips[r].gutter.from < strips[r].gutter.to
                         /\ \A g \in from .. to : ClearOf(groups[g], strips[r].gutter)
    <2>1. /\ r \in 1 .. Len(one)
          /\ strips[r].top = bands[one[r].from].top
          /\ strips[r].bottom = bands[one[r].to].bottom
          /\ strips[r].gutter = common[one[r].to]
      BY <1>17, <1>19, <1>20
    <2>2. one[r].from \in 1 .. n /\ one[r].to \in 1 .. n /\ one[r].from <= one[r].to
      BY <1>9, <2>1
    <2>3. strips[r].gutter # NoGutter => strips[r].gutter.from < strips[r].gutter.to
      BY <1>12, <2>1, <2>2 DEF Wide
    <2>4. strips[r].gutter # NoGutter =>
            \A g \in one[r].from .. one[r].to : ClearOf(groups[g], strips[r].gutter)
      BY <1>16, <2>1
    <2> QED
      BY <1>2, <2>1, <2>2, <2>3, <2>4
  <1>22. \A g \in 1 .. Len(groups) :
           \E r \in 1 .. Len(strips) : one[r].from <= g /\ g <= one[r].to
    BY <1>2, <1>9, <1>20
  <1>23. Gathered(groups, bands, strips, one)
    BY <1>9, <1>20, <1>21, <1>22 DEF Gathered
  <1> QED
    BY <1>1, <1>23

-----------------------------------------------------------------------------
(* The regions of a page. *)

Boxes == [left : Int, top : Int, right : Int, bottom : Int]

\* A word is in a box as page.crop has it.
In(w, box) ==
    /\ w.x0 < box.right /\ box.left < w.x1
    /\ w.top < box.bottom /\ box.top < w.bottom

\* What is flattened is found again, each at a place of its own.
Placed(seqs, flat, start) ==
    /\ start \in [1 .. Len(seqs) -> Nat]
    /\ \A i \in 1 .. Len(seqs) : \A k \in 1 .. Len(seqs[i]) :
         start[i] + k \in 1 .. Len(flat) /\ flat[start[i] + k] = seqs[i][k]
    /\ \A b \in 1 .. Len(flat) :
         \E i \in 1 .. Len(seqs) : \E k \in 1 .. Len(seqs[i]) : b = start[i] + k

\* There are such places.
LEMMA FlatPlaces ==
    ASSUME NEW S, NEW seqs \in Seq(Seq(S)), NEW flat, flat = FlattenSeq(seqs)
    PROVE  flat \in Seq(S) /\ \E start : Placed(seqs, flat, start)
  <1>1. CASE seqs = <<>>
    <2> DEFINE start == [i \in 1 .. Len(seqs) |-> 0]
    <2>1. flat = <<>>
      BY <1>1 DEF FlattenSeq
    <2>2. start \in [1 .. Len(seqs) -> Nat]
      OBVIOUS
    <2>3. 1 .. Len(seqs) = {} /\ 1 .. Len(flat) = {}
      BY <1>1, <2>1
    <2> HIDE DEF start
    <2>4. Placed(seqs, flat, start)
      BY <2>2, <2>3 DEF Placed
    <2> QED
      BY <2>1, <2>4
  <1>2. CASE seqs # <<>>
    <2> DEFINE nothing == <<>>
               spans == SpansOf(seqs, Len(nothing))
               n == Len(seqs)
               start == [i \in 1 .. n |-> spans[i].start]
    <2>1. nothing \in Seq(S) /\ Joins(S, seqs, nothing, flat) /\ Len(nothing) = 0
      BY <1>2, FlatJoins
    <2> HIDE DEF nothing
    <2>2. flat \in Seq(S) /\ Spanned(seqs, spans, Len(nothing)) /\ Laid(seqs, flat, spans, nothing)
      BY <1>2, <2>1, JoinedIsLaid
    <2> HIDE DEF spans
    <2>3. n \in Nat /\ Len(flat) \in Nat
      BY <2>2
    <2> HIDE DEF n
    <2>4. ASSUME NEW i \in 1 .. n
          PROVE  /\ spans[i].start \in Nat /\ spans[i].end \in Nat /\ Len(seqs[i]) \in Nat
                 /\ spans[i].end = spans[i].start + Len(seqs[i])
                 /\ spans[i].end <= Len(flat)
                 /\ \A k \in 1 .. Len(seqs[i]) : flat[spans[i].start + k] = seqs[i][k]
      <3>1. Len(seqs[i]) \in Nat
        BY DEF n
      <3> QED
        BY <2>2, <3>1 DEF Spanned, Laid, n
    <2>5. start \in [1 .. n -> Nat] /\ \A i \in 1 .. n : start[i] = spans[i].start
      BY <2>4
    <2>6. ASSUME NEW i \in 1 .. n, NEW k \in 1 .. Len(seqs[i])
          PROVE  start[i] + k \in 1 .. Len(flat) /\ flat[start[i] + k] = seqs[i][k]
      <3> DEFINE s == spans[i].start
                 e == spans[i].end
                 m == Len(seqs[i])
      <3>1. /\ s \in Nat /\ e \in Nat /\ m \in Nat /\ e = s + m /\ e <= Len(flat)
            /\ k \in 1 .. m
        BY <2>4
      <3> HIDE DEF s, e, m
      <3>2. s + k \in 1 .. Len(flat)
        BY <2>3, <3>1
      <3> QED
        BY <2>4, <2>5, <3>2 DEF s
    <2>7. ASSUME NEW b \in 1 .. Len(flat)
          PROVE  \E i \in 1 .. n : \E k \in 1 .. Len(seqs[i]) : b = start[i] + k
      <3>1. PICK i \in 1 .. n : spans[i].start < b /\ b <= spans[i].end + Len(nothing)
        BY <2>2 DEF Laid, n
      <3> DEFINE s == spans[i].start
                 e == spans[i].end
                 m == Len(seqs[i])
      <3>2. /\ s \in Nat /\ e \in Nat /\ m \in Nat /\ e = s + m /\ s < b /\ b <= e + 0
            /\ start[i] = s /\ b \in Nat
        BY <2>1, <2>3, <2>4, <2>5, <3>1
      <3> HIDE DEF s, e, m, start
      <3>3. b - s \in 1 .. m /\ b = start[i] + (b - s)
        BY <3>2
      <3> QED
        BY <3>3 DEF m
    <2> HIDE DEF start
    <2>8. Placed(seqs, flat, start)
      BY <2>5, <2>6, <2>7 DEF Placed, n
    <2> QED
      BY <2>2, <2>8
  <1> QED
    BY <1>1, <1>2

\* Edges of a page, as far as they matter here.
Edges(edges) ==
    edges.left \in Int /\ edges.top \in Int /\ edges.right \in Int /\ edges.bottom \in Int

\* A strip is one box or two.
LEMMA StripIsBoxes ==
    ASSUME NEW strip \in Strips, NEW edges, Edges(edges)
    PROVE  BoxesOf(strip, edges) \in Seq(Boxes)
  <1> DEFINE middle == (strip.gutter.from + strip.gutter.to) \div 2
             whole == Box(edges.left, strip.top, edges.right, strip.bottom)
             left == Box(edges.left, strip.top, middle, strip.bottom)
             right == Box(middle, strip.top, edges.right, strip.bottom)
  <1>1. /\ strip.top \in Int /\ strip.bottom \in Int
        /\ strip.gutter.from \in Int /\ strip.gutter.to \in Int
    BY DEF Strips, Gutters
  <1>2. middle \in Int
    BY <1>1
  <1>3. BoxesOf(strip, edges) = IF strip.gutter = NoGutter THEN <<whole>> ELSE <<left, right>>
    BY DEF BoxesOf
  <1> HIDE DEF middle
  <1>4. whole \in Boxes /\ left \in Boxes /\ right \in Boxes
    BY <1>1, <1>2 DEF Edges, Boxes, Box
  <1> HIDE DEF whole, left, right
  <1> QED
    BY <1>3, <1>4

\* A word that takes up room within the edges.
Inside(w, edges) ==
    /\ w \in Words
    /\ edges.left <= w.x0 /\ w.x0 < w.x1 /\ w.x1 <= edges.right
    /\ edges.top <= w.top /\ w.top < w.bottom /\ w.bottom <= edges.bottom

\* The strip is as high as the word, as page.crop has it.
Beside(w, strip) == w.top < strip.bottom /\ strip.top < w.bottom

\* A word beside a strip whose gutter it leaves clear is in one of its boxes,
LEMMA InOneBox ==
    ASSUME NEW strip \in Strips, NEW edges, Edges(edges), NEW w, Inside(w, edges),
           Beside(w, strip),
           strip.gutter # NoGutter => /\ strip.gutter.from < strip.gutter.to
                                      /\ w.x1 <= strip.gutter.from \/ strip.gutter.to <= w.x0
    PROVE  \E k \in 1 .. Len(BoxesOf(strip, edges)) :
             \A l \in 1 .. Len(BoxesOf(strip, edges)) :
               In(w, BoxesOf(strip, edges)[l]) <=> l = k
  <1> DEFINE from == strip.gutter.from
             to == strip.gutter.to
             middle == (strip.gutter.from + strip.gutter.to) \div 2
             whole == Box(edges.left, strip.top, edges.right, strip.bottom)
             left == Box(edges.left, strip.top, middle, strip.bottom)
             right == Box(middle, strip.top, edges.right, strip.bottom)
             boxes == BoxesOf(strip, edges)
             x0 == w.x0
             x1 == w.x1
             l0 == edges.left
             r0 == edges.right
  <1>1. /\ from \in Int /\ to \in Int /\ middle = (from + to) \div 2
        /\ x0 \in Int /\ x1 \in Int /\ l0 \in Int /\ r0 \in Int
        /\ l0 <= x0 /\ x0 < x1 /\ x1 <= r0
    BY DEF Strips, Gutters, Words, Inside, Edges
  <1>2. boxes = IF strip.gutter = NoGutter THEN <<whole>> ELSE <<left, right>>
    BY DEF BoxesOf
  <1>3. /\ In(w, whole) <=> x0 < r0 /\ l0 < x1
        /\ In(w, left) <=> x0 < middle /\ l0 < x1
        /\ In(w, right) <=> x0 < r0 /\ middle < x1
    BY DEF In, Box, Beside
  <1> HIDE DEF middle, whole, left, right, boxes, x0, x1, l0, r0
  <1>4. CASE strip.gutter = NoGutter
    <2>1. In(w, whole)
      BY <1>1, <1>3
    <2>2. Len(boxes) = 1 /\ boxes[1] = whole /\ 1 .. 1 = {1}
      BY <1>2, <1>4
    <2>3. \A l \in 1 .. Len(boxes) : In(w, boxes[l]) <=> l = 1
      BY <2>1, <2>2
    <2>4. 1 \in 1 .. Len(boxes)
      BY <2>2
    <2> QED
      BY <2>3, <2>4 DEF boxes
  <1>5. CASE strip.gutter # NoGutter
    <2>1. Len(boxes) = 2 /\ boxes[1] = left /\ boxes[2] = right /\ 1 .. 2 = {1, 2}
      BY <1>2, <1>5
    <2>2. from < to /\ (x1 <= from \/ to <= x0)
      BY <1>5 DEF x0, x1
    <2> HIDE DEF from, to
    <2>3. middle \in Int /\ from <= middle /\ middle <= to
      BY <1>1, <2>2
    <2>4. CASE x1 <= from
      <3>1. In(w, left) /\ ~In(w, right)
        BY <1>1, <1>3, <2>3, <2>4
      <3>2. \A l \in 1 .. Len(boxes) : In(w, boxes[l]) <=> l = 1
        BY <2>1, <3>1
      <3>3. 1 \in 1 .. Len(boxes)
        BY <2>1
      <3> QED
        BY <3>2, <3>3 DEF boxes
    <2>5. CASE to <= x0
      <3>1. ~In(w, left) /\ In(w, right)
        BY <1>1, <1>3, <2>3, <2>5
      <3>2. \A l \in 1 .. Len(boxes) : In(w, boxes[l]) <=> l = 2
        BY <2>1, <3>1
      <3>3. 2 \in 1 .. Len(boxes)
        BY <2>1
      <3> QED
        BY <3>2, <3>3 DEF boxes
    <2> QED
      BY <2>2, <2>4, <2>5
  <1> QED
    BY <1>4, <1>5

\* and a word that is not beside it in none.
LEMMA InNoBox ==
    ASSUME NEW strip, NEW edges, NEW w, ~Beside(w, strip)
    PROVE  \A l \in 1 .. Len(BoxesOf(strip, edges)) : ~In(w, BoxesOf(strip, edges)[l])
  <1> DEFINE middle == (strip.gutter.from + strip.gutter.to) \div 2
             whole == Box(edges.left, strip.top, edges.right, strip.bottom)
             left == Box(edges.left, strip.top, middle, strip.bottom)
             right == Box(middle, strip.top, edges.right, strip.bottom)
             boxes == BoxesOf(strip, edges)
  <1>1. boxes = IF strip.gutter = NoGutter THEN <<whole>> ELSE <<left, right>>
    BY DEF BoxesOf
  <1>2. ~In(w, whole) /\ ~In(w, left) /\ ~In(w, right)
    BY DEF In, Box, Beside
  <1> HIDE DEF whole, left, right, boxes
  <1>3. 1 .. 1 = {1} /\ 1 .. 2 = {1, 2}
    OBVIOUS
  <1>4. \A l \in 1 .. Len(boxes) : ~In(w, boxes[l])
    BY <1>1, <1>2, <1>3
  <1> QED
    BY <1>4 DEF boxes

\* Which strips a word is beside: those that take its group.
LEMMA BesideItsStrip ==
    ASSUME NEW groups, groups \in Seq(SUBSET Words),
           NEW strip, NEW from \in 1 .. Len(groups), NEW to \in 1 .. Len(groups), from <= to,
           Splits(groups, from, strip.top), Splits(groups, to + 1, strip.bottom),
           strip \in Strips,
           NEW g \in 1 .. Len(groups), NEW w \in groups[g], w.top < w.bottom
    PROVE  Beside(w, strip) <=> from <= g /\ g <= to
  <1> DEFINE t == w.top
             b == w.bottom
             top == strip.top
             bottom == strip.bottom
  <1>1. t \in Int /\ b \in Int /\ top \in Int /\ bottom \in Int /\ t < b
    <2>1. groups[g] \in SUBSET Words
      OBVIOUS
    <2> QED
      BY <2>1 DEF Words, Strips
  <1>2. /\ g < from => b <= top
        /\ from <= g => top <= t
        /\ g < to + 1 => b <= bottom
        /\ to + 1 <= g => bottom <= t
    BY DEF Splits
  <1>3. Beside(w, strip) <=> t < bottom /\ top < b
    BY DEF Beside
  <1>4. g \in Int /\ from \in Int /\ to \in Int
    OBVIOUS
  <1> HIDE DEF t, b, top, bottom
  <1> QED
    BY <1>1, <1>2, <1>3, <1>4

\* Each word is in one region, and one only.
LEMMA InOneRegion ==
    ASSUME NEW page, IsPage(page), OnPage(page), NEW groups, InGroups(page.words, groups),
           OneAboveTheOther(groups), NEW strips, NEW ends,
           Gathered(groups, BandsOf(groups, page), strips, ends),
           NEW w \in page.words
    PROVE  LET regions == Regions(strips, page.edges) IN
           \E b \in 1 .. Len(regions) : \A c \in 1 .. Len(regions) : In(w, regions[c]) <=> c = b
  <1> DEFINE edges == page.edges
             bands == BandsOf(groups, page)
             n == Len(strips)
             seqs == [i \in 1 .. n |-> BoxesOf(strips[i], edges)]
             regions == Regions(strips, edges)
  <1>1. regions = FlattenSeq(seqs)
    BY DEF Regions
  <1>2. /\ strips \in Seq(Strips) /\ n \in Nat /\ \A r \in 1 .. n : strips[r] \in Strips
    BY DEF Gathered
  <1>3. Edges(edges)
    BY DEF IsPage, Edges
  <1>4. Inside(w, edges) /\ w.top < w.bottom
    BY DEF IsPage, OnPage, Inside
  <1>5. \A r \in 1 .. n : seqs[r] \in Seq(Boxes) /\ seqs[r] = BoxesOf(strips[r], edges)
    BY <1>2, <1>3, StripIsBoxes
  <1>6. seqs \in Seq(Seq(Boxes)) /\ Len(seqs) = n
    <2> DEFINE S == Seq(Boxes)
    <2>1. seqs \in [1 .. n -> S]
      BY <1>5
    <2> HIDE DEF S, seqs, n
    <2>2. seqs \in Seq(S) /\ Len(seqs) = n
      BY <1>2, <2>1, FunctionIsSequence
    <2> QED
      BY <2>2 DEF S
  <1>7. /\ groups \in Seq(SUBSET Words)
        /\ \E g \in 1 .. Len(groups) : w \in groups[g]
    <2>1. groups \in Seq(SUBSET page.words) /\ page.words \in SUBSET Words
      BY DEF InGroups, IsPage
    <2>2. groups \in Seq(SUBSET Words)
      BY <2>1
    <2> QED
      BY <2>2 DEF InGroups
  <1>8. PICK g \in 1 .. Len(groups) : w \in groups[g]
    BY <1>7
  <1>9. \A i \in 1 .. Len(groups) : Splits(groups, i, bands[i].top)
                                   /\ Splits(groups, i + 1, bands[i].bottom)
    BY BandsSplit
  <1> HIDE DEF seqs, regions, bands, n, edges
  <1>10. ASSUME NEW r \in 1 .. n
         PROVE  /\ Beside(w, strips[r]) <=> ends[r].from <= g /\ g <= ends[r].to
                /\ ends[r].from \in 1 .. Len(groups) /\ ends[r].to \in 1 .. Len(groups)
                /\ strips[r].gutter # NoGutter =>
                     /\ strips[r].gutter.from < strips[r].gutter.to
                     /\ \A h \in ends[r].from .. ends[r].to : ClearOf(groups[h], strips[r].gutter)
    <2> DEFINE from == ends[r].from
               to == ends[r].to
               strip == strips[r]
    <2>1. /\ from \in 1 .. Len(groups) /\ to \in 1 .. Len(groups) /\ from <= to
          /\ strip.top = bands[from].top /\ strip.bottom = bands[to].bottom
          /\ strip.gutter # NoGutter =>
               /\ strip.gutter.from < strip.gutter.to
               /\ \A h \in from .. to : ClearOf(groups[h], strip.gutter)
      BY DEF Gathered, n, bands
    <2>2. Splits(groups, from, strip.top) /\ Splits(groups, to + 1, strip.bottom)
      BY <1>9, <2>1
    <2>3. strip \in Strips
      BY <1>2
    <2> HIDE DEF from, to, strip
    <2>4. Beside(w, strip) <=> from <= g /\ g <= to
      BY <1>4, <1>7, <1>8, <2>1, <2>2, <2>3, BesideItsStrip
    <2> QED
      BY <2>1, <2>4 DEF from, to, strip
  <1>11. PICK r \in 1 .. n : ends[r].from <= g /\ g <= ends[r].to
    BY <1>8 DEF Gathered, n
  <1>12. ASSUME NEW s \in 1 .. n, Beside(w, strips[s]) PROVE s = r
    <2>1. ends[s].from <= g /\ g <= ends[s].to
      BY <1>10, <1>12
    <2> DEFINE a == ends[r].from
               b == ends[r].to
               c == ends[s].from
               d == ends[s].to
    <2>2. /\ a \in Int /\ b \in Int /\ c \in Int /\ d \in Int /\ g \in Int
          /\ a <= g /\ g <= b /\ c <= g /\ g <= d
          /\ r < s => b < c
          /\ s < r => d < a
      BY <1>10, <1>11, <2>1 DEF Gathered, n
    <2> HIDE DEF a, b, c, d
    <2>3. ~(r < s) /\ ~(s < r)
      BY <2>2
    <2> QED
      BY <1>2, <2>3
  <1>13. PICK k \in 1 .. Len(seqs[r]) :
           \A l \in 1 .. Len(seqs[r]) : In(w, seqs[r][l]) <=> l = k
    <2> DEFINE strip == strips[r]
    <2>1. Beside(w, strip)
      BY <1>10, <1>11
    <2>2. g \in ends[r].from .. ends[r].to
      BY <1>10, <1>11
    <2>3. strip.gutter # NoGutter => /\ strip.gutter.from < strip.gutter.to
                                     /\ w.x1 <= strip.gutter.from \/ strip.gutter.to <= w.x0
      BY <1>8, <1>10, <2>2 DEF ClearOf
    <2>4. strip \in Strips
      BY <1>2
    <2> HIDE DEF strip
    <2>5. \E k \in 1 .. Len(BoxesOf(strip, edges)) :
            \A l \in 1 .. Len(BoxesOf(strip, edges)) :
               In(w, BoxesOf(strip, edges)[l]) <=> l = k
      BY <1>3, <1>4, <2>1, <2>3, <2>4, InOneBox
    <2> DEFINE boxes == BoxesOf(strip, edges)
    <2>6. seqs[r] = boxes
      BY <1>5 DEF strip
    <2> HIDE DEF boxes
    <2>7. \E k \in 1 .. Len(boxes) : \A l \in 1 .. Len(boxes) : In(w, boxes[l]) <=> l = k
      BY <2>5 DEF boxes
    <2> QED
      BY <2>6, <2>7, Zenon
  <1>14. ASSUME NEW s \in 1 .. n, s # r, NEW l \in 1 .. Len(seqs[s]) PROVE ~In(w, seqs[s][l])
    BY <1>5, <1>12, <1>14, InNoBox
  <1>15. PICK start : Placed(seqs, regions, start)
    BY <1>1, <1>6, FlatPlaces
  <1>18. /\ start \in [1 .. n -> Nat]
         /\ \A i \in 1 .. n : \A l \in 1 .. Len(seqs[i]) :
              start[i] + l \in 1 .. Len(regions) /\ regions[start[i] + l] = seqs[i][l]
         /\ \A c \in 1 .. Len(regions) :
              \E i \in 1 .. n : \E l \in 1 .. Len(seqs[i]) : c = start[i] + l
    BY <1>6, <1>15 DEF Placed
  <1> DEFINE b == start[r] + k
  <1>16. b \in 1 .. Len(regions) /\ regions[b] = seqs[r][k]
    BY <1>13, <1>18
  <1> HIDE DEF b
  <1>17. ASSUME NEW c \in 1 .. Len(regions) PROVE In(w, regions[c]) <=> c = b
    <2>1. PICK i \in 1 .. n : \E l \in 1 .. Len(seqs[i]) : c = start[i] + l
      BY <1>18
    <2>2. PICK l \in 1 .. Len(seqs[i]) : c = start[i] + l
      BY <2>1
    <2>3. regions[c] = seqs[i][l]
      BY <1>18, <2>2
    <2>4. In(w, regions[b])
      BY <1>13, <1>16
    <2>5. ASSUME In(w, regions[c]) PROVE c = b
      <3>1. i = r
        BY <1>14, <2>3, <2>5
      <3>2. l = k
        BY <1>13, <2>3, <2>5, <3>1
      <3> QED
        BY <2>2, <3>1, <3>2 DEF b
    <2> QED
      BY <2>4, <2>5
  <1> QED
    BY <1>16, <1>17 DEF regions, edges

\* Clamping takes no word of the page out of a box, and lets none in.
LEMMA ClampedHoldsTheSame ==
    ASSUME NEW edges, Edges(edges), NEW w, Inside(w, edges), NEW box \in Boxes, NEW clamped,
           clamped = Box(Max({box.left, edges.left}), Max({box.top, edges.top}),
                         Min({box.right, edges.right}), Min({box.bottom, edges.bottom}))
    PROVE  clamped \in Boxes /\ (In(w, clamped) <=> In(w, box))
  <1> DEFINE l == box.left
             t == box.top
             r == box.right
             b == box.bottom
             el == edges.left
             et == edges.top
             er == edges.right
             eb == edges.bottom
             x0 == w.x0
             x1 == w.x1
             y0 == w.top
             y1 == w.bottom
             ml == Max({l, el})
             mt == Max({t, et})
             mr == Min({r, er})
             mb == Min({b, eb})
  <1>1. /\ l \in Int /\ t \in Int /\ r \in Int /\ b \in Int
        /\ el \in Int /\ et \in Int /\ er \in Int /\ eb \in Int
        /\ x0 \in Int /\ x1 \in Int /\ y0 \in Int /\ y1 \in Int
        /\ el <= x0 /\ x0 < x1 /\ x1 <= er /\ et <= y0 /\ y0 < y1 /\ y1 <= eb
    BY DEF Boxes, Edges, Inside, Words
  <1>2. clamped = Box(ml, mt, mr, mb)
    OBVIOUS
  <1>3. In(w, box) <=> x0 < r /\ l < x1 /\ y0 < b /\ t < y1
    BY DEF In
  <1>4. In(w, clamped) <=> x0 < mr /\ ml < x1 /\ y0 < mb /\ mt < y1
    BY <1>2 DEF In, Box
  <1> HIDE DEF l, t, r, b, el, et, er, eb, x0, x1, y0, y1
  <1>5. ml \in {l, el} /\ l <= ml /\ el <= ml
    BY <1>1, OfTwo
  <1>6. mt \in {t, et} /\ t <= mt /\ et <= mt
    BY <1>1, OfTwo
  <1>7. mr \in {r, er} /\ mr <= r /\ mr <= er
    BY <1>1, OfTwo
  <1>8. mb \in {b, eb} /\ mb <= b /\ mb <= eb
    BY <1>1, OfTwo
  <1> HIDE DEF ml, mt, mr, mb
  <1>9. ml \in Int /\ mt \in Int /\ mr \in Int /\ mb \in Int
    BY <1>1, <1>5, <1>6, <1>7, <1>8
  <1>10. clamped \in Boxes
    BY <1>2, <1>9 DEF Boxes, Box
  <1>11. (x0 < mr <=> x0 < r) /\ (ml < x1 <=> l < x1)
    BY <1>1, <1>5, <1>7, <1>9
  <1>12. (y0 < mb <=> y0 < b) /\ (mt < y1 <=> t < y1)
    BY <1>1, <1>6, <1>8, <1>9
  <1> QED
    BY <1>3, <1>4, <1>10, <1>11, <1>12

-----------------------------------------------------------------------------
(* Each word of a page is read, and read once. *)

\* One box, clamped to the page.
Within(box, edges) ==
    Box(Max({box.left, edges.left}), Max({box.top, edges.top}),
        Min({box.right, edges.right}), Min({box.bottom, edges.bottom}))

\* It is a box again.
LEMMA WithinIsABox ==
    ASSUME NEW edges, Edges(edges), NEW box \in Boxes
    PROVE  Within(box, edges) \in Boxes
  <1>1. /\ box.left \in Int /\ box.top \in Int /\ box.right \in Int /\ box.bottom \in Int
        /\ edges.left \in Int /\ edges.top \in Int /\ edges.right \in Int /\ edges.bottom \in Int
    BY DEF Boxes, Edges
  <1>2. /\ Max({box.left, edges.left}) \in Int /\ Max({box.top, edges.top}) \in Int
        /\ Min({box.right, edges.right}) \in Int /\ Min({box.bottom, edges.bottom}) \in Int
    <2>1. /\ Max({box.left, edges.left}) \in {box.left, edges.left}
          /\ Max({box.top, edges.top}) \in {box.top, edges.top}
      BY <1>1, OfTwo
    <2>2. /\ Min({box.right, edges.right}) \in {box.right, edges.right}
          /\ Min({box.bottom, edges.bottom}) \in {box.bottom, edges.bottom}
      BY <1>1, OfTwo
    <2> QED
      BY <1>1, <2>1, <2>2
  <1> QED
    BY <1>2 DEF Within, Box, Boxes

\* Clamped gives each box up to the page, or gives none.
LEMMA ClampedIsBoxes ==
    ASSUME NEW edges, Edges(edges), NEW boxes \in Seq(Boxes)
    PROVE  LET result == Clamped(boxes, edges) IN
           /\ result \in Seq(Boxes)
           /\ result # <<>> => /\ Len(result) = Len(boxes)
                               /\ \A i \in 1 .. Len(boxes) : result[i] = Within(boxes[i], edges)
  <1> DEFINE n == Len(boxes)
             clamped == [i \in 1 .. n |-> Within(boxes[i], edges)]
             result == Clamped(boxes, edges)
  <1>1. result = <<>> \/ result = clamped
    BY DEF Clamped, Within
  <1>2. n \in Nat /\ \A i \in 1 .. n : boxes[i] \in Boxes
    OBVIOUS
  <1>3. /\ clamped \in [1 .. n -> Boxes]
        /\ \A i \in 1 .. n : clamped[i] = Within(boxes[i], edges)
    BY <1>2, WithinIsABox
  <1> HIDE DEF clamped, n, result
  <1>4. clamped \in Seq(Boxes) /\ Len(clamped) = n
    BY <1>2, <1>3, FunctionIsSequence
  <1>5. /\ result \in Seq(Boxes)
        /\ result # <<>> => Len(result) = n /\ \A i \in 1 .. n : result[i] = Within(boxes[i], edges)
    <2>1. CASE result = <<>>
      <3>1. <<>> \in Seq(Boxes)
        OBVIOUS
      <3> QED
        BY <2>1, <3>1, Zenon
    <2>2. CASE result = clamped
      BY <1>3, <1>4, <2>2, Zenon
    <2> QED
      BY <1>1, <2>1, <2>2
  <1> QED
    BY <1>5 DEF result, n

\* The strips of a page are boxes, put together.
LEMMA RegionsAreBoxes ==
    ASSUME NEW edges, Edges(edges), NEW strips \in Seq(Strips)
    PROVE  Regions(strips, edges) \in Seq(Boxes)
  <1> DEFINE n == Len(strips)
             S == Seq(Boxes)
             seqs == [i \in 1 .. n |-> BoxesOf(strips[i], edges)]
  <1>1. n \in Nat /\ seqs \in [1 .. n -> S]
    BY StripIsBoxes
  <1>2. Regions(strips, edges) = FlattenSeq(seqs)
    BY DEF Regions
  <1> HIDE DEF seqs, n, S
  <1>3. seqs \in Seq(S)
    BY <1>1, FunctionIsSequence
  <1>4. FlattenSeq(seqs) \in Seq(Boxes)
    BY <1>3, FlatPlaces DEF S
  <1> QED
    BY <1>2, <1>4

\* A page is cut along its groups, or left alone.
LEMMA PageIsCut ==
    ASSUME NEW page, IsPage(page)
    PROVE  LET groups == Groups(page.words)
               bands  == BandsOf(groups, page)
               strips == Merged(bands)
           IN  /\ InGroups(page.words, groups)
               /\ \E ends : Gathered(groups, bands, strips, ends)
               /\ strips \in Seq(Strips)
               /\ \/ ReadingOrder(page) = <<>>
                  \/ ReadingOrder(page) = Clamped(Regions(strips, page.edges), page.edges)
  <1> DEFINE groups == Groups(page.words)
             bands == BandsOf(groups, page)
             strips == Merged(bands)
  <1>1. page.words \in SUBSET Words /\ IsFiniteSet(page.words)
    BY DEF IsPage
  <1>2. InGroups(page.words, groups)
    BY <1>1, GroupsHoldTheWords
  <1>3. \/ ReadingOrder(page) = <<>>
        \/ ReadingOrder(page) = Clamped(Regions(strips, page.edges), page.edges)
    BY DEF ReadingOrder, Bands
  <1> HIDE DEF groups
  <1>4. Banded(groups, bands)
    BY <1>2, BandsAreBanded
  <1> HIDE DEF bands
  <1>5. \E ends : Gathered(groups, bands, strips, ends)
    BY <1>1, <1>2, <1>4, MergedIsGathered
  <1> HIDE DEF strips
  <1>6. strips \in Seq(Strips)
    BY <1>5 DEF Gathered
  <1> QED
    BY <1>2, <1>3, <1>5, <1>6 DEF groups, bands, strips

\* What is read of a page are boxes.
LEMMA ReadingOrderIsBoxes ==
    ASSUME NEW page, IsPage(page)
    PROVE  ReadingOrder(page) \in Seq(Boxes)
  <1> DEFINE strips == Merged(BandsOf(Groups(page.words), page))
             regions == Regions(strips, page.edges)
  <1>1. strips \in Seq(Strips)
    BY PageIsCut
  <1>2. ReadingOrder(page) = <<>> \/ ReadingOrder(page) = Clamped(regions, page.edges)
    BY PageIsCut
  <1>3. Edges(page.edges)
    BY DEF IsPage, Edges
  <1> HIDE DEF strips
  <1>4. regions \in Seq(Boxes)
    BY <1>1, <1>3, RegionsAreBoxes
  <1> HIDE DEF regions
  <1>5. Clamped(regions, page.edges) \in Seq(Boxes)
    BY <1>3, <1>4, ClampedIsBoxes
  <1>6. <<>> \in Seq(Boxes)
    OBVIOUS
  <1> QED
    BY <1>2, <1>5, <1>6, Zenon

\* Each word of a page whose rows are apart is in one box of the reading
\* order, and in one only.
LEMMA PageIsReadOnce ==
    ASSUME NEW page, IsPage(page), RowsApart(page), OnPage(page)
    PROVE  ReadOnce(page, ReadingOrder(page))
  <1> DEFINE boxes == ReadingOrder(page)
             groups == Groups(page.words)
             bands == BandsOf(groups, page)
             strips == Merged(bands)
             edges == page.edges
             regions == Regions(strips, edges)
  <1> SUFFICES ASSUME boxes # <<>>, NEW w \in page.words
               PROVE  Cardinality({b \in 1 .. Len(boxes) : w \in Crop(page, boxes[b])}) = 1
    BY DEF ReadOnce
  <1>1. InGroups(page.words, groups) /\ OneAboveTheOther(groups)
    BY PageIsCut, GroupsAreApart
  <1>2. PICK ends : Gathered(groups, bands, strips, ends)
    BY PageIsCut
  <1>3. strips \in Seq(Strips) /\ boxes = Clamped(regions, edges)
    BY PageIsCut
  <1>4. Edges(edges) /\ Inside(w, edges)
    BY DEF IsPage, Edges, OnPage, Inside
  <1>5. regions \in Seq(Boxes)
    BY <1>3, <1>4, RegionsAreBoxes
  <1>6. \E b \in 1 .. Len(regions) : \A c \in 1 .. Len(regions) : In(w, regions[c]) <=> c = b
    BY <1>1, <1>2, InOneRegion
  <1>7. /\ Len(boxes) = Len(regions)
        /\ \A i \in 1 .. Len(regions) : boxes[i] = Within(regions[i], edges)
    BY <1>3, <1>4, <1>5, ClampedIsBoxes
  <1> HIDE DEF boxes, groups, bands, strips, regions, edges
  <1>8. \A i \in 1 .. Len(regions) : In(w, boxes[i]) <=> In(w, regions[i])
    <2> SUFFICES ASSUME NEW i \in 1 .. Len(regions) PROVE In(w, boxes[i]) <=> In(w, regions[i])
      OBVIOUS
    <2>1. regions[i] \in Boxes
      BY <1>5
    <2>2. boxes[i] = Within(regions[i], edges)
      BY <1>7
    <2> QED
      BY <1>4, <2>1, <2>2, ClampedHoldsTheSame DEF Within
  <1>9. PICK b \in 1 .. Len(boxes) : \A c \in 1 .. Len(boxes) : In(w, boxes[c]) <=> c = b
    BY <1>6, <1>7, <1>8
  <1>10. \A c \in 1 .. Len(boxes) : w \in Crop(page, boxes[c]) <=> In(w, boxes[c])
    BY DEF Crop, In
  <1>11. {c \in 1 .. Len(boxes) : w \in Crop(page, boxes[c])} = {b}
    BY <1>9, <1>10
  <1> QED
    BY <1>11, FS_Singleton DEF boxes

\* What the map of some of the words is made of, that of all of them is too.
LEMMA EntriesGrow ==
    ASSUME NEW words, NEW some \in SUBSET words
    PROVE  Seq(Entries(some)) \subseteq Seq(Entries(words))
  <1>1. ASSUME NEW e \in Entries(some) PROVE e \in Entries(words)
    <2>1. e \in [char : Characters, ink : Ink(some)]
      BY DEF Entries
    <2>2. e.ink \in Ink(words) /\ e \in [char : Characters, ink : Ink(words)]
      BY <2>1 DEF Ink
    <2>3. ASSUME Shows(e.ink, some, e.char) PROVE Shows(e.ink, words, e.char)
      BY <2>2, <2>3 DEF Shows
    <2>4. e.ink # NoInk => Shows(e.ink, some, e.char)
      BY DEF Entries
    <2> QED
      BY <2>2, <2>3, <2>4 DEF Entries
  <1> DEFINE few == Entries(some)
             all == Entries(words)
  <1>2. few \in SUBSET all
    BY <1>1
  <1> HIDE DEF few, all
  <1>3. Seq(few) \subseteq Seq(all)
    BY <1>2
  <1> QED
    BY <1>3 DEF few, all

\* The words of a box are words of its page.
LEMMA CropIsMap ==
    ASSUME NEW page, IsPage(page), NEW box
    PROVE  TextMap(Crop(page, box)) \in Seq(Entries(page.words))
  <1> DEFINE some == Crop(page, box)
  <1>1. some \in SUBSET page.words
    BY DEF Crop
  <1>2. page.words \in SUBSET Words /\ IsFiniteSet(page.words)
    BY DEF IsPage
  <1> HIDE DEF some
  <1>3. some \in SUBSET Words /\ IsFiniteSet(some)
    BY <1>1, <1>2, FS_Subset
  <1>4. TextMap(some) \in Seq(Entries(some))
    BY <1>3, TextMapIsMap
  <1> QED
    BY <1>1, <1>4, EntriesGrow DEF some

\* A map within another one: its text within the other one's.
LEMMA MapsLieAsTexts ==
    ASSUME NEW words, NEW map \in Seq(Entries(words)), NEW whole \in Seq(Entries(words)),
           NEW offset \in Nat, Lies(map, whole, offset)
    PROVE  Lies(CharsOf(map), CharsOf(whole), offset)
  <1>1. /\ Len(CharsOf(map)) = Len(map) /\ Len(CharsOf(whole)) = Len(whole)
    BY CharsAreText
  <1>2. /\ \A k \in 1 .. Len(map) : CharsOf(map)[k] = map[k].char
        /\ \A k \in 1 .. Len(whole) : CharsOf(whole)[k] = whole[k].char
    BY DEF CharsOf
  <1>3. \A k \in 1 .. Len(map) :
          offset + k \in 1 .. Len(whole) /\ whole[offset + k] = map[k]
    BY DEF Lies
  <1> SUFFICES ASSUME NEW k \in 1 .. Len(CharsOf(map))
               PROVE  /\ offset + k \in 1 .. Len(CharsOf(whole))
                      /\ CharsOf(whole)[offset + k] = CharsOf(map)[k]
    BY DEF Lies
  <1> QED
    BY <1>1, <1>2, <1>3

\* Sequences that are joined lie in what they are joined to.
LEMMA JoinedLie ==
    ASSUME NEW S, NEW texts \in Seq(Seq(S)), NEW separator \in Seq(S),
           NEW i \in 1 .. Len(texts)
    PROVE  /\ SpansOf(texts, Len(separator))[i].start \in Nat
           /\ Lies(texts[i], Joined(texts, separator), SpansOf(texts, Len(separator))[i].start)
  <1> DEFINE gap == Len(separator)
             text == Joined(texts, separator)
             spans == SpansOf(texts, gap)
             x == texts[i]
  <1>1. texts # <<>>
    OBVIOUS
  <1>2. text \in Seq(S) /\ Spanned(texts, spans, gap) /\ Laid(texts, text, spans, separator)
    BY <1>1, JoinedJoins, JoinedIsLaid
  <1>3. x \in Seq(S) /\ Len(x) \in Nat /\ Len(text) \in Nat
    BY <1>2
  <1> HIDE DEF spans, text
  <1>4. /\ spans[i].start \in Nat /\ spans[i].end \in Nat
        /\ spans[i].end = spans[i].start + Len(x) /\ spans[i].end <= Len(text)
        /\ \A k \in 1 .. Len(x) : text[spans[i].start + k] = x[k]
    BY <1>2 DEF Spanned, Laid
  <1> DEFINE s == spans[i].start
             m == Len(x)
  <1>5. s \in Nat /\ s + m <= Len(text) /\ \A k \in 1 .. m : text[s + k] = x[k]
    BY <1>4
  <1> HIDE DEF s, m, x
  <1>6. \A k \in 1 .. m : s + k \in 1 .. Len(text)
    BY <1>3, <1>5 DEF m
  <1> QED
    BY <1>5, <1>6 DEF Lies, m, x, s, spans, text

\* The text of the regions of a page, and the boxes under it.
LEMMA InOrderIsOver ==
    ASSUME NEW page, IsPage(page), NEW boxes \in Seq(Boxes)
    PROVE  LET result == InOrder(page, boxes) IN
           /\ result.map \in Seq(Entries(page.words))
           /\ result.runs \in Seq(RunsOver(page.words, CharsOf(result.map)))
  <1> DEFINE words == page.words
             E == Entries(words)
             maps == [b \in 1 .. Len(boxes) |-> TextMap(Crop(page, boxes[b]))]
             at == {b \in 1 .. Len(boxes) : Trimmed(CharsOf(maps[b])) # <<>>}
             kept == Picked(maps, at)
             separator == Separator(Newline)
             spans == SpansOf(kept, 1)
             map == Joined(kept, separator)
             text == CharsOf(map)
             R == RunsOver(words, text)
             n == Len(kept)
             moved(i) == Shift(RunsFor(kept[i]), spans[i].start)
             parts == [i \in 1 .. n |-> moved(i)]
             result == InOrder(page, boxes)
  <1>1. result.map = map /\ result.runs = FlattenSeq(parts)
    BY DEF InOrder
  <1>2. separator \in Seq(E) /\ Len(separator) = 1
    <2>1. words \in SUBSET Words
      BY DEF IsPage
    <2>2. Newline \in Characters
      BY EvidenceAssumption
    <2>3. separator \in Seq(E)
      BY <2>1, <2>2, GlyphsAreEntries
    <2>4. Len(separator) = 1
      BY DEF Separator
    <2> QED
      BY <2>3, <2>4
  <1>3. maps \in Seq(Seq(E)) /\ Len(maps) = Len(boxes)
    <2> DEFINE S == Seq(E)
    <2>1. maps \in [1 .. Len(boxes) -> S] /\ Len(boxes) \in Nat
      BY CropIsMap
    <2> HIDE DEF S, maps
    <2>2. maps \in Seq(S) /\ Len(maps) = Len(boxes)
      BY <2>1, FunctionIsSequence
    <2> QED
      BY <2>2 DEF S
  <1>4. at \in SUBSET (1 .. Len(maps))
    BY <1>3
  <1> HIDE DEF E, maps, at, separator
  <1>5. kept \in Seq(Seq(E)) /\ n \in Nat
    <2> DEFINE S == Seq(E)
    <2> HIDE DEF S
    <2>1. maps \in Seq(S)
      BY <1>3 DEF S
    <2>2. kept \in Seq(S)
      BY <1>4, <2>1, PickedIsSequence
    <2> QED
      BY <2>2 DEF S
  <1> HIDE DEF kept
  <1>6. map \in Seq(E)
    BY <1>2, <1>5, JoinedIsSequence
  <1>7. \A i \in 1 .. n : spans[i].start \in Nat /\ Lies(kept[i], map, spans[i].start)
    BY <1>2, <1>5, JoinedLie
  <1> HIDE DEF map, spans
  <1>8. ASSUME NEW i \in 1 .. n PROVE moved(i) \in Seq(R)
    <2> DEFINE part == kept[i]
               start == spans[i].start
    <2>1. part \in Seq(E) /\ start \in Nat /\ Lies(part, map, start)
      BY <1>5, <1>7
    <2> HIDE DEF part, start
    <2>2. RunsFor(part) \in Seq(RunsOver(words, CharsOf(part)))
      BY <2>1, RunsForIsOver DEF E
    <2>3. Lies(CharsOf(part), text, start)
      BY <1>6, <2>1, MapsLieAsTexts DEF E
    <2> HIDE DEF text
    <2>4. Shift(RunsFor(part), start) \in Seq(RunsOver(words, text))
      BY <2>1, <2>2, <2>3, ShiftStaysOver
    <2> QED
      BY <2>4 DEF part, start
  <1>9. parts \in Seq(Seq(R))
    <2> DEFINE S == Seq(R)
    <2> HIDE DEF R
    <2>1. parts \in [1 .. n -> S]
      BY <1>8
    <2> HIDE DEF S, parts, n
    <2>2. parts \in Seq(S)
      BY <1>5, <2>1, FunctionIsSequence
    <2> QED
      BY <2>2 DEF S
  <1> HIDE DEF parts, R
  <1>10. <<>> \in Seq(R)
    OBVIOUS
  <1>11. FlattenSeq(parts) \in Seq(R)
    BY <1>9, <1>10, JoinedIsSequence
  <1> QED
    BY <1>1, <1>6, <1>11 DEF E, R, text

\* The text of a page is a text, and boxes that are kept lie under it.
LEMMA TextOfIsOver ==
    ASSUME NEW page, IsPage(page)
    PROVE  LET told == TextOf(page) IN
           /\ told.text \in Texts
           /\ told.geometry.known =>
                told.geometry.runs \in Seq(RunsOver(page.words, told.text))
  <1> DEFINE words == page.words
             boxes == ReadingOrder(page)
             all == TextMap(words)
             map == IF boxes = <<>> THEN all ELSE InOrder(page, boxes).map
             over == IF boxes = <<>> THEN RunsFor(all) ELSE InOrder(page, boxes).runs
             told == TextOf(page)
  <1>1. /\ told.text = CharsOf(map)
        /\ told.geometry = IF page.exact THEN [known |-> TRUE, runs |-> over] ELSE NoGeometry
    BY DEF TextOf
  <1>2. boxes \in Seq(Boxes)
    BY ReadingOrderIsBoxes
  <1>3. all \in Seq(Entries(words))
    BY TextMapIsMap DEF IsPage
  <1> HIDE DEF all, boxes
  <1>4. RunsFor(all) \in Seq(RunsOver(words, CharsOf(all)))
    BY <1>3, RunsForIsOver
  <1>5. /\ InOrder(page, boxes).map \in Seq(Entries(words))
        /\ InOrder(page, boxes).runs \in Seq(RunsOver(words, CharsOf(InOrder(page, boxes).map)))
    BY <1>2, InOrderIsOver
  <1>6. map \in Seq(Entries(words)) /\ over \in Seq(RunsOver(words, CharsOf(map)))
    <2>1. CASE boxes = <<>>
      BY <1>3, <1>4, <2>1, Zenon
    <2>2. CASE boxes # <<>>
      BY <1>5, <2>2, Zenon
    <2> QED
      BY <2>1, <2>2
  <1> HIDE DEF map, over, told
  <1>7. CharsOf(map) \in Texts
    BY <1>6, CharsAreText
  <1>8. told.geometry.known => told.geometry.runs = over
    BY <1>1 DEF NoGeometry
  <1>9. told.geometry.known => told.geometry.runs \in Seq(RunsOver(words, told.text))
    BY <1>1, <1>6, <1>8, Zenon
  <1> QED
    BY <1>1, <1>7, <1>9 DEF told

-----------------------------------------------------------------------------
(* The pages in the text of a document. *)

PagesLie(texts, text, spans, n) ==
    /\ n \in Nat /\ n # 0 /\ text \in Texts /\ Len(text) = spans[n].end /\ Len(spans) = n
    /\ \A i \in 1 .. n :
         /\ spans[i].start \in Nat /\ spans[i].end \in Nat
         /\ spans[i].start <= spans[i].end /\ spans[i].end <= Len(text)
         /\ Slice(text, spans[i].start, spans[i].end) = texts[i]
         /\ Lies(texts[i], text, spans[i].start)
         /\ i # n => /\ spans[i + 1].start = spans[i].end + 2
                     /\ text[spans[i].end + 1] = Newline
                     /\ text[spans[i].end + 2] = Newline
    /\ spans[1].start = 0

\* The offsets kept with a document are those of its pages in its text, and
\* between two pages there is white space.
THEOREM PagesLieInTheText ==
    ASSUME NEW texts \in Seq(Texts), texts # <<>>
    PROVE  PagesLie(texts, JoinedPages(texts), Spans(texts), Len(texts))
  <1> DEFINE text == JoinedPages(texts)
             spans == Spans(texts)
             n == Len(texts)
             gap == Len(PageSeparator)
  <1>1. n \in Nat /\ n # 0
    OBVIOUS
  <1>2. /\ PageSeparator \in Seq(Characters) /\ gap = 2
        /\ PageSeparator[1] = Newline /\ PageSeparator[2] = Newline
    BY EvidenceAssumption DEF PageSeparator
  <1>3. text = Joined(texts, PageSeparator) /\ spans = SpansOf(texts, gap)
    BY DEF JoinedPages, Spans
  <1>4. texts \in Seq(Seq(Characters))
    BY DEF Texts
  <1> HIDE DEF text, spans, n, gap
  <1>5. /\ text \in Seq(Characters) /\ Spanned(texts, spans, gap)
        /\ Laid(texts, text, spans, PageSeparator)
    BY <1>2, <1>3, <1>4, JoinedJoins, JoinedIsLaid DEF gap
  <1>6. text \in Texts /\ Len(text) \in Nat
    BY <1>5 DEF Texts
  <1>7. Len(text) = spans[n].end /\ Len(spans) = n
    BY <1>5 DEF Laid, Spanned, n
  <1>8. ASSUME NEW i \in 1 .. n
        PROVE  /\ spans[i].start \in Nat /\ spans[i].end \in Nat
               /\ spans[i].start <= spans[i].end /\ spans[i].end <= Len(text)
               /\ Slice(text, spans[i].start, spans[i].end) = texts[i]
               /\ Lies(texts[i], text, spans[i].start)
    <2> DEFINE b == spans[i].start
               e == spans[i].end
               x == texts[i]
               m == Len(x)
    <2>1. x \in Texts /\ m \in Nat
      BY <1>4 DEF n, Texts
    <2>2. /\ b \in Nat /\ e \in Nat /\ e = b + m /\ e <= Len(text)
          /\ \A k \in 1 .. m : text[b + k] = x[k]
      BY <1>5 DEF Spanned, Laid, n
    <2>3. Lies(x, text, b)
      BY <1>2, <1>3, <1>4, JoinedLie DEF n, gap
    <2> HIDE DEF b, e, m, x
    <2>4. b <= e /\ e \in 0 .. Len(text) /\ e - b = m
      BY <1>6, <2>1, <2>2
    <2>5. /\ SubSeq(text, b + 1, e) \in Texts /\ Len(SubSeq(text, b + 1, e)) = m
          /\ \A k \in 1 .. m : SubSeq(text, b + 1, e)[k] = text[b + k]
      BY <1>6, <2>2, <2>4, SubSeqFacts
    <2>6. SubSeq(text, b + 1, e) = x
      BY <2>1, <2>2, <2>5, SeqEqual DEF Texts, m
    <2> QED
      BY <2>2, <2>3, <2>4, <2>6 DEF b, e, x, Slice
  <1>9. ASSUME NEW i \in 1 .. n, i # n
        PROVE  /\ spans[i + 1].start = spans[i].end + 2
               /\ text[spans[i].end + 1] = Newline
               /\ text[spans[i].end + 2] = Newline
    <2>1. i + 1 \in 1 .. n /\ i + 1 # 1 /\ (i + 1) - 1 = i
      BY <1>1, <1>9
    <2>2. spans[i + 1].start = spans[i].end + gap
      BY <1>5, <2>1 DEF Spanned, n
    <2>3. \A k \in 1 .. Len(PageSeparator) : text[spans[i].end + k] = PageSeparator[k]
      BY <1>5, <1>9 DEF Laid, n
    <2> QED
      BY <1>2, <2>2, <2>3 DEF gap
  <1>10. spans[1].start = 0
    <2>1. 1 \in 1 .. n
      BY <1>1
    <2> QED
      BY <1>5, <2>1 DEF Spanned, n
  <1>11. PagesLie(texts, text, spans, n)
    BY <1>1, <1>6, <1>7, <1>8, <1>9, <1>10 DEF PagesLie
  <1> QED
    BY <1>11 DEF text, spans, n

\* A solid character of the text is on the page that is named for it.
LEMMA SolidOffsetHasItsPage ==
    ASSUME NEW texts \in Seq(Texts), texts # <<>>,
           NEW offset \in Nat, offset < Len(JoinedPages(texts)),
           ~IsSpace(JoinedPages(texts)[offset + 1])
    PROVE  LET page == PageFor(Spans(texts), offset) IN
           /\ page \in 1 .. Len(Spans(texts))
           /\ Spans(texts)[page].start <= offset /\ offset < Spans(texts)[page].end
  <1> DEFINE n == Len(texts)
             text == JoinedPages(texts)
             spans == Spans(texts)
             page == PageFor(spans, offset)
             before == {i \in 1 .. Len(spans) : spans[i].start <= offset}
  <1>1. /\ n \in Nat /\ n # 0 /\ Len(text) = spans[n].end
        /\ \A i \in 1 .. n :
                /\ spans[i].start \in Nat /\ spans[i].end \in Nat
                /\ i # n => /\ spans[i + 1].start = spans[i].end + 2
                            /\ text[spans[i].end + 1] = Newline
                            /\ text[spans[i].end + 2] = Newline
        /\ spans[1].start = 0
    BY PagesLieInTheText DEF PagesLie
  <1>2. Len(spans) = n
    BY PagesLieInTheText DEF PagesLie
  <1>11. offset < Len(text) /\ ~IsSpace(text[offset + 1])
    OBVIOUS
  <1> HIDE DEF n, text, spans
  <1>3. 1 \in before /\ before \in SUBSET Nat /\ before \in SUBSET (1 .. n)
    BY <1>1, <1>2
  <1>4. \E i \in before : \A j \in before : j <= i
    <2> HIDE DEF before
    <2>1. before \in SUBSET Int /\ IsFiniteSet(before) /\ before # {}
      <3>1. n \in Nat /\ before \in SUBSET (1 .. n)
        BY <1>1, <1>3
      <3>2. IsFiniteSet(before)
        BY <3>1, IndicesAreFinite
      <3>3. before \in SUBSET Int
        BY <1>3
      <3> QED
        BY <1>3, <3>2, <3>3
    <2>2. Max(before) \in before /\ \A j \in before : j <= Max(before)
      BY <2>1, Extremes
    <2> QED
      BY <2>2
  <1>5. page = CHOOSE i \in before : \A j \in before : j <= i
    BY <1>3 DEF PageFor
  <1> HIDE DEF page
  <1>6. page \in before /\ \A j \in before : j <= page
    BY <1>4, <1>5
  <1>7. page \in 1 .. n /\ spans[page].start <= offset
    BY <1>2, <1>6
  <1>8. CASE page = n
    BY <1>1, <1>2, <1>7, <1>8, <1>11 DEF page, spans
  <1>9. CASE page # n
    <2>1. page + 1 \in 1 .. n /\ ~(page + 1 <= page)
      BY <1>1, <1>7, <1>9
    <2>2. page + 1 \notin before
      BY <1>6, <2>1
    <2>3. spans[page + 1].start \in Nat /\ ~(spans[page + 1].start <= offset)
      BY <1>1, <1>2, <2>1, <2>2
    <2>4. /\ spans[page].end \in Nat /\ offset < spans[page].end + 2
          /\ text[spans[page].end + 1] = Newline /\ text[spans[page].end + 2] = Newline
      <3>1. /\ spans[page].end \in Nat /\ spans[page + 1].start = spans[page].end + 2
            /\ text[spans[page].end + 1] = Newline /\ text[spans[page].end + 2] = Newline
        BY <1>1, <1>7, <1>9
      <3> QED
        BY <2>3, <3>1
    <2>5. offset # spans[page].end /\ offset # spans[page].end + 1
      <3>1. IsSpace(Newline)
        BY DEF IsSpace
      <3>2. offset = spans[page].end + 1 => offset + 1 = spans[page].end + 2
        BY <2>4
      <3> QED
        BY <1>11, <2>4, <3>1, <3>2
    <2>6. offset < spans[page].end
      BY <2>4, <2>5
    <2> QED
      BY <1>2, <1>7, <2>6 DEF page, spans
  <1> QED
    BY <1>8, <1>9

-----------------------------------------------------------------------------
(* What verification makes of an answer. *)

\* Everything on a list comes from these places of another one.
DrawnFrom(list, seq, at) ==
    /\ Len(list) \in Nat
    /\ \A k \in 1 .. Len(list) : \E i \in at : list[k] = seq[i]

\* What is picked comes from the places it is picked by.
LEMMA PickedMembers ==
    ASSUME NEW m \in Nat, NEW at \in SUBSET (1 .. m), NEW seq
    PROVE  DrawnFrom(Picked(seq, at), seq, at)
  <1> DEFINE n == Cardinality(at)
             f == Ordered(at)
             S == {seq[i] : i \in at}
             picked == Picked(seq, at)
  <1>1. n \in Nat /\ Lists(f, n, at) /\ at \in SUBSET Nat
    BY IndicesAreFinite
  <1> HIDE DEF n, f
  <1>2. picked = [k \in 1 .. n |-> seq[f[k]]]
    BY <1>1, PickedByList
  <1>3. \A k \in 1 .. n : f[k] \in at
    BY <1>1 DEF Lists
  <1>4. picked \in [1 .. n -> S] /\ \A k \in 1 .. n : \E i \in at : picked[k] = seq[i]
    BY <1>2, <1>3
  <1> HIDE DEF picked, S
  <1>5. Len(picked) = n
    BY <1>1, <1>4, FunctionIsSequence
  <1> QED
    BY <1>1, <1>4, <1>5 DEF picked, DrawnFrom

\* An answer carries the quote it answers.
LEMMA ResolveRemembersTheQuote ==
    ASSUME NEW document, NEW asked
    PROVE  Resolve(document, asked).asked = asked
  BY DEF Resolve, Searched, InTiers, Via, Span, Rejected

\* Every entry of a profile is what the resolver made of some quote in the
\* document: located with its page, or not.
Resolved(document, p) ==
    /\ \A k \in 1 .. Len(p.kept) : \E asked \in Texts :
         /\ p.kept[k].span = Resolve(document.text, asked)
         /\ p.kept[k].span.found
         /\ p.kept[k].page = PageFor(document.spans, p.kept[k].span.start)
    /\ \A k \in 1 .. Len(p.dropped) : \E asked \in Texts :
         /\ p.dropped[k] = Resolve(document.text, asked)
         /\ ~p.dropped[k].found

\* What _Verifier.verify makes of an answer.
LEMMA VerifiedIsResolved ==
    ASSUME NEW document, NEW quotes \in Seq(Texts)
    PROVE  /\ Resolved(document, Verified(document, quotes))
           /\ Verified(document, quotes).known = TRUE
  <1> DEFINE results == [k \in 1 .. Len(quotes) |-> Resolve(document.text, quotes[k])]
             located == {k \in DOMAIN results : results[k].found}
             missing == DOMAIN results \ located
             found == Picked(results, located)
             cited(span) == [span |-> span, page |-> PageFor(document.spans, span.start)]
             kept == [k \in 1 .. Len(found) |-> cited(found[k])]
             dropped == Picked(results, missing)
             v == Verified(document, quotes)
  <1>1. v = [known |-> TRUE, kept |-> kept, dropped |-> dropped]
    BY DEF Verified
  <1>2. /\ Len(quotes) \in Nat
        /\ located \in SUBSET (1 .. Len(quotes)) /\ missing \in SUBSET (1 .. Len(quotes))
        /\ \A k \in located : results[k].found
        /\ \A k \in missing : ~results[k].found
        /\ \A k \in 1 .. Len(quotes) : \E asked \in Texts :
              results[k] = Resolve(document.text, asked)
    OBVIOUS
  <1>3. v.kept = kept /\ v.dropped = dropped /\ v.known = TRUE
    BY <1>1
  <1> HIDE DEF results, located, missing, v
  <1>a. DrawnFrom(found, results, located) /\ DrawnFrom(dropped, results, missing)
    BY <1>2, PickedMembers
  <1>4. /\ Len(found) \in Nat
        /\ \A k \in 1 .. Len(found) : \E i \in located : found[k] = results[i]
    BY <1>a DEF DrawnFrom
  <1>5. \A k \in 1 .. Len(dropped) : \E i \in missing : dropped[k] = results[i]
    BY <1>a DEF DrawnFrom
  <1> HIDE DEF found, dropped
  <1>6. Len(kept) = Len(found)
    <2> DEFINE S == {cited(found[k]) : k \in 1 .. Len(found)}
    <2>1. kept \in [1 .. Len(found) -> S]
      OBVIOUS
    <2> HIDE DEF S, kept
    <2> QED
      BY <1>4, <2>1, FunctionIsSequence
  <1>7. ASSUME NEW k \in 1 .. Len(v.kept)
        PROVE  \E asked \in Texts :
                 /\ v.kept[k].span = Resolve(document.text, asked)
                 /\ v.kept[k].span.found
                 /\ v.kept[k].page = PageFor(document.spans, v.kept[k].span.start)
    <2>1. k \in 1 .. Len(found)
      BY <1>3, <1>6
    <2>2. v.kept[k].span = found[k] /\ v.kept[k].page = PageFor(document.spans, found[k].start)
      BY <1>3, <2>1
    <2>3. PICK i \in located : found[k] = results[i]
      BY <1>4, <2>1
    <2>4. results[i].found /\ i \in 1 .. Len(quotes)
      BY <1>2
    <2>5. PICK asked \in Texts : results[i] = Resolve(document.text, asked)
      BY <1>2, <2>4
    <2> QED
      BY <2>2, <2>3, <2>4, <2>5
  <1>8. ASSUME NEW k \in 1 .. Len(v.dropped)
        PROVE  \E asked \in Texts :
                 v.dropped[k] = Resolve(document.text, asked) /\ ~v.dropped[k].found
    <2>1. PICK i \in missing : v.dropped[k] = results[i]
      BY <1>3, <1>5
    <2>2. ~results[i].found /\ i \in 1 .. Len(quotes)
      BY <1>2
    <2>3. PICK asked \in Texts : results[i] = Resolve(document.text, asked)
      BY <1>2, <2>2
    <2> QED
      BY <2>1, <2>2, <2>3
  <1> QED
    BY <1>3, <1>7, <1>8 DEF Resolved, v

\* A row without a profile claims nothing.
LEMMA NothingIsResolved == \A document : Resolved(document, NoProfile)
  BY DEF Resolved, NoProfile

-----------------------------------------------------------------------------
(* The invariant. *)

Parsed == stage \in {"asking", "extracted"}

\* The profile and the columns it cites belong together: they are filled from
\* the pages of this run, and a profile is only ever held beside them.
DocInv ==
    /\ DocTypeOK
    /\ stage # "upload" => Len(raw) = Len(pages)
    /\ stage = "asking" => calls < MaxAsked
    /\ Parsed => stored.text = JoinedPages(PageTexts) /\ stored.spans = Spans(PageTexts)
    /\ ~Parsed => profile = NoProfile /\ calls = 0
    /\ Resolved(stored, profile)

\* The pages joined are a text.
LEMMA JoinedIsText ==
    ASSUME NEW texts \in Seq(Texts) PROVE JoinedPages(texts) \in Texts
  <1>1. CASE texts = <<>>
    BY <1>1 DEF JoinedPages, Joined, Texts
  <1>2. CASE texts # <<>>
    BY <1>2, PagesLieInTheText DEF PagesLie
  <1> QED
    BY <1>1, <1>2

\* The texts of the pages, by their numbers.
LEMMA PageTextsAreTexts ==
    ASSUME raw \in Seq(Texts)
    PROVE  /\ PageTexts \in Seq(Texts) /\ Len(PageTexts) = Len(raw) /\ Len(raw) \in Nat
           /\ \A i \in 1 .. Len(raw) : PageTexts[i] = PageText(raw[i])
  <1>1. Len(raw) \in Nat /\ \A i \in 1 .. Len(raw) : PageText(raw[i]) \in Texts
    BY PageTextIsText
  <1>2. PageTexts \in [1 .. Len(raw) -> Texts]
    BY <1>1 DEF PageTexts
  <1> QED
    BY <1>1, <1>2, FunctionIsSequence DEF PageTexts

\* A fresh upload.
LEMMA DocInitEstablishes == DocInit => DocInv
  <1> SUFFICES ASSUME DocInit PROVE DocInv
    OBVIOUS
  <1>1. Len(pages) \in Nat
    BY DocumentsAssumption DEF DocInit
  <1>2. DocTypeOK
    <2>1. raw \in Seq(Texts) /\ DOMAIN ink = 1 .. Len(raw) /\ stored.text \in Texts
      BY DEF DocInit, NoDocument, Texts
    <2>2. profile.known \in BOOLEAN
      BY DEF DocInit, NoProfile
    <2>3. turn \in 1 .. (Len(pages) + 1)
      BY <1>1 DEF DocInit
    <2>4. budget \in 0 .. OcrPages /\ calls \in 0 .. MaxAsked /\ runs \in 0 .. MaxRuns
      BY DocumentsAssumption DEF DocInit
    <2>5. /\ pages \in Uploads /\ ocr \in BOOLEAN /\ stage \in Stages
          /\ fromOcr \subseteq {i \in 1 .. Len(pages) : pages[i].image}
      BY DEF DocInit, Stages
    <2> QED
      BY <2>1, <2>2, <2>3, <2>4, <2>5 DEF DocTypeOK
  <1>3. Resolved(stored, profile)
    BY NothingIsResolved DEF DocInit
  <1> QED
    BY <1>2, <1>3 DEF DocInit, DocInv, Parsed

\* The leaves of the induction: the conjuncts a step of OCR can disturb.
LEMMA DocInvKept ==
    ASSUME DocInv, [DocNext]_docVars PROVE DocInv'
  <1>0. /\ Len(pages) \in Nat /\ pages \in Uploads
        /\ raw \in Seq(Texts) /\ Len(raw) \in Nat
    BY DocumentsAssumption DEF DocInv, DocTypeOK
  <1>1. CASE ReadPages
    <2> DEFINE read == [i \in 1 .. Len(pages) |-> TextOf(pages[i])]
    <2>1. /\ raw' = [i \in 1 .. Len(pages) |-> read[i].text]
          /\ ink' = [i \in 1 .. Len(pages) |-> read[i].geometry]
      BY <1>1 DEF ReadPages
    <2>2. \A i \in 1 .. Len(pages) : read[i].text \in Texts
      BY <1>0, DocumentsAssumption, TextOfIsOver
    <2>3. raw' \in [1 .. Len(pages) -> Texts]
      BY <2>1, <2>2
    <2>4. raw' \in Seq(Texts) /\ Len(raw') = Len(pages)
      BY <1>0, <2>3, FunctionIsSequence
    <2>5. DOMAIN ink' = 1 .. Len(raw')
      BY <2>1, <2>4
    <2> HIDE DEF read
    <2>6. /\ pages' = pages /\ stored' = stored /\ ocr' \in BOOLEAN /\ turn' = 1
          /\ budget' = OcrPages /\ fromOcr' = {} /\ calls' = 0 /\ profile' = NoProfile
          /\ stage' \in {"ocr", "assemble"} /\ runs < MaxRuns /\ runs' = runs + 1
      BY <1>1 DEF ReadPages
    <2>7. DocTypeOK'
      BY <1>0, <2>4, <2>5, <2>6, DocumentsAssumption
      DEF DocInv, DocTypeOK, Stages, NoProfile
    <2>8. Resolved(stored, profile)'
      BY <2>6, NothingIsResolved
    <2> QED
      BY <2>4, <2>6, <2>7, <2>8 DEF DocInv, Parsed
  <1>2. ASSUME PassOver \/ OcrFails PROVE DocInv'
    <2>1. /\ UNCHANGED <<pages, ocr, stage, stored, calls, profile, runs, raw, ink, fromOcr>>
          /\ turn' = turn + 1 /\ turn <= Len(pages) /\ stage = "ocr"
          /\ budget' \in {budget, budget - 1} /\ (budget' # budget => budget > 0)
      BY <1>2 DEF PassOver, OcrFails, NextPage
    <2>2. DocTypeOK'
      BY <1>0, <2>1, DocumentsAssumption DEF DocInv, DocTypeOK
    <2> QED
      BY <2>1, <2>2 DEF DocInv, Parsed, Resolved
  <1>3. CASE Recognise
    <2>1. /\ UNCHANGED <<pages, ocr, stage, stored, calls, profile, runs>>
          /\ turn' = turn + 1 /\ turn <= Len(pages) /\ stage = "ocr"
          /\ budget' = budget - 1 /\ budget > 0 /\ pages[turn].image
          /\ \E text \in Recognised : Accept(text)
      BY <1>3 DEF Recognise, NextPage, WorthOcr
    <2>2. turn \in 1 .. Len(pages) /\ Len(raw) = Len(pages)
      BY <1>0, <2>1 DEF DocInv, DocTypeOK
    <2>3. /\ raw' \in Seq(Texts) /\ Len(raw') = Len(raw) /\ DOMAIN ink' = DOMAIN ink
          /\ fromOcr' \subseteq fromOcr \cup {turn}
      <3>1. PICK text \in Recognised : Accept(text)
        BY <2>1
      <3>2. text \in Texts
        BY DocumentsAssumption
      <3>3. CASE NeedsOcr(text)
        BY <1>0, <3>1, <3>3 DEF Accept
      <3>4. CASE ~NeedsOcr(text)
        <4>1. /\ raw' = [raw EXCEPT ![turn] = text] /\ fromOcr' = fromOcr \cup {turn}
              /\ ink' = [ink EXCEPT ![turn] = NoGeometry]
          BY <3>1, <3>4 DEF Accept
        <4>2. turn \in 1 .. Len(raw)
          BY <2>2
        <4>3. raw' \in Seq(Texts) /\ Len(raw') = Len(raw)
          BY <1>0, <3>2, <4>1, <4>2, ExceptSeq
        <4> QED
          BY <4>1, <4>3
      <3> QED
        BY <3>3, <3>4
    <2>4. DocTypeOK'
      BY <1>0, <2>1, <2>2, <2>3, DocumentsAssumption DEF DocInv, DocTypeOK
    <2> QED
      BY <2>1, <2>3, <2>4 DEF DocInv, Parsed, Resolved
  <1>4. ASSUME OcrUnavailable \/ OcrDone \/ Reject \/ Corrupt PROVE DocInv'
    <2>1. /\ UNCHANGED <<pages, ocr, raw, ink, turn, budget, fromOcr, stored, calls, profile, runs>>
          /\ stage \in {"ocr", "assemble"} /\ stage' \in {"broken", "assemble", "failed"}
      BY <1>4 DEF OcrUnavailable, OcrDone, Reject, Corrupt, parseVars
    <2>2. DocTypeOK'
      BY <2>1 DEF DocInv, DocTypeOK, Stages
    <2> QED
      BY <2>1, <2>2 DEF DocInv, Parsed, Resolved
  <1>5. CASE Store
    <2>1. /\ UNCHANGED <<pages, ocr, raw, ink, turn, budget, fromOcr, calls, profile, runs>>
          /\ stage = "assemble" /\ stage' = "asking" /\ stored' = Assembled
      BY <1>5 DEF Store, parseVars
    <2>2. stored'.text = JoinedPages(PageTexts) /\ stored'.spans = Spans(PageTexts)
      BY <2>1 DEF Assembled, Document
    <2>3. stored'.text \in Texts
      BY <1>0, <2>2, PageTextsAreTexts, JoinedIsText
    <2>4. PageTexts' = PageTexts
      BY <2>1 DEF PageTexts
    <2>5. DocTypeOK'
      BY <2>1, <2>3 DEF DocInv, DocTypeOK, Stages
    <2>6. profile' = NoProfile /\ calls' = 0
      BY <2>1 DEF DocInv, Parsed
    <2>7. Resolved(stored, profile)'
      BY <2>6, NothingIsResolved
    <2> QED
      BY <2>1, <2>2, <2>4, <2>5, <2>6, <2>7, DocumentsAssumption DEF DocInv, Parsed
  <1>6. CASE Ask
    <2>1. /\ UNCHANGED <<pages, ocr, raw, ink, turn, budget, fromOcr, stored, runs>>
          /\ stage = "asking" /\ calls' = calls + 1
      BY <1>6 DEF Ask, parseVars
    <2>2. PICK quotes \in Answers :
            /\ profile' = Best(profile, Verified(stored, quotes))
            /\ stage' = IF Enough(Verified(stored, quotes), calls') THEN "extracted" ELSE "asking"
      BY <1>6 DEF Ask
    <2>3. quotes \in Seq(Texts)
      BY DocumentsAssumption
    <2>4. /\ Resolved(stored, Verified(stored, quotes))
          /\ Verified(stored, quotes).known \in BOOLEAN
      BY <2>3, VerifiedIsResolved
    <2>5. Resolved(stored, profile') /\ profile'.known \in BOOLEAN
      BY <2>2, <2>4 DEF DocInv, DocTypeOK, Best
    <2>6. Resolved(stored, profile)'
      BY <2>1, <2>5 DEF Resolved
    <2>7. /\ stage' \in {"asking", "extracted"} /\ calls < MaxAsked
          /\ stage' = "asking" => calls' # MaxAsked
      BY <2>1, <2>2 DEF DocInv, Enough
    <2>8. calls' \in 0 .. MaxAsked /\ (stage' = "asking" => calls' < MaxAsked)
      BY <2>1, <2>7, DocumentsAssumption DEF DocInv, DocTypeOK
    <2>9. DocTypeOK'
      BY <2>1, <2>5, <2>7, <2>8 DEF DocInv, DocTypeOK, Stages
    <2>10. PageTexts' = PageTexts
      BY <2>1 DEF PageTexts
    <2> QED
      BY <2>1, <2>6, <2>7, <2>8, <2>9, <2>10 DEF DocInv, Parsed
  <1>7. CASE AskFails
    <2>1. /\ UNCHANGED <<pages, ocr, raw, ink, turn, budget, fromOcr, stored, runs>>
          /\ stage = "asking" /\ stage' = "broken" /\ profile' = NoProfile /\ calls' = 0
      BY <1>7 DEF AskFails, parseVars
    <2>2. DocTypeOK'
      BY <2>1, DocumentsAssumption DEF DocInv, DocTypeOK, Stages, NoProfile
    <2>3. Resolved(stored, profile)'
      BY <2>1, NothingIsResolved
    <2> QED
      BY <2>1, <2>2, <2>3 DEF DocInv, Parsed
  <1>8. CASE UNCHANGED docVars
    BY <1>8 DEF docVars, DocInv, DocTypeOK, Parsed, Resolved, PageTexts
  <1> QED
    BY <1>1, <1>2, <1>3, <1>4, <1>5, <1>6, <1>7, <1>8 DEF DocNext

\* The offsets and the profile of a row always belong to the text it holds,
\* through retries, OCR that breaks off and attempts that are lost.
THEOREM DocumentsInvariant == DocSpec => []DocInv
  <1>1. DocInit => DocInv
    BY DocInitEstablishes
  <1>2. DocInv /\ [DocNext]_docVars => DocInv'
    BY DocInvKept
  <1> QED
    BY <1>1, <1>2, PTL DEF DocSpec
-----------------------------------------------------------------------------
(* What the row says. *)

\* A claim of a profile is pinned to the stored text, where that is normal.
LEMMA EvidenceIsPinned ==
    ASSUME DocInv, TextIsNormal, NEW claim \in Evidenced
    PROVE  /\ Pinned(stored.text, claim.span)
           /\ claim.page = PageFor(stored.spans, claim.span.start)
           /\ Parsed
  <1>1. PICK k \in 1 .. Len(profile.kept) : claim = profile.kept[k]
    BY DEF Evidenced
  <1>2. PICK asked \in Texts :
          /\ claim.span = Resolve(stored.text, asked)
          /\ claim.span.found
          /\ claim.page = PageFor(stored.spans, claim.span.start)
    BY <1>1 DEF DocInv, Resolved
  <1>3. stored.text \in Texts
    BY DEF DocInv, DocTypeOK
  <1>4. Pinned(stored.text, claim.span)
    BY <1>2, <1>3, ResolvedIsPinned DEF TextIsNormal
  <1>5. Parsed
    <2>1. SUFFICES ASSUME ~Parsed PROVE FALSE
      OBVIOUS
    <2>2. Len(profile.kept) = 0
      BY <2>1 DEF DocInv, NoProfile
    <2> QED
      BY <1>1, <2>2
  <1> QED
    BY <1>2, <1>4, <1>5

\* EvidenceIsVerbatim: whatever the model answered and however the text was
\* made, a claim that is kept quotes the stored text at its offsets, wherever
\* that text is in the normal form it is promised in.
THEOREM EvidenceIsQuoted == DocSpec => []EvidenceIsVerbatim
  <1>1. DocInv => EvidenceIsVerbatim
    BY EvidenceIsPinned DEF EvidenceIsVerbatim, Pinned
  <1> QED
    BY <1>1, DocumentsInvariant, PTL

\* NothingFoundIsMissed: a claim that is dropped as not found, and says enough
\* to be looked for without its spaces, is in no part of a document in normal
\* form.
THEOREM FabricationsAreAbsent == DocSpec => []NothingFoundIsMissed
  <1>1. DocInv => NothingFoundIsMissed
    <2>1. SUFFICES ASSUME DocInv, TextIsNormal,
                          NEW k \in 1 .. Len(profile.dropped),
                          profile.dropped[k].reason = "not_found",
                          Len(WithoutSpace(NFC(profile.dropped[k].asked))) >= MinStrippedChars
                   PROVE  IsAbsent(stored.text, profile.dropped[k].asked)
      BY DEF NothingFoundIsMissed
    <2>2. PICK asked \in Texts :
            profile.dropped[k] = Resolve(stored.text, asked) /\ ~profile.dropped[k].found
      BY <2>1 DEF DocInv, Resolved
    <2>3. profile.dropped[k].asked = asked
      BY <2>2, ResolveRemembersTheQuote
    <2>4. stored.text \in Texts
      BY <2>1 DEF DocInv, DocTypeOK
    <2>5. IsAbsent(NFC(stored.text), asked)
      BY <2>1, <2>2, <2>3, <2>4, RejectedIsAbsent
    <2> QED
      BY <2>1, <2>3, <2>5 DEF TextIsNormal
  <1> QED
    BY <1>1, DocumentsInvariant, PTL

\* Once a row is parsed, its pages lie in its text.
LEMMA StoredPagesLie ==
    ASSUME DocInv, Parsed, raw # <<>>
    PROVE  /\ PagesLie(PageTexts, stored.text, stored.spans, Len(raw))
           /\ PageTexts \in Seq(Texts) /\ PageTexts # <<>>
           /\ \A i \in 1 .. Len(raw) : PageTexts[i] = PageText(raw[i])
  <1>1. raw \in Seq(Texts)
    BY DEF DocInv, DocTypeOK
  <1>2. /\ PageTexts \in Seq(Texts) /\ Len(PageTexts) = Len(raw) /\ Len(raw) \in Nat
        /\ \A i \in 1 .. Len(raw) : PageTexts[i] = PageText(raw[i])
    BY <1>1, PageTextsAreTexts
  <1>3. PageTexts # <<>>
    BY <1>1, <1>2
  <1>4. stored.text = JoinedPages(PageTexts) /\ stored.spans = Spans(PageTexts)
    BY DEF DocInv
  <1> QED
    BY <1>2, <1>3, <1>4, PagesLieInTheText

\* Each page of the upload is found at its offsets.
LEMMA SlicesAreThePages ==
    ASSUME DocInv, Parsed, NEW i \in 1 .. Len(pages)
    PROVE  Slice(stored.text, stored.spans[i].start, stored.spans[i].end) = PageText(raw[i])
  <1>1. Len(raw) = Len(pages)
    BY DEF DocInv, Parsed
  <1>2. raw # <<>>
    BY <1>1
  <1>3. /\ PagesLie(PageTexts, stored.text, stored.spans, Len(raw))
        /\ PageTexts[i] = PageText(raw[i])
    BY <1>1, <1>2, StoredPagesLie
  <1> QED
    BY <1>1, <1>3 DEF PagesLie

\* CitedOnItsPage: each page of the upload is found at its offsets in the
\* stored text, and a claim names the page on which its quote begins.
THEOREM CitationsNameTheirPage == DocSpec => []CitedOnItsPage
  <1>1. DocInv => CitedOnItsPage
    <2> SUFFICES ASSUME DocInv PROVE CitedOnItsPage
      OBVIOUS
    <2>1. ASSUME stage \in {"asking", "extracted"}, NEW i \in 1 .. Len(pages)
          PROVE  Slice(stored.text, stored.spans[i].start, stored.spans[i].end)
                   = PageText(raw[i])
      BY <2>1, SlicesAreThePages DEF Parsed
    <2>2. ASSUME TextIsNormal, NEW claim \in Evidenced
          PROVE  /\ claim.page \in 1 .. Len(stored.spans)
                 /\ stored.spans[claim.page].start <= claim.span.start
                 /\ claim.span.start < stored.spans[claim.page].end
      <3>1. /\ Pinned(stored.text, claim.span) /\ Parsed
            /\ claim.page = PageFor(stored.spans, claim.span.start)
        BY <2>2, EvidenceIsPinned
      <3>2. stored.text = JoinedPages(PageTexts) /\ stored.spans = Spans(PageTexts)
        BY <3>1 DEF DocInv
      <3>3. /\ claim.span.start \in Nat /\ claim.span.start < Len(stored.text)
            /\ ~IsSpace(stored.text[claim.span.start + 1])
        <4>1. /\ claim.span.start \in Nat /\ claim.span.end \in Nat
              /\ claim.span.start < claim.span.end /\ claim.span.end <= Len(stored.text)
              /\ ~IsSpace(stored.text[claim.span.start + 1])
          BY <3>1 DEF Pinned, Cites
        <4>2. Len(stored.text) \in Nat
          BY DEF DocInv, DocTypeOK, Texts
        <4> QED
          BY <4>1, <4>2
      <3>4. raw # <<>>
        <4>1. SUFFICES ASSUME raw = <<>> PROVE FALSE
          OBVIOUS
        <4>2. PageTexts = <<>>
          BY <4>1 DEF PageTexts
        <4>3. Len(stored.text) = 0
          BY <3>2, <4>2 DEF JoinedPages, Joined
        <4> QED
          BY <3>3, <4>3
      <3>5. PageTexts \in Seq(Texts) /\ PageTexts # <<>>
        BY <3>1, <3>4, StoredPagesLie
      <3> QED
        BY <3>1, <3>2, <3>3, <3>5, SolidOffsetHasItsPage
    <2> QED
      BY <2>1, <2>2 DEF CitedOnItsPage
  <1> QED
    BY <1>1, DocumentsInvariant, PTL

-----------------------------------------------------------------------------
(* The work list. *)

\* A page holds its own layer's text until what is recognised on it replaces
\* that, and OCR replaces the pages it has been at.
PagesAccounted ==
    /\ stage = "ocr" => \A i \in fromOcr : i < turn
    /\ stage # "upload" =>
         \A i \in 1 .. Len(pages) :
            IF i \in fromOcr
              THEN /\ NeedsOcr(TextOf(pages[i]).text)
                   /\ raw[i] \in Recognised /\ ~NeedsOcr(raw[i])
              ELSE raw[i] = TextOf(pages[i]).text

\* The row lists what it was assembled from.
ListsAccounted ==
    Parsed => /\ stored.fromOcr = fromOcr
              /\ \A i \in 1 .. Len(pages) :
                   i \in stored.withoutText <=> NeedsOcr(PageText(raw[i]))

ListInv == DocInv /\ PagesAccounted /\ ListsAccounted

\* Only reading, OCR and the store touch the pages and the lists.
LEMMA ListInvKept == ListInv /\ [DocNext]_docVars => ListInv'
  <1> SUFFICES ASSUME ListInv, [DocNext]_docVars PROVE ListInv'
    OBVIOUS
  <1>1. DocInv /\ DocInv'
    BY DocInvKept DEF ListInv
  <1>2. Len(pages) \in Nat /\ raw \in Seq(Texts) /\ Len(raw) \in Nat
    BY <1>1, DocumentsAssumption DEF DocInv, DocTypeOK
  <1>3. CASE ReadPages
    <2> DEFINE read == [i \in 1 .. Len(pages) |-> TextOf(pages[i])]
    <2>1. /\ raw' = [i \in 1 .. Len(pages) |-> read[i].text]
          /\ fromOcr' = {} /\ pages' = pages /\ stage' \in {"ocr", "assemble"}
      BY <1>3 DEF ReadPages
    <2>2. \A i \in 1 .. Len(pages) : raw'[i] = TextOf(pages[i]).text
      BY <2>1
    <2> HIDE DEF read
    <2> QED
      BY <1>1, <2>1, <2>2 DEF ListInv, PagesAccounted, ListsAccounted, Parsed
  <1>4. CASE Recognise
    <2>1. PICK text \in Recognised : Accept(text)
      BY <1>4 DEF Recognise
    <2>2. /\ UNCHANGED <<pages, stage, stored>> /\ turn' = turn + 1
          /\ stage = "ocr" /\ NeedsOcr(raw[turn])
      BY <1>4 DEF Recognise, NextPage, WorthOcr
    <2>3. turn \in 1 .. Len(pages) /\ Len(raw) = Len(pages)
      BY <1>1, <1>2, <1>4 DEF Recognise, DocInv, DocTypeOK
    <2>4. fromOcr \subseteq 1 .. Len(pages) /\ \A i \in fromOcr : i < turn
      BY <1>1, <2>2 DEF DocInv, DocTypeOK, ListInv, PagesAccounted
    <2>5. turn \notin fromOcr
      BY <2>3, <2>4
    <2>6. NeedsOcr(TextOf(pages[turn]).text)
      BY <2>2, <2>3, <2>5 DEF ListInv, PagesAccounted
    <2>7. CASE NeedsOcr(text)
      <3>1. UNCHANGED <<raw, fromOcr>>
        BY <2>1, <2>7 DEF Accept
      <3>2. \A i \in fromOcr : i < turn'
        BY <2>2, <2>3, <2>4
      <3> QED
        BY <1>1, <2>2, <3>1, <3>2 DEF ListInv, PagesAccounted, ListsAccounted, Parsed
    <2>8. CASE ~NeedsOcr(text)
      <3>1. raw' = [raw EXCEPT ![turn] = text] /\ fromOcr' = fromOcr \cup {turn}
        BY <2>1, <2>8 DEF Accept
      <3>2. raw'[turn] = text /\ \A i \in 1 .. Len(pages) : i # turn => raw'[i] = raw[i]
        BY <1>2, <2>3, <3>1
      <3>3. \A i \in fromOcr' : i < turn'
        BY <2>2, <2>3, <2>4, <3>1
      <3>4. ASSUME NEW i \in 1 .. Len(pages)
            PROVE  IF i \in fromOcr'
                     THEN /\ NeedsOcr(TextOf(pages[i]).text)
                          /\ raw'[i] \in Recognised /\ ~NeedsOcr(raw'[i])
                     ELSE raw'[i] = TextOf(pages[i]).text
        <4>1. CASE i = turn
          BY <2>6, <2>8, <3>1, <3>2, <4>1
        <4>2. CASE i # turn
          BY <2>2, <3>1, <3>2, <4>2 DEF ListInv, PagesAccounted
        <4> QED
          BY <4>1, <4>2
      <3>5. PagesAccounted'
        BY <2>2, <3>3, <3>4 DEF PagesAccounted
      <3> QED
        BY <1>1, <2>2, <3>5 DEF ListInv, ListsAccounted, Parsed
    <2> QED
      BY <2>7, <2>8
  <1>5. CASE Store
    <2>1. /\ UNCHANGED <<pages, raw, fromOcr>> /\ stored' = Assembled
          /\ stage = "assemble" /\ stage' = "asking"
      BY <1>5 DEF Store, parseVars
    <2>2. /\ stored'.fromOcr = fromOcr
          /\ stored'.withoutText = {i \in 1 .. Len(raw) : NeedsOcr(PageTexts[i])}
      BY <2>1 DEF Assembled, Document
    <2>3. \A i \in 1 .. Len(raw) : PageTexts[i] = PageText(raw[i])
      BY <1>2, PageTextsAreTexts
    <2>4. Len(raw) = Len(pages)
      BY <1>1, <2>1 DEF DocInv
    <2>5. PagesAccounted'
      BY <2>1 DEF ListInv, PagesAccounted
    <2>6. ListsAccounted'
      BY <2>1, <2>2, <2>3, <2>4 DEF ListsAccounted
    <2> QED
      BY <1>1, <2>5, <2>6 DEF ListInv
  <1>6. ASSUME PassOver \/ OcrFails PROVE ListInv'
    <2>1. /\ UNCHANGED <<pages, stage, raw, fromOcr, stored>> /\ turn' = turn + 1
          /\ stage = "ocr"
      BY <1>6 DEF PassOver, OcrFails, NextPage
    <2>2. turn \in Nat /\ fromOcr \subseteq Nat
      BY <1>1, <1>2 DEF DocInv, DocTypeOK
    <2>3. \A i \in fromOcr : i < turn'
      BY <2>1, <2>2 DEF ListInv, PagesAccounted
    <2> QED
      BY <1>1, <2>1, <2>3 DEF ListInv, PagesAccounted, ListsAccounted, Parsed
  <1>7. ASSUME OcrUnavailable \/ OcrDone \/ Reject \/ Corrupt PROVE ListInv'
    <2>1. /\ UNCHANGED <<pages, raw, fromOcr, stored>>
          /\ stage \in {"ocr", "assemble"} /\ stage' \in {"broken", "assemble", "failed"}
      BY <1>7 DEF OcrUnavailable, OcrDone, Reject, Corrupt, parseVars
    <2> QED
      BY <1>1, <2>1 DEF ListInv, PagesAccounted, ListsAccounted, Parsed
  <1>8. ASSUME Ask \/ AskFails PROVE ListInv'
    <2>1. /\ UNCHANGED <<pages, raw, fromOcr, stored>>
          /\ stage = "asking" /\ stage' \in {"asking", "extracted", "broken"}
      BY <1>8 DEF Ask, AskFails, parseVars
    <2> QED
      BY <1>1, <2>1 DEF ListInv, PagesAccounted, ListsAccounted, Parsed
  <1>9. CASE UNCHANGED docVars
    BY <1>1, <1>9 DEF docVars, ListInv, PagesAccounted, ListsAccounted, Parsed
  <1> QED
    BY <1>3, <1>4, <1>5, <1>6, <1>7, <1>8, <1>9 DEF DocNext

\* WorkListIsHonest: a row lists the pages of which it stores too little text,
\* and holds for a page it lists as rescued what the engine read on an image,
\* and for any other the text of the page's own layer.
THEOREM WorkListHolds == DocSpec => []WorkListIsHonest
  <1>1. DocInit => ListInv
    <2> SUFFICES ASSUME DocInit PROVE ListInv
      OBVIOUS
    <2>1. stage = "upload" /\ fromOcr = {}
      BY DEF DocInit
    <2> QED
      BY <2>1, DocInitEstablishes DEF ListInv, PagesAccounted, ListsAccounted, Parsed
  <1>2. ListInv => WorkListIsHonest
    <2> SUFFICES ASSUME ListInv, stage \in {"asking", "extracted"},
                        NEW i \in 1 .. Len(pages)
                 PROVE  LET span == stored.spans[i]
                            text == Slice(stored.text, span.start, span.end)
                            own  == TextOf(pages[i]).text
                        IN  /\ i \in stored.withoutText <=> NeedsOcr(text)
                            /\ IF i \in stored.fromOcr
                                 THEN /\ pages[i].image /\ NeedsOcr(own)
                                      /\ \E read \in Recognised :
                                           ~NeedsOcr(read) /\ text = PageText(read)
                                 ELSE text = PageText(own)
      BY DEF WorkListIsHonest
    <2>1. DocInv /\ Parsed /\ stage # "upload"
      BY DEF ListInv, Parsed
    <2>2. Slice(stored.text, stored.spans[i].start, stored.spans[i].end) = PageText(raw[i])
      BY <2>1, SlicesAreThePages
    <2>3. /\ stored.fromOcr = fromOcr
          /\ i \in stored.withoutText <=> NeedsOcr(PageText(raw[i]))
      BY <2>1 DEF ListInv, ListsAccounted
    <2>4. i \in fromOcr => pages[i].image
      BY <2>1 DEF DocInv, DocTypeOK
    <2>5. IF i \in fromOcr
            THEN /\ NeedsOcr(TextOf(pages[i]).text)
                 /\ raw[i] \in Recognised /\ ~NeedsOcr(raw[i])
            ELSE raw[i] = TextOf(pages[i]).text
      BY <2>1 DEF ListInv, PagesAccounted
    <2> QED
      BY <2>2, <2>3, <2>4, <2>5
  <1> QED
    BY <1>1, <1>2, ListInvKept, PTL DEF DocSpec

-----------------------------------------------------------------------------
(* The pages are read whole. *)

\* EachWordReadOnce: however a page is cut into bands and columns, each of its
\* words is in exactly one of the regions that are read, wherever the edges of
\* the page lie, as long as its rows do not reach into each other.
THEOREM EachWordIsReadOnce == DocSpec => []EachWordReadOnce
  <1>1. DocInv => EachWordReadOnce
    <2> SUFFICES ASSUME DocInv, NEW i \in 1 .. Len(pages),
                        RowsApart(pages[i]), OnPage(pages[i])
                 PROVE  ReadOnce(pages[i], ReadingOrder(pages[i]))
      BY DEF EachWordReadOnce
    <2>1. IsPage(pages[i])
      BY DocumentsAssumption DEF DocInv, DocTypeOK
    <2> QED
      BY <2>1, PageIsReadOnce
  <1> QED
    BY <1>1, DocumentsInvariant, PTL

-----------------------------------------------------------------------------
(* The boxes under the stored text. *)

\* How many characters before a place stay when the U+0000s go.
Before(text, old) == Cardinality({i \in 1 .. old : text[i] # Nul})

\* A character that stays counts for one.
LEMMA BeforeGrows ==
    ASSUME NEW text, NEW old \in Nat
    PROVE  /\ Before(text, old) \in Nat
           /\ text[old + 1] # Nul => Before(text, old + 1) = Before(text, old) + 1
  <1> DEFINE at == {i \in 1 .. old : text[i] # Nul}
             next == {i \in 1 .. (old + 1) : text[i] # Nul}
  <1>1. IsFiniteSet(at) /\ Cardinality(at) \in Nat
    <2>1. at \in SUBSET (1 .. old) /\ IsFiniteSet(1 .. old)
      BY FS_Interval
    <2> HIDE DEF at
    <2> QED
      BY <2>1, FS_Subset, FS_CardinalityType
  <1>2. ASSUME text[old + 1] # Nul PROVE Cardinality(next) = Cardinality(at) + 1
    <2>1. next = at \cup {old + 1} /\ old + 1 \notin at
      BY <1>2
    <2> HIDE DEF at, next
    <2> QED
      BY <1>1, <2>1, FS_AddElement
  <1> QED
    BY <1>1, <1>2 DEF Before

\* Consecutive characters that stay are consecutive in what is left.
LEMMA KeptTogether ==
    ASSUME NEW text \in Texts, NEW a \in Nat, NEW m \in Nat,
           \A l \in 1 .. m : a + l <= Len(text) /\ text[a + l] # Nul
    PROVE  Lies([l \in 1 .. m |-> text[a + l]], WithoutNul(text), Before(text, a))
  <1> DEFINE left == WithoutNul(text)
             at == {i \in 1 .. Len(text) : text[i] # Nul}
             n == Cardinality(at)
             order == Ordered(at)
             some == [l \in 1 .. m |-> text[a + l]]
             P == {j \in Nat : j <= m => Before(text, a + j) = Before(text, a) + j}
  <1>1. Len(text) \in Nat /\ at \in SUBSET (1 .. Len(text)) /\ text \in Seq(Characters)
    BY DEF Texts
  <1>2. /\ left = Picked(text, at)
        /\ \A i \in 1 .. Len(text) : i \in at <=> text[i] # Nul
    BY DEF WithoutNul
  <1>3. 0 \in P
    <2>1. Before(text, a) \in Nat /\ a + 0 = a
      BY BeforeGrows
    <2> QED
      BY <2>1
  <1>4. ASSUME NEW j \in Nat, j \in P PROVE j + 1 \in P
    <2> SUFFICES ASSUME j + 1 <= m PROVE Before(text, a + (j + 1)) = Before(text, a) + (j + 1)
      OBVIOUS
    <2>1. j <= m /\ j + 1 \in 1 .. m /\ a + j \in Nat /\ (a + j) + 1 = a + (j + 1)
      OBVIOUS
    <2>2. Before(text, a + j) = Before(text, a) + j
      BY <1>4, <2>1
    <2>3. text[(a + j) + 1] # Nul
      BY <2>1
    <2>4. /\ Before(text, (a + j) + 1) = Before(text, a + j) + 1
          /\ Before(text, a) \in Nat
      BY <2>1, <2>3, BeforeGrows
    <2> QED
      BY <2>1, <2>2, <2>4
  <1> HIDE DEF P
  <1>5. \A j \in Nat : j \in P
    BY <1>3, <1>4, NumbersByInduction
  <1> HIDE DEF at, left
  <1>6. /\ n \in Nat /\ Len(left) = n
        /\ \A k \in 1 .. n : left[k] = text[order[k]]
    <2>1. /\ Picked(text, at) \in Seq(Characters) /\ Len(Picked(text, at)) = Cardinality(at)
          /\ \A k \in 1 .. Cardinality(at) : Picked(text, at)[k] = text[Ordered(at)[k]]
      BY <1>1, PickedIsSequence
    <2>2. Cardinality(at) \in Nat
      BY <1>1, IndicesAreFinite
    <2> QED
      BY <1>2, <2>1, <2>2
  <1>7. \A i \in at : Rank(i, at) \in 1 .. n /\ order[Rank(i, at)] = i
    <2>1. at \in SUBSET Int /\ IsFiniteSet(at)
      <3>1. IsFiniteSet(at) /\ at \in SUBSET Nat
        BY <1>1, IndicesAreFinite
      <3> QED
        BY <3>1
    <2> QED
      BY <2>1, OrderedLists
  <1>8. ASSUME NEW i \in at PROVE Before(text, i) = Rank(i, at)
    <2>1. {k \in 1 .. i : text[k] # Nul} = {k \in at : k <= i}
      <3>1. i \in 1 .. Len(text)
        BY <1>1
      <3>2. \A k \in 1 .. i : k \in 1 .. Len(text) /\ k <= i
        BY <1>1, <3>1
      <3>3. \A k \in at : k <= i => k \in 1 .. i
        BY <1>1, <3>1
      <3> QED
        BY <1>1, <1>2, <3>2, <3>3
    <2> QED
      BY <2>1 DEF Before, Rank
  <1>9. ASSUME NEW l \in 1 .. m
        PROVE  /\ Before(text, a) + l \in 1 .. Len(left)
               /\ left[Before(text, a) + l] = text[a + l]
    <2>1. a + l \in 1 .. Len(text) /\ text[a + l] # Nul /\ l \in Nat /\ l <= m
      <3> DEFINE size == Len(text)
      <3>1. a + l <= size /\ text[a + l] # Nul
        OBVIOUS
      <3>2. l \in Nat /\ 1 <= l /\ l <= m /\ size \in Nat
        BY <1>1
      <3> HIDE DEF size
      <3>3. a + l \in 1 .. size
        BY <3>1, <3>2
      <3> QED
        BY <3>1, <3>2, <3>3 DEF size
    <2>2. a + l \in at
      BY <1>2, <2>1
    <2>3. Before(text, a) + l = Rank(a + l, at)
      BY <1>5, <1>8, <2>1, <2>2 DEF P
    <2> QED
      BY <1>6, <1>7, <2>2, <2>3
  <1>10. Len(some) = m /\ \A l \in 1 .. m : some[l] = text[a + l]
    OBVIOUS
  <1> HIDE DEF some
  <1>11. Lies(some, left, Before(text, a))
    BY <1>9, <1>10 DEF Lies
  <1> QED
    BY <1>11 DEF some, left

\* The pieces of a run that are left each lie over their characters.
LEMMA PiecesStayOver ==
    ASSUME NEW words, NEW text \in Texts, NEW run \in RunsOver(words, text),
           NEW left, left = {k \in 1 .. Len(run.boxes) : text[run.start + k] # Nul},
           NEW p \in 1 .. Len(Stretches(left, {}))
    PROVE  LET one == Stretches(left, {})[p] IN
           Run(Before(text, run.start + one.from - 1), SubSeq(run.boxes, one.from, one.to))
             \in RunsOver(words, WithoutNul(text))
  <1> DEFINE cuts == Stretches(left, {})
             from == cuts[p].from
             to == cuts[p].to
             boxes == run.boxes
             s == run.start
             size == Len(boxes)
             a == s + from - 1
             m == to - from + 1
             some == [l \in 1 .. m |-> text[a + l]]
             kept == SubSeq(boxes, from, to)
             whole == WithoutNul(text)
             start == Before(text, a)
             result == Run(start, kept)
  <1>1. /\ s \in Nat /\ boxes \in Seq(Ink(words)) /\ size \in Nat
        /\ \A k \in 1 .. size : s + k \in 1 .. Len(text) /\ Shows(boxes[k], words, text[s + k])
    BY DEF RunsOver
  <1>2. left \in SUBSET (1 .. size) /\ \A k \in left : text[s + k] # Nul
    OBVIOUS
  <1>3. Cut(left, {}, cuts)
    <2>1. left \in SUBSET Int /\ IsFiniteSet(left)
      <3>1. left \in SUBSET Nat /\ IsFiniteSet(left)
        BY <1>1, <1>2, IndicesAreFinite
      <3> QED
        BY <3>1
    <2> QED
      BY <2>1, StretchesCut
  <1>4. /\ from \in left /\ to \in left /\ from <= to
        /\ \A i \in from .. to : i \in left
    BY <1>3 DEF Cut
  <1>5. /\ from \in 1 .. size /\ to \in 1 .. size
        /\ \A i \in from .. to : i \in 1 .. size /\ text[s + i] # Nul
    BY <1>2, <1>4
  <1> HIDE DEF from, to, boxes, s, size
  <1>6. a \in Nat /\ m \in Nat /\ Len(text) \in Nat
    BY <1>1, <1>4, <1>5 DEF Texts
  <1>7. ASSUME NEW l \in 1 .. m
        PROVE  /\ from + l - 1 \in from .. to /\ a + l = s + (from + l - 1)
               /\ a + l <= Len(text) /\ text[a + l] # Nul
               /\ from + l - 1 \in 1 .. size
    <2>1. from + l - 1 \in from .. to /\ a + l = s + (from + l - 1)
      BY <1>1, <1>4, <1>5
    <2> DEFINE i == from + l - 1
    <2> HIDE DEF i
    <2>2. i \in 1 .. size /\ text[s + i] # Nul
      BY <1>5, <2>1 DEF i
    <2>3. s + i \in 1 .. Len(text)
      BY <1>1, <2>2
    <2> QED
      BY <1>6, <2>1, <2>2, <2>3 DEF i
  <1>8. Lies(some, whole, start)
    BY <1>6, <1>7, KeptTogether
  <1>9. start \in Nat
    BY <1>6, BeforeGrows
  <1>10. /\ kept \in Seq(Ink(words)) /\ Len(kept) = m
         /\ \A l \in 1 .. m : kept[l] = boxes[from + l - 1]
    <2> DEFINE S == Ink(words)
    <2> HIDE DEF S
    <2>1. boxes \in Seq(S) /\ size = Len(boxes)
      BY <1>1 DEF S, size
    <2>2. kept \in Seq(S) /\ Len(kept) = m /\ \A l \in 1 .. m : kept[l] = boxes[from + l - 1]
      BY <1>4, <1>5, <2>1
    <2> QED
      BY <2>2 DEF S
  <1>11. Len(some) = m /\ \A l \in 1 .. m : some[l] = text[a + l]
    BY <1>6
  <1> HIDE DEF some, kept, whole, start
  <1>12. ASSUME NEW l \in 1 .. m
         PROVE  start + l \in 1 .. Len(whole) /\ Shows(kept[l], words, whole[start + l])
    <2>1. start + l \in 1 .. Len(whole) /\ whole[start + l] = some[l]
      BY <1>8, <1>11 DEF Lies
    <2>2. some[l] = text[s + (from + l - 1)] /\ kept[l] = boxes[from + l - 1]
      BY <1>7, <1>10, <1>11
    <2>3. from + l - 1 \in 1 .. size
      BY <1>7
    <2>4. Shows(boxes[from + l - 1], words, text[s + (from + l - 1)])
      BY <1>1, <2>3
    <2> QED
      BY <2>1, <2>2, <2>4
  <1>13. result.start = start /\ result.boxes = kept
         /\ result \in [start : Nat, boxes : Seq(Ink(words))]
    BY <1>9, <1>10 DEF Run
  <1> HIDE DEF result
  <1>14. result \in RunsOver(words, whole)
    BY <1>10, <1>12, <1>13 DEF RunsOver
  <1> QED
    BY <1>14 DEF result, start, kept, whole, a, s, from, to, boxes

\* Runs over a text are, cut up, runs over what is left of it.
LEMMA RemapStaysOver ==
    ASSUME NEW words, NEW text \in Texts, NEW geometry \in Seq(RunsOver(words, text))
    PROVE  Remap(geometry, text) \in Seq(RunsOver(words, WithoutNul(text)))
  <1> DEFINE R == RunsOver(words, WithoutNul(text))
             n == Len(geometry)
             left(run) == {k \in 1 .. Len(run.boxes) : text[run.start + k] # Nul}
             one(run) == Stretches(left(run), {})
             piece(run, p) == Run(Before(text, run.start + one(run)[p].from - 1),
                                  SubSeq(run.boxes, one(run)[p].from, one(run)[p].to))
             pieces(run) == [p \in DOMAIN one(run) |-> piece(run, p)]
             parts == [i \in 1 .. n |-> pieces(geometry[i])]
  <1>1. Remap(geometry, text) = FlattenSeq(parts)
    BY DEF Remap, Before
  <1>2. n \in Nat /\ \A i \in 1 .. n : geometry[i] \in RunsOver(words, text)
    OBVIOUS
  <1>3. ASSUME NEW run \in RunsOver(words, text) PROVE pieces(run) \in Seq(R)
    <2>1. Len(run.boxes) \in Nat
      BY DEF RunsOver
    <2>2. left(run) \in SUBSET Int /\ IsFiniteSet(left(run))
      <3>1. left(run) \in SUBSET (1 .. Len(run.boxes))
        OBVIOUS
      <3> HIDE DEF left
      <3>2. left(run) \in SUBSET Nat /\ IsFiniteSet(left(run))
        BY <2>1, <3>1, IndicesAreFinite
      <3> QED
        BY <3>2
    <2>3. ASSUME NEW p \in 1 .. Len(one(run)) PROVE piece(run, p) \in R
      BY PiecesStayOver
    <2> DEFINE cuts == one(run)
               at == left(run)
    <2> HIDE DEF left
    <2>4. Cut(at, {}, cuts)
      BY <2>2, StretchesCut
    <2>5. DOMAIN cuts = 1 .. Len(cuts) /\ Len(cuts) \in Nat
      <3> HIDE DEF cuts, at
      <3>1. cuts \in Seq([from : at, to : at])
        BY <2>4 DEF Cut
      <3> QED
        BY <3>1
    <2> HIDE DEF one, piece, R
    <2>6. pieces(run) \in [1 .. Len(cuts) -> R]
      BY <2>3, <2>5
    <2> HIDE DEF cuts, pieces
    <2> QED
      BY <2>5, <2>6, FunctionIsSequence
  <1>4. parts \in Seq(Seq(R))
    <2> DEFINE S == Seq(R)
    <2> HIDE DEF R, pieces
    <2>1. parts \in [1 .. n -> S]
      BY <1>2, <1>3
    <2> HIDE DEF parts, S, n
    <2>2. parts \in Seq(S)
      BY <1>2, <2>1, FunctionIsSequence
    <2> QED
      BY <2>2 DEF S
  <1> HIDE DEF parts, R
  <1>5. <<>> \in Seq(R)
    OBVIOUS
  <1>6. FlattenSeq(parts) \in Seq(R)
    BY <1>4, <1>5, JoinedIsSequence
  <1> QED
    BY <1>1, <1>6 DEF R

\* What is kept of a page's geometry lies over what is stored of its text.
LEMMA RebasedIsOver ==
    ASSUME NEW words, NEW text \in Texts, NEW whole \in Texts, NEW start \in Nat,
           NEW geometry, geometry.known => geometry.runs \in Seq(RunsOver(words, text)),
           Lies(PageText(text), whole, start)
    PROVE  LET kept == Rebased(geometry, text, start) IN
           /\ kept.runs \in Seq(RunsOver(words, whole))
           /\ kept.runs # <<>> => geometry.known
  <1> DEFINE kept == Rebased(geometry, text, start)
             remapped == Remap(geometry.runs, text)
             R == RunsOver(words, whole)
  <1>1. CASE ~geometry.known \/ NFC(text) # text
    <2>1. kept.runs = <<>>
      BY <1>1 DEF Rebased, NoGeometry
    <2>2. <<>> \in Seq(R)
      OBVIOUS
    <2> QED
      BY <2>1, <2>2, Zenon
  <1>2. CASE ~(~geometry.known \/ NFC(text) # text)
    <2>1. geometry.known /\ PageText(text) = WithoutNul(text)
      BY <1>2 DEF PageText
    <2>2. kept.runs = Shift(remapped, start)
      BY <1>2 DEF Rebased
    <2>3. remapped \in Seq(RunsOver(words, WithoutNul(text)))
      BY <2>1, RemapStaysOver
    <2> HIDE DEF remapped, kept
    <2>4. Lies(WithoutNul(text), whole, start)
      BY <2>1
    <2>5. Shift(remapped, start) \in Seq(R)
      BY <2>3, <2>4, ShiftStaysOver
    <2> QED
      BY <2>1, <2>2, <2>5, Zenon DEF kept
  <1> QED
    BY <1>1, <1>2

\* The boxes of a page that is read are over its text, and are none of a page
\* whose text came from OCR.
InkLies ==
    \A i \in 1 .. Len(raw) : ink[i].known =>
        /\ i \notin fromOcr
        /\ ink[i].runs \in Seq(RunsOver(pages[i].words, raw[i]))

\* The same for what the row holds.
StoredInkLies ==
    \A i \in 1 .. Len(stored.geometry) :
        /\ stored.geometry[i].runs \in Seq(RunsOver(pages[i].words, stored.text))
        /\ stored.geometry[i].runs # <<>> => i \notin stored.fromOcr

InkInv == DocInv /\ InkLies /\ StoredInkLies

\* Reading the pages puts boxes under their texts.
LEMMA ReadInkLies ==
    ASSUME DocInv, ReadPages PROVE InkLies'
  <1> DEFINE read == [i \in 1 .. Len(pages) |-> TextOf(pages[i])]
  <1>1. /\ raw' = [i \in 1 .. Len(pages) |-> read[i].text]
        /\ ink' = [i \in 1 .. Len(pages) |-> read[i].geometry]
        /\ fromOcr' = {} /\ pages' = pages
    BY DEF ReadPages
  <1>2. Len(pages) \in Nat /\ \A i \in 1 .. Len(pages) : IsPage(pages[i])
    BY DocumentsAssumption DEF DocInv, DocTypeOK
  <1>3. ASSUME NEW i \in 1 .. Len(pages)
        PROVE  read[i].geometry.known =>
                 read[i].geometry.runs \in Seq(RunsOver(pages[i].words, read[i].text))
    <2>1. read[i] = TextOf(pages[i])
      OBVIOUS
    <2> QED
      BY <1>2, <2>1, TextOfIsOver
  <1> HIDE DEF read
  <1>4. Len(raw') = Len(pages)
    BY <1>1, <1>2
  <1>5. \A i \in 1 .. Len(pages) :
          raw'[i] = read[i].text /\ ink'[i] = read[i].geometry /\ i \notin fromOcr'
    BY <1>1
  <1> SUFFICES ASSUME NEW i \in 1 .. Len(raw'), ink'[i].known
               PROVE  /\ i \notin fromOcr'
                      /\ ink'[i].runs \in Seq(RunsOver(pages'[i].words, raw'[i]))
    BY DEF InkLies
  <1>6. i \in 1 .. Len(pages)
    BY <1>4
  <1>7. raw'[i] = read[i].text /\ ink'[i] = read[i].geometry /\ i \notin fromOcr'
    BY <1>5, <1>6
  <1>8. read[i].geometry.known
    BY <1>7
  <1>9. read[i].geometry.runs \in Seq(RunsOver(pages[i].words, read[i].text))
    BY <1>3, <1>6, <1>8
  <1> QED
    BY <1>1, <1>7, <1>9, Zenon

\* What OCR puts in the place of a page takes its boxes away.
LEMMA RecognisedInkLies ==
    ASSUME DocInv, InkLies, Recognise PROVE InkLies'
  <1>1. PICK text \in Recognised : Accept(text)
    BY DEF Recognise
  <1>2. pages' = pages
    BY DEF Recognise, NextPage
  <1>3. turn \in 1 .. Len(raw) /\ raw \in Seq(Texts) /\ DOMAIN ink = 1 .. Len(raw)
    BY DEF Recognise, DocInv, DocTypeOK
  <1>4. CASE NeedsOcr(text)
    BY <1>1, <1>2, <1>4 DEF Accept, InkLies
  <1>5. CASE ~NeedsOcr(text)
    <2>1. /\ raw' = [raw EXCEPT ![turn] = text] /\ fromOcr' = fromOcr \cup {turn}
          /\ ink' = [ink EXCEPT ![turn] = NoGeometry]
      BY <1>1, <1>5 DEF Accept
    <2>2. Len(raw') = Len(raw)
      BY <1>3, <2>1
    <2>3. ink'[turn].known = FALSE
      BY <1>3, <2>1 DEF NoGeometry
    <2>4. \A i \in 1 .. Len(raw) : i # turn =>
            raw'[i] = raw[i] /\ ink'[i] = ink[i] /\ (i \in fromOcr' <=> i \in fromOcr)
      BY <1>3, <2>1
    <2> SUFFICES ASSUME NEW i \in 1 .. Len(raw'), ink'[i].known
                 PROVE  /\ i \notin fromOcr'
                        /\ ink'[i].runs \in Seq(RunsOver(pages'[i].words, raw'[i]))
      BY DEF InkLies
    <2>5. i # turn /\ i \in 1 .. Len(raw)
      BY <2>2, <2>3
    <2>6. raw'[i] = raw[i] /\ ink'[i] = ink[i] /\ (i \in fromOcr' <=> i \in fromOcr)
      BY <2>4, <2>5
    <2>7. i \notin fromOcr /\ ink[i].runs \in Seq(RunsOver(pages[i].words, raw[i]))
      BY <2>5, <2>6 DEF InkLies
    <2> QED
      BY <1>2, <2>6, <2>7, Zenon
  <1> QED
    BY <1>4, <1>5

\* The store moves the boxes with their texts.
LEMMA StoredInkIsLaid ==
    ASSUME DocInv, InkLies, Store PROVE StoredInkLies'
  <1> DEFINE n == Len(raw)
             text == JoinedPages(PageTexts)
             spans == Spans(PageTexts)
             geometry == [i \in 1 .. n |-> Rebased(ink[i], raw[i], spans[i].start)]
  <1>1. /\ stored'.text = text /\ stored'.fromOcr = fromOcr
        /\ stored'.geometry = geometry /\ pages' = pages
    BY DEF Store, Assembled, Document, parseVars
  <1>2. raw \in Seq(Texts) /\ n \in Nat
    BY DEF DocInv, DocTypeOK
  <1>3. /\ PageTexts \in Seq(Texts) /\ Len(PageTexts) = n
        /\ \A i \in 1 .. n : PageTexts[i] = PageText(raw[i])
    BY <1>2, PageTextsAreTexts
  <1> HIDE DEF text, spans
  <1>4. Len(geometry) = n
    <2> DEFINE S == {geometry[i] : i \in 1 .. n}
    <2>1. geometry \in [1 .. n -> S]
      OBVIOUS
    <2> HIDE DEF S, geometry, n
    <2> QED
      BY <1>2, <2>1, FunctionIsSequence
  <1>5. ASSUME NEW i \in 1 .. n
        PROVE  /\ geometry[i].runs \in Seq(RunsOver(pages[i].words, text))
               /\ geometry[i].runs # <<>> => i \notin fromOcr
    <2> DEFINE start == spans[i].start
               page == raw[i]
               words == pages[i].words
               kept == Rebased(ink[i], page, start)
    <2>1. PageTexts # <<>>
      BY <1>2, <1>3
    <2>2. PagesLie(PageTexts, text, spans, n)
      BY <1>3, <2>1, PagesLieInTheText DEF text, spans
    <2>3. text \in Texts /\ start \in Nat /\ Lies(PageTexts[i], text, start)
      BY <2>2 DEF PagesLie
    <2>4. page \in Texts /\ PageTexts[i] = PageText(page)
      BY <1>2, <1>3
    <2>5. ink[i].known => ink[i].runs \in Seq(RunsOver(words, page)) /\ i \notin fromOcr
      BY DEF InkLies
    <2>6. geometry[i] = kept
      OBVIOUS
    <2> HIDE DEF start, page, words, geometry
    <2>7. Lies(PageText(page), text, start)
      BY <2>3, <2>4
    <2>8. /\ kept.runs \in Seq(RunsOver(words, text))
          /\ kept.runs # <<>> => ink[i].known
      BY <2>3, <2>4, <2>5, <2>7, RebasedIsOver
    <2> HIDE DEF kept
    <2> QED
      BY <2>5, <2>6, <2>8, Zenon DEF words
  <1> HIDE DEF geometry, n
  <1>6. ASSUME NEW i \in 1 .. Len(geometry)
        PROVE  /\ geometry[i].runs \in Seq(RunsOver(pages[i].words, text))
               /\ geometry[i].runs # <<>> => i \notin fromOcr
    BY <1>4, <1>5
  <1> QED
    BY <1>1, <1>6 DEF StoredInkLies

\* Only reading, OCR and the store touch the boxes.
LEMMA InkInvKept == InkInv /\ [DocNext]_docVars => InkInv'
  <1> SUFFICES ASSUME InkInv, [DocNext]_docVars PROVE InkInv'
    OBVIOUS
  <1>1. DocInv /\ DocInv' /\ InkLies /\ StoredInkLies
    BY DocInvKept DEF InkInv
  <1>2. CASE ReadPages
    <2>1. pages' = pages /\ stored' = stored
      BY <1>2 DEF ReadPages
    <2>2. StoredInkLies'
      BY <1>1, <2>1 DEF StoredInkLies
    <2> QED
      BY <1>1, <1>2, <2>2, ReadInkLies DEF InkInv
  <1>3. CASE Recognise
    <2>1. pages' = pages /\ stored' = stored
      BY <1>3 DEF Recognise, NextPage
    <2>2. StoredInkLies'
      BY <1>1, <2>1 DEF StoredInkLies
    <2> QED
      BY <1>1, <1>3, <2>2, RecognisedInkLies DEF InkInv
  <1>4. CASE Store
    <2>1. UNCHANGED <<pages, raw, ink, fromOcr>>
      BY <1>4 DEF Store, parseVars
    <2>2. InkLies'
      BY <1>1, <2>1 DEF InkLies
    <2> QED
      BY <1>1, <1>4, <2>2, StoredInkIsLaid DEF InkInv
  <1>5. ASSUME PassOver \/ OcrFails \/ OcrUnavailable \/ OcrDone \/ Reject \/ Corrupt
                 \/ Ask \/ AskFails \/ UNCHANGED docVars
        PROVE  InkInv'
    <2>1. UNCHANGED <<pages, raw, ink, fromOcr, stored>>
      BY <1>5 DEF PassOver, OcrFails, OcrUnavailable, OcrDone, Reject, Corrupt, Ask,
                  AskFails, NextPage, parseVars, docVars
    <2>2. InkLies' /\ StoredInkLies'
      BY <1>1, <2>1 DEF InkLies, StoredInkLies
    <2> QED
      BY <1>1, <2>2 DEF InkInv
  <1> QED
    BY <1>2, <1>3, <1>4, <1>5 DEF DocNext

\* BoxesLieUnderTheirText: a box that is stored is the box of the very
\* character it is stored under, on a page whose text was not recognised by
\* OCR: through reading order, the removal of U+0000 and the joining of pages.
THEOREM BoxesAreUnderTheirText == DocSpec => []BoxesLieUnderTheirText
  <1>1. DocInit => InkInv
    <2> SUFFICES ASSUME DocInit PROVE InkInv
      OBVIOUS
    <2>1. raw = <<>> /\ stored.geometry = <<>>
      BY DEF DocInit, NoDocument
    <2> QED
      BY <2>1, DocInitEstablishes DEF InkInv, InkLies, StoredInkLies
  <1>2. InkInv => BoxesLieUnderTheirText
    <2> SUFFICES ASSUME InkInv,
                        NEW i \in 1 .. Len(stored.geometry),
                        NEW r \in 1 .. Len(stored.geometry[i].runs),
                        NEW k \in 1 .. Len(stored.geometry[i].runs[r].boxes)
                 PROVE  LET run == stored.geometry[i].runs[r]
                        IN  \E word \in run.boxes[k].word :
                              /\ word.text[run.boxes[k].glyph] = stored.text[run.start + k]
                              /\ word \in pages[i].words
                              /\ i \notin stored.fromOcr
      BY DEF BoxesLieUnderTheirText
    <2> DEFINE all == stored.geometry[i].runs
               run == all[r]
               words == pages[i].words
    <2>1. all \in Seq(RunsOver(words, stored.text)) /\ (all # <<>> => i \notin stored.fromOcr)
      BY DEF InkInv, StoredInkLies
    <2>2. r \in 1 .. Len(all) /\ k \in 1 .. Len(run.boxes)
      OBVIOUS
    <2> HIDE DEF all, words
    <2>3. run \in RunsOver(words, stored.text) /\ all # <<>>
      BY <2>1, <2>2
    <2> HIDE DEF run
    <2>4. Shows(run.boxes[k], words, stored.text[run.start + k])
      BY <2>2, <2>3 DEF RunsOver
    <2>5. PICK w \in words : /\ run.boxes[k].word = {w}
                             /\ w.text[run.boxes[k].glyph] = stored.text[run.start + k]
      BY <2>4 DEF Shows
    <2> QED
      BY <2>1, <2>3, <2>5 DEF run, all, words
  <1> QED
    BY <1>1, <1>2, InkInvKept, PTL DEF DocSpec
=============================================================================
