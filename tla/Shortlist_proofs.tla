-------------------------- MODULE Shortlist_proofs --------------------------
(***************************************************************************)
(* Theorems about Shortlist and Ranking, for any screenings, requirements, *)
(* weights and requests that edit them.                                    *)
(***************************************************************************)
EXTENDS Shortlist, FiniteSetTheorems, WellFoundedInduction, TLAPS

-----------------------------------------------------------------------------
(* Finite sets: induction over their subsets, and the ranks an order gives *)
(* their members.                                                          *)

\* Induction with a set of good subsets in the place of a predicate.
LEMMA FiniteSubsetInduction ==
    ASSUME NEW S, IsFiniteSet(S), NEW Good,
           \A T \in SUBSET S : (\A U \in SUBSET T : U # T => U \in Good) => T \in Good
    PROVE  \A T \in SUBSET S : T \in Good
  <1> DEFINE Bad == {T \in SUBSET S : T \notin Good}
  <1>1. SUFFICES ASSUME Bad # {} PROVE FALSE
    OBVIOUS
  <1>2. IsWellFoundedOn(StrictSubsetOrdering(S), SUBSET S)
    BY FS_StrictSubsetOrderingWellFounded, FS_FiniteSubsetsOfFinite
  <1> HIDE DEF Bad
  <1>3. Bad \subseteq SUBSET S
    BY DEF Bad
  <1>4. PICK T \in Bad : \A U \in Bad : ~ (<<U, T>> \in StrictSubsetOrdering(S))
    BY <1>1, <1>2, <1>3, WFMin
  <1>5. T \in SUBSET S /\ T \notin Good
    BY <1>4 DEF Bad
  <1>6. \A U \in SUBSET T : U # T => U \in Good
    BY <1>4, <1>5 DEF Bad, StrictSubsetOrdering
  <1> QED
    BY <1>5, <1>6

\* A non-empty finite set of numbers has a greatest one.
LEMMA GreatestExists ==
    ASSUME NEW S \in SUBSET Nat, IsFiniteSet(S), S # {}
    PROVE  Max(S) \in S /\ \A n \in S : n <= Max(S)
  <1> DEFINE Good == {T \in SUBSET S : T # {} => \E m \in T : \A n \in T : n <= m}
  <1>1. ASSUME NEW T \in SUBSET S, \A U \in SUBSET T : U # T => U \in Good
        PROVE  T \in Good
    <2> SUFFICES ASSUME NEW t \in T PROVE \E m \in T : \A n \in T : n <= m
      OBVIOUS
    <2>1. T \ {t} \in Good
      BY <1>1
    <2>2. CASE T \ {t} = {}
      BY <2>2
    <2>3. CASE T \ {t} # {}
      <3>1. PICK m \in T \ {t} : \A n \in T \ {t} : n <= m
        BY <2>1, <2>3
      <3>2. m \in Nat /\ t \in Nat /\ \A n \in T : n \in Nat
        OBVIOUS
      <3>3. CASE t <= m
        BY <3>1, <3>3
      <3>4. CASE m < t
        <4>1. \A n \in T : n <= t
          BY <3>1, <3>2, <3>4
        <4> QED
          BY <4>1
      <3> QED
        BY <3>2, <3>3, <3>4
    <2> QED
      BY <2>2, <2>3
  <1> HIDE DEF Good
  <1>2. S \in Good
    BY <1>1, FiniteSubsetInduction
  <1>3. \E m \in S : \A n \in S : n <= m
    BY <1>2 DEF Good
  <1>4. \E m \in S : \A n \in S : m >= n
    BY <1>3
  <1> QED
    BY <1>4 DEF Max

StrictlyOrders(R, S) ==
    /\ \A x \in S : <<x, x>> \notin R
    /\ \A x, y, z \in S : <<x, y>> \in R /\ <<y, z>> \in R => <<x, z>> \in R
    /\ \A x, y \in S : x = y \/ <<x, y>> \in R \/ <<y, x>> \in R

\* Counting what comes before it gives each member of a finite set a place of
\* its own, and leaves no place free.
LEMMA RanksOfAnOrder ==
    ASSUME NEW S, IsFiniteSet(S), NEW R, StrictlyOrders(R, S), NEW rank,
           rank = [x \in S |-> 1 + Cardinality({o \in S : <<o, x>> \in R})]
    PROVE  /\ Cardinality(S) \in Nat
           /\ rank \in Bijection(S, 1 .. Cardinality(S))
  <1> DEFINE Below(x) == {o \in S : <<o, x>> \in R}
             n == Cardinality(S)
  <1>1. n \in Nat
    BY FS_CardinalityType
  <1>2. ASSUME NEW x \in S
        PROVE  /\ IsFiniteSet(Below(x)) /\ Cardinality(Below(x)) \in Nat
               /\ Cardinality(Below(x)) < n
    <2>1. Below(x) \in SUBSET S /\ Below(x) # S
      BY DEF StrictlyOrders
    <2>2. /\ IsFiniteSet(Below(x)) /\ Cardinality(Below(x)) <= n
          /\ n # Cardinality(Below(x))
      BY <2>1, FS_Subset
    <2>3. Cardinality(Below(x)) \in Nat
      BY <2>2, FS_CardinalityType
    <2> QED
      BY <1>1, <2>2, <2>3
  <1>3. ASSUME NEW x \in S, NEW y \in S, <<x, y>> \in R
        PROVE  Cardinality(Below(x)) < Cardinality(Below(y))
    <2>1. Below(x) \in SUBSET Below(y) /\ Below(x) # Below(y)
      BY <1>3 DEF StrictlyOrders
    <2>2. /\ Cardinality(Below(x)) <= Cardinality(Below(y))
          /\ Cardinality(Below(y)) # Cardinality(Below(x))
      BY <1>2, <2>1, FS_Subset
    <2>3. Cardinality(Below(x)) \in Nat /\ Cardinality(Below(y)) \in Nat
      BY <1>2
    <2> HIDE DEF Below
    <2> QED
      BY <2>2, <2>3
  <1> DEFINE below == [x \in S |-> Cardinality(Below(x))]
  <1>4. /\ rank = [x \in S |-> 1 + below[x]]
        /\ \A x \in S : below[x] \in Nat /\ below[x] < n
        /\ \A x, y \in S : <<x, y>> \in R => below[x] < below[y]
    BY <1>2, <1>3
  <1>5. rank \in Injection(S, 1 .. n)
    <2> HIDE DEF below, n
    <2>1. \A x \in S : rank[x] = 1 + below[x] /\ rank[x] \in 1 .. n
      BY <1>1, <1>4
    <2>2. rank \in [S -> 1 .. n]
      BY <1>4, <2>1
    <2>3. ASSUME NEW x \in S, NEW y \in S, rank[x] = rank[y] PROVE x = y
      <3>1. below[x] \in Nat /\ below[y] \in Nat /\ below[x] = below[y]
        BY <1>4, <2>1, <2>3
      <3>2. <<x, y>> \notin R /\ <<y, x>> \notin R
        BY <1>4, <3>1
      <3> QED
        BY <3>2 DEF StrictlyOrders
    <2> QED
      BY <2>2, <2>3 DEF Injection, IsInjective
  <1>6. IsFiniteSet(1 .. n) /\ Cardinality(1 .. n) = n
    BY <1>1, FS_Interval
  <1>7. rank \in Surjection(S, 1 .. n)
    BY <1>5, <1>6, FS_Injection
  <1> QED
    BY <1>1, <1>5, <1>7 DEF Bijection

-----------------------------------------------------------------------------
(* The sum of some requirements' weights, which the library adds up one    *)
(* chosen requirement after another.                                       *)

Chosen(I) == CHOOSE i \in I : TRUE

\* `sum` adds up the weights of every subset of `all` this way.
Sums(sum, specs, all) ==
    \A I \in SUBSET all :
        sum[I] = IF I = {} THEN 0 ELSE specs[Chosen(I)].weight + sum[I \ {Chosen(I)}]

LEMMA ChosenIsMember ==
    ASSUME NEW I, I # {}
    PROVE  Chosen(I) \in I /\ I \ {Chosen(I)} \in SUBSET I /\ I \ {Chosen(I)} # I
  BY DEF Chosen

LEMMA SumsAgree ==
    ASSUME NEW specs, NEW all, IsFiniteSet(all), NEW f, NEW g,
           Sums(f, specs, all), Sums(g, specs, all)
    PROVE  \A I \in SUBSET all : f[I] = g[I]
  <1> DEFINE Good == {I \in SUBSET all : f[I] = g[I]}
  <1>1. ASSUME NEW I \in SUBSET all, \A J \in SUBSET I : J # I => J \in Good
        PROVE  I \in Good
    <2>1. CASE I = {}
      BY <2>1 DEF Sums
    <2>2. CASE I # {}
      <3>1. I \ {Chosen(I)} \in Good
        BY <1>1, <2>2, ChosenIsMember
      <3> QED
        BY <2>2, <3>1 DEF Sums
    <2> QED
      BY <2>1, <2>2
  <1> HIDE DEF Good
  <1>2. \A I \in SUBSET all : I \in Good
    BY <1>1, FiniteSubsetInduction
  <1> QED
    BY <1>2 DEF Good

\* There is such a function: the recursion the library writes down is sound.
LEMMA SumsExist ==
    ASSUME NEW specs, NEW all, IsFiniteSet(all)
    PROVE  \E f : Sums(f, specs, all)
  <1> DEFINE Good == {I \in SUBSET all : \E f : Sums(f, specs, I)}
  <1>1. ASSUME NEW I \in SUBSET all, \A J \in SUBSET I : J # I => J \in Good
        PROVE  I \in Good
    <2> DEFINE of == [J \in SUBSET I |-> CHOOSE f : Sums(f, specs, J)]
               g == [J \in SUBSET I |->
                       IF J = {} THEN 0
                       ELSE specs[Chosen(J)].weight + of[J \ {Chosen(J)}][J \ {Chosen(J)}]]
    <2>1. \A J \in SUBSET I : J # I => Sums(of[J], specs, J)
      BY <1>1
    <2> HIDE DEF of
    <2>2. ASSUME NEW J \in SUBSET I, J # I PROVE g[J] = of[J][J]
      <3>1. CASE J = {}
        BY <2>1, <2>2, <3>1 DEF Sums
      <3>2. CASE J # {}
        <4> DEFINE K == J \ {Chosen(J)}
        <4>1. K \in SUBSET J /\ K \in SUBSET I /\ K # I
          BY <2>2, <3>2, ChosenIsMember
        <4>2. Sums(of[J], specs, K) /\ Sums(of[K], specs, K)
          BY <2>1, <2>2, <4>1 DEF Sums
        <4>3. IsFiniteSet(K)
          BY <4>1, FS_Subset
        <4> HIDE DEF K
        <4>4. of[J][K] = of[K][K]
          BY <4>2, <4>3, SumsAgree
        <4>5. of[J][J] = specs[Chosen(J)].weight + of[J][K]
          BY <2>1, <2>2, <3>2 DEF Sums, K
        <4> QED
          BY <3>2, <4>4, <4>5 DEF K
      <3> QED
        BY <3>1, <3>2
    <2>3. Sums(g, specs, I)
      <3> SUFFICES ASSUME NEW J \in SUBSET I
                   PROVE  g[J] = IF J = {} THEN 0
                                 ELSE specs[Chosen(J)].weight + g[J \ {Chosen(J)}]
        BY DEF Sums
      <3>1. CASE J # {}
        <4>1. J \ {Chosen(J)} \in SUBSET I /\ J \ {Chosen(J)} # I
          BY <3>1, ChosenIsMember
        <4>2. g[J \ {Chosen(J)}] = of[J \ {Chosen(J)}][J \ {Chosen(J)}]
          BY <2>2, <4>1
        <4> QED
          BY <3>1, <4>2
      <3> QED
        BY <3>1
    <2> QED
      BY <2>3
  <1> HIDE DEF Good
  <1>2. all \in Good
    BY <1>1, FiniteSubsetInduction
  <1> QED
    BY <1>2 DEF Good

\* Weight is the value of such a function.
LEMMA WeightIsASum ==
    ASSUME NEW specs, NEW all, IsFiniteSet(all)
    PROVE  \E f : Sums(f, specs, all) /\ \A I \in SUBSET all : Weight(specs, I) = f[I]
  <1> DEFINE Added(g, I) ==
               g = [J \in SUBSET I |->
                      IF J = {} THEN 0
                      ELSE specs[CHOOSE i \in J : TRUE].weight + g[J \ {CHOOSE i \in J : TRUE}]]
  <1>1. PICK f : Sums(f, specs, all)
    BY SumsExist
  <1>2. ASSUME NEW I \in SUBSET all
        PROVE  Weight(specs, I) = f[I]
    <2> DEFINE h == [J \in SUBSET I |-> f[J]]
               g == CHOOSE g : Added(g, I)
    <2>1. Added(h, I)
      BY <1>1, ChosenIsMember DEF Sums, Chosen
    <2>2. Added(g, I)
      <3> HIDE DEF h, Added
      <3> QED
        BY <2>1
    <2>3. Weight(specs, I) = g[I]
      BY DEF Weight, MapThenSumSet, MapThenFoldSet
    <2>4. Sums(g, specs, I)
      <3> HIDE DEF g
      <3> QED
        BY <2>2, ChosenIsMember DEF Sums, Chosen
    <2>5. Sums(f, specs, I) /\ IsFiniteSet(I)
      BY <1>1, FS_Subset DEF Sums
    <2> HIDE DEF g
    <2>6. g[I] = f[I]
      BY <2>4, <2>5, SumsAgree
    <2> QED
      BY <2>3, <2>6
  <1> QED
    BY <1>1, <1>2

Weighted(specs, I) == \A i \in I : specs[i].weight \in Nat

LEMMA SumsAreNumbers ==
    ASSUME NEW specs, NEW all, IsFiniteSet(all), Weighted(specs, all),
           NEW f, Sums(f, specs, all)
    PROVE  \A I \in SUBSET all : f[I] \in Nat
  <1> DEFINE Good == {I \in SUBSET all : f[I] \in Nat}
  <1>1. ASSUME NEW I \in SUBSET all, \A J \in SUBSET I : J # I => J \in Good
        PROVE  I \in Good
    <2> SUFFICES f[I] \in Nat
      OBVIOUS
    <2>1. CASE I = {}
      <3>1. f[I] = 0
        BY <2>1 DEF Sums
      <3> QED
        BY <3>1
    <2>2. CASE I # {}
      <3>1. f[I \ {Chosen(I)}] \in Nat /\ specs[Chosen(I)].weight \in Nat
        BY <1>1, <2>2, ChosenIsMember DEF Weighted
      <3>2. f[I] = specs[Chosen(I)].weight + f[I \ {Chosen(I)}]
        BY <2>2 DEF Sums
      <3> QED
        BY <3>1, <3>2
    <2> QED
      BY <2>1, <2>2
  <1> HIDE DEF Good
  <1>2. \A I \in SUBSET all : I \in Good
    BY <1>1, FiniteSubsetInduction
  <1> QED
    BY <1>2 DEF Good

\* Whichever requirement is taken first, the sum is the same.
LEMMA AnyMayComeFirst ==
    ASSUME NEW specs, NEW all, IsFiniteSet(all), Weighted(specs, all),
           NEW f, Sums(f, specs, all)
    PROVE  \A I \in SUBSET all : \A i \in I : f[I] = specs[i].weight + f[I \ {i}]
  <1> DEFINE Good == {I \in SUBSET all : \A i \in I : f[I] = specs[i].weight + f[I \ {i}]}
  <1>0. \A I \in SUBSET all : f[I] \in Nat
    BY SumsAreNumbers
  <1>1. ASSUME NEW I \in SUBSET all, \A J \in SUBSET I : J # I => J \in Good
        PROVE  I \in Good
    <2> SUFFICES ASSUME NEW i \in I PROVE f[I] = specs[i].weight + f[I \ {i}]
      OBVIOUS
    <2> DEFINE c == Chosen(I)
    <2>1. c \in I /\ f[I] = specs[c].weight + f[I \ {c}]
      BY ChosenIsMember DEF Sums
    <2> HIDE DEF c
    <2>2. CASE i # c
      <3>1. I \ {c} \in Good /\ I \ {i} \in Good
        BY <1>1, <2>1
      <3>2. /\ f[I \ {c}] = specs[i].weight + f[(I \ {c}) \ {i}]
            /\ f[I \ {i}] = specs[c].weight + f[(I \ {i}) \ {c}]
        BY <2>1, <2>2, <3>1
      <3> DEFINE rest == f[(I \ {c}) \ {i}]
                 wc == specs[c].weight
                 wi == specs[i].weight
      <3>3. (I \ {c}) \ {i} = (I \ {i}) \ {c}
        OBVIOUS
      <3>4. f[I] = wc + (wi + rest) /\ f[I \ {i}] = wc + rest
        BY <2>1, <3>2, <3>3
      <3>5. rest \in Nat /\ wc \in Nat /\ wi \in Nat
        BY <1>0, <2>1 DEF Weighted
      <3> HIDE DEF rest, wc, wi
      <3>6. f[I] = wi + f[I \ {i}]
        BY <3>4, <3>5
      <3> QED
        BY <3>6 DEF wi
    <2> QED
      BY <2>1, <2>2
  <1> HIDE DEF Good
  <1>2. \A I \in SUBSET all : I \in Good
    BY <1>1, FiniteSubsetInduction
  <1> QED
    BY <1>2 DEF Good

\* More requirements weigh no less.
LEMMA SumsGrow ==
    ASSUME NEW specs, NEW all, IsFiniteSet(all), Weighted(specs, all),
           NEW f, Sums(f, specs, all), NEW part \in SUBSET all
    PROVE  f[part] <= f[all]
  <1> DEFINE Good == {I \in SUBSET all : part \subseteq I => f[part] <= f[I]}
  <1>0. \A I \in SUBSET all : f[I] \in Nat
    BY SumsAreNumbers
  <1>1. ASSUME NEW I \in SUBSET all, \A J \in SUBSET I : J # I => J \in Good
        PROVE  I \in Good
    <2>1. CASE part \subseteq I /\ part # I
      <3>1. PICK i \in I : i \notin part
        BY <2>1
      <3>2. I \ {i} \in Good /\ part \subseteq I \ {i}
        BY <1>1, <2>1, <3>1
      <3>3. f[I] = specs[i].weight + f[I \ {i}]
        BY AnyMayComeFirst
      <3>4. /\ f[I] \in Nat /\ f[I \ {i}] \in Nat /\ f[part] \in Nat
            /\ specs[i].weight \in Nat
        BY <1>0 DEF Weighted
      <3> QED
        BY <3>2, <3>3, <3>4
    <2>2. CASE part = I
      BY <1>0, <2>2
    <2> QED
      BY <2>1, <2>2
  <1> HIDE DEF Good
  <1>2. \A I \in SUBSET all : I \in Good
    BY <1>1, FiniteSubsetInduction
  <1> QED
    BY <1>2 DEF Good

LEMMA QuotientIsBounded ==
    ASSUME NEW a \in Nat, NEW b \in Nat \ {0}, NEW c \in Nat, a < b * (c + 1)
    PROVE  a \div b \in Nat /\ a \div b <= c
  <1> DEFINE q == a \div b
  <1>1. q \in Int /\ b * q <= a /\ a < b * (q + 1)
    OBVIOUS
  <1> HIDE DEF q
  <1>2. \A x, y \in Int : b * x < b * y => x < y
    OBVIOUS
  <1>3. b * 0 = 0 /\ b * 0 < b * (q + 1) /\ b * q < b * (c + 1)
    BY <1>1
  <1>4. 0 < q + 1 /\ q < c + 1
    BY <1>1, <1>2, <1>3
  <1> QED
    BY <1>1, <1>4 DEF q

\* A score is a share of the weight asked for: a number from nothing to one,
\* in millionths, whichever requirements are met.
THEOREM ScoreIsAShare ==
    ASSUME NEW specs, IsFiniteSet(DOMAIN specs), Weighted(specs, DOMAIN specs),
           NEW met \in SUBSET DOMAIN specs
    PROVE  /\ Score(Weight(specs, met), Weight(specs, DOMAIN specs)) \in Nat
           /\ Score(Weight(specs, met), Weight(specs, DOMAIN specs)) <= 1000000
  <1>1. PICK f : /\ Sums(f, specs, DOMAIN specs)
                 /\ \A I \in SUBSET DOMAIN specs : Weight(specs, I) = f[I]
    BY WeightIsASum
  <1> DEFINE m == Weight(specs, met)
             t == Weight(specs, DOMAIN specs)
  <1>2. m \in Nat /\ t \in Nat /\ m <= t
    BY <1>1, SumsAreNumbers, SumsGrow
  <1> HIDE DEF m, t
  <1>3. Score(m, t) \in Nat /\ Score(m, t) <= 1000000
    <2>1. CASE t = 0
      <3>1. Score(m, t) = 0
        BY <2>1, SMT DEF Score
      <3> QED
        BY <3>1, SMT
    <2>2. CASE t # 0
      <3> DEFINE a == 2000000 * m + t
                 b == 2 * t
      <3>1. a \in Nat /\ b \in Nat \ {0} /\ a < b * (1000000 + 1)
        BY <1>2, <2>2, SMT
      <3>2. Score(m, t) = a \div b
        BY <2>2, SMT DEF Score
      <3> HIDE DEF a, b
      <3>3. a \div b \in Nat /\ a \div b <= 1000000
        BY <3>1, QuotientIsBounded, SMT
      <3> QED
        BY <3>2, <3>3, SMT
    <2> QED
      BY <2>1, <2>2, SMT
  <1> QED
    BY <1>3, SMT DEF m, t

-----------------------------------------------------------------------------
(* requirement_specs: every row of a table once, in the order of positions. *)

\* A table of requirements, whatever the bound on their numbers.
Typed(table) ==
    /\ table \in [DOMAIN table -> Row]
    /\ DOMAIN table \subseteq Nat /\ IsFiniteSet(DOMAIN table)

Place(table, id) == 1 + Cardinality({other \in DOMAIN table : Earlier(table, other, id)})

\* Positions may be shared; the places that follow from them are not.
LEMMA PlacesAreTaken ==
    ASSUME NEW table, Typed(table)
    PROVE  /\ Cardinality(DOMAIN table) \in Nat
           /\ \A i \in 1 .. Cardinality(DOMAIN table) :
                \E id \in DOMAIN table : Place(table, id) = i
           /\ \A a, b \in DOMAIN table : Place(table, a) = Place(table, b) => a = b
  <1> DEFINE D == DOMAIN table
             R == {p \in D \X D : Earlier(table, p[1], p[2])}
             rank == [x \in D |-> 1 + Cardinality({o \in D : <<o, x>> \in R})]
  <1>1. \A x \in D : x \in Nat /\ table[x].position \in Nat
    BY DEF Typed, Row
  <1>2. \A x, y \in D : <<x, y>> \in R <=> Earlier(table, x, y)
    OBVIOUS
  <1>3. StrictlyOrders(R, D)
    <2> HIDE DEF D, R
    <2> QED
      BY <1>1, <1>2 DEF StrictlyOrders, Earlier
  <1>4. \A x \in D : rank[x] = Place(table, x)
    <2> SUFFICES ASSUME NEW x \in D PROVE rank[x] = Place(table, x)
      OBVIOUS
    <2>1. {o \in D : <<o, x>> \in R} = {other \in D : Earlier(table, other, x)}
      BY <1>2
    <2> QED
      BY <2>1 DEF Place
  <1>5. Cardinality(D) \in Nat /\ rank \in Bijection(D, 1 .. Cardinality(D))
    <2>1. IsFiniteSet(D)
      BY DEF Typed
    <2> HIDE DEF D, R
    <2> QED
      BY <1>3, <2>1, RanksOfAnOrder
  <1> HIDE DEF rank
  <1> QED
    BY <1>4, <1>5 DEF Bijection, Injection, IsInjective, Surjection

LEMMA SpecsOfATable ==
    ASSUME NEW table, Typed(table), NEW specs, specs = RequirementSpecs(table)
    PROVE  /\ specs \in Seq(Specs)
           /\ Len(specs) = Cardinality(DOMAIN table)
           /\ DOMAIN specs = 1 .. Cardinality(DOMAIN table)
           /\ \A i \in DOMAIN specs :
                /\ specs[i].id \in DOMAIN table
                /\ specs[i].question = table[specs[i].id].question
                /\ Place(table, specs[i].id) = i
  <1> DEFINE n == Cardinality(DOMAIN table)
             at(i) == CHOOSE id \in DOMAIN table : Place(table, id) = i
  <1>1. n \in Nat /\ \A i \in 1 .. n : at(i) \in DOMAIN table /\ Place(table, at(i)) = i
    BY PlacesAreTaken
  <1>2. specs = [i \in 1 .. n |->
                   [id |-> at(i), question |-> table[at(i)].question,
                    must |-> table[at(i)].must, weight |-> table[at(i)].weight]]
    BY DEF RequirementSpecs, Place
  <1> HIDE DEF n, at
  <1>3. \A i \in 1 .. n : specs[i] \in Specs
    <2> SUFFICES ASSUME NEW i \in 1 .. n PROVE specs[i] \in Specs
      OBVIOUS
    <2>1. at(i) \in Nat /\ table[at(i)] \in Row
      BY <1>1 DEF Typed
    <2> QED
      BY <1>2, <2>1 DEF Specs, Row
  <1>4. specs \in [1 .. n -> Specs]
    BY <1>2, <1>3
  <1>5. specs \in Seq(Specs) /\ Len(specs) = n /\ DOMAIN specs = 1 .. n
    BY <1>1, <1>4
  <1>6. \A i \in 1 .. n :
           /\ specs[i].id \in DOMAIN table
           /\ specs[i].question = table[specs[i].id].question
           /\ Place(table, specs[i].id) = i
    BY <1>1, <1>2
  <1> QED
    BY <1>5, <1>6 DEF n

\* What the model is asked depends on positions and questions alone.
LEMMA AskedTheSame ==
    ASSUME NEW old, Typed(old), NEW new, Typed(new), DOMAIN old = DOMAIN new,
           \A id \in DOMAIN old : /\ old[id].position = new[id].position
                                  /\ old[id].question = new[id].question
    PROVE  /\ Fingerprint(RequirementSpecs(old)) = Fingerprint(RequirementSpecs(new))
           /\ Len(RequirementSpecs(old)) = Len(RequirementSpecs(new))
  <1> DEFINE n == Cardinality(DOMAIN old)
             s == RequirementSpecs(old)
             t == RequirementSpecs(new)
  <1>1. /\ DOMAIN s = 1 .. n /\ Len(s) = n
        /\ \A i \in 1 .. n : /\ s[i].id \in DOMAIN old
                             /\ s[i].question = old[s[i].id].question
                             /\ Place(old, s[i].id) = i
    BY SpecsOfATable
  <1>2. /\ DOMAIN t = 1 .. n /\ Len(t) = n
        /\ \A i \in 1 .. n : /\ t[i].id \in DOMAIN old
                             /\ t[i].question = new[t[i].id].question
                             /\ Place(new, t[i].id) = i
    BY SpecsOfATable
  <1>3. \A id \in DOMAIN old : Place(old, id) = Place(new, id)
    <2> SUFFICES ASSUME NEW id \in DOMAIN old PROVE Place(old, id) = Place(new, id)
      OBVIOUS
    <2>1. {other \in DOMAIN old : Earlier(old, other, id)}
            = {other \in DOMAIN new : Earlier(new, other, id)}
      BY DEF Earlier
    <2> QED
      BY <2>1 DEF Place
  <1> HIDE DEF n, s, t
  <1>4. \A i \in 1 .. n : s[i].id = t[i].id
    BY <1>1, <1>2, <1>3, PlacesAreTaken
  <1>5. \A i \in 1 .. n : s[i].question = t[i].question
    BY <1>1, <1>2, <1>4
  <1>6. Fingerprint(s) = Fingerprint(t)
    BY <1>1, <1>2, <1>5 DEF Fingerprint
  <1> QED
    BY <1>1, <1>2, <1>6 DEF s, t

-----------------------------------------------------------------------------
(* Types                                                                   *)

LEMMA TableIsTyped ==
    ASSUME ShortlistTypeOK, NEW table, IsTable(table)
    PROVE  Typed(table)
  <1>1. inserted \in Nat
    BY ShortlistAssumption DEF ShortlistTypeOK
  <1>2. IsFiniteSet(1 .. inserted)
    BY <1>1, FS_Interval
  <1>3. DOMAIN table \in SUBSET (1 .. inserted)
    BY DEF IsTable
  <1>4. IsFiniteSet(DOMAIN table)
    BY <1>2, <1>3, FS_Subset
  <1> QED
    BY <1>1, <1>3, <1>4 DEF IsTable, Typed

\* A later table is one by the later count.
LEMMA TablesStayTables ==
    ASSUME ShortlistTypeOK, inserted' \in Nat, inserted <= inserted',
           NEW table, IsTable(table)
    PROVE  /\ DOMAIN table \subseteq 1 .. inserted'
           /\ table \in [DOMAIN table -> Row]
  BY ShortlistAssumption DEF ShortlistTypeOK, IsTable

\* add_requirement appends after the last position there is.
LEMMA NextPosition ==
    ASSUME NEW table, Typed(table)
    PROVE  Max({table[i].position + 1 : i \in DOMAIN table} \cup {0}) \in Nat
  <1> DEFINE D == DOMAIN table
             f == [i \in D |-> table[i].position + 1]
             P == {table[i].position + 1 : i \in D}
  <1>1. f \in Surjection(D, P)
    BY DEF Surjection
  <1>2. IsFiniteSet(P)
    BY <1>1, FS_Surjection DEF Typed
  <1>3. IsFiniteSet(P \cup {0})
    BY <1>2, FS_AddElement
  <1>4. P \cup {0} \in SUBSET Nat
    BY DEF Typed, Row
  <1> HIDE DEF P
  <1>5. Max(P \cup {0}) \in P \cup {0}
    BY <1>3, <1>4, GreatestExists
  <1> QED
    BY <1>4, <1>5 DEF P

\* What the model answers is finite, and so is what is dropped of it.
LEMMA AnswersAreFinite ==
    ASSUME NEW n \in Nat, NEW raw \in RawJudgments(n), NEW specs
    PROVE  Cardinality(Dropped(raw, specs)) \in Nat
  <1>1. PICK good \in SUBSET ((1 .. n) \X {"located"}),
             bad \in {{}, {<<n, "absent">>}, {<<n + 1, "located">>}} : raw = good \cup bad
    BY DEF RawJudgments
  <1>2. IsFiniteSet(1 .. n) /\ IsFiniteSet({"located"})
    <2>1. IsFiniteSet(1 .. n)
      BY FS_Interval
    <2>2. IsFiniteSet({"located"})
      BY FS_Singleton
    <2> QED
      BY <2>1, <2>2
  <1>3. IsFiniteSet((1 .. n) \X {"located"})
    BY <1>2, FS_Product
  <1>4. IsFiniteSet(good) /\ IsFiniteSet(bad)
    BY <1>1, <1>3, FS_Subset, FS_EmptySet, FS_Singleton
  <1>5. IsFiniteSet(raw)
    BY <1>1, <1>4, FS_Union
  <1>6. Dropped(raw, specs) \in SUBSET raw
    BY DEF Dropped
  <1> QED
    BY <1>5, <1>6, FS_Subset, FS_CardinalityType

LEMMA VerifiedType ==
    ASSUME NEW n \in Nat, NEW raw \in RawJudgments(n), NEW specs \in Seq(Specs)
    PROVE  /\ Verify(raw, specs) \in [requirements: Seq(Verdicts), dropped: Nat]
           /\ DOMAIN Verify(raw, specs).requirements = DOMAIN specs
           /\ \A i \in DOMAIN specs :
                Verify(raw, specs).requirements[i].question = specs[i].question
  <1> DEFINE verdicts == [i \in DOMAIN specs |->
                            [question |-> specs[i].question,
                             met |-> <<i, "located">> \in Known(raw, specs)]]
  <1>1. DOMAIN specs = 1 .. Len(specs) /\ Len(specs) \in Nat
    OBVIOUS
  <1>2. \A i \in DOMAIN specs : verdicts[i] \in Verdicts
    <2> SUFFICES ASSUME NEW i \in DOMAIN specs PROVE verdicts[i] \in Verdicts
      OBVIOUS
    <2>1. specs[i].question \in Questions
      <3>1. specs[i] \in Specs
        BY <1>1
      <3> QED
        BY <3>1 DEF Specs
    <2>2. (<<i, "located">> \in Known(raw, specs)) \in BOOLEAN
      OBVIOUS
    <2> QED
      BY <2>1, <2>2 DEF Verdicts
  <1>3. verdicts \in Seq(Verdicts)
    <2> HIDE DEF Verdicts
    <2>1. verdicts \in [1 .. Len(specs) -> Verdicts]
      BY <1>1, <1>2
    <2> HIDE DEF verdicts
    <2> QED
      BY <1>1, <2>1
  <1>4. Verify(raw, specs) = [requirements |-> verdicts,
                              dropped |-> Cardinality(Dropped(raw, specs))]
    BY DEF Verify
  <1>5. Cardinality(Dropped(raw, specs)) \in Nat
    BY AnswersAreFinite
  <1>6. \A i \in DOMAIN specs : verdicts[i].question = specs[i].question
    OBVIOUS
  <1>7. DOMAIN verdicts = DOMAIN specs
    OBVIOUS
  <1> HIDE DEF verdicts
  <1> QED
    BY <1>3, <1>4, <1>5, <1>6, <1>7

LEMMA FingerprintType ==
    ASSUME NEW specs \in Seq(Specs)
    PROVE  Fingerprint(specs) \in Seq(Questions)
  <1>1. \A i \in 1 .. Len(specs) : specs[i].question \in Questions
    <2>1. \A i \in 1 .. Len(specs) : specs[i] \in Specs
      OBVIOUS
    <2> QED
      BY <2>1 DEF Specs
  <1>2. Fingerprint(specs) \in [1 .. Len(specs) -> Questions]
    BY <1>1 DEF Fingerprint
  <1> QED
    BY <1>2

LEMMA NothingYetType ==
    /\ NoJudgment \in [requirements: Seq(Verdicts), dropped: Nat]
    /\ Unscreened \in ScreeningRows
  <1>1. <<>> \in Seq(Verdicts) /\ <<>> \in Seq(Questions) /\ <<>> \in Seq(Specs)
    OBVIOUS
  <1>2. 0 \in 0 .. MaxAttempts
    BY ShortlistAssumption
  <1> QED
    BY <1>1, <1>2 DEF NoJudgment, Unscreened, ScreeningRows, NoSpecs

LEMMA ShortlistTypeInit == ShortlistInit => ShortlistTypeOK
  <1> SUFFICES ASSUME ShortlistInit PROVE ShortlistTypeOK
    OBVIOUS
  <1>1. IsTable(rows)
    <2>1. DOMAIN rows = 1 .. 2 /\ inserted = 2
      BY DEF ShortlistInit
    <2>2. ASSUME NEW i \in 1 .. 2 PROVE rows[i] \in Row
      <3>1. i \in {1, 2} /\ i - 1 \in Nat
        OBVIOUS
      <3> QED
        BY <3>1, ShortlistAssumption DEF ShortlistInit, Row
    <2>3. rows \in [DOMAIN rows -> Row]
      BY <2>1, <2>2 DEF ShortlistInit
    <2> QED
      BY <2>1, <2>3 DEF IsTable
  <1>2. /\ edit = [e \in Editors |-> [on |-> edit[e].on, read |-> edit[e].read]]
        /\ \A e \in Editors : edit[e].on \in BOOLEAN /\ IsTable(edit[e].read)
    <2>1. IsTable(<<>>)
      BY DEF IsTable
    <2> QED
      BY <2>1 DEF ShortlistInit, NoEdit
  <1>3. screening \in [Screenings -> ScreeningRows]
    BY NothingYetType DEF ShortlistInit
  <1> QED
    BY <1>1, <1>2, <1>3, ShortlistAssumption DEF ShortlistTypeOK, ShortlistInit

\* What a committed edit leaves, once the table it writes is a table again.
LEMMA CommitKeepsTypes ==
    ASSUME ShortlistTypeOK, NEW e \in Editors, Committed(e),
           inserted' \in inserted .. MaxRows,
           DOMAIN rows' \subseteq 1 .. inserted', rows' \in [DOMAIN rows' -> Row]
    PROVE  ShortlistTypeOK'
  <1>1. inserted \in 2 .. MaxRows /\ MaxRows \in Nat /\ MaxEdits \in Nat
    BY ShortlistAssumption DEF ShortlistTypeOK
  <1>2. \A table : IsTable(table) => /\ DOMAIN table \subseteq 1 .. inserted'
                                     /\ table \in [DOMAIN table -> Row]
    BY <1>1, TablesStayTables
  <1>3. edits' \in 0 .. MaxEdits
    BY <1>1 DEF ShortlistTypeOK, Committed
  <1>4. edit' = [edit EXCEPT ![e] = [on |-> FALSE, read |-> <<>>]]
    BY DEF Committed, NoEdit
  <1>5. \A f \in Editors : /\ edit'[f] = [on |-> edit'[f].on, read |-> edit'[f].read]
                           /\ edit'[f].on \in BOOLEAN
                           /\ DOMAIN edit'[f].read \subseteq 1 .. inserted'
                           /\ edit'[f].read \in [DOMAIN edit'[f].read -> Row]
    <2> SUFFICES ASSUME NEW f \in Editors
                 PROVE  /\ edit'[f] = [on |-> edit'[f].on, read |-> edit'[f].read]
                        /\ edit'[f].on \in BOOLEAN
                        /\ DOMAIN edit'[f].read \subseteq 1 .. inserted'
                        /\ edit'[f].read \in [DOMAIN edit'[f].read -> Row]
      OBVIOUS
    <2>1. CASE f = e
      <3>1. edit'[f] = [on |-> FALSE, read |-> <<>>]
        BY <1>4, <2>1 DEF ShortlistTypeOK
      <3> QED
        BY <3>1
    <2>2. CASE f # e
      <3>1. edit'[f] = edit[f]
        BY <1>4, <2>2 DEF ShortlistTypeOK
      <3> QED
        BY <1>2, <3>1 DEF ShortlistTypeOK
    <2> QED
      BY <2>1, <2>2
  <1>6. edit' = [f \in Editors |-> [on |-> edit'[f].on, read |-> edit'[f].read]]
    <2>1. edit' = [f \in Editors |-> edit'[f]]
      BY <1>4 DEF ShortlistTypeOK
    <2> QED
      BY <1>5, <2>1
  <1>7. IsTable(rows)' /\ \A f \in Editors : edit'[f].on \in BOOLEAN /\ IsTable(edit[f].read)'
    BY <1>5 DEF IsTable
  <1>8. /\ judgings' \in 0 .. MaxJudgings /\ version' \in Nat
        /\ screening' \in [Screenings -> ScreeningRows]
    BY DEF ShortlistTypeOK, Committed
  <1>9. inserted' \in 2 .. MaxRows
    BY <1>1
  <1> QED
    BY <1>3, <1>6, <1>7, <1>8, <1>9 DEF ShortlistTypeOK

LEMMA EditKeepsTypes ==
    ASSUME ShortlistTypeOK, NEW e \in Editors, EditStep(e)
    PROVE  ShortlistTypeOK'
  <1>1. inserted \in 2 .. MaxRows /\ MaxRows \in Nat /\ inserted \in inserted .. MaxRows
    BY ShortlistAssumption DEF ShortlistTypeOK
  <1>2. /\ DOMAIN rows \subseteq 1 .. inserted /\ rows \in [DOMAIN rows -> Row]
        /\ IsTable(edit[e].read)
    BY DEF ShortlistTypeOK, IsTable
  <1>3. CASE Load(e)
    <2>1. edit' = [edit EXCEPT ![e] = [on |-> TRUE, read |-> rows]]
      BY <1>3 DEF Load
    <2>2. edit' = [f \in Editors |-> [on |-> edit'[f].on, read |-> edit'[f].read]]
      BY <2>1 DEF ShortlistTypeOK
    <2>3. \A f \in Editors : edit'[f].on \in BOOLEAN /\ IsTable(edit'[f].read)
      BY <2>1 DEF ShortlistTypeOK
    <2> QED
      BY <1>3, <2>2, <2>3 DEF ShortlistTypeOK, Load, IsTable
  <1>4. CASE Refuse(e)
    BY <1>1, <1>2, <1>4, CommitKeepsTypes DEF Refuse
  <1>5. ASSUME NEW q \in Questions, NEW k \in Stakes, Add(e, q, k) PROVE ShortlistTypeOK'
    <2> DEFINE read == edit[e].read
               position == Max({read[i].position + 1 : i \in DOMAIN read} \cup {0})
               new == [position |-> position, question |-> q, must |-> k.must,
                       weight |-> k.weight]
    <2>1. position \in Nat
      BY <1>2, TableIsTyped, NextPosition
    <2>2. rows' = [i \in DOMAIN rows \cup {inserted + 1} |->
                     IF i = inserted + 1 THEN new ELSE rows[i]]
          /\ inserted' = inserted + 1 /\ inserted < MaxRows /\ Committed(e)
      BY <1>5 DEF Add
    <2> HIDE DEF position
    <2>3. new \in Row
      BY <2>1, ShortlistAssumption DEF Row
    <2> HIDE DEF new
    <2>4. rows' \in [DOMAIN rows \cup {inserted + 1} -> Row]
      BY <1>2, <2>2, <2>3
    <2>5. DOMAIN rows' = DOMAIN rows \cup {inserted + 1}
      BY <2>2
    <2>6. DOMAIN rows' \subseteq 1 .. inserted' /\ rows' \in [DOMAIN rows' -> Row]
      BY <1>1, <1>2, <2>2, <2>4, <2>5
    <2> QED
      BY <1>1, <2>2, <2>6, CommitKeepsTypes
  <1>6. ASSUME NEW id \in DOMAIN edit[e].read, Delete(e, id) PROVE ShortlistTypeOK'
    <2>1. rows' = [i \in DOMAIN rows \ {id} |-> rows[i]] /\ inserted' = inserted /\ Committed(e)
      BY <1>6 DEF Delete
    <2>2. DOMAIN rows' \subseteq 1 .. inserted' /\ rows' \in [DOMAIN rows' -> Row]
      BY <1>2, <2>1
    <2> QED
      BY <1>1, <2>1, <2>2, CommitKeepsTypes
  <1>7. ASSUME NEW id \in DOMAIN edit[e].read, NEW change \in Patches, Patch(e, id, change)
        PROVE  ShortlistTypeOK'
    <2> DEFINE Written(f) == f \in DOMAIN change /\ change[f] # edit[e].read[id][f]
               new == [f \in DOMAIN rows[id] |-> IF Written(f) THEN change[f] ELSE rows[id][f]]
    <2>1. /\ id \in DOMAIN rows /\ inserted' = inserted /\ Committed(e)
          /\ rows' = [rows EXCEPT ![id] = new]
      BY <1>7 DEF Patch
    <2>2. new \in Row
      <3>1. /\ rows[id] \in Row
            /\ DOMAIN rows[id] = {"position", "question", "must", "weight"}
        BY <1>2, <2>1 DEF Row
      <3>2. /\ "position" \in DOMAIN change => change["position"] \in Nat
            /\ "question" \in DOMAIN change => change["question"] \in Questions
            /\ "must" \in DOMAIN change => change["must"] \in BOOLEAN
            /\ "weight" \in DOMAIN change => change["weight"] \in Nat \ {0}
        BY ShortlistAssumption DEF Patches
      <3>3. /\ rows[id]["position"] \in Nat /\ rows[id]["question"] \in Questions
            /\ rows[id]["must"] \in BOOLEAN /\ rows[id]["weight"] \in Nat \ {0}
        BY <3>1 DEF Row
      <3>4. /\ new["position"] \in Nat /\ new["question"] \in Questions
            /\ new["must"] \in BOOLEAN /\ new["weight"] \in Nat \ {0}
        BY <3>1, <3>2, <3>3
      <3>5. new = [position |-> new["position"], question |-> new["question"],
                   must |-> new["must"], weight |-> new["weight"]]
        BY <3>1
      <3> HIDE DEF new
      <3> QED
        BY <3>4, <3>5 DEF Row
    <2> HIDE DEF new
    <2>3. DOMAIN rows' \subseteq 1 .. inserted' /\ rows' \in [DOMAIN rows' -> Row]
      BY <1>2, <2>1, <2>2
    <2> QED
      BY <1>1, <2>1, <2>3, CommitKeepsTypes
  <1> QED
    BY <1>3, <1>4, <1>5, <1>6, <1>7 DEF EditStep

-----------------------------------------------------------------------------
(* A verdict stays with the question it was given for.                     *)

\* One verdict for each question, in the order of the questions.
AnswersInOrder(verdicts, questions) ==
    /\ DOMAIN verdicts = DOMAIN questions
    /\ \A i \in DOMAIN questions : verdicts[i].question = questions[i]

\* What is kept of the attempts answers the requirements the run has taken,
\* and what is recorded answers what the fingerprint beside it covers.
JudgedInv ==
    \A s \in Screenings :
        /\ screening[s].status = "judging"
           /\ (screening[s].attempts > 0 \/ screening[s].specs = <<>>)
             => AnswersInOrder(screening[s].best.requirements, Fingerprint(screening[s].specs))
        /\ screening[s].status = "completed"
             => AnswersInOrder(screening[s].judgment, screening[s].hash)

LEMMA StartKeepsJudged ==
    ASSUME ShortlistTypeOK, JudgedInv, NEW s \in Screenings, StartJudging(s)
    PROVE  ShortlistTypeOK' /\ JudgedInv'
  <1> DEFINE specs == RequirementSpecs(rows)
  <1>1. specs \in Seq(Specs)
    BY TableIsTyped, SpecsOfATable DEF ShortlistTypeOK
  <1>2. screening' = [screening EXCEPT ![s].status = "judging", ![s].specs = specs,
                                       ![s].attempts = 0, ![s].best = NoJudgment]
    BY DEF StartJudging
  <1> HIDE DEF specs
  <1>3. screening[s] \in ScreeningRows /\ screening'[s] \in ScreeningRows
    <2>1. screening[s] \in ScreeningRows
      BY DEF ShortlistTypeOK
    <2>2. screening'[s] = [screening[s] EXCEPT !.status = "judging", !.specs = specs,
                                               !.attempts = 0, !.best = NoJudgment]
      BY <1>2, <2>1 DEF ShortlistTypeOK, ScreeningRows
    <2>3. 0 \in 0 .. MaxAttempts
      BY ShortlistAssumption
    <2> QED
      BY <1>1, <2>1, <2>2, <2>3, NothingYetType DEF ScreeningRows
  <1>4. /\ screening' \in [Screenings -> ScreeningRows]
        /\ \A other \in Screenings : other # s => screening'[other] = screening[other]
    BY <1>2, <1>3 DEF ShortlistTypeOK
  <1>5. ShortlistTypeOK'
    <2>1. judgings' \in 0 .. MaxJudgings
      BY ShortlistAssumption DEF ShortlistTypeOK, StartJudging
    <2> QED
      BY <1>4, <2>1 DEF ShortlistTypeOK, StartJudging, IsTable
  <1>6. /\ screening'[s].status = "judging" /\ screening'[s].attempts = 0
        /\ screening'[s].best = NoJudgment
    BY <1>2, <1>3 DEF ShortlistTypeOK, ScreeningRows
  <1>7. screening'[s].specs = <<>> =>
          AnswersInOrder(screening'[s].best.requirements, Fingerprint(screening'[s].specs))
    BY <1>6 DEF AnswersInOrder, NoJudgment, Fingerprint
  <1>8. JudgedInv'
    BY <1>4, <1>6, <1>7 DEF JudgedInv
  <1> QED
    BY <1>5, <1>8

LEMMA AttemptKeepsJudged ==
    ASSUME ShortlistTypeOK, JudgedInv, NEW s \in Screenings, Attempt(s)
    PROVE  ShortlistTypeOK' /\ JudgedInv'
  <1> DEFINE specs == screening[s].specs
             best == screening[s].best
  <1>1. /\ specs \in Seq(Specs) /\ Len(specs) \in Nat
        /\ screening[s] \in ScreeningRows
        /\ screening[s].attempts \in 0 .. MaxAttempts /\ screening[s].attempts # MaxAttempts
        /\ best \in [requirements: Seq(Verdicts), dropped: Nat]
        /\ screening[s].status = "judging" /\ specs # <<>>
    <2>1. screening[s] \in ScreeningRows
      BY DEF ShortlistTypeOK
    <2> QED
      BY <2>1 DEF ScreeningRows, Attempt, Done
  <1>2. PICK raw \in RawJudgments(Len(specs)) :
          LET candidate == Verify(raw, specs)
              better == screening[s].attempts = 0 \/ IsBetter(candidate, best)
          IN  screening' = [screening EXCEPT
                ![s].attempts = IF candidate.dropped = 0 THEN MaxAttempts ELSE @ + 1,
                ![s].best = IF better THEN candidate ELSE @]
    BY DEF Attempt
  <1> DEFINE candidate == Verify(raw, specs)
  <1>3. /\ candidate \in [requirements: Seq(Verdicts), dropped: Nat]
        /\ AnswersInOrder(candidate.requirements, Fingerprint(specs))
    BY <1>1, VerifiedType DEF AnswersInOrder, Fingerprint
  <1> HIDE DEF candidate
  <1>4. PICK attempts \in 1 .. MaxAttempts, kept \in {candidate, best} :
          /\ screening' = [screening EXCEPT ![s].attempts = attempts, ![s].best = kept]
          /\ kept = candidate \/ (screening[s].attempts > 0 /\ kept = best)
    <2> DEFINE a == IF candidate.dropped = 0 THEN MaxAttempts ELSE screening[s].attempts + 1
               k == IF screening[s].attempts = 0 \/ IsBetter(candidate, best)
                      THEN candidate ELSE best
    <2>1. a \in 1 .. MaxAttempts
      BY <1>1, ShortlistAssumption
    <2>2. k = candidate \/ (screening[s].attempts > 0 /\ k = best)
      BY <1>1
    <2>3. screening' = [screening EXCEPT ![s].attempts = a, ![s].best = k]
      BY <1>1, <1>2 DEF candidate, ShortlistTypeOK, ScreeningRows
    <2> HIDE DEF a, k
    <2> QED
      BY <2>1, <2>2, <2>3
  <1>5. kept \in [requirements: Seq(Verdicts), dropped: Nat]
    BY <1>1, <1>3, <1>4
  <1>6. /\ screening'[s] \in ScreeningRows
        /\ screening'[s].status = "judging" /\ screening'[s].specs = specs
        /\ screening'[s].best = kept
    <2>1. screening'[s] = [screening[s] EXCEPT !.attempts = attempts, !.best = kept]
      BY <1>1, <1>4 DEF ShortlistTypeOK, ScreeningRows
    <2>2. attempts \in 0 .. MaxAttempts
      BY ShortlistAssumption
    <2> QED
      BY <1>1, <1>5, <2>1, <2>2 DEF ScreeningRows
  <1>7. /\ screening' \in [Screenings -> ScreeningRows]
        /\ \A other \in Screenings : other # s => screening'[other] = screening[other]
    BY <1>4, <1>6 DEF ShortlistTypeOK
  <1>8. ShortlistTypeOK'
    BY <1>7 DEF ShortlistTypeOK, Attempt, IsTable
  <1>9. AnswersInOrder(kept.requirements, Fingerprint(specs))
    BY <1>1, <1>3, <1>4 DEF JudgedInv
  <1>10. JudgedInv'
    BY <1>6, <1>7, <1>9 DEF JudgedInv
  <1> QED
    BY <1>8, <1>10

LEMMA RecordKeepsJudged ==
    ASSUME ShortlistTypeOK, JudgedInv, NEW s \in Screenings, Record(s)
    PROVE  ShortlistTypeOK' /\ JudgedInv'
  <1>1. /\ screening[s] \in ScreeningRows
        /\ screening[s].specs \in Seq(Specs)
        /\ screening[s].best.requirements \in Seq(Verdicts)
    BY DEF ShortlistTypeOK, ScreeningRows
  <1> DEFINE new == [Unscreened EXCEPT
                       !.status = "completed", !.hash = Fingerprint(screening[s].specs),
                       !.version = version, !.judgment = screening[s].best.requirements]
  <1>2. /\ new \in ScreeningRows /\ new.status = "completed"
        /\ new.hash = Fingerprint(screening[s].specs)
        /\ new.judgment = screening[s].best.requirements
    BY <1>1, NothingYetType, FingerprintType DEF ShortlistTypeOK, ScreeningRows
  <1>3. screening' = [screening EXCEPT ![s] = new]
    BY DEF Record
  <1> HIDE DEF new
  <1>4. /\ screening' \in [Screenings -> ScreeningRows] /\ screening'[s] = new
        /\ \A other \in Screenings : other # s => screening'[other] = screening[other]
    BY <1>2, <1>3 DEF ShortlistTypeOK
  <1>5. ShortlistTypeOK'
    BY <1>4 DEF ShortlistTypeOK, Record, IsTable
  <1>6. AnswersInOrder(new.judgment, new.hash)
    <2>1. screening[s].attempts > 0 \/ screening[s].specs = <<>>
      BY ShortlistAssumption DEF Record, Done
    <2> QED
      BY <1>2, <2>1 DEF JudgedInv, Record
  <1>7. JudgedInv'
    BY <1>2, <1>4, <1>6 DEF JudgedInv
  <1> QED
    BY <1>5, <1>7

\* Tables and screenings keep their types, and a verdict keeps its question.
THEOREM ShortlistInvariant == ShortlistSpec => [](ShortlistTypeOK /\ JudgedInv)
  <1>1. ShortlistInit => JudgedInv
    BY DEF ShortlistInit, JudgedInv, Unscreened
  <1>2. ASSUME ShortlistTypeOK, JudgedInv, [ShortlistNext]_shortlistVars
        PROVE  ShortlistTypeOK' /\ JudgedInv'
    <2>1. ASSUME NEW e \in Editors, EditStep(e) PROVE JudgedInv'
      <3>1. screening' = screening
        BY <2>1 DEF EditStep, Load, Refuse, Add, Delete, Patch, Committed
      <3> QED
        BY <1>2, <3>1 DEF JudgedInv
    <2>2. ASSUME NEW e \in Editors, EditStep(e) PROVE ShortlistTypeOK'
      BY <1>2, <2>2, EditKeepsTypes
    <2>3. ASSUME NEW s \in Screenings, StartJudging(s) \/ Attempt(s) \/ Record(s)
          PROVE  ShortlistTypeOK' /\ JudgedInv'
      BY <1>2, <2>3, StartKeepsJudged, AttemptKeepsJudged, RecordKeepsJudged
    <2>4. CASE Release
      BY <1>2, <2>4 DEF Release, ShortlistTypeOK, JudgedInv, IsTable
    <2>5. CASE UNCHANGED shortlistVars
      BY <1>2, <2>5 DEF shortlistVars, ShortlistTypeOK, JudgedInv, IsTable
    <2> QED
      BY <1>2, <2>1, <2>2, <2>3, <2>4, <2>5 DEF ShortlistNext
  <1> QED
    BY <1>1, <1>2, ShortlistTypeInit, PTL DEF ShortlistSpec

LEMMA CurrentMeans ==
    ASSUME NEW s, NEW specs, Current(s, specs)
    PROVE  /\ screening[s].status = "completed"
           /\ screening[s].hash = Fingerprint(specs)
           /\ screening[s].version = version
           /\ Len(screening[s].judgment) = Len(specs)
  BY DEF Current, ExclusionReason

\* The verdict beside a requirement was given for that requirement.
THEOREM VerdictsAnswerTheirQuestions == ShortlistSpec => []RankedAnswersItsQuestion
  <1>1. JudgedInv => RankedAnswersItsQuestion
    <2> SUFFICES ASSUME JudgedInv, NEW specs, specs = RequirementSpecs(rows),
                        NEW s \in Ranked(specs), NEW i \in DOMAIN specs
                 PROVE  screening[s].judgment[i].question = specs[i].question
      BY DEF RankedAnswersItsQuestion
    <2>1. /\ s \in Screenings /\ screening[s].status = "completed"
          /\ screening[s].hash = Fingerprint(specs)
      BY CurrentMeans DEF Ranked
    <2>2. AnswersInOrder(screening[s].judgment, Fingerprint(specs))
      BY <2>1 DEF JudgedInv
    <2> QED
      BY <2>2 DEF AnswersInOrder, Fingerprint
  <1> QED
    BY <1>1, ShortlistInvariant, PTL

-----------------------------------------------------------------------------
(* The ranks.                                                              *)

Scored(a) == /\ a.id \in Nat /\ a.gate \in BOOLEAN
             /\ a.score \in Nat /\ a.met \in Nat

LEMMA EntryIsScored ==
    ASSUME NEW specs \in Seq(Specs), NEW judgment, NEW id \in Nat
    PROVE  Scored(Entry(id, judgment, specs)) /\ Entry(id, judgment, specs).id = id
  <1> DEFINE D == DOMAIN specs
             met == {i \in D : judgment[i].met}
             gate == \A i \in D : specs[i].must => i \in met
             score == Score(Weight(specs, met), Weight(specs, D))
  <1>1. IsFiniteSet(D) /\ D = 1 .. Len(specs) /\ met \in SUBSET D
    BY FS_Interval
  <1>2. Weighted(specs, D)
    <2>1. \A i \in 1 .. Len(specs) : specs[i] \in Specs
      OBVIOUS
    <2> QED
      BY <1>1, <2>1 DEF Weighted, Specs
  <1>3. score \in Nat
    BY <1>1, <1>2, ScoreIsAShare
  <1>4. Cardinality(met) \in Nat
    BY <1>1, FS_Subset, FS_CardinalityType
  <1>5. gate \in BOOLEAN
    OBVIOUS
  <1>6. Entry(id, judgment, specs) =
          [id |-> id, gate |-> gate, score |-> score, met |-> Cardinality(met)]
    BY DEF Entry
  <1> HIDE DEF gate, score, met
  <1> QED
    BY <1>3, <1>4, <1>5, <1>6 DEF Scored

\* The sort key orders any entries strictly and totally, once their ids differ.
LEMMA SortKeyOrders ==
    ASSUME NEW E, \A a \in E : Scored(a), \A a, b \in E : a.id = b.id => a = b
    PROVE  StrictlyOrders({p \in E \X E : Before(p[1], p[2])}, E)
  <1> DEFINE R == {p \in E \X E : Before(p[1], p[2])}
  <1>1. \A a, b \in E : <<a, b>> \in R <=> Before(a, b)
    OBVIOUS
  <1>2. ASSUME NEW a \in E PROVE ~Before(a, a)
    BY DEF Before, Scored
  <1>3. ASSUME NEW a \in E, NEW b \in E, NEW c \in E, Before(a, b), Before(b, c)
        PROVE  Before(a, c)
    <2>1. Scored(a) /\ Scored(b) /\ Scored(c)
      OBVIOUS
    <2> QED
      BY <1>3, <2>1 DEF Before, Scored
  <1>4. ASSUME NEW a \in E, NEW b \in E, a # b PROVE Before(a, b) \/ Before(b, a)
    <2>1. Scored(a) /\ Scored(b) /\ a.id # b.id
      BY <1>4
    <2> QED
      BY <2>1 DEF Before, Scored
  <1> HIDE DEF R
  <1>5. StrictlyOrders(R, E)
    BY <1>1, <1>2, <1>3, <1>4 DEF StrictlyOrders
  <1> QED
    BY <1>5 DEF R

\* The ranks of the ranked screenings are 1, 2, ... with none shared and none
\* left out, whatever ties in score there are.
THEOREM RanksHaveNoTies == ShortlistSpec => []RanksAreTotal
  <1>1. ShortlistTypeOK => RanksAreTotal
    <2> SUFFICES ASSUME ShortlistTypeOK,
                        NEW specs, specs = RequirementSpecs(rows),
                        NEW E, E = {Entry(s, screening[s].judgment, specs) : s \in Ranked(specs)}
                 PROVE  {Rank(entry, E) : entry \in E} = 1 .. Cardinality(E)
      BY DEF RanksAreTotal
    <2> DEFINE of == [s \in Ranked(specs) |-> Entry(s, screening[s].judgment, specs)]
               R == {p \in E \X E : Before(p[1], p[2])}
               rank == [x \in E |-> 1 + Cardinality({o \in E : <<o, x>> \in R})]
    <2>1. specs \in Seq(Specs)
      BY TableIsTyped, SpecsOfATable DEF ShortlistTypeOK
    <2>2. \A s \in Ranked(specs) : s \in Nat /\ Scored(of[s]) /\ of[s].id = s
      BY <2>1, EntryIsScored, ShortlistAssumption DEF Ranked
    <2>3. IsFiniteSet(E)
      <3>1. IsFiniteSet(Ranked(specs))
        BY FS_Subset, ShortlistAssumption DEF Ranked
      <3>2. of \in Surjection(Ranked(specs), E)
        BY DEF Surjection
      <3> QED
        BY <3>1, <3>2, FS_Surjection
    <2>4. \A a \in E : \E s \in Ranked(specs) : a = of[s]
      OBVIOUS
    <2>5. (\A a \in E : Scored(a)) /\ \A a, b \in E : a.id = b.id => a = b
      <3> HIDE DEF of
      <3> QED
        BY <2>2, <2>4
    <2>6. StrictlyOrders(R, E)
      BY <2>5, SortKeyOrders
    <2>7. rank = [x \in E |-> Rank(x, E)]
      <3>1. \A x \in E : {o \in E : <<o, x>> \in R} = {o \in E : Before(o, x)}
        OBVIOUS
      <3> QED
        BY <3>1 DEF Rank
    <2>8. rank \in Surjection(E, 1 .. Cardinality(E))
      <3> HIDE DEF R
      <3> QED
        BY <2>3, <2>6, RanksOfAnOrder DEF Bijection
    <2> HIDE DEF rank
    <2>9. {rank[x] : x \in E} = 1 .. Cardinality(E)
      BY <2>8 DEF Surjection
    <2> QED
      BY <2>7, <2>9
  <1> QED
    BY <1>1, ShortlistInvariant, PTL

-----------------------------------------------------------------------------
\* An edit of must_have or weight alone leaves every current screening current.
THEOREM WeightEditsAreFree == ShortlistSpec => WeightsAreFree
  <1>1. ASSUME ShortlistTypeOK, [ShortlistNext]_shortlistVars, ShortlistTypeOK', WeightOnly,
               NEW s \in Screenings, Current(s, RequirementSpecs(rows))
        PROVE  Current(s, RequirementSpecs(rows))'
    <2>1. screening' = screening /\ version' = version
      <3>1. rows' # rows
        BY <1>1 DEF WeightOnly
      <3>2. PICK e \in Editors : EditStep(e)
        BY <1>1, <3>1 DEF ShortlistNext, shortlistVars, StartJudging, Attempt, Record, Release
      <3> QED
        BY <3>2 DEF EditStep, Load, Refuse, Add, Delete, Patch, Committed
    <2>2. Typed(rows)
      BY <1>1, TableIsTyped DEF ShortlistTypeOK
    <2>3. Typed(rows')
      <3>1. inserted' \in Nat
        BY <1>1, ShortlistAssumption DEF ShortlistTypeOK
      <3>2. IsFiniteSet(1 .. inserted')
        BY <3>1, FS_Interval
      <3>3. /\ rows' \in [DOMAIN rows' -> Row] /\ DOMAIN rows' \in SUBSET (1 .. inserted')
        BY <1>1 DEF ShortlistTypeOK, IsTable
      <3>4. IsFiniteSet(DOMAIN rows')
        BY <3>2, <3>3, FS_Subset
      <3>5. DOMAIN rows' \subseteq Nat
        BY <3>1, <3>3
      <3> QED
        BY <3>3, <3>4, <3>5 DEF Typed
    <2>4. /\ Fingerprint(RequirementSpecs(rows)) = Fingerprint(RequirementSpecs(rows'))
          /\ Len(RequirementSpecs(rows)) = Len(RequirementSpecs(rows'))
      BY <1>1, <2>2, <2>3, AskedTheSame DEF WeightOnly
    <2>5. ExclusionReason(screening[s], RequirementSpecs(rows), version) = "none"
      BY <1>1 DEF Current
    <2>6. ExclusionReason(screening'[s], RequirementSpecs(rows'), version') = "none"
      BY <2>1, <2>4, <2>5 DEF ExclusionReason
    <2>7. RequirementSpecs(rows)' = RequirementSpecs(rows')
      BY DEF RequirementSpecs, Earlier
    <2> QED
      BY <2>6, <2>7 DEF Current
  <1>2. ASSUME ShortlistTypeOK, [ShortlistNext]_shortlistVars, ShortlistTypeOK'
        PROVE  [WeightOnly => \A s \in Screenings :
                  Current(s, RequirementSpecs(rows)) =>
                  Current(s, RequirementSpecs(rows))']_shortlistVars
    BY <1>1, <1>2
  <1> QED
    BY <1>2, ShortlistInvariant, PTL DEF ShortlistSpec, WeightsAreFree
=============================================================================
