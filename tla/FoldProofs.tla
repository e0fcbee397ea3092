------------------------------ MODULE FoldProofs ------------------------------
(***************************************************************************)
(* Lemmas about sums over finite sets, ranks in a finite order and folds   *)
(* over sequences, for the modules whose models add, sort and go through   *)
(* lists.                                                                  *)
(*                                                                         *)
(* MapThenSumSet is a fold whose steps take the elements in an order       *)
(* nobody knows; what makes it a sum is proved here: that the fold exists  *)
(* (SumExists), that it does not depend on more than the weights of the    *)
(* elements (SumSame), and that one more element adds its weight wherever  *)
(* the fold takes it (SumAdds).  FoldLeft is a fold whose steps take the   *)
(* largest index: that it exists (FoldLeftExists) makes it a recursion     *)
(* over the prefixes of the sequence (OneMore).                            *)
(*                                                                         *)
(* An induction over finite sets is a smallest counterexample: the sets    *)
(* for which the statement fails have an element of which no proper subset *)
(* is one of them (SmallestSet).  An induction over 0..n shows of a set of *)
(* numbers that it holds them all (CountUp).                               *)
(*                                                                         *)
(* What two sequences have in common of which one has an element more is   *)
(* told by where each old element is in the longer one (InsertedShifts).   *)
(***************************************************************************)
EXTENDS SequencesExt, FunctionTheorems, FiniteSetTheorems, SequenceTheorems, NaturalsInduction, TLAPS

\* Of a collection of subsets of a finite set one has no other as its subset.
LEMMA SmallestSet ==
  ASSUME NEW S, IsFiniteSet(S), NEW T, T \subseteq SUBSET S, T # {}
  PROVE  \E E \in T : \A U \in T : U \subseteq E => U = E
<1>1. IsWellFoundedOn(StrictSubsetOrdering(S), SUBSET S)
  BY FS_StrictSubsetOrderingWellFounded, FS_FiniteSubsetsOfFinite
<1>2. PICK E \in T : \A U \in T : ~(<<U, E>> \in StrictSubsetOrdering(S))
  BY <1>1, WFMin
<1>3. \A U \in T : U \subseteq E /\ U # E => <<U, E>> \in StrictSubsetOrdering(S)
  BY DEF StrictSubsetOrdering
<1>4. \A U \in T : U \subseteq E => U = E
  BY <1>2, <1>3
<1>. QED
  BY <1>4

\* Of some numbers one is the smallest.
LEMMA SmallestNat ==
  ASSUME NEW S \in SUBSET Nat, S # {}
  PROVE  \E n \in S : \A m \in S : n <= m
<1>1. PICK n \in S : \A m \in S : ~(<<m, n>> \in OpToRel(<, Nat))
  BY NatLessThanWellFounded, WFMin
<1>2. \A m \in S : ~(m < n)
  BY <1>1 DEF OpToRel
<1>. QED
  BY <1>2

\* The sizes of disjoint sets add up.
LEMMA Disjoint ==
  ASSUME NEW S, NEW T, IsFiniteSet(S), IsFiniteSet(T), S \cap T = {}
  PROVE  IsFiniteSet(S \cup T) /\ Cardinality(S \cup T) = Cardinality(S) + Cardinality(T)
<1>1. Cardinality(S \cap T) = 0
  BY FS_EmptySet
<1>2. Cardinality(S) \in Nat /\ Cardinality(T) \in Nat
  BY FS_CardinalityType
<1>3. /\ IsFiniteSet(S \cup T)
      /\ Cardinality(S \cup T) = Cardinality(S) + Cardinality(T) - Cardinality(S \cap T)
  BY FS_Union, Zenon
<1>. QED
  BY <1>1, <1>2, <1>3

(***************************************************************************)
(* Sums.                                                                   *)
(***************************************************************************)

\* The sum of the weights w of the elements of E.
Sum(w, E) == MapThenSumSet(LAMBDA t : w[t], E)

\* The element the fold takes first.
Pick(s) == CHOOSE x \in s : TRUE

\* h is the fold, for all subsets of E.
Sums(h, w, E) ==
  h = [s \in SUBSET E |-> IF s = {} THEN 0 ELSE w[Pick(s)] + h[s \ {Pick(s)}]]

\* The first element is one.
LEMMA PickIn ==
  ASSUME NEW s, s # {}
  PROVE  Pick(s) \in s
BY DEF Pick

\* Folds of weights that agree on T agree on T.
LEMMA SumsAgree ==
  ASSUME NEW T, IsFiniteSet(T), NEW D, NEW E, T \subseteq D, T \subseteq E,
         NEW v, NEW w, \A t \in T : v[t] = w[t],
         NEW g, NEW h, Sums(g, v, D), Sums(h, w, E)
  PROVE  g[T] = h[T]
<1> DEFINE Bad == {U \in SUBSET T : g[U] # h[U]}
<1>. SUFFICES ASSUME Bad # {}
              PROVE  FALSE
  OBVIOUS
<1>0. Bad \subseteq SUBSET T
  OBVIOUS
<1>1. PICK U \in Bad : \A V \in Bad : V \subseteq U => V = U
  <2>. HIDE DEF Bad
  <2>. QED
    BY <1>0, SmallestSet
<1>2. U \subseteq D /\ U \subseteq E /\ U \subseteq T
  OBVIOUS
<1>3. g[U] = IF U = {} THEN 0 ELSE v[Pick(U)] + g[U \ {Pick(U)}]
  BY <1>2 DEF Sums
<1>4. h[U] = IF U = {} THEN 0 ELSE w[Pick(U)] + h[U \ {Pick(U)}]
  BY <1>2 DEF Sums
<1>5. CASE U = {}
  BY <1>3, <1>4, <1>5
<1>6. CASE U # {}
  <2>1. Pick(U) \in U
    BY <1>6, PickIn
  <2>2. U \ {Pick(U)} \notin Bad
    BY <1>1, <2>1
  <2>3. g[U \ {Pick(U)}] = h[U \ {Pick(U)}]
    BY <1>2, <2>2
  <2>4. v[Pick(U)] = w[Pick(U)]
    BY <1>2, <2>1
  <2>5. g[U] = h[U]
    BY <1>3, <1>4, <1>6, <2>3, <2>4
  <2>. QED
    BY <2>5
<1>. QED
  BY <1>5, <1>6

\* There is a fold.
LEMMA SumExists ==
  ASSUME NEW E, IsFiniteSet(E), NEW w
  PROVE  \E h : Sums(h, w, E)
<1> DEFINE Bad == {U \in SUBSET E : ~ \E h : Sums(h, w, U)}
<1>. SUFFICES ASSUME Bad # {}
              PROVE  FALSE
  BY Zenon
<1>0. Bad \subseteq SUBSET E
  OBVIOUS
<1>1. PICK U \in Bad : \A V \in Bad : V \subseteq U => V = U
  <2>. HIDE DEF Bad
  <2>. QED
    BY <1>0, SmallestSet
<1> DEFINE H == [V \in SUBSET U |-> (CHOOSE h : Sums(h, w, V))[V]]
           g == [s \in SUBSET U |-> IF s = {} THEN 0 ELSE w[Pick(s)] + H[s \ {Pick(s)}]]
<1>2. U \subseteq E /\ IsFiniteSet(U)
  BY FS_Subset
<1>3. ASSUME NEW V \in SUBSET U, V # U
      PROVE  g[V] = H[V]
  <2>1. V \notin Bad /\ V \in SUBSET E
    BY <1>1, <1>2, <1>3
  <2>2. \E h : Sums(h, w, V)
    BY <2>1
  <2>3. PICK h : Sums(h, w, V) /\ H[V] = h[V]
    BY <2>2
  <2>4. h[V] = IF V = {} THEN 0 ELSE w[Pick(V)] + h[V \ {Pick(V)}]
    BY <2>3 DEF Sums
  <2>5. CASE V = {}
    BY <2>3, <2>4, <2>5
  <2>6. CASE V # {}
    <3> DEFINE W == V \ {Pick(V)}
    <3>1. Pick(V) \in V
      BY <2>6, PickIn
    <3>2. W \subseteq U /\ W \subseteq V /\ W # U /\ IsFiniteSet(W) /\ W \in SUBSET E
      BY <1>2, <1>3, <3>1, FS_Subset
    <3>3. W \notin Bad
      BY <1>1, <3>2
    <3>4. \E f : Sums(f, w, W)
      BY <3>2, <3>3
    <3>5. PICK f : Sums(f, w, W) /\ H[W] = f[W]
      BY <3>2, <3>4
    <3>6. f[W] = h[W]
      BY <2>3, <3>2, <3>5, SumsAgree
    <3>7. g[V] = w[Pick(V)] + H[W]
      BY <2>6
    <3>. QED
      BY <2>3, <2>4, <2>6, <3>5, <3>6, <3>7
  <2>. QED
    BY <2>5, <2>6
<1>4. ASSUME NEW s \in SUBSET U, s # {}
      PROVE  H[s \ {Pick(s)}] = g[s \ {Pick(s)}]
  <2>1. Pick(s) \in s
    BY <1>4, PickIn
  <2>. QED
    BY <1>3, <2>1
<1>5. g = [s \in SUBSET U |-> IF s = {} THEN 0 ELSE w[Pick(s)] + g[s \ {Pick(s)}]]
  <2>1. \A s \in SUBSET U :
          (IF s = {} THEN 0 ELSE w[Pick(s)] + H[s \ {Pick(s)}])
            = IF s = {} THEN 0 ELSE w[Pick(s)] + g[s \ {Pick(s)}]
    <3>. HIDE DEF g, H
    <3>. QED
      BY <1>4
  <2>. HIDE DEF H
  <2>. QED
    BY <2>1, Zenon
<1>6. Sums(g, w, U)
  BY <1>5 DEF Sums
<1>7. \E h : Sums(h, w, U)
  BY <1>6
<1>. QED
  BY <1>7

\* The fold gives the sum.
LEMMA SumOf ==
  ASSUME NEW E, IsFiniteSet(E), NEW w, NEW h, Sums(h, w, E)
  PROVE  Sum(w, E) = h[E]
<1> DEFINE f == CHOOSE g : Sums(g, w, E)
<1>1. Sum(w, E) = f[E]
  BY DEF Sum, Sums, MapThenSumSet, MapThenFoldSet, Pick
<1>2. Sums(f, w, E)
  OBVIOUS
<1>. HIDE DEF f
<1>3. f[E] = h[E]
  BY <1>2, SumsAgree
<1>. QED
  BY <1>1, <1>3

\* Only the weights of the elements count.
LEMMA SumSame ==
  ASSUME NEW E, IsFiniteSet(E), NEW v, NEW w, \A t \in E : v[t] = w[t]
  PROVE  Sum(v, E) = Sum(w, E)
<1>1. PICK g : Sums(g, v, E)
  BY SumExists
<1>2. PICK h : Sums(h, w, E)
  BY SumExists
<1>3. g[E] = h[E]
  BY <1>1, <1>2, SumsAgree
<1>. QED
  BY <1>1, <1>2, <1>3, SumOf

\* Nothing sums to nothing.
LEMMA SumOfNothing ==
  ASSUME NEW w
  PROVE  Sum(w, {}) = 0
<1>1. IsFiniteSet({})
  BY FS_EmptySet
<1>2. PICK h : Sums(h, w, {})
  BY <1>1, SumExists
<1>3. h[{}] = 0
  BY <1>2 DEF Sums
<1>. QED
  BY <1>1, <1>2, <1>3, SumOf

\* A fold of natural numbers is one.
LEMMA SumsAreNat ==
  ASSUME NEW E, IsFiniteSet(E), NEW w, \A t \in E : w[t] \in Nat, NEW h, Sums(h, w, E)
  PROVE  \A T \in SUBSET E : h[T] \in Nat
<1> DEFINE Bad == {U \in SUBSET E : h[U] \notin Nat}
<1>. SUFFICES ASSUME Bad # {}
              PROVE  FALSE
  OBVIOUS
<1>0. Bad \subseteq SUBSET E
  OBVIOUS
<1>1. PICK U \in Bad : \A V \in Bad : V \subseteq U => V = U
  <2>. HIDE DEF Bad
  <2>. QED
    BY <1>0, SmallestSet
<1>2. h[U] = IF U = {} THEN 0 ELSE w[Pick(U)] + h[U \ {Pick(U)}]
  BY DEF Sums
<1>3. U # {}
  BY <1>2
<1>4. Pick(U) \in U
  BY <1>3, PickIn
<1>5. U \ {Pick(U)} \notin Bad
  BY <1>1, <1>4
<1>6. w[Pick(U)] \in Nat /\ h[U \ {Pick(U)}] \in Nat
  BY <1>4, <1>5
<1>7. h[U] \in Nat
  BY <1>2, <1>3, <1>6
<1>. QED
  BY <1>7

\* A sum of natural numbers is one.
LEMMA SumIsNat ==
  ASSUME NEW E, IsFiniteSet(E), NEW w, \A t \in E : w[t] \in Nat
  PROVE  Sum(w, E) \in Nat
<1>1. PICK h : Sums(h, w, E)
  BY SumExists
<1>2. h[E] \in Nat
  BY <1>1, SumsAreNat
<1>. QED
  BY <1>1, <1>2, SumOf

\* Wherever the fold takes an element, it adds the weight of it.
LEMMA SumsAdd ==
  ASSUME NEW E, IsFiniteSet(E), NEW w, \A t \in E : w[t] \in Nat, NEW h, Sums(h, w, E),
         NEW T \in SUBSET E, NEW y \in T
  PROVE  h[T] = h[T \ {y}] + w[y]
<1> DEFINE Bad == {U \in SUBSET E : \E z \in U : h[U] # h[U \ {z}] + w[z]}
<1>. SUFFICES ASSUME Bad # {}
              PROVE  FALSE
  OBVIOUS
<1>0. Bad \subseteq SUBSET E
  OBVIOUS
<1>1. PICK U \in Bad : \A V \in Bad : V \subseteq U => V = U
  <2>. HIDE DEF Bad
  <2>. QED
    BY <1>0, SmallestSet
<1>2. PICK z \in U : h[U] # h[U \ {z}] + w[z]
  OBVIOUS
<1> DEFINE x == Pick(U)
<1>3. x \in U
  BY <1>2, PickIn
<1>4. h[U] = w[x] + h[U \ {x}]
  BY <1>2 DEF Sums
<1>. HIDE DEF x
<1>5. \A V \in SUBSET E : h[V] \in Nat
  BY SumsAreNat
<1>6. w[x] \in Nat /\ w[z] \in Nat /\ h[U \ {x}] \in Nat /\ h[U \ {z}] \in Nat
      /\ h[(U \ {x}) \ {z}] \in Nat
  BY <1>2, <1>3, <1>5
<1>7. CASE x = z
  BY <1>2, <1>4, <1>6, <1>7
<1>8. CASE x # z
  <2>1. U \ {x} \notin Bad /\ U \ {z} \notin Bad
    BY <1>1, <1>2, <1>3
  <2>2. h[U \ {x}] = h[(U \ {x}) \ {z}] + w[z]
    BY <1>2, <1>8, <2>1
  <2>3. h[U \ {z}] = h[(U \ {z}) \ {x}] + w[x]
    BY <1>3, <1>8, <2>1
  <2>4. h[(U \ {z}) \ {x}] = h[(U \ {x}) \ {z}]
    <3>1. (U \ {z}) \ {x} = (U \ {x}) \ {z}
      OBVIOUS
    <3>. QED
      BY <3>1, Zenon
  <2>5. h[U] = h[U \ {z}] + w[z]
    <3> DEFINE k == h[(U \ {x}) \ {z}]
    <3>1. h[U] = w[x] + (k + w[z]) /\ h[U \ {z}] = k + w[x] /\ k \in Nat
      BY <1>4, <1>6, <2>2, <2>3, <2>4
    <3>. HIDE DEF k
    <3>. QED
      BY <1>6, <3>1
  <2>. QED
    BY <1>2, <2>5
<1>. QED
  BY <1>7, <1>8

\* One more element adds its weight.
LEMMA SumAdds ==
  ASSUME NEW E, IsFiniteSet(E), NEW x, x \notin E, NEW w, \A t \in E \cup {x} : w[t] \in Nat
  PROVE  Sum(w, E \cup {x}) = Sum(w, E) + w[x]
<1> DEFINE D == E \cup {x}
<1>1. IsFiniteSet(D)
  BY FS_AddElement
<1>2. PICK h : Sums(h, w, D)
  BY <1>1, SumExists
<1>3. PICK g : Sums(g, w, E)
  BY SumExists
<1>4. D \ {x} = E
  OBVIOUS
<1>5. h[D] = h[E] + w[x]
  BY <1>1, <1>2, <1>4, SumsAdd
<1>6. h[E] = g[E]
  BY <1>2, <1>3, SumsAgree
<1>. QED
  BY <1>1, <1>2, <1>3, <1>5, <1>6, SumOf

\* A sum of weights of at most 2 is at most twice their number, and that only if each is 2.
LEMMA SumAtMostTwice ==
  ASSUME NEW E, IsFiniteSet(E), NEW w, \A t \in E : w[t] \in 0..2
  PROVE  /\ Sum(w, E) \in 0..2 * Cardinality(E)
         /\ Sum(w, E) = 2 * Cardinality(E) => \A t \in E : w[t] = 2
<1> DEFINE Good(T) == /\ Sum(w, T) <= 2 * Cardinality(T)
                      /\ Sum(w, T) = 2 * Cardinality(T) => \A t \in T : w[t] = 2
           Bad == {T \in SUBSET E : ~Good(T)}
<1>1. \A T \in SUBSET E : IsFiniteSet(T) /\ Cardinality(T) \in Nat /\ Sum(w, T) \in Nat
  <2>. SUFFICES ASSUME NEW T \in SUBSET E
                PROVE  IsFiniteSet(T) /\ Cardinality(T) \in Nat /\ Sum(w, T) \in Nat
    OBVIOUS
  <2>1. IsFiniteSet(T) /\ \A t \in T : w[t] \in Nat
    BY FS_Subset
  <2>. QED
    BY <2>1, FS_CardinalityType, SumIsNat
<1>2. ASSUME Bad # {}
      PROVE  FALSE
  <2>1. PICK U \in Bad : \A V \in Bad : V \subseteq U => V = U
    <3>1. Bad \subseteq SUBSET E
      OBVIOUS
    <3>. HIDE DEF Bad
    <3>. QED
      BY <1>2, <3>1, SmallestSet
  <2>2. CASE U = {}
    <3>1. Sum(w, U) = 0 /\ Cardinality(U) = 0
      BY <2>2, SumOfNothing, FS_EmptySet
    <3>2. Good(U)
      BY <2>2, <3>1
    <3>. QED
      BY <3>2
  <2>3. CASE U # {}
    <3>1. PICK y \in U : TRUE
      BY <2>3
    <3> DEFINE V == U \ {y}
    <3>2. V \in SUBSET E /\ V # U /\ V \cup {y} = U /\ y \notin V
      OBVIOUS
    <3>. HIDE DEF V
    <3>3. V \notin Bad
      BY <2>1, <3>2
    <3>4. Good(V)
      BY <3>2, <3>3
    <3>5. Sum(w, U) = Sum(w, V) + w[y]
      <4>1. \A t \in V \cup {y} : w[t] \in Nat
        BY <3>2
      <4>2. Sum(w, V \cup {y}) = Sum(w, V) + w[y]
        BY <1>1, <3>2, <4>1, SumAdds
      <4>. QED
        BY <3>2, <4>2
    <3>6. Cardinality(U) = Cardinality(V) + 1
      <4>1. Cardinality(V \cup {y}) = Cardinality(V) + 1
        BY <1>1, <3>2, FS_AddElement
      <4>. QED
        BY <3>2, <4>1
    <3>7. w[y] \in 0..2 /\ Sum(w, V) \in Nat /\ Cardinality(V) \in Nat
      BY <1>1, <3>2
    <3>. HIDE DEF Sum
    <3>8. Sum(w, U) <= 2 * Cardinality(U)
      BY <3>4, <3>5, <3>6, <3>7
    <3>9. ASSUME Sum(w, U) = 2 * Cardinality(U)
          PROVE  \A t \in U : w[t] = 2
      <4>1. w[y] = 2 /\ Sum(w, V) = 2 * Cardinality(V)
        BY <3>4, <3>5, <3>6, <3>7, <3>9
      <4>2. \A t \in V : w[t] = 2
        BY <3>4, <4>1
      <4>. QED
        BY <3>2, <4>1, <4>2
    <3>10. Good(U)
      BY <3>8, <3>9
    <3>. QED
      BY <3>10
  <2>. QED
    BY <2>2, <2>3
<1>3. Good(E)
  BY <1>2
<1>4. Sum(w, E) \in Nat /\ Cardinality(E) \in Nat
  BY <1>1
<1>. HIDE DEF Sum
<1>. QED
  BY <1>3, <1>4

\* Larger weights have no smaller sum.
LEMMA SumGrows ==
  ASSUME NEW E, IsFiniteSet(E), NEW v, NEW w, \A t \in E : v[t] \in Nat /\ w[t] \in Nat /\ v[t] <= w[t]
  PROVE  Sum(v, E) <= Sum(w, E)
<1> DEFINE Bad == {U \in SUBSET E : ~(Sum(v, U) <= Sum(w, U))}
<1>. SUFFICES ASSUME Bad # {}
              PROVE  FALSE
  BY DEF Bad
<1>1. Bad \subseteq SUBSET E
  OBVIOUS
<1>2. PICK U \in Bad : \A V \in Bad : V \subseteq U => V = U
  <2>. HIDE DEF Bad
  <2>. QED
    BY <1>1, SmallestSet
<1>3. U # {} /\ U \in SUBSET E /\ IsFiniteSet(U)
  <2>1. ~(Sum(v, U) <= Sum(w, U))
    BY <1>2
  <2>2. ASSUME U = {}
        PROVE  Sum(v, U) = 0 /\ Sum(w, U) = 0
    BY <2>2, SumOfNothing
  <2>. HIDE DEF Sum
  <2>. QED
    BY <1>2, <2>1, <2>2, FS_Subset
<1>4. PICK x \in U : TRUE
  BY <1>3
<1> DEFINE V == U \ {x}
<1>5. IsFiniteSet(V) /\ x \notin V /\ U = V \cup {x} /\ V # U /\ V \in SUBSET E
  BY <1>3, FS_Subset
<1>6. \A t \in V \cup {x} : v[t] \in Nat /\ w[t] \in Nat
  BY <1>3
<1>. HIDE DEF V
<1>7. Sum(v, V \cup {x}) = Sum(v, V) + v[x] /\ Sum(w, V \cup {x}) = Sum(w, V) + w[x]
  BY <1>5, <1>6, SumAdds
<1>8. Sum(v, V) \in Nat /\ Sum(w, V) \in Nat
  BY <1>5, <1>6, SumIsNat
<1>9. v[x] \in Nat /\ w[x] \in Nat /\ v[x] <= w[x]
  BY <1>3
<1>. HIDE DEF Sum
<1>10. ~(Sum(v, V) <= Sum(w, V))
  BY <1>2, <1>5, <1>7, <1>8, <1>9
<1>. QED
  BY <1>2, <1>5, <1>10

\* What weighs nothing sums to nothing.
LEMMA SumOfZeros ==
  ASSUME NEW E, IsFiniteSet(E), NEW w, \A t \in E : w[t] = 0
  PROVE  Sum(w, E) = 0
<1> DEFINE Bad == {U \in SUBSET E : Sum(w, U) # 0}
<1>. SUFFICES ASSUME Bad # {}
              PROVE  FALSE
  BY DEF Bad
<1>1. Bad \subseteq SUBSET E
  OBVIOUS
<1>2. PICK U \in Bad : \A V \in Bad : V \subseteq U => V = U
  <2>. HIDE DEF Bad
  <2>. QED
    BY <1>1, SmallestSet
<1>3. U # {} /\ U \in SUBSET E /\ IsFiniteSet(U)
  BY <1>2, SumOfNothing, FS_Subset
<1>4. PICK x \in U : TRUE
  BY <1>3
<1> DEFINE V == U \ {x}
<1>5. IsFiniteSet(V) /\ x \notin V /\ U = V \cup {x} /\ V # U /\ V \in SUBSET E
  BY <1>3, FS_Subset
<1>6. \A t \in V \cup {x} : w[t] \in Nat
  BY <1>3
<1>. HIDE DEF V
<1>7. Sum(w, V \cup {x}) = Sum(w, V) + w[x]
  BY <1>5, <1>6, SumAdds
<1>8. Sum(w, V) # 0
  BY <1>2, <1>3, <1>5, <1>7
<1>. QED
  BY <1>2, <1>5, <1>8

\* No weight is more than the sum.
LEMMA SumCovers ==
  ASSUME NEW E, IsFiniteSet(E), NEW w, \A t \in E : w[t] \in Nat, NEW y \in E
  PROVE  w[y] <= Sum(w, E)
<1> DEFINE V == E \ {y}
<1>1. V \cup {y} = E /\ y \notin V /\ IsFiniteSet(V) /\ \A t \in V : w[t] \in Nat
  BY FS_RemoveElement
<1>. HIDE DEF V
<1>2. Sum(w, E) = Sum(w, V) + w[y]
  BY <1>1, SumAdds
<1>3. Sum(w, V) \in Nat
  BY <1>1, SumIsNat
<1>. HIDE DEF Sum
<1>. QED
  BY <1>2, <1>3

\* A part of the elements sums to no more than all.
LEMMA SumOfPart ==
  ASSUME NEW E, IsFiniteSet(E), NEW w, \A t \in E : w[t] \in Nat, NEW T \in SUBSET E
  PROVE  Sum(w, T) <= Sum(w, E)
<1> DEFINE Bad == {U \in SUBSET E : T \subseteq U /\ ~ Sum(w, T) <= Sum(w, U)}
<1>. SUFFICES ASSUME Bad # {}
              PROVE  FALSE
  <2>1. E \notin Bad => Sum(w, T) <= Sum(w, E)
    OBVIOUS
  <2>. QED
    BY <2>1
<1>1. Bad \subseteq SUBSET E
  OBVIOUS
<1>2. PICK U \in Bad : \A V \in Bad : V \subseteq U => V = U
  <2>. HIDE DEF Bad
  <2>. QED
    BY <1>1, SmallestSet
<1>3. U \in SUBSET E /\ T \subseteq U /\ IsFiniteSet(U) /\ IsFiniteSet(T)
  BY FS_Subset
<1>4. Sum(w, T) \in Nat /\ Sum(w, U) \in Nat
  <2>1. \A t \in T : w[t] \in Nat
    OBVIOUS
  <2>2. \A t \in U : w[t] \in Nat
    OBVIOUS
  <2>. QED
    BY <1>3, <2>1, <2>2, SumIsNat
<1>5. U # T
  BY <1>2, <1>4
<1>6. PICK x \in U : x \notin T
  BY <1>3, <1>5
<1> DEFINE V == U \ {x}
<1>7. IsFiniteSet(V) /\ x \notin V /\ U = V \cup {x} /\ (\A t \in V \cup {x} : w[t] \in Nat) /\ V \in SUBSET E
  BY <1>3, <1>6, FS_Subset
<1>8. Sum(w, U) = Sum(w, V) + w[x] /\ Sum(w, V) \in Nat /\ w[x] \in Nat
  <2>. HIDE DEF V
  <2>1. Sum(w, V \cup {x}) = Sum(w, V) + w[x]
    BY <1>7, SumAdds
  <2>2. Sum(w, V) \in Nat
    BY <1>7, SumIsNat
  <2>. QED
    BY <1>7, <2>1, <2>2
<1>9. V \in Bad
  BY <1>2, <1>3, <1>4, <1>6, <1>7, <1>8
<1>. QED
  BY <1>2, <1>6, <1>9

\* What one more of x adds to the sum.
LEMMA SumOfOneMore ==
  ASSUME NEW E, IsFiniteSet(E), NEW w, NEW v, \A t \in E : w[t] \in Nat, NEW x \in E,
         v[x] = w[x] + 1, \A t \in E : t # x => v[t] = w[t]
  PROVE  Sum(v, E) = Sum(w, E) + 1
<1> DEFINE V == E \ {x}
<1>1. IsFiniteSet(V) /\ x \notin V /\ E = V \cup {x}
  BY FS_Subset
<1>2. (\A t \in V \cup {x} : w[t] \in Nat) /\ (\A t \in V \cup {x} : v[t] \in Nat) /\ (\A t \in V : v[t] = w[t])
  OBVIOUS
<1>. HIDE DEF V
<1>3. Sum(v, V \cup {x}) = Sum(v, V) + v[x] /\ Sum(w, V \cup {x}) = Sum(w, V) + w[x]
  BY <1>1, <1>2, SumAdds
<1>4. Sum(v, V) = Sum(w, V)
  BY <1>1, <1>2, SumSame
<1>5. Sum(w, V) \in Nat
  BY <1>1, <1>2, SumIsNat
<1>. QED
  BY <1>1, <1>2, <1>3, <1>4, <1>5

\* What a function makes of the elements of a finite set is no more than they are.
LEMMA ImageFinite ==
  ASSUME NEW S, IsFiniteSet(S), NEW f
  PROVE  IsFiniteSet({f[x] : x \in S}) /\ Cardinality({f[x] : x \in S}) <= Cardinality(S)
<1> DEFINE T == {f[x] : x \in S}
           g == [x \in S |-> f[x]]
<1>1. g \in Surjection(S, T)
  <2>1. g \in [S -> T] /\ \A t \in T : \E s \in S : g[s] = t
    OBVIOUS
  <2>. HIDE DEF g, T
  <2>. QED
    BY <2>1, Fun_IsSurj
<1>. HIDE DEF g, T
<1>2. IsFiniteSet(T) /\ Cardinality(T) <= Cardinality(S)
  BY <1>1, FS_Surjection
<1>. QED
  BY <1>2 DEF T

\* What a function takes one to one to each other are as many.
LEMMA SameSize ==
  ASSUME NEW T, IsFiniteSet(T), NEW S, NEW f, \A x \in T : f[x] \in S,
         \A x, y \in T : f[x] = f[y] => x = y, \A s \in S : \E x \in T : f[x] = s
  PROVE  IsFiniteSet(S) /\ Cardinality(S) = Cardinality(T)
<1> DEFINE g == [s \in S |-> CHOOSE x \in T : f[x] = s]
<1>1. \A s \in S : g[s] \in T /\ f[g[s]] = s
  OBVIOUS
<1>. HIDE DEF g
<1>2. S = {f[x] : x \in T}
  OBVIOUS
<1>3. T = {g[s] : s \in S}
  <2>1. \A x \in T : f[x] \in S /\ g[f[x]] = x
    BY <1>1
  <2>. QED
    BY <1>1, <2>1
<1>4. IsFiniteSet(S) /\ Cardinality(S) <= Cardinality(T)
  BY <1>2, ImageFinite
<1>5. Cardinality(T) <= Cardinality(S)
  BY <1>3, <1>4, ImageFinite
<1>. QED
  BY <1>4, <1>5, FS_CardinalityType

(***************************************************************************)
(* Ranks in a strict total order.                                          *)
(***************************************************************************)

\* The elements of S that R puts before x.
Below(S, R, x) == {y \in S : <<y, x>> \in R}
Rank(S, R) == [x \in S |-> Cardinality(Below(S, R, x))]

StrictlyOrders(R, S) ==
  /\ \A x \in S : <<x, x>> \notin R
  /\ \A x, y, z \in S : <<x, y>> \in R /\ <<y, z>> \in R => <<x, z>> \in R
  /\ \A x, y \in S : x # y => <<x, y>> \in R \/ <<y, x>> \in R

\* The elements of a finite set have the ranks from 0 on, each another, in their order.
LEMMA RanksCount ==
  ASSUME NEW S, IsFiniteSet(S), NEW R, StrictlyOrders(R, S)
  PROVE  /\ Rank(S, R) \in [S -> 0..Cardinality(S)-1]
         /\ \A x, y \in S : <<x, y>> \in R => Rank(S, R)[x] < Rank(S, R)[y]
         /\ \A x, y \in S : Rank(S, R)[x] = Rank(S, R)[y] => x = y
         /\ \A k \in 0..Cardinality(S)-1 : \E x \in S : Rank(S, R)[x] = k
<1> DEFINE N == Cardinality(S)
           r == Rank(S, R)
<1>1. N \in Nat
  BY FS_CardinalityType
<1>2. ASSUME NEW x \in S
      PROVE  IsFiniteSet(Below(S, R, x)) /\ r[x] = Cardinality(Below(S, R, x)) /\ r[x] \in 0..N-1
  <2>1. Below(S, R, x) \subseteq S \ {x} /\ S \ {x} \subseteq S
    BY DEF Below, StrictlyOrders
  <2>2. IsFiniteSet(S \ {x}) /\ Cardinality(S \ {x}) = N - 1
    BY FS_RemoveElement
  <2>3. IsFiniteSet(Below(S, R, x)) /\ Cardinality(Below(S, R, x)) <= N - 1
    BY <2>1, <2>2, FS_Subset
  <2>4. Cardinality(Below(S, R, x)) \in Nat
    BY <2>3, FS_CardinalityType
  <2>. QED
    BY <1>1, <2>3, <2>4 DEF Rank
<1>3. r \in [S -> 0..N-1]
  BY <1>2 DEF Rank
<1>4. ASSUME NEW x \in S, NEW y \in S, <<x, y>> \in R
      PROVE  r[x] < r[y]
  <2>1. Below(S, R, x) \subseteq Below(S, R, y) /\ x \in Below(S, R, y) /\ x \notin Below(S, R, x)
    BY <1>4 DEF Below, StrictlyOrders
  <2>2. r[x] <= r[y] /\ r[x] # r[y]
    BY <1>2, <2>1, FS_Subset
  <2>. QED
    BY <1>2, <2>2
<1>5. ASSUME NEW x \in S, NEW y \in S, r[x] = r[y]
      PROVE  x = y
  <2>1. ~(r[x] < r[y]) /\ ~(r[y] < r[x])
    BY <1>2, <1>5
  <2>. QED
    BY <1>4, <2>1 DEF StrictlyOrders
<1>6. r \in Injection(S, 0..N-1)
  <2>. HIDE DEF r
  <2>. QED
    BY <1>3, <1>5, Fun_IsInj
<1>7. IsFiniteSet(0..N-1) /\ Cardinality(0..N-1) = N
  BY <1>1, FS_Interval
<1>8. r \in Surjection(S, 0..N-1)
  <2>. HIDE DEF r
  <2>. QED
    BY <1>6, <1>7, FS_Injection
<1>9. \A k \in 0..N-1 : \E x \in S : r[x] = k
  <2>. HIDE DEF r
  <2>. QED
    BY <1>8, Fun_SurjectionProperties
<1>. QED
  BY <1>3, <1>4, <1>5, <1>9

(***************************************************************************)
(* Folds over sequences.                                                   *)
(***************************************************************************)

\* h takes the elements of each subset of E, the one that m names last, by g.
Folds(h, E, m, A, base, g) ==
  /\ h \in [SUBSET E -> A]
  /\ \A s \in SUBSET E : h[s] = IF s = {} THEN base ELSE g[<<h[s \ {m[s]}], m[s]>>]

\* Folds that go on alike agree on what is in both.
LEMMA FoldsAgree ==
  ASSUME NEW T, IsFiniteSet(T), NEW D, NEW E, T \subseteq D, T \subseteq E,
         NEW m, \A s \in SUBSET T : s # {} => m[s] \in s,
         NEW A, NEW base, NEW g, NEW h, NEW f, Folds(h, D, m, A, base, g), Folds(f, E, m, A, base, g)
  PROVE  h[T] = f[T]
<1> DEFINE Bad == {U \in SUBSET T : h[U] # f[U]}
<1>. SUFFICES ASSUME Bad # {}
              PROVE  FALSE
  OBVIOUS
<1>0. Bad \subseteq SUBSET T
  OBVIOUS
<1>1. PICK U \in Bad : \A V \in Bad : V \subseteq U => V = U
  <2>. HIDE DEF Bad
  <2>. QED
    BY <1>0, SmallestSet
<1>2. U \subseteq D /\ U \subseteq E /\ U \subseteq T
  OBVIOUS
<1>3. h[U] = IF U = {} THEN base ELSE g[<<h[U \ {m[U]}], m[U]>>]
  BY <1>2 DEF Folds
<1>4. f[U] = IF U = {} THEN base ELSE g[<<f[U \ {m[U]}], m[U]>>]
  BY <1>2 DEF Folds
<1>5. CASE U = {}
  BY <1>3, <1>4, <1>5
<1>6. CASE U # {}
  <2>1. m[U] \in U
    BY <1>2, <1>6
  <2>2. U \ {m[U]} \notin Bad
    BY <1>1, <2>1
  <2>3. h[U \ {m[U]}] = f[U \ {m[U]}]
    BY <1>2, <2>2
  <2>. QED
    BY <1>3, <1>4, <1>6, <2>3
<1>. QED
  BY <1>5, <1>6

\* There is a fold.
LEMMA FoldExists ==
  ASSUME NEW E, IsFiniteSet(E), NEW m, \A s \in SUBSET E : s # {} => m[s] \in s,
         NEW A, NEW base \in A, NEW g, \A a \in A, x \in E : g[<<a, x>>] \in A
  PROVE  \E h : Folds(h, E, m, A, base, g)
<1> DEFINE Is(h, U) == Folds(h, U, m, A, base, g)
           Bad == {U \in SUBSET E : ~ \E h : Is(h, U)}
<1>. SUFFICES ASSUME Bad # {}
              PROVE  FALSE
  BY Zenon
<1>0. Bad \subseteq SUBSET E
  OBVIOUS
<1>1. PICK U \in Bad : \A V \in Bad : V \subseteq U => V = U
  <2>. HIDE DEF Bad
  <2>. QED
    BY <1>0, SmallestSet
<1> DEFINE H == [V \in SUBSET U |-> (CHOOSE h : Is(h, V))[V]]
           f == [s \in SUBSET U |-> IF s = {} THEN base ELSE g[<<H[s \ {m[s]}], m[s]>>]]
<1>2. U \subseteq E /\ IsFiniteSet(U)
  BY FS_Subset
<1>3. ASSUME NEW V \in SUBSET U, V # U
      PROVE  f[V] = H[V] /\ H[V] \in A
  <2>1. V \notin Bad /\ V \in SUBSET E
    BY <1>1, <1>2, <1>3
  <2>2. \E h : Is(h, V)
    BY <2>1
  <2>3. PICK h : Is(h, V) /\ H[V] = h[V]
    BY <2>2
  <2>4. h[V] = (IF V = {} THEN base ELSE g[<<h[V \ {m[V]}], m[V]>>]) /\ h[V] \in A
    BY <2>3 DEF Folds
  <2>5. CASE V = {}
    BY <2>3, <2>4, <2>5
  <2>6. CASE V # {}
    <3> DEFINE W == V \ {m[V]}
    <3>1. m[V] \in V
      BY <1>2, <2>6
    <3>2. W \subseteq U /\ W \subseteq V /\ W # U /\ IsFiniteSet(W) /\ W \in SUBSET E
      BY <1>2, <1>3, <3>1, FS_Subset
    <3>3. W \notin Bad
      BY <1>1, <3>2
    <3>4. \E k : Is(k, W)
      BY <3>2, <3>3
    <3>5. PICK k : Is(k, W) /\ H[W] = k[W]
      BY <3>2, <3>4
    <3>6. k[W] = h[W]
      <4>1. \A s \in SUBSET W : s # {} => m[s] \in s
        BY <3>2
      <4>. HIDE DEF W, H, f
      <4>. QED
        BY <2>3, <3>2, <3>5, <4>1, FoldsAgree
    <3>7. f[V] = g[<<H[W], m[V]>>]
      BY <2>6
    <3>. QED
      BY <2>3, <2>4, <2>6, <3>5, <3>6, <3>7
  <2>. QED
    BY <2>5, <2>6
<1>4. ASSUME NEW s \in SUBSET U, s # {}
      PROVE  H[s \ {m[s]}] = f[s \ {m[s]}] /\ H[s \ {m[s]}] \in A /\ m[s] \in E
  <2>1. m[s] \in s
    BY <1>2, <1>4
  <2>. HIDE DEF H, f
  <2>. QED
    BY <1>2, <1>3, <2>1
<1>5. f \in [SUBSET U -> A]
  <2>1. \A s \in SUBSET U : (IF s = {} THEN base ELSE g[<<H[s \ {m[s]}], m[s]>>]) \in A
    <3>. HIDE DEF H, f
    <3>. QED
      BY <1>4
  <2>. HIDE DEF H
  <2>. QED
    BY <2>1
<1>6. \A s \in SUBSET U : f[s] = IF s = {} THEN base ELSE g[<<f[s \ {m[s]}], m[s]>>]
  <2>1. \A s \in SUBSET U : f[s] = IF s = {} THEN base ELSE g[<<H[s \ {m[s]}], m[s]>>]
    OBVIOUS
  <2>. HIDE DEF H, f
  <2>. QED
    BY <1>4, <2>1
<1>7. Is(f, U)
  <2>. HIDE DEF H, f
  <2>. QED
    BY <1>5, <1>6 DEF Folds
<1>8. \E h : Is(h, U)
  BY <1>7
<1>. QED
  BY <1>8

\* The largest of some numbers up to n is one of them.
LEMMA MaxIsOne ==
  ASSUME NEW n \in Nat, NEW s \in SUBSET (1..n), s # {}
  PROVE  Max(s) \in s /\ \A k \in s : k <= Max(s)
<1> DEFINE left == {n - k : k \in s}
<1>1. left \in SUBSET Nat /\ left # {}
  <2>1. \A k \in s : n - k \in Nat
    OBVIOUS
  <2>2. \E k : k \in s
    OBVIOUS
  <2>. QED
    BY <2>1, <2>2
<1>2. PICK l \in left : \A k \in left : l <= k
  <2>. HIDE DEF left
  <2>. QED
    BY <1>1, SmallestNat
<1>3. PICK k \in s : l = n - k
  OBVIOUS
<1>4. \A j \in s : k >= j
  <2>. SUFFICES ASSUME NEW j \in s
                PROVE  k >= j
    OBVIOUS
  <2>1. n - j \in left
    OBVIOUS
  <2>2. l <= n - j
    BY <1>2, <2>1
  <2>3. j \in Nat /\ k \in Nat
    OBVIOUS
  <2>. QED
    BY <1>3, <2>2, <2>3
<1>5. \E x \in s : \A y \in s : x >= y
  BY <1>4
<1>6. Max(s) \in s /\ \A y \in s : Max(s) >= y
  BY <1>5 DEF Max
<1>. QED
  BY <1>6

\* Counting from 0 to n one stays in S.
LEMMA CountUp ==
  ASSUME NEW n \in Nat, NEW S, 0 \in S, \A k \in 1..n : k - 1 \in S => k \in S
  PROVE  \A k \in 0..n : k \in S
<1> DEFINE Out == {k \in 0..n : k \notin S}
<1>. SUFFICES ASSUME Out # {}
              PROVE  FALSE
  OBVIOUS
<1>1. PICK k \in Out : \A j \in Out : k <= j
  <2>1. Out \in SUBSET Nat
    OBVIOUS
  <2>. HIDE DEF Out
  <2>. QED
    BY <2>1, SmallestNat
<1>2. k \in 1..n /\ k - 1 \in 0..n /\ k - 1 \in Nat /\ ~(k <= k - 1)
  OBVIOUS
<1>3. k - 1 \notin Out
  BY <1>1, <1>2
<1>. QED
  BY <1>2, <1>3

\* h is the fold over 1..n, which takes the largest number last.
FoldsLeft(h, n, A, base, g) ==
  /\ h = [s \in SUBSET (1..n) |-> IF s = {} THEN base ELSE g[<<h[s \ {Max(s)}], Max(s)>>]]
  /\ \A s \in SUBSET (1..n) : h[s] \in A

\* There is one.
LEMMA FoldLeftExists ==
  ASSUME NEW n \in Nat, NEW A, NEW base \in A, NEW g, \A a \in A, k \in 1..n : g[<<a, k>>] \in A
  PROVE  \E h : FoldsLeft(h, n, A, base, g)
<1> DEFINE E == 1..n
           m == [s \in SUBSET E |-> Max(s)]
<1>1. IsFiniteSet(E)
  BY FS_Interval
<1>2. \A s \in SUBSET E : s # {} => m[s] \in s
  BY MaxIsOne
<1>3. PICK h : Folds(h, E, m, A, base, g)
  <2>. HIDE DEF E, m
  <2>. QED
    BY <1>1, <1>2, FoldExists DEF E
<1>4. \A s \in SUBSET E : h[s] = IF s = {} THEN base ELSE g[<<h[s \ {Max(s)}], Max(s)>>]
  BY <1>3 DEF Folds
<1>5. h \in [SUBSET E -> A]
  BY <1>3 DEF Folds
<1>6. h = [s \in SUBSET E |-> h[s]]
  BY <1>5
<1>7. h = [s \in SUBSET E |-> IF s = {} THEN base ELSE g[<<h[s \ {Max(s)}], Max(s)>>]]
  <2>. HIDE DEF E
  <2>. QED
    BY <1>4, <1>6, Zenon
<1>. QED
  BY <1>5, <1>7 DEF FoldsLeft

\* The fold takes the last element last.
LEMMA OneMore ==
  ASSUME NEW n \in Nat, NEW k \in 1..n
  PROVE  1..k \in SUBSET (1..n) /\ 1..k # {} /\ Max(1..k) = k /\ (1..k) \ {k} = 1..k-1
<1>1. 1..k \in SUBSET (1..n) /\ k \in 1..k /\ (1..k) \ {k} = 1..k-1
  OBVIOUS
<1>2. Max(1..k) \in 1..k /\ k <= Max(1..k)
  BY <1>1, MaxIsOne
<1>3. \A i \in 1..k : k <= i => i = k
  OBVIOUS
<1>4. Max(1..k) = k
  BY <1>2, <1>3, Zenon
<1>5. 1..k # {}
  BY <1>1
<1>. QED
  BY <1>1, <1>4, <1>5, Zenon

(***************************************************************************)
(* One element more.                                                       *)
(***************************************************************************)

\* t is s with x put in at place m.
Inserted(s, t, m, x) ==
  /\ m \in 1..Len(s) + 1
  /\ Len(t) = Len(s) + 1
  /\ \A k \in 1..m-1 : t[k] = s[k]
  /\ t[m] = x
  /\ \A k \in m..Len(s) : t[k+1] = s[k]

\* An element put last.
LEMMA InsertedLast ==
  ASSUME NEW X, NEW s \in Seq(X), NEW x \in X
  PROVE  Append(s, x) \in Seq(X) /\ Inserted(s, Append(s, x), Len(s) + 1, x)
<1>1. /\ Append(s, x) \in Seq(X)
      /\ Len(Append(s, x)) = Len(s) + 1
      /\ \A i \in 1..Len(s) : Append(s, x)[i] = s[i]
      /\ Append(s, x)[Len(s) + 1] = x
  BY AppendProperties
<1>2. Len(s) \in Nat
  BY LenProperties
<1> DEFINE n == Len(s)
           t == Append(s, x)
<1>. HIDE DEF n, t
<1>3. n + 1 \in 1..n + 1 /\ (\A k \in 1..n + 1 - 1 : k \in 1..n) /\ \A k \in n + 1..n : FALSE
  BY <1>2 DEF n
<1>4. /\ \A k \in 1..n + 1 - 1 : t[k] = s[k]
      /\ Len(t) = n + 1 /\ t[n + 1] = x
  BY <1>1, <1>3 DEF n, t
<1>. QED
  BY <1>1, <1>3, <1>4 DEF Inserted, n, t

\* What comes after it moves on.
LEMMA InsertedRight ==
  ASSUME NEW X, NEW s \in Seq(X), NEW t \in Seq(X), NEW v \in Seq(X), NEW m, NEW x, Inserted(s, t, m, x)
  PROVE  Inserted(s \o v, t \o v, m, x)
<1> DEFINE n == Len(s)
           l == Len(v)
           a == s \o v
           b == t \o v
<1>1. /\ Len(a) = n + l
      /\ \A i \in 1..n + l : a[i] = IF i <= n THEN s[i] ELSE v[i - n]
  BY ConcatProperties
<1>2. /\ Len(b) = Len(t) + l
      /\ \A i \in 1..Len(t) + l : b[i] = IF i <= Len(t) THEN t[i] ELSE v[i - Len(t)]
  BY ConcatProperties
<1>3. n \in Nat /\ l \in Nat /\ Len(t) = n + 1
  BY LenProperties DEF Inserted
<1>4. /\ m \in 1..n + 1
      /\ \A k \in 1..m-1 : t[k] = s[k]
      /\ t[m] = x
      /\ \A k \in m..n : t[k+1] = s[k]
  BY DEF Inserted
<1>. HIDE DEF n, l, a, b
<1>5. \A i \in 1..n + 1 + l : b[i] = IF i <= n + 1 THEN t[i] ELSE v[i - (n + 1)]
  BY <1>2, <1>3
<1>6. ASSUME NEW k \in 1..m-1
      PROVE  b[k] = a[k]
  <2>1. k \in 1..n /\ k \in 1..n + l /\ k \in 1..n + 1 + l /\ k <= n + 1 /\ k <= n
    BY <1>3, <1>4
  <2>. QED
    BY <1>1, <1>4, <1>5, <2>1
<1>7. b[m] = x
  <2>1. m \in 1..n + 1 + l /\ m <= n + 1
    BY <1>3, <1>4
  <2>. QED
    BY <1>4, <1>5, <2>1
<1>8. ASSUME NEW k \in m..n + l
      PROVE  b[k + 1] = a[k]
  <2>1. k \in 1..n + l /\ k + 1 \in 1..n + 1 + l
    BY <1>3, <1>4
  <2>2. CASE k <= n
    <3>1. k \in m..n /\ k + 1 <= n + 1
      BY <1>3, <1>4, <2>2
    <3>. QED
      BY <1>1, <1>4, <1>5, <2>1, <2>2, <3>1
  <2>3. CASE ~(k <= n)
    <3>1. ~(k + 1 <= n + 1) /\ k + 1 - (n + 1) = k - n
      BY <1>3, <1>4, <2>3
    <3>2. a[k] = v[k - n]
      BY <1>1, <2>1, <2>3
    <3>3. b[k + 1] = v[k + 1 - (n + 1)]
      <4>1. PICK j \in 1..n + 1 + l : j = k + 1 /\ ~(j <= n + 1)
        BY <2>1, <3>1
      <4>2. b[j] = v[j - (n + 1)]
        BY <1>5, <4>1
      <4>3. j \in Int /\ k \in Int /\ n \in Int
        BY <1>3, <1>4
      <4>. QED
        BY <4>1, <4>2, <4>3
    <3>. QED
      BY <3>1, <3>2, <3>3
  <2>. QED
    BY <2>2, <2>3
<1>9. m \in 1..Len(a) + 1 /\ Len(b) = Len(a) + 1
  BY <1>1, <1>2, <1>3, <1>4
<1>10. \A k \in m..Len(a) : b[k + 1] = a[k]
  BY <1>1, <1>8
<1>. QED
  BY <1>6, <1>7, <1>9, <1>10 DEF Inserted, a, b

\* What comes before it stays.
LEMMA InsertedLeft ==
  ASSUME NEW X, NEW s \in Seq(X), NEW t \in Seq(X), NEW u \in Seq(X), NEW m, NEW x, Inserted(s, t, m, x)
  PROVE  Inserted(u \o s, u \o t, Len(u) + m, x)
<1> DEFINE n == Len(s)
           l == Len(u)
           a == u \o s
           b == u \o t
<1>1. /\ Len(a) = l + n
      /\ \A i \in 1..l + n : a[i] = IF i <= l THEN u[i] ELSE s[i - l]
  BY ConcatProperties
<1>2. /\ Len(b) = l + Len(t)
      /\ \A i \in 1..l + Len(t) : b[i] = IF i <= l THEN u[i] ELSE t[i - l]
  BY ConcatProperties
<1>3. n \in Nat /\ l \in Nat /\ Len(t) = n + 1
  BY LenProperties DEF Inserted
<1>4. /\ m \in 1..n + 1
      /\ \A k \in 1..m-1 : t[k] = s[k]
      /\ t[m] = x
      /\ \A k \in m..n : t[k+1] = s[k]
  BY DEF Inserted
<1>. HIDE DEF n, l, a, b
<1>5. \A i \in 1..l + (n + 1) : b[i] = IF i <= l THEN u[i] ELSE t[i - l]
  BY <1>2, <1>3
<1>6. ASSUME NEW k \in 1..l + m - 1
      PROVE  b[k] = a[k]
  <2>1. k \in 1..l + n /\ k \in 1..l + (n + 1)
    BY <1>3, <1>4
  <2>2. CASE k <= l
    BY <1>1, <1>5, <2>1, <2>2
  <2>3. CASE ~(k <= l)
    <3>1. k - l \in 1..m-1
      BY <1>3, <1>4, <2>3
    <3>. QED
      BY <1>1, <1>4, <1>5, <2>1, <2>3, <3>1
  <2>. QED
    BY <2>2, <2>3
<1>7. b[l + m] = x
  <2>1. l + m \in 1..l + (n + 1) /\ ~(l + m <= l) /\ l + m - l = m
    BY <1>3, <1>4
  <2>2. b[l + m] = t[l + m - l]
    <3>1. PICK j \in 1..l + (n + 1) : j = l + m /\ ~(j <= l)
      BY <2>1
    <3>2. b[j] = t[j - l]
      BY <1>5, <3>1
    <3>3. j \in Int /\ l \in Int /\ m \in Int
      BY <1>3, <1>4
    <3>. QED
      BY <3>1, <3>2, <3>3
  <2>. QED
    BY <1>4, <2>1, <2>2
<1>8. ASSUME NEW k \in l + m..l + n
      PROVE  b[k + 1] = a[k]
  <2>1. k \in 1..l + n /\ k + 1 \in 1..l + (n + 1) /\ ~(k <= l) /\ ~(k + 1 <= l)
    BY <1>3, <1>4
  <2>2. k - l \in m..n /\ k + 1 - l = (k - l) + 1
    BY <1>3, <1>4
  <2>3. t[(k - l) + 1] = s[k - l]
    BY <1>4, <2>2
  <2>4. a[k] = s[k - l]
    BY <1>1, <2>1
  <2>5. b[k + 1] = t[k + 1 - l]
    <3>1. PICK j \in 1..l + (n + 1) : j = k + 1 /\ ~(j <= l)
      BY <2>1
    <3>2. b[j] = t[j - l]
      BY <1>5, <3>1
    <3>3. j \in Int /\ l \in Int /\ m \in Int
      BY <1>3, <1>4
    <3>. QED
      BY <3>1, <3>2, <3>3
  <2>. QED
    BY <2>2, <2>3, <2>4, <2>5
<1>9. l + m \in 1..Len(a) + 1 /\ Len(b) = Len(a) + 1
  BY <1>1, <1>2, <1>3, <1>4
<1>10. \A k \in l + m..Len(a) : b[k + 1] = a[k]
  BY <1>1, <1>8
<1>. QED
  BY <1>6, <1>7, <1>9, <1>10 DEF Inserted, a, b, l

\* Where the k-th is once something is put in at place m.
Shift(m, k) == IF k < m THEN k ELSE k + 1

\* All that is there was there before, in the same order, but for what was put in.
Shifted(s, t, m, x) ==
  /\ Len(s) \in Nat /\ m \in 1..Len(s) + 1 /\ Len(t) = Len(s) + 1 /\ t[m] = x
  /\ \A k \in 1..Len(s) : Shift(m, k) \in 1..Len(t) /\ Shift(m, k) # m /\ t[Shift(m, k)] = s[k]
  /\ \A j \in 1..Len(t) : j # m => \E k \in 1..Len(s) : j = Shift(m, k)
  /\ \A k, l \in 1..Len(s) : k < l <=> Shift(m, k) < Shift(m, l)

\* Putting something in shifts the others.
LEMMA InsertedShifts ==
  ASSUME NEW X, NEW s \in Seq(X), NEW t, NEW m, NEW x, Inserted(s, t, m, x)
  PROVE  Shifted(s, t, m, x)
<1> DEFINE n == Len(s)
<1>1. n \in Nat
  BY LenProperties
<1>2. /\ m \in 1..n + 1 /\ Len(t) = n + 1 /\ t[m] = x
      /\ \A k \in 1..m-1 : t[k] = s[k]
      /\ \A k \in m..n : t[k+1] = s[k]
  BY DEF Inserted
<1>. HIDE DEF n
<1>3. ASSUME NEW k \in 1..n
      PROVE  Shift(m, k) \in 1..n + 1 /\ Shift(m, k) # m /\ t[Shift(m, k)] = s[k]
  <2>1. CASE k < m
    <3>1. Shift(m, k) = k /\ k \in 1..m-1 /\ k \in 1..n + 1 /\ k # m
      BY <1>1, <1>2, <2>1 DEF Shift
    <3>. QED
      BY <1>2, <3>1
  <2>2. CASE ~(k < m)
    <3>1. Shift(m, k) = k + 1 /\ k \in m..n /\ k + 1 \in 1..n + 1 /\ k + 1 # m
      BY <1>1, <1>2, <2>2 DEF Shift
    <3>. QED
      BY <1>2, <3>1
  <2>. QED
    BY <2>1, <2>2
<1>4. ASSUME NEW j \in 1..n + 1, j # m
      PROVE  \E k \in 1..n : j = Shift(m, k)
  <2>1. CASE j < m
    <3>1. j \in 1..n /\ j = Shift(m, j)
      BY <1>1, <1>2, <2>1 DEF Shift
    <3>. QED
      BY <3>1
  <2>2. CASE ~(j < m)
    <3>1. PICK k \in 1..n : j = k + 1 /\ ~(k < m)
      BY <1>1, <1>2, <1>4, <2>2
    <3>. QED
      BY <3>1 DEF Shift
  <2>. QED
    BY <2>1, <2>2
<1>5. \A k, l \in 1..n : k < l <=> Shift(m, k) < Shift(m, l)
  BY <1>1, <1>2 DEF Shift
<1>. QED
  BY <1>1, <1>2, <1>3, <1>4, <1>5 DEF Shifted, n
=============================================================================
