--------------------------- MODULE RankingProofs ---------------------------
(***************************************************************************)
(* Theorems of Ranking, for any references, texts, specs and bounds.       *)
(*                                                                         *)
(* A review is made anew of the contract and the submission whenever they  *)
(* are listed, so the inductive invariant (RankingInv) says little of the  *)
(* reviews but that they are that.  What a review is worth follows from    *)
(* what the rules make of any contract and any submission (WellReviewed):  *)
(* how evidence answers requirements (WellMatched), how points are given   *)
(* (Scored) and what is missing.  The folds the rules are written with are *)
(* unfolded once, into the recursion over the first k elements that they   *)
(* are (OnceSteps, AnswersSteps).                                          *)
(*                                                                         *)
(* The ranking is a sort by keys of which no two are the same (SortKeys);  *)
(* classifying is choosing the greatest of some scores (TopFacts).         *)
(*                                                                         *)
(* Two reviews are compared by following both folds at once: with one file *)
(* more there is one item more (ItemsGrow), of which at every requirement  *)
(* one at most is free besides what was free without it (Spare).           *)
(***************************************************************************)
EXTENDS Ranking, FoldProofs

(***************************************************************************)
(* Which files are looked at.                                              *)
(***************************************************************************)

\* m tells where each of those comes from.
PicksOut(m, those, seq, at) ==
  /\ m \in [1..Len(those) -> at]
  /\ \A k \in 1..Len(those) : those[k] = seq[m[k]]
  /\ \A j, k \in 1..Len(those) : m[j] = m[k] => j = k
  /\ \A i \in at : \E k \in 1..Len(those) : m[k] = i

\* Those picks out exactly the elements that are in S.
LEMMA ThoseFacts ==
  ASSUME NEW X, NEW seq \in Seq(X), NEW S
  PROVE  LET at == {i \in 1..Len(seq) : seq[i] \in S}
         IN /\ Those(seq, S) \in Seq(X \cap S)
            /\ IsFiniteSet(at)
            /\ Len(Those(seq, S)) = Cardinality(at)
            /\ Cardinality(at) \in 0..Len(seq)
            /\ \E m : PicksOut(m, Those(seq, S), seq, at)
<1> DEFINE at == {i \in 1..Len(seq) : seq[i] \in S}
           N == Cardinality(at)
           R == {p \in at \X at : p[1] < p[2]}
           m == [k \in 1..N |-> CHOOSE i \in at : Cardinality({j \in at : j < i}) = k - 1]
<1>1. Len(seq) \in Nat /\ DOMAIN seq = 1..Len(seq) /\ \A i \in at : seq[i] \in X \cap S
  BY LenProperties, ElementOfSeq
<1>2. IsFiniteSet(at) /\ N \in 0..Len(seq)
  <2>1. IsFiniteSet(1..Len(seq)) /\ Cardinality(1..Len(seq)) = Len(seq)
    BY <1>1, FS_Interval
  <2>2. at \in SUBSET (1..Len(seq))
    OBVIOUS
  <2>3. IsFiniteSet(at) /\ N <= Len(seq)
    BY <2>1, <2>2, FS_Subset
  <2>4. N \in Nat
    BY <2>3, FS_CardinalityType
  <2>. QED
    BY <1>1, <2>3, <2>4
<1>3. StrictlyOrders(R, at)
  BY <1>1 DEF StrictlyOrders
<1>4. \A i \in at : Rank(at, R)[i] = Cardinality({j \in at : j < i})
  <2>1. \A i \in at : Below(at, R, i) = {j \in at : j < i}
    BY DEF Below
  <2>. QED
    BY <2>1 DEF Rank
<1>. HIDE DEF at, R
<1>5. /\ \A i \in at : Rank(at, R)[i] \in 0..N-1
      /\ \A i, j \in at : Rank(at, R)[i] = Rank(at, R)[j] => i = j
      /\ \A k \in 0..N-1 : \E i \in at : Rank(at, R)[i] = k
  BY <1>2, <1>3, RanksCount
<1>6. ASSUME NEW k \in 1..N
      PROVE  m[k] \in at /\ Rank(at, R)[m[k]] = k - 1
  <2>1. k - 1 \in 0..N-1
    BY <1>2
  <2>2. \E i \in at : Cardinality({j \in at : j < i}) = k - 1
    BY <1>4, <1>5, <2>1
  <2>3. m[k] \in at /\ Cardinality({j \in at : j < m[k]}) = k - 1
    BY <2>2
  <2>. QED
    BY <1>4, <2>3
<1>7. m \in [1..N -> at]
  BY <1>6
<1>8. Those(seq, S) = [k \in 1..N |-> seq[m[k]]]
  BY <1>1 DEF Those, at
<1>. HIDE DEF m
<1>9. \A j, k \in 1..N : m[j] = m[k] => j = k
  BY <1>2, <1>6
<1>10. ASSUME NEW i \in at
       PROVE  \E k \in 1..N : m[k] = i
  <2> DEFINE k == Rank(at, R)[i] + 1
  <2>1. Rank(at, R)[i] \in 0..N-1
    BY <1>5
  <2>2. k \in 1..N /\ k - 1 = Rank(at, R)[i]
    BY <1>2, <2>1
  <2>3. m[k] = i
    BY <1>5, <1>6, <2>2
  <2>. QED
    BY <2>2, <2>3
<1>11. Those(seq, S) \in Seq(X \cap S) /\ Len(Those(seq, S)) = N
  <2>1. \A k \in 1..N : seq[m[k]] \in X \cap S
    BY <1>1, <1>7
  <2>2. N \in Nat
    BY <1>2
  <2>3. Those(seq, S) \in [1..N -> X \cap S]
    BY <1>8, <2>1
  <2>. QED
    BY <2>2, <2>3
<1>12. \A k \in 1..N : Those(seq, S)[k] = seq[m[k]]
  BY <1>8
<1>13. PicksOut(m, Those(seq, S), seq, at)
  BY <1>7, <1>9, <1>10, <1>11, <1>12 DEF PicksOut
<1>. QED
  BY <1>2, <1>11, <1>13 DEF at

\* A reference to a file that is already there is left out.
OnceStep(items, ref) ==
  IF \E k \in DOMAIN items : items[k].file = ref.file THEN items ELSE Append(items, ref)

\* Once goes through the references one by one.
LEMMA OnceSteps ==
  ASSUME NEW X, NEW refs \in Seq(X)
  PROVE  \E p : /\ p[0] = <<>>
                /\ \A k \in 1..Len(refs) : p[k] = OnceStep(p[k-1], refs[k])
                /\ Once(refs) = p[Len(refs)]
<1> DEFINE n == Len(refs)
           A == Seq(X)
           g == [q \in A \X (1..n) |-> OnceStep(q[1], refs[q[2]])]
           Is(h) == h = [s \in SUBSET (1..n) |->
                           IF s = {} THEN <<>> ELSE OnceStep(h[s \ {Max(s)}], refs[Max(s)])]
           F == CHOOSE h : Is(h)
           p == [k \in 0..n |-> F[1..k]]
<1>1. n \in Nat /\ DOMAIN refs = 1..n /\ \A k \in 1..n : refs[k] \in X
  BY LenProperties, ElementOfSeq
<1>2. <<>> \in A
  BY EmptySeq
<1>3. \A a \in A, k \in 1..n : g[<<a, k>>] = OnceStep(a, refs[k]) /\ g[<<a, k>>] \in A
  <2>. SUFFICES ASSUME NEW a \in A, NEW k \in 1..n
                PROVE  OnceStep(a, refs[k]) \in A
    OBVIOUS
  <2>1. Append(a, refs[k]) \in A
    BY <1>1, AppendProperties
  <2>. QED
    BY <2>1 DEF OnceStep
<1>4. \E h : Is(h)
  <2>1. PICK h : FoldsLeft(h, n, A, <<>>, g)
    <3>. HIDE DEF g, n, A
    <3>1. n \in Nat /\ \A a \in A, k \in 1..n : g[<<a, k>>] \in A
      BY <1>1, <1>3
    <3>. QED
      BY <1>2, <3>1, FoldLeftExists
  <2>2. \A s \in SUBSET (1..n) : s # {} => s \ {Max(s)} \in SUBSET (1..n) /\ Max(s) \in 1..n
    BY <1>1, MaxIsOne
  <2>3. \A s \in SUBSET (1..n) :
          (IF s = {} THEN <<>> ELSE g[<<h[s \ {Max(s)}], Max(s)>>])
            = IF s = {} THEN <<>> ELSE OnceStep(h[s \ {Max(s)}], refs[Max(s)])
    <3>. HIDE DEF g, n, A
    <3>. QED
      BY <1>3, <2>1, <2>2 DEF FoldsLeft
  <2>4. Is(h)
    <3>. HIDE DEF g, n, A
    <3>. QED
      BY <2>1, <2>3, Zenon DEF FoldsLeft
  <2>. QED
    BY <2>4
<1>5. Once(refs) = F[1..n]
  BY <1>1 DEF Once, OnceStep, FoldLeft, MapThenFoldSet
<1>6. Is(F)
  <2>. HIDE DEF Is
  <2>. QED
    BY <1>4
<1>7. F[{}] = <<>>
  BY <1>6
<1>8. \A k \in 1..n : F[1..k] = OnceStep(F[1..k-1], refs[k])
  <2>. SUFFICES ASSUME NEW k \in 1..n
                PROVE  F[1..k] = OnceStep(F[1..k-1], refs[k])
    OBVIOUS
  <2>1. 1..k \in SUBSET (1..n) /\ 1..k # {} /\ Max(1..k) = k /\ (1..k) \ {k} = 1..k-1
    BY <1>1, OneMore
  <2>2. F[1..k] = OnceStep(F[(1..k) \ {Max(1..k)}], refs[Max(1..k)])
    <3>. HIDE DEF F
    <3>. QED
      BY <1>6, <2>1
  <2>. HIDE DEF F
  <2>. QED
    BY <2>1, <2>2
<1>. HIDE DEF F
<1>9. p[0] = <<>>
  <2>1. 1..0 = {} /\ 0 \in 0..n
    BY <1>1
  <2>. QED
    BY <1>7, <2>1
<1>10. \A k \in 1..n : p[k] = OnceStep(p[k-1], refs[k])
  BY <1>1, <1>8
<1>11. Once(refs) = p[n]
  BY <1>1, <1>5
<1>. QED
  BY <1>9, <1>10, <1>11

\* Once keeps no file twice.
LEMMA OnceFacts ==
  ASSUME NEW X, NEW refs \in Seq(X)
  PROVE  /\ Once(refs) \in Seq(X)
         /\ Len(Once(refs)) <= Len(refs)
         /\ \A i, j \in 1..Len(Once(refs)) : Once(refs)[i].file = Once(refs)[j].file => i = j
<1> DEFINE n == Len(refs)
           Distinct(s) == \A i, j \in 1..Len(s) : s[i].file = s[j].file => i = j
<1>1. PICK p : /\ p[0] = <<>>
               /\ \A k \in 1..n : p[k] = OnceStep(p[k-1], refs[k])
               /\ Once(refs) = p[n]
  BY OnceSteps
<1> DEFINE Good(k) == p[k] \in Seq(X) /\ Len(p[k]) <= k /\ Distinct(p[k])
           S == {k \in 0..n : Good(k)}
<1>2. n \in Nat /\ \A k \in 1..n : refs[k] \in X
  BY LenProperties, ElementOfSeq
<1>3. 0 \in S
  <2>1. p[0] \in Seq(X) /\ Len(p[0]) = 0
    BY <1>1, EmptySeq
  <2>. QED
    BY <1>2, <2>1
<1>4. ASSUME NEW k \in 1..n, k - 1 \in S
      PROVE  k \in S
  <2> DEFINE s == p[k-1]
  <2>1. s \in Seq(X) /\ Len(s) <= k - 1 /\ Distinct(s)
    BY <1>4
  <2>2. p[k] = OnceStep(s, refs[k])
    BY <1>1
  <2>3. Len(s) \in Nat /\ DOMAIN s = 1..Len(s) /\ refs[k] \in X
    BY <1>2, <2>1, LenProperties
  <2>. HIDE DEF s
  <2>4. CASE \E j \in DOMAIN s : s[j].file = refs[k].file
    <3>1. p[k] = s
      BY <2>2, <2>4 DEF OnceStep
    <3>. QED
      BY <1>2, <2>1, <2>3, <3>1
  <2>5. CASE ~ \E j \in DOMAIN s : s[j].file = refs[k].file
    <3> DEFINE t == Append(s, refs[k])
    <3>1. p[k] = t
      BY <2>2, <2>5 DEF OnceStep
    <3>2. /\ t \in Seq(X) /\ Len(t) = Len(s) + 1
          /\ \A i \in 1..Len(s) : t[i] = s[i]
          /\ t[Len(s) + 1] = refs[k]
      BY <2>1, <2>3, AppendProperties
    <3>. HIDE DEF t
    <3>3. ASSUME NEW i \in 1..Len(t), NEW j \in 1..Len(t), t[i].file = t[j].file
          PROVE  i = j
      <4>1. CASE i \in 1..Len(s) /\ j \in 1..Len(s)
        BY <2>1, <3>2, <3>3, <4>1
      <4>2. CASE i = Len(s) + 1 /\ j \in 1..Len(s)
        BY <2>3, <2>5, <3>2, <3>3, <4>2
      <4>3. CASE j = Len(s) + 1 /\ i \in 1..Len(s)
        BY <2>3, <2>5, <3>2, <3>3, <4>3
      <4>4. CASE i = Len(s) + 1 /\ j = Len(s) + 1
        BY <4>4
      <4>. QED
        BY <2>3, <3>2, <4>1, <4>2, <4>3, <4>4
    <3>4. Len(t) <= k
      BY <2>1, <2>3, <3>2
    <3>5. Good(k)
      BY <3>1, <3>2, <3>3, <3>4
    <3>. QED
      BY <1>2, <3>5
  <2>. QED
    BY <2>4, <2>5
<1>5. n \in S
  <2>. HIDE DEF S, n
  <2>1. \A k \in 0..n : k \in S
    BY <1>2, <1>3, <1>4, CountUp
  <2>. QED
    BY <1>2, <2>1
<1>. QED
  BY <1>1, <1>5

\* No more items are looked at than there are references.
LEMMA RawFacts ==
  ASSUME NEW X, NEW submission, submission.refs \in Seq(X)
  PROVE  Raw(submission) \in Seq(X) /\ Len(Raw(submission)) <= Len(submission.refs)
<1> DEFINE refs == submission.refs
           n == Len(refs)
           At(place) == {r \in Range(refs) : r.place = place}
           signatures == {r \in At("content") : r.file.form = "signature"}
           shown == {r \in At("media") : \E i \in At("inline") : i.file = r.file}
           I == At("inline")
           C == At("content") \ signatures
           G == signatures
           M == At("media") \ shown
           Where(S) == {i \in 1..n : refs[i] \in S}
<1>1. Raw(submission) = Those(refs, I) \o Those(refs, C) \o Those(refs, G) \o Those(refs, M)
  BY DEF Raw
<1>2. /\ Where(I) \cap Where(C) = {}
      /\ (Where(I) \cup Where(C)) \cap Where(G) = {}
      /\ (Where(I) \cup Where(C) \cup Where(G)) \cap Where(M) = {}
  OBVIOUS
<1>. HIDE DEF I, C, G, M
<1>3. ASSUME NEW S
      PROVE  /\ Those(refs, S) \in Seq(X)
             /\ IsFiniteSet(Where(S))
             /\ Len(Those(refs, S)) = Cardinality(Where(S))
             /\ Cardinality(Where(S)) \in Nat
  <2>1. /\ Those(refs, S) \in Seq(X \cap S)
        /\ IsFiniteSet(Where(S))
        /\ Len(Those(refs, S)) = Cardinality(Where(S))
    BY ThoseFacts
  <2>2. X \cap S \subseteq X
    OBVIOUS
  <2>. QED
    BY <2>1, <2>2, SeqMonotonic, FS_CardinalityType
<1>4. n \in Nat /\ IsFiniteSet(1..n) /\ Cardinality(1..n) = n
  <2>1. n \in Nat
    BY LenProperties
  <2>. QED
    BY <2>1, FS_Interval
<1> DEFINE IC == Where(I) \cup Where(C)
           ICG == IC \cup Where(G)
           All == ICG \cup Where(M)
<1>5. IsFiniteSet(IC) /\ Cardinality(IC) = Cardinality(Where(I)) + Cardinality(Where(C))
  BY <1>2, <1>3, Disjoint, Zenon
<1>6. IsFiniteSet(ICG) /\ Cardinality(ICG) = Cardinality(IC) + Cardinality(Where(G))
  BY <1>2, <1>3, <1>5, Disjoint, Zenon
<1>7. IsFiniteSet(All) /\ Cardinality(All) = Cardinality(ICG) + Cardinality(Where(M))
  BY <1>2, <1>3, <1>6, Disjoint, Zenon
<1>8. Cardinality(All) <= n
  <2>1. All \in SUBSET (1..n)
    OBVIOUS
  <2>. QED
    BY <1>4, <2>1, FS_Subset
<1>. HIDE DEF Where, IC, ICG, All, refs, n
<1>9. Raw(submission) \in Seq(X)
      /\ Len(Raw(submission)) = Cardinality(Where(I)) + Cardinality(Where(C)) + Cardinality(Where(G)) + Cardinality(Where(M))
  BY <1>1, <1>3, ConcatProperties
<1>. QED
  BY <1>3, <1>5, <1>6, <1>7, <1>8, <1>9 DEF refs, n

(***************************************************************************)
(* Evidence.                                                               *)
(***************************************************************************)

EvidenceAnswer(n) == [outcome : EvidenceOutcome, item : 0..n]

WillDo(req) == FullKinds(req.kind) \cup UnverifiedKinds(req.kind)

\* take finds an item exactly when there is one.
LEMMA FirstFreeFacts ==
  ASSUME NEW X, NEW items \in Seq(X), NEW used, NEW kinds
  PROVE  LET item == FirstFree(items, used, kinds)
         IN /\ item \in 0..Len(items)
            /\ item # NoItem => item \notin used /\ Kind(items[item]) \in kinds
            /\ item = NoItem => \A k \in 1..Len(items) : Kind(items[k]) \in kinds => k \in used
<1> DEFINE free == {k \in DOMAIN items : k \notin used /\ Kind(items[k]) \in kinds}
           item == FirstFree(items, used, kinds)
<1>1. Len(items) \in Nat /\ DOMAIN items = 1..Len(items)
  BY LenProperties
<1>2. CASE free = {}
  BY <1>1, <1>2 DEF FirstFree, NoItem
<1>3. CASE free # {}
  <2>1. free \in SUBSET Nat
    BY <1>1
  <2>2. \E k \in free : \A j \in free : k <= j
    <3>. HIDE DEF free
    <3>. QED
      BY <1>3, <2>1, SmallestNat
  <2>3. item = CHOOSE k \in free : \A j \in free : k <= j
    BY <1>3 DEF FirstFree
  <2>4. item \in free
    BY <2>2, <2>3
  <2>. QED
    BY <1>1, <2>4 DEF NoItem
<1>. QED
  BY <1>2, <1>3

\* Nothing used is used again, and missing is only what nothing unused will do for.
LEMMA AnswerFacts ==
  ASSUME NEW X, NEW items \in Seq(X), NEW req, NEW used, NEW text
  PROVE  LET answer == Answer(req, items, used, text)
         IN /\ answer \in EvidenceAnswer(Len(items))
            /\ answer.item # NoItem => answer.item \notin used
            /\ answer.outcome = "missing" =>
                 \A k \in 1..Len(items) : Kind(items[k]) \in WillDo(req) => k \in used
<1> DEFINE full == FirstFree(items, used, FullKinds(req.kind))
           rest == FirstFree(items, used, UnverifiedKinds(req.kind))
           item == IF full # NoItem THEN full ELSE rest
           answer == Answer(req, items, used, text)
<1>1. /\ full \in 0..Len(items)
      /\ full # NoItem => full \notin used
      /\ full = NoItem => \A k \in 1..Len(items) : Kind(items[k]) \in FullKinds(req.kind) => k \in used
  BY FirstFreeFacts
<1>2. /\ rest \in 0..Len(items)
      /\ rest # NoItem => rest \notin used
      /\ rest = NoItem => \A k \in 1..Len(items) : Kind(items[k]) \in UnverifiedKinds(req.kind) => k \in used
  BY FirstFreeFacts
<1>3. answer.item = item /\ answer.outcome \in EvidenceOutcome /\ answer = [outcome |-> answer.outcome, item |-> item]
  BY DEF Answer, OutcomeOf, EvidenceOutcome
<1>4. answer.outcome = "missing" => req.kind = "text" \/ item = NoItem
  BY DEF Answer, OutcomeOf
<1>5. req.kind = "text" => WillDo(req) = {}
  BY DEF WillDo, FullKinds, UnverifiedKinds
<1>. HIDE DEF full, rest, answer
<1>6. answer \in EvidenceAnswer(Len(items))
  <2>1. item \in 0..Len(items)
    BY <1>1, <1>2
  <2>. HIDE DEF item
  <2>. QED
    BY <1>3, <2>1 DEF EvidenceAnswer
<1>7. answer.item # NoItem => answer.item \notin used
  BY <1>1, <1>2, <1>3
<1>8. ASSUME answer.outcome = "missing", NEW k \in 1..Len(items), Kind(items[k]) \in WillDo(req)
      PROVE  k \in used
  <2>1. full = NoItem /\ rest = NoItem
    BY <1>4, <1>5, <1>8
  <2>. QED
    BY <1>1, <1>2, <1>8, <2>1 DEF WillDo
<1>. QED
  BY <1>6, <1>7, <1>8 DEF answer

\* Every requirement has its turn, once, and the required ones come first.
LEMMA OrderFacts ==
  ASSUME NEW X, NEW reqs \in Seq(X)
  PROVE  LET order == Order(reqs)
         IN /\ order \in Seq(1..Len(reqs))
            /\ \A j, k \in 1..Len(order) : order[j] = order[k] => j = k
            /\ \A i \in 1..Len(reqs) : \E k \in 1..Len(order) : order[k] = i
            /\ \A j, k \in 1..Len(order) :
                 j < k /\ reqs[order[k]].required => reqs[order[j]].required
<1> DEFINE n == Len(reqs)
           listed == [i \in 1..n |-> i]
           T == {i \in 1..n : reqs[i].required}
           F == (1..n) \ T
           first == Those(listed, T)
           last == Those(listed, F)
           order == Order(reqs)
<1>1. n \in Nat /\ DOMAIN reqs = 1..n
  BY LenProperties
<1>2. listed \in Seq(1..n) /\ Len(listed) = n
  BY <1>1
<1>3. order = first \o last
  BY <1>1 DEF Order
<1>4. ASSUME NEW S \in SUBSET (1..n)
      PROVE  /\ Those(listed, S) \in Seq(S)
             /\ \A j, k \in 1..Len(Those(listed, S)) : Those(listed, S)[j] = Those(listed, S)[k] => j = k
             /\ \A i \in S : \E k \in 1..Len(Those(listed, S)) : Those(listed, S)[k] = i
  <2> DEFINE at == {i \in 1..Len(listed) : listed[i] \in S}
             those == Those(listed, S)
  <2>1. at = S /\ (1..n) \cap S = S
    BY <1>2
  <2>2. those \in Seq((1..n) \cap S) /\ \E m : PicksOut(m, those, listed, at)
    <3>. HIDE DEF listed
    <3>. QED
      BY <1>2, ThoseFacts
  <2>3. PICK m : PicksOut(m, those, listed, at)
    BY <2>2
  <2>. HIDE DEF at, those
  <2>4. \A k \in 1..Len(those) : those[k] = m[k]
    BY <2>1, <2>3 DEF PicksOut
  <2>. HIDE DEF listed
  <2>5. \A j, k \in 1..Len(those) : those[j] = those[k] => j = k
    BY <2>3, <2>4 DEF PicksOut
  <2>6. \A i \in S : \E k \in 1..Len(those) : those[k] = i
    BY <2>1, <2>3, <2>4 DEF PicksOut
  <2>. QED
    BY <2>1, <2>2, <2>5, <2>6 DEF those
<1>. HIDE DEF listed
<1>5. /\ first \in Seq(T)
      /\ \A j, k \in 1..Len(first) : first[j] = first[k] => j = k
      /\ \A i \in T : \E k \in 1..Len(first) : first[k] = i
  BY <1>4
<1>6. /\ last \in Seq(F)
      /\ \A j, k \in 1..Len(last) : last[j] = last[k] => j = k
      /\ \A i \in F : \E k \in 1..Len(last) : last[k] = i
  BY <1>4
<1>. HIDE DEF first, last, order
<1>7. /\ Len(first) \in Nat /\ Len(last) \in Nat
      /\ \A k \in 1..Len(first) : first[k] \in T
      /\ \A k \in 1..Len(last) : last[k] \in F
  BY <1>5, <1>6, LenProperties, ElementOfSeq
<1>8. /\ order \in Seq(1..n)
      /\ Len(order) = Len(first) + Len(last)
      /\ \A i \in 1..Len(first) + Len(last) : order[i] = IF i <= Len(first) THEN first[i] ELSE last[i - Len(first)]
  <2>1. first \in Seq(1..n) /\ last \in Seq(1..n)
    BY <1>5, <1>6, SeqMonotonic
  <2>. QED
    BY <1>3, <2>1, ConcatProperties
<1>9. ASSUME NEW k \in 1..Len(order)
      PROVE  IF k <= Len(first) THEN k \in 1..Len(first) /\ order[k] = first[k] /\ order[k] \in T
             ELSE /\ k - Len(first) \in 1..Len(last)
                  /\ order[k] = last[k - Len(first)] /\ order[k] \in F
  BY <1>7, <1>8
<1>10. ASSUME NEW j \in 1..Len(order), NEW k \in 1..Len(order), order[j] = order[k]
       PROVE  j = k
  <2>1. CASE j <= Len(first) /\ k <= Len(first)
    BY <1>5, <1>9, <1>10, <2>1
  <2>2. CASE ~(j <= Len(first)) /\ ~(k <= Len(first))
    <3>1. /\ j - Len(first) \in 1..Len(last) /\ order[j] = last[j - Len(first)]
          /\ k - Len(first) \in 1..Len(last) /\ order[k] = last[k - Len(first)]
      BY <1>9, <2>2
    <3>2. j - Len(first) = k - Len(first)
      BY <1>6, <1>10, <3>1, Zenon
    <3>. QED
      BY <1>7, <1>8, <3>2
  <2>3. ~(order[j] \in T /\ order[k] \in F) /\ ~(order[j] \in F /\ order[k] \in T)
    BY <1>10
  <2>. QED
    BY <1>9, <2>1, <2>2, <2>3
<1>11. ASSUME NEW i \in 1..n
       PROVE  \E k \in 1..Len(order) : order[k] = i
  <2>1. CASE i \in T
    <3>1. PICK k \in 1..Len(first) : first[k] = i
      BY <1>5, <2>1
    <3>2. k \in 1..Len(order) /\ k <= Len(first) /\ k \in 1..Len(first) + Len(last)
      BY <1>7, <1>8
    <3>. QED
      BY <1>8, <3>1, <3>2
  <2>2. CASE i \in F
    <3>1. PICK k \in 1..Len(last) : last[k] = i
      BY <1>6, <2>2
    <3> DEFINE l == k + Len(first)
    <3>2. l \in 1..Len(order) /\ ~(l <= Len(first)) /\ l \in 1..Len(first) + Len(last) /\ l - Len(first) = k
      BY <1>7, <1>8
    <3>. HIDE DEF l
    <3>. QED
      BY <1>8, <3>1, <3>2
  <2>. QED
    BY <2>1, <2>2
<1>12. ASSUME NEW j \in 1..Len(order), NEW k \in 1..Len(order), j < k, reqs[order[k]].required
       PROVE  reqs[order[j]].required
  <2>1. k <= Len(first)
    BY <1>9, <1>12
  <2>2. j <= Len(first)
    BY <1>7, <1>8, <1>12, <2>1
  <2>. QED
    BY <1>9, <2>2
<1>. QED
  BY <1>8, <1>10, <1>11, <1>12 DEF order

\* Nobody has answered anything yet, and one more requirement is settled.
Nothing(n) == [i \in 1..n |-> [outcome |-> "missing", item |-> NoItem]]
AnswersStep(answers, reqs, items, text, i) ==
  LET used == {answers[j].item : j \in DOMAIN answers}
  IN [answers EXCEPT ![i] = Answer(reqs[i], items, used, text)]

\* Answers settles the requirements one by one.
LEMMA AnswersSteps ==
  ASSUME NEW X, NEW reqs \in Seq(X), NEW Y, NEW items \in Seq(Y), NEW text
  PROVE  LET n == Len(reqs)
             order == Order(reqs)
         IN \E p : /\ \A k \in 0..Len(order) : p[k] \in [1..n -> EvidenceAnswer(Len(items))]
                   /\ p[0] = Nothing(n)
                   /\ \A k \in 1..Len(order) : p[k] = AnswersStep(p[k-1], reqs, items, text, order[k])
                   /\ Answers(reqs, items, text) = p[Len(order)]
<1> DEFINE n == Len(reqs)
           order == Order(reqs)
           l == Len(order)
           A == [1..n -> EvidenceAnswer(Len(items))]
           Step(answers, i) == AnswersStep(answers, reqs, items, text, i)
           g == [q \in A \X (1..l) |-> Step(q[1], order[q[2]])]
           Is(h) == h = [s \in SUBSET (1..l) |->
                           IF s = {} THEN Nothing(n) ELSE Step(h[s \ {Max(s)}], order[Max(s)])]
           F == CHOOSE h : Is(h)
           p == [k \in 0..l |-> F[1..k]]
<1>1. n \in Nat /\ DOMAIN reqs = 1..n /\ Len(items) \in Nat
  BY LenProperties
<1>2. order \in Seq(1..n)
  BY OrderFacts
<1>3. l \in Nat /\ DOMAIN order = 1..l /\ \A k \in 1..l : order[k] \in 1..n
  <2>. HIDE DEF order
  <2>. QED
    BY <1>2, LenProperties, ElementOfSeq
<1>. HIDE DEF order
<1>4. Nothing(n) \in A
  BY <1>1 DEF Nothing, EvidenceAnswer, EvidenceOutcome, NoItem
<1>5. \A a \in A, i \in 1..n : Step(a, i) \in A
  <2>. SUFFICES ASSUME NEW a \in A, NEW i \in 1..n
                PROVE  Step(a, i) \in A
    OBVIOUS
  <2> DEFINE used == {a[j].item : j \in DOMAIN a}
             answer == Answer(reqs[i], items, used, text)
  <2>1. answer \in EvidenceAnswer(Len(items))
    BY AnswerFacts
  <2>2. Step(a, i) = [a EXCEPT ![i] = answer]
    BY DEF AnswersStep
  <2>. HIDE DEF answer
  <2>. QED
    BY <2>1, <2>2
<1>. HIDE DEF Step
<1>6. \A a \in A, k \in 1..l : g[<<a, k>>] = Step(a, order[k]) /\ g[<<a, k>>] \in A
  <2>. HIDE DEF A, n
  <2>. QED
    BY <1>3, <1>5
<1>. HIDE DEF A
<1>7. \E h : Is(h) /\ \A s \in SUBSET (1..l) : h[s] \in A
  <2>1. PICK h : FoldsLeft(h, l, A, Nothing(n), g)
    <3>. HIDE DEF g, l, n
    <3>1. l \in Nat /\ \A a \in A, k \in 1..l : g[<<a, k>>] \in A
      BY <1>3, <1>6
    <3>. QED
      BY <1>4, <3>1, FoldLeftExists
  <2>2. \A s \in SUBSET (1..l) : s # {} => s \ {Max(s)} \in SUBSET (1..l) /\ Max(s) \in 1..l
    BY <1>3, MaxIsOne
  <2>. HIDE DEF g, l, n
  <2>3. \A s \in SUBSET (1..l) : h[s] \in A
    BY <2>1 DEF FoldsLeft
  <2>4. \A s \in SUBSET (1..l) :
          (IF s = {} THEN Nothing(n) ELSE g[<<h[s \ {Max(s)}], Max(s)>>])
            = IF s = {} THEN Nothing(n) ELSE Step(h[s \ {Max(s)}], order[Max(s)])
    BY <1>6, <2>2, <2>3
  <2>5. Is(h)
    BY <2>1, <2>4, Zenon DEF FoldsLeft
  <2>. QED
    BY <2>3, <2>5
<1>8. Answers(reqs, items, text) = F[1..l]
  BY <1>1, <1>3 DEF Answers, Nothing, FoldLeft, MapThenFoldSet, Step, AnswersStep, order
<1>9. Is(F)
  <2>. HIDE DEF Is
  <2>. QED
    BY <1>7
<1>10. F[{}] = Nothing(n)
  BY <1>9
<1>11. \A k \in 1..l : F[1..k] = Step(F[1..k-1], order[k])
  <2>. SUFFICES ASSUME NEW k \in 1..l
                PROVE  F[1..k] = Step(F[1..k-1], order[k])
    OBVIOUS
  <2>1. 1..k \in SUBSET (1..l) /\ 1..k # {} /\ Max(1..k) = k /\ (1..k) \ {k} = 1..k-1
    BY <1>3, OneMore
  <2>. HIDE DEF F
  <2>2. F[1..k] = Step(F[(1..k) \ {Max(1..k)}], order[Max(1..k)])
    BY <1>9, <2>1
  <2>. QED
    BY <2>1, <2>2
<1>. HIDE DEF F
<1>12. p[0] = Nothing(n)
  <2>1. 1..0 = {} /\ 0 \in 0..l
    BY <1>3
  <2>. QED
    BY <1>10, <2>1
<1>13. \A k \in 1..l : p[k] = Step(p[k-1], order[k])
  BY <1>3, <1>11
<1>14. Answers(reqs, items, text) = p[l]
  BY <1>3, <1>8
<1>15. \A k \in 0..l : p[k] \in A
  <2> DEFINE S == {k \in 0..l : p[k] \in A}
  <2>. HIDE DEF p, l, n
  <2>1. 0 \in S
    BY <1>3, <1>4, <1>12
  <2>2. \A k \in 1..l : k - 1 \in S => k \in S
    BY <1>3, <1>5, <1>13
  <2>3. \A k \in 0..l : k \in S
    <3>. HIDE DEF S
    <3>. QED
      BY <1>3, <2>1, <2>2, CountUp
  <2>. QED
    BY <2>3
<1>. QED
  BY <1>12, <1>13, <1>14, <1>15 DEF A, Step, order

\* Evidence is matched once and without waste, and the required first.
WellMatched(answers, reqs, items) ==
  /\ answers \in [1..Len(reqs) -> EvidenceAnswer(Len(items))]
  /\ \A i, j \in 1..Len(reqs) :
       i # j /\ answers[i].item # NoItem => answers[i].item # answers[j].item
  /\ \A i \in 1..Len(reqs), k \in 1..Len(items) :
       answers[i].outcome = "missing" /\ Kind(items[k]) \in WillDo(reqs[i]) =>
         \E j \in 1..Len(reqs) :
           /\ answers[j].item = k
           /\ reqs[i].required => reqs[j].required

\* However many requirements and files there are, they end up well matched.
LEMMA AnswersFacts ==
  ASSUME NEW X, NEW reqs \in Seq(X), NEW Y, NEW items \in Seq(Y), NEW text
  PROVE  WellMatched(Answers(reqs, items, text), reqs, items)
<1> DEFINE n == Len(reqs)
           order == Order(reqs)
           l == Len(order)
           A == [1..n -> EvidenceAnswer(Len(items))]
           Done(k) == {order[j] : j \in 1..k}
<1>1. n \in Nat /\ Len(items) \in Nat
  BY LenProperties
<1>2. /\ order \in Seq(1..n)
      /\ \A j, k \in 1..l : order[j] = order[k] => j = k
      /\ \A i \in 1..n : \E k \in 1..l : order[k] = i
      /\ \A j, k \in 1..l : j < k /\ reqs[order[k]].required => reqs[order[j]].required
  BY OrderFacts
<1>3. PICK p : /\ \A k \in 0..l : p[k] \in A
               /\ p[0] = Nothing(n)
               /\ \A k \in 1..l : p[k] = AnswersStep(p[k-1], reqs, items, text, order[k])
               /\ Answers(reqs, items, text) = p[l]
  BY AnswersSteps
<1>. HIDE DEF order
<1>4. l \in Nat /\ \A k \in 1..l : order[k] \in 1..n
  BY <1>2, LenProperties, ElementOfSeq
<1> DEFINE Untouched(k) == \A i \in (1..n) \ Done(k) : p[k][i].item = NoItem
           Single(k) == \A i, j \in 1..n : i # j /\ p[k][i].item # NoItem => p[k][i].item # p[k][j].item
           NoWaste(k) ==
             \A i \in Done(k), x \in 1..Len(items) :
               p[k][i].outcome = "missing" /\ Kind(items[x]) \in WillDo(reqs[i]) =>
                 \E j \in Done(k) : p[k][j].item = x /\ (reqs[i].required => reqs[j].required)
           S == {k \in 0..l : Untouched(k) /\ Single(k) /\ NoWaste(k)}
<1>5. 0 \in S
  <2>1. \A i \in 1..n : p[0][i].item = NoItem
    BY <1>3 DEF Nothing
  <2>2. Done(0) = {}
    OBVIOUS
  <2>3. 0 \in 0..l
    BY <1>4
  <2>4. Untouched(0) /\ Single(0)
    BY <2>1
  <2>5. NoWaste(0)
    BY <2>2
  <2>. QED
    BY <2>3, <2>4, <2>5
<1>6. ASSUME NEW k \in 1..l, k - 1 \in S
      PROVE  k \in S
  <2> DEFINE a == p[k-1]
             b == p[k]
             i == order[k]
             used == {a[j].item : j \in 1..n}
             answer == Answer(reqs[i], items, used, text)
  <2>1. k - 1 \in 0..l /\ k \in 0..l /\ a \in A /\ i \in 1..n
    BY <1>3, <1>4
  <2>2. b = [a EXCEPT ![i] = answer]
    <3>1. DOMAIN a = 1..n
      BY <2>1
    <3>. QED
      BY <1>3, <3>1 DEF AnswersStep
  <2>3. /\ answer.item \in 0..Len(items)
        /\ answer.item # NoItem => answer.item \notin used
        /\ answer.outcome = "missing" =>
             \A x \in 1..Len(items) : Kind(items[x]) \in WillDo(reqs[i]) => x \in used
    BY AnswerFacts DEF EvidenceAnswer
  <2>. HIDE DEF answer
  <2>4. b[i] = answer /\ \A j \in 1..n : j # i => b[j] = a[j]
    <3>. HIDE DEF i
    <3>. QED
      BY <2>1, <2>2
  <2>5. Done(k) = Done(k-1) \cup {i} /\ i \notin Done(k-1)
    <3>1. 1..k = (1..k-1) \cup {k} /\ k \notin 1..k-1 /\ 1..k \subseteq 1..l
      BY <1>4
    <3>2. i \notin Done(k-1)
      BY <1>2, <3>1
    <3>. QED
      BY <3>1, <3>2
  <2>6. Done(k-1) \subseteq 1..n
    BY <1>4
  <2>7. Untouched(k-1) /\ Single(k-1) /\ NoWaste(k-1)
    BY <1>6
  <2>8. a[i].item = NoItem
    BY <2>1, <2>5, <2>7
  <2>9. \A j \in Done(k-1) : reqs[i].required => reqs[j].required
    <3>. SUFFICES ASSUME NEW m \in 1..k-1, reqs[i].required
                  PROVE  reqs[order[m]].required
      OBVIOUS
    <3>1. m \in 1..l /\ m < k
      BY <1>4
    <3>. QED
      BY <1>2, <3>1
  <2>. HIDE DEF a, b, i, Done
  <2>10. Untouched(k)
    <3>. SUFFICES ASSUME NEW j \in (1..n) \ Done(k)
                  PROVE  b[j].item = NoItem
      BY DEF b
    <3>1. j # i /\ j \in (1..n) \ Done(k-1)
      BY <2>5
    <3>. QED
      BY <2>4, <2>7, <3>1 DEF a
  <2>11. Single(k)
    <3>. SUFFICES ASSUME NEW j \in 1..n, NEW m \in 1..n, j # m, b[j].item # NoItem, b[j].item = b[m].item
                  PROVE  FALSE
      BY DEF b
    <3>1. CASE j # i /\ m # i
      BY <2>4, <2>7, <3>1 DEF a
    <3>2. CASE j = i /\ m # i
      BY <2>3, <2>4, <3>2
    <3>3. CASE j # i /\ m = i
      BY <2>3, <2>4, <3>3
    <3>. QED
      BY <3>1, <3>2, <3>3
  <2>12. NoWaste(k)
    <3>. SUFFICES ASSUME NEW j \in Done(k), NEW x \in 1..Len(items),
                         b[j].outcome = "missing", Kind(items[x]) \in WillDo(reqs[j])
                  PROVE  \E m \in Done(k) : b[m].item = x /\ (reqs[j].required => reqs[m].required)
      BY DEF b
    <3>1. ASSUME NEW m \in Done(k-1)
          PROVE  m \in Done(k) /\ b[m] = a[m]
      BY <2>4, <2>5, <2>6
    <3>2. CASE j = i
      <4>1. x \in used
        BY <2>3, <2>4, <3>2
      <4>2. PICK m \in 1..n : a[m].item = x
        BY <4>1
      <4>3. m \in Done(k-1)
        <5>1. a[m].item # NoItem
          BY <4>2 DEF NoItem
        <5>. QED
          BY <2>7, <5>1 DEF a
      <4>. QED
        BY <2>9, <3>1, <3>2, <4>2, <4>3
    <3>3. CASE j \in Done(k-1)
      <4>1. PICK m \in Done(k-1) : a[m].item = x /\ (reqs[j].required => reqs[m].required)
        BY <2>7, <3>1, <3>3 DEF a
      <4>. QED
        BY <3>1, <4>1
    <3>. QED
      BY <2>5, <3>2, <3>3
  <2>. QED
    BY <2>1, <2>10, <2>11, <2>12
<1>7. l \in S
  <2>. HIDE DEF S
  <2>1. \A k \in 0..l : k \in S
    BY <1>4, <1>5, <1>6, CountUp
  <2>. QED
    BY <1>4, <2>1
<1>8. Done(l) = 1..n
  BY <1>2, <1>4
<1>9. p[l] \in A
  BY <1>3, <1>4
<1>10. Single(l) /\ NoWaste(l)
  BY <1>7
<1> DEFINE b == p[l]
<1>11. \A i, j \in 1..n : i # j /\ b[i].item # NoItem => b[i].item # b[j].item
  BY <1>10
<1>12. \A i \in 1..n, x \in 1..Len(items) :
         b[i].outcome = "missing" /\ Kind(items[x]) \in WillDo(reqs[i]) =>
           \E j \in 1..n : b[j].item = x /\ (reqs[i].required => reqs[j].required)
  <2>. HIDE DEF Done
  <2>. QED
    BY <1>8, <1>10
<1>. HIDE DEF b
<1>13. b \in [1..n -> EvidenceAnswer(Len(items))] /\ Answers(reqs, items, text) = b
  BY <1>3, <1>9 DEF b
<1>. QED
  BY <1>11, <1>12, <1>13 DEF WellMatched

(***************************************************************************)
(* The score.                                                              *)
(***************************************************************************)

\* Rounding stays within the most that there is to get.
LEMMA RoundedBound ==
  ASSUME NEW num \in Nat, NEW den \in Nat, den > 0, NEW M \in Nat, num <= M * den
  PROVE  Rounded(num, den) \in 0..M
<1> DEFINE q == num \div den
           r == num % den
<1>1. q \in Nat /\ r \in 0..den-1 /\ num = den * q + r
  OBVIOUS
<1>2. Rounded(num, den) = IF 2 * r > den \/ (2 * r = den /\ q % 2 = 1) THEN q + 1 ELSE q
  BY DEF Rounded
<1>. HIDE DEF q, r
<1>3. q <= M
  <2>. SUFFICES ASSUME q >= M + 1
                PROVE  FALSE
    BY <1>1
  <2>1. den * q >= den * (M + 1)
    BY <1>1
  <2>2. den * (M + 1) = M * den + den
    OBVIOUS
  <2>3. den * q \in Nat /\ M * den \in Nat
    BY <1>1
  <2>. QED
    BY <1>1, <2>1, <2>2, <2>3
<1>4. CASE q = M
  <2>1. den * q = M * den /\ M * den \in Nat
    BY <1>4
  <2>2. r = 0
    BY <1>1, <2>1
  <2>. QED
    BY <1>2, <1>4, <2>2
<1>5. CASE q < M
  BY <1>1, <1>2, <1>5
<1>. QED
  BY <1>1, <1>3, <1>4, <1>5

\* Few parts round up to all of the points only when there are as many parts.
LEMMA RoundedFull ==
  ASSUME NEW num \in Nat, NEW den \in Nat, den > 0, NEW M \in Nat,
         num <= M * den - M, den < 2 * M
  PROVE  Rounded(num, den) # M
<1> DEFINE q == num \div den
           r == num % den
<1>1. q \in Nat /\ r \in 0..den-1 /\ num = den * q + r
  OBVIOUS
<1>2. Rounded(num, den) = IF 2 * r > den \/ (2 * r = den /\ q % 2 = 1) THEN q + 1 ELSE q
  BY DEF Rounded
<1>. HIDE DEF q, r
<1>3. M * den \in Nat /\ den * q \in Nat
  BY <1>1
<1>4. ASSUME q = M
      PROVE  FALSE
  <2>1. den * q = M * den
    BY <1>4
  <2>. QED
    BY <1>1, <1>3, <2>1
<1>5. ASSUME q + 1 = M, 2 * r >= den
      PROVE  FALSE
  <2>1. den * q + den = M * den
    BY <1>1, <1>5
  <2>. QED
    BY <1>1, <1>3, <1>5, <2>1
<1>. QED
  BY <1>1, <1>2, <1>4, <1>5

\* A natural number has one quotient.
LEMMA OneQuotient ==
  ASSUME NEW b \in Nat, NEW q \in Int, NEW r \in 0..b-1, NEW u \in Int, NEW v \in 0..b-1,
         b * q + r = b * u + v
  PROVE  q = u /\ r = v
<1>1. ASSUME NEW i \in Int, NEW j \in Int, i < j
      PROVE  b * i + b <= b * j
  <2>1. b * (i + 1) <= b * j
    <3> DEFINE k == j - (i + 1)
    <3>1. k \in Nat /\ j = (i + 1) + k
      BY <1>1
    <3>. HIDE DEF k
    <3>2. b * k \in Nat
      BY <3>1
    <3>3. b * j = b * (i + 1) + b * k
      BY <3>1
    <3>. QED
      BY <3>2, <3>3
  <2>2. b * (i + 1) = b * i + b
    OBVIOUS
  <2>. QED
    BY <2>1, <2>2
<1>2. b * q \in Int /\ b * u \in Int
  OBVIOUS
<1>3. ~(q < u)
  BY <1>1, <1>2
<1>4. ~(u < q)
  BY <1>1, <1>2
<1>. QED
  BY <1>2, <1>3, <1>4

\* Rounding by quotient and rest.
LEMMA RoundedBy ==
  ASSUME NEW den \in Nat, NEW q \in Nat, NEW r \in 0..den-1
  PROVE  Rounded(den * q + r, den) = IF 2 * r > den \/ (2 * r = den /\ q % 2 = 1) THEN q + 1 ELSE q
<1> DEFINE num == den * q + r
           u == num \div den
           v == num % den
<1>1. num \in Nat /\ den > 0
  <2>1. den * q \in Nat
    OBVIOUS
  <2>. QED
    BY <2>1
<1>2. Rounded(num, den) = IF 2 * v > den \/ (2 * v = den /\ u % 2 = 1) THEN u + 1 ELSE u
  BY DEF Rounded
<1>3. u \in Nat /\ v \in 0..den-1 /\ num = den * u + v
  <2>. HIDE DEF num
  <2>. QED
    BY <1>1
<1>4. den * q + r = den * u + v
  BY <1>3
<1>. HIDE DEF u, v
<1>5. q = u /\ r = v
  BY <1>3, <1>4, OneQuotient
<1>. QED
  BY <1>2, <1>5

\* A larger share is not rounded to less.
LEMMA RoundedMonotone ==
  ASSUME NEW a \in Nat, NEW b \in Nat, b > 0, NEW c \in Nat, NEW d \in Nat, d > 0, a * d <= c * b
  PROVE  Rounded(a, b) <= Rounded(c, d)
<1> DEFINE q == a \div b
           r == a % b
           u == c \div d
           v == c % d
<1>1. q \in Nat /\ r \in 0..b-1 /\ a = b * q + r
  OBVIOUS
<1>2. u \in Nat /\ v \in 0..d-1 /\ c = d * u + v
  OBVIOUS
<1>3. Rounded(a, b) = IF 2 * r > b \/ (2 * r = b /\ q % 2 = 1) THEN q + 1 ELSE q
  BY DEF Rounded
<1>4. Rounded(c, d) = IF 2 * v > d \/ (2 * v = d /\ u % 2 = 1) THEN u + 1 ELSE u
  BY DEF Rounded
<1>. HIDE DEF q, r, u, v
<1> DEFINE e == b * d
<1>5. e \in Nat /\ e > 0
  <2>1. \A x, y \in Nat : x > 0 /\ y > 0 => x * y \in Nat /\ x * y > 0
    OBVIOUS
  <2>. QED
    BY <2>1
<1>6. a * d = e * q + r * d /\ c * b = e * u + v * b
  <2>1. a * d = (b * q + r) * d
    BY <1>1
  <2>2. (b * q + r) * d = (b * d) * q + r * d
    BY <1>1
  <2>3. c * b = (d * u + v) * b
    BY <1>2
  <2>4. (d * u + v) * b = (b * d) * u + v * b
    BY <1>2
  <2>. QED
    BY <2>1, <2>2, <2>3, <2>4
<1>7. r * d \in Nat /\ v * b \in Nat /\ v * b + b <= e /\ r * d + d <= e
  <2>1. \A x \in Nat, y \in Nat, z \in Nat : z <= x - 1 => z * y \in Nat /\ z * y + y <= x * y
    <3>. SUFFICES ASSUME NEW x \in Nat, NEW y \in Nat, NEW z \in Nat, z <= x - 1
                  PROVE  z * y \in Nat /\ z * y + y <= x * y
      OBVIOUS
    <3> DEFINE w == x - 1 - z
    <3>1. w \in Nat /\ x = z + 1 + w
      OBVIOUS
    <3>. HIDE DEF w
    <3>2. x * y = z * y + y + w * y /\ w * y \in Nat /\ z * y \in Nat
      BY <3>1
    <3>. QED
      BY <3>2
  <2>2. v * b + b <= d * b /\ v * b \in Nat
    BY <1>2, <2>1
  <2>3. r * d + d <= b * d /\ r * d \in Nat
    BY <1>1, <2>1
  <2>4. d * b = b * d
    OBVIOUS
  <2>. QED
    BY <2>2, <2>3, <2>4
<1>8. q <= u
  <2>. SUFFICES ASSUME u < q
                PROVE  FALSE
    BY <1>1, <1>2
  <2> DEFINE w == q - (u + 1)
  <2>1. w \in Nat /\ q = u + 1 + w
    BY <1>1, <1>2
  <2>. HIDE DEF w, e
  <2>2. e * q = e * u + e + e * w /\ e * w \in Nat /\ e * u \in Nat
    BY <1>2, <1>5, <2>1
  <2>. QED
    BY <1>5, <1>6, <1>7, <2>2
<1>9. CASE q < u
  BY <1>1, <1>2, <1>3, <1>4, <1>9
<1>10. CASE q = u
  <2>1. r * d <= v * b
    <3>1. e * q = e * u /\ e * u \in Nat
      BY <1>2, <1>5, <1>10
    <3>. HIDE DEF e
    <3>. QED
      BY <1>6, <1>7, <3>1
  <2>2. ASSUME 2 * r >= b
        PROVE  2 * v >= d
    <3>. SUFFICES ASSUME 2 * v < d
                  PROVE  FALSE
      BY <1>2
    <3>1. \A x \in Nat, y \in Nat, z \in Nat : x >= y => x * z >= y * z
      OBVIOUS
    <3>2. (2 * r) * d >= b * d
      BY <1>1, <2>2, <3>1
    <3>3. \A x \in Nat, y \in Nat, z \in Nat : x < y /\ z > 0 => x * z < y * z
      OBVIOUS
    <3>4. (2 * v) * b < d * b
      BY <1>2, <3>3
    <3>5. (2 * r) * d = 2 * (r * d) /\ (2 * v) * b = 2 * (v * b) /\ d * b = b * d
      BY <1>1, <1>2
    <3>. QED
      BY <1>5, <1>7, <2>1, <3>2, <3>4, <3>5
  <2>3. ASSUME 2 * r > b
        PROVE  2 * v > d
    <3>. SUFFICES ASSUME 2 * v <= d
                  PROVE  FALSE
      BY <1>2
    <3>1. \A x \in Nat, y \in Nat, z \in Nat : x >= y => x * z >= y * z
      OBVIOUS
    <3>2. d * b >= (2 * v) * b
      BY <1>2, <3>1
    <3>3. \A x \in Nat, y \in Nat, z \in Nat : x < y /\ z > 0 => x * z < y * z
      OBVIOUS
    <3>4. b * d < (2 * r) * d
      BY <1>1, <2>3, <3>3
    <3>5. (2 * r) * d = 2 * (r * d) /\ (2 * v) * b = 2 * (v * b) /\ d * b = b * d
      BY <1>1, <1>2
    <3>. QED
      BY <1>5, <1>7, <2>1, <3>2, <3>4, <3>5
  <2>. QED
    BY <1>1, <1>2, <1>3, <1>4, <1>10, <2>2, <2>3
<1>. QED
  BY <1>1, <1>2, <1>8, <1>9, <1>10

\* Thirty points more are thirty points more when rounded.
LEMMA RoundedPlus ==
  ASSUME NEW a \in Nat, NEW b \in Nat, b > 0
  PROVE  Rounded(a + 30 * b, b) = Rounded(a, b) + 30
<1> DEFINE q == a \div b
           r == a % b
<1>1. q \in Nat /\ r \in 0..b-1 /\ a = b * q + r
  OBVIOUS
<1>. HIDE DEF q, r
<1>2. a + 30 * b = b * (q + 30) + r
  BY <1>1
<1>3. q + 30 \in Nat /\ (q + 30) % 2 = q % 2
  BY <1>1
<1>4. Rounded(a, b) = IF 2 * r > b \/ (2 * r = b /\ q % 2 = 1) THEN q + 1 ELSE q
  BY <1>1, RoundedBy
<1> DEFINE u == q + 30
<1>5. u \in Nat /\ u % 2 = q % 2 /\ u = q + 30
  BY <1>3
<1>. HIDE DEF u
<1>6. Rounded(b * u + r, b) = IF 2 * r > b \/ (2 * r = b /\ u % 2 = 1) THEN u + 1 ELSE u
  BY <1>1, <1>5, RoundedBy
<1>. QED
  BY <1>1, <1>2, <1>4, <1>5, <1>6

\* The halves of a credit that the requirements E get.
Halves(evidence, E) == [i \in E |-> HalfCredit(evidence[i].outcome)]

\* The credit is a sum of halves.
LEMMA CreditSum ==
  ASSUME NEW evidence, NEW E, IsFiniteSet(E)
  PROVE  MapThenSumSet(LAMBDA i : HalfCredit(evidence[i].outcome), E) = Sum(Halves(evidence, E), E)
<1> DEFINE w == Halves(evidence, E)
           Fold(h) == h = [s \in SUBSET E |->
                             IF s = {} THEN 0 ELSE HalfCredit(evidence[Pick(s)].outcome) + h[s \ {Pick(s)}]]
           iter == CHOOSE h : Fold(h)
<1>1. MapThenSumSet(LAMBDA i : HalfCredit(evidence[i].outcome), E) = iter[E]
  BY DEF MapThenSumSet, MapThenFoldSet, Pick
<1>2. \A s \in SUBSET E : s # {} => HalfCredit(evidence[Pick(s)].outcome) = w[Pick(s)]
  BY PickIn DEF Halves
<1>. HIDE DEF w
<1>3. \A h : Fold(h) <=> Sums(h, w, E)
  <2>. SUFFICES ASSUME NEW h
                PROVE  Fold(h) <=> Sums(h, w, E)
    OBVIOUS
  <2>1. [s \in SUBSET E |-> IF s = {} THEN 0 ELSE HalfCredit(evidence[Pick(s)].outcome) + h[s \ {Pick(s)}]]
          = [s \in SUBSET E |-> IF s = {} THEN 0 ELSE w[Pick(s)] + h[s \ {Pick(s)}]]
    BY <1>2
  <2>. QED
    BY <2>1 DEF Sums
<1>4. \E h : Fold(h)
  <2>. HIDE DEF Fold
  <2>. QED
    BY <1>3, SumExists
<1>5. Sums(iter, w, E)
  <2>1. Fold(iter)
    <3>. HIDE DEF Fold
    <3>. QED
      BY <1>4
  <2>. HIDE DEF Fold, iter
  <2>. QED
    BY <1>3, <2>1
<1>. HIDE DEF iter, Fold
<1>6. Sum(w, E) = iter[E]
  BY <1>5, SumOf
<1>. QED
  BY <1>1, <1>6 DEF w

\* What the contract is, as far as a review depends on it.
Typed(asked) == asked.reqs \in Seq(Requirement) /\ asked.criteria \in Seq(Criterion)

\* The points of each component are at most what it offers.  With so few
\* requirements rounding up cannot make all the points of less than all.
Scored(asked, evidence, verdicts, points, max) ==
  LET required == RequiredReqs(asked)
      factual == Counted(asked, verdicts)
  IN /\ IsFiniteSet(required) /\ Cardinality(required) \in 0..Len(asked.reqs)
     /\ IsFiniteSet(factual) /\ Cardinality(factual) \in 0..Len(asked.criteria)
     /\ points \in ScoreComponents
     /\ max \in ScoreComponents
     /\ \A part \in DOMAIN max : points[part] <= max[part]
     /\ points.unverifiable = 0
     /\ points.evidence = max.evidence /\ Cardinality(required) < 50 =>
          \A i \in required : evidence[i].outcome = "found"
     /\ points.factual = max.factual /\ Cardinality(factual) < 60 =>
          \A i \in factual : verdicts[i] = "pass"

\* Points are given so for whatever evidence and verdicts there are.
LEMMA PointsFacts ==
  ASSUME NEW asked, Typed(asked), NEW submission, NEW m,
         NEW evidence \in [1..Len(asked.reqs) -> EvidenceAnswer(m)],
         NEW verdicts \in [1..Len(asked.criteria) -> CheckOutcome]
  PROVE  Scored(asked, evidence, verdicts, Points(asked, submission, evidence, verdicts),
                Maxima(RequiredReqs(asked), Counted(asked, verdicts)))
<1> DEFINE required == RequiredReqs(asked)
           factual == Counted(asked, verdicts)
           points == Points(asked, submission, evidence, verdicts)
           max == Maxima(required, factual)
           n == Cardinality(required)
           f == Cardinality(factual)
           credit == MapThenSumSet(LAMBDA i : HalfCredit(evidence[i].outcome), required)
           passed == {i \in factual : verdicts[i] = "pass"}
           failed == FailedDeliverables(asked, submission, evidence)
           substance == failed \cap {"content_present", "content_substantive"}
<1>1. /\ Len(asked.reqs) \in Nat /\ DOMAIN asked.reqs = 1..Len(asked.reqs)
      /\ Len(asked.criteria) \in Nat /\ DOMAIN asked.criteria = 1..Len(asked.criteria)
  BY LenProperties DEF Typed
<1>2. IsFiniteSet(required) /\ n \in 0..Len(asked.reqs) /\ required \subseteq 1..Len(asked.reqs)
  <2>1. required \subseteq 1..Len(asked.reqs)
    BY <1>1 DEF RequiredReqs
  <2>2. IsFiniteSet(1..Len(asked.reqs)) /\ Cardinality(1..Len(asked.reqs)) = Len(asked.reqs)
    BY <1>1, FS_Interval
  <2>3. IsFiniteSet(required) /\ n <= Len(asked.reqs)
    BY <2>1, <2>2, FS_Subset
  <2>. QED
    BY <1>1, <2>1, <2>3, FS_CardinalityType
<1>3. IsFiniteSet(factual) /\ f \in 0..Len(asked.criteria) /\ factual \subseteq 1..Len(asked.criteria)
  <2>1. factual \subseteq 1..Len(asked.criteria)
    BY DEF Counted
  <2>2. IsFiniteSet(1..Len(asked.criteria)) /\ Cardinality(1..Len(asked.criteria)) = Len(asked.criteria)
    BY <1>1, FS_Interval
  <2>3. IsFiniteSet(factual) /\ f <= Len(asked.criteria)
    BY <2>1, <2>2, FS_Subset
  <2>. QED
    BY <1>1, <2>1, <2>3, FS_CardinalityType
<1>4. n = 0 <=> required = {}
  BY <1>2, FS_EmptySet
<1>5. f = 0 <=> factual = {}
  BY <1>3, FS_EmptySet
<1>6. /\ max.evidence = IF required = {} THEN 0 ELSE IF factual = {} THEN 80 ELSE 50
      /\ max.factual = IF factual = {} THEN 0 ELSE IF required = {} THEN 80 ELSE 30
      /\ max.deliverables = 20
      /\ max.unverifiable = IF required = {} /\ factual = {} THEN 80 ELSE 0
      /\ max \in ScoreComponents
      /\ DOMAIN max = {"evidence", "factual", "deliverables", "unverifiable"}
  <2>. HIDE DEF required, factual
  <2>1. /\ max.evidence = IF required = {} THEN 0 ELSE IF factual = {} THEN 80 ELSE 50
        /\ max.factual = IF factual = {} THEN 0 ELSE IF required = {} THEN 80 ELSE 30
        /\ max.deliverables = 20
        /\ max.unverifiable = IF required = {} /\ factual = {} THEN 80 ELSE 0
        /\ max = [evidence |-> max.evidence, factual |-> max.factual,
                  deliverables |-> max.deliverables, unverifiable |-> max.unverifiable]
    BY DEF Maxima
  <2>. HIDE DEF max
  <2>2. max.evidence \in 0..100 /\ max.factual \in 0..100
        /\ max.deliverables \in 0..100 /\ max.unverifiable \in 0..100
    BY <2>1
  <2>. QED
    BY <2>1, <2>2 DEF ScoreComponents
<1>7. /\ credit \in 0..2 * n
      /\ credit = 2 * n => \A i \in required : evidence[i].outcome = "found"
  <2> DEFINE w == Halves(evidence, required)
  <2>1. credit = Sum(w, required)
    BY <1>2, CreditSum
  <2>2. \A i \in required : w[i] \in 0..2 /\ (w[i] = 2 => evidence[i].outcome = "found")
    <3>. SUFFICES ASSUME NEW i \in required
                  PROVE  w[i] \in 0..2 /\ (w[i] = 2 => evidence[i].outcome = "found")
      OBVIOUS
    <3>1. evidence[i].outcome \in EvidenceOutcome
      BY <1>2 DEF EvidenceAnswer
    <3>2. w[i] = HalfCredit(evidence[i].outcome)
      BY DEF Halves
    <3>. QED
      BY <3>1, <3>2 DEF HalfCredit, EvidenceOutcome
  <2>. HIDE DEF w, credit, required
  <2>3. Sum(w, required) \in 0..2 * n /\ (Sum(w, required) = 2 * n => \A i \in required : w[i] = 2)
    BY <1>2, <2>2, SumAtMostTwice
  <2>. QED
    BY <2>1, <2>2, <2>3
<1>8. /\ Cardinality(passed) \in 0..f
      /\ Cardinality(passed) = f => \A i \in factual : verdicts[i] = "pass"
  <2>1. passed \in SUBSET factual
    OBVIOUS
  <2>. HIDE DEF factual
  <2>2. /\ IsFiniteSet(passed)
        /\ Cardinality(passed) <= f
        /\ f = Cardinality(passed) => factual = passed
    <3>. HIDE DEF passed
    <3>. QED
      BY <1>3, <2>1, FS_Subset
  <2>3. Cardinality(passed) \in Nat
    BY <2>2, FS_CardinalityType
  <2>. QED
    BY <1>3, <2>2, <2>3
<1>9. Cardinality(substance) \in 0..2
  <2>1. IsFiniteSet({"content_present", "content_substantive"})
        /\ Cardinality({"content_present", "content_substantive"}) <= 2
    <3>1. IsFiniteSet({"content_present"}) /\ Cardinality({"content_present"}) = 1
      BY FS_Singleton
    <3>2. {"content_present", "content_substantive"} = {"content_present"} \cup {"content_substantive"}
      OBVIOUS
    <3> DEFINE S == {"content_present"}
    <3>. HIDE DEF S
    <3>3. /\ IsFiniteSet(S \cup {"content_substantive"})
          /\ \/ Cardinality(S \cup {"content_substantive"}) = Cardinality(S)
             \/ Cardinality(S \cup {"content_substantive"}) = Cardinality(S) + 1
      BY <3>1, FS_AddElement DEF S
    <3>. QED
      BY <3>1, <3>2, <3>3 DEF S
  <2>2. substance \in SUBSET {"content_present", "content_substantive"}
    OBVIOUS
  <2>. HIDE DEF substance
  <2>3. IsFiniteSet(substance) /\ Cardinality(substance) <= Cardinality({"content_present", "content_substantive"})
    BY <2>1, <2>2, FS_Subset
  <2>4. Cardinality(substance) \in Nat /\ Cardinality({"content_present", "content_substantive"}) \in Nat
    BY <2>1, <2>3, FS_CardinalityType
  <2>. QED
    BY <2>1, <2>3, <2>4
<1>10. /\ points.evidence = IF required = {} THEN 0 ELSE Rounded(credit * max.evidence, 2 * n)
       /\ points.factual = IF factual = {} THEN 0 ELSE Rounded(Cardinality(passed) * max.factual, f)
       /\ points.deliverables = 20 - 10 * Cardinality(substance)
       /\ points.unverifiable = 0
       /\ points = [evidence |-> points.evidence, factual |-> points.factual,
                    deliverables |-> points.deliverables, unverifiable |-> points.unverifiable]
  BY DEF Points
<1>. HIDE DEF required, factual, points, max, n, f, credit, passed, failed, substance
<1>11. /\ points.evidence \in 0..max.evidence
       /\ points.evidence = max.evidence /\ n < 50 => \A i \in required : evidence[i].outcome = "found"
  <2> DEFINE M == max.evidence
  <2>1. CASE required = {}
    BY <1>6, <1>10, <2>1
  <2>2. CASE required # {}
    <3>0. n \in Nat /\ n # 0
      BY <1>1, <1>2, <1>4, <2>2, FS_CardinalityType DEF n
    <3>1. n \in Nat /\ n > 0 /\ 2 * n \in Nat /\ 2 * n > 0 /\ credit \in Nat /\ credit <= 2 * n
      BY <1>7, <3>0
    <3>2. M \in {50, 80}
      BY <1>6, <2>2
    <3>. HIDE DEF M
    <3>3. M \in Nat /\ credit * M \in Nat /\ credit * M <= M * (2 * n)
      BY <3>1, <3>2
    <3>4. points.evidence = Rounded(credit * M, 2 * n)
      BY <1>10, <2>2 DEF M
    <3>5. points.evidence \in 0..M
      BY <3>1, <3>3, <3>4, RoundedBound
    <3>6. ASSUME n < 50, credit # 2 * n
          PROVE  points.evidence # M
      <4>1. credit * M <= M * (2 * n) - M /\ 2 * n < 2 * M
        BY <3>1, <3>2, <3>6
      <4>. QED
        BY <3>1, <3>3, <3>4, <4>1, RoundedFull
    <3>. QED
      BY <1>7, <3>5, <3>6 DEF M
  <2>. QED
    BY <2>1, <2>2
<1>12. /\ points.factual \in 0..max.factual
       /\ points.factual = max.factual /\ f < 60 => \A i \in factual : verdicts[i] = "pass"
  <2> DEFINE M == max.factual
             c == Cardinality(passed)
  <2>1. CASE factual = {}
    BY <1>6, <1>10, <2>1
  <2>2. CASE factual # {}
    <3>0. f \in Nat /\ f # 0
      BY <1>1, <1>3, <1>5, <2>2, FS_CardinalityType DEF f
    <3>1. f \in Nat /\ f > 0 /\ c \in Nat /\ c <= f
      BY <1>8, <3>0
    <3>2. M \in {30, 80}
      BY <1>6, <2>2
    <3>3. points.factual = Rounded(c * M, f)
      BY <1>10, <2>2
    <3>. HIDE DEF M, c
    <3>4. M \in Nat /\ c * M \in Nat /\ c * M <= M * f
      BY <3>1, <3>2
    <3>5. points.factual \in 0..M
      BY <3>1, <3>3, <3>4, RoundedBound
    <3>6. ASSUME f < 60, c # f
          PROVE  points.factual # M
      <4>1. c * M <= M * f - M /\ f < 2 * M
        BY <3>1, <3>2, <3>6
      <4>. QED
        BY <3>1, <3>3, <3>4, <4>1, RoundedFull
    <3>. QED
      BY <1>8, <3>5, <3>6 DEF M, c
  <2>. QED
    BY <2>1, <2>2
<1>13. points.deliverables \in 0..20 /\ points.unverifiable = 0
  BY <1>9, <1>10
<1>14. max.evidence \in 0..80 /\ max.factual \in 0..80 /\ max.unverifiable \in 0..80
  BY <1>6
<1>15. points \in ScoreComponents
  <2>1. points.evidence \in 0..100
    <3>1. points.evidence \in 0..max.evidence /\ max.evidence \in 0..80
      BY <1>11, <1>14
    <3> DEFINE x == points.evidence
               y == max.evidence
    <3>2. x \in 0..y /\ y \in 0..80
      BY <3>1
    <3>. HIDE DEF x, y
    <3>3. x \in 0..100
      BY <3>2
    <3>. QED
      BY <3>3 DEF x
  <2>2. points.factual \in 0..100
    <3>1. points.factual \in 0..max.factual /\ max.factual \in 0..80
      BY <1>12, <1>14
    <3> DEFINE x == points.factual
               y == max.factual
    <3>2. x \in 0..y /\ y \in 0..80
      BY <3>1
    <3>. HIDE DEF x, y
    <3>3. x \in 0..100
      BY <3>2
    <3>. QED
      BY <3>3 DEF x
  <2>3. points.deliverables \in 0..100 /\ points.unverifiable \in 0..100
    BY <1>13
  <2>. QED
    BY <1>10, <2>1, <2>2, <2>3 DEF ScoreComponents
<1>16. \A part \in DOMAIN max : points[part] <= max[part]
  <2>1. points.evidence <= max.evidence
    BY <1>11, <1>14
  <2>2. points.factual <= max.factual
    BY <1>12, <1>14
  <2>3. points.deliverables <= max.deliverables /\ points.unverifiable <= max.unverifiable
    BY <1>6, <1>13, <1>14
  <2>. QED
    BY <1>6, <2>1, <2>2, <2>3
<1>. QED
  BY <1>2, <1>3, <1>6, <1>11, <1>12, <1>13, <1>15, <1>16 DEF Scored, n, f, required, factual, points, max

(***************************************************************************)
(* The review.                                                             *)
(***************************************************************************)

\* The items are files of the submission, each once.
LEMMA ItemsFacts ==
  ASSUME NEW X, NEW submission, submission.refs \in Seq(X)
  PROVE  /\ Items(submission) \in Seq(X)
         /\ Len(Items(submission)) \in 0..Len(submission.refs)
         /\ \A i, j \in 1..Len(Items(submission)) :
              Items(submission)[i].file = Items(submission)[j].file => i = j
<1> DEFINE raw == Raw(submission)
           items == Items(submission)
<1>1. raw \in Seq(X) /\ Len(raw) <= Len(submission.refs)
  BY RawFacts
<1>2. items = Once(raw)
  BY DEF Items
<1>. HIDE DEF raw, items
<1>3. /\ items \in Seq(X)
      /\ Len(items) <= Len(raw)
      /\ \A i, j \in 1..Len(items) : items[i].file = items[j].file => i = j
  BY <1>1, <1>2, OnceFacts
<1>4. Len(items) \in Nat /\ Len(raw) \in Nat /\ Len(submission.refs) \in Nat
  BY <1>1, <1>3, LenProperties
<1>5. Len(items) \in 0..Len(submission.refs)
  BY <1>1, <1>3, <1>4
<1>. QED
  BY <1>3, <1>5 DEF items

\* The last rule always applies.
LEMMA RecommendationIsOne ==
  ASSUME NEW asked, NEW total, NEW evidence, NEW verdicts, NEW flags
  PROVE  Recommendation(asked, total, evidence, verdicts, flags) \in Recommendations
<1> DEFINE short == \/ \E i \in RequiredReqs(asked) :
                          evidence[i].outcome \in {"missing", "constraint_failed"}
                    \/ \E i \in DOMAIN verdicts :
                          asked.criteria[i].required /\ verdicts[i] \in {"fail", "blocked"}
           rules == << <<flags \cap Critical # {}, "reject_candidate">>,
                       <<"SUBJECTIVE_ONLY" \in flags, "needs_human_review">>,
                       <<total < 30, "reject_candidate">>,
                       <<short, "incomplete">>,
                       <<flags \cap (InferredWarnings \cup {"DUPLICATE_EVIDENCE"}) # {}, "needs_human_review">>,
                       <<total >= 90, "strong">>,
                       <<total >= 70, "acceptable">>,
                       <<TRUE, "needs_human_review">> >>
           I == {i \in 1..Len(rules) : rules[i][1]}
<1>1. Recommendation(asked, total, evidence, verdicts, flags)
        = rules[IF I # {} THEN Min(I) ELSE 0][2]
  BY DEF Recommendation, SelectInSeq
<1>. HIDE DEF short
<1>2. Len(rules) = 8 /\ rules[8][1]
  OBVIOUS
<1>3. \A i \in 1..8 : rules[i][2] \in Recommendations
  BY DEF Recommendations
<1>. HIDE DEF rules
<1>4. I \in SUBSET Nat /\ 8 \in I
  BY <1>2
<1>5. \E i \in I : \A j \in I : i <= j
  <2>. HIDE DEF I
  <2>. QED
    BY <1>4, SmallestNat
<1>6. Min(I) \in I
  BY <1>5 DEF Min
<1>7. Min(I) \in 1..8
  BY <1>2, <1>6
<1>. QED
  BY <1>1, <1>3, <1>4, <1>7

\* What is missing is finite, and nothing else than can be missing.
LEMMA MissingFacts ==
  ASSUME NEW asked, NEW n \in Nat, NEW c \in Nat, NEW m,
         DOMAIN asked.reqs = 1..n, DOMAIN asked.criteria = 1..c,
         \A i \in 1..n : asked.reqs[i].required \in BOOLEAN,
         \A i \in 1..c : asked.criteria[i].required \in BOOLEAN,
         NEW evidence \in [1..n -> EvidenceAnswer(m)], NEW verdicts \in [1..c -> CheckOutcome],
         NEW failed \in SUBSET Deliverables
  PROVE  LET missing == MissingOf(asked, evidence, verdicts, failed)
         IN /\ IsFiniteSet(missing)
            /\ missing \in SUBSET MissingRequirement({0} \cup (1..n) \cup (1..c))
<1> DEFINE A == {j \in 1..n : evidence[j].outcome = "missing"}
           B == {j \in 1..c : verdicts[j] \in {"fail", "blocked"}}
           a == [i \in A |-> [what |-> "evidence", id |-> i, required |-> asked.reqs[i].required]]
           b == [i \in B |-> [what |-> "criterion", id |-> i, required |-> asked.criteria[i].required]]
           d == [name \in failed |-> [what |-> name, id |-> 0, required |-> TRUE]]
           missing == MissingOf(asked, evidence, verdicts, failed)
<1>1. missing = {a[i] : i \in A} \cup {b[i] : i \in B} \cup {d[i] : i \in failed}
  BY DEF MissingOf
<1>2. IsFiniteSet(A) /\ IsFiniteSet(B) /\ IsFiniteSet(failed)
  <2>1. IsFiniteSet(1..n) /\ IsFiniteSet(1..c)
    BY FS_Interval
  <2>2. A \in SUBSET (1..n) /\ B \in SUBSET (1..c)
    OBVIOUS
  <2>3. IsFiniteSet(A) /\ IsFiniteSet(B)
    <3>. HIDE DEF A, B
    <3>. QED
      BY <2>1, <2>2, FS_Subset
  <2>4. IsFiniteSet(Deliverables)
    <3>1. IsFiniteSet({"content_present"})
      BY FS_Singleton
    <3>2. IsFiniteSet({"content_present"} \cup {"content_substantive"})
      BY <3>1, FS_AddElement
    <3>3. IsFiniteSet({"content_present"} \cup {"content_substantive"} \cup {"required_evidence_supplied"})
      BY <3>2, FS_AddElement
    <3>4. IsFiniteSet({"content_present"} \cup {"content_substantive"} \cup {"required_evidence_supplied"}
                        \cup {"constraints_satisfied"})
      BY <3>3, FS_AddElement
    <3>5. Deliverables = {"content_present"} \cup {"content_substantive"} \cup {"required_evidence_supplied"}
                           \cup {"constraints_satisfied"}
      BY DEF Deliverables
    <3>. QED
      BY <3>4, <3>5, Zenon
  <2>. QED
    BY <2>3, <2>4, FS_Subset
<1>3. \A i \in A : a[i] \in MissingRequirement({0} \cup (1..n) \cup (1..c))
  BY DEF MissingRequirement
<1>4. \A i \in B : b[i] \in MissingRequirement({0} \cup (1..n) \cup (1..c))
  BY DEF MissingRequirement
<1>5. \A i \in failed : d[i] \in MissingRequirement({0} \cup (1..n) \cup (1..c))
  BY DEF MissingRequirement
<1>. HIDE DEF a, b, d, A, B
<1>6. IsFiniteSet({a[i] : i \in A}) /\ IsFiniteSet({b[i] : i \in B}) /\ IsFiniteSet({d[i] : i \in failed})
  BY <1>2, ImageFinite
<1>7. IsFiniteSet({a[i] : i \in A} \cup {b[i] : i \in B} \cup {d[i] : i \in failed})
  BY <1>6, FS_Union
<1>. QED
  BY <1>1, <1>3, <1>4, <1>5, <1>7

\* What the parts of a review have to do with each other.
WellReviewed(asked, submission, review) ==
  /\ review \in SubmissionReview(asked, Len(submission.refs))
  /\ Scored(asked, review.evidence, review.verdicts, review.points, review.max)
  /\ IsFiniteSet(review.missing)
  /\ WellMatched(review.evidence, asked.reqs, Items(submission))
  /\ review.max = Maxima(RequiredReqs(asked), Counted(asked, review.verdicts))
  /\ review.score = Total(review.points)

\* The parts of every review fit each other so.
LEMMA ReviewFacts ==
  ASSUME NEW asked, Typed(asked), NEW X, NEW submission, submission.refs \in Seq(X)
  PROVE  WellReviewed(asked, submission, ReviewOf(asked, submission))
<1> DEFINE review == ReviewOf(asked, submission)
           n == Len(asked.reqs)
           c == Len(asked.criteria)
           items == Items(submission)
           m == Len(submission.refs)
           evidence == Evidence(asked, submission)
           verdicts == Verdicts(asked, submission, evidence)
           failed == FailedDeliverables(asked, submission, evidence)
           flags == Flags(asked, submission, evidence)
           points == Points(asked, submission, evidence, verdicts)
           rec == Recommendation(asked, Total(points), evidence, verdicts, flags)
           max == Maxima(RequiredReqs(asked), Counted(asked, verdicts))
           missing == MissingOf(asked, evidence, verdicts, failed)
           human == \/ rec = "needs_human_review"
                    \/ \E i \in DOMAIN verdicts : ~Factual(asked.criteria[i])
<1>1. review = [ evidence |-> evidence, verdicts |-> verdicts, flags |-> flags, points |-> points,
                 max |-> max, score |-> Total(points), recommendation |-> rec,
                 missing |-> missing, human |-> human ]
  BY DEF ReviewOf
<1>2. /\ n \in Nat /\ DOMAIN asked.reqs = 1..n /\ \A i \in 1..n : asked.reqs[i].required \in BOOLEAN
      /\ c \in Nat /\ DOMAIN asked.criteria = 1..c /\ \A i \in 1..c : asked.criteria[i].required \in BOOLEAN
      /\ m \in Nat
  <2>1. asked.reqs \in Seq(Requirement) /\ asked.criteria \in Seq(Criterion)
    BY DEF Typed
  <2>2. \A i \in 1..n : asked.reqs[i] \in Requirement
    BY <2>1, ElementOfSeq
  <2>3. \A i \in 1..c : asked.criteria[i] \in Criterion
    BY <2>1, ElementOfSeq
  <2>4. \A r \in Requirement : r.required \in BOOLEAN
    BY DEF Requirement
  <2>5. \A r \in Criterion : r.required \in BOOLEAN
    BY DEF Criterion
  <2>. QED
    BY <2>1, <2>2, <2>3, <2>4, <2>5, LenProperties
<1>3. /\ items \in Seq(X)
      /\ Len(items) \in 0..m
  BY ItemsFacts
<1>4. WellMatched(evidence, asked.reqs, items)
  BY <1>3, AnswersFacts DEF Evidence, Typed
<1>5. /\ evidence \in [1..n -> EvidenceAnswer(Len(items))]
      /\ evidence \in [1..n -> [outcome : EvidenceOutcome, item : 0..m]]
  <2>1. evidence \in [1..n -> EvidenceAnswer(Len(items))]
    BY <1>4 DEF WellMatched
  <2>2. EvidenceAnswer(Len(items)) \subseteq [outcome : EvidenceOutcome, item : 0..m]
    <3>1. 0..Len(items) \subseteq 0..m
      BY <1>2, <1>3
    <3>. QED
      BY <3>1 DEF EvidenceAnswer
  <2>. HIDE DEF evidence
  <2>. QED
    BY <2>1, <2>2
<1>. HIDE DEF evidence, items
<1>6. verdicts \in [1..c -> CheckOutcome]
  BY <1>2 DEF Verdicts, Verdict, Judged, CheckOutcome
<1>. HIDE DEF verdicts
<1>7. Scored(asked, evidence, verdicts, points, max)
  <2>. HIDE DEF n, c, Typed
  <2>1. evidence \in [1..Len(asked.reqs) -> EvidenceAnswer(Len(items))]
    BY <1>5 DEF n
  <2>2. verdicts \in [1..Len(asked.criteria) -> CheckOutcome]
    BY <1>6 DEF c
  <2>. QED
    BY <2>1, <2>2, PointsFacts
<1>8. failed \in SUBSET Deliverables
  BY DEF FailedDeliverables
<1>. HIDE DEF points, failed, max
<1>9. /\ IsFiniteSet(missing)
      /\ missing \in SUBSET MissingRequirement({0} \cup (1..n) \cup (1..c))
  <2>. HIDE DEF n, c
  <2>. QED
    BY <1>2, <1>5, <1>6, <1>8, MissingFacts
<1>10. flags \in SUBSET FlagCodes
  BY DEF Flags
<1>. HIDE DEF flags, missing
<1>11. Total(points) \in 0..100
  <2>1. /\ points.evidence \in 0..100 /\ points.factual \in 0..100
        /\ points.deliverables \in 0..100 /\ points.unverifiable \in 0..100
    BY <1>7 DEF Scored, ScoreComponents
  <2> DEFINE x == points.evidence
             y == points.factual
             z == points.deliverables
             w == points.unverifiable
  <2>2. Total(points) = IF x + y + z + w > 100 THEN 100 ELSE x + y + z + w
    BY DEF Total
  <2>3. x \in 0..100 /\ y \in 0..100 /\ z \in 0..100 /\ w \in 0..100
    BY <2>1
  <2>. HIDE DEF x, y, z, w
  <2>. QED
    BY <2>2, <2>3
<1>12. rec \in Recommendations
  BY RecommendationIsOne
<1>13. human \in BOOLEAN
  OBVIOUS
<1>. HIDE DEF rec, human, review
<1>14. review \in SubmissionReview(asked, m)
  <2>1. evidence \in [DOMAIN asked.reqs -> [outcome : EvidenceOutcome, item : 0..m]]
    BY <1>2, <1>5
  <2>2. verdicts \in [DOMAIN asked.criteria -> CheckOutcome]
    BY <1>2, <1>6
  <2>3. missing \in SUBSET MissingRequirement({0} \cup DOMAIN asked.reqs \cup DOMAIN asked.criteria)
    BY <1>2, <1>9
  <2> DEFINE E == [DOMAIN asked.reqs -> [outcome : EvidenceOutcome, item : 0..m]]
             V == [DOMAIN asked.criteria -> CheckOutcome]
             M == SUBSET MissingRequirement({0} \cup DOMAIN asked.reqs \cup DOMAIN asked.criteria)
             F == SUBSET FlagCodes
             S == Total(points)
  <2>4. SubmissionReview(asked, m) =
          [ evidence : E, verdicts : V, flags : F, points : ScoreComponents, max : ScoreComponents,
            score : 0..100, recommendation : Recommendations, missing : M, human : BOOLEAN ]
    BY DEF SubmissionReview
  <2>5. evidence \in E /\ verdicts \in V /\ flags \in F /\ missing \in M /\ S \in 0..100
    BY <1>10, <1>11, <2>1, <2>2, <2>3
  <2>6. review = [ evidence |-> evidence, verdicts |-> verdicts, flags |-> flags, points |-> points,
                   max |-> max, score |-> S, recommendation |-> rec, missing |-> missing, human |-> human ]
    BY <1>1
  <2>. HIDE DEF E, V, M, F, S
  <2>. QED
    BY <1>7, <1>12, <1>13, <2>4, <2>5, <2>6 DEF Scored
<1>15. /\ review.evidence = evidence /\ review.verdicts = verdicts /\ review.points = points
       /\ review.max = max /\ review.missing = missing /\ review.score = Total(points)
  BY <1>1
<1>. QED
  BY <1>4, <1>7, <1>9, <1>14, <1>15 DEF WellReviewed, review, max, items

(***************************************************************************)
(* The ranking.                                                            *)
(***************************************************************************)

\* Keys of one length are strictly ordered.
LEMMA BeforeOrders ==
  ASSUME NEW n \in Nat
  PROVE  /\ \A a \in [1..n -> Int] : ~Before(a, a)
         /\ \A a, b, c \in [1..n -> Int] : Before(a, b) /\ Before(b, c) => Before(a, c)
         /\ \A a, b \in [1..n -> Int] : a # b => Before(a, b) \/ Before(b, a)
<1> DEFINE K == [1..n -> Int]
<1>1. \A a \in K : ~Before(a, a)
  BY DEF Before
<1>2. ASSUME NEW a \in K, NEW b \in K, NEW c \in K, Before(a, b), Before(b, c)
      PROVE  Before(a, c)
  <2>1. PICK i \in 1..n : a[i] < b[i] /\ \A l \in 1..i-1 : a[l] = b[l]
    BY <1>2 DEF Before
  <2>2. PICK j \in 1..n : b[j] < c[j] /\ \A l \in 1..j-1 : b[l] = c[l]
    BY <1>2 DEF Before
  <2>3. CASE i <= j
    <3>1. b[i] <= c[i] /\ a[i] \in Int /\ b[i] \in Int /\ c[i] \in Int
      BY <2>2, <2>3
    <3>2. a[i] < c[i] /\ \A l \in 1..i-1 : a[l] = c[l]
      BY <2>1, <2>2, <2>3, <3>1
    <3>. QED
      BY <3>2 DEF Before
  <2>4. CASE j < i
    <3>1. a[j] = b[j]
      BY <2>1, <2>4
    <3>2. a[j] < c[j] /\ \A l \in 1..j-1 : a[l] = c[l]
      BY <2>1, <2>2, <2>4, <3>1
    <3>. QED
      BY <3>2 DEF Before
  <2>. QED
    BY <2>3, <2>4
<1>3. ASSUME NEW a \in K, NEW b \in K, a # b
      PROVE  Before(a, b) \/ Before(b, a)
  <2> DEFINE differ == {i \in 1..n : a[i] # b[i]}
  <2>1. differ \in SUBSET Nat /\ differ # {}
    BY <1>3
  <2>2. PICK i \in differ : \A j \in differ : i <= j
    <3>. HIDE DEF differ
    <3>. QED
      BY <2>1, SmallestNat
  <2>3. i \in 1..n /\ a[i] # b[i] /\ \A l \in 1..i-1 : a[l] = b[l]
    <3>1. \A l \in 1..i-1 : l \in 1..n /\ ~ i <= l
      BY <2>2
    <3>. QED
      BY <2>2, <3>1
  <2>4. a[i] < b[i] \/ b[i] < a[i]
    BY <2>3
  <2>5. DOMAIN a = 1..n /\ DOMAIN b = 1..n
    OBVIOUS
  <2>. QED
    BY <2>3, <2>4, <2>5 DEF Before
<1>. QED
  BY <1>1, <1>2, <1>3

\* One component more, x after a and y after b, decides only when a and b are the same.
Lengthens(n, a, x, b, y) ==
  /\ Append(a, x) \in [1..n+1 -> Int]
  /\ Append(a, x) = Append(b, y) => a = b /\ x = y
  /\ Before(Append(a, x), Append(b, y)) <=> Before(a, b) \/ (a = b /\ x < y)

\* For keys of one length a component more does just that.
LEMMA BeforeAppended ==
  ASSUME NEW n \in Nat, NEW a \in [1..n -> Int], NEW b \in [1..n -> Int], NEW x \in Int, NEW y \in Int
  PROVE  Lengthens(n, a, x, b, y)
<1> DEFINE p == Append(a, x)
           q == Append(b, y)
<1>1. a \in Seq(Int) /\ Len(a) = n /\ b \in Seq(Int) /\ Len(b) = n
  OBVIOUS
<1>2. /\ p \in [1..n+1 -> Int] /\ p[n+1] = x /\ \A i \in 1..n : p[i] = a[i]
      /\ q \in [1..n+1 -> Int] /\ q[n+1] = y /\ \A i \in 1..n : q[i] = b[i]
  <2>1. /\ p \in Seq(Int) /\ Len(p) = n + 1 /\ p[n+1] = x /\ \A i \in 1..n : p[i] = a[i]
        /\ q \in Seq(Int) /\ Len(q) = n + 1 /\ q[n+1] = y /\ \A i \in 1..n : q[i] = b[i]
    BY <1>1, AppendProperties
  <2>. HIDE DEF p, q
  <2>. QED
    BY <2>1, LenProperties
<1>. HIDE DEF p, q
<1>3. p = q => a = b /\ x = y
  BY <1>2
<1>4. ASSUME Before(a, b)
      PROVE  Before(p, q)
  <2>1. PICK i \in 1..n : a[i] < b[i] /\ \A l \in 1..i-1 : a[l] = b[l]
    BY <1>4 DEF Before
  <2>2. i \in 1..n+1 /\ p[i] < q[i] /\ \A l \in 1..i-1 : p[l] = q[l]
    BY <1>2, <2>1
  <2>. QED
    BY <1>2, <2>2 DEF Before
<1>6. ASSUME a = b, x < y
      PROVE  Before(p, q)
  <2>1. n+1 \in 1..n+1 /\ p[n+1] < q[n+1] /\ \A l \in 1..(n+1)-1 : p[l] = q[l]
    BY <1>2, <1>6
  <2>. QED
    BY <1>2, <2>1 DEF Before
<1>5. ASSUME Before(p, q)
      PROVE  Before(a, b) \/ (a = b /\ x < y)
  <2>1. PICK i \in 1..n+1 : p[i] < q[i] /\ \A l \in 1..i-1 : p[l] = q[l]
    BY <1>2, <1>5 DEF Before
  <2>2. CASE i \in 1..n
    <3>1. a[i] < b[i] /\ \A l \in 1..i-1 : a[l] = b[l]
      BY <1>2, <2>1, <2>2
    <3>. QED
      BY <2>2, <3>1 DEF Before
  <2>3. CASE i = n + 1
    <3>1. x < y /\ \A l \in 1..n : a[l] = b[l]
      BY <1>2, <2>1, <2>3
    <3>. QED
      BY <3>1
  <2>. QED
    BY <2>1, <2>2, <2>3
<1>. QED
  BY <1>2, <1>3, <1>4, <1>5, <1>6 DEF Lengthens, p, q

\* What is listed can be ranked, and each has an id of its own.
Comparable(listed, L) ==
  /\ L \in Nat
  /\ DOMAIN listed = 1..L
  /\ \A n \in 1..L : listed[n].created \in Nat /\ Key(listed[n].review) \in [1..4 -> Int]
  /\ \A n, m \in 1..L : listed[n].id = listed[m].id => n = m

\* _sort_key, and those that come before the n-th by it.
SortKey(listed, n) == Append(Key(listed[n].review), CreatedOrder(listed, n))
Ahead(listed, n) == {m \in DOMAIN listed : Before(SortKey(listed, m), SortKey(listed, n))}

\* The key is four numbers.
LEMMA KeyOfReview ==
  ASSUME NEW review, review.score \in Int, IsFiniteSet(review.missing), review.flags \in SUBSET FlagCodes
  PROVE  Key(review) \in [1..4 -> Int]
<1> DEFINE c == Cardinality(review.missing)
           d == Cardinality(review.flags \cap Critical)
           e == Cardinality(review.flags \ (Critical \cup Info))
<1>1. c \in Nat
  BY FS_CardinalityType
<1>2. IsFiniteSet(FlagCodes)
  <2>1. IsFiniteSet({"EMPTY_SUBMISSION"} \cup {"MISSING_ALL_EVIDENCE"} \cup {"SUBJECTIVE_ONLY"} \cup {"UNVERIFIED_OPTIONAL"})
    BY FS_Singleton, FS_Union
  <2>2. IsFiniteSet({"UNSUPPORTED_EVIDENCE_TYPE"} \cup {"UNVERIFIED_REQUIRED"} \cup {"IRRELEVANT_CONTENT"} \cup {"NEAR_EMPTY"})
    BY FS_Singleton, FS_Union
  <2>3. IsFiniteSet({"FILLER_ONLY"} \cup {"MISSING_SOME_EVIDENCE"} \cup {"CONSTRAINT_FAILED"} \cup {"DUPLICATE_EVIDENCE"})
    BY FS_Singleton, FS_Union
  <2> DEFINE A == {"EMPTY_SUBMISSION"} \cup {"MISSING_ALL_EVIDENCE"} \cup {"SUBJECTIVE_ONLY"} \cup {"UNVERIFIED_OPTIONAL"}
             B == {"UNSUPPORTED_EVIDENCE_TYPE"} \cup {"UNVERIFIED_REQUIRED"} \cup {"IRRELEVANT_CONTENT"} \cup {"NEAR_EMPTY"}
             C == {"FILLER_ONLY"} \cup {"MISSING_SOME_EVIDENCE"} \cup {"CONSTRAINT_FAILED"} \cup {"DUPLICATE_EVIDENCE"}
  <2>4. FlagCodes = A \cup B \cup C
    BY DEF FlagCodes, Critical, Info, InferredWarnings
  <2>5. IsFiniteSet(A) /\ IsFiniteSet(B) /\ IsFiniteSet(C)
    BY <2>1, <2>2, <2>3
  <2>. HIDE DEF A, B, C
  <2>6. IsFiniteSet(A \cup B \cup C)
    BY <2>5, FS_Union
  <2>. QED
    BY <2>4, <2>6
<1>3. IsFiniteSet(review.flags)
  BY <1>2, FS_Subset
<1>4. d \in Nat /\ e \in Nat
  <2>1. IsFiniteSet(review.flags \cap Critical) /\ IsFiniteSet(review.flags \ (Critical \cup Info))
    BY <1>3, FS_Subset
  <2>. QED
    BY <2>1, FS_CardinalityType
<1>5. Key(review) = <<-review.score, c, d, e>>
  BY DEF Key
<1>. HIDE DEF c, d, e
<1>. QED
  BY <1>1, <1>4, <1>5

\* The place by creation tells apart what is listed, and who comes first by it.
LEMMA CreatedOrders ==
  ASSUME NEW listed, NEW L, Comparable(listed, L)
  PROVE  /\ \A n \in 1..L : CreatedOrder(listed, n) \in Nat
         /\ \A n, m \in 1..L : CreatedOrder(listed, n) = CreatedOrder(listed, m) => n = m
         /\ \A n, m \in 1..L :
              CreatedOrder(listed, n) < CreatedOrder(listed, m) <=> CreatedBefore(listed, n, m)
<1> DEFINE D == 1..L
           R == {p \in D \X D : CreatedBefore(listed, p[1], p[2])}
<1>1. IsFiniteSet(D)
  BY FS_Interval DEF Comparable
<1>2. StrictlyOrders(R, D)
  <2> DEFINE time == [n \in D |-> listed[n].created]
  <2>1. /\ \A n \in D : time[n] \in Nat
        /\ D \subseteq Nat
    BY DEF Comparable
  <2>2. \A x, y \in D : <<x, y>> \in R <=>
           \/ time[x] # 0 /\ (time[y] = 0 \/ time[x] < time[y])
           \/ time[x] = time[y] /\ x < y
    BY DEF CreatedBefore, Undated
  <2>. HIDE DEF D, time, R
  <2>3. \A x \in D : <<x, x>> \notin R
    BY <2>1, <2>2
  <2>4. \A x, y, z \in D : <<x, y>> \in R /\ <<y, z>> \in R => <<x, z>> \in R
    <3>. SUFFICES ASSUME NEW x \in D, NEW y \in D, NEW z \in D, <<x, y>> \in R, <<y, z>> \in R
                  PROVE  <<x, z>> \in R
      OBVIOUS
    <3> DEFINE a == time[x]
               b == time[y]
               c == time[z]
    <3>1. a \in Nat /\ b \in Nat /\ c \in Nat /\ x \in Nat /\ y \in Nat /\ z \in Nat
      BY <2>1
    <3>2. /\ (a # 0 /\ (b = 0 \/ a < b)) \/ (a = b /\ x < y)
          /\ (b # 0 /\ (c = 0 \/ b < c)) \/ (b = c /\ y < z)
      BY <2>2
    <3>. HIDE DEF a, b, c
    <3>3. (a # 0 /\ (c = 0 \/ a < c)) \/ (a = c /\ x < z)
      BY <3>1, <3>2
    <3>. QED
      BY <2>2, <3>3 DEF a, c
  <2>5. \A x, y \in D : x # y => <<x, y>> \in R \/ <<y, x>> \in R
    BY <2>1, <2>2
  <2>. QED
    BY <2>3, <2>4, <2>5 DEF StrictlyOrders
<1>3. \A n \in D : Rank(D, R)[n] = CreatedOrder(listed, n)
  <2>1. \A n \in D : Below(D, R, n) = {m \in DOMAIN listed : CreatedBefore(listed, m, n)}
    BY DEF Below, Comparable
  <2>. QED
    BY <2>1 DEF Rank, CreatedOrder
<1>7. \A x, y \in D : <<x, y>> \in R <=> CreatedBefore(listed, x, y)
  OBVIOUS
<1>. HIDE DEF D, R
<1>4. /\ Rank(D, R) \in [D -> 0..Cardinality(D)-1]
      /\ \A x, y \in D : Rank(D, R)[x] = Rank(D, R)[y] => x = y
      /\ \A x, y \in D : <<x, y>> \in R => Rank(D, R)[x] < Rank(D, R)[y]
  BY <1>1, <1>2, RanksCount
<1>5. Cardinality(D) \in Nat
  BY <1>1, FS_CardinalityType
<1>6. \A n \in D : Rank(D, R)[n] \in Nat
  BY <1>4, <1>5
<1>8. \A x, y \in D : Rank(D, R)[x] < Rank(D, R)[y] => <<x, y>> \in R
  <2>. SUFFICES ASSUME NEW x \in D, NEW y \in D, Rank(D, R)[x] < Rank(D, R)[y], <<x, y>> \notin R
                PROVE  FALSE
    OBVIOUS
  <2>1. x # y
    BY <1>6
  <2>2. <<y, x>> \in R
    BY <1>2, <2>1 DEF StrictlyOrders
  <2>. QED
    BY <1>4, <1>6, <2>2
<1>9. \A n, m \in D : Rank(D, R)[n] < Rank(D, R)[m] <=> CreatedBefore(listed, n, m)
  BY <1>4, <1>7, <1>8
<1> DEFINE rank == Rank(D, R)
<1>10. /\ \A n \in D : rank[n] = CreatedOrder(listed, n) /\ rank[n] \in Nat
       /\ \A n, m \in D : rank[n] = rank[m] => n = m
       /\ \A n, m \in D : rank[n] < rank[m] <=> CreatedBefore(listed, n, m)
  BY <1>3, <1>4, <1>6, <1>9
<1>. HIDE DEF rank
<1>. QED
  BY <1>10 DEF D

\* The sort keys are five numbers, no two the same; the order of creation settles what the
\* other four leave open.
LEMMA SortKeys ==
  ASSUME NEW listed, NEW L, Comparable(listed, L)
  PROVE  /\ \A n \in 1..L : SortKey(listed, n) \in [1..5 -> Int]
         /\ \A n, m \in 1..L : SortKey(listed, n) = SortKey(listed, m) => n = m
         /\ \A n, m \in 1..L : Before(SortKey(listed, n), SortKey(listed, m)) <=>
              \/ Before(Key(listed[n].review), Key(listed[m].review))
              \/ Key(listed[n].review) = Key(listed[m].review) /\ CreatedBefore(listed, n, m)
<1>. SUFFICES ASSUME NEW n \in 1..L, NEW m \in 1..L
              PROVE  /\ SortKey(listed, n) \in [1..5 -> Int]
                     /\ SortKey(listed, n) = SortKey(listed, m) => n = m
                     /\ Before(SortKey(listed, n), SortKey(listed, m)) <=>
                          \/ Before(Key(listed[n].review), Key(listed[m].review))
                          \/ Key(listed[n].review) = Key(listed[m].review) /\ CreatedBefore(listed, n, m)
  OBVIOUS
<1> DEFINE a == Key(listed[n].review)
           b == Key(listed[m].review)
           x == CreatedOrder(listed, n)
           y == CreatedOrder(listed, m)
<1>1. a \in [1..4 -> Int] /\ b \in [1..4 -> Int]
  BY DEF Comparable
<1>2. x \in Nat /\ y \in Nat /\ (x = y => n = m) /\ (x < y <=> CreatedBefore(listed, n, m))
  BY CreatedOrders
<1>3. SortKey(listed, n) = Append(a, x) /\ SortKey(listed, m) = Append(b, y)
  BY DEF SortKey
<1>. HIDE DEF a, b, x, y
<1>4. /\ Append(a, x) \in [1..4+1 -> Int]
      /\ Append(a, x) = Append(b, y) => a = b /\ x = y
      /\ Before(Append(a, x), Append(b, y)) <=> Before(a, b) \/ (a = b /\ x < y)
  <2> DEFINE k == 4
  <2>1. k \in Nat /\ x \in Int /\ y \in Int /\ a \in [1..k -> Int] /\ b \in [1..k -> Int]
    BY <1>1, <1>2
  <2>. HIDE DEF k
  <2>2. Lengthens(k, a, x, b, y)
    BY <2>1, BeforeAppended
  <2>. QED
    BY <2>2 DEF Lengthens, k
<1>. QED
  BY <1>2, <1>3, <1>4 DEF a, b

\* The ranking has each of them once, and at each place as many ahead as there are before it.
LEMMA RankedFacts ==
  ASSUME NEW listed, NEW L, Comparable(listed, L)
  PROVE  /\ Ranked(listed) \in [1..L -> 1..L]
         /\ \A k \in 1..L : Cardinality(Ahead(listed, Ranked(listed)[k])) = k - 1
         /\ \A n, m \in 1..L : Cardinality(Ahead(listed, n)) = Cardinality(Ahead(listed, m)) => n = m
         /\ \A n \in 1..L : n # Ranked(listed)[1] =>
              Before(SortKey(listed, Ranked(listed)[1]), SortKey(listed, n))
<1> DEFINE D == 1..L
           key == [n \in DOMAIN listed |-> Append(Key(listed[n].review), CreatedOrder(listed, n))]
           Better(n) == {m \in DOMAIN listed : Before(key[m], key[n])}
           ranked == Ranked(listed)
           R == {p \in D \X D : Before(SortKey(listed, p[1]), SortKey(listed, p[2]))}
<1>1. L \in Nat /\ DOMAIN listed = D /\ IsFiniteSet(D) /\ Cardinality(D) = L
  BY FS_Interval DEF Comparable
<1>2. ranked = [rank \in D |-> CHOOSE n \in D : Cardinality(Better(n)) = rank - 1]
  BY <1>1 DEF Ranked
<1>3. \A n \in D : Better(n) = Ahead(listed, n) /\ Below(D, R, n) = Ahead(listed, n)
  <2>1. \A n \in D : key[n] = SortKey(listed, n)
    BY <1>1 DEF SortKey
  <2>. HIDE DEF key, D
  <2>2. \A n \in D : Better(n) = Ahead(listed, n)
    BY <1>1, <2>1 DEF Ahead
  <2>3. \A n \in D : Below(D, R, n) = Ahead(listed, n)
    BY <1>1 DEF Ahead, Below
  <2>. QED
    BY <2>2, <2>3
<1>4. StrictlyOrders(R, D)
  <2>1. \A n \in D : SortKey(listed, n) \in [1..5 -> Int]
    BY SortKeys
  <2>2. \A n, m \in D : SortKey(listed, n) = SortKey(listed, m) => n = m
    BY SortKeys
  <2>3. /\ \A a \in [1..5 -> Int] : ~Before(a, a)
        /\ \A a, b, c \in [1..5 -> Int] : Before(a, b) /\ Before(b, c) => Before(a, c)
        /\ \A a, b \in [1..5 -> Int] : a # b => Before(a, b) \/ Before(b, a)
    BY BeforeOrders
  <2>. HIDE DEF D
  <2>4. \A x \in D : <<x, x>> \notin R
    BY <2>1, <2>3
  <2>5. \A x, y, z \in D : <<x, y>> \in R /\ <<y, z>> \in R => <<x, z>> \in R
    BY <2>1, <2>3
  <2>6. \A x, y \in D : x # y => <<x, y>> \in R \/ <<y, x>> \in R
    BY <2>1, <2>2, <2>3
  <2>. HIDE DEF R
  <2>. QED
    BY <2>4, <2>5, <2>6 DEF StrictlyOrders
<1>5. /\ \A x, y \in D : Rank(D, R)[x] = Rank(D, R)[y] => x = y
      /\ \A x, y \in D : <<x, y>> \in R => Rank(D, R)[x] < Rank(D, R)[y]
      /\ \A x \in D : Rank(D, R)[x] \in 0..L-1
      /\ \A k \in 0..L-1 : \E x \in D : Rank(D, R)[x] = k
  <2>. HIDE DEF D, R
  <2>. QED
    BY <1>1, <1>4, RanksCount
<1>6. \A n \in D : Rank(D, R)[n] = Cardinality(Ahead(listed, n)) /\ Rank(D, R)[n] = Cardinality(Better(n))
  BY <1>3 DEF Rank
<1>. HIDE DEF R, Better, ranked, key
<1>7. ASSUME NEW k \in D
      PROVE  ranked[k] \in D /\ Cardinality(Ahead(listed, ranked[k])) = k - 1
  <2>1. k - 1 \in 0..L-1
    BY <1>1
  <2>2. \E n \in D : Cardinality(Better(n)) = k - 1
    BY <1>5, <1>6, <2>1
  <2>3. ranked[k] \in D /\ Cardinality(Better(ranked[k])) = k - 1
    BY <1>2, <2>2
  <2>. QED
    BY <1>6, <2>3
<1>8. ASSUME NEW n \in D, n # ranked[1]
      PROVE  Before(SortKey(listed, ranked[1]), SortKey(listed, n))
  <2>1. 1 \in D
    BY <1>1
  <2>2. ranked[1] \in D /\ Rank(D, R)[ranked[1]] = 0
    BY <1>6, <1>7, <2>1
  <2>3. <<n, ranked[1]>> \notin R
    BY <1>5, <2>2
  <2>4. <<ranked[1], n>> \in R
    <3>. HIDE DEF D
    <3>. QED
      BY <1>4, <1>8, <2>2, <2>3 DEF StrictlyOrders
  <2>. QED
    BY <2>4 DEF R
<1>9. ranked \in [D -> D]
  BY <1>2, <1>7
<1>10. \A n, m \in D : Cardinality(Ahead(listed, n)) = Cardinality(Ahead(listed, m)) => n = m
  BY <1>5, <1>6
<1>. QED
  BY <1>7, <1>8, <1>9, <1>10, Zenon DEF ranked, D

\* Who is named beats each of the others in what can be verified.
LEMMA ChosenStandsOut ==
  ASSUME NEW listed, NEW L, Comparable(listed, L), NEW n \in 1..L, NEW m \in 1..L, n # m,
         listed[n].id # 0, listed[n].id = Strongest(listed)
  PROVE  Before(Key(listed[n].review), Key(listed[m].review))
<1> DEFINE best == Ranked(listed)[1]
           tied == {i \in DOMAIN listed : Key(listed[i].review) = Key(listed[best].review)}
<1>1. L \in Nat /\ DOMAIN listed = 1..L /\ 1 \in 1..L
  BY DEF Comparable
<1>2. best \in 1..L
  BY <1>1, RankedFacts
<1>3. Cardinality(tied) = 1 /\ Strongest(listed) = listed[best].id
  BY DEF Strongest
<1>4. n = best
  BY <1>2, <1>3 DEF Comparable
<1>5. \/ Before(Key(listed[n].review), Key(listed[m].review))
      \/ Key(listed[n].review) = Key(listed[m].review)
  <2>1. Before(SortKey(listed, n), SortKey(listed, m))
    BY <1>4, RankedFacts
  <2>. QED
    BY <2>1, SortKeys
<1>6. ASSUME Key(listed[n].review) = Key(listed[m].review)
      PROVE  FALSE
  <2>1. n \in tied /\ m \in tied
    BY <1>1, <1>4, <1>6
  <2>2. IsFiniteSet(tied)
    <3>1. IsFiniteSet(1..L)
      BY <1>1, FS_Interval
    <3>. QED
      BY <1>1, <3>1, FS_Subset
  <2>. HIDE DEF tied
  <2>. QED
    BY <1>3, <2>1, <2>2, FS_Singleton
<1>. QED
  BY <1>5, <1>6

\* other lists the same, each at the place where pi names its place in listed.
Reorders(pi, listed, other, L) ==
  /\ DOMAIN other = 1..L
  /\ pi \in [1..L -> 1..L]
  /\ \A i, j \in 1..L : pi[i] = pi[j] => i = j
  /\ \A n \in 1..L : \E i \in 1..L : pi[i] = n
  /\ \A i \in 1..L : other[i] = listed[pi[i]]

\* As many are in a set in either.
LEMMA ReorderedCount ==
  ASSUME NEW listed, NEW L \in Nat, NEW other, NEW pi, Reorders(pi, listed, other, L), NEW S \in SUBSET (1..L)
  PROVE  Cardinality({i \in 1..L : pi[i] \in S}) = Cardinality(S)
<1> DEFINE T == {i \in 1..L : pi[i] \in S}
<1>1. IsFiniteSet(T)
  <2>1. IsFiniteSet(1..L) /\ T \in SUBSET (1..L)
    BY FS_Interval
  <2>. QED
    BY <2>1, FS_Subset
<1>2. /\ \A x \in T : pi[x] \in S
      /\ \A x, y \in T : pi[x] = pi[y] => x = y
      /\ \A s \in S : \E x \in T : pi[x] = s
  <2>1. \A x, y \in T : pi[x] = pi[y] => x = y
    BY DEF Reorders
  <2>2. ASSUME NEW s \in S
        PROVE  \E x \in T : pi[x] = s
    <3>1. PICK x \in 1..L : pi[x] = s
      BY DEF Reorders
    <3>. QED
      BY <3>1
  <2>. QED
    BY <2>1, <2>2
<1>. HIDE DEF T
<1>3. Cardinality(S) = Cardinality(T)
  BY <1>1, <1>2, SameSize
<1>. QED
  BY <1>3 DEF T

\* What can be ranked, can be in another order.
LEMMA ReorderedIsComparable ==
  ASSUME NEW listed, NEW L, Comparable(listed, L), NEW other, NEW pi, Reorders(pi, listed, other, L)
  PROVE  Comparable(other, L)
<1> DEFINE D == 1..L
<1>1. L \in Nat /\ DOMAIN listed = D /\ DOMAIN other = D /\ pi \in [D -> D]
  BY DEF Comparable, Reorders
<1>2. \A i \in D : other[i] = listed[pi[i]]
  BY DEF Reorders
<1>3. \A n \in D : other[n].created \in Nat /\ Key(other[n].review) \in [1..4 -> Int]
  BY <1>1, <1>2 DEF Comparable
<1>4. \A n, m \in D : other[n].id = other[m].id => n = m
  <2>1. \A n, m \in D : listed[pi[n]].id = listed[pi[m]].id => pi[n] = pi[m]
    BY <1>1 DEF Comparable
  <2>2. \A n, m \in D : pi[n] = pi[m] => n = m
    BY DEF Reorders
  <2>. QED
    BY <1>2, <2>1, <2>2
<1>. QED
  BY <1>1, <1>3, <1>4 DEF Comparable

\* If the order in which they are listed leaves the sort keys in the order they were in, it
\* changes neither the ranking nor who is named.
LEMMA SameOrderSameRanking ==
  ASSUME NEW listed, NEW L, Comparable(listed, L), NEW other, NEW pi, Reorders(pi, listed, other, L),
         \A i, j \in 1..L : Before(SortKey(other, i), SortKey(other, j)) <=>
                              Before(SortKey(listed, pi[i]), SortKey(listed, pi[j]))
  PROVE  /\ \A k \in 1..L : other[Ranked(other)[k]] = listed[Ranked(listed)[k]]
         /\ L # 0 => Strongest(other) = Strongest(listed)
<1> DEFINE D == 1..L
           r == Ranked(listed)
           s == Ranked(other)
<1>1. L \in Nat /\ DOMAIN listed = D /\ DOMAIN other = D /\ pi \in [D -> D]
  BY DEF Comparable, Reorders
<1>2. \A i \in D : other[i] = listed[pi[i]]
  BY DEF Reorders
<1>3. Comparable(other, L)
  BY ReorderedIsComparable
<1>6. \A i \in D : Cardinality(Ahead(other, i)) = Cardinality(Ahead(listed, pi[i]))
  <2>. SUFFICES ASSUME NEW i \in D
                PROVE  Cardinality(Ahead(other, i)) = Cardinality(Ahead(listed, pi[i]))
    OBVIOUS
  <2> DEFINE S == Ahead(listed, pi[i])
  <2>1. S \in SUBSET D
    BY <1>1 DEF Ahead
  <2>2. Ahead(other, i) = {m \in D : pi[m] \in S}
    BY <1>1 DEF Ahead
  <2>. HIDE DEF S
  <2>3. Cardinality({m \in D : pi[m] \in S}) = Cardinality(S)
    BY <1>1, <2>1, ReorderedCount
  <2>. QED
    BY <2>2, <2>3 DEF S
<1>7. /\ r \in [D -> D]
      /\ \A k \in D : Cardinality(Ahead(listed, r[k])) = k - 1
      /\ \A n, m \in D : Cardinality(Ahead(listed, n)) = Cardinality(Ahead(listed, m)) => n = m
  BY RankedFacts
<1>8. /\ s \in [D -> D]
      /\ \A k \in D : Cardinality(Ahead(other, s[k])) = k - 1
  BY <1>3, RankedFacts
<1>. HIDE DEF r, s
<1>9. \A k \in D : pi[s[k]] = r[k]
  BY <1>1, <1>6, <1>7, <1>8
<1>10. \A k \in D : other[s[k]] = listed[r[k]]
  BY <1>1, <1>2, <1>8, <1>9
<1>11. ASSUME L # 0
       PROVE  Strongest(other) = Strongest(listed)
  <2> DEFINE top == listed[r[1]]
             S == {n \in D : Key(listed[n].review) = Key(top.review)}
  <2>1. 1 \in D /\ other[s[1]] = top
    BY <1>1, <1>10, <1>11
  <2>2. {n \in DOMAIN other : Key(other[n].review) = Key(other[s[1]].review)} = {n \in D : pi[n] \in S}
    BY <1>1, <1>2, <2>1
  <2>3. {n \in DOMAIN listed : Key(listed[n].review) = Key(top.review)} = S
    BY <1>1
  <2>4. Cardinality({n \in D : pi[n] \in S}) = Cardinality(S)
    <3>1. S \in SUBSET D
      OBVIOUS
    <3>. HIDE DEF S
    <3>. QED
      BY <1>1, <3>1, ReorderedCount
  <2>5. listed # <<>> /\ other # <<>>
    BY <1>1, <2>1
  <2>. HIDE DEF S, top
  <2>6. Strongest(other) = IF /\ top.review.recommendation \in {"strong", "acceptable"}
                              /\ top.review.score >= 70
                              /\ Cardinality(S) = 1
                           THEN top.id ELSE 0
    BY <2>1, <2>2, <2>4, <2>5 DEF Strongest, s
  <2>7. Strongest(listed) = IF /\ top.review.recommendation \in {"strong", "acceptable"}
                               /\ top.review.score >= 70
                               /\ Cardinality(S) = 1
                            THEN top.id ELSE 0
    BY <2>3, <2>5 DEF Strongest, r, top
  <2>. QED
    BY <2>6, <2>7
<1>. QED
  BY <1>10, <1>11 DEF r, s, D

(***************************************************************************)
(* Classifying a request.                                                  *)
(***************************************************************************)

\* What the signals of each rule weigh.
Weighted(sigs, rules) == [r \in rules |-> sigs[r] * DEFAULT_RULES[r].weight]

\* The tenths of some rules are a sum of weights.
LEMMA TenthsSum ==
  ASSUME NEW sigs, NEW E, IsFiniteSet(E)
  PROVE  Tenths(sigs, E) = Sum(Weighted(sigs, E), E)
<1> DEFINE w == Weighted(sigs, E)
           Fold(h) == h = [s \in SUBSET E |->
                             IF s = {} THEN 0
                             ELSE (sigs[Pick(s)] * DEFAULT_RULES[Pick(s)].weight) + h[s \ {Pick(s)}]]
           iter == CHOOSE h : Fold(h)
<1>1. Tenths(sigs, E) = iter[E]
  BY DEF Tenths, MapThenSumSet, MapThenFoldSet, Pick
<1>2. \A s \in SUBSET E : s # {} => sigs[Pick(s)] * DEFAULT_RULES[Pick(s)].weight = w[Pick(s)]
  BY PickIn DEF Weighted
<1>. HIDE DEF w
<1>3. \A h : Fold(h) <=> Sums(h, w, E)
  <2>. SUFFICES ASSUME NEW h
                PROVE  Fold(h) <=> Sums(h, w, E)
    OBVIOUS
  <2>1. [s \in SUBSET E |-> IF s = {} THEN 0
                            ELSE (sigs[Pick(s)] * DEFAULT_RULES[Pick(s)].weight) + h[s \ {Pick(s)}]]
          = [s \in SUBSET E |-> IF s = {} THEN 0 ELSE w[Pick(s)] + h[s \ {Pick(s)}]]
    BY <1>2
  <2>. QED
    BY <2>1 DEF Sums
<1>4. \E h : Fold(h)
  <2>. HIDE DEF Fold
  <2>. QED
    BY <1>3, SumExists
<1>5. Sums(iter, w, E)
  <2>1. Fold(iter)
    <3>. HIDE DEF Fold
    <3>. QED
      BY <1>4
  <2>. HIDE DEF Fold, iter
  <2>. QED
    BY <1>3, <2>1
<1>. HIDE DEF iter, Fold
<1>6. Sum(w, E) = iter[E]
  BY <1>5, SumOf
<1>. QED
  BY <1>1, <1>6 DEF w

\* The rules are eleven, the last that of an agent.
LEMMA RulesFacts ==
  /\ Rules = 1..11
  /\ ForAgent = {11}
  /\ \A r \in Rules : DEFAULT_RULES[r].weight \in {2, 6, 7, 8, 9} /\ DEFAULT_RULES[r].category \in DOMAIN Template
  /\ \A r \in Rules \ ForAgent : DEFAULT_RULES[r].weight # 2
<1>1. Rules = 1..11
  BY DEF Rules, DEFAULT_RULES
<1>2. \A r \in 1..11 : r = 1 \/ r = 2 \/ r = 3 \/ r = 4 \/ r = 5 \/ r = 6 \/ r = 7 \/ r = 8 \/ r = 9 \/ r = 10 \/ r = 11
  OBVIOUS
<1>3. \A r \in 1..11 : DEFAULT_RULES[r].category = "agent_capable" <=> r = 11
  BY <1>2 DEF DEFAULT_RULES, Rule
<1>4. ForAgent = {11}
  BY <1>1, <1>3 DEF ForAgent, Of
<1>5. \A r \in 1..11 : DEFAULT_RULES[r].weight \in {2, 6, 7, 8, 9}
  BY <1>2 DEF DEFAULT_RULES, Rule
<1>6. \A r \in 1..11 : r # 11 => DEFAULT_RULES[r].weight # 2
  BY <1>2 DEF DEFAULT_RULES, Rule
<1>7. DOMAIN Template = {"physical_action", "identity_verification", "subjective_judgment", "account_access",
                         "legal_signature", "offline_data_collection", "human_interaction", "agent_capable"}
  BY DEF Template
<1>8. \A r \in 1..11 : DEFAULT_RULES[r].category \in DOMAIN Template
  BY <1>2, <1>7 DEF DEFAULT_RULES, Rule
<1>. QED
  BY <1>1, <1>4, <1>5, <1>6, <1>8

\* The rules are finitely many.
LEMMA RulesFinite == IsFiniteSet(Rules)
<1>1. IsFiniteSet(1..11)
  <2> DEFINE n == 11
  <2>1. n \in Int /\ 1 \in Int
    OBVIOUS
  <2>. HIDE DEF n
  <2>2. IsFiniteSet(1..n)
    BY <2>1, FS_Interval
  <2>. QED
    BY <2>2 DEF n
<1>. QED
  BY <1>1, RulesFacts

(***************************************************************************)
(* Adding up doubles.  What the rounding does to a sum is an integer; the  *)
(* tenths of the sum are exact.                                            *)
(***************************************************************************)
Doubles == [tenths : Nat, off : Int]

\* The nearest double to some tenths and a bit is these and another bit.
LEMMA NearestFacts ==
  ASSUME NEW t \in Nat, t >= 2, NEW e \in Int
  PROVE  Nearest(t, e) \in Doubles /\ Nearest(t, e).tenths = t
<1> DEFINE powers == {1, 2, 4, 8, 16, 32, 64, 128}
           spacings == {u \in powers : 4*t > 5*u \/ (4*t = 5*u /\ e >= 0)}
           u == Spacing(t, e)
           below == (e - u * ((t*u*u*u) % 5)) % (5*u)
           low == e - below
           up == 2*below > 5*u \/ (2*below = 5*u /\ (low \div u) % 2 = 1)
<1>1. u \in Nat /\ u > 0
  <2>1. 1 \in spacings
    OBVIOUS
  <2>2. spacings \in SUBSET (1..128)
    OBVIOUS
  <2>3. u = Max(spacings)
    BY DEF Spacing
  <2>. HIDE DEF spacings, u
  <2>4. u \in spacings
    BY <2>1, <2>2, <2>3, MaxIsOne
  <2>. QED
    BY <2>2, <2>4
<1>2. Nearest(t, e) = [tenths |-> t, off |-> IF up THEN low + 5*u ELSE low]
  BY DEF Nearest
<1>. HIDE DEF u
<1>3. low \in Int
  <2> DEFINE a == (t*u*u*u) % 5
  <2>1. a \in Int
    <3>1. t*u*u*u \in Int
      BY <1>1
    <3>. QED
      BY <3>1
  <2>. HIDE DEF a
  <2>2. e - u * a \in Int /\ 5*u \in Nat /\ 5*u > 0
    BY <1>1, <2>1
  <2>3. (e - u * a) % (5*u) \in Int
    BY <2>2
  <2>. QED
    BY <2>3 DEF a
<1>. HIDE DEF low, up
<1>. QED
  BY <1>1, <1>2, <1>3 DEF Doubles

\* A sum of doubles is one.
LEMMA AddFacts ==
  ASSUME NEW x \in Doubles, NEW y \in Doubles, y.tenths >= 2
  PROVE  Add(x, y) \in Doubles /\ Add(x, y).tenths = x.tenths + y.tenths
<1>1. /\ x.tenths + y.tenths \in Nat /\ x.tenths + y.tenths >= 2
      /\ x.off + y.off \in Int
  BY DEF Doubles
<1>. QED
  BY <1>1, NearestFacts DEF Add

\* So is one to which another is added some times over.
LEMMA AddTimesFacts ==
  ASSUME NEW x \in Doubles, NEW y \in Doubles, y.tenths >= 2, NEW n \in Nat
  PROVE  /\ AddTimes(x, y, n) \in Doubles
         /\ AddTimes(x, y, n).tenths = x.tenths + n * y.tenths
<1> DEFINE ys == [k \in 1..n |-> y]
           g == [q \in Doubles \X (1..n) |-> Add(q[1], ys[q[2]])]
           Is(h) == h = [s \in SUBSET (1..n) |-> IF s = {} THEN x ELSE Add(h[s \ {Max(s)}], ys[Max(s)])]
           F == CHOOSE h : Is(h)
<1>1. \A a \in Doubles, k \in 1..n : g[<<a, k>>] = Add(a, ys[k]) /\ g[<<a, k>>] \in Doubles
  BY AddFacts
<1>2. PICK h : FoldsLeft(h, n, Doubles, x, g)
  <2>. HIDE DEF g
  <2>. QED
    BY <1>1, FoldLeftExists
<1>3. Is(h)
  <2>1. \A s \in SUBSET (1..n) : s # {} => s \ {Max(s)} \in SUBSET (1..n) /\ Max(s) \in 1..n
    BY MaxIsOne
  <2>2. \A s \in SUBSET (1..n) :
          (IF s = {} THEN x ELSE g[<<h[s \ {Max(s)}], Max(s)>>])
            = IF s = {} THEN x ELSE Add(h[s \ {Max(s)}], ys[Max(s)])
    <3>. HIDE DEF g, ys
    <3>. QED
      BY <1>1, <1>2, <2>1 DEF FoldsLeft
  <2>. HIDE DEF g, ys
  <2>. QED
    BY <1>2, <2>2, Zenon DEF FoldsLeft
<1>4. Is(F)
  <2>. HIDE DEF Is
  <2>. QED
    BY <1>3
<1>5. AddTimes(x, y, n) = F[1..n]
  BY DEF AddTimes, FoldLeft, MapThenFoldSet
<1>6. F[{}] = x
  BY <1>4
<1>7. \A k \in 1..n : F[1..k] = Add(F[1..k-1], y)
  <2>. SUFFICES ASSUME NEW k \in 1..n
                PROVE  F[1..k] = Add(F[1..k-1], y)
    OBVIOUS
  <2>1. 1..k \in SUBSET (1..n) /\ 1..k # {} /\ Max(1..k) = k /\ (1..k) \ {k} = 1..k-1
    BY OneMore
  <2>2. F[1..k] = Add(F[(1..k) \ {Max(1..k)}], ys[Max(1..k)])
    <3>. HIDE DEF F, ys
    <3>. QED
      BY <1>4, <2>1
  <2>3. ys[k] = y
    OBVIOUS
  <2>. HIDE DEF F, ys
  <2>. QED
    BY <2>1, <2>2, <2>3
<1>. HIDE DEF F, Is, g, ys
<1> DEFINE Sound == {k \in 0..n : F[1..k] \in Doubles /\ F[1..k].tenths = x.tenths + k * y.tenths}
<1>8. 0 \in Sound
  <2>1. 1..0 = {}
    OBVIOUS
  <2>2. x.tenths + 0 * y.tenths = x.tenths
    BY DEF Doubles
  <2>. QED
    BY <1>6, <2>1, <2>2
<1>9. ASSUME NEW k \in 1..n, k - 1 \in Sound
      PROVE  k \in Sound
  <2>1. Add(F[1..k-1], y) \in Doubles /\ Add(F[1..k-1], y).tenths = F[1..k-1].tenths + y.tenths
    BY <1>9, AddFacts
  <2>2. (x.tenths + (k - 1) * y.tenths) + y.tenths = x.tenths + k * y.tenths
    <3>1. \A a, c \in Nat : (a + (k - 1) * c) + c = a + k * c
      OBVIOUS
    <3>. QED
      BY <3>1 DEF Doubles
  <2>. QED
    BY <1>7, <1>9, <2>1, <2>2
<1>10. n \in Sound
  <2>. HIDE DEF Sound
  <2>. QED
    BY <1>8, <1>9, CountUp
<1>. QED
  BY <1>5, <1>10

\* A score is a double, and its tenths are what the weights add up to.
LEMMA ScoreSum ==
  ASSUME NEW sigs \in [Rules -> Nat], NEW E \in SUBSET Rules
  PROVE  Score(sigs, E) \in Doubles /\ Score(sigs, E).tenths = Tenths(sigs, E)
<1> DEFINE n == 11
           zero == [tenths |-> 0, off |-> 0]
           times == [r \in Rules |-> IF r \in E THEN sigs[r] ELSE 0]
           id == [r \in Rules |-> r]
           Step(x, r) == AddTimes(x, Nearest(DEFAULT_RULES[r].weight, 0), times[r])
           g == [q \in Doubles \X (1..n) |-> Step(q[1], id[q[2]])]
           Is(h) == h = [s \in SUBSET (1..n) |-> IF s = {} THEN zero ELSE Step(h[s \ {Max(s)}], id[Max(s)])]
           F == CHOOSE h : Is(h)
           w == Weighted(sigs, E)
<1>0. Rules = 1..n /\ n \in Nat
  BY RulesFacts
<1>1. ASSUME NEW x \in Doubles, NEW r \in Rules
      PROVE  /\ Step(x, r) \in Doubles
             /\ Step(x, r).tenths = x.tenths + times[r] * DEFAULT_RULES[r].weight
  <2>1. DEFAULT_RULES[r].weight \in Nat /\ DEFAULT_RULES[r].weight >= 2
    BY RulesFacts
  <2>2. times[r] \in Nat
    OBVIOUS
  <2> DEFINE weight == DEFAULT_RULES[r].weight
             y == Nearest(weight, 0)
             k == times[r]
  <2>3. y \in Doubles /\ y.tenths = weight
    BY <2>1, NearestFacts
  <2>. HIDE DEF times, weight, y, k
  <2>4. AddTimes(x, y, k) \in Doubles /\ AddTimes(x, y, k).tenths = x.tenths + k * y.tenths
    BY <2>1, <2>2, <2>3, AddTimesFacts DEF weight, k
  <2>. QED
    BY <2>3, <2>4 DEF weight, y, k
<1>2. zero \in Doubles
  BY DEF Doubles
<1>. HIDE DEF n, Step, zero
<1>3. \A a \in Doubles, k \in 1..n : g[<<a, k>>] = Step(a, id[k]) /\ g[<<a, k>>] \in Doubles
  BY <1>0, <1>1
<1>4. PICK h : FoldsLeft(h, n, Doubles, zero, g)
  <2>. HIDE DEF g
  <2>. QED
    BY <1>0, <1>2, <1>3, FoldLeftExists
<1>5. Is(h)
  <2>1. \A s \in SUBSET (1..n) : s # {} => s \ {Max(s)} \in SUBSET (1..n) /\ Max(s) \in 1..n
    BY <1>0, MaxIsOne
  <2>2. \A s \in SUBSET (1..n) :
          (IF s = {} THEN zero ELSE g[<<h[s \ {Max(s)}], Max(s)>>])
            = IF s = {} THEN zero ELSE Step(h[s \ {Max(s)}], id[Max(s)])
    <3>. HIDE DEF g, id
    <3>. QED
      BY <1>3, <1>4, <2>1 DEF FoldsLeft
  <2>. HIDE DEF g, id
  <2>. QED
    BY <1>4, <2>2, Zenon DEF FoldsLeft
<1>6. Is(F)
  <2>. HIDE DEF Is
  <2>. QED
    BY <1>5
<1>7. Score(sigs, E) = F[1..n]
  BY <1>0 DEF Score, FoldLeft, MapThenFoldSet, Step, zero
<1>8. F[{}] = zero
  BY <1>6
<1>9. \A k \in 1..n : F[1..k] = Step(F[1..k-1], k)
  <2>. SUFFICES ASSUME NEW k \in 1..n
                PROVE  F[1..k] = Step(F[1..k-1], k)
    OBVIOUS
  <2>1. 1..k \in SUBSET (1..n) /\ 1..k # {} /\ Max(1..k) = k /\ (1..k) \ {k} = 1..k-1
    BY <1>0, OneMore
  <2>2. F[1..k] = Step(F[(1..k) \ {Max(1..k)}], id[Max(1..k)])
    <3>. HIDE DEF F, id
    <3>. QED
      BY <1>6, <2>1
  <2>3. id[k] = k
    BY <1>0
  <2>. HIDE DEF F, id
  <2>. QED
    BY <2>1, <2>2, <2>3
<1>10. \A t \in E : w[t] \in Nat /\ w[t] = times[t] * DEFAULT_RULES[t].weight
  <2>. SUFFICES ASSUME NEW t \in E
                PROVE  w[t] \in Nat /\ w[t] = times[t] * DEFAULT_RULES[t].weight
    OBVIOUS
  <2>1. w[t] = sigs[t] * DEFAULT_RULES[t].weight /\ times[t] = sigs[t]
    BY DEF Weighted
  <2>2. sigs[t] \in Nat /\ DEFAULT_RULES[t].weight \in {2, 6, 7, 8, 9}
    BY RulesFacts
  <2>3. \A a \in Nat, b \in {2, 6, 7, 8, 9} : a * b \in Nat
    OBVIOUS
  <2>. HIDE DEF w, times
  <2>. QED
    BY <2>1, <2>2, <2>3
<1>11. \A t \in Rules \ E : times[t] * DEFAULT_RULES[t].weight = 0
  <2>. SUFFICES ASSUME NEW t \in Rules \ E
                PROVE  times[t] * DEFAULT_RULES[t].weight = 0
    OBVIOUS
  <2>1. times[t] = 0 /\ DEFAULT_RULES[t].weight \in {2, 6, 7, 8, 9}
    BY RulesFacts
  <2>. HIDE DEF times
  <2>. QED
    BY <2>1
<1>. HIDE DEF F, Is, g, id, times, w
<1> DEFINE Sound == {k \in 0..n : F[1..k] \in Doubles /\ F[1..k].tenths = Sum(w, E \cap (1..k))}
<1>12. 0 \in Sound
  <2>1. 1..0 = {} /\ E \cap {} = {}
    OBVIOUS
  <2>2. Sum(w, {}) = 0
    BY SumOfNothing
  <2>3. 0 \in 0..n
    BY <1>0
  <2>4. F[1..0].tenths = 0
    BY <1>8, <2>1 DEF zero
  <2>. QED
    BY <1>2, <1>8, <2>1, <2>2, <2>3, <2>4
<1>13. ASSUME NEW k \in 1..n, k - 1 \in Sound
       PROVE  k \in Sound
  <2> DEFINE P == E \cap (1..k-1)
             Q == E \cap (1..k)
  <2>1. F[1..k] \in Doubles /\ F[1..k].tenths = Sum(w, P) + times[k] * DEFAULT_RULES[k].weight
    BY <1>0, <1>1, <1>9, <1>13
  <2>2. k \in 0..n /\ k \in Rules
    BY <1>0
  <2>3. IsFiniteSet(P) /\ \A t \in P : w[t] \in Nat
    <3>1. P \subseteq Rules
      OBVIOUS
    <3>. QED
      BY <1>10, <3>1, RulesFinite, FS_Subset
  <2>4. Sum(w, P) \in Nat
    BY <2>3, SumIsNat
  <2>5. CASE k \in E
    <3>1. Q = P \cup {k} /\ k \notin P
      BY <1>0, <2>5
    <3>2. \A t \in P \cup {k} : w[t] \in Nat
      BY <1>10, <2>3, <2>5
    <3>. HIDE DEF P, Q
    <3>3. Sum(w, Q) = Sum(w, P) + w[k]
      BY <2>3, <3>1, <3>2, SumAdds
    <3>4. w[k] = times[k] * DEFAULT_RULES[k].weight
      BY <1>10, <2>5
    <3>. QED
      BY <2>1, <2>2, <3>3, <3>4 DEF Q
  <2>6. CASE k \notin E
    <3>1. Q = P
      BY <1>0, <2>6
    <3>2. times[k] * DEFAULT_RULES[k].weight = 0
      BY <1>11, <2>2, <2>6
    <3>3. F[1..k].tenths = Sum(w, P)
      <4> DEFINE more == times[k] * DEFAULT_RULES[k].weight
      <4>1. F[1..k].tenths = Sum(w, P) + more /\ more = 0
        BY <2>1, <3>2
      <4>. HIDE DEF more, P
      <4>. QED
        BY <2>4, <4>1
    <3>. QED
      BY <2>1, <2>2, <3>1, <3>3
  <2>. QED
    BY <2>5, <2>6
<1>14. n \in Sound
  <2>. HIDE DEF Sound
  <2>1. \A k \in 1..n : k - 1 \in Sound => k \in Sound
    BY <1>13
  <2>2. \A k \in 0..n : k \in Sound
    BY <1>0, <1>12, <2>1, CountUp
  <2>. QED
    BY <1>0, <2>2
<1>15. Tenths(sigs, E) = Sum(w, E)
  BY RulesFinite, FS_Subset, TenthsSum DEF w
<1>16. E \cap (1..n) = E
  BY <1>0
<1>. QED
  BY <1>7, <1>14, <1>15, <1>16

\* The score of a category with a signal clears the threshold.
LEMMA ScoreFacts ==
  ASSUME NEW sigs \in [Rules -> Nat], NEW c \in Categories(sigs)
  PROVE  /\ Score(sigs, Of(c)).tenths = Tenths(sigs, Of(c))
         /\ Tenths(sigs, Of(c)) \in Int /\ Tenths(sigs, Of(c)) >= 6
         /\ Score(sigs, Of(c)).off \in Int
<1> DEFINE H == Rules \ ForAgent
           E == Of(c)
           v == Weighted(sigs, E)
<1>1. PICK r \in H : c = DEFAULT_RULES[r].category /\ sigs[r] > 0
  BY DEF Categories
<1>2. E \in SUBSET H /\ r \in E
  BY <1>1 DEF Of, ForAgent
<1>3. IsFiniteSet(E)
  BY <1>2, RulesFinite, FS_Subset
<1>4. \A t \in E : sigs[t] \in Nat /\ DEFAULT_RULES[t].weight \in {6, 7, 8, 9}
  BY <1>2, RulesFacts
<1>5. \A t \in E : v[t] = sigs[t] * DEFAULT_RULES[t].weight
  BY DEF Weighted
<1>6. \A t \in E : v[t] \in Nat
  <2>1. \A a \in Nat, b \in {6, 7, 8, 9} : a * b \in Nat
    OBVIOUS
  <2>. HIDE DEF E, v
  <2>. QED
    BY <1>4, <1>5, <2>1
<1>7. v[r] >= 6
  <2>1. \A a \in Nat, b \in {6, 7, 8, 9} : a > 0 => a * b >= 6
    OBVIOUS
  <2>. HIDE DEF E, v
  <2>. QED
    BY <1>1, <1>2, <1>4, <1>5, <2>1
<1>8. Score(sigs, E) \in Doubles /\ Score(sigs, E).tenths = Tenths(sigs, E)
  BY <1>2, ScoreSum
<1>. HIDE DEF E, v
<1>9. Tenths(sigs, E) = Sum(v, E)
  BY <1>3, TenthsSum DEF v
<1>10. Sum(v, E) \in Nat /\ v[r] <= Sum(v, E)
  BY <1>2, <1>3, <1>6, SumIsNat, SumCovers
<1>11. Score(sigs, E).off \in Int
  BY <1>8 DEF Doubles
<1>. QED
  BY <1>2, <1>6, <1>7, <1>8, <1>9, <1>10, <1>11 DEF E

\* Of some scores one is not exceeded.
LEMMA OneIsGreatest ==
  ASSUME NEW C, IsFiniteSet(C), C # {}, NEW s, \A c \in C : s[c].tenths \in Int /\ s[c].off \in Int
  PROVE  \E c \in C : \A d \in C : ~Greater(s[d], s[c])
<1> DEFINE Up(c) == {d \in C : Greater(s[d], s[c])}
           T == {Up(c) : c \in C}
<1>1. T \subseteq SUBSET C /\ T # {}
  OBVIOUS
<1>2. PICK U \in T : \A V \in T : V \subseteq U => V = U
  <2>. HIDE DEF T
  <2>. QED
    BY <1>1, SmallestSet
<1>3. PICK c \in C : U = Up(c)
  OBVIOUS
<1>4. ASSUME NEW d \in Up(c)
      PROVE  FALSE
  <2>1. d \notin Up(d)
    BY DEF Greater
  <2>2. Up(d) \subseteq Up(c)
    <3>. SUFFICES ASSUME NEW e \in C, Greater(s[e], s[d])
                  PROVE  Greater(s[e], s[c])
      OBVIOUS
    <3> DEFINE et == s[e].tenths
               eo == s[e].off
               dt == s[d].tenths
               do == s[d].off
               ct == s[c].tenths
               co == s[c].off
    <3>1. et \in Int /\ eo \in Int /\ dt \in Int /\ do \in Int /\ ct \in Int /\ co \in Int
      OBVIOUS
    <3>2. (et > dt \/ (et = dt /\ eo > do)) /\ (dt > ct \/ (dt = ct /\ do > co))
      BY DEF Greater
    <3>. HIDE DEF et, eo, dt, do, ct, co
    <3>3. et > ct \/ (et = ct /\ eo > co)
      BY <3>1, <3>2
    <3>. QED
      BY <3>3 DEF Greater, et, eo, ct, co
  <2>3. Up(d) \in T /\ d \in C
    OBVIOUS
  <2>. QED
    BY <1>2, <1>3, <2>1, <2>2, <2>3
<1>. QED
  BY <1>4

\* The top category is one that no other exceeds.
LEMMA TopFacts ==
  ASSUME NEW sigs \in [Rules -> Nat], Categories(sigs) # {}
  PROVE  /\ Top(sigs) \in Categories(sigs)
         /\ Top(sigs) \in DOMAIN Template
         /\ \A d \in Categories(sigs) : ~Greater(Score(sigs, Of(d)), Score(sigs, Of(Top(sigs))))
<1> DEFINE C == Categories(sigs)
           score == [c \in C |-> Score(sigs, Of(c))]
           S == {c \in C : \A d \in C : ~Greater(score[d], score[c])}
           rule == [c \in S |-> Min(Of(c))]
           scores == {[category |-> c, score |-> Score(sigs, Of(c))] : c \in C}
           best == {s \in scores : \A t \in scores : ~Greater(t.score, s.score)}
<1>1. C # {} /\ Top(sigs) = First(S)
  <2>1. Top(sigs) = First({s.category : s \in best})
    BY DEF Top
  <2>2. {s.category : s \in best} = S
    <3>1. ASSUME NEW s \in best
          PROVE  s.category \in S
      <4>1. PICK c \in C : s = [category |-> c, score |-> Score(sigs, Of(c))]
        OBVIOUS
      <4>2. \A d \in C : ~Greater(Score(sigs, Of(d)), s.score)
        <5>. SUFFICES ASSUME NEW d \in C
                      PROVE  ~Greater(Score(sigs, Of(d)), s.score)
          OBVIOUS
        <5> DEFINE u == [category |-> d, score |-> Score(sigs, Of(d))]
        <5>1. u \in scores /\ u.score = Score(sigs, Of(d))
          OBVIOUS
        <5>2. ~Greater(u.score, s.score)
          BY <5>1
        <5>. QED
          BY <5>1, <5>2
      <4>. QED
        BY <4>1, <4>2
    <3>2. ASSUME NEW c \in S
          PROVE  \E s \in best : s.category = c
      <4> DEFINE s == [category |-> c, score |-> Score(sigs, Of(c))]
      <4>1. s \in best /\ s.category = c
        OBVIOUS
      <4>. QED
        BY <4>1
    <3>. HIDE DEF best, S
    <3>. QED
      BY <3>1, <3>2
  <2>. HIDE DEF best, S
  <2>. QED
    BY <2>1, <2>2
<1>2. C \subseteq DOMAIN Template /\ \A c \in C : Of(c) # {} /\ Of(c) \in SUBSET Nat
  BY RulesFacts DEF Categories, Of
<1>3. IsFiniteSet(C)
  <2> DEFINE f == [r \in Rules |-> DEFAULT_RULES[r].category]
             R == {r \in Rules \ ForAgent : sigs[r] > 0}
  <2>1. C = {f[r] : r \in R}
    BY DEF Categories
  <2>2. IsFiniteSet(R)
    <3>1. IsFiniteSet(Rules)
      BY RulesFinite
    <3>. QED
      BY <3>1, FS_Subset
  <2>. HIDE DEF f, R, C
  <2>. QED
    BY <2>1, <2>2, ImageFinite
<1>4. \A c \in C : score[c].tenths \in Int /\ score[c].off \in Int
  BY ScoreFacts
<1>5. S # {}
  <2>. HIDE DEF C, score
  <2>1. \E c \in C : \A d \in C : ~Greater(score[d], score[c])
    BY <1>1, <1>3, <1>4, OneIsGreatest
  <2>. QED
    BY <2>1
<1>6. S \subseteq C /\ \A c \in S, d \in C : ~Greater(Score(sigs, Of(d)), Score(sigs, Of(c)))
  OBVIOUS
<1>. HIDE DEF S, C
<1>7. \A c \in S : rule[c] \in Nat
  <2>. SUFFICES ASSUME NEW c \in S
                PROVE  Min(Of(c)) \in Nat
    OBVIOUS
  <2>1. Of(c) # {} /\ Of(c) \in SUBSET Nat
    BY <1>2, <1>6
  <2>2. \E n \in Of(c) : \A m \in Of(c) : n <= m
    BY <2>1, SmallestNat
  <2>3. Min(Of(c)) \in Of(c)
    BY <2>2 DEF Min
  <2>. QED
    BY <2>1, <2>3
<1>8. \E c \in S : \A d \in S : rule[c] <= rule[d]
  <2> DEFINE N == {rule[c] : c \in S}
  <2>1. N \in SUBSET Nat /\ N # {}
    BY <1>5, <1>7
  <2>2. PICK n \in N : \A m \in N : n <= m
    <3>. HIDE DEF N
    <3>. QED
      BY <2>1, SmallestNat
  <2>. QED
    BY <2>2
<1>9. First(S) \in S
  <2>1. \E c \in S : \A d \in S : Min(Of(c)) <= Min(Of(d))
    BY <1>8
  <2>. QED
    BY <2>1 DEF First
<1>. QED
  BY <1>1, <1>2, <1>6, <1>9 DEF C

\* A request's category has a template.
LEMMA CategoryFacts ==
  ASSUME NEW sigs \in [Rules -> Nat]
  PROVE  Category(sigs) \in DOMAIN Template
<1>1. CASE ~HumanRequired(sigs)
  BY <1>1 DEF Category, Template
<1>2. CASE HumanRequired(sigs)
  BY <1>2, TopFacts DEF HumanRequired, Category
<1>. QED
  BY <1>1, <1>2

\* The verbs of an agent have a score.
LEMMA AgentFacts ==
  ASSUME NEW sigs \in [Rules -> Nat]
  PROVE  /\ Score(sigs, ForAgent).tenths = Tenths(sigs, ForAgent)
         /\ Tenths(sigs, ForAgent) = 2 * sigs[11]
         /\ Score(sigs, ForAgent).off \in Int
<1> DEFINE v == Weighted(sigs, {11})
<1>1. ForAgent = {11} /\ {11} \in SUBSET Rules /\ DEFAULT_RULES[11].weight = 2 /\ sigs[11] \in Nat
  BY RulesFacts DEF DEFAULT_RULES, Rule
<1>2. Score(sigs, {11}) \in Doubles /\ Score(sigs, {11}).tenths = Tenths(sigs, {11})
  BY <1>1, ScoreSum
<1>3. v[11] = 2 * sigs[11] /\ v[11] \in Nat
  BY <1>1 DEF Weighted
<1>4. IsFiniteSet({}) /\ IsFiniteSet({11}) /\ {} \cup {11} = {11} /\ 11 \notin {}
  BY FS_EmptySet, FS_Singleton
<1>. HIDE DEF v
<1>5. Sum(v, {} \cup {11}) = Sum(v, {}) + v[11]
  <2>1. \A t \in {} \cup {11} : v[t] \in Nat
    BY <1>3
  <2>. QED
    BY <1>4, <2>1, SumAdds
<1>6. Sum(v, {}) = 0
  BY SumOfNothing
<1>7. Tenths(sigs, {11}) = Sum(v, {11})
  BY <1>4, TenthsSum DEF v
<1>8. Tenths(sigs, {11}) = 2 * sigs[11]
  BY <1>1, <1>3, <1>4, <1>5, <1>6, <1>7
<1>. QED
  BY <1>1, <1>2, <1>8 DEF Doubles

\* Scores compare as their tenths do, unless these are the same; and a category with a signal
\* clears the threshold.
LEMMA RequiredFacts ==
  ASSUME NEW sigs \in [Rules -> Nat], Categories(sigs) # {}
  PROVE  LET best == Tenths(sigs, Of(Top(sigs)))
             verbs == Tenths(sigs, ForAgent)
         IN /\ best \in Int /\ best >= 6 /\ verbs \in Int
            /\ \A c \in Categories(sigs) : Tenths(sigs, Of(c)) \in Int /\ Tenths(sigs, Of(c)) <= best
            /\ best > verbs => HumanRequired(sigs)
            /\ HumanRequired(sigs) => best >= verbs
<1> DEFINE top == Top(sigs)
           score == Score(sigs, Of(top))
           agent == Score(sigs, ForAgent)
           best == Tenths(sigs, Of(top))
           verbs == Tenths(sigs, ForAgent)
<1>1. top \in Categories(sigs) /\ \A d \in Categories(sigs) : ~Greater(Score(sigs, Of(d)), score)
  BY TopFacts
<1>2. score.tenths = best /\ best \in Int /\ best >= 6 /\ score.off \in Int
  BY <1>1, ScoreFacts
<1>3. agent.tenths = verbs /\ verbs \in Int /\ agent.off \in Int
  <2>1. agent.tenths = verbs /\ verbs = 2 * sigs[11] /\ agent.off \in Int
    BY AgentFacts
  <2>2. sigs[11] \in Nat
    BY RulesFacts
  <2>. HIDE DEF agent, verbs
  <2>. QED
    BY <2>1, <2>2
<1>4. ASSUME NEW c \in Categories(sigs)
      PROVE  Tenths(sigs, Of(c)) \in Int /\ Tenths(sigs, Of(c)) <= best
  <2> DEFINE t == Tenths(sigs, Of(c))
  <2>1. Score(sigs, Of(c)).tenths = t /\ t \in Int
    BY ScoreFacts
  <2>2. ~(t > best)
    BY <1>1, <1>2, <2>1 DEF Greater
  <2>. HIDE DEF t, best
  <2>3. t <= best
    BY <1>2, <2>1, <2>2
  <2>. QED
    BY <2>1, <2>3 DEF t
<1>5. HumanRequired(sigs) <=> ~Greater(Threshold, score) /\ Greater(score, agent)
  BY DEF HumanRequired
<1>. HIDE DEF score, agent, best, verbs
<1>6. ~Greater(Threshold, score)
  BY <1>2 DEF Greater, Threshold
<1>7. Greater(score, agent) <=> best > verbs \/ (best = verbs /\ score.off > agent.off)
  BY <1>2, <1>3 DEF Greater
<1>. QED
  BY <1>2, <1>3, <1>4, <1>5, <1>6, <1>7 DEF best, verbs

\* Signals that no rule of E reads do not change its score.
LEMMA ScoreSame ==
  ASSUME NEW E, IsFiniteSet(E), NEW v, NEW w, \A r \in E : v[r] = w[r]
  PROVE  /\ Score(v, E) = Score(w, E)
         /\ Tenths(v, E) = Tenths(w, E)
<1> DEFINE Times(sigs) == [r \in Rules |-> IF r \in E THEN sigs[r] ELSE 0]
           Added(times) ==
             FoldLeft(LAMBDA x, r : AddTimes(x, Nearest(DEFAULT_RULES[r].weight, 0), times[r]),
                      [tenths |-> 0, off |-> 0], [r \in Rules |-> r])
<1>1. Times(v) = Times(w)
  OBVIOUS
<1>2. Score(v, E) = Score(w, E)
  <2>1. Score(v, E) = Added(Times(v)) /\ Score(w, E) = Added(Times(w))
    BY DEF Score
  <2>. HIDE DEF Added, Times
  <2>. QED
    BY <1>1, <2>1
<1>3. Weighted(v, E) = Weighted(w, E)
  BY DEF Weighted
<1>4. Tenths(v, E) = Sum(Weighted(v, E), E) /\ Tenths(w, E) = Sum(Weighted(w, E), E)
  BY TenthsSum
<1>. QED
  BY <1>2, <1>3, <1>4

\* One more signal of a rule raises the score of its category.
LEMMA ScoreRises ==
  ASSUME NEW E \in SUBSET Rules, NEW r \in E, NEW w \in [Rules -> Nat], NEW v, v = [w EXCEPT ![r] = @ + 1]
  PROVE  Tenths(v, E) > Tenths(w, E) /\ Tenths(w, E) \in Nat /\ Tenths(v, E) \in Nat
<1> DEFINE V == E \ {r}
           a == Weighted(v, E)
           b == Weighted(w, E)
<1>1. IsFiniteSet(E) /\ IsFiniteSet(V) /\ V \cup {r} = E /\ r \notin V
  BY RulesFinite, FS_Subset
<1>2. \A t \in E : w[t] \in Nat /\ v[t] \in Nat /\ DEFAULT_RULES[t].weight \in {2, 6, 7, 8, 9}
  BY RulesFacts
<1>3. \A t \in E : a[t] = v[t] * DEFAULT_RULES[t].weight /\ b[t] = w[t] * DEFAULT_RULES[t].weight
  BY DEF Weighted
<1>4. \A t \in E : a[t] \in Nat /\ b[t] \in Nat
  <2>1. \A n \in Nat, k \in {2, 6, 7, 8, 9} : n * k \in Nat
    OBVIOUS
  <2>. HIDE DEF a, b
  <2>. QED
    BY <1>2, <1>3, <2>1
<1>5. \A t \in V : a[t] = b[t]
  BY <1>3
<1>6. a[r] > b[r]
  <2>1. \A n \in Nat, k \in {2, 6, 7, 8, 9} : (n + 1) * k > n * k
    OBVIOUS
  <2>2. v[r] = w[r] + 1
    OBVIOUS
  <2>. HIDE DEF a, b
  <2>. QED
    BY <1>2, <1>3, <2>1, <2>2
<1>7. Tenths(v, E) = Sum(a, E) /\ Tenths(w, E) = Sum(b, E)
  BY <1>1, TenthsSum
<1>. HIDE DEF V, a, b
<1>8. /\ \A t \in V \cup {r} : a[t] \in Nat
      /\ \A t \in V \cup {r} : b[t] \in Nat
  BY <1>1, <1>4
<1>9. Sum(a, V \cup {r}) = Sum(a, V) + a[r] /\ Sum(b, V \cup {r}) = Sum(b, V) + b[r]
  BY <1>1, <1>8, SumAdds
<1>10. Sum(a, V) = Sum(b, V) /\ Sum(b, V) \in Nat
  BY <1>1, <1>5, <1>8, SumSame, SumIsNat
<1>. HIDE DEF Sum
<1>. QED
  BY <1>1, <1>4, <1>6, <1>7, <1>9, <1>10

\* A verb more for an agent leaves the categories as they are, and their scores.
LEMMA VerbMoves ==
  ASSUME NEW w \in [Rules -> Nat], NEW v \in [Rules -> Nat], NEW r \in ForAgent, v = [w EXCEPT ![r] = @ + 1],
         HumanRequired(v)
  PROVE  HumanRequired(w)
<1> DEFINE top == Top(v)
<1>2. r = 11 /\ ForAgent = {11} /\ r \in Rules /\ w[11] \in Nat /\ v[11] = w[11] + 1
  BY RulesFacts
<1>3. \A s \in Rules \ ForAgent : v[s] = w[s]
  BY <1>2
<1>4. Categories(v) = Categories(w) /\ Categories(v) # {}
  BY <1>3 DEF Categories, HumanRequired
<1>5. top \in Categories(v)
  BY <1>4, TopFacts
<1>6. Tenths(v, Of(top)) = Tenths(w, Of(top))
  <2>1. Of(top) \subseteq Rules \ ForAgent
    BY <1>5 DEF Categories, Of, ForAgent
  <2>2. IsFiniteSet(Of(top))
    BY <2>1, RulesFinite, FS_Subset
  <2>. QED
    BY <1>3, <2>1, <2>2, ScoreSame
<1>7. Tenths(v, ForAgent) = 2 * v[11] /\ Tenths(w, ForAgent) = 2 * w[11]
  BY AgentFacts
<1>8. Tenths(v, Of(top)) >= Tenths(v, ForAgent)
  BY <1>4, RequiredFacts
<1>9. /\ Tenths(w, Of(top)) \in Int /\ Tenths(w, Of(top)) <= Tenths(w, Of(Top(w)))
      /\ Tenths(w, Of(Top(w))) \in Int
      /\ Tenths(w, Of(Top(w))) > Tenths(w, ForAgent) => HumanRequired(w)
  BY <1>4, <1>5, RequiredFacts
<1> DEFINE a == Tenths(w, Of(top))
           b == Tenths(w, Of(Top(w)))
<1>. HIDE DEF a, b
<1>10. a >= 2 * w[11] + 2
  <2>1. a >= 2 * v[11]
    BY <1>6, <1>7, <1>8 DEF a
  <2>. QED
    BY <1>2, <2>1
<1>11. b > 2 * w[11]
  <2>1. a \in Int /\ a <= b /\ b \in Int
    BY <1>9 DEF a, b
  <2>. QED
    BY <1>2, <1>10, <2>1
<1>. QED
  BY <1>7, <1>9, <1>11 DEF b

\* A phrase more that only a human can see to raises its category, and leaves the others as they are.
LEMMA SignMoves ==
  ASSUME NEW w \in [Rules -> Nat], NEW v \in [Rules -> Nat], NEW r \in Rules \ ForAgent, v = [w EXCEPT ![r] = @ + 1],
         HumanRequired(w)
  PROVE  HumanRequired(v)
<1> DEFINE c == Top(w)
           d == Top(v)
<1>3. v[r] = w[r] + 1 /\ \A s \in Rules : s # r => v[s] = w[s]
  OBVIOUS
<1>4. Categories(w) # {} /\ Categories(w) \subseteq Categories(v)
  <2>1. \A s \in Rules : w[s] > 0 => v[s] > 0
    BY <1>3
  <2>. QED
    BY <2>1 DEF Categories, HumanRequired
<1>5. c \in Categories(w) /\ c \in Categories(v) /\ Categories(v) # {} /\ d \in Categories(v)
  BY <1>4, TopFacts
<1>6. Of(c) \in SUBSET (Rules \ ForAgent) /\ IsFiniteSet(Of(c)) /\ IsFiniteSet(ForAgent)
  <2>1. Of(c) \subseteq Rules \ ForAgent /\ ForAgent \subseteq Rules
    BY <1>5 DEF Categories, Of, ForAgent
  <2>. QED
    BY <2>1, RulesFinite, FS_Subset
<1>7. Score(v, ForAgent) = Score(w, ForAgent) /\ Tenths(v, ForAgent) = Tenths(w, ForAgent)
  <2>1. \A s \in ForAgent : v[s] = w[s]
    BY <1>3 DEF ForAgent, Of
  <2>. QED
    BY <1>6, <2>1, ScoreSame
<1>8. CASE r \in Of(c)
  <2> DEFINE x == Tenths(w, Of(c))
             y == Tenths(v, Of(c))
             z == Tenths(v, Of(d))
             a == Tenths(w, ForAgent)
  <2>1. x \in Int /\ a \in Int /\ x >= a
    BY <1>4, RequiredFacts
  <2>2. y > x
    BY <1>6, <1>8, ScoreRises
  <2>3. y \in Int /\ z \in Int /\ y <= z
    BY <1>5, RequiredFacts
  <2>4. z > Tenths(v, ForAgent) => HumanRequired(v)
    BY <1>5, RequiredFacts
  <2>. HIDE DEF x, y, z, a
  <2>5. z > a
    BY <2>1, <2>2, <2>3
  <2>. QED
    BY <1>7, <2>4, <2>5 DEF a
<1>9. CASE r \notin Of(c)
  <2>1. Score(v, Of(c)) = Score(w, Of(c))
    <3>1. \A s \in Of(c) : v[s] = w[s]
      BY <1>3, <1>6, <1>9
    <3>. QED
      BY <1>6, <3>1, ScoreSame
  <2> DEFINE x == Score(w, Of(c))
             z == Score(v, Of(d))
             a == Score(w, ForAgent)
  <2>2. Greater(x, a)
    BY DEF HumanRequired
  <2>3. ~Greater(x, z)
    BY <1>5, <2>1, TopFacts
  <2>4. x.tenths \in Int /\ x.off \in Int
    BY <1>5, ScoreFacts
  <2>5. z.tenths \in Int /\ z.off \in Int /\ z.tenths >= 6
    BY <1>5, ScoreFacts
  <2>6. a.tenths \in Int /\ a.off \in Int
    <3>1. a.tenths = Tenths(w, ForAgent) /\ a.off \in Int
      BY AgentFacts
    <3>2. Tenths(w, ForAgent) \in Int
      BY <1>4, RequiredFacts
    <3>. QED
      BY <3>1, <3>2
  <2>. HIDE DEF x, z, a
  <2>7. Greater(z, a)
    <3> DEFINE xt == x.tenths
               xo == x.off
               zt == z.tenths
               zo == z.off
               at == a.tenths
               ao == a.off
    <3>1. (xt > at \/ (xt = at /\ xo > ao)) /\ ~(xt > zt \/ (xt = zt /\ xo > zo))
      BY <2>2, <2>3 DEF Greater
    <3>2. xt \in Int /\ xo \in Int /\ zt \in Int /\ zo \in Int /\ at \in Int /\ ao \in Int
      BY <2>4, <2>5, <2>6
    <3>. HIDE DEF xt, xo, zt, zo, at, ao
    <3>3. zt > at \/ (zt = at /\ zo > ao)
      BY <3>1, <3>2
    <3>. QED
      BY <3>3 DEF Greater, zt, zo, at, ao
  <2>8. ~Greater(Threshold, z)
    BY <2>5 DEF Greater, Threshold
  <2>. QED
    BY <1>5, <1>7, <2>7, <2>8 DEF HumanRequired, z, a
<1>. QED
  BY <1>8, <1>9

(***************************************************************************)
(* The templates.                                                          *)
(***************************************************************************)

\* What a template adds keeps it acceptable.
LEMMA FromTemplateFacts ==
  ASSUME NEW reqs \in Seq(Requirement), reqs # <<>>, NEW criteria \in Seq(Criterion),
         \A i \in 1..Len(criteria) : criteria[i].links \subseteq DOMAIN reqs /\ criteria[i].check \in {"manual", "evidence_present"}
  PROVE  /\ FromTemplate(reqs, criteria) \in ContractSpec
         /\ SpecAccepted(FromTemplate(reqs, criteria))
         /\ FromTemplate(reqs, criteria).reqs = reqs
         /\ Len(FromTemplate(reqs, criteria).criteria) = 1 + Len(criteria)
<1> DEFINE first == Manual(DOMAIN reqs)
           all == <<first>> \o criteria
<1>1. FromTemplate(reqs, criteria) = [reqs |-> reqs, criteria |-> all]
  BY DEF FromTemplate
<1>2. first \in Criterion /\ first.links = DOMAIN reqs /\ first.check = "manual"
  <2>1. DOMAIN reqs \subseteq Nat
    OBVIOUS
  <2>. QED
    BY <2>1 DEF Manual, Criterion, NoText
<1>. HIDE DEF first
<1>3. <<first>> \in Seq(Criterion) /\ Len(<<first>>) = 1 /\ <<first>>[1] = first
  BY <1>2
<1>4. /\ all \in Seq(Criterion)
      /\ Len(all) = 1 + Len(criteria)
      /\ all[1] = first
      /\ \A i \in 1..Len(criteria) : all[i+1] = criteria[i]
  <2> DEFINE one == <<first>>
  <2>1. one \in Seq(Criterion) /\ Len(one) = 1 /\ one[1] = first
    BY <1>3
  <2>2. all = one \o criteria
    OBVIOUS
  <2>. HIDE DEF one, all
  <2>3. /\ all \in Seq(Criterion)
        /\ Len(all) = Len(one) + Len(criteria)
        /\ \A i \in 1..Len(all) : all[i] = IF i <= Len(one) THEN one[i] ELSE criteria[i - Len(one)]
    <3>1. one \o criteria \in Seq(Criterion) /\ Len(one \o criteria) = Len(one) + Len(criteria)
      BY <2>1, ConcatProperties
    <3>2. \A i \in 1..Len(one) + Len(criteria) :
            (one \o criteria)[i] = IF i <= Len(one) THEN one[i] ELSE criteria[i - Len(one)]
      BY <2>1, ConcatProperties
    <3>. QED
      BY <2>2, <3>1, <3>2
  <2>4. Len(criteria) \in Nat
    BY LenProperties
  <2>5. all[1] = first
    BY <2>1, <2>3, <2>4
  <2>6. ASSUME NEW i \in 1..Len(criteria)
        PROVE  all[i+1] = criteria[i]
    <3>1. i + 1 \in 1..Len(all) /\ ~ i + 1 <= Len(one) /\ (i + 1) - Len(one) = i
      BY <2>1, <2>3, <2>4
    <3>2. all[i+1] = criteria[(i + 1) - Len(one)]
      BY <2>3, <3>1
    <3>. QED
      BY <3>1, <3>2
  <2>. QED
    BY <2>1, <2>3, <2>5, <2>6
<1>5. DOMAIN all = 1..Len(all) /\ Len(criteria) \in Nat
  BY <1>4, LenProperties
<1>. HIDE DEF all
<1>6. \A i \in DOMAIN all : all[i].links \subseteq DOMAIN reqs /\ all[i].check \in {"manual", "evidence_present"}
  <2>. SUFFICES ASSUME NEW i \in 1..Len(all)
                PROVE  all[i].links \subseteq DOMAIN reqs /\ all[i].check \in {"manual", "evidence_present"}
    BY <1>5
  <2>1. CASE i = 1
    BY <1>2, <1>4, <2>1
  <2>2. CASE i # 1
    <3> DEFINE j == i - 1
    <3>1. j \in 1..Len(criteria) /\ i = j + 1
      BY <1>4, <1>5, <2>2
    <3>2. all[i] = criteria[j]
      BY <1>4, <3>1
    <3>. HIDE DEF j
    <3>. QED
      BY <3>1, <3>2
  <2>. QED
    BY <2>1, <2>2
<1>7. all # <<>>
  BY <1>4, <1>5
<1>8. FromTemplate(reqs, criteria) \in ContractSpec
  BY <1>1, <1>4 DEF ContractSpec
<1>9. SpecAccepted(FromTemplate(reqs, criteria))
  BY <1>1, <1>6, <1>7 DEF SpecAccepted
<1>. QED
  BY <1>1, <1>4, <1>8, <1>9

\* Every template is one that would be accepted from a caller, and a short one.
LEMMA TemplateFacts ==
  \A c \in DOMAIN Template :
    /\ Template[c] \in ContractSpec
    /\ SpecAccepted(Template[c])
    /\ Len(Template[c].reqs) <= 2
    /\ Len(Template[c].criteria) <= 3
<1>1. /\ \A kind \in {"url", "screenshot", "photo", "file", "text", "transaction"} : Req(kind) \in Requirement
      /\ \A bound \in Nat : MinWords(Req("text"), bound) \in Requirement
  <2>1. \A kind \in {"url", "screenshot", "photo", "file", "text", "transaction"} : Req(kind) \in Requirement
    BY DEF Req, Requirement
  <2>2. ASSUME NEW bound \in Nat
        PROVE  MinWords(Req("text"), bound) \in Requirement
    <3> DEFINE words == {[name |-> "min_words", bound |-> bound]}
    <3>1. words \in SUBSET [name : ConstraintNames, bound : Nat]
      BY DEF ConstraintNames
    <3>2. MinWords(Req("text"), bound) = [Req("text") EXCEPT !.constraints = words]
      BY DEF MinWords
    <3>. HIDE DEF words
    <3>. QED
      BY <3>1, <3>2 DEF Req, Requirement
  <2>. QED
    BY <2>1, <2>2
<1>2. \A links \in SUBSET Nat :
        /\ Manual(links) \in Criterion /\ Manual(links).links = links /\ Manual(links).check = "manual"
        /\ Present(links) \in Criterion /\ Present(links).links = links /\ Present(links).check = "evidence_present"
  BY DEF Manual, Present, Criterion, NoText
<1>3. DOMAIN Template = {"physical_action", "identity_verification", "subjective_judgment", "account_access",
                         "legal_signature", "offline_data_collection", "human_interaction", "agent_capable"}
  BY DEF Template
<1> DEFINE Good(spec) == /\ spec \in ContractSpec /\ SpecAccepted(spec)
                         /\ Len(spec.reqs) <= 2 /\ Len(spec.criteria) <= 3
<1>4. ASSUME NEW r \in Requirement, NEW c \in {Manual({1}), Present({1})}, NEW d \in {Manual({1}), Present({1})}
      PROVE  Good(FromTemplate(<<r>>, <<c>>)) /\ Good(FromTemplate(<<r>>, <<c, d>>))
  <2>1. <<r>> \in Seq(Requirement) /\ <<r>> # <<>> /\ Len(<<r>>) = 1 /\ DOMAIN <<r>> = {1}
    OBVIOUS
  <2>2. \A x \in {c, d} : x \in Criterion /\ x.links \subseteq {1} /\ x.check \in {"manual", "evidence_present"}
    BY <1>2
  <2>3. <<c>> \in Seq(Criterion) /\ Len(<<c>>) = 1 /\ \A i \in 1..Len(<<c>>) : <<c>>[i] \in {c, d}
    BY <2>2
  <2>4. <<c, d>> \in Seq(Criterion) /\ Len(<<c, d>>) = 2 /\ \A i \in 1..Len(<<c, d>>) : <<c, d>>[i] \in {c, d}
    BY <2>2
  <2> DEFINE rs == <<r>>
             one == <<c>>
             two == <<c, d>>
  <2>5. /\ rs \in Seq(Requirement) /\ rs # <<>> /\ Len(rs) = 1 /\ DOMAIN rs = {1}
        /\ one \in Seq(Criterion) /\ Len(one) = 1 /\ \A i \in 1..Len(one) : one[i] \in {c, d}
        /\ two \in Seq(Criterion) /\ Len(two) = 2 /\ \A i \in 1..Len(two) : two[i] \in {c, d}
    BY <2>1, <2>3, <2>4
  <2>. HIDE DEF rs, one, two
  <2>6. Good(FromTemplate(rs, one))
    BY <2>2, <2>5, FromTemplateFacts
  <2>7. Good(FromTemplate(rs, two))
    <3>1. /\ FromTemplate(rs, two) \in ContractSpec /\ SpecAccepted(FromTemplate(rs, two))
          /\ FromTemplate(rs, two).reqs = rs
          /\ Len(FromTemplate(rs, two).criteria) = 1 + Len(two)
      BY <2>2, <2>5, FromTemplateFacts
    <3>2. Len(rs) <= 2 /\ Len(two) = 2
      BY <2>5
    <3> DEFINE t == FromTemplate(rs, two)
    <3>3. t \in ContractSpec /\ SpecAccepted(t) /\ t.reqs = rs /\ Len(t.criteria) = 1 + Len(two)
      BY <3>1
    <3>. HIDE DEF t
    <3>4. Good(t)
      BY <3>2, <3>3
    <3>. QED
      BY <3>4 DEF t
  <2>. QED
    BY <2>6, <2>7 DEF rs, one, two
<1>5. ASSUME NEW r \in Requirement, NEW q \in Requirement,
             NEW c \in {Manual({1}), Manual({1, 2})}, NEW d \in {Manual({2}), Present({1})}
      PROVE  Good(FromTemplate(<<r, q>>, <<c, d>>))
  <2>1. <<r, q>> \in Seq(Requirement) /\ <<r, q>> # <<>> /\ Len(<<r, q>>) = 2 /\ DOMAIN <<r, q>> = {1, 2}
    OBVIOUS
  <2>2. \A x \in {c, d} : x \in Criterion /\ x.links \subseteq {1, 2} /\ x.check \in {"manual", "evidence_present"}
    BY <1>2
  <2>3. <<c, d>> \in Seq(Criterion) /\ Len(<<c, d>>) = 2 /\ \A i \in 1..Len(<<c, d>>) : <<c, d>>[i] \in {c, d}
    BY <2>2
  <2> DEFINE rs == <<r, q>>
             two == <<c, d>>
  <2>4. /\ rs \in Seq(Requirement) /\ rs # <<>> /\ Len(rs) = 2 /\ DOMAIN rs = {1, 2}
        /\ two \in Seq(Criterion) /\ Len(two) = 2 /\ \A i \in 1..Len(two) : two[i] \in {c, d}
    BY <2>1, <2>3
  <2>. HIDE DEF rs, two
  <2>5. Good(FromTemplate(rs, two))
    <3>1. /\ FromTemplate(rs, two) \in ContractSpec /\ SpecAccepted(FromTemplate(rs, two))
          /\ FromTemplate(rs, two).reqs = rs
          /\ Len(FromTemplate(rs, two).criteria) = 1 + Len(two)
      BY <2>2, <2>4, FromTemplateFacts
    <3>2. Len(rs) <= 2 /\ Len(two) = 2
      BY <2>4
    <3> DEFINE t == FromTemplate(rs, two)
    <3>3. t \in ContractSpec /\ SpecAccepted(t) /\ t.reqs = rs /\ Len(t.criteria) = 1 + Len(two)
      BY <3>1
    <3>. HIDE DEF t
    <3>4. Good(t)
      BY <3>2, <3>3
    <3>. QED
      BY <3>4 DEF t
  <2>. QED
    BY <2>5 DEF rs, two
<1>. HIDE DEF Good
<1>6. /\ Good(Template["physical_action"]) /\ Good(Template["identity_verification"])
      /\ Good(Template["subjective_judgment"]) /\ Good(Template["legal_signature"])
      /\ Good(Template["human_interaction"]) /\ Good(Template["agent_capable"])
  BY <1>1, <1>4 DEF Template
<1>7. Good(Template["account_access"]) /\ Good(Template["offline_data_collection"])
  BY <1>1, <1>5 DEF Template
<1>. QED
  BY <1>3, <1>6, <1>7 DEF Good

(***************************************************************************)
(* The inductive invariant.                                                *)
(***************************************************************************)

\* What a worker may hand in.
Submitted == [refs : Seq(Refs), text : Texts, created : Undated..MaxSubmissions]

\* What is asked was accepted, and of nothing yet nobody hands in anything.
ContractTyped ==
  \/ contract = NoContract
  \/ /\ contract \in [status : {"ready", "draft"}, reqs : Seq(Requirement), criteria : Seq(Criterion)]
     /\ SpecAccepted(contract)

\* A request has no more signals than the bounds say; and each review is that of
\* the submission as it is now, against the contract as it is now.
RankingInv ==
  /\ signals \in [Rules -> 0..MaxHuman + MaxAgent]
  /\ Sum(signals, Rules \ ForAgent) \in 0..MaxHuman
  /\ \A r \in ForAgent : signals[r] <= MaxAgent
  /\ ContractTyped
  /\ submissions \in Seq(Submitted)
  /\ Len(submissions) <= MaxSubmissions
  /\ \A n \in DOMAIN submissions : Len(submissions[n].refs) <= MaxRefs
  /\ submissions # <<>> => contract.status = "ready"
  /\ reviews = [n \in DOMAIN submissions |-> ReviewOf(contract, submissions[n])]

\* The invariant holds at first.
LEMMA RankingInvInit == Init => RankingInv
<1>. SUFFICES ASSUME Init
              PROVE  RankingInv
  OBVIOUS
<1>1. MaxHuman \in Nat /\ MaxAgent \in Nat /\ MaxSubmissions \in Nat /\ MaxRefs \in Nat
  BY IntakeAssumption, RankingAssumption
<1>2. signals \in [Rules -> 0..MaxHuman + MaxAgent] /\ \A r \in Rules : signals[r] = 0
  BY <1>1 DEF Init, IntakeInit, NoSignals
<1>3. Sum(signals, Rules \ ForAgent) = 0
  <2>1. IsFiniteSet(Rules \ ForAgent)
    BY RulesFinite, FS_Subset
  <2>2. \A t \in Rules \ ForAgent : signals[t] = 0
    BY <1>2
  <2>. QED
    BY <2>1, <2>2, SumOfZeros
<1>4. submissions = <<>> /\ reviews = <<>> /\ contract = NoContract
  BY DEF Init, IntakeInit
<1>7. \A r \in ForAgent : signals[r] <= MaxAgent
  BY <1>1, <1>2 DEF ForAgent, Of
<1>5. reviews = [n \in DOMAIN submissions |-> ReviewOf(contract, submissions[n])]
  BY <1>4
<1>6. submissions \in Seq(Submitted) /\ Len(submissions) = 0 /\ DOMAIN submissions = {}
  BY <1>4
<1>. QED
  BY <1>1, <1>2, <1>3, <1>4, <1>5, <1>6, <1>7 DEF RankingInv, ContractTyped

\* A phrase more in the request does not break it.
LEMMA MentionKeeps ==
  ASSUME RankingInv, NEW r \in Rules, Mention(r), UNCHANGED <<submissions, reviews>>
  PROVE  RankingInv'
<1> DEFINE H == Rules \ ForAgent
<1>1. MaxHuman \in Nat /\ MaxAgent \in Nat
  BY IntakeAssumption
<1>2. signals \in [Rules -> 0..MaxHuman + MaxAgent] /\ Sum(signals, H) \in 0..MaxHuman
  BY DEF RankingInv
<1>3. signals' = [signals EXCEPT ![r] = signals[r] + 1] /\ contract' = contract
  BY DEF Mention
<1>4. IsFiniteSet(H) /\ \A t \in H : signals[t] \in Nat
  BY <1>1, <1>2, RulesFinite, FS_Subset
<1>5. CASE r \in ForAgent
  <2>1. signals[r] < MaxAgent
    BY <1>5 DEF Mention
  <2>2. signals' \in [Rules -> 0..MaxHuman + MaxAgent]
    BY <1>1, <1>2, <1>3, <2>1
  <2>3. \A t \in H : signals'[t] = signals[t]
    BY <1>2, <1>3, <1>5
  <2>4. \A t \in ForAgent : signals'[t] <= MaxAgent
    <3>1. \A t \in ForAgent : signals[t] <= MaxAgent
      BY DEF RankingInv
    <3>2. \A t \in ForAgent : signals'[t] = IF t = r THEN signals[r] + 1 ELSE signals[t]
      BY <1>2, <1>3 DEF ForAgent, Of
    <3>. QED
      BY <1>1, <1>2, <2>1, <3>1, <3>2
  <2>. HIDE DEF H
  <2>5. Sum(signals', H) = Sum(signals, H)
    BY <1>4, <2>3, SumSame
  <2>. QED
    BY <1>2, <1>3, <2>2, <2>4, <2>5 DEF RankingInv, ContractTyped, H
<1>6. CASE r \notin ForAgent
  <2>1. Sum(signals, H) < MaxHuman
    BY <1>6 DEF Mention, Sum
  <2>2. r \in H /\ signals'[r] = signals[r] + 1 /\ \A t \in H : t # r => signals'[t] = signals[t]
    BY <1>2, <1>3, <1>6
  <2>. HIDE DEF H
  <2>3. Sum(signals', H) = Sum(signals, H) + 1
    BY <1>4, <2>2, SumOfOneMore
  <2>4. signals[r] <= Sum(signals, H)
    BY <1>4, <2>2, SumCovers
  <2>5. signals' \in [Rules -> 0..MaxHuman + MaxAgent]
    BY <1>1, <1>2, <1>3, <2>1, <2>4
  <2>6. Sum(signals', H) \in 0..MaxHuman
    BY <1>1, <1>2, <2>1, <2>3
  <2>7. \A t \in ForAgent : signals'[t] <= MaxAgent
    <3>1. \A t \in ForAgent : signals'[t] = signals[t]
      BY <1>2, <1>3, <1>6 DEF ForAgent, Of
    <3>. QED
      BY <3>1 DEF RankingInv
  <2>. QED
    BY <1>3, <2>5, <2>6, <2>7 DEF RankingInv, ContractTyped, H
<1>. QED
  BY <1>5, <1>6

\* A contract that is created asks what was accepted: a spec, or the template of the category.
LEMMA CreateKeeps ==
  ASSUME RankingInv, NEW force \in BOOLEAN, NEW spec \in Specs \cup {NoSpec}, Create(force, spec),
         UNCHANGED <<submissions, reviews>>
  PROVE  RankingInv'
<1> DEFINE asked == IF spec = NoSpec THEN Template[Category(signals)] ELSE spec
           status == IF HumanRequired(signals) THEN "ready" ELSE "draft"
<1>1. /\ contract = NoContract
      /\ contract' = [status |-> status, reqs |-> asked.reqs, criteria |-> asked.criteria]
      /\ signals' = NoSignals
      /\ spec = NoSpec \/ SpecAccepted(spec)
  BY DEF Create
<1>2. submissions = <<>> /\ reviews = <<>>
  <2>1. submissions = <<>>
    BY <1>1 DEF RankingInv, NoContract
  <2>. QED
    BY <2>1 DEF RankingInv
<1>3. asked \in ContractSpec /\ SpecAccepted(asked)
  <2>1. CASE spec = NoSpec
    <3>1. signals \in [Rules -> Nat]
      BY IntakeAssumption DEF RankingInv
    <3>2. Category(signals) \in DOMAIN Template
      BY <3>1, CategoryFacts
    <3>. QED
      BY <2>1, <3>2, TemplateFacts
  <2>2. CASE spec # NoSpec
    BY <1>1, <2>2, SpecsAssumption
  <2>. QED
    BY <2>1, <2>2
<1>. HIDE DEF asked
<1>4. ContractTyped'
  <2>1. asked.reqs \in Seq(Requirement) /\ asked.criteria \in Seq(Criterion)
    BY <1>3 DEF ContractSpec
  <2>2. contract' \in [status : {"ready", "draft"}, reqs : Seq(Requirement), criteria : Seq(Criterion)]
    BY <1>1, <2>1
  <2>3. SpecAccepted(contract')
    BY <1>1, <1>3 DEF SpecAccepted
  <2>. QED
    BY <2>2, <2>3 DEF ContractTyped
<1>5. /\ signals' \in [Rules -> 0..MaxHuman + MaxAgent]
      /\ Sum(signals', Rules \ ForAgent) \in 0..MaxHuman
      /\ \A r \in ForAgent : signals'[r] <= MaxAgent
  <2>1. MaxHuman \in Nat /\ MaxAgent \in Nat
    BY IntakeAssumption
  <2>2. \A r \in Rules : signals'[r] = 0
    BY <1>1 DEF NoSignals
  <2>3. signals' \in [Rules -> 0..MaxHuman + MaxAgent]
    BY <1>1, <2>1 DEF NoSignals
  <2>4. IsFiniteSet(Rules \ ForAgent) /\ \A r \in Rules \ ForAgent : signals'[r] = 0
    BY <2>2, RulesFinite, FS_Subset
  <2>5. Sum(signals', Rules \ ForAgent) = 0
    BY <2>4, SumOfZeros
  <2>6. \A r \in ForAgent : signals'[r] <= MaxAgent
    BY <2>1, <2>2 DEF ForAgent, Of
  <2>. QED
    BY <2>1, <2>3, <2>5, <2>6
<1>6. submissions' = <<>> /\ reviews' = <<>>
  BY <1>2
<1>7. reviews' = [n \in DOMAIN submissions' |-> ReviewOf(contract', submissions'[n])]
  BY <1>6
<1>8. submissions' \in Seq(Submitted) /\ Len(submissions') = 0 /\ DOMAIN submissions' = {}
  BY <1>6
<1>. QED
  BY <1>4, <1>5, <1>6, <1>7, <1>8, RankingAssumption DEF RankingInv

\* One submission more does not break it.
LEMMA HandInKeeps ==
  ASSUME RankingInv, HandIn
  PROVE  RankingInv'
<1>1. PICK text \in Texts, created \in Undated..MaxSubmissions :
        List(Append(submissions, [refs |-> <<>>, text |-> text, created |-> created]))
  BY DEF HandIn
<1> DEFINE new == [refs |-> <<>>, text |-> text, created |-> created]
           L == Len(submissions)
<1>2. /\ submissions' = Append(submissions, new)
      /\ reviews' = [n \in DOMAIN submissions' |-> ReviewOf(contract, submissions'[n])]
      /\ signals' = signals /\ contract' = contract
      /\ contract.status = "ready" /\ L < MaxSubmissions
  BY <1>1 DEF List, HandIn, intake
<1>3. /\ submissions \in Seq(Submitted)
      /\ \A n \in DOMAIN submissions : Len(submissions[n].refs) <= MaxRefs
      /\ L \in Nat /\ DOMAIN submissions = 1..L
  BY LenProperties DEF RankingInv
<1>4. new \in Submitted /\ Len(new.refs) = 0
  <2>1. <<>> \in Seq(Refs)
    OBVIOUS
  <2>. QED
    BY <2>1 DEF Submitted
<1>. HIDE DEF new
<1>5. /\ submissions' \in Seq(Submitted) /\ Len(submissions') = L + 1
      /\ \A n \in 1..L : submissions'[n] = submissions[n]
      /\ submissions'[L+1] = new
  BY <1>2, <1>3, <1>4, AppendProperties
<1>6. DOMAIN submissions' = 1..L+1
  BY <1>5, LenProperties
<1>. HIDE DEF L
<1>7. \A n \in 1..L+1 : n \in 1..L \/ n = L + 1
  BY <1>3
<1>8. \A n \in DOMAIN submissions' : Len(submissions'[n].refs) <= MaxRefs
  BY <1>3, <1>4, <1>5, <1>6, <1>7, RankingAssumption
<1>10. L + 1 <= MaxSubmissions
  BY <1>2, <1>3, RankingAssumption
<1>11. reviews' = [n \in DOMAIN submissions' |-> ReviewOf(contract', submissions'[n])]
  BY <1>2
<1>. QED
  BY <1>2, <1>5, <1>8, <1>10, <1>11 DEF RankingInv, ContractTyped

\* One reference more in the last submission does not break it.
LEMMA AttachKeeps ==
  ASSUME RankingInv, NEW ref \in Refs, Attach(ref)
  PROVE  RankingInv'
<1> DEFINE L == Len(submissions)
           old == submissions[L]
           new == [old EXCEPT !.refs = Append(@, ref)]
<1>1. /\ L > 0 /\ Len(old.refs) < MaxRefs
      /\ submissions' = [submissions EXCEPT ![L].refs = Append(@, ref)]
      /\ reviews' = [n \in DOMAIN submissions' |-> ReviewOf(contract, submissions'[n])]
      /\ signals' = signals /\ contract' = contract
  BY DEF Attach, List, intake
<1>2. /\ submissions \in Seq(Submitted)
      /\ \A n \in DOMAIN submissions : Len(submissions[n].refs) <= MaxRefs
      /\ L \in Nat /\ DOMAIN submissions = 1..L
  BY LenProperties DEF RankingInv
<1>3. L \in 1..L /\ old \in Submitted
  <2>1. L \in 1..L
    BY <1>1, <1>2
  <2>. QED
    BY <1>2, <2>1, ElementOfSeq
<1>4. old.refs \in Seq(Refs)
  BY <1>3 DEF Submitted
<1>5. /\ Append(old.refs, ref) \in Seq(Refs)
      /\ Len(Append(old.refs, ref)) = Len(old.refs) + 1
      /\ Len(old.refs) \in Nat
  BY <1>4, AppendProperties, LenProperties
<1>6. new \in Submitted /\ new.refs = Append(old.refs, ref)
  BY <1>3, <1>5 DEF Submitted
<1>7. submissions' = [submissions EXCEPT ![L] = new]
  BY <1>1, <1>2, <1>3
<1>. HIDE DEF new
<1>8. /\ submissions' \in Seq(Submitted) /\ Len(submissions') = L /\ DOMAIN submissions' = 1..L
      /\ \A n \in 1..L : submissions'[n] = IF n = L THEN new ELSE submissions[n]
  BY <1>2, <1>3, <1>6, <1>7, ExceptSeq
<1>. HIDE DEF L, old
<1>9. \A n \in DOMAIN submissions' : Len(submissions'[n].refs) <= MaxRefs
  <2>1. Len(new.refs) <= MaxRefs
    <3>1. MaxRefs \in Nat
      BY RankingAssumption
    <3> DEFINE l == Len(old.refs)
    <3>2. Len(new.refs) = l + 1 /\ l \in Nat /\ l < MaxRefs
      BY <1>1, <1>5, <1>6
    <3>. HIDE DEF l
    <3>. QED
      BY <3>1, <3>2
  <2>. QED
    BY <1>2, <1>8, <2>1
<1>11. contract.status = "ready"
  <2>1. submissions # <<>>
    BY <1>2, <1>3 DEF L
  <2>. QED
    BY <2>1 DEF RankingInv
<1>12. reviews' = [n \in DOMAIN submissions' |-> ReviewOf(contract', submissions'[n])]
  BY <1>1
<1>. QED
  BY <1>1, <1>8, <1>9, <1>11, <1>12 DEF RankingInv, ContractTyped, L

\* The invariant always holds: what is asked was accepted, and every review is that of the
\* submission as it is now (Service.review_all).
THEOREM RankingInvariance == Spec => []RankingInv
<1>1. ASSUME RankingInv, [Next]_vars
      PROVE  RankingInv'
  <2>1. ASSUME NEW r \in Rules, Mention(r), UNCHANGED <<submissions, reviews>>
        PROVE  RankingInv'
    BY <1>1, <2>1, MentionKeeps
  <2>2. ASSUME NEW force \in BOOLEAN, NEW spec \in Specs \cup {NoSpec}, Create(force, spec),
               UNCHANGED <<submissions, reviews>>
        PROVE  RankingInv'
    BY <1>1, <2>2, CreateKeeps
  <2>3. CASE HandIn
    BY <1>1, <2>3, HandInKeeps
  <2>4. ASSUME NEW ref \in Refs, Attach(ref)
        PROVE  RankingInv'
    BY <1>1, <2>4, AttachKeeps
  <2>5. CASE UNCHANGED vars
    BY <1>1, <2>5 DEF vars, RankingInv, ContractTyped
  <2>. QED
    BY <1>1, <2>1, <2>2, <2>3, <2>4, <2>5 DEF Next, IntakeNext
<1>. QED
  BY <1>1, RankingInvInit, PTL DEF Spec

(***************************************************************************)
(* What holds of every review.                                             *)
(***************************************************************************)

\* Every review there is, is one of what was handed in.
LEMMA ReviewsFacts ==
  RankingInv =>
    /\ DOMAIN submissions = 1..Len(submissions) /\ Len(submissions) \in Nat
    /\ DOMAIN reviews = DOMAIN submissions
    /\ Typed(contract)
    /\ \A n \in 1..Len(submissions) :
         /\ submissions[n] \in Submitted
         /\ reviews[n] = ReviewOf(contract, submissions[n])
         /\ WellReviewed(contract, submissions[n], reviews[n])
<1>. SUFFICES ASSUME RankingInv
              PROVE  /\ DOMAIN submissions = 1..Len(submissions) /\ Len(submissions) \in Nat
                     /\ DOMAIN reviews = DOMAIN submissions
                     /\ Typed(contract)
                     /\ \A n \in 1..Len(submissions) :
                          /\ submissions[n] \in Submitted
                          /\ reviews[n] = ReviewOf(contract, submissions[n])
                          /\ WellReviewed(contract, submissions[n], reviews[n])
  OBVIOUS
<1>1. submissions \in Seq(Submitted)
  BY DEF RankingInv
<1>2. DOMAIN submissions = 1..Len(submissions) /\ Len(submissions) \in Nat
  BY <1>1, LenProperties
<1>3. Typed(contract)
  BY DEF RankingInv, ContractTyped, Typed, NoContract, ContractSpec
<1>4. reviews = [n \in DOMAIN submissions |-> ReviewOf(contract, submissions[n])]
  BY DEF RankingInv
<1>5. ASSUME NEW n \in 1..Len(submissions)
      PROVE  /\ submissions[n] \in Submitted
             /\ reviews[n] = ReviewOf(contract, submissions[n])
             /\ WellReviewed(contract, submissions[n], reviews[n])
  <2>1. submissions[n] \in Submitted
    BY <1>1, ElementOfSeq
  <2>2. submissions[n].refs \in Seq(Refs)
    BY <2>1 DEF Submitted
  <2>3. reviews[n] = ReviewOf(contract, submissions[n])
    BY <1>2, <1>4
  <2>4. WellReviewed(contract, submissions[n], ReviewOf(contract, submissions[n]))
    BY <1>3, <2>2, ReviewFacts
  <2>. QED
    BY <2>1, <2>3, <2>4
<1>. QED
  BY <1>2, <1>3, <1>4, <1>5

\* Type correctness: every request, contract, submission and review is one there can be, and no
\* component of a score has more points than it offers.
THEOREM RankingTypeCorrect == Spec => []TypeOK
<1>1. ASSUME RankingInv
      PROVE  TypeOK
  <2>1. ASSUME NEW n \in DOMAIN submissions
        PROVE  /\ reviews[n] \in SubmissionReview(contract, MaxRefs)
               /\ \A part \in DOMAIN reviews[n].max : reviews[n].points[part] <= reviews[n].max[part]
    <3> DEFINE m == Len(submissions[n].refs)
    <3>1. WellReviewed(contract, submissions[n], reviews[n]) /\ submissions[n] \in Submitted
      BY <1>1, <2>1, ReviewsFacts
    <3>2. reviews[n] \in SubmissionReview(contract, m)
      BY <3>1 DEF WellReviewed
    <3>3. m \in Nat /\ m <= MaxRefs
      <4>1. submissions[n].refs \in Seq(Refs)
        BY <3>1 DEF Submitted
      <4>. QED
        BY <1>1, <4>1, LenProperties DEF RankingInv
    <3>4. SubmissionReview(contract, m) \subseteq SubmissionReview(contract, MaxRefs)
      <4> DEFINE A == [DOMAIN contract.reqs -> [outcome : EvidenceOutcome, item : 0..m]]
                 B == [DOMAIN contract.reqs -> [outcome : EvidenceOutcome, item : 0..MaxRefs]]
                 V == [DOMAIN contract.criteria -> CheckOutcome]
                 M == SUBSET MissingRequirement({0} \cup DOMAIN contract.reqs \cup DOMAIN contract.criteria)
                 F == SUBSET FlagCodes
      <4>1. SubmissionReview(contract, m) =
              [ evidence : A, verdicts : V, flags : F, points : ScoreComponents, max : ScoreComponents,
                score : 0..100, recommendation : Recommendations, missing : M, human : BOOLEAN ]
        BY DEF SubmissionReview
      <4>2. SubmissionReview(contract, MaxRefs) =
              [ evidence : B, verdicts : V, flags : F, points : ScoreComponents, max : ScoreComponents,
                score : 0..100, recommendation : Recommendations, missing : M, human : BOOLEAN ]
        BY DEF SubmissionReview
      <4>3. 0..m \subseteq 0..MaxRefs
        BY <3>3, RankingAssumption
      <4>4. A \subseteq B
        BY <4>3
      <4>. HIDE DEF A, B, V, M, F, m
      <4>. QED
        BY <4>1, <4>2, <4>4
    <3>5. \A part \in DOMAIN reviews[n].max : reviews[n].points[part] <= reviews[n].max[part]
      BY <3>1 DEF WellReviewed, Scored
    <3>. QED
      BY <3>2, <3>4, <3>5
  <2>2. DOMAIN reviews = DOMAIN submissions
    BY <1>1, ReviewsFacts
  <2>. QED
    BY <1>1, <2>1, <2>2 DEF RankingInv, TypeOK, ContractTyped, Submitted
<1>. QED
  BY <1>1, RankingInvariance, PTL

\* Every file answers at most one requirement, nothing is missing that a file left over would do
\* for, and no optional requirement takes a file from a required one: rules.py's evaluate_evidence.
THEOREM EvidenceMatches == Spec => []Matching
<1>1. ASSUME RankingInv
      PROVE  Matching
  <2>. SUFFICES ASSUME NEW n \in DOMAIN submissions
                PROVE  LET items == Items(submissions[n])
                           evidence == reviews[n].evidence
                           WouldDo(k, i) ==
                             Kind(items[k]) \in FullKinds(contract.reqs[i].kind) \cup UnverifiedKinds(contract.reqs[i].kind)
                           Missing(i) == evidence[i].outcome = "missing"
                           Uses(i, k) == evidence[i].item = k
                       IN /\ \A i, j \in DOMAIN evidence :
                               i # j /\ evidence[i].item # NoItem /\ evidence[j].item # NoItem =>
                                 items[evidence[i].item].file # items[evidence[j].item].file
                          /\ \A i \in DOMAIN evidence, k \in DOMAIN items :
                               Missing(i) /\ WouldDo(k, i) => \E j \in DOMAIN evidence : Uses(j, k)
                          /\ \A i, j \in DOMAIN evidence, k \in DOMAIN items :
                               contract.reqs[i].required /\ Missing(i) /\ WouldDo(k, i) /\ Uses(j, k) =>
                                 contract.reqs[j].required
    BY DEF Matching
  <2> DEFINE items == Items(submissions[n])
             evidence == reviews[n].evidence
             reqs == contract.reqs
  <2>1. WellMatched(evidence, reqs, items) /\ submissions[n].refs \in Seq(Refs) /\ reqs \in Seq(Requirement)
    BY <1>1, ReviewsFacts DEF WellReviewed, Submitted, Typed
  <2>2. /\ items \in Seq(Refs)
        /\ \A i, j \in 1..Len(items) : items[i].file = items[j].file => i = j
    BY <2>1, ItemsFacts
  <2>3. DOMAIN items = 1..Len(items) /\ Len(items) \in Nat /\ DOMAIN reqs = 1..Len(reqs) /\ Len(reqs) \in Nat
    BY <2>1, <2>2, LenProperties
  <2>. HIDE DEF items, evidence, reqs
  <2>4. /\ evidence \in [1..Len(reqs) -> EvidenceAnswer(Len(items))]
        /\ \A i, j \in 1..Len(reqs) : i # j /\ evidence[i].item # NoItem => evidence[i].item # evidence[j].item
        /\ \A i \in 1..Len(reqs), k \in 1..Len(items) :
             evidence[i].outcome = "missing" /\ Kind(items[k]) \in WillDo(reqs[i]) =>
               \E j \in 1..Len(reqs) : evidence[j].item = k /\ (reqs[i].required => reqs[j].required)
    BY <2>1 DEF WellMatched
  <2>5. DOMAIN evidence = 1..Len(reqs) /\ \A i \in DOMAIN evidence : evidence[i].item \in 0..Len(items)
    BY <2>4 DEF EvidenceAnswer
  <2>6. ASSUME NEW i \in DOMAIN evidence, NEW j \in DOMAIN evidence, i # j,
               evidence[i].item # NoItem, evidence[j].item # NoItem
        PROVE  items[evidence[i].item].file # items[evidence[j].item].file
    <3> DEFINE k == evidence[i].item
               l == evidence[j].item
    <3>1. k # l /\ k \in 1..Len(items) /\ l \in 1..Len(items)
      BY <2>3, <2>4, <2>5, <2>6 DEF NoItem
    <3>. QED
      BY <2>2, <3>1
  <2>7. \A i \in DOMAIN evidence, k \in DOMAIN items :
          evidence[i].outcome = "missing" /\ Kind(items[k]) \in WillDo(reqs[i]) =>
            \E j \in DOMAIN evidence : evidence[j].item = k
    BY <2>3, <2>4, <2>5
  <2>8. ASSUME NEW i \in DOMAIN evidence, NEW j \in DOMAIN evidence, NEW k \in DOMAIN items,
               reqs[i].required, evidence[i].outcome = "missing", Kind(items[k]) \in WillDo(reqs[i]),
               evidence[j].item = k
        PROVE  reqs[j].required
    <3>1. PICK l \in 1..Len(reqs) : evidence[l].item = k /\ reqs[l].required
      BY <2>3, <2>4, <2>5, <2>8
    <3>2. k # NoItem
      BY <2>3 DEF NoItem
    <3>3. l = j
      BY <2>4, <2>5, <2>8, <3>1, <3>2
    <3>. QED
      BY <3>1, <3>3
  <2>. QED
    BY <2>6, <2>7, <2>8 DEF WillDo, items, evidence, reqs
<1>. QED
  BY <1>1, RankingInvariance, PTL

\* A review depends on nothing but the references and the text.
LEMMA SameWorkSameReview ==
  ASSUME NEW asked, NEW s, NEW t, s.refs = t.refs, s.text = t.text
  PROVE  ReviewOf(asked, s) = ReviewOf(asked, t)
<1>1. Raw(s) = Raw(t)
  BY DEF Raw
<1>2. Items(s) = Items(t)
  BY <1>1 DEF Items
<1>3. HasDuplicates(s) = HasDuplicates(t) /\ HasUnsupported(s) = HasUnsupported(t)
  BY <1>1, <1>2 DEF HasDuplicates, HasUnsupported
<1>4. Evidence(asked, s) = Evidence(asked, t)
  BY <1>2 DEF Evidence
<1> DEFINE evidence == Evidence(asked, s)
           verdicts == Verdicts(asked, s, evidence)
<1>5. verdicts = Verdicts(asked, t, evidence)
  BY DEF Verdicts
<1>6. FailedDeliverables(asked, s, evidence) = FailedDeliverables(asked, t, evidence)
  BY <1>2 DEF FailedDeliverables
<1>. HIDE DEF evidence, verdicts
<1>7. Flags(asked, s, evidence) = Flags(asked, t, evidence)
  BY <1>2, <1>3 DEF Flags
<1>8. Points(asked, s, evidence, verdicts) = Points(asked, t, evidence, verdicts)
  BY <1>6 DEF Points
<1>. QED
  BY <1>4, <1>5, <1>6, <1>7, <1>8 DEF ReviewOf, evidence, verdicts

\* What is listed can be ranked.
LEMMA ListedFacts ==
  RankingInv => /\ Comparable(Listed, Len(submissions))
                /\ \A n \in 1..Len(submissions) :
                     /\ Listed[n].id = n
                     /\ Listed[n].created = submissions[n].created
                     /\ Listed[n].review = reviews[n]
<1>. SUFFICES ASSUME RankingInv
              PROVE  /\ Comparable(Listed, Len(submissions))
                     /\ \A n \in 1..Len(submissions) :
                          /\ Listed[n].id = n
                          /\ Listed[n].created = submissions[n].created
                          /\ Listed[n].review = reviews[n]
  OBVIOUS
<1> DEFINE L == Len(submissions)
<1>1. L \in Nat /\ DOMAIN submissions = 1..L
  BY ReviewsFacts
<1>2. /\ DOMAIN Listed = 1..L
      /\ \A n \in 1..L : /\ Listed[n].id = n
                        /\ Listed[n].created = submissions[n].created
                        /\ Listed[n].review = reviews[n]
  BY <1>1 DEF Listed
<1>3. ASSUME NEW n \in 1..L
      PROVE  submissions[n].created \in Nat /\ Key(reviews[n]) \in [1..4 -> Int]
  <2>1. submissions[n] \in Submitted /\ WellReviewed(contract, submissions[n], reviews[n])
    BY <1>3, ReviewsFacts
  <2>2. submissions[n].created \in 0..MaxSubmissions
    BY <2>1 DEF Submitted, Undated
  <2>3. reviews[n].score \in 0..100 /\ reviews[n].flags \in SUBSET FlagCodes /\ IsFiniteSet(reviews[n].missing)
    BY <2>1 DEF WellReviewed, SubmissionReview
  <2>4. reviews[n].score \in Int
    <3>1. \A x \in 0..100 : x \in Int
      OBVIOUS
    <3>. QED
      BY <2>3, <3>1, Zenon
  <2>5. Key(reviews[n]) \in [1..4 -> Int]
    BY <2>3, <2>4, KeyOfReview
  <2>. QED
    BY <2>2, <2>5, RankingAssumption
<1>. HIDE DEF L
<1>4. Comparable(Listed, L)
  <2>1. \A n \in 1..L : Listed[n].created \in Nat /\ Key(Listed[n].review) \in [1..4 -> Int]
    BY <1>2, <1>3
  <2>2. \A n, m \in 1..L : Listed[n].id = Listed[m].id => n = m
    BY <1>2
  <2>. QED
    BY <1>1, <1>2, <2>1, <2>2 DEF Comparable
<1>. QED
  BY <1>2, <1>4 DEF L

\* Whoever compare_submissions names beats every other in what can be verified, and never handed
\* in the same work as another.
THEOREM NamedStandsOut == Spec => []StrongestStandsOut
<1>1. ASSUME RankingInv
      PROVE  StrongestStandsOut
  <2>. SUFFICES ASSUME NEW n \in DOMAIN submissions, NEW m \in DOMAIN submissions, n # m,
                       n = Strongest(Listed)
                PROVE  /\ Before(Key(reviews[n]), Key(reviews[m]))
                       /\ <<submissions[n].refs, submissions[n].text>> # <<submissions[m].refs, submissions[m].text>>
    BY DEF StrongestStandsOut
  <2> DEFINE L == Len(submissions)
  <2>1. n \in 1..L /\ m \in 1..L
    BY <1>1, ReviewsFacts
  <2>2. /\ Comparable(Listed, L)
        /\ \A i \in 1..L : Listed[i].id = i /\ Listed[i].review = reviews[i]
    BY <1>1, ListedFacts
  <2>. HIDE DEF L
  <2>3. Before(Key(Listed[n].review), Key(Listed[m].review))
    <3>1. Listed[n].id # 0 /\ Listed[n].id = Strongest(Listed)
      BY <2>1, <2>2
    <3>. QED
      BY <2>1, <2>2, <3>1, ChosenStandsOut
  <2>4. Before(Key(reviews[n]), Key(reviews[m]))
    BY <2>1, <2>2, <2>3
  <2>5. ASSUME submissions[n].refs = submissions[m].refs, submissions[n].text = submissions[m].text
        PROVE  FALSE
    <3>1. ReviewOf(contract, submissions[n]) = ReviewOf(contract, submissions[m])
      BY <2>5, SameWorkSameReview
    <3>2. reviews[n] = reviews[m]
      BY <1>1, <2>1, <3>1, ReviewsFacts DEF L
    <3>3. Key(Listed[n].review) \in [1..4 -> Int]
      BY <2>1, <2>2 DEF Comparable
    <3>4. ~Before(Key(reviews[n]), Key(reviews[n]))
      <4> DEFINE k == 4
      <4>1. k \in Nat /\ Key(reviews[n]) \in [1..k -> Int]
        BY <2>1, <2>2, <3>3
      <4>. HIDE DEF k
      <4>. QED
        BY <4>1, BeforeOrders
    <3>. QED
      BY <2>4, <3>2, <3>4
  <2>. QED
    BY <2>4, <2>5
<1>. QED
  BY <1>1, RankingInvariance, PTL

\* Two that are listed next to each other and change places.
Swapped(listed, n) == [listed EXCEPT ![n] = listed[n+1], ![n+1] = listed[n]]

\* The swapped list has each of them at another's place.
LEMMA SwappedReorders ==
  ASSUME NEW listed, NEW L \in Nat, DOMAIN listed = 1..L, NEW n \in 1..L-1
  PROVE  LET pi == [i \in 1..L |-> IF i = n THEN n + 1 ELSE IF i = n + 1 THEN n ELSE i]
         IN Reorders(pi, listed, Swapped(listed, n), L)
<1> DEFINE other == Swapped(listed, n)
           pi == [i \in 1..L |-> IF i = n THEN n + 1 ELSE IF i = n + 1 THEN n ELSE i]
<1>1. n \in 1..L /\ n + 1 \in 1..L /\ n # n + 1
  OBVIOUS
<1>2. DOMAIN other = 1..L /\ \A i \in 1..L : other[i] = listed[pi[i]]
  BY <1>1 DEF Swapped
<1>3. /\ pi \in [1..L -> 1..L]
      /\ \A i, j \in 1..L : pi[i] = pi[j] => i = j
  BY <1>1
<1>4. \A i \in 1..L : pi[pi[i]] = i
  BY <1>1
<1>. HIDE DEF other, pi
<1>5. Reorders(pi, listed, other, L)
  BY <1>2, <1>3, <1>4 DEF Reorders
<1>. QED
  BY <1>5 DEF pi, other

\* If the two are not alike in all they are ranked by, that changes nothing.
LEMMA SwapOfDifferent ==
  ASSUME NEW listed, NEW L, Comparable(listed, L), NEW n \in 1..L-1,
         \/ Key(listed[n].review) # Key(listed[n+1].review)
         \/ listed[n].created # listed[n+1].created
  PROVE  LET other == Swapped(listed, n)
         IN /\ \A k \in 1..L : other[Ranked(other)[k]] = listed[Ranked(listed)[k]]
            /\ Strongest(other) = Strongest(listed)
<1> DEFINE other == Swapped(listed, n)
           pi == [i \in 1..L |-> IF i = n THEN n + 1 ELSE IF i = n + 1 THEN n ELSE i]
<1>1. L \in Nat /\ DOMAIN listed = 1..L /\ n \in 1..L /\ n + 1 \in 1..L /\ L # 0
  BY DEF Comparable
<1>2. Reorders(pi, listed, other, L)
  BY <1>1, SwappedReorders
<1>3. Comparable(other, L)
  BY <1>2, ReorderedIsComparable
<1>4. ASSUME NEW i \in 1..L, NEW j \in 1..L
      PROVE  Before(SortKey(other, i), SortKey(other, j)) <=>
             Before(SortKey(listed, pi[i]), SortKey(listed, pi[j]))
  <2> DEFINE p == pi[i]
             q == pi[j]
             a == listed[p].created
             b == listed[q].created
             f == Key(listed[p].review)
             g == Key(listed[q].review)
  <2>1. p \in 1..L /\ q \in 1..L
    BY <1>1
  <2>2. other[i] = listed[p] /\ other[j] = listed[q]
    BY <1>2 DEF Reorders
  <2>3. Before(SortKey(other, i), SortKey(other, j)) <=>
          Before(f, g) \/ (f = g /\ CreatedBefore(other, i, j))
    BY <1>3, <2>2, SortKeys
  <2>4. Before(SortKey(listed, p), SortKey(listed, q)) <=>
          Before(f, g) \/ (f = g /\ CreatedBefore(listed, p, q))
    BY <2>1, SortKeys
  <2>5. f = g /\ a = b => (i < j <=> p < q)
    <3>1. CASE (i = n /\ j = n + 1) \/ (i = n + 1 /\ j = n)
      BY <1>1, <3>1
    <3>2. CASE ~((i = n /\ j = n + 1) \/ (i = n + 1 /\ j = n))
      BY <1>1, <3>2
    <3>. QED
      BY <3>1, <3>2
  <2>6. f = g => (CreatedBefore(other, i, j) <=> CreatedBefore(listed, p, q))
    <3>1. CreatedBefore(other, i, j) <=> (a # Undated /\ (b = Undated \/ a < b)) \/ (a = b /\ i < j)
      BY <2>2 DEF CreatedBefore
    <3>2. CreatedBefore(listed, p, q) <=> (a # Undated /\ (b = Undated \/ a < b)) \/ (a = b /\ p < q)
      BY DEF CreatedBefore
    <3>3. f = g /\ a = b => (i < j <=> p < q)
      BY <2>5
    <3>. HIDE DEF a, b, f, g, p, q
    <3>. QED
      BY <3>1, <3>2, <3>3
  <2>. HIDE DEF f, g
  <2>. QED
    BY <2>3, <2>4, <2>6
<1>. HIDE DEF other, pi
<1>5. /\ \A k \in 1..L : other[Ranked(other)[k]] = listed[Ranked(listed)[k]]
      /\ L # 0 => Strongest(other) = Strongest(listed)
  BY <1>2, <1>4, SameOrderSameRanking
<1>. QED
  BY <1>1, <1>5 DEF other

\* If they are alike, the first listed comes first, and neither is named.
LEMMA SwapOfAlike ==
  ASSUME NEW listed, NEW L, Comparable(listed, L), NEW n \in 1..L-1,
         Key(listed[n].review) = Key(listed[n+1].review),
         listed[n].created = listed[n+1].created
  PROVE  LET other == Swapped(listed, n)
         IN Ranked(other) = Ranked(listed) /\ Strongest(other) = Strongest(listed)
<1> DEFINE other == Swapped(listed, n)
           best == Ranked(listed)[1]
           key == [i \in 1..L |-> Key(listed[i].review)]
           tied == {i \in 1..L : key[i] = key[best]}
<1>1. L \in Nat /\ DOMAIN listed = 1..L /\ n \in 1..L /\ n + 1 \in 1..L /\ n # n + 1 /\ 1 \in 1..L
  BY DEF Comparable
<1>2. /\ DOMAIN other = 1..L
      /\ \A i \in 1..L : i # n /\ i # n + 1 => other[i] = listed[i]
      /\ other[n] = listed[n+1] /\ other[n+1] = listed[n]
  BY <1>1 DEF Swapped
<1>. HIDE DEF other
<1>3. \A i \in 1..L : Key(other[i].review) = Key(listed[i].review) /\ other[i].created = listed[i].created
  BY <1>1, <1>2
<1>4. \A i, j \in 1..L : CreatedBefore(other, i, j) <=> CreatedBefore(listed, i, j)
  BY <1>3 DEF CreatedBefore
<1>5. \A i \in 1..L : CreatedOrder(other, i) = CreatedOrder(listed, i)
  <2>. SUFFICES ASSUME NEW i \in 1..L
                PROVE  CreatedOrder(other, i) = CreatedOrder(listed, i)
    OBVIOUS
  <2>1. {m \in DOMAIN other : CreatedBefore(other, m, i)} = {m \in DOMAIN listed : CreatedBefore(listed, m, i)}
    BY <1>1, <1>2, <1>4
  <2>. QED
    BY <2>1 DEF CreatedOrder
<1>6. Ranked(other) = Ranked(listed)
  <2> DEFINE keys(l) == [i \in DOMAIN l |-> Append(Key(l[i].review), CreatedOrder(l, i))]
             ranking(ks) == [rank \in 1..L |->
                               CHOOSE i \in 1..L :
                                 Cardinality({m \in 1..L : Before(ks[m], ks[i])}) = rank - 1]
  <2>1. keys(other) = keys(listed)
    BY <1>1, <1>2, <1>3, <1>5
  <2>2. Ranked(other) = ranking(keys(other)) /\ Ranked(listed) = ranking(keys(listed))
    BY <1>1, <1>2 DEF Ranked
  <2>. HIDE DEF keys, ranking
  <2>. QED
    BY <2>1, <2>2
<1>7. best \in 1..L
  BY <1>1, RankedFacts
<1>. HIDE DEF best
<1>8. {i \in DOMAIN listed : Key(listed[i].review) = Key(listed[best].review)} = tied
  BY <1>1, <1>7
<1>9. {i \in DOMAIN other : Key(other[i].review) = Key(other[best].review)} = tied
  BY <1>2, <1>3, <1>7
<1>10. listed # <<>> /\ other # <<>>
  BY <1>1, <1>2
<1>11. Cardinality(tied) = 1 => best # n /\ best # n + 1
  <2>. SUFFICES ASSUME Cardinality(tied) = 1, best = n \/ best = n + 1
                PROVE  FALSE
    OBVIOUS
  <2>1. n \in tied /\ n + 1 \in tied
    BY <1>1
  <2>2. IsFiniteSet(tied)
    <3>1. IsFiniteSet(1..L)
      BY <1>1, FS_Interval
    <3>. QED
      BY <3>1, FS_Subset
  <2>. HIDE DEF tied
  <2>. QED
    BY <1>1, <2>1, <2>2, FS_Singleton
<1>12. Strongest(other) = Strongest(listed)
  <2> DEFINE Named(top) == IF /\ top.review.recommendation \in {"strong", "acceptable"}
                              /\ top.review.score >= 70
                              /\ Cardinality(tied) = 1
                           THEN top.id ELSE 0
  <2>1. Strongest(listed) = Named(listed[best])
    BY <1>8, <1>10 DEF Strongest, best
  <2>2. Strongest(other) = Named(other[best])
    <3>1. Ranked(other)[1] = best
      BY <1>6 DEF best
    <3>. QED
      BY <1>9, <1>10, <3>1 DEF Strongest
  <2>3. CASE Cardinality(tied) = 1
    <3>1. other[best] = listed[best]
      BY <1>2, <1>7, <1>11, <2>3
    <3>. QED
      BY <2>1, <2>2, <3>1
  <2>4. CASE Cardinality(tied) # 1
    <3>. HIDE DEF tied
    <3>. QED
      BY <2>1, <2>2, <2>4
  <2>. QED
    BY <2>3, <2>4
<1>. QED
  BY <1>6, <1>12 DEF other

\* The order in which the backend lists the submissions settles who comes first of two that are
\* alike in all they are ranked by (compare.py: equal or missing times of creation), and nothing
\* else; and never who is named.
THEOREM ListingSettlesTies == Spec => []ListingOnlySettlesTies
<1>1. ASSUME RankingInv
      PROVE  ListingOnlySettlesTies
  <2>. SUFFICES ASSUME NEW n \in 1..Len(submissions)-1
                PROVE  LET swapped == [Listed EXCEPT ![n] = Listed[n+1], ![n+1] = Listed[n]]
                           Alike == Key(reviews[n]) = Key(reviews[n+1]) /\ submissions[n].created = submissions[n+1].created
                           Ids(listed) == LET ranked == Ranked(listed) IN [rank \in DOMAIN listed |-> listed[ranked[rank]].id]
                           ids == Ids(Listed)
                           Trade(id) == CASE id = n -> n+1 [] id = n+1 -> n [] OTHER -> id
                       IN /\ Ids(swapped) = IF Alike THEN [rank \in DOMAIN ids |-> Trade(ids[rank])] ELSE ids
                          /\ Strongest(swapped) = Strongest(Listed)
    BY DEF ListingOnlySettlesTies
  <2> DEFINE L == Len(submissions)
             swapped == Swapped(Listed, n)
             Alike == Key(reviews[n]) = Key(reviews[n+1]) /\ submissions[n].created = submissions[n+1].created
             r == Ranked(Listed)
             ids == [rank \in DOMAIN Listed |-> Listed[r[rank]].id]
             Trade(id) == CASE id = n -> n+1 [] id = n+1 -> n [] OTHER -> id
             traded == [rank \in DOMAIN ids |-> Trade(ids[rank])]
             ranked == [rank \in DOMAIN swapped |-> swapped[Ranked(swapped)[rank]].id]
  <2>1. /\ Comparable(Listed, L) /\ L \in Nat
        /\ \A i \in 1..L : /\ Listed[i].id = i
                          /\ Listed[i].created = submissions[i].created
                          /\ Listed[i].review = reviews[i]
    BY <1>1, ListedFacts, ReviewsFacts
  <2>2. n \in 1..L-1 /\ n \in 1..L /\ n + 1 \in 1..L /\ n # n + 1
    BY <2>1
  <2>. HIDE DEF L
  <2>3. DOMAIN Listed = 1..L /\ r \in [1..L -> 1..L]
    BY <2>1, RankedFacts DEF Comparable
  <2>4. /\ DOMAIN swapped = 1..L
        /\ \A i \in 1..L : swapped[i] = Listed[IF i = n THEN n + 1 ELSE IF i = n + 1 THEN n ELSE i]
    BY <2>2, <2>3 DEF Swapped
  <2>5. Alike <=> Key(Listed[n].review) = Key(Listed[n+1].review) /\ Listed[n].created = Listed[n+1].created
    BY <2>1, <2>2
  <2>. HIDE DEF swapped, r, Alike
  <2>6. CASE Alike
    <3>1. Ranked(swapped) = r /\ Strongest(swapped) = Strongest(Listed)
      BY <2>1, <2>2, <2>5, <2>6, SwapOfAlike DEF swapped, r
    <3>2. \A i \in 1..L : Listed[i].id = i /\ swapped[i].id = Trade(i)
      BY <2>1, <2>2, <2>4
    <3>. HIDE DEF Trade
    <3>3. \A rank \in 1..L : swapped[r[rank]].id = Trade(Listed[r[rank]].id)
      BY <2>3, <3>2
    <3>4. ranked = traded
      BY <2>3, <2>4, <3>1, <3>3
    <3>. QED
      BY <2>6, <3>1, <3>4 DEF swapped, r, Alike, Trade, Swapped
  <2>7. CASE ~Alike
    <3>1. /\ \A k \in 1..L : swapped[Ranked(swapped)[k]] = Listed[r[k]]
          /\ Strongest(swapped) = Strongest(Listed)
      BY <2>1, <2>2, <2>5, <2>7, SwapOfDifferent DEF swapped, r
    <3>2. ranked = ids
      BY <2>3, <2>4, <3>1
    <3>. QED
      BY <2>7, <3>1, <3>2 DEF swapped, r, Alike, Swapped
  <2>. QED
    BY <2>6, <2>7
<1>. QED
  BY <1>1, RankingInvariance, PTL

\* With fewer than fifty requirements, rounding half of one's credit up does not make up for it,
\* and with fewer than sixty factual criteria no failed one is lost.
Few50(asked) ==
  /\ Cardinality(RequiredReqs(asked)) < 50
  /\ Cardinality({i \in DOMAIN asked.criteria : Factual(asked.criteria[i])}) < 60

\* A review that scores 100 found all that was required, and everything that counts passed.
LEMMA FullScore ==
  ASSUME NEW asked, Typed(asked), Few50(asked), NEW submission, NEW review, WellReviewed(asked, submission, review)
  PROVE  LET offered == review.max
         IN /\ offered.evidence + offered.factual + offered.deliverables + offered.unverifiable = 100
            /\ review.score = 100 =>
                 /\ \A i \in RequiredReqs(asked) : review.evidence[i].outcome = "found"
                 /\ \A i \in Counted(asked, review.verdicts) : review.verdicts[i] = "pass"
                 /\ RequiredReqs(asked) # {} \/ Counted(asked, review.verdicts) # {}
<1> DEFINE R == RequiredReqs(asked)
           C == Counted(asked, review.verdicts)
           points == review.points
           max == review.max
           e == points.evidence
           f == points.factual
           d == points.deliverables
           u == points.unverifiable
           me == max.evidence
           mf == max.factual
           md == max.deliverables
           mu == max.unverifiable
<1>1. /\ Scored(asked, review.evidence, review.verdicts, points, max)
      /\ max = Maxima(R, C)
      /\ review.score = Total(points)
  BY DEF WellReviewed
<1>2. /\ me = IF R = {} THEN 0 ELSE IF C = {} THEN 80 ELSE 50
      /\ mf = IF C = {} THEN 0 ELSE IF R = {} THEN 80 ELSE 30
      /\ md = 20
      /\ mu = IF R = {} /\ C = {} THEN 80 ELSE 0
      /\ DOMAIN max = {"evidence", "factual", "deliverables", "unverifiable"}
  <2>. HIDE DEF R, C
  <2>. QED
    BY <1>1 DEF Maxima
<1>3. e \in 0..100 /\ f \in 0..100 /\ d \in 0..100 /\ u = 0
  <2>. HIDE DEF points, max
  <2>. QED
    BY <1>1 DEF Scored, ScoreComponents
<1>4. e <= me /\ f <= mf /\ d <= md
  <2>. HIDE DEF points, max
  <2>. QED
    BY <1>1, <1>2 DEF Scored
<1>5. Total(points) = IF e + f + d + u > 100 THEN 100 ELSE e + f + d + u
  BY DEF Total
<1>6. Cardinality(R) < 50
  BY DEF Few50
<1>7. Cardinality(C) < 60
  <2> DEFINE F == {i \in DOMAIN asked.criteria : Factual(asked.criteria[i])}
             K == 1..Len(asked.criteria)
  <2>1. DOMAIN asked.criteria = K /\ Len(asked.criteria) \in Nat
    BY LenProperties DEF Typed
  <2>2. IsFiniteSet(K)
    BY <2>1, FS_Interval
  <2>3. F \in SUBSET K
    BY <2>1
  <2>4. C \in SUBSET F
    <3>1. review.verdicts \in [DOMAIN asked.criteria -> CheckOutcome]
      BY DEF WellReviewed, SubmissionReview
    <3>. QED
      BY <3>1 DEF Counted
  <2>. HIDE DEF K, F, C
  <2>5. IsFiniteSet(F) /\ IsFiniteSet(C) /\ Cardinality(C) <= Cardinality(F)
    BY <2>2, <2>3, <2>4, FS_Subset
  <2>6. Cardinality(F) < 60 /\ Cardinality(F) \in Nat /\ Cardinality(C) \in Nat
    BY <2>5, FS_CardinalityType DEF Few50, F
  <2>. QED
    BY <2>5, <2>6
<1>8. /\ e = me /\ Cardinality(R) < 50 => \A i \in R : review.evidence[i].outcome = "found"
      /\ f = mf /\ Cardinality(C) < 60 => \A i \in C : review.verdicts[i] = "pass"
  BY <1>1 DEF Scored
<1>. HIDE DEF R, C, e, f, d, u, me, mf, md, mu, points
<1>9. me + mf + md + mu = 100
  BY <1>2
<1>10. ASSUME review.score = 100
       PROVE  e = me /\ f = mf /\ (R # {} \/ C # {})
  <2>1. e + f + d >= 100
    BY <1>1, <1>3, <1>5, <1>10
  <2>2. me + mf + md <= 100 /\ (R = {} /\ C = {} => me + mf + md = 20)
    BY <1>2
  <2>3. me \in Int /\ mf \in Int /\ md \in Int
    BY <1>2
  <2>. QED
    BY <1>3, <1>4, <2>1, <2>2, <2>3
<1>. QED
  BY <1>6, <1>7, <1>8, <1>9, <1>10 DEF R, C, me, mf, md, mu

\* A contract is short if the specs are.
LEMMA ShortContract ==
  ASSUME NEW asked, asked.reqs \in Seq(Requirement), asked.criteria \in Seq(Criterion),
         Len(asked.reqs) <= 2, Len(asked.criteria) <= 3
  PROVE  Few50(asked)
<1> DEFINE n == Len(asked.reqs)
           c == Len(asked.criteria)
           R == RequiredReqs(asked)
           F == {i \in DOMAIN asked.criteria : Factual(asked.criteria[i])}
<1>1. n \in Nat /\ n <= 2 /\ DOMAIN asked.reqs = 1..n /\ c \in Nat /\ c <= 3 /\ DOMAIN asked.criteria = 1..c
  BY LenProperties
<1>2. R \in SUBSET (1..n) /\ F \in SUBSET (1..c)
  BY <1>1 DEF RequiredReqs
<1>. HIDE DEF n, c, R, F
<1>3. \A k \in Nat : IsFiniteSet(1..k) /\ Cardinality(1..k) = k
  <2>. SUFFICES ASSUME NEW k \in Nat
                PROVE  IsFiniteSet(1..k) /\ Cardinality(1..k) = k
    OBVIOUS
  <2>1. k \in Int /\ 1 \in Int
    OBVIOUS
  <2>2. IsFiniteSet(1..k)
    BY <2>1, FS_Interval
  <2>3. Cardinality(1..k) = IF 1 > k THEN 0 ELSE k - 1 + 1
    BY <2>1, FS_Interval
  <2>. QED
    BY <2>2, <2>3
<1>4. IsFiniteSet(R) /\ Cardinality(R) <= n /\ IsFiniteSet(F) /\ Cardinality(F) <= c
  <2> DEFINE N == 1..n
             C == 1..c
  <2>1. IsFiniteSet(N) /\ Cardinality(N) = n /\ IsFiniteSet(C) /\ Cardinality(C) = c
    BY <1>1, <1>3
  <2>2. R \in SUBSET N /\ F \in SUBSET C
    BY <1>2
  <2>. HIDE DEF N, C
  <2>3. IsFiniteSet(R) /\ Cardinality(R) <= Cardinality(N)
    BY <2>1, <2>2, FS_Subset
  <2>4. IsFiniteSet(F) /\ Cardinality(F) <= Cardinality(C)
    BY <2>1, <2>2, FS_Subset
  <2>. QED
    BY <2>1, <2>3, <2>4
<1>5. Cardinality(R) \in Nat /\ Cardinality(F) \in Nat
  BY <1>4, FS_CardinalityType
<1>6. Cardinality(R) < 50 /\ Cardinality(F) < 60
  BY <1>1, <1>4, <1>5
<1>. QED
  BY <1>6 DEF Few50, R, F

\* The four components offer 100 points, and a submission that gets them all leaves nothing open.
\* A contract with fifty required pieces of evidence is another matter: half of one piece's credit
\* missing, its points round up to all.
THEOREM FullMarksAreEarned ==
  ASSUME \A spec \in Specs : Few50(spec)
  PROVE  Spec => []ScoreAddsUp
<1>1. Init => Few50(contract)
  <2>1. ASSUME Init
        PROVE  Few50(contract)
    <3>1. contract.reqs = <<>> /\ contract.criteria = <<>>
      BY <2>1 DEF Init, IntakeInit, NoContract
    <3>2. \A S : <<>> \in Seq(S)
      OBVIOUS
    <3>3. Len(<<>>) <= 2 /\ Len(<<>>) <= 3
      OBVIOUS
    <3>4. /\ contract.reqs \in Seq(Requirement) /\ contract.criteria \in Seq(Criterion)
          /\ Len(contract.reqs) <= 2 /\ Len(contract.criteria) <= 3
      BY <3>1, <3>2, <3>3
    <3>. QED
      BY <3>4, ShortContract
  <2>. QED
    BY <2>1
<1>2. ASSUME RankingInv, Few50(contract), [Next]_vars
      PROVE  Few50(contract)'
  <2>1. CASE contract' = contract
    BY <1>2, <2>1 DEF Few50, RequiredReqs, Factual
  <2>2. ASSUME NEW force \in BOOLEAN, NEW spec \in Specs \cup {NoSpec}, Create(force, spec)
        PROVE  Few50(contract)'
    <3> DEFINE asked == IF spec = NoSpec THEN Template[Category(signals)] ELSE spec
    <3>1. contract'.reqs = asked.reqs /\ contract'.criteria = asked.criteria
      BY <2>2 DEF Create
    <3>2. Few50(asked)
      <4>1. CASE spec = NoSpec
        <5>1. signals \in [Rules -> Nat]
          BY <1>2, IntakeAssumption DEF RankingInv
        <5>2. Category(signals) \in DOMAIN Template
          BY <5>1, CategoryFacts
        <5>3. asked \in ContractSpec /\ Len(asked.reqs) <= 2 /\ Len(asked.criteria) <= 3
          BY <4>1, <5>2, TemplateFacts
        <5>. HIDE DEF asked
        <5>4. asked.reqs \in Seq(Requirement) /\ asked.criteria \in Seq(Criterion)
          BY <5>3 DEF ContractSpec
        <5>. QED
          BY <5>3, <5>4, ShortContract
      <4>2. CASE spec # NoSpec
        BY <4>2
      <4>. QED
        BY <4>1, <4>2
    <3>. HIDE DEF asked
    <3>. QED
      BY <3>1, <3>2 DEF Few50, RequiredReqs, Factual
  <2>. QED
    BY <1>2, <2>1, <2>2 DEF Next, IntakeNext, Mention, HandIn, Attach, List, intake, vars
<1>3. ASSUME RankingInv, Few50(contract)
      PROVE  ScoreAddsUp
  <2>1. ASSUME NEW n \in DOMAIN submissions
        PROVE  Typed(contract) /\ WellReviewed(contract, submissions[n], reviews[n])
    BY <1>3, <2>1, ReviewsFacts
  <2>. QED
    BY <1>3, <2>1, FullScore DEF ScoreAddsUp
<1>. QED
  BY <1>1, <1>2, <1>3, RankingInvariance, PTL DEF Spec

\* less asks for the same but for some optional criteria that the submission does not meet.
AsksLess(asked, less, submission) ==
  LET evidence == Evidence(asked, submission)
      Unmet(c) == ~c.required /\ Judged(c, evidence, submission.text) \in {"fail", "blocked"}
  IN /\ less.reqs = asked.reqs
     /\ less.criteria = Those(asked.criteria, {c \in Range(asked.criteria) : ~Unmet(c)})

\* at are the criteria that are kept, and m says where.  They are judged as before, and of the
\* others none counts.
KeptAt(at, m, asked, less, verdicts, fewer) ==
  /\ at \in SUBSET (1..Len(asked.criteria))
  /\ m \in [DOMAIN fewer -> at]
  /\ IsFiniteSet(DOMAIN fewer)
  /\ \A j, k \in DOMAIN fewer : m[j] = m[k] => j = k
  /\ \A i \in at : \E k \in DOMAIN fewer : m[k] = i
  /\ \A k \in DOMAIN fewer : fewer[k] = verdicts[m[k]] /\ less.criteria[k] = asked.criteria[m[k]]
  /\ \A i \in 1..Len(asked.criteria) : i \notin at =>
       verdicts[i] = "not_applicable" /\ ~asked.criteria[i].required

\* The criteria of a contract that asks less are kept so.
LEMMA KeptCriteria ==
  ASSUME NEW asked, Typed(asked), NEW less, NEW s, AsksLess(asked, less, s)
  PROVE  \E at, m : KeptAt(at, m, asked, less, Verdicts(asked, s, Evidence(asked, s)),
                          Verdicts(less, s, Evidence(asked, s)))
<1> DEFINE evidence == Evidence(asked, s)
           verdicts == Verdicts(asked, s, evidence)
           fewer == Verdicts(less, s, evidence)
           text == s.text
           Unmet(c) == ~c.required /\ Judged(c, evidence, text) \in {"fail", "blocked"}
           crit == asked.criteria
           Kept == {c \in Range(crit) : ~Unmet(c)}
           those == Those(crit, Kept)
           at == {i \in 1..Len(crit) : crit[i] \in Kept}
<1>1. /\ crit \in Seq(Criterion) /\ Len(crit) \in Nat /\ DOMAIN crit = 1..Len(crit)
      /\ \A i \in 1..Len(crit) : crit[i].required \in BOOLEAN
  <2>1. crit \in Seq(Criterion) /\ Len(crit) \in Nat /\ DOMAIN crit = 1..Len(crit)
    BY LenProperties DEF Typed
  <2>2. \A i \in 1..Len(crit) : crit[i] \in Criterion
    BY <2>1, ElementOfSeq
  <2>3. \A c \in Criterion : c.required \in BOOLEAN
    BY DEF Criterion
  <2>. QED
    BY <2>1, <2>2, <2>3
<1>2. less.criteria = those
  BY DEF AsksLess
<1>3. \A i \in 1..Len(crit) : i \in at <=> ~Unmet(crit[i])
  <2>1. \A i \in 1..Len(crit) : crit[i] \in Range(crit)
    BY <1>1 DEF Range
  <2>. HIDE DEF Unmet, crit
  <2>. QED
    BY <2>1
<1>4. /\ verdicts = [i \in 1..Len(crit) |-> Verdict(crit[i], evidence, text)]
      /\ fewer = [i \in DOMAIN those |-> Verdict(those[i], evidence, text)]
  BY <1>1, <1>2 DEF Verdicts
<1>. HIDE DEF evidence, text, Kept, crit
<1>5. /\ those \in Seq(Criterion \cap Kept)
      /\ \E m : PicksOut(m, those, crit, at)
  BY <1>1, ThoseFacts
<1>6. Len(those) \in Nat /\ DOMAIN those = 1..Len(those) /\ IsFiniteSet(1..Len(those))
  <2>1. Len(those) \in Nat /\ DOMAIN those = 1..Len(those)
    BY <1>5, LenProperties
  <2>. QED
    BY <2>1, FS_Interval
<1>7. PICK m : PicksOut(m, those, crit, at)
  BY <1>5
<1>8. /\ m \in [1..Len(those) -> at]
      /\ \A k \in 1..Len(those) : those[k] = crit[m[k]]
      /\ \A j, k \in 1..Len(those) : m[j] = m[k] => j = k
      /\ \A i \in at : \E k \in 1..Len(those) : m[k] = i
  BY <1>7 DEF PicksOut
<1>9. at \in SUBSET (1..Len(crit))
  OBVIOUS
<1>10. \A i \in 1..Len(crit) : i \notin at => verdicts[i] = "not_applicable" /\ ~crit[i].required
  BY <1>3, <1>4 DEF Verdict
<1>. HIDE DEF at, those
<1>11. DOMAIN fewer = 1..Len(those) /\ \A k \in 1..Len(those) : fewer[k] = verdicts[m[k]]
  BY <1>4, <1>6, <1>8, <1>9
<1>12. \A k \in 1..Len(those) : less.criteria[k] = crit[m[k]]
  BY <1>2, <1>8
<1>. HIDE DEF fewer, verdicts
<1>13. KeptAt(at, m, asked, less, verdicts, fewer)
  BY <1>6, <1>8, <1>9, <1>10, <1>11, <1>12 DEF KeptAt, crit
<1>. QED
  BY <1>13 DEF evidence, verdicts, fewer

\* Asking less changes neither the score nor, if some evidence is required, the recommendation.
LEMMA UnmetCostNothing ==
  ASSUME NEW asked, Typed(asked), NEW less, NEW s, AsksLess(asked, less, s)
  PROVE  LET with == ReviewOf(asked, s)
             without == ReviewOf(less, s)
         IN /\ with.score = without.score
            /\ RequiredReqs(asked) # {} => with.recommendation = without.recommendation
<1> DEFINE evidence == Evidence(asked, s)
           verdicts == Verdicts(asked, s, evidence)
           fewer == Verdicts(less, s, evidence)
           C == Counted(asked, verdicts)
           D == Counted(less, fewer)
           P == {i \in C : verdicts[i] = "pass"}
           Q == {i \in D : fewer[i] = "pass"}
           c == 1..Len(asked.criteria)
<1>1. Evidence(less, s) = evidence /\ RequiredReqs(less) = RequiredReqs(asked) /\ less.reqs = asked.reqs
  BY DEF AsksLess, Evidence, RequiredReqs
<1>2. FailedDeliverables(less, s, evidence) = FailedDeliverables(asked, s, evidence)
  BY <1>1 DEF FailedDeliverables
<1>3. DOMAIN asked.criteria = c /\ DOMAIN verdicts = c
  BY LenProperties DEF Typed, Verdicts
<1>4. PICK at, m : KeptAt(at, m, asked, less, verdicts, fewer)
  BY KeptCriteria
<1>. HIDE DEF evidence, verdicts, fewer, c
<1>5. /\ \A k \in D : m[k] \in C
      /\ \A j, k \in D : m[j] = m[k] => j = k
      /\ \A i \in C : \E k \in D : m[k] = i
      /\ D \in SUBSET DOMAIN fewer
  <2>1. \A i : i \in C <=> i \in c /\ Factual(asked.criteria[i]) /\ verdicts[i] # "not_applicable"
    BY <1>3 DEF Counted
  <2>2. \A k : k \in D <=> k \in DOMAIN fewer /\ Factual(less.criteria[k]) /\ fewer[k] # "not_applicable"
    BY DEF Counted
  <2>. HIDE DEF C, D
  <2>3. \A k \in DOMAIN fewer : /\ m[k] \in at /\ m[k] \in c
                               /\ fewer[k] = verdicts[m[k]] /\ less.criteria[k] = asked.criteria[m[k]]
    BY <1>4 DEF KeptAt, c
  <2>4. \A k \in D : m[k] \in C
    BY <2>1, <2>2, <2>3
  <2>5. \A j, k \in D : m[j] = m[k] => j = k
    BY <1>4, <2>2 DEF KeptAt
  <2>6. ASSUME NEW i \in C
        PROVE  \E k \in D : m[k] = i
    <3>1. i \in at
      BY <1>4, <2>1 DEF KeptAt, c
    <3>2. PICK k \in DOMAIN fewer : m[k] = i
      BY <1>4, <3>1 DEF KeptAt
    <3>. QED
      BY <2>1, <2>2, <2>3, <3>2
  <2>. QED
    BY <2>2, <2>4, <2>5, <2>6
<1>6. /\ \A k \in Q : m[k] \in P
      /\ \A i \in P : \E k \in Q : m[k] = i
      /\ Q \in SUBSET D
  BY <1>4, <1>5 DEF KeptAt
<1>7. Cardinality(C) = Cardinality(D) /\ Cardinality(P) = Cardinality(Q) /\ (C = {} <=> D = {})
  <2>1. IsFiniteSet(D) /\ IsFiniteSet(Q)
    BY <1>4, <1>5, <1>6, FS_Subset DEF KeptAt
  <2>2. \A j, k \in Q : m[j] = m[k] => j = k
    BY <1>5, <1>6
  <2>. HIDE DEF C, D, P, Q
  <2>3. Cardinality(C) = Cardinality(D)
    BY <1>5, <2>1, SameSize
  <2>4. Cardinality(P) = Cardinality(Q)
    BY <1>6, <2>1, <2>2, SameSize
  <2>5. C = {} <=> D = {}
    BY <1>5
  <2>. QED
    BY <2>3, <2>4, <2>5
<1> DEFINE R == RequiredReqs(asked)
           points == Points(asked, s, evidence, verdicts)
<1>8. Maxima(R, D) = Maxima(R, C)
  <2>. HIDE DEF C, D, R
  <2>. QED
    BY <1>7 DEF Maxima
<1>9. Points(less, s, evidence, fewer) = points
  <2> DEFINE max == Maxima(R, C)
             credit == MapThenSumSet(LAMBDA i : HalfCredit(evidence[i].outcome), R)
             failed == FailedDeliverables(asked, s, evidence)
  <2>1. points = [ evidence |-> IF R = {} THEN 0 ELSE Rounded(credit * max.evidence, 2 * Cardinality(R)),
                   factual |-> IF C = {} THEN 0 ELSE Rounded(Cardinality(P) * max.factual, Cardinality(C)),
                   deliverables |-> 20 - 10 * Cardinality(failed \cap {"content_present", "content_substantive"}),
                   unverifiable |-> 0 ]
    BY DEF Points
  <2>2. Points(less, s, evidence, fewer) =
                 [ evidence |-> IF R = {} THEN 0 ELSE Rounded(credit * max.evidence, 2 * Cardinality(R)),
                   factual |-> IF D = {} THEN 0 ELSE Rounded(Cardinality(Q) * max.factual, Cardinality(D)),
                   deliverables |-> 20 - 10 * Cardinality(failed \cap {"content_present", "content_substantive"}),
                   unverifiable |-> 0 ]
    BY <1>1, <1>2, <1>8 DEF Points
  <2>. HIDE DEF max, credit, failed, C, D, P, Q, R, points
  <2>. QED
    BY <1>7, <2>1, <2>2
<1>. HIDE DEF points
<1> DEFINE flags == Flags(asked, s, evidence)
<1>10. ReviewOf(asked, s).score = Total(points) /\ ReviewOf(less, s).score = Total(points)
  BY <1>1, <1>9 DEF ReviewOf, evidence, verdicts, fewer, points
<1>11. ASSUME R # {}
       PROVE  ReviewOf(asked, s).recommendation = ReviewOf(less, s).recommendation
  <2>1. Flags(less, s, evidence) = flags
    BY <1>1, <1>11 DEF Flags
  <2>. HIDE DEF flags
  <2>2. (\E i \in DOMAIN verdicts : asked.criteria[i].required /\ verdicts[i] \in {"fail", "blocked"})
          <=> (\E i \in DOMAIN fewer : less.criteria[i].required /\ fewer[i] \in {"fail", "blocked"})
    BY <1>3, <1>4 DEF KeptAt, c
  <2>3. Recommendation(asked, Total(points), evidence, verdicts, flags)
          = Recommendation(less, Total(points), evidence, fewer, flags)
    BY <1>1, <2>2 DEF Recommendation
  <2>. QED
    BY <1>1, <1>9, <2>1, <2>3 DEF ReviewOf, evidence, verdicts, fewer, points, flags
<1>. QED
  BY <1>10, <1>11

\* An optional criterion that is not met costs nothing: the score is that of a contract without
\* it and, where some evidence is required, so is the recommendation.
THEOREM OptionalIsFree == Spec => []OptionalNeverCosts
<1>1. ASSUME RankingInv
      PROVE  OptionalNeverCosts
  <2>. SUFFICES ASSUME NEW n \in DOMAIN submissions
                PROVE  LET with == reviews[n]
                           without == ReviewOf(WithoutUnmet(submissions[n]), submissions[n])
                       IN /\ with.score = without.score
                          /\ RequiredReqs(contract) # {} => with.recommendation = without.recommendation
    BY DEF OptionalNeverCosts
  <2> DEFINE s == submissions[n]
             less == WithoutUnmet(s)
  <2>1. Typed(contract) /\ reviews[n] = ReviewOf(contract, s)
    BY <1>1, ReviewsFacts
  <2>2. contract \in [status : {"none", "ready", "draft"}, reqs : Seq(Requirement), criteria : Seq(Criterion)]
    <3>1. \A S : <<>> \in Seq(S)
      OBVIOUS
    <3>. QED
      BY <1>1, <3>1 DEF RankingInv, ContractTyped, NoContract
  <2>. HIDE DEF s
  <2>3. AsksLess(contract, less, s)
    BY <2>2 DEF AsksLess, WithoutUnmet
  <2>. HIDE DEF less
  <2>4. /\ ReviewOf(contract, s).score = ReviewOf(less, s).score
        /\ RequiredReqs(contract) # {} => ReviewOf(contract, s).recommendation = ReviewOf(less, s).recommendation
    BY <2>1, <2>3, UnmetCostNothing
  <2>. QED
    BY <2>1, <2>4 DEF less, s
<1>. QED
  BY <1>1, RankingInvariance, PTL

(***************************************************************************)
(* What holds of every request.                                            *)
(***************************************************************************)

\* A request has so many signals of each rule.
LEMMA SignalFacts == RankingInv => signals \in [Rules -> Nat]
BY IntakeAssumption DEF RankingInv

\* One more phrase that only a human can see to never makes a request one for an agent, however the
\* rules' scores are rounded and whichever category comes out on top, and one more verb that an agent
\* can follow never makes it one for a human: RuleBasedClassifier.classify as the request grows.
THEOREM PhrasesMoveOneWay == Spec => PhraseMovesOneWay
<1> DEFINE OneWay == \A r \in Rules : signals'[r] > signals[r] =>
                       IF r \in ForAgent THEN HumanRequired(signals') => HumanRequired(signals)
                       ELSE HumanRequired(signals) => HumanRequired(signals')
<1>1. ASSUME signals \in [Rules -> Nat], (signals \in [Rules -> Nat])', [Next]_vars
      PROVE  [OneWay]_intake
  <2>0. signals \in [Rules -> Nat] /\ signals' \in [Rules -> Nat]
    BY <1>1
  <2>1. ASSUME NEW r \in Rules, Mention(r)
        PROVE  OneWay
    <3>1. signals' = [signals EXCEPT ![r] = @ + 1]
      BY <2>1 DEF Mention
    <3>2. ASSUME NEW q \in Rules, signals'[q] > signals[q]
          PROVE  q = r
      <4>1. q # r => signals'[q] = signals[q]
        BY <2>0, <3>1
      <4>. QED
        BY <2>0, <3>2, <4>1
    <3>3. r \in ForAgent /\ HumanRequired(signals') => HumanRequired(signals)
      BY <1>1, <2>0, <3>1, VerbMoves
    <3>4. r \notin ForAgent /\ HumanRequired(signals) => HumanRequired(signals')
      BY <1>1, <2>0, <3>1, SignMoves
    <3>. QED
      BY <3>2, <3>3, <3>4
  <2>2. ASSUME NEW force \in BOOLEAN, NEW spec \in Specs \cup {NoSpec}, Create(force, spec)
        PROVE  OneWay
    <3>1. \A r \in Rules : signals'[r] = 0
      BY <2>2 DEF Create, NoSignals
    <3>. QED
      BY <2>0, <3>1
  <2>3. CASE UNCHANGED intake
    BY <2>3
  <2>4. CASE IntakeNext
    <3>. HIDE DEF OneWay
    <3>. QED
      BY <2>1, <2>2, <2>4 DEF IntakeNext
  <2>5. HandIn \/ (\E ref \in Refs : Attach(ref)) \/ UNCHANGED vars => UNCHANGED intake
    BY DEF HandIn, Attach, List, vars, intake
  <2>. HIDE DEF OneWay
  <2>. QED
    BY <1>1, <2>3, <2>4, <2>5 DEF Next
<1>. QED
  BY <1>1, RankingInvariance, SignalFacts, PTL DEF Spec, PhraseMovesOneWay

(***************************************************************************)
(* One file more in a submission.                                          *)
(***************************************************************************)

\* Where in seq the elements of S before place i are.
EarlierIn(seq, S, i) == {j \in 1..Len(seq) : seq[j] \in S /\ j < i}

\* Those picks them by how many come before.
ByRank(those, seq, S) ==
  LET at == {i \in 1..Len(seq) : seq[i] \in S}
  IN /\ DOMAIN those = 1..Cardinality(at)
     /\ \A k \in 1..Cardinality(at) :
          \E i \in at : Cardinality(EarlierIn(seq, S, i)) = k - 1 /\ those[k] = seq[i]
     /\ \A i, j \in at : Cardinality(EarlierIn(seq, S, i)) = Cardinality(EarlierIn(seq, S, j)) => i = j

\* The k-th of those has k-1 before it.
LEMMA ThoseByRank ==
  ASSUME NEW X, NEW seq \in Seq(X), NEW S
  PROVE  ByRank(Those(seq, S), seq, S)
<1> DEFINE at == {i \in 1..Len(seq) : seq[i] \in S}
           N == Cardinality(at)
           R == {p \in at \X at : p[1] < p[2]}
           E(i) == Cardinality(EarlierIn(seq, S, i))
           C(k) == CHOOSE i \in at : Cardinality({j \in at : j < i}) = k - 1
<1>1. Len(seq) \in Nat /\ DOMAIN seq = 1..Len(seq)
  BY LenProperties
<1>2. IsFiniteSet(at) /\ N \in 0..Len(seq)
  BY ThoseFacts
<1>3. StrictlyOrders(R, at)
  BY <1>1 DEF StrictlyOrders
<1>4. \A i \in at : Rank(at, R)[i] = E(i) /\ E(i) = Cardinality({j \in at : j < i})
  <2>1. \A i \in at : Below(at, R, i) = {j \in at : j < i}
    BY DEF Below
  <2>2. \A i \in at : EarlierIn(seq, S, i) = {j \in at : j < i}
    BY DEF EarlierIn
  <2>. QED
    BY <2>1, <2>2 DEF Rank
<1>5. Those(seq, S) = [k \in 1..N |-> seq[C(k)]]
  BY <1>1 DEF Those, at
<1>. HIDE DEF at, R, E
<1>6. /\ \A i, j \in at : Rank(at, R)[i] = Rank(at, R)[j] => i = j
      /\ \A k \in 0..N-1 : \E i \in at : Rank(at, R)[i] = k
  BY <1>2, <1>3, RanksCount
<1>7. ASSUME NEW k \in 1..N
      PROVE  \E i \in at : E(i) = k - 1 /\ Those(seq, S)[k] = seq[i]
  <2>1. k - 1 \in 0..N-1
    BY <1>2
  <2>2. \E i \in at : Cardinality({j \in at : j < i}) = k - 1
    <3>1. PICK i \in at : Rank(at, R)[i] = k - 1
      BY <1>6, <2>1
    <3>2. Cardinality({j \in at : j < i}) = k - 1
      BY <1>4, <3>1
    <3>. QED
      BY <3>2
  <2>3. C(k) \in at /\ Cardinality({j \in at : j < C(k)}) = k - 1
    BY <2>2
  <2>4. Those(seq, S)[k] = seq[C(k)]
    BY <1>5
  <2>. HIDE DEF C
  <2>. QED
    BY <1>4, <2>3, <2>4
<1>8. DOMAIN Those(seq, S) = 1..N
  BY <1>5
<1>9. \A i, j \in at : E(i) = E(j) => i = j
  BY <1>4, <1>6
<1>. QED
  BY <1>7, <1>8, <1>9 DEF ByRank, at, E

\* As many as there are places of them.
LEMMA ThoseTyped ==
  ASSUME NEW X, NEW seq \in Seq(X), NEW S
  PROVE  Those(seq, S) \in Seq(X) /\ Len(Those(seq, S)) = Cardinality({i \in 1..Len(seq) : seq[i] \in S})
<1>1. /\ Those(seq, S) \in Seq(X \cap S)
      /\ Len(Those(seq, S)) = Cardinality({i \in 1..Len(seq) : seq[i] \in S})
  BY ThoseFacts
<1>2. X \cap S \subseteq X
  OBVIOUS
<1>. QED
  BY <1>1, <1>2, SeqMonotonic

\* One reference more, last, is one more of those if it is picked, and else none.
LEMMA ThoseOfMore ==
  ASSUME NEW X, NEW seq \in Seq(X), NEW more \in Seq(X), NEW x, Inserted(seq, more, Len(seq) + 1, x),
         NEW S, NEW T, \A i \in 1..Len(seq) : seq[i] \in T <=> seq[i] \in S
  PROVE  IF x \in T THEN Inserted(Those(seq, S), Those(more, T), Len(Those(seq, S)) + 1, x)
         ELSE Those(more, T) = Those(seq, S)
<1> DEFINE N == Len(seq)
           at == {i \in 1..N : seq[i] \in S}
           to == {i \in 1..Len(more) : more[i] \in T}
           c == Cardinality(at)
           E(i) == Cardinality(EarlierIn(seq, S, i))
           D(i) == Cardinality(EarlierIn(more, T, i))
           u == Those(seq, S)
           v == Those(more, T)
<1>1. /\ N \in Nat /\ Len(more) = N + 1 /\ more[N + 1] = x
      /\ \A k \in 1..N : more[k] = seq[k]
  <2>1. N \in Nat
    BY LenProperties
  <2>2. 1..N + 1 - 1 = 1..N
    BY <2>1
  <2>. QED
    BY <2>1, <2>2 DEF Inserted
<1>2. IsFiniteSet(at) /\ c \in Nat /\ at \subseteq 1..N
  <2>1. IsFiniteSet(at) /\ c \in 0..N
    BY ThoseFacts
  <2>. QED
    BY <1>1, <2>1
<1>3. /\ DOMAIN u = 1..c
      /\ \A k \in 1..c : \E i \in at : E(i) = k - 1 /\ u[k] = seq[i]
      /\ \A i, j \in at : E(i) = E(j) => i = j
  BY ThoseByRank DEF ByRank
<1>4. /\ DOMAIN v = 1..Cardinality(to)
      /\ \A k \in 1..Cardinality(to) : \E i \in to : D(i) = k - 1 /\ v[k] = more[i]
      /\ \A i, j \in to : D(i) = D(j) => i = j
  BY ThoseByRank DEF ByRank
<1>5. ASSUME NEW i \in at
      PROVE  D(i) = E(i) /\ more[i] = seq[i]
  <2>1. EarlierIn(more, T, i) = EarlierIn(seq, S, i)
    <3>1. \A j \in 1..N + 1 : j < i => j \in 1..N
      BY <1>1, <1>2
    <3>2. \A j \in 1..N : j \in 1..N + 1
      BY <1>1
    <3>. QED
      BY <1>1, <3>1, <3>2 DEF EarlierIn
  <2>. QED
    BY <1>1, <1>2, <2>1
<1>6. to = IF x \in T THEN at \cup {N + 1} ELSE at
  <2>1. 1..N + 1 = (1..N) \cup {N + 1}
    BY <1>1
  <2>. QED
    BY <1>1, <2>1
<1>7. u \in Seq(X) /\ Len(u) = c /\ v \in Seq(X) /\ Len(v) = Cardinality(to)
  <2>1. u \in Seq(X) /\ Len(u) = c
    BY ThoseTyped
  <2>2. v \in Seq(X) /\ Len(v) = Cardinality(to)
    BY ThoseTyped
  <2>. QED
    BY <2>1, <2>2
<1>. HIDE DEF N, at, to, c, E, D, u, v
<1>8. CASE x \notin T
  <2>1. to = at /\ Cardinality(to) = c
    BY <1>6, <1>8 DEF c
  <2>2. ASSUME NEW k \in 1..c
        PROVE  v[k] = u[k]
    <3>1. PICK i \in at : E(i) = k - 1 /\ u[k] = seq[i]
      BY <1>3
    <3>2. PICK j \in at : D(j) = k - 1 /\ v[k] = more[j]
      BY <1>4, <2>1
    <3>3. E(j) = E(i)
      BY <1>5, <3>1, <3>2
    <3>4. i = j
      BY <1>3, <3>3
    <3>. QED
      BY <1>5, <3>1, <3>2, <3>4
  <2>3. v = u
    <3>1. \A k \in 1..Len(u) : v[k] = u[k]
      BY <1>7, <2>2
    <3>. QED
      BY <1>7, <2>1, <3>1, SeqEqual
  <2>. QED
    BY <1>8, <2>3 DEF u, v
<1>9. CASE x \in T
  <2>1. to = at \cup {N + 1} /\ N + 1 \notin at
    BY <1>1, <1>2, <1>6, <1>9
  <2>2. Cardinality(to) = c + 1
    BY <1>2, <2>1, FS_AddElement DEF c
  <2>3. D(N + 1) = c
    <3>1. \A j \in 1..N + 1 : j < N + 1 <=> j \in 1..N
      BY <1>1
    <3>2. \A j \in 1..N : j \in 1..N + 1
      BY <1>1
    <3>3. EarlierIn(more, T, N + 1) = at
      BY <1>1, <3>1, <3>2 DEF EarlierIn, at, N
    <3>. QED
      BY <3>3 DEF D, c
  <2>4. ASSUME NEW k \in 1..c
        PROVE  v[k] = u[k]
    <3>1. PICK i \in at : E(i) = k - 1 /\ u[k] = seq[i]
      BY <1>3
    <3>2. k \in 1..c + 1 /\ k - 1 # c
      BY <1>2
    <3>3. PICK j \in to : D(j) = k - 1 /\ v[k] = more[j]
      BY <1>4, <2>2, <3>2
    <3>4. j \in at
      BY <2>1, <2>3, <3>2, <3>3
    <3>5. E(j) = E(i)
      BY <1>5, <3>1, <3>3, <3>4
    <3>6. i = j
      BY <1>3, <3>4, <3>5
    <3>. QED
      BY <1>5, <3>1, <3>3, <3>6
  <2>5. v[c + 1] = x
    <3>1. PICK k \in 1..c + 1 : k = c + 1 /\ k - 1 = c
      BY <1>2
    <3>2. \E i \in to : D(i) = k - 1 /\ v[k] = more[i]
      BY <1>4, <2>2
    <3>3. PICK i \in to : D(i) = c /\ v[c + 1] = more[i]
      BY <3>1, <3>2
    <3>4. N + 1 \in to
      BY <2>1
    <3>5. i = N + 1
      BY <1>4, <2>3, <3>3, <3>4
    <3>. QED
      BY <1>1, <3>3, <3>5
  <2>6. Inserted(u, v, c + 1, x)
    <3>1. c + 1 \in 1..c + 1 /\ 1..c + 1 - 1 = 1..c /\ \A k \in c + 1..c : FALSE
      BY <1>2
    <3>. QED
      BY <1>7, <2>2, <2>4, <2>5, <3>1 DEF Inserted
  <2>. QED
    BY <1>7, <1>9, <2>6 DEF u, v
<1>. QED
  BY <1>8, <1>9

\* A reference to a new file, made last, is one more among all that are looked for.
LEMMA RawGrows ==
  ASSUME NEW X, NEW old, old.refs \in Seq(X), NEW new, new.refs \in Seq(X), NEW ref, ref.place \in Places,
         Inserted(old.refs, new.refs, Len(old.refs) + 1, ref),
         \A k \in 1..Len(old.refs) : old.refs[k].file # ref.file
  PROVE  \E m : Inserted(Raw(old), Raw(new), m, ref)
<1> DEFINE At(refs, place) == {r \in Range(refs) : r.place = place}
           Signed(refs) == {r \in At(refs, "content") : r.file.form = "signature"}
           Shown(refs) == {r \in At(refs, "media") : \E i \in At(refs, "inline") : i.file = r.file}
           a == old.refs
           b == new.refs
           I == At(a, "inline")
           C == At(a, "content") \ Signed(a)
           G == Signed(a)
           M == At(a, "media") \ Shown(a)
           J == At(b, "inline")
           D == At(b, "content") \ Signed(b)
           H == Signed(b)
           N == At(b, "media") \ Shown(b)
<1>1. Raw(old) = Those(a, I) \o Those(a, C) \o Those(a, G) \o Those(a, M)
  BY DEF Raw
<1>2. Raw(new) = Those(b, J) \o Those(b, D) \o Those(b, H) \o Those(b, N)
  BY DEF Raw
<1>3. a \in Seq(X) /\ b \in Seq(X) /\ \A k \in 1..Len(a) : a[k].file # ref.file
  OBVIOUS
<1>4. /\ Len(a) \in Nat /\ DOMAIN a = 1..Len(a) /\ DOMAIN b = 1..Len(a) + 1
      /\ \A k \in 1..Len(a) : b[k] = a[k]
      /\ b[Len(a) + 1] = ref
  <2>1. Len(a) \in Nat /\ DOMAIN a = 1..Len(a) /\ DOMAIN b = 1..Len(b)
    BY LenProperties
  <2>2. 1..Len(a) + 1 - 1 = 1..Len(a)
    BY <2>1
  <2>. QED
    BY <2>1, <2>2 DEF Inserted
<1>5. Inserted(a, b, Len(a) + 1, ref)
  OBVIOUS
<1>. HIDE DEF a, b
<1>6. Range(b) = Range(a) \cup {ref} /\ \A r \in Range(a) : r.file # ref.file
  <2>1. 1..Len(a) + 1 = (1..Len(a)) \cup {Len(a) + 1}
    BY <1>4
  <2>. QED
    BY <1>3, <1>4, <2>1 DEF Range
<1> DEFINE R == Range(a)
<1>7. \A k \in 1..Len(a) : a[k] \in R
  BY <1>4 DEF Range
<1>. HIDE DEF R
<1>8. \A r \in R : (r \in J <=> r \in I) /\ (r \in D <=> r \in C) /\ (r \in H <=> r \in G) /\ (r \in N <=> r \in M)
  <2>1. Range(a) = R /\ Range(b) = R \cup {ref} /\ \A r \in R : r # ref /\ r.file # ref.file
    BY <1>6 DEF R
  <2>. QED
    BY <2>1
<1>9. /\ ref \in J <=> ref.place = "inline"
      /\ ref \in D <=> ref.place = "content" /\ ref.file.form # "signature"
      /\ ref \in H <=> ref.place = "content" /\ ref.file.form = "signature"
      /\ ref \in N <=> ref.place = "media"
  <2>1. Range(b) = R \cup {ref} /\ \A r \in R : r.file # ref.file
    BY <1>6 DEF R
  <2>. QED
    BY <2>1
<1>. HIDE DEF I, C, G, M, J, D, H, N
<1>10. ASSUME NEW S, NEW T, \A r \in R : r \in T <=> r \in S
       PROVE  /\ Those(a, S) \in Seq(X) /\ Those(b, T) \in Seq(X)
              /\ IF ref \in T THEN Inserted(Those(a, S), Those(b, T), Len(Those(a, S)) + 1, ref)
                 ELSE Those(b, T) = Those(a, S)
  <2>1. \A k \in 1..Len(a) : a[k] \in T <=> a[k] \in S
    BY <1>7, <1>10
  <2>2. Those(a, S) \in Seq(X) /\ Those(b, T) \in Seq(X)
    BY <1>3, ThoseTyped
  <2>. QED
    BY <1>3, <1>5, <2>1, <2>2, ThoseOfMore
<1> DEFINE i == Those(a, I)
           c == Those(a, C)
           g == Those(a, G)
           m == Those(a, M)
           j == Those(b, J)
           d == Those(b, D)
           h == Those(b, H)
           n == Those(b, N)
<1>11. /\ i \in Seq(X) /\ j \in Seq(X)
       /\ IF ref \in J THEN Inserted(i, j, Len(i) + 1, ref) ELSE j = i
  BY <1>8, <1>10
<1>12. /\ c \in Seq(X) /\ d \in Seq(X)
       /\ IF ref \in D THEN Inserted(c, d, Len(c) + 1, ref) ELSE d = c
  BY <1>8, <1>10
<1>13. /\ g \in Seq(X) /\ h \in Seq(X)
       /\ IF ref \in H THEN Inserted(g, h, Len(g) + 1, ref) ELSE h = g
  BY <1>8, <1>10
<1>14. /\ m \in Seq(X) /\ n \in Seq(X)
       /\ IF ref \in N THEN Inserted(m, n, Len(m) + 1, ref) ELSE n = m
  BY <1>8, <1>10
<1>15. Raw(old) = ((i \o c) \o g) \o m /\ Raw(new) = ((j \o d) \o h) \o n
  BY <1>1, <1>2
<1>. HIDE DEF i, c, g, m, j, d, h, n
<1>16. i \o c \in Seq(X) /\ (i \o c) \o g \in Seq(X) /\ j \o d \in Seq(X) /\ (j \o d) \o h \in Seq(X)
  BY <1>11, <1>12, <1>13, ConcatProperties
<1>17. CASE ref \in J
  <2>1. d = c /\ h = g /\ n = m
    BY <1>9, <1>12, <1>13, <1>14, <1>17
  <2>2. Inserted(i \o c, j \o d, Len(i) + 1, ref)
    BY <1>11, <1>12, <1>17, <2>1, InsertedRight
  <2>3. Inserted((i \o c) \o g, (j \o d) \o h, Len(i) + 1, ref)
    BY <1>13, <1>16, <2>1, <2>2, InsertedRight
  <2>4. Inserted(((i \o c) \o g) \o m, ((j \o d) \o h) \o n, Len(i) + 1, ref)
    BY <1>14, <1>16, <2>1, <2>3, InsertedRight
  <2>. QED
    BY <1>15, <2>4
<1>18. CASE ref \in D
  <2>1. j = i /\ h = g /\ n = m
    BY <1>9, <1>11, <1>13, <1>14, <1>18
  <2>2. Inserted(i \o c, j \o d, Len(i) + (Len(c) + 1), ref)
    BY <1>11, <1>12, <1>18, <2>1, InsertedLeft
  <2>3. Inserted((i \o c) \o g, (j \o d) \o h, Len(i) + (Len(c) + 1), ref)
    BY <1>13, <1>16, <2>1, <2>2, InsertedRight
  <2>4. Inserted(((i \o c) \o g) \o m, ((j \o d) \o h) \o n, Len(i) + (Len(c) + 1), ref)
    BY <1>14, <1>16, <2>1, <2>3, InsertedRight
  <2>. QED
    BY <1>15, <2>4
<1>19. CASE ref \in H
  <2>1. j = i /\ d = c /\ n = m
    BY <1>9, <1>11, <1>12, <1>14, <1>19
  <2>2. Inserted((i \o c) \o g, (j \o d) \o h, Len(i \o c) + (Len(g) + 1), ref)
    BY <1>13, <1>16, <1>19, <2>1, InsertedLeft
  <2>3. Inserted(((i \o c) \o g) \o m, ((j \o d) \o h) \o n, Len(i \o c) + (Len(g) + 1), ref)
    BY <1>14, <1>16, <2>1, <2>2, InsertedRight
  <2>. QED
    BY <1>15, <2>3
<1>20. CASE ref \in N
  <2>1. j = i /\ d = c /\ h = g
    BY <1>9, <1>11, <1>12, <1>13, <1>20
  <2>2. Inserted(((i \o c) \o g) \o m, ((j \o d) \o h) \o n, Len((i \o c) \o g) + (Len(m) + 1), ref)
    BY <1>14, <1>16, <1>20, <2>1, InsertedLeft
  <2>. QED
    BY <1>15, <2>2
<1>. QED
  BY <1>9, <1>17, <1>18, <1>19, <1>20 DEF Places

\* Another file is left out with and without it, or is put last.
LEMMA OnceStepGrows ==
  ASSUME NEW X, NEW s \in Seq(X), NEW t \in Seq(X), NEW m, NEW x, Inserted(s, t, m, x),
         NEW y \in X, y.file # x.file
  PROVE  /\ OnceStep(t, y) \in Seq(X)
         /\ \E q : Inserted(OnceStep(s, y), OnceStep(t, y), q, x)
<1>1. Shifted(s, t, m, x)
  BY InsertedShifts
<1>2. DOMAIN s = 1..Len(s) /\ DOMAIN t = 1..Len(t)
  BY LenProperties
<1>3. (\E k \in DOMAIN s : s[k].file = y.file) <=> (\E k \in DOMAIN t : t[k].file = y.file)
  BY <1>1, <1>2 DEF Shifted
<1>4. CASE \E k \in DOMAIN s : s[k].file = y.file
  BY <1>3, <1>4 DEF OnceStep
<1>5. CASE ~ \E k \in DOMAIN s : s[k].file = y.file
  <2>1. OnceStep(s, y) = Append(s, y) /\ OnceStep(t, y) = Append(t, y)
    BY <1>3, <1>5 DEF OnceStep
  <2>2. Append(s, y) = s \o <<y>> /\ Append(t, y) = t \o <<y>>
    BY AppendIsConcat
  <2>3. <<y>> \in Seq(X)
    OBVIOUS
  <2>4. Inserted(s \o <<y>>, t \o <<y>>, m, x)
    BY <2>3, InsertedRight
  <2>5. t \o <<y>> \in Seq(X)
    BY <2>3, ConcatProperties
  <2>. QED
    BY <2>1, <2>2, <2>4, <2>5
<1>. QED
  BY <1>4, <1>5

\* A file that is not there yet is one item more.
LEMMA OnceGrows ==
  ASSUME NEW X, NEW s \in Seq(X), NEW t \in Seq(X), NEW m, NEW x \in X, Inserted(s, t, m, x),
         \A k \in 1..Len(s) : s[k].file # x.file
  PROVE  \E q : Inserted(Once(s), Once(t), q, x)
<1> DEFINE n == Len(s)
<1>1. n \in Nat /\ \A k \in 1..n : s[k] \in X
  BY LenProperties, ElementOfSeq
<1>2. /\ m \in 1..n + 1 /\ Len(t) = n + 1 /\ t[m] = x
      /\ \A k \in 1..m-1 : t[k] = s[k]
      /\ \A k \in m..n : t[k+1] = s[k]
  BY DEF Inserted
<1>3. PICK p : /\ p[0] = <<>>
               /\ \A k \in 1..n : p[k] = OnceStep(p[k-1], s[k])
               /\ Once(s) = p[n]
  BY OnceSteps
<1>4. PICK w : /\ w[0] = <<>>
               /\ \A k \in 1..n + 1 : w[k] = OnceStep(w[k-1], t[k])
               /\ Once(t) = w[n + 1]
  <2>1. PICK w : /\ w[0] = <<>>
                 /\ \A k \in 1..Len(t) : w[k] = OnceStep(w[k-1], t[k])
                 /\ Once(t) = w[Len(t)]
    BY OnceSteps
  <2>. QED
    BY <1>2, <2>1
<1> DEFINE Clear(items) == \A j \in 1..Len(items) : items[j].file # x.file
           Grown(k) == w[k+1] \in Seq(X) /\ \E q : Inserted(p[k], w[k+1], q, x)
           Good(k) == /\ p[k] \in Seq(X)
                      /\ Clear(p[k])
                      /\ k < m => w[k] = p[k]
                      /\ k >= m - 1 => Grown(k)
           S == {k \in 0..n : Good(k)}
<1>. HIDE DEF n
<1>5. ASSUME NEW items \in Seq(X), Clear(items), NEW y \in X, y.file # x.file
      PROVE  OnceStep(items, y) \in Seq(X) /\ Clear(OnceStep(items, y))
  <2>1. CASE \E k \in DOMAIN items : items[k].file = y.file
    BY <1>5, <2>1 DEF OnceStep
  <2>2. CASE ~ \E k \in DOMAIN items : items[k].file = y.file
    <3> DEFINE more == Append(items, y)
    <3>1. OnceStep(items, y) = more
      BY <2>2 DEF OnceStep
    <3>2. /\ more \in Seq(X) /\ Len(more) = Len(items) + 1
          /\ \A i \in 1..Len(items) : more[i] = items[i]
          /\ more[Len(items) + 1] = y
      BY AppendProperties
    <3>3. Len(items) \in Nat
      BY LenProperties
    <3>. HIDE DEF more
    <3>4. Clear(more)
      <4>1. \A j \in 1..Len(items) + 1 : j \in 1..Len(items) \/ j = Len(items) + 1
        BY <3>3
      <4>. QED
        BY <1>5, <3>2, <4>1
    <3>. QED
      BY <3>1, <3>2, <3>4
  <2>. QED
    BY <2>1, <2>2
<1>6. ASSUME NEW items \in Seq(X), Clear(items)
      PROVE  OnceStep(items, x) \in Seq(X) /\ \E q : Inserted(items, OnceStep(items, x), q, x)
  <2>1. DOMAIN items = 1..Len(items)
    BY LenProperties
  <2>2. OnceStep(items, x) = Append(items, x)
    BY <1>6, <2>1 DEF OnceStep
  <2>. QED
    BY <2>2, InsertedLast
<1>. HIDE DEF Clear
<1>7. ASSUME NEW k \in 0..n, p[k] \in Seq(X), Clear(p[k]), k < m => w[k] = p[k], k = m - 1
      PROVE  Grown(k)
  <2>1. PICK l \in 1..n + 1 : l = k + 1 /\ l = m /\ l - 1 = k
    BY <1>1, <1>2, <1>7
  <2>2. w[l] = OnceStep(w[k], t[l])
    BY <1>4, <2>1
  <2>3. w[k + 1] = OnceStep(p[k], x)
    BY <1>2, <1>7, <2>1, <2>2
  <2>. QED
    BY <1>6, <1>7, <2>3
<1>8. 0 \in S
  <2>1. p[0] \in Seq(X) /\ Len(p[0]) = 0
    BY <1>3, EmptySeq
  <2>2. Clear(p[0]) /\ 0 \in 0..n /\ w[0] = p[0]
    BY <1>1, <1>3, <1>4, <2>1 DEF Clear
  <2>3. 0 >= m - 1 => 0 = m - 1
    BY <1>1, <1>2
  <2>4. 0 >= m - 1 => Grown(0)
    <3>. HIDE DEF Grown
    <3>. QED
      BY <1>7, <2>1, <2>2, <2>3
  <2>. HIDE DEF Grown
  <2>. QED
    BY <2>1, <2>2, <2>4
<1>9. ASSUME NEW k \in 1..n, k - 1 \in S
      PROVE  k \in S
  <2>1. s[k] \in X /\ s[k].file # x.file /\ p[k] = OnceStep(p[k-1], s[k])
    BY <1>1, <1>3 DEF n
  <2>2. Good(k - 1)
    BY <1>9
  <2>3. p[k] \in Seq(X) /\ Clear(p[k])
    <3>1. p[k-1] \in Seq(X) /\ Clear(p[k-1])
      BY <2>2
    <3>. QED
      BY <1>5, <2>1, <3>1
  <2>4. ASSUME k < m
        PROVE  w[k] = p[k]
    <3>1. k - 1 < m /\ k \in 1..m-1 /\ k \in 1..n + 1
      BY <1>1, <1>2, <2>4
    <3>2. w[k-1] = p[k-1] /\ t[k] = s[k]
      BY <1>2, <2>2, <3>1
    <3>. QED
      BY <1>4, <2>1, <3>1, <3>2
  <2>5. ASSUME k >= m - 1
        PROVE  Grown(k)
    <3>1. CASE k = m - 1
      <4>. HIDE DEF Grown
      <4>1. k \in 0..n
        BY <1>1
      <4>. QED
        BY <1>7, <2>3, <2>4, <3>1, <4>1
    <3>2. CASE k # m - 1
      <4>1. k - 1 >= m - 1 /\ k \in m..n
        BY <1>1, <1>2, <2>5, <3>2
      <4>2. Grown(k - 1) /\ p[k-1] \in Seq(X)
        <5>. HIDE DEF Grown
        <5>. QED
          BY <2>2, <4>1
      <4>3. k - 1 + 1 = k
        OBVIOUS
      <4>4. w[k] \in Seq(X) /\ \E q : Inserted(p[k-1], w[k], q, x)
        BY <4>2, <4>3
      <4>5. PICK q : Inserted(p[k-1], w[k], q, x)
        BY <4>4
      <4>6. OnceStep(w[k], s[k]) \in Seq(X) /\ \E r : Inserted(OnceStep(p[k-1], s[k]), OnceStep(w[k], s[k]), r, x)
        BY <2>1, <4>2, <4>4, <4>5, OnceStepGrows
      <4>7. PICK l \in 1..n + 1 : l = k + 1 /\ l - 1 = k
        BY <1>1
      <4>8. t[k + 1] = s[k]
        BY <1>2, <4>1
      <4>9. w[l] = OnceStep(w[k], t[l])
        BY <1>4, <4>7
      <4>10. w[k + 1] = OnceStep(w[k], s[k])
        BY <4>7, <4>8, <4>9
      <4>. QED
        BY <2>1, <4>6, <4>10
    <3>. QED
      BY <3>1, <3>2
  <2>6. k \in 0..n
    BY <1>1
  <2>. HIDE DEF Grown
  <2>. QED
    BY <2>3, <2>4, <2>5, <2>6
<1>10. n \in S
  <2>. HIDE DEF S
  <2>1. \A k \in 0..n : k \in S
    BY <1>1, <1>8, <1>9, CountUp
  <2>. QED
    BY <1>1, <2>1
<1>11. n >= m - 1
  BY <1>1, <1>2
<1>. QED
  BY <1>3, <1>4, <1>10, <1>11

\* A reference to a new file, made last, is one item more.
LEMMA ItemsGrow ==
  ASSUME NEW X, NEW old, old.refs \in Seq(X), NEW new, new.refs \in Seq(X), NEW ref \in X, ref.place \in Places,
         Inserted(old.refs, new.refs, Len(old.refs) + 1, ref),
         \A k \in 1..Len(old.refs) : old.refs[k].file # ref.file
  PROVE  \E m : Inserted(Items(old), Items(new), m, ref)
<1> DEFINE R == {old.refs[k] : k \in 1..Len(old.refs)}
           u == Raw(old)
           v == Raw(new)
<1>1. PICK m : Inserted(u, v, m, ref)
  BY RawGrows
<1>2. u \in Seq(X) /\ v \in Seq(X)
  BY RawFacts
<1>3. \A k \in 1..Len(u) : u[k].file # ref.file
  <2>1. Len(old.refs) \in Nat /\ old.refs = [k \in 1..Len(old.refs) |-> old.refs[k]]
    BY LenProperties
  <2>2. old.refs \in Seq(R)
    BY <2>1
  <2>3. \A r \in R : r.file # ref.file
    OBVIOUS
  <2>. HIDE DEF R
  <2>4. u \in Seq(R)
    BY <2>2, RawFacts
  <2>. HIDE DEF u
  <2>5. \A k \in 1..Len(u) : u[k] \in R
    BY <2>4, ElementOfSeq
  <2>. QED
    BY <2>3, <2>5
<1>. HIDE DEF u, v
<1>4. \E q : Inserted(Once(u), Once(v), q, ref)
  BY <1>1, <1>2, <1>3, OnceGrows
<1>. QED
  BY <1>4 DEF Items, u, v

(***************************************************************************)
(* One file more to answer with.                                           *)
(***************************************************************************)

\* take takes the first there is.
LEMMA FirstFreeIsFirst ==
  ASSUME NEW X, NEW items \in Seq(X), NEW used, NEW kinds, FirstFree(items, used, kinds) # NoItem
  PROVE  \A k \in 1..Len(items) :
           k \notin used /\ Kind(items[k]) \in kinds => FirstFree(items, used, kinds) <= k
<1> DEFINE free == {k \in DOMAIN items : k \notin used /\ Kind(items[k]) \in kinds}
           item == FirstFree(items, used, kinds)
<1>1. Len(items) \in Nat /\ DOMAIN items = 1..Len(items)
  BY LenProperties
<1>2. free # {}
  BY DEF FirstFree
<1>3. free \in SUBSET Nat
  BY <1>1
<1>4. \E k \in free : \A j \in free : k <= j
  <2>. HIDE DEF free
  <2>. QED
    BY <1>2, <1>3, SmallestNat
<1>5. item = CHOOSE k \in free : \A j \in free : k <= j
  BY <1>2 DEF FirstFree
<1>6. \A j \in free : item <= j
  BY <1>4, <1>5
<1>. QED
  BY <1>1, <1>6

\* With one item more, put in at place m, there is free what was free without it,
\* and y besides, or nothing besides if y is NoItem.
Spare(U, V, n, m, y) ==
  /\ y \in 0..n + 1
  /\ \A j \in 1..n + 1 : j \notin V <=> (j = y \/ \E k \in 1..n : k \notin U /\ j = Shift(m, k))
  /\ \A k \in 1..n : k \notin U => Shift(m, k) # y

\* What is taken without it is taken with it, or else y is.
Taken(i, j, m, y) ==
  \/ i # NoItem /\ j = Shift(m, i)
  \/ j = y /\ y # NoItem
  \/ i = NoItem /\ j = NoItem

\* So take takes.
LEMMA FirstFreeGrows ==
  ASSUME NEW X, NEW s \in Seq(X), NEW t \in Seq(X), NEW m, NEW x, Inserted(s, t, m, x),
         NEW U, NEW V, NEW y, Spare(U, V, Len(s), m, y), NEW kinds
  PROVE  Taken(FirstFree(s, U, kinds), FirstFree(t, V, kinds), m, y)
<1> DEFINE n == Len(s)
           i == FirstFree(s, U, kinds)
           j == FirstFree(t, V, kinds)
<1>1. /\ n \in Nat /\ m \in 1..n + 1 /\ Len(t) = n + 1
      /\ \A k \in 1..n : Shift(m, k) \in 1..n + 1 /\ t[Shift(m, k)] = s[k]
      /\ \A k, l \in 1..n : k < l <=> Shift(m, k) < Shift(m, l)
  <2>1. Shifted(s, t, m, x)
    BY InsertedShifts
  <2>. QED
    BY <2>1 DEF Shifted
<1>2. /\ i \in 0..n
      /\ i # NoItem => i \notin U /\ Kind(s[i]) \in kinds
      /\ i = NoItem => \A k \in 1..n : Kind(s[k]) \in kinds => k \in U
      /\ i # NoItem => \A k \in 1..n : k \notin U /\ Kind(s[k]) \in kinds => i <= k
  BY FirstFreeFacts, FirstFreeIsFirst
<1>3. /\ j \in 0..n + 1
      /\ j # NoItem => j \notin V /\ Kind(t[j]) \in kinds
      /\ j = NoItem => \A k \in 1..n + 1 : Kind(t[k]) \in kinds => k \in V
      /\ j # NoItem => \A k \in 1..n + 1 : k \notin V /\ Kind(t[k]) \in kinds => j <= k
  <2>1. /\ j \in 0..Len(t)
        /\ j # NoItem => j \notin V /\ Kind(t[j]) \in kinds
        /\ j = NoItem => \A k \in 1..Len(t) : Kind(t[k]) \in kinds => k \in V
        /\ j # NoItem => \A k \in 1..Len(t) : k \notin V /\ Kind(t[k]) \in kinds => j <= k
    BY FirstFreeFacts, FirstFreeIsFirst
  <2>. HIDE DEF j, n
  <2>. QED
    BY <1>1, <2>1
<1>4. /\ y \in 0..n + 1
      /\ \A k \in 1..n + 1 : k \notin V <=> (k = y \/ \E l \in 1..n : l \notin U /\ k = Shift(m, l))
  BY DEF Spare
<1>. HIDE DEF n, i, j
<1>5. ASSUME j # NoItem, j # y
      PROVE  i # NoItem /\ j = Shift(m, i)
  <2>1. j \in 1..n + 1 /\ j \notin V /\ Kind(t[j]) \in kinds
    BY <1>1, <1>3, <1>5 DEF NoItem
  <2>2. PICK l \in 1..n : l \notin U /\ j = Shift(m, l)
    BY <1>4, <1>5, <2>1
  <2>3. Kind(s[l]) \in kinds
    BY <1>1, <2>1, <2>2
  <2>4. i # NoItem /\ i \in 1..n /\ i <= l
    BY <1>1, <1>2, <2>2, <2>3 DEF NoItem
  <2>5. Shift(m, i) \in 1..n + 1 /\ Shift(m, i) \notin V /\ Kind(t[Shift(m, i)]) \in kinds
    BY <1>1, <1>2, <1>4, <2>4
  <2>6. j <= Shift(m, i)
    BY <1>3, <1>5, <2>5
  <2>7. i = l
    <3>1. ~(Shift(m, i) < Shift(m, l))
      BY <1>1, <2>1, <2>2, <2>5, <2>6
    <3>. QED
      BY <1>1, <2>4, <3>1
  <2>. QED
    BY <2>2, <2>4, <2>7
<1>6. ASSUME j = NoItem
      PROVE  i = NoItem
  <2>. SUFFICES ASSUME i # NoItem
                PROVE  FALSE
    OBVIOUS
  <2>1. i \in 1..n
    BY <1>1, <1>2 DEF NoItem
  <2>2. Shift(m, i) \in 1..n + 1 /\ Shift(m, i) \notin V /\ Kind(t[Shift(m, i)]) \in kinds
    BY <1>1, <1>2, <1>4, <2>1
  <2>. QED
    BY <1>3, <1>6, <2>2
<1>. QED
  BY <1>5, <1>6 DEF Taken, i, j

\* Whatever is taken, one at most stays free besides.
LEMMA SpareAfter ==
  ASSUME NEW n \in Nat, NEW m \in 1..n + 1, NEW U, NEW V, NEW y, Spare(U, V, n, m, y),
         NEW i \in 0..n, i # NoItem => i \notin U, NEW j, Taken(i, j, m, y)
  PROVE  \E z : Spare(U \cup {i}, V \cup {j}, n, m, z)
<1>1. /\ y \in 0..n + 1
      /\ \A k \in 1..n + 1 : k \notin V <=> (k = y \/ \E l \in 1..n : l \notin U /\ k = Shift(m, l))
      /\ \A k \in 1..n : k \notin U => Shift(m, k) # y
  BY DEF Spare
<1>2. /\ \A k \in 1..n : Shift(m, k) \in 1..n + 1
      /\ \A k, l \in 1..n : Shift(m, k) = Shift(m, l) => k = l
  BY DEF Shift
<1>3. CASE i # NoItem /\ j = Shift(m, i)
  <2>1. i \in 1..n /\ i \notin U
    BY <1>3 DEF NoItem
  <2>2. j \in 1..n + 1 /\ j # y
    BY <1>1, <1>2, <1>3, <2>1
  <2>3. ASSUME NEW k \in 1..n + 1
        PROVE  k \notin V \cup {j} <=> (k = y \/ \E l \in 1..n : l \notin U \cup {i} /\ k = Shift(m, l))
    BY <1>1, <1>2, <1>3, <2>1, <2>2
  <2>4. Spare(U \cup {i}, V \cup {j}, n, m, y)
    BY <1>1, <2>3 DEF Spare
  <2>. QED
    BY <2>4
<1>4. CASE i # NoItem /\ j = y /\ y # NoItem
  <2>1. i \in 1..n /\ i \notin U
    BY <1>4 DEF NoItem
  <2> DEFINE z == Shift(m, i)
  <2>2. z \in 1..n + 1 /\ z # y /\ z \in 0..n + 1
    BY <1>1, <1>2, <2>1
  <2>3. ASSUME NEW k \in 1..n + 1
        PROVE  k \notin V \cup {j} <=> (k = z \/ \E l \in 1..n : l \notin U \cup {i} /\ k = Shift(m, l))
    BY <1>1, <1>2, <1>4, <2>1, <2>2
  <2>4. \A k \in 1..n : k \notin U \cup {i} => Shift(m, k) # z
    BY <1>2, <2>1
  <2>. HIDE DEF z
  <2>5. Spare(U \cup {i}, V \cup {j}, n, m, z)
    BY <2>2, <2>3, <2>4 DEF Spare
  <2>. QED
    BY <2>5
<1>5. CASE i = NoItem /\ j = y /\ y # NoItem
  <2>1. 0 \in 0..n + 1 /\ \A k \in 1..n + 1 : k # 0
    OBVIOUS
  <2>2. \A k \in 1..n : k # i
    BY <1>5 DEF NoItem
  <2>3. ASSUME NEW k \in 1..n + 1
        PROVE  k \notin V \cup {j} <=> (k = 0 \/ \E l \in 1..n : l \notin U \cup {i} /\ k = Shift(m, l))
    BY <1>1, <1>5, <2>1, <2>2
  <2>4. \A k \in 1..n : k \notin U \cup {i} => Shift(m, k) # 0
    BY <1>2, <2>1
  <2>5. Spare(U \cup {i}, V \cup {j}, n, m, 0)
    BY <2>1, <2>3, <2>4 DEF Spare
  <2>. QED
    BY <2>5
<1>6. CASE i = NoItem /\ j = NoItem
  <2>1. (\A k \in 1..n : k # i) /\ \A k \in 1..n + 1 : k # j
    BY <1>6 DEF NoItem
  <2>2. ASSUME NEW k \in 1..n + 1
        PROVE  k \notin V \cup {j} <=> (k = y \/ \E l \in 1..n : l \notin U \cup {i} /\ k = Shift(m, l))
    BY <1>1, <2>1
  <2>3. Spare(U \cup {i}, V \cup {j}, n, m, y)
    BY <1>1, <2>2 DEF Spare
  <2>. QED
    BY <2>3
<1>. QED
  BY <1>3, <1>4, <1>5, <1>6 DEF Taken

\* b answers no worse than a does.
NoWorse(a, b, req) ==
  /\ b.outcome = "missing" => a.outcome = "missing"
  /\ req.constraints = {} => HalfCredit(a.outcome) <= HalfCredit(b.outcome)

\* One requirement is answered no worse with one item more.
LEMMA AnswerGrows ==
  ASSUME NEW X, NEW s \in Seq(X), NEW t \in Seq(X), NEW m, NEW x, Inserted(s, t, m, x),
         NEW U, NEW V, NEW y, Spare(U, V, Len(s), m, y), NEW req, NEW text
  PROVE  /\ \E z : Spare(U \cup {Answer(req, s, U, text).item}, V \cup {Answer(req, t, V, text).item}, Len(s), m, z)
         /\ NoWorse(Answer(req, s, U, text), Answer(req, t, V, text), req)
<1> DEFINE n == Len(s)
           f == FirstFree(s, U, FullKinds(req.kind))
           g == FirstFree(t, V, FullKinds(req.kind))
           p == FirstFree(s, U, UnverifiedKinds(req.kind))
           q == FirstFree(t, V, UnverifiedKinds(req.kind))
           i == IF f # NoItem THEN f ELSE p
           j == IF g # NoItem THEN g ELSE q
           a == Answer(req, s, U, text)
           b == Answer(req, t, V, text)
<1>1. n \in Nat /\ m \in 1..n + 1 /\ \A k \in 1..n : Shift(m, k) # NoItem
  <2>1. Shifted(s, t, m, x)
    BY InsertedShifts
  <2>. QED
    BY <2>1 DEF Shifted, NoItem
<1>2. Taken(f, g, m, y) /\ Taken(p, q, m, y)
  BY FirstFreeGrows
<1>3. f \in 0..n /\ (f # NoItem => f \notin U) /\ p \in 0..n /\ (p # NoItem => p \notin U)
  BY FirstFreeFacts
<1>4. /\ a.item = i
      /\ a.outcome = "missing" <=> IF req.kind = "text" THEN ~(text.words > 0) ELSE i = NoItem
      /\ req.constraints = {} =>
           a.outcome = IF IF req.kind = "text" THEN ~(text.words > 0) ELSE i = NoItem THEN "missing"
                       ELSE IF i # f THEN "unverified" ELSE "found"
  BY DEF Answer, OutcomeOf
<1>5. /\ b.item = j
      /\ b.outcome = "missing" <=> IF req.kind = "text" THEN ~(text.words > 0) ELSE j = NoItem
      /\ req.constraints = {} =>
           b.outcome = IF IF req.kind = "text" THEN ~(text.words > 0) ELSE j = NoItem THEN "missing"
                       ELSE IF j # g THEN "unverified" ELSE "found"
  BY DEF Answer, OutcomeOf
<1>6. req.kind = "text" => f = NoItem /\ p = NoItem /\ g = NoItem /\ q = NoItem
  <2>. SUFFICES ASSUME req.kind = "text"
                PROVE  f = NoItem /\ p = NoItem /\ g = NoItem /\ q = NoItem
    OBVIOUS
  <2>1. FullKinds(req.kind) = {} /\ UnverifiedKinds(req.kind) = {}
    BY DEF FullKinds, UnverifiedKinds
  <2>. QED
    BY <2>1 DEF FirstFree
<1>. HIDE DEF n, f, g, p, q, a, b
<1>7. (f # NoItem => g # NoItem) /\ (p # NoItem => q # NoItem)
  <2>1. (f # NoItem => f \in 1..n) /\ (p # NoItem => p \in 1..n)
    BY <1>1, <1>3 DEF NoItem
  <2>. QED
    BY <1>1, <1>2, <2>1 DEF Taken
<1>8. Taken(i, j, m, y)
  BY <1>2, <1>7 DEF Taken
<1>9. i \in 0..n /\ (i # NoItem => i \notin U)
  BY <1>3
<1>10. \E z : Spare(U \cup {i}, V \cup {j}, n, m, z)
  <2>. HIDE DEF i, j
  <2>1. Spare(U, V, n, m, y)
    BY DEF n
  <2>. QED
    BY <1>1, <1>8, <1>9, <2>1, SpareAfter
<1>11. i # NoItem => j # NoItem
  BY <1>7
<1>12. b.outcome = "missing" => a.outcome = "missing"
  BY <1>4, <1>5, <1>11
<1>13. ASSUME req.constraints = {}
       PROVE  HalfCredit(a.outcome) <= HalfCredit(b.outcome)
  <2>1. b.outcome = "missing" => a.outcome = "missing"
    BY <1>12
  <2>2. b.outcome = "unverified" => a.outcome \in {"missing", "unverified"}
    BY <1>4, <1>5, <1>6, <1>7, <1>13
  <2>3. a.outcome \in {"missing", "unverified", "found"} /\ b.outcome \in {"missing", "unverified", "found"}
    BY <1>4, <1>5, <1>13
  <2>4. HalfCredit("missing") = 0 /\ HalfCredit("unverified") = 1 /\ HalfCredit("found") = 2
    BY DEF HalfCredit
  <2>. QED
    BY <2>1, <2>2, <2>3, <2>4
<1>14. NoWorse(a, b, req)
  BY <1>12, <1>13 DEF NoWorse
<1>15. \E z : Spare(U \cup {a.item}, V \cup {b.item}, n, m, z)
  BY <1>4, <1>5, <1>10
<1>. QED
  BY <1>14, <1>15 DEF a, b, n

\* NoItem does not count among the used.
LEMMA SpareSame ==
  ASSUME NEW n \in Nat, NEW m, NEW y, NEW U, NEW V, NEW S, NEW T,
         \A k \in Nat \ {0} : (k \in S <=> k \in U) /\ (k \in T <=> k \in V),
         Spare(U, V, n, m, y)
  PROVE  Spare(S, T, n, m, y)
<1>1. /\ y \in 0..n + 1
      /\ \A k \in 1..n + 1 : k \notin V <=> (k = y \/ \E l \in 1..n : l \notin U /\ k = Shift(m, l))
      /\ \A k \in 1..n : k \notin U => Shift(m, k) # y
  BY DEF Spare
<1>2. \A k \in 1..n + 1 : k \notin T <=> k \notin V
  OBVIOUS
<1>3. \A k \in 1..n : k \notin S <=> k \notin U
  OBVIOUS
<1>4. ASSUME NEW k \in 1..n + 1
      PROVE  k \notin T <=> (k = y \/ \E l \in 1..n : l \notin S /\ k = Shift(m, l))
  BY <1>1, <1>2, <1>3
<1>. QED
  BY <1>1, <1>3, <1>4 DEF Spare

\* With one item more every requirement is answered no worse, though perhaps by another item.
LEMMA AnswersGrow ==
  ASSUME NEW X, NEW reqs \in Seq(X), NEW Y, NEW s \in Seq(Y), NEW t \in Seq(Y), NEW m, NEW x,
         Inserted(s, t, m, x), NEW text
  PROVE  \A i \in 1..Len(reqs) : NoWorse(Answers(reqs, s, text)[i], Answers(reqs, t, text)[i], reqs[i])
<1> DEFINE n == Len(reqs)
           order == Order(reqs)
           l == Len(order)
           A == [1..n -> EvidenceAnswer(Len(s))]
           B == [1..n -> EvidenceAnswer(Len(t))]
           Done(k) == {order[j] : j \in 1..k}
           Used(a) == {a[j].item : j \in 1..n}
<1>1. n \in Nat /\ Len(s) \in Nat /\ m \in 1..Len(s) + 1
  BY LenProperties DEF Inserted
<1>2. /\ order \in Seq(1..n)
      /\ \A j, k \in 1..l : order[j] = order[k] => j = k
      /\ \A i \in 1..n : \E k \in 1..l : order[k] = i
  BY OrderFacts
<1>3. PICK p : /\ \A k \in 0..l : p[k] \in A
               /\ p[0] = Nothing(n)
               /\ \A k \in 1..l : p[k] = AnswersStep(p[k-1], reqs, s, text, order[k])
               /\ Answers(reqs, s, text) = p[l]
  BY AnswersSteps
<1>4. PICK w : /\ \A k \in 0..l : w[k] \in B
               /\ w[0] = Nothing(n)
               /\ \A k \in 1..l : w[k] = AnswersStep(w[k-1], reqs, t, text, order[k])
               /\ Answers(reqs, t, text) = w[l]
  BY AnswersSteps
<1>. HIDE DEF order
<1>5. l \in Nat /\ \A k \in 1..l : order[k] \in 1..n
  BY <1>2, LenProperties, ElementOfSeq
<1> DEFINE Untouched(k) == \A i \in (1..n) \ Done(k) : p[k][i].item = NoItem /\ w[k][i].item = NoItem
           Room(k) == \E y : Spare(Used(p[k]), Used(w[k]), Len(s), m, y)
           Better(k) == \A i \in Done(k) : NoWorse(p[k][i], w[k][i], reqs[i])
           S == {k \in 0..l : Untouched(k) /\ Room(k) /\ Better(k)}
<1>6. 0 \in S
  <2>1. \A i \in 1..n : p[0][i].item = NoItem /\ w[0][i].item = NoItem
    BY <1>3, <1>4 DEF Nothing
  <2>2. Done(0) = {} /\ 0 \in 0..l
    BY <1>5
  <2>3. Untouched(0)
    BY <2>1
  <2>4. Better(0)
    BY <2>2
  <2>5. Room(0)
    <3> DEFINE U == Used(p[0])
               V == Used(w[0])
    <3>1. \A k \in Nat \ {0} : k \notin U /\ k \notin V
      BY <2>1 DEF NoItem
    <3>. HIDE DEF U, V
    <3>2. \A k \in 1..Len(s) + 1 : k = m \/ \E j \in 1..Len(s) : k = Shift(m, j)
      <4>. SUFFICES ASSUME NEW k \in 1..Len(s) + 1, k # m
                    PROVE  \E j \in 1..Len(s) : k = Shift(m, j)
        OBVIOUS
      <4>1. CASE k < m
        <5>1. k \in 1..Len(s) /\ k = Shift(m, k)
          BY <1>1, <4>1 DEF Shift
        <5>. QED
          BY <5>1
      <4>2. CASE ~(k < m)
        <5>1. PICK j \in 1..Len(s) : k = j + 1 /\ ~(j < m)
          BY <1>1, <4>2
        <5>. QED
          BY <5>1 DEF Shift
      <4>. QED
        BY <4>1, <4>2
    <3>3. \A k \in 1..Len(s) : Shift(m, k) # m
      BY <1>1 DEF Shift
    <3>4. m \in 0..Len(s) + 1
      BY <1>1
    <3>5. \A k \in 1..Len(s) + 1 : k \notin V
      BY <1>1, <3>1
    <3>6. \A k \in 1..Len(s) : k \notin U
      BY <1>1, <3>1
    <3>7. Spare(U, V, Len(s), m, m)
      BY <3>2, <3>3, <3>4, <3>5, <3>6 DEF Spare
    <3>. QED
      BY <3>7 DEF U, V
  <2>. HIDE DEF Untouched, Room, Better
  <2>. QED
    BY <2>2, <2>3, <2>4, <2>5
<1>7. ASSUME NEW k \in 1..l, k - 1 \in S
      PROVE  k \in S
  <2> DEFINE a == p[k-1]
             b == p[k]
             c == w[k-1]
             d == w[k]
             i == order[k]
             U == Used(a)
             V == Used(c)
             e == Answer(reqs[i], s, U, text)
             f == Answer(reqs[i], t, V, text)
  <2>1. k - 1 \in 0..l /\ k \in 0..l /\ a \in A /\ c \in B /\ i \in 1..n
    BY <1>3, <1>4, <1>5
  <2>2. b = [a EXCEPT ![i] = e] /\ d = [c EXCEPT ![i] = f]
    <3>1. DOMAIN a = 1..n /\ DOMAIN c = 1..n
      BY <2>1
    <3>. QED
      BY <1>3, <1>4, <3>1 DEF AnswersStep
  <2>3. e.item \in Nat /\ f.item \in Nat
    <3>1. e \in EvidenceAnswer(Len(s)) /\ f \in EvidenceAnswer(Len(t))
      BY AnswerFacts
    <3>2. Len(t) \in Nat
      BY LenProperties
    <3>. HIDE DEF e, f
    <3>. QED
      BY <1>1, <3>1, <3>2 DEF EvidenceAnswer
  <2>4. Untouched(k-1) /\ Room(k-1) /\ Better(k-1)
    BY <1>7
  <2>5. PICK y : Spare(U, V, Len(s), m, y)
    BY <2>4
  <2>6. /\ \E z : Spare(U \cup {e.item}, V \cup {f.item}, Len(s), m, z)
        /\ NoWorse(e, f, reqs[i])
    <3>. HIDE DEF U, V, i
    <3>. QED
      BY <2>5, AnswerGrows
  <2>. HIDE DEF e, f
  <2>7. b[i] = e /\ d[i] = f /\ \A j \in 1..n : j # i => b[j] = a[j] /\ d[j] = c[j]
    <3>. HIDE DEF i
    <3>. QED
      BY <2>1, <2>2
  <2>8. Done(k) = Done(k-1) \cup {i} /\ i \notin Done(k-1) /\ Done(k-1) \subseteq 1..n
    <3>1. 1..k = (1..k-1) \cup {k} /\ k \notin 1..k-1 /\ 1..k \subseteq 1..l
      BY <1>5
    <3>2. i \notin Done(k-1)
      BY <1>2, <3>1
    <3>. QED
      BY <1>5, <3>1, <3>2
  <2>9. a[i].item = 0 /\ c[i].item = 0
    BY <2>1, <2>4, <2>8 DEF NoItem
  <2>10. Untouched(k)
    <3>. SUFFICES ASSUME NEW j \in (1..n) \ Done(k)
                  PROVE  b[j].item = NoItem /\ d[j].item = NoItem
      OBVIOUS
    <3>. HIDE DEF b, d, i, Done
    <3>1. j # i /\ j \in (1..n) \ Done(k-1)
      BY <2>8
    <3>. QED
      BY <2>4, <2>7, <3>1
  <2>11. Room(k)
    <3>1. PICK z : Spare(U \cup {e.item}, V \cup {f.item}, Len(s), m, z)
      BY <2>6
    <3> DEFINE P == Used(b)
               Q == Used(d)
    <3>. HIDE DEF a, b, c, d, i
    <3>2. \A h \in Nat \ {0} : h \in P <=> h \in U \cup {e.item}
      BY <2>1, <2>7, <2>9
    <3>3. \A h \in Nat \ {0} : h \in Q <=> h \in V \cup {f.item}
      BY <2>1, <2>7, <2>9
    <3>. HIDE DEF P, Q, U, V
    <3>4. Spare(P, Q, Len(s), m, z)
      BY <1>1, <3>1, <3>2, <3>3, SpareSame
    <3>. QED
      BY <3>4 DEF P, Q, b, d
  <2>12. Better(k)
    <3>. SUFFICES ASSUME NEW j \in Done(k)
                  PROVE  NoWorse(b[j], d[j], reqs[j])
      OBVIOUS
    <3>. HIDE DEF b, d, i, Done
    <3>1. CASE j = i
      BY <2>6, <2>7, <3>1
    <3>2. CASE j # i
      <4>1. j \in Done(k-1) /\ j \in 1..n
        BY <2>8, <3>2
      <4>2. NoWorse(a[j], c[j], reqs[j])
        BY <2>4, <4>1
      <4>. QED
        BY <2>7, <3>2, <4>1, <4>2
    <3>. QED
      BY <3>1, <3>2
  <2>. HIDE DEF Untouched, Room, Better
  <2>. QED
    BY <2>1, <2>10, <2>11, <2>12
<1>8. l \in S
  <2>. HIDE DEF S
  <2>1. \A k \in 0..l : k \in S
    BY <1>5, <1>6, <1>7, CountUp
  <2>. QED
    BY <1>5, <2>1
<1>9. Done(l) = 1..n
  <2>1. \A i \in Done(l) : i \in 1..n
    BY <1>5
  <2>2. \A i \in 1..n : i \in Done(l)
    BY <1>2
  <2>. HIDE DEF Done
  <2>. QED
    BY <2>1, <2>2
<1>10. Better(l)
  <2>. HIDE DEF Better
  <2>. QED
    BY <1>8
<1>. QED
  BY <1>3, <1>4, <1>9, <1>10

\* No requirement that a criterion is linked to is unknown.
Linked(asked) == \A i \in 1..Len(asked.criteria) : asked.criteria[i].links \subseteq 1..Len(asked.reqs)

\* Where nothing more is missing, what can be checked is met if it was.
LEMMA VerdictsGrow ==
  ASSUME NEW asked, Typed(asked), Linked(asked), NEW old, NEW new, old.text = new.text, NEW e, NEW f,
         \A i \in 1..Len(asked.reqs) : f[i].outcome = "missing" => e[i].outcome = "missing",
         NEW i \in 1..Len(asked.criteria), Factual(asked.criteria[i])
  PROVE  Verdicts(asked, new, f)[i] \in {Verdicts(asked, old, e)[i], "pass"}
<1> DEFINE c == asked.criteria[i]
           text == old.text
           m == \E j \in c.links : e[j].outcome = "missing"
           n == \E j \in c.links : f[j].outcome = "missing"
<1>1. DOMAIN asked.criteria = 1..Len(asked.criteria)
  BY LenProperties DEF Typed
<1>2. Verdicts(asked, old, e)[i] = Verdict(c, e, text) /\ Verdicts(asked, new, f)[i] = Verdict(c, f, text)
  BY <1>1 DEF Verdicts
<1>3. n => m
  BY DEF Linked
<1>4. c.check # "manual"
  BY DEF Factual
<1>5. /\ Judged(c, e, text) = IF c.check = "evidence_present"
                              THEN IF c.links # {} /\ ~m THEN "pass" ELSE "fail"
                              ELSE IF c.expected \in text.says THEN "pass" ELSE "fail"
      /\ Judged(c, f, text) = IF c.check = "evidence_present"
                              THEN IF c.links # {} /\ ~n THEN "pass" ELSE "fail"
                              ELSE IF c.expected \in text.says THEN "pass" ELSE "fail"
  BY <1>4 DEF Judged
<1>. HIDE DEF c, text, m, n
<1>6. Judged(c, f, text) \in {Judged(c, e, text), "pass"}
  BY <1>3, <1>5
<1>7. Verdict(c, f, text) \in {Verdict(c, e, text), "pass"}
  BY <1>6 DEF Verdict
<1>. QED
  BY <1>2, <1>7

\* The points for evidence and criteria, of c half credits for n requirements and p of f criteria.
EvidencePart(n, f, c) == IF n = 0 THEN 0 ELSE Rounded(c * (IF f = 0 THEN 80 ELSE 50), 2 * n)
FactualPart(n, f, p) == IF f = 0 THEN 0 ELSE Rounded(p * (IF n = 0 THEN 80 ELSE 30), f)

\* More credit, more criteria that count, each of them met: no fewer points.
LEMMA PartsGrow ==
  ASSUME NEW n \in Nat, NEW f \in Nat, NEW c \in 0..2 * n, NEW d \in 0..2 * n, c <= d,
         NEW p \in 0..f, NEW b \in Nat, NEW q \in 0..f + b, p + b <= q
  PROVE  EvidencePart(n, f, c) + FactualPart(n, f, p) <= EvidencePart(n, f + b, d) + FactualPart(n, f + b, q)
<1> DEFINE g == f + b
<1>1. g \in Nat /\ q \in 0..g /\ (g = 0 <=> f = 0 /\ b = 0)
  OBVIOUS
<1>2. n # 0 => 2 * n \in Nat /\ 2 * n > 0
  OBVIOUS
<1>3. \A x, y, h \in Nat : h > 0 /\ x <= y => Rounded(x, h) <= Rounded(y, h) /\ Rounded(x, h) \in Nat /\ Rounded(y, h) \in Nat
  <2>. SUFFICES ASSUME NEW x \in Nat, NEW y \in Nat, NEW h \in Nat, h > 0, x <= y
                PROVE  Rounded(x, h) <= Rounded(y, h) /\ Rounded(x, h) \in Nat /\ Rounded(y, h) \in Nat
    OBVIOUS
  <2>1. x * h <= y * h
    BY SMT
  <2>2. Rounded(x, h) <= Rounded(y, h)
    BY <2>1, RoundedMonotone
  <2>3. \A z \in Nat : Rounded(z, h) \in Nat
    BY DEF Rounded
  <2>. QED
    BY <2>2, <2>3
<1>4. ASSUME NEW M \in Nat, f # 0
      PROVE  /\ Rounded(p * M, f) <= Rounded(q * M, g)
             /\ Rounded(p * M, f) \in Nat /\ Rounded(q * M, g) \in Nat
  <2>1. p * M \in Nat /\ q * M \in Nat /\ f > 0 /\ g > 0
    BY <1>1, <1>4
  <2>2. p * g <= q * f
    <3>1. p * b \in Nat /\ p * b <= f * b /\ p * f \in Nat
      BY SMT
    <3>2. p * g = p * f + p * b
      OBVIOUS
    <3>3. (p + b) * f = p * f + f * b
      OBVIOUS
    <3>4. (p + b) * f <= q * f
      BY SMT
    <3>. HIDE DEF g
    <3>. QED
      BY <3>1, <3>2, <3>3, <3>4
  <2>3. (p * M) * g <= (q * M) * f
    <3>1. \A x, y, z \in Nat : x <= y => x * z <= y * z
      OBVIOUS
    <3>2. p * g \in Nat /\ q * f \in Nat
      BY <1>1
    <3>3. (p * g) * M <= (q * f) * M
      BY <2>2, <3>1, <3>2
    <3>4. (p * M) * g = (p * g) * M /\ (q * M) * f = (q * f) * M
      BY <1>1
    <3>. QED
      BY <3>3, <3>4
  <2>. HIDE DEF g
  <2> DEFINE x == p * M
             y == q * M
  <2>4. x \in Nat /\ y \in Nat /\ x * g <= y * f
    BY <2>1, <2>3
  <2>. HIDE DEF x, y
  <2>5. Rounded(x, f) <= Rounded(y, g)
    BY <1>1, <2>1, <2>4, RoundedMonotone
  <2>6. Rounded(x, f) \in Nat /\ Rounded(y, g) \in Nat
    BY <1>1, <1>3, <2>1, <2>4
  <2>. QED
    BY <2>5, <2>6 DEF x, y
<1>5. CASE n = 0
  <2>1. CASE f = 0
    <3>1. EvidencePart(n, f, c) = 0 /\ FactualPart(n, f, p) = 0 /\ EvidencePart(n, g, d) = 0
      BY <1>5, <2>1 DEF EvidencePart, FactualPart
    <3>2. FactualPart(n, g, q) \in Nat
      <4>1. CASE g = 0
        BY <4>1 DEF FactualPart
      <4>2. CASE g # 0
        <5>1. q * 80 \in Nat /\ g > 0 /\ q * 80 <= q * 80
          BY <1>1, <4>2
        <5>2. FactualPart(n, g, q) = Rounded(q * 80, g)
          BY <1>5, <4>2 DEF FactualPart
        <5>. HIDE DEF g
        <5>. QED
          BY <1>1, <1>3, <5>1, <5>2
      <4>. QED
        BY <4>1, <4>2
    <3>. QED
      BY <3>1, <3>2
  <2>2. CASE f # 0
    <3>1. g # 0
      BY <2>2
    <3>2. /\ EvidencePart(n, f, c) = 0 /\ EvidencePart(n, g, d) = 0
          /\ FactualPart(n, f, p) = Rounded(p * 80, f)
          /\ FactualPart(n, g, q) = Rounded(q * 80, g)
      BY <1>5, <2>2, <3>1 DEF EvidencePart, FactualPart
    <3>3. /\ Rounded(p * 80, f) <= Rounded(q * 80, g)
          /\ Rounded(p * 80, f) \in Nat /\ Rounded(q * 80, g) \in Nat
      BY <1>4, <2>2
    <3>. QED
      BY <3>2, <3>3
  <2>. QED
    BY <2>1, <2>2
<1>6. CASE n # 0
  <2> DEFINE h == 2 * n
  <2>1. h \in Nat /\ h > 0 /\ c \in 0..h /\ d \in 0..h
    BY <1>6
  <2>. HIDE DEF h
  <2>2. c * 50 \in Nat /\ d * 50 \in Nat /\ c * 80 \in Nat /\ d * 80 \in Nat
        /\ c * 50 <= d * 50 /\ c * 80 <= d * 80
    BY <2>1
  <2>3. CASE f # 0
    <3>1. g # 0
      BY <2>3
    <3>2. /\ EvidencePart(n, f, c) = Rounded(c * 50, h) /\ EvidencePart(n, g, d) = Rounded(d * 50, h)
          /\ FactualPart(n, f, p) = Rounded(p * 30, f)
          /\ FactualPart(n, g, q) = Rounded(q * 30, g)
      BY <1>6, <2>3, <3>1 DEF EvidencePart, FactualPart, h
    <3>3. /\ Rounded(p * 30, f) <= Rounded(q * 30, g)
          /\ Rounded(p * 30, f) \in Nat /\ Rounded(q * 30, g) \in Nat
      BY <1>4, <2>3
    <3>4. /\ Rounded(c * 50, h) <= Rounded(d * 50, h)
          /\ Rounded(c * 50, h) \in Nat /\ Rounded(d * 50, h) \in Nat
      BY <1>3, <2>1, <2>2
    <3>. QED
      BY <3>2, <3>3, <3>4
  <2>4. CASE f = 0 /\ b = 0
    <3>1. /\ EvidencePart(n, f, c) = Rounded(c * 80, h) /\ EvidencePart(n, g, d) = Rounded(d * 80, h)
          /\ FactualPart(n, f, p) = 0 /\ FactualPart(n, g, q) = 0
      BY <1>1, <1>6, <2>4 DEF EvidencePart, FactualPart, h
    <3>2. /\ Rounded(c * 80, h) <= Rounded(d * 80, h)
          /\ Rounded(c * 80, h) \in Nat /\ Rounded(d * 80, h) \in Nat
      BY <1>3, <2>1, <2>2
    <3>. QED
      BY <3>1, <3>2
  <2>5. CASE f = 0 /\ b # 0
    <3>1. g # 0 /\ q = g /\ p = 0
      BY <2>5
    <3>2. /\ EvidencePart(n, f, c) = Rounded(c * 80, h) /\ EvidencePart(n, g, d) = Rounded(d * 50, h)
          /\ FactualPart(n, f, p) = 0 /\ FactualPart(n, g, q) = Rounded(g * 30, g)
      BY <1>6, <2>5, <3>1 DEF EvidencePart, FactualPart, h
    <3>3. Rounded(g * 30, g) = 30
      <4>1. Rounded(0 + 30 * g, g) = Rounded(0, g) + 30
        <5>1. g \in Nat /\ g > 0
          BY <1>1, <3>1
        <5>. HIDE DEF g
        <5> DEFINE o == 0
        <5>2. o \in Nat
          OBVIOUS
        <5>. HIDE DEF o
        <5>3. Rounded(o + 30 * g, g) = Rounded(o, g) + 30
          BY <5>1, <5>2, RoundedPlus
        <5>. QED
          BY <5>3 DEF o
      <4>2. Rounded(0, g) = 0
        <5>1. g \in Nat /\ g > 0
          BY <1>1, <3>1
        <5>. HIDE DEF g
        <5>2. 0 \div g = 0 /\ 0 % g = 0
          BY <5>1
        <5>. QED
          BY <5>1, <5>2 DEF Rounded
      <4>3. 0 + 30 * g = g * 30
        BY <1>1
      <4>. HIDE DEF g
      <4>. QED
        BY <4>1, <4>2, <4>3
    <3>4. Rounded(d * 50 + 30 * h, h) = Rounded(d * 50, h) + 30
      <4> DEFINE o == d * 50
      <4>1. o \in Nat
        BY <2>2
      <4>. HIDE DEF o
      <4>2. Rounded(o + 30 * h, h) = Rounded(o, h) + 30
        BY <2>1, <4>1, RoundedPlus
      <4>. QED
        BY <4>2 DEF o
    <3>5. c * 80 <= d * 50 + 30 * h /\ d * 50 + 30 * h \in Nat
      BY <2>1
    <3>6. /\ Rounded(c * 80, h) <= Rounded(d * 50 + 30 * h, h)
          /\ Rounded(c * 80, h) \in Nat
      BY <1>3, <2>1, <2>2, <3>5
    <3>7. Rounded(d * 50, h) \in Nat
      BY <1>3, <2>1, <2>2
    <3>. QED
      BY <3>2, <3>3, <3>4, <3>6, <3>7
  <2>. QED
    BY <2>3, <2>4, <2>5
<1>. QED
  BY <1>5, <1>6

\* Better answers and better verdicts are worth no fewer points, if anything is there.
LEMMA PointsGrow ==
  ASSUME NEW asked, Typed(asked), NEW old, NEW new, Items(new) # <<>>,
         NEW k, NEW e \in [1..Len(asked.reqs) -> EvidenceAnswer(k)],
         NEW l, NEW f \in [1..Len(asked.reqs) -> EvidenceAnswer(l)],
         \A i \in 1..Len(asked.reqs) : HalfCredit(e[i].outcome) <= HalfCredit(f[i].outcome),
         NEW v \in [1..Len(asked.criteria) -> CheckOutcome],
         NEW w \in [1..Len(asked.criteria) -> CheckOutcome],
         \A i \in 1..Len(asked.criteria) : Factual(asked.criteria[i]) => w[i] \in {v[i], "pass"}
  PROVE  Total(Points(asked, old, e, v)) <= Total(Points(asked, new, f, w))
<1> DEFINE R == RequiredReqs(asked)
           C == Counted(asked, v)
           D == Counted(asked, w)
           P == {i \in C : v[i] = "pass"}
           Q == {i \in D : w[i] = "pass"}
           B == D \ C
           x == Points(asked, old, e, v)
           y == Points(asked, new, f, w)
           n == Cardinality(R)
           c == MapThenSumSet(LAMBDA i : HalfCredit(e[i].outcome), R)
           d == MapThenSumSet(LAMBDA i : HalfCredit(f[i].outcome), R)
           S == FailedDeliverables(asked, old, e) \cap {"content_present", "content_substantive"}
           T == FailedDeliverables(asked, new, f) \cap {"content_present", "content_substantive"}
<1>1. Scored(asked, e, v, x, Maxima(R, C)) /\ Scored(asked, f, w, y, Maxima(R, D))
  BY PointsFacts
<1>2. /\ IsFiniteSet(R) /\ n \in Nat
      /\ IsFiniteSet(C) /\ Cardinality(C) \in Nat /\ IsFiniteSet(D) /\ Cardinality(D) \in Nat
  <2>1. IsFiniteSet(R) /\ IsFiniteSet(C) /\ IsFiniteSet(D)
    BY <1>1 DEF Scored
  <2>. HIDE DEF R, C, D
  <2>. QED
    BY <2>1, FS_CardinalityType
<1>3. R \subseteq 1..Len(asked.reqs)
  BY LenProperties DEF Typed, RequiredReqs
<1>4. C \subseteq D /\ P \subseteq C /\ Q \subseteq D /\ P \cup B \subseteq Q /\ P \cap B = {} /\ C \cap B = {} /\ D = C \cup B
  <2>1. /\ C = {i \in 1..Len(asked.criteria) : Factual(asked.criteria[i]) /\ v[i] # "not_applicable"}
        /\ D = {i \in 1..Len(asked.criteria) : Factual(asked.criteria[i]) /\ w[i] # "not_applicable"}
    BY DEF Counted
  <2>2. \A i \in C : i \in D /\ (v[i] = "pass" => w[i] = "pass")
    BY <2>1
  <2>3. \A i \in D : i \notin C => w[i] = "pass"
    BY <2>1
  <2>. HIDE DEF C, D
  <2>. QED
    BY <2>2, <2>3
<1>5. /\ x.evidence = IF R = {} THEN 0 ELSE Rounded(c * Maxima(R, C).evidence, 2 * n)
      /\ x.factual = IF C = {} THEN 0 ELSE Rounded(Cardinality(P) * Maxima(R, C).factual, Cardinality(C))
      /\ x.deliverables = 20 - 10 * Cardinality(S)
      /\ x.unverifiable = 0
  BY DEF Points
<1>6. /\ y.evidence = IF R = {} THEN 0 ELSE Rounded(d * Maxima(R, D).evidence, 2 * n)
      /\ y.factual = IF D = {} THEN 0 ELSE Rounded(Cardinality(Q) * Maxima(R, D).factual, Cardinality(D))
      /\ y.deliverables = 20 - 10 * Cardinality(T)
      /\ y.unverifiable = 0
  BY DEF Points
<1>7. c \in 0..2 * n /\ d \in 0..2 * n /\ c <= d
  <2> DEFINE a == Halves(e, R)
             b == Halves(f, R)
  <2>1. c = Sum(a, R) /\ d = Sum(b, R)
    BY <1>2, CreditSum
  <2>2. \A i \in R : a[i] \in 0..2 /\ b[i] \in 0..2 /\ a[i] <= b[i]
    <3>. SUFFICES ASSUME NEW i \in R
                  PROVE  a[i] \in 0..2 /\ b[i] \in 0..2 /\ a[i] <= b[i]
      OBVIOUS
    <3>1. i \in 1..Len(asked.reqs)
      BY <1>3
    <3>2. e[i].outcome \in EvidenceOutcome /\ f[i].outcome \in EvidenceOutcome
      BY <3>1 DEF EvidenceAnswer
    <3>3. a[i] = HalfCredit(e[i].outcome) /\ b[i] = HalfCredit(f[i].outcome)
      BY DEF Halves
    <3>4. \A o \in EvidenceOutcome : HalfCredit(o) \in 0..2
      BY DEF HalfCredit, EvidenceOutcome
    <3>. QED
      BY <3>1, <3>2, <3>3, <3>4
  <2>. HIDE DEF a, b, c, d, R
  <2>3. Sum(a, R) \in 0..2 * n /\ Sum(b, R) \in 0..2 * n
    BY <1>2, <2>2, SumAtMostTwice
  <2>4. Sum(a, R) <= Sum(b, R)
    <3>1. \A i \in R : a[i] \in Nat /\ b[i] \in Nat /\ a[i] <= b[i]
      BY <2>2
    <3>. QED
      BY <1>2, <3>1, SumGrows
  <2>. QED
    BY <2>1, <2>3, <2>4
<1>. HIDE DEF R, C, D, x, y, c, d, S, T
<1> DEFINE g == Cardinality(C)
           b == Cardinality(B)
           p == Cardinality(P)
           q == Cardinality(Q)
<1>8. g \in Nat /\ b \in Nat /\ p \in 0..g /\ q \in 0..g + b /\ p + b <= q /\ Cardinality(D) = g + b
  <2>1. IsFiniteSet(B) /\ IsFiniteSet(P) /\ IsFiniteSet(Q) /\ p <= g /\ q <= Cardinality(D)
    <3>1. B \in SUBSET D /\ P \in SUBSET C /\ Q \in SUBSET D
      OBVIOUS
    <3>. HIDE DEF B, P, Q
    <3>. QED
      BY <1>2, <3>1, FS_Subset
  <2>. HIDE DEF B, P, Q
  <2>2. b \in Nat /\ p \in Nat /\ q \in Nat /\ g \in Nat
    BY <1>2, <2>1, FS_CardinalityType
  <2>3. Cardinality(C \cup B) = g + b
    BY <1>2, <1>4, <2>1, Disjoint
  <2>4. IsFiniteSet(P \cup B) /\ Cardinality(P \cup B) = p + b
    BY <1>4, <2>1, Disjoint
  <2>5. Cardinality(P \cup B) <= q
    BY <1>4, <2>1, FS_Subset
  <2>6. Cardinality(D) = g + b
    BY <1>4, <2>3
  <2>. HIDE DEF g, b, p, q
  <2>. QED
    BY <2>1, <2>2, <2>4, <2>5, <2>6
<1>9. (n = 0 <=> R = {}) /\ (g = 0 <=> C = {}) /\ (g + b = 0 <=> D = {})
  <2>1. Cardinality(D) = g + b
    BY <1>8
  <2>2. (Cardinality(R) = 0 <=> R = {}) /\ (Cardinality(C) = 0 <=> C = {}) /\ (Cardinality(D) = 0 <=> D = {})
    BY <1>2, FS_EmptySet
  <2>. QED
    BY <2>1, <2>2
<1>. HIDE DEF B, P, Q, n, g, b, p, q
<1>10. x.evidence = EvidencePart(n, g, c) /\ x.factual = FactualPart(n, g, p)
  BY <1>5, <1>9 DEF EvidencePart, FactualPart, Maxima, g, p
<1>11. y.evidence = EvidencePart(n, g + b, d) /\ y.factual = FactualPart(n, g + b, q)
  <2>1. Cardinality(D) = g + b
    BY <1>8
  <2> DEFINE h == g + b
  <2>2. /\ y.evidence = IF R = {} THEN 0 ELSE Rounded(d * Maxima(R, D).evidence, 2 * n)
        /\ y.factual = IF D = {} THEN 0 ELSE Rounded(q * Maxima(R, D).factual, h)
        /\ n = 0 <=> R = {}
        /\ h = 0 <=> D = {}
    BY <1>6, <1>9, <2>1 DEF q
  <2>. HIDE DEF h
  <2>3. y.evidence = EvidencePart(n, h, d) /\ y.factual = FactualPart(n, h, q)
    BY <2>2 DEF EvidencePart, FactualPart, Maxima
  <2>. QED
    BY <2>3 DEF h
<1>12. x.evidence + x.factual <= y.evidence + y.factual
  <2>1. EvidencePart(n, g, c) + FactualPart(n, g, p) <= EvidencePart(n, g + b, d) + FactualPart(n, g + b, q)
    BY <1>2, <1>7, <1>8, PartsGrow DEF n
  <2>. QED
    BY <1>10, <1>11, <2>1
<1>13. x \in ScoreComponents /\ y \in ScoreComponents /\ x.deliverables <= 20
  <2>1. x \in ScoreComponents /\ y \in ScoreComponents /\ Maxima(R, C) \in ScoreComponents
        /\ \A part \in DOMAIN Maxima(R, C) : x[part] <= Maxima(R, C)[part]
    BY <1>1 DEF Scored, R
  <2>2. "deliverables" \in DOMAIN Maxima(R, C) /\ Maxima(R, C).deliverables = 20
    BY DEF Maxima
  <2>. QED
    BY <2>1, <2>2
<1>14. y.deliverables = 20
  <2>1. T = {}
    <3>. SUFFICES ASSUME NEW name \in T
                  PROVE  FALSE
      OBVIOUS
    <3>1. name \in FailedDeliverables(asked, new, f) /\ name \in {"content_present", "content_substantive"}
      BY DEF T
    <3>. QED
      BY <3>1 DEF FailedDeliverables
  <2>2. Cardinality(T) = 0
    BY <2>1, FS_EmptySet
  <2>. QED
    BY <1>6, <2>2
<1> DEFINE xe == x.evidence
           xf == x.factual
           xd == x.deliverables
           ye == y.evidence
           yf == y.factual
<1>15. /\ xe \in 0..100 /\ xf \in 0..100 /\ xd \in 0..100 /\ xd <= 20
       /\ ye \in 0..100 /\ yf \in 0..100
       /\ xe + xf <= ye + yf
  BY <1>12, <1>13 DEF ScoreComponents
<1>16. /\ Total(x) = IF xe + xf + xd + 0 > 100 THEN 100 ELSE xe + xf + xd + 0
       /\ Total(y) = IF ye + yf + 20 + 0 > 100 THEN 100 ELSE ye + yf + 20 + 0
  BY <1>5, <1>6, <1>14 DEF Total
<1>. HIDE DEF xe, xf, xd, ye, yf
<1>17. Total(x) <= Total(y)
  <2> DEFINE r == xe + xf
             s == ye + yf
  <2>1. r \in Nat /\ s \in Nat /\ r <= s /\ xd \in 0..20
    BY <1>15
  <2>2. /\ Total(x) = IF r + xd > 100 THEN 100 ELSE r + xd
        /\ Total(y) = IF s + 20 > 100 THEN 100 ELSE s + 20
    BY <1>15, <1>16
  <2>. HIDE DEF r, s
  <2>3. CASE r + xd > 100
    BY <2>1, <2>2, <2>3
  <2>4. CASE ~(r + xd > 100)
    BY <2>1, <2>2, <2>4
  <2>. QED
    BY <2>3, <2>4
<1>. QED
  BY <1>17 DEF x, y

\* b finds all that a does, and is worth no less where no constraint is asked for.
CostsNothing(asked, a, b) ==
  /\ \A i \in DOMAIN asked.reqs : b.evidence[i].outcome = "missing" => a.evidence[i].outcome = "missing"
  /\ (\A i \in DOMAIN asked.reqs : asked.reqs[i].constraints = {}) => b.score >= a.score

\* A reference to a new file, made last, costs nothing.
LEMMA ReviewGrows ==
  ASSUME NEW asked, Typed(asked), Linked(asked),
         NEW X, NEW old, old.refs \in Seq(X), NEW new, new.refs \in Seq(X), old.text = new.text,
         NEW ref \in X, ref.place \in Places, Inserted(old.refs, new.refs, Len(old.refs) + 1, ref),
         \A k \in 1..Len(old.refs) : old.refs[k].file # ref.file
  PROVE  CostsNothing(asked, ReviewOf(asked, old), ReviewOf(asked, new))
<1> DEFINE n == Len(asked.reqs)
           c == Len(asked.criteria)
           s == Items(old)
           t == Items(new)
           e == Evidence(asked, old)
           f == Evidence(asked, new)
           v == Verdicts(asked, old, e)
           w == Verdicts(asked, new, f)
           a == ReviewOf(asked, old)
           b == ReviewOf(asked, new)
<1>1. PICK m : Inserted(s, t, m, ref)
  BY ItemsGrow
<1>2. s \in Seq(X) /\ t \in Seq(X)
  BY ItemsFacts
<1>3. DOMAIN asked.reqs = 1..n /\ DOMAIN asked.criteria = 1..c
  BY LenProperties DEF Typed
<1>4. e = Answers(asked.reqs, s, old.text) /\ f = Answers(asked.reqs, t, old.text)
  BY DEF Evidence
<1>. HIDE DEF s, t, e, f
<1>5. \A i \in 1..n : NoWorse(e[i], f[i], asked.reqs[i])
  <2>1. \A i \in 1..n : NoWorse(Answers(asked.reqs, s, old.text)[i], Answers(asked.reqs, t, old.text)[i], asked.reqs[i])
    BY <1>1, <1>2, AnswersGrow DEF Typed
  <2>. QED
    BY <1>4, <2>1
<1>6. e \in [1..n -> EvidenceAnswer(Len(s))] /\ f \in [1..n -> EvidenceAnswer(Len(t))]
  <2>1. WellMatched(e, asked.reqs, s) /\ WellMatched(f, asked.reqs, t)
    BY <1>2, <1>4, AnswersFacts DEF Typed
  <2>. QED
    BY <2>1 DEF WellMatched
<1>7. \A i \in 1..n : f[i].outcome = "missing" => e[i].outcome = "missing"
  BY <1>5 DEF NoWorse
<1>8. v \in [1..c -> CheckOutcome] /\ w \in [1..c -> CheckOutcome]
  BY <1>3 DEF Verdicts, Verdict, Judged, CheckOutcome
<1>9. \A i \in 1..c : Factual(asked.criteria[i]) => w[i] \in {v[i], "pass"}
  BY <1>7, VerdictsGrow
<1>10. /\ a.evidence = e /\ b.evidence = f
       /\ a.score = Total(Points(asked, old, e, v)) /\ b.score = Total(Points(asked, new, f, w))
  BY DEF ReviewOf, e, f
<1>11. t # <<>>
  <2>1. Len(t) = Len(s) + 1 /\ Len(s) \in Nat
    BY <1>1, <1>2, LenProperties DEF Inserted
  <2>. QED
    BY <2>1
<1>12. a.score \in 0..100 /\ b.score \in 0..100
  <2>1. WellReviewed(asked, old, a) /\ WellReviewed(asked, new, b)
    BY ReviewFacts
  <2>. QED
    BY <2>1 DEF WellReviewed, SubmissionReview
<1>. HIDE DEF v, w, a, b
<1>13. ASSUME \A i \in 1..n : asked.reqs[i].constraints = {}
       PROVE  a.score <= b.score
  <2>1. \A i \in 1..n : HalfCredit(e[i].outcome) <= HalfCredit(f[i].outcome)
    BY <1>5, <1>13 DEF NoWorse
  <2>2. Items(new) # <<>>
    BY <1>11 DEF t
  <2>3. Total(Points(asked, old, e, v)) <= Total(Points(asked, new, f, w))
    BY <1>6, <1>8, <1>9, <2>1, <2>2, PointsGrow
  <2>. QED
    BY <1>10, <2>3
<1>14. CostsNothing(asked, a, b)
  BY <1>3, <1>7, <1>10, <1>12, <1>13 DEF CostsNothing
<1>. QED
  BY <1>14 DEF a, b

\* A file that was not referred to before turns nothing that was there into something missing,
\* however the files change the requirements they answer, and lowers no score but by constraints:
\* rules.py's evaluate_evidence, evaluate_criteria and score as a worker adds to a submission.
THEOREM MoreIsNoWorse == Spec => AttachNeverCosts
<1> DEFINE Free == LET n == Len(submissions')
                       before == reviews[n]
                       after == reviews'[n]
                       added == Last(submissions'[n].refs)
                   IN n > 0 /\ n = Len(submissions) /\ added.file \notin {submissions[n].refs[k].file : k \in DOMAIN submissions[n].refs} =>
                        /\ \A i \in DOMAIN contract.reqs :
                             after.evidence[i].outcome = "missing" => before.evidence[i].outcome = "missing"
                        /\ Unconstrained => after.score >= before.score
<1>1. ASSUME RankingInv, [Next]_vars
      PROVE  [Free]_vars
  <2> DEFINE L == Len(submissions)
  <2>1. /\ L \in Nat /\ DOMAIN submissions = 1..L
        /\ Typed(contract)
        /\ \A n \in 1..L : /\ submissions[n] \in Submitted
                           /\ reviews[n] = ReviewOf(contract, submissions[n])
                           /\ WellReviewed(contract, submissions[n], reviews[n])
    BY <1>1, ReviewsFacts
  <2>2. ASSUME UNCHANGED <<submissions, reviews>>
        PROVE  Free
    <3>. SUFFICES ASSUME L > 0
                  PROVE  reviews[L].score >= reviews[L].score
      BY <2>2
    <3>1. reviews[L].score \in 0..100
      <4>1. WellReviewed(contract, submissions[L], reviews[L])
        BY <2>1
      <4>. QED
        BY <4>1 DEF WellReviewed, SubmissionReview
    <3> DEFINE score == reviews[L].score
    <3>2. score \in 0..100
      BY <3>1
    <3>. HIDE DEF score
    <3>3. score >= score
      BY <3>2
    <3>. QED
      BY <3>3 DEF score
  <2>3. ASSUME HandIn
        PROVE  Free
    <3>1. PICK s : submissions' = Append(submissions, s)
      BY <2>3 DEF HandIn, List
    <3>2. Len(submissions') = L + 1
      BY <2>1, <3>1
    <3>3. ~(Len(submissions') = Len(submissions))
      <4>1. L \in Nat
        BY <2>1
      <4>2. \A k \in Nat : k + 1 # k
        OBVIOUS
      <4>3. L + 1 # L
        BY <4>1, <4>2
      <4>. QED
        BY <3>2, <4>3
    <3>. QED
      BY <3>3
  <2>4. ASSUME NEW ref \in Refs, Attach(ref)
        PROVE  Free
    <3> DEFINE old == submissions[L]
               new == submissions'[L]
    <3>1. /\ L \in 1..L
          /\ submissions' = [submissions EXCEPT ![L].refs = Append(@, ref)]
          /\ reviews' = [n \in DOMAIN submissions' |-> ReviewOf(contract, submissions'[n])]
      BY <2>1, <2>4 DEF Attach, List
    <3>2. old \in Submitted /\ old.refs \in Seq(Refs)
      BY <2>1, <3>1 DEF Submitted
    <3>3. new.refs = Append(old.refs, ref) /\ new.text = old.text
      BY <2>1, <3>1, <3>2 DEF Submitted
    <3>4. submissions \in Seq(Submitted)
      BY <1>1 DEF RankingInv
    <3>5. Len(submissions') = L /\ DOMAIN submissions' = 1..L
      BY <2>1, <3>1, <3>4
    <3>6. reviews[L] = ReviewOf(contract, old) /\ reviews'[L] = ReviewOf(contract, new)
      BY <2>1, <3>1, <3>5
    <3>. HIDE DEF old, new
    <3>7. new.refs \in Seq(Refs) /\ Inserted(old.refs, new.refs, Len(old.refs) + 1, ref)
      BY <3>2, <3>3, InsertedLast
    <3>8. Last(new.refs) = ref /\ DOMAIN old.refs = 1..Len(old.refs)
      <4>1. /\ Len(new.refs) = Len(old.refs) + 1
            /\ new.refs[Len(old.refs) + 1] = ref
        BY <3>2, <3>3, AppendProperties
      <4>2. Last(new.refs) = new.refs[Len(new.refs)]
        BY DEF Last
      <4>. QED
        BY <3>2, <4>1, <4>2, LenProperties
    <3>9. ref.place \in Places
      BY DEF Refs
    <3>10. Linked(contract)
      <4>1. CASE contract = NoContract
        BY <4>1 DEF Linked, NoContract
      <4>2. CASE SpecAccepted(contract)
        BY <2>1, <4>2, LenProperties DEF Linked, SpecAccepted, Typed
      <4>. QED
        BY <1>1, <4>1, <4>2 DEF RankingInv, ContractTyped
    <3>11. ASSUME \A k \in 1..Len(old.refs) : old.refs[k].file # ref.file
           PROVE  CostsNothing(contract, ReviewOf(contract, old), ReviewOf(contract, new))
      BY <2>1, <3>2, <3>3, <3>7, <3>9, <3>10, <3>11, ReviewGrows
    <3>12. ASSUME ref.file \notin {old.refs[k].file : k \in DOMAIN old.refs}
           PROVE  CostsNothing(contract, reviews[L], reviews'[L])
      BY <3>6, <3>8, <3>11, <3>12
    <3>13. Len(submissions') = L /\ Last(submissions'[L].refs) = ref
      BY <3>5, <3>8 DEF new
    <3>. QED
      BY <3>12, <3>13 DEF CostsNothing, Unconstrained, old
  <2>5. IntakeNext /\ UNCHANGED <<submissions, reviews>> => UNCHANGED <<submissions, reviews>>
    OBVIOUS
  <2>. HIDE DEF Free
  <2>. QED
    BY <1>1, <2>2, <2>3, <2>4 DEF Next
<1>. QED
  BY <1>1, RankingInvariance, PTL DEF Spec, AttachNeverCosts
=============================================================================
