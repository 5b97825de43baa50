----------------------------- MODULE AnalysisProofs -----------------------------
(***************************************************************************)
(* Proofs about how sessions are attributed and analysed: the retention,   *)
(* attribution and funnel queries, the diagram of user paths, and the pool *)
(* of worker threads that compute attributions.  They hold for any visits, *)
(* rows, funnels, windows, ranges, edges, parallelism, number of           *)
(* computations and faults.                                                *)
(***************************************************************************)
EXTENDS AttributionWorkerPool, RetentionAnalysis, FunnelAnalysis, AttributionAnalysis, UserPath,
        TLAPS, WellFoundedInduction, NaturalsInduction, FiniteSetTheorems

-----------------------------------------------------------------------------
(* Numbers and sums.  The provers have no induction over data: of a fact   *)
(* about all finite sets, or all numbers, the smallest exception is shown  *)
(* not to be one.                                                          *)
LEMMA Smallest ==
  ASSUME NEW T \in SUBSET Nat, T # {}
  PROVE  \E x \in T : \A y \in T : x <= y
<1>1. PICK x \in T : \A y \in T : ~(<<y, x>> \in OpToRel(<, Nat))
  BY NatLessThanWellFounded, WFMin
<1>2. ASSUME NEW y \in T PROVE x <= y
  <2>1. ~(<<y, x>> \in {ss \in Nat \X Nat : ss[1] < ss[2]})
    BY <1>1 DEF OpToRel
  <2> QED
    BY <2>1
<1> QED
  BY <1>2

(* Folds.  Of the subsets of a finite set with some property one holds no  *)
(* other: this is the induction the facts about folds rest on.             *)
LEMMA SmallestSubset ==
  ASSUME NEW S, IsFiniteSet(S), NEW T \in SUBSET (SUBSET S), T # {}
  PROVE  \E s \in T : \A t \in SUBSET s : t # s => t \notin T
<1>1. \A s \in SUBSET S : IsFiniteSet(s) /\ Cardinality(s) \in Nat
  BY FS_Subset, FS_CardinalityType
<1> DEFINE sizes == {Cardinality(s) : s \in T}
<1>2. sizes \in SUBSET Nat /\ sizes # {}
  BY <1>1
<1>3. PICK s \in T : \A t \in T : Cardinality(s) <= Cardinality(t)
  <2>1. PICK n \in sizes : \A m \in sizes : n <= m
    BY <1>2, Smallest
  <2> QED
    BY <2>1
<1>4. ASSUME NEW t \in SUBSET s, t # s PROVE t \notin T
  <2>1. Cardinality(t) < Cardinality(s)
    BY <1>1, <1>4, FS_Subset
  <2> QED
    BY <1>1, <1>3, <2>1
<1> QED
  BY <1>3, <1>4

(* A fold over the subsets of S: b for the empty set, else what G makes of *)
(* the element ch takes and the fold of the others.                        *)
IsFold(h, D, b, ch, G) ==
  \A s \in D : h[s] = IF s = {} THEN b ELSE G[<<ch[s], h[s \ {ch[s]}]>>]

(* There is one.                                                           *)
LEMMA FoldExists ==
  ASSUME NEW S, IsFiniteSet(S), NEW B, NEW b \in B,
         NEW ch, \A s \in SUBSET S : s # {} => ch[s] \in s,
         NEW G, \A x \in S, y \in B : G[<<x, y>>] \in B
  PROVE  \E h \in [SUBSET S -> B] : IsFold(h, SUBSET S, b, ch, G)
<1>1. \A s \in SUBSET S : IsFiniteSet(s) /\ Cardinality(s) \in Nat
  BY FS_Subset, FS_CardinalityType
<1> DEFINE D(n) == {s \in SUBSET S : Cardinality(s) <= n}
           Good(n) == \E h \in [D(n) -> B] : IsFold(h, D(n), b, ch, G)
           bad == {n \in Nat : ~Good(n)}
<1>2. Good(0)
  <2>1. \A s \in D(0) : s = {}
    BY <1>1, FS_EmptySet
  <2>2. IsFold([s \in D(0) |-> b], D(0), b, ch, G)
    BY <2>1 DEF IsFold
  <2> QED
    BY <2>2
<1>3. ASSUME NEW n \in Nat, Good(n) PROVE Good(n + 1)
  <2>1. PICK h \in [D(n) -> B] : IsFold(h, D(n), b, ch, G)
    BY <1>3
  <2> DEFINE k == [s \in D(n + 1) |-> IF s \in D(n) THEN h[s] ELSE G[<<ch[s], h[s \ {ch[s]}]>>]]
  <2>2. ASSUME NEW s \in D(n + 1), s # {}
        PROVE  ch[s] \in S /\ s \ {ch[s]} \in D(n)
    <3>1. Cardinality(s \ {ch[s]}) = Cardinality(s) - 1
      BY <1>1, <2>2, FS_RemoveElement
    <3> QED
      BY <1>1, <2>2, <3>1
  <2>3. {} \in D(n) /\ D(n) \subseteq D(n + 1)
    BY <1>1, FS_EmptySet
  <2>4. k \in [D(n + 1) -> B]
    BY <2>2, <2>3
  <2>5. ASSUME NEW s \in D(n + 1)
        PROVE  k[s] = IF s = {} THEN b ELSE G[<<ch[s], k[s \ {ch[s]}]>>]
    <3>1. CASE s = {}
      BY <2>1, <2>3, <3>1 DEF IsFold
    <3>2. CASE s # {}
      <4>1. k[s \ {ch[s]}] = h[s \ {ch[s]}]
        BY <2>2, <2>3, <3>2
      <4>2. k[s] = G[<<ch[s], h[s \ {ch[s]}]>>]
        BY <2>1, <3>2 DEF IsFold
      <4> QED
        BY <3>2, <4>1, <4>2
    <3> QED
      BY <3>1, <3>2
  <2> QED
    BY <2>4, <2>5 DEF IsFold
<1> HIDE DEF Good
<1>4. bad = {}
  <2> SUFFICES ASSUME bad # {} PROVE FALSE
    OBVIOUS
  <2>1. PICK n \in bad : \A m \in bad : n <= m
    BY Smallest
  <2>2. n # 0 /\ n \in Nat
    BY <1>2
  <2>3. Good(n - 1)
    BY <2>1, <2>2
  <2> QED
    BY <1>3, <2>2, <2>3
<1>5. Good(Cardinality(S))
  BY <1>1, <1>4
<1>6. D(Cardinality(S)) = SUBSET S
  BY <1>1, FS_Subset
<1>7. PICK h \in [D(Cardinality(S)) -> B] : IsFold(h, D(Cardinality(S)), b, ch, G)
  BY <1>5 DEF Good
<1> HIDE DEF D
<1> QED
  BY <1>6, <1>7

(* It is the only one.                                                     *)
LEMMA FoldUnique ==
  ASSUME NEW S, IsFiniteSet(S), NEW b,
         NEW ch, \A s \in SUBSET S : s # {} => ch[s] \in s,
         NEW G, NEW h, NEW k, IsFold(h, SUBSET S, b, ch, G), IsFold(k, SUBSET S, b, ch, G)
  PROVE  \A s \in SUBSET S : h[s] = k[s]
<1> DEFINE T == {s \in SUBSET S : h[s] # k[s]}
<1> SUFFICES ASSUME T # {} PROVE FALSE
  OBVIOUS
<1>0. T \in SUBSET (SUBSET S)
  OBVIOUS
<1>1. PICK s \in T : \A t \in SUBSET s : t # s => t \notin T
  <2> HIDE DEF T
  <2> QED
    BY <1>0, SmallestSubset
<1>2. s # {}
  BY <1>1 DEF IsFold
<1>3. h[s \ {ch[s]}] = k[s \ {ch[s]}]
  BY <1>1, <1>2
<1> QED
  BY <1>2, <1>3 DEF IsFold

(* Sums over finite sets.  Any element may be taken first.                 *)
AnyOf(S) == [s \in SUBSET S |-> CHOOSE x \in s : TRUE]
Adding(F, S) == [p \in S \X Nat |-> F[p[1]] + p[2]]

(* The sum of the community module is such a fold.                         *)
LEMMA SumIsFold ==
  ASSUME NEW S, IsFiniteSet(S), NEW F, \A x \in S : F[x] \in Nat
  PROVE  \E h \in [SUBSET S -> Nat] :
           /\ IsFold(h, SUBSET S, 0, AnyOf(S), Adding(F, S))
           /\ SumFunctionOnSet(F, S) = h[S]
<1> DEFINE Eq(h) == h = [s \in SUBSET S |-> IF s = {} THEN 0 ELSE F[CHOOSE x \in s : TRUE] + h[s \ {CHOOSE x \in s : TRUE}]]
           it == CHOOSE h : Eq(h)
<1>1. \A s \in SUBSET S : s # {} => AnyOf(S)[s] \in s
  BY DEF AnyOf
<1>2. \A x \in S, y \in Nat : Adding(F, S)[<<x, y>>] = F[x] + y
  BY DEF Adding
<1>3. PICK g \in [SUBSET S -> Nat] : IsFold(g, SUBSET S, 0, AnyOf(S), Adding(F, S))
  <2>1. ASSUME NEW x \in S, NEW y \in Nat PROVE Adding(F, S)[<<x, y>>] \in Nat
    <3>1. F[x] + y \in Nat
      OBVIOUS
    <3> QED
      BY <1>2, <3>1
  <2>2. 0 \in Nat
    OBVIOUS
  <2> QED
    BY <1>1, <2>1, <2>2, FoldExists
<1>4. ASSUME NEW h \in [SUBSET S -> Nat]
      PROVE  IsFold(h, SUBSET S, 0, AnyOf(S), Adding(F, S)) <=> Eq(h)
  <2>1. ASSUME NEW s \in SUBSET S, s # {}
        PROVE  Adding(F, S)[<<AnyOf(S)[s], h[s \ {AnyOf(S)[s]}]>>]
                 = F[CHOOSE x \in s : TRUE] + h[s \ {CHOOSE x \in s : TRUE}]
    <3>1. AnyOf(S)[s] = CHOOSE x \in s : TRUE
      BY DEF AnyOf
    <3>2. AnyOf(S)[s] \in S /\ h[s \ {AnyOf(S)[s]}] \in Nat
      BY <1>1, <2>1
    <3> QED
      BY <1>2, <3>1, <3>2
  <2> QED
    BY <2>1 DEF IsFold
<1>5. Eq(it)
  <2>1. Eq(g)
    BY <1>3, <1>4
  <2> HIDE DEF Eq
  <2> QED
    BY <2>1
<1>6. it \in [SUBSET S -> Nat]
  <2>1. DOMAIN it = SUBSET S /\ it = [s \in SUBSET S |-> it[s]]
    BY <1>5
  <2> HIDE DEF it
  <2> DEFINE T == {s \in SUBSET S : it[s] \notin Nat}
  <2>2. T \in SUBSET (SUBSET S)
    OBVIOUS
  <2>3. ASSUME T # {} PROVE FALSE
    <3>1. PICK s \in T : \A t \in SUBSET s : t # s => t \notin T
      <4> HIDE DEF T
      <4> QED
        BY <2>2, <2>3, SmallestSubset
    <3>2. s # {} /\ s \in SUBSET S
      BY <1>5, <3>1
    <3>3. PICK x \in s : x = CHOOSE y \in s : TRUE
      BY <3>2
    <3>4. it[s] = F[x] + it[s \ {x}]
      BY <1>5, <3>2, <3>3
    <3>5. it[s \ {x}] \in Nat
      BY <3>1, <3>2, <3>3
    <3> QED
      BY <3>1, <3>2, <3>3, <3>4, <3>5
  <2> QED
    BY <2>1, <2>3
<1>7. SumFunctionOnSet(F, S) = it[S]
  BY DEF SumFunctionOnSet, FoldFunctionOnSet, MapThenFoldSet
<1> HIDE DEF it, Eq
<1> QED
  BY <1>4, <1>5, <1>6, <1>7

(* Of the same fold, all sums over subsets.                                *)
LEMMA SumOfSubset ==
  ASSUME NEW S, IsFiniteSet(S), NEW F, \A x \in S : F[x] \in Nat,
         NEW h \in [SUBSET S -> Nat], IsFold(h, SUBSET S, 0, AnyOf(S), Adding(F, S))
  PROVE  \A s \in SUBSET S : h[s] = SumFunctionOnSet(F, s)
<1> SUFFICES ASSUME NEW s \in SUBSET S PROVE h[s] = SumFunctionOnSet(F, s)
  OBVIOUS
<1>1. IsFiniteSet(s) /\ \A x \in s : F[x] \in Nat
  BY FS_Subset
<1>2. PICK k \in [SUBSET s -> Nat] :
        IsFold(k, SUBSET s, 0, AnyOf(s), Adding(F, s)) /\ SumFunctionOnSet(F, s) = k[s]
  BY <1>1, SumIsFold
<1>3. \A t \in SUBSET s : t # {} => AnyOf(s)[t] \in t
  BY DEF AnyOf
<1>4. IsFold(h, SUBSET s, 0, AnyOf(s), Adding(F, s))
  <2>1. ASSUME NEW t \in SUBSET s, t # {}
        PROVE  h[t] = Adding(F, s)[<<AnyOf(s)[t], h[t \ {AnyOf(s)[t]}]>>]
    <3>1. AnyOf(s)[t] = AnyOf(S)[t] /\ t \in SUBSET S
      BY DEF AnyOf
    <3>2. PICK x \in t : x = AnyOf(s)[t]
      BY <1>3, <2>1
    <3>3. h[t \ {x}] \in Nat
      BY <3>1
    <3>4. Adding(F, s)[<<x, h[t \ {x}]>>] = Adding(F, S)[<<x, h[t \ {x}]>>]
      BY <3>2, <3>3 DEF Adding
    <3> QED
      BY <2>1, <3>1, <3>2, <3>4 DEF IsFold
  <2>2. h[{}] = 0
    BY DEF IsFold
  <2> QED
    BY <2>1, <2>2 DEF IsFold
<1>5. h[s] = k[s]
  BY <1>1, <1>2, <1>3, <1>4, FoldUnique
<1> QED
  BY <1>2, <1>5

LEMMA SumTaken ==
  ASSUME NEW S, IsFiniteSet(S), NEW F, \A x \in S : F[x] \in Nat
  PROVE  /\ SumFunctionOnSet(F, S) \in Nat
         /\ S = {} => SumFunctionOnSet(F, S) = 0
         /\ S # {} => \E x \in S : SumFunctionOnSet(F, S) = F[x] + SumFunctionOnSet(F, S \ {x})
<1>1. PICK h \in [SUBSET S -> Nat] :
        IsFold(h, SUBSET S, 0, AnyOf(S), Adding(F, S)) /\ SumFunctionOnSet(F, S) = h[S]
  BY SumIsFold
<1>2. \A s \in SUBSET S : h[s] = SumFunctionOnSet(F, s)
  BY <1>1, SumOfSubset
<1>3. ASSUME S # {}
      PROVE  \E x \in S : SumFunctionOnSet(F, S) = F[x] + SumFunctionOnSet(F, S \ {x})
  <2>1. PICK x \in S : x = AnyOf(S)[S]
    BY <1>3 DEF AnyOf
  <2>2. h[S] = Adding(F, S)[<<x, h[S \ {x}]>>]
    BY <1>1, <1>3, <2>1 DEF IsFold
  <2>3. h[S \ {x}] \in Nat /\ h[S \ {x}] = SumFunctionOnSet(F, S \ {x})
    BY <1>2
  <2> QED
    BY <1>1, <2>2, <2>3 DEF Adding
<1> QED
  BY <1>1, <1>3 DEF IsFold

(* Any element may be taken out.                                           *)
LEMMA SumSplit ==
  ASSUME NEW S, IsFiniteSet(S), NEW F, \A x \in S : F[x] \in Nat, NEW z \in S
  PROVE  SumFunctionOnSet(F, S) = F[z] + SumFunctionOnSet(F, S \ {z})
<1> DEFINE Sum(s) == SumFunctionOnSet(F, s)
           T == {s \in SUBSET S : \E x \in s : Sum(s) # F[x] + Sum(s \ {x})}
<1>1. \A s \in SUBSET S : IsFiniteSet(s) /\ \A x \in s : F[x] \in Nat
  BY FS_Subset
<1>2. \A s \in SUBSET S : Sum(s) \in Nat
  BY <1>1, SumTaken
<1>3. ASSUME T # {} PROVE FALSE
  <2>0. T \in SUBSET (SUBSET S)
    OBVIOUS
  <2>1. PICK s \in T : \A t \in SUBSET s : t # s => t \notin T
    <3> HIDE DEF T
    <3> QED
      BY <1>3, <2>0, SmallestSubset
  <2>2. PICK x \in s : Sum(s) # F[x] + Sum(s \ {x})
    BY <2>1
  <2>3. PICK y \in s : Sum(s) = F[y] + Sum(s \ {y})
    <3>1. IsFiniteSet(s) /\ (\A v \in s : F[v] \in Nat) /\ s # {}
      BY <1>1, <2>1, <2>2
    <3> QED
      BY <3>1, SumTaken
  <2> HIDE DEF Sum
  <2>4. x # y
    BY <2>2, <2>3
  <2>5. s \ {x} \in SUBSET S /\ s \ {y} \in SUBSET S
    BY <2>1
  <2>6. Sum(s \ {y}) = F[x] + Sum((s \ {y}) \ {x})
    BY <2>1, <2>4, <2>5
  <2>7. Sum(s \ {x}) = F[y] + Sum((s \ {x}) \ {y})
    BY <2>1, <2>4, <2>5
  <2>8. (s \ {y}) \ {x} = (s \ {x}) \ {y} /\ (s \ {x}) \ {y} \in SUBSET S
    BY <2>5
  <2>9. F[x] \in Nat /\ F[y] \in Nat /\ Sum((s \ {x}) \ {y}) \in Nat
    BY <1>2, <2>1, <2>8
  <2> QED
    BY <2>2, <2>3, <2>6, <2>7, <2>8, <2>9
<1> QED
  BY <1>3

(* Where elements count one of two numbers, how many of each matters.      *)
Portions(v, a, w, b) == v * a + w * b

LEMMA SumOfTwo ==
  ASSUME NEW S, IsFiniteSet(S), NEW v \in Nat, NEW w \in Nat, NEW F, NEW C \in SUBSET S,
         \A x \in S : F[x] = IF x \in C THEN v ELSE w
  PROVE  SumFunctionOnSet(F, S) = Portions(v, Cardinality(C), w, Cardinality(S \ C))
<1> DEFINE In(s) == Cardinality(C \cap s)
           Out(s) == Cardinality(s \ C)
           T == {s \in SUBSET S : SumFunctionOnSet(F, s) # v * In(s) + w * Out(s)}
<1>1. \A s \in SUBSET S : IsFiniteSet(s) /\ Cardinality(s) \in Nat
  BY FS_Subset, FS_CardinalityType
<1>2. \A s \in SUBSET S : In(s) \in Nat /\ Out(s) \in Nat
  <2>1. \A s \in SUBSET S : C \cap s \in SUBSET S /\ s \ C \in SUBSET S
    OBVIOUS
  <2> QED
    BY <1>1, <2>1
<1>3. ASSUME NEW s \in SUBSET S, NEW x \in s
      PROVE  /\ x \in C => In(s) = In(s \ {x}) + 1 /\ Out(s) = Out(s \ {x})
             /\ x \notin C => In(s) = In(s \ {x}) /\ Out(s) = Out(s \ {x}) + 1
  <2>1. IsFiniteSet(C \cap s) /\ IsFiniteSet(s \ C)
    BY <1>1
  <2>2. CASE x \in C
    <3>1. C \cap (s \ {x}) = (C \cap s) \ {x} /\ x \in C \cap s /\ (s \ {x}) \ C = s \ C
      BY <2>2
    <3>2. Cardinality((C \cap s) \ {x}) = Cardinality(C \cap s) - 1
      BY <2>1, <3>1, FS_RemoveElement
    <3>3. Cardinality(C \cap s) = Cardinality(C \cap (s \ {x})) + 1
      <4>1. Cardinality(C \cap s) \in Nat
        BY <2>1, FS_CardinalityType
      <4>2. Cardinality(C \cap (s \ {x})) = Cardinality(C \cap s) - 1
        BY <3>1, <3>2
      <4> QED
        BY <4>1, <4>2
    <3>4. In(s) = In(s \ {x}) + 1 /\ Out(s) = Out(s \ {x})
      BY <3>1, <3>3
    <3> QED
      BY <2>2, <3>4
  <2>3. CASE x \notin C
    <3>1. (s \ {x}) \ C = (s \ C) \ {x} /\ x \in s \ C /\ C \cap (s \ {x}) = C \cap s
      BY <2>3
    <3>2. Cardinality((s \ C) \ {x}) = Cardinality(s \ C) - 1
      BY <2>1, <3>1, FS_RemoveElement
    <3>3. Cardinality(s \ C) = Cardinality((s \ {x}) \ C) + 1
      <4>1. Cardinality(s \ C) \in Nat
        BY <2>1, FS_CardinalityType
      <4>2. Cardinality((s \ {x}) \ C) = Cardinality(s \ C) - 1
        BY <3>1, <3>2
      <4> QED
        BY <4>1, <4>2
    <3>4. In(s) = In(s \ {x}) /\ Out(s) = Out(s \ {x}) + 1
      BY <3>1, <3>3
    <3> QED
      BY <2>3, <3>4
  <2> QED
    BY <2>2, <2>3
<1>4. In({}) = 0 /\ Out({}) = 0
  <2>1. C \cap {} = {} /\ {} \ C = {}
    OBVIOUS
  <2> QED
    BY <2>1, FS_EmptySet
<1> HIDE DEF In, Out
<1>5. \A n \in Nat : v * (n + 1) = v + v * n /\ w * (n + 1) = w + w * n
  OBVIOUS
<1>6. ASSUME T # {} PROVE FALSE
  <2>0. T \in SUBSET (SUBSET S)
    OBVIOUS
  <2>1. PICK s \in T : \A t \in SUBSET s : t # s => t \notin T
    <3> HIDE DEF T
    <3> QED
      BY <1>6, <2>0, SmallestSubset
  <2>2. IsFiniteSet(s) /\ s \in SUBSET S /\ \A x \in s : F[x] \in Nat
    BY <1>1, <2>1
  <2>3. s # {}
    <3>1. SumFunctionOnSet(F, {}) = 0
      BY FS_EmptySet, SumTaken
    <3>2. v * In({}) + w * Out({}) = 0
      BY <1>4
    <3>3. {} \notin T
      BY <3>1, <3>2
    <3> HIDE DEF T
    <3> QED
      BY <2>1, <3>3
  <2>4. PICK x \in s : TRUE
    BY <2>3
  <2> DEFINE r == s \ {x}
  <2>5. SumFunctionOnSet(F, s) = F[x] + SumFunctionOnSet(F, r)
    BY <2>2, <2>4, SumSplit
  <2>6. r \in SUBSET S /\ SumFunctionOnSet(F, r) = v * In(r) + w * Out(r)
    BY <2>1, <2>2, <2>4
  <2>7. /\ x \in C => In(s) = In(r) + 1 /\ Out(s) = Out(r)
        /\ x \notin C => In(s) = In(r) /\ Out(s) = Out(r) + 1
    BY <1>3, <2>2, <2>4
  <2>8. In(r) \in Nat /\ Out(r) \in Nat
    BY <1>2, <2>6
  <2> HIDE DEF r
  <2>9. v * In(r) \in Nat /\ w * Out(r) \in Nat
    BY <2>8
  <2>10. CASE x \in C
    <3>1. F[x] = v
      BY <2>2, <2>10
    <3>2. v * In(s) = v + v * In(r)
      BY <1>5, <2>7, <2>8, <2>10
    <3> QED
      BY <2>1, <2>5, <2>6, <2>7, <2>9, <2>10, <3>1, <3>2
  <2>11. CASE x \notin C
    <3>1. F[x] = w
      BY <2>2, <2>11
    <3>2. w * Out(s) = w + w * Out(r)
      BY <1>5, <2>7, <2>8, <2>11
    <3> QED
      BY <2>1, <2>5, <2>6, <2>7, <2>9, <2>11, <3>1, <3>2
  <2> QED
    BY <2>10, <2>11
<1>7. C \cap S = C
  OBVIOUS
<1>8. SumFunctionOnSet(F, S) = v * In(S) + w * Out(S)
  BY <1>6
<1> QED
  BY <1>7, <1>8 DEF In, Out, Portions

LEMMA SumOfOne ==
  ASSUME NEW x, NEW F, F[x] \in Nat
  PROVE  SumFunctionOnSet(F, {x}) = F[x]
<1>1. IsFiniteSet({x}) /\ \A y \in {x} : F[y] \in Nat
  BY FS_Singleton
<1>2. SumFunctionOnSet(F, {x}) = F[x] + SumFunctionOnSet(F, {x} \ {x})
  BY <1>1, SumSplit
<1>3. SumFunctionOnSet(F, {x} \ {x}) = 0
  <2>1. {x} \ {x} = {} /\ IsFiniteSet({})
    BY FS_EmptySet
  <2>2. SumFunctionOnSet(F, {}) = 0
    BY <2>1, SumTaken
  <2> QED
    BY <2>1, <2>2
<1> QED
  BY <1>2, <1>3

(* The rank of an element in a finite set of numbers.                      *)
Rank(P, h) == Cardinality({i \in P : i <= h})

(* One element has the first rank, and one the last.                       *)
LEMMA FirstAndLast ==
  ASSUME NEW L \in Nat, NEW P \in SUBSET (1..L), P # {}
  PROVE  \E m, l \in P :
           /\ \A i \in P : m <= i /\ i <= l
           /\ \A h \in P : (Rank(P, h) = 1 <=> h = m) /\ (Rank(P, h) = Cardinality(P) <=> h = l)
<1>0. IsFiniteSet(P) /\ Cardinality(P) \in Nat
  <2>1. IsFiniteSet(1..L)
    BY FS_Interval
  <2> QED
    BY <2>1, FS_Subset, FS_CardinalityType
<1>1. PICK m \in P : \A i \in P : m <= i
  <2>1. P \in SUBSET Nat
    OBVIOUS
  <2> QED
    BY <2>1, Smallest
<1>2. PICK l \in P : \A i \in P : i <= l
  <2> DEFINE T == {L - i : i \in P}
  <2>1. T \in SUBSET Nat /\ T # {}
    OBVIOUS
  <2>2. PICK y \in T : \A x \in T : y <= x
    <3> HIDE DEF T
    <3> QED
      BY <2>1, Smallest
  <2>3. PICK i \in P : y = L - i
    BY <2>2
  <2>4. ASSUME NEW j \in P PROVE j <= i
    <3>1. L - j \in T
      OBVIOUS
    <3>2. L - i <= L - j
      BY <2>2, <2>3, <3>1
    <3> QED
      BY <3>2
  <2> QED
    BY <2>4
<1>3. ASSUME NEW h \in P
      PROVE  /\ IsFiniteSet({i \in P : i <= h})
             /\ {i \in P : i <= h} \in SUBSET P
  <2>1. {i \in P : i <= h} \in SUBSET P
    OBVIOUS
  <2> QED
    BY <1>0, <2>1, FS_Subset
<1>4. ASSUME NEW h \in P PROVE Rank(P, h) = 1 <=> h = m
  <2>1. CASE h = m
    <3>1. {i \in P : i <= h} = {m}
      <4>1. \A i \in P : i <= m <=> i = m
        BY <1>1
      <4> QED
        BY <2>1, <4>1
    <3> QED
      BY <2>1, <3>1, FS_Singleton DEF Rank
  <2>2. CASE h # m
    <3>1. ASSUME Rank(P, h) = 1 PROVE FALSE
      <4>1. PICK x : {i \in P : i <= h} = {x}
        BY <1>3, <3>1, FS_Singleton DEF Rank
      <4>2. m \in {i \in P : i <= h} /\ h \in {i \in P : i <= h}
        BY <1>1
      <4> QED
        BY <2>2, <4>1, <4>2
    <3> QED
      BY <2>2, <3>1
  <2> QED
    BY <2>1, <2>2
<1>5. ASSUME NEW h \in P PROVE Rank(P, h) = Cardinality(P) <=> h = l
  <2>1. CASE h = l
    <3>1. {i \in P : i <= h} = P
      BY <1>2, <2>1
    <3> QED
      BY <2>1, <3>1 DEF Rank
  <2>2. CASE h # l
    <3>1. h < l
      BY <1>2, <2>2
    <3>2. {i \in P : i <= h} \in SUBSET P /\ {i \in P : i <= h} # P
      BY <3>1
    <3>3. Rank(P, h) < Cardinality(P)
      <4> DEFINE B == {i \in P : i <= h}
      <4>1. B \in SUBSET P /\ B # P
        BY <3>2
      <4>2. Cardinality(B) < Cardinality(P)
        <5> HIDE DEF B
        <5>1. Cardinality(B) \in Nat /\ Cardinality(B) <= Cardinality(P) /\ Cardinality(B) # Cardinality(P)
          BY <1>0, <4>1, FS_Subset, FS_CardinalityType
        <5> QED
          BY <1>0, <5>1
      <4> QED
        BY <4>2 DEF Rank
    <3>4. Rank(P, h) \in Nat
      BY <1>3, FS_CardinalityType DEF Rank
    <3> QED
      BY <1>0, <2>2, <3>3, <3>4
  <2> QED
    BY <2>1, <2>2
<1> QED
  BY <1>1, <1>2, <1>4, <1>5

-----------------------------------------------------------------------------
(* The log.                                                                *)
Row == [uid : Nat, device : Nat, session : Nat, kind : Kind, at : 0..LastTime]

(* The rows come in the order of their times, each of some visit.          *)
LogShape ==
  /\ log \in Seq(Row) /\ Len(log) <= MaxRows
  /\ \A i, j \in DOMAIN log : i <= j => log[i].at <= log[j].at
  /\ \A i \in DOMAIN log : \E v \in Visits : log[i].device = v.device /\ log[i].session = v.session

(* Rows are only stored, in the order of their times.                      *)
LEMMA RowsKeepShape == LogInit /\ [][LogNext]_log => []LogShape
<1>1. LogInit => LogShape
  BY EventLogAssumption DEF LogInit, LogShape, EventLogAssumption
<1>2. LogShape /\ [LogNext]_log => LogShape'
  <2> SUFFICES ASSUME LogShape, LogNext PROVE LogShape'
    BY DEF LogShape
  <2>1. PICK v \in Visits, k \in Kind, t \in 0..LastTime : Store(v, k, t)
    BY DEF LogNext
  <2>2. v \in [uid : Nat, device : Nat, session : Nat] /\ t \in Nat
    BY EventLogAssumption DEF EventLogAssumption
  <2> DEFINE r == [uid |-> v.uid, device |-> v.device, session |-> v.session, kind |-> k, at |-> t]
  <2>3. r \in Row /\ r.at = t /\ r.device = v.device /\ r.session = v.session
    BY <2>2 DEF Row
  <2>4. log' = Append(log, r) /\ Len(log) < MaxRows /\ \A i \in DOMAIN log : log[i].at <= t
    BY <2>1 DEF Store
  <2> HIDE DEF r
  <2>5. log \in Seq(Row) /\ log' \in Seq(Row) /\ Len(log') = Len(log) + 1 /\ Len(log) \in Nat
    BY <2>3, <2>4 DEF LogShape
  <2>6. DOMAIN log = 1..Len(log) /\ DOMAIN log' = 1..(Len(log) + 1)
    BY <2>5
  <2>7. log'[Len(log) + 1] = r /\ \A i \in DOMAIN log : log'[i] = log[i]
    BY <2>3, <2>4, <2>5
  <2>8. Len(log') <= MaxRows
    BY <2>4, <2>5, EventLogAssumption DEF EventLogAssumption
  <2>9. ASSUME NEW i \in DOMAIN log', NEW j \in DOMAIN log', i <= j
        PROVE  log'[i].at <= log'[j].at
    <3>1. CASE j \in DOMAIN log
      BY <2>6, <2>7, <2>9, <3>1 DEF LogShape
    <3>2. CASE j = Len(log) + 1
      <4>1. i \in DOMAIN log \/ i = j
        BY <2>6, <2>9, <3>2
      <4> QED
        BY <2>2, <2>3, <2>4, <2>7, <3>2, <4>1
    <3> QED
      BY <2>5, <2>6, <3>1, <3>2
  <2>10. ASSUME NEW i \in DOMAIN log'
         PROVE  \E u \in Visits : log'[i].device = u.device /\ log'[i].session = u.session
    <3>1. CASE i \in DOMAIN log
      BY <2>7, <3>1 DEF LogShape
    <3>2. CASE i = Len(log) + 1
      BY <2>3, <2>7, <3>2
    <3> QED
      BY <2>5, <2>6, <3>1, <3>2
  <2> QED
    BY <2>5, <2>8, <2>9, <2>10 DEF LogShape
<1> QED
  BY <1>1, <1>2, PTL

-----------------------------------------------------------------------------
(* The retention query.  The range is extended by the widest window, and   *)
(* must reach the end of the last period a return may be in.               *)
LEMMA WidestWindow ==
  ASSUME NEW n \in RetentionWindows
  PROVE  MaxWindow \in RetentionWindows /\ MaxWindow \in Nat /\ n <= MaxWindow
<1>0. RetentionWindows \subseteq 1..365
  BY RetentionAssumption DEF RetentionAssumption
<1> DEFINE Above == {b \in Nat : \A w \in RetentionWindows : w <= b}
<1>1. 365 \in Above
  BY <1>0
<1>2. PICK b \in Above : \A d \in Above : b <= d
  <2>1. Above \in SUBSET Nat /\ Above # {}
    BY <1>1
  <2> HIDE DEF Above
  <2> QED
    BY <2>1, Smallest
<1>3. b >= 1
  BY <1>0, <1>2
<1>4. b \in RetentionWindows
  <2> SUFFICES ASSUME b \notin RetentionWindows PROVE FALSE
    OBVIOUS
  <2>1. b - 1 \in Nat
    BY <1>2, <1>3
  <2>2. ASSUME NEW w \in RetentionWindows PROVE w <= b - 1
    <3>1. w <= b /\ w # b
      BY <1>2
    <3> QED
      BY <1>0, <1>2, <3>1
  <2>3. b - 1 \in Above
    BY <2>1, <2>2
  <2> QED
    BY <1>2, <1>3, <2>3
<1>5. \E w \in RetentionWindows : \A v \in RetentionWindows : v <= w
  BY <1>2, <1>4
<1>6. MaxWindow \in RetentionWindows /\ \A v \in RetentionWindows : v <= MaxWindow
  BY <1>5 DEF MaxWindow
<1> QED
  BY <1>0, <1>6

(* A period of a calendar begins at or after any that comes no later.      *)
LEMMA CalendarOf ==
  ASSUME NEW g \in Granularities
  PROVE  /\ Horizon \in Nat \ {0} /\ g[0] = 0 /\ LastTime < g[Horizon]
         /\ \A p \in 0..Horizon : g[p] \in Nat
         /\ \A p, q \in 0..Horizon : p < q => g[p] < g[q]
         /\ \A p, q \in 0..Horizon : p <= q => g[p] <= g[q]
<1>1. /\ Horizon \in Nat \ {0} /\ g \in [0..Horizon -> Nat]
      /\ g[0] = 0 /\ LastTime < g[Horizon]
      /\ \A p, q \in 0..Horizon : p < q => g[p] < g[q]
  BY RetentionAssumption DEF RetentionAssumption
<1>2. \A p \in 0..Horizon : g[p] \in Nat
  BY <1>1
<1>3. ASSUME NEW p \in 0..Horizon, NEW q \in 0..Horizon, p <= q
      PROVE  g[p] <= g[q]
  <2>1. CASE p < q
    BY <1>1, <1>2, <2>1
  <2>2. CASE p = q
    BY <1>2, <2>2
  <2> QED
    BY <1>1, <1>3, <2>1, <2>2
<1> QED
  BY <1>1, <1>2, <1>3

(* A day before the m-th period is in one of the first m.                  *)
LEMMA PeriodOf ==
  ASSUME NEW g \in Granularities, NEW m \in 0..Horizon, NEW t \in Nat, t < g[m]
  PROVE  /\ Period(g, t) \in 0..(Horizon - 1) /\ Period(g, t) < m
         /\ g[Period(g, t)] <= t /\ t < g[Period(g, t) + 1]
<1> DEFINE After == {d \in 0..Horizon : t < g[d]}
<1>1. PICK d \in After : \A e \in After : d <= e
  <2>1. After \in SUBSET Nat /\ After # {}
    OBVIOUS
  <2> HIDE DEF After
  <2> QED
    BY <2>1, Smallest
<1>2. d \in 1..Horizon /\ t < g[d]
  BY CalendarOf
<1>3. d - 1 \in 0..(Horizon - 1) /\ d - 1 \notin After /\ (d - 1) + 1 = d
  BY <1>1, <1>2, CalendarOf
<1>4. g[d - 1] <= t
  BY <1>3, CalendarOf
<1>5. \E c \in 0..(Horizon - 1) : g[c] <= t /\ t < g[c + 1]
  BY <1>2, <1>3, <1>4
<1>6. /\ Period(g, t) \in 0..(Horizon - 1)
      /\ g[Period(g, t)] <= t /\ t < g[Period(g, t) + 1]
  BY <1>5 DEF Period
<1>7. Period(g, t) < m
  <2> SUFFICES ASSUME m <= Period(g, t) PROVE FALSE
    BY <1>6, CalendarOf
  <2>1. Period(g, t) \in 0..Horizon
    BY <1>6, CalendarOf
  <2>2. g[m] <= g[Period(g, t)] /\ g[m] \in Nat /\ g[Period(g, t)] \in Nat
    BY <2>1, CalendarOf
  <2> QED
    BY <1>6, <2>2
<1> QED
  BY <1>6, <1>7

(* The extended range ends in the period a widest window after its last.   *)
LEMMA ReachOf ==
  ASSUME NEW g \in Granularities, NEW t \in Nat, NEW w \in Nat,
         w <= Horizon, t < g[Horizon - w]
  PROVE  /\ Period(g, t) \in Nat /\ Period(g, t) + w < Horizon
         /\ AddPeriods(g, t, w) \in Nat /\ g[Period(g, t) + w] <= AddPeriods(g, t, w)
<1> DEFINE e == Period(g, t)
<1>1. Horizon \in Nat /\ Horizon - w \in 0..Horizon
  BY CalendarOf
<1>2. e \in 0..(Horizon - 1) /\ e < Horizon - w /\ g[e] <= t
  BY <1>1, PeriodOf
<1> HIDE DEF e
<1>3. e + w \in 0..Horizon /\ e + w + 1 \in 0..Horizon /\ e + w < e + w + 1 /\ e \in 0..Horizon
  BY <1>1, <1>2
<1>4. g[e + w] \in Nat /\ g[e + w + 1] \in Nat /\ g[e] \in Nat /\ g[e + w] < g[e + w + 1]
  BY <1>3, CalendarOf
<1>5. /\ AddPeriods(g, t, w) \in {g[e + w] + (t - g[e]), g[e + w + 1] - 1}
  BY DEF AddPeriods, e
<1>6. AddPeriods(g, t, w) \in Nat /\ g[e + w] <= AddPeriods(g, t, w)
  BY <1>2, <1>4, <1>5
<1> QED
  BY <1>1, <1>2, <1>6 DEF e

(* A day that lies a window after a period of the range is in the range    *)
(* that is searched for returns, unless that ends within the day's period. *)
LEMMA ReturnsAreSearched ==
  ASSUME NEW g \in Granularities, NEW n \in RetentionWindows, NEW range \in RetentionRanges,
         NEW c \in Period(g, range[1])..Period(g, range[2]),
         ~CutShort(g, range, c + n),
         NEW t \in 0..LastTime, Period(g, t) = c + n
  PROVE  range[1] <= t /\ t <= AddPeriods(g, range[2], MaxWindow)
<1>1. /\ n \in 1..365 /\ range[1] \in Nat /\ range[2] \in Nat
      /\ n <= Horizon /\ range[1] < g[Horizon - n]
  BY RetentionAssumption DEF RetentionAssumption
<1>2. MaxWindow \in Nat /\ n <= MaxWindow /\ MaxWindow \in RetentionWindows
  BY WidestWindow
<1>3. MaxWindow <= Horizon /\ range[2] < g[Horizon - MaxWindow]
  BY <1>2, RetentionAssumption DEF RetentionAssumption
<1> DEFINE first == Period(g, range[1])
           last == Period(g, range[2])
           reach == AddPeriods(g, range[2], MaxWindow)
<1>4. /\ last \in Nat /\ last + MaxWindow < Horizon
      /\ reach \in Nat /\ g[last + MaxWindow] <= reach
  BY <1>1, <1>2, <1>3, ReachOf
<1>5. first \in 0..(Horizon - 1) /\ range[1] < g[first + 1]
  <2>1. Horizon - n \in 0..Horizon
    BY <1>1, CalendarOf
  <2> QED
    BY <1>1, <2>1, PeriodOf
<1>6. t \in Nat /\ g[c + n] <= t /\ t < g[c + n + 1]
  <2>1. Horizon \in 0..Horizon /\ t \in Nat /\ t < g[Horizon]
    BY CalendarOf, EventLogAssumption DEF EventLogAssumption
  <2> QED
    BY <2>1, PeriodOf
<1>7. c + n = last + MaxWindow => reach + 1 >= g[c + n + 1]
  <2>1. ASSUME c + n = last + MaxWindow PROVE g[c + n + 1] \in Nat
    <3>1. c + n + 1 \in 0..Horizon
      BY <1>2, <1>4, <2>1, CalendarOf
    <3> QED
      BY <3>1, CalendarOf
  <2> QED
    BY <1>4, <2>1 DEF CutShort
<1>8. c \in first..last
  OBVIOUS
<1> HIDE DEF first, last, reach
<1>9. /\ first + 1 \in 0..Horizon /\ c + n \in 0..Horizon /\ c + n + 1 \in 0..Horizon
      /\ last + MaxWindow \in 0..Horizon
      /\ first + 1 <= c + n /\ c + n <= last + MaxWindow
  BY <1>1, <1>2, <1>4, <1>5, <1>8, CalendarOf
<1>10. /\ g[first + 1] <= g[c + n]
       /\ g[first + 1] \in Nat /\ g[c + n] \in Nat /\ g[c + n + 1] \in Nat
       /\ g[last + MaxWindow] \in Nat
  BY <1>9, CalendarOf
<1>11. range[1] <= t
  BY <1>1, <1>5, <1>6, <1>10
<1>12. t <= reach
  <2>1. CASE c + n = last + MaxWindow
    BY <1>4, <1>6, <1>7, <1>10, <2>1
  <2>2. CASE c + n + 1 <= last + MaxWindow
    <3>1. g[c + n + 1] <= g[last + MaxWindow]
      BY <1>9, <2>2, CalendarOf
    <3> QED
      BY <1>4, <1>6, <1>10, <3>1
  <2> QED
    BY <1>4, <1>9, <2>1, <2>2
<1> QED
  BY <1>11, <1>12 DEF reach

(* For any calendar, windows and ranges, the query counts nobody as        *)
(* retained who did not return in the period, and misses a return only in  *)
(* a period the extended range ends in the middle of.                      *)
THEOREM RetentionIsExact == LogInit /\ [][LogNext]_log => []RetentionCountsReturns
<1>1. LogShape => RetentionCountsReturns
  <2> SUFFICES ASSUME log \in Seq(Row),
                      NEW g \in Granularities, NEW n \in RetentionWindows,
                      NEW range \in RetentionRanges,
                      NEW c \in Period(g, range[1])..Period(g, range[2])
               PROVE  /\ RetentionUsers(g, range, c, n) \subseteq Returned(g, range, c, n)
                      /\ \/ RetentionUsers(g, range, c, n) = Returned(g, range, c, n)
                         \/ CutShort(g, range, c + n)
    BY DEF RetentionCountsReturns, LogShape
  <2>1. ASSUME NEW i \in DOMAIN log PROVE log[i].at \in 0..LastTime
    <3>1. log[i] \in Row
      OBVIOUS
    <3> QED
      BY <3>1 DEF Row
  <2>2. RetentionUsers(g, range, c, n) \subseteq Returned(g, range, c, n)
    BY DEF RetentionUsers, Returned, ReturnEvents, ReturnRange, Between
  <2>3. ASSUME ~CutShort(g, range, c + n)
        PROVE  Returned(g, range, c, n) \subseteq RetentionUsers(g, range, c, n)
    <3> SUFFICES ASSUME NEW x \in CohortUsers(g, range, c), NEW i \in DOMAIN log,
                        Person(i) = x, log[i].kind \in ReturnKind,
                        Period(g, log[i].at) = c + n
                 PROVE  <<x, c + n>> \in ReturnEvents(g, range)
      BY DEF Returned, RetentionUsers
    <3>1. i \in ReturnRange(g, range)
      BY <2>1, <2>3, ReturnsAreSearched DEF ReturnRange, Between
    <3> QED
      BY <3>1 DEF ReturnEvents
  <2> QED
    BY <2>2, <2>3
<1> QED
  BY <1>1, RowsKeepShape, PTL

-----------------------------------------------------------------------------
(* The attribution query.  As the rows come in the order of their times,   *)
(* the place of a touch is its rank among the touches; exactly one has the *)
(* first place and exactly one the last, and no more is needed to know that*)
(* the shares of a conversion add up, in each of the models.               *)
LEMMA Shares ==
  ASSUME NEW n \in 1..MaxRows
  PROVE  /\ Whole \in Nat \ {0}
         /\ Whole \div n \in Nat /\ (Whole \div n) * n = Whole
         /\ Whole \div 2 \in Nat /\ (Whole \div 2) * 2 = Whole
         /\ (2 * Whole) \div 5 \in Nat
         /\ n > 2 => /\ Whole \div (5 * (n - 2)) \in Nat
                     /\ ((2 * Whole) \div 5) * 2 + (Whole \div (5 * (n - 2))) * (n - 2) = Whole
<1>1. /\ Whole \in Nat \ {0} /\ Whole % 2 = 0 /\ MaxRows \in Nat
      /\ \A k \in 1..MaxRows : Whole % (5 * k) = 0
  BY CreditAssumption, EventLogAssumption DEF CreditAssumption, EventLogAssumption
<1>2. ASSUME NEW d \in Nat \ {0}, Whole % d = 0
      PROVE  Whole \div d \in Nat /\ (Whole \div d) * d = Whole
  BY <1>1, <1>2
<1>3. ASSUME NEW k \in 1..MaxRows
      PROVE  \E q \in Nat : Whole = q * (5 * k) /\ Whole \div (5 * k) = q
  <2>1. 5 * k \in Nat \ {0} /\ Whole % (5 * k) = 0
    BY <1>1
  <2> QED
    BY <1>2, <2>1
<1>4. Whole \div n \in Nat /\ (Whole \div n) * n = Whole
  <2>1. PICK q \in Nat : Whole = q * (5 * n)
    BY <1>3
  <2>2. Whole = (5 * q) * n /\ 5 * q \in Nat /\ n \in Nat \ {0}
    BY <1>1, <2>1
  <2>3. \A x \in Nat, y \in Nat \ {0} : (x * y) \div y = x
    OBVIOUS
  <2> QED
    BY <2>2, <2>3
<1>5. (2 * Whole) \div 5 \in Nat /\ ((2 * Whole) \div 5) * 5 = 2 * Whole
  <2>1. PICK q \in Nat : Whole = q * (5 * 1)
    BY <1>1, <1>3
  <2> QED
    BY <2>1
<1>6. ASSUME n > 2
      PROVE  /\ Whole \div (5 * (n - 2)) \in Nat
             /\ ((2 * Whole) \div 5) * 2 + (Whole \div (5 * (n - 2))) * (n - 2) = Whole
  <2>1. n - 2 \in 1..MaxRows
    BY <1>1, <1>6
  <2>2. PICK q \in Nat : Whole = q * (5 * (n - 2)) /\ Whole \div (5 * (n - 2)) = q
    BY <1>3, <2>1
  <2> DEFINE v == (2 * Whole) \div 5
             r == q * (n - 2)
  <2>3. r \in Nat /\ Whole = 5 * r
    BY <1>1, <2>2
  <2>4. v \in Nat /\ v * 5 = 2 * Whole
    BY <1>5
  <2> HIDE DEF v, r
  <2>5. v * 2 + r = Whole
    BY <2>3, <2>4
  <2> QED
    BY <2>2, <2>5 DEF v, r
<1> QED
  BY <1>1, <1>2, <1>4, <1>5, <1>6

(* A conversion that has touches is handed out in full.                    *)
LEMMA OneConversion ==
  ASSUME LogShape, NEW model \in AttributionModel, NEW c \in InCreditRange, Prefix(c) # {}
  PROVE  SumFunctionOnSet([h \in Prefix(c) |-> Credit(model, c, h)], Prefix(c)) = Whole
<1> DEFINE P == Prefix(c)
           n == Cardinality(P)
           F == [h \in P |-> Credit(model, c, h)]
<1>1. Len(log) \in Nat /\ DOMAIN log = 1..Len(log) /\ Len(log) <= MaxRows /\ MaxRows \in Nat
  BY EventLogAssumption DEF LogShape, EventLogAssumption
<1>2. P \in SUBSET (1..Len(log))
  BY <1>1 DEF Prefix, HopRows, InCreditRange, Between
<1>3. \A h \in P : HopIndex(c, h) = Rank(P, h)
  <2>1. ASSUME NEW h \in P, NEW i \in P
        PROVE  (log[i].at < log[h].at \/ (log[i].at = log[h].at /\ i <= h)) <=> i <= h
    <3>1. h \in DOMAIN log /\ i \in DOMAIN log /\ h \in Nat /\ i \in Nat
      BY <1>1, <1>2
    <3>2. log[h] \in Row /\ log[i] \in Row
      BY <3>1 DEF LogShape
    <3>3. log[h].at \in Nat /\ log[i].at \in Nat
      BY <3>2 DEF Row
    <3>4. (i <= h => log[i].at <= log[h].at) /\ (h <= i => log[h].at <= log[i].at)
      BY <3>1 DEF LogShape
    <3> QED
      BY <3>1, <3>3, <3>4
  <2> HIDE DEF P
  <2>2. ASSUME NEW h \in P
        PROVE  {i \in P : log[i].at < log[h].at \/ (log[i].at = log[h].at /\ i <= h)} = {i \in P : i <= h}
    BY <2>1
  <2> QED
    BY <2>2 DEF P, HopIndex, Rank
<1>4. PICK m, l \in P :
           /\ \A i \in P : m <= i /\ i <= l
           /\ \A h \in P : (Rank(P, h) = 1 <=> h = m) /\ (Rank(P, h) = n <=> h = l)
  <2> HIDE DEF P
  <2> QED
    BY <1>1, <1>2, FirstAndLast DEF P
<1>5. \A h \in P : F[h] = Weight(model, Rank(P, h), n)
  BY <1>3 DEF Credit
<1>6. IsFiniteSet(P) /\ n \in 1..MaxRows
  <2>1. IsFiniteSet(1..Len(log)) /\ Cardinality(1..Len(log)) = Len(log)
    <3>1. 1 \in Int /\ Len(log) \in Int /\ Len(log) >= 0
      BY <1>1
    <3>2. IsFiniteSet(1..Len(log)) /\ Cardinality(1..Len(log)) = IF 1 > Len(log) THEN 0 ELSE Len(log) - 1 + 1
      BY <3>1, FS_Interval
    <3> QED
      BY <3>1, <3>2
  <2> HIDE DEF P
  <2>2. IsFiniteSet(P) /\ n <= Len(log) /\ n \in Nat
    <3>1. IsFiniteSet(P) /\ n <= Cardinality(1..Len(log))
      BY <1>2, <2>1, FS_Subset
    <3> QED
      BY <2>1, <3>1, FS_CardinalityType
  <2>3. n # 0
    BY <2>2, FS_EmptySet DEF P
  <2> QED
    BY <1>1, <2>2, <2>3
<1>7. /\ Whole \in Nat \ {0} /\ Whole \div n \in Nat /\ (Whole \div n) * n = Whole
      /\ Whole \div 2 \in Nat /\ (Whole \div 2) * 2 = Whole
      /\ (2 * Whole) \div 5 \in Nat
      /\ n > 2 => /\ Whole \div (5 * (n - 2)) \in Nat
                  /\ ((2 * Whole) \div 5) * 2 + (Whole \div (5 * (n - 2))) * (n - 2) = Whole
  BY <1>6, Shares
<1> HIDE DEF P, F
<1>8. ASSUME NEW v \in Nat, NEW w \in Nat, NEW C \in SUBSET P,
             \A h \in P : F[h] = IF h \in C THEN v ELSE w
      PROVE  SumFunctionOnSet(F, P) = Portions(v, Cardinality(C), w, Cardinality(P \ C))
  <2>1. IsFiniteSet(P)
    BY <1>6
  <2> QED
    BY <1>8, <2>1, SumOfTwo
<1>9. ASSUME NEW v \in Nat, \A h \in P : F[h] = v
      PROVE  SumFunctionOnSet(F, P) = v * n
  <2>1. SumFunctionOnSet(F, P) = Portions(v, Cardinality(P), 0, Cardinality(P \ P))
    BY <1>8, <1>9
  <2>2. P \ P = {} /\ Cardinality({}) = 0 /\ n \in Nat
    BY <1>6, FS_EmptySet
  <2> QED
    BY <2>1, <2>2 DEF Portions
<1>10. ASSUME NEW x \in P, \A h \in P : F[h] = IF h = x THEN Whole ELSE 0
       PROVE  SumFunctionOnSet(F, P) = Whole
  <2>1. SumFunctionOnSet(F, P) = Portions(Whole, Cardinality({x}), 0, Cardinality(P \ {x}))
    <3>1. {x} \in SUBSET P /\ \A h \in P : F[h] = IF h \in {x} THEN Whole ELSE 0
      BY <1>10
    <3> QED
      BY <1>7, <1>8, <3>1
  <2>2. Cardinality({x}) = 1 /\ Cardinality(P \ {x}) \in Nat
    <3>1. P \ {x} \in SUBSET P
      OBVIOUS
    <3> QED
      BY <1>6, <3>1, FS_Singleton, FS_Subset, FS_CardinalityType
  <2> QED
    BY <1>7, <2>1, <2>2 DEF Portions
<1>11. CASE model = "FIRST_TOUCH"
  <2>1. \A h \in P : F[h] = IF h = m THEN Whole ELSE 0
    BY <1>4, <1>5, <1>11 DEF Weight
  <2> QED
    BY <1>10, <2>1 DEF P, F
<1>12. CASE model = "LAST_TOUCH"
  <2>1. \A h \in P : F[h] = IF h = l THEN Whole ELSE 0
    BY <1>4, <1>5, <1>12 DEF Weight
  <2> QED
    BY <1>10, <2>1 DEF P, F
<1>13. CASE model = "LINEAR"
  <2>1. \A h \in P : F[h] = Whole \div n
    BY <1>5, <1>13 DEF Weight
  <2> QED
    BY <1>7, <1>9, <2>1 DEF P, F
<1>14. CASE model = "POSITION"
  <2>0. \A h \in P : F[h] = IF n = 1 THEN Whole
                           ELSE IF n = 2 THEN Whole \div 2
                           ELSE IF h \in {m, l} THEN (2 * Whole) \div 5 ELSE Whole \div (5 * (n - 2))
    BY <1>4, <1>5, <1>14 DEF Weight
  <2>1. CASE n = 1
    <3>1. \A h \in P : F[h] = Whole
      BY <2>0, <2>1
    <3>2. SumFunctionOnSet(F, P) = Whole * 1
      BY <1>7, <1>9, <2>1, <3>1
    <3> QED
      BY <1>7, <3>2 DEF P, F
  <2>2. CASE n = 2
    <3>1. \A h \in P : F[h] = Whole \div 2
      BY <2>0, <2>2
    <3> QED
      BY <1>7, <1>9, <2>2, <3>1 DEF P, F
  <2>3. CASE n > 2
    <3>1. m # l
      <4>1. ASSUME m = l PROVE FALSE
        <5>1. P = {m}
          <6>1. \A i \in P : i = m
            BY <1>1, <1>2, <1>4, <4>1 DEF P
          <6> QED
            BY <6>1
        <5> QED
          BY <2>3, <5>1, FS_Singleton
      <4> QED
        BY <4>1
    <3>2. Cardinality({m, l}) = 2 /\ Cardinality(P \ {m, l}) = n - 2
      <4>1. P \ {m, l} = (P \ {m}) \ {l} /\ l \in P \ {m}
        BY <3>1
      <4>2. Cardinality(P \ {m}) = n - 1 /\ IsFiniteSet(P \ {m})
        BY <1>6, FS_RemoveElement
      <4>3. Cardinality((P \ {m}) \ {l}) = n - 1 - 1
        <5> DEFINE Q == P \ {m}
        <5>1. IsFiniteSet(Q) /\ l \in Q /\ Cardinality(Q) = n - 1
          BY <4>1, <4>2
        <5> HIDE DEF Q
        <5>2. Cardinality(Q \ {l}) = Cardinality(Q) - 1
          BY <5>1, FS_RemoveElement
        <5> QED
          BY <5>1, <5>2 DEF Q
      <4>4. Cardinality({m} \cup {l}) = 1 + 1
        <5>1. l \notin {m} /\ IsFiniteSet({m}) /\ Cardinality({m}) = 1
          BY <3>1, FS_Singleton
        <5> QED
          BY <5>1, FS_AddElement
      <4>5. {m} \cup {l} = {m, l}
        OBVIOUS
      <4>6. n \in Nat
        BY <1>1, <1>6
      <4>7. Cardinality(P \ {m, l}) = n - 2
        BY <4>1, <4>3, <4>6
      <4>8. Cardinality({m, l}) = 2
        BY <4>4, <4>5
      <4> QED
        BY <4>7, <4>8
    <3> DEFINE v == (2 * Whole) \div 5
               w == Whole \div (5 * (n - 2))
    <3>3. v \in Nat /\ w \in Nat /\ v * 2 + w * (n - 2) = Whole
      BY <1>7, <2>3
    <3>4. \A h \in P : F[h] = IF h \in {m, l} THEN v ELSE w
      BY <2>0, <2>3
    <3> HIDE DEF v, w
    <3>5. SumFunctionOnSet(F, P) = Portions(v, Cardinality({m, l}), w, Cardinality(P \ {m, l}))
      <4>1. {m, l} \in SUBSET P
        OBVIOUS
      <4> QED
        BY <1>8, <3>3, <3>4, <4>1
    <3>6. SumFunctionOnSet(F, P) = v * 2 + w * (n - 2)
      BY <3>2, <3>5 DEF Portions
    <3> QED
      BY <3>3, <3>6 DEF P, F
  <2> QED
    BY <1>6, <2>1, <2>2, <2>3
<1> QED
  BY <1>11, <1>12, <1>13, <1>14 DEF AttributionModel

(* A range of rows is finite.                                              *)
LEMMA FiniteRange ==
  ASSUME LogShape, NEW S \in SUBSET InCreditRange
  PROVE  IsFiniteSet(S) /\ Cardinality(S) \in Nat
<1>1. Len(log) \in Nat /\ DOMAIN log = 1..Len(log)
  BY DEF LogShape
<1>2. S \in SUBSET (1..Len(log)) /\ IsFiniteSet(1..Len(log))
  BY <1>1, FS_Interval DEF InCreditRange, Between
<1> QED
  BY <1>2, FS_Subset, FS_CardinalityType

LEMMA TouchName == \A c, h : h \in Prefix(c) => EventName[log[h].kind] = "page_view"
  BY DEF Prefix, HopRows, TouchNames

(* Over all conversions: those that have a touch, each once.               *)
LEMMA AllConversions ==
  ASSUME LogShape, NEW model \in AttributionModel, NEW kinds
  PROVE  ConvAgg(model, kinds, "page_view") = Whole * Cardinality({c \in Conv(kinds) : Prefix(c) # {}})
<1> DEFINE S == Conv(kinds)
           C == {c \in S : Prefix(c) # {}}
           F == [c \in S |-> SumFunction([h \in {i \in Prefix(c) : EventName[log[i].kind] = "page_view"} |->
                                            Credit(model, c, h)])]
<1>1. S \in SUBSET InCreditRange /\ IsFiniteSet(S)
  <2>1. S \in SUBSET InCreditRange
    BY DEF Conv
  <2> QED
    BY <2>1, FiniteRange
<1>2. Whole \in Nat
  BY CreditAssumption DEF CreditAssumption
<1>3. ASSUME NEW c \in S PROVE F[c] = IF c \in C THEN Whole ELSE 0
  <2>1. {i \in Prefix(c) : EventName[log[i].kind] = "page_view"} = Prefix(c)
    BY TouchName
  <2>2. F[c] = SumFunctionOnSet([h \in Prefix(c) |-> Credit(model, c, h)], Prefix(c))
    BY <2>1 DEF SumFunction
  <2>3. CASE Prefix(c) # {}
    BY <1>1, <2>2, <2>3, OneConversion
  <2>4. CASE Prefix(c) = {}
    <3>1. SumFunctionOnSet([h \in Prefix(c) |-> Credit(model, c, h)], Prefix(c)) = 0
      <4>1. IsFiniteSet(Prefix(c)) /\ \A h \in Prefix(c) : [i \in Prefix(c) |-> Credit(model, c, i)][h] \in Nat
        BY <2>4, FS_EmptySet
      <4> QED
        BY <2>4, <4>1, SumTaken
    <3> QED
      BY <2>2, <2>4, <3>1
  <2> QED
    BY <2>3, <2>4
<1>4. ConvAgg(model, kinds, "page_view") = SumFunctionOnSet(F, S)
  BY DEF ConvAgg, SumFunction
<1>5. C \in SUBSET S
  OBVIOUS
<1> HIDE DEF S, C, F
<1>6. SumFunctionOnSet(F, S) = Portions(Whole, Cardinality(C), 0, Cardinality(S \ C))
  BY <1>1, <1>2, <1>3, <1>5, SumOfTwo
<1>7. Cardinality(C) \in Nat /\ Cardinality(S \ C) \in Nat
  <2>1. C \in SUBSET InCreditRange /\ S \ C \in SUBSET InCreditRange
    BY <1>1, <1>5
  <2> QED
    BY <2>1, FiniteRange
<1>8. SumFunctionOnSet(F, S) = Whole * Cardinality(C)
  BY <1>2, <1>6, <1>7 DEF Portions
<1> QED
  BY <1>4, <1>8 DEF S, C

(* What the join on the session finds is of the same device, and no touch  *)
(* is missed.                                                              *)
LEMMA TouchesAreOwn ==
  ASSUME LogShape, NEW c \in InCreditRange, HasSession(c), NEW h
  PROVE  h \in Prefix(c) <=> h \in DOMAIN log /\ OwnTouch(c, h)
<1>1. ASSUME h \in Prefix(c) PROVE h \in DOMAIN log /\ OwnTouch(c, h)
  <2>1. h \in InCreditRange /\ HasSession(h) /\ log[h].kind = "landing"
          /\ log[h].session = log[c].session /\ log[h].at <= log[c].at
    BY <1>1 DEF Prefix, HopRows
  <2>2. h \in DOMAIN log /\ c \in DOMAIN log
    BY <2>1 DEF InCreditRange, Between
  <2>3. PICK v \in Visits : log[h].device = v.device /\ log[h].session = v.session
    BY <2>2 DEF LogShape
  <2>4. PICK w \in Visits : log[c].device = w.device /\ log[c].session = w.session
    BY <2>2 DEF LogShape
  <2>5. v.session = w.session /\ v.session # 0
    BY <2>1, <2>3, <2>4 DEF HasSession
  <2>6. v.device = w.device
    BY <2>5, CreditAssumption DEF CreditAssumption
  <2> QED
    BY <2>1, <2>2, <2>3, <2>4, <2>6 DEF OwnTouch
<1>2. ASSUME h \in DOMAIN log, OwnTouch(c, h) PROVE h \in Prefix(c)
  <2>1. HasSession(h) /\ EventName["landing"] \in TouchNames
    BY <1>2 DEF OwnTouch, HasSession, EventName, TouchNames, Kind
  <2> QED
    BY <1>2, <2>1 DEF OwnTouch, Prefix, HopRows
<1> QED
  BY <1>1, <1>2

(* In the models of first and last touch, of equal shares and of position, *)
(* the credits of the result add up to the conversions that have a touch,  *)
(* and none goes to the touch of another visitor: for any log, range and   *)
(* kinds of conversions, however many touches a conversion has.            *)
THEOREM CreditsAreHandedOut == LogInit /\ [][LogNext]_log => []CreditsAddUp
<1>1. LogShape => CreditsAddUp
  <2> SUFFICES ASSUME LogShape, NEW model \in AttributionModel, NEW kinds \in Conversions
               PROVE  /\ Attributed(model, kinds)
                           = Whole * Cardinality({c \in InCreditRange :
                                                    log[c].kind \in kinds /\ log[c].session # 0
                                                    /\ \E h \in DOMAIN log : OwnTouch(c, h)})
                      /\ \A c \in Conv(kinds) : \A h \in Prefix(c) : OwnTouch(c, h)
    BY DEF CreditsAddUp
  <2> DEFINE C == {c \in Conv(kinds) : Prefix(c) # {}}
  <2>1. \A c \in Conv(kinds) : c \in InCreditRange /\ HasSession(c)
    BY DEF Conv
  <2>2. \A c \in Conv(kinds) : \A h \in Prefix(c) : OwnTouch(c, h)
    BY <2>1, TouchesAreOwn
  <2>3. C = {c \in InCreditRange : log[c].kind \in kinds /\ log[c].session # 0
                                   /\ \E h \in DOMAIN log : OwnTouch(c, h)}
    <3>1. Conv(kinds) = {c \in InCreditRange : log[c].kind \in kinds /\ log[c].session # 0}
      BY DEF Conv, HasSession
    <3>2. \A c \in Conv(kinds) : Prefix(c) # {} <=> \E h \in DOMAIN log : OwnTouch(c, h)
      BY <2>1, TouchesAreOwn
    <3> QED
      BY <3>1, <3>2
  <2>4. Attributed(model, kinds) = Whole * Cardinality(C)
    <3>1. EventStats \subseteq {"page_view"}
      BY DEF EventStats, TouchNames
    <3>2. Attributed(model, kinds)
            = SumFunctionOnSet([name \in EventStats |-> ConvAgg(model, kinds, name)], EventStats)
      BY DEF Attributed, SumFunction
    <3>3. CASE EventStats = {}
      <4>1. HopRows = {}
        BY <3>3 DEF EventStats, HopRows
      <4>2. C = {} /\ Cardinality(C) = 0
        BY <4>1, FS_EmptySet DEF Prefix
      <4>3. SumFunctionOnSet([name \in EventStats |-> ConvAgg(model, kinds, name)], EventStats) = 0
        <5>1. IsFiniteSet(EventStats)
                /\ \A x \in EventStats : [name \in EventStats |-> ConvAgg(model, kinds, name)][x] \in Nat
          BY <3>3, FS_EmptySet
        <5> QED
          BY <3>3, <5>1, SumTaken
      <4> QED
        BY <3>2, <4>2, <4>3, CreditAssumption DEF CreditAssumption
    <3>4. CASE EventStats = {"page_view"}
      <4> DEFINE F == [name \in EventStats |-> ConvAgg(model, kinds, name)]
      <4>1. ConvAgg(model, kinds, "page_view") = Whole * Cardinality(C)
        BY AllConversions
      <4>2. Cardinality(C) \in Nat /\ Whole \in Nat
        <5>1. C \in SUBSET InCreditRange
          BY <2>1
        <5> QED
          BY <5>1, FiniteRange, CreditAssumption DEF CreditAssumption
      <4>3. F["page_view"] = Whole * Cardinality(C)
        BY <3>4, <4>1
      <4>4. F["page_view"] \in Nat
        BY <4>2, <4>3
      <4> HIDE DEF F
      <4>5. SumFunctionOnSet(F, {"page_view"}) = F["page_view"]
        BY <4>4, SumOfOne
      <4> QED
        BY <3>2, <3>4, <4>3, <4>5 DEF F
    <3> QED
      BY <3>1, <3>3, <3>4
  <2> QED
    BY <2>2, <2>3, <2>4
<1> QED
  BY <1>1, RowsKeepShape, PTL

-----------------------------------------------------------------------------
(* The funnel query.  Rows taken in their order, b remembers of each step  *)
(* the latest start of the chains that have come to it: a chain with an    *)
(* earlier start comes no further than one with a later start, so that one *)
(* start per step is enough.  This holds of every set of rows, and is shown*)
(* by taking away the last of them.                                        *)
Stage(step, depth) == step \in [DOMAIN log -> 0..depth]

LEMMA LogTypes ==
  ASSUME LogShape
  PROVE  /\ DOMAIN log = 1..Len(log) /\ Len(log) \in Nat /\ IsFiniteSet(DOMAIN log)
         /\ \A i \in DOMAIN log : log[i] \in Row /\ log[i].at \in Nat /\ log[i].kind \in Kind
<1>1. Len(log) \in Nat /\ DOMAIN log = 1..Len(log) /\ \A i \in DOMAIN log : log[i] \in Row
  BY DEF LogShape
<1>2. IsFiniteSet(1..Len(log))
  BY <1>1, FS_Interval
<1> QED
  BY <1>1, <1>2 DEF Row

Last(step, is) == CHOOSE i \in is : \A j \in is \ {i} : Earlier(step, j, i)

(* Of any rows one is the last.                                            *)
LEMMA LastRow ==
  ASSUME LogShape, NEW depth \in Nat, NEW step, Stage(step, depth),
         NEW is \in SUBSET DOMAIN log, is # {}
  PROVE  Last(step, is) \in is /\ \A j \in is \ {Last(step, is)} : Earlier(step, j, Last(step, is))
<1> DEFINE Is(s, i) == \A j \in s \ {i} : Earlier(step, j, i)
           T == {s \in SUBSET is : s # {} /\ ~\E i \in s : Is(s, i)}
<1>1. \A i, j \in DOMAIN log : i # j => Earlier(step, i, j) \/ Earlier(step, j, i)
  BY LogTypes DEF Earlier, Stage
<1>2. \A i, j, k \in DOMAIN log : Earlier(step, i, j) /\ Earlier(step, j, k) => Earlier(step, i, k)
  BY LogTypes DEF Earlier, Stage
<1>3. IsFiniteSet(is)
  BY LogTypes, FS_Subset
<1>4. ASSUME T # {} PROVE FALSE
  <2>0. T \in SUBSET (SUBSET is)
    OBVIOUS
  <2>1. PICK s \in T : \A t \in SUBSET s : t # s => t \notin T
    <3> HIDE DEF T
    <3> QED
      BY <1>3, <1>4, <2>0, SmallestSubset
  <2>2. PICK x \in s : TRUE
    BY <2>1
  <2>3. s \ {x} # {}
    <3>1. Is({x}, x)
      OBVIOUS
    <3>2. s \ {x} = {} => s = {x}
      OBVIOUS
    <3> QED
      BY <2>1, <3>1, <3>2
  <2>4. s \ {x} \notin T /\ s \ {x} \in SUBSET is
    BY <2>1, <2>2
  <2>5. PICK m \in s \ {x} : Is(s \ {x}, m)
    BY <2>3, <2>4
  <2>6. x \in DOMAIN log /\ m \in DOMAIN log /\ s \subseteq DOMAIN log /\ x # m
    BY <2>1, <2>2, <2>5
  <2>7. CASE Earlier(step, x, m)
    <3>1. Is(s, m)
      BY <2>5, <2>7
    <3> QED
      BY <2>1, <2>5, <3>1
  <2>8. CASE Earlier(step, m, x)
    <3>1. ASSUME NEW j \in s \ {x} PROVE Earlier(step, j, x)
      BY <1>2, <2>5, <2>6, <2>8, <3>1
    <3> QED
      BY <2>1, <2>2, <3>1
  <2> QED
    BY <1>1, <2>6, <2>7, <2>8
<1>5. \E i \in is : Is(is, i)
  BY <1>4
<1> QED
  BY <1>5 DEF Last

(* Chains of k rows of s, within the window.                               *)
Chains(step, window, s, k) ==
  {c \in [1..k -> s] :
     /\ \A j \in 1..k : step[c[j]] = j
     /\ \A j \in 1..(k - 1) : log[c[j]].at <= log[c[j + 1]].at
     /\ log[c[k]].at <= log[c[1]].at + window}

(* What b is to be for the rows s.                                         *)
Latest(step, depth, window, s, b) ==
  /\ b \in [1..depth -> Nat]
  /\ \A k \in 1..depth :
       /\ b[k] # 0 => \E c \in Chains(step, window, s, k) : b[k] = log[c[1]].at + 1
       /\ \A c \in Chains(step, window, s, k) : log[c[1]].at + 1 <= b[k]

(* Without its last row a chain is a chain.                                *)
LEMMA ChainShort ==
  ASSUME LogShape, NEW step, NEW window \in Nat, NEW s \in SUBSET DOMAIN log, NEW k \in Nat, k > 1,
         NEW c \in Chains(step, window, s, k)
  PROVE  /\ [j \in 1..(k - 1) |-> c[j]] \in Chains(step, window, s, k - 1)
         /\ [j \in 1..(k - 1) |-> c[j]][1] = c[1]
<1> DEFINE d == [j \in 1..(k - 1) |-> c[j]]
<1>1. c \in [1..k -> s]
  BY DEF Chains
<1>2. d \in [1..(k - 1) -> s] /\ \A j \in 1..(k - 1) : d[j] = c[j] /\ c[j] \in s /\ log[c[j]].at \in Nat
  BY <1>1, LogTypes
<1>3. log[c[k - 1]].at <= log[c[k]].at /\ log[c[k]].at <= log[c[1]].at + window
  <2>1. k - 1 \in 1..(k - 1) /\ (k - 1) + 1 = k
    OBVIOUS
  <2> QED
    BY <2>1 DEF Chains
<1>4. c[k] \in s /\ c[k - 1] \in s /\ c[1] \in s /\ 1 \in 1..(k - 1) /\ k - 1 \in 1..(k - 1)
  BY <1>1
<1>5. log[c[k - 1]].at <= log[c[1]].at + window
  <2>1. log[c[k]].at \in Nat /\ log[c[k - 1]].at \in Nat /\ log[c[1]].at \in Nat
    BY <1>4, LogTypes
  <2> QED
    BY <1>3, <2>1
<1>6. \A j \in 1..((k - 1) - 1) : log[c[j]].at <= log[c[j + 1]].at /\ j \in 1..(k - 1) /\ j + 1 \in 1..(k - 1)
  BY DEF Chains
<1>7. \A j \in 1..(k - 1) : step[c[j]] = j
  BY DEF Chains
<1> HIDE DEF d
<1> QED
  BY <1>2, <1>4, <1>5, <1>6, <1>7 DEF Chains, d

(* The last row x can only end a chain: to another it adds nothing.        *)
LEMMA ChainsOfOthers ==
  ASSUME LogShape, NEW depth \in Nat, NEW step, Stage(step, depth), NEW window \in Nat,
         NEW s \in SUBSET DOMAIN log, NEW x \in s, \A j \in s \ {x} : Earlier(step, j, x),
         NEW k \in 1..depth, NEW c \in Chains(step, window, s, k),
         step[x] # k \/ c[k] # x
  PROVE  c \in Chains(step, window, s \ {x}, k)
<1>1. c \in [1..k -> s]
  BY DEF Chains
<1>2. ASSUME NEW j \in 1..k, c[j] = x PROVE FALSE
  <2>1. step[x] = j
    BY <1>2 DEF Chains
  <2>2. j < k
    BY <1>2, <2>1
  <2>3. j + 1 \in 1..k /\ j \in 1..(k - 1)
    BY <2>2
  <2>4. step[c[j + 1]] = j + 1 /\ log[x].at <= log[c[j + 1]].at /\ c[j + 1] \in s
    BY <1>1, <1>2, <2>3 DEF Chains
  <2>5. c[j + 1] # x
    BY <2>1, <2>4
  <2>6. Earlier(step, c[j + 1], x)
    BY <2>4, <2>5
  <2>7. log[x].at \in Nat /\ log[c[j + 1]].at \in Nat
    BY <2>4, LogTypes
  <2> QED
    BY <2>1, <2>4, <2>6, <2>7 DEF Earlier
<1>3. c \in [1..k -> s \ {x}]
  BY <1>1, <1>2
<1> QED
  BY <1>3 DEF Chains

LEMMA ChainsGrow ==
  ASSUME NEW step, NEW window, NEW s, NEW r \in SUBSET s, NEW k
  PROVE  Chains(step, window, r, k) \subseteq Chains(step, window, s, k)
<1>1. [1..k -> r] \subseteq [1..k -> s]
  OBVIOUS
<1> QED
  BY <1>1 DEF Chains

(* One row more.  A chain that comes to the step of x comes by a chain to  *)
(* the step before, and the one with the latest start serves as well.      *)
LEMMA LatestStep ==
  ASSUME LogShape, NEW depth \in Nat, NEW step, Stage(step, depth), NEW window \in Nat,
         NEW s \in SUBSET DOMAIN log, NEW x \in s, \A j \in s \ {x} : Earlier(step, j, x),
         NEW b, Latest(step, depth, window, s \ {x}, b)
  PROVE  Latest(step, depth, window, s, Advance(step, window, x, b))
<1> DEFINE r == s \ {x}
           t == log[x].at + 1
           q == step[x]
           a == Advance(step, window, x, b)
<1>1. x \in DOMAIN log /\ log[x].at \in Nat /\ q \in 0..depth /\ r \in SUBSET DOMAIN log
  BY LogTypes DEF Stage
<1>2. /\ b \in [1..depth -> Nat]
      /\ \A k \in 1..depth :
           /\ b[k] # 0 => \E c \in Chains(step, window, r, k) : b[k] = log[c[1]].at + 1
           /\ \A c \in Chains(step, window, r, k) : log[c[1]].at + 1 <= b[k]
  BY DEF Latest
<1> DEFINE Moves == q > 1 /\ b[q - 1] > 0 /\ t <= b[q - 1] + window
<1>3. /\ q = 1 => a = [b EXCEPT ![1] = t]
      /\ Moves => a = [b EXCEPT ![q] = b[q - 1]]
      /\ q # 1 /\ ~Moves => a = b
  BY DEF Advance
<1>4. /\ a \in [1..depth -> Nat]
      /\ q = 1 => a[1] = t
      /\ Moves => a[q] = b[q - 1]
      /\ q # 1 /\ ~Moves => a = b
      /\ \A k \in 1..depth : k # q => a[k] = b[k]
  <2>1. CASE q = 1
    BY <1>1, <1>2, <1>3, <2>1
  <2>2. CASE Moves
    <3>1. q - 1 \in 1..depth /\ q \in 1..depth
      BY <1>1, <2>2
    <3>2. b[q - 1] \in Nat
      BY <1>2, <3>1
    <3> QED
      BY <1>2, <1>3, <2>2, <3>1, <3>2
  <2>3. CASE q # 1 /\ ~Moves
    BY <1>2, <1>3, <2>3
  <2> QED
    BY <2>1, <2>2, <2>3
<1> HIDE DEF a, Moves
<1>5. ASSUME NEW k \in 1..depth
      PROVE  Chains(step, window, r, k) \subseteq Chains(step, window, s, k)
  BY ChainsGrow
<1>6. ASSUME NEW k \in 1..depth, NEW c \in Chains(step, window, s, k), q # k \/ c[k] # x
      PROVE  c \in Chains(step, window, r, k)
  BY <1>6, ChainsOfOthers
<1>7. ASSUME NEW k \in 1..depth, k # q
      PROVE  /\ a[k] # 0 => \E c \in Chains(step, window, s, k) : a[k] = log[c[1]].at + 1
             /\ \A c \in Chains(step, window, s, k) : log[c[1]].at + 1 <= a[k]
  <2>1. a[k] = b[k] /\ Chains(step, window, s, k) = Chains(step, window, r, k)
    BY <1>4, <1>5, <1>6, <1>7
  <2> QED
    BY <1>2, <2>1
<1>8. ASSUME q = 1, 1 \in 1..depth
      PROVE  /\ \E c \in Chains(step, window, s, 1) : a[1] = log[c[1]].at + 1
             /\ \A c \in Chains(step, window, s, 1) : log[c[1]].at + 1 <= a[1]
  <2> DEFINE c == [j \in 1..1 |-> x]
  <2>1. c \in [1..1 -> s] /\ c[1] = x /\ \A j \in 1..1 : j = 1
    OBVIOUS
  <2>2. c \in Chains(step, window, s, 1)
    <3>1. log[x].at <= log[x].at + window /\ ~\E j \in 1..(1 - 1) : TRUE
      BY <1>1
    <3> HIDE DEF c
    <3> QED
      BY <1>8, <2>1, <3>1 DEF Chains
  <2>3. ASSUME NEW d \in Chains(step, window, s, 1) PROVE log[d[1]].at <= log[x].at
    <3>1. d[1] \in s
      BY DEF Chains
    <3>2. CASE d[1] = x
      BY <1>1, <3>2
    <3>3. CASE d[1] # x
      <4>1. Earlier(step, d[1], x) /\ log[d[1]].at \in Nat
        BY <3>1, <3>3, LogTypes
      <4> QED
        BY <1>1, <4>1 DEF Earlier
    <3> QED
      BY <3>2, <3>3
  <2>4. ASSUME NEW d \in Chains(step, window, s, 1) PROVE log[d[1]].at + 1 <= log[x].at + 1
    <3>1. d[1] \in s
      BY DEF Chains
    <3>2. log[d[1]].at \in Nat
      BY <3>1, LogTypes
    <3> QED
      BY <1>1, <2>3, <3>2
  <2> QED
    BY <1>4, <1>8, <2>1, <2>2, <2>4
<1>9. ASSUME q > 1
      PROVE  /\ a[q] # 0 => \E c \in Chains(step, window, s, q) : a[q] = log[c[1]].at + 1
             /\ \A c \in Chains(step, window, s, q) : log[c[1]].at + 1 <= a[q]
  <2>1. q \in 1..depth /\ q - 1 \in 1..depth /\ q \in Nat /\ q - 1 # q
    BY <1>1, <1>9
  <2>2. b[q] \in Nat /\ b[q - 1] \in Nat
    BY <1>2, <2>1
  <2>3. ASSUME NEW c \in Chains(step, window, s, q)
        PROVE  log[c[1]].at + 1 <= b[q - 1]
    <3> DEFINE d == [j \in 1..(q - 1) |-> c[j]]
    <3>1. d \in Chains(step, window, s, q - 1) /\ d[1] = c[1]
      BY <1>9, <2>1, ChainShort
    <3> HIDE DEF d
    <3>2. d \in Chains(step, window, r, q - 1)
      BY <1>6, <2>1, <3>1
    <3> QED
      BY <1>2, <2>1, <3>1, <3>2
  <2>4. CASE Moves
    <3>1. a[q] = b[q - 1] /\ b[q - 1] > 0 /\ t <= b[q - 1] + window
      BY <1>4, <2>4 DEF Moves
    <3>2. PICK d \in Chains(step, window, r, q - 1) : b[q - 1] = log[d[1]].at + 1
      <4>1. b[q - 1] # 0
        BY <2>2, <3>1
      <4> QED
        BY <1>2, <2>1, <4>1
    <3>3. d \in [1..(q - 1) -> r]
      BY DEF Chains
    <3> DEFINE c == [j \in 1..q |-> IF j = q THEN x ELSE d[j]]
    <3>4. c \in [1..q -> s] /\ c[q] = x /\ \A j \in 1..(q - 1) : c[j] = d[j] /\ d[j] \in r
      <4>1. \A j \in 1..q : j = q \/ j \in 1..(q - 1)
        BY <2>1
      <4>2. q \in 1..q /\ q \notin 1..(q - 1) /\ 1..(q - 1) \subseteq 1..q
        BY <2>1
      <4> QED
        BY <3>3, <4>1, <4>2
    <3> HIDE DEF c
    <3>5. 1 \in 1..(q - 1) /\ c[1] = d[1]
      BY <1>9, <2>1, <3>4
    <3>6. \A j \in 1..q : step[c[j]] = j
      <4>1. \A j \in 1..q : j = q \/ j \in 1..(q - 1)
        BY <2>1
      <4>2. \A j \in 1..(q - 1) : step[d[j]] = j
        BY DEF Chains
      <4> QED
        BY <3>4, <4>1, <4>2
    <3>7. \A j \in 1..(q - 1) : log[c[j]].at <= log[c[j + 1]].at
      <4>1. ASSUME NEW j \in 1..(q - 1), j # q - 1 PROVE log[c[j]].at <= log[c[j + 1]].at
        <5>1. j \in 1..((q - 1) - 1) /\ j + 1 \in 1..(q - 1)
          BY <2>1, <4>1
        <5>2. log[d[j]].at <= log[d[j + 1]].at
          BY <5>1 DEF Chains
        <5> QED
          BY <3>4, <5>1, <5>2
      <4>2. log[c[q - 1]].at <= log[c[(q - 1) + 1]].at
        <5>1. q - 1 \in 1..(q - 1) /\ (q - 1) + 1 = q
          BY <1>9, <2>1
        <5>2. c[q - 1] = d[q - 1] /\ d[q - 1] \in r /\ c[(q - 1) + 1] = x
          BY <3>4, <5>1
        <5>3. Earlier(step, d[q - 1], x) /\ log[d[q - 1]].at \in Nat
          BY <5>2, LogTypes
        <5>4. log[d[q - 1]].at <= log[x].at
          BY <1>1, <5>3 DEF Earlier
        <5> QED
          BY <5>2, <5>4
      <4> QED
        BY <4>1, <4>2
    <3>8. log[c[q]].at <= log[c[1]].at + window
      <4>1. d[1] \in r /\ log[d[1]].at \in Nat
        BY <3>4, <3>5, LogTypes
      <4>2. log[x].at <= log[d[1]].at + window
        BY <1>1, <3>1, <3>2, <4>1
      <4> QED
        BY <3>4, <3>5, <4>2
    <3>9. c \in Chains(step, window, s, q)
      BY <3>4, <3>6, <3>7, <3>8 DEF Chains
    <3> QED
      BY <2>3, <3>1, <3>2, <3>5, <3>9
  <2>5. CASE ~Moves
    <3>1. a[q] = b[q]
      BY <1>4, <1>9, <2>5
    <3>2. ASSUME NEW c \in Chains(step, window, s, q) PROVE c[q] # x
      <4> SUFFICES ASSUME c[q] = x PROVE FALSE
        OBVIOUS
      <4>1. c[1] \in s /\ log[c[1]].at \in Nat
        <5>1. c \in [1..q -> s] /\ 1 \in 1..q
          BY <2>1 DEF Chains
        <5> QED
          BY <5>1, LogTypes
      <4>2. log[x].at <= log[c[1]].at + window
        BY DEF Chains
      <4>3. log[c[1]].at + 1 <= b[q - 1]
        BY <2>3
      <4>4. b[q - 1] > 0 /\ t <= b[q - 1] + window
        BY <1>1, <2>2, <4>1, <4>2, <4>3
      <4> QED
        BY <1>9, <2>5, <4>4 DEF Moves
    <3>3. Chains(step, window, s, q) = Chains(step, window, r, q)
      BY <1>5, <1>6, <2>1, <3>2
    <3> QED
      BY <1>2, <2>1, <3>1, <3>3
  <2> QED
    BY <2>4, <2>5
<1>10. ASSUME NEW k \in 1..depth
       PROVE  /\ a[k] # 0 => \E c \in Chains(step, window, s, k) : a[k] = log[c[1]].at + 1
              /\ \A c \in Chains(step, window, s, k) : log[c[1]].at + 1 <= a[k]
  <2>1. k # q \/ (k = q /\ q = 1) \/ (k = q /\ q > 1)
    BY <1>1
  <2> QED
    BY <1>7, <1>8, <1>9, <2>1
<1> QED
  BY <1>4, <1>10 DEF Latest, a

(* windowFunnel remembers of each step the latest start of a chain.        *)
Started(step, depth, window, rows) ==
  MapThenFoldSet(LAMBDA i, b : Advance(step, window, i, b), [s \in 1..depth |-> 0],
                 LAMBDA i : i, LAMBDA is : Last(step, is), rows)

LEMMA StartedIsLatest ==
  ASSUME LogShape, NEW depth \in Nat, NEW step, Stage(step, depth), NEW window \in Nat,
         NEW rows \in SUBSET DOMAIN log
  PROVE  Latest(step, depth, window, rows, Started(step, depth, window, rows))
<1> DEFINE none == [s \in 1..depth |-> 0]
           B == [1..depth -> Nat]
           Eq(h) == h = [s \in SUBSET rows |->
                           IF s = {} THEN none
                           ELSE Advance(step, window, Last(step, s), h[s \ {Last(step, s)}])]
           it == CHOOSE h : Eq(h)
           ch == [s \in SUBSET rows |-> Last(step, s)]
           G == [p \in rows \X B |-> Advance(step, window, p[1], p[2])]
<1>1. IsFiniteSet(rows) /\ none \in B
  BY LogTypes, FS_Subset
<1>2. ASSUME NEW s \in SUBSET rows, s # {}
      PROVE  /\ ch[s] \in s /\ ch[s] = Last(step, s)
             /\ \A j \in s \ {Last(step, s)} : Earlier(step, j, Last(step, s))
  <2>1. s \in SUBSET DOMAIN log
    OBVIOUS
  <2> QED
    BY <1>2, <2>1, LastRow
<1>3. ASSUME NEW x \in rows, NEW b \in B
      PROVE  G[<<x, b>>] \in B /\ G[<<x, b>>] = Advance(step, window, x, b)
  <2>1. G[<<x, b>>] = Advance(step, window, x, b)
    OBVIOUS
  <2>2. step[x] \in 0..depth /\ log[x].at \in Nat
    BY LogTypes DEF Stage
  <2>3. Advance(step, window, x, b) \in B
    <3>1. step[x] > 1 => step[x] - 1 \in 1..depth
      BY <2>2
    <3>2. step[x] > 1 => b[step[x] - 1] \in Nat
      BY <3>1
    <3> QED
      BY <2>2, <3>2 DEF Advance
  <2> QED
    BY <2>1, <2>3
<1> HIDE DEF none, B, G, ch
<1>4. PICK g \in [SUBSET rows -> B] : IsFold(g, SUBSET rows, none, ch, G)
  BY <1>1, <1>2, <1>3, FoldExists
<1>5. Eq(g)
  <2>1. ASSUME NEW s \in SUBSET rows
        PROVE  g[s] = IF s = {} THEN none ELSE Advance(step, window, Last(step, s), g[s \ {Last(step, s)}])
    <3>1. CASE s = {}
      BY <1>4, <3>1 DEF IsFold
    <3>2. CASE s # {}
      <4>1. ch[s] \in rows /\ ch[s] = Last(step, s) /\ g[s \ {ch[s]}] \in B
        BY <1>2, <1>4, <3>2
      <4>2. g[s] = G[<<ch[s], g[s \ {ch[s]}]>>]
        BY <1>4, <3>2 DEF IsFold
      <4> QED
        BY <1>3, <3>2, <4>1, <4>2
    <3> QED
      BY <3>1, <3>2
  <2> QED
    BY <1>4, <2>1
<1>6. Eq(it)
  <2> HIDE DEF Eq
  <2> QED
    BY <1>5
<1>7. \A s \in SUBSET rows :
        it[s] = IF s = {} THEN none ELSE Advance(step, window, Last(step, s), it[s \ {Last(step, s)}])
  BY <1>6
<1>8. Started(step, depth, window, rows) = it[rows]
  BY DEF Started, MapThenFoldSet, none
<1> HIDE DEF it, Eq
<1> DEFINE T == {s \in SUBSET rows : ~Latest(step, depth, window, s, it[s])}
<1>9. ASSUME T # {} PROVE FALSE
  <2>0. T \in SUBSET (SUBSET rows)
    OBVIOUS
  <2>1. PICK s \in T : \A u \in SUBSET s : u # s => u \notin T
    <3> HIDE DEF T
    <3> QED
      BY <1>1, <1>9, <2>0, SmallestSubset
  <2>2. s # {}
    <3>1. ASSUME NEW k \in 1..depth PROVE Chains(step, window, {}, k) = {}
      <4>1. \A c \in Chains(step, window, {}, k) : c[1] \in {}
        BY DEF Chains
      <4> QED
        BY <4>1
    <3>2. none \in [1..depth -> Nat] /\ \A k \in 1..depth : none[k] = 0
      BY DEF none
    <3>3. Latest(step, depth, window, {}, none)
      BY <3>1, <3>2 DEF Latest
    <3> QED
      BY <1>7, <2>1, <3>3
  <2>3. PICK x \in s : x = Last(step, s) /\ \A j \in s \ {x} : Earlier(step, j, x)
    BY <1>2, <2>1, <2>2
  <2>4. Latest(step, depth, window, s \ {x}, it[s \ {x}])
    BY <2>1, <2>3
  <2>5. it[s] = Advance(step, window, x, it[s \ {x}])
    BY <1>7, <2>1, <2>2, <2>3
  <2>6. s \in SUBSET DOMAIN log
    BY <2>1
  <2>7. Latest(step, depth, window, s, it[s])
    BY <2>3, <2>4, <2>5, <2>6, LatestStep
  <2> QED
    BY <2>1, <2>7
<1> QED
  BY <1>8, <1>9

(* The level of an entity is the longest chain of its rows.                *)
LEMMA Reached ==
  ASSUME LogShape, NEW depth \in Nat, NEW step, Stage(step, depth), NEW window \in Nat,
         NEW rows \in SUBSET DOMAIN log, NEW n \in 1..depth
  PROVE  /\ WindowFunnel(step, depth, window, rows) \in 0..depth
         /\ WindowFunnel(step, depth, window, rows) >= n <=> Chains(step, window, rows, n) # {}
<1> DEFINE b == Started(step, depth, window, rows)
           far == {s \in 1..depth : b[s] > 0}
           w == WindowFunnel(step, depth, window, rows)
<1>1. w = IF far = {} THEN 0 ELSE CHOOSE s \in far : \A t \in far : t <= s
  BY DEF WindowFunnel, Started, Last
<1>2. Latest(step, depth, window, rows, b)
  BY StartedIsLatest
<1> HIDE DEF b, w
<1>3. \A k \in 1..depth : b[k] \in Nat
  BY <1>2 DEF Latest
<1>4. ASSUME NEW k \in 1..depth
      PROVE  b[k] > 0 <=> Chains(step, window, rows, k) # {}
  <2>1. ASSUME b[k] > 0 PROVE Chains(step, window, rows, k) # {}
    BY <1>2, <1>3, <2>1 DEF Latest
  <2>2. ASSUME NEW c \in Chains(step, window, rows, k) PROVE b[k] > 0
    <3>1. c[1] \in rows
      BY DEF Chains
    <3>2. log[c[1]].at \in Nat
      BY <3>1, LogTypes
    <3>3. log[c[1]].at + 1 <= b[k]
      BY <1>2 DEF Latest
    <3> QED
      BY <1>3, <3>2, <3>3
  <2> QED
    BY <2>1, <2>2
<1>5. ASSUME NEW t \in far, n <= t PROVE b[n] > 0
  <2>1. t \in 1..depth /\ b[t] > 0
    OBVIOUS
  <2> DEFINE E == {k \in 1..depth : n <= k /\ b[k] > 0}
  <2>2. E \in SUBSET Nat /\ t \in E
    BY <1>5, <2>1
  <2>3. PICK k \in E : \A y \in E : k <= y
    <3> HIDE DEF E
    <3> QED
      BY <2>2, Smallest
  <2>4. CASE k = n
    BY <2>3, <2>4
  <2>5. CASE k # n
    <3>1. k > 1 /\ k \in Nat /\ k - 1 \in 1..depth /\ n <= k - 1 /\ k \in 1..depth
      BY <2>3, <2>5
    <3>2. PICK c \in Chains(step, window, rows, k) : TRUE
      BY <1>4, <2>3, <3>1
    <3>3. Chains(step, window, rows, k - 1) # {}
      BY <3>1, <3>2, ChainShort
    <3>4. k - 1 \in E
      BY <1>4, <3>1, <3>3
    <3>5. k <= k - 1
      <4> HIDE DEF E
      <4> QED
        BY <2>3, <3>4
    <3> QED
      BY <3>1, <3>5
  <2> QED
    BY <2>4, <2>5
<1>6. CASE far = {}
  <2>1. w = 0 /\ ~(b[n] > 0)
    BY <1>1, <1>6
  <2> QED
    BY <1>4, <2>1 DEF w
<1>7. CASE far # {}
  <2>1. PICK l \in far : \A i \in far : i <= l
    <3>1. far \in SUBSET (1..depth)
      OBVIOUS
    <3> HIDE DEF far
    <3> QED
      BY <1>7, <3>1, FirstAndLast
  <2>2. w \in far /\ \A i \in far : i <= w
    <3> HIDE DEF far
    <3> QED
      BY <1>1, <1>7, <2>1
  <2>3. w \in 1..depth
    BY <2>2
  <2>4. w >= n => b[n] > 0
    BY <1>5, <2>2
  <2>5. b[n] > 0 => w >= n
    BY <2>2, <2>3
  <2> QED
    BY <1>4, <2>3, <2>4, <2>5 DEF w
<1> QED
  BY <1>6, <1>7

(* The step of a row takes it, and where steps differ no other does.       *)
LEMMA Steps ==
  ASSUME LogShape, NEW steps \in Funnels
  PROVE  /\ Len(steps) \in Nat /\ DOMAIN steps = 1..Len(steps) /\ Stage(StepOf(steps), Len(steps))
         /\ \A i \in DOMAIN log, s \in DOMAIN steps :
              /\ StepOf(steps)[i] = s => log[i].kind \in steps[s]
              /\ StepsDiffer(steps) /\ log[i].kind \in steps[s] => StepOf(steps)[i] = s
<1>1. Len(steps) \in Nat /\ DOMAIN steps = 1..Len(steps)
  BY FunnelAssumption DEF FunnelAssumption
<1>2. ASSUME NEW i \in DOMAIN log
      PROVE  LET taking == {s \in DOMAIN steps : log[i].kind \in steps[s]} IN
             \/ taking = {} /\ StepOf(steps)[i] = 0
             \/ taking # {} /\ StepOf(steps)[i] \in taking
  <2> DEFINE taking == {s \in DOMAIN steps : log[i].kind \in steps[s]}
  <2>1. StepOf(steps)[i] = IF taking = {} THEN 0 ELSE CHOOSE s \in taking : \A t \in taking : s <= t
    BY DEF StepOf
  <2>2. taking # {} => \E s \in taking : \A t \in taking : s <= t
    <3>1. taking \in SUBSET Nat
      BY <1>1
    <3> HIDE DEF taking
    <3> QED
      BY <3>1, Smallest
  <2> HIDE DEF taking
  <2>3. taking # {} => StepOf(steps)[i] \in taking
    BY <2>1, <2>2
  <2> QED
    BY <2>1, <2>3 DEF taking
<1>3. Stage(StepOf(steps), Len(steps))
  <2>1. StepOf(steps) = [i \in DOMAIN log |-> StepOf(steps)[i]]
    BY DEF StepOf
  <2>2. \A i \in DOMAIN log : StepOf(steps)[i] \in 0..Len(steps)
    BY <1>1, <1>2
  <2> QED
    BY <2>1, <2>2 DEF Stage
<1>4. ASSUME NEW i \in DOMAIN log, NEW s \in DOMAIN steps
      PROVE  /\ StepOf(steps)[i] = s => log[i].kind \in steps[s]
             /\ StepsDiffer(steps) /\ log[i].kind \in steps[s] => StepOf(steps)[i] = s
  <2>1. s # 0
    BY <1>1
  <2> QED
    BY <1>2, <2>1 DEF StepsDiffer
<1> QED
  BY <1>1, <1>3, <1>4

(* The funnel counts at each step those that have a chain of rows to it,   *)
(* and where a row fits two steps none that have not: for any log, window, *)
(* range and funnel, however many steps it has.                            *)
THEOREM FunnelIsExact == LogInit /\ [][LogNext]_log => []FunnelCountsChains
<1>1. LogShape => FunnelCountsChains
  <2> SUFFICES ASSUME LogShape,
                      NEW steps \in Funnels, NEW window \in FunnelWindows, NEW type \in FunnelType,
                      NEW n \in DOMAIN steps
               PROVE  LET level == Levels(type, steps, window)
                          entities == {FunnelEntity(type, i) : i \in DOMAIN log}
                          chained == Cardinality({x \in entities : HasChain(type, steps, window, n, x)})
                      IN /\ FunnelCount(level, n) <= chained
                         /\ StepsDiffer(steps) => FunnelCount(level, n) = chained
    BY DEF FunnelCountsChains
  <2> DEFINE step == StepOf(steps)
             depth == Len(steps)
             inRange == Between(FunnelRange[1], FunnelRange[2])
             staged == {i \in inRange : step[i] > 0}
             rowsOf(x) == {i \in staged : FunnelEntity(type, i) = x}
             level == Levels(type, steps, window)
             entities == {FunnelEntity(type, i) : i \in DOMAIN log}
             counted == {x \in DOMAIN level : level[x] >= n}
             come == {x \in entities : HasChain(type, steps, window, n, x)}
  <2>1. /\ depth \in Nat /\ DOMAIN steps = 1..depth /\ Stage(step, depth)
        /\ \A i \in DOMAIN log, s \in DOMAIN steps :
              /\ step[i] = s => log[i].kind \in steps[s]
              /\ StepsDiffer(steps) /\ log[i].kind \in steps[s] => step[i] = s
    BY Steps
  <2>2. window \in Nat /\ n \in 1..depth
    BY <2>1, FunnelAssumption DEF FunnelAssumption
  <2>3. DOMAIN level = {FunnelEntity(type, i) : i \in staged}
        /\ \A x \in DOMAIN level : level[x] = WindowFunnel(step, depth, window, rowsOf(x))
    BY DEF Levels
  <2>4. inRange \subseteq DOMAIN log /\ staged \subseteq inRange
    BY DEF Between
  <2> HIDE DEF step, depth, level, inRange
  <2>5. \A x : rowsOf(x) \in SUBSET DOMAIN log
    BY <2>4
  <2>6. ASSUME NEW x \in DOMAIN level
        PROVE  level[x] >= n <=> Chains(step, window, rowsOf(x), n) # {}
    <3>1. rowsOf(x) \in SUBSET DOMAIN log
      BY <2>5
    <3>2. level[x] = WindowFunnel(step, depth, window, rowsOf(x))
      BY <2>3
    <3> HIDE DEF rowsOf
    <3>3. WindowFunnel(step, depth, window, rowsOf(x)) >= n
               <=> Chains(step, window, rowsOf(x), n) # {}
      BY <2>1, <2>2, <3>1, Reached
    <3> QED
      BY <3>2, <3>3
  <2>7. ASSUME NEW x \in counted PROVE x \in come
    <3>1. x \in entities
      BY <2>3, <2>4
    <3>2. PICK c \in Chains(step, window, rowsOf(x), n) : TRUE
      BY <2>6
    <3>3. c \in [1..n -> rowsOf(x)] /\ \A s \in 1..n : step[c[s]] = s
      BY DEF Chains
    <3> DEFINE rows == {i \in inRange : FunnelEntity(type, i) = x}
               fits == [s \in 1..n |-> {i \in rows : log[i].kind \in steps[s]}]
    <3>4. ASSUME NEW s \in 1..n PROVE c[s] \in fits[s] /\ c[s] \in rows
      <4>1. c[s] \in rows /\ c[s] \in DOMAIN log /\ step[c[s]] = s
        BY <2>4, <3>3
      <4>2. s \in DOMAIN steps
        BY <2>1, <2>2
      <4> QED
        BY <2>1, <4>1, <4>2
    <3>5. c \in [1..n -> rows]
      BY <3>3, <3>4
    <3>6. /\ \A s \in 1..(n - 1) : log[c[s]].at <= log[c[s + 1]].at
          /\ log[c[n]].at <= log[c[1]].at + window
      BY DEF Chains
    <3>7. HasChain(type, steps, window, n, x)
      BY <3>4, <3>5, <3>6 DEF HasChain, inRange
    <3> QED
      BY <3>1, <3>7
  <2>8. ASSUME StepsDiffer(steps), NEW x \in come PROVE x \in counted
    <3> DEFINE rows == {i \in inRange : FunnelEntity(type, i) = x}
    <3>1. PICK c \in [1..n -> rows] :
            /\ \A s \in 1..n : log[c[s]].kind \in steps[s]
            /\ \A s \in 1..(n - 1) : log[c[s]].at <= log[c[s + 1]].at
            /\ log[c[n]].at <= log[c[1]].at + window
      BY DEF HasChain, inRange
    <3>2. ASSUME NEW s \in 1..n PROVE c[s] \in rowsOf(x) /\ step[c[s]] = s
      <4>1. s \in DOMAIN steps /\ s > 0
        BY <2>1, <2>2
      <4>2. c[s] \in rows /\ c[s] \in DOMAIN log
        BY <2>4, <3>1
      <4>3. step[c[s]] = s
        BY <2>1, <2>8, <3>1, <4>1, <4>2
      <4> QED
        BY <4>1, <4>2, <4>3
    <3>3. c \in Chains(step, window, rowsOf(x), n)
      BY <3>1, <3>2 DEF Chains
    <3>4. x \in DOMAIN level
      <4>1. c[n] \in rowsOf(x)
        BY <2>2, <3>2
      <4> QED
        BY <2>3, <4>1
    <3> QED
      BY <2>6, <3>3, <3>4
  <2>9. IsFiniteSet(come) /\ Cardinality(come) \in Nat
    <3>1. IsFiniteSet(entities)
      <4> DEFINE f == [i \in DOMAIN log |-> FunnelEntity(type, i)]
      <4>1. f \in Surjection(DOMAIN log, entities)
        BY DEF Surjection
      <4> QED
        BY <4>1, LogTypes, FS_Surjection
    <3>2. come \in SUBSET entities
      OBVIOUS
    <3> HIDE DEF entities, come
    <3> QED
      BY <3>1, <3>2, FS_Subset, FS_CardinalityType
  <2>10. Cardinality(counted) <= Cardinality(come)
    <3>1. counted \in SUBSET come
      BY <2>7
    <3> HIDE DEF counted, come
    <3> QED
      BY <2>9, <3>1, FS_Subset
  <2>11. StepsDiffer(steps) => Cardinality(counted) = Cardinality(come)
    <3>1. StepsDiffer(steps) => counted = come
      BY <2>7, <2>8
    <3> QED
      BY <3>1
  <2> QED
    BY <2>10, <2>11 DEF FunnelCount, level
<1> QED
  BY <1>1, RowsKeepShape, PTL

-----------------------------------------------------------------------------
(* User paths.  The order of the edges is why no cycle is drawn: once an   *)
(* edge has left a node, the counter of its event has passed the node, and *)
(* no later edge can enter it.                                             *)
Drawn == (Node \X Nat) \X (Events \X Nat)

(* The counter of an event has passed every copy of it an edge has left.   *)
Passed == \A j \in DOMAIN split : split[j][1][2] < counter[split[j][1][1]]

(* No edge enters what itself or an earlier edge has left.                 *)
Forward == \A j, k \in DOMAIN split : j <= k => split[k][2] # split[j][1]

PathInv == PathTypeOK /\ Passed /\ Forward

LEMMA EdgeListsAreSequences == EdgeLists \subseteq Seq(Edge)
BY DEF EdgeLists

LEMMA SplitKeeps == PathInv /\ Split => PathInv'
<1>. SUFFICES ASSUME PathInv, Split PROVE PathInv'
  OBVIOUS
<1>. DEFINE e == edgeList[done + 1]
            into == IF e.source = e.target \/ ReverseCycle(e) THEN counter[e.target] + 1
                    ELSE counter[e.target]
            new == <<<<e.source, counter[e.source]>>, <<e.target, into>>>>
<1>1. e \in Edge /\ e.source \in Node /\ e.target \in Node
  <2>1. edgeList \in Seq(Edge) /\ Len(edgeList) \in Nat /\ done \in Nat
    BY EdgeListsAreSequences DEF PathInv, PathTypeOK
  <2>2. done + 1 \in 1..Len(edgeList)
    BY <2>1 DEF Split
  <2>3. e \in Edge
    BY <2>1, <2>2
  <2>. QED BY <2>3 DEF Edge, Node
<1>0. e.target \in Events
  BY <1>1 DEF Edge
<1>2. /\ counter[e.source] \in Nat /\ counter[e.target] \in Nat
      /\ into \in Nat /\ into >= counter[e.target]
      /\ e.source = e.target => into = counter[e.target] + 1
  BY <1>1 DEF PathInv, PathTypeOK
<1>3. new \in Drawn
  BY <1>0, <1>1, <1>2 DEF Drawn
<1>4. /\ split' = Append(split, new) /\ done' = done + 1 /\ edgeList' = edgeList
      /\ counter' = [n \in Node |-> IF n = e.target THEN into
                                  ELSE IF n = e.source THEN counter[n] + 1 ELSE counter[n]]
      /\ done < Len(edgeList)
  BY DEF Split
<1>5. counter' \in [Node -> Nat] /\ \A n \in Node : counter'[n] >= counter[n]
  <2>1. ASSUME NEW n \in Node PROVE counter'[n] \in Nat /\ counter'[n] >= counter[n]
    BY <1>2, <1>4, SMTT(30) DEF PathInv, PathTypeOK
  <2>. QED BY <2>1, <1>4
<1>6. counter'[e.source] > counter[e.source]
  BY <1>1, <1>2, <1>4
<1>7. /\ DOMAIN split = 1..done /\ DOMAIN split' = 1..(done + 1)
      /\ \A j \in DOMAIN split : split'[j] = split[j] /\ split[j] \in Drawn
      /\ split'[done + 1] = new
      /\ done \in Nat
  <2>1. split \in Seq(Drawn) /\ Len(split) = done /\ done \in Nat
    BY DEF PathInv, PathTypeOK, Drawn
  <2>2. /\ Len(Append(split, new)) = done + 1
        /\ \A j \in 1..done : Append(split, new)[j] = split[j] /\ split[j] \in Drawn
        /\ Append(split, new)[done + 1] = new
        /\ DOMAIN split = 1..done /\ DOMAIN Append(split, new) = 1..(done + 1)
    BY <1>3, <2>1
  <2>. QED BY <1>4, <2>1, <2>2
<1>8. PathTypeOK'
  <2>1. split \in Seq(Drawn) /\ Len(split) = done /\ edgeList \in EdgeLists
    BY DEF PathInv, PathTypeOK, Drawn
  <2>2. Len(edgeList) \in Nat /\ done \in Nat
    BY <1>7, <2>1, EdgeListsAreSequences
  <2>3. done' \in 0..Len(edgeList')
    BY <1>4, <2>2
  <2> HIDE DEF new
  <2>4. split' \in Seq(Drawn) /\ Len(split') = done'
    BY <1>3, <1>4, <2>1, <2>2
  <2>5. edgeList' \in EdgeLists /\ counter' \in [Node -> Nat]
    BY <1>4, <1>5, <2>1
  <2> QED
    BY <2>3, <2>4, <2>5 DEF PathTypeOK, Drawn
<1>9. Passed'
  <2>. SUFFICES ASSUME NEW j \in DOMAIN split'
                PROVE split'[j][1][2] < counter'[split'[j][1][1]]
    BY DEF Passed
  <2>1. CASE j \in DOMAIN split
    <3>1. split[j] \in Drawn /\ split'[j] = split[j] /\ split[j][1][2] < counter[split[j][1][1]]
      BY <2>1, <1>7 DEF PathInv, Passed
    <3>2. split[j][1][1] \in Node /\ split[j][1][2] \in Nat
      BY <3>1 DEF Drawn
    <3>3. counter'[split[j][1][1]] >= counter[split[j][1][1]] /\ counter[split[j][1][1]] \in Nat
          /\ counter'[split[j][1][1]] \in Nat
      BY <3>2, <1>5 DEF PathInv, PathTypeOK
    <3>. QED BY <3>1, <3>2, <3>3
  <2>2. CASE j = done + 1
    BY <2>2, <1>6, <1>7
  <2>. QED BY <2>1, <2>2, <1>7
<1>10. Forward'
  <2>. SUFFICES ASSUME NEW j \in DOMAIN split', NEW k \in DOMAIN split', j <= k
                PROVE split'[k][2] # split'[j][1]
    BY DEF Forward
  <2>1. CASE k \in DOMAIN split
    <3>1. j \in DOMAIN split
      BY <2>1, <1>7
    <3>2. split[k][2] # split[j][1]
      BY <2>1, <3>1 DEF PathInv, Forward
    <3>. QED BY <2>1, <3>1, <3>2, <1>7
  <2>2. CASE k = done + 1 /\ j = done + 1
    BY <2>2, <1>2, <1>7
  <2>3. CASE k = done + 1 /\ j \in DOMAIN split
    <3>1. split[j][1][2] < counter[split[j][1][1]] /\ split[j] \in Drawn
      BY <2>3, <1>7 DEF PathInv, Passed
    <3>2. CASE split[j][1][1] = e.target
      <4>1. split[j][1][2] # into
        BY <3>1, <3>2, <1>2 DEF Drawn, Node
      <4>. QED BY <4>1, <2>3, <1>7
    <3>3. CASE split[j][1][1] # e.target
      BY <3>3, <2>3, <1>7
    <3>. QED BY <3>2, <3>3
  <2>. QED BY <2>1, <2>2, <2>3, <1>7
<1>. QED BY <1>8, <1>9, <1>10 DEF PathInv

LEMMA Inductive == PathSpec => []PathInv
<1>1. PathInit => PathInv
  <2>. SUFFICES ASSUME PathInit PROVE PathInv
    OBVIOUS
  <2>1. edgeList \in Seq(Edge)
    BY EdgeListsAreSequences DEF PathInit
  <2>. QED BY <2>1 DEF PathInit, PathInv, PathTypeOK, Passed, Forward
<1>2. PathInv /\ [Split]_pathVars => PathInv'
  <2>1. PathInv /\ UNCHANGED pathVars => PathInv'
    BY DEF pathVars, PathInv, PathTypeOK, Passed, Forward
  <2>. QED BY <2>1, SplitKeeps
<1>. QED BY <1>1, <1>2, PTL DEF PathSpec

(* Among the edges that run inside a set, the first leads from a node that *)
(* no edge of the set enters.                                              *)
LEMMA ForwardIsAcyclic == PathInv => SplitIsAcyclic
<1>. SUFFICES ASSUME PathInv, NEW s \in SUBSET SplitNodes, s # {},
                     \A n \in s : \E i \in DOMAIN split : split[i][1] \in s /\ split[i][2] = n
              PROVE FALSE
  BY DEF SplitIsAcyclic
<1>. DEFINE inside == {i \in DOMAIN split : split[i][1] \in s /\ split[i][2] \in s}
<1>1. inside # {} /\ inside \subseteq Nat
  BY DEF PathInv, PathTypeOK
<1>2. PICK j \in inside : \A i \in inside : ~(i < j)
  <2>1. PICK j \in inside : \A i \in inside : ~(<<i, j>> \in OpToRel(<, Nat))
    BY <1>1, NatLessThanWellFounded, WFMin
  <2>. QED BY <2>1, <1>1 DEF OpToRel
<1>3. PICK k \in inside : split[k][2] = split[j][1]
  OBVIOUS
<1>4. j <= k
  BY <1>1, <1>2
<1>. QED BY <1>3, <1>4 DEF PathInv, Forward

(* The lists and the counters keep their types.                            *)
THEOREM PathTypeCorrect == PathSpec => []PathTypeOK
BY Inductive, PTL DEF PathInv

(* The diagram of user paths holds no cycle (processCycleData).            *)
THEOREM NoCycleDrawn == PathSpec => []SplitIsAcyclic
BY Inductive, ForwardIsAcyclic, PTL

-----------------------------------------------------------------------------
(* The pool of worker threads.                                             *)
LEMMA Numbers ==
  Concurrency \in Nat \ {0} /\ Total \in Nat \ {0} /\ MaxTasks \in Nat /\ MaxFaults \in Nat
  BY PoolAssumption DEF PoolAssumption

(* A thread is created for a computation that leaves the queue.            *)
Typed == TypeOK /\ created + Len(queue) <= asked

LEMMA Facts ==
  ASSUME Typed
  PROVE  /\ asked \in Nat /\ asked <= MaxTasks /\ created \in Nat /\ created <= asked
         /\ queue \in Seq(Task) /\ Len(queue) \in Nat
         /\ DOMAIN queue = 1..Len(queue)
         /\ workers \subseteq 1..created /\ workers \subseteq Worker
         /\ alive \subseteq 1..created /\ alive \subseteq Worker
         /\ mail \in [Worker -> Seq(Message)]
         /\ \A w \in Worker : current[w] \in 0..MaxTasks
<1>1. asked \in 0..MaxTasks /\ created \in 0..asked /\ queue \in Seq(Task)
  BY DEF Typed, TypeOK
<1>2. asked \in Nat /\ asked <= MaxTasks /\ created \in Nat /\ created <= asked
  BY <1>1, Numbers
<1>3. 1..created \subseteq Worker
  BY <1>2, Numbers DEF Worker
<1>4. workers \subseteq 1..created /\ alive \subseteq 1..created /\ mail \in [Worker -> Seq(Message)]
      /\ \A w \in Worker : current[w] \in 0..MaxTasks
  BY DEF Typed, TypeOK
<1>5. Len(queue) \in Nat /\ DOMAIN queue = 1..Len(queue)
  BY <1>1
<1> QED
  BY <1>1, <1>2, <1>3, <1>4, <1>5

LEMMA FaultTyped == Typed /\ Fault => faults' \in 0..MaxFaults
<1> SUFFICES ASSUME Typed, Fault PROVE faults' \in 0..MaxFaults
  OBVIOUS
<1>1. faults \in 0..MaxFaults
  BY DEF Typed, TypeOK
<1> QED
  BY <1>1, Numbers DEF Fault

LEMMA HeadTail ==
  ASSUME NEW S, NEW s \in Seq(S), s # <<>>
  PROVE  /\ Head(s) = s[1] /\ s[1] \in S /\ 1 \in DOMAIN s
         /\ Tail(s) \in Seq(S) /\ Len(Tail(s)) = Len(s) - 1
         /\ DOMAIN Tail(s) = 1..Len(s) - 1
         /\ \A i \in 1..Len(s) - 1 : Tail(s)[i] = s[i + 1]
  OBVIOUS

(* The slot of a pass is a free one, or the next that is created.          *)
LEMMA Slots ==
  ASSUME Typed, queue # <<>>
  PROVE  /\ NextSlot \in Worker
         /\ NextSlot \in Idle \/ (Idle = {} /\ NextSlot = created + 1)
         /\ NextSlot > created => NextSlot = created + 1 /\ NextSlot \notin workers
         /\ NextSlot <= created \/ NextSlot = created + 1
<1>1. CASE Idle = {}
  <2>1. NextSlot = created + 1
    BY <1>1 DEF NextSlot
  <2>2. Len(queue) >= 1
    BY Facts
  <2>3. created + 1 <= asked
    BY <2>2, Facts DEF Typed
  <2> QED
    BY <1>1, <2>1, <2>3, Facts, Numbers DEF Worker
<1>2. CASE Idle # {}
  <2>1. Idle \in SUBSET Nat
    BY Facts DEF Idle
  <2>2. \E x \in Idle : \A y \in Idle : x <= y
    BY <1>2, <2>1, Smallest
  <2>3. NextSlot \in Idle
    BY <1>2, <2>2 DEF NextSlot, Oldest
  <2> QED
    BY <2>3, Facts DEF Idle
<1> QED
  BY <1>1, <1>2

-----------------------------------------------------------------------------
(* Types.                                                                  *)
LEMMA TypeCompute == Typed /\ Compute => Typed'
<1> SUFFICES ASSUME Typed, Compute PROVE Typed'
  OBVIOUS
<1>1. asked' = asked + 1 /\ asked' \in 1..MaxTasks
  <2>1. asked' = asked + 1 /\ asked < MaxTasks
    BY DEF Compute
  <2> QED
    BY <2>1, Facts, Numbers
<1>2. queue' \in Seq(Task) /\ Len(queue') <= Len(queue) + 1
  <2>1. queue' = queue \/ queue' = Append(queue, asked')
    BY <1>1 DEF Compute
  <2>2. asked' \in Task
    BY <1>1 DEF Task
  <2> QED
    BY <2>1, <2>2, Facts
<1>3. outcome' \in [Task -> Outcome]
  BY DEF Compute, Typed, TypeOK, Outcome
<1>4. created + Len(queue') <= asked'
  BY <1>1, <1>2, Facts DEF Typed
<1>5. created' = created /\ created \in 0..asked' /\ asked' \in 0..MaxTasks
  BY <1>1, Facts DEF Compute
<1>6. dispatching' \in BOOLEAN
  BY DEF Compute, Typed, TypeOK
<1> QED
  BY <1>2, <1>3, <1>4, <1>5, <1>6 DEF Compute, Typed, TypeOK, threads

LEMMA TypeDispatch == Typed /\ Dispatch => Typed'
<1> SUFFICES ASSUME Typed, Dispatch PROVE Typed'
  OBVIOUS
<1>1. CASE DispatchEnds
  BY <1>1 DEF DispatchEnds, Typed, TypeOK, threads
<1>2. CASE DispatchOne \/ DispatchFails
  <2>0. queue # <<>> /\ queue' = Tail(queue) /\ UNCHANGED asked
    BY <1>2 DEF DispatchOne, DispatchFails
  <2>1. queue' \in Seq(Task) /\ Len(queue') = Len(queue) - 1 /\ Head(queue) \in Task
    BY <2>0, HeadTail, Facts
  <2>2. created' \in Nat /\ created' >= created /\ created' <= created + 1
        /\ (created' = created \/ created' = NextSlot)
    BY <1>2, <2>0, Slots, Facts DEF DispatchOne, DispatchFails
  <2>3. created' + Len(queue') <= asked'
    BY <2>0, <2>1, <2>2, Facts DEF Typed
  <2>4. created' \in 0..asked'
    BY <2>0, <2>1, <2>2, <2>3, Facts
  <2>5. CASE DispatchOne
    <3>1. NextSlot <= created'
      BY <2>0, <2>5, Slots, Facts DEF DispatchOne
    <3>2. NextSlot \in 1..created'
      BY <2>0, <2>2, <3>1, Slots, Facts DEF Worker
    <3>3. workers' \in SUBSET (1..created') /\ alive' \subseteq 1..created'
      BY <2>2, <2>5, <3>2, Facts DEF DispatchOne
    <3>4. current' \in [Worker -> 0..MaxTasks]
      <4>1. Head(queue) \in 0..MaxTasks
        BY <2>1, Numbers DEF Task
      <4> QED
        BY <2>5, <4>1 DEF DispatchOne, Typed, TypeOK
    <3>5. job' \in [Worker -> [task : 0..MaxTasks, done : 0..Total]]
      <4>1. [task |-> Head(queue), done |-> 0] \in [task : 0..MaxTasks, done : 0..Total]
        BY <2>1, Numbers DEF Task
      <4> QED
        BY <2>5, <4>1 DEF DispatchOne, Typed, TypeOK
    <3> QED
      BY <2>1, <2>3, <2>4, <2>5, <3>3, <3>4, <3>5 DEF DispatchOne, Typed, TypeOK
  <2>6. CASE DispatchFails
    <3>1. workers' \in SUBSET (1..created') /\ alive' \subseteq 1..created'
      <4>1. NextSlot > created => NextSlot \in 1..NextSlot
        BY <2>0, Slots, Facts
      <4> QED
        BY <2>0, <2>2, <2>6, <4>1, Slots, Facts DEF DispatchFails
    <3>2. outcome' \in [Task -> Outcome] /\ faults' \in 0..MaxFaults
      BY <2>6, FaultTyped DEF DispatchFails, Typed, TypeOK, Outcome
    <3> QED
      BY <2>1, <2>3, <2>4, <2>6, <3>1, <3>2 DEF DispatchFails, Typed, TypeOK
  <2> QED
    BY <1>2, <2>5, <2>6
<1> QED
  BY <1>1, <1>2 DEF Dispatch

(* What is received leaves the mail.                                       *)
LEMMA ReceivedTyped ==
  ASSUME Typed, NEW w \in Worker, mail[w] # <<>>, Received(w)
  PROVE  /\ mail' \in [Worker -> Seq(Message)]
         /\ Head(mail[w]) \in Message
         /\ \A v \in Worker : v # w => mail'[v] = mail[v]
         /\ mail'[w] = Tail(mail[w])
  BY Facts, HeadTail DEF Received

LEMMA ReportTyped ==
  ASSUME Typed, NEW t \in Task, NEW n \in 0..Total, NEW threw \in BOOLEAN, Report(t, n, threw)
  PROVE  processed' \in [Task -> 0..Total] /\ failed' \subseteq Task
  BY DEF Report, Typed, TypeOK

LEMMA ZeroTyped == 0 \in 0..MaxTasks /\ 0 \in 0..Total /\ Total \in 0..Total /\ 0 \in 0..MaxFaults
  BY Numbers

LEMMA CurrentTask ==
  ASSUME Typed, NEW w \in Worker, NEW m, ~Stale(w, m)
  PROVE  w \in workers /\ current[w] \in Task /\ m.task = current[w]
  BY Facts, Numbers DEF Stale, Task

LEMMA TypeDeliver ==
  ASSUME Typed, NEW w \in Worker, Deliver(w)
  PROVE  Typed'
<1>1. CASE OnStale(w)
  BY <1>1, ReceivedTyped DEF OnStale, Typed, TypeOK, pool
<1>2. CASE OnProgress(w)
  <2>1. PICK threw \in BOOLEAN :
          /\ mail[w] # <<>> /\ ~Stale(w, Head(mail[w])) /\ Received(w)
          /\ IF threw THEN Fault ELSE UNCHANGED faults
          /\ Report(current[w], Head(mail[w]).processed, threw)
          /\ UNCHANGED <<asked, queue, workers, created, current, dispatching, closed, outcome, alive,
                         job, computed>>
    BY <1>2 DEF OnProgress
  <2>2. current[w] \in Task /\ Head(mail[w]) \in Message
    BY <2>1, CurrentTask, ReceivedTyped
  <2>3. Head(mail[w]).processed \in 0..Total
    BY <2>2 DEF Message
  <2>4. processed' \in [Task -> 0..Total] /\ failed' \subseteq Task
    BY <2>1, <2>2, <2>3, ReportTyped
  <2>5. faults' \in 0..MaxFaults
    BY <2>1, FaultTyped DEF Typed, TypeOK
  <2>6. mail' \in [Worker -> Seq(Message)]
    BY <2>1, ReceivedTyped
  <2> QED
    BY <2>1, <2>4, <2>5, <2>6 DEF Typed, TypeOK
<1>3. CASE OnResult(w)
  <2>1. PICK threw \in BOOLEAN :
          /\ mail[w] # <<>> /\ ~Stale(w, Head(mail[w])) /\ Received(w)
          /\ IF threw THEN Fault ELSE UNCHANGED faults
          /\ current' = [current EXCEPT ![w] = 0]
          /\ Report(current[w], Total, threw)
          /\ outcome' = Finish(current[w], threw)
          /\ dispatching' = TRUE
          /\ UNCHANGED <<asked, queue, workers, created, closed, alive, job, computed>>
    BY <1>3 DEF OnResult
  <2>2. current[w] \in Task
    BY <2>1, CurrentTask
  <2>3. processed' \in [Task -> 0..Total] /\ failed' \subseteq Task
    BY <2>1, <2>2, ReportTyped, Numbers
  <2>4. faults' \in 0..MaxFaults
    BY <2>1, FaultTyped DEF Typed, TypeOK
  <2>5. mail' \in [Worker -> Seq(Message)]
    BY <2>1, ReceivedTyped
  <2>6. outcome' \in [Task -> Outcome]
    BY <2>1 DEF Finish, Typed, TypeOK, Outcome
  <2>7. current' \in [Worker -> 0..MaxTasks]
    BY <2>1, ZeroTyped DEF Typed, TypeOK
  <2> QED
    BY <2>1, <2>3, <2>4, <2>5, <2>6, <2>7 DEF Typed, TypeOK
<1>4. CASE OnFailure(w)
  <2>1. outcome' \in [Task -> Outcome]
    BY <1>4 DEF OnFailure, Fail, Typed, TypeOK, Outcome
  <2>3. current' \in [Worker -> 0..MaxTasks]
    BY <1>4, ZeroTyped DEF OnFailure, Fail, Typed, TypeOK
  <2>4. workers' \in SUBSET (1..created) /\ dispatching' \in BOOLEAN
    BY <1>4 DEF OnFailure, Fail, Typed, TypeOK
  <2>2. mail' \in [Worker -> Seq(Message)]
    BY <1>4, ReceivedTyped DEF OnFailure
  <2> QED
    BY <1>4, <2>1, <2>2, <2>3, <2>4 DEF OnFailure, Fail, Typed, TypeOK
<1> QED
  BY <1>1, <1>2, <1>3, <1>4 DEF Deliver

LEMMA TypeDestroy == Typed /\ Destroy => Typed'
<1> SUFFICES ASSUME Typed, Destroy PROVE Typed'
  OBVIOUS
<1>1. outcome' \in [Task -> Outcome]
  BY DEF Destroy, Typed, TypeOK, Outcome
<1>2. current' \in [Worker -> 0..MaxTasks]
  BY Numbers DEF Destroy
<1>3. queue' \in Seq(Task) /\ Len(queue') = 0
  BY DEF Destroy
<1> QED
  BY <1>1, <1>2, <1>3, Facts DEF Destroy, Typed, TypeOK, threads

LEMMA SendTyped ==
  ASSUME Typed, NEW w \in Worker, NEW type \in {"progress", "result", "error"}, NEW n \in 0..Total,
         Send(w, type, n)
  PROVE  mail' \in [Worker -> Seq(Message)]
<1>1. [type |-> type, task |-> job[w].task, processed |-> n] \in Message
  BY DEF Message, Typed, TypeOK
<1> QED
  BY <1>1, Facts DEF Send

LEMMA TypeThread ==
  ASSUME Typed, NEW w \in Worker, Thread(w) \/ ThreadDies(w) \/ Terminated(w)
  PROVE  Typed'
<1>0. NoJob \in [task : 0..MaxTasks, done : 0..Total] /\ 0 \in 0..Total /\ Total \in 0..Total
  BY Numbers DEF NoJob
<1>1. CASE ThreadProgress(w)
  <2>1. job[w].done + 1 \in 0..Total /\ job[w] \in [task : 0..MaxTasks, done : 0..Total]
    BY <1>1, Numbers DEF ThreadProgress, Typed, TypeOK
  <2>2. mail' \in [Worker -> Seq(Message)]
    BY <1>1, <2>1, SendTyped DEF ThreadProgress
  <2>3. job' \in [Worker -> [task : 0..MaxTasks, done : 0..Total]]
    BY <1>1, <2>1 DEF ThreadProgress, Typed, TypeOK
  <2> QED
    BY <1>1, <2>2, <2>3 DEF ThreadProgress, Typed, TypeOK, pool
<1>2. CASE ThreadResult(w)
  <2>1. mail' \in [Worker -> Seq(Message)]
    BY <1>0, <1>2, SendTyped DEF ThreadResult
  <2>2. job[w].task \in Task
    BY <1>2, Numbers DEF ThreadResult, Typed, TypeOK, Task
  <2> QED
    BY <1>0, <1>2, <2>1, <2>2 DEF ThreadResult, Typed, TypeOK, pool
<1>3. CASE ThreadError(w)
  <2>1. mail' \in [Worker -> Seq(Message)]
    BY <1>0, <1>3, SendTyped DEF ThreadError
  <2> QED
    BY <1>0, <1>3, <2>1, FaultTyped DEF ThreadError, Typed, TypeOK, pool
<1>4. CASE ThreadDies(w)
  <2>1. [type |-> "exit", task |-> 0, processed |-> 0] \in Message
    BY Numbers DEF Message
  <2>2. mail' \in [Worker -> Seq(Message)]
    BY <1>4, <2>1, Facts DEF ThreadDies
  <2> QED
    BY <1>0, <1>4, <2>2, FaultTyped DEF ThreadDies, Typed, TypeOK, pool
<1>5. CASE Terminated(w)
  BY <1>0, <1>5 DEF Terminated, Typed, TypeOK, pool
<1> QED
  BY <1>1, <1>2, <1>3, <1>4, <1>5 DEF Thread

LEMMA TypeInit == Init => Typed
<1> SUFFICES ASSUME Init PROVE Typed
  OBVIOUS
<1>1. NoJob \in [task : 0..MaxTasks, done : 0..Total]
  BY Numbers DEF NoJob
<1>2. asked = 0 /\ created = 0 /\ queue = <<>> /\ workers = {} /\ alive = {} /\ Len(queue) = 0
  BY DEF Init
<1>3. asked \in 0..MaxTasks /\ created \in 0..asked /\ queue \in Seq(Task) /\ created + Len(queue) <= asked
  BY <1>2, Numbers
<1>4. /\ current \in [Worker -> 0..MaxTasks] /\ processed \in [Task -> 0..Total]
      /\ outcome \in [Task -> Outcome] /\ mail \in [Worker -> Seq(Message)]
      /\ job \in [Worker -> [task : 0..MaxTasks, done : 0..Total]]
  BY <1>1, ZeroTyped DEF Init, Outcome
<1> QED
  BY <1>2, <1>3, <1>4, ZeroTyped DEF Init, Typed, TypeOK

LEMMA TypeStep == Typed /\ [Next]_vars => Typed'
<1> SUFFICES ASSUME Typed, [Next]_vars PROVE Typed'
  OBVIOUS
<1>1. CASE UNCHANGED vars
  BY <1>1 DEF Typed, TypeOK, vars, pool, threads
<1>2. CASE Next
  BY <1>2, TypeCompute, TypeDispatch, TypeDestroy, TypeDeliver, TypeThread DEF Next
<1> QED
  BY <1>1, <1>2

(* The types of the module hold.                                           *)
THEOREM TypeCorrect == Spec => []TypeOK
<1>1. Typed => TypeOK
  BY DEF Typed
<1> QED
  BY <1>1, TypeInit, TypeStep, PTL DEF Spec

-----------------------------------------------------------------------------
(* What is asked for and not settled has one place: in the queue or on the *)
(* slot of a worker; and a closed pool has neither.                        *)
Queued == {queue[i] : i \in DOMAIN queue}
Held == {current[w] : w \in workers} \ {0}

Placed ==
  /\ \A i, j \in DOMAIN queue : queue[i] = queue[j] => i = j
  /\ \A v, w \in workers : current[v] = current[w] /\ current[v] # 0 => v = w
  /\ Queued \cap Held = {}
  /\ Queued \cup Held = {t \in 1..asked : outcome[t] = "none"}
  /\ closed => queue = <<>> /\ workers = {} /\ ~dispatching
  /\ \A t \in Task : t > asked => outcome[t] = "none"

(* How the parts change when a computation is taken from the queue.        *)
LEMMA Unqueued ==
  ASSUME Typed, Placed, queue # <<>>, queue' = Tail(queue)
  PROVE  /\ \A i, j \in DOMAIN queue' : queue'[i] = queue'[j] => i = j
         /\ Queued' = Queued \ {Head(queue)}
         /\ Head(queue) \in Queued /\ Head(queue) \in Task
<1>1. /\ Head(queue) = queue[1] /\ 1 \in DOMAIN queue /\ Head(queue) \in Task
      /\ DOMAIN queue' = 1..Len(queue) - 1 /\ DOMAIN queue = 1..Len(queue) /\ Len(queue) \in Nat
      /\ \A i \in 1..Len(queue) - 1 : queue'[i] = queue[i + 1]
  BY HeadTail, Facts
<1>2. \A i \in DOMAIN queue' : i + 1 \in DOMAIN queue /\ i + 1 # 1 /\ i \in Nat
  BY <1>1
<1>3. \A i \in DOMAIN queue : i = 1 \/ (i - 1 \in DOMAIN queue' /\ (i - 1) + 1 = i)
  BY <1>1
<1>4. \A i, j \in DOMAIN queue' : queue'[i] = queue'[j] => i = j
  <2> SUFFICES ASSUME NEW i \in DOMAIN queue', NEW j \in DOMAIN queue', queue'[i] = queue'[j]
               PROVE  i = j
    OBVIOUS
  <2>1. i + 1 = j + 1
    BY <1>1, <1>2 DEF Placed
  <2> QED
    BY <1>2, <2>1
<1>5. ASSUME NEW t \in Queued' PROVE t \in Queued \ {Head(queue)}
  <2>1. PICK i \in DOMAIN queue' : t = queue'[i]
    BY <1>5 DEF Queued
  <2>2. t = queue[i + 1]
    BY <1>1, <2>1
  <2>3. t # queue[1]
    BY <1>1, <1>2, <2>2 DEF Placed
  <2> QED
    BY <1>1, <1>2, <2>2, <2>3 DEF Queued
<1>6. ASSUME NEW t \in Queued \ {Head(queue)} PROVE t \in Queued'
  <2>1. PICK i \in DOMAIN queue : t = queue[i]
    BY <1>6 DEF Queued
  <2>2. i # 1
    BY <1>1, <1>6, <2>1
  <2>3. i - 1 \in DOMAIN queue' /\ (i - 1) + 1 = i
    BY <1>3, <2>2
  <2>4. queue'[i - 1] = queue[i]
    BY <1>1, <2>3
  <2> QED
    BY <2>1, <2>3, <2>4 DEF Queued
<1>7. Head(queue) \in Queued
  BY <1>1 DEF Queued
<1> QED
  BY <1>1, <1>4, <1>5, <1>6, <1>7

LEMMA PlacedCompute == Typed /\ Placed /\ Compute => Placed'
<1> SUFFICES ASSUME Typed, Placed, Compute PROVE Placed'
  OBVIOUS
<1> DEFINE t == asked + 1
<1>1. asked' = t /\ t \in Task /\ 1..asked' = (1..asked) \cup {t} /\ t \notin 1..asked
  <2>1. asked' = asked + 1 /\ asked < MaxTasks
    BY DEF Compute
  <2> QED
    BY <2>1, Facts, Numbers DEF Task
<1>2. t \notin Queued \cup Held
  BY <1>1 DEF Placed
<1>3. Held' = Held /\ UNCHANGED <<workers, current, closed>>
  BY DEF Compute, Held
<1>4. CASE closed
  <2>1. outcome' = [outcome EXCEPT ![t] = "rejected"] /\ UNCHANGED <<queue, dispatching>>
    BY <1>4 DEF Compute
  <2>2. {u \in 1..asked' : outcome'[u] = "none"} = {u \in 1..asked : outcome[u] = "none"}
    <3>1. outcome'[t] = "rejected" /\ \A u \in 1..asked : outcome'[u] = outcome[u]
      BY <1>1, <2>1 DEF Typed, TypeOK
    <3> QED
      BY <1>1, <3>1
  <2>3. \A u \in Task : u > asked' => outcome'[u] = "none"
    BY <1>1, <2>1, Facts DEF Placed, Typed, TypeOK, Task
  <2> QED
    BY <1>3, <2>1, <2>2, <2>3 DEF Placed, Queued
<1>5. CASE ~closed
  <2>1. queue' = Append(queue, t) /\ UNCHANGED outcome
    BY <1>5 DEF Compute
  <2>2. DOMAIN queue' = 1..Len(queue) + 1 /\ DOMAIN queue = 1..Len(queue) /\ Len(queue) \in Nat
        /\ (\A i \in 1..Len(queue) : queue'[i] = queue[i]) /\ queue'[Len(queue) + 1] = t
    BY <2>1, <1>1, Facts
  <2>3. Queued' = Queued \cup {t}
    BY <2>2 DEF Queued
  <2>4. \A i, j \in DOMAIN queue' : queue'[i] = queue'[j] => i = j
    <3>1. \A i \in 1..Len(queue) : queue'[i] # t
      BY <1>2, <2>2 DEF Queued
    <3>2. \A i, j \in 1..Len(queue) : queue'[i] = queue'[j] => i = j
      BY <2>2 DEF Placed
    <3> QED
      BY <2>2, <3>1, <3>2
  <2>5. outcome[t] = "none"
    BY <1>1, Facts DEF Placed
  <2>6. \A u \in Task : u > asked' => outcome'[u] = "none"
    BY <1>1, <2>1, Facts DEF Placed, Task
  <2>7. {u \in 1..asked' : outcome'[u] = "none"} = {u \in 1..asked : outcome[u] = "none"} \cup {t}
    BY <1>1, <2>1, <2>5
  <2> QED
    BY <1>2, <1>3, <1>5, <2>3, <2>4, <2>6, <2>7 DEF Placed
<1> QED
  BY <1>4, <1>5

(* A slot gives up its computation, or is disposed of.                     *)
LEMMA Released ==
  ASSUME Typed, Placed, NEW w \in workers,
         current' = [current EXCEPT ![w] = 0],
         workers' = workers \/ workers' = workers \ {w}
  PROVE  /\ Held' = Held \ {current[w]}
         /\ \A u, v \in workers' : current'[u] = current'[v] /\ current'[u] # 0 => u = v
<1>1. w \in Worker /\ workers \subseteq Worker /\ DOMAIN current = Worker
  BY Facts DEF Typed, TypeOK
<1>2. current'[w] = 0 /\ \A v \in workers : v # w => current'[v] = current[v]
  BY <1>1
<1>3. \A v \in workers : v # w /\ current[v] # 0 => current[v] # current[w]
  BY DEF Placed
<1>4. \A v \in workers : v # w => v \in workers'
  OBVIOUS
<1>5. Held' = Held \ {current[w]}
  BY <1>2, <1>3, <1>4 DEF Held
<1>6. \A u, v \in workers' : current'[u] = current'[v] /\ current'[u] # 0 => u = v
  BY <1>2 DEF Placed
<1> QED
  BY <1>5, <1>6

LEMMA PlacedDispatch == Typed /\ Placed /\ Dispatch => Placed'
<1> SUFFICES ASSUME Typed, Placed, Dispatch PROVE Placed'
  OBVIOUS
<1>0. dispatching /\ ~closed /\ UNCHANGED <<asked, closed>>
  BY DEF Dispatch, DispatchEnds, DispatchOne, DispatchFails, Placed
<1>1. CASE DispatchEnds
  <2>1. UNCHANGED <<asked, queue, workers, current, closed, outcome>>
    BY <1>1 DEF DispatchEnds
  <2>2. Queued' = Queued /\ Held' = Held /\ ~closed'
    BY <1>0, <2>1 DEF Queued, Held
  <2> QED
    BY <2>1, <2>2 DEF Placed
<1>2. CASE DispatchOne
  <2> DEFINE w == NextSlot
             t == Head(queue)
  <2>1. queue # <<>> /\ queue' = Tail(queue) /\ workers' = workers \cup {w}
        /\ current' = [current EXCEPT ![w] = t] /\ UNCHANGED outcome
    BY <1>2 DEF DispatchOne
  <2>2. w \in Worker /\ (w \notin workers \/ current[w] = 0) /\ w \in workers'
    BY <2>1, Slots, Facts DEF Idle
  <2>3. t \in Queued /\ t \in Task /\ Queued' = Queued \ {t}
        /\ (\A i, j \in DOMAIN queue' : queue'[i] = queue'[j] => i = j)
    BY <2>1, Unqueued
  <2>4. t # 0 /\ t \notin Held
    BY <2>3 DEF Placed, Task
  <2> HIDE DEF w, t
  <2>5. current'[w] = t /\ \A v \in workers : v # w => current'[v] = current[v]
    BY <2>1, <2>2, Facts DEF Typed, TypeOK
  <2>6. Held' = Held \cup {t}
    BY <2>1, <2>2, <2>4, <2>5 DEF Held
  <2>7. \A u, v \in workers' : current'[u] = current'[v] /\ current'[u] # 0 => u = v
    <3>1. \A v \in workers : v # w => current'[v] # t
      BY <2>4, <2>5 DEF Held
    <3> QED
      BY <2>1, <2>5, <3>1 DEF Placed
  <2> QED
    BY <1>0, <2>1, <2>3, <2>4, <2>6, <2>7 DEF Placed
<1>3. CASE DispatchFails
  <2> DEFINE w == NextSlot
             t == Head(queue)
  <2>1. queue # <<>> /\ queue' = Tail(queue) /\ (workers' = workers \/ workers' = workers \ {w})
        /\ outcome' = [outcome EXCEPT ![t] = "rejected"] /\ UNCHANGED current
    BY <1>3 DEF DispatchFails
  <2>2. w \notin workers \/ current[w] = 0
    BY <2>1, Slots, Facts DEF Idle
  <2>3. t \in Queued /\ t \in Task /\ Queued' = Queued \ {t}
        /\ (\A i, j \in DOMAIN queue' : queue'[i] = queue'[j] => i = j)
    BY <2>1, Unqueued
  <2>4. t \notin Held /\ t \in 1..asked
    BY <2>3 DEF Placed
  <2> HIDE DEF w, t
  <2>5. Held' = Held
    BY <2>1, <2>2 DEF Held
  <2>6. outcome'[t] = "rejected" /\ \A u \in Task : u # t => outcome'[u] = outcome[u]
    BY <2>1, <2>3 DEF Typed, TypeOK
  <2>7. {u \in 1..asked' : outcome'[u] = "none"} = {u \in 1..asked : outcome[u] = "none"} \ {t}
    <3>1. 1..asked \subseteq Task
      BY Facts, Numbers DEF Task
    <3> QED
      BY <1>0, <2>6, <3>1
  <2>8. \A u \in Task : u > asked' => outcome'[u] = "none"
    BY <1>0, <2>4, <2>6, Facts DEF Placed, Task
  <2> QED
    BY <1>0, <2>1, <2>3, <2>4, <2>5, <2>7, <2>8 DEF Placed
<1> QED
  BY <1>1, <1>2, <1>3 DEF Dispatch

(* Steps that settle the computation of a slot that gives it up.           *)
LEMMA PlacedSettled ==
  ASSUME Typed, Placed, NEW w \in workers,
         current' = [current EXCEPT ![w] = 0],
         workers' = workers \/ workers' = workers \ {w},
         UNCHANGED <<asked, queue, closed>>,
         \A t \in Task : IF t = current[w] THEN outcome'[t] # "none" ELSE outcome'[t] = outcome[t]
  PROVE  Placed'
<1>1. Held' = Held \ {current[w]}
      /\ (\A u, v \in workers' : current'[u] = current'[v] /\ current'[u] # 0 => u = v)
  BY Released
<1>2. ~closed
  BY DEF Placed
<1>3. Queued' = Queued
  BY DEF Queued
<1>4. 1..asked \subseteq Task
  BY Facts, Numbers DEF Task
<1>5. {u \in 1..asked' : outcome'[u] = "none"} = {u \in 1..asked : outcome[u] = "none"} \ {current[w]}
  BY <1>4
<1>6. current[w] \notin Queued
  <2>1. CASE current[w] = 0
    BY <1>4, <2>1 DEF Placed, Task
  <2>2. CASE current[w] # 0
    BY <2>2 DEF Placed, Held
  <2> QED
    BY <2>1, <2>2
<1>7. \A u \in Task : u > asked' => outcome'[u] = "none"
  <2>1. current[w] = 0 \/ current[w] \in 1..asked
    BY DEF Placed, Held
  <2> QED
    BY <2>1, Facts DEF Placed, Task
<1> QED
  BY <1>1, <1>2, <1>3, <1>5, <1>6, <1>7 DEF Placed

LEMMA PlacedDeliver ==
  ASSUME Typed, Placed, NEW w \in Worker, Deliver(w)
  PROVE  Placed'
<1>1. CASE OnStale(w) \/ OnProgress(w)
  BY <1>1 DEF OnStale, OnProgress, pool, Placed, Queued, Held
<1>2. CASE OnResult(w)
  <2>1. PICK threw \in BOOLEAN :
          /\ ~Stale(w, Head(mail[w]))
          /\ current' = [current EXCEPT ![w] = 0]
          /\ outcome' = Finish(current[w], threw)
          /\ UNCHANGED <<asked, queue, workers, closed>>
    BY <1>2 DEF OnResult
  <2>2. w \in workers /\ current[w] \in Task
    BY <2>1, CurrentTask
  <2>3. \A t \in Task : IF t = current[w] THEN outcome'[t] # "none" ELSE outcome'[t] = outcome[t]
    BY <2>1, <2>2 DEF Finish, Typed, TypeOK
  <2> QED
    BY <2>1, <2>2, <2>3, PlacedSettled
<1>3. CASE OnFailure(w)
  <2>1. /\ current' = [current EXCEPT ![w] = 0] /\ workers' = workers \ {w}
        /\ outcome' = IF current[w] = 0 THEN outcome ELSE [outcome EXCEPT ![current[w]] = "rejected"]
        /\ UNCHANGED <<asked, queue, closed>>
    BY <1>3 DEF OnFailure, Fail
  <2>2. w \in workers
    BY <1>3 DEF OnFailure, Stale
  <2>3. \A t \in Task : IF t = current[w] THEN outcome'[t] # "none" ELSE outcome'[t] = outcome[t]
    BY <2>1 DEF Typed, TypeOK, Task
  <2> QED
    BY <2>1, <2>2, <2>3, PlacedSettled
<1> QED
  BY <1>1, <1>2, <1>3 DEF Deliver

LEMMA PlacedDestroy == Typed /\ Placed /\ Destroy => Placed'
<1> SUFFICES ASSUME Typed, Placed, Destroy PROVE Placed'
  OBVIOUS
<1>1. queue' = <<>> /\ workers' = {} /\ ~dispatching' /\ UNCHANGED asked
  BY DEF Destroy
<1>2. \A t \in Task : outcome'[t] = IF t \in Queued \/ (\E w \in workers : current[w] = t)
                                    THEN "rejected" ELSE outcome[t]
  BY DEF Destroy, Queued
<1>3. \A t \in Task : (\E w \in workers : current[w] = t) => t \in Held
  BY DEF Held, Task
<1>4. 1..asked \subseteq Task
  BY Facts, Numbers DEF Task
<1>5. \A t \in 1..asked : outcome'[t] # "none"
  <2> SUFFICES ASSUME NEW t \in 1..asked, outcome'[t] = "none" PROVE FALSE
    OBVIOUS
  <2>1. outcome[t] = "none" /\ t \notin Queued /\ t \notin Held
    BY <1>2, <1>4 DEF Held
  <2> QED
    BY <2>1 DEF Placed
<1>6. \A t \in Task : t > asked => outcome'[t] = "none"
  <2>1. \A t \in Task : t > asked => t \notin Queued \cup Held
    BY Facts DEF Placed, Task
  <2> QED
    BY <1>2, <1>3, <2>1 DEF Placed
<1>7. Queued' = {} /\ Held' = {}
  BY <1>1 DEF Queued, Held
<1> QED
  BY <1>1, <1>5, <1>6, <1>7 DEF Placed

LEMMA PlacedStep == Typed /\ Placed /\ [Next]_vars => Placed'
<1> SUFFICES ASSUME Typed, Placed, [Next]_vars PROVE Placed'
  OBVIOUS
<1>1. CASE UNCHANGED vars
  BY <1>1 DEF vars, pool, Placed, Queued, Held
<1>2. ASSUME NEW w \in Worker, Thread(w) \/ ThreadDies(w) \/ Terminated(w) PROVE Placed'
  BY <1>2 DEF Thread, ThreadProgress, ThreadResult, ThreadError, ThreadDies, Terminated, pool, Placed,
              Queued, Held
<1>3. CASE Next
  BY <1>2, <1>3, PlacedCompute, PlacedDispatch, PlacedDestroy, PlacedDeliver DEF Next
<1> QED
  BY <1>1, <1>3

LEMMA PlacedInit == Init => Placed
<1> SUFFICES ASSUME Init PROVE Placed
  OBVIOUS
<1>1. queue = <<>> /\ workers = {} /\ asked = 0 /\ ~closed /\ \A t \in Task : outcome[t] = "none"
  BY DEF Init
<1>2. Queued = {} /\ Held = {} /\ 1..asked = {}
  BY <1>1 DEF Queued, Held
<1> QED
  BY <1>1, <1>2 DEF Placed

LEMMA PlacedTells == Typed /\ Placed => NothingForgotten
<1> SUFFICES ASSUME Typed, Placed PROVE NothingForgotten
  OBVIOUS
<1>1. ASSUME NEW t \in 1..asked
      PROVE  IF Settled(t) THEN Places(t) = {} /\ Holders(t) = {}
             ELSE \/ Holders(t) = {} /\ \E i \in DOMAIN queue : Places(t) = {i}
                  \/ Places(t) = {} /\ \E w \in workers : Holders(t) = {w}
  <2>1. t # 0 /\ (Places(t) = {} <=> t \notin Queued) /\ (Holders(t) = {} <=> t \notin Held)
    BY Facts DEF Places, Holders, Queued, Held
  <2>2. t \in Queued \cup Held <=> outcome[t] = "none"
    BY DEF Placed
  <2>3. t \in Queued => \E i \in DOMAIN queue : Places(t) = {i}
    BY DEF Placed, Queued, Places
  <2>4. t \in Held => \E w \in workers : Holders(t) = {w}
    BY <2>1 DEF Placed, Held, Holders
  <2>5. ~(t \in Queued /\ t \in Held)
    BY DEF Placed
  <2> QED
    BY <2>1, <2>2, <2>3, <2>4, <2>5 DEF Settled
<1>2. closed => queue = <<>> /\ workers = {}
  BY DEF Placed
<1> QED
  BY <1>1, <1>2 DEF NothingForgotten

(* A computation that is not settled has exactly one place, a settled one  *)
(* has none, and a closed pool has settled all: no promise is forgotten,   *)
(* whatever dies or throws, and none is worked on twice.                   *)
THEOREM NothingIsForgotten == Spec => []NothingForgotten
<1> DEFINE I == Typed /\ Placed
<1>1. Init => I
  BY TypeInit, PlacedInit
<1>2. I /\ [Next]_vars => I'
  BY TypeStep, PlacedStep
<1>3. I => NothingForgotten
  BY PlacedTells
<1> QED
  BY <1>1, <1>2, <1>3, PTL DEF Spec

-----------------------------------------------------------------------------
(* Results.  Only a thread that has done all of a computation sends its    *)
(* result, so what is resolved has been computed.                          *)
ResultsTrue ==
  \A w \in Worker : \A i \in DOMAIN mail[w] :
    mail[w][i].type = "result" => mail[w][i].task \in computed

(* What keeps the promises resolved as they are.                           *)
LEMMA Kept ==
  ASSUME ResolvedIsComputed, computed \subseteq computed',
         \A t \in Task : outcome'[t] = "resolved" =>
           outcome[t] = "resolved" /\ processed'[t] = processed[t] /\ (t \in failed' => t \in failed)
  PROVE  ResolvedIsComputed'
  BY DEF ResolvedIsComputed

LEMMA MailKept ==
  ASSUME Typed, ResultsTrue, NEW w \in Worker, mail[w] # <<>>, Received(w), UNCHANGED computed
  PROVE  ResultsTrue'
<1>1. mail[w] \in Seq(Message) /\ mail'[w] = Tail(mail[w]) /\ \A v \in Worker : v # w => mail'[v] = mail[v]
  BY ReceivedTyped, Facts
<1>2. DOMAIN mail'[w] = 1..Len(mail[w]) - 1 /\ \A i \in 1..Len(mail[w]) - 1 : mail'[w][i] = mail[w][i + 1]
  BY <1>1, HeadTail
<1>3. \A i \in 1..Len(mail[w]) - 1 : i + 1 \in DOMAIN mail[w]
  BY <1>1
<1>4. ASSUME NEW v \in Worker, NEW i \in DOMAIN mail'[v], mail'[v][i].type = "result"
      PROVE  mail'[v][i].task \in computed'
  <2>1. CASE v = w
    BY <1>2, <1>3, <1>4, <2>1 DEF ResultsTrue
  <2>2. CASE v # w
    BY <1>1, <1>4, <2>2 DEF ResultsTrue
  <2> QED
    BY <2>1, <2>2
<1> QED
  BY <1>4 DEF ResultsTrue

LEMMA MailSent ==
  ASSUME Typed, ResultsTrue, NEW w \in Worker, NEW m \in Message, computed \subseteq computed',
         mail' = [mail EXCEPT ![w] = Append(@, m)], m.type = "result" => m.task \in computed'
  PROVE  ResultsTrue'
<1>1. mail[w] \in Seq(Message) /\ mail'[w] = Append(mail[w], m) /\ \A v \in Worker : v # w => mail'[v] = mail[v]
  BY Facts
<1>2. DOMAIN mail'[w] = 1..Len(mail[w]) + 1 /\ DOMAIN mail[w] = 1..Len(mail[w]) /\ Len(mail[w]) \in Nat
      /\ mail'[w][Len(mail[w]) + 1] = m /\ \A i \in 1..Len(mail[w]) : mail'[w][i] = mail[w][i]
  BY <1>1
<1> QED
  BY <1>1, <1>2 DEF ResultsTrue

LEMMA ResultsDeliver ==
  ASSUME Typed, Placed, ResultsTrue, ResolvedIsComputed, NEW w \in Worker, Deliver(w)
  PROVE  ResultsTrue' /\ ResolvedIsComputed'
<1>0. mail[w] # <<>> /\ Received(w) /\ UNCHANGED computed
  BY DEF Deliver, OnStale, OnProgress, OnResult, OnFailure
<1>1. ResultsTrue'
  BY <1>0, MailKept
<1>2. \A v \in workers : current[v] # 0 => outcome[current[v]] = "none"
  BY DEF Placed, Held
<1>3. CASE OnStale(w)
  BY <1>0, <1>1, <1>3, Kept DEF OnStale, pool
<1>4. CASE OnProgress(w)
  <2>1. PICK threw \in BOOLEAN : /\ ~Stale(w, Head(mail[w])) /\ UNCHANGED outcome
                                 /\ Report(current[w], Head(mail[w]).processed, threw)
    BY <1>4 DEF OnProgress
  <2>2. w \in workers /\ current[w] \in Task /\ outcome[current[w]] = "none"
    BY <1>2, <2>1, CurrentTask DEF Task
  <2>3. \A t \in Task : t # current[w] => processed'[t] = processed[t] /\ (t \in failed' => t \in failed)
    BY <2>1, <2>2 DEF Report, Typed, TypeOK
  <2> QED
    BY <1>0, <1>1, <2>1, <2>2, <2>3, Kept
<1>5. CASE OnResult(w)
  <2>1. PICK threw \in BOOLEAN :
          /\ ~Stale(w, Head(mail[w])) /\ Head(mail[w]).type = "result"
          /\ Report(current[w], Total, threw)
          /\ outcome' = Finish(current[w], threw)
    BY <1>5 DEF OnResult
  <2>2. w \in workers /\ current[w] \in Task /\ Head(mail[w]).task = current[w] /\ ~closed
    BY <2>1, CurrentTask DEF Placed
  <2>3. current[w] \in computed
    <3>1. mail[w] \in Seq(Message)
      BY Facts
    <3>2. Head(mail[w]) = mail[w][1] /\ 1 \in DOMAIN mail[w]
      BY <1>0, <3>1, HeadTail
    <3> QED
      BY <2>1, <2>2, <3>2 DEF ResultsTrue
  <2>4. \A t \in Task : t # current[w] => processed'[t] = processed[t] /\ (t \in failed' => t \in failed)
                                          /\ outcome'[t] = outcome[t]
    BY <2>1, <2>2 DEF Report, Finish, Typed, TypeOK
  <2>5. ASSUME outcome'[current[w]] = "resolved"
        PROVE  processed'[current[w]] = Total /\ current[w] \notin failed'
    <3>1. ~threw /\ current[w] \notin failed
      BY <2>1, <2>2, <2>5 DEF Finish, Typed, TypeOK
    <3>2. processed[current[w]] \in 0..Total
      BY <2>2 DEF Typed, TypeOK
    <3>3. CASE Total <= processed[current[w]]
      BY <2>1, <2>2, <3>1, <3>2, <3>3, Numbers DEF Report
    <3>4. CASE ~(Total <= processed[current[w]])
      BY <2>1, <2>2, <3>1, <3>4 DEF Report, Typed, TypeOK
    <3> QED
      BY <3>3, <3>4
  <2> QED
    BY <1>0, <1>1, <2>2, <2>3, <2>4, <2>5 DEF ResolvedIsComputed
<1>6. CASE OnFailure(w)
  <2>1. UNCHANGED <<processed, failed>>
        /\ outcome' = IF current[w] = 0 THEN outcome ELSE [outcome EXCEPT ![current[w]] = "rejected"]
    BY <1>6 DEF OnFailure, Fail
  <2>2. \A t \in Task : outcome'[t] = outcome[t] \/ outcome'[t] = "rejected"
    BY <2>1 DEF Typed, TypeOK
  <2> QED
    BY <1>0, <1>1, <2>1, <2>2, Kept
<1> QED
  BY <1>1, <1>3, <1>4, <1>5, <1>6 DEF Deliver

LEMMA ResultsStep ==
  Typed /\ Placed /\ ResultsTrue /\ ResolvedIsComputed /\ [Next]_vars => ResultsTrue' /\ ResolvedIsComputed'
<1> SUFFICES ASSUME Typed, Placed, ResultsTrue, ResolvedIsComputed, [Next]_vars
             PROVE  ResultsTrue' /\ ResolvedIsComputed'
  OBVIOUS
<1>1. CASE UNCHANGED vars
  BY <1>1 DEF vars, pool, threads, ResultsTrue, ResolvedIsComputed
<1>2. CASE Compute \/ Dispatch \/ Destroy
  <2>1. UNCHANGED <<mail, computed, processed, failed>>
    BY <1>2 DEF Compute, Dispatch, DispatchEnds, DispatchOne, DispatchFails, Destroy, threads
  <2>2. \A t \in Task : outcome'[t] = outcome[t] \/ outcome'[t] = "rejected"
    BY <1>2 DEF Compute, Dispatch, DispatchEnds, DispatchOne, DispatchFails, Destroy, Typed, TypeOK
  <2> QED
    BY <2>1, <2>2, Kept DEF ResultsTrue
<1>3. ASSUME NEW w \in Worker, Thread(w) \/ ThreadDies(w) \/ Terminated(w)
      PROVE  ResultsTrue' /\ ResolvedIsComputed'
  <2>0. UNCHANGED pool /\ computed \subseteq computed'
    BY <1>3 DEF Thread, ThreadProgress, ThreadResult, ThreadError, ThreadDies, Terminated
  <2>1. ResolvedIsComputed'
    BY <2>0, Kept DEF pool
  <2>2. CASE Terminated(w)
    BY <2>1, <2>2 DEF Terminated, ResultsTrue
  <2>3. CASE ThreadDies(w)
    <3>1. [type |-> "exit", task |-> 0, processed |-> 0] \in Message
      BY ZeroTyped DEF Message
    <3> QED
      BY <2>0, <2>1, <2>3, <3>1, MailSent DEF ThreadDies
  <2>4. CASE Thread(w)
    <3>0. job[w].task \in 0..MaxTasks /\ job[w].done \in 0..Total
      BY DEF Typed, TypeOK
    <3>1. CASE ThreadProgress(w)
      <4>1. job[w].done + 1 \in 0..Total
        BY <3>0, <3>1, Numbers DEF ThreadProgress
      <4>2. [type |-> "progress", task |-> job[w].task, processed |-> job[w].done + 1] \in Message
        BY <3>0, <4>1 DEF Message
      <4> QED
        BY <2>0, <2>1, <3>1, <4>2, MailSent DEF ThreadProgress, Send
    <3>2. CASE ThreadResult(w)
      <4>1. [type |-> "result", task |-> job[w].task, processed |-> Total] \in Message
        BY <3>0, ZeroTyped DEF Message
      <4>2. job[w].task \in computed'
        BY <3>2 DEF ThreadResult
      <4> QED
        BY <2>0, <2>1, <3>2, <4>1, <4>2, MailSent DEF ThreadResult, Send
    <3>3. CASE ThreadError(w)
      <4>1. [type |-> "error", task |-> job[w].task, processed |-> 0] \in Message
        BY <3>0, ZeroTyped DEF Message
      <4> QED
        BY <2>0, <2>1, <3>3, <4>1, MailSent DEF ThreadError, Send
    <3> QED
      BY <2>4, <3>1, <3>2, <3>3 DEF Thread
  <2> QED
    BY <1>3, <2>2, <2>3, <2>4
<1>4. CASE Next
  BY <1>2, <1>3, <1>4, ResultsDeliver DEF Next
<1> QED
  BY <1>1, <1>4

(* A promise is resolved only with a result that a thread has computed to  *)
(* the end, after its callback has heard of all the progress.              *)
THEOREM ResultsAreComputed == Spec => []ResolvedIsComputed
<1> DEFINE I == Typed /\ Placed /\ ResultsTrue /\ ResolvedIsComputed
<1>1. Init => ResultsTrue /\ ResolvedIsComputed
  BY DEF Init, ResultsTrue, ResolvedIsComputed
<1>2. Init => I
  BY <1>1, TypeInit, PlacedInit
<1>3. I /\ [Next]_vars => I'
  BY TypeStep, PlacedStep, ResultsStep
<1>4. I => ResolvedIsComputed
  OBVIOUS
<1> QED
  BY <1>2, <1>3, <1>4, PTL DEF Spec

-----------------------------------------------------------------------------
(* What a fault costs.  A fault is charged to one computation: rejected, or*)
(* with a callback that has thrown, or with an error under way; or to one  *)
(* slot whose thread is dead and whose event is still under way.           *)
Rejected == {t \in Task : outcome[t] = "rejected"}
Errors == {t \in Task : \E w \in Worker : \E i \in DOMAIN mail[w] :
                          mail[w][i].type = "error" /\ mail[w][i].task = t}
Blamed == Rejected \cup failed \cup Errors
Dead == workers \ alive

Charged == ~closed => Cardinality(Blamed) + Cardinality(Dead) <= faults

ExitMeansDead ==
  \A w \in Worker : w \in alive \/ w > created => \A i \in DOMAIN mail[w] : mail[w][i].type # "exit"

LEMMA Sizes ==
  ASSUME Typed
  PROVE  /\ IsFiniteSet(Blamed) /\ Cardinality(Blamed) \in Nat
         /\ IsFiniteSet(Dead) /\ Cardinality(Dead) \in Nat
         /\ IsFiniteSet(Rejected) /\ Cardinality(Rejected) <= Cardinality(Blamed)
<1>1. IsFiniteSet(Task) /\ IsFiniteSet(Worker)
  BY Numbers, FS_Interval DEF Task, Worker
<1>2. Blamed \in SUBSET Task /\ Dead \in SUBSET Worker /\ Rejected \in SUBSET Blamed
  BY Facts DEF Blamed, Dead, Rejected, Errors, Typed, TypeOK
<1>3. IsFiniteSet(Blamed) /\ IsFiniteSet(Dead)
  BY <1>1, <1>2, FS_Subset
<1>4. IsFiniteSet(Rejected) /\ Cardinality(Rejected) <= Cardinality(Blamed)
  BY <1>2, <1>3, FS_Subset
<1> QED
  BY <1>3, <1>4, FS_CardinalityType

LEMMA Added ==
  ASSUME NEW S, NEW x, IsFiniteSet(S)
  PROVE  /\ IsFiniteSet(S \cup {x}) /\ Cardinality(S \cup {x}) \in Nat
         /\ Cardinality(S \cup {x}) <= Cardinality(S) + 1
<1>1. IsFiniteSet(S \cup {x})
      /\ Cardinality(S \cup {x}) = IF x \in S THEN Cardinality(S) ELSE Cardinality(S) + 1
  BY FS_AddElement
<1>2. Cardinality(S \cup {x}) \in Nat /\ Cardinality(S) \in Nat
  BY <1>1, FS_CardinalityType
<1> QED
  BY <1>1, <1>2

LEMMA FaultsNatural == Typed => faults \in Nat
  BY Numbers DEF Typed, TypeOK

(* A step that costs nothing.                                              *)
LEMMA Free ==
  ASSUME Typed, Charged, closed' \/ ~closed, faults' = faults \/ faults' = faults + 1,
         Blamed' \subseteq Blamed, Dead' \subseteq Dead
  PROVE  Charged'
<1>1. Blamed' \in SUBSET Blamed /\ Dead' \in SUBSET Dead
  OBVIOUS
<1>2. /\ IsFiniteSet(Blamed') /\ Cardinality(Blamed') <= Cardinality(Blamed)
      /\ IsFiniteSet(Dead') /\ Cardinality(Dead') <= Cardinality(Dead)
  BY <1>1, Sizes, FS_Subset
<1>3. Cardinality(Blamed') \in Nat /\ Cardinality(Dead') \in Nat
  BY <1>2, FS_CardinalityType
<1>4. ~closed' => Cardinality(Blamed') + Cardinality(Dead') <= faults'
  BY <1>2, <1>3, Sizes, FaultsNatural DEF Charged
<1> QED
  BY <1>4 DEF Charged

(* A fault that is charged to a computation.                               *)
LEMMA ChargedToTask ==
  ASSUME Typed, Charged, closed' \/ ~closed, faults' = faults + 1,
         NEW t, Blamed' \subseteq Blamed \cup {t}, Dead' \subseteq Dead
  PROVE  Charged'
<1>1. Blamed' \in SUBSET (Blamed \cup {t}) /\ Dead' \in SUBSET Dead
  OBVIOUS
<1>2. IsFiniteSet(Blamed \cup {t}) /\ Cardinality(Blamed \cup {t}) <= Cardinality(Blamed) + 1
      /\ Cardinality(Blamed \cup {t}) \in Nat
  BY Sizes, Added
<1>3. /\ IsFiniteSet(Blamed') /\ Cardinality(Blamed') <= Cardinality(Blamed \cup {t})
      /\ IsFiniteSet(Dead') /\ Cardinality(Dead') <= Cardinality(Dead)
  BY <1>1, <1>2, Sizes, FS_Subset
<1>4. Cardinality(Blamed') \in Nat /\ Cardinality(Dead') \in Nat
  BY <1>3, FS_CardinalityType
<1>5. ~closed' => Cardinality(Blamed') + Cardinality(Dead') <= faults'
  BY <1>2, <1>3, <1>4, Sizes, FaultsNatural DEF Charged
<1> QED
  BY <1>5 DEF Charged

(* A fault that is charged to a slot.                                      *)
LEMMA ChargedToSlot ==
  ASSUME Typed, Charged, closed' \/ ~closed, faults' = faults + 1,
         NEW w, Blamed' \subseteq Blamed, Dead' \subseteq Dead \cup {w}
  PROVE  Charged'
<1>1. Blamed' \in SUBSET Blamed /\ Dead' \in SUBSET (Dead \cup {w})
  OBVIOUS
<1>2. IsFiniteSet(Dead \cup {w}) /\ Cardinality(Dead \cup {w}) <= Cardinality(Dead) + 1
      /\ Cardinality(Dead \cup {w}) \in Nat
  BY Sizes, Added
<1>3. /\ IsFiniteSet(Blamed') /\ Cardinality(Blamed') <= Cardinality(Blamed)
      /\ IsFiniteSet(Dead') /\ Cardinality(Dead') <= Cardinality(Dead \cup {w})
  BY <1>1, <1>2, Sizes, FS_Subset
<1>4. Cardinality(Blamed') \in Nat /\ Cardinality(Dead') \in Nat
  BY <1>3, FS_CardinalityType
<1>5. ~closed' => Cardinality(Blamed') + Cardinality(Dead') <= faults'
  BY <1>2, <1>3, <1>4, Sizes, FaultsNatural DEF Charged
<1> QED
  BY <1>5 DEF Charged

(* The charge moves from the slot to the computation it was working on.    *)
LEMMA ChargeMoves ==
  ASSUME Typed, Charged, closed' \/ ~closed, UNCHANGED faults,
         NEW t, Blamed' \subseteq Blamed \cup {t}, NEW w \in Dead, Dead' \subseteq Dead \ {w}
  PROVE  Charged'
<1>1. Blamed' \in SUBSET (Blamed \cup {t}) /\ Dead' \in SUBSET (Dead \ {w})
  OBVIOUS
<1>2. IsFiniteSet(Blamed \cup {t}) /\ Cardinality(Blamed \cup {t}) <= Cardinality(Blamed) + 1
      /\ Cardinality(Blamed \cup {t}) \in Nat
  BY Sizes, Added
<1>3. IsFiniteSet(Dead \ {w}) /\ Cardinality(Dead \ {w}) = Cardinality(Dead) - 1
  BY Sizes, FS_RemoveElement
<1>4. /\ IsFiniteSet(Blamed') /\ Cardinality(Blamed') <= Cardinality(Blamed \cup {t})
      /\ IsFiniteSet(Dead') /\ Cardinality(Dead') <= Cardinality(Dead \ {w})
  BY <1>1, <1>2, <1>3, FS_Subset
<1>5. Cardinality(Blamed') \in Nat /\ Cardinality(Dead') \in Nat
  BY <1>4, FS_CardinalityType
<1>6. ~closed' => Cardinality(Blamed') + Cardinality(Dead') <= faults'
  BY <1>2, <1>3, <1>4, <1>5, Sizes, FaultsNatural DEF Charged
<1> QED
  BY <1>6 DEF Charged

-----------------------------------------------------------------------------
(* What is received and what is sent.                                      *)
LEMMA LessMail ==
  ASSUME Typed, NEW w \in Worker, mail[w] # <<>>, Received(w)
  PROVE  /\ \A v \in Worker : \A i \in DOMAIN mail'[v] : \E j \in DOMAIN mail[v] : mail'[v][i] = mail[v][j]
         /\ Errors' \subseteq Errors
         /\ \E j \in DOMAIN mail[w] : mail[w][j] = Head(mail[w])
<1>1. mail[w] \in Seq(Message) /\ mail'[w] = Tail(mail[w]) /\ \A v \in Worker : v # w => mail'[v] = mail[v]
  BY ReceivedTyped, Facts
<1>2. /\ DOMAIN mail'[w] = 1..Len(mail[w]) - 1 /\ 1 \in DOMAIN mail[w] /\ Head(mail[w]) = mail[w][1]
      /\ \A i \in 1..Len(mail[w]) - 1 : mail'[w][i] = mail[w][i + 1]
  BY <1>1, HeadTail
<1>3. \A i \in 1..Len(mail[w]) - 1 : i + 1 \in DOMAIN mail[w]
  BY <1>1
<1>4. ASSUME NEW v \in Worker, NEW i \in DOMAIN mail'[v]
      PROVE  \E j \in DOMAIN mail[v] : mail'[v][i] = mail[v][j]
  BY <1>1, <1>2, <1>3, ZenonT(30)
<1>5. Errors' \subseteq Errors
  BY <1>4 DEF Errors
<1> QED
  BY <1>2, <1>4, <1>5

LEMMA MoreMail ==
  ASSUME Typed, NEW w \in Worker, NEW m \in Message, mail' = [mail EXCEPT ![w] = Append(@, m)]
  PROVE  /\ \A v \in Worker : \A i \in DOMAIN mail'[v] :
              (v = w /\ mail'[v][i] = m) \/ \E j \in DOMAIN mail[v] : mail'[v][i] = mail[v][j]
         /\ Errors' \subseteq IF m.type = "error" THEN Errors \cup {m.task} ELSE Errors
<1>1. mail[w] \in Seq(Message) /\ mail'[w] = Append(mail[w], m) /\ \A v \in Worker : v # w => mail'[v] = mail[v]
  BY Facts
<1>2. DOMAIN mail'[w] = 1..Len(mail[w]) + 1 /\ DOMAIN mail[w] = 1..Len(mail[w]) /\ Len(mail[w]) \in Nat
      /\ mail'[w][Len(mail[w]) + 1] = m /\ \A i \in 1..Len(mail[w]) : mail'[w][i] = mail[w][i]
  BY <1>1
<1>3. ASSUME NEW v \in Worker, NEW i \in DOMAIN mail'[v]
      PROVE  (v = w /\ mail'[v][i] = m) \/ \E j \in DOMAIN mail[v] : mail'[v][i] = mail[v][j]
  BY <1>1, <1>2
<1>4. Errors' \subseteq IF m.type = "error" THEN Errors \cup {m.task} ELSE Errors
  BY <1>3 DEF Errors
<1> QED
  BY <1>3, <1>4

-----------------------------------------------------------------------------
LEMMA ChargedDispatch == Typed /\ Charged /\ Dispatch => Charged'
<1> SUFFICES ASSUME Typed, Charged, Dispatch PROVE Charged'
  OBVIOUS
<1>0. UNCHANGED <<closed, failed, mail>>
  BY DEF Dispatch, DispatchEnds, DispatchOne, DispatchFails, threads
<1>1. Errors' = Errors
  BY <1>0 DEF Errors
<1>2. CASE DispatchEnds
  BY <1>0, <1>1, <1>2, Free DEF DispatchEnds, Blamed, Dead, Rejected, threads
<1>3. CASE DispatchOne
  <2>1. UNCHANGED outcome /\ UNCHANGED faults /\ queue # <<>>
    BY <1>3 DEF DispatchOne
  <2>2. Dead' \subseteq Dead
    BY <1>3, <2>1, Slots, Facts DEF DispatchOne, Dead, Idle
  <2> QED
    BY <1>0, <1>1, <2>1, <2>2, Free DEF Blamed, Rejected
<1>4. CASE DispatchFails
  <2>1. faults' = faults + 1 /\ queue # <<>> /\ outcome' = [outcome EXCEPT ![Head(queue)] = "rejected"]
    BY <1>4 DEF DispatchFails, Fault
  <2>2. Dead' \subseteq Dead
    BY <1>4 DEF DispatchFails, Dead
  <2>3. Rejected' \subseteq Rejected \cup {Head(queue)}
    BY <2>1 DEF Rejected, Typed, TypeOK
  <2>4. Blamed' \subseteq Blamed \cup {Head(queue)}
    BY <1>0, <1>1, <2>3 DEF Blamed
  <2> QED
    BY <1>0, <2>1, <2>2, <2>4, ChargedToTask
<1> QED
  BY <1>2, <1>3, <1>4 DEF Dispatch

LEMMA ChargedDeliver ==
  ASSUME Typed, Charged, ExitMeansDead, NEW w \in Worker, Deliver(w)
  PROVE  Charged'
<1>0. mail[w] # <<>> /\ Received(w) /\ UNCHANGED <<closed, alive>>
  BY DEF Deliver, OnStale, OnProgress, OnResult, OnFailure, pool
<1>1. Errors' \subseteq Errors
  BY <1>0, LessMail
<1>2. CASE OnStale(w)
  <2>1. Blamed' \subseteq Blamed /\ Dead' \subseteq Dead /\ UNCHANGED faults
    BY <1>0, <1>1, <1>2 DEF OnStale, pool, Blamed, Rejected, Dead
  <2> QED
    BY <1>0, <2>1, Free
<1>3. CASE OnProgress(w)
  <2>1. PICK threw \in BOOLEAN :
          /\ IF threw THEN Fault ELSE UNCHANGED faults
          /\ Report(current[w], Head(mail[w]).processed, threw)
          /\ UNCHANGED <<workers, outcome>>
    BY <1>3 DEF OnProgress
  <2>2. failed' \subseteq IF threw THEN failed \cup {current[w]} ELSE failed
    BY <2>1 DEF Report
  <2>3. Dead' \subseteq Dead /\ Rejected' = Rejected
    BY <1>0, <2>1 DEF Dead, Rejected
  <2>4. CASE threw
    <3>1. Blamed' \subseteq Blamed \cup {current[w]} /\ faults' = faults + 1
      BY <1>1, <2>1, <2>2, <2>3, <2>4 DEF Blamed, Fault
    <3> QED
      BY <1>0, <2>3, <3>1, ChargedToTask
  <2>5. CASE ~threw
    <3>1. Blamed' \subseteq Blamed /\ UNCHANGED faults
      BY <1>1, <2>1, <2>2, <2>3, <2>5 DEF Blamed
    <3> QED
      BY <1>0, <2>3, <3>1, Free
  <2> QED
    BY <2>4, <2>5
<1>4. CASE OnResult(w)
  <2>1. PICK threw \in BOOLEAN :
          /\ IF threw THEN Fault ELSE UNCHANGED faults
          /\ Report(current[w], Total, threw)
          /\ outcome' = Finish(current[w], threw)
          /\ UNCHANGED workers
    BY <1>4 DEF OnResult
  <2>2. failed' \subseteq IF threw THEN failed \cup {current[w]} ELSE failed
    BY <2>1 DEF Report
  <2>3. Dead' \subseteq Dead
    BY <1>0, <2>1 DEF Dead
  <2>4. CASE threw
    <3>1. Rejected' \subseteq Rejected \cup {current[w]}
      BY <2>1 DEF Finish, Rejected, Typed, TypeOK
    <3>2. Blamed' \subseteq Blamed \cup {current[w]} /\ faults' = faults + 1
      BY <1>1, <2>1, <2>2, <2>4, <3>1 DEF Blamed, Fault
    <3> QED
      BY <1>0, <2>3, <3>2, ChargedToTask
  <2>5. CASE ~threw
    <3>0. failed \subseteq failed' /\ failed' \subseteq failed
      BY <2>1, <2>5 DEF Report
    <3>1. Rejected' \subseteq Rejected \cup failed
      BY <2>1, <2>5 DEF Finish, Rejected, Typed, TypeOK
    <3>2. Blamed' \subseteq Blamed /\ UNCHANGED faults
      BY <1>1, <2>1, <2>5, <3>0, <3>1 DEF Blamed
    <3> QED
      BY <1>0, <2>3, <3>2, Free
  <2> QED
    BY <2>4, <2>5
<1>5. CASE OnFailure(w)
  <2>1. /\ workers' = workers \ {w} /\ UNCHANGED <<failed, faults>>
        /\ outcome' = IF current[w] = 0 THEN outcome ELSE [outcome EXCEPT ![current[w]] = "rejected"]
        /\ \/ Head(mail[w]).type = "error" /\ ~Stale(w, Head(mail[w]))
           \/ Head(mail[w]).type = "exit" /\ w \in workers
    BY <1>5 DEF OnFailure, Fail
  <2>2. Rejected' \subseteq Rejected \cup {current[w]}
    BY <2>1 DEF Rejected, Typed, TypeOK
  <2>3. PICK j \in DOMAIN mail[w] : mail[w][j] = Head(mail[w])
    BY <1>0, LessMail
  <2>4. CASE Head(mail[w]).type = "error" /\ ~Stale(w, Head(mail[w]))
    <3>1. current[w] \in Task /\ Head(mail[w]).task = current[w]
      BY <2>4, CurrentTask
    <3>2. current[w] \in Errors
      BY <2>3, <2>4, <3>1 DEF Errors
    <3>3. Blamed' \subseteq Blamed /\ Dead' \subseteq Dead
      BY <1>0, <1>1, <2>1, <2>2, <3>2 DEF Blamed, Dead
    <3> QED
      BY <1>0, <2>1, <3>3, Free
  <2>5. CASE Head(mail[w]).type = "exit" /\ w \in workers
    <3>1. w \in Dead
      BY <2>3, <2>5 DEF ExitMeansDead, Dead
    <3>2. Blamed' \subseteq Blamed \cup {current[w]} /\ Dead' \subseteq Dead \ {w}
      BY <1>0, <1>1, <2>1, <2>2 DEF Blamed, Dead
    <3> QED
      BY <1>0, <2>1, <3>1, <3>2, ChargeMoves
  <2> QED
    BY <2>1, <2>4, <2>5
<1> QED
  BY <1>2, <1>3, <1>4, <1>5 DEF Deliver

(* What a thread sends.                                                    *)
LEMMA Sent ==
  ASSUME Typed, NEW w \in Worker, Thread(w) \/ ThreadDies(w)
  PROVE  \E m \in Message :
           /\ mail' = [mail EXCEPT ![w] = Append(@, m)]
           /\ m.type = "error" => ThreadError(w)
           /\ m.type = "exit" => ThreadDies(w)
<1>0. job[w].task \in 0..MaxTasks /\ job[w].done \in 0..Total
  BY DEF Typed, TypeOK
<1>1. CASE ThreadProgress(w)
  <2>1. job[w].done + 1 \in 0..Total
    BY <1>0, <1>1, Numbers DEF ThreadProgress
  <2>2. [type |-> "progress", task |-> job[w].task, processed |-> job[w].done + 1] \in Message
    BY <1>0, <2>1 DEF Message
  <2> QED
    BY <1>1, <2>2 DEF ThreadProgress, Send
<1>2. CASE ThreadResult(w)
  <2>1. [type |-> "result", task |-> job[w].task, processed |-> Total] \in Message
    BY <1>0, ZeroTyped DEF Message
  <2> QED
    BY <1>2, <2>1 DEF ThreadResult, Send
<1>3. CASE ThreadError(w)
  <2>1. [type |-> "error", task |-> job[w].task, processed |-> 0] \in Message
    BY <1>0, ZeroTyped DEF Message
  <2> QED
    BY <1>3, <2>1 DEF ThreadError, Send
<1>4. CASE ThreadDies(w)
  <2>1. [type |-> "exit", task |-> 0, processed |-> 0] \in Message
    BY ZeroTyped DEF Message
  <2> QED
    BY <1>4, <2>1 DEF ThreadDies
<1> QED
  BY <1>1, <1>2, <1>3, <1>4 DEF Thread

LEMMA ChargedThread ==
  ASSUME Typed, Charged, NEW w \in Worker, Thread(w) \/ ThreadDies(w) \/ Terminated(w)
  PROVE  Charged'
<1>0. UNCHANGED <<closed, failed, workers>> /\ Rejected' = Rejected
  BY DEF Thread, ThreadProgress, ThreadResult, ThreadError, ThreadDies, Terminated, pool, Rejected
<1>1. CASE Terminated(w)
  <2>1. Errors' = Errors /\ Dead' \subseteq Dead /\ UNCHANGED faults
    BY <1>0, <1>1 DEF Terminated, Errors, Dead
  <2> QED
    BY <1>0, <2>1, Free DEF Blamed
<1>2. CASE Thread(w) \/ ThreadDies(w)
  <2>1. PICK m \in Message :
           /\ mail' = [mail EXCEPT ![w] = Append(@, m)]
           /\ m.type = "error" => ThreadError(w)
           /\ m.type = "exit" => ThreadDies(w)
    BY <1>2, Sent
  <2>2. Errors' \subseteq IF m.type = "error" THEN Errors \cup {m.task} ELSE Errors
    BY <2>1, MoreMail
  <2>3. CASE ThreadError(w)
    <3>1. Blamed' \subseteq Blamed \cup {m.task} /\ Dead' \subseteq Dead /\ faults' = faults + 1
      BY <1>0, <2>2, <2>3 DEF Blamed, Dead, ThreadError, Fault
    <3> QED
      BY <1>0, <3>1, ChargedToTask
  <2>4. CASE ThreadDies(w) /\ ~ThreadError(w)
    <3>1. Blamed' \subseteq Blamed /\ Dead' \subseteq Dead \cup {w} /\ faults' = faults + 1
      BY <1>0, <2>1, <2>2, <2>4 DEF Blamed, Dead, ThreadDies, Fault
    <3> QED
      BY <1>0, <3>1, ChargedToSlot
  <2>5. CASE ThreadProgress(w) \/ ThreadResult(w)
    <3>0. CASE ThreadError(w)
      BY <2>3, <3>0
    <3>1. CASE ~ThreadError(w)
      <4>1. Blamed' \subseteq Blamed /\ Dead' \subseteq Dead /\ UNCHANGED faults
        BY <1>0, <2>1, <2>2, <2>5, <3>1 DEF Blamed, Dead, ThreadProgress, ThreadResult
      <4> QED
        BY <1>0, <4>1, Free
    <3> QED
      BY <3>0, <3>1
  <2> QED
    BY <1>2, <2>3, <2>4, <2>5 DEF Thread
<1> QED
  BY <1>1, <1>2

LEMMA ChargedStep == Typed /\ Charged /\ ExitMeansDead /\ [Next]_vars => Charged'
<1> SUFFICES ASSUME Typed, Charged, ExitMeansDead, [Next]_vars PROVE Charged'
  OBVIOUS
<1>1. CASE UNCHANGED vars
  BY <1>1 DEF vars, pool, threads, Charged, Blamed, Rejected, Errors, Dead
<1>2. CASE Compute
  <2>1. CASE closed
    BY <1>2, <2>1 DEF Compute, Charged
  <2>2. CASE ~closed
    <3>1. UNCHANGED <<outcome, failed, mail, workers, alive, closed, faults>>
      BY <1>2, <2>2 DEF Compute, threads
    <3> QED
      BY <3>1 DEF Charged, Blamed, Rejected, Errors, Dead
  <2> QED
    BY <2>1, <2>2
<1>3. CASE Destroy
  BY <1>3 DEF Destroy, Charged
<1>4. CASE Next
  BY <1>2, <1>3, <1>4, ChargedDispatch, ChargedDeliver, ChargedThread DEF Next
<1> QED
  BY <1>1, <1>4

(* A thread that is alive, or not yet created, has not sent its exit.      *)
LEMMA ExitStep == Typed /\ ExitMeansDead /\ [Next]_vars => ExitMeansDead'
<1> SUFFICES ASSUME Typed, ExitMeansDead, [Next]_vars PROVE ExitMeansDead'
  OBVIOUS
<1>1. CASE UNCHANGED vars
  BY <1>1 DEF vars, pool, threads, ExitMeansDead
<1>2. CASE Compute \/ Destroy \/ DispatchEnds
  BY <1>2 DEF Compute, Destroy, DispatchEnds, threads, ExitMeansDead
<1>3. CASE DispatchOne \/ DispatchFails
  <2>1. queue # <<>> /\ UNCHANGED mail
    BY <1>3 DEF DispatchOne, DispatchFails
  <2>2. \A v \in Worker : v \in alive' \/ v > created' => v \in alive \/ v > created
    <3>1. created' = created \/ (created' = NextSlot /\ NextSlot > created)
      BY <1>3, <2>1, Slots, Facts DEF DispatchOne, DispatchFails
    <3>2. alive' = alive \/ (alive' = alive \cup {NextSlot} /\ NextSlot > created)
      BY <1>3, <2>1, Slots, Facts DEF DispatchOne, DispatchFails
    <3>3. created' \in Nat /\ created' >= created
      BY <2>1, <3>1, Slots, Facts DEF Worker
    <3> QED
      BY <3>2, <3>3, Facts DEF Worker
  <2> QED
    BY <2>1, <2>2 DEF ExitMeansDead
<1>4. ASSUME NEW w \in Worker, Deliver(w) PROVE ExitMeansDead'
  <2>1. mail[w] # <<>> /\ Received(w) /\ UNCHANGED <<alive, created>>
    BY <1>4 DEF Deliver, OnStale, OnProgress, OnResult, OnFailure, pool
  <2>2. \A v \in Worker : \A i \in DOMAIN mail'[v] : \E j \in DOMAIN mail[v] : mail'[v][i] = mail[v][j]
    BY <2>1, LessMail
  <2> QED
    BY <2>1, <2>2 DEF ExitMeansDead
<1>5. ASSUME NEW w \in Worker, Terminated(w) PROVE ExitMeansDead'
  BY <1>5 DEF Terminated, pool, ExitMeansDead
<1>6. ASSUME NEW w \in Worker, Thread(w) \/ ThreadDies(w) PROVE ExitMeansDead'
  <2>1. PICK m \in Message :
           /\ mail' = [mail EXCEPT ![w] = Append(@, m)]
           /\ m.type = "error" => ThreadError(w)
           /\ m.type = "exit" => ThreadDies(w)
    BY <1>6, Sent
  <2>2. \A v \in Worker : \A i \in DOMAIN mail'[v] :
              (v = w /\ mail'[v][i] = m) \/ \E j \in DOMAIN mail[v] : mail'[v][i] = mail[v][j]
    BY <2>1, MoreMail
  <2>3. UNCHANGED created /\ alive' \subseteq alive /\ w \in alive
    BY <1>6 DEF Thread, ThreadProgress, ThreadResult, ThreadError, ThreadDies, pool
  <2>4. m.type = "exit" => w \notin alive' /\ ~(w > created')
    <3>1. ThreadDies(w) => w \notin alive'
      BY DEF ThreadDies
    <3>2. w \in 1..created /\ created \in Nat
      BY <2>3, Facts
    <3> QED
      BY <2>1, <2>3, <3>1, <3>2
  <2>5. ASSUME NEW v \in Worker, v \in alive' \/ v > created', NEW i \in DOMAIN mail'[v]
        PROVE  mail'[v][i].type # "exit"
    BY <2>2, <2>3, <2>4, <2>5 DEF ExitMeansDead
  <2> QED
    BY <2>5 DEF ExitMeansDead
<1>7. CASE Next
  BY <1>2, <1>3, <1>4, <1>5, <1>6, <1>7 DEF Next, Dispatch
<1> QED
  BY <1>1, <1>7

LEMMA ChargedInit == Init => Charged /\ ExitMeansDead
<1> SUFFICES ASSUME Init PROVE Charged /\ ExitMeansDead
  OBVIOUS
<1>1. \A w \in Worker : mail[w] = <<>> /\ DOMAIN mail[w] = {}
  BY DEF Init
<1>2. Blamed = {} /\ Dead = {} /\ faults = 0
  BY <1>1 DEF Init, Blamed, Rejected, Errors, Dead
<1>3. Cardinality(Blamed) = 0 /\ Cardinality(Dead) = 0
  BY <1>2, FS_EmptySet
<1>4. Cardinality(Blamed) + Cardinality(Dead) <= faults
  BY <1>2, <1>3
<1> QED
  BY <1>1, <1>4 DEF Charged, ExitMeansDead

(* While the pool is open, no more sessions are rejected than there were   *)
(* faults: the death of a thread, a failed computation or a callback that  *)
(* has thrown rejects one session and no other.                            *)
THEOREM FaultsRejectOneEach == Spec => []OneFaultOneRejection
<1> DEFINE I == Typed /\ Charged /\ ExitMeansDead
<1>1. Init => I
  BY TypeInit, ChargedInit
<1>2. I /\ [Next]_vars => I'
  BY TypeStep, ChargedStep, ExitStep
<1>3. I => OneFaultOneRejection
  <2> SUFFICES ASSUME I, ~closed PROVE Cardinality(Rejected) <= faults
    BY DEF OneFaultOneRejection, Rejected
  <2>1. IsFiniteSet(Rejected) /\ Cardinality(Rejected) \in Nat
    BY Sizes, FS_CardinalityType
  <2>2. Cardinality(Blamed) + Cardinality(Dead) <= faults
    BY DEF Charged
  <2> QED
    BY <2>1, <2>2, Sizes, FaultsNatural
<1> QED
  BY <1>1, <1>2, <1>3, PTL DEF Spec
=============================================================================
