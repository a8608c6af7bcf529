-------------------------- MODULE HealthScoreProofs --------------------------
(***************************************************************************)
(* What the scores of HealthScore satisfy for any number of nodes and of   *)
(* groups of pods.  The library defines a sum by recursion on the finite   *)
(* set it is taken over; facts about it follow by taking a smallest set    *)
(* for which they would fail.                                              *)
(***************************************************************************)
EXTENDS HealthScore, FiniteSetTheorems, WellFoundedInduction, TLAPS

-----------------------------------------------------------------------------
(* Sums over a finite set *)

\* The element that a sum over s starts with.
First(s) == CHOOSE x \in s : TRUE

\* What the recursion of SumFunctionOnSet says of a function on the subsets of S.
IsSum(h, f, S) ==
  h = [s \in SUBSET S |-> IF s = {} THEN 0 ELSE f[First(s)] + h[s \ {First(s)}]]

\* A set of naturals with 0 that is closed under + 1 has them all: otherwise a least
\* one would be missing.
LEMMA NatSetInduction ==
  ASSUME NEW T \in SUBSET Nat, 0 \in T, \A n \in T : n + 1 \in T
  PROVE  T = Nat
<1> SUFFICES ASSUME T # Nat PROVE FALSE
  OBVIOUS
<1> DEFINE R == OpToRel(<, Nat)
<1>1. Nat \ T \subseteq Nat /\ Nat \ T # {}
  OBVIOUS
<1>2. IsWellFoundedOn(R, Nat)
  BY NatLessThanWellFounded
<1>3. PICK m \in Nat \ T : \A k \in Nat \ T : <<k, m>> \notin R
  <2> HIDE DEF R
  <2> QED BY <1>1, <1>2, WFMin
<1>4. m # 0 /\ m - 1 \in Nat /\ m - 1 \in Nat \ T
  <2>1. m - 1 \in Nat /\ m # 0
    OBVIOUS
  <2>2. m - 1 \in T => m \in T
    <3>1. m - 1 + 1 = m
      OBVIOUS
    <3> QED BY <3>1
  <2> QED BY <2>1, <2>2
<1>5. <<m - 1, m>> \in R
  BY <1>4 DEF OpToRel
<1> QED BY <1>3, <1>4, <1>5

\* What holds of a subset whenever it holds of the smaller ones holds of the finite
\* set itself: otherwise it would fail for a smallest one.
LEMMA SubsetInduction ==
  ASSUME NEW S, IsFiniteSet(S), NEW T \in SUBSET (SUBSET S),
         \A s \in SUBSET S : (\A t \in SUBSET s : t # s => t \in T) => s \in T
  PROVE  S \in T
<1> SUFFICES ASSUME S \notin T PROVE FALSE
  OBVIOUS
<1> DEFINE R == StrictSubsetOrdering(S)
           B == (SUBSET S) \ T
<1>1. IsWellFoundedOn(R, SUBSET S)
  <2>1. FiniteSubsetsOf(S) = SUBSET S
    BY FS_FiniteSubsetsOfFinite
  <2>2. IsWellFoundedOn(StrictSubsetOrdering(S), FiniteSubsetsOf(S))
    BY FS_StrictSubsetOrderingWellFounded, Zenon
  <2> QED BY <2>1, <2>2
<1>2. B \subseteq SUBSET S /\ B # {}
  OBVIOUS
<1>3. PICK s \in B : \A t \in B : <<t, s>> \notin R
  <2> HIDE DEF R, B
  <2> QED BY <1>1, <1>2, WFMin
<1>4. ASSUME NEW t \in SUBSET s, t # s PROVE t \in T
  <2>1. <<t, s>> \in R
    BY <1>4 DEF StrictSubsetOrdering
  <2> QED BY <1>3, <2>1
<1> QED BY <1>3, <1>4

\* The recursion has a solution, built up by the size of the subsets.
LEMMA SumExists ==
  ASSUME NEW S, IsFiniteSet(S), NEW f, \A x \in S : f[x] \in Nat
  PROVE  \E h : IsSum(h, f, S)
<1> DEFINE Good(h, n) == \A s \in SUBSET S : Cardinality(s) <= n =>
                           h[s] = IF s = {} THEN 0 ELSE f[First(s)] + h[s \ {First(s)}]
           T == {n \in Nat : \E h \in [SUBSET S -> Nat] : Good(h, n)}
<1>0. \A s \in SUBSET S : /\ IsFiniteSet(s) /\ Cardinality(s) \in Nat
                          /\ Cardinality(s) = 0 <=> s = {}
                          /\ Cardinality(s) <= Cardinality(S)
  BY FS_Subset, FS_CardinalityType, FS_EmptySet
<1>a. \A s \in SUBSET S : s # {} => First(s) \in s /\ f[First(s)] \in Nat
  BY DEF First
<1>b. \A s \in SUBSET S : s # {} => Cardinality(s \ {First(s)}) = Cardinality(s) - 1
  BY <1>0, <1>a, FS_RemoveElement
<1>1. 0 \in T
  <2> DEFINE h == [s \in SUBSET S |-> 0]
  <2>1. h \in [SUBSET S -> Nat] /\ Good(h, 0)
    BY <1>0
  <2> QED BY <2>1
<1>2. ASSUME NEW n \in T PROVE n + 1 \in T
  <2>1. PICK h \in [SUBSET S -> Nat] : Good(h, n)
    OBVIOUS
  <2> DEFINE g == [s \in SUBSET S |-> IF s = {} THEN 0 ELSE f[First(s)] + h[s \ {First(s)}]]
  <2>2. g \in [SUBSET S -> Nat]
    BY <1>a
  <2>3. ASSUME NEW s \in SUBSET S, Cardinality(s) <= n PROVE g[s] = h[s]
    BY <2>1, <2>3
  <2>4. Good(g, n + 1)
    <3> SUFFICES ASSUME NEW s \in SUBSET S, Cardinality(s) <= n + 1, s # {}
                 PROVE  g[s] = f[First(s)] + g[s \ {First(s)}]
      OBVIOUS
    <3>1. Cardinality(s \ {First(s)}) <= n
      BY <1>0, <1>b
    <3>2. g[s \ {First(s)}] = h[s \ {First(s)}]
      BY <2>3, <3>1
    <3> QED BY <3>2
  <2>5. n + 1 \in Nat
    OBVIOUS
  <2> HIDE DEF g
  <2> QED BY <2>2, <2>4, <2>5
<1>3. Cardinality(S) \in T
  <2> HIDE DEF T
  <2>1. T \subseteq Nat
    BY DEF T
  <2> QED BY <1>0, <1>1, <1>2, <2>1, NatSetInduction
<1>4. PICK h \in [SUBSET S -> Nat] : Good(h, Cardinality(S))
  BY <1>3
<1>5. IsSum(h, f, S)
  BY <1>0, <1>4 DEF IsSum
<1> QED BY <1>5

LEMMA SumIs ==
  ASSUME NEW S, IsFiniteSet(S), NEW f, \A x \in S : f[x] \in Nat
  PROVE  \E h : IsSum(h, f, S) /\ SumFunctionOnSet(f, S) = h[S]
<1> DEFINE h == CHOOSE g : IsSum(g, f, S)
<1>1. IsSum(h, f, S)
  BY SumExists
<1>2. SumFunctionOnSet(f, S) = h[S]
  BY DEF SumFunctionOnSet, FoldFunctionOnSet, MapThenFoldSet, IsSum, First
<1> QED BY <1>1, <1>2

\* The recursion has one solution, on however large a family of sets it is taken.
LEMMA SumUnique ==
  ASSUME NEW S, IsFiniteSet(S), NEW T \in SUBSET S, NEW f, NEW g, NEW h,
         IsSum(h, f, S), IsSum(g, f, T)
  PROVE  h[T] = g[T]
<1> DEFINE U == {s \in SUBSET T : h[s] = g[s]}
<1>1. IsFiniteSet(T)
  BY FS_Subset
<1>2. ASSUME NEW s \in SUBSET T, \A t \in SUBSET s : t # s => t \in U PROVE s \in U
  <2>1. CASE s = {}
    BY <2>1 DEF IsSum
  <2>2. CASE s # {}
    <3>1. First(s) \in s
      BY <2>2 DEF First
    <3>2. h[s \ {First(s)}] = g[s \ {First(s)}]
      BY <1>2, <3>1
    <3>3. h[s] = f[First(s)] + h[s \ {First(s)}]
      BY <2>2 DEF IsSum
    <3>4. g[s] = f[First(s)] + g[s \ {First(s)}]
      BY <2>2 DEF IsSum
    <3> QED BY <3>2, <3>3, <3>4
  <2> QED BY <2>1, <2>2
<1>3. T \in U
  <2> HIDE DEF U
  <2>1. U \subseteq SUBSET T
    BY DEF U
  <2> QED BY <1>1, <1>2, <2>1, SubsetInduction
<1> QED BY <1>3

\* A sum is its first term and the sum of the others.
LEMMA SumUnfold ==
  ASSUME NEW S, IsFiniteSet(S), NEW f, \A x \in S : f[x] \in Nat
  PROVE  SumFunctionOnSet(f, S) =
           IF S = {} THEN 0 ELSE f[First(S)] + SumFunctionOnSet(f, S \ {First(S)})
<1> DEFINE T == S \ {First(S)}
<1>1. PICK h : IsSum(h, f, S) /\ SumFunctionOnSet(f, S) = h[S]
  BY SumIs
<1>2. T \in SUBSET S /\ IsFiniteSet(T)
  BY FS_Subset
<1>3. PICK g : IsSum(g, f, T) /\ SumFunctionOnSet(f, T) = g[T]
  <2> HIDE DEF T
  <2> QED BY <1>2, SumIs
<1>4. h[T] = g[T]
  <2> HIDE DEF T
  <2> QED BY <1>1, <1>2, <1>3, SumUnique
<1>5. h[S] = IF S = {} THEN 0 ELSE f[First(S)] + h[T]
  BY <1>1 DEF IsSum
<1> QED BY <1>1, <1>3, <1>4, <1>5

LEMMA SumType ==
  ASSUME NEW S, IsFiniteSet(S), NEW f, \A x \in S : f[x] \in Nat
  PROVE  SumFunctionOnSet(f, S) \in Nat
<1> DEFINE U == {s \in SUBSET S : SumFunctionOnSet(f, s) \in Nat}
<1>1. ASSUME NEW s \in SUBSET S, \A t \in SUBSET s : t # s => t \in U PROVE s \in U
  <2>1. IsFiniteSet(s) /\ (s # {} => First(s) \in s)
    BY FS_Subset DEF First
  <2>2. SumFunctionOnSet(f, s) = IF s = {} THEN 0 ELSE f[First(s)] + SumFunctionOnSet(f, s \ {First(s)})
    BY <2>1, SumUnfold
  <2>3. s # {} => SumFunctionOnSet(f, s \ {First(s)}) \in Nat
    BY <1>1, <2>1
  <2> QED BY <2>1, <2>2, <2>3
<1> HIDE DEF U
<1>2. S \in U
  <2>1. U \subseteq SUBSET S
    BY DEF U
  <2> QED BY <1>1, <2>1, SubsetInduction
<1> QED BY <1>2 DEF U

\* A sum of terms that are no less is no less.
LEMMA SumMonotonic ==
  ASSUME NEW S, IsFiniteSet(S), NEW f, NEW g,
         \A x \in S : f[x] \in Nat /\ g[x] \in Nat /\ f[x] <= g[x]
  PROVE  SumFunctionOnSet(f, S) <= SumFunctionOnSet(g, S)
<1> DEFINE U == {s \in SUBSET S : SumFunctionOnSet(f, s) <= SumFunctionOnSet(g, s)}
<1>1. ASSUME NEW s \in SUBSET S, \A t \in SUBSET s : t # s => t \in U PROVE s \in U
  <2>1. IsFiniteSet(s) /\ (s # {} => First(s) \in s) /\ IsFiniteSet(s \ {First(s)})
    BY FS_Subset DEF First
  <2>2. /\ SumFunctionOnSet(f, s) = IF s = {} THEN 0 ELSE f[First(s)] + SumFunctionOnSet(f, s \ {First(s)})
        /\ SumFunctionOnSet(g, s) = IF s = {} THEN 0 ELSE g[First(s)] + SumFunctionOnSet(g, s \ {First(s)})
    BY <2>1, SumUnfold
  <2>3. s # {} => SumFunctionOnSet(f, s \ {First(s)}) <= SumFunctionOnSet(g, s \ {First(s)})
    BY <1>1, <2>1
  <2>4. SumFunctionOnSet(f, s \ {First(s)}) \in Nat /\ SumFunctionOnSet(g, s \ {First(s)}) \in Nat
    BY <2>1, SumType
  <2> QED BY <2>1, <2>2, <2>3, <2>4
<1> HIDE DEF U
<1>2. S \in U
  <2>1. U \subseteq SUBSET S
    BY DEF U
  <2> QED BY <1>1, <2>1, SubsetInduction
<1> QED BY <1>2 DEF U

\* Any element can be taken out of a sum.
LEMMA SumRemove ==
  ASSUME NEW S, IsFiniteSet(S), NEW f, \A x \in S : f[x] \in Nat, NEW x \in S
  PROVE  SumFunctionOnSet(f, S) = f[x] + SumFunctionOnSet(f, S \ {x})
<1> DEFINE Sum(s) == SumFunctionOnSet(f, s)
           U == {s \in SUBSET S : \A e \in s : Sum(s) = f[e] + Sum(s \ {e})}
<1>0. \A s \in SUBSET S : IsFiniteSet(s) /\ Sum(s) \in Nat
  BY FS_Subset, SumType
<1>1. ASSUME NEW s \in SUBSET S, \A t \in SUBSET s : t # s => t \in U PROVE s \in U
  <2> SUFFICES ASSUME NEW e \in s PROVE Sum(s) = f[e] + Sum(s \ {e})
    OBVIOUS
  <2> DEFINE c == First(s)
  <2>1. c \in s
    BY DEF First
  <2> HIDE DEF c
  <2>2. Sum(s) = f[c] + Sum(s \ {c})
    BY <1>0, SumUnfold DEF c
  <2>3. CASE e # c
    <3>1. s \ {c} \in U /\ s \ {e} \in U /\ e \in s \ {c} /\ c \in s \ {e}
      BY <1>1, <2>1, <2>3
    <3>2. (s \ {c}) \ {e} = (s \ {e}) \ {c}
      OBVIOUS
    <3>3. Sum(s \ {c}) = f[e] + Sum((s \ {c}) \ {e})
      BY <3>1
    <3>4. Sum(s \ {e}) = f[c] + Sum((s \ {c}) \ {e})
      BY <3>1, <3>2
    <3>5. f[c] \in Nat /\ f[e] \in Nat /\ Sum((s \ {c}) \ {e}) \in Nat
      BY <1>0, <2>1
    <3> HIDE DEF Sum
    <3> QED BY <2>2, <3>3, <3>4, <3>5
  <2> QED BY <2>2, <2>3
<1> HIDE DEF U
<1>2. S \in U
  <2>1. U \subseteq SUBSET S
    BY DEF U
  <2> QED BY <1>1, <2>1, SubsetInduction
<1> QED BY <1>2 DEF U

\* Terms that agree have the same sum.
LEMMA SumSame ==
  ASSUME NEW S, IsFiniteSet(S), NEW f, NEW g, \A x \in S : f[x] \in Nat /\ f[x] = g[x]
  PROVE  SumFunctionOnSet(f, S) = SumFunctionOnSet(g, S)
<1>1. /\ SumFunctionOnSet(f, S) <= SumFunctionOnSet(g, S)
      /\ SumFunctionOnSet(g, S) <= SumFunctionOnSet(f, S)
  BY SumMonotonic
<1>2. SumFunctionOnSet(f, S) \in Nat /\ SumFunctionOnSet(g, S) \in Nat
  BY SumType
<1> QED BY <1>1, <1>2

\* A sum over some of the elements is no greater.
LEMMA SumSubset ==
  ASSUME NEW S, IsFiniteSet(S), NEW T \in SUBSET S, NEW f, \A x \in S : f[x] \in Nat
  PROVE  SumFunctionOnSet(f, T) <= SumFunctionOnSet(f, S)
<1> DEFINE Sum(s) == SumFunctionOnSet(f, s)
           U == {s \in SUBSET S : Sum(s \cap T) <= Sum(s)}
<1>0. \A s \in SUBSET S : IsFiniteSet(s) /\ Sum(s) \in Nat
  BY FS_Subset, SumType
<1>1. ASSUME NEW s \in SUBSET S, \A t \in SUBSET s : t # s => t \in U PROVE s \in U
  <2>1. CASE s \cap T = s
    BY <1>0, <2>1
  <2>2. CASE s \cap T # s
    <3>1. PICK x \in s : x \notin T
      BY <2>2
    <3>2. Sum(s) = f[x] + Sum(s \ {x})
      BY <1>0, SumRemove
    <3>3. Sum((s \ {x}) \cap T) <= Sum(s \ {x})
      BY <1>1
    <3>4. (s \ {x}) \cap T = s \cap T
      BY <3>1
    <3>5. f[x] \in Nat /\ Sum(s \ {x}) \in Nat /\ Sum(s \cap T) \in Nat
      BY <1>0
    <3>6. Sum(s \cap T) <= Sum(s)
      <4> HIDE DEF Sum
      <4> QED BY <3>2, <3>3, <3>4, <3>5
    <3> QED BY <3>6
  <2> QED BY <2>1, <2>2
<1>2. S \in U
  <2> HIDE DEF U
  <2>1. U \subseteq SUBSET S
    BY DEF U
  <2> QED BY <1>1, <2>1, SubsetInduction
<1>3. S \cap T = T
  OBVIOUS
<1> QED BY <1>2, <1>3

-----------------------------------------------------------------------------
(* Pods *)

\* Counts are naturals, and with more groups they are no less.
LEMMA CountMonotonic ==
  ASSUME NEW G, IsFiniteSet(G), \A g \in G : g.count \in Nat, NEW F \in SUBSET G
  PROVE  Count(F) \in Nat /\ Count(G) \in Nat /\ Count(F) <= Count(G)
<1> DEFINE f == [g \in F |-> g.count]
           h == [g \in G |-> g.count]
<1>1. IsFiniteSet(F) /\ (\A x \in F : f[x] \in Nat /\ f[x] = h[x]) /\ \A x \in G : h[x] \in Nat
  BY FS_Subset
<1>2. Count(F) = SumFunctionOnSet(f, F) /\ Count(G) = SumFunctionOnSet(h, G)
  BY DEF Count, SumFunction
<1> HIDE DEF f, h
<1>3. SumFunctionOnSet(f, F) = SumFunctionOnSet(h, F)
  BY <1>1, SumSame
<1>4. SumFunctionOnSet(h, F) <= SumFunctionOnSet(h, G)
  BY <1>1, SumSubset
<1>5. SumFunctionOnSet(f, F) \in Nat /\ SumFunctionOnSet(h, G) \in Nat
  BY <1>1, SumType
<1> QED BY <1>2, <1>3, <1>4, <1>5

\* The counts that the score looks at.
LEMMA PodCountsMonotonic ==
  ASSUME NEW G, IsFiniteSet(G), \A g \in G : g.count \in Nat, NEW F \in SUBSET G
  PROVE  /\ CollectPodCounts(F).crashLoop \in Nat /\ CollectPodCounts(F).failed \in Nat
         /\ CollectPodCounts(G).crashLoop \in Nat /\ CollectPodCounts(G).failed \in Nat
         /\ CollectPodCounts(F).crashLoop <= CollectPodCounts(G).crashLoop
         /\ CollectPodCounts(F).failed <= CollectPodCounts(G).failed
<1> DEFINE Failed(H) == {g \in H : g.phase = "Failed"}
           Looping(H) == {g \in H : g.crashLooping}
<1>1. /\ CollectPodCounts(F).crashLoop = Count(Looping(F))
      /\ CollectPodCounts(F).failed = Count(Failed(F))
      /\ CollectPodCounts(G).crashLoop = Count(Looping(G))
      /\ CollectPodCounts(G).failed = Count(Failed(G))
  BY DEF CollectPodCounts
<1>2. /\ Failed(F) \subseteq Failed(G) /\ Looping(F) \subseteq Looping(G)
      /\ IsFiniteSet(Failed(G)) /\ IsFiniteSet(Looping(G))
      /\ \A g \in Failed(G) \cup Looping(G) : g.count \in Nat
  <2>1. Failed(G) \subseteq G /\ Looping(G) \subseteq G
    OBVIOUS
  <2> QED BY <2>1, FS_Subset
<1> HIDE DEF Failed, Looping
<1> QED BY <1>1, <1>2, CountMonotonic

-----------------------------------------------------------------------------
(* Nodes *)

LEMMA DeductionType ==
  ASSUME NEW flags
  PROVE  NodeDeduction(flags) \in 0..45
  BY DEF NodeDeduction

\* Without Ready, or with another pressure, no less is deducted.
LEMMA DeductionMonotonic ==
  ASSUME NEW flags, NEW more, "Ready" \in more => "Ready" \in flags,
         \A t \in flags \ {"Ready"} : t \in more
  PROVE  NodeDeduction(flags) <= NodeDeduction(more)
  BY DEF NodeDeduction

\* Integer division by the number of nodes keeps the order.
LEMMA QuotientMonotonic ==
  ASSUME NEW a \in Nat, NEW b \in Nat, a <= b, NEW n \in Nat \ {0}
  PROVE  a \div n \in Nat /\ b \div n \in Nat /\ a \div n <= b \div n
  OBVIOUS

\* What is taken off for the nodes is the average of natural deductions.
LEMMA NodeDeductionsAre ==
  ASSUME NEW nodes, IsFiniteSet(DOMAIN nodes), DOMAIN nodes # {}
  PROVE  LET f == [n \in DOMAIN nodes |-> NodeDeduction(nodes[n])]
         IN  /\ NodeDeductions(nodes) =
                  SumFunctionOnSet(f, DOMAIN nodes) \div Cardinality(DOMAIN nodes)
             /\ \A n \in DOMAIN nodes : f[n] \in Nat
             /\ Cardinality(DOMAIN nodes) \in Nat \ {0}
<1> DEFINE f == [n \in DOMAIN nodes |-> NodeDeduction(nodes[n])]
<1>1. NodeDeductions(nodes) = SumFunctionOnSet(f, DOMAIN nodes) \div Cardinality(DOMAIN nodes)
  BY DEF NodeDeductions, SumFunction
<1>2. \A n \in DOMAIN nodes : f[n] \in Nat
  BY DeductionType
<1>3. Cardinality(DOMAIN nodes) \in Nat \ {0}
  BY FS_CardinalityType, FS_EmptySet
<1> QED BY <1>1, <1>2, <1>3

LEMMA NodeDeductionsType ==
  ASSUME NEW nodes, IsFiniteSet(DOMAIN nodes)
  PROVE  NodeDeductions(nodes) \in Nat
<1>1. CASE DOMAIN nodes = {}
  BY <1>1 DEF NodeDeductions
<1>2. CASE DOMAIN nodes # {}
  <2> DEFINE f == [n \in DOMAIN nodes |-> NodeDeduction(nodes[n])]
  <2>1. SumFunctionOnSet(f, DOMAIN nodes) \in Nat
    <3>1. \A n \in DOMAIN nodes : f[n] \in Nat
      BY DeductionType
    <3> HIDE DEF f
    <3> QED BY <3>1, SumType
  <2> QED BY <1>2, <2>1, NodeDeductionsAre, QuotientMonotonic
<1> QED BY <1>1, <1>2

LEMMA NodeDeductionsMonotonic ==
  ASSUME NEW nodes, NEW worse, IsFiniteSet(DOMAIN nodes), DOMAIN worse = DOMAIN nodes,
         \A n \in DOMAIN nodes : NodeDeduction(nodes[n]) <= NodeDeduction(worse[n])
  PROVE  NodeDeductions(nodes) <= NodeDeductions(worse)
<1>1. CASE DOMAIN nodes = {}
  BY <1>1 DEF NodeDeductions
<1>2. CASE DOMAIN nodes # {}
  <2> DEFINE D == DOMAIN nodes
             f == [n \in D |-> NodeDeduction(nodes[n])]
             g == [n \in D |-> NodeDeduction(worse[n])]
  <2>1. \A n \in D : f[n] \in Nat /\ g[n] \in Nat /\ f[n] <= g[n]
    BY DeductionType
  <2>2. /\ NodeDeductions(nodes) = SumFunctionOnSet(f, D) \div Cardinality(D)
        /\ NodeDeductions(worse) = SumFunctionOnSet(g, D) \div Cardinality(D)
        /\ Cardinality(D) \in Nat \ {0}
    BY <1>2, NodeDeductionsAre
  <2>3. IsFiniteSet(D)
    OBVIOUS
  <2> HIDE DEF f, g, D
  <2>4. /\ SumFunctionOnSet(f, D) \in Nat /\ SumFunctionOnSet(g, D) \in Nat
        /\ SumFunctionOnSet(f, D) <= SumFunctionOnSet(g, D)
    BY <2>1, <2>3, SumType, SumMonotonic
  <2> QED BY <2>2, <2>4, QuotientMonotonic
<1> QED BY <1>1, <1>2

\* For one node the average is the node's own deduction.
LEMMA NodeDeductionsOfOne ==
  ASSUME NEW n, NEW flags
  PROVE  NodeDeductions([m \in {n} |-> flags]) = NodeDeduction(flags)
<1> DEFINE nodes == [m \in {n} |-> flags]
           f == [m \in {n} |-> NodeDeduction(flags)]
<1>1. DOMAIN nodes = {n} /\ IsFiniteSet({n}) /\ Cardinality({n}) = 1
  BY FS_Singleton
<1>2. NodeDeductions(nodes) = SumFunctionOnSet(f, {n}) \div 1
  BY <1>1 DEF NodeDeductions, SumFunction
<1>3. SumFunctionOnSet(f, {n}) = NodeDeduction(flags)
  <2>1. \A m \in {n} : f[m] \in Nat /\ f[m] = NodeDeduction(flags)
    BY DeductionType
  <2> HIDE DEF f
  <2>2. SumFunctionOnSet(f, {n}) = f[n] + SumFunctionOnSet(f, {n} \ {n})
    BY <1>1, <2>1, SumRemove
  <2>3. SumFunctionOnSet(f, {}) = 0
    BY SumUnfold, FS_EmptySet
  <2>4. {n} \ {n} = {}
    OBVIOUS
  <2> QED BY <2>1, <2>2, <2>3, <2>4
<1>4. NodeDeduction(flags) \in Nat
  BY DeductionType
<1> QED BY <1>2, <1>3, <1>4

-----------------------------------------------------------------------------
(* Scores *)

\* A score has one of the three statuses.
LEMMA StatusOfScore ==
  ASSUME NEW score \in Int
  PROVE  HealthStatusFromScore(score) \in {"healthy", "degraded", "critical"}
  BY DEF HealthStatusFromScore

LEMMA NodeHealthScore ==
  ASSUME NEW n, NEW conditions, NEW pods
  PROVE  /\ NodeHealth(n, conditions, pods).score = ComputeNodeHealthScore(Flags(conditions))
         /\ NodeHealth(n, conditions, pods).status =
              HealthStatusFromScore(ComputeNodeHealthScore(Flags(conditions)))
  BY DEF NodeHealth

LEMMA NodeScoreRange ==
  ASSUME NEW flags
  PROVE  ComputeNodeHealthScore(flags) \in 0..100
  BY DEF ComputeNodeHealthScore, Clamp

\* What the listings of a finite cluster are.
FiniteListing(o) ==
  /\ IsFiniteSet(DOMAIN o.nodes) /\ IsFiniteSet(o.pods)
  /\ \A g \in o.pods : g.count \in Nat
  /\ o.pvcs \in Nat /\ o.events \in Nat

Deducted(o) ==
  NodeDeductions(AllFlags(o.nodes)) + Capped(2 * CollectPodCounts(o.pods).crashLoop, 20)
    + Capped(CollectPodCounts(o.pods).failed, 10) + Capped(o.events, 10)
    + (IF o.dns THEN 0 ELSE 15) + Capped(o.pvcs, 10)

LEMMA CappedMonotonic ==
  ASSUME NEW v \in Nat, NEW u \in Nat, v <= u, NEW cap \in Nat
  PROVE  Capped(v, cap) \in Nat /\ Capped(u, cap) \in Nat /\ Capped(v, cap) <= Capped(u, cap)
  BY DEF Capped

\* The score is what the six deductions leave, and is in range.
LEMMA ScoreIs ==
  ASSUME NEW o, FiniteListing(o)
  PROVE  /\ NodeDeductions(AllFlags(o.nodes)) \in Nat
         /\ CollectPodCounts(o.pods).crashLoop \in Nat /\ CollectPodCounts(o.pods).failed \in Nat
         /\ Deducted(o) \in Nat
         /\ ClusterScore(o) = Clamp(100 - Deducted(o), 0, 100)
         /\ ClusterScore(o) \in 0..100
<1> DEFINE a == NodeDeductions(AllFlags(o.nodes))
           p == CollectPodCounts(o.pods)
<1>1. a \in Nat
  <2>1. DOMAIN AllFlags(o.nodes) = DOMAIN o.nodes
    BY DEF AllFlags
  <2> QED BY <2>1, NodeDeductionsType DEF FiniteListing
<1>2. p.crashLoop \in Nat /\ p.failed \in Nat
  BY PodCountsMonotonic DEF FiniteListing
<1>3. /\ Capped(2 * p.crashLoop, 20) \in Nat /\ Capped(p.failed, 10) \in Nat
      /\ Capped(o.events, 10) \in Nat /\ Capped(o.pvcs, 10) \in Nat
  BY <1>2 DEF Capped, FiniteListing
<1>4. ClusterScore(o) = Clamp(100 - a - Capped(2 * p.crashLoop, 20) - Capped(p.failed, 10)
        - Capped(o.events, 10) - (IF o.dns THEN 0 ELSE 15) - Capped(o.pvcs, 10), 0, 100)
  BY DEF ClusterScore, ComputeClusterHealthScore
<1>5. Deducted(o) = a + Capped(2 * p.crashLoop, 20) + Capped(p.failed, 10)
        + Capped(o.events, 10) + (IF o.dns THEN 0 ELSE 15) + Capped(o.pvcs, 10)
  BY DEF Deducted
<1> HIDE DEF a, p
<1>6. Deducted(o) \in Nat
  BY <1>1, <1>3, <1>5
<1>7. ClusterScore(o) = Clamp(100 - Deducted(o), 0, 100)
  BY <1>1, <1>3, <1>4, <1>5
<1>8. ClusterScore(o) \in 0..100
  BY <1>6, <1>7 DEF Clamp
<1> QED BY <1>1, <1>2, <1>6, <1>7, <1>8 DEF a, p

\* One listing scores no higher than another when no node has Ready that lacks it in
\* the other, none lacks a pressure that it has in the other, and it has all the
\* pods, claims and warnings of the other.
LEMMA ClusterScoreMonotonic ==
  ASSUME NEW o, NEW w, FiniteListing(o), FiniteListing(w), DOMAIN w.nodes = DOMAIN o.nodes,
         \A n \in DOMAIN o.nodes :
           /\ "Ready" \in Flags(w.nodes[n]) => "Ready" \in Flags(o.nodes[n])
           /\ \A t \in Flags(o.nodes[n]) \ {"Ready"} : t \in Flags(w.nodes[n]),
         o.pods \subseteq w.pods, o.pvcs <= w.pvcs, o.events <= w.events, w.dns => o.dns
  PROVE  ClusterScore(w) <= ClusterScore(o)
<1> DEFINE fo == AllFlags(o.nodes)
           fw == AllFlags(w.nodes)
           po == CollectPodCounts(o.pods)
           pw == CollectPodCounts(w.pods)
<1>1. /\ DOMAIN fo = DOMAIN o.nodes /\ DOMAIN fw = DOMAIN o.nodes
      /\ \A n \in DOMAIN o.nodes : fo[n] = Flags(o.nodes[n]) /\ fw[n] = Flags(w.nodes[n])
  BY DEF AllFlags
<1>2. NodeDeductions(fo) <= NodeDeductions(fw)
  <2> HIDE DEF fo, fw
  <2>1. \A n \in DOMAIN fo : NodeDeduction(fo[n]) <= NodeDeduction(fw[n])
    BY <1>1, DeductionMonotonic
  <2> QED BY <1>1, <2>1, NodeDeductionsMonotonic DEF FiniteListing
<1>3. po.crashLoop <= pw.crashLoop /\ po.failed <= pw.failed
  BY PodCountsMonotonic DEF FiniteListing
<1>4. /\ NodeDeductions(fo) \in Nat /\ NodeDeductions(fw) \in Nat
      /\ po.crashLoop \in Nat /\ po.failed \in Nat /\ pw.crashLoop \in Nat /\ pw.failed \in Nat
      /\ o.pvcs \in Nat /\ w.pvcs \in Nat /\ o.events \in Nat /\ w.events \in Nat
  BY ScoreIs DEF FiniteListing
<1>5. /\ Deducted(o) = NodeDeductions(fo) + Capped(2 * po.crashLoop, 20) + Capped(po.failed, 10)
           + Capped(o.events, 10) + (IF o.dns THEN 0 ELSE 15) + Capped(o.pvcs, 10)
      /\ Deducted(w) = NodeDeductions(fw) + Capped(2 * pw.crashLoop, 20) + Capped(pw.failed, 10)
           + Capped(w.events, 10) + (IF w.dns THEN 0 ELSE 15) + Capped(w.pvcs, 10)
  BY DEF Deducted
<1> HIDE DEF fo, fw, po, pw
<1>6. /\ Capped(2 * po.crashLoop, 20) \in Nat /\ Capped(2 * pw.crashLoop, 20) \in Nat
      /\ Capped(2 * po.crashLoop, 20) <= Capped(2 * pw.crashLoop, 20)
  BY <1>3, <1>4 DEF Capped
<1>7. /\ Capped(po.failed, 10) \in Nat /\ Capped(pw.failed, 10) \in Nat
      /\ Capped(po.failed, 10) <= Capped(pw.failed, 10)
      /\ Capped(o.events, 10) \in Nat /\ Capped(w.events, 10) \in Nat
      /\ Capped(o.events, 10) <= Capped(w.events, 10)
      /\ Capped(o.pvcs, 10) \in Nat /\ Capped(w.pvcs, 10) \in Nat
      /\ Capped(o.pvcs, 10) <= Capped(w.pvcs, 10)
  BY <1>3, <1>4, CappedMonotonic
<1>8. (IF o.dns THEN 0 ELSE 15) <= (IF w.dns THEN 0 ELSE 15)
  OBVIOUS
<1>9. Deducted(o) <= Deducted(w)
  BY <1>2, <1>4, <1>5, <1>6, <1>7, <1>8
<1>10. /\ Deducted(o) \in Nat /\ Deducted(w) \in Nat
       /\ ClusterScore(o) = Clamp(100 - Deducted(o), 0, 100)
       /\ ClusterScore(w) = Clamp(100 - Deducted(w), 0, 100)
  BY ScoreIs
<1> QED BY <1>9, <1>10 DEF Clamp

\* With one node and nothing else wrong the two tables of deductions agree.
LEMMA LoneNodeScore ==
  ASSUME NEW o, NEW n, DOMAIN o.nodes = {n}, o.pods = {}, o.pvcs = 0, o.events = 0, o.dns
  PROVE  ClusterScore(o) = ComputeNodeHealthScore(Flags(o.nodes[n]))
<1> DEFINE flags == Flags(o.nodes[n])
           counts == CollectPodCounts({})
<1>1. AllFlags(o.nodes) = [m \in {n} |-> flags]
  BY DEF AllFlags
<1>2. counts.crashLoop = 0 /\ counts.failed = 0
  <2>1. {g \in {} : g.phase = "Failed"} = {} /\ {g \in {} : g.crashLooping} = {}
    OBVIOUS
  <2>2. counts.crashLoop = Count({}) /\ counts.failed = Count({})
    BY <2>1 DEF CollectPodCounts
  <2>3. Count({}) = 0
    <3> DEFINE f == [g \in {} |-> g.count]
    <3>1. Count({}) = SumFunctionOnSet(f, {})
      BY DEF Count, SumFunction
    <3> HIDE DEF f
    <3> QED BY <3>1, SumUnfold, FS_EmptySet
  <2> QED BY <2>2, <2>3
<1>3. ClusterScore(o) = ComputeClusterHealthScore([m \in {n} |-> flags], counts, 0, 0, o.dns)
  BY <1>1 DEF ClusterScore
<1>4. NodeDeductions([m \in {n} |-> flags]) = NodeDeduction(flags)
  BY NodeDeductionsOfOne
<1> HIDE DEF flags, counts
<1>5. ComputeClusterHealthScore([m \in {n} |-> flags], counts, 0, 0, o.dns)
        = Clamp(100 - NodeDeduction(flags), 0, 100)
  BY <1>2, <1>4, DeductionType DEF ComputeClusterHealthScore, Capped
<1>6. Clamp(100 - NodeDeduction(flags), 0, 100) = ComputeNodeHealthScore(flags)
  BY DEF NodeDeduction, ComputeNodeHealthScore
<1> QED BY <1>3, <1>5, <1>6 DEF flags
=============================================================================
