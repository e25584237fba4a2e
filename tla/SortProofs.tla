----------------------------- MODULE SortProofs -----------------------------
(***************************************************************************)
(* Theorems about the topological sort and the order of a plan (topo.go,   *)
(* plan_order.go), for any identities and any graph: the layers Kahn's     *)
(* algorithm makes are right, CycleError is reported exactly if there is   *)
(* a cycle, and OrderPlan puts every change of a plan in one layer, behind *)
(* what it depends on.                                                     *)
(*                                                                         *)
(* The rounds of the algorithm are a recursive function. What is proved of *)
(* them by induction is proved with LeastNat: a counterexample would have  *)
(* a smallest index.                                                       *)
(***************************************************************************)
EXTENDS DepGraphProofs, WellFoundedInduction

\* The induction the proofs below use: a set of naturals has a least element.
LEMMA LeastNat ==
    ASSUME NEW T \in SUBSET Nat, T # {}
    PROVE  \E n \in T : \A m \in T : n <= m
<1>1. PICK n \in T : \A m \in T : ~(<<m, n>> \in OpToRel(<, Nat))
    BY NatLessThanWellFounded, WFMin
<1>2. \A m \in T : ~(m < n)
    BY <1>1 DEF OpToRel
<1> QED  BY <1>2

\* How many elements a set of indices has up to one of them.
Rank(S, i) == Cardinality({j \in S : j <= i})

\* Ranks go up by one at each element, from none to all of them.
LEMMA RankStep ==
    ASSUME NEW n \in Nat, NEW S \in SUBSET (1 .. n)
    PROVE  /\ \A i \in 0 .. n : Rank(S, i) \in Nat
           /\ Rank(S, 0) = 0
           /\ \A i \in 1 .. n : Rank(S, i) = IF i \in S THEN Rank(S, i - 1) + 1 ELSE Rank(S, i - 1)
           /\ Rank(S, n) = Cardinality(S)
           /\ IsFiniteSet(S)
<1>0. \A j \in S : j \in Int /\ 1 <= j /\ j <= n
    OBVIOUS
<1>1. IsFiniteSet(S)
  <2>1. IsFiniteSet(1 .. n) /\ S \subseteq 1 .. n
      BY FS_Interval
  <2> QED  BY <2>1, FS_Subset
<1>2. \A i \in 0 .. n : IsFiniteSet({j \in S : j <= i})
    BY <1>1, FS_Subset
<1>3. \A i \in 0 .. n : Rank(S, i) \in Nat
    BY <1>2, FS_CardinalityType DEF Rank
<1>4. Rank(S, 0) = 0
  <2>0. \A j \in S : ~(j <= 0)
      BY <1>0
  <2>1. {j \in S : j <= 0} = {}
      BY <2>0
  <2> QED  BY <2>1, FS_EmptySet DEF Rank
<1>5. ASSUME NEW i \in 1 .. n
      PROVE  Rank(S, i) = IF i \in S THEN Rank(S, i - 1) + 1 ELSE Rank(S, i - 1)
  <2> DEFINE below == {j \in S : j <= i - 1}
  <2>1. i - 1 \in 0 .. n /\ i \notin below
      OBVIOUS
  <2>2. IsFiniteSet(below)
      BY <1>2, <2>1
  <2>3. CASE i \in S
    <3>0. \A j \in S : j <= i <=> j <= i - 1 \/ j = i
        BY <1>0
    <3>1. {j \in S : j <= i} = below \cup {i}
        BY <2>3, <3>0
    <3> QED  BY <2>1, <2>2, <2>3, <3>1, FS_AddElement DEF Rank
  <2>4. CASE i \notin S
    <3>0. \A j \in S : j <= i <=> j <= i - 1
        BY <1>0, <2>4
    <3>1. {j \in S : j <= i} = below
        BY <3>0
    <3> QED  BY <2>4, <3>1 DEF Rank
  <2> QED  BY <2>3, <2>4
<1>6. Rank(S, n) = Cardinality(S)
  <2>1. {j \in S : j <= n} = S
      BY <1>0
  <2> QED  BY <2>1 DEF Rank
<1> QED  BY <1>1, <1>3, <1>4, <1>5, <1>6

\* Ranks grow with the index, by one at each element.
LEMMA RankGrows ==
    ASSUME NEW n \in Nat, NEW S \in SUBSET (1 .. n),
           NEW i \in 0 .. n, NEW j \in 0 .. n, i < j
    PROVE  Rank(S, i) <= Rank(S, j) /\ (j \in S => Rank(S, i) < Rank(S, j))
<1> DEFINE T == {k \in i .. n : Rank(S, k) < Rank(S, i)}
<1>1. T = {}
  <2> SUFFICES ASSUME T # {} PROVE FALSE
      OBVIOUS
  <2>0. T \in SUBSET Nat
      OBVIOUS
  <2>1. PICK k \in T : \A m \in T : k <= m
      BY <2>0, LeastNat
  <2>2. k # i /\ k \in 1 .. n /\ k - 1 \in i .. n /\ k - 1 \notin T
      BY <2>1, RankStep
  <2> QED  BY <2>1, <2>2, RankStep
<1>2. \A k \in i .. n : Rank(S, i) <= Rank(S, k)
    BY <1>1, RankStep
<1>3. j \in 1 .. n /\ j - 1 \in i .. n
    OBVIOUS
<1> QED  BY <1>2, <1>3, RankStep

\* Each rank up to the number of elements is that of an element.
LEMMA RankIsTaken ==
    ASSUME NEW n \in Nat, NEW S \in SUBSET (1 .. n), NEW k \in 1 .. Cardinality(S)
    PROVE  \E i \in S : Rank(S, i) = k
<1>0. Cardinality(S) \in Nat /\ k \in Nat
    BY RankStep, FS_CardinalityType
<1> DEFINE T == {i \in 0 .. n : k <= Rank(S, i)}
<1>1. T # {}
    BY <1>0, RankStep
<1>2. PICK i \in T : \A m \in T : i <= m
  <2>1. T \in SUBSET Nat
      OBVIOUS
  <2> QED  BY <1>1, <2>1, LeastNat
<1>3. i \in 1 .. n /\ i - 1 \in 0 .. n /\ i - 1 \notin T
    BY <1>0, <1>2, RankStep
<1> QED  BY <1>0, <1>2, <1>3, RankStep

-----------------------------------------------------------------------------
\* at tells where the m layers that have elements stand among all n.
Keeps(layers, n, m, at) ==
    LET kept == {i \in 1 .. n : layers[i] # {}}
    IN  /\ at \in [1 .. m -> kept]
        /\ NonEmpty(layers) = [k \in 1 .. m |-> layers[at[k]]]
        /\ \A k, l \in 1 .. m : k < l => at[k] < at[l]
        /\ \A i \in kept : \E k \in 1 .. m : at[k] = i

\* NonEmpty keeps the layers that have elements, and their order.
LEMMA NonEmptyKeepsOrder ==
    ASSUME NEW n \in Nat, NEW layers, DOMAIN layers = 1 .. n
    PROVE  \E m \in Nat : \E at : Keeps(layers, n, m, at)
<1> DEFINE kept == {i \in 1 .. n : layers[i] # {}}
           m == Cardinality(kept)
           At(k) == CHOOSE i \in kept : Rank(kept, i) = k
           at == [k \in 1 .. m |-> At(k)]
<1>1. kept \in SUBSET (1 .. n)
    OBVIOUS
<1>2. m \in Nat
    BY <1>1, RankStep, FS_CardinalityType
<1>3. NonEmpty(layers) = [k \in 1 .. m |-> layers[At(k)]]
    BY DEF NonEmpty, Rank
<1> HIDE DEF kept
<1>4. \A k \in 1 .. m : At(k) \in kept /\ Rank(kept, At(k)) = k
    BY <1>1, RankIsTaken
<1>5. at \in [1 .. m -> kept]
    BY <1>4
<1>6. NonEmpty(layers) = [k \in 1 .. m |-> layers[at[k]]]
    BY <1>3
<1>7. \A k \in 1 .. m : at[k] \in kept /\ Rank(kept, at[k]) = k
    BY <1>4
<1> HIDE DEF at, m
<1>8. ASSUME NEW k \in 1 .. m, NEW l \in 1 .. m, k < l PROVE at[k] < at[l]
  <2>1. at[k] \in 1 .. n /\ at[l] \in 1 .. n
      BY <1>1, <1>7
  <2>2. CASE at[l] < at[k]
      BY <1>1, <1>2, <1>7, <1>8, <2>1, <2>2, RankGrows
  <2>3. CASE at[l] = at[k]
      BY <1>2, <1>7, <1>8, <2>3
  <2> QED  BY <2>1, <2>2, <2>3
<1>9. ASSUME NEW i \in kept PROVE \E k \in 1 .. m : at[k] = i
  <2>1. i \in 1 .. n /\ i - 1 \in 0 .. n
      BY <1>1
  <2>2. Rank(kept, i) \in 1 .. m
    <3>1. Rank(kept, i) \in Nat /\ Rank(kept, i) >= 1
      <4>1. Rank(kept, i) = Rank(kept, i - 1) + 1
          BY <1>1, <2>1, RankStep
      <4>2. Rank(kept, i - 1) \in Nat
          BY <1>1, <2>1, RankStep
      <4> QED  BY <4>1, <4>2
    <3>2. Rank(kept, i) <= m
      <4>0. Rank(kept, n) = m
          BY <1>1, RankStep DEF m
      <4>1. CASE i = n
          BY <1>2, <4>0, <4>1
      <4>2. CASE i < n
          BY <1>1, <2>1, <4>0, <4>2, RankGrows
      <4> QED  BY <2>1, <4>1, <4>2
    <3> QED  BY <1>2, <3>1, <3>2
  <2> DEFINE k == Rank(kept, i)
  <2>3. at[k] \in 1 .. n /\ Rank(kept, at[k]) = k
      BY <1>1, <1>7, <2>2
  <2>4. at[k] = i
    <3>0. at[k] \in kept /\ k \in Nat
        BY <1>7, <2>2
    <3>1. CASE at[k] < i
        BY <1>1, <2>1, <2>3, <3>0, <3>1, RankGrows
    <3>2. CASE i < at[k]
        BY <1>1, <2>1, <2>3, <3>0, <3>2, RankGrows
    <3> QED  BY <2>1, <2>3, <3>1, <3>2
  <2> QED  BY <2>2, <2>4
<1>10. Keeps(layers, n, m, at)
    BY <1>5, <1>6, <1>8, <1>9 DEF Keeps, kept
<1> QED  BY <1>2, <1>10

-----------------------------------------------------------------------------
(* Kahn's algorithm. *)

\* The recursive function of KahnRounds is one: each round is made from the one
\* before it.
LEMMA RoundsExist ==
    ASSUME NEW g, NEW n \in Nat
    PROVE  \E round : round = [k \in 1 .. n |-> IF k = 1 THEN KahnStart(g)
                                               ELSE KahnStep(g, round[k - 1])]
<1> DEFINE Rounds(round, m) == round = [k \in 1 .. m |-> IF k = 1 THEN KahnStart(g)
                                                        ELSE KahnStep(g, round[k - 1])]
           T == {m \in Nat : ~\E round : Rounds(round, m)}
<1>1. T = {}
  <2> SUFFICES ASSUME T # {} PROVE FALSE
      OBVIOUS
  <2>1. T \in SUBSET Nat
      OBVIOUS
  <2>2. PICK m \in T : \A l \in T : m <= l
      BY <2>1, LeastNat
  <2>3. m # 0
    <3>1. Rounds([k \in 1 .. 0 |-> 0], 0)
        OBVIOUS
    <3> QED  BY <2>2, <3>1
  <2>4. m - 1 \in Nat /\ m - 1 \notin T
    <3> HIDE DEF T
    <3> QED  BY <2>1, <2>2, <2>3
  <2>5. PICK old : Rounds(old, m - 1)
      BY <2>4
  <2> DEFINE new == [k \in 1 .. m |-> IF k = 1 THEN KahnStart(g)
                                     ELSE KahnStep(g, old[k - 1])]
  <2>6. \A k \in 1 .. m - 1 : old[k] = new[k]
      BY <2>4, <2>5
  <2>7. \A k \in 1 .. m : k # 1 => k - 1 \in 1 .. m - 1
      BY <2>4
  <2>8. Rounds(new, m)
      BY <2>6, <2>7
  <2> QED  BY <2>2, <2>8
<1> QED  BY <1>1

\* KahnRounds is the function its recursive definition describes.
LEMMA RoundsDef ==
    ASSUME NEW g, Cardinality(g.nodes) \in Nat
    PROVE  \A k \in 1 .. Cardinality(g.nodes) + 1 :
              KahnRounds(g)[k] = IF k = 1 THEN KahnStart(g)
                                 ELSE KahnStep(g, KahnRounds(g)[k - 1])
<1> DEFINE n == Cardinality(g.nodes) + 1
           Body(round) == [k \in 1 .. n |-> IF k = 1 THEN KahnStart(g)
                                           ELSE KahnStep(g, round[k - 1])]
<1>1. n \in Nat
    OBVIOUS
<1>2. \E round : round = Body(round)
    BY <1>1, RoundsExist
<1>3. KahnRounds(g) = CHOOSE round : round = Body(round)
    BY DEF KahnRounds
<1>4. KahnRounds(g) = Body(KahnRounds(g))
    BY <1>2, <1>3
<1> DEFINE round == KahnRounds(g)
<1> HIDE DEF round
<1>5. round = Body(round)
    BY <1>4 DEF round
<1>6. \A k \in 1 .. n : round[k] = IF k = 1 THEN KahnStart(g) ELSE KahnStep(g, round[k - 1])
    BY <1>5
<1> QED  BY <1>6 DEF round

-----------------------------------------------------------------------------
\* The entries of lists of naturals.
LEMMA EntriesFacts ==
    ASSUME NEW S, IsFiniteSet(S), NEW lists, \A n \in S : lists[n] \in Nat
    PROVE  /\ IsFiniteSet(Entries(lists, S))
           /\ Cardinality(Entries(lists, S)) \in Nat
           /\ Cardinality(Entries(lists, S)) = 0 <=> \A n \in S : lists[n] = 0
<1>1. IsFiniteSet(Entries(lists, S))
  <2> DEFINE family == {{n} \X (1 .. lists[n]) : n \in S}
  <2>1. IsFiniteSet(family)
    <3>1. [n \in S |-> {n} \X (1 .. lists[n])] \in Surjection(S, family)
        BY DEF Surjection
    <3> QED  BY <3>1, FS_Surjection DEF ExistsSurjection
  <2>2. ASSUME NEW n \in S PROVE IsFiniteSet({n} \X (1 .. lists[n]))
    <3>1. IsFiniteSet({n})
        BY FS_Singleton
    <3>2. lists[n] \in Int /\ 1 \in Int
        BY <2>2
    <3>3. IsFiniteSet(1 .. lists[n])
        BY <3>2, FS_Interval
    <3> QED  BY <3>1, <3>3, FS_Product
  <2>3. \A e \in family : IsFiniteSet(e)
      BY <2>2
  <2> QED  BY <2>1, <2>3, FS_UNION DEF Entries
<1>2. Cardinality(Entries(lists, S)) \in Nat
    BY <1>1, FS_CardinalityType
<1>3. Cardinality(Entries(lists, S)) = 0 <=> Entries(lists, S) = {}
    BY <1>1, FS_EmptySet
<1>4. Entries(lists, S) = {} <=> \A n \in S : lists[n] = 0
  <2>1. ASSUME NEW n \in S, lists[n] # 0 PROVE <<n, 1>> \in Entries(lists, S)
    <3>1. 1 \in 1 .. lists[n]
        BY <2>1
    <3> QED  BY <3>1 DEF Entries
  <2>2. ASSUME \A n \in S : lists[n] = 0 PROVE Entries(lists, S) = {}
    <3>1. \A n \in S : 1 .. lists[n] = {}
        BY <2>2
    <3> QED  BY <3>1 DEF Entries
  <2> QED  BY <2>1, <2>2
<1> QED  BY <1>1, <1>2, <1>3, <1>4

\* The entries for a set of nodes are those for a part and for the rest.
LEMMA EntriesSplit ==
    ASSUME NEW S, IsFiniteSet(S), NEW T \in SUBSET S,
           NEW lists, \A n \in S : lists[n] \in Nat
    PROVE  Cardinality(Entries(lists, S)) =
               Cardinality(Entries(lists, T)) + Cardinality(Entries(lists, S \ T))
<1> DEFINE A == Entries(lists, T)
           B == Entries(lists, S \ T)
<1>1. IsFiniteSet(T) /\ IsFiniteSet(S \ T)
    BY FS_Subset
<1>2. IsFiniteSet(A) /\ IsFiniteSet(B)
    BY <1>1, EntriesFacts
<1>3. Entries(lists, S) = A \cup B
    BY DEF Entries
<1>4. A \cap B = {}
    BY DEF Entries
<1> HIDE DEF A, B
<1>5. Cardinality(A \cap B) = 0
    BY <1>4, FS_EmptySet
<1>6. Cardinality(A) \in Nat /\ Cardinality(B) \in Nat
    BY <1>2, FS_CardinalityType
<1>7. Cardinality(A \cup B) = Cardinality(A) + Cardinality(B) - Cardinality(A \cap B)
    BY <1>2, FS_Union
<1> QED  BY <1>3, <1>5, <1>6, <1>7 DEF A, B

\* Lists that agree on the nodes have the same entries.
LEMMA EntriesSame ==
    ASSUME NEW S, NEW f, NEW h, \A n \in S : f[n] = h[n]
    PROVE  Entries(f, S) = Entries(h, S)
    BY DEF Entries

\* How many entries of d's forward list are in S.
Weight(g, d, S) == Cardinality(Entries(g.fwd[d], S))

\* The nodes of the first k layers.
Placed(g, k) == UNION {KahnRounds(g)[j].layer : j \in 1 .. k}

\* The graphs the engine sorts.
SortInput(g) == WellFormed(g) /\ InStep(g) /\ IsFiniteSet(g.nodes)

\* No entry means no dependency; entries add up.
LEMMA WeightFacts ==
    ASSUME NEW g, SortInput(g), NEW d \in Id, NEW S \in SUBSET g.nodes
    PROVE  /\ Weight(g, d, S) \in Nat
           /\ Weight(g, d, S) = 0 <=> DependsOn(g, d) \cap S = {}
           /\ \A T \in SUBSET S : Weight(g, d, S) = Weight(g, d, T) + Weight(g, d, S \ T)
<1>1. /\ IsFiniteSet(S) /\ S \subseteq Id
      /\ \A n \in Id : g.fwd[d][n] \in Nat
    BY FS_Subset DEF SortInput, WellFormed
<1>2. \A n \in S : g.fwd[d][n] \in Nat
    BY <1>1
<1>3. /\ Weight(g, d, S) \in Nat
      /\ Weight(g, d, S) = 0 <=> \A n \in S : g.fwd[d][n] = 0
    BY <1>1, <1>2, EntriesFacts DEF Weight
<1>4. (\A n \in S : g.fwd[d][n] = 0) <=> DependsOn(g, d) \cap S = {}
    BY <1>1, <1>2 DEF DependsOn
<1>5. \A T \in SUBSET S : Weight(g, d, S) = Weight(g, d, T) + Weight(g, d, S \ T)
    BY <1>1, <1>2, EntriesSplit DEF Weight
<1> QED  BY <1>3, <1>4, <1>5

\* The in-degree counts every dependency: all are nodes of the graph.
LEMMA InDegreeIsWeight ==
    ASSUME NEW g, SortInput(g), NEW d \in Id
    PROVE  InDegree(g)[d] = Weight(g, d, g.nodes)
<1>1. /\ g.nodes \subseteq Id
      /\ \A n \in Id : g.fwd[d][n] \in Nat
      /\ \A n \in Id \ g.nodes : g.fwd[d][n] = 0
  <2>1. g.nodes \subseteq Id /\ \A n \in Id : g.fwd[d][n] \in Nat
      BY DEF SortInput, WellFormed
  <2>2. \A n \in Id \ g.nodes : ~(g.fwd[d][n] > 0)
      BY DEF SortInput, WellFormed
  <2> QED  BY <2>1, <2>2
<1>2. CASE d \in g.nodes
  <2>1. \A n \in Id \ g.nodes : 1 .. g.fwd[d][n] = {}
      BY <1>1
  <2>2. Entries(g.fwd[d], Id) = Entries(g.fwd[d], g.nodes)
      BY <1>1, <2>1 DEF Entries
  <2> QED  BY <1>2, <2>2 DEF InDegree, Weight
<1>3. CASE d \notin g.nodes
  <2>1. DependsOn(g, d) = {}
      BY <1>3 DEF SortInput, WellFormed, DependsOn
  <2>2. Weight(g, d, g.nodes) = 0
      BY <2>1, WeightFacts
  <2> QED  BY <1>3, <2>2 DEF InDegree
<1> QED  BY <1>2, <1>3

\* reverse, which the sort decrements by, holds what forward, which it counted,
\* holds: a layer takes off as much as it contributed.
LEMMA DecrementsAreWeight ==
    ASSUME NEW g, SortInput(g), NEW d \in Id, NEW S \in SUBSET g.nodes
    PROVE  Decrements(g, d, S) = Weight(g, d, S)
<1> DEFINE lists == [n \in S |-> g.rev[n][d]]
<1>1. \A n \in S : lists[n] = g.fwd[d][n]
    BY DEF SortInput, WellFormed, InStep
<1> HIDE DEF lists
<1>2. Entries(lists, S) = Entries(g.fwd[d], S)
    BY <1>1, EntriesSame
<1> QED  BY <1>2 DEF Decrements, Weight, lists

\* What a round of the sort has placed and what it has left to place.
RoundRight(g, k) ==
    LET r == KahnRounds(g)[k]
        left == g.nodes \ Placed(g, k - 1)
    IN  /\ r.deg = [d \in Id |-> Weight(g, d, left)]
        /\ r.layer = {d \in left : DependsOn(g, d) \subseteq Placed(g, k - 1)}

\* A round places its layer.
LEMMA PlacedStep ==
    ASSUME NEW g, NEW k \in Nat, k >= 1
    PROVE  Placed(g, k) = Placed(g, k - 1) \cup KahnRounds(g)[k].layer
<1>1. 1 .. k = (1 .. (k - 1)) \cup {k}
    OBVIOUS
<1> QED  BY <1>1 DEF Placed

\* The first layer: the nodes without dependencies.
LEMMA FirstRound ==
    ASSUME NEW g, SortInput(g)
    PROVE  RoundRight(g, 1)
<1>0. Cardinality(g.nodes) \in Nat
    BY FS_CardinalityType DEF SortInput
<1>1. KahnRounds(g)[1] = KahnStart(g)
    BY <1>0, RoundsDef
<1>2. Placed(g, 0) = {}
  <2>1. 1 .. 0 = {}
      OBVIOUS
  <2> QED  BY <2>1 DEF Placed
<1>3. g.nodes \subseteq Id /\ \A d \in Id : DependsOn(g, d) \subseteq g.nodes
    BY DEF SortInput, WellFormed, DependsOn
<1>4. InDegree(g) = [d \in Id |-> Weight(g, d, g.nodes)]
  <2>1. \A d \in Id : InDegree(g)[d] = Weight(g, d, g.nodes)
      BY InDegreeIsWeight
  <2> QED  BY <2>1 DEF InDegree
<1>5. \A d \in g.nodes : InDegree(g)[d] = 0 <=> DependsOn(g, d) = {}
    BY <1>3, <1>4, WeightFacts
<1>6. KahnStart(g).layer = {d \in g.nodes : DependsOn(g, d) \subseteq {}}
    BY <1>5 DEF KahnStart
<1>7. KahnStart(g).deg = [d \in Id |-> Weight(g, d, g.nodes)]
    BY <1>4 DEF KahnStart
<1>8. 1 - 1 = 0 /\ g.nodes \ {} = g.nodes
    OBVIOUS
<1> QED  BY <1>1, <1>2, <1>6, <1>7, <1>8 DEF RoundRight

\* Each round follows from those before: a node enters the layer in which its
\* in-degree becomes zero, and never again.
LEMMA NextRound ==
    ASSUME NEW g, SortInput(g), NEW k \in 1 .. Cardinality(g.nodes),
           \A j \in 1 .. k : RoundRight(g, j)
    PROVE  RoundRight(g, k + 1)
<1> DEFINE r == KahnRounds(g)[k]
           next == KahnRounds(g)[k + 1]
           done == Placed(g, k - 1)
           left == g.nodes \ done
           left2 == g.nodes \ Placed(g, k)
<1>0. Cardinality(g.nodes) \in Nat
    BY FS_CardinalityType DEF SortInput
<1>1. next = KahnStep(g, r)
  <2>1. k + 1 \in 1 .. Cardinality(g.nodes) + 1 /\ k + 1 # 1 /\ (k + 1) - 1 = k
      BY <1>0
  <2>2. next = KahnStep(g, KahnRounds(g)[(k + 1) - 1])
      BY <1>0, <2>1, RoundsDef
  <2> QED  BY <2>1, <2>2
<1>2. /\ r.deg = [d \in Id |-> Weight(g, d, left)]
      /\ r.layer = {d \in left : DependsOn(g, d) \subseteq done}
  <2>1. RoundRight(g, k)
    <3>1. k \in 1 .. k
        BY <1>0
    <3> QED  BY <3>1
  <2> QED  BY <2>1 DEF RoundRight
<1>3. Placed(g, k) = done \cup r.layer /\ (k + 1) - 1 = k
    BY <1>0, PlacedStep
<1>4. \A d \in Placed(g, k) : DependsOn(g, d) \subseteq done
  <2> SUFFICES ASSUME NEW d \in Placed(g, k)
               PROVE  DependsOn(g, d) \subseteq done
      OBVIOUS
  <2>0. PICK j \in 1 .. k : d \in KahnRounds(g)[j].layer
      BY DEF Placed
  <2>1. DependsOn(g, d) \subseteq Placed(g, j - 1)
      BY <2>0 DEF RoundRight
  <2>2. 1 .. (j - 1) \subseteq 1 .. (k - 1)
      BY <1>0
  <2>3. Placed(g, j - 1) \subseteq Placed(g, k - 1)
      BY <2>2 DEF Placed
  <2> QED  BY <2>1, <2>3
<1>5. g.nodes \subseteq Id /\ \A d \in Id : DependsOn(g, d) \subseteq g.nodes
    BY DEF SortInput, WellFormed, DependsOn
<1> HIDE DEF r, next, done, left2
<1>6. /\ left \ r.layer = left2
      /\ r.layer \subseteq left /\ left \subseteq g.nodes /\ left2 \subseteq g.nodes
    BY <1>2, <1>3 DEF left2
<1>7. ASSUME NEW d \in Id
      PROVE  /\ Decrements(g, d, r.layer) = Weight(g, d, r.layer)
             /\ Weight(g, d, left) = Weight(g, d, r.layer) + Weight(g, d, left2)
             /\ Weight(g, d, left) \in Nat /\ Weight(g, d, left2) \in Nat
             /\ Weight(g, d, r.layer) \in Nat
             /\ Weight(g, d, left) = 0 <=> DependsOn(g, d) \cap left = {}
             /\ Weight(g, d, left2) = 0 <=> DependsOn(g, d) \cap left2 = {}
             /\ r.deg[d] = Weight(g, d, left)
  <2>0. left \in SUBSET g.nodes /\ left2 \in SUBSET g.nodes
        /\ r.layer \in SUBSET g.nodes /\ r.layer \in SUBSET left
      BY <1>6
  <2> HIDE DEF left
  <2>1. Decrements(g, d, r.layer) = Weight(g, d, r.layer)
      BY <2>0, DecrementsAreWeight
  <2>2. Weight(g, d, left) = Weight(g, d, r.layer) + Weight(g, d, left \ r.layer)
      BY <2>0, WeightFacts
  <2>3. /\ Weight(g, d, left) \in Nat /\ Weight(g, d, left2) \in Nat
        /\ Weight(g, d, r.layer) \in Nat
        /\ Weight(g, d, left) = 0 <=> DependsOn(g, d) \cap left = {}
        /\ Weight(g, d, left2) = 0 <=> DependsOn(g, d) \cap left2 = {}
      BY <2>0, WeightFacts
  <2> QED  BY <1>2, <1>6, <2>1, <2>2, <2>3
<1>8. next.deg = [d \in Id |-> Weight(g, d, left2)]
  <2>1. \A d \in Id : r.deg[d] - Decrements(g, d, r.layer) = Weight(g, d, left2)
      BY <1>7
  <2> QED  BY <1>1, <2>1 DEF KahnStep
<1>9. \A d \in Id : r.deg[d] > 0 /\ Decrements(g, d, r.layer) >= r.deg[d]
                      <=> /\ DependsOn(g, d) \cap left # {}
                          /\ DependsOn(g, d) \cap left2 = {}
  <2> SUFFICES ASSUME NEW d \in Id
               PROVE  r.deg[d] > 0 /\ Decrements(g, d, r.layer) >= r.deg[d]
                      <=> /\ Weight(g, d, left) # 0
                          /\ Weight(g, d, left2) = 0
      BY <1>7
  <2> HIDE DEF left
  <2> QED  BY <1>7
<1>10. next.layer = {d \in Id : /\ DependsOn(g, d) \cap left # {}
                                /\ DependsOn(g, d) \cap left2 = {}}
  <2> HIDE DEF left
  <2> QED  BY <1>1, <1>9 DEF KahnStep
<1>11. \A d \in Id : DependsOn(g, d) # {} => d \in g.nodes
    BY DEF SortInput, WellFormed, DependsOn
<1>12. \A d \in Id : /\ DependsOn(g, d) \cap left # {}
                     /\ DependsOn(g, d) \cap left2 = {}
                     <=> d \in left2 /\ DependsOn(g, d) \subseteq Placed(g, k)
    BY <1>2, <1>3, <1>4, <1>5, <1>11 DEF left2
<1>13. next.layer = {d \in left2 : DependsOn(g, d) \subseteq Placed(g, k)}
    BY <1>5, <1>6, <1>10, <1>12
<1> QED  BY <1>3, <1>8, <1>13 DEF RoundRight, next, left2

\* All rounds are as RoundRight says, by induction over their number.
LEMMA EveryRound ==
    ASSUME NEW g, SortInput(g)
    PROVE  \A k \in 1 .. Cardinality(g.nodes) + 1 : RoundRight(g, k)
<1>0. Cardinality(g.nodes) \in Nat
    BY FS_CardinalityType DEF SortInput
<1> DEFINE T == {k \in 1 .. Cardinality(g.nodes) + 1 : ~RoundRight(g, k)}
<1> SUFFICES ASSUME T # {} PROVE FALSE
    OBVIOUS
<1>1. T \in SUBSET Nat
    OBVIOUS
<1>2. PICK k \in T : \A j \in T : k <= j
    BY <1>1, LeastNat
<1>3. k # 1
    BY <1>2, FirstRound
<1>4. k - 1 \in 1 .. Cardinality(g.nodes) /\ (k - 1) + 1 = k
    BY <1>0, <1>2, <1>3
<1>5. \A j \in 1 .. (k - 1) : j \in 1 .. Cardinality(g.nodes) + 1 /\ ~(k <= j)
    BY <1>0, <1>4
<1>6. \A j \in 1 .. (k - 1) : RoundRight(g, j)
    BY <1>2, <1>5
<1> QED  BY <1>2, <1>4, <1>6, NextRound

-----------------------------------------------------------------------------
\* What the layers of a topological sort are.
Layered(g, topo) ==
    /\ topo \in Seq(SUBSET g.nodes)
    /\ \A i \in DOMAIN topo : topo[i] # {}
    /\ \A i, j \in DOMAIN topo : i # j => topo[i] \cap topo[j] = {}
    /\ \A i \in DOMAIN topo : \A d \in topo[i] : \A e \in DependsOn(g, d) :
          \E j \in 1 .. i - 1 : e \in topo[j]

\* No node is placed twice.
LEMMA RoundsDisjoint ==
    ASSUME NEW g, SortInput(g),
           NEW j \in 1 .. Cardinality(g.nodes) + 1, NEW k \in 1 .. Cardinality(g.nodes) + 1,
           j < k
    PROVE  KahnRounds(g)[j].layer \cap KahnRounds(g)[k].layer = {}
<1>0. Cardinality(g.nodes) \in Nat
    BY FS_CardinalityType DEF SortInput
<1>1. KahnRounds(g)[k].layer \cap Placed(g, k - 1) = {}
  <2>1. RoundRight(g, k)
      BY EveryRound
  <2> QED  BY <2>1 DEF RoundRight
<1>2. j \in 1 .. (k - 1)
    BY <1>0
<1>3. KahnRounds(g)[j].layer \subseteq Placed(g, k - 1)
    BY <1>2 DEF Placed
<1> QED  BY <1>1, <1>3

\* TopologicalSort, on every graph whose two maps agree: no layer is empty, no
\* node is in two layers, and what a node depends on is in an earlier one; the
\* nodes on cycles, and behind them, are the ones left out (topo.go:30-69).
THEOREM SortIsLayered ==
    ASSUME NEW g, SortInput(g)
    PROVE  /\ Layered(g, TopologicalSort(g))
           /\ UNION {TopologicalSort(g)[i] : i \in DOMAIN TopologicalSort(g)}
                = Placed(g, Cardinality(g.nodes) + 1)
<1> DEFINE n == Cardinality(g.nodes) + 1
           layers == [k \in 1 .. n |-> KahnRounds(g)[k].layer]
           topo == TopologicalSort(g)
           kept == {i \in 1 .. n : layers[i] # {}}
<1>0. Cardinality(g.nodes) \in Nat /\ n \in Nat
    BY FS_CardinalityType DEF SortInput
<1>1. topo = NonEmpty(layers)
    BY DEF TopologicalSort
<1>2. /\ \A k \in 1 .. n : layers[k] = KahnRounds(g)[k].layer
      /\ DOMAIN layers = 1 .. n
    OBVIOUS
<1> HIDE DEF topo, layers
<1>3. PICK m \in Nat : \E at : Keeps(layers, n, m, at)
  <2> HIDE DEF n
  <2> QED  BY <1>0, <1>2, NonEmptyKeepsOrder
<1>4. PICK at : Keeps(layers, n, m, at)
    BY <1>3
<1>13. /\ at \in [1 .. m -> kept]
       /\ topo = [k \in 1 .. m |-> layers[at[k]]]
       /\ \A k, l \in 1 .. m : k < l => at[k] < at[l]
       /\ \A i \in kept : \E k \in 1 .. m : at[k] = i
  <2> HIDE DEF n
  <2> QED  BY <1>1, <1>4 DEF Keeps
<1>5. \A k \in 1 .. m : /\ at[k] \in 1 .. n
                        /\ topo[k] = KahnRounds(g)[at[k]].layer
                        /\ topo[k] # {}
    BY <1>2, <1>13
<1>6. DOMAIN topo = 1 .. m
    BY <1>13
<1>7. \A k \in 1 .. n : /\ KahnRounds(g)[k].layer \subseteq g.nodes
                        /\ \A d \in KahnRounds(g)[k].layer : DependsOn(g, d) \subseteq Placed(g, k - 1)
  <2> SUFFICES ASSUME NEW k \in 1 .. n
               PROVE  /\ KahnRounds(g)[k].layer \subseteq g.nodes
                      /\ \A d \in KahnRounds(g)[k].layer : DependsOn(g, d) \subseteq Placed(g, k - 1)
      OBVIOUS
  <2>1. RoundRight(g, k)
      BY EveryRound
  <2> QED  BY <2>1 DEF RoundRight
<1>8. topo \in Seq(SUBSET g.nodes)
  <2>1. topo \in [1 .. m -> SUBSET g.nodes]
      BY <1>5, <1>6, <1>7, <1>13
  <2> QED  BY <2>1
<1>9. ASSUME NEW i \in 1 .. m, NEW j \in 1 .. m, i # j PROVE topo[i] \cap topo[j] = {}
  <2>1. at[i] < at[j] \/ at[j] < at[i]
      BY <1>9, <1>13
  <2> QED  BY <1>5, <2>1, RoundsDisjoint
<1>10. ASSUME NEW i \in 1 .. m, NEW d \in topo[i], NEW e \in DependsOn(g, d)
       PROVE  \E j \in 1 .. i - 1 : e \in topo[j]
  <2>1. e \in Placed(g, at[i] - 1)
      BY <1>5, <1>7
  <2>2. PICK q \in 1 .. (at[i] - 1) : e \in KahnRounds(g)[q].layer
      BY <2>1 DEF Placed
  <2>3. q \in kept
    <3>1. q \in 1 .. n
        BY <1>0, <1>5
    <3> QED  BY <1>2, <2>2, <3>1
  <2>4. PICK j \in 1 .. m : at[j] = q
      BY <1>13, <2>3
  <2>5. e \in topo[j]
      BY <1>5, <2>2, <2>4
  <2>6. at[j] < at[i] /\ at[i] \in Nat
      BY <1>0, <1>5, <2>2, <2>4
  <2>7. j < i
    <3>1. ~(i < j) /\ i # j
        BY <1>13, <1>5, <2>6
    <3> QED  BY <3>1
  <2> QED  BY <2>5, <2>7
<1>11. UNION {topo[i] : i \in 1 .. m} = Placed(g, n)
  <2>1. ASSUME NEW i \in 1 .. m PROVE topo[i] \subseteq Placed(g, n)
      BY <1>5 DEF Placed
  <2>2. ASSUME NEW d \in Placed(g, n) PROVE \E i \in 1 .. m : d \in topo[i]
    <3>1. PICK q \in 1 .. n : d \in KahnRounds(g)[q].layer
        BY <2>2 DEF Placed
    <3>2. q \in kept
        BY <1>2, <3>1
    <3>3. PICK j \in 1 .. m : at[j] = q
        BY <1>13, <3>2
    <3> QED  BY <1>5, <3>1, <3>3
  <2> QED  BY <2>1, <2>2
<1> QED  BY <1>5, <1>6, <1>8, <1>9, <1>10, <1>11 DEF Layered, topo

-----------------------------------------------------------------------------
\* The nodes of the layers, each counted in each of them, are as many as there
\* are nodes only if they are all of them.
LEMMA CountIsUnion ==
    ASSUME NEW g, SortInput(g), NEW topo, Layered(g, topo)
    PROVE  LET all == UNION {{k} \X topo[k] : k \in DOMAIN topo}
           IN  Cardinality(all) < Cardinality(g.nodes)
                 <=> UNION {topo[i] : i \in DOMAIN topo} # g.nodes
<1> DEFINE all == UNION {{k} \X topo[k] : k \in DOMAIN topo}
           f == [p \in all |-> p[2]]
<1>1. \A p \in all : /\ p = <<p[1], p[2]>> /\ p[1] \in DOMAIN topo
                     /\ p[2] \in topo[p[1]] /\ p[2] \in g.nodes
    BY DEF Layered
<1>2. \A k \in DOMAIN topo : \A d \in topo[k] : <<k, d>> \in all /\ f[<<k, d>>] = d
    OBVIOUS
<1>3. \A p, q \in all : p[2] = q[2] => p = q
  <2> SUFFICES ASSUME NEW p \in all, NEW q \in all, p[2] = q[2]
               PROVE  p = q
      OBVIOUS
  <2>1. p[2] \in topo[p[1]] \cap topo[q[1]]
      BY <1>1
  <2>2. p[1] = q[1]
      BY <1>1, <2>1 DEF Layered
  <2> QED  BY <1>1, <2>2
<1> HIDE DEF all
<1>4. f \in Injection(all, g.nodes)
    BY <1>1, <1>3 DEF Injection, IsInjective
<1>5. IsFiniteSet(g.nodes)
    BY DEF SortInput
<1>6. /\ Cardinality(all) <= Cardinality(g.nodes)
      /\ Cardinality(all) = Cardinality(g.nodes) <=> f \in Surjection(all, g.nodes)
      /\ Cardinality(all) \in Nat /\ Cardinality(g.nodes) \in Nat
    BY <1>4, <1>5, FS_Injection, FS_CardinalityType
<1>7. f \in Surjection(all, g.nodes) <=> UNION {topo[i] : i \in DOMAIN topo} = g.nodes
  <2>1. UNION {topo[i] : i \in DOMAIN topo} \subseteq g.nodes
      BY DEF Layered
  <2>2. f \in [all -> g.nodes]
      BY <1>1
  <2>3. ASSUME f \in Surjection(all, g.nodes), NEW d \in g.nodes
        PROVE  \E i \in DOMAIN topo : d \in topo[i]
    <3>1. PICK p \in all : f[p] = d
        BY <2>3 DEF Surjection
    <3> QED  BY <1>1, <3>1
  <2>4. ASSUME \A d \in g.nodes : \E i \in DOMAIN topo : d \in topo[i]
        PROVE  f \in Surjection(all, g.nodes)
    <3>1. ASSUME NEW d \in g.nodes PROVE \E p \in all : f[p] = d
      <4>1. PICK i \in DOMAIN topo : d \in topo[i]
          BY <2>4
      <4>2. <<i, d>> \in all /\ f[<<i, d>>] = d
          BY <1>2, <4>1
      <4> QED  BY <4>2
    <3> QED  BY <2>2, <3>1 DEF Surjection
  <2> QED  BY <2>1, <2>3, <2>4
<1> QED  BY <1>6, <1>7 DEF all

\* A set of nodes in which each depends on one: there is one if and only if
\* there is a cycle.
Stuck(g, S) == S # {} /\ \A d \in S : DependsOn(g, d) \cap S # {}

\* The last round places nothing: there are no more layers than nodes.
LEMMA LastRoundEmpty ==
    ASSUME NEW g, SortInput(g)
    PROVE  KahnRounds(g)[Cardinality(g.nodes) + 1].layer = {}
<1> DEFINE n == Cardinality(g.nodes) + 1
           layer(k) == KahnRounds(g)[k].layer
<1>0. Cardinality(g.nodes) \in Nat /\ n \in Nat /\ IsFiniteSet(g.nodes)
    BY FS_CardinalityType DEF SortInput
<1> SUFFICES ASSUME layer(n) # {} PROVE FALSE
    OBVIOUS
<1>1. \A k \in 1 .. n : layer(k) # {}
  <2> DEFINE T == {i \in 0 .. n - 1 : layer(n - i) = {}}
  <2> SUFFICES ASSUME T # {} PROVE FALSE
    <3>1. \A k \in 1 .. n : n - k \in 0 .. n - 1 /\ n - (n - k) = k
        BY <1>0
    <3> QED  BY <3>1
  <2>0. T \in SUBSET Nat
      BY <1>0
  <2>1. PICK i \in T : \A j \in T : i <= j
      BY <2>0, LeastNat
  <2>2. n - 0 = n
      BY <1>0
  <2>3. i # 0
      BY <2>1, <2>2
  <2> DEFINE k == n - i
  <2>4. /\ k \in 1 .. n /\ k + 1 \in 1 .. n /\ k \in Nat /\ k >= 1
        /\ (k + 1) - 1 = k /\ n - (i - 1) = k + 1 /\ i - 1 \in 0 .. n - 1 /\ ~(i <= i - 1)
      BY <1>0, <2>3
  <2>5. layer(k + 1) # {}
    <3>1. i - 1 \notin T
        BY <2>1, <2>4
    <3> QED  BY <2>4, <3>1
  <2>6. layer(k) = {}
      OBVIOUS
  <2> HIDE DEF k, n, T
  <2>7. Placed(g, k) = Placed(g, k - 1)
      BY <2>4, <2>6, PlacedStep
  <2>8. /\ layer(k) = {d \in g.nodes \ Placed(g, k - 1) : DependsOn(g, d) \subseteq Placed(g, k - 1)}
        /\ layer(k + 1) = {d \in g.nodes \ Placed(g, k) : DependsOn(g, d) \subseteq Placed(g, k)}
    <3>1. RoundRight(g, k) /\ RoundRight(g, k + 1)
        BY <2>4, EveryRound DEF n
    <3> QED  BY <2>4, <3>1 DEF RoundRight
  <2> QED  BY <2>5, <2>6, <2>7, <2>8
<1>2. ASSUME NEW k \in 1 .. n PROVE layer(k) \subseteq g.nodes
  <2>1. RoundRight(g, k)
      BY EveryRound
  <2> QED  BY <2>1 DEF RoundRight
<1> DEFINE f == [k \in 1 .. n |-> CHOOSE d \in g.nodes : d \in layer(k)]
<1>3. \A k \in 1 .. n : f[k] \in layer(k) /\ f[k] \in g.nodes
    BY <1>1, <1>2
<1>4. f \in [1 .. n -> g.nodes]
    BY <1>3
<1>5. IsFiniteSet(1 .. n) /\ Cardinality(1 .. n) = n
    BY <1>0, FS_Interval
<1>6. Cardinality(g.nodes) < Cardinality(1 .. n)
    BY <1>0, <1>5
<1> HIDE DEF f
<1>7. PICK i, j \in 1 .. n : i # j /\ f[i] = f[j]
    BY <1>0, <1>4, <1>5, <1>6, FS_PigeonHole
<1>8. layer(i) \cap layer(j) = {}
    BY <1>0, <1>7, RoundsDisjoint
<1> QED  BY <1>3, <1>7, <1>8

\* TopologicalSort returns a CycleError exactly if there is a cycle: not for a
\* graph without, and for every graph with one, duplicate edges or not
\* (topo.go:71-79).
THEOREM CycleErrorIsExact ==
    ASSUME NEW g, SortInput(g)
    PROVE  HasCycle(g) <=> \E S \in SUBSET g.nodes : Stuck(g, S)
<1> DEFINE n == Cardinality(g.nodes)
           topo == TopologicalSort(g)
           left == g.nodes \ Placed(g, n + 1)
<1>0. n \in Nat
    BY FS_CardinalityType DEF SortInput
<1>1. /\ Layered(g, topo)
      /\ UNION {topo[i] : i \in DOMAIN topo} = Placed(g, n + 1)
    BY SortIsLayered
<1>2. HasCycle(g) <=> Placed(g, n + 1) # g.nodes
  <2> HIDE DEF topo, n
  <2> QED  BY <1>1, CountIsUnion DEF HasCycle, topo, n
<1>3. Placed(g, n + 1) \subseteq g.nodes
    BY <1>1 DEF Layered
<1>4. ASSUME left # {} PROVE Stuck(g, left)
  <2>1. RoundRight(g, n + 1) /\ (n + 1) - 1 = n
      BY <1>0, EveryRound
  <2>2. KahnRounds(g)[n + 1].layer = {}
      BY LastRoundEmpty
  <2>3. Placed(g, n + 1) = Placed(g, n)
    <3>1. n + 1 \in Nat /\ n + 1 >= 1
        BY <1>0
    <3> HIDE DEF n
    <3>2. Placed(g, n + 1) = Placed(g, (n + 1) - 1) \cup KahnRounds(g)[n + 1].layer
        BY <3>1, PlacedStep
    <3> QED  BY <2>1, <2>2, <3>2 DEF n
  <2>4. {d \in left : DependsOn(g, d) \subseteq Placed(g, n)} = {}
      BY <2>1, <2>2, <2>3 DEF RoundRight
  <2>5. \A d \in g.nodes : DependsOn(g, d) \subseteq g.nodes
      BY DEF SortInput, WellFormed, DependsOn
  <2> QED  BY <1>4, <2>3, <2>4, <2>5 DEF Stuck
<1>5. ASSUME NEW S \in SUBSET g.nodes, Stuck(g, S), left = {}
      PROVE  FALSE
  <2> DEFINE T == {i \in DOMAIN topo : topo[i] \cap S # {}}
  <2>0. /\ DOMAIN topo = 1 .. Len(topo) /\ Len(topo) \in Nat
        /\ Placed(g, n + 1) = g.nodes
      BY <1>1, <1>3, <1>5 DEF Layered
  <2>1. T \in SUBSET Nat
      BY <2>0
  <2>2. T # {}
      BY <1>1, <1>5, <2>0 DEF Stuck
  <2>3. PICK i \in T : \A j \in T : i <= j
      BY <2>1, <2>2, LeastNat
  <2>4. PICK d \in topo[i] \cap S : TRUE
      BY <2>3
  <2>5. PICK e \in DependsOn(g, d) \cap S : TRUE
      BY <1>5, <2>4 DEF Stuck
  <2>6. PICK j \in 1 .. i - 1 : e \in topo[j]
      BY <1>1, <2>3, <2>5 DEF Layered
  <2>7. j \in DOMAIN topo /\ ~(i <= j)
      BY <2>0, <2>3
  <2> QED  BY <2>3, <2>5, <2>6, <2>7
<1> QED  BY <1>2, <1>3, <1>4, <1>5

-----------------------------------------------------------------------------
\* A function on 1 .. n is a sequence of length n.
LEMMA FunctionIsSeq ==
    ASSUME NEW n \in Nat, NEW S, NEW f \in [1 .. n -> S]
    PROVE  f \in Seq(S) /\ Len(f) = n
    OBVIOUS

\* The elements of two sequences of one length, one after the other.
LEMMA ConcatAt ==
    ASSUME NEW S, NEW s \in Seq(S), NEW t \in Seq(S), Len(s) = Len(t),
           NEW p \in 1 .. 2 * Len(s)
    PROVE  (s \o t)[p] = IF p <= Len(s) THEN s[p] ELSE t[p - Len(s)]
    OBVIOUS

\* Without a cycle every node is in a layer.
LEMMA NoCyclePlacesAll ==
    ASSUME NEW g, SortInput(g), ~HasCycle(g)
    PROVE  LET topo == TopologicalSort(g)
           IN  /\ Layered(g, topo)
               /\ UNION {topo[i] : i \in DOMAIN topo} = g.nodes
<1> DEFINE topo == TopologicalSort(g)
<1>1. Layered(g, topo)
    BY SortIsLayered
<1> HIDE DEF topo
<1>2. UNION {topo[i] : i \in DOMAIN topo} = g.nodes
    BY <1>1, CountIsUnion DEF HasCycle, topo
<1> QED  BY <1>1, <1>2 DEF topo

\* Places tells in which layer of the ordered plan each change of index is:
\* dependencies before dependents, deletes the other way round and at the end.
Places(at, index, g, ordered) ==
    LET del(id) == index[id].type = "delete"
    IN  /\ at \in [DOMAIN index -> DOMAIN ordered]
        /\ \A k \in DOMAIN ordered :
              ordered[k] = {index[id] : id \in {x \in DOMAIN index : at[x] = k}}
        /\ \A a, b \in DOMAIN index : ~del(a) /\ del(b) => at[a] < at[b]
        /\ \A a, b \in DOMAIN index : b \in DependsOn(g, a) =>
              /\ ~del(a) /\ ~del(b) => at[b] < at[a]
              /\ del(a) /\ del(b) => at[a] < at[b]

\* OrderPlan puts each change of the index in exactly one layer: what is not
\* deleted behind what it depends on, the deletes behind all of that, and a
\* delete before those it depends on (plan_order.go:13-58).
THEOREM OrderPlanPlacesAll ==
    ASSUME NEW g, SortInput(g), ~HasCycle(g),
           NEW index, DOMAIN index \subseteq g.nodes
    PROVE  LET ordered == OrderPlan(index, g)
           IN  /\ \E at : Places(at, index, g, ordered)
               /\ \E m \in Nat : DOMAIN ordered = 1 .. m
<1> DEFINE topo == TopologicalSort(g)
           n == Len(topo)
           forward == [i \in 1 .. n |-> Picked(topo[i], index, FALSE)]
           backward == [i \in 1 .. n |-> Picked(topo[n + 1 - i], index, TRUE)]
           joined == forward \o backward
           ordered == OrderPlan(index, g)
           del(id) == index[id].type = "delete"
<1>1. /\ Layered(g, topo)
      /\ UNION {topo[i] : i \in DOMAIN topo} = g.nodes
    BY NoCyclePlacesAll
<1>2. ordered = NonEmpty(joined)
    BY DEF OrderPlan
<1> HIDE DEF topo, ordered
<1>3. n \in Nat /\ DOMAIN topo = 1 .. n
    BY <1>1 DEF Layered
<1> DEFINE lay(id) == CHOOSE i \in 1 .. n : id \in topo[i]
           pos(id) == IF del(id) THEN 2 * n + 1 - lay(id) ELSE lay(id)
<1>4. ASSUME NEW id \in g.nodes
      PROVE  /\ lay(id) \in 1 .. n
             /\ \A i \in 1 .. n : id \in topo[i] <=> i = lay(id)
  <2>1. \E i \in 1 .. n : id \in topo[i]
      BY <1>1, <1>3
  <2>2. lay(id) \in 1 .. n /\ id \in topo[lay(id)]
      BY <2>1
  <2>3. \A i, j \in 1 .. n : id \in topo[i] /\ id \in topo[j] => i = j
      BY <1>1, <1>3 DEF Layered
  <2> HIDE DEF lay
  <2> QED  BY <2>2, <2>3
<1>5. ASSUME NEW a \in g.nodes, NEW b \in g.nodes, b \in DependsOn(g, a)
      PROVE  lay(b) < lay(a)
  <2>1. lay(a) \in 1 .. n /\ a \in topo[lay(a)]
      BY <1>4
  <2> DEFINE i == lay(a)
  <2> HIDE DEF i
  <2>2. i \in 1 .. n /\ a \in topo[i]
      BY <2>1 DEF i
  <2>3. PICK j \in 1 .. i - 1 : b \in topo[j]
      BY <1>1, <1>3, <1>5, <2>2 DEF Layered
  <2>4. j \in 1 .. n /\ j < i
      BY <1>3, <2>2
  <2>5. j = lay(b)
      BY <1>4, <2>3, <2>4
  <2> QED  BY <2>4, <2>5 DEF i
<1> HIDE DEF lay
<1> DEFINE all == {Picked(topo[i], index, FALSE) : i \in 1 .. n}
                     \cup {Picked(topo[i], index, TRUE) : i \in 1 .. n}
<1>6. /\ forward \in Seq(all) /\ Len(forward) = n
      /\ backward \in Seq(all) /\ Len(backward) = n
  <2>1. forward \in [1 .. n -> all]
      OBVIOUS
  <2>2. \A i \in 1 .. n : n + 1 - i \in 1 .. n
      BY <1>3
  <2>3. backward \in [1 .. n -> all]
      BY <2>2
  <2> HIDE DEF forward, backward, all
  <2> QED  BY <1>3, <2>1, <2>3, FunctionIsSeq
<1>7. DOMAIN joined = 1 .. 2 * n
    BY <1>3, <1>6
<1>8. ASSUME NEW p \in 1 .. 2 * n
      PROVE  joined[p] = {index[id] : id \in {x \in DOMAIN index : pos(x) = p}}
  <2>1. CASE p <= n
    <3>0. p \in 1 .. n
        BY <1>3, <2>1
    <3>1. joined[p] = Picked(topo[p], index, FALSE)
      <4>1. joined[p] = forward[p]
        <5> HIDE DEF forward, backward, all
        <5> QED  BY <1>6, <2>1, ConcatAt
      <4> QED  BY <3>0, <4>1
    <3>2. \A x \in DOMAIN index : x \in topo[p] /\ ~del(x) <=> pos(x) = p
        BY <1>3, <1>4, <3>0
    <3>3. {x \in topo[p] \cap DOMAIN index : del(x) = FALSE}
             = {x \in DOMAIN index : pos(x) = p}
        BY <3>2
    <3> HIDE DEF joined, pos
    <3> QED  BY <3>1, <3>3 DEF Picked
  <2>2. CASE p > n
    <3> DEFINE q == 2 * n + 1 - p
    <3>0. q \in 1 .. n /\ p - n \in 1 .. n /\ n + 1 - (p - n) = q
        BY <1>3, <2>2
    <3>1. joined[p] = Picked(topo[q], index, TRUE)
      <4>1. joined[p] = backward[p - n]
        <5> HIDE DEF forward, backward, all
        <5>1. ~(p <= n)
            BY <1>3, <2>2
        <5> QED  BY <1>6, <5>1, ConcatAt
      <4> QED  BY <3>0, <4>1
    <3>2. \A x \in DOMAIN index : x \in topo[q] /\ del(x) <=> pos(x) = p
      <4> SUFFICES ASSUME NEW x \in DOMAIN index
                   PROVE  x \in topo[q] /\ del(x) <=> pos(x) = p
          OBVIOUS
      <4>1. lay(x) \in 1 .. n /\ (x \in topo[q] <=> q = lay(x))
          BY <1>4, <3>0
      <4>2. q = lay(x) <=> 2 * n + 1 - lay(x) = p
          BY <1>3, <4>1
      <4>3. ~(lay(x) = p)
          BY <1>3, <2>2, <4>1
      <4> QED  BY <4>1, <4>2, <4>3
    <3>3. {x \in topo[q] \cap DOMAIN index : del(x) = TRUE}
             = {x \in DOMAIN index : pos(x) = p}
        BY <3>2
    <3> HIDE DEF joined, pos, q
    <3> QED  BY <3>1, <3>3 DEF Picked
  <2>3. p <= n \/ p > n
      BY <1>3
  <2> QED  BY <2>1, <2>2, <2>3
<1>9. \A x \in DOMAIN index : pos(x) \in 1 .. 2 * n
    BY <1>3, <1>4
<1> HIDE DEF joined
<1> DEFINE w == 2 * n
<1>10. w \in Nat
    BY <1>3
<1> HIDE DEF w
<1>11. PICK m \in Nat : \E on : Keeps(joined, w, m, on)
    BY <1>7, <1>10, NonEmptyKeepsOrder DEF w
<1>12. PICK on : Keeps(joined, w, m, on)
    BY <1>11
<1>13. /\ on \in [1 .. m -> {i \in 1 .. w : joined[i] # {}}]
       /\ ordered = [k \in 1 .. m |-> joined[on[k]]]
       /\ \A k, l \in 1 .. m : k < l => on[k] < on[l]
       /\ \A i \in 1 .. w : joined[i] # {} => \E k \in 1 .. m : on[k] = i
    BY <1>2, <1>12 DEF Keeps
<1> DEFINE at == [x \in DOMAIN index |-> CHOOSE k \in 1 .. m : on[k] = pos(x)]
<1>14. ASSUME NEW x \in DOMAIN index
       PROVE  at[x] \in 1 .. m /\ on[at[x]] = pos(x)
  <2>1. pos(x) \in 1 .. w /\ index[x] \in joined[pos(x)]
    <3>1. pos(x) \in 1 .. w
        BY <1>9 DEF w
    <3> HIDE DEF pos
    <3>2. joined[pos(x)] = {index[id] : id \in {y \in DOMAIN index : pos(y) = pos(x)}}
        BY <1>8, <3>1 DEF w
    <3> QED  BY <3>1, <3>2
  <2> HIDE DEF pos
  <2>2. \E k \in 1 .. m : on[k] = pos(x)
      BY <1>13, <2>1
  <2> QED  BY <2>2
<1>15. \A k \in 1 .. m : on[k] \in 1 .. w
    BY <1>13
<1>16. \A k, l \in 1 .. m : on[k] < on[l] => k < l
  <2> SUFFICES ASSUME NEW k \in 1 .. m, NEW l \in 1 .. m, on[k] < on[l], ~(k < l)
               PROVE  FALSE
      OBVIOUS
  <2>1. l < k \/ k = l
      BY <1>11
  <2> QED  BY <1>10, <1>13, <1>15, <2>1
<1>17. \A k, l \in 1 .. m : on[k] = on[l] => k = l
  <2> SUFFICES ASSUME NEW k \in 1 .. m, NEW l \in 1 .. m, on[k] = on[l], k # l
               PROVE  FALSE
      OBVIOUS
  <2>1. k < l \/ l < k
      BY <1>11
  <2> QED  BY <1>10, <1>13, <1>15, <2>1
<1>18. DOMAIN ordered = 1 .. m
    BY <1>13
<1>19. \A k \in 1 .. m : ordered[k] = {index[id] : id \in {x \in DOMAIN index : at[x] = k}}
  <2> SUFFICES ASSUME NEW k \in 1 .. m
               PROVE  ordered[k] = {index[id] : id \in {x \in DOMAIN index : at[x] = k}}
      OBVIOUS
  <2> HIDE DEF at, pos
  <2>1. ordered[k] = {index[id] : id \in {x \in DOMAIN index : pos(x) = on[k]}}
      BY <1>8, <1>13, <1>15 DEF w
  <2>2. \A x \in DOMAIN index : pos(x) = on[k] <=> at[x] = k
      BY <1>14, <1>17
  <2>3. {x \in DOMAIN index : pos(x) = on[k]} = {x \in DOMAIN index : at[x] = k}
      BY <2>2
  <2> QED  BY <2>1, <2>3
<1>20. at \in [DOMAIN index -> DOMAIN ordered]
    BY <1>14, <1>18
<1>21. \A a, b \in DOMAIN index : pos(a) < pos(b) => at[a] < at[b]
  <2> HIDE DEF at, pos
  <2> QED  BY <1>14, <1>16
<1>22. \A a, b \in DOMAIN index : ~del(a) /\ del(b) => pos(a) < pos(b)
  <2> SUFFICES ASSUME NEW a \in DOMAIN index, NEW b \in DOMAIN index, ~del(a), del(b)
               PROVE  pos(a) < pos(b)
      OBVIOUS
  <2>1. lay(a) \in 1 .. n /\ lay(b) \in 1 .. n
      BY <1>4
  <2> QED  BY <1>3, <2>1
<1>23. \A a, b \in DOMAIN index : b \in DependsOn(g, a) =>
            /\ ~del(a) /\ ~del(b) => pos(b) < pos(a)
            /\ del(a) /\ del(b) => pos(a) < pos(b)
  <2> SUFFICES ASSUME NEW a \in DOMAIN index, NEW b \in DOMAIN index, b \in DependsOn(g, a)
               PROVE  /\ ~del(a) /\ ~del(b) => pos(b) < pos(a)
                      /\ del(a) /\ del(b) => pos(a) < pos(b)
      OBVIOUS
  <2>1. lay(a) \in 1 .. n /\ lay(b) \in 1 .. n
      BY <1>4
  <2>2. lay(b) < lay(a)
      BY <1>5
  <2> QED  BY <1>3, <2>1, <2>2
<1> HIDE DEF at, pos
<1>24. Places(at, index, g, ordered)
    BY <1>18, <1>19, <1>20, <1>21, <1>22, <1>23 DEF Places
<1> QED  BY <1>11, <1>18, <1>24 DEF ordered

-----------------------------------------------------------------------------
(* The layers of a plan hold changes of its index, whatever the graph is. *)

\* Without the empty layers there is a sequence of layers.
LEMMA NonEmptyIsSeq ==
    ASSUME NEW n \in Nat, NEW V, NEW layers \in [1 .. n -> SUBSET V]
    PROVE  NonEmpty(layers) \in Seq(SUBSET V)
<1>1. DOMAIN layers = 1 .. n
    OBVIOUS
<1>2. PICK m \in Nat : \E at : Keeps(layers, n, m, at)
    BY <1>1, NonEmptyKeepsOrder
<1>3. PICK at : Keeps(layers, n, m, at)
    BY <1>2
<1>4. /\ at \in [1 .. m -> {i \in 1 .. n : layers[i] # {}}]
      /\ NonEmpty(layers) = [k \in 1 .. m |-> layers[at[k]]]
    BY <1>3 DEF Keeps
<1>5. NonEmpty(layers) \in [1 .. m -> SUBSET V]
    BY <1>4
<1> QED  BY <1>5

\* OrderPlan makes up no change.
LEMMA OrderPlanFromIndex ==
    ASSUME NEW g, IsFiniteSet(g.nodes), NEW index
    PROVE  OrderPlan(index, g) \in Seq(SUBSET {index[id] : id \in DOMAIN index})
<1> DEFINE topo == TopologicalSort(g)
           n == Len(topo)
           V == {index[id] : id \in DOMAIN index}
           forward == [i \in 1 .. n |-> Picked(topo[i], index, FALSE)]
           backward == [i \in 1 .. n |-> Picked(topo[n + 1 - i], index, TRUE)]
<1>1. n \in Nat
  <2> DEFINE c == Cardinality(g.nodes) + 1
             layers == [k \in 1 .. c |-> KahnRounds(g)[k].layer]
             W == UNION {layers[k] : k \in 1 .. c}
  <2>1. c \in Nat
      BY FS_CardinalityType
  <2>2. topo = NonEmpty(layers)
      BY DEF TopologicalSort
  <2>3. layers \in [1 .. c -> SUBSET W]
      OBVIOUS
  <2> HIDE DEF layers, c, W, topo
  <2>4. topo \in Seq(SUBSET W)
      BY <2>1, <2>2, <2>3, NonEmptyIsSeq
  <2> QED  BY <2>4
<1>2. \A S, b : Picked(S, index, b) \in SUBSET V
    BY DEF Picked
<1>3. OrderPlan(index, g) = NonEmpty(forward \o backward)
    BY DEF OrderPlan
<1> HIDE DEF n, V
<1>4. forward \in [1 .. n -> SUBSET V] /\ backward \in [1 .. n -> SUBSET V]
    BY <1>2
<1> HIDE DEF forward, backward
<1>5. /\ forward \in Seq(SUBSET V) /\ backward \in Seq(SUBSET V)
    BY <1>1, <1>4, FunctionIsSeq
<1>6. forward \o backward \in Seq(SUBSET V)
    BY <1>5
<1> DEFINE s == forward \o backward
<1>9. s \in Seq(SUBSET V)
    BY <1>6
<1> HIDE DEF s
<1>7. Len(s) \in Nat /\ s \in [1 .. Len(s) -> SUBSET V]
    BY <1>9
<1>8. NonEmpty(s) \in Seq(SUBSET V)
    BY <1>7, NonEmptyIsSeq
<1> QED  BY <1>3, <1>8 DEF s, V
-----------------------------------------------------------------------------
(* The graphs of a plan. *)

\* The graph between declared resources is what TopologicalSort expects.
LEMMA BuiltSorts ==
    ASSUME NEW S \in SUBSET Id, IsFiniteSet(S),
           NEW refs, NEW types, NEW orderings, IsFiniteSet(orderings)
    PROVE  LET g == BuildGraph(S, refs, types, orderings)
           IN  SortInput(g) /\ g.nodes = S
<1>1. BuildGraph(S, refs, types, orderings).nodes = S
    BY DEF BuildGraph
<1> QED  BY <1>1, BuildInStep DEF SortInput

\* The graph that orders a plan: the resources to delete are nodes as well.
WithNodes(g, T) == [g EXCEPT !.nodes = T]

\* Nodes without edges: the graph still sorts, and they make no cycle.
LEMMA MoreNodes ==
    ASSUME NEW g, SortInput(g), g = [nodes |-> g.nodes, fwd |-> g.fwd, rev |-> g.rev],
           NEW T \in SUBSET Id, IsFiniteSet(T), g.nodes \subseteq T
    PROVE  LET h == WithNodes(g, T)
           IN  /\ SortInput(h) /\ h.nodes = T
               /\ \A a \in Id : DependsOn(h, a) = DependsOn(g, a)
               /\ HasCycle(h) => HasCycle(g)
<1> DEFINE h == WithNodes(g, T)
<1>1. h.nodes = T /\ h.fwd = g.fwd /\ h.rev = g.rev
    BY DEF WithNodes
<1> HIDE DEF h
<1>2. SortInput(h)
    BY <1>1 DEF SortInput, WellFormed, InStep
<1>3. \A a \in Id : DependsOn(h, a) = DependsOn(g, a)
    BY <1>1 DEF DependsOn
<1>4. ASSUME HasCycle(h) PROVE HasCycle(g)
  <2>1. PICK U \in SUBSET T : Stuck(h, U)
      BY <1>1, <1>2, <1>4, CycleErrorIsExact
  <2>2. U \subseteq g.nodes
    <3> SUFFICES ASSUME NEW d \in U PROVE d \in g.nodes
        OBVIOUS
    <3>1. PICK e \in Id : g.fwd[d][e] > 0
        BY <1>1, <2>1 DEF Stuck, DependsOn
    <3> QED  BY <3>1 DEF SortInput, WellFormed
  <2>3. Stuck(g, U)
      BY <1>3, <2>1 DEF Stuck
  <2> QED  BY <2>2, <2>3, CycleErrorIsExact
<1> QED  BY <1>1, <1>2, <1>3, <1>4 DEF h

\* The layers of a plan hold its changes, each at its place (Places), and
\* there is a layer if there is a change.
LEMMA PlanIsOrdered ==
    ASSUME NEW g, SortInput(g), ~HasCycle(g), NEW changes, changes # {},
           {c.id : c \in changes} \subseteq g.nodes
    PROVE  LET ordered == OrderPlan(Indexed(changes), g)
           IN  /\ ordered \in Seq(SUBSET changes) /\ ordered # <<>>
               /\ \E at : Places(at, Indexed(changes), g, ordered)
<1> DEFINE index == Indexed(changes)
           ordered == OrderPlan(index, g)
<1>1. /\ DOMAIN index = {c.id : c \in changes}
      /\ \A id \in DOMAIN index : index[id] \in changes
    BY DEF Indexed
<1> HIDE DEF index
<1>2. PICK at : Places(at, index, g, ordered)
    BY <1>1, OrderPlanPlacesAll
<1>3. ordered \in Seq(SUBSET changes)
  <2> DEFINE V == {index[id] : id \in DOMAIN index}
  <2>1. ordered \in Seq(SUBSET V)
      BY OrderPlanFromIndex DEF SortInput
  <2>2. V \subseteq changes
      BY <1>1
  <2> HIDE DEF V, ordered
  <2> QED  BY <2>1, <2>2
<1>4. ordered # <<>>
  <2>1. at \in [DOMAIN index -> DOMAIN ordered] /\ DOMAIN index # {}
      BY <1>1, <1>2 DEF Places
  <2> HIDE DEF ordered
  <2> QED  BY <2>1
<1> QED  BY <1>2, <1>3, <1>4 DEF index, ordered
=============================================================================
