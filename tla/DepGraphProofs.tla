--------------------------- MODULE DepGraphProofs ---------------------------
(***************************************************************************)
(* Theorems about DepGraph, for any identities. A graph keeps each edge    *)
(* twice, in forward and in reverse, and nothing in the code but the order *)
(* of its statements keeps the two in step. Construction establishes that  *)
(* they are; RelabelNode preserves it, and every edge, if the new identity *)
(* names no node yet. Run planner_crossing is what happens if it does.     *)
(***************************************************************************)
EXTENDS DepGraph, FiniteSetTheorems, TLAPS

WellFormed(g) ==
    /\ g.nodes \subseteq Id
    /\ g.fwd \in [Id -> [Id -> Nat]]
    /\ g.rev \in [Id -> [Id -> Nat]]
    /\ \A a, b \in Id : g.fwd[a][b] > 0 => {a, b} \subseteq g.nodes

\* forward and reverse hold the same edges, as often.
InStep(g) == \A a, b \in Id : g.fwd[a][b] = g.rev[b][a]

\* What a node was called before old was renamed to new.
Before(a, old, new) == IF a = new THEN old ELSE a

-----------------------------------------------------------------------------
\* BuildDependencyGraphWithOrdering enters every edge, from a reference or from
\* a type ordering, in both maps, between declared resources only.
THEOREM BuildInStep ==
    ASSUME NEW S \in SUBSET Id, NEW refs, NEW typeOf, NEW orderings,
           IsFiniteSet(orderings)
    PROVE  LET g == BuildGraph(S, refs, typeOf, orderings)
           IN  WellFormed(g) /\ InStep(g)
<1> DEFINE edges == [a \in Id |-> [b \in Id |->
                        IF {a, b} \subseteq S
                        THEN EdgeCount(a, b, refs, typeOf, orderings) ELSE 0]]
           g == BuildGraph(S, refs, typeOf, orderings)
<1>1. \A a, b \in Id : EdgeCount(a, b, refs, typeOf, orderings) \in Nat
  <2> SUFFICES ASSUME NEW a \in Id, NEW b \in Id
               PROVE  EdgeCount(a, b, refs, typeOf, orderings) \in Nat
      OBVIOUS
  <2> DEFINE both == {o \in orderings : /\ o.after = typeOf[a]
                                        /\ o.before = typeOf[b]}
  <2>1. IsFiniteSet(both)
      BY FS_Subset
  <2>2. Cardinality(both) \in Nat
      BY <2>1, FS_CardinalityType
  <2> HIDE DEF both
  <2>3. (IF b \in refs[a] THEN 1 ELSE 0) + Cardinality(both) \in Nat
      BY <2>2
  <2> QED  BY <2>3 DEF EdgeCount, both
<1>2. edges \in [Id -> [Id -> Nat]]
  <2> SUFFICES ASSUME NEW a \in Id, NEW b \in Id
               PROVE  edges[a][b] \in Nat
      OBVIOUS
  <2> QED  BY <1>1
<1>3. \A a, b \in Id : edges[a][b] > 0 => {a, b} \subseteq S
    BY <1>1
<1>4. g = [nodes |-> S, fwd |-> edges, rev |-> [b \in Id |-> [a \in Id |-> edges[a][b]]]]
    BY DEF BuildGraph
<1> HIDE DEF edges, g
<1>5. /\ g.nodes = S
      /\ g.fwd = edges
      /\ g.rev = [b \in Id |-> [a \in Id |-> edges[a][b]]]
    BY <1>4
<1>6. WellFormed(g)
    BY <1>2, <1>3, <1>5 DEF WellFormed
<1>7. InStep(g)
    BY <1>2, <1>5 DEF InStep
<1> QED  BY <1>6, <1>7 DEF g

-----------------------------------------------------------------------------
\* "RelabelNode renames a node while preserving every edge that touches it"
\* (graph.go:61-62): so it does, edges of the node to itself and duplicates
\* included, and keeps the two maps in step, provided that new names no node.
THEOREM RelabelPreservesEdges ==
    ASSUME NEW g, WellFormed(g), InStep(g),
           NEW old \in g.nodes, NEW new \in Id \ g.nodes
    PROVE  LET h == RelabelNode(g, old, new)
           IN  /\ WellFormed(h) /\ InStep(h)
               /\ h.nodes = (g.nodes \ {old}) \cup {new}
               /\ \A a, b \in h.nodes :
                    h.fwd[a][b] = g.fwd[Before(a, old, new)][Before(b, old, new)]
<1> DEFINE fwd1 == [g.fwd EXCEPT ![new] = g.fwd[old], ![old] = NoEdges]
           rev1 == [b \in Id |-> IF g.fwd[old][b] > 0
                                 THEN Renamed(g.rev[b], old, new) ELSE g.rev[b]]
           rev2 == [rev1 EXCEPT ![new] = rev1[old], ![old] = NoEdges]
           fwd2 == [a \in Id |-> IF rev1[old][a] > 0
                                 THEN Renamed(fwd1[a], old, new) ELSE fwd1[a]]
           nodes == (g.nodes \ {old}) \cup {new}
           h == RelabelNode(g, old, new)
           Was(a) == Before(a, old, new)
\* How often there is an edge in the renamed graph.
<1> DEFINE Edge(a, b) == IF a = old \/ b = old THEN 0 ELSE g.fwd[Was(a)][Was(b)]
<1>1. /\ old \in Id /\ new \in Id /\ old # new
      /\ g.fwd \in [Id -> [Id -> Nat]] /\ g.rev \in [Id -> [Id -> Nat]]
      /\ \A a, b \in Id : g.fwd[a][b] = g.rev[b][a]
      /\ \A a \in Id : g.fwd[a][new] = 0 /\ g.fwd[new][a] = 0
  <2>1. old \in Id /\ new \in Id /\ old # new
      BY DEF WellFormed
  <2>2. \A a \in Id : ~(g.fwd[a][new] > 0) /\ ~(g.fwd[new][a] > 0)
      BY <2>1 DEF WellFormed
  <2>3. \A a \in Id : g.fwd[a][new] \in Nat /\ g.fwd[new][a] \in Nat
      BY <2>1 DEF WellFormed
  <2>4. \A a \in Id : g.fwd[a][new] = 0 /\ g.fwd[new][a] = 0
      BY <2>2, <2>3
  <2> QED  BY <2>1, <2>4 DEF WellFormed, InStep
<1>2. h = [nodes |-> nodes, fwd |-> fwd2, rev |-> rev2]
    BY <1>1 DEF RelabelNode
\* The lists of reverse after the first loop: old is renamed wherever it was.
<1>3. /\ rev1 \in [Id -> [Id -> Nat]]
      /\ \A a, b \in Id : rev1[b][a] = CASE a = old -> 0
                                         [] a = new -> g.fwd[old][b]
                                         [] OTHER -> g.fwd[a][b]
  <2> SUFFICES ASSUME NEW a \in Id, NEW b \in Id
               PROVE  /\ rev1[b] \in [Id -> Nat]
                      /\ rev1[b][a] = CASE a = old -> 0
                                        [] a = new -> g.fwd[old][b]
                                        [] OTHER -> g.fwd[a][b]
      OBVIOUS
  <2>1. g.rev[b] \in [Id -> Nat] /\ g.rev[b][new] = 0 /\ g.rev[b][old] = g.fwd[old][b]
        /\ g.rev[b][a] = g.fwd[a][b]
      BY <1>1
  <2>2. CASE g.fwd[old][b] > 0
      BY <1>1, <2>1, <2>2 DEF Renamed
  <2>3. CASE ~(g.fwd[old][b] > 0)
      BY <1>1, <2>1, <2>3
  <2> QED  BY <2>2, <2>3
\* The lists of forward after the move: old is still their name for old.
<1>4. /\ fwd1 \in [Id -> [Id -> Nat]]
      /\ \A a, b \in Id : fwd1[a][b] = IF a = old THEN 0 ELSE g.fwd[Was(a)][b]
    BY <1>1 DEF NoEdges, Before
<1> HIDE DEF rev1, fwd1
<1>5. /\ rev2 \in [Id -> [Id -> Nat]]
      /\ \A a, b \in Id : rev2[b][a] = Edge(a, b)
  <2>0. rev2 = [b \in Id |-> rev2[b]]
      BY <1>1, <1>3
  <2> SUFFICES ASSUME NEW a \in Id, NEW b \in Id
               PROVE  rev2[b] \in [Id -> Nat] /\ rev2[b][a] = Edge(a, b)
    <3> HIDE DEF rev2, Edge
    <3> QED  BY <2>0
  <2>1. CASE b = old
      BY <1>1, <1>3, <2>1 DEF NoEdges
  <2>2. CASE b = new
    <3>1. rev2[b] = rev1[old]
        BY <1>1, <1>3, <2>2
    <3>2. rev1[old][a] = Edge(a, b)
        BY <1>1, <1>3, <2>2 DEF Before
    <3> QED  BY <1>1, <1>3, <3>1, <3>2
  <2>3. CASE b # old /\ b # new
    <3>1. rev2[b] = rev1[b]
        BY <1>3, <2>3
    <3>2. rev1[b][a] = Edge(a, b)
        BY <1>1, <1>3, <2>3 DEF Before
    <3> QED  BY <1>3, <3>1, <3>2
  <2> QED  BY <2>1, <2>2, <2>3
<1>6. /\ fwd2 \in [Id -> [Id -> Nat]]
      /\ \A a, b \in Id : fwd2[a][b] = Edge(a, b)
  <2> SUFFICES ASSUME NEW a \in Id, NEW b \in Id
               PROVE  fwd2[a] \in [Id -> Nat] /\ fwd2[a][b] = Edge(a, b)
      OBVIOUS
  <2>1. fwd1[a] \in [Id -> Nat]
        /\ fwd1[a][old] = (IF a = old THEN 0 ELSE g.fwd[Was(a)][old])
        /\ fwd1[a][new] = 0
        /\ fwd1[a][b] = (IF a = old THEN 0 ELSE g.fwd[Was(a)][b])
      BY <1>1, <1>4 DEF Before
  <2>2. rev1[old][a] = fwd1[a][old]
      BY <1>1, <1>3, <2>1 DEF Before
  <2>3. CASE rev1[old][a] > 0
      BY <1>1, <2>1, <2>2, <2>3 DEF Renamed, Before
  <2>4. CASE ~(rev1[old][a] > 0)
      BY <1>1, <2>1, <2>2, <2>4 DEF Before
  <2> QED  BY <2>3, <2>4
<1> HIDE DEF rev2, fwd2
<1>7. /\ h.nodes = nodes /\ h.fwd = fwd2 /\ h.rev = rev2
    BY <1>2
<1>8. \A a, b \in Id : Edge(a, b) > 0 => {a, b} \subseteq nodes
    BY <1>1 DEF Before, WellFormed
<1>9. \A a, b \in nodes : Edge(a, b) = g.fwd[Was(a)][Was(b)]
    BY <1>1
<1> HIDE DEF h, Edge
<1>10. nodes \subseteq Id
    BY <1>1 DEF WellFormed
<1>11. WellFormed(h)
    BY <1>5, <1>6, <1>7, <1>8, <1>10 DEF WellFormed
<1>12. InStep(h)
    BY <1>5, <1>6, <1>7 DEF InStep
<1>13. \A a, b \in h.nodes : h.fwd[a][b] = g.fwd[Was(a)][Was(b)]
    BY <1>6, <1>7, <1>9, <1>10
<1> QED  BY <1>7, <1>11, <1>12, <1>13 DEF h

-----------------------------------------------------------------------------
\* What the nodes of a graph depend on, as the sort and the executor see it.
Dependency(g) == [a \in g.nodes |-> DependsOn(g, a)]

\* Under the same proviso a relabelling makes no cycle: what Engine.plan reports
\* as one after Normalize has been declared as one.
THEOREM RelabelKeepsAcyclic ==
    ASSUME NEW g, WellFormed(g), InStep(g), Acyclic(Dependency(g)),
           NEW old \in g.nodes, NEW new \in Id \ g.nodes
    PROVE  Acyclic(Dependency(RelabelNode(g, old, new)))
<1> DEFINE h == RelabelNode(g, old, new)
           Was(a) == Before(a, old, new)
<1>1. /\ WellFormed(h)
      /\ h.nodes = (g.nodes \ {old}) \cup {new}
      /\ \A a, b \in h.nodes : h.fwd[a][b] = g.fwd[Was(a)][Was(b)]
    BY RelabelPreservesEdges
<1> HIDE DEF h
<1>2. \A a \in h.nodes : Was(a) \in g.nodes
    BY <1>1 DEF Before
<1> SUFFICES ASSUME NEW r \in h.nodes
             PROVE  r \notin Upstream(Dependency(h), r)
    BY DEF Acyclic, Dependency, h
\* A closed set that avoids the node, under the names of before.
<1>3. PICK S \in SUBSET g.nodes : /\ ClosedAbove(Dependency(g), Was(r), S)
                                 /\ Was(r) \notin S
    BY <1>2 DEF Acyclic, Upstream, Dependency
<1> DEFINE T == {a \in h.nodes : Was(a) \in S}
<1>4. \A a \in h.nodes : Dependency(g)[Was(a)] \subseteq S => Dependency(h)[a] \subseteq T
  <2> SUFFICES ASSUME NEW a \in h.nodes, Dependency(g)[Was(a)] \subseteq S,
                      NEW b \in Id, h.fwd[a][b] > 0
               PROVE  b \in T
      BY DEF Dependency, DependsOn
  <2>1. b \in h.nodes
      BY <1>1 DEF WellFormed
  <2>2. g.fwd[Was(a)][Was(b)] > 0
      BY <1>1, <2>1
  <2>3. Was(b) \in Dependency(g)[Was(a)]
      BY <1>2, <2>1, <2>2 DEF Dependency, DependsOn, WellFormed
  <2> QED  BY <2>1, <2>3
<1>5. ClosedAbove(Dependency(h), r, T)
    BY <1>3, <1>4 DEF ClosedAbove
<1>6. r \notin T
    BY <1>3
<1> QED  BY <1>5, <1>6 DEF Upstream, Dependency
=============================================================================
