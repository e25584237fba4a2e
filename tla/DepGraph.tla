------------------------------ MODULE DepGraph ------------------------------
(***************************************************************************)
(* engine.Graph and the algorithms on it: construction from references and *)
(* type orderings, relabelling, Kahn's topological sort into layers, and   *)
(* the ordering of a plan's changes.                                       *)
(*                                                                         *)
(* The adjacency lists of the code may hold a node several times and their *)
(* order is never observed, so a list is modelled as a bag: fwd[a][b] is   *)
(* the number of times b stands in forward[a], rev[b][a] the number of     *)
(* times a stands in reverse[b].                                           *)
(***************************************************************************)
EXTENDS Integers, Sequences, FiniteSets, Dependencies

CONSTANT Id     \* resource identities (type and name)

NoEdges == [a \in Id |-> 0]

EmptyGraph == [nodes |-> {}, fwd |-> [a \in Id |-> NoEdges],
                             rev |-> [a \in Id |-> NoEdges]]

\* What DependsOn(a) and DependedOnBy(a) list.
DependsOn(g, a) == {b \in Id : g.fwd[a][b] > 0}
DependedOnBy(g, a) == {b \in Id : g.rev[a][b] > 0}

-----------------------------------------------------------------------------
(* Construction. *)

\* References to resources that are not declared: an error.
Unresolved(S, refs) == UNION {refs[a] : a \in S} \ S

\* The number of edges from a to b: one for any number of references of a to
\* b, and one more for each type ordering that puts a's type after b's.
EdgeCount(a, b, refs, typeOf, orderings) ==
    (IF b \in refs[a] THEN 1 ELSE 0)
      + Cardinality({o \in orderings : /\ o.after = typeOf[a]
                                       /\ o.before = typeOf[b]})

BuildGraph(S, refs, typeOf, orderings) ==
    LET edges == [a \in Id |-> [b \in Id |->
                    IF {a, b} \subseteq S
                    THEN EdgeCount(a, b, refs, typeOf, orderings) ELSE 0]]
    IN  [nodes |-> S, fwd |-> edges,
         rev |-> [b \in Id |-> [a \in Id |-> edges[a][b]]]]

-----------------------------------------------------------------------------
(* RelabelNode. *)

\* Every occurrence of old in a list is replaced by new.
Renamed(list, old, new) == [list EXCEPT ![new] = @ + list[old], ![old] = 0]

\* (Mutant of RelabelNode: the forward lists of old's dependents keep old.)
RelabelOneSide(g, old, new) ==
    IF old = new \/ old \notin g.nodes THEN g
    ELSE
    LET rev1 == [b \in Id |-> IF g.fwd[old][b] > 0
                              THEN Renamed(g.rev[b], old, new) ELSE g.rev[b]]
    IN  [nodes |-> (g.nodes \ {old}) \cup {new},
         fwd |-> [g.fwd EXCEPT ![new] = g.fwd[old], ![old] = NoEdges],
         rev |-> [rev1 EXCEPT ![new] = rev1[old], ![old] = NoEdges]]

\* The steps of the code in its order: the entry of old moves to new, where it
\* replaces whatever was there, first in forward, then in reverse; after each
\* move the opposite lists of the nodes just moved are updated.
RelabelNode(g, old, new) ==
    IF old = new \/ old \notin g.nodes THEN g
    ELSE
    LET fwd1 == [g.fwd EXCEPT ![new] = g.fwd[old], ![old] = NoEdges]
        rev1 == [b \in Id |-> IF g.fwd[old][b] > 0
                              THEN Renamed(g.rev[b], old, new) ELSE g.rev[b]]
        rev2 == [rev1 EXCEPT ![new] = rev1[old], ![old] = NoEdges]
        fwd2 == [a \in Id |-> IF rev1[old][a] > 0
                              THEN Renamed(fwd1[a], old, new) ELSE fwd1[a]]
    IN  [nodes |-> (g.nodes \ {old}) \cup {new}, fwd |-> fwd2, rev |-> rev2]

-----------------------------------------------------------------------------
(* TopologicalSort. *)

\* The entries that lists has for these nodes, one by one.
Entries(lists, S) == UNION {{n} \X (1 .. lists[n]) : n \in S}

InDegree(g) ==
    [n \in Id |-> IF n \in g.nodes THEN Cardinality(Entries(g.fwd[n], Id)) ELSE 0]

KahnStart(g) ==
    [deg |-> InDegree(g), layer |-> {n \in g.nodes : InDegree(g)[n] = 0}]

\* How often d stands in the reverse lists of a layer's nodes.
Decrements(g, d, layer) ==
    Cardinality(Entries([n \in layer |-> g.rev[n][d]], layer))

\* (Mutant of KahnStep: one finished dependency is enough.)
KahnStepAnyDone(g, prev) ==
    LET dec(d) == Decrements(g, d, prev.layer)
    IN  [deg |-> [d \in Id |-> IF dec(d) > 0 THEN 0 ELSE prev.deg[d]],
         layer |-> {d \in Id : prev.deg[d] > 0 /\ dec(d) > 0}]

\* A node enters the next layer when the decrements made for the current layer
\* take its in-degree down to zero.
KahnStep(g, prev) ==
    LET dec(d) == Decrements(g, d, prev.layer)
    IN  [deg |-> [d \in Id |-> prev.deg[d] - dec(d)],
         layer |-> {d \in Id : prev.deg[d] > 0 /\ dec(d) >= prev.deg[d]}]

\* Kahn's algorithm, layer by layer; there are no more layers than nodes.
KahnRounds(g) ==
    LET round[k \in 1 .. Cardinality(g.nodes) + 1] ==
            IF k = 1 THEN KahnStart(g) ELSE KahnStep(g, round[k - 1])
    IN  round

\* Layers without the empty ones: the k-th one left is at the index up to
\* which there are k of them.
NonEmpty(layers) ==
    LET kept == {i \in DOMAIN layers : layers[i] # {}}
        At(k) == CHOOSE i \in kept : Cardinality({j \in kept : j <= i}) = k
    IN  [k \in 1 .. Cardinality(kept) |-> layers[At(k)]]

TopologicalSort(g) ==
    LET rounds == KahnRounds(g)
    IN  NonEmpty([k \in 1 .. Cardinality(g.nodes) + 1 |-> rounds[k].layer])

\* Fewer nodes came out than went in: the sort returns a CycleError.
HasCycle(g) ==
    LET layers == TopologicalSort(g)
    IN  Cardinality(UNION {{k} \X layers[k] : k \in DOMAIN layers}) < Cardinality(g.nodes)

-----------------------------------------------------------------------------
(* OrderPlan. *)

\* A change is a record with an id and a type. The index of changes no two of
\* which have one id.
Indexed(changes) ==
    [id \in {c.id : c \in changes} |-> CHOOSE c \in changes : c.id = id]

\* The changes of a topological layer that are deletes, or that are not.
Picked(layer, index, deletes) ==
    {index[id] : id \in {n \in layer \cap DOMAIN index :
                            (index[n].type = "delete") = deletes}}

\* Layers of changes: what is not deleted, dependencies first, and then the
\* deletes, dependents first.
OrderPlan(index, g) ==
    LET topo == TopologicalSort(g)
        n == Len(topo)
        forward == [i \in 1 .. n |-> Picked(topo[i], index, FALSE)]
        backward == [i \in 1 .. n |-> Picked(topo[n + 1 - i], index, TRUE)]
    IN  NonEmpty(forward \o backward)
=============================================================================
