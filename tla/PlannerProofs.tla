--------------------------- MODULE PlannerProofs ---------------------------
(***************************************************************************)
(* Theorems about Planner. What concerns deletes holds for all inputs      *)
(* (Shaped and Warranted are the inductive invariant). What concerns order *)
(* holds if no block gets an identity that names another block (Apart):    *)
(* then relabelling keeps every edge, and InOrder follows the graph and    *)
(* the changes through the pipeline. Run planner_crossing shows what       *)
(* happens to other files.                                                 *)
(***************************************************************************)
EXTENDS Planner, SortProofs

-----------------------------------------------------------------------------
(* Relabelling. *)

\* The graphs between the relabelling of one block and of the next.
Relabelling(f, bs, g) ==
    /\ DOMAIN f = 0 .. Len(bs)
    /\ f[0] = g
    /\ \A i \in 1 .. Len(bs) : f[i] = RelabelNode(f[i - 1], bs[i].label, bs[i].norm)

\* The right-hand side of RelabelAll's recursive definition.
RelabelledBy(f, bs, g, n) ==
    [i \in 0 .. n |-> IF i = 0 THEN g
                      ELSE RelabelNode(f[i - 1], bs[i].label, bs[i].norm)]

\* The recursive function of RelabelAll is one.
LEMMA RelabellingsExist ==
    ASSUME NEW bs, NEW g, NEW n \in Nat
    PROVE  \E f : f = RelabelledBy(f, bs, g, n)
<1> DEFINE Body(f, m) == [i \in 0 .. m |-> IF i = 0 THEN g
                            ELSE RelabelNode(f[i - 1], bs[i].label, bs[i].norm)]
           T == {m \in Nat : ~\E f : f = Body(f, m)}
<1>1. T = {}
  <2> SUFFICES ASSUME T # {} PROVE FALSE
      OBVIOUS
  <2>1. T \in SUBSET Nat
      OBVIOUS
  <2>2. PICK m \in T : \A l \in T : m <= l
      BY <2>1, LeastNat
  <2>3. m # 0
    <3> DEFINE first == [i \in 0 .. 0 |-> g]
    <3>1. first = Body(first, 0)
        OBVIOUS
    <3> HIDE DEF first, Body
    <3> QED  BY <2>2, <3>1
  <2>4. m - 1 \in Nat /\ m - 1 \notin T
    <3> HIDE DEF T
    <3> QED  BY <2>1, <2>2, <2>3
  <2>5. PICK old : old = Body(old, m - 1)
    <3> HIDE DEF Body
    <3> QED  BY <2>4
  <2> DEFINE new == Body(old, m)
  <2>6. \A i \in 0 .. m - 1 : old[i] = new[i]
      BY <2>4, <2>5
  <2>7. \A i \in 0 .. m : i # 0 => i - 1 \in 0 .. m - 1
      BY <2>4
  <2>8. new = Body(new, m)
    <3>1. \A i \in 0 .. m : new[i] = Body(new, m)[i]
        BY <2>6, <2>7
    <3> QED  BY <3>1
  <2> HIDE DEF new, Body
  <2> QED  BY <2>2, <2>8
<1> QED  BY <1>1 DEF RelabelledBy

\* RelabelAll renames one block after the other.
LEMMA RelabelAllSteps ==
    ASSUME NEW g, Len(blocks) \in Nat
    PROVE  \E f : Relabelling(f, blocks, g) /\ RelabelAll(g) = f[Len(blocks)]
<1> DEFINE f == CHOOSE h : h = RelabelledBy(h, blocks, g, Len(blocks))
<1>0. \E h : h = RelabelledBy(h, blocks, g, Len(blocks))
    BY RelabellingsExist
<1>1. f = RelabelledBy(f, blocks, g, Len(blocks))
    BY <1>0
<1>2. RelabelAll(g) = f[Len(blocks)]
    BY DEF RelabelAll, RelabelledBy
<1> HIDE DEF f
<1>3. \A i \in 0 .. Len(blocks) :
         f[i] = IF i = 0 THEN g
                ELSE RelabelNode(f[i - 1], blocks[i].label, blocks[i].norm)
    BY <1>1 DEF RelabelledBy
<1>4. DOMAIN f = 0 .. Len(blocks)
    BY <1>1 DEF RelabelledBy
<1>5. Relabelling(f, blocks, g)
    BY <1>3, <1>4 DEF Relabelling
<1> QED  BY <1>2, <1>5

-----------------------------------------------------------------------------
\* A graph over identities.
ShapeOK(g) ==
    /\ g = [nodes |-> g.nodes, fwd |-> g.fwd, rev |-> g.rev]
    /\ g.nodes \in SUBSET Id /\ IsFiniteSet(g.nodes)
    /\ DOMAIN g.fwd = Id /\ DOMAIN g.rev = Id

\* What a relabelling keeps whatever the labels are.
LEMMA RelabelKeepsShape ==
    ASSUME NEW g, ShapeOK(g), NEW old \in Id, NEW new \in Id
    PROVE  ShapeOK(RelabelNode(g, old, new))
<1> DEFINE h == RelabelNode(g, old, new)
<1>1. CASE old = new \/ old \notin g.nodes
    BY <1>1 DEF RelabelNode
<1>2. CASE ~(old = new \/ old \notin g.nodes)
  <2>1. h.nodes = (g.nodes \ {old}) \cup {new}
      BY <1>2 DEF RelabelNode
  <2>2. DOMAIN h.fwd = Id /\ DOMAIN h.rev = Id
      BY <1>2 DEF RelabelNode, ShapeOK
  <2>6. h = [nodes |-> h.nodes, fwd |-> h.fwd, rev |-> h.rev]
      BY <1>2 DEF RelabelNode
  <2> HIDE DEF h
  <2>3. IsFiniteSet(g.nodes) /\ g.nodes \subseteq Id
      BY DEF ShapeOK
  <2>4. IsFiniteSet(g.nodes \ {old})
      BY <2>3, FS_RemoveElement
  <2>5. IsFiniteSet(h.nodes)
      BY <2>1, <2>4, FS_AddElement
  <2> QED  BY <2>1, <2>2, <2>3, <2>5, <2>6 DEF ShapeOK, h
<1> QED  BY <1>1, <1>2

\* What is in a file.
LEMMA BlockFacts ==
    ASSUME NEW bs \in Seq(Block)
    PROVE  /\ Len(bs) \in Nat /\ DOMAIN bs = 1 .. Len(bs)
           /\ \A i \in DOMAIN bs : /\ i \in Nat
                                   /\ bs[i].label \in Id /\ bs[i].norm \in Id
                                   /\ bs[i].refs \in SUBSET Id
<1>1. Len(bs) \in Nat /\ DOMAIN bs = 1 .. Len(bs) /\ \A i \in DOMAIN bs : bs[i] \in Block
    OBVIOUS
<1>2. \A b \in Block : b.label \in Id /\ b.norm \in Id /\ b.refs \in SUBSET Id
    BY DEF Block
<1> QED  BY <1>1, <1>2

\* So does relabelling all of them.
LEMMA RelabelAllKeepsShape ==
    ASSUME NEW g, ShapeOK(g), blocks \in Seq(Block)
    PROVE  ShapeOK(RelabelAll(g))
<1>1. Len(blocks) \in Nat /\ \A i \in 1 .. Len(blocks) : blocks[i].label \in Id /\ blocks[i].norm \in Id
    BY BlockFacts
<1>2. PICK f : Relabelling(f, blocks, g) /\ RelabelAll(g) = f[Len(blocks)]
    BY <1>1, RelabelAllSteps
<1> DEFINE T == {i \in 0 .. Len(blocks) : ~ShapeOK(f[i])}
<1>3. T = {}
  <2> SUFFICES ASSUME T # {} PROVE FALSE
      OBVIOUS
  <2>1. T \in SUBSET Nat
      BY <1>1
  <2>2. PICK i \in T : \A j \in T : i <= j
      BY <2>1, LeastNat
  <2>3. i # 0
      BY <1>2, <2>2 DEF Relabelling
  <2>4. i \in 1 .. Len(blocks) /\ i - 1 \in 0 .. Len(blocks) /\ ~(i <= i - 1)
      BY <1>1, <2>3
  <2>5. ShapeOK(f[i - 1])
      BY <2>2, <2>4
  <2>6. f[i] = RelabelNode(f[i - 1], blocks[i].label, blocks[i].norm)
      BY <1>2, <2>4 DEF Relabelling
  <2>7. ShapeOK(f[i])
      BY <1>1, <2>4, <2>5, <2>6, RelabelKeepsShape
  <2> QED  BY <2>2, <2>7
<1>4. Len(blocks) \in 0 .. Len(blocks)
    BY <1>1
<1> QED  BY <1>2, <1>3, <1>4

-----------------------------------------------------------------------------
\* Relabelling one block after the other, when none gets an identity that is
\* another block's label or identity.
Distinct(bs) ==
    \A i, j \in DOMAIN bs : i # j => /\ bs[i].label # bs[j].label
                                     /\ bs[i].norm # bs[j].norm
                                     /\ bs[i].norm # bs[j].label

\* What block j is called once the first i blocks are relabelled.
NameAt(bs, j, i) == IF j <= i THEN bs[j].norm ELSE bs[j].label

\* The graph then: the edges of g, under the names they have by then.
RenamedSoFar(h, bs, g, i) ==
    /\ SortInput(h)
    /\ h.nodes = {NameAt(bs, j, i) : j \in DOMAIN bs}
    /\ \A j, k \in DOMAIN bs :
          h.fwd[NameAt(bs, j, i)][NameAt(bs, k, i)] = g.fwd[bs[j].label][bs[k].label]

\* One block more is relabelled: no edge is lost and none is added.
LEMMA RelabelOne ==
    ASSUME NEW bs \in Seq(Block), Distinct(bs), NEW g, NEW h,
           NEW i \in 1 .. Len(bs), RenamedSoFar(h, bs, g, i - 1)
    PROVE  RenamedSoFar(RelabelNode(h, bs[i].label, bs[i].norm), bs, g, i)
<1> DEFINE old == bs[i].label
           new == bs[i].norm
           h2 == RelabelNode(h, old, new)
<1>0. /\ Len(bs) \in Nat /\ DOMAIN bs = 1 .. Len(bs)
      /\ \A j \in DOMAIN bs : j \in Nat /\ bs[j].label \in Id /\ bs[j].norm \in Id
    BY BlockFacts
<1>1. \A j \in DOMAIN bs : /\ j # i => NameAt(bs, j, i) = NameAt(bs, j, i - 1)
                           /\ j # i => NameAt(bs, j, i) # old /\ NameAt(bs, j, i) # new
                           /\ NameAt(bs, i, i) = new /\ NameAt(bs, i, i - 1) = old
    BY <1>0 DEF NameAt, Distinct
<1>2. CASE old = new
  <2>1. h2 = h
      BY <1>2 DEF RelabelNode
  <2>2. \A j \in DOMAIN bs : NameAt(bs, j, i) = NameAt(bs, j, i - 1)
      BY <1>1, <1>2
  <2> QED  BY <2>1, <2>2 DEF RenamedSoFar
<1>3. CASE old # new
  <2>1. old \in h.nodes
      BY <1>0, <1>1 DEF RenamedSoFar
  <2>2. new \in Id \ h.nodes
    <3>1. \A j \in DOMAIN bs : NameAt(bs, j, i - 1) # new
        BY <1>1, <1>3
    <3> QED  BY <1>0, <3>1 DEF RenamedSoFar
  <2>3. /\ WellFormed(h2) /\ InStep(h2)
        /\ h2.nodes = (h.nodes \ {old}) \cup {new}
        /\ \A a, b \in h2.nodes : h2.fwd[a][b] = h.fwd[Before(a, old, new)][Before(b, old, new)]
    <3>1. WellFormed(h) /\ InStep(h)
        BY DEF RenamedSoFar, SortInput
    <3> QED  BY <2>1, <2>2, <3>1, RelabelPreservesEdges
  <2>4. IsFiniteSet(h2.nodes)
    <3>1. IsFiniteSet(h.nodes)
        BY DEF RenamedSoFar, SortInput
    <3> HIDE DEF h2
    <3>2. IsFiniteSet(h.nodes \ {old})
        BY <3>1, FS_RemoveElement
    <3> HIDE DEF old, new
    <3>3. IsFiniteSet((h.nodes \ {old}) \cup {new})
        BY <3>2, FS_AddElement
    <3> QED  BY <2>3, <3>3
  <2> HIDE DEF h2
  <2>5. h2.nodes = {NameAt(bs, j, i) : j \in DOMAIN bs}
    <3>1. h.nodes = {NameAt(bs, j, i - 1) : j \in DOMAIN bs}
        BY DEF RenamedSoFar
    <3>2. \A x \in h2.nodes : \E j \in DOMAIN bs : x = NameAt(bs, j, i)
        BY <1>0, <1>1, <2>3, <3>1
    <3>3. \A j \in DOMAIN bs : NameAt(bs, j, i) \in h2.nodes
        BY <1>0, <1>1, <2>3, <3>1
    <3> QED  BY <3>2, <3>3
  <2>6. \A j \in DOMAIN bs : Before(NameAt(bs, j, i), old, new) = NameAt(bs, j, i - 1)
      BY <1>1 DEF Before
  <2>7. \A j, k \in DOMAIN bs :
           h2.fwd[NameAt(bs, j, i)][NameAt(bs, k, i)] = g.fwd[bs[j].label][bs[k].label]
    <3> SUFFICES ASSUME NEW j \in DOMAIN bs, NEW k \in DOMAIN bs
                 PROVE  h2.fwd[NameAt(bs, j, i)][NameAt(bs, k, i)] = g.fwd[bs[j].label][bs[k].label]
        OBVIOUS
    <3>1. h2.fwd[NameAt(bs, j, i)][NameAt(bs, k, i)] = h.fwd[NameAt(bs, j, i - 1)][NameAt(bs, k, i - 1)]
        BY <2>3, <2>5, <2>6
    <3> QED  BY <3>1 DEF RenamedSoFar
  <2> QED  BY <2>3, <2>4, <2>5, <2>7 DEF RenamedSoFar, SortInput, h2
<1> QED  BY <1>2, <1>3

\* The graph after Normalize is the graph before it under the new identities
\* (engine.go:151-166).
LEMMA RelabelAllRenames ==
    ASSUME NEW g, SortInput(g), blocks \in Seq(Block), Distinct(blocks), g.nodes = Labels
    PROVE  RenamedSoFar(RelabelAll(g), blocks, g, Len(blocks))
<1>1. Len(blocks) \in Nat /\ DOMAIN blocks = 1 .. Len(blocks)
    OBVIOUS
<1>2. PICK f : Relabelling(f, blocks, g) /\ RelabelAll(g) = f[Len(blocks)]
    BY <1>1, RelabelAllSteps
<1> DEFINE T == {i \in 0 .. Len(blocks) : ~RenamedSoFar(f[i], blocks, g, i)}
<1>3. T = {}
  <2> SUFFICES ASSUME T # {} PROVE FALSE
      OBVIOUS
  <2>1. T \in SUBSET Nat
      BY <1>1
  <2>2. PICK i \in T : \A j \in T : i <= j
      BY <2>1, LeastNat
  <2>3. i # 0
    <3>1. \A j \in DOMAIN blocks : NameAt(blocks, j, 0) = blocks[j].label
        BY <1>1 DEF NameAt
    <3>2. f[0] = g
        BY <1>2 DEF Relabelling
    <3>3. {NameAt(blocks, j, 0) : j \in DOMAIN blocks} = Labels
        BY <3>1 DEF Labels
    <3>4. RenamedSoFar(f[0], blocks, g, 0)
        BY <3>1, <3>2, <3>3 DEF RenamedSoFar
    <3> QED  BY <2>2, <3>4
  <2>4. i \in 1 .. Len(blocks) /\ i - 1 \in 0 .. Len(blocks) /\ ~(i <= i - 1)
      BY <1>1, <2>3
  <2>5. RenamedSoFar(f[i - 1], blocks, g, i - 1)
      BY <2>2, <2>4
  <2>6. f[i] = RelabelNode(f[i - 1], blocks[i].label, blocks[i].norm)
      BY <1>2, <2>4 DEF Relabelling
  <2>7. RenamedSoFar(f[i], blocks, g, i)
      BY <2>4, <2>5, <2>6, RelabelOne
  <2> QED  BY <2>2, <2>7
<1>4. Len(blocks) \in 0 .. Len(blocks)
    BY <1>1
<1> QED  BY <1>2, <1>3, <1>4

-----------------------------------------------------------------------------
(* The inputs. *)

\* What is in the input.
LEMMA InputFacts ==
    ASSUME input \in Inputs
    PROVE  /\ blocks \in Seq(Block)
           /\ input.prune \in BOOLEAN /\ input.allow \in BOOLEAN
           /\ Len(blocks) \in Nat /\ DOMAIN blocks = 1 .. Len(blocks)
           /\ \A i \in DOMAIN blocks : /\ blocks[i].label \in Id /\ blocks[i].norm \in Id
                                       /\ blocks[i].refs \in SUBSET Id
                                       /\ TypeOf[blocks[i].label] = TypeOf[blocks[i].norm]
           /\ Labels \in SUBSET Id /\ IsFiniteSet(Labels)
           /\ Norms \in SUBSET Id
<1>1. /\ blocks \in Seq(Block)
      /\ input.prune \in BOOLEAN /\ input.allow \in BOOLEAN
      /\ \A i \in DOMAIN blocks : TypeOf[blocks[i].label] = TypeOf[blocks[i].norm]
    BY InputsAssumption DEF blocks
<1>2. /\ Len(blocks) \in Nat /\ DOMAIN blocks = 1 .. Len(blocks)
      /\ \A i \in DOMAIN blocks : /\ blocks[i].label \in Id /\ blocks[i].norm \in Id
                                  /\ blocks[i].refs \in SUBSET Id
    BY <1>1, BlockFacts
<1>3. Labels \in SUBSET Id /\ Norms \in SUBSET Id
    BY <1>2 DEF Labels, Norms
<1>4. IsFiniteSet(Labels)
  <2> DEFINE f == [i \in 1 .. Len(blocks) |-> blocks[i].label]
  <2>1. f \in Surjection(1 .. Len(blocks), Labels)
      BY <1>2 DEF Surjection, Labels
  <2>2. IsFiniteSet(1 .. Len(blocks))
      BY <1>2, FS_Interval
  <2> HIDE DEF f
  <2> QED  BY <2>1, <2>2, FS_Surjection
<1> QED  BY <1>1, <1>2, <1>3, <1>4

-----------------------------------------------------------------------------
(* The invariant behind the properties that hold for all inputs. *)

\* The stages before the prune policy is applied, and after.
Early == {"convert", "discover", "graph", "normalize", "build", "prune"}
Pruned == {"guard", "apply", "shown", "order", "execute", "refused"}

\* The types, and where live resources and changes come from.
Shaped == /\ TypeOK
          /\ ShapeOK(graph)
          /\ IsFiniteSet(live)
          /\ \A id \in live : \E i \in DOMAIN blocks : TypeOf[blocks[i].label] = TypeOf[id]
          /\ \A c \in changes : c.by \in 1 .. Len(blocks) + 1

\* Why there is each delete.
Warranted ==
    /\ stage # "execute" => ordered = <<>>
    /\ \A k \in DOMAIN ordered : ordered[k] \subseteq changes
    /\ stage \in Early => unmanaged = {} /\ guards = {}
    /\ stage = "prune" => DeletesIn(changes) = Undeclared
    /\ stage \in Pruned =>
          /\ DeletesIn(changes) = {} \/ unmanaged = {}
          /\ DeletesIn(changes) \cup unmanaged = Undeclared
          /\ DeletesIn(changes) # {} => input.prune

\* Before the pipeline starts there is nothing to warrant.
LEMMA SafeInit == Init => Shaped /\ Warranted
<1> SUFFICES ASSUME Init PROVE Shaped /\ Warranted
    OBVIOUS
<1>1. TypeOK
    BY DEF Init, TypeOK, Stage, EmptyGraph
<1>2. ShapeOK(graph) /\ IsFiniteSet(live)
    BY FS_EmptySet DEF Init, ShapeOK, EmptyGraph
<1>3. Warranted
    BY DEF Init, Warranted, Pruned, Early
<1> QED  BY <1>1, <1>2, <1>3 DEF Init, Shaped

\* The pipeline goes on or ends without touching anything.
LEMMA SafeStop ==
    ASSUME Shaped, Warranted, NEW s, Stop(s),
           \/ s = "error" /\ stage # "execute"
           \/ s = "discover" /\ stage = "convert"
           \/ s \in {"refused", "shown"} /\ stage = "apply"
           \/ s = "order" /\ stage = "apply"
    PROVE  (Shaped /\ Warranted)'
<1>1. /\ stage' = s /\ s \in Stage
      /\ UNCHANGED <<input, live, graph, changes, unmanaged, guards, ordered>>
    BY DEF Stop, Stage
<1>2. Shaped'
    BY <1>1 DEF Shaped, TypeOK, ShapeOK, blocks
<1>3. Undeclared' = Undeclared /\ DeletesIn(changes)' = DeletesIn(changes)
    BY <1>1 DEF Undeclared, Norms, blocks, DeletesIn
<1>4. Warranted'
    BY <1>1, <1>3 DEF Warranted, Pruned, Early
<1> QED  BY <1>2, <1>4

\* Discovered resources of types that are not declared are left out.
LEMMA SafeDiscover == Shaped /\ Warranted /\ Discover => (Shaped /\ Warranted)'
<1> SUFFICES ASSUME Shaped, Warranted, Discover PROVE (Shaped /\ Warranted)'
    OBVIOUS
<1>1. PICK all \in Clusters : live' = Scoped(all)
    BY DEF Discover
<1>2. all \subseteq Id /\ IsFiniteSet(all)
    BY <1>1, InputsAssumption
<1>3. live' \subseteq all
    BY <1>1 DEF Scoped
<1>4. IsFiniteSet(live')
    BY <1>2, <1>3, FS_Subset
<1>5. \A id \in live' : \E i \in DOMAIN blocks : TypeOf[blocks[i].label] = TypeOf[id]
    BY <1>1 DEF Scoped, Labels
<1>6. stage = "discover" /\ stage' = "graph"
      /\ UNCHANGED <<input, graph, changes, unmanaged, guards, ordered>>
    BY DEF Discover
<1>7. Shaped'
    BY <1>2, <1>3, <1>4, <1>5, <1>6 DEF Shaped, TypeOK, Stage, ShapeOK, blocks
<1>8. Warranted'
    BY <1>6 DEF Warranted, Pruned, Early
<1> QED  BY <1>7, <1>8

\* The steps that change the graph or the changes before the prune policy.
LEMMA SafeGraphStep ==
    ASSUME Shaped, Warranted, ShapeOK(graph)', stage \in {"graph", "normalize"},
           stage' \in {"normalize", "build"},
           UNCHANGED <<input, live, changes, unmanaged, guards, ordered>>
    PROVE  (Shaped /\ Warranted)'
<1>1. Shaped'
    BY DEF Shaped, TypeOK, Stage, ShapeOK, blocks
<1>2. Warranted'
    BY DEF Warranted, Pruned, Early
<1> QED  BY <1>1, <1>2

\* The graph's nodes are labels.
LEMMA SafeBuildGraph == Shaped /\ Warranted /\ BuildDependencyGraph => (Shaped /\ Warranted)'
<1> SUFFICES ASSUME Shaped, Warranted, BuildDependencyGraph PROVE (Shaped /\ Warranted)'
    OBVIOUS
<1>1. Labels \in SUBSET Id /\ IsFiniteSet(Labels)
    BY InputFacts DEF Shaped, TypeOK
<1>2. ShapeOK(BuildGraph(Labels, RefsOf, TypeOf, Orderings))
    BY <1>1 DEF ShapeOK, BuildGraph
<1>3. ShapeOK(graph)'
    BY <1>2 DEF BuildDependencyGraph, ShapeOK
<1> QED  BY <1>3, SafeGraphStep DEF BuildDependencyGraph

\* Relabelling, whatever the labels, leaves a graph over identities.
LEMMA SafeNormalize == Shaped /\ Warranted /\ Normalize => (Shaped /\ Warranted)'
<1> SUFFICES ASSUME Shaped, Warranted, Normalize PROVE (Shaped /\ Warranted)'
    OBVIOUS
<1>1. blocks \in Seq(Block)
    BY InputFacts DEF Shaped, TypeOK
<1>2. ShapeOK(RelabelAll(graph))
    BY <1>1, RelabelAllKeepsShape DEF Shaped
<1>3. ShapeOK(graph)'
    BY <1>2 DEF Normalize, ShapeOK
<1> QED  BY <1>3, SafeGraphStep DEF Normalize

\* The plan's deletes are the live resources without a block.
LEMMA SafeBuildPlan == Shaped /\ Warranted /\ BuildPlan => (Shaped /\ Warranted)'
<1> SUFFICES ASSUME Shaped, Warranted, BuildPlan PROVE (Shaped /\ Warranted)'
    OBVIOUS
<1>1. PICK differing : changes' = {DesiredChange(i, differing) : i \in DOMAIN blocks}
                                     \cup {DeleteOf(id) : id \in Undeclared}
    BY DEF BuildPlan
<1>2. /\ Len(blocks) \in Nat /\ DOMAIN blocks = 1 .. Len(blocks)
      /\ \A i \in DOMAIN blocks : blocks[i].norm \in Id
      /\ live \subseteq Id
    BY InputFacts DEF Shaped, TypeOK
<1>3. stage = "build" /\ stage' = "prune"
      /\ UNCHANGED <<input, live, graph, unmanaged, guards, ordered>>
    BY DEF BuildPlan
<1>4. \A c \in changes' :
         \/ \E i \in DOMAIN blocks : /\ c.id = blocks[i].norm /\ c.by = i
                                      /\ c.type \in {"create", "update", "noop"}
         \/ c.id \in Undeclared /\ c.by = Len(blocks) + 1 /\ c.type = "delete"
    BY <1>1 DEF DesiredChange, DeleteOf
<1>5. \A c \in changes' : /\ c.id \in Id /\ c.by \in 1 .. Len(blocks) + 1
                           /\ c.type \in {"create", "update", "delete", "noop"}
    BY <1>2, <1>4 DEF Undeclared
<1>6. DeletesIn(changes') = Undeclared
  <2>1. \A c \in changes' : IsDelete(c) => c.id \in Undeclared
      BY <1>4 DEF IsDelete
  <2>2. \A id \in Undeclared : DeleteOf(id) \in changes' /\ IsDelete(DeleteOf(id)) /\ DeleteOf(id).id = id
      BY <1>1 DEF IsDelete, DeleteOf
  <2>3. DeletesIn(changes') \subseteq Undeclared
      BY <2>1 DEF DeletesIn
  <2>4. Undeclared \subseteq DeletesIn(changes')
      BY <2>2 DEF DeletesIn
  <2> QED  BY <2>3, <2>4
<1>7. ordered = <<>> /\ unmanaged = {} /\ guards = {}
    BY <1>3 DEF Warranted, Early
<1>8. Shaped'
    BY <1>3, <1>5, <1>7 DEF Shaped, TypeOK, Stage, ShapeOK, blocks
<1>9. Undeclared' = Undeclared
    BY <1>3 DEF Undeclared, Norms, blocks
<1>10. Warranted'
    BY <1>3, <1>6, <1>7, <1>9 DEF Warranted, Pruned, Early
<1> QED  BY <1>8, <1>10

\* The prune policy moves all deletes or none.
LEMMA SafePrune == Shaped /\ Warranted /\ PrunePolicy => (Shaped /\ Warranted)'
<1> SUFFICES ASSUME Shaped, Warranted, PrunePolicy PROVE (Shaped /\ Warranted)'
    OBVIOUS
<1>1. stage = "prune" /\ stage' = "guard" /\ UNCHANGED <<input, live, guards, ordered>>
      /\ graph' = [graph EXCEPT !.nodes = @ \cup DeletesIn(changes')]
    BY DEF PrunePolicy
<1>2. DeletesIn(changes) = Undeclared /\ unmanaged = {} /\ guards = {} /\ ordered = <<>>
    BY <1>1 DEF Warranted, Early
<1>3. changes' \subseteq changes
    BY DEF PrunePolicy
<1>4. /\ DeletesIn(changes') = {} \/ unmanaged' = {}
      /\ DeletesIn(changes') \cup unmanaged' = Undeclared
      /\ DeletesIn(changes') # {} => input.prune
  <2>1. CASE input.prune
      BY <1>2, <2>1 DEF PrunePolicy
  <2>2. CASE ~input.prune
    <3>1. DeletesIn(changes') = {}
        BY <2>2 DEF PrunePolicy, DeletesIn
    <3> QED  BY <1>2, <2>2, <3>1 DEF PrunePolicy
  <2> QED  BY <2>1, <2>2
<1>5. live \in SUBSET Id /\ IsFiniteSet(live) /\ Undeclared \subseteq live
    BY DEF Shaped, TypeOK, Undeclared
<1>6. ShapeOK(graph)'
  <2>1. ShapeOK(graph)
      BY DEF Shaped
  <2>2. IsFiniteSet(DeletesIn(changes')) /\ DeletesIn(changes') \subseteq Id
    <3>1. DeletesIn(changes') \subseteq live
        BY <1>4, <1>5
    <3> QED  BY <1>5, <3>1, FS_Subset
  <2>3. graph' = [nodes |-> graph.nodes \cup DeletesIn(changes'),
                  fwd |-> graph.fwd, rev |-> graph.rev]
      BY <1>1, <2>1 DEF ShapeOK
  <2>4. IsFiniteSet(graph.nodes \cup DeletesIn(changes'))
      BY <2>1, <2>2, FS_Union DEF ShapeOK
  <2> QED  BY <2>1, <2>2, <2>3, <2>4 DEF ShapeOK
<1>7. unmanaged' \in SUBSET Id
    BY <1>4, <1>5
<1>8. Shaped'
  <2>1. \A c \in changes' : /\ c.id \in Id /\ c.by \in 1 .. Len(blocks) + 1
                             /\ c.type \in {"create", "update", "delete", "noop"}
      BY <1>3 DEF Shaped, TypeOK
  <2> QED  BY <1>1, <1>2, <1>6, <1>7, <2>1 DEF Shaped, TypeOK, Stage, ShapeOK, blocks
<1>9. Undeclared' = Undeclared
    BY <1>1 DEF Undeclared, Norms, blocks
<1>10. Warranted'
    BY <1>1, <1>2, <1>4, <1>9 DEF Warranted, Pruned, Early
<1> QED  BY <1>8, <1>10

\* Guards are about deletes of the plan.
LEMMA SafeGuards == Shaped /\ Warranted /\ CollectDeleteGuards => (Shaped /\ Warranted)'
<1> SUFFICES ASSUME Shaped, Warranted, CollectDeleteGuards PROVE (Shaped /\ Warranted)'
    OBVIOUS
<1>1. stage = "guard" /\ stage' = "apply"
      /\ guards' \in SUBSET DeletesIn(changes)
      /\ UNCHANGED <<input, live, graph, changes, unmanaged, ordered>>
    BY DEF CollectDeleteGuards
<1>2. guards' \in SUBSET DeletesIn(changes')
    BY <1>1
<1>3. Shaped'
    BY <1>1, <1>2 DEF Shaped, TypeOK, Stage, ShapeOK, blocks
<1>4. Undeclared' = Undeclared /\ DeletesIn(changes)' = DeletesIn(changes)
    BY <1>1 DEF Undeclared, Norms, blocks, DeletesIn
<1>5. Warranted'
    BY <1>1, <1>4 DEF Warranted, Pruned, Early
<1> QED  BY <1>3, <1>5

\* changeIndex holds changes of the plan.
LEMMA IndexHoldsChanges ==
    ASSUME Shaped, NEW id \in DOMAIN ChangeIndex
    PROVE  ChangeIndex[id] \in changes /\ ChangeIndex[id].id = id
<1> DEFINE same == {c \in changes : c.id = id}
           n == Len(blocks) + 1
           T == {n - c.by : c \in same}
<1>1. n \in Nat /\ \A c \in changes : c.by \in 1 .. n
    BY InputFacts DEF Shaped, TypeOK
<1>2. same # {}
    BY DEF ChangeIndex
<1> HIDE DEF n
<1>3. T \in SUBSET Nat /\ T # {}
    BY <1>1, <1>2
<1>4. PICK t \in T : \A u \in T : t <= u
    BY <1>3, LeastNat
<1>5. PICK c \in same : t = n - c.by
    BY <1>4
<1>6. ASSUME NEW d \in changes, d.id = id PROVE d.by <= c.by
  <2>1. n - d.by \in T
      BY <1>6
  <2>2. n - c.by <= n - d.by
      BY <1>4, <1>5, <2>1
  <2>3. c.by \in 1 .. n /\ d.by \in 1 .. n
      BY <1>1, <1>5
  <2> QED  BY <1>1, <2>2, <2>3
<1>7. \E b \in changes : b.id = id /\ \A d \in changes : d.id = id => d.by <= b.by
    BY <1>5, <1>6
<1> QED  BY <1>7 DEF ChangeIndex

\* What is ordered is in the plan.
LEMMA SafeOrder == Shaped /\ Warranted /\ Order => (Shaped /\ Warranted)'
<1> SUFFICES ASSUME Shaped, Warranted, Order PROVE (Shaped /\ Warranted)'
    OBVIOUS
<1>1. stage = "order" /\ stage' = "execute"
      /\ ordered' = OrderPlan(ChangeIndex, graph)
      /\ UNCHANGED <<input, live, graph, changes, unmanaged, guards>>
    BY DEF Order
<1>2. \A k \in DOMAIN ordered' : ordered'[k] \subseteq changes
  <2>1. IsFiniteSet(graph.nodes)
      BY DEF Shaped, ShapeOK
  <2> DEFINE index == ChangeIndex
             V == {index[id] : id \in DOMAIN index}
  <2>2. ordered' \in Seq(SUBSET V)
    <3> HIDE DEF index
    <3> QED  BY <1>1, <2>1, OrderPlanFromIndex DEF index
  <2>3. V \subseteq changes
      BY IndexHoldsChanges
  <2> HIDE DEF V
  <2> QED  BY <2>2, <2>3
<1>3. Shaped'
    BY <1>1 DEF Shaped, TypeOK, Stage, ShapeOK, blocks
<1>4. Undeclared' = Undeclared /\ DeletesIn(changes)' = DeletesIn(changes)
    BY <1>1 DEF Undeclared, Norms, blocks, DeletesIn
<1>5. Warranted'
    BY <1>1, <1>2, <1>4 DEF Warranted, Pruned, Early
<1> QED  BY <1>3, <1>5

\* Nothing happens.
LEMMA SafeStutter == Shaped /\ Warranted /\ UNCHANGED vars => (Shaped /\ Warranted)'
<1> SUFFICES ASSUME Shaped, Warranted, UNCHANGED vars PROVE (Shaped /\ Warranted)'
    OBVIOUS
<1>1. Shaped'
    BY DEF Shaped, TypeOK, ShapeOK, blocks, vars
<1>2. Undeclared' = Undeclared /\ DeletesIn(changes)' = DeletesIn(changes)
    BY DEF Undeclared, Norms, blocks, DeletesIn, vars
<1>3. Warranted'
    BY <1>2 DEF Warranted, Pruned, Early, vars
<1> QED  BY <1>1, <1>3

\* The invariant is inductive.
LEMMA SafeNext == Shaped /\ Warranted /\ [Next]_vars => (Shaped /\ Warranted)'
<1> SUFFICES ASSUME Shaped, Warranted, [Next]_vars PROVE (Shaped /\ Warranted)'
    OBVIOUS
<1>1. CASE Convert
  <2>1. \E s \in {"error", "discover"} : Stop(s)
      BY <1>1 DEF Convert
  <2> QED  BY <1>1, <2>1, SafeStop DEF Convert
<1>2. CASE DiscoverFails \/ UnresolvedReference \/ NormalizeFails \/ ValidateFails \/ CycleFound
    BY <1>2, SafeStop DEF DiscoverFails, UnresolvedReference, NormalizeFails, ValidateFails, CycleFound
<1>3. CASE Refuse \/ Show \/ Validate
    BY <1>3, SafeStop DEF Refuse, Show, Validate
<1>4. CASE Discover
    BY <1>4, SafeDiscover
<1>5. CASE BuildDependencyGraph
    BY <1>5, SafeBuildGraph
<1>6. CASE Normalize
    BY <1>6, SafeNormalize
<1>7. CASE BuildPlan
    BY <1>7, SafeBuildPlan
<1>8. CASE PrunePolicy
    BY <1>8, SafePrune
<1>9. CASE CollectDeleteGuards
    BY <1>9, SafeGuards
<1>10. CASE Order
    BY <1>10, SafeOrder
<1>11. CASE UNCHANGED vars
    BY <1>11, SafeStutter
<1> QED  BY <1>1, <1>2, <1>3, <1>4, <1>5, <1>6, <1>7, <1>8, <1>9, <1>10, <1>11 DEF Next

-----------------------------------------------------------------------------
\* It holds in every state.
LEMMA PlannerSafe == Spec => [](Shaped /\ Warranted)
<1>1. Shaped /\ Warranted /\ [Next]_vars => (Shaped /\ Warranted)'
    BY SafeNext
<1> QED  BY SafeInit, <1>1, PTL DEF Spec

\* The pipeline's state has its types, and every guard is for a delete of the plan,
\* in every reachable state (engine.go:37-236).
THEOREM PlannerTypeOK == Spec => []TypeOK
<1>1. Shaped /\ Warranted => TypeOK
    BY DEF Shaped
<1> QED  BY PlannerSafe, <1>1, PTL

\* Whatever the files declare and the servers hold: no delete without --prune,
\* of a declared resource, or of a type that is not declared, and no live
\* resource without a block that is neither deleted nor reported as unmanaged.
THEOREM DeletesAlwaysWarranted == Spec => []DeletesAreWarranted
<1>1. Shaped /\ Warranted => DeletesAreWarranted
  <2> SUFFICES ASSUME Shaped, Warranted PROVE DeletesAreWarranted
      OBVIOUS
  <2>1. Undeclared = live \ Norms
      BY DEF Undeclared
  <2>2. ASSUME NEW k \in DOMAIN ordered, NEW c \in ordered[k], IsDelete(c)
        PROVE  /\ input.prune
               /\ c.id \in live \ Norms
               /\ \E i \in DOMAIN blocks : TypeOf[blocks[i].label] = TypeOf[c.id]
    <3>1. stage = "execute"
        BY <2>2 DEF Warranted
    <3>2. c.id \in DeletesIn(changes)
        BY <2>2 DEF Warranted, DeletesIn
    <3>3. input.prune /\ c.id \in live \ Norms
        BY <2>1, <3>1, <3>2 DEF Warranted, Pruned
    <3> QED  BY <3>3 DEF Shaped
  <2>3. stage \in Pruned => /\ DeletesIn(changes) = {} \/ unmanaged = {}
                            /\ DeletesIn(changes) \cup unmanaged = live \ Norms
      BY <2>1 DEF Warranted
  <2> QED  BY <2>2, <2>3 DEF DeletesAreWarranted, Pruned
<1> QED  BY PlannerSafe, <1>1, PTL

-----------------------------------------------------------------------------
\* No block gets an identity that labels another, nor, if its provider does not
\* check that, the identity of another.
Apart(in) ==
    \A i, j \in DOMAIN in.blocks : i # j =>
        /\ in.blocks[i].norm # in.blocks[j].label
        /\ in.blocks[i].norm = in.blocks[j].norm => TypeOf[in.blocks[i].norm] \in Checked

\* Every edge is between blocks, under their normalized identities.
GraphRight ==
    /\ Distinct(blocks)
    /\ SortInput(graph)
    /\ \A a, b \in Id : graph.fwd[a][b] > 0 => {a, b} \subseteq Norms
    /\ \A i, j \in DOMAIN blocks :
          graph.fwd[blocks[i].norm][blocks[j].norm]
            = EdgeCount(blocks[i].label, blocks[j].label, RefsOf, TypeOf, Orderings)

\* One change for each block, and one for each resource to delete.
ChangesRight ==
    /\ \A i \in DOMAIN blocks : \E c \in changes : c.by = i
    /\ \A c \in changes :
          IF IsDelete(c) THEN c.id \notin Norms /\ c.by \notin DOMAIN blocks
          ELSE c.by \in DOMAIN blocks /\ c.id = blocks[c.by].norm
    /\ \A c, d \in changes : c.id = d.id => c = d

\* Where in the pipeline the graph and the changes have become right.
InOrder ==
    /\ stage \notin {"convert", "error"} =>
          \A i, j \in DOMAIN blocks : i # j => blocks[i].label # blocks[j].label
    /\ stage = "normalize" => graph = BuildGraph(Labels, RefsOf, TypeOf, Orderings)
    /\ stage \in {"build", "prune"} \cup Pruned => GraphRight
    /\ stage \in {"prune"} \cup Pruned => ChangesRight
    /\ stage \in {"build", "prune"} => graph.nodes = Norms
    /\ stage \in Pruned => graph.nodes = Norms \cup DeletesIn(changes)
    /\ stage = "execute" =>
          /\ \E m \in Nat : DOMAIN ordered = 1 .. m
          /\ \E at : Places(at, ChangeIndex, graph, ordered)

\* All there is to InOrder but the stage.
Same == UNCHANGED <<input, graph, changes, ordered>>

\* What does not change if these variables do not.
LEMMA SameKeeps ==
    ASSUME Same
    PROVE  /\ blocks' = blocks /\ Norms' = Norms /\ Labels' = Labels /\ RefsOf' = RefsOf
           /\ GraphRight' = GraphRight /\ ChangesRight' = ChangesRight
           /\ DeletesIn(changes)' = DeletesIn(changes) /\ ChangeIndex' = ChangeIndex
           /\ graph' = graph /\ ordered' = ordered
<1>1. blocks' = blocks /\ graph' = graph /\ changes' = changes /\ ordered' = ordered
    BY DEF Same, blocks
<1>2. Norms' = Norms /\ Labels' = Labels /\ RefsOf' = RefsOf
    BY <1>1 DEF Norms, Labels, RefsOf
<1>3. GraphRight' = GraphRight
    BY <1>1, <1>2 DEF GraphRight
<1>4. ChangesRight' = ChangesRight
    BY <1>1, <1>2 DEF ChangesRight
<1>5. DeletesIn(changes)' = DeletesIn(changes) /\ ChangeIndex' = ChangeIndex
    BY <1>1 DEF DeletesIn, ChangeIndex
<1> QED  BY <1>1, <1>2, <1>3, <1>4, <1>5

\* The steps that touch neither graph nor changes.
LEMMA OrderStop ==
    ASSUME InOrder, Same,
           \/ stage' = "error"
           \/ stage' = "discover" /\ \A i, j \in DOMAIN blocks : i # j => blocks[i].label # blocks[j].label
           \/ stage = "discover" /\ stage' = "graph"
           \/ stage \in Pruned /\ stage' \in Pruned \ {"execute"}
           \/ stage' = stage
    PROVE  InOrder'
<1>1. /\ blocks' = blocks /\ Norms' = Norms /\ Labels' = Labels /\ RefsOf' = RefsOf
      /\ GraphRight' = GraphRight /\ ChangesRight' = ChangesRight
      /\ DeletesIn(changes)' = DeletesIn(changes) /\ ChangeIndex' = ChangeIndex
      /\ graph' = graph /\ ordered' = ordered
    BY SameKeeps
<1>2. CASE stage' = "error"
    BY <1>2 DEF InOrder, Pruned
<1>3. CASE stage' = "discover" /\ \A i, j \in DOMAIN blocks : i # j => blocks[i].label # blocks[j].label
    BY <1>1, <1>3 DEF InOrder, Pruned
<1>4. CASE stage = "discover" /\ stage' = "graph"
    BY <1>1, <1>4 DEF InOrder, Pruned
<1>5. CASE stage \in Pruned /\ stage' \in Pruned \ {"execute"}
    BY <1>1, <1>5 DEF InOrder, Pruned
<1>6. CASE stage' = stage
    BY <1>1, <1>6 DEF InOrder
<1> QED  BY <1>2, <1>3, <1>4, <1>5, <1>6

\* The graph is built from the labels.
LEMMA OrderBuildGraph == Shaped /\ InOrder /\ BuildDependencyGraph => InOrder'
<1> SUFFICES ASSUME Shaped, InOrder, BuildDependencyGraph PROVE InOrder'
    OBVIOUS
<1>1. stage = "graph" /\ stage' = "normalize" /\ blocks' = blocks
      /\ graph' = BuildGraph(Labels, RefsOf, TypeOf, Orderings)
    BY DEF BuildDependencyGraph, blocks
<1>2. Labels' = Labels /\ RefsOf' = RefsOf
    BY <1>1 DEF Labels, RefsOf
<1> QED  BY <1>1, <1>2 DEF InOrder, Pruned

\* Relabelling keeps every edge of the graph that was built.
LEMMA OrderNormalize == Apart(input) /\ Shaped /\ InOrder /\ Normalize => InOrder'
<1> SUFFICES ASSUME Apart(input), Shaped, InOrder, Normalize PROVE InOrder'
    OBVIOUS
<1> DEFINE g == BuildGraph(Labels, RefsOf, TypeOf, Orderings)
           h == RelabelAll(g)
<1>1. stage = "normalize" /\ stage' = "build" /\ blocks' = blocks /\ graph' = h
    BY DEF Normalize, InOrder, blocks
<1>2. /\ blocks \in Seq(Block) /\ Len(blocks) \in Nat /\ DOMAIN blocks = 1 .. Len(blocks)
      /\ Labels \in SUBSET Id /\ IsFiniteSet(Labels)
      /\ \A i \in DOMAIN blocks : blocks[i].label \in Id
    BY InputFacts DEF Shaped, TypeOK
<1>3. Distinct(blocks)
  <2> SUFFICES ASSUME NEW i \in DOMAIN blocks, NEW j \in DOMAIN blocks, i # j
               PROVE  /\ blocks[i].label # blocks[j].label
                      /\ blocks[i].norm # blocks[j].norm
                      /\ blocks[i].norm # blocks[j].label
      BY DEF Distinct
  <2>1. blocks[i].label # blocks[j].label
      BY <1>1 DEF InOrder
  <2>2. blocks[i].norm # blocks[j].norm
      BY DEF Apart, Normalize, Collision, blocks
  <2>3. blocks[i].norm # blocks[j].label
      BY DEF Apart, blocks
  <2> QED  BY <2>1, <2>2, <2>3
<1>4. SortInput(g) /\ g.nodes = Labels
  <2>1. IsFiniteSet(Orderings)
      BY InputsAssumption
  <2>2. WellFormed(g) /\ InStep(g)
      BY <1>2, <2>1, BuildInStep
  <2>3. g.nodes = Labels
      BY DEF BuildGraph
  <2> HIDE DEF g
  <2> QED  BY <1>2, <2>2, <2>3 DEF SortInput
<1>5. \A i, j \in DOMAIN blocks :
         g.fwd[blocks[i].label][blocks[j].label]
           = EdgeCount(blocks[i].label, blocks[j].label, RefsOf, TypeOf, Orderings)
  <2>1. \A i \in DOMAIN blocks : blocks[i].label \in Labels
      BY DEF Labels
  <2> QED  BY <1>2, <2>1 DEF BuildGraph
<1> HIDE DEF g
<1>6. RenamedSoFar(h, blocks, g, Len(blocks))
    BY <1>2, <1>3, <1>4, RelabelAllRenames
<1>7. \A i \in DOMAIN blocks : NameAt(blocks, i, Len(blocks)) = blocks[i].norm
    BY <1>2 DEF NameAt
<1> HIDE DEF h
<1>8. h.nodes = Norms
    BY <1>6, <1>7 DEF RenamedSoFar, Norms
<1>9. \A i, j \in DOMAIN blocks :
         h.fwd[blocks[i].norm][blocks[j].norm]
           = EdgeCount(blocks[i].label, blocks[j].label, RefsOf, TypeOf, Orderings)
  <2> SUFFICES ASSUME NEW i \in DOMAIN blocks, NEW j \in DOMAIN blocks
               PROVE  h.fwd[blocks[i].norm][blocks[j].norm]
                        = EdgeCount(blocks[i].label, blocks[j].label, RefsOf, TypeOf, Orderings)
      OBVIOUS
  <2>1. h.fwd[blocks[i].norm][blocks[j].norm] = g.fwd[blocks[i].label][blocks[j].label]
      BY <1>6, <1>7 DEF RenamedSoFar
  <2> QED  BY <1>5, <2>1
<1>10. SortInput(h)
    BY <1>6 DEF RenamedSoFar
<1>11. \A a, b \in Id : h.fwd[a][b] > 0 => {a, b} \subseteq Norms
    BY <1>8, <1>10 DEF SortInput, WellFormed
<1>12. Norms' = Norms /\ RefsOf' = RefsOf
    BY <1>1 DEF Norms, RefsOf
<1>13. GraphRight'
    BY <1>1, <1>3, <1>9, <1>10, <1>11, <1>12 DEF GraphRight
<1> QED  BY <1>1, <1>8, <1>12, <1>13 DEF InOrder, Pruned

\* There is one change for each block and one for each delete.
LEMMA OrderBuildPlan == Shaped /\ InOrder /\ BuildPlan => InOrder'
<1> SUFFICES ASSUME Shaped, InOrder, BuildPlan PROVE InOrder'
    OBVIOUS
<1>1. /\ stage = "build" /\ stage' = "prune"
      /\ blocks' = blocks /\ graph' = graph /\ live' = live
    BY DEF BuildPlan, blocks
<1>2. PICK differing : changes' = {DesiredChange(i, differing) : i \in DOMAIN blocks}
                                     \cup {DeleteOf(id) : id \in Undeclared}
    BY DEF BuildPlan
<1>3. Len(blocks) \in Nat /\ DOMAIN blocks = 1 .. Len(blocks)
    BY InputFacts DEF Shaped, TypeOK
<1>4. Norms' = Norms /\ RefsOf' = RefsOf
    BY <1>1 DEF Norms, RefsOf
<1>5. GraphRight /\ graph.nodes = Norms
    BY <1>1 DEF InOrder
<1>6. GraphRight'
    BY <1>1, <1>4, <1>5 DEF GraphRight
<1> DEFINE D(i) == DesiredChange(i, differing)
<1>7. /\ \A i \in DOMAIN blocks : D(i).by = i /\ D(i).id = blocks[i].norm /\ ~IsDelete(D(i))
      /\ \A id \in Undeclared : /\ DeleteOf(id).by = Len(blocks) + 1 /\ DeleteOf(id).id = id
                                /\ IsDelete(DeleteOf(id)) /\ id \notin Norms
    BY DEF DesiredChange, DeleteOf, IsDelete, Undeclared
<1> HIDE DEF D
<1>8. ChangesRight'
  <2>1. \A i \in DOMAIN blocks : \E c \in changes' : c.by = i
      BY <1>2, <1>7 DEF D
  <2>2. \A c \in changes' : \/ \E i \in DOMAIN blocks : c = D(i)
                            \/ \E id \in Undeclared : c = DeleteOf(id)
      BY <1>2 DEF D
  <2>3. \A c \in changes' :
           IF IsDelete(c) THEN c.id \notin Norms /\ c.by \notin DOMAIN blocks
           ELSE c.by \in DOMAIN blocks /\ c.id = blocks[c.by].norm
    <3>1. Len(blocks) + 1 \notin DOMAIN blocks
        BY <1>3
    <3> QED  BY <1>7, <2>2, <3>1
  <2>4. ASSUME NEW c \in changes', NEW d \in changes', c.id = d.id PROVE c = d
    <3>1. \A i \in DOMAIN blocks : blocks[i].norm \in Norms
        BY DEF Norms
    <3>2. \A i, j \in DOMAIN blocks : blocks[i].norm = blocks[j].norm => i = j
        BY <1>5 DEF GraphRight, Distinct
    <3>3. CASE \E i \in DOMAIN blocks : c = D(i)
      <4>1. PICK i \in DOMAIN blocks : c = D(i)
          BY <3>3
      <4>2. PICK j \in DOMAIN blocks : d = D(j)
          BY <1>7, <2>2, <2>4, <3>1, <4>1
      <4> QED  BY <1>7, <2>4, <3>2, <4>1, <4>2
    <3>4. CASE \E id \in Undeclared : c = DeleteOf(id)
      <4>1. PICK id \in Undeclared : c = DeleteOf(id)
          BY <3>4
      <4>2. PICK id2 \in Undeclared : d = DeleteOf(id2)
          BY <1>7, <2>2, <2>4, <3>1, <4>1
      <4> QED  BY <1>7, <2>4, <4>1, <4>2
    <3> QED  BY <2>2, <3>3, <3>4
  <2> QED  BY <1>1, <1>4, <2>1, <2>3, <2>4 DEF ChangesRight
<1>9. \A i, j \in DOMAIN blocks : i # j => blocks[i].label # blocks[j].label
    BY <1>1 DEF InOrder
<1> QED  BY <1>1, <1>4, <1>5, <1>6, <1>8, <1>9 DEF InOrder, Pruned

\* The deletes become nodes without edges.
LEMMA OrderPrune == Shaped /\ Shaped' /\ InOrder /\ PrunePolicy => InOrder'
<1> SUFFICES ASSUME Shaped, Shaped', InOrder, PrunePolicy PROVE InOrder'
    OBVIOUS
<1>1. /\ stage = "prune" /\ stage' = "guard" /\ blocks' = blocks
      /\ graph' = [graph EXCEPT !.nodes = @ \cup DeletesIn(changes')]
    BY DEF PrunePolicy, blocks
<1>2. Norms' = Norms /\ RefsOf' = RefsOf
    BY <1>1 DEF Norms, RefsOf
<1>3. /\ GraphRight /\ ChangesRight /\ graph.nodes = Norms
      /\ \A i, j \in DOMAIN blocks : i # j => blocks[i].label # blocks[j].label
    BY <1>1 DEF InOrder
<1>4. changes' = changes \/ changes' = {c \in changes : ~IsDelete(c)}
    BY DEF PrunePolicy
<1>5. ChangesRight'
  <2>1. \A i \in DOMAIN blocks : \E c \in changes : c.by = i /\ ~IsDelete(c)
      BY <1>3 DEF ChangesRight
  <2>2. \A i \in DOMAIN blocks : \E c \in changes' : c.by = i
      BY <1>4, <2>1
  <2>3. changes' \subseteq changes
      BY <1>4
  <2> QED  BY <1>1, <1>2, <1>3, <2>2, <2>3 DEF ChangesRight
<1>6. /\ graph'.nodes = Norms \cup DeletesIn(changes')
      /\ graph'.fwd = graph.fwd /\ graph'.rev = graph.rev
    BY <1>1, <1>3 DEF Shaped, ShapeOK
<1>7. graph'.nodes \subseteq Id /\ IsFiniteSet(graph'.nodes)
    BY DEF Shaped, ShapeOK
<1>8. SortInput(graph')
    BY <1>3, <1>6, <1>7 DEF GraphRight, SortInput, WellFormed, InStep
<1>9. GraphRight'
    BY <1>1, <1>2, <1>3, <1>6, <1>8 DEF GraphRight
<1> QED  BY <1>1, <1>2, <1>3, <1>5, <1>6, <1>9 DEF InOrder, Pruned

\* The graph has every change as a node and no cycle: the order is right.
LEMMA OrderOrder == Shaped /\ InOrder /\ Order => InOrder'
<1> SUFFICES ASSUME Shaped, InOrder, Order PROVE InOrder'
    OBVIOUS
<1>1. stage = "order" /\ stage' = "execute" /\ ordered' = OrderPlan(ChangeIndex, graph)
      /\ input' = input /\ graph' = graph /\ changes' = changes /\ ~HasCycle(graph)
    BY DEF Order
<1>2. /\ blocks' = blocks /\ Norms' = Norms /\ RefsOf' = RefsOf
      /\ DeletesIn(changes)' = DeletesIn(changes) /\ ChangeIndex' = ChangeIndex
    BY <1>1 DEF blocks, Norms, RefsOf, DeletesIn, ChangeIndex
<1>3. /\ GraphRight /\ ChangesRight /\ graph.nodes = Norms \cup DeletesIn(changes)
      /\ \A i, j \in DOMAIN blocks : i # j => blocks[i].label # blocks[j].label
    BY <1>1 DEF InOrder, Pruned
<1>4. GraphRight' /\ ChangesRight'
    BY <1>1, <1>2, <1>3 DEF GraphRight, ChangesRight
<1>5. DOMAIN ChangeIndex \subseteq graph.nodes
  <2>1. \A c \in changes : IsDelete(c) => c.id \in DeletesIn(changes)
      BY DEF DeletesIn
  <2>2. \A c \in changes : ~IsDelete(c) => c.id \in Norms
      BY <1>3 DEF ChangesRight, Norms
  <2>3. DOMAIN ChangeIndex = {c.id : c \in changes}
      BY DEF ChangeIndex
  <2> QED  BY <1>3, <2>1, <2>2, <2>3
<1>6. /\ \E at : Places(at, ChangeIndex, graph, OrderPlan(ChangeIndex, graph))
      /\ \E m \in Nat : DOMAIN OrderPlan(ChangeIndex, graph) = 1 .. m
  <2>1. SortInput(graph)
      BY <1>3 DEF GraphRight
  <2> QED  BY <1>1, <1>5, <2>1, OrderPlanPlacesAll
<1> QED  BY <1>1, <1>2, <1>3, <1>4, <1>6 DEF InOrder, Pruned

\* The invariant is inductive.
LEMMA OrderNext ==
    Apart(input) /\ Shaped /\ Shaped' /\ InOrder /\ [Next]_vars => InOrder'
<1> SUFFICES ASSUME Apart(input), Shaped, Shaped', InOrder, [Next]_vars PROVE InOrder'
    OBVIOUS
<1>1. CASE Convert
    BY <1>1, OrderStop DEF Convert, Stop, Same
<1>2. CASE DiscoverFails \/ UnresolvedReference \/ NormalizeFails \/ ValidateFails \/ CycleFound
    BY <1>2, OrderStop DEF DiscoverFails, UnresolvedReference, NormalizeFails, ValidateFails,
                           CycleFound, Stop, Same
<1>3. CASE Refuse \/ Show \/ Validate
    BY <1>3, OrderStop DEF Refuse, Show, Validate, Stop, Same, Pruned
<1>4. CASE Discover
    BY <1>4, OrderStop DEF Discover, Same
<1>5. CASE BuildDependencyGraph
    BY <1>5, OrderBuildGraph
<1>6. CASE Normalize
    BY <1>6, OrderNormalize
<1>7. CASE BuildPlan
    BY <1>7, OrderBuildPlan
<1>8. CASE PrunePolicy
    BY <1>8, OrderPrune
<1>9. CASE CollectDeleteGuards
    BY <1>9, OrderStop DEF CollectDeleteGuards, Same, Pruned
<1>10. CASE Order
    BY <1>10, OrderOrder
<1>11. CASE UNCHANGED vars
    BY <1>11, OrderStop DEF vars, Same
<1> QED  BY <1>1, <1>2, <1>3, <1>4, <1>5, <1>6, <1>7, <1>8, <1>9, <1>10, <1>11 DEF Next

\* It holds in every state.
LEMMA PlannerInOrder == Spec => [](Shaped /\ (Apart(input) => InOrder))
<1>1. Init => (Apart(input) => InOrder)
    BY DEF Init, InOrder, Pruned
<1>2. /\ Shaped /\ Shaped' /\ (Apart(input) => InOrder) /\ [Next]_vars
      => (Apart(input) => InOrder)'
  <2> SUFFICES ASSUME Shaped, Shaped', Apart(input) => InOrder, [Next]_vars, Apart(input)'
               PROVE  InOrder'
      OBVIOUS
  <2>1. input' = input
      BY DEF Next, Convert, Discover, DiscoverFails, UnresolvedReference, BuildDependencyGraph,
             NormalizeFails, Normalize, BuildPlan, PrunePolicy, CollectDeleteGuards, Refuse,
             Validate, ValidateFails, Show, CycleFound, Order, Stop, vars
  <2>2. Apart(input)
      BY <2>1
  <2> QED  BY <2>2, OrderNext
<1>3. Shaped /\ Warranted => Shaped
    OBVIOUS
<1> QED  BY <1>1, <1>2, <1>3, PlannerSafe, PTL DEF Spec

-----------------------------------------------------------------------------
\* The layer of each change that is executed.
LayerOf(at) ==
    /\ Places(at, ChangeIndex, graph, ordered)
    /\ \A c \in changes : c.id \in DOMAIN ChangeIndex /\ ChangeIndex[c.id] = c
    /\ \A k \in DOMAIN ordered : \A c : c \in ordered[k] <=> c \in changes /\ at[c.id] = k

\* Each change is in the layer that LayerOf gives it.
LEMMA ExecutedPlaces ==
    ASSUME Shaped, InOrder, Executing
    PROVE  /\ GraphRight /\ ChangesRight
           /\ \E m \in Nat : DOMAIN ordered = 1 .. m
           /\ \E at : LayerOf(at)
<1>1. /\ GraphRight /\ ChangesRight /\ \E at : Places(at, ChangeIndex, graph, ordered)
      /\ \E m \in Nat : DOMAIN ordered = 1 .. m
    BY DEF Executing, InOrder, Pruned
<1>2. PICK at : Places(at, ChangeIndex, graph, ordered)
    BY <1>1
<1>3. \A c \in changes : c.id \in DOMAIN ChangeIndex
    BY DEF ChangeIndex
<1>4. \A id \in DOMAIN ChangeIndex : ChangeIndex[id] \in changes /\ ChangeIndex[id].id = id
    BY IndexHoldsChanges
<1>5. \A c \in changes : ChangeIndex[c.id] = c
    BY <1>1, <1>3, <1>4 DEF ChangesRight
<1>6. \A k \in DOMAIN ordered : \A c : c \in ordered[k] <=> c \in changes /\ at[c.id] = k
  <2> SUFFICES ASSUME NEW k \in DOMAIN ordered, NEW c
               PROVE  c \in ordered[k] <=> c \in changes /\ at[c.id] = k
      OBVIOUS
  <2> DEFINE index == ChangeIndex
  <2> HIDE DEF index
  <2>1. ordered[k] = {index[id] : id \in {x \in DOMAIN index : at[x] = k}}
      BY <1>2 DEF Places, index
  <2> QED  BY <1>3, <1>4, <1>5, <2>1 DEF index
<1> QED  BY <1>1, <1>2, <1>3, <1>5, <1>6 DEF LayerOf

\* Nothing that was planned gets lost between the plan and Execute, and nothing
\* is executed twice, for any files in which no block takes another's name.
THEOREM EveryChangeIsOrdered == Spec => [](Apart(input) => EveryChangeOrdered)
<1>1. Shaped /\ (Apart(input) => InOrder) => (Apart(input) => EveryChangeOrdered)
  <2> SUFFICES ASSUME Shaped, InOrder, Executing, NEW c \in changes
               PROVE  Cardinality(LayersWith(c)) = 1
      BY DEF EveryChangeOrdered
  <2>1. PICK at : LayerOf(at)
      BY ExecutedPlaces
  <2>2. at[c.id] \in DOMAIN ordered
      BY <2>1 DEF LayerOf, Places
  <2>3. LayersWith(c) = {at[c.id]}
      BY <2>1, <2>2 DEF LayersWith, LayerOf
  <2> QED  BY <2>3, FS_Singleton
<1> QED  BY PlannerInOrder, <1>1, PTL

\* A change comes after those it depends on, with no delete on either side.
LEMMA DependencyEarlier ==
    ASSUME Shaped, InOrder, Executing,
           NEW c \in changes, NEW d \in changes, d.id \in DependsOn(graph, c.id),
           NEW k \in DOMAIN ordered, c \in ordered[k]
    PROVE  \E l \in DOMAIN ordered : d \in ordered[l] /\ l < k
<1>1. PICK at : LayerOf(at)
    BY ExecutedPlaces
<1>2. GraphRight /\ ChangesRight
    BY ExecutedPlaces
<1>3. c.id \in Id /\ d.id \in Id
    BY DEF Shaped, TypeOK
<1>4. c.id \in Norms /\ d.id \in Norms
    BY <1>2, <1>3 DEF GraphRight, DependsOn
<1>5. ~IsDelete(c) /\ ~IsDelete(d)
    BY <1>2, <1>4 DEF ChangesRight
<1>6. at[d.id] < at[c.id]
    BY <1>1, <1>5 DEF LayerOf, Places, IsDelete
<1>7. at[d.id] \in DOMAIN ordered
    BY <1>1 DEF LayerOf, Places
<1> QED  BY <1>1, <1>6, <1>7 DEF LayerOf

\* What Executor assumes of a plan holds of every plan it is handed.
THEOREM PlansAreValid == Spec => [](Apart(input) => HandsOverValidPlan)
<1>1. Shaped /\ (Apart(input) => InOrder) => (Apart(input) => HandsOverValidPlan)
  <2> SUFFICES ASSUME Shaped, InOrder, Executing
               PROVE  HandsOverValidPlan
      BY DEF HandsOverValidPlan
  <2>1. PICK at : LayerOf(at)
      BY ExecutedPlaces
  <2>2. ASSUME NEW k \in DOMAIN ordered, NEW l \in DOMAIN ordered, k # l
        PROVE  {c.id : c \in ordered[k]} \cap {c.id : c \in ordered[l]} = {}
      BY <2>1, <2>2 DEF LayerOf
  <2>3. ASSUME NEW k \in DOMAIN ordered, NEW c \in ordered[k], NEW d \in DependsOn(graph, c.id)
        PROVE  \E l \in 1 .. k - 1 : \E e \in ordered[l] : e.id = d
    <3>1. c \in changes
        BY <2>1 DEF LayerOf
    <3>2. d \in Norms
      <4>1. GraphRight
          BY ExecutedPlaces
      <4>2. c.id \in Id
          BY <3>1 DEF Shaped, TypeOK
      <4> QED  BY <4>1, <4>2 DEF GraphRight, DependsOn
    <3>3. PICK e \in changes : e.id = d
      <4>1. ChangesRight
          BY ExecutedPlaces
      <4>2. PICK i \in DOMAIN blocks : d = blocks[i].norm
          BY <3>2 DEF Norms
      <4>3. PICK e \in changes : e.by = i
          BY <4>1 DEF ChangesRight
      <4> QED  BY <4>1, <4>2, <4>3 DEF ChangesRight
    <3>4. PICK l \in DOMAIN ordered : e \in ordered[l] /\ l < k
        BY <3>1, <3>3, DependencyEarlier
    <3>5. l \in 1 .. k - 1
      <4>1. PICK m \in Nat : DOMAIN ordered = 1 .. m
          BY ExecutedPlaces
      <4> QED  BY <3>4, <4>1
    <3> QED  BY <3>3, <3>4, <3>5
  <2> QED  BY <2>2, <2>3 DEF HandsOverValidPlan
<1> QED  BY PlannerInOrder, <1>1, PTL

\* The order the files declare, by references and by the types' orderings,
\* reaches Execute, whatever Normalize makes of the labels.
THEOREM DeclaredOrderIsRespected == Spec => [](Apart(input) => DeclaredOrderRespected)
<1>1. Shaped /\ (Apart(input) => InOrder) => (Apart(input) => DeclaredOrderRespected)
  <2> SUFFICES ASSUME Shaped, InOrder, Executing,
                      NEW i \in DOMAIN blocks, NEW j \in DOMAIN blocks, MustFollow(i, j),
                      NEW k \in DOMAIN ordered, NEW l \in DOMAIN ordered,
                      NEW c \in ordered[k], NEW d \in ordered[l], c.by = i, d.by = j
               PROVE  l < k
      BY DEF DeclaredOrderRespected
  <2> DEFINE a == blocks[i]
             b == blocks[j]
             both == {o \in Orderings : o.after = TypeOf[a.label] /\ o.before = TypeOf[b.label]}
  <2>1. PICK at : LayerOf(at)
      BY ExecutedPlaces
  <2>2. GraphRight /\ ChangesRight
      BY ExecutedPlaces
  <2>3. c \in changes /\ d \in changes
      BY <2>1 DEF LayerOf
  <2>4. c.id = a.norm /\ d.id = b.norm
      BY <2>2, <2>3 DEF ChangesRight
  <2>5. /\ a.label \in Id /\ a.norm \in Id /\ b.label \in Id /\ b.norm \in Id
        /\ TypeOf[a.label] = TypeOf[a.norm] /\ TypeOf[b.label] = TypeOf[b.norm]
        /\ \A q \in DOMAIN blocks : blocks[q].refs \in SUBSET Id
      BY InputFacts DEF Shaped, TypeOK
  <2>6. IsFiniteSet(both) /\ Cardinality(both) \in Nat
    <3>1. IsFiniteSet(Orderings) /\ both \subseteq Orderings
        BY InputsAssumption
    <3> QED  BY <3>1, FS_Subset, FS_CardinalityType
  <2>7. b.label \in RefsOf[a.label] \/ both # {}
    <3>1. CASE b.label \in a.refs
      <4>1. RefsOf[a.label] = UNION {blocks[q].refs : q \in {p \in DOMAIN blocks : blocks[p].label = a.label}}
          BY <2>5 DEF RefsOf
      <4> QED  BY <3>1, <4>1
    <3>2. CASE \E o \in Orderings : o.after = TypeOf[a.norm] /\ o.before = TypeOf[b.norm]
        BY <2>5, <3>2
    <3> QED  BY <3>1, <3>2 DEF MustFollow
  <2>8. EdgeCount(a.label, b.label, RefsOf, TypeOf, Orderings) > 0
    <3>1. EdgeCount(a.label, b.label, RefsOf, TypeOf, Orderings)
            = (IF b.label \in RefsOf[a.label] THEN 1 ELSE 0) + Cardinality(both)
        BY DEF EdgeCount
    <3>2. both # {} => Cardinality(both) # 0
        BY <2>6, FS_EmptySet
    <3> HIDE DEF both
    <3> QED  BY <2>6, <2>7, <3>1, <3>2
  <2>9. d.id \in DependsOn(graph, c.id)
      BY <2>2, <2>4, <2>5, <2>8 DEF GraphRight, DependsOn
  <2>10. PICK m \in DOMAIN ordered : d \in ordered[m] /\ m < k
      BY <2>3, <2>9, DependencyEarlier
  <2>11. m = l
      BY <2>1, <2>10 DEF LayerOf
  <2> QED  BY <2>10, <2>11
<1> QED  BY PlannerInOrder, <1>1, PTL
=============================================================================
