------------------------------- MODULE Planner -------------------------------
(***************************************************************************)
(* engine.Engine.plan and the part of Apply before Execute: the pipeline   *)
(* that turns the declared blocks and the discovered live state into the   *)
(* ordered plan handed to Execute. One action per group of steps between   *)
(* which the pipeline may stop with an error.                              *)
(*                                                                         *)
(* A block's identity changes on the way: its label names it while the     *)
(* graph is built, and Normalize may then rewrite it (mysql_user "app" to  *)
(* "app@%"), after which the graph's nodes are relabelled one by one.      *)
(***************************************************************************)
EXTENDS DepGraph

CONSTANTS
    TypeOf,     \* the resource type of each identity
    Orderings,  \* the providers' type orderings, a set of [before, after]
    Checked,    \* types whose providers reject colliding identities
    Inputs,     \* what plan may be called with: [blocks, prune, allow]
    Clusters    \* what the providers may discover: sets of identities

Type == {TypeOf[id] : id \in Id}

\* A declared block: its label, the identity Normalize gives it, and the
\* labels it refers to.
Block == [label : Id, norm : Id, refs : SUBSET Id]

ASSUME InputsAssumption ==
    /\ DOMAIN TypeOf = Id
    /\ Orderings \subseteq [before : Type, after : Type] /\ IsFiniteSet(Orderings)
    /\ \A all \in Clusters : all \subseteq Id /\ IsFiniteSet(all)
    /\ \A in \in Inputs :
          /\ in.blocks \in Seq(Block)
          /\ in.prune \in BOOLEAN /\ in.allow \in BOOLEAN
          /\ \A i \in DOMAIN in.blocks :
                TypeOf[in.blocks[i].label] = TypeOf[in.blocks[i].norm]

VARIABLES
    input,      \* the declared blocks and PlanOptions
    stage,      \* the next step of the pipeline, or how it ended
    live,       \* the discovered identities of declared types
    graph,      \* the dependency graph
    changes,    \* Plan.Changes: [id, type, by], by the place in its list
    unmanaged,  \* the ids of Plan.Unmanaged
    guards,     \* the ids of Plan.Guards
    ordered     \* the layers handed to Execute

vars == <<input, stage, live, graph, changes, unmanaged, guards, ordered>>

Stage == {"convert", "discover", "graph", "normalize", "build", "prune",
          "guard", "apply", "shown", "order", "execute", "refused", "error"}

blocks == input.blocks
Labels == {blocks[i].label : i \in DOMAIN blocks}
Norms == {blocks[i].norm : i \in DOMAIN blocks}

Init ==
    /\ input \in Inputs
    /\ stage = "convert"
    /\ live = {} /\ unmanaged = {} /\ guards = {}
    /\ graph = EmptyGraph
    /\ changes = {} /\ ordered = <<>>

Stop(s) == stage' = s /\ UNCHANGED
    <<input, live, graph, changes, unmanaged, guards, ordered>>

-----------------------------------------------------------------------------
\* Two blocks of one type and label are an error.
Convert ==
    /\ stage = "convert"
    /\ Stop(IF \E i, j \in DOMAIN blocks : i # j /\ blocks[i].label = blocks[j].label
            THEN "error" ELSE "discover")

\* Live resources count only if their type is declared.
Scoped(all) == {id \in all : TypeOf[id] \in {TypeOf[l] : l \in Labels}}

\* Providers are configured and asked for their live resources.
Discover ==
    /\ stage = "discover"
    /\ \E all \in Clusters : live' = Scoped(all)
    /\ stage' = "graph"
    /\ UNCHANGED <<input, graph, changes, unmanaged, guards, ordered>>

\* Configure or Discover returns error diagnostics.
DiscoverFails == stage = "discover" /\ Stop("error")

RefsOf == [l \in Id |-> UNION {blocks[i].refs :
                                 i \in {k \in DOMAIN blocks : blocks[k].label = l}}]

UnresolvedReference ==
    /\ stage = "graph"
    /\ Unresolved(Labels, RefsOf) # {}
    /\ Stop("error")

BuildDependencyGraph ==
    /\ stage = "graph"
    /\ Unresolved(Labels, RefsOf) = {}
    /\ graph' = BuildGraph(Labels, RefsOf, TypeOf, Orderings)
    /\ stage' = "normalize"
    /\ UNCHANGED <<input, live, changes, unmanaged, guards, ordered>>

-----------------------------------------------------------------------------
\* Two blocks of a type the provider checks normalize to one identity.
Collision ==
    \E i, j \in DOMAIN blocks :
        i # j /\ blocks[i].norm = blocks[j].norm /\ TypeOf[blocks[i].norm] \in Checked

\* A resource cannot be normalized, or the cross-resource validation rejects.
NormalizeFails == stage = "normalize" /\ Stop("error")

\* (Mutant of RelabelAll: the graph keeps the labels.)
NoRelabel(g) == g

\* The nodes whose identity Normalize changed, renamed in block order.
RelabelAll(g) ==
    LET relabelled[i \in 0 .. Len(blocks)] ==
          IF i = 0 THEN g
          ELSE RelabelNode(relabelled[i - 1], blocks[i].label, blocks[i].norm)
    IN  relabelled[Len(blocks)]

Normalize ==
    /\ stage = "normalize"
    /\ ~Collision
    /\ graph' = RelabelAll(graph)
    /\ stage' = "build"
    /\ UNCHANGED <<input, live, changes, unmanaged, guards, ordered>>

-----------------------------------------------------------------------------
\* The change of the i-th block. Whether a matched pair differs is up to the
\* provider's Equal and the structural diff.
DesiredChange(i, differing) ==
    [id |-> blocks[i].norm, by |-> i,
     type |-> IF blocks[i].norm \notin live THEN "create"
              ELSE IF i \in differing THEN "update" ELSE "noop"]

\* (Mutant of Undeclared: live resources are matched by label.)
UndeclaredByLabel == live \ Labels

\* Live resources no block declares.
Undeclared == live \ Norms

\* The deletes follow the changes of the blocks.
DeleteOf(id) == [id |-> id, by |-> Len(blocks) + 1, type |-> "delete"]

BuildPlan ==
    /\ stage = "build"
    /\ \E differing \in SUBSET {i \in DOMAIN blocks : blocks[i].norm \in live} :
          changes' = {DesiredChange(i, differing) : i \in DOMAIN blocks}
                        \cup {DeleteOf(id) : id \in Undeclared}
    /\ stage' = "prune"
    /\ UNCHANGED <<input, live, graph, unmanaged, guards, ordered>>

-----------------------------------------------------------------------------
IsDelete(c) == c.type = "delete"
DeletesIn(cs) == {c.id : c \in {d \in cs : IsDelete(d)}}

\* Without prune the deletes move to Unmanaged; with it they become nodes of
\* the graph, without edges.
PrunePolicy ==
    /\ stage = "prune"
    /\ IF input.prune THEN UNCHANGED <<changes, unmanaged>>
       ELSE /\ changes' = {c \in changes : ~IsDelete(c)}
            /\ unmanaged' = DeletesIn(changes)
    /\ graph' = [graph EXCEPT !.nodes = @ \cup DeletesIn(changes')]
    /\ stage' = "guard"
    /\ UNCHANGED <<input, live, guards, ordered>>

\* (Mutant of CollectDeleteGuards: the unmanaged are asked about as well.)
GuardTheUnmanaged ==
    /\ stage = "guard"
    /\ guards' \in SUBSET (DeletesIn(changes) \cup unmanaged)
    /\ stage' = "apply"
    /\ UNCHANGED <<input, live, graph, changes, unmanaged, ordered>>

\* Every provider flags those of its deletes that would lock the caller out, any
\* or none; one whose check fails contributes no guard.
CollectDeleteGuards ==
    /\ stage = "guard"
    /\ guards' \in SUBSET DeletesIn(changes)
    /\ stage' = "apply"
    /\ UNCHANGED <<input, live, graph, changes, unmanaged, ordered>>

-----------------------------------------------------------------------------
\* Apply: guards are a hard stop unless the caller opted in.
Refuse ==
    /\ stage = "apply"
    /\ guards # {} /\ ~input.allow
    /\ Stop("refused")

\* Apply: every create and update is validated, the first error ends it.
Validate ==
    /\ stage = "apply"
    /\ guards = {} \/ input.allow
    /\ Stop("order")

\* Of DryRun, which does not look at the guards, or of Apply.
ValidateFails ==
    /\ stage = "apply"
    /\ \E c \in changes : c.type \in {"create", "update"}
    /\ Stop("error")

\* The commands plan (Plan) and apply --dry-run (DryRun, which validates) end
\* here, guards or not.
Show == stage = "apply" /\ Stop("shown")

CycleFound == stage = "order" /\ HasCycle(graph) /\ Stop("error")

\* changeIndex: of two changes with one id it keeps the last.
ChangeIndex ==
    [id \in {c.id : c \in changes} |->
        CHOOSE c \in changes : c.id = id /\ \A d \in changes : d.id = id => d.by <= c.by]

Order ==
    /\ stage = "order"
    /\ ~HasCycle(graph)
    /\ ordered' = OrderPlan(ChangeIndex, graph)
    /\ stage' = "execute"
    /\ UNCHANGED <<input, live, graph, changes, unmanaged, guards>>

Next ==
    \/ Convert
    \/ Discover \/ DiscoverFails
    \/ UnresolvedReference \/ BuildDependencyGraph
    \/ NormalizeFails \/ Normalize
    \/ BuildPlan
    \/ PrunePolicy
    \/ CollectDeleteGuards
    \/ Refuse \/ Validate \/ ValidateFails \/ Show
    \/ CycleFound \/ Order

Spec == Init /\ [][Next]_vars
-----------------------------------------------------------------------------
(* Properties. *)

TypeOK ==
    /\ input \in Inputs
    /\ stage \in Stage
    /\ live \in SUBSET Id /\ unmanaged \in SUBSET Id
    /\ guards \in SUBSET DeletesIn(changes)
    /\ graph.nodes \in SUBSET Id
    /\ DOMAIN graph.fwd = Id /\ DOMAIN graph.rev = Id
    /\ \A c \in changes : c.id \in Id /\ c.type \in {"create", "update", "delete", "noop"}

Executing == stage = "execute"

\* The layers in which a change of the plan is executed.
LayersWith(c) == {k \in DOMAIN ordered : c \in ordered[k]}

\* Everything that was planned, and shown as planned, is executed, once:
\* ordering the changes along the graph drops none of them, although the
\* changes carry normalized identities and the graph was built from labels
\* (engine.go, lines 151-166 and 188-195; plan_order.go, lines 19-55).
EveryChangeOrdered ==
    Executing => \A c \in changes : Cardinality(LayersWith(c)) = 1

\* Block i must come after block j: it refers to it, or an ordering of the
\* providers' resource types says so.
MustFollow(i, j) ==
    \/ blocks[j].label \in blocks[i].refs
    \/ \E o \in Orderings : /\ o.after = TypeOf[blocks[i].norm]
                            /\ o.before = TypeOf[blocks[j].norm]

\* What the blocks declare about order survives relabelling: a block's change
\* is in a strictly later layer than those of the blocks it must follow.
DeclaredOrderRespected ==
    Executing => \A i, j \in DOMAIN blocks : MustFollow(i, j) =>
        \A k, l \in DOMAIN ordered :
            /\ \E c \in ordered[k] : c.by = i
            /\ \E c \in ordered[l] : c.by = j
            => l < k

\* A resource is deleted only on request (--prune), and only if it is live, of
\* a declared type and declared by no block under its normalized identity. From
\* the prune policy on (engine.go, line 171, and plan.go, line 114) every live
\* resource without a block is either a delete of the plan or listed as
\* unmanaged; none is lost between the two and none is in both.
DeletesAreWarranted ==
    /\ \A k \in DOMAIN ordered : \A c \in ordered[k] : IsDelete(c) =>
          /\ input.prune
          /\ c.id \in live \ Norms
          /\ \E i \in DOMAIN blocks : TypeOf[blocks[i].label] = TypeOf[c.id]
    /\ stage \in {"guard", "apply", "shown", "order", "execute", "refused"} =>
          /\ DeletesIn(changes) = {} \/ unmanaged = {}
          /\ DeletesIn(changes) \cup unmanaged = live \ Norms

\* What Execute relies on (PlansAssumption of Executor): one layer for each
\* change, and none upstream in the same layer or a later one.
HandsOverValidPlan ==
    Executing =>
        /\ \A k, l \in DOMAIN ordered : k # l =>
              {c.id : c \in ordered[k]} \cap {c.id : c \in ordered[l]} = {}
        /\ \A k \in DOMAIN ordered : \A c \in ordered[k] :
              \A d \in DependsOn(graph, c.id) :
                  \E l \in 1 .. k - 1 : \E e \in ordered[l] : e.id = d
=============================================================================
