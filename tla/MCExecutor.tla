----------------------------- MODULE MCExecutor -----------------------------
(* Executor on every ordered plan over a small set of resources: all the    *)
(* acyclic dependency graphs, all change types, layered by OrderPlan.       *)
EXTENDS Executor

G == INSTANCE DepGraph WITH Id <- Resource

GraphOf(dep) ==
    [nodes |-> Resource,
     fwd |-> [a \in Resource |->
                [b \in Resource |-> IF b \in dep[a] THEN 1 ELSE 0]],
     rev |-> [b \in Resource |->
                [a \in Resource |-> IF b \in dep[a] THEN 1 ELSE 0]]]

\* Create and update are the same to Execute; deletes of a real plan are
\* nodes without edges (engine.go, step 15).
Changes(dep) ==
    {c \in [Resource -> {"noop", "update", "delete"}] :
        \A r \in Resource : c[r] = "delete" =>
            dep[r] = {} /\ \A q \in Resource : r \notin dep[q]}

Ordered(dep, change) ==
    LET changes == {[id |-> r, type |-> change[r]] : r \in Resource}
        layers == G!OrderPlan(G!Indexed(changes), GraphOf(dep))
    IN  [i \in DOMAIN layers |-> {c.id : c \in layers[i]}]

PlansOver(registered) ==
    UNION {{[dep |-> dep, change |-> change, registered |-> registered,
             layers |-> Ordered(dep, change)] : change \in Changes(dep)} :
           dep \in {d \in DependencyGraphs(Resource) : Acyclic(d)}}

\* With every provider registered, and with one resource's provider missing.
AllPlans ==
    PlansOver(Resource) \cup PlansOver(Resource \ {CHOOSE r \in Resource : TRUE})
=============================================================================
