---------------------------- MODULE OpenSearchRuns ----------------------------
(***************************************************************************)
(* Runs of "datastorectl apply" against one OpenSearch cluster by several  *)
(* operators that apply the same files, with nothing to keep their runs    *)
(* apart. A run discovers the cluster one request at a time (policies page *)
(* by page), plans, and sends the changes of each layer in parallel. It    *)
(* may be killed, a request may be lost before or after the cluster has    *)
(* answered it, and administrators change the cluster meanwhile.           *)
(*                                                                         *)
(* Composes OpenSearchHandlers with the graph and ordering of DepGraph;    *)
(* the skipping of changes below a failure is that of Executor.            *)
(***************************************************************************)
EXTENDS OpenSearchHandlers, Dependencies

CONSTANTS
    Operator,
    Configs,    \* declared resources and options: [body, refs, prune, allow]
    Clusters,   \* the states the cluster may be in at first
    Meddling,   \* requests administrators may send
    MaxFaults   \* bound on kills, lost requests and meddling together

ValidConfig(c) ==
    /\ DOMAIN c.body \subseteq ResourceID
    /\ \A d \in DOMAIN c.body : c.body[d] \in [DOMAIN c.body[d] -> Seq(Nat)]
    /\ c.refs \in [DOMAIN c.body -> SUBSET DOMAIN c.body]
    /\ c.prune \in BOOLEAN /\ c.allow \in BOOLEAN

\* A function on what a cluster may have.
ValidCluster(cl) ==
    DOMAIN cl \subseteq ClusterID /\ cl = [id \in DOMAIN cl |-> cl[id]]

ASSUME ConfigsAssumption ==
    /\ \A c \in Configs : ValidConfig(c)
    /\ \A cl \in Clusters : ValidCluster(cl)
    /\ \A r \in Meddling : r.id \in ClusterID
    /\ Names \in Seq({Names[i] : i \in DOMAIN Names})
    /\ MaxFaults \in Nat /\ PageSize \in Nat \ {0}

VARIABLES
    cluster,    \* the resources the cluster has
    config,     \* what the files of all operators declare
    run,        \* the run of each operator, or NoRun
    alone,      \* operators during whose run, and since, nobody else wrote
    clean,      \* operators whose run, or whose last run, had no failure
    faults      \* faults so far

vars == <<cluster, config, run, alone, clean, faults>>

declared == DOMAIN config.body

Desired(id) == Normalize(id.type, config.body[id])

\* The state of a run. While it discovers: the types still to read, the offset
\* of the next page and what it has found. While it applies: the layers left,
\* the goroutines of the current one, dependencies and failures.
NoRun == [stage |-> "idle", todo |-> {}, from |-> 0, live |-> <<>>,
          layers |-> <<>>, work |-> <<>>, dep |-> <<>>, failed |-> {}]

Init ==
    /\ cluster \in Clusters
    /\ config \in Configs
    /\ run = [o \in Operator |-> NoRun]
    /\ alone = {} /\ clean = {}
    /\ faults = 0

-----------------------------------------------------------------------------
(* Discovery. *)

DeclaredTypes == {id.type : id \in declared}

\* What a discovery in one moment would find.
LiveNow == Found(cluster, {id \in DOMAIN cluster : id.type \in DeclaredTypes /\ ~Hidden(id)})

Read(o, type) ==
    /\ type \in run[o].todo \ {"ism_policy"}
    /\ run' = [run EXCEPT ![o].live = Over(Discover(cluster, type), @),
                          ![o].todo = @ \ {type}]
    /\ UNCHANGED <<cluster, config, alone, clean, faults>>

ReadPage(o) ==
    /\ "ism_policy" \in run[o].todo
    /\ run' = [run EXCEPT
          ![o].live = Over(DiscoverPage(cluster, run[o].from), @),
          ![o].from = @ + Cardinality(Page(cluster, run[o].from)),
          ![o].todo = IF LastPage(cluster, run[o].from) THEN @ \ {"ism_policy"} ELSE @]
    /\ UNCHANGED <<cluster, config, alone, clean, faults>>

-----------------------------------------------------------------------------
(* Planning. *)

\* (Mutant of KeptChanges: deletes are kept whatever the options.)
KeptAlways(changes) == changes

\* Without --prune the deletes are only listed.
KeptChanges(changes) ==
    IF config.prune THEN changes ELSE {c \in changes : c.type # "delete"}

Changes(live) ==
    KeptChanges(
        {[id |-> d, type |-> "create"] : d \in declared \ DOMAIN live}
        \cup {[id |-> d, type |-> IF Differs(d.type, config.body[d], live[d])
                                  THEN "update" ELSE "noop"] : d \in declared \cap DOMAIN live}
        \cup {[id |-> l, type |-> "delete"] : l \in DOMAIN live \ declared})

NothingToDo(live) == \A c \in Changes(live) : c.type = "noop"

Refused(live) ==
    ~config.allow /\ \E c \in Changes(live) : c.type = "delete" /\ LocksOut(c.id, live[c.id])

TypeOrderings == {[before |-> "role", after |-> "role_mapping"],
                  [before |-> "internal_user", after |-> "role_mapping"],
                  [before |-> "component_template", after |-> "composable_index_template"]}

\* What may be in the graph of a plan made now.
Known == declared \cup DOMAIN LiveNow \cup UNION {DOMAIN run[o].live : o \in Operator}

G == INSTANCE DepGraph WITH Id <- Known

Graph == G!BuildGraph(declared,
                      [id \in Known |-> IF id \in declared THEN config.refs[id] ELSE {}],
                      [id \in Known |-> id.type], TypeOrderings)

\* The layers of a plan. Deletes are nodes without edges.
Ordered(live) ==
    G!OrderPlan(G!Indexed(Changes(live)),
                [Graph EXCEPT !.nodes = @ \cup {c.id : c \in Changes(live)}])

DependencyGraph == [d \in declared |-> G!DependsOn(Graph, d)]

Cyclic == G!HasCycle(Graph)

\* Whether a run on what is live would change anything.
Applicable(live) == ~NothingToDo(live) /\ ~Refused(live) /\ ~Cyclic

Spawn(layer) == [id \in {c.id : c \in layer} |->
                    LET c == CHOOSE x \in layer : x.id = id
                    IN  [op |-> c.type, cond |-> "none",
                         pc |-> IF c.type = "noop" THEN "done" ELSE "start"]]

\* The operator runs apply when there is something to apply.
Begin(o) ==
    /\ run[o].stage = "idle"
    /\ Applicable(LiveNow)
    /\ run' = [run EXCEPT ![o] = [NoRun EXCEPT !.stage = "discover", !.todo = DeclaredTypes]]
    /\ alone' = alone \cup {o} /\ clean' = clean \cup {o}
    /\ UNCHANGED <<cluster, config, faults>>

\* Everything is read: diff, guard and order, or end with nothing to apply.
Plan(o) ==
    LET live == run[o].live
    IN  /\ run[o].stage = "discover" /\ run[o].todo = {}
        /\ IF Applicable(live)
           THEN run' = [run EXCEPT ![o] = [@ EXCEPT !.stage = "apply",
                            !.layers = Ordered(live), !.work = Spawn(Ordered(live)[1]),
                            !.dep = DependencyGraph]]
           ELSE run' = [run EXCEPT ![o] = NoRun]
        /\ UNCHANGED <<cluster, config, alone, clean, faults>>

-----------------------------------------------------------------------------
(* Applying. *)

Work(o, id) == run[o].work[id]

\* (Mutant of ShouldSkip: failures upstream are ignored.)
NeverSkip(o, id) == FALSE

ShouldSkip(o, id) == id \in declared /\ Upstream(run[o].dep, id) \cap run[o].failed # {}

\* The skip check, before anything is sent.
Start(o, id) ==
    /\ Work(o, id).pc = "start"
    /\ run' = [run EXCEPT ![o].work[id].pc =
                  IF ShouldSkip(o, id) THEN "done"
                  ELSE IF NeedsFetch(Work(o, id).op, id) THEN "fetch" ELSE "send"]
    /\ UNCHANGED <<cluster, config, alone, clean, faults>>

Failing(o, id) ==
    [run EXCEPT ![o].work[id].pc = "done", ![o].failed = @ \cup {id}]

Fail(o, id) == run' = Failing(o, id) /\ clean' = clean \ {o}

\* The GET for the sequence number of a policy, which may be gone.
Fetch(o, id) ==
    /\ Work(o, id).pc = "fetch"
    /\ \/ /\ id \in DOMAIN cluster
          /\ run' = [run EXCEPT ![o].work[id].pc = "send", ![o].work[id].cond = "met"]
          /\ UNCHANGED clean
       \/ id \notin DOMAIN cluster /\ Fail(o, id)
    /\ UNCHANGED <<cluster, config, alone, faults>>

\* (Mutant of Payload: an update sends the live body back.)
PayloadLive(o, id) ==
    IF id \in DOMAIN run[o].live THEN run[o].live[id] ELSE Desired(id)

\* The resource handed to Apply: the live one to delete it.
Payload(o, id) ==
    IF Work(o, id).op = "delete" THEN run[o].live[id] ELSE Desired(id)

RequestOf(o, id) == Request(Work(o, id).op, id, Payload(o, id), Work(o, id).cond)

\* A write to a policy changes its sequence number for all who have fetched it.
Outdated(runs, written) ==
    [o \in Operator |-> [runs[o] EXCEPT !.work =
        [id \in DOMAIN @ |-> IF id = written /\ @[id].cond = "met"
                             THEN [@[id] EXCEPT !.cond = "unmet"] ELSE @[id]]]]

\* The cluster carries out a request of one of the writers, or finds nothing to
\* delete.
Write(request, runs, writers) ==
    /\ Succeeds(cluster, request)
    /\ cluster' = Effect(cluster, request)
    /\ run' = Outdated(runs, request.id)
    /\ alone' = IF cluster' = cluster THEN alone ELSE alone \cap writers

Send(o, id) ==
    /\ Work(o, id).pc = "send"
    /\ Write(RequestOf(o, id), [run EXCEPT ![o].work[id].pc = "done"], {o})
    /\ UNCHANGED <<config, clean, faults>>

\* The answer is an error status; nothing is tried again.
Rejected(o, id) ==
    /\ Work(o, id).pc = "send"
    /\ ~Succeeds(cluster, RequestOf(o, id))
    /\ Fail(o, id)
    /\ UNCHANGED <<cluster, config, alone, faults>>

LayerDone(o) ==
    run[o].stage = "apply" /\ \A id \in DOMAIN run[o].work : Work(o, id).pc = "done"

NextLayer(o) ==
    /\ LayerDone(o) /\ Len(run[o].layers) > 1
    /\ run' = [run EXCEPT ![o].layers = Tail(@), ![o].work = Spawn(run[o].layers[2])]
    /\ UNCHANGED <<cluster, config, alone, clean, faults>>

Finish(o) ==
    /\ LayerDone(o) /\ Len(run[o].layers) = 1
    /\ run' = [run EXCEPT ![o] = NoRun]
    /\ UNCHANGED <<cluster, config, alone, clean, faults>>

-----------------------------------------------------------------------------
(* The environment. *)

Fault == faults < MaxFaults /\ faults' = faults + 1

\* A request fails on the way there, or on the way back.
Lost(o, id) ==
    /\ Work(o, id).pc \in {"fetch", "send"}
    /\ Fault
    /\ clean' = clean \ {o}
    /\ \/ run' = Failing(o, id) /\ UNCHANGED <<cluster, alone>>
       \/ Work(o, id).pc = "send" /\ Write(RequestOf(o, id), Failing(o, id), {o})
    /\ UNCHANGED config

\* The process is killed, or its discovery fails.
Kill(o) ==
    /\ run[o].stage # "idle" /\ Fault
    /\ run' = [run EXCEPT ![o] = NoRun]
    /\ clean' = clean \ {o}
    /\ UNCHANGED <<cluster, config, alone>>

Meddle ==
    /\ Fault
    /\ \E r \in Meddling : Write(r, run, {}) /\ cluster' # cluster
    /\ UNCHANGED <<config, clean>>

Apply(o, id) == Start(o, id) \/ Fetch(o, id) \/ Send(o, id) \/ Rejected(o, id)

Run(o) ==
    \/ Begin(o)
    \/ \E type \in run[o].todo : Read(o, type)
    \/ ReadPage(o)
    \/ Plan(o)
    \/ \E id \in DOMAIN run[o].work : Apply(o, id)
    \/ NextLayer(o)
    \/ Finish(o)

Environment ==
    \/ \E o \in Operator : Kill(o) \/ \E id \in DOMAIN run[o].work : Lost(o, id)
    \/ Meddle

Next == (\E o \in Operator : Run(o)) \/ Environment

\* When a step of Run(o) is possible.
CanRun(o) == run[o].stage # "idle" \/ Applicable(LiveNow)

\* Each operator keeps running apply while there is something to apply, and
\* its run keeps going; a fault never has to happen. This is WF_vars(Run(o)),
\* with its ENABLED written out as CanRun.
Fairness == \A o \in Operator : []<>~CanRun(o) \/ []<><<Run(o)>>_vars

Spec == Init /\ [][Next]_vars /\ Fairness
-----------------------------------------------------------------------------
(* Properties. *)

\* README.md, line 133: after an apply, plan "should report no changes". A run
\* without failures, during which and since which nobody else has written,
\* leaves nothing to do: what a handler puts comes back equal to what is
\* declared after Discover and Normalize, whatever the cluster adds.
CleanRunSettles ==
    \A o \in alone \cap clean : run[o].stage = "idle" => NothingToDo(LiveNow)

\* Whatever is killed, lost, rejected or changed by administrators, and however
\* the runs of the operators interleave, page by page and request by request:
\* running apply again brings the cluster to what is declared. In particular
\* two operators do not keep refusing each other's sequence numbers.
Converges == <>[]~Applicable(LiveNow)

\* A request of the run, answered or lost, has changed the cluster.
Wrote(o, id) ==
    /\ cluster' # cluster
    /\ id \in DOMAIN run[o].work /\ Work(o, id).pc = "send"
    /\ id \in DOMAIN run'[o].work /\ run'[o].work[id].pc = "done"

RunWrote == \E o \in Operator : \E id \in DOMAIN run[o].work : Wrote(o, id)

Settings(cl) == IF SettingsID \in DOMAIN cl THEN cl[SettingsID] ELSE <<>>
Setting(cl, key) == IF key \in DOMAIN Settings(cl) THEN Settings(cl)[key] ELSE Unset

\* Whether the resource is the same in both clusters.
Same(id, cl1, cl2) ==
    /\ id \in DOMAIN cl1 <=> id \in DOMAIN cl2
    /\ id \in DOMAIN cl1 => cl1[id] = cl2[id]

DeclaredSettings == {d \in declared : d.type = "cluster_settings"}

\* "a new user pointing at a shared cluster won't accidentally remove resources
\* they didn't declare" (README.md, line 112): a run leaves alone what is not
\* declared; with --prune it deletes, of that, what Discover shows. What is
\* reserved, hidden or static stays in any case.
LeavesRest ==
    [][RunWrote => \A id \in ResourceID \ declared :
        ~Same(id, cluster, cluster') => config.prune /\ ~Hidden(id) /\ id \notin DOMAIN cluster']_vars

\* A run changes a declared resource only into what is declared, never away
\* from it, setting by setting, whatever it has discovered earlier.
TowardsDeclared ==
    [][RunWrote =>
        /\ \A id \in declared \ DeclaredSettings :
              ~Same(id, cluster, cluster') =>
                  /\ id \in DOMAIN cluster'
                  /\ \A f \in DOMAIN Desired(id) \cap DOMAIN cluster'[id] :
                        cluster'[id][f] = Desired(id)[f]
        /\ \A d \in DeclaredSettings : \A k \in DOMAIN config.body[d] :
              Setting(cluster', k) \in {Setting(cluster, k), config.body[d][k]}]_vars

\* A role mapping is written when all declared roles and internal users are
\* there (TypeOrderings), unless somebody else has written meanwhile: a role
\* that could not be created holds back the mappings of the next layer.
MappingsFollowRoles ==
    [][\A o \in alone : \A id \in DOMAIN run[o].work :
        Wrote(o, id) /\ id.type = "role_mapping" /\ id \in declared =>
            \A d \in declared : d.type \in {"role", "internal_user"} => d \in DOMAIN cluster]_vars

\* Operators that prune the same resources do not make each other's runs fail:
\* what the other has deleted first is "already gone" (role.go, line 242). A
\* change that fails although nothing was lost is one of a declared resource.
DeletesNeverFail ==
    [][faults' = faults =>
        \A o \in Operator : run'[o].failed \ run[o].failed \subseteq declared]_vars

\* How a mapping gives the caller its role: by user name, by one backend role,
\* or by all of and_backend_roles.
MapsCaller(body) ==
    \/ \E n \in Listed(body, "users") : n = AnyUser \/ n = CallerUser
    \/ \E n \in Listed(body, "backend_roles") : n \in CallerRoles
    \/ /\ Listed(body, "and_backend_roles") # {}
       /\ \A n \in Listed(body, "and_backend_roles") : n \in CallerRoles

\* The cluster still shows the resource as the run has found it.
IsAsFound(o, id) == run[o].live[id] = FromReply(id.type, Shown(id.type, cluster[id]))

\* "The OpenSearch provider detects when a --prune pass would delete the role
\* mapping or internal user that owns the current credentials, and refuses"
\* (README.md, line 122): the guard, computed from what was discovered, still
\* holds when the deletes are sent, layers later and while others write,
\* unless one of them has changed the mapping itself.
DeletesSpareCaller ==
    [][\A o \in Operator : \A id \in DOMAIN run[o].work :
        Wrote(o, id) /\ Work(o, id).op = "delete" /\ ~config.allow =>
            /\ id.type = "role_mapping" /\ IsAsFound(o, id) => ~MapsCaller(cluster[id])
            /\ id.type = "internal_user" => id.name # CallerAccount]_vars
=============================================================================
