------------------------ MODULE OpenSearchRunsProofs ------------------------
(***************************************************************************)
(* Theorems about OpenSearchRuns, for every cluster, configuration, number *)
(* of operators, interleaving and fault. The invariant Inv has two parts:  *)
(* RunOK says of every run what it may be, whatever the others do: its     *)
(* changes are the ones Planned makes of what it has found and the guard   *)
(* lets pass, and a mapping comes in a later layer than the roles and      *)
(* users it maps. Tracks says of a run during which nobody else has        *)
(* written what it knows of the cluster: what it has read is there, and a  *)
(* role is there, to come or blocked by a failure. That writes of others   *)
(* keep the first part is OneWrites; that a run's own steps keep both is   *)
(* one lemma an action (InvBegin to InvMeddle).                            *)
(*                                                                         *)
(* The last part is about runs without a failure. LeadsInv, an invariant   *)
(* above Inv, says that such a run does all there is to do: it finds what  *)
(* is live page by page, has a change planned for every resource that is   *)
(* not settled, and each of its requests settles its resource (SentSettles)*)
(* because what is put comes back (ComesBack) and sorting twice is sorting *)
(* once (InOrderTwice).                                                    *)
(***************************************************************************)
EXTENDS OpenSearchRuns, FiniteSetTheorems, TLAPS

\* Identities of resources, declared or in the cluster.
AnyID == ResourceID \cup {SettingsID}

\* f is a function.
IsFunction(f) == f = [x \in DOMAIN f |-> f[x]]

-----------------------------------------------------------------------------
(* Requests and their effects. *)

\* A resource put or deleted leaves a cluster, and the others as they were.
LEMMA OneResource ==
    ASSUME NEW cl, ValidCluster(cl), NEW x, NEW v
    PROVE  /\ ValidCluster(Without(cl, {x}))
           /\ \A id : id # x => Same(id, cl, Without(cl, {x}))
           /\ x \in ClusterID => ValidCluster(With(cl, x, v))
           /\ \A id : id # x => Same(id, cl, With(cl, x, v))
<1> DEFINE w == With(cl, x, v)
           wo == Without(cl, {x})
<1>1. /\ DOMAIN w = DOMAIN cl \cup {x} /\ \A y \in DOMAIN cl \ {x} : w[y] = cl[y]
      /\ IsFunction(w)
    BY DEF With, Over, IsFunction
<1>2. /\ DOMAIN wo = DOMAIN cl \ {x} /\ \A y \in DOMAIN cl \ {x} : wo[y] = cl[y]
      /\ IsFunction(wo)
    BY DEF Without, Fun!Restrict, IsFunction
<1> HIDE DEF w, wo
<1>3. ValidCluster(wo) /\ (x \in ClusterID => ValidCluster(w))
    BY <1>1, <1>2 DEF ValidCluster, IsFunction
<1>4. \A id : id # x => Same(id, cl, w) /\ Same(id, cl, wo)
    BY <1>1, <1>2 DEF Same
<1> QED  BY <1>3, <1>4 DEF w, wo

\* What a request may change: its resource, and the settings if it is about
\* settings.
Touched(r) == IF r.id.type = "cluster_settings" THEN {r.id, SettingsID} ELSE {r.id}

\* A cluster stays one, and what a request is not about stays as it is.
LEMMA EffectTouches ==
    ASSUME NEW cl, ValidCluster(cl), NEW r, r.id \in AnyID
    PROVE  /\ ValidCluster(Effect(cl, r))
           /\ \A id : id \notin Touched(r) => Same(id, cl, Effect(cl, r))
<1> DEFINE settings == MergedSettings(cl, r.body)
<1>1. \/ Effect(cl, r) = Without(cl, {r.id})
      \/ r.id.type = "cluster_settings" /\ Effect(cl, r) = Without(cl, {SettingsID})
      \/ r.id.type = "cluster_settings" /\ Effect(cl, r) = With(cl, SettingsID, settings)
      \/ r.id.type # "cluster_settings" /\ Effect(cl, r) = With(cl, r.id, Stored(r.id.type, r.body))
  <2> HIDE DEF settings
  <2> QED  BY DEF Effect, settings
<1>2. SettingsID \in ClusterID /\ (r.id.type # "cluster_settings" => r.id \in ClusterID)
    BY DEF AnyID, ClusterID, SettingsID
<1> HIDE DEF settings
<1>3. {r.id} \subseteq Touched(r) /\ (r.id.type = "cluster_settings" => SettingsID \in Touched(r))
    BY DEF Touched
<1>4. CASE Effect(cl, r) = Without(cl, {r.id})
    BY <1>3, <1>4, OneResource
<1>5. CASE r.id.type = "cluster_settings" /\ Effect(cl, r) = Without(cl, {SettingsID})
    BY <1>3, <1>5, OneResource
<1>6. CASE r.id.type = "cluster_settings" /\ Effect(cl, r) = With(cl, SettingsID, settings)
    BY <1>2, <1>3, <1>6, OneResource
<1>7. CASE /\ r.id.type # "cluster_settings"
           /\ Effect(cl, r) = With(cl, r.id, Stored(r.id.type, r.body))
    BY <1>2, <1>3, <1>7, OneResource
<1> QED  BY <1>1, <1>4, <1>5, <1>6, <1>7

\* Deleting what is not there changes nothing.
LEMMA DeleteOfNothing ==
    ASSUME NEW cl, ValidCluster(cl), NEW id, id \notin DOMAIN cl
    PROVE  Without(cl, {id}) = cl
BY DEF Without, Fun!Restrict, ValidCluster

-----------------------------------------------------------------------------
(* The state of a run. *)

\* The operations of a change.
Operation == {"create", "update", "delete", "noop"}

\* The types a configuration declares: those a run discovers.
TypesOf(c) == {id.type : id \in DOMAIN c.body}

\* The changes a run may plan from what it has found: it creates what is
\* declared and not found, updates what is both, and deletes what is found and
\* not declared, with --prune only.
Foreseen(c, live) ==
    {ch \in [id : AnyID, type : Operation] :
        /\ ch.type = "create" => ch.id \in DOMAIN c.body \ DOMAIN live
        /\ ch.type \in {"update", "noop"} => ch.id \in DOMAIN c.body \cap DOMAIN live
        /\ ch.type = "delete" => c.prune /\ ch.id \in DOMAIN live \ DOMAIN c.body}

\* Those that the guard lets pass.
Planned(c, live) ==
    {ch \in Foreseen(c, live) :
        ch.type = "delete" /\ ~c.allow => ~LocksOut(ch.id, live[ch.id])}

\* The resources of a layer.
Ids(layer) == {ch.id : ch \in layer}

\* Roles and internal users, which mappings refer to.
Named(id) == id.type \in {"role", "internal_user"}

\* A declared mapping depends on all declared roles and users.
DependsOnRoles(c, dep) ==
    /\ DOMAIN dep = DOMAIN c.body
    /\ \A m, d \in DOMAIN c.body : m.type = "role_mapping" /\ Named(d) => d \in dep[m]

\* It is in a later layer.
RolesFirst(c, layers) ==
    \A i, j \in DOMAIN layers : \A m \in Ids(layers[i]), d \in Ids(layers[j]) :
        {m, d} \subseteq DOMAIN c.body /\ m.type = "role_mapping" /\ Named(d) => j < i

\* What a run can find.
Findable(c) == {id \in ClusterID : id.type \in TypesOf(c) /\ ~Hidden(id)}

\* What the goroutine w at the resource id is.
WorkOK(c, live, id, w) ==
    /\ w \in [op : Operation, cond : {"none", "met", "unmet"},
              pc : {"start", "fetch", "send", "done"}]
    /\ [id |-> id, type |-> w.op] \in Planned(c, live)
    /\ w.op = "noop" => w.pc = "done"
    /\ w.pc = "fetch" => w.op = "update"

\* What a run is.
RunOK(c, r) ==
    /\ r = [stage |-> r.stage, todo |-> r.todo, from |-> r.from, live |-> r.live,
            layers |-> r.layers, work |-> r.work, dep |-> r.dep, failed |-> r.failed]
    /\ r.stage \in {"idle", "discover", "apply"}
    /\ r.todo \subseteq TypesOf(c)
    /\ DOMAIN r.live \subseteq Findable(c)
    /\ r.layers \in Seq(SUBSET Planned(c, r.live))
    /\ \A id \in DOMAIN r.work : WorkOK(c, r.live, id, r.work[id])
    /\ r.stage # "discover" => r.todo = {}
    /\ \A id \in DOMAIN r.live : id.type \in r.todo => id.type = "ism_policy"
    /\ r.stage # "apply" => DOMAIN r.work = {} /\ r.layers = <<>>
    /\ r.stage = "apply" =>
          /\ r.layers # <<>> /\ DOMAIN r.work = Ids(r.layers[1])
          /\ RolesFirst(c, r.layers) /\ DependsOnRoles(c, r.dep)

-----------------------------------------------------------------------------
(* What a run that nobody else has written during knows of the cluster. *)

\* It has found of the types it has read what Discover shows of the cluster.
\* (Pages of policies are read one after the other and not considered here.)
ReadIsThere(c, cl, r) ==
    \A id \in DOMAIN cl \cup DOMAIN r.live :
        id.type \in TypesOf(c) \ (r.todo \cup {"ism_policy"}) =>
            /\ id \in DOMAIN r.live <=> id \in DOMAIN cl /\ ~Hidden(id)
            /\ id \in DOMAIN r.live => r.live[id] = FromReply(id.type, Shown(id.type, cl[id]))

\* The change of d will be skipped, or what depends on d will be.
Blocked(r, d) == ({d} \cup Upstream(r.dep, d)) \cap r.failed # {}

\* Its change is still to be made.
IsToCome(r, d) ==
    /\ d \notin DOMAIN r.live
    /\ \E i \in DOMAIN r.layers : d \in Ids(r.layers[i]) /\ (i = 1 => r.work[d].pc # "done")

\* Every declared role and user is there, to come, or blocked by a failure.
RolesAccounted(c, cl, r) ==
    \A d \in DOMAIN c.body : Named(d) => d \in DOMAIN cl \/ Blocked(r, d) \/ IsToCome(r, d)

\* Every declared role and user is there.
AllRolesThere(c, cl) == \A d \in DOMAIN c.body : Named(d) => d \in DOMAIN cl

\* The mappings that have passed their skip check have all their roles.
MappingsReady(c, cl, r) ==
    \A m \in DOMAIN r.work :
        m \in DOMAIN c.body /\ m.type = "role_mapping" /\ r.work[m].pc \in {"fetch", "send"} =>
            AllRolesThere(c, cl)

\* All of it, at the stage of the run where it matters.
Tracks(c, cl, r) ==
    /\ r.stage = "discover" => ReadIsThere(c, cl, r)
    /\ r.stage = "apply" => /\ RolesAccounted(c, cl, r)
                            /\ MappingsReady(c, cl, r)

\* The inductive invariant.
Inv ==
    /\ config \in Configs /\ ValidCluster(cluster)
    /\ run = [o \in Operator |-> run[o]]
    /\ alone \subseteq Operator
    /\ \A o \in Operator : RunOK(config, run[o])
    /\ \A o \in alone : Tracks(config, cluster, run[o])

-----------------------------------------------------------------------------
(* Writes make the conditions of others stale, and nothing else of a run. *)

\* s is r but for conditions.
Alike(r, s) ==
    /\ s = [r EXCEPT !.work = s.work]
    /\ DOMAIN s.work = DOMAIN r.work
    /\ \A id \in DOMAIN r.work :
          /\ s.work[id] \in [op : Operation, cond : {"none", "met", "unmet"},
                             pc : {"start", "fetch", "send", "done"}]
          /\ s.work[id].op = r.work[id].op /\ s.work[id].pc = r.work[id].pc

\* The run after another has written the resource: a condition that was met no
\* longer is.
Stale(r, written) ==
    [r EXCEPT !.work =
        [id \in DOMAIN @ |-> IF id = written /\ @[id].cond = "met"
                             THEN [@[id] EXCEPT !.cond = "unmet"] ELSE @[id]]]

\* That is what Outdated does to every run.
LEMMA OutdatedIsStale ==
    ASSUME NEW runs, NEW written
    PROVE  Outdated(runs, written) = [o \in Operator |-> Stale(runs[o], written)]
BY DEF Outdated, Stale

\* The fields of a run that differs from another in its goroutines.
LEMMA AlikeFields ==
    ASSUME NEW c, NEW r, RunOK(c, r), NEW s, Alike(r, s)
    PROVE  /\ s.stage = r.stage /\ s.todo = r.todo /\ s.from = r.from /\ s.live = r.live
           /\ s.layers = r.layers /\ s.dep = r.dep /\ s.failed = r.failed
           /\ s = [stage |-> s.stage, todo |-> s.todo, from |-> s.from, live |-> s.live,
                   layers |-> s.layers, work |-> s.work, dep |-> s.dep, failed |-> s.failed]
BY DEF RunOK, Alike

\* A stale run is the same but for conditions.
LEMMA StaleIsAlike ==
    ASSUME NEW c, NEW r, RunOK(c, r), NEW written
    PROVE  Alike(r, Stale(r, written))
<1> DEFINE s == Stale(r, written)
<1>1. s = [r EXCEPT !.work = s.work] /\ DOMAIN s.work = DOMAIN r.work
    BY DEF Stale, RunOK
<1>2. ASSUME NEW id \in DOMAIN r.work
      PROVE  /\ s.work[id] \in [op : Operation, cond : {"none", "met", "unmet"},
                                pc : {"start", "fetch", "send", "done"}]
             /\ s.work[id].op = r.work[id].op /\ s.work[id].pc = r.work[id].pc
  <2> DEFINE w == r.work[id]
  <2>1. w \in [op : Operation, cond : {"none", "met", "unmet"}, pc : {"start", "fetch", "send", "done"}]
      BY DEF RunOK, WorkOK
  <2>2. s.work[id] = IF id = written /\ w.cond = "met" THEN [w EXCEPT !.cond = "unmet"] ELSE w
      BY DEF Stale, RunOK
  <2> HIDE DEF s, w
  <2>3. s.work[id] \in {w, [w EXCEPT !.cond = "unmet"]}
      BY <2>2
  <2>4. /\ s.work[id] \in [op : Operation, cond : {"none", "met", "unmet"},
                           pc : {"start", "fetch", "send", "done"}]
        /\ s.work[id].op = w.op /\ s.work[id].pc = w.pc
      BY <2>1, <2>3
  <2> QED  BY <2>4 DEF w
<1> QED  BY <1>1, <1>2 DEF Alike

\* A run that differs by conditions stays what a run is.
LEMMA AlikeOK ==
    ASSUME NEW c, NEW r, RunOK(c, r), NEW s, Alike(r, s)
    PROVE  RunOK(c, s)
<1>1. \A id \in DOMAIN s.work : WorkOK(c, s.live, id, s.work[id])
    BY AlikeFields DEF RunOK, WorkOK, Alike
<1>2. DOMAIN s.work = DOMAIN r.work
    BY DEF Alike
<1> QED  BY <1>1, <1>2, AlikeFields DEF RunOK

\* It knows the same of the cluster.
LEMMA AlikeTracks ==
    ASSUME NEW c, NEW cl, NEW r, RunOK(c, r), NEW s, Alike(r, s), Tracks(c, cl, r)
    PROVE  Tracks(c, cl, s)
<1>1. /\ s.stage = r.stage /\ s.todo = r.todo /\ s.live = r.live
      /\ s.layers = r.layers /\ s.dep = r.dep /\ s.failed = r.failed
    BY AlikeFields
<1>2. /\ DOMAIN s.work = DOMAIN r.work
      /\ \A id \in DOMAIN r.work : s.work[id].pc = r.work[id].pc
    BY DEF Alike
<1>3. s.stage = "discover" => ReadIsThere(c, cl, s)
    BY <1>1 DEF Tracks, ReadIsThere
<1>4. ASSUME s.stage = "apply" PROVE RolesAccounted(c, cl, s)
  <2>1. RolesAccounted(c, cl, r) /\ r.stage = "apply"
      BY <1>1, <1>4 DEF Tracks
  <2>2. \A d : Blocked(r, d) => Blocked(s, d)
      BY <1>1 DEF Blocked
  <2>3. ASSUME NEW d, IsToCome(r, d) PROVE IsToCome(s, d)
    <3>1. PICK i \in DOMAIN r.layers : d \in Ids(r.layers[i]) /\ (i = 1 => r.work[d].pc # "done")
        BY <2>3 DEF IsToCome
    <3>2. i = 1 => d \in DOMAIN r.work
        BY <2>1, <3>1 DEF RunOK
    <3> QED  BY <1>1, <1>2, <2>3, <3>1, <3>2 DEF IsToCome
  <2> QED  BY <2>1, <2>2, <2>3 DEF RolesAccounted
<1>5. s.stage = "apply" => MappingsReady(c, cl, s)
    BY <1>1, <1>2 DEF Tracks, MappingsReady
<1> QED  BY <1>3, <1>4, <1>5 DEF Tracks

-----------------------------------------------------------------------------
(* How a step keeps the invariant. *)

\* One run moves on, and the cluster stays.
LEMMA OneMoves ==
    ASSUME Inv, NEW o \in Operator, NEW r, RunOK(config, r), run' = [run EXCEPT ![o] = r],
           UNCHANGED <<cluster, config>>, alone' \subseteq alone \cup {o},
           o \in alone' => Tracks(config, cluster, r)
    PROVE  Inv'
<1>1. run' = [p \in Operator |-> IF p = o THEN r ELSE run[p]]
    BY DEF Inv
<1>2. \A p \in Operator : RunOK(config', run'[p])
    BY <1>1 DEF Inv
<1>3. \A p \in alone' : Tracks(config', cluster', run'[p])
    BY <1>1 DEF Inv
<1> QED  BY <1>1, <1>2, <1>3 DEF Inv

\* A request is carried out: of o, whose run has become r, or of somebody
\* else.
LEMMA OneWrites ==
    ASSUME Inv, NEW request, request.id \in AnyID, NEW runs, NEW writers,
           runs = [p \in Operator |-> runs[p]],
           \A p \in Operator : RunOK(config, runs[p]),
           Write(request, runs, writers), UNCHANGED config,
           \A p \in alone : p \in writers \/ cluster' = cluster => Tracks(config, cluster', runs[p])
    PROVE  Inv'
<1>1. ValidCluster(cluster')
    BY EffectTouches DEF Inv, Write
<1>2. run' = [p \in Operator |-> Stale(runs[p], request.id)]
    BY OutdatedIsStale DEF Write
<1>3. ASSUME NEW p \in Operator
      PROVE  RunOK(config, run'[p]) /\ Alike(runs[p], run'[p])
    BY <1>2, StaleIsAlike, AlikeOK
<1>4. alone' \subseteq Operator
      /\ \A p \in alone' : p \in alone /\ (p \in writers \/ cluster' = cluster)
    BY DEF Write, Inv
<1>5. ASSUME NEW p \in alone' PROVE Tracks(config, cluster', run'[p])
    BY <1>3, <1>4, AlikeTracks
<1> QED  BY <1>1, <1>2, <1>3, <1>4, <1>5 DEF Inv

-----------------------------------------------------------------------------
(* The goroutines of a run. *)

\* The goroutine of id becomes w, and F the failures.
Moved(r, id, w, F) == [r EXCEPT !.work = [r.work EXCEPT ![id] = w], !.failed = F]

\* The fields of a run with one goroutine moved.
LEMMA MovedFields ==
    ASSUME NEW c, NEW r, RunOK(c, r), NEW id \in DOMAIN r.work, NEW w, NEW F
    PROVE  LET s == Moved(r, id, w, F)
           IN  /\ s.stage = r.stage /\ s.todo = r.todo /\ s.live = r.live
               /\ s.layers = r.layers /\ s.dep = r.dep /\ s.failed = F
               /\ s = [stage |-> s.stage, todo |-> s.todo, from |-> s.from, live |-> s.live,
                       layers |-> s.layers, work |-> s.work, dep |-> s.dep, failed |-> s.failed]
               /\ DOMAIN s.work = DOMAIN r.work /\ s.work[id] = w
               /\ \A x \in DOMAIN r.work \ {id} : s.work[x] = r.work[x]
<1> DEFINE work == [r.work EXCEPT ![id] = w]
           s == Moved(r, id, w, F)
<1>1. s = [[r EXCEPT !.work = work] EXCEPT !.failed = F]
    BY DEF Moved
<1>2. /\ DOMAIN work = DOMAIN r.work /\ work[id] = w
      /\ \A x \in DOMAIN r.work \ {id} : work[x] = r.work[x]
    OBVIOUS
<1>3. r = [stage |-> r.stage, todo |-> r.todo, from |-> r.from, live |-> r.live,
           layers |-> r.layers, work |-> r.work, dep |-> r.dep, failed |-> r.failed]
    BY DEF RunOK
<1> HIDE DEF work, s
<1>4. s = [stage |-> r.stage, todo |-> r.todo, from |-> r.from, live |-> r.live,
           layers |-> r.layers, work |-> work, dep |-> r.dep, failed |-> F]
    BY <1>1, <1>3
<1> QED  BY <1>2, <1>4 DEF s

\* A run stays one when a goroutine becomes what a goroutine can be.
LEMMA MovedOK ==
    ASSUME NEW c, NEW r, RunOK(c, r), NEW id \in DOMAIN r.work, NEW w, NEW F,
           WorkOK(c, r.live, id, w)
    PROVE  RunOK(c, Moved(r, id, w, F))
<1> DEFINE s == Moved(r, id, w, F)
<1>1. /\ s.stage = r.stage /\ s.todo = r.todo /\ s.live = r.live
      /\ s.layers = r.layers /\ s.dep = r.dep /\ s.failed = F
      /\ s = [stage |-> s.stage, todo |-> s.todo, from |-> s.from, live |-> s.live,
              layers |-> s.layers, work |-> s.work, dep |-> s.dep, failed |-> s.failed]
      /\ DOMAIN s.work = DOMAIN r.work /\ s.work[id] = w
      /\ \A x \in DOMAIN r.work \ {id} : s.work[x] = r.work[x]
    BY MovedFields
<1> HIDE DEF s
<1>2. \A x \in DOMAIN s.work : WorkOK(c, s.live, x, s.work[x])
    BY <1>1 DEF RunOK
<1>3. RunOK(c, s)
    BY <1>1, <1>2 DEF RunOK
<1> QED  BY <1>3 DEF s

\* What the goroutines of a run are for: what is not declared is deleted, what
\* is declared is not.
LEMMA WorkFacts ==
    ASSUME Inv, NEW o \in Operator, NEW id \in DOMAIN run[o].work
    PROVE  /\ RunOK(config, run[o]) /\ run[o].stage = "apply"
           /\ WorkOK(config, run[o].live, id, run[o].work[id])
           /\ id \in AnyID
           /\ run[o].work[id].op = "delete" <=> id \notin declared
           /\ id \notin declared => config.prune /\ id \in DOMAIN run[o].live
           /\ id \in Ids(run[o].layers[1])
<1>1. RunOK(config, run[o]) /\ run[o].stage = "apply"
    BY DEF Inv, RunOK
<1> DEFINE w == run[o].work[id]
<1>2. WorkOK(config, run[o].live, id, w)
    BY <1>1 DEF RunOK
<1>3. id \in Ids(run[o].layers[1])
    BY <1>1 DEF RunOK
<1> HIDE DEF w
<1>4. /\ id \in AnyID
      /\ w.op = "delete" <=> id \notin declared
      /\ id \notin declared => config.prune /\ id \in DOMAIN run[o].live
    BY <1>2 DEF WorkOK, Planned, Foreseen, Operation, declared
<1> QED  BY <1>1, <1>2, <1>3, <1>4 DEF w

\* What a run's request does to the cluster.
LEMMA RequestEffect ==
    ASSUME Inv, NEW o \in Operator, NEW id \in DOMAIN run[o].work,
           cluster' = Effect(cluster, RequestOf(o, id))
    PROVE  /\ RequestOf(o, id).id = id
           /\ \A x : x # id /\ x.type # "cluster_settings" => Same(x, cluster, cluster')
           /\ id.type # "cluster_settings" /\ id \in declared =>
                 id \in DOMAIN cluster' /\ cluster'[id] = Stored(id.type, Desired(id))
           /\ id.type # "cluster_settings" /\ id \notin declared =>
                 cluster' = Without(cluster, {id}) /\ id \notin DOMAIN cluster'
<1> DEFINE r == RequestOf(o, id)
<1>1. /\ r.id = id
      /\ id.type # "cluster_settings" /\ id \in declared =>
            r.verb = "PUT" /\ r.body = Desired(id)
      /\ id.type # "cluster_settings" /\ id \notin declared => r.verb = "DELETE"
    BY WorkFacts DEF RequestOf, Request, PutSettings, Put, Delete, Payload, Work
<1> HIDE DEF r
<1>2. id \in AnyID /\ ValidCluster(cluster) /\ SettingsID.type = "cluster_settings"
    BY WorkFacts DEF Inv, SettingsID
<1>3. \A x : x # id /\ x.type # "cluster_settings" => Same(x, cluster, cluster')
    BY <1>1, <1>2, EffectTouches DEF Touched, r
<1>4. CASE id.type # "cluster_settings" /\ id \in declared
  <2>1. cluster' = With(cluster, id, Stored(id.type, Desired(id)))
      BY <1>1, <1>4 DEF Effect, r
  <2>2. id \in DOMAIN cluster' /\ cluster'[id] = Stored(id.type, Desired(id))
      BY <2>1 DEF With, Over
  <2> QED  BY <1>1, <1>3, <1>4, <2>2 DEF r
<1>5. CASE id.type # "cluster_settings" /\ id \notin declared
  <2>1. cluster' = Without(cluster, {id})
      BY <1>1, <1>5 DEF Effect, r
  <2>2. id \notin DOMAIN cluster'
      BY <2>1 DEF Without, Fun!Restrict
  <2> QED  BY <1>1, <1>3, <1>5, <2>1, <2>2 DEF r
<1> QED  BY <1>1, <1>3, <1>4, <1>5 DEF r

\* A run that has sent a request, and has its answer or not, still knows what
\* it knew.
LEMMA SentTracks ==
    ASSUME Inv, NEW o \in alone, NEW id \in DOMAIN run[o].work,
           cluster' = Effect(cluster, RequestOf(o, id)), NEW F, run[o].failed \subseteq F
    PROVE  Tracks(config, cluster', Moved(run[o], id, [run[o].work[id] EXCEPT !.pc = "done"], F))
<1> DEFINE r == run[o]
           w == [r.work[id] EXCEPT !.pc = "done"]
           s == Moved(r, id, w, F)
<1>1. o \in Operator /\ RunOK(config, r) /\ r.stage = "apply" /\ Tracks(config, cluster, r)
    BY WorkFacts DEF Inv
<1>2. /\ s.stage = r.stage /\ s.live = r.live
      /\ s.layers = r.layers /\ s.dep = r.dep /\ s.failed = F
      /\ DOMAIN s.work = DOMAIN r.work /\ s.work[id] = w
      /\ \A x \in DOMAIN r.work \ {id} : s.work[x] = r.work[x]
  <2> HIDE DEF w
  <2> QED  BY <1>1, MovedFields
<1>3. w.pc = "done"
    BY <1>1 DEF RunOK, WorkOK
<1> HIDE DEF s, w
<1>4. ASSUME NEW d \in declared, Named(d), d \in DOMAIN cluster
      PROVE  d \in DOMAIN cluster'
    BY <1>1, <1>4, RequestEffect DEF Named, Same
<1>5. RolesAccounted(config, cluster', s)
  <2> SUFFICES ASSUME NEW d \in declared, Named(d), d \notin DOMAIN cluster'
               PROVE  Blocked(s, d) \/ IsToCome(s, d)
      BY DEF RolesAccounted, declared
  <2>1. d # id
      BY <1>1, RequestEffect DEF Named
  <2>2. Blocked(r, d) \/ IsToCome(r, d)
      BY <1>1, <1>4 DEF Tracks, RolesAccounted, declared
  <2>3. Blocked(r, d) => Blocked(s, d)
      BY <1>2 DEF Blocked
  <2>4. ASSUME IsToCome(r, d) PROVE IsToCome(s, d)
    <3>1. PICK i \in DOMAIN r.layers : d \in Ids(r.layers[i]) /\ (i = 1 => r.work[d].pc # "done")
        BY <2>4 DEF IsToCome
    <3>2. i = 1 => d \in DOMAIN r.work
        BY <1>1, <3>1 DEF RunOK
    <3> QED  BY <1>2, <2>1, <2>4, <3>1, <3>2 DEF IsToCome
  <2> QED  BY <2>2, <2>3, <2>4
<1>6. MappingsReady(config, cluster', s)
  <2>1. AllRolesThere(config, cluster) => AllRolesThere(config, cluster')
      BY <1>4 DEF AllRolesThere, declared
  <2> QED  BY <1>1, <1>2, <1>3, <2>1 DEF Tracks, MappingsReady
<1>7. Tracks(config, cluster', s)
    BY <1>1, <1>2, <1>5, <1>6 DEF Tracks
<1> QED  BY <1>7 DEF s, w

-----------------------------------------------------------------------------
(* Plans. *)

\* There are finitely many identities.
LEMMA IdentitiesFinite == IsFiniteSet(AnyID)
<1>1. ASSUME NEW S, IsFiniteSet(S), NEW x PROVE IsFiniteSet(S \cup {x})
    BY <1>1, FS_AddElement
<1>2. IsFiniteSet(ResourceType)
  <2> DEFINE A == {"role"} \cup {"role_mapping"}
             B == (A \cup {"internal_user"}) \cup {"component_template"}
             C == (B \cup {"composable_index_template"}) \cup {"ingest_pipeline"}
             D == ((C \cup {"snapshot_repository"}) \cup {"ism_policy"}) \cup {"cluster_settings"}
  <2>1. IsFiniteSet(A)
      BY <1>1, FS_Singleton
  <2>2. IsFiniteSet(B)
    <3> HIDE DEF A
    <3> QED  BY <1>1, <2>1
  <2>3. IsFiniteSet(C)
    <3> HIDE DEF B
    <3> QED  BY <1>1, <2>2
  <2>4. IsFiniteSet(D)
    <3> HIDE DEF C
    <3> QED  BY <1>1, <2>3
  <2>5. ResourceType = D
      BY DEF ResourceType, Plain
  <2> QED  BY <2>4, <2>5
<1> DEFINE n == Len(Names)
           pairs == ResourceType \X (1 .. n)
           f == [p \in pairs |-> [type |-> p[1], name |-> Names[p[2]]]]
<1>3. n \in Nat /\ DOMAIN Names = 1 .. n
    BY ConfigsAssumption
<1>4. IsFiniteSet(pairs)
  <2>1. IsFiniteSet(1 .. n)
    <3> HIDE DEF n
    <3> QED  BY <1>3, FS_Interval
  <2> HIDE DEF n
  <2> QED  BY <1>2, <2>1, FS_Product
<1>5. f \in Surjection(pairs, ResourceID)
  <2>1. f \in [pairs -> ResourceID]
      BY <1>3 DEF ResourceID
  <2>2. ASSUME NEW id \in ResourceID PROVE \E p \in pairs : f[p] = id
    <3>1. PICK t \in ResourceType, k \in 1 .. n : id = [type |-> t, name |-> Names[k]]
        BY <1>3 DEF ResourceID
    <3>2. <<t, k>> \in pairs /\ f[<<t, k>>] = id
        BY <3>1
    <3> QED  BY <3>2
  <2> HIDE DEF f, pairs
  <2> QED  BY <2>1, <2>2 DEF Surjection
<1>6. IsFiniteSet(ResourceID)
  <2> HIDE DEF f, pairs
  <2> QED  BY <1>4, <1>5, FS_Surjection
<1> QED  BY <1>1, <1>6 DEF AnyID

\* What a valid configuration declares.
LEMMA ConfigFacts ==
    ASSUME config \in Configs
    PROVE  declared \subseteq ResourceID /\ config.refs \in [declared -> SUBSET declared]
BY ConfigsAssumption DEF ValidConfig, declared

\* What is planned from what was found, and that what is missing is created.
LEMMA ChangesFacts ==
    ASSUME config \in Configs, NEW live, DOMAIN live \subseteq AnyID
    PROVE  /\ Changes(live) \subseteq Foreseen(config, live)
           /\ ~Refused(live) => Changes(live) \subseteq Planned(config, live)
           /\ \A d \in declared \ DOMAIN live : d \in Ids(Changes(live))
<1> DEFINE A == {[id |-> d, type |-> "create"] : d \in declared \ DOMAIN live}
           B == {[id |-> d, type |-> IF Differs(d.type, config.body[d], live[d])
                                     THEN "update" ELSE "noop"] : d \in declared \cap DOMAIN live}
           D == {[id |-> l, type |-> "delete"] : l \in DOMAIN live \ declared}
<1>1. Changes(live) = KeptChanges(A \cup B \cup D)
    BY DEF Changes
<1>2. declared \subseteq AnyID
    BY ConfigFacts DEF AnyID
<1>3. ASSUME NEW ch \in Changes(live) PROVE ch \in Foreseen(config, live)
  <2>1. ch \in A \cup B \cup D /\ (ch.type = "delete" => config.prune)
    <3> HIDE DEF A, B, D
    <3> QED  BY <1>1 DEF KeptChanges
  <2>2. CASE ch \in A
      BY <1>2, <2>2 DEF Foreseen, Operation, declared
  <2>3. CASE ch \in B
    <3>1. PICK d \in declared \cap DOMAIN live :
              ch \in {[id |-> d, type |-> "update"], [id |-> d, type |-> "noop"]}
        BY <2>3
    <3> QED  BY <1>2, <3>1 DEF Foreseen, Operation, declared
  <2>4. CASE ch \in D
      BY <2>1, <2>4 DEF Foreseen, Operation, declared
  <2> QED  BY <2>1, <2>2, <2>3, <2>4
<1>4. ASSUME NEW d \in declared \ DOMAIN live PROVE d \in Ids(Changes(live))
  <2> DEFINE ch == [id |-> d, type |-> "create"]
  <2>1. ch \in A /\ ch.type # "delete" /\ ch.id = d
      OBVIOUS
  <2>2. ch \in Changes(live)
    <3> HIDE DEF A, B, D, ch
    <3> QED  BY <1>1, <2>1 DEF KeptChanges
  <2> HIDE DEF ch
  <2> QED  BY <2>1, <2>2 DEF Ids
<1>5. ~Refused(live) => \A ch \in Changes(live) :
          ch.type = "delete" /\ ~config.allow => ~LocksOut(ch.id, live[ch.id])
    BY DEF Refused
<1> QED  BY <1>3, <1>4, <1>5 DEF Planned

\* The theorems about sorting the graphs of these plans.
Sort == INSTANCE SortProofs WITH Id <- Known

\* The graph operators that OpenSearchRuns uses are those SortProofs is about.
LEMMA SameSort ==
    ASSUME NEW g, NEW index, NEW a
    PROVE  /\ G!HasCycle(g) = Sort!HasCycle(g)
           /\ G!OrderPlan(index, g) = Sort!OrderPlan(index, g)
           /\ G!DependsOn(g, a) = Sort!DependsOn(g, a)
<1>1. G!TopologicalSort(g) = Sort!TopologicalSort(g)
    BY DEF G!TopologicalSort, Sort!TopologicalSort, G!NonEmpty, Sort!NonEmpty,
           G!KahnRounds, Sort!KahnRounds, G!KahnStep, Sort!KahnStep,
           G!KahnStart, Sort!KahnStart, G!InDegree, Sort!InDegree,
           G!Entries, Sort!Entries, G!Decrements, Sort!Decrements,
           G!Cardinality, Sort!Cardinality
<1>2. G!HasCycle(g) = Sort!HasCycle(g)
    BY <1>1 DEF G!HasCycle, Sort!HasCycle, G!Cardinality, Sort!Cardinality
<1>3. G!OrderPlan(index, g) = Sort!OrderPlan(index, g)
    BY <1>1 DEF G!OrderPlan, Sort!OrderPlan, G!NonEmpty, Sort!NonEmpty,
           G!Picked, Sort!Picked, G!Cardinality, Sort!Cardinality
<1>4. G!DependsOn(g, a) = Sort!DependsOn(g, a)
    BY DEF G!DependsOn, Sort!DependsOn
<1> QED  BY <1>2, <1>3, <1>4


\* The type orderings are few.
LEMMA OrderingsFinite == IsFiniteSet(TypeOrderings)
<1>1. \A x, y, z : IsFiniteSet({x, y, z})
  <2>1. TAKE x, y, z
  <2>2. IsFiniteSet({x} \cup {y}) /\ IsFiniteSet({z})
      BY FS_Singleton, FS_Union
  <2>3. IsFiniteSet(({x} \cup {y}) \cup {z}) /\ ({x} \cup {y}) \cup {z} = {x, y, z}
      BY <2>2, FS_Union
  <2> QED  BY <2>3
<1> QED  BY <1>1 DEF TypeOrderings

\* The graph of a plan sorts, and its mappings depend on its roles.
LEMMA GraphFacts ==
    ASSUME Inv
    PROVE  /\ Sort!SortInput(Graph) /\ Graph.nodes = declared
           /\ Graph = [nodes |-> Graph.nodes, fwd |-> Graph.fwd, rev |-> Graph.rev]
           /\ IsFiniteSet(Known) /\ declared \subseteq Known
           /\ \A m, d \in declared : m.type = "role_mapping" /\ Named(d) =>
                 d \in Sort!DependsOn(Graph, m)
<1> DEFINE refs == [id \in Known |-> IF id \in declared THEN config.refs[id] ELSE {}]
           types == [id \in Known |-> id.type]
           g == Sort!BuildGraph(declared, refs, types, TypeOrderings)
<1>1. Graph = g
    BY DEF Graph, G!BuildGraph, Sort!BuildGraph, G!EdgeCount, Sort!EdgeCount,
           G!Cardinality, Sort!Cardinality
<1>2. IsFiniteSet(Known) /\ declared \in SUBSET Known /\ IsFiniteSet(declared)
  <2>1. Known \subseteq AnyID
    <3>1. declared \subseteq AnyID
        BY ConfigFacts DEF Inv, AnyID
    <3>2. DOMAIN LiveNow \subseteq AnyID
        BY DEF Inv, ValidCluster, LiveNow, Found, ClusterID, AnyID
    <3>3. \A o \in Operator : DOMAIN run[o].live \subseteq AnyID
        BY DEF Inv, RunOK, Findable, ClusterID, AnyID
    <3> QED  BY <3>1, <3>2, <3>3 DEF Known
  <2>2. declared \subseteq Known
      BY DEF Known
  <2> QED  BY <2>1, <2>2, IdentitiesFinite, FS_Subset
<1>3. Sort!SortInput(g) /\ g.nodes = declared
  <2>1. Sort!IsFiniteSet(declared) /\ Sort!IsFiniteSet(TypeOrderings)
      BY <1>2, OrderingsFinite DEF Sort!IsFiniteSet, IsFiniteSet
  <2> HIDE DEF refs, types
  <2> QED  BY <1>2, <2>1, Sort!BuiltSorts
<1>4. g = [nodes |-> g.nodes, fwd |-> g.fwd, rev |-> g.rev]
    BY DEF Sort!BuildGraph
<1>5. ASSUME NEW m \in declared, NEW d \in declared, m.type = "role_mapping", Named(d)
      PROVE  d \in Sort!DependsOn(g, m)
  <2> DEFINE both == {x \in TypeOrderings : x.after = types[m] /\ x.before = types[d]}
  <2>1. m \in Known /\ d \in Known
      BY <1>2
  <2>2. both # {}
    <3>1. [before |-> d.type, after |-> "role_mapping"] \in TypeOrderings
        BY <1>5 DEF TypeOrderings, Named
    <3> QED  BY <1>5, <2>1, <3>1
  <2>3. IsFiniteSet(both)
      BY OrderingsFinite, FS_Subset
  <2>4. Cardinality(both) \in Nat /\ Cardinality(both) # 0
    <3> HIDE DEF both
    <3> QED  BY <2>2, <2>3, FS_CardinalityType, FS_EmptySet
  <2>5. g.fwd[m][d] = (IF d \in refs[m] THEN 1 ELSE 0) + Cardinality(both)
    <3> HIDE DEF refs, types
    <3> QED  BY <2>1 DEF Sort!BuildGraph, Sort!EdgeCount, Sort!Cardinality, Cardinality
  <2>6. g.fwd[m][d] > 0
    <3> HIDE DEF g, both, refs
    <3> QED  BY <2>4, <2>5
  <2> HIDE DEF g
  <2> QED  BY <2>1, <2>6 DEF Sort!DependsOn
<1> QED  BY <1>1, <1>2, <1>3, <1>4, <1>5

\* The layers of a plan: every change is in one of them, the roles before
\* the mappings.
LEMMA LayersOfPlan ==
    ASSUME Inv, NEW o \in Operator, Changes(run[o].live) # {}, ~Cyclic
    PROVE  LET live == run[o].live
               ordered == Ordered(live)
           IN  /\ ordered \in Seq(SUBSET Changes(live)) /\ ordered # <<>>
               /\ \A d \in Ids(Changes(live)) : \E i \in DOMAIN ordered : d \in Ids(ordered[i])
               /\ declared \ DOMAIN live \subseteq Ids(Changes(live))
               /\ RolesFirst(config, ordered)
<1> DEFINE live == run[o].live
           changes == Changes(live)
           T == declared \cup {c.id : c \in changes}
           index == G!Indexed(changes)
           h == Sort!WithNodes(Graph, T)
           ordered == Sort!OrderPlan(index, h)
<1>1. changes \subseteq Foreseen(config, live) /\ \A d \in declared \ DOMAIN live : d \in Ids(changes)
  <2>1. DOMAIN live \subseteq AnyID
      BY DEF Inv, RunOK, Findable, ClusterID, AnyID
  <2> HIDE DEF live
  <2> QED  BY <2>1, ChangesFacts DEF Inv
<1>2. T \in SUBSET Known /\ IsFiniteSet(T)
  <2>1. DOMAIN live \subseteq Known
      BY DEF Known
  <2>2. T \subseteq Known
      BY <1>1, <2>1, GraphFacts DEF Foreseen, Operation, declared
  <2> QED  BY <2>2, GraphFacts, FS_Subset
<1>3. Ordered(live) = ordered
  <2>1. [Graph EXCEPT !.nodes = @ \cup {c.id : c \in changes}] = h
      BY GraphFacts DEF Sort!WithNodes
  <2> HIDE DEF h, index
  <2> QED  BY <2>1, SameSort DEF Ordered, index
<1>4. /\ Sort!SortInput(h) /\ h.nodes = T /\ ~Sort!HasCycle(h)
      /\ \A a \in Known : Sort!DependsOn(h, a) = Sort!DependsOn(Graph, a)
  <2>1. Sort!IsFiniteSet(T)
      BY <1>2 DEF Sort!IsFiniteSet, IsFiniteSet
  <2>2. ~Sort!HasCycle(Graph)
      BY SameSort DEF Cyclic
  <2>3. declared \subseteq T
      OBVIOUS
  <2> HIDE DEF T
  <2> QED  BY <1>2, <2>1, <2>2, <2>3, GraphFacts, Sort!MoreNodes
<1>5. Sort!Indexed(changes) = index /\ {c.id : c \in changes} \subseteq h.nodes
    BY <1>4 DEF G!Indexed, Sort!Indexed
<1> HIDE DEF h
<1>6. /\ ordered \in Seq(SUBSET changes) /\ ordered # <<>>
      /\ \E at : Sort!Places(at, index, h, ordered)
  <2> HIDE DEF changes, index
  <2> QED  BY <1>4, <1>5, Sort!PlanIsOrdered DEF changes
<1>7. PICK at : Sort!Places(at, index, h, ordered)
    BY <1>6
<1>8. DOMAIN index = Ids(changes) /\ \A id \in DOMAIN index : index[id] \in changes /\ index[id].id = id
    BY DEF G!Indexed, Ids
<1> HIDE DEF index, ordered, changes
<1>9. ASSUME NEW i \in DOMAIN ordered, NEW x PROVE x \in Ids(ordered[i]) <=> x \in DOMAIN index /\ at[x] = i
    BY <1>7, <1>8 DEF Sort!Places, Ids
<1>10. ASSUME NEW d \in Ids(changes) PROVE \E i \in DOMAIN ordered : d \in Ids(ordered[i])
  <2>1. d \in DOMAIN index /\ at[d] \in DOMAIN ordered
      BY <1>7, <1>8 DEF Sort!Places
  <2> QED  BY <1>9, <2>1
<1>11. RolesFirst(config, ordered)
  <2> SUFFICES ASSUME NEW i \in DOMAIN ordered, NEW j \in DOMAIN ordered,
                      NEW m \in Ids(ordered[i]), NEW d \in Ids(ordered[j]),
                      {m, d} \subseteq declared, m.type = "role_mapping", Named(d)
               PROVE  j < i
      BY DEF RolesFirst, declared
  <2>1. at[m] = i /\ at[d] = j /\ m \in DOMAIN index /\ d \in DOMAIN index
      BY <1>9
  <2>2. index[m].type # "delete" /\ index[d].type # "delete"
      BY <1>1, <1>8, <2>1 DEF Foreseen, declared
  <2>3. d \in Sort!DependsOn(h, m)
      BY <1>4, GraphFacts
  <2> QED  BY <1>7, <2>1, <2>2, <2>3 DEF Sort!Places
<1> QED  BY <1>1, <1>3, <1>6, <1>10, <1>11 DEF changes

-----------------------------------------------------------------------------
(* Discovery. *)

\* Between two runs there is nothing of a run.
LEMMA NoRunOK ==
    ASSUME NEW c, NEW cl
    PROVE  RunOK(c, NoRun) /\ Tracks(c, cl, NoRun)
<1>1. \A X : <<>> \in Seq(X)
    OBVIOUS
<1>2. DOMAIN <<>> = {}
    OBVIOUS
<1>3. /\ NoRun.stage = "idle" /\ NoRun.todo = {} /\ NoRun.live = <<>> /\ NoRun.layers = <<>>
      /\ NoRun.work = <<>>
      /\ NoRun = [stage |-> NoRun.stage, todo |-> NoRun.todo, from |-> NoRun.from,
                  live |-> NoRun.live, layers |-> NoRun.layers, work |-> NoRun.work,
                  dep |-> NoRun.dep, failed |-> NoRun.failed]
    BY DEF NoRun
<1> HIDE DEF NoRun
<1> QED  BY <1>1, <1>2, <1>3 DEF RunOK, Tracks

\* The invariant holds before anybody runs.
LEMMA InvInit == Init => Inv
<1> SUFFICES ASSUME Init PROVE Inv
    OBVIOUS
<1>1. run = [o \in Operator |-> run[o]] /\ \A o \in Operator : run[o] = NoRun
    BY DEF Init
<1> QED  BY <1>1, NoRunOK, ConfigsAssumption DEF Init, Inv

\* A run begins.
LEMMA InvBegin ==
    ASSUME Inv, NEW o \in Operator, Begin(o)
    PROVE  Inv'
<1> DEFINE r == [NoRun EXCEPT !.stage = "discover", !.todo = DeclaredTypes]
<1>1. DeclaredTypes = TypesOf(config)
    BY DEF DeclaredTypes, TypesOf, declared
<1>2. r = [stage |-> "discover", todo |-> DeclaredTypes, from |-> 0, live |-> <<>>,
           layers |-> <<>>, work |-> <<>>, dep |-> <<>>, failed |-> {}]
  <2> DEFINE n == NoRun
  <2>1. /\ n = [stage |-> n.stage, todo |-> n.todo, from |-> n.from, live |-> n.live,
                layers |-> n.layers, work |-> n.work, dep |-> n.dep, failed |-> n.failed]
        /\ n.from = 0 /\ n.live = <<>> /\ n.layers = <<>> /\ n.work = <<>>
        /\ n.dep = <<>> /\ n.failed = {}
      BY DEF NoRun
  <2>2. r = [[n EXCEPT !.stage = "discover"] EXCEPT !.todo = DeclaredTypes]
      OBVIOUS
  <2> HIDE DEF n, r
  <2>3. r = [stage |-> "discover", todo |-> DeclaredTypes, from |-> n.from, live |-> n.live,
             layers |-> n.layers, work |-> n.work, dep |-> n.dep, failed |-> n.failed]
      BY <2>1, <2>2
  <2> QED  BY <2>1, <2>3
<1>3. run' = [run EXCEPT ![o] = r] /\ UNCHANGED <<cluster, config>> /\ alone' = alone \cup {o}
    BY DEF Begin
<1> HIDE DEF r
<1>4. /\ r.stage = "discover" /\ r.todo = TypesOf(config) /\ r.live = <<>> /\ r.layers = <<>>
      /\ r.work = <<>>
      /\ r = [stage |-> r.stage, todo |-> r.todo, from |-> r.from, live |-> r.live,
              layers |-> r.layers, work |-> r.work, dep |-> r.dep, failed |-> r.failed]
    BY <1>1, <1>2
<1>5. \A X : <<>> \in Seq(X)
    OBVIOUS
<1>6. DOMAIN <<>> = {}
    OBVIOUS
<1>7. RunOK(config, r)
    BY <1>4, <1>5, <1>6 DEF RunOK
<1>8. Tracks(config, cluster, r)
    BY <1>4 DEF Tracks, ReadIsThere
<1> QED  BY <1>3, <1>7, <1>8, OneMoves

\* A run that has found more.
Finds(r, new, todo, from) ==
    [r EXCEPT !.live = Over(new, r.live), !.todo = todo, !.from = from]

\* It is still a run in discovery.
LEMMA FindsOK ==
    ASSUME NEW c, NEW r, RunOK(c, r), r.todo # {},
           NEW new, DOMAIN new \subseteq Findable(c),
           NEW todo \in SUBSET r.todo,
           \A id \in DOMAIN new : id.type \in todo => id.type = "ism_policy",
           NEW from
    PROVE  LET s == Finds(r, new, todo, from)
           IN  RunOK(c, s) /\ s.stage = "discover" /\ s.live = Over(new, r.live) /\ s.todo = todo
<1> DEFINE live == Over(new, r.live)
           s == Finds(r, new, todo, from)
<1>1. r.stage = "discover" /\ DOMAIN r.work = {} /\ r.layers = <<>>
    BY DEF RunOK
<1>2. DOMAIN live = DOMAIN new \cup DOMAIN r.live
    BY DEF Over
<1>3. s = [[[r EXCEPT !.live = live] EXCEPT !.todo = todo] EXCEPT !.from = from]
    BY DEF Finds
<1>4. r = [stage |-> r.stage, todo |-> r.todo, from |-> r.from, live |-> r.live,
           layers |-> r.layers, work |-> r.work, dep |-> r.dep, failed |-> r.failed]
    BY DEF RunOK
<1> HIDE DEF live, s
<1>5. s = [stage |-> r.stage, todo |-> todo, from |-> from, live |-> live,
           layers |-> r.layers, work |-> r.work, dep |-> r.dep, failed |-> r.failed]
    BY <1>3, <1>4
<1>6. /\ s.stage = r.stage /\ s.todo = todo /\ s.live = live
      /\ s.layers = r.layers /\ s.dep = r.dep /\ s.failed = r.failed /\ s.work = r.work
      /\ s = [stage |-> s.stage, todo |-> s.todo, from |-> s.from, live |-> s.live,
              layers |-> s.layers, work |-> s.work, dep |-> s.dep, failed |-> s.failed]
    BY <1>5
<1>7. \A X : <<>> \in Seq(X)
    OBVIOUS
<1>8. /\ DOMAIN s.live \subseteq Findable(c)
      /\ \A id \in DOMAIN s.live : id.type \in s.todo => id.type = "ism_policy"
    BY <1>2, <1>6 DEF RunOK
<1>9. RunOK(c, s)
    BY <1>1, <1>6, <1>7, <1>8 DEF RunOK
<1> QED  BY <1>1, <1>6, <1>9 DEF s, live

\* A type is read.
LEMMA InvRead ==
    ASSUME Inv, NEW o \in Operator, NEW type \in run[o].todo, Read(o, type)
    PROVE  Inv'
<1> DEFINE old == run[o]
           new == Discover(cluster, type)
           todo == old.todo \ {type}
           r == Finds(old, new, todo, old.from)
<1>1. RunOK(config, old) /\ type \in TypesOf(config) /\ type # "ism_policy" /\ old.todo # {}
    BY DEF Inv, RunOK, Read
<1>2. /\ DOMAIN new = {id \in DOMAIN cluster : id.type = type /\ ~Hidden(id)}
      /\ \A id \in DOMAIN new : new[id] = FromReply(id.type, Shown(id.type, cluster[id]))
    BY DEF Discover, Found
<1>3. DOMAIN new \subseteq Findable(config)
    BY <1>1, <1>2 DEF Findable, Inv, ValidCluster
<1>4. RunOK(config, r) /\ r.stage = "discover" /\ r.live = Over(new, old.live) /\ r.todo = todo
  <2>1. todo \in SUBSET old.todo /\ \A id \in DOMAIN new : id.type \in todo => id.type = "ism_policy"
      BY <1>2
  <2> HIDE DEF new, old, todo
  <2> QED  BY <1>1, <1>3, <2>1, FindsOK
<1>5. run' = [run EXCEPT ![o] = r] /\ UNCHANGED <<cluster, config, alone>>
  <2>1. r = [old EXCEPT !.live = Over(new, old.live), !.todo = todo]
      BY <1>1 DEF RunOK, Finds
  <2>2. o \in DOMAIN run
      BY DEF Inv
  <2> HIDE DEF new, r
  <2> QED  BY <2>1, <2>2 DEF Read, new
<1> HIDE DEF r
<1>6. ASSUME o \in alone PROVE Tracks(config, cluster, r)
  <2>1. ReadIsThere(config, cluster, old)
      BY <1>1, <1>6 DEF Inv, Tracks, RunOK
  <2>2. /\ DOMAIN r.live = DOMAIN new \cup DOMAIN old.live
        /\ \A id \in DOMAIN new : r.live[id] = new[id]
        /\ \A id \in DOMAIN old.live \ DOMAIN new : r.live[id] = old.live[id]
    <3> HIDE DEF new
    <3> QED  BY <1>4 DEF Over
  <2>3. \A id \in DOMAIN old.live : id.type # type
      BY <1>1 DEF RunOK
  <2> HIDE DEF new
  <2>4. ReadIsThere(config, cluster, r)
    <3> SUFFICES ASSUME NEW id \in DOMAIN cluster \cup DOMAIN r.live,
                        id.type \in TypesOf(config), id.type \notin r.todo \cup {"ism_policy"}
                 PROVE  /\ id \in DOMAIN r.live <=> id \in DOMAIN cluster /\ ~Hidden(id)
                        /\ id \in DOMAIN r.live =>
                              r.live[id] = FromReply(id.type, Shown(id.type, cluster[id]))
        BY DEF ReadIsThere
    <3>1. CASE id.type = type
        BY <1>2, <2>2, <2>3, <3>1
    <3>2. CASE id.type # type
      <4>1. id \notin DOMAIN new /\ id.type \notin old.todo \cup {"ism_policy"}
          BY <1>2, <1>4, <3>2
      <4> QED  BY <2>1, <2>2, <4>1 DEF ReadIsThere
    <3> QED  BY <3>1, <3>2
  <2> QED  BY <1>4, <2>4 DEF Tracks
<1> QED  BY <1>4, <1>5, <1>6, OneMoves

\* A page of policies is read.
LEMMA InvReadPage ==
    ASSUME Inv, NEW o \in Operator, ReadPage(o)
    PROVE  Inv'
<1> DEFINE old == run[o]
           new == DiscoverPage(cluster, old.from)
           todo == IF LastPage(cluster, old.from) THEN old.todo \ {"ism_policy"} ELSE old.todo
           from == old.from + Cardinality(Page(cluster, old.from))
           r == Finds(old, new, todo, from)
<1>1. /\ RunOK(config, old) /\ "ism_policy" \in old.todo /\ "ism_policy" \in TypesOf(config)
      /\ old.todo # {}
    BY DEF Inv, RunOK, ReadPage
<1>2. /\ DOMAIN new \subseteq DOMAIN cluster
      /\ \A id \in DOMAIN new : id.type = "ism_policy"
  <2>1. \A i \in Page(cluster, old.from) : Policy(Names[i]) \in DOMAIN cluster
      BY DEF Page, Listing
  <2>2. DOMAIN new = {Policy(Names[i]) : i \in Page(cluster, old.from)}
      BY DEF DiscoverPage, Found
  <2>3. \A n : Policy(n).type = "ism_policy"
      BY DEF Policy
  <2> HIDE DEF new, old
  <2> QED  BY <2>1, <2>2, <2>3
<1>3. DOMAIN new \subseteq Findable(config)
    BY <1>1, <1>2 DEF Findable, Inv, ValidCluster, Hidden
<1>4. todo \in SUBSET old.todo /\ old.todo \subseteq todo \cup {"ism_policy"}
    OBVIOUS
<1> HIDE DEF new, todo, from
<1>5. RunOK(config, r) /\ r.stage = "discover" /\ r.live = Over(new, old.live) /\ r.todo = todo
  <2> HIDE DEF old
  <2> QED  BY <1>1, <1>2, <1>3, <1>4, FindsOK
<1>6. run' = [run EXCEPT ![o] = r] /\ UNCHANGED <<cluster, config, alone>>
  <2>1. r = [old EXCEPT !.live = Over(new, old.live), !.from = from, !.todo = todo]
      BY <1>1 DEF RunOK, Finds
  <2>2. o \in DOMAIN run
      BY DEF Inv
  <2> HIDE DEF r
  <2> QED  BY <2>1, <2>2 DEF ReadPage, new, todo, from
<1> HIDE DEF r
<1>7. ASSUME o \in alone PROVE Tracks(config, cluster, r)
  <2>1. ReadIsThere(config, cluster, old)
      BY <1>1, <1>7 DEF Inv, Tracks, RunOK
  <2>2. /\ DOMAIN r.live = DOMAIN new \cup DOMAIN old.live
        /\ \A id \in DOMAIN old.live \ DOMAIN new : r.live[id] = old.live[id]
      BY <1>5 DEF Over
  <2>3. ReadIsThere(config, cluster, r)
    <3> SUFFICES ASSUME NEW id \in DOMAIN cluster \cup DOMAIN r.live,
                        id.type \in TypesOf(config), id.type \notin r.todo \cup {"ism_policy"}
                 PROVE  /\ id \in DOMAIN r.live <=> id \in DOMAIN cluster /\ ~Hidden(id)
                        /\ id \in DOMAIN r.live =>
                              r.live[id] = FromReply(id.type, Shown(id.type, cluster[id]))
        BY DEF ReadIsThere
    <3>1. id \notin DOMAIN new /\ id.type \notin old.todo \cup {"ism_policy"}
        BY <1>2, <1>4, <1>5
    <3> QED  BY <2>1, <2>2, <3>1 DEF ReadIsThere
  <2> QED  BY <1>5, <2>3 DEF Tracks
<1> QED  BY <1>5, <1>6, <1>7, OneMoves

-----------------------------------------------------------------------------
(* Planning, and the steps from layer to layer. *)

\* The goroutines of a layer.
LEMMA SpawnFacts ==
    ASSUME NEW c, NEW live, NEW layer \in SUBSET Planned(c, live)
    PROVE  /\ DOMAIN Spawn(layer) = Ids(layer)
           /\ \A id \in Ids(layer) :
                 /\ WorkOK(c, live, id, Spawn(layer)[id])
                 /\ Spawn(layer)[id].pc \in {"start", "done"}
                 /\ id \notin DOMAIN live => Spawn(layer)[id].pc # "done"
<1>1. DOMAIN Spawn(layer) = Ids(layer)
    BY DEF Spawn, Ids
<1>2. ASSUME NEW id \in Ids(layer)
      PROVE  /\ WorkOK(c, live, id, Spawn(layer)[id])
             /\ Spawn(layer)[id].pc \in {"start", "done"}
             /\ id \notin DOMAIN live => Spawn(layer)[id].pc # "done"
  <2> DEFINE ch == CHOOSE x \in layer : x.id = id
             w == [op |-> ch.type, cond |-> "none",
                   pc |-> IF ch.type = "noop" THEN "done" ELSE "start"]
  <2>1. ch \in layer /\ ch.id = id
      BY DEF Ids
  <2>2. Spawn(layer)[id] = w
      BY DEF Spawn, Ids
  <2> HIDE DEF ch
  <2>3. ch \in Planned(c, live) /\ ch = [id |-> id, type |-> ch.type] /\ ch.type \in Operation
      BY <2>1 DEF Planned, Foreseen
  <2>4. ch.type = "noop" => id \in DOMAIN live
      BY <2>1, <2>3 DEF Planned, Foreseen
  <2> DEFINE pc == IF ch.type = "noop" THEN "done" ELSE "start"
  <2>5. pc \in {"start", "done"} /\ (ch.type = "noop" <=> pc = "done")
      OBVIOUS
  <2> HIDE DEF pc
  <2>6. w.op = ch.type /\ w.cond = "none" /\ w.pc = pc
      BY DEF pc
  <2>7. w = [op |-> w.op, cond |-> w.cond, pc |-> w.pc]
      OBVIOUS
  <2> HIDE DEF w
  <2>8. WorkOK(c, live, id, w)
    <3>1. w \in [op : Operation, cond : {"none", "met", "unmet"},
                 pc : {"start", "fetch", "send", "done"}]
        BY <2>3, <2>5, <2>6, <2>7
    <3>2. [id |-> id, type |-> w.op] \in Planned(c, live)
        BY <2>3, <2>6
    <3> QED  BY <2>5, <2>6, <3>1, <3>2 DEF WorkOK
  <2> QED  BY <2>2, <2>4, <2>5, <2>6, <2>8
<1> QED  BY <1>1, <1>2

\* A run that goes on with some layers.
Applies(r, layers, dep) ==
    [r EXCEPT !.stage = "apply", !.layers = layers, !.work = Spawn(layers[1]), !.dep = dep]

\* It is a run that applies.
LEMMA AppliesOK ==
    ASSUME NEW c, NEW r, RunOK(c, r), r.todo = {},
           NEW layers \in Seq(SUBSET Planned(c, r.live)), layers # <<>>, RolesFirst(c, layers),
           NEW dep, DependsOnRoles(c, dep)
    PROVE  LET s == Applies(r, layers, dep)
           IN  /\ RunOK(c, s)
               /\ s.stage = "apply" /\ s.live = r.live /\ s.layers = layers /\ s.dep = dep
               /\ s.failed = r.failed /\ s.work = Spawn(layers[1])
<1> DEFINE work == Spawn(layers[1])
           s == Applies(r, layers, dep)
<1>1. s = [[[[r EXCEPT !.stage = "apply"] EXCEPT !.layers = layers] EXCEPT !.work = work]
              EXCEPT !.dep = dep]
    BY DEF Applies
<1>2. r = [stage |-> r.stage, todo |-> r.todo, from |-> r.from, live |-> r.live,
           layers |-> r.layers, work |-> r.work, dep |-> r.dep, failed |-> r.failed]
    BY DEF RunOK
<1>3. layers[1] \in SUBSET Planned(c, r.live)
    OBVIOUS
<1>4. /\ DOMAIN work = Ids(layers[1])
      /\ \A id \in DOMAIN work : WorkOK(c, r.live, id, work[id])
    BY <1>3, SpawnFacts
<1> HIDE DEF work, s
<1>5. s = [stage |-> "apply", todo |-> r.todo, from |-> r.from, live |-> r.live,
           layers |-> layers, work |-> work, dep |-> dep, failed |-> r.failed]
    BY <1>1, <1>2
<1>6. /\ s.stage = "apply" /\ s.todo = r.todo /\ s.live = r.live
      /\ s.layers = layers /\ s.dep = dep /\ s.failed = r.failed /\ s.work = work
      /\ s = [stage |-> s.stage, todo |-> s.todo, from |-> s.from, live |-> s.live,
              layers |-> s.layers, work |-> s.work, dep |-> s.dep, failed |-> s.failed]
    BY <1>5
<1>7. RunOK(c, s)
    BY <1>4, <1>6 DEF RunOK
<1> QED  BY <1>6, <1>7 DEF s, work

\* The guard sees of a mapping or user what would lock the caller out: what
\* Discover leaves out of a body is not set.
LEMMA LockoutIsShown ==
    ASSUME NEW id, NEW body, LocksOut(id, body)
    PROVE  LocksOut(id, FromReply(id.type, Shown(id.type, body)))
<1> DEFINE shown == Shown(id.type, body)
           reply == FromReply(id.type, shown)
<1>1. CASE id.type = "role_mapping"
  <2>1. DOMAIN body \subseteq DOMAIN shown /\ \A f \in DOMAIN body : shown[f] = body[f]
      BY DEF Shown, Over
  <2>2. reply = Without(shown, Metadata("role_mapping")
                    \cup {f \in Stripped("role_mapping") \cap DOMAIN shown : shown[f] = Unset})
      BY <1>1 DEF FromReply, Strip
  <2>3. Metadata("role_mapping") = {}
      BY DEF Metadata
  <2> HIDE DEF shown
  <2>4. \A f \in DOMAIN body : body[f] # Unset => f \in DOMAIN reply /\ reply[f] = body[f]
      BY <2>1, <2>2, <2>3 DEF Without, Fun!Restrict
  <2>5. \A f : Listed(body, f) # {} => f \in DOMAIN body /\ body[f] # Unset
    <3>1. DOMAIN Unset = {}
        BY DEF Unset
    <3> QED  BY <3>1 DEF Listed
  <2> HIDE DEF reply
  <2>6. \A f : Listed(body, f) # {} => Listed(reply, f) = Listed(body, f)
      BY <2>4, <2>5 DEF Listed
  <2> QED  BY <1>1, <2>6 DEF LocksOut, reply, shown
<1>2. CASE id.type # "role_mapping"
    BY <1>2 DEF LocksOut
<1> QED  BY <1>1, <1>2

\* A run that has read everything plans, or ends.
LEMMA InvPlan ==
    ASSUME Inv, NEW o \in Operator, Plan(o)
    PROVE  Inv'
<1> DEFINE old == run[o]
           live == run[o].live
           ordered == Ordered(live)
           r == Applies(old, ordered, DependencyGraph)
<1>1. RunOK(config, old) /\ old.stage = "discover" /\ old.todo = {} /\ UNCHANGED <<cluster, config, alone>>
    BY DEF Inv, Plan
<1>2. CASE ~Applicable(live)
  <2>1. run' = [run EXCEPT ![o] = NoRun]
      BY <1>2 DEF Plan
  <2> QED  BY <1>1, <2>1, NoRunOK, OneMoves
<1>3. CASE Applicable(live)
  <2>1. ~Cyclic /\ ~Refused(live) /\ Changes(live) # {}
      BY <1>3 DEF Applicable, NothingToDo
  <2>2. /\ ordered \in Seq(SUBSET Changes(live)) /\ ordered # <<>>
        /\ \A d \in Ids(Changes(live)) : \E i \in DOMAIN ordered : d \in Ids(ordered[i])
        /\ declared \ DOMAIN live \subseteq Ids(Changes(live))
        /\ RolesFirst(config, ordered)
      BY <2>1, LayersOfPlan
  <2>3. Changes(live) \subseteq Planned(config, live)
    <3>1. DOMAIN live \subseteq AnyID
        BY <1>1 DEF RunOK, Findable, ClusterID, AnyID
    <3> HIDE DEF live
    <3> QED  BY <2>1, <3>1, ChangesFacts DEF Inv
  <2> HIDE DEF ordered
  <2>4. ordered \in Seq(SUBSET Planned(config, live))
    <3>1. SUBSET Changes(live) \subseteq SUBSET Planned(config, live)
        BY <2>3
    <3>2. \A S, T : S \subseteq T => Seq(S) \subseteq Seq(T)
        OBVIOUS
    <3> HIDE DEF live
    <3> QED  BY <2>2, <3>1, <3>2
  <2>5. DependsOnRoles(config, DependencyGraph)
      BY GraphFacts, SameSort DEF DependsOnRoles, DependencyGraph, declared
  <2>6. run' = [run EXCEPT ![o] = r]
      BY <1>3 DEF Plan, Applies, ordered
  <2>7. /\ RunOK(config, r) /\ r.stage = "apply" /\ r.live = live /\ r.layers = ordered
        /\ r.work = Spawn(ordered[1])
    <3> HIDE DEF old, live
    <3> QED  BY <1>1, <2>2, <2>4, <2>5, AppliesOK DEF live, old
  <2> HIDE DEF r
  <2>8. ordered[1] \in SUBSET Planned(config, live)
    <3> HIDE DEF live
    <3> QED  BY <2>2, <2>4
  <2>9. ASSUME o \in alone PROVE Tracks(config, cluster, r)
    <3>1. ReadIsThere(config, cluster, old)
        BY <1>1, <2>9 DEF Inv, Tracks
    <3>2. RolesAccounted(config, cluster, r)
      <4> SUFFICES ASSUME NEW d \in declared, Named(d), d \notin DOMAIN cluster PROVE IsToCome(r, d)
          BY DEF RolesAccounted, declared
      <4>1. d \notin DOMAIN live
          BY <1>1, <3>1 DEF ReadIsThere, Named, TypesOf, declared
      <4>2. PICK i \in DOMAIN ordered : d \in Ids(ordered[i])
          BY <2>2, <4>1
      <4>3. i = 1 => r.work[d].pc # "done"
          BY <2>7, <2>8, <4>1, <4>2, SpawnFacts
      <4> QED  BY <2>7, <4>1, <4>2, <4>3 DEF IsToCome
    <3>3. MappingsReady(config, cluster, r)
      <4>1. \A m \in DOMAIN r.work : r.work[m].pc \in {"start", "done"}
          BY <2>7, <2>8, SpawnFacts
      <4> QED  BY <4>1 DEF MappingsReady
    <3> QED  BY <2>7, <3>2, <3>3 DEF Tracks
  <2> QED  BY <1>1, <2>6, <2>7, <2>9, OneMoves
<1> QED  BY <1>2, <1>3

\* A run goes on with its next layer.
LEMMA InvNextLayer ==
    ASSUME Inv, NEW o \in Operator, NextLayer(o)
    PROVE  Inv'
<1> DEFINE old == run[o]
           layers == Tail(old.layers)
           r == Applies(old, layers, old.dep)
<1>1. /\ RunOK(config, old) /\ old.stage = "apply" /\ Len(old.layers) > 1
      /\ \A id \in DOMAIN old.work : old.work[id].pc = "done"
      /\ UNCHANGED <<cluster, config, alone>>
    BY DEF Inv, NextLayer, LayerDone, Work
<1>2. old.todo = {} /\ DependsOnRoles(config, old.dep) /\ RolesFirst(config, old.layers)
      /\ old.layers \in Seq(SUBSET Planned(config, old.live)) /\ DOMAIN old.work = Ids(old.layers[1])
    BY <1>1 DEF RunOK
<1>3. /\ layers \in Seq(SUBSET Planned(config, old.live)) /\ Len(layers) = Len(old.layers) - 1
      /\ \A i \in DOMAIN layers : i + 1 \in DOMAIN old.layers /\ layers[i] = old.layers[i + 1]
      /\ \A i \in DOMAIN old.layers : i # 1 => i - 1 \in DOMAIN layers
      /\ 1 \in DOMAIN layers /\ layers[1] = old.layers[2]
  <2> HIDE DEF old
  <2> QED  BY <1>1, <1>2
<1>4. layers # <<>>
  <2>1. Len(<<>>) = 0
      OBVIOUS
  <2> HIDE DEF layers, old
  <2> QED  BY <1>1, <1>2, <1>3, <2>1
<1>5. RolesFirst(config, layers)
  <2> HIDE DEF layers, old
  <2> SUFFICES ASSUME NEW i \in DOMAIN layers, NEW j \in DOMAIN layers,
                      NEW m \in Ids(layers[i]), NEW d \in Ids(layers[j]),
                      {m, d} \subseteq DOMAIN config.body, m.type = "role_mapping", Named(d)
               PROVE  j < i
      BY DEF RolesFirst
  <2>1. i \in Nat /\ j \in Nat
      BY <1>3
  <2>2. j + 1 < i + 1
      BY <1>2, <1>3 DEF RolesFirst
  <2> QED  BY <2>1, <2>2
<1>6. run' = [run EXCEPT ![o] = r]
  <2>1. r = [old EXCEPT !.layers = layers, !.work = Spawn(layers[1])]
    <3> HIDE DEF layers
    <3> QED  BY <1>1 DEF Applies, RunOK
  <2>2. o \in DOMAIN run
      BY DEF Inv
  <2> HIDE DEF r
  <2> QED  BY <1>3, <2>1, <2>2 DEF NextLayer
<1>7. /\ RunOK(config, r) /\ r.stage = "apply" /\ r.live = old.live /\ r.layers = layers
      /\ r.dep = old.dep /\ r.failed = old.failed /\ r.work = Spawn(layers[1])
  <2> DEFINE dep == old.dep
  <2>1. RunOK(config, old) /\ old.todo = {} /\ DependsOnRoles(config, dep)
      BY <1>1, <1>2
  <2>2. layers \in Seq(SUBSET Planned(config, old.live))
      BY <1>3
  <2> HIDE DEF layers, old, dep
  <2> QED  BY <1>4, <1>5, <2>1, <2>2, AppliesOK DEF dep
<1> HIDE DEF layers, r
<1>8. layers[1] \in SUBSET Planned(config, old.live)
  <2> HIDE DEF old
  <2> QED  BY <1>3
<1>9. ASSUME o \in alone PROVE Tracks(config, cluster, r)
  <2>1. RolesAccounted(config, cluster, old)
      BY <1>1, <1>9 DEF Inv, Tracks
  <2>2. \A d : Blocked(old, d) => Blocked(r, d)
      BY <1>7 DEF Blocked
  <2>3. ASSUME NEW d, IsToCome(old, d) PROVE IsToCome(r, d)
    <3>1. PICK i \in DOMAIN old.layers : d \in Ids(old.layers[i]) /\ (i = 1 => old.work[d].pc # "done")
        BY <2>3 DEF IsToCome
    <3>2. i # 1
        BY <1>1, <1>2, <3>1
    <3>3. i - 1 \in DOMAIN layers /\ layers[i - 1] = old.layers[i]
      <4>1. i \in Nat
          BY <1>2
      <4> HIDE DEF old
      <4> QED  BY <1>3, <3>1, <3>2, <4>1
    <3>4. d \notin DOMAIN old.live
        BY <2>3 DEF IsToCome
    <3>5. i - 1 = 1 => r.work[d].pc # "done"
        BY <1>7, <1>8, <3>1, <3>3, <3>4, SpawnFacts
    <3> QED  BY <1>7, <3>1, <3>3, <3>4, <3>5 DEF IsToCome
  <2>4. RolesAccounted(config, cluster, r)
      BY <2>1, <2>2, <2>3 DEF RolesAccounted
  <2>5. MappingsReady(config, cluster, r)
    <3>1. \A m \in DOMAIN r.work : r.work[m].pc \in {"start", "done"}
        BY <1>7, <1>8, SpawnFacts
    <3> QED  BY <3>1 DEF MappingsReady
  <2> QED  BY <1>7, <2>4, <2>5 DEF Tracks
<1> QED  BY <1>1, <1>6, <1>7, <1>9, OneMoves

\* A run ends, or is ended.
LEMMA InvFinish ==
    ASSUME Inv, NEW o \in Operator, Finish(o) \/ Kill(o)
    PROVE  Inv'
<1>1. run' = [run EXCEPT ![o] = NoRun] /\ UNCHANGED <<cluster, config, alone>>
    BY DEF Finish, Kill
<1> QED  BY <1>1, NoRunOK, OneMoves

-----------------------------------------------------------------------------
(* The goroutines. *)

\* A goroutine moves on, with failures or without, and the cluster stays.
LEMMA MovedTracks ==
    ASSUME Inv, NEW o \in alone, NEW id \in DOMAIN run[o].work, NEW w, NEW F,
           run[o].failed \subseteq F,
           w.pc = "done" /\ run[o].work[id].pc # "done" => Blocked(Moved(run[o], id, w, F), id),
           id \in declared /\ id.type = "role_mapping" /\ w.pc \in {"fetch", "send"} =>
              AllRolesThere(config, cluster)
    PROVE  Tracks(config, cluster, Moved(run[o], id, w, F))
<1> DEFINE r == run[o]
           s == Moved(r, id, w, F)
<1>1. o \in Operator /\ RunOK(config, r) /\ r.stage = "apply" /\ Tracks(config, cluster, r)
    BY WorkFacts DEF Inv
<1>2. /\ s.stage = r.stage /\ s.live = r.live
      /\ s.layers = r.layers /\ s.dep = r.dep /\ s.failed = F
      /\ DOMAIN s.work = DOMAIN r.work /\ s.work[id] = w
      /\ \A x \in DOMAIN r.work \ {id} : s.work[x] = r.work[x]
    BY <1>1, MovedFields
<1> HIDE DEF s
<1>3. RolesAccounted(config, cluster, s)
  <2> SUFFICES ASSUME NEW d \in declared, Named(d), d \notin DOMAIN cluster
               PROVE  Blocked(s, d) \/ IsToCome(s, d)
      BY DEF RolesAccounted, declared
  <2>1. Blocked(r, d) \/ IsToCome(r, d)
      BY <1>1 DEF Tracks, RolesAccounted, declared
  <2>2. Blocked(r, d) => Blocked(s, d)
      BY <1>2 DEF Blocked
  <2>3. ASSUME IsToCome(r, d), ~Blocked(s, d) PROVE IsToCome(s, d)
    <3>1. PICK i \in DOMAIN r.layers : d \in Ids(r.layers[i]) /\ (i = 1 => r.work[d].pc # "done")
        BY <2>3 DEF IsToCome
    <3>2. i = 1 => d \in DOMAIN r.work
        BY <1>1, <3>1 DEF RunOK
    <3>3. i = 1 => s.work[d].pc # "done"
        BY <1>2, <2>3, <3>1, <3>2 DEF s
    <3> QED  BY <1>2, <2>3, <3>1, <3>3 DEF IsToCome
  <2> QED  BY <2>1, <2>2, <2>3
<1>4. MappingsReady(config, cluster, s)
    BY <1>1, <1>2 DEF Tracks, MappingsReady, declared
<1>5. Tracks(config, cluster, s)
    BY <1>1, <1>2, <1>3, <1>4 DEF Tracks
<1> QED  BY <1>5 DEF s

\* What the skip check finds upstream: a role that is blocked blocks the
\* mappings.
LEMMA BlockedAbove ==
    ASSUME NEW r, NEW m, NEW d, d \in DOMAIN r.dep, d \in r.dep[m], Blocked(r, d)
    PROVE  Upstream(r.dep, m) \cap r.failed # {}
<1>1. PICK x \in {d} \cup Upstream(r.dep, d) : x \in r.failed
    BY DEF Blocked
<1>2. x \in DOMAIN r.dep
    BY DEF Upstream
<1>3. ASSUME NEW S \in SUBSET DOMAIN r.dep, ClosedAbove(r.dep, m, S) PROVE x \in S
  <2>1. d \in S /\ ClosedAbove(r.dep, d, S)
      BY <1>3 DEF ClosedAbove
  <2> QED  BY <2>1 DEF Upstream
<1> QED  BY <1>1, <1>2, <1>3 DEF Upstream

\* A goroutine that gets to its request without a failure, its own or one
\* upstream.
LEMMA GoroutineMoves ==
    ASSUME Inv, NEW o \in Operator, NEW id \in DOMAIN run[o].work, NEW w, NEW F,
           WorkOK(config, run[o].live, id, w), run[o].failed \subseteq F,
           run' = [run EXCEPT ![o] = Moved(run[o], id, w, F)],
           UNCHANGED <<cluster, config, alone>>,
           w.pc = "done" /\ run[o].work[id].pc # "done" => Blocked(Moved(run[o], id, w, F), id),
           o \in alone /\ id \in declared /\ id.type = "role_mapping" /\ w.pc \in {"fetch", "send"} =>
              AllRolesThere(config, cluster)
    PROVE  Inv'
<1> DEFINE s == Moved(run[o], id, w, F)
<1>1. RunOK(config, s)
    BY WorkFacts, MovedOK
<1>2. o \in alone => Tracks(config, cluster, s)
    BY MovedTracks
<1> HIDE DEF s
<1>3. run' = [run EXCEPT ![o] = s]
    BY DEF s
<1> QED  BY <1>1, <1>2, <1>3, OneMoves

\* The skip check of a goroutine.
LEMMA InvStart ==
    ASSUME Inv, NEW o \in Operator, NEW id \in DOMAIN run[o].work, Start(o, id)
    PROVE  Inv'
<1> DEFINE r == run[o]
           p == IF ShouldSkip(o, id) THEN "done"
                ELSE IF NeedsFetch(Work(o, id).op, id) THEN "fetch" ELSE "send"
           w == [r.work[id] EXCEPT !.pc = p]
           s == Moved(r, id, w, r.failed)
<1>1. /\ RunOK(config, r) /\ r.stage = "apply" /\ WorkOK(config, r.live, id, r.work[id])
      /\ id \in Ids(r.layers[1]) /\ r.work[id].pc = "start"
      /\ UNCHANGED <<cluster, config, alone>>
    BY WorkFacts DEF Start, Work
<1>2. /\ p \in {"fetch", "send", "done"} /\ (p = "done" <=> ShouldSkip(o, id))
      /\ p = "fetch" => r.work[id].op = "update"
    BY DEF NeedsFetch, Work
<1>3. run' = [run EXCEPT ![o] = s]
  <2>1. s = [r EXCEPT !.work = [r.work EXCEPT ![id] = w]]
    <3> HIDE DEF w
    <3> QED  BY <1>1 DEF Moved, RunOK
  <2>2. o \in DOMAIN run
      BY DEF Inv
  <2> HIDE DEF s
  <2> QED  BY <2>1, <2>2 DEF Start
<1> HIDE DEF p
<1>4. w.pc = p /\ WorkOK(config, r.live, id, w)
    BY <1>1, <1>2 DEF WorkOK
<1> HIDE DEF w
<1>5. ASSUME p = "done" PROVE Blocked(s, id)
  <2>1. s.dep = r.dep /\ s.failed = r.failed
      BY <1>1, MovedFields
  <2> HIDE DEF s
  <2> QED  BY <1>2, <1>5, <2>1 DEF ShouldSkip, Blocked
<1>6. ASSUME o \in alone, id \in declared, id.type = "role_mapping", p # "done"
      PROVE  AllRolesThere(config, cluster)
  <2> SUFFICES ASSUME NEW d \in declared, Named(d), d \notin DOMAIN cluster PROVE FALSE
      BY DEF AllRolesThere, declared
  <2>1. d \in DOMAIN r.dep /\ d \in r.dep[id] /\ RolesFirst(config, r.layers)
      BY <1>1, <1>6 DEF RunOK, DependsOnRoles, declared
  <2>2. ~Blocked(r, d)
      BY <1>2, <1>6, <2>1, BlockedAbove DEF ShouldSkip
  <2>3. IsToCome(r, d)
      BY <1>1, <1>6, <2>2 DEF Inv, Tracks, RolesAccounted, declared
  <2>4. PICK i \in DOMAIN r.layers : d \in Ids(r.layers[i])
      BY <2>3 DEF IsToCome
  <2>5. r.layers \in Seq(SUBSET Planned(config, r.live)) /\ r.layers # <<>>
      BY <1>1 DEF RunOK
  <2>6. 1 \in DOMAIN r.layers /\ i \in Nat /\ i >= 1
    <3> HIDE DEF r
    <3> QED  BY <2>4, <2>5
  <2>7. i < 1
      BY <1>1, <1>6, <2>1, <2>4, <2>6 DEF RolesFirst, declared
  <2> QED  BY <2>6, <2>7
<1> QED  BY <1>1, <1>2, <1>3, <1>4, <1>5, <1>6, GoroutineMoves

\* A goroutine whose request has failed.
LEMMA InvFailing ==
    ASSUME Inv, NEW o \in Operator, NEW id \in DOMAIN run[o].work, Work(o, id).pc \in {"fetch", "send"},
           run' = Failing(o, id), UNCHANGED <<cluster, config, alone>>
    PROVE  Inv'
<1> DEFINE r == run[o]
           w == [r.work[id] EXCEPT !.pc = "done"]
           F == r.failed \cup {id}
           s == Moved(r, id, w, F)
<1>1. RunOK(config, r) /\ WorkOK(config, r.live, id, r.work[id])
    BY WorkFacts
<1>2. run' = [run EXCEPT ![o] = s]
    BY DEF Failing, Moved, Inv
<1>3. w.pc = "done" /\ WorkOK(config, r.live, id, w)
    BY <1>1 DEF WorkOK
<1> HIDE DEF w
<1>4. s.failed = F
    BY <1>1, MovedFields
<1>5. Blocked(s, id)
    BY <1>4 DEF Blocked
<1>6. r.failed \subseteq F
    OBVIOUS
<1> HIDE DEF F
<1> QED  BY <1>2, <1>3, <1>5, <1>6, GoroutineMoves

\* The GET of a policy.
LEMMA InvFetch ==
    ASSUME Inv, NEW o \in Operator, NEW id \in DOMAIN run[o].work, Fetch(o, id)
    PROVE  Inv'
<1>1. Work(o, id).pc = "fetch" /\ UNCHANGED <<cluster, config, alone>>
    BY DEF Fetch
<1>2. CASE run' = Failing(o, id)
    BY <1>1, <1>2, InvFailing
<1>3. CASE run' = [run EXCEPT ![o].work[id].pc = "send", ![o].work[id].cond = "met"]
  <2> DEFINE r == run[o]
             w == [r.work[id] EXCEPT !.pc = "send", !.cond = "met"]
             s == Moved(r, id, w, r.failed)
  <2>1. RunOK(config, r) /\ WorkOK(config, r.live, id, r.work[id]) /\ r.stage = "apply"
      BY WorkFacts
  <2>2. run' = [run EXCEPT ![o] = s]
    <3>1. s = [r EXCEPT !.work = [r.work EXCEPT ![id] = w]]
      <4> HIDE DEF w
      <4> QED  BY <2>1 DEF Moved, RunOK
    <3>2. o \in DOMAIN run
        BY DEF Inv
    <3> HIDE DEF s
    <3> QED  BY <1>3, <3>1, <3>2
  <2>3. w.pc = "send" /\ WorkOK(config, r.live, id, w)
      BY <1>1, <2>1 DEF WorkOK, Work
  <2> HIDE DEF w
  <2>4. o \in alone /\ id \in declared /\ id.type = "role_mapping" => AllRolesThere(config, cluster)
      BY <1>1, <2>1 DEF Inv, Tracks, MappingsReady, declared, Work
  <2> QED  BY <1>1, <2>2, <2>3, <2>4, GoroutineMoves
<1> QED  BY <1>2, <1>3 DEF Fetch, Fail

\* A request is carried out, and the run goes on or does not get the answer.
LEMMA InvWrite ==
    ASSUME Inv, NEW o \in Operator, NEW id \in DOMAIN run[o].work, Work(o, id).pc = "send",
           NEW F, run[o].failed \subseteq F,
           Write(RequestOf(o, id),
                 [run EXCEPT ![o] = Moved(run[o], id, [run[o].work[id] EXCEPT !.pc = "done"], F)], {o}),
           UNCHANGED config
    PROVE  Inv'
<1> DEFINE w == [run[o].work[id] EXCEPT !.pc = "done"]
           s == Moved(run[o], id, w, F)
           runs == [run EXCEPT ![o] = s]
           request == RequestOf(o, id)
<1>1. RunOK(config, run[o]) /\ WorkOK(config, run[o].live, id, run[o].work[id]) /\ id \in AnyID
    BY WorkFacts
<1>2. WorkOK(config, run[o].live, id, w)
    BY <1>1 DEF WorkOK
<1>3. cluster' = Effect(cluster, request)
    BY DEF Write
<1>4. request.id \in AnyID
    BY <1>1, <1>3, RequestEffect
<1>5. o \in alone => Tracks(config, cluster', s)
    BY <1>3, SentTracks
<1>6. RunOK(config, s)
  <2> HIDE DEF w
  <2> QED  BY <1>1, <1>2, MovedOK
<1> HIDE DEF request
<1>7. Write(request, runs, {o})
    BY DEF request
<1> HIDE DEF s
<1>8. /\ runs = [p \in Operator |-> runs[p]]
      /\ runs[o] = s /\ \A p \in Operator \ {o} : runs[p] = run[p]
    BY DEF Inv
<1> HIDE DEF runs
<1>9. \A p \in Operator : RunOK(config, runs[p])
    BY <1>6, <1>8 DEF Inv
<1>10. \A p \in alone : p \in {o} \/ cluster' = cluster => Tracks(config, cluster', runs[p])
    BY <1>5, <1>8 DEF Inv
<1> QED  BY <1>4, <1>7, <1>8, <1>9, <1>10, OneWrites

\* A request that the cluster executes keeps the invariant.
LEMMA InvSend ==
    ASSUME Inv, NEW o \in Operator, NEW id \in DOMAIN run[o].work, Send(o, id)
    PROVE  Inv'
<1> DEFINE r == run[o]
           w == [r.work[id] EXCEPT !.pc = "done"]
<1>1. [run EXCEPT ![o].work[id].pc = "done"] = [run EXCEPT ![o] = Moved(r, id, w, r.failed)]
  <2>1. Moved(r, id, w, r.failed) = [r EXCEPT !.work = [r.work EXCEPT ![id] = w]]
    <3> HIDE DEF w
    <3> QED  BY WorkFacts DEF Moved, RunOK
  <2> QED  BY <2>1
<1>2. Write(RequestOf(o, id), [run EXCEPT ![o] = Moved(r, id, w, r.failed)], {o})
      /\ Work(o, id).pc = "send" /\ UNCHANGED config
    BY <1>1 DEF Send
<1> QED  BY <1>2, InvWrite

\* A request is lost on its way, or its answer is.
LEMMA InvLost ==
    ASSUME Inv, NEW o \in Operator, NEW id \in DOMAIN run[o].work, Lost(o, id)
    PROVE  Inv'
<1> DEFINE r == run[o]
           w == [r.work[id] EXCEPT !.pc = "done"]
           F == r.failed \cup {id}
<1>1. Work(o, id).pc \in {"fetch", "send"} /\ UNCHANGED config
    BY DEF Lost
<1>2. CASE run' = Failing(o, id) /\ UNCHANGED <<cluster, alone>>
    BY <1>1, <1>2, InvFailing
<1>3. CASE Work(o, id).pc = "send" /\ Write(RequestOf(o, id), Failing(o, id), {o})
  <2>1. Failing(o, id) = [run EXCEPT ![o] = Moved(r, id, w, F)]
      BY DEF Failing, Moved, Inv
  <2>2. Write(RequestOf(o, id), [run EXCEPT ![o] = Moved(r, id, w, F)], {o})
      BY <1>3, <2>1
  <2>3. r.failed \subseteq F
      OBVIOUS
  <2> HIDE DEF F
  <2> QED  BY <1>1, <1>3, <2>2, <2>3, InvWrite
<1> QED  BY <1>2, <1>3 DEF Lost

\* Administrators write.
LEMMA InvMeddle ==
    ASSUME Inv, Meddle
    PROVE  Inv'
<1>1. PICK request \in Meddling : Write(request, run, {}) /\ cluster' # cluster
    BY DEF Meddle
<1>2. request.id \in AnyID /\ UNCHANGED config
    BY <1>1, ConfigsAssumption DEF Meddle, ClusterID, AnyID
<1> QED  BY <1>1, <1>2, OneWrites DEF Inv

\* Inv is inductive: one lemma an action.
LEMMA InvNext ==
    ASSUME Inv, [Next]_vars
    PROVE  Inv'
<1>1. CASE UNCHANGED vars
    BY <1>1 DEF vars, Inv
<1>2. ASSUME NEW o \in Operator, Run(o) PROVE Inv'
  <2>1. CASE Begin(o)
      BY <2>1, InvBegin
  <2>2. CASE \E type \in run[o].todo : Read(o, type)
      BY <2>2, InvRead
  <2>3. CASE ReadPage(o)
      BY <2>3, InvReadPage
  <2>4. CASE Plan(o)
      BY <2>4, InvPlan
  <2>5. ASSUME NEW id \in DOMAIN run[o].work, Apply(o, id) PROVE Inv'
    <3>1. CASE Start(o, id)
        BY <3>1, InvStart
    <3>2. CASE Fetch(o, id)
        BY <3>2, InvFetch
    <3>3. CASE Send(o, id)
        BY <3>3, InvSend
    <3>4. CASE Rejected(o, id)
        BY <3>4, InvFailing DEF Rejected, Fail
    <3> QED  BY <2>5, <3>1, <3>2, <3>3, <3>4 DEF Apply
  <2>6. CASE NextLayer(o)
      BY <2>6, InvNextLayer
  <2>7. CASE Finish(o)
      BY <2>7, InvFinish
  <2> QED  BY <1>2, <2>1, <2>2, <2>3, <2>4, <2>5, <2>6, <2>7 DEF Run
<1>3. CASE Environment
    BY <1>3, InvFinish, InvLost, InvMeddle DEF Environment
<1> QED  BY <1>1, <1>2, <1>3 DEF Next

\* Every run of every operator is as RunOK says, and a run that nobody else has
\* written during knows of the cluster what Tracks says, whatever is killed or
\* lost.
THEOREM Invariance == Spec => []Inv
BY InvInit, InvNext, PTL DEF Spec

-----------------------------------------------------------------------------
(* What a run writes. *)

\* Only the goroutine that has sent a request changes the cluster with it.
LEMMA WroteIsEffect ==
    ASSUME Inv, [Next]_vars, NEW o \in Operator, NEW id \in DOMAIN run[o].work, Wrote(o, id)
    PROVE  cluster' = Effect(cluster, RequestOf(o, id)) /\ UNCHANGED config
<1>1. cluster' # cluster /\ run[o].work[id].pc = "send" /\ run'[o].work[id].pc = "done"
    BY DEF Wrote, Work
<1>2. ASSUME NEW request, NEW runs, NEW writers, Write(request, runs, writers),
             RunOK(config, runs[o]), id \in DOMAIN runs[o].work, runs[o].work[id].pc # "done"
      PROVE  FALSE
  <2>1. run'[o] = Stale(runs[o], request.id)
      BY <1>2, OutdatedIsStale DEF Write
  <2>2. Alike(runs[o], run'[o])
      BY <1>2, <2>1, StaleIsAlike
  <2> QED  BY <1>1, <1>2, <2>2 DEF Alike
<1>3. ASSUME NEW p \in Operator, NEW x \in DOMAIN run[p].work, NEW F,
             Write(RequestOf(p, x),
                   [run EXCEPT ![p] = Moved(run[p], x, [run[p].work[x] EXCEPT !.pc = "done"], F)], {p})
      PROVE  p = o /\ x = id
  <2> DEFINE w == [run[p].work[x] EXCEPT !.pc = "done"]
             s == Moved(run[p], x, w, F)
             runs == [run EXCEPT ![p] = s]
             request == RequestOf(p, x)
  <2> SUFFICES ASSUME ~(p = o /\ x = id) PROVE FALSE
      OBVIOUS
  <2>1. RunOK(config, run[p]) /\ WorkOK(config, run[p].live, x, run[p].work[x])
      BY WorkFacts
  <2>2. WorkOK(config, run[p].live, x, w)
      BY <2>1 DEF WorkOK
  <2>3. RunOK(config, s) /\ \A y \in DOMAIN run[p].work \ {x} : s.work[y] = run[p].work[y]
    <3> HIDE DEF w
    <3> QED  BY <2>1, <2>2, MovedOK, MovedFields
  <2>4. DOMAIN s.work = DOMAIN run[p].work
    <3> HIDE DEF w
    <3> QED  BY <2>1, MovedFields
  <2> HIDE DEF s, request
  <2>5. runs[o] = (IF p = o THEN s ELSE run[o]) /\ RunOK(config, run[o])
      BY DEF Inv
  <2>6. Write(request, runs, {p})
      BY <1>3 DEF s, request
  <2> HIDE DEF runs
  <2>7. id \in DOMAIN runs[o].work /\ runs[o].work[id].pc = run[o].work[id].pc /\ RunOK(config, runs[o])
      BY <2>3, <2>4, <2>5
  <2> QED  BY <1>1, <1>2, <2>6, <2>7
<1>4. ASSUME NEW p \in Operator, NEW x \in DOMAIN run[p].work, Send(p, x)
      PROVE  cluster' = Effect(cluster, RequestOf(o, id)) /\ UNCHANGED config
  <2>1. [run EXCEPT ![p].work[x].pc = "done"]
        = [run EXCEPT ![p] = Moved(run[p], x, [run[p].work[x] EXCEPT !.pc = "done"], run[p].failed)]
    <3> DEFINE w == [run[p].work[x] EXCEPT !.pc = "done"]
    <3>1. Moved(run[p], x, w, run[p].failed) = [run[p] EXCEPT !.work = [run[p].work EXCEPT ![x] = w]]
      <4> HIDE DEF w
      <4> QED  BY WorkFacts DEF Moved, RunOK
    <3> QED  BY <3>1
  <2>2. p = o /\ x = id
      BY <1>3, <1>4, <2>1 DEF Send
  <2> QED  BY <1>4, <2>2 DEF Send, Write
<1>5. ASSUME NEW p \in Operator, NEW x \in DOMAIN run[p].work, Lost(p, x)
      PROVE  cluster' = Effect(cluster, RequestOf(o, id)) /\ UNCHANGED config
  <2>1. Failing(p, x) = [run EXCEPT ![p] =
            Moved(run[p], x, [run[p].work[x] EXCEPT !.pc = "done"], run[p].failed \cup {x})]
      BY DEF Failing, Moved, Inv
  <2>2. Write(RequestOf(p, x), Failing(p, x), {p}) /\ UNCHANGED config
      BY <1>1, <1>5 DEF Lost
  <2>3. p = o /\ x = id
      BY <1>3, <2>1, <2>2
  <2> QED  BY <2>2, <2>3 DEF Write
<1>6. ~Meddle
  <2> SUFFICES ASSUME Meddle PROVE FALSE
      OBVIOUS
  <2>1. PICK request \in Meddling : Write(request, run, {})
      BY DEF Meddle
  <2> QED  BY <1>1, <1>2, <2>1 DEF Inv
<1>7. ASSUME NEW p \in Operator, NEW x \in DOMAIN run[p].work, Apply(p, x), ~Send(p, x)
      PROVE  FALSE
    BY <1>1, <1>7 DEF Apply, Start, Fetch, Rejected
<1>8. ASSUME NEW p \in Operator, \/ Begin(p) \/ \E type \in run[p].todo : Read(p, type)
                                 \/ ReadPage(p) \/ Plan(p) \/ NextLayer(p) \/ Finish(p) \/ Kill(p)
      PROVE  FALSE
    BY <1>1, <1>8 DEF Begin, Read, ReadPage, Plan, NextLayer, Finish, Kill
<1> QED  BY <1>1, <1>4, <1>5, <1>6, <1>7, <1>8 DEF Next, Run, Environment, vars

\* The singleton is declared under its own label, if at all.
SettingsNamed == \A c \in Configs : \A d \in DOMAIN c.body : d.type = "cluster_settings" => d = SettingsID

\* Then it is never deleted: it is looked for only where it is declared.
LEMMA SettingsAreDeclared ==
    ASSUME SettingsNamed, Inv, NEW o \in Operator, NEW id \in DOMAIN run[o].work,
           id.type = "cluster_settings"
    PROVE  id = SettingsID /\ id \in declared
<1>1. id \in declared
  <2> SUFFICES ASSUME id \notin declared PROVE FALSE
      OBVIOUS
  <2>1. id \in Findable(config)
      BY WorkFacts DEF RunOK
  <2>2. id = SettingsID /\ \E d \in declared : d.type = "cluster_settings"
      BY <2>1 DEF Findable, ClusterID, TypesOf, declared
  <2> QED  BY <2>2 DEF SettingsNamed, Inv, declared
<1> QED  BY <1>1 DEF SettingsNamed, Inv, declared

\* One step of LeavesRest.
LEMMA StepLeavesRest ==
    ASSUME SettingsNamed, Inv, [Next]_vars, RunWrote, NEW x \in ResourceID \ declared,
           ~Same(x, cluster, cluster')
    PROVE  config.prune /\ ~Hidden(x) /\ x \notin DOMAIN cluster'
<1>1. PICK o \in Operator : \E id \in DOMAIN run[o].work : Wrote(o, id)
    BY DEF RunWrote
<1>2. PICK id \in DOMAIN run[o].work : Wrote(o, id)
    BY <1>1
<1>3. cluster' = Effect(cluster, RequestOf(o, id))
    BY <1>2, WroteIsEffect
<1>4. RequestOf(o, id).id = id /\ id \in AnyID
    BY <1>3, RequestEffect, WorkFacts
<1>5. x = id
  <2>1. x \in Touched(RequestOf(o, id))
      BY <1>3, <1>4, EffectTouches DEF Inv
  <2> QED  BY <1>4, <2>1, SettingsAreDeclared DEF Touched
<1>6. id.type # "cluster_settings"
    BY <1>5, SettingsAreDeclared
<1>7. config.prune /\ id \in Findable(config)
    BY <1>5, WorkFacts DEF RunOK
<1> QED  BY <1>3, <1>5, <1>6, <1>7, RequestEffect DEF Findable

\* LeavesRest of OpenSearchRuns: what no resource declares is changed by no
\* request of a run but a delete, of a resource that is not hidden, with --prune.
THEOREM LeavesRestHolds == SettingsNamed /\ Spec => LeavesRest
<1> SUFFICES ASSUME SettingsNamed PROVE Spec => LeavesRest
    OBVIOUS
<1>1. Inv /\ [Next]_vars =>
        [RunWrote => \A id \in ResourceID \ declared :
            ~Same(id, cluster, cluster') => config.prune /\ ~Hidden(id) /\ id \notin DOMAIN cluster']_vars
    BY StepLeavesRest
<1> QED  BY <1>1, InvInit, InvNext, PTL DEF Spec, LeavesRest

\* What a PUT of settings makes of one of them.
LEMMA SettingPut ==
    ASSUME NEW cl, ValidCluster(cl), NEW body, NEW k \in DOMAIN body, NEW r,
           r.verb = "PUT", r.id.type = "cluster_settings", r.body = body
    PROVE  Setting(Effect(cl, r), k) = body[k]
<1> DEFINE before == IF SettingsID \in DOMAIN cl THEN cl[SettingsID] ELSE <<>>
           merged == Over(body, before)
           after == MergedSettings(cl, body)
<1>1. k \in DOMAIN merged /\ merged[k] = body[k]
    BY DEF Over
<1>2. after = Without(merged, {f \in DOMAIN merged : merged[f] = Unset})
    BY DEF MergedSettings
<1> HIDE DEF merged
<1>3. k \in DOMAIN after <=> body[k] # Unset
    BY <1>1, <1>2 DEF Without, Fun!Restrict
<1>4. k \in DOMAIN after => after[k] = body[k]
    BY <1>1, <1>2 DEF Without, Fun!Restrict
<1> HIDE DEF after
<1>5. Settings(Effect(cl, r)) = after
  <2>1. Effect(cl, r) = IF after = <<>> THEN Without(cl, {SettingsID}) ELSE With(cl, SettingsID, after)
      BY DEF Effect, after
  <2>2. CASE after = <<>>
    <3>1. SettingsID \notin DOMAIN Effect(cl, r)
        BY <2>1, <2>2 DEF Without, Fun!Restrict
    <3> QED  BY <2>2, <3>1 DEF Settings
  <2>3. CASE after # <<>>
    <3>1. Effect(cl, r) = With(cl, SettingsID, after)
        BY <2>1, <2>3
    <3>2. SettingsID \in DOMAIN Effect(cl, r) /\ Effect(cl, r)[SettingsID] = after
        BY <3>1 DEF With, Over
    <3> QED  BY <3>2 DEF Settings
  <2> QED  BY <2>2, <2>3
<1> QED  BY <1>3, <1>4, <1>5 DEF Setting

\* One step of TowardsDeclared.
LEMMA StepTowardsDeclared ==
    ASSUME SettingsNamed, Inv, [Next]_vars, RunWrote
    PROVE  /\ \A x \in declared \ DeclaredSettings :
                 ~Same(x, cluster, cluster') =>
                     /\ x \in DOMAIN cluster'
                     /\ \A f \in DOMAIN Desired(x) \cap DOMAIN cluster'[x] :
                           cluster'[x][f] = Desired(x)[f]
           /\ \A d \in DeclaredSettings : \A k \in DOMAIN config.body[d] :
                 Setting(cluster', k) \in {Setting(cluster, k), config.body[d][k]}
<1>1. PICK o \in Operator : \E id \in DOMAIN run[o].work : Wrote(o, id)
    BY DEF RunWrote
<1>2. PICK id \in DOMAIN run[o].work : Wrote(o, id)
    BY <1>1
<1>3. cluster' = Effect(cluster, RequestOf(o, id))
    BY <1>2, WroteIsEffect
<1>4. ASSUME NEW x \in declared \ DeclaredSettings, ~Same(x, cluster, cluster')
      PROVE  /\ x \in DOMAIN cluster'
             /\ \A f \in DOMAIN Desired(x) \cap DOMAIN cluster'[x] : cluster'[x][f] = Desired(x)[f]
  <2>1. x.type # "cluster_settings"
      BY DEF DeclaredSettings
  <2>2. x = id
      BY <1>3, <1>4, <2>1, RequestEffect
  <2>3. x \in DOMAIN cluster' /\ cluster'[x] = Stored(x.type, Desired(x))
      BY <1>3, <2>1, <2>2, RequestEffect
  <2>4. \A f \in DOMAIN Desired(x) \cap DOMAIN Stored(x.type, Desired(x)) :
            Stored(x.type, Desired(x))[f] = Desired(x)[f]
      BY DEF Stored, Without, Fun!Restrict
  <2> QED  BY <2>3, <2>4
<1>5. ASSUME NEW d \in DeclaredSettings, NEW k \in DOMAIN config.body[d]
      PROVE  Setting(cluster', k) \in {Setting(cluster, k), config.body[d][k]}
  <2>1. d = SettingsID /\ d \in declared /\ d.type = "cluster_settings"
      BY DEF DeclaredSettings, SettingsNamed, Inv, declared
  <2>2. CASE id.type # "cluster_settings"
    <3>1. RequestOf(o, id).id = id /\ id \in AnyID
        BY <1>3, RequestEffect, WorkFacts
    <3>2. Same(SettingsID, cluster, cluster')
        BY <1>3, <2>1, <2>2, <3>1, EffectTouches DEF Inv, Touched
    <3>3. Settings(cluster') = Settings(cluster)
        BY <3>2 DEF Same, Settings
    <3> QED  BY <3>3 DEF Setting
  <2>3. CASE id.type = "cluster_settings"
    <3>1. id = d /\ id \in declared
        BY <2>1, <2>3, SettingsAreDeclared
    <3> DEFINE body == Desired(d)
               r == RequestOf(o, id)
    <3>2. r.verb = "PUT" /\ r.id = id /\ r.body = body
        BY <2>3, <3>1, WorkFacts DEF RequestOf, Request, PutSettings, Put, Payload, Work
    <3>3. k \in DOMAIN body /\ body[k] = config.body[d][k]
      <4>1. Sorted("cluster_settings") = {} /\ Metadata("cluster_settings") = {}
            /\ Stripped("cluster_settings") = {}
          BY DEF Sorted, Metadata, Stripped
      <4> QED  BY <2>1, <4>1 DEF Desired, Normalize, Strip, Without, Fun!Restrict
    <3> HIDE DEF body, r
    <3>4. Setting(Effect(cluster, r), k) = body[k]
        BY <2>3, <3>2, <3>3, SettingPut DEF Inv
    <3> QED  BY <1>3, <3>3, <3>4 DEF r
  <2> QED  BY <2>2, <2>3
<1> QED  BY <1>4, <1>5

\* TowardsDeclared of OpenSearchRuns: whatever a run writes to a declared
\* resource, the fields it writes are then as declared, and a setting is either
\* as it was or as declared; no interleaving of two operators makes it anything else.
THEOREM TowardsDeclaredHolds == SettingsNamed /\ Spec => TowardsDeclared
<1> SUFFICES ASSUME SettingsNamed PROVE Spec => TowardsDeclared
    OBVIOUS
<1>1. Inv /\ [Next]_vars =>
        [RunWrote =>
            /\ \A id \in declared \ DeclaredSettings :
                  ~Same(id, cluster, cluster') =>
                      /\ id \in DOMAIN cluster'
                      /\ \A f \in DOMAIN Desired(id) \cap DOMAIN cluster'[id] :
                            cluster'[id][f] = Desired(id)[f]
            /\ \A d \in DeclaredSettings : \A k \in DOMAIN config.body[d] :
                  Setting(cluster', k) \in {Setting(cluster, k), config.body[d][k]}]_vars
    BY StepTowardsDeclared
<1> QED  BY <1>1, InvInit, InvNext, PTL DEF Spec, TowardsDeclared

\* MappingsFollowRoles of OpenSearchRuns: a run that nobody else has written
\* during writes a declared mapping only when all declared roles and users are
\* there, although the layers know of types only and failures skip changes.
THEOREM MappingsFollowRolesHolds == Spec => MappingsFollowRoles
<1>1. Inv => [\A o \in alone : \A id \in DOMAIN run[o].work :
                 Wrote(o, id) /\ id.type = "role_mapping" /\ id \in declared =>
                     \A d \in declared : d.type \in {"role", "internal_user"} => d \in DOMAIN cluster]_vars
  <2> SUFFICES ASSUME Inv, NEW o \in alone, NEW id \in DOMAIN run[o].work,
                      Wrote(o, id), id.type = "role_mapping", id \in declared,
                      NEW d \in declared, d.type \in {"role", "internal_user"}
               PROVE  d \in DOMAIN cluster
      OBVIOUS
  <2>1. o \in Operator /\ run[o].stage = "apply"
      BY WorkFacts DEF Inv
  <2> QED  BY <2>1 DEF Inv, Tracks, MappingsReady, AllRolesThere, Named, Wrote, Work, declared
<1> QED  BY <1>1, InvInit, InvNext, PTL DEF Spec, MappingsFollowRoles

\* No mapping gives the caller its role by backend roles that it needs
\* together: the one way of mapping that the guard does not look at.
NotTogether ==
    \A id \in DOMAIN cluster :
        id.type = "role_mapping" =>
            LET together == Listed(cluster[id], "and_backend_roles")
            IN  together = {} \/ ~(together \subseteq CallerRoles)

\* A mapping the caller has its role by locks it out, and of what is still as
\* it was found the guard has seen that.
LEMMA MapsAndLocksOut ==
    ASSUME NEW id \in DOMAIN cluster, NotTogether, id.type = "role_mapping", MapsCaller(cluster[id])
    PROVE  LocksOut(id, FromReply(id.type, Shown(id.type, cluster[id])))
<1>1. LocksOut(id, cluster[id])
    BY DEF LocksOut, MapsCaller, NotTogether
<1> QED  BY <1>1, LockoutIsShown

\* One step of DeletesSpareCaller.
LEMMA StepDeletesSpareCaller ==
    ASSUME Inv, NotTogether, [Next]_vars, NEW o \in Operator, NEW id \in DOMAIN run[o].work,
           Wrote(o, id), Work(o, id).op = "delete", ~config.allow
    PROVE  /\ id.type = "role_mapping" /\ IsAsFound(o, id) => ~MapsCaller(cluster[id])
           /\ id.type = "internal_user" => id.name # CallerAccount
<1>1. RunOK(config, run[o]) /\ WorkOK(config, run[o].live, id, run[o].work[id]) /\ id \notin declared
    BY WorkFacts DEF Work
<1>2. ~LocksOut(id, run[o].live[id])
    BY <1>1 DEF WorkOK, Planned, Work
<1>3. id.type = "internal_user" => id.name # CallerAccount
    BY <1>2 DEF LocksOut
<1>4. ASSUME id.type = "role_mapping", IsAsFound(o, id), MapsCaller(cluster[id]) PROVE FALSE
  <2>1. cluster' = Effect(cluster, RequestOf(o, id)) /\ cluster' # cluster
      BY WroteIsEffect DEF Wrote
  <2>2. id \in DOMAIN cluster
      BY <1>1, <1>4, <2>1, RequestEffect, DeleteOfNothing DEF Inv
  <2>3. LocksOut(id, FromReply(id.type, Shown(id.type, cluster[id])))
      BY <1>4, <2>2, MapsAndLocksOut
  <2> QED  BY <1>2, <1>4, <2>3 DEF IsAsFound
<1> QED  BY <1>3, <1>4

\* DeletesSpareCaller of OpenSearchRuns: without --allow-self-lockout no delete
\* takes from the caller its account, nor a mapping that gives it its role and
\* is as the run has found it, however long ago and whatever others have
\* written since, unless a mapping gives it by backend roles needed together.
THEOREM DeletesSpareCallerHolds == Spec /\ []NotTogether => DeletesSpareCaller
<1>1. Inv /\ NotTogether /\ [Next]_vars =>
        [\A o \in Operator : \A id \in DOMAIN run[o].work :
            Wrote(o, id) /\ Work(o, id).op = "delete" /\ ~config.allow =>
                /\ id.type = "role_mapping" /\ IsAsFound(o, id) => ~MapsCaller(cluster[id])
                /\ id.type = "internal_user" => id.name # CallerAccount]_vars
    BY StepDeletesSpareCaller
<1> QED  BY <1>1, InvInit, InvNext, PTL DEF Spec, DeletesSpareCaller

\* A delete that the cluster has an answer for succeeds: what is not there is
\* gone already, and what the cluster would protect is never found.
LEMMA DeleteSucceeds ==
    ASSUME Inv, NEW o \in Operator, NEW id \in DOMAIN run[o].work, id \notin declared
    PROVE  Succeeds(cluster, RequestOf(o, id))
<1> DEFINE r == RequestOf(o, id)
<1>1. /\ Work(o, id).op = "delete" /\ id \in DOMAIN run[o].live
      /\ DOMAIN run[o].live \subseteq Findable(config)
    BY WorkFacts DEF Work, RunOK
<1>2. ~Hidden(id)
    BY <1>1 DEF Findable
<1>3. r.id = id /\ (IF id.type = "cluster_settings" THEN r.verb = "PUT" ELSE r.verb = "DELETE")
    BY <1>1 DEF RequestOf, Request, PutSettings, Put, Delete
<1> HIDE DEF r
<1>4. id \in System => id.type \notin {"role", "role_mapping", "internal_user"}
    BY <1>2 DEF Hidden
<1> QED  BY <1>3, <1>4 DEF Succeeds, Accepted, r

\* Failures that a goroutine adds.
LEMMA GoroutineFails ==
    ASSUME Inv, NEW p \in Operator, NEW id \in DOMAIN run[p].work, Apply(p, id), NEW o \in Operator
    PROVE  run'[o].failed \ run[o].failed \subseteq declared
<1>1. /\ run = [x \in Operator |-> run[x]] /\ RunOK(config, run[p])
      /\ run[p] = [run[p] EXCEPT !.failed = run[p].failed]
    BY DEF Inv, RunOK
<1>2. CASE Start(p, id)
    BY <1>1, <1>2 DEF Start
<1>3. CASE Send(p, id)
  <2> DEFINE runs == [run EXCEPT ![p].work[id].pc = "done"]
  <2>1. runs[o].failed = run[o].failed
      BY <1>1
  <2>2. run' = Outdated(runs, RequestOf(p, id).id)
      BY <1>3 DEF Send, Write
  <2> HIDE DEF runs
  <2>3. run'[o] = Stale(runs[o], RequestOf(p, id).id)
      BY <2>2, OutdatedIsStale
  <2> QED  BY <2>1, <2>3 DEF Stale
<1>4. ASSUME run' = Failing(p, id), id \in declared
      PROVE  run'[o].failed \subseteq run[o].failed \cup {id}
    BY <1>1, <1>4 DEF Failing
<1>5. CASE Fetch(p, id)
  <2>1. id \in declared
      BY <1>5, WorkFacts DEF Fetch, WorkOK, Work
  <2>2. CASE run' = [run EXCEPT ![p].work[id].pc = "send", ![p].work[id].cond = "met"]
      BY <1>1, <2>2
  <2> QED  BY <1>4, <1>5, <2>1, <2>2 DEF Fetch, Fail
<1>6. CASE Rejected(p, id)
  <2>1. id \in declared
      BY <1>6, DeleteSucceeds DEF Rejected
  <2> QED  BY <1>4, <1>6, <2>1 DEF Rejected, Fail
<1> QED  BY <1>2, <1>3, <1>5, <1>6 DEF Apply

\* Failures that a step without a fault adds.
LEMMA StepFails ==
    ASSUME Inv, faults \in Nat, [Next]_vars, faults' = faults, NEW o \in Operator
    PROVE  run'[o].failed \ run[o].failed \subseteq declared
<1>1. CASE UNCHANGED vars
    BY <1>1 DEF vars
<1>2. CASE Environment
  <2>1. Fault
      BY <1>2 DEF Environment, Kill, Lost, Meddle
  <2> QED  BY <2>1 DEF Fault
<1>3. ASSUME NEW p \in Operator, Run(p) PROVE run'[o].failed \subseteq run[o].failed \cup declared
  <2>1. /\ run = [x \in Operator |-> run[x]] /\ RunOK(config, run[p])
        /\ NoRun.failed = {}
      BY DEF Inv, NoRun
  <2>2. ASSUME NEW r, run' = [run EXCEPT ![p] = r], r.failed \in {{}, run[p].failed}
        PROVE  run'[o].failed \subseteq run[o].failed
      BY <2>1, <2>2
  <2>3. CASE Begin(p)
    <3> DEFINE r == [NoRun EXCEPT !.stage = "discover", !.todo = DeclaredTypes]
    <3>1. r.failed = {}
        BY <2>1 DEF NoRun
    <3>2. run' = [run EXCEPT ![p] = r]
        BY <2>3 DEF Begin
    <3> HIDE DEF r
    <3> QED  BY <2>2, <3>1, <3>2
  <2>4. CASE Plan(p) \/ Finish(p)
    <3>1. CASE run' = [run EXCEPT ![p] = NoRun]
        BY <2>1, <2>2, <3>1
    <3>2. CASE Plan(p) /\ run' # [run EXCEPT ![p] = NoRun]
      <4> DEFINE layers == Ordered(run[p].live)
      <4>1. run' = [run EXCEPT ![p] = Applies(run[p], layers, DependencyGraph)]
          BY <2>1, <3>2 DEF Plan, Applies
      <4> HIDE DEF layers
      <4>2. Applies(run[p], layers, DependencyGraph).failed = run[p].failed
          BY <2>1 DEF Applies, RunOK
      <4> QED  BY <2>2, <4>1, <4>2
    <3> QED  BY <2>4, <3>1, <3>2 DEF Finish
  <2> DEFINE old == run[p]
  <2>5. ASSUME NEW type \in old.todo, Read(p, type) PROVE run'[o].failed \subseteq run[o].failed
    <3> DEFINE live == Over(Discover(cluster, type), old.live)
               todo == old.todo \ {type}
               r == [old EXCEPT !.live = live, !.todo = todo]
    <3>1. run' = [run EXCEPT ![p] = r]
        BY <2>1, <2>5 DEF Read
    <3> HIDE DEF live, todo
    <3>2. r.failed = old.failed
        BY <2>1 DEF RunOK
    <3> HIDE DEF r
    <3> QED  BY <2>2, <3>1, <3>2
  <2>6. CASE ReadPage(p)
    <3> DEFINE live == Over(DiscoverPage(cluster, old.from), old.live)
               from == old.from + Cardinality(Page(cluster, old.from))
               todo == IF LastPage(cluster, old.from) THEN old.todo \ {"ism_policy"} ELSE old.todo
               r == [old EXCEPT !.live = live, !.from = from, !.todo = todo]
    <3>1. run' = [run EXCEPT ![p] = r]
        BY <2>1, <2>6 DEF ReadPage
    <3> HIDE DEF live, from, todo
    <3>2. r.failed = old.failed
        BY <2>1 DEF RunOK
    <3> HIDE DEF r
    <3> QED  BY <2>2, <3>1, <3>2
  <2>7. CASE NextLayer(p)
    <3> DEFINE layers == Tail(old.layers)
               work == Spawn(old.layers[2])
               r == [old EXCEPT !.layers = layers, !.work = work]
    <3>1. run' = [run EXCEPT ![p] = r]
        BY <2>1, <2>7 DEF NextLayer
    <3> HIDE DEF layers, work
    <3>2. r.failed = old.failed
        BY <2>1 DEF RunOK
    <3> HIDE DEF r
    <3> QED  BY <2>2, <3>1, <3>2
  <2>8. ASSUME NEW id \in DOMAIN run[p].work, Apply(p, id)
        PROVE  run'[o].failed \subseteq run[o].failed \cup declared
      BY <2>8, GoroutineFails
  <2> QED  BY <1>3, <2>3, <2>4, <2>5, <2>8, <2>6, <2>7 DEF Run
<1> QED  BY <1>1, <1>2, <1>3 DEF Next

\* Faults are counted.
LEMMA FaultsCounted ==
    ASSUME faults \in Nat, [Next]_vars
    PROVE  faults' \in Nat
<1>1. faults' \in {faults, faults + 1}
    BY DEF Next, Run, Environment, Begin, Read, ReadPage, Plan, Apply, Start, Fetch, Send,
           Rejected, NextLayer, Finish, Lost, Kill, Meddle, Fault, vars
<1> QED  BY <1>1

\* DeletesNeverFail of OpenSearchRuns: whatever order the runs of the operators
\* delete in, and whoever else has deleted, a change that fails without a fault
\* is one of a declared resource: what is gone is taken for deleted, and what
\* the cluster protects is not found.
THEOREM DeletesNeverFailHolds == Spec => DeletesNeverFail
<1>1. Init => faults \in Nat
    BY DEF Init
<1>2. faults \in Nat /\ [Next]_vars => (faults \in Nat)'
    BY FaultsCounted
<1>3. Inv /\ faults \in Nat /\ [Next]_vars =>
        [faults' = faults =>
            \A o \in Operator : run'[o].failed \ run[o].failed \subseteq declared]_vars
    BY StepFails
<1> QED  BY <1>1, <1>2, <1>3, InvInit, InvNext, PTL DEF Spec, DeletesNeverFail

-----------------------------------------------------------------------------
(* Places in a listing and in a sorted list. *)

\* The elements of a finite set of which each has those before it counted, itself
\* among them, are numbered from 1 on without a gap, if of any two one is
\* before the other.
LEMMA Ranking ==
    ASSUME NEW S, IsFiniteSet(S), NEW below \in [S -> SUBSET S],
           \A x \in S : x \in below[x],
           \A x, y \in S : x # y =>
              below[x] \subseteq below[y] \ {y} \/ below[y] \subseteq below[x] \ {x}
    PROVE  /\ Cardinality(S) \in Nat
           /\ \A x \in S : Cardinality(below[x]) \in 1 .. Cardinality(S)
           /\ \A x, y \in S : Cardinality(below[x]) <= Cardinality(below[y]) => below[x] \subseteq below[y]
           /\ \A x, y \in S : Cardinality(below[x]) = Cardinality(below[y]) => x = y
           /\ \A n \in 1 .. Cardinality(S) : \E x \in S : Cardinality(below[x]) = n
<1> DEFINE n == Cardinality(S)
           f == [x \in S |-> Cardinality(below[x])]
<1>1. n \in Nat
    BY FS_CardinalityType
<1>2. ASSUME NEW x \in S PROVE IsFiniteSet(below[x]) /\ Cardinality(below[x]) \in 1 .. n
  <2>1. below[x] \in SUBSET S
      OBVIOUS
  <2>2. IsFiniteSet(below[x]) /\ Cardinality(below[x]) <= n
      BY <2>1, FS_Subset
  <2>3. Cardinality(below[x]) \in Nat /\ Cardinality(below[x]) # 0
      BY <2>2, FS_CardinalityType, FS_EmptySet
  <2> HIDE DEF n
  <2> QED  BY <1>1, <2>2, <2>3
<1>3. ASSUME NEW x \in S, NEW y \in S, below[x] \subseteq below[y] \ {y}
      PROVE  Cardinality(below[x]) < Cardinality(below[y])
  <2> DEFINE rest == below[y] \ {y}
  <2>1. IsFiniteSet(rest) /\ Cardinality(rest) = Cardinality(below[y]) - 1
      BY <1>2, FS_RemoveElement
  <2>2. below[x] \in SUBSET rest
      BY <1>3
  <2> HIDE DEF rest
  <2>3. Cardinality(below[x]) <= Cardinality(rest)
      BY <2>1, <2>2, FS_Subset
  <2> HIDE DEF n
  <2> QED  BY <1>1, <1>2, <2>1, <2>3
<1>4. ASSUME NEW x \in S, NEW y \in S, Cardinality(below[x]) <= Cardinality(below[y])
      PROVE  below[x] \subseteq below[y]
  <2> SUFFICES ASSUME x # y, below[y] \subseteq below[x] \ {x} PROVE FALSE
      OBVIOUS
  <2>1. Cardinality(below[y]) < Cardinality(below[x])
      BY <1>3
  <2> HIDE DEF n
  <2> QED  BY <1>1, <1>2, <1>4, <2>1
<1>5. ASSUME NEW x \in S, NEW y \in S, Cardinality(below[x]) = Cardinality(below[y])
      PROVE  x = y
  <2> SUFFICES ASSUME x # y PROVE FALSE
      OBVIOUS
  <2>1. Cardinality(below[x]) < Cardinality(below[y]) \/ Cardinality(below[y]) < Cardinality(below[x])
      BY <1>3
  <2> HIDE DEF n
  <2> QED  BY <1>1, <1>2, <1>5, <2>1
<1>6. f \in Injection(S, 1 .. n)
  <2>1. f \in [S -> 1 .. n]
      BY <1>2
  <2> QED  BY <1>5, <2>1 DEF Injection, IsInjective
<1>7. IsFiniteSet(1 .. n) /\ Cardinality(1 .. n) = n
  <2> HIDE DEF n
  <2> QED  BY <1>1, FS_Interval
<1>8. f \in Surjection(S, 1 .. n)
  <2>1. Cardinality(S) = Cardinality(1 .. n)
      BY <1>7
  <2> HIDE DEF f, n
  <2> QED  BY <1>6, <1>7, <2>1, FS_Injection
<1>9. \A k \in 1 .. n : \E x \in S : Cardinality(below[x]) = k
    BY <1>8 DEF Surjection
<1> QED  BY <1>1, <1>2, <1>4, <1>5, <1>9

\* The places of the policies in the listing.
LEMMA NthFacts ==
    ASSUME NEW cl
    PROVE  /\ Cardinality(Listing(cl)) \in Nat
           /\ \A i \in Listing(cl) : Nth(cl, i) \in 1 .. Cardinality(Listing(cl))
           /\ \A i, j \in Listing(cl) : Nth(cl, i) = Nth(cl, j) => i = j
           /\ \A n \in 1 .. Cardinality(Listing(cl)) : \E i \in Listing(cl) : Nth(cl, i) = n
<1> DEFINE S == Listing(cl)
           below == [i \in S |-> {j \in S : j <= i}]
<1>1. S \in SUBSET (1 .. Len(Names)) /\ Len(Names) \in Nat
  <2>1. DOMAIN Names = 1 .. Len(Names) /\ Len(Names) \in Nat
      BY ConfigsAssumption
  <2> QED  BY <2>1 DEF Listing
<1> HIDE DEF S
<1>2. IsFiniteSet(S) /\ S \subseteq Nat
  <2> DEFINE n == Len(Names)
  <2>1. n \in Nat /\ S \in SUBSET (1 .. n)
      BY <1>1
  <2> HIDE DEF n
  <2>2. IsFiniteSet(1 .. n)
      BY <2>1, FS_Interval
  <2>3. IsFiniteSet(S)
      BY <2>1, <2>2, FS_Subset
  <2>4. S \subseteq Nat
      BY <2>1
  <2> QED  BY <2>3, <2>4
<1>3. /\ below \in [S -> SUBSET S]
      /\ \A x \in S : x \in below[x]
      /\ \A x, y \in S : x # y =>
            below[x] \subseteq below[y] \ {y} \/ below[y] \subseteq below[x] \ {x}
  <2>1. below \in [S -> SUBSET S] /\ \A i, j \in S : j \in below[i] <=> j <= i
      OBVIOUS
  <2>2. \A i \in S : below[i] \subseteq S
      OBVIOUS
  <2> HIDE DEF below
  <2>3. ASSUME NEW i \in S, NEW j \in S, i < j PROVE below[i] \subseteq below[j] \ {j}
    <3> SUFFICES ASSUME NEW k \in S, k <= i PROVE k <= j /\ k # j
        BY <2>1, <2>2
    <3>1. i \in Nat /\ j \in Nat /\ k \in Nat
        BY <1>2
    <3> QED  BY <2>3, <3>1
  <2>4. \A i, j \in S : i # j => i < j \/ j < i
      BY <1>2
  <2> QED  BY <1>2, <2>1, <2>3, <2>4
<1>4. \A i \in S : Nth(cl, i) = Cardinality(below[i])
    BY DEF Nth, S
<1> HIDE DEF below
<1>5. /\ Cardinality(S) \in Nat
      /\ \A x \in S : Cardinality(below[x]) \in 1 .. Cardinality(S)
      /\ \A x, y \in S : Cardinality(below[x]) = Cardinality(below[y]) => x = y
      /\ \A n \in 1 .. Cardinality(S) : \E x \in S : Cardinality(below[x]) = n
    BY <1>2, <1>3, Ranking
<1> QED  BY <1>4, <1>5 DEF S

\* What a page covers, and that the last one covers the rest.
LEMMA PageFacts ==
    ASSUME NEW cl, NEW from \in Nat
    PROVE  /\ Cardinality(Page(cl, from)) \in Nat
           /\ \A i \in Listing(cl) : Nth(cl, i) <= from + Cardinality(Page(cl, from)) =>
                 Nth(cl, i) <= from \/ i \in Page(cl, from)
           /\ LastPage(cl, from) =>
                 \A i \in Listing(cl) : Nth(cl, i) <= from \/ i \in Page(cl, from)
<1> DEFINE S == Listing(cl)
           P == Page(cl, from)
           total == Cardinality(S)
           n == Cardinality(P)
           f == [i \in P |-> Nth(cl, i)]
           T == (from + 1) .. (from + PageSize)
<1>1. /\ PageSize \in Nat /\ PageSize >= 1
      /\ total \in Nat
      /\ \A i \in S : Nth(cl, i) \in 1 .. total
      /\ \A i, j \in S : Nth(cl, i) = Nth(cl, j) => i = j
      /\ \A k \in 1 .. total : \E i \in S : Nth(cl, i) = k
    BY NthFacts, ConfigsAssumption
<1>2. P = {i \in S : Nth(cl, i) \in T}
    BY DEF Page
<1> HIDE DEF S, P
<1>3. f \in Injection(P, T)
  <2> HIDE DEF T
  <2> QED  BY <1>1, <1>2 DEF Injection, IsInjective
<1>4. IsFiniteSet(T) /\ Cardinality(T) = PageSize
    BY <1>1, FS_Interval
<1> HIDE DEF f
<1>5. n \in Nat /\ n <= PageSize /\ (n = 0 <=> P = {})
  <2> HIDE DEF T
  <2>1. IsFiniteSet(P) /\ Cardinality(P) <= PageSize
      BY <1>3, <1>4, FS_Injection
  <2> QED  BY <2>1, FS_CardinalityType, FS_EmptySet
<1> HIDE DEF n, total
<1>6. ASSUME NEW i \in S, Nth(cl, i) <= from + PageSize PROVE Nth(cl, i) <= from \/ i \in P
    BY <1>1, <1>2, <1>6
<1>7. ASSUME NEW i \in S, Nth(cl, i) <= from + n PROVE Nth(cl, i) <= from \/ i \in P
    BY <1>1, <1>5, <1>6, <1>7
<1>8. ASSUME from + n >= total, NEW i \in S PROVE Nth(cl, i) <= from \/ i \in P
    BY <1>1, <1>5, <1>7, <1>8
<1>9. ASSUME P = {}, NEW i \in S PROVE Nth(cl, i) <= from
  <2> SUFFICES ASSUME from + 1 <= total PROVE FALSE
      BY <1>1
  <2>1. PICK j \in S : Nth(cl, j) = from + 1
      BY <1>1
  <2> QED  BY <1>1, <1>2, <1>9, <2>1
<1>10. LastPage(cl, from) <=> from + n >= total \/ P = {}
    BY DEF LastPage, n, total, P, S
<1>11. /\ n \in Nat
       /\ \A i \in S : Nth(cl, i) <= from + n => Nth(cl, i) <= from \/ i \in P
       /\ LastPage(cl, from) => \A i \in S : Nth(cl, i) <= from \/ i \in P
    BY <1>5, <1>7, <1>8, <1>9, <1>10
<1> QED  BY <1>11 DEF n, P, S

\* The places of the entries of a list.
LEMMA PlaceFacts ==
    ASSUME NEW list \in Seq(Nat)
    PROVE  /\ \A i, j \in DOMAIN list : Place(list, i) <= Place(list, j) => list[i] <= list[j]
           /\ \A i, j \in DOMAIN list : Place(list, i) = Place(list, j) => i = j
           /\ \A n \in DOMAIN list : \E i \in DOMAIN list : Place(list, i) = n
<1> DEFINE S == DOMAIN list
           Before(i, j) == list[j] < list[i] \/ (list[j] = list[i] /\ j <= i)
           below == [i \in S |-> {j \in S : Before(i, j)}]
<1>1. S = 1 .. Len(list) /\ Len(list) \in Nat
    OBVIOUS
<1>2. IsFiniteSet(S) /\ Cardinality(S) = Len(list)
  <2> DEFINE n == Len(list)
  <2>1. n \in Nat /\ S = 1 .. n
      BY <1>1
  <2> HIDE DEF n, S
  <2>2. IsFiniteSet(1 .. n) /\ Cardinality(1 .. n) = n
      BY <2>1, FS_Interval
  <2> QED  BY <2>1, <2>2 DEF n
<1>3. \A i \in S : i \in Nat /\ list[i] \in Nat
    BY <1>1
<1> HIDE DEF S
<1>4. /\ below \in [S -> SUBSET S]
      /\ \A i, j \in S : j \in below[i] <=> Before(i, j)
      /\ \A i \in S : below[i] \subseteq S
    OBVIOUS
<1> HIDE DEF below
<1>5. ASSUME NEW i \in S, NEW j \in S, i # j, Before(j, i) PROVE below[i] \subseteq below[j] \ {j}
  <2> SUFFICES ASSUME NEW k \in S, Before(i, k) PROVE Before(j, k) /\ k # j
      BY <1>4
  <2>1. /\ i \in Nat /\ j \in Nat /\ k \in Nat
        /\ list[i] \in Nat /\ list[j] \in Nat /\ list[k] \in Nat
      BY <1>3
  <2> QED  BY <1>5, <2>1
<1>6. \A i, j \in S : i # j => Before(j, i) \/ Before(i, j)
    BY <1>3
<1>7. \A i \in S : i \in below[i]
    BY <1>3, <1>4
<1>8. \A i, j \in S : i # j => below[i] \subseteq below[j] \ {j} \/ below[j] \subseteq below[i] \ {i}
    BY <1>5, <1>6
<1>9. \A i \in S : Place(list, i) = Cardinality(below[i])
  <2>1. \A i \in S : below[i] = {j \in S : Before(i, j)}
      BY <1>4
  <2> QED  BY <2>1 DEF Place, S
<1> HIDE DEF Before
<1>10. /\ \A x, y \in S : Cardinality(below[x]) <= Cardinality(below[y]) => below[x] \subseteq below[y]
       /\ \A x, y \in S : Cardinality(below[x]) = Cardinality(below[y]) => x = y
       /\ \A n \in 1 .. Cardinality(S) : \E x \in S : Cardinality(below[x]) = n
    BY <1>2, <1>4, <1>7, <1>8, Ranking
<1>11. ASSUME NEW i \in S, NEW j \in S, Place(list, i) <= Place(list, j) PROVE list[i] <= list[j]
  <2>1. Before(j, i)
      BY <1>4, <1>7, <1>9, <1>10, <1>11
  <2> QED  BY <1>3, <2>1 DEF Before
<1>12. S = 1 .. Cardinality(S)
    BY <1>1, <1>2 DEF S
<1>13. /\ \A i, j \in S : Place(list, i) = Place(list, j) => i = j
       /\ \A n \in S : \E i \in S : Place(list, i) = n
    BY <1>9, <1>10, <1>12
<1> QED  BY <1>11, <1>13 DEF S

\* No entry is less than one before it.
InAscent(list) == \A i, j \in DOMAIN list : i < j => list[i] <= list[j]

\* InOrder sorts.
LEMMA InOrderSorts ==
    ASSUME NEW list \in Seq(Nat)
    PROVE  /\ InOrder(list) \in Seq(Nat) /\ DOMAIN InOrder(list) = DOMAIN list
           /\ InAscent(InOrder(list))
<1> DEFINE p == [n \in DOMAIN list |-> CHOOSE i \in DOMAIN list : Place(list, i) = n]
           s == InOrder(list)
<1>1. \A n \in DOMAIN list : p[n] \in DOMAIN list /\ Place(list, p[n]) = n
    BY PlaceFacts
<1>2. s = [n \in DOMAIN list |-> list[p[n]]]
    BY DEF InOrder
<1> HIDE DEF p, s
<1>3. DOMAIN list = 1 .. Len(list) /\ Len(list) \in Nat /\ \A i \in DOMAIN list : list[i] \in Nat
    OBVIOUS
<1>4. s \in Seq(Nat) /\ DOMAIN s = DOMAIN list
  <2> DEFINE n == Len(list)
  <2>1. n \in Nat /\ s \in [1 .. n -> Nat]
      BY <1>1, <1>2, <1>3
  <2> HIDE DEF n
  <2>2. s \in Seq(Nat)
      BY <2>1
  <2> QED  BY <1>2, <2>2
<1>5. ASSUME NEW i \in DOMAIN s, NEW j \in DOMAIN s, i < j PROVE s[i] <= s[j]
  <2>1. i \in Nat /\ j \in Nat /\ i \in DOMAIN list /\ j \in DOMAIN list
      BY <1>2, <1>3
  <2>2. Place(list, p[i]) <= Place(list, p[j])
      BY <1>1, <1>5, <2>1
  <2> QED  BY <1>1, <1>2, <2>1, <2>2, PlaceFacts
<1> QED  BY <1>4, <1>5 DEF s, InAscent

\* What is sorted stays as it is.
LEMMA SortedStays ==
    ASSUME NEW list \in Seq(Nat), InAscent(list)
    PROVE  InOrder(list) = list
<1>1. /\ DOMAIN list = 1 .. Len(list) /\ Len(list) \in Nat
      /\ \A i \in DOMAIN list : i \in Nat /\ list[i] \in Nat
    OBVIOUS
<1>2. ASSUME NEW i \in DOMAIN list PROVE Place(list, i) = i
  <2> DEFINE B == {j \in DOMAIN list : list[j] < list[i] \/ (list[j] = list[i] /\ j <= i)}
  <2>1. ASSUME NEW j \in DOMAIN list
        PROVE  list[j] < list[i] \/ (list[j] = list[i] /\ j <= i) <=> j <= i
      BY <1>1 DEF InAscent
  <2>2. B = 1 .. i
      BY <1>1, <2>1
  <2>3. Cardinality(1 .. i) = i
      BY <1>1, FS_Interval
  <2> QED  BY <2>2, <2>3 DEF Place
<1> DEFINE p == [n \in DOMAIN list |-> CHOOSE i \in DOMAIN list : Place(list, i) = n]
<1>3. \A n \in DOMAIN list : p[n] = n
    BY <1>2
<1>4. InOrder(list) = [n \in DOMAIN list |-> list[p[n]]]
    BY DEF InOrder
<1> HIDE DEF p
<1> QED  BY <1>3, <1>4

\* Sorting twice is sorting once.
LEMMA InOrderTwice ==
    ASSUME NEW list \in Seq(Nat)
    PROVE  /\ InOrder(list) \in Seq(Nat) /\ InOrder(InOrder(list)) = InOrder(list)
BY InOrderSorts, SortedStays

-----------------------------------------------------------------------------
(* What is put comes back. *)

\* A body as Normalize leaves it, for all that a cluster gives back.
Canonical(type, b) ==
    /\ b = [f \in DOMAIN b |-> b[f]]
    /\ DOMAIN b \cap Metadata(type) = {}
    /\ \A f \in DOMAIN b \cap Stripped(type) : b[f] # Unset
    /\ \A f \in DOMAIN b \cap Sorted(type) : InOrder(b[f]) = b[f]

\* A declared body is one after Normalize.
LEMMA NormalizedIsCanonical ==
    ASSUME NEW type, NEW body, body \in [DOMAIN body -> Seq(Nat)]
    PROVE  /\ Canonical(type, Normalize(type, body))
           /\ DOMAIN Normalize(type, body) \subseteq DOMAIN body
<1> DEFINE sorted == [f \in DOMAIN body |-> IF f \in Sorted(type) THEN InOrder(body[f]) ELSE body[f]]
           dropped == Metadata(type) \cup {f \in Stripped(type) \cap DOMAIN sorted : sorted[f] = Unset}
           n == Without(sorted, dropped)
<1>1. Normalize(type, body) = n
    BY DEF Normalize, Strip
<1>2. \A f \in DOMAIN body \cap Sorted(type) : InOrder(sorted[f]) = sorted[f]
  <2> SUFFICES ASSUME NEW f \in DOMAIN body, f \in Sorted(type) PROVE InOrder(sorted[f]) = sorted[f]
      OBVIOUS
  <2>1. sorted[f] = InOrder(body[f]) /\ body[f] \in Seq(Nat)
      OBVIOUS
  <2> HIDE DEF sorted
  <2> QED  BY <2>1, InOrderTwice
<1>3. DOMAIN sorted = DOMAIN body
    OBVIOUS
<1> HIDE DEF sorted
<1>4. n = [f \in DOMAIN body \ dropped |-> sorted[f]]
    BY <1>3 DEF Without, Fun!Restrict
<1>5. \A f \in DOMAIN body \ dropped : f \notin Metadata(type) /\ (f \in Stripped(type) => sorted[f] # Unset)
    BY <1>3
<1> HIDE DEF dropped, n
<1> QED  BY <1>1, <1>2, <1>4, <1>5 DEF Canonical

\* Normalize leaves such a body alone.
LEMMA NormalizeCanonical ==
    ASSUME NEW type, NEW b, Canonical(type, b)
    PROVE  Normalize(type, b) = b
<1> DEFINE sorted == [f \in DOMAIN b |-> IF f \in Sorted(type) THEN InOrder(b[f]) ELSE b[f]]
           dropped == Metadata(type) \cup {f \in Stripped(type) \cap DOMAIN b : b[f] = Unset}
<1>1. sorted = b
    BY DEF Canonical
<1>2. Normalize(type, b) = Without(b, dropped)
    BY <1>1 DEF Normalize, Strip
<1>3. DOMAIN b \ dropped = DOMAIN b
    BY DEF Canonical
<1> HIDE DEF dropped
<1> QED  BY <1>2, <1>3 DEF Without, Fun!Restrict, Canonical

\* What a cluster adds on its own, Discover drops.
LEMMA TypeFacts ==
    ASSUME NEW type \in ResourceType
    PROVE  /\ Defaults(type) \subseteq Stripped(type)
           /\ type # "internal_user" => Injected(type) \subseteq Metadata(type)
           /\ type = "internal_user" => Injected(type) = {"hash"}
<1>1. type \in {"role", "role_mapping", "internal_user"} =>
        /\ Defaults(type) \subseteq Stripped(type)
        /\ type # "internal_user" => Injected(type) \subseteq Metadata(type)
        /\ type = "internal_user" => Injected(type) = {"hash"}
    BY DEF Defaults, Stripped, Injected, Metadata
<1>2. type \in {"component_template", "composable_index_template", "ingest_pipeline"} =>
        /\ Defaults(type) \subseteq Stripped(type) /\ Injected(type) \subseteq Metadata(type)
    BY DEF Defaults, Stripped, Injected, Metadata
<1>3. type \in {"snapshot_repository", "ism_policy", "cluster_settings"} =>
        /\ Defaults(type) \subseteq Stripped(type) /\ Injected(type) \subseteq Metadata(type)
    BY DEF Defaults, Stripped, Injected, Metadata
<1> QED  BY <1>1, <1>2, <1>3 DEF ResourceType, Plain

\* A body that was put comes back as it was.
LEMMA ComesBack ==
    ASSUME NEW type \in ResourceType, NEW b, Canonical(type, b),
           type = "internal_user" => "hash" \notin DOMAIN b
    PROVE  FromReply(type, Shown(type, b)) = b
<1> DEFINE shown == Shown(type, b)
           reply == IF type = "internal_user" THEN Without(shown, {"hash"}) ELSE shown
           dropped == Metadata(type) \cup {f \in Stripped(type) \cap DOMAIN reply : reply[f] = Unset}
<1>1. /\ DOMAIN shown = DOMAIN b \cup Defaults(type) \cup Injected(type)
      /\ \A f \in DOMAIN b : shown[f] = b[f]
      /\ \A f \in Defaults(type) \ DOMAIN b : shown[f] = Unset
    BY DEF Shown, Over
<1> HIDE DEF shown
<1>2. /\ DOMAIN reply = IF type = "internal_user" THEN DOMAIN shown \ {"hash"} ELSE DOMAIN shown
      /\ \A f \in DOMAIN reply : reply[f] = shown[f]
    BY DEF Without, Fun!Restrict
<1>3. FromReply(type, shown) = Without(reply, dropped)
    BY DEF FromReply, Strip
<1> HIDE DEF reply
<1>4. DOMAIN b \subseteq DOMAIN reply /\ \A f \in DOMAIN b : reply[f] = b[f]
    BY <1>1, <1>2
<1>5. ASSUME NEW f \in DOMAIN reply PROVE f \in DOMAIN b <=> f \notin dropped
  <2>1. CASE f \in DOMAIN b
      BY <1>4, <2>1 DEF Canonical
  <2>2. CASE f \in Defaults(type) \ DOMAIN b
      BY <1>1, <1>2, <2>2, TypeFacts
  <2>3. CASE f \in Injected(type) \ DOMAIN b
      BY <1>2, <2>3, TypeFacts
  <2> QED  BY <1>1, <1>2, <2>1, <2>2, <2>3
<1>6. DOMAIN reply \ dropped = DOMAIN b
    BY <1>4, <1>5
<1> HIDE DEF dropped
<1>7. Without(reply, dropped) = [f \in DOMAIN b |-> b[f]]
    BY <1>4, <1>6 DEF Without, Fun!Restrict
<1> QED  BY <1>3, <1>7 DEF Canonical, shown

-----------------------------------------------------------------------------
(* What a plan made now changes. *)

\* What a discovery shows of a resource.
Reply(cl, id) == FromReply(id.type, Shown(id.type, cl[id]))

\* The resources a discovery finds.
Seen(c, cl) == {id \in DOMAIN cl : id.type \in TypesOf(c) /\ ~Hidden(id)}

\* There is nothing to do at the resource.
Settled(c, cl, id) ==
    IF id \in DOMAIN c.body
    THEN id \in Seen(c, cl) /\ ~Differs(id.type, c.body[id], Reply(cl, id))
    ELSE c.prune => id \notin Seen(c, cl)

\* The resource a depends on b.
Needs(c, a, b) ==
    b \in c.refs[a] \/ \E x \in TypeOrderings : x.after = a.type /\ x.before = b.type

\* No declared resources need each other in a circle.
Orderable(c) ==
    \A S \in SUBSET DOMAIN c.body : S # {} => \E a \in S : \A b \in S : ~Needs(c, a, b)

\* No delete would lock the caller out, or that is allowed.
GuardsPass(c, cl) ==
    ~c.allow /\ c.prune => \A id \in Seen(c, cl) \ DOMAIN c.body : ~LocksOut(id, Reply(cl, id))

\* The edges of the graph of a plan.
LEMMA EdgesAreNeeds ==
    ASSUME Inv, NEW a \in declared, NEW b \in declared
    PROVE  b \in Sort!DependsOn(Graph, a) <=> Needs(config, a, b)
<1> DEFINE refs == [id \in Known |-> IF id \in declared THEN config.refs[id] ELSE {}]
           types == [id \in Known |-> id.type]
           g == Sort!BuildGraph(declared, refs, types, TypeOrderings)
           both == {x \in TypeOrderings : x.after = types[a] /\ x.before = types[b]}
<1>1. Graph = g
    BY DEF Graph, G!BuildGraph, Sort!BuildGraph, G!EdgeCount, Sort!EdgeCount,
           G!Cardinality, Sort!Cardinality
<1>2. a \in Known /\ b \in Known
    BY GraphFacts
<1>3. g.fwd[a][b] = (IF b \in refs[a] THEN 1 ELSE 0) + Cardinality(both)
  <2> HIDE DEF refs, types
  <2> QED  BY <1>2 DEF Sort!BuildGraph, Sort!EdgeCount, Sort!Cardinality, Cardinality
<1>4. Cardinality(both) \in Nat /\ (Cardinality(both) = 0 <=> both = {})
  <2>1. both \subseteq TypeOrderings
      OBVIOUS
  <2> HIDE DEF both
  <2>2. IsFiniteSet(both)
      BY <2>1, OrderingsFinite, FS_Subset
  <2> QED  BY <2>2, FS_CardinalityType, FS_EmptySet
<1>5. refs[a] = config.refs[a] /\ types[a] = a.type /\ types[b] = b.type
    BY <1>2
<1>6. both # {} <=> \E x \in TypeOrderings : x.after = a.type /\ x.before = b.type
    BY <1>5
<1> HIDE DEF both, refs, types
<1>7. g.fwd[a][b] > 0 <=> b \in refs[a] \/ both # {}
  <2> HIDE DEF g
  <2> QED  BY <1>3, <1>4
<1> HIDE DEF g
<1>8. b \in Sort!DependsOn(g, a) <=> g.fwd[a][b] > 0
    BY <1>2 DEF Sort!DependsOn
<1> QED  BY <1>1, <1>5, <1>6, <1>7, <1>8 DEF Needs

\* The graph of a plan has a cycle if the configuration cannot be ordered,
\* whatever is live.
LEMMA CyclicIsUnorderable ==
    ASSUME Inv
    PROVE  Cyclic <=> ~Orderable(config)
<1>1. Cyclic <=> \E S \in SUBSET Graph.nodes : Sort!Stuck(Graph, S)
    BY GraphFacts, SameSort, Sort!CycleErrorIsExact DEF Cyclic
<1>2. Graph.nodes = declared /\ declared \subseteq Known
    BY GraphFacts
<1>3. ASSUME NEW S \in SUBSET declared
      PROVE  Sort!Stuck(Graph, S) <=> S # {} /\ ~ \E a \in S : \A b \in S : ~Needs(config, a, b)
  <2>1. \A a, b \in S : b \in Sort!DependsOn(Graph, a) <=> Needs(config, a, b)
      BY EdgesAreNeeds
  <2> QED  BY <2>1 DEF Sort!Stuck
<1> QED  BY <1>1, <1>2, <1>3 DEF Orderable, declared

\* What is live now is what a discovery in one moment finds.
LEMMA LiveNowFacts ==
    /\ DOMAIN LiveNow = Seen(config, cluster)
    /\ \A id \in Seen(config, cluster) : LiveNow[id] = Reply(cluster, id)
    /\ LiveNow = [id \in Seen(config, cluster) |-> Reply(cluster, id)]
BY DEF LiveNow, Found, Seen, Reply, DeclaredTypes, TypesOf, declared

\* A plan made now changes what is not settled, and nothing else.
LEMMA ChangesNow ==
    ASSUME Inv
    PROVE  /\ \A ch \in Changes(LiveNow) : /\ ch.id \in AnyID
                                           /\ ch.type = "noop" <=> Settled(config, cluster, ch.id)
           /\ \A id \in AnyID : Settled(config, cluster, id) \/ id \in Ids(Changes(LiveNow))
<1> DEFINE A == {[id |-> d, type |-> "create"] : d \in declared \ DOMAIN LiveNow}
           B == {[id |-> d, type |-> IF Differs(d.type, config.body[d], LiveNow[d])
                                     THEN "update" ELSE "noop"] : d \in declared \cap DOMAIN LiveNow}
           D == {[id |-> l, type |-> "delete"] : l \in DOMAIN LiveNow \ declared}
           all == A \cup B \cup D
<1>1. Changes(LiveNow) = KeptChanges(all)
    BY DEF Changes
<1>2. /\ DOMAIN LiveNow = Seen(config, cluster)
      /\ \A id \in Seen(config, cluster) : LiveNow[id] = Reply(cluster, id)
    BY LiveNowFacts
<1>3. declared \subseteq AnyID /\ Seen(config, cluster) \subseteq AnyID
    BY ConfigFacts DEF Inv, AnyID, Seen, ValidCluster, ClusterID
<1>4. ASSUME NEW ch \in A
      PROVE  ch.type = "create" /\ ch.id \in declared /\ ~Settled(config, cluster, ch.id)
    BY <1>2 DEF Settled, declared
<1>5. ASSUME NEW ch \in B
      PROVE  /\ ch.type \in {"update", "noop"} /\ ch.id \in declared
             /\ ch.type = "noop" <=> Settled(config, cluster, ch.id)
  <2>1. PICK d \in declared \cap DOMAIN LiveNow :
            ch = [id |-> d, type |-> IF Differs(d.type, config.body[d], LiveNow[d])
                                     THEN "update" ELSE "noop"]
      OBVIOUS
  <2>2. LiveNow[d] = Reply(cluster, d) /\ d \in Seen(config, cluster)
      BY <1>2
  <2>3. Settled(config, cluster, d) <=> ~Differs(d.type, config.body[d], LiveNow[d])
      BY <2>2 DEF Settled, declared
  <2> QED  BY <2>1, <2>3
<1>6. ASSUME NEW ch \in D, config.prune
      PROVE  /\ ch.type = "delete" /\ ch.id \in Seen(config, cluster)
             /\ ~Settled(config, cluster, ch.id)
    BY <1>2, <1>6 DEF Settled, declared
<1>7. \A ch \in D : ch.type = "delete"
    OBVIOUS
<1>8. ASSUME NEW id \in AnyID, ~Settled(config, cluster, id)
      PROVE  \E ch \in all : ch.id = id /\ (ch.type = "delete" => config.prune)
  <2>1. CASE id \in declared \ DOMAIN LiveNow
    <3>1. [id |-> id, type |-> "create"] \in A
        BY <2>1
    <3> HIDE DEF A, B, D
    <3> QED  BY <3>1
  <2>2. CASE id \in declared \cap DOMAIN LiveNow
    <3> DEFINE ch == [id |-> id, type |-> IF Differs(id.type, config.body[id], LiveNow[id])
                                          THEN "update" ELSE "noop"]
    <3>1. ch \in B /\ ch.id = id /\ ch.type # "delete"
        BY <2>2
    <3> HIDE DEF A, B, D, ch
    <3> QED  BY <3>1
  <2>3. CASE id \notin declared
    <3>1. config.prune /\ id \in DOMAIN LiveNow
        BY <1>2, <1>8, <2>3 DEF Settled, declared
    <3>2. [id |-> id, type |-> "delete"] \in D
        BY <2>3, <3>1
    <3> HIDE DEF A, B, D
    <3> QED  BY <3>1, <3>2
  <2> QED  BY <2>1, <2>2, <2>3
<1> HIDE DEF A, B, D
<1>9. Changes(LiveNow) = {ch \in all : ch.type = "delete" => config.prune}
  <2> HIDE DEF all
  <2> QED  BY <1>1 DEF KeptChanges
<1>10. ASSUME NEW ch \in Changes(LiveNow)
       PROVE  /\ ch.id \in AnyID
              /\ ch.type = "noop" <=> Settled(config, cluster, ch.id)
    BY <1>3, <1>4, <1>5, <1>6, <1>7, <1>9
<1>11. ASSUME NEW id \in AnyID, ~Settled(config, cluster, id)
       PROVE  id \in Ids(Changes(LiveNow))
    BY <1>8, <1>9, <1>11 DEF Ids
<1> QED  BY <1>10, <1>11

-----------------------------------------------------------------------------
(* A run without failures does all there is to do. *)

\* A run has found every policy up to the page it has got to, or all of them.
PagesRead(c, cl, r) ==
    /\ IsFunction(r.live) /\ r.from \in Nat
    /\ \A id \in DOMAIN r.live : id.type = "ism_policy" =>
          id \in Seen(c, cl) /\ r.live[id] = Reply(cl, id)
    /\ "ism_policy" \in TypesOf(c) =>
          \A i \in Listing(cl) : "ism_policy" \notin r.todo \/ Nth(cl, i) <= r.from =>
              Policy(Names[i]) \in DOMAIN r.live

\* A change of the resource is still to be made.
Pending(r, id) ==
    \E i \in DOMAIN r.layers : id \in Ids(r.layers[i]) /\ (i = 1 => r.work[id].pc # "done")

\* The run does all there is to do: it will read all that is there, plan all
\* that is not settled, and end with nothing to do.
Leads(c, cl, r) ==
    /\ r.failed = {}
    /\ r.stage = "idle" => \A id \in AnyID : Settled(c, cl, id)
    /\ r.stage = "discover" => PagesRead(c, cl, r) /\ Orderable(c) /\ GuardsPass(c, cl)
    /\ r.stage = "apply" =>
          /\ \A id \in AnyID : Settled(c, cl, id) \/ Pending(r, id)
          /\ \A i \in DOMAIN r.layers : \A ch \in r.layers[i] :
                ch.type = "noop" => Settled(c, cl, ch.id)

\* So does every run without a failure and without writes of others.
LeadsInv == \A o \in alone \cap clean : Leads(config, cluster, run[o])

\* Stale conditions change nothing about that.
LEMMA AlikeLeads ==
    ASSUME NEW c, NEW cl, NEW r, RunOK(c, r), NEW s, Alike(r, s), Leads(c, cl, r)
    PROVE  Leads(c, cl, s)
<1>1. /\ s.stage = r.stage /\ s.todo = r.todo /\ s.live = r.live /\ s.from = r.from
      /\ s.layers = r.layers /\ s.failed = r.failed
    BY AlikeFields
<1>2. \A id \in DOMAIN r.work : s.work[id].pc = r.work[id].pc
    BY DEF Alike
<1>3. PagesRead(c, cl, r) => PagesRead(c, cl, s)
    BY <1>1 DEF PagesRead
<1>4. ASSUME r.stage = "apply", NEW id, Pending(r, id) PROVE Pending(s, id)
  <2>1. PICK i \in DOMAIN r.layers : id \in Ids(r.layers[i]) /\ (i = 1 => r.work[id].pc # "done")
      BY <1>4 DEF Pending
  <2>2. i = 1 => id \in DOMAIN r.work
      BY <1>4, <2>1 DEF RunOK
  <2> QED  BY <1>1, <1>2, <2>1, <2>2 DEF Pending
<1>5. s.stage = "apply" => \A id \in AnyID : Settled(c, cl, id) \/ Pending(s, id)
    BY <1>1, <1>4 DEF Leads
<1> QED  BY <1>1, <1>3, <1>5 DEF Leads

\* One run moves on, and the cluster stays.
LEMMA LeadsMoves ==
    ASSUME LeadsInv, NEW o \in Operator, \A p \in Operator \ {o} : run'[p] = run[p],
           alone \subseteq Operator, UNCHANGED <<cluster, config>>,
           alone' \cap clean' \subseteq (alone \cap clean) \cup {o},
           o \in alone' \cap clean' => Leads(config, cluster, run'[o])
    PROVE  LeadsInv'
<1>1. ASSUME NEW p \in alone' \cap clean' PROVE Leads(config', cluster', run'[p])
  <2>1. CASE p = o
      BY <2>1
  <2>2. CASE p # o
      BY <2>2 DEF LeadsInv
  <2> QED  BY <2>1, <2>2
<1> QED  BY <1>1 DEF LeadsInv

\* A request is carried out.
LEMMA LeadsWrites ==
    ASSUME Inv, LeadsInv, NEW request, NEW runs, NEW writers, Write(request, runs, writers),
           UNCHANGED config, clean' \subseteq clean,
           \A p \in alone \cap clean' : p \in writers \/ cluster' = cluster =>
               RunOK(config, runs[p]) /\ Leads(config, cluster', runs[p])
    PROVE  LeadsInv'
<1>1. run' = [p \in Operator |-> Stale(runs[p], request.id)]
    BY OutdatedIsStale DEF Write
<1>2. alone' \subseteq Operator
      /\ \A p \in alone' : p \in alone /\ (p \in writers \/ cluster' = cluster)
    BY DEF Write, Inv
<1>3. ASSUME NEW p \in alone' \cap clean' PROVE Leads(config, cluster', run'[p])
  <2>1. RunOK(config, runs[p]) /\ Leads(config, cluster', runs[p])
      BY <1>2
  <2>2. Alike(runs[p], run'[p])
      BY <1>1, <1>2, <2>1, StaleIsAlike
  <2> QED  BY <2>1, <2>2, AlikeLeads
<1> QED  BY <1>3 DEF LeadsInv

\* A run begins.
LEMMA LeadsBegin ==
    ASSUME Inv, LeadsInv, NEW o \in Operator, Begin(o)
    PROVE  LeadsInv'
<1> DEFINE r == run'[o]
<1>1. /\ r.stage = "discover" /\ r.todo = DeclaredTypes /\ r.from = 0 /\ r.live = <<>> /\ r.failed = {}
      /\ \A p \in Operator \ {o} : run'[p] = run[p]
    BY DEF Begin, Inv, NoRun
<1>2. DeclaredTypes = TypesOf(config)
    BY DEF DeclaredTypes, TypesOf, declared
<1>3. Orderable(config) /\ ~Refused(LiveNow)
    BY CyclicIsUnorderable DEF Begin, Applicable
<1>4. GuardsPass(config, cluster)
  <2> SUFFICES ASSUME ~config.allow, config.prune, NEW id \in Seen(config, cluster) \ declared
               PROVE  ~LocksOut(id, Reply(cluster, id))
      BY DEF GuardsPass, declared
  <2> DEFINE D == {[id |-> l, type |-> "delete"] : l \in DOMAIN LiveNow \ declared}
             ch == [id |-> id, type |-> "delete"]
  <2>1. id \in DOMAIN LiveNow /\ LiveNow[id] = Reply(cluster, id)
      BY LiveNowFacts
  <2>2. ch \in D /\ ch.id = id /\ ch.type = "delete"
      BY <2>1
  <2>3. D \subseteq Changes(LiveNow)
    <3> HIDE DEF D
    <3> QED  BY DEF Changes, KeptChanges, D
  <2> HIDE DEF D, ch
  <2> QED  BY <1>3, <2>1, <2>2, <2>3 DEF Refused
<1>5. PagesRead(config, cluster, r)
  <2>1. IsFunction(<<>>) /\ DOMAIN <<>> = {}
      BY DEF IsFunction
  <2>2. \A i \in Listing(cluster) : ~(Nth(cluster, i) <= 0)
      BY NthFacts
  <2> HIDE DEF r
  <2> QED  BY <1>1, <1>2, <2>1, <2>2 DEF PagesRead
<1> HIDE DEF r
<1>6. Leads(config, cluster, r)
    BY <1>1, <1>3, <1>4, <1>5 DEF Leads
<1> QED  BY <1>1, <1>6, LeadsMoves DEF Begin, Inv, r

\* A type is read.
LEMMA LeadsRead ==
    ASSUME Inv, LeadsInv, NEW o \in Operator, NEW type \in run[o].todo, Read(o, type)
    PROVE  LeadsInv'
<1> DEFINE old == run[o]
           r == run'[o]
           new == Discover(cluster, type)
<1>1. RunOK(config, old) /\ type # "ism_policy" /\ old.stage = "discover"
    BY DEF Inv, RunOK, Read
<1>2. /\ r.stage = "discover" /\ r.todo = old.todo \ {type} /\ r.from = old.from
      /\ r.live = Over(new, old.live) /\ r.failed = old.failed
      /\ \A p \in Operator \ {o} : run'[p] = run[p]
  <2> HIDE DEF new
  <2> QED  BY <1>1 DEF Read, Inv, RunOK, new
<1>3. \A id \in DOMAIN new : id.type = type
    BY DEF Discover, Found
<1> HIDE DEF r, new
<1>4. /\ DOMAIN r.live = DOMAIN new \cup DOMAIN old.live /\ IsFunction(r.live)
      /\ \A id \in DOMAIN old.live \ DOMAIN new : r.live[id] = old.live[id]
    BY <1>2 DEF Over, IsFunction
<1>5. ASSUME o \in alone \cap clean PROVE Leads(config, cluster, r)
  <2>1. Leads(config, cluster, old)
      BY <1>5 DEF LeadsInv
  <2>2. PagesRead(config, cluster, r)
      BY <1>1, <1>2, <1>3, <1>4, <2>1 DEF Leads, PagesRead
  <2> QED  BY <1>1, <1>2, <2>1, <2>2 DEF Leads
<1> QED  BY <1>2, <1>5, LeadsMoves DEF Read, Inv, r

\* What the cluster has of policies is in the listing.
LEMMA PoliciesAreListed ==
    ASSUME Inv, NEW id \in DOMAIN cluster, id.type = "ism_policy"
    PROVE  \E i \in Listing(cluster) : id = Policy(Names[i])
<1>1. id \in ResourceID
    BY DEF Inv, ValidCluster, ClusterID, SettingsID
<1>2. PICK i \in DOMAIN Names : id = Policy(Names[i])
    BY <1>1 DEF ResourceID, Policy
<1> QED  BY <1>2 DEF Listing

\* A page of policies is read.
LEMMA LeadsReadPage ==
    ASSUME Inv, LeadsInv, NEW o \in Operator, ReadPage(o)
    PROVE  LeadsInv'
<1> DEFINE old == run[o]
           r == run'[o]
           new == DiscoverPage(cluster, old.from)
           page == Page(cluster, old.from)
           todo == IF LastPage(cluster, old.from) THEN old.todo \ {"ism_policy"} ELSE old.todo
           from == old.from + Cardinality(page)
<1>1. /\ RunOK(config, old) /\ old.stage = "discover" /\ "ism_policy" \in old.todo
      /\ "ism_policy" \in TypesOf(config)
    BY DEF Inv, RunOK, ReadPage
<1>2. /\ r.stage = "discover" /\ r.todo = todo /\ r.from = from
      /\ r.live = Over(new, old.live) /\ r.failed = old.failed
      /\ \A p \in Operator \ {o} : run'[p] = run[p]
  <2> HIDE DEF new, page
  <2> QED  BY <1>1 DEF ReadPage, Inv, RunOK, new, page
<1>3. /\ DOMAIN new = {Policy(Names[i]) : i \in page}
      /\ \A id \in DOMAIN new : new[id] = Reply(cluster, id)
    BY DEF DiscoverPage, Found, Reply
<1>4. DOMAIN new \subseteq Seen(config, cluster)
  <2>1. \A i \in page : Policy(Names[i]) \in DOMAIN cluster
      BY DEF Page, Listing
  <2>2. \A n : Policy(n).type = "ism_policy" /\ ~Hidden(Policy(n))
      BY DEF Policy, Hidden
  <2> HIDE DEF new, page
  <2> QED  BY <1>1, <1>3, <2>1, <2>2 DEF Seen
<1> HIDE DEF r, new
<1>5. /\ DOMAIN r.live = DOMAIN new \cup DOMAIN old.live /\ IsFunction(r.live)
      /\ \A id \in DOMAIN new : r.live[id] = new[id]
      /\ \A id \in DOMAIN old.live \ DOMAIN new : r.live[id] = old.live[id]
    BY <1>2 DEF Over, IsFunction
<1>6. ASSUME o \in alone \cap clean PROVE Leads(config, cluster, r)
  <2>1. Leads(config, cluster, old) /\ PagesRead(config, cluster, old) /\ old.from \in Nat
      BY <1>1, <1>6 DEF LeadsInv, Leads, PagesRead
  <2>2. /\ Cardinality(page) \in Nat
        /\ \A i \in Listing(cluster) : Nth(cluster, i) <= from => Nth(cluster, i) <= old.from \/ i \in page
        /\ LastPage(cluster, old.from) =>
              \A i \in Listing(cluster) : Nth(cluster, i) <= old.from \/ i \in page
    <3> HIDE DEF old
    <3> QED  BY <2>1, PageFacts
  <2>3. from \in Nat
      BY <2>1, <2>2
  <2>4. ASSUME NEW i \in Listing(cluster), "ism_policy" \notin todo \/ Nth(cluster, i) <= from
        PROVE  Policy(Names[i]) \in DOMAIN r.live
    <3>1. Nth(cluster, i) <= old.from \/ i \in page
        BY <1>1, <2>2, <2>4
    <3>2. i \in page => Policy(Names[i]) \in DOMAIN new
        BY <1>3
    <3> QED  BY <1>1, <1>5, <2>1, <3>1, <3>2 DEF PagesRead
  <2>5. ASSUME NEW id \in DOMAIN r.live, id.type = "ism_policy"
        PROVE  id \in Seen(config, cluster) /\ r.live[id] = Reply(cluster, id)
      BY <1>3, <1>4, <1>5, <2>1, <2>5 DEF PagesRead
  <2> HIDE DEF from, todo
  <2>6. PagesRead(config, cluster, r)
      BY <1>2, <1>5, <2>3, <2>4, <2>5 DEF PagesRead
  <2> QED  BY <1>1, <1>2, <2>1, <2>6 DEF Leads
<1> QED  BY <1>2, <1>6, LeadsMoves DEF ReadPage, Inv, r

\* A run that has read everything has found what is live.
LEMMA AllRead ==
    ASSUME Inv, LeadsInv, NEW o \in alone \cap clean, run[o].stage = "discover", run[o].todo = {}
    PROVE  run[o].live = LiveNow
<1> DEFINE r == run[o]
           live == r.live
<1>1. /\ RunOK(config, r) /\ PagesRead(config, cluster, r) /\ ReadIsThere(config, cluster, r)
    BY DEF Inv, LeadsInv, Leads, Tracks
<1>2. ASSUME NEW id \in DOMAIN live
      PROVE  id \in Seen(config, cluster) /\ live[id] = Reply(cluster, id)
  <2>1. id \in Findable(config)
      BY <1>1 DEF RunOK
  <2> QED  BY <1>1, <2>1 DEF PagesRead, ReadIsThere, Seen, Findable, Reply
<1>3. ASSUME NEW id \in Seen(config, cluster) PROVE id \in DOMAIN live
  <2>1. CASE id.type = "ism_policy"
      BY <1>1, <2>1, PoliciesAreListed DEF PagesRead, Seen
  <2>2. CASE id.type # "ism_policy"
      BY <1>1, <2>2 DEF ReadIsThere, Seen
  <2> QED  BY <2>1, <2>2
<1>4. live = [id \in DOMAIN live |-> live[id]]
    BY <1>1 DEF PagesRead, IsFunction
<1> HIDE DEF live
<1>5. live = [id \in Seen(config, cluster) |-> Reply(cluster, id)]
    BY <1>2, <1>3, <1>4
<1> QED  BY <1>5, LiveNowFacts DEF live

-----------------------------------------------------------------------------
(* From the plan to the end of a run. *)

\* What is declared can come back as it was declared: Discover does not leave
\* it out, the cluster keeps no hash in its place, and the singleton sets
\* something.
DeclaredComesBack ==
    \A c \in Configs : \A d \in DOMAIN c.body :
        /\ ~Hidden(d)
        /\ d.type = "internal_user" => {"password", "hash"} \cap DOMAIN c.body[d] = {}
        /\ d.type = "cluster_settings" =>
              /\ d = SettingsID /\ c.body[d] # <<>>
              /\ \A k \in DOMAIN c.body[d] : c.body[d][k] # Unset

\* The cluster has no setting that is not declared, if any is declared.
SettingsKnown ==
    SettingsID \in declared \cap DOMAIN cluster =>
        DOMAIN cluster[SettingsID] \subseteq DOMAIN config.body[SettingsID]

\* The goroutine of a resource is one of its changes in the layer.
LEMMA SpawnedFrom ==
    ASSUME NEW layer, NEW id \in Ids(layer)
    PROVE  \E ch \in layer : ch.id = id /\ (Spawn(layer)[id].pc = "done" => ch.type = "noop")
<1> DEFINE ch == CHOOSE x \in layer : x.id = id
<1>1. ch \in layer /\ ch.id = id
    BY DEF Ids
<1>2. Spawn(layer)[id].pc = IF ch.type = "noop" THEN "done" ELSE "start"
    BY DEF Spawn, Ids
<1> HIDE DEF ch
<1> QED  BY <1>1, <1>2

\* A run that has read everything plans, or ends.
LEMMA LeadsPlan ==
    ASSUME Inv, LeadsInv, NEW o \in Operator, Plan(o)
    PROVE  LeadsInv'
<1> DEFINE old == run[o]
           r == run'[o]
<1>1. /\ RunOK(config, old) /\ old.stage = "discover" /\ old.todo = {}
      /\ UNCHANGED <<cluster, config, alone, clean>>
    BY DEF Inv, Plan
<1>2. \A p \in Operator \ {o} : run'[p] = run[p]
    BY DEF Plan, Inv
<1>3. ASSUME o \in alone \cap clean PROVE Leads(config, cluster, r)
  <2>1. /\ old.live = LiveNow /\ old.failed = {}
        /\ Orderable(config) /\ GuardsPass(config, cluster)
      BY <1>1, <1>3, AllRead DEF LeadsInv, Leads
  <2>2. /\ \A ch \in Changes(LiveNow) : /\ ch.id \in AnyID
                                        /\ ch.type = "noop" <=> Settled(config, cluster, ch.id)
        /\ \A id \in AnyID : Settled(config, cluster, id) \/ id \in Ids(Changes(LiveNow))
      BY ChangesNow
  <2>3. CASE ~Applicable(LiveNow)
    <3>1. r = NoRun
        BY <1>1, <2>1, <2>3 DEF Plan, Inv
    <3>2. ~Cyclic
        BY <2>1, CyclicIsUnorderable
    <3>3. ~Refused(LiveNow)
      <4> SUFFICES ASSUME ~config.allow, NEW ch \in Changes(LiveNow), ch.type = "delete",
                          LocksOut(ch.id, LiveNow[ch.id])
                   PROVE  FALSE
          BY DEF Refused
      <4>1. DOMAIN LiveNow \subseteq AnyID
          BY <1>1, <2>1 DEF RunOK, Findable, ClusterID, AnyID
      <4>2. ch \in Foreseen(config, LiveNow)
          BY <4>1, ChangesFacts DEF Inv
      <4>3. config.prune /\ ch.id \in Seen(config, cluster) \ DOMAIN config.body
          BY <4>2, LiveNowFacts DEF Foreseen
      <4> QED  BY <2>1, <4>3, LiveNowFacts DEF GuardsPass
    <3>4. \A ch \in Changes(LiveNow) : ch.type = "noop"
        BY <2>3, <3>2, <3>3 DEF Applicable, NothingToDo
    <3>5. \A id \in AnyID : Settled(config, cluster, id)
        BY <2>2, <3>4 DEF Ids
    <3>6. NoRun.stage = "idle" /\ NoRun.failed = {}
        BY DEF NoRun
    <3> QED  BY <3>1, <3>5, <3>6 DEF Leads
  <2>4. CASE Applicable(LiveNow)
    <3> DEFINE live == old.live
               ordered == Ordered(live)
    <3>1. /\ r.stage = "apply" /\ r.layers = ordered /\ r.work = Spawn(ordered[1])
          /\ r.failed = {}
      <4> DEFINE work == Spawn(ordered[1])
                 dep == DependencyGraph
      <4>1. r = [old EXCEPT !.stage = "apply", !.layers = ordered, !.work = work, !.dep = dep]
          BY <1>1, <2>1, <2>4 DEF Plan, Inv
      <4>2. old = [stage |-> old.stage, todo |-> old.todo, from |-> old.from, live |-> old.live,
                   layers |-> old.layers, work |-> old.work, dep |-> old.dep, failed |-> old.failed]
          BY <1>1 DEF RunOK
      <4> HIDE DEF ordered, work, dep, old, r
      <4>3. r = [stage |-> "apply", todo |-> old.todo, from |-> old.from, live |-> old.live,
                 layers |-> ordered, work |-> work, dep |-> dep, failed |-> old.failed]
          BY <4>1, <4>2
      <4> QED  BY <2>1, <4>3 DEF work
    <3>2. ~Cyclic /\ Changes(live) # {}
        BY <2>1, <2>4 DEF Applicable, NothingToDo
    <3>3. /\ ordered \in Seq(SUBSET Changes(live)) /\ ordered # <<>>
          /\ \A d \in Ids(Changes(live)) : \E i \in DOMAIN ordered : d \in Ids(ordered[i])
        BY <3>2, LayersOfPlan
    <3> HIDE DEF ordered, r
    <3>4. \A i \in DOMAIN ordered : ordered[i] \subseteq Changes(live)
      <4> DEFINE changes == Changes(live)
      <4>1. ordered \in Seq(SUBSET changes)
          BY <3>3
      <4> HIDE DEF changes
      <4>2. \A i \in DOMAIN ordered : ordered[i] \in SUBSET changes
          BY <4>1
      <4> QED  BY <4>2 DEF changes
    <3>5. ASSUME NEW id \in AnyID, ~Settled(config, cluster, id) PROVE Pending(r, id)
      <4>1. PICK i \in DOMAIN ordered : id \in Ids(ordered[i])
          BY <2>1, <2>2, <3>3, <3>5
      <4>2. i = 1 => r.work[id].pc # "done"
          BY <2>1, <2>2, <3>1, <3>4, <3>5, <4>1, SpawnedFrom
      <4> QED  BY <3>1, <4>1, <4>2 DEF Pending
    <3>6. \A i \in DOMAIN r.layers : \A ch \in r.layers[i] :
              ch.type = "noop" => Settled(config, cluster, ch.id)
        BY <2>1, <2>2, <3>1, <3>4
    <3> QED  BY <3>1, <3>5, <3>6 DEF Leads
  <2> QED  BY <2>3, <2>4
<1> QED  BY <1>1, <1>2, <1>3, LeadsMoves DEF Inv, r

\* A goroutine moves on without being done, and the cluster stays.
LEMMA LeadsOn ==
    ASSUME Inv, LeadsInv, NEW o \in Operator, NEW id \in DOMAIN run[o].work,
           UNCHANGED <<cluster, config, alone>>, clean' \subseteq clean,
           \A p \in Operator \ {o} : run'[p] = run[p],
           run'[o].stage = run[o].stage, run'[o].layers = run[o].layers,
           run'[o].failed = run[o].failed, run'[o].work[id].pc # "done",
           \A x \in DOMAIN run[o].work \ {id} : run'[o].work[x] = run[o].work[x]
    PROVE  LeadsInv'
<1> DEFINE r == run[o]
           s == run'[o]
<1>1. RunOK(config, r) /\ r.stage = "apply"
    BY WorkFacts
<1>2. ASSUME o \in alone \cap clean PROVE Leads(config, cluster, s)
  <2>1. Leads(config, cluster, r)
      BY <1>2 DEF LeadsInv
  <2>2. ASSUME NEW x, Pending(r, x) PROVE Pending(s, x)
    <3>1. PICK i \in DOMAIN r.layers : x \in Ids(r.layers[i]) /\ (i = 1 => r.work[x].pc # "done")
        BY <2>2 DEF Pending
    <3>2. i = 1 => x \in DOMAIN r.work
        BY <1>1, <3>1 DEF RunOK
    <3>3. i = 1 => s.work[x].pc # "done"
        BY <3>1, <3>2
    <3> QED  BY <3>1, <3>3 DEF Pending
  <2> QED  BY <1>1, <2>1, <2>2 DEF Leads
<1> QED  BY <1>2, LeadsMoves DEF Inv

\* The skip check: without failures nothing is skipped.
LEMMA LeadsStart ==
    ASSUME Inv, LeadsInv, NEW o \in Operator, NEW id \in DOMAIN run[o].work, Start(o, id)
    PROVE  LeadsInv'
<1> DEFINE r == run[o]
           s == run'[o]
           p == IF ShouldSkip(o, id) THEN "done"
                ELSE IF NeedsFetch(Work(o, id).op, id) THEN "fetch" ELSE "send"
<1>1. /\ RunOK(config, r) /\ r.stage = "apply" /\ WorkOK(config, r.live, id, r.work[id])
      /\ UNCHANGED <<cluster, config, alone, clean>>
    BY WorkFacts DEF Start
<1>2. /\ s.stage = r.stage /\ s.layers = r.layers /\ s.failed = r.failed
      /\ s.work[id].pc = p /\ \A x \in DOMAIN r.work \ {id} : s.work[x] = r.work[x]
      /\ \A q \in Operator \ {o} : run'[q] = run[q]
  <2> HIDE DEF p
  <2> QED  BY <1>1 DEF Start, Inv, RunOK, WorkOK, p
<1>3. CASE o \in alone \cap clean
  <2>1. r.failed = {}
      BY <1>3 DEF LeadsInv, Leads
  <2>2. p # "done"
      BY <2>1 DEF ShouldSkip
  <2> HIDE DEF p
  <2> QED  BY <1>1, <1>2, <2>2, LeadsOn
<1>4. CASE o \notin alone \cap clean
    BY <1>1, <1>2, <1>4, LeadsMoves DEF Inv
<1> QED  BY <1>3, <1>4

\* A run that has failed is not clean: nothing is claimed of it.
LEMMA LeadsFail ==
    ASSUME Inv, LeadsInv, NEW o \in Operator, \A p \in Operator \ {o} : run'[p] = run[p],
           clean' = clean \ {o}, UNCHANGED <<cluster, config, alone>>
    PROVE  LeadsInv'
BY LeadsMoves DEF Inv

\* The other runs when one fails.
LEMMA FailingOthers ==
    ASSUME Inv, NEW o, NEW id
    PROVE  \A p \in Operator \ {o} : Failing(o, id)[p] = run[p]
BY DEF Failing, Inv

\* The GET of a policy.
LEMMA LeadsFetch ==
    ASSUME Inv, LeadsInv, NEW o \in Operator, NEW id \in DOMAIN run[o].work, Fetch(o, id)
    PROVE  LeadsInv'
<1> DEFINE r == run[o]
           s == run'[o]
<1>1. CASE Fail(o, id)
    BY <1>1, FailingOthers, LeadsFail DEF Fetch, Fail
<1>2. CASE run' = [run EXCEPT ![o].work[id].pc = "send", ![o].work[id].cond = "met"] /\ UNCHANGED clean
  <2>1. RunOK(config, r) /\ r.stage = "apply" /\ WorkOK(config, r.live, id, r.work[id])
      BY WorkFacts
  <2>2. /\ s.stage = r.stage /\ s.layers = r.layers /\ s.failed = r.failed
        /\ s.work[id].pc = "send" /\ \A x \in DOMAIN r.work \ {id} : s.work[x] = r.work[x]
        /\ \A q \in Operator \ {o} : run'[q] = run[q]
      BY <1>2, <2>1 DEF Inv, RunOK, WorkOK
  <2> HIDE DEF s
  <2>3. s.work[id].pc # "done"
      BY <2>2
  <2> QED  BY <1>2, <2>2, <2>3, LeadsOn DEF Fetch, s
<1> QED  BY <1>1, <1>2 DEF Fetch

\* A run goes on with its next layer.
LEMMA LeadsNextLayer ==
    ASSUME Inv, LeadsInv, NEW o \in Operator, NextLayer(o)
    PROVE  LeadsInv'
<1> DEFINE old == run[o]
           layers == Tail(old.layers)
           r == run'[o]
<1>1. /\ RunOK(config, old) /\ old.stage = "apply" /\ Len(old.layers) > 1
      /\ \A id \in DOMAIN old.work : old.work[id].pc = "done"
      /\ UNCHANGED <<cluster, config, alone, clean>>
    BY DEF Inv, NextLayer, LayerDone, Work
<1>2. /\ old.layers \in Seq(SUBSET Planned(config, old.live))
      /\ DOMAIN old.work = Ids(old.layers[1])
    BY <1>1 DEF RunOK
<1>3. /\ \A i \in DOMAIN layers : i + 1 \in DOMAIN old.layers /\ layers[i] = old.layers[i + 1]
      /\ \A i \in DOMAIN old.layers : i # 1 => i - 1 \in DOMAIN layers /\ layers[i - 1] = old.layers[i]
      /\ layers[1] = old.layers[2]
  <2> HIDE DEF old
  <2> QED  BY <1>1, <1>2
<1>4. /\ r.stage = "apply" /\ r.layers = layers /\ r.work = Spawn(layers[1])
      /\ r.failed = old.failed
      /\ \A p \in Operator \ {o} : run'[p] = run[p]
  <2> HIDE DEF layers
  <2> QED  BY <1>1, <1>3 DEF NextLayer, Inv, RunOK, layers
<1> HIDE DEF layers, r
<1>5. ASSUME o \in alone \cap clean PROVE Leads(config, cluster, r)
  <2>1. /\ old.failed = {}
        /\ \A id \in AnyID : Settled(config, cluster, id) \/ Pending(old, id)
        /\ \A i \in DOMAIN old.layers : \A ch \in old.layers[i] :
              ch.type = "noop" => Settled(config, cluster, ch.id)
      BY <1>1, <1>5 DEF LeadsInv, Leads
  <2>2. ASSUME NEW id \in AnyID, ~Settled(config, cluster, id) PROVE Pending(r, id)
    <3>1. PICK i \in DOMAIN old.layers : id \in Ids(old.layers[i]) /\ (i = 1 => old.work[id].pc # "done")
        BY <2>1, <2>2 DEF Pending
    <3>2. i # 1
        BY <1>1, <1>2, <3>1
    <3>3. i - 1 \in DOMAIN layers /\ layers[i - 1] = old.layers[i]
        BY <1>3, <3>2
    <3>4. i - 1 = 1 => r.work[id].pc # "done"
        BY <1>4, <2>1, <2>2, <3>1, <3>3, SpawnedFrom
    <3> QED  BY <1>4, <3>1, <3>3, <3>4 DEF Pending
  <2>3. \A i \in DOMAIN r.layers : \A ch \in r.layers[i] :
            ch.type = "noop" => Settled(config, cluster, ch.id)
      BY <1>3, <1>4, <2>1
  <2> QED  BY <1>4, <2>1, <2>2, <2>3 DEF Leads
<1> QED  BY <1>1, <1>4, <1>5, LeadsMoves DEF Inv, r

\* A run ends when all its requests are answered.
LEMMA LeadsFinish ==
    ASSUME Inv, LeadsInv, NEW o \in Operator, Finish(o)
    PROVE  LeadsInv'
<1> DEFINE r == run[o]
<1>1. /\ RunOK(config, r) /\ r.stage = "apply" /\ Len(r.layers) = 1
      /\ \A id \in DOMAIN r.work : r.work[id].pc = "done"
      /\ run'[o] = NoRun /\ \A p \in Operator \ {o} : run'[p] = run[p]
      /\ UNCHANGED <<cluster, config, alone, clean>>
    BY DEF Inv, Finish, LayerDone, Work
<1>2. DOMAIN r.layers = {1} /\ DOMAIN r.work = Ids(r.layers[1])
  <2>1. r.layers \in Seq(SUBSET Planned(config, r.live)) /\ DOMAIN r.work = Ids(r.layers[1])
      BY <1>1 DEF RunOK
  <2> HIDE DEF r
  <2> QED  BY <1>1, <2>1
<1>3. \A id : ~Pending(r, id)
    BY <1>1, <1>2 DEF Pending
<1>4. ASSUME o \in alone \cap clean PROVE Leads(config, cluster, NoRun)
  <2>1. \A id \in AnyID : Settled(config, cluster, id)
      BY <1>1, <1>3, <1>4 DEF LeadsInv, Leads
  <2>2. NoRun.stage = "idle" /\ NoRun.failed = {}
      BY DEF NoRun
  <2> QED  BY <2>1, <2>2 DEF Leads
<1> QED  BY <1>1, <1>4, LeadsMoves DEF Inv

\* What a handler puts comes back equal to what is declared.
LEMMA DesiredComesBack ==
    ASSUME DeclaredComesBack, config \in Configs, NEW id \in declared
    PROVE  /\ Stored(id.type, Desired(id)) = Desired(id)
           /\ FromReply(id.type, Shown(id.type, Desired(id))) = Desired(id)
           /\ ~Differs(id.type, config.body[id], Desired(id))
<1> DEFINE body == config.body[id]
           b == Desired(id)
           type == id.type
<1>1. body \in [DOMAIN body -> Seq(Nat)] /\ type \in ResourceType
    BY ConfigsAssumption DEF ValidConfig, ResourceID, declared
<1>2. type = "internal_user" => {"password", "hash"} \cap DOMAIN body = {}
    BY DEF DeclaredComesBack, declared
<1>3. b = Normalize(type, body)
    BY DEF Desired
<1> HIDE DEF body, b, type
<1>4. Canonical(type, b) /\ DOMAIN b \subseteq DOMAIN body
    BY <1>1, <1>3, NormalizedIsCanonical
<1>5. Stored(type, b) = b
  <2>1. CASE type = "internal_user"
    <3>1. DOMAIN b \ {"password", "hash"} = DOMAIN b
        BY <1>2, <1>4, <2>1
    <3> QED  BY <1>4, <2>1, <3>1 DEF Stored, Without, Fun!Restrict, Canonical
  <2>2. CASE type # "internal_user"
      BY <2>2 DEF Stored
  <2> QED  BY <2>1, <2>2
<1>6. FromReply(type, Shown(type, b)) = b
    BY <1>1, <1>2, <1>4, ComesBack
<1>7. ~Differs(type, body, b)
    BY <1>3, <1>4, NormalizeCanonical DEF Differs
<1> QED  BY <1>5, <1>6, <1>7 DEF body, b, type

\* Settings put among settings that are all declared are then the settings.
LEMMA SettingsArePut ==
    ASSUME DeclaredComesBack, SettingsKnown, Inv, SettingsID \in declared,
           NEW r, r.verb = "PUT", r.id = SettingsID, r.body = Desired(SettingsID)
    PROVE  /\ SettingsID \in DOMAIN Effect(cluster, r)
           /\ Effect(cluster, r)[SettingsID] = Desired(SettingsID)
<1> DEFINE body == config.body[SettingsID]
           b == Desired(SettingsID)
           before == IF SettingsID \in DOMAIN cluster THEN cluster[SettingsID] ELSE <<>>
           merged == Over(b, before)
           after == MergedSettings(cluster, b)
<1>1. SettingsID.type = "cluster_settings"
    BY DEF SettingsID
<1>2. body \in [DOMAIN body -> Seq(Nat)]
    BY ConfigsAssumption DEF ValidConfig, declared, Inv
<1>3. body # <<>> /\ \A k \in DOMAIN body : body[k] # Unset
    BY <1>1 DEF DeclaredComesBack, declared, Inv
<1>4. b = body
  <2>1. Sorted("cluster_settings") = {} /\ Metadata("cluster_settings") = {}
        /\ Stripped("cluster_settings") = {}
      BY DEF Sorted, Metadata, Stripped
  <2>2. b = Normalize("cluster_settings", body)
      BY <1>1 DEF Desired
  <2> HIDE DEF b, body
  <2> QED  BY <1>2, <2>1, <2>2 DEF Normalize, Strip, Without, Fun!Restrict
<1>5. DOMAIN before \subseteq DOMAIN body
  <2>1. DOMAIN <<>> = {}
      OBVIOUS
  <2> QED  BY <2>1 DEF SettingsKnown
<1>6. after = Without(merged, {k \in DOMAIN merged : merged[k] = Unset})
    BY DEF MergedSettings
<1> HIDE DEF b, before, after, body
<1>7. merged = body
    BY <1>2, <1>4, <1>5 DEF Over
<1> HIDE DEF merged
<1>8. after = body
    BY <1>2, <1>3, <1>6, <1>7 DEF Without, Fun!Restrict
<1>9. Effect(cluster, r) = With(cluster, SettingsID, after)
    BY <1>1, <1>3, <1>8 DEF Effect, after, b
<1> QED  BY <1>4, <1>8, <1>9 DEF With, Over, b

\* The resource of a request is settled, and the others are as they were.
LEMMA SentSettles ==
    ASSUME DeclaredComesBack, SettingsKnown, Inv, NEW o \in Operator, NEW id \in DOMAIN run[o].work,
           cluster' = Effect(cluster, RequestOf(o, id))
    PROVE  /\ Settled(config, cluster', id)
           /\ \A x : x # id => Same(x, cluster, cluster')
<1> DEFINE r == RequestOf(o, id)
<1>1. SettingsNamed
    BY DEF DeclaredComesBack, SettingsNamed
<1>2. r.id = id /\ id \in AnyID /\ config \in Configs /\ ValidCluster(cluster)
    BY WorkFacts, RequestEffect DEF Inv
<1>3. id.type = "cluster_settings" => id = SettingsID /\ id \in declared
    BY <1>1, SettingsAreDeclared
<1>4. \A x : x # id => Same(x, cluster, cluster')
  <2> HIDE DEF r
  <2> QED  BY <1>2, <1>3, EffectTouches DEF Touched, r
<1>5. CASE id \in declared
  <2> DEFINE b == Desired(id)
             after == cluster'
  <2>1. id \in DOMAIN after /\ after[id] = b
    <3>1. CASE id.type = "cluster_settings"
      <4>1. r.verb = "PUT" /\ r.body = Desired(id)
          BY <1>5, <3>1, WorkFacts DEF RequestOf, Request, PutSettings, Put, Payload, Work
      <4> HIDE DEF r
      <4> QED  BY <1>2, <1>3, <3>1, <4>1, SettingsArePut DEF r
    <3>2. CASE id.type # "cluster_settings"
        BY <1>2, <1>5, <3>2, RequestEffect, DesiredComesBack
    <3> QED  BY <3>1, <3>2
  <2>2. id.type \in TypesOf(config) /\ ~Hidden(id)
      BY <1>2, <1>5 DEF TypesOf, declared, DeclaredComesBack
  <2>3. Reply(after, id) = b /\ ~Differs(id.type, config.body[id], b)
    <3> HIDE DEF after
    <3> QED  BY <1>2, <1>5, <2>1, DesiredComesBack DEF Reply
  <2> HIDE DEF b, after
  <2>4. Settled(config, after, id)
      BY <1>5, <2>1, <2>2, <2>3 DEF Settled, Seen, declared
  <2> QED  BY <1>4, <2>4 DEF after
<1>6. CASE id \notin declared
    BY <1>3, <1>4, <1>6, RequestEffect DEF Settled, Seen, declared
<1> QED  BY <1>4, <1>5, <1>6

\* What is as it was is settled if it was.
LEMMA SameSettled ==
    ASSUME NEW c, NEW cl1, NEW cl2, NEW id, Same(id, cl1, cl2), Settled(c, cl1, id)
    PROVE  Settled(c, cl2, id)
BY DEF Same, Settled, Seen, Reply

\* A request is carried out, and answered.
LEMMA LeadsSend ==
    ASSUME DeclaredComesBack, SettingsKnown, Inv, LeadsInv,
           NEW o \in Operator, NEW id \in DOMAIN run[o].work, Send(o, id)
    PROVE  LeadsInv'
<1> DEFINE r == run[o]
           w == [r.work[id] EXCEPT !.pc = "done"]
           s == Moved(r, id, w, r.failed)
           runs == [run EXCEPT ![o].work[id].pc = "done"]
<1>1. /\ RunOK(config, r) /\ r.stage = "apply" /\ WorkOK(config, r.live, id, r.work[id])
    BY WorkFacts
<1>2. WorkOK(config, r.live, id, w) /\ w.pc = "done"
    BY <1>1 DEF WorkOK
<1>3. runs[o] = s /\ \A p \in Operator \ {o} : runs[p] = run[p]
  <2>1. s = [r EXCEPT !.work = [r.work EXCEPT ![id] = w]]
    <3> HIDE DEF w
    <3> QED  BY <1>1 DEF Moved, RunOK
  <2>2. o \in DOMAIN run
      BY DEF Inv
  <2> HIDE DEF s
  <2> QED  BY <2>1, <2>2 DEF Inv
<1>4. Write(RequestOf(o, id), runs, {o}) /\ UNCHANGED <<config, clean>>
    BY DEF Send
<1>5. cluster' = Effect(cluster, RequestOf(o, id))
    BY <1>4 DEF Write
<1>6. /\ RunOK(config, s)
      /\ s.stage = r.stage /\ s.layers = r.layers /\ s.failed = r.failed
      /\ s.work[id] = w /\ \A x \in DOMAIN r.work \ {id} : s.work[x] = r.work[x]
  <2> HIDE DEF w
  <2> QED  BY <1>1, <1>2, MovedOK, MovedFields
<1> HIDE DEF runs, s, w
<1>7. ASSUME o \in alone \cap clean PROVE Leads(config, cluster', s)
  <2>1. /\ r.failed = {}
        /\ \A x \in AnyID : Settled(config, cluster, x) \/ Pending(r, x)
        /\ \A i \in DOMAIN r.layers : \A ch \in r.layers[i] :
              ch.type = "noop" => Settled(config, cluster, ch.id)
      BY <1>1, <1>7 DEF LeadsInv, Leads
  <2>2. ASSUME NEW x, Settled(config, cluster, x) PROVE Settled(config, cluster', x)
    <3> DEFINE after == cluster'
    <3>1. Settled(config, after, id) /\ \A y : y # id => Same(y, cluster, after)
        BY <1>5, SentSettles
    <3> HIDE DEF after
    <3>2. Settled(config, after, x)
        BY <2>2, <3>1, SameSettled
    <3> QED  BY <3>2 DEF after
  <2>3. ASSUME NEW x \in AnyID, ~Settled(config, cluster', x) PROVE Pending(s, x)
    <3>1. x # id
        BY <1>5, <2>3, SentSettles
    <3>2. Pending(r, x)
        BY <2>1, <2>2, <2>3
    <3>3. PICK i \in DOMAIN r.layers : x \in Ids(r.layers[i]) /\ (i = 1 => r.work[x].pc # "done")
        BY <3>2 DEF Pending
    <3>4. i = 1 => x \in DOMAIN r.work
        BY <1>1, <3>3 DEF RunOK
    <3> QED  BY <1>6, <3>1, <3>3, <3>4 DEF Pending
  <2> QED  BY <1>1, <1>6, <2>1, <2>2, <2>3 DEF Leads
<1>8. \A p \in alone \cap clean' : p \in {o} \/ cluster' = cluster =>
          RunOK(config, runs[p]) /\ Leads(config, cluster', runs[p])
  <2> SUFFICES ASSUME NEW p \in alone \cap clean, p = o \/ cluster' = cluster
               PROVE  RunOK(config, runs[p]) /\ Leads(config, cluster', runs[p])
      BY <1>4
  <2>1. CASE p = o
      BY <1>3, <1>6, <1>7, <2>1
  <2>2. CASE p # o
      BY <1>3, <2>2 DEF Inv, LeadsInv
  <2> QED  BY <2>1, <2>2
<1> QED  BY <1>4, <1>8, LeadsWrites

\* A request is lost on its way, or its answer is: the run is not clean.
LEMMA LeadsLost ==
    ASSUME Inv, LeadsInv, NEW o \in Operator, NEW id \in DOMAIN run[o].work, Lost(o, id)
    PROVE  LeadsInv'
<1>1. clean' = clean \ {o} /\ UNCHANGED config
    BY DEF Lost
<1>2. \A p \in Operator \ {o} : Failing(o, id)[p] = run[p]
    BY FailingOthers
<1>3. CASE run' = Failing(o, id) /\ UNCHANGED <<cluster, alone>>
    BY <1>1, <1>2, <1>3, LeadsFail
<1>4. CASE Write(RequestOf(o, id), Failing(o, id), {o})
  <2>1. \A p \in alone \cap clean' : p \in {o} \/ cluster' = cluster =>
            RunOK(config, Failing(o, id)[p]) /\ Leads(config, cluster', Failing(o, id)[p])
      BY <1>1, <1>2 DEF Inv, LeadsInv
  <2> QED  BY <1>1, <1>4, <2>1, LeadsWrites
<1> QED  BY <1>3, <1>4 DEF Lost

\* Administrators write: nobody is alone.
LEMMA LeadsMeddle ==
    ASSUME Inv, LeadsInv, Meddle
    PROVE  LeadsInv'
<1>1. alone' = {}
    BY DEF Meddle, Write
<1> QED  BY <1>1 DEF LeadsInv

\* LeadsInv is inductive above Inv: one lemma an action.
LEMMA LeadsNext ==
    ASSUME DeclaredComesBack, SettingsKnown, Inv, LeadsInv, [Next]_vars
    PROVE  LeadsInv'
<1>1. CASE UNCHANGED vars
    BY <1>1 DEF vars, LeadsInv
<1>2. ASSUME NEW o \in Operator, Run(o) PROVE LeadsInv'
  <2>1. CASE Begin(o)
      BY <2>1, LeadsBegin
  <2>2. CASE \E type \in run[o].todo : Read(o, type)
      BY <2>2, LeadsRead
  <2>3. CASE ReadPage(o)
      BY <2>3, LeadsReadPage
  <2>4. CASE Plan(o)
      BY <2>4, LeadsPlan
  <2>5. ASSUME NEW id \in DOMAIN run[o].work, Apply(o, id) PROVE LeadsInv'
    <3>1. CASE Start(o, id)
        BY <3>1, LeadsStart
    <3>2. CASE Fetch(o, id)
        BY <3>2, LeadsFetch
    <3>3. CASE Send(o, id)
        BY <3>3, LeadsSend
    <3>4. CASE Rejected(o, id)
        BY <3>4, FailingOthers, LeadsFail DEF Rejected, Fail
    <3> QED  BY <2>5, <3>1, <3>2, <3>3, <3>4 DEF Apply
  <2>6. CASE NextLayer(o)
      BY <2>6, LeadsNextLayer
  <2>7. CASE Finish(o)
      BY <2>7, LeadsFinish
  <2> QED  BY <1>2, <2>1, <2>2, <2>3, <2>4, <2>5, <2>6, <2>7 DEF Run
<1>3. ASSUME NEW o \in Operator, Kill(o) PROVE LeadsInv'
  <2>1. \A p \in Operator \ {o} : run'[p] = run[p]
      BY <1>3 DEF Kill, Inv
  <2> QED  BY <1>3, <2>1, LeadsFail DEF Kill
<1>4. CASE Environment
    BY <1>3, <1>4, LeadsLost, LeadsMeddle DEF Environment
<1> QED  BY <1>1, <1>2, <1>4 DEF Next

\* CleanRunSettles of OpenSearchRuns: a run without failures, during which and
\* since which nobody else has written, leaves nothing to do, however the pages,
\* layers and requests of the operators interleave, if what is declared can
\* come back and the cluster has no settings but declared ones.
THEOREM CleanRunSettlesHolds == DeclaredComesBack /\ Spec /\ []SettingsKnown => []CleanRunSettles
<1> SUFFICES ASSUME DeclaredComesBack PROVE Spec /\ []SettingsKnown => []CleanRunSettles
    OBVIOUS
<1>1. Init => LeadsInv
    BY DEF Init, LeadsInv
<1>2. Inv /\ LeadsInv /\ SettingsKnown /\ [Next]_vars => LeadsInv'
    BY LeadsNext
<1>3. Inv /\ LeadsInv => CleanRunSettles
  <2> SUFFICES ASSUME Inv, LeadsInv, NEW o \in alone \cap clean, run[o].stage = "idle"
               PROVE  NothingToDo(LiveNow)
      BY DEF CleanRunSettles
  <2>1. \A id \in AnyID : Settled(config, cluster, id)
      BY DEF LeadsInv, Leads
  <2> QED  BY <2>1, ChangesNow DEF NothingToDo
<1> QED  BY <1>1, <1>2, <1>3, InvInit, InvNext, PTL DEF Spec
=============================================================================
