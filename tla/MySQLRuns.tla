------------------------------ MODULE MySQLRuns ------------------------------
(***************************************************************************)
(* Runs of "datastorectl apply" against a MySQL server: each run discovers *)
(* the server's state, plans, and executes the plan layer by layer, the    *)
(* changes of a layer in parallel, each as a script of statements that the *)
(* single connection interleaves with those of the others. Nothing is kept *)
(* between two runs. A run may be killed between any two statements, a     *)
(* statement may be lost with its connection, before or after the server   *)
(* has executed it, and administrators change the server meanwhile.        *)
(*                                                                         *)
(* Composes MySQLHandlers with the graph and ordering of DepGraph; the     *)
(* skipping of changes below a failure is that of Executor.                *)
(***************************************************************************)
EXTENDS MySQLHandlers

CONSTANTS
    Configs,    \* declared resources and options: [body, refs, prune, allow]
    Servers,    \* the states the server may be in at first
    Meddling,   \* statements administrators may send
    MaxFaults,  \* bound on kills, lost statements and meddling together
    Caller,     \* the account the provider is connected as
    Required,   \* privileges the provider needs
    SystemScope \* the scopes of the schema mysql

\* What passes Validate and ValidateResources: an account is not declared as a
\* user and as a role.
ValidConfig(c) ==
    LET ids == DOMAIN c.body
    IN  /\ ids \subseteq ResourceID
        /\ \A id \in ids : c.body[id] \in ValidBodies(id.type)
        /\ c.refs \in [ids -> SUBSET ids]
        /\ c.prune \in BOOLEAN /\ c.allow \in BOOLEAN
        /\ \A a \in Account : ~{UserId(a), RoleId(a)} \subseteq ids

ASSUME ConfigsAssumption ==
    /\ \A c \in Configs : ValidConfig(c)
    /\ Servers \subseteq Server /\ Meddling \subseteq Statement
    /\ MaxFaults \in Nat
    /\ Caller \in Account /\ Required \subseteq Priv /\ SystemScope \subseteq Scope

VARIABLES
    server,     \* the server's state
    config,     \* what the operator's files declare
    layers,     \* the layers of the run not finished yet; <<>> between runs
    work,       \* the goroutines of the current layer: [op, pc, script]
    dep,        \* the dependency graph of the run
    failed,     \* the resources that failed in this run
    clean,      \* nothing failed and nobody meddled since the last plan
    armed,      \* somebody changed the caller's account, or granted it
                \* something, since the last plan
    faults      \* faults so far

vars == <<server, config, layers, work, dep, failed, clean, armed, faults>>

Idle == layers = <<>>

declared == DOMAIN config.body

Init ==
    /\ server \in Servers
    /\ config \in Configs
    /\ layers = <<>> /\ work = <<>> /\ dep = <<>> /\ failed = {}
    /\ clean = FALSE /\ armed = FALSE
    /\ faults = 0

-----------------------------------------------------------------------------
(* Planning. *)

Live == {id \in Discover(server) : \E d \in declared : d.type = id.type}

\* (Mutant of Kept: deletes are kept whatever the options.)
KeptAlways(changes) == changes

\* Without --prune the deletes are only listed.
Kept(changes) ==
    IF config.prune THEN changes ELSE {c \in changes : c.type # "delete"}

Changes ==
    Kept({[id |-> d, type |-> "create"] : d \in declared \ Live}
          \cup {[id |-> d, type |-> IF Differs(d, config.body[d], server)
                                    THEN "update" ELSE "noop"] : d \in declared \cap Live}
          \cup {[id |-> l, type |-> "delete"] : l \in Live \ declared})

NothingToDo == \A c \in Changes : c.type = "noop"

TypeOrderings == {[before |-> "user", after |-> "grant"],
                  [before |-> "user", after |-> "role"],
                  [before |-> "role", after |-> "grant"]}

\* The graph of a plan is over the declared resources and those to delete.
G == INSTANCE DepGraph WITH Id <- declared \cup {c.id : c \in Changes}

Graph ==
    LET ids == declared \cup {c.id : c \in Changes}
    IN  G!BuildGraph(declared,
                     [id \in ids |-> IF id \in declared THEN config.refs[id] ELSE {}],
                     [id \in ids |-> id.type], TypeOrderings)

WithDeletes(g) ==
    [g EXCEPT !.nodes = @ \cup {c.id : c \in {d \in Changes : d.type = "delete"}}]

\* Scopes a loss of which may lock the provider out.
Risky == {Global} \cup SystemScope

\* (Mutant of LocksOut: roles granted to the caller are not considered.)
LocksOutIgnoringRoles(id) ==
    /\ id.acct = Caller
    /\ \/ id.type = "user"
       \/ /\ id.type = "grant" /\ id.scope \in Risky
          /\ Shown(server, Caller, id.scope) \cap (Required \cup {"ALL"}) # {}

\* The classify functions of the guard: deleting the caller's own account, a
\* grant of its on a risky scope with a required privilege, or a role granted
\* to it.
LocksOut(id) ==
    \/ id = UserId(Caller)
    \/ \E s \in Risky :
          /\ id = GrantId(Caller, s)
          /\ Shown(server, Caller, s) \cap (Required \cup {"ALL"}) # {}
    \/ id.type = "role" /\ <<id.acct, Caller>> \in server.edges

Guarded == \E c \in Changes : c.type = "delete" /\ LocksOut(c.id)

Refused == Guarded /\ ~config.allow

Goroutine(c) ==
    [op |-> c.type, pc |-> IF c.type = "noop" THEN "done" ELSE "start", script |-> <<>>]

\* A goroutine for each change of the layer.
Spawn(layer) == [id \in {c.id : c \in layer} |->
                    Goroutine(CHOOSE c \in layer : c.id = id)]

\* Discover, diff, guard and order. With nothing to do a run changes nothing.
Plan ==
    /\ Idle /\ ~NothingToDo
    /\ ~Refused
    /\ ~G!HasCycle(Graph)
    /\ layers' = G!OrderPlan(G!Indexed(Changes), WithDeletes(Graph))
    /\ work' = Spawn(layers'[1])
    /\ dep' = [d \in declared |-> G!DependsOn(Graph, d)]
    /\ clean' = TRUE /\ armed' = FALSE
    /\ UNCHANGED <<server, config, failed, faults>>

-----------------------------------------------------------------------------
(* Applying. *)

ShouldSkip(id) == id \in declared /\ Upstream(dep, id) \cap failed # {}

BodyOf(id) == IF id \in declared THEN config.body[id] ELSE <<>>

\* The skip check, or the first reads of the handler.
Start(id) ==
    /\ work[id].pc = "start"
    /\ work' = [work EXCEPT ![id] =
          IF ShouldSkip(id) THEN [@ EXCEPT !.pc = "done"]
          ELSE [@ EXCEPT !.pc = "running",
                         !.script = Script(work[id].op, id, BodyOf(id), server)]]
    /\ UNCHANGED <<server, config, layers, dep, failed, clean, armed, faults>>

Running(id) == work[id].pc = "running"

NextStatement(id) == Head(work[id].script)

\* The server executes the next statement.
Execute(id) ==
    /\ Running(id) /\ work[id].script # <<>>
    /\ Accepted(server, NextStatement(id))
    /\ server' = Effect(server, NextStatement(id))
    /\ work' = [work EXCEPT ![id].script = Tail(@)]
    /\ UNCHANGED <<config, layers, dep, failed, clean, armed, faults>>

Succeed(id) ==
    /\ Running(id) /\ work[id].script = <<>>
    /\ work' = [work EXCEPT ![id].pc = "done"]
    /\ UNCHANGED <<server, config, layers, dep, failed, clean, armed, faults>>

Fail(id) ==
    /\ work' = [work EXCEPT ![id].pc = "done", ![id].script = <<>>]
    /\ failed' = failed \cup {id}
    /\ clean' = FALSE

\* The server rejects it; Apply returns the error and sends nothing more.
Rejected(id) ==
    /\ Running(id) /\ work[id].script # <<>>
    /\ ~Accepted(server, NextStatement(id))
    /\ Fail(id)
    /\ UNCHANGED <<server, config, layers, dep, armed, faults>>

Fault == faults < MaxFaults /\ faults' = faults + 1

\* The connection breaks before or after the server has executed it.
Lost(id) ==
    /\ Running(id) /\ work[id].script # <<>>
    /\ Fault
    /\ \/ UNCHANGED server
       \/ /\ Accepted(server, NextStatement(id))
          /\ server' = Effect(server, NextStatement(id))
    /\ Fail(id)
    /\ UNCHANGED <<config, layers, dep, armed>>

LayerDone == ~Idle /\ \A id \in DOMAIN work : work[id].pc = "done"

NextLayer ==
    /\ LayerDone /\ Len(layers) > 1
    /\ layers' = Tail(layers)
    /\ work' = Spawn(layers'[1])
    /\ UNCHANGED <<server, config, dep, failed, clean, armed, faults>>

\* (Mutant of Finish: the failures of a run are remembered in the next.)
FinishAndRemember ==
    /\ LayerDone /\ Len(layers) = 1
    /\ layers' = <<>> /\ work' = <<>> /\ dep' = <<>>
    /\ UNCHANGED <<server, config, failed, clean, armed, faults>>

Finish ==
    /\ LayerDone /\ Len(layers) = 1
    /\ layers' = <<>> /\ work' = <<>> /\ dep' = <<>> /\ failed' = {}
    /\ UNCHANGED <<server, config, clean, armed, faults>>

-----------------------------------------------------------------------------
(* The environment. *)

\* The process is killed: goroutines and connection are gone.
Kill ==
    /\ ~Idle /\ Fault
    /\ layers' = <<>> /\ work' = <<>> /\ dep' = <<>> /\ failed' = {}
    /\ clean' = FALSE
    /\ UNCHANGED <<server, config, armed>>

\* What the step makes of the caller is more than the guard looked at.
CallerChanged ==
    \/ server'.row[Caller] # server.row[Caller]
    \/ \E s \in Risky : ~(server'.held[<<Caller, s>>] \subseteq server.held[<<Caller, s>>])
    \/ \E e \in server'.edges \ server.edges : e[2] = Caller

Meddle ==
    /\ Fault
    /\ \E st \in Meddling :
          Accepted(server, st) /\ server' = Effect(server, st)
    /\ clean' = FALSE /\ armed' = (armed \/ CallerChanged)
    /\ UNCHANGED <<config, layers, work, dep, failed>>

Apply(id) ==
    \/ Start(id)
    \/ Execute(id)
    \/ Rejected(id)
    \/ Succeed(id)

Run ==
    \/ Plan
    \/ \E id \in DOMAIN work : Apply(id)
    \/ NextLayer
    \/ Finish

Environment ==
    \/ \E id \in DOMAIN work : Lost(id)
    \/ Kill
    \/ Meddle

Next == Run \/ Environment

\* When a step of Run is possible: always in a run, and between two runs
\* unless there is nothing to do or planning ends with an error.
CanRun == ~Idle \/ (~NothingToDo /\ ~Refused /\ ~G!HasCycle(Graph))

\* The operator keeps running apply and a run keeps going; a fault never has
\* to happen. This is WF_vars(Run), with its ENABLED written out as CanRun.
Fairness == []<>~CanRun \/ []<><<Run>>_vars

Spec == Init /\ [][Next]_vars /\ Fairness
-----------------------------------------------------------------------------
(* Properties. *)

TypeOK ==
    /\ server \in Server
    /\ config \in Configs
    /\ \A id \in DOMAIN work :
          /\ id \in ResourceID
          /\ work[id].op \in {"create", "update", "delete", "noop"}
          /\ work[id].pc \in {"start", "running", "done"}
    /\ Idle => work = <<>> /\ failed = {}
    /\ failed \in SUBSET ResourceID
    /\ clean \in BOOLEAN /\ armed \in BOOLEAN /\ faults \in 0 .. MaxFaults

\* The accounts of the grants are declared, and so are the roles granted. The
\* code does not ask for it ("not yet implemented", grant.go, lines 22-26).
SelfContained ==
    \A id \in declared :
        /\ id.type = "grant" => {UserId(id.acct), RoleId(id.acct)} \cap declared # {}
        /\ id.type = "role" => \A g \in config.body[id].granted : RoleId(g) \in declared

\* Otherwise --prune drops an account of which something is declared.
PrunesApart == config.prune => SelfContained

\* README.md, line 147: after an apply, plan "should report no
\* changes".
NoChangesAfterApply == Idle /\ clean => NothingToDo

\* A run that nothing disturbed leaves nothing to do, unless it prunes an
\* account of which something is declared: then NoChangesAfterApply fails.
CleanRunSettles == Idle /\ clean /\ PrunesApart => NothingToDo

\* Whatever is killed, lost, rejected or changed behind its back, running
\* apply again and again brings the server to what is declared: no state a
\* half-executed script leaves is beyond repair. (Or the guard refuses to.) Of
\* accounts that nobody declares, grants may fail for ever.
Converges == SelfContained => <>[](NothingToDo \/ Refused)

\* A statement of a run, answered or lost; meddling moves no goroutine.
RunStatement == server' # server /\ work' # work

\* "plan and apply only create and update by default" (README.md, line 112):
\* without --prune a run leaves alone all accounts, role edges, privileges,
\* grant options and schemas that no resource declares, whatever handler does the work.
AdditiveLeavesRest ==
    [][RunStatement /\ ~config.prune =>
        /\ \A a \in Account : {UserId(a), RoleId(a)} \cap declared = {} =>
              server'.row[a] = server.row[a]
        /\ \A e \in Account \X Account : RoleId(e[2]) \notin declared =>
              (e \in server'.edges <=> e \in server.edges)
        /\ \A p \in Account \X Scope : GrantId(p[1], p[2]) \notin declared =>
              /\ server'.held[p] = server.held[p]
              /\ p \in server'.opt <=> p \in server.opt
        /\ \A s \in Schema : DatabaseId(s) \notin declared =>
              server'.schema[s] = server.schema[s]]_vars

\* "emitting only the needed GRANT and REVOKE statements" (grant.go, lines
\* 273-276): what is both held and declared stays held at every moment of a
\* run, so that a run killed between two statements takes nothing away. A run
\* that prunes an account takes what is declared of it as well.
KeepsWhatIsDeclared ==
    [][RunStatement /\ PrunesApart =>
        \A id \in declared :
            /\ id.type = "grant" =>
                  Meant(config.body[id].privs) \cap server.held[id.acct, id.scope]
                      \subseteq server'.held[id.acct, id.scope]
            /\ id.type = "role" =>
                  \A g \in config.body[id].granted :
                      <<g, id.acct>> \in server.edges => <<g, id.acct>> \in server'.edges]_vars

\* Without --allow-self-lockout no run takes from the caller its account, a
\* required privilege on *.* or the schema mysql, or a role granted to it, by a
\* delete: the guard, computed at plan time, still holds when the parallel
\* deletes are executed, whatever administrators do to the server meanwhile,
\* as long as they grant the caller nothing and leave its account alone.
DeletesSpareCaller ==
    [][RunStatement /\ ~config.allow /\ ~armed =>
        \A id \in DOMAIN work :
            work[id].op = "delete" /\ work'[id].script # work[id].script =>
                /\ server.row[Caller].exists => server'.row[Caller].exists
                /\ \A s \in Risky :
                      server.held[<<Caller, s>>] \cap Required \subseteq server'.held[<<Caller, s>>]
                /\ RolesOf(server)[Caller] \subseteq RolesOf(server')[Caller]]_vars
=============================================================================
