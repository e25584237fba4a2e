# datastorectl in TLA+

`datastorectl` reads resources declared in DCL files, discovers what is live on an OpenSearch
cluster or a MySQL server, plans the changes and applies them. This directory models the DCL
parser, the engine (conversion, diff, planning, ordering, concurrent execution), the MySQL provider
from its configuration to its statements, the OpenSearch handlers and the way from the command line
to a connection, and checks them with TLC on small instances. TLAPS proves, for all values of the
constants, the executor's safety and its refinement of an abstract contract, the whole planning
pipeline, the dependency graph with its topological sort, the safety of contexts and of a MySQL
session, and, for runs against a MySQL server and for concurrent runs against an OpenSearch cluster,
that they touch only what is declared, do not take it away, and do not lock the caller out.

## The system

| Component | Source | State | Operations |
|---|---|---|---|
| Planning pipeline | `engine/engine.go`, `plan_build.go` | desired and live resources, plan, guards | `plan`, `Apply` up to `Execute`, `DryRun` |
| Dependency graph | `engine/graph*.go`, `topo.go`, `plan_order.go` | nodes, forward and reverse lists | build, `RelabelNode`, `TopologicalSort`, `OrderPlan` |
| Executor | `engine/executor.go`, `skip.go`, `result.go` | failed set, results, goroutines | `Execute`, `ShouldSkip`, `MarkFailed` |
| Conversion, references, secrets | `engine/convert.go`, `refs.go`, `secrets.go` | resource set | convert, extract and resolve references |
| Values, diff | `provider/value.go`, `ordered_map.go`, `engine/diff.go` | none | `DiffResources` |
| MySQL handlers | `providers/mysql/{user,role,grant,database}.go` | the server's account tables | `Discover`, `Equal`, `Apply` |
| MySQL guards | `providers/mysql/account.go`, `cross_validate.go` | the caller's identity | `GuardDeletes`, `ValidateResources` |
| MySQL session | `providers/mysql/{provider,client,account}.go` | one pooled connection, the caller | `Configure`, `Discover` |
| MySQL statements, passwords | `providers/mysql/parse/`, `auth/` | the parsers' position | `ParseCreateUser`, `ParseGrant`, `Compare` |
| OpenSearch handlers and client | `providers/opensearch/` | cluster state, sequence numbers | one handler per resource type |
| Contexts | `config/config.go` | named contexts | parse, merge, resolve, filter |
| DCL | `dcl/parser.go`, `dcl/lexer.go` | current and next token, errors | `Parse` |
| Command line, output | `cmd/`, `output/` | none | run, format |

How they interact. The command line parses a directory's files and calls `Engine.Apply`. `plan` converts the
blocks, configures one provider per declared type, discovers, builds the graph from the blocks'
labels, normalizes (which may change identities, so the graph is relabelled), compares, moves the
deletes out unless `--prune` was given, and asks the providers which deletes would lock the caller
out. `Apply` refuses those, validates, orders the changes in layers and executes them. `Execute`
runs each layer's changes in parallel goroutines that share a result list and a failed set under a
mutex and call the providers without it. A MySQL handler's `Apply` is a script of statements over
a pool of one connection, which interleaves the scripts of a layer. Nothing is persisted: the next
run starts again from discovery.

What is hard:

* the skip check and the provider call are separate steps, other goroutines fail in between;
* cancellation at any moment;
* identities change while the graph is in use, and in-degrees count duplicate edges;
* deletes have no edges and run in parallel;
* scripts are not transactions: they fail, are lost or are killed half-way, and the next run has to
  repair what they leave;
* administrators change the server between discovery, the handler's own reads and the statements;
* nothing keeps two operators' runs apart: OpenSearch is discovered in several requests, policies
  page by page, and the one conditional write, of an ISM policy, uses a sequence number read a moment
  before, not the discovered state;
* references are found by one walk of a value and replaced by another; the form of a nested block
  depends on the schema or on how many there are; the diff mixes an equality that respects the
  order of keys with a comparison that does not;
* what a handler puts must come back, after the cluster's own additions and the stripping and
  sorting of `Discover` and `Normalize`, equal to what was declared, or no plan is ever empty;
* `Discover` of MySQL runs its queries over one connection, which the open rows of one query hold
  against the next; it reads statements back that the server words, with optional parts at every
  clause, and an account may be gone between its listing and its statement;
* a password is declared in clear and stored as a salted hash, or declared as a hash;
* the parser goes on after an error, at a place where it believes to be in a block again;
* contexts are kept by name, configurations by provider, and the check for several contexts is
  in the command and not in the engine.

PROJECT.json lists each hazard at its line with the properties that cover it.

What makes each component correct: the *executor* calls nothing below a failure or in a layer after
a cancellation, reports each change once and truthfully, and returns; the *pipeline* executes
what it plans, in the declared order, and deletes only on request; the *parser* reads what is written, takes nothing for what it is not and loses to an error
the attribute that has it only; the *session* is with the declared server or none, and what it
discovers is what the server holds, or an error; the *handlers* leave nothing to do after a clean run, converge after any fault, and never take
away what is declared, touch what is not, or lock the caller out unasked; the *command line* sends each resource to the
connection that it names.

## Modules

| Module | Models |
|---|---|
| `Parser` | the recursive descent over the tokens of a file, with its recovery: a stack of frames, one action per branch |
| `Dependencies` | the dependency relation and the set that `ShouldSkip`'s search visits, without recursion |
| `ApplyContract` | abstract specification of the apply phase: each change gets one fate, after those it depends on |
| `Executor` | `Execute`: one action per step of a goroutine between which others may run |
| `DepGraph` | the graph, relabelling, Kahn's sort and `OrderPlan` as operators |
| `Values` | value trees, conversion of blocks, references, secrets and the diff as recursive operators |
| `Bodies` | one resource from its block to its diff, one action per loop of the engine |
| `Planner` | `plan` and the gate of `Apply`: one action per group of steps between possible errors |
| `MySQLStatements` | the parsers of SHOW CREATE USER and SHOW GRANTS and the comparison of passwords, as operators |
| `MySQLAnswers` | what the server answers to the two statements (external) |
| `MySQLSession` | `Configure` and `Discover` over a pool of one connection, with failing queries and a second client |
| `MySQLServer` | the account tables and schemas of MySQL 8 and the statements the handlers send (external) |
| `MySQLHandlers` | `Discover`, difference and statement scripts of users, roles, grants and databases |
| `MySQLRuns` | repeated runs of apply over `MySQLHandlers` and `DepGraph`, with faults |
| `OpenSearchHandlers` | an OpenSearch cluster (external); `Discover`, `Normalize`, requests and guards of the nine handlers |
| `OpenSearchRuns` | concurrent runs of several operators over `OpenSearchHandlers` and `DepGraph`, with faults |
| `Contexts` | from the command line to connected providers: contexts, checks, configurations |
| `ExecutorProofs`, `DepGraphProofs`, `SortProofs`, `PlannerProofs`, `ContextsProofs`, `MySQLSessionProofs`, `MySQLRunsProofs`, `OpenSearchRunsProofs` | the theorems |
| `MCParser`, `MCExecutor`, `MCBodies`, `MCPlanner`, `MCMySQLSession`, `MCMySQLRuns`, `MCOpenSearchRuns`, `MCContexts` | the instances TLC checks |

**Parser.** A text is a sequence of tokens; the lexer's reading of characters is left out. `stack` holds
the calls under way, `pc` what the topmost one does next (`loop`, `value`, `return`), `ret` what a
call returned, `errs` the errors. The two tokens of lookahead are `Kind(at)` and `Kind(at + 1)`. A loop over
statements ends at `AtEnd` or with `TooManyErrors`, as it does in the code. `MCParser` writes syntax trees in every layout and expects the parser to read them
back: the definition of what should be read is this writing, not the parser. For files that are
wrong, `AcceptedIsRead` asks that a file without diagnostics be accounted for token by token.

**Executor.** `plan` holds the arguments of `Execute`, `layer` the loop index, `pc[r]` where the
goroutine of change `r` is, `failed` and `results` what the mutex guards, `cancelledIn` the layer
in which the context was cancelled, `outcome` what the provider did (the property needs to know,
the code does not). `StartLayer` is the loop with `wg.Wait`; `ReportNoOp`, `CheckSkip`,
`ReportSkipped`, `ReportSuccess` and `ReportFailure` are the mutex sections; `CheckContext`,
`LookupProvider` and `ProviderReturns` what happens between them. The read of `ctx.Err()` and the
branch on it are one step, as nothing shared is read after it.

**DepGraph.** Adjacency lists are bags (multiplicity of an edge), because their order is never
observed and their duplicates are: `RelabelNode` follows the code's order of moves and
overwrites, and `Entries` counts the entries of lists one by one, as the loops over them do. `KahnStep`
makes a round of Kahn's algorithm from the one before: a node enters the next layer when the
decrements of a layer take its in-degree to zero. The rounds are a recursive function, no RECURSIVE
operator, so that the sort can be proved about.

**Values and Bodies.** A value is a node with a kind, a name (the literal, or the function's name), keys
and children, so that `=` is `Value.Equal`; lists, maps and calls have children, and the keys of a
reference are its parts. `Convert`, `BuildDependencyGraph`, `ResolveReferences`, `ResolveSecrets` and
`DiffResources` are the steps of `Engine.plan` for one resource; any of them but the last may end the
run. The properties are stated by places (paths into a value), independently of the recursive
functions that they judge. A diff's path is a sequence; the code writes it with dots, so that a key with
a dot reads like a nested one, in the output only. The provider's Normalize comes between secrets and
diff and belongs to the handlers. One thing the model shows and no property forbids: a live null under
a key that is not declared is a removal, and a map literal that has a key twice keeps the last value.

**Planner.** `stage` is the next step. `Convert` rejects duplicate labels, `Discover` scopes the
live identities to the declared types, `BuildDependencyGraph`, `Normalize` (with the relabelling),
`BuildPlan`, `PrunePolicy`, `CollectDeleteGuards`, then `Refuse`, `Validate`, `CycleFound`, `Order`;
or `Show`, where `Plan` and `DryRun` end. The changes are a set in which `by` is the place in the
code's list, the deletes behind the blocks; of two changes with one id `ChangeIndex` keeps the last, as
the map of `plan_order.go:20` does. Resolving references and secrets changes bodies only and may fail:
such an error is covered by `NormalizeFails`. Whether a matched pair differs is any answer, and so are
the `guards`: any of the deletes, as each provider flags its own, and one whose check fails none (what is
flagged, and whether that is enough, is the matter of the two providers' models). `live` is a set of
identities, so that a server that shows two resources under one identity is outside this model.

**MySQL session.** `pc` is the next query; `conn` the pool, `busy` that the rows of a query hold its
only connection (`SetMaxOpenConns(1)`), `prov` the fields of the provider. `Validate` and `NewClient`
send nothing; each further step is one query that is answered or fails (`Lost`, bounded by
`bounds.faults`). `OpenList` and `CloseList` are the query and the `Close` of a list of accounts,
`ReadAccount` one SHOW statement, in any order. `Drop` is somebody else. `cut` remembers what the code
loses without an error, so that the properties can say that nothing else is lost. The parser of SHOW
CREATE USER is a table of rules (`Rules`): in each mode, what the parser may see, which field it sets,
and in which mode it goes on; `ReadClauses` is its loop. Where no rule begins with the current token the
parser goes back to the clauses. `MySQLAnswers` writes the statements from an account in the server's
order, so that `DiscoveredIsHeld` compares what went through the parser with the account itself. A
hash is a record of what it was made from, equal if these are: the digests are taken to be free of
collisions.

**MySQL runs.** The state of the server is `row` (users and roles alike), `edges` (`mysql.role_edges`),
`held` and `opt` (privileges and grant option for each account and scope). `Accepted` and `Effect`
say what the server makes of a statement; they follow the statements and comments of the
handlers and the captured output in `parse/testdata`, not MySQL's manual. In particular REVOKE ALL
takes the grant option, as `grant.go:360-363` says. A handler's `Script` is computed when its
goroutine starts, from a read of the server at that moment, and then executed statement by
statement (`Execute`), with other goroutines in between. `MySQLRuns` also has `Plan` (discovery to
ordering, one step, since it changes nothing), `Rejected`, `Lost` (with or without effect), `Kill`
and `Meddle`.

**OpenSearch.** A body is a function from field names to lists of numbers; the empty list is every
form of "not set" that the strip functions know. `Shown` adds what the cluster shows on its own,
`Stored` drops what it keeps to itself, `FromReply` and `Normalize` are the code's answer to that,
so that `CleanRunSettles` really compares a body that went out and came back. `Accepted` and
`Effect` are the cluster: settings are merged, everything else replaced, a policy that exists is
replaced under a condition only. Instead of a number, a pending request carries whether its
sequence number is still the current one (`cond`): `Outdated` turns it to "unmet" when anybody
writes the policy. Functions are put together with `Over`, the `@@` of TLC as a definition of its own,
which the provers can expand; a cluster has settings under one name only (`ClusterID`). For the same
reason a sorted list is defined by the place of each entry (`Place`, `InOrder`), not by a sorting
procedure, and a page of policies is the set of their positions in `Names`, of which `Nth` says which
one of the cluster's list each is: the pages, their order and what shifts when a policy is deleted
between two of them are those of the code. The graph of
a plan is over everything known at the time (`Known`), of which it joins the declared. `run[o]` is the process of operator `o`; `Read` and `ReadPage` are the requests of
its discovery, `Fetch`, `Send` and `Rejected` those of a change. Two operators apply the same
files, as two machines or two CI jobs would. `alone` and `clean` are for the properties: during and
since whose run nobody else wrote, and whose run had no failure.

**Contexts.** One action per step of `runApply` (and `runPlan`, which takes the same steps) and
of the first part of `Engine.plan`; each may stop the run. Errors that the code drops (of inline
contexts in `Merge`, of the conversion in `DetectMultipleContexts`) are dropped here. `Validates` is
the command validate. Contexts are well-formed; that a file cannot be read or parsed is a choice.

## Runs

| Run | Question | Instance |
|---|---|---|
| `executor` | do the goroutines keep the contract? | all acyclic graphs over 3 resources, all change types, all provider outcomes, one unregistered provider or none, cancellation anywhere: 65 thousand states |
| `bodies` | is what is declared what is compared, and is the diff the difference? | 307 blocks (lists, maps, nested blocks, references and secrets, with and without schema), 43 live bodies: 10 thousand states |
| `planner` | is what is planned what is executed, in order? | files of 2 and 3 blocks (user, role, grant), rewritten labels or not, at most one reference per block or a pair, all options, 6 servers, any guards: 87 thousand states |
| `planner_crossing` | ... also when a label is another block's identity, or two blocks normalize to one? | violated |
| `parser` | does the parser read what is written, lose little to an error, and end? | 49 files in 12 layouts, files with a broken value at every depth, every file that one edit of one token makes of 4 others, every text of up to 4 tokens of 6 kinds; 3 errors: 168 thousand states |
| `mysql_session` | is the session the declared one, and what it discovers what is held? | blocks with up to 2 wrong fields, 4 servers, accounts with any 2 settings or all, every line of SHOW GRANTS, an unknown word at every place, 2 faults and a dropped account: 126 thousand states |
| `mysql_runs` | do repeated runs converge without harm? | 9 declarations, 3 servers, 4 accounts, 3 scopes, 2 schemas, 2 faults: 163 thousand states |
| `mysql_leftover` | does a plan after an apply report no changes, as `README.md:147` of the repository says, if a declared user was locked, and with `--prune` if a grant's account is not declared? | violated (twice in one trace) |
| `opensearch_runs` | do concurrent runs converge without harm? | 6 declarations, 2 clusters, 2 operators, pages of 2 policies, 1 fault: 143 thousand states |
| `opensearch_guard` | ... also when the caller has its role by `and_backend_roles`? | violated |
| `contexts` | does each resource meet the connection it names? | up to 2 inline contexts, 1 in the configuration file, 2 resources, flag or not: 212 thousand states |
| `contexts_flag` | does `--context` select? | violated |

Why the bounds are enough. Three resources give chains, forks, joins and independent changes, and
a failure two steps upstream; a fourth adds no new relation between two goroutines, whose
interaction is pairwise through `failed` and `results`. In `bodies` a list has up to three elements
and a value two levels, enough for a difference before, behind and inside another. The planner needs two blocks for a relabelling
to meet another node and three for an ordering to pass through one. In `mysql_runs` two faults
let an administrator undo what a killed run did; scripts have at most three statements. In
`opensearch_runs` both operators prune, internal users and the caller's own among what they find, and an administrator
deletes as well; three policies on pages of two make a page full, a last page short and a policy
move from one page to the other; two operators are what it takes to refuse a sequence number, and
the second one's requests are also the disturbance that further faults would be. Contexts are
compared in pairs. In `parser` a value is nested up to two levels inside a block inside a block, which is every pair of
constructs that call each other; recovery looks at one bracket at a time, and three errors instead
of 20 let `addError` run out in short texts. In `mysql_session` a clause's optional parts meet
whatever clause can follow, which takes two settings; the exhaustive accounts have a good connection
and the faults a small server, as the two do not touch.

What the runs found, in full in PROJECT.json "findings": a relabelled node that overwrites another
one loses a change; an account is never unlocked, a limit never lifted; `--prune` drops an account that is
not declared together with its declared grants, which the same run has just brought about; the guard does not know
`and_backend_roles`; `--context` selects nothing.

Further behaviour that the models show or had to take a side on, and that no run checks:

* Deletes have no edges between them (`engine.go:191-195`) and form one parallel layer, although
  `plan_order.go:12` says that they follow the reverse order, dependents first.
* An update whose privileges are a full set, shown as ALL PRIVILEGES, revokes what is declared before
  it grants a part of it again (`grant.go:273-296`).
* A parser that meets a stray `}` between blocks does not move: the errors run out at 20 and the rest
  of the file is not read. `x y {` inside a block makes the recovery stop at the inner `}`, so that the
  outer block ends early. An unclosed `[` swallows everything up to the next `]`. A map literal keeps a
  key it has twice. A call over several lines with a broken argument costs further errors.
* A line of SHOW GRANTS that mixes table and column privileges is skipped as a whole. Privileges on
  `*.*` come in a line of static and a line of dynamic ones, which become two resources of one
  identity. A partial revoke fails the discovery of all grants, and an unknown word inside a list of
  privileges becomes part of a privilege's name.
* When a query for the caller's roles fails, the guard of the deletes works with the roles it has.
* The comparison of a clear-text password with an account that has none ends the plan with an error.
* Certificate files are read only if `tls` is `required`.

In the MySQL runs two things limit what is asked, and both are in the properties for a reader to see.
`PrunesApart`: with `--prune`, the accounts of grants and the roles granted are declared. The code does
not ask for it (`grant.go:22-26`: "not yet implemented"); `CleanRunSettles` and `KeepsWhatIsDeclared` do,
as they are false otherwise, which `mysql_leftover` shows of `NoChangesAfterApply`. Configurations that
do not satisfy it are in run `mysql_runs` all the same, for the other properties but `Converges`, as grants
of accounts that nobody declares fail for ever when they are not there (`SelfContained`). `armed`: between the
plan and its deletes somebody changed the caller's account or granted it a role or a privilege on `*.*` or `mysql.*`.
The guard knows the caller as it was when the provider was configured, and `DeletesSpareCaller` asks that
it hold whatever else administrators do meanwhile.

`CleanRunSettles` holds in the passing runs because their declarations stay clear of the cases in
which the code never settles. For MySQL these are: a grant option that is taken away (the GRANT sent
cannot revoke it), a full list of privileges, clauses that go back to their default, a user with a
comment (stored as an attribute that the handler never reads back), `grant_option = false` (never
discovered), a database without charset or collation. For OpenSearch: undeclared persistent
settings (they are discovered, compared and never put, so that every run sends the same update), a settings block not labelled `cluster`, a user with a password or hash (of which
`Discover` shows nothing), a declared resource that `Discover` hides. Contexts of the configuration
file never reach the engine: `LoadConfigFile` and `Merge` change nothing but `stage`, and a run
without inline contexts stops in `Configure`.

### Fairness

`Executor`: weak fairness of the main goroutine's steps and of each goroutine. The Go scheduler
runs what is runnable; that a provider call returns is the assumption that the driver and the HTTP
client do not hang. Nothing obliges the caller to cancel. `ApplyContract`: weak fairness of `Next`.
`MySQLRuns`: weak fairness of `Run`, i.e. the operator repeats `apply` while there is something to
do and a run makes progress; faults are never obliged to happen and are bounded by `MaxFaults`, so
that convergence is asked after the last of them. Its `ENABLED` is written out as `CanRun`.
`OpenSearchRuns`: the same for each operator, so that neither can starve the other; both may go on
at once for ever, and `Converges` says that they do not.
`Parser`: weak fairness of `Next`, as it is a loop of one thread; `Terminates` asks that every way
round its loops consumes a token or adds an error. `MySQLSession`: weak fairness of the program's
steps: a query is answered or fails, because the driver's calls return; nobody is obliged to drop an
account or to make a query fail. A query behind open rows is not enabled, so that `Ends` shows that no
handler leaves rows open.
`Bodies`, `Planner` and `Contexts` are sequential, have no loop, and no liveness property. Deadlock is not checked: an
executor that has returned, a file that is read, a session that has failed or discovered, a plan handed over, a run that has stopped and an idle server with
nothing to do do stop.

## Proofs

`ExecutorProofs` proves, for any set of resources and any set of plans that satisfy
`PlansAssumption` (layers disjoint, complete, and each dependency in an earlier layer):
`TypeCorrect`, `Invariance`, `CallsRespectFailures`, `ReportIsSound`, `NothingLostSilently` and
`CancellationStops`. That the pipeline delivers such plans is checked as `HandsOverValidPlan` in
run `planner` and proved as `PlansAreValid`; `MCExecutor` builds its plans with `DepGraph!OrderPlan`.

The safety properties are not inductive. `NoCallBelowFailure` at the call needs that the answer
of the earlier skip check still holds, which needs that nothing upstream can still fail, which
needs that everything upstream is in an earlier layer (`UpstreamEarlier`, from the layering) and that
earlier layers are finished (`BarrierInv`). `ReportInv` ties the results to the finished
goroutines and to the failed set, `GoroutineInv` records what a goroutine knows at each step, and
`CancelInv` that later layers stop at the check. `IInv` is their conjunction with the type
invariant and the two report properties that are inductive relative to it. There is one lemma per
conjunct; the transitive closure is handled as a smallest closed set, which spares an induction over
its steps.

The module also proves, from the same invariant, that every step of `Executor` is a step of
`ApplyContract` or a stutter (`StepsKeepContract`): a report settles the fate of one change
(`ReportSettles`), after the fates of all that it depends on, and in a way the contract allows. The
contract's fairness is checked by TLC in `ImplementsContract`.

`ContextsProofs` proves for any names, finite sets of contexts and resources, and options:
`TypeCorrect`, `ConnectionsAreRight`, `RailHolds` and `ValidatedBeforeConnected`. The invariant has
one part per stage of the command: what detection, conversion, resolution and the building of
configurations established is still true when the providers are connected. That a resource meets
the right connection needs that each provider has one context only (`OnlyConnection`), which
`BuildConfigs` checks as it overwrites. The assumption (`InputsAssumption`) is that files are
well-formed.

`DepGraphProofs` is about operators. `BuildInStep`: construction leaves forward and reverse lists
in step, for any references and a finite set of orderings. `RelabelPreservesEdges`: what
`graph.go:61-62` says of `RelabelNode`, with the condition under which it is true, that the new name
names no node; edges of a node to itself and duplicate edges are preserved too. `RelabelKeepsAcyclic`:
under that condition the renamed graph has no new cycle, for which a closed set that avoids a node is
carried over by name. Run `planner_crossing` violates the condition, not the theorem.

`SortProofs` is about `TopologicalSort` and `OrderPlan`, for any finite graph whose forward and reverse
lists agree. `SortIsLayered`: the layers are disjoint, and what a node depends on is in an earlier
one. `CycleErrorIsExact`: `CycleError` is reported exactly if there are nodes that each depend on one of
them. `OrderPlanPlacesAll`: each change of the index is in exactly one layer, in the right order, also
where layers without changes are dropped. The invariant of the rounds (`RoundRight`) is that the
in-degree of a node is the number of entries in its list that are not placed yet, duplicates counted,
and that a layer has the nodes of which it just became zero. There are as many rounds as nodes and one
more, and as they are disjoint, one of them is empty, after which nothing is left to place
(`LastRoundEmpty`). An induction over rounds or places is done with the library's theorem on
well-founded relations: a counterexample would have a least index (`LeastNat`). Dropping empty layers
is a renumbering by rank (`NonEmptyKeepsOrder`).

`PlannerProofs` proves all five properties of run `planner`. `Shaped` (types, and that forward and
reverse lists agree) and `Warranted` (where deletes come from, and the guards) are inductive for any
files, from which follow `PlannerTypeOK` and `DeletesAlwaysWarranted`. The other three, `EveryChangeIsOrdered`, `PlansAreValid` and `DeclaredOrderIsRespected`, need `Apart`: no
block's normalized identity is another's label, and two blocks have one identity only if their
provider rejects that. `planner_crossing` shows that the code does not ensure it and what happens
then; every file of run `planner` satisfies it, rewritten labels or not. The invariant
`InOrder` says from which stage on the graph joins the normalized identities as the labels were joined
(`GraphRight`) and each block has its one change (`ChangesRight`). Its heart is
the relabelling of the nodes in turn (`RelabelAllRenames`): after i of them, the edges are those of the
labels with the first i renamed (`RenamedSoFar`), and the next name is still free, which is what
`RelabelPreservesEdges` asks. Assumed are finite sets of orderings and of discovered identities
(`InputsAssumption`).

`MySQLSessionProofs` proves `SessionIsRight` for any block, server and bound on failing queries, by
an invariant that says what each query of `Configure` has established, and that the steps of
`Discover` and of others take nothing of it back (`DiscoveryKeeps`). `EqualIsExact` is the comparison
of users for any account and declaration: `Compare` computes a hash of the declared plugin with the
stored salt and rounds, which is the stored one exactly if the passwords are the same (`SameParts`).
It assumes (`SessionAssumption`) that a stored string of a plugin is one that the plugin makes, and
that declarations pass `ValidateDeclared`.

`DiscoveryIsRight` (DiscoveredIsHeld) is about `Discover`, for any accounts, pool, failing queries, drops
in between and rows that break off: a handler ends with what the accounts of its kind hold, or with an
error. `DiscoveryInv` says in the middle of a handler what its end needs: each account it is concerned
with is still in its list, or was read, or was dropped, or was lost with a list of roles that broke off
(`ListedAt`); what it has read was held by an account; and why a handler may have failed. The hypothesis `ReadingIsExact` is
that the parsers make of a SHOW statement exactly what it says: they are recursive functions over
tokens, which the prover cannot follow, so that it is TLC that evaluates them, on every account of run
`mysql_session`.

`MySQLRunsProofs` proves `RunsTypeOK` and `AdditiveRunsLeaveRest` for any server, configuration, order of
the goroutines and number of faults. The invariant `RunsInv` says what each goroutine may still do: its
script is a sequence of statements about its own resource, one that drops it only in a delete
(`StatementsFor`); there are deletes only with `--prune`, and every other change is of a declared
resource. The property alone is not inductive, as it says nothing of statements not sent yet. The
invariant survives because a script is about its resource whatever state of the server the handler
read it from (`ScriptIsLocal`), however old that is, and because such a statement changes nothing else
(`EffectLocal`). That a plan with changes has a first layer, which `Plan` starts, follows from
`CycleErrorIsExact` and `OrderPlanPlacesAll`. Assumed are finite sets of accounts, scopes and schemas,
the global scope among them, at least one privilege, and that no privilege is called like the two words
that stand for all and none, nor a charset like the value for a missing schema (`ServerAssumption`), and declarations whose bodies pass `Validate` and of which none is of one account as
a user and as a role, which `ValidateResources` checks (`ConfigsAssumption`).

Two more properties of the MySQL runs need more of the invariant, as they ask what a script
still to be executed does to a server that has changed since it was written. `DeclaredIsKept`
(KeepsWhatIsDeclared): `KeepInv` adds that a REVOKE still to come names no declared privilege and no
declared role (`Keeping`), and that a delete drops no account that anything declares (`Retains`).
The property is about files that, with `--prune`, declare the accounts of their grants and the roles they
grant (`PrunesApart`, see above): a delete then drops no account that something declared is about. The
theorem takes two more hypotheses. `NamedOneByOne`: no privileges are declared as ALL, and none held in full where
some are declared. Otherwise SHOW GRANTS says ALL PRIVILEGES, which is not among the declared names,
and the handler revokes everything before it grants the declared part again: for a moment, or for
good if the run is killed there, what was held and declared is gone. `KindsAgree`: when a run plans, no
declared user is a role on the server, or the other way round; otherwise `--prune` drops one as the
leftover of the other. `DeletesSpareTheCaller` (DeletesSpareCaller): `SpareInv` says that each delete
still to come is one that the guard would let pass on the server as it is now (`Spares`), which the run's
own statements preserve, as they grant the caller nothing that is to be deleted (`NoMoreGranted`), and so do
those of administrators as long as they are not about the caller (`armed`). Its hypothesis is `CallerIsUser`: when a run plans, the caller is
a user, and what is granted to it are roles. MySQL lets a user be granted like a role, and the guard
looks for roles in the plan. All three hypotheses hold in every state of run `mysql_runs`, so that the
theorems speak about all of it.

`CleanRunLeavesNothing` (CleanRunSettles) is about where a run arrives, statement by statement. `LeadsInv`
says of a run that nothing has disturbed: every resource is settled (`Settled`: as declared, or gone where
the run prunes its type) or has a change in one of the layers left, no resource in two of them; a change
not started yet finds what its handler relies on (`Ready`), and the rest of a script leads to what is
declared (`Leads`). For scripts of one statement that means all of it, or nothing and the resource is
settled (`OneLeft`). A role's script still grants each edge that is missing and revokes each that is too
many (`EdgesLeft`). A grant's has at most one REVOKE, in front, and what is declared is held and not
taken by it, or granted after it (`GrantsLeft`). The proof looks at each statement twice. Of its own
resource it leaves a script that still leads (`OwnLeads`), from the server as it is now and not as the
handler read it. Of any other it changes nothing that is declared and brings nothing back
(`LeavesOthers`); for a delete that takes `Retains`, since dropping an account takes its grants and
edges with it. That a settled resource is one without a change in the next plan is a fact about
discovery and diff (`FoundAsDeclared`, `FoundUnlessGone`, `SettledIsFound`), and that a plan's layers
hold each change once follows from how the sort places them (`PlanIsOrdered`, `PlacesPart`).

Its hypotheses are the cases of which `CleanRunSettles` stays clear, in TLA+. `DeclaredComesBack`: what is
declared is shown under the same names once it is there (no comment, no full list of privileges and none
mixed with ALL or USAGE, no `grant_option = false`, no database without charset). `NothingToReset`: when
a run plans, no declared user has a lock, limit or attribute on the server that is not declared, and no
declared grant a grant option that is not; ALTER USER and GRANT cannot take these back, as run
`mysql_leftover` shows. `KindsAgree`, as above. And in the server's first state nothing is held by, or
granted to or from, accounts that do not exist (`NoOrphans`). The last three are stated of plans and
first states only; that nothing of the kind comes up later in a run is part of what is proved. All of
them hold in every state of run `mysql_runs`. The property has `PrunesApart` as `KeepsWhatIsDeclared` has.

`OpenSearchRunsProofs` proves the five action properties of run `opensearch_runs` and `CleanRunSettles`, for any number of operators, any clusters, declarations, orderings, pages, faults and
requests of administrators. `Inv` has two parts. `RunOK` holds of the run of each operator,
whoever else writes: what it has read is of a type it asked for and not hidden, what it planned is a
subset of the changes of what it has read that the guard lets pass (`Planned`), its layers and goroutines are for these changes, and
what it found failed. It survives every write of others, since a run's memory is its own, but for the
sequence numbers that become stale (`OneWrites`). `Tracks` holds of a run that
nobody else has written during (`alone`): what it read is still in the cluster, role by role; each
declared role and internal user is there, or is still to be written in this or a later layer, or has
failed; and a mapping that is about to be written has all of them behind it. From the second part
follows `MappingsFollowRolesHolds`; the rest is about any run, whoever else writes. `LeavesRestHolds` and
`TowardsDeclaredHolds` assume that a declared `cluster_settings` block is labelled `cluster`
(`SettingsNamed`); another label makes the declared settings and the discovered ones two resources,
of which the run creates one and deletes the other. `DeletesNeverFailHolds`: the cluster refuses a delete
only of what it protects, which `Discover` hides, so that no run plans it; what another operator has
deleted first counts as deleted (`Succeeds`, `DeleteSucceeds`). `DeletesSpareCallerHolds`: what the guard
let pass when the run planned is still no mapping that the caller has its role by, layers and requests of
others later, if the cluster shows it as the run found it (`IsAsFound`); of one that somebody has changed
since, the guard cannot know. It assumes that no mapping in
the cluster gives the caller its role by `and_backend_roles` alone (`NotTogether`), which is what run
`opensearch_guard` violates. `Invariance`, `MappingsFollowRolesHolds` and `DeletesNeverFailHolds` need no such hypothesis.

`CleanRunSettlesHolds` takes a second invariant above `Inv`: `LeadsInv`, of every run that has had no
failure and that nobody else has written during. While it reads, it has found of the policies all
that come before its offset in the cluster's list (`PagesRead`; `PageFacts` shows that a page and its
successor leave no gap and that the last one covers the rest), the declarations can be ordered and
the guard lets them pass. While it applies, every resource is settled or has a change that is
still to be sent (`Pending`), and what it takes for unchanged is settled. When it has ended, everything is
settled. So the plan is what a discovery in one moment gives (`AllRead`, `ChangesNow`), there is a
cycle in it if and only if the declarations need each other in a circle, whatever is live
(`CyclicIsUnorderable`, from `CycleErrorIsExact`), its layers hold all of its changes (`LayersOfPlan`),
nothing is skipped, and each request settles its resource and leaves the others alone (`SentSettles`). The
last is the matter of the handlers: a body that `Normalize` has made is one that it leaves alone
(`NormalizedIsCanonical`, `InOrderTwice`), and the defaults and metadata that the cluster adds are
those that `Discover` drops (`ComesBack`), type by type. Hypotheses: `DeclaredComesBack` (no declared
resource is hidden, no declared user has a password or hash, a settings block is labelled `cluster` and
sets something) and `[]SettingsKnown` (the cluster has no persistent setting that is not declared, if
any is). Without the second one the property is false: an undeclared setting is discovered and never put, so that
every run finds the same difference. The first lists the
other cases of which `CleanRunSettles` stays clear. Both, and `NotTogether` and `SettingsNamed`, hold in every state of run `opensearch_runs`.

Only model-checked: liveness (`Terminates`, `Ends`, `Converges`) and the fairness of
`ImplementsContract`, which are beyond the prover; everything about `Values`, `Bodies` and
`MySQLStatements`' parsers, which are recursive operators or functions (`ReadingIsExact` is what the session's
theorem needs of the parsers); and `Parser`, whose properties compare trees.

## Not modelled

Output, HTTP and the signing of requests transform data or do I/O and have no control that a state
machine would show. Of the lexers only the tokens are modelled, not characters, escapes and
positions; of TLS only which mode is used and whether its files can be used; of the digests only that
they depend on password, salt and rounds. `ValidateBlockVersions` and `FilterByContext` have no
caller. Bodies in `Planner` are abstract: the effect of a wrong diff is any answer. The handlers'
`Validate` checks the form of declarations; those of the MySQL runs pass it (`ValidBodies`), and so do
those of the OpenSearch runs. The order of
`composed_of`, which `Normalize` sorts before it is put, is invisible to a cluster that merges nothing.

## Plan

Done, in this order: `Executor` with its contract and proofs; `DepGraph` and `Planner`; the MySQL
runs; the OpenSearch modules; `Contexts`; `Values` and `Bodies`; `Parser`; `MySQLStatements` and
`MySQLSession`; the theorems on the contract, the contexts, the graph, the session, the topological
sort, the pipeline, the MySQL runs and the OpenSearch runs. Left:

1. The handlers' `Validate`.
2. Theorems: type correctness of `Parser`, and that its positions never go back.
3. The lexers on classes of characters.
