------------------------------ MODULE Executor ------------------------------
(***************************************************************************)
(* engine.Execute: the concurrent application of an ordered plan.          *)
(*                                                                         *)
(* The main goroutine walks the layers of the plan; for each layer it      *)
(* starts one goroutine per change and waits for all of them (WaitGroup).  *)
(* A goroutine's program counter pc[r] names the point between two of its  *)
(* steps; each section under the mutex is one step, and so are the read of *)
(* ctx.Err(), the provider lookup and the provider call, between which any *)
(* other goroutine may run.                                                *)
(***************************************************************************)
EXTENDS Naturals, Sequences, Dependencies

CONSTANTS
    Resource,   \* identities of the changes in the plan
    Plans       \* the ordered plans Execute may be called with

ChangeType == {"create", "update", "delete", "noop"}

\* What OrderPlan guarantees of the layers: each change is in exactly one of
\* them, and in a later one than everything it depends on.
Layered(layers, dep) ==
    /\ \A r \in Resource : \E i \in DOMAIN layers : r \in layers[i]
    /\ \A i, j \in DOMAIN layers : i # j => layers[i] \cap layers[j] = {}
    /\ \A i \in DOMAIN layers : \A r \in layers[i] : \A d \in dep[r] :
          \E j \in 1 .. i - 1 : d \in layers[j]

ValidPlan(p) ==
    /\ p.dep \in DependencyGraphs(Resource)
    /\ p.layers \in Seq(SUBSET Resource)
    /\ p.change \in [Resource -> ChangeType]
    /\ p.registered \in SUBSET Resource
    /\ Layered(p.layers, p.dep)

ASSUME PlansAssumption == \A p \in Plans : ValidPlan(p)

VARIABLES
    plan,       \* the arguments of Execute: layers, graph, changes, providers
    layer,      \* the layer the main goroutine is in; 0 before the first
    pc,         \* where each change's goroutine is
    failed,     \* SkipTracker.failed
    results,    \* ApplyResult.Results
    cancelledIn,\* the layer in which ctx was cancelled, NotCancelled before
    outcome,    \* what the provider did with each change (ghost of the cluster)
    returned    \* Execute has returned

vars == <<plan, layer, pc, failed, results, cancelledIn, outcome, returned>>

PC == {"waiting", "spawned", "skip", "checkCtx", "ctxErr", "lookup",
       "noProvider", "calling", "applied", "erred", "done"}

Status == {"success", "failed", "skipped"}

ResourceResult == [id : Resource, status : Status]

NumLayers == Len(plan.layers)

\* Larger than the number of any layer of the plan being executed.
NotCancelled == NumLayers + 1

Init ==
    /\ plan \in Plans
    /\ layer = 0
    /\ pc = [r \in Resource |-> "waiting"]
    /\ failed = {}
    /\ results = <<>>
    /\ cancelledIn = NotCancelled
    /\ outcome = [r \in Resource |-> "none"]
    /\ returned = FALSE

-----------------------------------------------------------------------------
(* The main goroutine. *)

\* All goroutines of the current layer have called wg.Done.
LayerDone == layer > 0 => \A r \in plan.layers[layer] : pc[r] = "done"

\* (Mutant of StartLayer: the loop does not wait for the layer's goroutines.)
StartLayerWithoutWait ==
    /\ layer < NumLayers
    /\ layer' = layer + 1
    /\ pc' = [r \in Resource |->
                IF r \in plan.layers[layer + 1] THEN "spawned" ELSE pc[r]]
    /\ UNCHANGED <<plan, failed, results, cancelledIn, outcome, returned>>

\* wg.Wait returns and the loop takes the next layer.
StartLayer ==
    /\ LayerDone
    /\ layer < NumLayers
    /\ layer' = layer + 1
    /\ pc' = [r \in Resource |->
                IF r \in plan.layers[layer + 1] THEN "spawned" ELSE pc[r]]
    /\ UNCHANGED <<plan, failed, results, cancelledIn, outcome, returned>>

\* The loop over the layers ends and Execute returns its result.
Return ==
    /\ ~returned
    /\ LayerDone
    /\ layer = NumLayers
    /\ returned' = TRUE
    /\ UNCHANGED <<plan, layer, pc, failed, results, cancelledIn, outcome>>

-----------------------------------------------------------------------------
(* The goroutine of change r. *)

Goto(r, l) == pc' = [pc EXCEPT ![r] = l]

\* A section under the mutex that appends r's result and ends the goroutine.
Report(r, st) ==
    /\ results' = Append(results, [id |-> r, status |-> st])
    /\ Goto(r, "done")

\* No-ops succeed without calling the provider, and without a skip check.
ReportNoOp(r) ==
    /\ pc[r] = "spawned"
    /\ plan.change[r] = "noop"
    /\ Report(r, "success")
    /\ UNCHANGED <<plan, layer, failed, cancelledIn, outcome, returned>>

\* (Mutants of ShouldSkip: direct dependencies only; any failure at all.)
DirectFailure(r) == plan.dep[r] \cap failed # {}
FailureAnywhere(r) == failed # {}

ShouldSkip(r) == Upstream(plan.dep, r) \cap failed # {}

\* The answer is taken under the mutex and used after it is released.
CheckSkip(r) ==
    /\ pc[r] = "spawned"
    /\ plan.change[r] # "noop"
    /\ Goto(r, IF ShouldSkip(r) THEN "skip" ELSE "checkCtx")
    /\ UNCHANGED <<plan, layer, failed, results, cancelledIn, outcome, returned>>

ReportSkipped(r) ==
    /\ pc[r] = "skip"
    /\ Report(r, "skipped")
    /\ UNCHANGED <<plan, layer, failed, cancelledIn, outcome, returned>>

Cancelled == cancelledIn # NotCancelled

\* (Mutant of CheckContext: the context is never consulted.)
NoContextCheck(r) ==
    /\ pc[r] = "checkCtx"
    /\ Goto(r, "lookup")
    /\ UNCHANGED <<plan, layer, failed, results, cancelledIn, outcome, returned>>

CheckContext(r) ==
    /\ pc[r] = "checkCtx"
    /\ Goto(r, IF Cancelled THEN "ctxErr" ELSE "lookup")
    /\ UNCHANGED <<plan, layer, failed, results, cancelledIn, outcome, returned>>

\* (Mutant of LookupProvider: nothing handles a missing provider.)
LookupRegisteredOnly(r) ==
    /\ pc[r] = "lookup"
    /\ r \in plan.registered
    /\ Goto(r, "calling")
    /\ UNCHANGED <<plan, layer, failed, results, cancelledIn, outcome, returned>>

LookupProvider(r) ==
    /\ pc[r] = "lookup"
    /\ Goto(r, IF r \in plan.registered THEN "calling" ELSE "noProvider")
    /\ UNCHANGED <<plan, layer, failed, results, cancelledIn, outcome, returned>>

\* The provider call returns, with or without error diagnostics. No lock is
\* held while it runs.
ProviderReturns(r) ==
    /\ pc[r] = "calling"
    /\ \E o \in {"ok", "error"} :
          /\ outcome' = [outcome EXCEPT ![r] = o]
          /\ Goto(r, IF o = "ok" THEN "applied" ELSE "erred")
    /\ UNCHANGED <<plan, layer, failed, results, cancelledIn, returned>>

ReportSuccess(r) ==
    /\ pc[r] = "applied"
    /\ Report(r, "success")
    /\ UNCHANGED <<plan, layer, failed, cancelledIn, outcome, returned>>

\* (Mutants of ReportFailure: a status that is none of the three; cancelled
\* changes counted as skipped.)
ReportUnclassified(r) ==
    /\ pc[r] \in {"ctxErr", "noProvider", "erred"}
    /\ failed' = failed \cup {r}
    /\ Report(r, "error")
    /\ UNCHANGED <<plan, layer, cancelledIn, outcome, returned>>

ReportCancelledAsSkipped(r) ==
    /\ pc[r] \in {"ctxErr", "noProvider", "erred"}
    /\ IF pc[r] = "ctxErr" THEN failed' = failed /\ Report(r, "skipped")
       ELSE failed' = failed \cup {r} /\ Report(r, "failed")
    /\ UNCHANGED <<plan, layer, cancelledIn, outcome, returned>>

\* A cancelled context, a missing provider and a provider error all mark the
\* resource failed and report it in one section under the mutex.
ReportFailure(r) ==
    /\ pc[r] \in {"ctxErr", "noProvider", "erred"}
    /\ failed' = failed \cup {r}
    /\ Report(r, "failed")
    /\ UNCHANGED <<plan, layer, cancelledIn, outcome, returned>>

Goroutine(r) ==
    \/ ReportNoOp(r)
    \/ CheckSkip(r)
    \/ ReportSkipped(r)
    \/ CheckContext(r)
    \/ LookupProvider(r)
    \/ ProviderReturns(r)
    \/ ReportSuccess(r)
    \/ ReportFailure(r)

-----------------------------------------------------------------------------
\* The caller cancels the context, at any time before Execute returns.
Cancel ==
    /\ ~Cancelled
    /\ ~returned
    /\ cancelledIn' = layer
    /\ UNCHANGED <<plan, layer, pc, failed, results, outcome, returned>>

Next ==
    \/ StartLayer
    \/ Return
    \/ \E r \in Resource : Goroutine(r)
    \/ Cancel

\* Runnable goroutines are scheduled eventually and providers return from
\* Apply; nobody is obliged to cancel.
Fairness ==
    /\ WF_vars(StartLayer)
    /\ WF_vars(Return)
    /\ \A r \in Resource : WF_vars(Goroutine(r))

Spec == Init /\ [][Next]_vars /\ Fairness
-----------------------------------------------------------------------------
(* Properties. *)

TypeOK ==
    /\ ValidPlan(plan)
    /\ layer \in 0 .. NumLayers
    /\ pc \in [Resource -> PC]
    /\ failed \in SUBSET Resource
    /\ results \in Seq(ResourceResult)
    /\ cancelledIn \in 0 .. NotCancelled
    /\ outcome \in [Resource -> {"none", "ok", "error"}]
    /\ returned \in BOOLEAN

Reported(r) == \E i \in DOMAIN results : results[i].id = r

ReportedAs(r, st) ==
    \E i \in DOMAIN results : results[i] = [id |-> r, status |-> st]

\* A provider is called for a change only when everything upstream of it has
\* been reported and none of it has failed, although the skip check and the
\* call are separate steps and other goroutines mark failures in between
\* (executor.go, lines 41-87).
NoCallBelowFailure ==
    \A r \in Resource :
        (pc[r] = "calling" \/ outcome[r] # "none") =>
            \A d \in Upstream(plan.dep, r) : Reported(d) /\ d \notin failed

\* What a result says is what happened on the cluster: success means that the
\* provider's call returned without error or that nothing was to do, failure
\* that it did not, and a skipped change was never handed to its provider.
TruthfulReport ==
    \A i \in DOMAIN results :
        LET r == results[i].id
            st == results[i].status
        IN  /\ st = "success" <=> plan.change[r] = "noop" \/ outcome[r] = "ok"
            /\ st = "skipped" => outcome[r] = "none"

\* Each change is reported at most once, and exactly once when Execute returns:
\* the shared slice loses no append (executor.go, lines 18-20).
OneResultEach ==
    /\ \A i, j \in DOMAIN results :
          results[i].id = results[j].id => i = j
    /\ returned => \A r \in Resource : Reported(r)

\* A skipped change has a cause the user can read earlier in the report: the
\* failure of something upstream of it.
SkippedHasCause ==
    \A i \in DOMAIN results : results[i].status = "skipped" =>
        \E j \in 1 .. i - 1 :
            /\ results[j].status = "failed"
            /\ results[j].id \in Upstream(plan.dep, results[i].id)

\* The report can be relied upon: it says what happened, once for each change,
\* and gives the cause of every skip, although the goroutines of a layer append
\* to it in any order (executor.go, lines 18-20 and 31-102).
SoundReport == TruthfulReport /\ OneResultEach /\ SkippedHasCause

\* ApplyResult.HasErrors, which decides the exit code of apply.
HasErrors == \E i \in DOMAIN results : results[i].status = "failed"

\* Apply never looks successful when something was left undone: if the final
\* result has no failure, every change that needed work was applied.
NoSilentLoss ==
    returned /\ ~HasErrors =>
        \A r \in Resource : plan.change[r] = "noop" \/ outcome[r] = "ok"

\* Cancelling the context stops the apply at the layer boundary: a provider
\* call under way or just past the check may still run, but no change of a
\* later layer reaches its provider (executor.go, lines 54-63).
NoCallInLaterLayer ==
    \A i \in DOMAIN plan.layers : i > cancelledIn =>
        \A r \in plan.layers[i] : pc[r] # "calling" /\ outcome[r] = "none"

\* Execute returns, whatever fails, is skipped or is cancelled: no goroutine
\* leaves the WaitGroup waiting.
Terminates == <>returned

\* What Execute has decided about each change, as the contract sees it.
FateOf(r) ==
    IF ~Reported(r) THEN "pending"
    ELSE IF ReportedAs(r, "failed") THEN "failed"
    ELSE IF ReportedAs(r, "skipped") THEN "skipped"
    ELSE IF plan.change[r] = "noop" THEN "unchanged"
    ELSE "applied"

Contract == INSTANCE ApplyContract
                WITH fate <- [r \in Resource |-> FateOf(r)]

\* The concurrent executor implements the sequential contract: every run
\* settles the changes one by one as the contract allows, and settles all.
ImplementsContract == Contract!Spec
-----------------------------------------------------------------------------
(* The inductive invariant behind the safety properties.                   *)

\* Past the skip check, and committed to trying the change.
Trying == {"checkCtx", "ctxErr", "lookup", "noProvider", "calling",
           "applied", "erred"}

\* Earlier layers are finished, later ones have not started.
BarrierInv ==
    \A i \in DOMAIN plan.layers : \A r \in plan.layers[i] :
        /\ i < layer => pc[r] = "done"
        /\ i > layer => pc[r] = "waiting"
        /\ returned => pc[r] = "done"

\* The results are those of the finished goroutines, one each, and the failed
\* set of the skip tracker is the set of results with status failed.
ReportInv ==
    /\ \A r \in Resource : pc[r] = "done" <=> Reported(r)
    /\ \A i, j \in DOMAIN results : results[i].id = results[j].id => i = j
    /\ \A r \in Resource : r \in failed <=> ReportedAs(r, "failed")

\* What each goroutine knows at each of its steps. The skip check stays valid
\* after the mutex is released: nothing upstream can fail any more.
GoroutineInv ==
    \A r \in Resource :
        /\ pc[r] \in Trying =>
              /\ plan.change[r] # "noop"
              /\ Upstream(plan.dep, r) \cap failed = {}
        /\ pc[r] = "skip" =>
              /\ plan.change[r] # "noop"
              /\ Upstream(plan.dep, r) \cap failed # {}
        /\ outcome[r] # "none" =>
              /\ pc[r] \in {"applied", "erred", "done"}
              /\ plan.change[r] # "noop"
              /\ Upstream(plan.dep, r) \cap failed = {}
        /\ pc[r] = "applied" => outcome[r] = "ok"
        /\ pc[r] = "erred" => outcome[r] = "error"

\* Once cancelled, at a layer already begun, later layers stop at the check.
CancelInv ==
    /\ Cancelled => cancelledIn <= layer
    /\ \A i \in DOMAIN plan.layers : i > cancelledIn => \A r \in plan.layers[i] :
          /\ pc[r] \notin {"lookup", "noProvider", "calling", "applied", "erred"}
          /\ outcome[r] = "none"

IInv ==
    /\ TypeOK
    /\ BarrierInv
    /\ ReportInv
    /\ GoroutineInv
    /\ CancelInv
    /\ TruthfulReport
    /\ SkippedHasCause
=============================================================================
