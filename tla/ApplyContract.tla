---------------------------- MODULE ApplyContract ----------------------------
(***************************************************************************)
(* What the apply phase promises, with no goroutines, layers or locks:     *)
(* every change of the plan gets one fate, after the fate of everything it *)
(* depends on is known, and a failure stops exactly what is downstream of  *)
(* it ("Independent resources apply in parallel. Dependency chains stop on *)
(* first error. Per-resource result reporting", README.md).                *)
(*                                                                         *)
(* The detailed specification is Executor, which is checked to implement   *)
(* this one.                                                               *)
(***************************************************************************)
EXTENDS Dependencies

CONSTANT Resource   \* identities of the changes in the plan

VARIABLES
    plan,       \* the plan being applied
    fate        \* what became of each change so far

vars == <<plan, fate>>

Fate == {"pending", "unchanged", "applied", "failed", "skipped"}

\* What the contract needs of a plan: a dependency graph without cycles.
Init ==
    /\ plan.dep \in DependencyGraphs(Resource) /\ Acyclic(plan.dep)
    /\ plan.change \in [Resource -> {"create", "update", "delete", "noop"}]
    /\ fate = [r \in Resource |-> "pending"]

\* Something r depends on, directly or not, has failed.
Tainted(r) == \E d \in Upstream(plan.dep, r) : fate[d] = "failed"

\* The fates open to change r once its dependencies have theirs. A change
\* that needs no work is reported as such whatever happened upstream.
Outcomes(r) ==
    IF plan.change[r] = "noop" THEN {"unchanged"}
    ELSE IF Tainted(r) THEN {"skipped"}
    ELSE {"applied", "failed"}

Settle(r) ==
    /\ fate[r] = "pending"
    /\ \A d \in Upstream(plan.dep, r) : fate[d] # "pending"
    /\ \E f \in Outcomes(r) : fate' = [fate EXCEPT ![r] = f]
    /\ UNCHANGED plan

Next == \E r \in Resource : Settle(r)

Spec == Init /\ [][Next]_vars /\ WF_vars(Next)
=============================================================================
