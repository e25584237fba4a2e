---------------------------- MODULE Dependencies ----------------------------
(***************************************************************************)
(* The dependency relation the apply phase works with: dep[r] is the set   *)
(* of resources r depends on directly (Graph.DependsOn), and Upstream is   *)
(* what SkipTracker.ShouldSkip's breadth-first search visits.              *)
(*                                                                         *)
(* Upstream is defined as a smallest closed set and not by recursion: the  *)
(* search of the code computes exactly that set, and this form can be      *)
(* proved about.                                                           *)
(***************************************************************************)

\* S contains r's direct dependencies and is closed under dependency.
ClosedAbove(dep, r, S) ==
    /\ dep[r] \subseteq S
    /\ \A x \in S : dep[x] \subseteq S

\* The transitive dependencies of r: the nodes the search from r reaches.
\* r itself is among them only if it lies on a cycle.
Upstream(dep, r) ==
    {d \in DOMAIN dep :
        \A S \in SUBSET DOMAIN dep : ClosedAbove(dep, r, S) => d \in S}

\* Dependency graphs over the nodes R.
DependencyGraphs(R) == [R -> SUBSET R]

\* No node depends on itself, directly or through others.
Acyclic(dep) == \A r \in DOMAIN dep : r \notin Upstream(dep, r)
=============================================================================
