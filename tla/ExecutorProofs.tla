--------------------------- MODULE ExecutorProofs ---------------------------
(***************************************************************************)
(* Safety of Executor for every set of resources and every set of ordered  *)
(* plans that satisfies PlansAssumption.                                   *)
(***************************************************************************)
EXTENDS Executor, TLAPS

-----------------------------------------------------------------------------
(* The layering and the dependency relation. *)

\* Whatever is upstream of a change lies in an earlier layer of the plan: the
\* barrier between layers therefore orders a change after all of it.
LEMMA UpstreamEarlier ==
    ASSUME NEW p, ValidPlan(p),
           NEW i \in DOMAIN p.layers, NEW r \in p.layers[i],
           NEW d \in Upstream(p.dep, r)
    PROVE  d \in Resource /\ \E j \in 1 .. i - 1 : d \in p.layers[j]
<1> DEFINE S == {x \in Resource : \E j \in 1 .. i - 1 : x \in p.layers[j]}
<1>1. /\ p.dep \in [Resource -> SUBSET Resource]
      /\ p.layers \in Seq(SUBSET Resource)
      /\ DOMAIN p.layers = 1 .. Len(p.layers)
      /\ Len(p.layers) \in Nat
  BY DEF ValidPlan, DependencyGraphs
<1>2. r \in Resource
  BY <1>1
<1>3. \A k \in DOMAIN p.layers : \A q \in p.layers[k] : \A c \in p.dep[q] :
         \E j \in 1 .. k - 1 : c \in p.layers[j]
  BY DEF ValidPlan, Layered
<1>4. p.dep[r] \subseteq S
  BY <1>1, <1>2, <1>3
<1>5. ASSUME NEW x \in S PROVE p.dep[x] \subseteq S
  <2>1. PICK k \in 1 .. i - 1 : x \in p.layers[k]
    OBVIOUS
  <2>2. k \in DOMAIN p.layers /\ \A j \in 1 .. k - 1 : j \in 1 .. i - 1
    BY <1>1
  <2>3. QED
    BY <1>1, <1>3, <2>1, <2>2
<1>6. ClosedAbove(p.dep, r, S) /\ S \in SUBSET DOMAIN p.dep
  BY <1>1, <1>4, <1>5 DEF ClosedAbove
<1>7. d \in S
  BY <1>6 DEF Upstream
<1>8. QED
  BY <1>7
-----------------------------------------------------------------------------
(* Types. *)

\* Execute begins with well-typed variables: whichever ordered plan it is
\* given, it has started no layer, and the report is empty.
LEMMA InitTyped == ASSUME Init PROVE TypeOK
<1>1. ValidPlan(plan)  BY PlansAssumption DEF Init
<1>2. NumLayers \in Nat  BY <1>1 DEF ValidPlan, NumLayers
<1>3. layer \in 0 .. NumLayers /\ cancelledIn \in 0 .. NotCancelled
  BY <1>2 DEF Init, NotCancelled
<1>4. results \in Seq(ResourceResult) /\ pc \in [Resource -> PC]
  BY DEF Init, PC
<1> QED  BY <1>1, <1>3, <1>4 DEF Init, TypeOK

\* Whatever a goroutine does keeps the types: a result it reports has the id
\* of its change and a status Execute knows, and any other step moves the
\* goroutine's own counter and outcome only.
LEMMA GoroutineTyped ==
    ASSUME TypeOK, NEW r \in Resource, Goroutine(r) PROVE TypeOK'
<1> USE DEF TypeOK, NumLayers, NotCancelled, Goto, PC
<1> DEFINE Appends == \E st \in Status : Report(r, st)
<1>1. ASSUME Appends PROVE results' \in Seq(ResourceResult)
  BY <1>1 DEF Report, ResourceResult
<1>2. CASE ReportNoOp(r) \/ ReportSkipped(r) \/ ReportSuccess(r) \/ ReportFailure(r)
  <2> Appends
    BY <1>2 DEF ReportNoOp, ReportSkipped, ReportSuccess, ReportFailure, Status
  <2> QED
    BY <1>2, <1>1
       DEF ReportNoOp, ReportSkipped, ReportSuccess, ReportFailure, Report
<1>3. CASE CheckSkip(r) \/ CheckContext(r) \/ LookupProvider(r) \/ ProviderReturns(r)
  BY <1>3 DEF CheckSkip, CheckContext, LookupProvider, ProviderReturns
<1> QED  BY <1>2, <1>3 DEF Goroutine

\* So do the main goroutine, which starts the layers one at a time and
\* returns after the last, and whoever cancels the context.
LEMMA NextTyped == ASSUME TypeOK, [Next]_vars PROVE TypeOK'
<1> USE DEF TypeOK, ValidPlan, NumLayers, NotCancelled
<1>1. CASE Return \/ UNCHANGED vars
  BY <1>1 DEF Return, vars
<1>2. CASE StartLayer \/ Cancel
  BY <1>2 DEF StartLayer, Cancel, PC
<1> QED  BY <1>1, <1>2, GoroutineTyped DEF Next

\* Every variable keeps its type, in particular the report holds well-formed
\* results only and the layer counter stays within the plan.
THEOREM TypeCorrect == Spec => []TypeOK
<1> QED  BY InitTyped, NextTyped, PTL DEF Spec

-----------------------------------------------------------------------------
(* What appending a result does to the report. *)

\* What reporting a result changes.
LEMMA ReportFacts ==
    ASSUME TypeOK, NEW r \in Resource, NEW st \in Status, Report(r, st)
    PROVE  /\ Len(results) \in Nat
           /\ DOMAIN results = 1 .. Len(results)
           /\ DOMAIN results' = 1 .. Len(results) + 1
           /\ \A i \in 1 .. Len(results) : results'[i] = results[i]
           /\ results'[Len(results) + 1] = [id |-> r, status |-> st]
           /\ \A q : Reported(q)' <=> Reported(q) \/ q = r
           /\ \A q, s : ReportedAs(q, s)' <=>
                            ReportedAs(q, s) \/ (q = r /\ s = st)
<1> DEFINE e == [id |-> r, status |-> st]
           n == Len(results)
<1>1. results \in Seq(ResourceResult) /\ e \in ResourceResult
      /\ results' = Append(results, e)
  BY DEF TypeOK, ResourceResult, Report
<1>2. /\ n \in Nat
      /\ DOMAIN results = 1 .. n
      /\ DOMAIN results' = 1 .. n + 1
      /\ \A i \in 1 .. n : results'[i] = results[i]
      /\ results'[n + 1] = e
  BY <1>1
<1> HIDE DEF n
<1>3. ASSUME NEW q PROVE Reported(q)' <=> Reported(q) \/ q = r
  <2>1. Reported(q)' <=> \E i \in 1 .. n + 1 : results'[i].id = q
    BY <1>2 DEF Reported
  <2>2. e.id = r
    OBVIOUS
  <2>3. (\E i \in 1 .. n + 1 : results'[i].id = q)
            <=> (\E i \in 1 .. n : results[i].id = q) \/ e.id = q
    BY <1>2
  <2>4. QED
    BY <1>2, <2>1, <2>2, <2>3 DEF Reported
<1>4. ASSUME NEW q, NEW s
      PROVE  ReportedAs(q, s)' <=> ReportedAs(q, s) \/ (q = r /\ s = st)
  <2> DEFINE x == [id |-> q, status |-> s]
  <2>1. ReportedAs(q, s)' <=> \E i \in 1 .. n + 1 : results'[i] = x
    BY <1>2 DEF ReportedAs
  <2>2. x = e <=> q = r /\ s = st
    OBVIOUS
  <2>3. (\E i \in 1 .. n + 1 : results'[i] = x)
            <=> (\E i \in 1 .. n : results[i] = x) \/ e = x
    BY <1>2
  <2>4. QED
    BY <1>2, <2>1, <2>2, <2>3 DEF ReportedAs
<1>5. QED
  BY <1>2, <1>3, <1>4 DEF n
-----------------------------------------------------------------------------
(* Each part of the invariant, step by step.                               *)

\* A change that is not waiting and not done is in the current layer, and
\* everything upstream of it is done, hence reported.
LEMMA RunningIsCurrent ==
    ASSUME TypeOK, BarrierInv, ReportInv,
           NEW r \in Resource, pc[r] \notin {"waiting", "done"}
    PROVE  /\ layer \in DOMAIN plan.layers
           /\ r \in plan.layers[layer]
           /\ ~returned
           /\ \A d \in Upstream(plan.dep, r) :
                 d \in Resource /\ pc[d] = "done" /\ Reported(d)
<1>1. PICK i \in DOMAIN plan.layers : r \in plan.layers[i]
  BY DEF TypeOK, ValidPlan, Layered
<1>2. /\ i = layer
      /\ ~returned
  BY <1>1 DEF BarrierInv, TypeOK, ValidPlan, NumLayers
<1>3. ASSUME NEW d \in Upstream(plan.dep, r)
      PROVE  d \in Resource /\ pc[d] = "done" /\ Reported(d)
  <2>1. d \in Resource /\ \E j \in 1 .. i - 1 : d \in plan.layers[j]
    BY <1>1, UpstreamEarlier DEF TypeOK
  <2>2. PICK j \in 1 .. i - 1 : d \in plan.layers[j]
    BY <2>1
  <2>3. j \in DOMAIN plan.layers /\ j < layer
    BY <1>1, <1>2, <2>2 DEF TypeOK, ValidPlan
  <2>4. pc[d] = "done"
    BY <2>2, <2>3 DEF BarrierInv
  <2>5. QED
    BY <2>1, <2>4 DEF ReportInv
<1>4. QED
  BY <1>1, <1>2, <1>3

\* When the main goroutine starts a layer, everything in it was waiting.
LEMMA StartedWereWaiting ==
    ASSUME TypeOK, BarrierInv, StartLayer
    PROVE  /\ layer + 1 \in DOMAIN plan.layers
           /\ \A r \in plan.layers[layer + 1] : r \in Resource /\ pc[r] = "waiting"
           /\ \A r \in Resource : pc'[r] = IF r \in plan.layers[layer + 1]
                                           THEN "spawned" ELSE pc[r]
<1>1. layer + 1 \in DOMAIN plan.layers /\ layer \in Nat
  BY DEF StartLayer, TypeOK, ValidPlan, NumLayers
<1>2. \A r \in plan.layers[layer + 1] : r \in Resource /\ pc[r] = "waiting"
  BY <1>1 DEF BarrierInv, TypeOK, ValidPlan
<1>3. QED
  BY <1>1, <1>2 DEF StartLayer

\* A goroutine's step moves its own counter only.
LEMMA GoroutineMoves ==
    ASSUME TypeOK, NEW r \in Resource, Goroutine(r)
    PROVE  /\ pc[r] \notin {"waiting", "done"}
           /\ pc'[r] # "waiting"
           /\ \A q \in Resource : q # r => pc'[q] = pc[q] /\ outcome'[q] = outcome[q]
           /\ UNCHANGED <<plan, layer, cancelledIn, returned>>
  BY DEF TypeOK, Goroutine, ReportNoOp, CheckSkip, ReportSkipped, CheckContext,
         LookupProvider, ProviderReturns, ReportSuccess, ReportFailure,
         Report, Goto

\* No step starts a change before its layer.
LEMMA BarrierStep ==
    ASSUME TypeOK, BarrierInv, ReportInv, [Next]_vars PROVE BarrierInv'
<1> USE DEF BarrierInv
<1>1. /\ \A i \in DOMAIN plan.layers : i \in 1 .. NumLayers
      /\ \A i \in DOMAIN plan.layers : \A q \in plan.layers[i] : q \in Resource
      /\ \A i, j \in DOMAIN plan.layers : i # j =>
            plan.layers[i] \cap plan.layers[j] = {}
      /\ layer \in 0 .. NumLayers /\ NumLayers \in Nat
  BY DEF TypeOK, ValidPlan, Layered, NumLayers
<1>2. CASE StartLayer
  <2>1. /\ layer + 1 \in DOMAIN plan.layers
        /\ \A r \in plan.layers[layer + 1] : r \in Resource /\ pc[r] = "waiting"
        /\ \A r \in Resource : pc'[r] = IF r \in plan.layers[layer + 1]
                                        THEN "spawned" ELSE pc[r]
    BY <1>2, StartedWereWaiting
  <2>2. layer' = layer + 1 /\ UNCHANGED <<plan, returned>>
    BY <1>2 DEF StartLayer
  <2> SUFFICES ASSUME NEW i \in DOMAIN plan.layers, NEW r \in plan.layers[i]
               PROVE  /\ i < layer + 1 => pc'[r] = "done"
                      /\ i > layer + 1 => pc'[r] = "waiting"
                      /\ returned => pc'[r] = "done"
    BY <2>2
  <2>3. CASE i = layer + 1
    BY <1>1, <2>1, <2>3
  <2>4. CASE i = layer
    <3>1. pc[r] = "done" /\ pc'[r] = pc[r]
      BY <1>1, <1>2, <2>1, <2>4 DEF StartLayer, LayerDone
    <3>2. QED
      BY <1>1, <2>4, <3>1
  <2>5. CASE i \notin {layer, layer + 1}
    <3>1. pc'[r] = pc[r]
      BY <1>1, <2>1, <2>5
    <3>2. QED
      BY <1>1, <2>5, <3>1
  <2>6. QED
    BY <2>3, <2>4, <2>5
<1>3. CASE Return
  <2>1. layer = NumLayers /\ LayerDone /\ UNCHANGED <<plan, layer, pc>>
    BY <1>3 DEF Return
  <2>2. \A i \in DOMAIN plan.layers : \A r \in plan.layers[i] : pc[r] = "done"
    BY <1>1, <2>1 DEF LayerDone
  <2>3. QED
    BY <1>1, <2>1, <2>2
<1>4. ASSUME NEW r \in Resource, Goroutine(r) PROVE BarrierInv'
  <2>1. /\ pc[r] \notin {"waiting", "done"}
        /\ \A q \in Resource : q # r => pc'[q] = pc[q]
        /\ UNCHANGED <<plan, layer, returned>>
    BY <1>4, GoroutineMoves
  <2>2. layer \in DOMAIN plan.layers /\ r \in plan.layers[layer] /\ ~returned
    BY <2>1, RunningIsCurrent
  <2>3. \A i \in DOMAIN plan.layers : r \in plan.layers[i] => i = layer
    BY <1>1, <2>2
  <2>4. QED
    BY <1>1, <2>1, <2>2, <2>3
<1>5. CASE Cancel \/ UNCHANGED vars
  BY <1>5 DEF Cancel, vars
<1>6. QED
  BY <1>2, <1>3, <1>4, <1>5 DEF Next

\* The three ways a goroutine ends, and the steps that report nothing.
LEMMA GoroutineReports ==
    ASSUME TypeOK, NEW r \in Resource, Goroutine(r)
    PROVE  \/ /\ UNCHANGED <<results, failed>>
              /\ pc'[r] # "done"
           \/ \E st \in Status :
                 /\ Report(r, st)
                 /\ UNCHANGED outcome
                 /\ st = "failed" => /\ pc[r] \in {"ctxErr", "noProvider", "erred"}
                                     /\ failed' = failed \cup {r}
                 /\ st # "failed" => failed' = failed
                 /\ st = "skipped" => pc[r] = "skip"
                 /\ st = "success" => \/ pc[r] = "applied"
                                      \/ pc[r] = "spawned" /\ plan.change[r] = "noop"
<1> USE DEF Status
<1>1. CASE ReportNoOp(r)
  BY <1>1 DEF ReportNoOp
<1>2. CASE ReportSkipped(r)
  BY <1>2 DEF ReportSkipped
<1>3. CASE ReportSuccess(r)
  BY <1>3 DEF ReportSuccess
<1>4. CASE ReportFailure(r)
  BY <1>4 DEF ReportFailure
<1>5. CASE CheckSkip(r) \/ CheckContext(r) \/ LookupProvider(r) \/ ProviderReturns(r)
  BY <1>5 DEF CheckSkip, CheckContext, LookupProvider, ProviderReturns, Goto, TypeOK
<1>6. QED
  BY <1>1, <1>2, <1>3, <1>4, <1>5 DEF Goroutine

\* No step takes back or changes a report.
LEMMA ReportStep ==
    ASSUME TypeOK, BarrierInv, ReportInv, [Next]_vars PROVE ReportInv'
<1>1. ASSUME UNCHANGED <<results, failed>>,
             \A q \in Resource : pc'[q] = "done" <=> pc[q] = "done"
      PROVE  ReportInv'
  BY <1>1 DEF ReportInv, Reported, ReportedAs
<1>2. CASE StartLayer
  <2>1. \A q \in Resource : pc'[q] = "done" <=> pc[q] = "done"
    BY <1>2, StartedWereWaiting
  <2>2. QED
    BY <1>1, <1>2, <2>1 DEF StartLayer
<1>3. CASE Return \/ Cancel \/ UNCHANGED vars
  BY <1>1, <1>3 DEF Return, Cancel, vars
<1>4. ASSUME NEW r \in Resource, Goroutine(r) PROVE ReportInv'
  <2>1. /\ pc[r] # "done"
        /\ \A q \in Resource : q # r => pc'[q] = pc[q]
    BY <1>4, GoroutineMoves
  <2>2. CASE UNCHANGED <<results, failed>> /\ pc'[r] # "done"
    BY <1>1, <2>1, <2>2
  <2>3. ASSUME NEW st \in Status, Report(r, st),
               st = "failed" => failed' = failed \cup {r},
               st # "failed" => failed' = failed
        PROVE  ReportInv'
    <3>1. /\ Len(results) \in Nat
          /\ DOMAIN results = 1 .. Len(results)
          /\ DOMAIN results' = 1 .. Len(results) + 1
          /\ \A i \in 1 .. Len(results) : results'[i] = results[i]
          /\ results'[Len(results) + 1] = [id |-> r, status |-> st]
          /\ \A q : Reported(q)' <=> Reported(q) \/ q = r
          /\ \A q, s : ReportedAs(q, s)' <=>
                           ReportedAs(q, s) \/ (q = r /\ s = st)
      BY <2>3, ReportFacts
    <3>2. pc'[r] = "done"
      BY <2>3 DEF Report, Goto, TypeOK
    <3>3. ~Reported(r)
      BY <2>1 DEF ReportInv
    <3>4. \A q \in Resource : pc'[q] = "done" <=> Reported(q)'
      BY <2>1, <3>1, <3>2 DEF ReportInv
    <3>5. ASSUME NEW i \in DOMAIN results', NEW j \in DOMAIN results',
                 results'[i].id = results'[j].id
          PROVE  i = j
      <4>1. \A k \in 1 .. Len(results) : results[k].id # r
        BY <3>1, <3>3 DEF Reported
      <4>2. results'[Len(results) + 1].id = r
        BY <3>1
      <4>3. CASE i \in 1 .. Len(results) /\ j \in 1 .. Len(results)
        BY <3>1, <3>5, <4>3 DEF ReportInv
      <4>4. CASE i = Len(results) + 1 \/ j = Len(results) + 1
        BY <3>1, <3>5, <4>1, <4>2, <4>4
      <4>5. QED
        BY <3>1, <4>3, <4>4
    <3>6. \A q \in Resource : q \in failed' <=> ReportedAs(q, "failed")'
      BY <2>3, <3>1 DEF ReportInv
    <3>7. QED
      BY <3>4, <3>5, <3>6 DEF ReportInv
  <2>4. QED
    BY <1>4, <2>2, <2>3, GoroutineReports
<1>5. QED
  BY <1>2, <1>3, <1>4 DEF Next

\* The skip check is never stale: marking r failed concerns no change that is
\* past its check, since everything upstream of those is already reported.
LEMMA GoroutineStep ==
    ASSUME TypeOK, BarrierInv, ReportInv, GoroutineInv, [Next]_vars
    PROVE  GoroutineInv'
<1> DEFINE U(q) == Upstream(plan.dep, q)
           G(q) ==
             /\ pc[q] \in Trying => plan.change[q] # "noop" /\ U(q) \cap failed = {}
             /\ pc[q] = "skip" => plan.change[q] # "noop" /\ U(q) \cap failed # {}
             /\ outcome[q] # "none" => /\ pc[q] \in {"applied", "erred", "done"}
                                       /\ plan.change[q] # "noop"
                                       /\ U(q) \cap failed = {}
             /\ pc[q] = "applied" => outcome[q] = "ok"
             /\ pc[q] = "erred" => outcome[q] = "error"
<1>1. GoroutineInv <=> \A q \in Resource : G(q)
  BY DEF GoroutineInv
<1>2. GoroutineInv' <=> \A q \in Resource : G(q)'
  BY DEF GoroutineInv
<1>3. CASE StartLayer
  <2>1. UNCHANGED <<plan, failed, outcome>>
    BY <1>3 DEF StartLayer
  <2>2. \A q \in Resource : pc'[q] = pc[q] \/ (pc'[q] = "spawned" /\ pc[q] = "waiting")
    BY <1>3, StartedWereWaiting
  <2>3. QED
    BY <1>1, <1>2, <2>1, <2>2 DEF Trying
<1>4. CASE Return \/ Cancel \/ UNCHANGED vars
  BY <1>1, <1>2, <1>4 DEF Return, Cancel, vars
<1>5. ASSUME NEW r \in Resource, Goroutine(r), NEW q \in Resource PROVE G(q)'
  <2>1. /\ pc[r] \notin {"waiting", "done"}
        /\ \A x \in Resource : x # r => pc'[x] = pc[x] /\ outcome'[x] = outcome[x]
        /\ UNCHANGED plan
    BY <1>5, GoroutineMoves
  <2>2. /\ failed \subseteq failed' /\ failed' \subseteq failed \cup {r}
    BY <1>5 DEF Goroutine, ReportNoOp, CheckSkip, ReportSkipped, CheckContext,
                LookupProvider, ProviderReturns, ReportSuccess, ReportFailure
  <2>3. G(q) /\ G(r)
    BY <1>1, <1>5
  <2>4. pc[q] \notin {"waiting", "spawned"} => r \notin U(q)
    <3>1. CASE pc[q] \notin {"waiting", "done"}
      BY <1>5, <2>1, <3>1, RunningIsCurrent
    <3>2. CASE pc[q] = "done"
      <4>1. PICK i \in DOMAIN plan.layers : q \in plan.layers[i]
        BY DEF TypeOK, ValidPlan, Layered
      <4>2. SUFFICES ASSUME r \in U(q) PROVE FALSE
        OBVIOUS
      <4>3. PICK j \in 1 .. i - 1 : r \in plan.layers[j]
        BY <4>1, <4>2, UpstreamEarlier DEF TypeOK
      <4>4. layer \in DOMAIN plan.layers /\ r \in plan.layers[layer]
        BY <2>1, RunningIsCurrent
      <4>5. j \in DOMAIN plan.layers /\ j < i
        BY <4>1 DEF TypeOK, ValidPlan
      <4>. j = layer
        BY <4>3, <4>4, <4>5 DEF TypeOK, ValidPlan, Layered
      <4>6. pc[q] = "waiting"
        BY <4>1, <4>5 DEF BarrierInv
      <4>7. QED
        BY <3>2, <4>6
    <3>3. QED
      BY <3>1, <3>2
  <2>5. CASE q # r
    BY <2>1, <2>2, <2>3, <2>4, <2>5 DEF Trying
  <2>6. CASE q = r
    <3>1. r \notin U(r)
      BY <1>5, <2>1, RunningIsCurrent
    <3> USE <2>1, <2>3, <2>6, <3>1 DEF TypeOK, Trying, Goto, Report
    <3>2. CASE ReportNoOp(r) \/ ReportSkipped(r) \/ ReportSuccess(r) \/ ReportFailure(r)
      BY <3>2, <2>2 DEF ReportNoOp, ReportSkipped, ReportSuccess, ReportFailure
    <3>3. CASE CheckSkip(r)
      BY <3>3 DEF CheckSkip, ShouldSkip
    <3>4. CASE CheckContext(r)
      BY <3>4 DEF CheckContext
    <3>5. CASE LookupProvider(r)
      BY <3>5 DEF LookupProvider
    <3>6. CASE ProviderReturns(r)
      BY <3>6 DEF ProviderReturns
    <3>7. QED
      BY <1>5, <3>2, <3>3, <3>4, <3>5, <3>6 DEF Goroutine
  <2>7. QED
    BY <2>5, <2>6
<1>6. QED
  BY <1>2, <1>3, <1>4, <1>5 DEF Next

\* No step starts anything after a cancellation was seen.
LEMMA CancelStep ==
    ASSUME TypeOK, BarrierInv, ReportInv, GoroutineInv, CancelInv, [Next]_vars
    PROVE  CancelInv'
<1> DEFINE Late == {"lookup", "noProvider", "calling", "applied", "erred"}
<1>1. /\ \A i \in DOMAIN plan.layers : i \in 1 .. NumLayers
      /\ \A i \in DOMAIN plan.layers : \A q \in plan.layers[i] : q \in Resource
      /\ layer \in 0 .. NumLayers /\ NumLayers \in Nat
      /\ cancelledIn \in 0 .. NumLayers + 1
  BY DEF TypeOK, ValidPlan, NumLayers, NotCancelled
<1>2. CASE StartLayer
  <2>1. UNCHANGED <<plan, cancelledIn, outcome>> /\ layer' = layer + 1
    BY <1>2 DEF StartLayer
  <2>2. \A q \in Resource : pc'[q] = pc[q] \/ pc'[q] = "spawned"
    BY <1>2, StartedWereWaiting
  <2>3. QED
    BY <1>1, <2>1, <2>2 DEF CancelInv, Cancelled, NotCancelled, NumLayers
<1>3. CASE Cancel
  <2>1. UNCHANGED <<plan, layer, pc, outcome>> /\ cancelledIn' = layer
    BY <1>3 DEF Cancel
  <2>2. \A i \in DOMAIN plan.layers : i > layer => \A q \in plan.layers[i] :
           pc[q] = "waiting" /\ outcome[q] = "none"
    BY <1>1 DEF BarrierInv, GoroutineInv
  <2>3. QED
    BY <1>1, <2>1, <2>2 DEF CancelInv
<1>4. CASE Return \/ UNCHANGED vars
  BY <1>4 DEF Return, vars, CancelInv, Cancelled, NotCancelled, NumLayers
<1>5. ASSUME NEW r \in Resource, Goroutine(r) PROVE CancelInv'
  <2>1. /\ pc[r] \notin {"waiting", "done"}
        /\ \A x \in Resource : x # r => pc'[x] = pc[x] /\ outcome'[x] = outcome[x]
        /\ UNCHANGED <<plan, layer, cancelledIn>>
    BY <1>5, GoroutineMoves
  <2>2. SUFFICES ASSUME NEW i \in DOMAIN plan.layers, i > cancelledIn, r \in plan.layers[i]
                 PROVE  pc'[r] \notin Late /\ outcome'[r] = "none"
    BY <1>1, <2>1 DEF CancelInv, Cancelled, NotCancelled, NumLayers
  <2>3. pc[r] \notin Late /\ outcome[r] = "none"
    BY <2>2 DEF CancelInv
  <2>4. Cancelled
    BY <1>1, <2>2 DEF Cancelled, NotCancelled
  <2>5. QED
    <3>1. pc'[r] \notin Late
      BY <1>5, <2>3, <2>4
         DEF TypeOK, Goroutine, ReportNoOp, CheckSkip, ReportSkipped,
             CheckContext, LookupProvider, ProviderReturns, ReportSuccess,
             ReportFailure, Report, Goto
    <3>2. ~ProviderReturns(r)
      BY <2>3 DEF ProviderReturns
    <3>3. outcome'[r] = outcome[r]
      BY <1>5, <3>2
         DEF Goroutine, ReportNoOp, CheckSkip, ReportSkipped, CheckContext,
             LookupProvider, ReportSuccess, ReportFailure
    <3>4. QED
      BY <2>3, <3>1, <3>3
<1>6. QED
  BY <1>2, <1>3, <1>4, <1>5 DEF Next

\* No step reports what did not happen.
LEMMA TruthfulStep ==
    ASSUME TypeOK, BarrierInv, ReportInv, GoroutineInv, TruthfulReport, [Next]_vars
    PROVE  TruthfulReport'
<1> DEFINE T(o, r, st) ==
             /\ st = "success" <=> plan.change[r] = "noop" \/ o[r] = "ok"
             /\ st = "skipped" => o[r] = "none"
<1>1. \A i \in DOMAIN results : T(outcome, results[i].id, results[i].status)
  BY DEF TruthfulReport
<1>2. \A i \in DOMAIN results : results[i] \in ResourceResult
  BY DEF TypeOK
<1>3. \A i \in DOMAIN results : /\ results[i].id \in Resource
                                /\ pc[results[i].id] = "done"
  BY <1>2 DEF ResourceResult, ReportInv, Reported
<1>4. CASE StartLayer \/ Return \/ Cancel \/ UNCHANGED vars
  BY <1>4 DEF StartLayer, Return, Cancel, vars, TruthfulReport
<1>5. ASSUME NEW r \in Resource, Goroutine(r) PROVE TruthfulReport'
  <2>1. /\ pc[r] # "done"
        /\ \A x \in Resource : x # r => outcome'[x] = outcome[x]
        /\ UNCHANGED plan
    BY <1>5, GoroutineMoves
  <2> SUFFICES \A i \in DOMAIN results' :
                  T(outcome', results'[i].id, results'[i].status)
    BY <2>1 DEF TruthfulReport
  <2>2. \A i \in DOMAIN results : T(outcome', results[i].id, results[i].status)
    BY <1>1, <1>3, <2>1
  <2>3. CASE UNCHANGED results
    BY <2>2, <2>3
  <2>4. ASSUME NEW st \in Status, Report(r, st), UNCHANGED outcome,
               st = "failed" => pc[r] \in {"ctxErr", "noProvider", "erred"},
               st = "skipped" => pc[r] = "skip",
               st = "success" => \/ pc[r] = "applied"
                                 \/ pc[r] = "spawned" /\ plan.change[r] = "noop"
        PROVE  \A i \in DOMAIN results' :
                  T(outcome', results'[i].id, results'[i].status)
    <3>1. /\ DOMAIN results = 1 .. Len(results)
          /\ DOMAIN results' = 1 .. Len(results) + 1
          /\ \A i \in 1 .. Len(results) : results'[i] = results[i]
          /\ results'[Len(results) + 1] = [id |-> r, status |-> st]
          /\ Len(results) \in Nat
      BY <2>4, ReportFacts
    <3>2. /\ outcome[r] # "none" => pc[r] \in {"applied", "erred", "done"}
          /\ pc[r] = "applied" => outcome[r] = "ok"
          /\ pc[r] = "erred" => outcome[r] = "error"
          /\ pc[r] \in Trying \cup {"skip"} => plan.change[r] # "noop"
      BY DEF GoroutineInv
    <3>3. T(outcome', r, st)
      BY <2>4, <3>2 DEF Trying, Status, TypeOK
    <3>4. QED
      BY <2>2, <3>1, <3>3
  <2>5. QED
    BY <1>5, <2>3, <2>4, GoroutineReports
<1>6. QED
  BY <1>4, <1>5 DEF Next

\* No step skips a change without a cause.
LEMMA CauseStep ==
    ASSUME TypeOK, BarrierInv, ReportInv, GoroutineInv, SkippedHasCause, [Next]_vars
    PROVE  SkippedHasCause'
<1>1. CASE StartLayer \/ Return \/ Cancel \/ UNCHANGED vars
  BY <1>1 DEF StartLayer, Return, Cancel, vars, SkippedHasCause
<1>2. ASSUME NEW r \in Resource, Goroutine(r) PROVE SkippedHasCause'
  <2>1. UNCHANGED plan
    BY <1>2, GoroutineMoves
  <2>2. CASE UNCHANGED results
    BY <2>1, <2>2 DEF SkippedHasCause
  <2>3. ASSUME NEW st \in Status, Report(r, st), st = "skipped" => pc[r] = "skip"
        PROVE  SkippedHasCause'
    <3>1. /\ Len(results) \in Nat
          /\ DOMAIN results = 1 .. Len(results)
          /\ DOMAIN results' = 1 .. Len(results) + 1
          /\ \A i \in 1 .. Len(results) : results'[i] = results[i]
          /\ results'[Len(results) + 1] = [id |-> r, status |-> st]
      BY <2>3, ReportFacts
    <3>2. SUFFICES ASSUME NEW i \in DOMAIN results', results'[i].status = "skipped"
                   PROVE  \E j \in 1 .. i - 1 :
                             /\ results'[j].status = "failed"
                             /\ results'[j].id \in Upstream(plan.dep, results'[i].id)
      BY <2>1 DEF SkippedHasCause
    <3>3. CASE i \in 1 .. Len(results)
      <4>1. PICK j \in 1 .. i - 1 :
                 /\ results[j].status = "failed"
                 /\ results[j].id \in Upstream(plan.dep, results[i].id)
        BY <3>1, <3>2, <3>3 DEF SkippedHasCause
      <4>2. j \in 1 .. Len(results)
        BY <3>1, <3>3
      <4>3. QED
        BY <3>1, <3>3, <4>1, <4>2
    <3>4. CASE i = Len(results) + 1
      <4>1. PICK d \in Upstream(plan.dep, r) : d \in failed
        BY <2>3, <3>1, <3>2, <3>4 DEF GoroutineInv
      <4>2. d \in Resource
        BY <4>1 DEF TypeOK
      <4>3. PICK j \in 1 .. Len(results) :
                 results[j] = [id |-> d, status |-> "failed"]
        BY <3>1, <4>1, <4>2 DEF ReportInv, ReportedAs
      <4>4. results'[j].id = d /\ results'[j].status = "failed"
        BY <3>1, <4>3
      <4>5. results'[i].id = r
        BY <3>1, <3>4
      <4>6. QED
        BY <3>1, <3>4, <4>1, <4>4, <4>5
    <3>5. QED
      BY <3>1, <3>3, <3>4
  <2>4. QED
    BY <1>2, <2>2, <2>3, GoroutineReports
<1>3. QED
  BY <1>1, <1>2 DEF Next

-----------------------------------------------------------------------------
(* The invariant, and the safety properties it implies. *)

\* The inductive invariant holds in every reachable state.
THEOREM Invariance == Spec => []IInv
<1>1. TypeOK /\ Init => IInv
  <2> SUFFICES ASSUME TypeOK, Init PROVE IInv
    OBVIOUS
  <2>1. /\ DOMAIN results = {}
        /\ \A i \in DOMAIN plan.layers : i \in Nat /\ i > 0 /\ plan.layers[i] \subseteq Resource
        /\ \A i \in DOMAIN plan.layers : ~(i > cancelledIn)
    BY DEF Init, TypeOK, ValidPlan, NotCancelled, NumLayers
  <2>2. BarrierInv
    BY <2>1 DEF Init, BarrierInv
  <2>3. ReportInv
    BY <2>1 DEF Init, ReportInv, Reported, ReportedAs
  <2>4. GoroutineInv
    BY DEF Init, GoroutineInv, Trying
  <2>5. CancelInv
    BY <2>1 DEF Init, CancelInv, Cancelled
  <2>6. TruthfulReport /\ SkippedHasCause
    BY <2>1 DEF TruthfulReport, SkippedHasCause
  <2>7. QED
    BY <2>2, <2>3, <2>4, <2>5, <2>6 DEF IInv
<1>2. TypeOK' /\ IInv /\ [Next]_vars => IInv'
  BY BarrierStep, ReportStep, GoroutineStep, CancelStep, TruthfulStep, CauseStep
     DEF IInv
<1>3. QED
  BY <1>1, <1>2, TypeCorrect, PTL DEF Spec

\* No provider is called for a change while something upstream of it is
\* unreported or failed, in any interleaving, on any plan.
THEOREM CallsRespectFailures == Spec => []NoCallBelowFailure
<1>1. IInv => NoCallBelowFailure
  <2> SUFFICES ASSUME IInv, NEW r \in Resource, pc[r] = "calling" \/ outcome[r] # "none",
                      NEW d \in Upstream(plan.dep, r)
               PROVE  Reported(d) /\ d \notin failed
    BY DEF NoCallBelowFailure
  <2> USE DEF IInv
  <2>1. Upstream(plan.dep, r) \cap failed = {} /\ pc[r] \notin {"waiting", "spawned"}
    BY DEF GoroutineInv, Trying
  <2>2. CASE pc[r] # "done"
    BY <2>1, <2>2, RunningIsCurrent
  <2>3. CASE pc[r] = "done"
    <3>1. PICK i \in DOMAIN plan.layers : r \in plan.layers[i]
      BY DEF TypeOK, ValidPlan, Layered
    <3>2. PICK j \in 1 .. i - 1 : d \in Resource /\ d \in plan.layers[j]
      BY <3>1, UpstreamEarlier DEF TypeOK
    <3>3. ~(i > layer)
      BY <2>3, <3>1 DEF BarrierInv
    <3>4. j \in DOMAIN plan.layers /\ j < layer
      BY <3>1, <3>2, <3>3 DEF TypeOK, ValidPlan
    <3>5. QED
      BY <2>1, <3>2, <3>4 DEF BarrierInv, ReportInv
  <2>4. QED
    BY <2>2, <2>3
<1>2. QED
  BY <1>1, Invariance, PTL

\* Every result says what happened on the cluster, every change has at most
\* one, exactly one in the end, and every skip has its cause in the report.
THEOREM ReportIsSound == Spec => []SoundReport
<1>1. IInv => SoundReport
  BY DEF IInv, SoundReport, OneResultEach, ReportInv, BarrierInv, TypeOK, ValidPlan, Layered
<1>2. QED
  BY <1>1, Invariance, PTL

\* An apply that reports no failure has applied every change of the plan.
THEOREM NothingLostSilently == Spec => []NoSilentLoss
<1>1. IInv => NoSilentLoss
  <2> SUFFICES ASSUME IInv, returned, ~HasErrors, NEW r \in Resource
               PROVE  plan.change[r] = "noop" \/ outcome[r] = "ok"
    BY DEF NoSilentLoss
  <2>1. PICK i \in DOMAIN results : results[i].id = r
    BY DEF IInv, ReportInv, Reported, BarrierInv, TypeOK, ValidPlan, Layered
  <2>. results[i] \in ResourceResult
    BY <2>1 DEF IInv, TypeOK
  <2>2. results[i].status \in Status /\ DOMAIN results = 1 .. Len(results)
    BY <2>1 DEF IInv, TypeOK, ResourceResult
  <2>3. results[i].status = "success"
    <3>1. results[i].status # "failed"
      BY DEF HasErrors
    <3>2. results[i].status # "skipped"
      BY <2>2 DEF IInv, SkippedHasCause, HasErrors
    <3>3. QED
      BY <2>2, <3>1, <3>2 DEF Status
  <2>4. QED
    BY <2>1, <2>3 DEF IInv, TruthfulReport
<1>2. QED
  BY <1>1, Invariance, PTL

\* After a cancellation no later layer reaches a provider.
THEOREM CancellationStops == Spec => []NoCallInLaterLayer
<1>1. IInv => NoCallInLaterLayer
  BY DEF IInv, CancelInv, NoCallInLaterLayer
<1>2. QED
  BY <1>1, Invariance, PTL

-----------------------------------------------------------------------------
(* Executor implements ApplyContract: it starts where the contract starts,  *)
(* and each of its steps settles one change as the contract allows or       *)
(* changes nothing that the contract sees. That every change is settled in  *)
(* the end, which needs fairness, is left to the run of TLC.                *)

\* The contract's dependency relation is the executor's.
LEMMA SameUpstream ==
    ASSUME NEW dep, NEW r PROVE Contract!Upstream(dep, r) = Upstream(dep, r)
  BY DEF Contract!Upstream, Contract!ClosedAbove, Upstream, ClosedAbove

\* The fates of the contract, read off the failed set and the results.
LEMMA FateFacts ==
    ASSUME ReportInv, NEW q \in Resource
    PROVE  /\ FateOf(q) = "pending" <=> ~Reported(q)
           /\ FateOf(q) = "failed" <=> q \in failed
  BY DEF FateOf, ReportInv, Reported, ReportedAs

\* A report settles the fate of its change and touches no other.
LEMMA ReportSettles ==
    ASSUME TypeOK, ReportInv, NEW r \in Resource, NEW st \in Status,
           pc[r] # "done", Report(r, st), UNCHANGED plan
    PROVE  /\ \A q \in Resource \ {r} : FateOf(q)' = FateOf(q)
           /\ FateOf(r)' = IF st = "failed" THEN "failed"
                           ELSE IF st = "skipped" THEN "skipped"
                           ELSE IF plan.change[r] = "noop" THEN "unchanged"
                           ELSE "applied"
<1>1. /\ \A q : Reported(q)' <=> Reported(q) \/ q = r
      /\ \A q, s : ReportedAs(q, s)' <=> ReportedAs(q, s) \/ (q = r /\ s = st)
  BY ReportFacts
<1>2. \A s : ~ReportedAs(r, s)
  BY DEF ReportInv, Reported, ReportedAs
<1>3. QED
  BY <1>1, <1>2 DEF FateOf, Status

\* A goroutine that reports settles its change by a step of the contract.
LEMMA ReportIsSettle ==
    ASSUME IInv, NEW r \in Resource, Goroutine(r), NEW st \in Status,
           Report(r, st),
           st = "failed" => pc[r] \in {"ctxErr", "noProvider", "erred"},
           st = "skipped" => pc[r] = "skip",
           st = "success" => \/ pc[r] = "applied"
                             \/ pc[r] = "spawned" /\ plan.change[r] = "noop"
    PROVE  Contract!Settle(r)
<1> DEFINE fate == [q \in Resource |-> FateOf(q)]
<1> USE DEF IInv
<1>1. pc[r] \notin {"waiting", "done"} /\ UNCHANGED plan
  BY GoroutineMoves
<1>2. \A d \in Upstream(plan.dep, r) : d \in Resource /\ Reported(d)
  BY <1>1, RunningIsCurrent
<1>3. /\ fate[r] = "pending"
      /\ \A d \in Upstream(plan.dep, r) : fate[d] # "pending"
      /\ \A d \in Upstream(plan.dep, r) : fate[d] = "failed" <=> d \in failed
  BY <1>1, <1>2, FateFacts DEF ReportInv
<1>4. Contract!Tainted(r) <=> Upstream(plan.dep, r) \cap failed # {}
  BY <1>3, SameUpstream DEF Contract!Tainted
<1>5. fate' = [fate EXCEPT ![r] = FateOf(r)']
  BY <1>1, ReportSettles
<1>6. FateOf(r)' \in Contract!Outcomes(r)
  <2>1. FateOf(r)' = IF st = "failed" THEN "failed"
                     ELSE IF st = "skipped" THEN "skipped"
                     ELSE IF plan.change[r] = "noop" THEN "unchanged"
                     ELSE "applied"
    BY <1>1, ReportSettles
  <2>2. CASE st = "failed"
    BY <1>4, <2>1, <2>2 DEF Contract!Outcomes, GoroutineInv, Trying
  <2>3. CASE st = "skipped"
    BY <1>4, <2>1, <2>3 DEF Contract!Outcomes, GoroutineInv
  <2>4. CASE st = "success"
    BY <1>4, <2>1, <2>4 DEF Contract!Outcomes, GoroutineInv, Trying
  <2>5. QED
    BY <2>2, <2>3, <2>4 DEF Status
<1>7. QED
  BY <1>1, <1>3, <1>5, <1>6, SameUpstream DEF Contract!Settle

\* The layers of an ordered plan leave no room for a cycle.
LEMMA ValidPlanIsAcyclic ==
    ASSUME NEW p, ValidPlan(p) PROVE Acyclic(p.dep)
<1> SUFFICES ASSUME NEW r \in Resource, r \in Upstream(p.dep, r) PROVE FALSE
  BY DEF Acyclic, ValidPlan, DependencyGraphs
<1>1. p.layers \in Seq(SUBSET Resource)
  BY DEF ValidPlan
<1>2. PICK i \in DOMAIN p.layers : r \in p.layers[i]
  BY DEF ValidPlan, Layered
<1>3. PICK j \in 1 .. i - 1 : r \in p.layers[j]
  BY <1>2, UpstreamEarlier
<1>4. j \in DOMAIN p.layers /\ i # j
  BY <1>1, <1>3
<1>5. QED
  BY <1>2, <1>3, <1>4 DEF ValidPlan, Layered

\* Whatever the goroutines do, in any interleaving, is a run of the sequential
\* contract: Execute settles each change once, after all that it depends on,
\* skips it exactly below a failure, and revises no fate.
THEOREM StepsKeepContract ==
    Spec => Contract!Init /\ [][Contract!Next]_(Contract!vars)
<1>1. TypeOK /\ Init => Contract!Init
  <2> SUFFICES ASSUME TypeOK, Init PROVE Contract!Init
    OBVIOUS
  <2>1. ValidPlan(plan) /\ Acyclic(plan.dep)
    BY ValidPlanIsAcyclic DEF TypeOK
  <2>2. \A r \in Resource : ~Reported(r)
    BY DEF Init, Reported
  <2>3. [r \in Resource |-> FateOf(r)] = [r \in Resource |-> "pending"]
    BY <2>2 DEF FateOf
  <2>4. QED
    BY <2>1, <2>3, SameUpstream DEF Contract!Init, Contract!Acyclic, Acyclic,
       Contract!DependencyGraphs, DependencyGraphs, ValidPlan, ChangeType
<1>2. IInv /\ [Next]_vars => [Contract!Next]_(Contract!vars)
  <2> SUFFICES ASSUME IInv, [Next]_vars
               PROVE  Contract!Next \/ UNCHANGED Contract!vars
    OBVIOUS
  <2>1. ASSUME UNCHANGED <<plan, results>> PROVE UNCHANGED Contract!vars
    BY <2>1 DEF Contract!vars, FateOf, Reported, ReportedAs
  <2>2. CASE StartLayer \/ Return \/ Cancel \/ UNCHANGED vars
    BY <2>1, <2>2 DEF StartLayer, Return, Cancel, vars
  <2>3. ASSUME NEW r \in Resource, Goroutine(r)
        PROVE  Contract!Next \/ UNCHANGED Contract!vars
    <3>1. UNCHANGED plan
      BY <2>3, GoroutineMoves DEF IInv
    <3>2. CASE UNCHANGED results
      BY <2>1, <3>1, <3>2
    <3>3. CASE ~UNCHANGED results
      <4>1. PICK st \in Status :
              /\ Report(r, st)
              /\ st = "failed" => pc[r] \in {"ctxErr", "noProvider", "erred"}
              /\ st = "skipped" => pc[r] = "skip"
              /\ st = "success" => \/ pc[r] = "applied"
                                   \/ pc[r] = "spawned" /\ plan.change[r] = "noop"
        BY <2>3, <3>3, GoroutineReports DEF IInv
      <4>2. Contract!Settle(r)
        BY <2>3, <4>1, ReportIsSettle
      <4>3. QED
        BY <4>2 DEF Contract!Next
    <3>4. QED
      BY <3>2, <3>3
  <2>4. QED
    BY <2>2, <2>3 DEF Next
<1>3. QED
  BY <1>1, <1>2, TypeCorrect, Invariance, PTL DEF Spec
=============================================================================
