--------------------------- MODULE ContextsProofs ---------------------------
(***************************************************************************)
(* Contexts for any providers, names and files: the connection of each     *)
(* resource, the safety rail and the agreement with validate.              *)
(***************************************************************************)
EXTENDS Contexts, FiniteSetTheorems, TLAPS

-----------------------------------------------------------------------------
(* The inductive invariant: what has been checked once a stage is reached. *)

ToRun == {"configure", "run"}
Built == {"secrets"} \cup ToRun
Resolved == {"build"} \cup Built
Converted == {"resolve"} \cup Resolved
Detected == {"convert"} \cup Converted

\* The rail of the command, for what the engine is about to convert.
DetectedInv ==
    stage \in Detected /\ input.flag = None /\ input.inline # {} =>
        (Converts(input.resources) => ~Multiple(input.resources))

ConvertedInv ==
    stage \in Converted => desired = input.resources /\ Converts(input.resources)

ResolvedInv ==
    stage \in Resolved /\ input.inline # {} =>
        Parses(input.inline) /\ Resolves(desired, input.inline)

\* Configurations are those of the only context of each provider.
BuiltInv ==
    stage \in Built =>
        /\ \A c, d \in input.inline : c.provider = d.provider => c = d
        /\ DOMAIN configs = {c.provider : c \in input.inline}
        /\ \A c \in input.inline : configs[c.provider] = c

\* Who is connected has the provider's configuration, in an accepted file.
ConnectedInv ==
    /\ DOMAIN connected # {} => stage \in ToRun \cup {"stopped"} /\ Validates(input)
    /\ \A p \in DOMAIN connected : connected[p] = configs[p]
    /\ stage = "run" => DOMAIN connected = Needed

IInv ==
    /\ TypeOK
    /\ DetectedInv /\ ConvertedInv /\ ResolvedInv /\ BuiltInv /\ ConnectedInv

-----------------------------------------------------------------------------
(* Every step preserves it. *)

\* Where a provider has one context only, that is its connection.
LEMMA OnlyConnection ==
    ASSUME \A c, d \in input.inline : c.provider = d.provider => c = d,
           NEW c \in input.inline
    PROVE  ConnectionOf(c.provider) = c
  BY DEF ConnectionOf

\* A step that passes a check or stops, and moves nothing but the stage.
LEMMA CheckStep ==
    ASSUME IInv, UNCHANGED <<input, desired, configs, connected>>,
           \/ LoadConfigFile \/ Merge \/ DetectMultipleContexts
           \/ ResolveContexts \/ ResolveSecrets \/ Proceed
    PROVE  IInv'
<1> USE DEF IInv, TypeOK, DetectedInv, ConvertedInv, ResolvedInv, BuiltInv, ConnectedInv,
            Detected, Converted, Resolved, Built, ToRun, Needed, Check
<1>1. CASE LoadConfigFile
  BY <1>1 DEF LoadConfigFile
<1>2. CASE Merge
  BY <1>2 DEF Merge
<1>3. CASE DetectMultipleContexts
  BY <1>3 DEF DetectMultipleContexts
<1>4. CASE ResolveContexts
  BY <1>4 DEF ResolveContexts
<1>5. CASE ResolveSecrets
  BY <1>5 DEF ResolveSecrets
<1>6. CASE Proceed
  BY <1>6 DEF Proceed
<1>7. QED
  BY <1>1, <1>2, <1>3, <1>4, <1>5, <1>6

\* Converting the files keeps the invariant.
LEMMA ConvertStep == ASSUME IInv, Convert PROVE IInv'
  BY DEF Convert, IInv, TypeOK, DetectedInv, ConvertedInv, ResolvedInv, BuiltInv, ConnectedInv,
         Detected, Converted, Resolved, Built, ToRun, Check

\* So does building the configurations.
LEMMA BuildConfigsStep == ASSUME IInv, BuildConfigs PROVE IInv'
<1> USE DEF IInv, Detected, Converted, Resolved, Built, ToRun, Check
<1> DEFINE ok == \A c, d \in input.inline : c.provider = d.provider => c = d
<1>1. /\ stage = "build" /\ stage' = IF ok THEN "secrets" ELSE "stopped"
      /\ UNCHANGED <<input, desired, connected>>
      /\ DOMAIN connected = {}
  BY DEF BuildConfigs, ConnectedInv
<1>2. CASE ok
  <2>1. input.inline \subseteq Context
    BY InputsAssumption DEF ValidInput, TypeOK
  <2>2. configs' = [p \in {c.provider : c \in input.inline} |-> ConnectionOf(p)]
    BY <1>2 DEF BuildConfigs
  <2>3. \A c \in input.inline : /\ c \in Context /\ c.provider \in Provider
                                /\ configs'[c.provider] = c
    BY <1>2, <2>1, <2>2, OnlyConnection DEF Context
  <2>4. TypeOK'
    BY <1>1, <1>2, <2>2, <2>3 DEF TypeOK
  <2>5. BuiltInv'
    BY <1>1, <1>2, <2>2, <2>3 DEF BuiltInv
  <2>6. QED
    BY <1>1, <1>2, <2>4, <2>5 DEF DetectedInv, ConvertedInv, ResolvedInv, ConnectedInv
<1>3. CASE ~ok
  BY <1>1, <1>3 DEF BuildConfigs, TypeOK, DetectedInv, ConvertedInv, ResolvedInv, BuiltInv,
     ConnectedInv
<1>4. QED
  BY <1>2, <1>3

\* So does configuring a provider.
LEMMA ConfigureStep == ASSUME IInv, NEW p \in Provider, Configure(p) PROVE IInv'
<1> USE DEF IInv, Detected, Converted, Resolved, Built, ToRun, Check
<1>1. /\ stage = "configure" /\ stage' \in {"configure", "stopped"}
      /\ UNCHANGED <<input, desired, configs>>
  BY DEF Configure
<1>2. \/ UNCHANGED connected
      \/ /\ p \in DOMAIN configs
         /\ connected' = [c \in DOMAIN connected \cup {p} |->
                             IF c = p THEN configs[p] ELSE connected[c]]
  BY DEF Configure
<1>3. DOMAIN configs # {} => Validates(input)
  BY <1>1 DEF ConvertedInv, ResolvedInv, BuiltInv, Validates
<1>4. TypeOK' /\ ConnectedInv'
  BY <1>1, <1>2, <1>3 DEF TypeOK, ConnectedInv, Validates, Parses, Converts, Resolves
<1>5. QED
  BY <1>1, <1>4 DEF DetectedInv, ConvertedInv, ResolvedInv, BuiltInv

\* No step of the run disturbs the invariant: the six checks by CheckStep, the
\* three that keep what they computed each by its own lemma.
LEMMA EveryStep == ASSUME IInv, [Next]_vars PROVE IInv'
<1>1. CASE UNCHANGED vars
  BY <1>1 DEF vars, IInv, TypeOK, DetectedInv, ConvertedInv, ResolvedInv, BuiltInv,
     ConnectedInv, Needed
<1>2. CASE LoadConfigFile \/ Merge \/ DetectMultipleContexts \/ ResolveContexts
               \/ ResolveSecrets \/ Proceed
  BY <1>2, CheckStep DEF LoadConfigFile, Merge, DetectMultipleContexts, ResolveContexts,
     ResolveSecrets, Proceed
<1> QED
  BY <1>1, <1>2, ConvertStep, BuildConfigsStep, ConfigureStep DEF Next

\* The invariant holds in every reachable state, for any files and flags.
THEOREM Invariance == Spec => []IInv
<1>1. ASSUME Init PROVE IInv
  BY <1>1 DEF Init, Nothing, IInv, TypeOK, DetectedInv, ConvertedInv, ResolvedInv, BuiltInv,
     ConnectedInv, Detected, Converted, Resolved, Built, ToRun
<1> QED  BY <1>1, EveryStep, PTL DEF Spec

-----------------------------------------------------------------------------
(* The properties. *)

\* Configurations and connections are contexts of the provider that they are
\* kept for, and only what has a configuration is connected.
THEOREM TypeCorrect == Spec => []TypeOK
  BY Invariance, PTL DEF IInv

\* Each resource of a run that proceeds meets the connection that it names.
THEOREM ConnectionsAreRight == Spec => []RightConnection
<1>1. IInv => RightConnection
  <2> SUFFICES ASSUME IInv, stage = "run", NEW r \in desired
               PROVE  /\ r.provider \in DOMAIN connected
                      /\ connected[r.provider].name = r.context
    BY DEF RightConnection
  <2> USE DEF IInv
  <2>1. r.provider \in DOMAIN connected
    BY DEF ConnectedInv, Needed
  <2>2. input.inline # {} /\ connected[r.provider] = configs[r.provider]
    BY <2>1 DEF ConnectedInv, TypeOK, BuiltInv, Built, ToRun
  <2>3. PICK c \in input.inline : c.name = r.context /\ c.provider = r.provider
    BY <2>2 DEF ResolvedInv, Resolved, Built, ToRun, Resolves
  <2>4. QED
    BY <2>1, <2>2, <2>3 DEF BuiltInv, Built, ToRun
<1>2. QED
  BY <1>1, Invariance, PTL

\* Without --context no run proceeds with resources of several contexts,
\* although the rail is in the command and its detection drops errors.
THEOREM RailHolds == Spec => []SafetyRail
<1>1. IInv => SafetyRail
  <2> SUFFICES ASSUME IInv, stage = "run", input.flag = None
               PROVE  Cardinality({r.context : r \in desired}) <= 1
    BY DEF SafetyRail
  <2> DEFINE targets == {r.context : r \in desired}
  <2> USE DEF IInv
  <2>1. desired = input.resources /\ Converts(input.resources)
    BY DEF ConvertedInv, Converted, Resolved, Built, ToRun
  <2>2. IsFiniteSet(input.resources) /\ None \notin Name /\ input.inline \subseteq Context
    BY InputsAssumption DEF TypeOK, ValidInput
  <2>3. IsFiniteSet(targets)
    <3>1. [r \in desired |-> r.context] \in Surjection(desired, targets)
      BY DEF Surjection
    <3>2. QED
      BY <2>1, <2>2, <3>1, FS_Surjection
  <2>4. CASE desired = {}
    BY <2>4, FS_EmptySet
  <2>5. CASE desired # {}
    <3>1. input.inline # {}
      BY <2>5 DEF ConnectedInv, Needed, TypeOK, BuiltInv, Built, ToRun
    <3>2. targets \subseteq Name
      BY <2>2, <3>1 DEF ResolvedInv, Resolved, Built, ToRun, Resolves, Context
    <3>3. targets \ {None} = targets
      BY <2>2, <3>2
    <3>4. ~(Cardinality(targets) > 1)
      BY <2>1, <3>1, <3>3 DEF DetectedInv, Detected, Converted, Resolved, Built, ToRun, Multiple
    <3>5. QED
      BY <2>3, <3>4, FS_CardinalityType
  <2>6. QED
    BY <2>4, <2>5
<1>2. QED
  BY <1>1, Invariance, PTL

\* Nothing that validate rejects gets as far as a connection.
THEOREM ValidatedBeforeConnected == Spec => []RejectedIsNotRun
<1>1. IInv => RejectedIsNotRun
  BY DEF IInv, ConnectedInv, RejectedIsNotRun
<1>2. QED
  BY <1>1, Invariance, PTL
=============================================================================
