-------------------------------- MODULE Contexts --------------------------------
(***************************************************************************)
(* From the command line to the connected providers: which contexts a run  *)
(* of plan or apply reads, what it checks, and which connection each       *)
(* resource ends up with. A run is sequential and stops at its first error.*)
(*                                                                         *)
(* Of a context the model keeps its name and provider, of a resource its   *)
(* provider (the prefix of its type), label and context. Attributes are    *)
(* opaque: a context is its own connection.                                *)
(***************************************************************************)
EXTENDS Naturals, FiniteSets

CONSTANTS
    Provider,   \* registered providers
    Name,       \* names of contexts
    None,       \* no context named, or no --context flag
    Inputs      \* [inline, file, resources, flag]

Context == [name : Name, provider : Provider]

ValidInput(i) ==
    /\ i.inline \subseteq Context /\ i.file \subseteq Context
    /\ IsFiniteSet(i.resources)
    /\ \A r \in i.resources : r.provider \in Provider /\ r.context \in Name \cup {None}
    /\ i.flag \in Name \cup {None}

ASSUME InputsAssumption == None \notin Name /\ \A i \in Inputs : ValidInput(i)

VARIABLES
    input,      \* the files, the configuration file and the flag
    stage,      \* the next step
    desired,    \* the resources of the engine
    configs,    \* a connection for some providers
    connected   \* providers that are configured, with their connections

vars == <<input, stage, desired, configs, connected>>

Nothing == [p \in {} |-> {}]

Init ==
    /\ input \in Inputs
    /\ stage = "load"
    /\ desired = {} /\ configs = Nothing /\ connected = Nothing

-----------------------------------------------------------------------------
(* Checks. *)

\* ParseContexts: no two contexts of one name.
Parses(contexts) == \A c, d \in contexts : c.name = d.name => c = d

\* ConvertBlocks: no two resources of one identity.
Converts(resources) ==
    \A r, s \in resources : r.provider = s.provider /\ r.label = s.label => r = s

\* (Mutant of Multiple: contexts of different providers do not count.)
MultipleOfOneProvider(resources) ==
    \E r, s \in resources : /\ r.provider = s.provider
                            /\ None \notin {r.context, s.context}
                            /\ r.context # s.context

\* DetectMultipleContexts.
Multiple(resources) == Cardinality({r.context : r \in resources} \ {None}) > 1

\* ResolveResourceContexts: every resource names a context of its provider.
Resolves(resources, contexts) ==
    \A r \in resources : \E c \in contexts : c.name = r.context /\ c.provider = r.provider

\* MergeContexts: no name in both.
Merges(inline, file) == \A c \in inline, d \in file : c.name # d.name

\* What the command validate accepts.
Validates(i) ==
    /\ Parses(i.inline) /\ Converts(i.resources)
    /\ i.inline # {} => Resolves(i.resources, i.inline)

-----------------------------------------------------------------------------
(* The command. *)

\* The step from here to there, taken if ok; otherwise the run stops.
Check(here, there, ok) == stage = here /\ stage' = IF ok THEN there ELSE "stopped"

\* A file that does not exist is empty; one with resources in it is an error.
LoadConfigFile ==
    /\ \E readable \in BOOLEAN : Check("load", "merge", readable /\ Parses(input.file))
    /\ UNCHANGED <<input, desired, configs, connected>>

\* Errors of the inline contexts are dropped, and so is the result.
Merge ==
    /\ Check("merge", "detect",
             Parses(input.inline) => Merges(input.inline, input.file))
    /\ UNCHANGED <<input, desired, configs, connected>>

\* Errors of the conversion are dropped: the engine meets them again.
DetectMultipleContexts ==
    /\ Check("detect", "convert",
             input.flag = None /\ input.inline # {} =>
                 /\ Parses(input.inline)
                 /\ Converts(input.resources) => ~Multiple(input.resources))
    /\ UNCHANGED <<input, desired, configs, connected>>

-----------------------------------------------------------------------------
(* The engine. *)

Convert ==
    /\ Check("convert", "resolve", Converts(input.resources))
    /\ desired' = IF Converts(input.resources) THEN input.resources ELSE desired
    /\ UNCHANGED <<input, configs, connected>>

\* (Mutant of ResolveContexts: with a flag only its resources are looked at.)
ResolveSelected ==
    /\ Check("resolve", "build",
             input.inline # {} =>
                 /\ Parses(input.inline)
                 /\ Resolves({r \in desired : input.flag \in {None, r.context}}, input.inline))
    /\ UNCHANGED <<input, desired, configs, connected>>

ResolveContexts ==
    /\ Check("resolve", "build",
             input.inline # {} => Parses(input.inline) /\ Resolves(desired, input.inline))
    /\ UNCHANGED <<input, desired, configs, connected>>

ConnectionOf(p) == CHOOSE c \in input.inline : c.provider = p

\* (Mutant of BuildConfigs: any context of a provider will do.)
BuildConfigsOfAny ==
    /\ Check("build", "secrets", TRUE)
    /\ configs' = [p \in {c.provider : c \in input.inline} |-> ConnectionOf(p)]
    /\ UNCHANGED <<input, desired, connected>>

\* Without inline contexts there are no configurations.
BuildConfigs ==
    LET ok == \A c, d \in input.inline : c.provider = d.provider => c = d
    IN  /\ Check("build", "secrets", ok)
        /\ configs' = IF ok THEN [p \in {c.provider : c \in input.inline} |-> ConnectionOf(p)]
                      ELSE configs
        /\ UNCHANGED <<input, desired, connected>>

ResolveSecrets ==
    /\ \E resolved \in BOOLEAN : Check("secrets", "configure", resolved)
    /\ UNCHANGED <<input, desired, configs, connected>>

Needed == {r.provider : r \in desired}

\* Providers are configured in any order, each once; one without a
\* configuration, or out of reach, stops the run.
Configure(p) ==
    /\ p \in Needed \ DOMAIN connected
    /\ \E reachable \in BOOLEAN :
          LET ok == p \in DOMAIN configs /\ reachable
          IN  /\ Check("configure", "configure", ok)
              /\ connected' = IF ok THEN [c \in DOMAIN connected \cup {p} |->
                                             IF c = p THEN configs[p] ELSE connected[c]]
                              ELSE connected
    /\ UNCHANGED <<input, desired, configs>>

\* All providers are there: discovery, planning and, for apply, the changes.
Proceed ==
    /\ Needed = DOMAIN connected
    /\ Check("configure", "run", TRUE)
    /\ UNCHANGED <<input, desired, configs, connected>>

Next ==
    \/ LoadConfigFile \/ Merge \/ DetectMultipleContexts
    \/ Convert \/ ResolveContexts \/ BuildConfigs \/ ResolveSecrets
    \/ \E p \in Provider : Configure(p)
    \/ Proceed

Spec == Init /\ [][Next]_vars
-----------------------------------------------------------------------------
(* Properties. *)

TypeOK ==
    /\ input \in Inputs
    /\ stage \in {"load", "merge", "detect", "convert", "resolve", "build", "secrets",
                  "configure", "run", "stopped"}
    /\ desired \in {{}, input.resources}
    /\ DOMAIN configs \subseteq Provider /\ DOMAIN connected \subseteq DOMAIN configs
    /\ \A p \in DOMAIN configs : configs[p] \in Context /\ configs[p].provider = p

\* "every resource must declare which context it belongs to" (config.go, line
\* 108): a run that proceeds talks about each resource with the connection
\* that the resource names, and with no other.
RightConnection ==
    stage = "run" =>
        \A r \in desired : r.provider \in DOMAIN connected /\ connected[r.provider].name = r.context

\* "Safety rail: without the flag, datastorectl refuses to run" (README.md,
\* line 186) when resources target several contexts. The rail is in the
\* command, its detection ignores errors, and the engine does not repeat it.
SafetyRail ==
    stage = "run" /\ input.flag = None => Cardinality({r.context : r \in desired}) <= 1

\* The checks of validate and those of a run are separate code: nothing that
\* validate rejects gets as far as a connection.
RejectedIsNotRun == DOMAIN connected # {} => Validates(input)

\* "pass --context <name> to pick one" (README.md, line 186): a run with the
\* flag is about the resources of that context.
FlagSelects ==
    stage = "run" /\ input.flag # None => \A r \in desired : r.context = input.flag
=============================================================================
