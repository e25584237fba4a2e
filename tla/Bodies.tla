-------------------------------- MODULE Bodies --------------------------------
(***************************************************************************)
(* One resource on its way through Engine.plan: from its block to the body *)
(* that is compared with the live one. Each step is a loop of the engine   *)
(* over all resources, and the first error ends the run. What the provider *)
(* normalizes is left alone here (see OpenSearchHandlers for that), and so *)
(* is the attribute context, which is gone before references are resolved. *)
(***************************************************************************)
EXTENDS Values, FiniteSets

CONSTANTS
    Blocks,     \* [block, schema]: what may be declared
    Lives,      \* bodies that may be discovered under the same identity
    Declared,   \* identities of the declared resources
    Env         \* the environment variables that are set

VARIABLES
    declared,   \* the block and the schema of its type
    stage,      \* the next step
    converted,  \* the body as converted
    body,       \* the body now
    edges,      \* the resources that the graph says it depends on
    live,       \* the discovered body
    diffs       \* what plan shows

vars == <<declared, stage, converted, body, edges, live, diffs>>

Init ==
    /\ declared \in Blocks
    /\ stage = "convert"
    /\ converted = Null /\ body = Null /\ edges = {} /\ live = Null /\ diffs = <<>>

Step(here, there, ok) == stage = here /\ stage' = IF ok THEN there ELSE "stopped"

Convert ==
    LET ok == Convertible(declared.block, declared.schema)
    IN  /\ Step("convert", "graph", ok)
        /\ converted' = IF ok THEN ConvertBody(declared.block, declared.schema) ELSE Null
        /\ body' = converted'
        /\ UNCHANGED <<declared, edges, live, diffs>>

\* The graph has an edge for each reference to a declared resource, and an
\* error for each other one.
BuildDependencyGraph ==
    /\ Step("graph", "references", References(body) \subseteq Declared)
    /\ edges' = References(body) \cap Declared
    /\ UNCHANGED <<declared, converted, body, live, diffs>>

\* The step from here to there that replaces the body, or fails.
Replace(here, there, resolved) ==
    /\ Step(here, there, resolved # Failed)
    /\ body' = IF resolved # Failed THEN resolved ELSE body
    /\ UNCHANGED <<declared, converted, edges, live, diffs>>

ResolveReferences == Replace("references", "secrets", ResolveRef(body, Declared))

ResolveSecrets == Replace("secrets", "compare", ResolveSecret(body, Env))

DiffResources ==
    /\ Step("compare", "planned", TRUE)
    /\ live' \in Lives
    /\ diffs' = DiffValues(<<>>, live', body)
    /\ UNCHANGED <<declared, converted, body, edges>>

Next ==
    \/ Convert \/ BuildDependencyGraph \/ ResolveReferences \/ ResolveSecrets
    \/ DiffResources

Spec == Init /\ [][Next]_vars
-----------------------------------------------------------------------------
(* Places in a value: paths of keys and indices, defined without reference *)
(* to the functions of the code.                                           *)

\* The steps from a value to its parts, and the part behind a step.
Steps(v) ==
    CASE v.kind = "map" -> {Key(k) : k \in ToSet(v.keys)}
      [] v.kind \in {"list", "call"} -> {Index(i) : i \in DOMAIN v.kids}
      [] OTHER -> {}

Part(v, s) ==
    IF v.kind = "map" THEN v.kids[CHOOSE i \in DOMAIN v.keys : v.keys[i] = s.key]
    ELSE v.kids[s.index]

At(v, path) == FoldLeft(Part, v, path)

RECURSIVE Places(_)
Places(v) == {<<>>} \cup UNION {{<<s>> \o p : p \in Places(Part(v, s))} : s \in Steps(v)}

Above(p) == {SubSeq(p, 1, n) : n \in 0 .. Len(p) - 1}

\* Containers in which a diff looks further.
Comparable(v, w) == v.kind = w.kind /\ v.kind \in {"map", "list"}

\* Equal but for the order of keys.
Same(v, w) ==
    /\ Places(v) = Places(w)
    /\ \A p \in Places(v) : \/ Comparable(At(v, p), At(w, p))
                            \/ At(v, p) = At(w, p)

-----------------------------------------------------------------------------
(* Properties. *)

\* "With FieldBlockList, it must produce a ListVal with one element
\* regardless of count" (convert_test.go, line 1238): when a type has a
\* schema, another number of nested blocks does not change the form of a field,
\* so that a provider can rely on it.
FormIsStable ==
    stage = "graph" /\ declared.schema.declared =>
        \A d \in Blocks :
            d.schema = declared.schema /\ Convertible(d.block, d.schema) =>
                \A t \in ToSet(Types(d.block)) \cap ToSet(Types(declared.block)) :
                    Get(ConvertBody(d.block, d.schema), t).kind = Get(converted, t).kind

\* The order of execution comes from the graph alone: wherever a reference has
\* been replaced by the name of another resource, in whatever list, map or
\* argument it stands, there is an edge to that resource. Two different
\* walks find the references (refs.go, lines 46 and 96).
ReplacedHasEdge ==
    stage = "secrets" =>
        \A p \in Places(converted) :
            At(converted, p).kind = "reference" => At(converted, p).keys \in edges

\* The string that an argument is, or is replaced by.
Plain(v) == IF v.kind = "reference" THEN v.keys[2] ELSE v.name

\* What reaches a provider is what is declared: no reference and no secret is
\* left at any depth, the ones there were are replaced by the name and the
\* value that they stand for, and nothing else is changed.
ResolvedAsDeclared ==
    stage = "compare" =>
        /\ \A p \in Places(body) :
              At(body, p).kind \notin {"identifier", "reference", "call"}
        /\ \A p \in Places(converted) :
              (\A q \in Above(p) : At(converted, q).kind # "call") =>
                  LET was == At(converted, p)
                      is  == At(body, p)
                  IN  /\ p \in Places(body)
                      /\ CASE was.kind = "reference" -> is = StringVal(was.keys[2])
                           [] was.kind = "call" ->
                                 /\ was.name = "secret" /\ Len(was.kids) = 2
                                 /\ Plain(was.kids[2]) \in DOMAIN Env
                                 /\ is = StringVal(Env[Plain(was.kids[2])])
                           [] OTHER -> /\ is.kind = was.kind /\ is.name = was.name
                                       /\ is.keys = was.keys /\ Len(is.kids) = Len(was.kids)

\* The plan shows each difference once, at the deepest place at which it can
\* be told, with what is there on either side, and nothing else. In particular
\* a resource counts as unchanged exactly if it is the same but for the order
\* of keys, although Value.Equal, with which the diff begins at each place,
\* respects that order (diff.go, line 45).
DiffsAreExact ==
    stage = "planned" =>
        LET there  == Places(live)
            here   == Places(body)
            differ == {p \in there \cup here :
                         /\ \A q \in Above(p) : q \in there \cap here /\ Comparable(At(live, q), At(body, q))
                         /\ p \in there \cap here =>
                                /\ ~Comparable(At(live, p), At(body, p))
                                /\ At(live, p) # At(body, p)}
            old(p) == IF p \in there THEN At(live, p) ELSE Null
            new(p) == IF p \in here THEN At(body, p) ELSE Null
            kind(p) == IF p \in here /\ old(p) = Null THEN "added"
                       ELSE IF new(p) = Null THEN "removed" ELSE "modified"
        IN  /\ ToSet(diffs) = {[kind |-> kind(p), path |-> p, old |-> old(p), new |-> new(p)] : p \in differ}
            /\ Len(diffs) = Cardinality(differ)
            /\ diffs = <<>> <=> Same(live, body)
=============================================================================
