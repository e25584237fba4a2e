-------------------------------- MODULE Values --------------------------------
(***************************************************************************)
(* Values and what the engine computes on them: conversion of blocks,      *)
(* references, secrets and the diff. All values have one shape, so that    *)
(* Equal is =: it respects the order of keys, as in the code.              *)
(* Values are trees and the operators recursive: for TLC only.             *)
(***************************************************************************)
EXTENDS Naturals, Sequences, SequencesExt

Node(kind, name, keys, kids) == [kind |-> kind, name |-> name, keys |-> keys, kids |-> kids]

Null == Node("null", "", <<>>, <<>>)
StringVal(s) == Node("string", s, <<>>, <<>>)
ListVal(elems) == Node("list", "", <<>>, elems)
RefVal(type, name) == Node("reference", "", <<type, name>>, <<>>)
FuncCallVal(f, args) == Node("call", f, <<>>, args)

\* Value.Equal and OrderedMap.Equal.
Equal(v, w) == v = w

Entry(m, k) == SelectInSeq(m.keys, LAMBDA j : j = k)

\* OrderedMap.Set keeps the place of a key that is there.
Set(m, k, v) ==
    IF k \in ToSet(m.keys) THEN [m EXCEPT !.kids[Entry(m, k)] = v]
    ELSE [m EXCEPT !.keys = Append(@, k), !.kids = Append(@, v)]

Get(m, k) == m.kids[Entry(m, k)]

MapVal(keys, vals) ==
    FoldLeftDomain(LAMBDA m, i : Set(m, keys[i], vals[i]), Node("map", "", <<>>, <<>>), keys)

-----------------------------------------------------------------------------
(* Conversion of a block [label, attrs, blocks], whose attributes are pairs *)
(* of a key and an expression, and whose nested blocks are pairs of a type  *)
(* and a block. An expression is a value, or an identifier, or a map that   *)
(* may have a key twice.                                                    *)

NoSchema == [declared |-> FALSE, list |-> {}, map |-> {}]

RECURSIVE ExprToValue(_)
ExprToValue(e) ==
    LET kids == [i \in DOMAIN e.kids |-> ExprToValue(e.kids[i])]
    IN  CASE e.kind = "identifier" -> StringVal(e.name)
          [] e.kind = "map" -> MapVal(e.keys, kids)
          [] OTHER -> [e EXCEPT !.kids = kids]

\* Nested blocks grouped by type, in the order in which the types come first.
Types(b) ==
    FoldLeft(LAMBDA ts, n : IF n.type \in ToSet(ts) THEN ts ELSE Append(ts, n.type), <<>>, b.blocks)

Group(b, t) == SelectSeq(b.blocks, LAMBDA n : n.type = t)

\* (Mutant of IsList: the schema is not asked.)
IsListByCount(b, t, schema) == Len(Group(b, t)) > 1

\* A schema decides; without one, or inside nested blocks, the number does.
IsList(b, t, schema) ==
    IF schema.declared THEN t \in schema.list ELSE Len(Group(b, t)) > 1

Convertible(b, schema) ==
    schema.declared =>
        \A t \in ToSet(Types(b)) : /\ t \in schema.list \cup schema.map
                                   /\ t \in schema.map => Len(Group(b, t)) = 1

RECURSIVE ConvertBody(_, _)
ConvertBody(b, schema) ==
    LET Nested(n) == LET inner == ConvertBody(n.block, NoSchema)
                     IN  IF n.block.label = "" THEN inner
                         ELSE MapVal(<<n.block.label>>, <<inner>>)
        Field(t)  == LET g == Group(b, t)
                     IN  IF IsList(b, t, schema) THEN ListVal([i \in DOMAIN g |-> Nested(g[i])])
                         ELSE Nested(g[1])
        attrs == b.attrs
        types == Types(b)
    IN  MapVal([i \in DOMAIN attrs |-> attrs[i].key] \o types,
               [i \in DOMAIN attrs |-> ExprToValue(attrs[i].expr)]
                   \o [i \in DOMAIN types |-> Field(types[i])])

-----------------------------------------------------------------------------
(* References and secrets. *)

\* (Mutant of References: arguments of calls are not looked at.)
RECURSIVE ReferencesOutsideCalls(_)
ReferencesOutsideCalls(v) ==
    IF v.kind = "reference" THEN {v.keys}
    ELSE IF v.kind = "call" THEN {}
    ELSE UNION {ReferencesOutsideCalls(v.kids[i]) : i \in DOMAIN v.kids}

\* ExtractReferences: identities [1] type, [2] name. The parser makes no
\* reference of fewer parts, and further parts are ignored.
RECURSIVE References(_)
References(v) ==
    IF v.kind = "reference" THEN {v.keys}
    ELSE UNION {References(v.kids[i]) : i \in DOMAIN v.kids}

\* A walk that fails in one place fails.
Failed == Node("failed", "", <<>>, <<>>)
Walked(v, kids) == IF Failed \in ToSet(kids) THEN Failed ELSE [v EXCEPT !.kids = kids]

\* The label of the target takes the place of the reference.
RECURSIVE ResolveRef(_, _)
ResolveRef(v, index) ==
    IF v.kind = "reference"
    THEN IF v.keys \in index THEN StringVal(v.keys[2]) ELSE Failed
    ELSE Walked(v, [i \in DOMAIN v.kids |-> ResolveRef(v.kids[i], index)])

\* secret(backend, path), with strings only; env is a function from paths.
ResolveFunction(v, env) ==
    IF /\ v.name = "secret" /\ Len(v.kids) = 2
       /\ \A i \in 1 .. 2 : v.kids[i].kind = "string"
       /\ v.kids[1].name = "env" /\ v.kids[2].name \in DOMAIN env
    THEN StringVal(env[v.kids[2].name])
    ELSE Failed

\* (Mutant of ResolveSecret: lists are not walked.)
RECURSIVE ResolveSecretOutsideLists(_, _)
ResolveSecretOutsideLists(v, env) ==
    IF v.kind = "call" THEN ResolveFunction(v, env)
    ELSE IF v.kind = "list" THEN v
    ELSE Walked(v, [i \in DOMAIN v.kids |-> ResolveSecretOutsideLists(v.kids[i], env)])

RECURSIVE ResolveSecret(_, _)
ResolveSecret(v, env) ==
    IF v.kind = "call" THEN ResolveFunction(v, env)
    ELSE Walked(v, [i \in DOMAIN v.kids |-> ResolveSecret(v.kids[i], env)])

-----------------------------------------------------------------------------
(* The diff: a sequence of [kind, path, old, new], where a path is made of *)
(* keys and, in lists, indices.                                            *)

Key(k) == [key |-> k, index |-> 0]
Index(i) == [key |-> "", index |-> i]

Added(path, new) == [kind |-> "added", path |-> path, old |-> Null, new |-> new]
Removed(path, old) == [kind |-> "removed", path |-> path, old |-> old, new |-> Null]
Modified(path, old, new) == [kind |-> "modified", path |-> path, old |-> old, new |-> new]

RECURSIVE DiffValues(_, _, _)

\* diffMaps: the keys of old in their order, then those that only new has.
MapDiffs(path, old, new) ==
    LET kept  == [i \in DOMAIN old.keys |->
                    LET k == old.keys[i]
                    IN  IF k \in ToSet(new.keys)
                        THEN DiffValues(Append(path, Key(k)), Get(old, k), Get(new, k))
                        ELSE <<Removed(Append(path, Key(k)), Get(old, k))>>]
        fresh == SelectSeq(new.keys, LAMBDA k : k \notin ToSet(old.keys))
    IN  FlattenSeq(kept)
            \o [i \in DOMAIN fresh |-> Added(Append(path, Key(fresh[i])), Get(new, fresh[i]))]

\* (Mutant of ListDiffs: what new has beyond the end of old is forgotten.)
ListDiffsOfCommon(path, old, new) ==
    FlattenSeq([i \in DOMAIN old.kids |->
        LET p == Append(path, Index(i))
        IN  IF i \in DOMAIN new.kids THEN DiffValues(p, old.kids[i], new.kids[i])
            ELSE <<Removed(p, old.kids[i])>>])

\* diffLists: by position; what is beyond the end of one is added or removed.
ListDiffs(path, old, new) ==
    LET longer == IF Len(old.kids) < Len(new.kids) THEN new.kids ELSE old.kids
    IN  FlattenSeq([i \in DOMAIN longer |->
            LET p == Append(path, Index(i))
            IN  IF i \notin DOMAIN old.kids THEN <<Added(p, new.kids[i])>>
                ELSE IF i \notin DOMAIN new.kids THEN <<Removed(p, old.kids[i])>>
                ELSE DiffValues(p, old.kids[i], new.kids[i])])

DiffValues(path, old, new) ==
    IF Equal(old, new) THEN <<>>
    ELSE IF old.kind = "null" THEN <<Added(path, new)>>
    ELSE IF new.kind = "null" THEN <<Removed(path, old)>>
    ELSE IF old.kind = "map" /\ new.kind = "map"
         THEN MapDiffs(path, old, new)
    ELSE IF old.kind = "list" /\ new.kind = "list"
         THEN ListDiffs(path, old, new)
    ELSE <<Modified(path, old, new)>>
=============================================================================
