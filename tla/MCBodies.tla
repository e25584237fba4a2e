------------------------------- MODULE MCBodies -------------------------------
(* Bodies with small blocks and small live bodies. *)
EXTENDS Bodies

MCEnv == [PASSWORD |-> "hidden", admin |-> "shown"]
MCDeclared == {<<"role", "admin">>}

s1 == StringVal("1")
s2 == StringVal("2")
Number(n) == Node("int", n, <<>>, <<>>)
Identifier(n) == Node("identifier", n, <<>>, <<>>)
admin == RefVal("role", "admin")
Secret(b, p) == FuncCallVal("secret", <<b, p>>)
env == Identifier("env")
MapExpr(keys, vals) == Node("map", "", keys, vals)

Leaves ==
    {s1, s2, Number("1"), Identifier("1"), admin, RefVal("role", "ghost"),
     Secret(env, StringVal("PASSWORD")), Secret(env, admin), Secret(env, StringVal("UNSET")),
     Secret(env, Secret(env, s1)), FuncCallVal("file", <<s1>>), FuncCallVal("secret", <<s1>>)}

Few == {s1, s2, admin, Secret(env, StringVal("PASSWORD"))}

\* Lists and maps of leaves, a key twice, and one more level.
Containers ==
    {ListVal(<<>>)} \cup {ListVal(<<x>>) : x \in Leaves} \cup {ListVal(<<x, y>>) : x, y \in Few}
        \cup {MapExpr(<<"a">>, <<x>>) : x \in Leaves}
        \cup {MapExpr(ks, <<x, y>>) : ks \in {<<"a", "b">>, <<"b", "a">>, <<"a", "a">>}, x, y \in Few}
        \cup {ListVal(<<s1, MapExpr(<<"a">>, <<x>>)>>) : x \in Few}
        \cup {MapExpr(<<"b", "a">>, <<ListVal(<<x>>), s2>>) : x \in Few}

Exprs == Leaves \cup Containers

Block(label, attrs, blocks) == [label |-> label, attrs |-> attrs, blocks |-> blocks]
Attr(k, e) == [key |-> k, expr |-> e]
Of(type, block) == [type |-> type, block |-> block]

\* Nested blocks: labelled or not, with an attribute or with blocks of their own.
inner == Block("", <<Attr("a", s1)>>, <<>>)
Nested ==
    {Block(l, <<Attr("a", x)>>, <<>>) : l \in {"", "x"}, x \in {s1}}
        \cup {Block("", <<>>, bs) : bs \in {<<Of("c", inner)>>, <<Of("c", inner), Of("c", inner)>>}}

Schemas ==
    {NoSchema} \cup {[declared |-> TRUE, list |-> l, map |-> {"b"} \ l] : l \in {{}, {"b"}}}
        \cup {[declared |-> TRUE, list |-> {"b", "c"}, map |-> {}], [declared |-> TRUE, list |-> {}, map |-> {}]}

MCBlocks ==
    {[block |-> Block("r", <<Attr("a", e)>>, <<>>), schema |-> NoSchema] : e \in Exprs}
        \cup {[block |-> Block("r", <<Attr(ks[1], e), Attr(ks[2], f)>>, <<>>), schema |-> NoSchema] :
                 ks \in {<<"a", "b">>, <<"b", "a">>}, e, f \in {s1, s2, admin}}
        \cup {[block |-> Block("r", <<>>, <<Of("b", n)>>), schema |-> s] : n \in Nested, s \in Schemas}
        \cup {[block |-> Block("r", <<Attr("a", s1)>>, <<Of(t, n), Of("b", m)>>), schema |-> s] :
                 t \in {"b", "c"}, n, m \in Nested, s \in Schemas}

\* Bodies of a cluster have no references and no calls, but may have nulls.
Plains == {Null, s1, Number("1"), StringVal("hidden")}
Structured ==
    {ListVal(<<x>>) : x \in {Null, s1}} \cup {ListVal(<<x, y>>) : x, y \in {s1, s2}}
        \cup {ListVal(<<>>), ListVal(<<s1, s2, s1>>)}
        \cup {MapVal(<<"a">>, <<x>>) : x \in {Null, s1}}
        \cup {MapVal(ks, <<s1, s2>>) : ks \in {<<"a", "b">>, <<"b", "a">>}}
        \cup {MapVal(<<"x">>, <<MapVal(<<"a">>, <<s1>>)>>), ListVal(<<s1, MapVal(<<"a">>, <<s1>>)>>),
              ListVal(<<MapVal(<<"a">>, <<s1>>)>>)}

MCLives ==
    {MapVal(<<>>, <<>>)} \cup {MapVal(<<"a">>, <<x>>) : x \in Plains \cup Structured}
        \cup {MapVal(<<"b">>, <<x>>) : x \in Structured}
        \cup {MapVal(ks, <<s1, x>>) : ks \in {<<"a", "b">>, <<"b", "a">>},
                                      x \in {s1, s2, ListVal(<<s1>>), MapVal(<<"a">>, <<s1>>)}}
=============================================================================
