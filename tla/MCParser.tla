------------------------------ MODULE MCParser ------------------------------
(* Parser on files written from syntax trees in several layouts, on the same *)
(* files with one token dropped, put in or replaced, with values broken, and *)
(* on every short sequence of tokens.                                        *)
EXTENDS Parser

T(kind) == [kind |-> kind, lit |-> kind]
Ident(name) == [kind |-> "ident", lit |-> name]
Newline == T("newline")

-----------------------------------------------------------------------------
(* How a syntax tree is written, token by token. A layout says what stands    *)
(* between statements and between the elements of lists and maps.            *)

Layouts == [statements : {<<>>, <<Newline>>, <<T("comment"), Newline, Newline>>},
            elements : {<<>>, <<T(",")>>, <<Newline>>, <<T(","), Newline>>},
            arguments : {<<T(",")>>}]   \* this comma is not optional

Plain == [statements |-> <<>>, elements |-> <<>>, arguments |-> <<>>]

RECURSIVE Written(_, _), WrittenAll(_, _, _)

WrittenAll(nodes, separator, layout) ==
    IF nodes = <<>> THEN <<>>
    ELSE Written(nodes[1], layout)
           \o (IF Len(nodes) = 1 THEN <<>> ELSE separator)
           \o WrittenAll(Tail(nodes), separator, layout)

Dotted(parts) == [i \in 1 .. 2 * Len(parts) - 1 |->
                    IF i % 2 = 1 THEN Ident(parts[(i + 1) \div 2]) ELSE T(".")]

Written(node, layout) ==
    LET kids(separator) == WrittenAll(node.kids, separator, layout)
    IN  CASE node.kind = "file" -> kids(layout.statements)
          [] node.kind = "block" ->
                <<Ident(node.name[1])>>
                  \o (IF Len(node.name) = 2
                      THEN <<[kind |-> "string", lit |-> node.name[2]]>> ELSE <<>>)
                  \o <<T("{")>> \o layout.statements
                  \o kids(layout.statements) \o layout.statements \o <<T("}")>>
          [] node.kind = "attribute" -> <<Ident(node.name[1]), T("=")>> \o kids(<<>>)
          [] node.kind = "name" -> Dotted(node.name)
          [] node.kind = "list" -> <<T("[")>> \o kids(layout.elements) \o <<T("]")>>
          [] node.kind = "map" -> <<T("{")>> \o kids(layout.elements) \o <<T("}")>>
          [] node.kind = "call" -> <<Ident(node.name[1]), T("(")>>
                                     \o kids(layout.arguments) \o <<T(")")>>
          [] OTHER -> <<[kind |-> node.kind, lit |-> node.name[1]]>>

-----------------------------------------------------------------------------
(* Syntax trees. *)

Leaf(kind) == Node(kind, <<kind>>, <<>>)
Attr(key, value) == Node("attribute", <<key>>, <<value>>)
List(values) == Node("list", <<>>, values)
Map(entries) == Node("map", <<>>, entries)
Call(args) == Node("call", <<"f">>, args)

\* Values up to two levels deep around a given one.
Around(v) ==
    {v, List(<<v, Leaf("true")>>), Map(<<Attr("k", v), Attr("k", Leaf("int"))>>),
     Call(<<Leaf("string"), v>>),
     List(<<List(<<Leaf("int")>>), Map(<<Attr("k", v)>>)>>),
     Map(<<Attr("k", List(<<Call(<<v>>)>>)), Attr("m", Map(<<>>))>>)}

Simple == {Leaf("int"), Leaf("float"), Leaf("false"), Node("name", <<"a">>, <<>>),
           Node("name", <<"a", "b", "c">>, <<>>), List(<<>>), Map(<<>>), Call(<<>>)}

\* Blocks and statements before, behind and around the value.
FileOf(v) ==
    Node("file", <<>>,
      <<Node("block", <<"a", "l">>,
          <<Attr("x", v),
            Node("block", <<"c">>, <<Attr("x", v), Attr("y", Leaf("int"))>>),
            Node("block", <<"c">>, <<>>),
            Attr("y", Leaf("string"))>>),
        Node("block", <<"b">>, <<Attr("x", List(<<Leaf("int")>>))>>)>>)

SmallFileOf(v) ==
    Node("file", <<>>, <<Node("block", <<"a", "l">>,
                           <<Node("block", <<"c">>, <<Attr("x", v)>>), Attr("y", v)>>),
                         Node("block", <<"b">>, <<>>)>>)

Files == {FileOf(w) : w \in UNION {Around(v) : v \in Simple}}
           \cup {Node("file", <<>>, <<>>)}

\* A file and the ways in which it may be written, without its comments.
Writings == {<<f, NonComment(Written(f, layout))>> : f \in Files, layout \in Layouts}

-----------------------------------------------------------------------------
(* Files with values that are none, and what should be left of them: the      *)
(* attributes that hold such a value are lost, nothing else.                  *)

Bad == {Leaf("="), Leaf("illegal"), Leaf("badnumber")}

RECURSIVE Holds(_, _)
Holds(node, bad) == node = bad \/ \E i \in DOMAIN node.kids : Holds(node.kids[i], bad)

RECURSIVE Without(_, _)
Without(node, bad) ==
    LET kept == SelectSeq(node.kids, LAMBDA k : k.kind = "block" \/ ~Holds(k, bad))
    IN  IF node.kind \in {"file", "block"}
        THEN [node EXCEPT !.kids = [i \in DOMAIN kept |-> Without(kept[i], bad)]]
        ELSE node

BreakagesWith(bad) ==
    {<<Without(FileOf(v), bad), NonComment(Written(FileOf(v), layout))>> :
       v \in Around(bad), layout \in {l \in Layouts : l.statements # <<>>}}

Breakages == UNION {BreakagesWith(bad) : bad \in Bad}

-----------------------------------------------------------------------------
(* Texts with one token changed, and short texts of any tokens. *)

Kinds == {"ident", "string", "int", "true", "badnumber", "illegal", "newline", "=", ",",
          ".", "{", "}", "[", "]", "(", ")"}

Dropped(text) == {SubSeq(text, 1, i - 1) \o SubSeq(text, i + 1, Len(text)) : i \in DOMAIN text}
PutIn(text) == {SubSeq(text, 1, i) \o <<T(k)>> \o SubSeq(text, i + 1, Len(text)) :
                  i \in 0 .. Len(text), k \in Kinds}
Replaced(text) == {[text EXCEPT ![i] = T(k)] : i \in DOMAIN text, k \in Kinds}
Cut(text) == {SubSeq(text, 1, i) : i \in DOMAIN text}

EditsOf(text) == Dropped(text) \cup PutIn(text) \cup Replaced(text) \cup Cut(text)

Edited == UNION {EditsOf(Written(SmallFileOf(v), [statements |-> s, elements |-> <<T(",")>>, arguments |-> <<T(",")>>])) :
                   v \in {List(<<Call(<<Leaf("int"), Leaf("string")>>)>>),
                          Map(<<Attr("k", List(<<>>)), Attr("m", Node("name", <<"a", "b">>, <<>>))>>)},
                   s \in {<<>>, <<Newline>>}}

\* An identifier, a brace and so on: what the loop over statements sees.
Short == UNION {[1 .. n -> {T(k) : k \in {"ident", "string", "=", "{", "}", "newline"}}] :
                  n \in 0 .. 4}

\* Blocks in blocks, none of which is closed.
Unclosed == {[i \in 1 .. 2 * n |-> T(IF i % 2 = 1 THEN "ident" ELSE "{")] : n \in 1 .. 5}

MCTexts == {Written(f, layout) : f \in Files, layout \in Layouts} \cup {b[2] : b \in Breakages} \cup Edited \cup Short \cup Unclosed

-----------------------------------------------------------------------------
(* Properties. *)

Done == pc = "done"
file == stack[1]

\* The lexer reports what is no token; such a file has diagnostics as well.
Diagnosed == errs > 0 \/ \E i \in DOMAIN tokens : tokens[i].kind = "illegal"

\* What is written is read: a file written from a syntax tree, in whatever
\* layout, is accepted and its tree is that one.
WrittenIsRead ==
    Done => \A w \in Writings : w[2] = tokens => file = w[1] /\ ~Diagnosed

\* What is accepted has been read: the tree of a file without diagnostics
\* accounts for every token but the newlines and commas, in their order. No
\* recovery is silent, and no attribute is overwritten by another one.
AcceptedIsRead ==
    Done /\ ~Diagnosed =>
        Written(file, Plain) = SelectSeq(tokens, LAMBDA t : t.kind \notin {"newline", ","})

\* TestRecovery_ErrorInNestedBlock_ParentAndSiblingsParsed and its neighbours
\* (parser_test.go, lines 1158-1268), for any value: one that cannot be read
\* costs the attribute that holds it and one error; what stands before, behind
\* and around is read. FileOf writes the value in two attributes, hence two
\* errors. Statements stand on lines of their own, and a call's arguments on
\* one line: recovery goes by lines, and a broken call of several costs more.
ErrorCostsOneAttribute ==
    Done => \A b \in Breakages : b[2] = tokens => file = b[1] /\ errs = 2

\* The parser comes to an end, whatever it is given: where the recovery makes no
\* progress the errors run out.
Terminates == <>Done
=============================================================================
