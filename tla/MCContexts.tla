------------------------------ MODULE MCContexts ------------------------------
(* Contexts with two providers, three names and small files. *)
EXTENDS Contexts

CONSTANTS opensearch, mysql, prod, staging, db

\* Inline and in the configuration file: none, one or two contexts.
Some == {x \in SUBSET Context : Cardinality(x) <= 2}
OneAtMost == {x \in SUBSET Context : Cardinality(x) <= 1}

Resource == [provider : Provider, label : {"a", "b"}, context : Name \cup {None}]

MCInputs == [inline : Some, file : OneAtMost,
             resources : {x \in SUBSET Resource : Cardinality(x) \in {1, 2}},
             flag : {None, prod}]

\* One context for each provider, in the files, and one resource in each.
TwoContexts ==
    {[inline |-> {[name |-> prod, provider |-> opensearch], [name |-> db, provider |-> mysql]},
      file |-> {},
      resources |-> {[provider |-> opensearch, label |-> "a", context |-> prod],
                     [provider |-> mysql, label |-> "a", context |-> db]},
      flag |-> f] : f \in {None, prod}}
=============================================================================
