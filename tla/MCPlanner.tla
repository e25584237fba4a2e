------------------------------ MODULE MCPlanner ------------------------------
(* Planner on files of up to three blocks: a user and a role, whose labels    *)
(* Normalize may rewrite, and a grant, with at most one reference per block.  *)
EXTENDS Planner, TLC

CONSTANTS u, u2, r, r2, g, x    \* labels u, r, g; rewritten forms u2, r2; other
CONSTANT y                      \* the label of one more grant

MCId == {u, u2, r, r2, g, x}

MCTypeOf == u :> "user" @@ u2 :> "user" @@ r :> "role" @@ r2 :> "role"
              @@ g :> "grant" @@ x :> "user"

\* providers/mysql TypeOrderings.
MCOrderings == {[before |-> "user", after |-> "grant"],
                [before |-> "user", after |-> "role"],
                [before |-> "role", after |-> "grant"]}

MCChecked == {"user", "role"}

Labelling == {f \in [{u, r, g} -> MCId] :
                /\ f[u] \in {u, u2} /\ f[r] \in {r, r2} /\ f[g] = g}

\* References forwards and backwards, to the block itself and to no block.
References == {f \in [{u, r, g} -> SUBSET {u, r, g, x}] :
                 /\ f[u] \in {{}, {g}}
                 /\ f[r] \in {{}, {u}, {g}}
                 /\ f[g] \in {{}, {r, u}, {g}, {x}}}

BlockFor(l, norm, refs) == [label |-> l, norm |-> norm[l], refs |-> refs[l]]

Files ==
    UNION {{<<BlockFor(g, norm, refs), BlockFor(r, norm, refs), BlockFor(u, norm, refs)>>,
            <<BlockFor(u, norm, refs), BlockFor(g, norm, refs)>>} :
           norm \in Labelling, refs \in References}
    
\* --allow-self-lockout matters with --prune only.
Options == {o \in [prune : BOOLEAN, allow : BOOLEAN] : o.allow => o.prune}

InputsOf(files) == {[blocks |-> f, prune |-> o.prune, allow |-> o.allow] :
                      f \in files, o \in Options}

MCInputs == InputsOf(Files)

\* An empty server, one with some or all of the declared identities, with
\* identities equal to labels that Normalize rewrites, and with others.
MCClusters == {{}, {u2, g}, {u2, r2, g}, {u, r, x}, {r, r2, g, x}, MCId}

-----------------------------------------------------------------------------
(* Labels that are another block's identity: mysql_user "a" is user b@%, and  *)
(* the block labelled "b@%" is some other user. Every file below is accepted  *)
(* by every check of the pipeline.                                            *)

Crossing == {<<[label |-> u, norm |-> u2, refs |-> {}],
               [label |-> u2, norm |-> n, refs |-> {}]>> \o rest :
             n \in {u, x},
             rest \in {<<>>, <<[label |-> g, norm |-> g, refs |-> {}]>>}}

\* Two grants, under different labels, of the same privileges' scope to the same
\* user: cross_validate.go rejects such pairs of users and of roles only.
SameScope == {<<[label |-> g, norm |-> g, refs |-> {}], [label |-> y, norm |-> g, refs |-> {}]>>}

CrossingId == MCId \cup {y}
CrossingTypeOf == MCTypeOf @@ y :> "grant"
CrossingInputs == InputsOf(Crossing \cup SameScope)
=============================================================================
