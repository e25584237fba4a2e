-------------------------- MODULE MySQLRunsProofs --------------------------
(***************************************************************************)
(* Theorems about MySQLRuns: its types; that a run without --prune touches *)
(* only what is declared; that what is held and declared is never taken    *)
(* away, and that no delete takes anything from the caller. The invariant  *)
(* RunsInv says what each goroutine may still do: its script is a sequence *)
(* of statements about its own resource (StatementsFor), drops the         *)
(* resource only to delete it, and there are deletes only with --prune, of *)
(* what is not declared. That a script stays so is a matter of the         *)
(* handlers alone (ScriptIsLocal), whatever state of the server they read  *)
(* it from; that such a statement touches nothing else is a matter of the  *)
(* server (EffectLocal, EffectFacts). KeepInv and SpareInv add to it what  *)
(* those two theorems need, under the conditions they name. That a plan    *)
(* with changes has a first layer comes from the theorems about the sort   *)
(* (SortProofs).                                                           *)
(*                                                                         *)
(* The second half is about where a run arrives: after a run that nothing  *)
(* disturbed a plan has nothing to do. LeadsInv says of such a run that    *)
(* every resource is settled or changed in one of the layers left, and     *)
(* what the rest of each script still has to do (OneLeft, EdgesLeft,       *)
(* GrantsLeft). A statement does its part for its own resource (OwnLeads)  *)
(* and leaves the others as far as they have come (LeavesOthers, the       *)
(* lemmas ...Stays).                                                       *)
(***************************************************************************)
EXTENDS MySQLRuns, FiniteSetTheorems, TLAPS

\* The operations of a change.
Operation == {"create", "update", "delete", "noop"}

\* The statements that remove a resource.
Dropping == {"DROP USER", "DROP ROLE", "DROP SCHEMA"}

\* The statement is about the resource, drops it only to delete it, grants
\* nothing then, and leaves no user without a password.
About(id, op, st) ==
    /\ id.type = "user" =>
          st.verb \in {"CREATE USER", "ALTER USER", "DROP USER"} /\ st.acct = id.acct
    /\ id.type = "role" =>
          /\ st.verb \in {"CREATE ROLE", "GRANT ROLE", "REVOKE ROLE", "DROP ROLE"}
          /\ st.acct = id.acct
    /\ id.type = "grant" =>
          st.verb \in {"GRANT", "REVOKE"} /\ st.acct = id.acct /\ st.scope = id.scope
    /\ id.type = "database" =>
          st.verb \in {"CREATE SCHEMA", "ALTER SCHEMA", "DROP SCHEMA"} /\ st.schema = id.scope
    /\ st.verb \in {"CREATE USER", "ALTER USER"} => st.clauses.auth # Empty
    /\ st.verb \in Dropping => op = "delete"
    /\ st.verb = "GRANT" => op # "delete"

StatementsFor(id, op) == {st \in Statement : About(id, op, st)}

-----------------------------------------------------------------------------
\* What identities there are, and what their types say of them.
LEMMA IdFacts ==
    ASSUME NEW id \in ResourceID
    PROVE  /\ id.type \in {"user", "role", "grant", "database"}
           /\ id.type = "user" => id.acct \in Account /\ id = UserId(id.acct)
           /\ id.type = "role" => id.acct \in Account /\ id = RoleId(id.acct)
           /\ id.type = "grant" => /\ id.acct \in Account /\ id.scope \in Scope
                                   /\ id = GrantId(id.acct, id.scope)
           /\ id.type = "database" => id.scope \in Schema /\ id = DatabaseId(id.scope)
BY DEF ResourceID, UserId, RoleId, GrantId, DatabaseId

\* What statements there are, by their verbs.
LEMMA StatementFacts ==
    ASSUME NEW st \in Statement
    PROVE  \/ st.verb \in {"CREATE USER", "ALTER USER"} /\ st.acct \in Account /\ st.clauses \in Clauses
           \/ st.verb \in {"CREATE ROLE", "DROP USER", "DROP ROLE"} /\ st.acct \in Account
           \/ /\ st.verb \in {"GRANT ROLE", "REVOKE ROLE"}
              /\ st.acct \in Account /\ st.role \in Account
           \/ /\ st.verb = "GRANT" /\ st.acct \in Account /\ st.scope \in Scope
              /\ st.privs \in SUBSET PrivName /\ st.opt \in BOOLEAN
           \/ /\ st.verb = "REVOKE" /\ st.acct \in Account /\ st.scope \in Scope
              /\ st.privs \in SUBSET PrivName
           \/ /\ st.verb \in {"CREATE SCHEMA", "ALTER SCHEMA"} /\ st.schema \in Schema
              /\ st.charset \in Charset \cup {"unset"}
           \/ st.verb = "DROP SCHEMA" /\ st.schema \in Schema
BY DEF Statement

\* A field at a time, a row and a server keep their types.
LEMMA RowFields ==
    ASSUME NEW r \in Row
    PROVE  /\ \A v \in BOOLEAN : [r EXCEPT !.exists = v] \in Row
           /\ \A v \in BOOLEAN : [r EXCEPT !.locked = v] \in Row
           /\ \A v \in Password \cup {Empty} : [r EXCEPT !.auth = v] \in Row
           /\ \A v \in 0 .. 1 : [r EXCEPT !.limit = v] \in Row
           /\ \A v \in {"none", "comment"} : [r EXCEPT !.attribute = v] \in Row
BY DEF Row

\* A server keeps its type when a component is replaced by one of its type.
LEMMA ServerFields ==
    ASSUME NEW sv \in Server
    PROVE  /\ \A v \in [Account -> Row] : [sv EXCEPT !.row = v] \in Server
           /\ \A v \in SUBSET (Account \X Account) : [sv EXCEPT !.edges = v] \in Server
           /\ \A v \in [Account \X Scope -> SUBSET Priv] : [sv EXCEPT !.held = v] \in Server
           /\ \A v \in SUBSET (Account \X Scope) : [sv EXCEPT !.opt = v] \in Server
           /\ \A v \in [Schema -> Charset \cup {NoSchema}] : [sv EXCEPT !.schema = v] \in Server
BY DEF Server

\* The rows that statements make are rows.
LEMMA RowsMade ==
    /\ NoRow \in Row
    /\ RoleRow \in Row
    /\ \A cl \in Clauses : RowOf(cl) \in Row
    /\ \A r \in Row, cl \in Clauses : Altered(r, cl) \in Row
<1>1. NoRow \in Row
    BY DEF NoRow, Row
<1>2. RoleRow \in Row
  <2>1. [NoRow EXCEPT !.exists = TRUE] \in Row
      BY <1>1, RowFields
  <2> DEFINE r == [NoRow EXCEPT !.exists = TRUE]
  <2>2. [r EXCEPT !.locked = TRUE] \in Row
      BY <2>1, RowFields
  <2> QED  BY <2>2 DEF RoleRow
<1>3. ASSUME NEW cl \in Clauses PROVE RowOf(cl) \in Row
    BY DEF RowOf, Row, Clauses
<1>4. ASSUME NEW r \in Row, NEW cl \in Clauses PROVE Altered(r, cl) \in Row
  <2> DEFINE r1 == [r EXCEPT !.auth = cl.auth]
             r2 == [r1 EXCEPT !.locked = r.locked \/ cl.locked]
             r3 == [r2 EXCEPT !.limit = IF cl.limit = 0 THEN r.limit ELSE cl.limit]
             r4 == [r3 EXCEPT !.attribute = IF cl.comment = "none" THEN r.attribute ELSE cl.comment]
  <2>1. /\ cl.auth \in Password \cup {Empty} /\ cl.limit \in 0 .. 1
        /\ cl.comment \in {"none", "comment"}
        /\ r.limit \in 0 .. 1 /\ r.attribute \in {"none", "comment"}
      BY DEF Clauses, Row
  <2>2. (r.locked \/ cl.locked) \in BOOLEAN
      OBVIOUS
  <2>3. r1 \in Row
      BY <2>1, RowFields
  <2>4. r2 \in Row
    <3> HIDE DEF r1
    <3> QED  BY <2>2, <2>3, RowFields
  <2>5. r3 \in Row
    <3>1. (IF cl.limit = 0 THEN r.limit ELSE cl.limit) \in 0 .. 1
        BY <2>1
    <3> HIDE DEF r2
    <3> QED  BY <2>4, <3>1, RowFields
  <2>6. r4 \in Row
    <3>1. (IF cl.comment = "none" THEN r.attribute ELSE cl.comment) \in {"none", "comment"}
        BY <2>1
    <3> HIDE DEF r3
    <3> QED  BY <2>5, <3>1, RowFields
  <2> QED  BY <2>6, Zenon DEF Altered
<1> QED  BY <1>1, <1>2, <1>3, <1>4

\* What the server makes of a statement it accepts is a state of the server.
LEMMA EffectTyped ==
    ASSUME NEW sv \in Server, NEW st \in Statement, Accepted(sv, st)
    PROVE  Effect(sv, st) \in Server
<1>0. /\ sv.row \in [Account -> Row] /\ sv.edges \in SUBSET (Account \X Account)
      /\ sv.held \in [Account \X Scope -> SUBSET Priv] /\ sv.opt \in SUBSET (Account \X Scope)
      /\ sv.schema \in [Schema -> Charset \cup {NoSchema}]
    BY DEF Server
<1>1. ASSUME NEW a \in Account, NEW r \in Row
      PROVE  [sv EXCEPT !.row[a] = r] \in Server
  <2>1. [sv.row EXCEPT ![a] = r] \in [Account -> Row]
      BY <1>0
  <2> QED  BY <2>1, ServerFields
<1>2. CASE st.verb \in {"CREATE USER", "ALTER USER"}
  <2>1. st.acct \in Account /\ st.clauses \in Clauses
      BY <1>2, StatementFacts
  <2>2. RowOf(st.clauses) \in Row /\ Altered(sv.row[st.acct], st.clauses) \in Row
      BY <1>0, <2>1, RowsMade
  <2>3. PICK row \in Row : Effect(sv, st) = [sv EXCEPT !.row[st.acct] = row]
      BY <1>2, <2>2 DEF Effect
  <2> QED  BY <1>1, <2>1, <2>3
<1>3. CASE st.verb = "CREATE ROLE"
  <2>1. st.acct \in Account /\ Effect(sv, st) = [sv EXCEPT !.row[st.acct] = RoleRow]
      BY <1>3, StatementFacts DEF Effect
  <2> QED  BY <1>1, <2>1, RowsMade
<1>4. CASE st.verb \in {"DROP USER", "DROP ROLE"}
  <2> DEFINE a == st.acct
             row == [sv.row EXCEPT ![a] = NoRow]
             edges == {e \in sv.edges : a \notin {e[1], e[2]}}
             held == [p \in Account \X Scope |-> IF p[1] = a THEN {} ELSE sv.held[p]]
             opt == {p \in sv.opt : p[1] # a}
             s1 == [sv EXCEPT !.row = row]
             s2 == [s1 EXCEPT !.edges = edges]
             s3 == [s2 EXCEPT !.held = held]
             s4 == [s3 EXCEPT !.opt = opt]
  <2>1. row \in [Account -> Row] /\ edges \in SUBSET (Account \X Account) /\ opt \in SUBSET (Account \X Scope)
      BY <1>0, RowsMade
  <2>2. held \in [Account \X Scope -> SUBSET Priv]
      BY <1>0
  <2>3. Effect(sv, st) = s4
    <3>1. Effect(sv, st) = Dropped(sv, a)
        BY <1>4 DEF Effect
    <3> QED  BY <3>1, Zenon DEF Dropped
  <2> HIDE DEF row, edges, held, opt
  <2>4. s1 \in Server
      BY <2>1, ServerFields
  <2>5. s2 \in Server
    <3> HIDE DEF s1
    <3> QED  BY <2>1, <2>4, ServerFields
  <2>6. s3 \in Server
    <3> HIDE DEF s2
    <3> QED  BY <2>2, <2>5, ServerFields
  <2> HIDE DEF s3
  <2> QED  BY <2>1, <2>3, <2>6, ServerFields
<1>5. CASE st.verb \in {"GRANT ROLE", "REVOKE ROLE"}
  <2>1. st.acct \in Account /\ st.role \in Account
      BY <1>5, StatementFacts
  <2>2. \/ Effect(sv, st) = [sv EXCEPT !.edges = sv.edges \cup {<<st.role, st.acct>>}]
        \/ Effect(sv, st) = [sv EXCEPT !.edges = sv.edges \ {<<st.role, st.acct>>}]
      BY <1>5 DEF Effect
  <2> QED  BY <1>0, <2>1, <2>2, ServerFields
<1>6. CASE st.verb \in {"GRANT", "REVOKE"}
  <2> DEFINE p == <<st.acct, st.scope>>
  <2>1. p \in Account \X Scope /\ st.privs \in SUBSET PrivName
      BY <1>6, StatementFacts
  <2>2. Meant(st.privs) \in SUBSET Priv
      BY <2>1 DEF Meant, PrivName
  <2>3. PICK held, opt :
          /\ Effect(sv, st) = [sv EXCEPT !.held = held, !.opt = opt]
          /\ held \in {[sv.held EXCEPT ![p] = sv.held[p] \cup Meant(st.privs)],
                       [sv.held EXCEPT ![p] = sv.held[p] \ Meant(st.privs)]}
          /\ opt \in {sv.opt, sv.opt \cup {p}, sv.opt \ {p}}
    <3>1. CASE st.verb = "GRANT"
        BY <3>1 DEF Effect
    <3>2. CASE st.verb = "REVOKE"
        BY <3>2 DEF Effect
    <3> QED  BY <1>6, <3>1, <3>2
  <2>4. held \in [Account \X Scope -> SUBSET Priv] /\ opt \in SUBSET (Account \X Scope)
      BY <1>0, <2>1, <2>2, <2>3
  <2> DEFINE s1 == [sv EXCEPT !.held = held]
  <2>5. s1 \in Server
      BY <2>4, ServerFields
  <2>6. Effect(sv, st) = [s1 EXCEPT !.opt = opt]
      BY <2>3
  <2> HIDE DEF s1
  <2> QED  BY <2>4, <2>5, <2>6, ServerFields
<1>7. CASE st.verb \in {"CREATE SCHEMA", "ALTER SCHEMA", "DROP SCHEMA"}
  <2>1. st.schema \in Schema /\ (st.verb # "DROP SCHEMA" => st.charset \in Charset \cup {"unset"})
      BY <1>7, StatementFacts
  <2>2. DefaultCharset \in Charset
      BY ServerAssumption DEF DefaultCharset
  <2>3. PICK c \in Charset \cup {NoSchema} : Effect(sv, st) = [sv EXCEPT !.schema[st.schema] = c]
    <3>1. CASE st.verb = "CREATE SCHEMA"
        BY <2>1, <2>2, <3>1 DEF Effect
    <3>2. CASE st.verb = "ALTER SCHEMA"
        BY <2>1, <3>2 DEF Effect, Accepted
    <3>3. CASE st.verb = "DROP SCHEMA"
        BY <3>3 DEF Effect
    <3> QED  BY <1>7, <3>1, <3>2, <3>3
  <2>4. [sv.schema EXCEPT ![st.schema] = c] \in [Schema -> Charset \cup {NoSchema}]
      BY <1>0
  <2> QED  BY <2>3, <2>4, ServerFields
<1> QED  BY <1>2, <1>3, <1>4, <1>5, <1>6, <1>7, StatementFacts

\* A statement that does not drop touches the resource it is about only.
LEMMA EffectLocal ==
    ASSUME NEW sv \in Server, NEW id \in ResourceID, NEW op, op # "delete",
           NEW st \in StatementsFor(id, op)
    PROVE  LET after == Effect(sv, st)
           IN  /\ \A a \in Account : id \notin {UserId(a), RoleId(a)} => after.row[a] = sv.row[a]
               /\ \A e \in Account \X Account : id # RoleId(e[2]) =>
                     (e \in after.edges <=> e \in sv.edges)
               /\ \A p \in Account \X Scope : id # GrantId(p[1], p[2]) =>
                     /\ after.held[p] = sv.held[p]
                     /\ p \in after.opt <=> p \in sv.opt
               /\ \A s \in Schema : id # DatabaseId(s) => after.schema[s] = sv.schema[s]
<1>0. /\ sv = [row |-> sv.row, edges |-> sv.edges, held |-> sv.held, opt |-> sv.opt, schema |-> sv.schema]
      /\ sv.row \in [Account -> Row]
      /\ sv.held \in [Account \X Scope -> SUBSET Priv]
      /\ sv.schema \in [Schema -> Charset \cup {NoSchema}]
    BY DEF Server
<1>1. About(id, op, st) /\ st \in Statement
    BY DEF StatementsFor
<1>2. CASE id.type = "user"
  <2>1. st.verb \in {"CREATE USER", "ALTER USER"} /\ st.acct = id.acct
      BY <1>1, <1>2 DEF About, Dropping
  <2>2. PICK row : Effect(sv, st) = [sv EXCEPT !.row[st.acct] = row]
      BY <2>1 DEF Effect
  <2>3. \A a \in Account : id # UserId(a) => st.acct # a
      BY <1>2, <2>1, IdFacts
  <2> QED  BY <1>0, <2>2, <2>3
<1>3. CASE id.type = "role"
  <2>1. st.verb \in {"CREATE ROLE", "GRANT ROLE", "REVOKE ROLE"} /\ st.acct = id.acct
      BY <1>1, <1>3 DEF About, Dropping
  <2>2. \A a \in Account : id # RoleId(a) => st.acct # a
      BY <1>3, <2>1, IdFacts
  <2>3. \/ Effect(sv, st) = [sv EXCEPT !.row[st.acct] = RoleRow]
        \/ Effect(sv, st) = [sv EXCEPT !.edges = sv.edges \cup {<<st.role, st.acct>>}]
        \/ Effect(sv, st) = [sv EXCEPT !.edges = sv.edges \ {<<st.role, st.acct>>}]
      BY <2>1 DEF Effect
  <2> QED  BY <1>0, <2>2, <2>3
<1>4. CASE id.type = "grant"
  <2>1. st.verb \in {"GRANT", "REVOKE"} /\ st.acct = id.acct /\ st.scope = id.scope
      BY <1>1, <1>4 DEF About
  <2>2. \A p \in Account \X Scope : id # GrantId(p[1], p[2]) => <<st.acct, st.scope>> # p
      BY <1>4, <2>1, IdFacts
  <2>3. PICK privs, opt :
            /\ Effect(sv, st) = [sv EXCEPT !.held[<<st.acct, st.scope>>] = privs, !.opt = opt]
            /\ opt \in {sv.opt, sv.opt \cup {<<st.acct, st.scope>>}, sv.opt \ {<<st.acct, st.scope>>}}
    <3>1. CASE st.verb = "GRANT"
        BY <3>1 DEF Effect
    <3>2. CASE st.verb = "REVOKE"
        BY <3>2 DEF Effect
    <3> QED  BY <2>1, <3>1, <3>2
  <2> QED  BY <1>0, <2>2, <2>3
<1>5. CASE id.type = "database"
  <2>1. st.verb \in {"CREATE SCHEMA", "ALTER SCHEMA"} /\ st.schema = id.scope
      BY <1>1, <1>5 DEF About, Dropping
  <2>2. PICK c : Effect(sv, st) = [sv EXCEPT !.schema[st.schema] = c]
      BY <2>1 DEF Effect
  <2>3. \A s \in Schema : id # DatabaseId(s) => st.schema # s
      BY <1>5, <2>1, IdFacts
  <2> QED  BY <1>0, <2>2, <2>3
<1> QED  BY <1>2, <1>3, <1>4, <1>5, IdFacts

\* What a statement takes and gives: privileges and edges go by a REVOKE or
\* with an account, come by a GRANT, and the row of an account changes only
\* by a statement about it.
LEMMA EffectFacts ==
    ASSUME NEW sv \in Server, NEW st \in Statement
    PROVE  LET after == Effect(sv, st)
               drops == st.verb \in {"DROP USER", "DROP ROLE"}
           IN  /\ \A p \in Account \X Scope : \A x : x \in sv.held[p] /\ x \notin after.held[p] =>
                     \/ st.verb = "REVOKE" /\ p = <<st.acct, st.scope>> /\ x \in Meant(st.privs)
                     \/ drops /\ st.acct = p[1]
               /\ \A p \in Account \X Scope : \A x : x \notin sv.held[p] /\ x \in after.held[p] =>
                     st.verb = "GRANT" /\ p = <<st.acct, st.scope>>
               /\ \A e \in sv.edges \ after.edges :
                     \/ st.verb = "REVOKE ROLE" /\ e = <<st.role, st.acct>>
                     \/ drops /\ st.acct \in {e[1], e[2]}
               /\ \A e \in after.edges \ sv.edges :
                     st.verb = "GRANT ROLE" /\ e = <<st.role, st.acct>>
               /\ \A a \in Account : after.row[a] # sv.row[a] =>
                     /\ st.verb \in {"CREATE USER", "ALTER USER", "CREATE ROLE",
                                     "DROP USER", "DROP ROLE"}
                     /\ st.acct = a
<1>0. /\ sv = [row |-> sv.row, edges |-> sv.edges, held |-> sv.held, opt |-> sv.opt, schema |-> sv.schema]
      /\ sv.row \in [Account -> Row]
      /\ sv.held \in [Account \X Scope -> SUBSET Priv]
    BY DEF Server
<1>1. CASE st.verb \in {"CREATE USER", "ALTER USER", "CREATE ROLE"}
  <2>1. PICK row : Effect(sv, st) = [sv EXCEPT !.row[st.acct] = row]
      BY <1>1 DEF Effect
  <2> QED  BY <1>0, <1>1, <2>1
<1>2. CASE st.verb \in {"DROP USER", "DROP ROLE"}
  <2>1. Effect(sv, st) = Dropped(sv, st.acct)
      BY <1>2 DEF Effect
  <2>2. /\ Effect(sv, st).row = [sv.row EXCEPT ![st.acct] = NoRow]
        /\ Effect(sv, st).edges = {e \in sv.edges : st.acct \notin {e[1], e[2]}}
        /\ Effect(sv, st).held = [p \in Account \X Scope |-> IF p[1] = st.acct THEN {} ELSE sv.held[p]]
      BY <1>0, <2>1 DEF Dropped
  <2> DEFINE after == Effect(sv, st)
  <2> HIDE DEF after
  <2>3. \A p \in Account \X Scope : after.held[p] = IF p[1] = st.acct THEN {} ELSE sv.held[p]
      BY <2>2 DEF after
  <2>4. \A e : e \in after.edges <=> (e \in sv.edges /\ st.acct \notin {e[1], e[2]})
      BY <2>2 DEF after
  <2>5. \A a \in Account : a # st.acct => after.row[a] = sv.row[a]
      BY <1>0, <2>2 DEF after
  <2> QED  BY <1>2, <2>3, <2>4, <2>5 DEF after
<1>3. CASE st.verb = "GRANT ROLE"
  <2>1. Effect(sv, st) = [sv EXCEPT !.edges = sv.edges \cup {<<st.role, st.acct>>}]
      BY <1>3 DEF Effect
  <2> QED  BY <1>0, <1>3, <2>1
<1>4. CASE st.verb = "REVOKE ROLE"
  <2>1. Effect(sv, st) = [sv EXCEPT !.edges = sv.edges \ {<<st.role, st.acct>>}]
      BY <1>4 DEF Effect
  <2> QED  BY <1>0, <1>4, <2>1
<1>5. CASE st.verb = "GRANT"
  <2> DEFINE q == <<st.acct, st.scope>>
  <2>1. PICK opt : Effect(sv, st) = [sv EXCEPT !.held[q] = sv.held[q] \cup Meant(st.privs), !.opt = opt]
      BY <1>5 DEF Effect
  <2> QED  BY <1>0, <1>5, <2>1
<1>6. CASE st.verb = "REVOKE"
  <2> DEFINE q == <<st.acct, st.scope>>
  <2>1. PICK opt : Effect(sv, st) = [sv EXCEPT !.held[q] = sv.held[q] \ Meant(st.privs), !.opt = opt]
      BY <1>6 DEF Effect
  <2> QED  BY <1>0, <1>6, <2>1
<1>7. CASE st.verb \in {"CREATE SCHEMA", "ALTER SCHEMA", "DROP SCHEMA"}
  <2>1. PICK c : Effect(sv, st) = [sv EXCEPT !.schema[st.schema] = c]
      BY <1>7 DEF Effect
  <2> QED  BY <1>0, <2>1
<1> QED  BY <1>1, <1>2, <1>3, <1>4, <1>5, <1>6, <1>7, StatementFacts

\* A privilege goes by a REVOKE or with its account.
LEMMA HeldTaken ==
    ASSUME NEW sv \in Server, NEW st \in Statement, NEW p \in Account \X Scope,
           NEW x, x \in sv.held[p], x \notin Effect(sv, st).held[p]
    PROVE  \/ st.verb = "REVOKE" /\ p = <<st.acct, st.scope>> /\ x \in Meant(st.privs)
           \/ st.verb \in {"DROP USER", "DROP ROLE"} /\ st.acct = p[1]
<1>1. \A q \in Account \X Scope : \A y : y \in sv.held[q] /\ y \notin Effect(sv, st).held[q] =>
          \/ st.verb = "REVOKE" /\ q = <<st.acct, st.scope>> /\ y \in Meant(st.privs)
          \/ st.verb \in {"DROP USER", "DROP ROLE"} /\ st.acct = q[1]
    BY EffectFacts, Zenon
<1> QED  BY <1>1

\* A privilege comes by a GRANT.
LEMMA HeldGiven ==
    ASSUME NEW sv \in Server, NEW st \in Statement, NEW p \in Account \X Scope,
           NEW x, x \notin sv.held[p], x \in Effect(sv, st).held[p]
    PROVE  st.verb = "GRANT" /\ p = <<st.acct, st.scope>>
BY EffectFacts

\* The row of an account changes by a statement about the account.
LEMMA RowChanged ==
    ASSUME NEW sv \in Server, NEW st \in Statement, NEW a \in Account,
           Effect(sv, st).row[a] # sv.row[a]
    PROVE  /\ st.verb \in {"CREATE USER", "ALTER USER", "CREATE ROLE", "DROP USER", "DROP ROLE"}
           /\ st.acct = a
<1>1. \A b \in Account : Effect(sv, st).row[b] # sv.row[b] =>
          /\ st.verb \in {"CREATE USER", "ALTER USER", "CREATE ROLE", "DROP USER", "DROP ROLE"}
          /\ st.acct = b
    BY EffectFacts, Zenon
<1> QED  BY <1>1

-----------------------------------------------------------------------------
(* The scripts of the handlers. *)

\* Sequences of statements: how the handlers put them together.
LEMMA Sequencing ==
    ASSUME NEW X
    PROVE  /\ \A n \in Nat : \A f \in [1 .. n -> X] : f \in Seq(X)
           /\ \A x \in X : <<x>> \in Seq(X)
           /\ \A s, t \in Seq(X) : s \o t \in Seq(X)
OBVIOUS

\* A script of one statement.
LEMMA OneStatement ==
    ASSUME NEW X, NEW st \in X PROVE <<st>> \in Seq(X)
OBVIOUS

\* A sequence of some values is one of more of them.
LEMMA MoreToChoose ==
    ASSUME NEW S, NEW T, S \subseteq T
    PROVE  Seq(S) \subseteq Seq(T)
OBVIOUS

\* One statement for each role of a finite set.
EdgesOf(verb, roles, a) == {[verb |-> verb, role |-> r, acct |-> a] : r \in roles}

\* They are what EdgeStatements makes, in some order.
LEMMA EdgeScript ==
    ASSUME NEW roles \in SUBSET Account, NEW verb, NEW a
    PROVE  EdgeStatements(verb, roles, a) \in Seq(EdgesOf(verb, roles, a))
<1> DEFINE each == Ext!SetToSeq(roles)
           n == Cardinality(roles)
           script == EdgeStatements(verb, roles, a)
<1>1. IsFiniteSet(roles) /\ n \in Nat
    BY ServerAssumption, FS_Subset, FS_CardinalityType
<1>2. PICK m \in Nat : ExistsBijection(1 .. m, roles)
    BY <1>1, FS_NatBijection
<1>3. m = n
    BY <1>2, FS_CountingElements, FS_CardinalityType
<1>4. \E f \in [1 .. n -> roles] : Ext!IsInjective(f)
  <2>1. PICK f : f \in Bijection(1 .. n, roles)
      BY <1>2, <1>3 DEF ExistsBijection
  <2>2. f \in [1 .. n -> roles] /\ \A i, j \in 1 .. n : f[i] = f[j] => i = j
      BY <2>1 DEF Bijection, Injection, IsInjective
  <2> QED  BY <2>2 DEF Ext!IsInjective
<1>5. each \in [1 .. n -> roles]
  <2>1. Ext!Cardinality(roles) = n
      BY DEF Ext!Cardinality, Cardinality
  <2> HIDE DEF n
  <2> QED  BY <1>4, <2>1 DEF Ext!SetToSeq
<1>6. script \in [1 .. n -> EdgesOf(verb, roles, a)]
  <2>1. script = [i \in DOMAIN each |-> [verb |-> verb, role |-> each[i], acct |-> a]]
      BY DEF EdgeStatements
  <2> HIDE DEF each, n, script
  <2> QED  BY <1>5, <2>1 DEF EdgesOf
<1> HIDE DEF script, n
<1>7. script \in Seq(EdgesOf(verb, roles, a))
    BY <1>1, <1>6, Sequencing
<1> QED  BY <1>7 DEF script

\* They are about the role.
LEMMA EdgesAreStatements ==
    ASSUME NEW roles \in SUBSET Account, NEW id \in ResourceID, id.type = "role",
           NEW verb \in {"GRANT ROLE", "REVOKE ROLE"}, NEW op
    PROVE  /\ EdgesOf(verb, roles, id.acct) \subseteq StatementsFor(id, op)
           /\ EdgeStatements(verb, roles, id.acct) \in Seq(StatementsFor(id, op))
<1>1. ASSUME NEW r \in roles
      PROVE  [verb |-> verb, role |-> r, acct |-> id.acct] \in StatementsFor(id, op)
  <2>1. id.acct \in Account
      BY IdFacts
  <2>2. [verb |-> verb, role |-> r, acct |-> id.acct] \in Statement
      BY <2>1 DEF Statement
  <2> QED  BY <2>2 DEF StatementsFor, About, Dropping
<1> DEFINE each == EdgesOf(verb, roles, id.acct)
           Statements == StatementsFor(id, op)
<1>2. each \subseteq Statements
    BY <1>1 DEF EdgesOf
<1>3. EdgeStatements(verb, roles, id.acct) \in Seq(each)
    BY EdgeScript
<1>4. Seq(each) \subseteq Seq(Statements)
  <2> HIDE DEF each, Statements
  <2> QED  BY <1>2, MoreToChoose
<1> QED  BY <1>2, <1>3, <1>4

\* The script of the user handler (CREATE, ALTER or DROP USER) is about the
\* user, and drops it only to delete it.
LEMMA UserStatements ==
    ASSUME NEW id \in ResourceID, id.type = "user", NEW op \in {"create", "update", "delete"},
           NEW body, op # "delete" => body \in ValidBodies("user")
    PROVE  UserScript(op, id, body) \in Seq(StatementsFor(id, op))
<1>0. id.acct \in Account
    BY IdFacts
<1>1. ASSUME NEW verb \in {"CREATE USER", "ALTER USER"}, op # "delete"
      PROVE  [verb |-> verb, acct |-> id.acct, clauses |-> body] \in StatementsFor(id, op)
  <2>1. body \in Clauses /\ body.auth # Empty
      BY <1>1 DEF ValidBodies
  <2> DEFINE st == [verb |-> verb, acct |-> id.acct, clauses |-> body]
  <2>2. st \in Statement
      BY <1>0, <2>1 DEF Statement
  <2>3. st.verb \in {"CREATE USER", "ALTER USER"} /\ st.acct = id.acct /\ st.clauses = body
      OBVIOUS
  <2> HIDE DEF st
  <2>4. About(id, op, st)
      BY <2>1, <2>3 DEF About, Dropping
  <2>5. st \in StatementsFor(id, op)
      BY <2>2, <2>4 DEF StatementsFor
  <2> QED  BY <2>5 DEF st
<1>2. op = "delete" => [verb |-> "DROP USER", acct |-> id.acct] \in StatementsFor(id, op)
  <2>1. [verb |-> "DROP USER", acct |-> id.acct] \in Statement
      BY <1>0 DEF Statement
  <2> QED  BY <2>1 DEF StatementsFor, About, Dropping
<1>3. PICK st \in StatementsFor(id, op) : UserScript(op, id, body) = <<st>>
    BY <1>1, <1>2 DEF UserScript
<1> QED  BY <1>3

\* The script of the role handler: CREATE or DROP ROLE, and the edges granted
\* to and revoked from the role.
LEMMA RoleStatements ==
    ASSUME NEW id \in ResourceID, id.type = "role", NEW op \in {"create", "update", "delete"},
           NEW body, op # "delete" => body \in ValidBodies("role"), NEW sv \in Server
    PROVE  RoleScript(op, id, body, sv) \in Seq(StatementsFor(id, op))
<1>0. id.acct \in Account
    BY IdFacts
<1> DEFINE current == RolesOf(sv)[id.acct]
           new == [verb |-> "CREATE ROLE", acct |-> id.acct]
           drop == [verb |-> "DROP ROLE", acct |-> id.acct]
           Statements == StatementsFor(id, op)
<1>1. current \in SUBSET Account
    BY <1>0 DEF RolesOf
<1>2. new \in Statements /\ (op = "delete" => drop \in Statements)
  <2>1. new \in Statement /\ drop \in Statement
      BY <1>0 DEF Statement
  <2> QED  BY <2>1 DEF StatementsFor, About, Dropping
<1>3. op # "delete" => body.granted \in SUBSET Account
    BY DEF ValidBodies
<1>4. CASE op = "create"
  <2>1. EdgeStatements("GRANT ROLE", body.granted, id.acct) \in Seq(Statements)
      BY <1>3, <1>4, EdgesAreStatements
  <2>2. RoleScript(op, id, body, sv)
          = <<new>> \o EdgeStatements("GRANT ROLE", body.granted, id.acct)
      BY <1>4 DEF RoleScript
  <2> HIDE DEF Statements, new
  <2> QED  BY <1>2, <2>1, <2>2, Sequencing DEF Statements
<1>5. CASE op = "update"
  <2>1. /\ EdgeStatements("GRANT ROLE", body.granted \ current, id.acct) \in Seq(Statements)
        /\ EdgeStatements("REVOKE ROLE", current \ body.granted, id.acct) \in Seq(Statements)
      BY <1>1, <1>3, <1>5, EdgesAreStatements
  <2>2. RoleScript(op, id, body, sv)
          = EdgeStatements("GRANT ROLE", body.granted \ current, id.acct)
              \o EdgeStatements("REVOKE ROLE", current \ body.granted, id.acct)
      BY <1>5 DEF RoleScript
  <2> HIDE DEF Statements
  <2> QED  BY <2>1, <2>2, Sequencing DEF Statements
<1>6. CASE op = "delete"
  <2>1. RoleScript(op, id, body, sv) = <<drop>>
      BY <1>6 DEF RoleScript
  <2> HIDE DEF Statements, drop
  <2> QED  BY <1>2, <1>6, <2>1, Sequencing DEF Statements
<1> QED  BY <1>4, <1>5, <1>6

\* The script of the grant handler: GRANT and REVOKE at its scope.
LEMMA GrantStatements ==
    ASSUME NEW id \in ResourceID, id.type = "grant", NEW op \in {"create", "update", "delete"},
           NEW body, op # "delete" => body \in ValidBodies("grant"), NEW sv \in Server
    PROVE  GrantScript(op, id, body, sv) \in Seq(StatementsFor(id, op))
<1>0. id.acct \in Account /\ id.scope \in Scope
    BY IdFacts
<1> DEFINE Statements == StatementsFor(id, op)
           current == CurrentPrivileges(sv, id)
<1>1. ASSUME NEW privs \in SUBSET PrivName, op # "delete"
      PROVE  GrantStatement(id, privs, body) \in Statements
  <2>1. GrantStatement(id, privs, body) \in Statement
      BY <1>0 DEF GrantStatement, Statement
  <2> QED  BY <1>1, <2>1 DEF StatementsFor, About, Dropping, GrantStatement
<1>2. ASSUME NEW privs \in SUBSET PrivName
      PROVE  RevokeStatement(id, privs) \in Statements
  <2>1. RevokeStatement(id, privs) \in Statement
      BY <1>0 DEF RevokeStatement, Statement
  <2> QED  BY <2>1 DEF StatementsFor, About, Dropping, RevokeStatement
<1>3. current \in SUBSET PrivName
  <2>1. sv.held[<<id.acct, id.scope>>] \in SUBSET Priv
      BY <1>0 DEF Server
  <2> QED  BY <2>1 DEF CurrentPrivileges, Shown, PrivName
<1>4. op # "delete" => body.privs \in SUBSET PrivName
    BY DEF ValidBodies
<1> HIDE DEF Statements, current
<1>5. CASE op = "create"
  <2>1. GrantScript(op, id, body, sv) = <<GrantStatement(id, body.privs, body)>>
      BY <1>5 DEF GrantScript
  <2>2. GrantStatement(id, body.privs, body) \in Statements
      BY <1>1, <1>4, <1>5
  <2> QED  BY <2>1, <2>2, Sequencing DEF Statements
<1>6. CASE op = "update"
  <2>1. GrantScript(op, id, body, sv) = GrantUpdate(id, body, sv)
      BY <1>6 DEF GrantScript
  <2> DEFINE toGrant == body.privs \ current
             toRevoke == current \ body.privs
             listed == IF toGrant # {} THEN toGrant ELSE body.privs
             differs == (body.opt = "true") # (<<id.acct, id.scope>> \in sv.opt)
             r == IF toRevoke # {} THEN <<RevokeStatement(id, toRevoke)>> ELSE <<>>
             g == IF toGrant # {} \/ differs THEN <<GrantStatement(id, listed, body)>> ELSE <<>>
  <2>2. GrantUpdate(id, body, sv) = r \o g
      BY DEF GrantUpdate, current
  <2>3. r \in Seq(Statements)
      BY <1>2, <1>3
  <2>4. g \in Seq(Statements)
    <3>1. listed \in SUBSET PrivName
        BY <1>4, <1>6
    <3> HIDE DEF listed, toGrant, differs
    <3> QED  BY <1>1, <1>6, <3>1
  <2> HIDE DEF r, g
  <2>5. r \o g \in Seq(Statements)
      BY <2>3, <2>4
  <2> QED  BY <2>1, <2>2, <2>5 DEF Statements
<1>7. CASE op = "delete"
  <2>1. GrantScript(op, id, body, sv) = <<RevokeStatement(id, {"ALL"})>>
      BY <1>7 DEF GrantScript
  <2>2. RevokeStatement(id, {"ALL"}) \in Statements
      BY <1>2 DEF PrivName
  <2> QED  BY <2>1, <2>2 DEF Statements
<1> QED  BY <1>5, <1>6, <1>7

\* The script of the database handler: one statement about the schema.
LEMMA DatabaseStatements ==
    ASSUME NEW id \in ResourceID, id.type = "database", NEW op \in {"create", "update", "delete"},
           NEW body, op # "delete" => body \in ValidBodies("database")
    PROVE  DatabaseScript(op, id, body) \in Seq(StatementsFor(id, op))
<1>0. id.scope \in Schema
    BY IdFacts
<1>1. ASSUME NEW verb \in {"CREATE SCHEMA", "ALTER SCHEMA"}, op # "delete"
      PROVE  [verb |-> verb, schema |-> id.scope, charset |-> body.charset] \in StatementsFor(id, op)
  <2>1. body.charset \in Charset \cup {"unset"}
      BY <1>1 DEF ValidBodies
  <2>2. [verb |-> verb, schema |-> id.scope, charset |-> body.charset] \in Statement
      BY <1>0, <2>1 DEF Statement
  <2> QED  BY <2>2 DEF StatementsFor, About, Dropping
<1>2. op = "delete" => [verb |-> "DROP SCHEMA", schema |-> id.scope] \in StatementsFor(id, op)
  <2>1. [verb |-> "DROP SCHEMA", schema |-> id.scope] \in Statement
      BY <1>0 DEF Statement
  <2> QED  BY <2>1 DEF StatementsFor, About, Dropping
<1>3. PICK st \in StatementsFor(id, op) : DatabaseScript(op, id, body) = <<st>>
    BY <1>1, <1>2 DEF DatabaseScript
<1> QED  BY <1>3

\* Whatever a handler reads, its script is about its resource.
LEMMA ScriptIsLocal ==
    ASSUME NEW id \in ResourceID, NEW op \in {"create", "update", "delete"},
           NEW body, op # "delete" => body \in ValidBodies(id.type), NEW sv \in Server
    PROVE  Script(op, id, body, sv) \in Seq(StatementsFor(id, op))
<1>1. CASE id.type = "user"
    BY <1>1, UserStatements DEF Script
<1>2. CASE id.type = "role"
    BY <1>2, RoleStatements DEF Script
<1>3. CASE id.type = "grant"
    BY <1>3, GrantStatements DEF Script
<1>4. CASE id.type = "database"
    BY <1>4, DatabaseStatements DEF Script
<1> QED  BY <1>1, <1>2, <1>3, <1>4, IdFacts

-----------------------------------------------------------------------------
(* Plans. *)

\* The changes that a plan may hold.
Planned ==
    {c \in [id : ResourceID, type : Operation] :
        IF c.type = "delete" THEN config.prune /\ c.id \notin declared ELSE c.id \in declared}

\* What a valid configuration declares.
LEMMA ConfigFacts ==
    ASSUME config \in Configs
    PROVE  /\ declared \subseteq ResourceID
           /\ config.refs \in [declared -> SUBSET declared]
           /\ \A id \in declared : config.body[id] \in ValidBodies(id.type)
BY ConfigsAssumption DEF ValidConfig, declared

\* Discovery returns identities of resources.
LEMMA DiscoverFinds ==
    ASSUME NEW sv PROVE Discover(sv) \subseteq ResourceID
BY DEF Discover, DiscoverUsers, DiscoverRoles, DiscoverGrants, DiscoverDatabases, ResourceID

\* The image of a finite set is finite.
LEMMA ImageFinite ==
    ASSUME NEW A, IsFiniteSet(A), NEW f, DOMAIN f = A, f = [x \in A |-> f[x]]
    PROVE  IsFiniteSet({f[x] : x \in A})
<1> DEFINE T == {f[x] : x \in A}
<1>1. f \in Surjection(A, T)
    BY DEF Surjection
<1> QED  BY <1>1, FS_Surjection

\* There are finitely many resources on a server.
LEMMA ResourcesFinite == IsFiniteSet(ResourceID)
<1> DEFINE user == [a \in Account |-> UserId(a)]
           role == [a \in Account |-> RoleId(a)]
           grant == [p \in Account \X Scope |-> GrantId(p[1], p[2])]
           database == [s \in Schema |-> DatabaseId(s)]
           Users == {user[a] : a \in Account}
           Roles == {role[a] : a \in Account}
           Grants == {grant[p] : p \in Account \X Scope}
           Databases == {database[s] : s \in Schema}
<1>1. IsFiniteSet(Account \X Scope)
    BY ServerAssumption, FS_Product
<1>2. IsFiniteSet(Users) /\ IsFiniteSet(Roles) /\ IsFiniteSet(Grants) /\ IsFiniteSet(Databases)
  <2> HIDE DEF user, role, grant, database
  <2>1. /\ DOMAIN user = Account /\ user = [a \in Account |-> user[a]]
        /\ DOMAIN role = Account /\ role = [a \in Account |-> role[a]]
        /\ DOMAIN grant = Account \X Scope /\ grant = [p \in Account \X Scope |-> grant[p]]
        /\ DOMAIN database = Schema /\ database = [s \in Schema |-> database[s]]
      BY DEF user, role, grant, database
  <2> QED  BY <1>1, <2>1, ServerAssumption, ImageFinite
<1>3. ResourceID \subseteq (Users \cup Roles) \cup (Grants \cup Databases)
  <2>1. ASSUME NEW a \in Account, NEW s \in Scope
        PROVE  GrantId(a, s) \in Grants
    <3>1. <<a, s>> \in Account \X Scope /\ grant[<<a, s>>] = GrantId(a, s)
        OBVIOUS
    <3> HIDE DEF grant
    <3> QED  BY <3>1
  <2>2. /\ \A a \in Account : UserId(a) \in Users /\ RoleId(a) \in Roles
        /\ \A s \in Schema : DatabaseId(s) \in Databases
      OBVIOUS
  <2> HIDE DEF Users, Roles, Grants, Databases
  <2> QED  BY <2>1, <2>2 DEF ResourceID
<1> HIDE DEF Users, Roles, Grants, Databases
<1> QED  BY <1>2, <1>3, FS_Union, FS_Subset

\* What a plan creates, updates and deletes.
LEMMA ChangeKinds ==
    ASSUME NEW c \in Changes
    PROVE  \/ \E d \in declared \ Live : c = [id |-> d, type |-> "create"]
           \/ \E d \in declared \cap Live :
                 c \in {[id |-> d, type |-> "update"], [id |-> d, type |-> "noop"]}
           \/ config.prune /\ \E l \in Live \ declared : c = [id |-> l, type |-> "delete"]
<1> DEFINE A == {[id |-> d, type |-> "create"] : d \in declared \ Live}
           B == {[id |-> d, type |-> IF Differs(d, config.body[d], server)
                                THEN "update" ELSE "noop"] : d \in declared \cap Live}
           D == {[id |-> l, type |-> "delete"] : l \in Live \ declared}
<1>1. Changes = Kept(A \cup B \cup D)
    BY DEF Changes
<1>2. c \in A \cup B \cup D /\ (c.type = "delete" => config.prune)
  <2> HIDE DEF A, B, D
  <2> QED  BY <1>1 DEF Kept
<1>3. CASE c \in A
    BY <1>3
<1>4. CASE c \in B
    BY <1>4
<1>5. CASE c \in D
    BY <1>2, <1>5
<1> QED  BY <1>2, <1>3, <1>4, <1>5

\* A plan deletes only with --prune, and its other changes are of declared
\* resources.
LEMMA ChangesArePlanned ==
    ASSUME config \in Configs
    PROVE  Changes \subseteq Planned
<1>1. Live \subseteq ResourceID
    BY DiscoverFinds DEF Live
<1>2. ASSUME NEW c \in Changes
      PROVE  /\ c \in [id : ResourceID, type : Operation]
             /\ c.type = "delete" => config.prune /\ c.id \notin declared
             /\ c.type # "delete" => c.id \in declared
    BY <1>1, ChangeKinds, ConfigFacts DEF Operation
<1> QED  BY <1>2 DEF Planned

\* What is deleted, or updated, was found on the server.
LEMMA ChangesAreFound ==
    ASSUME NEW c \in Changes, c.type # "create"
    PROVE  c.id \in Discover(server)
BY ChangeKinds DEF Live

\* Accounts are found as what they are.
LEMMA AccountsFound ==
    ASSUME NEW sv, NEW a \in Account
    PROVE  /\ UserId(a) \in Discover(sv) => IsUser(sv.row[a])
           /\ RoleId(a) \in Discover(sv) => IsRole(sv.row[a])
BY DEF Discover, DiscoverUsers, DiscoverRoles, DiscoverGrants, DiscoverDatabases,
       UserId, RoleId, GrantId, DatabaseId

-----------------------------------------------------------------------------
(* The order of a plan, from SortProofs. *)

\* The resources of a plan, and the theorems about sorting them.
PlanIds == declared \cup {c.id : c \in Changes}

Sort == INSTANCE SortProofs WITH Id <- declared \cup {c.id : c \in Changes}

\* The graph operators that MySQLRuns uses are those SortProofs is about.
LEMMA SameSort ==
    ASSUME NEW g, NEW index
    PROVE  /\ G!TopologicalSort(g) = Sort!TopologicalSort(g)
           /\ G!HasCycle(g) = Sort!HasCycle(g)
           /\ G!OrderPlan(index, g) = Sort!OrderPlan(index, g)
<1>1. G!TopologicalSort(g) = Sort!TopologicalSort(g)
    BY DEF G!TopologicalSort, Sort!TopologicalSort, G!NonEmpty, Sort!NonEmpty,
           G!KahnRounds, Sort!KahnRounds, G!KahnStep, Sort!KahnStep,
           G!KahnStart, Sort!KahnStart, G!InDegree, Sort!InDegree,
           G!Entries, Sort!Entries, G!Decrements, Sort!Decrements,
           G!Cardinality, Sort!Cardinality
<1>2. G!HasCycle(g) = Sort!HasCycle(g)
    BY <1>1 DEF G!HasCycle, Sort!HasCycle, G!Cardinality, Sort!Cardinality
<1>3. G!OrderPlan(index, g) = Sort!OrderPlan(index, g)
    BY <1>1 DEF G!OrderPlan, Sort!OrderPlan, G!NonEmpty, Sort!NonEmpty,
           G!Picked, Sort!Picked, G!Cardinality, Sort!Cardinality
<1> QED  BY <1>1, <1>2, <1>3

\* The type orderings are few.
LEMMA OrderingsFinite == IsFiniteSet(TypeOrderings)
<1>1. \A x, y, z : IsFiniteSet({x, y, z})
  <2>1. TAKE x, y, z
  <2>2. IsFiniteSet({x} \cup {y}) /\ IsFiniteSet({z})
      BY FS_Singleton, FS_Union
  <2>3. IsFiniteSet(({x} \cup {y}) \cup {z}) /\ ({x} \cup {y}) \cup {z} = {x, y, z}
      BY <2>2, FS_Union
  <2> QED  BY <2>3
<1> QED  BY <1>1 DEF TypeOrderings

IdsIn(layer) == {c.id : c \in layer}

\* No two layers have changes of one resource, and each change is in one of them.
Parts(ordered, changes) ==
    /\ \A i, j \in DOMAIN ordered : i # j => IdsIn(ordered[i]) \cap IdsIn(ordered[j]) = {}
    /\ \A x \in IdsIn(changes) : \E i \in DOMAIN ordered : x \in IdsIn(ordered[i])

\* So it is with layers placed as SortProofs says.
LEMMA PlacesPart ==
    ASSUME NEW h, NEW at, NEW ordered, Sort!Places(at, Sort!Indexed(Changes), h, ordered)
    PROVE  Parts(ordered, Changes)
<1> DEFINE index == Sort!Indexed(Changes)
<1>1. DOMAIN index = IdsIn(Changes) /\ \A id \in DOMAIN index : index[id].id = id
    BY DEF Sort!Indexed, IdsIn
<1> HIDE DEF index
<1>2. ASSUME NEW i \in DOMAIN ordered, NEW x
      PROVE  x \in IdsIn(ordered[i]) <=> x \in DOMAIN index /\ at[x] = i
    BY <1>1 DEF Sort!Places, IdsIn, index
<1>3. \A x \in DOMAIN index : at[x] \in DOMAIN ordered
    BY DEF Sort!Places, index
<1> QED  BY <1>1, <1>2, <1>3 DEF Parts

\* The layers of a plan hold its changes, each once, and there is a layer if
\* there is a change.
LEMMA LayersOfPlan ==
    ASSUME config \in Configs, Changes # {}, ~G!HasCycle(Graph)
    PROVE  LET ordered == G!OrderPlan(G!Indexed(Changes), WithDeletes(Graph))
           IN  ordered \in Seq(SUBSET Changes) /\ ordered # <<>> /\ Parts(ordered, Changes)
<1> DEFINE refs == [id \in PlanIds |-> IF id \in declared THEN config.refs[id] ELSE {}]
           types == [id \in PlanIds |-> id.type]
           g == Sort!BuildGraph(declared, refs, types, TypeOrderings)
           h == Sort!WithNodes(g, PlanIds)
<1>1. Graph = g
    BY DEF Graph, PlanIds, G!BuildGraph, Sort!BuildGraph, G!EdgeCount, Sort!EdgeCount,
           G!Cardinality, Sort!Cardinality
<1>2. WithDeletes(Graph) = h
  <2>1. \A c \in Changes : c.type = "delete" \/ c.id \in declared
      BY ChangesArePlanned DEF Planned
  <2>2. PlanIds = declared \cup {c.id : c \in {d \in Changes : d.type = "delete"}}
      BY <2>1 DEF PlanIds
  <2>3. Graph.nodes = declared
      BY <1>1 DEF Sort!BuildGraph
  <2>4. WithDeletes(Graph) = [Graph EXCEPT !.nodes = PlanIds]
      BY <2>2, <2>3 DEF WithDeletes
  <2> QED  BY <1>1, <2>4 DEF Sort!WithNodes
<1>3. IsFiniteSet(PlanIds)
  <2>1. PlanIds \subseteq ResourceID
      BY ConfigFacts, ChangesArePlanned DEF PlanIds, Planned
  <2> QED  BY <2>1, ResourcesFinite, FS_Subset
<1>4. declared \in SUBSET PlanIds /\ IsFiniteSet(declared)
    BY <1>3, FS_Subset DEF PlanIds
<1> HIDE DEF refs, types
<1>5. Sort!SortInput(g) /\ g.nodes = declared
  <2>1. Sort!IsFiniteSet(declared) /\ Sort!IsFiniteSet(TypeOrderings)
      BY <1>4, OrderingsFinite DEF Sort!IsFiniteSet, IsFiniteSet
  <2>2. declared \in SUBSET (declared \cup {c.id : c \in Changes})
      OBVIOUS
  <2> QED  BY <2>1, <2>2, Sort!BuiltSorts
<1>6. Sort!SortInput(h) /\ h.nodes = PlanIds /\ (Sort!HasCycle(h) => Sort!HasCycle(g))
  <2>1. g = [nodes |-> g.nodes, fwd |-> g.fwd, rev |-> g.rev]
      BY DEF Sort!BuildGraph
  <2>2. Sort!IsFiniteSet(PlanIds) /\ PlanIds \in SUBSET (declared \cup {c.id : c \in Changes})
      BY <1>3 DEF Sort!IsFiniteSet, IsFiniteSet, PlanIds
  <2> HIDE DEF g
  <2> QED  BY <1>4, <1>5, <2>1, <2>2, Sort!MoreNodes
<1>7. ~Sort!HasCycle(h)
    BY <1>1, <1>6, SameSort
<1> HIDE DEF g, h
<1>8. {c.id : c \in Changes} \subseteq h.nodes
    BY <1>6 DEF PlanIds
<1>9. LET ordered == Sort!OrderPlan(Sort!Indexed(Changes), h)
      IN  ordered \in Seq(SUBSET Changes) /\ ordered # <<>> /\ Parts(ordered, Changes)
  <2> DEFINE ordered == Sort!OrderPlan(Sort!Indexed(Changes), h)
  <2>1. /\ ordered \in Seq(SUBSET Changes) /\ ordered # <<>>
        /\ \E at : Sort!Places(at, Sort!Indexed(Changes), h, ordered)
      BY <1>6, <1>7, <1>8, Sort!PlanIsOrdered
  <2> HIDE DEF ordered
  <2>2. Parts(ordered, Changes)
      BY <2>1, PlacesPart
  <2> QED  BY <2>1, <2>2 DEF ordered
<1>10. G!Indexed(Changes) = Sort!Indexed(Changes)
    BY DEF G!Indexed, Sort!Indexed
<1> QED  BY <1>2, <1>9, <1>10, SameSort

-----------------------------------------------------------------------------
(* The inductive invariant. *)

\* What the goroutine w of the resource id is, and may still do.
WorkOK(id, w) ==
    /\ id \in ResourceID
    /\ w \in [op : Operation, pc : {"start", "running", "done"}, script : Seq(Statement)]
    /\ w.pc # "done" => w.op # "noop"
    /\ IF w.op = "delete" THEN config.prune /\ id \notin declared ELSE id \in declared
    /\ w.script \in Seq(StatementsFor(id, w.op))

Working == \A id \in DOMAIN work : WorkOK(id, work[id])

\* The layers left are planned, and nothing is left between two runs.
Bookkeeping ==
    /\ layers \in Seq(SUBSET Planned)
    /\ Idle => work = <<>> /\ failed = {}
    /\ failed \in SUBSET ResourceID
    /\ clean \in BOOLEAN /\ armed \in BOOLEAN /\ faults \in 0 .. MaxFaults

RunsInv ==
    /\ server \in Server /\ config \in Configs
    /\ Bookkeeping
    /\ Working

\* The invariant holds before the first run.
LEMMA RunsInit == Init => RunsInv
<1> SUFFICES ASSUME Init PROVE RunsInv
    OBVIOUS
<1>1. server \in Server /\ config \in Configs
    BY ConfigsAssumption DEF Init
<1>2. Bookkeeping
  <2>1. \A X : <<>> \in Seq(X)
      OBVIOUS
  <2>2. layers \in Seq(SUBSET Planned)
      BY <2>1 DEF Init
  <2>3. faults \in 0 .. MaxFaults
      BY ConfigsAssumption DEF Init
  <2> QED  BY <2>2, <2>3 DEF Init, Bookkeeping, Idle
<1>3. Working
  <2>1. DOMAIN work = {}
      BY DEF Init
  <2> QED  BY <2>1 DEF Working
<1> QED  BY <1>1, <1>2, <1>3 DEF RunsInv

\* The goroutines of a layer start with empty scripts, for planned changes.
LEMMA SpawnOK ==
    ASSUME NEW layer \in SUBSET Planned
    PROVE  \A id \in DOMAIN Spawn(layer) : WorkOK(id, Spawn(layer)[id])
<1> SUFFICES ASSUME NEW id \in {c.id : c \in layer}
             PROVE  WorkOK(id, Spawn(layer)[id])
    BY DEF Spawn
<1>1. PICK c \in layer : c.id = id /\ Spawn(layer)[id] = Goroutine(c)
    BY DEF Spawn
<1>2. c \in Planned
    BY <1>1
<1> DEFINE w == Goroutine(c)
<1>3. /\ c.id \in ResourceID /\ c.type \in Operation
      /\ IF c.type = "delete" THEN config.prune /\ c.id \notin declared ELSE c.id \in declared
    BY <1>2 DEF Planned
<1>4. \A X : <<>> \in Seq(X)
    OBVIOUS
<1>5. /\ w \in [op : Operation, pc : {"start", "running", "done"}, script : Seq(Statement)]
      /\ w.op = c.type /\ w.script = <<>> /\ (w.pc # "done" => w.op # "noop")
    BY <1>3, <1>4 DEF Goroutine
<1> HIDE DEF w
<1>6. WorkOK(c.id, w)
    BY <1>3, <1>4, <1>5 DEF WorkOK
<1> QED  BY <1>1, <1>6 DEF w

\* One goroutine moves on.
LEMMA WorkMoves ==
    ASSUME Working, NEW id \in DOMAIN work, NEW w, WorkOK(id, w),
           work' = [work EXCEPT ![id] = w], UNCHANGED config
    PROVE  Working'
BY DEF Working, WorkOK, declared

\* Without goroutines there is nothing to show of them.
LEMMA NothingWorks ==
    ASSUME work' = <<>>
    PROVE  Working'
BY DEF Working

\* Planning a run keeps the invariant.
LEMMA RunsPlan == RunsInv /\ Plan => RunsInv'
<1> SUFFICES ASSUME RunsInv, Plan PROVE RunsInv'
    OBVIOUS
<1>1. Changes # {}
    BY DEF Plan, NothingToDo
<1>2. layers' \in Seq(SUBSET Changes) /\ layers' # <<>>
    BY <1>1, LayersOfPlan DEF Plan, RunsInv
<1>3. Changes \in SUBSET Planned
    BY ChangesArePlanned DEF RunsInv
<1>4. Planned' = Planned
    BY DEF Plan, Planned, declared
<1>5. layers' \in Seq(SUBSET Planned') /\ layers'[1] \in SUBSET Planned
    BY <1>2, <1>3, <1>4
<1>6. Working'
  <2> DEFINE layer == layers'[1]
  <2>1. \A id \in DOMAIN Spawn(layer) : WorkOK(id, Spawn(layer)[id])
    <3> HIDE DEF layer
    <3>1. layer \in SUBSET Planned
        BY <1>5 DEF layer
    <3> QED  BY <3>1, SpawnOK
  <2>2. work' = Spawn(layer) /\ UNCHANGED config
      BY DEF Plan
  <2> HIDE DEF layer
  <2> QED  BY <2>1, <2>2 DEF Working, WorkOK, declared
<1>7. Bookkeeping'
    BY <1>2, <1>5 DEF Plan, RunsInv, Bookkeeping, Idle
<1> QED  BY <1>6, <1>7 DEF RunsInv, Plan

\* A goroutine that starts keeps it: its script is about its resource,
\* whatever the server's state the handler reads.
LEMMA RunsStart ==
    ASSUME RunsInv, NEW id \in DOMAIN work, Start(id)
    PROVE  RunsInv'
<1> DEFINE old == work[id]
           script == Script(old.op, id, BodyOf(id), server)
           w == IF ShouldSkip(id) THEN [old EXCEPT !.pc = "done"]
                ELSE [old EXCEPT !.pc = "running", !.script = script]
<1>1. WorkOK(id, old) /\ old.pc = "start"
    BY DEF RunsInv, Working, Start
<1>2. old.op \in {"create", "update", "delete"}
    BY <1>1 DEF WorkOK, Operation
<1>3. script \in Seq(StatementsFor(id, old.op))
  <2>1. old.op # "delete" => BodyOf(id) \in ValidBodies(id.type)
      BY <1>1, ConfigFacts DEF WorkOK, BodyOf, RunsInv
  <2>2. id \in ResourceID /\ server \in Server
      BY <1>1 DEF WorkOK, RunsInv
  <2> HIDE DEF old
  <2> QED  BY <1>2, <2>1, <2>2, ScriptIsLocal
<1>4. script \in Seq(Statement)
    BY <1>3 DEF StatementsFor
<1> HIDE DEF old, script
<1>5. WorkOK(id, w)
    BY <1>1, <1>2, <1>3, <1>4 DEF WorkOK
<1>6. work' = [work EXCEPT ![id] = w]
    BY DEF Start, old, script
<1> HIDE DEF w
<1>7. Working'
    BY <1>5, <1>6, WorkMoves DEF RunsInv, Start
<1>8. Bookkeeping'
  <2>1. ~Idle
      BY DEF RunsInv, Bookkeeping
  <2> QED  BY <2>1 DEF Start, RunsInv, Bookkeeping, Idle, Planned, declared
<1> QED  BY <1>7, <1>8 DEF RunsInv, Start

\* The next statement of a goroutine, and what is left of its script.
LEMMA NextIsLocal ==
    ASSUME RunsInv, NEW id \in DOMAIN work, work[id].script # <<>>
    PROVE  /\ NextStatement(id) \in StatementsFor(id, work[id].op)
           /\ NextStatement(id) \in Statement
           /\ WorkOK(id, [work[id] EXCEPT !.script = Tail(work[id].script)])
<1> DEFINE old == work[id]
<1>1. WorkOK(id, old)
    BY DEF RunsInv, Working
<1> HIDE DEF old
<1>2. /\ Head(old.script) \in StatementsFor(id, old.op)
      /\ Tail(old.script) \in Seq(StatementsFor(id, old.op))
    BY <1>1 DEF WorkOK, old
<1>3. Tail(old.script) \in Seq(Statement) /\ Head(old.script) \in Statement
    BY <1>2 DEF StatementsFor
<1>4. WorkOK(id, [old EXCEPT !.script = Tail(old.script)])
    BY <1>1, <1>2, <1>3 DEF WorkOK
<1> QED  BY <1>2, <1>3, <1>4 DEF NextStatement, old

\* A goroutine ends, with or without an error.
LEMMA Ending ==
    ASSUME RunsInv, NEW id \in DOMAIN work
    PROVE  /\ WorkOK(id, [work[id] EXCEPT !.pc = "done"])
           /\ WorkOK(id, [work[id] EXCEPT !.pc = "done", !.script = <<>>])
           /\ id \in ResourceID
<1> DEFINE old == work[id]
<1>1. WorkOK(id, old)
    BY DEF RunsInv, Working
<1> HIDE DEF old
<1>2. \A X : <<>> \in Seq(X)
    OBVIOUS
<1>3. /\ WorkOK(id, [old EXCEPT !.pc = "done"])
      /\ WorkOK(id, [old EXCEPT !.pc = "done", !.script = <<>>])
    BY <1>1, <1>2 DEF WorkOK
<1> QED  BY <1>1, <1>3 DEF WorkOK, old

\* There are goroutines only during a run.
LEMMA NotIdle ==
    ASSUME RunsInv, NEW id \in DOMAIN work
    PROVE  layers # <<>>
BY DEF RunsInv, Bookkeeping, Idle

\* A statement that the server executes keeps it.
LEMMA RunsExecute ==
    ASSUME RunsInv, NEW id \in DOMAIN work, Execute(id)
    PROVE  RunsInv'
<1>1. /\ NextStatement(id) \in Statement
      /\ WorkOK(id, [work[id] EXCEPT !.script = Tail(work[id].script)])
    BY NextIsLocal DEF Execute
<1>2. server' \in Server
    BY <1>1, EffectTyped DEF Execute, RunsInv
<1>3. Working'
  <2> DEFINE w == [work[id] EXCEPT !.script = Tail(work[id].script)]
  <2>1. work' = [work EXCEPT ![id] = w] /\ UNCHANGED config
      BY DEF Execute
  <2>2. WorkOK(id, w) /\ Working
      BY <1>1 DEF RunsInv
  <2> HIDE DEF w
  <2> QED  BY <2>1, <2>2, WorkMoves
<1>4. Bookkeeping'
    BY NotIdle DEF Execute, RunsInv, Bookkeeping, Idle, Planned, declared
<1> QED  BY <1>2, <1>3, <1>4 DEF RunsInv, Execute

\* What a goroutine's failure changes, whatever became of its statement.
LEMMA RunsFail ==
    ASSUME RunsInv, NEW id \in DOMAIN work, Fail(id), server' \in Server,
           UNCHANGED <<config, layers, dep, armed>>, faults' \in 0 .. MaxFaults
    PROVE  RunsInv'
<1>1. Working'
  <2> DEFINE w == [work[id] EXCEPT !.pc = "done", !.script = <<>>]
  <2>1. work' = [work EXCEPT ![id] = w]
      BY DEF Fail
  <2>2. WorkOK(id, w) /\ Working
      BY Ending DEF RunsInv
  <2> HIDE DEF w
  <2> QED  BY <2>1, <2>2, WorkMoves
<1>2. Bookkeeping'
    BY NotIdle, Ending DEF Fail, RunsInv, Bookkeeping, Idle, Planned, declared
<1> QED  BY <1>1, <1>2 DEF RunsInv

\* A statement that the server rejects keeps it.
LEMMA RunsRejected ==
    ASSUME RunsInv, NEW id \in DOMAIN work, Rejected(id)
    PROVE  RunsInv'
BY RunsFail DEF Rejected, RunsInv, Bookkeeping

\* Faults stay within their bound.
LEMMA FaultCounts ==
    ASSUME Fault, faults \in 0 .. MaxFaults
    PROVE  faults' \in 0 .. MaxFaults
BY ConfigsAssumption DEF Fault

\* A lost statement keeps it, executed or not.
LEMMA RunsLost ==
    ASSUME RunsInv, NEW id \in DOMAIN work, Lost(id)
    PROVE  RunsInv'
<1>1. faults' \in 0 .. MaxFaults
    BY FaultCounts DEF Lost, RunsInv, Bookkeeping
<1>2. server' \in Server
    BY NextIsLocal, EffectTyped DEF Lost, RunsInv
<1> QED  BY <1>1, <1>2, RunsFail DEF Lost

\* A goroutine that succeeds keeps it.
LEMMA RunsSucceed ==
    ASSUME RunsInv, NEW id \in DOMAIN work, Succeed(id)
    PROVE  RunsInv'
<1>1. Working'
  <2> DEFINE w == [work[id] EXCEPT !.pc = "done"]
  <2>1. work' = [work EXCEPT ![id] = w] /\ UNCHANGED config
      BY DEF Succeed
  <2>2. WorkOK(id, w) /\ Working
      BY Ending DEF RunsInv
  <2> HIDE DEF w
  <2> QED  BY <2>1, <2>2, WorkMoves
<1>2. Bookkeeping'
    BY NotIdle DEF Succeed, RunsInv, Bookkeeping, Idle, Planned, declared
<1> QED  BY <1>1, <1>2 DEF RunsInv, Succeed

\* The tail of a sequence of two elements or more.
LEMMA TailOfMany ==
    ASSUME NEW X, NEW s \in Seq(X), Len(s) > 1
    PROVE  Tail(s) \in Seq(X) /\ Tail(s) # <<>> /\ Tail(s)[1] \in X
<1>1. Tail(s) \in Seq(X) /\ Len(Tail(s)) = Len(s) - 1 /\ s # <<>>
    OBVIOUS
<1>2. Tail(s)[1] = s[2] /\ s[2] \in X
    OBVIOUS
<1>3. Tail(s) # <<>>
  <2>1. Len(<<>>) = 0
      OBVIOUS
  <2>2. Len(Tail(s)) # 0
      BY <1>1
  <2> QED  BY <2>1, <2>2, Zenon
<1> QED  BY <1>1, <1>2, <1>3

\* Passing to the next layer keeps it.
LEMMA RunsNextLayer == RunsInv /\ NextLayer => RunsInv'
<1> SUFFICES ASSUME RunsInv, NextLayer PROVE RunsInv'
    OBVIOUS
<1>1. layers \in Seq(SUBSET Planned) /\ Len(layers) > 1
    BY DEF RunsInv, Bookkeeping, NextLayer
<1>2. layers' \in Seq(SUBSET Planned) /\ layers' # <<>> /\ layers'[1] \in SUBSET Planned
  <2>1. layers' = Tail(layers)
      BY DEF NextLayer
  <2> QED  BY <1>1, <2>1, TailOfMany
<1>3. UNCHANGED config
    BY DEF NextLayer
<1>4. Working'
  <2> DEFINE layer == layers'[1]
  <2>1. \A id \in DOMAIN Spawn(layer) : WorkOK(id, Spawn(layer)[id])
    <3> HIDE DEF layer
    <3>1. layer \in SUBSET Planned
        BY <1>2 DEF layer
    <3> QED  BY <3>1, SpawnOK
  <2>2. work' = Spawn(layer)
      BY DEF NextLayer
  <2> HIDE DEF layer
  <2> QED  BY <1>3, <2>1, <2>2 DEF Working, WorkOK, declared
<1>5. Bookkeeping'
    BY <1>2, <1>3 DEF NextLayer, RunsInv, Bookkeeping, Idle, Planned, declared
<1> QED  BY <1>4, <1>5 DEF RunsInv, NextLayer

\* The end of a run, finished or killed, keeps it.
LEMMA RunsEnd ==
    ASSUME RunsInv, layers' = <<>>, work' = <<>>, failed' = {},
           UNCHANGED <<server, config, armed>>, clean' \in BOOLEAN, faults' \in 0 .. MaxFaults
    PROVE  RunsInv'
<1>1. Working'
    BY NothingWorks
<1>2. Bookkeeping'
  <2>1. \A X : <<>> \in Seq(X)
      OBVIOUS
  <2> QED  BY <2>1 DEF RunsInv, Bookkeeping
<1> QED  BY <1>1, <1>2 DEF RunsInv

\* A statement of an administrator keeps it.
LEMMA RunsMeddle == RunsInv /\ Meddle => RunsInv'
<1> SUFFICES ASSUME RunsInv, Meddle PROVE RunsInv'
    OBVIOUS
<1>1. faults' \in 0 .. MaxFaults
    BY FaultCounts DEF Meddle, RunsInv, Bookkeeping
<1>2. server' \in Server
    BY EffectTyped, ConfigsAssumption DEF Meddle, CallerChanged, RunsInv
<1>3. Working'
    BY DEF Meddle, RunsInv, Working, WorkOK, declared
<1>4. Bookkeeping'
    BY <1>1 DEF Meddle, RunsInv, Bookkeeping, Idle, Planned, declared
<1> QED  BY <1>2, <1>3, <1>4 DEF RunsInv, Meddle

\* A stuttering step keeps it.
LEMMA RunsStutter == RunsInv /\ UNCHANGED vars => RunsInv'
<1> SUFFICES ASSUME RunsInv, UNCHANGED vars PROVE RunsInv'
    OBVIOUS
<1>1. Working'
    BY DEF vars, RunsInv, Working, WorkOK, declared
<1>2. Bookkeeping'
    BY DEF vars, RunsInv, Bookkeeping, Idle, Planned, declared
<1> QED  BY <1>1, <1>2 DEF RunsInv, vars

\* RunsInv is inductive.
LEMMA RunsNext == RunsInv /\ [Next]_vars => RunsInv'
<1> SUFFICES ASSUME RunsInv, [Next]_vars PROVE RunsInv'
    OBVIOUS
<1>1. CASE Plan
    BY <1>1, RunsPlan
<1>2. ASSUME NEW id \in DOMAIN work, Apply(id) PROVE RunsInv'
    BY <1>2, RunsStart, RunsExecute, RunsRejected, RunsSucceed DEF Apply
<1>3. CASE NextLayer
    BY <1>3, RunsNextLayer
<1>4. CASE Finish
    BY <1>4, RunsEnd DEF Finish, RunsInv, Bookkeeping
<1>5. ASSUME NEW id \in DOMAIN work, Lost(id) PROVE RunsInv'
    BY <1>5, RunsLost
<1>6. CASE Kill
  <2>1. faults' \in 0 .. MaxFaults
      BY <1>6, FaultCounts DEF Kill, RunsInv, Bookkeeping
  <2> QED  BY <1>6, <2>1, RunsEnd DEF Kill
<1>7. CASE Meddle
    BY <1>7, RunsMeddle
<1>8. CASE UNCHANGED vars
    BY <1>8, RunsStutter
<1> QED  BY <1>1, <1>2, <1>3, <1>4, <1>5, <1>6, <1>7, <1>8 DEF Next, Run, Environment

\* TypeOK of MySQLRuns: whatever is killed, lost or changed behind its back,
\* the runs leave the server in a state that a server can be in, the
\* goroutines work on resources, and nothing of a run outlives it.
THEOREM RunsTypeOK == Spec => []TypeOK
<1>1. RunsInv => TypeOK
    BY DEF RunsInv, Bookkeeping, Working, WorkOK, Operation, TypeOK
<1> QED  BY RunsInit, RunsNext, <1>1, PTL DEF Spec

\* One statement of a run without --prune: the goroutine that sends it is no
\* delete, hence declared, and EffectLocal says what else it touches: nothing.
LEMMA RunTouchesOnlyDeclared ==
    ASSUME RunsInv, [Next]_vars, RunStatement, ~config.prune
    PROVE  /\ \A a \in Account : {UserId(a), RoleId(a)} \cap declared = {} =>
                 server'.row[a] = server.row[a]
           /\ \A e \in Account \X Account : RoleId(e[2]) \notin declared =>
                 (e \in server'.edges <=> e \in server.edges)
           /\ \A p \in Account \X Scope : GrantId(p[1], p[2]) \notin declared =>
                 /\ server'.held[p] = server.held[p]
                 /\ p \in server'.opt <=> p \in server.opt
           /\ \A s \in Schema : DatabaseId(s) \notin declared =>
                 server'.schema[s] = server.schema[s]
<1>1. PICK id \in DOMAIN work :
          work[id].script # <<>> /\ server' = Effect(server, NextStatement(id))
  <2>1. ASSUME NEW id \in DOMAIN work, Apply(id)
        PROVE  work[id].script # <<>> /\ server' = Effect(server, NextStatement(id))
      BY <2>1 DEF RunStatement, Apply, Start, Execute, Rejected, Succeed
  <2>2. ASSUME NEW id \in DOMAIN work, Lost(id)
        PROVE  work[id].script # <<>> /\ server' = Effect(server, NextStatement(id))
      BY <2>2 DEF RunStatement, Lost
  <2>3. ~Plan /\ ~NextLayer /\ ~Finish /\ ~Kill /\ ~Meddle /\ ~UNCHANGED vars
      BY DEF RunStatement, Plan, NextLayer, Finish, Kill, Meddle, vars
  <2> QED  BY <2>1, <2>2, <2>3 DEF Next, Run, Environment
<1>2. WorkOK(id, work[id])
    BY DEF RunsInv, Working
<1>3. work[id].op # "delete" /\ id \in declared /\ id \in ResourceID
    BY <1>2 DEF WorkOK
<1>4. NextStatement(id) \in StatementsFor(id, work[id].op) /\ server \in Server
    BY <1>1, NextIsLocal DEF RunsInv
<1> QED  BY <1>1, <1>3, <1>4, EffectLocal

\* Without --prune no statement of a run touches an account, role edge,
\* privilege, grant option or schema that no resource declares: the promise
\* of README.md (line 112), for every server, configuration, interleaving and
\* fault.
THEOREM AdditiveRunsLeaveRest == Spec => AdditiveLeavesRest
<1> QED  BY RunsInit, RunsNext, RunTouchesOnlyDeclared, PTL DEF Spec, AdditiveLeavesRest

-----------------------------------------------------------------------------
(* What a step of a run is, as far as the two promises below see it. *)

\* A goroutine goes on from old to w: it takes up the script of its handler,
\* has a statement executed, or ends.
Advances(id, old, w) ==
    /\ w.op = old.op
    /\ \/ server' = server /\ w.script \in {<<>>, old.script}
       \/ /\ server' = server
          /\ old.op \in {"create", "update", "delete"}
          /\ w.script = Script(old.op, id, BodyOf(id), server)
       \/ /\ old.script # <<>> /\ Accepted(server, Head(old.script))
          /\ server' = Effect(server, Head(old.script))
          /\ w.script \in {<<>>, Tail(old.script)}

Moved(id) ==
    /\ UNCHANGED <<layers, config, armed>>
    /\ \E w : work' = [work EXCEPT ![id] = w] /\ Advances(id, work[id], w)

Ended ==
    /\ layers' = <<>> /\ work' = <<>>
    /\ UNCHANGED <<server, config>>

\* Every step of a goroutine is one of these.
LEMMA GoroutineMoves ==
    ASSUME RunsInv, NEW id \in DOMAIN work, Apply(id) \/ Lost(id)
    PROVE  Moved(id)
<1> DEFINE old == work[id]
           done == [old EXCEPT !.pc = "done"]
           over == [old EXCEPT !.pc = "done", !.script = <<>>]
           sent == [old EXCEPT !.script = Tail(old.script)]
           begun == [old EXCEPT !.pc = "running",
                                !.script = Script(old.op, id, BodyOf(id), server)]
<1>1. WorkOK(id, old)
    BY DEF RunsInv, Working
<1>2. old = [op |-> old.op, pc |-> old.pc, script |-> old.script]
    BY <1>1 DEF WorkOK
<1> HIDE DEF old
<1>3. /\ done.op = old.op /\ done.script = old.script
      /\ over.op = old.op /\ over.script = <<>>
      /\ sent.op = old.op /\ sent.script = Tail(old.script)
      /\ begun.op = old.op /\ begun.script = Script(old.op, id, BodyOf(id), server)
    BY <1>2
<1> HIDE DEF done, over, sent, begun
<1>4. CASE Start(id)
  <2>1. work' = [work EXCEPT ![id] = IF ShouldSkip(id) THEN done ELSE begun]
      BY <1>4 DEF Start, done, begun, old
  <2>2. old.op \in {"create", "update", "delete"}
      BY <1>1, <1>4 DEF Start, WorkOK, Operation, old
  <2>3. Advances(id, old, IF ShouldSkip(id) THEN done ELSE begun)
      BY <1>3, <1>4, <2>2 DEF Start, Advances
  <2> QED  BY <1>4, <2>1, <2>3 DEF Start, Moved, old
<1>5. CASE Execute(id)
  <2>1. work' = [work EXCEPT ![id] = sent]
      BY <1>5 DEF Execute, sent, old
  <2>2. Advances(id, old, sent)
      BY <1>3, <1>5 DEF Execute, NextStatement, Advances, old
  <2> QED  BY <1>5, <2>1, <2>2 DEF Execute, Moved, old
<1>6. CASE Rejected(id) \/ Lost(id)
  <2>1. work' = [work EXCEPT ![id] = over]
      BY <1>6 DEF Rejected, Lost, Fail, over, old
  <2>2. Advances(id, old, over)
      BY <1>3, <1>6 DEF Rejected, Lost, NextStatement, Advances, old
  <2> QED  BY <1>6, <2>1, <2>2 DEF Rejected, Lost, Moved, old
<1>7. CASE Succeed(id)
  <2>1. work' = [work EXCEPT ![id] = done]
      BY <1>7 DEF Succeed, done, old
  <2>2. Advances(id, old, done)
      BY <1>3, <1>7 DEF Succeed, Advances
  <2> QED  BY <1>7, <2>1, <2>2 DEF Succeed, Moved, old
<1> QED  BY <1>4, <1>5, <1>6, <1>7 DEF Apply

\* Every step is one of these.
LEMMA RunSteps ==
    ASSUME RunsInv, [Next]_vars
    PROVE  \/ Plan \/ NextLayer \/ Ended \/ Meddle \/ UNCHANGED vars
           \/ \E id \in DOMAIN work : Moved(id)
<1>1. CASE \E id \in DOMAIN work : Apply(id) \/ Lost(id)
    BY <1>1, GoroutineMoves
<1>2. CASE Finish \/ Kill
    BY <1>2 DEF Finish, Kill, Ended
<1> QED  BY <1>1, <1>2 DEF Next, Run, Environment

\* The goroutines of a layer are at its changes, with empty scripts.
LEMMA SpawnFacts ==
    ASSUME NEW layer, NEW id \in DOMAIN Spawn(layer)
    PROVE  /\ \E c \in layer : c.id = id /\ Spawn(layer)[id].op = c.type
           /\ Spawn(layer)[id].script = <<>>
<1>1. id \in {c.id : c \in layer}
    BY DEF Spawn
<1>2. PICK c \in layer : c.id = id /\ Spawn(layer)[id] = Goroutine(c)
    BY <1>1 DEF Spawn
<1> QED  BY <1>2 DEF Goroutine

\* The statement that a goroutine has had executed is of its script.
LEMMA HeadIsLocal ==
    ASSUME RunsInv, NEW id \in DOMAIN work, work[id].script # <<>>
    PROVE  /\ Head(work[id].script) \in StatementsFor(id, work[id].op)
           /\ Head(work[id].script) \in Statement
BY NextIsLocal DEF NextStatement

-----------------------------------------------------------------------------
(* What is held and declared stays held. *)

\* No account is declared as a user where there is a role, or the other way
\* round: with --prune a run would drop it under the name of the other.
KindsAgree ==
    Idle => \A a \in Account :
        /\ UserId(a) \in declared => ~IsRole(server.row[a])
        /\ RoleId(a) \in declared => ~IsUser(server.row[a])

\* Privileges are declared by their names, and no account holds all there are
\* where it declares some: SHOW GRANTS would call them ALL PRIVILEGES, and the
\* handler revokes a name that is not declared before it grants the others.
NamedOneByOne ==
    \A id \in declared : id.type = "grant" =>
        /\ "ALL" \notin config.body[id].privs
        /\ server.held[<<id.acct, id.scope>>] # Priv

\* Deleting the resource drops no account that is declared.
Retains(cfg, id) ==
    \A a \in Account :
        id \in {UserId(a), RoleId(a)} => {UserId(a), RoleId(a)} \cap DOMAIN cfg.body = {}

Retaining(cfg) ==
    {c \in [id : ResourceID, type : Operation] : c.type = "delete" => Retains(cfg, c.id)}

\* Statements that revoke nothing that the resource declares.
Keeping(cfg, id) ==
    {st \in Statement : id \in DOMAIN cfg.body =>
        /\ id.type = "grant" /\ st.verb = "REVOKE" =>
              Meant(st.privs) \cap Meant(cfg.body[id].privs) = {}
        /\ id.type = "role" /\ st.verb = "REVOKE ROLE" =>
              st.role \notin cfg.body[id].granted}

KeepOK(cfg, id, w) ==
    /\ w.op = "delete" => Retains(cfg, id)
    /\ w.script \in Seq(Keeping(cfg, id))

KeepInv ==
    /\ layers \in Seq(SUBSET Retaining(config))
    /\ \A id \in DOMAIN work : KeepOK(config, id, work[id])

\* The scripts of the handlers revoke nothing that is declared.
LEMMA RoleScriptKeeps ==
    ASSUME config \in Configs, server \in Server, NEW id \in declared, id.type = "role",
           NEW op \in {"create", "update", "delete"}
    PROVE  RoleScript(op, id, config.body[id], server) \in Seq(Keeping(config, id))
<1> DEFINE body == config.body[id]
           current == RolesOf(server)[id.acct]
           Keeps == Keeping(config, id)
<1>0. id.acct \in Account /\ body.granted \in SUBSET Account /\ id \in ResourceID
    BY ConfigFacts, IdFacts DEF ValidBodies
<1>1. current \in SUBSET Account
    BY <1>0 DEF RolesOf
<1>2. \A v \in {"CREATE ROLE", "DROP ROLE"} : [verb |-> v, acct |-> id.acct] \in Keeps
    BY <1>0 DEF Keeping, Statement
<1>3. ASSUME NEW v \in {"GRANT ROLE", "REVOKE ROLE"}, NEW roles \in SUBSET Account,
             v = "REVOKE ROLE" => roles \cap body.granted = {}
      PROVE  EdgeStatements(v, roles, id.acct) \in Seq(Keeps)
  <2> DEFINE each == EdgesOf(v, roles, id.acct)
  <2>1. ASSUME NEW r \in roles PROVE [verb |-> v, role |-> r, acct |-> id.acct] \in Keeps
    <3> DEFINE st == [verb |-> v, role |-> r, acct |-> id.acct]
    <3>1. st \in Statement
        BY <1>0 DEF Statement
    <3>2. st.verb = v /\ st.role = r
        OBVIOUS
    <3> HIDE DEF st
    <3>3. st \in Keeps
        BY <1>3, <3>1, <3>2 DEF Keeping, declared
    <3> QED  BY <3>3 DEF st
  <2>2. each \subseteq Keeps
      BY <2>1 DEF EdgesOf
  <2>3. EdgeStatements(v, roles, id.acct) \in Seq(each)
      BY EdgeScript
  <2> HIDE DEF each, Keeps
  <2> QED  BY <2>2, <2>3, MoreToChoose
<1>4. CASE op = "create"
  <2>1. RoleScript(op, id, body, server)
          = <<[verb |-> "CREATE ROLE", acct |-> id.acct]>>
              \o EdgeStatements("GRANT ROLE", body.granted, id.acct)
      BY <1>4 DEF RoleScript
  <2>2. EdgeStatements("GRANT ROLE", body.granted, id.acct) \in Seq(Keeps)
      BY <1>0, <1>3
  <2>3. <<[verb |-> "CREATE ROLE", acct |-> id.acct]>> \in Seq(Keeps)
      BY <1>2, OneStatement
  <2> HIDE DEF Keeps
  <2> QED  BY <2>1, <2>2, <2>3, Sequencing DEF Keeps
<1>5. CASE op = "update"
  <2>1. RoleScript(op, id, body, server)
          = EdgeStatements("GRANT ROLE", body.granted \ current, id.acct)
              \o EdgeStatements("REVOKE ROLE", current \ body.granted, id.acct)
      BY <1>5 DEF RoleScript
  <2>2. EdgeStatements("GRANT ROLE", body.granted \ current, id.acct) \in Seq(Keeps)
    <3>1. body.granted \ current \in SUBSET Account
        BY <1>0
    <3> HIDE DEF Keeps, current
    <3> QED  BY <3>1, <1>3
  <2>3. EdgeStatements("REVOKE ROLE", current \ body.granted, id.acct) \in Seq(Keeps)
    <3>1. /\ current \ body.granted \in SUBSET Account
          /\ (current \ body.granted) \cap body.granted = {}
        BY <1>1
    <3> HIDE DEF Keeps, current
    <3> QED  BY <3>1, <1>3
  <2> HIDE DEF Keeps
  <2> QED  BY <2>1, <2>2, <2>3, Sequencing DEF Keeps
<1>6. CASE op = "delete"
  <2>1. RoleScript(op, id, body, server) = <<[verb |-> "DROP ROLE", acct |-> id.acct]>>
      BY <1>6 DEF RoleScript
  <2> QED  BY <1>2, <2>1, OneStatement
<1> QED  BY <1>4, <1>5, <1>6

\* The same of a grant's.
LEMMA GrantScriptKeeps ==
    ASSUME config \in Configs, server \in Server, NamedOneByOne,
           NEW id \in declared, id.type = "grant", NEW op \in {"create", "update"}
    PROVE  GrantScript(op, id, config.body[id], server) \in Seq(Keeping(config, id))
<1> DEFINE body == config.body[id]
           current == CurrentPrivileges(server, id)
           Keeps == Keeping(config, id)
           toGrant == body.privs \ current
           toRevoke == current \ body.privs
           listed == IF toGrant # {} THEN toGrant ELSE body.privs
           differs == (body.opt = "true") # (<<id.acct, id.scope>> \in server.opt)
           r == IF toRevoke # {} THEN <<RevokeStatement(id, toRevoke)>> ELSE <<>>
           g == IF toGrant # {} \/ differs THEN <<GrantStatement(id, listed, body)>> ELSE <<>>
<1>0. /\ id.acct \in Account /\ id.scope \in Scope /\ body.privs \in SUBSET PrivName
      /\ "ALL" \notin body.privs /\ server.held[<<id.acct, id.scope>>] # Priv
      /\ server.held[<<id.acct, id.scope>>] \in SUBSET Priv
    BY ConfigFacts, IdFacts DEF ValidBodies, NamedOneByOne, Server
<1>1. current \in SUBSET PrivName /\ "ALL" \notin current
    BY <1>0, ServerAssumption DEF CurrentPrivileges, Shown, PrivName
<1>2. ASSUME NEW privs \in SUBSET PrivName
      PROVE  GrantStatement(id, privs, body) \in Keeps
  <2> DEFINE st == GrantStatement(id, privs, body)
  <2>1. st \in Statement /\ st.verb = "GRANT"
      BY <1>0 DEF GrantStatement, Statement
  <2> HIDE DEF st
  <2>2. st \in Keeps
      BY <2>1 DEF Keeping, declared
  <2> QED  BY <2>2 DEF st
<1>3. RevokeStatement(id, toRevoke) \in Keeps
  <2> DEFINE st == RevokeStatement(id, toRevoke)
  <2>1. toRevoke \in SUBSET PrivName /\ Meant(toRevoke) \cap Meant(body.privs) = {}
      BY <1>0, <1>1 DEF Meant
  <2> HIDE DEF toRevoke
  <2>2. st \in Statement /\ st.verb = "REVOKE" /\ st.privs = toRevoke
      BY <1>0, <2>1 DEF RevokeStatement, Statement
  <2> HIDE DEF st
  <2>3. st \in Keeps
      BY <2>1, <2>2 DEF Keeping, declared
  <2> QED  BY <2>3 DEF st
<1>4. listed \in SUBSET PrivName
    BY <1>0
<1> HIDE DEF listed, toRevoke, toGrant, differs, current, Keeps
<1>5. r \in Seq(Keeps) /\ g \in Seq(Keeps)
    BY <1>2, <1>3, <1>4
<1>6. CASE op = "create"
  <2>1. GrantScript(op, id, body, server) = <<GrantStatement(id, body.privs, body)>>
      BY <1>6 DEF GrantScript
  <2> QED  BY <1>0, <1>2, <2>1 DEF Keeps
<1>7. CASE op = "update"
  <2>1. GrantScript(op, id, body, server) = r \o g
      BY <1>7 DEF GrantScript, GrantUpdate, toGrant, toRevoke, listed, differs, current
  <2> HIDE DEF r, g
  <2> QED  BY <1>5, <2>1 DEF Keeps
<1> QED  BY <1>6, <1>7

\* Whatever the resource of a goroutine is.
LEMMA ScriptKeeps ==
    ASSUME RunsInv, NamedOneByOne, NEW id \in DOMAIN work,
           work[id].op \in {"create", "update", "delete"}
    PROVE  Script(work[id].op, id, BodyOf(id), server) \in Seq(Keeping(config, id))
<1> DEFINE op == work[id].op
           Mine == StatementsFor(id, op)
           Keeps == Keeping(config, id)
<1>0. /\ id \in ResourceID /\ server \in Server /\ config \in Configs
      /\ IF op = "delete" THEN id \notin declared ELSE id \in declared
    BY DEF RunsInv, Working, WorkOK
<1>1. Script(op, id, BodyOf(id), server) \in Seq(Mine)
  <2>1. op # "delete" => BodyOf(id) \in ValidBodies(id.type)
      BY <1>0, ConfigFacts DEF BodyOf
  <2> HIDE DEF op
  <2> QED  BY <1>0, <2>1, ScriptIsLocal DEF op
<1>2. CASE Mine \subseteq Keeps
  <2>1. Seq(Mine) \subseteq Seq(Keeps)
    <3> HIDE DEF Mine, Keeps
    <3> QED  BY <1>2, MoreToChoose
  <2> QED  BY <1>1, <2>1
<1>3. id \notin declared \/ id.type \in {"user", "database"} => Mine \subseteq Keeps
    BY DEF StatementsFor, Keeping, declared
<1>4. CASE id \in declared /\ id.type = "role"
  <2>1. Script(op, id, BodyOf(id), server) = RoleScript(op, id, config.body[id], server)
      BY <1>4 DEF Script, BodyOf
  <2> QED  BY <1>0, <1>4, <2>1, RoleScriptKeeps
<1>5. CASE id \in declared /\ id.type = "grant"
  <2>1. Script(op, id, BodyOf(id), server) = GrantScript(op, id, config.body[id], server)
      BY <1>5 DEF Script, BodyOf
  <2>2. op \in {"create", "update"}
      BY <1>0, <1>5
  <2> QED  BY <1>0, <1>5, <2>1, <2>2, GrantScriptKeeps
<1> QED  BY <1>0, <1>2, <1>3, <1>4, <1>5, IdFacts

\* Whatever a plan deletes is no account that is declared.
LEMMA ChangesRetain ==
    ASSUME RunsInv, KindsAgree, Idle
    PROVE  Changes \subseteq Retaining(config)
<1> SUFFICES ASSUME NEW c \in Changes, c.type = "delete" PROVE Retains(config, c.id)
    BY ChangesArePlanned DEF RunsInv, Retaining, Planned
<1>1. c.id \in Discover(server)
    BY ChangesAreFound
<1>2. c.id \notin declared
    BY ChangesArePlanned DEF RunsInv, Planned
<1>3. ASSUME NEW a \in Account, c.id \in {UserId(a), RoleId(a)}
      PROVE  {UserId(a), RoleId(a)} \cap declared = {}
  <2>1. /\ UserId(a) \in declared => ~IsRole(server.row[a])
        /\ RoleId(a) \in declared => ~IsUser(server.row[a])
      BY DEF KindsAgree
  <2> QED  BY <1>1, <1>2, <1>3, <2>1, AccountsFound
<1> QED  BY <1>3 DEF Retains, declared

\* What a layer starts is as KeepInv says.
LEMMA SpawnKeeps ==
    ASSUME NEW cfg, NEW layer \in SUBSET Retaining(cfg), NEW id \in DOMAIN Spawn(layer)
    PROVE  KeepOK(cfg, id, Spawn(layer)[id])
<1>1. \A X : <<>> \in Seq(X)
    OBVIOUS
<1> DEFINE w == Spawn(layer)[id]
<1>2. /\ \E c \in layer : c.id = id /\ w.op = c.type
      /\ w.script = <<>>
    BY SpawnFacts
<1> HIDE DEF w
<1>3. w.op = "delete" => Retains(cfg, id)
    BY <1>2 DEF Retaining
<1>4. KeepOK(cfg, id, w)
    BY <1>1, <1>2, <1>3 DEF KeepOK
<1> QED  BY <1>4 DEF w

\* KeepInv holds before the first run.
LEMMA KeepInit == Init => KeepInv
<1>1. \A X : <<>> \in Seq(X)
    OBVIOUS
<1> QED  BY <1>1 DEF Init, KeepInv

\* A goroutine that moves keeps KeepInv.
LEMMA KeepMoves ==
    ASSUME RunsInv, KeepInv, NamedOneByOne, NEW id \in DOMAIN work, Moved(id)
    PROVE  KeepInv'
<1>1. PICK w : work' = [work EXCEPT ![id] = w] /\ Advances(id, work[id], w)
    BY DEF Moved
<1> DEFINE old == work[id]
<1>2. KeepOK(config, id, old)
    BY DEF KeepInv
<1>3. \A X : <<>> \in Seq(X)
    OBVIOUS
<1>4. w.script \in Seq(Keeping(config, id))
  <2>1. CASE w.script \in {<<>>, old.script}
      BY <1>2, <1>3, <2>1 DEF KeepOK
  <2>2. CASE /\ old.op \in {"create", "update", "delete"}
             /\ w.script = Script(old.op, id, BodyOf(id), server)
      BY <2>2, ScriptKeeps
  <2>3. CASE old.script # <<>> /\ w.script = Tail(old.script)
    <3>1. \A X : \A s \in Seq(X) : s # <<>> => Tail(s) \in Seq(X)
        OBVIOUS
    <3> QED  BY <1>2, <2>3, <3>1 DEF KeepOK
  <2> QED  BY <1>1, <1>3, <2>1, <2>2, <2>3 DEF Advances
<1>5. KeepOK(config, id, w)
    BY <1>1, <1>2, <1>4 DEF Advances, KeepOK
<1> QED  BY <1>1, <1>5 DEF Moved, KeepInv, KeepOK

\* Every step that meets the two conditions keeps it.
LEMMA KeepNext ==
    ASSUME RunsInv, KeepInv, KindsAgree, NamedOneByOne, [Next]_vars
    PROVE  KeepInv'
<1>1. CASE Plan
  <2>1. layers' \in Seq(SUBSET Changes) /\ layers' # <<>>
    <3>1. Changes # {}
        BY <1>1 DEF Plan, NothingToDo
    <3> QED  BY <1>1, <3>1, LayersOfPlan DEF Plan, RunsInv
  <2>2. SUBSET Changes \subseteq SUBSET Retaining(config)
      BY <1>1, ChangesRetain DEF Plan
  <2>3. layers' \in Seq(SUBSET Retaining(config))
    <3>1. Seq(SUBSET Changes) \subseteq Seq(SUBSET Retaining(config))
        BY <2>2, MoreToChoose
    <3> QED  BY <2>1, <3>1
  <2>4. layers'[1] \in SUBSET Retaining(config)
      BY <2>1, <2>3
  <2>5. \A id \in DOMAIN Spawn(layers'[1]) : KeepOK(config, id, Spawn(layers'[1])[id])
      BY <2>4, SpawnKeeps
  <2> QED  BY <1>1, <2>3, <2>5 DEF Plan, KeepInv, KeepOK
<1>2. CASE NextLayer
  <2>1. layers \in Seq(SUBSET Retaining(config)) /\ Len(layers) > 1 /\ layers' = Tail(layers)
      BY <1>2 DEF NextLayer, KeepInv
  <2>2. layers' \in Seq(SUBSET Retaining(config)) /\ layers'[1] \in SUBSET Retaining(config)
      BY <2>1, TailOfMany
  <2>3. \A id \in DOMAIN Spawn(layers'[1]) : KeepOK(config, id, Spawn(layers'[1])[id])
      BY <2>2, SpawnKeeps
  <2> QED  BY <1>2, <2>2, <2>3 DEF NextLayer, KeepInv, KeepOK
<1>3. CASE Ended
  <2>1. \A X : <<>> \in Seq(X)
      OBVIOUS
  <2> QED  BY <1>3, <2>1 DEF Ended, KeepInv
<1>4. CASE Meddle \/ UNCHANGED vars
    BY <1>4 DEF Meddle, vars, KeepInv, KeepOK
<1>5. ASSUME NEW id \in DOMAIN work, Moved(id) PROVE KeepInv'
    BY <1>5, KeepMoves
<1> QED  BY <1>1, <1>2, <1>3, <1>4, <1>5, RunSteps

\* What is declared of an account means that the account is.
LEMMA DeclaredAccounts ==
    ASSUME config \in Configs, SelfContained, NEW id \in declared, NEW a \in Account
    PROVE  /\ id.type = "grant" /\ id.acct = a => {UserId(a), RoleId(a)} \cap declared # {}
           /\ id.type = "role" /\ id.acct = a => RoleId(a) \in declared
           /\ id.type = "role" /\ a \in config.body[id].granted => RoleId(a) \in declared
<1>1. id \in ResourceID
    BY ConfigFacts
<1>2. id.type = "grant" => {UserId(id.acct), RoleId(id.acct)} \cap declared # {}
    BY DEF SelfContained
<1>3. id.type = "role" => id = RoleId(id.acct) /\ \A g \in config.body[id].granted : RoleId(g) \in declared
    BY <1>1, IdFacts DEF SelfContained
<1> QED  BY <1>2, <1>3

\* The statement that moved a goroutine.
LEMMA StatementSent ==
    ASSUME RunsInv, [Next]_vars, RunStatement
    PROVE  \E id \in DOMAIN work :
              /\ UNCHANGED <<layers, config, armed>>
              /\ \E w : work' = [work EXCEPT ![id] = w]
              /\ work[id].script # <<>> /\ Accepted(server, Head(work[id].script))
              /\ server' = Effect(server, Head(work[id].script))
<1>1. PICK id \in DOMAIN work : Moved(id)
    BY RunSteps DEF RunStatement, Plan, NextLayer, Ended, Meddle, vars
<1> QED  BY <1>1 DEF Moved, Advances, RunStatement

\* Nothing that is declared goes by a statement of a run.
LEMMA StatementKeeps ==
    ASSUME RunsInv, KeepInv, [Next]_vars, RunStatement, PrunesApart, NEW d \in declared
    PROVE  /\ d.type = "grant" =>
                  Meant(config.body[d].privs) \cap server.held[<<d.acct, d.scope>>]
                      \subseteq server'.held[<<d.acct, d.scope>>]
           /\ d.type = "role" =>
                  \A g \in config.body[d].granted :
                      <<g, d.acct>> \in server.edges => <<g, d.acct>> \in server'.edges
<1>1. PICK id \in DOMAIN work :
          /\ work[id].script # <<>>
          /\ server' = Effect(server, Head(work[id].script))
    BY StatementSent
<1> DEFINE op == work[id].op
           st == Head(work[id].script)
<1>2. st \in StatementsFor(id, op) /\ st \in Statement
    BY <1>1, HeadIsLocal
<1>3. /\ st \in Keeping(config, id)
      /\ op = "delete" => Retains(config, id) /\ id \notin declared /\ SelfContained
      /\ op # "delete" => id \in declared
      /\ id \in ResourceID
  <2>1. KeepOK(config, id, work[id]) /\ WorkOK(id, work[id])
      BY DEF KeepInv, RunsInv, Working
  <2>2. \A X : \A s \in Seq(X) : s # <<>> => Head(s) \in X
      OBVIOUS
  <2> QED  BY <1>1, <2>1, <2>2 DEF KeepOK, WorkOK, PrunesApart
<1>4. /\ d \in ResourceID /\ config \in Configs /\ server \in Server
      /\ config.body[d] \in ValidBodies(d.type)
    BY ConfigFacts DEF RunsInv
<1> HIDE DEF op, st
<1>5. ASSUME st.verb \in {"DROP USER", "DROP ROLE"}
      PROVE  op = "delete" /\ id \in {UserId(st.acct), RoleId(st.acct)} /\ st.acct \in Account
    BY <1>2, <1>3, <1>5, IdFacts, StatementFacts DEF StatementsFor, About, Dropping
<1>6. ASSUME d.type = "grant", NEW x \in Meant(config.body[d].privs), x \in server.held[<<d.acct, d.scope>>]
      PROVE  x \in server'.held[<<d.acct, d.scope>>]
  <2>1. d.acct \in Account /\ d.scope \in Scope /\ d = GrantId(d.acct, d.scope)
      BY <1>4, <1>6, IdFacts
  <2>2. SUFFICES ASSUME x \notin server'.held[<<d.acct, d.scope>>] PROVE FALSE
      OBVIOUS
  <2>3. <<d.acct, d.scope>> \in Account \X Scope
      BY <2>1
  <2>4. \/ st.verb = "REVOKE" /\ d.acct = st.acct /\ d.scope = st.scope /\ x \in Meant(st.privs)
        \/ st.verb \in {"DROP USER", "DROP ROLE"} /\ st.acct = d.acct
    <3> DEFINE q == <<d.acct, d.scope>>
    <3>1. q \in Account \X Scope /\ x \in server.held[q] \ Effect(server, st).held[q]
        BY <1>1, <1>6, <2>2, <2>3 DEF st
    <3>2. \/ st.verb = "REVOKE" /\ q = <<st.acct, st.scope>> /\ x \in Meant(st.privs)
          \/ st.verb \in {"DROP USER", "DROP ROLE"} /\ st.acct = q[1]
      <4> HIDE DEF q
      <4> QED  BY <1>2, <1>4, <3>1, HeldTaken
    <3> QED  BY <3>2
  <2>5. CASE st.verb = "REVOKE" /\ d.acct = st.acct /\ d.scope = st.scope /\ x \in Meant(st.privs)
    <3>1. id = d
        BY <1>2, <1>3, <2>1, <2>5, IdFacts DEF StatementsFor, About, Dropping
    <3>2. id \in DOMAIN config.body
        BY <3>1 DEF declared
    <3>3. Meant(st.privs) \cap Meant(config.body[d].privs) = {}
        BY <1>3, <1>6, <2>5, <3>1, <3>2 DEF Keeping
    <3> QED  BY <1>6, <2>5, <3>3
  <2>6. CASE st.verb \in {"DROP USER", "DROP ROLE"} /\ st.acct = d.acct
    <3>1. {UserId(d.acct), RoleId(d.acct)} \cap declared = {}
        BY <1>3, <1>5, <2>6 DEF Retains, declared
    <3>2. {UserId(d.acct), RoleId(d.acct)} \cap declared # {}
        BY <1>3, <1>4, <1>5, <1>6, <2>1, <2>6, DeclaredAccounts
    <3> QED  BY <3>1, <3>2
  <2> QED  BY <2>4, <2>5, <2>6
<1>7. ASSUME d.type = "role", NEW g \in config.body[d].granted, <<g, d.acct>> \in server.edges
      PROVE  <<g, d.acct>> \in server'.edges
  <2>1. d.acct \in Account /\ d = RoleId(d.acct) /\ g \in Account
      BY <1>4, <1>7, IdFacts DEF ValidBodies
  <2>2. SUFFICES ASSUME <<g, d.acct>> \notin server'.edges PROVE FALSE
      OBVIOUS
  <2> DEFINE e == <<g, d.acct>>
  <2>3. e \in server.edges \ Effect(server, st).edges
      BY <1>1, <1>7, <2>2 DEF st
  <2>4. \/ st.verb = "REVOKE ROLE" /\ e = <<st.role, st.acct>>
        \/ st.verb \in {"DROP USER", "DROP ROLE"} /\ st.acct \in {e[1], e[2]}
    <3> HIDE DEF e
    <3> QED  BY <1>2, <1>4, <2>3, EffectFacts
  <2>5. CASE st.verb = "REVOKE ROLE" /\ e = <<st.role, st.acct>>
    <3>1. g = st.role /\ d.acct = st.acct
        BY <2>5
    <3>2. id = d
        BY <1>2, <1>3, <2>1, <2>5, <3>1, IdFacts DEF StatementsFor, About, Dropping
    <3>3. id \in DOMAIN config.body
        BY <3>2 DEF declared
    <3> QED  BY <1>3, <1>7, <2>5, <3>1, <3>2, <3>3 DEF Keeping
  <2>6. CASE st.verb \in {"DROP USER", "DROP ROLE"} /\ st.acct \in {e[1], e[2]}
    <3>1. st.acct \in {g, d.acct}
        BY <2>6
    <3>2. {UserId(st.acct), RoleId(st.acct)} \cap declared = {}
        BY <1>3, <1>5, <2>6 DEF Retains, declared
    <3>3. RoleId(g) \in declared /\ RoleId(d.acct) \in declared
        BY <1>3, <1>4, <1>5, <1>7, <2>1, <2>6, DeclaredAccounts
    <3> QED  BY <3>1, <3>2, <3>3
  <2> QED  BY <2>4, <2>5, <2>6
<1> QED  BY <1>6, <1>7

\* KeepsWhatIsDeclared of MySQLRuns: whatever the interleaving and the faults,
\* a statement of a run takes away no privilege and no role that is held and
\* declared, as long as privileges are declared one by one, none is declared
\* where all are held, and no account is declared as what it is not. The
\* property itself asks of a run with --prune that the accounts of which
\* something is declared are declared (PrunesApart).
THEOREM DeclaredIsKept ==
    Spec /\ [](KindsAgree /\ NamedOneByOne) => KeepsWhatIsDeclared
<1>1. RunsInv /\ KeepInv /\ (KindsAgree /\ NamedOneByOne) /\ [Next]_vars => KeepInv'
    BY KeepNext
<1>2. RunsInv /\ KeepInv /\ [Next]_vars =>
        [RunStatement /\ PrunesApart =>
            \A id \in declared :
                /\ id.type = "grant" =>
                      Meant(config.body[id].privs) \cap server.held[id.acct, id.scope]
                          \subseteq server'.held[id.acct, id.scope]
                /\ id.type = "role" =>
                      \A g \in config.body[id].granted :
                          <<g, id.acct>> \in server.edges => <<g, id.acct>> \in server'.edges]_vars
    BY StatementKeeps
<1> QED  BY RunsInit, RunsNext, KeepInit, <1>1, <1>2, PTL DEF Spec, KeepsWhatIsDeclared

-----------------------------------------------------------------------------
(* The deletes of a plan that the guard let pass spare the caller. *)

\* When a run plans, the caller is a user, and what is granted to it are roles:
\* the guard asks only for the roles granted to it, the server would let a
\* user be granted too.
CallerIsUser ==
    Idle =>
        /\ IsUser(server.row[Caller])
        /\ \A g \in Account : <<g, Caller>> \in server.edges => ~IsUser(server.row[g])

\* The change of the resource takes nothing from the caller, and does not make
\* a role of it.
Spares(cfg, sv, id, op) ==
    /\ op = "delete" =>
          /\ id \notin {UserId(Caller), RoleId(Caller)}
          /\ \A s \in Risky : id = GrantId(Caller, s) =>
                id \notin DOMAIN cfg.body /\ sv.held[<<Caller, s>>] \cap Required = {}
          /\ \A g \in Account : <<g, Caller>> \in sv.edges => id \notin {UserId(g), RoleId(g)}
    /\ id = RoleId(Caller) => op = "create"

Sparing(cfg, sv) ==
    {c \in [id : ResourceID, type : Operation] : Spares(cfg, sv, c.id, c.type)}

SpareOK(cfg, sv, id, w) ==
    /\ Spares(cfg, sv, id, w.op)
    /\ id = RoleId(Caller) /\ w.script # <<>> => Head(w.script).verb = "CREATE ROLE"

SpareInv ==
    ~Idle /\ ~config.allow /\ ~armed =>
        /\ IsUser(server.row[Caller])
        /\ layers \in Seq(SUBSET Sparing(config, server))
        /\ \A id \in DOMAIN work : SpareOK(config, server, id, work[id])

\* What is granted to the caller only shrinks, as far as it matters: sv comes
\* before later.
NoMoreGranted(cfg, sv, later) ==
    /\ \A g \in Account : <<g, Caller>> \in later.edges => <<g, Caller>> \in sv.edges
    /\ \A s \in Risky : GrantId(Caller, s) \notin DOMAIN cfg.body =>
          later.held[<<Caller, s>>] \subseteq sv.held[<<Caller, s>>]

\* What spared the caller then still does.
LEMMA SparesLater ==
    ASSUME NEW cfg, NEW sv, NEW later, NoMoreGranted(cfg, sv, later), NEW id, NEW op,
           Spares(cfg, sv, id, op)
    PROVE  Spares(cfg, later, id, op)
BY DEF NoMoreGranted, Spares

\* A statement of a goroutine that spares the caller.
LEMMA CallerSafe ==
    ASSUME NEW cfg, NEW sv \in Server, NEW id \in ResourceID, NEW op,
           NEW st \in StatementsFor(id, op), Accepted(sv, st), IsUser(sv.row[Caller]),
           Spares(cfg, sv, id, op), id = RoleId(Caller) => st.verb = "CREATE ROLE",
           op # "delete" => id \in DOMAIN cfg.body
    PROVE  LET after == Effect(sv, st)
           IN  /\ IsUser(after.row[Caller])
               /\ NoMoreGranted(cfg, sv, after)
               /\ op = "delete" =>
                     /\ \A s \in Risky :
                           sv.held[<<Caller, s>>] \cap Required \subseteq after.held[<<Caller, s>>]
                     /\ \A g \in Account : <<g, Caller>> \in sv.edges => <<g, Caller>> \in after.edges
<1> DEFINE after == Effect(sv, st)
           q(s) == <<Caller, s>>
<1>0. /\ st \in Statement /\ About(id, op, st)
      /\ Caller \in Account /\ \A s \in Risky : q(s) \in Account \X Scope
    BY ConfigsAssumption, ServerAssumption DEF StatementsFor, Risky
<1>1. /\ st.verb \in {"CREATE USER", "ALTER USER", "CREATE ROLE", "DROP USER", "DROP ROLE"}
            /\ st.acct = Caller =>
               id \in {UserId(Caller), RoleId(Caller)}
      /\ st.verb \in {"GRANT ROLE", "REVOKE ROLE"} /\ st.acct = Caller => id = RoleId(Caller)
      /\ st.verb \in {"GRANT", "REVOKE"} /\ st.acct = Caller => id = GrantId(Caller, st.scope)
      /\ st.verb \in {"DROP USER", "DROP ROLE"} =>
            op = "delete" /\ id \in {UserId(st.acct), RoleId(st.acct)}
    BY <1>0, IdFacts DEF About, Dropping
<1>2. IsUser(after.row[Caller])
  <2>1. CASE after.row[Caller] = sv.row[Caller]
      BY <2>1
  <2>2. CASE after.row[Caller] # sv.row[Caller]
    <3>1. /\ st.verb \in {"CREATE USER", "ALTER USER", "CREATE ROLE", "DROP USER", "DROP ROLE"}
          /\ st.acct = Caller
        BY <1>0, <2>2, RowChanged
    <3>2. st.verb \notin {"DROP USER", "DROP ROLE"}
        BY <1>1, <3>1 DEF Spares
    <3>3. st.verb \notin {"CREATE USER", "CREATE ROLE"}
        BY <3>1 DEF Accepted, IsUser
    <3>4. st.verb = "ALTER USER" /\ st.clauses.auth # Empty
        BY <1>0, <3>1, <3>2, <3>3 DEF About
    <3>5. after.row[Caller] = Altered(sv.row[Caller], st.clauses)
        BY <1>0, <3>1, <3>4 DEF Effect, Server
    <3>6. sv.row[Caller] \in Row
        BY <1>0 DEF Server
    <3> QED  BY <3>4, <3>5, <3>6 DEF Altered, Row, IsUser, IsRole
  <2> QED  BY <2>1, <2>2
<1> HIDE DEF after
<1>3. ASSUME NEW g \in Account, <<g, Caller>> \in after.edges PROVE <<g, Caller>> \in sv.edges
  <2> DEFINE e == <<g, Caller>>
  <2>1. SUFFICES ASSUME e \notin sv.edges PROVE FALSE
      OBVIOUS
  <2>2. st.verb = "GRANT ROLE" /\ e = <<st.role, st.acct>>
    <3> HIDE DEF e
    <3> QED  BY <1>0, <1>3, <2>1, EffectFacts DEF after, e
  <2>3. st.acct = Caller
      BY <2>2
  <2> QED  BY <1>1, <2>2, <2>3
<1>4. ASSUME NEW s \in Risky, GrantId(Caller, s) \notin DOMAIN cfg.body,
             NEW x, x \in after.held[q(s)], x \notin sv.held[q(s)]
      PROVE  FALSE
  <2> DEFINE p == q(s)
  <2>1. st.verb = "GRANT" /\ p = <<st.acct, st.scope>>
    <3>1. p \in Account \X Scope /\ x \in after.held[p] /\ x \notin sv.held[p]
        BY <1>0, <1>4
    <3> HIDE DEF p, q
    <3> QED  BY <1>0, <3>1, HeldGiven DEF after
  <2>2. st.acct = Caller /\ st.scope = s
      BY <2>1
  <2> QED  BY <1>0, <1>1, <1>4, <2>1, <2>2 DEF About
<1>5. ASSUME op = "delete", NEW s \in Risky, NEW x \in Required,
             x \in sv.held[q(s)], x \notin after.held[q(s)]
      PROVE  FALSE
  <2> DEFINE p == q(s)
  <2>1. \/ st.verb = "REVOKE" /\ p = <<st.acct, st.scope>>
        \/ st.verb \in {"DROP USER", "DROP ROLE"} /\ st.acct = p[1]
    <3>1. p \in Account \X Scope /\ x \in sv.held[p] /\ x \notin after.held[p]
        BY <1>0, <1>5
    <3> HIDE DEF p, q
    <3> QED  BY <1>0, <3>1, HeldTaken DEF after
  <2>2. \/ st.verb = "REVOKE" /\ st.acct = Caller /\ st.scope = s
        \/ st.verb \in {"DROP USER", "DROP ROLE"} /\ st.acct = Caller
      BY <2>1
  <2> QED  BY <1>1, <1>5, <2>2 DEF Spares
<1>6. ASSUME op = "delete", NEW g \in Account, <<g, Caller>> \in sv.edges PROVE <<g, Caller>> \in after.edges
  <2> DEFINE e == <<g, Caller>>
  <2>1. SUFFICES ASSUME e \notin after.edges PROVE FALSE
      OBVIOUS
  <2>2. \/ st.verb = "REVOKE ROLE" /\ e = <<st.role, st.acct>>
        \/ st.verb \in {"DROP USER", "DROP ROLE"} /\ st.acct \in {e[1], e[2]}
    <3> HIDE DEF e
    <3> QED  BY <1>0, <1>6, <2>1, EffectFacts DEF after, e
  <2>3. \/ st.verb = "REVOKE ROLE" /\ st.acct = Caller
        \/ st.verb \in {"DROP USER", "DROP ROLE"} /\ st.acct \in {g, Caller}
      BY <2>2
  <2> QED  BY <1>1, <1>6, <2>3 DEF Spares
<1> QED  BY <1>2, <1>3, <1>4, <1>5, <1>6 DEF NoMoreGranted, after

\* What the guard lets a plan delete spares the caller.
LEMMA ChangesSpare ==
    ASSUME RunsInv, Idle, CallerIsUser, ~Guarded
    PROVE  Changes \subseteq Sparing(config, server)
<1> SUFFICES ASSUME NEW c \in Changes PROVE c \in Sparing(config, server)
    OBVIOUS
<1>0. Caller \in Account /\ Required \subseteq Priv /\ server \in Server /\ Global \in Scope
    BY ConfigsAssumption, ServerAssumption DEF RunsInv
<1>1. c \in [id : ResourceID, type : Operation] /\ (c.type = "delete" => c.id \notin declared)
    BY ChangesArePlanned DEF RunsInv, Planned
<1>2. /\ IsUser(server.row[Caller])
      /\ \A g \in Account : <<g, Caller>> \in server.edges => ~IsUser(server.row[g])
    BY DEF CallerIsUser
<1>3. c.id = RoleId(Caller) => c.type = "create"
    BY <1>0, <1>2, ChangesAreFound, AccountsFound DEF IsUser
<1>4. ASSUME c.type = "delete" PROVE Spares(config, server, c.id, c.type)
  <2>1. ~LocksOut(c.id) /\ c.id \in Discover(server)
      BY <1>4, ChangesAreFound DEF Guarded
  <2>2. c.id \notin {UserId(Caller), RoleId(Caller)}
      BY <1>3, <1>4, <2>1 DEF LocksOut
  <2>3. ASSUME NEW s \in Risky, c.id = GrantId(Caller, s)
        PROVE  server.held[<<Caller, s>>] \cap Required = {}
    <3>1. Shown(server, Caller, s) \cap (Required \cup {"ALL"}) = {}
        BY <2>1, <2>3 DEF LocksOut
    <3> QED  BY <3>1 DEF Shown
  <2>4. ASSUME NEW g \in Account, <<g, Caller>> \in server.edges PROVE c.id \notin {UserId(g), RoleId(g)}
    <3>1. c.id # UserId(g)
        BY <1>2, <2>1, <2>4, AccountsFound
    <3>2. c.id # RoleId(g)
        BY <2>1, <2>4 DEF LocksOut, RoleId
    <3> QED  BY <3>1, <3>2
  <2> QED  BY <1>1, <1>3, <1>4, <2>2, <2>3, <2>4 DEF Spares, declared
<1> QED  BY <1>1, <1>3, <1>4 DEF Sparing, Spares

\* What a layer starts is as SpareInv says.
LEMMA SpawnSpares ==
    ASSUME NEW cfg, NEW sv, NEW layer \in SUBSET Sparing(cfg, sv), NEW id \in DOMAIN Spawn(layer)
    PROVE  SpareOK(cfg, sv, id, Spawn(layer)[id])
<1> DEFINE w == Spawn(layer)[id]
<1>1. /\ \E c \in layer : c.id = id /\ w.op = c.type
      /\ w.script = <<>>
    BY SpawnFacts
<1> HIDE DEF w
<1>2. Spares(cfg, sv, id, w.op)
    BY <1>1 DEF Sparing
<1>3. SpareOK(cfg, sv, id, w)
    BY <1>1, <1>2 DEF SpareOK
<1> QED  BY <1>3 DEF w

\* A role's script begins with its creation.
LEMMA CreateRoleFirst ==
    ASSUME NEW id \in ResourceID, id.type = "role", NEW body \in ValidBodies("role"), NEW sv \in Server
    PROVE  Head(Script("create", id, body, sv)).verb = "CREATE ROLE"
<1> DEFINE new == [verb |-> "CREATE ROLE", acct |-> id.acct]
           each == EdgesOf("GRANT ROLE", body.granted, id.acct)
           rest == EdgeStatements("GRANT ROLE", body.granted, id.acct)
<1>1. Script("create", id, body, sv) = <<new>> \o rest
    BY DEF Script, RoleScript
<1>2. rest \in Seq(each)
  <2>1. body.granted \in SUBSET Account
      BY DEF ValidBodies
  <2> QED  BY <2>1, EdgeScript
<1>3. new.verb = "CREATE ROLE"
    OBVIOUS
<1> HIDE DEF new, rest, each
<1>4. \A x : \A X : \A s \in Seq(X) : Head(<<x>> \o s) = x
    OBVIOUS
<1> QED  BY <1>1, <1>2, <1>3, <1>4

\* What a goroutine does next keeps it.
LEMMA SpareMoves ==
    ASSUME RunsInv, SpareInv, NEW id \in DOMAIN work, Moved(id), ~config.allow, ~armed
    PROVE  /\ IsUser(server'.row[Caller])
           /\ NoMoreGranted(config, server, server')
           /\ \A w : Advances(id, work[id], w) => SpareOK(config, server', id, w)
           /\ work[id].op = "delete" /\ server' # server =>
                 /\ \A s \in Risky :
                       server.held[<<Caller, s>>] \cap Required \subseteq server'.held[<<Caller, s>>]
                 /\ \A g \in Account : <<g, Caller>> \in server.edges => <<g, Caller>> \in server'.edges
<1> DEFINE old == work[id]
           st == Head(old.script)
<1>0. ~Idle /\ IsUser(server.row[Caller]) /\ SpareOK(config, server, id, old)
    BY NotIdle DEF SpareInv, Idle
<1>1. /\ WorkOK(id, old) /\ server \in Server /\ config \in Configs
      /\ old.op # "delete" => id \in DOMAIN config.body
    BY DEF RunsInv, Working, WorkOK, declared
<1>2. /\ \A cfg, sv : NoMoreGranted(cfg, sv, sv)
      /\ \A w : w.op = old.op => Spares(config, server, id, w.op)
    BY <1>0 DEF NoMoreGranted, SpareOK
<1>3. CASE server' = server
  <2>1. ASSUME NEW w, Advances(id, old, w), id = RoleId(Caller), w.script # <<>>,
               old.op \in {"create", "update", "delete"},
               w.script = Script(old.op, id, BodyOf(id), server)
        PROVE  Head(w.script).verb = "CREATE ROLE"
    <3>1. old.op = "create" /\ id \in declared /\ id \in ResourceID
        BY <1>0, <1>1, <2>1 DEF SpareOK, Spares, WorkOK
    <3>2. BodyOf(id) \in ValidBodies("role") /\ id.type = "role"
        BY <1>1, <2>1, <3>1, ConfigFacts DEF BodyOf, RoleId
    <3>3. Head(Script("create", id, BodyOf(id), server)).verb = "CREATE ROLE"
        BY <1>1, <3>1, <3>2, CreateRoleFirst
    <3> QED  BY <2>1, <3>1, <3>3
  <2>2. ASSUME NEW w, Advances(id, old, w), id = RoleId(Caller), w.script # <<>>,
               old.script # <<>>, Accepted(server, st)
        PROVE  FALSE
    <3>1. st.verb = "CREATE ROLE" /\ st.acct = Caller
      <4>1. st.verb = "CREATE ROLE"
          BY <1>0, <2>2 DEF SpareOK
      <4>2. st \in StatementsFor(id, old.op)
          BY <2>2, HeadIsLocal
      <4> QED  BY <2>2, <4>1, <4>2 DEF StatementsFor, About, RoleId
    <3> QED  BY <1>0, <2>2, <3>1 DEF Accepted, IsUser
  <2>3. ASSUME NEW w, Advances(id, old, w), id = RoleId(Caller), w.script # <<>>
        PROVE  Head(w.script).verb = "CREATE ROLE"
    <3>1. CASE w.script = old.script
        BY <1>0, <2>3, <3>1 DEF SpareOK
    <3> QED  BY <2>1, <2>2, <2>3, <3>1 DEF Advances
  <2>4. ASSUME NEW w, Advances(id, old, w) PROVE SpareOK(config, server, id, w)
    <3>1. Spares(config, server, id, w.op)
        BY <1>2, <2>4 DEF Advances
    <3> QED  BY <2>3, <2>4, <3>1 DEF SpareOK
  <2> QED  BY <1>0, <1>2, <1>3, <2>4
<1>4. CASE server' # server
  <2>1. PICK w : Advances(id, old, w)
      BY DEF Moved
  <2>2. old.script # <<>> /\ Accepted(server, st) /\ server' = Effect(server, st)
      BY <1>4, <2>1 DEF Advances
  <2>3. st \in StatementsFor(id, old.op) /\ id \in ResourceID
      BY <1>1, <2>2, HeadIsLocal DEF WorkOK
  <2>4. Spares(config, server, id, old.op) /\ (id = RoleId(Caller) => st.verb = "CREATE ROLE")
      BY <1>0, <2>2 DEF SpareOK
  <2>5. id # RoleId(Caller)
    <3>1. SUFFICES ASSUME id = RoleId(Caller) PROVE FALSE
        OBVIOUS
    <3>2. st.verb = "CREATE ROLE" /\ st.acct = Caller
        BY <2>3, <2>4, <3>1 DEF StatementsFor, About, RoleId
    <3> QED  BY <1>0, <2>2, <3>2 DEF Accepted, IsUser
  <2> DEFINE after == Effect(server, st)
  <2>6. /\ IsUser(after.row[Caller])
        /\ NoMoreGranted(config, server, after)
        /\ old.op = "delete" =>
              /\ \A s \in Risky :
                    server.held[<<Caller, s>>] \cap Required \subseteq after.held[<<Caller, s>>]
              /\ \A g \in Account : <<g, Caller>> \in server.edges => <<g, Caller>> \in after.edges
    <3> HIDE DEF st, old
    <3> QED  BY <1>0, <1>1, <2>2, <2>3, <2>4, CallerSafe
  <2>7. ASSUME NEW v, Advances(id, old, v) PROVE SpareOK(config, server', id, v)
    <3>1. Spares(config, server, id, v.op)
        BY <1>2, <2>7 DEF Advances
    <3>2. Spares(config, server', id, v.op)
        BY <2>2, <2>6, <3>1, SparesLater
    <3> QED  BY <2>5, <3>2 DEF SpareOK
  <2> QED  BY <2>2, <2>6, <2>7
<1> QED  BY <1>3, <1>4

\* What spares the caller does so after others have changed the server too.
LEMMA SparingLater ==
    ASSUME NEW cfg, NEW sv, NEW later, NoMoreGranted(cfg, sv, later)
    PROVE  /\ Seq(SUBSET Sparing(cfg, sv)) \subseteq Seq(SUBSET Sparing(cfg, later))
           /\ \A id, w : SpareOK(cfg, sv, id, w) => SpareOK(cfg, later, id, w)
<1>1. SUBSET Sparing(cfg, sv) \subseteq SUBSET Sparing(cfg, later)
    BY SparesLater DEF Sparing
<1> QED  BY <1>1, SparesLater, MoreToChoose DEF SpareOK

\* SpareInv holds before the first run.
LEMMA SpareInit == Init => SpareInv
BY DEF Init, Idle, SpareInv

\* Every step of a run that plans as CallerIsUser says keeps SpareInv.
LEMMA SpareNext ==
    ASSUME RunsInv, SpareInv, CallerIsUser, [Next]_vars
    PROVE  SpareInv'
<1> SUFFICES ASSUME ~Idle', ~config'.allow, ~armed'
             PROVE  /\ IsUser(server'.row[Caller])
                    /\ layers' \in Seq(SUBSET Sparing(config', server'))
                    /\ \A id \in DOMAIN work' : SpareOK(config', server', id, work'[id])
    BY DEF SpareInv
<1>1. CASE Plan
  <2>1. layers' \in Seq(SUBSET Changes) /\ layers' # <<>>
    <3>1. Changes # {}
        BY <1>1 DEF Plan, NothingToDo
    <3> QED  BY <1>1, <3>1, LayersOfPlan DEF Plan, RunsInv
  <2>2. Idle /\ ~Guarded /\ UNCHANGED <<server, config>>
      BY <1>1 DEF Plan, Refused
  <2>3. SUBSET Changes \subseteq SUBSET Sparing(config, server)
      BY <2>2, ChangesSpare
  <2>4. Seq(SUBSET Changes) \subseteq Seq(SUBSET Sparing(config, server))
      BY <2>3, MoreToChoose
  <2>5. layers'[1] \in SUBSET Sparing(config, server)
      BY <2>1, <2>3
  <2>6. \A id \in DOMAIN Spawn(layers'[1]) : SpareOK(config, server, id, Spawn(layers'[1])[id])
      BY <2>5, SpawnSpares
  <2> QED  BY <1>1, <2>1, <2>2, <2>4, <2>6 DEF Plan, CallerIsUser
<1>2. CASE NextLayer
  <2>1. layers \in Seq(SUBSET Sparing(config, server)) /\ Len(layers) > 1 /\ layers' = Tail(layers)
      BY <1>2 DEF NextLayer, SpareInv, LayerDone
  <2>2. layers' \in Seq(SUBSET Sparing(config, server)) /\ layers'[1] \in SUBSET Sparing(config, server)
      BY <2>1, TailOfMany
  <2>3. \A id \in DOMAIN Spawn(layers'[1]) : SpareOK(config, server, id, Spawn(layers'[1])[id])
      BY <2>2, SpawnSpares
  <2> QED  BY <1>2, <2>2, <2>3 DEF NextLayer, SpareInv, LayerDone
<1>3. CASE Ended
    BY <1>3 DEF Ended, Idle
<1>4. CASE Meddle
  <2>1. ~armed /\ ~CallerChanged /\ UNCHANGED <<config, layers, work>>
      BY <1>4 DEF Meddle
  <2>2. NoMoreGranted(config, server, server') /\ server'.row[Caller] = server.row[Caller]
    <3>1. \A g \in Account : LET e == <<g, Caller>> IN e[2] = Caller
        OBVIOUS
    <3> QED  BY <2>1, <3>1 DEF CallerChanged, NoMoreGranted
  <2>3. /\ IsUser(server.row[Caller])
        /\ layers \in Seq(SUBSET Sparing(config, server))
        /\ \A id \in DOMAIN work : SpareOK(config, server, id, work[id])
      BY <2>1 DEF SpareInv, Idle
  <2>4. /\ layers \in Seq(SUBSET Sparing(config, server'))
        /\ \A id \in DOMAIN work : SpareOK(config, server', id, work[id])
      BY <2>2, <2>3, SparingLater
  <2> QED  BY <2>1, <2>2, <2>3, <2>4
<1>5. CASE UNCHANGED vars
    BY <1>5 DEF vars, SpareInv, Idle
<1>6. ASSUME NEW id \in DOMAIN work, Moved(id)
      PROVE  /\ IsUser(server'.row[Caller])
             /\ layers' \in Seq(SUBSET Sparing(config', server'))
             /\ \A i \in DOMAIN work' : SpareOK(config', server', i, work'[i])
  <2>1. ~Idle /\ ~config.allow /\ ~armed /\ UNCHANGED <<layers, config, armed>>
      BY <1>6 DEF Moved, Idle
  <2>2. /\ IsUser(server'.row[Caller])
        /\ NoMoreGranted(config, server, server')
        /\ \A w : Advances(id, work[id], w) => SpareOK(config, server', id, w)
      BY <1>6, <2>1, SpareMoves
  <2>3. layers \in Seq(SUBSET Sparing(config, server))
        /\ \A i \in DOMAIN work : SpareOK(config, server, i, work[i])
      BY <2>1 DEF SpareInv
  <2>5. layers \in Seq(SUBSET Sparing(config, server'))
        /\ \A i \in DOMAIN work : SpareOK(config, server', i, work[i])
      BY <2>2, <2>3, SparingLater
  <2>7. PICK w : work' = [work EXCEPT ![id] = w] /\ Advances(id, work[id], w)
      BY <1>6 DEF Moved
  <2>8. \A i \in DOMAIN work' : SpareOK(config, server', i, work'[i])
      BY <2>2, <2>5, <2>7
  <2> QED  BY <2>1, <2>2, <2>5, <2>8
<1> QED  BY <1>1, <1>2, <1>3, <1>4, <1>5, <1>6, RunSteps

\* A delete that is executed takes nothing from the caller.
LEMMA DeleteSpares ==
    ASSUME RunsInv, SpareInv, [Next]_vars, RunStatement, ~config.allow, ~armed,
           NEW id \in DOMAIN work, work[id].op = "delete", work'[id].script # work[id].script
    PROVE  /\ server.row[Caller].exists => server'.row[Caller].exists
           /\ \A s \in Risky :
                 server.held[<<Caller, s>>] \cap Required \subseteq server'.held[<<Caller, s>>]
           /\ RolesOf(server)[Caller] \subseteq RolesOf(server')[Caller]
<1>1. PICK i \in DOMAIN work : Moved(i)
    BY RunSteps DEF RunStatement, Plan, NextLayer, Ended, Meddle, vars
<1>2. i = id
    BY <1>1 DEF Moved
<1>3. server' # server
    BY DEF RunStatement
<1> QED  BY <1>1, <1>2, <1>3, SpareMoves, ConfigsAssumption DEF IsUser, RolesOf

\* DeletesSpareCaller of MySQLRuns: without --allow-self-lockout no delete of a
\* run takes from the caller its account, a required privilege on *.* or the
\* schema mysql, or a role, although the guard looked at them before the
\* statements of the other goroutines, and of administrators who leave the
\* caller as it is, were executed.
THEOREM DeletesSpareTheCaller == Spec /\ []CallerIsUser => DeletesSpareCaller
<1>1. RunsInv /\ SpareInv /\ CallerIsUser /\ [Next]_vars => SpareInv'
    BY SpareNext
<1>2. RunsInv /\ SpareInv /\ [Next]_vars =>
        [RunStatement /\ ~config.allow /\ ~armed =>
            \A id \in DOMAIN work :
                work[id].op = "delete" /\ work'[id].script # work[id].script =>
                    /\ server.row[Caller].exists => server'.row[Caller].exists
                    /\ \A s \in Risky :
                          server.held[<<Caller, s>>] \cap Required \subseteq server'.held[<<Caller, s>>]
                    /\ RolesOf(server)[Caller] \subseteq RolesOf(server')[Caller]]_vars
    BY DeleteSpares
<1> QED  BY RunsInit, RunsNext, SpareInit, <1>1, <1>2, PTL DEF Spec, DeletesSpareCaller

-----------------------------------------------------------------------------
(* A clean run settles everything. *)

\* Whether what is declared is shown under the same names once it is there: no
\* comment (it comes back as an attribute), no mix of ALL or USAGE with other
\* privileges, no list of all there are (it comes back as ALL), no USAGE alone
\* (every account has it), no grant_option = false (it does not come back), and
\* a character set.
ComesBack(id, body) ==
    /\ id.type = "user" => body.comment = "none"
    /\ id.type = "grant" =>
          /\ \/ body.privs = {"ALL"}
             \/ body.privs = {"USAGE"} /\ body.opt = "true"
             \/ body.privs \subseteq Priv /\ body.privs # Priv
          /\ body.opt # "false"
    /\ id.type = "database" => body.charset # "unset"

DeclaredComesBack == \A c \in Configs : \A id \in DOMAIN c.body : ComesBack(id, c.body[id])

\* What does not exist holds nothing and is granted to nobody.
NoOrphans(sv) ==
    \A a \in Account : ~sv.row[a].exists =>
        /\ \A s \in Scope : sv.held[<<a, s>>] = {} /\ <<a, s>> \notin sv.opt
        /\ \A g \in Account : <<g, a>> \notin sv.edges /\ <<a, g>> \notin sv.edges

\* ALTER USER and GRANT cannot take back what is set and not declared: a lock, a
\* limit, an attribute, a grant option.
Resettable(body, sv, id) ==
    /\ id.type = "user" /\ sv.row[id.acct].exists =>
          /\ sv.row[id.acct].locked => body.locked
          /\ body.limit = 0 => sv.row[id.acct].limit = 0
          /\ sv.row[id.acct].attribute = "none"
    /\ id.type = "grant" /\ <<id.acct, id.scope>> \in sv.opt => body.opt = "true"

AllResettable(cfg, sv) == \A id \in DOMAIN cfg.body : Resettable(cfg.body[id], sv, id)

\* When a run plans there is nothing of the kind.
NothingToReset == Idle => AllResettable(config, server)

\* What the server holds of a declared resource is what the body says.
AsDeclared(body, sv, id) ==
    /\ id.type = "user" => sv.row[id.acct] = RowOf(body)
    /\ id.type = "role" =>
          /\ IsRole(sv.row[id.acct])
          /\ \A g \in Account : <<g, id.acct>> \in sv.edges <=> g \in body.granted
    /\ id.type = "grant" =>
          /\ sv.row[id.acct].exists
          /\ sv.held[<<id.acct, id.scope>>] = Meant(body.privs)
          /\ <<id.acct, id.scope>> \in sv.opt <=> body.opt = "true"
    /\ id.type = "database" => sv.schema[id.scope] = body.charset

\* There is nothing of the resource on the server.
Gone(sv, id) ==
    /\ id.type = "user" => ~IsUser(sv.row[id.acct])
    /\ id.type = "role" => ~IsRole(sv.row[id.acct])
    /\ id.type = "grant" =>
          sv.held[<<id.acct, id.scope>>] = {} /\ <<id.acct, id.scope>> \notin sv.opt
    /\ id.type = "database" => sv.schema[id.scope] = NoSchema

\* There is nothing left to do about the resource: it is as declared, or gone if
\* the run prunes resources of its type.
Settled(cfg, sv, id) ==
    IF id \in DOMAIN cfg.body THEN AsDeclared(cfg.body[id], sv, id)
    ELSE cfg.prune /\ (\E d \in DOMAIN cfg.body : d.type = id.type) => Gone(sv, id)

\* What a change may rely on when its handler starts.
Ready(cfg, sv, id, op) ==
    /\ op = "create" /\ id.type = "grant" => sv.held[<<id.acct, id.scope>>] = {}
    /\ op = "update" /\ id.type = "role" => IsRole(sv.row[id.acct])

\* The rest of a script of one statement: all of it, or nothing, and then the
\* resource is settled.
OneLeft(cfg, sv, id, whole, script) ==
    \/ script = whole
    \/ script = <<>> /\ Settled(cfg, sv, id)

\* The rest of a role's script, once the role is there: edges that are missing
\* are still to be granted, and others still to be revoked.
EdgesLeft(body, sv, id, script) ==
    /\ IsRole(sv.row[id.acct])
    /\ \A i \in DOMAIN script :
          \/ script[i].verb = "GRANT ROLE" /\ script[i].role \in body.granted
          \/ script[i].verb = "REVOKE ROLE" /\ script[i].role \notin body.granted
    /\ \A g \in body.granted :
          \/ <<g, id.acct>> \in sv.edges
          \/ \E i \in DOMAIN script : script[i].verb = "GRANT ROLE" /\ script[i].role = g
    /\ \A g \in Account \ body.granted :
          \/ <<g, id.acct>> \notin sv.edges
          \/ \E i \in DOMAIN script : script[i].verb = "REVOKE ROLE" /\ script[i].role = g

\* The statement takes the privilege.
Takes(st, x) == st.verb = "REVOKE" /\ x \in Meant(st.privs)

\* The rest of a grant's script: it revokes first, and what is declared will be
\* held, and nothing else.
GrantsLeft(body, sv, id, script) ==
    LET p == <<id.acct, id.scope>>
    IN  /\ script = <<>> => sv.row[id.acct].exists
        /\ \A i \in DOMAIN script :
              \/ script[i].verb = "REVOKE" /\ i = 1
              \/ /\ script[i].verb = "GRANT" /\ Meant(script[i].privs) \subseteq Meant(body.privs)
                 /\ script[i].opt <=> body.opt = "true"
        /\ \A x \in Meant(body.privs) :
              \/ x \in sv.held[p] /\ \A i \in DOMAIN script : ~Takes(script[i], x)
              \/ \E i \in DOMAIN script : script[i].verb = "GRANT" /\ x \in Meant(script[i].privs)
        /\ \A x \in sv.held[p] \ Meant(body.privs) :
              \E i \in DOMAIN script : Takes(script[i], x)
        /\ body.opt = "true" =>
              \/ p \in sv.opt /\ \A i \in DOMAIN script :
                                    script[i].verb = "REVOKE" => "ALL" \notin script[i].privs
              \/ \E i \in DOMAIN script : script[i].verb = "GRANT"

\* The rest of the script leads to what is declared.
Leads(cfg, sv, id, op, script) ==
    IF op = "delete" THEN OneLeft(cfg, sv, id, Script(op, id, <<>>, sv), script)
    ELSE LET body == cfg.body[id]
         IN  /\ id.type \in {"user", "database"} =>
                   OneLeft(cfg, sv, id, Script(op, id, body, sv), script)
             /\ id.type = "role" =>
                   \/ op = "create" /\ script = RoleScript(op, id, body, sv)
                   \/ EdgesLeft(body, sv, id, script)
             /\ id.type = "grant" => GrantsLeft(body, sv, id, script)

\* A change that is not started yet: it may be when its turn comes, or has
\* nothing to do.
Awaits(cfg, sv, c) ==
    /\ c.type = "delete" => Retains(cfg, c.id)
    /\ IF c.type = "noop" THEN Settled(cfg, sv, c.id) ELSE Ready(cfg, sv, c.id, c.type)

\* A goroutine of the layer is on its way.
OnItsWay(cfg, sv, id, w) ==
    /\ w.op = "delete" => Retains(cfg, id)
    /\ w.pc = "start" => Ready(cfg, sv, id, w.op)
    /\ w.pc = "running" => Leads(cfg, sv, id, w.op, w.script)
    /\ w.pc = "done" => Settled(cfg, sv, id)

\* No two layers have changes of one resource, and the goroutines are for the
\* first one.
LayersLead ==
    /\ \A i, j \in DOMAIN layers : i # j => IdsIn(layers[i]) \cap IdsIn(layers[j]) = {}
    /\ \A i \in DOMAIN layers : i # 1 => \A c \in layers[i] : Awaits(config, server, c)
    /\ DOMAIN work = IdsIn(layers[1])
    /\ \A id \in DOMAIN work : OnItsWay(config, server, id, work[id])

\* A run that nothing has disturbed: every resource is settled, or changed in
\* one of the layers left.
Undisturbed ==
    /\ failed = {}
    /\ AllResettable(config, server)
    /\ LayersLead
    /\ \A x \in ResourceID :
          Settled(config, server, x) \/ \E i \in DOMAIN layers : x \in IdsIn(layers[i])

LeadsInv ==
    /\ NoOrphans(server)
    /\ clean => IF Idle THEN \A x \in ResourceID : Settled(config, server, x)
                ELSE Undisturbed

-----------------------------------------------------------------------------
(* What is settled is what a plan finds nothing to do about. *)

\* A server's tables, typed.
LEMMA Tables ==
    ASSUME NEW sv \in Server
    PROVE  /\ \A a \in Account : sv.row[a] \in Row
           /\ \A a \in Account, s \in Scope : sv.held[<<a, s>>] \in SUBSET Priv
           /\ \A s \in Schema : sv.schema[s] \in Charset \cup {NoSchema}
BY DEF Server

\* What discovery finds, by the type of the resource.
LEMMA Found ==
    ASSUME NEW sv, NEW id \in ResourceID
    PROVE  /\ id.type = "user" => (id \in Discover(sv) <=> IsUser(sv.row[id.acct]))
           /\ id.type = "role" => (id \in Discover(sv) <=> IsRole(sv.row[id.acct]))
           /\ id.type = "grant" =>
                 (id \in Discover(sv) <=> /\ HasLine(sv, id.acct, id.scope)
                                          /\ ~IsUsageOnlyDefault(sv, id.acct, id.scope))
           /\ id.type = "database" => (id \in Discover(sv) <=> sv.schema[id.scope] # NoSchema)
<1>1. CASE id.type = "user"
  <2>1. id.acct \in Account /\ id = UserId(id.acct)
      BY <1>1, IdFacts
  <2> QED  BY <1>1, <2>1 DEF Discover, DiscoverUsers, DiscoverRoles, DiscoverGrants, DiscoverDatabases,
              UserId, RoleId, GrantId, DatabaseId
<1>2. CASE id.type = "role"
  <2>1. id.acct \in Account /\ id = RoleId(id.acct)
      BY <1>2, IdFacts
  <2> QED  BY <1>2, <2>1 DEF Discover, DiscoverUsers, DiscoverRoles, DiscoverGrants, DiscoverDatabases,
              UserId, RoleId, GrantId, DatabaseId
<1>3. CASE id.type = "grant"
  <2>1. id.acct \in Account /\ id.scope \in Scope /\ id = GrantId(id.acct, id.scope)
      BY <1>3, IdFacts
  <2>2. ASSUME id \in Discover(sv)
        PROVE  HasLine(sv, id.acct, id.scope) /\ ~IsUsageOnlyDefault(sv, id.acct, id.scope)
    <3>1. id \in DiscoverGrants(sv)
        BY <1>3, <2>2 DEF Discover, DiscoverUsers, DiscoverRoles, DiscoverDatabases,
                          UserId, RoleId, DatabaseId
    <3> QED  BY <3>1 DEF DiscoverGrants, GrantId
  <2>3. ASSUME HasLine(sv, id.acct, id.scope), ~IsUsageOnlyDefault(sv, id.acct, id.scope)
        PROVE  id \in Discover(sv)
    <3> DEFINE q == <<id.acct, id.scope>>
    <3>1. q \in Account \X Scope /\ id = GrantId(q[1], q[2])
        BY <2>1
    <3>2. HasLine(sv, q[1], q[2]) /\ ~IsUsageOnlyDefault(sv, q[1], q[2])
        BY <2>3
    <3> HIDE DEF q
    <3> QED  BY <3>1, <3>2 DEF Discover, DiscoverGrants
  <2> QED  BY <1>3, <2>2, <2>3
<1>4. CASE id.type = "database"
  <2>1. id.scope \in Schema /\ id = DatabaseId(id.scope)
      BY <1>4, IdFacts
  <2> QED  BY <1>4, <2>1 DEF Discover, DiscoverUsers, DiscoverRoles, DiscoverGrants, DiscoverDatabases,
              UserId, RoleId, GrantId, DatabaseId
<1> QED  BY <1>1, <1>2, <1>3, <1>4, IdFacts

\* What SHOW GRANTS shows of what is held.
LEMMA ShownFacts ==
    ASSUME NEW sv \in Server, NEW a \in Account, NEW s \in Scope
    PROVE  /\ Shown(sv, a, s) = {"ALL"} <=> sv.held[<<a, s>>] = Priv
           /\ Shown(sv, a, s) = {"USAGE"} <=> sv.held[<<a, s>>] = {}
           /\ \A privs \in SUBSET Priv : privs # {} /\ privs # Priv =>
                 (Shown(sv, a, s) = privs <=> sv.held[<<a, s>>] = privs)
           /\ \/ Shown(sv, a, s) = {"ALL"} /\ sv.held[<<a, s>>] = Priv
              \/ Shown(sv, a, s) = {"USAGE"} /\ sv.held[<<a, s>>] = {}
              \/ Shown(sv, a, s) = sv.held[<<a, s>>]
<1>1. sv.held[<<a, s>>] \in SUBSET Priv
    BY Tables
<1> QED  BY <1>1, ServerAssumption DEF Shown

\* A grant that comes back is shown by its own names exactly if it is held.
LEMMA ShownAsDeclared ==
    ASSUME NEW sv \in Server, NEW id \in ResourceID, id.type = "grant",
           NEW body \in ValidBodies("grant"), ComesBack(id, body)
    PROVE  body.privs = Shown(sv, id.acct, id.scope)
               <=> sv.held[<<id.acct, id.scope>>] = Meant(body.privs)
<1>1. id.acct \in Account /\ id.scope \in Scope
    BY IdFacts
<1>2. body.privs # {}
    BY DEF ValidBodies
<1>3. CASE body.privs = {"ALL"}
    BY <1>1, <1>3, ShownFacts DEF Meant
<1>4. CASE body.privs = {"USAGE"}
    BY <1>1, <1>4, ShownFacts DEF Meant
<1>5. CASE body.privs \subseteq Priv /\ body.privs # Priv
  <2> DEFINE privs == body.privs
  <2>1. Meant(privs) = privs
      BY <1>5, ServerAssumption DEF Meant
  <2>2. privs \in SUBSET Priv /\ privs # {} /\ privs # Priv
      BY <1>2, <1>5
  <2> HIDE DEF privs
  <2>3. Shown(sv, id.acct, id.scope) = privs <=> sv.held[<<id.acct, id.scope>>] = privs
      BY <1>1, <2>2, ShownFacts
  <2> QED  BY <2>1, <2>3 DEF privs
<1> QED  BY <1>3, <1>4, <1>5 DEF ComesBack

\* A declared resource is as declared exactly if it is found and does not differ.
LEMMA FoundAsDeclared ==
    ASSUME NEW sv \in Server, NEW id \in ResourceID, NEW body \in ValidBodies(id.type),
           ComesBack(id, body)
    PROVE  AsDeclared(body, sv, id) <=> id \in Discover(sv) /\ ~Differs(id, body, sv)
<1>1. CASE id.type = "user"
  <2>1. id.acct \in Account /\ sv.row[id.acct] \in Row
      BY <1>1, IdFacts, Tables
  <2>2. body \in Clauses /\ body.auth # Empty /\ body.comment = "none"
      BY <1>1 DEF ValidBodies, ComesBack
  <2> DEFINE r == sv.row[id.acct]
  <2>3. r = RowOf(body) <=> IsUser(r) /\ ~UserDiffers(body, r)
    <3>1. r = [exists |-> r.exists, locked |-> r.locked, auth |-> r.auth, limit |-> r.limit,
               attribute |-> r.attribute]
        BY <2>1 DEF Row
    <3>2. r.exists \in BOOLEAN /\ r.locked \in BOOLEAN /\ body.locked \in BOOLEAN
        BY <2>1, <2>2 DEF Row, Clauses
    <3> HIDE DEF r
    <3>3. r = RowOf(body) => IsUser(r) /\ ~UserDiffers(body, r)
        BY <2>2 DEF RowOf, IsUser, IsRole, UserDiffers
    <3>4. IsUser(r) /\ ~UserDiffers(body, r) => r = RowOf(body)
        BY <2>2, <3>1, <3>2 DEF RowOf, IsUser, UserDiffers
    <3> QED  BY <3>3, <3>4
  <2>4. AsDeclared(body, sv, id) <=> r = RowOf(body)
      BY <1>1 DEF AsDeclared
  <2>5. Differs(id, body, sv) <=> UserDiffers(body, r)
      BY <1>1 DEF Differs
  <2> QED  BY <1>1, <2>3, <2>4, <2>5, Found
<1>2. CASE id.type = "role"
  <2>1. id.acct \in Account /\ body.granted \in SUBSET Account
      BY <1>2, IdFacts DEF ValidBodies
  <2>2. RolesOf(sv)[id.acct] = {g \in Account : <<g, id.acct>> \in sv.edges}
      BY <2>1 DEF RolesOf
  <2>3. Differs(id, body, sv) <=> body.granted # RolesOf(sv)[id.acct]
      BY <1>2 DEF Differs
  <2>4. AsDeclared(body, sv, id) <=>
            /\ IsRole(sv.row[id.acct])
            /\ \A g \in Account : <<g, id.acct>> \in sv.edges <=> g \in body.granted
      BY <1>2 DEF AsDeclared
  <2> QED  BY <1>2, <2>1, <2>2, <2>3, <2>4, Found
<1>3. CASE id.type = "grant"
  <2>1. id.acct \in Account /\ id.scope \in Scope
      BY <1>3, IdFacts
  <2> DEFINE p == <<id.acct, id.scope>>
  <2>2. body.privs = Shown(sv, id.acct, id.scope) <=> sv.held[p] = Meant(body.privs)
      BY <1>3, ShownAsDeclared
  <2>3. Differs(id, body, sv) <=> GrantDiffers(body, sv, id)
      BY <1>3 DEF Differs
  <2>4. AsDeclared(body, sv, id) <=>
            /\ sv.row[id.acct].exists
            /\ sv.held[p] = Meant(body.privs)
            /\ p \in sv.opt <=> body.opt = "true"
      BY <1>3 DEF AsDeclared
  <2>5. body.opt \in {"unset", "true"}
      BY <1>3 DEF ValidBodies, ComesBack
  <2>6. ~GrantDiffers(body, sv, id) <=>
            sv.held[p] = Meant(body.privs) /\ (p \in sv.opt <=> body.opt = "true")
      BY <2>2, <2>5 DEF GrantDiffers
  <2>7. Meant(body.privs) # {} \/ body.opt = "true"
    <3>1. body.privs # {}
        BY <1>3 DEF ValidBodies
    <3> QED  BY <1>3, <3>1, ServerAssumption DEF ComesBack, Meant
  <2>8. sv.held[p] = {} <=> Shown(sv, id.acct, id.scope) = {"USAGE"}
      BY <2>1, ShownFacts
  <2>9. ASSUME sv.held[p] # {} \/ p \in sv.opt
        PROVE  id \in Discover(sv) <=> sv.row[id.acct].exists
      BY <1>3, <2>8, <2>9, Found DEF HasLine, IsUsageOnlyDefault
  <2>10. id \in Discover(sv) => sv.row[id.acct].exists
      BY <1>3, Found DEF HasLine
  <2> QED  BY <2>3, <2>4, <2>6, <2>7, <2>9, <2>10
<1>4. CASE id.type = "database"
  <2>1. id.scope \in Schema
      BY <1>4, IdFacts
  <2>2. body.charset \in Charset
      BY <1>4 DEF ValidBodies, ComesBack
  <2>3. body.charset # NoSchema
      BY <2>2, ServerAssumption
  <2> QED  BY <1>4, <2>1, <2>3, Found DEF AsDeclared, Differs
<1> QED  BY <1>1, <1>2, <1>3, <1>4, IdFacts

\* There is nothing of a resource exactly if it is not found.
LEMMA FoundUnlessGone ==
    ASSUME NEW sv \in Server, NoOrphans(sv), NEW id \in ResourceID
    PROVE  Gone(sv, id) <=> id \notin Discover(sv)
<1>1. CASE id.type \in {"user", "role", "database"}
    BY <1>1, Found DEF Gone
<1>2. CASE id.type = "grant"
  <2>1. id.acct \in Account /\ id.scope \in Scope
      BY <1>2, IdFacts
  <2> DEFINE p == <<id.acct, id.scope>>
  <2>2. sv.held[p] = {} <=> Shown(sv, id.acct, id.scope) = {"USAGE"}
      BY <2>1, ShownFacts
  <2>3. sv.held[p] # {} \/ p \in sv.opt => sv.row[id.acct].exists
      BY <2>1 DEF NoOrphans
  <2>4. Gone(sv, id) <=> sv.held[p] = {} /\ p \notin sv.opt
      BY <1>2 DEF Gone
  <2>5. id \in Discover(sv) <=> /\ HasLine(sv, id.acct, id.scope)
                                /\ ~IsUsageOnlyDefault(sv, id.acct, id.scope)
      BY <1>2, Found
  <2> QED  BY <2>2, <2>3, <2>4, <2>5 DEF HasLine, IsUsageOnlyDefault
<1> QED  BY <1>1, <1>2, IdFacts

\* Which changes a plan has: for what is declared, and for what is found and not
\* declared where the run prunes.
LEMMA ChangesHave ==
    ASSUME NEW x
    PROVE  /\ x \in declared \ Live => [id |-> x, type |-> "create"] \in Changes
           /\ x \in declared \cap Live =>
                 [id |-> x, type |-> IF Differs(x, config.body[x], server)
                                     THEN "update" ELSE "noop"] \in Changes
           /\ x \in Live \ declared /\ config.prune => [id |-> x, type |-> "delete"] \in Changes
<1> DEFINE A == {[id |-> d, type |-> "create"] : d \in declared \ Live}
           B == {[id |-> d, type |-> IF Differs(d, config.body[d], server)
                                THEN "update" ELSE "noop"] : d \in declared \cap Live}
           D == {[id |-> l, type |-> "delete"] : l \in Live \ declared}
<1>1. Changes = Kept(A \cup B \cup D)
    BY DEF Changes
<1>2. \A c : c \in A \cup B \cup D /\ (config.prune \/ c.type # "delete") => c \in Changes
  <2> HIDE DEF A, B, D
  <2> QED  BY <1>1 DEF Kept
<1>3. ASSUME x \in declared \ Live PROVE [id |-> x, type |-> "create"] \in Changes
  <2>1. [id |-> x, type |-> "create"] \in A
      BY <1>3
  <2> HIDE DEF A, B, D
  <2> QED  BY <1>2, <2>1
<1>4. ASSUME x \in declared \cap Live
      PROVE  [id |-> x, type |-> IF Differs(x, config.body[x], server)
                                 THEN "update" ELSE "noop"] \in Changes
  <2>1. [id |-> x, type |-> IF Differs(x, config.body[x], server)
                            THEN "update" ELSE "noop"] \in B
      BY <1>4
  <2> HIDE DEF A, B, D
  <2> QED  BY <1>2, <2>1
<1>5. ASSUME x \in Live \ declared, config.prune
      PROVE  [id |-> x, type |-> "delete"] \in Changes
  <2>1. [id |-> x, type |-> "delete"] \in D
      BY <1>5
  <2> HIDE DEF A, B, D
  <2> QED  BY <1>2, <1>5, <2>1
<1> QED  BY <1>3, <1>4, <1>5

\* What is declared is settled exactly if it is found and does not differ, and what
\* is not, unless it is found and to be pruned.
LEMMA SettledIsFound ==
    ASSUME RunsInv, DeclaredComesBack, NoOrphans(server), NEW x \in ResourceID
    PROVE  /\ x \in declared =>
                 (Settled(config, server, x)
                    <=> x \in Live /\ ~Differs(x, config.body[x], server))
           /\ x \notin declared =>
                 (Settled(config, server, x) <=> ~config.prune \/ x \notin Live)
<1>1. server \in Server /\ config \in Configs
    BY DEF RunsInv
<1>2. x \in Live <=> x \in Discover(server) /\ \E d \in declared : d.type = x.type
    BY DEF Live
<1>3. CASE x \in declared
  <2>1. config.body[x] \in ValidBodies(x.type) /\ ComesBack(x, config.body[x])
      BY <1>1, <1>3, ConfigFacts DEF DeclaredComesBack, declared
  <2>2. AsDeclared(config.body[x], server, x)
            <=> x \in Discover(server) /\ ~Differs(x, config.body[x], server)
      BY <1>1, <2>1, FoundAsDeclared
  <2> QED  BY <1>2, <1>3, <2>2 DEF Settled, declared
<1>4. CASE x \notin declared
  <2>1. Gone(server, x) <=> x \notin Discover(server)
      BY <1>1, FoundUnlessGone
  <2> QED  BY <1>2, <1>4, <2>1 DEF Settled, declared
<1> QED  BY <1>3, <1>4

\* Where everything is settled there is nothing to do.
LEMMA SettledIsDone ==
    ASSUME RunsInv, DeclaredComesBack, NoOrphans(server),
           \A x \in ResourceID : Settled(config, server, x)
    PROVE  NothingToDo
<1> SUFFICES ASSUME NEW c \in Changes PROVE c.type = "noop"
    BY DEF NothingToDo
<1>1. /\ \A x \in declared : x \in Live /\ ~Differs(x, config.body[x], server)
      /\ \A x \in ResourceID \ declared : ~config.prune \/ x \notin Live
    BY SettledIsFound, ConfigFacts DEF RunsInv
<1>2. Live \subseteq ResourceID
    BY DiscoverFinds DEF Live
<1> DEFINE A == {[id |-> d, type |-> "create"] : d \in declared \ Live}
           B == {[id |-> d, type |-> IF Differs(d, config.body[d], server)
                                THEN "update" ELSE "noop"] : d \in declared \cap Live}
           D == {[id |-> l, type |-> "delete"] : l \in Live \ declared}
<1>3. Changes = Kept(A \cup B \cup D)
    BY DEF Changes
<1>4. c \in A \cup B \cup D /\ (c.type = "delete" => config.prune)
  <2> HIDE DEF A, B, D
  <2> QED  BY <1>3 DEF Kept
<1>5. c \notin A
    BY <1>1
<1>6. c \in B => c.type = "noop"
    BY <1>1
<1>7. c \notin D
    BY <1>1, <1>2, <1>4
<1> QED  BY <1>4, <1>5, <1>6, <1>7

\* A plan has a change of everything that is not settled, its other changes find
\* their resources settled, and those that have something to do find them ready.
LEMMA PlanLeads ==
    ASSUME RunsInv, DeclaredComesBack, KindsAgree, NoOrphans(server), Idle
    PROVE  /\ \A x \in ResourceID : Settled(config, server, x) \/ x \in IdsIn(Changes)
           /\ \A c \in Changes : Awaits(config, server, c)
<1>1. ASSUME NEW x \in ResourceID, ~Settled(config, server, x) PROVE x \in IdsIn(Changes)
  <2>1. \/ x \in declared \ Live
        \/ x \in declared \cap Live
        \/ x \in Live \ declared /\ config.prune
      BY <1>1, SettledIsFound
  <2>2. \E t : [id |-> x, type |-> t] \in Changes
      BY <2>1, ChangesHave
  <2> QED  BY <2>2 DEF IdsIn
<1>2. ASSUME NEW c \in Changes PROVE Awaits(config, server, c)
  <2>1. c \in Retaining(config) /\ c.id \in ResourceID
      BY ChangesRetain, ChangesArePlanned DEF RunsInv, Planned
  <2>2. c.type = "noop" => Settled(config, server, c.id)
    <3>1. SUFFICES ASSUME c.type = "noop" PROVE Settled(config, server, c.id)
        OBVIOUS
    <3> DEFINE A == {[id |-> d, type |-> "create"] : d \in declared \ Live}
               B == {[id |-> d, type |-> IF Differs(d, config.body[d], server)
                                    THEN "update" ELSE "noop"] : d \in declared \cap Live}
               D == {[id |-> l, type |-> "delete"] : l \in Live \ declared}
    <3>2. Changes = Kept(A \cup B \cup D)
        BY DEF Changes
    <3>3. c \in A \cup B \cup D
      <4> HIDE DEF A, B, D
      <4> QED  BY <3>2 DEF Kept
    <3>4. c \in B
        BY <3>1, <3>3
    <3>5. c.id \in declared \cap Live /\ ~Differs(c.id, config.body[c.id], server)
        BY <3>1, <3>4
    <3> QED  BY <2>1, <3>5, SettledIsFound
  <2>3. ASSUME c.type = "create", c.id.type = "grant"
        PROVE  server.held[<<c.id.acct, c.id.scope>>] = {}
    <3>1. c.id \in declared /\ c.id \notin Live
        BY <2>3, ChangeKinds
    <3>2. c.id \notin Discover(server)
        BY <3>1 DEF Live
    <3>3. Gone(server, c.id)
        BY <2>1, <3>2, FoundUnlessGone DEF RunsInv
    <3> QED  BY <2>3, <3>3 DEF Gone
  <2>4. ASSUME c.type = "update", c.id.type = "role"
        PROVE  IsRole(server.row[c.id.acct])
    <3>1. c.id \in Discover(server)
        BY <2>4, ChangesAreFound
    <3> QED  BY <2>1, <2>4, <3>1, Found
  <2> QED  BY <2>1, <2>2, <2>3, <2>4 DEF Awaits, Ready, Retaining
<1> QED  BY <1>1, <1>2

-----------------------------------------------------------------------------
(* What a statement leaves of the resources it is not about. *)

\* The row of an account after a statement.
RowAfter(sv, st, a) ==
    IF st.verb \notin {"CREATE USER", "ALTER USER", "CREATE ROLE", "DROP USER", "DROP ROLE"}
       \/ st.acct # a
    THEN sv.row[a]
    ELSE CASE st.verb = "CREATE USER" -> RowOf(st.clauses)
           [] st.verb = "ALTER USER" -> Altered(sv.row[a], st.clauses)
           [] st.verb = "CREATE ROLE" -> RoleRow
           [] st.verb \in {"DROP USER", "DROP ROLE"} -> NoRow

\* It is what the effect makes of it.
LEMMA RowsAfter ==
    ASSUME NEW sv \in Server, NEW st \in Statement, NEW a \in Account
    PROVE  Effect(sv, st).row[a] = RowAfter(sv, st, a)
<1>0. /\ sv = [row |-> sv.row, edges |-> sv.edges, held |-> sv.held, opt |-> sv.opt, schema |-> sv.schema]
      /\ sv.row \in [Account -> Row]
    BY DEF Server
<1>1. CASE st.verb \notin {"CREATE USER", "ALTER USER", "CREATE ROLE", "DROP USER", "DROP ROLE"}
           \/ st.acct # a
  <2>1. Effect(sv, st).row[a] = sv.row[a]
      BY <1>1, RowChanged
  <2> QED  BY <1>1, <2>1 DEF RowAfter
<1>2. CASE st.verb = "CREATE USER" /\ st.acct = a
  <2>1. Effect(sv, st) = [sv EXCEPT !.row[a] = RowOf(st.clauses)]
      BY <1>2 DEF Effect
  <2>2. Effect(sv, st).row = [sv.row EXCEPT ![a] = RowOf(st.clauses)]
      BY <1>0, <2>1
  <2> QED  BY <1>0, <1>2, <2>2 DEF RowAfter
<1>3. CASE st.verb = "ALTER USER" /\ st.acct = a
  <2>1. Effect(sv, st) = [sv EXCEPT !.row[a] = Altered(sv.row[a], st.clauses)]
      BY <1>3 DEF Effect
  <2>2. Effect(sv, st).row = [sv.row EXCEPT ![a] = Altered(sv.row[a], st.clauses)]
      BY <1>0, <2>1
  <2> QED  BY <1>0, <1>3, <2>2 DEF RowAfter
<1>4. CASE st.verb = "CREATE ROLE" /\ st.acct = a
  <2>1. Effect(sv, st) = [sv EXCEPT !.row[a] = RoleRow]
      BY <1>4 DEF Effect
  <2>2. Effect(sv, st).row = [sv.row EXCEPT ![a] = RoleRow]
      BY <1>0, <2>1
  <2> QED  BY <1>0, <1>4, <2>2 DEF RowAfter
<1>5. CASE st.verb \in {"DROP USER", "DROP ROLE"} /\ st.acct = a
  <2>1. Effect(sv, st) = Dropped(sv, a)
      BY <1>5 DEF Effect
  <2>2. Effect(sv, st).row = [sv.row EXCEPT ![a] = NoRow]
      BY <1>0, <2>1 DEF Dropped
  <2> QED  BY <1>0, <1>5, <2>2 DEF RowAfter
<1> QED  BY <1>1, <1>2, <1>3, <1>4, <1>5

\* What a statement leaves of the grants and the schemas, and what dropping an
\* account does to them.
LEMMA OptsAfter ==
    ASSUME NEW sv \in Server, NEW st \in Statement
    PROVE  LET after == Effect(sv, st)
               drops == st.verb \in {"DROP USER", "DROP ROLE"}
           IN  /\ \A p \in Account \X Scope : p \in sv.opt /\ p \notin after.opt =>
                     \/ st.verb = "REVOKE" /\ p = <<st.acct, st.scope>> /\ "ALL" \in st.privs
                     \/ drops /\ st.acct = p[1]
               /\ \A p \in Account \X Scope : p \notin sv.opt /\ p \in after.opt =>
                     st.verb = "GRANT" /\ p = <<st.acct, st.scope>> /\ st.opt
               /\ \A s \in Schema : after.schema[s] # sv.schema[s] =>
                     /\ st.verb \in {"CREATE SCHEMA", "ALTER SCHEMA", "DROP SCHEMA"}
                     /\ st.schema = s
               /\ drops =>
                     /\ \A p \in Account \X Scope : st.acct = p[1] =>
                           after.held[p] = {} /\ p \notin after.opt
                     /\ \A e \in after.edges : st.acct \notin {e[1], e[2]}
<1>0. /\ sv = [row |-> sv.row, edges |-> sv.edges, held |-> sv.held, opt |-> sv.opt, schema |-> sv.schema]
      /\ sv.schema \in [Schema -> Charset \cup {NoSchema}]
    BY DEF Server
<1>1. CASE st.verb \in {"CREATE USER", "ALTER USER", "CREATE ROLE"}
  <2>1. PICK row : Effect(sv, st) = [sv EXCEPT !.row[st.acct] = row]
      BY <1>1 DEF Effect
  <2>2. Effect(sv, st).opt = sv.opt /\ Effect(sv, st).schema = sv.schema
      BY <1>0, <2>1
  <2> QED  BY <1>1, <2>2
<1>2. CASE st.verb \in {"DROP USER", "DROP ROLE"}
  <2>1. Effect(sv, st) = Dropped(sv, st.acct)
      BY <1>2 DEF Effect
  <2>2. /\ Effect(sv, st).edges = {e \in sv.edges : st.acct \notin {e[1], e[2]}}
        /\ Effect(sv, st).held = [p \in Account \X Scope |-> IF p[1] = st.acct THEN {} ELSE sv.held[p]]
        /\ Effect(sv, st).opt = {p \in sv.opt : p[1] # st.acct}
        /\ Effect(sv, st).schema = sv.schema
      BY <1>0, <2>1 DEF Dropped
  <2> DEFINE after == Effect(sv, st)
  <2> HIDE DEF after
  <2>3. \A p \in Account \X Scope : st.acct = p[1] => after.held[p] = {}
      BY <2>2 DEF after
  <2>4. \A p : p \in after.opt <=> p \in sv.opt /\ p[1] # st.acct
      BY <2>2 DEF after
  <2>5. \A e \in after.edges : st.acct \notin {e[1], e[2]}
      BY <2>2 DEF after
  <2>6. after.schema = sv.schema
      BY <2>2 DEF after
  <2> QED  BY <1>2, <2>3, <2>4, <2>5, <2>6 DEF after
<1>3. CASE st.verb \in {"GRANT ROLE", "REVOKE ROLE"}
  <2>1. PICK edges : Effect(sv, st) = [sv EXCEPT !.edges = edges]
      BY <1>3 DEF Effect
  <2>2. Effect(sv, st).opt = sv.opt /\ Effect(sv, st).schema = sv.schema
      BY <1>0, <2>1
  <2> QED  BY <1>3, <2>2
<1>4. CASE st.verb = "GRANT"
  <2> DEFINE q == <<st.acct, st.scope>>
  <2>1. PICK held : Effect(sv, st) =
            [sv EXCEPT !.held[q] = held, !.opt = IF st.opt THEN sv.opt \cup {q} ELSE sv.opt]
      BY <1>4 DEF Effect
  <2>2. /\ Effect(sv, st).opt = IF st.opt THEN sv.opt \cup {q} ELSE sv.opt
        /\ Effect(sv, st).schema = sv.schema
      BY <1>0, <2>1
  <2> QED  BY <1>4, <2>2
<1>5. CASE st.verb = "REVOKE"
  <2> DEFINE q == <<st.acct, st.scope>>
  <2>1. PICK held : Effect(sv, st) =
            [sv EXCEPT !.held[q] = held, !.opt = IF "ALL" \in st.privs THEN sv.opt \ {q} ELSE sv.opt]
      BY <1>5 DEF Effect
  <2>2. /\ Effect(sv, st).opt = IF "ALL" \in st.privs THEN sv.opt \ {q} ELSE sv.opt
        /\ Effect(sv, st).schema = sv.schema
      BY <1>0, <2>1
  <2> QED  BY <1>5, <2>2
<1>6. CASE st.verb \in {"CREATE SCHEMA", "ALTER SCHEMA", "DROP SCHEMA"}
  <2>1. PICK set : Effect(sv, st) = [sv EXCEPT !.schema[st.schema] = set]
      BY <1>6 DEF Effect
  <2>2. Effect(sv, st).opt = sv.opt /\ Effect(sv, st).schema = [sv.schema EXCEPT ![st.schema] = set]
      BY <1>0, <2>1
  <2> QED  BY <1>0, <1>6, <2>2
<1> QED  BY <1>1, <1>2, <1>3, <1>4, <1>5, <1>6, StatementFacts

\* Statements leave nothing behind of accounts that do not exist.
LEMMA NoOrphansMade ==
    ASSUME NEW sv \in Server, NoOrphans(sv), NEW st \in Statement, Accepted(sv, st)
    PROVE  NoOrphans(Effect(sv, st))
<1> DEFINE after == Effect(sv, st)
<1> SUFFICES ASSUME NEW a \in Account, ~after.row[a].exists
             PROVE  /\ \A s \in Scope : after.held[<<a, s>>] = {} /\ <<a, s>> \notin after.opt
                    /\ \A g \in Account : <<g, a>> \notin after.edges /\ <<a, g>> \notin after.edges
    BY DEF NoOrphans
<1>1. after.row[a] = RowAfter(sv, st, a)
    BY RowsAfter
<1>2. CASE st.verb \in {"DROP USER", "DROP ROLE"} /\ st.acct = a
  <2>1. /\ \A p \in Account \X Scope : st.acct = p[1] => after.held[p] = {} /\ p \notin after.opt
        /\ \A e \in after.edges : st.acct \notin {e[1], e[2]}
      BY <1>2, OptsAfter
  <2> HIDE DEF after
  <2>2. \A g \in Account : <<g, a>>[2] = a /\ <<a, g>>[1] = a
      OBVIOUS
  <2>3. \A s \in Scope : <<a, s>> \in Account \X Scope /\ <<a, s>>[1] = a
      OBVIOUS
  <2>4. \A s \in Scope : after.held[<<a, s>>] = {} /\ <<a, s>> \notin after.opt
      BY <1>2, <2>1, <2>3
  <2>5. \A g \in Account : <<g, a>> \notin after.edges /\ <<a, g>> \notin after.edges
      BY <1>2, <2>1, <2>2
  <2> QED  BY <2>4, <2>5
<1>3. CASE ~(st.verb \in {"DROP USER", "DROP ROLE"} /\ st.acct = a)
  <2>1. ~sv.row[a].exists
    <3>1. \A row \in Row : \A cl : Altered(row, cl).exists = row.exists
        BY DEF Altered, Row
    <3>2. RoleRow.exists /\ \A cl : RowOf(cl).exists
        BY DEF RoleRow, NoRow, RowOf
    <3>3. sv.row[a] \in Row
        BY Tables
    <3> HIDE DEF after
    <3>4. CASE st.verb = "ALTER USER" /\ st.acct = a
      <4>1. after.row[a] = Altered(sv.row[a], st.clauses)
          BY <1>1, <3>4 DEF RowAfter
      <4>2. Altered(sv.row[a], st.clauses).exists = sv.row[a].exists
          BY <3>1, <3>3, Zenon
      <4> QED  BY <4>1, <4>2
    <3>5. CASE st.verb \in {"CREATE USER", "CREATE ROLE"} /\ st.acct = a
      <4>1. after.row[a] \in {RowOf(st.clauses), RoleRow}
          BY <1>1, <3>5 DEF RowAfter
      <4> QED  BY <3>2, <4>1
    <3>6. CASE ~(st.verb \in {"CREATE USER", "ALTER USER", "CREATE ROLE"} /\ st.acct = a)
      <4>1. after.row[a] = sv.row[a]
          BY <1>1, <1>3, <3>6 DEF RowAfter
      <4> QED  BY <4>1
    <3> QED  BY <3>4, <3>5, <3>6
  <2>2. /\ \A s \in Scope : sv.held[<<a, s>>] = {} /\ <<a, s>> \notin sv.opt
        /\ \A g \in Account : <<g, a>> \notin sv.edges /\ <<a, g>> \notin sv.edges
      BY <2>1 DEF NoOrphans
  <2>3. ~(st.verb = "GRANT" /\ st.acct = a)
      BY <2>1 DEF Accepted
  <2>4. ~(st.verb = "GRANT ROLE" /\ a \in {st.acct, st.role})
      BY <2>1 DEF Accepted
  <2>5. \A p \in Account \X Scope : \A x : x \notin sv.held[p] /\ x \in after.held[p] =>
            st.verb = "GRANT" /\ p = <<st.acct, st.scope>>
      BY HeldGiven
  <2>6. \A p \in Account \X Scope : p \notin sv.opt /\ p \in after.opt =>
            st.verb = "GRANT" /\ p = <<st.acct, st.scope>>
      BY OptsAfter
  <2>7. \A e \in after.edges \ sv.edges : st.verb = "GRANT ROLE" /\ e = <<st.role, st.acct>>
      BY EffectFacts, Zenon
  <2> HIDE DEF after
  <2>8. ASSUME NEW s \in Scope PROVE after.held[<<a, s>>] = {} /\ <<a, s>> \notin after.opt
    <3>1. <<a, s>> \in Account \X Scope /\ (<<a, s>> # <<st.acct, st.scope>> \/ st.verb # "GRANT")
        BY <2>3
    <3>2. <<a, s>> \in Account \X Scope
        OBVIOUS
    <3>3. \A x : x \notin after.held[<<a, s>>]
        BY <2>2, <2>5, <3>1, <3>2
    <3> QED  BY <2>2, <2>6, <3>1, <3>2, <3>3
  <2>9. ASSUME NEW g \in Account PROVE <<g, a>> \notin after.edges /\ <<a, g>> \notin after.edges
    <3>1. st.verb = "GRANT ROLE" => <<g, a>> # <<st.role, st.acct>> /\ <<a, g>> # <<st.role, st.acct>>
        BY <2>4
    <3> QED  BY <2>2, <2>7, <3>1
  <2> QED  BY <2>8, <2>9
<1> QED  BY <1>2, <1>3

\* What a statement about another resource leaves: all of what is declared, and it
\* does not bring back what is gone.
Untouched(cfg, sv, after, x) ==
    IF x \in DOMAIN cfg.body
    THEN /\ x.type \in {"user", "role"} => after.row[x.acct] = sv.row[x.acct]
         /\ x.type = "role" => \A g \in Account :
               /\ <<g, x.acct>> \in after.edges => <<g, x.acct>> \in sv.edges
               /\ g \in cfg.body[x].granted /\ <<g, x.acct>> \in sv.edges => <<g, x.acct>> \in after.edges
         /\ x.type = "grant" =>
               /\ sv.row[x.acct].exists => after.row[x.acct].exists
               /\ after.held[<<x.acct, x.scope>>] = sv.held[<<x.acct, x.scope>>]
               /\ <<x.acct, x.scope>> \in after.opt <=> <<x.acct, x.scope>> \in sv.opt
         /\ x.type = "database" => after.schema[x.scope] = sv.schema[x.scope]
    ELSE Gone(sv, x) => Gone(after, x)

\* SelfContained, of any declarations.
Contains(cfg) ==
    \A id \in DOMAIN cfg.body :
        /\ id.type = "grant" => {UserId(id.acct), RoleId(id.acct)} \cap DOMAIN cfg.body # {}
        /\ id.type = "role" => \A g \in cfg.body[id].granted : RoleId(g) \in DOMAIN cfg.body

\* A statement of a run leaves the other resources alone.
LEMMA LeavesOthers ==
    ASSUME NEW cfg \in Configs, NEW sv \in Server, NEW id \in ResourceID, NEW op,
           NEW st \in StatementsFor(id, op),
           IF op = "delete" THEN id \notin DOMAIN cfg.body /\ Retains(cfg, id) /\ Contains(cfg)
           ELSE id \in DOMAIN cfg.body,
           NEW x \in ResourceID, x # id
    PROVE  Untouched(cfg, sv, Effect(sv, st), x)
<1> DEFINE after == Effect(sv, st)
           drops == st.verb \in {"DROP USER", "DROP ROLE"}
<1> SUFFICES Untouched(cfg, sv, after, x)
    OBVIOUS
<1>1. st \in Statement /\ About(id, op, st) /\ ValidConfig(cfg)
    BY ConfigsAssumption DEF StatementsFor
<1>2. \A a \in Account : after.row[a] = RowAfter(sv, st, a)
    BY <1>1, RowsAfter
<1>3. /\ \A p \in Account \X Scope : p \in sv.opt /\ p \notin after.opt =>
            \/ st.verb = "REVOKE" /\ p = <<st.acct, st.scope>> /\ "ALL" \in st.privs
            \/ drops /\ st.acct = p[1]
      /\ \A p \in Account \X Scope : p \notin sv.opt /\ p \in after.opt =>
            st.verb = "GRANT" /\ p = <<st.acct, st.scope>> /\ st.opt
      /\ \A s \in Schema : after.schema[s] # sv.schema[s] =>
            /\ st.verb \in {"CREATE SCHEMA", "ALTER SCHEMA", "DROP SCHEMA"}
            /\ st.schema = s
      /\ drops =>
            /\ \A p \in Account \X Scope : st.acct = p[1] =>
                  after.held[p] = {} /\ p \notin after.opt
            /\ \A e \in after.edges : st.acct \notin {e[1], e[2]}
    BY <1>1, OptsAfter
<1>4. /\ \A p \in Account \X Scope : \A y : y \in sv.held[p] /\ y \notin after.held[p] =>
            \/ st.verb = "REVOKE" /\ p = <<st.acct, st.scope>> /\ y \in Meant(st.privs)
            \/ drops /\ st.acct = p[1]
      /\ \A p \in Account \X Scope : \A y : y \notin sv.held[p] /\ y \in after.held[p] =>
            st.verb = "GRANT" /\ p = <<st.acct, st.scope>>
      /\ \A e \in sv.edges \ after.edges :
            \/ st.verb = "REVOKE ROLE" /\ e = <<st.role, st.acct>>
            \/ drops /\ st.acct \in {e[1], e[2]}
      /\ \A e \in after.edges \ sv.edges :
            st.verb = "GRANT ROLE" /\ e = <<st.role, st.acct>>
    BY <1>1, EffectFacts
<1> HIDE DEF after
<1>5. id.type \in {"user", "role", "grant", "database"} /\ x.type \in {"user", "role", "grant", "database"}
    BY IdFacts
<1>6. ASSUME drops
      PROVE  /\ id \in {UserId(st.acct), RoleId(st.acct)} /\ st.acct \in Account
             /\ {UserId(st.acct), RoleId(st.acct)} \cap DOMAIN cfg.body = {}
             /\ \A s : GrantId(st.acct, s) \notin DOMAIN cfg.body
             /\ Contains(cfg)
  <2>1. op = "delete" /\ id.type \in {"user", "role"} /\ st.acct = id.acct
      BY <1>1, <1>5, <1>6 DEF About, Dropping
  <2>2. id \in {UserId(st.acct), RoleId(st.acct)} /\ st.acct \in Account
      BY <2>1, IdFacts
  <2>3. {UserId(st.acct), RoleId(st.acct)} \cap DOMAIN cfg.body = {}
      BY <2>1, <2>2 DEF Retains
  <2>4. Contains(cfg)
      BY <2>1
  <2> QED  BY <2>2, <2>3, <2>4 DEF Contains, GrantId
<1>7. ASSUME x.type = "grant"
      PROVE  /\ x.acct \in Account /\ x.scope \in Scope /\ x = GrantId(x.acct, x.scope)
             /\ st.verb \in {"GRANT", "REVOKE"} => <<x.acct, x.scope>> # <<st.acct, st.scope>>
  <2>1. x.acct \in Account /\ x.scope \in Scope /\ x = GrantId(x.acct, x.scope)
      BY <1>7, IdFacts
  <2>2. ASSUME st.verb \in {"GRANT", "REVOKE"} PROVE id = GrantId(st.acct, st.scope)
    <3>1. id.type = "grant" /\ st.acct = id.acct /\ st.scope = id.scope
        BY <1>1, <1>5, <2>2 DEF About
    <3> QED  BY <3>1, IdFacts
  <2> QED  BY <2>1, <2>2
<1>8. CASE x.type = "user" /\ x \in DOMAIN cfg.body
  <2>1. x.acct \in Account /\ x = UserId(x.acct)
      BY <1>8, IdFacts
  <2>2. after.row[x.acct] = sv.row[x.acct]
    <3>1. SUFFICES ASSUME after.row[x.acct] # sv.row[x.acct] PROVE FALSE
        OBVIOUS
    <3>2. /\ st.verb \in {"CREATE USER", "ALTER USER", "CREATE ROLE", "DROP USER", "DROP ROLE"}
          /\ st.acct = x.acct
        BY <1>2, <2>1, <3>1 DEF RowAfter
    <3>3. ~drops
        BY <1>6, <1>8, <2>1, <3>2
    <3>4. id.type \in {"user", "role"} /\ id.acct = x.acct
        BY <1>1, <1>5, <3>2 DEF About
    <3>5. id = RoleId(x.acct)
        BY <2>1, <3>4, IdFacts
    <3>6. op # "delete"
        BY <1>1, <1>8, <2>1, <3>5 DEF Retains
    <3> QED  BY <1>1, <1>8, <2>1, <3>5, <3>6 DEF ValidConfig
  <2> QED  BY <1>8, <2>2 DEF Untouched
<1>9. CASE x.type = "role" /\ x \in DOMAIN cfg.body
  <2>1. x.acct \in Account /\ x = RoleId(x.acct)
      BY <1>9, IdFacts
  <2>2. after.row[x.acct] = sv.row[x.acct]
    <3>1. SUFFICES ASSUME after.row[x.acct] # sv.row[x.acct] PROVE FALSE
        OBVIOUS
    <3>2. /\ st.verb \in {"CREATE USER", "ALTER USER", "CREATE ROLE", "DROP USER", "DROP ROLE"}
          /\ st.acct = x.acct
        BY <1>2, <2>1, <3>1 DEF RowAfter
    <3>3. id.type \in {"user", "role"} /\ id.acct = x.acct
        BY <1>1, <1>5, <3>2 DEF About
    <3>4. id = UserId(x.acct)
        BY <2>1, <3>3, IdFacts
    <3>5. op # "delete"
        BY <1>1, <1>9, <2>1, <3>4 DEF Retains
    <3> QED  BY <1>1, <1>9, <2>1, <3>4, <3>5 DEF ValidConfig
  <2>3. ASSUME NEW g \in Account
        PROVE  /\ <<g, x.acct>> \in after.edges => <<g, x.acct>> \in sv.edges
               /\ g \in cfg.body[x].granted /\ <<g, x.acct>> \in sv.edges => <<g, x.acct>> \in after.edges
    <3>1. st.verb \in {"GRANT ROLE", "REVOKE ROLE"} => st.acct # x.acct
      <4>1. SUFFICES ASSUME st.verb \in {"GRANT ROLE", "REVOKE ROLE"}, st.acct = x.acct PROVE FALSE
          OBVIOUS
      <4>2. id.type = "role" /\ id.acct = x.acct
          BY <1>1, <1>5, <4>1 DEF About
      <4> QED  BY <2>1, <4>2, IdFacts
    <3>2. ASSUME g \in cfg.body[x].granted, drops PROVE RoleId(g) \in DOMAIN cfg.body
        BY <1>6, <1>9, <3>2 DEF Contains
    <3>3. drops => st.acct # x.acct /\ RoleId(st.acct) \notin DOMAIN cfg.body
        BY <1>6, <1>9, <2>1
    <3> DEFINE e == <<g, x.acct>>
    <3>4. /\ e \in sv.edges /\ e \notin after.edges =>
                \/ st.verb = "REVOKE ROLE" /\ e = <<st.role, st.acct>>
                \/ drops /\ st.acct \in {e[1], e[2]}
          /\ e \notin sv.edges /\ e \in after.edges =>
                st.verb = "GRANT ROLE" /\ e = <<st.role, st.acct>>
      <4> HIDE DEF e
      <4> QED  BY <1>4
    <3>5. e[1] = g /\ e[2] = x.acct /\ (e = <<st.role, st.acct>> => st.acct = x.acct)
        OBVIOUS
    <3> HIDE DEF e
    <3>6. e \in after.edges => e \in sv.edges
        BY <3>1, <3>4, <3>5
    <3>7. g \in cfg.body[x].granted /\ e \in sv.edges => e \in after.edges
        BY <3>1, <3>2, <3>3, <3>4, <3>5
    <3> QED  BY <3>6, <3>7 DEF e
  <2> QED  BY <1>9, <2>2, <2>3 DEF Untouched
<1>10. CASE x.type = "grant" /\ x \in DOMAIN cfg.body
  <2> DEFINE p == <<x.acct, x.scope>>
  <2>1. x.acct \in Account /\ p \in Account \X Scope /\ p[1] = x.acct
        /\ (st.verb \in {"GRANT", "REVOKE"} => p # <<st.acct, st.scope>>)
      BY <1>7, <1>10
  <2>2. drops => st.acct # p[1]
      BY <1>6, <1>7, <1>10, <2>1
  <2> HIDE DEF p
  <2>3. after.held[p] = sv.held[p]
    <3>1. \A y : y \in after.held[p] <=> y \in sv.held[p]
        BY <1>4, <2>1, <2>2
    <3>2. sv.held[p] \subseteq Priv
        BY <2>1 DEF Server
    <3>3. \A h : (\A y : y \in h <=> y \in sv.held[p]) => h = sv.held[p]
        OBVIOUS
    <3> QED  BY <3>1, <3>3
  <2>4. p \in after.opt <=> p \in sv.opt
      BY <1>3, <2>1, <2>2
  <2>5. ASSUME sv.row[x.acct].exists PROVE after.row[x.acct].exists
    <3>1. sv.row[x.acct] \in Row
        BY <2>1, Tables
    <3>2. \A row \in Row : \A cl : Altered(row, cl).exists = row.exists
        BY DEF Altered, Row
    <3>3. RoleRow.exists /\ \A cl : RowOf(cl).exists
        BY DEF RoleRow, NoRow, RowOf
    <3>4. after.row[x.acct] \in {sv.row[x.acct], RowOf(st.clauses), Altered(sv.row[x.acct], st.clauses), RoleRow}
        BY <1>2, <2>1, <2>2 DEF RowAfter
    <3> QED  BY <2>5, <3>1, <3>2, <3>3, <3>4
  <2> QED  BY <1>10, <2>3, <2>4, <2>5 DEF Untouched, p
<1>11. CASE x.type = "database"
  <2>1. x.scope \in Schema /\ x = DatabaseId(x.scope)
      BY <1>11, IdFacts
  <2>2. after.schema[x.scope] = sv.schema[x.scope]
    <3>1. SUFFICES ASSUME after.schema[x.scope] # sv.schema[x.scope] PROVE FALSE
        OBVIOUS
    <3>2. /\ st.verb \in {"CREATE SCHEMA", "ALTER SCHEMA", "DROP SCHEMA"}
          /\ st.schema = x.scope
        BY <1>3, <2>1, <3>1
    <3>3. id.type = "database" /\ id.scope = x.scope
        BY <1>1, <1>5, <3>2 DEF About
    <3> QED  BY <2>1, <3>3, IdFacts
  <2> QED  BY <1>11, <2>2 DEF Untouched, Gone
<1>12. CASE x.type \in {"user", "role"} /\ x \notin DOMAIN cfg.body
  <2>1. x.acct \in Account
      BY <1>12, IdFacts
  <2>2. SUFFICES ASSUME Gone(sv, x), ~Gone(after, x) PROVE FALSE
      BY <1>12 DEF Untouched
  <2>3. /\ st.verb \in {"CREATE USER", "ALTER USER", "CREATE ROLE", "DROP USER", "DROP ROLE"}
        /\ st.acct = x.acct
      BY <1>2, <1>12, <2>1, <2>2 DEF RowAfter, Gone
  <2>4. id.type \in {"user", "role"} /\ id.acct = x.acct
      BY <1>1, <1>5, <2>3 DEF About
  <2>5. ~drops
    <3>1. SUFFICES ASSUME drops PROVE FALSE
        OBVIOUS
    <3>2. after.row[x.acct] = NoRow
        BY <1>2, <2>1, <2>3, <3>1 DEF RowAfter
    <3> QED  BY <1>12, <2>2, <3>2 DEF Gone, IsUser, IsRole, NoRow
  <2>6. CASE x.type = "user"
    <3>1. x = UserId(x.acct)
        BY <2>6, IdFacts
    <3>2. id.type = "role"
        BY <2>4, <3>1, IdFacts
    <3>3. st.verb = "CREATE ROLE"
        BY <1>1, <2>3, <2>5, <3>2 DEF About
    <3>4. after.row[x.acct] = RoleRow
        BY <1>2, <2>1, <2>3, <3>3 DEF RowAfter
    <3> QED  BY <2>2, <2>6, <3>4 DEF Gone, IsUser, IsRole, RoleRow, NoRow
  <2>7. CASE x.type = "role"
    <3>1. x = RoleId(x.acct)
        BY <2>7, IdFacts
    <3>2. id.type = "user"
        BY <2>4, <3>1, IdFacts
    <3>3. st.verb \in {"CREATE USER", "ALTER USER"} /\ st.clauses.auth # Empty
        BY <1>1, <2>3, <2>5, <3>2 DEF About
    <3>4. after.row[x.acct] \in {RowOf(st.clauses), Altered(sv.row[x.acct], st.clauses)}
        BY <1>2, <2>1, <2>3, <3>3 DEF RowAfter
    <3>5. after.row[x.acct].auth = st.clauses.auth
      <4>1. \A row \in Row : \A cl : Altered(row, cl).auth = cl.auth
          BY DEF Altered, Row
      <4>2. \A cl : RowOf(cl).auth = cl.auth
          BY DEF RowOf
      <4>3. sv.row[x.acct] \in Row
          BY <2>1, Tables
      <4> QED  BY <3>4, <4>1, <4>2, <4>3
    <3> QED  BY <2>2, <2>7, <3>3, <3>5 DEF Gone, IsRole
  <2> QED  BY <1>12, <2>6, <2>7
<1>13. CASE x.type = "grant" /\ x \notin DOMAIN cfg.body
  <2> DEFINE p == <<x.acct, x.scope>>
  <2>1. p \in Account \X Scope /\ (st.verb \in {"GRANT", "REVOKE"} => p # <<st.acct, st.scope>>)
      BY <1>7, <1>13
  <2>2. Gone(sv, x) => sv.held[p] = {} /\ p \notin sv.opt
      BY <1>13 DEF Gone
  <2> HIDE DEF p
  <2>3. ASSUME Gone(sv, x) PROVE after.held[p] = {} /\ p \notin after.opt
    <3>1. \A y : y \notin after.held[p]
        BY <1>4, <2>1, <2>2, <2>3
    <3> QED  BY <1>3, <2>1, <2>2, <2>3, <3>1
  <2>4. Gone(sv, x) => Gone(after, x)
      BY <1>13, <2>3 DEF Gone, p
  <2> QED  BY <1>13, <2>4 DEF Untouched
<1> QED  BY <1>5, <1>8, <1>9, <1>10, <1>11, <1>12, <1>13

\* What is settled stays settled.
LEMMA SettledStays ==
    ASSUME NEW cfg, NEW sv, NEW after, NEW x \in ResourceID,
           Untouched(cfg, sv, after, x), Settled(cfg, sv, x)
    PROVE  Settled(cfg, after, x)
<1>1. CASE x \in DOMAIN cfg.body
    BY <1>1 DEF Untouched, Settled, AsDeclared
<1>2. CASE x \notin DOMAIN cfg.body
    BY <1>2 DEF Untouched, Settled
<1> QED  BY <1>1, <1>2

\* What is ready stays ready.
LEMMA ReadyStays ==
    ASSUME NEW cfg, NEW sv, NEW after, NEW x \in ResourceID, NEW op,
           Untouched(cfg, sv, after, x), op \in {"create", "update"} => x \in DOMAIN cfg.body,
           Ready(cfg, sv, x, op)
    PROVE  Ready(cfg, after, x, op)
BY DEF Untouched, Ready

\* A change that is not started yet is not disturbed.
LEMMA AwaitsStays ==
    ASSUME NEW cfg, NEW sv, NEW after, NEW c, c.id \in ResourceID,
           Untouched(cfg, sv, after, c.id), c.type \in {"create", "update"} => c.id \in DOMAIN cfg.body,
           Awaits(cfg, sv, c)
    PROVE  Awaits(cfg, after, c)
BY SettledStays, ReadyStays DEF Awaits

\* The scripts that do not depend on what the handler reads.
LEMMA SameScript ==
    ASSUME NEW sv, NEW after, NEW id \in ResourceID, NEW op, NEW body
    PROVE  /\ id.type \in {"user", "database"} =>
                 Script(op, id, body, after) = Script(op, id, body, sv)
           /\ id.type = "role" =>
                 RoleScript("create", id, body, after) = RoleScript("create", id, body, sv)
           /\ Script("delete", id, body, after) = Script("delete", id, body, sv)
<1>1. RoleScript("create", id, body, after) = RoleScript("create", id, body, sv)
    BY DEF RoleScript
<1>2. RoleScript("delete", id, body, after) = RoleScript("delete", id, body, sv)
    BY DEF RoleScript
<1>3. GrantScript("delete", id, body, after) = GrantScript("delete", id, body, sv)
    BY DEF GrantScript
<1> QED  BY <1>1, <1>2, <1>3, IdFacts DEF Script

\* The edges that are still to be granted and revoked.
LEMMA EdgesLeftStays ==
    ASSUME NEW cfg \in Configs, NEW sv, NEW after, NEW x \in DOMAIN cfg.body, x \in ResourceID,
           x.type = "role", Untouched(cfg, sv, after, x), NEW script,
           EdgesLeft(cfg.body[x], sv, x, script)
    PROVE  EdgesLeft(cfg.body[x], after, x, script)
<1> DEFINE body == cfg.body[x]
<1>1. body.granted \subseteq Account
    BY ConfigsAssumption DEF ValidConfig, ValidBodies
<1> HIDE DEF body
<1>2. /\ after.row[x.acct] = sv.row[x.acct]
      /\ \A g \in Account :
            /\ <<g, x.acct>> \in after.edges => <<g, x.acct>> \in sv.edges
            /\ g \in body.granted /\ <<g, x.acct>> \in sv.edges => <<g, x.acct>> \in after.edges
    BY DEF Untouched, body
<1>3. EdgesLeft(body, sv, x, script)
    BY DEF body
<1>4. \A g \in body.granted :
          \/ <<g, x.acct>> \in after.edges
          \/ \E i \in DOMAIN script : script[i].verb = "GRANT ROLE" /\ script[i].role = g
    BY <1>1, <1>2, <1>3 DEF EdgesLeft
<1>5. \A g \in Account \ body.granted :
          \/ <<g, x.acct>> \notin after.edges
          \/ \E i \in DOMAIN script : script[i].verb = "REVOKE ROLE" /\ script[i].role = g
    BY <1>2, <1>3 DEF EdgesLeft
<1>6. /\ IsRole(after.row[x.acct])
      /\ \A i \in DOMAIN script :
            \/ script[i].verb = "GRANT ROLE" /\ script[i].role \in body.granted
            \/ script[i].verb = "REVOKE ROLE" /\ script[i].role \notin body.granted
    BY <1>2, <1>3 DEF EdgesLeft
<1>7. EdgesLeft(body, after, x, script)
    BY <1>4, <1>5, <1>6 DEF EdgesLeft
<1> QED  BY <1>7 DEF body

\* The privileges that are.
LEMMA GrantsLeftStays ==
    ASSUME NEW cfg, NEW sv, NEW after, NEW x \in DOMAIN cfg.body,
           x.type = "grant", Untouched(cfg, sv, after, x), NEW script,
           GrantsLeft(cfg.body[x], sv, x, script)
    PROVE  GrantsLeft(cfg.body[x], after, x, script)
<1> DEFINE p == <<x.acct, x.scope>>
<1>1. /\ sv.row[x.acct].exists => after.row[x.acct].exists
      /\ after.held[p] = sv.held[p]
      /\ p \in after.opt <=> p \in sv.opt
    BY DEF Untouched
<1> QED  BY <1>1 DEF GrantsLeft

\* A script that leads to what is declared still does.
LEMMA LeadsStays ==
    ASSUME NEW cfg \in Configs, NEW sv, NEW after, NEW x \in ResourceID, NEW op,
           op # "delete" => x \in DOMAIN cfg.body,
           Untouched(cfg, sv, after, x), NEW script, Leads(cfg, sv, x, op, script)
    PROVE  Leads(cfg, after, x, op, script)
<1>1. Settled(cfg, sv, x) => Settled(cfg, after, x)
    BY SettledStays
<1>2. CASE op = "delete"
  <2>1. Script(op, x, <<>>, after) = Script(op, x, <<>>, sv)
      BY <1>2, SameScript
  <2> QED  BY <1>1, <1>2, <2>1 DEF Leads, OneLeft
<1>3. CASE op # "delete"
  <2> DEFINE body == cfg.body[x]
  <2>1. x.type \in {"user", "database"} => Script(op, x, body, after) = Script(op, x, body, sv)
      BY SameScript
  <2>2. x.type = "role" => RoleScript("create", x, body, after) = RoleScript("create", x, body, sv)
      BY SameScript
  <2>3. x.type = "role" /\ EdgesLeft(body, sv, x, script) => EdgesLeft(body, after, x, script)
      BY <1>3, EdgesLeftStays
  <2>4. x.type = "grant" /\ GrantsLeft(body, sv, x, script) => GrantsLeft(body, after, x, script)
      BY <1>3, GrantsLeftStays
  <2>5. /\ x.type \in {"user", "database"} => OneLeft(cfg, sv, x, Script(op, x, body, sv), script)
        /\ x.type = "role" => \/ op = "create" /\ script = RoleScript(op, x, body, sv)
                              \/ EdgesLeft(body, sv, x, script)
        /\ x.type = "grant" => GrantsLeft(body, sv, x, script)
      BY <1>3 DEF Leads
  <2> HIDE DEF body
  <2>6. /\ x.type \in {"user", "database"} => OneLeft(cfg, after, x, Script(op, x, body, after), script)
        /\ x.type = "role" => \/ op = "create" /\ script = RoleScript(op, x, body, after)
                              \/ EdgesLeft(body, after, x, script)
        /\ x.type = "grant" => GrantsLeft(body, after, x, script)
      BY <1>1, <2>1, <2>2, <2>3, <2>4, <2>5 DEF OneLeft
  <2> QED  BY <1>3, <2>6 DEF Leads, body
<1> QED  BY <1>2, <1>3

\* A goroutine is not disturbed by the statements of another.
LEMMA OnItsWayStays ==
    ASSUME NEW cfg \in Configs, NEW sv, NEW after, NEW x \in ResourceID, NEW w,
           w.op # "delete" => x \in DOMAIN cfg.body,
           Untouched(cfg, sv, after, x), OnItsWay(cfg, sv, x, w)
    PROVE  OnItsWay(cfg, after, x, w)
BY SettledStays, ReadyStays, LeadsStays DEF OnItsWay

\* Nor is what cannot be reset.
LEMMA ResettableStays ==
    ASSUME NEW cfg, NEW sv, NEW after, NEW x \in DOMAIN cfg.body,
           Untouched(cfg, sv, after, x), Resettable(cfg.body[x], sv, x)
    PROVE  Resettable(cfg.body[x], after, x)
BY DEF Untouched, Resettable

-----------------------------------------------------------------------------
(* What a statement does for its own resource. *)

\* The one statement of a user's script makes the account what is declared.
LEMMA OwnUser ==
    ASSUME NEW sv \in Server, NEW id \in ResourceID, id.type = "user", NEW op \in {"create", "update"},
           NEW body \in ValidBodies("user"), ComesBack(id, body), Resettable(body, sv, id),
           NEW st, Script(op, id, body, sv) = <<st>>, Accepted(sv, st), st \in Statement
    PROVE  /\ AsDeclared(body, Effect(sv, st), id)
           /\ Resettable(body, Effect(sv, st), id)
<1>1. id.acct \in Account /\ sv.row[id.acct] \in Row
    BY IdFacts, Tables
<1>2. body \in Clauses /\ body.comment = "none"
    BY DEF ValidBodies, ComesBack
<1> DEFINE row == Effect(sv, st).row[id.acct]
           old == sv.row[id.acct]
<1>3. row = RowAfter(sv, st, id.acct)
    BY <1>1, RowsAfter
<1>4. row = RowOf(body)
  <2>1. CASE op = "create"
    <3>1. st = [verb |-> "CREATE USER", acct |-> id.acct, clauses |-> body]
        BY <2>1 DEF Script, UserScript
    <3> QED  BY <1>3, <3>1 DEF RowAfter
  <2>2. CASE op = "update"
    <3>1. st = [verb |-> "ALTER USER", acct |-> id.acct, clauses |-> body]
        BY <2>2 DEF Script, UserScript
    <3>2. row = Altered(old, body) /\ old.exists
      <4>1. st.verb = "ALTER USER" /\ st.acct = id.acct /\ st.clauses = body
          BY <3>1
      <4> QED  BY <1>3, <4>1 DEF RowAfter, Accepted
    <3>3. /\ old.locked => body.locked
          /\ body.limit = 0 => old.limit = 0
          /\ old.attribute = "none"
        BY <3>2 DEF Resettable
    <3>4. old = [exists |-> old.exists, locked |-> old.locked, auth |-> old.auth, limit |-> old.limit,
                 attribute |-> old.attribute] /\ old.exists = TRUE /\ body.locked \in BOOLEAN
          /\ old.locked \in BOOLEAN
        BY <1>1, <1>2, <3>2 DEF Row, Clauses
    <3> HIDE DEF old
    <3>5. Altered(old, body) = [exists |-> old.exists, locked |-> old.locked \/ body.locked,
                                auth |-> body.auth,
                                limit |-> IF body.limit = 0 THEN old.limit ELSE body.limit,
                                attribute |-> IF body.comment = "none" THEN old.attribute
                                              ELSE body.comment]
      <4> DEFINE r1 == [old EXCEPT !.auth = body.auth]
                 r2 == [r1 EXCEPT !.locked = old.locked \/ body.locked]
                 r3 == [r2 EXCEPT !.limit = IF body.limit = 0 THEN old.limit ELSE body.limit]
                 r4 == [r3 EXCEPT !.attribute = IF body.comment = "none" THEN old.attribute
                                                ELSE body.comment]
      <4>1. r1 = [exists |-> old.exists, locked |-> old.locked, auth |-> body.auth,
                  limit |-> old.limit, attribute |-> old.attribute]
          BY <3>4
      <4> HIDE DEF r1
      <4>2. r2 = [exists |-> old.exists, locked |-> old.locked \/ body.locked, auth |-> body.auth,
                  limit |-> old.limit, attribute |-> old.attribute]
          BY <4>1
      <4> HIDE DEF r2
      <4>3. r3 = [exists |-> old.exists, locked |-> old.locked \/ body.locked, auth |-> body.auth,
                  limit |-> IF body.limit = 0 THEN old.limit ELSE body.limit,
                  attribute |-> old.attribute]
          BY <4>2
      <4> HIDE DEF r3
      <4>4. r4 = [exists |-> old.exists, locked |-> old.locked \/ body.locked, auth |-> body.auth,
                  limit |-> IF body.limit = 0 THEN old.limit ELSE body.limit,
                  attribute |-> IF body.comment = "none" THEN old.attribute ELSE body.comment]
          BY <4>3
      <4>5. Altered(old, body) = r4
          BY Zenon DEF Altered, r1, r2, r3, r4
      <4> HIDE DEF r4
      <4> QED  BY <4>4, <4>5
    <3>6. (old.locked \/ body.locked) = body.locked
        BY <3>3, <3>4
    <3> QED  BY <1>2, <3>2, <3>3, <3>4, <3>5, <3>6 DEF RowOf
  <2> QED  BY <2>1, <2>2
<1> HIDE DEF row
<1>5. AsDeclared(body, Effect(sv, st), id)
    BY <1>4 DEF AsDeclared, row
<1>6. Resettable(body, Effect(sv, st), id)
    BY <1>2, <1>4 DEF Resettable, RowOf, row
<1> QED  BY <1>5, <1>6

\* The one statement of a database's script makes the schema what is declared.
LEMMA OwnDatabase ==
    ASSUME NEW sv \in Server, NEW id \in ResourceID, id.type = "database",
           NEW op \in {"create", "update"}, NEW body, ComesBack(id, body),
           NEW st, Script(op, id, body, sv) = <<st>>
    PROVE  AsDeclared(body, Effect(sv, st), id)
<1>1. id.scope \in Schema /\ sv.schema \in [Schema -> Charset \cup {NoSchema}]
    BY IdFacts DEF Server
<1>2. /\ st = [verb |-> IF op = "create" THEN "CREATE SCHEMA" ELSE "ALTER SCHEMA",
               schema |-> id.scope, charset |-> body.charset]
      /\ body.charset # "unset"
    BY DEF Script, DatabaseScript, ComesBack
<1>3. st.verb \in {"CREATE SCHEMA", "ALTER SCHEMA"} /\ st.schema = id.scope /\ st.charset = body.charset
    BY <1>2
<1>4. Effect(sv, st) = [sv EXCEPT !.schema[id.scope] = body.charset]
    BY <1>2, <1>3 DEF Effect
<1>5. Effect(sv, st).schema = [sv.schema EXCEPT ![id.scope] = body.charset]
  <2>1. sv = [row |-> sv.row, edges |-> sv.edges, held |-> sv.held, opt |-> sv.opt, schema |-> sv.schema]
      BY DEF Server
  <2> QED  BY <1>4, <2>1
<1>6. Effect(sv, st).schema[id.scope] = body.charset
    BY <1>1, <1>5
<1> QED  BY <1>6 DEF AsDeclared

\* The one statement of a delete leaves nothing of the resource.
LEMMA OwnDelete ==
    ASSUME NEW sv \in Server, NEW id \in ResourceID, NEW op, op = "delete",
           NEW body, NEW st, Script(op, id, body, sv) = <<st>>, st \in Statement
    PROVE  Gone(Effect(sv, st), id)
<1>1. CASE id.type \in {"user", "role"}
  <2>1. st.verb \in {"DROP USER", "DROP ROLE"} /\ st.acct = id.acct
    <3>1. CASE id.type = "user"
      <4>1. st = [verb |-> "DROP USER", acct |-> id.acct]
          BY <3>1 DEF Script, UserScript
      <4> QED  BY <4>1
    <3>2. CASE id.type = "role"
      <4>1. RoleScript(op, id, body, sv) = <<[verb |-> "DROP ROLE", acct |-> id.acct]>>
          BY DEF RoleScript
      <4>2. Script(op, id, body, sv) = RoleScript(op, id, body, sv)
          BY <3>2 DEF Script
      <4>3. <<st>> = <<[verb |-> "DROP ROLE", acct |-> id.acct]>>
          BY <4>1, <4>2
      <4>4. st = [verb |-> "DROP ROLE", acct |-> id.acct]
          BY <4>3
      <4> QED  BY <4>4
    <3> QED  BY <1>1, <3>1, <3>2
  <2>2. Effect(sv, st).row[id.acct] = NoRow
      BY <1>1, <2>1, RowsAfter, IdFacts DEF RowAfter
  <2> QED  BY <1>1, <2>2 DEF Gone, IsUser, IsRole, NoRow
<1>2. CASE id.type = "grant"
  <2> DEFINE p == <<id.acct, id.scope>>
  <2>1. st = RevokeStatement(id, {"ALL"})
      BY <1>2 DEF Script, GrantScript
  <2>2. st.verb = "REVOKE" /\ <<st.acct, st.scope>> = p /\ "ALL" \in st.privs
      BY <2>1 DEF RevokeStatement
  <2>3. /\ sv = [row |-> sv.row, edges |-> sv.edges, held |-> sv.held, opt |-> sv.opt, schema |-> sv.schema]
        /\ sv.held \in [Account \X Scope -> SUBSET Priv]
      BY DEF Server
  <2>4. p \in Account \X Scope
      BY <1>2, IdFacts
  <2>5. Effect(sv, st) = [sv EXCEPT !.held[p] = sv.held[p] \ Meant(st.privs), !.opt = sv.opt \ {p}]
      BY <2>2 DEF Effect
  <2>6. Effect(sv, st).held[p] = sv.held[p] \ Priv /\ p \notin Effect(sv, st).opt
    <3>1. Meant(st.privs) = Priv
        BY <2>2 DEF Meant
    <3> HIDE DEF p
    <3> QED  BY <2>3, <2>4, <2>5, <3>1
  <2>7. Effect(sv, st).held[p] = {}
      BY <2>3, <2>4, <2>6
  <2> QED  BY <1>2, <2>6, <2>7 DEF Gone
<1>3. CASE id.type = "database"
  <2>1. id.scope \in Schema /\ sv.schema \in [Schema -> Charset \cup {NoSchema}]
        /\ sv = [row |-> sv.row, edges |-> sv.edges, held |-> sv.held, opt |-> sv.opt, schema |-> sv.schema]
      BY <1>3, IdFacts DEF Server
  <2>2. st.verb = "DROP SCHEMA" /\ st.schema = id.scope
    <3>1. st = [verb |-> "DROP SCHEMA", schema |-> id.scope]
        BY <1>3 DEF Script, DatabaseScript
    <3> QED  BY <3>1
  <2>3. Effect(sv, st) = [sv EXCEPT !.schema[id.scope] = NoSchema]
      BY <2>2 DEF Effect
  <2>4. Effect(sv, st).schema = [sv.schema EXCEPT ![id.scope] = NoSchema]
      BY <2>1, <2>3
  <2> QED  BY <1>3, <2>1, <2>4 DEF Gone
<1> QED  BY <1>1, <1>2, <1>3, IdFacts

-----------------------------------------------------------------------------
(* The edges of a role. *)

\* The script has a statement for each of the roles, and no others.
ForEach(script, verb, roles) ==
    /\ \A i \in DOMAIN script : script[i].verb = verb /\ script[i].role \in roles
    /\ \A r \in roles : \E i \in DOMAIN script : script[i].verb = verb /\ script[i].role = r

\* That is what EdgeStatements makes.
LEMMA EachEdge ==
    ASSUME NEW roles \in SUBSET Account, NEW verb, NEW a
    PROVE  /\ ForEach(EdgeStatements(verb, roles, a), verb, roles)
           /\ \E X : EdgeStatements(verb, roles, a) \in Seq(X)
<1> DEFINE each == Ext!SetToSeq(roles)
           n == Cardinality(roles)
           script == EdgeStatements(verb, roles, a)
<1>1. IsFiniteSet(roles) /\ n \in Nat
    BY ServerAssumption, FS_Subset, FS_CardinalityType
<1>2. PICK m \in Nat : ExistsBijection(1 .. m, roles)
    BY <1>1, FS_NatBijection
<1>3. m = n
    BY <1>2, FS_CountingElements, FS_CardinalityType
<1>4. \E f \in [1 .. n -> roles] : Ext!IsInjective(f)
  <2>1. PICK f : f \in Bijection(1 .. n, roles)
      BY <1>2, <1>3 DEF ExistsBijection
  <2>2. f \in [1 .. n -> roles] /\ \A i, j \in 1 .. n : f[i] = f[j] => i = j
      BY <2>1 DEF Bijection, Injection, IsInjective
  <2> QED  BY <2>2 DEF Ext!IsInjective
<1>5. each \in [1 .. n -> roles] /\ Ext!IsInjective(each)
  <2>1. Ext!Cardinality(roles) = n
      BY DEF Ext!Cardinality, Cardinality
  <2> HIDE DEF n
  <2> QED  BY <1>4, <2>1 DEF Ext!SetToSeq
<1>6. each \in Surjection(1 .. n, roles)
  <2> HIDE DEF each, n
  <2>1. each \in Injection(1 .. n, roles)
      BY <1>5 DEF Injection, IsInjective, Ext!IsInjective
  <2>2. IsFiniteSet(1 .. n) /\ Cardinality(1 .. n) = Cardinality(roles)
      BY <1>1, FS_Interval DEF n
  <2> QED  BY <1>1, <2>1, <2>2, FS_Injection
<1>7. script = [i \in DOMAIN each |-> [verb |-> verb, role |-> each[i], acct |-> a]]
    BY DEF EdgeStatements
<1> HIDE DEF each, n, script
<1>8. \A r \in roles : \E i \in 1 .. n : each[i] = r
    BY <1>6 DEF Surjection
<1>9. \A i \in DOMAIN script : script[i].verb = verb /\ script[i].role \in roles
    BY <1>5, <1>7
<1>10. \A r \in roles : \E i \in DOMAIN script : script[i].verb = verb /\ script[i].role = r
    BY <1>5, <1>7, <1>8
<1>11. \E X : script \in Seq(X)
    BY EdgeScript DEF script
<1> QED  BY <1>9, <1>10, <1>11 DEF ForEach, script

\* What is in two sequences is in the third, and nothing else.
Joins(u, s, t) ==
    /\ \A i \in DOMAIN s : \E j \in DOMAIN u : u[j] = s[i]
    /\ \A i \in DOMAIN t : \E j \in DOMAIN u : u[j] = t[i]
    /\ \A j \in DOMAIN u : \/ \E i \in DOMAIN s : u[j] = s[i]
                           \/ \E i \in DOMAIN t : u[j] = t[i]

\* The elements of two sequences put together.
LEMMA Concatenated ==
    ASSUME NEW X, NEW Y, NEW s \in Seq(X), NEW t \in Seq(Y)
    PROVE  Joins(s \o t, s, t)
<1> DEFINE u == s \o t
<1>1. /\ DOMAIN s = 1 .. Len(s) /\ DOMAIN t = 1 .. Len(t) /\ DOMAIN u = 1 .. Len(s) + Len(t)
      /\ Len(s) \in Nat /\ Len(t) \in Nat
      /\ \A i \in 1 .. Len(s) + Len(t) : u[i] = IF i <= Len(s) THEN s[i] ELSE t[i - Len(s)]
    OBVIOUS
<1> HIDE DEF u
<1>2. ASSUME NEW i \in DOMAIN s PROVE \E j \in DOMAIN u : u[j] = s[i]
  <2>1. i \in DOMAIN u /\ u[i] = s[i]
      BY <1>1
  <2> QED  BY <2>1
<1>3. ASSUME NEW i \in DOMAIN t PROVE \E j \in DOMAIN u : u[j] = t[i]
  <2>1. Len(s) + i \in DOMAIN u /\ u[Len(s) + i] = t[i]
      BY <1>1
  <2> QED  BY <2>1
<1>4. ASSUME NEW j \in DOMAIN u
      PROVE  (\E i \in DOMAIN s : u[j] = s[i]) \/ (\E i \in DOMAIN t : u[j] = t[i])
  <2>1. CASE j <= Len(s)
    <3>1. j \in DOMAIN s /\ u[j] = s[j]
        BY <1>1, <2>1
    <3> QED  BY <3>1
  <2>2. CASE ~(j <= Len(s))
    <3>1. j - Len(s) \in DOMAIN t /\ u[j] = t[j - Len(s)]
        BY <1>1, <2>2
    <3> QED  BY <3>1
  <2> QED  BY <2>1, <2>2
<1> QED  BY <1>2, <1>3, <1>4 DEF Joins, u

\* What the statements about edges do to them.
LEMMA EdgesAfter ==
    ASSUME NEW sv \in Server, NEW st \in Statement, st.verb \in {"CREATE ROLE", "GRANT ROLE", "REVOKE ROLE"}
    PROVE  /\ st.verb = "CREATE ROLE" => Effect(sv, st).edges = sv.edges
           /\ st.verb = "GRANT ROLE" => Effect(sv, st).edges = sv.edges \cup {<<st.role, st.acct>>}
           /\ st.verb = "REVOKE ROLE" => Effect(sv, st).edges = sv.edges \ {<<st.role, st.acct>>}
<1>1. sv = [row |-> sv.row, edges |-> sv.edges, held |-> sv.held, opt |-> sv.opt, schema |-> sv.schema]
    BY DEF Server
<1>2. CASE st.verb = "CREATE ROLE"
  <2>1. Effect(sv, st) = [sv EXCEPT !.row[st.acct] = RoleRow]
      BY <1>2 DEF Effect
  <2> QED  BY <1>1, <1>2, <2>1
<1>3. CASE st.verb = "GRANT ROLE"
  <2>1. Effect(sv, st) = [sv EXCEPT !.edges = sv.edges \cup {<<st.role, st.acct>>}]
      BY <1>3 DEF Effect
  <2> QED  BY <1>1, <1>3, <2>1
<1>4. CASE st.verb = "REVOKE ROLE"
  <2>1. Effect(sv, st) = [sv EXCEPT !.edges = sv.edges \ {<<st.role, st.acct>>}]
      BY <1>4 DEF Effect
  <2> QED  BY <1>1, <1>4, <2>1
<1> QED  BY <1>2, <1>3, <1>4

\* The head and the tail of a sequence.
LEMMA HeadAndTail ==
    ASSUME NEW X, NEW s \in Seq(X), s # <<>>
    PROVE  /\ 1 \in DOMAIN s /\ Head(s) = s[1]
           /\ \A i \in DOMAIN Tail(s) : i + 1 \in DOMAIN s /\ Tail(s)[i] = s[i + 1] /\ i # 0 /\ i \in Nat
           /\ \A i \in DOMAIN s : i # 1 => i - 1 \in DOMAIN Tail(s) /\ Tail(s)[i - 1] = s[i]
OBVIOUS

\* A statement about an edge of a role leaves the others to those that follow.
LEMMA EdgesMove ==
    ASSUME NEW sv \in Server, NEW id \in ResourceID, id.type = "role", NEW body \in ValidBodies("role"),
           NEW op, NEW script \in Seq(StatementsFor(id, op)), script # <<>>, EdgesLeft(body, sv, id, script)
    PROVE  EdgesLeft(body, Effect(sv, Head(script)), id, Tail(script))
<1> DEFINE st == Head(script)
           after == Effect(sv, st)
           rest == Tail(script)
<1>1. /\ 1 \in DOMAIN script /\ st = script[1] /\ st \in StatementsFor(id, op)
      /\ \A i \in DOMAIN rest : i + 1 \in DOMAIN script /\ rest[i] = script[i + 1]
      /\ \A i \in DOMAIN script : i # 1 => i - 1 \in DOMAIN rest /\ rest[i - 1] = script[i]
    BY HeadAndTail
<1>2. st \in Statement /\ st.acct = id.acct /\ id.acct \in Account
    BY <1>1, IdFacts DEF StatementsFor, About
<1>3. body.granted \subseteq Account
    BY DEF ValidBodies
<1> HIDE DEF st, after, rest
<1>4. \/ st.verb = "GRANT ROLE" /\ st.role \in body.granted
      \/ st.verb = "REVOKE ROLE" /\ st.role \notin body.granted
    BY <1>1 DEF EdgesLeft
<1>5. /\ st.verb = "GRANT ROLE" => after.edges = sv.edges \cup {<<st.role, id.acct>>}
      /\ st.verb = "REVOKE ROLE" => after.edges = sv.edges \ {<<st.role, id.acct>>}
    BY <1>2, <1>4, EdgesAfter DEF after
<1>6. after.row[id.acct] = sv.row[id.acct]
    BY <1>2, <1>4, RowsAfter DEF RowAfter, after
<1>7. ASSUME NEW g \in body.granted
      PROVE  \/ <<g, id.acct>> \in after.edges
             \/ \E i \in DOMAIN rest : rest[i].verb = "GRANT ROLE" /\ rest[i].role = g
  <2>1. CASE <<g, id.acct>> \in sv.edges
      BY <1>4, <1>5, <2>1
  <2>2. ASSUME NEW i \in DOMAIN script, script[i].verb = "GRANT ROLE", script[i].role = g
        PROVE  \/ <<g, id.acct>> \in after.edges
               \/ \E j \in DOMAIN rest : rest[j].verb = "GRANT ROLE" /\ rest[j].role = g
    <3>1. CASE i = 1
        BY <1>1, <1>5, <2>2, <3>1
    <3>2. CASE i # 1
        BY <1>1, <2>2, <3>2
    <3> QED  BY <3>1, <3>2
  <2> QED  BY <2>1, <2>2 DEF EdgesLeft
<1>8. ASSUME NEW g \in Account \ body.granted
      PROVE  \/ <<g, id.acct>> \notin after.edges
             \/ \E i \in DOMAIN rest : rest[i].verb = "REVOKE ROLE" /\ rest[i].role = g
  <2>1. CASE <<g, id.acct>> \notin sv.edges
    <3>1. st.role = g => st.verb = "REVOKE ROLE"
        BY <1>4
    <3>2. <<g, id.acct>> = <<st.role, id.acct>> => st.role = g
        OBVIOUS
    <3> QED  BY <1>4, <1>5, <2>1, <3>1, <3>2
  <2>2. ASSUME NEW i \in DOMAIN script, script[i].verb = "REVOKE ROLE", script[i].role = g
        PROVE  \/ <<g, id.acct>> \notin after.edges
               \/ \E j \in DOMAIN rest : rest[j].verb = "REVOKE ROLE" /\ rest[j].role = g
    <3>1. CASE i = 1
        BY <1>1, <1>5, <2>2, <3>1
    <3>2. CASE i # 1
        BY <1>1, <2>2, <3>2
    <3> QED  BY <3>1, <3>2
  <2> QED  BY <2>1, <2>2 DEF EdgesLeft
<1>9. \A i \in DOMAIN rest :
          \/ rest[i].verb = "GRANT ROLE" /\ rest[i].role \in body.granted
          \/ rest[i].verb = "REVOKE ROLE" /\ rest[i].role \notin body.granted
  <2>1. \A i \in DOMAIN script :
            \/ script[i].verb = "GRANT ROLE" /\ script[i].role \in body.granted
            \/ script[i].verb = "REVOKE ROLE" /\ script[i].role \notin body.granted
      BY DEF EdgesLeft
  <2>2. TAKE i \in DOMAIN rest
  <2>3. i + 1 \in DOMAIN script /\ rest[i] = script[i + 1]
      BY <1>1
  <2> QED  BY <2>1, <2>3
<1>10. EdgesLeft(body, after, id, rest)
    BY <1>6, <1>7, <1>8, <1>9 DEF EdgesLeft
<1> QED  BY <1>10 DEF st, after, rest

\* Creating a role leaves its edges to the rest of the script.
LEMMA EdgesOfNewRole ==
    ASSUME NEW sv \in Server, NoOrphans(sv), NEW id \in ResourceID, id.type = "role",
           NEW body \in ValidBodies("role"),
           Accepted(sv, Head(RoleScript("create", id, body, sv)))
    PROVE  LET script == RoleScript("create", id, body, sv)
           IN  EdgesLeft(body, Effect(sv, Head(script)), id, Tail(script))
<1> DEFINE new == [verb |-> "CREATE ROLE", acct |-> id.acct]
           rest == EdgeStatements("GRANT ROLE", body.granted, id.acct)
           script == RoleScript("create", id, body, sv)
           after == Effect(sv, new)
<1>1. body.granted \in SUBSET Account /\ id.acct \in Account
    BY IdFacts DEF ValidBodies
<1>2. script = <<new>> \o rest /\ rest \in Seq(EdgesOf("GRANT ROLE", body.granted, id.acct))
    BY <1>1, EdgeScript DEF RoleScript
<1>3. new \in Statement /\ new.verb = "CREATE ROLE" /\ new.acct = id.acct
    BY <1>1 DEF Statement
<1>4. ForEach(rest, "GRANT ROLE", body.granted)
    BY <1>1, EachEdge
<1> HIDE DEF new, rest
<1>5. Head(script) = new /\ Tail(script) = rest
  <2>1. \A x : \A X : \A s \in Seq(X) : Head(<<x>> \o s) = x /\ Tail(<<x>> \o s) = s
      OBVIOUS
  <2> QED  BY <1>2, <2>1
<1>6. Accepted(sv, new)
    BY <1>5
<1> HIDE DEF script
<1>7. \A g \in Account : <<g, id.acct>> \notin sv.edges
  <2>1. ~sv.row[id.acct].exists
      BY <1>3, <1>6 DEF Accepted
  <2> QED  BY <1>1, <2>1 DEF NoOrphans
<1>8. after.edges = sv.edges /\ after.row[id.acct] = RoleRow
    BY <1>1, <1>3, EdgesAfter, RowsAfter DEF RowAfter
<1>9. IsRole(RoleRow)
    BY DEF RoleRow, NoRow, IsRole
<1> HIDE DEF after
<1>10. EdgesLeft(body, after, id, rest)
    BY <1>4, <1>7, <1>8, <1>9 DEF EdgesLeft, ForEach
<1> QED  BY <1>5, <1>10 DEF after, script

\* The script of a role that is there leads to the edges declared.
LEMMA EdgesOfUpdate ==
    ASSUME NEW sv \in Server, NEW id \in ResourceID, id.type = "role",
           NEW body \in ValidBodies("role"), IsRole(sv.row[id.acct])
    PROVE  EdgesLeft(body, sv, id, RoleScript("update", id, body, sv))
<1> DEFINE current == RolesOf(sv)[id.acct]
           grants == EdgeStatements("GRANT ROLE", body.granted \ current, id.acct)
           revokes == EdgeStatements("REVOKE ROLE", current \ body.granted, id.acct)
           script == RoleScript("update", id, body, sv)
<1>1. body.granted \in SUBSET Account /\ id.acct \in Account
    BY IdFacts DEF ValidBodies
<1>2. current = {g \in Account : <<g, id.acct>> \in sv.edges}
    BY <1>1 DEF RolesOf
<1>3. script = grants \o revokes
    BY DEF RoleScript
<1> HIDE DEF current
<1>4. body.granted \ current \in SUBSET Account /\ current \ body.granted \in SUBSET Account
    BY <1>1, <1>2
<1>5. ForEach(grants, "GRANT ROLE", body.granted \ current) /\ \E X : grants \in Seq(X)
    BY <1>4, EachEdge
<1>6. ForEach(revokes, "REVOKE ROLE", current \ body.granted) /\ \E X : revokes \in Seq(X)
    BY <1>4, EachEdge
<1> HIDE DEF grants, revokes, script
<1>7. PICK X, Y : grants \in Seq(X) /\ revokes \in Seq(Y)
    BY <1>5, <1>6
<1>8. Joins(script, grants, revokes)
    BY <1>3, <1>7, Concatenated
<1>9. ASSUME NEW i \in DOMAIN script
      PROVE  \/ script[i].verb = "GRANT ROLE" /\ script[i].role \in body.granted
             \/ script[i].verb = "REVOKE ROLE" /\ script[i].role \notin body.granted
  <2>1. ASSUME NEW k \in DOMAIN grants, script[i] = grants[k]
        PROVE  script[i].verb = "GRANT ROLE" /\ script[i].role \in body.granted
      BY <1>5, <2>1 DEF ForEach
  <2>2. ASSUME NEW k \in DOMAIN revokes, script[i] = revokes[k]
        PROVE  script[i].verb = "REVOKE ROLE" /\ script[i].role \notin body.granted
      BY <1>6, <2>2 DEF ForEach
  <2> QED  BY <1>8, <2>1, <2>2 DEF Joins
<1>10. ASSUME NEW g \in body.granted, <<g, id.acct>> \notin sv.edges
       PROVE  \E i \in DOMAIN script : script[i].verb = "GRANT ROLE" /\ script[i].role = g
  <2>1. g \in body.granted \ current
      BY <1>2, <1>10
  <2>2. PICK k \in DOMAIN grants : grants[k].verb = "GRANT ROLE" /\ grants[k].role = g
      BY <1>5, <2>1 DEF ForEach
  <2>3. PICK j \in DOMAIN script : script[j] = grants[k]
      BY <1>8 DEF Joins
  <2> QED  BY <2>2, <2>3
<1>11. ASSUME NEW g \in Account \ body.granted, <<g, id.acct>> \in sv.edges
       PROVE  \E i \in DOMAIN script : script[i].verb = "REVOKE ROLE" /\ script[i].role = g
  <2>1. g \in current \ body.granted
      BY <1>2, <1>11
  <2>2. PICK k \in DOMAIN revokes : revokes[k].verb = "REVOKE ROLE" /\ revokes[k].role = g
      BY <1>6, <2>1 DEF ForEach
  <2>3. PICK j \in DOMAIN script : script[j] = revokes[k]
      BY <1>8 DEF Joins
  <2> QED  BY <2>2, <2>3
<1>12. EdgesLeft(body, sv, id, script)
    BY <1>9, <1>10, <1>11 DEF EdgesLeft
<1> QED  BY <1>12 DEF script

-----------------------------------------------------------------------------
(* The privileges of a grant. *)

\* Fewer names mean fewer privileges.
LEMMA MeantFewer ==
    ASSUME NEW T \in SUBSET PrivName, NEW S \in SUBSET T
    PROVE  Meant(S) \subseteq Meant(T)
BY DEF Meant, PrivName

\* What the statements about a grant do to it.
LEMMA GrantAfter ==
    ASSUME NEW sv \in Server, NEW st \in Statement, st.verb \in {"GRANT", "REVOKE"}
    PROVE  LET p == <<st.acct, st.scope>>
               after == Effect(sv, st)
           IN  /\ \A a \in Account : after.row[a] = sv.row[a]
               /\ st.verb = "GRANT" =>
                     /\ after.held[p] = sv.held[p] \cup Meant(st.privs)
                     /\ p \in after.opt <=> p \in sv.opt \/ st.opt
               /\ st.verb = "REVOKE" =>
                     /\ after.held[p] = sv.held[p] \ Meant(st.privs)
                     /\ p \in after.opt <=> p \in sv.opt /\ "ALL" \notin st.privs
<1> DEFINE p == <<st.acct, st.scope>>
           after == Effect(sv, st)
<1>1. /\ sv = [row |-> sv.row, edges |-> sv.edges, held |-> sv.held, opt |-> sv.opt, schema |-> sv.schema]
      /\ sv.held \in [Account \X Scope -> SUBSET Priv]
    BY DEF Server
<1>2. p \in Account \X Scope
    BY StatementFacts
<1>3. \A a \in Account : after.row[a] = sv.row[a]
    BY RowsAfter DEF RowAfter
<1>4. CASE st.verb = "GRANT"
  <2>1. after = [sv EXCEPT !.held[p] = sv.held[p] \cup Meant(st.privs),
                           !.opt = IF st.opt THEN sv.opt \cup {p} ELSE sv.opt]
      BY <1>4 DEF Effect
  <2> HIDE DEF after, p
  <2>2. /\ after.held = [sv.held EXCEPT ![p] = sv.held[p] \cup Meant(st.privs)]
        /\ after.opt = IF st.opt THEN sv.opt \cup {p} ELSE sv.opt
      BY <1>1, <2>1
  <2>3. after.held[p] = sv.held[p] \cup Meant(st.privs) /\ (p \in after.opt <=> p \in sv.opt \/ st.opt)
      BY <1>1, <1>2, <2>2
  <2> QED  BY <1>3, <1>4, <2>3 DEF after, p
<1>5. CASE st.verb = "REVOKE"
  <2>1. after = [sv EXCEPT !.held[p] = sv.held[p] \ Meant(st.privs),
                           !.opt = IF "ALL" \in st.privs THEN sv.opt \ {p} ELSE sv.opt]
      BY <1>5 DEF Effect
  <2> HIDE DEF after, p
  <2>2. /\ after.held = [sv.held EXCEPT ![p] = sv.held[p] \ Meant(st.privs)]
        /\ after.opt = IF "ALL" \in st.privs THEN sv.opt \ {p} ELSE sv.opt
      BY <1>1, <2>1
  <2>3. after.held[p] = sv.held[p] \ Meant(st.privs) /\ (p \in after.opt <=> p \in sv.opt /\ "ALL" \notin st.privs)
      BY <1>1, <1>2, <2>2
  <2> QED  BY <1>3, <1>5, <2>3 DEF after, p
<1> QED  BY <1>4, <1>5

\* A statement of a grant's script leaves the rest to those that follow.
LEMMA GrantsMove ==
    ASSUME NEW sv \in Server, NEW id \in ResourceID, id.type = "grant", NEW body,
           NEW op, NEW script \in Seq(StatementsFor(id, op)), script # <<>>,
           GrantsLeft(body, sv, id, script), Accepted(sv, Head(script)), Resettable(body, sv, id)
    PROVE  /\ GrantsLeft(body, Effect(sv, Head(script)), id, Tail(script))
           /\ Resettable(body, Effect(sv, Head(script)), id)
<1> DEFINE st == Head(script)
           after == Effect(sv, st)
           rest == Tail(script)
           p == <<id.acct, id.scope>>
<1>1. /\ 1 \in DOMAIN script /\ st = script[1] /\ st \in StatementsFor(id, op)
      /\ \A i \in DOMAIN rest : i + 1 \in DOMAIN script /\ rest[i] = script[i + 1] /\ i + 1 # 1
      /\ \A i \in DOMAIN script : i # 1 => i - 1 \in DOMAIN rest /\ rest[i - 1] = script[i]
    BY HeadAndTail
<1>2. /\ st \in Statement /\ st.verb \in {"GRANT", "REVOKE"} /\ st.acct = id.acct /\ st.scope = id.scope
      /\ id.acct \in Account
    BY <1>1, IdFacts DEF StatementsFor, About
<1>3. Accepted(sv, st)
    OBVIOUS
<1> HIDE DEF st, after, rest, p
<1>4. /\ after.row[id.acct] = sv.row[id.acct]
      /\ st.verb = "GRANT" =>
            /\ after.held[p] = sv.held[p] \cup Meant(st.privs)
            /\ p \in after.opt <=> p \in sv.opt \/ st.opt
      /\ st.verb = "REVOKE" =>
            /\ after.held[p] = sv.held[p] \ Meant(st.privs)
            /\ p \in after.opt <=> p \in sv.opt /\ "ALL" \notin st.privs
    BY <1>2, GrantAfter DEF after, p
<1>5. /\ \A i \in DOMAIN script :
            \/ script[i].verb = "REVOKE" /\ i = 1
            \/ /\ script[i].verb = "GRANT" /\ Meant(script[i].privs) \subseteq Meant(body.privs)
               /\ script[i].opt <=> body.opt = "true"
      /\ \A x \in Meant(body.privs) :
            \/ x \in sv.held[p] /\ \A i \in DOMAIN script : ~Takes(script[i], x)
            \/ \E i \in DOMAIN script : script[i].verb = "GRANT" /\ x \in Meant(script[i].privs)
      /\ \A x \in sv.held[p] \ Meant(body.privs) : \E i \in DOMAIN script : Takes(script[i], x)
      /\ body.opt = "true" =>
            \/ p \in sv.opt /\ \A i \in DOMAIN script :
                                  script[i].verb = "REVOKE" => "ALL" \notin script[i].privs
            \/ \E i \in DOMAIN script : script[i].verb = "GRANT"
    BY DEF GrantsLeft, p
<1>6. sv.row[id.acct].exists
    BY <1>2, <1>3 DEF Accepted, HasLine
<1>7. ASSUME NEW i \in DOMAIN rest
      PROVE  /\ rest[i].verb = "GRANT" /\ Meant(rest[i].privs) \subseteq Meant(body.privs)
             /\ rest[i].opt <=> body.opt = "true"
  <2>1. i + 1 \in DOMAIN script /\ rest[i] = script[i + 1] /\ i + 1 # 1
      BY <1>1
  <2> QED  BY <1>5, <2>1
<1>8. \A i \in DOMAIN rest : \A x : ~Takes(rest[i], x)
    BY <1>7 DEF Takes
<1>9. ASSUME NEW x \in Meant(body.privs)
      PROVE  \/ x \in after.held[p]
             \/ \E i \in DOMAIN rest : rest[i].verb = "GRANT" /\ x \in Meant(rest[i].privs)
  <2>1. CASE x \in sv.held[p] /\ \A i \in DOMAIN script : ~Takes(script[i], x)
    <3>1. ~Takes(st, x)
        BY <1>1, <2>1
    <3> QED  BY <1>2, <1>4, <2>1, <3>1 DEF Takes
  <2>2. ASSUME NEW i \in DOMAIN script, script[i].verb = "GRANT", x \in Meant(script[i].privs)
        PROVE  \/ x \in after.held[p]
               \/ \E j \in DOMAIN rest : rest[j].verb = "GRANT" /\ x \in Meant(rest[j].privs)
    <3>1. CASE i = 1
        BY <1>1, <1>4, <2>2, <3>1
    <3>2. CASE i # 1
        BY <1>1, <2>2, <3>2
    <3> QED  BY <3>1, <3>2
  <2> QED  BY <1>5, <2>1, <2>2
<1>10. ASSUME NEW x \in after.held[p], x \notin Meant(body.privs) PROVE FALSE
  <2>1. st.verb = "GRANT" => Meant(st.privs) \subseteq Meant(body.privs)
      BY <1>1, <1>5
  <2>2. x \in sv.held[p]
      BY <1>2, <1>4, <1>10, <2>1
  <2>3. PICK i \in DOMAIN script : Takes(script[i], x)
      BY <1>5, <1>10, <2>2
  <2>4. Takes(st, x)
      BY <1>1, <1>5, <2>3 DEF Takes
  <2> QED  BY <1>4, <1>10, <2>4 DEF Takes
<1>11. ASSUME body.opt = "true"
       PROVE  p \in after.opt \/ \E i \in DOMAIN rest : rest[i].verb = "GRANT"
  <2>1. CASE p \in sv.opt /\ \A i \in DOMAIN script :
                                script[i].verb = "REVOKE" => "ALL" \notin script[i].privs
      BY <1>1, <1>2, <1>4, <2>1
  <2>2. ASSUME NEW i \in DOMAIN script, script[i].verb = "GRANT"
        PROVE  p \in after.opt \/ \E j \in DOMAIN rest : rest[j].verb = "GRANT"
    <3>1. CASE i = 1
        BY <1>1, <1>4, <1>5, <1>11, <2>2, <3>1
    <3>2. CASE i # 1
        BY <1>1, <2>2, <3>2
    <3> QED  BY <3>1, <3>2
  <2> QED  BY <1>5, <1>11, <2>1, <2>2
<1>12. GrantsLeft(body, after, id, rest)
  <2>1. \A i \in DOMAIN rest : rest[i].verb # "REVOKE"
      BY <1>7
  <2> QED  BY <1>4, <1>6, <1>7, <1>8, <1>9, <1>10, <1>11, <2>1 DEF GrantsLeft, p
<1>13. Resettable(body, after, id)
  <2>1. p \in sv.opt => body.opt = "true"
      BY DEF Resettable, p
  <2>2. st.verb = "GRANT" => (st.opt <=> body.opt = "true")
      BY <1>1, <1>5
  <2>3. p \in after.opt => body.opt = "true"
      BY <1>2, <1>4, <2>1, <2>2
  <2> QED  BY <2>3 DEF Resettable, p
<1> QED  BY <1>12, <1>13 DEF st, after, rest

\* Where nothing is held, granting what is declared leads to it.
LEMMA GrantsOfCreate ==
    ASSUME NEW sv, NEW id, NEW body, sv.held[<<id.acct, id.scope>>] = {}
    PROVE  GrantsLeft(body, sv, id, GrantScript("create", id, body, sv))
<1> DEFINE st == GrantStatement(id, body.privs, body)
<1>1. GrantScript("create", id, body, sv) = <<st>>
    BY DEF GrantScript
<1>2. st.verb = "GRANT" /\ st.privs = body.privs /\ (st.opt <=> body.opt = "true")
    BY DEF GrantStatement
<1> HIDE DEF st
<1>3. DOMAIN <<st>> = {1} /\ <<st>>[1] = st /\ <<st>> # <<>>
    OBVIOUS
<1>4. GrantsLeft(body, sv, id, <<st>>)
    BY <1>2, <1>3 DEF GrantsLeft
<1> QED  BY <1>1, <1>4

\* What the update of a grant revokes and grants, of what SHOW GRANTS shows.
LEMMA Differences ==
    ASSUME NEW sv \in Server, NoOrphans(sv), NEW id \in ResourceID, id.type = "grant",
           NEW body \in ValidBodies("grant"), ComesBack(id, body)
    PROVE  LET current == CurrentPrivileges(sv, id)
               held == sv.held[<<id.acct, id.scope>>]
               revoked == current \ body.privs
               granted == body.privs \ current
           IN  /\ \A x \in Meant(body.privs) : \/ x \in held /\ x \notin Meant(revoked)
                                               \/ x \in Meant(granted)
               /\ held \ Meant(body.privs) \subseteq Meant(revoked)
               /\ "ALL" \in revoked => granted # {}
               /\ current = body.privs => sv.row[id.acct].exists
<1> DEFINE p == <<id.acct, id.scope>>
           held == sv.held[p]
           current == CurrentPrivileges(sv, id)
           privs == body.privs
           revoked == current \ privs
           granted == privs \ current
<1>1. id.acct \in Account /\ id.scope \in Scope /\ held \in SUBSET Priv
    BY IdFacts, Tables
<1>2. /\ privs \in SUBSET PrivName /\ privs # {}
      /\ \/ privs = {"ALL"}
         \/ privs = {"USAGE"}
         \/ privs \subseteq Priv
    BY DEF ValidBodies, ComesBack
<1>3. \/ current = {} /\ held = {}
      \/ current = {"ALL"} /\ held = Priv
      \/ current = {"USAGE"} /\ held = {}
      \/ current = held
  <2>1. CASE HasLine(sv, id.acct, id.scope)
      BY <1>1, <2>1, ShownFacts DEF CurrentPrivileges
  <2>2. CASE ~HasLine(sv, id.acct, id.scope)
    <3>1. current = {}
        BY <2>2 DEF CurrentPrivileges
    <3>2. held = {}
        BY <1>1, <2>2 DEF HasLine, NoOrphans
    <3> QED  BY <3>1, <3>2
  <2> QED  BY <2>1, <2>2
<1>4. current = privs => sv.row[id.acct].exists
    BY <1>2 DEF CurrentPrivileges, HasLine
<1>5. "ALL" \notin Priv /\ "USAGE" \notin Priv
    BY ServerAssumption
<1> HIDE DEF held, current, privs
<1>6. /\ Meant({}) = {} /\ Meant({"ALL"}) = Priv /\ Meant({"USAGE"}) = {}
      /\ \A S \in SUBSET Priv : Meant(S) = S
    BY <1>5 DEF Meant
<1> DEFINE Goal == /\ \A x \in Meant(privs) : \/ x \in held /\ x \notin Meant(revoked)
                                              \/ x \in Meant(granted)
                   /\ held \ Meant(privs) \subseteq Meant(revoked)
                   /\ "ALL" \in revoked => granted # {}
<1>7. CASE current = {}
  <2>1. revoked = {} /\ granted = privs /\ held = {}
      BY <1>3, <1>7
  <2> QED  BY <1>4, <1>6, <2>1 DEF held, current, privs
<1>8. CASE current = {"ALL"} /\ held = Priv
  <2>1. CASE privs = {"ALL"}
    <3>1. revoked = {} /\ granted = {} /\ Meant(privs) = Priv
        BY <1>6, <1>8, <2>1
    <3>2. Goal
        BY <1>6, <1>8, <3>1
    <3> QED  BY <1>4, <3>2 DEF held, current, privs
  <2>2. CASE privs # {"ALL"}
    <3>1. revoked = {"ALL"} /\ granted = privs
        BY <1>2, <1>5, <1>8, <2>2
    <3>2. Goal
        BY <1>2, <1>6, <1>8, <3>1
    <3> QED  BY <1>4, <3>2 DEF held, current, privs
  <2> QED  BY <2>1, <2>2
<1>9. CASE current = {"USAGE"} /\ held = {}
  <2>1. CASE privs = {"USAGE"}
    <3>1. revoked = {} /\ granted = {} /\ Meant(privs) = {}
        BY <1>6, <1>9, <2>1
    <3>2. Goal
        BY <1>6, <1>9, <3>1
    <3> QED  BY <1>4, <3>2 DEF held, current, privs
  <2>2. CASE privs # {"USAGE"}
    <3>1. revoked = {"USAGE"} /\ granted = privs
        BY <1>2, <1>5, <1>9, <2>2
    <3>2. Goal
        BY <1>6, <1>9, <3>1
    <3> QED  BY <1>4, <3>2 DEF held, current, privs
  <2> QED  BY <2>1, <2>2
<1>10. CASE current = held
  <2>0. revoked \in SUBSET Priv
      BY <1>1, <1>10 DEF held
  <2>1. CASE privs = {"ALL"} \/ privs = {"USAGE"}
    <3>1. revoked = held /\ granted = privs
        BY <1>1, <1>5, <1>10, <2>1 DEF held
    <3>2. Meant(revoked) = held
        BY <1>6, <2>0, <3>1
    <3>3. Goal
        BY <1>1, <1>2, <1>5, <3>1, <3>2 DEF held
    <3> QED  BY <1>4, <3>3 DEF held, current, privs
  <2>2. CASE privs \subseteq Priv
    <3>1. Meant(privs) = privs /\ Meant(revoked) = revoked /\ Meant(granted) = granted
        BY <1>6, <2>0, <2>2
    <3>2. Goal
        BY <1>5, <1>10, <2>0, <3>1
    <3> QED  BY <1>4, <3>2 DEF held, current, privs
  <2> QED  BY <1>2, <2>1, <2>2
<1> QED  BY <1>3, <1>7, <1>8, <1>9, <1>10

\* Two sequences, one after the other.
LEMMA TwoJoined ==
    ASSUME NEW X, NEW s \in Seq(X), NEW t \in Seq(X)
    PROVE  /\ DOMAIN (s \o t) = 1 .. Len(s) + Len(t)
           /\ \A i \in 1 .. Len(s) + Len(t) :
                 (s \o t)[i] = IF i <= Len(s) THEN s[i] ELSE t[i - Len(s)]
OBVIOUS

\* The update of a grant leads to what is declared.
LEMMA GrantsOfUpdate ==
    ASSUME NEW sv \in Server, NoOrphans(sv), NEW id \in ResourceID, id.type = "grant",
           NEW body \in ValidBodies("grant"), ComesBack(id, body)
    PROVE  GrantsLeft(body, sv, id, GrantUpdate(id, body, sv))
<1> DEFINE p == <<id.acct, id.scope>>
           held == sv.held[p]
           current == CurrentPrivileges(sv, id)
           revoked == current \ body.privs
           granted == body.privs \ current
           listed == IF granted # {} THEN granted ELSE body.privs
           differs == (body.opt = "true") # (p \in sv.opt)
           r == RevokeStatement(id, revoked)
           g == GrantStatement(id, listed, body)
           script == GrantUpdate(id, body, sv)
<1>1. /\ \A x \in Meant(body.privs) : \/ x \in held /\ x \notin Meant(revoked)
                                      \/ x \in Meant(granted)
      /\ held \ Meant(body.privs) \subseteq Meant(revoked)
      /\ "ALL" \in revoked => granted # {}
      /\ current = body.privs => sv.row[id.acct].exists
    BY Differences
<1>2. Meant(listed) \subseteq Meant(body.privs)
  <2>1. body.privs \in SUBSET PrivName /\ listed \in SUBSET body.privs
      BY DEF ValidBodies
  <2> HIDE DEF listed
  <2> QED  BY <2>1, MeantFewer
<1>3. script = (IF revoked # {} THEN <<r>> ELSE <<>>)
                 \o (IF granted # {} \/ differs THEN <<g>> ELSE <<>>)
    BY DEF GrantUpdate
<1>4. /\ r.verb = "REVOKE" /\ r.privs = revoked
      /\ g.verb = "GRANT" /\ g.privs = listed /\ (g.opt <=> body.opt = "true")
    BY DEF RevokeStatement, GrantStatement
<1>5. Meant({}) = {}
    BY DEF Meant
<1>6. (granted # {} => listed = granted) /\ (revoked = {} /\ granted = {} => current = body.privs)
    OBVIOUS
<1>7. ~differs => (body.opt = "true" <=> p \in sv.opt)
    OBVIOUS
<1> HIDE DEF p, held, current, revoked, granted, listed, differs, r, g, script
<1>8. \A x, y : /\ LET u == <<x>> \o <<y>> IN DOMAIN u = {1, 2} /\ u[1] = x /\ u[2] = y /\ u # <<>>
                /\ <<x>> \o <<>> = <<x>> /\ <<>> \o <<y>> = <<y>> /\ <<x>> # <<>>
                /\ DOMAIN <<x>> = {1} /\ <<x>>[1] = x
  <2>1. TAKE x, y
  <2> DEFINE s == <<x>>
             t == <<y>>
             u == s \o t
  <2>2. /\ s \in Seq({x, y}) /\ Len(s) = 1 /\ s[1] = x /\ s # <<>> /\ DOMAIN s = {1}
        /\ t \in Seq({x, y}) /\ Len(t) = 1 /\ t[1] = y
      OBVIOUS
  <2>3. s \o <<>> = s /\ <<>> \o t = t
      OBVIOUS
  <2> HIDE DEF s, t
  <2>4. DOMAIN u = 1 .. 2 /\ u[1] = x /\ u[2] = y
    <3>1. /\ DOMAIN u = 1 .. Len(s) + Len(t)
          /\ \A i \in 1 .. Len(s) + Len(t) : u[i] = IF i <= Len(s) THEN s[i] ELSE t[i - Len(s)]
        BY <2>2, TwoJoined
    <3> HIDE DEF u
    <3>2. u[1] = s[1] /\ u[2] = t[1]
        BY <2>2, <3>1
    <3> QED  BY <2>2, <3>1, <3>2
  <2>5. DOMAIN u = {1, 2} /\ u # <<>>
    <3> HIDE DEF u
    <3>1. DOMAIN <<>> = {}
        OBVIOUS
    <3> QED  BY <2>4, <3>1
  <2> QED  BY <2>2, <2>3, <2>4, <2>5 DEF s, t
<1>9. <<>> \o <<>> = <<>> /\ DOMAIN <<>> = {}
    OBVIOUS
<1>10. /\ revoked # {} <=> \E i \in DOMAIN script : script[i] = r
       /\ granted # {} \/ differs <=> \E i \in DOMAIN script : script[i] = g
       /\ \A i \in DOMAIN script : (script[i] = r /\ i = 1) \/ script[i] = g
       /\ script = <<>> => revoked = {} /\ granted = {} /\ ~differs
  <2>0. r # g
      BY <1>4
  <2>1. CASE revoked # {} /\ (granted # {} \/ differs)
    <3>1. script = <<r>> \o <<g>>
        BY <1>3, <2>1
    <3>2. DOMAIN script = {1, 2} /\ script[1] = r /\ script[2] = g /\ script # <<>>
        BY <1>8, <3>1
    <3> QED  BY <2>0, <2>1, <3>2
  <2>2. CASE revoked # {} /\ ~(granted # {} \/ differs)
    <3>1. script = <<r>>
        BY <1>3, <1>8, <2>2
    <3> QED  BY <1>8, <2>0, <2>2, <3>1
  <2>3. CASE revoked = {} /\ (granted # {} \/ differs)
    <3>1. script = <<g>>
        BY <1>3, <1>8, <2>3
    <3> QED  BY <1>8, <2>0, <2>3, <3>1
  <2>4. CASE revoked = {} /\ ~(granted # {} \/ differs)
    <3>1. script = <<>>
        BY <1>3, <1>9, <2>4
    <3> QED  BY <1>9, <2>4, <3>1
  <2> QED  BY <2>1, <2>2, <2>3, <2>4
<1>11. script = <<>> => sv.row[id.acct].exists
    BY <1>1, <1>6, <1>10
<1>12. \A i \in DOMAIN script :
           \/ script[i].verb = "REVOKE" /\ i = 1
           \/ /\ script[i].verb = "GRANT" /\ Meant(script[i].privs) \subseteq Meant(body.privs)
              /\ script[i].opt <=> body.opt = "true"
    BY <1>2, <1>4, <1>10
<1>13. ASSUME NEW x \in Meant(body.privs)
       PROVE  \/ x \in held /\ \A i \in DOMAIN script : ~Takes(script[i], x)
              \/ \E i \in DOMAIN script : script[i].verb = "GRANT" /\ x \in Meant(script[i].privs)
  <2>1. CASE x \in held /\ x \notin Meant(revoked)
      BY <1>4, <1>10, <2>1 DEF Takes
  <2>2. CASE x \in Meant(granted)
    <3>1. granted # {}
        BY <1>5, <2>2
    <3> QED  BY <1>4, <1>6, <1>10, <2>2, <3>1
  <2> QED  BY <1>1, <2>1, <2>2
<1>14. ASSUME NEW x \in held \ Meant(body.privs)
       PROVE  \E i \in DOMAIN script : Takes(script[i], x)
  <2>1. x \in Meant(revoked)
      BY <1>1
  <2>2. revoked # {}
      BY <1>5, <2>1
  <2> QED  BY <1>4, <1>10, <2>1, <2>2 DEF Takes
<1>15. ASSUME body.opt = "true"
       PROVE  \/ p \in sv.opt /\ \A i \in DOMAIN script :
                                    script[i].verb = "REVOKE" => "ALL" \notin script[i].privs
              \/ \E i \in DOMAIN script : script[i].verb = "GRANT"
  <2>1. CASE granted # {} \/ differs
      BY <1>4, <1>10, <2>1
  <2>2. CASE ~(granted # {} \/ differs)
    <3>1. p \in sv.opt /\ "ALL" \notin revoked
        BY <1>1, <1>7, <1>15, <2>2
    <3> QED  BY <1>4, <1>10, <3>1
  <2> QED  BY <2>1, <2>2
<1>16. GrantsLeft(body, sv, id, script)
    BY <1>11, <1>12, <1>13, <1>14, <1>15 DEF GrantsLeft, p, held
<1> QED  BY <1>16 DEF script

-----------------------------------------------------------------------------
(* Scripts lead to what is declared. *)

\* A script of one statement.
IsOne(script) == \E st : script = <<st>>

\* Those are the scripts of users, databases and deletes.
LEMMA Whole ==
    ASSUME NEW sv, NEW id \in ResourceID, NEW op \in {"create", "update", "delete"}, NEW body,
           op = "delete" \/ id.type \in {"user", "database"}
    PROVE  IsOne(Script(op, id, body, sv))
<1>1. CASE id.type = "user"
  <2>1. \E st : UserScript(op, id, body) = <<st>>
      BY DEF UserScript
  <2>2. Script(op, id, body, sv) = UserScript(op, id, body)
      BY <1>1 DEF Script
  <2> QED  BY <2>1, <2>2 DEF IsOne
<1>2. CASE id.type = "database"
  <2>1. \E st : DatabaseScript(op, id, body) = <<st>>
      BY DEF DatabaseScript
  <2>2. Script(op, id, body, sv) = DatabaseScript(op, id, body)
      BY <1>2 DEF Script
  <2> QED  BY <2>1, <2>2 DEF IsOne
<1>3. CASE id.type = "role" /\ op = "delete"
  <2>1. RoleScript(op, id, body, sv) = <<[verb |-> "DROP ROLE", acct |-> id.acct]>>
      BY <1>3 DEF RoleScript
  <2>2. Script(op, id, body, sv) = RoleScript(op, id, body, sv)
      BY <1>3 DEF Script
  <2> QED  BY <2>1, <2>2 DEF IsOne
<1>4. CASE id.type = "grant" /\ op = "delete"
  <2>1. GrantScript(op, id, body, sv) = <<RevokeStatement(id, {"ALL"})>>
      BY <1>4 DEF GrantScript
  <2>2. Script(op, id, body, sv) = GrantScript(op, id, body, sv)
      BY <1>4 DEF Script
  <2> QED  BY <2>1, <2>2 DEF IsOne
<1> QED  BY <1>1, <1>2, <1>3, <1>4, IdFacts DEF IsOne

\* Where one statement is all there is, what it makes settled is settled when it
\* is executed.
LEMMA OneMoves ==
    ASSUME NEW cfg, NEW sv, NEW after, NEW id, NEW whole, NEW other, NEW st, whole = <<st>>,
           NEW script, script # <<>>, OneLeft(cfg, sv, id, whole, script),
           Settled(cfg, after, id)
    PROVE  Head(script) = st /\ OneLeft(cfg, after, id, other, Tail(script))
<1>1. script = <<st>>
    BY DEF OneLeft
<1>2. Head(script) = st /\ Tail(script) = <<>>
    BY <1>1
<1> QED  BY <1>2 DEF OneLeft

\* A statement of a script that leads to what is declared leaves a script that does.
LEMMA OwnLeads ==
    ASSUME NEW cfg \in Configs, DeclaredComesBack, NEW sv \in Server, NoOrphans(sv),
           NEW id \in ResourceID, NEW op \in {"create", "update", "delete"},
           IF op = "delete" THEN id \notin DOMAIN cfg.body
           ELSE id \in DOMAIN cfg.body /\ Resettable(cfg.body[id], sv, id),
           NEW script \in Seq(StatementsFor(id, op)), script # <<>>,
           Leads(cfg, sv, id, op, script), Accepted(sv, Head(script))
    PROVE  /\ Leads(cfg, Effect(sv, Head(script)), id, op, Tail(script))
           /\ op # "delete" => Resettable(cfg.body[id], Effect(sv, Head(script)), id)
<1> DEFINE after == Effect(sv, Head(script))
           body == cfg.body[id]
           rest == Tail(script)
<1>1. Head(script) \in Statement
  <2>1. Head(script) \in StatementsFor(id, op)
      OBVIOUS
  <2> QED  BY <2>1 DEF StatementsFor
<1>2. CASE op = "delete"
  <2> DEFINE whole == Script(op, id, <<>>, sv)
  <2>1. PICK st : whole = <<st>>
    <3>1. IsOne(whole)
        BY <1>2, Whole
    <3> QED  BY <3>1 DEF IsOne
  <2>2. OneLeft(cfg, sv, id, whole, script)
      BY <1>2 DEF Leads
  <2>3. Head(script) = st
      BY <2>1, <2>2 DEF OneLeft
  <2>4. Gone(after, id)
      BY <1>1, <1>2, <2>1, <2>3, OwnDelete
  <2>5. Settled(cfg, after, id)
      BY <1>2, <2>4 DEF Settled
  <2> HIDE DEF after, whole
  <2>6. OneLeft(cfg, after, id, Script(op, id, <<>>, after), rest)
      BY <2>1, <2>2, <2>5, OneMoves
  <2> QED  BY <1>2, <2>6 DEF Leads, after
<1>3. CASE op # "delete"
  <2>0. body \in ValidBodies(id.type) /\ ComesBack(id, body) /\ id \in DOMAIN cfg.body
        /\ op \in {"create", "update"} /\ Resettable(body, sv, id)
      BY <1>3, ConfigsAssumption DEF ValidConfig, DeclaredComesBack
  <2>1. CASE id.type \in {"user", "database"}
    <3> DEFINE whole == Script(op, id, body, sv)
    <3>1. PICK st : whole = <<st>>
      <4>1. IsOne(whole)
          BY <2>1, Whole
      <4> QED  BY <4>1 DEF IsOne
    <3>2. OneLeft(cfg, sv, id, whole, script)
        BY <1>3, <2>1 DEF Leads
    <3>3. Head(script) = st
        BY <3>1, <3>2 DEF OneLeft
    <3>4. AsDeclared(body, after, id) /\ Resettable(body, after, id)
      <4> HIDE DEF body
      <4>1. CASE id.type = "user"
          BY <1>1, <2>0, <3>1, <3>3, <4>1, OwnUser
      <4>2. CASE id.type = "database"
        <5>1. AsDeclared(body, after, id)
            BY <2>0, <3>1, <3>3, <4>2, OwnDatabase
        <5> QED  BY <4>2, <5>1 DEF Resettable
      <4> QED  BY <2>1, <4>1, <4>2
    <3>5. Settled(cfg, after, id)
        BY <2>0, <3>4 DEF Settled
    <3> HIDE DEF after, whole
    <3>6. OneLeft(cfg, after, id, Script(op, id, body, after), rest)
        BY <3>1, <3>2, <3>5, OneMoves
    <3> HIDE DEF rest
    <3>7. Leads(cfg, after, id, op, rest)
        BY <1>3, <2>1, <3>6 DEF Leads
    <3> QED  BY <3>4, <3>7 DEF after, rest
  <2>2. CASE id.type = "role"
    <3>1. \/ op = "create" /\ script = RoleScript(op, id, body, sv)
          \/ EdgesLeft(body, sv, id, script)
        BY <1>3, <2>2 DEF Leads
    <3> HIDE DEF body
    <3>2. EdgesLeft(body, after, id, rest)
      <4>1. CASE op = "create" /\ script = RoleScript(op, id, body, sv)
          BY <2>0, <2>2, <4>1, EdgesOfNewRole
      <4>2. CASE EdgesLeft(body, sv, id, script)
          BY <2>0, <2>2, <4>2, EdgesMove
      <4> QED  BY <3>1, <4>1, <4>2
    <3>3. Resettable(body, after, id)
        BY <2>2 DEF Resettable
    <3> HIDE DEF after, rest
    <3>4. Leads(cfg, after, id, op, rest)
        BY <1>3, <2>2, <3>2 DEF Leads, body
    <3> QED  BY <3>3, <3>4 DEF after, rest, body
  <2>3. CASE id.type = "grant"
    <3>1. GrantsLeft(body, sv, id, script)
        BY <1>3, <2>3 DEF Leads
    <3> HIDE DEF body
    <3>2. GrantsLeft(body, after, id, rest) /\ Resettable(body, after, id)
        BY <2>0, <2>3, <3>1, GrantsMove
    <3> HIDE DEF after, rest
    <3>3. Leads(cfg, after, id, op, rest)
        BY <1>3, <2>3, <3>2 DEF Leads, body
    <3> QED  BY <3>2, <3>3 DEF after, rest, body
  <2> QED  BY <2>1, <2>2, <2>3, IdFacts
<1> QED  BY <1>2, <1>3

\* The script of a handler leads to what is declared.
LEMMA StartLeads ==
    ASSUME NEW cfg \in Configs, DeclaredComesBack, NEW sv \in Server, NoOrphans(sv),
           NEW id \in ResourceID, NEW op \in {"create", "update", "delete"},
           op # "delete" => id \in DOMAIN cfg.body,
           Ready(cfg, sv, id, op), NEW body,
           body = IF op = "delete" THEN <<>> ELSE cfg.body[id]
    PROVE  Leads(cfg, sv, id, op, Script(op, id, body, sv))
<1>1. CASE op = "delete"
    BY <1>1 DEF Leads, OneLeft
<1>2. CASE op # "delete"
  <2>0. /\ body = cfg.body[id] /\ body \in ValidBodies(id.type) /\ ComesBack(id, body)
        /\ op \in {"create", "update"}
      BY <1>2, ConfigsAssumption DEF ValidConfig, DeclaredComesBack
  <2>1. CASE id.type \in {"user", "database"}
      BY <1>2, <2>0, <2>1 DEF Leads, OneLeft
  <2>2. CASE id.type = "role"
    <3>1. Script(op, id, body, sv) = RoleScript(op, id, body, sv)
        BY <2>2 DEF Script
    <3>2. op = "update" => EdgesLeft(body, sv, id, RoleScript(op, id, body, sv))
        BY <2>0, <2>2, EdgesOfUpdate DEF Ready
    <3> QED  BY <1>2, <2>0, <2>2, <3>1, <3>2 DEF Leads
  <2>3. CASE id.type = "grant"
    <3>1. Script(op, id, body, sv) = GrantScript(op, id, body, sv)
        BY <2>3 DEF Script
    <3>2. op = "update" => GrantScript(op, id, body, sv) = GrantUpdate(id, body, sv)
        BY DEF GrantScript
    <3>3. op = "update" => GrantsLeft(body, sv, id, GrantUpdate(id, body, sv))
        BY <2>0, <2>3, GrantsOfUpdate
    <3>4. op = "create" => GrantsLeft(body, sv, id, GrantScript(op, id, body, sv))
        BY <2>3, GrantsOfCreate DEF Ready
    <3>5. GrantsLeft(body, sv, id, Script(op, id, body, sv))
        BY <2>0, <3>1, <3>2, <3>3, <3>4
    <3> QED  BY <1>2, <2>0, <2>3, <3>5 DEF Leads
  <2> QED  BY <2>1, <2>2, <2>3, IdFacts
<1> QED  BY <1>1, <1>2

\* A script that leads to what is declared is over when it is there.
LEMMA LeadsEnd ==
    ASSUME NEW cfg \in Configs, NEW sv \in Server, NEW id \in ResourceID,
           NEW op \in {"create", "update", "delete"},
           IF op = "delete" THEN id \notin DOMAIN cfg.body
           ELSE id \in DOMAIN cfg.body /\ Resettable(cfg.body[id], sv, id),
           Leads(cfg, sv, id, op, <<>>)
    PROVE  Settled(cfg, sv, id)
<1>0. \A x : <<x>> # <<>>
    OBVIOUS
<1>1. CASE op = "delete"
  <2>1. IsOne(Script(op, id, <<>>, sv))
      BY <1>1, Whole
  <2> QED  BY <1>0, <1>1, <2>1 DEF Leads, OneLeft, IsOne
<1>2. CASE op # "delete"
  <2> DEFINE body == cfg.body[id]
  <2>0. body \in ValidBodies(id.type) /\ id \in DOMAIN cfg.body /\ Resettable(body, sv, id)
      BY <1>2, ConfigsAssumption DEF ValidConfig
  <2>1. CASE id.type \in {"user", "database"}
    <3>1. IsOne(Script(op, id, body, sv))
        BY <2>1, Whole
    <3>2. OneLeft(cfg, sv, id, Script(op, id, body, sv), <<>>)
        BY <1>2, <2>1 DEF Leads
    <3> QED  BY <1>0, <3>1, <3>2 DEF OneLeft, IsOne
  <2>2. CASE id.type = "role"
    <3>1. ~(op = "create" /\ <<>> = RoleScript(op, id, body, sv))
      <4>1. SUFFICES ASSUME op = "create" PROVE RoleScript(op, id, body, sv) # <<>>
          OBVIOUS
      <4>2. \A x : \A X : \A s \in Seq(X) : <<x>> \o s # <<>>
          OBVIOUS
      <4>3. body.granted \in SUBSET Account
          BY <2>0, <2>2 DEF ValidBodies
      <4>4. PICK X : EdgeStatements("GRANT ROLE", body.granted, id.acct) \in Seq(X)
          BY <4>3, EachEdge
      <4>5. RoleScript(op, id, body, sv) = <<[verb |-> "CREATE ROLE", acct |-> id.acct]>>
                 \o EdgeStatements("GRANT ROLE", body.granted, id.acct)
          BY <4>1 DEF RoleScript
      <4> QED  BY <4>2, <4>4, <4>5
    <3>2. EdgesLeft(body, sv, id, <<>>)
        BY <1>2, <2>2, <3>1 DEF Leads
    <3>3. DOMAIN <<>> = {}
        OBVIOUS
    <3>4. body.granted \subseteq Account
        BY <2>0, <2>2 DEF ValidBodies
    <3> HIDE DEF body
    <3>5. AsDeclared(body, sv, id)
        BY <2>2, <3>2, <3>3, <3>4 DEF EdgesLeft, AsDeclared
    <3> QED  BY <2>0, <3>5 DEF Settled, body
  <2>3. CASE id.type = "grant"
    <3>1. GrantsLeft(body, sv, id, <<>>)
        BY <1>2, <2>3 DEF Leads
    <3>2. DOMAIN <<>> = {}
        OBVIOUS
    <3> DEFINE p == <<id.acct, id.scope>>
    <3>3. p \in sv.opt => body.opt = "true"
        BY <2>0, <2>3 DEF Resettable
    <3> HIDE DEF body
    <3>4. /\ sv.row[id.acct].exists
          /\ \A x \in Meant(body.privs) : x \in sv.held[p]
          /\ \A x \in sv.held[p] \ Meant(body.privs) : FALSE
          /\ body.opt = "true" => p \in sv.opt
        BY <3>1, <3>2 DEF GrantsLeft
    <3>5. sv.held[p] = Meant(body.privs)
        BY <3>4
    <3> HIDE DEF p
    <3>6. AsDeclared(body, sv, id)
        BY <2>3, <3>3, <3>4, <3>5 DEF AsDeclared, p
    <3> QED  BY <2>0, <3>6 DEF Settled, body
  <2> QED  BY <2>1, <2>2, <2>3, IdFacts
<1> QED  BY <1>1, <1>2

-----------------------------------------------------------------------------
(* Every step of a run leads to what is declared. *)

\* A statement that is not executed touches nothing.
LEMMA NothingTouched ==
    ASSUME NEW cfg, NEW sv, NEW x
    PROVE  Untouched(cfg, sv, sv, x)
BY DEF Untouched

\* What a layer starts is on its way.
LEMMA SpawnLeads ==
    ASSUME NEW cfg, NEW sv, NEW layer, \A c \in layer : Awaits(cfg, sv, c)
    PROVE  /\ DOMAIN Spawn(layer) = IdsIn(layer)
           /\ \A id \in DOMAIN Spawn(layer) : OnItsWay(cfg, sv, id, Spawn(layer)[id])
<1>1. DOMAIN Spawn(layer) = IdsIn(layer)
    BY DEF Spawn, IdsIn
<1>2. ASSUME NEW id \in DOMAIN Spawn(layer) PROVE OnItsWay(cfg, sv, id, Spawn(layer)[id])
  <2>1. PICK c \in layer : c.id = id /\ Spawn(layer)[id] = Goroutine(c)
    <3>1. id \in {c.id : c \in layer}
        BY DEF Spawn
    <3> QED  BY <3>1 DEF Spawn
  <2> DEFINE w == Goroutine(c)
  <2>2. w.op = c.type /\ w.pc = (IF c.type = "noop" THEN "done" ELSE "start")
      BY DEF Goroutine
  <2>3. Awaits(cfg, sv, c)
      OBVIOUS
  <2> HIDE DEF w
  <2>4. OnItsWay(cfg, sv, id, w)
      BY <2>1, <2>2, <2>3 DEF Awaits, OnItsWay
  <2> QED  BY <2>1, <2>4 DEF w
<1> QED  BY <1>1, <1>2

\* LeadsInv holds before the first run.
LEMMA LeadsInit ==
    ASSUME \A sv \in Servers : NoOrphans(sv), Init
    PROVE  LeadsInv
BY DEF Init, LeadsInv

\* The layers of a plan lead to what is declared.
LEMMA LeadsPlan ==
    ASSUME RunsInv, LeadsInv, DeclaredComesBack, KindsAgree, NothingToReset, Plan
    PROVE  LeadsInv'
<1>1. Idle /\ UNCHANGED <<server, config, failed>> /\ NoOrphans(server)
    BY DEF Plan, LeadsInv
<1>2. layers' \in Seq(SUBSET Changes) /\ layers' # <<>> /\ Parts(layers', Changes)
  <2>1. Changes # {}
      BY DEF Plan, NothingToDo
  <2> QED  BY <2>1, LayersOfPlan DEF Plan, RunsInv
<1>3. /\ \A x \in ResourceID : Settled(config, server, x) \/ x \in IdsIn(Changes)
      /\ \A c \in Changes : Awaits(config, server, c)
    BY <1>1, PlanLeads
<1>4. \A i \in DOMAIN layers' : \A c \in layers'[i] : Awaits(config, server, c)
    BY <1>2, <1>3
<1>5. 1 \in DOMAIN layers'
    BY <1>2
<1>6. /\ DOMAIN work' = IdsIn(layers'[1])
      /\ \A id \in DOMAIN work' : OnItsWay(config, server, id, work'[id])
  <2> DEFINE layer == layers'[1]
  <2>1. work' = Spawn(layer)
      BY DEF Plan
  <2>2. \A c \in layer : Awaits(config, server, c)
      BY <1>4, <1>5
  <2> HIDE DEF layer
  <2>3. /\ DOMAIN Spawn(layer) = IdsIn(layer)
        /\ \A id \in DOMAIN Spawn(layer) : OnItsWay(config, server, id, Spawn(layer)[id])
      BY <2>2, SpawnLeads
  <2> QED  BY <2>1, <2>3 DEF layer
<1>7. LayersLead'
    BY <1>1, <1>2, <1>4, <1>6 DEF LayersLead, Parts
<1>8. failed = {} /\ AllResettable(config, server)
    BY <1>1 DEF RunsInv, Bookkeeping, NothingToReset
<1>9. \A x \in ResourceID : Settled(config, server, x) \/ \E i \in DOMAIN layers' : x \in IdsIn(layers'[i])
    BY <1>2, <1>3 DEF Parts
<1>10. Undisturbed'
    BY <1>1, <1>7, <1>8, <1>9 DEF Undisturbed
<1> QED  BY <1>1, <1>2, <1>10 DEF LeadsInv, Idle

\* What is known of a goroutine of a clean run.
LEMMA WorkingClean ==
    ASSUME RunsInv, LeadsInv, clean, NEW id \in DOMAIN work
    PROVE  /\ server \in Server /\ config \in Configs /\ NoOrphans(server)
           /\ layers # <<>> /\ Undisturbed /\ WorkOK(id, work[id]) /\ id \in ResourceID
           /\ IF work[id].op = "delete" THEN id \notin DOMAIN config.body
              ELSE id \in DOMAIN config.body /\ Resettable(config.body[id], server, id)
           /\ OnItsWay(config, server, id, work[id])
<1>1. server \in Server /\ config \in Configs /\ WorkOK(id, work[id])
    BY DEF RunsInv, Working
<1>2. layers # <<>>
    BY NotIdle
<1>3. Undisturbed /\ NoOrphans(server)
    BY <1>2 DEF LeadsInv, Idle
<1> QED  BY <1>1, <1>2, <1>3 DEF Undisturbed, AllResettable, LayersLead, WorkOK, declared

\* A goroutine that moves, and touches nothing of the others, keeps LeadsInv.
LEMMA LeadsMoves ==
    ASSUME RunsInv, LeadsInv, clean, NEW id \in DOMAIN work, NEW w,
           work' = [work EXCEPT ![id] = w], UNCHANGED <<config, layers, failed>>,
           NoOrphans(server'), OnItsWay(config, server', id, w),
           id \in DOMAIN config.body => Resettable(config.body[id], server', id),
           \A x \in ResourceID : x # id => Untouched(config, server, server', x)
    PROVE  LeadsInv'
<1>1. /\ config \in Configs /\ layers # <<>> /\ Undisturbed
      /\ layers \in Seq(SUBSET Planned) /\ 1 \in DOMAIN layers
  <2>1. layers # <<>> /\ layers \in Seq(SUBSET Planned)
      BY WorkingClean DEF RunsInv, Bookkeeping
  <2>2. 1 \in DOMAIN layers
      BY <2>1
  <2> QED  BY <2>1, <2>2, WorkingClean
<1>2. AllResettable(config, server')
  <2> SUFFICES ASSUME NEW x \in DOMAIN config.body PROVE Resettable(config.body[x], server', x)
      BY DEF AllResettable
  <2>1. x \in ResourceID /\ Resettable(config.body[x], server, x)
      BY <1>1, ConfigFacts DEF declared, Undisturbed, AllResettable
  <2>2. CASE x # id
      BY <2>1, <2>2, ResettableStays
  <2> QED  BY <2>2
<1>3. id \in IdsIn(layers[1])
    BY <1>1 DEF Undisturbed, LayersLead
<1>4. ASSUME NEW i \in DOMAIN layers, i # 1, NEW c \in layers[i] PROVE Awaits(config, server', c)
  <2>1. c \in Planned
      BY <1>1
  <2>2. c.id \in ResourceID /\ (c.type \in {"create", "update"} => c.id \in DOMAIN config.body)
      BY <2>1 DEF Planned, declared
  <2>3. c.id # id
    <3>1. IdsIn(layers[i]) \cap IdsIn(layers[1]) = {}
        BY <1>1, <1>4 DEF Undisturbed, LayersLead
    <3> QED  BY <1>3, <3>1 DEF IdsIn
  <2>4. Awaits(config, server, c)
      BY <1>1, <1>4 DEF Undisturbed, LayersLead
  <2> QED  BY <2>2, <2>3, <2>4, AwaitsStays
<1>5. ASSUME NEW j \in DOMAIN work' PROVE OnItsWay(config, server', j, work'[j])
  <2>1. CASE j = id
      BY <2>1
  <2>2. CASE j # id
    <3>1. /\ j \in ResourceID /\ OnItsWay(config, server, j, work[j]) /\ work'[j] = work[j]
          /\ work[j].op # "delete" => j \in DOMAIN config.body
        BY <2>2, WorkingClean
    <3>2. OnItsWay(config, server', j, work[j])
        BY <1>1, <2>2, <3>1, OnItsWayStays
    <3> QED  BY <3>1, <3>2
  <2> QED  BY <2>1, <2>2
<1>6. LayersLead'
    BY <1>1, <1>4, <1>5 DEF Undisturbed, LayersLead
<1>7. ASSUME NEW x \in ResourceID
      PROVE  Settled(config, server', x) \/ \E i \in DOMAIN layers : x \in IdsIn(layers[i])
  <2>1. CASE x = id
      BY <1>1, <1>3, <2>1
  <2>2. CASE x # id /\ Settled(config, server, x)
      BY <2>2, SettledStays
  <2>3. CASE ~Settled(config, server, x)
      BY <1>1, <2>3 DEF Undisturbed
  <2> QED  BY <2>1, <2>2, <2>3
<1>8. Undisturbed'
    BY <1>1, <1>2, <1>6, <1>7 DEF Undisturbed
<1> QED  BY <1>1, <1>8 DEF LeadsInv, Idle

\* A goroutine that starts keeps LeadsInv.
LEMMA LeadsStart ==
    ASSUME RunsInv, LeadsInv, DeclaredComesBack, clean, NEW id \in DOMAIN work, Start(id)
    PROVE  LeadsInv'
<1> DEFINE old == work[id]
           script == Script(old.op, id, BodyOf(id), server)
           w == [old EXCEPT !.pc = "running", !.script = script]
<1>1. /\ server \in Server /\ config \in Configs /\ NoOrphans(server) /\ id \in ResourceID
      /\ WorkOK(id, old) /\ OnItsWay(config, server, id, old) /\ Undisturbed
      /\ IF old.op = "delete" THEN id \notin DOMAIN config.body
         ELSE id \in DOMAIN config.body /\ Resettable(config.body[id], server, id)
    BY WorkingClean
<1>2. ~ShouldSkip(id)
    BY <1>1 DEF Undisturbed, ShouldSkip
<1>3. work' = [work EXCEPT ![id] = w] /\ old.pc = "start" /\ UNCHANGED <<server, config, layers, failed>>
    BY <1>2 DEF Start
<1>4. old = [op |-> old.op, pc |-> old.pc, script |-> old.script]
    BY <1>1 DEF WorkOK
<1>5. old.op \in {"create", "update", "delete"}
    BY <1>1, <1>3 DEF WorkOK, Operation
<1>6. BodyOf(id) = IF old.op = "delete" THEN <<>> ELSE config.body[id]
    BY <1>1 DEF BodyOf, declared
<1> HIDE DEF old
<1>7. Leads(config, server, id, old.op, script)
  <2>1. Ready(config, server, id, old.op)
      BY <1>1, <1>3 DEF OnItsWay
  <2> QED  BY <1>1, <1>5, <1>6, <2>1, StartLeads
<1> HIDE DEF script
<1>8. w.op = old.op /\ w.pc = "running" /\ w.script = script
    BY <1>4
<1> HIDE DEF w
<1>9. OnItsWay(config, server, id, w)
    BY <1>1, <1>7, <1>8 DEF OnItsWay
<1> QED  BY <1>1, <1>3, <1>9, NothingTouched, LeadsMoves

\* A statement that the server executes keeps it.
LEMMA LeadsExecute ==
    ASSUME RunsInv, LeadsInv, DeclaredComesBack, PrunesApart, clean,
           NEW id \in DOMAIN work, Execute(id)
    PROVE  LeadsInv'
<1> DEFINE old == work[id]
           st == Head(old.script)
           w == [old EXCEPT !.script = Tail(old.script)]
<1>1. /\ server \in Server /\ config \in Configs /\ NoOrphans(server) /\ id \in ResourceID
      /\ WorkOK(id, old) /\ OnItsWay(config, server, id, old)
      /\ IF old.op = "delete" THEN id \notin DOMAIN config.body
         ELSE id \in DOMAIN config.body /\ Resettable(config.body[id], server, id)
    BY WorkingClean
<1>2. /\ work' = [work EXCEPT ![id] = w] /\ UNCHANGED <<config, layers, failed>>
      /\ old.pc = "running" /\ old.script # <<>>
      /\ Accepted(server, st) /\ server' = Effect(server, st)
    BY DEF Execute, NextStatement, Running
<1>3. st \in StatementsFor(id, old.op) /\ st \in Statement
    BY <1>2, HeadIsLocal
<1>4. old = [op |-> old.op, pc |-> old.pc, script |-> old.script]
    BY <1>1 DEF WorkOK
<1>5. old.op \in {"create", "update", "delete"} /\ old.script \in Seq(StatementsFor(id, old.op))
    BY <1>1, <1>2 DEF WorkOK, Operation
<1> HIDE DEF old
<1>6. Leads(config, server, id, old.op, old.script) /\ (old.op = "delete" => Retains(config, id))
    BY <1>1, <1>2 DEF OnItsWay
<1>7. /\ Leads(config, Effect(server, st), id, old.op, Tail(old.script))
      /\ old.op # "delete" => Resettable(config.body[id], Effect(server, st), id)
    BY <1>1, <1>2, <1>5, <1>6, OwnLeads
<1>8. w.op = old.op /\ w.pc = old.pc /\ w.script = Tail(old.script)
    BY <1>4
<1> HIDE DEF w, st
<1>9. OnItsWay(config, server', id, w)
    BY <1>2, <1>6, <1>7, <1>8 DEF OnItsWay
<1>10. id \in DOMAIN config.body => Resettable(config.body[id], server', id)
    BY <1>1, <1>2, <1>7
<1>11. NoOrphans(server')
    BY <1>1, <1>2, <1>3, NoOrphansMade
<1>12. old.op = "delete" => Contains(config)
    BY <1>1 DEF WorkOK, PrunesApart, SelfContained, Contains, declared
<1>13. \A x \in ResourceID : x # id => Untouched(config, server, server', x)
    BY <1>1, <1>2, <1>3, <1>6, <1>12, LeavesOthers
<1> QED  BY <1>2, <1>9, <1>10, <1>11, <1>13, LeadsMoves

\* A goroutine that succeeds keeps it.
LEMMA LeadsSucceed ==
    ASSUME RunsInv, LeadsInv, clean, NEW id \in DOMAIN work, Succeed(id)
    PROVE  LeadsInv'
<1> DEFINE old == work[id]
           w == [old EXCEPT !.pc = "done"]
<1>1. /\ server \in Server /\ config \in Configs /\ NoOrphans(server) /\ id \in ResourceID
      /\ WorkOK(id, old) /\ OnItsWay(config, server, id, old)
      /\ IF old.op = "delete" THEN id \notin DOMAIN config.body
         ELSE id \in DOMAIN config.body /\ Resettable(config.body[id], server, id)
    BY WorkingClean
<1>2. /\ work' = [work EXCEPT ![id] = w] /\ UNCHANGED <<server, config, layers, failed>>
      /\ old.pc = "running" /\ old.script = <<>>
    BY DEF Succeed, Running
<1>3. old = [op |-> old.op, pc |-> old.pc, script |-> old.script]
    BY <1>1 DEF WorkOK
<1>4. old.op \in {"create", "update", "delete"}
    BY <1>1, <1>2 DEF WorkOK, Operation
<1> HIDE DEF old
<1>5. Leads(config, server, id, old.op, <<>>)
    BY <1>1, <1>2 DEF OnItsWay
<1>6. Settled(config, server, id)
    BY <1>1, <1>4, <1>5, LeadsEnd
<1>7. w.op = old.op /\ w.pc = "done"
    BY <1>3
<1> HIDE DEF w
<1>8. OnItsWay(config, server, id, w)
    BY <1>1, <1>6, <1>7 DEF OnItsWay
<1> QED  BY <1>1, <1>2, <1>8, NothingTouched, LeadsMoves

\* What the changes of a layer that is done were for is settled.
LEMMA LayerSettled ==
    ASSUME LayerDone, Undisturbed, NEW x \in IdsIn(layers[1])
    PROVE  Settled(config, server, x)
BY DEF LayerDone, Undisturbed, LayersLead, OnItsWay

\* Passing to the next layer keeps it.
LEMMA LeadsNextLayer ==
    ASSUME RunsInv, LeadsInv, clean, NextLayer
    PROVE  LeadsInv'
<1>1. /\ layers \in Seq(SUBSET Planned) /\ Len(layers) > 1 /\ layers' = Tail(layers)
      /\ LayerDone /\ UNCHANGED <<server, config, failed>>
    BY DEF RunsInv, Bookkeeping, NextLayer
<1>2. Undisturbed /\ NoOrphans(server) /\ layers # <<>>
    BY <1>1 DEF LeadsInv, LayerDone, Idle
<1>3. /\ layers' # <<>> /\ 1 \in DOMAIN layers'
      /\ \A i \in DOMAIN layers' : /\ i + 1 \in DOMAIN layers /\ layers'[i] = layers[i + 1]
                                   /\ i + 1 # 1 /\ i \in Nat
      /\ \A i \in DOMAIN layers : i # 1 => i - 1 \in DOMAIN layers' /\ layers'[i - 1] = layers[i]
  <2>1. layers' # <<>> /\ layers' \in Seq(SUBSET Planned)
      BY <1>1, TailOfMany
  <2>2. 1 \in DOMAIN layers'
      BY <2>1
  <2>3. /\ \A i \in DOMAIN Tail(layers) :
              i + 1 \in DOMAIN layers /\ Tail(layers)[i] = layers[i + 1] /\ i # 0 /\ i \in Nat
        /\ \A i \in DOMAIN layers : i # 1 =>
              i - 1 \in DOMAIN Tail(layers) /\ Tail(layers)[i - 1] = layers[i]
      BY <1>1, <1>2, HeadAndTail
  <2> QED  BY <1>1, <2>1, <2>2, <2>3
<1>4. \A i \in DOMAIN layers' : \A c \in layers'[i] : Awaits(config, server, c)
    BY <1>2, <1>3 DEF Undisturbed, LayersLead
<1>5. /\ DOMAIN work' = IdsIn(layers'[1])
      /\ \A id \in DOMAIN work' : OnItsWay(config, server, id, work'[id])
  <2> DEFINE layer == layers'[1]
  <2>1. work' = Spawn(layer)
      BY DEF NextLayer
  <2>2. \A c \in layer : Awaits(config, server, c)
      BY <1>3, <1>4
  <2> HIDE DEF layer
  <2>3. /\ DOMAIN Spawn(layer) = IdsIn(layer)
        /\ \A id \in DOMAIN Spawn(layer) : OnItsWay(config, server, id, Spawn(layer)[id])
      BY <2>2, SpawnLeads
  <2> QED  BY <2>1, <2>3 DEF layer
<1>6. \A i, j \in DOMAIN layers' : i # j => IdsIn(layers'[i]) \cap IdsIn(layers'[j]) = {}
  <2> SUFFICES ASSUME NEW i \in DOMAIN layers', NEW j \in DOMAIN layers', i # j
               PROVE  IdsIn(layers'[i]) \cap IdsIn(layers'[j]) = {}
      OBVIOUS
  <2>1. /\ i + 1 \in DOMAIN layers /\ layers'[i] = layers[i + 1]
        /\ j + 1 \in DOMAIN layers /\ layers'[j] = layers[j + 1]
        /\ i + 1 # j + 1
      BY <1>3
  <2> QED  BY <1>2, <2>1 DEF Undisturbed, LayersLead
<1>7. LayersLead'
    BY <1>1, <1>4, <1>5, <1>6 DEF LayersLead
<1>8. ASSUME NEW x \in ResourceID
      PROVE  Settled(config, server, x) \/ \E i \in DOMAIN layers' : x \in IdsIn(layers'[i])
  <2>1. CASE x \in IdsIn(layers[1])
      BY <1>1, <1>2, <2>1, LayerSettled
  <2>2. CASE \E i \in DOMAIN layers : i # 1 /\ x \in IdsIn(layers[i])
      BY <1>3, <2>2
  <2> QED  BY <1>2, <2>1, <2>2 DEF Undisturbed
<1>9. Undisturbed'
    BY <1>1, <1>2, <1>7, <1>8 DEF Undisturbed
<1> QED  BY <1>1, <1>2, <1>3, <1>9 DEF LeadsInv, Idle

\* The end of a run keeps it: everything is settled.
LEMMA LeadsFinish ==
    ASSUME RunsInv, LeadsInv, clean, Finish
    PROVE  LeadsInv'
<1>1. /\ layers \in Seq(SUBSET Planned) /\ Len(layers) = 1 /\ layers' = <<>>
      /\ LayerDone /\ UNCHANGED <<server, config>>
    BY DEF RunsInv, Bookkeeping, Finish
<1>2. Undisturbed /\ NoOrphans(server)
    BY <1>1 DEF LeadsInv, LayerDone
<1>3. \A i \in DOMAIN layers : i = 1
    BY <1>1
<1>4. \A x \in ResourceID : Settled(config, server, x)
    BY <1>1, <1>2, <1>3, LayerSettled DEF Undisturbed
<1> QED  BY <1>1, <1>2, <1>4 DEF LeadsInv, Idle

\* What a run makes of the server leaves no orphans, nor do administrators.
LEMMA NoOrphansNext ==
    ASSUME RunsInv, NoOrphans(server), [Next]_vars
    PROVE  NoOrphans(server')
<1>1. CASE Plan \/ NextLayer \/ Ended \/ UNCHANGED vars
    BY <1>1 DEF Plan, NextLayer, Ended, vars
<1>2. CASE Meddle
    BY <1>2, NoOrphansMade, ConfigsAssumption DEF Meddle, RunsInv
<1>3. ASSUME NEW id \in DOMAIN work, Moved(id) PROVE NoOrphans(server')
  <2>1. PICK w : Advances(id, work[id], w)
      BY <1>3 DEF Moved
  <2>2. work[id].script # <<>> => Head(work[id].script) \in Statement
      BY HeadIsLocal
  <2> QED  BY <2>1, <2>2, NoOrphansMade DEF Advances, RunsInv
<1> QED  BY <1>1, <1>2, <1>3, RunSteps

\* Every step that meets the conditions keeps LeadsInv.
LEMMA LeadsNext ==
    ASSUME RunsInv, LeadsInv, DeclaredComesBack, PrunesApart, KindsAgree, NothingToReset, [Next]_vars
    PROVE  LeadsInv'
<1>1. CASE clean'
  <2>1. CASE Plan
      BY <2>1, LeadsPlan
  <2>2. ASSUME NEW id \in DOMAIN work, Apply(id) PROVE LeadsInv'
    <3>1. ~Rejected(id)
        BY <1>1 DEF Rejected, Fail
    <3>2. clean
        BY <1>1, <2>2, <3>1 DEF Apply, Start, Execute, Succeed
    <3> QED  BY <2>2, <3>1, <3>2, LeadsStart, LeadsExecute, LeadsSucceed DEF Apply
  <2>3. CASE NextLayer
      BY <1>1, <2>3, LeadsNextLayer DEF NextLayer
  <2>4. CASE Finish
      BY <1>1, <2>4, LeadsFinish DEF Finish
  <2>5. CASE Environment
      BY <1>1, <2>5 DEF Environment, Lost, Fail, Kill, Meddle
  <2>6. CASE UNCHANGED vars
      BY <2>6 DEF vars, LeadsInv, Idle, Undisturbed, LayersLead
  <2> QED  BY <2>1, <2>2, <2>3, <2>4, <2>5, <2>6 DEF Next, Run
<1>2. CASE ~clean'
    BY <1>2, NoOrphansNext DEF LeadsInv
<1> QED  BY <1>1, <1>2

\* The declarations stay what they are.
LEMMA ConfigKept ==
    ASSUME RunsInv, [Next]_vars
    PROVE  PrunesApart' <=> PrunesApart
<1>1. config' = config
    BY RunSteps DEF Moved, Advances, Plan, NextLayer, Ended, Meddle, vars
<1> QED  BY <1>1 DEF PrunesApart, SelfContained, declared

\* CleanRunSettles of MySQLRuns: what is declared and comes back under the same
\* names, on a server without orphans, with nothing on it when a run plans that
\* the handlers cannot take back or that is declared as the other kind of
\* account, is there as declared, and what is pruned is gone, after a run in
\* which nothing failed and with which nobody interfered: the next plan has
\* nothing to do, although the statements of the goroutines of a layer come in
\* any order. CleanRunSettles is about runs that prune no account of which
\* something is declared (PrunesApart): after one that does there may be
\* changes left, and run mysql_leftover shows them.
THEOREM CleanRunLeavesNothing ==
    DeclaredComesBack /\ (\A sv \in Servers : NoOrphans(sv)) /\ Spec /\ [](KindsAgree /\ NothingToReset)
        => []CleanRunSettles
<1> SUFFICES ASSUME DeclaredComesBack, \A sv \in Servers : NoOrphans(sv)
             PROVE  Spec /\ [](KindsAgree /\ NothingToReset) => []CleanRunSettles
    OBVIOUS
<1>1. Init => (PrunesApart => LeadsInv)
    BY LeadsInit
<1>2. RunsInv /\ (PrunesApart => LeadsInv) /\ (KindsAgree /\ NothingToReset) /\ [Next]_vars
          => (PrunesApart => LeadsInv)'
    BY LeadsNext, ConfigKept
<1>3. RunsInv /\ (PrunesApart => LeadsInv) => CleanRunSettles
    BY SettledIsDone DEF LeadsInv, CleanRunSettles
<1> QED  BY RunsInit, RunsNext, <1>1, <1>2, <1>3, PTL DEF Spec
=============================================================================
