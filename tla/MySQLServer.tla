----------------------------- MODULE MySQLServer -----------------------------
(***************************************************************************)
(* The part of a MySQL 8 server the mysql provider reads and writes: the   *)
(* rows of mysql.user, which hold users and roles alike, the edges of      *)
(* mysql.role_edges, the privileges and grant option of each account on    *)
(* each scope, and the schemas with their character sets. The server is    *)
(* not in the repository: its behaviour is taken from the statements the   *)
(* handlers send, the comments beside them and the output captured in      *)
(* providers/mysql/parse/testdata.                                         *)
(***************************************************************************)
EXTENDS Naturals, FiniteSets, Dependencies

CONSTANTS
    Account,    \* user@host identities
    Scope,      \* what ON names: *.*, a schema, a table
    Global,     \* the scope *.*
    Priv,       \* every privilege that can be held on a scope
    Password,   \* stored authentication strings
    Schema,     \* schemas that are not the server's own
    Charset     \* their character sets and collations

Empty == "empty"    \* the authentication string of an account without one
NoSchema == "none"  \* the character set of a schema that does not exist

ASSUME ServerAssumption ==
    /\ IsFiniteSet(Account) /\ IsFiniteSet(Scope) /\ IsFiniteSet(Schema)
    /\ Charset # {} /\ NoSchema \notin Charset
    /\ Global \in Scope /\ Priv # {} /\ {"ALL", "USAGE"} \cap Priv = {}

Row == [exists : BOOLEAN, locked : BOOLEAN, auth : Password \cup {Empty},
        limit : 0 .. 1, attribute : {"none", "comment"}]

NoRow == [exists |-> FALSE, locked |-> FALSE, auth |-> Empty, limit |-> 0,
          attribute |-> "none"]

RoleRow == [NoRow EXCEPT !.exists = TRUE, !.locked = TRUE]

Server == [row : [Account -> Row], edges : SUBSET (Account \X Account),
           held : [Account \X Scope -> SUBSET Priv], opt : SUBSET (Account \X Scope),
           schema : [Schema -> Charset \cup {NoSchema}]]

\* account_locked = 'Y' AND authentication_string = ''.
IsRole(row) == row.exists /\ row.locked /\ row.auth = Empty
IsUser(row) == row.exists /\ ~IsRole(row)

\* The privilege list of a SHOW GRANTS line: every privilege of the scope is
\* shown as ALL PRIVILEGES, none as USAGE.
Shown(sv, a, s) ==
    LET held == sv.held[<<a, s>>]
    IN  IF held = Priv THEN {"ALL"} ELSE IF held = {} THEN {"USAGE"} ELSE held

\* SHOW GRANTS has a line for the scope.
HasLine(sv, a, s) ==
    sv.row[a].exists /\ (s = Global \/ sv.held[<<a, s>>] # {} \/ <<a, s>> \in sv.opt)

-----------------------------------------------------------------------------
(* Statements. *)

\* The clauses of CREATE USER and ALTER USER.
Clauses == [auth : Password \cup {Empty}, locked : BOOLEAN, limit : 0 .. 1,
            comment : {"none", "comment"}]

PrivName == Priv \cup {"ALL", "USAGE"}

Statement ==
    [verb : {"CREATE USER", "ALTER USER"}, acct : Account, clauses : Clauses]
    \cup [verb : {"CREATE ROLE", "DROP USER", "DROP ROLE"}, acct : Account]
    \cup [verb : {"GRANT ROLE", "REVOKE ROLE"}, role : Account, acct : Account]
    \cup [verb : {"GRANT"}, acct : Account, scope : Scope, privs : SUBSET PrivName,
          opt : BOOLEAN]
    \cup [verb : {"REVOKE"}, acct : Account, scope : Scope, privs : SUBSET PrivName]
    \cup [verb : {"CREATE SCHEMA", "ALTER SCHEMA"}, schema : Schema,
          charset : Charset \cup {"unset"}]
    \cup [verb : {"DROP SCHEMA"}, schema : Schema]

\* The privileges a GRANT or REVOKE of these names is about.
Meant(privs) == IF "ALL" \in privs THEN Priv ELSE privs \ {"USAGE"}

RolesOf(sv) == [a \in Account |-> {g \in Account : <<g, a>> \in sv.edges}]

\* Whether the server executes the statement. Roles cannot be granted in a
\* circle, a REVOKE on a scope the account has nothing on is an error, and
\* ALTER SCHEMA needs something to alter.
Accepted(sv, st) ==
    CASE st.verb \in {"CREATE USER", "CREATE ROLE"} -> ~sv.row[st.acct].exists
      [] st.verb \in {"ALTER USER", "DROP USER", "DROP ROLE", "GRANT"} ->
            sv.row[st.acct].exists
      [] st.verb = "REVOKE" -> HasLine(sv, st.acct, st.scope)
      [] st.verb = "GRANT ROLE" ->
            /\ sv.row[st.acct].exists /\ sv.row[st.role].exists
            /\ st.acct \notin {st.role} \cup Upstream(RolesOf(sv), st.role)
      [] st.verb = "REVOKE ROLE" ->
            sv.row[st.acct].exists /\ sv.row[st.role].exists
      [] st.verb = "CREATE SCHEMA" -> sv.schema[st.schema] = NoSchema
      [] st.verb = "ALTER SCHEMA" -> sv.schema[st.schema] # NoSchema /\ st.charset # "unset"
      [] st.verb = "DROP SCHEMA" -> sv.schema[st.schema] # NoSchema

\* A comment is stored, and shown, as an attribute (parse/testdata,
\* user_with_comment.sql).
RowOf(cl) == [exists |-> TRUE, locked |-> cl.locked, auth |-> cl.auth,
              limit |-> cl.limit, attribute |-> cl.comment]

\* ALTER changes what its clauses mention and keeps the rest.
Altered(row, cl) ==
    [row EXCEPT !.auth = cl.auth,
                !.locked = @ \/ cl.locked,
                !.limit = IF cl.limit = 0 THEN @ ELSE cl.limit,
                !.attribute = IF cl.comment = "none" THEN @ ELSE cl.comment]

\* Dropping an account drops its edges, both ways, and its privileges.
Dropped(sv, a) ==
    [sv EXCEPT !.row[a] = NoRow,
               !.edges = {e \in @ : a \notin {e[1], e[2]}},
               !.held = [p \in Account \X Scope |-> IF p[1] = a THEN {} ELSE sv.held[p]],
               !.opt = {p \in @ : p[1] # a}]

DefaultCharset == CHOOSE c \in Charset : TRUE

\* GRANT adds to what is held; REVOKE ALL takes the grant option as well.
Effect(sv, st) ==
    CASE st.verb = "CREATE USER" -> [sv EXCEPT !.row[st.acct] = RowOf(st.clauses)]
      [] st.verb = "ALTER USER" -> [sv EXCEPT !.row[st.acct] = Altered(@, st.clauses)]
      [] st.verb = "CREATE ROLE" -> [sv EXCEPT !.row[st.acct] = RoleRow]
      [] st.verb \in {"DROP USER", "DROP ROLE"} -> Dropped(sv, st.acct)
      [] st.verb = "GRANT ROLE" -> [sv EXCEPT !.edges = @ \cup {<<st.role, st.acct>>}]
      [] st.verb = "REVOKE ROLE" -> [sv EXCEPT !.edges = @ \ {<<st.role, st.acct>>}]
      [] st.verb = "GRANT" ->
            [sv EXCEPT !.held[<<st.acct, st.scope>>] = @ \cup Meant(st.privs),
                       !.opt = IF st.opt THEN @ \cup {<<st.acct, st.scope>>} ELSE @]
      [] st.verb = "REVOKE" ->
            [sv EXCEPT !.held[<<st.acct, st.scope>>] = @ \ Meant(st.privs),
                       !.opt = IF "ALL" \in st.privs
                               THEN @ \ {<<st.acct, st.scope>>} ELSE @]
      [] st.verb = "CREATE SCHEMA" ->
            [sv EXCEPT !.schema[st.schema] =
                IF st.charset = "unset" THEN DefaultCharset ELSE st.charset]
      [] st.verb = "ALTER SCHEMA" -> [sv EXCEPT !.schema[st.schema] = st.charset]
      [] st.verb = "DROP SCHEMA" -> [sv EXCEPT !.schema[st.schema] = NoSchema]
=============================================================================
