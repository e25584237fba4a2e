---------------------------- MODULE MySQLHandlers ----------------------------
(***************************************************************************)
(* The user, role, grant and database handlers of the mysql provider: what *)
(* each discovers on the server, when a declared resource differs from the *)
(* live one, and the script of statements with which it applies a change.  *)
(*                                                                         *)
(* A resource is identified by its type, account, and scope or schema.     *)
(***************************************************************************)
EXTENDS MySQLServer, Sequences
Ext == INSTANCE SequencesExt

NoScope == "-"
NoAccount == "-"

UserId(a) == [type |-> "user", acct |-> a, scope |-> NoScope]
RoleId(a) == [type |-> "role", acct |-> a, scope |-> NoScope]
GrantId(a, s) == [type |-> "grant", acct |-> a, scope |-> s]
DatabaseId(s) == [type |-> "database", acct |-> NoAccount, scope |-> s]

ResourceID == {UserId(a) : a \in Account} \cup {RoleId(a) : a \in Account}
                \cup {GrantId(a, s) : a \in Account, s \in Scope}
                \cup {DatabaseId(s) : s \in Schema}

\* The bodies that pass Validate. A user's auth is declared, as a password_hash
\* (MySQLSession compares passwords too); a role's body is the roles granted to
\* it; a schema's charset stands for its collation as well.
ValidBodies(type) ==
    CASE type = "user" -> {cl \in Clauses : cl.auth # Empty}
      [] type = "role" -> [granted : SUBSET Account]
      [] type = "grant" -> [privs : (SUBSET PrivName) \ {{}}, opt : {"unset", "true", "false"}]
      [] type = "database" -> [charset : Charset \cup {"unset"}]

-----------------------------------------------------------------------------
(* Discover. *)

DiscoverUsers(sv) == {UserId(a) : a \in {b \in Account : IsUser(sv.row[b])}}

DiscoverRoles(sv) == {RoleId(a) : a \in {b \in Account : IsRole(sv.row[b])}}

\* Every line of SHOW GRANTS but the USAGE that every account has.
IsUsageOnlyDefault(sv, a, s) ==
    s = Global /\ Shown(sv, a, s) = {"USAGE"} /\ <<a, s>> \notin sv.opt

DiscoverGrants(sv) ==
    {GrantId(p[1], p[2]) : p \in {q \in Account \X Scope :
        HasLine(sv, q[1], q[2]) /\ ~IsUsageOnlyDefault(sv, q[1], q[2])}}

DiscoverDatabases(sv) == {DatabaseId(s) : s \in {t \in Schema : sv.schema[t] # NoSchema}}

Discover(sv) == DiscoverUsers(sv) \cup DiscoverRoles(sv) \cup DiscoverGrants(sv)
                    \cup DiscoverDatabases(sv)

-----------------------------------------------------------------------------
(* Equal, and the structural diff. *)

\* The discovered comment is always empty, the attribute holds it.
UserDiffers(body, row) ==
    \/ body.auth # row.auth
    \/ body.locked # row.locked
    \/ body.limit # row.limit
    \/ body.comment # "none"
    \/ row.attribute # "none"

\* Attributes are compared by name: grant_option is discovered only when set.
GrantDiffers(body, sv, id) ==
    \/ body.privs # Shown(sv, id.acct, id.scope)
    \/ (body.opt = "unset") # (<<id.acct, id.scope>> \notin sv.opt)
    \/ body.opt = "false"

Differs(id, body, sv) ==
    CASE id.type = "user" -> UserDiffers(body, sv.row[id.acct])
      [] id.type = "role" -> body.granted # RolesOf(sv)[id.acct]
      [] id.type = "grant" -> GrantDiffers(body, sv, id)
      [] id.type = "database" -> body.charset # sv.schema[id.scope]

-----------------------------------------------------------------------------
(* Apply. *)

\* buildUserStatement: one statement with every declared clause.
UserScript(op, id, body) ==
    CASE op = "create" -> <<[verb |-> "CREATE USER", acct |-> id.acct, clauses |-> body]>>
      [] op = "update" -> <<[verb |-> "ALTER USER", acct |-> id.acct, clauses |-> body]>>
      [] op = "delete" -> <<[verb |-> "DROP USER", acct |-> id.acct]>>

EdgeStatements(verb, roles, a) ==
    LET each == Ext!SetToSeq(roles)
    IN  [i \in DOMAIN each |-> [verb |-> verb, role |-> each[i], acct |-> a]]

\* (Mutant of RoleScript: update only adds roles.)
RoleScriptAddOnly(op, id, body, sv) ==
    LET current == RolesOf(sv)[id.acct]
    IN  CASE op = "create" ->
               <<[verb |-> "CREATE ROLE", acct |-> id.acct]>>
                 \o EdgeStatements("GRANT ROLE", body.granted, id.acct)
          [] op = "update" ->
               EdgeStatements("GRANT ROLE", body.granted \ current, id.acct)
          [] op = "delete" -> <<[verb |-> "DROP ROLE", acct |-> id.acct]>>

\* Update reads the role's edges, adds what is missing, then removes the rest.
RoleScript(op, id, body, sv) ==
    LET current == RolesOf(sv)[id.acct]
    IN  CASE op = "create" ->
               <<[verb |-> "CREATE ROLE", acct |-> id.acct]>>
                 \o EdgeStatements("GRANT ROLE", body.granted, id.acct)
          [] op = "update" ->
               EdgeStatements("GRANT ROLE", body.granted \ current, id.acct)
                 \o EdgeStatements("REVOKE ROLE", current \ body.granted, id.acct)
          [] op = "delete" -> <<[verb |-> "DROP ROLE", acct |-> id.acct]>>

GrantStatement(id, privs, body) ==
    [verb |-> "GRANT", acct |-> id.acct, scope |-> id.scope, privs |-> privs,
     opt |-> body.opt = "true"]

RevokeStatement(id, privs) ==
    [verb |-> "REVOKE", acct |-> id.acct, scope |-> id.scope, privs |-> privs]

\* currentPrivilegesForScope.
CurrentPrivileges(sv, id) ==
    IF HasLine(sv, id.acct, id.scope) THEN Shown(sv, id.acct, id.scope) ELSE {}

\* (Mutants of GrantUpdate: nothing is revoked; all is revoked and granted.)
GrantUpdateAddOnly(id, body, sv) ==
    LET current == CurrentPrivileges(sv, id)
    IN  IF body.privs \ current # {}
        THEN <<GrantStatement(id, body.privs \ current, body)>> ELSE <<>>

GrantUpdateFromScratch(id, body, sv) ==
    <<RevokeStatement(id, {"ALL"}), GrantStatement(id, body.privs, body)>>

\* Reads SHOW GRANTS; REVOKE what is no longer declared, then GRANT what is
\* missing, or everything declared if only the grant option differs.
GrantUpdate(id, body, sv) ==
    LET current == CurrentPrivileges(sv, id)
        toRevoke == current \ body.privs
        toGrant == body.privs \ current
        optDiffers == (body.opt = "true") # (<<id.acct, id.scope>> \in sv.opt)
        listed == IF toGrant # {} THEN toGrant ELSE body.privs
    IN  (IF toRevoke # {} THEN <<RevokeStatement(id, toRevoke)>> ELSE <<>>)
          \o (IF toGrant # {} \/ optDiffers
              THEN <<GrantStatement(id, listed, body)>> ELSE <<>>)

GrantScript(op, id, body, sv) ==
    CASE op = "create" -> <<GrantStatement(id, body.privs, body)>>
      [] op = "update" -> GrantUpdate(id, body, sv)
      [] op = "delete" -> <<RevokeStatement(id, {"ALL"})>>

DatabaseScript(op, id, body) ==
    CASE op = "create" ->
            <<[verb |-> "CREATE SCHEMA", schema |-> id.scope, charset |-> body.charset]>>
      [] op = "update" ->
            <<[verb |-> "ALTER SCHEMA", schema |-> id.scope, charset |-> body.charset]>>
      [] op = "delete" -> <<[verb |-> "DROP SCHEMA", schema |-> id.scope]>>

\* The statements of one Apply, after the handler's own reads.
Script(op, id, body, sv) ==
    CASE id.type = "user" -> UserScript(op, id, body)
      [] id.type = "role" -> RoleScript(op, id, body, sv)
      [] id.type = "grant" -> GrantScript(op, id, body, sv)
      [] id.type = "database" -> DatabaseScript(op, id, body)
=============================================================================
