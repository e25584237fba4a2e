---------------------------- MODULE MCMySQLRuns ----------------------------
(* MySQLRuns with one user u, two roles a and b and the caller c, schemas db   *)
(* and tmp, grants on db, the schema mysql and *.*, two privileges p and q and the rest of the   *)
(* privileges as one more that nobody holds, so that no list of them is shown  *)
(* as ALL PRIVILEGES.                                                          *)
EXTENDS MySQLRuns, TLC

CONSTANTS u, a, b, c, all, sys, db, tmp, p, q, rest, old, new, utf8, latin

MCAccount == {u, a, b, c}
MCScope == {all, sys, db}
MCPriv == {p, q, rest}
MCSchema == {db, tmp}
MCCharset == {utf8, latin}

-----------------------------------------------------------------------------
(* Declared resources. *)

User(auth, limit) == [auth |-> auth, locked |-> FALSE, limit |-> limit, comment |-> "none"]
Granted(roles) == [granted |-> roles]
Grant(privs, opt) == [privs |-> privs, opt |-> opt]
Database(charset) == [charset |-> charset]

Config(body, prune, allow) ==
    [body |-> body, refs |-> [id \in DOMAIN body |-> {}],
     prune |-> prune, allow |-> allow]

Refer(cfg, from, to) == [cfg EXCEPT !.refs[from] = {to}]

\* A user, its schema and its grants; the caller's as well when the rest is
\* pruned.
UserBody == UserId(u) :> User(new, 1) @@ GrantId(u, db) :> Grant({p}, "unset")
                @@ GrantId(u, all) :> Grant({q}, "true")
                @@ DatabaseId(db) :> Database(utf8)

CallerBody == UserId(c) :> User(old, 0) @@ GrantId(c, all) :> Grant({p}, "unset")

\* A role granted to another, declared with or without a reference, either way
\* round, and what they may do.
RoleBody(x, y) == RoleId(x) :> Granted({y}) @@ RoleId(y) :> Granted({})
                    @@ GrantId(x, db) :> Grant({p, q}, "true")

\* Grants of and to accounts that are not declared.
OutsideBody == GrantId(b, db) :> Grant({p}, "unset") @@ RoleId(a) :> Granted({b})

MCConfigs ==
    {Config(UserBody, FALSE, TRUE),
     Config(RoleBody(a, b), FALSE, FALSE),
     Refer(Config(RoleBody(b, a), FALSE, FALSE), RoleId(b), RoleId(a)),
     Config(UserBody @@ CallerBody, TRUE, TRUE),
     Config(RoleId(a) :> Granted({}), TRUE, FALSE),
     Config(CallerBody, TRUE, FALSE),
     Config(UserBody, TRUE, FALSE),
     Config(OutsideBody, FALSE, FALSE),
     Config(OutsideBody, TRUE, FALSE)}

-----------------------------------------------------------------------------
(* Servers. *)

CallerRow == [NoRow EXCEPT !.exists = TRUE, !.auth = old]

\* Only the caller, with a required privilege.
Fresh == [row |-> [x \in MCAccount |-> IF x = c THEN CallerRow ELSE NoRow],
          edges |-> {},
          held |-> [x \in MCAccount, s \in MCScope |-> IF x = c /\ s = all THEN {p} ELSE {}],
          opt |-> {},
          schema |-> [x \in MCSchema |-> NoSchema]]

\* Everything exists, but not as declared.
Drifted == [Fresh EXCEPT !.row[u] = CallerRow, !.row[a] = RoleRow, !.row[b] = RoleRow,
                         !.edges = {<<a, b>>},
                         !.held[u, db] = {q}, !.held[a, db] = {q}, !.held[b, all] = {p},
                         !.held[c, sys] = {q},
                         !.opt = {<<a, db>>},
                         !.schema = [x \in MCSchema |-> latin]]

\* The caller depends on a role and on what it may do in the schema mysql.
Depending == [Drifted EXCEPT !.edges = {<<b, c>>}, !.held[c, sys] = {p}]

MCServers == {Fresh, Drifted, Depending}

MCMeddling == {[verb |-> "DROP USER", acct |-> u],
               [verb |-> "DROP ROLE", acct |-> b],
               [verb |-> "REVOKE", acct |-> u, scope |-> db, privs |-> {p}],
               [verb |-> "GRANT ROLE", role |-> a, acct |-> c],
               [verb |-> "CREATE SCHEMA", schema |-> db, charset |-> latin]}

-----------------------------------------------------------------------------
(* Single cases, for the run that refutes a document of the code. *)

\* Of two users that are there, one is declared as it is not, without its lock or
\* limit, and one is not declared, but granted something.
LeftoverConfigs ==
    {Config(CallerBody @@ UserId(a) :> User(old, 0)
                @@ GrantId(u, db) :> Grant({p}, "unset"), TRUE, FALSE)}

LeftoverServers == {[Fresh EXCEPT !.row[u] = CallerRow, !.row[a] = row] :
                       row \in {[CallerRow EXCEPT !.locked = TRUE], [CallerRow EXCEPT !.limit = 1]}}
=============================================================================
