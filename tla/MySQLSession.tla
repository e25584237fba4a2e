---------------------------- MODULE MySQLSession ----------------------------
(***************************************************************************)
(* The mysql provider's session: Configure validates the provider block,   *)
(* opens a pool of one connection, checks the server's version and learns  *)
(* who the caller is; Discover then runs every handler's queries over that *)
(* connection. A query waits while the rows of another one are open.       *)
(*                                                                         *)
(* Meanwhile queries can fail, rows can break off, and somebody else can   *)
(* drop an account. A provider block is a function from its fields to      *)
(* strings, "" for what is not set.                                        *)
(***************************************************************************)
EXTENDS MySQLAnswers, FiniteSets

CONSTANTS
    Cases,      \* what a session starts from: [conf, server, bounds]
    Declared    \* declared users, to compare the discovered ones with

VARIABLES
    conf,       \* the provider block
    server,     \* the server: [endpoint, logins, trusted, version, who,
                \* defaults, edges, schemas, accounts]
    pc,         \* what the session does next
    conn,       \* the pool: [state, tls]
    busy,       \* an open result set holds the connection
    prov,       \* the provider's fields [client, version, caller]
    left,       \* the handlers that did not discover yet
    now,        \* the handler that does
    todo,       \* the accounts it has listed and not read
    got,        \* the resources it has read
    found,      \* the resources of the handlers that finished
    diags,      \* the handlers that failed
    faults,     \* how many queries failed
    gone,       \* the accounts that were dropped
    bounds,     \* bounds of both: [faults, drops]
    cut         \* what was lost without an error: "roles", "grants"

\* An account is a user or a role, and a stored string of a plugin is one that
\* the plugin makes.
ValidAccount(a) ==
    /\ a.role \in BOOLEAN
    /\ a.plugin \notin {"", AWSIAM}
    /\ a.auth = HashOf(a.auth.plugin, a.auth.password, a.auth.salt, a.auth.rounds)
    /\ a.auth.plugin = Native => a.auth.salt = "" /\ a.auth.rounds = 0
    /\ a.auth.plugin = CachingSHA2 => a.auth.rounds # 0

ASSUME SessionAssumption ==
    /\ \A c \in Cases : \A a \in c.server.accounts : ValidAccount(a)
    /\ \A d \in Declared : ValidDeclared(d) /\ d.attrs = Kept(d.attrs)

vars == <<conf, server, pc, conn, busy, prov, left, now, todo, got, found, diags,
          faults, gone, bounds, cut>>

Handlers == {"user", "grant", "role", "database"}
NoCaller == [who |-> <<>>, defaults |-> {}, granted |-> {}]

Init ==
    /\ \E c \in Cases : conf = c.conf /\ server = c.server /\ bounds = c.bounds
    /\ faults = 0
    /\ pc = "validate"
    /\ conn = [state |-> "none", tls |-> ""]
    /\ busy = FALSE
    /\ prov = [client |-> FALSE, version |-> "", caller |-> NoCaller]
    /\ left = Handlers
    /\ now = ""
    /\ todo = {} /\ got = {} /\ found = {} /\ diags = {} /\ gone = {} /\ cut = {}

-----------------------------------------------------------------------------
(* Configure. *)

discovery == <<busy, left, now, todo, got, found, diags, gone, bounds>>

Target == ("8.0" :> <<8, 0>>) @@ ("8.4" :> <<8, 4>>)

\* resolveTLSField
TLSMode == IF conf.tls = "" THEN "required" ELSE conf.tls
TLSModes == {"required", "skip-verify", "disabled"}

CommonFieldsAreValid ==
    /\ conf.endpoint # "" /\ conf.auth # ""
    /\ TLSMode \in TLSModes
    /\ conf.version \in DOMAIN Target

AuthFieldsAreValid ==
    \/ conf.auth = "password" /\ conf.username # "" /\ conf.password # ""
    \/ /\ conf.auth = "rds_iam" /\ TLSMode # "disabled"
       /\ conf.username # "" /\ conf.region # ""

\* p.version is set before the fields of the chosen auth are looked at.
Validate ==
    /\ pc = "validate"
    /\ pc' = IF CommonFieldsAreValid /\ AuthFieldsAreValid THEN "connect" ELSE "failed"
    /\ prov' = IF CommonFieldsAreValid THEN [prov EXCEPT !.version = conf.version] ELSE prov
    /\ UNCHANGED <<conf, server, conn, faults, cut, discovery>>

\* applyTLSConfig reads the files only where the server is verified.
MaterialIsUsable ==
    TLSMode = "required" =>
        /\ conf.tls_ca # "broken"
        /\ (conf.tls_cert = "") = (conf.tls_key = "")
        /\ conf.tls_cert # "broken"

\* NewPasswordClient, NewRDSIAMClient: nothing is sent to the server yet.
NewClient ==
    /\ pc = "connect"
    /\ IF MaterialIsUsable /\ (conf.auth = "rds_iam" => conf.aws_profile # "missing")
       THEN /\ conn' = [state |-> "open", tls |-> TLSMode]
            /\ pc' = "ping"
       ELSE pc' = "failed" /\ UNCHANGED conn
    /\ UNCHANGED <<conf, server, prov, faults, cut, discovery>>

\* A query is answered, or fails.
Answered == ~busy /\ UNCHANGED faults
Fault == faults < bounds.faults /\ faults' = faults + 1
Lost == ~busy /\ Fault

Close == conn' = [conn EXCEPT !.state = "closed"]
Abandon == Close /\ prov' = [prov EXCEPT !.client = FALSE] /\ pc' = "failed"

\* Who may log in, over what.
Admitted ==
    /\ conf.endpoint = server.endpoint
    /\ <<conf.username, IF conf.auth = "password" THEN conf.password ELSE conf.region>>
            \in server.logins
    /\ conn.tls = "required" => server.trusted \/ conf.tls_ca = "good"

Ping ==
    /\ pc = "ping"
    /\ \/ /\ Answered /\ Admitted
          /\ prov' = [prov EXCEPT !.client = TRUE] /\ pc' = "version" /\ UNCHANGED conn
       \/ ((Answered /\ ~Admitted) \/ Lost) /\ Abandon
    /\ UNCHANGED <<conf, server, cut, discovery>>

\* CompareVersions: the patch level and what follows it do not count.
SameVersion(reported, target) ==
    Len(reported) >= 2 /\ SubSeq(reported, 1, 2) = Target[target]

\* (Mutant of QueryVersion: the pool stays open when the version differs.)
QueryVersionLeavingOpen ==
    /\ pc = "version"
    /\ \/ /\ Answered
          /\ IF SameVersion(server.version, prov.version)
             THEN pc' = "caller" /\ UNCHANGED <<conn, prov>>
             ELSE pc' = "failed" /\ UNCHANGED conn /\ prov' = [prov EXCEPT !.client = FALSE]
       \/ Lost /\ Abandon
    /\ UNCHANGED <<conf, server, cut, discovery>>

QueryVersion ==
    /\ pc = "version"
    /\ \/ /\ Answered /\ SameVersion(server.version, prov.version)
          /\ pc' = "caller" /\ UNCHANGED <<conn, prov>>
       \/ ((Answered /\ ~SameVersion(server.version, prov.version)) \/ Lost) /\ Abandon
    /\ UNCHANGED <<conf, server, cut, discovery>>

\* fetchCallerIdentity keeps the identity in a local until all is read.
QueryCaller ==
    /\ pc = "caller"
    /\ \/ /\ Answered
          /\ prov' = [prov EXCEPT !.caller.who = server.who]
          /\ pc' = "defaults" /\ UNCHANGED conn
       \/ Lost /\ Abandon
    /\ UNCHANGED <<conf, server, cut, discovery>>

\* A role query that fails, or breaks off, leaves the caller without the
\* roles it did not read, and is not reported.
QueryRoles(at, field, roles, next) ==
    /\ pc = at
    /\ \/ /\ Answered
          /\ prov' = [prov EXCEPT !.caller[field] = roles]
          /\ UNCHANGED cut
       \/ /\ Lost
          /\ \E read \in SUBSET roles : prov' = [prov EXCEPT !.caller[field] = read]
          /\ cut' = cut \cup {"roles"}
    /\ pc' = next
    /\ UNCHANGED <<conf, server, conn, discovery>>

QueryDefaultRoles == QueryRoles("defaults", "defaults", server.defaults, "edges")
QueryRoleEdges == QueryRoles("edges", "granted", server.edges, "discover")

-----------------------------------------------------------------------------
(* Discover. *)

session == <<conf, server, conn, prov, bounds, gone>>

\* The map of handlers is iterated in any order.
NextHandler ==
    /\ pc = "discover"
    /\ \E h \in left :
         /\ now' = h /\ left' = left \ {h}
         /\ pc' = CASE h \in {"user", "grant"} -> "users"
                    [] h = "role" -> "roles"
                    [] h = "database" -> "schemas"
    /\ UNCHANGED <<session, busy, todo, got, found, diags, faults, cut>>

EndDiscover ==
    /\ pc = "discover" /\ left = {}
    /\ pc' = "done"
    /\ UNCHANGED <<session, busy, left, now, todo, got, found, diags, faults, cut>>

\* The handler returns with an error, and Discover goes on with the next one.
FailHandler ==
    /\ diags' = diags \cup {now}
    /\ todo' = {} /\ got' = {}
    /\ pc' = "discover"
    /\ UNCHANGED <<found, left, now, cut>>

\* The accounts that are users, or roles, when they are listed.
Listed(kind) == {a \in server.accounts \ gone : a.role = (kind = "roles")}

RowsOf(list) == IF list = "users" THEN "users rows" ELSE "roles rows"

\* The rows that are listed are in todo; the result set stays open.
OpenList ==
    /\ pc \in {"users", "roles"}
    /\ \/ /\ Answered
          /\ busy' = TRUE
          /\ todo' = todo \cup Listed(pc)
          /\ pc' = RowsOf(pc)
          /\ UNCHANGED <<left, now, got, found, diags, cut>>
       \/ Lost /\ FailHandler /\ UNCHANGED busy
    /\ UNCHANGED session

\* The grant handler lists the users, then the roles.
AfterList == IF now = "grant" /\ pc = "users rows" THEN "roles" ELSE "read"

\* (Mutant of CloseList: the rows are left open.)
CloseListNever ==
    /\ pc \in {"users rows", "roles rows"}
    /\ pc' = AfterList
    /\ UNCHANGED <<session, busy, left, now, todo, got, found, diags, faults, cut>>

\* Rows that broke off fail the handler, but in the grant handler's list of
\* roles, where rows.Err is not asked.
CloseList ==
    /\ pc \in {"users rows", "roles rows"}
    /\ busy' = FALSE
    /\ \/ /\ pc' = AfterList
          /\ UNCHANGED <<left, now, todo, got, found, diags, faults, cut>>
       \/ /\ Fault
          /\ IF now = "grant" /\ pc = "roles rows"
             THEN /\ \E seen \in SUBSET todo :
                       {a \in todo : ~a.role} \subseteq seen /\ todo' = seen
                  /\ cut' = cut \cup {"grants"}
                  /\ pc' = AfterList
                  /\ UNCHANGED <<left, now, got, found, diags>>
             ELSE FailHandler
    /\ UNCHANGED session

-----------------------------------------------------------------------------
GrantBody(s) == [type |-> "grant", user |-> s.user, host |-> s.host, scope |-> s.scope,
                 privs |-> s.privs, opt |-> s.opt]

Accounts == UNION {c.server.accounts : c \in Cases}

\* {the resources that the user handler and the grant handler make of what SHOW
\* says of an account}, or {} where it cannot be read.
Users == [a \in Accounts |->
            {{[type |-> "user"] @@ UserBody(stmt)} : stmt \in ParseCreateUser(ShowCreateUser(a))}]

Grants == [a \in Accounts |->
            {{GrantBody(stmts[i]) : i \in {j \in DOMAIN stmts : ~IsUsageOnlyDefault(stmts[j])}} :
                stmts \in ParseGrants(ShowGrants(a))}]

\* SHOW fails for an account that was dropped; a role has no edges then.
Answer(a) ==
    CASE now = "role" -> {{[type |-> "role", user |-> a.user,
                            granted |-> IF a \in gone THEN {} ELSE a.granted]}}
      [] now # "role" /\ a \in gone -> {}
      [] OTHER -> IF now = "user" THEN Users[a] ELSE Grants[a]

\* SHOW CREATE USER, SHOW GRANTS or the edges of a role, for a listed account.
ReadAccount(a) ==
    /\ pc = "read"
    /\ a \in todo
    /\ \/ /\ Answered
          /\ Answer(a) # {}
          /\ got' = got \cup UNION Answer(a)
          /\ todo' = todo \ {a}
          /\ UNCHANGED <<pc, left, now, found, diags, cut>>
       \/ Answered /\ Answer(a) = {} /\ FailHandler
       \/ Lost /\ FailHandler
    /\ UNCHANGED <<session, busy>>

EndHandler ==
    /\ pc = "read" /\ todo = {}
    /\ found' = found \cup got
    /\ got' = {}
    /\ pc' = "discover"
    /\ UNCHANGED <<session, busy, left, now, todo, diags, faults, cut>>

DiscoverSchemas ==
    /\ pc = "schemas"
    /\ \/ /\ Answered
          /\ found' = found \cup {[type |-> "database", name |-> s] : s \in server.schemas}
          /\ pc' = "discover"
          /\ UNCHANGED <<left, now, todo, got, diags, cut>>
       \/ Lost /\ FailHandler
    /\ UNCHANGED <<session, busy>>

-----------------------------------------------------------------------------
\* Somebody else drops an account that may have been listed.
Drop(a) ==
    /\ pc \in {"discover", "users", "roles", "users rows", "roles rows", "read"}
    /\ Cardinality(gone) < bounds.drops
    /\ gone' = gone \cup {a}
    /\ UNCHANGED <<conf, server, pc, conn, busy, prov, left, now, todo, got, found, diags,
                   faults, bounds, cut>>

Program ==
    \/ Validate \/ NewClient \/ Ping \/ QueryVersion \/ QueryCaller
    \/ QueryDefaultRoles \/ QueryRoleEdges
    \/ NextHandler \/ EndDiscover \/ OpenList \/ CloseList \/ DiscoverSchemas \/ EndHandler
    \/ \E a \in todo : ReadAccount(a)

Next == Program \/ \E a \in server.accounts \ gone : Drop(a)

\* Every query is answered or fails: the driver's calls return.
Spec == Init /\ [][Next]_vars /\ WF_vars(Program)
-----------------------------------------------------------------------------
(* Properties. *)

Configured == prov.client /\ pc \notin {"version", "caller", "defaults", "edges"}

\* Configure of provider.go hands over one open connection to a server of the
\* declared version, with tokens of AWS only ever sent over TLS, and knows the
\* account and the roles that the lockout guards compare deletes with, all of
\* them unless a query for them failed. When it fails, on whichever of its
\* ways out, no connection is left open and no client is kept.
SessionIsAsDeclared ==
    /\ conn.state = "open" /\ conf.auth = "rds_iam" => conn.tls # "disabled"
    /\ Configured =>
        /\ conn.state = "open"
        /\ SubSeq(server.version, 1, 2) = Target[conf.version]
        /\ prov.version = conf.version
        /\ prov.caller.who = server.who
        /\ prov.caller.defaults \subseteq server.defaults
        /\ prov.caller.granted \subseteq server.edges
        /\ "roles" \notin cut => /\ prov.caller.defaults = server.defaults
                                 /\ prov.caller.granted = server.edges
    /\ pc = "failed" => conn.state # "open" /\ ~prov.client

\* What an account holds, of what the resources have: the settings a mysql_user
\* has attributes for, and the privileges on schemas and tables.
HeldUser(a) ==
    LET shown == {f \in DOMAIN a.set : f \notin {"current", "attempts", "default role"}
                                       /\ a.set[f] \notin {"NEVER", "EXPIRED"}}
    IN  [type |-> "user", user |-> a.user, host |-> a.host, plugin |-> a.plugin,
         auth |-> a.auth, attrs |-> [f \in shown |-> a.set[f]]]

HeldPrivileges(line) ==
    {IF line.privs[i] = <<"ALL", "PRIVILEGES">> THEN <<"ALL">> ELSE line.privs[i] :
        i \in DOMAIN line.privs}

HeldGrants(a) ==
    {[type |-> "grant", user |-> a.user, host |-> a.host, scope |-> a.grants[i].scope,
      privs |-> HeldPrivileges(a.grants[i]), opt |-> a.grants[i].opt] :
        i \in {j \in DOMAIN a.grants :
                a.grants[j].kind = "table"
                /\ (a.grants[j].privs # <<<<"USAGE">>>> \/ a.grants[j].opt)}}

Held(handler, accounts) ==
    CASE handler = "user" -> {HeldUser(a) : a \in {b \in accounts : ~b.role}}
      [] handler = "grant" -> UNION {HeldGrants(a) : a \in accounts}
      [] handler = "role" -> {[type |-> "role", user |-> a.user, granted |-> a.granted] :
                                a \in {b \in accounts : b.role}}
      [] handler = "database" -> {[type |-> "database", name |-> s] : s \in server.schemas}

\* A word this release does not know, or a partial revoke.
Unreadable(handler, accounts) ==
    \/ handler = "user" /\ \E a \in accounts : ~a.role /\ a.odd # 0
    \/ handler = "grant" /\ \E a \in accounts : \E i \in DOMAIN a.grants :
                                a.grants[i].odd # 0 \/ a.grants[i].kind = "revoke"

\* A handler that does not fail has discovered what the accounts hold, each
\* clause under its own attribute, however the clauses before it ended: nothing
\* is made up, and only what was dropped, or lost with the rows of the roles,
\* is missing. It fails when a statement has a word the parser does not know
\* (the comment of parseClause wants new syntax to be caught), and otherwise
\* only when a query failed or an account was dropped between its listing and
\* its SHOW statement.
DiscoveredIsHeld ==
    \A h \in IF pc = "done" THEN Handlers ELSE {} :
        LET those == {r \in found : r.type = h}
        IN  IF h \in diags
            THEN Unreadable(h, server.accounts) \/ gone # {} \/ faults > 0
            ELSE /\ ~Unreadable(h, server.accounts \ gone) \/ "grants" \in cut
                 /\ those \subseteq Held(h, server.accounts)
                        \cup {[r EXCEPT !.granted = {}] : r \in Held("role", gone)}
                 /\ "grants" \notin cut \/ h # "grant" =>
                        Held(h, server.accounts \ gone) \subseteq those

\* Whether the account has the declared password, hash, or none for aws_iam.
HasPassword(a, d) ==
    CASE d.plugin = AWSIAM -> a.plugin = "AWSAuthenticationPlugin"
      [] d.hash # NoHash -> a.plugin = PluginOf(d) /\ a.auth = d.hash
      [] OTHER -> a.plugin = PluginOf(d) /\ a.auth.plugin = a.plugin
                    /\ a.auth.password = d.password

\* Equal of user.go says that a declared user is what was discovered exactly if
\* the account has its plugin, its password and its attributes: salts and hashes
\* do not make a difference, and defaults need not be declared. It fails only
\* for a password to be compared with an account that has none.
EqualMeansSame ==
    \A a \in IF pc = "done" THEN server.accounts ELSE {}, d \in Declared :
        HeldUser(a) \in found =>
            LET verdict == Equal(d, HeldUser(a))
            IN  /\ (verdict = "same") = (HasPassword(a, d) /\ d.attrs = HeldUser(a).attrs)
                /\ verdict = "error" => d.hash = NoHash /\ a.auth.plugin # PluginOf(d)

\* A session ends, connected or not: no query waits for the pool's only
\* connection while the rows of another one hold it.
Ends == <>(pc \in {"failed", "done"})
=============================================================================
