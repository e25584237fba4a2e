--------------------------- MODULE MCMySQLSession ---------------------------
(* Instances of MySQLSession: every account of a wide family on one provider *)
(* block, and a wide family of provider blocks on one server.                *)
EXTENDS MySQLSession

Fields == {"endpoint", "auth", "tls", "version", "username", "password", "region",
           "aws_profile", "tls_ca", "tls_cert", "tls_key"}
Block(set) == set @@ [f \in Fields |-> ""]

PasswordBlock == Block([endpoint |-> "db", auth |-> "password", version |-> "8.4",
                        username |-> "me", password |-> "secret"])
IAMBlock == Block([endpoint |-> "db", auth |-> "rds_iam", version |-> "8.4",
                   username |-> "me", region |-> "here"])

\* Blocks that differ from a good one in up to two fields.
Changes ==
    {<<"endpoint", "">>, <<"endpoint", "elsewhere">>, <<"auth", "">>, <<"auth", "kerberos">>,
     <<"tls", "disabled">>, <<"tls", "skip-verify">>, <<"tls", "on">>, <<"version", "8.0">>,
     <<"version", "5.7">>, <<"username", "">>, <<"password", "">>, <<"password", "wrong">>,
     <<"region", "">>, <<"region", "there">>, <<"aws_profile", "missing">>,
     <<"tls_ca", "good">>, <<"tls_ca", "broken">>, <<"tls_cert", "good">>,
     <<"tls_cert", "broken">>, <<"tls_key", "good">>}

Blocks ==
    {[base EXCEPT ![c[1]] = c[2], ![d[1]] = d[2]] :
        base \in {PasswordBlock, IAMBlock}, c \in Changes, d \in Changes}

-----------------------------------------------------------------------------
SHA(password, salt) == HashOf(CachingSHA2, password, salt, 5)

Line(kind, privs, scope, opt) ==
    [kind |-> kind, privs |-> privs, scope |-> scope, opt |-> opt, odd |-> 0]

Usage == Line("table", <<<<"USAGE">>>>, <<"*", "*">>, FALSE)
Select == Line("table", <<<<"SELECT">>, <<"SHOW", "VIEW">>>>, <<"app", "*">>, FALSE)

Base == [user |-> "u", host |-> "%", role |-> FALSE, plugin |-> CachingSHA2,
         auth |-> SHA("pw", "salt"), set |-> <<>>, grants |-> <<Usage>>,
         granted |-> {}, odd |-> 0]

RoleAccount == [Base EXCEPT !.user = "r", !.role = TRUE, !.auth = NoHash,
                            !.set = "locked" :> "yes" @@ "expire" :> "EXPIRED",
                            !.grants = <<Usage, Select>>, !.granted = {"other"}]

Settings ==
    {<<f, "yes">> : f \in {"SSL", "X509", "locked"}}
    \cup {<<f, "text">> : f \in {"SUBJECT", "ISSUER", "CIPHER", "attribute", "default role"}}
    \cup {<<f, "10">> : f \in {"MAX_QUERIES_PER_HOUR", "MAX_UPDATES_PER_HOUR",
                              "MAX_CONNECTIONS_PER_HOUR", "MAX_USER_CONNECTIONS",
                              "expire", "history", "reuse", "attempts"}}
    \cup {<<"expire", "NEVER">>, <<"expire", "EXPIRED">>,
          <<"current", "OPTIONAL">>, <<"current", "ENFORCED">>}

\* REQUIRE SSL, REQUIRE X509 and the named requirements exclude each other.
Compatible(s, t) ==
    LET requirements == {"SSL", "X509", "SUBJECT", "ISSUER", "CIPHER"}
    IN  s = t \/ (s[1] # t[1] /\ ({s[1], t[1]} \cap {"SSL", "X509"} = {}
                                \/ ~({s[1], t[1]} \subseteq requirements)))

SetOf(s, t) == s[1] :> s[2] @@ t[1] :> t[2]

AllSet == [f \in {s[1] : s \in Settings} \ {"SSL", "X509"} |->
               CASE f = "current" -> "OPTIONAL"
                 [] OTHER -> (CHOOSE s \in Settings : s[1] = f)[2]]

Authenticated ==
    {[Base EXCEPT !.plugin = p, !.auth = h] :
        p \in {CachingSHA2, Native, "AWSAuthenticationPlugin"},
        h \in {NoHash, SHA("pw", "salt"), SHA("pw", "other"), SHA("new", "salt"),
               HashOf(Native, "pw", "", 0), HashOf("text", "RDS", "", 0)}}

Some == <<<<"INSERT">>, <<"CREATE", "TEMPORARY", "TABLES">>, <<"SELECT">>>>
Scopes == {<<"*", "*">>, <<"app", "*">>, <<"app", "t">>}

\* SHOW GRANTS of an account that holds something of everything on a scope.
AllLines(scope, opt) ==
    <<Line("table", <<<<"ALL", "PRIVILEGES">>>>, scope, opt),
      Line("table", Some, scope, ~opt),
      Line("table", <<<<"USAGE">>>>, <<"*", "*">>, opt),
      Line("columns", Some, scope, opt),
      Line("routine", <<<<"EXECUTE">>>>, scope, opt),
      Line("proxy", <<>>, scope, opt),
      Line("role", <<>>, scope, opt)>>

OddLines ==
    {[Line("table", Some, scope, opt) EXCEPT !.odd = k] :
        scope \in Scopes, opt \in BOOLEAN, k \in 1 .. 8}
    \cup {[Line("table", Some, <<"app", "t">>, TRUE) EXCEPT !.odd = k] : k \in 9 .. 11}
    \cup {Line("revoke", Some, scope, FALSE) : scope \in Scopes}

\* The unknown word at every place of the statement.
Odd(a) == {[a EXCEPT !.odd = k] : k \in 0 .. Len(ShowCreateUser(a)) + 1}

Varied ==
    {[Base EXCEPT !.set = SetOf(p[1], p[2])] :
        p \in {q \in Settings \X Settings : Compatible(q[1], q[2])}}
    \cup Authenticated
    \cup Odd(Base) \cup Odd([Base EXCEPT !.set = AllSet])
    \cup {[Base EXCEPT !.grants = AllLines(scope, opt)] : scope \in Scopes, opt \in BOOLEAN}
    \cup {[Base EXCEPT !.grants = <<Usage, l>>] : l \in OddLines}

Server(accounts) ==
    [endpoint |-> "db", logins |-> {<<"me", "secret">>, <<"me", "here">>}, trusted |-> TRUE,
     version |-> <<8, 4, 5>>, who |-> <<"me", "%">>, defaults |-> {"r"},
     edges |-> {"r", "other"}, schemas |-> {"app"}, accounts |-> accounts]

Busy == Server({[Base EXCEPT !.grants = <<Usage, Select>>], RoleAccount})

Case(block, srv, f, d) ==
    [conf |-> block, server |-> srv, bounds |-> [faults |-> f, drops |-> d]]

MCCases ==
    {Case(PasswordBlock, Server({a}), 0, 0) : a \in Varied}
    \cup {Case(b, Server({}), 0, 0) : b \in Blocks}
    \cup {Case(b, [Server({}) EXCEPT !.version = v, !.trusted = FALSE], 0, 0) :
            b \in Blocks, v \in {<<8, 4, 5>>, <<8, 0, 35>>, <<8>>}}
    \cup {Case(b, Busy, 1, 1) : b \in {PasswordBlock, IAMBlock}}
    \cup {Case(PasswordBlock, Busy, 2, 1)}

MCDeclared ==
    {d \in [plugin : {"", CachingSHA2, Native, AWSIAM}, password : {"", "pw"},
            hash : {NoHash, SHA("pw", "salt"), HashOf(Native, "pw", "", 0)},
            attrs : {<<>>, "locked" :> "yes"}] : ValidDeclared(d)}
=============================================================================
