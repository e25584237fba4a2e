---------------------------- MODULE MySQLAnswers ----------------------------
(***************************************************************************)
(* What a MySQL server answers to SHOW CREATE USER and SHOW GRANTS, as the *)
(* captured statements in providers/mysql/parse/testdata have it: external *)
(* to the program, and the other side of the parser in MySQLStatements.    *)
(*                                                                         *)
(* An account is [user, host, role, plugin, auth, set, grants, granted,    *)
(* odd]: set maps the settings that are not the default ones to what they  *)
(* are, grants are the lines of SHOW GRANTS, and odd is where in SHOW      *)
(* CREATE USER a word stands that this release does not know (0: nowhere). *)
(***************************************************************************)
EXTENDS MySQLStatements
LOCAL INSTANCE FiniteSetsExt
LOCAL INSTANCE SequencesExt

Quoted(s) == <<"backtick", s>>
N(s) == <<"number", s>>
S(s) == <<"string", s>>
AtHost(user, host) == <<Quoted(user), At, Quoted(host)>>
Words(sequence) == [i \in DOMAIN sequence |-> W(sequence[i])]

WithOdd(tokens, odd) ==
    IF odd \notin 1 .. Len(tokens) + 1 THEN tokens
    ELSE SubSeq(tokens, 1, odd - 1) \o <<W("FOO")>> \o SubSeq(tokens, odd, Len(tokens))

ShowCreateUser(a) ==
    LET Has(f) == f \in DOMAIN a.set
        If(f, tokens) == IF Has(f) THEN tokens ELSE <<>>
        Value(f) == IF Has(f) THEN a.set[f] ELSE ""
        Flag(f) == If(f, <<W(f)>>)
        Text(f) == If(f, <<W(f), S(Value(f))>>)
        Number(f) == If(f, <<W(f), N(Value(f))>>)
        OrDefault(f) == IF Has(f) THEN <<W(Value(f))>> ELSE <<W("DEFAULT")>>
        requires == Flag("SSL") \o Flag("X509") \o Text("SUBJECT") \o Text("ISSUER")
                        \o Text("CIPHER")
        limits == Number("MAX_QUERIES_PER_HOUR") \o Number("MAX_UPDATES_PER_HOUR")
                    \o Number("MAX_CONNECTIONS_PER_HOUR") \o Number("MAX_USER_CONNECTIONS")
        expire == CASE Value("expire") = "EXPIRED" -> <<>>
                    [] Value("expire") \in {"", "NEVER"} -> OrDefault("expire")
                    [] OTHER -> <<W("INTERVAL"), N(Value("expire")), W("DAY")>>
        tokens == Words(<<"CREATE", "USER">>) \o AtHost(a.user, a.host)
            \o <<W("IDENTIFIED"), W("WITH"), S(a.plugin)>>
            \o (IF a.auth = NoHash THEN <<>> ELSE <<W("AS"), S(a.auth)>>)
            \o If("default role", Words(<<"DEFAULT", "ROLE">>) \o AtHost(Value("default role"), "%")
                                    \o <<Comma>> \o AtHost("other", "%"))
            \o <<W("REQUIRE")>> \o (IF requires = <<>> THEN <<W("NONE")>> ELSE requires)
            \o (IF limits = <<>> THEN <<>> ELSE <<W("WITH")>> \o limits)
            \o Words(<<"PASSWORD", "EXPIRE">>) \o expire
            \o <<W("ACCOUNT"), W(IF Has("locked") THEN "LOCK" ELSE "UNLOCK")>>
            \o Words(<<"PASSWORD", "HISTORY">>)
            \o (IF Has("history") THEN <<N(Value("history"))>> ELSE <<W("DEFAULT")>>)
            \o Words(<<"PASSWORD", "REUSE", "INTERVAL">>)
            \o (IF Has("reuse") THEN <<N(Value("reuse")), W("DAY")>> ELSE <<W("DEFAULT")>>)
            \o Words(<<"PASSWORD", "REQUIRE", "CURRENT">>)
            \o (IF Value("current") = "ENFORCED" THEN <<>> ELSE OrDefault("current"))
            \o If("attempts", <<W("FAILED_LOGIN_ATTEMPTS"), N(Value("attempts")),
                                W("PASSWORD_LOCK_TIME"), W("UNBOUNDED")>>)
            \o If("attribute", <<W("ATTRIBUTE"), S(Value("attribute"))>>)
    IN  WithOdd(tokens, a.odd)

\* A line of SHOW GRANTS is [kind, privs, scope, opt, odd]: its privileges are
\* sequences of words, and odd is how far behind ON the unknown word stands.
ShowGrant(a, line) ==
    LET list == [i \in DOMAIN line.privs |->
                    (IF i = 1 THEN <<>> ELSE <<Comma>>) \o Words(line.privs[i])
                    \o (IF line.kind = "columns" /\ i = Len(line.privs)
                        THEN <<<<"(", "(">>, Quoted("c"), <<")", ")">>>> ELSE <<>>)]
        Part(name) == IF name = "*" THEN <<"*", "*">> ELSE Quoted(name)
        scope == <<Part(line.scope[1]), <<".", ".">>, Part(line.scope[2])>>
        to == <<W("TO")>> \o AtHost(a.user, a.host)
        Option(what) == IF line.opt THEN Words(<<"WITH", what, "OPTION">>) ELSE <<>>
        tokens ==
            CASE line.kind = "role" ->
                   <<W("GRANT")>> \o AtHost("r", "%") \o <<Comma>> \o AtHost("other", "%")
                     \o to \o Option("ADMIN")
              [] line.kind = "proxy" ->
                   Words(<<"GRANT", "PROXY", "ON">>) \o AtHost("", "") \o to \o Option("GRANT")
              [] line.kind = "revoke" ->
                   <<W("REVOKE")>> \o FlattenSeq(list) \o <<W("ON")>> \o scope
                     \o <<W("FROM")>> \o AtHost(a.user, a.host)
              [] OTHER ->
                   <<W("GRANT")>> \o FlattenSeq(list) \o <<W("ON")>>
                     \o (IF line.kind = "routine" THEN <<W("PROCEDURE")>> ELSE <<>>)
                     \o scope \o to \o Option("GRANT")
    IN  IF line.odd = 0 THEN tokens
        ELSE WithOdd(tokens, line.odd + Min({i \in DOMAIN tokens : tokens[i] = W("ON")}))

ShowGrants(a) == [i \in DOMAIN a.grants |-> ShowGrant(a, a.grants[i])]
=============================================================================
