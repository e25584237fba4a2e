--------------------------- MODULE MySQLStatements ---------------------------
(***************************************************************************)
(* providers/mysql/parse: how the statements that SHOW CREATE USER and     *)
(* SHOW GRANTS answer with are read, what the handlers keep of them, and   *)
(* when a declared user equals the account that was read (Equal of user.go *)
(* and the package auth).                                                  *)
(*                                                                         *)
(* A statement is a sequence of tokens <<kind, value>>; a token without a  *)
(* value stands, in a pattern, for any token of the kind. Keywords are     *)
(* compared without case in the code and are in upper case here; numbers   *)
(* and flags are strings. What a statement says is a function from the     *)
(* names of fields to values, with no entry for what it does not mention.  *)
(***************************************************************************)
EXTENDS Naturals, Sequences, TLC
LOCAL INSTANCE FiniteSetsExt

W(keyword) == <<"word", keyword>>
Word == <<"word">>
Str == <<"string">>
Num == <<"number">>
Name == <<"name">>      \* `name` or 'name'
At == <<"@", "@">>
Comma == <<",", ",">>
Semi == <<";", ";">>

Fits(token, pattern) ==
    \/ token = pattern
    \/ pattern = Name /\ token[1] \in {"string", "backtick"}
    \/ Len(pattern) = 1 /\ token[1] = pattern[1]

Sees(tokens, i, pattern) ==
    /\ i + Len(pattern) - 1 <= Len(tokens)
    /\ \A k \in DOMAIN pattern : Fits(tokens[i + k - 1], pattern[k])

-----------------------------------------------------------------------------
(* A stored authentication string is what it was made from: a plugin, a     *)
(* password, its salt, and its rounds in thousands. NoHash is the empty one.*)

CachingSHA2 == "caching_sha2_password"
Native == "mysql_native_password"
AWSIAM == "aws_iam"

HashOf(plugin, password, salt, rounds) ==
    [plugin |-> plugin, password |-> password, salt |-> salt, rounds |-> rounds]

NoHash == HashOf("", "", "", 0)

-----------------------------------------------------------------------------
(* SHOW CREATE USER. In each mode of the parser, rules say what it may see, *)
(* which field it sets, and in which mode it goes on. Where no rule begins  *)
(* with the current token the parser goes back to the clauses; where one    *)
(* does, it is committed to it.                                             *)

NoField == "-"
Given == "given"    \* the value read, in place of a constant

Rule(mode, pattern, field, value, next) ==
    [mode |-> mode, pattern |-> pattern, field |-> field, value |-> value, next |-> next]

Clause(pattern, field, value, next) == Rule("clause", pattern, field, value, next)

Rules ==
    {Clause(<<W("IDENTIFIED"), W("WITH"), Str>>, "plugin", Given, "as"),
       Rule("as", <<W("AS"), Str>>, "auth", Given, "clause"),
     Clause(<<W("REQUIRE")>>, NoField, Given, "require"),
       Rule("require", <<W("NONE")>>, NoField, Given, "clause"),
     Clause(<<W("WITH")>>, NoField, Given, "limits"),
     Clause(<<W("PASSWORD"), W("EXPIRE")>>, "expire", "EXPIRED", "expire"),
       Rule("expire", <<W("DEFAULT")>>, "expire", "DEFAULT", "clause"),
       Rule("expire", <<W("NEVER")>>, "expire", "NEVER", "clause"),
       Rule("expire", <<W("INTERVAL"), Num, W("DAY")>>, "expire", Given, "clause"),
     Clause(<<W("PASSWORD"), W("HISTORY"), W("DEFAULT")>>, "history", "DEFAULT", "clause"),
     Clause(<<W("PASSWORD"), W("HISTORY"), Num>>, "history", Given, "clause"),
     Clause(<<W("PASSWORD"), W("REUSE"), W("INTERVAL"), W("DEFAULT")>>,
            "reuse", "DEFAULT", "clause"),
     Clause(<<W("PASSWORD"), W("REUSE"), W("INTERVAL"), Num, W("DAY")>>,
            "reuse", Given, "clause"),
     Clause(<<W("PASSWORD"), W("REQUIRE"), W("CURRENT")>>, "current", "ENFORCED", "current"),
       Rule("current", <<W("DEFAULT")>>, "current", "DEFAULT", "clause"),
       Rule("current", <<W("OPTIONAL")>>, "current", "OPTIONAL", "clause"),
     Clause(<<W("ACCOUNT"), W("LOCK")>>, "locked", "yes", "clause"),
     Clause(<<W("ACCOUNT"), W("UNLOCK")>>, "locked", "no", "clause"),
     Clause(<<W("FAILED_LOGIN_ATTEMPTS"), Num>>, "attempts", Given, "clause"),
     Clause(<<W("PASSWORD_LOCK_TIME"), W("UNBOUNDED")>>, "lock_time", "UNBOUNDED", "clause"),
     Clause(<<W("PASSWORD_LOCK_TIME"), Num>>, "lock_time", Given, "clause"),
     Clause(<<W("COMMENT"), Str>>, "comment", Given, "clause"),
     Clause(<<W("ATTRIBUTE"), Str>>, "attribute", Given, "clause"),
     Clause(<<W("DEFAULT"), W("ROLE"), Name, At, Name>>, NoField, Given, "roles"),
       Rule("roles", <<Comma, Name, At, Name>>, NoField, Given, "roles")}
    \cup {Rule(mode, <<W(flag)>>, flag, "yes", "fields") :
            mode \in {"require", "fields"}, flag \in {"SSL", "X509"}}
    \cup {Rule(mode, <<W(field), Str>>, field, Given, "fields") :
            mode \in {"require", "fields"}, field \in {"SUBJECT", "ISSUER", "CIPHER"}}
    \cup {Rule(mode, <<W("AND")>>, NoField, Given, "fields") : mode \in {"require", "fields"}}
    \cup {Rule("limits", <<W(limit), Num>>, limit, Given, "limits") :
            limit \in {"MAX_QUERIES_PER_HOUR", "MAX_CONNECTIONS_PER_HOUR",
                       "MAX_UPDATES_PER_HOUR", "MAX_USER_CONNECTIONS"}}

Modes == {r.mode : r \in Rules}
RulesOf == [m \in Modes |-> {r \in Rules : r.mode = m}]

\* What a rule sets where it is applied: its constant, or the value seen.
Setting(rule, tokens, i) ==
    IF rule.field = NoField THEN <<>>
    ELSE rule.field :> (IF rule.value # Given THEN rule.value
                        ELSE LET k == CHOOSE j \in DOMAIN rule.pattern :
                                          Len(rule.pattern[j]) = 1
                             IN  tokens[i + k - 1][2])

\* The clauses from token i on: {what they say}, or {} when they are rejected.
ReadClauses(tokens) ==
    LET end == Len(tokens) + 1
        From[i \in 1 .. end, mode \in Modes] ==
            IF i = end \/ (i < end /\ tokens[i] = Semi) THEN {<<>>}
            ELSE IF mode # "clause" /\ ~\E r \in RulesOf[mode] : Fits(tokens[i], r.pattern[1])
            THEN From[i, "clause"]
            ELSE UNION {{rest @@ Setting(r, tokens, i) :
                            rest \in From[i + Len(r.pattern), r.next]} :
                        r \in {q \in RulesOf[mode] : Sees(tokens, i, q.pattern)}}
    IN  From[6, "clause"]

ParseCreateUser(tokens) ==
    IF Sees(tokens, 1, <<W("CREATE"), W("USER"), Name, At, Name>>)
    THEN {[user |-> tokens[3][2], host |-> tokens[5][2]] @@ said : said \in ReadClauses(tokens)}
    ELSE {}

\* createUserStmtToResource: the attributes of the discovered mysql_user.
Attributes == {"SSL", "X509", "ISSUER", "SUBJECT", "CIPHER", "MAX_QUERIES_PER_HOUR",
               "MAX_CONNECTIONS_PER_HOUR", "MAX_UPDATES_PER_HOUR", "MAX_USER_CONNECTIONS",
               "expire", "history", "reuse", "locked", "comment", "attribute"}

\* What an attribute is when it is not set, or does not count as set.
Unset == {"0", "no", "", "DEFAULT", "NEVER", "EXPIRED"}

Kept(attrs) == [f \in {a \in DOMAIN attrs \cap Attributes : attrs[a] \notin Unset} |-> attrs[f]]

UserBody(said) ==
    [user |-> said.user, host |-> said.host,
     plugin |-> IF "plugin" \in DOMAIN said THEN said.plugin ELSE "",
     auth |-> IF "auth" \in DOMAIN said THEN said.auth ELSE NoHash,
     attrs |-> Kept(said)]

-----------------------------------------------------------------------------
(* SHOW GRANTS. *)

Malformed == [status |-> "malformed"]
Unsupported == [status |-> "unsupported"]   \* columns and routines
RoleGrant == [status |-> "role"]

Role == <<Name, At, Name>>

\* A statement ends here, but for a semicolon.
EndsAt(tokens, i) == i = Len(tokens) + 1 \/ (i = Len(tokens) /\ tokens[i] = Semi)

\* TO name@host [WITH what OPTION], to the end.
Recipient(tokens, i, what) ==
    /\ Sees(tokens, i, <<W("TO")>> \o Role)
    /\ \/ EndsAt(tokens, i + 4)
       \/ Sees(tokens, i + 4, <<W("WITH"), W(what), W("OPTION")>>) /\ EndsAt(tokens, i + 7)

ParseRoleGrant(tokens) ==
    IF \E n \in 1 .. Len(tokens) :
          /\ \A j \in 0 .. n - 1 : Sees(tokens, 2 + 4 * j, Role)
          /\ \A j \in 1 .. n - 1 : tokens[1 + 4 * j] = Comma
          /\ Recipient(tokens, 1 + 4 * n, "ADMIN")
    THEN RoleGrant ELSE Malformed

IsWord(tokens, i) == i \in 2 .. Len(tokens) /\ tokens[i][1] = "word"

\* The token behind the list of privileges: ON after a word, or what is
\* neither a word nor a comma between two of them.
ListEnd(tokens) ==
    Min({i \in 2 .. Len(tokens) :
            IF IsWord(tokens, i) THEN tokens[i] = W("ON") /\ IsWord(tokens, i - 1)
            ELSE ~(tokens[i] = Comma /\ IsWord(tokens, i - 1))}
          \cup {Len(tokens) + 1})

\* The words between two commas; ALL PRIVILEGES is called ALL. The code sorts
\* the names and removes duplicates.
Privileges(tokens) ==
    LET end == ListEnd(tokens)
        Starts(i) == i = 2 \/ tokens[i - 1] = Comma
        Stops(i) == i = end - 1 \/ tokens[i + 1] = Comma
        Named(i, j) == [k \in 1 .. j - i + 1 |-> tokens[i + k - 1][2]]
        names == {Named(i, CHOOSE j \in i .. end - 1 :
                            Stops(j) /\ \A k \in i .. j - 1 : ~Stops(k)) :
                    i \in {k \in 2 .. end - 1 : Starts(k)}}
    IN  {IF n = <<"ALL", "PRIVILEGES">> THEN <<"ALL">> ELSE n : n \in names}

IsScope(token) == token[1] \in {"*", "string", "backtick", "word"}

ParsePrivileges(tokens) ==
    LET on == ListEnd(tokens)
        is(i, t) == i <= Len(tokens) /\ tokens[i] = t
    IN  CASE ~is(on, W("ON")) ->
               IF is(on, <<"(", "(">>) /\ IsWord(tokens, on - 1)
               THEN Unsupported ELSE Malformed
          [] is(on, W("ON")) /\ (is(on + 1, W("PROCEDURE")) \/ is(on + 1, W("FUNCTION"))) ->
               Unsupported
          [] OTHER ->
               IF /\ Len(tokens) >= on + 3
                  /\ IsScope(tokens[on + 1]) /\ tokens[on + 2] = <<".", ".">>
                  /\ IsScope(tokens[on + 3])
                  /\ Recipient(tokens, on + 4, "GRANT")
               THEN [status |-> "privileges", privs |-> Privileges(tokens),
                     scope |-> <<tokens[on + 1][2], tokens[on + 3][2]>>,
                     user |-> tokens[on + 5][2], host |-> tokens[on + 7][2],
                     opt |-> Sees(tokens, on + 8, <<W("WITH")>>)]
               ELSE Malformed

ParseGrant(tokens) ==
    IF Len(tokens) < 2 \/ tokens[1] # W("GRANT") THEN Malformed
    ELSE IF Fits(tokens[2], Name) THEN ParseRoleGrant(tokens) ELSE ParsePrivileges(tokens)

\* (Mutant of ParseGrants: a line that cannot be read is skipped as well.)
ParseGrantsLeniently(lines) ==
    LET parsed == [i \in DOMAIN lines |-> ParseGrant(lines[i])]
    IN  {SelectSeq(parsed, LAMBDA s : s.status = "privileges")}

\* fetchAndParseGrants: {the privilege grants of the lines}, or {} when a line
\* cannot be read. Proxies, role grants and what the parser does not support
\* are skipped.
ParseGrants(lines) ==
    LET rest == SelectSeq(lines, LAMBDA t : ~Sees(t, 1, <<W("GRANT"), W("PROXY")>>))
        parsed == [i \in DOMAIN rest |-> ParseGrant(rest[i])]
    IN  IF \E i \in DOMAIN parsed : parsed[i] = Malformed THEN {}
        ELSE {SelectSeq(parsed, LAMBDA s : s.status = "privileges")}

IsUsageOnlyDefault(s) == s.scope = <<"*", "*">> /\ ~s.opt /\ s.privs = {<<"USAGE">>}

-----------------------------------------------------------------------------
(* Equal of a declared user. *)

PluginOf(declared) == IF declared.plugin = "" THEN CachingSHA2 ELSE declared.plugin

\* ValidateDeclared: exactly one of password and hash, or none for aws_iam.
ValidDeclared(d) ==
    CASE PluginOf(d) = AWSIAM -> d.password = "" /\ d.hash = NoHash
      [] PluginOf(d) \in {CachingSHA2, Native} -> (d.password = "") # (d.hash = NoHash)
      [] OTHER -> FALSE

\* ExtractCachingSHA2Params finds no salt, or ComputeCachingSHA2Hash no rounds.
HasNoParams(stored) == stored.plugin # CachingSHA2 \/ stored.rounds = 0

Compare(d, stored) ==
    IF d.hash # NoHash THEN (IF d.hash = stored THEN "same" ELSE "differs")
    ELSE IF PluginOf(d) = CachingSHA2 /\ HasNoParams(stored) THEN "error"
    ELSE LET again == IF PluginOf(d) = Native THEN HashOf(Native, d.password, "", 0)
                      ELSE HashOf(CachingSHA2, d.password, stored.salt, stored.rounds)
         IN  IF again = stored THEN "same" ELSE "differs"

\* (Mutant of Equal: the live plugin is not compared.)
EqualWhateverPlugin(d, live) ==
    LET password == IF PluginOf(d) = AWSIAM THEN "same" ELSE Compare(d, live.auth)
    IN  IF password = "same" /\ Kept(d.attrs) # live.attrs THEN "differs" ELSE password

\* "same", "differs", or "error", with which the plan fails.
Equal(d, live) ==
    LET samePlugin == IF PluginOf(d) = AWSIAM
                      THEN live.plugin \in {"AWSAuthenticationPlugin", AWSIAM}
                      ELSE live.plugin \in {"", PluginOf(d)}
        password == IF PluginOf(d) = AWSIAM THEN "same" ELSE Compare(d, live.auth)
    IN  IF ~samePlugin THEN "differs"
        ELSE IF password = "same" /\ Kept(d.attrs) # live.attrs THEN "differs"
        ELSE password
=============================================================================
