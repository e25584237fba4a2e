------------------------- MODULE MySQLSessionProofs -------------------------
(***************************************************************************)
(* The session that Configure hands over is the declared one, or is closed,*)
(* for any provider block, server and number of failing queries. The       *)
(* property is about the states after Configure; its invariant says what   *)
(* each query of Configure has established, and that Discover, whatever    *)
(* happens to it, takes nothing of it back.                                *)
(*                                                                         *)
(* Below that: Equal of user.go is exact, and what Discover finds is what  *)
(* the accounts hold, or a failure with a cause. That second invariant     *)
(* follows the lists and what has been read of them.                       *)
(***************************************************************************)
EXTENDS MySQLSession, TLAPS

Discovering == {"discover", "users", "users rows", "roles", "roles rows", "schemas",
                "read", "done"}

Connected == {"ping", "version", "caller", "defaults", "edges"} \cup Discovering

\* The variables that are records have the fields the code's structs have.
ShapeInv ==
    /\ pc \in {"validate", "connect", "failed"} \cup Connected
    /\ left \subseteq Handlers
    /\ server \in {c.server : c \in Cases}
    /\ conn = [state |-> conn.state, tls |-> conn.tls]
    /\ prov = [client |-> prov.client, version |-> prov.version, caller |-> prov.caller]
    /\ prov.caller = [who |-> prov.caller.who, defaults |-> prov.caller.defaults,
                      granted |-> prov.caller.granted]

\* A connection is open exactly between NewClient and a failure, and is not in
\* plain text where the password is a token of AWS.
ConnectionInv ==
    /\ conn.state = "open" <=> pc \in Connected
    /\ conn.state = "open" /\ conf.auth = "rds_iam" => conn.tls # "disabled"
    /\ pc = "connect" => AuthFieldsAreValid
    /\ pc \in {"validate", "connect", "ping", "failed"} => ~prov.client

\* What each query has established stays so.
ConfiguredInv ==
    /\ pc \in Connected \cup {"connect"} => prov.version = conf.version
    /\ pc \in Connected \ {"ping", "version"} => SameVersion(server.version, conf.version)
    /\ pc \in Connected \ {"ping", "version", "caller"} => prov.caller.who = server.who

\* The caller's roles are those of the server, unless a query for them failed.
RolesInv ==
    /\ pc \in {"edges"} \cup Discovering =>
          /\ prov.caller.defaults \subseteq server.defaults
          /\ "roles" \notin cut => prov.caller.defaults = server.defaults
    /\ pc \in Discovering =>
          /\ prov.caller.granted \subseteq server.edges
          /\ "roles" \notin cut => prov.caller.granted = server.edges

IInv == ShapeInv /\ ConnectionInv /\ ConfiguredInv /\ RolesInv

-----------------------------------------------------------------------------
\* The invariant holds before the first call.
LEMMA Initially == Init => IInv
<1> SUFFICES ASSUME Init PROVE IInv
    OBVIOUS
<1>1. /\ pc = "validate" /\ left = Handlers
      /\ server \in {c.server : c \in Cases}
      /\ conn = [state |-> "none", tls |-> ""]
      /\ prov = [client |-> FALSE, version |-> "", caller |-> NoCaller]
    BY DEF Init
<1>2. ShapeInv
    BY <1>1 DEF ShapeInv, NoCaller
<1>3. ConnectionInv /\ ConfiguredInv /\ RolesInv
    BY <1>1 DEF ConnectionInv, ConfiguredInv, RolesInv, Connected, Discovering
<1> QED  BY <1>2, <1>3 DEF IInv

\* The steps of Configure.
LEMMA ValidateKeeps == IInv /\ Validate => IInv'
<1> SUFFICES ASSUME IInv, Validate PROVE IInv'
    OBVIOUS
<1>1. ShapeInv'
    BY DEF IInv, ShapeInv, Validate, discovery, Connected, Discovering
<1>2. ConnectionInv'
    BY DEF IInv, ShapeInv, ConnectionInv, Validate, discovery, Connected, Discovering,
           AuthFieldsAreValid, TLSMode
<1>3. ConfiguredInv' /\ RolesInv'
    BY DEF IInv, ShapeInv, ConfiguredInv, RolesInv, Validate, discovery, Connected,
           Discovering
<1> QED  BY <1>1, <1>2, <1>3 DEF IInv

\* Connecting keeps it.
LEMMA NewClientKeeps == IInv /\ NewClient => IInv'
<1> SUFFICES ASSUME IInv, NewClient PROVE IInv'
    OBVIOUS
<1>1. \/ conn' = [state |-> "open", tls |-> TLSMode] /\ pc' = "ping"
      \/ conn' = conn /\ pc' = "failed"
    BY DEF NewClient
<1>2. ShapeInv' /\ ConnectionInv'
  <2>1. CASE conn' = [state |-> "open", tls |-> TLSMode] /\ pc' = "ping"
    <3>1. conn'.state = "open" /\ conn'.tls = TLSMode
        BY <2>1
    <3>2. ShapeInv'
        BY <2>1, <3>1 DEF IInv, ShapeInv, NewClient, discovery, Connected
    <3>3. conf.auth = "rds_iam" => TLSMode # "disabled"
        BY DEF IInv, ConnectionInv, NewClient, AuthFieldsAreValid
    <3>4. ConnectionInv'
        BY <2>1, <3>1, <3>3 DEF IInv, ConnectionInv, NewClient, discovery, Connected
    <3> QED  BY <3>2, <3>4
  <2>2. CASE conn' = conn /\ pc' = "failed"
      BY <2>2 DEF IInv, ShapeInv, ConnectionInv, NewClient, discovery, Connected, Discovering
  <2> QED  BY <1>1, <2>1, <2>2
<1>3. ConfiguredInv' /\ RolesInv'
    BY DEF IInv, ShapeInv, ConfiguredInv, RolesInv, NewClient, discovery, Connected,
           Discovering
<1> QED  BY <1>2, <1>3 DEF IInv

\* Every way out of Configure with an error leaves nothing open.
LEMMA AbandonKeeps ==
    ASSUME IInv, Abandon, UNCHANGED <<conf, server, cut, left>>
    PROVE  IInv'
<1>1. ShapeInv'
    BY DEF IInv, ShapeInv, Abandon, Close, Connected, Discovering
<1>2. ConnectionInv'
    BY DEF IInv, ShapeInv, ConnectionInv, Abandon, Close, Connected, Discovering
<1>3. ConfiguredInv' /\ RolesInv'
    BY DEF IInv, ShapeInv, ConfiguredInv, RolesInv, Abandon, Close, Connected, Discovering
<1> QED  BY <1>1, <1>2, <1>3 DEF IInv

\* So does the ping.
LEMMA PingKeeps == IInv /\ Ping => IInv'
<1> SUFFICES ASSUME IInv, Ping PROVE IInv'
    OBVIOUS
<1>1. CASE Abandon
    BY <1>1, AbandonKeeps DEF Ping, discovery
<1>2. CASE prov' = [prov EXCEPT !.client = TRUE] /\ pc' = "version" /\ UNCHANGED conn
  <2>1. ShapeInv' /\ ConnectionInv'
      BY <1>2 DEF IInv, ShapeInv, ConnectionInv, Ping, discovery, Connected, Discovering
  <2>2. ConfiguredInv' /\ RolesInv'
      BY <1>2 DEF IInv, ShapeInv, ConfiguredInv, RolesInv, Ping, discovery, Connected,
                  Discovering
  <2> QED  BY <2>1, <2>2 DEF IInv
<1> QED  BY <1>1, <1>2 DEF Ping

\* So does reading the version.
LEMMA QueryVersionKeeps == IInv /\ QueryVersion => IInv'
<1> SUFFICES ASSUME IInv, QueryVersion PROVE IInv'
    OBVIOUS
<1>1. CASE Abandon
    BY <1>1, AbandonKeeps DEF QueryVersion, discovery
<1>2. CASE /\ SameVersion(server.version, prov.version)
           /\ pc' = "caller" /\ UNCHANGED <<conn, prov>>
  <2>1. ShapeInv' /\ ConnectionInv'
      BY <1>2 DEF IInv, ShapeInv, ConnectionInv, QueryVersion, discovery, Connected,
                  Discovering
  <2>2. ConfiguredInv' /\ RolesInv'
    <3>1. prov.version = conf.version
        BY DEF IInv, ConfiguredInv, QueryVersion, Connected
    <3> QED  BY <1>2, <3>1 DEF IInv, ConfiguredInv, RolesInv, QueryVersion, discovery,
                               Connected, Discovering, SameVersion, Target
  <2> QED  BY <2>1, <2>2 DEF IInv
<1> QED  BY <1>1, <1>2 DEF QueryVersion

\* So does reading the caller.
LEMMA QueryCallerKeeps == IInv /\ QueryCaller => IInv'
<1> SUFFICES ASSUME IInv, QueryCaller PROVE IInv'
    OBVIOUS
<1>1. CASE Abandon
    BY <1>1, AbandonKeeps DEF QueryCaller, discovery
<1>2. CASE /\ prov' = [prov EXCEPT !.caller.who = server.who]
           /\ pc' = "defaults" /\ UNCHANGED conn
  <2>1. /\ prov'.client = prov.client /\ prov'.version = prov.version
        /\ prov'.caller.who = server.who
        /\ ShapeInv'
      BY <1>2 DEF IInv, ShapeInv, QueryCaller, discovery, Connected, Discovering
  <2>2. ConnectionInv' /\ ConfiguredInv' /\ RolesInv'
      BY <1>2, <2>1 DEF IInv, ConnectionInv, ConfiguredInv, RolesInv, QueryCaller,
                        discovery, Connected, Discovering, SameVersion, Target
  <2> QED  BY <2>1, <2>2 DEF IInv
<1> QED  BY <1>1, <1>2 DEF QueryCaller

\* So does reading its default roles.
LEMMA QueryDefaultRolesKeeps == IInv /\ QueryDefaultRoles => IInv'
<1> SUFFICES ASSUME IInv, QueryDefaultRoles PROVE IInv'
    OBVIOUS
<1>1. PICK read \in SUBSET server.defaults :
        /\ prov' = [prov EXCEPT !.caller.defaults = read]
        /\ (read = server.defaults /\ cut' = cut) \/ "roles" \in cut'
    BY DEF QueryDefaultRoles, QueryRoles
<1>2. /\ prov'.client = prov.client /\ prov'.version = prov.version
      /\ prov'.caller.who = prov.caller.who
      /\ prov'.caller.defaults = read
      /\ ShapeInv'
    BY <1>1 DEF IInv, ShapeInv, QueryDefaultRoles, QueryRoles, discovery, Connected,
                Discovering
<1>3. ConnectionInv' /\ ConfiguredInv' /\ RolesInv'
    BY <1>1, <1>2 DEF IInv, ConnectionInv, ConfiguredInv, RolesInv, QueryDefaultRoles,
                      QueryRoles, discovery, Connected, Discovering, SameVersion, Target
<1> QED  BY <1>2, <1>3 DEF IInv

\* So does reading the edges of the roles.
LEMMA QueryRoleEdgesKeeps == IInv /\ QueryRoleEdges => IInv'
<1> SUFFICES ASSUME IInv, QueryRoleEdges PROVE IInv'
    OBVIOUS
<1>1. PICK read \in SUBSET server.edges :
        /\ prov' = [prov EXCEPT !.caller.granted = read]
        /\ (read = server.edges /\ cut' = cut) \/ cut' = cut \cup {"roles"}
    BY DEF QueryRoleEdges, QueryRoles
<1>2. /\ prov'.client = prov.client /\ prov'.version = prov.version
      /\ prov'.caller.who = prov.caller.who
      /\ prov'.caller.defaults = prov.caller.defaults
      /\ prov'.caller.granted = read
      /\ ShapeInv'
    BY <1>1 DEF IInv, ShapeInv, QueryRoleEdges, QueryRoles, discovery, Connected,
                Discovering
<1>3. ConnectionInv' /\ ConfiguredInv'
    BY <1>2 DEF IInv, ConnectionInv, ConfiguredInv, QueryRoleEdges, QueryRoles,
                discovery, Connected, Discovering, SameVersion, Target
<1>4. RolesInv'
    BY <1>1, <1>2 DEF IInv, RolesInv, QueryRoleEdges, QueryRoles, discovery, Discovering
<1> QED  BY <1>2, <1>3, <1>4 DEF IInv

-----------------------------------------------------------------------------
\* A step of Discover, or of somebody else meanwhile.
LEMMA DiscoveryKeeps ==
    ASSUME IInv, pc \in Discovering, pc' \in Discovering, left' \subseteq Handlers,
           UNCHANGED <<conf, server, conn, prov>>,
           "roles" \in cut' <=> "roles" \in cut
    PROVE  IInv'
    BY DEF IInv, ShapeInv, ConnectionInv, ConfiguredInv, RolesInv, Connected, Discovering,
           SameVersion, Target

\* So does a discovery.
LEMMA DiscoverKeeps ==
    ASSUME IInv,
           \/ NextHandler \/ EndDiscover \/ OpenList \/ CloseList
           \/ DiscoverSchemas \/ EndHandler
           \/ \E a \in todo : ReadAccount(a)
    PROVE  IInv'
<1> USE DEF session, Discovering
<1>0. left \subseteq Handlers
    BY DEF IInv, ShapeInv
<1>1. CASE NextHandler
    BY <1>0, <1>1, DiscoveryKeeps DEF NextHandler, Handlers
<1>2. CASE EndDiscover
    BY <1>0, <1>2, DiscoveryKeeps DEF EndDiscover
<1>3. CASE OpenList
    BY <1>0, <1>3, DiscoveryKeeps DEF OpenList, FailHandler, RowsOf
<1>4. CASE CloseList
  <2>1. /\ pc \in Discovering /\ pc' \in Discovering
        /\ left' = left /\ UNCHANGED <<conf, server, conn, prov>>
      BY <1>4 DEF CloseList, FailHandler, AfterList
  <2>2. cut' = cut \/ cut' = cut \cup {"grants"}
      BY <1>4 DEF CloseList, FailHandler
  <2>3. "roles" \in cut' <=> "roles" \in cut
      BY <2>2
  <2> QED  BY <1>0, <2>1, <2>3, DiscoveryKeeps
<1>5. CASE DiscoverSchemas
    BY <1>0, <1>5, DiscoveryKeeps DEF DiscoverSchemas, FailHandler
<1>6. CASE EndHandler
    BY <1>0, <1>6, DiscoveryKeeps DEF EndHandler
<1>7. CASE \E a \in todo : ReadAccount(a)
    BY <1>0, <1>7, DiscoveryKeeps DEF ReadAccount, FailHandler
<1> QED  BY <1>1, <1>2, <1>3, <1>4, <1>5, <1>6, <1>7

\* So does a statement of an administrator that drops an account.
LEMMA DropKeeps ==
    ASSUME IInv, NEW a, Drop(a)
    PROVE  IInv'
<1>1. left \subseteq Handlers
    BY DEF IInv, ShapeInv
<1> QED  BY <1>1, DiscoveryKeeps DEF Drop, Discovering

\* So does a stuttering step.
LEMMA Stuttering == IInv /\ UNCHANGED vars => IInv'
    BY DEF vars, IInv, ShapeInv, ConnectionInv, ConfiguredInv, RolesInv, Connected,
           Discovering, AuthFieldsAreValid, TLSMode, SameVersion, Target

\* What the steps of Configure have established is never taken back.
THEOREM Invariance == Spec => []IInv
<1>1. ASSUME IInv, [Next]_vars PROVE IInv'
  <2>1. CASE Program
      BY <1>1, <2>1, ValidateKeeps, NewClientKeeps, PingKeeps, QueryVersionKeeps,
         QueryCallerKeeps, QueryDefaultRolesKeeps, QueryRoleEdgesKeeps, DiscoverKeeps
         DEF Program
  <2>2. CASE \E a \in server.accounts \ gone : Drop(a)
      BY <1>1, <2>2, DropKeeps
  <2>3. CASE UNCHANGED vars
      BY <1>1, <2>3, Stuttering
  <2> QED  BY <1>1, <2>1, <2>2, <2>3 DEF Next
<1> QED  BY <1>1, Initially, PTL DEF Spec

\* For any provider block, server and number of failing queries: Configure hands
\* over one open connection to a server of the declared version, over TLS for
\* tokens, and the caller's roles unless a query for them failed; or it fails
\* and leaves no connection open (provider.go, lines 112-167 and 251-316).
THEOREM SessionIsRight == Spec => []SessionIsAsDeclared
<1>1. IInv => SessionIsAsDeclared
  <2> SUFFICES ASSUME IInv PROVE SessionIsAsDeclared
      OBVIOUS
  <2>1. conn.state = "open" /\ conf.auth = "rds_iam" => conn.tls # "disabled"
      BY DEF IInv, ConnectionInv
  <2>2. pc = "failed" => conn.state # "open" /\ ~prov.client
      BY DEF IInv, ConnectionInv, Connected, Discovering
  <2>3. ASSUME Configured PROVE pc \in Discovering
      BY <2>3 DEF Configured, IInv, ShapeInv, ConnectionInv, Connected
  <2>4. ASSUME Configured, pc \in Discovering
        PROVE  /\ conn.state = "open"
               /\ SubSeq(server.version, 1, 2) = Target[conf.version]
               /\ prov.version = conf.version
               /\ prov.caller.who = server.who
               /\ prov.caller.defaults \subseteq server.defaults
               /\ prov.caller.granted \subseteq server.edges
               /\ "roles" \notin cut => /\ prov.caller.defaults = server.defaults
                                        /\ prov.caller.granted = server.edges
      BY <2>4 DEF IInv, ConnectionInv, ConfiguredInv, RolesInv, Connected, Discovering,
                  SameVersion
  <2> QED  BY <2>1, <2>2, <2>3, <2>4 DEF SessionIsAsDeclared
<1> QED  BY <1>1, Invariance, PTL

-----------------------------------------------------------------------------
\* Two stored strings are the same if their parts are.
LEMMA SameParts ==
    ASSUME NEW p, NEW w, NEW s, NEW r, NEW p2, NEW w2, NEW s2, NEW r2
    PROVE  HashOf(p, w, s, r) = HashOf(p2, w2, s2, r2) <=> p = p2 /\ w = w2 /\ s = s2 /\ r = r2
<1>1. ASSUME HashOf(p, w, s, r) = HashOf(p2, w2, s2, r2)
      PROVE  p = p2 /\ w = w2 /\ s = s2 /\ r = r2
  <2> DEFINE h == HashOf(p, w, s, r)
             g == HashOf(p2, w2, s2, r2)
  <2>1. h.plugin = p /\ h.password = w /\ h.salt = s /\ h.rounds = r
      BY DEF HashOf
  <2>2. g.plugin = p2 /\ g.password = w2 /\ g.salt = s2 /\ g.rounds = r2
      BY DEF HashOf
  <2>3. h = g
      BY <1>1
  <2> HIDE DEF h, g
  <2> QED  BY <2>1, <2>2, <2>3
<1> QED  BY <1>1

\* What Compare of package auth says of a password, a hash or neither, for an
\* account of the declared plugin.
LEMMA CompareIsExact ==
    ASSUME NEW a, ValidAccount(a), NEW d, ValidDeclared(d),
           PluginOf(d) # AWSIAM, a.plugin = PluginOf(d)
    PROVE  /\ Compare(d, a.auth) \in {"same", "differs", "error"}
           /\ Compare(d, a.auth) = "same" <=> HasPassword(a, d)
           /\ Compare(d, a.auth) = "error" => d.hash = NoHash /\ a.auth.plugin # PluginOf(d)
<1> USE DEF CachingSHA2, Native, AWSIAM
<1>1. PluginOf(d) \in {CachingSHA2, Native} /\ d.plugin # AWSIAM
    BY DEF ValidDeclared, PluginOf
<1>5. a.auth = HashOf(a.auth.plugin, a.auth.password, a.auth.salt, a.auth.rounds)
    BY DEF ValidAccount
<1>2. CASE d.hash # NoHash
    BY <1>1, <1>2 DEF Compare, HasPassword
<1>3. CASE d.hash = NoHash /\ PluginOf(d) = CachingSHA2
  <2>1. CASE a.auth.plugin = CachingSHA2
    <3>1. HashOf(CachingSHA2, d.password, a.auth.salt, a.auth.rounds) = a.auth
             <=> d.password = a.auth.password
      <4> DEFINE again == HashOf(CachingSHA2, d.password, a.auth.salt, a.auth.rounds)
                 same == HashOf(a.auth.plugin, a.auth.password, a.auth.salt, a.auth.rounds)
      <4>1. again = same <=> d.password = a.auth.password
          BY <2>1, SameParts
      <4>2. a.auth = same
          BY <1>5
      <4> HIDE DEF again, same
      <4>3. again = a.auth <=> d.password = a.auth.password
          BY <4>1, <4>2
      <4> QED  BY <4>3 DEF again
    <3>2. a.auth.rounds # 0
        BY <2>1 DEF ValidAccount
    <3>3. Compare(d, a.auth) = IF d.password = a.auth.password THEN "same" ELSE "differs"
        BY <1>3, <2>1, <3>1, <3>2 DEF Compare, HasNoParams
    <3> QED  BY <1>1, <1>3, <2>1, <3>3 DEF HasPassword
  <2>2. CASE a.auth.plugin # CachingSHA2
      BY <1>1, <1>3, <2>2 DEF Compare, HasNoParams, HasPassword
  <2> QED  BY <2>1, <2>2
<1>4. CASE d.hash = NoHash /\ PluginOf(d) = Native
  <2>1. HashOf(Native, d.password, "", 0) = a.auth
           <=> a.auth.plugin = Native /\ d.password = a.auth.password
    <3> DEFINE again == HashOf(Native, d.password, "", 0)
               same == HashOf(a.auth.plugin, a.auth.password, a.auth.salt, a.auth.rounds)
    <3>1. a.auth.plugin = Native => a.auth.salt = "" /\ a.auth.rounds = 0
        BY DEF ValidAccount
    <3>2. again = same <=> /\ Native = a.auth.plugin /\ d.password = a.auth.password
                           /\ "" = a.auth.salt /\ 0 = a.auth.rounds
      <4>1. ASSUME NEW salt, NEW rounds
            PROVE  HashOf(Native, d.password, salt, rounds) = same
                     <=> /\ Native = a.auth.plugin /\ d.password = a.auth.password
                         /\ salt = a.auth.salt /\ rounds = a.auth.rounds
          BY SameParts
      <4> HIDE DEF same
      <4> QED  BY <4>1, Zenon
    <3>3. a.auth = same
        BY <1>5
    <3> HIDE DEF again, same
    <3>4. again = a.auth <=> a.auth.plugin = Native /\ d.password = a.auth.password
        BY <3>1, <3>2, <3>3
    <3> QED  BY <3>4 DEF again
  <2>2. Compare(d, a.auth) = IF a.auth.plugin = Native /\ d.password = a.auth.password
                             THEN "same" ELSE "differs"
      BY <1>4, <2>1 DEF Compare
  <2> QED  BY <1>1, <1>4, <2>2 DEF HasPassword
<1> QED  BY <1>1, <1>2, <1>3, <1>4

\* For any account and any declared user: Equal of user.go says that they are the
\* same exactly if plugin, password and attributes are, whatever salt and rounds
\* the stored hash was made with; it gives up only where there is nothing of the
\* declared plugin to compare with.
THEOREM EqualIsExact == Spec => []EqualMeansSame
<1> USE DEF CachingSHA2, Native, AWSIAM
<1>1. ASSUME NEW a, ValidAccount(a), NEW d, ValidDeclared(d), d.attrs = Kept(d.attrs)
      PROVE  LET verdict == Equal(d, HeldUser(a))
             IN  /\ (verdict = "same") = (HasPassword(a, d) /\ d.attrs = HeldUser(a).attrs)
                 /\ verdict = "error" => d.hash = NoHash /\ a.auth.plugin # PluginOf(d)
  <2> DEFINE live == HeldUser(a)
             verdict == Equal(d, live)
  <2>1. live.plugin = a.plugin /\ live.auth = a.auth
      BY DEF HeldUser
  <2> HIDE DEF live
  <2>2. a.plugin \notin {"", AWSIAM}
      BY <1>1 DEF ValidAccount
  <2>3. CASE PluginOf(d) = AWSIAM
    <3>1. d.plugin = AWSIAM /\ ~(d.hash # NoHash)
        BY <1>1, <2>3 DEF PluginOf, ValidDeclared
    <3>2. HasPassword(a, d) = (a.plugin = "AWSAuthenticationPlugin")
      <4>1. HasPassword(a, d) <=> a.plugin = "AWSAuthenticationPlugin"
          BY <3>1 DEF HasPassword
      <4>2. HasPassword(a, d) \in BOOLEAN
          BY <3>1 DEF HasPassword
      <4> QED  BY <4>1, <4>2
    <3>3. verdict = IF a.plugin = "AWSAuthenticationPlugin" /\ d.attrs = live.attrs
                    THEN "same" ELSE "differs"
        BY <1>1, <2>1, <2>2, <2>3 DEF Equal
    <3> QED  BY <3>2, <3>3 DEF live
  <2>4. CASE PluginOf(d) # AWSIAM /\ a.plugin = PluginOf(d)
    <3>1. verdict = IF Compare(d, a.auth) = "same" /\ d.attrs # live.attrs
                    THEN "differs" ELSE Compare(d, a.auth)
        BY <1>1, <2>1, <2>4 DEF Equal
    <3>2. /\ Compare(d, a.auth) \in {"same", "differs", "error"}
          /\ Compare(d, a.auth) = "same" <=> HasPassword(a, d)
          /\ Compare(d, a.auth) = "error" => d.hash = NoHash /\ a.auth.plugin # PluginOf(d)
        BY <1>1, <2>4, CompareIsExact
    <3> QED  BY <3>1, <3>2 DEF live
  <2>5. CASE PluginOf(d) # AWSIAM /\ a.plugin # PluginOf(d)
    <3>1. verdict = "differs"
        BY <2>1, <2>2, <2>5 DEF Equal
    <3>2. ~HasPassword(a, d)
        BY <2>5 DEF HasPassword, PluginOf
    <3> QED  BY <3>1, <3>2 DEF live
  <2> QED  BY <2>3, <2>4, <2>5
<1>2. IInv => EqualMeansSame
  <2> SUFFICES ASSUME IInv, NEW a \in server.accounts, NEW d \in Declared
               PROVE  LET verdict == Equal(d, HeldUser(a))
                      IN  /\ (verdict = "same")
                                = (HasPassword(a, d) /\ d.attrs = HeldUser(a).attrs)
                          /\ verdict = "error" =>
                                d.hash = NoHash /\ a.auth.plugin # PluginOf(d)
      BY DEF EqualMeansSame
  <2>1. ValidAccount(a)
      BY SessionAssumption DEF IInv, ShapeInv
  <2>2. ValidDeclared(d) /\ d.attrs = Kept(d.attrs)
      BY SessionAssumption
  <2> QED  BY <1>1, <2>1, <2>2
<1> QED  BY <1>2, Invariance, PTL

-----------------------------------------------------------------------------
(* What is discovered. *)

\* What SHOW answers about an account is read as what the account holds, or
\* rejected where a word is unknown or a privilege is partially revoked.
ReadingIsExact ==
    \A a \in Accounts :
        /\ ~a.role => Users[a] = IF a.odd # 0 THEN {} ELSE {{HeldUser(a)}}
        /\ Grants[a] = IF Unreadable("grant", {a}) THEN {} ELSE {HeldGrants(a)}

\* The accounts a handler lists.
Concerns(h, a) ==
    \/ h = "user" /\ ~a.role
    \/ h = "role" /\ a.role
    \/ h = "grant"

\* What is listed so far, when the handler is at the control point at.
ListedAt(h, at, a) ==
    /\ at \in {"users rows", "roles", "roles rows", "read"}
    /\ Concerns(h, a)
    /\ at = "users rows" \/ (h = "grant" /\ at = "roles") => ~a.role
    /\ h = "role" => at # "roles"

\* The handler lists or reads.
Handling == pc \in {"users", "users rows", "roles", "roles rows", "schemas", "read"}

\* What handlers find, of what a dropped account held.
Emptied == {[r EXCEPT !.granted = {}] : r \in Held("role", gone)}

\* The handler now has every account it is concerned with in its list, or has
\* read it, and has made nothing up; the roles of a list that broke off and
\* accounts that were dropped may be missing.
ReadingInv ==
    /\ now = "user" => pc \in {"users", "users rows", "read"}
    /\ now = "role" => pc \in {"roles", "roles rows", "read"}
    /\ now = "grant" => pc # "schemas"
    /\ now = "database" => pc = "schemas"
    /\ now \in Handlers \ left
    /\ todo \subseteq {a \in server.accounts : Concerns(now, a)}
    /\ pc # "read" => got = {}
    /\ \A r \in got : r.type = now
    /\ got \subseteq Held(now, server.accounts) \cup Emptied
    /\ \A a \in server.accounts \ gone :
          ListedAt(now, pc, a) =>
              \/ a \in todo
              \/ pc = "read" /\ ~Unreadable(now, {a}) /\ Held(now, {a}) \subseteq got
              \/ "grants" \in cut /\ now = "grant" /\ a.role

Those(h) == {r \in found : r.type = h}

\* What DiscoveredIsHeld says of a handler that has ended.
HandlerIsRight(h) ==
    IF h \in diags
    THEN Unreadable(h, server.accounts) \/ gone # {} \/ faults > 0
    ELSE /\ ~Unreadable(h, server.accounts \ gone) \/ "grants" \in cut
         /\ Those(h) \subseteq Held(h, server.accounts) \cup Emptied
         /\ "grants" \notin cut \/ h # "grant" =>
                Held(h, server.accounts \ gone) \subseteq Those(h)

\* The handlers that have not ended have left nothing.
DiscoveryInv ==
    /\ faults \in Nat
    /\ pc = "done" => left = {}
    /\ Handling => ReadingInv
    /\ ~Handling => todo = {} /\ got = {}
    /\ \A h \in Handlers :
          IF h \in left \/ (Handling /\ h = now) THEN h \notin diags /\ Those(h) = {}
          ELSE pc = "failed" \/ HandlerIsRight(h)

-----------------------------------------------------------------------------
\* What the accounts hold is what each of them holds, of the handler's type.
LEMMA HeldFacts ==
    ASSUME NEW h \in Handlers, NEW those
    PROVE  /\ \A r \in Held(h, those) : r.type = h
           /\ \A T \in SUBSET those : Held(h, T) \subseteq Held(h, those)
           /\ \A a \in those : Held(h, {a}) \subseteq Held(h, those)
           /\ h # "database" => \A r \in Held(h, those) : \E a \in those : Concerns(h, a) /\ r \in Held(h, {a})
<1>1. CASE h = "user"
  <2>1. \A a : HeldUser(a).type = "user"
      BY DEF HeldUser
  <2>2. \A T : Held(h, T) = {HeldUser(a) : a \in {b \in T : ~b.role}}
      BY <1>1 DEF Held
  <2>3. \A T : \A r : r \in Held(h, T) <=> \E a \in T : ~a.role /\ r = HeldUser(a)
      BY <2>2
  <2>4. \A a : \A r : r \in Held(h, {a}) <=> ~a.role /\ r = HeldUser(a)
      BY <2>3
  <2>5. ASSUME NEW r \in Held(h, those)
        PROVE  r.type = h /\ \E a \in those : Concerns(h, a) /\ r \in Held(h, {a})
    <3>1. PICK a \in those : ~a.role /\ r = HeldUser(a)
        BY <2>3, <2>5
    <3> QED  BY <1>1, <2>1, <2>4, <3>1 DEF Concerns
  <2>6. \A T \in SUBSET those : Held(h, T) \subseteq Held(h, those)
      BY <2>3
  <2>7. \A a \in those : Held(h, {a}) \subseteq Held(h, those)
      BY <2>3, <2>4
  <2> QED  BY <2>5, <2>6, <2>7
<1>2. CASE h = "grant"
  <2>1. \A T : Held(h, T) = UNION {HeldGrants(a) : a \in T}
      BY <1>2 DEF Held
  <2>2. \A a : \A r \in HeldGrants(a) : r.type = "grant"
      BY DEF HeldGrants
  <2> QED  BY <1>2, <2>1, <2>2 DEF Concerns
<1>3. CASE h = "role"
  <2> DEFINE held(a) == [type |-> "role", user |-> a.user, granted |-> a.granted]
  <2>1. \A a : held(a).type = "role"
      OBVIOUS
  <2>2. \A T : Held(h, T) = {held(a) : a \in {b \in T : b.role}}
      BY <1>3 DEF Held
  <2> HIDE DEF held
  <2> QED  BY <1>3, <2>1, <2>2 DEF Concerns
<1>4. CASE h = "database"
    BY <1>4 DEF Held
<1> QED  BY <1>1, <1>2, <1>3, <1>4 DEF Handlers

\* What cannot be read of some accounts cannot be read of one of them, which is
\* one of those that the handler lists.
LEMMA UnreadableFacts ==
    ASSUME NEW h \in Handlers, NEW those
    PROVE  /\ Unreadable(h, those) <=> \E a \in those : Concerns(h, a) /\ Unreadable(h, {a})
           /\ \A T \in SUBSET those : Unreadable(h, T) => Unreadable(h, those)
    BY DEF Unreadable, Concerns, Handlers

\* What is read of an account: nothing is made up, and of an account that is
\* still there it is all.
LEMMA AnswerFacts ==
    ASSUME ReadingIsExact, server.accounts \subseteq Accounts,
           now \in {"user", "role", "grant"}, NEW a \in server.accounts, Concerns(now, a)
    PROVE  /\ Answer(a) = {} => a \in gone \/ Unreadable(now, {a})
           /\ \A r \in UNION Answer(a) :
                 r.type = now /\ r \in Held(now, server.accounts) \cup Emptied
           /\ Answer(a) # {} /\ a \notin gone =>
                 ~Unreadable(now, {a}) /\ Held(now, {a}) \subseteq UNION Answer(a)
<1>1. CASE now = "user"
  <2>1. Users[a] = IF a.odd # 0 THEN {} ELSE {{HeldUser(a)}}
      BY <1>1 DEF ReadingIsExact, Concerns
  <2>2. Answer(a) = IF a \in gone \/ a.odd # 0 THEN {} ELSE {{HeldUser(a)}}
      BY <1>1, <2>1 DEF Answer
  <2>3. Unreadable(now, {a}) <=> a.odd # 0
      BY <1>1 DEF Unreadable, Concerns
  <2>4. Held(now, {a}) = {HeldUser(a)} /\ HeldUser(a).type = now
      BY <1>1 DEF Held, Concerns, HeldUser
  <2>5. HeldUser(a) \in Held(now, server.accounts)
      BY <1>1 DEF Held, Concerns
  <2> QED  BY <2>2, <2>3, <2>4, <2>5
<1>2. CASE now = "grant"
  <2>1. Grants[a] = IF Unreadable("grant", {a}) THEN {} ELSE {HeldGrants(a)}
      BY DEF ReadingIsExact
  <2>2. Answer(a) = IF a \in gone \/ Unreadable("grant", {a}) THEN {} ELSE {HeldGrants(a)}
      BY <1>2, <2>1 DEF Answer
  <2>3. Held(now, {a}) = HeldGrants(a) /\ HeldGrants(a) \subseteq Held(now, server.accounts)
      BY <1>2 DEF Held
  <2>4. \A r \in HeldGrants(a) : r.type = now
      BY <1>2 DEF HeldGrants
  <2> QED  BY <1>2, <2>2, <2>3, <2>4
<1>3. CASE now = "role"
  <2> DEFINE held == [type |-> "role", user |-> a.user, granted |-> a.granted]
             bare == [type |-> "role", user |-> a.user, granted |-> {}]
  <2>1. Answer(a) = {{IF a \in gone THEN bare ELSE held}}
      BY <1>3 DEF Answer
  <2>2. Held(now, {a}) = {held} /\ held \in Held(now, server.accounts)
      BY <1>3 DEF Held, Concerns
  <2>3. a \in gone => bare \in Emptied
    <3> SUFFICES ASSUME a \in gone PROVE bare \in Emptied
        OBVIOUS
    <3>1. held \in Held("role", gone)
        BY <1>3 DEF Held, Concerns
    <3>2. bare = [held EXCEPT !.granted = {}]
        OBVIOUS
    <3> HIDE DEF held, bare
    <3> QED  BY <3>1, <3>2 DEF Emptied
  <2>4. ~Unreadable(now, {a})
      BY <1>3 DEF Unreadable
  <2>5. bare.type = now /\ held.type = now
      BY <1>3
  <2> HIDE DEF held, bare
  <2> QED  BY <2>1, <2>2, <2>3, <2>4, <2>5
<1> QED  BY <1>1, <1>2, <1>3

\* They depend on nothing else that changes.
LEMMA HeldSame ==
    ASSUME UNCHANGED server, NEW h, NEW those
    PROVE  Held(h, those)' = Held(h, those) /\ Unreadable(h, those)' = Unreadable(h, those)
    BY DEF Held, Unreadable

-----------------------------------------------------------------------------
\* What is right stays right when more accounts are dropped, more queries fail
\* and more is lost.
LEMMA RightLater ==
    ASSUME NEW h \in Handlers, HandlerIsRight(h), UNCHANGED server, faults \in Nat, faults' \in Nat,
           faults' >= faults, gone \subseteq gone', cut \subseteq cut',
           Those(h)' = Those(h), h \in diags' <=> h \in diags
    PROVE  HandlerIsRight(h)'
<1>1. CASE h \in diags
    BY <1>1 DEF HandlerIsRight, Unreadable
<1>2. CASE h \notin diags
  <2>0. Unreadable(h, server.accounts \ gone') = Unreadable(h, server.accounts \ gone)'
        /\ Held(h, server.accounts)' = Held(h, server.accounts)
        /\ Held(h, server.accounts \ gone)' = Held(h, server.accounts \ gone')
      BY DEF Unreadable, Held
  <2>1. Unreadable(h, server.accounts \ gone)' => Unreadable(h, server.accounts \ gone)
      BY <2>0, UnreadableFacts
  <2>2. Emptied \subseteq Emptied'
    <3>1. Held("role", gone') = Held("role", gone)'
        BY DEF Held
    <3>2. Held("role", gone) \subseteq Held("role", gone')
        BY HeldFacts DEF Handlers
    <3> QED  BY <3>1, <3>2 DEF Emptied
  <2>3. Held(h, server.accounts \ gone)' \subseteq Held(h, server.accounts \ gone)
      BY <2>0, HeldFacts
  <2> QED  BY <1>2, <2>0, <2>1, <2>2, <2>3 DEF HandlerIsRight
<1> QED  BY <1>1, <1>2

\* Nothing has been discovered before the first call.
LEMMA DiscoveryInit == Init => DiscoveryInv
<1> SUFFICES ASSUME Init PROVE DiscoveryInv
    OBVIOUS
<1>1. /\ ~Handling /\ pc # "done" /\ faults = 0 /\ left = Handlers
      /\ todo = {} /\ got = {} /\ found = {} /\ diags = {}
    BY DEF Init, Handling
<1> QED  BY <1>1 DEF DiscoveryInv, Those

\* Between two handlers nothing is listed, and what they have found stays.
LEMMA QuietKeeps ==
    ASSUME DiscoveryInv, ~Handling, ~Handling', UNCHANGED <<server, left, todo, got, found, diags>>,
           faults' \in Nat, faults' >= faults, gone \subseteq gone', cut \subseteq cut',
           pc = "failed" => pc' = "failed", pc' = "done" => left = {}
    PROVE  DiscoveryInv'
<1>1. \A h : Those(h)' = Those(h)
    BY DEF Those
<1>2. ASSUME NEW h \in Handlers, h \notin left', pc' # "failed" PROVE HandlerIsRight(h)'
    BY <1>1, <1>2, RightLater DEF DiscoveryInv
<1> QED  BY <1>1, <1>2 DEF DiscoveryInv

\* A handler that fails has a reason to.
LEMMA FailureKeeps ==
    ASSUME DiscoveryInv, Handling, FailHandler, UNCHANGED <<server, gone>>,
           faults' \in Nat, faults' >= faults,
           Unreadable(now, server.accounts) \/ gone # {} \/ faults' > 0
    PROVE  DiscoveryInv'
<1>1. ~Handling' /\ now \in Handlers \ left /\ pc # "failed" /\ pc' # "done"
    BY DEF FailHandler, Handling, DiscoveryInv, ReadingInv
<1>2. \A h : Those(h)' = Those(h)
    BY DEF Those, FailHandler
<1>3. ASSUME NEW h \in Handlers, h \notin left PROVE HandlerIsRight(h)'
  <2>1. CASE h = now
      BY <2>1 DEF HandlerIsRight, FailHandler, Unreadable
  <2>2. CASE h # now
    <3>1. h \in diags' <=> h \in diags
        BY <2>2 DEF FailHandler
    <3>2. HandlerIsRight(h)
        BY <1>1, <1>3, <2>2 DEF DiscoveryInv
    <3> QED  BY <1>2, <3>1, <3>2, RightLater DEF DiscoveryInv, FailHandler
  <2> QED  BY <2>1, <2>2
<1>4. ASSUME NEW h \in left, h \in Handlers PROVE h \notin diags' /\ Those(h)' = {}
    BY <1>1, <1>2, <1>4 DEF FailHandler, DiscoveryInv
<1> QED  BY <1>1, <1>3, <1>4 DEF DiscoveryInv, FailHandler

\* A handler that goes on has found nothing yet, and changes nothing that
\* others found.
LEMMA GoingOnKeeps ==
    ASSUME DiscoveryInv, Handling, Handling', ReadingInv', UNCHANGED <<server, left, now, found, diags>>,
           faults' \in Nat, faults' >= faults, gone \subseteq gone', cut \subseteq cut'
    PROVE  DiscoveryInv'
<1>1. \A h : Those(h)' = Those(h)
    BY DEF Those
<1>2. ASSUME NEW h \in Handlers, h \notin left, h # now PROVE HandlerIsRight(h)'
    BY <1>1, <1>2, RightLater DEF DiscoveryInv, Handling
<1>3. pc' # "done"
    BY DEF Handling
<1> QED  BY <1>1, <1>2, <1>3 DEF DiscoveryInv

\* A handler ends and has found what ends is right for it.
LEMMA EndingKeeps ==
    ASSUME DiscoveryInv, Handling, pc' = "discover", UNCHANGED <<server, left, now, diags, gone, cut>>,
           faults' \in Nat, faults' >= faults, todo' = {}, got' = {},
           NEW new, found' = found \cup new, \A r \in new : r.type = now,
           HandlerIsRight(now)'
    PROVE  DiscoveryInv'
<1>1. ~Handling' /\ now \in Handlers \ left /\ pc # "failed"
    BY DEF Handling, DiscoveryInv, ReadingInv
<1>2. ASSUME NEW h, h # now PROVE Those(h)' = Those(h)
    BY <1>2 DEF Those
<1>3. ASSUME NEW h \in Handlers, h \notin left, h # now PROVE HandlerIsRight(h)'
    BY <1>1, <1>2, <1>3, RightLater DEF DiscoveryInv
<1> QED  BY <1>1, <1>2, <1>3 DEF DiscoveryInv

\* What of the discovery's invariant the steps may rely on.
LEMMA WhileHandling ==
    ASSUME IInv, DiscoveryInv, Handling
    PROVE  /\ ReadingInv /\ now \in Handlers /\ now \notin left
           /\ faults \in Nat /\ server.accounts \subseteq Accounts
<1>1. server.accounts \subseteq Accounts
    BY DEF IInv, ShapeInv, Accounts
<1> QED  BY <1>1 DEF DiscoveryInv, ReadingInv

\* Faults are counted, and an answer is none.
LEMMA FaultsGrow ==
    ASSUME DiscoveryInv, Answered \/ Lost \/ Fault \/ UNCHANGED faults
    PROVE  /\ faults' \in Nat /\ faults' >= faults
           /\ Lost \/ Fault => faults' > 0
    BY DEF DiscoveryInv, Answered, Lost, Fault

\* The steps of Configure keep it.
LEMMA ConfigureKeeps ==
    ASSUME DiscoveryInv,
           \/ Validate \/ NewClient \/ Ping \/ QueryVersion \/ QueryCaller
           \/ QueryDefaultRoles \/ QueryRoleEdges
    PROVE  DiscoveryInv'
<1>1. /\ ~Handling /\ ~Handling' /\ pc # "failed" /\ pc' # "done"
      /\ UNCHANGED <<server, left, todo, got, found, diags, gone>>
    BY DEF Validate, NewClient, Ping, QueryVersion, QueryCaller, QueryDefaultRoles,
           QueryRoleEdges, QueryRoles, Handling, Abandon, discovery
<1>2. cut \subseteq cut'
    BY DEF Validate, NewClient, Ping, QueryVersion, QueryCaller, QueryDefaultRoles,
           QueryRoleEdges, QueryRoles
<1>3. Answered \/ Lost \/ UNCHANGED faults
    BY DEF Validate, NewClient, Ping, QueryVersion, QueryCaller, QueryDefaultRoles,
           QueryRoleEdges, QueryRoles
<1> QED  BY <1>1, <1>2, <1>3, FaultsGrow, QuietKeeps

\* So does passing to a handler.
LEMMA NextHandlerKeeps == IInv /\ DiscoveryInv /\ NextHandler => DiscoveryInv'
<1> SUFFICES ASSUME IInv, DiscoveryInv, NextHandler PROVE DiscoveryInv'
    OBVIOUS
<1>1. PICK h \in left :
        /\ now' = h /\ left' = left \ {h}
        /\ pc' = CASE h \in {"user", "grant"} -> "users"
                   [] h = "role" -> "roles"
                   [] h = "database" -> "schemas"
    BY DEF NextHandler
<1>2. /\ h \in Handlers /\ ~Handling /\ todo = {} /\ got = {}
      /\ pc = "discover"
    BY DEF NextHandler, Handling, IInv, ShapeInv, DiscoveryInv
<1>3. /\ h \in {"user", "grant"} => pc' = "users"
      /\ h = "role" => pc' = "roles"
      /\ h = "database" => pc' = "schemas"
    BY <1>1
<1>4. UNCHANGED <<server, todo, got, found, diags, faults, gone, cut>> /\ faults \in Nat
    BY DEF NextHandler, session, DiscoveryInv
<1>5. Handling' /\ pc' # "done"
    BY <1>2, <1>3 DEF Handling, Handlers
<1>6. ReadingInv'
    BY <1>1, <1>2, <1>3, <1>4 DEF ReadingInv, ListedAt, Concerns, Handlers
<1>7. \A x : Those(x)' = Those(x)
    BY <1>4 DEF Those
<1>8. ASSUME NEW x \in Handlers, x \notin left PROVE HandlerIsRight(x)'
    BY <1>2, <1>4, <1>7, <1>8, RightLater DEF DiscoveryInv
<1>9. ASSUME NEW x \in Handlers, x \in left PROVE x \notin diags' /\ Those(x)' = {}
    BY <1>4, <1>7, <1>9 DEF DiscoveryInv
<1> QED  BY <1>1, <1>4, <1>5, <1>6, <1>8, <1>9 DEF DiscoveryInv

\* So does listing the accounts.
LEMMA OpenListKeeps == IInv /\ DiscoveryInv /\ OpenList => DiscoveryInv'
<1> SUFFICES ASSUME IInv, DiscoveryInv, OpenList PROVE DiscoveryInv'
    OBVIOUS
<1>1. /\ Handling /\ pc \in {"users", "roles"} /\ UNCHANGED <<server, gone>>
      /\ faults' \in Nat /\ faults' >= faults
    BY FaultsGrow DEF OpenList, session, Handling
<1>2. CASE Lost /\ FailHandler
    BY <1>1, <1>2, FaultsGrow, FailureKeeps
<1>3. CASE /\ todo' = todo \cup Listed(pc) /\ pc' = RowsOf(pc)
           /\ UNCHANGED <<left, now, got, found, diags, cut>>
  <2>1. ReadingInv
      BY <1>1, WhileHandling
  <2>0. \A a \in server.accounts : a.role \in BOOLEAN
      BY SessionAssumption DEF IInv, ShapeInv, ValidAccount
  <2>2. /\ pc = "users" => pc' = "users rows" /\ Listed(pc) = {a \in server.accounts \ gone : ~a.role}
        /\ pc = "roles" => pc' = "roles rows" /\ Listed(pc) = {a \in server.accounts \ gone : a.role}
      BY <1>1, <1>3, <2>0 DEF RowsOf, Listed
  <2>3. Handling' /\ now \in {"user", "role", "grant"}
      BY <1>1, <2>1, <2>2 DEF Handling, ReadingInv, Handlers
  <2>4. ReadingInv'
    <3>1. todo' \subseteq {a \in server'.accounts : Concerns(now', a)}
        BY <1>1, <1>3, <2>1, <2>2, <2>3 DEF ReadingInv, Concerns
    <3>2. ASSUME NEW a \in server'.accounts \ gone', ListedAt(now', pc', a)
          PROVE  a \in todo' \/ ("grants" \in cut' /\ now' = "grant" /\ a.role)
        BY <1>1, <1>3, <2>1, <2>2, <2>3, <3>2 DEF ReadingInv, ListedAt, Concerns
    <3>3. got' = {} /\ now' \in Handlers \ left'
        BY <1>1, <1>3, <2>1 DEF ReadingInv
    <3>4. /\ now' = "user" => pc' \in {"users", "users rows", "read"}
          /\ now' = "role" => pc' \in {"roles", "roles rows", "read"}
          /\ now' # "database" /\ pc' # "schemas"
        BY <1>1, <1>3, <2>1, <2>2, <2>3 DEF ReadingInv
    <3> QED  BY <3>1, <3>2, <3>3, <3>4 DEF ReadingInv
  <2> QED  BY <1>1, <1>3, <2>3, <2>4, GoingOnKeeps
<1> QED  BY <1>1, <1>2, <1>3 DEF OpenList

\* So does the end of the list, whole or broken off.
LEMMA CloseListKeeps == IInv /\ DiscoveryInv /\ CloseList => DiscoveryInv'
<1> SUFFICES ASSUME IInv, DiscoveryInv, CloseList PROVE DiscoveryInv'
    OBVIOUS
<1>1. /\ Handling /\ pc \in {"users rows", "roles rows"} /\ UNCHANGED <<server, gone>>
      /\ faults' \in Nat /\ faults' >= faults
    BY FaultsGrow DEF CloseList, session, Handling
<1>2. CASE Fault /\ FailHandler
    BY <1>1, <1>2, FaultsGrow, FailureKeeps
<1>3. CASE /\ pc' = AfterList /\ UNCHANGED <<left, now, got, found, diags>>
           /\ \/ todo' = todo /\ cut' = cut
              \/ /\ now = "grant" /\ pc = "roles rows"
                 /\ {a \in todo : ~a.role} \subseteq todo' /\ todo' \subseteq todo
                 /\ cut' = cut \cup {"grants"}
  <2>1. ReadingInv
      BY <1>1, WhileHandling
  <2>2. pc' = IF now = "grant" /\ pc = "users rows" THEN "roles" ELSE "read"
      BY <1>3 DEF AfterList
  <2>3. Handling' /\ now \in {"user", "role", "grant"}
      BY <1>1, <2>1, <2>2 DEF Handling, ReadingInv, Handlers
  <2>4. ReadingInv'
    <3>1. todo' \subseteq {a \in server'.accounts : Concerns(now', a)}
        BY <1>1, <1>3, <2>1 DEF ReadingInv
    <3>2. ASSUME NEW a \in server'.accounts \ gone', ListedAt(now', pc', a)
          PROVE  a \in todo' \/ ("grants" \in cut' /\ now' = "grant" /\ a.role)
      <4>1. ListedAt(now, pc, a)
          BY <1>1, <1>3, <2>1, <2>2, <2>3, <3>2 DEF ListedAt, Concerns, ReadingInv
      <4>2. a \in todo \/ ("grants" \in cut /\ now = "grant" /\ a.role)
          BY <1>1, <2>1, <4>1 DEF ReadingInv
      <4> QED  BY <1>3, <4>2
    <3>3. got' = {} /\ now' \in Handlers \ left'
        BY <1>1, <1>3, <2>1 DEF ReadingInv
    <3>4. /\ now' = "user" => pc' \in {"users", "users rows", "read"}
          /\ now' = "role" => pc' \in {"roles", "roles rows", "read"}
          /\ now' # "database" /\ pc' # "schemas"
        BY <1>1, <1>3, <2>1, <2>2, <2>3 DEF ReadingInv
    <3> QED  BY <3>1, <3>2, <3>3, <3>4 DEF ReadingInv
  <2>5. cut \subseteq cut'
      BY <1>3
  <2> QED  BY <1>1, <1>3, <2>3, <2>4, <2>5, GoingOnKeeps
<1>4. Fault \/ UNCHANGED faults
    BY DEF CloseList
<1> QED  BY <1>1, <1>2, <1>3, <1>4 DEF CloseList

\* So does reading an account.
LEMMA ReadAccountKeeps ==
    ASSUME ReadingIsExact, IInv, DiscoveryInv, NEW a \in todo, ReadAccount(a)
    PROVE  DiscoveryInv'
<1>1. /\ Handling /\ pc = "read" /\ UNCHANGED <<server, gone>>
      /\ faults' \in Nat /\ faults' >= faults
    BY FaultsGrow DEF ReadAccount, session, Handling
<1>2. ReadingInv /\ server.accounts \subseteq Accounts
    BY <1>1, WhileHandling
<1>3. a \in server.accounts /\ Concerns(now, a) /\ now \in {"user", "role", "grant"}
    BY <1>1, <1>2 DEF ReadingInv, Handlers
<1>4. /\ Answer(a) = {} => a \in gone \/ Unreadable(now, {a})
      /\ \A r \in UNION Answer(a) :
            r.type = now /\ r \in Held(now, server.accounts) \cup Emptied
      /\ Answer(a) # {} /\ a \notin gone =>
            ~Unreadable(now, {a}) /\ Held(now, {a}) \subseteq UNION Answer(a)
    BY <1>2, <1>3, AnswerFacts
<1>5. CASE Answered /\ Answer(a) = {} /\ FailHandler
  <2>1. Unreadable(now, {a}) => Unreadable(now, server.accounts)
      BY <1>3, UnreadableFacts DEF Handlers
  <2> QED  BY <1>1, <1>4, <1>5, <2>1, FailureKeeps
<1>6. CASE Lost /\ FailHandler
    BY <1>1, <1>6, FaultsGrow, FailureKeeps
<1>7. CASE /\ Answer(a) # {} /\ got' = got \cup UNION Answer(a) /\ todo' = todo \ {a}
           /\ UNCHANGED <<pc, left, now, found, diags, cut>>
  <2>1. Held(now, server.accounts)' = Held(now, server.accounts) /\ Emptied' = Emptied
      BY <1>1, <1>7 DEF Held, Emptied
  <2>2. got' \subseteq Held(now, server.accounts) \cup Emptied /\ \A r \in got' : r.type = now
      BY <1>2, <1>4, <1>7 DEF ReadingInv
  <2>3. ASSUME NEW b \in server.accounts \ gone, ListedAt(now, pc, b)
        PROVE  \/ b \in todo'
               \/ ~Unreadable(now, {b}) /\ Held(now, {b}) \subseteq got'
               \/ "grants" \in cut /\ now = "grant" /\ b.role
      BY <1>1, <1>2, <1>4, <1>7, <2>3 DEF ReadingInv
  <2>4. \A b : Unreadable(now, {b})' = Unreadable(now, {b}) /\ Held(now, {b})' = Held(now, {b})
      BY <1>1, <1>7 DEF Unreadable, Held
  <2>5. ReadingInv'
    <3>1. \A b \in server'.accounts \ gone' :
            ListedAt(now', pc', b) =>
              \/ b \in todo'
              \/ pc' = "read" /\ ~Unreadable(now, {b})' /\ Held(now, {b})' \subseteq got'
              \/ "grants" \in cut' /\ now' = "grant" /\ b.role
        BY <1>1, <1>7, <2>3, <2>4
    <3>2. todo' \subseteq {b \in server'.accounts : Concerns(now', b)}
        BY <1>1, <1>2, <1>7 DEF ReadingInv
    <3>3. /\ got' \subseteq Held(now, server.accounts)' \cup Emptied'
          /\ \A r \in got' : r.type = now'
        BY <1>7, <2>1, <2>2
    <3>4. pc' = pc /\ now' = now /\ left' = left
        BY <1>7
    <3> QED  BY <1>1, <1>2, <3>1, <3>2, <3>3, <3>4 DEF ReadingInv
  <2>6. Handling'
      BY <1>1, <1>7 DEF Handling
  <2> QED  BY <1>1, <1>7, <2>5, <2>6, GoingOnKeeps
<1> QED  BY <1>5, <1>6, <1>7 DEF ReadAccount

\* So does the end of a handler: all that it was concerned with has been read.
LEMMA EndHandlerKeeps == IInv /\ DiscoveryInv /\ EndHandler => DiscoveryInv'
<1> SUFFICES ASSUME IInv, DiscoveryInv, EndHandler PROVE DiscoveryInv'
    OBVIOUS
<1>1. /\ Handling /\ pc = "read" /\ todo = {} /\ pc' = "discover"
      /\ found' = found \cup got /\ got' = {} /\ todo' = {}
      /\ UNCHANGED <<server, left, now, diags, gone, cut, faults>>
    BY DEF EndHandler, session, Handling
<1>2. ReadingInv /\ faults \in Nat /\ now \in Handlers \ left
    BY <1>1, WhileHandling
<1>3. now \notin diags /\ Those(now) = {} /\ now \in {"user", "role", "grant"}
    BY <1>1, <1>2 DEF DiscoveryInv, ReadingInv, Handlers
<1>4. Those(now)' = got
    BY <1>1, <1>2, <1>3 DEF Those, ReadingInv
<1>5. \A a : ListedAt(now, pc, a) <=> Concerns(now, a)
    BY <1>1, <1>3 DEF ListedAt, Concerns
<1>6. ASSUME NEW a \in server.accounts \ gone, Concerns(now, a),
             "grants" \notin cut \/ now # "grant"
      PROVE  ~Unreadable(now, {a}) /\ Held(now, {a}) \subseteq got
    BY <1>1, <1>2, <1>5, <1>6 DEF ReadingInv
<1>7. ~Unreadable(now, server.accounts \ gone) \/ "grants" \in cut
    BY <1>2, <1>6, UnreadableFacts
<1>8. "grants" \notin cut \/ now # "grant" => Held(now, server.accounts \ gone) \subseteq got
  <2> SUFFICES ASSUME "grants" \notin cut \/ now # "grant", NEW r \in Held(now, server.accounts \ gone)
               PROVE  r \in got
      OBVIOUS
  <2>1. \A x \in Held(now, server.accounts \ gone) :
            \E a \in server.accounts \ gone : Concerns(now, a) /\ x \in Held(now, {a})
    <3>1. now \in Handlers /\ now # "database"
        BY <1>2, <1>3
    <3> QED  BY <3>1, HeldFacts
  <2>2. PICK a \in server.accounts \ gone : Concerns(now, a) /\ r \in Held(now, {a})
      BY <2>1
  <2> QED  BY <1>6, <2>2
<1>9. HandlerIsRight(now)'
  <2>1. Held(now, server.accounts)' = Held(now, server.accounts) /\ Emptied' = Emptied
        /\ Held(now, server.accounts \ gone)' = Held(now, server.accounts \ gone)
        /\ Unreadable(now, server.accounts \ gone)' = Unreadable(now, server.accounts \ gone)
      BY <1>1 DEF Held, Emptied, Unreadable
  <2> QED  BY <1>1, <1>2, <1>3, <1>4, <1>7, <1>8, <2>1 DEF HandlerIsRight, ReadingInv
<1> QED  BY <1>1, <1>2, <1>9, EndingKeeps DEF ReadingInv

\* So does the discovery of the schemas.
LEMMA DiscoverSchemasKeeps == IInv /\ DiscoveryInv /\ DiscoverSchemas => DiscoveryInv'
<1> SUFFICES ASSUME IInv, DiscoveryInv, DiscoverSchemas PROVE DiscoveryInv'
    OBVIOUS
<1>1. /\ Handling /\ pc = "schemas" /\ UNCHANGED <<server, gone>>
      /\ faults' \in Nat /\ faults' >= faults
    BY FaultsGrow DEF DiscoverSchemas, session, Handling
<1>2. ReadingInv
    BY <1>1, WhileHandling
<1>3. CASE Lost /\ FailHandler
    BY <1>1, <1>3, FaultsGrow, FailureKeeps
<1>4. CASE /\ found' = found \cup {[type |-> "database", name |-> s] : s \in server.schemas}
           /\ pc' = "discover" /\ UNCHANGED <<left, now, todo, got, diags, cut>>
  <2> DEFINE new == {[type |-> "database", name |-> s] : s \in server.schemas}
  <2>1. now = "database" /\ now \notin diags /\ Those(now) = {} /\ got = {}
      BY <1>1, <1>2 DEF ReadingInv, DiscoveryInv, Handlers
  <2>2. todo = {}
      BY <1>2, <2>1 DEF ReadingInv, Concerns
  <2>3. \A r \in new : r.type = now
      BY <2>1
  <2>4. Those(now)' = new
      BY <1>4, <2>1 DEF Those
  <2>5. HandlerIsRight(now)'
    <3>1. Held(now, server.accounts)' = new /\ Held(now, server.accounts \ gone)' = new
          /\ ~Unreadable(now, server.accounts \ gone)' /\ now' = now
      <4>1. now' = "database" /\ server' = server /\ now = "database"
          BY <1>1, <1>4, <2>1
      <4> QED  BY <4>1 DEF Held, Unreadable
    <3> HIDE DEF new
    <3> QED  BY <1>4, <2>1, <2>4, <3>1 DEF HandlerIsRight
  <2> HIDE DEF new
  <2> QED  BY <1>1, <1>4, <2>1, <2>2, <2>3, <2>5, EndingKeeps DEF new
<1> QED  BY <1>3, <1>4 DEF DiscoverSchemas

\* So does an account that somebody else drops.
LEMMA DropKeepsDiscovery ==
    ASSUME IInv, DiscoveryInv, NEW a \in server.accounts, Drop(a)
    PROVE  DiscoveryInv'
<1>1. /\ UNCHANGED <<server, pc, left, now, todo, got, found, diags, faults, cut>>
      /\ gone' = gone \cup {a} /\ pc \notin {"failed", "schemas", "done"}
      /\ faults' \in Nat /\ faults' >= faults
  <2>1. faults' = faults /\ faults \in Nat
      BY DEF Drop, DiscoveryInv
  <2>2. faults' >= faults
      BY <2>1
  <2> QED  BY <2>1, <2>2 DEF Drop
<1>2. CASE ~Handling
  <2>1. ~Handling' /\ pc' # "done"
      BY <1>1, <1>2 DEF Handling
  <2> QED  BY <1>1, <1>2, <2>1, QuietKeeps
<1>3. CASE Handling
  <2>1. ReadingInv
      BY <1>3, WhileHandling
  <2>2. Emptied \subseteq Emptied'
    <3>1. Held("role", gone') = Held("role", gone)'
        BY DEF Held
    <3>2. Held("role", gone) \subseteq Held("role", gone')
        BY <1>1, HeldFacts DEF Handlers
    <3> QED  BY <3>1, <3>2 DEF Emptied
  <2>3. /\ Held(now, server.accounts)' = Held(now, server.accounts)
        /\ \A b : Unreadable(now, {b})' = Unreadable(now, {b}) /\ Held(now, {b})' = Held(now, {b})
      BY <1>1 DEF Held, Unreadable
  <2>4. ReadingInv'
      BY <1>1, <2>1, <2>2, <2>3 DEF ReadingInv, ListedAt
  <2>5. Handling'
      BY <1>1, <1>3 DEF Handling
  <2> QED  BY <1>1, <1>3, <2>4, <2>5, GoingOnKeeps
<1> QED  BY <1>2, <1>3

\* For any server, however many queries fail and accounts are dropped while it
\* runs: where SHOW is read as what it says (ReadingIsExact), a discovery that
\* ends has, handler by handler, found what the accounts hold and nothing else,
\* or reported a failure for which there is a cause (user.go, role.go, grant.go
\* and database.go, Discover).
THEOREM DiscoveryIsRight == ReadingIsExact /\ Spec => []DiscoveredIsHeld
<1>1. ASSUME ReadingIsExact, IInv, DiscoveryInv, [Next]_vars PROVE DiscoveryInv'
  <2>1. CASE \/ Validate \/ NewClient \/ Ping \/ QueryVersion \/ QueryCaller
             \/ QueryDefaultRoles \/ QueryRoleEdges
      BY <1>1, <2>1, ConfigureKeeps
  <2>2. CASE NextHandler \/ OpenList \/ CloseList \/ DiscoverSchemas \/ EndHandler
      BY <1>1, <2>2, NextHandlerKeeps, OpenListKeeps, CloseListKeeps, DiscoverSchemasKeeps,
         EndHandlerKeeps
  <2>3. CASE EndDiscover
    <3>1. /\ ~Handling /\ ~Handling' /\ pc # "failed" /\ faults \in Nat /\ left = {}
          /\ UNCHANGED <<server, left, todo, got, found, diags, faults, gone, cut>>
        BY <1>1, <2>3 DEF EndDiscover, session, Handling, DiscoveryInv
    <3> QED  BY <1>1, <3>1, QuietKeeps
  <2>4. CASE \E a \in todo : ReadAccount(a)
      BY <1>1, <2>4, ReadAccountKeeps
  <2>5. CASE \E a \in server.accounts \ gone : Drop(a)
      BY <1>1, <2>5, DropKeepsDiscovery
  <2>6. CASE UNCHANGED vars
      BY <1>1, <2>6 DEF vars, DiscoveryInv, Handling, ReadingInv, ListedAt, Held, Emptied,
                        Unreadable, Those, HandlerIsRight
  <2> QED  BY <1>1, <2>1, <2>2, <2>3, <2>4, <2>5, <2>6 DEF Next, Program
<1>2. DiscoveryInv => DiscoveredIsHeld
  <2> SUFFICES ASSUME DiscoveryInv, pc = "done", NEW h \in Handlers PROVE HandlerIsRight(h)
      BY DEF DiscoveredIsHeld, HandlerIsRight, Those, Emptied
  <2> QED  BY DEF DiscoveryInv, Handling
<1>3. ASSUME ReadingIsExact PROVE Spec => []DiscoveredIsHeld
    BY <1>1, <1>2, <1>3, Invariance, DiscoveryInit, PTL DEF Spec
<1> QED  BY <1>3
=============================================================================
