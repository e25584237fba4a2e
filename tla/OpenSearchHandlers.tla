-------------------------- MODULE OpenSearchHandlers --------------------------
(***************************************************************************)
(* The resource handlers of the opensearch provider and the part of an     *)
(* OpenSearch cluster they talk to. The cluster is not in the repository:  *)
(* what it makes of a request follows the comments of the handlers and     *)
(* their integration tests.                                                *)
(*                                                                         *)
(* A body is a function from the names of its fields to lists of numbers;  *)
(* the empty list stands for [], "", {}, null and the default retry, all   *)
(* of which mean that a field is not set. The fields of the entries of     *)
(* index_permissions and tenant_permissions stand beside those of the role.*)
(***************************************************************************)
EXTENDS Naturals, Sequences, FiniteSets, TLC
Fun == INSTANCE Functions

CONSTANTS
    Names,          \* names of resources, in the order the cluster lists them
    System,         \* resources that are reserved, hidden or static, or whose
                    \* name begins with a dot
    PageSize,       \* policies in a page
    CallerUser,     \* the number of the caller's user name in users lists,
    CallerRoles,    \* of its backend roles in backend_roles lists,
    CallerAccount   \* and its internal user

AnyUser == 0    \* "*" in a list of users

Unset == <<>>

Plain == {"role", "role_mapping", "internal_user", "component_template",
          "composable_index_template", "ingest_pipeline", "snapshot_repository"}

ResourceType == Plain \cup {"ism_policy", "cluster_settings"}

ResourceID == [type : ResourceType, name : {Names[i] : i \in DOMAIN Names}]

Policy(n) == [type |-> "ism_policy", name |-> n]

\* The singleton: one per cluster.
SettingsID == [type |-> "cluster_settings", name |-> "cluster"]

\* What a cluster may have.
ClusterID ==
    {id \in ResourceID \cup {SettingsID} : id.type = "cluster_settings" => id = SettingsID}

Without(body, fields) == Fun!Restrict(body, DOMAIN body \ fields)

\* f, and g for what f does not define: TLC's @@, which the provers do not know.
Over(f, g) == [x \in DOMAIN f \cup DOMAIN g |-> IF x \in DOMAIN f THEN f[x] ELSE g[x]]

With(f, x, value) == Over([y \in {x} |-> value], f)

-----------------------------------------------------------------------------
(* The cluster: a function from the resources it has to their bodies. The   *)
(* persistent settings are one of them while there are any.                 *)

\* Fields the cluster shows although nobody has set them.
Defaults(type) ==
    CASE type = "role" -> {"cluster_permissions", "index_permissions",
                           "tenant_permissions", "fls", "masked_fields"}
      [] type = "role_mapping" -> {"backend_roles", "hosts", "users", "and_backend_roles"}
      [] type = "internal_user" -> {"backend_roles", "attributes",
                                    "opendistro_security_roles"}
      [] type = "composable_index_template" -> {"composed_of"}
      [] type = "ism_policy" -> {"error_notification", "ism_template", "retry"}
      [] OTHER -> {}

\* Fields the cluster adds on its own, with values nobody declared.
Injected(type) ==
    CASE type = "internal_user" -> {"hash"}
      [] type = "ism_policy" -> {"policy_id", "last_updated_time", "schema_version"}
      [] OTHER -> {}

\* What a GET returns of a stored body.
Shown(type, body) ==
    Over(body, Over([f \in Defaults(type) |-> Unset], [f \in Injected(type) |-> <<1>>]))

\* What the cluster keeps of the body of a PUT: of a password, a hash only.
Stored(type, body) ==
    IF type = "internal_user" THEN Without(body, {"password", "hash"}) ELSE body

\* A request is [verb, id, body, cond]: cond is "none" without conditions in
\* the URL, "met" or "unmet" with them. A policy that exists is replaced under
\* a condition only, a new user needs a password, what is deleted is there, and
\* reserved roles, mappings and users belong to the cluster.
Accepted(cl, r) ==
    /\ r.verb = "PUT" /\ r.id.type = "ism_policy" =>
          IF r.id \in DOMAIN cl THEN r.cond = "met" ELSE r.cond = "none"
    /\ r.verb = "PUT" /\ r.id.type = "internal_user" /\ r.id \notin DOMAIN cl =>
          {"password", "hash"} \cap DOMAIN r.body # {}
    /\ r.verb = "DELETE" => r.id \in DOMAIN cl
    /\ r.id \in System => r.id.type \notin {"role", "role_mapping", "internal_user"}

\* Settings are merged; a key put to null is unset.
MergedSettings(cl, body) ==
    LET merged == Over(body, IF SettingsID \in DOMAIN cl THEN cl[SettingsID] ELSE <<>>)
    IN  Without(merged, {k \in DOMAIN merged : merged[k] = Unset})

Effect(cl, r) ==
    IF r.verb = "DELETE" THEN Without(cl, {r.id})
    ELSE IF r.id.type = "cluster_settings"
    THEN LET settings == MergedSettings(cl, r.body)
         IN  IF settings = <<>> THEN Without(cl, {SettingsID})
             ELSE With(cl, SettingsID, settings)
    ELSE With(cl, r.id, Stored(r.id.type, r.body))

-----------------------------------------------------------------------------
(* Discovery and normalization. *)

\* What Discover skips: the cluster's own roles, mappings, users and templates.
Hidden(id) ==
    id \in System /\ id.type \in {"role", "role_mapping", "internal_user",
                                  "component_template", "composable_index_template"}

\* Fields dropped when they are not set, by Discover and by Normalize.
Stripped(type) ==
    CASE type = "role" -> {"cluster_permissions", "index_permissions", "tenant_permissions",
                           "fls", "masked_fields", "dls"}
      [] type = "role_mapping" -> {"backend_roles", "hosts", "users", "and_backend_roles",
                                   "description"}
      [] type = "internal_user" -> {"backend_roles", "opendistro_security_roles",
                                    "description", "attributes"}
      [] type = "composable_index_template" -> {"composed_of"}
      [] type = "ingest_pipeline" -> {"description"}
      [] type = "ism_policy" -> {"error_notification", "ism_template", "retry"}
      [] OTHER -> {}

\* Fields that are not desired state: dropped by Discover and by Normalize.
Metadata(type) ==
    CASE type \in {"component_template", "composable_index_template"} -> {"version"}
      [] type = "ism_policy" -> {"policy_id", "last_updated_time", "schema_version"}
      [] OTHER -> {}

\* Fields whose lists Normalize sorts.
Sorted(type) ==
    CASE type = "role" -> {"cluster_permissions", "index_patterns", "allowed_actions",
                           "fls", "masked_fields", "tenant_patterns"}
      [] type = "role_mapping" -> {"backend_roles", "hosts", "users", "and_backend_roles"}
      [] type = "internal_user" -> {"backend_roles", "opendistro_security_roles"}
      [] type = "composable_index_template" -> {"index_patterns", "composed_of"}
      [] type = "ism_policy" -> {"ism_template"}
      [] OTHER -> {}

Strip(type, body) ==
    Without(body, Metadata(type) \cup {f \in Stripped(type) \cap DOMAIN body : body[f] = Unset})

\* (Mutant of FromReply: the hash of a user is kept.)
FromReplyWithHash(type, body) == Strip(type, body)

\* What Discover makes of a reply: the hash of a user is never shown.
FromReply(type, body) ==
    Strip(type, IF type = "internal_user" THEN Without(body, {"hash"}) ELSE body)

\* How many entries come no later in the sorted list than entry i.
Place(list, i) ==
    Cardinality({j \in DOMAIN list : list[j] < list[i] \/ (list[j] = list[i] /\ j <= i)})

\* A sorted copy: entry n is the one whose place it is.
InOrder(list) == [n \in DOMAIN list |-> list[CHOOSE i \in DOMAIN list : Place(list, i) = n]]

\* What is compared, and what is put.
Normalize(type, body) ==
    Strip(type, [f \in DOMAIN body |->
                    IF f \in Sorted(type) THEN InOrder(body[f]) ELSE body[f]])

Differs(type, desired, live) == Normalize(type, desired) # Normalize(type, live)

Found(cl, ids) == [id \in ids |-> FromReply(id.type, Shown(id.type, cl[id]))]

\* One GET lists everything of a type.
Discover(cl, type) == Found(cl, {id \in DOMAIN cl : id.type = type /\ ~Hidden(id)})

\* Policies come in pages, in the order of their names: the cluster lists some
\* of Names, each at a place of its own.
Listing(cl) == {i \in DOMAIN Names : Policy(Names[i]) \in DOMAIN cl}

Nth(cl, i) == Cardinality({j \in Listing(cl) : j <= i})

Page(cl, from) == {i \in Listing(cl) : Nth(cl, i) \in (from + 1)..(from + PageSize)}

DiscoverPage(cl, from) == Found(cl, {Policy(Names[i]) : i \in Page(cl, from)})

\* (Mutant of LastPage: the page is taken for the last one when it is full.)
LastPageWhenFull(cl, from) ==
    Cardinality(Page(cl, from)) = PageSize \/ Page(cl, from) = {}

\* from >= total_policies, or an empty page.
LastPage(cl, from) ==
    \/ from + Cardinality(Page(cl, from)) >= Cardinality(Listing(cl))
    \/ Page(cl, from) = {}

-----------------------------------------------------------------------------
(* Apply. *)

Nulls(body) == [k \in DOMAIN body |-> Unset]

\* A policy is updated after a GET of its sequence number.
NeedsFetch(op, id) == id.type = "ism_policy" /\ op = "update"

Put(id, body, cond) == [verb |-> "PUT", id |-> id, body |-> body, cond |-> cond]

Delete(id) == [verb |-> "DELETE", id |-> id, body |-> Unset, cond |-> "none"]

\* Settings are deleted by a PUT of nulls for every key of the body given.
PutSettings(op, id, body) == Put(id, IF op = "delete" THEN Nulls(body) ELSE body, "none")

\* Everything else is put whole or deleted.
Request(op, id, body, cond) ==
    CASE id.type = "cluster_settings" -> PutSettings(op, id, body)
      [] id.type # "cluster_settings" /\ op = "delete" -> Delete(id)
      [] OTHER -> Put(id, body, cond)

\* (Mutant of Succeeds: 404 is an error for a DELETE as well.)
SucceedsIfFound(cl, r) == Accepted(cl, r)

\* What the handler makes of the status: a DELETE that finds nothing, 404, is a
\* success.
Succeeds(cl, r) == Accepted(cl, r) \/ (r.verb = "DELETE" /\ r.id \notin DOMAIN cl)

-----------------------------------------------------------------------------
(* Guards. *)

Listed(body, field) == IF field \in DOMAIN body THEN {body[field][i] : i \in DOMAIN body[field]}
                       ELSE {}

\* (Mutant of LocksOut: backend roles are not compared.)
LocksOutByName(id, body) ==
    \/ id.type = "role_mapping" /\ Listed(body, "users") \cap {AnyUser, CallerUser} # {}
    \/ id.type = "internal_user" /\ id.name = CallerAccount

\* classifyRoleMappingLockout and classifyInternalUserLockout.
LocksOut(id, body) ==
    \/ /\ id.type = "role_mapping"
       /\ \/ Listed(body, "users") \cap {AnyUser, CallerUser} # {}
          \/ Listed(body, "backend_roles") \cap CallerRoles # {}
    \/ id.type = "internal_user" /\ id.name = CallerAccount
=============================================================================
