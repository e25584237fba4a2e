--------------------------- MODULE MCOpenSearchRuns ---------------------------
(* OpenSearchRuns with names a, b, c and the label of the settings singleton. *)
EXTENDS OpenSearchRuns

CONSTANTS o1, o2

MCNames == <<"a", "b", "c", "cluster">>

Id(type, name) == [type |-> type, name |-> name]

\* Role a and mapping a are the cluster's own, the dot of template a is left out.
MCSystem == {Id("role", "a"), Id("component_template", "a")}

Config(body, prune, allow) ==
    [body |-> body, refs |-> [id \in DOMAIN body |-> {}], prune |-> prune, allow |-> allow]

-----------------------------------------------------------------------------
(* Declared resources. *)

\* Lists out of order, fields that are declared as empty, and a default retry.
PolicyBody == [states |-> <<2, 1>>, ism_template |-> <<2, 1>>, retry |-> Unset]
RoleBody == [cluster_permissions |-> <<2, 1>>, index_permissions |-> <<1>>,
             index_patterns |-> <<2, 1>>, dls |-> Unset]
MappingBody == [backend_roles |-> <<2, 1>>, description |-> Unset]
UserBody == [backend_roles |-> <<2, 1>>, attributes |-> Unset]
ComponentBody == [template |-> <<1>>, version |-> <<7>>]
TemplateBody == [index_patterns |-> <<2, 1>>, composed_of |-> Unset, version |-> <<7>>]
PipelineBody == [processors |-> <<2, 1>>, description |-> Unset]
RepositoryBody == [type |-> <<1>>, settings |-> <<1>>]
SettingsBody == [auto_create |-> <<1>>]

Roles == Id("role", "b") :> RoleBody @@ Id("role_mapping", "b") :> MappingBody
Users == Id("internal_user", "b") :> UserBody @@ Id("role_mapping", "b") :> MappingBody
Templates == Id("component_template", "b") :> ComponentBody
                @@ Id("composable_index_template", "b") :> TemplateBody
                @@ Id("snapshot_repository", "b") :> RepositoryBody
Others == Id("ingest_pipeline", "b") :> PipelineBody @@ SettingsID :> SettingsBody

MCConfigs ==
    {Config(Policy("b") :> PolicyBody @@ Policy("c") :> PolicyBody, FALSE, FALSE),
     Config(Policy("c") :> PolicyBody, TRUE, FALSE),
     Config(Roles, TRUE, FALSE),
     Config(Users, TRUE, FALSE),
     Config(Templates, TRUE, FALSE),
     Config(Others, FALSE, FALSE)}

-----------------------------------------------------------------------------
(* Clusters. *)

\* The cluster's own role and template, and what others have made.
Fresh == Id("role", "a") :> [cluster_permissions |-> <<1>>]
            @@ Id("component_template", "a") :> [template |-> <<1>>]
            @@ Id("internal_user", "b") :> [backend_roles |-> <<1>>]
            @@ Id("internal_user", "c") :> [backend_roles |-> <<1>>]

Drifted == Policy("a") :> [states |-> <<1>>] @@ Policy("b") :> [states |-> <<1>>]
            @@ Policy("c") :> [states |-> <<1>>]
            @@ Id("role", "b") :> [cluster_permissions |-> <<3>>]
            @@ Id("role_mapping", "c") :> [users |-> <<2>>]
            @@ Id("internal_user", "a") :> [backend_roles |-> <<3>>]
            @@ Id("component_template", "b") :> [template |-> <<2>>, version |-> <<1>>]
            @@ Id("ingest_pipeline", "b") :> [processors |-> <<1>>]
            @@ Fresh

MCClusters == {Fresh, Drifted}

MCMeddling == {Delete(Policy("b")), Put(Policy("c"), [states |-> <<2>>], "met"),
               Delete(Id("role", "b")),
               Put(Id("role_mapping", "c"), [backend_roles |-> <<1, 3>>], "none"),
               Put(SettingsID, [auto_create |-> <<2>>], "none")}

-----------------------------------------------------------------------------
(* A single case, for the run that refutes a document of the code. *)

\* The caller has its role by a mapping of two backend roles together.
GuardConfigs == {Config(Id("role_mapping", "b") :> MappingBody, TRUE, FALSE)}

GuardClusters == {Id("role_mapping", "c") :> [and_backend_roles |-> <<3, 4>>]}
=============================================================================
