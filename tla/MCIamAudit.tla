---------------------------- MODULE MCIamAudit ----------------------------
(***************************************************************************)
(* Projects with one weak spot of every kind.  Either the policy varies,   *)
(* with two people, a consumer account and a service account in it, or the *)
(* resources do, next to a policy that makes the service account powerful. *)
(***************************************************************************)
EXTENDS IamAudit

Grant(role, members, condition) == [role |-> role, members |-> members, condition |-> condition]

\* alice holds two halves of each attack path in different bindings.
MCGrants ==
    {Grant("owner", {"alice", "mallory"}, FALSE), Grant("editor", {"bot"}, FALSE),
     Grant("iam.serviceAccountUser", {"alice", "bob"}, FALSE),
     Grant("iam.serviceAccountUser", {"bob"}, TRUE),
     Grant("compute.admin", {"alice", "bob", "bot"}, FALSE),
     Grant("iam.serviceAccountTokenCreator", {"alice", "mallory"}, FALSE),
     Grant("bigquery.dataViewer", {"allUsers", "alice"}, FALSE),
     Grant("resourcemanager.projectIamAdmin", {"bob"}, TRUE)}

Bot(keys, disabled, bindings) ==
    [email |-> "bot", keys |-> keys, disabled |-> disabled, bindings |-> bindings]

Machine(attached, addresses, running, loose) ==
    [name |-> "vm", attached |-> attached, external_ips |-> addresses, running |-> running,
     startup_script |-> loose, blocks_ssh_keys |-> FALSE, serial_port |-> loose, gpu |-> loose]

Attached(is_default, broad) == [email |-> "bot", is_default |-> is_default, broad_scope |-> broad]

Bucket(bindings, tight) ==
    [name |-> "data", bindings |-> bindings, uniform_access |-> tight, access_prevention |-> tight]

Entry(type, id, role) == [entity_type |-> type, entity_id |-> id, role |-> role]

Cloud(grants, audit, accounts, oslogin, machines, buckets, datasets) ==
    [project_iam |-> [bindings |-> grants, audit_configs |-> audit],
     service_accounts |-> accounts,
     gce_inventory |-> [oslogin |-> oslogin, instances |-> machines],
     gcs_inventory |-> buckets, bigquery_inventory |-> datasets]

Policies ==
    {Cloud(G, TRUE, accounts, TRUE, {}, {}, {}) :
       G \in {H \in SUBSET MCGrants : Cardinality(H) \in 1..3},
       accounts \in {{}, {Bot(FALSE, TRUE, {})}}}

Resources ==
    {Cloud({Grant("editor", {"bot"}, FALSE)}, FALSE,
           {Bot(TRUE, FALSE, {Grant("iam.workloadIdentityUser", {"allUsers", "mallory"}, FALSE)})},
           FALSE, {Machine(m[1], m[2], m[3], loose)}, {Bucket(bindings, ~loose)},
           {[name |-> "sales", entries |-> entries]}) :
       m \in {<<{}, {"nic0"}, TRUE>>, <<{Attached(TRUE, FALSE)}, {"nic0"}, TRUE>>,
              <<{Attached(TRUE, TRUE)}, {"nic0", "nic1"}, TRUE>>,
              <<{Attached(TRUE, TRUE)}, {}, FALSE>>},
       loose \in BOOLEAN,
       bindings \in {{Grant("storage.objectViewer", {"allUsers", "allAuthenticatedUsers"}, FALSE)},
                     {Grant("storage.objectViewer", {"allUsers"}, TRUE)},
                     {Grant("storage.admin", {"bot", "mallory"}, FALSE),
                      Grant("storage.legacyBucketOwner", {"alice"}, FALSE)}},
       entries \in {{Entry("specialGroup", "allUsers", "READER"),
                     Entry("specialGroup", "projectEditors", "OWNER")},
                    {Entry("domain", "gmail.com", "READER"), Entry("userByEmail", "mallory", "WRITER")}}}

MCClouds == Policies \cup Resources

MCReadable == {_INVENTORY_KEYS, _INVENTORY_KEYS \ {"project_iam"}, _INVENTORY_KEYS \ {"service_accounts", "gcs_inventory"}, {}}

MCPublic == {"allUsers", "allAuthenticatedUsers"}

MCHumans == {"alice", "bob", "mallory"}

MCDomain ==
    [p \in {"alice", "bob", "mallory", "bot", "allUsers", "allAuthenticatedUsers"} |->
       CASE p \in {"alice", "bob"} -> "example.com" [] p = "mallory" -> "gmail.com"
         [] p = "bot" -> "iam.gserviceaccount.com" [] OTHER -> ""]

MCQueries ==
    {[severity |-> "", category |-> "", service |-> {}, limit |-> 25],
     [severity |-> "HIGH", category |-> "", service |-> {}, limit |-> 0],
     [severity |-> "", category |-> "cryptojacking", service |-> {"iam", "serviceAccount"},
      limit |-> 2]}
=============================================================================
