------------------------------ MODULE IamRules ------------------------------
(***************************************************************************)
(* The IAM rule engine of iam_guard, which cryptojack_guard reuses: what   *)
(* its rules find in the inventories that were read.                       *)
(*                                                                         *)
(* An inventory is a record of sets of records.  A principal is a value of *)
(* which only its domain and its kind matter; a service account is the     *)
(* principal "serviceAccount:<its email>".  A resource is a pair of a      *)
(* service and a name.  A finding is a rule applied to a resource, the     *)
(* principals and the roles it names, and its severity; its texts are left *)
(* out.                                                                    *)
(***************************************************************************)
EXTENDS Naturals

CONSTANTS
    Project,            \* the project audited
    Public,             \* allUsers and allAuthenticatedUsers
    Humans,             \* principals written user:, group: or domain:
    Domain,             \* Domain[p]: what follows p's "@", or NoDomain
    NoDomain,           \* the domain of a principal that has none
    TrustedDomains,     \* domains configured as internal, possibly none
    UntrustedDomains    \* consumer domains

Severities == {"CRITICAL", "HIGH", "MEDIUM", "LOW"}

SeverityRank(v) ==
    CASE v = "CRITICAL" -> 0 [] v = "HIGH" -> 1 [] v = "MEDIUM" -> 2 [] v = "LOW" -> 3

-----------------------------------------------------------------------------
(***************************************************************************)
(* The catalogue of roles, without their "roles/" prefix.                  *)
(***************************************************************************)
BASIC_ROLES == {"owner", "editor", "viewer"}

IAM_ADMIN_ROLES ==
    {"owner", "iam.securityAdmin", "iam.organizationRoleAdmin", "iam.roleAdmin",
     "resourcemanager.projectIamAdmin", "resourcemanager.folderIamAdmin",
     "resourcemanager.organizationAdmin"}

IMPERSONATION_ROLES ==
    {"iam.serviceAccountTokenCreator", "iam.serviceAccountKeyAdmin", "iam.serviceAccountAdmin",
     "iam.workloadIdentityUser", "iam.serviceAccountOpenIdTokenCreator"}

ACTAS_ROLES == {"iam.serviceAccountUser", "editor", "owner"}

COMPUTE_EXECUTION_ROLES ==
    {"compute.admin", "compute.instanceAdmin", "compute.instanceAdmin.v1", "container.admin",
     "container.clusterAdmin", "dataproc.editor", "dataflow.developer", "run.admin",
     "run.developer", "cloudfunctions.admin", "cloudfunctions.developer",
     "cloudbuild.builds.editor", "composer.admin", "notebooks.admin", "aiplatform.admin",
     "deploymentmanager.editor", "appengine.deployer"}

QUOTA_AND_BILLING_ROLES ==
    {"serviceusage.serviceUsageAdmin", "billing.admin", "billing.projectManager", "owner"}

DATA_READ_ROLES ==
    {"storage.admin", "storage.objectAdmin", "storage.objectViewer", "storage.legacyBucketOwner",
     "storage.legacyObjectReader", "bigquery.dataOwner", "bigquery.dataEditor",
     "bigquery.dataViewer", "bigquery.admin", "viewer", "editor", "owner"}

BUCKET_WRITE_ROLES == {"storage.admin", "storage.objectAdmin"}

BUCKET_LEGACY_ROLES ==
    {"storage.legacyBucketOwner", "storage.legacyBucketReader", "storage.legacyBucketWriter",
     "storage.legacyObjectOwner", "storage.legacyObjectReader"}

\* Whoever holds one of these can make itself or a service account anything.
Privileged == IAM_ADMIN_ROLES \cup (BASIC_ROLES \ {"viewer"})

-----------------------------------------------------------------------------
(***************************************************************************)
(* Reading the book of inventories, whose domain is the sources read.  An  *)
(* inventory that was not read reads as an empty object.                   *)
(***************************************************************************)
_INVENTORY_KEYS ==
    {"project_iam", "service_accounts", "gce_inventory", "gcs_inventory", "bigquery_inventory"}

_bindings(b) == IF "project_iam" \in DOMAIN b THEN b["project_iam"].bindings ELSE {}

Audited(b) == "project_iam" \in DOMAIN b /\ b["project_iam"].audit_configs

Accounts(b) == IF "service_accounts" \in DOMAIN b THEN b["service_accounts"] ELSE {}

OsLogin(b) == "gce_inventory" \in DOMAIN b /\ b["gce_inventory"].oslogin

Machines(b) == IF "gce_inventory" \in DOMAIN b THEN b["gce_inventory"].instances ELSE {}

Buckets(b) == IF "gcs_inventory" \in DOMAIN b THEN b["gcs_inventory"] ELSE {}

Datasets(b) == IF "bigquery_inventory" \in DOMAIN b THEN b["bigquery_inventory"] ELSE {}

\* Mutation: a principal's later binding replaces its earlier one.
RolesOfOneBinding(b, p) ==
    LET held == {x \in _bindings(b) : p \in x.members}
    IN  IF held = {} THEN {} ELSE {(CHOOSE x \in held : TRUE).role}

\* Roles the project grants to p, under whatever condition.
_principal_roles(b, p) == {x.role : x \in {y \in _bindings(b) : p \in y.members}}

UntrustedDomain(d) ==
    \/ d \in UntrustedDomains
    \/ TrustedDomains # {} /\ d \notin TrustedDomains

_is_untrusted(p) == Domain[p] # NoDomain /\ UntrustedDomain(Domain[p])

Finding(rule, severity, resource, principals, roles) ==
    [rule |-> rule, severity |-> severity, resource |-> resource,
     principals |-> principals, roles |-> roles]

_project_ref == <<"iam", Project>>

-----------------------------------------------------------------------------
(***************************************************************************)
(* The project's policy.                                                   *)
(***************************************************************************)
PublicBindings(b) ==
    {Finding("IAM-PROJ-PUBLIC-BINDING", "CRITICAL", _project_ref,
             x.members \cap Public, {x.role}) :
       x \in {y \in _bindings(b) : y.members \cap Public # {}}}

BasicRoles(b) ==
    {Finding("IAM-PROJ-BASIC-ROLE", IF x.role = "owner" THEN "HIGH" ELSE "MEDIUM",
             _project_ref, x.members, {x.role}) :
       x \in {y \in _bindings(b) : y.role \in BASIC_ROLES \ {"viewer"} /\ y.members # {}}}

UnconditionalAdmins(b) ==
    {Finding("IAM-PROJ-UNCONDITIONAL-IAM-ADMIN", "HIGH", _project_ref, x.members, {x.role}) :
       x \in {y \in _bindings(b) : y.role \in IAM_ADMIN_ROLES /\ ~y.condition}}

BroadImpersonation(b) ==
    {Finding("IAM-PROJ-BROAD-IMPERSONATION", "HIGH", _project_ref, x.members, {x.role}) :
       x \in {y \in _bindings(b) : y.role \in IMPERSONATION_ROLES /\ y.members # {}}}

\* The people among S whose accounts the organisation does not manage.
Outsiders(S) == {p \in S \cap Humans : _is_untrusted(p)}

ExternalPrincipals(b) ==
    {Finding("IAM-PROJ-EXTERNAL-PRINCIPAL",
             IF x.role \in IAM_ADMIN_ROLES \cup BASIC_ROLES THEN "HIGH" ELSE "MEDIUM",
             _project_ref, Outsiders(x.members), {x.role}) :
       x \in {y \in _bindings(b) : Outsiders(y.members) # {}}}

QuotaControl(b) ==
    {Finding("IAM-PROJ-QUOTA-CONTROL", "MEDIUM", _project_ref, x.members \cap Humans, {x.role}) :
       x \in {y \in _bindings(b) :
                y.role \in QUOTA_AND_BILLING_ROLES /\ y.members \cap Humans # {}}}

NoAuditLogs(b) ==
    IF Audited(b) THEN {}
    ELSE {Finding("IAM-PROJ-NO-DATA-ACCESS-LOGS", "MEDIUM", _project_ref, {}, {})}

check_project_iam(b) ==
    PublicBindings(b) \cup BasicRoles(b) \cup UnconditionalAdmins(b) \cup BroadImpersonation(b)
      \cup ExternalPrincipals(b) \cup QuotaControl(b) \cup NoAuditLogs(b)

-----------------------------------------------------------------------------
(***************************************************************************)
(* Grants that are harmless alone.                                         *)
(***************************************************************************)
Granted(b) == UNION {x.members : x \in _bindings(b)}

\* Listed service accounts that could take the project over.
privileged_sas(b) ==
    {a \in Accounts(b) : _principal_roles(b, a.email) \cap Privileged # {}}

ActAsEscalation(b) ==
    {Finding("IAM-PATH-ACTAS-ESCALATION",
             IF privileged_sas(b) # {} THEN "CRITICAL" ELSE "HIGH",
             _project_ref, {p},
             _principal_roles(b, p) \cap (ACTAS_ROLES \cup COMPUTE_EXECUTION_ROLES)) :
       p \in {q \in Granted(b) :
                /\ _principal_roles(b, q) \cap ACTAS_ROLES # {}
                /\ _principal_roles(b, q) \cap COMPUTE_EXECUTION_ROLES # {}}}

ImpersonationToData(b) ==
    {Finding("IAM-PATH-IMPERSONATION-TO-DATA", "HIGH", _project_ref, {p},
             _principal_roles(b, p) \cap (IMPERSONATION_ROLES \cup DATA_READ_ROLES)) :
       p \in {q \in Granted(b) :
                /\ _principal_roles(b, q) \cap IMPERSONATION_ROLES # {}
                /\ _principal_roles(b, q) \cap DATA_READ_ROLES # {}}}

check_attack_paths(b) == ActAsEscalation(b) \cup ImpersonationToData(b)

-----------------------------------------------------------------------------
(***************************************************************************)
(* Service accounts.                                                       *)
(***************************************************************************)
AccountRef(a) == <<"serviceAccount", a.email>>

UserManagedKeys(b) ==
    {Finding("IAM-SA-USER-MANAGED-KEY", "HIGH", AccountRef(a), {a.email}, {}) :
       a \in {x \in Accounts(b) : x.keys}}

DisabledWithRoles(b) ==
    {Finding("IAM-SA-DISABLED-WITH-ROLES", "LOW", AccountRef(a), {a.email},
             _principal_roles(b, a.email)) :
       a \in {x \in Accounts(b) : x.disabled /\ _principal_roles(b, x.email) # {}}}

PublicImpersonation(b) ==
    UNION {{Finding("IAM-SA-PUBLIC-IMPERSONATION", "CRITICAL", AccountRef(a),
                    x.members \cap Public, {x.role}) :
              x \in {y \in a.bindings : y.members \cap Public # {}}} : a \in Accounts(b)}

ExternalImpersonation(b) ==
    UNION {{Finding("IAM-SA-EXTERNAL-IMPERSONATION", "HIGH", AccountRef(a),
                    Outsiders(x.members), {x.role}) :
              x \in {y \in a.bindings :
                       y.role \in IMPERSONATION_ROLES /\ Outsiders(y.members) # {}}} :
             a \in Accounts(b)}

check_service_accounts(b) ==
    UserManagedKeys(b) \cup DisabledWithRoles(b) \cup PublicImpersonation(b)
      \cup ExternalImpersonation(b)

-----------------------------------------------------------------------------
(***************************************************************************)
(* Compute Engine.  An attached account is the default account of the      *)
(* project or not, and has the cloud-platform scope or not.                *)
(***************************************************************************)
InstanceRef(i) == <<"gce", i.name>>

OsLoginDisabled(b) ==
    IF OsLogin(b) THEN {}
    ELSE {Finding("GCE-OSLOGIN-DISABLED", "MEDIUM", <<"gce", Project>>, {}, {})}

Dangerous(b, sa) == _principal_roles(b, sa.email) \cap Privileged

DefaultFullScope(b) ==
    UNION {{Finding("GCE-DEFAULT-SA-FULL-SCOPE", "HIGH", InstanceRef(i), {sa.email},
                    Dangerous(b, sa)) :
              sa \in {x \in i.attached : x.is_default /\ x.broad_scope}} : i \in Machines(b)}

PrivilegedAttached(b) ==
    UNION {{Finding("GCE-PRIVILEGED-SA-ATTACHED", "HIGH", InstanceRef(i), {sa.email},
                    Dangerous(b, sa)) :
              sa \in {x \in i.attached :
                        ~(x.is_default /\ x.broad_scope) /\ Dangerous(b, x) # {}}} :
             i \in Machines(b)}

ExternalIp(b) ==
    {Finding("GCE-EXTERNAL-IP", IF i.attached # {} THEN "HIGH" ELSE "MEDIUM",
             InstanceRef(i), {}, {}) :
       i \in {x \in Machines(b) : x.external_ips # {} /\ x.running}}

ProjectSshKeys(b) ==
    {Finding("GCE-PROJECT-SSH-KEYS-ALLOWED", "MEDIUM", InstanceRef(i), {}, {}) :
       i \in {x \in Machines(b) : x.startup_script /\ ~x.blocks_ssh_keys}}

SerialPort(b) ==
    {Finding("GCE-SERIAL-PORT-ENABLED", "MEDIUM", InstanceRef(i), {}, {}) :
       i \in {x \in Machines(b) : x.serial_port}}

GpuReview(b) ==
    {Finding("GCE-GPU-WORKLOAD-REVIEW", "LOW", InstanceRef(i), {}, {}) :
       i \in {x \in Machines(b) : x.gpu /\ x.running}}

check_gce(b) ==
    OsLoginDisabled(b) \cup DefaultFullScope(b) \cup PrivilegedAttached(b) \cup ExternalIp(b)
      \cup ProjectSshKeys(b) \cup SerialPort(b) \cup GpuReview(b)

-----------------------------------------------------------------------------
(***************************************************************************)
(* Cloud Storage.                                                          *)
(***************************************************************************)
BucketRef(k) == <<"gcs", k.name>>

PublicBuckets(b) ==
    UNION {{Finding("GCS-PUBLIC-BUCKET", "CRITICAL", BucketRef(k),
                    x.members \cap Public, {x.role}) :
              x \in {y \in k.bindings : y.members \cap Public # {}}} : k \in Buckets(b)}

\* Whoever has a foreign domain, service accounts included.
Strangers(S) == {p \in S : _is_untrusted(p)}

ExternalWriters(b) ==
    UNION {{Finding("GCS-EXTERNAL-WRITE-ACCESS", "HIGH", BucketRef(k),
                    Strangers(x.members), {x.role}) :
              x \in {y \in k.bindings :
                       y.role \in BUCKET_WRITE_ROLES /\ Strangers(y.members) # {}}} :
             k \in Buckets(b)}

LegacyRoles(b) ==
    UNION {{Finding("GCS-LEGACY-ROLE", "LOW", BucketRef(k), x.members, {x.role}) :
              x \in {y \in k.bindings : y.role \in BUCKET_LEGACY_ROLES /\ y.members # {}}} :
             k \in Buckets(b)}

ObjectAcls(b) ==
    {Finding("GCS-UBLA-DISABLED", "MEDIUM", BucketRef(k), {}, {}) :
       k \in {x \in Buckets(b) : ~x.uniform_access}}

PublicAccessPossible(b) ==
    {Finding("GCS-PAP-NOT-ENFORCED", "MEDIUM", BucketRef(k), {}, {}) :
       k \in {x \in Buckets(b) : ~x.access_prevention}}

check_gcs(b) ==
    PublicBuckets(b) \cup ExternalWriters(b) \cup LegacyRoles(b) \cup ObjectAcls(b)
      \cup PublicAccessPossible(b)

-----------------------------------------------------------------------------
(***************************************************************************)
(* BigQuery.  An access entry is for a special group, a domain or a user.  *)
(***************************************************************************)
DatasetRef(d) == <<"bigquery", d.name>>

Entries(d, type) == {e \in d.entries : e.entity_type = type}

PublicDatasets(b) ==
    UNION {{Finding("BQ-PUBLIC-DATASET", "CRITICAL", DatasetRef(d), {e.entity_id}, {e.role}) :
              e \in {x \in Entries(d, "specialGroup") : x.entity_id \in Public}} :
             d \in Datasets(b)}

EditorsOwn(b) ==
    UNION {{Finding("BQ-PROJECT-EDITORS-OWNER", "MEDIUM", DatasetRef(d), {e.entity_id}, {e.role}) :
              e \in {x \in Entries(d, "specialGroup") :
                       x.entity_id = "projectEditors" /\ x.role = "OWNER"}} : d \in Datasets(b)}

DomainWide(b) ==
    UNION {{Finding("BQ-DOMAIN-WIDE-ACCESS",
                    IF UntrustedDomain(e.entity_id) THEN "HIGH" ELSE "MEDIUM",
                    DatasetRef(d), {e.entity_id}, {e.role}) :
              e \in Entries(d, "domain")} : d \in Datasets(b)}

ExternalUsers(b) ==
    UNION {{Finding("BQ-EXTERNAL-USER-ACCESS", "HIGH", DatasetRef(d), {e.entity_id}, {e.role}) :
              e \in {x \in Entries(d, "userByEmail") : _is_untrusted(x.entity_id)}} :
             d \in Datasets(b)}

check_bigquery(b) ==
    PublicDatasets(b) \cup EditorsOwn(b) \cup DomainWide(b) \cup ExternalUsers(b)

-----------------------------------------------------------------------------
(***************************************************************************)
(* The engine.                                                             *)
(***************************************************************************)

\* Mutation: every check runs, whatever was read.
RaisedUnguarded(b) ==
    check_project_iam(b) \cup check_attack_paths(b) \cup check_service_accounts(b)
      \cup check_gce(b) \cup check_gcs(b) \cup check_bigquery(b)

\* Mutation: no check runs without the project's policy.
RaisedWithProject(b) == IF "project_iam" \in DOMAIN b THEN RaisedUnguarded(b) ELSE {}

\* The findings raised; a check runs when its own inventory was read.
Raised(b) ==
    (IF "project_iam" \in DOMAIN b THEN check_project_iam(b) \cup check_attack_paths(b) ELSE {})
      \cup (IF "service_accounts" \in DOMAIN b THEN check_service_accounts(b) ELSE {})
      \cup (IF "gce_inventory" \in DOMAIN b THEN check_gce(b) ELSE {})
      \cup (IF "gcs_inventory" \in DOMAIN b THEN check_gcs(b) ELSE {})
      \cup (IF "bigquery_inventory" \in DOMAIN b THEN check_bigquery(b) ELSE {})

\* Mutation: the principals are not part of the key.
SameKeyWithoutPrincipals(f, g) ==
    f.rule = g.rule /\ f.resource = g.resource /\ f.roles = g.roles

\* Mutation: nor are the roles.
SameKeyWithoutRoles(f, g) ==
    f.rule = g.rule /\ f.resource = g.resource /\ f.principals = g.principals

SameKey(f, g) ==
    /\ f.rule = g.rule
    /\ f.resource = g.resource
    /\ f.principals = g.principals
    /\ f.roles = g.roles

\* The first finding of every key is kept.
_dedupe(S) == {CHOOSE g \in S : SameKey(f, g) : f \in S}

analyze(b) == _dedupe(Raised(b))

Cryptojacking(f) ==
    f.rule \in {"IAM-PROJ-QUOTA-CONTROL", "IAM-PATH-ACTAS-ESCALATION", "GCE-EXTERNAL-IP",
                "GCE-GPU-WORKLOAD-REVIEW"}
=============================================================================
