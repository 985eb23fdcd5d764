-------------------------- MODULE IamRules_proofs --------------------------
(***************************************************************************)
(* Proofs about the rules, for every book of inventories: which severity a *)
(* rule gives, and that dropping repeats drops nothing.                    *)
(***************************************************************************)
EXTENDS IamRules, TLAPS

\* No two instances of the book have one name.
MachinesDistinct(b) == \A i, j \in Machines(b) : i.name = j.name => i = j

\* Rules whose severity is always the same.
CriticalRules ==
    {"IAM-PROJ-PUBLIC-BINDING", "IAM-SA-PUBLIC-IMPERSONATION", "GCS-PUBLIC-BUCKET",
     "BQ-PUBLIC-DATASET"}

HighRules ==
    {"IAM-PROJ-UNCONDITIONAL-IAM-ADMIN", "IAM-PROJ-BROAD-IMPERSONATION",
     "IAM-PATH-IMPERSONATION-TO-DATA", "IAM-SA-USER-MANAGED-KEY",
     "IAM-SA-EXTERNAL-IMPERSONATION", "GCE-DEFAULT-SA-FULL-SCOPE",
     "GCE-PRIVILEGED-SA-ATTACHED", "GCS-EXTERNAL-WRITE-ACCESS", "BQ-EXTERNAL-USER-ACCESS"}

MediumRules ==
    {"IAM-PROJ-QUOTA-CONTROL", "IAM-PROJ-NO-DATA-ACCESS-LOGS", "GCE-OSLOGIN-DISABLED",
     "GCE-PROJECT-SSH-KEYS-ALLOWED", "GCE-SERIAL-PORT-ENABLED", "GCS-UBLA-DISABLED",
     "GCS-PAP-NOT-ENFORCED", "BQ-PROJECT-EDITORS-OWNER"}

LowRules ==
    {"IAM-SA-DISABLED-WITH-ROLES", "GCE-GPU-WORKLOAD-REVIEW", "GCS-LEGACY-ROLE"}

\* The severity of any other rule is read off what its finding names.
Graded(b, rule, resource, principals, roles) ==
    IF rule = "IAM-PROJ-BASIC-ROLE" THEN IF "owner" \in roles THEN "HIGH" ELSE "MEDIUM"
    ELSE IF rule = "IAM-PROJ-EXTERNAL-PRINCIPAL" THEN
           IF roles \cap (IAM_ADMIN_ROLES \cup BASIC_ROLES) # {} THEN "HIGH" ELSE "MEDIUM"
    ELSE IF rule = "IAM-PATH-ACTAS-ESCALATION" THEN
           IF privileged_sas(b) # {} THEN "CRITICAL" ELSE "HIGH"
    ELSE IF rule = "GCE-EXTERNAL-IP" THEN
           IF \E i \in Machines(b) : InstanceRef(i) = resource /\ i.attached # {}
           THEN "HIGH" ELSE "MEDIUM"
    ELSE IF \E d \in principals : UntrustedDomain(d) THEN "HIGH" ELSE "MEDIUM"

GradedRules ==
    {"IAM-PROJ-BASIC-ROLE", "IAM-PROJ-EXTERNAL-PRINCIPAL", "IAM-PATH-ACTAS-ESCALATION",
     "GCE-EXTERNAL-IP", "BQ-DOMAIN-WIDE-ACCESS"}

\* f is a finding whose severity its rule, resource, principals and roles fix.
Fixed(b, f) ==
    /\ f = Finding(f.rule, f.severity, f.resource, f.principals, f.roles)
    /\ f.severity \in Severities
    /\ \/ f.rule \in CriticalRules /\ f.severity = "CRITICAL"
       \/ f.rule \in HighRules /\ f.severity = "HIGH"
       \/ f.rule \in MediumRules /\ f.severity = "MEDIUM"
       \/ f.rule \in LowRules /\ f.severity = "LOW"
       \/ /\ f.rule \in GradedRules
          /\ f.severity = Graded(b, f.rule, f.resource, f.principals, f.roles)

\* The checks of the project's policy.
LEMMA ProjectFixed ==
    ASSUME NEW b, NEW f \in check_project_iam(b)
    PROVE  Fixed(b, f)
<1>1. CASE f \in PublicBindings(b)
  BY <1>1 DEF PublicBindings, Finding, Fixed, CriticalRules, Severities
<1>2. CASE f \in BasicRoles(b)
  BY <1>2 DEF BasicRoles, Finding, Fixed, GradedRules, Graded, Severities
<1>3. CASE f \in UnconditionalAdmins(b)
  BY <1>3 DEF UnconditionalAdmins, Finding, Fixed, HighRules, Severities
<1>4. CASE f \in BroadImpersonation(b)
  BY <1>4 DEF BroadImpersonation, Finding, Fixed, HighRules, Severities
<1>5. CASE f \in ExternalPrincipals(b)
  BY <1>5 DEF ExternalPrincipals, Finding, Fixed, GradedRules, Graded, Severities
<1>6. CASE f \in QuotaControl(b)
  BY <1>6 DEF QuotaControl, Finding, Fixed, MediumRules, Severities
<1>7. CASE f \in NoAuditLogs(b)
  BY <1>7 DEF NoAuditLogs, Finding, Fixed, MediumRules, Severities
<1> QED
  BY <1>1, <1>2, <1>3, <1>4, <1>5, <1>6, <1>7 DEF check_project_iam

\* The attack paths.
LEMMA PathsFixed ==
    ASSUME NEW b, NEW f \in check_attack_paths(b)
    PROVE  Fixed(b, f)
<1>1. CASE f \in ActAsEscalation(b)
  BY <1>1 DEF ActAsEscalation, Finding, Fixed, GradedRules, Graded, Severities
<1>2. CASE f \in ImpersonationToData(b)
  BY <1>2 DEF ImpersonationToData, Finding, Fixed, HighRules, Severities
<1> QED
  BY <1>1, <1>2 DEF check_attack_paths

\* The checks of the service accounts.
LEMMA AccountsFixed ==
    ASSUME NEW b, NEW f \in check_service_accounts(b)
    PROVE  Fixed(b, f)
<1>1. CASE f \in UserManagedKeys(b)
  BY <1>1 DEF UserManagedKeys, Finding, Fixed, HighRules, Severities
<1>2. CASE f \in DisabledWithRoles(b)
  BY <1>2 DEF DisabledWithRoles, Finding, Fixed, LowRules, Severities
<1>3. CASE f \in PublicImpersonation(b)
  BY <1>3 DEF PublicImpersonation, Finding, Fixed, CriticalRules, Severities
<1>4. CASE f \in ExternalImpersonation(b)
  BY <1>4 DEF ExternalImpersonation, Finding, Fixed, HighRules, Severities
<1> QED
  BY <1>1, <1>2, <1>3, <1>4 DEF check_service_accounts

\* The checks of Compute Engine: the exposed instance is told by its name.
LEMMA MachinesFixed ==
    ASSUME NEW b, MachinesDistinct(b), NEW f \in check_gce(b)
    PROVE  Fixed(b, f)
<1>1. CASE f \in OsLoginDisabled(b)
  BY <1>1 DEF OsLoginDisabled, Finding, Fixed, MediumRules, Severities
<1>2. CASE f \in DefaultFullScope(b)
  BY <1>2 DEF DefaultFullScope, Finding, Fixed, HighRules, Severities
<1>3. CASE f \in PrivilegedAttached(b)
  BY <1>3 DEF PrivilegedAttached, Finding, Fixed, HighRules, Severities
<1>4. CASE f \in ExternalIp(b)
  <2>1. PICK i \in Machines(b) :
          f = Finding("GCE-EXTERNAL-IP", IF i.attached # {} THEN "HIGH" ELSE "MEDIUM",
                      InstanceRef(i), {}, {})
    BY <1>4 DEF ExternalIp
  <2>2. \A j \in Machines(b) : InstanceRef(j) = InstanceRef(i) => j = i
    BY DEF InstanceRef, MachinesDistinct
  <2>3. f.severity = Graded(b, f.rule, f.resource, f.principals, f.roles)
    BY <2>1, <2>2 DEF Finding, Graded
  <2> QED
    BY <2>1, <2>3 DEF Finding, Fixed, GradedRules, Severities
<1>5. CASE f \in ProjectSshKeys(b)
  BY <1>5 DEF ProjectSshKeys, Finding, Fixed, MediumRules, Severities
<1>6. CASE f \in SerialPort(b)
  BY <1>6 DEF SerialPort, Finding, Fixed, MediumRules, Severities
<1>7. CASE f \in GpuReview(b)
  BY <1>7 DEF GpuReview, Finding, Fixed, LowRules, Severities
<1> QED
  BY <1>1, <1>2, <1>3, <1>4, <1>5, <1>6, <1>7 DEF check_gce

\* The checks of Cloud Storage.
LEMMA BucketsFixed ==
    ASSUME NEW b, NEW f \in check_gcs(b)
    PROVE  Fixed(b, f)
<1>1. CASE f \in PublicBuckets(b)
  BY <1>1 DEF PublicBuckets, Finding, Fixed, CriticalRules, Severities
<1>2. CASE f \in ExternalWriters(b)
  BY <1>2 DEF ExternalWriters, Finding, Fixed, HighRules, Severities
<1>3. CASE f \in LegacyRoles(b)
  BY <1>3 DEF LegacyRoles, Finding, Fixed, LowRules, Severities
<1>4. CASE f \in ObjectAcls(b)
  BY <1>4 DEF ObjectAcls, Finding, Fixed, MediumRules, Severities
<1>5. CASE f \in PublicAccessPossible(b)
  BY <1>5 DEF PublicAccessPossible, Finding, Fixed, MediumRules, Severities
<1> QED
  BY <1>1, <1>2, <1>3, <1>4, <1>5 DEF check_gcs

\* The checks of BigQuery.
LEMMA DatasetsFixed ==
    ASSUME NEW b, NEW f \in check_bigquery(b)
    PROVE  Fixed(b, f)
<1>1. CASE f \in PublicDatasets(b)
  BY <1>1 DEF PublicDatasets, Finding, Fixed, CriticalRules, Severities
<1>2. CASE f \in EditorsOwn(b)
  BY <1>2 DEF EditorsOwn, Finding, Fixed, MediumRules, Severities
<1>3. CASE f \in DomainWide(b)
  BY <1>3 DEF DomainWide, Finding, Fixed, GradedRules, Graded, Severities
<1>4. CASE f \in ExternalUsers(b)
  BY <1>4 DEF ExternalUsers, Finding, Fixed, HighRules, Severities
<1> QED
  BY <1>1, <1>2, <1>3, <1>4 DEF check_bigquery

\* Of every finding the rules raise, its rule and what it names fix the severity.
LEMMA RaisedFixed ==
    ASSUME NEW b, MachinesDistinct(b), NEW f \in Raised(b)
    PROVE  Fixed(b, f)
BY ProjectFixed, PathsFixed, AccountsFixed, MachinesFixed, BucketsFixed, DatasetsFixed DEF Raised

\* Two findings of one key are one finding.
LEMMA OneFindingPerKey ==
    ASSUME NEW b, MachinesDistinct(b), NEW f \in Raised(b), NEW g \in Raised(b), SameKey(f, g)
    PROVE  f = g
<1>1. Fixed(b, f) /\ Fixed(b, g)
  BY RaisedFixed
<1>2. f.severity = g.severity
  BY <1>1 DEF Fixed, SameKey, CriticalRules, HighRules, MediumRules, LowRules, GradedRules
<1> QED
  BY <1>1, <1>2 DEF Fixed, SameKey, Finding

\* analysis.py:1000-1014: dropping repeats leaves what the rules raised.
THEOREM RepeatsAreEqual ==
    ASSUME NEW b, MachinesDistinct(b)
    PROVE  analyze(b) = Raised(b)
<1>1. ASSUME NEW f \in Raised(b)
      PROVE  (CHOOSE g \in Raised(b) : SameKey(f, g)) = f
  <2>1. \E g \in Raised(b) : SameKey(f, g)
    BY DEF SameKey
  <2>2. \A g \in Raised(b) : SameKey(f, g) => g = f
    BY OneFindingPerKey
  <2> QED
    BY <2>1, <2>2
<1> QED
  BY <1>1 DEF analyze, _dedupe
=============================================================================
