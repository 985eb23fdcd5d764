------------------------- MODULE IamReports_proofs -------------------------
(***************************************************************************)
(* Proofs about what an audit reports: the order of the findings, what is  *)
(* cut from a list, the score and the plan.                                *)
(*                                                                         *)
(* They rest on the findings being finitely many.  A project names only so *)
(* many principals, roles and resources, the commands name but one account *)
(* more, and a finding names nothing else.                                 *)
(***************************************************************************)
EXTENDS IamAudit_proofs, Listing_proofs

-----------------------------------------------------------------------------
(***************************************************************************)
(* The names a finding is made of.                                         *)
(***************************************************************************)

\* X names no principal but those in P and no role but those in R.
Uses(X, P, R) == \A x \in X : x.members \subseteq P /\ x.role \in R

\* b names no principal but those in P, no role but those in R and no resource
\* but those in Z.
Speaks(b, P, R, Z) ==
    /\ Uses(_bindings(b), P, R)
    /\ \A a \in Accounts(b) : a.email \in P /\ AccountRef(a) \in Z /\ Uses(a.bindings, P, R)
    /\ \A i \in Machines(b) : InstanceRef(i) \in Z /\ \A x \in i.attached : x.email \in P
    /\ \A k \in Buckets(b) : BucketRef(k) \in Z /\ Uses(k.bindings, P, R)
    /\ \A d \in Datasets(b) :
         DatasetRef(d) \in Z /\ \A e \in d.entries : e.entity_id \in P /\ e.role \in R

\* The names an audit can meet: finitely many, the project's and those of the
\* commands among them.
Vocabulary(P, R, Z) ==
    /\ IsFiniteSet(P) /\ IsFiniteSet(R) /\ IsFiniteSet(Z)
    /\ R \subseteq STRING
    /\ NewAccount \in P
    /\ _project_ref \in Z /\ <<"gce", Project>> \in Z

\* f names nothing else.
Spells(f, P, R, Z) == f.principals \subseteq P /\ f.roles \subseteq R /\ f.resource \in Z

\* Nor do the roles of a principal.
LEMMA RolesSpoken ==
    ASSUME NEW b, NEW P, NEW R, NEW Z, Speaks(b, P, R, Z), NEW p
    PROVE  _principal_roles(b, p) \subseteq R
BY DEF Speaks, Uses, _principal_roles

\* The project's policy.
LEMMA ProjectSpells ==
    ASSUME NEW b, NEW P, NEW R, NEW Z, Speaks(b, P, R, Z), Vocabulary(P, R, Z),
           NEW f \in check_project_iam(b)
    PROVE  Spells(f, P, R, Z)
<1>1. Uses(_bindings(b), P, R) /\ _project_ref \in Z
  BY DEF Speaks, Vocabulary
<1>2. CASE f \in PublicBindings(b)
  BY <1>1, <1>2 DEF PublicBindings, Finding, Spells, Uses
<1>3. CASE f \in BasicRoles(b)
  BY <1>1, <1>3 DEF BasicRoles, Finding, Spells, Uses
<1>4. CASE f \in UnconditionalAdmins(b)
  BY <1>1, <1>4 DEF UnconditionalAdmins, Finding, Spells, Uses
<1>5. CASE f \in BroadImpersonation(b)
  BY <1>1, <1>5 DEF BroadImpersonation, Finding, Spells, Uses
<1>6. CASE f \in ExternalPrincipals(b)
  BY <1>1, <1>6 DEF ExternalPrincipals, Finding, Spells, Uses, Outsiders
<1>7. CASE f \in QuotaControl(b)
  BY <1>1, <1>7 DEF QuotaControl, Finding, Spells, Uses
<1>8. CASE f \in NoAuditLogs(b)
  BY <1>1, <1>8 DEF NoAuditLogs, Finding, Spells
<1> QED
  BY <1>2, <1>3, <1>4, <1>5, <1>6, <1>7, <1>8 DEF check_project_iam

\* The attack paths.
LEMMA PathsSpell ==
    ASSUME NEW b, NEW P, NEW R, NEW Z, Speaks(b, P, R, Z), Vocabulary(P, R, Z),
           NEW f \in check_attack_paths(b)
    PROVE  Spells(f, P, R, Z)
<1>1. \A p \in Granted(b) : p \in P
  BY DEF Granted, Speaks, Uses
<1>2. ASSUME NEW p PROVE _principal_roles(b, p) \subseteq R
  BY RolesSpoken
<1>3. _project_ref \in Z
  BY DEF Vocabulary
<1>4. CASE f \in ActAsEscalation(b)
  BY <1>1, <1>4, <1>2, <1>3 DEF ActAsEscalation, Finding, Spells
<1>5. CASE f \in ImpersonationToData(b)
  BY <1>1, <1>5, <1>2, <1>3 DEF ImpersonationToData, Finding, Spells
<1> QED
  BY <1>4, <1>5 DEF check_attack_paths

\* Service accounts.
LEMMA AccountsSpell ==
    ASSUME NEW b, NEW P, NEW R, NEW Z, Speaks(b, P, R, Z), NEW f \in check_service_accounts(b)
    PROVE  Spells(f, P, R, Z)
<1>1. \A a \in Accounts(b) : a.email \in P /\ AccountRef(a) \in Z /\ Uses(a.bindings, P, R)
  BY DEF Speaks
<1>2. ASSUME NEW p PROVE _principal_roles(b, p) \subseteq R
  BY RolesSpoken
<1>3. CASE f \in UserManagedKeys(b)
  BY <1>1, <1>3 DEF UserManagedKeys, Finding, Spells
<1>4. CASE f \in DisabledWithRoles(b)
  BY <1>1, <1>4, <1>2 DEF DisabledWithRoles, Finding, Spells
<1>5. CASE f \in PublicImpersonation(b)
  BY <1>1, <1>5 DEF PublicImpersonation, Finding, Spells, Uses
<1>6. CASE f \in ExternalImpersonation(b)
  BY <1>1, <1>6 DEF ExternalImpersonation, Finding, Spells, Uses, Outsiders
<1> QED
  BY <1>3, <1>4, <1>5, <1>6 DEF check_service_accounts

\* Compute Engine.
LEMMA MachinesSpell ==
    ASSUME NEW b, NEW P, NEW R, NEW Z, Speaks(b, P, R, Z), Vocabulary(P, R, Z),
           NEW f \in check_gce(b)
    PROVE  Spells(f, P, R, Z)
<1>1. /\ \A i \in Machines(b) : InstanceRef(i) \in Z /\ \A x \in i.attached : x.email \in P
      /\ <<"gce", Project>> \in Z
  BY DEF Speaks, Vocabulary
<1>2. ASSUME NEW x PROVE Dangerous(b, x) \subseteq R
  BY RolesSpoken DEF Dangerous
<1>3. CASE f \in OsLoginDisabled(b)
  BY <1>1, <1>3 DEF OsLoginDisabled, Finding, Spells
<1>4. CASE f \in DefaultFullScope(b)
  BY <1>1, <1>4, <1>2 DEF DefaultFullScope, Finding, Spells
<1>5. CASE f \in PrivilegedAttached(b)
  BY <1>1, <1>5, <1>2 DEF PrivilegedAttached, Finding, Spells
<1>6. CASE f \in ExternalIp(b)
  BY <1>1, <1>6 DEF ExternalIp, Finding, Spells
<1>7. CASE f \in ProjectSshKeys(b)
  BY <1>1, <1>7 DEF ProjectSshKeys, Finding, Spells
<1>8. CASE f \in SerialPort(b)
  BY <1>1, <1>8 DEF SerialPort, Finding, Spells
<1>9. CASE f \in GpuReview(b)
  BY <1>1, <1>9 DEF GpuReview, Finding, Spells
<1> QED
  BY <1>3, <1>4, <1>5, <1>6, <1>7, <1>8, <1>9 DEF check_gce

\* Cloud Storage.
LEMMA BucketsSpell ==
    ASSUME NEW b, NEW P, NEW R, NEW Z, Speaks(b, P, R, Z), NEW f \in check_gcs(b)
    PROVE  Spells(f, P, R, Z)
<1>1. \A k \in Buckets(b) : BucketRef(k) \in Z /\ Uses(k.bindings, P, R)
  BY DEF Speaks
<1>2. CASE f \in PublicBuckets(b)
  BY <1>1, <1>2 DEF PublicBuckets, Finding, Spells, Uses
<1>3. CASE f \in ExternalWriters(b)
  BY <1>1, <1>3 DEF ExternalWriters, Finding, Spells, Uses, Strangers
<1>4. CASE f \in LegacyRoles(b)
  BY <1>1, <1>4 DEF LegacyRoles, Finding, Spells, Uses
<1>5. CASE f \in ObjectAcls(b)
  BY <1>1, <1>5 DEF ObjectAcls, Finding, Spells
<1>6. CASE f \in PublicAccessPossible(b)
  BY <1>1, <1>6 DEF PublicAccessPossible, Finding, Spells
<1> QED
  BY <1>2, <1>3, <1>4, <1>5, <1>6 DEF check_gcs

\* BigQuery.
LEMMA DatasetsSpell ==
    ASSUME NEW b, NEW P, NEW R, NEW Z, Speaks(b, P, R, Z), NEW f \in check_bigquery(b)
    PROVE  Spells(f, P, R, Z)
<1>1. \A d \in Datasets(b) :
        DatasetRef(d) \in Z /\ \A e \in d.entries : e.entity_id \in P /\ e.role \in R
  BY DEF Speaks
<1>2. CASE f \in PublicDatasets(b)
  BY <1>1, <1>2 DEF PublicDatasets, Entries, Finding, Spells
<1>3. CASE f \in EditorsOwn(b)
  BY <1>1, <1>3 DEF EditorsOwn, Entries, Finding, Spells
<1>4. CASE f \in DomainWide(b)
  BY <1>1, <1>4 DEF DomainWide, Entries, Finding, Spells
<1>5. CASE f \in ExternalUsers(b)
  BY <1>1, <1>5 DEF ExternalUsers, Entries, Finding, Spells
<1> QED
  BY <1>2, <1>3, <1>4, <1>5 DEF check_bigquery

\* Every rule names only what the inventories name.
LEMMA RaisedSpells ==
    ASSUME NEW b, NEW P, NEW R, NEW Z, Speaks(b, P, R, Z), Vocabulary(P, R, Z),
           NEW f \in Raised(b)
    PROVE  Spells(f, P, R, Z)
BY ProjectSpells, PathsSpell, AccountsSpell, MachinesSpell, BucketsSpell, DatasetsSpell DEF Raised

-----------------------------------------------------------------------------
(***************************************************************************)
(* The findings of an audit.                                               *)
(***************************************************************************)
Rules == CriticalRules \cup HighRules \cup MediumRules \cup LowRules \cup GradedRules

\* There are finitely many rules and severities.
LEMMA RulesAreFinite == IsFiniteSet(Rules) /\ IsFiniteSet(Severities)
<1>1. \A x : IsFiniteSet({x})
  BY FS_Singleton
<1>2. ASSUME NEW x, NEW y, NEW z, NEW w PROVE IsFiniteSet({x, y, z, w})
  <2>1. IsFiniteSet({x} \cup {y}) /\ IsFiniteSet({z} \cup {w})
    BY <1>1, FS_Union
  <2>2. IsFiniteSet(({x} \cup {y}) \cup ({z} \cup {w}))
    BY <2>1, FS_Union
  <2>3. {x, y, z, w} = ({x} \cup {y}) \cup ({z} \cup {w})
    OBVIOUS
  <2> QED
    BY <2>2, <2>3
<1>3. IsFiniteSet(CriticalRules) /\ IsFiniteSet(Severities)
  BY <1>2 DEF CriticalRules, Severities
<1>4. IsFiniteSet(HighRules)
  <2> DEFINE S == {"IAM-PROJ-UNCONDITIONAL-IAM-ADMIN", "IAM-PROJ-BROAD-IMPERSONATION",
                   "IAM-PATH-IMPERSONATION-TO-DATA", "IAM-SA-USER-MANAGED-KEY"}
             T == {"IAM-SA-EXTERNAL-IMPERSONATION", "GCE-DEFAULT-SA-FULL-SCOPE",
                   "GCE-PRIVILEGED-SA-ATTACHED", "GCS-EXTERNAL-WRITE-ACCESS"}
             U == {"BQ-EXTERNAL-USER-ACCESS"}
  <2>1. IsFiniteSet(S) /\ IsFiniteSet(T) /\ IsFiniteSet(U)
    BY <1>1, <1>2
  <2>2. HighRules = (S \cup T) \cup U
    BY DEF HighRules
  <2> HIDE DEF S, T, U
  <2> QED
    BY <2>1, <2>2, FS_Union
<1>5. IsFiniteSet(MediumRules)
  <2> DEFINE S == {"IAM-PROJ-QUOTA-CONTROL", "IAM-PROJ-NO-DATA-ACCESS-LOGS",
                   "GCE-OSLOGIN-DISABLED", "GCE-PROJECT-SSH-KEYS-ALLOWED"}
             T == {"GCE-SERIAL-PORT-ENABLED", "GCS-UBLA-DISABLED",
                   "GCS-PAP-NOT-ENFORCED", "BQ-PROJECT-EDITORS-OWNER"}
  <2>1. IsFiniteSet(S) /\ IsFiniteSet(T)
    BY <1>2
  <2>2. MediumRules = S \cup T
    BY DEF MediumRules
  <2> HIDE DEF S, T
  <2> QED
    BY <2>1, <2>2, FS_Union
<1>6. IsFiniteSet(LowRules)
  <2>1. LowRules = {"IAM-SA-DISABLED-WITH-ROLES", "GCE-GPU-WORKLOAD-REVIEW", "GCS-LEGACY-ROLE",
                    "GCS-LEGACY-ROLE"}
    BY DEF LowRules
  <2> QED
    BY <1>2, <2>1
<1>7. IsFiniteSet(GradedRules)
  <2> DEFINE S == {"IAM-PROJ-BASIC-ROLE", "IAM-PROJ-EXTERNAL-PRINCIPAL",
                   "IAM-PATH-ACTAS-ESCALATION", "GCE-EXTERNAL-IP"}
             T == {"BQ-DOMAIN-WIDE-ACCESS"}
  <2>1. IsFiniteSet(S) /\ IsFiniteSet(T)
    BY <1>1, <1>2
  <2>2. GradedRules = S \cup T
    BY DEF GradedRules
  <2> HIDE DEF S, T
  <2> QED
    BY <2>1, <2>2, FS_Union
<1> QED
  BY <1>3, <1>4, <1>5, <1>6, <1>7, FS_Union DEF Rules

\* F is a finite set of findings with ranks.
Ranked(F) ==
    /\ IsFiniteSet(F)
    /\ \A f \in F : f.severity \in Severities /\ f.roles \subseteq STRING

\* Such are the findings about what was read.
LEMMA RaisedAreRanked ==
    ASSUME NEW b, MachinesDistinct(b), NEW P, NEW R, NEW Z, Speaks(b, P, R, Z),
           Vocabulary(P, R, Z)
    PROVE  Ranked(Raised(b))
<1> DEFINE Grades == Rules \X Severities
           Names == (SUBSET P) \X (SUBSET R)
           Keys == (Grades \X Names) \X Z
           make == [k \in Keys |-> Finding(k[1][1][1], k[1][1][2], k[2], k[1][2][1], k[1][2][2])]
<1>1. IsFiniteSet(Keys)
  <2>1. IsFiniteSet(Grades)
    BY RulesAreFinite, FS_Product
  <2>2. IsFiniteSet(Names)
    BY FS_SUBSET, FS_Product DEF Vocabulary
  <2> HIDE DEF Grades, Names
  <2> QED
    BY <2>1, <2>2, FS_Product DEF Vocabulary
<1>2. IsFiniteSet({make[k] : k \in Keys})
  <2> HIDE DEF Keys, make
  <2> QED
    BY <1>1, ImageIsFinite
<1>3. ASSUME NEW f \in Raised(b)
      PROVE  /\ f \in {make[k] : k \in Keys}
             /\ f.severity \in Severities /\ f.roles \subseteq STRING
  <2>1. Fixed(b, f)
    BY RaisedFixed
  <2>2. /\ f = Finding(f.rule, f.severity, f.resource, f.principals, f.roles)
        /\ f.severity \in Severities /\ f.rule \in Rules
    BY <2>1 DEF Fixed, Rules
  <2>3. Spells(f, P, R, Z)
    BY RaisedSpells
  <2>4. PICK k : k = <<<<<<f.rule, f.severity>>, <<f.principals, f.roles>>>>, f.resource>>
    OBVIOUS
  <2>5. k \in Keys
    <3>1. <<f.rule, f.severity>> \in Grades
      BY <2>2
    <3>2. <<f.principals, f.roles>> \in Names /\ f.resource \in Z
      BY <2>3 DEF Spells
    <3> HIDE DEF Grades, Names
    <3> QED
      BY <2>4, <3>1, <3>2
  <2>6. make[k] = f
    BY <2>2, <2>4, <2>5
  <2> QED
    BY <2>2, <2>3, <2>5, <2>6 DEF Spells, Vocabulary
<1> HIDE DEF Keys, make
<1>4. Raised(b) \subseteq {make[k] : k \in Keys}
  BY <1>3
<1> QED
  BY <1>2, <1>3, <1>4, FS_Subset DEF Ranked

-----------------------------------------------------------------------------
(***************************************************************************)
(* What a project can be asked about.                                      *)
(***************************************************************************)

\* More names do not hurt.
LEMMA UsesMore ==
    ASSUME NEW X, NEW P, NEW R, NEW Q, NEW T, Uses(X, P, R), P \subseteq Q, R \subseteq T
    PROVE  Uses(X, Q, T)
BY DEF Uses

\* The names in finitely many lists of bindings are finitely many.
LEMMA BindingNames ==
    ASSUME NEW X, FiniteBindings(X)
    PROVE  \E P, R : IsFiniteSet(P) /\ IsFiniteSet(R) /\ R \subseteq STRING /\ Uses(X, P, R)
<1> DEFINE who == [x \in X |-> x.members]
           what == [x \in X |-> x.role]
           P == UNION {who[x] : x \in X}
           R == {what[x] : x \in X}
<1>1. IsFiniteSet(X) /\ \A x \in X : IsFiniteSet(x.members) /\ x.role \in STRING
  BY DEF FiniteBindings
<1>2. IsFiniteSet({who[x] : x \in X}) /\ IsFiniteSet(R)
  <2> HIDE DEF who, what
  <2> QED
    BY <1>1, ImageIsFinite
<1>3. IsFiniteSet(P)
  <2>1. \A S \in {who[x] : x \in X} : IsFiniteSet(S)
    BY <1>1
  <2> HIDE DEF who
  <2> QED
    BY <1>2, <2>1, FS_UNION
<1>4. R \subseteq STRING /\ Uses(X, P, R)
  BY <1>1 DEF Uses
<1> QED
  BY <1>2, <1>3, <1>4

\* So are those in the policies of finitely many resources.
LEMMA PolicyNames ==
    ASSUME NEW S, IsFiniteSet(S), \A a \in S : FiniteBindings(a.bindings)
    PROVE  \E P, R :
             /\ IsFiniteSet(P) /\ IsFiniteSet(R) /\ R \subseteq STRING
             /\ \A a \in S : Uses(a.bindings, P, R)
<1> DEFINE all == [a \in S |-> a.bindings]
           X == UNION {all[a] : a \in S}
<1>1. IsFiniteSet({all[a] : a \in S})
  <2> HIDE DEF all
  <2> QED
    BY ImageIsFinite
<1>2. IsFiniteSet(X)
  <2>1. \A T \in {all[a] : a \in S} : IsFiniteSet(T)
    BY DEF FiniteBindings
  <2> HIDE DEF all
  <2> QED
    BY <1>1, <2>1, FS_UNION
<1>3. FiniteBindings(X)
  BY <1>2 DEF FiniteBindings
<1>4. PICK P, R : IsFiniteSet(P) /\ IsFiniteSet(R) /\ R \subseteq STRING /\ Uses(X, P, R)
  <2> HIDE DEF X
  <2> QED
    BY <1>3, BindingNames
<1>5. \A a \in S : Uses(a.bindings, P, R)
  BY <1>4 DEF Uses
<1> QED
  BY <1>4, <1>5

\* Everything the project says of itself.
Full(c) == Fresh(c, _INVENTORY_KEYS)

\* It has all inventories.
LEMMA FullParts ==
    ASSUME NEW c
    PROVE  /\ _bindings(Full(c)) = c["project_iam"].bindings
           /\ Accounts(Full(c)) = c["service_accounts"]
           /\ Machines(Full(c)) = c["gce_inventory"].instances
           /\ Buckets(Full(c)) = c["gcs_inventory"]
           /\ Datasets(Full(c)) = c["bigquery_inventory"]
<1>1. DOMAIN Full(c) = _INVENTORY_KEYS /\ \A s \in _INVENTORY_KEYS : Full(c)[s] = c[s]
  BY FreshReads DEF Full
<1> QED
  BY <1>1 DEF _INVENTORY_KEYS, _bindings, Accounts, Machines, Buckets, Datasets

\* What is read now is the project's, what is not is what the book held.
LEMMA CollectedSpeaks ==
    ASSUME NEW b, NEW c, NEW D, NEW P, NEW R, NEW Z, Speaks(b, P, R, Z), Speaks(Full(c), P, R, Z)
    PROVE  Speaks(Recollected(b, c, D), P, R, Z)
<1> DEFINE n == Recollected(b, c, D)
<1>1. DOMAIN n = DOMAIN b \cup D /\ \A s \in DOMAIN n : n[s] = IF s \in D THEN c[s] ELSE b[s]
  BY DEF Recollected
<1> HIDE DEF n
<1>2. /\ _bindings(n) = _bindings(b) \/ _bindings(n) = _bindings(Full(c))
      /\ Accounts(n) = Accounts(b) \/ Accounts(n) = Accounts(Full(c))
      /\ Machines(n) = Machines(b) \/ Machines(n) = Machines(Full(c))
  BY <1>1, FullParts DEF _bindings, Accounts, Machines
<1>3. /\ Buckets(n) = Buckets(b) \/ Buckets(n) = Buckets(Full(c))
      /\ Datasets(n) = Datasets(b) \/ Datasets(n) = Datasets(Full(c))
  BY <1>1, FullParts DEF Buckets, Datasets
<1>4. Speaks(n, P, R, Z)
  BY <1>2, <1>3 DEF Speaks
<1> QED
  BY <1>4 DEF n

\* Unbinding names nobody new.
LEMMA UnbindingUses ==
    ASSUME NEW X, NEW at, NEW C, NEW P, NEW R, Uses(X, P, R)
    PROVE  Uses(Unbinding(X, at, C), P, R)
<1>1. ASSUME NEW x \in Unbinding(X, at, C)
      PROVE  \E y \in X : AtMost(x, y)
  BY UnbindingIsLess, BindingsReflexive DEF LessBindings
<1> QED
  BY <1>1 DEF Uses, AtMost

\* The commands name one account more, which the vocabulary has.
LEMMA ChangedSpeaks ==
    ASSUME NEW c, NEW C, NEW P, NEW R, NEW Z, Vocabulary(P, R, Z), Speaks(Full(c), P, R, Z)
    PROVE  Speaks(Full(Changed(c, C)), P, R, Z)
<1> DEFINE old == Full(c)
           now == Full(Changed(c, C))
<1>1. /\ _bindings(now) = Unbinding(_bindings(old), _project_ref, C)
      /\ Accounts(now) = {ChangedAccount(a, C) : a \in Accounts(old)}
      /\ Machines(now) = {ChangedMachine(i, C) : i \in Machines(old)}
      /\ Buckets(now) = {ChangedBucket(k, C) : k \in Buckets(old)}
      /\ Datasets(now) = Datasets(old)
  BY FullParts, ChangedParts
<1> HIDE DEF old, now
<1>2. Speaks(old, P, R, Z)
  BY DEF old
<1>3. Uses(_bindings(now), P, R)
  BY <1>1, <1>2, UnbindingUses DEF Speaks
<1>4. ASSUME NEW a \in Accounts(now)
      PROVE  a.email \in P /\ AccountRef(a) \in Z /\ Uses(a.bindings, P, R)
  <2>1. PICK a0 \in Accounts(old) : a = ChangedAccount(a0, C)
    BY <1>1
  <2>2. a.email = a0.email /\ a.bindings = Unbinding(a0.bindings, AccountRef(a0), C)
    BY <2>1 DEF ChangedAccount
  <2>3. a0.email \in P /\ AccountRef(a0) \in Z /\ Uses(a0.bindings, P, R)
    BY <1>2 DEF Speaks
  <2> QED
    BY <2>2, <2>3, UnbindingUses DEF AccountRef
<1>5. ASSUME NEW i \in Machines(now)
      PROVE  InstanceRef(i) \in Z /\ \A x \in i.attached : x.email \in P
  <2>1. PICK i0 \in Machines(old) : i = ChangedMachine(i0, C)
    BY <1>1
  <2>2. i.name = i0.name /\ i.attached = ReplacedAccounts(i0, C)
    BY <2>1 DEF ChangedMachine
  <2>3. InstanceRef(i0) \in Z /\ \A x \in i0.attached : x.email \in P
    BY <1>2 DEF Speaks
  <2>4. \A x \in ReplacedAccounts(i0, C) : x.email = NewAccount \/ x \in i0.attached
    BY DEF ReplacedAccounts
  <2> QED
    BY <2>2, <2>3, <2>4 DEF InstanceRef, Vocabulary
<1>6. ASSUME NEW k \in Buckets(now)
      PROVE  BucketRef(k) \in Z /\ Uses(k.bindings, P, R)
  <2>1. PICK k0 \in Buckets(old) : k = ChangedBucket(k0, C)
    BY <1>1
  <2>2. k.name = k0.name /\ k.bindings = Unbinding(k0.bindings, BucketRef(k0), C)
    BY <2>1 DEF ChangedBucket
  <2>3. BucketRef(k0) \in Z /\ Uses(k0.bindings, P, R)
    BY <1>2 DEF Speaks
  <2> QED
    BY <2>2, <2>3, UnbindingUses DEF BucketRef
<1>7. ASSUME NEW d \in Datasets(now)
      PROVE  DatasetRef(d) \in Z /\ \A e \in d.entries : e.entity_id \in P /\ e.role \in R
  BY <1>1, <1>2 DEF Speaks
<1>8. Speaks(now, P, R, Z)
  BY <1>3, <1>4, <1>5, <1>6, <1>7 DEF Speaks
<1> QED
  BY <1>8 DEF now

\* The values a field takes in finitely many records are finitely many.
LEMMA MachineNames ==
    ASSUME NEW S, IsFiniteSet(S), \A i \in S : IsFiniteSet(i.attached)
    PROVE  \E P, Z : /\ IsFiniteSet(P) /\ IsFiniteSet(Z)
                     /\ \A i \in S : InstanceRef(i) \in Z /\ \A x \in i.attached : x.email \in P
<1> DEFINE all == [i \in S |-> i.attached]
           X == UNION {all[i] : i \in S}
           mail == [x \in X |-> x.email]
           ref == [i \in S |-> InstanceRef(i)]
           P == {mail[x] : x \in X}
           Z == {ref[i] : i \in S}
<1>1. IsFiniteSet({all[i] : i \in S}) /\ IsFiniteSet(Z)
  <2> HIDE DEF all, ref
  <2> QED
    BY ImageIsFinite
<1>2. IsFiniteSet(X)
  <2>1. \A T \in {all[i] : i \in S} : IsFiniteSet(T)
    OBVIOUS
  <2> HIDE DEF all
  <2> QED
    BY <1>1, <2>1, FS_UNION
<1>3. IsFiniteSet(P)
  <2> HIDE DEF X, mail
  <2> QED
    BY <1>2, ImageIsFinite
<1>4. \A i \in S : InstanceRef(i) \in Z /\ \A x \in i.attached : x.email \in P
  OBVIOUS
<1> QED
  BY <1>1, <1>3, <1>4

\* The names in finitely many datasets.
LEMMA DatasetNames ==
    ASSUME NEW S, IsFiniteSet(S),
           \A d \in S : IsFiniteSet(d.entries) /\ \A e \in d.entries : e.role \in STRING
    PROVE  \E P, R, Z :
             /\ IsFiniteSet(P) /\ IsFiniteSet(R) /\ IsFiniteSet(Z) /\ R \subseteq STRING
             /\ \A d \in S :
                  DatasetRef(d) \in Z /\ \A e \in d.entries : e.entity_id \in P /\ e.role \in R
<1> DEFINE all == [d \in S |-> d.entries]
           X == UNION {all[d] : d \in S}
           who == [x \in X |-> x.entity_id]
           what == [x \in X |-> x.role]
           ref == [d \in S |-> DatasetRef(d)]
           P == {who[x] : x \in X}
           R == {what[x] : x \in X}
           Z == {ref[d] : d \in S}
<1>1. IsFiniteSet({all[d] : d \in S}) /\ IsFiniteSet(Z)
  <2> HIDE DEF all, ref
  <2> QED
    BY ImageIsFinite
<1>2. IsFiniteSet(X)
  <2>1. \A T \in {all[d] : d \in S} : IsFiniteSet(T)
    OBVIOUS
  <2> HIDE DEF all
  <2> QED
    BY <1>1, <2>1, FS_UNION
<1>3. IsFiniteSet(P) /\ IsFiniteSet(R)
  <2> HIDE DEF X, who, what
  <2> QED
    BY <1>2, ImageIsFinite
<1>4. \A d \in S :
        DatasetRef(d) \in Z /\ \A e \in d.entries : e.entity_id \in P /\ e.role \in R
  OBVIOUS
<1>5. R \subseteq STRING
  OBVIOUS
<1> QED
  BY <1>1, <1>3, <1>4, <1>5

\* The identities of finitely many accounts and buckets.
LEMMA ResourceNames ==
    ASSUME NEW A, IsFiniteSet(A), NEW K, IsFiniteSet(K)
    PROVE  \E P, Z : /\ IsFiniteSet(P) /\ IsFiniteSet(Z)
                     /\ \A a \in A : a.email \in P /\ AccountRef(a) \in Z
                     /\ \A k \in K : BucketRef(k) \in Z
<1> DEFINE mail == [a \in A |-> a.email]
           ref == [a \in A |-> AccountRef(a)]
           name == [k \in K |-> BucketRef(k)]
           P == {mail[a] : a \in A}
           Y == {ref[a] : a \in A}
           W == {name[k] : k \in K}
<1>1. IsFiniteSet(P) /\ IsFiniteSet(Y) /\ IsFiniteSet(W)
  <2> HIDE DEF mail, ref, name
  <2> QED
    BY ImageIsFinite
<1>2. IsFiniteSet(Y \cup W)
  <2> HIDE DEF Y, W
  <2> QED
    BY <1>1, FS_Union
<1>3. /\ \A a \in A : a.email \in P /\ AccountRef(a) \in Y \cup W
      /\ \A k \in K : BucketRef(k) \in Y \cup W
  OBVIOUS
<1> QED
  BY <1>1, <1>2, <1>3

\* There is a vocabulary for every project the audits may start with.
LEMMA CloudSpeaks ==
    ASSUME NEW c \in Clouds
    PROVE  \E P, R, Z : Vocabulary(P, R, Z) /\ Speaks(Full(c), P, R, Z)
<1> DEFINE b == Full(c)
<1>1. /\ FiniteBindings(_bindings(b))
      /\ IsFiniteSet(Accounts(b)) /\ \A a \in Accounts(b) : FiniteBindings(a.bindings)
      /\ IsFiniteSet(Machines(b)) /\ \A i \in Machines(b) : IsFiniteSet(i.attached)
      /\ IsFiniteSet(Buckets(b)) /\ \A k \in Buckets(b) : FiniteBindings(k.bindings)
      /\ IsFiniteSet(Datasets(b))
      /\ \A d \in Datasets(b) :
           IsFiniteSet(d.entries) /\ \A e \in d.entries : e.role \in STRING
  BY FullParts, ListsAssumption
<1> HIDE DEF b
<1>2. PICK P1, R1 : /\ IsFiniteSet(P1) /\ IsFiniteSet(R1) /\ R1 \subseteq STRING
                    /\ Uses(_bindings(b), P1, R1)
  BY <1>1, BindingNames
<1>3. PICK P2, R2 : /\ IsFiniteSet(P2) /\ IsFiniteSet(R2) /\ R2 \subseteq STRING
                    /\ \A a \in Accounts(b) : Uses(a.bindings, P2, R2)
  BY <1>1, PolicyNames
<1>4. PICK P3, R3 : /\ IsFiniteSet(P3) /\ IsFiniteSet(R3) /\ R3 \subseteq STRING
                    /\ \A k \in Buckets(b) : Uses(k.bindings, P3, R3)
  BY <1>1, PolicyNames
<1>5. PICK P4, Z4 : /\ IsFiniteSet(P4) /\ IsFiniteSet(Z4)
                    /\ \A i \in Machines(b) :
                         InstanceRef(i) \in Z4 /\ \A x \in i.attached : x.email \in P4
  BY <1>1, MachineNames
<1>6. PICK P5, R5, Z5 :
        /\ IsFiniteSet(P5) /\ IsFiniteSet(R5) /\ IsFiniteSet(Z5) /\ R5 \subseteq STRING
        /\ \A d \in Datasets(b) :
             DatasetRef(d) \in Z5 /\ \A e \in d.entries : e.entity_id \in P5 /\ e.role \in R5
  BY <1>1, DatasetNames
<1>7. PICK P6, Z6 : /\ IsFiniteSet(P6) /\ IsFiniteSet(Z6)
                    /\ \A a \in Accounts(b) : a.email \in P6 /\ AccountRef(a) \in Z6
                    /\ \A k \in Buckets(b) : BucketRef(k) \in Z6
  BY <1>1, ResourceNames
<1> DEFINE P == (((P1 \cup P2) \cup (P3 \cup P4)) \cup (P5 \cup P6)) \cup {NewAccount}
           R == (R1 \cup R2) \cup (R3 \cup R5)
           Z == ((Z4 \cup Z5) \cup Z6) \cup ({_project_ref} \cup {<<"gce", Project>>})
<1>8. IsFiniteSet(P)
  <2>1. IsFiniteSet((P1 \cup P2) \cup (P3 \cup P4))
    <3>1. IsFiniteSet(P1 \cup P2) /\ IsFiniteSet(P3 \cup P4)
      BY <1>2, <1>3, <1>4, <1>5, FS_Union
    <3> QED
      BY <3>1, FS_Union
  <2>2. IsFiniteSet(P5 \cup P6)
    BY <1>6, <1>7, FS_Union
  <2>3. IsFiniteSet(((P1 \cup P2) \cup (P3 \cup P4)) \cup (P5 \cup P6))
    BY <2>1, <2>2, FS_Union
  <2> QED
    BY <2>3, FS_AddElement
<1>9. IsFiniteSet(R) /\ R \subseteq STRING
  <2>1. IsFiniteSet(R1 \cup R2) /\ IsFiniteSet(R3 \cup R5)
    BY <1>2, <1>3, <1>4, <1>6, FS_Union
  <2>2. IsFiniteSet(R)
    BY <2>1, FS_Union
  <2> QED
    BY <1>2, <1>3, <1>4, <1>6, <2>2
<1>10. IsFiniteSet(Z)
  <2>1. IsFiniteSet(Z4 \cup Z5)
    BY <1>5, <1>6, FS_Union
  <2>2. IsFiniteSet((Z4 \cup Z5) \cup Z6)
    BY <1>7, <2>1, FS_Union
  <2>3. IsFiniteSet({_project_ref} \cup {<<"gce", Project>>})
    <3>1. IsFiniteSet({_project_ref}) /\ IsFiniteSet({<<"gce", Project>>})
      BY FS_Singleton
    <3> QED
      BY <3>1, FS_Union
  <2> QED
    BY <2>2, <2>3, FS_Union
<1>11. Vocabulary(P, R, Z)
  BY <1>8, <1>9, <1>10 DEF Vocabulary
<1>12. /\ P1 \subseteq P /\ P2 \subseteq P /\ P3 \subseteq P
       /\ P4 \subseteq P /\ P5 \subseteq P /\ P6 \subseteq P
       /\ R1 \subseteq R /\ R2 \subseteq R /\ R3 \subseteq R /\ R5 \subseteq R
       /\ Z4 \subseteq Z /\ Z5 \subseteq Z /\ Z6 \subseteq Z
  OBVIOUS
<1> HIDE DEF P, R, Z
<1>13. Uses(_bindings(b), P, R)
  BY <1>2, <1>12, UsesMore
<1>14. \A a \in Accounts(b) : a.email \in P /\ AccountRef(a) \in Z /\ Uses(a.bindings, P, R)
  BY <1>3, <1>7, <1>12 DEF Uses
<1>15. \A k \in Buckets(b) : BucketRef(k) \in Z /\ Uses(k.bindings, P, R)
  BY <1>4, <1>7, <1>12 DEF Uses
<1>16. Speaks(b, P, R, Z)
  BY <1>5, <1>6, <1>12, <1>13, <1>14, <1>15 DEF Speaks
<1> QED
  BY <1>11, <1>16 DEF b

-----------------------------------------------------------------------------
(***************************************************************************)
(* Order, score and commands.                                              *)
(***************************************************************************)
Order(F) == {p \in F \X F : Ahead(p[1], p[2])}

\* The sort lists the findings, none before one that is ahead of it.
LEMMA FindingsInOrder ==
    ASSUME NEW F, Ranked(F)
    PROVE  Lists(sort_findings(F), F, Order(F))
<1> DEFINE rank == [f \in F |-> SeverityRank(f.severity)]
<1>1. rank \in [F -> Nat]
  BY DEF Ranked, Severities, SeverityRank
<1>2. ASSUME NEW f \in F, NEW g \in F, <<f, g>> \in Order(F)
      PROVE  rank[f] < rank[g]
  BY <1>2 DEF Order, Ahead
<1>3. HasFirst(F, Order(F))
  <2> HIDE DEF rank
  <2> QED
    BY <1>1, <1>2, RankedHasFirst
<1>4. Lists(InOrder(F, Order(F)), F, Order(F))
  BY <1>3, InOrderLists DEF Ranked
<1> QED
  BY <1>4 DEF sort_findings, Order

\* No finding is ahead of itself.
LEMMA NotAheadOfItself ==
    ASSUME NEW F, Ranked(F), NEW f \in F
    PROVE  <<f, f>> \notin Order(F)
<1>1. SeverityRank(f.severity) \in Nat
  BY DEF Ranked, Severities, SeverityRank
<1> QED
  BY <1>1 DEF Order, Ahead

\* A score is a percentage, and nothing scores 0.
LEMMA ScoreBounds ==
    ASSUME NEW F, Ranked(F)
    PROVE  risk_score(F) \in 0..100 /\ (F = {} => risk_score(F) = 0)
<1> DEFINE w == [f \in F |-> Weight(f)]
<1>1. w \in [F -> Nat]
  BY DEF Ranked, Severities, Weight
<1>2. PICK sum : sum = SumFunction(w)
  OBVIOUS
<1>3. sum \in Nat /\ (F = {} => sum = 0)
  <2> HIDE DEF w
  <2> QED
    BY <1>1, <1>2, SumBounds DEF Ranked
<1>4. risk_score(F) = IF sum < 100 THEN sum ELSE 100
  BY <1>2 DEF risk_score
<1> QED
  BY <1>3, <1>4

\* The summary of no findings is the one a session starts with.
LEMMA NothingToSum == summarize({}) = [total |-> 0, risk_score |-> 0, top |-> <<>>]
<1>1. Ranked({})
  BY FS_EmptySet DEF Ranked
<1>2. PICK s : s = sort_findings({})
  OBVIOUS
<1>3. Lists(s, {}, Order({}))
  BY <1>1, <1>2, FindingsInOrder
<1>4. Leads(Upto(s, MaxTop), {}, Order({}), MaxTop)
  BY <1>3, UptoLeads, CapsAssumption
<1>5. PICK top : top = Upto(s, MaxTop)
  OBVIOUS
<1>6. top \in Seq({}) /\ Len(top) = 0
  BY <1>4, <1>5, FS_EmptySet DEF Leads
<1>7. top = <<>>
  BY <1>6
<1>8. risk_score({}) = 0 /\ Cardinality({}) = 0
  BY <1>1, ScoreBounds, FS_EmptySet
<1> QED
  BY <1>2, <1>5, <1>7, <1>8 DEF summarize

\* Whatever is critical has commands.
LEMMA CriticalHasCommands ==
    ASSUME NEW b, NEW f \in Raised(b), f.severity = "CRITICAL"
    PROVE  remediation_commands(f) # {}
<1>1. ASSUME f.rule \in Unbound, NEW p \in f.principals, NEW r \in f.roles
      PROVE  remediation_commands(f) # {}
  <2>1. Command("unbind", f.resource, p, r) \in Unbind(f)
    BY DEF Unbind
  <2>2. remediation_commands(f) = Unbind(f)
    BY <1>1 DEF remediation_commands
  <2> QED
    BY <2>1, <2>2
<1>2. CASE f \in check_project_iam(b)
  <2>1. f \in PublicBindings(b)
    BY <1>2 DEF check_project_iam, BasicRoles, UnconditionalAdmins, BroadImpersonation,
                ExternalPrincipals, QuotaControl, NoAuditLogs, Finding
  <2>2. f.rule = "IAM-PROJ-PUBLIC-BINDING" /\ f.principals # {} /\ f.roles # {}
    BY <2>1 DEF PublicBindings, Finding
  <2> QED
    BY <1>1, <2>2 DEF Unbound
<1>3. CASE f \in check_attack_paths(b)
  <2>1. f \in ActAsEscalation(b)
    BY <1>3 DEF check_attack_paths, ImpersonationToData, Finding
  <2>2. f.rule = "IAM-PATH-ACTAS-ESCALATION" /\ f.principals # {}
    BY <2>1 DEF ActAsEscalation, Finding
  <2> QED
    BY <2>2 DEF remediation_commands, Unbound, Printed
<1>4. CASE f \in check_service_accounts(b)
  <2>1. f \in PublicImpersonation(b)
    BY <1>4 DEF check_service_accounts, UserManagedKeys, DisabledWithRoles,
                ExternalImpersonation, Finding
  <2>2. f.rule = "IAM-SA-PUBLIC-IMPERSONATION" /\ f.principals # {} /\ f.roles # {}
    BY <2>1 DEF PublicImpersonation, Finding
  <2> QED
    BY <1>1, <2>2 DEF Unbound
<1>5. CASE f \in check_gce(b)
  BY <1>5 DEF check_gce, OsLoginDisabled, DefaultFullScope, PrivilegedAttached, ExternalIp,
              ProjectSshKeys, SerialPort, GpuReview, Finding
<1>6. CASE f \in check_gcs(b)
  <2>1. f \in PublicBuckets(b)
    BY <1>6 DEF check_gcs, ExternalWriters, LegacyRoles, ObjectAcls, PublicAccessPossible, Finding
  <2>2. f.rule = "GCS-PUBLIC-BUCKET" /\ f.principals # {} /\ f.roles # {}
    BY <2>1 DEF PublicBuckets, Finding
  <2> QED
    BY <1>1, <2>2 DEF Unbound
<1>7. CASE f \in check_bigquery(b)
  <2>1. f \in PublicDatasets(b)
    BY <1>7 DEF check_bigquery, EditorsOwn, DomainWide, ExternalUsers, Finding
  <2>2. f.rule = "BQ-PUBLIC-DATASET"
    BY <2>1 DEF PublicDatasets, Finding
  <2> QED
    BY <2>2 DEF remediation_commands, Unbound, Printed
<1> QED
  BY <1>2, <1>3, <1>4, <1>5, <1>6, <1>7 DEF Raised

-----------------------------------------------------------------------------
(***************************************************************************)
(* The inductive invariant: some finite vocabulary is all that the project *)
(* and the book use, and what was reported is what the findings give.      *)
(***************************************************************************)
Spoken(P, R, Z) ==
    Vocabulary(P, R, Z) /\ Speaks(Full(cloud), P, R, Z) /\ Speaks(book, P, R, Z)

Counted == audits \in 1..MaxAudits

\* The summary and the answers are made from the findings, and answers are only
\* held while reporting.
Answered ==
    /\ summary = summarize(findings)
    /\ phase # "reporting" => listed = {} /\ plan = {}
    /\ \A a \in listed : a.query \in Queries /\ a.findings = list_findings(findings, a.query)
    /\ \A p \in plan : p = get_remediation_plan(findings)

Reported == Ranked(findings) /\ Counted /\ Answered

RInv == IInv /\ (\E P, R, Z : Spoken(P, R, Z)) /\ Reported

\* Nothing is reported at first, and a project has its vocabulary.
LEMMA RInvInit == Init => RInv
<1> SUFFICES ASSUME Init PROVE RInv
  OBVIOUS
<1>1. PICK P, R, Z : Vocabulary(P, R, Z) /\ Speaks(Full(cloud), P, R, Z)
  BY CloudSpeaks DEF Init
<1>2. Speaks(book, P, R, Z)
  BY DEF Init, Speaks, Uses, _bindings, Accounts, Machines, Buckets, Datasets
<1>3. Spoken(P, R, Z)
  BY <1>1, <1>2 DEF Spoken
<1>4. Reported
  BY NothingToSum, FS_EmptySet, CapsAssumption DEF Init, Reported, Ranked, Counted, Answered
<1> QED
  BY <1>3, <1>4, IInvInit DEF RInv

\* Collecting reads what the project says.
LEMMA CollectReports ==
    ASSUME NEW D \in Readable, RInv, Collect(D)
    PROVE  (\E P, R, Z : Spoken(P, R, Z)') /\ Reported'
<1>1. PICK P, R, Z : Spoken(P, R, Z)
  BY DEF RInv
<1>2. book' = Recollected(book, cloud, D) /\ cloud' = cloud
  BY DEF Collect, Recollected
<1>3. Spoken(P, R, Z)'
  BY <1>1, <1>2, CollectedSpeaks DEF Spoken
<1>4. Reported'
  BY DEF Collect, RInv, Reported, Counted, Answered
<1> QED
  BY <1>3, <1>4

\* The engine publishes finitely many findings and their summary.
LEMMA EngineReports ==
    ASSUME RInv, RunEngine
    PROVE  (\E P, R, Z : Spoken(P, R, Z)') /\ Reported'
<1>1. PICK P, R, Z : Spoken(P, R, Z)
  BY DEF RInv
<1>2. Spoken(P, R, Z)'
  BY <1>1 DEF RunEngine, Spoken
<1>3. MachinesDistinct(book)
  BY DEF RInv, IInv
<1>4. findings' = Raised(book)
  BY <1>3, RepeatsAreEqual DEF RunEngine
<1>5. Ranked(findings')
  BY <1>1, <1>3, <1>4, RaisedAreRanked DEF Spoken
<1>6. listed' = {} /\ plan' = {} /\ summary' = summarize(findings') /\ audits' = audits
  BY DEF RunEngine, RInv, Reported, Answered
<1> QED
  BY <1>2, <1>5, <1>6 DEF RInv, Reported, Counted, Answered

\* The tools answer from the findings.
LEMMA ToolReports ==
    ASSUME RInv,
           \/ \E q \in Queries : ListFindings(q)
           \/ GetRemediationPlan
    PROVE  (\E P, R, Z : Spoken(P, R, Z)') /\ Reported'
<1>1. UNCHANGED <<phase, audits, cloud, book, findings, summary>> /\ phase = "reporting"
  BY DEF ListFindings, GetRemediationPlan
<1>2. PICK P, R, Z : Spoken(P, R, Z)
  BY DEF RInv
<1>3. Spoken(P, R, Z)'
  BY <1>1, <1>2 DEF Spoken
<1>4. /\ \A a \in listed' : a.query \in Queries /\ a.findings = list_findings(findings, a.query)
      /\ \A p \in plan' : p = get_remediation_plan(findings)
  BY DEF ListFindings, GetRemediationPlan
<1> QED
  BY <1>1, <1>3, <1>4 DEF RInv, Reported, Counted, Answered

\* The commands keep to the vocabulary.
LEMMA RemediateReports ==
    ASSUME NEW n, RInv, Remediate(n)
    PROVE  (\E P, R, Z : Spoken(P, R, Z)') /\ Reported'
<1>1. PICK P, R, Z : Spoken(P, R, Z)
  BY DEF RInv
<1>2. PICK C : cloud' = Changed(cloud, C)
  BY DEF Remediate
<1>3. /\ UNCHANGED <<book, findings, summary>> /\ listed' = {} /\ plan' = {}
      /\ audits < MaxAudits /\ audits' = audits + 1
  BY DEF Remediate
<1>4. Spoken(P, R, Z)'
  BY <1>1, <1>2, <1>3, ChangedSpeaks DEF Spoken
<1>5. Counted'
  BY <1>3, CapsAssumption DEF RInv, Reported, Counted
<1> QED
  BY <1>3, <1>4, <1>5 DEF RInv, Reported, Answered

\* Every step keeps it.
LEMMA RInvStep == RInv /\ [Next]_vars => RInv'
<1> SUFFICES ASSUME RInv, [Next]_vars PROVE RInv'
  OBVIOUS
<1>1. IInv'
  BY IInvStep DEF RInv
<1>2. ASSUME NEW D \in Readable, Collect(D) PROVE RInv'
  BY <1>1, <1>2, CollectReports DEF RInv
<1>3. CASE RunEngine
  BY <1>1, <1>3, EngineReports DEF RInv
<1>4. CASE (\E q \in Queries : ListFindings(q)) \/ GetRemediationPlan
  BY <1>1, <1>4, ToolReports DEF RInv
<1>5. ASSUME NEW n, Remediate(n) PROVE RInv'
  BY <1>1, <1>5, RemediateReports DEF RInv
<1>6. CASE UNCHANGED vars
  BY <1>1, <1>6 DEF vars, RInv, Spoken, Reported, Counted, Answered
<1> QED
  BY <1>2, <1>3, <1>4, <1>5, <1>6 DEF Next

\* So it always holds.
LEMMA AlwaysRInv == Spec => []RInv
BY RInvInit, RInvStep, PTL DEF Spec

-----------------------------------------------------------------------------
(***************************************************************************)
(* What follows from it.                                                   *)
(***************************************************************************)

\* What the summary tells of the most severe findings.
LEMMA SummaryLeads ==
    ASSUME RInv
    PROVE  /\ Leads(summary.top, findings, Order(findings), MaxTop)
           /\ summary.total = Cardinality(findings) /\ summary.total \in Nat
           /\ summary.risk_score \in 0..100
<1>1. Ranked(findings) /\ summary = summarize(findings)
  BY DEF RInv, Reported, Answered
<1>2. Lists(sort_findings(findings), findings, Order(findings))
  BY <1>1, FindingsInOrder
<1>3. PICK top : top = Upto(sort_findings(findings), MaxTop)
  OBVIOUS
<1>4. Leads(top, findings, Order(findings), MaxTop)
  BY <1>2, <1>3, UptoLeads, CapsAssumption
<1>5. summary.top = top /\ summary.risk_score = risk_score(findings)
  BY <1>1, <1>3 DEF summarize
<1>6. summary.total = Cardinality(findings) /\ summary.total \in Nat
  BY <1>1, FS_CardinalityType DEF summarize, Ranked
<1> QED
  BY <1>1, <1>4, <1>5, <1>6, ScoreBounds

\* The plan lists the findings that have commands.
LEMMA PlanLists ==
    ASSUME RInv, NEW p \in plan
    PROVE  Lists(p, {f \in findings : remediation_commands(f) # {}}, Order(findings))
<1>1. Ranked(findings) /\ p = get_remediation_plan(findings)
  BY DEF RInv, Reported, Answered
<1>2. PICK closable : closable = {f \in findings : remediation_commands(f) # {}}
  OBVIOUS
<1>3. p = Those(sort_findings(findings), closable)
  BY <1>1, <1>2 DEF get_remediation_plan
<1>4. Lists(sort_findings(findings), findings, Order(findings))
  BY <1>1, FindingsInOrder
<1>5. Lists(p, findings \cap closable, Order(findings))
  BY <1>1, <1>3, <1>4, ThoseLists DEF Ranked
<1>6. findings \cap closable = closable
  BY <1>2
<1> QED
  BY <1>2, <1>5, <1>6

\* The variables of a session have their types in every reachable state: the
\* score is a percentage, the summary keeps to its cap and counts at least what
\* it shows, and a plan is about findings.
THEOREM AlwaysTypeOK == Spec => []TypeOK
<1>1. RInv => TypeOK
  <2> SUFFICES ASSUME RInv PROVE TypeOK
    OBVIOUS
  <2>1. /\ phase \in {"collecting", "analysing", "reporting"}
        /\ DOMAIN book \subseteq _INVENTORY_KEYS
        /\ audits \in 1..MaxAudits
        /\ \A f \in findings : f.severity \in Severities /\ f.roles \subseteq STRING
    BY DEF RInv, IInv, Reported, Counted, Ranked
  <2>2. /\ summary.top \in Seq(findings)
        /\ Len(summary.top) <= MaxTop
        /\ Len(summary.top) <= summary.total /\ summary.total \in Nat
        /\ summary.risk_score \in 0..100
    BY SummaryLeads DEF Leads
  <2>3. summary.total = Len(summary.top) \/ summary.total > Len(summary.top)
    BY <2>2
  <2>4. ASSUME NEW p \in plan, NEW i \in DOMAIN p
        PROVE  p[i] \in findings
    <3>1. p \in Seq({f \in findings : remediation_commands(f) # {}})
      BY PlanLists DEF Lists
    <3> QED
      BY <3>1
  <2> QED
    BY <2>1, <2>2, <2>3, <2>4 DEF TypeOK
<1> QED
  BY <1>1, AlwaysRInv, PTL

\* findings.py:38-43, analysis.py: a list that was cut short lost only the least
\* severe of what was asked for, and the summary shows nothing before what is
\* more severe.
THEOREM AlwaysNothingStrongerHidden == Spec => []NothingStrongerHidden
<1>1. ASSUME RInv, NEW a \in listed
      PROVE  LET given == {a.findings[i] : i \in DOMAIN a.findings}
                 hidden == {f \in findings : Matches(f, a.query)} \ given
             IN  /\ hidden # {} => Len(a.findings) = Clamp(a.query.limit)
                 /\ \A f \in hidden, g \in given : ~Ahead(f, g)
  <2>1. PICK asked : asked = {f \in findings : Matches(f, a.query)}
    OBVIOUS
  <2>2. PICK n : n = Clamp(a.query.limit)
    OBVIOUS
  <2>3. PICK t : t = a.findings
    OBVIOUS
  <2>4. t = Upto(Those(sort_findings(findings), asked), n)
    BY <1>1, <2>1, <2>2, <2>3 DEF RInv, Reported, Answered, list_findings
  <2>5. Ranked(findings)
    BY <1>1 DEF RInv, Reported
  <2>6. Lists(Those(sort_findings(findings), asked), findings \cap asked, Order(findings))
    BY <2>5, FindingsInOrder, ThoseLists DEF Ranked
  <2>7. findings \cap asked = asked
    BY <2>1
  <2>8. n \in Nat
    BY <1>1, <2>2, QueriesAssumption, CapsAssumption DEF Clamp, RInv, Reported, Answered
  <2>9. Leads(t, asked, Order(findings), n)
    BY <2>4, <2>6, <2>7, <2>8, UptoLeads
  <2>10. DOMAIN t = 1..Len(t) /\ \A i \in 1..Len(t) : t[i] \in asked
    BY <2>9 DEF Leads
  <2>11. ASSUME NEW x \in asked \ {t[i] : i \in DOMAIN t}
         PROVE  Len(t) = n /\ \A i \in DOMAIN t : ~Ahead(x, t[i])
    <3>1. \A i \in 1..Len(t) : t[i] # x
      BY <2>10
    <3>2. Len(t) = n /\ \A i \in 1..Len(t) : <<x, t[i]>> \notin Order(findings)
      BY <2>9, <3>1 DEF Leads
    <3> QED
      BY <2>1, <2>10, <3>2 DEF Order
  <2> QED
    BY <2>1, <2>2, <2>3, <2>11
<1>2. ASSUME RInv, NEW f \in findings, NEW i \in DOMAIN summary.top, Ahead(f, summary.top[i])
      PROVE  \E j \in 1..(i - 1) : summary.top[j] = f
  <2>1. Leads(summary.top, findings, Order(findings), MaxTop)
    BY <1>2, SummaryLeads
  <2>2. i \in 1..Len(summary.top) /\ summary.top[i] \in findings
    BY <1>2, <2>1 DEF Leads
  <2>3. <<f, summary.top[i]>> \in Order(findings)
    BY <1>2, <2>2 DEF Order
  <2>4. <<f, f>> \notin Order(findings)
    BY <1>2, NotAheadOfItself DEF RInv, Reported
  <2> QED
    BY <2>1, <2>2, <2>3, <2>4 DEF Leads
<1>3. RInv => NothingStrongerHidden
  BY <1>1, <1>2 DEF NothingStrongerHidden
<1> QED
  BY <1>3, AlwaysRInv, PTL

\* findings.py:53: every critical finding has commands, and the plan starts with
\* all of them.
THEOREM AlwaysPlanStartsWithCriticals == Spec => []PlanStartsWithCriticals
<1>1. RInv => PlanStartsWithCriticals
  <2> SUFFICES ASSUME RInv, NEW p \in plan, NEW f \in findings, f.severity = "CRITICAL"
               PROVE  \E i \in DOMAIN p : p[i] = f /\ \A j \in 1..i : p[j].severity = "CRITICAL"
    BY DEF PlanStartsWithCriticals
  <2>1. PICK closable : closable = {g \in findings : remediation_commands(g) # {}}
    OBVIOUS
  <2>2. Lists(p, closable, Order(findings))
    BY <2>1, PlanLists
  <2>3. f \in closable
    <3>1. findings = Raised(book)
      BY RepeatsAreEqual DEF RInv, Reported, Answered, IInv, Published
    <3> QED
      BY <2>1, <3>1, CriticalHasCommands
  <2>4. PICK i \in 1..Len(p) : p[i] = f
    BY <2>2, <2>3 DEF Lists
  <2>5. p \in Seq(closable) /\ DOMAIN p = 1..Len(p)
    BY <2>2 DEF Lists
  <2>6. ASSUME NEW j \in 1..i
        PROVE  p[j].severity = "CRITICAL"
    <3>1. CASE j = i
      BY <2>4, <3>1
    <3>2. CASE j # i
      <4>1. j \in 1..Len(p) /\ j < i /\ p[j] \in findings
        BY <2>1, <2>4, <2>5, <3>2
      <4>2. <<f, p[j]>> \notin Order(findings)
        BY <2>2, <2>4, <4>1 DEF Lists
      <4>3. ~Ahead(f, p[j])
        BY <4>1, <4>2 DEF Order
      <4>4. p[j].severity \in Severities
        BY <4>1 DEF RInv, Reported, Ranked
      <4> QED
        BY <4>3, <4>4 DEF Ahead, SeverityRank, Severities
    <3> QED
      BY <3>1, <3>2
  <2> QED
    BY <2>4, <2>5, <2>6
<1> QED
  BY <1>1, AlwaysRInv, PTL
=============================================================================
