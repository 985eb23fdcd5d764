-------------------------- MODULE IamAudit_proofs --------------------------
(***************************************************************************)
(* Proofs about the audits of a session, for every project, every choice   *)
(* of the sources that can be read and every number of audits.             *)
(*                                                                         *)
(* The argument rests on an order of books: a book that says no more than  *)
(* another gives no finding the other does not cover.  Losing a source     *)
(* goes down in this order, and so do the commands of the plan.            *)
(***************************************************************************)
EXTENDS IamAudit, IamRules_proofs

-----------------------------------------------------------------------------
(***************************************************************************)
(* Findings that cover findings.                                           *)
(***************************************************************************)

\* g says all that f says, and is as severe.
Covers(g, f) ==
    /\ g.rule = f.rule
    /\ g.resource = f.resource
    /\ f.principals \subseteq g.principals
    /\ f.roles \subseteq g.roles
    /\ ~Ahead(f, g)

\* v is no more severe than w, in the ways the rules need.
Milder(v, w) ==
    /\ v \in Severities
    /\ w \in Severities
    /\ \/ v = w
       \/ w = "CRITICAL"
       \/ w = "HIGH" /\ v = "MEDIUM"

\* The severities are four different numbers.
LEMMA Ranks ==
    /\ SeverityRank("CRITICAL") = 0
    /\ SeverityRank("HIGH") = 1
    /\ SeverityRank("MEDIUM") = 2
    /\ SeverityRank("LOW") = 3
BY DEF SeverityRank

\* A milder finding does not go before the other.
LEMMA MilderNotAhead ==
    ASSUME NEW f, NEW g, Milder(f.severity, g.severity)
    PROVE  ~Ahead(f, g)
BY Ranks DEF Milder, Ahead, Severities

\* A finding is covered by one of its rule and resource that names no less.
LEMMA FindingCovers ==
    ASSUME NEW rule, NEW v, NEW w, NEW resource, NEW P, NEW Q, NEW R, NEW S,
           P \subseteq Q, R \subseteq S, Milder(v, w)
    PROVE  Covers(Finding(rule, w, resource, Q, S), Finding(rule, v, resource, P, R))
<1>1. ~Ahead(Finding(rule, v, resource, P, R), Finding(rule, w, resource, Q, S))
  BY MilderNotAhead DEF Finding
<1> QED
  BY <1>1 DEF Covers, Finding

\* Covering is reflexive.
LEMMA CoversItself ==
    ASSUME NEW f, f.severity \in Severities
    PROVE  Covers(f, f)
BY MilderNotAhead DEF Covers, Milder

\* Covering is transitive.
LEMMA CoversOver ==
    ASSUME NEW f, NEW g, NEW h, f.severity \in Severities, g.severity \in Severities,
           h.severity \in Severities, Covers(g, f), Covers(h, g)
    PROVE  Covers(h, f)
<1>1. ~Ahead(f, g) /\ ~Ahead(g, h) => ~Ahead(f, h)
  BY Ranks DEF Ahead, Severities
<1> QED
  BY <1>1 DEF Covers

-----------------------------------------------------------------------------
(***************************************************************************)
(* The order of books.                                                     *)
(***************************************************************************)
AtMost(x, y) == y.role = x.role /\ (y.condition => x.condition) /\ x.members \subseteq y.members

LessBindings(X, Y) == \A x \in X : \E y \in Y : AtMost(x, y)

LessAccount(a, c) ==
    /\ a.email = c.email
    /\ a.keys => c.keys
    /\ a.disabled => c.disabled
    /\ LessBindings(a.bindings, c.bindings)

\* The account a command attaches may be on the lesser side only.
LessMachine(i, j) ==
    /\ i.name = j.name
    /\ \A x \in i.attached : x \in j.attached \/ (x.email = NewAccount /\ ~x.is_default)
    /\ i.attached # {} => j.attached # {}
    /\ i.external_ips \subseteq j.external_ips
    /\ i.running => j.running
    /\ i.startup_script => j.startup_script
    /\ j.blocks_ssh_keys => i.blocks_ssh_keys
    /\ i.serial_port => j.serial_port
    /\ i.gpu => j.gpu

LessBucket(k, l) ==
    /\ k.name = l.name
    /\ LessBindings(k.bindings, l.bindings)
    /\ l.uniform_access => k.uniform_access
    /\ l.access_prevention => k.access_prevention

LessDataset(d, e) == d.name = e.name /\ d.entries \subseteq e.entries

Ungranted(b) == \A x \in _bindings(b) : NewAccount \notin x.members

\* lo has fewer sources, and of each no more than hi to find fault with.
LessBook(lo, hi) ==
    /\ DOMAIN lo \subseteq DOMAIN hi
    /\ Ungranted(lo)
    /\ LessBindings(_bindings(lo), _bindings(hi))
    /\ "project_iam" \in DOMAIN lo => (Audited(hi) => Audited(lo))
    /\ \A a \in Accounts(lo) : \E c \in Accounts(hi) : LessAccount(a, c)
    /\ "gce_inventory" \in DOMAIN lo => (OsLogin(hi) => OsLogin(lo))
    /\ \A i \in Machines(lo) : \E j \in Machines(hi) : LessMachine(i, j)
    /\ \A k \in Buckets(lo) : \E l \in Buckets(hi) : LessBucket(k, l)
    /\ \A d \in Datasets(lo) : \E e \in Datasets(hi) : LessDataset(d, e)

\* The greater book grants every principal at least the roles of the lesser.
LEMMA RolesGrow ==
    ASSUME NEW lo, NEW hi, LessBook(lo, hi)
    PROVE  \A p : _principal_roles(lo, p) \subseteq _principal_roles(hi, p)
BY DEF LessBook, LessBindings, AtMost, _principal_roles

-----------------------------------------------------------------------------
(***************************************************************************)
(* Every check follows the order.                                          *)
(***************************************************************************)
\* The checks of the project's policy.
LEMMA ProjectGrows ==
    ASSUME NEW lo, NEW hi, LessBook(lo, hi), "project_iam" \in DOMAIN lo,
           NEW f \in check_project_iam(lo)
    PROVE  \E g \in check_project_iam(hi) : Covers(g, f)
<1>1. CASE f \in PublicBindings(lo)
  <2>1. PICK x \in _bindings(lo) :
          /\ x.members \cap Public # {}
          /\ f = Finding("IAM-PROJ-PUBLIC-BINDING", "CRITICAL", _project_ref,
                         x.members \cap Public, {x.role})
    BY <1>1 DEF PublicBindings
  <2>2. PICK y \in _bindings(hi) : AtMost(x, y)
    BY DEF LessBook, LessBindings
  <2>3. Finding("IAM-PROJ-PUBLIC-BINDING", "CRITICAL", _project_ref,
                y.members \cap Public, {y.role}) \in PublicBindings(hi)
    BY <2>1, <2>2 DEF PublicBindings, AtMost
  <2> QED
    BY <2>1, <2>2, <2>3, FindingCovers DEF check_project_iam, AtMost, Milder, Severities
<1>2. CASE f \in BasicRoles(lo)
  <2>1. PICK x \in _bindings(lo) :
          /\ x.role \in BASIC_ROLES \ {"viewer"} /\ x.members # {}
          /\ f = Finding("IAM-PROJ-BASIC-ROLE",
                         IF x.role = "owner" THEN "HIGH" ELSE "MEDIUM", _project_ref,
                         x.members, {x.role})
    BY <1>2 DEF BasicRoles
  <2>2. PICK y \in _bindings(hi) : AtMost(x, y)
    BY DEF LessBook, LessBindings
  <2>3. Finding("IAM-PROJ-BASIC-ROLE",
                IF y.role = "owner" THEN "HIGH" ELSE "MEDIUM", _project_ref,
                y.members, {y.role}) \in BasicRoles(hi)
    BY <2>1, <2>2 DEF BasicRoles, AtMost
  <2> QED
    BY <2>1, <2>2, <2>3, FindingCovers DEF check_project_iam, AtMost, Milder, Severities
<1>3. CASE f \in UnconditionalAdmins(lo)
  <2>1. PICK x \in _bindings(lo) :
          /\ x.role \in IAM_ADMIN_ROLES /\ ~x.condition
          /\ f = Finding("IAM-PROJ-UNCONDITIONAL-IAM-ADMIN", "HIGH", _project_ref,
                         x.members, {x.role})
    BY <1>3 DEF UnconditionalAdmins
  <2>2. PICK y \in _bindings(hi) : AtMost(x, y)
    BY DEF LessBook, LessBindings
  <2>3. Finding("IAM-PROJ-UNCONDITIONAL-IAM-ADMIN", "HIGH", _project_ref,
                y.members, {y.role}) \in UnconditionalAdmins(hi)
    BY <2>1, <2>2 DEF UnconditionalAdmins, AtMost
  <2> QED
    BY <2>1, <2>2, <2>3, FindingCovers DEF check_project_iam, AtMost, Milder, Severities
<1>4. CASE f \in BroadImpersonation(lo)
  <2>1. PICK x \in _bindings(lo) :
          /\ x.role \in IMPERSONATION_ROLES /\ x.members # {}
          /\ f = Finding("IAM-PROJ-BROAD-IMPERSONATION", "HIGH", _project_ref,
                         x.members, {x.role})
    BY <1>4 DEF BroadImpersonation
  <2>2. PICK y \in _bindings(hi) : AtMost(x, y)
    BY DEF LessBook, LessBindings
  <2>3. Finding("IAM-PROJ-BROAD-IMPERSONATION", "HIGH", _project_ref,
                y.members, {y.role}) \in BroadImpersonation(hi)
    BY <2>1, <2>2 DEF BroadImpersonation, AtMost
  <2> QED
    BY <2>1, <2>2, <2>3, FindingCovers DEF check_project_iam, AtMost, Milder, Severities
<1>5. CASE f \in ExternalPrincipals(lo)
  <2>1. PICK x \in _bindings(lo) :
          /\ Outsiders(x.members) # {}
          /\ f = Finding("IAM-PROJ-EXTERNAL-PRINCIPAL",
                         IF x.role \in IAM_ADMIN_ROLES \cup BASIC_ROLES THEN "HIGH" ELSE "MEDIUM",
                         _project_ref, Outsiders(x.members), {x.role})
    BY <1>5 DEF ExternalPrincipals
  <2>2. PICK y \in _bindings(hi) : AtMost(x, y)
    BY DEF LessBook, LessBindings
  <2>3. Finding("IAM-PROJ-EXTERNAL-PRINCIPAL",
                IF y.role \in IAM_ADMIN_ROLES \cup BASIC_ROLES THEN "HIGH" ELSE "MEDIUM",
                _project_ref, Outsiders(y.members), {y.role}) \in ExternalPrincipals(hi)
    BY <2>1, <2>2 DEF ExternalPrincipals, AtMost, Outsiders
  <2> QED
    BY <2>1, <2>2, <2>3, FindingCovers
       DEF check_project_iam, AtMost, Milder, Severities, Outsiders
<1>6. CASE f \in QuotaControl(lo)
  <2>1. PICK x \in _bindings(lo) :
          /\ x.role \in QUOTA_AND_BILLING_ROLES /\ x.members \cap Humans # {}
          /\ f = Finding("IAM-PROJ-QUOTA-CONTROL", "MEDIUM", _project_ref,
                         x.members \cap Humans, {x.role})
    BY <1>6 DEF QuotaControl
  <2>2. PICK y \in _bindings(hi) : AtMost(x, y)
    BY DEF LessBook, LessBindings
  <2>3. Finding("IAM-PROJ-QUOTA-CONTROL", "MEDIUM", _project_ref,
                y.members \cap Humans, {y.role}) \in QuotaControl(hi)
    BY <2>1, <2>2 DEF QuotaControl, AtMost
  <2> QED
    BY <2>1, <2>2, <2>3, FindingCovers DEF check_project_iam, AtMost, Milder, Severities
<1>7. CASE f \in NoAuditLogs(lo)
  <2>1. f \in NoAuditLogs(hi)
    BY <1>7 DEF NoAuditLogs, LessBook
  <2> QED
    BY <2>1, CoversItself, ProjectFixed DEF check_project_iam, Fixed
<1> QED
  BY <1>1, <1>2, <1>3, <1>4, <1>5, <1>6, <1>7 DEF check_project_iam

\* The attack paths: the greater book has both grants, and at least the accounts
\* that make the path critical.
LEMMA PathsGrow ==
    ASSUME NEW lo, NEW hi, LessBook(lo, hi), NEW f \in check_attack_paths(lo)
    PROVE  \E g \in check_attack_paths(hi) : Covers(g, f)
<1>1. Granted(lo) \subseteq Granted(hi)
  BY DEF Granted, LessBook, LessBindings, AtMost
<1>2. CASE f \in ActAsEscalation(lo)
  <2> DEFINE Roles(b, p) == _principal_roles(b, p) \cap (ACTAS_ROLES \cup COMPUTE_EXECUTION_ROLES)
             Grade(b) == IF privileged_sas(b) # {} THEN "CRITICAL" ELSE "HIGH"
  <2>1. PICK p \in Granted(lo) :
          /\ _principal_roles(lo, p) \cap ACTAS_ROLES # {}
          /\ _principal_roles(lo, p) \cap COMPUTE_EXECUTION_ROLES # {}
          /\ f = Finding("IAM-PATH-ACTAS-ESCALATION", Grade(lo), _project_ref, {p}, Roles(lo, p))
    BY <1>2 DEF ActAsEscalation
  <2>2. Finding("IAM-PATH-ACTAS-ESCALATION", Grade(hi), _project_ref, {p}, Roles(hi, p))
          \in ActAsEscalation(hi)
    BY <1>1, <2>1, RolesGrow DEF ActAsEscalation
  <2>3. privileged_sas(lo) # {} => privileged_sas(hi) # {}
    <3>1. ASSUME NEW a \in Accounts(lo), _principal_roles(lo, a.email) \cap Privileged # {}
          PROVE  \E c \in Accounts(hi) : _principal_roles(hi, c.email) \cap Privileged # {}
      <4>1. PICK c \in Accounts(hi) : c.email = a.email
        BY DEF LessBook, LessAccount
      <4> QED
        BY <3>1, <4>1, RolesGrow
    <3> QED
      BY <3>1 DEF privileged_sas
  <2>4. Milder(Grade(lo), Grade(hi))
    BY <2>3 DEF Milder, Severities
  <2>5. Roles(lo, p) \subseteq Roles(hi, p)
    BY RolesGrow
  <2> HIDE DEF Roles, Grade
  <2> QED
    BY <2>1, <2>2, <2>4, <2>5, FindingCovers DEF check_attack_paths
<1>3. CASE f \in ImpersonationToData(lo)
  <2> DEFINE Roles(b, p) == _principal_roles(b, p) \cap (IMPERSONATION_ROLES \cup DATA_READ_ROLES)
  <2>1. PICK p \in Granted(lo) :
          /\ _principal_roles(lo, p) \cap IMPERSONATION_ROLES # {}
          /\ _principal_roles(lo, p) \cap DATA_READ_ROLES # {}
          /\ f = Finding("IAM-PATH-IMPERSONATION-TO-DATA",
                         "HIGH", _project_ref, {p}, Roles(lo, p))
    BY <1>3 DEF ImpersonationToData
  <2>2. Finding("IAM-PATH-IMPERSONATION-TO-DATA", "HIGH", _project_ref, {p}, Roles(hi, p))
          \in ImpersonationToData(hi)
    BY <1>1, <2>1, RolesGrow DEF ImpersonationToData
  <2>3. Roles(lo, p) \subseteq Roles(hi, p)
    BY RolesGrow
  <2> HIDE DEF Roles
  <2> QED
    BY <2>1, <2>2, <2>3, FindingCovers DEF check_attack_paths, Milder, Severities
<1> QED
  BY <1>2, <1>3 DEF check_attack_paths

\* The checks of the service accounts.
LEMMA AccountsGrow ==
    ASSUME NEW lo, NEW hi, LessBook(lo, hi), NEW f \in check_service_accounts(lo)
    PROVE  \E g \in check_service_accounts(hi) : Covers(g, f)
<1>1. CASE f \in UserManagedKeys(lo)
  <2>1. PICK a \in Accounts(lo) :
          /\ a.keys
          /\ f = Finding("IAM-SA-USER-MANAGED-KEY", "HIGH", AccountRef(a), {a.email},
                         {})
    BY <1>1 DEF UserManagedKeys
  <2>2. PICK c \in Accounts(hi) : LessAccount(a, c)
    BY DEF LessBook
  <2>3. Finding("IAM-SA-USER-MANAGED-KEY", "HIGH", AccountRef(c), {c.email},
                {}) \in UserManagedKeys(hi)
    BY <2>1, <2>2 DEF UserManagedKeys, LessAccount
  <2>4. AccountRef(c) = AccountRef(a)
    BY <2>2 DEF AccountRef, LessAccount
  <2> QED
    BY <2>1, <2>2, <2>3, <2>4, FindingCovers
       DEF check_service_accounts, LessAccount, Milder, Severities
<1>2. CASE f \in DisabledWithRoles(lo)
  <2>1. PICK a \in Accounts(lo) :
          /\ a.disabled /\ _principal_roles(lo, a.email) # {}
          /\ f = Finding("IAM-SA-DISABLED-WITH-ROLES", "LOW", AccountRef(a), {a.email},
                         _principal_roles(lo, a.email))
    BY <1>2 DEF DisabledWithRoles
  <2>2. PICK c \in Accounts(hi) : LessAccount(a, c)
    BY DEF LessBook
  <2>3. Finding("IAM-SA-DISABLED-WITH-ROLES", "LOW", AccountRef(c), {c.email},
                _principal_roles(hi, c.email)) \in DisabledWithRoles(hi)
    BY <2>1, <2>2, RolesGrow DEF DisabledWithRoles, LessAccount
  <2>4. AccountRef(c) = AccountRef(a)
    BY <2>2 DEF AccountRef, LessAccount
  <2> QED
    BY <2>1, <2>2, <2>3, <2>4, FindingCovers, RolesGrow
       DEF check_service_accounts, LessAccount, Milder, Severities
<1>3. CASE f \in PublicImpersonation(lo)
  <2> DEFINE Of(b, v) == {Finding("IAM-SA-PUBLIC-IMPERSONATION", "CRITICAL", AccountRef(v),
                                  x.members \cap Public, {x.role}) :
                         x \in {y \in v.bindings : y.members \cap Public # {}}}
  <2>1. \A b : PublicImpersonation(b) = UNION {Of(b, v) : v \in Accounts(b)}
    BY DEF PublicImpersonation
  <2>2. PICK a \in Accounts(lo) : f \in Of(lo, a)
    <3> HIDE DEF Of
    <3> QED BY <1>3, <2>1
  <2>3. PICK c \in Accounts(hi) : LessAccount(a, c)
    BY DEF LessBook
  <2>4. PICK x \in a.bindings :
          /\ x.members \cap Public # {}
          /\ f = Finding("IAM-SA-PUBLIC-IMPERSONATION", "CRITICAL", AccountRef(a),
                         x.members \cap Public, {x.role})
    BY <2>2
  <2>5. PICK y \in c.bindings : AtMost(x, y)
    BY <2>3 DEF LessAccount, LessBindings
  <2>6. \A g : g \in Of(hi, c) => g \in PublicImpersonation(hi)
    <3> HIDE DEF Of
    <3> QED BY <2>1
  <2>7. Finding("IAM-SA-PUBLIC-IMPERSONATION", "CRITICAL", AccountRef(c),
                y.members \cap Public, {y.role}) \in Of(hi, c)
    BY <2>4, <2>5 DEF AtMost
  <2>8. AccountRef(c) = AccountRef(a)
    BY <2>3 DEF AccountRef, LessAccount
  <2> HIDE DEF Of
  <2> QED
    BY <2>4, <2>5, <2>6, <2>7, <2>8, FindingCovers
       DEF check_service_accounts, AtMost, Milder, Severities
<1>4. CASE f \in ExternalImpersonation(lo)
  <2> DEFINE Of(b, v) == {Finding("IAM-SA-EXTERNAL-IMPERSONATION", "HIGH", AccountRef(v),
                                  Outsiders(x.members), {x.role}) :
                         x \in {y \in v.bindings :
                                    y.role \in IMPERSONATION_ROLES /\ Outsiders(y.members) # {}}}
  <2>1. \A b : ExternalImpersonation(b) = UNION {Of(b, v) : v \in Accounts(b)}
    BY DEF ExternalImpersonation
  <2>2. PICK a \in Accounts(lo) : f \in Of(lo, a)
    <3> HIDE DEF Of
    <3> QED BY <1>4, <2>1
  <2>3. PICK c \in Accounts(hi) : LessAccount(a, c)
    BY DEF LessBook
  <2>4. PICK x \in a.bindings :
          /\ x.role \in IMPERSONATION_ROLES /\ Outsiders(x.members) # {}
          /\ f = Finding("IAM-SA-EXTERNAL-IMPERSONATION", "HIGH", AccountRef(a),
                         Outsiders(x.members), {x.role})
    BY <2>2
  <2>5. PICK y \in c.bindings : AtMost(x, y)
    BY <2>3 DEF LessAccount, LessBindings
  <2>6. \A g : g \in Of(hi, c) => g \in ExternalImpersonation(hi)
    <3> HIDE DEF Of
    <3> QED BY <2>1
  <2>7. Finding("IAM-SA-EXTERNAL-IMPERSONATION", "HIGH", AccountRef(c),
                Outsiders(y.members), {y.role}) \in Of(hi, c)
    BY <2>4, <2>5 DEF AtMost, Outsiders
  <2>8. AccountRef(c) = AccountRef(a)
    BY <2>3 DEF AccountRef, LessAccount
  <2> HIDE DEF Of
  <2> QED
    BY <2>4, <2>5, <2>6, <2>7, <2>8, FindingCovers
       DEF check_service_accounts, AtMost, Milder, Severities, Outsiders
<1> QED
  BY <1>1, <1>2, <1>3, <1>4 DEF check_service_accounts

\* The checks of Compute Engine: an account that only the lesser book attaches
\* has no roles, and raises nothing.
LEMMA MachinesGrow ==
    ASSUME NEW lo, NEW hi, LessBook(lo, hi), "gce_inventory" \in DOMAIN lo,
           NEW f \in check_gce(lo)
    PROVE  \E g \in check_gce(hi) : Covers(g, f)
<1>1. CASE f \in OsLoginDisabled(lo)
  <2>1. f \in OsLoginDisabled(hi)
    BY <1>1 DEF OsLoginDisabled, LessBook
  <2>2. f.severity \in Severities
    BY <1>1 DEF OsLoginDisabled, Finding, Severities
  <2> QED
    BY <2>1, <2>2, CoversItself DEF check_gce
<1>2. CASE f \in DefaultFullScope(lo)
  <2> DEFINE Of(b, v) == {Finding("GCE-DEFAULT-SA-FULL-SCOPE", "HIGH", InstanceRef(v),
                                  {x.email}, Dangerous(b, x)) :
                         x \in {y \in v.attached : y.is_default /\ y.broad_scope}}
  <2>1. \A b : DefaultFullScope(b) = UNION {Of(b, v) : v \in Machines(b)}
    BY DEF DefaultFullScope
  <2>2. PICK i \in Machines(lo) : f \in Of(lo, i)
    <3> HIDE DEF Of
    <3> QED BY <1>2, <2>1
  <2>3. PICK j \in Machines(hi) : LessMachine(i, j)
    BY DEF LessBook
  <2>4. PICK x \in i.attached :
          /\ x.is_default /\ x.broad_scope
          /\ f = Finding("GCE-DEFAULT-SA-FULL-SCOPE", "HIGH", InstanceRef(i),
                         {x.email}, Dangerous(lo, x))
    BY <2>2
  <2>5. x \in j.attached /\ Dangerous(lo, x) \subseteq Dangerous(hi, x)
    BY <2>3, <2>4, RolesGrow DEF LessMachine, Dangerous
  <2>6. \A g : g \in Of(hi, j) => g \in DefaultFullScope(hi)
    <3> HIDE DEF Of
    <3> QED BY <2>1
  <2>7. Finding("GCE-DEFAULT-SA-FULL-SCOPE", "HIGH", InstanceRef(j),
                {x.email}, Dangerous(hi, x)) \in Of(hi, j)
    BY <2>4, <2>5
  <2>8. InstanceRef(j) = InstanceRef(i)
    BY <2>3 DEF InstanceRef, LessMachine
  <2> HIDE DEF Of
  <2> QED
    BY <2>4, <2>5, <2>6, <2>7, <2>8, FindingCovers DEF check_gce, Milder, Severities
<1>3. CASE f \in PrivilegedAttached(lo)
  <2> DEFINE Of(b, v) == {Finding("GCE-PRIVILEGED-SA-ATTACHED", "HIGH", InstanceRef(v),
                                  {x.email}, Dangerous(b, x)) :
                         x \in {y \in v.attached :
                                    ~(y.is_default /\ y.broad_scope) /\ Dangerous(b, y) # {}}}
  <2>1. \A b : PrivilegedAttached(b) = UNION {Of(b, v) : v \in Machines(b)}
    BY DEF PrivilegedAttached
  <2>2. PICK i \in Machines(lo) : f \in Of(lo, i)
    <3> HIDE DEF Of
    <3> QED BY <1>3, <2>1
  <2>3. PICK j \in Machines(hi) : LessMachine(i, j)
    BY DEF LessBook
  <2>4. PICK x \in i.attached :
          /\ ~(x.is_default /\ x.broad_scope) /\ Dangerous(lo, x) # {}
          /\ f = Finding("GCE-PRIVILEGED-SA-ATTACHED", "HIGH", InstanceRef(i),
                         {x.email}, Dangerous(lo, x))
    BY <2>2
  <2>5. x \in j.attached /\ Dangerous(lo, x) \subseteq Dangerous(hi, x)
    <3>1. x.email # NewAccount
      BY <2>4 DEF Dangerous, LessBook, Ungranted, _principal_roles
    <3> QED
      BY <2>3, <3>1, RolesGrow DEF LessMachine, Dangerous
  <2>6. \A g : g \in Of(hi, j) => g \in PrivilegedAttached(hi)
    <3> HIDE DEF Of
    <3> QED BY <2>1
  <2>7. Finding("GCE-PRIVILEGED-SA-ATTACHED", "HIGH", InstanceRef(j),
                {x.email}, Dangerous(hi, x)) \in Of(hi, j)
    BY <2>4, <2>5
  <2>8. InstanceRef(j) = InstanceRef(i)
    BY <2>3 DEF InstanceRef, LessMachine
  <2> HIDE DEF Of
  <2> QED
    BY <2>4, <2>5, <2>6, <2>7, <2>8, FindingCovers DEF check_gce, Milder, Severities
<1>4. CASE f \in ExternalIp(lo)
  <2>1. PICK i \in Machines(lo) :
          /\ i.external_ips # {} /\ i.running
          /\ f = Finding("GCE-EXTERNAL-IP", IF i.attached # {} THEN "HIGH" ELSE "MEDIUM",
                         InstanceRef(i), {}, {})
    BY <1>4 DEF ExternalIp
  <2>2. PICK j \in Machines(hi) : LessMachine(i, j)
    BY DEF LessBook
  <2>3. Finding("GCE-EXTERNAL-IP", IF j.attached # {} THEN "HIGH" ELSE "MEDIUM",
                InstanceRef(j), {}, {}) \in ExternalIp(hi)
    BY <2>1, <2>2 DEF ExternalIp, LessMachine
  <2>4. InstanceRef(j) = InstanceRef(i)
    BY <2>2 DEF InstanceRef, LessMachine
  <2>5. Milder(IF i.attached # {} THEN "HIGH" ELSE "MEDIUM",
               IF j.attached # {} THEN "HIGH" ELSE "MEDIUM")
    BY <2>2 DEF LessMachine, Milder, Severities
  <2> QED
    BY <2>1, <2>3, <2>4, <2>5, FindingCovers DEF check_gce
<1>5. CASE f \in ProjectSshKeys(lo)
  <2>1. PICK a \in Machines(lo) :
          /\ a.startup_script /\ ~a.blocks_ssh_keys
          /\ f = Finding("GCE-PROJECT-SSH-KEYS-ALLOWED", "MEDIUM", InstanceRef(a), {},
                         {})
    BY <1>5 DEF ProjectSshKeys
  <2>2. PICK c \in Machines(hi) : LessMachine(a, c)
    BY DEF LessBook
  <2>3. Finding("GCE-PROJECT-SSH-KEYS-ALLOWED", "MEDIUM", InstanceRef(c), {},
                {}) \in ProjectSshKeys(hi)
    BY <2>1, <2>2 DEF ProjectSshKeys, LessMachine
  <2>4. InstanceRef(c) = InstanceRef(a)
    BY <2>2 DEF InstanceRef, LessMachine
  <2> QED
    BY <2>1, <2>2, <2>3, <2>4, FindingCovers DEF check_gce, LessMachine, Milder, Severities
<1>6. CASE f \in SerialPort(lo)
  <2>1. PICK a \in Machines(lo) :
          /\ a.serial_port
          /\ f = Finding("GCE-SERIAL-PORT-ENABLED", "MEDIUM", InstanceRef(a), {},
                         {})
    BY <1>6 DEF SerialPort
  <2>2. PICK c \in Machines(hi) : LessMachine(a, c)
    BY DEF LessBook
  <2>3. Finding("GCE-SERIAL-PORT-ENABLED", "MEDIUM", InstanceRef(c), {},
                {}) \in SerialPort(hi)
    BY <2>1, <2>2 DEF SerialPort, LessMachine
  <2>4. InstanceRef(c) = InstanceRef(a)
    BY <2>2 DEF InstanceRef, LessMachine
  <2> QED
    BY <2>1, <2>2, <2>3, <2>4, FindingCovers DEF check_gce, LessMachine, Milder, Severities
<1>7. CASE f \in GpuReview(lo)
  <2>1. PICK a \in Machines(lo) :
          /\ a.gpu /\ a.running
          /\ f = Finding("GCE-GPU-WORKLOAD-REVIEW", "LOW", InstanceRef(a), {},
                         {})
    BY <1>7 DEF GpuReview
  <2>2. PICK c \in Machines(hi) : LessMachine(a, c)
    BY DEF LessBook
  <2>3. Finding("GCE-GPU-WORKLOAD-REVIEW", "LOW", InstanceRef(c), {},
                {}) \in GpuReview(hi)
    BY <2>1, <2>2 DEF GpuReview, LessMachine
  <2>4. InstanceRef(c) = InstanceRef(a)
    BY <2>2 DEF InstanceRef, LessMachine
  <2> QED
    BY <2>1, <2>2, <2>3, <2>4, FindingCovers DEF check_gce, LessMachine, Milder, Severities
<1> QED
  BY <1>1, <1>2, <1>3, <1>4, <1>5, <1>6, <1>7 DEF check_gce

\* The checks of Cloud Storage.
LEMMA BucketsGrow ==
    ASSUME NEW lo, NEW hi, LessBook(lo, hi), NEW f \in check_gcs(lo)
    PROVE  \E g \in check_gcs(hi) : Covers(g, f)
<1>1. CASE f \in PublicBuckets(lo)
  <2> DEFINE Of(b, v) == {Finding("GCS-PUBLIC-BUCKET", "CRITICAL", BucketRef(v),
                                  x.members \cap Public, {x.role}) :
                         x \in {y \in v.bindings : y.members \cap Public # {}}}
  <2>1. \A b : PublicBuckets(b) = UNION {Of(b, v) : v \in Buckets(b)}
    BY DEF PublicBuckets
  <2>2. PICK a \in Buckets(lo) : f \in Of(lo, a)
    <3> HIDE DEF Of
    <3> QED BY <1>1, <2>1
  <2>3. PICK c \in Buckets(hi) : LessBucket(a, c)
    BY DEF LessBook
  <2>4. PICK x \in a.bindings :
          /\ x.members \cap Public # {}
          /\ f = Finding("GCS-PUBLIC-BUCKET", "CRITICAL", BucketRef(a),
                         x.members \cap Public, {x.role})
    BY <2>2
  <2>5. PICK y \in c.bindings : AtMost(x, y)
    BY <2>3 DEF LessBucket, LessBindings
  <2>6. \A g : g \in Of(hi, c) => g \in PublicBuckets(hi)
    <3> HIDE DEF Of
    <3> QED BY <2>1
  <2>7. Finding("GCS-PUBLIC-BUCKET", "CRITICAL", BucketRef(c),
                y.members \cap Public, {y.role}) \in Of(hi, c)
    BY <2>4, <2>5 DEF AtMost
  <2>8. BucketRef(c) = BucketRef(a)
    BY <2>3 DEF BucketRef, LessBucket
  <2> HIDE DEF Of
  <2> QED
    BY <2>4, <2>5, <2>6, <2>7, <2>8, FindingCovers DEF check_gcs, AtMost, Milder, Severities
<1>2. CASE f \in ExternalWriters(lo)
  <2> DEFINE Of(b, v) == {Finding("GCS-EXTERNAL-WRITE-ACCESS", "HIGH", BucketRef(v),
                                  Strangers(x.members), {x.role}) :
                         x \in {y \in v.bindings :
                                    y.role \in BUCKET_WRITE_ROLES /\ Strangers(y.members) # {}}}
  <2>1. \A b : ExternalWriters(b) = UNION {Of(b, v) : v \in Buckets(b)}
    BY DEF ExternalWriters
  <2>2. PICK a \in Buckets(lo) : f \in Of(lo, a)
    <3> HIDE DEF Of
    <3> QED BY <1>2, <2>1
  <2>3. PICK c \in Buckets(hi) : LessBucket(a, c)
    BY DEF LessBook
  <2>4. PICK x \in a.bindings :
          /\ x.role \in BUCKET_WRITE_ROLES /\ Strangers(x.members) # {}
          /\ f = Finding("GCS-EXTERNAL-WRITE-ACCESS", "HIGH", BucketRef(a),
                         Strangers(x.members), {x.role})
    BY <2>2
  <2>5. PICK y \in c.bindings : AtMost(x, y)
    BY <2>3 DEF LessBucket, LessBindings
  <2>6. \A g : g \in Of(hi, c) => g \in ExternalWriters(hi)
    <3> HIDE DEF Of
    <3> QED BY <2>1
  <2>7. Finding("GCS-EXTERNAL-WRITE-ACCESS", "HIGH", BucketRef(c),
                Strangers(y.members), {y.role}) \in Of(hi, c)
    BY <2>4, <2>5 DEF AtMost, Strangers
  <2>8. BucketRef(c) = BucketRef(a)
    BY <2>3 DEF BucketRef, LessBucket
  <2> HIDE DEF Of
  <2> QED
    BY <2>4, <2>5, <2>6, <2>7, <2>8, FindingCovers
       DEF check_gcs, AtMost, Milder, Severities, Strangers
<1>3. CASE f \in LegacyRoles(lo)
  <2> DEFINE Of(b, v) == {Finding("GCS-LEGACY-ROLE", "LOW", BucketRef(v),
                                  x.members, {x.role}) :
                         x \in {y \in v.bindings :
                                    y.role \in BUCKET_LEGACY_ROLES /\ y.members # {}}}
  <2>1. \A b : LegacyRoles(b) = UNION {Of(b, v) : v \in Buckets(b)}
    BY DEF LegacyRoles
  <2>2. PICK a \in Buckets(lo) : f \in Of(lo, a)
    <3> HIDE DEF Of
    <3> QED BY <1>3, <2>1
  <2>3. PICK c \in Buckets(hi) : LessBucket(a, c)
    BY DEF LessBook
  <2>4. PICK x \in a.bindings :
          /\ x.role \in BUCKET_LEGACY_ROLES /\ x.members # {}
          /\ f = Finding("GCS-LEGACY-ROLE", "LOW", BucketRef(a),
                         x.members, {x.role})
    BY <2>2
  <2>5. PICK y \in c.bindings : AtMost(x, y)
    BY <2>3 DEF LessBucket, LessBindings
  <2>6. \A g : g \in Of(hi, c) => g \in LegacyRoles(hi)
    <3> HIDE DEF Of
    <3> QED BY <2>1
  <2>7. Finding("GCS-LEGACY-ROLE", "LOW", BucketRef(c),
                y.members, {y.role}) \in Of(hi, c)
    BY <2>4, <2>5 DEF AtMost
  <2>8. BucketRef(c) = BucketRef(a)
    BY <2>3 DEF BucketRef, LessBucket
  <2> HIDE DEF Of
  <2> QED
    BY <2>4, <2>5, <2>6, <2>7, <2>8, FindingCovers DEF check_gcs, AtMost, Milder, Severities
<1>4. CASE f \in ObjectAcls(lo)
  <2>1. PICK a \in Buckets(lo) :
          /\ ~a.uniform_access
          /\ f = Finding("GCS-UBLA-DISABLED", "MEDIUM", BucketRef(a), {},
                         {})
    BY <1>4 DEF ObjectAcls
  <2>2. PICK c \in Buckets(hi) : LessBucket(a, c)
    BY DEF LessBook
  <2>3. Finding("GCS-UBLA-DISABLED", "MEDIUM", BucketRef(c), {},
                {}) \in ObjectAcls(hi)
    BY <2>1, <2>2 DEF ObjectAcls, LessBucket
  <2>4. BucketRef(c) = BucketRef(a)
    BY <2>2 DEF BucketRef, LessBucket
  <2> QED
    BY <2>1, <2>2, <2>3, <2>4, FindingCovers DEF check_gcs, LessBucket, Milder, Severities
<1>5. CASE f \in PublicAccessPossible(lo)
  <2>1. PICK a \in Buckets(lo) :
          /\ ~a.access_prevention
          /\ f = Finding("GCS-PAP-NOT-ENFORCED", "MEDIUM", BucketRef(a), {},
                         {})
    BY <1>5 DEF PublicAccessPossible
  <2>2. PICK c \in Buckets(hi) : LessBucket(a, c)
    BY DEF LessBook
  <2>3. Finding("GCS-PAP-NOT-ENFORCED", "MEDIUM", BucketRef(c), {},
                {}) \in PublicAccessPossible(hi)
    BY <2>1, <2>2 DEF PublicAccessPossible, LessBucket
  <2>4. BucketRef(c) = BucketRef(a)
    BY <2>2 DEF BucketRef, LessBucket
  <2> QED
    BY <2>1, <2>2, <2>3, <2>4, FindingCovers DEF check_gcs, LessBucket, Milder, Severities
<1> QED
  BY <1>1, <1>2, <1>3, <1>4, <1>5 DEF check_gcs

\* The checks of BigQuery, whose findings stay as they are.
LEMMA DatasetsGrow ==
    ASSUME NEW lo, NEW hi, LessBook(lo, hi), NEW f \in check_bigquery(lo)
    PROVE  \E g \in check_bigquery(hi) : Covers(g, f)
<1>1. CASE f \in PublicDatasets(lo)
  <2> DEFINE Of(b, v) == {Finding("BQ-PUBLIC-DATASET", "CRITICAL",
                                  DatasetRef(v), {x.entity_id}, {x.role}) :
                         x \in {y \in Entries(v, "specialGroup") : y.entity_id \in Public}}
  <2>1. \A b : PublicDatasets(b) = UNION {Of(b, v) : v \in Datasets(b)}
    BY DEF PublicDatasets
  <2>2. PICK a \in Datasets(lo) : f \in Of(lo, a)
    <3> HIDE DEF Of
    <3> QED BY <1>1, <2>1
  <2>3. PICK c \in Datasets(hi) : LessDataset(a, c)
    BY DEF LessBook
  <2>4. \A g : g \in Of(hi, c) => g \in PublicDatasets(hi)
    <3> HIDE DEF Of
    <3> QED BY <2>1
  <2>5. f \in Of(hi, c)
    BY <2>2, <2>3 DEF Entries, DatasetRef, LessDataset
  <2> QED
    BY <2>4, <2>5, CoversItself, DatasetsFixed DEF check_bigquery, Fixed
<1>2. CASE f \in EditorsOwn(lo)
  <2> DEFINE Of(b, v) == {Finding("BQ-PROJECT-EDITORS-OWNER", "MEDIUM",
                                  DatasetRef(v), {x.entity_id}, {x.role}) :
                         x \in {y \in Entries(v, "specialGroup") :
                                    y.entity_id = "projectEditors" /\ y.role = "OWNER"}}
  <2>1. \A b : EditorsOwn(b) = UNION {Of(b, v) : v \in Datasets(b)}
    BY DEF EditorsOwn
  <2>2. PICK a \in Datasets(lo) : f \in Of(lo, a)
    <3> HIDE DEF Of
    <3> QED BY <1>2, <2>1
  <2>3. PICK c \in Datasets(hi) : LessDataset(a, c)
    BY DEF LessBook
  <2>4. \A g : g \in Of(hi, c) => g \in EditorsOwn(hi)
    <3> HIDE DEF Of
    <3> QED BY <2>1
  <2>5. f \in Of(hi, c)
    BY <2>2, <2>3 DEF Entries, DatasetRef, LessDataset
  <2> QED
    BY <2>4, <2>5, CoversItself, DatasetsFixed DEF check_bigquery, Fixed
<1>3. CASE f \in DomainWide(lo)
  <2> DEFINE Of(b, v) == {Finding("BQ-DOMAIN-WIDE-ACCESS",
                                  IF UntrustedDomain(x.entity_id) THEN "HIGH" ELSE "MEDIUM",
                                  DatasetRef(v), {x.entity_id}, {x.role}) :
                         x \in Entries(v, "domain")}
  <2>1. \A b : DomainWide(b) = UNION {Of(b, v) : v \in Datasets(b)}
    BY DEF DomainWide
  <2>2. PICK a \in Datasets(lo) : f \in Of(lo, a)
    <3> HIDE DEF Of
    <3> QED BY <1>3, <2>1
  <2>3. PICK c \in Datasets(hi) : LessDataset(a, c)
    BY DEF LessBook
  <2>4. \A g : g \in Of(hi, c) => g \in DomainWide(hi)
    <3> HIDE DEF Of
    <3> QED BY <2>1
  <2>5. f \in Of(hi, c)
    BY <2>2, <2>3 DEF Entries, DatasetRef, LessDataset
  <2> QED
    BY <2>4, <2>5, CoversItself, DatasetsFixed DEF check_bigquery, Fixed
<1>4. CASE f \in ExternalUsers(lo)
  <2> DEFINE Of(b, v) == {Finding("BQ-EXTERNAL-USER-ACCESS", "HIGH",
                                  DatasetRef(v), {x.entity_id}, {x.role}) :
                         x \in {y \in Entries(v, "userByEmail") : _is_untrusted(y.entity_id)}}
  <2>1. \A b : ExternalUsers(b) = UNION {Of(b, v) : v \in Datasets(b)}
    BY DEF ExternalUsers
  <2>2. PICK a \in Datasets(lo) : f \in Of(lo, a)
    <3> HIDE DEF Of
    <3> QED BY <1>4, <2>1
  <2>3. PICK c \in Datasets(hi) : LessDataset(a, c)
    BY DEF LessBook
  <2>4. \A g : g \in Of(hi, c) => g \in ExternalUsers(hi)
    <3> HIDE DEF Of
    <3> QED BY <2>1
  <2>5. f \in Of(hi, c)
    BY <2>2, <2>3 DEF Entries, DatasetRef, LessDataset
  <2> QED
    BY <2>4, <2>5, CoversItself, DatasetsFixed DEF check_bigquery, Fixed
<1> QED
  BY <1>1, <1>2, <1>3, <1>4 DEF check_bigquery

\* Whatever the lesser book makes the rules raise, the other covers.
LEMMA RaisedGrows ==
    ASSUME NEW lo, NEW hi, LessBook(lo, hi), NEW f \in Raised(lo)
    PROVE  \E g \in Raised(hi) : Covers(g, f)
<1>1. DOMAIN lo \subseteq DOMAIN hi
  BY DEF LessBook
<1>2. CASE "project_iam" \in DOMAIN lo /\ f \in check_project_iam(lo)
  BY <1>1, <1>2, ProjectGrows DEF Raised
<1>3. CASE "project_iam" \in DOMAIN lo /\ f \in check_attack_paths(lo)
  BY <1>1, <1>3, PathsGrow DEF Raised
<1>4. CASE "service_accounts" \in DOMAIN lo /\ f \in check_service_accounts(lo)
  BY <1>1, <1>4, AccountsGrow DEF Raised
<1>5. CASE "gce_inventory" \in DOMAIN lo /\ f \in check_gce(lo)
  BY <1>1, <1>5, MachinesGrow DEF Raised
<1>6. CASE "gcs_inventory" \in DOMAIN lo /\ f \in check_gcs(lo)
  BY <1>1, <1>6, BucketsGrow DEF Raised
<1>7. CASE "bigquery_inventory" \in DOMAIN lo /\ f \in check_bigquery(lo)
  BY <1>1, <1>7, DatasetsGrow DEF Raised
<1> QED
  BY <1>2, <1>3, <1>4, <1>5, <1>6, <1>7 DEF Raised

-----------------------------------------------------------------------------
(***************************************************************************)
(* What follows for books that are one below the other.                    *)
(***************************************************************************)
\* The analysis of the lesser book is within that of the greater.
LEMMA LesserWithin ==
    ASSUME NEW lo, NEW hi, LessBook(lo, hi), MachinesDistinct(lo), MachinesDistinct(hi)
    PROVE  Within(analyze(lo), analyze(hi))
<1>1. \A f \in Raised(lo) : \E g \in Raised(hi) : Covers(g, f)
  BY RaisedGrows
<1> QED
  BY <1>1, RepeatsAreEqual DEF Within, Covers

\* Every order of parts is reflexive.
LEMMA BindingsReflexive ==
    ASSUME NEW X
    PROVE  LessBindings(X, X)
BY DEF LessBindings, AtMost

\* An instance has no more to find fault with than itself.
LEMMA MachineReflexive ==
    ASSUME NEW i
    PROVE  LessMachine(i, i)
<1>1. \A x \in i.attached : x \in i.attached \/ (x.email = NewAccount /\ ~x.is_default)
  OBVIOUS
<1> QED
  BY <1>1 DEF LessMachine

\* A book without some of its sources is below it.
LEMMA WithoutIsLess ==
    ASSUME NEW b, NEW R, Ungranted(b)
    PROVE  LessBook(Without(b, R), b)
<1> DEFINE lo == Without(b, R)
<1>1. DOMAIN lo = DOMAIN b \ R /\ \A s \in DOMAIN lo : lo[s] = b[s]
  BY DEF Without
<1> HIDE DEF lo
<1>2. _bindings(lo) = _bindings(b) \/ _bindings(lo) = {}
  BY <1>1 DEF _bindings
<1>3. Ungranted(lo) /\ LessBindings(_bindings(lo), _bindings(b))
  BY <1>2, BindingsReflexive DEF Ungranted, LessBindings
<1>4. "project_iam" \in DOMAIN lo => (Audited(b) => Audited(lo))
  BY <1>1 DEF Audited
<1>5. \A a \in Accounts(lo) : a \in Accounts(b) /\ LessAccount(a, a)
  BY <1>1, BindingsReflexive DEF Accounts, LessAccount
<1>6. "gce_inventory" \in DOMAIN lo => (OsLogin(b) => OsLogin(lo))
  BY <1>1 DEF OsLogin
<1>7. \A i \in Machines(lo) : i \in Machines(b) /\ LessMachine(i, i)
  BY <1>1, MachineReflexive DEF Machines
<1>8. \A k \in Buckets(lo) : k \in Buckets(b) /\ LessBucket(k, k)
  BY <1>1, BindingsReflexive DEF Buckets, LessBucket
<1>9. \A d \in Datasets(lo) : d \in Datasets(b) /\ LessDataset(d, d)
  BY <1>1 DEF Datasets, LessDataset
<1> QED
  BY <1>1, <1>3, <1>4, <1>5, <1>6, <1>7, <1>8, <1>9 DEF LessBook, lo

\* Nor does it get a second instance of one name.
LEMMA WithoutDistinct ==
    ASSUME NEW b, NEW R, MachinesDistinct(b)
    PROVE  MachinesDistinct(Without(b, R))
BY DEF MachinesDistinct, Machines, Without

-----------------------------------------------------------------------------
(***************************************************************************)
(* Collecting: of the sources in R the book gets what the cloud holds, the *)
(* others stay.                                                            *)
(***************************************************************************)

\* What the cloud c says now of the sources in D.
Fresh(c, D) == [s \in D |-> c[s]]

Recollected(b, c, R) == [s \in DOMAIN b \cup R |-> IF s \in R THEN c[s] ELSE b[s]]

\* Reading a source again leaves every other as it was.
LEMMA Reread ==
    ASSUME NEW b, NEW c, NEW R
    PROVE  /\ DOMAIN Recollected(b, c, R) = DOMAIN b \cup R
           /\ \A s \in DOMAIN b \cup R :
                Recollected(b, c, R)[s] = IF s \in R THEN Fresh(c, R)[s] ELSE b[s]
BY DEF Recollected, Fresh

\* What the cloud says of a source.
LEMMA FreshReads ==
    ASSUME NEW c, NEW D
    PROVE  /\ DOMAIN Fresh(c, D) = D
           /\ \A s \in D : Fresh(c, D)[s] = c[s]
BY DEF Fresh

\* Reading sources again, when the cloud has not got worse since, takes the
\* book down.
LEMMA RecollectedIsLess ==
    ASSUME NEW b, NEW c, NEW R, R \subseteq DOMAIN b, Ungranted(b), LessBook(Fresh(c, DOMAIN b), b)
    PROVE  LessBook(Recollected(b, c, R), b)
<1> DEFINE lo == Recollected(b, c, R)
           now == Fresh(c, DOMAIN b)
<1>1. DOMAIN lo = DOMAIN b /\ \A s \in DOMAIN b : lo[s] = IF s \in R THEN c[s] ELSE b[s]
  BY DEF Recollected
<1>2. DOMAIN now = DOMAIN b /\ \A s \in DOMAIN b : now[s] = c[s]
  BY FreshReads
<1> HIDE DEF lo, now
<1>3. /\ _bindings(lo) = _bindings(now) \/ _bindings(lo) = _bindings(b)
      /\ Audited(lo) = Audited(now) \/ Audited(lo) = Audited(b)
  BY <1>1, <1>2 DEF _bindings, Audited
<1>4. /\ OsLogin(lo) = OsLogin(now) \/ OsLogin(lo) = OsLogin(b)
      /\ Machines(lo) = Machines(now) \/ Machines(lo) = Machines(b)
  BY <1>1, <1>2 DEF OsLogin, Machines
<1>5. /\ Accounts(lo) = Accounts(now) \/ Accounts(lo) = Accounts(b)
      /\ Buckets(lo) = Buckets(now) \/ Buckets(lo) = Buckets(b)
      /\ Datasets(lo) = Datasets(now) \/ Datasets(lo) = Datasets(b)
  BY <1>1, <1>2 DEF Accounts, Buckets, Datasets
<1>6. LessBook(now, b)
  BY DEF now
<1>7. Ungranted(lo) /\ LessBindings(_bindings(lo), _bindings(b))
  BY <1>3, <1>6, BindingsReflexive DEF LessBook, Ungranted
<1>8. \A a \in Accounts(lo) : \E a2 \in Accounts(b) : LessAccount(a, a2)
  <2>1. \A a : LessAccount(a, a)
    BY BindingsReflexive DEF LessAccount
  <2> QED
    BY <1>5, <1>6, <2>1 DEF LessBook
<1>9. \A i \in Machines(lo) : \E j \in Machines(b) : LessMachine(i, j)
  BY <1>4, <1>6, MachineReflexive DEF LessBook
<1>10. \A k \in Buckets(lo) : \E l \in Buckets(b) : LessBucket(k, l)
  <2>1. \A k : LessBucket(k, k)
    BY BindingsReflexive DEF LessBucket
  <2> QED
    BY <1>5, <1>6, <2>1 DEF LessBook
<1>11. \A d \in Datasets(lo) : \E e \in Datasets(b) : LessDataset(d, e)
  <2>1. \A d : LessDataset(d, d)
    BY DEF LessDataset
  <2> QED
    BY <1>5, <1>6, <2>1 DEF LessBook
<1>12. /\ "project_iam" \in DOMAIN lo => (Audited(b) => Audited(lo))
       /\ "gce_inventory" \in DOMAIN lo => (OsLogin(b) => OsLogin(lo))
  BY <1>1, <1>2, <1>3, <1>4, <1>6 DEF LessBook
<1> QED
  BY <1>1, <1>7, <1>8, <1>9, <1>10, <1>11, <1>12 DEF LessBook, lo

-----------------------------------------------------------------------------
(***************************************************************************)
(* The commands of the plan.                                               *)
(***************************************************************************)
\* Taking members out of bindings goes down, conditional bindings stay.
LEMMA UnbindingIsLess ==
    ASSUME NEW X, NEW Y, NEW at, NEW C, LessBindings(X, Y)
    PROVE  LessBindings(Unbinding(X, at, C), Y)
<1>1. ASSUME NEW x \in Unbinding(X, at, C)
      PROVE  \E y \in X : AtMost(x, y)
  BY <1>1 DEF Unbinding, AtMost
<1> QED
  BY <1>1 DEF LessBindings, AtMost

\* Nothing but its rule changes who runs an instance.
LEMMA SettingOfRule ==
    ASSUME NEW F, NEW at, NEW rule, Set(at, rule, UNION {remediation_commands(f) : f \in F})
    PROVE  \E f \in F : f.rule = rule /\ f.resource = at
<1>1. PICK f \in F : Command("set", at, "any", rule) \in remediation_commands(f)
  BY DEF Set
<1>2. \A c \in Unbind(f) : c.does = "unbind"
  BY DEF Unbind, Command
<1>3. Command("set", at, "any", rule) = Command("set", f.resource, "any", f.rule)
  BY <1>1, <1>2 DEF remediation_commands, Command
<1> QED
  BY <1>3 DEF Command

\* Only an instance with an account attached is told to replace it.
LEMMA DefaultFullScopeOnly ==
    ASSUME NEW b, NEW f \in Raised(b), f.rule = "GCE-DEFAULT-SA-FULL-SCOPE"
    PROVE  \E i \in Machines(b) : f.resource = InstanceRef(i) /\ i.attached # {}
<1>1. f \notin check_project_iam(b)
  BY DEF check_project_iam, PublicBindings, BasicRoles, UnconditionalAdmins, BroadImpersonation,
         ExternalPrincipals, QuotaControl, NoAuditLogs, Finding
<1>2. f \notin check_attack_paths(b)
  BY DEF check_attack_paths, ActAsEscalation, ImpersonationToData, Finding
<1>3. f \notin check_service_accounts(b)
  BY DEF check_service_accounts, UserManagedKeys, DisabledWithRoles, PublicImpersonation,
         ExternalImpersonation, Finding
<1>4. f \notin check_gcs(b)
  BY DEF check_gcs, PublicBuckets, ExternalWriters, LegacyRoles, ObjectAcls,
         PublicAccessPossible, Finding
<1>5. f \notin check_bigquery(b)
  BY DEF check_bigquery, PublicDatasets, EditorsOwn, DomainWide, ExternalUsers, Finding
<1>6. f \in check_gce(b)
  BY <1>1, <1>2, <1>3, <1>4, <1>5 DEF Raised
<1>7. f \in DefaultFullScope(b)
  BY <1>6 DEF check_gce, OsLoginDisabled, PrivilegedAttached, ExternalIp, ProjectSshKeys,
              SerialPort, GpuReview, Finding
<1> QED
  BY <1>7 DEF DefaultFullScope, Finding

\* A project whose machines have different names, and that grants the account
\* of the commands nothing.
Sound(c) ==
    /\ \A i, j \in c["gce_inventory"].instances : i.name = j.name => i = j
    /\ \A x \in c["project_iam"].bindings : NewAccount \notin x.members

\* What the commands make of each inventory.
LEMMA ChangedParts ==
    ASSUME NEW c, NEW C
    PROVE  /\ Changed(c, C)["project_iam"].bindings =
                Unbinding(c["project_iam"].bindings, _project_ref, C)
           /\ Changed(c, C)["project_iam"].audit_configs = c["project_iam"].audit_configs
           /\ Changed(c, C)["service_accounts"] =
                {ChangedAccount(a, C) : a \in c["service_accounts"]}
           /\ c["gce_inventory"].oslogin => Changed(c, C)["gce_inventory"].oslogin
           /\ Changed(c, C)["gce_inventory"].instances =
                {ChangedMachine(i, C) : i \in c["gce_inventory"].instances}
           /\ Changed(c, C)["gcs_inventory"] = {ChangedBucket(k, C) : k \in c["gcs_inventory"]}
           /\ Changed(c, C)["bigquery_inventory"] = c["bigquery_inventory"]
BY DEF Changed

\* Commands of the plan take the cloud, if anything, further below the book
\* the plan was made from.
LEMMA ChangedIsLess ==
    ASSUME NEW b, NEW c, NEW F, F \subseteq Raised(b), MachinesDistinct(b), Ungranted(b),
           LessBook(Fresh(c, DOMAIN b), b)
    PROVE  LessBook(Fresh(Changed(c, UNION {remediation_commands(f) : f \in F}), DOMAIN b), b)
<1> DEFINE C == UNION {remediation_commands(f) : f \in F}
           now == Fresh(c, DOMAIN b)
           lo == Fresh(Changed(c, C), DOMAIN b)
<1>1. DOMAIN now = DOMAIN b /\ \A s \in DOMAIN b : now[s] = c[s]
  BY FreshReads
<1>2. DOMAIN lo = DOMAIN b /\ \A s \in DOMAIN b : lo[s] = Changed(c, C)[s]
  BY FreshReads
<1>3. LessBook(now, b)
  OBVIOUS
<1>4. ASSUME NEW i, Set(InstanceRef(i), "GCE-DEFAULT-SA-FULL-SCOPE", C)
      PROVE  \A j \in Machines(b) : j.name = i.name => j.attached # {}
  <2>1. PICK f \in F : f.rule = "GCE-DEFAULT-SA-FULL-SCOPE" /\ f.resource = InstanceRef(i)
    BY <1>4, SettingOfRule
  <2>2. PICK j \in Machines(b) : InstanceRef(i) = InstanceRef(j) /\ j.attached # {}
    BY <2>1, DefaultFullScopeOnly
  <2> QED
    BY <2>2 DEF InstanceRef, MachinesDistinct
<1> HIDE DEF now, lo, C
<1>5. /\ "project_iam" \in DOMAIN b =>
           /\ _bindings(now) = c["project_iam"].bindings
           /\ _bindings(lo) = Unbinding(c["project_iam"].bindings, _project_ref, C)
           /\ Audited(now) => Audited(lo)
      /\ "project_iam" \notin DOMAIN b => _bindings(lo) = {}
  BY <1>1, <1>2, ChangedParts DEF _bindings, Audited
<1>6. Ungranted(lo) /\ LessBindings(_bindings(lo), _bindings(b))
  <2>1. CASE "project_iam" \in DOMAIN b
    <3>1. LessBindings(_bindings(lo), _bindings(now))
      BY <1>5, <2>1, UnbindingIsLess, BindingsReflexive
    <3>2. LessBindings(_bindings(now), _bindings(b)) /\ Ungranted(now)
      BY <1>3 DEF LessBook
    <3> QED
      BY <3>1, <3>2 DEF LessBindings, AtMost, Ungranted
  <2>2. CASE "project_iam" \notin DOMAIN b
    BY <1>5, <2>2 DEF Ungranted, LessBindings
  <2> QED
    BY <2>1, <2>2
<1>7. "project_iam" \in DOMAIN lo => (Audited(b) => Audited(lo))
  BY <1>1, <1>2, <1>3, <1>5 DEF LessBook
<1>8. \A a \in Accounts(lo) : \E d \in Accounts(b) : LessAccount(a, d)
  <2>1. ASSUME NEW a \in Accounts(lo)
        PROVE  \E d \in Accounts(b) : LessAccount(a, d)
    <3>1. PICK a0 \in Accounts(now) : a = ChangedAccount(a0, C)
      BY <1>1, <1>2, ChangedParts DEF Accounts
    <3>2. PICK d \in Accounts(b) : LessAccount(a0, d)
      BY <1>3 DEF LessBook
    <3>3. LessBindings(a.bindings, d.bindings)
      BY <3>1, <3>2, UnbindingIsLess DEF LessAccount, ChangedAccount
    <3>4. a.email = d.email /\ (a.keys => d.keys) /\ (a.disabled => d.disabled)
      BY <3>1, <3>2 DEF LessAccount, ChangedAccount
    <3> QED
      BY <3>3, <3>4 DEF LessAccount
  <2> QED
    BY <2>1
<1>9. "gce_inventory" \in DOMAIN lo => (OsLogin(b) => OsLogin(lo))
  BY <1>1, <1>2, <1>3, ChangedParts DEF LessBook, OsLogin
<1>10. \A i \in Machines(lo) : \E j \in Machines(b) : LessMachine(i, j)
  <2>1. ASSUME NEW i \in Machines(lo)
        PROVE  \E j \in Machines(b) : LessMachine(i, j)
    <3>1. PICK i0 \in Machines(now) : i = ChangedMachine(i0, C)
      BY <1>1, <1>2, ChangedParts DEF Machines
    <3>2. PICK j \in Machines(b) : LessMachine(i0, j)
      BY <1>3 DEF LessBook
    <3>3. /\ i.name = i0.name
          /\ i.attached = ReplacedAccounts(i0, C)
          /\ i.external_ips \subseteq i0.external_ips
      BY <3>1 DEF ChangedMachine, LeftAddresses
    <3>4. CASE Set(InstanceRef(i0), "GCE-DEFAULT-SA-FULL-SCOPE", C) /\ ~i0.running
      <4>1. i.attached = {[email |-> NewAccount, is_default |-> FALSE, broad_scope |-> FALSE]}
        BY <3>3, <3>4 DEF ReplacedAccounts
      <4>2. j.attached # {}
        BY <1>4, <3>2, <3>4 DEF LessMachine
      <4>3. \A x \in i.attached : x.email = NewAccount /\ ~x.is_default
        BY <4>1
      <4> QED
        BY <3>1, <3>2, <3>3, <4>2, <4>3 DEF LessMachine, ChangedMachine
    <3>5. CASE ~(Set(InstanceRef(i0), "GCE-DEFAULT-SA-FULL-SCOPE", C) /\ ~i0.running)
      <4>1. i.attached = i0.attached
        BY <3>3, <3>5 DEF ReplacedAccounts
      <4> QED
        BY <3>1, <3>2, <3>3, <4>1 DEF LessMachine, ChangedMachine
    <3> QED
      BY <3>4, <3>5
  <2> QED
    BY <2>1
<1>11. \A k \in Buckets(lo) : \E l \in Buckets(b) : LessBucket(k, l)
  <2>1. ASSUME NEW k \in Buckets(lo)
        PROVE  \E l \in Buckets(b) : LessBucket(k, l)
    <3>1. PICK k0 \in Buckets(now) : k = ChangedBucket(k0, C)
      BY <1>1, <1>2, ChangedParts DEF Buckets
    <3>2. PICK l \in Buckets(b) : LessBucket(k0, l)
      BY <1>3 DEF LessBook
    <3>3. LessBindings(k.bindings, l.bindings)
      BY <3>1, <3>2, UnbindingIsLess DEF LessBucket, ChangedBucket
    <3> QED
      BY <3>1, <3>2, <3>3 DEF LessBucket, ChangedBucket
  <2> QED
    BY <2>1
<1>12. \A d \in Datasets(lo) : \E e \in Datasets(b) : LessDataset(d, e)
  <2>1. Datasets(lo) = Datasets(now)
    BY <1>1, <1>2, ChangedParts DEF Datasets
  <2> QED
    BY <1>3, <2>1 DEF LessBook
<1>13. LessBook(lo, b)
  BY <1>2, <1>6, <1>7, <1>8, <1>9, <1>10, <1>11, <1>12 DEF LessBook
<1> QED
  BY <1>13 DEF lo, C

\* The commands leave the project sound.
LEMMA ChangedIsSound ==
    ASSUME NEW c, NEW C, Sound(c)
    PROVE  Sound(Changed(c, C))
<1>1. \A i, j \in Changed(c, C)["gce_inventory"].instances : i.name = j.name => i = j
  <2>1. Changed(c, C)["gce_inventory"].instances =
          {ChangedMachine(i, C) : i \in c["gce_inventory"].instances}
    BY ChangedParts
  <2>2. \A i : ChangedMachine(i, C).name = i.name
    BY DEF ChangedMachine
  <2> QED
    BY <2>1, <2>2 DEF Sound
<1>2. \A x \in Changed(c, C)["project_iam"].bindings : NewAccount \notin x.members
  <2>1. Changed(c, C)["project_iam"].bindings =
          Unbinding(c["project_iam"].bindings, _project_ref, C)
    BY ChangedParts
  <2>2. \A x \in Unbinding(c["project_iam"].bindings, _project_ref, C) :
          \E y \in c["project_iam"].bindings : AtMost(x, y)
    BY UnbindingIsLess, BindingsReflexive DEF LessBindings
  <2> QED
    BY <2>1, <2>2 DEF Sound, AtMost
<1> QED
  BY <1>1, <1>2 DEF Sound

-----------------------------------------------------------------------------
(***************************************************************************)
(* The inductive invariant.  The cloud is, source by source, below the     *)
(* book: what was read once can only have been corrected since.  That is   *)
(* why reading it again finds nothing new.                                 *)
(***************************************************************************)
Behind == LessBook(Fresh(cloud, DOMAIN book), book)

Published == phase = "reporting" => findings = analyze(book)

Remembered ==
    \A h \in former :
      /\ phase = "collecting" => h.findings = analyze(book) /\ h.sources = DOMAIN book
      /\ phase # "collecting" /\ DOMAIN book = h.sources => Within(analyze(book), h.findings)

IInv ==
    /\ phase \in {"collecting", "analysing", "reporting"}
    /\ DOMAIN book \subseteq _INVENTORY_KEYS
    /\ Sound(cloud)
    /\ MachinesDistinct(book)
    /\ Ungranted(book)
    /\ Behind
    /\ Published
    /\ Remembered

\* Nothing has been read at first.
LEMMA IInvInit == Init => IInv
<1> SUFFICES ASSUME Init PROVE IInv
  OBVIOUS
<1>1. book = [s \in {} |-> {}] /\ DOMAIN book = {}
  BY DEF Init
<1>2. Sound(cloud)
  BY CloudsAssumption DEF Init, Sound
<1>3. MachinesDistinct(book) /\ Ungranted(book)
  BY <1>1 DEF MachinesDistinct, Machines, Ungranted, _bindings
<1>4. Behind
  <2>1. DOMAIN Fresh(cloud, DOMAIN book) = {}
    BY <1>1, FreshReads
  <2> QED
    BY <1>1, <2>1 DEF Behind, LessBook, Ungranted, LessBindings, _bindings, Accounts, Machines,
                      Buckets, Datasets
<1> QED
  BY <1>1, <1>2, <1>3, <1>4 DEF Init, IInv, Published, Remembered

\* Collecting reads the sources of R again.  If they were all read before, the
\* book goes down, and what was found then covers what is found now.
LEMMA CollectStep ==
    ASSUME NEW R \in Readable, IInv, Collect(R)
    PROVE  IInv'
<1>1. /\ phase = "collecting" /\ phase' = "analysing"
      /\ book' = Recollected(book, cloud, R)
      /\ cloud' = cloud /\ former' = former
  BY DEF Collect, Recollected
<1>2. /\ DOMAIN book' = DOMAIN book \cup R
      /\ \A s \in DOMAIN book' : book'[s] = IF s \in R THEN cloud[s] ELSE book[s]
  BY <1>1 DEF Recollected
<1>3. DOMAIN book' \subseteq _INVENTORY_KEYS
  BY <1>2, ReadableAssumption DEF IInv
<1>4. MachinesDistinct(book')
  <2>1. \/ Machines(book') = cloud["gce_inventory"].instances
        \/ Machines(book') = Machines(book)
    BY <1>2 DEF Machines
  <2> QED
    BY <2>1 DEF MachinesDistinct, IInv, Sound
<1>5. Ungranted(book')
  <2>1. \/ _bindings(book') = cloud["project_iam"].bindings
        \/ _bindings(book') = _bindings(book)
    BY <1>2 DEF _bindings
  <2> QED
    BY <2>1 DEF Ungranted, IInv, Sound
<1>6. Behind'
  <2> DEFINE now == Fresh(cloud, DOMAIN book')
             old == Fresh(cloud, DOMAIN book)
  <2>1. /\ DOMAIN now = DOMAIN book' /\ \A s \in DOMAIN book' : now[s] = cloud[s]
        /\ DOMAIN old = DOMAIN book /\ \A s \in DOMAIN book : old[s] = cloud[s]
    BY FreshReads
  <2> HIDE DEF now, old
  <2>2. LessBook(old, book)
    BY DEF IInv, Behind, old
  <2>3. /\ _bindings(book') = _bindings(now)
           \/ (_bindings(now) = _bindings(old) /\ _bindings(book') = _bindings(book))
        /\ Accounts(book') = Accounts(now)
           \/ (Accounts(now) = Accounts(old) /\ Accounts(book') = Accounts(book))
        /\ Machines(book') = Machines(now)
           \/ (Machines(now) = Machines(old) /\ Machines(book') = Machines(book))
    BY <1>2, <2>1 DEF _bindings, Accounts, Machines
  <2>4. /\ Buckets(book') = Buckets(now)
           \/ (Buckets(now) = Buckets(old) /\ Buckets(book') = Buckets(book))
        /\ Datasets(book') = Datasets(now)
           \/ (Datasets(now) = Datasets(old) /\ Datasets(book') = Datasets(book))
    BY <1>2, <2>1 DEF Buckets, Datasets
  <2>5. Ungranted(now) /\ LessBindings(_bindings(now), _bindings(book'))
    <3>1. CASE _bindings(book') = _bindings(now)
      BY <1>5, <3>1, BindingsReflexive DEF Ungranted
    <3>2. CASE _bindings(now) = _bindings(old) /\ _bindings(book') = _bindings(book)
      BY <2>2, <3>2 DEF LessBook, Ungranted
    <3> QED
      BY <2>3, <3>1, <3>2
  <2>6. /\ "project_iam" \in DOMAIN now => (Audited(book') => Audited(now))
        /\ "gce_inventory" \in DOMAIN now => (OsLogin(book') => OsLogin(now))
    BY <1>2, <2>1, <2>2 DEF LessBook, Audited, OsLogin
  <2>7. \A a \in Accounts(now) : \E d \in Accounts(book') : LessAccount(a, d)
    <3>1. \A a : LessAccount(a, a)
      BY BindingsReflexive DEF LessAccount
    <3> QED
      BY <2>2, <2>3, <3>1 DEF LessBook
  <2>8. \A i \in Machines(now) : \E j \in Machines(book') : LessMachine(i, j)
    BY <2>2, <2>3, MachineReflexive DEF LessBook
  <2>9. \A k \in Buckets(now) : \E l \in Buckets(book') : LessBucket(k, l)
    <3>1. \A k : LessBucket(k, k)
      BY BindingsReflexive DEF LessBucket
    <3> QED
      BY <2>2, <2>4, <3>1 DEF LessBook
  <2>10. \A d \in Datasets(now) : \E e \in Datasets(book') : LessDataset(d, e)
    <3>1. \A d : LessDataset(d, d)
      BY DEF LessDataset
    <3> QED
      BY <2>2, <2>4, <3>1 DEF LessBook
  <2>11. LessBook(now, book')
    BY <2>1, <2>5, <2>6, <2>7, <2>8, <2>9, <2>10 DEF LessBook
  <2> QED
    BY <1>1, <2>11 DEF Behind, now
<1>7. Remembered'
  <2>1. SUFFICES ASSUME NEW h \in former, DOMAIN book' = h.sources
                 PROVE  Within(analyze(book'), h.findings)
    BY <1>1 DEF Remembered
  <2>2. h.findings = analyze(book) /\ R \subseteq DOMAIN book
    BY <1>1, <1>2, <2>1 DEF IInv, Remembered
  <2>3. LessBook(book', book)
    BY <1>1, <2>2, RecollectedIsLess DEF IInv, Behind
  <2> QED
    BY <1>4, <2>2, <2>3, LesserWithin DEF IInv
<1> QED
  BY <1>1, <1>3, <1>4, <1>5, <1>6, <1>7 DEF IInv, Published

\* The engine publishes what the rules raise.
LEMMA RunEngineStep ==
    ASSUME IInv, RunEngine
    PROVE  IInv'
<1>1. /\ phase = "analysing" /\ phase' = "reporting" /\ findings' = analyze(book)
      /\ book' = book /\ cloud' = cloud /\ former' = former
  BY DEF RunEngine
<1>2. Published' /\ Behind' /\ Sound(cloud') /\ MachinesDistinct(book') /\ Ungranted(book')
  BY <1>1 DEF IInv, Published, Behind
<1>3. Remembered'
  BY <1>1 DEF IInv, Remembered
<1> QED
  BY <1>1, <1>2, <1>3 DEF IInv

\* What the report agent's tools answer is not part of the invariant.
LEMMA ToolStep ==
    ASSUME IInv, UNCHANGED <<phase, cloud, book, findings, former>>
    PROVE  IInv'
BY DEF IInv, Published, Behind, Remembered

\* The commands of the plan take the cloud down.
LEMMA RemediateStep ==
    ASSUME NEW n, IInv, Remediate(n)
    PROVE  IInv'
<1>1. PICK F \in SUBSET findings :
        cloud' = Changed(cloud, UNION {remediation_commands(f) : f \in F})
  BY DEF Remediate
<1>2. /\ phase = "reporting" /\ phase' = "collecting" /\ book' = book
      /\ former' = {[findings |-> findings, sources |-> DOMAIN book]}
  BY DEF Remediate
<1>3. findings = analyze(book) /\ findings = Raised(book)
  BY <1>2, RepeatsAreEqual DEF IInv, Published
<1>4. Behind'
  <2>1. F \subseteq Raised(book)
    BY <1>1, <1>3
  <2>2. LessBook(Fresh(Changed(cloud, UNION {remediation_commands(f) : f \in F}), DOMAIN book),
                 book)
    BY <2>1, ChangedIsLess DEF IInv, Behind
  <2> QED
    BY <1>1, <1>2, <2>2 DEF Behind
<1>5. Sound(cloud')
  BY <1>1, ChangedIsSound DEF IInv
<1>6. Remembered'
  BY <1>2, <1>3 DEF Remembered
<1> QED
  BY <1>2, <1>4, <1>5, <1>6 DEF IInv, Published

\* Every step of the session keeps the invariant.
LEMMA IInvStep == IInv /\ [Next]_vars => IInv'
<1> SUFFICES ASSUME IInv, [Next]_vars PROVE IInv'
  OBVIOUS
<1>1. ASSUME NEW R \in Readable, Collect(R) PROVE IInv'
  BY <1>1, CollectStep
<1>2. CASE RunEngine
  BY <1>2, RunEngineStep
<1>3. ASSUME NEW q \in Queries, ListFindings(q) PROVE IInv'
  BY <1>3, ToolStep DEF ListFindings
<1>4. CASE GetRemediationPlan
  BY <1>4, ToolStep DEF GetRemediationPlan
<1>5. ASSUME NEW n, Remediate(n) PROVE IInv'
  BY <1>5, RemediateStep
<1>6. CASE UNCHANGED vars
  BY <1>6, ToolStep DEF vars
<1> QED
  BY <1>1, <1>2, <1>3, <1>4, <1>5, <1>6 DEF Next

\* So the invariant always holds.
LEMMA AlwaysIInv == Spec => []IInv
BY IInvInit, IInvStep, PTL DEF Spec

-----------------------------------------------------------------------------
(***************************************************************************)
(* What follows from it.                                                   *)
(***************************************************************************)

\* analysis.py:1000-1014: in every reachable state what was dropped as a
\* repeat is still published word for word.
THEOREM AlwaysRepeatsSayNothingNew == Spec => []RepeatsSayNothingNew
<1>1. IInv => RepeatsSayNothingNew
  BY RepeatsAreEqual DEF IInv, Published, RepeatsSayNothingNew
<1> QED
  BY <1>1, AlwaysIInv, PTL

\* analysis.py:985-995: in every reachable state a source that is lost makes
\* no finding appear, name more or get more severe.
THEOREM AlwaysLossNeverInvents == Spec => []LossNeverInvents
<1>1. ASSUME IInv, phase = "reporting", NEW s \in DOMAIN book
      PROVE  Within(analyze(Without(book, {s})), findings)
  BY <1>1, WithoutIsLess, WithoutDistinct, LesserWithin DEF IInv, Published
<1>2. IInv => LossNeverInvents
  BY <1>1 DEF LossNeverInvents
<1> QED
  BY <1>2, AlwaysIInv, PTL

\* Running commands of the plan never makes the next audit of the same sources
\* find what this one had not found.
THEOREM AlwaysNothingNewAfterFix == Spec => []NothingNewAfterFix
<1>1. IInv => NothingNewAfterFix
  BY DEF IInv, Published, Remembered, NothingNewAfterFix
<1> QED
  BY <1>1, AlwaysIInv, PTL

\* analysis.py:43-50, 301-305: an attack path is found in whichever bindings
\* its two grants stand, and its finding names the principal and both roles.
THEOREM AlwaysPathsAcrossBindings == Spec => []PathsAcrossBindings
<1>1. ASSUME IInv, phase = "reporting", NEW x \in _bindings(book), NEW y \in _bindings(book),
             NEW p \in x.members \cap y.members,
             \/ x.role \in ACTAS_ROLES /\ y.role \in COMPUTE_EXECUTION_ROLES
             \/ x.role \in IMPERSONATION_ROLES /\ y.role \in DATA_READ_ROLES
      PROVE  \E f \in findings :
               /\ p \in f.principals
               /\ {x.role, y.role} \subseteq f.roles
               /\ f.severity \in {"CRITICAL", "HIGH"}
  <2>1. findings = Raised(book) /\ check_attack_paths(book) \subseteq Raised(book)
    BY <1>1, RepeatsAreEqual DEF IInv, Published, Raised, _bindings
  <2>2. /\ p \in Granted(book)
        /\ {x.role, y.role} \subseteq _principal_roles(book, p)
    BY DEF Granted, _principal_roles
  <2>3. CASE x.role \in ACTAS_ROLES /\ y.role \in COMPUTE_EXECUTION_ROLES
    <3> DEFINE f == Finding("IAM-PATH-ACTAS-ESCALATION",
                            IF privileged_sas(book) # {} THEN "CRITICAL" ELSE "HIGH",
                            _project_ref, {p},
                            _principal_roles(book, p)
                              \cap (ACTAS_ROLES \cup COMPUTE_EXECUTION_ROLES))
    <3>1. f \in ActAsEscalation(book)
      BY <2>2, <2>3 DEF ActAsEscalation
    <3>2. /\ p \in f.principals
          /\ {x.role, y.role} \subseteq f.roles
          /\ f.severity \in {"CRITICAL", "HIGH"}
      BY <2>2, <2>3 DEF Finding
    <3> QED
      BY <2>1, <3>1, <3>2 DEF check_attack_paths
  <2>4. CASE x.role \in IMPERSONATION_ROLES /\ y.role \in DATA_READ_ROLES
    <3> DEFINE f == Finding("IAM-PATH-IMPERSONATION-TO-DATA", "HIGH", _project_ref, {p},
                            _principal_roles(book, p)
                              \cap (IMPERSONATION_ROLES \cup DATA_READ_ROLES))
    <3>1. f \in ImpersonationToData(book)
      BY <2>2, <2>4 DEF ImpersonationToData
    <3>2. /\ p \in f.principals
          /\ {x.role, y.role} \subseteq f.roles
          /\ f.severity \in {"CRITICAL", "HIGH"}
      BY <2>2, <2>4 DEF Finding
    <3> QED
      BY <2>1, <3>1, <3>2 DEF check_attack_paths
  <2> QED
    BY <1>1, <2>3, <2>4
<1>2. IInv => PathsAcrossBindings
  BY <1>1 DEF PathsAcrossBindings
<1> QED
  BY <1>2, AlwaysIInv, PTL

\* The services, source by source.
LEMMA Described ==
    /\ Describes("project_iam") = {"iam"}
    /\ Describes("service_accounts") = {"serviceAccount"}
    /\ Describes("gce_inventory") = {"gce"}
    /\ Describes("gcs_inventory") = {"gcs"}
    /\ Describes("bigquery_inventory") = {"bigquery"}
BY DEF Describes

\* A check finds fault with the resources of its own source only.
LEMMA ChecksOwnResources ==
    ASSUME NEW b
    PROVE  /\ \A f \in check_project_iam(b) \cup check_attack_paths(b) : f.resource[1] = "iam"
           /\ \A f \in check_service_accounts(b) : f.resource[1] = "serviceAccount"
           /\ \A f \in check_gce(b) : f.resource[1] = "gce"
           /\ \A f \in check_gcs(b) : f.resource[1] = "gcs"
           /\ \A f \in check_bigquery(b) : f.resource[1] = "bigquery"
<1>1. \A f \in check_project_iam(b) : f.resource = _project_ref
  BY DEF check_project_iam, PublicBindings, BasicRoles, UnconditionalAdmins, BroadImpersonation,
         ExternalPrincipals, QuotaControl, NoAuditLogs, Finding
<1>2. \A f \in check_attack_paths(b) : f.resource = _project_ref
  BY DEF check_attack_paths, ActAsEscalation, ImpersonationToData, Finding
<1>3. \A f \in check_service_accounts(b) : \E a : f.resource = AccountRef(a)
  BY DEF check_service_accounts, UserManagedKeys, DisabledWithRoles, PublicImpersonation,
         ExternalImpersonation, Finding
<1>4. \A f \in check_gce(b) : f.resource = <<"gce", Project>> \/ \E i : f.resource = InstanceRef(i)
  BY DEF check_gce, OsLoginDisabled, DefaultFullScope, PrivilegedAttached, ExternalIp,
         ProjectSshKeys, SerialPort, GpuReview, Finding
<1>5. \A f \in check_gcs(b) : \E k : f.resource = BucketRef(k)
  BY DEF check_gcs, PublicBuckets, ExternalWriters, LegacyRoles, ObjectAcls,
         PublicAccessPossible, Finding
<1>6. \A f \in check_bigquery(b) : \E d : f.resource = DatasetRef(d)
  BY DEF check_bigquery, PublicDatasets, EditorsOwn, DomainWide, ExternalUsers, Finding
<1> QED
  BY <1>1, <1>2, <1>3, <1>4, <1>5, <1>6
     DEF _project_ref, AccountRef, InstanceRef, BucketRef, DatasetRef

\* analysis.py:1000: what the engine loses with the source s of the book b.
LEMMA LostWithSource ==
    ASSUME NEW b, NEW s \in DOMAIN b, s \in _INVENTORY_KEYS, NEW f \in Raised(b),
           f \notin Raised(Without(b, {s}))
    PROVE  \/ f.resource[1] \in Describes(s)
           \/ s = "service_accounts" /\ f.rule = "IAM-PATH-ACTAS-ESCALATION"
           \/ /\ s = "project_iam"
              /\ f.rule \in {"IAM-SA-DISABLED-WITH-ROLES", "GCE-DEFAULT-SA-FULL-SCOPE",
                              "GCE-PRIVILEGED-SA-ATTACHED"}
<1> DEFINE lo == Without(b, {s})
<1>1. DOMAIN lo = DOMAIN b \ {s} /\ \A t \in DOMAIN lo : lo[t] = b[t]
  BY DEF Without
<1>2. f \notin Raised(lo)
  OBVIOUS
<1> HIDE DEF lo
<1>3. s # "project_iam" =>
        /\ _bindings(lo) = _bindings(b)
        /\ Audited(lo) <=> Audited(b)
        /\ \A p : _principal_roles(lo, p) = _principal_roles(b, p)
  BY <1>1 DEF _bindings, Audited, _principal_roles
<1>4. s # "service_accounts" => Accounts(lo) = Accounts(b)
  BY <1>1 DEF Accounts
<1>5. s # "gce_inventory" => Machines(lo) = Machines(b) /\ (OsLogin(lo) <=> OsLogin(b))
  BY <1>1 DEF Machines, OsLogin
<1>6. /\ s # "gcs_inventory" => Buckets(lo) = Buckets(b)
      /\ s # "bigquery_inventory" => Datasets(lo) = Datasets(b)
  BY <1>1 DEF Buckets, Datasets
<1>7. CASE "project_iam" \in DOMAIN b /\ f \in check_project_iam(b)
  <2>1. s # "project_iam" => f \in check_project_iam(lo)
    BY <1>3, <1>7 DEF check_project_iam, PublicBindings, BasicRoles, UnconditionalAdmins,
                      BroadImpersonation, ExternalPrincipals, QuotaControl, NoAuditLogs
  <2>2. s = "project_iam"
    BY <1>1, <1>2, <1>7, <2>1 DEF Raised
  <2> QED
    BY <1>7, <2>2, Described, ChecksOwnResources
<1>8. CASE "project_iam" \in DOMAIN b /\ f \in check_attack_paths(b)
  <2>1. CASE s = "project_iam"
    BY <1>8, <2>1, Described, ChecksOwnResources
  <2>2. CASE s # "project_iam"
    <3>1. f \notin check_attack_paths(lo)
      BY <1>1, <1>2, <1>8, <2>2 DEF Raised
    <3>2. Granted(lo) = Granted(b) /\ \A p : _principal_roles(lo, p) = _principal_roles(b, p)
      BY <1>3, <2>2 DEF Granted
    <3>3. f \notin ImpersonationToData(b)
      BY <3>1, <3>2 DEF check_attack_paths, ImpersonationToData
    <3>4. f \in ActAsEscalation(b) /\ f \notin ActAsEscalation(lo)
      BY <1>8, <3>1, <3>3 DEF check_attack_paths
    <3>5. s = "service_accounts"
      <4>1. Accounts(lo) = Accounts(b) => privileged_sas(lo) = privileged_sas(b)
        BY <3>2 DEF privileged_sas
      <4> DEFINE Path(B, p) ==
                   Finding("IAM-PATH-ACTAS-ESCALATION",
                           IF privileged_sas(B) # {} THEN "CRITICAL" ELSE "HIGH", _project_ref, {p},
                           _principal_roles(B, p) \cap (ACTAS_ROLES \cup COMPUTE_EXECUTION_ROLES))
                 Open(B) == {q \in Granted(B) :
                               /\ _principal_roles(B, q) \cap ACTAS_ROLES # {}
                               /\ _principal_roles(B, q) \cap COMPUTE_EXECUTION_ROLES # {}}
      <4>2. \A B : ActAsEscalation(B) = {Path(B, p) : p \in Open(B)}
        BY DEF ActAsEscalation
      <4>3. Open(lo) = Open(b)
        BY <3>2
      <4>4. privileged_sas(lo) = privileged_sas(b) => \A p : Path(lo, p) = Path(b, p)
        BY <3>2
      <4> HIDE DEF Path, Open
      <4>5. privileged_sas(lo) = privileged_sas(b) => f \in ActAsEscalation(lo)
        BY <3>4, <4>2, <4>3, <4>4
      <4> QED
        BY <1>4, <3>4, <4>1, <4>5
    <3> QED
      BY <3>4, <3>5 DEF ActAsEscalation, Finding
  <2> QED
    BY <2>1, <2>2
<1>9. CASE "service_accounts" \in DOMAIN b /\ f \in check_service_accounts(b)
  <2>1. CASE s = "service_accounts"
    BY <1>9, <2>1, Described, ChecksOwnResources
  <2>2. CASE s # "service_accounts"
    <3>1. f \notin check_service_accounts(lo)
      BY <1>1, <1>2, <1>9, <2>2 DEF Raised
    <3>2. Accounts(lo) = Accounts(b)
      BY <1>4, <2>2
    <3>3. f \in DisabledWithRoles(b) /\ f \notin DisabledWithRoles(lo)
      BY <1>9, <3>1, <3>2 DEF check_service_accounts, UserManagedKeys, PublicImpersonation,
                              ExternalImpersonation
    <3>4. s = "project_iam"
      BY <1>3, <3>2, <3>3 DEF DisabledWithRoles
    <3> QED
      BY <3>3, <3>4 DEF DisabledWithRoles, Finding
  <2> QED
    BY <2>1, <2>2
<1>10. CASE "gce_inventory" \in DOMAIN b /\ f \in check_gce(b)
  <2>1. CASE s = "gce_inventory"
    BY <1>10, <2>1, Described, ChecksOwnResources
  <2>2. CASE s # "gce_inventory"
    <3>1. f \notin check_gce(lo)
      BY <1>1, <1>2, <1>10, <2>2 DEF Raised
    <3>2. Machines(lo) = Machines(b) /\ (OsLogin(lo) <=> OsLogin(b))
      BY <1>5, <2>2
    <3>3. \/ f \in DefaultFullScope(b) /\ f \notin DefaultFullScope(lo)
          \/ f \in PrivilegedAttached(b) /\ f \notin PrivilegedAttached(lo)
      BY <1>10, <3>1, <3>2 DEF check_gce, OsLoginDisabled, ExternalIp, ProjectSshKeys, SerialPort,
                               GpuReview
    <3>4. s = "project_iam"
      <4> SUFFICES ASSUME s # "project_iam" PROVE FALSE
        OBVIOUS
      <4>1. \A x : Dangerous(lo, x) = Dangerous(b, x)
        BY <1>3 DEF Dangerous
      <4>2. DefaultFullScope(b) \subseteq DefaultFullScope(lo)
        BY <3>2, <4>1 DEF DefaultFullScope
      <4>3. PrivilegedAttached(b) \subseteq PrivilegedAttached(lo)
        <5> DEFINE Of(B, i) == {Finding("GCE-PRIVILEGED-SA-ATTACHED", "HIGH", InstanceRef(i),
                                        {sa.email}, Dangerous(B, sa)) :
                                  sa \in {x \in i.attached :
                                            ~(x.is_default /\ x.broad_scope)
                                            /\ Dangerous(B, x) # {}}}
        <5>1. \A B : PrivilegedAttached(B) = UNION {Of(B, i) : i \in Machines(B)}
          BY DEF PrivilegedAttached
        <5>2. \A i : Of(b, i) \subseteq Of(lo, i)
          BY <4>1
        <5> HIDE DEF Of
        <5> QED
          BY <3>2, <5>1, <5>2
      <4> QED
        BY <3>3, <4>2, <4>3
    <3> QED
      BY <3>3, <3>4 DEF DefaultFullScope, PrivilegedAttached, Finding
  <2> QED
    BY <2>1, <2>2
<1>11. CASE "gcs_inventory" \in DOMAIN b /\ f \in check_gcs(b)
  <2>1. s # "gcs_inventory" => f \in check_gcs(lo)
    BY <1>6, <1>11 DEF check_gcs, PublicBuckets, ExternalWriters, LegacyRoles, ObjectAcls,
                       PublicAccessPossible
  <2>2. s = "gcs_inventory"
    BY <1>1, <1>2, <1>11, <2>1 DEF Raised
  <2> QED
    BY <1>11, <2>2, Described, ChecksOwnResources
<1>12. CASE "bigquery_inventory" \in DOMAIN b /\ f \in check_bigquery(b)
  <2>1. s # "bigquery_inventory" => f \in check_bigquery(lo)
    BY <1>6, <1>12 DEF check_bigquery, PublicDatasets, EditorsOwn, DomainWide, ExternalUsers
  <2>2. s = "bigquery_inventory"
    BY <1>1, <1>2, <1>12, <2>1 DEF Raised
  <2> QED
    BY <1>12, <2>2, Described, ChecksOwnResources
<1> QED
  BY <1>7, <1>8, <1>9, <1>10, <1>11, <1>12 DEF Raised

\* README.md:117: in every reachable state a lost source takes with it the
\* findings about its own resources, the severity of an attack path and what is
\* known of the roles of service accounts, and nothing else.
THEOREM AlwaysLossHidesOnlyItsOwn == Spec => []LossHidesOnlyItsOwn
<1>1. ASSUME IInv, phase = "reporting", NEW s \in DOMAIN book,
             NEW f \in findings \ analyze(Without(book, {s}))
      PROVE  /\ s \in _INVENTORY_KEYS
             /\ f \in Raised(book)
             /\ f \notin Raised(Without(book, {s}))
  BY <1>1, RepeatsAreEqual, WithoutDistinct DEF IInv, Published
<1>2. IInv => LossHidesOnlyItsOwn
  BY <1>1, LostWithSource DEF LossHidesOnlyItsOwn
<1> QED
  BY <1>2, AlwaysIInv, PTL

-----------------------------------------------------------------------------
(***************************************************************************)
(* What the commands close.  The project stays free of what the commands   *)
(* that were run took away: no later command, of the same plan or of       *)
(* another, gives it back.                                                 *)
(***************************************************************************)

\* Nobody in the bindings X of resource at holds without a condition what a
\* command of D took from it.
FreeOf(X, at, D) ==
    \A x \in X : ~x.condition => \A p \in x.members : Command("unbind", at, p, x.role) \notin D

\* Nor does a setting stand as it was before a command of D, but on an instance
\* the command does not reach.
Free(c, D) ==
    /\ FreeOf(c["project_iam"].bindings, _project_ref, D)
    /\ \A a \in c["service_accounts"] :
         /\ FreeOf(a.bindings, AccountRef(a), D)
         /\ Set(AccountRef(a), "IAM-SA-USER-MANAGED-KEY", D) => ~a.keys
    /\ Set(<<"gce", Project>>, "GCE-OSLOGIN-DISABLED", D) => c["gce_inventory"].oslogin
    /\ \A i \in c["gce_inventory"].instances :
         /\ Set(InstanceRef(i), "GCE-DEFAULT-SA-FULL-SCOPE", D) =>
              i.running \/ \A x \in i.attached : ~x.is_default
         /\ Set(InstanceRef(i), "GCE-EXTERNAL-IP", D) => "nic0" \notin i.external_ips
         /\ Set(InstanceRef(i), "GCE-PROJECT-SSH-KEYS-ALLOWED", D) => i.blocks_ssh_keys
         /\ Set(InstanceRef(i), "GCE-SERIAL-PORT-ENABLED", D) => ~i.serial_port
    /\ \A k \in c["gcs_inventory"] :
         /\ FreeOf(k.bindings, BucketRef(k), D)
         /\ Set(BucketRef(k), "GCS-UBLA-DISABLED", D) => k.uniform_access
         /\ Set(BucketRef(k), "GCS-PAP-NOT-ENFORCED", D) => k.access_prevention

\* Unbinding frees the bindings of its resource, whatever freed them before.
LEMMA UnbindingFrees ==
    ASSUME NEW X, NEW at, NEW C, NEW D, FreeOf(X, at, D)
    PROVE  FreeOf(Unbinding(X, at, C), at, D \cup C)
<1>1. ASSUME NEW x \in Unbinding(X, at, C), ~x.condition, NEW p \in x.members
      PROVE  Command("unbind", at, p, x.role) \notin D \cup C
  <2>1. PICK y \in X : /\ ~y.condition /\ x.role = y.role
                       /\ x.members = {q \in y.members :
                                         Command("unbind", at, q, y.role) \notin C}
    BY <1>1 DEF Unbinding
  <2> QED
    BY <1>1, <2>1 DEF FreeOf
<1> QED
  BY <1>1 DEF FreeOf

\* A setting of two sets of commands is a setting of one of them.
LEMMA SetEither ==
    ASSUME NEW at, NEW rule, NEW C, NEW D, Set(at, rule, D \cup C)
    PROVE  Set(at, rule, D) \/ Set(at, rule, C)
BY DEF Set

\* So commands leave the project free of what they and the earlier ones did.
LEMMA ChangedIsFree ==
    ASSUME NEW c, NEW C, NEW D, Free(c, D)
    PROVE  Free(Changed(c, C), D \cup C)
<1> DEFINE now == Changed(c, C)
<1>1. /\ now["project_iam"].bindings = Unbinding(c["project_iam"].bindings, _project_ref, C)
      /\ now["service_accounts"] = {ChangedAccount(a, C) : a \in c["service_accounts"]}
      /\ now["gce_inventory"].instances =
           {ChangedMachine(i, C) : i \in c["gce_inventory"].instances}
      /\ now["gcs_inventory"] = {ChangedBucket(k, C) : k \in c["gcs_inventory"]}
  BY ChangedParts
<1>2. now["gce_inventory"].oslogin = (\/ c["gce_inventory"].oslogin
                                      \/ Set(<<"gce", Project>>, "GCE-OSLOGIN-DISABLED", C))
  BY DEF Changed
<1> HIDE DEF now
<1>3. FreeOf(now["project_iam"].bindings, _project_ref, D \cup C)
  BY <1>1, UnbindingFrees DEF Free
<1>4. ASSUME NEW a \in now["service_accounts"]
      PROVE  /\ FreeOf(a.bindings, AccountRef(a), D \cup C)
             /\ Set(AccountRef(a), "IAM-SA-USER-MANAGED-KEY", D \cup C) => ~a.keys
  <2>1. PICK a0 \in c["service_accounts"] : a = ChangedAccount(a0, C)
    BY <1>1
  <2>2. /\ AccountRef(a) = AccountRef(a0)
        /\ a.bindings = Unbinding(a0.bindings, AccountRef(a0), C)
        /\ a.keys => a0.keys /\ ~Set(AccountRef(a0), "IAM-SA-USER-MANAGED-KEY", C)
    BY <2>1 DEF ChangedAccount, AccountRef
  <2>3. /\ FreeOf(a0.bindings, AccountRef(a0), D)
        /\ Set(AccountRef(a0), "IAM-SA-USER-MANAGED-KEY", D) => ~a0.keys
    BY DEF Free
  <2> QED
    BY <2>2, <2>3, UnbindingFrees, SetEither
<1>5. Set(<<"gce", Project>>, "GCE-OSLOGIN-DISABLED", D \cup C) => now["gce_inventory"].oslogin
  BY <1>2, SetEither DEF Free
<1>6. ASSUME NEW i \in now["gce_inventory"].instances
      PROVE  /\ Set(InstanceRef(i), "GCE-DEFAULT-SA-FULL-SCOPE", D \cup C) =>
                  i.running \/ \A x \in i.attached : ~x.is_default
             /\ Set(InstanceRef(i), "GCE-EXTERNAL-IP", D \cup C) =>
                  "nic0" \notin i.external_ips
             /\ Set(InstanceRef(i), "GCE-PROJECT-SSH-KEYS-ALLOWED", D \cup C) =>
                  i.blocks_ssh_keys
             /\ Set(InstanceRef(i), "GCE-SERIAL-PORT-ENABLED", D \cup C) => ~i.serial_port
  <2>1. PICK i0 \in c["gce_inventory"].instances : i = ChangedMachine(i0, C)
    BY <1>1
  <2>2. /\ InstanceRef(i) = InstanceRef(i0)
        /\ i.attached = ReplacedAccounts(i0, C)
        /\ i.running = i0.running
        /\ "nic0" \in i.external_ips =>
             "nic0" \in i0.external_ips /\ ~Set(InstanceRef(i0), "GCE-EXTERNAL-IP", C)
        /\ (i0.blocks_ssh_keys \/ Set(InstanceRef(i0), "GCE-PROJECT-SSH-KEYS-ALLOWED", C))
             => i.blocks_ssh_keys
        /\ i.serial_port =>
             i0.serial_port /\ ~Set(InstanceRef(i0), "GCE-SERIAL-PORT-ENABLED", C)
    BY <2>1 DEF ChangedMachine, LeftAddresses, InstanceRef
  <2>3. Set(InstanceRef(i0), "GCE-DEFAULT-SA-FULL-SCOPE", D \cup C) =>
          i.running \/ \A x \in i.attached : ~x.is_default
    <3>1. CASE Set(InstanceRef(i0), "GCE-DEFAULT-SA-FULL-SCOPE", C)
      BY <2>2, <3>1 DEF ReplacedAccounts
    <3>2. CASE ~Set(InstanceRef(i0), "GCE-DEFAULT-SA-FULL-SCOPE", C)
      <4>1. i.attached = i0.attached
        BY <2>2, <3>2 DEF ReplacedAccounts
      <4> QED
        BY <2>2, <3>2, <4>1, SetEither DEF Free
    <3> QED
      BY <3>1, <3>2
  <2>4. /\ Set(InstanceRef(i0), "GCE-EXTERNAL-IP", D) => "nic0" \notin i0.external_ips
        /\ Set(InstanceRef(i0), "GCE-PROJECT-SSH-KEYS-ALLOWED", D) => i0.blocks_ssh_keys
        /\ Set(InstanceRef(i0), "GCE-SERIAL-PORT-ENABLED", D) => ~i0.serial_port
    BY DEF Free
  <2> QED
    BY <2>2, <2>3, <2>4, SetEither
<1>7. ASSUME NEW k \in now["gcs_inventory"]
      PROVE  /\ FreeOf(k.bindings, BucketRef(k), D \cup C)
             /\ Set(BucketRef(k), "GCS-UBLA-DISABLED", D \cup C) => k.uniform_access
             /\ Set(BucketRef(k), "GCS-PAP-NOT-ENFORCED", D \cup C) => k.access_prevention
  <2>1. PICK k0 \in c["gcs_inventory"] : k = ChangedBucket(k0, C)
    BY <1>1
  <2>2. /\ BucketRef(k) = BucketRef(k0)
        /\ k.bindings = Unbinding(k0.bindings, BucketRef(k0), C)
        /\ (k0.uniform_access \/ Set(BucketRef(k0), "GCS-UBLA-DISABLED", C))
             => k.uniform_access
        /\ (k0.access_prevention \/ Set(BucketRef(k0), "GCS-PAP-NOT-ENFORCED", C))
             => k.access_prevention
    BY <2>1 DEF ChangedBucket, BucketRef
  <2>3. /\ FreeOf(k0.bindings, BucketRef(k0), D)
        /\ Set(BucketRef(k0), "GCS-UBLA-DISABLED", D) => k0.uniform_access
        /\ Set(BucketRef(k0), "GCS-PAP-NOT-ENFORCED", D) => k0.access_prevention
    BY DEF Free
  <2> QED
    BY <2>2, <2>3, UnbindingFrees, SetEither
<1>8. Free(now, D \cup C)
  BY <1>3, <1>4, <1>5, <1>6, <1>7 DEF Free
<1> QED
  BY <1>8 DEF now

\* The project is free of everything the operator ran.
Corrected == Free(cloud, done)

\* This holds in every reachable state.
LEMMA AlwaysCorrected == Spec => []Corrected
<1>1. Init => Corrected
  BY DEF Init, Corrected, Free, FreeOf, Set
<1>2. Corrected /\ [Next]_vars => Corrected'
  <2> SUFFICES ASSUME Corrected, [Next]_vars PROVE Corrected'
    OBVIOUS
  <2>1. ASSUME UNCHANGED <<cloud, done>> PROVE Corrected'
    BY <2>1 DEF Corrected
  <2>2. ASSUME NEW R \in Readable, Collect(R) PROVE Corrected'
    BY <2>1, <2>2 DEF Collect
  <2>3. CASE RunEngine
    BY <2>1, <2>3 DEF RunEngine
  <2>4. ASSUME NEW q \in Queries, ListFindings(q) PROVE Corrected'
    BY <2>1, <2>4 DEF ListFindings
  <2>5. CASE GetRemediationPlan
    BY <2>1, <2>5 DEF GetRemediationPlan
  <2>6. ASSUME NEW n, Remediate(n) PROVE Corrected'
    <3>1. \E C : cloud' = Changed(cloud, C) /\ done' = done \cup C
      BY <2>6 DEF Remediate
    <3> QED
      BY <3>1, ChangedIsFree DEF Corrected
  <2>7. CASE UNCHANGED vars
    BY <2>1, <2>7 DEF vars
  <2> QED
    BY <2>2, <2>3, <2>4, <2>5, <2>6, <2>7 DEF Next
<1> QED
  BY <1>1, <1>2, PTL DEF Spec

\* What may be left of f after its commands.
MayStay(b, f) ==
    \/ f.rule \in {"IAM-PROJ-BASIC-ROLE", "BQ-PUBLIC-DATASET"}
    \/ f.rule = "IAM-PATH-ACTAS-ESCALATION" /\ f.roles \cap BASIC_ROLES # {}
    \/ BoundOnCondition(b, f)
    \/ OutOfReach(b, f)

\* Only these rules have commands.
LEMMA RulesWithCommands ==
    ASSUME NEW g, remediation_commands(g) # {}
    PROVE  g.rule \in Unbound \cup Settings \cup Printed \cup {"IAM-PATH-ACTAS-ESCALATION"}
BY DEF remediation_commands

\* Whoever is still found in a binding after it was unbound has a condition.
LEMMA UnboundMayStay ==
    ASSUME NEW X, NEW D, NEW g, NEW f, StillThere(f, g), remediation_commands(g) \subseteq D,
           FreeOf(X, f.resource, D), f.rule \in Unbound, NEW x \in X, f.roles = {x.role},
           f.principals \subseteq x.members, f.principals # {}
    PROVE  x.condition
<1>1. PICK p \in f.principals : p \in g.principals
  BY DEF StillThere
<1>2. x.role \in g.roles /\ g.rule \in Unbound /\ g.resource = f.resource
  BY DEF StillThere
<1>3. Command("unbind", f.resource, p, x.role) \in remediation_commands(g)
  BY <1>1, <1>2 DEF remediation_commands, Unbind
<1> QED
  BY <1>1, <1>3 DEF FreeOf

\* The setting a finding asks for was made.
LEMMA SettingWasMade ==
    ASSUME NEW D, NEW g, NEW f, StillThere(f, g), remediation_commands(g) \subseteq D,
           f.rule \in Settings
    PROVE  Set(f.resource, f.rule, D)
<1>1. g.rule = f.rule /\ g.resource = f.resource /\ g.rule \in Settings
  BY DEF StillThere
<1>2. Command("set", g.resource, "any", g.rule) \in remediation_commands(g)
  BY <1>1 DEF remediation_commands, Settings, Unbound, Printed
<1> QED
  BY <1>1, <1>2 DEF Set

\* The book says of every source it has what the project is.
Current(b, c) == \A s \in DOMAIN b : b[s] = c[s]

\* g was found, its commands were run, and f is what is found of it now.
Rerun(b, c, D, f, g) ==
    /\ Current(b, c)
    /\ Free(c, D)
    /\ StillThere(f, g)
    /\ remediation_commands(g) # {}
    /\ remediation_commands(g) \subseteq D

\* A finding about a binding of the project.
LEMMA ProjectBindingStays ==
    ASSUME NEW b, NEW c, NEW D, NEW f, NEW g, Rerun(b, c, D, f, g), f.rule \in Unbound,
           NEW x \in _bindings(b), f.resource = _project_ref, f.roles = {x.role},
           f.principals \subseteq x.members, f.principals # {}
    PROVE  MayStay(b, f)
<1>1. _bindings(b) = c["project_iam"].bindings
  BY DEF Rerun, Current, _bindings
<1>2. x.condition
  BY <1>1, UnboundMayStay DEF Rerun, Free
<1> QED
  BY <1>2 DEF MayStay, BoundOnCondition

\* The findings about the project's policy.
LEMMA ProjectMayStay ==
    ASSUME NEW b, NEW c, NEW D, NEW f \in check_project_iam(b), NEW g, Rerun(b, c, D, f, g)
    PROVE  MayStay(b, f)
<1>1. CASE f \in PublicBindings(b)
  BY <1>1, ProjectBindingStays DEF PublicBindings, Finding, Unbound
<1>2. CASE f \in BasicRoles(b)
  BY <1>2 DEF BasicRoles, Finding, MayStay
<1>3. CASE f \in UnconditionalAdmins(b)
  BY <1>3, RulesWithCommands DEF UnconditionalAdmins, Finding, Rerun, StillThere, Unbound, Settings, Printed
<1>4. CASE f \in BroadImpersonation(b)
  BY <1>4, ProjectBindingStays DEF BroadImpersonation, Finding, Unbound
<1>5. CASE f \in ExternalPrincipals(b)
  BY <1>5, ProjectBindingStays DEF ExternalPrincipals, Finding, Unbound, Outsiders
<1>6. CASE f \in QuotaControl(b)
  BY <1>6, RulesWithCommands DEF QuotaControl, Finding, Rerun, StillThere, Unbound, Settings, Printed
<1>7. CASE f \in NoAuditLogs(b)
  BY <1>7, RulesWithCommands DEF NoAuditLogs, Finding, Rerun, StillThere, Unbound, Settings, Printed
<1> QED
  BY <1>1, <1>2, <1>3, <1>4, <1>5, <1>6, <1>7 DEF check_project_iam

\* The attack paths: whoever lost serviceAccountUser acts as another by a basic
\* role.
LEMMA PathsMayStay ==
    ASSUME NEW b, NEW c, NEW D, NEW f \in check_attack_paths(b), NEW g, Rerun(b, c, D, f, g)
    PROVE  MayStay(b, f)
<1>1. CASE f \in ActAsEscalation(b)
  <2>1. PICK p : /\ f.rule = "IAM-PATH-ACTAS-ESCALATION" /\ f.resource = _project_ref
                 /\ f.principals = {p}
                 /\ f.roles = _principal_roles(b, p) \cap (ACTAS_ROLES \cup COMPUTE_EXECUTION_ROLES)
                 /\ _principal_roles(b, p) \cap ACTAS_ROLES # {}
    BY <1>1 DEF ActAsEscalation, Finding
  <2>2. PICK x \in _bindings(b) : p \in x.members /\ x.role \in ACTAS_ROLES
    BY <2>1 DEF _principal_roles
  <2>3. x.role \in f.roles
    BY <2>1, <2>2 DEF _principal_roles
  <2>4. CASE x.role \in BASIC_ROLES
    BY <2>1, <2>3, <2>4 DEF MayStay
  <2>5. CASE x.role \notin BASIC_ROLES
    <3>1. x.role = "iam.serviceAccountUser"
      BY <2>2, <2>5 DEF ACTAS_ROLES, BASIC_ROLES
    <3>2. p \in g.principals /\ g.rule = f.rule /\ g.resource = f.resource
      BY <2>1 DEF Rerun, StillThere
    <3>3. Command("unbind", _project_ref, p, x.role) \in remediation_commands(g)
      BY <2>1, <3>1, <3>2 DEF remediation_commands, Unbound, Printed
    <3>4. _bindings(b) = c["project_iam"].bindings
      BY <2>2 DEF Rerun, Current, _bindings
    <3>5. x.condition
      BY <2>2, <3>3, <3>4 DEF Rerun, Free, FreeOf
    <3> QED
      BY <2>1, <2>2, <2>3, <3>5 DEF MayStay, BoundOnCondition
  <2> QED
    BY <2>4, <2>5
<1>2. CASE f \in ImpersonationToData(b)
  BY <1>2, RulesWithCommands DEF ImpersonationToData, Finding, Rerun, StillThere, Unbound, Settings, Printed
<1> QED
  BY <1>1, <1>2 DEF check_attack_paths

\* The findings about service accounts.
LEMMA AccountsMayStay ==
    ASSUME NEW b, NEW c, NEW D, NEW f \in check_service_accounts(b), NEW g, Rerun(b, c, D, f, g)
    PROVE  MayStay(b, f)
<1>0. \A a \in Accounts(b) : a \in c["service_accounts"]
  BY DEF Rerun, Current, Accounts
<1>1. CASE f \in UserManagedKeys(b)
  <2>1. PICK a \in Accounts(b) : /\ f.rule = "IAM-SA-USER-MANAGED-KEY"
                                 /\ f.resource = AccountRef(a) /\ a.keys
    BY <1>1 DEF UserManagedKeys, Finding
  <2>2. Set(f.resource, f.rule, D)
    BY <2>1, SettingWasMade DEF Rerun, Settings
  <2> QED
    BY <1>0, <2>1, <2>2 DEF Rerun, Free
<1>2. CASE f \in DisabledWithRoles(b)
  BY <1>2, RulesWithCommands DEF DisabledWithRoles, Finding, Rerun, StillThere, Unbound, Settings, Printed
<1>3. CASE f \in PublicImpersonation(b)
  <2>1. PICK a \in Accounts(b) : \E x \in a.bindings :
          /\ f.rule = "IAM-SA-PUBLIC-IMPERSONATION" /\ f.resource = AccountRef(a)
          /\ f.roles = {x.role} /\ f.principals = x.members \cap Public /\ f.principals # {}
    BY <1>3 DEF PublicImpersonation, Finding
  <2>2. PICK x \in a.bindings :
          /\ f.rule = "IAM-SA-PUBLIC-IMPERSONATION" /\ f.resource = AccountRef(a)
          /\ f.roles = {x.role} /\ f.principals = x.members \cap Public /\ f.principals # {}
    BY <2>1
  <2>3. x.condition
    <3>1. FreeOf(a.bindings, f.resource, D)
      BY <1>0, <2>2 DEF Rerun, Free
    <3>2. f.rule \in Unbound /\ f.principals \subseteq x.members
      BY <2>2 DEF Unbound
    <3> QED
      BY <2>2, <3>1, <3>2, UnboundMayStay DEF Rerun
  <2> QED
    BY <2>2, <2>3 DEF MayStay, BoundOnCondition
<1>4. CASE f \in ExternalImpersonation(b)
  BY <1>4, RulesWithCommands
     DEF ExternalImpersonation, Finding, Rerun, StillThere, Unbound, Settings, Printed
<1> QED
  BY <1>1, <1>2, <1>3, <1>4 DEF check_service_accounts

\* The findings about Compute Engine: none is left but of instances out of reach.
LEMMA MachinesMayStay ==
    ASSUME NEW b, "gce_inventory" \in DOMAIN b, NEW c, NEW D, NEW f \in check_gce(b), NEW g,
           Rerun(b, c, D, f, g)
    PROVE  MayStay(b, f)
<1>0. \A i \in Machines(b) : i \in c["gce_inventory"].instances
  BY DEF Rerun, Current, Machines
<1>1. CASE f \in OsLoginDisabled(b)
  <2>1. /\ f.rule = "GCE-OSLOGIN-DISABLED" /\ f.resource = <<"gce", Project>>
        /\ ~c["gce_inventory"].oslogin
    BY <1>1 DEF OsLoginDisabled, Finding, OsLogin, Rerun, Current
  <2>2. Set(f.resource, f.rule, D)
    BY <2>1, SettingWasMade DEF Rerun, Settings
  <2> QED
    BY <2>1, <2>2 DEF Rerun, Free
<1>2. CASE f \in DefaultFullScope(b)
  <2>1. PICK i \in Machines(b) : /\ f.rule = "GCE-DEFAULT-SA-FULL-SCOPE"
                                 /\ f.resource = InstanceRef(i)
                                 /\ \E x \in i.attached : x.is_default
    BY <1>2 DEF DefaultFullScope, Finding
  <2>2. Set(f.resource, f.rule, D)
    BY <2>1, SettingWasMade DEF Rerun, Settings
  <2>3. i.running
    BY <1>0, <2>1, <2>2 DEF Rerun, Free
  <2> QED
    BY <2>1, <2>3 DEF MayStay, OutOfReach
<1>3. CASE f \in PrivilegedAttached(b)
  BY <1>3, RulesWithCommands DEF PrivilegedAttached, Finding, Rerun, StillThere, Unbound, Settings, Printed
<1>4. CASE f \in ExternalIp(b)
  <2>1. PICK i \in Machines(b) : /\ f.rule = "GCE-EXTERNAL-IP"
                                 /\ f.resource = InstanceRef(i) /\ i.external_ips # {}
    BY <1>4 DEF ExternalIp, Finding
  <2>2. Set(f.resource, f.rule, D)
    BY <2>1, SettingWasMade DEF Rerun, Settings
  <2>3. "nic0" \notin i.external_ips
    BY <1>0, <2>1, <2>2 DEF Rerun, Free
  <2> QED
    BY <2>1, <2>3 DEF MayStay, OutOfReach
<1>5. CASE f \in ProjectSshKeys(b)
  <2>1. PICK i \in Machines(b) : /\ f.rule = "GCE-PROJECT-SSH-KEYS-ALLOWED"
                                 /\ f.resource = InstanceRef(i) /\ ~i.blocks_ssh_keys
    BY <1>5 DEF ProjectSshKeys, Finding
  <2>2. Set(f.resource, f.rule, D)
    BY <2>1, SettingWasMade DEF Rerun, Settings
  <2> QED
    BY <1>0, <2>1, <2>2 DEF Rerun, Free
<1>6. CASE f \in SerialPort(b)
  <2>1. PICK i \in Machines(b) : /\ f.rule = "GCE-SERIAL-PORT-ENABLED"
                                 /\ f.resource = InstanceRef(i) /\ i.serial_port
    BY <1>6 DEF SerialPort, Finding
  <2>2. Set(f.resource, f.rule, D)
    BY <2>1, SettingWasMade DEF Rerun, Settings
  <2> QED
    BY <1>0, <2>1, <2>2 DEF Rerun, Free
<1>7. CASE f \in GpuReview(b)
  BY <1>7, RulesWithCommands DEF GpuReview, Finding, Rerun, StillThere, Unbound, Settings, Printed
<1> QED
  BY <1>1, <1>2, <1>3, <1>4, <1>5, <1>6, <1>7 DEF check_gce

\* The findings about Cloud Storage.
LEMMA BucketsMayStay ==
    ASSUME NEW b, NEW c, NEW D, NEW f \in check_gcs(b), NEW g, Rerun(b, c, D, f, g)
    PROVE  MayStay(b, f)
<1>0. \A k \in Buckets(b) : k \in c["gcs_inventory"]
  BY DEF Rerun, Current, Buckets
<1>1. CASE f \in PublicBuckets(b)
  <2>1. PICK k \in Buckets(b) : \E x \in k.bindings :
          /\ f.rule = "GCS-PUBLIC-BUCKET" /\ f.resource = BucketRef(k)
          /\ f.roles = {x.role} /\ f.principals = x.members \cap Public /\ f.principals # {}
    BY <1>1 DEF PublicBuckets, Finding
  <2>2. PICK x \in k.bindings :
          /\ f.rule = "GCS-PUBLIC-BUCKET" /\ f.resource = BucketRef(k)
          /\ f.roles = {x.role} /\ f.principals = x.members \cap Public /\ f.principals # {}
    BY <2>1
  <2>3. x.condition
    <3>1. FreeOf(k.bindings, f.resource, D)
      BY <1>0, <2>2 DEF Rerun, Free
    <3>2. f.rule \in Unbound /\ f.principals \subseteq x.members
      BY <2>2 DEF Unbound
    <3> QED
      BY <2>2, <3>1, <3>2, UnboundMayStay DEF Rerun
  <2> QED
    BY <2>2, <2>3 DEF MayStay, BoundOnCondition
<1>2. CASE f \in ExternalWriters(b)
  BY <1>2, RulesWithCommands DEF ExternalWriters, Finding, Rerun, StillThere, Unbound, Settings, Printed
<1>3. CASE f \in LegacyRoles(b)
  BY <1>3, RulesWithCommands DEF LegacyRoles, Finding, Rerun, StillThere, Unbound, Settings, Printed
<1>4. CASE f \in ObjectAcls(b)
  <2>1. PICK k \in Buckets(b) : /\ f.rule = "GCS-UBLA-DISABLED"
                                /\ f.resource = BucketRef(k) /\ ~k.uniform_access
    BY <1>4 DEF ObjectAcls, Finding
  <2>2. Set(f.resource, f.rule, D)
    BY <2>1, SettingWasMade DEF Rerun, Settings
  <2> QED
    BY <1>0, <2>1, <2>2 DEF Rerun, Free
<1>5. CASE f \in PublicAccessPossible(b)
  <2>1. PICK k \in Buckets(b) : /\ f.rule = "GCS-PAP-NOT-ENFORCED"
                                /\ f.resource = BucketRef(k) /\ ~k.access_prevention
    BY <1>5 DEF PublicAccessPossible, Finding
  <2>2. Set(f.resource, f.rule, D)
    BY <2>1, SettingWasMade DEF Rerun, Settings
  <2> QED
    BY <1>0, <2>1, <2>2 DEF Rerun, Free
<1> QED
  BY <1>1, <1>2, <1>3, <1>4, <1>5 DEF check_gcs

\* The findings about BigQuery: no command closes any.
LEMMA DatasetsMayStay ==
    ASSUME NEW b, NEW c, NEW D, NEW f \in check_bigquery(b), NEW g, Rerun(b, c, D, f, g)
    PROVE  MayStay(b, f)
<1>1. CASE f \in PublicDatasets(b)
  BY <1>1 DEF PublicDatasets, Finding, MayStay
<1>2. CASE f \in EditorsOwn(b)
  BY <1>2, RulesWithCommands DEF EditorsOwn, Finding, Rerun, StillThere, Unbound, Settings, Printed
<1>3. CASE f \in DomainWide(b)
  BY <1>3, RulesWithCommands DEF DomainWide, Finding, Rerun, StillThere, Unbound, Settings, Printed
<1>4. CASE f \in ExternalUsers(b)
  BY <1>4, RulesWithCommands DEF ExternalUsers, Finding, Rerun, StillThere, Unbound, Settings, Printed
<1> QED
  BY <1>1, <1>2, <1>3, <1>4 DEF check_bigquery

\* findings.py:53: after the commands of a finding a fresh audit finds nothing
\* left of it but a basic role, a path by way of one, a public dataset, a binding
\* of its resource with a condition, or what is wrong with an instance out of the
\* command's reach.
THEOREM AlwaysCommandsClose == Spec => []CommandsClose
<1>1. ASSUME IInv, Corrected, phase = "reporting", \A s \in DOMAIN book : book[s] = cloud[s],
             NEW g, remediation_commands(g) # {}, remediation_commands(g) \subseteq done,
             NEW f \in findings, StillThere(f, g)
      PROVE  MayStay(book, f)
  <2>1. f \in Raised(book)
    BY <1>1, RepeatsAreEqual DEF IInv, Published
  <2>2. Rerun(book, cloud, done, f, g)
    BY <1>1 DEF Rerun, Current, Corrected
  <2> QED
    BY <2>1, <2>2, ProjectMayStay, PathsMayStay, AccountsMayStay, MachinesMayStay,
       BucketsMayStay, DatasetsMayStay DEF Raised
<1>2. IInv /\ Corrected => CommandsClose
  BY <1>1 DEF CommandsClose, MayStay
<1> QED
  BY <1>2, AlwaysIInv, AlwaysCorrected, PTL
=============================================================================
