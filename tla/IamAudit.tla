------------------------------ MODULE IamAudit ------------------------------
(***************************************************************************)
(* Audits of one project by iam_guard in one session: the collectors read  *)
(* what they can, the rule engine publishes findings and a summary, the    *)
(* report agent calls its tools, and between two audits an operator runs   *)
(* some of the commands of the plan, in its order.  The agent itself is    *)
(* read-only; only the operator changes the cloud.                         *)
(*                                                                         *)
(* The collection phase is one step here: CollectionWorkflow shows that    *)
(* the engine gets what the reads of the message left in the session.      *)
(***************************************************************************)
EXTENDS IamRules, Listing, FiniteSets, Functions

CONSTANTS
    Clouds,         \* states the project may be in when first audited
    Readable,       \* sets of sources an audit may be able to read
    NewAccount,     \* the low-privilege account a command attaches
    Queries,        \* filters the report agent lists findings with
    MaxTop,         \* findings copied into the summary
    MaxDetail,      \* findings one list_findings call returns
    MaxAudits       \* bound: audits in the session

\* Different instances have different names, for the name of an instance stands
\* for its zone and its name; and nobody has granted the account that is to
\* replace a privileged one anything on the project.
ASSUME CloudsAssumption ==
    \A c \in Clouds :
      /\ \A i, j \in c.gce_inventory.instances : i.name = j.name => i = j
      /\ \A x \in c.project_iam.bindings : NewAccount \notin x.members

\* What a source lists is finite, and a role has a name.
FiniteBindings(X) == IsFiniteSet(X) /\ \A x \in X : IsFiniteSet(x.members) /\ x.role \in STRING

ASSUME ListsAssumption ==
    \A c \in Clouds :
      /\ FiniteBindings(c.project_iam.bindings)
      /\ IsFiniteSet(c.service_accounts)
      /\ \A a \in c.service_accounts : FiniteBindings(a.bindings)
      /\ IsFiniteSet(c.gce_inventory.instances)
      /\ \A i \in c.gce_inventory.instances : IsFiniteSet(i.attached)
      /\ IsFiniteSet(c.gcs_inventory)
      /\ \A k \in c.gcs_inventory : FiniteBindings(k.bindings)
      /\ IsFiniteSet(c.bigquery_inventory)
      /\ \A d \in c.bigquery_inventory :
           IsFiniteSet(d.entries) /\ \A e \in d.entries : e.role \in STRING

ASSUME CapsAssumption == MaxTop \in Nat /\ MaxDetail \in Nat \ {0} /\ MaxAudits \in Nat \ {0}

ASSUME QueriesAssumption == \A q \in Queries : q.limit \in Int

ASSUME ReadableAssumption == \A R \in Readable : R \subseteq _INVENTORY_KEYS

VARIABLES
    phase,      \* "collecting", "analysing" or "reporting"
    audits,     \* audits begun
    cloud,      \* the project as it is, in the shape of a full book
    book,       \* inventories the session holds, by source
    findings,   \* findings of the latest analysis
    summary,    \* total, score and top findings for the report agent
    listed,     \* the answer of list_findings with its query, if it was the latest
    plan,       \* the answer of get_remediation_plan, if it was the latest
    former,     \* the previous analysis and the sources it was of (history)
    done        \* commands the operator has run (history)

vars == <<phase, audits, cloud, book, findings, summary, listed, plan, former, done>>

-----------------------------------------------------------------------------
(***************************************************************************)
(* What the engine publishes.                                              *)
(***************************************************************************)

\* f goes before g; findings of equal severity are ordered by their texts,
\* which is some fixed order.
Ahead(f, g) == SeverityRank(f.severity) < SeverityRank(g.severity)

sort_findings(F) == InOrder(F, {p \in F \X F : Ahead(p[1], p[2])})

Weight(f) ==
    CASE f.severity = "CRITICAL" -> 25 [] f.severity = "HIGH" -> 10
      [] f.severity = "MEDIUM" -> 4 [] f.severity = "LOW" -> 1

\* Mutation: the score is not capped.
UncappedScore(F) == SumFunction([f \in F |-> Weight(f)])

risk_score(F) ==
    LET total == SumFunction([f \in F |-> Weight(f)]) IN IF total < 100 THEN total ELSE 100

summarize(F) ==
    [total |-> Cardinality(F), risk_score |-> risk_score(F), top |-> Upto(sort_findings(F), MaxTop)]

-----------------------------------------------------------------------------
(***************************************************************************)
(* Commands.  A command is what it does, where, and to whom with which     *)
(* role; "print" changes nothing.                                          *)
(***************************************************************************)
Command(does, at, who, role) == [does |-> does, at |-> at, who |-> who, role |-> role]

Unbind(f) == {Command("unbind", f.resource, p, r) : p \in f.principals, r \in f.roles}

\* A setting of the resource, named by the rule that asks for it.
Settings ==
    {"IAM-SA-USER-MANAGED-KEY", "GCE-OSLOGIN-DISABLED", "GCE-DEFAULT-SA-FULL-SCOPE",
     "GCE-EXTERNAL-IP", "GCE-PROJECT-SSH-KEYS-ALLOWED", "GCE-SERIAL-PORT-ENABLED",
     "GCS-UBLA-DISABLED", "GCS-PAP-NOT-ENFORCED"}

\* Their command only shows a policy; that for a public dataset goes on behind a
\* comment sign, with what is to be edited and the update.
Printed == {"IAM-PROJ-BASIC-ROLE", "BQ-PUBLIC-DATASET"}

Unbound ==
    {"IAM-PROJ-PUBLIC-BINDING", "IAM-PROJ-BROAD-IMPERSONATION", "IAM-PROJ-EXTERNAL-PRINCIPAL",
     "IAM-SA-PUBLIC-IMPERSONATION", "GCS-PUBLIC-BUCKET"}

\* Mutation: only one of the principals is unbound.
CommandsForOne(f) ==
    IF f.rule \in Unbound THEN {CHOOSE c \in Unbind(f) : TRUE}
    ELSE IF f.rule \in Settings THEN {Command("set", f.resource, "any", f.rule)}
    ELSE {}

remediation_commands(f) ==
    IF f.rule \in Unbound THEN Unbind(f)
    ELSE IF f.rule \in Printed THEN {Command("print", f.resource, "any", f.rule)}
    ELSE IF f.rule = "IAM-PATH-ACTAS-ESCALATION" THEN
           {Command("unbind", f.resource, p, "iam.serviceAccountUser") : p \in f.principals}
    ELSE IF f.rule \in Settings THEN {Command("set", f.resource, "any", f.rule)}
    ELSE {}

-----------------------------------------------------------------------------
(***************************************************************************)
(* The tools of the report agent.                                          *)
(***************************************************************************)

\* A filter is a severity, a category and a service; "" does not filter.
Matches(f, q) ==
    /\ q.severity = "" \/ f.severity = q.severity
    /\ q.category = "" \/ Cryptojacking(f)
    /\ q.service = {} \/ f.resource[1] \in q.service

Clamp(limit) == IF limit < 1 THEN 1 ELSE IF limit > MaxDetail THEN MaxDetail ELSE limit

\* Mutation: the list is cut before it is filtered.
CutThenFilter(F, q) ==
    Those(Upto(sort_findings(F), Clamp(q.limit)), {f \in F : Matches(f, q)})

list_findings(F, q) ==
    Upto(Those(sort_findings(F), {f \in F : Matches(f, q)}), Clamp(q.limit))

\* Mutation: the plan is made from the findings listed by default.
PlanOfListed(F) ==
    Those(Upto(sort_findings(F), MaxDetail), {f \in F : remediation_commands(f) # {}})

\* Severity by severity, what has commands; the findings come sorted.
get_remediation_plan(F) ==
    Those(sort_findings(F), {f \in F : remediation_commands(f) # {}})

-----------------------------------------------------------------------------
(***************************************************************************)
(* The operator.                                                           *)
(***************************************************************************)

\* gcloud takes a member out of a role's binding without a condition; a
\* binding nobody is left in disappears.
Unbinding(bindings, at, C) ==
    LET Left(x) == {p \in x.members : Command("unbind", at, p, x.role) \notin C}
    IN  {[role |-> x.role, members |-> Left(x), condition |-> FALSE] :
           x \in {y \in bindings : ~y.condition /\ Left(y) # {}}}
          \cup {x \in bindings : x.condition}

Set(at, rule, C) == Command("set", at, "any", rule) \in C

\* The account of an instance can only be replaced while it is stopped.
ReplacedAccounts(i, C) ==
    IF Set(InstanceRef(i), "GCE-DEFAULT-SA-FULL-SCOPE", C) /\ ~i.running
    THEN {[email |-> NewAccount, is_default |-> FALSE, broad_scope |-> FALSE]}
    ELSE i.attached

ChangedAccount(a, C) ==
    [email    |-> a.email,
     keys     |-> a.keys /\ ~Set(AccountRef(a), "IAM-SA-USER-MANAGED-KEY", C),
     disabled |-> a.disabled,
     bindings |-> Unbinding(a.bindings, AccountRef(a), C)]

\* An address is named by its interface.  The command names none, which stands
\* for the first one.
LeftAddresses(i, C) ==
    i.external_ips \ (IF Set(InstanceRef(i), "GCE-EXTERNAL-IP", C) THEN {"nic0"} ELSE {})

ChangedMachine(i, C) ==
    [name            |-> i.name,
     attached        |-> ReplacedAccounts(i, C),
     external_ips    |-> LeftAddresses(i, C),
     running         |-> i.running,
     startup_script  |-> i.startup_script,
     blocks_ssh_keys |-> i.blocks_ssh_keys \/ Set(InstanceRef(i), "GCE-PROJECT-SSH-KEYS-ALLOWED", C),
     serial_port     |-> i.serial_port /\ ~Set(InstanceRef(i), "GCE-SERIAL-PORT-ENABLED", C),
     gpu             |-> i.gpu]

ChangedBucket(k, C) ==
    [name              |-> k.name,
     bindings          |-> Unbinding(k.bindings, BucketRef(k), C),
     uniform_access    |-> k.uniform_access \/ Set(BucketRef(k), "GCS-UBLA-DISABLED", C),
     access_prevention |-> k.access_prevention \/ Set(BucketRef(k), "GCS-PAP-NOT-ENFORCED", C)]

\* The project after the commands C, none of which changes a dataset.
Changed(c, C) ==
    [project_iam |->
        [bindings      |-> Unbinding(c.project_iam.bindings, _project_ref, C),
         audit_configs |-> c.project_iam.audit_configs],
     service_accounts |-> {ChangedAccount(a, C) : a \in c.service_accounts},
     gce_inventory |->
        [oslogin   |-> \/ c.gce_inventory.oslogin
                       \/ Set(<<"gce", Project>>, "GCE-OSLOGIN-DISABLED", C),
         instances |-> {ChangedMachine(i, C) : i \in c.gce_inventory.instances}],
     gcs_inventory |-> {ChangedBucket(k, C) : k \in c.gcs_inventory},
     bigquery_inventory |-> c.bigquery_inventory]

-----------------------------------------------------------------------------
(***************************************************************************)
(* The session.                                                            *)
(***************************************************************************)

\* The sources in R are read; those that cannot be keep what an earlier
\* audit of the session left in the book.
Collect(R) ==
    /\ phase = "collecting"
    /\ book' = [s \in DOMAIN book \cup R |-> IF s \in R THEN cloud[s] ELSE book[s]]
    /\ phase' = "analysing"
    /\ UNCHANGED <<audits, cloud, findings, summary, listed, plan, former, done>>

\* With nothing in the book the engine publishes the summary of no findings,
\* which is also what the rules give.
RunEngine ==
    /\ phase = "analysing"
    /\ findings' = analyze(book)
    /\ summary' = summarize(findings')
    /\ phase' = "reporting"
    /\ UNCHANGED <<audits, cloud, book, listed, plan, former, done>>

ListFindings(q) ==
    /\ phase = "reporting"
    /\ listed' = {[query |-> q, findings |-> list_findings(findings, q)]}
    /\ plan' = {}
    /\ UNCHANGED <<phase, audits, cloud, book, findings, summary, former, done>>

GetRemediationPlan ==
    /\ phase = "reporting"
    /\ plan' = {get_remediation_plan(findings)}
    /\ listed' = {}
    /\ UNCHANGED <<phase, audits, cloud, book, findings, summary, former, done>>

\* The operator runs the first n steps of the plan and asks for a new audit.
Remediate(n) ==
    /\ phase = "reporting"
    /\ audits < MaxAudits
    /\ \E p \in plan :
         /\ n \in 0..Len(p)
         /\ LET closed == {f \in findings : \E i \in 1..n : p[i] = f}
                C == UNION {remediation_commands(f) : f \in closed}
            IN  /\ cloud' = Changed(cloud, C)
                /\ done' = done \cup C
    /\ former' = {[findings |-> findings, sources |-> DOMAIN book]}
    /\ audits' = audits + 1
    /\ phase' = "collecting"
    /\ listed' = {}
    /\ plan' = {}
    /\ UNCHANGED <<book, findings, summary>>

Init ==
    /\ phase = "collecting"
    /\ audits = 1
    /\ cloud \in Clouds
    /\ book = [s \in {} |-> {}]
    /\ findings = {}
    /\ summary = [total |-> 0, risk_score |-> 0, top |-> <<>>]
    /\ listed = {}
    /\ plan = {}
    /\ former = {}
    /\ done = {}

Next ==
    \/ \E R \in Readable : Collect(R)
    \/ RunEngine
    \/ \E q \in Queries : ListFindings(q)
    \/ GetRemediationPlan
    \/ \E p \in plan : \E n \in 0..Len(p) : Remediate(n)

Spec == Init /\ [][Next]_vars

-----------------------------------------------------------------------------
(***************************************************************************)
(* Properties the code has.                                                *)
(***************************************************************************)
TypeOK ==
    /\ phase \in {"collecting", "analysing", "reporting"}
    /\ audits \in 1..MaxAudits
    /\ DOMAIN book \subseteq _INVENTORY_KEYS
    /\ \A f \in findings : f.severity \in Severities /\ f.roles \subseteq STRING
    /\ summary.risk_score \in 0..100
    /\ summary.total = Len(summary.top) \/ summary.total > Len(summary.top)
    /\ Len(summary.top) <= MaxTop
    /\ \A p \in plan : \A i \in DOMAIN p : p[i] \in findings

\* Every finding of F is found in G as well, there perhaps of more principals
\* or roles and perhaps more severe.
Within(F, G) ==
    \A f \in F : \E g \in G :
      /\ g.rule = f.rule
      /\ g.resource = f.resource
      /\ f.principals \subseteq g.principals
      /\ f.roles \subseteq g.roles
      /\ ~Ahead(f, g)

Without(b, R) == [s \in DOMAIN b \ R |-> b[s]]

\* analysis.py:985-995, a check runs on what was read: a source that could
\* not be read makes no finding appear, name more, or get more severe.
LossNeverInvents ==
    phase = "reporting" =>
      \A s \in DOMAIN book : Within(analyze(Without(book, {s})), findings)

\* Services of the resources a source describes.
Describes(s) ==
    CASE s = "project_iam" -> {"iam"} [] s = "service_accounts" -> {"serviceAccount"}
      [] s = "gce_inventory" -> {"gce"} [] s = "gcs_inventory" -> {"gcs"}
      [] s = "bigquery_inventory" -> {"bigquery"}

\* README.md:117, if one service cannot be read the rest of the audit
\* continues: what is lost with a source are the findings about its own
\* resources, the severity of an attack path for want of the service accounts
\* (analysis.py:308), and, for want of the project's policy, what is known of
\* the roles of service accounts.
LossHidesOnlyItsOwn ==
    phase = "reporting" =>
      \A s \in DOMAIN book : \A f \in findings \ analyze(Without(book, {s})) :
        \/ f.resource[1] \in Describes(s)
        \/ s = "service_accounts" /\ f.rule = "IAM-PATH-ACTAS-ESCALATION"
        \/ /\ s = "project_iam"
           /\ f.rule \in {"IAM-SA-DISABLED-WITH-ROLES", "GCE-DEFAULT-SA-FULL-SCOPE",
                           "GCE-PRIVILEGED-SA-ATTACHED"}

\* analysis.py:1000-1014: what is dropped as a repeat says nothing that is not
\* published, neither a principal nor a role nor a severity.
RepeatsSayNothingNew == phase = "reporting" => Raised(book) \subseteq findings

\* analysis.py:43-50, 301-305: two grants that make an attack path are found
\* in whichever bindings of the policy they stand, and the finding names the
\* principal with both roles.
PathsAcrossBindings ==
    phase = "reporting" =>
      \A x, y \in _bindings(book) : \A p \in x.members \cap y.members :
        \/ x.role \in ACTAS_ROLES /\ y.role \in COMPUTE_EXECUTION_ROLES
        \/ x.role \in IMPERSONATION_ROLES /\ y.role \in DATA_READ_ROLES
        => \E f \in findings :
             /\ p \in f.principals
             /\ {x.role, y.role} \subseteq f.roles
             /\ f.severity \in {"CRITICAL", "HIGH"}

\* A list that was cut short, the summary's or the tool's, lost only the
\* least severe of what was asked for.
NothingStrongerHidden ==
    /\ \A a \in listed :
         LET given == {a.findings[i] : i \in DOMAIN a.findings}
             hidden == {f \in findings : Matches(f, a.query)} \ given
         IN  /\ hidden # {} => Len(a.findings) = Clamp(a.query.limit)
             /\ \A f \in hidden, g \in given : ~Ahead(f, g)
    /\ phase = "reporting" =>
         \A f \in findings : \A i \in DOMAIN summary.top :
           Ahead(f, summary.top[i]) => \E j \in 1..(i - 1) : summary.top[j] = f

\* findings.py:53, commands by severity: every CRITICAL finding has commands,
\* the plan holds all of them and nothing goes before them.
PlanStartsWithCriticals ==
    \A p \in plan : \A f \in findings : f.severity = "CRITICAL" =>
      \E i \in DOMAIN p : p[i] = f /\ \A j \in 1..i : p[j].severity = "CRITICAL"

\* Running commands of the plan, all or the first few, never makes the next
\* audit of the same sources find anything that this one had not found: no
\* principal hides behind another, no finding behind a stronger one, not even
\* when some source keeps its old inventory.
NothingNewAfterFix ==
    phase = "reporting" =>
      \A h \in former : DOMAIN book = h.sources => Within(findings, h.findings)

\* f is still what g was: of the same roles, principals among them.
StillThere(f, g) ==
    /\ f.rule = g.rule /\ f.resource = g.resource /\ f.roles \subseteq g.roles
    /\ f.principals = g.principals \/ f.principals \cap g.principals # {}

\* A role of f is bound on its resource with a condition.
BoundOnCondition(b, f) ==
    LET Conditional(X) == \E x \in X : x.condition /\ x.role \in f.roles
    IN  \/ f.resource = _project_ref /\ Conditional(_bindings(b))
        \/ \E a \in Accounts(b) : f.resource = AccountRef(a) /\ Conditional(a.bindings)
        \/ \E k \in Buckets(b) : f.resource = BucketRef(k) /\ Conditional(k.bindings)

\* f is about an instance its command does not reach: one with an address on
\* another interface than the first, or one that runs.
OutOfReach(b, f) ==
    \E i \in Machines(b) :
      /\ f.resource = InstanceRef(i)
      /\ \/ f.rule = "GCE-EXTERNAL-IP" /\ i.external_ips \ {"nic0"} # {}
         \/ f.rule = "GCE-DEFAULT-SA-FULL-SCOPE" /\ i.running

\* findings.py:53, the commands that close the findings: after the commands of
\* a finding a fresh audit finds nothing left of it, unless it was a basic role
\* or a public dataset (their commands only show the policy), an attack path by
\* way of a basic role (its command takes another role away), stood in a binding
\* of its resource with a condition, or is about an instance the command does
\* not reach.
CommandsClose ==
    phase = "reporting" /\ (\A s \in DOMAIN book : book[s] = cloud[s]) =>
      \A h \in former : \A g \in h.findings :
        remediation_commands(g) # {} /\ remediation_commands(g) \subseteq done =>
          \A f \in findings : StillThere(f, g) =>
            \/ f.rule \in {"IAM-PROJ-BASIC-ROLE", "BQ-PUBLIC-DATASET"}
            \/ f.rule = "IAM-PATH-ACTAS-ESCALATION" /\ f.roles \cap BASIC_ROLES # {}
            \/ BoundOnCondition(book, f)
            \/ OutOfReach(book, f)

=============================================================================
