----------------------------- MODULE RiskEngine -----------------------------
(***************************************************************************)
(* The deterministic stage of cryptojack_guard and the tools that read its *)
(* output.  Inventories of any subset of the sources are in the session;   *)
(* the engine turns them into signals, drops repeats, orders the rest and  *)
(* publishes a verdict and a score; the report agent then lists signals    *)
(* and asks for the response plan.                                         *)
(*                                                                         *)
(* An inventory is a set of records.  The text of a record is abstracted   *)
(* to what the rules ask of it: a threshold comparison is a Boolean, a     *)
(* name or a resource is a value, and "name in text" is a relation.        *)
(***************************************************************************)
EXTENDS Listing, FiniteSets, Functions

CONSTANTS
    Sources,        \* sources the agent is allowed to read
    Project,        \* the project assessed, also the resource of its signals
    Findings,       \* SCC findings that may be active
    Measurements,   \* per-instance telemetry records that may be read
    Instances,      \* instance records the Compute inventory may hold
    Quotas,         \* capacity quota records that may be read
    Budgets,        \* budgets the billing account may hold
    Constraints,    \* severity of each org policy constraint asked for
    IamAnalyses,    \* sets of findings the IAM rule engine may come to
    Mentions,       \* pairs <<a, b>>: the text of a occurs in the text of b
    Queries,        \* filters the report agent lists signals with
    MaxTop,         \* signals copied into the summary
    MaxDetail       \* signals one list_signals call returns

Severities == {"CRITICAL", "HIGH", "MEDIUM", "LOW"}
Confidences == {"CONFIRMED", "HIGH", "MEDIUM", "LOW"}
Kinds == {"detection", "preventive"}

\* What a source lists is finite, and so is what is asked of it; a severity that
\* is not one of the four has been replaced by one.
ASSUME RecordsAssumption ==
    /\ IsFiniteSet(Findings) /\ \A f \in Findings : f.severity \in Severities
    /\ IsFiniteSet(Measurements)
    /\ IsFiniteSet(Instances)
    /\ IsFiniteSet(Quotas)
    /\ IsFiniteSet(DOMAIN Constraints)
    /\ \A c \in DOMAIN Constraints : Constraints[c] \in Severities
    /\ \A A \in IamAnalyses : IsFiniteSet(A) /\ \A f \in A : f.severity \in Severities

ASSUME CapsAssumption == MaxTop \in Nat /\ MaxDetail \in Nat \ {0}

ASSUME QueriesAssumption == \A q \in Queries : q.limit \in Int

VARIABLES
    phase,      \* "collecting" or "reporting"
    book,       \* inventories read so far, by source
    signals,    \* signals the engine published, repeats dropped
    summary,    \* verdict, score and top signals for the report agent
    shown,      \* the latest answer of list_signals with its query, if any
    plan        \* the latest answer of get_response_plan, if any

vars == <<phase, book, signals, summary, shown, plan>>

-----------------------------------------------------------------------------
(***************************************************************************)
(* Signals.  The subject is what the evidence names beside the resource.   *)
(***************************************************************************)
Detection(rule, resource, severity, confidence) ==
    [rule |-> rule, resource |-> resource, subject |-> resource, severity |-> severity,
     confidence |-> confidence, kind |-> "detection"]

Preventive(rule, resource, subject, severity) ==
    [rule |-> rule, resource |-> resource, subject |-> subject, severity |-> severity,
     confidence |-> "LOW", kind |-> "preventive"]

\* The records of source s in b, none when s was not read.
Records(b, s) == IF s \in DOMAIN b THEN b[s] ELSE {}

Mining(b) == {f \in Records(b, "scc") : f.category = "mining"}

_scc_signals(b) ==
    {Detection("SCC-MINING-DETECTION", f.resource, "CRITICAL", "CONFIRMED") : f \in Mining(b)}
      \cup {Detection("SCC-THREAT-FINDING", f.resource, f.severity, "MEDIUM") :
              f \in {g \in Records(b, "scc") : g.category = "threat"}}

Pinned(m) == m.hot /\ m.sustained

_utilization_signals(b) ==
    {Detection("MON-SUSTAINED-CPU", m.instance, "HIGH", "MEDIUM") :
        m \in {x \in Records(b, "monitoring") : Pinned(x)}}
      \cup {Detection("MON-GPU-SATURATION", m.instance, "MEDIUM", "LOW") :
              m \in {x \in Records(b, "monitoring") : x.gpu}}

\* Saturated instances the inventory knows by name.
Saturated(b) ==
    {i \in Records(b, "gce") :
       \E m \in Records(b, "monitoring") : m.instance = i.name /\ (Pinned(m) \/ m.gpu)}

\* Mutation: any finding that names the instance confirms it.
NamedByAnyFinding(b, i) ==
    \E f \in Records(b, "scc") : f.resource # Project /\ <<i.name, f.resource>> \in Mentions

\* Some mining finding's resource name contains the instance's name.
NamedByScc(b, i) ==
    \E f \in Mining(b) : f.resource # Project /\ <<i.name, f.resource>> \in Mentions

_correlation_signals(b) ==
    {Detection("CORR-CONFIRMED-MINER", i.name, "CRITICAL", "CONFIRMED") :
        i \in {x \in Saturated(b) : NamedByScc(b, x)}}
      \cup {Detection("CORR-SATURATED-EXPOSED-PRIVILEGED", i.name, "CRITICAL", "HIGH") :
              i \in {x \in Saturated(b) : ~NamedByScc(b, x) /\ x.exposed /\ x.broad}}

\* Mutation: an inventory that was not read counts as an empty one.
UnusedRegion(b, r) == \A i \in Records(b, "gce") : i.region # r

\* The inventory holds instances, but none in region r.
UnexpectedRegion(b, r) ==
    /\ Records(b, "gce") # {}
    /\ \A i \in Records(b, "gce") : i.region # r

_quota_signals(b) ==
    {Detection("QUOTA-UNEXPECTED-REGION", q.region, "HIGH", "MEDIUM") :
        q \in {x \in Records(b, "quotas") :
                x.usage # "none" /\ UnexpectedRegion(b, x.region)}}
      \cup {Detection("QUOTA-NEAR-LIMIT", q.region, "MEDIUM", "LOW") :
              q \in {x \in Records(b, "quotas") :
                      x.usage = "near_limit" /\ ~UnexpectedRegion(b, x.region)}}

\* A budget without a project filter covers the whole billing account.
Covering(b) ==
    {g \in Records(b, "budgets") :
       g.projects = {} \/ \E p \in g.projects : <<Project, p>> \in Mentions}

_budget_signals(b) ==
    IF "budgets" \notin DOMAIN b THEN {}
    ELSE IF Covering(b) = {} THEN {Preventive("BILLING-NO-BUDGET", Project, Project, "HIGH")}
    ELSE IF \E g \in Covering(b) : g.notifies THEN {}
    ELSE {Preventive("BILLING-BUDGET-WITHOUT-ALERTS", Project, Project, "MEDIUM")}

_policy_signals(b) ==
    {Preventive("POLICY", p.constraint, Project, Constraints[p.constraint]) :
        p \in {x \in Records(b, "policies") : ~x.enforced}}

\* The rule id is CJ-IAM- and the finding's own; the principal is evidence.
_iam_precondition_signals(b) ==
    {Preventive("IAM", <<f.rule, f.resource>>, f.principal, f.severity) :
        f \in {x \in Records(b, "iam") : x.cryptojacking}}

Signals(b) ==
    _scc_signals(b) \cup _utilization_signals(b) \cup _correlation_signals(b)
      \cup _quota_signals(b) \cup _budget_signals(b) \cup _policy_signals(b)
      \cup _iam_precondition_signals(b)

-----------------------------------------------------------------------------
(***************************************************************************)
(* What the engine does with the signals.                                  *)
(***************************************************************************)

\* Mutation: repeats are found by their resource alone.
SameResource(s, t) == s.resource = t.resource

SameKey(s, t) == s.rule = t.rule /\ s.resource = t.resource

Rivals(S) == {s \in S : \E t \in S : t # s /\ SameKey(s, t)}

\* The first signal of every rule and resource is kept; the sources list
\* their records in no particular order, so any of them may be first.
dedupe_signals(S) ==
    {(S \ Rivals(S)) \cup kept :
       kept \in {K \in SUBSET Rivals(S) :
                   /\ \A s \in Rivals(S) : \E t \in K : SameKey(s, t)
                   /\ \A s, t \in K : SameKey(s, t) => s = t}}

ConfidenceRank(c) ==
    CASE c = "CONFIRMED" -> 0 [] c = "HIGH" -> 1 [] c = "MEDIUM" -> 2 [] c = "LOW" -> 3

SeverityRank(v) ==
    CASE v = "CRITICAL" -> 0 [] v = "HIGH" -> 1 [] v = "MEDIUM" -> 2 [] v = "LOW" -> 3

\* Mutation: severity leads.
AheadBySeverity(s, t) ==
    \/ SeverityRank(s.severity) < SeverityRank(t.severity)
    \/ /\ s.severity = t.severity
       /\ ConfidenceRank(s.confidence) < ConfidenceRank(t.confidence)

\* s goes before t.  Signals of equal rank are ordered by their texts, which
\* is some fixed order.
Ahead(s, t) ==
    \/ ConfidenceRank(s.confidence) < ConfidenceRank(t.confidence)
    \/ /\ s.confidence = t.confidence
       /\ SeverityRank(s.severity) < SeverityRank(t.severity)

sort_signals(S) == InOrder(S, {p \in S \X S : Ahead(p[1], p[2])})

\* Mutation: the kind of a signal is not looked at.
SignalsOfAnyKind(S) == S

Detections(S) == {s \in S : s.kind = "detection"}

verdict(S) ==
    IF \E s \in Detections(S) : s.confidence = "CONFIRMED" THEN "confirmed_mining"
    ELSE IF \E s \in Detections(S) : s.confidence = "HIGH" THEN "likely_mining"
    ELSE IF Detections(S) # {} THEN "suspected_mining"
    ELSE IF S # {} THEN "no_detections_preventive_gaps"
    ELSE "clean"

\* Mutation: confidence does not multiply.
WeightOfSeverity(s) ==
    CASE s.severity = "CRITICAL" -> 50 [] s.severity = "HIGH" -> 20
      [] s.severity = "MEDIUM" -> 8 [] s.severity = "LOW" -> 2

\* Twice the weight of a signal: the multipliers are halves.
Weight(s) ==
    LET severity == CASE s.severity = "CRITICAL" -> 25 [] s.severity = "HIGH" -> 10
                      [] s.severity = "MEDIUM" -> 4 [] s.severity = "LOW" -> 1
        twice == CASE s.confidence = "CONFIRMED" -> 4 [] s.confidence = "HIGH" -> 3
                   [] s.confidence = "MEDIUM" -> 2 [] s.confidence = "LOW" -> 1
    IN  severity * twice

\* Mutation: no upper bound.
UncappedScore(S) == SumFunction([s \in S |-> Weight(s)]) \div 2

risk_score(S) ==
    LET total == SumFunction([s \in S |-> Weight(s)]) \div 2
    IN  IF total < 100 THEN total ELSE 100

summarize(S) ==
    [verdict |-> verdict(S), score |-> risk_score(S), top |-> Upto(sort_signals(S), MaxTop)]

-----------------------------------------------------------------------------
(***************************************************************************)
(* The tools of the report agent.                                          *)
(***************************************************************************)

\* A filter is a record of allowed values; the empty set does not filter.
Matches(s, q) ==
    /\ q.confidence = {} \/ s.confidence \in q.confidence
    /\ q.kind = {} \/ s.kind \in q.kind
    /\ q.severity = {} \/ s.severity \in q.severity

Clamp(limit) == IF limit < 1 THEN 1 ELSE IF limit > MaxDetail THEN MaxDetail ELSE limit

\* Mutation: the list is cut before it is filtered.
CutThenFilter(S, q) ==
    Those(Upto(sort_signals(S), Clamp(q.limit)), {s \in S : Matches(s, q)})

list_signals(S, q) ==
    Upto(Those(sort_signals(S), {s \in S : Matches(s, q)}), Clamp(q.limit))

\* Mutation: only confirmed mining is contained.
ContainConfirmed(s) == s.kind = "detection" /\ s.confidence = "CONFIRMED"

Contain(s) == s.kind = "detection" /\ s.confidence \in {"CONFIRMED", "HIGH"}
Triage(s) == s.kind = "detection" /\ s.confidence \notin {"CONFIRMED", "HIGH"}
Harden(s) == s.kind = "preventive"

Belongs(s, ph) ==
    \/ ph = "contain" /\ Contain(s)
    \/ ph = "triage" /\ Triage(s)
    \/ ph = "harden" /\ Harden(s)

Steps(S, ph) ==
    LET chosen == Those(sort_signals(S), {s \in S : Belongs(s, ph)})
    IN  [i \in DOMAIN chosen |-> [phase |-> ph, signal |-> chosen[i]]]

get_response_plan(S) ==
    Steps(S, "contain") \o Steps(S, "triage") \o Steps(S, "harden")

-----------------------------------------------------------------------------
(***************************************************************************)
(* The session: any subset of the sources is read, then the engine runs,   *)
(* then the report agent calls its tools.                                  *)
(***************************************************************************)
NoSummary == [verdict |-> "none", score |-> 0, top |-> <<>>]

\* One record per constraint; a constraint that could not be read is recorded
\* as not enforced, with a detail saying so.
_effective_constraint(c, answer) ==
    [constraint |-> c, enforced |-> answer = "enforcing", unreadable |-> answer = "unreadable"]

OrgPolicies ==
    {{_effective_constraint(c, answer[c]) : c \in DOMAIN Constraints} :
       answer \in [DOMAIN Constraints -> {"enforcing", "open", "unreadable"}]}

\* Inventories a read of source s may return.  An instance has one record.
Inventories(s) ==
    CASE s = "scc" -> SUBSET Findings
      [] s = "monitoring" -> {M \in SUBSET Measurements :
                                \A x, y \in M : x.instance = y.instance => x = y}
      [] s = "gce" -> {I \in SUBSET Instances : \A x, y \in I : x.name = y.name => x = y}
      [] s = "quotas" -> SUBSET Quotas
      [] s = "budgets" -> SUBSET Budgets
      [] s = "policies" -> OrgPolicies
      [] s = "iam" -> IamAnalyses

Collect(s) ==
    /\ phase = "collecting"
    /\ s \notin DOMAIN book
    /\ \E records \in Inventories(s) :
         book' = [t \in DOMAIN book \cup {s} |-> IF t = s THEN records ELSE book[t]]
    /\ UNCHANGED <<phase, signals, summary, shown, plan>>

\* The engine runs on whatever was read; when that is nothing it publishes
\* the summary of an empty list, which is also what the rules would give.
RunEngine ==
    /\ phase = "collecting"
    /\ phase' = "reporting"
    /\ \E unique \in dedupe_signals(Signals(book)) :
         /\ signals' = unique
         /\ summary' = summarize(unique)
    /\ UNCHANGED <<book, shown, plan>>

ListSignals(q) ==
    /\ phase = "reporting"
    /\ shown' = {[query |-> q, signals |-> list_signals(signals, q)]}
    /\ UNCHANGED <<phase, book, signals, summary, plan>>

GetResponsePlan ==
    /\ phase = "reporting"
    /\ plan' = {get_response_plan(signals)}
    /\ UNCHANGED <<phase, book, signals, summary, shown>>

Init ==
    /\ phase = "collecting"
    /\ book = [s \in {} |-> {}]
    /\ signals = {}
    /\ summary = NoSummary
    /\ shown = {}
    /\ plan = {}

Next ==
    \/ \E s \in Sources : Collect(s)
    \/ RunEngine
    \/ \E q \in Queries : ListSignals(q)
    \/ GetResponsePlan

Spec == Init /\ [][Next]_vars

-----------------------------------------------------------------------------
(***************************************************************************)
(* Properties the code has.                                                *)
(***************************************************************************)
Rule == {"SCC-THREAT-FINDING", "SCC-MINING-DETECTION", "MON-SUSTAINED-CPU",
         "MON-GPU-SATURATION", "CORR-CONFIRMED-MINER", "CORR-SATURATED-EXPOSED-PRIVILEGED",
         "QUOTA-UNEXPECTED-REGION", "QUOTA-NEAR-LIMIT", "BILLING-NO-BUDGET",
         "BILLING-BUDGET-WITHOUT-ALERTS", "POLICY", "IAM"}

VerdictRank(v) ==
    IF v = "confirmed_mining" THEN 5
    ELSE IF v = "likely_mining" THEN 4
    ELSE IF v = "suspected_mining" THEN 3
    ELSE IF v = "no_detections_preventive_gaps" THEN 2
    ELSE 1

TypeOK ==
    /\ phase \in {"collecting", "reporting"}
    /\ DOMAIN book \subseteq Sources
    /\ \A s \in signals : s.rule \in Rule /\ s.severity \in Severities
                            /\ s.confidence \in Confidences /\ s.kind \in Kinds
    /\ phase = "reporting" => summary.score \in 0..100

\* Which repeat is dropped never matters to the verdict: the published one is
\* the verdict over every signal the rules raised.
RepeatsNeverDecide ==
    phase = "reporting" => summary.verdict = verdict(Signals(book))

\* analysis.py:9, the only route to "confirmed": the verdict is
\* confirmed_mining exactly when Security Command Center was read and held a
\* mining finding, whatever the other sources say or could not say.
ConfirmedByScc ==
    phase = "reporting" => (summary.verdict = "confirmed_mining" <=> Mining(book) # {})

\* b without the sources in R: what the engine would have seen had the agent
\* not been able to read them.
Without(b, R) == [s \in DOMAIN b \ R |-> b[s]]

\* analysis.py:789, preventive gaps never influence the mining verdict: a
\* verdict of suspicion or worse is the one the detection sources give alone.
GapsNeverSway ==
    phase = "reporting" /\ VerdictRank(summary.verdict) > 2 =>
      verdict(Signals(Without(book, {"budgets", "policies", "iam"}))) = summary.verdict

\* README.md:288-290: a source that cannot be read never produces a signal
\* out of its absence.  Losing any one source of what was read gives no worse
\* a verdict; as any subset can be what was read, nor does losing several.
LossNeverAccuses ==
    phase = "reporting" =>
      \A s \in DOMAIN book :
        VerdictRank(verdict(Signals(Without(book, {s})))) <= VerdictRank(summary.verdict)

\* signals.py:58-67: the response plan holds every published signal once, in
\* phase order, and has something to contain exactly when the verdict is
\* confirmed or likely mining.
PlanFollowsVerdict ==
    \A p \in plan :
      /\ Len(p) = Cardinality(signals)
      /\ {p[i].signal : i \in DOMAIN p} = signals
      /\ (\E i \in DOMAIN p : p[i].phase = "contain")
           <=> summary.verdict \in {"confirmed_mining", "likely_mining"}
      /\ \A i, j \in DOMAIN p :
           /\ i < j /\ p[j].phase = "contain" => p[i].phase = "contain"
           /\ i < j /\ p[i].phase = "harden" => p[j].phase = "harden"
           /\ i < j /\ p[i].phase = p[j].phase => ~Ahead(p[j].signal, p[i].signal)

\* A list that was cut short lost only the weakest of what was asked for, and
\* a list that was not holds all of it.
NothingStrongerHidden ==
    \A a \in shown :
      LET listed == {a.signals[i] : i \in DOMAIN a.signals}
          hidden == {s \in signals : Matches(s, a.query)} \ listed
      IN  /\ listed \subseteq signals
          /\ hidden # {} => Len(a.signals) = Clamp(a.query.limit)
          /\ \A s \in hidden, t \in listed : ~Ahead(s, t)

\* models.py:108: in the summary no hardening advice comes before a detection
\* of at least medium confidence, and such a detection is left out only for
\* others of its kind.
AdviceNeverLeads ==
    phase = "reporting" =>
      \A s \in signals : s.kind = "detection" /\ s.confidence # "LOW" =>
        \A i \in DOMAIN summary.top :
          summary.top[i].kind = "preventive" =>
            \E j \in 1..(i - 1) : summary.top[j] = s

\* The score and the verdict are computed apart and do not contradict each
\* other: a confirmed or likely verdict carries the weight of its signal.
ScoreBacksVerdict ==
    phase = "reporting" =>
      /\ summary.verdict = "confirmed_mining" => summary.score >= 50
      /\ summary.verdict = "likely_mining" => summary.score >= 37
      /\ summary.verdict = "clean" => summary.score = 0

-----------------------------------------------------------------------------
(***************************************************************************)
(* Statements of a comment or of a test that the code does not keep.       *)
(***************************************************************************)

\* analysis.py:9: only a threat-detection product can produce CONFIRMED.  An
\* instance confirmed is one a mining finding is about.
ConfirmedInstanceIsNamed ==
    \A s \in signals : s.confidence = "CONFIRMED" =>
      \E f \in Mining(book) : f.resource = s.resource

\* analysis.py:785-788: the findings the IAM engine categorises as cryptojacking
\* exposure are kept, to say who can create compute.
PreconditionsKept ==
    phase = "reporting" =>
      \A f \in Records(book, "iam") : f.cryptojacking =>
        \E s \in signals : s.rule = "IAM" /\ s.resource[1] = f.rule /\ s.subject = f.principal

\* test_cryptojack_analysis.py:709: an unreadable constraint is skipped, not
\* guessed.
UnreadableNotGuessed ==
    \A s \in signals : s.rule = "POLICY" =>
      \E p \in book["policies"] : p.constraint = s.resource /\ ~p.unreadable

=============================================================================
