------------------------- MODULE RiskEngine_proofs -------------------------
(***************************************************************************)
(* Proofs about the risk engine, for every set of records the sources may  *)
(* hold and every relation between their texts.                            *)
(***************************************************************************)
EXTENDS RiskEngine, Listing_proofs

-----------------------------------------------------------------------------
(***************************************************************************)
(* Facts about the rules.                                                  *)
(***************************************************************************)

\* The confidence and the kind every signal of a rule has.
RuleConfidence(r) ==
    IF r \in {"SCC-MINING-DETECTION", "CORR-CONFIRMED-MINER"} THEN "CONFIRMED"
    ELSE IF r = "CORR-SATURATED-EXPOSED-PRIVILEGED" THEN "HIGH"
    ELSE IF r \in {"SCC-THREAT-FINDING", "MON-SUSTAINED-CPU", "QUOTA-UNEXPECTED-REGION"}
    THEN "MEDIUM" ELSE "LOW"

RuleKind(r) ==
    IF r \in {"BILLING-NO-BUDGET", "BILLING-BUDGET-WITHOUT-ALERTS", "POLICY", "IAM"}
    THEN "preventive" ELSE "detection"

\* Every signal the rules raise has the confidence and the kind of its rule.
LEMMA RuleDecides ==
    ASSUME NEW b, NEW s \in Signals(b)
    PROVE  s.confidence = RuleConfidence(s.rule) /\ s.kind = RuleKind(s.rule)
<1>1. CASE s \in _scc_signals(b)
  BY <1>1 DEF _scc_signals, Detection, RuleConfidence, RuleKind
<1>2. CASE s \in _utilization_signals(b)
  BY <1>2 DEF _utilization_signals, Detection, RuleConfidence, RuleKind
<1>3. CASE s \in _correlation_signals(b)
  BY <1>3 DEF _correlation_signals, Detection, RuleConfidence, RuleKind
<1>4. CASE s \in _quota_signals(b)
  BY <1>4 DEF _quota_signals, Detection, RuleConfidence, RuleKind
<1>5. CASE s \in _budget_signals(b)
  BY <1>5 DEF _budget_signals, Preventive, RuleConfidence, RuleKind
<1>6. CASE s \in _policy_signals(b)
  BY <1>6 DEF _policy_signals, Preventive, RuleConfidence, RuleKind
<1>7. CASE s \in _iam_precondition_signals(b)
  BY <1>7 DEF _iam_precondition_signals, Preventive, RuleConfidence, RuleKind
<1> QED
  BY <1>1, <1>2, <1>3, <1>4, <1>5, <1>6, <1>7 DEF Signals

\* Dropping repeats keeps a signal of every key and adds none.
LEMMA DedupeKeeps ==
    ASSUME NEW S, NEW D \in dedupe_signals(S)
    PROVE  /\ D \subseteq S
           /\ \A s \in S : \E d \in D : SameKey(s, d)
<1>1. PICK K \in SUBSET Rivals(S) :
        /\ \A s \in Rivals(S) : \E t \in K : SameKey(s, t)
        /\ D = (S \ Rivals(S)) \cup K
  BY DEF dedupe_signals
<1>2. Rivals(S) \subseteq S
  BY DEF Rivals
<1>3. ASSUME NEW s \in S
      PROVE  \E d \in D : SameKey(s, d)
  <2>1. CASE s \in Rivals(S)
    BY <1>1, <2>1
  <2>2. CASE s \notin Rivals(S)
    BY <1>1, <2>2 DEF SameKey
  <2> QED BY <2>1, <2>2
<1> QED BY <1>1, <1>2, <1>3

\* Two sets of signals whose detections reach the same confidences, and that
\* are empty together, get the same verdict.
LEMMA SameVerdict ==
    ASSUME NEW S, NEW T,
           \A c : (\E s \in Detections(S) : s.confidence = c)
                    <=> (\E t \in Detections(T) : t.confidence = c),
           S = {} <=> T = {}
    PROVE  verdict(S) = verdict(T)
<1>1. Detections(S) = {} <=> Detections(T) = {}
  OBVIOUS
<1> QED BY <1>1 DEF verdict

\* Which repeat is dropped never matters to the verdict.
LEMMA DedupeVerdict ==
    ASSUME NEW b, NEW D \in dedupe_signals(Signals(b))
    PROVE  verdict(D) = verdict(Signals(b))
<1> DEFINE S == Signals(b)
<1>1. D \subseteq S /\ \A s \in S : \E d \in D : SameKey(s, d)
  BY DedupeKeeps
<1>2. ASSUME NEW s \in S, NEW d \in D, SameKey(s, d)
      PROVE  s.confidence = d.confidence /\ s.kind = d.kind
  <2>1. d \in S
    BY <1>1
  <2>2. s.rule = d.rule
    BY <1>2 DEF SameKey
  <2> HIDE DEF S
  <2>3. /\ s.confidence = RuleConfidence(s.rule) /\ s.kind = RuleKind(s.rule)
        /\ d.confidence = RuleConfidence(d.rule) /\ d.kind = RuleKind(d.rule)
    BY <2>1, RuleDecides DEF S
  <2> QED BY <2>2, <2>3
<1>3. ASSUME NEW c
      PROVE  (\E s \in Detections(S) : s.confidence = c)
               <=> (\E d \in Detections(D) : d.confidence = c)
  <2>1. ASSUME NEW s \in Detections(S), s.confidence = c
        PROVE  \E d \in Detections(D) : d.confidence = c
    BY <1>1, <1>2, <2>1 DEF Detections
  <2>2. ASSUME NEW d \in Detections(D), d.confidence = c
        PROVE  \E s \in Detections(S) : s.confidence = c
    BY <1>1, <2>2 DEF Detections
  <2> QED BY <2>1, <2>2
<1>4. S = {} <=> D = {}
  BY <1>1
<1> HIDE DEF S
<1> QED BY <1>3, <1>4, SameVerdict DEF S

\* A confirming signal is raised exactly when a mining finding was read.
LEMMA ConfirmedMeansMining ==
    ASSUME NEW b
    PROVE  (\E s \in Detections(Signals(b)) : s.confidence = "CONFIRMED") <=> Mining(b) # {}
<1>1. ASSUME NEW s \in Signals(b), s.confidence = "CONFIRMED"
      PROVE  Mining(b) # {}
  <2>2. CASE s \in _scc_signals(b)
    BY <1>1, <2>2 DEF _scc_signals, Detection
  <2>3. CASE s \in _utilization_signals(b)
    BY <1>1, <2>3 DEF _utilization_signals, Detection
  <2>4. CASE s \in _correlation_signals(b)
    <3>1. PICK i : NamedByScc(b, i)
      BY <1>1, <2>4 DEF _correlation_signals, Detection
    <3> QED BY <3>1 DEF NamedByScc
  <2>5. CASE s \in _quota_signals(b)
    BY <1>1, <2>5 DEF _quota_signals, Detection
  <2>6. CASE s \in _budget_signals(b) \cup _policy_signals(b) \cup _iam_precondition_signals(b)
    BY <1>1, <2>6 DEF _budget_signals, _policy_signals, _iam_precondition_signals, Preventive
  <2> QED BY <2>2, <2>3, <2>4, <2>5, <2>6 DEF Signals
<1>2. ASSUME NEW f \in Mining(b)
      PROVE  \E s \in Detections(Signals(b)) : s.confidence = "CONFIRMED"
  <2> DEFINE s == Detection("SCC-MINING-DETECTION", f.resource, "CRITICAL", "CONFIRMED")
  <2>1. s \in Signals(b)
    BY DEF Signals, _scc_signals
  <2>2. s.kind = "detection" /\ s.confidence = "CONFIRMED"
    BY DEF Detection
  <2> HIDE DEF s
  <2> QED BY <2>1, <2>2 DEF Detections
<1> QED BY <1>1, <1>2 DEF Detections

-----------------------------------------------------------------------------
(***************************************************************************)
(* Losing sources.                                                         *)
(***************************************************************************)

\* A source that remains is as it was; a lost one has no records.
LEMMA LostRecords ==
    ASSUME NEW b, NEW R, NEW s
    PROVE  Records(Without(b, R), s) = IF s \in R THEN {} ELSE Records(b, s)
BY DEF Records, Without

\* The preventive sources raise no detection and feed no detection rule.
LEMMA DetectionsIgnoreGaps ==
    ASSUME NEW b
    PROVE  Detections(Signals(Without(b, {"budgets", "policies", "iam"}))) = Detections(Signals(b))
<1> DEFINE c == Without(b, {"budgets", "policies", "iam"})
<1>1. /\ Records(c, "scc") = Records(b, "scc")
      /\ Records(c, "monitoring") = Records(b, "monitoring")
      /\ Records(c, "gce") = Records(b, "gce")
      /\ Records(c, "quotas") = Records(b, "quotas")
  BY LostRecords
<1> HIDE DEF c
<1>2. Mining(c) = Mining(b)
  BY <1>1 DEF Mining
<1>3. _scc_signals(c) = _scc_signals(b)
  BY <1>1, <1>2 DEF _scc_signals
<1>4. _utilization_signals(c) = _utilization_signals(b)
  BY <1>1 DEF _utilization_signals
<1>5. _correlation_signals(c) = _correlation_signals(b)
  <2>1. Saturated(c) = Saturated(b)
    BY <1>1 DEF Saturated
  <2>2. \A i : NamedByScc(c, i) <=> NamedByScc(b, i)
    BY <1>2 DEF NamedByScc
  <2> QED BY <2>1, <2>2 DEF _correlation_signals
<1>6. _quota_signals(c) = _quota_signals(b)
  <2>1. \A r : UnexpectedRegion(c, r) <=> UnexpectedRegion(b, r)
    BY <1>1 DEF UnexpectedRegion
  <2> QED BY <1>1, <2>1 DEF _quota_signals
<1>7. ASSUME NEW d,
             NEW s \in _budget_signals(d) \cup _policy_signals(d) \cup _iam_precondition_signals(d)
      PROVE  s.kind # "detection"
  BY DEF _budget_signals, _policy_signals, _iam_precondition_signals, Preventive
<1> QED
  BY <1>3, <1>4, <1>5, <1>6, <1>7 DEF Detections, Signals, c

\* A rule's signal seen without some sources is seen with them too, except
\* that a correlation may be confirmed and a quota signal may turn from "near
\* limit" to "unexpected region".  In no case does a detection go away, or a
\* confidence above MEDIUM fall.
LEMMA LossKeepsLess ==
    ASSUME NEW b, NEW R, NEW s \in Signals(Without(b, R))
    PROVE  \E t \in Signals(b) :
             /\ t.kind = s.kind
             /\ s.confidence = "CONFIRMED" => t.confidence = "CONFIRMED"
             /\ s.confidence = "HIGH" => t.confidence \in {"CONFIRMED", "HIGH"}
<1> DEFINE c == Without(b, R)
<1>1. \A r : Records(c, r) = IF r \in R THEN {} ELSE Records(b, r)
  BY LostRecords
<1>2. DOMAIN c \subseteq DOMAIN b
  BY DEF Without
<1>3. s \in Signals(c)
  OBVIOUS
<1> HIDE DEF c
<1>4. Mining(c) \subseteq Mining(b)
  BY <1>1 DEF Mining
<1>5. CASE s \in _scc_signals(c)
  <2>1. s \in _scc_signals(b)
    BY <1>1, <1>4, <1>5 DEF _scc_signals
  <2> QED BY <2>1 DEF Signals
<1>6. CASE s \in _utilization_signals(c)
  <2>1. s \in _utilization_signals(b)
    BY <1>1, <1>6 DEF _utilization_signals
  <2> QED BY <2>1 DEF Signals
<1>7. CASE s \in _correlation_signals(c)
  <2>1. PICK i \in Saturated(c) :
          /\ s.kind = "detection"
          /\ \/ NamedByScc(c, i)
             \/ i.exposed /\ i.broad /\ s.confidence = "HIGH"
    BY <1>7 DEF _correlation_signals, Detection
  <2>2. i \in Saturated(b)
    BY <1>1, <2>1 DEF Saturated
  <2>3. CASE NamedByScc(b, i)
    <3> DEFINE t == Detection("CORR-CONFIRMED-MINER", i.name, "CRITICAL", "CONFIRMED")
    <3>1. t \in Signals(b)
      BY <2>2, <2>3 DEF Signals, _correlation_signals
    <3>2. t.kind = "detection" /\ t.confidence = "CONFIRMED"
      BY DEF Detection
    <3> QED BY <2>1, <3>1, <3>2
  <2>4. CASE ~NamedByScc(b, i)
    <3>1. ~NamedByScc(c, i)
      BY <1>4, <2>4 DEF NamedByScc
    <3> DEFINE t == Detection("CORR-SATURATED-EXPOSED-PRIVILEGED", i.name, "CRITICAL", "HIGH")
    <3>2. t \in Signals(b)
      BY <2>1, <2>2, <2>4, <3>1 DEF Signals, _correlation_signals
    <3>3. t.kind = "detection" /\ t.confidence = "HIGH"
      BY DEF Detection
    <3> QED BY <2>1, <3>1, <3>2, <3>3
  <2> QED BY <2>3, <2>4
<1>8. CASE s \in _quota_signals(c)
  <2>1. PICK q \in Records(c, "quotas") :
          /\ \/ q.usage # "none" /\ UnexpectedRegion(c, q.region)
             \/ q.usage = "near_limit" /\ ~UnexpectedRegion(c, q.region)
          /\ s.kind = "detection" /\ s.confidence \in {"MEDIUM", "LOW"}
    BY <1>8 DEF _quota_signals, Detection
  <2>2. q \in Records(b, "quotas")
    BY <1>1, <2>1
  <2>3. UnexpectedRegion(c, q.region) => UnexpectedRegion(b, q.region)
    BY <1>1 DEF UnexpectedRegion
  <2>4. CASE UnexpectedRegion(b, q.region)
    <3> DEFINE t == Detection("QUOTA-UNEXPECTED-REGION", q.region, "HIGH", "MEDIUM")
    <3>1. t \in Signals(b)
      BY <2>1, <2>2, <2>4 DEF Signals, _quota_signals
    <3>2. t.kind = "detection"
      BY DEF Detection
    <3> QED BY <2>1, <3>1, <3>2
  <2>5. CASE ~UnexpectedRegion(b, q.region)
    <3> DEFINE t == Detection("QUOTA-NEAR-LIMIT", q.region, "MEDIUM", "LOW")
    <3>1. t \in Signals(b)
      BY <2>1, <2>2, <2>3, <2>5 DEF Signals, _quota_signals
    <3>2. t.kind = "detection"
      BY DEF Detection
    <3> QED BY <2>1, <3>1, <3>2
  <2> QED BY <2>4, <2>5
<1>9. CASE s \in _budget_signals(c)
  <2>1. "budgets" \in DOMAIN c
    BY <1>9 DEF _budget_signals
  <2>2. "budgets" \in DOMAIN b /\ "budgets" \notin R
    BY <2>1 DEF c, Without
  <2>3. Covering(c) = Covering(b)
    BY <1>1, <2>2 DEF Covering
  <2>4. s \in _budget_signals(b)
    BY <1>9, <2>1, <2>2, <2>3 DEF _budget_signals
  <2> QED BY <2>4 DEF Signals
<1>10. CASE s \in _policy_signals(c)
  <2>1. s \in _policy_signals(b)
    BY <1>1, <1>10 DEF _policy_signals
  <2> QED BY <2>1 DEF Signals
<1>11. CASE s \in _iam_precondition_signals(c)
  <2>1. s \in _iam_precondition_signals(b)
    BY <1>1, <1>11 DEF _iam_precondition_signals
  <2> QED BY <2>1 DEF Signals
<1> QED BY <1>3, <1>5, <1>6, <1>7, <1>8, <1>9, <1>10, <1>11 DEF Signals

\* The verdict without some sources is no worse than with them.
LEMMA LossLowersVerdict ==
    ASSUME NEW b, NEW R
    PROVE  VerdictRank(verdict(Signals(Without(b, R)))) <= VerdictRank(verdict(Signals(b)))
<1> DEFINE S == Signals(Without(b, R))
           T == Signals(b)
<1>1. \A s \in S : \E t \in T :
        /\ t.kind = s.kind
        /\ s.confidence = "CONFIRMED" => t.confidence = "CONFIRMED"
        /\ s.confidence = "HIGH" => t.confidence \in {"CONFIRMED", "HIGH"}
  BY LossKeepsLess
<1> HIDE DEF S, T
<1>2. /\ S # {} => T # {}
      /\ Detections(S) # {} => Detections(T) # {}
      /\ (\E s \in Detections(S) : s.confidence = "CONFIRMED") =>
           \E t \in Detections(T) : t.confidence = "CONFIRMED"
      /\ (\E s \in Detections(S) : s.confidence = "HIGH") =>
           \E t \in Detections(T) : t.confidence \in {"CONFIRMED", "HIGH"}
  BY <1>1 DEF Detections
<1>3. VerdictRank(verdict(S)) <= VerdictRank(verdict(T))
  BY <1>2 DEF verdict, VerdictRank
<1> QED BY <1>3 DEF S, T

-----------------------------------------------------------------------------
(***************************************************************************)
(* What may be read, and what the rules make of it.                        *)
(***************************************************************************)

\* b holds inventories the sources may return.
MayHold(b) == DOMAIN b \subseteq Sources /\ \A s \in DOMAIN b : b[s] \in Inventories(s)

\* S is a finite set of signals with ranks.
Ranked(S) ==
    /\ IsFiniteSet(S)
    /\ \A s \in S : /\ s.rule \in Rule /\ s.severity \in Severities
                    /\ s.confidence \in Confidences /\ s.kind \in Kinds

\* The records of a source are finitely many.
LEMMA RecordsAreFinite ==
    ASSUME NEW b, MayHold(b)
    PROVE  /\ IsFiniteSet(Records(b, "scc")) /\ Records(b, "scc") \subseteq Findings
           /\ IsFiniteSet(Records(b, "monitoring"))
           /\ IsFiniteSet(Records(b, "gce"))
           /\ IsFiniteSet(Records(b, "quotas"))
           /\ IsFiniteSet(Records(b, "policies"))
           /\ \A p \in Records(b, "policies") : p.constraint \in DOMAIN Constraints
           /\ IsFiniteSet(Records(b, "iam"))
           /\ \A f \in Records(b, "iam") : f.severity \in Severities
<1>0. IsFiniteSet({})
  BY FS_EmptySet
<1>1. Records(b, "scc") \in SUBSET Findings
  BY DEF MayHold, Records, Inventories
<1>2. Records(b, "monitoring") \in SUBSET Measurements
  BY DEF MayHold, Records, Inventories
<1>3. Records(b, "gce") \in SUBSET Instances
  BY DEF MayHold, Records, Inventories
<1>4. Records(b, "quotas") \in SUBSET Quotas
  BY DEF MayHold, Records, Inventories
<1>5. /\ IsFiniteSet(Records(b, "policies"))
      /\ \A p \in Records(b, "policies") : p.constraint \in DOMAIN Constraints
  <2>1. CASE "policies" \notin DOMAIN b
    BY <1>0, <2>1 DEF Records
  <2>2. CASE "policies" \in DOMAIN b
    <3>1. b["policies"] \in OrgPolicies
      BY <2>2 DEF MayHold, Inventories
    <3>2. PICK answer :
            b["policies"] = {_effective_constraint(c, answer[c]) : c \in DOMAIN Constraints}
      BY <3>1 DEF OrgPolicies
    <3> DEFINE made == [c \in DOMAIN Constraints |-> _effective_constraint(c, answer[c])]
    <3>3. b["policies"] = {made[c] : c \in DOMAIN Constraints}
      BY <3>2
    <3> HIDE DEF made
    <3>4. IsFiniteSet(b["policies"])
      BY <3>3, ImageIsFinite, RecordsAssumption
    <3>5. \A p \in b["policies"] : p.constraint \in DOMAIN Constraints
      BY <3>2 DEF _effective_constraint
    <3> QED
      BY <2>2, <3>4, <3>5 DEF Records
  <2> QED
    BY <2>1, <2>2
<1>6. Records(b, "iam") = {} \/ Records(b, "iam") \in IamAnalyses
  BY DEF MayHold, Records, Inventories
<1> QED
  BY <1>0, <1>1, <1>2, <1>3, <1>4, <1>5, <1>6, FS_Subset, RecordsAssumption

\* The signals of every rule are finitely many.
LEMMA SignalsAreFinite ==
    ASSUME NEW b, MayHold(b)
    PROVE  IsFiniteSet(Signals(b))
<1>0. IsFiniteSet({}) /\ \A x : IsFiniteSet({x})
  BY FS_EmptySet, FS_Singleton
<1>1. IsFiniteSet(_scc_signals(b))
  <2> DEFINE mining == [f \in Mining(b) |->
                          Detection("SCC-MINING-DETECTION", f.resource, "CRITICAL", "CONFIRMED")]
             threats == {g \in Records(b, "scc") : g.category = "threat"}
             threat == [f \in threats |->
                          Detection("SCC-THREAT-FINDING", f.resource, f.severity, "MEDIUM")]
  <2>1. IsFiniteSet(Mining(b)) /\ IsFiniteSet(threats)
    BY RecordsAreFinite, FS_Subset DEF Mining
  <2>2. IsFiniteSet({mining[f] : f \in Mining(b)}) /\ IsFiniteSet({threat[f] : f \in threats})
    <3> HIDE DEF mining, threats, threat
    <3> QED
      BY <2>1, ImageIsFinite
  <2>3. _scc_signals(b) = {mining[f] : f \in Mining(b)} \cup {threat[f] : f \in threats}
    BY DEF _scc_signals
  <2> HIDE DEF mining, threats, threat
  <2> QED
    BY <2>2, <2>3, FS_Union
<1>2. IsFiniteSet(_utilization_signals(b))
  <2> DEFINE pinned == {x \in Records(b, "monitoring") : Pinned(x)}
             cpu == [m \in pinned |-> Detection("MON-SUSTAINED-CPU", m.instance, "HIGH", "MEDIUM")]
             saturated == {x \in Records(b, "monitoring") : x.gpu}
             gpu == [m \in saturated |->
                       Detection("MON-GPU-SATURATION", m.instance, "MEDIUM", "LOW")]
  <2>1. IsFiniteSet(pinned) /\ IsFiniteSet(saturated)
    BY RecordsAreFinite, FS_Subset
  <2>2. IsFiniteSet({cpu[m] : m \in pinned}) /\ IsFiniteSet({gpu[m] : m \in saturated})
    <3> HIDE DEF pinned, cpu, saturated, gpu
    <3> QED
      BY <2>1, ImageIsFinite
  <2>3. _utilization_signals(b) = {cpu[m] : m \in pinned} \cup {gpu[m] : m \in saturated}
    BY DEF _utilization_signals
  <2> HIDE DEF pinned, cpu, saturated, gpu
  <2> QED
    BY <2>2, <2>3, FS_Union
<1>3. IsFiniteSet(_correlation_signals(b))
  <2> DEFINE named == {x \in Saturated(b) : NamedByScc(b, x)}
             miner == [i \in named |->
                         Detection("CORR-CONFIRMED-MINER", i.name, "CRITICAL", "CONFIRMED")]
             loose == {x \in Saturated(b) : ~NamedByScc(b, x) /\ x.exposed /\ x.broad}
             exposed == [i \in loose |-> Detection("CORR-SATURATED-EXPOSED-PRIVILEGED", i.name,
                                                   "CRITICAL", "HIGH")]
  <2>1. IsFiniteSet(Saturated(b))
    BY RecordsAreFinite, FS_Subset DEF Saturated
  <2>2. IsFiniteSet(named) /\ IsFiniteSet(loose)
    BY <2>1, FS_Subset
  <2>3. IsFiniteSet({miner[i] : i \in named}) /\ IsFiniteSet({exposed[i] : i \in loose})
    <3> HIDE DEF named, miner, loose, exposed
    <3> QED
      BY <2>2, ImageIsFinite
  <2>4. _correlation_signals(b) = {miner[i] : i \in named} \cup {exposed[i] : i \in loose}
    BY DEF _correlation_signals
  <2> HIDE DEF named, miner, loose, exposed
  <2> QED
    BY <2>3, <2>4, FS_Union
<1>4. IsFiniteSet(_quota_signals(b))
  <2> DEFINE odd == {x \in Records(b, "quotas") :
                       x.usage # "none" /\ UnexpectedRegion(b, x.region)}
             away == [q \in odd |-> Detection("QUOTA-UNEXPECTED-REGION", q.region, "HIGH", "MEDIUM")]
             full == {x \in Records(b, "quotas") :
                        x.usage = "near_limit" /\ ~UnexpectedRegion(b, x.region)}
             near == [q \in full |-> Detection("QUOTA-NEAR-LIMIT", q.region, "MEDIUM", "LOW")]
  <2>1. IsFiniteSet(odd) /\ IsFiniteSet(full)
    BY RecordsAreFinite, FS_Subset
  <2>2. IsFiniteSet({away[q] : q \in odd}) /\ IsFiniteSet({near[q] : q \in full})
    <3> HIDE DEF odd, away, full, near
    <3> QED
      BY <2>1, ImageIsFinite
  <2>3. _quota_signals(b) = {away[q] : q \in odd} \cup {near[q] : q \in full}
    BY DEF _quota_signals
  <2> HIDE DEF odd, away, full, near
  <2> QED
    BY <2>2, <2>3, FS_Union
<1>5. IsFiniteSet(_budget_signals(b))
  BY <1>0 DEF _budget_signals
<1>6. IsFiniteSet(_policy_signals(b))
  <2> DEFINE open == {x \in Records(b, "policies") : ~x.enforced}
             gap == [p \in open |->
                       Preventive("POLICY", p.constraint, Project, Constraints[p.constraint])]
  <2>1. IsFiniteSet(open)
    BY RecordsAreFinite, FS_Subset
  <2>2. IsFiniteSet({gap[p] : p \in open})
    <3> HIDE DEF open, gap
    <3> QED
      BY <2>1, ImageIsFinite
  <2> QED
    BY <2>2 DEF _policy_signals
<1>7. IsFiniteSet(_iam_precondition_signals(b))
  <2> DEFINE exposing == {x \in Records(b, "iam") : x.cryptojacking}
             gap == [f \in exposing |->
                       Preventive("IAM", <<f.rule, f.resource>>, f.principal, f.severity)]
  <2>1. IsFiniteSet(exposing)
    BY RecordsAreFinite, FS_Subset
  <2>2. IsFiniteSet({gap[f] : f \in exposing})
    <3> HIDE DEF exposing, gap
    <3> QED
      BY <2>1, ImageIsFinite
  <2> QED
    BY <2>2 DEF _iam_precondition_signals
<1> QED
  BY <1>1, <1>2, <1>3, <1>4, <1>5, <1>6, <1>7, FS_Union DEF Signals

\* A signal is of a known rule and has a severity, a confidence and a kind.
LEMMA SignalsAreTyped ==
    ASSUME NEW b, MayHold(b), NEW s \in Signals(b)
    PROVE  /\ s.rule \in Rule /\ s.severity \in Severities
           /\ s.confidence \in Confidences /\ s.kind \in Kinds
<1>1. s.rule \in Rule /\ s.severity \in Severities
  <2>1. CASE s \in _scc_signals(b)
    BY <2>1, RecordsAreFinite, RecordsAssumption DEF _scc_signals, Detection, Rule, Severities
  <2>2. CASE s \in _utilization_signals(b)
    BY <2>2 DEF _utilization_signals, Detection, Rule, Severities
  <2>3. CASE s \in _correlation_signals(b)
    BY <2>3 DEF _correlation_signals, Detection, Rule, Severities
  <2>4. CASE s \in _quota_signals(b)
    BY <2>4 DEF _quota_signals, Detection, Rule, Severities
  <2>5. CASE s \in _budget_signals(b)
    BY <2>5 DEF _budget_signals, Preventive, Rule, Severities
  <2>6. CASE s \in _policy_signals(b)
    BY <2>6, RecordsAreFinite, RecordsAssumption DEF _policy_signals, Preventive, Rule
  <2>7. CASE s \in _iam_precondition_signals(b)
    BY <2>7, RecordsAreFinite DEF _iam_precondition_signals, Preventive, Rule
  <2> QED
    BY <2>1, <2>2, <2>3, <2>4, <2>5, <2>6, <2>7 DEF Signals
<1>2. s.confidence = RuleConfidence(s.rule) /\ s.kind = RuleKind(s.rule)
  BY RuleDecides
<1> QED
  BY <1>1, <1>2 DEF RuleConfidence, RuleKind, Confidences, Kinds

\* The signals the engine publishes can be put in order and added up.
LEMMA PublishedAreRanked ==
    ASSUME NEW b, MayHold(b), NEW D \in dedupe_signals(Signals(b))
    PROVE  Ranked(D)
<1>1. D \subseteq Signals(b)
  BY DedupeKeeps
<1> QED
  BY <1>1, SignalsAreFinite, SignalsAreTyped, FS_Subset DEF Ranked

-----------------------------------------------------------------------------
(***************************************************************************)
(* Order and score.                                                        *)
(***************************************************************************)
Order(S) == {p \in S \X S : Ahead(p[1], p[2])}

\* The sort lists the signals, none before one that is ahead of it.
LEMMA SignalsInOrder ==
    ASSUME NEW S, Ranked(S)
    PROVE  Lists(sort_signals(S), S, Order(S))
<1> DEFINE rank == [s \in S |-> 4 * ConfidenceRank(s.confidence) + SeverityRank(s.severity)]
<1>1. ASSUME NEW s \in S
      PROVE  ConfidenceRank(s.confidence) \in 0..3 /\ SeverityRank(s.severity) \in 0..3
  BY DEF Ranked, Confidences, Severities, ConfidenceRank, SeverityRank
<1>2. rank \in [S -> Nat]
  BY <1>1
<1>3. ASSUME NEW s \in S, NEW t \in S, <<s, t>> \in Order(S)
      PROVE  rank[s] < rank[t]
  <2>1. Ahead(s, t)
    BY <1>3 DEF Order
  <2>2. \/ ConfidenceRank(s.confidence) < ConfidenceRank(t.confidence)
        \/ /\ ConfidenceRank(s.confidence) = ConfidenceRank(t.confidence)
           /\ SeverityRank(s.severity) < SeverityRank(t.severity)
    BY <2>1 DEF Ahead
  <2> QED
    BY <1>1, <2>2
<1>4. HasFirst(S, Order(S))
  <2> HIDE DEF rank
  <2> QED
    BY <1>2, <1>3, RankedHasFirst
<1>5. Lists(InOrder(S, Order(S)), S, Order(S))
  BY <1>4, InOrderLists DEF Ranked
<1> QED
  BY <1>5 DEF sort_signals, Order

\* No signal is ahead of itself.
LEMMA NotAheadOfItself ==
    ASSUME NEW S, Ranked(S), NEW s \in S
    PROVE  <<s, s>> \notin Order(S)
<1>1. ConfidenceRank(s.confidence) \in Nat /\ SeverityRank(s.severity) \in Nat
  BY DEF Ranked, Confidences, Severities, ConfidenceRank, SeverityRank
<1>2. ~Ahead(s, s)
  BY <1>1 DEF Ahead
<1> QED
  BY <1>2 DEF Order

\* A score is a percentage that no signal's weight exceeds by itself, and none
\* without signals.
LEMMA ScoreBounds ==
    ASSUME NEW S, Ranked(S)
    PROVE  /\ risk_score(S) \in 0..100
           /\ S = {} => risk_score(S) = 0
           /\ \A s \in S : Weight(s) \div 2 <= 100 => Weight(s) \div 2 <= risk_score(S)
<1> DEFINE w == [s \in S |-> Weight(s)]
<1>1. \A s \in S : Weight(s) \in Nat
  BY DEF Ranked, Severities, Confidences, Weight
<1>2. w \in [S -> Nat]
  BY <1>1
<1>3. PICK sum : sum = SumFunction(w)
  OBVIOUS
<1>4. sum \in Nat /\ (S = {} => sum = 0) /\ \A s \in S : w[s] <= sum
  <2> HIDE DEF w
  <2> QED
    BY <1>2, <1>3, SumBounds DEF Ranked
<1>5. \A s \in S : Weight(s) <= sum
  BY <1>4
<1>6. risk_score(S) = IF sum \div 2 < 100 THEN sum \div 2 ELSE 100
  BY <1>3 DEF risk_score
<1> HIDE DEF w
<1>7. sum \div 2 \in Nat /\ (sum = 0 => sum \div 2 = 0)
  BY <1>4
<1>8. ASSUME NEW s \in S, Weight(s) \div 2 <= 100
      PROVE  Weight(s) \div 2 <= risk_score(S)
  <2>1. Weight(s) \in Nat /\ Weight(s) <= sum
    BY <1>1, <1>5
  <2>2. Weight(s) \div 2 <= sum \div 2
    BY <1>4, <2>1
  <2> QED
    BY <1>6, <1>8, <2>2
<1> QED
  BY <1>4, <1>6, <1>7, <1>8

\* A signal of confirmed mining weighs 50, one of likely mining 37.
LEMMA WeightOfVerdict ==
    ASSUME NEW b, NEW s \in Signals(b), s.kind = "detection"
    PROVE  /\ s.confidence = "CONFIRMED" => Weight(s) \div 2 = 50
           /\ s.confidence = "HIGH" => Weight(s) \div 2 = 37
<1>1. s.confidence \in {"CONFIRMED", "HIGH"} => s.severity = "CRITICAL"
  <2>1. CASE s \in _scc_signals(b)
    BY <2>1 DEF _scc_signals, Detection
  <2>2. CASE s \in _utilization_signals(b)
    BY <2>2 DEF _utilization_signals, Detection
  <2>3. CASE s \in _correlation_signals(b)
    BY <2>3 DEF _correlation_signals, Detection
  <2>4. CASE s \in _quota_signals(b)
    BY <2>4 DEF _quota_signals, Detection
  <2>5. CASE s \in _budget_signals(b) \cup _policy_signals(b) \cup _iam_precondition_signals(b)
    BY <2>5 DEF _budget_signals, _policy_signals, _iam_precondition_signals, Preventive
  <2> QED
    BY <2>1, <2>2, <2>3, <2>4, <2>5 DEF Signals
<1>2. 100 \div 2 = 50 /\ 75 \div 2 = 37
  OBVIOUS
<1> QED
  BY <1>1, <1>2 DEF Weight

-----------------------------------------------------------------------------
(***************************************************************************)
(* The published summary.                                                  *)
(***************************************************************************)

\* The book holds what the sources may return.
Read == phase \in {"collecting", "reporting"} /\ MayHold(book)

\* What the report agent reads is what the engine made of the inventories,
\* which no later step changes.
Published ==
    phase = "reporting" =>
      /\ signals \in dedupe_signals(Signals(book))
      /\ summary = summarize(signals)

\* What the report agent was told is about the published signals.
Answered ==
    /\ phase = "collecting" => signals = {} /\ shown = {} /\ plan = {}
    /\ \A a \in shown : a.query \in Queries /\ a.signals = list_signals(signals, a.query)
    /\ \A p \in plan : p = get_response_plan(signals)

IInv == Read /\ Published /\ Answered

\* The published signals are none before the engine ran; they can be put in
\* order and added up.
LEMMA SignalsAreRanked ==
    ASSUME IInv
    PROVE  Ranked(signals)
<1>1. CASE phase = "reporting"
  BY <1>1, PublishedAreRanked DEF IInv, Read, Published
<1>2. CASE phase = "collecting"
  <2>1. signals = {}
    BY <1>2 DEF IInv, Answered
  <2> QED
    BY <2>1, FS_EmptySet DEF Ranked
<1> QED
  BY <1>1, <1>2 DEF IInv, Read

\* Initially nothing was read, published or answered.
LEMMA InvInit == Init => IInv
BY DEF Init, IInv, Read, MayHold, Published, Answered

\* A source adds an inventory it may return, before anything is published.
LEMMA CollectStep ==
    ASSUME IInv, NEW s \in Sources, Collect(s)
    PROVE  IInv'
<1>1. PICK records \in Inventories(s) :
        book' = [t \in DOMAIN book \cup {s} |-> IF t = s THEN records ELSE book[t]]
  BY DEF Collect
<1>2. MayHold(book)'
  <2>1. DOMAIN book' \subseteq Sources
    BY <1>1 DEF IInv, Read, MayHold
  <2>2. \A t \in DOMAIN book' : book'[t] \in Inventories(t)
    BY <1>1 DEF IInv, Read, MayHold
  <2> QED
    BY <2>1, <2>2 DEF MayHold
<1>3. phase = "collecting" /\ UNCHANGED <<phase, signals, summary, shown, plan>>
  BY DEF Collect
<1>4. Read' /\ Published' /\ Answered'
  BY <1>2, <1>3 DEF IInv, Read, Published, Answered
<1> QED
  BY <1>4 DEF IInv

\* Every step keeps the invariant.
LEMMA InvStep == IInv /\ [Next]_vars => IInv'
<1> SUFFICES ASSUME IInv, [Next]_vars PROVE IInv'
  OBVIOUS
<1>1. ASSUME NEW s \in Sources, Collect(s)
      PROVE  IInv'
  BY <1>1, CollectStep
<1>2. CASE RunEngine
  <2>1. PICK unique \in dedupe_signals(Signals(book)) :
          signals' = unique /\ summary' = summarize(unique)
    BY <1>2 DEF RunEngine
  <2>2. shown' = {} /\ plan' = {} /\ phase' = "reporting" /\ book' = book
    BY <1>2 DEF RunEngine, IInv, Answered
  <2> QED
    BY <2>1, <2>2 DEF IInv, Read, MayHold, Published, Answered
<1>3. ASSUME NEW q \in Queries, ListSignals(q)
      PROVE  IInv'
  <2>1. shown' = {[query |-> q, signals |-> list_signals(signals, q)]}
    BY <1>3 DEF ListSignals
  <2>2. phase = "reporting" /\ UNCHANGED <<phase, book, signals, summary, plan>>
    BY <1>3 DEF ListSignals
  <2>3. \A a \in shown' : a.query \in Queries /\ a.signals = list_signals(signals', a.query)
    BY <2>1, <2>2
  <2> QED
    BY <2>2, <2>3 DEF IInv, Read, MayHold, Published, Answered
<1>4. CASE GetResponsePlan
  <2>1. plan' = {get_response_plan(signals)}
    BY <1>4 DEF GetResponsePlan
  <2>2. phase = "reporting" /\ UNCHANGED <<phase, book, signals, summary, shown>>
    BY <1>4 DEF GetResponsePlan
  <2> QED
    BY <2>1, <2>2 DEF IInv, Read, MayHold, Published, Answered
<1>5. CASE UNCHANGED vars
  BY <1>5 DEF vars, IInv, Read, MayHold, Published, Answered
<1> QED
  BY <1>1, <1>2, <1>3, <1>4, <1>5 DEF Next

\* In every reachable state the summary is that of signals the rules raised on
\* the inventories of the book, and what the report agent was told is of them.
THEOREM Invariance == Spec => []IInv
BY InvInit, InvStep, PTL DEF Spec

\* Signals have a rule, a severity, a confidence and a kind, and the score is a
\* percentage.
THEOREM TypeCorrect == Spec => []TypeOK
<1>1. IInv => TypeOK
  <2> SUFFICES ASSUME IInv
               PROVE  TypeOK
    OBVIOUS
  <2>1. Ranked(signals)
    BY SignalsAreRanked
  <2>2. phase = "reporting" => summary.score \in 0..100
    BY <2>1, ScoreBounds DEF IInv, Published, summarize
  <2> QED
    BY <2>1, <2>2 DEF TypeOK, Ranked, IInv, Read, MayHold
<1> QED
  BY <1>1, Invariance, PTL

\* The published verdict is the one over every signal raised, whichever
\* repeats dedupe_signals dropped.
THEOREM RepeatsDoNotDecide == Spec => []RepeatsNeverDecide
<1>1. IInv => RepeatsNeverDecide
  BY DedupeVerdict DEF IInv, Published, RepeatsNeverDecide, summarize
<1> QED BY <1>1, Invariance, PTL

\* The verdict is confirmed_mining exactly when a mining finding was read.
THEOREM ConfirmedOnlyByScc == Spec => []ConfirmedByScc
<1>1. RepeatsNeverDecide => ConfirmedByScc
  <2> SUFFICES ASSUME phase = "reporting", summary.verdict = verdict(Signals(book))
               PROVE  summary.verdict = "confirmed_mining" <=> Mining(book) # {}
    BY DEF RepeatsNeverDecide, ConfirmedByScc
  <2> QED BY ConfirmedMeansMining DEF verdict
<1> QED BY <1>1, RepeatsDoNotDecide, PTL

\* A verdict of suspicion or worse is that of the detection sources alone.
THEOREM GapsDoNotSway == Spec => []GapsNeverSway
<1>1. RepeatsNeverDecide => GapsNeverSway
  <2> SUFFICES ASSUME phase = "reporting", summary.verdict = verdict(Signals(book)),
                      VerdictRank(summary.verdict) > 2
               PROVE  verdict(Signals(Without(book, {"budgets", "policies", "iam"})))
                        = summary.verdict
    BY DEF RepeatsNeverDecide, GapsNeverSway
  <2> DEFINE S == Signals(Without(book, {"budgets", "policies", "iam"}))
             T == Signals(book)
  <2>1. Detections(S) = Detections(T)
    BY DetectionsIgnoreGaps
  <2>2. summary.verdict = verdict(T)
    OBVIOUS
  <2> HIDE DEF S, T
  <2>3. Detections(T) # {}
    BY <2>2 DEF verdict, VerdictRank
  <2>4. verdict(S) = verdict(T)
    BY <2>1, <2>3 DEF verdict
  <2> QED BY <2>2, <2>4 DEF S
<1> QED BY <1>1, RepeatsDoNotDecide, PTL

\* No source's absence makes the verdict worse.
THEOREM LossDoesNotAccuse == Spec => []LossNeverAccuses
<1>1. RepeatsNeverDecide => LossNeverAccuses
  BY LossLowersVerdict DEF RepeatsNeverDecide, LossNeverAccuses
<1> QED BY <1>1, RepeatsDoNotDecide, PTL

-----------------------------------------------------------------------------
(***************************************************************************)
(* What is listed first.                                                   *)
(***************************************************************************)

\* models.py:108: in the summary no hardening advice comes before a detection of
\* at least medium confidence.
THEOREM AdviceDoesNotLead == Spec => []AdviceNeverLeads
<1>1. IInv => AdviceNeverLeads
  <2> SUFFICES ASSUME IInv, phase = "reporting",
                      NEW s \in signals, s.kind = "detection", s.confidence # "LOW",
                      NEW i \in DOMAIN summary.top, summary.top[i].kind = "preventive"
               PROVE  \E j \in 1..(i - 1) : summary.top[j] = s
    BY DEF AdviceNeverLeads
  <2>1. PICK top : top = Upto(sort_signals(signals), MaxTop)
    OBVIOUS
  <2>2. summary.top = top
    BY <2>1 DEF IInv, Published, summarize
  <2>3. Ranked(signals)
    BY SignalsAreRanked
  <2>4. Lists(sort_signals(signals), signals, Order(signals))
    BY <2>3, SignalsInOrder
  <2>5. Leads(top, signals, Order(signals), MaxTop)
    BY <2>1, <2>4, UptoLeads, CapsAssumption
  <2>6. i \in 1..Len(top) /\ top[i] \in signals
    BY <2>2, <2>5 DEF Leads
  <2>7. signals \subseteq Signals(book)
    BY DedupeKeeps DEF IInv, Published
  <2>8. top[i].confidence = "LOW"
    <3>1. top[i].confidence = RuleConfidence(top[i].rule) /\ top[i].kind = RuleKind(top[i].rule)
      BY <2>6, <2>7, RuleDecides
    <3> QED
      BY <2>2, <3>1 DEF RuleConfidence, RuleKind
  <2>9. s.confidence \in {"CONFIRMED", "HIGH", "MEDIUM"}
    BY <2>3 DEF Ranked, Confidences
  <2>10. Ahead(s, top[i])
    BY <2>8, <2>9 DEF Ahead, ConfidenceRank
  <2>11. <<s, top[i]>> \in Order(signals)
    BY <2>6, <2>10 DEF Order
  <2>12. <<s, s>> \notin Order(signals)
    BY <2>3, NotAheadOfItself
  <2> QED
    BY <2>2, <2>5, <2>6, <2>11, <2>12 DEF Leads
<1> QED
  BY <1>1, Invariance, PTL

\* A list that was cut short lost only the weakest of what was asked for, and a
\* list that was not holds all of it.
THEOREM StrongestAreListed == Spec => []NothingStrongerHidden
<1>1. IInv => NothingStrongerHidden
  <2> SUFFICES ASSUME IInv, NEW a \in shown
               PROVE  LET listed == {a.signals[i] : i \in DOMAIN a.signals}
                          hidden == {s \in signals : Matches(s, a.query)} \ listed
                      IN  /\ listed \subseteq signals
                          /\ hidden # {} => Len(a.signals) = Clamp(a.query.limit)
                          /\ \A s \in hidden, t \in listed : ~Ahead(s, t)
    BY DEF NothingStrongerHidden
  <2>1. PICK asked : asked = {s \in signals : Matches(s, a.query)}
    OBVIOUS
  <2>2. PICK n : n = Clamp(a.query.limit)
    OBVIOUS
  <2>3. PICK t : t = a.signals
    OBVIOUS
  <2>4. t = Upto(Those(sort_signals(signals), asked), n)
    BY <2>1, <2>2, <2>3 DEF IInv, Answered, list_signals
  <2>5. Ranked(signals)
    BY SignalsAreRanked
  <2>6. Lists(Those(sort_signals(signals), asked), signals \cap asked, Order(signals))
    BY <2>5, SignalsInOrder, ThoseLists DEF Ranked
  <2>7. signals \cap asked = asked
    BY <2>1
  <2>8. n \in Nat
    BY <2>2, QueriesAssumption, CapsAssumption DEF Clamp, IInv, Answered
  <2>9. Leads(t, asked, Order(signals), n)
    BY <2>4, <2>6, <2>7, <2>8, UptoLeads
  <2>10. DOMAIN t = 1..Len(t) /\ \A i \in 1..Len(t) : t[i] \in asked
    BY <2>9 DEF Leads
  <2>11. {t[i] : i \in DOMAIN t} \subseteq signals
    BY <2>1, <2>10
  <2>12. ASSUME NEW x \in asked \ {t[i] : i \in DOMAIN t}
         PROVE  Len(t) = n /\ \A i \in DOMAIN t : ~Ahead(x, t[i])
    <3>1. \A i \in 1..Len(t) : t[i] # x
      BY <2>10
    <3>2. Len(t) = n /\ \A i \in 1..Len(t) : <<x, t[i]>> \notin Order(signals)
      BY <2>9, <3>1 DEF Leads
    <3> QED
      BY <2>1, <2>10, <3>2 DEF Order
  <2> QED
    BY <2>1, <2>2, <2>3, <2>11, <2>12
<1> QED
  BY <1>1, Invariance, PTL

-----------------------------------------------------------------------------
(***************************************************************************)
(* The score and the plan.                                                 *)
(***************************************************************************)

\* The score and the verdict are computed apart and do not contradict each
\* other: a confirmed or likely verdict carries the weight of its signal.
THEOREM ScoreGoesWithVerdict == Spec => []ScoreBacksVerdict
<1>1. IInv => ScoreBacksVerdict
  <2> SUFFICES ASSUME IInv, phase = "reporting"
               PROVE  /\ summary.verdict = "confirmed_mining" => summary.score >= 50
                      /\ summary.verdict = "likely_mining" => summary.score >= 37
                      /\ summary.verdict = "clean" => summary.score = 0
    BY DEF ScoreBacksVerdict
  <2>1. summary.verdict = verdict(signals) /\ summary.score = risk_score(signals)
    BY DEF IInv, Published, summarize
  <2>2. signals \subseteq Signals(book)
    BY DedupeKeeps DEF IInv, Published
  <2>3. /\ risk_score(signals) \in 0..100
        /\ signals = {} => risk_score(signals) = 0
        /\ \A s \in signals : Weight(s) \div 2 <= 100 => Weight(s) \div 2 <= risk_score(signals)
    BY SignalsAreRanked, ScoreBounds
  <2>4. ASSUME verdict(signals) = "confirmed_mining"
        PROVE  risk_score(signals) >= 50
    <3>1. PICK s \in signals : s.kind = "detection" /\ s.confidence = "CONFIRMED"
      BY <2>4 DEF verdict, Detections
    <3>2. Weight(s) \div 2 = 50
      BY <2>2, <3>1, WeightOfVerdict
    <3> QED
      BY <2>3, <3>2
  <2>5. ASSUME verdict(signals) = "likely_mining"
        PROVE  risk_score(signals) >= 37
    <3>1. PICK s \in signals : s.kind = "detection" /\ s.confidence = "HIGH"
      BY <2>5 DEF verdict, Detections
    <3>2. Weight(s) \div 2 = 37
      BY <2>2, <3>1, WeightOfVerdict
    <3> QED
      BY <2>3, <3>2
  <2>6. ASSUME verdict(signals) = "clean"
        PROVE  risk_score(signals) = 0
    <3>1. signals = {}
      BY <2>6 DEF verdict
    <3> QED
      BY <2>3, <3>1
  <2> QED
    BY <2>1, <2>4, <2>5, <2>6
<1> QED
  BY <1>1, Invariance, PTL

\* What an element of a list is, and what a list of a part is of the whole.
LEMMA InSeq ==
    ASSUME NEW V, NEW s \in Seq(V)
    PROVE  /\ Len(s) \in Nat
           /\ \A i \in 1..Len(s) : s[i] \in V
           /\ \A W : V \subseteq W => s \in Seq(W)
OBVIOUS

\* A function of the numbers up to n is a list.
LEMMA IsSeq ==
    ASSUME NEW V, NEW n \in Nat, NEW t \in [1..n -> V]
    PROVE  t \in Seq(V) /\ Len(t) = n
OBVIOUS

\* t holds the step of every signal of S once, those to be handled first first.
Phased(t, ph, S) ==
    /\ t \in Seq([phase : {ph}, signal : S])
    /\ Len(t) = Cardinality(S)
    /\ \A s \in S : \E i \in 1..Len(t) : t[i].signal = s
    /\ \A i, j \in 1..Len(t) : i < j => ~Ahead(t[j].signal, t[i].signal)

\* A phase of the plan holds the signals that belong to it.
LEMMA StepsArePhased ==
    ASSUME NEW S, Ranked(S), NEW ph
    PROVE  Phased(Steps(S, ph), ph, {s \in S : Belongs(s, ph)})
<1>1. PICK P : P = {s \in S : Belongs(s, ph)}
  OBVIOUS
<1>2. PICK chosen : chosen = Those(sort_signals(S), P)
  OBVIOUS
<1>3. Lists(chosen, S \cap P, Order(S))
  BY <1>2, SignalsInOrder, ThoseLists DEF Ranked
<1>4. S \cap P = P
  BY <1>1
<1>5. Lists(chosen, P, Order(S))
  BY <1>3, <1>4
<1>6. chosen \in Seq(P) /\ Len(chosen) = Cardinality(P)
  BY <1>5 DEF Lists
<1>7. PICK t : t = [i \in 1..Len(chosen) |-> [phase |-> ph, signal |-> chosen[i]]]
  OBVIOUS
<1>8. Steps(S, ph) = t
  BY <1>1, <1>2, <1>6, <1>7 DEF Steps
<1>9. t \in Seq([phase : {ph}, signal : P]) /\ Len(t) = Len(chosen)
  <2>1. PICK N \in Nat : N = Len(chosen)
    BY <1>6
  <2>2. \A i \in 1..N : chosen[i] \in P
    BY <1>6, <2>1
  <2>3. \A i \in 1..N : [phase |-> ph, signal |-> chosen[i]] \in [phase : {ph}, signal : P]
    BY <2>2
  <2>4. t \in [1..N -> [phase : {ph}, signal : P]]
    BY <1>7, <2>1, <2>3
  <2> QED
    BY <2>1, <2>4, IsSeq
<1>10. \A i \in 1..Len(t) : t[i].signal = chosen[i]
  BY <1>7, <1>9
<1>11. ASSUME NEW s \in P
       PROVE  \E i \in 1..Len(t) : t[i].signal = s
  BY <1>5, <1>9, <1>10 DEF Lists
<1>12. ASSUME NEW i \in 1..Len(t), NEW j \in 1..Len(t), i < j
       PROVE  ~Ahead(t[j].signal, t[i].signal)
  <2>1. chosen[i] \in S /\ chosen[j] \in S
    BY <1>1, <1>6, <1>9
  <2>2. <<chosen[j], chosen[i]>> \notin Order(S)
    BY <1>5, <1>9, <1>12 DEF Lists
  <2> QED
    BY <1>10, <2>1, <2>2 DEF Order
<1> QED
  BY <1>1, <1>6, <1>8, <1>9, <1>11, <1>12 DEF Phased

\* p holds what is in a, then what is in b, then what is in c.
Chained(p, a, b, c, V) ==
    /\ p \in Seq(V)
    /\ Len(p) = Len(a) + Len(b) + Len(c)
    /\ \A i \in 1..Len(a) : p[i] = a[i]
    /\ \A i \in 1..Len(b) : p[Len(a) + i] = b[i]
    /\ \A i \in 1..Len(c) : p[Len(a) + Len(b) + i] = c[i]

\* So do three lists one after another.
LEMMA ThreeLists ==
    ASSUME NEW V, NEW a \in Seq(V), NEW b \in Seq(V), NEW c \in Seq(V)
    PROVE  Chained(a \o b \o c, a, b, c, V)
<1>1. PICK d : d = a \o b
  OBVIOUS
<1>2. /\ d \in Seq(V) /\ Len(d) = Len(a) + Len(b)
      /\ \A i \in 1..Len(a) : d[i] = a[i]
      /\ \A i \in 1..Len(b) : d[Len(a) + i] = b[i]
  BY <1>1
<1>3. PICK p : p = d \o c
  OBVIOUS
<1>4. /\ p \in Seq(V) /\ Len(p) = Len(d) + Len(c)
      /\ \A i \in 1..Len(d) : p[i] = d[i]
      /\ \A i \in 1..Len(c) : p[Len(d) + i] = c[i]
  <2>1. d \in Seq(V)
    BY <1>2
  <2> QED
    BY <1>3, <2>1
<1>5. Len(a) \in Nat /\ Len(b) \in Nat /\ Len(c) \in Nat
  OBVIOUS
<1>6. \A i \in 1..Len(a) : i \in 1..Len(d)
  BY <1>2, <1>5
<1>7. \A i \in 1..Len(b) : Len(a) + i \in 1..Len(d)
  BY <1>2, <1>5
<1> QED
  BY <1>1, <1>2, <1>3, <1>4, <1>5, <1>6, <1>7 DEF Chained

\* signals.py:58-67: the response plan holds every published signal once, in
\* phase order, and has something to contain exactly when the verdict is
\* confirmed or likely mining.
THEOREM PlanGoesWithVerdict == Spec => []PlanFollowsVerdict
<1>1. IInv => PlanFollowsVerdict
  <2> SUFFICES ASSUME IInv, NEW p \in plan
               PROVE  /\ Len(p) = Cardinality(signals)
                      /\ {p[i].signal : i \in DOMAIN p} = signals
                      /\ (\E i \in DOMAIN p : p[i].phase = "contain")
                           <=> summary.verdict \in {"confirmed_mining", "likely_mining"}
                      /\ \A i, j \in DOMAIN p :
                           /\ i < j /\ p[j].phase = "contain" => p[i].phase = "contain"
                           /\ i < j /\ p[i].phase = "harden" => p[j].phase = "harden"
                           /\ i < j /\ p[i].phase = p[j].phase
                                => ~Ahead(p[j].signal, p[i].signal)
    BY DEF PlanFollowsVerdict
  <2> DEFINE C == {s \in signals : Belongs(s, "contain")}
             T == {s \in signals : Belongs(s, "triage")}
             H == {s \in signals : Belongs(s, "harden")}
             V == [phase : {"contain", "triage", "harden"}, signal : signals]
  <2>1. PICK c : c = Steps(signals, "contain")
    OBVIOUS
  <2>2. PICK t : t = Steps(signals, "triage")
    OBVIOUS
  <2>3. PICK h : h = Steps(signals, "harden")
    OBVIOUS
  <2>4. p = c \o t \o h
    BY <2>1, <2>2, <2>3 DEF IInv, Answered, get_response_plan
  <2>5. Ranked(signals)
    BY SignalsAreRanked
  <2>6. Phased(c, "contain", C) /\ Phased(t, "triage", T) /\ Phased(h, "harden", H)
    BY <2>1, <2>2, <2>3, <2>5, StepsArePhased
  <2>7. /\ c \in Seq([phase : {"contain"}, signal : C])
        /\ t \in Seq([phase : {"triage"}, signal : T])
        /\ h \in Seq([phase : {"harden"}, signal : H])
    BY <2>6 DEF Phased
  <2>8. /\ \A i \in 1..Len(c) : c[i].phase = "contain" /\ c[i].signal \in signals
        /\ \A i \in 1..Len(t) : t[i].phase = "triage" /\ t[i].signal \in signals
        /\ \A i \in 1..Len(h) : h[i].phase = "harden" /\ h[i].signal \in signals
        /\ Len(c) \in Nat /\ Len(t) \in Nat /\ Len(h) \in Nat
    <3>1. C \subseteq signals /\ T \subseteq signals /\ H \subseteq signals
      OBVIOUS
    <3> HIDE DEF C, T, H
    <3>2. /\ \A i \in 1..Len(c) : c[i] \in [phase : {"contain"}, signal : C]
          /\ \A i \in 1..Len(t) : t[i] \in [phase : {"triage"}, signal : T]
          /\ \A i \in 1..Len(h) : h[i] \in [phase : {"harden"}, signal : H]
          /\ Len(c) \in Nat /\ Len(t) \in Nat /\ Len(h) \in Nat
      BY <2>7, InSeq
    <3> QED
      BY <3>1, <3>2
  <2>9. c \in Seq(V) /\ t \in Seq(V) /\ h \in Seq(V)
    <3>1. /\ [phase : {"contain"}, signal : C] \subseteq V
          /\ [phase : {"triage"}, signal : T] \subseteq V
          /\ [phase : {"harden"}, signal : H] \subseteq V
      OBVIOUS
    <3> HIDE DEF C, T, H, V
    <3> QED
      BY <2>7, <3>1, InSeq
  <2>10. /\ p \in Seq(V)
         /\ Len(p) = Len(c) + Len(t) + Len(h)
         /\ \A i \in 1..Len(c) : p[i] = c[i]
         /\ \A i \in 1..Len(t) : p[Len(c) + i] = t[i]
         /\ \A i \in 1..Len(h) : p[Len(c) + Len(t) + i] = h[i]
    <3> HIDE DEF V
    <3>1. Chained(c \o t \o h, c, t, h, V)
      BY <2>9, ThreeLists
    <3> QED
      BY <2>4, <3>1 DEF Chained
  <2>11. DOMAIN p = 1..Len(p)
    BY <2>10
  <2>12. \A i \in DOMAIN p : \/ i \in 1..Len(c) /\ p[i] = c[i]
                             \/ i - Len(c) \in 1..Len(t) /\ p[i] = t[i - Len(c)]
                             \/ /\ i - Len(c) - Len(t) \in 1..Len(h)
                                /\ p[i] = h[i - Len(c) - Len(t)]
    <3> SUFFICES ASSUME NEW i \in DOMAIN p
                 PROVE  \/ i \in 1..Len(c) /\ p[i] = c[i]
                        \/ i - Len(c) \in 1..Len(t) /\ p[i] = t[i - Len(c)]
                        \/ /\ i - Len(c) - Len(t) \in 1..Len(h)
                           /\ p[i] = h[i - Len(c) - Len(t)]
      OBVIOUS
    <3>0. i \in Nat /\ 1 <= i /\ i <= Len(c) + Len(t) + Len(h)
      BY <2>8, <2>10, <2>11
    <3>1. CASE i <= Len(c)
      <4>1. i \in 1..Len(c)
        BY <2>8, <3>0, <3>1
      <4> QED
        BY <2>10, <4>1
    <3>2. CASE Len(c) < i /\ i <= Len(c) + Len(t)
      <4>1. i - Len(c) \in 1..Len(t) /\ Len(c) + (i - Len(c)) = i
        BY <2>8, <3>0, <3>2
      <4> QED
        BY <2>10, <4>1
    <3>3. CASE Len(c) + Len(t) < i
      <4>1. /\ i - Len(c) - Len(t) \in 1..Len(h)
            /\ Len(c) + Len(t) + (i - Len(c) - Len(t)) = i
        BY <2>8, <3>0, <3>3
      <4> QED
        BY <2>10, <4>1
    <3> QED
      BY <2>8, <3>0, <3>1, <3>2, <3>3
  <2>13. \A i \in 1..Len(c) : i \in DOMAIN p
    BY <2>8, <2>10, <2>11
  <2>14. \A i \in 1..Len(t) : Len(c) + i \in DOMAIN p
    BY <2>8, <2>10, <2>11
  <2>15. \A i \in 1..Len(h) : Len(c) + Len(t) + i \in DOMAIN p
    BY <2>8, <2>10, <2>11
  <2>16. C \cup T \cup H = signals /\ C \cap T = {} /\ (C \cup T) \cap H = {}
    BY <2>5 DEF Ranked, Kinds, Belongs, Contain, Triage, Harden
  <2>17. Len(p) = Cardinality(signals)
    <3>1. IsFiniteSet(C) /\ IsFiniteSet(T) /\ IsFiniteSet(H)
      BY <2>5, FS_Subset DEF Ranked
    <3>2. Len(c) = Cardinality(C) /\ Len(t) = Cardinality(T) /\ Len(h) = Cardinality(H)
      BY <2>6 DEF Phased
    <3> HIDE DEF C, T, H
    <3>3. IsFiniteSet(C \cup T) /\ Cardinality(C \cup T) = Cardinality(C) + Cardinality(T)
      <4>1. Cardinality(C \cup T)
              = Cardinality(C) + Cardinality(T) - Cardinality(C \cap T)
        BY <3>1, FS_Union
      <4>2. Cardinality(C \cap T) = 0
        BY <2>16, FS_EmptySet
      <4>3. Cardinality(C) \in Nat /\ Cardinality(T) \in Nat
        BY <3>1, FS_CardinalityType
      <4> QED
        BY <3>1, <4>1, <4>2, <4>3, FS_Union
    <3>4. Cardinality((C \cup T) \cup H) = Cardinality(C \cup T) + Cardinality(H)
      <4>1. Cardinality((C \cup T) \cup H)
              = Cardinality(C \cup T) + Cardinality(H) - Cardinality((C \cup T) \cap H)
        BY <3>1, <3>3, FS_Union
      <4>2. Cardinality((C \cup T) \cap H) = 0
        BY <2>16, FS_EmptySet
      <4>3. Cardinality(C \cup T) \in Nat /\ Cardinality(H) \in Nat
        BY <3>1, <3>3, FS_CardinalityType
      <4> QED
        BY <4>1, <4>2, <4>3
    <3> QED
      BY <2>10, <2>16, <3>2, <3>3, <3>4
  <2>18. {p[i].signal : i \in DOMAIN p} = signals
    <3>1. \A i \in DOMAIN p : p[i].signal \in signals
      BY <2>8, <2>12
    <3>2. ASSUME NEW s \in signals
          PROVE  \E i \in DOMAIN p : p[i].signal = s
      <4>1. CASE s \in C
        <5>1. PICK i \in 1..Len(c) : c[i].signal = s
          BY <2>6, <4>1 DEF Phased
        <5> QED
          BY <2>10, <2>13, <5>1
      <4>2. CASE s \in T
        <5>1. PICK i \in 1..Len(t) : t[i].signal = s
          BY <2>6, <4>2 DEF Phased
        <5> QED
          BY <2>10, <2>14, <5>1
      <4>3. CASE s \in H
        <5>1. PICK i \in 1..Len(h) : h[i].signal = s
          BY <2>6, <4>3 DEF Phased
        <5> QED
          BY <2>10, <2>15, <5>1
      <4> QED
        BY <2>16, <4>1, <4>2, <4>3
    <3> QED
      BY <3>1, <3>2
  <2>19. (\E i \in DOMAIN p : p[i].phase = "contain")
           <=> summary.verdict \in {"confirmed_mining", "likely_mining"}
    <3>1. (\E i \in DOMAIN p : p[i].phase = "contain") <=> Len(c) # 0
      <4>1. ASSUME NEW i \in DOMAIN p, p[i].phase = "contain"
            PROVE  Len(c) # 0
        BY <2>8, <2>12, <4>1
      <4>2. ASSUME Len(c) # 0
            PROVE  1 \in DOMAIN p /\ p[1].phase = "contain"
        <5>1. 1 \in 1..Len(c)
          BY <2>8, <4>2
        <5> QED
          BY <2>8, <2>10, <2>13, <5>1
      <4> QED
        BY <4>1, <4>2
    <3>2. Len(c) # 0 <=> C # {}
      <4>1. IsFiniteSet(C) /\ Len(c) = Cardinality(C)
        BY <2>5, <2>6, FS_Subset DEF Ranked, Phased
      <4> HIDE DEF C
      <4> QED
        BY <4>1, FS_EmptySet
    <3>3. phase = "reporting"
      BY DEF IInv, Read, Answered
    <3>4. summary.verdict = verdict(signals)
      BY <3>3 DEF IInv, Published, summarize
    <3>5. C # {} <=> \E s \in Detections(signals) : s.confidence \in {"CONFIRMED", "HIGH"}
      BY DEF Belongs, Contain, Detections
    <3>6. (\E s \in Detections(signals) : s.confidence \in {"CONFIRMED", "HIGH"})
            <=> verdict(signals) \in {"confirmed_mining", "likely_mining"}
      BY DEF verdict
    <3> QED
      BY <3>1, <3>2, <3>4, <3>5, <3>6
  <2>20. ASSUME NEW i \in DOMAIN p, NEW j \in DOMAIN p, i < j
         PROVE  /\ p[j].phase = "contain" => p[i].phase = "contain"
                /\ p[i].phase = "harden" => p[j].phase = "harden"
                /\ p[i].phase = p[j].phase => ~Ahead(p[j].signal, p[i].signal)
    <3>0. i \in Int /\ j \in Int
      BY <2>10, <2>11
    <3>1. CASE i \in 1..Len(c) /\ p[i] = c[i]
      <4>1. p[i].phase = "contain"
        BY <2>8, <3>1
      <4>2. ASSUME p[j].phase = "contain"
            PROVE  ~Ahead(p[j].signal, p[i].signal)
        <5>1. j \in 1..Len(c) /\ p[j] = c[j]
          BY <2>8, <2>12, <4>2
        <5> QED
          BY <2>6, <2>20, <3>1, <5>1 DEF Phased
      <4> QED
        BY <4>1, <4>2
    <3>2. CASE i - Len(c) \in 1..Len(t) /\ p[i] = t[i - Len(c)]
      <4>1. p[i].phase = "triage"
        BY <2>8, <3>2
      <4>2. ~ (j \in 1..Len(c))
        BY <2>8, <2>20, <3>0, <3>2
      <4>3. p[j].phase # "contain"
        BY <2>8, <2>12, <4>2
      <4>4. ASSUME p[j].phase = "triage"
            PROVE  ~Ahead(p[j].signal, p[i].signal)
        <5>1. j - Len(c) \in 1..Len(t) /\ p[j] = t[j - Len(c)]
          BY <2>8, <2>12, <4>4
        <5>2. i - Len(c) < j - Len(c)
          BY <2>8, <2>20, <3>0
        <5> QED
          BY <2>6, <3>2, <5>1, <5>2 DEF Phased
      <4> QED
        BY <4>1, <4>3, <4>4
    <3>3. CASE i - Len(c) - Len(t) \in 1..Len(h) /\ p[i] = h[i - Len(c) - Len(t)]
      <4>1. p[i].phase = "harden"
        BY <2>8, <3>3
      <4>2. ~ (j \in 1..Len(c)) /\ ~ (j - Len(c) \in 1..Len(t))
        BY <2>8, <2>20, <3>0, <3>3
      <4>3. j - Len(c) - Len(t) \in 1..Len(h) /\ p[j] = h[j - Len(c) - Len(t)]
        BY <2>12, <4>2
      <4>4. p[j].phase = "harden"
        BY <2>8, <4>3
      <4>5. i - Len(c) - Len(t) < j - Len(c) - Len(t)
        BY <2>8, <2>20, <3>0
      <4>6. ~Ahead(p[j].signal, p[i].signal)
        BY <2>6, <3>3, <4>3, <4>5 DEF Phased
      <4> QED
        BY <4>1, <4>4, <4>6
    <3> QED
      BY <2>12, <3>1, <3>2, <3>3
  <2> QED
    BY <2>17, <2>18, <2>19, <2>20
<1> QED
  BY <1>1, Invariance, PTL

=============================================================================
