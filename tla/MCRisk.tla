------------------------------- MODULE MCRisk -------------------------------
(* Either the detection sources, with two instances, one named with a      *)
(* prefix of the other's name, in one of two regions; or preventive gaps   *)
(* of every kind next to one medium and one low detection, with a project  *)
(* whose id is a prefix of another's.  The findings of the IAM rule engine *)
(* are computed by its rules.                                              *)
EXTENDS RiskEngine

CONSTANTS web, web10, p1, p10, here, away, keys, serial, alice, bob

MCSources == {"scc", "monitoring", "gce", "quotas", "budgets", "policies", "iam"}

Threat(severity) == [category |-> "threat", resource |-> web, severity |-> severity]

MCFindings ==
    {[category |-> "mining", resource |-> web10, severity |-> "HIGH"],
     [category |-> "mining", resource |-> p1, severity |-> "LOW"],
     Threat("HIGH"), Threat("LOW"),
     [category |-> "other", resource |-> web, severity |-> "CRITICAL"]}

Measured(instance, hot, sustained, gpu) ==
    [instance |-> instance, hot |-> hot, sustained |-> sustained, gpu |-> gpu]

MCMeasurements ==
    {Measured(web, TRUE, TRUE, FALSE), Measured(web, TRUE, FALSE, TRUE),
     Measured(web10, FALSE, TRUE, FALSE)}

MCInstances ==
    {[name |-> web, region |-> here, exposed |-> TRUE, broad |-> TRUE],
     [name |-> web, region |-> here, exposed |-> TRUE, broad |-> FALSE],
     [name |-> web10, region |-> here, exposed |-> FALSE, broad |-> TRUE]}

MCQuotas ==
    {[region |-> here, usage |-> "some"], [region |-> here, usage |-> "near_limit"],
     [region |-> away, usage |-> "some"], [region |-> away, usage |-> "none"]}

MCBudgets ==
    {[projects |-> {}, notifies |-> FALSE], [projects |-> {p1}, notifies |-> TRUE],
     [projects |-> {p10}, notifies |-> TRUE]}

MCConstraints == [c \in {keys, serial} |-> IF c = keys THEN "HIGH" ELSE "LOW"]

Iam == INSTANCE IamRules
         WITH Public <- {}, Humans <- {alice, bob}, Domain <- [p \in {alice, bob, web} |-> ""],
              NoDomain <- "", TrustedDomains <- {}, UntrustedDomains <- {}

Grant(role, members) == [role |-> role, members |-> members, condition |-> FALSE]

\* Members of a project with an exposed instance, and of its service account.
IamBook(members, keyed) ==
    [s \in {"project_iam", "service_accounts", "gce_inventory"} |->
       CASE s = "project_iam" ->
              [bindings |-> {Grant("iam.serviceAccountUser", members),
                             Grant("compute.admin", members)}, audit_configs |-> TRUE]
         [] s = "service_accounts" ->
              {[email |-> web, keys |-> keyed, disabled |-> FALSE, bindings |-> {}]}
         [] s = "gce_inventory" ->
              [oslogin |-> TRUE,
               instances |-> {[name |-> web, attached |-> {}, external_ips |-> {"nic0"},
                               running |-> TRUE, startup_script |-> FALSE,
                               blocks_ssh_keys |-> TRUE, serial_port |-> FALSE, gpu |-> keyed]}]]

MCIamAnalyses ==
    {{[rule |-> f.rule, resource |-> f.resource, principal |-> f.principals,
       severity |-> f.severity, cryptojacking |-> Iam!Cryptojacking(f)] : f \in Iam!analyze(b)} :
       b \in {IamBook(members, keyed) : members \in SUBSET {alice, bob}, keyed \in BOOLEAN}}

MCMentions ==
    {<<web, web>>, <<web10, web10>>, <<web, web10>>, <<p1, p1>>, <<p10, p10>>, <<p1, p10>>}

MCQueries ==
    {[confidence |-> {}, kind |-> {}, severity |-> {}, limit |-> 2],
     [confidence |-> {"LOW"}, kind |-> {"detection"}, severity |-> {}, limit |-> 0],
     [confidence |-> {}, kind |-> {"preventive"}, severity |-> {"HIGH"}, limit |-> 25]}

\* Bound: which sources and records are combined.
Focus ==
    \/ DOMAIN book \subseteq {"scc", "monitoring", "gce", "quotas"}
    \/ /\ DOMAIN book \subseteq {"scc", "monitoring", "budgets", "policies", "iam"}
       /\ Records(book, "scc") \subseteq {Threat("LOW")}
       /\ Records(book, "monitoring") \subseteq {Measured(web, TRUE, FALSE, TRUE)}
=============================================================================
