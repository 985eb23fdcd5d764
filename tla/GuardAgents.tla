---------------------------- MODULE GuardAgents ----------------------------
(***************************************************************************)
(* The two agents as they are composed: which collectors run in parallel,  *)
(* and the state keys their tools write, in the order of their prompts.    *)
(***************************************************************************)
EXTENDS Sequences

IamTools ==
    [iam_collector      |-> <<"project_iam", "service_accounts">>,
     gce_collector      |-> <<"gce_inventory">>,
     gcs_collector      |-> <<"gcs_inventory">>,
     bigquery_collector |-> <<"bigquery_inventory">>]

CryptojackTools ==
    [scc_collector        |-> <<"scc_findings">>,
     monitoring_collector |-> <<"monitoring_signals">>,
     capacity_collector   |-> <<"compute_quotas", "gce_inventory">>,
     guardrail_collector  |-> <<"org_policies", "billing_budgets",
                                "project_iam", "service_accounts">>]

\* The state keys an engine hands to its analysis.
_INVENTORY_KEYS ==
    {"project_iam", "service_accounts", "gce_inventory", "gcs_inventory", "bigquery_inventory"}

_SIGNAL_KEYS ==
    {"scc_findings", "monitoring_signals", "compute_quotas", "billing_budgets",
     "org_policies", "project_iam", "service_accounts", "gce_inventory"}
=============================================================================
