------------------------ MODULE MCCryptojackSession ------------------------
(* cryptojack_guard as agent.py composes it. *)
EXTENDS CollectionWorkflow, GuardAgents

MCCollectors == DOMAIN CryptojackTools
MCNoKeys == {}
MCBudgets == {"billing_budgets"}
=============================================================================
