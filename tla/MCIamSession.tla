---------------------------- MODULE MCIamSession ----------------------------
(* iam_guard as agent.py composes it. *)
EXTENDS CollectionWorkflow, GuardAgents

MCCollectors == DOMAIN IamTools
MCNoKeys == {}
=============================================================================
