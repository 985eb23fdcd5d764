----------------------------- MODULE MCSession -----------------------------
(* A small agent with the features of both: a collector with two tools, a  *)
(* collector with one, a source read from a fixture file, two messages.    *)
EXTENDS CollectionWorkflow

MCTools == [a |-> <<"k1", "k2">>, b |-> <<"k3">>]
MCCollectors == DOMAIN MCTools
MCKeys == {"k1", "k2", "k3"}
MCNoKeys == {}
MCFixtureKeys == {"k3"}
MCUnconfigured == {"k3"}
=============================================================================
