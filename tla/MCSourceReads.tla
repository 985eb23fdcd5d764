---------------------------- MODULE MCSourceReads ----------------------------
(* Four items on pages of two and a cap of three, for a source of each shape. *)
EXTENDS SourceReads

MCSources ==
    {"service_accounts", "gcs_inventory", "gce_inventory", "scc_findings", "compute_quotas"}

MCItems == 1..4

\* The third item may be missing, the second may be a region to leave out.
MCClouds ==
    {[i \in MCItems |-> IF i \in absent THEN "gone" ELSE IF i = 2 THEN second ELSE "old"] :
       absent \in {{}, {3}, MCItems}, second \in {"old", "new"}}
=============================================================================
