----------------------------- MODULE AtomicRead -----------------------------
(***************************************************************************)
(* A collector's call as the rest of the system sees it, and as            *)
(* CollectionWorkflow models it: in one step it ends, either with a new    *)
(* inventory or with an error and the inventory before it untouched.       *)
(***************************************************************************)
CONSTANT Contents    \* what an inventory may hold

VARIABLES
    outcome,    \* "none", "reading", "ok" or "failed"
    inventory   \* what the latest successful call stored

vars == <<outcome, inventory>>

Init == outcome = "none" /\ inventory \in Contents

Begin ==
    /\ outcome # "reading"
    /\ outcome' = "reading"
    /\ UNCHANGED inventory

Succeed ==
    /\ outcome = "reading"
    /\ outcome' = "ok"
    /\ inventory' \in Contents

Fail ==
    /\ outcome = "reading"
    /\ outcome' = "failed"
    /\ UNCHANGED inventory

\* A call that has begun ends.
Ends == (outcome = "reading") ~> (outcome # "reading")

Spec == Init /\ [][Begin \/ Succeed \/ Fail]_vars /\ Ends
=============================================================================
