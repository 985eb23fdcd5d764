----------------------------- MODULE ReadLedger -----------------------------
(***************************************************************************)
(* What the collection phase promises about inventories, with the session, *)
(* the event queue and the concurrent collectors abstracted away.          *)
(*                                                                         *)
(* A run keeps a book with one entry per source.  Only an observation of a *)
(* source changes its entry; an entry becomes durable as it stands in the  *)
(* book; the analysis starts when everything observed is durable and is    *)
(* based on the book; a run that dies falls back to what is durable.       *)
(***************************************************************************)
CONSTANTS
    Keys,       \* the sources, by their session-state key
    Value,      \* what an entry may hold
    Blank       \* the entry of a source nobody ever observed

VARIABLES
    phase,      \* "idle", "collecting" or "reporting"
    book,       \* the entries as the running stages see them
    durable,    \* the entries that survive the run
    basis       \* the entries the latest analysis was computed from

vars == <<phase, book, durable, basis>>

Init ==
    /\ phase = "idle"
    /\ book = [k \in Keys |-> Blank]
    /\ durable = book
    /\ basis = book

Begin ==
    /\ phase = "idle"
    /\ phase' = "collecting"
    /\ book' = durable
    /\ UNCHANGED <<durable, basis>>

Observe(k) ==
    /\ phase = "collecting"
    /\ \E v \in Value : book' = [book EXCEPT ![k] = v]
    /\ UNCHANGED <<phase, durable, basis>>

Persist(k) ==
    /\ phase = "collecting"
    /\ durable' = [durable EXCEPT ![k] = book[k]]
    /\ UNCHANGED <<phase, book, basis>>

Analyse ==
    /\ phase = "collecting"
    /\ durable = book
    /\ phase' = "reporting"
    /\ basis' = book
    /\ UNCHANGED <<book, durable>>

Publish ==
    /\ phase = "reporting"
    /\ phase' = "idle"
    /\ UNCHANGED <<book, durable, basis>>

Lose ==
    /\ phase # "idle"
    /\ phase' = "idle"
    /\ book' = durable
    /\ UNCHANGED <<durable, basis>>

Next ==
    \/ Begin
    \/ \E k \in Keys : Observe(k) \/ Persist(k)
    \/ Analyse
    \/ Publish
    \/ Lose

Spec == Init /\ [][Next]_vars
=============================================================================
