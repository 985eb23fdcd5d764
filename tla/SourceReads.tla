----------------------------- MODULE SourceReads -----------------------------
(***************************************************************************)
(* What happens inside one call of a collector of iam_guard or             *)
(* cryptojack_guard that goes live: it pages through a listing and asks    *)
(* for more of every item, one API call at a time, while the project       *)
(* changes.  Any API call may fail, and then nothing of the read is kept.  *)
(*                                                                         *)
(* The five shapes of a read differ in where the cap is looked at, in what *)
(* is asked about an item, and in what is left out.  The constraints of    *)
(* the organisation policy are read by RiskEngine!_effective_constraint,   *)
(* the Monitoring series by Telemetry.                                     *)
(***************************************************************************)
EXTENDS Naturals, Sequences, FiniteSets

CONSTANTS
    Sources,    \* the sources that may be read
    Items,      \* positions in the listing
    Configs,    \* configurations of an item
    Bare,       \* those of a region without a limited capacity quota
    Gone,       \* the configuration of an item that is not there
    Clouds,     \* projects at first, [Items -> Configs \cup {Gone}]
    PageSize,   \* items on one page of a listing
    MaxItems,   \* the cap of the sources that have one
    MaxChanges, \* bound: changes of the project
    MaxCalls    \* bound: calls of the collector

ASSUME ReadsAssumption ==
    /\ Items \subseteq Nat \ {0}
    /\ IsFiniteSet(Items)
    /\ Gone \notin Configs
    /\ Clouds \subseteq [Items -> Configs \cup {Gone}]
    /\ PageSize \in Nat \ {0}
    /\ MaxItems \in Nat \ {0}
    /\ MaxChanges \in Nat
    /\ MaxCalls \in Nat

VARIABLES
    source,     \* the source read in this behaviour
    cloud,      \* its items
    after,      \* the listing was fetched up to this position
    more,       \* whether the listing goes on after that
    page,       \* what the listing told of the items fetched and not looked at yet
    hand,       \* the item being asked about with the answers, if any
    got,        \* the local list of the call
    outcome,    \* "none", "reading", "ok" or "failed"
    inventory,  \* the list the latest successful call stored
    seen,       \* item and configuration pairs since the call began (history)
    steady,     \* those that have not changed since (history)
    changes,
    calls

project == <<cloud, seen, steady, changes>>
read == <<after, more, page, hand, got, outcome, inventory, calls>>
vars == <<source, project, read>>

-----------------------------------------------------------------------------
(***************************************************************************)
(* The shapes.                                                             *)
(***************************************************************************)

\* What is asked about each item, in a call of its own.
Parts ==
    IF source = "service_accounts" THEN <<"keys", "policy">>
    ELSE IF source = "gcs_inventory" THEN <<"policy">>
    ELSE IF source = "bigquery_inventory" THEN <<"dataset">>
    ELSE <<>>

\* The cap is the service's to keep: its listing ends after so many items.
Limited == source \in {"gcs_inventory", "bigquery_inventory"}

\* Regions without a limited capacity quota are left out.
Kept(config) == source = "compute_quotas" => config \notin Bare

-----------------------------------------------------------------------------
(***************************************************************************)
(* The call.                                                               *)
(***************************************************************************)
There == {i \in Items : cloud[i] # Gone}

Now == {<<i, cloud[i]>> : i \in There}

\* No item.
Empty == [i \in {} |-> Gone]

Begin ==
    /\ outcome # "reading"
    /\ calls < MaxCalls
    /\ outcome' = "reading"
    /\ after' = 0 /\ more' = TRUE /\ page' = Empty /\ hand' = {} /\ got' = <<>>
    /\ seen' = Now
    /\ steady' = Now
    /\ calls' = calls + 1
    /\ UNCHANGED <<source, cloud, changes, inventory>>

\* Mutation: the cap is noticed one item late.
FullLate(n) == n > MaxItems

\* The cap is reached with n items.
Full(n) == n >= MaxItems

PageLimit ==
    LET wanted == IF source = "scc_findings" THEN MaxItems
                  ELSE IF Limited THEN MaxItems - Len(got)
                  ELSE PageSize
    IN  IF wanted < PageSize THEN wanted ELSE PageSize

\* P is the first page of the items left.
FirstOf(P, left) ==
    /\ P \subseteq left
    /\ \A i \in P, j \in left \ P : i < j
    /\ Cardinality(P) <= PageLimit
    /\ P = left \/ Cardinality(P) = PageLimit

\* Mutation: only the first page is read.
NothingFollows(P, left) == FALSE

\* Mutation: another page is asked for even after the last one.
SomethingFollows(P, left) == TRUE

\* There is more to list after page P of the items left.
Follows(P, left) == P # left /\ (Limited => Len(got) + Cardinality(P) < MaxItems)

FetchPage ==
    /\ outcome = "reading" /\ more /\ page = Empty /\ hand = {}
    /\ LET left == {i \in There : i > after}
       IN  \E P \in SUBSET left :
             /\ FirstOf(P, left)
             /\ page' = [i \in P |-> cloud[i]]
             /\ IF P = {} THEN UNCHANGED after ELSE after' \in P /\ \A i \in P : i <= after'
             /\ more' = Follows(P, left)
    /\ UNCHANGED <<source, project, hand, got, outcome, inventory, calls>>

IsNext(i) == \A j \in DOMAIN page : i <= j

\* What the listing told of item i.
Listed(i) == [item |-> i, told |-> <<page[i]>>]

Rest(i) == [j \in DOMAIN page \ {i} |-> page[j]]

\* Compute instances: at the cap the rest of the page is skipped, but the
\* listing is paged through to its end.  Findings: the listing is left once the
\* cap is reached.
TakeItem ==
    /\ outcome = "reading"
    /\ Parts = <<>>
    /\ \E i \in DOMAIN page :
         /\ IsNext(i)
         /\ IF source = "gce_inventory" /\ Full(Len(got))
            THEN page' = Empty /\ UNCHANGED <<more, got>>
            ELSE /\ got' = IF Kept(page[i]) THEN Append(got, Listed(i)) ELSE got
                 /\ IF source = "scc_findings" /\ Full(Len(got'))
                    THEN page' = Empty /\ more' = FALSE
                    ELSE page' = Rest(i) /\ UNCHANGED more
    /\ UNCHANGED <<source, project, after, hand, outcome, inventory, calls>>

\* Mutation: the next item is taken up before the one in hand is done with.
AskAboutAhead ==
    /\ outcome = "reading"
    /\ Parts # <<>>
    /\ \E i \in DOMAIN page :
         /\ IsNext(i)
         /\ hand' = hand \cup {Listed(i)}
         /\ page' = Rest(i)
    /\ UNCHANGED <<source, project, after, more, got, outcome, inventory, calls>>

AskAbout ==
    /\ outcome = "reading" /\ hand = {}
    /\ Parts # <<>>
    /\ \E i \in DOMAIN page :
         /\ IsNext(i)
         /\ hand' = {Listed(i)}
         /\ page' = Rest(i)
    /\ UNCHANGED <<source, project, after, more, got, outcome, inventory, calls>>

\* Mutation: what an earlier call read of the item is not asked for again.
LastAnswer(i) ==
    LET known == SelectSeq(inventory, LAMBDA r : r.item = i)
    IN  IF known = <<>> THEN cloud[i] ELSE known[1].told[1]

Answer(i) == cloud[i]

\* What is known of the item with one more answer.
Told(r) == [item |-> r.item, told |-> Append(r.told, Answer(r.item))]

\* The item is added to the list when all has been asked about it.
ReadPart ==
    /\ outcome = "reading"
    /\ \E r \in hand :
         /\ cloud[r.item] # Gone
         /\ IF Len(r.told) >= Len(Parts)
            THEN got' = Append(got, Told(r)) /\ hand' = {}
            ELSE hand' = {Told(r)} /\ UNCHANGED got
    /\ UNCHANGED <<source, project, after, more, page, outcome, inventory, calls>>

\* Credentials, quota, network, a service that is not enabled.
ApiFailure ==
    /\ outcome = "reading"
    /\ outcome' = "failed"
    /\ UNCHANGED <<source, project, after, more, page, hand, got, inventory, calls>>

\* The item was deleted after it was listed: asking about it fails.
NotFound == ApiFailure /\ \E r \in hand : cloud[r.item] = Gone

Finish ==
    /\ outcome = "reading" /\ ~more /\ page = Empty /\ hand = {}
    /\ inventory' = got
    /\ outcome' = "ok"
    /\ UNCHANGED <<source, project, after, more, page, hand, got, calls>>

-----------------------------------------------------------------------------
(***************************************************************************)
(* The project: items are made, changed and deleted at any time.           *)
(***************************************************************************)
Change(i, config) ==
    /\ changes < MaxChanges
    /\ cloud[i] # config
    /\ cloud' = [cloud EXCEPT ![i] = config]
    /\ changes' = changes + 1
    /\ IF outcome = "reading"
       THEN /\ seen' = seen \cup (IF config = Gone THEN {} ELSE {<<i, config>>})
            /\ steady' = {x \in steady : x[1] # i}
       ELSE UNCHANGED <<seen, steady>>
    /\ UNCHANGED <<source, read>>

Init ==
    /\ source \in Sources
    /\ cloud \in Clouds
    /\ after = 0 /\ more = FALSE /\ page = Empty /\ hand = {} /\ got = <<>>
    /\ outcome = "none"
    /\ inventory = <<>>
    /\ seen = {} /\ steady = {}
    /\ changes = 0 /\ calls = 0

\* The call's own steps.
Step == FetchPage \/ TakeItem \/ AskAbout \/ ReadPart \/ NotFound \/ Finish

Next ==
    \/ Begin
    \/ Step
    \/ ApiFailure
    \/ \E i \in Items, config \in Configs \cup {Gone} : Change(i, config)

Spec == Init /\ [][Next]_vars

\* A call that runs goes on, whatever the project does.
FairSpec == Spec /\ WF_vars(Step)

-----------------------------------------------------------------------------
(***************************************************************************)
(* Properties the code has.                                                *)
(***************************************************************************)
Read(s) == {s[k].item : k \in DOMAIN s}

Capped == source \in {"scc_findings", "gce_inventory", "gcs_inventory", "bigquery_inventory"}

TypeOK ==
    /\ source \in Sources
    /\ cloud \in [Items -> Configs \cup {Gone}]
    /\ outcome \in {"none", "reading", "ok", "failed"}
    /\ more \in BOOLEAN
    /\ after \in Items \cup {0}
    /\ page \in [DOMAIN page -> Configs] /\ DOMAIN page \subseteq Items
    /\ \A s \in {got, inventory} : Read(s) \subseteq Items
    /\ Cardinality(hand) <= 1
    /\ calls \in 0..MaxCalls /\ changes \in 0..MaxChanges

\* iam_guard collectors.py:153-182: whatever is stored about an item was so at
\* some moment of this very call, though perhaps never together, for listing,
\* keys and policy are asked for one after the other.
AnswersOfThisCall ==
    outcome \in {"reading", "ok"} =>
      \A k \in DOMAIN got : \A n \in DOMAIN got[k].told : <<got[k].item, got[k].told[n]>> \in seen

\* An item that was there unchanged all the while is in the inventory, once,
\* unless exactly the cap was read: paging beside changes skips and repeats
\* nothing.
NothingSteadyMissed ==
    outcome = "ok" =>
      /\ Cardinality(Read(inventory)) = Len(inventory)
      /\ \A x \in steady :
           \/ x[1] \in Read(inventory)
           \/ ~Kept(x[2])
           \/ Capped /\ Len(inventory) = MaxItems

\* config.py:37-39 and cryptojack_guard config.py:70: the cap is on what one run
\* reads, over all pages and zones.
CapHolds == Capped => Len(got) <= MaxItems

\* README.md:117-119, CollectionWorkflow's reads: a call is one step for the
\* session, which ends whatever happens meanwhile; a read that fails half-way
\* leaves nothing of itself.
Session == INSTANCE AtomicRead
             WITH Contents <- Seq([item : Items, told : Seq(Configs)])

ImplementsAtomicRead == Session!Spec

=============================================================================
