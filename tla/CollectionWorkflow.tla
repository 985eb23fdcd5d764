------------------------- MODULE CollectionWorkflow -------------------------
(***************************************************************************)
(* One session of a guard agent (iam_guard or cryptojack_guard):           *)
(*                                                                         *)
(*   scope agent -> collectors in parallel -> engine -> report agent       *)
(*                                                                         *)
(* for every message of the user.  A collector is an LLM agent that calls  *)
(* its tools in the order of its prompt.  A tool writes its inventory, or  *)
(* an entry of the shared collection_errors dict, through to the session   *)
(* the stages share, and the same write travels in the event of the call.  *)
(* Events reach the runner through one FIFO queue; the runner applies each *)
(* of them to the shared session AGAIN and to the stored session.  A       *)
(* collector calls its next tool when its event has been consumed.         *)
(*                                                                         *)
(* Tools are synchronous functions on one event loop, so a call is one     *)
(* step; everything between two calls of a collector is an await.          *)
(***************************************************************************)
EXTENDS Naturals, Sequences

CONSTANTS
    Keys,           \* session-state keys of the sources
    Collectors,     \* the sub-agents of the ParallelAgent
    Tools,          \* Tools[c]: the keys c's tools read, in prompt order
    Projects,       \* projects a user may name
    NoProject,      \* the empty project id
    DefaultProject, \* the configured default project, or NoProject
    FixtureKeys,    \* sources whose fixture variable is set
    Unconfigured,   \* sources that need a setting nobody configured
    MaxTurns        \* bound: messages the user sends in the session

ASSUME LayoutAssumption ==
    /\ Tools \in [Collectors -> Seq(Keys)]
    /\ \A c, d \in Collectors : \A i \in DOMAIN Tools[c], j \in DOMAIN Tools[d] :
         Tools[c][i] = Tools[d][j] => c = d /\ i = j

ASSUME ConfigAssumption ==
    /\ NoProject \notin Projects
    /\ DefaultProject \in Projects \cup {NoProject}
    /\ FixtureKeys \subseteq Keys
    /\ Unconfigured \subseteq Keys
    /\ MaxTurns \in Nat

VARIABLES
    stage,      \* "idle", "collecting" or "reporting"
    turn,       \* messages received so far
    scope,      \* project the scope agent resolved for this message
    pc,         \* pc[c]: position in Tools[c] of c's next call
    queue,      \* events waiting for the runner
    live,       \* session object shared by the stages of the run
    stored,     \* session as the session service keeps it
    seen,       \* seen[k]: how this turn's call for k ended (history)
    summary     \* what the engine put in state for the report agent

vars == <<stage, turn, scope, pc, queue, live, stored, seen, summary>>

-----------------------------------------------------------------------------
(***************************************************************************)
(* Data.  An inventory is abstracted to the turn that read it, the project *)
(* it describes and whether it is an empty dict; a key never written reads *)
(* as None, which is as falsy as the empty dict.  An error message is      *)
(* abstracted to the turn that recorded it, 0 when there is none.          *)
(***************************************************************************)
Turns == 0..MaxTurns

Inventory == [turn : Turns, project : Projects \cup {NoProject}, empty : BOOLEAN]

NoInventory == [turn |-> 0, project |-> NoProject, empty |-> TRUE]

Errors == [Keys -> Turns]

NoErrors == [k \in Keys |-> 0]

Session == [inv : [Keys -> Inventory], errors : Errors]

EmptySession == [inv |-> [k \in Keys |-> NoInventory], errors |-> NoErrors]

\* Ways a call ends; those of the last line leave nothing in the session.
ReadOutcomes == {"from_fixture", "from_api"}
RecordedFailures == {"unusable_fixture", "api_failure"}
Outcomes == {"pending"} \cup ReadOutcomes \cup RecordedFailures
              \cup {"missing_project", "not_configured", "raised"}

Event == [from : Collectors, key : Keys, wrote : {"inventory", "errors", "nothing"},
          value : Inventory, errors : Errors]

\* The keys of a session whose inventory is truthy: what an engine counts
\* as collected.
Collected(inv) == {k \in Keys : ~inv[k].empty}

-----------------------------------------------------------------------------
(***************************************************************************)
(* Writes to the session.                                                  *)
(***************************************************************************)

\* An event's state delta, applied to a session dict.
Apply(s, e) ==
    [inv    |-> IF e.wrote = "inventory" THEN [s.inv EXCEPT ![e.key] = e.value] ELSE s.inv,
     errors |-> IF e.wrote = "errors" THEN e.errors ELSE s.errors]

record_inventory(c, k, value) ==
    [from |-> c, key |-> k, wrote |-> "inventory", value |-> value, errors |-> NoErrors]

\* Mutations of record_error: the dict holds the one message; it is started
\* afresh; a copied line keeps the key of the collector's first tool.
RecordErrorAlone(c, k) ==
    [from |-> c, key |-> k, wrote |-> "errors", value |-> NoInventory,
     errors |-> [j \in {k} |-> turn]]

RecordErrorAfresh(c, k) ==
    [from |-> c, key |-> k, wrote |-> "errors", value |-> NoInventory,
     errors |-> [NoErrors EXCEPT ![k] = turn]]

RecordErrorOfFirst(c, k) ==
    [from |-> c, key |-> k, wrote |-> "errors", value |-> NoInventory,
     errors |-> [live.errors EXCEPT ![Tools[c][1]] = turn]]

\* The whole dict is read, extended with the key and written back.
record_error(c, k) ==
    [from |-> c, key |-> k, wrote |-> "errors", value |-> NoInventory,
     errors |-> [live.errors EXCEPT ![k] = turn]]

NoWrite(c, k) ==
    [from |-> c, key |-> k, wrote |-> "nothing", value |-> NoInventory, errors |-> NoErrors]

-----------------------------------------------------------------------------
(***************************************************************************)
(* Collectors.                                                             *)
(***************************************************************************)
KeysOf(c) == {Tools[c][i] : i \in DOMAIN Tools[c]}

Resolve(p) == IF p = NoProject THEN DefaultProject ELSE p

HasEvent(c) == \E i \in DOMAIN queue : queue[i].from = c

\* Collector c's LLM is about to call the tool of key k.
Calls(c, k) ==
    /\ stage = "collecting"
    /\ pc[c] \in DOMAIN Tools[c]
    /\ ~ HasEvent(c)
    /\ k = Tools[c][pc[c]]

\* The call returns: its write is visible to every stage at once and its
\* event waits for the runner.
Returns(c, outcome, event) ==
    /\ pc' = [pc EXCEPT ![c] = @ + 1]
    /\ seen' = [seen EXCEPT ![event.key] = outcome]
    /\ live' = Apply(live, event)
    /\ queue' = Append(queue, event)
    /\ UNCHANGED <<stage, turn, scope, stored, summary>>

MissingProject(c, k) ==
    /\ Calls(c, k)
    /\ Resolve(scope) = NoProject
    /\ Returns(c, "missing_project", NoWrite(c, k))

\* The fixture is unset or has no section for k: the tool asks the API.
GoesLive(c, k) ==
    /\ Calls(c, k)
    /\ Resolve(scope) # NoProject

UnusableFixture(c, k) ==
    /\ Calls(c, k)
    /\ Resolve(scope) # NoProject
    /\ k \in FixtureKeys
    /\ Returns(c, "unusable_fixture", record_error(c, k))

\* A recorded section describes whatever project it was recorded from.
ReadFixture(c, k) ==
    /\ Calls(c, k)
    /\ Resolve(scope) # NoProject
    /\ k \in FixtureKeys
    /\ \E p \in Projects, empty \in BOOLEAN :
         Returns(c, "from_fixture",
                 record_inventory(c, k, [turn |-> turn, project |-> p, empty |-> empty]))

NotConfigured(c, k) ==
    /\ GoesLive(c, k)
    /\ k \in Unconfigured
    /\ Returns(c, "not_configured", NoWrite(c, k))

ApiFailure(c, k) ==
    /\ GoesLive(c, k)
    /\ k \notin Unconfigured
    /\ Returns(c, "api_failure", record_error(c, k))

\* Mutation: an inventory the session already holds is reused.
ReadApiCached(c, k) ==
    /\ GoesLive(c, k)
    /\ k \notin Unconfigured
    /\ LET fresh == [turn |-> turn, project |-> Resolve(scope), empty |-> FALSE]
       IN  Returns(c, "from_api",
                   record_inventory(c, k, IF live.inv[k].empty THEN fresh ELSE live.inv[k]))

ReadApi(c, k) ==
    /\ GoesLive(c, k)
    /\ k \notin Unconfigured
    /\ Returns(c, "from_api",
               record_inventory(c, k, [turn |-> turn, project |-> Resolve(scope), empty |-> FALSE]))

\* The run ends without a report; the stored session is all that is left.
Dies ==
    /\ stage' = "idle"
    /\ queue' = <<>>
    /\ live' = stored
    /\ UNCHANGED <<turn, scope, pc, stored, summary>>

\* A fixture whose JSON is not an object, or whose section is not one, fails
\* with an AttributeError or TypeError that no handler catches.
MalformedFixture(c, k) ==
    /\ Calls(c, k)
    /\ Resolve(scope) # NoProject
    /\ k \in FixtureKeys
    /\ seen' = [seen EXCEPT ![k] = "raised"]
    /\ Dies

Collect(c) ==
    \E k \in Keys :
      \/ MissingProject(c, k)
      \/ UnusableFixture(c, k)
      \/ ReadFixture(c, k)
      \/ NotConfigured(c, k)
      \/ ApiFailure(c, k)
      \/ ReadApi(c, k)
      \/ MalformedFixture(c, k)

-----------------------------------------------------------------------------
(***************************************************************************)
(* The runner and the sequential stages.                                   *)
(***************************************************************************)

\* A message arrives: the session is loaded from the service and the scope
\* agent settles the project, the user's or else the default.
Scope(p) ==
    /\ stage = "idle"
    /\ turn < MaxTurns
    /\ stage' = "collecting"
    /\ turn' = turn + 1
    /\ scope' = Resolve(p)
    /\ pc' = [c \in Collectors |-> 1]
    /\ live' = stored
    /\ seen' = [k \in Keys |-> "pending"]
    /\ UNCHANGED <<queue, stored, summary>>

CommitEvent ==
    /\ stage = "collecting"
    /\ queue # <<>>
    /\ live' = Apply(live, Head(queue))
    /\ stored' = Apply(stored, Head(queue))
    /\ queue' = Tail(queue)
    /\ UNCHANGED <<stage, turn, scope, pc, seen, summary>>

\* Mutation: the collectors are joined without draining the queue.
CollectorsDone ==
    /\ stage = "collecting"
    /\ \A c \in Collectors : pc[c] \notin DOMAIN Tools[c]

\* Mutation: the engine waits until every source has an inventory.
EverythingCollected ==
    /\ stage = "collecting"
    /\ queue = <<>>
    /\ Collected(live.inv) = Keys

\* The ParallelAgent ends when every collector has and the queue is drained.
CollectionDone ==
    /\ stage = "collecting"
    /\ queue = <<>>
    /\ \A c \in Collectors : pc[c] \notin DOMAIN Tools[c]

\* Mutation: the errors go with the empty summary instead of the full one.
RunEngineSwapped ==
    /\ CollectionDone
    /\ stage' = "reporting"
    /\ summary' = [basis  |-> live.inv,
                   errors |-> IF Collected(live.inv) = {} THEN live.errors ELSE NoErrors]
    /\ UNCHANGED <<turn, scope, pc, queue, live, stored, seen>>

\* The engine analyses the shared session.  With nothing truthy collected it
\* publishes the summary of an empty list, which carries no errors.
RunEngine ==
    /\ CollectionDone
    /\ stage' = "reporting"
    /\ summary' = [basis  |-> live.inv,
                   errors |-> IF Collected(live.inv) = {} THEN NoErrors ELSE live.errors]
    /\ UNCHANGED <<turn, scope, pc, queue, live, stored, seen>>

Report ==
    /\ stage = "reporting"
    /\ stage' = "idle"
    /\ UNCHANGED <<turn, scope, pc, queue, live, stored, seen, summary>>

\* A model call fails or the process stops.
Abort ==
    /\ stage # "idle"
    /\ Dies
    /\ UNCHANGED seen

Init ==
    /\ stage = "idle"
    /\ turn = 0
    /\ scope = NoProject
    /\ pc = [c \in Collectors |-> 1]
    /\ queue = <<>>
    /\ live = EmptySession
    /\ stored = EmptySession
    /\ seen = [k \in Keys |-> "pending"]
    /\ summary = [basis |-> EmptySession.inv, errors |-> NoErrors]

Next ==
    \/ \E p \in Projects \cup {NoProject} : Scope(p)
    \/ \E c \in Collectors : Collect(c)
    \/ CommitEvent
    \/ RunEngine
    \/ Report
    \/ Abort

Spec == Init /\ [][Next]_vars

\* The event loop resumes every collector whose model call has returned, the
\* runner drains the queue, and each stage is started when the one before it
\* ends.  Nothing makes a user send a message or a run die.
Fairness ==
    /\ \A c \in Collectors : WF_vars(Collect(c))
    /\ WF_vars(CommitEvent)
    /\ WF_vars(RunEngine)
    /\ WF_vars(Report)

FairSpec == Spec /\ Fairness

-----------------------------------------------------------------------------
(***************************************************************************)
(* Properties the code has.                                                *)
(***************************************************************************)

TypeOK ==
    /\ stage \in {"idle", "collecting", "reporting"}
    /\ turn \in Turns
    /\ scope \in Projects \cup {NoProject}
    /\ pc \in [Collectors -> Nat \ {0}]
    /\ \A c \in Collectors : pc[c] <= Len(Tools[c]) + 1
    /\ queue \in Seq(Event)
    /\ live \in Session
    /\ stored \in Session
    /\ seen \in [Keys -> Outcomes]
    /\ summary \in [basis : [Keys -> Inventory], errors : Errors]

\* What the engine analysed is, source by source, this message's read exactly
\* when this message's call read the source: no concurrent write, no second
\* application of an event and no cached value came in between.
ReadsReachEngine ==
    stage = "reporting" =>
      \A k \in Keys : summary.basis[k].turn = turn <=> seen[k] \in ReadOutcomes

\* An error is never invented: a message recorded under a key during this
\* turn comes from a failed call of that key's own tool in this turn.
ErrorsAreReal ==
    \A k \in Keys :
      /\ live.errors[k] = turn /\ turn > 0 => seen[k] \in RecordedFailures
      /\ stored.errors[k] = turn /\ turn > 0 => seen[k] \in RecordedFailures

FailedKeys == {k \in Keys : seen[k] \in RecordedFailures}

\* Collectors overwrite each other's errors, but not all of them: when some
\* read was recorded as failed and something was collected, the report is
\* told of at least one failure of this turn.
SomeFailureDisclosed ==
    stage = "reporting" /\ FailedKeys # {} /\ Collected(summary.basis) # {} =>
      \E k \in FailedKeys : summary.errors[k] = turn

\* Errors are lost only between collectors: a collector waits for its event
\* before its next call, so when only one collector met failures, the report
\* is told of every one of them.
LoneCollectorDisclosed ==
    stage = "reporting" /\ Collected(summary.basis) # {} =>
      \A c \in Collectors :
        FailedKeys \subseteq KeysOf(c) =>
          \A k \in FailedKeys : summary.errors[k] = turn

\* Inventories keep the promise of the ledger: the collection phase, with its
\* queue, its write-through session and its second application of events,
\* implements one book that only an observation changes.
Ledger == INSTANCE ReadLedger WITH
    Value <- Inventory, Blank <- NoInventory,
    phase <- stage, book <- live.inv, durable <- stored.inv, basis <- summary.basis

ImplementsLedger == Ledger!Spec

\* Every message is answered with a report, or its run dies: no collector,
\* event or stage waits for another forever.
TurnEnds == stage = "collecting" ~> stage = "idle"

-----------------------------------------------------------------------------
(***************************************************************************)
(* The inductive invariant behind the properties above.                    *)
(***************************************************************************)
\* A collector has at most one event in the queue, that of its latest call,
\* and an inventory that is on its way is what the stages already see.
QueueInv ==
    /\ stage # "collecting" => queue = <<>>
    /\ \A i, j \in DOMAIN queue : queue[i].from = queue[j].from => i = j
    /\ \A i \in DOMAIN queue :
         /\ pc[queue[i].from] - 1 \in DOMAIN Tools[queue[i].from]
         /\ queue[i].key = Tools[queue[i].from][pc[queue[i].from] - 1]
         /\ queue[i].wrote = "inventory" => live.inv[queue[i].key] = queue[i].value
         /\ queue[i].wrote = "errors" => queue[i].key \in FailedKeys

\* Shared and stored session differ at most in what is in the queue.
BookInv ==
    \A k \in Keys :
      (\A i \in DOMAIN queue : queue[i].wrote = "inventory" => queue[i].key # k)
        => live.inv[k] = stored.inv[k]

\* While a run goes, the inventories of this turn are those it has read, and
\* what is left to call has not been called.
SeenInv ==
    /\ \A k \in Keys : live.inv[k].turn <= turn /\ stored.inv[k].turn <= turn
    /\ stage # "idle" =>
         \A k \in Keys : live.inv[k].turn = turn <=> seen[k] \in ReadOutcomes
    /\ stage = "collecting" =>
         \A c \in Collectors : \A i \in DOMAIN Tools[c] :
           i >= pc[c] => seen[Tools[c][i]] = "pending"
    /\ stage # "idle" => turn > 0

\* E is an error dict this session may hold: nothing from a later turn, and
\* this turn's messages only under keys that failed.
Plausible(E) ==
    \A k \in Keys :
      /\ E[k] <= turn
      /\ E[k] = turn /\ turn > 0 => seen[k] \in RecordedFailures

ErrorInv ==
    /\ Plausible(live.errors)
    /\ Plausible(stored.errors)
    /\ \A i \in DOMAIN queue : queue[i].wrote = "errors" => Plausible(queue[i].errors)

\* What survives the overwriting of errors: one of them, and all of them as
\* long as a single collector has failed.
SurvivalInv ==
    /\ stage # "idle" /\ FailedKeys # {} => \E k \in FailedKeys : live.errors[k] = turn
    /\ \A i \in DOMAIN queue :
         queue[i].wrote = "errors" => queue[i].errors[queue[i].key] = turn
    /\ \A c \in Collectors : FailedKeys \subseteq KeysOf(c) =>
         /\ stage # "idle" => \A k \in FailedKeys : live.errors[k] = turn
         /\ \A i \in DOMAIN queue : queue[i].wrote = "errors" =>
              \A k \in FailedKeys : queue[i].errors[k] = turn

\* The report is written from the session the engine saw.
SummaryInv ==
    stage = "reporting" =>
      /\ summary.basis = live.inv
      /\ Collected(summary.basis) # {} => summary.errors = live.errors

IInv == TypeOK /\ QueueInv /\ BookInv /\ SeenInv /\ ErrorInv /\ SurvivalInv /\ SummaryInv

-----------------------------------------------------------------------------
(***************************************************************************)
(* Statements of the documentation, of a comment or of a test that the     *)
(* code does not keep.                                                     *)
(***************************************************************************)

\* README.md:288 and :117-119: a source that cannot be read is recorded in
\* collection_errors and the report states it.  Restricted to failures the
\* tools do record and to runs that collected something.
FailuresDisclosed ==
    stage = "reporting" /\ Collected(summary.basis) # {} =>
      \A k \in FailedKeys : summary.errors[k] = turn

\* README.md:289, unreadable is never reported as clean: an analysis based on
\* nothing must tell the report agent which errors explain that.
NothingCollectedExplained ==
    stage = "reporting" /\ Collected(summary.basis) = {} /\ FailedKeys # {} =>
      \E k \in Keys : summary.errors[k] # 0

=============================================================================
