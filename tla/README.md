# Specifications of IAM Guard and Cryptojack Guard

The repository holds two advisory, read-only agents built on the Agent Development Kit (ADK).
`iam_guard` audits the IAM policies of a Google Cloud project; `cryptojack_guard` looks for
cryptocurrency mining in it and reuses IAM Guard's collectors and rule engine. Both answer a message
with the same pipeline:

    scope agent  ->  collectors, in parallel  ->  deterministic engine  ->  report agent
                           |  tool calls                |                        |  tool calls
                           +------------- session state (a dict) ---------------+

This directory models that pipeline, the two rule engines, the reads of the collectors and the
configuration in TLA+, checks small instances with TLC and proves the main invariants with TLAPS for
every value of the constants.

## Inventory

| Component | State | Operations | Interacts with |
| --- | --- | --- | --- |
| Workflow (`*/agent.py`, `*/prompts.py`) | stage of the run, position of each collector | scope, collect, join, analyse, report | ADK runner, session |
| Session plumbing (`iam_guard/tools/session_state.py`) | `state[<inventory key>]`, `state["collection_errors"]` | `record_inventory`, `record_error`, `load_fixture`, `tool_failure`, `missing_project` | all collector tools |
| Collector tools (`*/tools/collectors.py`) | the local list of a call | one read per source: fixture, else API page by page, else error | session, Google Cloud |
| Engine agents (`rule_engine_agent.py`, `risk_engine_agent.py`) | settings captured at import | read the inventories, publish findings or signals and a summary | session, rules |
| IAM rules (`iam_guard/analysis.py`, `roles.py`) | none | twenty-nine rules in six groups, `_dedupe` | rule engine, cryptojacking rules |
| IAM findings (`iam_guard/models.py`) | none | `sort_findings`, `risk_score`, `summarize` | rule engine |
| Cryptojacking rules (`cryptojack_guard/analysis.py`) | none | seven rule groups | IAM rules |
| Signals (`cryptojack_guard/models.py`) | none | `sort_signals`, `dedupe_signals`, `verdict`, `risk_score`, `summarize` | risk engine |
| Report tools (`tools/findings.py`, `tools/signals.py`) | none | `list_findings`, `get_remediation_plan`; `list_signals`, `get_response_plan` | session |
| Normalisation (`iam_guard/normalize.py`) | none | tolerant readers of JSON | rules |
| Configuration (`*/config.py`) | environment variables | `get_settings` at import and per call | everything |
| Deployment, registration, local runner | the environment shipped with an agent | `create`, `update`, a local session, single calls to cloud APIs | outside the agents |

What is hard in it:

* **Interleaving.** Collectors share one error dict and replace it as a whole. ADK writes a tool's
  change to the shared session at once *and* applies it a second time when the runner consumes the
  event of the call, so the dict of an older event can come back over a newer one. A read takes many
  API calls while the project changes.
* **Stale state.** The session outlives a message: inventories and errors of earlier turns stay, read
  under settings that may have changed since.
* **Partial failure.** Any subset of the sources may be unread; any API call of a read may fail; a run
  may die at any stage; an operator may run only some commands of a plan.
* **Bounds.** Reads are capped over pages and zones, records are cut, lists are cut after sorting.
* **Repeats.** Both engines drop repeats before they sort, by keys that leave something out.
* **Liveness.** The engine waits for every collector and every event; a collector waits for its event.
* **Consistency.** Verdict, score, summary, listings and plan are computed apart from one list.

What makes each part correct: the engine sees this turn's reads and no other as this turn's; errors
are real and disclosed; every turn and every read ends; a read holds what was there during the call
and misses nothing that stayed; the absence of a source accuses nobody and hides only what it
describes; dropping repeats hides nobody; only Security Command Center (SCC) confirms mining; advice
influences neither the verdict nor the top of the report; the commands of a plan close its findings
and uncover nothing new.

## Modules

| Module | What it is |
| --- | --- |
| `ReadLedger` | Abstract: a book of reads with begin, observe, persist, analyse, publish, lose |
| `CollectionWorkflow` | One session of either agent, message by message; implements `ReadLedger` |
| `GuardAgents` | The collectors of the two agents with the keys their tools read |
| `AtomicRead` | Abstract: a collector's call as the session sees it, in one step |
| `SourceReads` | One call of a collector from the inside, page by page; implements `AtomicRead` |
| `Listing` | Lists in the order of a sort key, what is picked out of them, the first few: the operators both packages report with |
| `IamRules` | The IAM rules as functions of the inventories |
| `IamAudit` | Audits by IAM Guard, its report tools, and the operator who runs the plan's commands |
| `RiskEngine` | The cryptojacking engine and the tools of its report agent |
| `Deployment` | Which settings the parts of a deployed or local agent see |
| `Telemetry` | From Monitoring series to the signals about load, across deployments |
| `*_proofs` | The theorems about the module of that name; `IamReports_proofs` has those about what `IamAudit` reports |
| `MC*` | Instances for TLC |

How they compose: `CollectionWorkflow` takes a collector's call as one step, which `SourceReads`
justifies by implementing `AtomicRead`; `IamAudit` and `RiskEngine` take the collection phase as
steps that put inventories in a book, which `CollectionWorkflow` justifies by implementing
`ReadLedger`. `IamAudit` extends `IamRules`; the run of `RiskEngine` computes its IAM findings with
`IamRules`. `IamAudit`, `RiskEngine` and `Telemetry` sort, filter and cut with `Listing`. `Telemetry` extends
`Deployment` and justifies the Booleans `hot` and `sustained` that `RiskEngine` takes of a telemetry record.

### CollectionWorkflow

| Variable | In the code |
| --- | --- |
| `stage` | which sub-agent of the `SequentialAgent` runs; `idle` between messages |
| `turn` | the number of the message |
| `scope` | the `project_id:` line the scope agent leaves in state |
| `pc[c]` | which tool of its prompt collector `c` calls next |
| `queue` | events the collectors have emitted and the runner has not consumed |
| `live` | `session.state` of the running invocation, shared by all stages |
| `stored` | the session in the session service |
| `summary` | `findings_summary` / `cryptojack_summary` |
| `seen` | history: how this turn's call for each key ended |

An inventory is abstracted to the turn that read it, the project it describes, and whether it is an
empty dict (the engines test `any(...)`, for which an empty dict is as good as none). An error message
is abstracted to the turn that recorded it.

`Scope` is a message and the scope agent; `MissingProject`, `UnusableFixture`, `ReadFixture`,
`NotConfigured`, `ApiFailure`, `ReadApi` and `MalformedFixture` are the ways a tool call ends;
`CommitEvent` is the runner consuming an event; `RunEngine`, `Report` and `Abort` (a model call that
fails, a process that stops) end the turn. A fixture variable does not exclude `ReadApi`: a fixture
without the section makes the tool go live.

The ADK is not under `src/`. How it is modelled (map entries marked external):

* `ToolContext.state[k] = v` is visible to every stage at once and is also recorded in the event's
  delta, which the runner applies again, to the shared session and to the stored one (`Returns`,
  `Apply`, `CommitEvent`).
* The tools are synchronous functions on one event loop, so one call is one step; between two calls
  of a collector anything may happen.
* Events pass through one FIFO queue, and an agent goes on only after its event was consumed
  (`HasEvent`). `ParallelAgent` ends when all its agents have and the queue is empty.
* An exception that no tool handles ends the run: queued events and the run's copy of the session are
  gone, what was consumed stays stored (`Dies`). Each message loads the stored session.
* Models do what their prompts say: each tool once, in the prompt's order, with the scoped project.
  Several function calls in one model answer are not modelled. When no project is known, the scope
  agent's "ask and stop" does not stop a `SequentialAgent`: the collectors run and every tool answers
  `missing_project`, which records nothing.

### SourceReads

`Begin`, then `FetchPage` per page, then per item either `TakeItem` (instances, findings, quotas: the
listing holds all there is) or `AskAbout` and one `ReadPart` per further API call (keys and policy of a
service account, policy of a bucket, the dataset behind a list entry), then `Finish`; `ApiFailure` at
any call, `NotFound` where an item was deleted after it was listed. `Change` is the project, which
other people change at any moment. `page`, `hand` and `got` are the page iterator, the record being
built and the local list; `inventory` is what `record_inventory` got. The shapes differ in the cap:
`scc_findings` leaves the listing at `max_findings`, `gce_inventory` skips the rest of the page at
`max_instances` but pages on through every zone, buckets and datasets are capped by the service
(`max_results`), service accounts and quotas not at all. The page iterator and the project are
external: pages come in the order of the listing, and the next one starts after the last item given.
`seen` and `steady` are history, of what was so and what stayed so since the call began.

### IamRules and IamAudit

Each rule of `analysis.py` is an operator, the groups carry the code's names. A finding is its rule, its
resource, the principals and roles it names and its severity, which are the fields `_dedupe`,
`sort_findings` and the tools look at; texts, evidence and references are left out. A principal is a
value with a kind and a domain. The role catalogue is that of `roles.py`.

`Collect(R)` reads the sources in `R` and leaves the other ones as an earlier audit left them,
`RunEngine` publishes findings and summary, `ListFindings(q)` and `GetRemediationPlan` are the report
agent's tools, and `Remediate(n)` is the operator who runs the commands of the plan's first `n` steps and
asks for another audit. An instance's name stands for its zone and its name, as in the resource path of its
findings.

A command is modelled by what it does as it is printed. That for a basic role only shows the policy; that
for a public dataset (analysis.py:889-893) exports it, and its edit and update stand behind a `#`, so the
shell runs neither: both are `print`. What the rest does to the project (`Unbinding`, `Changed`) is `gcloud`,
external, in a shell configured for the audited project. It takes a member out of the binding without a
condition. `delete-access-config` (analysis.py:638) names no interface, which stands for `nic0`, while the
collector reads the addresses of every interface (iam_guard/tools/collectors.py:255-260); an address is
named by its interface. `set-service-account` is refused while the instance runs (`running`); no command of
the plan stops it. The last two change nothing where they do not apply, and count as run all the same.

### RiskEngine

`Collect(s)` puts an inventory of source `s` in the session, `RunEngine` turns what is there into
`signals` and `summary`, `ListSignals(q)` and `GetResponsePlan` are the report agent's tools. Each rule
group of `analysis.py` is an operator of the same name over the book of inventories.

Abstractions: threshold comparisons are Booleans of a record (`hot`, `sustained`, `gpu`, `usage`);
`name in text` is the relation `Mentions`; texts, commands and counts are left out; a resource path is
the thing it names. Signals that differ in nothing the verdict, order or filters look at are one
element. An instance has one record per inventory. Signals of equal rank are ordered by their texts,
here by an arbitrary fixed choice. The order in which a service lists its records is unknown, so which of
several repeats survives is nondeterministic. The IAM findings are a source of their own (`"iam"`); in
the code they depend on inventories other rules read too, so what `LossNeverAccuses` says of `clean`
against `no_detections_preventive_gaps` is relative to that. The filter `source` of `list_signals` is
left out; the other filters pass through the same code.

### Deployment and Telemetry

`Deployment` has three variables: the operator's `shell`, the `process` that runs (its environment, and
the settings `agent.py` and the engine agent `captured` at import), and what was `asked` for. Tools see
`Current`, the settings of the environment at every call; the engine sees `Kept`. `Deploy` (create and
update) imports the agent in the shell and then ships it with `env_vars`; `RunLocally` sets the default
project before it imports.

`Telemetry` adds the series Monitoring has, the monitoring inventory and the signals. `Collect` keys the
series by name, merges CPU and GPU, counts samples above the threshold and cuts at `max_instances`;
`Judge` is `_utilization_signals`. Between them the agent may be deployed or run again. A load is a small
number, a time one aligned sample of five minutes; `PinWasMeasured` compares mean and minutes as the code
does, over integers.

## Runs

| Run | Instance | Distinct states | Checks |
| --- | --- | --- | --- |
| `session` | two collectors with two tools and one, a source that has a fixture and needs a setting, two projects or none named, two messages, crashes, under fairness | 60,893 | `TypeOK`, `IInv`, `ReadsReachEngine`, `ErrorsAreReal`, `SomeFailureDisclosed`, `LoneCollectorDisclosed`, `TurnEnds`, `ImplementsLedger` |
| `source_reads` | a source of each shape, four items, pages of two, a cap of three, two calls, two changes at any moment, under fairness | 433,298 | `TypeOK`, `AnswersOfThisCall`, `NothingSteadyMissed`, `CapHolds`, `ImplementsAtomicRead` |
| `iam_audit` | policies of up to three of eight grants among two people, a consumer account and a service account, or one resource of each kind with its weak spots, a bucket granted on a condition and instances that run or not, with one address or two, among them; four sets of readable sources; two audits | 51,120 | `TypeOK`, `LossNeverInvents`, `LossHidesOnlyItsOwn`, `RepeatsSayNothingNew`, `PathsAcrossBindings`, `NothingStrongerHidden`, `PlanStartsWithCriticals`, `NothingNewAfterFix`, `CommandsClose` |
| `telemetry` | three instances, two of one name; four shells, three deployments, any order of read, judgement, deployment and local run | 201,024 | `TypeOK`, `PinWasMeasured`, `PinnedIsFound` |
| `risk` | every subset of the detection sources and of their records, with two instances one of whose names is within the other's, two regions; or every kind of preventive gap and of IAM finding beside a medium and a low detection | 379,202 | `TypeOK`, `RepeatsNeverDecide`, `ConfirmedByScc`, `LossNeverAccuses`, `PlanFollowsVerdict`, `NothingStrongerHidden`, `ScoreBacksVerdict`, `GapsNeverSway`, `AdviceNeverLeads` |

What they show, beyond the names:

* `session`: however collectors, runner and crashes interleave, the engine gets exactly this turn's reads
  as this turn's; overwritten errors never hide that something failed, nor anything of a collector that
  failed alone; every turn ends.
* `source_reads`: paging beside changes skips and repeats nothing that stays; a capped read stops at the
  cap over pages; whatever fails, nothing half-read is stored; a call always ends.
* `iam_audit`: a source that cannot be read makes no finding appear, grow or worsen, and hides only
  findings about its own resources and the three exceptions the property names; repeats and cuts hide
  nothing; commands, all or some, close their findings (with the exceptions named in `CommandsClose`) and
  uncover nothing new, even when the second audit is partly of old inventories.
* `telemetry`: a signal is about one machine that was pinned by the threshold it was read with, though the
  agent was deployed with another since; a pinned machine with a name of its own is not lost.
* `risk`: verdict, score, plan, summary and listings agree with each other and with what was read.

Bounds. `MaxTurns = 2`: the second message is the first that can meet anything stale. Two collectors are
enough for one dict to overwrite another, and the second tool of one of them for waiting to matter.
`PageSize = 2` with four items gives a full page, a last page and a page after a deletion, and a cap of
three falls within a page; `MaxChanges = 2` lets an item go and come back, `MaxCalls = 2` lets a failed call
follow a stored one. `MaxAudits = 2` compares an audit with the one before; any prefix of the plan may be
run. `MaxTop = 3` and `MaxDetail = 2` stand for 10 and 25, small enough that lists are cut. The constraint
`Focus` of `risk` bounds which sources are combined: the detection sources all together, the preventive
ones beside two weak detections. Record sets hold every combination a rule distinguishes at least once.

Deadlock is not checked in `session` and `source_reads`: a session may get no further message, and the
bounded calls and changes may be used up. That nothing is stuck in between is `TurnEnds` and the liveness
of `AtomicRead`.

Fairness. In `session`: the event loop resumes each collector whose model answered, the runner drains its
queue, and each stage starts when the one before it ends. Nothing obliges a user to write or a run to die,
so `Scope` and `Abort` are not fair. In `source_reads`: weak fairness of the call's own steps, for a loop
over a finite listing is running code, and an API call returns or raises. The project's changes and
failures are not fair.

### Statements the code does not keep

Each of these runs checks one statement of a document, comment or test and finds it violated.

| Run | Property | Statement, and what happens |
| --- | --- | --- |
| `iam_lost_errors` | `FailuresDisclosed` | README.md:117, errors are recorded and reported. Two collectors fail; the second application of the older dict removes the newer error. |
| `cryptojack_nothing` | `NothingCollectedExplained` | README.md:289, unreadable is never clean. When all reads fail the summary says `clean` and has no errors. |
| `risk_confirmed_name` | `ConfirmedInstanceIsNamed` | analysis.py:9 and test_cryptojack_analysis.py:510, a name mismatch fabricates no correlation. Names are matched as substrings. |
| `risk_preconditions` | `PreconditionsKept` | analysis.py:785, the IAM findings are kept. Those of other principals on the same resource are dropped as repeats. |
| `risk_unreadable` | `UnreadableNotGuessed` | test_cryptojack_analysis.py:709, an unreadable constraint is skipped. The collector records it as not enforced. |
| `deployed_settings` | `DeployedSettingsApply` | README.md:127 and 149, a deployment's trusted domains apply. The agent is imported, and its settings captured, before the deployment's environment is made. |
| `telemetry_same_name` | `OneRecordPerInstance` | collectors.py:268, one record per instance. Of two instances with one name in different zones one has none. |

Met while modelling, without a run of their own:

* a fixture without a section goes to the live API (README.md:130 says all collectors are offline), and a
  fixture of the wrong shape raises (session_state.py:4-6 says problems become structured errors);
* a billing account that is not configured is recorded nowhere (README.md:288);
* a read that fails leaves the inventory of the previous message, perhaps of another project
  (README.md:181, single project per run), and a successful read leaves an older error (README.md:118);
* a budget for `demo-10` covers `demo-1` (test_cryptojack_analysis.py:645);
* the exposure of a pinned instance is looked up by name (analysis.py:360), so instances of one name in
  different zones lend it to each other;
* ten HIGH findings saturate the IAM score (models.py:115 says that is for criticals);
* the command for a basic role prints the policy, and that for an act-as path through `editor` or `owner`
  removes a role nobody has (findings.py:53, commands that close the findings); `CommandsClose` excepts
  both;
* the command for a public dataset (analysis.py:889-893) only exports it; the edit and the update are behind
  a comment sign. `CommandsClose` excepts it;
* the command against external addresses (analysis.py:638) reaches the first interface only, and the one that
  replaces an account (analysis.py:591) only works on a stopped instance; `CommandsClose` excepts findings
  about instances with an address on another interface, and about running ones (`OutOfReach`);
* the collectors keep the condition of a project binding and drop those of service accounts and buckets
  (iam_guard/tools/collectors.py:177 and 343), and no command names a condition: a grant on a condition stays
  when the commands of its finding were run, and is reported again; `CommandsClose` excepts bindings of the
  finding's own resource that have a condition (`BoundOnCondition`);
* `principal_domain` (roles.py:121-122) speaks of users, groups and domains and returns the domain of
  service accounts as well;
* `register_gemini_enterprise.py:27` imports two names that `deploy.py` does not define, so the script
  README.md:159 tells to run does not start.

## Proofs

| Theorems about | Assumptions on the constants | Theorems |
| --- | --- | --- |
| `CollectionWorkflow` | `LayoutAssumption` (every tool writes a key of its own), `ConfigAssumption` | `TypeCorrect`, `Invariance`, `ReadsReach`, `ErrorsReal`, `SomeDisclosed`, `LoneDisclosed`, `Refinement` |
| `SourceReads` | `ReadsAssumption` (items are finitely many positions, page size and cap are not zero) | `AlwaysTypeOK`, `AlwaysAnswersOfThisCall`, `AlwaysCapHolds`, `AlwaysNothingSteadyMissed`, `StepsAreAtomic` |
| `IamRules` | none; the theorem has the hypothesis `MachinesDistinct` (different instances have different names, as their resource paths have), which `CloudsAssumption` gives in `IamAudit` | `RepeatsAreEqual` |
| `IamAudit` | `CloudsAssumption` (names of instances are unique, nobody has granted the replacement account anything), `ListsAssumption` (what a source lists is finite), `CapsAssumption`, `QueriesAssumption`, `ReadableAssumption` | `AlwaysRepeatsSayNothingNew`, `AlwaysLossNeverInvents`, `AlwaysLossHidesOnlyItsOwn`, `AlwaysPathsAcrossBindings`, `AlwaysNothingNewAfterFix`, `AlwaysCommandsClose`; in `IamReports_proofs` `AlwaysTypeOK`, `AlwaysNothingStrongerHidden`, `AlwaysPlanStartsWithCriticals` |
| `RiskEngine` | `RecordsAssumption` (what a source lists is finite, severities are the four), `CapsAssumption`, `QueriesAssumption` | `Invariance`, `TypeCorrect`, `RepeatsDoNotDecide`, `ConfirmedOnlyByScc`, `GapsDoNotSway`, `LossDoesNotAccuse`, `AdviceDoesNotLead`, `StrongestAreListed`, `ScoreGoesWithVerdict`, `PlanGoesWithVerdict` |
| `Telemetry` | `NamesAssumption` (each name has one place in the alphabet), `LoadsAssumption`, `CapAssumption` | `AlwaysPinWasMeasured`, `AlwaysPinnedIsFound`, `AlwaysTypeOK` |

`Listing_proofs` holds the lemmas about lists and sums these rest on. The assumptions say what an API can
return and an operator can set: a listing ends, the limit of a query is an integer of any sign (`Clamp` bounds
it), and the cap on instances is a number of instances. A negative cap is outside `CapAssumption`: `config.py`
accepts one, and Python then cuts the list from its end.

**CollectionWorkflow.** None of the safety properties is inductive alone. `QueueInv` says what waits in the
queue (at most one event per collector, that of its latest call, and an inventory on its way is what the
stages see), so applying an event again changes no inventory; `BookInv` that shared and stored session
differ only by the queue; `SeenInv` ties the turn stamped on an inventory to the history; `ErrorInv` that
every error dict in sight, also in the queue, is plausible; `SurvivalInv` what overwriting leaves;
`SummaryInv` that the engine published what it saw. `Refinement`: `CommitEvent` is `Persist` of one key
because of `QueueInv`; `RunEngine` is `Analyse` because an empty queue makes both books equal.

**SourceReads.** Four invariants beside the types. `Fresh`: what is on the page, in hand and in the list
was so since the call began, and so is all that is there now. `Bounded`: where the service keeps the cap,
the items *on their way* (listed, in hand, in the list) are within it, since the room left was asked for;
where the tool keeps it, the list is, and the findings' listing is left at the cap. `Ordered`: list before
hand before page before the next page, which makes the list increasing and so free of repeats. `Complete`:
every item that has not changed is in one of the three, or still to be listed, or was left out by rule, or
the cap leaves no room; once it does not it never does again (`TakeCounts`), because a capped source leaves
nothing out. `AlwaysNothingSteadyMissed` follows at the end of a call, when nothing is on its way.
`StepsAreAtomic` is the refinement of `AtomicRead` but for the liveness.

**IamAudit.** `RepeatsAreEqual` holds because key and inventories fix the severity of a finding: two of its
findings under one key are the same. So `analyze` is `Raised`, and each rule can be compared between two
books. Losing a source is monotone but for rules that look at absence (no audit logs, no OS Login), and those
look at an inventory that was read. `AlwaysNothingNewAfterFix` needs an order of books: `LessBook(lo, hi)`
says, resource by resource, that `lo` has no member, key, exposure or entry `hi` does not have, and no
protection less. Whatever the rules find in the lower book they find, as badly or worse, in the higher one;
commands only take the cloud further down; the account a command attaches has no role, which is what
`CloudsAssumption` is for. The inductive invariant `IInv` keeps the cloud below the book (`Behind`: what was
read once can only have been corrected since), the findings those of the book (`Published`) and the former
findings those of a book above this one (`Remembered`).

`AlwaysCommandsClose` needs a second invariant, `Corrected`: nobody in the project holds, without a condition,
what a command that was run took away, and no setting stands as it was before its command, nor does an account
of a stopped instance or an address of its first interface; no later command gives anything back
(`ChangedIsFree`). A finding of a fresh audit that is still what a former one was then contradicts
one of the former's commands, rule by rule, but for what `MayStay` lists: the two commands that only print, the
act-as path by a basic role, conditions, and `OutOfReach`. The first attempt excepted conditions in
the project's policy only; the step for buckets could not be proved, for a bucket's grant on a condition is
reported like any other and the command for it takes only the grant without. TLC found that counterexample once
the run had such a bucket, and the property, not the model, was corrected.

What is reported (`IamReports_proofs`) depends on the findings being finitely many, without which a sorted list
need not exist; the second audit is of a project the commands have changed, so that is an invariant too. `Spoken`:
there are a finite set of principals, of roles and of resources (a `Vocabulary`) that project, book and findings
keep to. Rules make findings of nothing else (`RaisedSpells`) and commands name but one account more
(`ChangedSpeaks`). With it `FindingsInOrder` makes the sorted findings a list in the sense of `Lists`, and
`ThoseLists`, `UptoLeads`, `SumBounds` give filters, cuts and score; `CriticalHasCommands` is a case for each
critical rule.

**Listing.** `Lists(s, S, R)`: `s` has each element of `S` once and none before one that goes before it;
`Leads(t, S, R, n)`: `t` is the first `n` of such a list. `InOrder` lists a finite set, `Those` keeps a list of
what was picked out, `Upto` leads. The first two are recursive functions, over subsets and numbers, and the provers
cannot apply the library's induction theorems to them; `NumbersByInduction` and `SubsetsByInduction` are stated
with a set in place of a predicate and proved from a least counterexample in a well-founded order, and
`RecursionExists` and `CountingExists` show that the functions meet their recursive equations.

**RiskEngine.** `IInv`: the book holds what its sources may return (`Read`), the signals are one outcome of
`dedupe_signals` over it and the summary is theirs (`Published`), the tools answered from them (`Answered`). The
rest are facts about the operators for any sets of records. A rule fixes kind and confidence, so repeats are
interchangeable; confirmed signals exist exactly when a mining finding does; detections do not read the
preventive sources; without a source the detections left are the same or fewer, except that an exposed instance
may lose its confirmation and become likely, which is weaker. Signals are finitely many and ranked, so their
lists and cuts are those of `Listing`; a score is at least the weight of any one signal; a plan is three lists in
a row (`Chained`), whose parts are the signals of a phase.

**Telemetry.** `Measurements` (each record's CPU samples are those of one machine of that name, its count was
made with the threshold recorded beside it, and that is the one in force at the read) is invariant under every
deployment, because only a read writes the inventory and only a read changes what it was read with. `Settled`: the
cap in force is a number, whatever was exported or deployed. For `PinnedIsFound`, `Listed` says that the
inventory has the samples of every machine with a name of its own within the cap: names before it in the alphabet
are fewer than the cap, so its place in the sorted list is not cut off (`WithinTheFirst`).

Every invariant a passing run checks is stated by a theorem. Only model-checked is liveness: `TurnEnds`, and the end
of a call in `ImplementsAtomicRead`, whose steps `StepsAreAtomic` proves. The runs whose property fails state no
theorem. Where a proof takes an arbitrary choice as the model does (the order of signals of equal rank, the survivor
of a repeat), the theorem holds for every choice.

## Not modelled, and why

* What language models write, and models that call tools out of order: nothing in the code constrains them.
* The parsing of numbers and texts (`normalize.py`, lists and numbers in `config.py`): pure functions of one
  value, which the tests cover; a malformed inventory is one without records here.
* Counts by severity, category, service, kind and source in the summaries, and the figures a tool returns to
  its model: no other part reads them.
* `list` and `delete` of `deploy.py`, the registration script and `--rules-only`: single calls without state.
* Number of zones: the cap is checked per item, so zones are further pages of one listing.

## What could follow

A composition of `CollectionWorkflow` with `RiskEngine`, to say what a lost error or an inventory of an earlier
turn does to a verdict; and of `Telemetry` with the instance inventory, for the correlation by name.
