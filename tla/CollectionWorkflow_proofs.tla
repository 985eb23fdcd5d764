---------------------- MODULE CollectionWorkflow_proofs ----------------------
(***************************************************************************)
(* The inductive invariant of CollectionWorkflow, what follows from it for *)
(* every layout of collectors and tools, and the refinement of ReadLedger. *)
(***************************************************************************)
EXTENDS CollectionWorkflow, TLAPS

-----------------------------------------------------------------------------
(***************************************************************************)
(* Types of the pieces.                                                    *)
(***************************************************************************)

\* The initial inventory and the empty error dict are of their types, and a
\* session starts well typed.
LEMMA EmptyTypes ==
    /\ NoInventory \in Inventory
    /\ NoErrors \in Errors
    /\ EmptySession \in Session
<1>1. 0 \in Turns
  BY ConfigAssumption DEF Turns
<1>2. NoInventory \in Inventory
  BY <1>1 DEF NoInventory, Inventory
<1>3. NoErrors \in Errors
  BY <1>1 DEF NoErrors, Errors
<1> QED
  BY <1>2, <1>3 DEF EmptySession, Session

\* The three events a tool call can produce are events.
LEMMA EventTypes ==
    ASSUME TypeOK, NEW c \in Collectors, NEW k \in Keys, NEW v \in Inventory
    PROVE  /\ record_inventory(c, k, v) \in Event
           /\ record_error(c, k) \in Event
           /\ NoWrite(c, k) \in Event
<1>1. record_inventory(c, k, v) \in Event
  BY EmptyTypes DEF record_inventory, Event
<1>2. [live.errors EXCEPT ![k] = turn] \in Errors
  BY DEF TypeOK, Session, Errors
<1>3. record_error(c, k) \in Event
  BY <1>2, EmptyTypes DEF record_error, Event
<1>4. NoWrite(c, k) \in Event
  BY EmptyTypes DEF NoWrite, Event
<1> QED
  BY <1>1, <1>3, <1>4

\* Applying an event's delta to a session gives a session.
LEMMA ApplyType ==
    ASSUME NEW s \in Session, NEW e \in Event
    PROVE  Apply(s, e) \in Session
<1>1. (IF e.wrote = "inventory" THEN [s.inv EXCEPT ![e.key] = e.value] ELSE s.inv)
        \in [Keys -> Inventory]
  BY DEF Session, Event
<1>2. (IF e.wrote = "errors" THEN e.errors ELSE s.errors) \in Errors
  BY DEF Session, Event
<1> QED
  BY <1>1, <1>2 DEF Apply, Session

\* A collector that is about to call a tool has a tool left to call.
LEMMA CallFacts ==
    ASSUME TypeOK, NEW c \in Collectors, NEW k, Calls(c, k)
    PROVE  /\ stage = "collecting"
           /\ ~ HasEvent(c)
           /\ k = Tools[c][pc[c]]
           /\ k \in Keys
           /\ pc[c] \in DOMAIN Tools[c]
           /\ pc[c] \in 1..Len(Tools[c])
<1>1. Tools[c] \in Seq(Keys)
  BY LayoutAssumption
<1> QED
  BY <1>1 DEF Calls

-----------------------------------------------------------------------------
(***************************************************************************)
(* The steps of a collector, by what they leave in the session.            *)
(***************************************************************************)

\* Event e is what a call that ended with outcome o sends.
Fits(o, e) ==
    \/ o \in ReadOutcomes /\ e.wrote = "inventory" /\ e.value.turn = turn
    \/ o \in RecordedFailures /\ e.wrote = "errors" /\ e.errors = [live.errors EXCEPT ![e.key] = turn]
    \/ o \in {"missing_project", "not_configured"} /\ e.wrote = "nothing"

CallStep(c, k, o, e) ==
    /\ Calls(c, k)
    /\ Returns(c, o, e)
    /\ e.from = c
    /\ e.key = k
    /\ Fits(o, e)

RaiseStep(c, k) ==
    /\ Calls(c, k)
    /\ seen' = [seen EXCEPT ![k] = "raised"]
    /\ Dies

\* A call that reads its source is a CallStep.
LEMMA ReadIsCallStep ==
    ASSUME TypeOK, NEW c \in Collectors, NEW k \in Keys, NEW o \in ReadOutcomes,
           NEW v \in Inventory, v.turn = turn,
           Calls(c, k), Returns(c, o, record_inventory(c, k, v))
    PROVE  \E e \in Event : CallStep(c, k, o, e)
<1> DEFINE e == record_inventory(c, k, v)
<1>1. e \in Event
  BY EventTypes
<1>2. e.from = c /\ e.key = k /\ e.wrote = "inventory" /\ e.value = v
  BY DEF record_inventory
<1> HIDE DEF e
<1>3. Returns(c, o, e)
  BY DEF e
<1> QED
  BY <1>1, <1>2, <1>3 DEF CallStep, Fits

\* A call that records a failure is a CallStep.
LEMMA FailureIsCallStep ==
    ASSUME TypeOK, NEW c \in Collectors, NEW k \in Keys, NEW o \in RecordedFailures,
           Calls(c, k), Returns(c, o, record_error(c, k))
    PROVE  \E e \in Event : CallStep(c, k, o, e)
<1> DEFINE e == record_error(c, k)
<1>1. e \in Event
  BY EventTypes, EmptyTypes
<1>2. e.from = c /\ e.key = k /\ e.wrote = "errors" /\ e.errors = [live.errors EXCEPT ![k] = turn]
  BY DEF record_error
<1> HIDE DEF e
<1>3. Returns(c, o, e)
  BY DEF e
<1> QED
  BY <1>1, <1>2, <1>3 DEF CallStep, Fits

\* A call that records nothing is a CallStep.
LEMMA SilenceIsCallStep ==
    ASSUME TypeOK, NEW c \in Collectors, NEW k \in Keys,
           NEW o \in {"missing_project", "not_configured"},
           Calls(c, k), Returns(c, o, NoWrite(c, k))
    PROVE  \E e \in Event : CallStep(c, k, o, e)
<1> DEFINE e == NoWrite(c, k)
<1>1. e \in Event
  BY EventTypes, EmptyTypes
<1>2. e.from = c /\ e.key = k /\ e.wrote = "nothing"
  BY DEF NoWrite
<1> HIDE DEF e
<1>3. Returns(c, o, e)
  BY DEF e
<1> QED
  BY <1>1, <1>2, <1>3 DEF CallStep, Fits

\* Every step of a collector returns an event that fits its outcome, or raises.
LEMMA CollectSteps ==
    ASSUME TypeOK, NEW c \in Collectors, Collect(c)
    PROVE  \E k \in Keys :
             RaiseStep(c, k) \/ \E o \in Outcomes, e \in Event : CallStep(c, k, o, e)
<1>1. PICK k \in Keys :
        \/ MissingProject(c, k) \/ UnusableFixture(c, k) \/ ReadFixture(c, k)
        \/ NotConfigured(c, k) \/ ApiFailure(c, k) \/ ReadApi(c, k) \/ MalformedFixture(c, k)
  BY DEF Collect
<1>2. CASE MissingProject(c, k)
  BY <1>2, SilenceIsCallStep DEF MissingProject, Outcomes
<1>3. CASE UnusableFixture(c, k)
  BY <1>3, FailureIsCallStep DEF UnusableFixture, RecordedFailures, Outcomes
<1>4. CASE ReadFixture(c, k)
  <2>1. PICK p \in Projects, empty \in BOOLEAN :
          Returns(c, "from_fixture",
                  record_inventory(c, k, [turn |-> turn, project |-> p, empty |-> empty]))
    BY <1>4 DEF ReadFixture
  <2>2. [turn |-> turn, project |-> p, empty |-> empty] \in Inventory
    BY DEF TypeOK, Inventory
  <2> QED
    BY <1>4, <2>1, <2>2, ReadIsCallStep DEF ReadFixture, ReadOutcomes, Outcomes
<1>5. CASE NotConfigured(c, k)
  BY <1>5, SilenceIsCallStep DEF NotConfigured, GoesLive, Outcomes
<1>6. CASE ApiFailure(c, k)
  BY <1>6, FailureIsCallStep DEF ApiFailure, GoesLive, RecordedFailures, Outcomes
<1>7. CASE ReadApi(c, k)
  <2>1. [turn |-> turn, project |-> Resolve(scope), empty |-> FALSE] \in Inventory
    BY ConfigAssumption DEF TypeOK, Inventory, Resolve
  <2> QED
    BY <1>7, <2>1, ReadIsCallStep DEF ReadApi, GoesLive, ReadOutcomes, Outcomes
<1>8. CASE MalformedFixture(c, k)
  BY <1>8 DEF MalformedFixture, RaiseStep
<1> QED
  BY <1>1, <1>2, <1>3, <1>4, <1>5, <1>6, <1>7, <1>8

-----------------------------------------------------------------------------
(***************************************************************************)
(* Type correctness.                                                       *)
(***************************************************************************)

\* A call that returns a well-typed event keeps the state well typed.
LEMMA ReturnsType ==
    ASSUME TypeOK, NEW c \in Collectors, NEW k, Calls(c, k),
           NEW o \in Outcomes, NEW e \in Event, Returns(c, o, e)
    PROVE  TypeOK'
<1>1. pc' \in [Collectors -> Nat \ {0}] /\ \A d \in Collectors : pc'[d] <= Len(Tools[d]) + 1
  BY CallFacts DEF TypeOK, Returns
<1>2. seen' \in [Keys -> Outcomes]
  BY DEF TypeOK, Returns, Event
<1>3. live' \in Session
  BY ApplyType DEF TypeOK, Returns
<1>4. queue' \in Seq(Event)
  BY DEF TypeOK, Returns
<1> QED
  BY <1>1, <1>2, <1>3, <1>4 DEF TypeOK, Returns

\* A run that dies leaves a well-typed state.
LEMMA DiesType ==
    ASSUME TypeOK, Dies, seen' \in [Keys -> Outcomes]
    PROVE  TypeOK'
BY DEF TypeOK, Dies

LEMMA TypeStep == TypeOK /\ [Next]_vars => TypeOK'
<1> SUFFICES ASSUME TypeOK, [Next]_vars PROVE TypeOK'
  OBVIOUS
<1>1. ASSUME NEW p \in Projects \cup {NoProject}, Scope(p) PROVE TypeOK'
  <2>1. turn' \in Turns
    BY <1>1, ConfigAssumption DEF Scope, TypeOK, Turns
  <2>2. scope' \in Projects \cup {NoProject}
    BY <1>1, ConfigAssumption DEF Scope, Resolve
  <2>3. pc' \in [Collectors -> Nat \ {0}] /\ \A c \in Collectors : pc'[c] <= Len(Tools[c]) + 1
    <3>1. \A c \in Collectors : Len(Tools[c]) \in Nat
      BY LayoutAssumption
    <3> QED
      BY <1>1, <3>1 DEF Scope
  <2>4. seen' \in [Keys -> Outcomes]
    BY <1>1 DEF Scope, Outcomes
  <2> QED
    BY <1>1, <2>1, <2>2, <2>3, <2>4 DEF Scope, TypeOK
<1>2. ASSUME NEW c \in Collectors, Collect(c) PROVE TypeOK'
  <2>1. PICK k \in Keys :
          RaiseStep(c, k) \/ \E o \in Outcomes, e \in Event : CallStep(c, k, o, e)
    BY <1>2, CollectSteps
  <2>2. CASE RaiseStep(c, k)
    <3>1. seen' \in [Keys -> Outcomes]
      BY <2>2 DEF RaiseStep, TypeOK, Outcomes
    <3> QED
      BY <2>2, <3>1, DiesType DEF RaiseStep
  <2>3. ASSUME NEW o \in Outcomes, NEW e \in Event, CallStep(c, k, o, e) PROVE TypeOK'
    BY <2>3, ReturnsType DEF CallStep
  <2> QED
    BY <2>1, <2>2, <2>3
<1>3. CASE CommitEvent
  <2>1. Head(queue) \in Event /\ Tail(queue) \in Seq(Event)
    BY <1>3 DEF CommitEvent, TypeOK
  <2>2. live' \in Session /\ stored' \in Session
    BY <1>3, <2>1, ApplyType DEF CommitEvent, TypeOK
  <2> QED
    BY <1>3, <2>1, <2>2 DEF CommitEvent, TypeOK
<1>4. CASE RunEngine
  <2>1. summary' \in [basis : [Keys -> Inventory], errors : Errors]
    BY <1>4, EmptyTypes DEF RunEngine, TypeOK, Session
  <2> QED
    BY <1>4, <2>1 DEF RunEngine, TypeOK
<1>5. CASE Report
  BY <1>5 DEF Report, TypeOK
<1>6. CASE Abort
  BY <1>6, DiesType DEF Abort, TypeOK
<1>7. CASE UNCHANGED vars
  BY <1>7 DEF vars, TypeOK
<1> QED
  BY <1>1, <1>2, <1>3, <1>4, <1>5, <1>6, <1>7 DEF Next

LEMMA TypeInit == Init => TypeOK
<1> SUFFICES ASSUME Init PROVE TypeOK
  OBVIOUS
<1>1. \A c \in Collectors : Len(Tools[c]) \in Nat
  BY LayoutAssumption
<1>2. turn \in Turns
  BY ConfigAssumption DEF Init, Turns
<1>3. summary \in [basis : [Keys -> Inventory], errors : Errors]
  BY EmptyTypes DEF Init, EmptySession, Session
<1> QED
  BY <1>1, <1>2, <1>3, EmptyTypes DEF Init, TypeOK, Outcomes

\* Every state the session reaches is well typed, for any layout of tools,
\* any fixture and any number of messages.
THEOREM TypeCorrect == Spec => []TypeOK
BY TypeInit, TypeStep, PTL DEF Spec

-----------------------------------------------------------------------------
(***************************************************************************)
(* The queue.                                                              *)
(***************************************************************************)

\* A pending event is a typed event of the latest call of its collector.
LEMMA PendingFacts ==
    ASSUME TypeOK, QueueInv, NEW i \in DOMAIN queue
    PROVE  /\ queue[i] \in Event
           /\ queue[i].from \in Collectors
           /\ queue[i].key \in Keys
           /\ HasEvent(queue[i].from)
<1>1. queue[i] \in Event
  BY DEF TypeOK
<1>2. HasEvent(queue[i].from)
  BY DEF HasEvent
<1> QED
  BY <1>1, <1>2 DEF Event

\* No pending event is of the collector that calls, nor of the key it reads:
\* a collector waits for its event, and a key belongs to one tool.
LEMMA CallIsAlone ==
    ASSUME TypeOK, QueueInv, NEW c \in Collectors, NEW k, Calls(c, k),
           NEW i \in DOMAIN queue
    PROVE  queue[i].from # c /\ queue[i].key # k
<1>1. queue[i].from # c
  BY CallFacts DEF HasEvent
<1>2. queue[i].key # k
  BY <1>1, CallFacts, PendingFacts, LayoutAssumption DEF QueueInv
<1> QED
  BY <1>1, <1>2

\* What a returning call does to the queue and to the positions.
LEMMA ReturnsQueue ==
    ASSUME TypeOK, QueueInv, NEW c \in Collectors, NEW k, Calls(c, k),
           NEW o, NEW e \in Event, Returns(c, o, e)
    PROVE  /\ DOMAIN queue' = 1..(Len(queue) + 1)
           /\ DOMAIN queue = 1..Len(queue)
           /\ Len(queue) \in Nat
           /\ \A i \in DOMAIN queue : queue'[i] = queue[i]
           /\ queue'[Len(queue) + 1] = e
           /\ \A d \in Collectors : pc'[d] = IF d = c THEN pc[c] + 1 ELSE pc[d]
<1>1. queue \in Seq(Event) /\ queue' = Append(queue, e)
  BY DEF TypeOK, Returns
<1>2. pc' = [pc EXCEPT ![c] = pc[c] + 1] /\ pc \in [Collectors -> Nat \ {0}]
  BY DEF TypeOK, Returns
<1> QED
  BY <1>1, <1>2

\* What a commit does to the queue.
LEMMA CommitQueue ==
    ASSUME TypeOK, CommitEvent
    PROVE  /\ 1 \in DOMAIN queue
           /\ Head(queue) = queue[1]
           /\ \A i \in DOMAIN queue' : i \in Nat /\ i + 1 \in DOMAIN queue /\ queue'[i] = queue[i + 1]
           /\ \A i \in DOMAIN queue : i = 1 \/ i - 1 \in DOMAIN queue'
           /\ \A i \in DOMAIN queue : i \in Nat
<1>1. queue \in Seq(Event) /\ queue # <<>> /\ queue' = Tail(queue)
  BY DEF TypeOK, CommitEvent
<1>2. Len(queue) \in Nat \ {0} /\ DOMAIN queue = 1..Len(queue)
  BY <1>1
<1>3. DOMAIN queue' = 1..(Len(queue) - 1) /\ \A i \in 1..(Len(queue) - 1) : queue'[i] = queue[i + 1]
  BY <1>1, <1>2
<1> QED
  BY <1>1, <1>2, <1>3

\* What a returning call does to the shared session.
LEMMA ReturnsWrites ==
    ASSUME TypeOK, NEW c \in Collectors, NEW k \in Keys, NEW o \in Outcomes, NEW e \in Event,
           CallStep(c, k, o, e)
    PROVE  /\ \A j \in Keys :
                /\ live'.inv[j] = IF e.wrote = "inventory" /\ j = k THEN e.value ELSE live.inv[j]
                /\ seen'[j] = IF j = k THEN o ELSE seen[j]
           /\ e.wrote = "errors" => live'.errors = e.errors
           /\ e.wrote # "errors" => live'.errors = live.errors
           /\ stage' = stage /\ turn' = turn /\ stored' = stored /\ summary' = summary
<1>1. Returns(c, o, e) /\ e.key = k
  BY DEF CallStep
<1>2. live.inv \in [Keys -> Inventory] /\ seen \in [Keys -> Outcomes]
  BY DEF TypeOK, Session
<1>3. live' = Apply(live, e) /\ seen' = [seen EXCEPT ![k] = o]
  BY <1>1 DEF Returns
<1>4. live'.inv = IF e.wrote = "inventory" THEN [live.inv EXCEPT ![k] = e.value] ELSE live.inv
  BY <1>1, <1>3 DEF Apply
<1>5. live'.errors = IF e.wrote = "errors" THEN e.errors ELSE live.errors
  BY <1>3 DEF Apply
<1> QED
  BY <1>1, <1>2, <1>3, <1>4, <1>5 DEF Returns

\* Committing an event does not move the inventories the stages see: the
\* second application of an inventory finds the value already there.  A
\* commit of errors replaces the whole dict in both sessions.
LEMMA CommitWrites ==
    ASSUME TypeOK, QueueInv, CommitEvent
    PROVE  /\ live'.inv = live.inv
           /\ Head(queue).wrote = "errors" =>
                live'.errors = Head(queue).errors /\ stored'.errors = Head(queue).errors
           /\ Head(queue).wrote # "errors" =>
                live'.errors = live.errors /\ stored'.errors = stored.errors
           /\ Head(queue).wrote = "inventory" =>
                stored'.inv = [stored.inv EXCEPT ![Head(queue).key] = Head(queue).value]
           /\ Head(queue).wrote # "inventory" => stored'.inv = stored.inv
<1>1. Head(queue) = queue[1] /\ 1 \in DOMAIN queue
  BY CommitQueue
<1>2. queue[1].key \in Keys /\ live.inv \in [Keys -> Inventory]
  BY <1>1, PendingFacts DEF TypeOK, Session
<1>3. queue[1].wrote = "inventory" => [live.inv EXCEPT ![queue[1].key] = queue[1].value] = live.inv
  BY <1>1, <1>2 DEF QueueInv
<1> QED
  BY <1>1, <1>3 DEF CommitEvent, Apply

-----------------------------------------------------------------------------
(***************************************************************************)
(* Each part of the inductive invariant is preserved.                      *)
(***************************************************************************)

\* The queue invariant survives a returning call.
LEMMA QueueCall ==
    ASSUME IInv, NEW c \in Collectors, NEW k \in Keys, NEW o \in Outcomes, NEW e \in Event,
           CallStep(c, k, o, e)
    PROVE  QueueInv'
<1> USE DEF IInv
<1>1. Calls(c, k) /\ Returns(c, o, e) /\ e.from = c /\ e.key = k /\ Fits(o, e)
  BY DEF CallStep
<1>2. \A i \in DOMAIN queue : queue[i].from # c /\ queue[i].key # k
  BY <1>1, CallIsAlone
<1>3. stage' = "collecting"
  BY <1>1, CallFacts DEF Returns
<1>4. \A i, j \in DOMAIN queue' : queue'[i].from = queue'[j].from => i = j
  BY <1>1, <1>2, ReturnsQueue DEF QueueInv
<1>5. ASSUME NEW i \in DOMAIN queue'
      PROVE  /\ pc'[queue'[i].from] - 1 \in DOMAIN Tools[queue'[i].from]
             /\ queue'[i].key = Tools[queue'[i].from][pc'[queue'[i].from] - 1]
             /\ queue'[i].wrote = "inventory" => live'.inv[queue'[i].key] = queue'[i].value
             /\ queue'[i].wrote = "errors" => queue'[i].key \in FailedKeys'
  <2>1. CASE i \in DOMAIN queue
    <3>1. queue'[i] = queue[i] /\ queue[i].from \in Collectors /\ queue[i].key \in Keys
      BY <1>1, <2>1, ReturnsQueue, PendingFacts
    <3>2. pc'[queue[i].from] = pc[queue[i].from] /\ queue[i].key # k
      BY <1>1, <2>1, <3>1, <1>2, ReturnsQueue
    <3>3. queue[i].wrote = "errors" => queue[i].key \in FailedKeys'
      BY <2>1, <3>1, <3>2, ReturnsWrites DEF QueueInv, FailedKeys
    <3>4. live'.inv[queue[i].key] = live.inv[queue[i].key]
      BY <3>1, <3>2, ReturnsWrites
    <3> QED
      BY <2>1, <3>1, <3>2, <3>3, <3>4 DEF QueueInv
  <2>2. CASE i \notin DOMAIN queue
    <3>1. queue'[i] = e
      BY <1>1, <2>2, ReturnsQueue
    <3>2. pc'[c] - 1 = pc[c] /\ pc[c] \in DOMAIN Tools[c] /\ k = Tools[c][pc[c]]
      BY <1>1, ReturnsQueue, CallFacts
    <3>3. e.wrote = "errors" => k \in FailedKeys'
      BY <1>1, ReturnsWrites DEF FailedKeys, Fits
    <3>4. e.wrote = "inventory" => live'.inv[k] = e.value
      BY ReturnsWrites
    <3> QED
      BY <1>1, <3>1, <3>2, <3>3, <3>4
  <2> QED
    BY <2>1, <2>2
<1> QED
  BY <1>3, <1>4, <1>5 DEF QueueInv

LEMMA QueueStep == IInv /\ [Next]_vars => QueueInv'
<1> SUFFICES ASSUME IInv, [Next]_vars PROVE QueueInv'
  OBVIOUS
<1> USE DEF IInv
<1>1. ASSUME NEW p \in Projects \cup {NoProject}, Scope(p) PROVE QueueInv'
  BY <1>1 DEF Scope, QueueInv
<1>2. ASSUME NEW c \in Collectors, Collect(c) PROVE QueueInv'
  <2>1. PICK k \in Keys :
          RaiseStep(c, k) \/ \E o \in Outcomes, e \in Event : CallStep(c, k, o, e)
    BY <1>2, CollectSteps
  <2>2. CASE RaiseStep(c, k)
    BY <2>2 DEF RaiseStep, Dies, QueueInv
  <2> QED
    BY <2>1, <2>2, QueueCall
<1>3. CASE CommitEvent
  <2>1. live'.inv = live.inv /\ seen' = seen /\ pc' = pc /\ stage' = "collecting"
    BY <1>3, CommitWrites DEF CommitEvent
  <2> QED
    BY <1>3, <2>1, CommitQueue DEF QueueInv, FailedKeys
<1>4. CASE RunEngine
  BY <1>4 DEF RunEngine, CollectionDone, QueueInv
<1>5. CASE Report
  BY <1>5 DEF Report, QueueInv
<1>6. CASE Abort
  BY <1>6 DEF Abort, Dies, QueueInv
<1>7. CASE UNCHANGED vars
  BY <1>7 DEF vars, QueueInv, FailedKeys
<1> QED
  BY <1>1, <1>2, <1>3, <1>4, <1>5, <1>6, <1>7 DEF Next

LEMMA BookStep == IInv /\ [Next]_vars => BookInv'
<1> SUFFICES ASSUME IInv, [Next]_vars, NEW j \in Keys,
                    \A i \in DOMAIN queue' : queue'[i].wrote = "inventory" => queue'[i].key # j
             PROVE  live'.inv[j] = stored'.inv[j]
  BY DEF BookInv
<1> USE DEF IInv
<1>1. ASSUME NEW p \in Projects \cup {NoProject}, Scope(p) PROVE live'.inv[j] = stored'.inv[j]
  BY <1>1 DEF Scope
<1>2. ASSUME NEW c \in Collectors, Collect(c) PROVE live'.inv[j] = stored'.inv[j]
  <2>1. PICK k \in Keys :
          RaiseStep(c, k) \/ \E o \in Outcomes, e \in Event : CallStep(c, k, o, e)
    BY <1>2, CollectSteps
  <2>2. CASE RaiseStep(c, k)
    BY <2>2 DEF RaiseStep, Dies
  <2>3. ASSUME NEW o \in Outcomes, NEW e \in Event, CallStep(c, k, o, e)
        PROVE  live'.inv[j] = stored'.inv[j]
    <3>1. Calls(c, k) /\ Returns(c, o, e) /\ e.key = k
      BY <2>3 DEF CallStep
    <3>2. /\ \A i \in DOMAIN queue : queue'[i] = queue[i] /\ i \in DOMAIN queue'
          /\ e.wrote = "inventory" => e.key # j
      BY <3>1, ReturnsQueue
    <3>3. live.inv[j] = stored.inv[j]
      BY <3>2 DEF BookInv
    <3>4. live'.inv[j] = live.inv[j] /\ stored' = stored
      BY <2>3, <3>1, <3>2, ReturnsWrites
    <3> QED
      BY <3>3, <3>4
  <2> QED
    BY <2>1, <2>2, <2>3
<1>3. CASE CommitEvent
  <2>1. Head(queue) = queue[1] /\ 1 \in DOMAIN queue
    BY <1>3, CommitQueue
  <2>2. queue[1].key \in Keys /\ stored.inv \in [Keys -> Inventory]
    BY <2>1, PendingFacts DEF TypeOK, Session
  <2>3. CASE queue[1].wrote = "inventory" /\ queue[1].key = j
    BY <1>3, <2>1, <2>2, <2>3, CommitWrites DEF QueueInv
  <2>4. CASE ~ (queue[1].wrote = "inventory" /\ queue[1].key = j)
    <3>1. stored'.inv[j] = stored.inv[j]
      BY <1>3, <2>1, <2>2, <2>4, CommitWrites
    <3>2. ASSUME NEW i \in DOMAIN queue PROVE queue[i].wrote = "inventory" => queue[i].key # j
      BY <1>3, <2>4, CommitQueue
    <3> QED
      BY <1>3, <3>1, <3>2, CommitWrites DEF BookInv
  <2> QED
    BY <2>3, <2>4
<1>4. CASE RunEngine
  BY <1>4 DEF RunEngine, BookInv
<1>5. CASE Report
  BY <1>5 DEF Report, BookInv
<1>6. CASE Abort
  BY <1>6 DEF Abort, Dies
<1>7. CASE UNCHANGED vars
  BY <1>7 DEF vars, BookInv
<1> QED
  BY <1>1, <1>2, <1>3, <1>4, <1>5, <1>6, <1>7 DEF Next

\* The key of a call has not been read in this turn.
LEMMA CallIsPending ==
    ASSUME TypeOK, SeenInv, NEW c \in Collectors, NEW k, Calls(c, k)
    PROVE  seen[k] = "pending" /\ turn > 0 /\ live.inv[k].turn # turn
<1>1. seen[k] = "pending"
  BY CallFacts DEF SeenInv, TypeOK
<1> QED
  BY <1>1, CallFacts DEF SeenInv, ReadOutcomes

LEMMA SeenStep == IInv /\ [Next]_vars => SeenInv'
<1> SUFFICES ASSUME IInv, [Next]_vars PROVE SeenInv'
  OBVIOUS
<1> USE DEF IInv
<1>1. ASSUME NEW p \in Projects \cup {NoProject}, Scope(p) PROVE SeenInv'
  <2>1. turn \in Nat /\ \A k \in Keys : live.inv[k].turn \in Nat /\ stored.inv[k].turn \in Nat
    BY ConfigAssumption DEF TypeOK, Turns, Session, Inventory
  <2>2. turn' = turn + 1 /\ stored' = stored /\ live' = stored
    BY <1>1 DEF Scope
  <2>3. \A k \in Keys : live'.inv[k].turn < turn' /\ stored'.inv[k].turn < turn'
    BY <2>1, <2>2 DEF SeenInv
  <2>4. \A k \in Keys : seen'[k] = "pending"
    BY <1>1 DEF Scope
  <2>5. \A c \in Collectors : \A i \in DOMAIN Tools[c] : Tools[c][i] \in Keys
    BY LayoutAssumption
  <2> QED
    BY <2>1, <2>2, <2>3, <2>4, <2>5 DEF SeenInv, ReadOutcomes
<1>2. ASSUME NEW c \in Collectors, Collect(c) PROVE SeenInv'
  <2>1. PICK k \in Keys :
          RaiseStep(c, k) \/ \E o \in Outcomes, e \in Event : CallStep(c, k, o, e)
    BY <1>2, CollectSteps
  <2>2. CASE RaiseStep(c, k)
    BY <2>2 DEF RaiseStep, Dies, SeenInv
  <2>3. ASSUME NEW o \in Outcomes, NEW e \in Event, CallStep(c, k, o, e) PROVE SeenInv'
    <3>1. Calls(c, k) /\ Returns(c, o, e) /\ e.key = k /\ Fits(o, e)
      BY <2>3 DEF CallStep
    <3>2. turn \in Nat /\ turn > 0 /\ stage = "collecting"
      BY <3>1, CallIsPending, CallFacts, ConfigAssumption DEF TypeOK, Turns
    <3>3. \A j \in Keys : live'.inv[j].turn <= turn' /\ stored'.inv[j].turn <= turn'
      BY <2>3, <3>1, <3>2, ReturnsWrites DEF SeenInv, Fits
    <3>4. ASSUME NEW j \in Keys
          PROVE  live'.inv[j].turn = turn' <=> seen'[j] \in ReadOutcomes
      <4>1. CASE j = k
        BY <2>3, <3>1, <4>1, ReturnsWrites, CallIsPending DEF Fits, ReadOutcomes, RecordedFailures
      <4>2. CASE j # k
        BY <2>3, <3>2, <4>2, ReturnsWrites DEF SeenInv
      <4> QED
        BY <4>1, <4>2
    <3>5. ASSUME NEW d \in Collectors, NEW i \in DOMAIN Tools[d], i >= pc'[d]
          PROVE  seen'[Tools[d][i]] = "pending"
      <4>1. i \in Nat /\ pc[d] \in Nat /\ Tools[d][i] \in Keys
        BY LayoutAssumption DEF TypeOK
      <4>2. i >= pc[d] /\ (d = c => i # pc[c])
        BY <3>1, <3>5, <4>1, ReturnsQueue
      <4>3. Tools[d][i] # k
        BY <3>1, <4>2, CallFacts, LayoutAssumption
      <4> QED
        BY <2>3, <3>2, <4>1, <4>2, <4>3, ReturnsWrites DEF SeenInv
    <3> QED
      BY <2>3, <3>2, <3>3, <3>4, <3>5, ReturnsWrites DEF SeenInv
  <2> QED
    BY <2>1, <2>2, <2>3
<1>3. CASE CommitEvent
  <2>1. live'.inv = live.inv /\ seen' = seen /\ pc' = pc /\ stage' = stage /\ turn' = turn
    BY <1>3, CommitWrites DEF CommitEvent
  <2>2. Head(queue) = queue[1] /\ 1 \in DOMAIN queue
    BY <1>3, CommitQueue
  <2>3. queue[1].key \in Keys /\ stored.inv \in [Keys -> Inventory]
    BY <2>2, PendingFacts DEF TypeOK, Session
  <2>4. \A k \in Keys : stored'.inv[k].turn <= turn
    <3>1. CASE queue[1].wrote = "inventory"
      <4>1. queue[1].value = live.inv[queue[1].key]
        BY <2>2, <3>1 DEF QueueInv
      <4> QED
        BY <1>3, <2>2, <2>3, <3>1, <4>1, CommitWrites DEF SeenInv
    <3>2. CASE queue[1].wrote # "inventory"
      BY <1>3, <2>2, <3>2, CommitWrites DEF SeenInv
    <3> QED
      BY <3>1, <3>2
  <2> QED
    BY <2>1, <2>4 DEF SeenInv
<1>4. CASE RunEngine
  BY <1>4 DEF RunEngine, CollectionDone, SeenInv
<1>5. CASE Report
  BY <1>5 DEF Report, SeenInv
<1>6. CASE Abort
  BY <1>6 DEF Abort, Dies, SeenInv
<1>7. CASE UNCHANGED vars
  BY <1>7 DEF vars, SeenInv
<1> QED
  BY <1>1, <1>2, <1>3, <1>4, <1>5, <1>6, <1>7 DEF Next

\* What the calls of a step do to the set of failed keys.
LEMMA FailedGrows ==
    ASSUME IInv, NEW c \in Collectors, NEW k \in Keys, NEW o \in Outcomes, NEW e \in Event,
           CallStep(c, k, o, e)
    PROVE  /\ k \notin FailedKeys
           /\ FailedKeys' = IF o \in RecordedFailures THEN FailedKeys \cup {k} ELSE FailedKeys
<1>1. seen[k] = "pending"
  BY CallIsPending DEF CallStep, IInv
<1> QED
  BY <1>1, ReturnsWrites DEF FailedKeys, RecordedFailures, IInv

LEMMA ErrorStep == IInv /\ [Next]_vars => ErrorInv'
<1> SUFFICES ASSUME IInv, [Next]_vars PROVE ErrorInv'
  OBVIOUS
<1> USE DEF IInv
<1>0. turn \in Nat /\ \A k \in Keys : live.errors[k] \in Nat /\ stored.errors[k] \in Nat
  BY ConfigAssumption DEF TypeOK, Turns, Session, Errors
<1>1. ASSUME NEW p \in Projects \cup {NoProject}, Scope(p) PROVE ErrorInv'
  <2>1. turn' = turn + 1 /\ stored' = stored /\ live' = stored /\ queue' = <<>>
    BY <1>1 DEF Scope, QueueInv
  <2>2. Plausible(stored.errors)'
    BY <1>0, <2>1 DEF Plausible, ErrorInv
  <2> QED
    BY <2>1, <2>2 DEF Plausible, ErrorInv
<1>2. ASSUME NEW c \in Collectors, Collect(c) PROVE ErrorInv'
  <2>1. PICK k \in Keys :
          RaiseStep(c, k) \/ \E o \in Outcomes, e \in Event : CallStep(c, k, o, e)
    BY <1>2, CollectSteps
  <2>2. CASE RaiseStep(c, k)
    <3>1. seen[k] = "pending"
      BY <2>2, CallIsPending DEF RaiseStep
    <3>2. \A j \in Keys : seen[j] \in RecordedFailures => seen'[j] \in RecordedFailures
      BY <2>2, <3>1 DEF RaiseStep, RecordedFailures, TypeOK
    <3>3. Plausible(stored.errors)'
      BY <2>2, <3>2 DEF RaiseStep, Dies, Plausible, ErrorInv
    <3> QED
      BY <2>2, <3>3 DEF RaiseStep, Dies, Plausible, ErrorInv
  <2>3. ASSUME NEW o \in Outcomes, NEW e \in Event, CallStep(c, k, o, e) PROVE ErrorInv'
    <3>1. Calls(c, k) /\ Returns(c, o, e) /\ e.key = k /\ Fits(o, e)
      BY <2>3 DEF CallStep
    <3>2. \A j \in Keys : seen[j] \in RecordedFailures => seen'[j] \in RecordedFailures
      BY <2>3, FailedGrows, ReturnsWrites DEF FailedKeys
    <3>3. \A E : Plausible(E) => \A j \in Keys :
            E[j] <= turn' /\ (E[j] = turn' /\ turn' > 0 => seen'[j] \in RecordedFailures)
      BY <2>3, <3>2, ReturnsWrites DEF Plausible
    <3>4. e.wrote = "errors" => \A j \in Keys :
            /\ e.errors[j] <= turn'
            /\ e.errors[j] = turn' /\ turn' > 0 => seen'[j] \in RecordedFailures
      <4>1. SUFFICES ASSUME e.wrote = "errors", NEW j \in Keys
                     PROVE  /\ e.errors[j] <= turn
                            /\ e.errors[j] = turn /\ turn > 0 => seen'[j] \in RecordedFailures
        BY <2>3, ReturnsWrites
      <4>2. o \in RecordedFailures /\ e.errors[j] = IF j = k THEN turn ELSE live.errors[j]
        BY <3>1, <4>1 DEF Fits, TypeOK, Session, Errors
      <4>3. CASE j = k
        BY <1>0, <2>3, <4>2, <4>3, ReturnsWrites
      <4>4. CASE j # k
        BY <3>2, <4>2, <4>4 DEF ErrorInv, Plausible
      <4> QED
        BY <4>3, <4>4
    <3>5. Plausible(live.errors)'
      BY <2>3, <3>3, <3>4, ReturnsWrites DEF Plausible, ErrorInv
    <3>6. Plausible(stored.errors)'
      BY <2>3, <3>3, ReturnsWrites DEF Plausible, ErrorInv
    <3>7. ASSUME NEW i \in DOMAIN queue', queue'[i].wrote = "errors"
          PROVE  \A j \in Keys :
                   /\ queue'[i].errors[j] <= turn'
                   /\ queue'[i].errors[j] = turn' /\ turn' > 0 => seen'[j] \in RecordedFailures
      <4>1. CASE i \in DOMAIN queue
        BY <3>1, <3>3, <3>7, <4>1, ReturnsQueue DEF ErrorInv
      <4>2. CASE i \notin DOMAIN queue
        BY <3>1, <3>4, <3>7, <4>2, ReturnsQueue
      <4> QED
        BY <4>1, <4>2
    <3> QED
      BY <3>5, <3>6, <3>7 DEF Plausible, ErrorInv
  <2> QED
    BY <2>1, <2>2, <2>3
<1>3. CASE CommitEvent
  <2>1. seen' = seen /\ turn' = turn
    BY <1>3 DEF CommitEvent
  <2>2. Head(queue) = queue[1] /\ 1 \in DOMAIN queue
    BY <1>3, CommitQueue
  <2>3. Plausible(live.errors)' /\ Plausible(stored.errors)'
    BY <1>3, <2>1, <2>2, CommitWrites DEF ErrorInv, Plausible
  <2>4. \A i \in DOMAIN queue' : queue'[i].wrote = "errors" => Plausible(queue'[i].errors)
    BY <1>3, CommitQueue DEF ErrorInv
  <2> QED
    BY <2>1, <2>3, <2>4 DEF ErrorInv, Plausible
<1>4. CASE RunEngine
  BY <1>4 DEF RunEngine, ErrorInv, Plausible
<1>5. CASE Report
  BY <1>5 DEF Report, ErrorInv, Plausible
<1>6. CASE Abort
  BY <1>6 DEF Abort, Dies, ErrorInv, Plausible
<1>7. CASE UNCHANGED vars
  BY <1>7 DEF vars, ErrorInv, Plausible
<1> QED
  BY <1>1, <1>2, <1>3, <1>4, <1>5, <1>6, <1>7 DEF Next

\* The keys of a collector's tools are those of its calls, and of no other's.
LEMMA KeyOwner ==
    ASSUME NEW c \in Collectors, NEW d \in Collectors, NEW i \in DOMAIN Tools[c],
           Tools[c][i] \in KeysOf(d)
    PROVE  c = d
BY LayoutAssumption DEF KeysOf

\* SurvivalInv survives a returning call.
LEMMA SurvivalCall ==
    ASSUME IInv, NEW c \in Collectors, NEW k \in Keys, NEW o \in Outcomes, NEW e \in Event,
           CallStep(c, k, o, e)
    PROVE  SurvivalInv'
<1> USE DEF IInv
<1>1. /\ Calls(c, k) /\ Returns(c, o, e) /\ e.key = k /\ Fits(o, e)
      /\ stage = "collecting" /\ ~ HasEvent(c)
      /\ pc[c] \in DOMAIN Tools[c] /\ k = Tools[c][pc[c]]
  BY CallFacts DEF CallStep
<1>2. stage' = stage /\ turn' = turn
  BY ReturnsWrites
<1>3. \A i \in DOMAIN queue' : (i \in DOMAIN queue /\ queue'[i] = queue[i]) \/ queue'[i] = e
  BY <1>1, ReturnsQueue
<1>4. CASE o \in RecordedFailures
  <2>1. /\ FailedKeys' = FailedKeys \cup {k} /\ e.wrote = "errors"
        /\ live'.errors = e.errors
        /\ \A j \in Keys : e.errors[j] = IF j = k THEN turn ELSE live.errors[j]
    BY <1>1, <1>4, FailedGrows, ReturnsWrites
       DEF Fits, RecordedFailures, ReadOutcomes, TypeOK, Session, Errors
  <2>2. \E j \in FailedKeys' : live'.errors[j] = turn'
    BY <1>2, <2>1
  <2>3. \A i \in DOMAIN queue' :
          queue'[i].wrote = "errors" => queue'[i].errors[queue'[i].key] = turn'
    BY <1>1, <1>2, <1>3, <2>1 DEF SurvivalInv
  <2>4. ASSUME NEW d \in Collectors, FailedKeys' \subseteq KeysOf(d)
        PROVE  /\ \A j \in FailedKeys' : live'.errors[j] = turn'
               /\ \A i \in DOMAIN queue' : queue'[i].wrote = "errors" =>
                    \A j \in FailedKeys' : queue'[i].errors[j] = turn'
    <3>1. d = c /\ FailedKeys \subseteq KeysOf(c)
      BY <1>1, <2>1, <2>4, KeyOwner
    <3>2. \A j \in FailedKeys' : e.errors[j] = turn
      BY <1>1, <2>1, <3>1 DEF SurvivalInv, FailedKeys
    <3>3. ASSUME NEW i \in DOMAIN queue PROVE queue[i].wrote # "errors"
      <4>1. queue[i].from # c /\ queue[i].from \in Collectors
        BY <1>1, PendingFacts DEF HasEvent
      <4>2. queue[i].wrote = "errors" => queue[i].from = c
        BY <3>1, <4>1, KeyOwner DEF QueueInv
      <4> QED
        BY <4>1, <4>2
    <3> QED
      BY <1>2, <1>3, <2>1, <3>2, <3>3
  <2> QED
    BY <2>2, <2>3, <2>4 DEF SurvivalInv
<1>5. CASE o \notin RecordedFailures
  <2>1. FailedKeys' = FailedKeys /\ e.wrote # "errors" /\ live'.errors = live.errors
    BY <1>1, <1>5, FailedGrows, ReturnsWrites DEF Fits
  <2> QED
    BY <1>2, <1>3, <2>1 DEF SurvivalInv, KeysOf
<1> QED
  BY <1>4, <1>5

LEMMA SurvivalStep == IInv /\ [Next]_vars => SurvivalInv'
<1> SUFFICES ASSUME IInv, [Next]_vars PROVE SurvivalInv'
  OBVIOUS
<1> USE DEF IInv
<1>1. ASSUME NEW p \in Projects \cup {NoProject}, Scope(p) PROVE SurvivalInv'
  <2>1. FailedKeys' = {} /\ queue' = <<>>
    BY <1>1 DEF Scope, FailedKeys, RecordedFailures, QueueInv
  <2> QED
    BY <2>1 DEF SurvivalInv
<1>2. ASSUME NEW c \in Collectors, Collect(c) PROVE SurvivalInv'
  <2>1. PICK k \in Keys :
          RaiseStep(c, k) \/ \E o \in Outcomes, e \in Event : CallStep(c, k, o, e)
    BY <1>2, CollectSteps
  <2>2. CASE RaiseStep(c, k)
    BY <2>2 DEF RaiseStep, Dies, SurvivalInv
  <2> QED
    BY <2>1, <2>2, SurvivalCall
<1>3. CASE CommitEvent
  <2>1. FailedKeys' = FailedKeys /\ turn' = turn /\ stage' = stage /\ stage = "collecting"
    BY <1>3 DEF CommitEvent, FailedKeys
  <2>2. Head(queue) = queue[1] /\ 1 \in DOMAIN queue
    BY <1>3, CommitQueue
  <2>3. \A i \in DOMAIN queue' : \E j \in DOMAIN queue : queue'[i] = queue[j]
    BY <1>3, CommitQueue
  <2>4. CASE queue[1].wrote = "errors"
    <3>1. live'.errors = queue[1].errors /\ queue[1].key \in FailedKeys
      BY <1>3, <2>2, <2>4, CommitWrites DEF QueueInv
    <3>2. queue[1].errors[queue[1].key] = turn
      BY <2>2, <2>4 DEF SurvivalInv
    <3>3. \A d \in Collectors : FailedKeys \subseteq KeysOf(d) =>
            \A j \in FailedKeys : live'.errors[j] = turn
      BY <2>2, <2>4, <3>1 DEF SurvivalInv
    <3> QED
      BY <2>1, <2>3, <3>1, <3>2, <3>3 DEF SurvivalInv, KeysOf
  <2>5. CASE queue[1].wrote # "errors"
    <3>1. live'.errors = live.errors
      BY <1>3, <2>2, <2>5, CommitWrites
    <3> QED
      BY <2>1, <2>3, <3>1 DEF SurvivalInv, KeysOf
  <2> QED
    BY <2>4, <2>5
<1>4. CASE RunEngine
  BY <1>4 DEF RunEngine, CollectionDone, SurvivalInv, FailedKeys, KeysOf
<1>5. CASE Report
  BY <1>5 DEF Report, SurvivalInv, FailedKeys, KeysOf, QueueInv
<1>6. CASE Abort
  BY <1>6 DEF Abort, Dies, SurvivalInv
<1>7. CASE UNCHANGED vars
  BY <1>7 DEF vars, SurvivalInv, FailedKeys, KeysOf
<1> QED
  BY <1>1, <1>2, <1>3, <1>4, <1>5, <1>6, <1>7 DEF Next

LEMMA SummaryStep == IInv /\ [Next]_vars => SummaryInv'
<1> SUFFICES ASSUME IInv, [Next]_vars PROVE SummaryInv'
  OBVIOUS
<1> USE DEF IInv
<1>1. ASSUME NEW p \in Projects \cup {NoProject}, Scope(p) PROVE SummaryInv'
  BY <1>1 DEF Scope, SummaryInv
<1>2. ASSUME NEW c \in Collectors, Collect(c) PROVE SummaryInv'
  <2>1. PICK k \in Keys :
          RaiseStep(c, k) \/ \E o \in Outcomes, e \in Event : CallStep(c, k, o, e)
    BY <1>2, CollectSteps
  <2>2. CASE RaiseStep(c, k)
    BY <2>2 DEF RaiseStep, Dies, SummaryInv
  <2>3. ASSUME NEW o \in Outcomes, NEW e \in Event, CallStep(c, k, o, e) PROVE SummaryInv'
    BY <2>3, CallFacts, ReturnsWrites DEF CallStep, SummaryInv
  <2> QED
    BY <2>1, <2>2, <2>3
<1>3. CASE CommitEvent
  BY <1>3 DEF CommitEvent, SummaryInv
<1>4. CASE RunEngine
  <2>1. /\ summary'.basis = live.inv /\ live' = live
        /\ summary'.errors = IF Collected(live.inv) = {} THEN NoErrors ELSE live.errors
    BY <1>4 DEF RunEngine
  <2> QED
    BY <2>1 DEF SummaryInv, Collected
<1>5. CASE Report
  BY <1>5 DEF Report, SummaryInv
<1>6. CASE Abort
  BY <1>6 DEF Abort, Dies, SummaryInv
<1>7. CASE UNCHANGED vars
  BY <1>7 DEF vars, SummaryInv, Collected
<1> QED
  BY <1>1, <1>2, <1>3, <1>4, <1>5, <1>6, <1>7 DEF Next

-----------------------------------------------------------------------------
(***************************************************************************)
(* The invariant holds, and what follows from it.                          *)
(***************************************************************************)
LEMMA InvInit == Init => IInv
<1> SUFFICES ASSUME Init PROVE IInv
  OBVIOUS
<1>1. TypeOK
  BY TypeInit
<1>2. QueueInv /\ BookInv /\ SummaryInv
  BY DEF Init, QueueInv, BookInv, SummaryInv
<1>3. SeenInv
  BY DEF Init, SeenInv, EmptySession, NoInventory
<1>4. ErrorInv
  BY DEF Init, ErrorInv, Plausible, EmptySession, NoErrors
<1>5. SurvivalInv
  BY DEF Init, SurvivalInv
<1> QED
  BY <1>1, <1>2, <1>3, <1>4, <1>5 DEF IInv

\* The inductive invariant holds in every reachable state.
THEOREM Invariance == Spec => []IInv
<1>1. IInv /\ [Next]_vars => IInv'
  BY TypeStep, QueueStep, BookStep, SeenStep, ErrorStep, SurvivalStep, SummaryStep DEF IInv
<1> QED
  BY InvInit, <1>1, PTL DEF Spec

\* What the engine analyses of this turn is exactly what this turn's calls
\* read, for every layout of collectors and every interleaving.
THEOREM ReadsReach == Spec => []ReadsReachEngine
<1>1. IInv => ReadsReachEngine
  BY DEF IInv, SeenInv, SummaryInv, ReadsReachEngine
<1> QED
  BY Invariance, <1>1, PTL

\* No tool's message ever appears under a key whose own call did not fail.
THEOREM ErrorsReal == Spec => []ErrorsAreReal
<1>1. IInv => ErrorsAreReal
  BY DEF IInv, ErrorInv, Plausible, ErrorsAreReal
<1> QED
  BY Invariance, <1>1, PTL

\* Overwriting errors never hides that something of this turn failed.
THEOREM SomeDisclosed == Spec => []SomeFailureDisclosed
<1>1. IInv => SomeFailureDisclosed
  BY DEF IInv, SurvivalInv, SummaryInv, SomeFailureDisclosed
<1> QED
  BY Invariance, <1>1, PTL

\* A collector loses none of its own errors to itself.
THEOREM LoneDisclosed == Spec => []LoneCollectorDisclosed
<1>1. IInv => LoneCollectorDisclosed
  BY DEF IInv, SurvivalInv, SummaryInv, LoneCollectorDisclosed
<1> QED
  BY Invariance, <1>1, PTL

-----------------------------------------------------------------------------
(***************************************************************************)
(* The refinement: a call that reads is an observation, the commit of an   *)
(* inventory makes it durable, every other call and commit stutters.       *)
(***************************************************************************)
LEMMA LedgerStep == IInv /\ [Next]_vars => [Ledger!Next]_Ledger!vars
<1> SUFFICES ASSUME IInv, [Next]_vars PROVE [Ledger!Next]_Ledger!vars
  OBVIOUS
<1> USE DEF IInv
<1>1. ASSUME NEW p \in Projects \cup {NoProject}, Scope(p) PROVE Ledger!Begin
  BY <1>1 DEF Scope, Ledger!Begin
<1>2. ASSUME NEW c \in Collectors, Collect(c) PROVE [Ledger!Next]_Ledger!vars
  <2>1. PICK k \in Keys :
          RaiseStep(c, k) \/ \E o \in Outcomes, e \in Event : CallStep(c, k, o, e)
    BY <1>2, CollectSteps
  <2>2. CASE RaiseStep(c, k)
    <3>1. Ledger!Lose
      BY <2>2, CallFacts DEF RaiseStep, Dies, Ledger!Lose
    <3> QED
      BY <3>1 DEF Ledger!Next
  <2>3. ASSUME NEW o \in Outcomes, NEW e \in Event, CallStep(c, k, o, e)
        PROVE  [Ledger!Next]_Ledger!vars
    <3>1. stage = "collecting" /\ e.value \in Inventory
      BY <2>3, CallFacts DEF CallStep, Event
    <3>2. live.inv \in [Keys -> Inventory] /\ live'.inv \in [Keys -> Inventory]
      BY TypeStep DEF TypeOK, Session
    <3>3. CASE e.wrote = "inventory"
      <4>1. live'.inv = [live.inv EXCEPT ![k] = e.value]
        BY <2>3, <3>2, <3>3, ReturnsWrites
      <4>2. Ledger!Observe(k)
        BY <2>3, <3>1, <4>1, ReturnsWrites DEF Ledger!Observe
      <4> QED
        BY <4>2 DEF Ledger!Next
    <3>4. CASE e.wrote # "inventory"
      <4>1. live'.inv = live.inv
        BY <2>3, <3>2, <3>4, ReturnsWrites
      <4> QED
        BY <2>3, <4>1, ReturnsWrites DEF Ledger!vars
    <3> QED
      BY <3>3, <3>4
  <2> QED
    BY <2>1, <2>2, <2>3
<1>3. CASE CommitEvent
  <2>1. Head(queue) = queue[1] /\ 1 \in DOMAIN queue
    BY <1>3, CommitQueue
  <2>2. queue[1].key \in Keys
    BY <2>1, PendingFacts
  <2>3. live'.inv = live.inv /\ stage = "collecting" /\ stage' = stage /\ summary' = summary
    BY <1>3, CommitWrites DEF CommitEvent
  <2>4. CASE queue[1].wrote = "inventory"
    <3>1. stored'.inv = [stored.inv EXCEPT ![queue[1].key] = live.inv[queue[1].key]]
      BY <1>3, <2>1, <2>4, CommitWrites DEF QueueInv
    <3>2. Ledger!Persist(queue[1].key)
      BY <2>3, <3>1 DEF Ledger!Persist
    <3> QED
      BY <2>2, <3>2 DEF Ledger!Next
  <2>5. CASE queue[1].wrote # "inventory"
    BY <1>3, <2>1, <2>3, <2>5, CommitWrites DEF Ledger!vars
  <2> QED
    BY <2>4, <2>5
<1>4. CASE RunEngine
  <2>1. live.inv \in [Keys -> Inventory] /\ stored.inv \in [Keys -> Inventory]
    BY DEF TypeOK, Session
  <2>2. \A k \in Keys : live.inv[k] = stored.inv[k]
    BY <1>4 DEF RunEngine, CollectionDone, BookInv
  <2>3. Ledger!Analyse
    BY <1>4, <2>1, <2>2 DEF RunEngine, CollectionDone, Ledger!Analyse
  <2> QED
    BY <2>3 DEF Ledger!Next
<1>5. CASE Report
  BY <1>5 DEF Report, Ledger!Next, Ledger!Publish
<1>6. CASE Abort
  BY <1>6 DEF Abort, Dies, Ledger!Next, Ledger!Lose
<1>7. CASE UNCHANGED vars
  BY <1>7 DEF vars, Ledger!vars
<1> QED
  BY <1>1, <1>2, <1>3, <1>4, <1>5, <1>6, <1>7 DEF Next, Ledger!Next

\* The collection phase implements the ledger of reads.
THEOREM Refinement == Spec => ImplementsLedger
<1>1. Init => Ledger!Init
  BY DEF Init, EmptySession, Ledger!Init
<1> QED
  BY Invariance, <1>1, LedgerStep, PTL DEF Spec, ImplementsLedger, Ledger!Spec

=============================================================================
