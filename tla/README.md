# Verification of pi-durable-subagents

TLA+ models of the coordination core of pi-durable-subagents, the TLC
configurations that check them on small instances, and TLAPS proofs. Line
numbers refer to the sources the models were translated from (paths under
`src/src/` unless they begin with `docs/`); `PROJECT.json` maps each definition
to its lines, and lists the hazards of the code with the properties that cover
them.

## The system

A Workflow is a tree of Agents under one Owner. Every child Agent is a native Pi
session in a process of its own, reached over a control channel; the Owner's
session lives in the host. Agents coordinate by durable Messages: a Message, a
Request and its Answer, a Cancellation. What is true of a Message is decided by
the transcripts (append-only logs), never by memory: a Delivery is done when the
recipient's transcript holds it.

The hard part is not any single handler. Operations of other Agents, events of
the native session, timers, the human and completions of promises meet at one
Agent, whose state is spread over a scheduler, a supervisor, a child process and
a transcript.

| Component | State it keeps | Operations | Talks to |
|---|---|---|---|
| Agent lane (`serial-lane.ts`) | occupied flag, waiters, the installed release closure | `run`, `releaseCurrent`, `idle` | every per-Agent operation runs in it |
| Message delivery scheduler (`message-delivery-scheduler.ts`) | per Agent: queue, prompt reservation, Wait preemption, frozen Steer batch, reserved and active Resume, progress | admit, retry, drain, freeze at a safe boundary, start a Resume, reconcile a settlement or rejection, discard | supervisor, lane, Messages, Waits |
| Deferred boots (in the scheduler) | boots over the bound, in order; boots in flight | defer, start on a change of activity, withdraw | all Agents' lanes |
| Runtime supervisor (`agent-runtime-supervisor.ts`) | current Run and its handle, Hold, suspension, isolated resumption, failure, retention reasons, fences | start, prepare passively, deliver, safe boundary, interrupt, abort, resume, release, shut down | scheduler, hosted Runtime |
| Hosted Runtime and its child side (`pi-child-hosted-runtime.ts`, `child-control-connection.ts`, `native-session-driver.ts`, `child-turn-compaction-gateway.ts`, `session-startup.ts`) | pending completions, native Run identity, snapshot; in the child the admission gate and the lane of queue intentions | dispatch, cancel, interrupt, report Runs, reload | supervisor, control channel |
| Control (`agent-control-channel.ts`, `agent-control-admission.ts`, the transports) | pending requests, event order; tokens and sockets that wait | connect, request, cancel, event, close | child process |
| Child process (`pi-child-process-runtime.ts`, `pty-terminal-projection.ts`) | launch stage, process group, artifacts; the screen's consumers; keys held back | launch, shut down, force, show, hide, type | supervisor, terminal |
| Physical terminal, selection (`physical-terminal-attachment.ts`, `interactive-selection.ts`) | what is shown, operations in order; the view and its reason of retention | attach, suspend; open, switch, close | child process, supervisor |
| Agent Wait, arbitration (`agent-waits.ts`, `answer-arbitration.ts`) | the Waits of a Run, their promises and candidates | wait, preempt, renew, resume, guard a result | scheduler, transcripts |
| Messages, Requests, evidence (`messages.ts`, `request-relationships.ts`, `request-evidence.ts`) | bridges of admitted authorship, the cache of relationships | send, request, answer, cancel, retry, inspect | scheduler, transcripts |
| Progress and incidents (`progress-verdict.ts`, `operational-incidents.ts`, `operation-review.ts`) | verdicts, incidents, Moderators, reminders, reviews | observe, remind, moderate, replace, resolve | all the above |
| Human requests (`human-requests.ts`) | questions and their candidates | ask, submit, escape, fence, reconcile | child, review |
| Owner parking (`owner-settlement-parker.ts`) | the parked prompt, queued input | park, enqueue, check, release | scheduler |
| Spawning, recovery, resumption (`spawning.ts`, `cold-host-discovery.ts`, `workflow-resume.ts`) | receipts; the roster that is rebuilt | spawn, discover, resume | transcripts |
| Models and policy (`workflow-policy.ts`, `process-child-session-factory.ts`, `virtual-model-registration.ts`) | the published exclusions, definitions, preparations, what a session records | edit, prepare, launch, select, route | spawning, sessions |
| Bootstrap (`owner-admission.ts`, `owner-bootstrap.ts`) | the attachment, the registry of Workflows | start, capture, admit, reload, replace | Pi, coordinator |
| Transcripts (`session-manager-transcript.ts`, `retained-transcript.ts`) | cursor, records, index | refresh, read | everybody |

What makes this hard: one Delivery is scheduled in one of five places and moved
between them by retries, Cancellations, Waits, boundaries, settlements and a
dying child; closures in the lane await a Runtime that may be waiting for the
lane; state captured before an await (the reservations of a settlement, the Run of
a rejection, the projection of a view) is used after it; an Answer has two ways to
its requester; the Owner follows a child that is always a report ahead of it;
transcripts grow, tear and are replaced while they are read.

## Modules

One module models one component, composites (`MC...`) put several of them on small instances, and
`X_proofs` holds the theorems about the parts of `X`.

| Module | Models |
|---|---|
| `SerialLane` | the lane, every operation of it |
| `MessageDelivery` | Delivery to one recipient: scheduler, the live Run, the Runtime's side of a dispatch |
| `DeferredBoots` | the soft concurrency bound over several children |
| `RuntimeSupervisor` | start, passive preparation, abort, release, fence and shutdown of an Agent's Runtimes |
| `TurnAdmission` | how inputs come to native Runs in the child, and the Owner's interruption |
| `HostedRuntime` | native Runs, snapshots, reload, quit and loss as the Owner follows them |
| `ControlAdmission`, `ControlChannel` | a connection until it is the Agent's; both ends of the channel |
| `ChildLaunch` | a child's process from its launch to the release of all it acquired |
| `ChildScreen`, `NativeInput` | the child's screen by revisions; what is typed into it and counted on both sides |
| `TerminalAttachment`, `InteractiveSelection` | the switch of the physical terminal; the single view and the Runtime it retains |
| `HumanRequests` | `ask_user` from the call to the committed result, with the review of the call |
| `AgentWait` | `agent_wait` and Answer arbitration; implements `AnswerOnce` |
| `AnswerOnce` | abstract: one requester-side proof of every Answer, only of canonical ones |
| `RequestRelationships`, `RequestEvidence` | the incremental cache of who awaits whom; what two transcripts prove of one Request |
| `TranscriptReader` | the shared cursor over a file another process writes |
| `ProgressVerdict` | the searches under the stall detectors, against reference definitions |
| `OperationalIncidents` | detection, Moderators and their replacement, reminders, Resolution, notices |
| `OwnerParking` | the Owner's settled prompt that waits for progress |
| `SpawnRecovery`, `WorkflowResume` | children across a restart; what a resumed Workflow continues, in which order |
| `ModelSelection` | the model a Runtime is launched with: the policy file and its editors, preparations along a lineage, what sessions record, the routes of a child |
| `OwnerAdmission` | attachments of the Owner's process: capture, admission, reload, replacement, the registry of Workflows, rollback |

How state and actions correspond to the code, where it is not one to one:

* A step is the code between two awaits, or one event handler, with every call it
  makes that changes state. Synchronous methods that call each other are
  operators from states to states, composed as the code composes them
  (`Swept`, `Drained`, `Preempted`, ... in `MessageDelivery`; `Left`, `Switch` in
  `InteractiveSelection`).
* An operation in a lane is a member of a queue; the head runs to its end or to an
  await (`busy`, `job`, `exec` name what is awaited). `SerialLane` is the lane
  itself, with early release; the others use its guarantee, one operation at a
  time in the order of arrival, which is proved.
* Objects compared by identity (reservations, closures, projections, handles of
  Runs) are numbers that are given out once.
* Maps whose insertion order matters are sequences or carry an ordinal.
* A transcript is the set, the count or the sequence of the facts it holds; the
  inspectors read it as the code does. A Delivery's text, an Answer's payload
  and the wording of Reports are left out.
* A frame is an element of a sequence, a chunk a sequence of items, a record two
  cells, a screen a revision and whether the parser missed output.
* Timers may fire whenever they are armed.
* Where the code walks a set in an order that does not matter for the result,
  any order is allowed (`ProgressVerdict`).

Left out of `MessageDelivery`: Moderator reminders, the foreground block of a
Creation Request, human resume, pruning of blocked Deliveries, latency between
the child's transcript and its events (`TurnAdmission` and `HostedRuntime` have
it), and what has a module of its own above.

## Runs

The components interact through guarantees that the modules state (the lane,
ordered frames, proof by transcript), so most runs check several modules on small
instances *side by side*: the variable `part` is chosen at first, that part moves,
the others stay as they began. The state spaces add up instead of multiplying,
and a property of one part is checked on all of its behaviours. A composite EXTENDS
the modules whose theorems its run illustrates and instantiates the others.

`CHECK_DEADLOCK FALSE` everywhere, because the bounded environment stops: when no
operation is left to arrive, an idle system is a legitimate end.

| Run | Parts and bounds | Checks |
|---|---|---|
| `lanes` | lane: 4 operations, one of which releases early and awaits another; turns: a custom Delivery, the human's input, its forwarded copy, a reminder | `OneOccupant`, `ProofIsTruthful`; `EveryOperationSettles`, `DispatchIsAnswered` |
| `delivery_faults` | a Steer Message, a Deferred Request, a Resume, a queue of one, 2 control operations, 1 fault | `ScheduledWorkRetainsItsRun`, `DeliveryIsAccounted` |
| `delivery_answers` | delivery: an Answer, a Steer Request and its Cancellation, a Background Message, 3 arrivals, 2 batches; models: an Owner, a child and a grandchild, 2 models and a Virtual Model, 2 changes; owner: 2 sessions, 3 attachments | `ExactlyOneProof`, `BansAreFollowed`, `SelectionIsRecorded`, `OneLiveWorkflow`; `WithdrawnIsNotDispatched` |
| `delivery_liveness` | two Messages, one control operation, one fault | `QueuedIsServed`, `LaneIsReturned` |
| `terminal` | supervisor: 3 Runtimes, 3 operations, 1 fault, 1 turn; launch; attachment: 2 children, 6 events, 3 operations unsettled; human: 2 Runs, 2 questions | `NothingOutlivesItsEnd`, `TerminalIsFaithful`, `OpenQuestionIsAnswerable`; `DeferredReleaseIsAsked`, `EveryChildEnds`, `OperationsSettle`, `EveryQuestionSettles` |
| `control` | admission: 2 connections, 2 tokens and a strange one; channel: 2 requests, an event and an incident a side; Runtime: 2 Runs, 2 events; input: 3 keys, 2 views; screen: 3 views; selection: 2 Agents, 2 Runtimes each, 3 openings | `AdmissionIsSound`, `ChannelIsSound`, `OwnerKeepsUp`, `IdleIsTrue`, `HeldScreenIsCurrent`, `NoSelectionLingers` |
| `requests` | wait: 2 Requests, 2 calls, 2 Runs, 2 events; relationships: a Creation Request, 4 facts, a reset, 2 reads; evidence: 2 Answers, a Cancellation, one retry, failure and crash; transcript: 2 refreshes, chunks of one cell, 4 writes; verdict: 3 Agents in 5 states; recovery: 3 children, 2 native ids, 2 calls each, 2 faults; resume: 2 Agents, 2 Runs, 2 resumptions, Requests authored meanwhile | `WaitIsSound`, `CacheIsFaithful`, `EvidenceIsSound`, `SearchesAreExact`, `NoStallIsOverlooked`, `RecoveryIsExact`; `AnsweredOnce`, `RefreshIsCurrent`, `ContinuationKnowsItsRequests` |
| `workflow` | boots: 3 Agents, a bound of 1, 3 events; incidents: 3 conditions, 3 Moderators, 3 events; parking: 2 children, a recovery, 4 events | `SlotsAreHandedOutOnce`; `DeferredIsServed`, `IncidentIsAttended`, `RecoveryIsNoticed`, `ParkedOwnerIsReleased` |
| `supervisor_vanishes`, `evidence_answers`, `hosted_follows`, `human_review` | the smallest instance that shows the finding | one property each, violated: see Findings |

Why the bounds are enough to mean something:

* Lane: four operations are the least in which a closure can be put back twice over a
  running holder.
* Delivery: three batches (`MaxBatch`) are one per prompt slot, or a dispatch, its loss
  and its successor, the longest chain a stale reservation can be confused over; without
  faults (`delivery_answers`) two are enough, a batch and the one after it.
  Arrivals let each Message be admitted and one retried. A fault and a
  Cancellation are not combined in one run: the state space is beyond five minutes.
* Supervisor: with three operations, one is in the lane, one has released it early and one
  waits; the third Runtime follows one that failed and one that was aborted.
* Attachment: a third unsettled operation shows a child again while its cancelled
  preparation still runs.
* Boots: with one slot and three children, two boots compete while a third Run starts past
  the bound.
* Control: both sides have a request in flight while an event holds reading up and an
  incident closes; two connections compete for one token.
* Requests: two Requests make a Wait partial; two Answers are what arbitration of
  evidence must exclude; three Agents give every verdict graph with a branch or a
  cycle behind a branch.
* Models: a grandchild makes a preparation resolve a dormant ancestor; two changes put an edit
  of the policy and a selection of the user inside one preparation. Three attachments
  follow a failed cleanup by a reload and a replacement.
* Incidents: three conditions are one of each kind that is treated differently, with a
  Moderator, its replacement and the replacement's own.

### What the passing runs show

* **Lane and turns.** One occupant, first come first served, nobody waits for good although a
  preparation awaits an admission behind it. What the child proves of a dispatch stays
  true under cancellation and an interruption at any point, and every dispatch is answered.
* **Delivery.** One proof of every Delivery, one callback after it, no silent loss through a
  full queue, failed boots, lost transports and fences; a withdrawn Request is never handed to
  the Runtime afterwards. `LaneIsReturned` is checked without
  Resumes: with an interruption and a Resume right behind it there is one path on which it fails (see
  Findings).
* **Models and Owner.** A Runtime is launched with what its session records and, unless it inherits, with
  nothing that was excluded all along; a Workflow is built for a session only after every earlier
  one is shut down, except a coordinator that failed to initialise and then failed to shut down, which was
  never registered (see the disagreements below).
* **Runtimes.** Every child launched is bound or disposed, a Run that was reported ended is never
  current again, a stopped Agent stays stopped; a child whose Control is lost or that is
  shut down ends with everything released, and a release that had to wait is asked again.
* **Human.** The terminal shows the selected child, all of it and nothing else; questions are open
  only for a Run that can commit an answer and all settle; no Agent is kept for a view
  that is over, except the target of a switch whose view closed by itself meanwhile; when no input is
  counted, none is on its way.
* **Control.** No child speaks for another, nothing written behind a Hello is lost, two honest ends
  never close the channel over their own race, and the Owner is a report behind but never wrong
  unless a Run starts while the settlement before it is written (a finding).
* **Requests.** An Answer reaches its requester once, by a Wait or by Delivery; caches, transcripts
  and evidence agree; a stall of an obligation is noticed whatever the graph of Requests. A new host finds the
  registered children whose lineage is whole and unrepeated, and none that was reported as not created unless its
  whole file could not be read then. A continuation tells its Agent of the Requests that stand unanswered in the resume's snapshot, as
  `docs/cold-host-recovery.md:66` has it; what the Agent asks after the snapshot is in no view.
* **Workflow.** No slot is given twice and none is lost; conditions that persist are attended although
  Moderators fail; a Moderator learns of the successor before its incident is released, unless the observation
  threw after it had taken the failure off its map; a parked Owner is released when progress ends.

### Fairness

Weak fairness is assumed of continuations only: what the event loop runs once a promise is
resolved, a queue has a head or a timer is armed. In `SerialLane`, `Begin`, `Settle`, the early
release of an operation that releases, and the start of an operation another one awaits; in the
other modules the steps of a lane, of a launch and its timers, of an attachment, of the passes and
the boots (each composite lists them). The environment (the human, the model, Agents, failures)
owes nothing. The one strong fairness, in `MessageDelivery`: a turn that can end infinitely often
ends; a model that is given new input again and again may be kept busy, but not one that is out of
input again and again. Nobody is assumed to answer a Request, to end a Wait or to release a Hold.

## Findings

Four statements of the repository are not what the code does, each shown by a run with an expected
violation; `PROJECT.json` quotes the statement.

1. `supervisor_vanishes` (`agent-runtime-supervisor.ts:830`): the `finally` of a passive preparation that
   had released the lane and then fails clears the handle of the start that followed it. That start's Run
   is neither current nor reported ended.
2. `evidence_answers` (`request-evidence.ts:146`): the bridge of an admitted Answer is dropped with its
   failed author while the Answer's Delivery stays scheduled; a second Answer is admitted, and both become
   canonical.
3. `hosted_follows` (`child-control-connection.ts:420`): a native Run that starts while the settlement of the
   one before it is being written shares its identity, which the written settlement then clears.
4. `human_review` (`operation-review.ts:168`): a review whose Moderator has read the Report is cleared when
   the call begins to wait for a human.

More disagreements were met while modelling. They have no run of their own; each is stated as a property
in its module, where a counterexample can be had by adding it to a configuration. Where a run checks the
property, it excepts the disagreement by the disjunct in parentheses, without which it is violated.

| Module | Property | What the code does |
|---|---|---|
| `MessageDelivery` | `WithdrawnRequestIsAnnounced` | a Request withdrawn while its Steer batch is in flight loses its reservation to the sweep; its Cancellation is suppressed although the batch still commits the Request (comment `messages.ts:1285`) |
| | `CancellationDeliveredOnce` | through the same loss, a retried Cancellation is dispatched twice (`docs/agent-spawning.md:109`) |
| | `InterruptionDiscardsNothing` | a rejection queued by an interruption runs after a Resume queued right behind it, finds no Hold and fences the resumed Run (comment `message-delivery-scheduler.ts:731`) |
| | `LaneLeavesBoundaries` | in the same order the rejection handler awaits the Resume's completion with the lane held, and the Resume's turn waits for that lane (comment `:711`) |
| | `DeadRuntimeIsFenced` | a child that dies during an interruption leaves a live Run that is never fenced (comment `agent-runtime-supervisor.ts:1376`) |
| `RuntimeSupervisor` | `ClassifiesItsOwn` | the classification of a preparation that failed after it released the lane may discard the handle of its successor (`:881`, comment `:839`) |
| `HostedRuntime` | `SnapshotFollowsTheChild` | the snapshot that admission brings is adopted (`pi-child-hosted-runtime.ts:113`) even over a newer change event that was handled before, which the comment at `:131` rules out for inspections |
| `TurnAdmission` | `PreparationEndsNoOther` | the compaction that prepares one Delivery can end another input's preparation (`docs/agent-messaging.md:119`) |
| `AgentWait` | `NeverMismatched` | the invariant violations of the attention of a Wait can be reached (`agent-runtime-supervisor.ts:679`) |
| `RequestEvidence` | `DutiesCanBeMet` | the bridge of an Answer whose call fails after admission is never removed, so the Agent can neither answer nor retry (`messages.ts:749`, comment `request-evidence.ts:60`) |
| `OperationalIncidents` | `FailuresReachTheirReport` | a handling whose condition clears is dropped with the findings of its failed Moderator (`operational-incidents.ts:968`) |
| | `OneStandingReminder` | a standing reminder can be sent twice (`operational-incidents.ts:915`, `docs/operational-incident-moderation.md:15`) |
| | `RecoveryIsNoticed` (`forgotten`) | an observation that throws after it took a cleared failure off `#runFailureByKey` (`operational-incidents.ts:783`) is caught at `:675`; the failure is in no later observation, and the next one releases its handling without the successor notice, which the comment at `:853` calls late, not lost |
| `SpawnRecovery` | `RecoveryIsExact` (`unread`) | a read that fails while durable evidence is looked for counts as no evidence (`spawning.ts:366`): the child is reported as not created although its Identity is committed, and a later host takes it over (`docs/agent-spawning.md:117`: `not_created` means that validation failed before the Identity committed) |
| | `ChildrenSurviveRestarts` | a child whose spawner commits a call with the same native id again is not recovered |
| `HumanRequests` | `AnswerModeEndsWithItsRun`, `FenceDefeatsTheCandidate` | a question may be pending in a later Run, and a fenced candidate may still be committed by a child whose guard had let it through (`docs/human-requests.md:100`, `:108`) |
| `ChildScreen` | `HiddenStateResumes` | a child that nobody watches any more can go on being parsed (`docs/child-ui-context.md:13`) |
| `NativeInput` | `InputBecomesIdle` | hiding drops held keys that the projection has counted, which are then never reported (`docs/child-ui-context.md:15`) |
| `InteractiveSelection` | `NoSelectionLingers` (`stranded`) | a switch uses the view captured at `interactive-selection.ts:111` after it acquired its target (`:116`, `:132`); when that view closed by itself meanwhile, retargeting it shows nothing (`durable-agent-view.ts:70`) and the target keeps a selection without a view, which the comment at `:386` means to rule out |
| | `ViewedRuntimeIsKept` | the assertion of `#bindViewedRunInLane` (`interactive-selection.ts:422`) can fail |
| `OwnerAdmission` | `OneLiveWorkflow` (`broken`, never `served`) | when the initialisation of a coordinator fails and its cleanup fails too, no entry of the registry is left, so that another reload builds a Workflow over a failed cleanup (comment `owner-bootstrap.ts:74`) |
| `SerialLane` | `refused` | an operation that released early and settles under a later holder puts back the closure it found (`serial-lane.ts:45`); the holder's `releaseCurrent()` then returns false. The program as a whole seems not to reach it |

Of `ModelSelection`, without a property of their own:

* Two hosts of one user that edit the policy at the same time lose one of the edits
  (`workflow-policy.ts`, although `docs/workflow-policy.md` has the write keep every other field), and the
  Owner's menu derives the new list from the published one, not from the file.
* What a spawn prepared is kept while its boot is deferred (`firstPreparation`) and used although the
  policy or the parent's model changed since, whereas `docs/agent-spawning.md:47` resolves the parent's
  configuration immediately before each new Runtime; its Template snapshot then overwrites one that was refreshed after
  the change (comment `workflow-coordinator.ts:563`).
* A host that falls back from a Virtual Model's preset levels to a real model does not record that, so a user who
  later selects the Virtual Model by name gets the preset levels again, although the comment at
  `child-runtime-bridge.ts:90` calls such a selection explicit.
* A preparation takes the definitions from the file and the exclusions from the published policy, while the
  child routes by the file: after an exclusion made by hand the first request of a new Runtime may fail
  (comment `process-child-session-factory.ts:660`).

## Proofs

Proofs hold for every value of the constants, where the runs show small instances. `PROJECT.json` lists the
theorems; each proof module begins with its argument. Constants of a module that a composite EXTENDS or
instantiates are the composite's own or are given by its `WITH`; what the proofs need of them stands as a
named `ASSUME` in the composite (or the module itself, where it is extended), so that TLC evaluates it in the runs. `Bounds`,
`DistinctInputs` and `NobodyIsNoAgent` are hypotheses of their theorems. The bounds that only guard the environment
may be anything.

| Proof module | Component | Theorem | Says | Assumes |
|---|---|---|---|---|
| `MCLanes_proofs` | `SerialLane` | `MutualExclusion`, `FirstComeFirstServed`, `NoLostWakeup`, `ClosuresAreInert`, `IdleCallersWake`, `TypeCorrect` | one occupant; first come first served; the queue is exactly the waiting; no closure frees the lane for anybody but its present occupant | `NoOpAssumption`, `ReleasersAssumption`, `NeedsAssumption` |
| | `TurnAdmission` | `ProofsAreTruthful` | what the child proves of a dispatch is true and stays true | the inputs are distinct |
| `MCAnswers_proofs` | `ModelSelection` | `BansAreAlwaysFollowed`, `SelectionsAreRecorded` | a fresh preparation takes nothing that was excluded all along unless it inherits it; a Runtime runs on what its session records | `ModelAssumption` |
| | `OwnerAdmission` | `OneWorkflowLives` | a Workflow is built only over shut down ones, or one that was never registered and failed to shut down | `AttachmentAssumption` |
| `MCControl_proofs` | `InteractiveSelection` | `NoReasonStaysBehind` | no Agent is retained for a view that is over, but the target of a switch whose view closed by itself | `Nobody` is no Agent |
| | `ControlChannel` | `ChannelSettlesEverything` | honest ends never violate, every request settles once, an open one is on its way, Responses follow earlier events | `ChannelAssumption` |
| | `ControlAdmission` | `AdmissionStaysSound` | a token is resolved by the connection that named it, an open channel has read exactly what its child wrote, a closed broker holds nothing | nothing |
| | `ChildScreen` | `HeldScreenStaysCurrent` | a view after its handoff shows the current screen | `CallsAssumption` |
| | `NativeInput` | `IdleStaysTrue` | when no input is counted, none is on its way | nothing |
| | `HostedRuntime` | `OwnerAlwaysKeepsUp` | the Owner is reports behind the child but never wrong | nothing |
| `MCRequests_proofs` | `AgentWait` | `AnswersAreProvedOnce`, `WaitsAreSound` | `AgentWait` implements `AnswerOnce`; parked Waits are renewed, results truthful, responders started once | nothing |
| | `WorkflowResume` | `ContinuationsAreInformed` | a dispatched continuation tells its Agent of every unanswered Request of its own that the resume's snapshot holds | `ResumeAssumption` |
| | `SpawnRecovery` | `RecoveryStaysExact` | a new host finds the registered children with whole, unrepeated lineages, and none that was reported as not created, unless its file could not be read then | `SpawnAssumption` |
| | `RequestEvidence` | `EvidenceStaysSound` | transcripts agree; without failures one canonical Answer and Cancellation, and a duty can be met | `EvidenceAssumption` |
| `MessageDelivery_proofs` | `MessageDelivery` | `ScheduledWorkRetained`, `WithdrawnNeverDispatched`, `HeldTakesOnlyResume`, `TypeCorrect` | scheduled work has a live Run it retains; no withdrawn Request is dispatched; a held Run takes only a Resume | `KindAssumption`, `BoundAssumption` |
| `RuntimeSupervisor_proofs` | `RuntimeSupervisor` | `NothingOutlives`, `AbortsFenceStarts`, `TypeCorrect` | every child is bound or disposed, an ended Run is over, a stopped Agent stays stopped; no Run starts between an abort and its receipt | nothing |
| `DeferredBoots_proofs` | `DeferredBoots` | `SlotsAreNeverHandedOutTwice` | deferred boots never exceed the soft bound | finitely many Agents, a natural bound |
| `HumanRequests_proofs` | `HumanRequests` | `QuestionsAreAnswerable` | a question is open only for the Run that can commit its answer | natural bounds |

`FirstComeFirstServed`, `HeldTakesOnlyResume` and `AbortsFenceStarts` state action properties that no run checks
(`ServedInOrder`, `HeldTakesOnlyItsResume`, `AbortFencesStarts`). Next to these stand the inductive invariants, as theorems of
their own (`...Holds`, `Invariance`, `PreparationsAreSound`, `OwnersAreRegistered`; in `HumanRequests_proofs` it is part of the proof).

### Why the invariants are what they are

* **SerialLane.** `IInv == TypeOK /\ OneOccupant /\ WaitersAreServed /\ ClosureIsOwnOrInert`. There is one occupant
  because no closure that is installed or remembered can free the lane for anybody but its present
  occupant; a closure is inert after its operation gave the lane up, which needs that the lane was then
  handed to a waiter or freed, which needs the queue to hold exactly the waiting operations.
* **MessageDelivery.** To types and `ScheduledWorkRetainsItsRun` come: a slot names a batch that exists and what a batch
  counts as committed has proof (`Consistent`), or a sweep could free a reservation whose Request is not
  proven; only a live Run holds the lane and a dormant one has no stop; nothing is scheduled while a Run
  ends. Each scheduler method is `Quiet` (schedules and dispatches nothing, gives the Run up only without
  work) or `Advances` (may dispatch one batch, constrained by `SafeDispatch`). That a batch holds nothing
  withdrawn comes from `Clean`: after a sweep a withdrawn Request is queued only if a prompt owns it
  already, and every dispatch follows a sweep and takes unreserved input. Both compose as the methods do,
  closures keep `Sound` at every await, and each action has one lemma.
* **RuntimeSupervisor.** `IInv` adds to types and `NothingOutlivesItsEnd` what the head of the lane may rely on at each of
  its steps: before a session is bound there is no Runtime and no fence, afterwards there is one, and a
  handle is reserved only by the start that has the lane; a stopped Agent has nothing. Most steps are
  `Calm` (they bind, launch and end nothing), and one lemma carries the invariant across all of those; a
  Run that ends is `Over` in the same step it is reported. Starting, binding and admitting have lemmas of
  their own.
* **AgentWait.** The conjunct everything rests on is `CommittedInv`: a Wait resolves with Answers only when *every* Answer of
  the Requester is complete, not only those of its snapshot, and then none is left that a direct Delivery
  could still reserve. Between the candidate and the commit the guard reconfirms, which needs what a pending
  Wait holds at each phase (`PendInv`, `SnapshotInv`, `HeldInv`). The refinement maps a proof of either kind
  to the step `Prove` of `AnswerOnce`; a result that proves several Answers is a step for their set.
* **TurnAdmission.** An answer is final because whoever answers "uncommitted" has taken the input out of every place a Run could take
  it from: the Run holds only what was given to it (`RunInv`), the lane's operations and an interruption in
  progress name what they will remove (`LaneInv`, `InterruptInv`), and an aborted Run has nothing queued
  (`AbortedInv`), so its end cannot commit anything.
* **DeferredBoots.** Every Agent that works because of a deferred boot is counted, either as a Run or as a boot in flight
  (`GrantedIsCounted`), also between its boot and its dispatch; a slot is granted only below the bound.
* **ModelSelection.** A preparation takes many steps, while the policy is edited and other Agents run. `ModelInv` says
  what it has at each stage, that its Agent meanwhile neither runs nor has an earlier preparation, and that what it
  found excluded is excluded still: an entry that leaves the published list leaves the set the
  preparation is held to in the same step. A deferred launch keeps the selection its session records.
* **OwnerAdmission.** `OwnerInv`: only the current attachment can still be initialising, it reads and builds only while its
  session has no entry in the registry, and a Workflow that was served and is not closed is the one its session's
  entry names. One that was never served belongs to the current attachment until its initialisation or its
  shutdown has ended, so it is closed or broken when another is built.
* **ControlChannel.** `ChannelInv` relates the frames on both wires to both ends: identities are issued in order and
  so arrive, each frame says something its receiver has still to learn, and issued, settled and handled
  requests are counted against each other.
* **ControlAdmission.** `AdmissionInv`: a connection that is not admitted keeps every byte since the first of its Hello; a token
  has no channel or the one connection that named it; the queue holds queued connections once; a shut
  broker holds nothing.
* **ChildScreen.** `ScreenInv`: the call that has the screen reads it, a complete frame is not stale while its call reads, and
  frames asked for are asked for once.
* **NativeInput.** `InputInv`: what was acknowledged was read, and what was read, waits in the terminal or is held back is covered by
  the last count; an input under preparation is noticed, or announced before its acknowledgment.
* **HostedRuntime.** `HostInv` folds the reports on the wire over the Run the Owner is in: they end at the child's Run. Only the
  child numbers Runs, so what is asked or reported names one it has numbered. Both are claimed until Runs
  overlap, which is the finding `hosted_follows`.
* **WorkflowResume.** `ResumeInv`: a step on its way has a number, what is scheduled was never delivered, and of what was
  `known` at the snapshot neither the list nor the view drawn from it loses a Request that is still unanswered
  (`Covers`), since only an Answer takes one off the list. Requests that are authored later are in neither.
* **SpawnRecovery.** What is known is local: a child is known if it is whole, unrepeated and its spawner is known. The search finds
  it in rounds, so `RecoveryInv` orders the born by rank, spawners first, and induction over the rank shows that
  the rounds reach everything local knowledge reaches. A later call may not change what an earlier one
  resolves to unless it repeats its native id (`SourceInv`). A child that was reported as not created has no
  whole file, or is remembered as `unread`.
* **RequestEvidence.** `TouchInv`: what is scheduled or received was authored by an execution that will not deny it. `BridgeInv`, while
  nothing has failed: of each kind one Message at most is authored, and it is canonical or named by the
  bridge, whose execution is under way. Host crashes keep it, as they take the executions with the bridges.
* **InteractiveSelection.** A view's steps run in two lanes, and between them the Runtime may end or be replaced. `JobInv` says what each
  step of an opening, switch or close still owes; `KeptForItsView` that a Runtime is retained only for the
  projection that is viewed or on its way, so that who leaves removes what somebody set. A view may close under
  the switch that captured it; what that switch strands is named, and nothing else is left behind.
* **HumanRequests.** An open or submitted question belongs to the Run that is running and waits on it; whatever fails or ends that Run
  fences its questions in the same step.

Invariants were checked by TLC on small instances while the proofs were written.

### Only model-checked

* Liveness and everything that needs fairness or `ENABLED`, which the prover does not support:
  `EveryOperationSettles`, `DispatchIsAnswered`, `QueuedIsServed`, `LaneIsReturned`, `DeferredReleaseIsAsked`,
  `EveryChildEnds`, `OperationsSettle`, `EveryQuestionSettles`, `DeferredIsServed`, `IncidentIsAttended`,
  `ParkedOwnerIsReleased`.
* `SearchesAreExact`, `NoStallIsOverlooked`: what searches compute for every graph needs induction over data.
* `ExactlyOneProof` holds on `delivery_answers`, where no turn fails, and on instances where no suspension finds a
  submission under way; it is *not* an invariant of the model for every value of the constants, so no theorem
  states it. With a Message, a Request, a Resume, two control operations and one fault (`MaxBatch` 4) TLC shows why:
  a frozen batch is submitted at the safe boundary, the turn fails before the child has answered for it and
  the Run is suspended; `interrupt` on the suspended Run drops the frozen reservation
  (`message-delivery-scheduler.ts:633`, called at `run-supervision.ts:127` before the supervisor finds the Run
  held already); after the Resume and its turn the drain submits the Message again, which is still queued,
  while its first submission is under way, and the child takes both. The model lets submissions overtake each
  other because a preparation that finds the child busy leaves its admission and enters it again
  (`child-turn-compaction-gateway.ts`); whether one can stay out for a whole Resume turn is a question of time
  that the code does not settle by a guard. It is therefore recorded here as a limit of the property and
  not as a finding.
* Invariants whose proof is still to be written: `DeliveryIsAccounted`, `TerminalIsFaithful`, `CacheIsFaithful`; and the
  action properties `RefreshIsCurrent`, `RecoveryIsNoticed`.

## Not modelled

Schemas of frames and tools, parsing and rendering, layout of the selector and the view, the preparation of
socket files, the text of Templates and the wiring at startup: data and I/O without interleavings of their own. Human resume of a held Run, the timers of delivery progress, the renewal of a
review, the early return for a Moderator that is suspended when its failure is handled
(`operational-incidents.ts:1088`), paging of inspections, and an in-place rewrite of a transcript while chunks of it are read are control
that is left out. Pi itself (native sessions, its queue and its transcript writer) and the operating system are
the environment: they appear through what the code observes of them.

## What is left

1. `ExactlyOneProof` under the hypothesis that whenever a Run is suspended no batch but its Resume's is submitted
   or queued, and `DeliveryIsAccounted`, as theorems of `MessageDelivery`. TLC confirms the strengthening for the
   first on `delivery_faults`, `delivery_answers` and the instance of the counterexample, restricted to that hypothesis:
   two batches under way share no Delivery and hold none that is proven; while the Run is not stopping, what they
   hold is withdrawn or reserved by a slot; what a frozen batch under way holds is withdrawn or queued; under an
   interruption, only the Resume's batch is under way, and in a dormant Run none is; a Resume that waits in the
   lane or is reserved is neither queued, proven nor in a batch under way.
2. `TerminalIsFaithful`, `CacheIsFaithful` and `RefreshIsCurrent` as theorems.
3. `RuntimeSupervisor` on the lane of `SerialLane` instead of a queue, and `MessageDelivery` as a second
   implementation of `AnswerOnce`.
4. Human resume of a Hold, and the foreground block of a Creation Request, in `MessageDelivery`.
