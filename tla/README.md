# A TLA+ model of agent-core

agent-core takes messages from chat connectors, lets a model work on them with
tools, and sends the replies back. Its Kernel keeps all durable state in one
SQLite database, the Journal. Around it run separate processes: a Feishu
connector, an agent loop harness that continues unfinished work, a coding
harness that builds new capabilities, a host that executes approved ones, and a
deployment harness that runs managed services. This project models the Kernel
and these processes, with the threads, crashes and lost answers the code has to
live with, and the failing writes that leave two places apart: Journal errors on
the legacy delivery and in the tool loop, settlements of submissions, snapshots of
the registry, and the state files of the loop, coding and deployment harnesses and
of the connector. Other writes are taken to succeed, or the process to stop.

Paths in this file are relative to the repository root. `PROJECT.json` lists
every part of the system with its status, the source lines behind every
definition, and the hazards with the line where each bites.

## The system and its modules

Every process shares one pattern: a transaction, a file write or a network call
is atomic, and nothing makes two of them atomic together. In the models each
such step is an action, a program counter per thread (`wpc`, `dpc`, `kpc`, the
`pc` of a record) names the next one, and other threads and crashes fall between
any two. A crash resets what is in memory and keeps tables and files.

The models form seven groups. In each, the last module before the `MC` module
composes the others.

| Group | Modules | Code |
|---|---|---|
| Delivery of a message | `Journal`, `Outbox`, `WorkerQueue`, `Gateway`, `ApprovalExpiry`, `Delivery`, `Kernel`; `ReplyContract` (abstract); `KernelProperties`, `KernelInvariant`, `MCKernel` | `src/journal/`, `src/gateway/`, `src/server/delivery.rs`, `src/server/canary_runtime_delivery.rs`, `src/runtime/` |
| Continuations | `Continuation`, `EventObserve`, `LoopHarness`, `AgentLoop` | `src/gateway/mod.rs`, `src/journal/sqlite.rs`, `event_observe.rs`, `src/runtime/mod.rs`, `tools/agent-loop-harness` |
| One run | `RunBudget`, `ModelInvocation`, `ToolCall`, `ToolLoop`, `MCToolLoop` | `src/hook/`, `src/runtime/tool_loop.rs`, `model_invocation.rs`, `src/gateway/tool_call.rs`, `policy.rs`, `src/llm/` |
| Development submissions | `Gates`, `Generator`, `SubmissionStore`, `CodingSubmission`, `MCCodingSubmission`; `SubmissionContract` (abstract) | `src/server/coding_task_submit/`, `src/journal/coding_task_submissions.rs`, `tools/coding-harness` |
| Capabilities | `Registry`, `Approvals`, `CapabilityHost`, `CapabilityDecision`, `MCActivation` | `src/registry/`, `src/journal/*activation*.rs`, `src/server/capability_*.rs`, `tools/capability-host` |
| Managed services | `DeploymentHarness`, `ComponentRegistry`, `ComponentControl`, `ServiceDecision`, `MCComponents` | `src/server/service_decision.rs`, `component_control.rs`, `src/journal/component_*.rs`, `tools/deployment-harness` |
| Connector | `FeishuConnector`, `MCFeishu` | `connectors/feishu/src` |

The theorems are in `KernelProofs`, `LoopProofs`, `ToolProofs`,
`SubmissionProofs`, `AttemptProofs` (which continues it), `CapabilityProofs`,
`ServiceProofs` and `FeishuProofs`. An action has the name of the function it models
wherever there is one. Definitions marked "Faulty variant" belong to no specification: each is
a plausible mistake that breaks a property, paired with it under `mutants`.

**Delivery.** Four threads share the Journal: the worker, the dispatcher, the
expiry sweep and the accept loop. State: the status of each run, its events as
counts per kind, outbox rows, worker jobs, and the position of each thread. A
run has one reply, so a reply's identity is its run's.

**Continuations.** The Kernel accepts at most one continuation of a run that
yielded; the harness reads the event log page by page, decides, asks, and saves
its cursor and counts to a file that may be lost. A save that fails (`save`) ends
the pass: the file is the old one, memory is ahead of it, and the rest of the page
is not looked at again. The log is a sequence here, as paging is about its order.
Writes need no approval in this group, as by default.

**One run.** The budget is fixed by a hook or by default, then model calls and
tool calls alternate until a reply, exhaustion or a failure. The model covers
the deadline, two endpoints with sticky fallback, every way a tool call is
refused, and Journal accesses that fail in any place. Time is what is left until
the deadline in force, and `spent` what all waits took. This is the loop of the
legacy runtime, which continuations use too; messages on the default path run in
the loop of the `agent-runtime` library, to which these results do not apply.

**Development submissions.** A Kernel thread claims an attempt, calls the
harness, settles the row and stores a proposal. A harness thread takes the
attempt's lock file, writes a marker, runs the handler (generation with a budget
of model calls, five gates, manifests) and writes the result. Loading the accepted
objects, completing the row and storing the proposal are separate steps. A
settlement that is not written (`FinishFails`) leaves the row running; `unsettled`
remembers these rows.

**Capabilities.** Proposals are approved, rejected or expire; an approval
deploys to the host, then activates a registry snapshot, and writes its identifier
to memory. An identifier is the content a snapshot is created with, as the code's
are digests of it. Boot and the operators' enable and disable insert a snapshot row
by row without a transaction, so what is stored may be less
(`create_is_interrupted`), and a later change that leads to the same identifier
reuses it as it is.

**Managed services.** As capabilities, with a background thread for each
deployment and with control decisions (disable, rollback) the accept thread
waits for. The harness serves each request in a thread, and replaces a service
in three steps. Ports and process identities are the number of starts so far.
A write or a stop that fails after a process was started may leave it running
(`leaks` counts these): the diagnostics of a failed health check, a record that is
in place but not synced, an old record that cannot be put back, a stop whose
result is not looked at. Deploy's replay branch is in the model, though the Kernel
never sends a deployment twice.

**Connector.** One Node process: what runs between two awaits is one step. Two
stores on disk, and the in-flight map and the reactions in memory. Both the
processing and the failure emoji are taken to be configured.

Abstractions common to all: identifiers are model values; digests, signatures
and identities match or do not; text, prompts and rendering are left out; lock
times and times to live pass at any moment; the hash chain is left out.

## What is checked

| Run | Instance | Shows |
|---|---|---|
| `approval` | 2 messages (one per runtime), 2 runs, approval with expiry, 1 crash | one reply per message, none without its grant, a legacy pause ends only with a decision, no dangling run without a fault |
| `legacy_faults` | 1 message, 2 runs, 1 crash, 1 Journal error, fair | the inductive invariant, projection = Journal, completed means delivered, the reply contract is implemented, a pause ends |
| `liveness` | 2 messages, 2 runs, 1 crash, fair | accepted messages are worked off, queued replies are settled |
| `agent_loop` | 3 runs, 1 automatic, pages of 2, a crash of each process, 1 lost answer, 1 failing save, a lost file, fair | one continuation per trigger and one start per run, the limit, no event skipped, continuations worked off, yields resolved but for the page at hand at a fault |
| `tool_loop` | 2 rounds of at most 3 asked for, wall time 1, two endpoints, 1 failing access, fair | a transcript stays with one endpoint, results are sent once, effects are on record, rounds and time are bounded by the budget and two waits, the delivery ends |
| `coding_tasks` | 2 callers, 2 keys of one message, 2 attempts, 2 threads, 2 faults of: a crash of each process, 1 disk fault, 1 settlement not written | the handler is entered once, proposals are backed by gates and durable results, a running row has an owner, another attempt follows a durable rejection only, the one-attempt contract is implemented |
| `activation` | a trusted and an administrative proposal, 2 decision ids, 2 host threads, 4 manifests, old and new databases, 1 crash or failing insert, 1 operator change | the in-memory snapshot is the active one, answers are what is recorded, an approval is whole, only approved deployments are executed, changes do not undo each other, decisions are final |
| `components` | 2 versions of one component, 2 control decisions, 2 threads, 4 starts, 1 crash, 1 time-out, 1 exit, 1 process left by a failing write or stop | what is registered was approved, processes do not pile up, a pending decision keeps its component, published ports stay valid, lineage is kept |
| `feishu` | 1 message delivered twice, 3 handlers, 2 execute requests, 2 failures, 1 restart, 1 expiry | a reply is repeated only for a fault, an answered message shows no reaction, stray reactions are bounded by what went wrong |
| `doc_pause_durable`, `doc_effect_owns`, `doc_control_settles` | smallest that violate | see Divergences |

Bounds. Two of whatever may interfere (messages, callers, threads, decisions,
versions) and one of each fault: one crash separates any two steps, and a crash
together with an error reaches an error after recovery. More run ids than
messages let a redelivered message try a second run; a third run in `agent_loop`
lets a continuation yield again. The tool loop has one round more configured
than the host allows, so that the ceiling binds. `MaxStarts` admits both
deployments, a rollback and a restart. `Interruptions` cuts a snapshot short after
its first operation, which leaves it without the other external one, the control
operation and the hook bindings. In `coding_tasks` any two of the faults come
together. Every bound is a constant, and none of the theorems depends on its value.
Symmetry is used only in runs without liveness. Deadlock is not checked where the system may stop with all work done.

Fairness. The Kernel's threads are loops that go on whatever a step returned, so
each has weak fairness, and so has startup, for a supervised process; weak
fairness of the sweep says that an approval nobody decides gets older than its
time to live. The loop harness polls, and has weak fairness for the same reason.
In the tool loop there is one thread, every call of which has a time-out, and
weak fairness says that it runs. Requests, crashes, errors and losses are never
forced.

## What is proved

For all values of the constants, from the named assumptions on them alone, every
safety property the passing runs check. A property whose theorem has another name
follows it in brackets.

- *Delivery*: `TypeCorrect`, `KernelInvariantHolds`; `ProjectionNeverDrifts`
  (`RowMatchesJournal`), `NoSecondReply` (`AtMostOneDispatchPerMessage`),
  `GrantBeforeSending` (`PausedReplyNeedsGrant`), `CompletedRunsWereDelivered`
  (`CompletedMeansDelivered`), `OnlyFaultsLeaveRuns` (`NoDanglingRun`), the action
  property `PausesHold` (`PauseHoldsUntilDecided`), and `KernelKeepsContract`: the
  Kernel implements `ReplyContract`.
- *Continuations*, Kernel and loop harness together: `ContinuedOnceHolds`
  (`ContinuedOnce`), `AutomaticRunsAreBounded` (`AutomaticRunsBounded`),
  `PagingSkipsNothing` (`CursorSkipsNothing`).
- *One run*: `TranscriptsStayWithOneEndpoint` (`TranscriptFromOneEndpoint`),
  `ResultsAreSentOnce` (`ResultsSentOnce`), `EffectsStayAccountedFor`
  (`EffectsAreAccountedFor`), `BudgetsAreKept` (`SpendsItsBudget`).
- *Submissions*, Kernel and coding harness together: `HandlerIsEnteredOnce`
  (`HandlerEnteredOnce`), `ProposalsAreBacked` (`ProposalIsBacked`),
  `RunningAttemptsAreOwned` (`RunningIsOwned`), `RetriesFollowRejections`
  (`RejectedBeforeNext`), and `SubmissionsKeepTheContract` (`ContractSpec`): they
  implement `SubmissionContract`.
- *Capabilities*: `CacheIsCoherent` (`CacheCoherent`), `AnswersAreRecorded`
  (`AnswerIsRecorded`), `ApprovalsAreWhole` (`ApprovedIsWhole`),
  `OnlyApprovedIsServed` (`ServedIsApproved`), and the action properties
  `OneOperationPerStep` (`OneOperationAtATime`) and `DecisionsAreFinal`
  (`DecidedOnceTogether`).
- *Managed services*: `PendingControlOwns` (`OwnedUntilSettled`),
  `RegisteredWasApproved` (`RegisteredIsApproved`), the action property
  `LineageIsKept` (`LineageKept`); with the harness, `ProcessesAreBounded`
  (`ProcessesBounded`) and `EndpointsStayValid` (`EndpointStaysValid`).
- *Connector*: `RepliesAreSentOnce` (`SentOncePerFault`),
  `StrayReactionsAreAccountedFor` (`StrayReactionsBounded`),
  `AnsweredMessagesAreCleared` (`AnsweredShowsNothing`).

Few of these are inductive by themselves.

*Delivery.* That no reply is sent twice needs `DispatcherInv` (the dispatcher
holds a dispatching row and has called at most once) and `RowInv` (a row's status
determines its terminal facts, so that recovery selects exactly the dispatching
rows and startup repair finds nothing to do). That runs of one message are one
run needs `TriggerInv`. That a grant precedes sending needs `ApprovalInv`, which
follows a request from the pause to the handler. The proofs go by groups of
actions: outbox, worker and handlers and sweep, startup and crash.

What a status says needs `StatusInv`, inductive relative to that: `WorkerInv`
(which path of delivery the worker can be in, and that a run it has still to hand
over is not Completed) and `DecisionInv` (a handler or sweep about to move a
paused run has recorded its decision). Every step is first shown to be one of the
moves of `RunMove`; the three properties then follow from the moves.

*Continuations.* `LoopInv`: a trigger has one row because a row is added only
where there is none; a run starts once because the transaction that starts it
creates its row. The ledger is counted against memory, beyond which it holds what
lost answers hide, and against the file, beyond which it holds what failing saves
hide as well; a crash puts the second count in the place of the first. A page is the set of rows with fewer than the limit
before them, so that a row left out has the whole page before it: that is what
keeps the cursor, the page's last row, from passing an event that was not read.

*One run.* `ToolInv`: a parsed call comes from the endpoint of the turns before
it, and until an error the follow-ups match the parsed calls one to one and in
order. `ResultsSentOnce` says this with an explicit matching, not with
`SelectSeq`, which is recursive and nothing can be proved about. `RoundsInv` and
`TimeInv` follow the rounds and the time by where the worker is: in the loop, what
was spent and what is left add up to at most one invocation and the wall time, and
the wait after which nothing is left is the only one to go beyond.

*Submissions.* `SubmissionInv`: a thread past the lock owns the lock of its
attempt, and an attempt without a marker, or whose owner is still marking it, has
not been entered. So a second thread finds the marker or waits for the lock, and
after a crash, which frees the locks, the marker is still there. `BackedInv`: what
a thread is about to write has happened, and a success the Kernel holds is durable
in the harness; so is a rejection. `OwnedInv`: a running row has a caller that will
settle it, also one that gave up on a thread still working, or its settlement was
not written. `SlotInv`: a message's rows are numbered, and only the last may be
other than definitively rejected.

*Capabilities.* `CapabilityInv`: what is stored under an identifier is part of its
content; memory and table differ only while a thread is
between the two; what the thread remembers of a decision is what was recorded; an
"ok" of the host is about the record it holds; a grant stands on an approval.

*Services.* `ServiceInv`: a pending decision is the only one about its
component; no candidate of that component with an intent can still be activated;
its component was registered when the decision was made and is as it was; only
approved candidates have receipts or are registered. These proofs never look at
the harness: the Kernel's own checks suffice, whatever is answered and when.

The other two do. `ProcessInv`: one thread works on a component at a time and has
in hand the record it replaces and the one it replaces it with, one of which is
`active.json`; a process that runs under neither was left by a crash, which leaves
at most one per component, or by a counted failure. `EndpointInv`, relative to both: a candidate is
asked for once, so its record is written once, and whatever is healthy at it (the
active record, a record in a thread's hands, an answer, a registry entry) has that
record's port.

*Connector.* Each step is reduced to what it does to one message and one handler.
Reactions shown, handlers about to add one and a send about to be refused weigh no
more than the events and faults that paid for them.

The assumptions say that a null value (`NoMsg`, `NoRun`, `NoOne`, `NoRecord`,
`Nothing`) is none of the values it stands in for (`NothingIsNoRecord`: no
deployment record either), that bounds and times are naturals and that tables name
what they must.

`USE Zenon` at the head of each proof module makes Zenon the prover of its leaves;
the leaves that need arithmetic, or that Zenon does not find in time, cite `SMT`.

Only model-checked: liveness (`PauseEnds`, `AcceptedIsWorkedOff`,
`QueuedIsSettled`, `ContinuationIsWorkedOff`, `YieldIsResolved`, `DeliveryEnds`),
which is out of the prover's reach.

## Divergences

Three sentences of the documents are checked and violated; the quotes are under
`findings`.

| Run | The code |
|---|---|
| `doc_pause_durable` | the v0 path completes a run it has just paused (`src/server/canary_runtime_delivery.rs:210`) |
| `doc_effect_owns` | a second deployment of a component is accepted while one is in flight: the query looks for a status no proposal has (`src/journal/trusted_service_activation.rs:90`) |
| `doc_control_settles` | a control decision cannot be settled, now or by replay, after another component was activated (`src/journal/component_control.rs:328`) |

The models also follow the code where it departs from a document or comment in
these places, and properties are restricted to where they hold:

- The failure notice is a write sent without approval
  (`src/runtime/tool_loop.rs:500`; `docs/operating-guide.md:140`).
- `WaitingDispatch` may be written over `Completed` (`src/runtime/mod.rs:169`;
  `docs/architecture/outbox.md:62`), and the v0 path completes a run whose
  dispatch ends unknown (`outbox.md:66`). `CompletedMeansDelivered` is about
  legacy runs.
- A sweep may expire a run that was granted after the sweep read its list
  (`src/journal/approval.rs:41`, comment at 32); a crash between
  `ApprovalExpired` and `fail_run` leaves the run paused for good (comment at 3).
  `PauseEnds` admits a recorded decision.
- A crash between reserving a message and accepting it loses the message
  (`src/gateway/mod.rs:343`; `docs/architecture-rfc.md:289`).
- A crash inside `deny_run` leaves a run that can still be approved
  (`src/gateway/mod.rs:572`; `docs/operating-guide.md:159`).
- A crash after `insert_run` leaves the run `Running`
  (`src/server/canary_runtime_delivery.rs:89`, comment at 84). `NoDanglingRun`
  is about behaviours without faults.
- The automatic-run count is never reset by user input
  (`tools/agent-loop-harness/src/lib.rs:374`, comment at 44). The cursor is saved
  before the runs of its page are acted on (`lib.rs:348`), so a lost request, a
  failing save or a crash drops what is left of the page; `YieldIsResolved` allows
  one page for each.
- Yielding completes the run without the partial reply (`src/runtime/mod.rs:340`,
  comment at `src/hook/budget.rs:72`).
- A model call repeated after a malformed tool call shares an invocation id with
  the first: ids count the results so far (`src/runtime/tool_loop.rs:388`,
  comment at `src/runtime/model_invocation.rs:4`). A call starts with its full
  time-out when the context hook has used up the deadline
  (`model_invocation.rs:178`, comment at 28), and the deadline is frozen at run
  start and again at loop entry (`src/runtime/tool_loop.rs:65`, comment at
  `src/runtime/mod.rs:276`). `SpendsItsBudget` allows for both.
- A snapshot whose insertion was cut short is reused incomplete
  (`src/journal/registry_ops.rs:425`). `OneOperationAtATime` admits
  that it lacks operations.
- A failing write or stop leaves service processes that nothing stops
  (`tools/deployment-harness/src/manager.rs:128`, `process.rs:245`).
  `ProcessesBounded` counts them.
- A deployment whose connection fails is failed for good, though the harness may
  have carried it out; when it can no longer be recorded it is only logged
  (`src/server/service_decision.rs`, comment at 232).
- The repeated execute requests of the connector's model come from its own
  contract: the Kernel of this version does not retry a dispatch.
- A Feishu event delivered twice puts up a second reaction nobody removes
  (`docs/product-roadmap.md:171`). `AnsweredShowsNothing` is about events
  delivered once.

## Not modelled

- The loop of the `agent-runtime` library, which the Kernel links in and delivers
  messages through by default. It keeps no durable state; `Delivery` models the
  Kernel's side of it, and the loop is reduced to how it ends.
- The workspace tasks of the coding harness, which wrap one child process each,
  and the retired acceptance workflow, which cannot be reached.
- The connector's approval and change commands and its cards: parsing and
  wording around one request. What the Kernel does with the request is modelled.
  Messages are taken to be none of these commands.
- The calculator route, commands without a run, the Journal's hash chain,
  sessions and migrations of the schema other than those of the registry.
- HTTP parsing, provider formats, rendering, sandboxes, builds, what a tool or an
  artifact computes, and the offline report tools: sequential input and output
  with no state to interleave.
- Operations with no caller outside tests: `start_worker_job`, the retryable and
  dead states of jobs and dispatches, `start_outbox_dispatch`.
