# A TLA+ development of GoOnCall-Agent

GoOnCall-Agent receives alerts, opens an *incident* per alert, lets an LLM agent
diagnose it, asks a human to approve a restart of the failing worker, restarts it,
verifies the metrics and closes the incident. This directory holds TLA+ models of the
parts of it that are hard to test - races between webhook, operators, workers and the
broker; crashes; lost confirmations; timeouts - the configurations that model-check
them, and machine-checked proofs about them. Paths are relative to `src/internal/`
unless they say otherwise; `PROJECT.json` maps every definition to its lines.

## 1. The system

### Components

| component | where | state | operations that change it | modelled in |
|---|---|---|---|---|
| incident model, state machine | `incident/model`, `incident/state_machine` | none (tables) | - | `IncidentStates` |
| incident service | `incident/service` | through the repository | `Create`, `Analyze`, `Fail`, `Resolve`, `MoveTo(WithAudit)`, `ResolveExternally` | `Diagnosis`, `Remediation` |
| repositories | `incident/repository` (memory, PostgreSQL), `src/migrations` | incidents with a version, events, approvals, runs, steps, tool calls | inserts behind partial unique indexes, compare-and-set updates | the guards and tables of `Remediation`, `Diagnosis`, `AgentRun` |
| approval service | `execution/approval` | through the repository | `Request`, `Approve`, `Reject`, `ExpirePending`, `expire`, `executeClaimed` | `Remediation` |
| remediation executor | `execution/executor` | none of its own | `Execute`: restart, verify, close | `Remediation` |
| deployment tool, HTTP executor | `tool/deployment` | the outside world | one HTTP request that restarts the worker; the agent's request for an approval; the whitelist of targets | `Remediation`, `AgentRun`, `Deployment` |
| verifier, gatherer | `execution/verifier` | local to a call | `VerifySequence`, `Gather` | `Verification`, `Deployment` |
| messaging | `messaging` | main, retry and dead-letter queue | `Publish`, `Subscribe` and the routing of failures | `Diagnosis` |
| wiring, worker entry points | `bootstrap` | - | `New`; `PublishAgentRequested`, `RunDiagnosis`, `failIncidentOnDeadLetter` | `Deployment`; `Diagnosis` |
| agent runtime, recorder | `agent/runtime` | one `AgentRun`, its steps and tool calls | `Diagnose`, `Start`, `Step`, `Complete`, `Fail`, `InvokableRun` | `AgentRun`; `Diagnosis` (life of the run) |
| stream broker | `agent/runtime/streambroker.go`, `api/handler/run.go` | per run: history and subscribers, one mutex | `Publish`, `Subscribe`, cancel | `StreamBroker` |
| API handlers | `api/handler` | - | `Webhook`, `Create`, `Analyze`, `Resolve`, `Approve`, `Reject` | `Diagnosis`, `Remediation`, `Deployment` |
| router, middleware | `api/router`, `api/middleware` | none | token checks, the recorded actor | `Deployment` |
| policy | `execution/policy` | none | - | `AgentRun` (`Evaluate`) |
| postmortem | `execution/postmortem` | none | - | no (a text; `VerifiedApplied` says when it is written) |
| knowledge base | `knowledge`, `bootstrap/knowledge.go` | points of a Qdrant collection shared by all processes | `EnsureCollection`, `Index`; `Split`; `Retrieve` only reads | `KnowledgeIndex`, `HybridSearch`, `Splitter` |
| configuration | `config` | read once | `Load`, `Validate` | `Settings` |
| tools and registry, chat model | `tool`, `agent/runtime/openai_model.go` | filled at start | HTTP queries | no |
| DTOs, request logging, metrics, storage set-up, commands, supervisor | `api`, `observability`, `storage`, `src/cmd`, `agent/supervisor` | none that matters | - | no |

### How they interact

1. **Alert to message.** `AlertHandler.Webhook` calls `Create` (deduplicated by
   fingerprint: a lookup, and a partial unique index when two calls race), then
   publishes `agent.requested` with a confirm. An answer that is not 2xx makes
   Alertmanager send the alert again. `IncidentHandler.Analyze` also moves the incident
   and publishes.
2. **Message to diagnosis.** A worker's `Consumer.Subscribe` hands a delivery to
   `RunDiagnosis`, which skips closed incidents and incidents with an active run, and
   otherwise runs the agent under a `Recorder`. Failures go through a retry queue with a
   TTL; after `MaxRetries` to the dead-letter queue, and only when that is confirmed the
   terminal callback fails the incident.
3. **Diagnosis to approval.** A tool call of the agent requests an approval; the incident
   moves to WAITING_APPROVAL.
4. **Approval to restart.** `Approve` claims the approval by compare-and-set, moves the
   incident to MITIGATING, marks the approval EXECUTING and calls the executor, which
   sends one HTTP request with the approval's id as idempotency key, moves the incident
   to VERIFYING, samples metrics and closes it.
5. **Recovery.** A `resolved` alert expires pending approvals and closes the incident
   unless it is in remediation.
6. **Streams.** The recorder and the approval service publish events; SSE handlers
   subscribe to the stream of a run.
7. **Start.** Before it serves, every API and worker process brings the runbooks it is shipped
   with into a shared Qdrant collection; the agent's runbook tool then searches it.
8. **Configuration.** Every process reads a file of its own. What it says decides whether the
   process starts, whether the API and the worker share a database at all, whether alerts reach
   a worker, who is let in, which workers may be restarted and where the measured values come
   from; nothing compares the files of two processes.

All processes share the database, the broker and that collection only; API and worker processes crash
and restart independently. Incidents are guarded by a version, approvals by their status.

### What is hard, and what would make it correct

The hazards, each at its line, are in `PROJECT.json`. In short: statuses are read and
written in separate steps; a client may disconnect between any two of them; the restart
happens outside and cannot be undone or observed reliably; messages are delivered at
least once; publication and database commits may succeed although the caller sees an
error; two workers may hold copies of one message; the mutex of the stream broker is
held across channel sends; the verification loop counts consecutive samples; the tool calls
of one model answer run in parallel, each with its own writes, over one plain counter, and
the run's timeout may end their context between any two of them; and a guard that one file
turns on (approvals, the whitelist, tokens) is off where another process reads another file.

Correct means: one restart per approval and per incident, only when granted, and never
next to an external recovery; approvals and incidents move only along their tables; what
is recorded as executed was executed; an accepted alert is not lost, but in the two ways of
section 6; one diagnosis at a time; the audit trail of a diagnosis is complete when it claims success and settled when it
does not; verification passes exactly on the required samples; events tell what is stored,
arrive in order, and slow readers hold nobody up; no combination of files lets a request
restart a real worker that an authenticated operator did not approve, or strands an accepted
alert where restarts are real, failures of section 6 excepted; and what is indexed is the text of the
documents.

## 2. Modules

**`IncidentStates`** - the statuses, the transition table (`transition.go`), terminal
statuses, approval and run statuses. No state; extended by the modules below.

**`Remediation`** - approval and remediation. A `Proc` is a goroutine that serves one
call; `req[p]` is its program counter, the move it is about, incident, approval, the
version it read, and whether its context is alive. A status move of the code
(`transitionWithAudit`) is `BeginMove`, `ReadIncident`, then `CommitMove`, `RefuseMove`,
`FailMove` or `LoseMoveAck` (committed, but the caller sees an error). `Target`,
`Permitted`, `AfterMove` and `AfterRefusal` say, per call site, where a move leads and
where the call goes on. `Approve`, `Reject`, `Request` are the compare-and-set writes;
`MarkExecuting`, `CheckIncident`, `SendRestart`, `RestartSucceeded/Failed/Unknown`,
`Verify`, `RecordOutcome` the rest of `executeClaimed` and `Execute`; `Expire` and
`ExpirePending` the two expiries. `calls` and `applied` are the deployment endpoint: a
request is *sent* before it is known whether it was *carried out*. `Faults` selects
cancellation, database errors, crashes and connection resets. `Verify` is an outcome here; `Verification` opens it.

**`RestartOnce`** - what `Remediation` promises about the outside world: a grant per
incident, given before the incident is closed and never revoked, at most one restart for
it, closed incidents stay closed. **`RemediationInv`** holds the inductive invariant and
the refinement mapping (`sent <- calls`, `closed <-` the incidents in a terminal status);
**`RemediationProofs`** the proofs.

**`IncidentLifecycle`** - what the rest of the system may rely on about an incident, whoever
works on it: it is opened only while no other of its alert is live (`Open`), moves along the
table (`Move`) or is closed by the recovery, which bypasses the table outside remediation
(`Recover`), and once closed it stays closed. `Diagnosis` and `Remediation` both implement it.

**`Diagnosis`** - from a firing alert to a finished diagnosis. `Api` goroutines run
`Fire`, `Insert`, `Refetch`, `CheckRuns`, `AnalyzeCall`, `Publish`; the broker is a set of
message slots, each in the main, retry or dead-letter queue or unacknowledged; `Worker`s
run `Deliver`, `Get`, `ListRuns`, `Analyze`, `Start`, `Conclude`, `Complete`/`Fail`,
`Route`/`RouteFails`, `TerminalRead`/`TerminalWrite`, `Ack`. Every write has a form that
fails and one that is kept although the caller sees a failure. `Disconnect` requeues a
delivery while its worker carries on. Statuses never return to an earlier value (theorem
`StatusesNeverReturn`), so a versioned write is a write conditional on the status that was read. `OutsideMove` is what
recovery, operators and remediation do to the status: at any time, any move of `OutsideTargets`
(module `IncidentStates`), which besides the moves of the table holds what `ResolveExternally` does
without it and the FAILED of an approval that is rejected before its incident waits for it.
`stranded` is a history variable: the incidents whose delivery lost its channel, or which the analyze
endpoint moved without publishing, the only ones of which an alert may be lost.
**`DiagnosisProofs`** holds its invariants and the proofs.

**`AgentRun`** - one diagnosis in detail. `Diagnose` is `Start`, the agent's loop, `Step`,
`Complete` and, from every error path, `Fail`. The loop is eino's and external: `ModelAsks` for
a set of tool calls, all of which return before the next answer is asked for, and an error of
one of them ends the loop (`AgentFails`). Each call is a goroutine in `InvokableRun`: the
increment of the counter is a load and a store (`LoadCount`, `StoreCount`), and the comparison
may see its own value or the field (`CompareCount`), which is what an unsynchronised field
allows; then `StartToolCall`, the tool (`ReadTool`, or `RestartTool`, which asks for an approval
under the decision of `Evaluate`) and `CompleteToolCall`. Every write is *done*, *failed* or
*lost* (committed, the caller sees an error); one made under the diagnosis' context also ends so
when the context has ended, one made under `persistenceContext` only with a database fault. A
published event carries what it is about, so that it can be compared with the tables.
**`AuditTrail`** is what a reader of the run's rows and events may rely on, without any goroutine:
the tables only gain rows, a row is settled once, an event is told in the step that stores what it
says or never, approvals and results belong to calls that were announced, the final step is stored
when every stored call is COMPLETED, and the recorder adds nothing after its "done". The one thing ever taken back
is a success nobody was told of: when the confirmation of `Complete` is lost, `Fail` overwrites
COMPLETED (`UpdateRun` does not ask for the status). What the approval service later makes of an approval, and
publishes on the stream of the run, is not part of it. `AgentRun` implements it
(`ImplementsAuditTrail`). `raced` and `lost` are history: whether two goroutines were in
`checkToolCall` at once, and how many increments were lost. **`AgentRunProofs`** holds the inductive invariant and the proofs.

**`Verification`** - one call of `VerifySequence`: the attempts and the threshold are
drawn in `Init` from a set of configurations and normalised as the code does; `samples`
is the list of samples taken, `streak` the counter. **`VerificationProofs`** proves its
verdicts right for every configuration.

**`Settings`** - what a process knows after `Load`: the defaults, the list of targets in its two
forms, and the rules of `Validate`. A file is the record that decoding it over the defaults
gives. **`Deployment`** composes it with `Verification`: an API and a worker, each started
from its own file (`Start`: a process that cannot be built, or whose dependency is down, exits),
and one incident that passes through both. Its actions are whole handlers: `Webhook`, `Create`,
`Analyze` behind their tokens, with a publication that may fail (`PublicationFails`: the webhook
answers 503, the analyze endpoint 200); at the worker `Miss` (the two processes do not share a
store), `Skip`, `NoModel`, `Conclude`, `Retry` (an attempt that fails after it moved the incident),
`DeadLetter`, whose terminal callback may fail, `RequestRestart`; `Reject`,
`ApproveRefused`, `Approve`; then the verification, whose samples are no longer good or bad by
choice but what `Gather` read and truncated (`Readings`, `SampleOf`), and `Close`. The
interleavings inside a handler are left to `Diagnosis` and `Remediation`, which leave the
configuration open; the number of copies of a message too (`Handled`). `faults` is history: whether
the analyze endpoint lost a publication, and whether a terminal callback failed.
**`DeploymentProofs`** proves the guards for every set of files.

**`StreamBroker`** - several runs and SSE clients behind one mutex. `Lock`, `Replay` (one
event at a time, blocked while the channel is full) and `Unlock` are `Subscribe`;
`Publish` never waits for a channel. Events are numbers, so that order and gaps can be
stated, and `missed` records those that found the client's channel full. **`StreamBrokerProofs`** proves its promise to a subscriber.

**`KnowledgeIndex`** - the start of several processes over one collection. `Boot`,
`CheckCollection`, `CreateCollection`/`LoseCreation` (the two calls of `EnsureCollection` are not
atomic: the second to create gets an error), `Hashes`, then the loop of `Index`: `Skip` or
`Upsert` per chunk, `Indexed`. A start that fails, is killed or loses an answer (`Fault`), or
whose three minutes are over (`Timeout`), ends the process. `Replace` is a rollout: the process
is replaced by one with newer documents while others still have the older. `points` holds what
each point was made of, so that hash, vector and text are one thing; upserts are acknowledged
before Qdrant applies them (`queue`, `Apply`). **`KnowledgeIndexProofs`** proves what that leaves
in the collection. **`HybridSearch`** adds `Retrieve` as operators:
any BM25 ranking of the process's own chunks and any ranking of the stored points are fused with
the code's weights, stripped of foreign ids, sorted (the fused list is the one list of the
candidates that is in the code's order), reranked in any way and cut. The weights are multiplied by
`Scale`, which every `RrfK` + rank divides, so that they compare as the fractions do (the rounding of
floating-point numbers is left out). **`HybridSearchProofs`** proves what an answer promises.
**`Splitter`** is how a document becomes chunks: the sections under headings of level 1
to 6, outside fenced blocks; paragraphs, lines, sentences, words, and cuts by length; parts that
fit together share a chunk. It is the one module that spells texts out, because its property is
about their characters, and the one with a RECURSIVE operator. In the run the two versions of
`KnowledgeIndex` are what it cuts their documents into (`VersionsAssumption`), so that
`PiecesAreTheText` can read the documents back from the collection; its first conjunct, `SplitsSound`,
is about `Split` alone, over every small document.

`MC*` modules define the small instances: symmetry sets, the fingerprint of each
incident, the configurations of a verification, the files around a real and a demonstration deployment, the small documents.

Operators marked *Mutant* in a module are not part of the specification: each changes one
definition the way a plausible bug would, and the property it is paired with in
`PROJECT.json` is violated when it takes that definition's place.

## 3. Runs

| run | bounds | what it shows |
|---|---|---|
| `remediation_safety` | 1 incident, 2 approvals, 3 goroutines, all faults | the safety invariants, the table and the approval chain, refinement of `RestartOnce` |
| `remediation_liveness` | 1 incident, 2 approvals, 2 goroutines, cancel and reset, fair | a claimed approval reaches a settled status; a remediation ends while no client leaves |
| `diagnosis_races` | 2 incidents of one alert, 2 API goroutines, 2 workers, webhook and analyze endpoint, 1 fault of the database, the broker, a process or a connection | an alert answered 2xx is not lost but in the two ways of section 6; refinement of `IncidentLifecycle`, and with it one live incident per fingerprint; one diagnosis at a time; failed only after the dead letter |
| `diagnosis_liveness` | 1 incident, 1 worker, 4 messages, 1 retry, 1 fault, webhook and create endpoint, fair | no accepted alert is lost; accepted alerts end; with a fault, the only two ways to get stuck |
| `agent_run` | 2 tool calls, budget 1, 2 faults, cancel, crash, fair | the tables and events are an `AuditTrail`; success has its audit trail; events tell what is stored; cancellation leaves nothing open; every call beyond the budget is paid for by a lost increment; `Diagnose` returns |
| `knowledge_index` | 2 processes, 2 versions of the documents, 3 ids, 1 fault, 2 unapplied upserts, fair | a served version is indexed; a finished rollout converges; every process serves in the end; answers over any such collection are sound; what is stored is the text of the documents |
| `deployment` | 2301 pairs of files, 5 tokens, 3 names, 31 readings | the verdicts of the loop; restarts are guarded, real alerts not stranded but by the two failures of section 6, real restarts pass on measurements only |
| `stream_clients` | 2 runs, 2 clients, 3 events, capacity 2, fair | order, no duplicate, nothing missed but what found a full channel; only the replay of a long history blocks |

The violation runs are the findings of section 6.

**Why the bounds are enough.** The races of remediation involve one incident, at most two
approvals of it and the calls about them: three goroutines give every pair of conflicting
calls and a third that intervenes (an approve, a competing approve or recovery, and a
dead letter). Incidents share no state, and the proofs hold for any number of them, so the
run has one. Two workers and one message with a duplicate are the
smallest case of redelivery; two slots hold a message and its duplicate, or a message and its copy for the
dead-letter queue, four (`diagnosis_liveness`) all of these at once; a second incident of the same alert is the recurrence after the first was closed. One fault reaches
each of the ways an alert gets lost or stuck; more of them are left to the proofs, which bound none.
`MaxRetries = 1` (`diagnosis_liveness`) has a retry, an exhausted retry and a dead letter; 0
(`diagnosis_races`) leaves the retry out and the dead letter in. Bounds that cap what
the code does not cap are `Msg` and `Run` (a message or run that finds no free slot waits;
the row of a failed run is reused) and `MaxFaults`; `Reserve` keeps the API from filling
the slots, so that the liveness runs never make a worker wait for a slot a real broker
would have. `deployment` starts from every file at most two changes away from one that may restart real workers
and from one for the demonstration, and from pairs in which the worker has another mode, policy or
list: a rule of `Validate` relates two settings, so that two changes break any of them and repair
it again. Attempts and thresholds of 0 to 4 have the normalised and the unreachable case; the
readings lie on, above and below each threshold, with the halves that truncation hides. The
splitter is run over every document of up to three of eleven rows (empty, blank, a word longer than
a chunk, sentences, headings of two levels, both fences), with pieces of 2, 4 and 7 characters and of 1000.
Two tool calls are one round of two that race or two rounds that follow each other;
a budget of one makes the second the call too many; the second fault is one in `Fail` or in the
other call while the first is handled. The proofs hold for any number of each. The capacity of a subscriber's channel is 256 in the code: only its relation to
the number of events matters. Two versions of the
documents have a chunk that changes, one that is dropped, one that is new and an id that two
chunks share (the loader takes `doc_id`s as they are); two processes undo each other's upserts.
`MaxQueue` bounds the upserts that are acknowledged and not applied. `Timeout` comes only after
a chunk was stored in this start. The ranks that `HybridSearch` fuses are all rankings of these
documents, with `CandidateK` and `RerankCandidateK` below, and `topK` below, at and above, what is stored.

**Fairness.** `Remediation!FairSpec`: goroutines that are not waiting for a human are run,
every access has a timeout, so a step that is possible is eventually taken; nothing is
assumed of humans, of new calls or of faults. `Diagnosis!FairSpec`: weak fairness per
worker (the diagnosis as a whole has a timeout, `runtime.go:77`), strong fairness of the
delivery of a message (queues are FIFO: it cannot be overtaken forever, but a worker is not
continuously idle), weak fairness of the retry TTL. `AgentRun!FairSpec`: model,
tools and database answer or time out, so `Diagnose` and every tool call goroutine proceed;
nothing is assumed of cancellation, crashes or which way a step ends. `KnowledgeIndex!FairSpec`:
whoever operates the processes starts one that is down again and finishes a rollout (the code only
exits; `docker-compose.yml` has no restart policy), a start goes on, Qdrant applies what it
acknowledged; three minutes suffice for one chunk. `StreamBroker!FairSpec`: a run
publishes what it has to and a goroutine inside `Subscribe` runs; clients may never read.

Runs that state liveness and runs whose system may rest check no deadlock: a quiet system,
with every call served, is allowed to stop.

## 4. Proofs

Eight modules hold proofs, `RemediationProofs`, `DiagnosisProofs`, `AgentRunProofs`,
`VerificationProofs`, `DeploymentProofs`, `StreamBrokerProofs`, `KnowledgeIndexProofs` and
`HybridSearchProofs`; `tlapm` checks each of them from nothing, with SMT, Zenon and PTL, for every value of the
constants. Every safety property that a passing run checks is proved, except the one about
texts (at the end of this section). The assumptions are the named `ASSUME`s: `None`
is nothing else and the bounds are natural numbers (everywhere), `Faults` is a set of fault kinds
(`Remediation`); `Call` is a finite set (`AgentRun`); `Config` holds pairs of
integers (`Verification`); measured values and the configured figures are integers, and nobody
names the recorded operator "anonymous" (`Deployment`); the versions are sequences of chunks and
there is a process at all (`KnowledgeIndex`; without one a rollout is over before it began); the
ids are finitely many and every rank that occurs divides `Scale` (`HybridSearch`).
One theorem has a hypothesis of its own, `RealAlertsAreSeen`; it is explained there.

*Remediation.* None of the safety properties is inductive by itself: that an approval
executes once depends on where every goroutine is. `IInv` (module `RemediationInv`) adds:
`Shape`, what a call is about at each program counter; `SeenDecides`, that an unchanged
version means that the status checked is still the status (so a stale read cannot write a
forbidden status); `Holding`, that the goroutine which won an approval finds it exactly
where it left it, that past MITIGATING the approval is the incident's grant, and that the
restart is sent in one step only; `HolderIsUnique`, one goroutine per won approval;
`GrantsOK` and `SendsOK`, how grants, events, restarts and statuses relate. There is one
lemma per group of actions and part of `IInv`; the theorems then follow:
`OneRestart`, `GrantedRestart`, `NoRestartAfterRecovery`, `ExecutedClosed`,
`VerifiedApplied`, `StatusTable`, `ApprovalChainKept`, and `Refinement`, that the whole
protocol implements `RestartOnce`. `LifecycleKept` says that it also implements
`IncidentLifecycle`, from the same `SeenDecides`: a write whose version still fits is a move the
table, or the recovery, allows.

*Diagnosis.* The properties are about incidents, messages and runs, and hold because of what each
worker and goroutine knows. `IInv` adds: `CallsOK`, an insert is under way for one new incident and
one goroutine, and what is published exists; `DeliveriesHeld`, a worker with an open channel has
the one unacknowledged delivery it was given, and no two workers the same; `RunsOwned`, the unique
index and that whoever diagnoses owns the run that is active; `RunsAfterOpen`, a status that was
read as OPEN may be stale, but from `Analyze` on the incident is past OPEN for good; `FailsOnlyLive`,
the dead-letter callback writes only over a status that may fail; `OpenCarried`, an accepted alert
whose incident is OPEN has a message, and one that a worker is only about to acknowledge does not count. The
proof first reduces every action to what it may do to each table (`StatusMoves`, `MessagesMove`,
`RunsMove`, ... together in lemma `StepMoves`), so that each part of the invariant is preserved for a
handful of cases instead of for every action. `NeverDiagnosedTwice`, `DeadLetterFirst` and
`AtMostOneLiveIncident` follow; all theorems hold under all faults and with every endpoint.
`StatusesNeverReturn` follows from the refinement of `IncidentLifecycle`, whose every move goes up a rank.
`AcceptedAlertNotLost` needs `NothingLost` in addition, inductive relative to `IInv`: a live incident that
is accepted, or beyond OPEN, and not `stranded` has an active run, a message nobody is done with, or an
analyze call that is about to publish; and a worker that is busy holds its delivery, or its incident is
`stranded`. The webhook accepts for an incident beyond OPEN at any time, so this cannot be said of the
accepted ones only. For an incident that is OPEN `OpenCarried` needs no exception: what a broken channel
or the analyze endpoint takes, it takes of incidents beyond OPEN (section 6).
`FollowsLifecycle` is the refinement of `IncidentLifecycle`: `Insert` is `Open` because of the index,
`AnalyzeCall`, `Analyze` and `RequestApproval` are checked against the table when they write, and
`TerminalWrite` writes over the very status it has checked.

*The two halves of an incident.* `Diagnosis` lets the recovery and the remediation happen as
`OutsideMove`, `Remediation` lets alerts and dead letters arrive as `BeginMove`. `OutsideIsCovered` says
that `OutsideMove` leaves nothing out: every status that `Remediation` writes, but for the three moves
`Diagnosis` makes itself (`DiagnosisMoves`), is one of `OutsideTargets` of the status it replaces. It needs
`AskedBeyondOpen`, that an approval is only asked for beyond OPEN, for otherwise Reject could fail an OPEN
incident. Both modules implement `IncidentLifecycle` over the same variable `status`: neither reopens what
the other has closed. (To `Remediation` every incident is of an alert of its own: it opens all of them at
the start.)

*AgentRun.* The properties compare tables with each other, and none says where the goroutines
are, so `IInv` adds: `CallInv`, what the record of a tool call is worth at each place of its
goroutine; `RunInv`, what is stored of the run at each place of `Diagnose`, and that all calls
have returned, none with an error, once the agent has answered; `StreamInv`, what each event
implies, with the additional fact that a call reported as completed has returned and its record
is never written again (lemma `RecordsSettle`) and that "done" is only published by a `Diagnose`
that is about to return; `BudgetInv`, that the counter is never above the number of calls that
stored an increment, never further below it than increments were lost, and, as long as no two
goroutines were in `checkToolCall` at once, equal to it, with at most one goroutine between load and
comparison; and that those let through, with those that will be if they compare the value they stored
(`MayPass`), exceed the budget by no more than was lost. There is one preservation lemma per
part. The theorems are `ApprovalsNameCalls`, `FullTrail`, `StreamIsTrue`, `CancellationSettles`,
`BudgetHeld` and `TypeCorrect`, for any number of calls, any budget and any number of faults.
For the refinement of `AuditTrail` two more parts are needed, of what is *not* stored yet:
`CallRows` (no record before `StartToolCall`, an open one while the tool runs) and `RunRows` (no
final step before `Step`, something told and nothing settled for good until `Fail` returns). `TrailStep`
maps each action to the step of the trail it is, and `TrailKept` is the refinement.

*Verification.* `IInv` says that `streak` counts exactly the good samples at the end of the
list (with a bad one in front of them), that no window of good samples has occurred unless
the verdict is "passed", and that the loop goes on only with attempts left.
`PassedExactly` and `FailedExhausted` follow for any configuration.

*Deployment.* That the administrator's token or the whitelist binds depends on what the file of
a running API is known to contain, and that approvals are enabled on what the worker once asked
for, so `Guarded` adds: a process that is up was started from a file that `Load` and the wiring
accept (`Booted`), and an approval exists only where it could be asked for (`Asked`). From it
follows `RestartGuarded`, for any files of the two processes. `Sound` adds that the figures of
the verification are those of the file, that the readings collected are those behind the streak,
and that a real restart was made in the real mode; `RealPassesAreMeasured` follows, with lemma
`GoodReading` for what truncation hides.

`DeploymentRunsVerification` says that the verification inside a deployment is a behaviour of
`Verification`: its theorems carry over, and `DeploymentTyped`, the type invariant with the bound on
the samples, uses one. `RealAlertsAreSeen` rests on `NotStranded`: before the API is up there is no
incident; afterwards whatever was accepted, or is beyond OPEN, is queued, diagnosed or closed, or has met one of
the two failures in `faults`. These are written into the property: without the publication of the analyze
endpoint an incident may be INVESTIGATING with no message, and after a failed terminal callback the
message may be dead with the incident open; TLC finds `RealAlertsAreNotStranded` violated when either
disjunct is dropped. The theorem's
hypothesis `WorkersAreEquipped` is that the worker of a real API is real as well, or names the database
and the model in its own file; the files of the run all satisfy it. The rules of `Validate` give this when both processes are started from
one file, as `src/README.md:119` has it; nothing in the code compares two files, and a simulating worker
without a model next to a real API acknowledges its alerts undiagnosed.

*StreamBroker.* `IInv` says what a stream holds at each stage of its life: nothing before, during the
replay exactly as much of the history as was sent, and afterwards all of what was published but
`missed`, whose every event came after more events than the channel holds; with `MutexOK`, that the one client that replays is the one with the
mutex, so that nothing is published between the end of its history and its registration.
`StreamsAreFaithful` follows, for any number of runs, clients, events and any capacity.

*KnowledgeIndex.* The last write to a point decides what it will hold (`Eventual`), and several
processes write it. `Answered` says that somebody answers for it: its author while the write is
pending, some process afterwards; and who answers either must still read the hashes, or has settled
the point: what it passed in its loop agrees with the last write, or what it knows of it does
(`Settled`). A start that ends stops answering for nothing: it begins anew by reading. The one way
out is a process that read the hashes from under upserts of its predecessor, which is what `late`
records. When all processes serve one version, whoever answers has passed all of it, hence
`RolloutsConverge`. Before a rollout only one text is ever written to each point, so no process can
undo another's (`FirstOnly`), whether or not hashes were read too early: `ServingIsIndexed`.

*HybridSearch.* That there is a sorted list at all needs no induction: the number of elements before
one is its place (`Sortable`), and the largest of a set of places is the last of its list (`MaxOf`).
Rankings give different positive ranks to different ids (`Ranking`; `LexicalRanks` and `VectorRanks`
show it of what BM25 and Qdrant return), so a better rank weighs strictly more (`WeightOrder`) and the
fused list is in strict order (`FusedInOrder`). Of the nearest `k` points the foreign ones are lost, one
result each (`EnoughCandidates`); a reranker only reorders what it gets, which is at least what is wanted
(`Listed`). `RetrieveSound` says this of all documents, points and rankings, `AnswersAlwaysSound` of
every reachable state.

Only model-checked are: the liveness properties (`ClaimedApprovalSettles`, `RemediationEnds`,
`DiagnosisConcludes`, `StuckOnlyBehindRunOrDeadLetter`, `DiagnoseReturns`, `OnlyLongHistoryBlocks`,
`AllServe`), since liveness under fairness is out of the prover's reach, and
`PiecesAreTheText`, because `Splitter` is recursive over its text.

## 5. What is not modelled

- Event rows and evidence as data: an event is written in the transaction of the status it
  belongs to; `event` keeps the newest transition. Contents of prompts, answers, steps and
  tool results.
- A runtime without run repository (nothing is recorded), and eino's own loop, which
  `AgentRun` takes as described in section 2.
- Undecodable messages (routed to the dead-letter queue without a callback; the program
  publishes none), the topology declaration, a worker whose subscription ended.
- An approval service without executor, which the wiring does not build.
- `Deployment` has no recovery by alert or operator and no second incident of the same alert
  (`Remediation` and `Diagnosis` have), no broken connection to the broker, no read requests, and takes two files that both name a
  DSN to name the same database.
- Settings that no rule of `Validate` or of the wiring looks at: timeouts, names, keys.
- Formatting, logging, metrics, the HTTP clients; the read-only tools of the agent, which only
  turn HTTP answers into text.
- Of the knowledge base: loading files and their front matter, the second reranker client, the
  evaluation metrics, BM25 and cosine scores (any ranking instead), the HTTP clients, collections of more than the 1000 points one page of `Hashes` returns, and a
  change of the embedding model, which changes no hash and so re-embeds nothing.

## 6. Findings

| run | what the code does | what is said |
|---|---|---|
| `dead_letter_during_remediation` | the dead-letter callback fails an incident in MITIGATING or VERIFYING | `bootstrap.go:224`: incidents in remediation are left alone |
| `cancelled_after_restart` | a client that leaves after the restart makes the approval FAILED: the move to VERIFYING uses its context | `service.go:228`: cancellation must not keep the result from being recorded |
| `cancelled_verification` | a context cancelled during the last sample makes the verification *failed*, with a nil error; `Execute` then moves the incident on that context, which fails with PostgreSQL, and the incident stays VERIFYING | `verifier.go:140`: cancellation returns `ctx.Err()`, and nobody may claim success or failure |
| `stream_blocks` | `Subscribe` replays a history longer than its channel with the mutex held: every publisher blocks | `streambroker.go:36`: publishers are never blocked |

`stream_blocks` is about the component. As the program is wired, recorder and SSE handlers run in
different processes, each with a broker of its own (`bootstrap.go:68`; `src/README.md:267` calls SSE a
single-process experiment); it takes a process that has both to meet the block.

More observations that the models make without a run of their own. Two ways in which the code does lose
an accepted alert are what `NoAcceptedAlertLost` excepts by name, and it allows no third. When the connection of a
worker breaks during a diagnosis, another worker finds the RUNNING run and acknowledges the
redelivered message as a duplicate (`bootstrap/agent.go:62`); if the first diagnosis then fails,
neither `Nack` nor republication reach the broker any more, where `consumer.go:48` rules out a silent
loss. And `IncidentHandler.Analyze` moves the incident to INVESTIGATING, then publishes, and answers
200 also when the publication failed (`handler/incident.go:127`); the webhook, which skips incidents
that are not OPEN, does not publish for it any more, where `src/README.md:20` says that a failed
publication is answered with an error and retried. `RealAlertsAreNotStranded` names the second as well
(the first is beyond `Deployment`), and a failed terminal callback: it is logged and the message
acknowledged (`consumer.go:192`), so that the incident stays open with its message in the dead-letter
queue, which `NoAcceptedAlertLost` counts as not lost. A connection reset
after the request was sent is returned as an ordinary error (`http_executor.go:94`), so
`FailedMeansNotApplied` also fails with `Faults = {"reset"}`; the contract at
`service.go:39` asks for `ErrResultUnknown`. And the resolve endpoint
(`handler/incident.go:141`) moves VERIFYING to RESOLVED while `VerifySequence` is sampling,
where `src/README.md:266` says that only verification leads to RESOLVED.

What does not contradict a promise, but an operator should know: an UNKNOWN approval leaves
its incident in MITIGATING, where the recovery is refused; a worker that dies during a
diagnosis leaves a RUNNING run behind which the incident is stuck (`src/README.md:17` says
that there is no takeover by time), and so does a `CreateRun` that is committed while its context
ends (`recorder.go:59`: `Start` returns the error and nobody calls `Fail`); a crash after the
restart leaves EXECUTING; and an increment of the tool counter that two parallel tool calls lose
lets one more tool run than `max_tool_calls` (drop `+ lost` from `BudgetHeldButForLost` and the
run `agent_run` shows it). A run seen as COMPLETED in the database may still become FAILED as long as
"done" was not published (`runtime.go:113`, the disjunct for it in `AuditTrail!Fail`).

When the expiry of pending approvals succeeded and the write of the incident then fails
(`service.go:176`), the incident waits in WAITING_APPROVAL for an approval that no longer exists until
the next recovery or an operator closes it.

Of the configuration: `handler/incident.go:123` promises a synchronous diagnosis where there is no
publisher, but `server.go` always sets one, and without RabbitMQ it succeeds by doing nothing
(`bootstrap.go:183`): such an incident waits for nobody, in INVESTIGATING. `router.go:13` says that
only the groups with a token are protected; the code protects all three as soon as one has a token,
and a group without one is closed. With RabbitMQ but without PostgreSQL, as in the memory
demonstration of `src/README.md:130`, the two processes have separate stores and every accepted alert
ends in the dead-letter queue (`Miss`). A worker without LLM moves the incident to INVESTIGATING and
acknowledges; nothing keeps such a worker from being started next to an API whose restarts are real
(the hypothesis of `RealAlertsAreSeen`). The list of targets binds in the HTTP mode only; written as a YAML list it keeps blank items, so
that `[""]` is accepted and allows nothing. Nothing refuses one token for two groups. The files of API
and worker are never compared: approvals that the worker's file enables are decided under the API's.

Of the knowledge base: a document that begins with a `---` rule loses, silently, what stands between it
and the next one, as front matter (`loader.go`). Two processes that start together on an empty Qdrant race to create the
collection, and one of them exits (`qdrant.go:29`). Points of chunks that left the documents are
never deleted; each may cost an answer one result, in spite of the candidates that
`retriever.go:137` asks for "to avoid too few results after RRF" (`AnswersSound` has the exact bound). If a
process is replaced while upserts of its predecessor are acknowledged but not applied, it may
skip a chunk that they overwrite afterwards (drop `~late` from `RolloutConverges`). Two
documents with one `doc_id` share points: every start embeds such a chunk again, and when each start
runs into its time limit after one of them none ever serves (`AllServe` fails with a last version
that uses an id twice).

## 7. Plan

1. *Done*: `IncidentStates`, `Remediation`, `RestartOnce`; `Diagnosis`; `IncidentLifecycle`;
   `AgentRun`; `Verification`; `StreamBroker`; `KnowledgeIndex` and `HybridSearch`; `Splitter`;
   `Settings` and `Deployment`; proofs of every safety property except that of `Splitter`.
2. Abstract specifications: `RestartOnce`, `IncidentLifecycle` and `AuditTrail` are stated and their
   refinements proved. Still worth stating: an at-least-once queue for the consumer, and a FIFO
   prefix for `StreamBroker`.
3. `Diagnosis` and `Remediation` stay apart, since their product is beyond TLC; `IncidentLifecycle`
   is what each of them may assume of the other.
