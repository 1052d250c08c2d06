# Verification of JooEvents

TLA+ modules, TLC models and TLAPS proofs about the server side of JooEvents, an
event-programme system (submissions, review, decisions, schedule, e-mail) that runs
as one Bun process over SQLite or as a Cloudflare worker over D1. The repository's `packages/` hold the domain and
persistence code, `apps/server` composes them, `apps/web` is the organizer's client.

This file has four parts: the inventory of the system, the plan, the modules with
what their runs and proofs show, and what is left out.

## 1. Inventory

### How the parts fit

An HTTP request, an MCP call or a supervised background job enters the
**request serialization** lane, which admits one at a time per process. A command
then runs through the **effect executor**, which checks authority and idempotency
and opens one **unit of work**: one SQLite transaction that writes the domain rows,
an operation receipt, the history and the outbox. On D1, which has no interactive
transactions, the unit of work reads in several statements, remembers a predicate for
each read and sends predicates and writes as one atomic batch. Whatever needs the outside world
happens after the commit, outside any transaction, driven by rows that carry a
**lease**: outbound e-mail deliveries, agent action batches, reliability jobs and
consumers, Airtable synchronisation, verified webhooks. A **background supervisor**
runs those drivers every second or two; several of them can also be kicked from the
request that created the work, and a second process may be started on the same
database. The interesting behaviours are therefore all of one kind: a short
transaction decides, I/O or another transaction follows, and between the two a lease
may lapse, the process may die, and somebody else may have acted.

### Components

| Component | State | Operations | Hard behaviour | Correct when |
|---|---|---|---|---|
| Outbound delivery ledger and worker (`packages/persistence/src/sqlite/outbound-email-delivery.ts`, `packages/communications/src/delivery/`) | delivery heads, numbered attempts, append-only facts, suppressions; a worker's locals | register, claim, release, start attempt, complete, recover, correct address, observe bounce | interleaved workers, lapsed leases, ambiguous provider answers, deaths with a request in flight, late answers | no recipient holds two copies that look original; copies are bounded; no answer is lost; rows agree; settled stays settled |
| Outbound dispatch loop (`apps/server/src/runtime/outbound-dispatch-loop.ts`) | the list a pass has read | runOnce, dispatchOne | stale list, a delivery that always throws, overlapping passes | every delivery resolves; passes end; recovery takes only abandoned attempts |
| Agent action runs (`packages/application/src/agent-action-runs.ts`, `packages/persistence/src/sqlite/agent-action-runs.ts`) | batch row with flags, lease and approval; step rows; operation log | submit, approve, reject, pause, cancel, resume, reconcile; advance: lease, choose, recheck, start, commit, settle | two processes, lapsed leases, throws, restarts, controls during a call, approval expiry | steps applied in order and once, only while approved, at most one after a stop; a finished batch stays so; every run ends or asks a person |
| Effect executor and unit of work (`packages/application/src/operations/effect-executor.ts`, `apps/cloudflare-worker/src/d1-effect-unit-of-work.ts`, `d1-atomic-batch.ts`, `foundation-trial-uow.ts`) | receipts by semantic idempotency key, operation log, outbox; on D1 the guards and writes of an attempt | execute, replay, recheck, plan, commit, conflict, retry | retry of a committed command, a lost answer, write skew between batches, authority revoked before the commit | one commit per key; a replay returns the committed receipt; an answer tells the truth |
| Request serialization (`apps/server/src/http/request-serialization.ts`) | FIFO queue, current holder | acquire, release, abort, time out | grant racing an abort or a timeout | one holder; first come first served; no lost grant |
| Background supervisor and server lifecycle (`apps/server/src/runtime/background-supervisor.ts`, `bun-runtime-lifecycle.ts`, `ephemeral-live.ts`) | jobs in flight, listener, startup, close | start, run, runNow, close, signal, stop | startup failures, close during passes, a stop that rejects | a job never overlaps itself; jobs and passes, and requests when the listener stops, are drained before the database closes; a shutdown ends |
| Reliability jobs and consumers (`reliability-job-trial.ts`, `reliability-consumer-trial.ts`) | job rows with leases and attempts, consumer cursors | enqueue, lease, complete, fail, dead-letter, advance | lapsed lease with a late completion, poison job | at most one effective completion; cursors do not skip |
| Airtable sync (`apps/server/src/runtime/airtable-live-runtime.ts`, `packages/airtable-sync/src/`) | timer, passes, wakes; shadows, cursors, leases, conflicts | wake, sweep, pump, close; outbound, inbound, reconcile | a wake during a pass, before start, or with the lane full; echoes of own writes, concurrent edits on both sides | no wake is lost; both sides converge; no edit silently lost |
| Verified ingress and inbox (`verified-ingress.ts`, `verified-inbox-trial.ts`) | inbox rows by delivery identity | verify, accept, process | replays, duplicates, crash between accept and process | processed once |
| Classified payload staging (`classified-payload-stage-store.ts`) | staged and published files, owner markers | stage, publish, discard, reclaim | death between file and row, two processes | no orphan is published, no live stage reclaimed |
| Public mutation continuation (`public-mutation-continuation-trial.ts`) | continuation rows | issue, consume | double submit | consumed once |
| Migrations, release floor, backups (`migration-runner.ts`) | migration ledger | apply, resume | interruption | resumed from where it stopped |
| Model adapter, model durability | sealed attempts | seal, complete | retry | (trial code) |
| Identity, participant access, workspace team (`packages/identity-access/src/`, `d1-workspace-team*.ts`, `d1-provisioning-store.ts`, `d1-operator-authority.ts`) | memberships, roles, invitations, team head with version and digest, sessions, grants, challenges | invite, change role, remove, sign in, grant, revoke, redeem | two owners acting on each other, sign-in beside an operation, revoked authority | an owner remains; an operation works on the team its actor saw; the head describes the team; no use after revocation |
| Domain packages (intake, review, decision, release, schedule, session, tasks, deadline) | one versioned aggregate each | commands of the ceremonies | stale versions | versions checked in the same transaction |
| Files | stored objects and ownership rows | upload, attach, release | partial failure | no dangling object |
| Communications authoring, audience, providers; contracts; kernel; HTTP and MCP adapters; web; setup CLI; Cloudflare, demo, docs and splash workers | none that outlives a call, or a cache | — | — | computation, translation, user interface |

`PROJECT.json` lists every component with its status; its `hazards` list holds what is
hard to test, each at its line, with the properties that would catch it.

## 2. Plan

1. `OutboundDelivery`, `DeliveryPromise`, `OutboundDispatch` — done. The lane that
   sends mail to real people: an error cannot be taken back.
2. `OutboundDeliveryProofs`, `OutboundPromiseProofs`, `OutboundDispatchProofs` — done:
   every safety property of the ledger and the loop, and the refinement of
   `DeliveryPromise`.
3. `AgentActionRuns`, `PlanPromise`, `AgentActionRunsProofs` — done, the refinement
   proof included.
4. `RequestLane`, `LanePromise`, `RequestLaneProofs` — done: mutual exclusion and
   first come, first served as an abstract line; the promise/timer implementation is
   shown and proved to refine it.
5. `ServerRuntime`, `ServerRuntimeProofs` — done: requests, supervised jobs and Airtable
   passes composed with the lane, from startup to the closed database.
6. `WorkspaceTeamD1`, `TeamPromise`, `WorkspaceTeamD1Proofs` — done: the effect executor's
   direct-audited profile on D1, with the workspace team as its domain and sign-ins
   beside it.
7. Candidates that remain: the Airtable pump (convergence under echoes), the classified
   payload stage store (needs a file system model).

Parameters are CONSTANTS with named assumptions, one action per operation, and no
RECURSIVE operator in a module that is proved about.

## 3. The modules

### Conventions

A ledger call is one SQLite transaction and therefore one action, trailing writes
included. Time is a countdown (`ttl`) per lease instead of absolute timestamps: only
"lapsed or not" is ever compared. Digests, envelopes, addresses and message bodies are
reduced to what the code branches on. An operator whose name ends in `Slip` is a
deliberately wrong variant of the definition that follows it; no specification uses
it, and `PROJECT.json` "mutants" says which property it breaks when it is put in place
of the right one. Each property of a passing run has one.

### OutboundDelivery

| Variable | Code |
|---|---|
| `head` | `communication_outbound_delivery_heads`: state, version, attempt count, unknown count, exhaustion flag, claim id and lease |
| `attempts` | `communication_outbound_delivery_attempts`, by attempt number |
| `facts` | `communication_outbound_delivery_facts` (with outbox and history, written together) |
| `contact` | the observations, address corrections and suppressions the code reads |
| `worker` | one `dispatch` call: its phase, claim, snapshot version, attempt, the age of its request and the answer |
| `mailbox` | history variable: the attempts whose message the provider really took |
| `crashes` | counter, bounded by `MaxCrashes` |

Actions: `Register`, `Claim`, `PrepareFails` (releaseClaim and rethrow), `StartAttempt`,
`LoseClaim`, `ProviderAnswers` (all outcomes, and for an unknown one both truths),
`SettleAttempt`, `KeepFencedAnswer`, `CompletionAborts` (the three branches of
`#complete`), `ObserveBounce`, `SuppressedElsewhere`, `CorrectAddress`
(retry_message_delivery), `Tick`, `Crash`. The database cannot be between two
statements of a transaction in any state another caller sees; a failing statement is
`CompletionAborts`.

External: the observation rows and current addresses are written by code that is used
but not present in the checkout (the observation repository); they are modelled from
how `ephemeral-live.ts` and `communication-send-operations.ts` use them.

`NativeKey` is a provider that deduplicates on the external delivery key. No composed
provider declares it, so the runs take FALSE; the theorems hold for both values.

`DeliveryPromise` states what an organizer is promised without leases, claims,
attempts or crashes: an unmarked send only while no unmarked copy can be out.
`KeepsPromise` is the refinement: `stage` is read off the head and the kind of its
current attempt, `exposed` is the set of original attempts not definitely refused.

### OutboundDispatch

Adds who calls the worker: `queue` holds the deliveries a pass has read and not yet come
to, taken in the order of `Place` (`ORDER BY created_at_ms, delivery_id`, which is total and
never changes, so the list is a set); `fresh` holds the deliveries
whose after-commit kick is due. `ReadClaimable` and `DispatchNext` are `runOnce`; `Kick`
is `dispatchOne`; a poisoned delivery always fails to prepare. `DeliberateRetries` lets
`dispatchOne` also be called for retryable and ambiguous rows.

Two things the model shows and no run reports, because they only bite outside the usual
deployment or are a matter of wording. A pass works through the list it read at its
start and `claim` grants a rejected row, so a pass that overlaps another one (a second
process) can redispatch a delivery that is `known_rejected_safe_retryable`, which
`outbound-dispatch-loop.ts:20` leaves to a person. And a first ambiguous landing waits
for somebody to ask: no automatic caller selects `acceptance_unknown`, while `model.ts:167`
speaks of one automatic marked resend.

### Runs

| Run | What is checked | Shows |
|---|---|---|
| `ledger` | ten invariants, two action properties, `KeepsPromise` | the ledger and two workers on one delivery |
| `dispatch` | type, `OnlyTheSchemaStrands`, `PassesFinish`, `RecoversOnlyAbandonedAttempts` | sweep, kick and deliberate retries over two deliveries, the first poisoned, with a death and a correction: only the schema's refusal strands a delivery |
| `dispatch_stranded` (violated) | `EveryDeliveryResolves` | that refusal happens |
| `dispatch_correction` (violated) | `CorrectionIsDispatched` | a corrected delivery is selected by nobody |
| `corrected_address` (violated) | `CorrectionReachesCorrectedAddress` | after an ambiguity the resend goes to the old address |
| `action_runs` | three invariants, `TerminalIsFinal`, `KeepsPlanPromise` | two processes and a restarted third on a three-step batch |
| `action_live` | `EveryRunStops`, `CancelTakesEffect` | the supervised job ends every run or asks a person; cancels are carried out |
| `action_cancelled` (violated) | `CancelledMeansStopped` | a step whose executor threw stays running in a cancelled batch |
| `runtime` | five invariants, `KeepsLanePromise`, three liveness properties | a request, a job and two Airtable passes in the lane, from startup to the closed database |
| `team` | five invariants, `KeepsTeamPromise`, `EverybodyIsAnswered` | operations on D1 with resends, conflicts, lost answers, changing sessions and a sign-in |
| `team_head` (violated) | `HeadTellsTheTruth` | a sign-in with an invitation leaves the team head behind |
| `team_role` (violated) | `JoinsInTheInvitedRole` | a role change of an invitation is lost to a sign-in under way |

The violated runs are real disagreements with what the repository says of itself; each
is a finding in `PROJECT.json` with its quote.

**Bounds.** `ledger`: one delivery, because deliveries share no row and every guard
names one head (`dispatch` has two, where the queue couples them); two workers,
because ownership is a relation between a holder and a taker, and a third adds only
another stale caller; three attempts and two corrections, enough for unknown, rejected
marked resend, retry, which is the shortest history a wrong kind needs, and for a
correction after it; three claim tokens for two workers and one stored claim, so
a fresh one always exists; one death; `LeaseTicks = 2`, `BudgetTicks = 1`, the smallest
with the code's order budget < lease, where a request can be younger than, as old as
and older than its budget. `dispatch` takes 1 and 0, two attempts and one correction: its
questions are about who selects what, and a request is still younger or older than its
budget. Deadlock is not checked in these runs: a delivery that is
settled with every bound spent has nothing left to do.

**Fairness of the dispatch runs.** The `ledger` run assumes none. The supervisor calls the sweep
every 2 s (weak fairness on `ReadClaimable`, `DispatchNext`); `fetch` is abandoned at
its budget and promises settle (weak fairness on `Proceed`); the clock runs (`Tick`);
`Start` and `Settle` get strong fairness: a call whose lease is taken over and over is
not stalled past its end every single time. Nothing is assumed of kicks, retries,
deaths, organizers or the kind of answer a provider gives.

### Proofs (OutboundDeliveryProofs)

For every set of deliveries, workers and tokens and every bound, under
`OutboundDeliveryAssumption` (NULL is not an identifier, the request budget is shorter
than the lease):

| Theorem | Statement |
|---|---|
| `TypeCorrectness` | `[]TypeOK` |
| `LedgerConsistency` | `[]LedgerIsConsistent` |
| `NoDuplicateLooksOriginal` | `[]NoUnmarkedDuplicate` |
| `AmbiguityIsRemembered` | `[]AmbiguityMarksLaterAttempts` |
| `SettledIsFinal` | `SettledStaysSettled` |
| `LeaseCoversOrdinarySend` | `[]OrdinarySendKeepsLease` |
| `OneOrdinarySend` | `[]NoConcurrentSubmission` |

None of the invariants is inductive alone. `LedgerInv` ties rows to calls: running
calls hold distinct tokens (`TokensInv`); a call that still owns its claim sees the head
it claimed, and its own attempt open once it started one (`CallInv`); the row
consistency; and only an attempted delivery has a bounce on record (`BounceInv`). On top
of it `MailboxInv` says that a message in a mailbox belongs to an attempt that is open,
accepted or unknown, and that an attempt's request is out in at most one call.
`ExposureInv` has the argument for duplicates: an unknown landing is counted
(`CountsInv`); while none is counted and no bounced address has been corrected, only the
current attempt may be out (`OnlyCurrentInv`); and without provider deduplication at
most one original may be out (`SingleInv`), because a second would need a dispatchable
head, which after acceptance exists only through a bounce and a correction, whose
resend is marked. `LeaseInv` gives a call younger than its budget a lease with at
least the rest of the budget to run. Each is proved preserved action by action.
`DeliveryInv`, their conjunction, was checked with TLC on the `ledger` instance before
it was proved.

### Proofs (OutboundPromiseProofs)

Under the same assumption, on top of `DeliveryInv`:

| Theorem | Statement |
|---|---|
| `EvidenceIsSound` | `[]EvidenceAgreesWithAttempts` |
| `NoAnswerIsLost` | `AnswersAreKept` |
| `AmbiguityCountIsExact` | `[]AmbiguityIsCounted` |
| `CopiesStayBounded` | `[]CopiesAreBounded` |
| `RefusalsAreCorrections` | `[]OnlyCorrectionsAreRefused` |
| `LedgerKeepsPromise` | `KeepsPromise`, that is `Promise!Spec` |
| `PromiseLimitsCopies` | `KeepsPromise => []Promise!OneUnmarkedCopy` |

Every step is first put in the terms of the rows: it starts the attempt after the last
(`Starts`), settles the open one (`Settles`), registers, corrects, or is `Quiet`: it
leaves attempts, counters and effective evidence alone (`StepCases`). On those five kinds of
step rests `PromiseInv`, which has three parts per delivery.

- `CountInv`: the counter on the head is the cardinality of the set of unknown landings,
  and an exhausted head has two of them, the later one marked. The second half needs
  the CHECK of the schema: without `CompletionAborts` a corrected resend that lands
  unknown first would exhaust a delivery with one landing.
- `CopiesInv`: the bound on copies is not inductive by itself, because a start adds a
  copy. The strengthening counts every attempt that may be out, marked or not, and
  keeps room for one more while the head is dispatchable: an original is started only when
  nothing else is out (an ambiguity would mark it), a marked resend to the reviewed address
  fills the room and, landing unknown, quarantines; accepted, the head is not dispatchable
  until a correction, which raises the bound by one. For a provider that deduplicates,
  `MailboxInv` has at most one message.
- `ResendInv`: a marked resend to the reviewed address follows a counted ambiguity, so its
  unknown landing is the second and passes the CHECK. What the CHECK refuses is a resend
  to a corrected address: the reach of the finding of `dispatch_stranded`, for every
  instance.

For the refinement, `StartIsSend` and `SettleIsEnd` map the two steps that move the
promise's variables; an unmarked send needs `exposed = {}`, which is `OriginalIsAlone`,
from `CopiesInv`. `PromiseLimitsCopies` shows that the promise is worth keeping: whatever
keeps it has at most one unmarked copy of a message out (`OneUnmarkedCopy`). `PromiseInv` was checked with TLC, with five attempts and for
both values of `NativeKey`, before it was proved.

### Proofs (OutboundDispatchProofs)

`LoopImplementsLedger` (`DispatchSpec => Spec`): a pass, a kick or a retry is a claim or
changes no row, and the rest are the ledger's own steps, so every theorem above holds
whoever calls the worker, in particular `LoopKeepsPromise`. `LoopIsTyped` is
`[]DispatchTypeOK`. `RecoveryWaitsForOwners` is `RecoversOnlyAbandonedAttempts`: a call
reaches `recovering` only through a claim, a claim needs a lapsed lease, and
`LeaseCoversOrdinarySend` gives a request within its budget a live one. `OutboundDispatchAssumption`
says that workers are passes or callers and that the order of deliveries is total.

### AgentActionRuns

| Variable | Code |
|---|---|
| `batch` | `agent_action_batches`: status, `pause_requested`, `cancel_requested`, lease owner and the ticks left of the lease and of the approval |
| `steps` | `agent_action_steps.status`, by ordinal |
| `log` | the steps whose operation is in `operation_log` |
| `call` | one `advance` call per process: its phase, chosen step, and the stop flag and expiry it read with its lease |
| `alive`, `started` | the processes that run, and those that ever ran |
| `sinceStop` | history variable: steps committed since a stop was asked for |

Actions: `Submit`, `Approve`, `Reject`, `RequestPause`, `RequestCancel`, `Resume`,
`ReconcileExternal` are the repository methods behind the HTTP routes and tools;
`AcquireLease` and `ParkExternalOrphan` are the two outcomes of `acquireLease`;
`ChooseStep`, `PauseStaleStep`, `PauseRefusedStep`, `WaitForExternal`,
`MarkStepRunning`, `CommitStep`, `SettleSafeBoundary` are the rest of `advance`, cut at
its awaits; `Throw` is every way it rejects, the authority's recheck and the executor
among them; `Restart` replaces a process by one with a
new `actionWorkerId`.

After an executor threw, its step stays `running` for as long as the process lives: the
owner renews its own lease on every call, so `acquireLease` never takes the step for an
orphan, `markStepRunning` throws each time, and the batch waits until the approval has
run out. `EveryRunStops` covers that end; `action_cancelled` shows what a cancel makes
of it.

Left out: the batch version (a control sent with a stale one is refused and changes
nothing); `lease_version` (one call per process at a time, so the owner names the call);
`current_ordinal` and `attempt_count` (reported, never read); the status `failed` with
`failBatch`, and `runStepOperationAtomically`, which nothing in the live runtime
calls — `CommitStep` is the unit of work's own `completeApprovedAgentActionStep`, with
the same guards. The plan's expiry is never before the approval's, so one of the
two is kept.

`PlanPromise` is what the approver is told (docs/agents: "Completed steps stay
completed", "Never replay completed steps"), without workers, leases or crashes.
`KeepsPlanPromise` maps a batch to its `stage` by status and stop flags, and `applied` to
`log`.

`Serialized` says whether all work goes through one process's request lane, as in the
usual deployment, or several processes share the database. The safety run takes
FALSE, which allows every interleaving TRUE allows; the live run takes TRUE.
With it FALSE `CancelTakesEffect` does not hold: `pauseStep` may write paused over
`cancel_requested`, and the batch then waits for a person.

**Bounds.** Three steps, the second external: a step before, at and after the one that
is out, so that order and remainder differ. Two processes, so that one takes over from
the other, and a third id for a restart. `LeaseTicks = 1`, `ApprovalTicks = 2`:
a lease lapses before, with and after the approval. The live run has two ticks of lease
and three of approval, so a lease can be renewed before it lapses, which is what
the step left by a throw needs. Deadlock is not checked: a finished batch has nothing to do.

**Fairness** (`FairSpec`). Weak fairness of `Acquire(w)` for a live process (the job runs
every second and catches each batch's error), of `AdvanceStep(w)` (a call's awaits
settle one way or another) and of `Tick`. Nothing of people, restarts, or how an execution
ends: an executor, or the authority's recheck, may throw every time.

### Proofs (AgentActionRunsProofs)

For every number of steps, set of processes, lease and approval length, serialized or
not, under `AgentActionRunsAssumption`:

| Theorem | Statement |
|---|---|
| `RunTypeCorrectness` | `[]RunTypeOK` |
| `CompletedStaysCompleted` | `[]LogAgreesWithSteps` |
| `StepsRunInOrder` | `[]OneStepOut` |
| `FinishedIsFinal` | `TerminalIsFinal` |
| `RunsKeepThePlan` | `KeepsPlanPromise` |

`RunInv` adds to the checked invariants `ChosenInv` (everything before a step that a call
has in hand has succeeded, even when that call has lost its lease: a step never leaves
`succeeded`, so the fact survives a takeover) and `StatusInv` (an owned batch is running
or being cancelled; which steps a cancelled, succeeded or unapproved batch can have).
`OneStepOut` needs the first when a step is started, `TerminalIsFinal` the second:
a finished batch has no owner, so every late write is fenced. The refinement needs
`StopInv` as well: once a step was committed after a stop request, the call that holds
the lease has committed, is gone, or has read the stop; so a second commit is
impossible. `RunInv` and `StopInv` were checked with TLC on the `action_runs` instance
before they were proved.

### RequestLane

`request-serialization.ts` on one thread: an action is one turn, everything between two
awaits. `held` and `pending` are the code's; `call` says of each caller of `run` whether
its lease is queued, granted (the promise is resolved, the caller not yet resumed) or
behind running work, or how the call ended; `aborted` holds the calls whose signal has
fired. Actions: `RefuseAborted`, `Take`, `RefuseFull`, `Enqueue` are the four ends of
`acquire`; `Abort` and `TimeOut` are the listener and the timer; `Enter`, `Withdraw`,
`Settle` are `run` resumed, with the release in its finally clause. A caller may call
again after it has ended. `LanePromise` is a line of callers and at most one owner;
`KeepsLanePromise` maps the queue to the line.

**Proofs** (`RequestLaneProofs`), for any callers and any limit: `LaneIsTyped`,
`LaneExcludes` (`OneAtATime`), `LaneIsTruthful` (`LaneTellsTheTruth`), `LaneIsBounded`
(`QueueIsBounded`), `LaneKeepsItsPromise` (`KeepsLanePromise`). The four invariants are
inductive together (`LaneInv`): exclusion needs that the flag is set while somebody
owns the lane, and the handover needs that every queued lease is live, so that
`grantNext` takes the head of the queue.

### ServerRuntime

Extends `RequestLane` with its callers: HTTP requests (with a signal), supervised jobs
and Airtable passes (without). `lifecycle`, `job`, `first` are the supervisor's; `sync`,
`scheduled`, `pass` the Airtable scheduler's; `server`, `startup`, `closing`, `database` the
lifecycle's; `owed` is a history variable: a wake that no pump has followed yet. A job
is `launched` before its first promise reaction and `laned` once it is in the lane. What
a request, job or pass does inside the lane is the other modules' matter; here it
begins and settles. Several requests, jobs and wakes are told apart only by identity.
The detached kick after a sign-in link does not enter the lane; it is a caller of
`OutboundDispatch`.

`ServerStops` and `ServerStopFails` are the two ends of `server.stop()`. When it rejects,
the runtime is closed all the same (`bun-runtime-lifecycle.ts:46`, asserted by its test)
and `closeStorage` waits for jobs and passes only: the database can close with a request
in the lane. What the listener does after a rejected stop is not in the repository; the
model lets it go on accepting. `DrainedBeforeClose` therefore speaks of requests only
when the listener has stopped. When the Airtable start throws, the sync counts as started
and has no sweep (`StartSyncFails`).

**Bounds** (`runtime`). Two passes, because one may be in the lane when the next timer
fires; one request and one job; two places in the queue, so that it can be full with
one caller refused. Deadlock is not checked: a closed runtime has stopped.

**Fairness**. Promise reactions and due timers run and work in the lane settles: weak
fairness of every step of a job, pass, startup and shutdown that is due; `server.stop()`
settles one way or the other. Nothing is
assumed of requests, wakes, signals, the sweep, job intervals or the lane's timers, so
no property rests on the 60 s sweep or the 30 s timeout. `WakesAreServed` assumes in
addition that the lane stops refusing passes.

**Proofs** (`ServerRuntimeProofs`), for any requests, jobs and passes:
`RuntimeImplementsLane` shows that every step is a lane step or leaves the lane alone, so
the lane's theorems carry over (`ServerWorksOneAtATime`, `ServerLaneIsTruthful`,
`ServerQueueIsBounded`, `ServerKeepsLanePromise`); `RuntimeIsTyped`; and
`RuntimeIsDrained` (`DrainedBeforeClose`), from `RuntimeInv`: whoever is inside the lane is
accounted for (a request by a listener that has not stopped, or whose stop was rejected,
a job or pass by its entry in flight: `Accounted`), and after close nothing is scheduled and nothing starts
(`ClosingInv`).

### WorkspaceTeamD1

| Variable | Code |
|---|---|
| `member` | `workspace_memberships` with the workspace role assignment |
| `invitation` | `access_reservations` with recipient and role, by address |
| `head` | `workspace_team_heads`: version and digest |
| `log` | `operation_log`: key, request hash, result |
| `live`, `stamp` | the session rows that are not revoked, and the `expires_at` written in each |
| `expired` | whose `expires_at` the clock has passed; no row changes with it |
| `phase`, `asked`, `authority`, `seen`, `attempts` | one `executeDirectAudited` call: where it awaits, its key and request, what its recheck and its planning have read, the conflicts met |
| `signIn` | one `ensureAuthPrincipalProvisioned`: phase and evidence |

A digest stands for what it is computed from. `Authorise`, `Preflight`, `Recheck`,
`Relook`, `ReadTeam`, `Plan` are the reads in the order of the code; other calls act in
between. `Commit`, `BatchFails`, `Conflict` are the outcomes of the one batch: all
predicates hold and the writes go through (the answer may still be lost, and the
caller sees a failure), a constraint that is no predicate fails, or a predicate fails
and the attempt is repeated. `Draft` and `Resend` are the client, with the version and
digest of the team it was shown. The reads of one authority check are one step: each is
guarded again in the batch. `Torn` is the second planning batch finding other rows than
the first, which throws and is not retried. `ReadMembership`, `ReadReservation`,
`CommitSignIn` are a sign-in. Sessions belong to the authentication library and are
external: `RenewSession` writes a new expiry, `RevokeSession` deletes the row, and
`ExpireSession` is the clock alone.

The clock is compared with a session's expiry only when the authority is checked
(`d1-operator-authority.ts:128`); the predicate in the batch compares the stored expiry
with what was read (`:144`). So a session revoked or renewed between check and batch
stops the batch, and one that runs out in between does not. Role assignments and
permission overrides with an `expires_at` are treated the same way by the code and have
no expiry in the model.

The SQLite repository does the same planning inside one transaction and advances the
head after a sign-in; the D1 sign-in does not (`team_head`). From then on the team cannot
be read, so the promise of the module is one about what is applied, and it is kept
in that state as well.

`TeamPromise` has every operation as one step, on the very team the actor was shown, by
an actor who may manage the team at that moment through a session nobody has revoked.
That the session has not run out it promises of the check: `Vouch` needs a current
session, `Operation` a key that was vouched for. `vouched` is mapped to the keys of the
calls inside an attempt.

**Bounds** (`team`). Two owners, a manager by permission override (somebody who may
remove an owner without being one) and a guest with no, an open or a revoked
invitation; two calls with two keys, which is one call beside another, a resend, or the
same key with a changed request; two attempts and one renewal of a session, so
that a conflict can be met with and without a cause in the team and the attempts can
run out; one sign-in. The cfg's
`Intents` pick the wishes that meet: both owners' roles, and every action on the guest's
invitation. Deadlock is not checked: everybody answered is the end.

**Fairness**. The database answers each statement or fails it, and the worker goes on;
a sign-in that has begun goes on. Nobody need ask, sign in or keep a session.

**Proofs** (`WorkspaceTeamD1Proofs`), for all people, keys, calls, sign-ins and limits, under
`TeamAssumption`: `TeamIsTyped`, `OwnerRemains`, `ReceiptsMatch`, `AnswersTrue`,
`ConflictsAreSettled` and the refinement `TeamKeepsPromise`. The invariant `IInv` says when
the team can be read (`RowsOK`: always, except when a listed invitation was used by a
sign-in, and then never again); that the team of a draft is the current one or an older
one (`DraftOK`), so `head = seen` at the commit means nobody committed in between; that
what an attempt has planned was plannable on the team it saw (`PlanOK`), from which an
owner remains; that an attempt has found its actor authorised, and that the membership row it read is
still the current one as long as the draft's team is (`AttemptOK`); and why each conflict happened (`ConflictOK`): a request whose
team is gone or whose key is used ends before it is planned again, so only renewals of
the actor's own session can cause a second conflict.

### Only model-checked

Every invariant, action property and refinement of a passing run is a theorem. What TLC
alone checks is liveness: `OnlyTheSchemaStrands`, `PassesFinish`, `EveryRunStops`,
`CancelTakesEffect`, `WaitersAreServed`, `WakesAreServed`, `ShutdownCompletes` and
`EverybodyIsAnswered`. Liveness under fairness is outside this prover's reach, as are
ENABLED, induction over data and anything behind a RECURSIVE operator.

## 4. Not modelled

- The native-key and lookup-reconciled provider profiles beyond the resend rule:
  no composed provider uses them.
- `runOnce`'s results and faults: they change no row.
- Wording, digests, receipts, contents and templates of messages.
- Two concurrent corrections: they run in one unit of work each and are serialized.
- The ordinary profile of the effect executor, autonomy preflight and feature
  contributions; the SQLite unit of work, where one transaction leaves nothing
  to interleave.
- Role assignments and permission overrides that run out.
- What an Airtable pump does inside its pass, participant grants and challenges, the
  approval of people under review.
- The filesystem protocol of classified payload staging, the reliability, inbox and
  continuation trials outside the live composition, migrations, files, and the
  programme's aggregates, each a state machine of one row under an optimistic version.
- Components that keep no state: contracts, kernel, adapters, user interface, sites.
  They are most of the repository's lines; the mapped lines are a small share of
  the whole for that reason.

The external delivery key that an address-corrected resend shares with the original
would matter for a provider that deduplicates on it; none is composed. The address a
corrected attempt's synchronous bounce suppresses is a hazard without a property;
`PROJECT.json` says why. No operation of the live catalog is reconcilable, so a resumed
reconcilable step is modelled and not judged.
