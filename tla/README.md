# TLA+ verification of bike4mind: generation jobs, credits, sign-in sessions and agent runs

Bike4mind is a monorepo (`apps/`, `b4m-core/`, `packages/`, `infra/`) around a
chat and media product: a Next.js client and API, Lambda or self-hosted queue
workers, MongoDB, SQS, and a CLI, desktop program and SDK. This directory models
the parts where queues, crashes, several actors and money or side effects meet:
the **generation jobs** (video and music), their **creation**, and the **credit
holds** that pay for them; the **rotation of refresh tokens** that keeps a sign-in
session alive in several tabs and over a lossy network; and the **agent runs** that
fan out over child executions, and that stop to ask before they call a tool. What
is not modelled is listed, with reasons, at the end.

Paths in this file are relative to the repository root. Short names:
`engine.ts`, `createJob.ts`, `sweep.ts`, `settlement.ts` are in
`b4m-core/services/src/generationJobs/`, `creditHold.ts` in
`b4m-core/services/src/creditService/`, `GenerationJobModel.ts` in
`packages/database/src/models/ai/`, `rotateSession.ts` in
`b4m-core/services/src/authSessionService/`, `AuthSessionModel.ts` in
`packages/database/src/models/auth/`, `refreshCoordinator.ts` in the client;
`agentExecutor.ts`, `agentExecutorDag.ts` and `agentExecutorUtils/toolPermissions.ts`
in `apps/workers/src/queueHandlers/`, `coordinateTask.ts` in
`b4m-core/services/src/llm/tools/implementation/`, `AgentExecutionModel.ts` in
`packages/database/src/models/billing/`, `agentExecute.ts` in
`apps/client/server/websocket/`.

## 1. Inventory

| Component | State it keeps | Operations | Talks to |
|---|---|---|---|
| Job engine (`engine.ts`, `backoff.ts`, `types.ts`) | none of its own; the job document | `step`, `requestCancel`, `failBeforeStart` | repository, queue, handler of the job's kind |
| Job repository (`GenerationJobModel.ts`) | one document per job: state, lease, claim, flags, dates | `createJob`, `acquireLease`, `markSubmitAttempted`, `commit`, `requestCancel`, `claimTerminalHandling`, `markTerminalHandled`, `recordSettlement`, `findStalled`, finds | MongoDB |
| Queue worker and cron (`apps/workers/src/queueHandlers/generationJob.ts`, `cron/generationJobSweep.ts`) | the message in flight | `dispatch`, the sweep every 5 minutes | SQS, engine |
| Video and music handlers (`videoJobs/`, `musicJobs/`) | none; the payload of the job | `submit`, `poll`, `store`, `cancelAtProvider`, `onTerminal` | provider, file storage, settlement |
| Settlement (`settlement.ts`) | `settledCredits` | `releaseJobHold`, `settleJobHold` | credit holds, repository |
| Job creation (`createJob.ts`, `createVideoJob.ts`, `createMusicJob.ts`) | none; the new job and its hold | replay lookup, hold, persist, recover, enqueue | credit holds, repository, queue, engine |
| Credit holds (`creditHold.ts`) | `currentCredits` of a user or organization | hold, release, settle | user and organization repositories |
| New-account spend cap (`newAccountSpendCap.ts`) | settings, spend samples | check | credit holds |
| Request reservations (`apps/client/server/billing/reserveRequestCredits.ts`) | durable holds of synchronous requests | reserve, settle, expire | credit holds |
| Session rotation (`authSessionService/rotateSession.ts`) | refresh-token family of a session | rotate, replay, recover, condemn, refuse | session repository, user repository, the browser's refresh coordinator |
| Provider limiter (`llm-adapters/_anthropicSemaphore.ts`) | permits and waiters of one process | acquire, release, abort | LLM adapters |
| Shared cache (`CacheModel.ts`) | locks, counters, marks | take, renew, release, dedupe | most services |
| Self-host worker (`apps/workers/src/selfhost/`) | polling loops and messages in flight | receive, dispatch, delete, drain | every queue |
| Idempotency middleware | stored responses | get, process, set | cache |
| Signup grants, Stripe billing | grant schedules, budgets, purchases | stage, release, claw back | users, ledger |
| Agent DAG fan-out (`agentExecutorDag.ts`, `coordinateTask.ts`) | one execution document per node; `dagSpec` of the parent | create and dispatch children, the completion hook, aggregation | the executor, the execution repository, the agent queue |
| Agent pauses (`toolPermissions.ts`, `agentExecute.ts`) | `pendingPermission`, `pendingGate`, status | park, approve, deny, gate responses, replay, abort | the executor, the owner's tabs, the queue |
| Agent executor and repository (`agentExecutor.ts`, `AgentExecutionModel.ts`) | the execution document: status, abort flag, checkpoint | claim, iterate, hand off, finish, sweeps | both of the above, LLM, tools |
| Ingestion, data lakes, model discovery | batches, slices | queue handlers | queues, storage |
| Web client, API routes, CLI, desktop, SDK, LLM adapters, infrastructure | | user interface, wiring, wire formats | the services |

`PROJECT.json` lists each with its sources and status.

**What is hard.** Messages are delivered at least once, may be lost, late or
early, and a failed send may have landed. A worker may die at any await, and
where there is no hard kill it may also outlive its lease. The provider's answer
to a submit may be lost, after which nobody knows whether a generation is being
billed. The owner may cancel at any moment. Credits move in two unconnected
writes (balance, then document), and none of these operations runs inside a
transaction: what safety there is comes from the filters of single-document
writes and the order they are made in. Agent runs add several actors on one status
field that most writes set without asking: executors, the completion hooks of
sibling nodes, the tabs of the owner, an abort command of several writes, and the
sweeps. `PROJECT.json` lists the hazards with
their lines.

**What makes it correct.** A job is stepped by one worker at a time; the
provider generates at most once for it; a cancel that was accepted is kept; its
hold moves once and as its final state says; a terminal job stays terminal; a
job is always brought to its end or a person is called. A request's credits are
reserved only when they are there, never minted, never lost without a trace; a
retry with the same key gets the same job. A browser that lost a response keeps
its session; a token that was copied collides with its owner's and ends it; a
superseded token is never handed out. A decomposed task starts each node after what
it depends on, runs it in one place, gathers the results when all have ended, and is
woken then; a tool call that needs permission runs once, after its own yes, and not
after a no; an abort ends a run for good. Not all of this is true of the code without
conditions: the properties say under which it is, and section 5 where it is not.

## 2. The modules

| Module | What it is |
|---|---|
| `GenerationJobRepository` | The job document and, as operators, the filter and update of every write: `Leasable`/`Leased`, `CanMarkSubmit`/`SubmitMarked`, `LeaseGuard`/`UnstartedGuard`/`Released`, `Cancellable`, `Claimable`, `Stalled` |
| `GenerationJobs` | The engine, its workers, the creating request's tail, the owner's cancel, the sweep, the queue, the provider and the clock. Extends the repository |
| `JobContract` | Abstract: what a job promises from outside, with no lease, queue or sweep |
| `JobCreation` | Concurrent create requests of one owner over one balance; a job's later life is `JobContract`, by `INSTANCE` |
| `CreditPool` | Abstract: atomic reservations that end once |
| `SessionRotation` | One session: its row, the cookie jars of the browsers that hold its token, the exchanges in flight and what time does to them |
| `AgentDag` | The `coordinate_task` fan-out: the parent's executor, the handlers of its children with their completion hooks, the queue, the abort command and the sweeps |
| `ForkJoin` | Abstract: what a decomposed task promises |
| `AgentPause` | One run that stops to ask: executors, the owner's responses from several tabs, the abort command, the sweeps |
| `MCGenerationJobs`, `MCJobCreation`, `MCSessionRotation`, `MCAgentDag`, `MCAgentPause` | Symmetry, small inputs and state constraints for TLC |
| `GenerationJobsProofs`, `EngineSafetyProofs`, `JobCreationProofs`, `CreditProofs`, `SessionRotationProofs`, `SessionReuseProofs`, `AgentDagProofs`, `AgentPauseProofs` | Theorems and proofs |

`GenerationJobs` implements `JobContract` (property `KeepsContract`), and
`JobCreation` builds on that contract instead of on the engine, so the two halves
meet at one abstract interface. `JobCreation` implements `CreditPool`
(`KeepsCredits`). `AgentDag` implements `ForkJoin` until the parent is aborted or the
run goes astray (`KeepsPromise`, section 2.4); `ForkJoin` knows of no queue, hook, sweep
or status.

### 2.1 `GenerationJobs` and the code

One variable holds the stored documents (`job`), one the messages waiting
(`queue`), one the local state of every process (`run`: where it is, the document
it read, the result it carries, whether it holds a lease). `prov` and `gens` are
the provider's side. `charges`, `refunds`, `alarmed` and `leaked` record what
happened for the properties; no guard reads them.

Every `await` on the database, the queue or the provider is an action, so another
process can run between any two. The processes are the workers and, for each job,
the request that created it.

| Code | Actions |
|---|---|
| `persistAndEnqueueJob` from its first send | `EnqueueFirst`, `EnqueueFirstFails`, `FailBeforeStart` |
| `dispatch`, `step` up to the lease | `Acquire`, `SkipDelivery` |
| the branches of `step` | `Step` by `Branch` |
| `aiAccessDenial`, `submit`, `callSubmit` | `CheckAccess`, `MarkSubmit`, `ProviderAccepts`, `SubmitRejected`, `SubmitReturns` |
| `runStep` | `Poll`, `Store` |
| `cancelIfRunning`, `bestEffortCancel` | `Conclude` picks it, `StopProvider` does it |
| `apply`, `advance`, `toTerminal`, `commitStep` | `Commit` writing `Applied`, then `Send` or `SendFails` |
| `finishTerminal` and `onTerminal` | `Claim`, `Settle`, `RecordSettlement`, `MarkHandled`, `Release` |
| `requestCancel` | `RequestCancel` |
| the sweep | `Sweep` |
| the environment | `Crash`, `LoseMessage`, `BecomesDue`, `DeadlinePasses`, `LeaseExpires`, `ClaimAges` |

Abstractions, and why they keep the behaviour:

- `kind` keeps of a job's kind what the engine asks of it: its handler's
  `submitMode`, whether submit is the whole provider call (sync), and whether the
  provider of an asynchronous job has a cancel (async) or not (nocancel: xAI,
  `XaiVideoProvider.ts:256`, and Veo, `VeoVideoProvider.ts:130-132`). A cancel that
  cannot be called for want of an API key, or fails, is not counted as a fault: it may
  happen to any job, and `leaked` records it.
- `Claim` reports by the claim it read off the leased document and the clock as it is
  then, as `reportUnclaimable` does.
- A poll may find a generation that ended before an earlier poll whose answer was lost.
- Dates become what the filters compare: a lease is expired or not, `nextPollAt`
  is null, ahead or reached, `deadlineAt` is past or not, a claim is fresh or older
  than a lease. Time actions change them whenever they may. The lease token, a
  millisecond date in the code, is the worker that took it; two leases of one job
  in the same millisecond are assumed not to happen.
- `HardKill` is the order worker timeout < lease that `infra/queues.ts` and
  `wiring.ts` document: while a step runs, its lease does not expire, and while
  its settlement runs, its claim does not grow old. It is `FALSE` for the
  self-host runner, which has no hard kill.
- A delivered message may stay in the queue, which stands for duplication and for
  the redelivery after a throw or a crash alike.
- `run[w].doc` is the document as leased or committed; decisions use it, and never
  the stored one, exactly where the code uses `job`.
- `requestCancel` asking a second time after a refusal is a second occurrence of
  the action. The branch for an unregistered kind and the throw for a missing time
  budget leave the job as it was and are left out, as are notifications, progress,
  poll counts and back-off lengths.
- The sweep may re-enqueue a stalled job at any time: its delay, batch limits and
  order are left out.

### 2.2 `JobCreation` and the code

A request is a process; its job carries the same name, since `createJob.ts` picks
the job's id before the insert. `Asks` is what may be asked for: a key, a body, a
cost. Each call that changes state has an action in which it works and one in
which it fails with or without its effect (`HoldFails`, `RollbackFails`,
`InsertFails`, `ReleaseFails`, `SettleFails`, ...), plus `Crash` anywhere.
`InsertFails` includes the driver retry that meets the key of its own first try.
`lost` counts the credits such a failure takes from the owner; the code logs most
of these cases for manual repair.

Admission (models, plans, quotas, member cap, new-account cap) is one refusal that
may or may not happen. An insert has landed or not by the time its error is seen.

### 2.3 `SessionRotation` and the code

`row` is the `AuthSession` document, `jar` the secret in each browser's cookie,
`call` the slots for exchanges in flight: where a call is, the secret it
presented, the secret it minted, whether its browser still waits, the answer.

| Code | Actions |
|---|---|
| `withCrossTabLock` and the fetch in `refreshCoordinator.ts` | `Start`, `GiveUp` (10 s), `Deliver`, `LoseResponse` |
| `rotateSession` up to the first branch | `Read` |
| `rotateHash` and its loss | `Rotate`, `Reread` |
| `recover`, `recoverRotateHash` and its loss | `Recover`, `RereadRecovery` |
| `finish`, `registerReplayUse` | `Finish`, `Replay` |
| `revokeAsTheft` | `Condemn` |
| `requireNonSystemUser`, `refuseBlockedRotatedSession` | `Serve`, `Refuse` |
| sign-out, expiry, an admin | `RevokeElsewhere`, `Expire`, `ChangeAccount` |
| the environment | `Crash`, `CloseWindow` |

Abstractions:

- A hash stands for its secret, and a new secret is one that nobody holds. Secrets
  matter only by who holds them, so a secret that everybody has forgotten may be
  minted again; this keeps the set finite over any number of rotations.
- Clocks are replaced by the order they enforce. `Timely` is that order: a call
  lives at most the 60 s of the Lambda timeout (`infra/web.ts`), a browser waits
  10 s, a grace window stays open 120 s from the first read of the call that opened
  it. So calls in flight when it opened, and those begun while the browser still
  waited for its opener (less than 10 s later), end before it closes; `age` records
  which calls these are. With `Timely` false, windows close whenever they like, as
  they may where no hard limit ends a call (the self-host server).
- `Locks` are the browsers with Web Locks, whose tabs take turns; in the others
  every tab may call. Initially one to `MaxHolders` browsers hold the session's token:
  more than one means that it was copied (`Alone` is false).
- `overtaken` counts how often another call advanced the chain while this one ran;
  only one property reads it.
- A user is usable, blocked, deleted or a system account. The last two refusals come
  after the exchange: a blocked user loses the session, a system account
  (`refreshToken.ts:95`) is answered 403 and keeps it. A user becomes a system account
  by a hand-made change of its document only.
- An answer nobody waits for ends the call. Left out: the access token that is
  minted with the answer, device and audit fields, step-up state, the legacy
  migration path, in-tab sharing of one promise, back-off between attempts.

### 2.4 `AgentDag` and the code

`status`, `flag` and `msgs` are the children's documents (status, `abortedAt`) and
their messages in the agent queue; `parent`, `pabort`, `spec`, `pmsgs` the parent's;
`pc` is where the parent's executor is. `at`, `on` and `todo` are the handlers of
child messages: `todo` is what a hook has read and still has to do.

| Code | Actions |
|---|---|
| `coordinate_task` (`coordinateTask.ts:337-380`) | `FanOut`, which may fail after some sends |
| the end of the iteration (`agentExecutor.ts:3382-3400`) | `PersistSpec`, then `Wait`; or `LoseSpec`, where it fails the run instead (`3294-3304`, `3371-3378`) |
| `selfDispatchContinuation`, before an iteration or at its deadline (`3183-3238`) | `Handoff` |
| the ends of a run | `Finish` |
| `processExecution` up to the claim | `Continue` |
| `buildDagResumeReport` and its caller, `clearWaitingOnDagChildren` | `Aggregate`, `Clear` |
| `processSubagentDispatch` | `Take` (abort check and claim), `End` |
| `onDagNodeTerminal` | `Hook` (one read of all siblings), `Sweep`, `Dispatch`, `Wake` (one write or send each); `HookFails` |
| `findCascadeDoomed` run to its fixpoint, `findReadyTasks`, the all-ended test | `Doomed`, `Ready`, `AllEnded` |
| `handleAbort` | `AbortRead`, `AbortFlag`, `AbortMark`, `AbortList`, `AbortNode` |
| the sweeps | `ReapParent`, `ReapChild` |
| the environment | `ParentStops`, `Kill` |

`Doomed` is the least closed set, without iteration, and is what the code's repeated
passes reach. The results, the reports and the credits of children are left out: a
child ends completed, failed or aborted. The abort flag is read before the claim in
`Take` as one step with it; an abort in between is as one after it, since the claim
does not look. `Leftover` stands for children of an earlier `coordinate_task` of the
run whose node ids this one uses again. A continuation may be delivered again, at any
time later, as a fault.

Two history variables, which no guard reads, say where a property stops to hold.
`early` is set when a child ends before the parent waits. `astray` is set by the three
things after which a fan-out may break its promise: a continuation is delivered again
(the claim has only the status to tell them by), a hook meets a name of an earlier
decomposition (nodes are dispatched to the old child), or a hook has to sweep a node
with `onFailure: 'isolate'` (which then counts as satisfied for the next hook).
`KeepsPromise` holds for any decomposition and any history until the first of them;
that they do break it is told in section 5.

### 2.5 `AgentPause` and the code

`status`, `aborted` and `pending` are the run's document: of `pendingPermission` the
model keeps the call on the card, the batch withheld with it, and whether it is
approved. `pc`, `mem`, `held` are the executors; `pos`, `seen` the responses under
way; `sent` the dispatched invocations, any of which may be delivered again. `ran`,
`shown`, `yes` and `denied` record calls executed, cards, answers and accepted denials;
`shown` only says which card an owner may answer, and no guard reads the others. An
owner may answer any card at any time, also one that is not asked any more;
`MaxRetries` bounds how many of these answers get past the handler's first checks.

`late` is history too: it is set when somebody acts on a pause or a status that has
moved on since it was read. These are the acts: a flip to `continuing` of a run that is
past it, or whose pause is not the approved one the response is about
(`agentExecute.ts:509`); a claim after which another pause than the one read is the
approved one (`agentExecutor.ts:2861` uses the document of line 990); an approval that
read no pause, because it came between `Park` and `Save`, and is therefore not pinned
to a call (`AgentExecutionModel.ts:1579` says a call id is omitted only for old
documents; this window is a second case); a restore over a pause that is another; a
stop of a run that does not stand at a gate. `OnceUnlessLate`, `OnlyApproved`,
`DenialStops` and `ApprovalHonoured` promise their part until then.

| Code | Actions |
|---|---|
| `processExecution` up to the claim, `claimExecution` | `Load` of an invocation, the first or again; `Claim` |
| the top of an iteration, its tool calls, its ends | `Check`, `Withhold`, `Handoff`, `Finish` |
| `settleGatedCall` | `Refuse`; or `Park` then `Save`, two writes |
| `resumeApprovedPause` | `Replay` or `ReplayFails`, `Clear` |
| `setPendingGate` | `Gate` |
| `handlePermissionResponse`: yes | `Approve` (read), `Mark` (compare-and-swap), `Reread`, `Flip`, `Send` or `SendFails` or `Rejected` |
| the same: no | `Deny` (read), `RefuseIt` (compare-and-swap) |
| `handleGateResponse` | `AnswerGate`, `ClearGate`, `Flip` and `Send`, or `StopAtGate` |
| `handleAbort` | `AbortRead`, `AbortFlag`, `AbortMark` |
| the sweeps, including the abandoned ones | `Sweep` |
| the environment | `Stops`, `Dies` |

`Rejected` puts back the pause as the response read it; where it had read none, the
`$set` of an undefined field leaves the approved pause in place. `Sweep` waits until
nobody is at work: the code's thresholds (20 minutes and more) exceed any Lambda. A
replay that fails may have had its effect.

## 3. Runs

`w1`, `w2` are workers. A job's kind, async or nocancel (video) or sync (music), is
chosen with its document, so a run with all `Kinds` covers each. Jobs share nothing but the
workers and an owner's balance, so one job per run is enough for the engine; two
workers suffice for a holder and its successor, and the
creating request is a third actor. `MaxStepAttempts = 2` gives a retry and a last
attempt. `MaxQueue` bounds messages kept per job (further ones are absorbed, which
is sound because a message may be delivered any number of times). `MaxFaults`
bounds crashes, failed sends and lost messages together.
Deadlock is not checked: a handled job with its clock run out has nothing left to do.

| Run | Question | Result |
|---|---|---|
| `jobs_safety` | Is the engine safe for a job of each kind: two workers, two faults, `HardKill`? | holds: `TypeOK`, `OneHolder`, `AtMostOneGeneration`, `WriteAheadSubmit`, `CancelPromise`, `HandledMatchesState`, `RefundedIsStopped`, `NeverStranded`, `AlarmedIsLeft`, `KeepsContract` |
| `jobs_stalls` | What survives workers that outlive their lease? | `SettledAtMostOnce`, `TerminalIsFinal` hold for a video job (1.7M) |
| `jobs_live` | Does every job end? | `EventuallyHandled` holds for both kinds with a fault (709k) |
| `jobs_selfhost` | Does `TerminalIsFinal` hold for a music job without a hard kill? | violated, see section 5 |
| `creation` | Two requests that may share a key with three faults, or three requests racing for a balance that covers two of the small ones or none of the large with one fault | holds: `TypeOK`, `CreditsAccountedFor`, `AnswersAgree`, `NoHiddenJob`, `KeepsCredits` |
| `creation_refusal` | Is a hold refused only when the credits are not there? | violated, see section 5 |
| `session_safety` | One browser, with Web Locks or without, three calls and three faults; or two holders of one token, or a session that is revoked or expires and whose user is blocked or deleted, with two of each | holds: `TypeOK`, `CookieUsable`, `HandsOutCurrent`, `RecoveryDiscardsUndelivered`, `CondemnedOnlyIfOvertakenTwice`, `RevokedOnlyIfStale`, `CappedOnlyIfSpent` |
| `session_live` | Does a browser that lost a response get its session back, and does a copied token end the session? | `LostResponseRecovers`, `CollisionEndsSession` hold (747k) |
| `dag` | Does a fan-out keep its promise, wake its parent and obey an abort: three nodes joined or in a chain, with nodes whose failure stops the others and nodes whose failure does not in any order, two handlers, one fault (a repeated continuation is one), or an abort? | holds: `TypeOK`, `OneRunner`, `AbortedNotResumed`, `KeepsPromise`, `Wakes`, `AbortEnds` |
| `dag_wake` | Is a waiting parent always woken? | violated, see section 5 |
| `pause` | Does a withheld call run once and only after its yes, and is a denial final, until somebody acts late; is an abort final and an approval honoured: two calls, two executors, two responses at once, one of them repeated, one gate, an abort, two faults (repeated deliveries among them), combined as `Bounded` says? | holds: `TypeOK`, `OnceUnlessLate`, `OnlyApproved`, `DenialStops`, `AbortEnds`, `ApprovalHonoured` (496k) |
| `pause_resume` | Is a repeated response safe? | violated, see section 5 |

Three call slots are needed for one browser (a call that rotates, one it overtakes, and a
third that overtakes both); two are enough where what matters is a browser and its
rival or a lost response and its retry. There are always more secrets than are held
at once in the states reached, so minting is never blocked. Both allowances are 2 in
the safety run, enough to use, to spend and to exceed; `session_live` has one
recovery and one fault, and with more lost responses than recoveries
`LostResponseRecovers` fails, as the code intends. `MaxFaults` counts crashes, lost
responses, browser timeouts and failed writes. Deadlock is not checked: a revoked
session whose calls have ended may rest.

`CookieUsable`, `RecoveryDiscardsUndelivered`, `HandsOutCurrent` and
`CappedOnlyIfSpent` are violated when `Timely` is false: these guarantees lean on
the order of the three timeouts, which no code asserts. And
`CondemnedOnlyIfOvertakenTwice` is tight: with tabs that do not take turns it fails,
and with tabs that do, an exchange the browser abandoned and that two later ones
overtake does present a stale secret and ends a healthy session as theft.

Without `HardKill` the engine's other properties fail, as they must: for a video
job `WriteAheadSubmit`, `RefundedIsStopped`, `AlarmedIsLeft` and
`AtMostOneGeneration`, for a music job also `HandledMatchesState`, `NeverStranded`,
`CancelPromise` and `TerminalIsFinal`. This is the precise content of the comment
in `infra/queues.ts` that the ordering of the timeouts must be kept: the fence on
`commit` and the terminal claim hold alone, everything else leans on the kill.

Four runs carry a state constraint that names combinations of bounds, so that one
run covers several instances: `Bounded` in `MCJobCreation` (three requests only where
they merely compete for the balance), in `MCSessionRotation` (three calls and three
faults only for one untouched browser) and in `MCAgentDag` (an abort and a fault not
in one behaviour) and in `MCAgentPause` (a second fault only without an abort, a
repeated response or a late act; a repeated response not with a late act; once both
calls are withheld, no abort and no late act, and one of the gate, the repeated
response and a fault). `InOrder` in `MCAgentPause` stands for the symmetry of the two
calls, which a run with liveness properties cannot declare: the one that is withheld
first is `c1`. Liveness is checked of the
behaviours that stay within the bounds: in `dag`, `Orderly` excludes faults where an
abort must end, so nothing is lost; in `pause`, an abort or a late act of a run that
goes on to withhold its second call is left to the invariants proved in section 4.

In `dag`, three nodes are the least with a join and with a chain whose middle node is
both a dependent and a dependency; two handlers are two siblings that end together;
messages are bounded by the hooks, so their counters need no bound. `Wakes` and
`AbortEnds` are conditional on `Orderly` (no fault, and no child ended before the
parent waited), because otherwise they are false of the code: the first is the
finding of `dag_wake`, and a killed child or parent may leave the parent waiting,
since no sweep takes `awaiting_dag_children`. `pause` has two calls for a batch
of which one is approved, two tabs for a yes against a no or against a stop, one answer
to what is not asked any more, and two faults for a rejected dispatch followed by a
failure or a repeated delivery.

The checked fan-outs have no `Leftover`: with names of an earlier decomposition nodes
are dispatched to the old child and `Wakes` fails, which no doc speaks of. `PromiseKept`
(section 4) covers such runs up to the first hook that meets such a name.

Every property of a passing run has a mutant in `PROJECT.json`, a plausible bug in
a modelled definition, that makes TLC report it.

**Fairness.** `FairSpec` assumes weak fairness of: the creating request; each
worker's steps (Lambda keeps invoking while the queue has messages); the terminal
handling of each process; the sweep of each job (the cron runs every five minutes,
and its limits rotate); and time. It assumes nothing of the owner's cancel, of
crashes or of any single delivery: a message may be lost and a worker may die, and
then the sweep is what brings the job on. Weak fairness is enough because a worker
that has work stays enabled until it does it.

The sessions' `FairSpec` assumes that a call runs or dies, that a browser whose
access token has run out exchanges again (the 401 handler and the next page load do
it), and that grace windows close. Which slot a call takes is not fair: a browser
gets one eventually. Losing responses, giving up and dying are bounded by
`MaxFaults` and never fair.

In `AgentDag` weak fairness is of each step of a parent's executor and each handler
(Lambda runs them, and the queue delivers), of an abort command that has begun, and of
the hourly sweep; not of `FanOut` or `Handoff`, which the model decides, nor of any
fault. In `AgentPause` it is of executors, of responses that have been sent, of the
abort command and of the sweeps; the owner may never answer, and then `Sweep` ends the
run.

## 4. What is proved

TLAPS checks these for every value of the constants, under the modules' named
assumptions (`NoneAssumption`, `AttemptsAssumption`, `JobsAssumption`,
`BoundsAssumption`, `CreditsAssumption`, `RequestsAssumption`, `SessionAssumption`,
`DagAssumption`, `PauseAssumption`). Every invariant and every action property that a
passing run checks is stated by one of them.

- `TypeCorrect`: `Spec => []TypeOK`. `TypeOK` is not inductive: that a
  running process works on a job, that a request never holds a lease, and that a
  retry which reaches its commit has an attempt left are needed at the writes, so the
  invariant `TypeInv` adds `ProcOK`, which says so of every process. The interesting field is `attempts`: `Conclude` turns the
  last allowed retry into a failure, so `0 .. MaxStepAttempts - 1` is never left.
- `SettlesOnce`: `Spec => []SettledAtMostOnce`, whether or not workers are killed.
  The invariant `OnceInv` says where the right to settle is: nobody has settled and
  the claim is free; or one process is between its claim and its settlement; or the
  claim is taken and nobody is there. A claim is never given back, and `Settle` is
  only reached through `Claim`.
- In `EngineSafetyProofs`, for the engine under `HardKill`: all its other invariants
  (`OneHolderAlways`, `GeneratesOnce`, `SubmitIsRecorded`, `CancelIsHonoured`,
  `SweepReachesAll`, `HandledIsSettled`, `RefundStopsProvider`), that once the stuck
  alarm is raised no run of the engine settles the job any more (`AlarmsAreFinal`), that
  terminal states are final (`FinalStates`), and that the engine implements
  `JobContract` (`ImplementsContract`: `Spec => KeepsContract`), for any jobs, workers
  and bounds. The assumption is needed: without it each of them fails for one kind or
  the other (section 3). `Inv` has four layers, each proved with the help of the earlier
  ones. `LeaseInv`: a worker that steps a job has the stored lease, and it has not
  expired; this is where `HardKill` enters. `StateInv`: so the document a worker read
  still says what is stored (but for the state its own sync submit set), which bounds
  the results it may carry to the commit (`Outcomes`), and a job that carries no submit
  record has never been generated. `ProviderInv`: a job that is given up has first been
  stopped at the provider, where the provider can be told. `HandlingInv`: one process handles a final job, it settles by
  the stored state, and a claim only gets old when nobody is handling. `NextSeen` then
  says what an owner sees of each step: nothing, a move of one job, an accepted cancel,
  or a settlement; the refinement and `FinalStates` follow from it. `FenceSuffices`
  needs no kill: if no kind is sync, terminal states are final whoever outlives its
  lease (`jobs_stalls` on a small instance). Its invariant `FenceInv` says that a worker
  which still has the stored lease has read the stored state, and that only a document
  in flight gets past `step`'s dispatch; every write of a state clears the lease.
  `jobs_selfhost` shows that a sync kind does not have this.
- `NothingHidden`: `Spec => []NoHiddenJob`, and `RetriesAgree`:
  `Spec => []AnswersAgree`, for `JobCreation`. The invariant `Inv` says where a
  request's job can be at each point of its code (`Sound`) and that the unique index
  lets one job hold a key (`OneHolderOf`). The balance plays no part.
- In `CreditProofs`, for `JobCreation` with any finite set of requests and any costs:
  `NoCreditsMade` (`[]CreditsAccountedFor`), `CreationTypes` (`[]TypeOK`) and
  `HoldsReserve` (`Spec => KeepsCredits`, the refinement of `CreditPool`). The invariant
  `Ledger` adds to the equation what keeps it going: a job is charged and given its hold
  back at most once each, and not before it exists; and the pool, that is the balance
  with the overdrafts about to be rolled back, is never short of more than failed calls
  have lost. `Effect` lists the few ways a step may move the credits of one request,
  and every action is one of them; both the ledger and `CreditPool`'s next-state
  relation follow from `Effect`. The sums are over all requests. The library has no
  theorem about `SumFunction`, and a lemma that recurses over data cannot be cited here,
  so `SumIsUnits` shows a sum to be the number of units in a finite set, by taking a
  least subset for which it is not; that changing one request changes the sum by as
  much (`SumChange`) is then a fact about cardinalities.
- For `SessionRotation`, with any number of browsers, calls, secrets and faults:
  `TypeCorrectness` (`[]TypeOK`) and `OnlyStaleRevokes` (`RevokedOnlyIfStale`)
  hold whatever the clocks do; `HandedOutIsCurrent` (`[]HandsOutCurrent`) under
  `Timely`; so do `CookieStaysUsable` (`[]CookieUsable`) and `RecoverySafe`
  (`RecoveryDiscardsUndelivered`), about a browser alone on its session. None of these is
  inductive. `Inv` says that a secret still carried by the call that minted it is
  hidden, held by nobody else, so nobody can rotate it away; and pinned, the current
  one behind an open window whose opener that call is, so nobody can recover past it
  and the window cannot close. `Followed` adds, for a browser alone, that the cookie is
  never behind a call (`presented = current` means the browser has it too), that the
  calls in flight while the browser waits for an opener end before its window
  (`Covered`), and that a call which presents the previous secret although the
  browser has the current one does too (`Shielded`): hence a recovery finds the
  browser on the previous secret. Most steps are `Quiet`: one call moves and the
  chain, the window and the cookies stay; two lemmas say quiet steps keep `Inv` and
  `Followed`, and one short lemma per action says the action is quiet.
- In `SessionReuseProofs`, under `Timely`: `CappedIsSpent` (`CappedOnlyIfSpent`) and
  `OvertakenTwice` (`CondemnedOnlyIfOvertakenTwice`). Both need what a call has read
  by the time it answers, which `Traced` says of quiet steps. `Spared` is the invariant
  of the first: a call on its way to recovery that finds a window open was in flight when
  it opened and ends before it closes, so behind a closed window only the allowance
  can have refused it. `Tracked` is that of the second, for one browser whose tabs take
  turns (`Solo`), on top of `Followed`: a call behind the cookie was overtaken
  (`Lagging`), so was one beside an opener that is still waited for (`Beside`, for
  no call begins then), and one whose secret is off the chain was overtaken twice
  (`Fallen`).
- For `AgentDag`, with any set of nodes, decompositions, leftovers, handlers and
  faults, and no further assumption: `TypeCorrect`, `RunsInOnePlace` (`[]OneRunner`),
  `AbortKept` (`AbortedNotResumed`) and `PromiseKept` (`Spec => KeepsPromise`, the
  refinement of `ForkJoin`). In the refinement the run may stop keeping `ForkJoin`'s
  rules, but for making a node wait again, from the step that sets `pabort` or `astray`
  on, not before; that step itself touches no node. The invariant `Inv` says that what
  hooks read stays true enough until then: children only move forwards, so a node a hook
  holds as ready may still start, and one it holds as doomed has a failed or doomed
  cascade dependency and will never start otherwise (`HasCause`); and a continuation in
  the queue is either the one hand-off of a parent that does not wait, or comes when all
  has ended (`Whole`). The doomed set is the least closed one, and the proof uses
  exactly that.
- For `AgentPause`, with any calls, executors, tabs, gates, repeated responses, repeated
  deliveries and faults, and no further assumption: `TypeCorrect`, `CalledOnce`
  (`[]OnceUnlessLate`), `AskedFirst` (`[]OnlyApproved`) and `DenialKept`
  (`DenialStops`). Status says little here, since most writes set it unasked, and several
  invocations and responses may be under way. The invariant `IInv` says that until
  somebody acts late at most one executor works, whatever was delivered (`Solo`): the
  status is `running`, parking or over while it does, no pause is open to an answer, and
  what it replays is the pause that is kept (`ExecutorOK`); a pause whose run can still
  be claimed has not been replayed (`PendingOK`); each call is asked about once, so a
  card that is seen again is of the same batch (`CardsOK`); and after an accepted denial
  nobody works and nothing is asked (`Denied`).

Only model-checked: liveness (`EventuallyHandled`, `LostResponseRecovers`,
`CollisionEndsSession`, `Wakes`, `ApprovalHonoured` and the two `AbortEnds`), which like
`ENABLED` is outside the prover's reach. Neither proved nor checked is what the
conditions above leave out: a fan-out that has gone astray and a run after a late act
(but for what section 5 shows to go wrong there, and for `TypeCorrect`,
`RunsInOnePlace`, `AbortKept` and `AbortEnds`, which do not need the condition), the engine without `HardKill` beyond `SettlesOnce` and
`FenceSuffices`, and sessions whose clocks are not `Timely` beyond `TypeCorrectness`
and `OnlyStaleRevokes`.

## 5. Where the code and its comments disagree

1. `engine.ts` says that a worker that lost its lease can never overwrite its
   successor's work. The commit is fenced; `markSubmitAttempted`
   (`GenerationJobModel.ts:129`) is not, and for a sync kind it also sets the state.
   `jobs_selfhost`: a worker leases a pending music job and stalls past its lease
   before that write; another leases, submits, succeeds, settles and handles it; the
   first resumes and sets the finished job to `running`, and its provider call would
   follow. `nextPollAt` is null by then, so no sweep ever finds it.
2. `creditHold.ts` says a hold is refused when the pool cannot cover it.
   `creation_refusal`: between another request's overdrawing decrement and its
   rollback the balance is too low, and a hold it does cover is refused.

3. `agentExecutorDag.ts:165-167` says that the hook of the last sibling dispatches the
   parent, which would otherwise wait for ever. `dag_wake`: children are dispatched
   while the tool still runs, but `dagSpec` and the waiting status are written when the
   iteration has ended. A child that ends before finds nothing to act on, or sends a
   continuation the claim drops; if it was the last, nothing wakes the parent, and no
   sweep takes `awaiting_dag_children`.
4. `agentExecute.ts:490-494` says that repeating a resume cannot double-run the work,
   because the executor's claim catches a duplicate. `pause_resume`: the resume first
   writes `continuing` without a filter, so a second response puts a claimed run back
   where it can be claimed again, and the approved call is executed twice.

Three more are behaviours of the model, without a run of their own:

- `engine.ts:340-341` says that a claim older than a lease means its run crashed
  mid-settlement. A worker leases a finished job while another run is
  handling it, and reports when the clock has moved on: the claim it read is older than
  a lease by then, and the run it belongs to may have settled and handled the job
  meanwhile. With a lease of 5.5 minutes and a Lambda of 5 the handling must take half a
  minute or more and the reporter stall between its lease and its report. What does hold is
  `AlarmedIsLeft`: once a person has been asked, no run of the engine settles the job.
- `agentExecutor.ts:1003` calls the claim of a continuation an "Atomic CAS - prevent
  duplicate Lambda execution", and `agentExecutorDag.ts:172-175` builds on it.
  The claim expects whatever resumable status the document was just found
  in, so the second copy of a hand-off continuation, arriving while the parent waits for
  its children, wakes it as the last child would, and results are gathered that are not
  there.
- `b4m-core/agents/src/dag/schemas.ts:6-7` says that when a cascade node fails all its
  transitive dependents are skipped. A swept node with
  `onFailure: 'isolate'` satisfies its dependents for the next hook
  (`agentExecutorDag.ts:214-219`), which dispatches a node the first hook was about to
  sweep: in a chain a, b, c whose b may fail alone, beside an independent d, a fails and
  its hook sweeps b; before it sweeps c the hook of d finds b satisfied.

Other behaviour met while modelling, which no doc contradicts: a response that read no
pause (between `Park` and `Save`) is accepted for whichever call is asked about next,
and the flip of a late response revives a run that was denied or has failed. Stop and continue at one gate both pass `clearPendingGate`, so a stop may
complete a run a continue has restarted. A healthy `pending` child of a long fan-out
is swept after 20 minutes like a dead one (`AgentExecutionModel.ts:1220`).

## 6. What is not modelled, and the plan

Not modelled inside the modelled components: the ledger row of a settlement,
transactional callers of `settleCreditHold`, the two spend caps, batch limits and
order of the sweep, the public list query, Slack delivery and notifications. A
request that dies between its hold and the insert loses its credits in the code;
the model counts them as `lost`.

In the agent modules: the iterations themselves, sync and background subagents,
approvals remembered for a session, depth and credit budgets, checkpoints, the
invocation limit, starting and reconnecting, and the chat record. In the sessions: the
legacy migration, step-up, and the operations around a session (issue, list,
sign-out-everywhere), which appear only as outside events.

Not modelled at all, and why:

- `newAccountSpendCap.ts`, the member cap, `reserveRequestCredits.ts` and the hold
  sweep: worth a module each (`SpendCap`, with the overshoot concurrent requests
  reach; `Reservations`, refining `CreditPool`). They are next in the plan.
- `CacheModel.ts` and the idempotency middleware, `_anthropicSemaphore.ts`, the
  self-host worker: small concurrent parts of their own (leases; permits conserved and
  no lost wake-up; drain), after the credits.
- Signup grants, Stripe purchases and disputes, file ingestion, data lakes: real state,
  but each is a pipeline of its own; later.
- Model discovery, chat completion, LLM adapters: what makes them hard is wire formats
  and model output, not interleavings.
- Web client, routes, CLI, desktop, SDK, generated code, infrastructure: user
  interface, wiring and formats.

Theorems still worth having: the engine's safety for the asynchronous kind without
`HardKill`, beyond `FenceSuffices`; and the parts planned above, as they are modelled.
