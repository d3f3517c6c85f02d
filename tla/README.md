# A TLA+ verification of Anban Creator's server core

Anban Creator turns a user's project, plan or prompt into published content. The
Go server (`src/server`) accepts tasks, charges for them, starts an agent in a
one-shot container for each execution of a task, takes the agent's results and
delivers them. This directory holds TLA+ models of the parts of the server where
several goroutines, servers, containers and database transactions meet, the TLC
runs that check them on small instances, and TLAPS proofs for all instances.

Contents: 1 inventory, 2 plan, 3 dispatch, 4 wallet, 5 outbox, 6 finalization,
7 slots and deletion, 8 plans, 9 WeChat drafts, 10 WeChat publication, 11 uploads,
12 workspace runtime, 13 prompts, 14 what is proved, 15 what is only model-checked,
16 where the code and its intent part, 17 what is not modelled, 18 how to run it.

## 1. Inventory

### Parts and how they interact

```
Studio (React) ──REST──┐                      ┌── MySQL / SQLite (rows, leases)
agents ────MCP/REST────┤ handlers ── services ┼── Redis (slots, events)
scheduler, plan checker┘      │               └── object store
                              ├── dispatcher ── Docker / Kubernetes ── agent (one shot)
                              ├── runtime reconciler (observe, activate, clean up)
                              └── maintenance workers (billing, uploads, feedback, radar)
```

Several servers may run at once: what keeps them apart is the database (row
locks, conditional updates, lease columns), never memory. The agent is a process
in a container that calls back: bootstrap, progress, artifacts, completion.

| Component | State | Operations | What is hard | What makes it correct | Module |
|---|---|---|---|---|---|
| Runtime dispatch and cleanup (`service/task_dispatch.go`, `agent/runtime_reconciler.go`, `service/task_execution_reconcile.go`, `repository/task_execution.go`) | `task_executions` row: status, dispatch lease, runtime identity, cleanup status and lease; the workload at the provider | claim, refresh, prepare, complete, activate, compensate, reconcile, terminate, clean up | two servers dispatching one execution, create calls that outlive their context, stale snapshots, crashes between any two steps | at most one workload ever started per execution, none left after cleanup, terminal rows final, cleanup always ends | RuntimeDispatch |
| Wallet (`service/billing_wallet.go`, `service/billing_referral.go`, `repository/billing.go`) | account row, credit lots, entries, lot allocations, charges, quotes, reward rows | charge, accept, top up, reverse, expire, reward, rebuild | reads before the account lock, snapshot isolation, retried requests, expiry against reversal | credits conserved, account row = entries = lots, debt attributed, expired credits stay expired, quotes pay once | BillingWallet |
| Settlement outbox (`service/billing_worker.go`, `processSettlementOutboxBatch`) | settlement rows with status, lease, due time | enqueue, claim, apply, mark, requeue | lease ends under a live worker, lost replies, crashes between post and mark | posted at most once, one owner can mark, settled is final, every row is settled | SettlementOutbox |
| Execution finalization (`service/task_execution_complete.go`, `repository/task_execution.go`, `repository/task_file.go`, `service/task_terminal_billing.go`) | execution row: verdict, finalization stage and lease; task row: status, current execution, outcome; file manifests; reversal | terminalize, cancel, complete, resume, one effect per stage, retire | three ways to end an execution at once, crash between an effect and its stage, leases lost by live finalizers, retries in between | one verdict, stages passed only with their effect, one delivery, never delivered and refunded, every end finalized | ExecutionFinalization |
| Task lifecycle and project slots (`service/task.go`, `service/redis_pubsub.go`, `repository/task.go`) | task row, Redis counter, queue messages | create, enqueue, take, start, end, retry, cancel, delete, pause, recount | three stores without a common transaction, a recount that races reservations | nothing starts once deleted or paused, rows removed only when nothing acts, slots come back | ProjectSlots |
| Scheduler and plans (`scheduler/plan_checker.go`, `service/plan.go`) | plan rows, Redis locks | check, trigger, advance, execute, pause, resume, edit, delete | locks that expire under their holder, stale lists of due plans | one task per occurrence and entry, active plans scheduled, due plans triggered | PlanTriggers |
| WeChat draft (`service/wechat_publication.go`, `repository/wechat_publication.go`) | publication row, draft delivery per execution, WeChat's draft box | create, claim, mark, add, save, list, reconcile | draft/add accepted and the answer lost, two executions, crash around the call | one draft per article, an accepted draft is found | WechatDraft |
| WeChat publication (same files) | publication row, article bindings, cached refusals, WeChat's submissions and articles | publish, submit, poll, reconcile, bind, skip, restore, keep, select, report by hand | submission with unknown outcome, stale copies, other publications with the same title | one submission accepted, published stays, submissions are settled | WechatPublish |
| Direct uploads and task artifacts (`service/direct_upload.go`, `service/task_artifact_upload.go`, `repository/upload_session.go`) | session row, staging and final objects, asset or task file | put, claim, stat, record, copy, persist, release, expire, sweep, recover | copies that end late, clients and cleaners on one session, replaced objects | a finalized session is backed by its object, claims protect the source, sessions end | UploadSessions |
| Interactive sessions: the shared Bridge (`service/interactive.go`) | map of workspace runtimes, sessions, Bridge processes | start, wait, join, fail, close, commit, exit | starters and closers of several modes, sessions closed while they wait, late exits | every process has who will close it, none closed under an open mode, every session served | WorkspaceRuntime |
| Interactive sessions: the conversation (`service/interactive.go`, `runtime-dsh/src/dsh-bridge.ts` and the agent loop under `runtime-dsh/vendor`) | session flags, queued and deferred messages, the Bridge's line protocol | message, answer, start, read, execute, turn, ask | one reader for responses and events, a start that runs a turn and races messages, calls that end first | messages kept, what the session shows is what the agent does, sessions become free | InteractivePrompts |
| Content assets and reuse budgets, feedback loop, topic radar, assistants, designer, catalog and costs, analytics, iLink, memory, agent packs, REST/MCP, notifications, storage, configuration, Studio, agent processes, deployment | see `PROJECT.json` | | | | not modelled, with the reason in `PROJECT.json` |

The hazards of the modelled parts, each at the line where it bites and with the
properties that would catch it, are in `PROJECT.json` under `hazards`.

## 2. Plan

Done: `RuntimeDispatch` with `OneShotRuntime`, `BillingWallet`, `SettlementOutbox`,
`ExecutionFinalization`, `ProjectSlots`, `PlanTriggers`, `WechatDraft`,
`WechatPublish`, `UploadSessions`, `WorkspaceRuntime`, `InteractivePrompts`.

The modules meet at named interfaces rather than in one product, whose state space
no run could cover: RuntimeDispatch ends where an execution is terminal, and
ExecutionFinalization takes it from there; ProjectSlots starts and ends executions
and keeps of the finalization only the stages that touch the slot; PlanTriggers
creates tasks and ProjectSlots runs them; the draft stage of ExecutionFinalization is
WechatDraft, which hands over to WechatPublish; the reversal that
ExecutionFinalization enqueues is a row of SettlementOutbox, whose "post" is an
idempotent transaction of BillingWallet.

Most of their invariants and action properties are proved (section 14). Next: content assets and
reuse budgets, the feedback loop and the topic radar, rows with leases of their own, similar
in shape to the outbox.

## 3. RuntimeDispatch and OneShotRuntime

**State.** One execution: the columns of its row (`status`, `dispatchToken`,
`claimAge`, `identity`, `cleanupStatus`, `cleanupToken`), the workload under the
execution's deterministic name at the provider (`workload`, an instance number,
0 for none; `wstate`), the program counters of the dispatch workers (`pc`), the
cleanup workers (`cpc`) and the reconciler (`rpc`) with what each has read, and
creates still in flight after their caller gave up (`late`).

**Steps.** Each database statement and each provider call is one step.

| Code | Actions |
|---|---|
| `dispatchCurrentExecution` | `ClaimDispatch`, `RefreshDispatchClaim`, `ReloadClaimed`, `AbandonDispatch`, `PrepareSucceeds`, `PrepareFails`, `RefreshBarrier`, `FailDispatch`, `CompleteDispatch`, `ResolveLostDispatchCompletion`, `CheckActivationAuthority`, `Activate`, `ReloadActivated`, `Compensate` |
| provider requests that outlive their context | `LateCreate` |
| `RuntimeReconciler.cleanupExecution`, `cleanupCancelledExecution` | `ClaimCleanup`, `ResolveCleanup`, `CheckBarrier`, `ResolvePrepared`, `SetCleanupRuntimeIdentity`, `DeleteRuntime`, `CompleteCleanup`, `EndCleanup` |
| the reconciler's scan | `ReconcileInspect`, `ReconcileActivate`, `ReconcileActivationFailed`, `ReconcileFailure`, `ReconcileDeadline` |
| agent | `Bootstrap`, `CompleteCloudExecution`, `AgentExit` |
| user, operator | `Cancel`, `ReopenBlockedCleanup` |
| failures outside the server | `WorkerCrash`, `CleanerCrash`, `WorkloadLost` |

A lease token is the slot of the worker that wrote it; a goroutine that starts
in a slot holds no token until it claims one. Time is counted in ticks for what
depends on it (age of the dispatch claim, rest of a prepare context, how long a
create may outlive its context); backoffs, retention delays and cleanup leases
end nondeterministically.

**Abstractions.** Kubernetes' foreground deletion is immediate. The commit with
a lost reply is modelled for `CompleteDispatch`, where the code handles it. The
branch of `CompleteDispatch` for a conflicting identity cannot be reached (a
dispatching row has no identity). The completion callback needs a bootstrapped
agent. Choice and mismatch of the runtime target are left out.

**Assumption.** `PrepareTimeout + ProviderLag < Lease`: half the lease (the
context given to Prepare) plus the time a create may outlive its context is less
than the lease. That is what `prepareTimeout := s.runtimeDispatchLease() / 2` is
for; that creates do outlive their context is what
`service/task_dispatch_test.go:1433` tests.

**Runs.**

| Run | Instance | Shows |
|---|---|---|
| `dispatch` (`RuntimeDispatch.cfg`) | Kubernetes, 2 dispatch workers, 2 cleaners, 1 fault, lease 3, `FairSpec` | `NoWorkloadAfterCleanup`, `StartedWorkloadIsAuthoritative`, `RowIsFinal`, `ImplementsOneShot`, and `EventuallyCleaned`: the execution becomes terminal and its cleanup ends done or blocked |
| `dispatch_compensation` (`RuntimeDispatchCompensation.cfg`) | Docker, no fault at all | violates `CompensationSparesAuthoritativeWorkload` |

Two workers and two cleaners are the smallest sets in which one holds a lease
the other takes over; lease 3 is the smallest that satisfies the assumption with
a lag of 1; one fault is a crash, a failed call or a lost reply anywhere. The
fault budget also bounds the operator's retries of a blocked cleanup. The proofs
of section 14 remove all of these bounds for the safety properties, and cover
Docker as well as Kubernetes; `TypeOK`, `PreparationExclusive` and
`IdentityIsUnique` are proved and no longer take part in the run.

**Finding.** The dispatcher that won `CompleteDispatch` reloads the row and
deletes the workload when the status is not `starting`. The reconciler may have
activated the workload, and the agent bootstrapped, before that reload: the row
is `running` under the same identity, and a healthy workload is deleted. The
loser of the completion (`resolveLostDispatchCompletion`) treats the same state as
converged.

**Fairness** (`FairSpec`). Weak fairness of the steps of a goroutine that is
running, of the reconciler's loop, of the claim of a pending cleanup, of a create in flight,
of the clock and of the deadline (`ReconcileDeadline`: every workload has an active deadline, 3600 s by
default, `config/config.go:2069`). Nothing is assumed of the user, the agent or
an operator, and no fault is required or forbidden within the budget.

`OneShotRuntime` is the promise to the rest of the server: instances of the
workload may be created, at most one is ever started, and none after the
execution was closed. `ImplementsOneShot` is checked by TLC and proved
(`RefinesOneShot`).

## 4. BillingWallet

**State.** One user's wallet: the account row (`paid`, `promo`, `debt`), the lots
of top-ups and rewards, the charges with their lot allocations and attributed
debt, the entries as the sum per lot (`booked`) and per charge (`owed`), the
sources already applied (`used`), the lots with an expiry entry (`swept`), the
consumed quotes, and for each server its open transaction (`tx`). The clock
decides the expiry of lots and quotes.

**Steps.** A transaction is two steps: *Begin* performs the reads before the
account row is locked, *Commit* runs from `LockAccount` to the commit, where the
row lock excludes every other writer of that wallet. With
`SnapshotReads = TRUE` (MySQL, REPEATABLE READ) plain reads in *Commit* return
what *Begin* saw and only locking reads are current; with `FALSE` (SQLite) all
reads are current. A request may be retried at any time, also by another server.

| Code | Actions |
|---|---|
| `ChargeTaskAdmission`, `chargeOperation` with a quote | `BeginCharge`, `CommitQuotedCharge` |
| accepted operations (may run into debt) | `BeginCharge`, `CommitAcceptedOperation` |
| `topUpInTxAfterUserLock` with the referral of a qualifying top-up | `BeginTopUp`, `CommitTopUp` |
| the reward of an inviter in somebody else's top-up | `IssueReward` |
| `reverseCharge` | `BeginReverse`, `CommitReverse` |
| `ExpirePromotionalCredits` | `BeginExpire`, `CommitExpire` |
| `RebuildProjection` | `RebuildProjection` |
| a transaction that fails | `Abort` |

**Abstractions.** One clock for all servers: a sweep by a server whose clock runs
ahead, followed by a charge of one that runs behind, is left out. Catalog and
fingerprint validation, int64 overflow checks, the reservation-dated creation
time of accepted operations and reuse-operation budgets are left out.

**Run.** `wallet` (`BillingWallet.cfg`): MySQL, 2 servers, 2 tasks that present the
same quote, 2 accepted operations, 2 top-ups of which one qualifies for a reward, 2
rewards of which one expires, one tick. It checks `BooksBalance` (types,
`LotsAreConserved`, `ProjectionIsExact`, `DebtIsAttributed`), `ExpiredStaysExpired`,
`QuoteIsSpentOnce` and `AlarmMeansOldSnapshot`. Prices and amounts are chosen so that one charge spans
promotional and paid lots and leaves debt, and one top-up pays several debts and
leaves a lot. `CHECK_DEADLOCK FALSE`: the requests of an instance are finite, and
when they are done nothing is left to happen.

**Worth knowing.** On MySQL a top-up can be refused with "billing ledger is not
conserved" although nothing is wrong: it reads its catalog before the account lock,
an accepted operation of another server commits debt in between, and the plain
`ListOutstandingDebtCharges` after the lock (`service/billing_wallet.go:618`) returns
the older snapshot, so that the attributed debt differs from the account's.
`AlarmMeansOldSnapshot` says that this is the only way to that error: no reversal, no
expiry and no read of current rows (SQLite) leads to it.

## 5. SettlementOutbox

**State.** Settlement rows (status, attempts, whether due), how often each was
posted to the wallet (`posted`, history), and for each worker its batch, the
attempts of each row when it was claimed (`token`, the fence of the mark) and the
result of the settlement it is working on.

**Steps.** `Enqueue`, `ClaimSettlements` (one transaction: due pending rows and
processing rows whose lease ended, up to `BatchSize`), `ApplySettlement` (the
wallet's idempotent transaction: posted, or found posted, or refused),
`ApplyErrs` (an error that leaves the posting undone, or a lost reply after the
commit; retryable or not), `MarkSettlement` (guarded by the token), `AbandonBatch`
(crash or shutdown), `BackoffEnds`, `LeaseEnds`. Faults are bounded by `MaxFaults`.

**Run.** `outbox` (`SettlementOutbox.cfg`): 2 workers, 3 settlements of which one may be
refused, batches of 2, 2 faults: `AppliedOnce`, `OneOwner`, `SettledIsFinal` and
`EventuallySettled`. Three settlements exceed a batch, so one waits behind another's
lease; two faults allow a crash during the recovery from a lost lease or reply.
`CHECK_DEADLOCK FALSE`: when all rows are settled the outbox rests.

**Fairness.** The worker's ticker and its loops, and the passing of time
(backoffs and leases end). A crash is never required.

**Worth knowing.** A row may be `failed` although its charge was posted: a slow
worker posts after the worker that took the row over was refused, or the reply of
a commit is lost with an error outside the short list of
`isRetryableBillingDBError` (`service/billing_wallet.go:1076`). Failed rows are never
claimed again. No comment or test says that this cannot happen, so it is described
here and not a property.
An image operation without credits fails validation and its settlement fails for
good (`Refusable`).

The modules of sections 6 to 13 share two conventions. **Budgets**: a behaviour starts
with one record of the set `Budgets`, which says what it may contain (which actors exist,
how many calls, faults, refusals...); the MC module lists the records as scenarios, so
that one run covers several combinations without the product of all of them. **Control
points**: every database statement, Redis script, provider call and lock section of the
code is a step of its own, and between any two of them other actors may act or the
server may crash (`Crash`, `Fault`).

`SettlementOutbox`, `ExecutionFinalization` and `WorkspaceRuntime` share a module of proofs
with another component. Their `Init`, `Next`, `Spec` and `TypeOK` therefore carry a
component's name (`OutboxInit`, `FinalizationSpec`, `WorkspaceNext`), and the budgets of
`WorkspaceRuntime` are called `Allowances`.

## 6. ExecutionFinalization

**State.** One task: its row (`task`: status, current execution, result, outcome), its
executions by attempt (`exec`: verdict, completion input, finalization stage, token and
freshness of the lease, what became of its files, whether its draft was decided), the
attempt whose end enqueued the reversal of the charge, the notifications, and the
finalizers (`fin`), each with the stage it saw when it entered.

| Code | Actions |
|---|---|
| `CompleteCloudExecution`, first and repeated | `Complete`, `CompleteAgain` |
| `TerminalizeCurrentExecution`, `cancelCloudExecution` | `TerminalizeCurrentExecution`, `CancelCloudExecution` |
| `finalizeTaskFromExecution` | `ClaimFinalization`, `Act` (`Core`, `CoreLost`, `DraftDelivery`, `TaskOutcome`, `Notify`), `ActFails`, `Verify`, `Advance` |
| the reconcilers | `ResumeFinalization`, `RetireSuperseded` |
| what users do to the task meanwhile | `ResetRetryableTask`, `Review`, `RecoverPublication`, `EnqueueFails`, `FailPendingTask`, `CreateCurrentExecution` |

Stages whose steps touch nothing of this state are merged with a neighbour (comment at
`Stages`).

**Run** `finalization`: 2 attempts, 2 finalizers, one fault, or no fault and a sample
that is reviewed. Two finalizers are what it takes for one to work on under a lease the
other has taken over; two attempts for a delivery to be replaced. Checked:
`AttemptsAreExclusive`, `StagesHaveEffects`, `NothingIsUndone`, `FinalizationEnds`.

**Fairness.** Calls go on, leases that nobody renews run out, the reconcilers come round
(`SF` of `ResumeFinalization`: the execution is claimable again and again, as others claim
it and fail). Agents and users owe nothing.

## 7. ProjectSlots

**State.** Task rows with the stage of their current execution, the plan's status, the
project's counter in Redis (`count`, or no key), one queue message per task, and
concurrent calls `proc`: requests, queue workers, finalizers, the checker. Reservation,
release and recount are atomic scripts; everything else of a call is a step per store.

| Code | Actions |
|---|---|
| `createManual`, `Retry`, `EnqueueExecution` | `Create`, `Retry`, `Reserve`, `EnqueueUnique`, `ReleaseSlot`, `EnqueueFailed` |
| queue worker, `HandleExecutionFromPayload`, `createCurrentExecution` | `Take`, `Prepare`, `FailPending`, `Start`, `Reply` |
| end of an execution, `syncCloudSlot` | `End`, `Finalize`, `Core`, `CountRunning`, `SyncProjectCount`, `Advance` |
| `DispatchPendingTasks`, the checker | `List`, `Check`, then `Reserve`... per task |
| `Cancel`, `Delete`, `Pause`, `Resume` | `Cancel` (`CancelPending`, `SwapRunning`, `SwapPending`, or `CancelExecution`), `BeginDelete`, `DeleteReloaded`, `Pause`, `ResumePlan` |

**Run** `slots`: 2 tasks, one of them of a plan, one slot, 2 calls at a time, a retry, a
fault. With one slot and two tasks every reservation is contended. Checked:
`TasksAreSound`, `LateStartsAreRefused`, `SlotsComeBack` (again and again the counter is
at most the running tasks plus those whose reservation is under way).

**A cancel that comes late.** A cancel that fetched a task without an execution swaps its
status, first from running and then from pending, and looks at nothing else: a worker that
starts the task between the fetch and the swap is cancelled over (section 16).
`RunningHasExecution` therefore says of an active execution that its task runs or was
cancelled, and the second only where users cancel; that a running task has an execution holds
without exception.

**Fairness.** Calls go on; the checker comes round every minute (`SF`: a call of the
model may be taken for something else in between).

## 8. PlanTriggers

**State.** A clock in units of the cron expressions, plan rows (`status`, `cron`, `next`,
entries), the tasks created per plan, occurrence and entry (`made`, history), whether a
created task has not started (`backlog`), the checker's lock and the plans' trigger locks,
and the calls. `next` gets past the clock by the occurrence that follows and by at most one
more per server with a stale list of due plans (`Ahead`), which bounds the occurrences that
`made` counts; for this there are finitely many servers and a longest period
(`PlansAssumption`). Steps: `TryAcquire`, `ListDue`, `TakePlan`, `AcquirePlanTriggerLock`,
`Reload`, `ListEntries`, `CreateFromPlanEntry`, `EntriesDone`, `AdvancePlanNextRun`,
`Release`, `EndCheck` of a check; `Execute`, `Pause`, `Resume`/`ResumeWrite`,
`Edit`/`UpdateEditable`, `Delete` of users; `ExpireCheck`, `ExpireTrigger`, `Stall`.

**Run** `plans`: five scenarios over 2 servers, 2 plans, 2 entries, expressions with the
periods 1 and 2, up to 3 user actions, a fault. Checked: `OnceEach` (without faults and
without users who reschedule: the code is at-least-once across a crash), `StatusIsMeant`,
`TriggersMoveForward`, `DueIsTriggered`.

**Fairness.** Calls go on, tickers come round, keys expire.

## 9. WechatDraft

**State.** The publication row (status, claim, evidence of the attempt, number of
attempts, media id, next check), the draft delivery of each execution, WeChat's draft box
(`box`: drafts per execution), the calls of `CreateDraft` and the reconciler. Steps follow
`CreateDraft`: `Resolve`, `Load`, `Find`, `Claim`/`Create`, `Gate`, `List`, `Reclaim`,
`Mark` (the evidence), `AddDraft` (accepted with or without an answer, refused, not
supported), `Save`, `Finish`, `Record`; the reconciler's are `LoadPending`, `ListDrafts`,
`ListPublishes`, `SyncDelivery`.

**Articles like this one.** While the draft is looked for, the reconciler lists the project's
published articles as well, and one that is like the row's (the same fingerprint; or title,
digest and cover; or some of that) ends the search: the row becomes `published` or
`needs_selection` although no draft of it is known (`TakeArticle`, `TakenFor`; the matching
itself, which compares texts, is a choice within the budget `articles`). An execution that
then asks is told that its draft succeeded (`FromPublication`). `SucceededHasDraft` says that
this is the only way to a success without a draft: `rec.taken` is a history that no action
reads.

**Run** `draft`: two calls at a time, in two executions or with a crash or with such an
article; one call at a time in two executions with any two of a user's call, a failed read, a
crash and such an article (827,055 states). Checked: `OneDraft`, `RecordMatchesWechat`,
`DraftIsKept`, `AcceptedIsFound`.

**Fairness.** Calls that have begun go on, the recovery loop enqueues what is due.

## 10. WechatPublish

**State.** The publication row from `drafted` on, the article bindings of the project, the
cached refusals of interfaces, WeChat's side (draft, listed articles, fate and number of
accepted submissions), and the processes: callers, poller, reconciler. Steps follow
`Publish` (`Load`, `Deny`, `ListPublishes`, `ListDrafts`, `ClaimPublish`,
`SubmitFreePublish`, `SaveSubmit`, `Bind`, `Defer`), the poller (`LoadPublishing`,
`Poll`), the reconciler (`LoadPending`, `Reconcile`) and the user's operations.

**Run** `publish`: two callers with a failed read; one caller with a crash, with another
publication that binds the article, with refusals. Two polls stand for the code's 17.
Checked: `SubmissionsAreSound`, `PublishedStays`, `SubmissionIsSettled`.

**Fairness.** As for drafts; the third day comes (`SF` of `Old`).

## 11. UploadSessions

**State.** A session's row (status, claim, recorded fingerprints, cleanup claim), its staging
and final object, a copy the store still works on, the asset or task file, the calls, the
cleaners' passes, and the place of each expired session in the cleanup's list (`ahead`). An
object is its content and an ETag is the content it was computed from. Steps follow
`FinalizeUploadSession`, `FinalizeTaskArtifactManifest` and `CleanupExpiredUploadSessions`
statement by statement.

**Time.** A call or a pass reads the clock once, and its claims carry that time; whether a
claim has lapsed is decided by whoever meets it, by its own clock reading. `age` is how long
ago each of these moments was, in three classes (less than a minute, less than five, more),
and `gap` how long before the reading of a process it was. A call for one session ends within
its 45 seconds. A call for a list of URLs (`FinalizeUploadSessionURLAssets`,
`service/direct_upload.go:687`) reads the clock once for all of them and gives each 45
seconds, so that the claim on a later one can lapse under it; a pass of the cleanup has no
limit. These are the processes in `slow`, whose moments may grow old while they work
(`AgeCall`). The model lets a slow call last as long as it likes and finish any one session:
more than a list of a given length allows, and it is checked and proved for all of it.

**Run** `uploads`, with the scenarios of `MCUploadSessions`: two clients on a media session,
whose object is replaced, or with a late copy and a fault, or where the call of one is for a
list and a minute old; one client whose object is replaced, with a fault and a late copy, or
with a slow call against a slow pass; two media sessions, so that one is listed behind the
other; a task artifact with two cleaners, one of them slow, or with two faults and a slow
pass; two clients that complete one artifact, whose object is replaced by one of another size.
Checked: `UploadsAreBacked`, `ClaimsAreRespected`, `SessionEndsOrIsStuck`.

**What a claim protects.** `ClaimProtectsSource`, a part of `ClaimsAreRespected`, says that
while a client's call whose clock reading is less than a minute old works on its staging
object nobody deletes it, with two exceptions that the proof of section 14 brought to light. A
second client of an artifact session may have recorded the manifest by then and delete the
staging object itself (`service/task_artifact_upload.go`): a task file names the final object
already, so nothing is lost. And a cleaner whose delete takes longer than its own lease of
five minutes may delete after the session was reopened and claimed by a client
(`service/direct_upload.go`): the store's delete has no fence. A call for a list that has
lasted a minute is not protected (section 16); `UploadsAreBacked` and `FinalizedStays` hold of
it all the same.

**Ends and starvation.** `SessionEndsOrIsStuck` names two ways for an expired session not to
end. Its recovery is refused for ever (`Stuck`). Or such a session stands before it in the list
(`Blocked`): the error of the recovery ends the pass (`service/direct_upload.go:866`), the list
is ordered by expiry (`repository/upload_session.go:128`), and the ticker runs the same pass
again. One session that is stuck starves every session that expired later. The scenario with
two media sessions is there for this.

**Fairness.** Calls end, time passes, the cleanup's ticker runs whatever a pass returned.

## 12. WorkspaceRuntime

**State.** The entry of `workspaceRuntimes` (`cur`, `shared`: members, whether it has a
runtime, whether `ready` is closed), the Bridge processes (`pod`), exits on their way, the
sessions' fields, the goroutine that starts each session and what is left of its close.
Lock sections of `startWorkspaceRuntime`, `closeSessionAtDeadline` (`CloseSession`),
`Commit`, `routeWorkspaceRuntimeEvent` and `runtimeEvent` are the steps.

**Run** `workspace`: three modes with a close and a refusal or a commit, two modes with
closes, commit and exits. Three modes are needed for two to wait on one start. Checked:
`BridgeIsAccountedFor`, `EverySessionIsServed`, `DeadBridgeIsNoticedOrPending`.
`LiveBridgeIsOwned`, a part of the first, says that a Bridge that runs has a session that will
close it as the last, or somebody who is about to close it, or its starter, who has yet to look
whether it is wanted; and, as the one exception, that a session was entered beside it that had
been closed (`CameLate`): then the Bridge may run without a mode (section 16).

**Forgotten.** `EverySessionIsServed` exempts exactly two states, which section 16 describes:
the session waits for a starter that was closed and whose goroutine has ended without closing
`ready`; or it woke up, found the entry of a later start without a runtime, and gave up
(`gaveUp`). A session that is done for any other reason is served or closed.

**Fairness.** Goroutines that start sessions run, exits are routed and delivered.

## 13. InteractivePrompts

**State.** The session's flags (`busy`, opening, the question it shows, queued and deferred
message), the goroutine that starts it, the calls of `Message` and `Answer`, the reader of the
Bridge's output, the commands, lines and responses between server and Bridge, and the agent's
turn, question and backlog.

**The Bridge and the agent** are those of `runtime-dsh`: `src/dsh-bridge.ts`, and under
`vendor` the session server and the agent loop. `session/start` sets the agent going with a
turn of its own that carries no prompt (`StartupTurn`), which begins before the response and
may ask a question; prompts that come meanwhile wait in the inbox (`backlog`), and an agent
whose inbox is empty at the end of a turn reports that it is idle, always. The Bridge of a
workspace subscribes to a session after the response to `session/start`, so that what its
startup turn reported before is lost, a question included (`heard`). The look at the inbox and
the report of idle are one step: between them lies nothing but the microtask queue of one
process. Turns that the agent's own policies block are left out.

**Run** `prompts`: nine scenarios over the three kinds of session (of its own with an opening
or without, of a workspace), up to three messages, two answers, two questions, one refusal and
one call whose context ends. Checked: `MessagesAreKept`, `AgentIsSeen`, `BusyEnds`.
`AgentIsSeen` says that a session which has read everything and shows itself free has an agent
that does nothing, and that the question it shows is the one the agent waits with; after a call
that failed, and in a workspace, the first is not so, and after a call that ended the second.

**Lost and early messages.** `MessagesAreKept` has one exception, which needs two messages and
nothing that fails: before the session is started, the second takes the place of the first.
That no second message is taken while the first is worked on is not a property of this code
(section 16). A session that is freed while the agent works takes another message each time:
how many prompts can wait in the inbox is bounded by the messages of a scenario only.

**Fairness.** Goroutines, the Bridge and the agent's turns go on; the user may never answer.

## 14. What is proved

All theorems hold for every value of the constants that satisfies the named
assumptions.

| Module | Theorem | Statement | Rests on |
|---|---|---|---|
| RuntimeDispatchProofs | `TypeCorrect` | `Spec => []TypeOK` | |
| | `CleanupIsComplete` | `[]NoWorkloadAfterCleanup` | `LeaseAssumption` |
| | `OnlyTheAuthoritativeIsStarted` | `[]StartedWorkloadIsAuthoritative` | |
| | `PreparationIsExclusive` | `[]PreparationExclusive` | `LeaseAssumption` |
| | `IdentityExcludesOthers` | `[]IdentityIsUnique` | `LeaseAssumption` |
| | `RowFinality` | `RowIsFinal` | |
| | `RefinesOneShot` | `ImplementsOneShot` | all of the above |
| | `Exclusive`, `EffectsOfStages` (of ExecutionFinalization) | `[]AttemptsAreExclusive`, `[]StagesHaveEffects` | `FinalizationAssumption` |
| | `NothingUndone` | `NothingIsUndone` | |
| BillingWalletProofs | `ExpiryIsFinal` | `[]ExpiredStaysExpired` | |
| | `QuotesPayOnce` | `[]QuoteIsSpentOnce` | |
| | `TheBooksBalance` | `[]BooksBalance` | |
| | `OnlyOldSnapshotsAlarm` | `AlarmMeansOldSnapshot` | `TheBooksBalance` |
| | `OutboxTypeCorrect`, `PostedOnce`, `FenceIsExclusive`, `Finality` (of SettlementOutbox) | `[]OutboxTypeOK`, `[]AppliedOnce`, `[]OneOwner`, `SettledIsFinal` | |
| ProjectSlotsProofs | `TasksSound` | `[]TasksAreSound` | `SlotsAssumption` |
| | `LateStartsRefused` | `LateStartsAreRefused` | |
| PlanTriggersProofs | `StatusMeant` | `[]StatusIsMeant` | `PlansAssumption` |
| | `OncePerOccurrence` | `[]OnceEach` | `PlansAssumption` |
| | `TriggersForward` | `TriggersMoveForward` | `PlansAssumption` |
| WechatDraftProofs | `OneDraftOnly`, `RecordIsTrue` | `[]OneDraft`, `[]RecordMatchesWechat` | `DraftAssumption` |
| | `DraftKept` | `DraftIsKept` | |
| WechatPublishProofs | `SubmissionsSound` | `[]SubmissionsAreSound` | `PublishAssumption` |
| | `PublishedKept` | `PublishedStays` | |
| UploadSessionsProofs | `UploadsBacked` | `[]UploadsAreBacked` | `UploadAssumption` |
| | `ClaimsRespected` | `ClaimsAreRespected` | `UploadAssumption` |
| InteractiveSessionsProofs | `BridgesAccounted` (of WorkspaceRuntime) | `[]BridgeIsAccountedFor` | `WorkspaceAssumption` |
| | `MessagesKept` (of InteractivePrompts) | `MessagesAreKept` | `PromptAssumption` |

Each proof module defines the inductive invariant of its component (`IInv`, `RuntimeInv`,
`FinalizationInv`, `OutboxInv`, `BookInv`, `WorkspaceInv`, `ConversationInv`), proves `Init => IInv` and
`IInv /\ [Next]_vars => IInv'` with a lemma per action or group of actions, and derives the
theorems from it. The type invariant is part of what is proved where the property joins it.
Neighbouring components share a module of proofs: dispatch and the finalization it leads
to, the wallet and the outbox that posts to it, the two halves of an interactive session.

**Dispatch.** None of the invariants is inductive alone. The argument is about
time: a create, whether its caller still waits or not, is always younger than
the claim it was made under, so a claim that has expired has no create left in
flight (`ClaimInv`). A cleanup that passed the barrier therefore finds the
provider quiet (`QuietInv`): no worker and no abandoned request can create
anything under a terminal row whose claim is gone. With the shape of the row
(`RowInv`: an identity only after dispatching, a cleanup only when terminal) it
follows that the provider holds at most the instance the row names once it names
one (`ProviderInv`), which is what the cleanup deletes.

**Wallet.** `IInv` is the shape of the rows (`Shape`), what a transaction in
progress remembers (`TxInv`: a charge or lot of this wallet, and for an expiry a
time that has passed), `ExpiryInv` and `QuoteInv`. That a swept lot is empty is
not inductive: a reversal returns credits to lots. What makes it so is that a
swept lot is past its expiry, hence whatever a reversal returns to it expires in
the same transaction, and that a lot whose source was not applied has paid for
nothing. A quote pays once because every quoted charge has consumed its quote.

**The books.** The totals of the wallet are sums over its lots and charges, and the module
proves what the arguments need of a sum from its definition: a set that contains `{}` and
grows by one element contains every finite set (`FiniteInduction`), so a total is an integer,
does not depend on the order of its elements, and changes by what one element changes. A
consumption draws the lots in their order: along that order each lot gives what is left of
the amount (`DrawBounds`), and together they give the amount or all they have (`DrawTotal`),
which is also how a top-up repays debts. `BookInv` joins to the three laws what makes them
inductive: rows that do not exist carry nothing and the order of lots and of charges is
strict (`RanksInv`), what a charge still owes is what its entries say (`DebtInv`), and a
top-up that is open remembers no more of a debt than there is, because debt of a charge that
exists only shrinks, and debts are what a snapshot may lack (`OpenInv`). This last part
decides the alarm: a snapshot is below the account in every charge, so that equal totals
mean equal debts, and a commit that alarms has seen an older one.

**Outbox.** The attempts of a row are at least every token handed out for it and
two workers hold different tokens of one row (`TokenInv`), so at most one token
equals the row's attempts; a worker about to mark `processed` has seen the
posting (`ResultInv`).

**Finalization.** A finalizer works from a snapshot and may have lost its lease, so that
nothing relates the stage it holds to the row but this: it is not ahead of it (`FinInv`).
`StagesHaveEffects` speaks of the row alone and is not inductive: the stage is advanced
steps after its effect, by a call that only remembers to have seen it. `EffectInv` says that
a call which verifies or advances has the effect behind it, and that no other step takes an
effect away. `TaskInv` is what excludes a second delivery: a running task has a current
attempt whose files are untouched.

**Slots.** A task's status and the stage of its execution are columns that every call sets
apart from each other. They agree because an execution whose finalization is open has one
finalizer (`Exclusive`), which is where the stage says it is (`CallOK`), and because no
start, retry or removal touches an execution that is not finalized (`RowOK`). A user's cancel
does, when it swaps the status of a task that was started meanwhile; such a task stays
cancelled with an execution that cannot be finalized, and the invariant allows this combination
and no other. `TypeOK`
bounds the counter by the slots or the number of tasks: a reservation is conditional, a
recount writes the number of running tasks that it read.

**Plans.** `Shape` is what rows and calls look like: a checker in the middle of a plan goes
by a row that had a next run when it was read, and does not meet the plan again in its list.
`BoundInv` bounds the schedule: each server that has visited a plan since it was due last may
have moved it on once, because the update compares with what was read. That no schedule runs
away is not inductive without counting who is still to visit the plan. `OnceInv` is about
behaviours without faults and without users who set a schedule back (the code is
at-least-once across a crash): the trigger lock names whoever triggers the plan, nothing was
created beyond the next run, nothing at the next run except by the holder of the lock, and
the row that the holder has read still says what the plan says, unless the plan was paused or
deleted. The checkers' common lock is no part of the argument, it excludes nobody.

**Drafts.** The second `draft/add` is excluded by a chain over the row: the call is made
with the evidence on the row and without the authorization to retry (`AddInv`), the
authorization comes back only with a definitive refusal, which means that nothing was added,
and the row is deleted only by the call that created it and has not made its attempt
(`CallOK`). One caller is out at a time although claims expire, because whoever takes a claim
over finds the evidence. A delivery succeeds by the row, and a
row that knows no draft can look like success only after the reconciler took an article for it
(`SucceededHasDraft` with its history).

**Publication.** A row without evidence of a submission, in a state from which it may be
submitted, stands for a draft that nobody is submitting and of which nothing was accepted
(`OutInv`). No copy of the row that is saved later brings such a state back. A published row
stays published by its version (`VersionOK`): a call that writes after it has asked WeChat
compares with the version it has loaded. The copy that the cached refusal saves is not
compared, which is why `PublishedStays` is about behaviours without a refused interface.

**Uploads.** Clients and cleaners work from what they have read, and the store has no
transactions. Three facts carry over from a read to its use, and the invariant is about
them. An ETag on a row is that of the final object, which a later copy never replaces: the
store copies only to a key without an object (`RowInv`). What a call has seen, an
object it has verified or an ETag it has recorded, is still so when it uses it, and a
client's call whose clock reading is less than a minute old holds its claim while it works on
the source (`CallInv`; one that has lasted longer need not, nor a cleaner's). That a claim has
lapsed is read off two moments, so that the invariant also says how the ages and gaps of
processes and claims lie to each other. What a cleaner has listed was due when it
listed it, and being due is not undone by time (`PassInv`): its delete is decided by the list,
not by the row, so nothing stronger is true. `ClaimsAreRespected` speaks of steps and
follows from the invariant with a lemma per action on what the step leaves alone (`Kept`).

**The shared Bridge.** That a process is named by somebody is nearly inductive. What it needs is
that the goroutine of a session goes through the start of a Bridge once, so that the process
of a session is not started twice (`StageInv`), and that a session is closed once and, unless
its draft is committed (section 16), closes an entry only after taking it off the map
(`CloseInv`). That whoever is named will close it is about the sessions of the entry: there is
always one, and one of them that is closed is about to leave or to close the Bridge, or came
late (`OwnInv`).

**Prompts.** A message that was accepted is somewhere: with the session, the goroutine that
starts it, the reader, or the agent. Its caller learns of the acceptance from a line, so that
the invariant follows a prompt on its way: the command says which message it carries, the
command that the Bridge executes was given to the agent, so was the one of every line that
reports success, and of every reply (`WayInv`). The goroutine that starts the session takes
the queued message once, when it holds none (`SessionInv`).

## 15. What is only model-checked

Liveness (`EventuallyCleaned`, `EventuallySettled`, `FinalizationEnds`, `SlotsComeBack`,
`DueIsTriggered`, `AcceptedIsFound`, `SubmissionIsSettled`, `SessionEndsOrIsStuck`,
`EverySessionIsServed`, `DeadBridgeIsNoticedOrPending`, `BusyEnds`): the prover does not
handle fairness and `ENABLED`. These hold on the instances of the runs, and so does the
invariant `AgentIsSeen`. Every other invariant and every action property that a passing run
checks is stated by a theorem of section 14.

A property that joins several (`BooksBalance`, `AttemptsAreExclusive`, `TasksAreSound`,
`StatusIsMeant`, `RecordMatchesWechat`, `SubmissionsAreSound`, `UploadsAreBacked`,
`BridgeIsAccountedFor`, `AgentIsSeen`) is a conjunction of named parts, the module's
type invariant among them; each part has its own comment.

## 16. Where the code and its intent part

What follows was met while modelling. The properties leave these cases out explicitly, by
a condition or a disjunct that names them, so that the runs show that there is no other. The
run `dispatch_compensation` refutes a comment of the dispatcher (section 3).

**Finalization.** (a) A sample is reviewed before the first stage of its execution was
recorded, and the next attempt fails: the task's status then never matches what the older
finalizer expects, and its execution stays at the first stage (`repository/task.go:393`;
disjunct of `FinalizationEnds`). The same happens when a recovery of the publication
starts from an outcome older than the current attempt. (b) A task that has delivered and is
sent back to pending is refunded if its preparation fails: the pending path decides without
looking at earlier deliveries (`service/task_terminal_billing.go:169`).

**Slots.** (a) The recount writes the number of running tasks; a task that holds a slot and
is still queued is not counted, so one task too many is admitted
(`service/redis_pubsub.go:306`; the comment at `service/task.go:2384` speaks of "TOCTOU
races" that the reservation prevents). (b) A call that releases a slot and dispatches
nobody leaves a pending task waiting for the next event of its project
(`service/task.go:2139`). (c) A task that was retried and is deleted before the retry starts
keeps the pointer to its old execution; the cancellation refuses it and the deletion never
ends (`service/task.go:2653`). (d) A user cancels a task that is pending when it
is fetched ("Fetch task before CAS so ownership and cloud execution identity are stable",
`service/task.go:2100`), a worker starts it, and the swap from running wins (`service/task.go:2116`). The
task is cancelled, its execution goes on and nobody asks it to stop; its end is refused as that
of a stale execution for ever (`service/task_execution_complete.go:735`), its workload is not
counted, and a deletion of the task never ends.

**Plans.** (a) A check with a stale list triggers a plan again before its next run is due
(`scheduler/plan_checker.go:314`; the comment at 168 says otherwise). (b) Resume computes the
next run from the expression it read; an edit in between is overwritten with the next run of
the old expression (`service/plan.go:948`).

**Drafts.** (a) A draft given up after 72 hours is not synchronized to the delivery of its
execution (`service/wechat_publication.go:2644`). (b) The intent of a crashed call blocks the
finalizer of its execution until the reconciler has decided
(`service/task_execution_complete.go:941`). (c) A failed read after a draft/add in doubt closes
the doubt (`service/wechat_publication.go:1597`). (d) A draft that was accepted and could not be
saved offers a retry, which `OneDraft` shows to be refused (1249). (e) A crash between
`RetryUnsupportedDraft` and the evidence leaves a row that the recovery loop does not see
(`repository/wechat_publication.go:391`). (f) A published article that is merely like this one
moves the row out of `drafting` while its draft is still looked for
(`service/wechat_publication.go:2695`). The answer of the `draft/add` on its way, or the
draft itself when it shows up, is then not stored, because only a drafting row takes it
(`repository/wechat_publication.go`, `UpdateDraftClaimed`): its media id is lost. An execution
that asks afterwards is told that the draft succeeded
(`service/task_execution_complete.go:1594`), and one that has asked stays `ambiguous`, because
`reconciledDraftDeliveryResult` does not count such a row as decided.

**Publication.** (a) The cached refusal saves a copy of the row loaded before the lists and may
take a published row back (`service/wechat_publication.go:1750`; `PublishedStays` leaves refusals
out). (b) `KeepDraft` is overridden by a publication in progress (1553). (c) A late
`RetryPublish` may leave the row without a next check (2276). (d) An article that another
publication owns is matched again at every poll (2229).

**Uploads.** (a) The cleanup decides by the row it listed and deletes the staging object of a
session that was promoted meanwhile (`service/direct_upload.go:852`). (b) When the object was
replaced after a copy whose ETag was not recorded, the recovery refuses the final object and the
cleanup spares the session, for ever (866; `Stuck`). (c) A row in `expiring` with a final object is
not recovered. (d) Two cleaners could take each other's claim for ever if every delete outlasted
the lease of five minutes; `SessionEndsOrIsStuck` is therefore stated for one. (e) A session that
is stuck as in (b) ends every pass before the sessions that expired later are reached (866 and
`repository/upload_session.go:128`; `Blocked`). (f) The claim on a later URL of a list is dated by
the start of the whole call (687): after a minute another call, or after five the cleanup, may
take the session from under a call that works on it, and delete its source. That call then fails
at its next conditional update.

**Workspace runtime** (`service/interactive.go`). (a) `Commit` closes the Bridge other modes use
(3078). (b) A session that waits for the Bridge and is closed is entered among
its sessions when it wakes up (1129), after it has left them; the last open mode to close finds
it there and leaves the Bridge running, which the comment at 1788 would close "only when no modes
remain". A goroutine that waits for a `ready` nobody closes is
leaked. (c) The exit of a Bridge is routed to its successor's sessions (1348). (d) A starter that
is closed does not close `ready`: the modes that wait for it wait for ever (1803). (e) A mode that
waited gives up silently when it wakes up and finds another start under way (1113-1128): after a
failed start, when another waiting mode was first; or after a start that succeeded and whose
session was closed at once, when a new mode registers the next entry. (f) An exit between
session/start and the start is not noticed (2177). (g) A session closed before its goroutine
registered the entry (1170) discards its Bridge later (1238) and leaves the entry starting, so
that every later mode waits for ever. (d), (e) and (g) are `Forgotten`.

**Prompts** (same file). (a) The reader sends the deferred message itself and waits for a response
only it could read (2456, 3708). (b) The end of the startup turn, read before the
start is seen to be done (1269), frees the session, and a second message overwrites the queued one
(2512), which was accepted; the comment at 1273 says that it is consumed. (c) The end of the startup turn, an idle status
(2107) or the start of a workspace session (1303) frees a session that took the next message, and
prompts pile up in the agent's inbox, where `service/interactive_test.go:807` wants the second
message refused "until turn/end". (d) A question that arrives before `Answer` returns is
dropped (2379), one of a workspace's startup turn is never heard of. (e) A question of the startup
turn that is shown when the session opens the conversation cannot be answered: the opening makes
the session busy and waits behind the question (2598). (f) The context of `Answer` ends after the
command was written (2628): the agent goes on, the question stays shown, further answers are
refused by the Bridge and messages by the session, until it is closed. (a), (d) and (e) are the
exceptions of `BusyEnds`, (c) and (f) those of `AgentIsSeen`, (b) that of `MessagesAreKept`.

## 17. What is not modelled

Everything with status `not_modelled` in `PROJECT.json`, with the reason there: parts without a
protocol of their own (clients of external services, data transformation, rendering, start-up
migrations, user interface), and the parts that section 2 leaves for later. The map covers the
concurrent core and a small share of all lines: most of the repository is request decoding,
validation, queries, prompts, rendering and the React client, where a state machine would only
repeat the code. Within the modelled parts:

- *Dispatch, wallet, outbox*: the abstractions named in sections 3 to 5.
- *Finalization*: how it is decided that an attempt succeeded; the domain stages (topic radar,
  feedback, provider cost); `RebuildWorkflowStatus`, which is not fenced; one notification per task
  and status.
- *Slots*: the counter's time to live, a failure of Redis and the database at once, the reaper of
  running tasks without execution, the path without a queue, `awaiting_review`, retention of archived
  messages.
- *Plans*: a plan deleted after its entries were listed still creates the rest of its tasks; retried
  tasks of a paused plan stay pending.
- *Drafts*: how articles are compared (section 9), several articles that match, drafts of the same content made elsewhere, a list that lags, validation before
  `CreateDraft`, the lag of the outcome's projection, the branch at
  `service/wechat_publication.go:1101`, which cannot be reached; pictures take the same way as articles.
- *Publication*: the row starts as drafted, so the branch for a drafted row with evidence is not
  reached; the claim's lease never decides; analytics and tracking; list and compare-and-swap are one step.
- *Uploads*: the limit of a cleanup's list, lists of URLs as such (section 11), orphaned objects, views of task files.
- *Sessions*: quotas, idempotent creation, leases, tombstones, event history and watchers, staging and
  the commit transaction, heartbeats; that the row and lease of a committed session live on until they
  expire, and that a close during a commit is dropped; several questions in one call of the agent, turns that
  its policies block.

## 18. Running

```
tlc -workers 2 -config RuntimeDispatch.cfg MCRuntimeDispatch
tlapm RuntimeDispatchProofs.tla
```

The proofs are in the eight modules `*Proofs.tla`.

The configuration of module `M` is `M.cfg`, for the module `MCM`. TLC is expected to refute
`RuntimeDispatchCompensation.cfg`, a second one for `MCRuntimeDispatch`. No run
needs more than four minutes with two workers. `CHECK_DEADLOCK FALSE` is set where the system may stop: the budget of a
behaviour is used up and everything has ended. Each property of a passing run has a mutant in
`PROJECT.json`: a definition of the model changed as a plausible bug would change the code, under which
TLC finds the property violated.
