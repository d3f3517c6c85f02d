------------------------ MODULE ExecutionFinalization ------------------------
(***************************************************************************)
(* What happens to a task when one of its executions ends: the verdict of   *)
(* the execution is written once, and finalizers carry it through the       *)
(* stages of the business finalization - artifacts, billing, draft,         *)
(* outcome, notification - each under a lease on the execution's row.  A    *)
(* finalizer is a completion callback of the agent, a user's cancellation,  *)
(* or a pass of the runtime reconciler; it may crash or lose its lease      *)
(* anywhere.  Meanwhile the task may be retried, reviewed or recovered,     *)
(* which starts the next execution.                                         *)
(*                                                                          *)
(* One task is modelled; executions are numbered by their attempt, and 0    *)
(* stands for none.  Time is abstract: a lease is fresh or not.             *)
(***************************************************************************)
EXTENDS Naturals, FiniteSets

CONSTANTS
  MaxAttempts,  \* bound on the executions of the task
  Finalizers,   \* concurrent calls into the finalizer
  Inputs,       \* completion requests an agent may send
  Failures,     \* the reasons for which an execution may fail
  Budgets       \* what a behaviour may contain: whether an execution may end as a motion
                \* sample to be reviewed, and how many crashes, failed steps and leases
                \* lost by a live finalizer

ASSUME FinalizationAssumption ==
  /\ MaxAttempts \in Nat \ {0} /\ "none" \notin Finalizers \cup Inputs
  /\ Failures \subseteq {"platform_error", "execution_timeout", "workflow_error"}
  /\ Budgets \subseteq [samples : BOOLEAN, faults : Nat]

VARIABLES
  task,       \* the task's row
  exec,       \* attempt -> its execution's row
  reversal,   \* the attempt whose end enqueued the reversal of the charge, if any
  notified,   \* task_status of the notifications enqueued for the task
  fin,        \* finalizer -> its local state
  budget      \* what this behaviour may still contain

finalizationVars == <<task, exec, reversal, notified, fin, budget>>

Attempts == 1..MaxAttempts
Nothing  == "none"

\* cloudFinalizationStep: the stages, and the one each leads to.  Stages in a row whose
\* steps touch nothing of this module (topic radar and feedback, provider cost, workflow
\* status) are one here: workflow stands for artifacts, domain, result and workflow,
\* dispatch for task, slot and dispatch, and the step from notification to done, which
\* does nothing, is left out.
Stages == <<"terminal", "workflow", "draft_delivery", "dispatch", "done">>
StageSet == {Stages[i] : i \in DOMAIN Stages}
Rank(s)  == CHOOSE i \in DOMAIN Stages : Stages[i] = s

\* Mutant: the table leads past the draft delivery.
NextStageSkips(s) == IF s = "terminal" THEN "draft_delivery" ELSE Stages[Rank(s) + 1]

NextStage(s) == Stages[Rank(s) + 1]

Active   == {"created", "running"}   \* created or dispatching; starting or running
Terminal == {"succeeded", "failed", "cancelled", "timed_out"}
Reasons  == {"none", "completed", "platform_error", "execution_timeout",
             "workflow_error", "user_cancelled"}
TaskStatuses == {"pending", "running", "awaiting_review", "completed", "failed", "cancelled"}

\* The columns of the task's row, of an execution's row, and a call's local state
TaskRow ==
  [status : TaskStatuses, cur : 0..MaxAttempts, result : 0..MaxAttempts,
   outcome : 0..MaxAttempts, from : {"new", "retry", "review", "recovery"}]
ExecRow ==
  [status : {"none"} \cup Active \cup Terminal, reason : Reasons,
   input : Inputs \cup {Nothing}, sample : BOOLEAN,
   stage : {"none", "superseded"} \cup StageSet,
   token : Finalizers \cup {Nothing}, fresh : BOOLEAN,
   files : {"pending", "delivered", "superseded", "retained"}, draft : BOOLEAN]
CallState ==
  [pc : {"idle", "claim", "act", "verify", "advance"}, exec : 0..MaxAttempts,
   stage : {"none"} \cup StageSet, waiting : BOOLEAN, durable : BOOLEAN]

FinalizationTypeOK ==
  /\ task \in TaskRow /\ exec \in [Attempts -> ExecRow]
  /\ reversal \subseteq 0..MaxAttempts /\ notified \subseteq TaskStatuses
  /\ fin \in [Finalizers -> CallState]
  /\ budget.samples \in BOOLEAN /\ budget.faults \in Nat

Idle == [pc |-> "idle", exec |-> 0, stage |-> "none", waiting |-> FALSE, durable |-> FALSE]

\* An admitted task before its first execution.
FinalizationInit ==
  /\ task = [status |-> "pending", cur |-> 0, result |-> 0, outcome |-> 0, from |-> "new"]
  /\ exec = [e \in Attempts |->
       [status |-> "none", reason |-> "none", input |-> Nothing, sample |-> FALSE,
        stage |-> "none", token |-> Nothing, fresh |-> FALSE, files |-> "pending",
        draft |-> FALSE]]
  /\ reversal = {} /\ notified = {}
  /\ fin = [f \in Finalizers |-> Idle] /\ budget \in Budgets

FinalizationFault == budget.faults > 0 /\ budget' = [budget EXCEPT !.faults = @ - 1]
Current(e) == task.cur = e

\* taskTerminalFromExecution, cloudTaskStatusForExecution
Verdict(e) ==
  CASE exec[e].status = "succeeded" -> "completed"
    [] exec[e].status = "cancelled" -> "cancelled"
    [] OTHER -> "failed"

\* finalizeCloudExecutionCore: a talking-head-editor sample waits for its review.
Target(e) == IF exec[e].sample THEN "awaiting_review" ELSE Verdict(e)

\* ShouldReverseTaskCharge
ShouldReverse(reason, durable) ==
  reason \in {"platform_error", "execution_timeout"} /\ ~durable

\* taskHasDurableDelivery
DurableDelivery ==
  \E e \in Attempts : /\ exec[e].status = "succeeded" /\ exec[e].stage = "done"
                      /\ exec[e].files = "delivered"

-----------------------------------------------------------------------------
(* The task between executions                                               *)

\* createCurrentExecution: pending becomes running, and the next attempt current, in
\* one transaction.
CreateCurrentExecution(e) ==
  /\ task.status = "pending" /\ exec[e].status = "none"
  /\ \A d \in Attempts : d < e => exec[d].status # "none"
  /\ task' = [task EXCEPT !.status = "running", !.cur = e, !.from = "new"]
  /\ exec' = [exec EXCEPT ![e].status = "created"]
  /\ UNCHANGED <<reversal, notified, fin, budget>>

\* The dispatch of the execution, which module RuntimeDispatch describes.
Dispatched(e) ==
  /\ exec[e].status = "created"
  /\ exec' = [exec EXCEPT ![e].status = "running"]
  /\ UNCHANGED <<task, reversal, notified, fin, budget>>

\* Retry and Resume, by ResetRetryableTask
ResetRetryableTask ==
  /\ task.status \in {"failed", "cancelled"}
  /\ task.cur # 0 => exec[task.cur].stage = "done"
  /\ task' = [task EXCEPT !.status = "pending", !.result = 0, !.outcome = 0, !.from = "retry"]
  /\ UNCHANGED <<exec, reversal, notified, fin, budget>>

\* ReviewTalkingHeadEditor, up to EnqueueExecution
Review ==
  /\ task.status = "awaiting_review"
  /\ task' = [task EXCEPT !.status = "pending", !.from = "review"]
  /\ UNCHANGED <<exec, reversal, notified, fin, budget>>

\* enqueueArticleVisualRecovery, up to EnqueueExecution
RecoverPublication ==
  /\ task.status = "completed" /\ task.outcome # 0
  /\ exec[task.cur].status \in Terminal
  /\ task' = [task EXCEPT !.status = "pending", !.from = "recovery"]
  /\ UNCHANGED <<exec, reversal, notified, fin, budget>>

\* EnqueueExecution fails: the review or the recovery is taken back.
EnqueueFails ==
  /\ task.status = "pending"
  /\ \/ task.from = "review" /\ task' = [task EXCEPT !.status = "awaiting_review", !.from = "new"]
     \/ task.from = "recovery" /\ task' = [task EXCEPT !.status = "completed", !.from = "new"]
  /\ UNCHANGED <<exec, reversal, notified, fin, budget>>

\* failPendingAdmittedTaskTransition, for a preparation, a dispatch or an enqueue of
\* a retry that failed: the reversal does not look at earlier deliveries.
FailPendingTask ==
  /\ task.status = "pending"
  /\ task' = [task EXCEPT !.status = "failed", !.from = "new"]
  /\ reversal' = IF ShouldReverse("platform_error", FALSE) /\ reversal = {} THEN {0} ELSE reversal
  /\ UNCHANGED <<exec, notified, fin, budget>>

-----------------------------------------------------------------------------
(* Ending an execution                                                       *)

\* finalizeTaskFromExecution, up to the claim: the stage is the caller's snapshot.
Enter(f, e, stage) ==
  /\ fin[f].pc = "idle"
  /\ fin' = [fin EXCEPT ![f] = [pc |-> "claim", exec |-> e, stage |-> stage,
                                waiting |-> task.status = "awaiting_review",
                                durable |-> FALSE]]

\* taskExecutionRepository.Transition
Transition(e, from, verdict, reason, input, sample) ==
  /\ exec[e].status \in from
  /\ exec' = [exec EXCEPT ![e].status = verdict, ![e].reason = reason, ![e].input = input,
                          ![e].sample = sample, ![e].stage = "terminal"]

\* CompleteCloudExecution, first time: the server decides from the delivered files
\* whether the attempt succeeded (cloudTerminalOutcome).  The read of the current
\* execution and the transition are one step, for the transition wins only in a
\* state in which the read still holds (NothingElseRuns).
Complete(f, e, i) ==
  /\ Current(e) /\ task.status = "running"
  /\ \/ \E s \in {FALSE, budget.samples} :
          Transition(e, {"running"}, "succeeded", "completed", i, s)
     \/ \E r \in Failures \ {"execution_timeout"} :
          Transition(e, {"running"}, "failed", r, i, FALSE)
  /\ Enter(f, e, "terminal")
  /\ UNCHANGED <<task, reversal, notified, budget>>

\* CompleteCloudExecution, repeated with the same request: another request, or an
\* end that no request brought about, is a conflict and changes nothing.
CompleteAgain(f, e, i) ==
  /\ Current(e) /\ exec[e].status \in Terminal /\ exec[e].stage # "done"
  /\ exec[e].input = i
  /\ Enter(f, e, exec[e].stage)
  /\ UNCHANGED <<task, exec, reversal, notified, budget>>

\* TerminalizeCurrentExecution, called by the runtime reconciler
TerminalizeCurrentExecution(f, e) ==
  /\ Current(e)
  /\ \E r \in Failures \ {"workflow_error"} :
       Transition(e, Active, IF r = "execution_timeout" THEN "timed_out" ELSE "failed", r, Nothing, FALSE)
  /\ Enter(f, e, "terminal")
  /\ UNCHANGED <<task, reversal, notified, budget>>

\* cancelCloudExecution
CancelCloudExecution(f, e) ==
  /\ Current(e) /\ task.status \in {"running", "cancelled"}
  /\ \/ Transition(e, Active, "cancelled", "user_cancelled", Nothing, FALSE)
        /\ Enter(f, e, "terminal")
     \/ exec[e].status = "cancelled" /\ exec[e].stage # "done"
        /\ Enter(f, e, exec[e].stage) /\ UNCHANGED exec
  /\ UNCHANGED <<task, reversal, notified, budget>>

\* ResumeExecutionFinalization, called by the runtime reconciler
ResumeFinalization(f, e) ==
  /\ Current(e) /\ exec[e].status \in Terminal /\ exec[e].stage # "done"
  /\ Enter(f, e, exec[e].stage)
  /\ UNCHANGED <<task, exec, reversal, notified, budget>>

\* RetireSupersededExecution.  Its other branch, an attempt that is still active, is
\* for rows the server no longer writes: see NothingElseRuns.
RetireSuperseded(e) ==
  /\ ~Current(e)
  /\ exec[e].status \in Terminal /\ exec[e].stage \notin {"done", "superseded"}
  /\ exec' = [exec EXCEPT ![e].stage = "superseded", ![e].token = Nothing]
  /\ UNCHANGED <<task, reversal, notified, fin, budget>>

-----------------------------------------------------------------------------
(* The finalizer                                                             *)

\* ReleaseFinalization
Release(f, e) ==
  exec' = IF exec[e].token = f
          THEN [exec EXCEPT ![e].token = Nothing, ![e].fresh = FALSE] ELSE exec

\* The call returns, with an error or without: the deferred release runs.
Return(f) ==
  /\ Release(f, fin[f].exec) /\ fin' = [fin EXCEPT ![f] = Idle]

Goto(f, step) == fin' = [fin EXCEPT ![f].pc = step]

\* Mutant: a lease once taken is never taken over.
ClaimableOnce(e) == exec[e].stage \notin {"done", "superseded"} /\ exec[e].token = Nothing

\* WHERE finalization_status NOT IN (done, superseded) AND (no token OR stale)
Claimable(e) ==
  /\ exec[e].stage \notin {"done", "superseded"}
  /\ exec[e].token = Nothing \/ ~exec[e].fresh

\* ClaimFinalization, and ensureFinalizationAuthority before the first step, for which
\* finalizeCloudExecutionCore looks for deliveries before its transaction
ClaimFinalization(f) ==
  LET e == fin[f].exec
  IN /\ fin[f].pc = "claim"
     /\ \/ /\ Claimable(e) /\ Current(e)
           /\ exec' = [exec EXCEPT ![e].token = f, ![e].fresh = TRUE]
           /\ fin' = [fin EXCEPT ![f].pc = "act",
                                 ![f].durable = fin[f].stage = "terminal" /\ DurableDelivery]
        \/ ~(Claimable(e) /\ Current(e)) /\ fin' = [fin EXCEPT ![f] = Idle] /\ UNCHANGED exec
     /\ UNCHANGED <<task, reversal, notified, budget>>

\* Mutant: a delivery does not withdraw the one before.
SettledBeside(e) ==
  [exec EXCEPT ![e].files = IF exec[e].status = "succeeded" THEN "delivered" ELSE "retained"]

\* deliverLockedExecutionManifest, retainLockedExecutionManifest
SettledFiles(e) ==
  IF exec[e].status = "succeeded"
  THEN [d \in Attempts |-> [exec[d] EXCEPT !.files =
          IF d = e THEN "delivered" ELSE IF @ = "delivered" THEN "superseded" ELSE @]]
  ELSE [exec EXCEPT ![e].files = "retained"]

\* persistTerminalBillingInTx
TerminalBilling(e, durable) ==
  reversal' = IF ShouldReverse(exec[e].reason, durable) /\ reversal = {} THEN {e} ELSE reversal

\* cloudTaskTerminalStateMatches
AlreadyFinal(e) ==
  /\ task.status = Target(e) /\ task.result = e
  /\ exec[e].files = IF exec[e].status = "succeeded" THEN "delivered" ELSE "retained"

\* FinalizeCloudTaskWithArtifactsInTx: the task is running, or was finalized before
CanFinalize(e) == Current(e) /\ (task.status = "running" \/ AlreadyFinal(e))

\* finalizeCloudExecutionCore's transaction with FinalizeCloudTaskWithArtifactsInTx
Core(f, e) ==
  /\ fin[f].stage = "terminal"
  /\ CanFinalize(e)
  /\ IF task.status = "running"
     THEN /\ task' = [task EXCEPT !.status = Target(e), !.result = e]
          /\ exec' = SettledFiles(e)
     ELSE UNCHANGED <<task, exec>>
  /\ TerminalBilling(e, fin[f].durable)
  /\ fin' = [fin EXCEPT ![f].pc = "verify", ![f].durable = FALSE,
                        ![f].waiting = Target(e) = "awaiting_review"]
  /\ UNCHANGED notified

\* ErrCloudTaskExecutionCASLost
CoreLost(f, e) ==
  /\ fin[f].stage = "terminal"
  /\ ~CanFinalize(e)
  /\ Return(f) /\ UNCHANGED <<task, reversal, notified>>

\* finalizeCloudDraftDelivery: the first delivery recorded stays.
DraftDelivery(f, e) ==
  /\ fin[f].stage = "workflow" /\ Goto(f, "verify")
  /\ exec' = [exec EXCEPT ![e].draft = TRUE]
  /\ UNCHANGED <<task, reversal, notified>>

\* finalizeCloudTaskOutcome, UpdateOutcomeForExecution
TaskOutcome(f, e) ==
  /\ fin[f].stage = "draft_delivery"
  /\ \/ Current(e) /\ task' = [task EXCEPT !.outcome = e] /\ Goto(f, "verify") /\ UNCHANGED exec
     \/ ~Current(e) /\ Return(f) /\ UNCHANGED task
  /\ UNCHANGED <<reversal, notified>>

\* notifyTerminalDurable: one row per task and status; the status is the one this
\* call saw of the task when it waits for review, the execution's otherwise.
Notify(f, e) ==
  /\ fin[f].stage = "dispatch" /\ Goto(f, "verify")
  /\ notified' = notified \cup
       {IF fin[f].waiting THEN "awaiting_review" ELSE Verdict(e)}
  /\ UNCHANGED <<task, exec, reversal>>

Act(f) ==
  LET e == fin[f].exec
  IN /\ fin[f].pc = "act"
     /\ \/ Core(f, e) \/ CoreLost(f, e) \/ DraftDelivery(f, e) \/ TaskOutcome(f, e)
        \/ Notify(f, e)
     /\ UNCHANGED budget

\* A step fails before its effect, or after it: the call ends and is resumed later.
ActFails(f) ==
  /\ fin[f].pc \in {"act", "verify"} /\ FinalizationFault /\ Return(f)
  /\ UNCHANGED <<task, reversal, notified>>

\* ensureFinalizationAuthority after the step, RenewFinalizationClaim
Verify(f) ==
  LET e == fin[f].exec
  IN /\ fin[f].pc = "verify"
     /\ \/ /\ Current(e) /\ exec[e].token = f /\ Goto(f, "advance")
           /\ exec' = [exec EXCEPT ![e].fresh = TRUE]
        \/ (~Current(e) \/ exec[e].token # f) /\ Return(f)
     /\ UNCHANGED <<task, reversal, notified, budget>>

\* Mutant: the advance looks at the token alone.
MayAdvanceByToken(f, e) == exec[e].token = f

\* WHERE finalization_token = ? AND finalization_status = from
MayAdvance(f, e) == exec[e].token = f /\ exec[e].stage = fin[f].stage

\* AdvanceFinalization, and ensureFinalizationAuthority before the next step; after the
\* last stage the call returns.
Advance(f) ==
  LET e == fin[f].exec  next == NextStage(fin[f].stage)
  IN /\ fin[f].pc = "advance"
     /\ \/ /\ MayAdvance(f, e) /\ next # "done" /\ Current(e)
           /\ exec' = [exec EXCEPT ![e].stage = next, ![e].fresh = TRUE]
           /\ fin' = [fin EXCEPT ![f].pc = "act", ![f].stage = next]
        \/ /\ MayAdvance(f, e) /\ (next = "done" \/ ~Current(e))
           /\ exec' = [exec EXCEPT ![e].stage = next, ![e].token = Nothing, ![e].fresh = FALSE]
           /\ fin' = [fin EXCEPT ![f] = Idle]
        \/ ~MayAdvance(f, e) /\ Return(f)
     /\ UNCHANGED <<task, reversal, notified, budget>>

\* The server dies: its lease stays behind.
Crash(f) ==
  /\ fin[f].pc # "idle" /\ FinalizationFault /\ fin' = [fin EXCEPT ![f] = Idle]
  /\ UNCHANGED <<task, exec, reversal, notified>>

\* The token's owner lives; a call that has yet to claim holds no lease.
Held(e) ==
  /\ exec[e].token # Nothing /\ fin[exec[e].token].exec = e
  /\ fin[exec[e].token].pc \notin {"idle", "claim"}

\* The lease runs out.  Under a live finalizer renewFinalizationLease prevents it,
\* unless its renewals are held up.
LeaseEnds(e) ==
  /\ exec[e].token # Nothing /\ exec[e].fresh
  /\ \/ ~Held(e) /\ UNCHANGED budget
     \/ Held(e) /\ FinalizationFault
  /\ exec' = [exec EXCEPT ![e].fresh = FALSE]
  /\ UNCHANGED <<task, reversal, notified, fin>>

Step(f) ==
  ClaimFinalization(f) \/ Act(f) \/ Verify(f) \/ Advance(f)

FinalizationNext ==
  \/ ResetRetryableTask \/ Review \/ RecoverPublication \/ EnqueueFails \/ FailPendingTask
  \/ \E e \in Attempts :
       CreateCurrentExecution(e) \/ Dispatched(e) \/ RetireSuperseded(e) \/ LeaseEnds(e)
  \/ \E f \in Finalizers :
       \/ Step(f) \/ ActFails(f) \/ Crash(f)
       \/ \E e \in Attempts :
            \/ TerminalizeCurrentExecution(f, e) \/ CancelCloudExecution(f, e) \/ ResumeFinalization(f, e)
            \/ \E i \in Inputs : Complete(f, e, i) \/ CompleteAgain(f, e, i)

FinalizationSpec == FinalizationInit /\ [][FinalizationNext]_finalizationVars

\* A call that has begun goes on, leases run out, and the reconcilers visit every
\* execution whose finalization is open; users, agents and faults owe nothing.
Fairness ==
  /\ \A f \in Finalizers : WF_finalizationVars(Step(f))
  /\ \A e \in Attempts :
       /\ WF_finalizationVars(LeaseEnds(e) /\ ~Held(e))
       /\ WF_finalizationVars(RetireSuperseded(e))
       /\ SF_finalizationVars(\E f \in Finalizers : ResumeFinalization(f, e))

FinalizationFairSpec == FinalizationSpec /\ Fairness

-----------------------------------------------------------------------------
(* Properties                                                                *)

Beyond(e, s) == exec[e].stage \in StageSet /\ Rank(exec[e].stage) > Rank(s)

\* A stage is passed only when its effect is there, whoever crashed or was replaced
\* in between: the files of the attempt are settled by its verdict, its draft is
\* decided, and a task that ended well carries the outcome of its current attempt.
StagesHaveEffects ==
  \A e \in Attempts :
    /\ Beyond(e, "terminal") =>
         exec[e].files \in IF exec[e].status = "succeeded" THEN {"delivered", "superseded"}
                           ELSE {"retained"}
    /\ Beyond(e, "workflow") => exec[e].draft
    /\ Beyond(e, "draft_delivery") /\ Current(e) /\ task.status \in {"completed", "awaiting_review"}
         => task.outcome = e
    /\ Beyond(e, "dispatch") => notified \cap {Verdict(e), Target(e)} # {}

\* The stage of an execution never goes back, although a finalizer works from a
\* snapshot of it that is older than its claim; done and superseded are final.
StagesOnlyForward ==
  \A e \in Attempts :
    /\ exec[e].stage \in {"done", "superseded"} => exec'[e].stage = exec[e].stage
    /\ exec[e].stage \in StageSet /\ exec'[e].stage \in StageSet =>
         Rank(exec'[e].stage) >= Rank(exec[e].stage)

\* "Only the task's current attempt may cross the terminal CAS": completion, timeout
\* and cancellation race, one verdict is written, it never changes, and a task that
\* leaves running does so with the verdict of its current attempt.
OneVerdict ==
  /\ \A e \in Attempts : exec[e].status \in Terminal =>
       <<exec'[e].status, exec'[e].reason, exec'[e].input>> =
         <<exec[e].status, exec[e].reason, exec[e].input>>
  /\ task.status = "running" /\ task'.status # "running" =>
       /\ task.cur # 0 /\ exec[task.cur].status \in Terminal
       /\ task'.status \in {Verdict(task.cur), Target(task.cur)}

\* Only the current attempt of a task can be active, so that the finalizer of an
\* older one finds nothing left to end, and only a running task has one.
NothingElseRuns ==
  \A e \in Attempts : exec[e].status \in Active => Current(e) /\ task.status = "running"

\* No attempt both delivers and has the charge reversed, whatever callbacks,
\* cancellations, crashes and replays of its end come together.
DeliveredOrReversed ==
  \A e \in Attempts :
    e \in reversal => exec[e].status # "succeeded" /\ exec[e].files = "retained"

\* Delivered files are withdrawn only for those of a newer attempt: a failed or cancelled
\* attempt leaves them alone.
DeliveryIsReplaced ==
  \A e \in Attempts :
    exec[e].files = "delivered" /\ exec'[e].files # "delivered" =>
      \E d \in Attempts : d > e /\ exec'[d].files = "delivered"

\* At most one attempt's files are delivered.
OneDelivery ==
  \A d, e \in Attempts : exec[d].files = "delivered" /\ exec[e].files = "delivered" => d = e

\* At any moment one attempt at most runs, one at most has its files delivered, and
\* none of them is delivered and refunded (createCurrentExecution,
\* deliverLockedExecutionManifest, persistTerminalBillingInTx).
AttemptsAreExclusive == FinalizationTypeOK /\ NothingElseRuns /\ DeliveredOrReversed /\ OneDelivery

\* What was decided stays decided, however many finalizers, replays and takeovers:
\* the verdict, the stage that was reached and the delivery.
NothingIsUndone == [][OneVerdict /\ StagesOnlyForward /\ DeliveryIsReplaced]_finalizationVars

\* Every end of an execution is finalized or superseded: "repeats of that attempt
\* resume incomplete stages" (CompleteCloudExecution), unless the task was sent back to
\* pending before the first stage was recorded.
FinalizationEnds ==
  \A e \in Attempts :
    exec[e].stage = "terminal" ~>
      \/ exec[e].stage \in {"done", "superseded"}
      \/ exec[e].stage = "terminal" /\ ~CanFinalize(e)
=============================================================================
