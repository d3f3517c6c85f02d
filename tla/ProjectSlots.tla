---------------------------- MODULE ProjectSlots ----------------------------
(***************************************************************************)
(* The tasks of one project between their admission and their deletion: a   *)
(* task waits as pending, reserves one of the project's slots (a counter in *)
(* Redis), is queued (asynq, one message per task), started by a worker,    *)
(* ended, finalized, retried, cancelled, deleted, or held back because its  *)
(* plan is paused.  The rows, the counter and the queue are three stores    *)
(* that no transaction spans: every call reads and writes them one by one,  *)
(* and crashes leave the rest undone.  A checker sets the counter to the    *)
(* number of running tasks once a minute.                                   *)
(*                                                                          *)
(* What ends an execution is module RuntimeDispatch's subject, the stages   *)
(* of its finalization before the slot is module ExecutionFinalization's.   *)
(***************************************************************************)
EXTENDS Integers, FiniteSets

CONSTANTS
  Tasks,       \* tasks of the project
  Planned,     \* those that belong to its plan
  Procs,       \* concurrent calls: requests, workers, finalizers, the checker
  Max,         \* effectiveProjectMaxConcurrent
  MaxTries,    \* asynq.MaxRetry
  Budgets      \* what the environment may do: the tasks it creates, what users do to
               \* them, and bounds on retries and on crashes and failed calls

ASSUME SlotsAssumption ==
  /\ IsFiniteSet(Tasks) /\ Planned \subseteq Tasks /\ "none" \notin Tasks
  /\ Max \in Nat \ {0} /\ MaxTries \in Nat
  /\ Budgets \subseteq [tasks : SUBSET Tasks, actions : SUBSET {"cancel", "delete", "pause"},
                        retries : Nat, faults : Nat]

VARIABLES
  task,     \* task -> its row, with the stage of its current execution
  plan,     \* the plan's status
  count,    \* the project's counter in Redis, or NoKey
  queue,    \* task -> its message in the queue
  proc,     \* call -> its local state
  budget    \* what is left of the budget this behaviour was given

vars == <<task, plan, count, queue, proc, budget>>

NoKey == -1
None  == "none"
Ended == {"completed", "failed", "cancelled"}

\* The stages of the current execution: active, ended but not yet applied to the task,
\* applied (TaskExecutionFinalizationTask), counted again (Slot), finalized.
Open  == {"terminal", "task", "slot"}

Idle == [pc |-> "idle", who |-> None, for |-> None, cur |-> None, todo |-> {},
         seen |-> 0, err |-> FALSE]

\* A task's row with the stage of its current execution, its message in the queue, and a
\* call's local state: where it is (pc), whose call it is (who), the task it is for, the task
\* it is enqueuing (cur) and those it is still to enqueue (todo), the running tasks it has
\* counted, and whether something failed
TaskRow == [status : {"absent", "pending", "running"} \cup Ended,
            exec : {"none", "active", "done"} \cup Open, end : Ended \cup {None},
            deleting : BOOLEAN]
Message == [state : {"no", "queued", "active", "archived"}, tries : 0..MaxTries]
CallState ==
  [pc : {"idle", "reserve", "enqueue", "release", "fail", "prepare", "start", "reply", "core",
         "count", "sync", "advance", "list", "delete", "swapRunning", "swapPending"},
   who : {None, "create", "retry", "worker", "final", "checker", "cancel", "delete"},
   for : Tasks \cup {None}, cur : Tasks \cup {None}, todo : SUBSET Tasks,
   seen : 0..Cardinality(Tasks), err : BOOLEAN]

TypeOK ==
  /\ task \in [Tasks -> TaskRow] /\ queue \in [Tasks -> Message] /\ proc \in [Procs -> CallState]
  /\ plan \in {"active", "paused"}
  /\ count \in {NoKey} \cup Nat /\ (count <= Max \/ count <= Cardinality(Tasks))
  /\ \E b \in Budgets : /\ budget.tasks = b.tasks /\ budget.actions = b.actions
                        /\ budget.retries \in 0..b.retries /\ budget.faults \in 0..b.faults

Init ==
  /\ task = [t \in Tasks |-> [status |-> "absent", exec |-> "none", end |-> None,
                              deleting |-> FALSE]]
  /\ plan = "active" /\ count = NoKey
  /\ queue = [t \in Tasks |-> [state |-> "no", tries |-> 0]]
  /\ proc = [p \in Procs |-> Idle] /\ budget \in Budgets

Fault     == budget.faults > 0 /\ budget' = [budget EXCEPT !.faults = @ - 1]
Value     == IF count = NoKey THEN 0 ELSE count
Running   == Cardinality({t \in Tasks : task[t].status = "running"})  \* CountRunningByProject
Dispatchable(t) == t \in Planned => plan = "active"

Go(p, r) == proc' = [proc EXCEPT ![p] = r]

\* Where a call goes when the tasks it had to enqueue are dealt with: a finalizer
\* advances, a worker answers the queue, and a failed enqueue is told to the caller.
Then(r) ==
  IF r.todo # {} THEN [r EXCEPT !.pc = "reserve", !.cur = None]
  ELSE CASE r.who \in {"create", "retry"} /\ r.err -> [r EXCEPT !.pc = "fail", !.cur = None]
         [] r.who = "final" /\ ~r.err -> [r EXCEPT !.pc = "advance", !.cur = None]
         [] r.who = "delete" /\ ~r.err ->
              [r EXCEPT !.pc = IF task[r.for].exec = "slot" THEN "advance" ELSE "delete", !.cur = None]
         [] r.who = "worker" -> [r EXCEPT !.pc = "reply", !.cur = None]
         [] OTHER -> Idle

-----------------------------------------------------------------------------
(* Requests                                                                  *)

\* CreateManual, CreateFromPlan: admission, then EnqueueExecution
Create(p, t) ==
  /\ proc[p].pc = "idle" /\ t \in budget.tasks
  /\ task[t].status = "absent" /\ ~task[t].deleting /\ Dispatchable(t)
  /\ task' = [task EXCEPT ![t].status = "pending"]
  /\ Go(p, [Idle EXCEPT !.pc = "reserve", !.who = "create", !.for = t, !.todo = {t}])
  /\ UNCHANGED <<plan, count, queue, budget>>

\* Retry, Resume: ResetRetryableTask, then EnqueueExecution
Retry(p, t) ==
  /\ proc[p].pc = "idle" /\ budget.retries > 0 /\ budget' = [budget EXCEPT !.retries = @ - 1]
  /\ task[t].status \in {"failed", "cancelled"} /\ ~task[t].deleting
  /\ task[t].exec \in {"none", "done"}
  /\ task' = [task EXCEPT ![t].status = "pending", ![t].end = None]
  /\ Go(p, [Idle EXCEPT !.pc = "reserve", !.who = "retry", !.for = t, !.todo = {t}])
  /\ UNCHANGED <<plan, count, queue>>

\* Nobody finalizes t: the lease of module ExecutionFinalization.
Unclaimed(t) ==
  \A p \in Procs : proc[p].for = t =>
    proc[p].who # "final" /\ (proc[p].who = "delete" /\ task[t].exec \in Open => proc[p].pc = "delete")

\* The stage a finalizer starts from
StageOf(t) == CASE task[t].exec = "terminal" -> "core" [] task[t].exec = "task" -> "count"
                [] OTHER -> "list"

\* cancel and Delete's call of it, for a task that has no current execution when it is
\* fetched: what follows looks at the status alone.
CancelPending(p, t, who) ==
  /\ task[t].exec = "none" /\ task[t].status # "absent"
  /\ Go(p, [Idle EXCEPT !.pc = "swapRunning", !.who = who, !.for = t])
  /\ UNCHANGED task

\* compareAndSwapCancelStatus, first from running, then from pending; after it the slot is
\* released whether or not the task holds one.
SwapCancelled(p, from) ==
  LET t == proc[p].for IN
  /\ task[t].status = from /\ task' = [task EXCEPT ![t].status = "cancelled"]
  /\ Go(p, [proc[p] EXCEPT !.pc = "release"])

SwapRunning(p) ==
  /\ proc[p].pc = "swapRunning"
  /\ \/ SwapCancelled(p, "running")
     \/ /\ task[proc[p].for].status # "running"
        /\ Go(p, [proc[p] EXCEPT !.pc = "swapPending"]) /\ UNCHANGED task
  /\ UNCHANGED <<plan, count, queue, budget>>

SwapPending(p) ==
  /\ proc[p].pc = "swapPending"
  /\ \/ SwapCancelled(p, "pending")
     \/ task[proc[p].for].status # "pending" /\ Go(p, Idle) /\ UNCHANGED task
  /\ UNCHANGED <<plan, count, queue, budget>>

\* cancelCloudExecution: ends an active execution, or resumes one that was cancelled.
Cancellable(t) ==
  /\ task[t].status \in {"running", "cancelled"}
  /\ task[t].exec = "active" \/ (task[t].exec \in Open /\ task[t].end = "cancelled" /\ Unclaimed(t))

CancelExecution(p, t, who) ==
  /\ Cancellable(t)
  /\ IF task[t].exec = "active"
     THEN /\ task' = [task EXCEPT ![t].exec = "terminal", ![t].end = "cancelled"]
          /\ Go(p, [Idle EXCEPT !.pc = "core", !.who = who, !.for = t])
     ELSE /\ Go(p, [Idle EXCEPT !.pc = StageOf(t), !.who = who, !.for = t]) /\ UNCHANGED task

Cancel(p, t) ==
  /\ "cancel" \in budget.actions /\ proc[p].pc = "idle"
  /\ CancelPending(p, t, "cancel") \/ CancelExecution(p, t, "final")
  /\ UNCHANGED <<plan, count, queue, budget>>

\* Delete, first step: BeginDelete.  A delete that failed is tried again by the user.
BeginDelete(p, t) ==
  /\ "delete" \in budget.actions /\ proc[p].pc = "idle" /\ task[t].status # "absent"
  /\ task' = [task EXCEPT ![t].deleting = TRUE]
  /\ Go(p, [Idle EXCEPT !.pc = "delete", !.who = "delete", !.for = t])
  /\ UNCHANGED <<plan, count, queue, budget>>

\* Mutant: a task whose finalization is open is removed.
RemovableEarly(t) == task[t].status \in Ended

\* Delete's conditions for the removal of the row
Removable(t) == task[t].status \in Ended /\ task[t].exec \in {"none", "done"}

\* Delete, after the reload: cancel, remove, or fail with an error; a cancelled task
\* is cancelled again while its runtime is not cleaned up.
DeleteReloaded(p) ==
  LET t == proc[p].for
      fresh == task[t].exec = "none" /\ task[t].status \in {"pending", "running"}
  IN /\ proc[p].pc = "delete"
     /\ \/ fresh /\ CancelPending(p, t, "delete")
        \/ CancelExecution(p, t, "delete")
        \/ Removable(t) /\ task' = [task EXCEPT ![t].status = "absent"] /\ Go(p, Idle)
        \/ /\ ~Removable(t) /\ ~fresh
           /\ Cancellable(t) => task[t].status = "cancelled" /\ task[t].exec # "active"
           /\ Go(p, Idle) /\ UNCHANGED task
     /\ UNCHANGED <<plan, count, queue, budget>>

\* PlanService.Pause: the backlog that never ran is cancelled in the same transaction.
Pause ==
  /\ "pause" \in budget.actions /\ plan = "active" /\ plan' = "paused"
  /\ task' = [t \in Tasks |->
       IF t \in Planned /\ task[t].status = "pending" /\ task[t].exec = "none" /\ ~task[t].deleting
       THEN [task[t] EXCEPT !.status = "cancelled"] ELSE task[t]]
  /\ UNCHANGED <<count, queue, proc, budget>>

\* PlanService.Resume
ResumePlan ==
  /\ "pause" \in budget.actions /\ plan = "paused" /\ plan' = "active"
  /\ UNCHANGED <<task, count, queue, proc, budget>>

-----------------------------------------------------------------------------
(* EnqueueExecution                                                          *)

Dropped(r, t, failed) == [r EXCEPT !.todo = @ \ {t}, !.cur = None, !.err = @ \/ failed]

\* EnqueueExecution, up to the slot: a task being deleted is an error, an ended one is
\* nothing to do, and without a slot the task stays pending.  When Redis fails, the
\* running tasks are counted instead.
Reserve(p) ==
  \E t \in proc[p].todo :
    LET r == proc[p]
        gone  == task[t].deleting \/ task[t].status = "absent"
        over  == task[t].status \in Ended /\ task[t].exec \in {"none", "done"}
        enqueue == Go(p, [r EXCEPT !.pc = "enqueue", !.cur = t])
        drop    == Go(p, Then(Dropped(r, t, gone)))
    IN /\ r.pc = "reserve"
       /\ \/ (gone \/ over) /\ drop /\ UNCHANGED <<count, budget>>
          \/ ~gone /\ ~over /\ Value < Max /\ enqueue /\ count' = Value + 1 /\ UNCHANGED budget
          \/ ~gone /\ ~over /\ Value >= Max /\ drop /\ UNCHANGED <<count, budget>>
          \/ /\ ~gone /\ ~over /\ Fault /\ UNCHANGED count
             /\ IF Running < Max THEN enqueue ELSE drop
       /\ UNCHANGED <<task, plan, queue>>

\* EnqueueUnique: a message with the task's id, in whatever state, is a conflict.
EnqueueUnique(p) ==
  LET r == proc[p]  t == r.cur
      failed(e) == Go(p, [Dropped(r, t, e) EXCEPT !.pc = "release", !.cur = t])
  IN /\ r.pc = "enqueue"
     /\ \/ /\ queue[t].state = "no" /\ queue' = [queue EXCEPT ![t] = [state |-> "queued", tries |-> 0]]
           /\ Go(p, Then(Dropped(r, t, FALSE))) /\ UNCHANGED budget
        \/ queue[t].state # "no" /\ failed(FALSE) /\ UNCHANGED <<queue, budget>>
        \/ Fault /\ failed(TRUE) /\ UNCHANGED queue
     /\ UNCHANGED <<task, plan, count>>

\* ReleaseSlot
ReleaseSlot(p) ==
  /\ proc[p].pc = "release"
  /\ count' = IF count > 0 THEN count - 1 ELSE count
  /\ Go(p, Then(proc[p]))
  /\ UNCHANGED <<task, plan, queue, budget>>

\* The enqueue of a new or retried task failed: failPendingAdmittedTask, after which a
\* retry releases the slot once more.
EnqueueFailed(p) ==
  LET t == proc[p].for
  IN /\ proc[p].pc = "fail"
     /\ task' = IF task[t].status = "pending" THEN [task EXCEPT ![t].status = "failed"] ELSE task
     /\ Go(p, IF proc[p].who = "retry" THEN [Idle EXCEPT !.pc = "release", !.who = "retry"] ELSE Idle)
     /\ UNCHANGED <<plan, count, queue, budget>>

-----------------------------------------------------------------------------
(* The worker                                                                *)

\* HandleExecutionFromPayload: nothing is done for an ended task, and a deleted one is
\* an error.
Take(p, t) ==
  /\ proc[p].pc = "idle" /\ queue[t].state = "queued"
  /\ IF task[t].status \in Ended
     THEN /\ queue' = [queue EXCEPT ![t] = [state |-> "no", tries |-> 0]] /\ UNCHANGED proc
     ELSE /\ queue' = [queue EXCEPT ![t].state = "active"]
          /\ Go(p, [Idle EXCEPT !.pc = IF task[t].status = "absent" THEN "reply" ELSE "prepare",
                                !.who = "worker", !.for = t, !.err = task[t].status = "absent"])
  /\ UNCHANGED <<task, plan, count, budget>>

\* failPendingAdmittedTaskTransition, and if it won the post-commit work: count, notify,
\* DispatchPendingTasks.
FailPending(p, t, lost) ==
  IF task[t].status = "pending"
  THEN /\ task' = [task EXCEPT ![t].status = "failed"] /\ Go(p, [proc[p] EXCEPT !.pc = "count"])
  ELSE Go(p, [proc[p] EXCEPT !.pc = "reply", !.err = lost]) /\ UNCHANGED task

\* preparePendingExecution
Prepare(p) ==
  /\ proc[p].pc = "prepare"
  /\ \/ Go(p, [proc[p] EXCEPT !.pc = "start"]) /\ UNCHANGED <<task, budget>>
     \/ Fault /\ FailPending(p, proc[p].for, FALSE)
  /\ UNCHANGED <<plan, count, queue>>

\* Mutant: the start swaps the status alone.
MayStartAny(t) == task[t].status = "pending"

\* CompareAndSwapStatusAndStartedAt
MayStart(t) == task[t].status = "pending" /\ ~task[t].deleting

\* dispatchPendingTask with createCurrentExecution: a paused plan leaves the task
\* pending; a task that cannot be started is failed, unless it runs already.
Start(p) ==
  LET t == proc[p].for
  IN /\ proc[p].pc = "start"
     /\ \/ ~Dispatchable(t) /\ Go(p, [proc[p] EXCEPT !.pc = "reply"]) /\ UNCHANGED <<task, budget>>
        \/ /\ Dispatchable(t) /\ MayStart(t)
           /\ task' = [task EXCEPT ![t].status = "running", ![t].exec = "active"]
           /\ \/ Go(p, [proc[p] EXCEPT !.pc = "reply"]) /\ UNCHANGED budget
              \/ Fault /\ Go(p, [proc[p] EXCEPT !.pc = "reply", !.err = TRUE])
        \/ /\ Dispatchable(t) /\ ~MayStart(t) /\ task[t].status = "running" /\ task[t].exec = "active"
           /\ Go(p, [proc[p] EXCEPT !.pc = "reply"]) /\ UNCHANGED <<task, budget>>
        \/ /\ Dispatchable(t) /\ ~MayStart(t)
           /\ ~(task[t].status = "running" /\ task[t].exec = "active")
           /\ FailPending(p, t, TRUE) /\ UNCHANGED budget
     /\ UNCHANGED <<plan, count, queue>>

\* The worker returns to asynq: a failed message is tried again, then archived.
Reply(p) ==
  LET t == proc[p].for
  IN /\ proc[p].pc = "reply" /\ Go(p, Idle)
     /\ queue' = [queue EXCEPT ![t] =
          CASE ~proc[p].err -> [state |-> "no", tries |-> 0]
            [] proc[p].err /\ queue[t].tries < MaxTries -> [state |-> "queued", tries |-> queue[t].tries + 1]
            [] OTHER -> [queue[t] EXCEPT !.state = "archived"]]
     /\ UNCHANGED <<task, plan, count, budget>>

-----------------------------------------------------------------------------
(* The end of an execution                                                   *)

\* Completion by the agent, or the reconciler's verdict
End(t) ==
  /\ task[t].exec = "active"
  /\ \E v \in {"completed", "failed"} :
       task' = [task EXCEPT ![t].exec = "terminal", ![t].end = v]
  /\ UNCHANGED <<plan, count, queue, proc, budget>>

\* finalizeTaskFromExecution, from the stage where it stands
Finalize(p, t) ==
  /\ proc[p].pc = "idle" /\ task[t].exec \in Open /\ Unclaimed(t)
  /\ Go(p, [Idle EXCEPT !.who = "final", !.for = t, !.pc = StageOf(t)])
  /\ UNCHANGED <<task, plan, count, queue, budget>>

\* finalizeCloudExecutionCore and the stages up to the task's; a task that is not running
\* any more, though no finalizer ended it, is refused as stale, by every later call too.
Core(p) ==
  LET t == proc[p].for
  IN /\ proc[p].pc = "core"
     /\ \/ /\ task[t].status = "running"
           /\ task' = [task EXCEPT ![t].status = task[t].end, ![t].exec = "task"]
           /\ Go(p, [proc[p] EXCEPT !.pc = "count"])
        \/ task[t].status # "running" /\ Go(p, Idle) /\ UNCHANGED task
     /\ UNCHANGED <<plan, count, queue, budget>>

\* syncCloudSlot, syncProjectRunningCounts, finalizeFailedExecutionPostCommit: the
\* running tasks are counted, and the counter is set to what was counted.
CountRunning(p) ==
  /\ proc[p].pc = "count" /\ Go(p, [proc[p] EXCEPT !.seen = Running, !.pc = "sync"])
  /\ UNCHANGED <<task, plan, count, queue, budget>>

\* Mutant: a count of zero leaves the counter as it is.
SyncedUp(n) == IF n = 0 THEN count ELSE n

\* SyncProjectCount
Synced(n) == IF n = 0 THEN NoKey ELSE n

SyncProjectCount(p) ==
  /\ proc[p].pc = "sync" /\ count' = Synced(proc[p].seen)
  /\ Go(p, CASE proc[p].who = "worker" -> [proc[p] EXCEPT !.pc = "list"]
             [] proc[p].who = "checker" -> Idle
             [] OTHER -> [proc[p] EXCEPT !.pc = "advance"])
  /\ UNCHANGED <<task, plan, queue, budget>>

\* AdvanceFinalization: from the task's stage to the slot's, then to the end
Advance(p) ==
  LET t == proc[p].for
  IN /\ proc[p].pc = "advance"
     /\ \/ /\ task[t].exec = "task" /\ task' = [task EXCEPT ![t].exec = "slot"]
           /\ Go(p, [proc[p] EXCEPT !.pc = "list"])
        \/ /\ task[t].exec = "slot" /\ task' = [task EXCEPT ![t].exec = "done"]
           /\ Go(p, IF proc[p].who = "delete" THEN [Idle EXCEPT !.pc = "delete", !.who = "delete", !.for = t]
                    ELSE Idle)
     /\ UNCHANGED <<plan, count, queue, budget>>

\* DispatchPendingTasks, up to EnqueueExecution: as many pending tasks as there are
\* slots, in an order this module leaves open.
List(p) ==
  LET free == Max - IF count = NoKey THEN Running ELSE count
      pending == {t \in Tasks : task[t].status = "pending" /\ ~task[t].deleting /\ Dispatchable(t)}
  IN /\ proc[p].pc = "list"
     /\ \E s \in SUBSET pending :
          /\ Cardinality(s) <= free \/ s = {}
          /\ Cardinality(s) < free => s = pending
          /\ Go(p, Then([proc[p] EXCEPT !.todo = s]))
     /\ UNCHANGED <<task, plan, count, queue, budget>>

\* tryAcquireAndCheck: one replica at a time
Check(p) ==
  /\ proc[p].pc = "idle" /\ \A q \in Procs : proc[q].who # "checker"
  /\ Go(p, [Idle EXCEPT !.pc = "count", !.who = "checker"])
  /\ UNCHANGED <<task, plan, count, queue, budget>>

\* The server dies; asynq hands the message of a dead worker out again.
Crash(p) ==
  /\ proc[p].pc # "idle" /\ Fault /\ Go(p, Idle)
  /\ queue' = IF proc[p].who = "worker" THEN [queue EXCEPT ![proc[p].for].state = "queued"] ELSE queue
  /\ UNCHANGED <<task, plan, count>>

Step(p) ==
  \/ Reserve(p) \/ EnqueueUnique(p) \/ ReleaseSlot(p) \/ EnqueueFailed(p)
  \/ Prepare(p) \/ Start(p) \/ Reply(p)
  \/ Core(p) \/ CountRunning(p) \/ SyncProjectCount(p) \/ Advance(p) \/ List(p)
  \/ DeleteReloaded(p) \/ SwapRunning(p) \/ SwapPending(p)

Next ==
  \/ Pause \/ ResumePlan
  \/ \E t \in Tasks : End(t)
  \/ \E p \in Procs :
       \/ Step(p) \/ Check(p) \/ Crash(p)
       \/ \E t \in Tasks : \/ Create(p, t) \/ Retry(p, t) \/ Cancel(p, t) \/ BeginDelete(p, t)
                           \/ Take(p, t) \/ Finalize(p, t)

Spec == Init /\ [][Next]_vars

\* Calls go on and the checker comes round every minute; nothing else need happen.
Fairness == (\A p \in Procs : WF_vars(Step(p))) /\ SF_vars(\E p \in Procs : Check(p))

FairSpec == Spec /\ Fairness

-----------------------------------------------------------------------------
(* Properties                                                                *)

\* A task is running exactly while its current execution is active or has ended
\* without being applied, whoever created, retried or deleted it meanwhile: the swaps of a
\* Delete never overtake a start.  Those of a user's cancel may, which had fetched the task
\* before it was started; nothing else leaves an execution under way behind.
RunningHasExecution ==
  \A t \in Tasks :
    /\ task[t].status = "running" => task[t].exec \in {"active", "terminal"}
    /\ task[t].exec \in {"active", "terminal"} =>
         task[t].status = "running" \/ (task[t].status = "cancelled" /\ "cancel" \in budget.actions)

\* A task is removed only when nothing of it can act any more: its execution has been
\* finalized, nobody holds the finalizer's lease, and no late worker starts it again.
RemovedIsGone ==
  \A t \in Tasks : task[t].deleting /\ task[t].status = "absent" =>
    task[t].exec \in {"none", "done"} /\ Unclaimed(t)

\* Once a task is being deleted, it is not set going again: no retry, late worker,
\* dispatcher or plan takes it back to pending or running.
DeletingOnlyEnds ==
  \A t \in Tasks : task[t].deleting =>
    /\ task'[t].deleting
    /\ task'[t].status = "pending" => task[t].status = "pending"
    /\ task'[t].status = "running" => task[t].status = "running"

\* While the plan is paused none of its tasks starts, although messages for them are
\* still queued.
PausedStartsNothing ==
  plan = "paused" => \A t \in Planned : task'[t].status = "running" => task[t].status = "running"

\* What runs has an execution, and what is removed has nothing left that could act
\* (Delete, finalizeTaskFromExecution).
TasksAreSound == TypeOK /\ RunningHasExecution /\ RemovedIsGone

\* A start that comes late, from a queued message, a retry or the dispatcher, is
\* refused once the task is being deleted or its plan is paused (createCurrentExecution).
LateStartsAreRefused == [][DeletingOnlyEnds /\ PausedStartsNothing]_vars

\* Slots that were reserved for nothing - a paused or cancelled task, a crash between
\* the reservation and the queue - come back: again and again the counter is at most
\* the tasks that run or are on their way.
OnTheirWay ==
  Cardinality({t \in Tasks : queue[t].state \in {"queued", "active"} /\ task[t].status # "running"})
    + Cardinality({p \in Procs : proc[p].pc \in {"enqueue", "release"}})

SlotsComeBack == []<>(Value <= Running + OnTheirWay)
=============================================================================
