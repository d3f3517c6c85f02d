---------------------------- MODULE PlanTriggers ----------------------------
(***************************************************************************)
(* Plans create tasks on a cron schedule.  Every server checks once a       *)
(* minute under a lock in Redis which plans are due, and triggers each of   *)
(* them under a lock of that plan: it reads the row again, creates a task   *)
(* per entry and moves next_run_at on.  Users trigger a plan by hand,       *)
(* pause, resume, edit and delete it meanwhile.  The locks are keys that    *)
(* expire, the rows change under plain updates, and the creations and the   *)
(* move of next_run_at are separate transactions.                           *)
(*                                                                          *)
(* What becomes of the tasks is module ProjectSlots' subject.  Time is      *)
(* counted in the units of the cron expressions: expression c fires at the  *)
(* multiples of c.                                                          *)
(***************************************************************************)
EXTENDS Integers, FiniteSets

CONSTANTS
  Plans, Entries,    \* plans; the Agents they may have an entry for
  Checkers,          \* one plan checker per server
  Callers,           \* requests by users that trigger, resume or edit a plan
  Crons,             \* cron expressions, by their period
  MaxTime,           \* bound on the clock
  Budgets            \* what a behaviour may contain: the plans and entries that exist at
                     \* first, the servers that check, what users do, and bounds on the
                     \* clock, on what users do, and on crashes, stalls and failed updates

UserActions == {"execute", "pause", "resume", "edit", "delete"}

\* There are finitely many servers, and an expression that fires least often.
ASSUME PlansAssumption ==
  /\ Checkers \cap Callers = {} /\ "none" \notin Plans \cup Checkers \cup Callers
  /\ IsFiniteSet(Checkers)
  /\ Crons \subseteq Nat \ {0} /\ \E c \in Crons : \A d \in Crons : d <= c
  /\ MaxTime \in Nat
  /\ Budgets \subseteq [plans : SUBSET Plans, entries : SUBSET Entries, servers : SUBSET Checkers,
                        crons : SUBSET Crons, actions : SUBSET UserActions, time : 0..MaxTime,
                        acts : Nat, faults : Nat]

VARIABLES
  now,
  plan,       \* plan -> its row and its entries
  made,       \* plan -> occurrence -> entry -> tasks the checkers created for it
  backlog,    \* plan -> a task of it was created and has not started
  checkLock,  \* planCheckerLockKey is set
  lock,       \* plan -> the token of its trigger lock, or None
  proc,       \* call -> its local state
  acts, faults,
  budget      \* the budget of this behaviour

vars == <<now, plan, made, backlog, checkLock, lock, proc, acts, faults, budget>>

Procs == Checkers \cup Callers
None  == "none"
Never == -1                       \* next_run_at IS NULL

\* next_run_at gets past the clock by the occurrence that follows and at most one more for
\* every server with a stale list of due plans.
Longest == CHOOSE c \in Crons : \A d \in Crons : d <= c
Ahead(servers) == (1 + Cardinality(servers)) * Longest
Times == 0..(MaxTime + Ahead(Checkers))

Next_(c, t) == c * (t \div c + 1)          \* cron.Schedule.Next

\* A plan's row, with the Agents it has an entry for, and a call's local state: where it is,
\* its plan, the due plans still to visit, the row it has read, the entries still to create,
\* and the expression it will write
PlanRow(crons) == [status : {"active", "paused", "gone"}, cron : crons, next : Nat \cup {Never},
                   entries : SUBSET Entries]
CallState ==
  [pc : {"idle", "list", "loop", "lock", "reload", "entries", "create", "advance", "release",
         "resume", "edit"},
   plan : Plans \cup {None}, todo : SUBSET Plans, seen : PlanRow(Crons \cup {0}),
   left : SUBSET Entries, cron : Crons \cup {0}]

NoRow == [status |-> "gone", cron |-> 0, next |-> Never, entries |-> {}]
Idle  == [pc |-> "idle", plan |-> None, todo |-> {}, seen |-> NoRow, left |-> {}, cron |-> 0]

\* The schedule stays within the occurrences that made counts.
WithinTimes == \A p \in Plans : plan[p].next <= now + Ahead(budget.servers)

TypeOK ==
  /\ now \in 0..MaxTime
  /\ plan \in [Plans -> PlanRow(Crons)] /\ WithinTimes
  /\ made \in [Plans -> [Times -> [Entries -> Nat]]]
  /\ backlog \in [Plans -> BOOLEAN] /\ checkLock \in BOOLEAN
  /\ lock \in [Plans -> Procs \cup {None}]
  /\ proc \in [Procs -> CallState]
  /\ budget \in Budgets /\ acts \in 0..budget.acts /\ faults \in 0..budget.faults

Init ==
  /\ now = 0
  /\ budget \in Budgets
  /\ \E c \in budget.crons :
       plan = [p \in Plans |->
         IF p \in budget.plans
           THEN [status |-> "active", cron |-> c, next |-> Next_(c, 0), entries |-> budget.entries]
           ELSE [status |-> "gone", cron |-> c, next |-> Never, entries |-> {}]]
  /\ made = [p \in Plans |-> [t \in Times |-> [e \in Entries |-> 0]]]
  /\ backlog = [p \in Plans |-> FALSE]
  /\ checkLock = FALSE /\ lock = [p \in Plans |-> None]
  /\ proc = [q \in Procs |-> Idle]
  /\ acts = 0 /\ faults = 0

Tick ==
  /\ now < budget.time /\ now' = now + 1
  /\ UNCHANGED <<plan, made, backlog, checkLock, lock, proc, acts, faults, budget>>

Goto(q, pc) == proc' = [proc EXCEPT ![q].pc = pc]

-----------------------------------------------------------------------------
(* The plan checker                                                          *)

\* SetNX with a TTL of 55 seconds; a check may take longer, and whoever ends a check
\* deletes the key, by then perhaps another server's.
TryAcquire(q) ==
  /\ q \in budget.servers /\ proc[q].pc = "idle" /\ ~checkLock
  /\ checkLock' = TRUE /\ Goto(q, "list")
  /\ UNCHANGED <<now, plan, made, backlog, lock, acts, faults, budget>>

ExpireCheck ==
  /\ checkLock /\ checkLock' = FALSE
  /\ UNCHANGED <<now, plan, made, backlog, lock, proc, acts, faults, budget>>

Due(p) == plan[p].status = "active" /\ plan[p].next # Never /\ plan[p].next <= now

ListDue(q) ==
  /\ proc[q].pc = "list"
  /\ proc' = [proc EXCEPT ![q].pc = "loop", ![q].todo = {p \in Plans : Due(p)}]
  /\ UNCHANGED <<now, plan, made, backlog, checkLock, lock, acts, faults, budget>>

TakePlan(q) ==
  /\ proc[q].pc = "loop"
  /\ \E p \in proc[q].todo :
       proc' = [proc EXCEPT ![q].pc = "lock", ![q].plan = p, ![q].todo = @ \ {p}]
  /\ UNCHANGED <<now, plan, made, backlog, checkLock, lock, acts, faults, budget>>

EndCheck(q) ==
  /\ proc[q].pc = "loop" /\ proc[q].todo = {}
  /\ checkLock' = FALSE /\ proc' = [proc EXCEPT ![q] = Idle]
  /\ UNCHANGED <<now, plan, made, backlog, lock, acts, faults, budget>>

-----------------------------------------------------------------------------
(* Triggering a plan                                                         *)

\* A checker goes on with the next plan it listed, a request is answered.
After(q) == IF q \in Checkers THEN [Idle EXCEPT !.pc = "loop", !.todo = proc[q].todo] ELSE Idle

\* Mutant: the lock is taken whoever holds it.
AcquirePlanTriggerLockAlways(q) ==
  /\ proc[q].pc = "lock" /\ lock' = [lock EXCEPT ![proc[q].plan] = q]
  /\ Goto(q, "reload")
  /\ UNCHANGED <<now, plan, made, backlog, checkLock, acts, faults, budget>>

AcquirePlanTriggerLock(q) ==
  /\ proc[q].pc = "lock"
  /\ IF lock[proc[q].plan] = None
       THEN lock' = [lock EXCEPT ![proc[q].plan] = q] /\ Goto(q, "reload")
       ELSE UNCHANGED lock /\ proc' = [proc EXCEPT ![q] = After(q)]
  /\ UNCHANGED <<now, plan, made, backlog, checkLock, acts, faults, budget>>

\* The row is read again; of what it says only the status is checked.
Reload(q) ==
  /\ proc[q].pc = "reload"
  /\ proc' = [proc EXCEPT ![q].seen = plan[proc[q].plan],
       ![q].pc = IF plan[proc[q].plan].status = "active" THEN "entries" ELSE "release"]
  /\ UNCHANGED <<now, plan, made, backlog, checkLock, lock, acts, faults, budget>>

\* A plan without entries (it was deleted meanwhile) is an error.
ListEntries(q) ==
  LET entries == plan[proc[q].plan].entries IN
  /\ proc[q].pc = "entries"
  /\ proc' = [proc EXCEPT ![q].left = entries, ![q].pc = IF entries = {} THEN "release" ELSE "create"]
  /\ UNCHANGED <<now, plan, made, backlog, checkLock, lock, acts, faults, budget>>

\* Mutant: the creation does not look at the plan's status.
CreatePaused(q, e) ==
  LET p == proc[q].plan IN
  /\ proc[q].pc = "create" /\ e \in proc[q].left
  /\ backlog' = [backlog EXCEPT ![p] = TRUE]
  /\ made' = IF q \in Checkers THEN [made EXCEPT ![p][proc[q].seen.next][e] = @ + 1] ELSE made
  /\ proc' = [proc EXCEPT ![q].left = @ \ {e}]
  /\ UNCHANGED <<now, plan, checkLock, lock, acts, faults, budget>>

\* The task is created in a transaction that locks the project and the plan: refused when
\* the plan is paused, done when its row is gone, and otherwise subject to the admission
\* (credits, Agent, references).  A refusal leaves the other entries' tasks alone.
CreateFromPlanEntry(q, e) ==
  LET p == proc[q].plan IN
  /\ proc[q].pc = "create" /\ e \in proc[q].left
  /\ \/ /\ plan[p].status # "paused"
        /\ backlog' = [backlog EXCEPT ![p] = TRUE]
        /\ made' = IF q \in Checkers THEN [made EXCEPT ![p][proc[q].seen.next][e] = @ + 1] ELSE made
     \/ UNCHANGED <<backlog, made>>
  /\ proc' = [proc EXCEPT ![q].left = @ \ {e}]
  /\ UNCHANGED <<now, plan, checkLock, lock, acts, faults, budget>>

EntriesDone(q) ==
  /\ proc[q].pc = "create" /\ proc[q].left = {}
  /\ Goto(q, IF q \in Checkers THEN "advance" ELSE "release")
  /\ UNCHANGED <<now, plan, made, backlog, checkLock, lock, acts, faults, budget>>

\* Mutant: the update does not compare with what was read.
AdvanceUnconditional(q) ==
  LET p == proc[q].plan  seen == proc[q].seen IN
  /\ proc[q].pc = "advance"
  /\ plan' = [plan EXCEPT ![p].next = Next_(seen.cron, seen.next)]
  /\ Goto(q, "release")
  /\ UNCHANGED <<now, made, backlog, checkLock, lock, acts, faults, budget>>

\* UpdateNextRunAtIf: the next occurrence after the one that was read, unless somebody
\* has scheduled the plan anew since.
AdvancePlanNextRun(q) ==
  LET p == proc[q].plan  seen == proc[q].seen IN
  /\ proc[q].pc = "advance"
  /\ plan' = IF plan[p].status # "gone" /\ plan[p].next = seen.next
               THEN [plan EXCEPT ![p].next = Next_(seen.cron, seen.next)] ELSE plan
  /\ Goto(q, "release")
  /\ UNCHANGED <<now, made, backlog, checkLock, lock, acts, faults, budget>>

\* planTriggerLockReleaseScript: only the own token is deleted.
Release(q) ==
  /\ proc[q].pc = "release"
  /\ lock' = [lock EXCEPT ![proc[q].plan] = IF @ = q THEN None ELSE @]
  /\ proc' = [proc EXCEPT ![q] = After(q)]
  /\ UNCHANGED <<now, plan, made, backlog, checkLock, acts, faults, budget>>

Holds(q, p) ==
  proc[q].plan = p /\ proc[q].pc \in {"reload", "entries", "create", "advance", "release"}

\* Mutant: the key has no time to live.
ExpireNever(p) == FALSE /\ UNCHANGED vars

\* The holder renews its key as long as it runs; the key of a dead one expires.
ExpireTrigger(p) ==
  /\ lock[p] # None /\ ~Holds(lock[p], p)
  /\ lock' = [lock EXCEPT ![p] = None]
  /\ UNCHANGED <<now, plan, made, backlog, checkLock, proc, acts, faults, budget>>

-----------------------------------------------------------------------------
(* Users                                                                     *)

Act(a) == a \in budget.actions /\ acts < budget.acts /\ acts' = acts + 1

\* Run a plan now: it is read once before and once under the lock.
Execute(q, p) ==
  /\ q \in Callers /\ proc[q].pc = "idle" /\ plan[p].status = "active" /\ Act("execute")
  /\ proc' = [proc EXCEPT ![q].pc = "lock", ![q].plan = p]
  /\ UNCHANGED <<now, plan, made, backlog, checkLock, lock, faults, budget>>

\* One transaction: the status, and every pending task of the plan cancelled.
Pause(p) ==
  /\ plan[p].status # "gone" /\ Act("pause")
  /\ plan' = [plan EXCEPT ![p].status = "paused", ![p].next = Never]
  /\ backlog' = [backlog EXCEPT ![p] = FALSE]
  /\ UNCHANGED <<now, made, checkLock, lock, proc, faults, budget>>

\* The row is read, the next occurrence computed from the expression that was read,
\* and both columns are written.
Resume(q, p) ==
  /\ q \in Callers /\ proc[q].pc = "idle" /\ plan[p].status # "gone" /\ Act("resume")
  /\ proc' = [proc EXCEPT ![q].pc = "resume", ![q].plan = p, ![q].cron = plan[p].cron]
  /\ UNCHANGED <<now, plan, made, backlog, checkLock, lock, faults, budget>>

ResumeWrite(q) ==
  LET p == proc[q].plan IN
  /\ proc[q].pc = "resume"
  /\ plan' = IF plan[p].status = "gone" THEN plan ELSE
       [plan EXCEPT ![p].status = "active", ![p].next = Next_(proc[q].cron, now)]
  /\ proc' = [proc EXCEPT ![q] = Idle]
  /\ UNCHANGED <<now, made, backlog, checkLock, lock, acts, faults, budget>>

\* A changed expression is written with its next occurrence, the selected Agents
\* replace the entries.
Edit(q, p) ==
  /\ q \in Callers /\ proc[q].pc = "idle" /\ plan[p].status # "gone" /\ Act("edit")
  /\ \E c \in budget.crons, s \in SUBSET budget.entries \ {{}} :
       proc' = [proc EXCEPT ![q].pc = "edit", ![q].plan = p, ![q].cron = c, ![q].left = s,
                            ![q].seen = plan[p]]
  /\ UNCHANGED <<now, plan, made, backlog, checkLock, lock, faults, budget>>

UpdateEditable(q) ==
  LET p == proc[q].plan  c == proc[q].cron IN
  /\ proc[q].pc = "edit"
  /\ plan' = IF plan[p].status = "gone" THEN plan
             ELSE IF c = proc[q].seen.cron THEN [plan EXCEPT ![p].entries = proc[q].left]
             ELSE [plan EXCEPT ![p].entries = proc[q].left, ![p].cron = c, ![p].next = Next_(c, now)]
  /\ proc' = [proc EXCEPT ![q] = Idle]
  /\ UNCHANGED <<now, made, backlog, checkLock, lock, acts, faults, budget>>

Delete(p) ==
  /\ plan[p].status # "gone" /\ Act("delete")
  /\ plan' = [plan EXCEPT ![p].status = "gone", ![p].next = Never, ![p].entries = {}]
  /\ UNCHANGED <<now, made, backlog, checkLock, lock, proc, faults, budget>>

\* A worker starts or drops the waiting tasks (module ProjectSlots).
BacklogTaken(p) ==
  /\ backlog[p] /\ backlog' = [backlog EXCEPT ![p] = FALSE]
  /\ UNCHANGED <<now, plan, made, checkLock, lock, proc, acts, faults, budget>>

-----------------------------------------------------------------------------
(* Faults                                                                    *)

Fault == faults < budget.faults /\ faults' = faults + 1

Crash(q) ==
  /\ proc[q].pc # "idle" /\ Fault
  /\ proc' = [proc EXCEPT ![q] = Idle]
  /\ UNCHANGED <<now, plan, made, backlog, checkLock, lock, acts, budget>>

\* A server that stalls for longer than the lock's ten minutes.
Stall(p) ==
  /\ lock[p] # None /\ Holds(lock[p], p) /\ Fault
  /\ lock' = [lock EXCEPT ![p] = None]
  /\ UNCHANGED <<now, plan, made, backlog, checkLock, proc, acts, budget>>

AdvanceFails(q) ==
  /\ proc[q].pc = "advance" /\ Fault /\ Goto(q, "release")
  /\ UNCHANGED <<now, plan, made, backlog, checkLock, lock, acts, budget>>

-----------------------------------------------------------------------------
Step(q) ==
  \/ ListDue(q) \/ TakePlan(q) \/ EndCheck(q)
  \/ AcquirePlanTriggerLock(q) \/ Reload(q) \/ ListEntries(q)
  \/ \E e \in Entries : CreateFromPlanEntry(q, e)
  \/ EntriesDone(q) \/ AdvancePlanNextRun(q) \/ Release(q)
  \/ ResumeWrite(q) \/ UpdateEditable(q)

Next ==
  \/ Tick \/ ExpireCheck
  \/ \E q \in Procs : TryAcquire(q) \/ Step(q) \/ Crash(q) \/ AdvanceFails(q)
  \/ \E p \in Plans : ExpireTrigger(p) \/ Pause(p) \/ Delete(p) \/ BacklogTaken(p) \/ Stall(p)
  \/ \E q \in Procs, p \in Plans : Execute(q, p) \/ Resume(q, p) \/ Edit(q, p)

Spec == Init /\ [][Next]_vars

\* Calls go on, the checkers come round every minute, keys expire.
Fairness ==
  /\ \A q \in Procs : WF_vars(Step(q))
  /\ \A q \in Checkers : SF_vars(TryAcquire(q))
  /\ WF_vars(ExpireCheck) /\ \A p \in Plans : WF_vars(ExpireTrigger(p))

FairSpec == Spec /\ Fairness

-----------------------------------------------------------------------------
(* Properties                                                                *)

\* However many servers check and users trigger, pause and delete, and although the
\* checker's lock expires under a slow check and is deleted by the wrong server, an
\* occurrence of a plan creates at most one task per entry.  (A crash between the creation
\* and the move of next_run_at repeats it; users who set the schedule back may, too.)
OnceEach ==
  faults = 0 /\ budget.actions \cap {"resume", "edit"} = {} =>
    \A p \in Plans, t \in Times, e \in Entries : made[p][t][e] <= 1

\* An active plan always has a next run: no order of pauses, resumes, edits and triggers
\* leaves one that silently never runs again.
ActiveIsScheduled == \A p \in Plans : plan[p].status = "active" => plan[p].next # Never

\* While a plan is paused no task of it waits to start, the ones that a trigger was
\* creating when the plan was paused included.
PausedHasNoBacklog == \A p \in Plans : plan[p].status = "paused" => ~backlog[p]

\* Whatever pauses, resumes, edits and triggers overlap: an active plan is going to run
\* and a paused one has nothing waiting to.
StatusIsMeant == TypeOK /\ ActiveIsScheduled /\ PausedHasNoBacklog

\* A checker that took long to create the tasks and moves next_run_at on from what it had
\* read never takes a schedule back that a user has set since, and never schedules a plan
\* that was paused or deleted since.
TriggersMoveForward ==
  [][\A q \in Checkers, p \in Plans : proc[q].pc = "advance" /\ proc'[q].pc = "release" =>
       /\ plan'[p].next >= plan[p].next
       /\ plan[p].next = Never => plan'[p].next = Never]_vars

\* A due plan is triggered: its next run gets past the clock, or it is no longer active.
\* Crashes of the servers that hold its locks do not prevent it.
DueIsTriggered == \A p \in Plans : Due(p) ~> ~Due(p)
=============================================================================
