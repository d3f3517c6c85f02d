------------------------- MODULE ProjectSlotsProofs -------------------------
(***************************************************************************)
(* Proofs about ProjectSlots, for any number of tasks, calls, slots and     *)
(* faults.  A task's status and the stage of its execution are two columns  *)
(* that every call sets apart from each other.  They agree, but for a task  *)
(* that a user's cancel fetched before it was started and swapped after     *)
(* (RowOK), because the stage of an execution that is being finalized is    *)
(* moved by one call only, and that call is where the stage says (CallOK,   *)
(* Exclusive), and because no start, retry or removal touches an execution  *)
(* that is not finalized.                                                   *)
(***************************************************************************)
EXTENDS ProjectSlots, TLAPS, FiniteSetTheorems

\* What a task's status says of its execution; a verdict is known when there is one to apply.
RowOK(r) ==
  /\ r.status = "running" => r.exec \in {"active", "terminal"}
  /\ r.exec \in {"active", "terminal"} =>
       r.status = "running" \/ (r.status = "cancelled" /\ "cancel" \in budget.actions)
  /\ r.status \in {"absent", "pending"} => r.exec \in {"none", "done"}
  /\ r.exec = "terminal" => r.end \in Ended
  /\ r.status = "absent" /\ ~r.deleting => r.exec = "none"

\* Where a call of each kind can be
Places(who) ==
  CASE who = None -> {"idle"}
    [] who \in {"create", "retry"} -> {"reserve", "enqueue", "release", "fail"}
    [] who = "worker" -> {"prepare", "start", "count", "sync", "list", "reserve", "enqueue",
                          "release", "reply"}
    [] who = "checker" -> {"count", "sync"}
    [] who = "cancel" -> {"swapRunning", "swapPending", "release"}
    [] who = "final" -> {"core", "count", "sync", "advance", "list", "reserve", "enqueue",
                         "release"}
    [] OTHER -> {"core", "count", "sync", "advance", "list", "reserve", "enqueue", "release",
                 "delete", "swapRunning", "swapPending"}

Finalizes(k) == k.who = "final" \/ (k.who = "delete" /\ k.pc # "delete")

\* The stages at which a call finalizes an execution; a delete that cancels a task which
\* never ran swaps its status and releases its slot, and has nothing to finalize.
Stage(k) ==
  CASE k.pc = "core" -> {"terminal"}
    [] k.pc \in {"count", "sync"} -> {"task"}
    [] k.pc = "advance" -> {"task", "slot"}
    [] k.pc \in {"swapRunning", "swapPending"} -> {"none"}
    [] k.pc = "release" /\ k.who = "delete" /\ k.todo = {} -> {"slot", "none"}
    [] OTHER -> {"slot"}

CallOK(k, rows) ==
  /\ k.pc \in Places(k.who)
  /\ k.who \in {"worker", "final", "delete", "create", "cancel"} => k.for \in Tasks
  /\ k.who = "retry" => k.for \in Tasks \/ (k.pc = "release" /\ ~k.err /\ k.todo = {})
  /\ k.who = "cancel" => k.todo = {} /\ "cancel" \in budget.actions
  /\ k.pc \in {"swapRunning", "swapPending"} => k.todo = {}
  /\ k.who = "delete" => rows[k.for].deleting
  /\ Finalizes(k) => rows[k.for].exec \in Stage(k)
  /\ k.pc = "enqueue" => k.cur \in Tasks

\* The lease: an execution whose finalization is open has one finalizer at most.
Exclusive ==
  \A p, q \in Procs :
    /\ Finalizes(proc[p]) /\ Finalizes(proc[q]) /\ proc[p].for = proc[q].for
    /\ task[proc[p].for].exec \in Open
    => p = q

IInv ==
  /\ TypeOK
  /\ \A t \in Tasks : RowOK(task[t])
  /\ \A p \in Procs : CallOK(proc[p], task)
  /\ Exclusive

\* What no step does: a start, or a return to pending, that comes too late
Late == ~(DeletingOnlyEnds /\ PausedStartsNothing)

LEMMA RestFacts ==
  /\ Idle \in CallState /\ Idle.pc = "idle" /\ Idle.who = None /\ Idle.for = None
  /\ Idle.cur = None /\ Idle.todo = {} /\ Idle.err = FALSE /\ Idle.seen = 0
  /\ ~Finalizes(Idle) /\ \A rows : CallOK(Idle, rows)
  /\ None \notin Tasks /\ Cardinality(Tasks) \in Nat
<1>1. None \notin Tasks /\ Cardinality(Tasks) \in Nat
  BY SlotsAssumption, FS_CardinalityType DEF None
<1>2. Idle \in CallState
  <2>1. 0 \in 0..Cardinality(Tasks)
    BY <1>1
  <2> QED
    BY <2>1 DEF Idle, CallState, None
<1>3. /\ Idle.pc = "idle" /\ Idle.who = None /\ Idle.for = None /\ Idle.cur = None
      /\ Idle.todo = {} /\ Idle.err = FALSE /\ Idle.seen = 0
  BY DEF Idle
<1> HIDE DEF Idle
<1>4. ~Finalizes(Idle) /\ \A rows : CallOK(Idle, rows)
  BY <1>3 DEF Finalizes, CallOK, Places, None
<1> QED
  BY <1>1, <1>2, <1>3, <1>4

LEMMA RunningFacts == ASSUME TypeOK PROVE Running \in 0..Cardinality(Tasks)
<1> DEFINE S == {t \in Tasks : task[t].status = "running"}
<1>1. S \subseteq Tasks
  OBVIOUS
<1>2. Cardinality(S) <= Cardinality(Tasks) /\ IsFiniteSet(S)
  BY <1>1, SlotsAssumption, FS_Subset
<1> QED
  BY <1>2, RestFacts, FS_CardinalityType DEF Running

LEMMA InitInv == Init => IInv
<1> SUFFICES ASSUME Init PROVE IInv
    OBVIOUS
<1> DEFINE r == [status |-> "absent", exec |-> "none", end |-> None, deleting |-> FALSE]
<1>1. task = [t \in Tasks |-> r] /\ proc = [p \in Procs |-> Idle]
  BY DEF Init
<1>2. r \in TaskRow /\ RowOK(r)
  BY DEF TaskRow, RowOK, None, Open, Ended
<1> HIDE DEF r
<1>3. \A t \in Tasks : task[t] = r
  BY <1>1
<1>4. \A p \in Procs : proc[p] = Idle
  BY <1>1
<1>5. TypeOK
  <2>1. task \in [Tasks -> TaskRow] /\ proc \in [Procs -> CallState]
    BY <1>1, <1>2, RestFacts
  <2>2. queue \in [Tasks -> Message]
    BY SlotsAssumption DEF Init, Message
  <2>3. count \in {NoKey} \cup Nat /\ count <= Max /\ plan \in {"active", "paused"}
    BY SlotsAssumption DEF Init, NoKey
  <2>4. PICK b \in Budgets : budget = b
    BY DEF Init
  <2>5. b.retries \in 0..b.retries /\ b.faults \in 0..b.faults
    BY SlotsAssumption
  <2> QED
    BY <2>1, <2>2, <2>3, <2>4, <2>5 DEF TypeOK
<1>6. \A p \in Procs : CallOK(proc[p], task) /\ ~Finalizes(proc[p])
  BY <1>4, RestFacts
<1> QED
  BY <1>2, <1>3, <1>5, <1>6 DEF IInv, Exclusive

-----------------------------------------------------------------------------
(* Steps of one call, and steps of none                                      *)

\* Nobody but p finalizes t.
Free(p, t) == \A q \in Procs \ {p} : ~(Finalizes(proc[q]) /\ proc[q].for = t)

\* A start, or a return to pending, is refused a task that is being deleted, and a start a
\* task of a paused plan.
Refused(t) ==
  /\ task[t].deleting =>
       /\ task'[t].deleting
       /\ task'[t].status = "pending" => task[t].status = "pending"
       /\ task'[t].status = "running" => task[t].status = "running"
  /\ plan = "paused" /\ t \in Planned =>
       (task'[t].status = "running" => task[t].status = "running")

RowsMove(p) ==
  /\ task' \in [Tasks -> TaskRow]
  /\ \A t \in Tasks : /\ RowOK(task'[t]) /\ Refused(t)
                      /\ task'[t].exec = task[t].exec \/ Free(p, t)

CallMoves(p, k) ==
  /\ proc' = [proc EXCEPT ![p] = k] /\ CallOK(k, task')
  /\ Finalizes(k) /\ task'[k.for].exec \in Open =>
       (Finalizes(proc[p]) /\ proc[p].for = k.for) \/ Free(p, k.for)

CountOK  == count \in {NoKey} \cup Nat /\ (count <= Max \/ count <= Cardinality(Tasks))
BudgetOK == \E b \in Budgets : /\ budget.tasks = b.tasks /\ budget.actions = b.actions
                              /\ budget.retries \in 0..b.retries /\ budget.faults \in 0..b.faults

\* The budget is spent, and what users may do stays what it was.
BudgetMoves == BudgetOK' /\ budget'.actions = budget.actions

OthersMove ==
  plan' \in {"active", "paused"} /\ CountOK' /\ queue' \in [Tasks -> Message] /\ BudgetMoves

LEMMA StepInv ==
  ASSUME IInv, NEW p \in Procs, NEW k \in CallState, CallMoves(p, k), RowsMove(p), OthersMove
  PROVE  IInv' /\ ~Late
<1>1. /\ TypeOK /\ \A q \in Procs : CallOK(proc[q], task)
      /\ Exclusive
  BY DEF IInv
<1>2. proc \in [Procs -> CallState]
  BY <1>1 DEF TypeOK
<1>3. /\ proc' \in [Procs -> CallState] /\ proc'[p] = k
      /\ \A q \in Procs \ {p} : proc'[q] = proc[q]
  BY <1>2 DEF CallMoves
<1>4. TypeOK'
  BY <1>3 DEF TypeOK, RowsMove, OthersMove, CountOK, BudgetOK, BudgetMoves
<1>5. (\A t \in Tasks : RowOK(task[t]))'
  BY DEF RowsMove, RowOK, OthersMove, BudgetMoves
<1>6. ASSUME NEW q \in Procs \ {p}, Finalizes(proc[q])
      PROVE  proc[q].for \in Tasks /\ task'[proc[q].for].exec = task[proc[q].for].exec
  <2>1. proc[q].for \in Tasks
    BY <1>1, <1>6 DEF CallOK, Finalizes
  <2>2. ~Free(p, proc[q].for)
    BY <1>6 DEF Free
  <2> QED
    BY <2>1, <2>2 DEF RowsMove
<1>7. ASSUME NEW q \in Procs PROVE CallOK(proc'[q], task')
  <2>1. CASE q = p
    BY <1>3, <2>1 DEF CallMoves
  <2>2. CASE q # p
    <3>1. proc'[q] = proc[q] /\ CallOK(proc[q], task)
      BY <1>1, <1>3, <2>2
    <3>2. proc[q].who = "delete" => task'[proc[q].for].deleting
      BY <3>1 DEF CallOK, RowsMove, Refused
    <3>3. Finalizes(proc[q]) => task'[proc[q].for].exec \in Stage(proc[q])
      BY <1>6, <2>2, <3>1 DEF CallOK
    <3> QED
      BY <3>1, <3>2, <3>3 DEF CallOK
  <2> QED
    BY <2>1, <2>2
<1>8. ASSUME NEW q \in Procs, NEW r \in Procs, q # r, q # p,
             Finalizes(proc'[q]), Finalizes(proc'[r]), proc'[q].for = proc'[r].for,
             task'[proc'[q].for].exec \in Open
      PROVE  FALSE
  <2>1. Finalizes(proc[q]) /\ proc'[q] = proc[q]
    BY <1>3, <1>8
  <2>2. task[proc[q].for].exec \in Open
    BY <1>6, <1>8, <2>1
  <2>3. ~Free(p, proc[q].for)
    BY <1>8, <2>1 DEF Free
  <2>4. CASE r = p
    BY <1>1, <1>3, <1>8, <2>1, <2>2, <2>3, <2>4 DEF CallMoves, Exclusive
  <2>5. CASE r # p
    BY <1>1, <1>3, <1>8, <2>1, <2>2, <2>5 DEF Exclusive
  <2> QED
    BY <2>4, <2>5
<1>9. ASSUME NEW q \in Procs, NEW r \in Procs,
             Finalizes(proc'[q]), Finalizes(proc'[r]), proc'[q].for = proc'[r].for,
             task'[proc'[q].for].exec \in Open
      PROVE  q = r
  <2>1. CASE q # p
    BY <1>8, <1>9, <2>1
  <2>2. CASE r # p
    BY <1>8, <1>9, <2>2
  <2> QED
    BY <2>1, <2>2
<1>10. Exclusive'
  BY <1>9 DEF Exclusive, Finalizes
<1>11. (\A q \in Procs : CallOK(proc[q], task))'
  BY <1>7 DEF CallOK, Finalizes, Stage, OthersMove, BudgetMoves
<1>12. DeletingOnlyEnds /\ PausedStartsNothing
  BY SlotsAssumption DEF RowsMove, Refused, DeletingOnlyEnds, PausedStartsNothing
<1> QED
  BY <1>4, <1>5, <1>10, <1>11, <1>12 DEF IInv, Late

\* A step that no call makes
LEMMA OutsideInv ==
  ASSUME IInv, UNCHANGED proc, task' \in [Tasks -> TaskRow], OthersMove,
         \A t \in Tasks :
           /\ RowOK(task'[t]) /\ Refused(t)
           /\ \/ task'[t].exec = task[t].exec
              \/ \A q \in Procs : ~(Finalizes(proc[q]) /\ proc[q].for = t)
  PROVE  IInv' /\ ~Late
<1>1. /\ TypeOK /\ \A q \in Procs : CallOK(proc[q], task)
      /\ Exclusive
  BY DEF IInv
<1>2. TypeOK'
  BY <1>1 DEF TypeOK, OthersMove, CountOK, BudgetOK, BudgetMoves
<1>3. (\A t \in Tasks : RowOK(task[t]))'
  BY DEF RowOK, OthersMove, BudgetMoves
<1>4. ASSUME NEW q \in Procs, Finalizes(proc[q])
      PROVE  task'[proc[q].for].exec = task[proc[q].for].exec
  BY <1>1, <1>4 DEF CallOK, Finalizes
<1>5. ASSUME NEW q \in Procs PROVE CallOK(proc[q], task')
  <2>1. CallOK(proc[q], task)
    BY <1>1
  <2>2. proc[q].who = "delete" => task'[proc[q].for].deleting
    BY <2>1 DEF CallOK, Refused
  <2>3. Finalizes(proc[q]) => task'[proc[q].for].exec \in Stage(proc[q])
    BY <1>4, <2>1 DEF CallOK
  <2> QED
    BY <2>1, <2>2, <2>3 DEF CallOK
<1>6. (\A q \in Procs : CallOK(proc[q], task))'
  BY <1>5 DEF CallOK, Finalizes, Stage, OthersMove, BudgetMoves
<1>7. Exclusive'
  BY <1>1, <1>4 DEF Exclusive, Finalizes
<1>8. DeletingOnlyEnds /\ PausedStartsNothing
  BY SlotsAssumption DEF Refused, DeletingOnlyEnds, PausedStartsNothing
<1> QED
  BY <1>2, <1>3, <1>6, <1>7, <1>8 DEF IInv, Late

\* What a step that leaves something alone, or spends a fault, leaves true
LEMMA Unchanged ==
  ASSUME IInv
  PROVE  /\ UNCHANGED task => \A p : RowsMove(p)
         /\ UNCHANGED plan => plan' \in {"active", "paused"}
         /\ UNCHANGED count => CountOK'
         /\ UNCHANGED queue => queue' \in [Tasks -> Message]
         /\ UNCHANGED budget => BudgetMoves
         /\ Fault => BudgetMoves
<1>1. TypeOK /\ \A t \in Tasks : RowOK(task[t])
  BY DEF IInv
<1>2. UNCHANGED task => \A p : RowsMove(p)
  BY <1>1 DEF TypeOK, RowsMove, Refused
<1>3. PICK b \in Budgets : /\ budget.tasks = b.tasks /\ budget.actions = b.actions
                          /\ budget.retries \in 0..b.retries /\ budget.faults \in 0..b.faults
  BY <1>1 DEF TypeOK
<1>4. Fault => BudgetMoves
  <2> SUFFICES ASSUME Fault PROVE BudgetMoves
      OBVIOUS
  <2>1. b.faults \in Nat /\ budget' = [budget EXCEPT !.faults = @ - 1] /\ budget.faults > 0
    BY SlotsAssumption DEF Fault
  <2>2. budget'.tasks = b.tasks /\ budget'.actions = b.actions /\ budget'.retries \in 0..b.retries
    BY <1>3, <2>1
  <2>3. budget'.faults \in 0..b.faults \/ budget' = budget
    BY <1>3, <2>1
  <2>4. budget'.actions = budget.actions
    BY <2>1
  <2> QED
    BY <1>3, <2>2, <2>3, <2>4 DEF BudgetOK, BudgetMoves
<1> QED
  BY <1>1, <1>2, <1>3, <1>4 DEF TypeOK, CountOK, BudgetOK, BudgetMoves

\* A step that writes one row
LEMMA OneRow ==
  ASSUME IInv, NEW p \in Procs, NEW t \in Tasks, NEW r \in TaskRow, RowOK(r),
         task' = [task EXCEPT ![t] = r], r.exec = task[t].exec \/ Free(p, t),
         task[t].deleting => r.deleting,
         r.status = "pending" => task[t].status = "pending" \/ ~task[t].deleting,
         r.status = "running" =>
           task[t].status = "running" \/ (~task[t].deleting /\ Dispatchable(t))
  PROVE  RowsMove(p) /\ task'[t] = r
<1>1. task \in [Tasks -> TaskRow] /\ \A u \in Tasks : RowOK(task[u])
  BY DEF IInv, TypeOK
<1>2. /\ task' \in [Tasks -> TaskRow] /\ task'[t] = r
      /\ \A u \in Tasks \ {t} : task'[u] = task[u]
  BY <1>1
<1>3. Refused(t)
  BY <1>2 DEF Refused, Dispatchable
<1>4. ASSUME NEW u \in Tasks
      PROVE  RowOK(task'[u]) /\ Refused(u) /\ (task'[u].exec = task[u].exec \/ Free(p, u))
  <2>1. CASE u = t
    BY <1>2, <1>3, <2>1
  <2>2. CASE u # t
    BY <1>1, <1>2, <2>2 DEF Refused
  <2> QED
    BY <2>1, <2>2
<1> QED
  BY <1>2, <1>4 DEF RowsMove

\* A step of a call that leaves the rows alone
LEMMA MoveInv ==
  ASSUME IInv, NEW p \in Procs, NEW k \in CallState, proc' = [proc EXCEPT ![p] = k],
         UNCHANGED <<task, plan>>, CallOK(k, task),
         Finalizes(k) => Finalizes(proc[p]) /\ proc[p].for = k.for,
         CountOK', queue' \in [Tasks -> Message], BudgetMoves
  PROVE  IInv' /\ ~Late
<1>1. CallMoves(p, k) /\ RowsMove(p) /\ OthersMove
  BY Unchanged DEF CallMoves, OthersMove
<1> QED
  BY <1>1, StepInv

\* What a call that has dealt with the tasks it had to enqueue relies on
Ready(k) ==
  /\ k.who \in {"create", "retry", "worker", "final", "delete", "cancel"}
  /\ k.who \in {"worker", "final", "delete", "create", "cancel"} => k.for \in Tasks
  /\ k.who = "retry" => k.for \in Tasks \/ (~k.err /\ k.todo = {})
  /\ k.who = "cancel" => k.todo = {} /\ "cancel" \in budget.actions
  /\ k.who = "delete" => task[k.for].deleting
  /\ k.who = "final" => task[k.for].exec = "slot"
  /\ k.who = "delete" => task[k.for].exec = "slot" \/ (task[k.for].exec = "none" /\ k.todo = {})

LEMMA ReadyFacts ==
  ASSUME NEW k \in CallState, CallOK(k, task), k.pc \in {"reserve", "enqueue", "release", "list"}
  PROVE  Ready(k) /\ (k.who \in {"final", "delete"} => Finalizes(k))
         /\ (k.pc # "release" => /\ k.who = "retry" => k.for \in Tasks
                                 /\ k.who = "delete" => task[k.for].exec = "slot"
                                 /\ k.who # "cancel")
<1>1. k.who \in {None, "create", "retry", "worker", "final", "checker", "cancel", "delete"}
  BY DEF CallState
<1>2. k.who \notin {None, "checker"}
  BY DEF CallOK, Places, None
<1>3. k.who \in {"final", "delete"} => Finalizes(k)
  BY DEF Finalizes
<1>4. k.who = "cancel" => k.pc = "release"
  BY DEF CallOK, Places
<1>5. k.who = "final" => task[k.for].exec = "slot"
  BY <1>3 DEF CallOK, Stage
<1>6. k.who = "delete" =>
        task[k.for].exec = "slot" \/ (k.pc = "release" /\ task[k.for].exec = "none" /\ k.todo = {})
  BY <1>3 DEF CallOK, Stage
<1> QED
  BY <1>1, <1>2, <1>3, <1>4, <1>5, <1>6 DEF Ready, CallOK

LEMMA ThenFacts ==
  ASSUME IInv, NEW k \in CallState, Ready(k)
  PROVE  /\ Then(k) \in CallState /\ CallOK(Then(k), task)
         /\ Finalizes(Then(k)) => k.who \in {"final", "delete"} /\ Then(k).for = k.for
<1> DEFINE Good(r) == /\ r \in CallState /\ CallOK(r, task)
                      /\ Finalizes(r) => k.who \in {"final", "delete"} /\ r.for = k.for
<1>1. ASSUME NEW pc \in {"reserve", "fail", "advance", "delete", "reply"}
      PROVE  LET r == [k EXCEPT !.pc = pc, !.cur = None] IN
             /\ r \in CallState /\ r.pc = pc /\ r.who = k.who /\ r.for = k.for
             /\ r.todo = k.todo /\ r.err = k.err
  BY <1>1 DEF CallState
<1>2. CASE k.todo # {}
  <2> DEFINE r == [k EXCEPT !.pc = "reserve", !.cur = None]
  <2>1. r \in CallState /\ r.pc = "reserve" /\ r.who = k.who /\ r.for = k.for
    BY <1>1
  <2>2. Then(k) = r
    BY <1>2 DEF Then
  <2> HIDE DEF r
  <2>3. Good(r)
    BY <1>2, <2>1 DEF Ready, CallOK, Places, Finalizes, Stage, None
  <2> QED
    BY <2>2, <2>3
<1>3. CASE k.todo = {} /\ k.who \in {"create", "retry"} /\ k.err
  <2> DEFINE r == [k EXCEPT !.pc = "fail", !.cur = None]
  <2>1. r \in CallState /\ r.pc = "fail" /\ r.who = k.who /\ r.for = k.for
    BY <1>1
  <2>2. Then(k) = r
    BY <1>3 DEF Then
  <2> HIDE DEF r
  <2>3. Good(r)
    BY <1>3, <2>1 DEF Ready, CallOK, Places, Finalizes, None
  <2> QED
    BY <2>2, <2>3
<1>4. CASE k.todo = {} /\ k.who = "final" /\ ~k.err
  <2> DEFINE r == [k EXCEPT !.pc = "advance", !.cur = None]
  <2>1. r \in CallState /\ r.pc = "advance" /\ r.who = k.who /\ r.for = k.for
    BY <1>1
  <2>2. Then(k) = r
    BY <1>4 DEF Then
  <2> HIDE DEF r
  <2>3. Good(r)
    BY <1>4, <2>1 DEF Ready, CallOK, Places, Finalizes, Stage, None
  <2> QED
    BY <2>2, <2>3
<1>5. CASE k.todo = {} /\ k.who = "delete" /\ ~k.err
  <2> DEFINE pc == IF task[k.for].exec = "slot" THEN "advance" ELSE "delete"
             r == [k EXCEPT !.pc = pc, !.cur = None]
  <2>1. r \in CallState /\ r.pc = pc /\ r.who = k.who /\ r.for = k.for
    BY <1>1
  <2>2. Then(k) = r
    BY <1>5 DEF Then
  <2> HIDE DEF r
  <2>3. Good(r)
    BY <1>5, <2>1 DEF Ready, CallOK, Places, Finalizes, Stage, None
  <2> QED
    BY <2>2, <2>3
<1>6. CASE k.todo = {} /\ k.who = "worker"
  <2> DEFINE r == [k EXCEPT !.pc = "reply", !.cur = None]
  <2>1. r \in CallState /\ r.pc = "reply" /\ r.who = k.who /\ r.for = k.for
    BY <1>1
  <2>2. Then(k) = r
    BY <1>6 DEF Then
  <2> HIDE DEF r
  <2>3. Good(r)
    BY <1>6, <2>1 DEF Ready, CallOK, Places, Finalizes, None
  <2> QED
    BY <2>2, <2>3
<1>7. CASE /\ k.todo = {} /\ k.who # "worker"
           /\ ~(k.who \in {"create", "retry"} /\ k.err)
           /\ ~(k.who \in {"final", "delete"} /\ ~k.err)
  <2>1. Then(k) = Idle
    BY <1>7 DEF Then
  <2> QED
    BY <2>1, RestFacts
<1> QED
  BY <1>2, <1>3, <1>4, <1>5, <1>6, <1>7

\* Whom an execution is free of
LEMMA FreeFacts ==
  ASSUME IInv, NEW t \in Tasks
  PROVE  /\ \/ task[t].exec \in {"active", "done"}
            \/ task[t].exec = "none" /\ ~task[t].deleting
            \/ task[t].exec \in Open /\ Unclaimed(t)
            => \A q \in Procs : ~(Finalizes(proc[q]) /\ proc[q].for = t)
         /\ \A p \in Procs : Finalizes(proc[p]) /\ proc[p].for = t /\ task[t].exec \in Open =>
              Free(p, t)
<1>1. Exclusive /\ \A q \in Procs : CallOK(proc[q], task)
  BY DEF IInv
<1>2. ASSUME NEW q \in Procs, Finalizes(proc[q]), proc[q].for = t
      PROVE  /\ task[t].exec \notin {"active", "done"}
             /\ task[t].exec = "none" => task[t].deleting
             /\ task[t].exec \in Open => ~Unclaimed(t)
  <2>1. task[t].exec \in Stage(proc[q]) /\ CallOK(proc[q], task)
    BY <1>1, <1>2 DEF CallOK
  <2>2. task[t].exec \in {"terminal", "task", "slot"} \/ (task[t].exec = "none" /\ proc[q].who = "delete")
    BY <1>2, <2>1 DEF Stage, Finalizes, CallOK, Places
  <2>3. proc[q].who = "delete" => task[t].deleting
    BY <1>2, <2>1 DEF CallOK
  <2>4. task[t].exec \in Open => ~Unclaimed(t)
    BY <1>2 DEF Unclaimed, Finalizes
  <2> QED
    BY <2>2, <2>3, <2>4
<1>3. ASSUME NEW p \in Procs, Finalizes(proc[p]), proc[p].for = t, task[t].exec \in Open
      PROVE  Free(p, t)
  BY <1>1, <1>3 DEF Exclusive, Free
<1> QED
  BY <1>2, <1>3

-----------------------------------------------------------------------------
(* Requests                                                                  *)

LEMMA RowFacts ==
  ASSUME IInv, NEW t \in Tasks
  PROVE  task[t] \in TaskRow /\ RowOK(task[t])
BY DEF IInv, TypeOK

\* A call that begins and finalizes nothing
LEMMA BeginFacts ==
  ASSUME IInv, NEW p \in Procs, NEW k \in CallState, proc' = [proc EXCEPT ![p] = k],
         ~Finalizes(k), CallOK(k, task')
  PROVE  CallMoves(p, k)
BY DEF CallMoves

LEMMA CreateInv ==
  ASSUME IInv, NEW p \in Procs, NEW t \in Tasks, Create(p, t)
  PROVE  IInv' /\ ~Late
<1> DEFINE r == [task[t] EXCEPT !.status = "pending"]
           k == [Idle EXCEPT !.pc = "reserve", !.who = "create", !.for = t, !.todo = {t}]
<1>1. task[t] \in TaskRow /\ RowOK(task[t]) /\ task[t].status = "absent" /\ ~task[t].deleting
  BY RowFacts DEF Create
<1>2. /\ r \in TaskRow /\ r.status = "pending" /\ r.exec = task[t].exec /\ r.end = task[t].end
      /\ r.deleting = task[t].deleting
  BY <1>1 DEF TaskRow
<1>3. task' = [task EXCEPT ![t] = r]
  BY DEF Create
<1> HIDE DEF r
<1>4. RowOK(r)
  BY <1>1, <1>2 DEF RowOK
<1>5. RowsMove(p)
  BY <1>1, <1>2, <1>3, <1>4, OneRow
<1>6. k \in CallState /\ k.pc = "reserve" /\ k.who = "create" /\ k.for = t
  BY RestFacts DEF CallState
<1>7. proc' = [proc EXCEPT ![p] = k] /\ OthersMove
  BY Unchanged DEF Create, Go, OthersMove
<1> HIDE DEF k
<1>8. ~Finalizes(k) /\ CallOK(k, task')
  BY <1>6 DEF Finalizes, CallOK, Places, None
<1> QED
  BY <1>5, <1>6, <1>7, <1>8, BeginFacts, StepInv

LEMMA RetryInv ==
  ASSUME IInv, NEW p \in Procs, NEW t \in Tasks, Retry(p, t)
  PROVE  IInv' /\ ~Late
<1> DEFINE r == [task[t] EXCEPT !.status = "pending", !.end = None]
           k == [Idle EXCEPT !.pc = "reserve", !.who = "retry", !.for = t, !.todo = {t}]
<1>1. task[t] \in TaskRow /\ task[t].exec \in {"none", "done"} /\ ~task[t].deleting
  BY RowFacts DEF Retry
<1>2. /\ r \in TaskRow /\ r.status = "pending" /\ r.exec = task[t].exec
      /\ r.deleting = task[t].deleting
  BY <1>1 DEF TaskRow
<1>3. task' = [task EXCEPT ![t] = r]
  BY <1>1 DEF Retry, IInv, TypeOK
<1> HIDE DEF r
<1>4. RowOK(r)
  BY <1>1, <1>2 DEF RowOK
<1>5. RowsMove(p)
  BY <1>1, <1>2, <1>3, <1>4, OneRow
<1>6. k \in CallState /\ k.pc = "reserve" /\ k.who = "retry" /\ k.for = t
  BY RestFacts DEF CallState
<1>7. proc' = [proc EXCEPT ![p] = k]
  BY DEF Retry, Go
<1> HIDE DEF k
<1>8. ~Finalizes(k) /\ CallOK(k, task')
  BY <1>6 DEF Finalizes, CallOK, Places, None
<1>9. BudgetMoves
  <2>1. PICK b \in Budgets : /\ budget.tasks = b.tasks /\ budget.actions = b.actions
                            /\ budget.retries \in 0..b.retries /\ budget.faults \in 0..b.faults
    BY DEF IInv, TypeOK
  <2>2. b.retries \in Nat /\ budget' = [budget EXCEPT !.retries = @ - 1] /\ budget.retries > 0
    BY SlotsAssumption DEF Retry
  <2>3. budget'.tasks = b.tasks /\ budget'.actions = b.actions /\ budget'.faults \in 0..b.faults
    BY <2>1, <2>2
  <2>4. budget'.retries \in 0..b.retries \/ budget' = budget
    BY <2>1, <2>2
  <2> QED
    BY <2>1, <2>2, <2>3, <2>4 DEF BudgetOK, BudgetMoves
<1>10. OthersMove
  BY <1>9, Unchanged DEF Retry, OthersMove
<1> QED
  BY <1>5, <1>6, <1>7, <1>8, <1>10, BeginFacts, StepInv

\* A call that ends
LEMMA IdleFacts ==
  ASSUME IInv, NEW p \in Procs, Go(p, Idle)
  PROVE  Idle \in CallState /\ CallMoves(p, Idle)
BY RestFacts DEF CallMoves, Go

LEMMA CancelPendingInv ==
  ASSUME IInv, NEW p \in Procs, NEW t \in Tasks, NEW who \in {"cancel", "delete"},
         CancelPending(p, t, who), who = "delete" => task[t].deleting,
         who = "cancel" => "cancel" \in budget.actions, OthersMove
  PROVE  IInv' /\ ~Late
<1> DEFINE k == [Idle EXCEPT !.pc = "swapRunning", !.who = who, !.for = t]
<1>1. task[t].exec = "none" /\ UNCHANGED task /\ proc' = [proc EXCEPT ![p] = k]
  BY DEF CancelPending, Go
<1>2. k \in CallState /\ k.pc = "swapRunning" /\ k.who = who /\ k.for = t /\ k.todo = {}
  BY RestFacts DEF CallState
<1> HIDE DEF k
<1>3. CallOK(k, task')
  BY <1>1, <1>2 DEF CallOK, Places, Stage, None
<1>4. CallMoves(p, k) /\ RowsMove(p)
  BY <1>1, <1>2, <1>3, Unchanged DEF CallMoves, Open
<1> QED
  BY <1>2, <1>4, StepInv

\* Where a call stands between the fetch and its swaps
LEMMA SwapFacts ==
  ASSUME IInv, NEW p \in Procs, proc[p].pc \in {"swapRunning", "swapPending"}
  PROVE  /\ proc[p] \in CallState /\ CallOK(proc[p], task) /\ proc[p].for \in Tasks
         /\ proc[p].todo = {}
         /\ \/ proc[p].who = "delete" /\ task[proc[p].for].exec = "none"
            \/ proc[p].who = "cancel" /\ "cancel" \in budget.actions
<1>1. proc[p] \in CallState /\ CallOK(proc[p], task)
  BY DEF IInv, TypeOK
<1>2. proc[p].who \in {"cancel", "delete"} /\ proc[p].for \in Tasks /\ proc[p].todo = {}
  BY <1>1 DEF CallOK, Places, CallState
<1>3. proc[p].who = "delete" => Finalizes(proc[p])
  BY DEF Finalizes
<1>4. proc[p].who = "delete" => task[proc[p].for].exec = "none"
  BY <1>1, <1>3 DEF CallOK, Stage
<1> QED
  BY <1>1, <1>2, <1>4 DEF CallOK

LEMMA SwapCancelledInv ==
  ASSUME IInv, NEW p \in Procs, proc[p].pc \in {"swapRunning", "swapPending"},
         NEW from \in {"running", "pending"}, SwapCancelled(p, from), OthersMove
  PROVE  IInv' /\ ~Late
<1> DEFINE t == proc[p].for
           r == [task[t] EXCEPT !.status = "cancelled"]
           k == [proc[p] EXCEPT !.pc = "release"]
<1>1. /\ proc[p] \in CallState /\ CallOK(proc[p], task) /\ t \in Tasks /\ proc[p].todo = {}
      /\ \/ proc[p].who = "delete" /\ task[t].exec = "none"
         \/ proc[p].who = "cancel" /\ "cancel" \in budget.actions
  BY SwapFacts
<1>2. task[t] \in TaskRow /\ RowOK(task[t]) /\ task[t].status = from
  BY <1>1, RowFacts DEF SwapCancelled
<1>3. /\ r \in TaskRow /\ r.status = "cancelled" /\ r.exec = task[t].exec /\ r.end = task[t].end
      /\ r.deleting = task[t].deleting
  BY <1>2 DEF TaskRow, Ended
<1>4. task' = [task EXCEPT ![t] = r] /\ proc' = [proc EXCEPT ![p] = k]
  BY DEF SwapCancelled, Go
<1>5. /\ k \in CallState /\ k.pc = "release" /\ k.who = proc[p].who /\ k.for = t
      /\ k.todo = {} /\ k.cur = proc[p].cur
  BY <1>1 DEF CallState
<1> HIDE DEF r, k
<1>6. RowOK(r)
  <2>1. CASE task[t].exec \in {"active", "terminal"}
    BY <1>1, <1>2, <1>3, <2>1 DEF RowOK
  <2>2. CASE task[t].exec \notin {"active", "terminal"}
    BY <1>2, <1>3, <2>2 DEF RowOK
  <2> QED
    BY <2>1, <2>2
<1>7. RowsMove(p) /\ task'[t] = r
  <2>1. r.status \notin {"pending", "running"} /\ (task[t].deleting => r.deleting)
    BY <1>3
  <2> QED
    BY <1>1, <1>3, <1>4, <1>6, <2>1, OneRow
<1>8. CallOK(k, task')
  BY <1>1, <1>3, <1>5, <1>7 DEF CallOK, Places, Stage, Finalizes, None
<1>9. Finalizes(k) => task'[k.for].exec \notin Open
  BY <1>1, <1>3, <1>5, <1>7 DEF Finalizes, Open
<1>10. CallMoves(p, k)
  BY <1>4, <1>8, <1>9 DEF CallMoves
<1> QED
  BY <1>5, <1>7, <1>10, StepInv

LEMMA SwapRunningInv == ASSUME IInv, NEW p \in Procs, SwapRunning(p) PROVE IInv' /\ ~Late
<1> DEFINE k == [proc[p] EXCEPT !.pc = "swapPending"]
<1>1. OthersMove /\ proc[p].pc = "swapRunning"
  BY Unchanged DEF SwapRunning, OthersMove
<1>2. CASE SwapCancelled(p, "running")
  BY <1>1, <1>2, SwapCancelledInv
<1>3. CASE Go(p, k) /\ UNCHANGED task
  <2>1. /\ proc[p] \in CallState /\ CallOK(proc[p], task) /\ proc[p].for \in Tasks
        /\ proc[p].todo = {} /\ proc[p].who \in {"delete", "cancel"}
    BY <1>1, SwapFacts
  <2>2. /\ k \in CallState /\ k.pc = "swapPending" /\ k.who = proc[p].who
        /\ k.for = proc[p].for /\ k.todo = {}
    BY <2>1 DEF CallState
  <2>3. proc' = [proc EXCEPT ![p] = k]
    BY <1>3 DEF Go
  <2> HIDE DEF k
  <2>4. Finalizes(k) => Finalizes(proc[p])
    BY <1>1, <2>2 DEF Finalizes
  <2>5. CallOK(k, task)
    BY <1>1, <2>1, <2>2, <2>4 DEF CallOK, Places, Stage, None
  <2> QED
    BY <1>1, <1>3, <2>2, <2>3, <2>4, <2>5, MoveInv DEF OthersMove, SwapRunning
<1> QED
  BY <1>2, <1>3 DEF SwapRunning

LEMMA SwapPendingInv == ASSUME IInv, NEW p \in Procs, SwapPending(p) PROVE IInv' /\ ~Late
<1>1. OthersMove /\ proc[p].pc = "swapPending"
  BY Unchanged DEF SwapPending, OthersMove
<1>2. CASE SwapCancelled(p, "pending")
  BY <1>1, <1>2, SwapCancelledInv
<1>3. CASE Go(p, Idle) /\ UNCHANGED task
  BY <1>1, <1>3, IdleFacts, Unchanged, StepInv
<1> QED
  BY <1>2, <1>3 DEF SwapPending

LEMMA CancelExecutionInv ==
  ASSUME IInv, NEW p \in Procs, NEW t \in Tasks, NEW who \in {"final", "delete"},
         CancelExecution(p, t, who), who = "delete" => task[t].deleting, OthersMove
  PROVE  IInv' /\ ~Late
<1>1. task[t] \in TaskRow /\ RowOK(task[t]) /\ task \in [Tasks -> TaskRow]
  BY RowFacts DEF IInv, TypeOK
<1>2. CASE task[t].exec = "active"
  <2> DEFINE r == [task[t] EXCEPT !.exec = "terminal", !.end = "cancelled"]
             k == [Idle EXCEPT !.pc = "core", !.who = who, !.for = t]
  <2>1. /\ r \in TaskRow /\ r.exec = "terminal" /\ r.end = "cancelled"
        /\ r.deleting = task[t].deleting /\ r.status = task[t].status
    BY <1>1 DEF TaskRow, Ended, Open
  <2>2. task' = [task EXCEPT ![t] = r]
    BY <1>1, <1>2 DEF CancelExecution
  <2> HIDE DEF r
  <2>3. RowOK(r)
    BY <1>1, <1>2, <2>1 DEF RowOK, Ended
  <2>4. Free(p, t)
    BY <1>2, FreeFacts DEF Free
  <2>5. RowsMove(p) /\ task'[t] = r
    <3>1. r.exec = task[t].exec \/ Free(p, t)
      BY <2>4
    <3>2. /\ task[t].deleting => r.deleting
          /\ r.status = "pending" => task[t].status = "pending" \/ ~task[t].deleting
          /\ r.status = "running" =>
               task[t].status = "running" \/ (~task[t].deleting /\ Dispatchable(t))
      BY <2>1
    <3> QED
      BY <2>1, <2>2, <2>3, <3>1, <3>2, OneRow
  <2>6. k \in CallState /\ k.pc = "core" /\ k.who = who /\ k.for = t
    BY RestFacts DEF CallState
  <2>7. proc' = [proc EXCEPT ![p] = k]
    BY <1>2 DEF CancelExecution, Go
  <2> HIDE DEF k
  <2>8. CallOK(k, task')
    BY <2>1, <2>5, <2>6 DEF CallOK, Places, Stage, None
  <2>9. CallMoves(p, k)
    BY <2>4, <2>6, <2>7, <2>8 DEF CallMoves
  <2> QED
    BY <2>5, <2>6, <2>9, StepInv
<1>3. CASE task[t].exec # "active"
  <2> DEFINE s == StageOf(t)
             k == [Idle EXCEPT !.pc = s, !.who = who, !.for = t]
  <2>1. task[t].exec \in Open /\ Unclaimed(t)
    BY <1>3 DEF CancelExecution, Cancellable
  <2>2. /\ s \in {"core", "count", "list"}
        /\ s = "core" => task[t].exec = "terminal"
        /\ s = "count" => task[t].exec = "task"
        /\ s = "list" => task[t].exec = "slot"
    BY <2>1 DEF StageOf, Open
  <2> HIDE DEF s
  <2>3. k \in CallState /\ k.pc = s /\ k.who = who /\ k.for = t
    BY <2>2, RestFacts DEF CallState
  <2>4. proc' = [proc EXCEPT ![p] = k] /\ UNCHANGED task
    BY <1>3 DEF CancelExecution, Go, s
  <2> HIDE DEF k
  <2>5. Free(p, t)
    BY <2>1, FreeFacts DEF Free
  <2>6. CallOK(k, task')
    BY <2>2, <2>3, <2>4 DEF CallOK, Places, Stage, None
  <2>7. CallMoves(p, k) /\ RowsMove(p)
    BY <2>3, <2>4, <2>5, <2>6, Unchanged DEF CallMoves
  <2> QED
    BY <2>3, <2>7, StepInv
<1> QED
  BY <1>2, <1>3

LEMMA CancelInv ==
  ASSUME IInv, NEW p \in Procs, NEW t \in Tasks, Cancel(p, t)
  PROVE  IInv' /\ ~Late
<1>1. OthersMove
  BY Unchanged DEF Cancel, OthersMove
<1>2. CASE CancelPending(p, t, "cancel")
  BY <1>1, <1>2, CancelPendingInv DEF Cancel
<1>3. CASE CancelExecution(p, t, "final")
  BY <1>1, <1>3, CancelExecutionInv
<1> QED
  BY <1>2, <1>3 DEF Cancel

LEMMA BeginDeleteInv ==
  ASSUME IInv, NEW p \in Procs, NEW t \in Tasks, BeginDelete(p, t)
  PROVE  IInv' /\ ~Late
<1> DEFINE r == [task[t] EXCEPT !.deleting = TRUE]
           k == [Idle EXCEPT !.pc = "delete", !.who = "delete", !.for = t]
<1>1. task[t] \in TaskRow /\ RowOK(task[t])
  BY RowFacts
<1>2. /\ r \in TaskRow /\ r.deleting = TRUE /\ r.exec = task[t].exec /\ r.end = task[t].end
      /\ r.status = task[t].status
  BY <1>1 DEF TaskRow
<1>3. task' = [task EXCEPT ![t] = r]
  BY DEF BeginDelete
<1> HIDE DEF r
<1>4. RowOK(r)
  BY <1>1, <1>2 DEF RowOK
<1>5. RowsMove(p) /\ task'[t] = r
  BY <1>2, <1>3, <1>4, OneRow
<1>6. k \in CallState /\ k.pc = "delete" /\ k.who = "delete" /\ k.for = t
  BY RestFacts DEF CallState
<1>7. proc' = [proc EXCEPT ![p] = k] /\ OthersMove
  BY Unchanged DEF BeginDelete, Go, OthersMove
<1> HIDE DEF k
<1>8. ~Finalizes(k) /\ CallOK(k, task')
  BY <1>2, <1>5, <1>6 DEF Finalizes, CallOK, Places, None
<1> QED
  BY <1>5, <1>6, <1>7, <1>8, BeginFacts, StepInv

LEMMA DeleteReloadedInv ==
  ASSUME IInv, NEW p \in Procs, DeleteReloaded(p)
  PROVE  IInv' /\ ~Late
<1> DEFINE t == proc[p].for
           r == [task[t] EXCEPT !.status = "absent"]
<1>1. proc[p].pc = "delete" /\ proc[p] \in CallState /\ CallOK(proc[p], task)
  BY DEF DeleteReloaded, IInv, TypeOK
<1>2. proc[p].who = "delete"
  BY <1>1 DEF CallOK, Places, CallState
<1>3. t \in Tasks /\ task[t].deleting /\ task[t] \in TaskRow /\ RowOK(task[t])
  BY <1>1, <1>2, RowFacts DEF CallOK
<1>4. OthersMove
  BY Unchanged DEF DeleteReloaded, OthersMove
<1>5. CASE CancelPending(p, t, "delete")
  BY <1>3, <1>4, <1>5, CancelPendingInv
<1>6. CASE CancelExecution(p, t, "delete")
  BY <1>3, <1>4, <1>6, CancelExecutionInv
<1>7. CASE Removable(t) /\ task' = [task EXCEPT ![t].status = "absent"] /\ Go(p, Idle)
  <2>1. /\ r \in TaskRow /\ r.deleting = task[t].deleting /\ r.exec = task[t].exec
        /\ r.status = "absent"
    BY <1>3 DEF TaskRow
  <2>2. task' = [task EXCEPT ![t] = r]
    BY <1>7
  <2> HIDE DEF r
  <2>3. RowOK(r)
    BY <1>3, <1>7, <2>1 DEF RowOK, Removable
  <2>4. RowsMove(p)
    BY <1>3, <2>1, <2>2, <2>3, OneRow
  <2> QED
    BY <1>4, <1>7, <2>4, IdleFacts, StepInv
<1>8. CASE Go(p, Idle) /\ UNCHANGED task
  BY <1>4, <1>8, IdleFacts, Unchanged, StepInv
<1> QED
  BY <1>5, <1>6, <1>7, <1>8 DEF DeleteReloaded

LEMMA PauseInv == ASSUME IInv, Pause PROVE IInv' /\ ~Late
<1> DEFINE C(t) == t \in Planned /\ task[t].status = "pending" /\ task[t].exec = "none"
                   /\ ~task[t].deleting
<1>1. ASSUME NEW t \in Tasks
      PROVE  task'[t] \in TaskRow /\ RowOK(task'[t]) /\ Refused(t) /\ task'[t].exec = task[t].exec
  <2>1. task[t] \in TaskRow /\ RowOK(task[t])
    BY RowFacts
  <2>2. task'[t] = IF C(t) THEN [task[t] EXCEPT !.status = "cancelled"] ELSE task[t]
    BY DEF Pause
  <2>3. CASE C(t)
    <3> DEFINE r == [task[t] EXCEPT !.status = "cancelled"]
    <3>1. /\ r \in TaskRow /\ r.status = "cancelled" /\ r.exec = task[t].exec
          /\ r.deleting = task[t].deleting
      BY <2>1 DEF TaskRow, Ended
    <3>2. task'[t] = r
      BY <2>2, <2>3
    <3> HIDE DEF r
    <3> QED
      BY <2>3, <3>1, <3>2 DEF RowOK, Refused
  <2>4. CASE ~C(t)
    BY <2>1, <2>2, <2>4 DEF Refused
  <2> QED
    BY <2>3, <2>4
<1>2. task' \in [Tasks -> TaskRow]
  BY <1>1 DEF Pause
<1>3. OthersMove
  BY Unchanged DEF Pause, OthersMove
<1> QED
  BY <1>1, <1>2, <1>3, OutsideInv DEF Pause

LEMMA ResumePlanInv == ASSUME IInv, ResumePlan PROVE IInv' /\ ~Late
<1>1. OthersMove
  BY Unchanged DEF ResumePlan, OthersMove
<1>2. task' \in [Tasks -> TaskRow] /\ \A t \in Tasks : RowOK(task'[t]) /\ Refused(t)
  BY DEF IInv, TypeOK, ResumePlan, Refused
<1> QED
  BY <1>1, <1>2, OutsideInv DEF ResumePlan
-----------------------------------------------------------------------------
(* EnqueueExecution                                                          *)

LEMMA ThenInv ==
  ASSUME IInv, NEW p \in Procs, NEW m \in CallState, Ready(m), Go(p, Then(m)),
         m.who = proc[p].who, m.for = proc[p].for,
         proc[p].who \in {"final", "delete"} => Finalizes(proc[p]),
         UNCHANGED <<task, plan>>, CountOK', queue' \in [Tasks -> Message], BudgetMoves
  PROVE  IInv' /\ ~Late
<1> DEFINE k == Then(m)
<1>1. k \in CallState /\ CallOK(k, task)
  BY ThenFacts
<1>2. Finalizes(k) => Finalizes(proc[p]) /\ proc[p].for = k.for
  BY ThenFacts
<1>3. proc' = [proc EXCEPT ![p] = k]
  BY DEF Go
<1> HIDE DEF k
<1> QED
  BY <1>1, <1>2, <1>3, MoveInv

LEMMA DropFacts ==
  ASSUME IInv, NEW p \in Procs, proc[p].pc \in {"reserve", "enqueue"}, NEW t \in Tasks,
         NEW e \in BOOLEAN
  PROVE  LET m == Dropped(proc[p], t, e) IN
         /\ m \in CallState /\ Ready(m) /\ m.who = proc[p].who /\ m.for = proc[p].for
         /\ proc[p].who \in {"final", "delete"} => Finalizes(proc[p])
<1> DEFINE k == proc[p]
           m == Dropped(k, t, e)
<1>1. k \in CallState /\ CallOK(k, task)
  BY DEF IInv, TypeOK
<1>2. /\ Ready(k) /\ (k.who \in {"final", "delete"} => Finalizes(k))
      /\ k.who = "retry" => k.for \in Tasks
      /\ k.who = "delete" => task[k.for].exec = "slot"
      /\ k.who # "cancel"
  BY <1>1, ReadyFacts
<1> HIDE DEF k
<1>3. /\ m \in CallState /\ m.who = k.who /\ m.for = k.for
      /\ m.todo = k.todo \ {t}
  BY <1>1 DEF Dropped, CallState
<1> HIDE DEF m
<1>4. Ready(m)
  BY <1>2, <1>3 DEF Ready
<1> QED
  BY <1>2, <1>3, <1>4 DEF k, m

LEMMA ReserveInv == ASSUME IInv, NEW p \in Procs, Reserve(p) PROVE IInv' /\ ~Late
<1>1. PICK t \in proc[p].todo :
        LET r == proc[p]
            gone == task[t].deleting \/ task[t].status = "absent"
            enqueue == Go(p, [r EXCEPT !.pc = "enqueue", !.cur = t])
            drop    == Go(p, Then(Dropped(r, t, gone)))
        IN /\ r.pc = "reserve" /\ (enqueue \/ drop)
           /\ (count' = Value + 1 /\ Value < Max) \/ UNCHANGED count
           /\ UNCHANGED budget \/ Fault
           /\ UNCHANGED <<task, plan, queue>>
  BY DEF Reserve
<1> DEFINE r == proc[p]
           gone == task[t].deleting \/ task[t].status = "absent"
<1>2. r \in CallState /\ CallOK(r, task) /\ r.pc = "reserve" /\ UNCHANGED <<task, plan, queue>>
  BY <1>1 DEF IInv, TypeOK
<1>3. t \in Tasks
  BY <1>2 DEF CallState
<1>4. task[t] \in TaskRow
  BY <1>3, RowFacts
<1>5. gone \in BOOLEAN
  BY <1>4 DEF TaskRow
<1>6. CountOK'
  <2>1. CASE UNCHANGED count
    BY <2>1, Unchanged
  <2>2. CASE count' = Value + 1 /\ Value < Max
    <3>1. count \in {NoKey} \cup Nat
      BY DEF IInv, TypeOK
    <3>2. Value \in Nat
      BY <3>1 DEF Value, NoKey
    <3> QED
      BY <2>2, <3>2, SlotsAssumption DEF CountOK
  <2> QED
    BY <1>1, <2>1, <2>2
<1>7. BudgetMoves /\ queue' \in [Tasks -> Message]
  BY <1>1, Unchanged
<1>8. CASE Go(p, [r EXCEPT !.pc = "enqueue", !.cur = t])
  <2> DEFINE k == [r EXCEPT !.pc = "enqueue", !.cur = t]
  <2>1. /\ k \in CallState /\ k.pc = "enqueue" /\ k.who = r.who /\ k.for = r.for
        /\ k.cur = t /\ k.todo = r.todo
    BY <1>2, <1>3 DEF CallState
  <2>2. proc' = [proc EXCEPT ![p] = k]
    BY <1>8 DEF Go
  <2> HIDE DEF k
  <2>3. Finalizes(k) <=> Finalizes(r)
    BY <1>2, <2>1 DEF Finalizes
  <2>4. CallOK(k, task)
    BY <1>2, <1>3, <2>1, <2>3, RestFacts DEF CallOK, Places, Stage, CallState
  <2> QED
    BY <1>2, <1>6, <1>7, <2>1, <2>2, <2>3, <2>4, MoveInv
<1>9. CASE Go(p, Then(Dropped(r, t, gone)))
  <2> HIDE DEF gone
  <2> DEFINE m == Dropped(r, t, gone)
  <2>1. /\ m \in CallState /\ Ready(m) /\ m.who = proc[p].who /\ m.for = proc[p].for
        /\ proc[p].who \in {"final", "delete"} => Finalizes(proc[p])
    BY <1>2, <1>3, <1>5, DropFacts
  <2>2. Go(p, Then(m))
    BY <1>9
  <2> HIDE DEF m
  <2> QED
    BY <1>2, <1>6, <1>7, <2>1, <2>2, ThenInv
<1> QED
  BY <1>1, <1>8, <1>9

LEMMA EnqueueUniqueInv == ASSUME IInv, NEW p \in Procs, EnqueueUnique(p) PROVE IInv' /\ ~Late
<1> DEFINE r == proc[p]
           t == r.cur
           new == [state |-> "queued", tries |-> 0]
<1>1. r \in CallState /\ CallOK(r, task) /\ r.pc = "enqueue" /\ queue \in [Tasks -> Message]
  BY DEF EnqueueUnique, IInv, TypeOK
<1>2. t \in Tasks /\ UNCHANGED <<task, plan, count>>
  BY <1>1 DEF CallOK, EnqueueUnique
<1>3. CountOK' /\ BudgetMoves
  BY Unchanged DEF EnqueueUnique
<1>4. CASE /\ queue' = [queue EXCEPT ![t] = new] /\ Go(p, Then(Dropped(r, t, FALSE)))
  <2> DEFINE m == Dropped(r, t, FALSE)
  <2>1. /\ m \in CallState /\ Ready(m) /\ m.who = proc[p].who /\ m.for = proc[p].for
        /\ proc[p].who \in {"final", "delete"} => Finalizes(proc[p])
    BY <1>1, <1>2, DropFacts
  <2>2. Go(p, Then(m))
    BY <1>4
  <2>3. new \in Message
    BY SlotsAssumption DEF Message
  <2>4. queue' \in [Tasks -> Message]
    BY <1>1, <1>4, <2>3
  <2> HIDE DEF m
  <2> QED
    BY <1>2, <1>3, <2>1, <2>2, <2>4, ThenInv
<1>5. ASSUME NEW e \in BOOLEAN, UNCHANGED queue,
             Go(p, [Dropped(r, t, e) EXCEPT !.pc = "release", !.cur = t])
      PROVE  IInv' /\ ~Late
  <2> DEFINE m == Dropped(r, t, e)
             k == [m EXCEPT !.pc = "release", !.cur = t]
  <2>1. /\ m \in CallState /\ Ready(m) /\ m.who = r.who /\ m.for = r.for
        /\ r.who \in {"final", "delete"} => Finalizes(r)
    BY <1>1, <1>2, DropFacts
  <2>2. proc' = [proc EXCEPT ![p] = k]
    BY <1>5 DEF Go
  <2> HIDE DEF m
  <2>3. k \in CallState /\ k.pc = "release" /\ k.who = r.who /\ k.for = r.for
    BY <1>2, <2>1 DEF CallState
  <2> HIDE DEF k
  <2>4. Finalizes(k) <=> Finalizes(r)
    BY <1>1, <2>3 DEF Finalizes
  <2>5. /\ r.who = "retry" => r.for \in Tasks
        /\ r.who # "cancel" /\ (r.who = "delete" => task[r.for].exec = "slot")
    BY <1>1, ReadyFacts
  <2>6. CallOK(k, task)
    BY <1>1, <2>3, <2>4, <2>5, RestFacts DEF CallOK, Places, Stage, CallState
  <2>7. queue' \in [Tasks -> Message]
    BY <1>1, <1>5
  <2> QED
    BY <1>2, <1>3, <2>2, <2>3, <2>4, <2>6, <2>7, MoveInv
<1> QED
  BY <1>4, <1>5 DEF EnqueueUnique

LEMMA ReleaseSlotInv == ASSUME IInv, NEW p \in Procs, ReleaseSlot(p) PROVE IInv' /\ ~Late
<1> DEFINE k == proc[p]
<1>1. k \in CallState /\ CallOK(k, task) /\ k.pc = "release"
  BY DEF ReleaseSlot, IInv, TypeOK
<1>2. Ready(k) /\ (k.who \in {"final", "delete"} => Finalizes(k))
  BY <1>1, ReadyFacts
<1>3. Go(p, Then(k)) /\ UNCHANGED <<task, plan>> /\ queue' \in [Tasks -> Message] /\ BudgetMoves
  BY Unchanged DEF ReleaseSlot
<1>4. CountOK'
  <2>1. /\ count \in {NoKey} \cup Nat /\ (count <= Max \/ count <= Cardinality(Tasks))
        /\ count' = IF count > 0 THEN count - 1 ELSE count
    BY DEF IInv, TypeOK, ReleaseSlot
  <2> QED
    BY <2>1, RestFacts, SlotsAssumption DEF CountOK, NoKey
<1> QED
  BY <1>1, <1>2, <1>3, <1>4, ThenInv

\* A row whose status ends, for a task that was waiting
LEMMA FailRow ==
  ASSUME IInv, NEW p \in Procs, NEW t \in Tasks,
         task' = [task EXCEPT ![t].status = "failed"], task[t].status = "pending"
  PROVE  RowsMove(p)
<1> DEFINE r == [task[t] EXCEPT !.status = "failed"]
<1>1. task[t] \in TaskRow /\ RowOK(task[t])
  BY RowFacts
<1>2. /\ r \in TaskRow /\ r.status = "failed" /\ r.exec = task[t].exec /\ r.end = task[t].end
      /\ r.deleting = task[t].deleting
  BY <1>1 DEF TaskRow, Ended
<1>3. task' = [task EXCEPT ![t] = r]
  OBVIOUS
<1> HIDE DEF r
<1>4. RowOK(r)
  BY <1>1, <1>2 DEF RowOK
<1> QED
  BY <1>1, <1>2, <1>3, <1>4, OneRow

LEMMA EnqueueFailedInv == ASSUME IInv, NEW p \in Procs, EnqueueFailed(p) PROVE IInv' /\ ~Late
<1> DEFINE t == proc[p].for
           k == [Idle EXCEPT !.pc = "release", !.who = "retry"]
<1>1. proc[p] \in CallState /\ CallOK(proc[p], task) /\ proc[p].pc = "fail"
  BY DEF EnqueueFailed, IInv, TypeOK
<1>2. t \in Tasks
  BY <1>1 DEF CallOK, Places, CallState
<1>3. RowsMove(p)
  BY <1>2, FailRow, Unchanged DEF EnqueueFailed
<1>4. OthersMove
  BY Unchanged DEF EnqueueFailed, OthersMove
<1>5. CASE Go(p, Idle)
  BY <1>3, <1>4, <1>5, IdleFacts, StepInv
<1>6. CASE Go(p, k)
  <2>1. k \in CallState /\ k.pc = "release" /\ k.who = "retry" /\ ~k.err /\ k.todo = {}
    BY RestFacts DEF CallState
  <2>2. proc' = [proc EXCEPT ![p] = k]
    BY <1>6 DEF Go
  <2> HIDE DEF k
  <2>3. ~Finalizes(k) /\ CallOK(k, task')
    BY <2>1 DEF Finalizes, CallOK, Places, None
  <2> QED
    BY <1>3, <1>4, <2>1, <2>2, <2>3, BeginFacts, StepInv
<1> QED
  BY <1>5, <1>6 DEF EnqueueFailed
-----------------------------------------------------------------------------
(* The worker                                                                *)

LEMMA WorkerFacts ==
  ASSUME IInv, NEW p \in Procs, proc[p].pc \in {"prepare", "start", "reply"}
  PROVE  proc[p] \in CallState /\ proc[p].who = "worker" /\ proc[p].for \in Tasks
<1>1. proc[p] \in CallState /\ CallOK(proc[p], task)
  BY DEF IInv, TypeOK
<1>2. proc[p].who = "worker"
  BY <1>1 DEF CallOK, Places, CallState
<1> QED
  BY <1>1, <1>2 DEF CallOK

\* A worker goes on, with the task it took from the queue
LEMMA WorkerGoes ==
  ASSUME IInv, NEW p \in Procs, NEW k \in CallState, proc' = [proc EXCEPT ![p] = k],
         k.who = "worker", k.for \in Tasks, k.pc \in Places("worker") \ {"enqueue"}
  PROVE  CallMoves(p, k)
<1>1. k.pc \notin {"swapRunning", "swapPending", "enqueue"}
  BY DEF Places, None
<1>2. ~Finalizes(k) /\ CallOK(k, task')
  BY <1>1 DEF Finalizes, CallOK, None
<1> QED
  BY <1>2, BeginFacts

LEMMA TakeInv == ASSUME IInv, NEW p \in Procs, NEW t \in Tasks, Take(p, t) PROVE IInv' /\ ~Late
<1> DEFINE gone == task[t].status = "absent"
           k == [Idle EXCEPT !.pc = IF gone THEN "reply" ELSE "prepare",
                             !.who = "worker", !.for = t, !.err = gone]
           none == [state |-> "no", tries |-> 0]
<1>1. queue \in [Tasks -> Message] /\ task[t] \in TaskRow /\ \A q : RowsMove(q)
  BY RowFacts, Unchanged DEF Take, IInv, TypeOK
<1>2. plan' \in {"active", "paused"} /\ CountOK' /\ BudgetMoves /\ UNCHANGED <<task, plan>>
  BY Unchanged DEF Take
<1>3. CASE task[t].status \in Ended
  <2>1. none \in Message
    BY SlotsAssumption DEF Message
  <2>2. queue' = [queue EXCEPT ![t] = none] /\ UNCHANGED proc
    BY <1>3 DEF Take
  <2>3. OthersMove
    BY <1>1, <1>2, <2>1, <2>2 DEF OthersMove
  <2>4. \A u \in Tasks : RowOK(task'[u]) /\ Refused(u)
    BY <1>1 DEF RowsMove
  <2> QED
    BY <1>1, <1>2, <2>2, <2>3, <2>4, OutsideInv DEF RowsMove
<1>4. CASE task[t].status \notin Ended
  <2> DEFINE m == [queue[t] EXCEPT !.state = "active"]
  <2>1. m \in Message
    BY <1>1 DEF Message
  <2>2. queue' = [queue EXCEPT ![t] = m] /\ Go(p, k)
    BY <1>4 DEF Take
  <2> HIDE DEF m
  <2>3. OthersMove
    BY <1>1, <1>2, <2>1, <2>2 DEF OthersMove
  <2>4. gone \in BOOLEAN
    BY <1>1 DEF TaskRow
  <2> HIDE DEF gone
  <2>5. k \in CallState /\ k.who = "worker" /\ k.for = t /\ k.pc \in {"reply", "prepare"}
    BY <2>4, RestFacts DEF CallState
  <2>6. proc' = [proc EXCEPT ![p] = k]
    BY <2>2 DEF Go
  <2> HIDE DEF k
  <2>7. CallMoves(p, k)
    BY <2>5, <2>6, WorkerGoes DEF Places, None
  <2> QED
    BY <1>1, <2>3, <2>5, <2>7, StepInv
<1> QED
  BY <1>3, <1>4

\* The steps of a worker that write no row
LEMMA WorkerMoveInv ==
  ASSUME IInv, NEW p \in Procs, proc[p].pc \in {"prepare", "start", "reply"},
         NEW pc \in {"start", "count", "reply"}, NEW e \in BOOLEAN,
         \/ Go(p, [proc[p] EXCEPT !.pc = pc])
         \/ Go(p, [proc[p] EXCEPT !.pc = pc, !.err = e]),
         RowsMove(p), OthersMove
  PROVE  IInv' /\ ~Late
<1>1. proc[p] \in CallState /\ proc[p].who = "worker" /\ proc[p].for \in Tasks
  BY WorkerFacts
<1>2. CASE Go(p, [proc[p] EXCEPT !.pc = pc])
  <2> DEFINE k == [proc[p] EXCEPT !.pc = pc]
  <2>1. k \in CallState /\ k.who = "worker" /\ k.for \in Tasks /\ k.pc = pc
    BY <1>1 DEF CallState
  <2>2. proc' = [proc EXCEPT ![p] = k]
    BY <1>2 DEF Go
  <2> HIDE DEF k
  <2>3. CallMoves(p, k)
    BY <2>1, <2>2, WorkerGoes DEF Places, None
  <2> QED
    BY <2>1, <2>3, StepInv
<1>3. CASE Go(p, [proc[p] EXCEPT !.pc = pc, !.err = e])
  <2> DEFINE k == [proc[p] EXCEPT !.pc = pc, !.err = e]
  <2>1. k \in CallState /\ k.who = "worker" /\ k.for \in Tasks /\ k.pc = pc
    BY <1>1 DEF CallState
  <2>2. proc' = [proc EXCEPT ![p] = k]
    BY <1>3 DEF Go
  <2> HIDE DEF k
  <2>3. CallMoves(p, k)
    BY <2>1, <2>2, WorkerGoes DEF Places, None
  <2> QED
    BY <2>1, <2>3, StepInv
<1> QED
  BY <1>2, <1>3

LEMMA FailPendingInv ==
  ASSUME IInv, NEW p \in Procs, proc[p].pc \in {"prepare", "start", "reply"},
         NEW lost \in BOOLEAN, FailPending(p, proc[p].for, lost), OthersMove
  PROVE  IInv' /\ ~Late
<1>1. proc[p].for \in Tasks
  BY WorkerFacts
<1>2. CASE task[proc[p].for].status = "pending"
  <2>1. RowsMove(p) /\ Go(p, [proc[p] EXCEPT !.pc = "count"])
    BY <1>1, <1>2, FailRow DEF FailPending
  <2> QED
    BY <2>1, WorkerMoveInv
<1>3. CASE task[proc[p].for].status # "pending"
  <2>1. RowsMove(p) /\ Go(p, [proc[p] EXCEPT !.pc = "reply", !.err = lost])
    BY <1>3, Unchanged DEF FailPending
  <2> QED
    BY <2>1, WorkerMoveInv
<1> QED
  BY <1>2, <1>3

LEMMA PrepareInv == ASSUME IInv, NEW p \in Procs, Prepare(p) PROVE IInv' /\ ~Late
<1>1. OthersMove
  BY Unchanged DEF Prepare, OthersMove
<1>2. CASE Go(p, [proc[p] EXCEPT !.pc = "start"]) /\ UNCHANGED task
  <2>1. RowsMove(p)
    BY <1>2, Unchanged
  <2> QED
    BY <1>1, <1>2, <2>1, WorkerMoveInv DEF Prepare
<1>3. CASE FailPending(p, proc[p].for, FALSE)
  BY <1>1, <1>3, FailPendingInv DEF Prepare
<1> QED
  BY <1>2, <1>3 DEF Prepare

LEMMA StartInv == ASSUME IInv, NEW p \in Procs, Start(p) PROVE IInv' /\ ~Late
<1> DEFINE t == proc[p].for
<1>1. t \in Tasks /\ proc[p].pc = "start"
  BY WorkerFacts DEF Start
<1>2. OthersMove
  BY Unchanged DEF Start, OthersMove
<1>3. CASE UNCHANGED task /\ Go(p, [proc[p] EXCEPT !.pc = "reply"])
  <2>1. RowsMove(p)
    BY <1>3, Unchanged
  <2> QED
    BY <1>1, <1>2, <1>3, <2>1, WorkerMoveInv
<1>4. CASE /\ Dispatchable(t) /\ MayStart(t)
           /\ task' = [task EXCEPT ![t].status = "running", ![t].exec = "active"]
           /\ \/ Go(p, [proc[p] EXCEPT !.pc = "reply"])
              \/ Go(p, [proc[p] EXCEPT !.pc = "reply", !.err = TRUE])
  <2> DEFINE r == [task[t] EXCEPT !.status = "running", !.exec = "active"]
  <2>1. task[t] \in TaskRow /\ RowOK(task[t]) /\ task[t].status = "pending" /\ ~task[t].deleting
    BY <1>1, <1>4, RowFacts DEF MayStart
  <2>2. /\ r \in TaskRow /\ r.status = "running" /\ r.exec = "active"
        /\ r.deleting = task[t].deleting
    BY <2>1 DEF TaskRow
  <2>3. task' = [task EXCEPT ![t] = r]
    BY <1>1, <1>4 DEF IInv, TypeOK
  <2> HIDE DEF r
  <2>4. RowOK(r)
    BY <2>2 DEF RowOK
  <2>5. Free(p, t)
    BY <1>1, <2>1, FreeFacts DEF RowOK, Free
  <2>6. RowsMove(p)
    BY <1>1, <1>4, <2>1, <2>2, <2>3, <2>4, <2>5, OneRow
  <2> QED
    BY <1>1, <1>2, <1>4, <2>6, WorkerMoveInv
<1>5. CASE FailPending(p, t, TRUE)
  BY <1>1, <1>2, <1>5, FailPendingInv
<1> QED
  BY <1>3, <1>4, <1>5 DEF Start

LEMMA ReplyInv == ASSUME IInv, NEW p \in Procs, Reply(p) PROVE IInv' /\ ~Late
<1> DEFINE t == proc[p].for
           m == queue[t]
           none == [state |-> "no", tries |-> 0]
           again == [state |-> "queued", tries |-> m.tries + 1]
           last == [m EXCEPT !.state = "archived"]
<1>1. t \in Tasks /\ proc[p].pc = "reply" /\ queue \in [Tasks -> Message] /\ m \in Message
  BY WorkerFacts DEF Reply, IInv, TypeOK
<1>2. none \in Message /\ last \in Message
  BY <1>1, SlotsAssumption DEF Message
<1>3. m.tries < MaxTries => again \in Message
  <2> SUFFICES ASSUME m.tries < MaxTries PROVE m.tries + 1 \in 0..MaxTries
      BY DEF Message
  <2> QED
      BY <1>1, SlotsAssumption DEF Message
<1>4. queue' = [queue EXCEPT ![t] =
        CASE ~proc[p].err -> none [] proc[p].err /\ m.tries < MaxTries -> again [] OTHER -> last]
  BY DEF Reply
<1> HIDE DEF none, again, last
<1>5. queue' \in [Tasks -> Message]
  BY <1>1, <1>2, <1>3, <1>4
<1>6. OthersMove /\ RowsMove(p) /\ Go(p, Idle)
  BY <1>5, Unchanged DEF Reply, OthersMove
<1> QED
  BY <1>6, IdleFacts, StepInv
-----------------------------------------------------------------------------
(* The end of an execution                                                   *)

LEMMA EndInv == ASSUME IInv, NEW t \in Tasks, End(t) PROVE IInv' /\ ~Late
<1>1. PICK v \in {"completed", "failed"} :
        task' = [task EXCEPT ![t].exec = "terminal", ![t].end = v]
  BY DEF End
<1> DEFINE r == [task[t] EXCEPT !.exec = "terminal", !.end = v]
<1>2. /\ task \in [Tasks -> TaskRow] /\ task[t] \in TaskRow /\ RowOK(task[t])
      /\ task[t].exec = "active"
  BY RowFacts DEF End, IInv, TypeOK
<1>3. /\ r \in TaskRow /\ r.exec = "terminal" /\ r.end = v /\ r.status = task[t].status
      /\ r.deleting = task[t].deleting
  BY <1>2 DEF TaskRow, Ended, Open
<1>4. task' = [task EXCEPT ![t] = r]
  BY <1>1, <1>2
<1> HIDE DEF r
<1>5. RowOK(r)
  BY <1>2, <1>3 DEF RowOK, Ended
<1>6. task' \in [Tasks -> TaskRow] /\ task'[t] = r /\ \A u \in Tasks \ {t} : task'[u] = task[u]
  BY <1>2, <1>3, <1>4
<1>7. \A q \in Procs : ~(Finalizes(proc[q]) /\ proc[q].for = t)
  BY <1>2, FreeFacts
<1>8. ASSUME NEW u \in Tasks
      PROVE  /\ RowOK(task'[u]) /\ Refused(u)
             /\ \/ task'[u].exec = task[u].exec
                \/ \A q \in Procs : ~(Finalizes(proc[q]) /\ proc[q].for = u)
  <2>1. CASE u = t
    BY <1>3, <1>5, <1>6, <1>7, <2>1 DEF Refused
  <2>2. CASE u # t
    BY <1>6, <2>2, RowFacts DEF Refused
  <2> QED
    BY <2>1, <2>2
<1>9. OthersMove
  BY Unchanged DEF End, OthersMove
<1> QED
  BY <1>6, <1>8, <1>9, OutsideInv DEF End

LEMMA FinalizeInv ==
  ASSUME IInv, NEW p \in Procs, NEW t \in Tasks, Finalize(p, t)
  PROVE  IInv' /\ ~Late
<1> DEFINE s == StageOf(t)
           k == [Idle EXCEPT !.who = "final", !.for = t, !.pc = s]
<1>1. /\ task[t].exec \in Open /\ Unclaimed(t) /\ proc' = [proc EXCEPT ![p] = k]
      /\ UNCHANGED task /\ OthersMove /\ RowsMove(p)
  BY Unchanged DEF Finalize, Go, OthersMove
<1>2. /\ s \in {"core", "count", "list"}
      /\ s = "core" => task[t].exec = "terminal"
      /\ s = "count" => task[t].exec = "task"
      /\ s = "list" => task[t].exec = "slot"
  BY <1>1 DEF StageOf, Open
<1> HIDE DEF s
<1>3. k \in CallState /\ k.pc = s /\ k.who = "final" /\ k.for = t
  BY <1>2, RestFacts DEF CallState
<1> HIDE DEF k
<1>4. Free(p, t)
  BY <1>1, FreeFacts DEF Free
<1>5. CallOK(k, task')
  BY <1>1, <1>2, <1>3 DEF CallOK, Places, Stage, None
<1>6. CallMoves(p, k)
  BY <1>1, <1>3, <1>4, <1>5 DEF CallMoves
<1> QED
  BY <1>1, <1>3, <1>6, StepInv

\* The steps that move the stage of an execution are those of its one finalizer
LEMMA FinalizerFacts ==
  ASSUME IInv, NEW p \in Procs, proc[p].pc \in {"core", "advance"}
  PROVE  /\ proc[p] \in CallState /\ proc[p].who \in {"final", "delete"} /\ Finalizes(proc[p])
         /\ proc[p].for \in Tasks /\ Free(p, proc[p].for)
         /\ task[proc[p].for].exec \in Stage(proc[p])
         /\ proc[p].who = "delete" => task[proc[p].for].deleting
<1>1. proc[p] \in CallState /\ CallOK(proc[p], task)
  BY DEF IInv, TypeOK
<1>2. proc[p].who \in {"final", "delete"}
  BY <1>1 DEF CallOK, Places, CallState
<1>3. Finalizes(proc[p]) /\ proc[p].for \in Tasks
  BY <1>1, <1>2 DEF CallOK, Finalizes
<1>4. task[proc[p].for].exec \in Stage(proc[p])
  BY <1>1, <1>3 DEF CallOK
<1>5. task[proc[p].for].exec \in Open
  BY <1>4 DEF Stage, Open
<1> QED
  BY <1>1, <1>2, <1>3, <1>4, <1>5, FreeFacts DEF CallOK

LEMMA CoreInv == ASSUME IInv, NEW p \in Procs, Core(p) PROVE IInv' /\ ~Late
<1> SUFFICES ASSUME ~(Go(p, Idle) /\ UNCHANGED task) PROVE IInv' /\ ~Late
  <2>1. OthersMove
    BY Unchanged DEF Core, OthersMove
  <2> QED
    BY <2>1, IdleFacts, Unchanged, StepInv
<1> DEFINE t == proc[p].for
           r == [task[t] EXCEPT !.status = task[t].end, !.exec = "task"]
           k == [proc[p] EXCEPT !.pc = "count"]
<1>1. /\ proc[p] \in CallState /\ proc[p].who \in {"final", "delete"} /\ Finalizes(proc[p])
      /\ t \in Tasks /\ Free(p, t) /\ task[t].exec = "terminal"
      /\ proc[p].who = "delete" => task[t].deleting
  BY FinalizerFacts DEF Core, Stage
<1>2. task[t] \in TaskRow /\ RowOK(task[t]) /\ task[t].end \in Ended
  BY <1>1, RowFacts DEF RowOK
<1>3. /\ r \in TaskRow /\ r.exec = "task" /\ r.status = task[t].end /\ r.deleting = task[t].deleting
  BY <1>2 DEF TaskRow, Open
<1>4. task' = [task EXCEPT ![t] = r]
  BY <1>1 DEF Core, IInv, TypeOK
<1>5. /\ k \in CallState /\ k.pc = "count" /\ k.who = proc[p].who /\ k.for = t
      /\ proc' = [proc EXCEPT ![p] = k]
  BY <1>1 DEF CallState, Core, Go
<1>6. OthersMove
  BY Unchanged DEF Core, OthersMove
<1> HIDE DEF r, k
<1>7. r.status \in Ended /\ r.status \notin {"absent", "pending", "running"}
  BY <1>2, <1>3 DEF Ended
<1>8. RowOK(r)
  BY <1>3, <1>7 DEF RowOK
<1>9. RowsMove(p) /\ task'[t] = r
  <2>1. r.exec = task[t].exec \/ Free(p, t)
    BY <1>1
  <2>2. /\ task[t].deleting => r.deleting
        /\ r.status = "pending" => task[t].status = "pending" \/ ~task[t].deleting
        /\ r.status = "running" =>
             task[t].status = "running" \/ (~task[t].deleting /\ Dispatchable(t))
    BY <1>3, <1>7
  <2> QED
    BY <1>1, <1>3, <1>4, <1>8, <2>1, <2>2, OneRow
<1>10. CallOK(k, task')
  BY <1>1, <1>3, <1>5, <1>9 DEF CallOK, Places, Stage, None
<1>11. CallMoves(p, k)
  BY <1>1, <1>5, <1>10 DEF CallMoves
<1> QED
  BY <1>5, <1>6, <1>9, <1>11, StepInv

LEMMA AdvanceInv == ASSUME IInv, NEW p \in Procs, Advance(p) PROVE IInv' /\ ~Late
<1> DEFINE t == proc[p].for
<1>1. /\ proc[p] \in CallState /\ proc[p].who \in {"final", "delete"} /\ Finalizes(proc[p])
      /\ t \in Tasks /\ Free(p, t)
      /\ proc[p].who = "delete" => task[t].deleting
  BY FinalizerFacts DEF Advance
<1>2. task[t] \in TaskRow /\ RowOK(task[t]) /\ task \in [Tasks -> TaskRow]
  BY <1>1, RowFacts DEF IInv, TypeOK
<1>3. OthersMove
  BY Unchanged DEF Advance, OthersMove
<1>4. ASSUME NEW e \in {"slot", "done"}, task[t].exec \in {"task", "slot"},
             task' = [task EXCEPT ![t].exec = e]
      PROVE  RowsMove(p) /\ task'[t].exec = e /\ task'[t].deleting = task[t].deleting
  <2> DEFINE r == [task[t] EXCEPT !.exec = e]
  <2>1. /\ r \in TaskRow /\ r.exec = e /\ r.status = task[t].status /\ r.end = task[t].end
        /\ r.deleting = task[t].deleting
    BY <1>2, <1>4 DEF TaskRow, Open
  <2>2. task' = [task EXCEPT ![t] = r]
    BY <1>4
  <2> HIDE DEF r
  <2>3. task[t].status \notin {"absent", "pending", "running"}
    BY <1>2, <1>4 DEF RowOK
  <2>4. RowOK(r)
    BY <1>4, <2>1, <2>3 DEF RowOK
  <2>5. r.exec = task[t].exec \/ Free(p, t)
    BY <1>1
  <2>6. /\ task[t].deleting => r.deleting
        /\ r.status = "pending" => task[t].status = "pending" \/ ~task[t].deleting
        /\ r.status = "running" =>
             task[t].status = "running" \/ (~task[t].deleting /\ Dispatchable(t))
    BY <2>1
  <2>7. RowsMove(p) /\ task'[t] = r
    <3> HIDE DEF t
    <3> QED
      BY <1>1, <2>1, <2>2, <2>4, <2>5, <2>6, OneRow
  <2> QED
    BY <2>1, <2>7
<1>5. CASE /\ task[t].exec = "task" /\ task' = [task EXCEPT ![t].exec = "slot"]
           /\ Go(p, [proc[p] EXCEPT !.pc = "list"])
  <2> DEFINE k == [proc[p] EXCEPT !.pc = "list"]
  <2>1. RowsMove(p) /\ task'[t].exec = "slot" /\ task'[t].deleting = task[t].deleting
    BY <1>4, <1>5
  <2>2. /\ k \in CallState /\ k.pc = "list" /\ k.who = proc[p].who /\ k.for = t
        /\ proc' = [proc EXCEPT ![p] = k]
    BY <1>1, <1>5 DEF CallState, Go
  <2> HIDE DEF k
  <2>3. CallOK(k, task')
    BY <1>1, <2>1, <2>2 DEF CallOK, Places, Stage, None
  <2>4. CallMoves(p, k)
    BY <1>1, <2>2, <2>3 DEF CallMoves
  <2> QED
    BY <1>3, <2>1, <2>2, <2>4, StepInv
<1>6. CASE /\ task[t].exec = "slot" /\ task' = [task EXCEPT ![t].exec = "done"]
  <2> DEFINE k == [Idle EXCEPT !.pc = "delete", !.who = "delete", !.for = t]
  <2>1. RowsMove(p) /\ task'[t].exec = "done" /\ task'[t].deleting = task[t].deleting
    BY <1>4, <1>6
  <2>2. CASE Go(p, Idle)
    BY <1>3, <2>1, <2>2, IdleFacts, StepInv
  <2>3. CASE proc[p].who = "delete" /\ Go(p, k)
    <3>1. /\ k \in CallState /\ k.pc = "delete" /\ k.who = "delete" /\ k.for = t
          /\ proc' = [proc EXCEPT ![p] = k]
      BY <1>1, <2>3, RestFacts DEF CallState, Go
    <3> HIDE DEF k
    <3>2. ~Finalizes(k) /\ CallOK(k, task')
      BY <1>1, <2>1, <2>3, <3>1 DEF Finalizes, CallOK, Places, None
    <3> QED
      BY <1>3, <2>1, <3>1, <3>2, BeginFacts, StepInv
  <2> QED
    BY <1>6, <2>2, <2>3 DEF Advance
<1> QED
  BY <1>5, <1>6 DEF Advance
-----------------------------------------------------------------------------
(* Counting, dispatching, the checker, crashes                               *)

LEMMA CountRunningInv == ASSUME IInv, NEW p \in Procs, CountRunning(p) PROVE IInv' /\ ~Late
<1> DEFINE n == Running
           k == [proc[p] EXCEPT !.seen = n, !.pc = "sync"]
<1>1. proc[p] \in CallState /\ CallOK(proc[p], task) /\ proc[p].pc = "count"
  BY DEF CountRunning, IInv, TypeOK
<1>2. n \in 0..Cardinality(Tasks)
  BY RunningFacts DEF IInv
<1>3. proc' = [proc EXCEPT ![p] = k] /\ UNCHANGED <<task, plan>>
  BY DEF CountRunning, Go
<1> HIDE DEF n
<1>4. /\ k \in CallState /\ k.pc = "sync" /\ k.who = proc[p].who /\ k.for = proc[p].for
      /\ k.todo = proc[p].todo
  BY <1>1, <1>2 DEF CallState
<1> HIDE DEF k
<1>5. Finalizes(k) <=> Finalizes(proc[p])
  BY <1>1, <1>4 DEF Finalizes
<1>6. CallOK(k, task)
  BY <1>1, <1>4, <1>5, RestFacts DEF CallOK, Places, Stage, CallState
<1>7. CountOK' /\ BudgetMoves /\ queue' \in [Tasks -> Message]
  BY Unchanged DEF CountRunning
<1> QED
  BY <1>3, <1>4, <1>5, <1>6, <1>7, MoveInv

LEMMA SyncProjectCountInv ==
  ASSUME IInv, NEW p \in Procs, SyncProjectCount(p) PROVE IInv' /\ ~Late
<1>1. proc[p] \in CallState /\ CallOK(proc[p], task) /\ proc[p].pc = "sync"
  BY DEF SyncProjectCount, IInv, TypeOK
<1>2. proc[p].who \in {"worker", "checker", "final", "delete"}
  BY <1>1 DEF CallOK, Places, CallState
<1>3. UNCHANGED <<task, plan>> /\ BudgetMoves /\ queue' \in [Tasks -> Message]
  BY Unchanged DEF SyncProjectCount
<1>4. CountOK'
  <2>1. proc[p].seen \in 0..Cardinality(Tasks) /\ count' = Synced(proc[p].seen)
    BY <1>1 DEF CallState, SyncProjectCount
  <2> QED
    BY <2>1, RestFacts DEF CountOK, Synced, NoKey
<1>5. ASSUME NEW pc \in {"list", "advance"}, Go(p, [proc[p] EXCEPT !.pc = pc]),
             pc = "list" => proc[p].who = "worker",
             pc = "advance" => proc[p].who \in {"final", "delete"}
      PROVE  IInv' /\ ~Late
  <2> DEFINE k == [proc[p] EXCEPT !.pc = pc]
  <2>1. k \in CallState /\ k.pc = pc /\ k.who = proc[p].who /\ k.for = proc[p].for
    BY <1>1, <1>5 DEF CallState
  <2>2. proc' = [proc EXCEPT ![p] = k]
    BY <1>5 DEF Go
  <2> HIDE DEF k
  <2>3. Finalizes(k) <=> Finalizes(proc[p])
    BY <1>1, <1>5, <2>1 DEF Finalizes
  <2>4. CallOK(k, task)
    BY <1>1, <1>2, <1>5, <2>1, <2>3 DEF CallOK, Places, Stage, Finalizes, None
  <2> QED
    BY <1>3, <1>4, <2>1, <2>2, <2>3, <2>4, MoveInv
<1>6. CASE Go(p, Idle)
  BY <1>3, <1>4, <1>6, RestFacts, MoveInv DEF Go
<1>7. CASE proc[p].who = "worker"
  BY <1>5, <1>7 DEF SyncProjectCount
<1>8. CASE proc[p].who = "checker"
  BY <1>6, <1>8 DEF SyncProjectCount
<1>9. CASE proc[p].who \in {"final", "delete"}
  BY <1>5, <1>9 DEF SyncProjectCount
<1> QED
  BY <1>2, <1>7, <1>8, <1>9

LEMMA ListInv == ASSUME IInv, NEW p \in Procs, List(p) PROVE IInv' /\ ~Late
<1>1. PICK s \in SUBSET Tasks : Go(p, Then([proc[p] EXCEPT !.todo = s]))
  BY DEF List
<1> DEFINE k == [proc[p] EXCEPT !.todo = s]
<1>2. proc[p] \in CallState /\ CallOK(proc[p], task) /\ proc[p].pc = "list"
  BY DEF List, IInv, TypeOK
<1>3. /\ Ready(proc[p])
      /\ proc[p].who \in {"final", "delete"} => Finalizes(proc[p])
      /\ proc[p].who = "delete" => task[proc[p].for].exec = "slot"
  BY <1>2, ReadyFacts
<1>4. proc[p].who \notin {"cancel", "retry"}
  BY <1>2 DEF CallOK, Places
<1>5. k \in CallState /\ k.who = proc[p].who /\ k.for = proc[p].for /\ Go(p, Then(k))
  BY <1>1, <1>2 DEF CallState
<1> HIDE DEF k
<1>6. Ready(k)
  BY <1>3, <1>4, <1>5 DEF Ready
<1>7. /\ UNCHANGED <<task, plan>> /\ CountOK' /\ BudgetMoves
      /\ queue' \in [Tasks -> Message]
  BY Unchanged DEF List
<1> QED
  BY <1>3, <1>5, <1>6, <1>7, ThenInv

LEMMA CheckInv == ASSUME IInv, NEW p \in Procs, Check(p) PROVE IInv' /\ ~Late
<1> DEFINE k == [Idle EXCEPT !.pc = "count", !.who = "checker"]
<1>1. k \in CallState /\ k.pc = "count" /\ k.who = "checker"
  BY RestFacts DEF CallState
<1>2. proc' = [proc EXCEPT ![p] = k] /\ UNCHANGED <<task, plan>>
  BY DEF Check, Go
<1> HIDE DEF k
<1>3. ~Finalizes(k) /\ CallOK(k, task)
  BY <1>1 DEF Finalizes, CallOK, Places, None
<1>4. CountOK' /\ BudgetMoves /\ queue' \in [Tasks -> Message]
  BY Unchanged DEF Check
<1> QED
  BY <1>1, <1>2, <1>3, <1>4, MoveInv

LEMMA CrashInv == ASSUME IInv, NEW p \in Procs, Crash(p) PROVE IInv' /\ ~Late
<1> DEFINE t == proc[p].for
           m == [queue[t] EXCEPT !.state = "queued"]
<1>1. CallOK(proc[p], task) /\ queue \in [Tasks -> Message]
  BY DEF IInv, TypeOK
<1>2. queue' \in [Tasks -> Message]
  <2>1. CASE proc[p].who = "worker"
    <3>1. t \in Tasks
      BY <1>1, <2>1 DEF CallOK
    <3>2. m \in Message
      BY <1>1, <3>1 DEF Message
    <3>3. queue' = [queue EXCEPT ![t] = m]
      BY <2>1 DEF Crash
    <3> HIDE DEF m
    <3> QED
      BY <1>1, <3>2, <3>3
  <2>2. CASE proc[p].who # "worker"
    BY <1>1, <2>2 DEF Crash
  <2> QED
    BY <2>1, <2>2
<1>3. CountOK' /\ BudgetMoves /\ UNCHANGED <<task, plan>> /\ Go(p, Idle)
  BY Unchanged DEF Crash
<1> QED
  BY <1>2, <1>3, RestFacts, MoveInv DEF Go

-----------------------------------------------------------------------------
(* The specification                                                         *)

LEMMA StepOfCall == ASSUME IInv, NEW p \in Procs, Step(p) PROVE IInv' /\ ~Late
BY ReserveInv, EnqueueUniqueInv, ReleaseSlotInv, EnqueueFailedInv, PrepareInv, StartInv,
   ReplyInv, CoreInv, CountRunningInv, SyncProjectCountInv, AdvanceInv, ListInv,
   DeleteReloadedInv, SwapRunningInv, SwapPendingInv DEF Step

LEMMA NextInv == IInv /\ [Next]_vars => IInv' /\ ~Late
<1> SUFFICES ASSUME IInv, [Next]_vars PROVE IInv' /\ ~Late
    OBVIOUS
<1>1. CASE UNCHANGED vars
  <2>1. task' \in [Tasks -> TaskRow] /\ OthersMove /\ UNCHANGED proc
    BY <1>1, Unchanged DEF vars, OthersMove, IInv, TypeOK
  <2>2. \A t \in Tasks : RowOK(task'[t]) /\ Refused(t) /\ task'[t].exec = task[t].exec
    BY <1>1, RowFacts DEF vars, Refused
  <2> QED
    BY <2>1, <2>2, OutsideInv
<1>2. CASE Pause \/ ResumePlan
  BY <1>2, PauseInv, ResumePlanInv
<1>3. CASE \E t \in Tasks : End(t)
  BY <1>3, EndInv
<1>4. CASE \E p \in Procs : Step(p) \/ Check(p) \/ Crash(p)
  BY <1>4, StepOfCall, CheckInv, CrashInv
<1>5. CASE \E p \in Procs, t \in Tasks :
             \/ Create(p, t) \/ Retry(p, t) \/ Cancel(p, t) \/ BeginDelete(p, t)
             \/ Take(p, t) \/ Finalize(p, t)
  BY <1>5, CreateInv, RetryInv, CancelInv, BeginDeleteInv, TakeInv, FinalizeInv
<1> QED
  BY <1>1, <1>2, <1>3, <1>4, <1>5 DEF Next

\* The inductive invariant holds of every reachable state.
THEOREM Invariance == Spec => []IInv
<1>1. Init => IInv
  BY InitInv
<1>2. IInv /\ [Next]_vars => IInv'
  BY NextInv
<1> QED
  BY <1>1, <1>2, PTL DEF Spec

\* What the invariant says of a row, of a task that was removed, and of the lease of one
LEMMA SoundFacts == IInv => TasksAreSound
<1> SUFFICES ASSUME IInv PROVE TasksAreSound
    OBVIOUS
<1>1. TypeOK /\ \A p \in Procs : CallOK(proc[p], task)
  BY DEF IInv
<1>2. RunningHasExecution
  BY RowFacts DEF RunningHasExecution, RowOK
<1>3. ASSUME NEW t \in Tasks, task[t].deleting, task[t].status = "absent"
      PROVE  task[t].exec \in {"none", "done"} /\ Unclaimed(t)
  <2>1. task[t].exec \in {"none", "done"}
    BY <1>3, RowFacts DEF RowOK
  <2>2. ASSUME NEW p \in Procs, proc[p].for = t PROVE proc[p].who # "final"
    <3>1. CASE proc[p].who = "final"
      <4>1. Finalizes(proc[p]) /\ proc[p].pc \notin {"swapRunning", "swapPending"}
        BY <1>1, <3>1 DEF CallOK, Finalizes, Places, None
      <4>2. task[t].exec \in Stage(proc[p])
        BY <1>1, <2>2, <4>1 DEF CallOK
      <4> QED
        BY <2>1, <3>1, <4>1, <4>2 DEF Stage
    <3> QED
      BY <3>1
  <2> QED
    BY <2>1, <2>2 DEF Unclaimed, Open
<1> QED
  BY <1>1, <1>2, <1>3 DEF TasksAreSound, RemovedIsGone

\* A task that runs has an execution that is active or has ended without being applied; an
\* execution like that belongs to a running task, or to one that a user's cancel swapped
\* under it; and a task that was removed has nothing left that could act: no open
\* finalization and no finalizer (cancel, finalizeTaskFromExecution, Delete).
THEOREM TasksSound == Spec => []TasksAreSound
BY Invariance, SoundFacts, PTL

\* No start, retry or dispatch takes a task that is being deleted back to pending or
\* running, and no task of a paused plan starts (createCurrentExecution).
THEOREM LateStartsRefused == Spec => LateStartsAreRefused
<1>1. IInv /\ [Next]_vars => [DeletingOnlyEnds /\ PausedStartsNothing]_vars
  BY NextInv DEF Late
<1> QED
  BY <1>1, Invariance, PTL DEF Spec, LateStartsAreRefused
=============================================================================
