------------------------- MODULE PlanTriggersProofs -------------------------
(***************************************************************************)
(* Proofs about PlanTriggers, for any number of plans, entries, servers,    *)
(* users and faults.  Shape says what the rows and the calls in progress    *)
(* look like; BoundInv that a plan's next run is ahead of the clock by one  *)
(* period and one more for each server that has visited it, so that the     *)
(* occurrences a checker counts are among Times; OnceInv that, without      *)
(* faults, the trigger lock names whoever triggers the plan, and that an    *)
(* occurrence for which tasks were created is behind next_run_at or is the  *)
(* one the holder of the lock is about to leave behind.                     *)
(***************************************************************************)
EXTENDS PlanTriggers, TLAPS, FiniteSetTheorems

\* Where a checker and a user's request can be
Places(q) ==
  IF q \in Checkers
  THEN {"idle", "list", "loop", "lock", "reload", "entries", "create", "advance", "release"}
  ELSE {"idle", "lock", "reload", "entries", "create", "release", "resume", "edit"}

\* A call that triggers a plan goes by a row that was scheduled when it was read, and a
\* checker does not meet that plan again in its list.
CallOK(q, k, t) ==
  /\ k.pc \in Places(q)
  /\ k.pc \notin {"idle", "list", "loop"} => k.plan \in Plans
  /\ k.pc \in {"idle", "list"} => k.todo = {}
  /\ k.pc \in {"lock", "reload", "entries", "create", "advance", "release"} => k.plan \notin k.todo
  /\ k.pc \in {"entries", "create", "advance"} =>
       k.seen.next \in 0..(t + Ahead(budget.servers)) /\ k.seen.cron \in Crons
  /\ k.pc \in {"resume", "edit"} => k.cron \in Crons
  /\ q \in Checkers /\ k.pc # "idle" => q \in budget.servers

RowOK(r, waiting) ==
  /\ r.status = "active" => r.next # Never
  /\ r.status = "paused" => ~waiting
  /\ r.status = "gone" => r.next = Never

Shape ==
  /\ TypeOK
  /\ \A p \in Plans : RowOK(plan[p], backlog[p])
  /\ \A q \in Procs : CallOK(q, proc[q], now)

\* A checker that has p in its list, or is about to move its next run on
Pending(k, p) ==
  p \in k.todo \/ (k.plan = p /\ k.pc \in {"lock", "reload", "entries", "create", "advance"})

\* Every server that has visited p since it was due last may have moved it on once.
Quiet(p)  == {q \in budget.servers : ~Pending(proc[q], p)}
BoundInv  == \A p \in Plans : plan[p].next <= now + Ahead(Quiet(p))

\* No fault, and nobody sets a schedule back
Undisturbed == faults = 0 /\ budget.actions \cap {"resume", "edit"} = {}

\* Checker q creates, or has created, the tasks of the occurrence it has read.
Creates(q, p) == q \in Checkers /\ proc[q].plan = p /\ proc[q].pc \in {"create", "advance"}

Locked == \A q \in Procs, p \in Plans : Holds(q, p) => lock[p] = q

\* Nothing is created ahead of the schedule, nor at it but by the one who creates there.
Counted(p, t, e) ==
  /\ made[p][t][e] <= 1
  /\ plan[p].next # Never /\ plan[p].next < t => made[p][t][e] = 0
  /\ plan[p].next = t /\ (\A q \in Procs : ~Creates(q, p)) => made[p][t][e] = 0

\* The occurrence that a checker has read is still the next one, unless there is none, and
\* the tasks that it is still to create do not exist.
Fresh(k, e) == k.pc = "entries" \/ (k.pc = "create" /\ e \in k.left)
SeenOK(k) ==
  k.pc \in {"entries", "create", "advance"} =>
    /\ plan[k.plan].next \in {Never, k.seen.next}
    /\ \A e \in Entries : Fresh(k, e) => made[k.plan][k.seen.next][e] = 0

Once ==
  /\ \A q \in Procs : proc[q].pc \notin {"resume", "edit"}
  /\ Locked
  /\ \A p \in Plans, t \in Times, e \in Entries : Counted(p, t, e)
  /\ \A q \in Checkers : SeenOK(proc[q])

OnceInv == Undisturbed => Once

IInv == Shape /\ BoundInv /\ OnceInv

-----------------------------------------------------------------------------
(* Schedules and cardinalities                                               *)

\* The next occurrence lies ahead, by at most the longest period.
LEMMA NextFacts ==
  ASSUME NEW c \in Crons, NEW t \in Nat
  PROVE  Next_(c, t) \in Nat /\ t < Next_(c, t) /\ Next_(c, t) <= t + Longest
<1> DEFINE d == t \div c
<1>1. c \in Nat \ {0} /\ Longest \in Nat /\ c <= Longest
  BY PlansAssumption DEF Longest
<1>2. d \in Nat /\ c * d <= t /\ t < c * d + c
  <2>1. d \in Int /\ t % c \in 0..(c - 1) /\ t = c * d + (t % c)
    BY <1>1
  <2>2. c * d \in Int
    BY <1>1, <2>1
  <2>3. c * d <= t /\ t < c * d + c
    BY <1>1, <2>1, <2>2
  <2>4. d >= 0
    BY <1>1, <2>1
  <2> QED
    BY <2>1, <2>3, <2>4
<1>3. Next_(c, t) = c * (d + 1)
  BY DEF Next_
<1> HIDE DEF d
<1>4. c * (d + 1) = c * d + c /\ c * d \in Nat
  BY <1>1, <1>2
<1> QED
  BY <1>1, <1>2, <1>3, <1>4

\* No expression has a longer period.
LEMMA LongestFacts ==
  ASSUME NEW c \in Crons PROVE Longest \in Nat \ {0} /\ c \in Nat /\ c <= Longest
BY PlansAssumption DEF Longest

\* More servers, more periods
LEMMA Mono ==
  ASSUME NEW a \in Nat, NEW b \in Nat, NEW m \in Nat, a <= b
  PROVE  (1 + a) * m <= (1 + b) * m
OBVIOUS

\* Ahead grows with the servers, by one period for each.
LEMMA AheadFacts ==
  ASSUME NEW S \in SUBSET Checkers
  PROVE  /\ Longest \in Nat /\ Ahead(S) \in Nat /\ Longest <= Ahead(S)
         /\ \A T \in SUBSET S : Ahead(T) <= Ahead(S)
         /\ \A q \in Checkers \ S : Ahead(S \cup {q}) = Ahead(S) + Longest
<1>1. Longest \in Nat
  BY PlansAssumption DEF Longest
<1>2. \A T \in SUBSET Checkers : IsFiniteSet(T) /\ Cardinality(T) \in Nat
  BY PlansAssumption, FS_Subset, FS_CardinalityType
<1>3. Ahead(S) \in Nat /\ Longest <= Ahead(S)
  BY <1>1, <1>2 DEF Ahead
<1>4. ASSUME NEW T \in SUBSET S PROVE Ahead(T) <= Ahead(S)
  <2>1. Cardinality(T) <= Cardinality(S) /\ Cardinality(T) \in Nat /\ Cardinality(S) \in Nat
    BY <1>2, FS_Subset
  <2> QED
    BY <1>1, <2>1, Mono DEF Ahead
<1>5. ASSUME NEW q \in Checkers \ S PROVE Ahead(S \cup {q}) = Ahead(S) + Longest
  <2>1. Cardinality(S \cup {q}) = Cardinality(S) + 1
    BY <1>2, FS_AddElement
  <2> DEFINE n == Cardinality(S)
  <2>2. n \in Nat
    BY <1>2
  <2> HIDE DEF n
  <2>3. (1 + (n + 1)) * Longest = (1 + n) * Longest + Longest
    BY <1>1, <2>2
  <2> QED
    BY <2>1, <2>3 DEF Ahead, n
<1> QED
  BY <1>1, <1>3, <1>4, <1>5

-----------------------------------------------------------------------------
(* Steps of one call, and steps of none                                      *)

RowsMove ==
  /\ plan' \in [Plans -> PlanRow(Crons)] /\ backlog' \in [Plans -> BOOLEAN]
  /\ \A p \in Plans : RowOK(plan'[p], backlog'[p])

OthersMove ==
  /\ made' \in [Plans -> [Times -> [Entries -> Nat]]] /\ checkLock' \in BOOLEAN
  /\ lock' \in [Plans -> Procs \cup {None}]
  /\ acts' \in 0..budget.acts /\ faults' \in 0..budget.faults /\ UNCHANGED budget

\* What the step of a call does to the schedule of p: it sets it anew, leaves it, or moves
\* it on and has then visited p.
Schedules(q, k, p) ==
  \/ plan'[p].next <= now + Longest
  \/ /\ plan'[p].next = plan[p].next
     /\ q \in budget.servers /\ Pending(k, p) => Pending(proc[q], p)
  \/ /\ plan'[p].next <= plan[p].next + Longest
     /\ q \in budget.servers /\ Pending(proc[q], p) /\ ~Pending(k, p)

\* What a behaviour's budget bounds
LEMMA ServersFacts == Shape => budget.servers \subseteq Checkers /\ budget.time \in 0..MaxTime
                               /\ budget.acts \in Nat /\ budget.faults \in Nat
                               /\ budget.crons \subseteq Crons
BY PlansAssumption DEF Shape, TypeOK

\* The bound implies the one that the type invariant states.
LEMMA WithinFromBound ==
  ASSUME Shape, UNCHANGED budget, BoundInv', plan' \in [Plans -> PlanRow(Crons)],
         now' \in Nat
  PROVE  WithinTimes'
<1> SUFFICES ASSUME NEW p \in Plans PROVE plan'[p].next <= now' + Ahead(budget.servers)
    BY DEF WithinTimes
<1> DEFINE Q == Quiet(p)'
<1>1. Q \subseteq budget.servers /\ plan'[p].next <= now' + Ahead(Q)
  BY DEF BoundInv, Quiet
<1>2. Ahead(Q) <= Ahead(budget.servers) /\ Ahead(Q) \in Nat /\ Ahead(budget.servers) \in Nat
  BY <1>1, ServersFacts, AheadFacts
<1>3. plan'[p].next \in Nat \cup {Never}
  BY DEF PlanRow
<1> QED
  BY <1>1, <1>2, <1>3 DEF Never

\* A step of call q that leaves it in state k
LEMMA CallStep ==
  ASSUME Shape, BoundInv, NEW q \in Procs, NEW k \in CallState, CallOK(q, k, now),
         proc' = [proc EXCEPT ![q] = k], UNCHANGED now, RowsMove, OthersMove,
         \A p \in Plans : Schedules(q, k, p)
  PROVE  Shape' /\ BoundInv'
<1>1. /\ plan \in [Plans -> PlanRow(Crons)] /\ proc \in [Procs -> CallState]
      /\ now \in Nat /\ now \in 0..MaxTime /\ budget \in Budgets
      /\ \A r \in Procs : CallOK(r, proc[r], now)
  BY PlansAssumption DEF Shape, TypeOK
<1>2. /\ proc' \in [Procs -> CallState] /\ proc'[q] = k
      /\ \A r \in Procs \ {q} : proc'[r] = proc[r]
  BY <1>1
<1>3. budget.servers \subseteq Checkers /\ UNCHANGED budget /\ budget.servers \subseteq Procs
  BY ServersFacts DEF OthersMove, Procs
<1>4. ASSUME NEW p \in Plans PROVE plan'[p].next <= now + Ahead(Quiet(p)')
  <2> DEFINE Q == Quiet(p)
             R == Quiet(p)'
  <2>1. /\ Q \subseteq Checkers /\ R \subseteq Checkers
        /\ R = {r \in budget.servers : ~Pending(proc'[r], p)}
        /\ Q = {r \in budget.servers : ~Pending(proc[r], p)}
    BY <1>3 DEF Quiet, Pending
  <2>2. plan[p].next \in Nat \cup {Never} /\ plan'[p].next \in Nat \cup {Never}
    BY <1>1 DEF PlanRow, RowsMove
  <2>3. /\ Ahead(Q) \in Nat /\ Ahead(R) \in Nat /\ Longest \in Nat /\ Longest <= Ahead(R)
        /\ plan[p].next <= now + Ahead(Q)
    BY <2>1, AheadFacts DEF BoundInv
  <2>4. \A r \in budget.servers \ {q} : r \in R <=> r \in Q
    BY <1>2, <1>3, <2>1
  <2>5. q \in budget.servers => (q \in R <=> ~Pending(k, p)) /\ (q \in Q <=> ~Pending(proc[q], p))
    BY <1>2, <2>1
  <2> HIDE DEF Q, R
  <2>6. CASE plan'[p].next <= now + Longest
    BY <1>1, <2>2, <2>3, <2>6 DEF Never, R
  <2>7. CASE /\ plan'[p].next = plan[p].next
             /\ q \in budget.servers /\ Pending(k, p) => Pending(proc[q], p)
    <3>1. Q \subseteq R
      BY <2>1, <2>4, <2>5, <2>7 DEF Q, R
    <3>2. Ahead(Q) <= Ahead(R)
      BY <2>1, <3>1, AheadFacts
    <3> QED
      BY <1>1, <2>2, <2>3, <2>7, <3>2 DEF Never, R
  <2>8. CASE /\ plan'[p].next <= plan[p].next + Longest
             /\ q \in budget.servers /\ Pending(proc[q], p) /\ ~Pending(k, p)
    <3>1. R = Q \cup {q} /\ q \in Checkers \ Q
      BY <1>3, <2>1, <2>4, <2>5, <2>8 DEF Q, R
    <3>2. Ahead(R) = Ahead(Q) + Longest
      BY <2>1, <3>1, AheadFacts
    <3> QED
      BY <1>1, <2>2, <2>3, <2>8, <3>2 DEF Never, R
  <2> QED
    BY <2>6, <2>7, <2>8 DEF Schedules
<1>5. BoundInv'
  BY <1>4 DEF BoundInv
<1>6. WithinTimes'
  BY <1>1, <1>3, <1>5, WithinFromBound DEF RowsMove
<1>7. TypeOK'
  BY <1>1, <1>2, <1>3, <1>6 DEF TypeOK, RowsMove, OthersMove
<1>8. (\A r \in Procs : CallOK(r, proc[r], now))'
  BY <1>1, <1>2, <1>3 DEF CallOK
<1>9. (\A p \in Plans : RowOK(plan[p], backlog[p]))'
  BY DEF RowsMove
<1> QED
  BY <1>5, <1>7, <1>8, <1>9 DEF Shape

\* A step of none of the calls, which moves no schedule on
LEMMA OutsideStep ==
  ASSUME Shape, BoundInv, UNCHANGED proc, RowsMove, OthersMove,
         now' \in 0..MaxTime, now <= now',
         \A p \in Plans : plan'[p].next <= plan[p].next
  PROVE  Shape' /\ BoundInv'
<1>1. /\ plan \in [Plans -> PlanRow(Crons)] /\ proc \in [Procs -> CallState]
      /\ now \in Nat /\ now' \in Nat /\ budget \in Budgets
      /\ \A r \in Procs : CallOK(r, proc[r], now)
  BY PlansAssumption DEF Shape, TypeOK
<1>2. budget.servers \subseteq Checkers /\ UNCHANGED budget
  BY ServersFacts DEF OthersMove
<1>3. ASSUME NEW p \in Plans PROVE plan'[p].next <= now' + Ahead(Quiet(p)')
  <2> DEFINE Q == Quiet(p)
  <2>1. Quiet(p)' = Q /\ Q \subseteq Checkers
    BY <1>2 DEF Quiet, Pending
  <2>2. plan[p].next \in Nat \cup {Never} /\ plan'[p].next \in Nat \cup {Never}
    BY <1>1 DEF PlanRow, RowsMove
  <2>3. Ahead(Q) \in Nat /\ plan[p].next <= now + Ahead(Q)
    BY <2>1, AheadFacts DEF BoundInv
  <2> HIDE DEF Q
  <2>4. plan'[p].next <= now' + Ahead(Q)
    BY <1>1, <2>2, <2>3 DEF Never
  <2> QED
    BY <2>1, <2>4
<1>4. BoundInv'
  BY <1>3 DEF BoundInv
<1>5. WithinTimes'
  BY <1>1, <1>2, <1>4, WithinFromBound DEF RowsMove
<1>6. TypeOK'
  BY <1>1, <1>2, <1>5 DEF TypeOK, RowsMove, OthersMove
<1>7. (\A r \in Procs : CallOK(r, proc[r], now))'
  <2> SUFFICES ASSUME NEW r \in Procs PROVE CallOK(r, proc[r], now)'
      OBVIOUS
  <2>1. Ahead(budget.servers) \in Nat
    BY <1>2, AheadFacts
  <2>2. \A x : x \in 0..(now + Ahead(budget.servers)) => x \in 0..(now' + Ahead(budget.servers))
    BY <1>1, <2>1
  <2> QED
    BY <1>1, <1>2, <2>2 DEF CallOK
<1>8. (\A p \in Plans : RowOK(plan[p], backlog[p]))'
  BY DEF RowsMove
<1> QED
  BY <1>4, <1>6, <1>7, <1>8 DEF Shape

\* What a step that leaves something alone, or is counted, leaves true
LEMMA Unchanged ==
  ASSUME Shape
  PROVE  /\ UNCHANGED <<plan, backlog>> => RowsMove
         /\ UNCHANGED made => made' \in [Plans -> [Times -> [Entries -> Nat]]]
         /\ UNCHANGED checkLock => checkLock' \in BOOLEAN
         /\ UNCHANGED lock => lock' \in [Plans -> Procs \cup {None}]
         /\ UNCHANGED acts => acts' \in 0..budget.acts
         /\ UNCHANGED faults => faults' \in 0..budget.faults
         /\ \A a : Act(a) => acts' \in 0..budget.acts
         /\ Fault => faults' \in 0..budget.faults
         /\ UNCHANGED now => now' \in 0..MaxTime /\ now <= now'
         /\ UNCHANGED plan => \A p \in Plans : plan'[p].next <= plan[p].next
<1>1. TypeOK /\ \A p \in Plans : RowOK(plan[p], backlog[p])
  BY DEF Shape
<1>2. budget.acts \in Nat /\ budget.faults \in Nat /\ MaxTime \in Nat
  BY ServersFacts, PlansAssumption
<1>3. /\ \A a : Act(a) => acts' \in 0..budget.acts
      /\ Fault => faults' \in 0..budget.faults
  BY <1>1, <1>2 DEF TypeOK, Act, Fault
<1>4. UNCHANGED now => now' \in 0..MaxTime /\ now <= now'
  BY <1>1, <1>2 DEF TypeOK
<1>5. UNCHANGED plan => \A p \in Plans : plan'[p].next <= plan[p].next
  BY <1>1 DEF TypeOK, PlanRow, Never
<1> QED
  BY <1>1, <1>3, <1>4, <1>5 DEF TypeOK, RowsMove
\* A step that writes one row
LEMMA OneRow ==
  ASSUME Shape, NEW p \in Plans, NEW r \in PlanRow(Crons), plan' = [plan EXCEPT ![p] = r],
         backlog' \in [Plans -> BOOLEAN], RowOK(r, backlog'[p]),
         \A u \in Plans \ {p} : backlog'[u] = backlog[u]
  PROVE  RowsMove /\ plan'[p] = r /\ \A u \in Plans \ {p} : plan'[u] = plan[u]
<1>1. plan \in [Plans -> PlanRow(Crons)] /\ \A u \in Plans : RowOK(plan[u], backlog[u])
  BY DEF Shape, TypeOK
<1>2. /\ plan' \in [Plans -> PlanRow(Crons)] /\ plan'[p] = r
      /\ \A u \in Plans \ {p} : plan'[u] = plan[u]
  BY <1>1
<1>3. ASSUME NEW u \in Plans PROVE RowOK(plan'[u], backlog'[u])
  <2>1. CASE u = p
    BY <1>2, <2>1
  <2>2. CASE u # p
    BY <1>1, <1>2, <2>2
  <2> QED
    BY <2>1, <2>2
<1> QED
  BY <1>2, <1>3 DEF RowsMove

\* A plan's row and its schedule, in one place
LEMMA RowFacts ==
  ASSUME Shape, NEW p \in Plans
  PROVE  /\ plan[p] \in PlanRow(Crons) /\ RowOK(plan[p], backlog[p])
         /\ backlog[p] \in BOOLEAN /\ backlog \in [Plans -> BOOLEAN]
         /\ plan[p].next \in Nat \cup {Never} /\ plan[p].next <= now + Ahead(budget.servers)
BY DEF Shape, TypeOK, WithinTimes, PlanRow

\* The clock, the keys that expire, and what users and workers do in one step
LEMMA OutsideShape ==
  ASSUME Shape, BoundInv,
         \/ Tick \/ ExpireCheck
         \/ \E p \in Plans : \/ ExpireTrigger(p) \/ Pause(p) \/ Delete(p) \/ BacklogTaken(p)
                             \/ Stall(p)
  PROVE  Shape' /\ BoundInv'
<1>1. CASE Tick
  <2>1. now' \in 0..MaxTime /\ now <= now'
    BY <1>1, ServersFacts, PlansAssumption DEF Tick, Shape, TypeOK
  <2>2. OthersMove /\ RowsMove /\ UNCHANGED <<plan, proc>>
    BY <1>1, Unchanged DEF Tick, OthersMove
  <2> QED
    BY <2>1, <2>2, Unchanged, OutsideStep
<1>2. CASE ExpireCheck
  <2>1. OthersMove /\ RowsMove /\ UNCHANGED <<plan, proc, now>>
    BY <1>2, Unchanged DEF ExpireCheck, OthersMove
  <2> QED
    BY <2>1, Unchanged, OutsideStep
<1>3. ASSUME NEW p \in Plans, ExpireTrigger(p) \/ Stall(p) PROVE Shape' /\ BoundInv'
  <2>1. lock' = [lock EXCEPT ![p] = None] /\ UNCHANGED <<plan, backlog, proc, now, made, checkLock, budget, acts>>
    BY <1>3 DEF ExpireTrigger, Stall
  <2>2. lock' \in [Plans -> Procs \cup {None}]
    BY <2>1 DEF Shape, TypeOK
  <2>3. faults' \in 0..budget.faults
    BY <1>3, Unchanged DEF ExpireTrigger, Stall
  <2>4. OthersMove /\ RowsMove
    BY <2>1, <2>2, <2>3, Unchanged DEF OthersMove
  <2> QED
    BY <2>1, <2>4, Unchanged, OutsideStep
<1>4. ASSUME NEW p \in Plans, NEW r \in PlanRow(Crons), plan' = [plan EXCEPT ![p] = r],
             backlog' \in [Plans -> BOOLEAN], RowOK(r, backlog'[p]), r.next = Never,
             \A u \in Plans \ {p} : backlog'[u] = backlog[u],
             OthersMove, UNCHANGED <<proc, now>>
      PROVE  Shape' /\ BoundInv'
  <2>1. RowsMove /\ plan'[p] = r /\ \A u \in Plans \ {p} : plan'[u] = plan[u]
    BY <1>4, OneRow
  <2>2. \A u \in Plans : plan'[u].next <= plan[u].next
    BY <1>4, <2>1, RowFacts DEF Never
  <2> QED
    BY <1>4, <2>1, <2>2, Unchanged, OutsideStep
<1>5. ASSUME NEW p \in Plans, Pause(p) PROVE Shape' /\ BoundInv'
  <2> DEFINE r == [plan[p] EXCEPT !.status = "paused", !.next = Never]
  <2>1. plan[p] \in PlanRow(Crons) /\ backlog \in [Plans -> BOOLEAN] /\ plan \in [Plans -> PlanRow(Crons)]
    BY RowFacts DEF Shape, TypeOK
  <2>2. r \in PlanRow(Crons) /\ r.status = "paused" /\ r.next = Never
    BY <2>1 DEF PlanRow
  <2>3. plan' = [plan EXCEPT ![p] = r] /\ backlog' = [backlog EXCEPT ![p] = FALSE]
    BY <1>5, <2>1 DEF Pause
  <2> HIDE DEF r
  <2>4. backlog' \in [Plans -> BOOLEAN] /\ ~backlog'[p] /\ \A u \in Plans \ {p} : backlog'[u] = backlog[u]
    BY <2>1, <2>3
  <2>5. RowOK(r, backlog'[p])
    BY <2>2, <2>4 DEF RowOK
  <2>6. OthersMove /\ UNCHANGED <<proc, now>>
    BY <1>5, Unchanged DEF Pause, OthersMove
  <2> QED
    BY <1>4, <2>2, <2>3, <2>4, <2>5, <2>6
<1>6. ASSUME NEW p \in Plans, Delete(p) PROVE Shape' /\ BoundInv'
  <2> DEFINE r == [plan[p] EXCEPT !.status = "gone", !.next = Never, !.entries = {}]
  <2>1. plan[p] \in PlanRow(Crons) /\ backlog \in [Plans -> BOOLEAN] /\ plan \in [Plans -> PlanRow(Crons)]
    BY RowFacts DEF Shape, TypeOK
  <2>2. r \in PlanRow(Crons) /\ r.status = "gone" /\ r.next = Never
    BY <2>1 DEF PlanRow
  <2>3. plan' = [plan EXCEPT ![p] = r] /\ UNCHANGED backlog
    BY <1>6, <2>1 DEF Delete
  <2> HIDE DEF r
  <2>4. RowOK(r, backlog'[p])
    BY <2>2 DEF RowOK
  <2>5. OthersMove /\ UNCHANGED <<proc, now>>
    BY <1>6, Unchanged DEF Delete, OthersMove
  <2> QED
    BY <1>4, <2>1, <2>2, <2>3, <2>4, <2>5
<1>7. ASSUME NEW p \in Plans, BacklogTaken(p) PROVE Shape' /\ BoundInv'
  <2>1. backlog' = [backlog EXCEPT ![p] = FALSE] /\ UNCHANGED <<plan, proc, now>>
    BY <1>7 DEF BacklogTaken
  <2>2. backlog' \in [Plans -> BOOLEAN] /\ \A u \in Plans : backlog'[u] => backlog[u]
    BY <2>1 DEF Shape, TypeOK
  <2>3. RowsMove
    BY <2>1, <2>2, RowFacts DEF RowsMove, RowOK, Shape, TypeOK
  <2>4. OthersMove
    BY <1>7, Unchanged DEF BacklogTaken, OthersMove
  <2> QED
    BY <2>1, <2>3, <2>4, Unchanged, OutsideStep
<1> QED
  BY <1>1, <1>2, <1>3, <1>5, <1>6, <1>7
-----------------------------------------------------------------------------
(* The steps of a call                                                       *)

\* A call's state, in one place
LEMMA CallFacts ==
  ASSUME Shape, NEW q \in Procs
  PROVE  /\ proc[q] \in CallState /\ CallOK(q, proc[q], now) /\ proc \in [Procs -> CallState]
         /\ now \in Nat /\ Ahead(budget.servers) \in Nat
BY ServersFacts, AheadFacts, PlansAssumption DEF Shape, TypeOK

\* A call that has ended
LEMMA IdleFacts ==
  /\ Idle \in CallState /\ Idle.pc = "idle" /\ Idle.todo = {} /\ \A q, t : CallOK(q, Idle, t)
  /\ \A p \in Plans : ~Pending(Idle, p)
<1>1. /\ Idle \in CallState /\ Idle.pc = "idle" /\ Idle.todo = {} /\ Idle.plan = None
      /\ Idle.seen = NoRow /\ Idle.cron = 0 /\ Idle.left = {}
  BY DEF Idle, CallState, NoRow, PlanRow, None, Never
<1> HIDE DEF Idle
<1> QED
  BY <1>1 DEF CallOK, Places, Pending

\* A step of a call that leaves the plans alone and gives it no work
LEMMA MoveInv ==
  ASSUME Shape, BoundInv, NEW q \in Procs, NEW k \in CallState, CallOK(q, k, now),
         proc' = [proc EXCEPT ![q] = k], UNCHANGED <<now, plan>>, RowsMove, OthersMove,
         \A p \in Plans : q \in budget.servers /\ Pending(k, p) => Pending(proc[q], p)
  PROVE  Shape' /\ BoundInv'
<1>1. \A p \in Plans : Schedules(q, k, p)
  BY DEF Schedules
<1> QED
  BY <1>1, CallStep

\* After: the list of a checker is kept.
LEMMA AfterFacts ==
  ASSUME Shape, NEW q \in Procs, proc[q].pc \in {"lock", "release"}
  PROVE  /\ After(q) \in CallState /\ CallOK(q, After(q), now)
         /\ \A p \in Plans : Pending(After(q), p) => Pending(proc[q], p)
         /\ After(q).pc \in {"idle", "loop"}
<1> DEFINE k == [Idle EXCEPT !.pc = "loop", !.todo = proc[q].todo]
<1>1. proc[q] \in CallState /\ CallOK(q, proc[q], now)
  BY CallFacts
<1>2. proc[q].todo \in SUBSET Plans
  BY <1>1 DEF CallState
<1>3. k \in CallState /\ k.pc = "loop" /\ k.todo = proc[q].todo
  BY <1>2, IdleFacts DEF CallState
<1> HIDE DEF k
<1>4. CASE q \in Checkers
  <2>1. After(q) = k
    BY <1>4 DEF After, k
  <2>2. CallOK(q, k, now)
    BY <1>1, <1>3, <1>4 DEF CallOK, Places
  <2> QED
    BY <1>3, <2>1, <2>2 DEF Pending
<1>5. CASE q \notin Checkers
  BY <1>5, IdleFacts DEF After
<1> QED
  BY <1>4, <1>5

\* A check, up to the lock of a plan
LEMMA CheckerShape ==
  ASSUME Shape, BoundInv, NEW q \in Procs,
         TryAcquire(q) \/ ListDue(q) \/ TakePlan(q) \/ EndCheck(q)
  PROVE  Shape' /\ BoundInv'
<1>1. proc[q] \in CallState /\ CallOK(q, proc[q], now) /\ proc \in [Procs -> CallState]
  BY CallFacts
<1>2. budget.servers \subseteq Checkers
  BY ServersFacts
<1>3. CASE TryAcquire(q)
  <2> DEFINE k == [proc[q] EXCEPT !.pc = "list"]
  <2>1. k \in CallState /\ k.pc = "list" /\ k.todo = proc[q].todo /\ k.plan = proc[q].plan
    BY <1>1 DEF CallState
  <2>2. proc' = [proc EXCEPT ![q] = k] /\ q \in budget.servers /\ proc[q].pc = "idle"
    BY <1>3 DEF TryAcquire, Goto
  <2> HIDE DEF k
  <2>3. CallOK(q, k, now)
    BY <1>1, <1>2, <2>1, <2>2 DEF CallOK, Places
  <2>4. \A p \in Plans : Pending(k, p) => Pending(proc[q], p)
    BY <2>1 DEF Pending
  <2>5. OthersMove /\ RowsMove /\ UNCHANGED <<now, plan>>
    BY <1>3, Unchanged DEF TryAcquire, OthersMove
  <2> QED
    BY <2>1, <2>2, <2>3, <2>4, <2>5, MoveInv
<1>4. CASE ListDue(q)
  <2> DEFINE due == {p \in Plans : Due(p)}
             k == [proc[q] EXCEPT !.pc = "loop", !.todo = due]
  <2>1. k \in CallState /\ k.pc = "loop" /\ k.todo = due
    BY <1>1 DEF CallState
  <2>2. proc' = [proc EXCEPT ![q] = k] /\ proc[q].pc = "list"
    BY <1>1, <1>4 DEF ListDue
  <2>3. OthersMove /\ RowsMove /\ UNCHANGED <<now, plan>>
    BY <1>4, Unchanged DEF ListDue, OthersMove
  <2> HIDE DEF k
  <2>4. CallOK(q, k, now)
    BY <1>1, <2>1, <2>2 DEF CallOK, Places
  <2>5. ASSUME NEW p \in Plans PROVE Schedules(q, k, p)
    <3>1. CASE p \in due
      <4>1. plan'[p].next = plan[p].next /\ plan[p].next <= now
        BY <2>3, <3>1 DEF Due
      <4>2. plan[p].next \in Nat \cup {Never} /\ now \in Nat /\ Longest \in Nat
        BY RowFacts, CallFacts, <1>2, AheadFacts
      <4> QED
        BY <4>1, <4>2 DEF Schedules, Never
    <3>2. CASE p \notin due
      BY <2>1, <2>3, <3>2 DEF Schedules, Pending
    <3> QED
      BY <3>1, <3>2
  <2> QED
    BY <2>1, <2>2, <2>3, <2>4, <2>5, CallStep
<1>5. CASE TakePlan(q)
  <2>1. PICK p \in proc[q].todo :
          proc' = [proc EXCEPT ![q].pc = "lock", ![q].plan = p, ![q].todo = @ \ {p}]
    BY <1>5 DEF TakePlan
  <2> DEFINE k == [proc[q] EXCEPT !.pc = "lock", !.plan = p, !.todo = @ \ {p}]
  <2>2. p \in Plans
    BY <1>1 DEF CallState
  <2>3. k \in CallState /\ k.pc = "lock" /\ k.plan = p /\ k.todo = proc[q].todo \ {p}
    BY <1>1, <2>2 DEF CallState
  <2>4. proc' = [proc EXCEPT ![q] = k] /\ proc[q].pc = "loop"
    BY <1>1, <1>5, <2>1 DEF TakePlan
  <2> HIDE DEF k
  <2>5. CallOK(q, k, now)
    BY <1>1, <2>2, <2>3, <2>4 DEF CallOK, Places
  <2>6. \A u \in Plans : Pending(k, u) => Pending(proc[q], u)
    BY <2>3 DEF Pending
  <2>7. OthersMove /\ RowsMove /\ UNCHANGED <<now, plan>>
    BY <1>5, Unchanged DEF TakePlan, OthersMove
  <2> QED
    BY <2>3, <2>4, <2>5, <2>6, <2>7, MoveInv
<1>6. CASE EndCheck(q)
  <2>1. proc' = [proc EXCEPT ![q] = Idle] /\ UNCHANGED <<now, plan>>
    BY <1>6 DEF EndCheck
  <2>2. OthersMove /\ RowsMove
    BY <1>6, Unchanged DEF EndCheck, OthersMove
  <2> QED
    BY <2>1, <2>2, IdleFacts, MoveInv
<1> QED
  BY <1>3, <1>4, <1>5, <1>6
\* A call on p goes on without having visited it, or is done with it
LEMMA GotoFacts ==
  ASSUME Shape, NEW q \in Procs, proc[q].pc \notin {"idle", "list", "loop"},
         NEW pc \in {"reload", "entries", "create", "advance", "release"} \cap Places(q),
         pc # "release" => proc[q].pc \in {"lock", "reload", "entries", "create", "advance"},
         proc[q].pc \notin {"resume", "edit"},
         pc \in {"entries", "create", "advance"} => proc[q].pc \in {"entries", "create", "advance"}
  PROVE  LET k == [proc[q] EXCEPT !.pc = pc] IN
         /\ k \in CallState /\ CallOK(q, k, now) /\ \A p : Pending(k, p) => Pending(proc[q], p)
<1> DEFINE k == [proc[q] EXCEPT !.pc = pc]
<1>1. proc[q] \in CallState /\ CallOK(q, proc[q], now)
  BY CallFacts
<1>2. /\ k \in CallState /\ k.pc = pc /\ k.plan = proc[q].plan /\ k.todo = proc[q].todo
      /\ k.seen = proc[q].seen
  BY <1>1 DEF CallState
<1> HIDE DEF k
<1>3. proc[q].pc \in {"lock", "reload", "entries", "create", "advance", "release"}
  BY <1>1 DEF CallState
<1>4. CallOK(q, k, now)
  BY <1>1, <1>2, <1>3 DEF CallOK
<1>5. \A p : Pending(k, p) => Pending(proc[q], p)
  BY <1>2 DEF Pending
<1> QED
  BY <1>2, <1>4, <1>5 DEF k

\* A trigger under the lock, except the writes
LEMMA TriggerShape ==
  ASSUME Shape, BoundInv, NEW q \in Procs,
         \/ AcquirePlanTriggerLock(q) \/ Reload(q) \/ ListEntries(q) \/ EntriesDone(q)
         \/ Release(q) \/ AdvanceFails(q) \/ Crash(q)
  PROVE  Shape' /\ BoundInv'
<1> DEFINE p == proc[q].plan
<1>1. proc[q] \in CallState /\ CallOK(q, proc[q], now) /\ proc \in [Procs -> CallState]
  BY CallFacts
<1>2. CASE AcquirePlanTriggerLock(q)
  <2>1. p \in Plans /\ proc[q].pc = "lock"
    BY <1>1, <1>2 DEF AcquirePlanTriggerLock, CallOK
  <2>2. lock' \in [Plans -> Procs \cup {None}]
    BY <1>2, <2>1 DEF AcquirePlanTriggerLock, Shape, TypeOK
  <2>3. OthersMove /\ RowsMove /\ UNCHANGED <<now, plan>>
    BY <1>2, <2>2, Unchanged DEF AcquirePlanTriggerLock, OthersMove
  <2>4. CASE Goto(q, "reload")
    <3> DEFINE k == [proc[q] EXCEPT !.pc = "reload"]
    <3>1. /\ k \in CallState /\ CallOK(q, k, now)
          /\ \A u : Pending(k, u) => Pending(proc[q], u)
      BY <2>1, GotoFacts DEF Places
    <3>2. proc' = [proc EXCEPT ![q] = k]
      BY <2>4 DEF Goto
    <3> HIDE DEF k
    <3> QED
      BY <2>3, <3>1, <3>2, MoveInv
  <2>5. CASE proc' = [proc EXCEPT ![q] = After(q)]
    BY <2>1, <2>3, <2>5, AfterFacts, MoveInv
  <2> QED
    BY <1>2, <2>4, <2>5 DEF AcquirePlanTriggerLock
<1>3. CASE Reload(q)
  <2> DEFINE pc == IF plan[p].status = "active" THEN "entries" ELSE "release"
             k == [proc[q] EXCEPT !.seen = plan[p], !.pc = pc]
  <2>1. p \in Plans /\ proc[q].pc = "reload"
    BY <1>1, <1>3 DEF Reload, CallOK
  <2>2. /\ plan[p] \in PlanRow(Crons) /\ RowOK(plan[p], backlog[p])
        /\ plan[p].next \in Nat \cup {Never} /\ plan[p].next <= now + Ahead(budget.servers)
    BY <2>1, RowFacts
  <2>3. plan[p] \in PlanRow(Crons \cup {0}) /\ plan[p].cron \in Crons
    BY <2>2 DEF PlanRow
  <2>4. /\ k \in CallState /\ k.pc = pc /\ k.plan = p /\ k.todo = proc[q].todo
        /\ k.seen = plan[p]
    BY <1>1, <2>3 DEF CallState
  <2>5. proc' = [proc EXCEPT ![q] = k]
    BY <1>1, <1>3 DEF Reload
  <2> HIDE DEF k
  <2>6. pc = "entries" => plan[p].next \in 0..(now + Ahead(budget.servers))
    BY <2>2, CallFacts DEF RowOK, Never
  <2>7. pc \in {"entries", "release"}
    OBVIOUS
  <2> HIDE DEF pc
  <2>8. CallOK(q, k, now)
    BY <1>1, <2>1, <2>3, <2>4, <2>6, <2>7 DEF CallOK, Places
  <2>9. \A u \in Plans : Pending(k, u) => Pending(proc[q], u)
    BY <2>1, <2>4 DEF Pending
  <2>10. OthersMove /\ RowsMove /\ UNCHANGED <<now, plan>>
    BY <1>3, Unchanged DEF Reload, OthersMove
  <2> QED
    BY <2>4, <2>5, <2>8, <2>9, <2>10, MoveInv
<1>4. CASE ListEntries(q)
  <2> DEFINE es == plan[p].entries
             pc == IF es = {} THEN "release" ELSE "create"
             k == [proc[q] EXCEPT !.left = es, !.pc = pc]
  <2>1. p \in Plans /\ proc[q].pc = "entries"
    BY <1>1, <1>4 DEF ListEntries, CallOK
  <2>2. es \in SUBSET Entries
    BY <2>1, RowFacts DEF PlanRow
  <2>3. /\ k \in CallState /\ k.pc = pc /\ k.plan = p /\ k.todo = proc[q].todo
        /\ k.seen = proc[q].seen
    BY <1>1, <2>2 DEF CallState
  <2>4. proc' = [proc EXCEPT ![q] = k]
    BY <1>1, <1>4 DEF ListEntries
  <2> HIDE DEF k
  <2>5. pc \in {"create", "release"}
    OBVIOUS
  <2> HIDE DEF pc
  <2>6. CallOK(q, k, now)
    BY <1>1, <2>1, <2>3, <2>5 DEF CallOK, Places
  <2>7. \A u \in Plans : Pending(k, u) => Pending(proc[q], u)
    BY <2>1, <2>3 DEF Pending
  <2>8. OthersMove /\ RowsMove /\ UNCHANGED <<now, plan>>
    BY <1>4, Unchanged DEF ListEntries, OthersMove
  <2> QED
    BY <2>3, <2>4, <2>6, <2>7, <2>8, MoveInv
<1>5. CASE EntriesDone(q) \/ AdvanceFails(q)
  <2> DEFINE pc == IF q \in Checkers /\ EntriesDone(q) THEN "advance" ELSE "release"
             k == [proc[q] EXCEPT !.pc = pc]
  <2>1. proc[q].pc \in {"create", "advance"}
    BY <1>5 DEF EntriesDone, AdvanceFails
  <2>2. pc \in {"advance", "release"} \cap Places(q)
    BY DEF Places
  <2>3. proc' = [proc EXCEPT ![q] = k]
    <3>1. CASE proc[q].pc = "create"
      BY <1>5, <3>1 DEF EntriesDone, AdvanceFails, Goto
    <3>2. CASE proc[q].pc = "advance"
      BY <1>5, <3>2 DEF EntriesDone, AdvanceFails, Goto
    <3> QED
      BY <2>1, <3>1, <3>2
  <2> HIDE DEF pc
  <2>4. /\ k \in CallState /\ CallOK(q, k, now)
        /\ \A u : Pending(k, u) => Pending(proc[q], u)
    BY <2>1, <2>2, GotoFacts
  <2> HIDE DEF k
  <2>5. OthersMove /\ RowsMove /\ UNCHANGED <<now, plan>>
    BY <1>5, Unchanged DEF EntriesDone, AdvanceFails, OthersMove
  <2> QED
    BY <2>3, <2>4, <2>5, MoveInv
<1>6. CASE Release(q)
  <2>1. p \in Plans /\ proc[q].pc = "release"
    BY <1>1, <1>6 DEF Release, CallOK
  <2>2. lock' \in [Plans -> Procs \cup {None}]
    <3> DEFINE l == IF lock[p] = q THEN None ELSE lock[p]
    <3>1. lock \in [Plans -> Procs \cup {None}]
      BY DEF Shape, TypeOK
    <3>2. lock' = [lock EXCEPT ![p] = l] /\ l \in Procs \cup {None}
      BY <1>6, <2>1, <3>1 DEF Release
    <3> HIDE DEF l
    <3> QED
      BY <3>1, <3>2
  <2>3. OthersMove /\ RowsMove /\ UNCHANGED <<now, plan>> /\ proc' = [proc EXCEPT ![q] = After(q)]
    BY <1>6, <2>2, Unchanged DEF Release, OthersMove
  <2> QED
    BY <2>1, <2>3, AfterFacts, MoveInv
<1>7. CASE Crash(q)
  <2>1. OthersMove /\ RowsMove /\ UNCHANGED <<now, plan>> /\ proc' = [proc EXCEPT ![q] = Idle]
    BY <1>7, Unchanged DEF Crash, OthersMove
  <2> QED
    BY <2>1, IdleFacts, MoveInv
<1> QED
  BY <1>2, <1>3, <1>4, <1>5, <1>6, <1>7

\* The creation counts an occurrence that is among Times.
LEMMA CreateShape ==
  ASSUME Shape, BoundInv, NEW q \in Procs, NEW e \in Entries, CreateFromPlanEntry(q, e)
  PROVE  Shape' /\ BoundInv'
<1> DEFINE p == proc[q].plan
           t == proc[q].seen.next
           k == [proc[q] EXCEPT !.left = @ \ {e}]
<1>1. proc[q] \in CallState /\ CallOK(q, proc[q], now) /\ proc[q].pc = "create"
  BY CallFacts DEF CreateFromPlanEntry
<1>2. p \in Plans /\ t \in 0..(now + Ahead(budget.servers))
  BY <1>1 DEF CallOK
<1>3. t \in Times
  <2>1. now \in 0..MaxTime /\ MaxTime \in Nat /\ budget.servers \subseteq Checkers
    BY ServersFacts, PlansAssumption DEF Shape, TypeOK
  <2>2. /\ Ahead(budget.servers) <= Ahead(Checkers) /\ Ahead(Checkers) \in Nat
        /\ Ahead(budget.servers) \in Nat
    BY <2>1, AheadFacts
  <2> HIDE DEF t
  <2> QED
    BY <1>2, <2>1, <2>2 DEF Times
<1>4. /\ k \in CallState /\ k.pc = "create" /\ k.plan = p /\ k.todo = proc[q].todo
      /\ k.seen = proc[q].seen /\ proc' = [proc EXCEPT ![q] = k]
  BY <1>1, CallFacts DEF CallState, CreateFromPlanEntry
<1> HIDE DEF k
<1>5. CallOK(q, k, now)
  BY <1>1, <1>4 DEF CallOK
<1>6. \A u \in Plans : Pending(k, u) => Pending(proc[q], u)
  BY <1>1, <1>4 DEF Pending
<1>7. made' \in [Plans -> [Times -> [Entries -> Nat]]]
  <2>1. made \in [Plans -> [Times -> [Entries -> Nat]]]
    BY DEF Shape, TypeOK
  <2>2. CASE made' = [made EXCEPT ![p][t][e] = @ + 1]
    <3> DEFINE m == [made[p] EXCEPT ![t] = [made[p][t] EXCEPT ![e] = made[p][t][e] + 1]]
    <3>1. made[p] \in [Times -> [Entries -> Nat]] /\ made[p][t] \in [Entries -> Nat]
      BY <1>2, <1>3, <2>1
    <3>2. made[p][t][e] + 1 \in Nat
      BY <3>1
    <3>3. [made[p][t] EXCEPT ![e] = made[p][t][e] + 1] \in [Entries -> Nat]
      BY <3>1, <3>2
    <3>4. m \in [Times -> [Entries -> Nat]]
      BY <1>3, <3>1, <3>3
    <3>5. made' = [made EXCEPT ![p] = m]
      BY <1>2, <1>3, <2>1, <2>2
    <3> HIDE DEF m
    <3> QED
      BY <2>1, <3>4, <3>5
  <2>3. CASE UNCHANGED made
    BY <2>1, <2>3
  <2> QED
    BY <2>2, <2>3 DEF CreateFromPlanEntry
<1>8. RowsMove
  <2>1. CASE plan[p].status # "paused" /\ backlog' = [backlog EXCEPT ![p] = TRUE] /\ UNCHANGED plan
    <3>1. backlog' \in [Plans -> BOOLEAN] /\ \A u \in Plans \ {p} : backlog'[u] = backlog[u]
      BY <1>2, <2>1, RowFacts
    <3>2. \A u \in Plans : RowOK(plan'[u], backlog'[u])
      BY <2>1, <3>1, RowFacts DEF RowOK
    <3> QED
      BY <2>1, <3>1, <3>2 DEF RowsMove, Shape, TypeOK
  <2>2. CASE UNCHANGED <<plan, backlog>>
    BY <2>2, Unchanged
  <2> QED
    BY <2>1, <2>2 DEF CreateFromPlanEntry
<1>9. OthersMove /\ UNCHANGED <<now, plan>>
  BY <1>7, Unchanged DEF CreateFromPlanEntry, OthersMove
<1> QED
  BY <1>4, <1>5, <1>6, <1>8, <1>9, MoveInv

\* The schedule moves on by one period, and this server has visited the plan.
LEMMA AdvanceShape ==
  ASSUME Shape, BoundInv, NEW q \in Procs, AdvancePlanNextRun(q)
  PROVE  Shape' /\ BoundInv'
<1> DEFINE p == proc[q].plan
           seen == proc[q].seen
           n == Next_(seen.cron, seen.next)
           r == [plan[p] EXCEPT !.next = n]
           k == [proc[q] EXCEPT !.pc = "release"]
<1>1. proc[q] \in CallState /\ CallOK(q, proc[q], now) /\ proc[q].pc = "advance"
  BY CallFacts DEF AdvancePlanNextRun
<1>2. /\ p \in Plans /\ seen.cron \in Crons /\ seen.next \in Nat
      /\ q \in budget.servers /\ p \notin proc[q].todo
  BY <1>1, CallFacts DEF CallOK, Places
<1>3. n \in Nat /\ n <= seen.next + Longest /\ n # Never
  BY <1>2, NextFacts DEF Never
<1>4. /\ k \in CallState /\ k.pc = "release" /\ k.plan = p /\ k.todo = proc[q].todo
      /\ CallOK(q, k, now) /\ proc' = [proc EXCEPT ![q] = k]
      /\ \A u : Pending(k, u) => Pending(proc[q], u)
  <2>1. k \in CallState /\ k.pc = "release" /\ k.plan = p /\ k.todo = proc[q].todo
    BY <1>1 DEF CallState
  <2>2. /\ k \in CallState /\ CallOK(q, k, now)
        /\ \A u : Pending(k, u) => Pending(proc[q], u)
    BY <1>1, GotoFacts DEF Places
  <2>3. proc' = [proc EXCEPT ![q] = k]
    BY DEF AdvancePlanNextRun, Goto
  <2> QED
    BY <2>1, <2>2, <2>3
<1>5. Pending(proc[q], p) /\ ~Pending(k, p)
  BY <1>1, <1>2, <1>4 DEF Pending
<1> HIDE DEF k, n
<1>6. OthersMove /\ UNCHANGED <<now, backlog>>
  BY Unchanged DEF AdvancePlanNextRun, OthersMove
<1>7. CASE /\ plan[p].status # "gone" /\ plan[p].next = seen.next
           /\ plan' = [plan EXCEPT ![p].next = n]
  <2>1. /\ plan[p] \in PlanRow(Crons) /\ RowOK(plan[p], backlog[p]) /\ backlog \in [Plans -> BOOLEAN]
        /\ plan \in [Plans -> PlanRow(Crons)]
    BY <1>2, RowFacts DEF Shape, TypeOK
  <2>2. r \in PlanRow(Crons) /\ r.status = plan[p].status /\ r.next = n
    BY <1>3, <2>1 DEF PlanRow
  <2>3. plan' = [plan EXCEPT ![p] = r]
    BY <1>2, <1>7, <2>1
  <2> HIDE DEF r
  <2>4. RowOK(r, backlog'[p])
    BY <1>3, <1>6, <1>7, <2>1, <2>2 DEF RowOK
  <2>5. RowsMove /\ plan'[p] = r /\ \A u \in Plans \ {p} : plan'[u] = plan[u]
    BY <1>2, <1>6, <2>1, <2>2, <2>3, <2>4, OneRow
  <2>6. ASSUME NEW u \in Plans PROVE Schedules(q, k, u)
    <3>1. CASE u = p
      BY <1>2, <1>3, <1>5, <1>7, <2>2, <2>5, <3>1 DEF Schedules
    <3>2. CASE u # p
      BY <1>4, <2>5, <3>2 DEF Schedules
    <3> QED
      BY <3>1, <3>2
  <2> QED
    BY <1>4, <1>6, <2>5, <2>6, CallStep
<1>8. CASE UNCHANGED plan
  BY <1>4, <1>6, <1>8, Unchanged, MoveInv
<1> QED
  BY <1>7, <1>8 DEF AdvancePlanNextRun, n

-----------------------------------------------------------------------------
(* Users                                                                     *)

\* A user's request reads the row.
LEMMA UserBegins ==
  ASSUME Shape, BoundInv, NEW q \in Procs, NEW p \in Plans,
         Execute(q, p) \/ Resume(q, p) \/ Edit(q, p)
  PROVE  Shape' /\ BoundInv'
<1>1. /\ q \in Callers /\ q \notin Checkers /\ q \notin budget.servers
      /\ proc[q].pc = "idle" /\ UNCHANGED <<now, plan, backlog>>
  BY ServersFacts, PlansAssumption DEF Execute, Resume, Edit
<1>2. /\ proc[q] \in CallState /\ CallOK(q, proc[q], now) /\ proc \in [Procs -> CallState]
      /\ proc[q].todo = {}
  BY <1>1, CallFacts DEF CallOK
<1>3. OthersMove /\ RowsMove
  BY Unchanged DEF Execute, Resume, Edit, OthersMove
<1>4. ASSUME NEW k \in CallState, proc' = [proc EXCEPT ![q] = k], k.plan = p, k.todo = {},
             k.pc \in {"lock", "resume", "edit"}, k.pc # "lock" => k.cron \in Crons
      PROVE  Shape' /\ BoundInv'
  <2>1. CallOK(q, k, now)
    BY <1>1, <1>4 DEF CallOK, Places
  <2> QED
    BY <1>1, <1>3, <1>4, <2>1, MoveInv
<1>5. CASE Execute(q, p)
  <2> DEFINE k == [proc[q] EXCEPT !.pc = "lock", !.plan = p]
  <2>1. /\ k \in CallState /\ k.plan = p /\ k.todo = {} /\ k.pc = "lock"
        /\ proc' = [proc EXCEPT ![q] = k]
    BY <1>2, <1>5 DEF CallState, Execute
  <2> HIDE DEF k
  <2> QED
    BY <1>4, <2>1
<1>6. CASE Resume(q, p)
  <2> DEFINE c == plan[p].cron
             k == [proc[q] EXCEPT !.pc = "resume", !.plan = p, !.cron = c]
  <2>1. c \in Crons
    BY RowFacts DEF PlanRow
  <2>2. /\ k \in CallState /\ k.plan = p /\ k.todo = {} /\ k.pc = "resume" /\ k.cron = c
        /\ proc' = [proc EXCEPT ![q] = k]
    BY <1>2, <1>6, <2>1 DEF CallState, Resume
  <2> HIDE DEF k
  <2> QED
    BY <1>4, <2>1, <2>2
<1>7. CASE Edit(q, p)
  <2>1. PICK c \in budget.crons, s \in SUBSET budget.entries \ {{}} :
          proc' = [proc EXCEPT ![q].pc = "edit", ![q].plan = p, ![q].cron = c, ![q].left = s,
                               ![q].seen = plan[p]]
    BY <1>7 DEF Edit
  <2> DEFINE k == [proc[q] EXCEPT !.pc = "edit", !.plan = p, !.cron = c, !.left = s,
                                  !.seen = plan[p]]
  <2>2. c \in Crons /\ s \in SUBSET Entries
    BY PlansAssumption DEF Shape, TypeOK
  <2>3. plan[p] \in PlanRow(Crons \cup {0})
    BY RowFacts DEF PlanRow
  <2>4. k \in CallState /\ k.plan = p /\ k.todo = {} /\ k.pc = "edit" /\ k.cron = c
    BY <1>2, <2>2, <2>3 DEF CallState
  <2>5. proc' = [proc EXCEPT ![q] = k]
    BY <1>2, <2>1
  <2> HIDE DEF k
  <2> QED
    BY <1>4, <2>2, <2>4, <2>5
<1> QED
  BY <1>5, <1>6, <1>7

\* A user's request sets the schedule anew, from the clock, or leaves it.
LEMMA UserWrites ==
  ASSUME Shape, BoundInv, NEW q \in Procs, ResumeWrite(q) \/ UpdateEditable(q)
  PROVE  Shape' /\ BoundInv'
<1> DEFINE p == proc[q].plan
           c == proc[q].cron
           n == Next_(c, now)
<1>1. proc[q] \in CallState /\ CallOK(q, proc[q], now) /\ proc[q].pc \in {"resume", "edit"}
  BY CallFacts DEF ResumeWrite, UpdateEditable
<1>2. p \in Plans /\ c \in Crons /\ proc[q].left \in SUBSET Entries
  BY <1>1 DEF CallOK, CallState
<1>3. n \in Nat /\ n <= now + Longest /\ n # Never
  BY <1>2, NextFacts, CallFacts DEF Never
<1>4. OthersMove /\ UNCHANGED <<now, backlog>> /\ proc' = [proc EXCEPT ![q] = Idle]
  BY Unchanged DEF ResumeWrite, UpdateEditable, OthersMove
<1>5. /\ plan[p] \in PlanRow(Crons) /\ RowOK(plan[p], backlog[p]) /\ backlog \in [Plans -> BOOLEAN]
      /\ plan \in [Plans -> PlanRow(Crons)]
  BY <1>2, RowFacts DEF Shape, TypeOK
<1> HIDE DEF n
<1>6. ASSUME NEW r \in PlanRow(Crons), plan' = [plan EXCEPT ![p] = r], plan[p].status # "gone",
             r.next = n \/ r.next = plan[p].next, r.status = "active" \/ r.status = plan[p].status,
             r.status = "active" => r.next # Never
      PROVE  Shape' /\ BoundInv'
  <2>1. RowOK(r, backlog'[p])
    BY <1>4, <1>5, <1>6 DEF RowOK
  <2>2. RowsMove /\ plan'[p] = r /\ \A u \in Plans \ {p} : plan'[u] = plan[u]
    BY <1>2, <1>4, <1>5, <1>6, <2>1, OneRow
  <2>3. ASSUME NEW u \in Plans PROVE Schedules(q, Idle, u)
    <3>1. CASE u = p
      BY <1>3, <1>6, <2>2, <3>1, IdleFacts DEF Schedules
    <3>2. CASE u # p
      BY <2>2, <3>2, IdleFacts DEF Schedules
    <3> QED
      BY <3>1, <3>2
  <2> QED
    BY <1>4, <2>2, <2>3, IdleFacts, CallStep
<1>7. CASE UNCHANGED plan
  BY <1>4, <1>7, IdleFacts, Unchanged, MoveInv
<1>8. CASE plan[p].status # "gone" /\ plan' = [plan EXCEPT ![p].status = "active", ![p].next = n]
  <2> DEFINE r == [plan[p] EXCEPT !.status = "active", !.next = n]
  <2>1. r \in PlanRow(Crons) /\ r.status = "active" /\ r.next = n
    BY <1>3, <1>5 DEF PlanRow
  <2>2. plan' = [plan EXCEPT ![p] = r]
    BY <1>5, <1>8
  <2> HIDE DEF r
  <2> QED
    BY <1>3, <1>6, <1>8, <2>1, <2>2
<1>9. CASE plan[p].status # "gone" /\ plan' = [plan EXCEPT ![p].entries = proc[q].left]
  <2> DEFINE r == [plan[p] EXCEPT !.entries = proc[q].left]
  <2>1. r \in PlanRow(Crons) /\ r.status = plan[p].status /\ r.next = plan[p].next
    BY <1>2, <1>5 DEF PlanRow
  <2>2. plan' = [plan EXCEPT ![p] = r]
    BY <1>5, <1>9
  <2> HIDE DEF r
  <2> QED
    BY <1>5, <1>6, <1>9, <2>1, <2>2 DEF RowOK
<1>10. CASE /\ plan[p].status # "gone"
            /\ plan' = [plan EXCEPT ![p].entries = proc[q].left, ![p].cron = c, ![p].next = n]
  <2> DEFINE r == [plan[p] EXCEPT !.entries = proc[q].left, !.cron = c, !.next = n]
  <2>1. r \in PlanRow(Crons) /\ r.status = plan[p].status /\ r.next = n
    BY <1>2, <1>3, <1>5 DEF PlanRow
  <2>2. plan' = [plan EXCEPT ![p] = r]
    BY <1>5, <1>10
  <2> HIDE DEF r
  <2> QED
    BY <1>3, <1>6, <1>10, <2>1, <2>2
<1>11. CASE ResumeWrite(q)
  BY <1>7, <1>8, <1>11 DEF ResumeWrite, n
<1>12. CASE UpdateEditable(q)
  BY <1>7, <1>9, <1>10, <1>12 DEF UpdateEditable, n
<1> QED
  BY <1>11, <1>12

-----------------------------------------------------------------------------
(* Shape and bound of every reachable state                                  *)

\* The invariant holds initially: every plan's first occurrence is one period away.
LEMMA InitInv == Init => Shape /\ BoundInv /\ OnceInv
<1> SUFFICES ASSUME Init PROVE Shape /\ BoundInv /\ OnceInv
    OBVIOUS
<1>1. PICK c \in budget.crons :
        plan = [p \in Plans |->
          IF p \in budget.plans
            THEN [status |-> "active", cron |-> c, next |-> Next_(c, 0), entries |-> budget.entries]
            ELSE [status |-> "gone", cron |-> c, next |-> Never, entries |-> {}]]
  BY DEF Init
<1>2. /\ budget \in Budgets /\ now = 0 /\ backlog = [p \in Plans |-> FALSE]
      /\ checkLock = FALSE /\ lock = [p \in Plans |-> None]
      /\ made = [p \in Plans |-> [t \in Times |-> [e \in Entries |-> 0]]]
      /\ proc = [q \in Procs |-> Idle] /\ acts = 0 /\ faults = 0
  BY DEF Init
<1>3. /\ c \in Crons /\ budget.servers \in SUBSET Checkers /\ budget.entries \in SUBSET Entries
      /\ budget.acts \in Nat /\ budget.faults \in Nat /\ MaxTime \in Nat
  BY <1>2, PlansAssumption
<1>4. Next_(c, 0) \in Nat /\ 0 < Next_(c, 0) /\ Next_(c, 0) <= 0 + Longest
  BY <1>3, NextFacts
<1> DEFINE n == Next_(c, 0)
<1>5. n \in Nat /\ n # Never /\ n <= Longest
  BY <1>3, <1>4, LongestFacts DEF Never
<1> HIDE DEF n
<1>6. plan \in [Plans -> PlanRow(Crons)]
  <2>1. \A p \in Plans : plan[p] \in PlanRow(Crons)
    BY <1>1, <1>3, <1>5 DEF PlanRow, n
  <2> QED
    BY <1>1, <2>1
<1>7. \A p \in Plans : plan[p].next \in {n, Never} /\ RowOK(plan[p], backlog[p])
  BY <1>1, <1>2, <1>5 DEF RowOK, n
<1>8. BoundInv
  <2> SUFFICES ASSUME NEW p \in Plans PROVE plan[p].next <= now + Ahead(Quiet(p))
      BY DEF BoundInv
  <2>1. Quiet(p) \in SUBSET Checkers
    BY <1>3 DEF Quiet
  <2>2. Longest <= Ahead(Quiet(p)) /\ Longest \in Nat /\ Ahead(Quiet(p)) \in Nat
    BY <2>1, AheadFacts
  <2> DEFINE a == Ahead(Quiet(p))
             x == plan[p].next
  <2>3. x \in {n, Never} /\ Longest <= a /\ Longest \in Nat /\ a \in Nat
    BY <1>7, <2>2
  <2> HIDE DEF a, x
  <2>4. x <= 0 + a
    BY <1>5, <2>3 DEF Never
  <2> QED
    BY <1>2, <2>4 DEF a, x
<1>9. WithinTimes
  <2>1. Longest <= Ahead(budget.servers) /\ Longest \in Nat /\ Ahead(budget.servers) \in Nat
    BY <1>3, AheadFacts
  <2> DEFINE a == Ahead(budget.servers)
  <2>2. Longest <= a /\ Longest \in Nat /\ a \in Nat
    BY <2>1
  <2> HIDE DEF a
  <2>3. ASSUME NEW p \in Plans PROVE plan[p].next <= 0 + a
    <3> DEFINE x == plan[p].next
    <3>1. x \in {n, Never}
      BY <1>7
    <3> HIDE DEF x
    <3>2. x <= 0 + a
      BY <1>5, <2>2, <3>1 DEF Never
    <3> QED
      BY <3>2 DEF x
  <2> QED
    BY <1>2, <2>3 DEF a, WithinTimes
<1>10. TypeOK
  <2>1. now \in 0..MaxTime /\ backlog \in [Plans -> BOOLEAN] /\ checkLock \in BOOLEAN
    <3>1. \A m \in Nat : 0 \in 0..m
      OBVIOUS
    <3>2. now \in 0..MaxTime
      BY <1>2, <1>3, <3>1, Zenon
    <3>3. backlog \in [Plans -> BOOLEAN] /\ checkLock \in BOOLEAN
      BY <1>2, Zenon
    <3> QED
      BY <3>2, <3>3
  <2>2. made \in [Plans -> [Times -> [Entries -> Nat]]] /\ lock \in [Plans -> Procs \cup {None}]
    BY <1>2
  <2>3. proc \in [Procs -> CallState] /\ budget \in Budgets
    BY <1>2, IdleFacts
  <2>4. \A b \in Nat : 0 \in 0..b
    OBVIOUS
  <2>5. acts \in 0..budget.acts /\ faults \in 0..budget.faults
    <3>1. acts = 0 /\ faults = 0
      BY <1>2
    <3>2. 0 \in 0..budget.acts /\ 0 \in 0..budget.faults
      BY <1>3, <2>4
    <3> QED
      BY <3>1, <3>2, Zenon
  <2> QED
    BY <1>6, <1>9, <2>1, <2>2, <2>3, <2>5 DEF TypeOK
<1>11. Shape
  BY <1>2, <1>7, <1>10, IdleFacts DEF Shape
<1>12. \A q \in Procs : proc[q].pc = "idle"
  BY <1>2, IdleFacts
<1>13. \A p \in Plans, t \in Times, e \in Entries : made[p][t][e] = 0
  BY <1>2
<1>14. OnceInv
  <2>1. /\ \A q \in Procs : proc[q].pc \notin {"resume", "edit"}
        /\ \A q \in Procs, p \in Plans : ~Holds(q, p)
    BY <1>12 DEF Holds
  <2>2. \A q \in Checkers : proc[q].pc = "idle"
    BY <1>12 DEF Procs
  <2> QED
    BY <1>13, <2>1, <2>2 DEF OnceInv, Once, Locked, Counted, SeenOK
<1> QED
  BY <1>8, <1>11, <1>14

\* Every step, those of faults included
LEMMA NextShape == Shape /\ BoundInv /\ [Next]_vars => Shape' /\ BoundInv'
<1> SUFFICES ASSUME Shape, BoundInv, [Next]_vars PROVE Shape' /\ BoundInv'
    OBVIOUS
<1>1. CASE UNCHANGED vars
  <2>1. OthersMove /\ RowsMove /\ UNCHANGED <<plan, proc, now>>
    BY <1>1, Unchanged DEF vars, OthersMove
  <2> QED
    BY <2>1, Unchanged, OutsideStep
<1>2. CASE \/ Tick \/ ExpireCheck
           \/ \E p \in Plans : \/ ExpireTrigger(p) \/ Pause(p) \/ Delete(p) \/ BacklogTaken(p)
                               \/ Stall(p)
  BY <1>2, OutsideShape
<1>3. CASE \E q \in Procs, p \in Plans : Execute(q, p) \/ Resume(q, p) \/ Edit(q, p)
  BY <1>3, UserBegins
<1>4. ASSUME NEW q \in Procs, TryAcquire(q) \/ Step(q) \/ Crash(q) \/ AdvanceFails(q)
      PROVE  Shape' /\ BoundInv'
  <2>1. CASE TryAcquire(q) \/ ListDue(q) \/ TakePlan(q) \/ EndCheck(q)
    BY <2>1, CheckerShape
  <2>2. CASE \/ AcquirePlanTriggerLock(q) \/ Reload(q) \/ ListEntries(q) \/ EntriesDone(q)
             \/ Release(q) \/ AdvanceFails(q) \/ Crash(q)
    BY <2>2, TriggerShape
  <2>3. CASE \E e \in Entries : CreateFromPlanEntry(q, e)
    BY <2>3, CreateShape
  <2>4. CASE AdvancePlanNextRun(q)
    BY <2>4, AdvanceShape
  <2>5. CASE ResumeWrite(q) \/ UpdateEditable(q)
    BY <2>5, UserWrites
  <2> QED
    BY <1>4, <2>1, <2>2, <2>3, <2>4, <2>5 DEF Step
<1> QED
  BY <1>1, <1>2, <1>3, <1>4 DEF Next

\* Every row and every call is as Shape says, and the schedule as BoundInv says.
THEOREM ShapeInvariance == Spec => [](Shape /\ BoundInv)
<1>1. Init => Shape /\ BoundInv
  BY InitInv
<1>2. (Shape /\ BoundInv) /\ [Next]_vars => (Shape /\ BoundInv)'
  BY NextShape
<1> QED
  BY <1>1, <1>2, PTL DEF Spec

\* Whatever pauses, resumes, edits, deletions and triggers of however many servers and users
\* overlap: an active plan has a next run, and of a paused one no task waits to start.
THEOREM StatusMeant == Spec => []StatusIsMeant
<1>1. Shape => StatusIsMeant
  BY DEF Shape, RowOK, StatusIsMeant, ActiveIsScheduled, PausedHasNoBacklog
<1> QED
  BY <1>1, ShapeInvariance, PTL

\* A checker that moves next_run_at on from what it read never takes a schedule back and
\* never schedules a plan that was paused or deleted meanwhile.
THEOREM TriggersForward == Spec => TriggersMoveForward
<1> DEFINE A == \A q \in Checkers, p \in Plans :
             proc[q].pc = "advance" /\ proc'[q].pc = "release" =>
               /\ plan'[p].next >= plan[p].next
               /\ plan[p].next = Never => plan'[p].next = Never
<1>1. Shape /\ [Next]_vars => A
  <2> SUFFICES ASSUME Shape, [Next]_vars, NEW q \in Checkers, NEW p \in Plans,
                      proc[q].pc = "advance", proc'[q].pc = "release"
               PROVE  /\ plan'[p].next >= plan[p].next
                      /\ plan[p].next = Never => plan'[p].next = Never
      OBVIOUS
  <2>1. /\ q \in Procs /\ proc \in [Procs -> CallState] /\ CallOK(q, proc[q], now)
        /\ plan[p].next \in Nat \cup {Never} /\ Ahead(budget.servers) \in Nat /\ now \in Nat
    BY CallFacts, RowFacts DEF Procs
  <2>2. CASE UNCHANGED plan
    BY <2>1, <2>2 DEF Never
  <2>3. CASE AdvancePlanNextRun(q)
    <3> DEFINE u == proc[q].plan
               seen == proc[q].seen
               n == Next_(seen.cron, seen.next)
    <3>1. /\ u \in Plans /\ seen.next \in Nat /\ seen.cron \in Crons
          /\ plan \in [Plans -> PlanRow(Crons)]
      BY <2>1, <2>3 DEF CallOK, AdvancePlanNextRun, Shape, TypeOK
    <3>2. n \in Nat /\ seen.next < n
      BY <3>1, NextFacts
    <3> HIDE DEF n
    <3>3. CASE plan[u].next = seen.next /\ plan' = [plan EXCEPT ![u].next = n]
      <4>1. p = u => plan'[p].next = n /\ plan[p].next = seen.next
        BY <3>1, <3>3 DEF PlanRow
      <4>2. p # u => plan'[p] = plan[p]
        BY <3>1, <3>3
      <4> QED
        BY <2>1, <3>1, <3>2, <4>1, <4>2 DEF Never
    <3> QED
      BY <2>2, <2>3, <3>3 DEF AdvancePlanNextRun, n
  <2>4. CASE UNCHANGED proc
    BY <2>4
  <2>5. ASSUME NEW r \in Procs, r # q, ResumeWrite(r) \/ UpdateEditable(r) \/ AdvancePlanNextRun(r)
        PROVE  FALSE
    <3>1. proc'[q] = proc[q]
      BY <2>1, <2>5 DEF ResumeWrite, UpdateEditable, AdvancePlanNextRun, Goto
    <3> QED
      BY <3>1
  <2>6. ~ResumeWrite(q) /\ ~UpdateEditable(q)
    BY DEF ResumeWrite, UpdateEditable
  <2>7. UNCHANGED plan \/ UNCHANGED proc \/ \E r \in Procs :
          ResumeWrite(r) \/ UpdateEditable(r) \/ AdvancePlanNextRun(r)
    BY DEF Next, vars, Step, Tick, ExpireCheck, TryAcquire, ListDue, TakePlan, EndCheck,
           AcquirePlanTriggerLock, Reload, ListEntries, CreateFromPlanEntry, EntriesDone,
           Release, Crash, AdvanceFails, ExpireTrigger, Pause, Delete, BacklogTaken, Stall,
           Execute, Resume, Edit
  <2> QED
    BY <2>2, <2>3, <2>4, <2>5, <2>6, <2>7
<1>2. Shape /\ BoundInv /\ [Next]_vars => A
  BY <1>1
<1> HIDE DEF A
<1>3. [](Shape /\ BoundInv) /\ [][Next]_vars => [][A]_vars
  BY <1>2, PTL
<1>4. Spec => [][Next]_vars
  BY PTL DEF Spec
<1>5. [][A]_vars <=> TriggersMoveForward
  BY DEF A, TriggersMoveForward
<1> QED
  BY <1>3, <1>4, <1>5, ShapeInvariance, PTL

-----------------------------------------------------------------------------
(* One task per entry and occurrence                                         *)

\* Steps of none of the calls: a schedule stays, or is taken away.
LEMMA OutsideOnce ==
  ASSUME Once, UNCHANGED <<proc, made>>, Locked',
         \A p \in Plans : plan'[p].next = plan[p].next \/ plan'[p].next = Never,
         \A q \in Procs : CallOK(q, proc[q], now)
  PROVE  Once'
<1>1. ASSUME NEW p \in Plans, NEW t \in Times, NEW e \in Entries PROVE Counted(p, t, e)'
  <2>1. Counted(p, t, e) /\ t # Never
    <3>1. t \in 0..(MaxTime + Ahead(Checkers))
      BY DEF Times
    <3>2. t # -1
      BY <3>1
    <3> QED
      BY <3>2 DEF Once, Never
  <2>2. \A q : Creates(q, p)' <=> Creates(q, p)
    BY DEF Creates
  <2> QED
    BY <2>1, <2>2 DEF Counted
<1>2. ASSUME NEW q \in Checkers PROVE SeenOK(proc[q])'
  <2>1. SeenOK(proc[q]) /\ (proc[q].pc \in {"entries", "create", "advance"} => proc[q].plan \in Plans)
    BY DEF Once, CallOK, Procs
  <2> QED
    BY <2>1 DEF SeenOK, Fresh
<1> QED
  BY <1>1, <1>2 DEF Once

\* Steps of a call that leave the plans and the tasks alone
LEMMA CallOnce ==
  ASSUME Shape, Once, NEW q \in Procs, NEW k, proc' = [proc EXCEPT ![q] = k],
         UNCHANGED <<plan, made>>, k.pc \notin {"resume", "edit"}, Locked', q \in Checkers => SeenOK(k),
         \A p \in Plans : Creates(q, p) => k.plan = p /\ k.pc \in {"create", "advance"}
  PROVE  Once'
<1>1. /\ proc \in [Procs -> CallState] /\ proc'[q] = k
      /\ \A r \in Procs \ {q} : proc'[r] = proc[r]
  BY DEF Shape, TypeOK
<1>2. \A p \in Plans, r \in Procs : Creates(r, p) => Creates(r, p)'
  BY <1>1 DEF Creates
<1>3. ASSUME NEW p \in Plans, NEW t \in Times, NEW e \in Entries PROVE Counted(p, t, e)'
  <2>1. Counted(p, t, e)
    BY DEF Once
  <2>2. (\A r \in Procs : ~Creates(r, p)') => (\A r \in Procs : ~Creates(r, p))
    BY <1>2
  <2> QED
    BY <2>1, <2>2 DEF Counted
<1>4. ASSUME NEW r \in Checkers PROVE SeenOK(proc[r])'
  <2>1. r \in Procs /\ SeenOK(proc[r])
    BY DEF Once, Procs
  <2>2. SeenOK(proc'[r])
    BY <1>1, <2>1
  <2> QED
    BY <2>2 DEF SeenOK, Fresh
<1>5. \A r \in Procs : proc'[r].pc \notin {"resume", "edit"}
  BY <1>1 DEF Once
<1> QED
  BY <1>3, <1>4, <1>5 DEF Once

\* The lock of a plan stays with the call that triggers it.
Busy(k, p) == k.plan = p /\ k.pc \in {"reload", "entries", "create", "advance", "release"}

LEMMA SameLocks ==
  ASSUME Shape, Once, NEW q \in Procs, NEW k, proc' = [proc EXCEPT ![q] = k], UNCHANGED lock,
         \A p \in Plans : Busy(k, p) => Busy(proc[q], p)
  PROVE  Locked'
<1>1. /\ proc \in [Procs -> CallState] /\ proc'[q] = k
      /\ \A r \in Procs \ {q} : proc'[r] = proc[r]
  BY DEF Shape, TypeOK
<1>2. ASSUME NEW r \in Procs, NEW p \in Plans, Holds(r, p)' PROVE lock'[p] = r
  <2>1. Holds(r, p)
    BY <1>1, <1>2 DEF Holds, Busy
  <2> QED
    BY <2>1 DEF Once, Locked
<1> QED
  BY <1>2 DEF Locked

\* Whoever triggers a plan is alone with it.
LEMMA Alone ==
  ASSUME Shape, Once, NEW q \in Procs, NEW p \in Plans, Holds(q, p)
  PROVE  /\ \A r \in Procs \ {q} : ~Holds(r, p) /\ ~Creates(r, p)
         /\ lock[p] = q
BY DEF Once, Locked, Creates, Holds

\* Time, expiring keys, pauses and deletions: only the lock of a dead call expires.
LEMMA OthersOnce ==
  ASSUME Shape, Once,
         \/ Tick \/ ExpireCheck
         \/ \E p \in Plans : ExpireTrigger(p) \/ Pause(p) \/ Delete(p) \/ BacklogTaken(p)
  PROVE  Once'
<1>1. /\ \A q \in Procs : CallOK(q, proc[q], now)
      /\ plan \in [Plans -> PlanRow(Crons)] /\ lock \in [Plans -> Procs \cup {None}]
  BY DEF Shape, TypeOK
<1>2. UNCHANGED <<proc, made>>
  BY DEF Tick, ExpireCheck, ExpireTrigger, Pause, Delete, BacklogTaken
<1>3. \A p \in Plans : plan'[p].next = plan[p].next \/ plan'[p].next = Never
  <2>1. CASE UNCHANGED plan
    BY <2>1
  <2>2. ASSUME NEW p \in Plans, Pause(p) \/ Delete(p)
        PROVE  \A u \in Plans : plan'[u].next = plan[u].next \/ plan'[u].next = Never
    <3>1. CASE plan' = [plan EXCEPT ![p].status = "paused", ![p].next = Never]
      BY <1>1, <3>1 DEF PlanRow
    <3>2. CASE plan' = [plan EXCEPT ![p].status = "gone", ![p].next = Never, ![p].entries = {}]
      BY <1>1, <3>2 DEF PlanRow
    <3> QED
      BY <2>2, <3>1, <3>2 DEF Pause, Delete
  <2> QED
    BY <2>1, <2>2 DEF Tick, ExpireCheck, ExpireTrigger, BacklogTaken
<1>4. Locked'
  <2>1. \A q, p : Holds(q, p)' <=> Holds(q, p)
    BY <1>2 DEF Holds
  <2>2. CASE UNCHANGED lock
    BY <2>1, <2>2 DEF Once, Locked
  <2>3. ASSUME NEW p \in Plans, ExpireTrigger(p) PROVE Locked'
    <3>1. lock' = [lock EXCEPT ![p] = None] /\ ~Holds(lock[p], p)
      BY <2>3 DEF ExpireTrigger
    <3>2. ASSUME NEW q \in Procs, NEW u \in Plans, Holds(q, u) PROVE lock'[u] = q
      <4>1. lock[u] = q
        BY <3>2 DEF Once, Locked
      <4>2. u # p
        BY <3>1, <3>2, <4>1
      <4> QED
        BY <1>1, <3>1, <4>1, <4>2
    <3> QED
      BY <2>1, <3>2 DEF Locked
  <2> QED
    BY <2>2, <2>3 DEF Tick, ExpireCheck, Pause, Delete, BacklogTaken
<1> QED
  BY <1>1, <1>2, <1>3, <1>4, OutsideOnce

\* Calls before they hold the lock of a plan
LEMMA BeginOnce ==
  ASSUME Shape, Once, NEW q \in Procs,
         \/ TryAcquire(q) \/ ListDue(q) \/ TakePlan(q) \/ EndCheck(q)
         \/ \E p \in Plans : Execute(q, p)
  PROVE  Once'
<1>1. proc[q] \in CallState /\ proc \in [Procs -> CallState]
  BY CallFacts
<1>2. proc[q].pc \in {"idle", "list", "loop"} /\ UNCHANGED <<plan, made, lock>>
  BY DEF TryAcquire, ListDue, TakePlan, EndCheck, Execute
<1>3. PICK k : proc' = [proc EXCEPT ![q] = k] /\ k.pc \in {"idle", "list", "loop", "lock"}
  <2>1. CASE TryAcquire(q)
    <3> DEFINE k == [proc[q] EXCEPT !.pc = "list"]
    <3>1. proc' = [proc EXCEPT ![q] = k] /\ k.pc = "list"
      BY <1>1, <2>1 DEF TryAcquire, Goto, CallState
    <3> QED
      BY <3>1
  <2>2. CASE ListDue(q)
    <3> DEFINE k == [proc[q] EXCEPT !.pc = "loop", !.todo = {p \in Plans : Due(p)}]
    <3>1. proc' = [proc EXCEPT ![q] = k] /\ k.pc = "loop"
      BY <1>1, <2>2 DEF ListDue, CallState
    <3> QED
      BY <3>1
  <2>3. CASE TakePlan(q)
    <3>1. PICK p \in proc[q].todo :
            proc' = [proc EXCEPT ![q].pc = "lock", ![q].plan = p, ![q].todo = @ \ {p}]
      BY <2>3 DEF TakePlan
    <3> DEFINE k == [proc[q] EXCEPT !.pc = "lock", !.plan = p, !.todo = @ \ {p}]
    <3>2. proc' = [proc EXCEPT ![q] = k] /\ k.pc = "lock"
      BY <1>1, <3>1 DEF CallState
    <3> QED
      BY <3>2
  <2>4. CASE EndCheck(q)
    BY <2>4, IdleFacts DEF EndCheck
  <2>5. ASSUME NEW p \in Plans, Execute(q, p)
        PROVE  \E k : proc' = [proc EXCEPT ![q] = k] /\ k.pc \in {"idle", "list", "loop", "lock"}
    <3> DEFINE k == [proc[q] EXCEPT !.pc = "lock", !.plan = p]
    <3>1. proc' = [proc EXCEPT ![q] = k] /\ k.pc = "lock"
      BY <1>1, <2>5 DEF Execute, CallState
    <3> QED
      BY <3>1
  <2> QED
    BY <2>1, <2>2, <2>3, <2>4, <2>5
<1>4. Locked'
  BY <1>2, <1>3, SameLocks DEF Busy
<1>5. SeenOK(k) /\ \A p \in Plans : ~Creates(q, p)
  BY <1>2, <1>3 DEF SeenOK, Creates
<1> QED
  BY <1>2, <1>3, <1>4, <1>5, CallOnce

\* The lock is taken when it is free, and given back by its owner.
LEMMA LockOnce ==
  ASSUME Shape, Once, NEW q \in Procs, AcquirePlanTriggerLock(q) \/ Release(q)
  PROVE  Once'
<1> DEFINE p == proc[q].plan
<1>1. proc[q] \in CallState /\ proc \in [Procs -> CallState] /\ CallOK(q, proc[q], now)
  BY CallFacts
<1>2. proc[q].pc \in {"lock", "release"} /\ UNCHANGED <<plan, made>> /\ p \in Plans
  BY <1>1 DEF AcquirePlanTriggerLock, Release, CallOK
<1>3. lock \in [Plans -> Procs \cup {None}] /\ None \notin Procs
  BY PlansAssumption DEF Shape, TypeOK, Procs, None
<1>4. After(q).pc \in {"idle", "loop"}
  BY <1>2, AfterFacts
<1>5. PICK k : proc' = [proc EXCEPT ![q] = k] /\ k.pc \in {"idle", "loop", "reload"}
               /\ (k.pc = "reload" => k.plan = p /\ lock[p] = None /\ lock' = [lock EXCEPT ![p] = q])
               /\ (k.pc # "reload" => UNCHANGED lock \/ Release(q))
  <2>1. CASE AcquirePlanTriggerLock(q) /\ lock[p] = None
    <3> DEFINE k == [proc[q] EXCEPT !.pc = "reload"]
    <3>1. proc' = [proc EXCEPT ![q] = k] /\ k.pc = "reload" /\ k.plan = p
      BY <1>1, <2>1 DEF AcquirePlanTriggerLock, Goto, CallState
    <3>2. lock' = [lock EXCEPT ![p] = q]
      BY <2>1 DEF AcquirePlanTriggerLock
    <3> HIDE DEF k
    <3> QED
      BY <2>1, <3>1, <3>2
  <2>2. CASE AcquirePlanTriggerLock(q) /\ lock[p] # None
    <3>1. proc' = [proc EXCEPT ![q] = After(q)] /\ UNCHANGED lock
      BY <2>2 DEF AcquirePlanTriggerLock
    <3> QED
      BY <1>4, <3>1
  <2>3. CASE Release(q)
    <3>1. proc' = [proc EXCEPT ![q] = After(q)]
      BY <2>3 DEF Release
    <3> QED
      BY <1>4, <2>3, <3>1
  <2> QED
    BY <2>1, <2>2, <2>3
<1>6. /\ proc'[q] = k /\ \A r \in Procs \ {q} : proc'[r] = proc[r]
  BY <1>1, <1>5
<1>7. Locked'
  <2> SUFFICES ASSUME NEW r \in Procs, NEW u \in Plans, Holds(r, u)' PROVE lock'[u] = r
      BY DEF Locked
  <2>1. CASE r = q
    BY <1>2, <1>3, <1>5, <1>6, <2>1 DEF Holds
  <2>2. CASE r # q
    <3>1. lock[u] = r
      BY <1>6, <2>2 DEF Once, Locked, Holds
    <3>2. CASE k.pc = "reload"
      BY <1>3, <1>5, <2>2, <3>1, <3>2
    <3>3. CASE UNCHANGED lock
      BY <3>1, <3>3
    <3>4. CASE Release(q)
      BY <1>2, <1>3, <2>2, <3>1, <3>4 DEF Release
    <3> QED
      BY <1>5, <3>2, <3>3, <3>4
  <2> QED
    BY <2>1, <2>2
<1>8. SeenOK(k) /\ \A u \in Plans : ~Creates(q, u)
  BY <1>2, <1>5 DEF SeenOK, Creates
<1> QED
  BY <1>2, <1>5, <1>7, <1>8, CallOnce

\* The row that is read: nothing was created for its occurrence, because nobody else is
\* triggering the plan.
LEMMA ReloadOnce == ASSUME Shape, Once, NEW q \in Procs, Reload(q) PROVE Once'
<1> DEFINE p == proc[q].plan
           pc == IF plan[p].status = "active" THEN "entries" ELSE "release"
           k == [proc[q] EXCEPT !.seen = plan[p], !.pc = pc]
<1>1. /\ proc[q] \in CallState /\ proc \in [Procs -> CallState] /\ CallOK(q, proc[q], now)
      /\ proc[q].pc = "reload" /\ UNCHANGED <<plan, made, lock>>
  BY CallFacts DEF Reload
<1>2. p \in Plans /\ Holds(q, p) /\ ~Creates(q, p)
  BY <1>1 DEF CallOK, Holds, Creates
<1>3. \A r \in Procs : ~Creates(r, p)
  BY <1>2, Alone
<1>4. pc = "entries" => plan[p].next \in Times
  <2>1. /\ plan[p].next \in Nat \cup {Never} /\ plan[p].next <= now + Ahead(budget.servers)
        /\ RowOK(plan[p], backlog[p])
    BY <1>2, RowFacts
  <2>2. now \in 0..MaxTime /\ MaxTime \in Nat /\ budget.servers \subseteq Checkers
    BY ServersFacts, PlansAssumption DEF Shape, TypeOK
  <2>3. /\ Ahead(budget.servers) <= Ahead(Checkers) /\ Ahead(Checkers) \in Nat
        /\ Ahead(budget.servers) \in Nat
    BY <2>2, AheadFacts
  <2>4. plan[p].status = "active" => plan[p].next \in Nat
    BY <2>1 DEF RowOK
  <2> DEFINE x == plan[p].next
             a == Ahead(budget.servers)
  <2>5. x <= now + a
    BY <2>1
  <2> HIDE DEF x, a
  <2>6. x \in Nat => x \in Times
    BY <2>2, <2>3, <2>5 DEF Times, a
  <2> QED
    BY <2>4, <2>6 DEF x
<1>5. proc' = [proc EXCEPT ![q] = k] /\ k.pc = pc /\ k.plan = p /\ k.seen = plan[p]
  BY <1>1 DEF Reload, CallState
<1>6. pc \in {"entries", "release"}
  OBVIOUS
<1> HIDE DEF k, pc
<1>7. SeenOK(k)
  <2>1. ASSUME pc = "entries", NEW e \in Entries PROVE made[p][plan[p].next][e] = 0
    <3>1. Counted(p, plan[p].next, e)
      BY <1>2, <1>4, <2>1 DEF Once
    <3> QED
      BY <1>3, <3>1 DEF Counted
  <2> QED
    BY <1>5, <1>6, <2>1 DEF SeenOK
<1>8. \A u \in Plans : Busy(k, u) => Busy(proc[q], u)
  BY <1>1, <1>5 DEF Busy
<1>9. \A u \in Plans : ~Creates(q, u)
  BY <1>1 DEF Creates
<1>10. Locked'
  BY <1>1, <1>5, <1>8, SameLocks
<1>11. k.pc \notin {"resume", "edit"}
  BY <1>5, <1>6
<1> QED
  BY <1>1, <1>5, <1>7, <1>9, <1>10, <1>11, CallOnce

\* From the row to the entries, and on to the move of the schedule
LEMMA EntriesOnce ==
  ASSUME Shape, Once, NEW q \in Procs, ListEntries(q) \/ EntriesDone(q) PROVE Once'
<1> DEFINE p == proc[q].plan
<1>1. /\ proc[q] \in CallState /\ proc \in [Procs -> CallState] /\ CallOK(q, proc[q], now)
      /\ UNCHANGED <<plan, made, lock>> /\ (q \in Checkers => SeenOK(proc[q]))
  BY CallFacts DEF ListEntries, EntriesDone, Once
<1>2. ASSUME NEW k, proc' = [proc EXCEPT ![q] = k], k.plan = p, k.seen = proc[q].seen,
             k.pc \in {"create", "advance", "release"}, proc[q].pc \in {"entries", "create"},
             q \in Checkers /\ proc[q].pc = "create" => k.pc = "advance",
             proc[q].pc = "entries" => k.pc # "advance"
      PROVE  Once'
  <2>1. q \in Checkers => SeenOK(k)
    <3>1. CASE proc[q].pc = "entries"
      BY <1>1, <1>2, <3>1 DEF SeenOK, Fresh
    <3>2. CASE proc[q].pc = "create"
      BY <1>1, <1>2, <3>2 DEF SeenOK, Fresh
    <3> QED
      BY <1>2, <3>1, <3>2
  <2>2. \A u \in Plans : Busy(k, u) => Busy(proc[q], u)
    BY <1>2 DEF Busy
  <2>3. Locked'
    BY <1>1, <1>2, <2>2, SameLocks
  <2>4. \A u \in Plans : Creates(q, u) => k.plan = u /\ k.pc \in {"create", "advance"}
    BY <1>2 DEF Creates
  <2>5. k.pc \notin {"resume", "edit"}
    BY <1>2
  <2> QED
    BY <1>1, <1>2, <2>1, <2>3, <2>4, <2>5, CallOnce
<1>3. CASE ListEntries(q)
  <2> DEFINE es == plan[p].entries
             pc == IF es = {} THEN "release" ELSE "create"
             k == [proc[q] EXCEPT !.left = es, !.pc = pc]
  <2>1. /\ proc' = [proc EXCEPT ![q] = k] /\ k.pc = pc /\ k.plan = p /\ k.seen = proc[q].seen
        /\ proc[q].pc = "entries"
    BY <1>1, <1>3 DEF ListEntries, CallState
  <2>2. pc \in {"create", "release"}
    OBVIOUS
  <2> HIDE DEF k, pc
  <2> QED
    BY <1>2, <2>1, <2>2
<1>4. CASE EntriesDone(q)
  <2> DEFINE pc == IF q \in Checkers THEN "advance" ELSE "release"
             k == [proc[q] EXCEPT !.pc = pc]
  <2>1. /\ proc' = [proc EXCEPT ![q] = k] /\ k.pc = pc /\ k.plan = p /\ k.seen = proc[q].seen
        /\ proc[q].pc = "create"
    BY <1>1, <1>4 DEF EntriesDone, Goto, CallState
  <2>2. pc \in {"advance", "release"} /\ (q \in Checkers => pc = "advance")
    OBVIOUS
  <2> HIDE DEF k, pc
  <2> QED
    BY <1>2, <2>1, <2>2
<1> QED
  BY <1>3, <1>4

\* A task is created, the first for its entry and occurrence, and the occurrence is the
\* plan's next one or the plan has none any more.
LEMMA CreateOnce ==
  ASSUME Shape, Once, NEW q \in Procs, NEW e \in Entries, CreateFromPlanEntry(q, e)
  PROVE  Once'
<1> DEFINE p == proc[q].plan
           t == proc[q].seen.next
           k == [proc[q] EXCEPT !.left = @ \ {e}]
<1>1. /\ proc[q] \in CallState /\ proc \in [Procs -> CallState] /\ CallOK(q, proc[q], now)
      /\ proc[q].pc = "create" /\ e \in proc[q].left /\ UNCHANGED <<plan, lock>>
  BY CallFacts DEF CreateFromPlanEntry
<1>2. p \in Plans /\ Holds(q, p)
  BY <1>1 DEF CallOK, Holds
<1>3. /\ proc' = [proc EXCEPT ![q] = k] /\ k.pc = "create" /\ k.plan = p
      /\ k.seen = proc[q].seen /\ k.left = proc[q].left \ {e}
  BY <1>1 DEF CallState, CreateFromPlanEntry
<1> HIDE DEF k
<1>4. Locked'
  <2>1. \A u \in Plans : Busy(k, u) => Busy(proc[q], u)
    BY <1>1, <1>3 DEF Busy
  <2> QED
    BY <1>1, <1>3, <2>1, SameLocks
<1>5. CASE UNCHANGED made
  <2>1. q \in Checkers => SeenOK(k)
    BY <1>1, <1>3 DEF SeenOK, Fresh, Once
  <2>2. \A u \in Plans : Creates(q, u) => k.plan = u /\ k.pc \in {"create", "advance"}
    BY <1>3 DEF Creates
  <2>3. k.pc \notin {"resume", "edit"}
    BY <1>3
  <2> QED
    BY <1>1, <1>3, <1>4, <1>5, <2>1, <2>2, <2>3, CallOnce
<1>6. CASE q \in Checkers /\ made' = [made EXCEPT ![p][t][e] = @ + 1]
  <2>1. /\ SeenOK(proc[q]) /\ plan[p].next \in {Never, t} /\ made[p][t][e] = 0
    BY <1>1, <1>6 DEF Once, SeenOK, Fresh
  <2>2. t \in Times
    <3>1. t \in 0..(now + Ahead(budget.servers)) /\ now \in 0..MaxTime /\ MaxTime \in Nat
          /\ budget.servers \subseteq Checkers
      BY <1>1, ServersFacts, PlansAssumption DEF Shape, TypeOK, CallOK
    <3>2. /\ Ahead(budget.servers) <= Ahead(Checkers) /\ Ahead(Checkers) \in Nat
          /\ Ahead(budget.servers) \in Nat
      BY <3>1, AheadFacts
    <3> HIDE DEF t
    <3> QED
      BY <3>1, <3>2 DEF Times
  <2>3. made \in [Plans -> [Times -> [Entries -> Nat]]]
    BY DEF Shape, TypeOK
  <2> HIDE DEF t
  <2>4. made'[p][t][e] = 1
    BY <1>2, <1>6, <2>1, <2>2, <2>3
  <2>5. \A u \in Plans, v \in Times, x \in Entries :
          u # p \/ v # t \/ x # e => made'[u][v][x] = made[u][v][x]
    BY <1>2, <1>6, <2>2, <2>3
  <2>6. /\ proc'[q] = k /\ \A r \in Procs \ {q} : proc'[r] = proc[r]
    BY <1>1, <1>3
  <2>7. \A r \in Procs, u \in Plans : Creates(r, u) <=> Creates(r, u)'
    BY <1>1, <1>3, <2>6 DEF Creates
  <2>8. \A u \in Plans : u = p => Creates(q, u)'
    BY <1>3, <1>6, <2>6 DEF Creates
  <2>9. ASSUME NEW u \in Plans, NEW v \in Times, NEW x \in Entries PROVE Counted(u, v, x)'
    <3>1. CASE u = p /\ v = t /\ x = e
      <4>1. ~(plan'[p].next # Never /\ plan'[p].next < t)
        <5>1. t \in Int
          BY <2>2 DEF Times
        <5> QED
          BY <1>1, <2>1, <5>1
      <4>2. ~\A r \in Procs : ~Creates(r, u)'
        BY <2>8, <3>1
      <4>3. made'[u][v][x] = 1
        BY <2>4, <3>1
      <4>4. ~(plan'[u].next # Never /\ plan'[u].next < v)
        BY <3>1, <4>1
      <4> QED
        BY <4>2, <4>3, <4>4 DEF Counted
    <3>2. CASE u # p \/ v # t \/ x # e
      <4>1. made'[u][v][x] = made[u][v][x] /\ Counted(u, v, x)
        BY <2>5, <3>2 DEF Once
      <4>2. (\A r \in Procs : ~Creates(r, u)') => (\A r \in Procs : ~Creates(r, u))
        BY <2>7
      <4> QED
        BY <1>1, <4>1, <4>2 DEF Counted
    <3> QED
      BY <3>1, <3>2
  <2>10. ASSUME NEW r \in Checkers PROVE SeenOK(proc[r])'
    <3>1. r \in Procs /\ SeenOK(proc[r]) /\ proc[r] \in CallState /\ CallOK(r, proc[r], now)
      BY CallFacts DEF Once, Procs
    <3>2. CASE r = q
      <4>1. \A x \in k.left : made'[p][t][x] = made[p][t][x]
        BY <1>1, <1>2, <1>3, <2>2, <2>5 DEF CallState
      <4> QED
        BY <1>1, <1>3, <2>1, <2>6, <3>2, <4>1 DEF SeenOK, Fresh, t
    <3>3. CASE r # q /\ proc[r].pc \in {"entries", "create", "advance"}
      <4>1. proc[r].plan # p /\ proc[r].plan \in Plans
        BY <1>2, <3>1, <3>3, Alone DEF Holds, CallOK
      <4>2. made'[proc[r].plan] = made[proc[r].plan]
        BY <1>6, <2>3, <4>1
      <4>3. proc'[r] = proc[r]
        BY <2>6, <3>1, <3>3
      <4> QED
        BY <1>1, <3>1, <4>2, <4>3 DEF SeenOK, Fresh
    <3>4. CASE r # q /\ proc[r].pc \notin {"entries", "create", "advance"}
      BY <2>6, <3>1, <3>4 DEF SeenOK
    <3> QED
      BY <3>2, <3>3, <3>4
  <2>11. \A r \in Procs : proc'[r].pc \notin {"resume", "edit"}
    BY <1>3, <2>6 DEF Once
  <2> QED
    BY <1>4, <2>9, <2>10, <2>11 DEF Once
<1> QED
  BY <1>5, <1>6 DEF CreateFromPlanEntry

\* The schedule moves on to an occurrence for which nothing has been created.
LEMMA AdvanceOnce == ASSUME Shape, Once, NEW q \in Procs, AdvancePlanNextRun(q) PROVE Once'
<1> DEFINE p == proc[q].plan
           seen == proc[q].seen
           n == Next_(seen.cron, seen.next)
           k == [proc[q] EXCEPT !.pc = "release"]
<1>1. /\ proc[q] \in CallState /\ proc \in [Procs -> CallState] /\ CallOK(q, proc[q], now)
      /\ proc[q].pc = "advance" /\ UNCHANGED <<made, lock>> /\ plan \in [Plans -> PlanRow(Crons)]
  BY CallFacts DEF AdvancePlanNextRun, Shape, TypeOK
<1>2. p \in Plans /\ Holds(q, p) /\ q \in Checkers /\ seen.next \in Nat /\ seen.cron \in Crons
  BY <1>1 DEF CallOK, Holds, Places
<1>3. n \in Nat /\ seen.next < n
  BY <1>2, NextFacts
<1>4. proc' = [proc EXCEPT ![q] = k] /\ k.pc = "release" /\ k.plan = p
  BY <1>1 DEF CallState, AdvancePlanNextRun, Goto
<1> HIDE DEF k, n
<1>5. Locked'
  <2>1. \A u \in Plans : Busy(k, u) => Busy(proc[q], u)
    BY <1>1, <1>4 DEF Busy
  <2> QED
    BY <1>1, <1>4, <2>1, SameLocks
<1>6. /\ proc'[q] = k /\ \A r \in Procs \ {q} : proc'[r] = proc[r]
  BY <1>1, <1>4
<1>7. /\ \A u \in Plans \ {p} : plan'[u].next = plan[u].next
      /\ \/ plan'[p].next = n /\ plan[p].next = seen.next
         \/ plan'[p].next = plan[p].next /\ plan[p].next = Never
  <2>1. CASE plan[p].next = seen.next /\ plan' = [plan EXCEPT ![p].next = n]
    BY <1>1, <1>2, <2>1 DEF PlanRow
  <2>2. CASE UNCHANGED plan /\ ~(plan[p].status # "gone" /\ plan[p].next = seen.next)
    <3>1. plan[p].next \in {Never, seen.next} /\ RowOK(plan[p], backlog[p])
      BY <1>1, <1>2, RowFacts DEF Once, SeenOK
    <3>2. plan[p].next = Never
      BY <2>2, <3>1 DEF RowOK
    <3> QED
      BY <2>2, <3>2
  <2> QED
    BY <2>1, <2>2 DEF AdvancePlanNextRun, n
<1>8. ASSUME NEW u \in Plans, NEW v \in Times, NEW x \in Entries PROVE Counted(u, v, x)'
  <2>1. Counted(u, v, x) /\ UNCHANGED made /\ v \in Int
    BY <1>1 DEF Once, Times
  <2>2. CASE u # p
    <3>1. plan'[u].next = plan[u].next
      BY <1>7, <2>2
    <3>2. \A r \in Procs : Creates(r, u)' <=> Creates(r, u)
      BY <1>4, <1>6, <2>2 DEF Creates
    <3> QED
      BY <2>1, <3>1, <3>2 DEF Counted
  <2>3. CASE u = p /\ plan'[p].next = n /\ plan[p].next = seen.next
    <3>1. plan'[p].next <= v => made[p][v][x] = 0
      <4>1. n <= v => seen.next < v
        BY <1>2, <1>3, <2>1
      <4> QED
        BY <1>2, <2>1, <2>3, <4>1 DEF Counted, Never
    <3>2. /\ plan'[p].next < v => made[p][v][x] = 0
          /\ plan'[p].next = v => made[p][v][x] = 0
      BY <1>3, <2>1, <2>3, <3>1
    <3> QED
      BY <2>1, <2>3, <3>2 DEF Counted
  <2>4. CASE u = p /\ plan'[p].next = Never
    <3>1. v # Never
      <4>1. v \in 0..(MaxTime + Ahead(Checkers))
        BY DEF Times
      <4>2. v # -1
        BY <4>1
      <4> QED
        BY <4>2 DEF Never
    <3> QED
      BY <2>1, <2>4, <3>1 DEF Counted
  <2> QED
    BY <1>7, <2>2, <2>3, <2>4
<1>9. ASSUME NEW r \in Checkers PROVE SeenOK(proc[r])'
  <2>1. r \in Procs /\ SeenOK(proc[r]) /\ CallOK(r, proc[r], now)
    BY CallFacts DEF Once, Procs
  <2>2. CASE r = q
    BY <1>4, <1>6, <2>2 DEF SeenOK
  <2>3. CASE r # q /\ proc[r].pc \in {"entries", "create", "advance"}
    <3>1. proc[r].plan # p /\ proc[r].plan \in Plans
      BY <1>2, <2>1, <2>3, Alone DEF Holds, CallOK
    <3>2. plan'[proc[r].plan].next = plan[proc[r].plan].next /\ proc'[r] = proc[r]
      BY <1>6, <1>7, <2>1, <2>3, <3>1
    <3> QED
      BY <1>1, <2>1, <3>2 DEF SeenOK, Fresh
  <2>4. CASE r # q /\ proc[r].pc \notin {"entries", "create", "advance"}
    BY <1>6, <2>1, <2>4 DEF SeenOK
  <2> QED
    BY <2>2, <2>3, <2>4
<1>10. \A r \in Procs : proc'[r].pc \notin {"resume", "edit"}
  BY <1>4, <1>6 DEF Once
<1> QED
  BY <1>5, <1>8, <1>9, <1>10 DEF Once

\* Without faults and edits, every step
LEMMA NextOnce == Shape /\ OnceInv /\ [Next]_vars => OnceInv'
<1> SUFFICES ASSUME Shape, OnceInv, [Next]_vars, Undisturbed' PROVE Once'
    BY DEF OnceInv
<1>1. faults \in Nat /\ (UNCHANGED faults \/ Fault) /\ UNCHANGED budget
  <2>1. faults \in Nat
    BY ServersFacts DEF Shape, TypeOK
  <2>2. UNCHANGED budget
    BY DEF Next, vars, Step, Tick, ExpireCheck, TryAcquire, ListDue, TakePlan, EndCheck,
           AcquirePlanTriggerLock, Reload, ListEntries, CreateFromPlanEntry, EntriesDone,
           AdvancePlanNextRun, Release, Crash, AdvanceFails, ExpireTrigger, Pause, Delete,
           BacklogTaken, Stall, Execute, Resume, Edit, ResumeWrite, UpdateEditable
  <2>3. UNCHANGED faults \/ Fault
    BY DEF Next, vars, Step, Tick, ExpireCheck, TryAcquire, ListDue, TakePlan, EndCheck,
           AcquirePlanTriggerLock, Reload, ListEntries, CreateFromPlanEntry, EntriesDone,
           AdvancePlanNextRun, Release, Crash, AdvanceFails, ExpireTrigger, Pause, Delete,
           BacklogTaken, Stall, Execute, Resume, Edit, ResumeWrite, UpdateEditable
  <2> QED
    BY <2>1, <2>2, <2>3
<1>2. ~Fault /\ Undisturbed
  BY <1>1 DEF Undisturbed, Fault
<1>3. Once /\ \A q \in Procs : ~ResumeWrite(q) /\ ~UpdateEditable(q)
  BY <1>2 DEF OnceInv, Once, ResumeWrite, UpdateEditable
<1>4. \A q \in Procs, p \in Plans : ~Resume(q, p) /\ ~Edit(q, p)
  BY <1>2 DEF Undisturbed, Resume, Edit, Act
<1>5. CASE UNCHANGED vars
  <2>1. \A q, p : Holds(q, p)' <=> Holds(q, p)
    BY <1>5 DEF vars, Holds
  <2>2. Locked'
    BY <1>3, <1>5, <2>1 DEF vars, Locked, Once
  <2>3. \A q \in Procs : CallOK(q, proc[q], now)
    BY DEF Shape
  <2> QED
    BY <1>3, <1>5, <2>2, <2>3, OutsideOnce DEF vars
<1>6. CASE \/ Tick \/ ExpireCheck
           \/ \E p \in Plans : ExpireTrigger(p) \/ Pause(p) \/ Delete(p) \/ BacklogTaken(p)
  BY <1>3, <1>6, OthersOnce
<1>7. ASSUME NEW q \in Procs,
             TryAcquire(q) \/ Step(q) \/ \E p \in Plans : Execute(q, p)
      PROVE  Once'
  <2>1. CASE \/ TryAcquire(q) \/ ListDue(q) \/ TakePlan(q) \/ EndCheck(q)
             \/ \E p \in Plans : Execute(q, p)
    BY <1>3, <2>1, BeginOnce
  <2>2. CASE AcquirePlanTriggerLock(q) \/ Release(q)
    BY <1>3, <2>2, LockOnce
  <2>3. CASE Reload(q)
    BY <1>3, <2>3, ReloadOnce
  <2>4. CASE ListEntries(q) \/ EntriesDone(q)
    BY <1>3, <2>4, EntriesOnce
  <2>5. CASE \E e \in Entries : CreateFromPlanEntry(q, e)
    BY <1>3, <2>5, CreateOnce
  <2>6. CASE AdvancePlanNextRun(q)
    BY <1>3, <2>6, AdvanceOnce
  <2> QED
    BY <1>3, <1>7, <2>1, <2>2, <2>3, <2>4, <2>5, <2>6 DEF Step
<1>8. \A q, p : ~Crash(q) /\ ~AdvanceFails(q) /\ ~Stall(p)
  BY <1>2 DEF Crash, AdvanceFails, Stall
<1> QED
  BY <1>4, <1>5, <1>6, <1>7, <1>8 DEF Next

\* The inductive invariant
THEOREM Invariance == Spec => []IInv
<1>1. Init => IInv
  BY InitInv DEF IInv
<1>2. IInv /\ [Next]_vars => IInv'
  BY NextShape, NextOnce DEF IInv
<1> QED
  BY <1>1, <1>2, PTL DEF Spec

\* However many servers check and users trigger, pause and delete, and although the checkers'
\* common lock excludes nobody: without crashes an occurrence of a plan creates at most one
\* task per entry.
THEOREM OncePerOccurrence == Spec => []OnceEach
<1>1. IInv => OnceEach
  BY DEF IInv, OnceInv, Once, Counted, Undisturbed, OnceEach
<1> QED
  BY <1>1, Invariance, PTL
=============================================================================
