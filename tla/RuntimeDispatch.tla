--------------------------- MODULE RuntimeDispatch ---------------------------
(***************************************************************************)
(* The dispatch, activation and cleanup of the runtime workload of ONE      *)
(* task execution: the task_executions row, the dispatch workers            *)
(* (TaskService.dispatchCurrentExecution), the cleanup workers              *)
(* (RuntimeReconciler.cleanupExecution, cleanupCancelledExecution), the     *)
(* runtime reconciler, the agent inside the workload and the provider       *)
(* (Docker or Kubernetes).                                                  *)
(*                                                                          *)
(* Each database statement and each provider call is one step, so every     *)
(* interleaving between them happens.  A lease token is the name of the     *)
(* worker slot that wrote it: a slot runs one goroutine at a time, and a    *)
(* new goroutine in a slot holds no token until it claims one.  Time is     *)
(* counted in ticks: the age of the dispatch claim, the time left of a      *)
(* prepare context, and the time a provider request may outlive its caller. *)
(***************************************************************************)
EXTENDS Naturals, FiniteSets

CONSTANTS
  Workers,             \* slots of goroutines running dispatchCurrentExecution
  Cleaners,            \* slots of goroutines running a cleanup
  None,                \* the empty lease token
  Lease,               \* dispatch lease, in ticks
  ProviderLag,         \* ticks a create request may outlive its context
  MaxFaults,           \* bound on failures, crashes and operator actions
  Kubernetes           \* TRUE: Kubernetes provider; FALSE: Docker

\* prepareTimeout := s.runtimeDispatchLease() / 2
PrepareTimeout == Lease \div 2

ASSUME NoneAssumption == None \notin Workers \cup Cleaners
\* The barrier outlives a create that was in flight when its context ended.
ASSUME LeaseAssumption ==
  /\ Lease \in Nat /\ ProviderLag \in Nat /\ MaxFaults \in Nat
  /\ PrepareTimeout + ProviderLag < Lease
ASSUME ProviderAssumption == Kubernetes \in BOOLEAN

VARIABLES
  \* the task_executions row
  status, dispatchToken, claimAge, identity, cleanupStatus, cleanupToken,
  \* the provider: the instance under the execution's deterministic name
  workload, wstate, instances,
  \* dispatch workers: program counter, ticks left of prepareCtx, the instance
  \* Prepare returned, a create still in flight (0: none, n: n - 1 ticks left)
  pc, left, seen, late,
  \* cleanup workers, and the instance each is about to delete
  cpc, cseen,
  \* the reconciler, and the identity in its snapshot of the row
  rpc, rseen,
  \* history: instances that were ever started; failures so far
  ran, faults

row      == <<status, dispatchToken, claimAge, identity, cleanupStatus, cleanupToken>>
provider == <<workload, wstate, instances>>
workers  == <<pc, left, seen, late>>
cleaners == <<cpc, cseen>>
reconciler == <<rpc, rseen>>
vars == <<row, provider, workers, cleaners, reconciler, ran, faults>>

ActiveStatus   == {"created", "dispatching", "starting", "running"}
TerminalStatus == {"succeeded", "failed", "cancelled", "timed_out"}
WorkerPC  == {"idle", "claimed", "reload", "preparing", "permanent", "ambiguous",
              "failing", "prepared", "lost", "check", "activate", "activated",
              "actfailed", "compensate"}
CleanerPC == {"idle", "resolve", "barrier", "inspect", "bind", "delete",
              "complete", "fail", "block"}

terminal == status \in TerminalStatus

\* Faulty variant: the barrier forgets a claim once the execution is terminal.
DispatchClaimActiveWhileDispatching ==
  status = "dispatching" /\ dispatchToken # None /\ claimAge < Lease

\* Repository.DispatchClaimActive
DispatchClaimActive == dispatchToken # None /\ claimAge < Lease

TypeOK ==
  /\ status \in ActiveStatus \cup TerminalStatus
  /\ dispatchToken \in Workers \cup {None}
  /\ claimAge \in 0..Lease
  /\ identity \in Nat
  /\ cleanupStatus \in {"none", "pending", "done", "blocked"}
  /\ cleanupToken \in Cleaners \cup {None}
  /\ workload \in Nat
  /\ wstate \in {"none", "prepared", "running", "exited"}
  /\ instances \in Nat
  /\ pc \in [Workers -> WorkerPC]
  /\ left \in [Workers -> 0..PrepareTimeout]
  /\ seen \in [Workers -> Nat]
  /\ late \in [Workers -> 0..(ProviderLag + 1)]
  /\ cpc \in [Cleaners -> CleanerPC]
  /\ cseen \in [Cleaners -> Nat]
  /\ rpc \in {"idle", "activate", "activation_failed"}
  /\ rseen \in Nat
  /\ ran \in SUBSET Nat
  /\ faults \in 0..MaxFaults

Init ==
  /\ status = "created" /\ dispatchToken = None /\ claimAge = 0 /\ identity = 0
  /\ cleanupStatus = "none" /\ cleanupToken = None
  /\ workload = 0 /\ wstate = "none" /\ instances = 0
  /\ pc = [w \in Workers |-> "idle"] /\ left = [w \in Workers |-> 0]
  /\ seen = [w \in Workers |-> 0] /\ late = [w \in Workers |-> 0]
  /\ cpc = [c \in Cleaners |-> "idle"] /\ cseen = [c \in Cleaners |-> 0]
  /\ rpc = "idle" /\ rseen = 0
  /\ ran = {} /\ faults = 0

-----------------------------------------------------------------------------
(* Building blocks                                                          *)

\* A failure, crash or operator action of the bounded budget.
Fault   == faults < MaxFaults /\ faults' = faults + 1
NoFault == UNCHANGED faults

Go(w, l)  == pc' = [pc EXCEPT ![w] = l]
CGo(c, l) == cpc' = [cpc EXCEPT ![c] = l]

\* Transition(active -> terminal): a terminal status makes the cleanup pending.
Terminalize(s) ==
  /\ status' = s /\ cleanupStatus' = "pending"
  /\ UNCHANGED <<dispatchToken, claimAge, identity, cleanupToken>>

\* The create the provider performs under the execution's deterministic name:
\* an existing workload is found, otherwise a new instance appears.
CreateOrAdopt ==
  \/ workload # 0 /\ UNCHANGED provider
  \/ /\ workload = 0
     /\ instances' = instances + 1 /\ workload' = instances + 1 /\ wstate' = "prepared"

\* dispatcher.Delete: only the instance it was asked for; absent is success.
DeleteWorkload(i) ==
  \/ workload = i /\ workload' = 0 /\ wstate' = "none" /\ UNCHANGED instances
  \/ workload # i /\ UNCHANGED provider

\* dispatcher.Activate: a prepared workload is started; a started one is left
\* alone, which for Kubernetes (the Job is no longer suspended) includes a
\* finished one; a missing, replaced or (Docker) exited one is a permanent error.
Started == IF Kubernetes THEN {"running", "exited"} ELSE {"running"}
StartWorkload(i) ==
  \/ /\ workload = i /\ wstate = "prepared"
     /\ wstate' = "running" /\ ran' = ran \cup {i} /\ UNCHANGED <<workload, instances>>
  \/ workload = i /\ wstate \in Started /\ UNCHANGED <<provider, ran>>
CannotStart(i) ==
  /\ workload # i \/ wstate \notin {"prepared"} \cup Started
  /\ UNCHANGED <<provider, ran>>

-----------------------------------------------------------------------------
(* Faulty variants of the operations below, one slip each                   *)

\* The abandon matches the token and forgets the status.
AbandonDispatchAnyStatus(w) ==
  /\ pc[w] = "reload" /\ dispatchToken = w
  /\ IF left[w] = 0 THEN NoFault ELSE Fault
  /\ Go(w, "idle") /\ left' = [left EXCEPT ![w] = 0]
  /\ status' = "created" /\ dispatchToken' = None /\ claimAge' = 0
  /\ UNCHANGED <<identity, cleanupStatus, cleanupToken, provider, seen, late, cleaners,
                 reconciler, ran>>

\* A failed dispatch is made terminal without a pending cleanup.
FailDispatchWithoutCleanup(w) ==
  /\ pc[w] = "failing" /\ Go(w, "idle")
  /\ status' = IF status = "dispatching" /\ dispatchToken = w THEN "failed" ELSE status
  /\ UNCHANGED <<dispatchToken, claimAge, identity, cleanupStatus, cleanupToken, provider,
                 left, seen, late, cleaners, reconciler, ran, faults>>

\* A claimant that lost the completion activates what it prepared.
ResolveLostByActivating(w) ==
  /\ pc[w] = "lost" /\ Go(w, IF terminal THEN "compensate" ELSE "activate")
  /\ UNCHANGED <<row, provider, left, seen, late, cleaners, reconciler, ran, faults>>

\* A lost workload is dispatched again under the same execution.
ReconcileFailureRequeues ==
  /\ status \in {"starting", "running"} /\ workload = 0
  /\ status' = "created" /\ identity' = 0
  /\ UNCHANGED <<dispatchToken, claimAge, cleanupStatus, cleanupToken, provider, workers,
                 cleaners, reconciler, ran, faults>>

-----------------------------------------------------------------------------
(* Dispatch worker: dispatchCurrentExecution                                *)

ClaimDispatch(w) ==
  /\ pc[w] = "idle"
  /\ status = "created" \/ (status = "dispatching" /\ ~DispatchClaimActive)
  /\ status' = "dispatching" /\ dispatchToken' = w /\ claimAge' = 0
  /\ Go(w, "claimed")
  /\ UNCHANGED <<identity, cleanupStatus, cleanupToken, provider, left, seen, late,
                 cleaners, reconciler, ran, faults>>

\* The first refresh runs under prepareCtx, whose deadline starts here.  The
\* statement matches the token alone, whatever the status.
RefreshDispatchClaim(w) ==
  /\ pc[w] = "claimed"
  /\ \/ /\ dispatchToken = w /\ Go(w, "reload") /\ NoFault
        /\ claimAge' = 0 /\ left' = [left EXCEPT ![w] = PrepareTimeout]
     \/ /\ (dispatchToken # w /\ NoFault) \/ Fault
        /\ Go(w, "idle") /\ UNCHANGED <<claimAge, left>>
  /\ UNCHANGED <<status, dispatchToken, identity, cleanupStatus, cleanupToken, provider,
                 seen, late, cleaners, reconciler, ran>>

\* The reload before Prepare.  It must still see its own claim.
ReloadClaimed(w) ==
  /\ pc[w] = "reload"
  /\ \/ status = "dispatching" /\ dispatchToken = w /\ Go(w, "preparing") /\ UNCHANGED left
     \/ ~(status = "dispatching" /\ dispatchToken = w) /\ Go(w, "idle")
        /\ left' = [left EXCEPT ![w] = 0]
  /\ UNCHANGED <<row, provider, seen, late, cleaners, reconciler, ran, faults>>

\* An unreadable claim (database error, or prepareCtx over) is abandoned.
AbandonDispatch(w) ==
  /\ pc[w] = "reload"
  /\ IF left[w] = 0 THEN NoFault ELSE Fault
  /\ Go(w, "idle") /\ left' = [left EXCEPT ![w] = 0]
  /\ \/ /\ status = "dispatching" /\ dispatchToken = w
        /\ status' = "created" /\ dispatchToken' = None /\ claimAge' = 0
     \/ /\ ~(status = "dispatching" /\ dispatchToken = w)
        /\ UNCHANGED <<status, dispatchToken, claimAge>>
  /\ UNCHANGED <<identity, cleanupStatus, cleanupToken, provider, seen, late, cleaners,
                 reconciler, ran>>

\* Prepare returns the identity of a created or adopted, not yet started
\* workload.  A workload started before its identity was persisted is refused
\* with a permanent error (PrepareFails).
PrepareSucceeds(w) ==
  /\ pc[w] = "preparing" /\ wstate \in {"none", "prepared"}
  /\ CreateOrAdopt
  /\ seen' = [seen EXCEPT ![w] = workload']
  /\ Go(w, "prepared") /\ left' = [left EXCEPT ![w] = 0]
  /\ UNCHANGED <<row, late, cleaners, reconciler, ran, faults>>

\* Prepare returns an error: permanent (the provider refused, or a later part
\* of Prepare failed), or ambiguous.  The workload may exist all the same, and
\* after an ambiguous error the create may still be in flight.
PrepareFails(w) ==
  /\ pc[w] = "preparing"
  /\ IF left[w] = 0 THEN NoFault ELSE Fault
  /\ \E kind \in {"permanent", "ambiguous"} :
       /\ Go(w, kind)
       /\ \/ CreateOrAdopt /\ UNCHANGED late
          \/ UNCHANGED <<provider, late>>
          \/ /\ kind = "ambiguous" /\ late' = [late EXCEPT ![w] = ProviderLag + 1]
             /\ UNCHANGED provider
  /\ left' = [left EXCEPT ![w] = 0]
  /\ UNCHANGED <<row, seen, cleaners, reconciler, ran>>

\* The create in flight lands, or is lost.
LateCreate(w) ==
  /\ late[w] > 0
  /\ CreateOrAdopt \/ UNCHANGED provider
  /\ late' = [late EXCEPT ![w] = 0]
  /\ UNCHANGED <<row, pc, left, seen, cleaners, reconciler, ran, faults>>

\* refreshRuntimeDispatchBarrier after a Prepare error: by token, whatever the
\* status.  Then a permanent error fails the dispatch, an ambiguous one leaves
\* the claim to expire.
RefreshBarrier(w) ==
  /\ pc[w] \in {"permanent", "ambiguous"}
  /\ \/ /\ dispatchToken = w /\ claimAge' = 0 /\ NoFault
        /\ Go(w, IF pc[w] = "permanent" THEN "failing" ELSE "idle")
     \/ ((dispatchToken # w /\ NoFault) \/ Fault) /\ Go(w, "idle") /\ UNCHANGED claimAge
  /\ UNCHANGED <<status, dispatchToken, identity, cleanupStatus, cleanupToken, provider,
                 left, seen, late, cleaners, reconciler, ran>>

\* failDispatch: the token stays in the row, as a barrier for the cleanup.
FailDispatch(w) ==
  /\ pc[w] = "failing" /\ Go(w, "idle")
  /\ \/ status = "dispatching" /\ dispatchToken = w /\ Terminalize("failed")
     \/ ~(status = "dispatching" /\ dispatchToken = w) /\ UNCHANGED row
  /\ UNCHANGED <<provider, left, seen, late, cleaners, reconciler, ran, faults>>

CompleteDispatch(w) ==
  LET won == status = "dispatching" /\ dispatchToken = w /\ identity \in {0, seen[w]}
      Commit == /\ status' = "starting" /\ dispatchToken' = None /\ claimAge' = 0
                /\ identity' = seen[w] /\ UNCHANGED <<cleanupStatus, cleanupToken>>
  IN /\ pc[w] = "prepared"
     /\ \/ won /\ Commit /\ Go(w, "check") /\ NoFault
        \/ ~won /\ UNCHANGED row /\ Go(w, "lost") /\ NoFault
        \* a database error, before or after the update took effect
        \/ Fault /\ ((won /\ Commit) \/ UNCHANGED row) /\ Go(w, "compensate")
     /\ UNCHANGED <<provider, left, seen, late, cleaners, reconciler, ran>>

\* resolveLostDispatchCompletion
ResolveLostDispatchCompletion(w) ==
  /\ pc[w] = "lost"
  /\ \/ /\ Go(w, IF terminal \/ (identity # 0 /\ identity # seen[w])
                 THEN "compensate" ELSE "idle")
        /\ NoFault
     \/ Fault /\ Go(w, "idle")
  /\ UNCHANGED <<row, provider, left, seen, late, cleaners, reconciler, ran>>

\* The reload between CompleteDispatch and Activate.
CheckActivationAuthority(w) ==
  /\ pc[w] = "check"
  /\ \/ status = "starting" /\ identity = seen[w] /\ Go(w, "activate") /\ NoFault
     \/ ~(status = "starting" /\ identity = seen[w]) /\ Go(w, "compensate") /\ NoFault
     \/ Fault /\ Go(w, "compensate")
  /\ UNCHANGED <<row, provider, left, seen, late, cleaners, reconciler, ran>>

\* A transient error takes the same path as success.
Activate(w) ==
  /\ pc[w] = "activate"
  /\ \/ StartWorkload(seen[w]) /\ Go(w, "activated") /\ NoFault
     \/ CannotStart(seen[w]) /\ Go(w, "actfailed") /\ NoFault
     \/ Fault /\ Go(w, "activated") /\ UNCHANGED <<provider, ran>>
     \/ Fault /\ Go(w, "actfailed") /\ UNCHANGED <<provider, ran>>
  /\ UNCHANGED <<row, left, seen, late, cleaners, reconciler>>

\* The reload after Activate: a terminal row compensates; a permanent
\* activation error terminalizes the execution and compensates.
ReloadActivated(w) ==
  /\ \/ /\ pc[w] = "activated" /\ UNCHANGED row /\ NoFault
        /\ Go(w, IF terminal THEN "compensate" ELSE "idle")
     \/ /\ pc[w] = "actfailed" /\ Go(w, "compensate") /\ NoFault
        /\ IF terminal THEN UNCHANGED row ELSE Terminalize("failed")
     \/ pc[w] \in {"activated", "actfailed"} /\ UNCHANGED row /\ Fault /\ Go(w, "idle")
  /\ UNCHANGED <<provider, left, seen, late, cleaners, reconciler, ran>>

\* compensatePreparedRuntime
Compensate(w) ==
  /\ pc[w] = "compensate" /\ Go(w, "idle")
  /\ \/ DeleteWorkload(seen[w]) /\ NoFault
     \/ Fault /\ UNCHANGED provider
  /\ UNCHANGED <<row, left, seen, late, cleaners, reconciler, ran>>

\* The server process dies in the middle; a create may stay in flight.
WorkerCrash(w) ==
  /\ pc[w] # "idle" /\ Fault /\ Go(w, "idle") /\ left' = [left EXCEPT ![w] = 0]
  /\ \/ pc[w] = "preparing" /\ late' = [late EXCEPT ![w] = ProviderLag + 1]
     \/ UNCHANGED late
  /\ UNCHANGED <<row, provider, seen, cleaners, reconciler, ran>>

-----------------------------------------------------------------------------
(* Runtime reconciler, user and agent                                       *)

\* reconcileActive: the active deadline, and the heartbeat timeout of a
\* started execution, terminalize whatever the workload does.
ReconcileDeadline ==
  /\ ~terminal /\ Terminalize("timed_out")
  /\ UNCHANGED <<provider, workers, cleaners, reconciler, ran, faults>>

\* reconcileActive: the workload is missing, or stopped without a completion.
ReconcileFailure ==
  /\ status \in {"starting", "running"}
  /\ workload = 0 \/ (workload = identity /\ wstate = "exited")
  /\ Terminalize("failed")
  /\ UNCHANGED <<provider, workers, cleaners, reconciler, ran, faults>>

\* reconcileActive: a starting execution whose workload is still pending is
\* activated, on the snapshot the reconciler read.
ReconcileInspect ==
  /\ rpc = "idle" /\ status = "starting"
  /\ workload = identity /\ wstate = "prepared"
  /\ rpc' = "activate" /\ rseen' = identity
  /\ UNCHANGED <<row, provider, workers, cleaners, ran, faults>>

ReconcileActivate ==
  /\ rpc = "activate"
  /\ \/ StartWorkload(rseen) /\ rpc' = "idle" /\ NoFault
     \/ CannotStart(rseen) /\ rpc' = "activation_failed" /\ NoFault
     \/ Fault /\ rpc' = "idle" /\ UNCHANGED <<provider, ran>>
  /\ UNCHANGED <<row, workers, cleaners, rseen>>

ReconcileActivationFailed ==
  /\ rpc = "activation_failed" /\ rpc' = "idle"
  /\ IF terminal THEN UNCHANGED row ELSE Terminalize("failed")
  /\ UNCHANGED <<provider, workers, cleaners, rseen, ran, faults>>

\* cancelCloudExecution, and CancelSupersededExecution for a replaced attempt.
Cancel ==
  /\ ~terminal /\ Terminalize("cancelled")
  /\ UNCHANGED <<provider, workers, cleaners, reconciler, ran, faults>>

\* AgentBootstrapService.Bootstrap, called from inside the started workload.
Bootstrap ==
  /\ workload # 0 /\ wstate = "running" /\ status = "starting" /\ identity = workload
  /\ status' = "running"
  /\ UNCHANGED <<dispatchToken, claimAge, identity, cleanupStatus, cleanupToken, provider,
                 workers, cleaners, reconciler, ran, faults>>

\* CompleteCloudExecution.  The callback may arrive after its sender is gone;
\* its token comes from Bootstrap, so the row has left "starting".
CompleteCloudExecution ==
  /\ status = "running" /\ \E s \in {"succeeded", "failed"} : Terminalize(s)
  /\ UNCHANGED <<provider, workers, cleaners, reconciler, ran, faults>>

AgentExit ==
  /\ wstate = "running" /\ wstate' = "exited"
  /\ UNCHANGED <<row, workload, instances, workers, cleaners, reconciler, ran, faults>>

\* The provider loses the workload (eviction, manual removal).
WorkloadLost ==
  /\ workload # 0 /\ Fault /\ workload' = 0 /\ wstate' = "none"
  /\ UNCHANGED <<row, instances, workers, cleaners, reconciler, ran>>

-----------------------------------------------------------------------------
(* Cleanup worker: cleanupExecution, cleanupCancelledExecution and           *)
(* ResolveExecutionCleanupRuntime                                            *)

\* A cleanup lease may be claimed when it is free, when its owner is gone, or
\* when it expired under a slow owner.
ClaimCleanup(c) ==
  /\ cpc[c] = "idle" /\ cleanupStatus = "pending"
  /\ IF \A d \in Cleaners : cleanupToken = d => cpc[d] = "idle" THEN NoFault ELSE Fault
  /\ cleanupToken' = c /\ CGo(c, "resolve")
  /\ UNCHANGED <<status, dispatchToken, claimAge, identity, cleanupStatus, provider, workers,
                 cseen, reconciler, ran>>

OwnsCleanup(c) == cleanupStatus = "pending" /\ cleanupToken = c

\* The row is read once; a complete identity needs no barrier.
ResolveCleanup(c) ==
  /\ cpc[c] = "resolve"
  /\ \/ ~OwnsCleanup(c) /\ CGo(c, "fail") /\ UNCHANGED cseen
     \/ OwnsCleanup(c) /\ identity # 0 /\ CGo(c, "delete") /\ cseen' = [cseen EXCEPT ![c] = identity]
     \/ OwnsCleanup(c) /\ identity = 0 /\ CGo(c, "barrier") /\ UNCHANGED cseen
  /\ UNCHANGED <<row, provider, workers, reconciler, ran, faults>>

\* ErrRuntimePreparationInFlight while a dispatch claim may still be creating.
CheckBarrier(c) ==
  /\ cpc[c] = "barrier"
  /\ CGo(c, IF DispatchClaimActive THEN "fail" ELSE "inspect")
  /\ UNCHANGED <<row, provider, workers, cseen, reconciler, ran, faults>>

\* ResolvePrepared: Kubernetes without a frozen namespace cannot take a 404 as
\* proof of absence, so it blocks.
ResolvePrepared(c) ==
  /\ cpc[c] = "inspect"
  /\ \/ workload # 0 /\ CGo(c, "bind") /\ cseen' = [cseen EXCEPT ![c] = workload] /\ NoFault
     \/ /\ workload = 0 /\ CGo(c, IF Kubernetes THEN "block" ELSE "complete")
        /\ UNCHANGED cseen /\ NoFault
     \/ Fault /\ CGo(c, "fail") /\ UNCHANGED cseen
  /\ UNCHANGED <<row, provider, workers, reconciler, ran>>

SetCleanupRuntimeIdentity(c) ==
  /\ cpc[c] = "bind"
  /\ IF OwnsCleanup(c) /\ identity \in {0, cseen[c]}
     THEN identity' = cseen[c] /\ CGo(c, "delete")
     ELSE CGo(c, IF OwnsCleanup(c) THEN "block" ELSE "fail") /\ UNCHANGED identity
  /\ UNCHANGED <<status, dispatchToken, claimAge, cleanupStatus, cleanupToken, provider,
                 workers, cseen, reconciler, ran, faults>>

DeleteRuntime(c) ==
  /\ cpc[c] = "delete"
  /\ \/ /\ DeleteWorkload(cseen[c]) /\ NoFault
        /\ CGo(c, IF workload \in {0, cseen[c]} THEN "complete" ELSE "block")
     \/ Fault /\ CGo(c, "fail") /\ UNCHANGED provider
     \/ Fault /\ CGo(c, "block") /\ UNCHANGED provider
  /\ UNCHANGED <<row, workers, cseen, reconciler, ran>>

\* CompleteCleanup also clears the dispatch token.
CompleteCleanup(c) ==
  /\ cpc[c] = "complete" /\ CGo(c, "idle")
  /\ \/ /\ OwnsCleanup(c)
        /\ cleanupStatus' = "done" /\ cleanupToken' = None
        /\ dispatchToken' = None /\ claimAge' = 0 /\ UNCHANGED <<status, identity>>
     \/ ~OwnsCleanup(c) /\ UNCHANGED row
  /\ UNCHANGED <<provider, workers, cseen, reconciler, ran, faults>>

\* FailCleanup (retried after a backoff) and BlockCleanup (left to an operator).
\* Both give the lease back, as the deferred ReleaseCleanup would.
EndCleanup(c) ==
  /\ cpc[c] \in {"fail", "block"} /\ CGo(c, "idle")
  /\ \/ /\ OwnsCleanup(c) /\ cleanupToken' = None
        /\ cleanupStatus' = IF cpc[c] = "block" THEN "blocked" ELSE "pending"
        /\ UNCHANGED <<status, dispatchToken, claimAge, identity>>
     \/ ~OwnsCleanup(c) /\ UNCHANGED row
  /\ UNCHANGED <<provider, workers, cseen, reconciler, ran, faults>>

CleanerCrash(c) ==
  /\ cpc[c] # "idle" /\ Fault /\ CGo(c, "idle")
  /\ UNCHANGED <<row, provider, workers, cseen, reconciler, ran>>

\* An operator reopens a blocked cleanup.
ReopenBlockedCleanup ==
  /\ cleanupStatus = "blocked" /\ Fault
  /\ cleanupStatus' = "pending" /\ cleanupToken' = None
  /\ UNCHANGED <<status, dispatchToken, claimAge, identity, provider, workers, cleaners,
                 reconciler, ran>>

-----------------------------------------------------------------------------
(* Time: a context is over, and a create in flight has landed or is lost,   *)
(* before the clock passes its bound.                                       *)

Tick ==
  /\ \A w \in Workers : /\ pc[w] \in {"reload", "preparing"} => left[w] > 0
                        /\ late[w] # 1
  /\ left' = [w \in Workers |-> IF left[w] > 0 THEN left[w] - 1 ELSE 0]
  /\ late' = [w \in Workers |-> IF late[w] > 0 THEN late[w] - 1 ELSE 0]
  /\ claimAge' = IF dispatchToken # None /\ claimAge < Lease THEN claimAge + 1 ELSE claimAge
  /\ UNCHANGED <<status, dispatchToken, identity, cleanupStatus, cleanupToken, provider,
                 pc, seen, cleaners, reconciler, ran, faults>>

-----------------------------------------------------------------------------
WorkerStep(w) ==
  \/ RefreshDispatchClaim(w) \/ ReloadClaimed(w) \/ AbandonDispatch(w)
  \/ PrepareSucceeds(w) \/ PrepareFails(w) \/ RefreshBarrier(w) \/ FailDispatch(w)
  \/ CompleteDispatch(w) \/ ResolveLostDispatchCompletion(w)
  \/ CheckActivationAuthority(w) \/ Activate(w) \/ ReloadActivated(w) \/ Compensate(w)

CleanerStep(c) ==
  \/ ResolveCleanup(c) \/ CheckBarrier(c) \/ ResolvePrepared(c)
  \/ SetCleanupRuntimeIdentity(c) \/ DeleteRuntime(c) \/ CompleteCleanup(c) \/ EndCleanup(c)

ReconcilerStep ==
  \/ ReconcileFailure \/ ReconcileInspect \/ ReconcileActivate \/ ReconcileActivationFailed

Next ==
  \/ \E w \in Workers : ClaimDispatch(w) \/ WorkerStep(w) \/ LateCreate(w) \/ WorkerCrash(w)
  \/ \E c \in Cleaners : ClaimCleanup(c) \/ CleanerStep(c) \/ CleanerCrash(c)
  \/ ReconcilerStep \/ ReconcileDeadline
  \/ Cancel \/ Bootstrap \/ CompleteCloudExecution \/ AgentExit \/ WorkloadLost
  \/ ReopenBlockedCleanup \/ Tick

Spec == Init /\ [][Next]_vars

(***************************************************************************)
(* Fairness: goroutines that run go on, the clock advances, the reconciler  *)
(* loop (RuntimeReconciler.Run) keeps scanning, so an execution past its    *)
(* deadline is timed out and a pending cleanup is claimed.  Nothing is      *)
(* assumed of the user, the agent or the operator.                          *)
(***************************************************************************)
FairSpec ==
  /\ Spec
  /\ \A w \in Workers : WF_vars(WorkerStep(w)) /\ WF_vars(LateCreate(w))
  /\ \A c \in Cleaners : WF_vars(CleanerStep(c)) /\ WF_vars(ClaimCleanup(c))
  /\ WF_vars(ReconcilerStep) /\ WF_vars(ReconcileDeadline) /\ WF_vars(Tick)
-----------------------------------------------------------------------------
(* Properties                                                               *)

\* A worker that may still make the provider create a workload.
MayCreate(w) == pc[w] = "preparing" \/ late[w] > 0

\* Once a cleanup is recorded as done (CompleteCleanup) the provider holds no
\* workload of the execution, and no late create can bring one back: the
\* dispatch claim is a barrier that outlives every preparation.
NoWorkloadAfterCleanup == cleanupStatus = "done" => workload = 0

\* A workload that was started is the one whose identity the row holds:
\* dispatchCurrentExecution and the reconciler never start an instance before
\* CompleteDispatch made it authoritative.
StartedWorkloadIsAuthoritative ==
  wstate \in {"running", "exited"} => workload # 0 /\ workload = identity

\* The claim lease of ClaimDispatch/RefreshDispatchClaim admits at most one
\* worker, or abandoned provider request, that can still create a workload.
PreparationExclusive ==
  \A v, w \in Workers : MayCreate(v) /\ MayCreate(w) => v = w

\* Once the row holds an identity no other instance exists under the
\* execution's name, so cleanup can delete by identity without the barrier.
IdentityIsUnique == identity # 0 => workload \in {0, identity}

RowStaysFinal ==
  /\ terminal => status' = status
  /\ identity # 0 => identity' = identity
  /\ cleanupStatus = "done" => cleanupStatus' = "done"

\* A terminal status and a persisted identity are final, and a finished
\* cleanup is never reopened, whatever stale worker writes next.
RowIsFinal == [][RowStaysFinal]_vars

\* The runtime lifecycle implements the one-shot promise.
OneShot == INSTANCE OneShotRuntime WITH
  started <- ran, alive <- (wstate = "running"), closed <- (cleanupStatus = "done")
ImplementsOneShot == OneShot!ASpec

\* Every execution is terminal in the end, and its cleanup done or left to an
\* operator: no lease, crash or lost reply leaves a workload behind unnoticed.
EventuallyCleaned == <>[](cleanupStatus \in {"done", "blocked"})

\* A dispatch worker never compensates (deletes) the workload of an execution
\* that is active under that workload's identity.
CompensationSparesAuthoritativeWorkload ==
  \A w \in Workers : pc[w] = "compensate" =>
    ~(status \in {"starting", "running"} /\ identity = seen[w] /\ workload = seen[w])
=============================================================================
