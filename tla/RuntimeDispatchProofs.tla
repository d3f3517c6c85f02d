------------------------ MODULE RuntimeDispatchProofs ------------------------
(***************************************************************************)
(* Proofs about RuntimeDispatch, for any number of dispatch and cleanup     *)
(* workers, any lease and any number of failures.  The argument is a lease  *)
(* argument: whoever can still make the provider create a workload holds a  *)
(* dispatch claim that is younger than the lease (ClaimInv); a cleanup past *)
(* its barrier, and a row with an identity, therefore see a quiet provider  *)
(* (QuietInv), and from then on the workload under the execution's name can *)
(* only be stopped and deleted (ProviderInv).                               *)
(***************************************************************************)
EXTENDS RuntimeDispatch, ExecutionFinalization, TLAPS

\* No worker and no request in flight can create a workload.
Quiet == \A w \in Workers : ~MayCreate(w)

\* How the columns of the row go together.
RowInv ==
  /\ status = "created" => dispatchToken = None
  /\ status \in {"created", "dispatching"} => identity = 0
  /\ cleanupStatus = "none" <=> ~terminal

\* A worker inside prepareCtx, or a request in flight, owns the claim, and the
\* claim is younger than the lease by what the worker or request has left.
ClaimInv ==
  \A w \in Workers :
    /\ pc[w] = "reload" /\ dispatchToken = w => claimAge + left[w] <= PrepareTimeout
    /\ pc[w] = "preparing" => dispatchToken = w /\ claimAge + left[w] <= PrepareTimeout
    /\ late[w] > 0 => /\ pc[w] \in {"idle", "ambiguous"} /\ dispatchToken = w
                      /\ claimAge + late[w] <= PrepareTimeout + ProviderLag + 1

\* Who may rely on a quiet provider.
QuietInv ==
  /\ identity # 0 => Quiet
  /\ cleanupStatus = "done" => Quiet
  /\ \A c \in Cleaners :
       /\ cpc[c] # "idle" => terminal
       /\ cpc[c] \in {"inspect", "bind", "delete", "complete"} => Quiet

\* The workload, and what workers, cleaners and reconciler know about it.
ProviderInv ==
  /\ wstate = "none" <=> workload = 0
  /\ workload <= instances
  /\ identity # 0 => workload \in {0, identity}
  /\ wstate \in {"running", "exited"} => workload = identity
  /\ wstate = "prepared" => workload \notin ran
  /\ ran \subseteq {identity} \ {0}
  /\ \A i \in ran : i <= instances
  /\ rpc = "activate" => rseen = identity /\ identity # 0
  /\ cleanupStatus = "done" => workload = 0
  /\ \A w \in Workers :
       /\ pc[w] \in {"prepared", "check"} => seen[w] # 0
       /\ pc[w] = "prepared" /\ status = "dispatching" /\ dispatchToken = w
            => workload \in {0, seen[w]}
       /\ pc[w] = "activate" => seen[w] = identity /\ identity # 0
  /\ \A c \in Cleaners :
       /\ cpc[c] = "bind" => cseen[c] # 0 /\ workload \in {0, cseen[c]}
       /\ cpc[c] = "complete" => workload = 0

ClaimsInv == TypeOK /\ RowInv /\ ClaimInv /\ QuietInv
RuntimeInv == ClaimsInv /\ ProviderInv

-----------------------------------------------------------------------------
\* What the proofs need of the constants.
LEMMA Timing ==
  /\ PrepareTimeout \in Nat /\ ProviderLag \in Nat /\ Lease \in Nat /\ MaxFaults \in Nat
  /\ PrepareTimeout + ProviderLag < Lease
  BY LeaseAssumption DEF PrepareTimeout

\* The initial state has its type.
LEMMA TypeInit == Init => TypeOK
  BY Timing DEF Init, TypeOK, ActiveStatus, TerminalStatus, WorkerPC, CleanerPC

\* Activate keeps the types of the provider's variables.
LEMMA StartTyped ==
  ASSUME TypeOK, NEW i \in Nat, StartWorkload(i) \/ CannotStart(i)
  PROVE  /\ wstate' \in {"none", "prepared", "running", "exited"}
         /\ workload' \in Nat /\ instances' \in Nat /\ ran' \in SUBSET Nat
  BY DEF TypeOK, StartWorkload, CannotStart, provider

\* Every step keeps the types.
LEMMA TypeStep == TypeOK /\ [Next]_vars => TypeOK'
<1> SUFFICES ASSUME TypeOK, [Next]_vars PROVE TypeOK' OBVIOUS
<1> USE Timing, NoneAssumption
<1>1. ASSUME NEW w \in Workers, ClaimDispatch(w) PROVE TypeOK'
  BY <1>1 DEF ClaimDispatch, Go, DispatchClaimActive, TypeOK, ActiveStatus, TerminalStatus,
        WorkerPC, CleanerPC, row, provider, workers, cleaners, reconciler
<1>2. ASSUME NEW w \in Workers, RefreshDispatchClaim(w) PROVE TypeOK'
  BY <1>2 DEF RefreshDispatchClaim, Go, Fault, NoFault, TypeOK, ActiveStatus,
        TerminalStatus, WorkerPC, CleanerPC, row, provider, workers, cleaners, reconciler
<1>3. ASSUME NEW w \in Workers, ReloadClaimed(w) PROVE TypeOK'
  BY <1>3 DEF ReloadClaimed, Go, TypeOK, ActiveStatus, TerminalStatus, WorkerPC, CleanerPC,
        row, provider, workers, cleaners, reconciler
<1>4. ASSUME NEW w \in Workers, AbandonDispatch(w) PROVE TypeOK'
  BY <1>4 DEF AbandonDispatch, Go, Fault, NoFault, TypeOK, ActiveStatus, TerminalStatus,
        WorkerPC, CleanerPC, row, provider, workers, cleaners, reconciler
<1>5. ASSUME NEW w \in Workers, PrepareSucceeds(w) PROVE TypeOK'
  BY <1>5 DEF PrepareSucceeds, Go, CreateOrAdopt, TypeOK, ActiveStatus, TerminalStatus,
        WorkerPC, CleanerPC, row, provider, workers, cleaners, reconciler
<1>6. ASSUME NEW w \in Workers, PrepareFails(w) PROVE TypeOK'
  BY <1>6 DEF PrepareFails, Go, CreateOrAdopt, Fault, NoFault, TypeOK, ActiveStatus,
        TerminalStatus, WorkerPC, CleanerPC, row, provider, workers, cleaners, reconciler
<1>7. ASSUME NEW w \in Workers, RefreshBarrier(w) PROVE TypeOK'
  BY <1>7 DEF RefreshBarrier, Go, Fault, NoFault, TypeOK, ActiveStatus, TerminalStatus,
        WorkerPC, CleanerPC, row, provider, workers, cleaners, reconciler
<1>8. ASSUME NEW w \in Workers, FailDispatch(w) PROVE TypeOK'
  BY <1>8 DEF FailDispatch, Go, Terminalize, TypeOK, ActiveStatus, TerminalStatus, WorkerPC,
        CleanerPC, row, provider, workers, cleaners, reconciler
<1>9. ASSUME NEW w \in Workers, CompleteDispatch(w) PROVE TypeOK'
  BY <1>9 DEF CompleteDispatch, Go, Fault, NoFault, TypeOK, ActiveStatus, TerminalStatus,
        WorkerPC, CleanerPC, row, provider, workers, cleaners, reconciler
<1>10. ASSUME NEW w \in Workers, ResolveLostDispatchCompletion(w) PROVE TypeOK'
  BY <1>10 DEF ResolveLostDispatchCompletion, Go, Fault, NoFault, terminal, TypeOK,
        ActiveStatus, TerminalStatus, WorkerPC, CleanerPC, row, provider, workers, cleaners,
        reconciler
<1>11. ASSUME NEW w \in Workers, CheckActivationAuthority(w) PROVE TypeOK'
  BY <1>11 DEF CheckActivationAuthority, Go, Fault, NoFault, TypeOK, ActiveStatus,
        TerminalStatus, WorkerPC, CleanerPC, row, provider, workers, cleaners, reconciler
<1>12. ASSUME NEW w \in Workers, Activate(w) PROVE TypeOK'
  <2>1. seen[w] \in Nat  BY <1>12 DEF TypeOK
  <2>2. /\ wstate' \in {"none", "prepared", "running", "exited"}
        /\ workload' \in Nat /\ instances' \in Nat /\ ran' \in SUBSET Nat
    BY <1>12, <2>1, StartTyped DEF Activate, TypeOK, provider
  <2>3. pc' \in [Workers -> WorkerPC] /\ faults' \in 0..MaxFaults
    BY <1>12 DEF Activate, TypeOK, Go, WorkerPC, Fault, NoFault
  <2>4. QED  BY <1>12, <2>2, <2>3 DEF Activate, TypeOK, row, cleaners, reconciler
<1>13. ASSUME NEW w \in Workers, ReloadActivated(w) PROVE TypeOK'
  BY <1>13 DEF ReloadActivated, Go, Fault, NoFault, Terminalize, terminal, TypeOK,
        ActiveStatus, TerminalStatus, WorkerPC, CleanerPC, row, provider, workers, cleaners,
        reconciler
<1>14. ASSUME NEW w \in Workers, Compensate(w) PROVE TypeOK'
  BY <1>14 DEF Compensate, Go, Fault, NoFault, DeleteWorkload, TypeOK, ActiveStatus,
        TerminalStatus, WorkerPC, CleanerPC, row, provider, workers, cleaners, reconciler
<1>15. ASSUME NEW w \in Workers, LateCreate(w) PROVE TypeOK'
  BY <1>15 DEF LateCreate, CreateOrAdopt, TypeOK, ActiveStatus, TerminalStatus, WorkerPC,
        CleanerPC, row, provider, workers, cleaners, reconciler
<1>16. ASSUME NEW w \in Workers, WorkerCrash(w) PROVE TypeOK'
  BY <1>16 DEF WorkerCrash, Go, Fault, TypeOK, ActiveStatus, TerminalStatus, WorkerPC,
        CleanerPC, row, provider, workers, cleaners, reconciler
<1>17. ASSUME NEW c \in Cleaners, ClaimCleanup(c) PROVE TypeOK'
  BY <1>17 DEF ClaimCleanup, CGo, Fault, NoFault, TypeOK, ActiveStatus, TerminalStatus,
        WorkerPC, CleanerPC, row, provider, workers, cleaners, reconciler
<1>18. ASSUME NEW c \in Cleaners, ResolveCleanup(c) PROVE TypeOK'
  BY <1>18 DEF ResolveCleanup, CGo, OwnsCleanup, TypeOK, ActiveStatus, TerminalStatus,
        WorkerPC, CleanerPC, row, provider, workers, cleaners, reconciler
<1>19. ASSUME NEW c \in Cleaners, CheckBarrier(c) PROVE TypeOK'
  BY <1>19 DEF CheckBarrier, CGo, DispatchClaimActive, TypeOK, ActiveStatus, TerminalStatus,
        WorkerPC, CleanerPC, row, provider, workers, cleaners, reconciler
<1>20. ASSUME NEW c \in Cleaners, ResolvePrepared(c) PROVE TypeOK'
  BY <1>20 DEF ResolvePrepared, CGo, Fault, NoFault, TypeOK, ActiveStatus, TerminalStatus,
        WorkerPC, CleanerPC, row, provider, workers, cleaners, reconciler
<1>21. ASSUME NEW c \in Cleaners, SetCleanupRuntimeIdentity(c) PROVE TypeOK'
  BY <1>21 DEF SetCleanupRuntimeIdentity, CGo, OwnsCleanup, TypeOK, ActiveStatus,
        TerminalStatus, WorkerPC, CleanerPC, row, provider, workers, cleaners, reconciler
<1>22. ASSUME NEW c \in Cleaners, DeleteRuntime(c) PROVE TypeOK'
  BY <1>22 DEF DeleteRuntime, CGo, Fault, NoFault, DeleteWorkload, TypeOK, ActiveStatus,
        TerminalStatus, WorkerPC, CleanerPC, row, provider, workers, cleaners, reconciler
<1>23. ASSUME NEW c \in Cleaners, CompleteCleanup(c) PROVE TypeOK'
  BY <1>23 DEF CompleteCleanup, CGo, OwnsCleanup, TypeOK, ActiveStatus, TerminalStatus,
        WorkerPC, CleanerPC, row, provider, workers, cleaners, reconciler
<1>24. ASSUME NEW c \in Cleaners, EndCleanup(c) PROVE TypeOK'
  BY <1>24 DEF EndCleanup, CGo, OwnsCleanup, TypeOK, ActiveStatus, TerminalStatus, WorkerPC,
        CleanerPC, row, provider, workers, cleaners, reconciler
<1>25. ASSUME NEW c \in Cleaners, CleanerCrash(c) PROVE TypeOK'
  BY <1>25 DEF CleanerCrash, CGo, Fault, TypeOK, ActiveStatus, TerminalStatus, WorkerPC,
        CleanerPC, row, provider, workers, cleaners, reconciler
<1>26. CASE ReconcileFailure
  BY <1>26 DEF ReconcileFailure, Terminalize, TypeOK, ActiveStatus, TerminalStatus,
        WorkerPC, CleanerPC, row, provider, workers, cleaners, reconciler
<1>27. CASE ReconcileInspect
  BY <1>27 DEF ReconcileInspect, TypeOK, ActiveStatus, TerminalStatus, WorkerPC, CleanerPC,
        row, provider, workers, cleaners, reconciler
<1>28. CASE ReconcileActivate
  <2>1. /\ wstate' \in {"none", "prepared", "running", "exited"}
        /\ workload' \in Nat /\ instances' \in Nat /\ ran' \in SUBSET Nat
    BY <1>28, StartTyped DEF ReconcileActivate, TypeOK, provider
  <2>2. rpc' \in {"idle", "activate", "activation_failed"} /\ faults' \in 0..MaxFaults
    BY <1>28 DEF ReconcileActivate, TypeOK, Fault, NoFault
  <2>3. QED  BY <1>28, <2>1, <2>2 DEF ReconcileActivate, TypeOK, row, workers, cleaners
<1>29. CASE ReconcileActivationFailed
  BY <1>29 DEF ReconcileActivationFailed, Terminalize, terminal, TypeOK, ActiveStatus,
        TerminalStatus, WorkerPC, CleanerPC, row, provider, workers, cleaners, reconciler
<1>30. CASE ReconcileDeadline
  BY <1>30 DEF ReconcileDeadline, Terminalize, terminal, TypeOK, ActiveStatus,
        TerminalStatus, WorkerPC, CleanerPC, row, provider, workers, cleaners, reconciler
<1>31. CASE Cancel
  BY <1>31 DEF Cancel, Terminalize, terminal, TypeOK, ActiveStatus, TerminalStatus,
        WorkerPC, CleanerPC, row, provider, workers, cleaners, reconciler
<1>32. CASE Bootstrap
  BY <1>32 DEF Bootstrap, TypeOK, ActiveStatus, TerminalStatus, WorkerPC, CleanerPC, row,
        provider, workers, cleaners, reconciler
<1>33. CASE CompleteCloudExecution
  BY <1>33 DEF CompleteCloudExecution, Terminalize, TypeOK, ActiveStatus, TerminalStatus,
        WorkerPC, CleanerPC, row, provider, workers, cleaners, reconciler
<1>34. CASE AgentExit
  BY <1>34 DEF AgentExit, TypeOK, ActiveStatus, TerminalStatus, WorkerPC, CleanerPC, row,
        provider, workers, cleaners, reconciler
<1>35. CASE WorkloadLost
  BY <1>35 DEF WorkloadLost, Fault, TypeOK, ActiveStatus, TerminalStatus, WorkerPC,
        CleanerPC, row, provider, workers, cleaners, reconciler
<1>36. CASE ReopenBlockedCleanup
  BY <1>36 DEF ReopenBlockedCleanup, Fault, TypeOK, ActiveStatus, TerminalStatus, WorkerPC,
        CleanerPC, row, provider, workers, cleaners, reconciler
<1>37. CASE Tick
  BY <1>37 DEF Tick, TypeOK, ActiveStatus, TerminalStatus, WorkerPC, CleanerPC, row,
        provider, workers, cleaners, reconciler
<1>38. CASE UNCHANGED vars
  BY <1>38 DEF vars, TypeOK, ActiveStatus, TerminalStatus, WorkerPC, CleanerPC, row,
        provider, workers, cleaners, reconciler
<1>39. QED
  BY <1>1, <1>2, <1>3, <1>4, <1>5, <1>6, <1>7, <1>8, <1>9, <1>10, <1>11, <1>12,
        <1>13, <1>14, <1>15, <1>16, <1>17, <1>18, <1>19, <1>20, <1>21, <1>22, <1>23, <1>24,
        <1>25, <1>26, <1>27, <1>28, <1>29, <1>30, <1>31, <1>32, <1>33, <1>34, <1>35, <1>36,
        <1>37, <1>38
     DEF Next, WorkerStep, CleanerStep, ReconcilerStep

\* The state of the model always has its type.
THEOREM TypeCorrect == Spec => []TypeOK
  BY TypeInit, TypeStep, PTL DEF Spec

-----------------------------------------------------------------------------
\* The initial state satisfies the lease argument.
LEMMA ClaimsInit == Init => ClaimsInv
  BY TypeInit, Timing, NoneAssumption
     DEF Init, ClaimsInv, RowInv, ClaimInv, QuietInv, Quiet, MayCreate, terminal, TerminalStatus

\* Every step keeps the lease argument.
LEMMA ClaimsStep == ClaimsInv /\ [Next]_vars => ClaimsInv'
<1> SUFFICES ASSUME ClaimsInv, [Next]_vars PROVE ClaimsInv' OBVIOUS
<1>0. TypeOK' BY TypeStep DEF ClaimsInv
<1> USE Timing, NoneAssumption
<1>1. ASSUME NEW w \in Workers, ClaimDispatch(w) PROVE ClaimsInv'
  BY <1>1, <1>0 DEF ClaimDispatch, Go, DispatchClaimActive, ClaimsInv, TypeOK, RowInv,
        ClaimInv, QuietInv, Quiet, MayCreate, terminal, TerminalStatus, row, provider,
        workers, cleaners, reconciler
<1>2. ASSUME NEW w \in Workers, RefreshDispatchClaim(w) PROVE ClaimsInv'
  BY <1>2, <1>0 DEF RefreshDispatchClaim, Go, Fault, NoFault, ClaimsInv, TypeOK, RowInv,
        ClaimInv, QuietInv, Quiet, MayCreate, terminal, TerminalStatus, row, provider,
        workers, cleaners, reconciler
<1>3. ASSUME NEW w \in Workers, ReloadClaimed(w) PROVE ClaimsInv'
  BY <1>3, <1>0 DEF ReloadClaimed, Go, ClaimsInv, TypeOK, RowInv, ClaimInv, QuietInv, Quiet,
        MayCreate, terminal, TerminalStatus, row, provider, workers, cleaners, reconciler
<1>4. ASSUME NEW w \in Workers, AbandonDispatch(w) PROVE ClaimsInv'
  <2> USE <1>4, <1>0 DEF AbandonDispatch, Go, row, cleaners
  <2>1. RowInv'
    BY DEF ClaimsInv, TypeOK, RowInv, terminal, TerminalStatus
  <2>2. \A v \in Workers : MayCreate(v) => dispatchToken = v /\ v # w
    BY DEF ClaimsInv, TypeOK, ClaimInv, MayCreate
  <2>3. \A v \in Workers : MayCreate(v)' => MayCreate(v)
    BY DEF ClaimsInv, TypeOK, MayCreate
  <2>4. ClaimInv'
    BY <2>2, <2>3 DEF ClaimsInv, TypeOK, ClaimInv, MayCreate
  <2>5. QuietInv'
    BY <2>3 DEF ClaimsInv, TypeOK, RowInv, QuietInv, Quiet, terminal, TerminalStatus
  <2>6. QED  BY <2>1, <2>4, <2>5 DEF ClaimsInv
<1>5. ASSUME NEW w \in Workers, PrepareSucceeds(w) PROVE ClaimsInv'
  BY <1>5, <1>0 DEF PrepareSucceeds, Go, CreateOrAdopt, ClaimsInv, TypeOK, RowInv, ClaimInv,
        QuietInv, Quiet, MayCreate, terminal, TerminalStatus, row, provider, workers,
        cleaners, reconciler
<1>6. ASSUME NEW w \in Workers, PrepareFails(w) PROVE ClaimsInv'
  BY <1>6, <1>0 DEF PrepareFails, Go, CreateOrAdopt, Fault, NoFault, ClaimsInv, TypeOK,
        RowInv, ClaimInv, QuietInv, Quiet, MayCreate, terminal, TerminalStatus, row,
        provider, workers, cleaners, reconciler
<1>7. ASSUME NEW w \in Workers, RefreshBarrier(w) PROVE ClaimsInv'
  BY <1>7, <1>0 DEF RefreshBarrier, Go, Fault, NoFault, ClaimsInv, TypeOK, RowInv, ClaimInv,
        QuietInv, Quiet, MayCreate, terminal, TerminalStatus, row, provider, workers,
        cleaners, reconciler
<1>8. ASSUME NEW w \in Workers, FailDispatch(w) PROVE ClaimsInv'
  BY <1>8, <1>0 DEF FailDispatch, Go, Terminalize, ClaimsInv, TypeOK, RowInv, ClaimInv,
        QuietInv, Quiet, MayCreate, terminal, TerminalStatus, row, provider, workers,
        cleaners, reconciler
<1>9. ASSUME NEW w \in Workers, CompleteDispatch(w) PROVE ClaimsInv'
  BY <1>9, <1>0 DEF CompleteDispatch, Go, Fault, NoFault, ClaimsInv, TypeOK, RowInv,
        ClaimInv, QuietInv, Quiet, MayCreate, terminal, TerminalStatus, row, provider,
        workers, cleaners, reconciler
<1>10. ASSUME NEW w \in Workers, ResolveLostDispatchCompletion(w) PROVE ClaimsInv'
  BY <1>10, <1>0 DEF ResolveLostDispatchCompletion, Go, Fault, NoFault, terminal, ClaimsInv,
        TypeOK, RowInv, ClaimInv, QuietInv, Quiet, MayCreate, TerminalStatus, row, provider,
        workers, cleaners, reconciler
<1>11. ASSUME NEW w \in Workers, CheckActivationAuthority(w) PROVE ClaimsInv'
  BY <1>11, <1>0 DEF CheckActivationAuthority, Go, Fault, NoFault, ClaimsInv, TypeOK,
        RowInv, ClaimInv, QuietInv, Quiet, MayCreate, terminal, TerminalStatus, row,
        provider, workers, cleaners, reconciler
<1>12. ASSUME NEW w \in Workers, Activate(w) PROVE ClaimsInv'
  BY <1>12, <1>0 DEF Activate, Go, Fault, NoFault, StartWorkload, CannotStart, ClaimsInv,
        TypeOK, RowInv, ClaimInv, QuietInv, Quiet, MayCreate, terminal, TerminalStatus, row,
        provider, workers, cleaners, reconciler
<1>13. ASSUME NEW w \in Workers, ReloadActivated(w) PROVE ClaimsInv'
  BY <1>13, <1>0 DEF ReloadActivated, Go, Fault, NoFault, Terminalize, terminal, ClaimsInv,
        TypeOK, RowInv, ClaimInv, QuietInv, Quiet, MayCreate, TerminalStatus, row, provider,
        workers, cleaners, reconciler
<1>14. ASSUME NEW w \in Workers, Compensate(w) PROVE ClaimsInv'
  BY <1>14, <1>0 DEF Compensate, Go, Fault, NoFault, DeleteWorkload, ClaimsInv, TypeOK,
        RowInv, ClaimInv, QuietInv, Quiet, MayCreate, terminal, TerminalStatus, row,
        provider, workers, cleaners, reconciler
<1>15. ASSUME NEW w \in Workers, LateCreate(w) PROVE ClaimsInv'
  BY <1>15, <1>0 DEF LateCreate, CreateOrAdopt, ClaimsInv, TypeOK, RowInv, ClaimInv,
        QuietInv, Quiet, MayCreate, terminal, TerminalStatus, row, provider, workers,
        cleaners, reconciler
<1>16. ASSUME NEW w \in Workers, WorkerCrash(w) PROVE ClaimsInv'
  BY <1>16, <1>0 DEF WorkerCrash, Go, Fault, ClaimsInv, TypeOK, RowInv, ClaimInv, QuietInv,
        Quiet, MayCreate, terminal, TerminalStatus, row, provider, workers, cleaners,
        reconciler
<1>17. ASSUME NEW c \in Cleaners, ClaimCleanup(c) PROVE ClaimsInv'
  BY <1>17, <1>0 DEF ClaimCleanup, CGo, Fault, NoFault, ClaimsInv, TypeOK, RowInv, ClaimInv,
        QuietInv, Quiet, MayCreate, terminal, TerminalStatus, row, provider, workers,
        cleaners, reconciler
<1>18. ASSUME NEW c \in Cleaners, ResolveCleanup(c) PROVE ClaimsInv'
  BY <1>18, <1>0 DEF ResolveCleanup, CGo, OwnsCleanup, ClaimsInv, TypeOK, RowInv, ClaimInv,
        QuietInv, Quiet, MayCreate, terminal, TerminalStatus, row, provider, workers,
        cleaners, reconciler
<1>19. ASSUME NEW c \in Cleaners, CheckBarrier(c) PROVE ClaimsInv'
  BY <1>19, <1>0 DEF CheckBarrier, CGo, DispatchClaimActive, ClaimsInv, TypeOK, RowInv,
        ClaimInv, QuietInv, Quiet, MayCreate, terminal, TerminalStatus, row, provider,
        workers, cleaners, reconciler
<1>20. ASSUME NEW c \in Cleaners, ResolvePrepared(c) PROVE ClaimsInv'
  BY <1>20, <1>0 DEF ResolvePrepared, CGo, Fault, NoFault, ClaimsInv, TypeOK, RowInv,
        ClaimInv, QuietInv, Quiet, MayCreate, terminal, TerminalStatus, row, provider,
        workers, cleaners, reconciler
<1>21. ASSUME NEW c \in Cleaners, SetCleanupRuntimeIdentity(c) PROVE ClaimsInv'
  BY <1>21, <1>0 DEF SetCleanupRuntimeIdentity, CGo, OwnsCleanup, ClaimsInv, TypeOK, RowInv,
        ClaimInv, QuietInv, Quiet, MayCreate, terminal, TerminalStatus, row, provider,
        workers, cleaners, reconciler
<1>22. ASSUME NEW c \in Cleaners, DeleteRuntime(c) PROVE ClaimsInv'
  BY <1>22, <1>0 DEF DeleteRuntime, CGo, Fault, NoFault, DeleteWorkload, ClaimsInv, TypeOK,
        RowInv, ClaimInv, QuietInv, Quiet, MayCreate, terminal, TerminalStatus, row,
        provider, workers, cleaners, reconciler
<1>23. ASSUME NEW c \in Cleaners, CompleteCleanup(c) PROVE ClaimsInv'
  BY <1>23, <1>0 DEF CompleteCleanup, CGo, OwnsCleanup, ClaimsInv, TypeOK, RowInv, ClaimInv,
        QuietInv, Quiet, MayCreate, terminal, TerminalStatus, row, provider, workers,
        cleaners, reconciler
<1>24. ASSUME NEW c \in Cleaners, EndCleanup(c) PROVE ClaimsInv'
  BY <1>24, <1>0 DEF EndCleanup, CGo, OwnsCleanup, ClaimsInv, TypeOK, RowInv, ClaimInv,
        QuietInv, Quiet, MayCreate, terminal, TerminalStatus, row, provider, workers,
        cleaners, reconciler
<1>25. ASSUME NEW c \in Cleaners, CleanerCrash(c) PROVE ClaimsInv'
  BY <1>25, <1>0 DEF CleanerCrash, CGo, Fault, ClaimsInv, TypeOK, RowInv, ClaimInv,
        QuietInv, Quiet, MayCreate, terminal, TerminalStatus, row, provider, workers,
        cleaners, reconciler
<1>26. CASE ReconcileFailure
  BY <1>26, <1>0 DEF ReconcileFailure, Terminalize, ClaimsInv, TypeOK, RowInv, ClaimInv,
        QuietInv, Quiet, MayCreate, terminal, TerminalStatus, row, provider, workers,
        cleaners, reconciler
<1>27. CASE ReconcileInspect
  BY <1>27, <1>0 DEF ReconcileInspect, ClaimsInv, TypeOK, RowInv, ClaimInv, QuietInv, Quiet,
        MayCreate, terminal, TerminalStatus, row, provider, workers, cleaners, reconciler
<1>28. CASE ReconcileActivate
  BY <1>28, <1>0 DEF ReconcileActivate, Fault, NoFault, StartWorkload, CannotStart,
        ClaimsInv, TypeOK, RowInv, ClaimInv, QuietInv, Quiet, MayCreate, terminal,
        TerminalStatus, row, provider, workers, cleaners, reconciler
<1>29. CASE ReconcileActivationFailed
  BY <1>29, <1>0 DEF ReconcileActivationFailed, Terminalize, terminal, ClaimsInv, TypeOK,
        RowInv, ClaimInv, QuietInv, Quiet, MayCreate, TerminalStatus, row, provider,
        workers, cleaners, reconciler
<1>30. CASE ReconcileDeadline
  BY <1>30, <1>0 DEF ReconcileDeadline, Terminalize, terminal, ClaimsInv, TypeOK, RowInv,
        ClaimInv, QuietInv, Quiet, MayCreate, TerminalStatus, row, provider, workers,
        cleaners, reconciler
<1>31. CASE Cancel
  BY <1>31, <1>0 DEF Cancel, Terminalize, terminal, ClaimsInv, TypeOK, RowInv, ClaimInv,
        QuietInv, Quiet, MayCreate, TerminalStatus, row, provider, workers, cleaners,
        reconciler
<1>32. CASE Bootstrap
  BY <1>32, <1>0 DEF Bootstrap, ClaimsInv, TypeOK, RowInv, ClaimInv, QuietInv, Quiet,
        MayCreate, terminal, TerminalStatus, row, provider, workers, cleaners, reconciler
<1>33. CASE CompleteCloudExecution
  BY <1>33, <1>0 DEF CompleteCloudExecution, Terminalize, ClaimsInv, TypeOK, RowInv,
        ClaimInv, QuietInv, Quiet, MayCreate, terminal, TerminalStatus, row, provider,
        workers, cleaners, reconciler
<1>34. CASE AgentExit
  BY <1>34, <1>0 DEF AgentExit, ClaimsInv, TypeOK, RowInv, ClaimInv, QuietInv, Quiet,
        MayCreate, terminal, TerminalStatus, row, provider, workers, cleaners, reconciler
<1>35. CASE WorkloadLost
  BY <1>35, <1>0 DEF WorkloadLost, Fault, ClaimsInv, TypeOK, RowInv, ClaimInv, QuietInv,
        Quiet, MayCreate, terminal, TerminalStatus, row, provider, workers, cleaners,
        reconciler
<1>36. CASE ReopenBlockedCleanup
  BY <1>36, <1>0 DEF ReopenBlockedCleanup, Fault, ClaimsInv, TypeOK, RowInv, ClaimInv,
        QuietInv, Quiet, MayCreate, terminal, TerminalStatus, row, provider, workers,
        cleaners, reconciler
<1>37. CASE Tick
  BY <1>37, <1>0 DEF Tick, ClaimsInv, TypeOK, RowInv, ClaimInv, QuietInv, Quiet, MayCreate,
        terminal, TerminalStatus, row, provider, workers, cleaners, reconciler
<1>38. CASE UNCHANGED vars
  BY <1>38, <1>0 DEF vars, ClaimsInv, TypeOK, RowInv, ClaimInv, QuietInv, Quiet, MayCreate,
        terminal, TerminalStatus, row, provider, workers, cleaners, reconciler
<1>39. QED
  BY <1>1, <1>2, <1>3, <1>4, <1>5, <1>6, <1>7, <1>8, <1>9, <1>10, <1>11, <1>12,
        <1>13, <1>14, <1>15, <1>16, <1>17, <1>18, <1>19, <1>20, <1>21, <1>22, <1>23, <1>24,
        <1>25, <1>26, <1>27, <1>28, <1>29, <1>30, <1>31, <1>32, <1>33, <1>34, <1>35, <1>36,
        <1>37, <1>38
     DEF Next, WorkerStep, CleanerStep, ReconcilerStep

-----------------------------------------------------------------------------
\* The initial state satisfies the invariant.
LEMMA RuntimeInit == Init => RuntimeInv
  BY ClaimsInit DEF Init, RuntimeInv, ProviderInv

\* Every step keeps what is known about the workload.
LEMMA ProviderStep == RuntimeInv /\ [Next]_vars => ProviderInv'
<1> SUFFICES ASSUME RuntimeInv, [Next]_vars PROVE ProviderInv' OBVIOUS
<1>0. TypeOK' BY TypeStep DEF RuntimeInv, ClaimsInv
<1> USE NoneAssumption
<1>1. ASSUME NEW w \in Workers, ClaimDispatch(w) PROVE ProviderInv'
  BY <1>1, <1>0 DEF ClaimDispatch, Go, DispatchClaimActive, RuntimeInv, ProviderInv,
        ClaimsInv, TypeOK, RowInv, ClaimInv, QuietInv, Quiet, MayCreate, terminal,
        TerminalStatus, row, provider, workers, cleaners, reconciler
<1>2. ASSUME NEW w \in Workers, RefreshDispatchClaim(w) PROVE ProviderInv'
  BY <1>2, <1>0 DEF RefreshDispatchClaim, Go, Fault, NoFault, RuntimeInv, ProviderInv,
        ClaimsInv, TypeOK, RowInv, ClaimInv, QuietInv, Quiet, MayCreate, terminal,
        TerminalStatus, row, provider, workers, cleaners, reconciler
<1>3. ASSUME NEW w \in Workers, ReloadClaimed(w) PROVE ProviderInv'
  BY <1>3, <1>0 DEF ReloadClaimed, Go, RuntimeInv, ProviderInv, ClaimsInv, TypeOK, RowInv,
        ClaimInv, QuietInv, Quiet, MayCreate, terminal, TerminalStatus, row, provider,
        workers, cleaners, reconciler
<1>4. ASSUME NEW w \in Workers, AbandonDispatch(w) PROVE ProviderInv'
  BY <1>4, <1>0 DEF AbandonDispatch, Go, Fault, NoFault, RuntimeInv, ProviderInv, ClaimsInv,
        TypeOK, RowInv, ClaimInv, QuietInv, Quiet, MayCreate, terminal, TerminalStatus, row,
        provider, workers, cleaners, reconciler
<1>5. ASSUME NEW w \in Workers, PrepareSucceeds(w) PROVE ProviderInv'
  BY <1>5, <1>0 DEF PrepareSucceeds, Go, CreateOrAdopt, RuntimeInv, ProviderInv, ClaimsInv,
        TypeOK, RowInv, ClaimInv, QuietInv, Quiet, MayCreate, terminal, TerminalStatus, row,
        provider, workers, cleaners, reconciler
<1>6. ASSUME NEW w \in Workers, PrepareFails(w) PROVE ProviderInv'
  BY <1>6, <1>0 DEF PrepareFails, Go, CreateOrAdopt, Fault, NoFault, RuntimeInv,
        ProviderInv, ClaimsInv, TypeOK, RowInv, ClaimInv, QuietInv, Quiet, MayCreate,
        terminal, TerminalStatus, row, provider, workers, cleaners, reconciler
<1>7. ASSUME NEW w \in Workers, RefreshBarrier(w) PROVE ProviderInv'
  BY <1>7, <1>0 DEF RefreshBarrier, Go, Fault, NoFault, RuntimeInv, ProviderInv, ClaimsInv,
        TypeOK, RowInv, ClaimInv, QuietInv, Quiet, MayCreate, terminal, TerminalStatus, row,
        provider, workers, cleaners, reconciler
<1>8. ASSUME NEW w \in Workers, FailDispatch(w) PROVE ProviderInv'
  BY <1>8, <1>0 DEF FailDispatch, Go, Terminalize, RuntimeInv, ProviderInv, ClaimsInv,
        TypeOK, RowInv, ClaimInv, QuietInv, Quiet, MayCreate, terminal, TerminalStatus, row,
        provider, workers, cleaners, reconciler
<1>9. ASSUME NEW w \in Workers, CompleteDispatch(w) PROVE ProviderInv'
  BY <1>9, <1>0 DEF CompleteDispatch, Go, Fault, NoFault, RuntimeInv, ProviderInv,
        ClaimsInv, TypeOK, RowInv, ClaimInv, QuietInv, Quiet, MayCreate, terminal,
        TerminalStatus, row, provider, workers, cleaners, reconciler
<1>10. ASSUME NEW w \in Workers, ResolveLostDispatchCompletion(w) PROVE ProviderInv'
  BY <1>10, <1>0 DEF ResolveLostDispatchCompletion, Go, Fault, NoFault, terminal,
        RuntimeInv, ProviderInv, ClaimsInv, TypeOK, RowInv, ClaimInv, QuietInv, Quiet,
        MayCreate, TerminalStatus, row, provider, workers, cleaners, reconciler
<1>11. ASSUME NEW w \in Workers, CheckActivationAuthority(w) PROVE ProviderInv'
  BY <1>11, <1>0 DEF CheckActivationAuthority, Go, Fault, NoFault, RuntimeInv, ProviderInv,
        ClaimsInv, TypeOK, RowInv, ClaimInv, QuietInv, Quiet, MayCreate, terminal,
        TerminalStatus, row, provider, workers, cleaners, reconciler
<1>12. ASSUME NEW w \in Workers, Activate(w) PROVE ProviderInv'
  BY <1>12, <1>0 DEF Activate, Go, Fault, NoFault, StartWorkload, CannotStart, RuntimeInv,
        ProviderInv, ClaimsInv, TypeOK, RowInv, ClaimInv, QuietInv, Quiet, MayCreate,
        terminal, TerminalStatus, row, provider, workers, cleaners, reconciler
<1>13. ASSUME NEW w \in Workers, ReloadActivated(w) PROVE ProviderInv'
  BY <1>13, <1>0 DEF ReloadActivated, Go, Fault, NoFault, Terminalize, terminal, RuntimeInv,
        ProviderInv, ClaimsInv, TypeOK, RowInv, ClaimInv, QuietInv, Quiet, MayCreate,
        TerminalStatus, row, provider, workers, cleaners, reconciler
<1>14. ASSUME NEW w \in Workers, Compensate(w) PROVE ProviderInv'
  BY <1>14, <1>0 DEF Compensate, Go, Fault, NoFault, DeleteWorkload, RuntimeInv,
        ProviderInv, ClaimsInv, TypeOK, RowInv, ClaimInv, QuietInv, Quiet, MayCreate,
        terminal, TerminalStatus, row, provider, workers, cleaners, reconciler
<1>15. ASSUME NEW w \in Workers, LateCreate(w) PROVE ProviderInv'
  BY <1>15, <1>0 DEF LateCreate, CreateOrAdopt, RuntimeInv, ProviderInv, ClaimsInv, TypeOK,
        RowInv, ClaimInv, QuietInv, Quiet, MayCreate, terminal, TerminalStatus, row,
        provider, workers, cleaners, reconciler
<1>16. ASSUME NEW w \in Workers, WorkerCrash(w) PROVE ProviderInv'
  BY <1>16, <1>0 DEF WorkerCrash, Go, Fault, RuntimeInv, ProviderInv, ClaimsInv, TypeOK,
        RowInv, ClaimInv, QuietInv, Quiet, MayCreate, terminal, TerminalStatus, row,
        provider, workers, cleaners, reconciler
<1>17. ASSUME NEW c \in Cleaners, ClaimCleanup(c) PROVE ProviderInv'
  BY <1>17, <1>0 DEF ClaimCleanup, CGo, Fault, NoFault, RuntimeInv, ProviderInv, ClaimsInv,
        TypeOK, RowInv, ClaimInv, QuietInv, Quiet, MayCreate, terminal, TerminalStatus, row,
        provider, workers, cleaners, reconciler
<1>18. ASSUME NEW c \in Cleaners, ResolveCleanup(c) PROVE ProviderInv'
  BY <1>18, <1>0 DEF ResolveCleanup, CGo, OwnsCleanup, RuntimeInv, ProviderInv, ClaimsInv,
        TypeOK, RowInv, ClaimInv, QuietInv, Quiet, MayCreate, terminal, TerminalStatus, row,
        provider, workers, cleaners, reconciler
<1>19. ASSUME NEW c \in Cleaners, CheckBarrier(c) PROVE ProviderInv'
  BY <1>19, <1>0 DEF CheckBarrier, CGo, DispatchClaimActive, RuntimeInv, ProviderInv,
        ClaimsInv, TypeOK, RowInv, ClaimInv, QuietInv, Quiet, MayCreate, terminal,
        TerminalStatus, row, provider, workers, cleaners, reconciler
<1>20. ASSUME NEW c \in Cleaners, ResolvePrepared(c) PROVE ProviderInv'
  BY <1>20, <1>0 DEF ResolvePrepared, CGo, Fault, NoFault, RuntimeInv, ProviderInv,
        ClaimsInv, TypeOK, RowInv, ClaimInv, QuietInv, Quiet, MayCreate, terminal,
        TerminalStatus, row, provider, workers, cleaners, reconciler
<1>21. ASSUME NEW c \in Cleaners, SetCleanupRuntimeIdentity(c) PROVE ProviderInv'
  BY <1>21, <1>0 DEF SetCleanupRuntimeIdentity, CGo, OwnsCleanup, RuntimeInv, ProviderInv,
        ClaimsInv, TypeOK, RowInv, ClaimInv, QuietInv, Quiet, MayCreate, terminal,
        TerminalStatus, row, provider, workers, cleaners, reconciler
<1>22. ASSUME NEW c \in Cleaners, DeleteRuntime(c) PROVE ProviderInv'
  BY <1>22, <1>0 DEF DeleteRuntime, CGo, Fault, NoFault, DeleteWorkload, RuntimeInv,
        ProviderInv, ClaimsInv, TypeOK, RowInv, ClaimInv, QuietInv, Quiet, MayCreate,
        terminal, TerminalStatus, row, provider, workers, cleaners, reconciler
<1>23. ASSUME NEW c \in Cleaners, CompleteCleanup(c) PROVE ProviderInv'
  BY <1>23, <1>0 DEF CompleteCleanup, CGo, OwnsCleanup, RuntimeInv, ProviderInv, ClaimsInv,
        TypeOK, RowInv, ClaimInv, QuietInv, Quiet, MayCreate, terminal, TerminalStatus, row,
        provider, workers, cleaners, reconciler
<1>24. ASSUME NEW c \in Cleaners, EndCleanup(c) PROVE ProviderInv'
  BY <1>24, <1>0 DEF EndCleanup, CGo, OwnsCleanup, RuntimeInv, ProviderInv, ClaimsInv,
        TypeOK, RowInv, ClaimInv, QuietInv, Quiet, MayCreate, terminal, TerminalStatus, row,
        provider, workers, cleaners, reconciler
<1>25. ASSUME NEW c \in Cleaners, CleanerCrash(c) PROVE ProviderInv'
  BY <1>25, <1>0 DEF CleanerCrash, CGo, Fault, RuntimeInv, ProviderInv, ClaimsInv, TypeOK,
        RowInv, ClaimInv, QuietInv, Quiet, MayCreate, terminal, TerminalStatus, row,
        provider, workers, cleaners, reconciler
<1>26. CASE ReconcileFailure
  BY <1>26, <1>0 DEF ReconcileFailure, Terminalize, RuntimeInv, ProviderInv, ClaimsInv,
        TypeOK, RowInv, ClaimInv, QuietInv, Quiet, MayCreate, terminal, TerminalStatus, row,
        provider, workers, cleaners, reconciler
<1>27. CASE ReconcileInspect
  BY <1>27, <1>0 DEF ReconcileInspect, RuntimeInv, ProviderInv, ClaimsInv, TypeOK, RowInv,
        ClaimInv, QuietInv, Quiet, MayCreate, terminal, TerminalStatus, row, provider,
        workers, cleaners, reconciler
<1>28. CASE ReconcileActivate
  BY <1>28, <1>0 DEF ReconcileActivate, Fault, NoFault, StartWorkload, CannotStart,
        RuntimeInv, ProviderInv, ClaimsInv, TypeOK, RowInv, ClaimInv, QuietInv, Quiet,
        MayCreate, terminal, TerminalStatus, row, provider, workers, cleaners, reconciler
<1>29. CASE ReconcileActivationFailed
  BY <1>29, <1>0 DEF ReconcileActivationFailed, Terminalize, terminal, RuntimeInv,
        ProviderInv, ClaimsInv, TypeOK, RowInv, ClaimInv, QuietInv, Quiet, MayCreate,
        TerminalStatus, row, provider, workers, cleaners, reconciler
<1>30. CASE ReconcileDeadline
  BY <1>30, <1>0 DEF ReconcileDeadline, Terminalize, terminal, RuntimeInv, ProviderInv,
        ClaimsInv, TypeOK, RowInv, ClaimInv, QuietInv, Quiet, MayCreate, TerminalStatus,
        row, provider, workers, cleaners, reconciler
<1>31. CASE Cancel
  BY <1>31, <1>0 DEF Cancel, Terminalize, terminal, RuntimeInv, ProviderInv, ClaimsInv,
        TypeOK, RowInv, ClaimInv, QuietInv, Quiet, MayCreate, TerminalStatus, row, provider,
        workers, cleaners, reconciler
<1>32. CASE Bootstrap
  BY <1>32, <1>0 DEF Bootstrap, RuntimeInv, ProviderInv, ClaimsInv, TypeOK, RowInv,
        ClaimInv, QuietInv, Quiet, MayCreate, terminal, TerminalStatus, row, provider,
        workers, cleaners, reconciler
<1>33. CASE CompleteCloudExecution
  BY <1>33, <1>0 DEF CompleteCloudExecution, Terminalize, RuntimeInv, ProviderInv,
        ClaimsInv, TypeOK, RowInv, ClaimInv, QuietInv, Quiet, MayCreate, terminal,
        TerminalStatus, row, provider, workers, cleaners, reconciler
<1>34. CASE AgentExit
  BY <1>34, <1>0 DEF AgentExit, RuntimeInv, ProviderInv, ClaimsInv, TypeOK, RowInv,
        ClaimInv, QuietInv, Quiet, MayCreate, terminal, TerminalStatus, row, provider,
        workers, cleaners, reconciler
<1>35. CASE WorkloadLost
  BY <1>35, <1>0 DEF WorkloadLost, Fault, RuntimeInv, ProviderInv, ClaimsInv, TypeOK,
        RowInv, ClaimInv, QuietInv, Quiet, MayCreate, terminal, TerminalStatus, row,
        provider, workers, cleaners, reconciler
<1>36. CASE ReopenBlockedCleanup
  BY <1>36, <1>0 DEF ReopenBlockedCleanup, Fault, RuntimeInv, ProviderInv, ClaimsInv,
        TypeOK, RowInv, ClaimInv, QuietInv, Quiet, MayCreate, terminal, TerminalStatus, row,
        provider, workers, cleaners, reconciler
<1>37. CASE Tick
  BY <1>37, <1>0 DEF Tick, RuntimeInv, ProviderInv, ClaimsInv, TypeOK, RowInv, ClaimInv,
        QuietInv, Quiet, MayCreate, terminal, TerminalStatus, row, provider, workers,
        cleaners, reconciler
<1>38. CASE UNCHANGED vars
  BY <1>38, <1>0 DEF vars, RuntimeInv, ProviderInv, ClaimsInv, TypeOK, RowInv, ClaimInv,
        QuietInv, Quiet, MayCreate, terminal, TerminalStatus, row, provider, workers,
        cleaners, reconciler
<1>39. QED
  BY <1>1, <1>2, <1>3, <1>4, <1>5, <1>6, <1>7, <1>8, <1>9, <1>10, <1>11, <1>12,
        <1>13, <1>14, <1>15, <1>16, <1>17, <1>18, <1>19, <1>20, <1>21, <1>22, <1>23, <1>24,
        <1>25, <1>26, <1>27, <1>28, <1>29, <1>30, <1>31, <1>32, <1>33, <1>34, <1>35, <1>36,
        <1>37, <1>38
     DEF Next, WorkerStep, CleanerStep, ReconcilerStep

\* The inductive invariant holds in every reachable state.
LEMMA RuntimeInvariant == Spec => []RuntimeInv
<1>1. RuntimeInv /\ [Next]_vars => RuntimeInv'
  BY ClaimsStep, ProviderStep DEF RuntimeInv
<1>2. QED  BY RuntimeInit, <1>1, PTL DEF Spec

\* A cleanup recorded as done leaves no workload behind, whatever dispatch
\* workers and provider requests were in flight (CompleteCleanup).
THEOREM CleanupIsComplete == Spec => []NoWorkloadAfterCleanup
<1>1. RuntimeInv => NoWorkloadAfterCleanup
  BY DEF RuntimeInv, ProviderInv, NoWorkloadAfterCleanup
<1>2. QED  BY RuntimeInvariant, <1>1, PTL

\* Only the instance the row names is ever started.
THEOREM OnlyTheAuthoritativeIsStarted == Spec => []StartedWorkloadIsAuthoritative
<1>1. RuntimeInv => StartedWorkloadIsAuthoritative
  BY DEF RuntimeInv, ProviderInv, StartedWorkloadIsAuthoritative
<1>2. QED  BY RuntimeInvariant, <1>1, PTL

\* At most one worker or request can create a workload at any time.
THEOREM PreparationIsExclusive == Spec => []PreparationExclusive
<1>1. RuntimeInv => PreparationExclusive
  BY DEF RuntimeInv, ClaimsInv, ClaimInv, MayCreate, PreparationExclusive
<1>2. QED  BY RuntimeInvariant, <1>1, PTL

\* Once the row holds an identity, no other instance exists.
THEOREM IdentityExcludesOthers == Spec => []IdentityIsUnique
<1>1. RuntimeInv => IdentityIsUnique
  BY DEF RuntimeInv, ProviderInv, IdentityIsUnique
<1>2. QED  BY RuntimeInvariant, <1>1, PTL

-----------------------------------------------------------------------------
\* No step takes back a terminal status, an identity or a finished cleanup.
LEMMA FinalStep == RuntimeInv /\ [Next]_vars => RowStaysFinal
<1> SUFFICES ASSUME RuntimeInv, [Next]_vars PROVE RowStaysFinal OBVIOUS
<1> USE NoneAssumption
<1>1. ASSUME NEW w \in Workers, ClaimDispatch(w) PROVE RowStaysFinal
  BY <1>1 DEF ClaimDispatch, Go, DispatchClaimActive, RowStaysFinal, RuntimeInv,
        ProviderInv, ClaimsInv, RowInv, QuietInv, terminal, TerminalStatus, row, provider,
        workers, cleaners, reconciler
<1>2. ASSUME NEW w \in Workers, RefreshDispatchClaim(w) PROVE RowStaysFinal
  BY <1>2 DEF RefreshDispatchClaim, Go, Fault, NoFault, RowStaysFinal, RuntimeInv,
        ProviderInv, ClaimsInv, RowInv, QuietInv, terminal, TerminalStatus, row, provider,
        workers, cleaners, reconciler
<1>3. ASSUME NEW w \in Workers, ReloadClaimed(w) PROVE RowStaysFinal
  BY <1>3 DEF ReloadClaimed, Go, RowStaysFinal, RuntimeInv, ProviderInv, ClaimsInv, RowInv,
        QuietInv, terminal, TerminalStatus, row, provider, workers, cleaners, reconciler
<1>4. ASSUME NEW w \in Workers, AbandonDispatch(w) PROVE RowStaysFinal
  BY <1>4 DEF AbandonDispatch, Go, Fault, NoFault, RowStaysFinal, RuntimeInv, ProviderInv,
        ClaimsInv, RowInv, QuietInv, terminal, TerminalStatus, row, provider, workers,
        cleaners, reconciler
<1>5. ASSUME NEW w \in Workers, PrepareSucceeds(w) PROVE RowStaysFinal
  BY <1>5 DEF PrepareSucceeds, Go, CreateOrAdopt, RowStaysFinal, RuntimeInv, ProviderInv,
        ClaimsInv, RowInv, QuietInv, terminal, TerminalStatus, row, provider, workers,
        cleaners, reconciler
<1>6. ASSUME NEW w \in Workers, PrepareFails(w) PROVE RowStaysFinal
  BY <1>6 DEF PrepareFails, Go, CreateOrAdopt, Fault, NoFault, RowStaysFinal, RuntimeInv,
        ProviderInv, ClaimsInv, RowInv, QuietInv, terminal, TerminalStatus, row, provider,
        workers, cleaners, reconciler
<1>7. ASSUME NEW w \in Workers, RefreshBarrier(w) PROVE RowStaysFinal
  BY <1>7 DEF RefreshBarrier, Go, Fault, NoFault, RowStaysFinal, RuntimeInv, ProviderInv,
        ClaimsInv, RowInv, QuietInv, terminal, TerminalStatus, row, provider, workers,
        cleaners, reconciler
<1>8. ASSUME NEW w \in Workers, FailDispatch(w) PROVE RowStaysFinal
  BY <1>8 DEF FailDispatch, Go, Terminalize, RowStaysFinal, RuntimeInv, ProviderInv,
        ClaimsInv, RowInv, QuietInv, terminal, TerminalStatus, row, provider, workers,
        cleaners, reconciler
<1>9. ASSUME NEW w \in Workers, CompleteDispatch(w) PROVE RowStaysFinal
  BY <1>9 DEF CompleteDispatch, Go, Fault, NoFault, RowStaysFinal, RuntimeInv, ProviderInv,
        ClaimsInv, RowInv, QuietInv, terminal, TerminalStatus, row, provider, workers,
        cleaners, reconciler
<1>10. ASSUME NEW w \in Workers, ResolveLostDispatchCompletion(w) PROVE RowStaysFinal
  BY <1>10 DEF ResolveLostDispatchCompletion, Go, Fault, NoFault, terminal, RowStaysFinal,
        RuntimeInv, ProviderInv, ClaimsInv, RowInv, QuietInv, TerminalStatus, row, provider,
        workers, cleaners, reconciler
<1>11. ASSUME NEW w \in Workers, CheckActivationAuthority(w) PROVE RowStaysFinal
  BY <1>11 DEF CheckActivationAuthority, Go, Fault, NoFault, RowStaysFinal, RuntimeInv,
        ProviderInv, ClaimsInv, RowInv, QuietInv, terminal, TerminalStatus, row, provider,
        workers, cleaners, reconciler
<1>12. ASSUME NEW w \in Workers, Activate(w) PROVE RowStaysFinal
  BY <1>12 DEF Activate, Go, Fault, NoFault, StartWorkload, CannotStart, RowStaysFinal,
        RuntimeInv, ProviderInv, ClaimsInv, RowInv, QuietInv, terminal, TerminalStatus, row,
        provider, workers, cleaners, reconciler
<1>13. ASSUME NEW w \in Workers, ReloadActivated(w) PROVE RowStaysFinal
  BY <1>13 DEF ReloadActivated, Go, Fault, NoFault, Terminalize, terminal, RowStaysFinal,
        RuntimeInv, ProviderInv, ClaimsInv, RowInv, QuietInv, TerminalStatus, row, provider,
        workers, cleaners, reconciler
<1>14. ASSUME NEW w \in Workers, Compensate(w) PROVE RowStaysFinal
  BY <1>14 DEF Compensate, Go, Fault, NoFault, DeleteWorkload, RowStaysFinal, RuntimeInv,
        ProviderInv, ClaimsInv, RowInv, QuietInv, terminal, TerminalStatus, row, provider,
        workers, cleaners, reconciler
<1>15. ASSUME NEW w \in Workers, LateCreate(w) PROVE RowStaysFinal
  BY <1>15 DEF LateCreate, CreateOrAdopt, RowStaysFinal, RuntimeInv, ProviderInv, ClaimsInv,
        RowInv, QuietInv, terminal, TerminalStatus, row, provider, workers, cleaners,
        reconciler
<1>16. ASSUME NEW w \in Workers, WorkerCrash(w) PROVE RowStaysFinal
  BY <1>16 DEF WorkerCrash, Go, Fault, RowStaysFinal, RuntimeInv, ProviderInv, ClaimsInv,
        RowInv, QuietInv, terminal, TerminalStatus, row, provider, workers, cleaners,
        reconciler
<1>17. ASSUME NEW c \in Cleaners, ClaimCleanup(c) PROVE RowStaysFinal
  BY <1>17 DEF ClaimCleanup, CGo, Fault, NoFault, RowStaysFinal, RuntimeInv, ProviderInv,
        ClaimsInv, RowInv, QuietInv, terminal, TerminalStatus, row, provider, workers,
        cleaners, reconciler
<1>18. ASSUME NEW c \in Cleaners, ResolveCleanup(c) PROVE RowStaysFinal
  BY <1>18 DEF ResolveCleanup, CGo, OwnsCleanup, RowStaysFinal, RuntimeInv, ProviderInv,
        ClaimsInv, RowInv, QuietInv, terminal, TerminalStatus, row, provider, workers,
        cleaners, reconciler
<1>19. ASSUME NEW c \in Cleaners, CheckBarrier(c) PROVE RowStaysFinal
  BY <1>19 DEF CheckBarrier, CGo, DispatchClaimActive, RowStaysFinal, RuntimeInv,
        ProviderInv, ClaimsInv, RowInv, QuietInv, terminal, TerminalStatus, row, provider,
        workers, cleaners, reconciler
<1>20. ASSUME NEW c \in Cleaners, ResolvePrepared(c) PROVE RowStaysFinal
  BY <1>20 DEF ResolvePrepared, CGo, Fault, NoFault, RowStaysFinal, RuntimeInv, ProviderInv,
        ClaimsInv, RowInv, QuietInv, terminal, TerminalStatus, row, provider, workers,
        cleaners, reconciler
<1>21. ASSUME NEW c \in Cleaners, SetCleanupRuntimeIdentity(c) PROVE RowStaysFinal
  BY <1>21 DEF SetCleanupRuntimeIdentity, CGo, OwnsCleanup, RowStaysFinal, RuntimeInv,
        ProviderInv, ClaimsInv, RowInv, QuietInv, terminal, TerminalStatus, row, provider,
        workers, cleaners, reconciler
<1>22. ASSUME NEW c \in Cleaners, DeleteRuntime(c) PROVE RowStaysFinal
  BY <1>22 DEF DeleteRuntime, CGo, Fault, NoFault, DeleteWorkload, RowStaysFinal,
        RuntimeInv, ProviderInv, ClaimsInv, RowInv, QuietInv, terminal, TerminalStatus, row,
        provider, workers, cleaners, reconciler
<1>23. ASSUME NEW c \in Cleaners, CompleteCleanup(c) PROVE RowStaysFinal
  BY <1>23 DEF CompleteCleanup, CGo, OwnsCleanup, RowStaysFinal, RuntimeInv, ProviderInv,
        ClaimsInv, RowInv, QuietInv, terminal, TerminalStatus, row, provider, workers,
        cleaners, reconciler
<1>24. ASSUME NEW c \in Cleaners, EndCleanup(c) PROVE RowStaysFinal
  BY <1>24 DEF EndCleanup, CGo, OwnsCleanup, RowStaysFinal, RuntimeInv, ProviderInv,
        ClaimsInv, RowInv, QuietInv, terminal, TerminalStatus, row, provider, workers,
        cleaners, reconciler
<1>25. ASSUME NEW c \in Cleaners, CleanerCrash(c) PROVE RowStaysFinal
  BY <1>25 DEF CleanerCrash, CGo, Fault, RowStaysFinal, RuntimeInv, ProviderInv, ClaimsInv,
        RowInv, QuietInv, terminal, TerminalStatus, row, provider, workers, cleaners,
        reconciler
<1>26. CASE ReconcileFailure
  BY <1>26 DEF ReconcileFailure, Terminalize, RowStaysFinal, RuntimeInv, ProviderInv,
        ClaimsInv, RowInv, QuietInv, terminal, TerminalStatus, row, provider, workers,
        cleaners, reconciler
<1>27. CASE ReconcileInspect
  BY <1>27 DEF ReconcileInspect, RowStaysFinal, RuntimeInv, ProviderInv, ClaimsInv, RowInv,
        QuietInv, terminal, TerminalStatus, row, provider, workers, cleaners, reconciler
<1>28. CASE ReconcileActivate
  BY <1>28 DEF ReconcileActivate, Fault, NoFault, StartWorkload, CannotStart, RowStaysFinal,
        RuntimeInv, ProviderInv, ClaimsInv, RowInv, QuietInv, terminal, TerminalStatus, row,
        provider, workers, cleaners, reconciler
<1>29. CASE ReconcileActivationFailed
  BY <1>29 DEF ReconcileActivationFailed, Terminalize, terminal, RowStaysFinal, RuntimeInv,
        ProviderInv, ClaimsInv, RowInv, QuietInv, TerminalStatus, row, provider, workers,
        cleaners, reconciler
<1>30. CASE ReconcileDeadline
  BY <1>30 DEF ReconcileDeadline, Terminalize, terminal, RowStaysFinal, RuntimeInv,
        ProviderInv, ClaimsInv, RowInv, QuietInv, TerminalStatus, row, provider, workers,
        cleaners, reconciler
<1>31. CASE Cancel
  BY <1>31 DEF Cancel, Terminalize, terminal, RowStaysFinal, RuntimeInv, ProviderInv,
        ClaimsInv, RowInv, QuietInv, TerminalStatus, row, provider, workers, cleaners,
        reconciler
<1>32. CASE Bootstrap
  BY <1>32 DEF Bootstrap, RowStaysFinal, RuntimeInv, ProviderInv, ClaimsInv, RowInv,
        QuietInv, terminal, TerminalStatus, row, provider, workers, cleaners, reconciler
<1>33. CASE CompleteCloudExecution
  BY <1>33 DEF CompleteCloudExecution, Terminalize, RowStaysFinal, RuntimeInv, ProviderInv,
        ClaimsInv, RowInv, QuietInv, terminal, TerminalStatus, row, provider, workers,
        cleaners, reconciler
<1>34. CASE AgentExit
  BY <1>34 DEF AgentExit, RowStaysFinal, RuntimeInv, ProviderInv, ClaimsInv, RowInv,
        QuietInv, terminal, TerminalStatus, row, provider, workers, cleaners, reconciler
<1>35. CASE WorkloadLost
  BY <1>35 DEF WorkloadLost, Fault, RowStaysFinal, RuntimeInv, ProviderInv, ClaimsInv,
        RowInv, QuietInv, terminal, TerminalStatus, row, provider, workers, cleaners,
        reconciler
<1>36. CASE ReopenBlockedCleanup
  BY <1>36 DEF ReopenBlockedCleanup, Fault, RowStaysFinal, RuntimeInv, ProviderInv,
        ClaimsInv, RowInv, QuietInv, terminal, TerminalStatus, row, provider, workers,
        cleaners, reconciler
<1>37. CASE Tick
  BY <1>37 DEF Tick, RowStaysFinal, RuntimeInv, ProviderInv, ClaimsInv, RowInv, QuietInv,
        terminal, TerminalStatus, row, provider, workers, cleaners, reconciler
<1>38. CASE UNCHANGED vars
  BY <1>38 DEF vars, RowStaysFinal, RuntimeInv, ProviderInv, ClaimsInv, RowInv, QuietInv,
        terminal, TerminalStatus, row, provider, workers, cleaners, reconciler
<1>39. QED
  BY <1>1, <1>2, <1>3, <1>4, <1>5, <1>6, <1>7, <1>8, <1>9, <1>10, <1>11, <1>12,
        <1>13, <1>14, <1>15, <1>16, <1>17, <1>18, <1>19, <1>20, <1>21, <1>22, <1>23, <1>24,
        <1>25, <1>26, <1>27, <1>28, <1>29, <1>30, <1>31, <1>32, <1>33, <1>34, <1>35, <1>36,
        <1>37, <1>38
     DEF Next, WorkerStep, CleanerStep, ReconcilerStep

\* A terminal status, an identity and a finished cleanup are final.
THEOREM RowFinality == Spec => RowIsFinal
  BY RuntimeInvariant, FinalStep, PTL DEF Spec, RowIsFinal

\* Activating the authoritative instance starts it for the first and only time.
LEMMA StartIsOneShot ==
  ASSUME RuntimeInv, NEW i \in Nat, i = identity, i # 0, StartWorkload(i), UNCHANGED cleanupStatus
  PROVE  [OneShot!ANext]_(OneShot!avars)
<1>1. CASE wstate = "prepared"
  <2>1. ran = {} /\ ran' = {i} /\ wstate' = "running" /\ cleanupStatus # "done"
    BY <1>1 DEF RuntimeInv, ProviderInv, StartWorkload, Started
  <2>2. QED  BY <2>1 DEF OneShot!ANext, OneShot!avars, OneShot!Start
<1>2. CASE wstate # "prepared"
  BY <1>2 DEF StartWorkload, provider, OneShot!avars
<1>3. QED  BY <1>1, <1>2

\* Every step is a step, or a stutter, of the one-shot promise.
LEMMA OneShotRefinementStep == RuntimeInv /\ [Next]_vars => [OneShot!ANext]_(OneShot!avars)
<1> DEFINE OneShotStep == [OneShot!ANext]_(OneShot!avars)
<1> SUFFICES ASSUME RuntimeInv, [Next]_vars PROVE OneShotStep OBVIOUS
<1> USE DEF OneShot!ANext, OneShot!avars, OneShot!Start, OneShot!Stop, OneShot!Close
<1> USE NoneAssumption
<1>1. ASSUME NEW w \in Workers, ClaimDispatch(w) PROVE OneShotStep
  BY <1>1 DEF ClaimDispatch, Go, DispatchClaimActive, RuntimeInv, ProviderInv, ClaimsInv,
        TypeOK, RowInv, QuietInv, terminal, TerminalStatus, row, provider, workers,
        cleaners, reconciler
<1>2. ASSUME NEW w \in Workers, RefreshDispatchClaim(w) PROVE OneShotStep
  BY <1>2 DEF RefreshDispatchClaim, Go, Fault, NoFault, RuntimeInv, ProviderInv, ClaimsInv,
        TypeOK, RowInv, QuietInv, terminal, TerminalStatus, row, provider, workers,
        cleaners, reconciler
<1>3. ASSUME NEW w \in Workers, ReloadClaimed(w) PROVE OneShotStep
  BY <1>3 DEF ReloadClaimed, Go, RuntimeInv, ProviderInv, ClaimsInv, TypeOK, RowInv,
        QuietInv, terminal, TerminalStatus, row, provider, workers, cleaners, reconciler
<1>4. ASSUME NEW w \in Workers, AbandonDispatch(w) PROVE OneShotStep
  BY <1>4 DEF AbandonDispatch, Go, Fault, NoFault, RuntimeInv, ProviderInv, ClaimsInv,
        TypeOK, RowInv, QuietInv, terminal, TerminalStatus, row, provider, workers,
        cleaners, reconciler
<1>5. ASSUME NEW w \in Workers, PrepareSucceeds(w) PROVE OneShotStep
  BY <1>5 DEF PrepareSucceeds, Go, CreateOrAdopt, RuntimeInv, ProviderInv, ClaimsInv,
        TypeOK, RowInv, QuietInv, terminal, TerminalStatus, row, provider, workers,
        cleaners, reconciler
<1>6. ASSUME NEW w \in Workers, PrepareFails(w) PROVE OneShotStep
  BY <1>6 DEF PrepareFails, Go, CreateOrAdopt, Fault, NoFault, RuntimeInv, ProviderInv,
        ClaimsInv, TypeOK, RowInv, QuietInv, terminal, TerminalStatus, row, provider,
        workers, cleaners, reconciler
<1>7. ASSUME NEW w \in Workers, RefreshBarrier(w) PROVE OneShotStep
  BY <1>7 DEF RefreshBarrier, Go, Fault, NoFault, RuntimeInv, ProviderInv, ClaimsInv,
        TypeOK, RowInv, QuietInv, terminal, TerminalStatus, row, provider, workers,
        cleaners, reconciler
<1>8. ASSUME NEW w \in Workers, FailDispatch(w) PROVE OneShotStep
  BY <1>8 DEF FailDispatch, Go, Terminalize, RuntimeInv, ProviderInv, ClaimsInv, TypeOK,
        RowInv, QuietInv, terminal, TerminalStatus, row, provider, workers, cleaners,
        reconciler
<1>9. ASSUME NEW w \in Workers, CompleteDispatch(w) PROVE OneShotStep
  BY <1>9 DEF CompleteDispatch, Go, Fault, NoFault, RuntimeInv, ProviderInv, ClaimsInv,
        TypeOK, RowInv, QuietInv, terminal, TerminalStatus, row, provider, workers,
        cleaners, reconciler
<1>10. ASSUME NEW w \in Workers, ResolveLostDispatchCompletion(w) PROVE OneShotStep
  BY <1>10 DEF ResolveLostDispatchCompletion, Go, Fault, NoFault, terminal, RuntimeInv,
        ProviderInv, ClaimsInv, TypeOK, RowInv, QuietInv, TerminalStatus, row, provider,
        workers, cleaners, reconciler
<1>11. ASSUME NEW w \in Workers, CheckActivationAuthority(w) PROVE OneShotStep
  BY <1>11 DEF CheckActivationAuthority, Go, Fault, NoFault, RuntimeInv, ProviderInv,
        ClaimsInv, TypeOK, RowInv, QuietInv, terminal, TerminalStatus, row, provider,
        workers, cleaners, reconciler
<1>12. ASSUME NEW w \in Workers, Activate(w) PROVE OneShotStep
  <2>1. CASE StartWorkload(seen[w])
    BY <1>12, <2>1, StartIsOneShot DEF Activate, RuntimeInv, ProviderInv, ClaimsInv, TypeOK, row
  <2>2. CASE UNCHANGED <<provider, ran>>
    BY <1>12, <2>2 DEF Activate, provider, row
  <2>3. QED  BY <1>12, <2>1, <2>2 DEF Activate, CannotStart
<1>13. ASSUME NEW w \in Workers, ReloadActivated(w) PROVE OneShotStep
  BY <1>13 DEF ReloadActivated, Go, Fault, NoFault, Terminalize, terminal, RuntimeInv,
        ProviderInv, ClaimsInv, TypeOK, RowInv, QuietInv, TerminalStatus, row, provider,
        workers, cleaners, reconciler
<1>14. ASSUME NEW w \in Workers, Compensate(w) PROVE OneShotStep
  BY <1>14 DEF Compensate, Go, Fault, NoFault, DeleteWorkload, RuntimeInv, ProviderInv,
        ClaimsInv, TypeOK, RowInv, QuietInv, terminal, TerminalStatus, row, provider,
        workers, cleaners, reconciler
<1>15. ASSUME NEW w \in Workers, LateCreate(w) PROVE OneShotStep
  BY <1>15 DEF LateCreate, CreateOrAdopt, RuntimeInv, ProviderInv, ClaimsInv, TypeOK,
        RowInv, QuietInv, terminal, TerminalStatus, row, provider, workers, cleaners,
        reconciler
<1>16. ASSUME NEW w \in Workers, WorkerCrash(w) PROVE OneShotStep
  BY <1>16 DEF WorkerCrash, Go, Fault, RuntimeInv, ProviderInv, ClaimsInv, TypeOK, RowInv,
        QuietInv, terminal, TerminalStatus, row, provider, workers, cleaners, reconciler
<1>17. ASSUME NEW c \in Cleaners, ClaimCleanup(c) PROVE OneShotStep
  BY <1>17 DEF ClaimCleanup, CGo, Fault, NoFault, RuntimeInv, ProviderInv, ClaimsInv,
        TypeOK, RowInv, QuietInv, terminal, TerminalStatus, row, provider, workers,
        cleaners, reconciler
<1>18. ASSUME NEW c \in Cleaners, ResolveCleanup(c) PROVE OneShotStep
  BY <1>18 DEF ResolveCleanup, CGo, OwnsCleanup, RuntimeInv, ProviderInv, ClaimsInv, TypeOK,
        RowInv, QuietInv, terminal, TerminalStatus, row, provider, workers, cleaners,
        reconciler
<1>19. ASSUME NEW c \in Cleaners, CheckBarrier(c) PROVE OneShotStep
  BY <1>19 DEF CheckBarrier, CGo, DispatchClaimActive, RuntimeInv, ProviderInv, ClaimsInv,
        TypeOK, RowInv, QuietInv, terminal, TerminalStatus, row, provider, workers,
        cleaners, reconciler
<1>20. ASSUME NEW c \in Cleaners, ResolvePrepared(c) PROVE OneShotStep
  BY <1>20 DEF ResolvePrepared, CGo, Fault, NoFault, RuntimeInv, ProviderInv, ClaimsInv,
        TypeOK, RowInv, QuietInv, terminal, TerminalStatus, row, provider, workers,
        cleaners, reconciler
<1>21. ASSUME NEW c \in Cleaners, SetCleanupRuntimeIdentity(c) PROVE OneShotStep
  BY <1>21 DEF SetCleanupRuntimeIdentity, CGo, OwnsCleanup, RuntimeInv, ProviderInv,
        ClaimsInv, TypeOK, RowInv, QuietInv, terminal, TerminalStatus, row, provider,
        workers, cleaners, reconciler
<1>22. ASSUME NEW c \in Cleaners, DeleteRuntime(c) PROVE OneShotStep
  BY <1>22 DEF DeleteRuntime, CGo, Fault, NoFault, DeleteWorkload, RuntimeInv, ProviderInv,
        ClaimsInv, TypeOK, RowInv, QuietInv, terminal, TerminalStatus, row, provider,
        workers, cleaners, reconciler
<1>23. ASSUME NEW c \in Cleaners, CompleteCleanup(c) PROVE OneShotStep
  BY <1>23 DEF CompleteCleanup, CGo, OwnsCleanup, RuntimeInv, ProviderInv, ClaimsInv,
        TypeOK, RowInv, QuietInv, terminal, TerminalStatus, row, provider, workers,
        cleaners, reconciler
<1>24. ASSUME NEW c \in Cleaners, EndCleanup(c) PROVE OneShotStep
  BY <1>24 DEF EndCleanup, CGo, OwnsCleanup, RuntimeInv, ProviderInv, ClaimsInv, TypeOK,
        RowInv, QuietInv, terminal, TerminalStatus, row, provider, workers, cleaners,
        reconciler
<1>25. ASSUME NEW c \in Cleaners, CleanerCrash(c) PROVE OneShotStep
  BY <1>25 DEF CleanerCrash, CGo, Fault, RuntimeInv, ProviderInv, ClaimsInv, TypeOK, RowInv,
        QuietInv, terminal, TerminalStatus, row, provider, workers, cleaners, reconciler
<1>26. CASE ReconcileFailure
  BY <1>26 DEF ReconcileFailure, Terminalize, RuntimeInv, ProviderInv, ClaimsInv, TypeOK,
        RowInv, QuietInv, terminal, TerminalStatus, row, provider, workers, cleaners,
        reconciler
<1>27. CASE ReconcileInspect
  BY <1>27 DEF ReconcileInspect, RuntimeInv, ProviderInv, ClaimsInv, TypeOK, RowInv,
        QuietInv, terminal, TerminalStatus, row, provider, workers, cleaners, reconciler
<1>28. CASE ReconcileActivate
  <2>1. CASE StartWorkload(rseen)
    BY <1>28, <2>1, StartIsOneShot DEF ReconcileActivate, RuntimeInv, ProviderInv, ClaimsInv, TypeOK, row
  <2>2. CASE UNCHANGED <<provider, ran>>
    BY <1>28, <2>2 DEF ReconcileActivate, provider, row
  <2>3. QED  BY <1>28, <2>1, <2>2 DEF ReconcileActivate, CannotStart
<1>29. CASE ReconcileActivationFailed
  BY <1>29 DEF ReconcileActivationFailed, Terminalize, terminal, RuntimeInv, ProviderInv,
        ClaimsInv, TypeOK, RowInv, QuietInv, TerminalStatus, row, provider, workers,
        cleaners, reconciler
<1>30. CASE ReconcileDeadline
  BY <1>30 DEF ReconcileDeadline, Terminalize, terminal, RuntimeInv, ProviderInv, ClaimsInv,
        TypeOK, RowInv, QuietInv, TerminalStatus, row, provider, workers, cleaners,
        reconciler
<1>31. CASE Cancel
  BY <1>31 DEF Cancel, Terminalize, terminal, RuntimeInv, ProviderInv, ClaimsInv, TypeOK,
        RowInv, QuietInv, TerminalStatus, row, provider, workers, cleaners, reconciler
<1>32. CASE Bootstrap
  BY <1>32 DEF Bootstrap, RuntimeInv, ProviderInv, ClaimsInv, TypeOK, RowInv, QuietInv,
        terminal, TerminalStatus, row, provider, workers, cleaners, reconciler
<1>33. CASE CompleteCloudExecution
  BY <1>33 DEF CompleteCloudExecution, Terminalize, RuntimeInv, ProviderInv, ClaimsInv,
        TypeOK, RowInv, QuietInv, terminal, TerminalStatus, row, provider, workers,
        cleaners, reconciler
<1>34. CASE AgentExit
  BY <1>34 DEF AgentExit, RuntimeInv, ProviderInv, ClaimsInv, TypeOK, RowInv, QuietInv,
        terminal, TerminalStatus, row, provider, workers, cleaners, reconciler
<1>35. CASE WorkloadLost
  BY <1>35 DEF WorkloadLost, Fault, RuntimeInv, ProviderInv, ClaimsInv, TypeOK, RowInv,
        QuietInv, terminal, TerminalStatus, row, provider, workers, cleaners, reconciler
<1>36. CASE ReopenBlockedCleanup
  BY <1>36 DEF ReopenBlockedCleanup, Fault, RuntimeInv, ProviderInv, ClaimsInv, TypeOK,
        RowInv, QuietInv, terminal, TerminalStatus, row, provider, workers, cleaners,
        reconciler
<1>37. CASE Tick
  BY <1>37 DEF Tick, RuntimeInv, ProviderInv, ClaimsInv, TypeOK, RowInv, QuietInv, terminal,
        TerminalStatus, row, provider, workers, cleaners, reconciler
<1>38. CASE UNCHANGED vars
  BY <1>38 DEF vars, RuntimeInv, ProviderInv, ClaimsInv, TypeOK, RowInv, QuietInv, terminal,
        TerminalStatus, row, provider, workers, cleaners, reconciler
<1>39. QED
  BY <1>1, <1>2, <1>3, <1>4, <1>5, <1>6, <1>7, <1>8, <1>9, <1>10, <1>11, <1>12,
        <1>13, <1>14, <1>15, <1>16, <1>17, <1>18, <1>19, <1>20, <1>21, <1>22, <1>23, <1>24,
        <1>25, <1>26, <1>27, <1>28, <1>29, <1>30, <1>31, <1>32, <1>33, <1>34, <1>35, <1>36,
        <1>37, <1>38
     DEF Next, WorkerStep, CleanerStep, ReconcilerStep

\* The runtime lifecycle implements OneShotRuntime: at most one instance is
\* ever started per execution, and nothing starts or runs once it is closed.
THEOREM RefinesOneShot == Spec => ImplementsOneShot
<1>1. Init => OneShot!AInit
  BY DEF Init, OneShot!AInit
<1>2. QED  BY RuntimeInvariant, <1>1, OneShotRefinementStep, PTL DEF Spec, ImplementsOneShot, OneShot!ASpec

-----------------------------------------------------------------------------
(* What follows the end of an execution: ExecutionFinalization, for any       *)
(* number of attempts, finalizers and faults.  A finalizer works from a       *)
(* snapshot, so the invariant says what its snapshot still guarantees: the    *)
(* stage it holds is not ahead of the row (FinInv), and once it verifies or   *)
(* advances, the effect of that stage is there (EffectInv).  The rest relates *)
(* the task to its current attempt: a running task has one whose files are    *)
(* untouched.                                                                 *)

\* Attempts are created in order; only the current one is active; an attempt has a
\* stage once it ended, and nothing happened to its files before.
ExecInv ==
  /\ budget \in [samples : BOOLEAN, faults : Nat]
  /\ \A e \in Attempts :
       /\ exec[e].status # "none" <=> e <= task.cur
       /\ exec[e].status \in Terminal <=> exec[e].stage # "none"
       /\ exec[e].status \notin Terminal => exec[e].files = "pending"
       /\ exec[e].status = "succeeded" => exec[e].reason = "completed"
       /\ exec[e].stage = "superseded" => ~Current(e)

\* The task waits for the review of its current attempt, or is sent back for it.
AwaitsReview ==
  \/ task.status = "awaiting_review"
  \/ task.status = "pending" /\ task.from = "review"

TaskInv ==
  /\ task.status = "running" =>
       /\ task.cur # 0 /\ exec[task.cur].files = "pending"
       /\ exec[task.cur].stage \in {"none", "terminal"}
  /\ AwaitsReview => task.cur # 0 /\ exec[task.cur].sample /\ exec[task.cur].status \in Terminal

\* The task ended well, or was sent back to a state that will say so again.
EndedWell ==
  \/ task.status \in {"completed", "awaiting_review"}
  \/ task.status = "pending" /\ task.from \in {"review", "recovery"}

\* What stage s leaves behind for the attempt e
Effect(e, s) ==
  /\ s = "terminal" =>
       exec[e].files \in IF exec[e].status = "succeeded" THEN {"delivered", "superseded"}
                         ELSE {"retained"}
  /\ s = "workflow" => exec[e].draft
  /\ s = "draft_delivery" /\ Current(e) /\ EndedWell => task.outcome = e
  /\ s = "dispatch" => notified \cap {Verdict(e), Target(e)} # {}

Busy == {f \in Finalizers : fin[f].pc # "idle"}

\* A call is about an attempt that ended; the stage it works on was reached.
FinInv ==
  \A f \in Busy :
    /\ fin[f].exec \in Attempts /\ exec[fin[f].exec].status \in Terminal
    /\ fin[f].stage \in StageSet \ {"done"}
    /\ exec[fin[f].exec].stage # "superseded" =>
         Rank(fin[f].stage) <= Rank(exec[fin[f].exec].stage)
    /\ fin[f].waiting => exec[fin[f].exec].sample

EffectInv ==
  /\ \A e \in Attempts : \A s \in StageSet \ {"done"} : Beyond(e, s) => Effect(e, s)
  /\ \A f \in Busy :
       fin[f].pc \in {"verify", "advance"} => Effect(fin[f].exec, fin[f].stage)

FinalizationInv == AttemptsAreExclusive /\ ExecInv /\ TaskInv /\ FinInv /\ EffectInv

\* The stages in order, and the stage each leads to
LEMMA StageFacts ==
  /\ StageSet = {"terminal", "workflow", "draft_delivery", "dispatch", "done"}
  /\ Rank("terminal") = 1 /\ Rank("workflow") = 2 /\ Rank("draft_delivery") = 3
  /\ Rank("dispatch") = 4 /\ Rank("done") = 5
  /\ NextStage("terminal") = "workflow" /\ NextStage("workflow") = "draft_delivery"
  /\ NextStage("draft_delivery") = "dispatch" /\ NextStage("dispatch") = "done"
<1>1. /\ DOMAIN Stages = 1..5 /\ Stages[1] = "terminal" /\ Stages[2] = "workflow"
      /\ Stages[3] = "draft_delivery" /\ Stages[4] = "dispatch" /\ Stages[5] = "done"
  BY DEF Stages
<1>2. \A i \in DOMAIN Stages : i = 1 \/ i = 2 \/ i = 3 \/ i = 4 \/ i = 5
  BY <1>1
<1>3. StageSet = {"terminal", "workflow", "draft_delivery", "dispatch", "done"}
  BY <1>1, <1>2 DEF StageSet
<1>4. \A i, j \in DOMAIN Stages : Stages[i] = Stages[j] => i = j
  BY <1>1, <1>2
<1>5. \A i \in DOMAIN Stages : Rank(Stages[i]) = i
  BY <1>4 DEF Rank
<1>6. /\ Rank("terminal") = 1 /\ Rank("workflow") = 2 /\ Rank("draft_delivery") = 3
      /\ Rank("dispatch") = 4 /\ Rank("done") = 5
  BY <1>1, <1>5
<1> QED
  BY <1>1, <1>3, <1>6 DEF NextStage

LEMMA FinalizationInitInv == FinalizationInit => FinalizationInv
<1> SUFFICES ASSUME FinalizationInit PROVE FinalizationInv
    OBVIOUS
<1>1. FinalizationTypeOK
  BY FinalizationAssumption DEF FinalizationInit, FinalizationTypeOK, TaskRow, ExecRow,
     CallState, Idle, Attempts, Nothing, Active, Terminal, Reasons, TaskStatuses
<1>2. NothingElseRuns /\ DeliveredOrReversed /\ OneDelivery
  BY DEF FinalizationInit, NothingElseRuns, DeliveredOrReversed, OneDelivery, Active
<1>3. ExecInv /\ TaskInv
  BY FinalizationAssumption DEF FinalizationInit, ExecInv, TaskInv, AwaitsReview, Attempts,
     Terminal
<1>4. FinInv /\ EffectInv
  BY StageFacts DEF FinalizationInit, FinInv, EffectInv, Busy, Idle, Beyond
<1> QED
  BY <1>1, <1>2, <1>3, <1>4 DEF FinalizationInv, AttemptsAreExclusive

-----------------------------------------------------------------------------
(* Steps that leave the rows of the attempts alone, but for the lease        *)

SameRow(e) ==
  /\ exec'[e].status = exec[e].status /\ exec'[e].reason = exec[e].reason
  /\ exec'[e].input = exec[e].input /\ exec'[e].sample = exec[e].sample
  /\ exec'[e].stage = exec[e].stage /\ exec'[e].files = exec[e].files
  /\ exec'[e].draft = exec[e].draft

\* What a step of any process does not undo
Irrevocable == OneVerdict /\ StagesOnlyForward /\ DeliveryIsReplaced

\* A step that changes no verdict, stage or file, and leaves a running task running.
LEMMA KeepLemma ==
  ASSUME FinalizationInv, task'.status = task.status \/ task.status # "running",
         \A e \in Attempts :
           /\ exec'[e].status = exec[e].status /\ exec'[e].reason = exec[e].reason
           /\ exec'[e].input = exec[e].input /\ exec'[e].stage = exec[e].stage
           /\ exec'[e].files = exec[e].files
  PROVE  Irrevocable
<1>1. \A s \in StageSet : Rank(s) >= Rank(s)
  BY StageFacts
<1> QED
  BY <1>1 DEF Irrevocable, OneVerdict, StagesOnlyForward, DeliveryIsReplaced

\* A step of the task between executions: it does not become running, nor reviewed or
\* ended well when it was not.
LEMMA TaskStepInv ==
  ASSUME FinalizationInv, FinalizationTypeOK', UNCHANGED <<exec, fin, notified, budget>>,
         task'.cur = task.cur, task'.outcome = task.outcome \/ ~EndedWell',
         task.status # "running", task'.status # "running",
         AwaitsReview' => AwaitsReview, EndedWell' => EndedWell,
         reversal' \subseteq reversal \cup {0}
  PROVE  FinalizationInv' /\ Irrevocable
<1>1. NothingElseRuns' /\ DeliveredOrReversed' /\ OneDelivery'
  BY DEF FinalizationInv, AttemptsAreExclusive, NothingElseRuns, DeliveredOrReversed,
     OneDelivery, Attempts
<1>2. ExecInv' /\ TaskInv'
  BY DEF FinalizationInv, ExecInv, TaskInv, Current, AwaitsReview
<1>3. FinInv'
  BY DEF FinalizationInv, FinInv, Busy
<1>4. \A e, s : Effect(e, s) => Effect(e, s)'
  BY DEF Effect, Verdict, Target, Current
<1>5. EffectInv'
  BY <1>4 DEF FinalizationInv, EffectInv, Beyond, Busy
<1>6. Irrevocable
  BY KeepLemma
<1> QED
  BY <1>1, <1>2, <1>3, <1>5, <1>6 DEF FinalizationInv, AttemptsAreExclusive

LEMMA TaskInvariant ==
  ASSUME FinalizationInv,
         ResetRetryableTask \/ Review \/ RecoverPublication \/ EnqueueFails \/ FailPendingTask
  PROVE  FinalizationInv' /\ Irrevocable
<1>1. FinalizationTypeOK /\ 0 \in 0..MaxAttempts
  BY FinalizationAssumption DEF FinalizationInv, AttemptsAreExclusive
<1>2. CASE ResetRetryableTask
  <2>1. task' \in TaskRow
    BY <1>1, <1>2 DEF ResetRetryableTask, FinalizationTypeOK, TaskRow, TaskStatuses
  <2> QED
    BY <1>1, <1>2, <2>1, TaskStepInv
    DEF ResetRetryableTask, FinalizationTypeOK, TaskRow, AwaitsReview, EndedWell
<1>3. CASE Review
  <2>1. task' \in TaskRow
    BY <1>1, <1>3 DEF Review, FinalizationTypeOK, TaskRow, TaskStatuses
  <2> QED
    BY <1>1, <1>3, <2>1, TaskStepInv
    DEF Review, FinalizationTypeOK, TaskRow, AwaitsReview, EndedWell
<1>4. CASE RecoverPublication
  <2>1. task' \in TaskRow
    BY <1>1, <1>4 DEF RecoverPublication, FinalizationTypeOK, TaskRow, TaskStatuses
  <2> QED
    BY <1>1, <1>4, <2>1, TaskStepInv
    DEF RecoverPublication, FinalizationTypeOK, TaskRow, AwaitsReview, EndedWell
<1>5. CASE EnqueueFails
  <2>1. task' \in TaskRow
    BY <1>1, <1>5 DEF EnqueueFails, FinalizationTypeOK, TaskRow, TaskStatuses
  <2> QED
    BY <1>1, <1>5, <2>1, TaskStepInv
    DEF EnqueueFails, FinalizationTypeOK, TaskRow, AwaitsReview, EndedWell
<1>6. CASE FailPendingTask
  <2>1. task' \in TaskRow
    BY <1>1, <1>6 DEF FailPendingTask, FinalizationTypeOK, TaskRow, TaskStatuses
  <2> QED
    BY <1>1, <1>6, <2>1, TaskStepInv
    DEF FailPendingTask, FinalizationTypeOK, TaskRow, AwaitsReview, EndedWell
<1> QED
  BY <1>2, <1>3, <1>4, <1>5, <1>6

\* A step of the leases and the calls: who verifies or advances did so before.
LEMMA LeaseStepInv ==
  ASSUME FinalizationInv, FinalizationTypeOK', FinInv', \A e \in Attempts : SameRow(e),
         UNCHANGED <<task, reversal, notified>>, budget' \in [samples : BOOLEAN, faults : Nat],
         \A f \in Finalizers : fin'[f].pc \in {"verify", "advance"} =>
           /\ fin[f].pc \in {"verify", "advance"}
           /\ fin'[f].exec = fin[f].exec /\ fin'[f].stage = fin[f].stage
  PROVE  FinalizationInv' /\ Irrevocable
<1>1. NothingElseRuns' /\ DeliveredOrReversed' /\ OneDelivery'
  BY DEF FinalizationInv, AttemptsAreExclusive, NothingElseRuns, DeliveredOrReversed,
     OneDelivery, SameRow, Current
<1>2. ExecInv'
  BY DEF FinalizationInv, ExecInv, SameRow, Current
<1>3. TaskInv'
  <2>1. task.cur # 0 => task.cur \in Attempts
    BY FinalizationAssumption DEF FinalizationInv, AttemptsAreExclusive, FinalizationTypeOK,
       TaskRow, Attempts
  <2> QED
    BY <2>1 DEF FinalizationInv, TaskInv, AwaitsReview, SameRow
<1>4. \A e \in Attempts : \A s : Effect(e, s) => Effect(e, s)'
  BY DEF Effect, Verdict, Target, Current, EndedWell, SameRow
<1>5. EffectInv'
  BY <1>4 DEF FinalizationInv, EffectInv, FinInv, Beyond, Busy, SameRow
<1>6. Irrevocable
  BY KeepLemma DEF SameRow
<1> QED
  BY <1>1, <1>2, <1>3, <1>5, <1>6 DEF FinalizationInv, AttemptsAreExclusive

-----------------------------------------------------------------------------
(* Beginning and ending an execution                                         *)

LEMMA CreateInv ==
  ASSUME FinalizationInv, NEW e \in Attempts, CreateCurrentExecution(e)
  PROVE  FinalizationInv' /\ Irrevocable
<1>1. FinalizationTypeOK
  BY DEF FinalizationInv, AttemptsAreExclusive
<1>2. task.cur \in Nat /\ e = task.cur + 1
  <2>1. task.cur \in Nat /\ MaxAttempts \in Nat
    BY <1>1, FinalizationAssumption DEF FinalizationTypeOK, TaskRow
  <2>2. ~(e <= task.cur) /\ \A d \in Attempts : d < e => d <= task.cur
    BY DEF CreateCurrentExecution, FinalizationInv, ExecInv
  <2>3. e - 1 # 0 => e - 1 \in Attempts
    BY <2>1 DEF Attempts
  <2> QED
    BY <2>1, <2>2, <2>3 DEF Attempts
<1>3. /\ task.status = "pending" /\ exec[e].status = "none"
      /\ task' = [task EXCEPT !.status = "running", !.cur = e, !.from = "new"]
      /\ exec' = [exec EXCEPT ![e].status = "created"]
      /\ UNCHANGED <<reversal, notified, fin, budget>>
  BY DEF CreateCurrentExecution
<1>4. FinalizationTypeOK'
  <2>0. e \in 0..MaxAttempts
    BY FinalizationAssumption DEF Attempts
  <2>1. task' \in TaskRow
    BY <1>1, <1>3, <2>0 DEF FinalizationTypeOK, TaskRow, TaskStatuses
  <2>2. [exec[e] EXCEPT !.status = "created"] \in ExecRow
    BY <1>1 DEF FinalizationTypeOK, ExecRow, Active
  <2> QED
    BY <1>1, <1>3, <2>1, <2>2 DEF FinalizationTypeOK
<1>5. /\ exec[e].stage = "none" /\ exec[e].files = "pending"
      /\ \A f \in Busy : fin[f].exec # e
  BY <1>3 DEF FinalizationInv, ExecInv, FinInv, Terminal
<1>6. \A d \in Attempts : d # e => exec'[d] = exec[d]
  BY <1>1, <1>3 DEF FinalizationTypeOK
<1>7. /\ exec'[e].status = "created" /\ exec'[e].stage = "none" /\ exec'[e].files = "pending"
      /\ task'.cur = e /\ task'.status = "running"
  BY <1>1, <1>3, <1>5 DEF FinalizationTypeOK, TaskRow, ExecRow
<1>8. NothingElseRuns' /\ DeliveredOrReversed' /\ OneDelivery'
  <2>1. NothingElseRuns'
    BY <1>3, <1>6, <1>7 DEF FinalizationInv, AttemptsAreExclusive, NothingElseRuns, Current,
       Active
  <2>2. e \notin reversal
    BY <1>5 DEF FinalizationInv, AttemptsAreExclusive, DeliveredOrReversed
  <2> QED
    BY <1>3, <1>6, <1>7, <2>1, <2>2 DEF FinalizationInv, AttemptsAreExclusive,
       DeliveredOrReversed, OneDelivery
<1>9. ExecInv' /\ TaskInv'
  BY <1>2, <1>3, <1>6, <1>7 DEF FinalizationInv, ExecInv, TaskInv, AwaitsReview, Current,
     Attempts, Terminal
<1>10. FinInv'
  BY <1>3, <1>5, <1>6 DEF FinalizationInv, FinInv, Busy
<1>11. \A d \in Attempts : \A s : d # e /\ Effect(d, s) => Effect(d, s)'
  BY <1>3, <1>6, <1>7 DEF Effect, Verdict, Target, Current, EndedWell
<1>12. EffectInv'
  BY <1>3, <1>5, <1>6, <1>7, <1>11, StageFacts DEF FinalizationInv, EffectInv, FinInv, Beyond,
     Busy
<1>13. Irrevocable
  <2>1. \A d \in Attempts : exec[d].stage \in StageSet \cup {"superseded"} => exec'[d] = exec[d]
    BY <1>5, <1>6, StageFacts
  <2>2. \A s \in StageSet : Rank(s) >= Rank(s)
    BY StageFacts
  <2>3. StagesOnlyForward
    BY <2>1, <2>2, StageFacts DEF StagesOnlyForward
  <2>4. OneVerdict /\ DeliveryIsReplaced
    BY <1>3, <1>5, <1>6 DEF OneVerdict, DeliveryIsReplaced, Terminal
  <2> QED
    BY <2>3, <2>4 DEF Irrevocable
<1> QED
  BY <1>4, <1>8, <1>9, <1>10, <1>12, <1>13 DEF FinalizationInv, AttemptsAreExclusive

LEMMA DispatchedInv ==
  ASSUME FinalizationInv, NEW e \in Attempts, Dispatched(e)
  PROVE  FinalizationInv' /\ Irrevocable
<1>1. FinalizationTypeOK
  BY DEF FinalizationInv, AttemptsAreExclusive
<1>2. /\ exec[e].status = "created" /\ exec' = [exec EXCEPT ![e].status = "running"]
      /\ UNCHANGED <<task, reversal, notified, fin, budget>>
  BY DEF Dispatched
<1>3. FinalizationTypeOK'
  <2>1. [exec[e] EXCEPT !.status = "running"] \in ExecRow
    BY <1>1 DEF FinalizationTypeOK, ExecRow, Active
  <2> QED
    BY <1>1, <1>2, <2>1 DEF FinalizationTypeOK
<1>4. /\ exec'[e].status = "running"
      /\ exec'[e].stage = exec[e].stage /\ exec'[e].files = exec[e].files
      /\ \A d \in Attempts : d # e => exec'[d] = exec[d]
  BY <1>1, <1>2 DEF FinalizationTypeOK, ExecRow
<1>5. exec[e].stage = "none" /\ \A f \in Busy : fin[f].exec # e
  BY <1>2 DEF FinalizationInv, ExecInv, FinInv, Terminal
<1>6. NothingElseRuns' /\ DeliveredOrReversed' /\ OneDelivery'
  <2>1. e \notin reversal
    BY <1>2 DEF FinalizationInv, AttemptsAreExclusive, DeliveredOrReversed, ExecInv, Terminal
  <2> QED
    BY <1>2, <1>4, <2>1
    DEF FinalizationInv, AttemptsAreExclusive, NothingElseRuns, DeliveredOrReversed, OneDelivery,
        Current, Active
<1>7. ExecInv' /\ TaskInv'
  <2>1. ExecInv'
    BY <1>2, <1>4 DEF FinalizationInv, ExecInv, Current, Terminal
  <2>2. AwaitsReview => task.cur # e
    BY <1>2 DEF FinalizationInv, TaskInv, Terminal
  <2>3. task.cur # 0 => task.cur \in Attempts
    BY <1>1, FinalizationAssumption DEF FinalizationTypeOK, TaskRow, Attempts
  <2> QED
    BY <1>2, <1>4, <2>1, <2>2, <2>3 DEF FinalizationInv, TaskInv, AwaitsReview
<1>8. FinInv'
  BY <1>2, <1>4, <1>5 DEF FinalizationInv, FinInv, Busy
<1>9. \A d \in Attempts : \A s : d # e /\ Effect(d, s) => Effect(d, s)'
  BY <1>2, <1>4 DEF Effect, Verdict, Target, Current, EndedWell
<1>10. EffectInv'
  BY <1>2, <1>4, <1>5, <1>9, StageFacts DEF FinalizationInv, EffectInv, FinInv, Beyond, Busy
<1>11. Irrevocable
  <2>1. \A s \in StageSet : Rank(s) >= Rank(s)
    BY StageFacts
  <2>2. StagesOnlyForward
    BY <1>4, <2>1 DEF StagesOnlyForward
  <2>3. OneVerdict /\ DeliveryIsReplaced
    BY <1>2, <1>4 DEF OneVerdict, DeliveryIsReplaced, Terminal
  <2> QED
    BY <2>2, <2>3 DEF Irrevocable
<1> QED
  BY <1>3, <1>6, <1>7, <1>8, <1>10, <1>11 DEF FinalizationInv, AttemptsAreExclusive

LEMMA RetireInv ==
  ASSUME FinalizationInv, NEW e \in Attempts, RetireSuperseded(e)
  PROVE  FinalizationInv' /\ Irrevocable
<1>1. FinalizationTypeOK
  BY DEF FinalizationInv, AttemptsAreExclusive
<1>2. /\ ~Current(e) /\ exec[e].status \in Terminal
      /\ UNCHANGED <<task, reversal, notified, fin, budget>>
  BY DEF RetireSuperseded
<1>3. exec' = [exec EXCEPT ![e] = [exec[e] EXCEPT !.stage = "superseded", !.token = Nothing]]
  BY <1>1 DEF RetireSuperseded, FinalizationTypeOK, ExecRow
<1>4. /\ FinalizationTypeOK' /\ exec'[e].stage = "superseded"
      /\ \A d \in Attempts : d # e => exec'[d] = exec[d]
      /\ \A d \in Attempts : /\ exec'[d].status = exec[d].status /\ exec'[d].files = exec[d].files
                             /\ exec'[d].reason = exec[d].reason /\ exec'[d].draft = exec[d].draft
                             /\ exec'[d].sample = exec[d].sample
                             /\ exec'[d].input = exec[d].input
  <2> DEFINE r == [exec[e] EXCEPT !.stage = "superseded", !.token = Nothing]
  <2>1. /\ r \in ExecRow /\ r.stage = "superseded" /\ r.status = exec[e].status
        /\ r.files = exec[e].files /\ r.reason = exec[e].reason /\ r.draft = exec[e].draft
        /\ r.sample = exec[e].sample /\ r.input = exec[e].input
    BY <1>1 DEF FinalizationTypeOK, ExecRow
  <2> HIDE DEF r
  <2>2. exec' = [exec EXCEPT ![e] = r]
    BY <1>3 DEF r
  <2> QED
    BY <1>1, <1>2, <2>1, <2>2 DEF FinalizationTypeOK
<1>5. NothingElseRuns' /\ DeliveredOrReversed' /\ OneDelivery'
  BY <1>2, <1>4
  DEF FinalizationInv, AttemptsAreExclusive, NothingElseRuns, DeliveredOrReversed, OneDelivery,
      Current
<1>6. ExecInv'
  BY <1>2, <1>4 DEF FinalizationInv, ExecInv, Current
<1>7. TaskInv'
  <2>1. task.cur # 0 => task.cur \in Attempts
    BY <1>1, FinalizationAssumption DEF FinalizationTypeOK, TaskRow, Attempts
  <2> QED
    BY <1>2, <1>4, <2>1 DEF FinalizationInv, TaskInv, AwaitsReview, Current
<1>8. FinInv'
  BY <1>2, <1>4 DEF FinalizationInv, FinInv, Busy
<1>9. \A d \in Attempts : \A s : Effect(d, s) => Effect(d, s)'
  BY <1>2, <1>4 DEF Effect, Verdict, Target, Current, EndedWell
<1>10. EffectInv'
  BY <1>2, <1>4, <1>9, StageFacts DEF FinalizationInv, EffectInv, FinInv, Beyond, Busy
<1>11. Irrevocable
  <2>1. exec[e].stage \notin {"done", "superseded"} /\ "superseded" \notin StageSet
    BY StageFacts DEF RetireSuperseded
  <2>2. \A s \in StageSet : Rank(s) >= Rank(s)
    BY StageFacts
  <2>3. StagesOnlyForward
    BY <1>4, <2>1, <2>2 DEF StagesOnlyForward
  <2>4. OneVerdict /\ DeliveryIsReplaced
    BY <1>2, <1>4 DEF OneVerdict, DeliveryIsReplaced
  <2> QED
    BY <2>3, <2>4 DEF Irrevocable
<1> QED
  BY <1>4, <1>5, <1>6, <1>7, <1>8, <1>10, <1>11 DEF FinalizationInv, AttemptsAreExclusive

\* The verdict is written, and a call enters the finalizer with it.
LEMMA EndInv ==
  ASSUME FinalizationInv, NEW f \in Finalizers, NEW e \in Attempts,
         NEW from \in SUBSET Active, NEW verdict \in Terminal, NEW reason \in Reasons,
         NEW input \in Inputs \cup {Nothing}, NEW sample \in BOOLEAN,
         verdict = "succeeded" => reason = "completed",
         Transition(e, from, verdict, reason, input, sample), Enter(f, e, "terminal"),
         UNCHANGED <<task, reversal, notified, budget>>
  PROVE  FinalizationInv' /\ Irrevocable
<1>1. FinalizationTypeOK
  BY DEF FinalizationInv, AttemptsAreExclusive
<1> DEFINE r == [exec[e] EXCEPT !.status = verdict, !.reason = reason, !.input = input,
                                !.sample = sample, !.stage = "terminal"]
           k == [pc |-> "claim", exec |-> e, stage |-> "terminal",
                 waiting |-> task.status = "awaiting_review", durable |-> FALSE]
<1>2. exec[e].status \in Active /\ exec' = [exec EXCEPT ![e] = r] /\ fin' = [fin EXCEPT ![f] = k]
  BY <1>1 DEF Transition, Enter, FinalizationTypeOK, ExecRow
<1>3. /\ r \in ExecRow /\ r.status = verdict /\ r.stage = "terminal" /\ r.reason = reason
      /\ r.files = exec[e].files /\ r.sample = sample
  <2>1. exec[e] \in ExecRow
    BY <1>1 DEF FinalizationTypeOK
  <2>2. r \in ExecRow
    BY <2>1, StageFacts DEF ExecRow
  <2>3. r.status = verdict /\ r.stage = "terminal" /\ r.reason = reason /\ r.sample = sample
    BY <2>1 DEF ExecRow
  <2>4. r.files = exec[e].files
    BY <2>1 DEF ExecRow
  <2> QED
    BY <2>2, <2>3, <2>4
<1>4. /\ k \in CallState /\ k.pc = "claim" /\ k.exec = e /\ k.stage = "terminal"
      /\ k.waiting = (task.status = "awaiting_review")
  BY <1>1, StageFacts, FinalizationAssumption DEF CallState, Attempts
<1> HIDE DEF r, k
<1>5. FinalizationTypeOK'
  BY <1>1, <1>2, <1>3, <1>4 DEF FinalizationTypeOK
<1>6. /\ exec'[e] = r /\ fin'[f] = k
      /\ \A d \in Attempts : d # e => exec'[d] = exec[d]
      /\ \A g \in Finalizers : g # f => fin'[g] = fin[g]
  BY <1>1, <1>2 DEF FinalizationTypeOK
<1>7. /\ Current(e) /\ task.status = "running" /\ verdict \notin Active /\ verdict # "none"
      /\ exec[e].stage = "none" /\ exec[e].status # "none" /\ exec[e].status \notin Terminal
      /\ exec[e].files = "pending"
  BY <1>2 DEF FinalizationInv, AttemptsAreExclusive, NothingElseRuns, ExecInv, Active, Terminal
<1>8. NothingElseRuns' /\ DeliveredOrReversed' /\ OneDelivery'
  <2>1. e \notin reversal
    BY <1>7 DEF FinalizationInv, AttemptsAreExclusive, DeliveredOrReversed
  <2> QED
    BY <1>3, <1>6, <1>7, <2>1
    DEF FinalizationInv, AttemptsAreExclusive, NothingElseRuns, DeliveredOrReversed, OneDelivery,
        Current
<1>9. ExecInv'
  BY <1>3, <1>6, <1>7 DEF FinalizationInv, ExecInv, Current
<1>10. TaskInv'
  BY <1>3, <1>6, <1>7 DEF FinalizationInv, TaskInv, AwaitsReview, Current
<1>11. \A g \in Busy : fin[g].exec # e
  BY <1>7 DEF FinalizationInv, FinInv
<1>12. FinInv'
  <2> SUFFICES ASSUME NEW g \in Busy'
               PROVE  /\ fin'[g].exec \in Attempts /\ exec'[fin'[g].exec].status \in Terminal
                      /\ fin'[g].stage \in StageSet \ {"done"}
                      /\ exec'[fin'[g].exec].stage # "superseded" =>
                           Rank(fin'[g].stage) <= Rank(exec'[fin'[g].exec].stage)
                      /\ fin'[g].waiting => exec'[fin'[g].exec].sample
    BY DEF FinInv
  <2>1. CASE g = f
    BY <1>3, <1>4, <1>6, <1>7, <2>1, StageFacts
  <2>2. CASE g # f
    BY <1>6, <1>11, <2>2 DEF FinalizationInv, FinInv, Busy
  <2> QED
    BY <2>1, <2>2
<1>13. \A d \in Attempts : \A s : d # e /\ Effect(d, s) => Effect(d, s)'
  BY <1>6 DEF Effect, Verdict, Target, Current, EndedWell
<1>14. \A s \in StageSet \ {"done"} : ~Beyond(e, s)'
  BY <1>3, <1>6, StageFacts DEF Beyond
<1>15. EffectInv'
  <2>1. \A d \in Attempts : \A s \in StageSet \ {"done"} : Beyond(d, s)' => Effect(d, s)'
    BY <1>6, <1>13, <1>14 DEF FinalizationInv, EffectInv, Beyond
  <2>2. \A g \in Busy' : fin'[g].pc \in {"verify", "advance"} =>
          Effect(fin[g].exec, fin[g].stage)'
    <3>1. \A g \in Busy' : fin'[g].pc \in {"verify", "advance"} => g # f
      BY <1>4, <1>6
    <3>2. \A g \in Busy' : g # f => g \in Busy /\ fin'[g] = fin[g]
      BY <1>6 DEF Busy
    <3>3. \A g \in Busy : fin[g].exec \in Attempts
      BY DEF FinalizationInv, FinInv
    <3> QED
      BY <1>11, <1>13, <3>1, <3>2, <3>3 DEF FinalizationInv, EffectInv
  <2> QED
    BY <2>1, <2>2 DEF EffectInv
<1>16. Irrevocable
  <2>1. \A s \in StageSet : Rank(s) >= Rank(s)
    BY StageFacts
  <2>2. StagesOnlyForward
    BY <1>6, <1>7, <2>1, StageFacts DEF StagesOnlyForward
  <2>3. OneVerdict /\ DeliveryIsReplaced
    BY <1>6, <1>7 DEF OneVerdict, DeliveryIsReplaced
  <2> QED
    BY <2>2, <2>3 DEF Irrevocable
<1> QED
  BY <1>5, <1>8, <1>9, <1>10, <1>12, <1>15, <1>16 DEF FinalizationInv, AttemptsAreExclusive

\* A call enters for an attempt that ended before.
LEMMA EnterInv ==
  ASSUME FinalizationInv, NEW f \in Finalizers, NEW e \in Attempts, Current(e), exec[e].status \in Terminal,
         exec[e].stage # "done", Enter(f, e, exec[e].stage),
         UNCHANGED <<task, exec, reversal, notified, budget>>
  PROVE  FinalizationInv' /\ Irrevocable
<1>1. FinalizationTypeOK
  BY DEF FinalizationInv, AttemptsAreExclusive
<1> DEFINE k == [pc |-> "claim", exec |-> e, stage |-> exec[e].stage,
                 waiting |-> task.status = "awaiting_review", durable |-> FALSE]
<1>2. exec[e].stage \in StageSet \ {"done"} /\ Rank(exec[e].stage) \in Nat
  BY <1>1, StageFacts DEF FinalizationInv, ExecInv, FinalizationTypeOK, ExecRow
<1>3. fin' = [fin EXCEPT ![f] = k] /\ k \in CallState
  BY <1>2, FinalizationAssumption DEF Enter, CallState, Attempts
<1>4. FinalizationTypeOK'
  BY <1>1, <1>3 DEF FinalizationTypeOK
<1>5. FinInv'
  <2> SUFFICES ASSUME NEW g \in Busy'
               PROVE  /\ fin'[g].exec \in Attempts /\ exec'[fin'[g].exec].status \in Terminal
                      /\ fin'[g].stage \in StageSet \ {"done"}
                      /\ exec'[fin'[g].exec].stage # "superseded" =>
                           Rank(fin'[g].stage) <= Rank(exec'[fin'[g].exec].stage)
                      /\ fin'[g].waiting => exec'[fin'[g].exec].sample
    BY DEF FinInv
  <2>1. CASE g = f
    <3>1. fin'[g] = k
      BY <1>1, <1>3, <2>1 DEF FinalizationTypeOK
    <3>2. task.status = "awaiting_review" => exec[e].sample
      BY DEF FinalizationInv, TaskInv, AwaitsReview, Current
    <3>3. /\ k.exec = e /\ k.stage = exec[e].stage
          /\ k.waiting = (task.status = "awaiting_review")
      OBVIOUS
    <3> HIDE DEF k
    <3>4. e \in Attempts /\ exec' = exec /\ Rank(exec[e].stage) <= Rank(exec[e].stage)
      BY <1>2
    <3>5. fin'[g].waiting => exec'[fin'[g].exec].sample
      BY <3>1, <3>2, <3>3, <3>4
    <3> QED
      BY <1>2, <3>1, <3>3, <3>4, <3>5
  <2>2. CASE g # f
    BY <1>1, <1>3, <2>2 DEF FinalizationInv, FinInv, Busy, FinalizationTypeOK
  <2> QED
    BY <2>1, <2>2
<1>6. \A g \in Finalizers : fin'[g].pc \in {"verify", "advance"} => fin'[g] = fin[g]
  BY <1>1, <1>3 DEF FinalizationTypeOK
<1> QED
  BY <1>4, <1>5, <1>6, LeaseStepInv DEF SameRow, FinalizationInv, ExecInv

LEMMA EndingInv ==
  ASSUME FinalizationInv, NEW f \in Finalizers, NEW e \in Attempts,
         \/ TerminalizeCurrentExecution(f, e) \/ CancelCloudExecution(f, e) \/ ResumeFinalization(f, e)
         \/ \E i \in Inputs : Complete(f, e, i) \/ CompleteAgain(f, e, i)
  PROVE  FinalizationInv' /\ Irrevocable
<1>1. CASE TerminalizeCurrentExecution(f, e)
  <2>1. PICK r \in Failures \ {"workflow_error"} :
          Transition(e, Active, IF r = "execution_timeout" THEN "timed_out" ELSE "failed", r, Nothing, FALSE)
    BY <1>1 DEF TerminalizeCurrentExecution
  <2>2. /\ r \in Reasons
        /\ (IF r = "execution_timeout" THEN "timed_out" ELSE "failed") \in Terminal \ {"succeeded"}
    BY FinalizationAssumption DEF Reasons, Terminal
  <2> QED
    BY <1>1, <2>1, <2>2, EndInv DEF TerminalizeCurrentExecution
<1>2. CASE CancelCloudExecution(f, e)
  <2>1. CASE Transition(e, Active, "cancelled", "user_cancelled", Nothing, FALSE) /\ Enter(f, e, "terminal")
    BY <1>2, <2>1, EndInv DEF CancelCloudExecution, Terminal, Reasons
  <2>2. CASE /\ exec[e].status = "cancelled" /\ exec[e].stage # "done"
             /\ Enter(f, e, exec[e].stage) /\ UNCHANGED exec
    BY <1>2, <2>2, EnterInv DEF CancelCloudExecution, Terminal
  <2> QED
    BY <1>2, <2>1, <2>2 DEF CancelCloudExecution
<1>3. CASE ResumeFinalization(f, e)
  BY <1>3, EnterInv DEF ResumeFinalization
<1>4. ASSUME NEW i \in Inputs, Complete(f, e, i) PROVE FinalizationInv' /\ Irrevocable
  <2>1. CASE \E s \in {FALSE, budget.samples} :
               Transition(e, {"running"}, "succeeded", "completed", i, s)
    <3>1. PICK s \in {FALSE, budget.samples} :
               Transition(e, {"running"}, "succeeded", "completed", i, s)
      BY <2>1
    <3>2. s \in BOOLEAN
      BY DEF FinalizationInv, AttemptsAreExclusive, FinalizationTypeOK
    <3> QED
      BY <1>4, <3>1, <3>2, EndInv DEF Complete, Active, Terminal, Reasons
  <2>2. CASE \E r \in Failures \ {"execution_timeout"} :
               Transition(e, {"running"}, "failed", r, i, FALSE)
    BY <1>4, <2>2, FinalizationAssumption, EndInv DEF Complete, Active, Terminal, Reasons
  <2> QED
    BY <1>4, <2>1, <2>2 DEF Complete
<1>5. ASSUME NEW i \in Inputs, CompleteAgain(f, e, i) PROVE FinalizationInv' /\ Irrevocable
  BY <1>5, EnterInv DEF CompleteAgain
<1> QED
  BY <1>1, <1>2, <1>3, <1>4, <1>5

-----------------------------------------------------------------------------
(* The finalizer                                                             *)

\* The columns of the lease are apart from the others.
LEMMA LeaseColumns ==
  ASSUME NEW r \in ExecRow, NEW token \in Finalizers \cup {Nothing}, NEW fresh \in BOOLEAN
  PROVE  LET s == [r EXCEPT !.token = token, !.fresh = fresh] IN
         /\ s \in ExecRow /\ s.status = r.status /\ s.reason = r.reason /\ s.input = r.input
         /\ s.sample = r.sample /\ s.stage = r.stage /\ s.files = r.files /\ s.draft = r.draft
BY DEF ExecRow

LEMMA LeaseInv ==
  ASSUME FinalizationInv, NEW e \in Attempts, LeaseEnds(e)
  PROVE  FinalizationInv' /\ Irrevocable
<1>1. FinalizationTypeOK
  BY DEF FinalizationInv, AttemptsAreExclusive
<1>2. /\ exec' = [exec EXCEPT ![e].fresh = FALSE]
      /\ UNCHANGED <<task, reversal, notified, fin>>
      /\ budget' \in [samples : BOOLEAN, faults : Nat]
  BY DEF LeaseEnds, FinalizationFault, FinalizationInv, ExecInv
<1> DEFINE r == [exec[e] EXCEPT !.token = exec[e].token, !.fresh = FALSE]
<1>3. FinalizationTypeOK' /\ \A d \in Attempts : SameRow(d)
  <2>1. exec[e] \in ExecRow /\ exec[e].token \in Finalizers \cup {Nothing}
    BY <1>1 DEF FinalizationTypeOK, ExecRow
  <2>2. exec' = [exec EXCEPT ![e] = r]
    BY <1>2, <2>1 DEF ExecRow
  <2>3. /\ r \in ExecRow /\ r.status = exec[e].status /\ r.reason = exec[e].reason
        /\ r.input = exec[e].input /\ r.sample = exec[e].sample /\ r.stage = exec[e].stage
        /\ r.files = exec[e].files /\ r.draft = exec[e].draft
    BY <2>1, LeaseColumns
  <2> HIDE DEF r
  <2> QED
    BY <1>1, <1>2, <2>2, <2>3 DEF FinalizationTypeOK, SameRow
<1>4. FinInv'
  BY <1>2, <1>3 DEF FinalizationInv, FinInv, Busy, SameRow
<1> QED
  BY <1>2, <1>3, <1>4, LeaseStepInv

\* A call returns, at any point.
LEMMA ReturnInv ==
  ASSUME FinalizationInv, NEW f \in Busy, Release(f, fin[f].exec) \/ UNCHANGED exec,
         fin' = [fin EXCEPT ![f] = Idle],
         UNCHANGED <<task, reversal, notified>>, budget' \in [samples : BOOLEAN, faults : Nat]
  PROVE  FinalizationInv' /\ Irrevocable
<1>1. FinalizationTypeOK /\ f \in Finalizers /\ fin[f].exec \in Attempts
  BY DEF FinalizationInv, AttemptsAreExclusive, FinInv, Busy
<1>2. exec' \in [Attempts -> ExecRow] /\ \A e \in Attempts : SameRow(e)
  <2> DEFINE e == fin[f].exec
             r == [exec[e] EXCEPT !.token = Nothing, !.fresh = FALSE]
  <2>1. CASE Release(f, e) /\ exec[e].token = f
    <3>1. exec' = [exec EXCEPT ![e] = r]
      BY <1>1, <2>1 DEF Release, FinalizationTypeOK, ExecRow
    <3>2. /\ r \in ExecRow /\ r.status = exec[e].status /\ r.reason = exec[e].reason
          /\ r.input = exec[e].input /\ r.sample = exec[e].sample /\ r.stage = exec[e].stage
          /\ r.files = exec[e].files /\ r.draft = exec[e].draft
      <4>1. exec[e] \in ExecRow
        BY <1>1 DEF FinalizationTypeOK
      <4> QED
        BY <4>1, LeaseColumns
    <3> HIDE DEF r
    <3> QED
      BY <1>1, <3>1, <3>2 DEF FinalizationTypeOK, SameRow
  <2>2. CASE UNCHANGED exec
    BY <1>1, <2>2 DEF FinalizationTypeOK, SameRow
  <2> QED
    BY <2>1, <2>2 DEF Release
<1>3. Idle \in CallState /\ Idle.pc = "idle"
  BY FinalizationAssumption DEF Idle, CallState
<1>4. FinalizationTypeOK'
  BY <1>1, <1>2, <1>3 DEF FinalizationTypeOK
<1>5. \A g \in Finalizers : fin'[g].pc # "idle" => g \in Busy /\ fin'[g] = fin[g]
  BY <1>1, <1>3 DEF FinalizationTypeOK, Busy
<1>6. FinInv'
  BY <1>2, <1>5 DEF FinalizationInv, FinInv, Busy, SameRow
<1> QED
  BY <1>2, <1>4, <1>5, <1>6, LeaseStepInv

\* A call goes on with the lease, which it takes or renews.
LEMMA HoldInv ==
  ASSUME FinalizationInv, NEW f \in Busy, NEW step \in {"act", "advance"},
         step = "advance" => fin[f].pc = "verify", NEW durable \in BOOLEAN, NEW token \in Finalizers,
         exec' = [exec EXCEPT ![fin[f].exec] = [@ EXCEPT !.token = token, !.fresh = TRUE]],
         fin' = [fin EXCEPT ![f] = [@ EXCEPT !.pc = step, !.durable = durable]],
         UNCHANGED <<task, reversal, notified, budget>>
  PROVE  FinalizationInv' /\ Irrevocable
<1> DEFINE e == fin[f].exec
           r == [exec[e] EXCEPT !.token = token, !.fresh = TRUE]
           k == [fin[f] EXCEPT !.pc = step, !.durable = durable]
<1>1. FinalizationTypeOK /\ f \in Finalizers /\ e \in Attempts
  BY DEF FinalizationInv, AttemptsAreExclusive, FinInv, Busy
<1>2. /\ r \in ExecRow /\ r.status = exec[e].status /\ r.reason = exec[e].reason
      /\ r.input = exec[e].input /\ r.sample = exec[e].sample /\ r.stage = exec[e].stage
      /\ r.files = exec[e].files /\ r.draft = exec[e].draft
  <2>1. exec[e] \in ExecRow
    BY <1>1 DEF FinalizationTypeOK
  <2> QED
    BY <2>1, LeaseColumns
<1>3. /\ k \in CallState /\ k.pc = step /\ k.exec = e /\ k.stage = fin[f].stage
      /\ k.waiting = fin[f].waiting
  BY <1>1 DEF FinalizationTypeOK, CallState
<1>4. exec' = [exec EXCEPT ![e] = r] /\ fin' = [fin EXCEPT ![f] = k]
  BY <1>1 DEF FinalizationTypeOK
<1> HIDE DEF r, k
<1>5. FinalizationTypeOK' /\ \A d \in Attempts : SameRow(d)
  BY <1>1, <1>2, <1>3, <1>4 DEF FinalizationTypeOK, SameRow
<1>6. \A g \in Finalizers :
        /\ fin'[g].exec = fin[g].exec /\ fin'[g].stage = fin[g].stage
        /\ fin'[g].waiting = fin[g].waiting
        /\ fin'[g].pc # "idle" => g \in Busy
        /\ fin'[g].pc \in {"verify", "advance"} => fin[g].pc \in {"verify", "advance"}
  BY <1>1, <1>3, <1>4 DEF FinalizationTypeOK, Busy
<1>7. FinInv'
  BY <1>5, <1>6 DEF FinalizationInv, FinInv, Busy, SameRow
<1> QED
  BY <1>5, <1>6, <1>7, LeaseStepInv DEF FinalizationInv, ExecInv

LEMMA FinalizerClaimInv ==
  ASSUME FinalizationInv, NEW f \in Finalizers, ClaimFinalization(f)
  PROVE  FinalizationInv' /\ Irrevocable
<1> DEFINE e == fin[f].exec
<1>1. FinalizationTypeOK /\ f \in Busy /\ e \in Attempts
  BY DEF ClaimFinalization, FinalizationInv, AttemptsAreExclusive, FinInv, Busy
<1>2. CASE /\ exec' = [exec EXCEPT ![e].token = f, ![e].fresh = TRUE]
           /\ fin' = [fin EXCEPT ![f].pc = "act",
                                 ![f].durable = fin[f].stage = "terminal" /\ DurableDelivery]
  <2>1. /\ exec' = [exec EXCEPT ![e] = [@ EXCEPT !.token = f, !.fresh = TRUE]]
        /\ fin' = [fin EXCEPT ![f] = [@ EXCEPT !.pc = "act",
                      !.durable = (fin[f].stage = "terminal" /\ DurableDelivery)]]
    BY <1>1, <1>2 DEF FinalizationTypeOK, ExecRow, CallState
  <2>2. (fin[f].stage = "terminal" /\ DurableDelivery) \in BOOLEAN
    OBVIOUS
  <2> QED
    BY <1>1, <2>1, <2>2, HoldInv DEF ClaimFinalization
<1>3. CASE fin' = [fin EXCEPT ![f] = Idle] /\ UNCHANGED exec
  BY <1>1, <1>3, ReturnInv DEF ClaimFinalization, FinalizationInv, ExecInv
<1> QED
  BY <1>2, <1>3 DEF ClaimFinalization

LEMMA VerifyInv ==
  ASSUME FinalizationInv, NEW f \in Finalizers, Verify(f)
  PROVE  FinalizationInv' /\ Irrevocable
<1> DEFINE e == fin[f].exec
<1>1. FinalizationTypeOK /\ f \in Busy /\ e \in Attempts
  BY DEF Verify, FinalizationInv, AttemptsAreExclusive, FinInv, Busy
<1>2. CASE exec[e].token = f /\ Goto(f, "advance") /\ exec' = [exec EXCEPT ![e].fresh = TRUE]
  <2>1. /\ exec' = [exec EXCEPT ![e] = [@ EXCEPT !.token = f, !.fresh = TRUE]]
        /\ fin' = [fin EXCEPT ![f] = [@ EXCEPT !.pc = "advance", !.durable = fin[f].durable]]
    BY <1>1, <1>2 DEF FinalizationTypeOK, ExecRow, CallState, Goto
  <2>2. fin[f].durable \in BOOLEAN
    BY <1>1 DEF FinalizationTypeOK, CallState
  <2> QED
    BY <1>1, <2>1, <2>2, HoldInv DEF Verify
<1>3. CASE Return(f)
  BY <1>1, <1>3, ReturnInv DEF Verify, Return, FinalizationInv, ExecInv
<1> QED
  BY <1>2, <1>3 DEF Verify

LEMMA FaultInv ==
  ASSUME FinalizationInv, NEW f \in Finalizers, ActFails(f) \/ Crash(f)
  PROVE  FinalizationInv' /\ Irrevocable
<1>1. f \in Busy /\ budget' \in [samples : BOOLEAN, faults : Nat]
  BY DEF ActFails, Crash, FinalizationFault, FinalizationInv, ExecInv, Busy
<1> QED
  BY <1>1, ReturnInv DEF ActFails, Crash, Return

\* A step that did its work: the effect of its stage is there now, and no effect of
\* another attempt or stage is lost.
LEMMA WorkInv ==
  ASSUME FinalizationInv, NEW f \in Busy, NEW e \in Attempts, NEW stage, NEW waiting \in BOOLEAN,
         NEW durable \in BOOLEAN, e = fin[f].exec, stage = fin[f].stage,
         fin' = [fin EXCEPT ![f] = [@ EXCEPT !.pc = "verify", !.waiting = waiting,
                                             !.durable = durable]],
         waiting => exec[e].sample,
         task' \in TaskRow, exec' \in [Attempts -> ExecRow], reversal' \subseteq 0..MaxAttempts,
         notified' \subseteq TaskStatuses, UNCHANGED budget,
         \A d \in Attempts :
           /\ exec'[d].status = exec[d].status /\ exec'[d].stage = exec[d].stage
           /\ exec'[d].sample = exec[d].sample,
         Irrevocable, NothingElseRuns', DeliveredOrReversed', OneDelivery', ExecInv', TaskInv',
         Effect(e, stage)',
         \A d \in Attempts : \A s \in StageSet \ {"done"} :
           Effect(d, s) /\ (Beyond(d, s) \/ \E g \in Busy : fin[g].exec = d /\ fin[g].stage = s)
             => Effect(d, s)'
  PROVE  FinalizationInv' /\ Irrevocable
<1>1. FinalizationTypeOK /\ f \in Finalizers
  BY DEF FinalizationInv, AttemptsAreExclusive, Busy
<1> DEFINE k == [fin[f] EXCEPT !.pc = "verify", !.waiting = waiting, !.durable = durable]
<1>2. /\ k \in CallState /\ k.pc = "verify" /\ k.exec = e /\ k.stage = stage
      /\ k.waiting = waiting
  BY <1>1 DEF FinalizationTypeOK, CallState
<1>3. fin' = [fin EXCEPT ![f] = k]
  OBVIOUS
<1> HIDE DEF k
<1>4. FinalizationTypeOK'
  BY <1>1, <1>2, <1>3 DEF FinalizationTypeOK
<1>5. /\ fin'[f] = k /\ \A g \in Finalizers : g # f => fin'[g] = fin[g]
  BY <1>1, <1>3 DEF FinalizationTypeOK
<1>6. \A g \in Finalizers : /\ fin'[g].exec = fin[g].exec /\ fin'[g].stage = fin[g].stage
                            /\ g \in Busy' => g \in Busy
                            /\ g # f => fin'[g].pc = fin[g].pc /\ fin'[g].waiting = fin[g].waiting
  BY <1>2, <1>5 DEF Busy
<1>7. FinInv'
  BY <1>6 DEF FinalizationInv, FinInv, Busy
<1>8. EffectInv'
  <2>1. \A d \in Attempts : \A s \in StageSet \ {"done"} : Beyond(d, s)' => Effect(d, s)'
    BY DEF FinalizationInv, EffectInv, Beyond
  <2>2. ASSUME NEW g \in Busy', fin'[g].pc \in {"verify", "advance"}
        PROVE  Effect(fin[g].exec, fin[g].stage)'
    <3>1. g \in Busy /\ fin'[g].exec = fin[g].exec /\ fin'[g].stage = fin[g].stage
      BY <1>6 DEF Busy
    <3>2. fin[g].exec \in Attempts /\ fin[g].stage \in StageSet \ {"done"}
      BY <3>1 DEF FinalizationInv, FinInv
    <3>3. CASE g # f
      BY <1>6, <2>2, <3>1, <3>2, <3>3 DEF FinalizationInv, EffectInv, Busy
    <3>4. CASE g = f
      BY <3>1, <3>4
    <3> QED
      BY <3>3, <3>4
  <2> QED
    BY <2>1, <2>2 DEF EffectInv
<1> QED
  BY <1>4, <1>7, <1>8 DEF FinalizationInv, AttemptsAreExclusive

\* The state of the files is apart from the other columns.
LEMMA FilesColumn ==
  ASSUME NEW r \in ExecRow, NEW x \in {"delivered", "superseded", "retained"}
  PROVE  LET s == [r EXCEPT !.files = x] IN
         /\ s \in ExecRow /\ s.status = r.status /\ s.reason = r.reason /\ s.sample = r.sample
         /\ s.stage = r.stage /\ s.draft = r.draft /\ s.files = x /\ s.input = r.input
BY DEF ExecRow

LEMMA CoreRunsInv ==
  ASSUME FinalizationInv, NEW f \in Finalizers, NEW e \in Attempts, e = fin[f].exec, fin[f].pc = "act",
         Core(f, e), task.status = "running", UNCHANGED budget
  PROVE  FinalizationInv' /\ Irrevocable
<1>1. FinalizationTypeOK /\ f \in Busy /\ Current(e)
  BY DEF Core, CanFinalize, FinalizationInv, AttemptsAreExclusive, FinInv, Busy
<1>2. /\ fin[f].stage = "terminal" /\ exec' = SettledFiles(e)
      /\ task' = [task EXCEPT !.status = Target(e), !.result = e]
      /\ reversal' = IF ShouldReverse(exec[e].reason, fin[f].durable) /\ reversal = {} THEN {e} ELSE reversal
      /\ UNCHANGED notified
  BY DEF Core, TerminalBilling
<1>3. /\ exec[e].status \in Terminal /\ exec[e].files = "pending"
      /\ exec[e].stage = "terminal"
  BY <1>1 DEF FinalizationInv, TaskInv, FinInv, Busy, ExecInv, Current
<1>4. /\ exec' \in [Attempts -> ExecRow]
      /\ exec'[e].files = IF exec[e].status = "succeeded" THEN "delivered" ELSE "retained"
      /\ \A d \in Attempts :
           /\ exec'[d].status = exec[d].status /\ exec'[d].stage = exec[d].stage
           /\ exec'[d].sample = exec[d].sample /\ exec'[d].reason = exec[d].reason
           /\ exec'[d].draft = exec[d].draft /\ exec'[d].input = exec[d].input
           /\ d # e => exec'[d].files = IF exec[e].status = "succeeded" /\ exec[d].files = "delivered"
                                       THEN "superseded" ELSE exec[d].files
  <2>1. \A d \in Attempts : exec[d] \in ExecRow
    BY <1>1 DEF FinalizationTypeOK
  <2>2. CASE exec[e].status = "succeeded"
    <3>1. \A d \in Attempts : exec'[d] = [exec[d] EXCEPT !.files =
            IF d = e THEN "delivered" ELSE IF @ = "delivered" THEN "superseded" ELSE @]
      BY <1>2, <2>2 DEF SettledFiles
    <3>2. exec' = [d \in Attempts |-> exec'[d]]
      BY <1>2, <2>2 DEF SettledFiles
    <3>3. \A d \in Attempts : d # e => exec'[d] = IF exec[d].files = "delivered"
                                  THEN [exec[d] EXCEPT !.files = "superseded"] ELSE exec[d]
      BY <1>1, <3>1 DEF FinalizationTypeOK, ExecRow
    <3>4. exec'[e] = [exec[e] EXCEPT !.files = "delivered"]
      BY <3>1
    <3>5. ASSUME NEW d \in Attempts
          PROVE  /\ exec'[d] \in ExecRow
                 /\ exec'[d].status = exec[d].status /\ exec'[d].stage = exec[d].stage
                 /\ exec'[d].sample = exec[d].sample /\ exec'[d].reason = exec[d].reason
                 /\ exec'[d].draft = exec[d].draft /\ exec'[d].input = exec[d].input
                 /\ d = e => exec'[d].files = "delivered"
                 /\ d # e => exec'[d].files =
                              IF exec[d].files = "delivered" THEN "superseded" ELSE exec[d].files
      <4>1. CASE d = e
        <5> DEFINE r == [exec[d] EXCEPT !.files = "delivered"]
        <5>1. exec'[d] = r /\ exec[d] \in ExecRow
          BY <2>1, <3>4, <4>1
        <5>2. /\ r \in ExecRow /\ r.status = exec[d].status /\ r.reason = exec[d].reason
              /\ r.sample = exec[d].sample /\ r.stage = exec[d].stage /\ r.draft = exec[d].draft
              /\ r.files = "delivered" /\ r.input = exec[d].input
          BY <5>1, FilesColumn
        <5> HIDE DEF r
        <5> QED
          BY <4>1, <5>1, <5>2
      <4>2. CASE d # e /\ exec[d].files = "delivered"
        <5> DEFINE r == [exec[d] EXCEPT !.files = "superseded"]
        <5>1. exec'[d] = r /\ exec[d] \in ExecRow
          BY <2>1, <3>3, <4>2
        <5>2. /\ r \in ExecRow /\ r.status = exec[d].status /\ r.reason = exec[d].reason
              /\ r.sample = exec[d].sample /\ r.stage = exec[d].stage /\ r.draft = exec[d].draft
              /\ r.files = "superseded" /\ r.input = exec[d].input
          BY <5>1, FilesColumn
        <5> HIDE DEF r
        <5> QED
          BY <4>2, <5>1, <5>2
      <4>3. CASE d # e /\ exec[d].files # "delivered"
        <5>1. exec'[d] = exec[d]
          BY <3>3, <4>3
        <5> QED
          BY <2>1, <4>3, <5>1
      <4> QED
        BY <4>1, <4>2, <4>3
    <3>6. exec' \in [Attempts -> ExecRow]
      BY <3>2, <3>5
    <3> QED
      BY <2>2, <3>5, <3>6
  <2>3. CASE exec[e].status # "succeeded"
    <3> DEFINE r == [exec[e] EXCEPT !.files = "retained"]
    <3>1. exec' = [exec EXCEPT ![e] = r]
      BY <1>1, <1>2, <2>3 DEF SettledFiles, FinalizationTypeOK
    <3>2. /\ r \in ExecRow /\ r.status = exec[e].status /\ r.reason = exec[e].reason
          /\ r.sample = exec[e].sample /\ r.stage = exec[e].stage /\ r.draft = exec[e].draft
          /\ r.files = "retained" /\ r.input = exec[e].input
      BY <2>1, FilesColumn
    <3> HIDE DEF r
    <3> QED
      BY <1>1, <2>1, <2>3, <3>1, <3>2 DEF FinalizationTypeOK
  <2> QED
    BY <2>2, <2>3
<1>5. /\ Target(e) \in {"awaiting_review", "completed", "cancelled", "failed"}
      /\ Target(e) = "awaiting_review" <=> exec[e].sample
  BY DEF Target, Verdict
<1>6. task' \in TaskRow /\ task'.status = Target(e) /\ task'.cur = task.cur
  <2>1. e \in 0..MaxAttempts
    BY <1>1, FinalizationAssumption DEF Attempts
  <2> QED
    BY <1>1, <1>2, <1>5, <2>1 DEF FinalizationTypeOK, TaskRow, TaskStatuses
<1>7. reversal' \subseteq reversal \cup {e} /\ (e \in reversal' => exec[e].status # "succeeded")
  BY <1>1, <1>2, <1>3 DEF FinalizationInv, AttemptsAreExclusive, DeliveredOrReversed, ExecInv,
     ShouldReverse
<1>8. NothingElseRuns' /\ DeliveredOrReversed' /\ OneDelivery'
  <2>1. NothingElseRuns'
    <3>1. \A d \in Attempts : exec[d].status \notin Active
      BY <1>1, <1>3 DEF FinalizationInv, AttemptsAreExclusive, NothingElseRuns, Current, Active,
         Terminal
    <3> QED
      BY <1>4, <3>1 DEF NothingElseRuns
  <2>2. DeliveredOrReversed'
    BY <1>4, <1>7 DEF FinalizationInv, AttemptsAreExclusive, DeliveredOrReversed
  <2>3. OneDelivery'
    BY <1>4 DEF FinalizationInv, AttemptsAreExclusive, OneDelivery
  <2> QED
    BY <2>1, <2>2, <2>3
<1>9. ExecInv' /\ TaskInv'
  <2>1. ExecInv'
    BY <1>3, <1>4, <1>6 DEF FinalizationInv, ExecInv, Current
  <2>2. TaskInv'
    BY <1>1, <1>3, <1>4, <1>5, <1>6
    DEF TaskInv, AwaitsReview, Current, FinalizationTypeOK, TaskRow, Attempts
  <2> QED
    BY <2>1, <2>2
<1>10. Effect(e, "terminal")'
  BY <1>4 DEF Effect
<1>11. \A d \in Attempts : \A s \in StageSet \ {"done"} :
         Effect(d, s) /\ (Beyond(d, s) \/ \E g \in Busy : fin[g].exec = d /\ fin[g].stage = s)
           => Effect(d, s)'
  <2> SUFFICES ASSUME NEW d \in Attempts, NEW s \in StageSet \ {"done"}, Effect(d, s),
                      Beyond(d, s) \/ \E g \in Busy : fin[g].exec = d /\ fin[g].stage = s
               PROVE  Effect(d, s)'
    OBVIOUS
  <2>1. CASE s = "terminal"
    BY <1>4, <2>1 DEF Effect
  <2>2. CASE s \in {"workflow", "dispatch"}
    BY <1>2, <1>4, <2>2 DEF Effect, Verdict, Target
  <2>3. CASE s = "draft_delivery"
    <3>1. d # e
      BY <1>3, <2>3, StageFacts DEF FinalizationInv, FinInv, Beyond
    <3> QED
      BY <1>1, <1>6, <2>3, <3>1 DEF Effect, Current
  <2> QED
    BY <2>1, <2>2, <2>3, StageFacts
<1>12. fin' = [fin EXCEPT ![f] = [@ EXCEPT !.pc = "verify",
                      !.waiting = (Target(e) = "awaiting_review"), !.durable = FALSE]]
  BY <1>1 DEF Core, FinalizationTypeOK, CallState
<1>13. reversal' \subseteq 0..MaxAttempts /\ notified' \subseteq TaskStatuses
  BY <1>1, <1>2, <1>7, FinalizationAssumption DEF FinalizationTypeOK, Attempts
<1>14. (Target(e) = "awaiting_review") \in BOOLEAN /\ FALSE \in BOOLEAN
  OBVIOUS
<1>15. Irrevocable
  <2>1. \A s \in StageSet : Rank(s) >= Rank(s)
    BY StageFacts
  <2>2. StagesOnlyForward
    BY <1>4, <2>1 DEF StagesOnlyForward
  <2>3. OneVerdict
    <3>1. task.cur = e /\ e # 0
      BY <1>1 DEF Current, Attempts
    <3>2. Target(e) \in {Verdict(e), Target(e)}
      OBVIOUS
    <3> QED
      BY <1>3, <1>4, <1>6, <3>1, <3>2 DEF OneVerdict
  <2>4. DeliveryIsReplaced
    <3> SUFFICES ASSUME NEW d \in Attempts, exec[d].files = "delivered", exec'[d].files # "delivered"
                 PROVE  e > d /\ exec'[e].files = "delivered"
      BY DEF DeliveryIsReplaced
    <3>1. d # e /\ exec[e].status = "succeeded"
      BY <1>3, <1>4
    <3>2. d <= task.cur
      <4>1. exec[d].status \in Terminal
        BY DEF FinalizationInv, ExecInv
      <4> QED
        BY <4>1 DEF FinalizationInv, ExecInv, Terminal
    <3>3. e > d
      BY <1>1, <3>1, <3>2 DEF Current, Attempts
    <3> QED
      BY <1>4, <3>1, <3>3
  <2> QED
    BY <2>2, <2>3, <2>4 DEF Irrevocable
<1> QED
  BY <1>1, <1>2, <1>4, <1>5, <1>6, <1>8, <1>9, <1>10, <1>11, <1>12, <1>13, <1>14, <1>15, WorkInv

LEMMA CoreAgainInv ==
  ASSUME FinalizationInv, NEW f \in Finalizers, NEW e \in Attempts, e = fin[f].exec, fin[f].pc = "act",
         Core(f, e), task.status # "running", UNCHANGED budget
  PROVE  FinalizationInv' /\ Irrevocable
<1>1. FinalizationTypeOK /\ f \in Busy /\ Current(e) /\ AlreadyFinal(e)
  BY DEF Core, CanFinalize, FinalizationInv, AttemptsAreExclusive, Busy
<1>2. /\ fin[f].stage = "terminal" /\ UNCHANGED <<task, exec, notified, budget>>
      /\ reversal' = IF ShouldReverse(exec[e].reason, fin[f].durable) /\ reversal = {} THEN {e} ELSE reversal
  BY DEF Core, TerminalBilling
<1>3. exec[e].files = IF exec[e].status = "succeeded" THEN "delivered" ELSE "retained"
  BY <1>1 DEF AlreadyFinal
<1>4. reversal' \subseteq reversal \cup {e} /\ (e \in reversal' => exec[e].status # "succeeded")
  BY <1>1, <1>2 DEF FinalizationInv, AttemptsAreExclusive, DeliveredOrReversed, ExecInv,
     ShouldReverse
<1>5. NothingElseRuns' /\ DeliveredOrReversed' /\ OneDelivery' /\ ExecInv' /\ TaskInv'
  BY <1>2, <1>3, <1>4 DEF FinalizationInv, AttemptsAreExclusive, NothingElseRuns,
     DeliveredOrReversed, OneDelivery, ExecInv, TaskInv, AwaitsReview, Current
<1>6. Effect(e, "terminal")'
  BY <1>2, <1>3 DEF Effect
<1>7. \A d \in Attempts : \A s : Effect(d, s) => Effect(d, s)'
  BY <1>2 DEF Effect, Verdict, Target, Current, EndedWell
<1>8. reversal' \subseteq 0..MaxAttempts /\ task' \in TaskRow /\ exec' \in [Attempts -> ExecRow]
      /\ notified' \subseteq TaskStatuses
  <2>1. e \in 0..MaxAttempts
    BY FinalizationAssumption DEF Attempts
  <2> QED
    BY <1>1, <1>2, <1>4, <2>1 DEF FinalizationTypeOK
<1>9. fin' = [fin EXCEPT ![f] = [@ EXCEPT !.pc = "verify",
                      !.waiting = (Target(e) = "awaiting_review"), !.durable = FALSE]]
  BY <1>1 DEF Core, FinalizationTypeOK, CallState
<1>10. /\ (Target(e) = "awaiting_review") \in BOOLEAN /\ FALSE \in BOOLEAN
       /\ Target(e) = "awaiting_review" => exec[e].sample
  BY DEF Target, Verdict
<1>11. Irrevocable
  BY <1>2, KeepLemma
<1> QED
  BY <1>1, <1>2, <1>5, <1>6, <1>7, <1>8, <1>9, <1>10, <1>11, WorkInv

\* A later step of the finalizer: it touches the draft, the outcome or the notification.
LEMMA LaterInv ==
  ASSUME FinalizationInv, NEW f \in Finalizers, NEW e \in Attempts, e = fin[f].exec, fin[f].pc = "act",
         Goto(f, "verify"), UNCHANGED <<reversal, budget>>,
         \/ /\ fin[f].stage = "workflow" /\ exec' = [exec EXCEPT ![e].draft = TRUE]
            /\ UNCHANGED <<task, notified>>
         \/ /\ fin[f].stage = "draft_delivery" /\ Current(e) /\ task' = [task EXCEPT !.outcome = e]
            /\ UNCHANGED <<exec, notified>>
         \/ /\ fin[f].stage = "dispatch" /\ UNCHANGED <<task, exec>>
            /\ notified' = notified \cup {IF fin[f].waiting THEN "awaiting_review" ELSE Verdict(e)}
  PROVE  FinalizationInv' /\ Irrevocable
<1>1. FinalizationTypeOK /\ f \in Busy /\ fin[f].waiting \in BOOLEAN /\ fin[f].durable \in BOOLEAN
  BY DEF FinalizationInv, AttemptsAreExclusive, Busy, FinalizationTypeOK, CallState
<1>2. fin' = [fin EXCEPT ![f] = [@ EXCEPT !.pc = "verify", !.waiting = fin[f].waiting,
                                          !.durable = fin[f].durable]]
  BY <1>1 DEF Goto, FinalizationTypeOK, CallState
<1>3. fin[f].waiting => exec[e].sample
  BY <1>1 DEF FinalizationInv, FinInv
<1>4. CASE fin[f].stage = "workflow" /\ exec' = [exec EXCEPT ![e].draft = TRUE] /\ UNCHANGED <<task, notified>>
  <2>0. exec[e] \in ExecRow
    BY <1>1 DEF FinalizationTypeOK
  <2>1. [exec[e] EXCEPT !.draft = TRUE] \in ExecRow
    BY <2>0 DEF ExecRow
  <2>2. /\ exec' \in [Attempts -> ExecRow] /\ exec'[e].draft
        /\ \A d \in Attempts :
             /\ exec'[d].status = exec[d].status /\ exec'[d].stage = exec[d].stage
             /\ exec'[d].sample = exec[d].sample /\ exec'[d].files = exec[d].files
             /\ exec'[d].reason = exec[d].reason /\ exec'[d].input = exec[d].input
             /\ exec[d].draft => exec'[d].draft
    BY <1>1, <1>4, <2>1 DEF FinalizationTypeOK, ExecRow
  <2>3. NothingElseRuns' /\ DeliveredOrReversed' /\ OneDelivery' /\ ExecInv'
    BY <1>4, <2>2 DEF FinalizationInv, AttemptsAreExclusive, NothingElseRuns, DeliveredOrReversed,
       OneDelivery, ExecInv, Current
  <2>4. TaskInv'
    <3>1. task.cur # 0 => task.cur \in Attempts
      BY <1>1, FinalizationAssumption DEF FinalizationTypeOK, TaskRow, Attempts
    <3> QED
      BY <1>4, <2>2, <3>1 DEF FinalizationInv, TaskInv, AwaitsReview
  <2>5. Effect(e, "workflow")' /\ \A d \in Attempts : \A s : Effect(d, s) => Effect(d, s)'
    BY <1>4, <2>2 DEF Effect, Verdict, Target, Current, EndedWell
  <2>6. task' \in TaskRow /\ reversal' \subseteq 0..MaxAttempts /\ notified' \subseteq TaskStatuses
    BY <1>1, <1>4 DEF FinalizationTypeOK
  <2>7. Irrevocable
    BY <1>4, <2>2, KeepLemma
  <2> QED
    BY <1>1, <1>2, <1>3, <1>4, <2>2, <2>3, <2>4, <2>5, <2>6, <2>7, WorkInv
<1>5. CASE /\ fin[f].stage = "draft_delivery" /\ Current(e) /\ task' = [task EXCEPT !.outcome = e]
           /\ UNCHANGED <<exec, notified>>
  <2>1. e \in 0..MaxAttempts
    BY FinalizationAssumption DEF Attempts
  <2>2. /\ task' \in TaskRow /\ task'.status = task.status /\ task'.cur = task.cur
        /\ task'.from = task.from /\ task'.outcome = e
    BY <1>1, <1>5, <2>1 DEF FinalizationTypeOK, TaskRow
  <2>3. NothingElseRuns' /\ DeliveredOrReversed' /\ OneDelivery' /\ ExecInv' /\ TaskInv'
    BY <1>5, <2>2 DEF FinalizationInv, AttemptsAreExclusive, NothingElseRuns, DeliveredOrReversed,
       OneDelivery, ExecInv, TaskInv, AwaitsReview, Current
  <2>4. Effect(e, "draft_delivery")' /\ \A d \in Attempts : \A s : Effect(d, s) => Effect(d, s)'
    BY <1>5, <2>2 DEF Effect, Verdict, Target, Current, EndedWell
  <2>5. exec' \in [Attempts -> ExecRow] /\ reversal' \subseteq 0..MaxAttempts /\ notified' \subseteq TaskStatuses
    BY <1>1, <1>5 DEF FinalizationTypeOK
  <2>6. Irrevocable
    BY <1>5, <2>2, KeepLemma
  <2> QED
    BY <1>1, <1>2, <1>3, <1>5, <2>2, <2>3, <2>4, <2>5, <2>6, WorkInv
<1>6. CASE /\ fin[f].stage = "dispatch" /\ UNCHANGED <<task, exec>>
           /\ notified' = notified \cup {IF fin[f].waiting THEN "awaiting_review" ELSE Verdict(e)}
  <2>1. NothingElseRuns' /\ DeliveredOrReversed' /\ OneDelivery' /\ ExecInv' /\ TaskInv'
    BY <1>6 DEF FinalizationInv, AttemptsAreExclusive, NothingElseRuns, DeliveredOrReversed,
       OneDelivery, ExecInv, TaskInv, AwaitsReview, Current
  <2>2. \A d \in Attempts : \A s : Effect(d, s) => Effect(d, s)'
    BY <1>6 DEF Effect, Verdict, Target, Current, EndedWell
  <2>3. Effect(e, "dispatch")'
    BY <1>3, <1>6 DEF Effect, Verdict, Target
  <2>4. /\ task' \in TaskRow /\ exec' \in [Attempts -> ExecRow] /\ reversal' \subseteq 0..MaxAttempts
        /\ notified' \subseteq TaskStatuses
    BY <1>1, <1>6 DEF FinalizationTypeOK, TaskStatuses, Verdict
  <2>5. Irrevocable
    BY <1>6, KeepLemma
  <2> QED
    BY <1>1, <1>2, <1>3, <1>6, <2>1, <2>2, <2>3, <2>4, <2>5, WorkInv
<1> QED
  BY <1>4, <1>5, <1>6

LEMMA ActInv ==
  ASSUME FinalizationInv, NEW f \in Finalizers, Act(f)
  PROVE  FinalizationInv' /\ Irrevocable
<1> DEFINE e == fin[f].exec
<1>1. /\ f \in Busy /\ e \in Attempts /\ fin[f].pc = "act" /\ UNCHANGED budget
      /\ Core(f, e) \/ CoreLost(f, e) \/ DraftDelivery(f, e) \/ TaskOutcome(f, e) \/ Notify(f, e)
      /\ budget' \in [samples : BOOLEAN, faults : Nat]
  BY DEF Act, FinalizationInv, FinInv, ExecInv, Busy
<1>2. CASE Core(f, e)
  BY <1>1, <1>2, CoreRunsInv, CoreAgainInv
<1>3. CASE CoreLost(f, e)
  BY <1>1, <1>3, ReturnInv DEF CoreLost, Return
<1>4. CASE DraftDelivery(f, e)
  BY <1>1, <1>4, LaterInv DEF DraftDelivery
<1>5. CASE TaskOutcome(f, e)
  <2>1. CASE ~Current(e) /\ Return(f) /\ UNCHANGED task
    BY <1>1, <1>5, <2>1, ReturnInv DEF TaskOutcome, Return
  <2>2. CASE Current(e) /\ task' = [task EXCEPT !.outcome = e] /\ Goto(f, "verify") /\ UNCHANGED exec
    BY <1>1, <1>5, <2>2, LaterInv DEF TaskOutcome
  <2> QED
    BY <1>5, <2>1, <2>2 DEF TaskOutcome
<1>6. CASE Notify(f, e)
  BY <1>1, <1>6, LaterInv DEF Notify
<1> QED
  BY <1>1, <1>2, <1>3, <1>4, <1>5, <1>6

\* The next stage is written, by the call whose work is done.
LEMMA AdvanceInv ==
  ASSUME FinalizationInv, NEW f \in Finalizers, Advance(f)
  PROVE  FinalizationInv' /\ Irrevocable
<1> DEFINE e == fin[f].exec
           stage == fin[f].stage
           next == NextStage(stage)
<1>1. /\ FinalizationTypeOK /\ f \in Busy /\ e \in Attempts /\ fin[f].pc = "advance"
      /\ stage \in StageSet \ {"done"} /\ UNCHANGED <<task, reversal, notified, budget>>
      /\ exec[e].status \in Terminal
  BY DEF Advance, FinalizationInv, AttemptsAreExclusive, FinInv, Busy
<1>2. next \in StageSet /\ next # "terminal" /\ Rank(next) = Rank(stage) + 1 /\ Rank(stage) \in Nat
  BY <1>1, StageFacts
<1>3. CASE Return(f)
  BY <1>1, <1>3, ReturnInv DEF Return, FinalizationInv, ExecInv
<1>4. ASSUME MayAdvance(f, e), NEW token \in Finalizers \cup {Nothing}, NEW fresh \in BOOLEAN,
             exec' = [exec EXCEPT ![e] = [@ EXCEPT !.stage = next, !.token = token, !.fresh = fresh]],
             \/ next # "done" /\ fin' = [fin EXCEPT ![f] = [@ EXCEPT !.pc = "act", !.stage = next]]
             \/ fin' = [fin EXCEPT ![f] = Idle]
      PROVE  FinalizationInv' /\ Irrevocable
  <2>1. exec[e].stage = stage
    BY <1>4 DEF MayAdvance
  <2> DEFINE r == [exec[e] EXCEPT !.stage = next, !.token = token, !.fresh = fresh]
  <2>2. exec[e] \in ExecRow
    BY <1>1 DEF FinalizationTypeOK
  <2>3. r \in ExecRow
    BY <1>2, <2>2 DEF ExecRow
  <2>4. /\ r.status = exec[e].status /\ r.reason = exec[e].reason /\ r.sample = exec[e].sample
        /\ r.input = exec[e].input /\ r.stage = next /\ r.files = exec[e].files /\ r.draft = exec[e].draft
    BY <2>2 DEF ExecRow
  <2>5. exec' = [exec EXCEPT ![e] = r]
    BY <1>4
  <2> HIDE DEF r
  <2>6. /\ exec' \in [Attempts -> ExecRow] /\ exec'[e].stage = next
        /\ \A d \in Attempts :
             /\ exec'[d].status = exec[d].status /\ exec'[d].reason = exec[d].reason
             /\ exec'[d].sample = exec[d].sample /\ exec'[d].files = exec[d].files
             /\ exec'[d].draft = exec[d].draft /\ exec'[d].input = exec[d].input
             /\ d # e => exec'[d].stage = exec[d].stage
    BY <1>1, <2>3, <2>4, <2>5 DEF FinalizationTypeOK
  <2>7. \A g \in Finalizers : g # f => fin'[g] = fin[g]
    BY <1>1, <1>4 DEF FinalizationTypeOK
  <2>8. /\ fin'[f] \in CallState /\ fin'[f].pc \in {"idle", "act"}
        /\ f \in Busy' => fin'[f].exec = e /\ fin'[f].stage = next /\ next # "done"
                          /\ fin'[f].waiting = fin[f].waiting
    <3>1. CASE next # "done" /\ fin' = [fin EXCEPT ![f] = [@ EXCEPT !.pc = "act", !.stage = next]]
      BY <1>1, <1>2, <3>1 DEF FinalizationTypeOK, CallState
    <3>2. CASE fin' = [fin EXCEPT ![f] = Idle]
      BY <1>1, <3>2, FinalizationAssumption DEF FinalizationTypeOK, CallState, Idle, Busy
    <3> QED
      BY <1>4, <3>1, <3>2
  <2>9. fin' \in [Finalizers -> CallState]
    BY <1>1, <1>4, <2>7, <2>8 DEF FinalizationTypeOK
  <2>10. FinalizationTypeOK'
    BY <1>1, <2>6, <2>9 DEF FinalizationTypeOK
  <2>11. NothingElseRuns' /\ DeliveredOrReversed' /\ OneDelivery'
    BY <1>1, <2>6 DEF FinalizationInv, AttemptsAreExclusive, NothingElseRuns, DeliveredOrReversed,
       OneDelivery, Current
  <2>12. next # "none" /\ next # "superseded"
    BY <1>2, StageFacts
  <2>13. ExecInv'
    BY <1>1, <2>6, <2>12 DEF FinalizationInv, ExecInv, Current
  <2>14. Effect(e, stage)
    BY <1>1 DEF FinalizationInv, EffectInv
  <2>15. TaskInv'
    <3>1. task.cur # 0 => task.cur \in Attempts
      BY <1>1, FinalizationAssumption DEF FinalizationTypeOK, TaskRow, Attempts
    <3>2. task.status = "running" => task.cur # e
      <4>1. task.status = "running" /\ task.cur = e => exec[e].files = "pending" /\ stage = "terminal"
        BY <1>1, <2>1, StageFacts DEF FinalizationInv, TaskInv
      <4> QED
        BY <2>14, <4>1 DEF Effect
    <3> QED
      BY <1>1, <2>6, <3>1, <3>2 DEF FinalizationInv, TaskInv, AwaitsReview
  <2>16. FinInv'
    <3> SUFFICES ASSUME NEW g \in Busy'
                 PROVE  /\ fin'[g].exec \in Attempts /\ exec'[fin'[g].exec].status \in Terminal
                        /\ fin'[g].stage \in StageSet \ {"done"}
                        /\ exec'[fin'[g].exec].stage # "superseded" =>
                             Rank(fin'[g].stage) <= Rank(exec'[fin'[g].exec].stage)
                        /\ fin'[g].waiting => exec'[fin'[g].exec].sample
      BY DEF FinInv
    <3>1. CASE g = f
      <4>1. fin[f].waiting => exec[e].sample
        BY <1>1 DEF FinalizationInv, FinInv
      <4>2. Rank(next) <= Rank(next)
        BY <1>2
      <4> QED
        BY <1>1, <1>2, <2>6, <2>8, <3>1, <4>1, <4>2
    <3>2. CASE g # f
      <4>1. g \in Busy /\ fin'[g] = fin[g]
        BY <2>7, <3>2 DEF Busy
      <4>2. Rank(fin[g].stage) \in Nat
        BY <4>1, StageFacts DEF FinalizationInv, FinInv
      <4>3. CASE fin[g].exec = e
        <5>1. Rank(fin[g].stage) <= Rank(stage)
          BY <1>1, <1>2, <2>1, <4>1, <4>3, StageFacts DEF FinalizationInv, FinInv
        <5> QED
          BY <1>2, <2>6, <4>1, <4>2, <4>3, <5>1 DEF FinalizationInv, FinInv
      <4>4. CASE fin[g].exec # e
        BY <2>6, <4>1, <4>4 DEF FinalizationInv, FinInv
      <4> QED
        BY <4>3, <4>4
    <3> QED
      BY <3>1, <3>2
  <2>17. \A d \in Attempts : \A s : Effect(d, s) => Effect(d, s)'
    BY <1>1, <2>6 DEF Effect, Verdict, Target, Current, EndedWell
  <2>18. EffectInv'
    <3>1. ASSUME NEW d \in Attempts, NEW s \in StageSet \ {"done"}, Beyond(d, s)'
          PROVE  Effect(d, s)'
      <4>1. CASE d # e
        BY <2>6, <2>17, <3>1, <4>1 DEF FinalizationInv, EffectInv, Beyond
      <4>2. CASE d = e
        <5>1. Rank(s) \in Nat /\ Rank(next) > Rank(s)
          BY <2>6, <3>1, <4>2, StageFacts DEF Beyond
        <5>2. s = stage \/ Rank(stage) > Rank(s)
          BY <1>1, <1>2, <5>1, StageFacts
        <5>3. Effect(e, s)
          BY <1>1, <2>1, <2>14, <5>2 DEF FinalizationInv, EffectInv, Beyond
        <5> QED
          BY <2>17, <4>2, <5>3
      <4> QED
        BY <4>1, <4>2
    <3>2. ASSUME NEW g \in Busy', fin'[g].pc \in {"verify", "advance"}
          PROVE  Effect(fin[g].exec, fin[g].stage)'
      <4>1. g # f
        BY <2>8, <3>2
      <4>2. g \in Busy /\ fin'[g] = fin[g]
        BY <2>7, <4>1 DEF Busy
      <4> QED
        BY <2>17, <3>2, <4>2 DEF FinalizationInv, FinInv, EffectInv
    <3> QED
      BY <3>1, <3>2 DEF EffectInv
  <2>19. Irrevocable
    <3>1. exec[e].stage \notin {"done", "superseded"} /\ Rank(next) >= Rank(stage)
      BY <1>1, <1>2, <2>1, StageFacts
    <3>2. \A s \in StageSet : Rank(s) >= Rank(s)
      BY StageFacts
    <3>3. StagesOnlyForward
      BY <2>1, <2>6, <3>1, <3>2 DEF StagesOnlyForward
    <3>4. OneVerdict /\ DeliveryIsReplaced
      BY <1>1, <2>6 DEF OneVerdict, DeliveryIsReplaced
    <3> QED
      BY <3>3, <3>4 DEF Irrevocable
  <2> QED
    BY <2>10, <2>11, <2>13, <2>15, <2>16, <2>18, <2>19 DEF FinalizationInv, AttemptsAreExclusive
<1>5. CASE /\ MayAdvance(f, e) /\ next # "done"
           /\ exec' = [exec EXCEPT ![e].stage = next, ![e].fresh = TRUE]
           /\ fin' = [fin EXCEPT ![f].pc = "act", ![f].stage = next]
  <2>1. /\ exec' = [exec EXCEPT ![e] = [@ EXCEPT !.stage = next, !.token = exec[e].token, !.fresh = TRUE]]
        /\ fin' = [fin EXCEPT ![f] = [@ EXCEPT !.pc = "act", !.stage = next]]
    BY <1>1, <1>5 DEF FinalizationTypeOK, ExecRow, CallState
  <2>2. exec[e].token \in Finalizers \cup {Nothing}
    BY <1>1 DEF FinalizationTypeOK, ExecRow
  <2> QED
    BY <1>4, <1>5, <2>1, <2>2
<1>6. CASE /\ MayAdvance(f, e)
           /\ exec' = [exec EXCEPT ![e].stage = next, ![e].token = Nothing, ![e].fresh = FALSE]
           /\ fin' = [fin EXCEPT ![f] = Idle]
  <2>1. exec' = [exec EXCEPT ![e] = [@ EXCEPT !.stage = next, !.token = Nothing, !.fresh = FALSE]]
    BY <1>1, <1>6 DEF FinalizationTypeOK, ExecRow
  <2> QED
    BY <1>4, <1>6, <2>1
<1> QED
  BY <1>3, <1>5, <1>6 DEF Advance

-----------------------------------------------------------------------------
(* The theorems                                                              *)

LEMMA StepInv == FinalizationInv /\ FinalizationNext => FinalizationInv' /\ Irrevocable
<1> SUFFICES ASSUME FinalizationInv, FinalizationNext PROVE FinalizationInv' /\ Irrevocable
    OBVIOUS
<1>1. CASE ResetRetryableTask \/ Review \/ RecoverPublication \/ EnqueueFails \/ FailPendingTask
  BY <1>1, TaskInvariant
<1>2. CASE \E e \in Attempts :
             CreateCurrentExecution(e) \/ Dispatched(e) \/ RetireSuperseded(e) \/ LeaseEnds(e)
  BY <1>2, CreateInv, DispatchedInv, RetireInv, LeaseInv
<1>3. CASE \E f \in Finalizers : Step(f) \/ ActFails(f) \/ Crash(f)
  BY <1>3, FinalizerClaimInv, ActInv, VerifyInv, AdvanceInv, FaultInv DEF Step
<1>4. CASE \E f \in Finalizers : \E e \in Attempts :
             \/ TerminalizeCurrentExecution(f, e) \/ CancelCloudExecution(f, e) \/ ResumeFinalization(f, e)
             \/ \E i \in Inputs : Complete(f, e, i) \/ CompleteAgain(f, e, i)
  BY <1>4, EndingInv
<1> QED
  BY <1>1, <1>2, <1>3, <1>4 DEF FinalizationNext

LEMMA StutterInv == FinalizationInv /\ UNCHANGED finalizationVars => FinalizationInv'
BY DEF finalizationVars, FinalizationInv, AttemptsAreExclusive, FinalizationTypeOK,
   NothingElseRuns, DeliveredOrReversed, OneDelivery, ExecInv, TaskInv, FinInv, EffectInv, Busy,
   Effect, Beyond, AwaitsReview, EndedWell, Current, Verdict, Target

\* The invariant on which the theorems rest.
THEOREM FinalizationInvariance == FinalizationSpec => []FinalizationInv
<1>1. FinalizationInv /\ [FinalizationNext]_finalizationVars => FinalizationInv'
  BY StepInv, StutterInv
<1> QED
  BY FinalizationInitInv, <1>1, PTL DEF FinalizationSpec

\* However many finalizers, attempts, crashes and lost leases: one attempt at most runs,
\* one at most has its files delivered, and none is delivered and refunded
\* (createCurrentExecution, deliverLockedExecutionManifest, persistTerminalBillingInTx).
THEOREM Exclusive == FinalizationSpec => []AttemptsAreExclusive
<1>1. FinalizationInv => AttemptsAreExclusive
  BY DEF FinalizationInv
<1> QED
  BY FinalizationInvariance, <1>1, PTL

\* A stage that was passed has left its effect, although the call that worked on it
\* crashed, was replaced, or worked from an old snapshot (AdvanceFinalization).
THEOREM EffectsOfStages == FinalizationSpec => []StagesHaveEffects
<1>1. FinalizationInv => StagesHaveEffects
  <2> SUFFICES ASSUME FinalizationInv, NEW e \in Attempts
               PROVE  /\ Beyond(e, "terminal") => Effect(e, "terminal")
                      /\ Beyond(e, "workflow") => Effect(e, "workflow")
                      /\ Beyond(e, "draft_delivery") => Effect(e, "draft_delivery")
                      /\ Beyond(e, "dispatch") => Effect(e, "dispatch")
    BY DEF StagesHaveEffects, Effect, EndedWell
  <2> QED
    BY StageFacts DEF FinalizationInv, EffectInv
<1> QED
  BY FinalizationInvariance, <1>1, PTL

\* Verdict, stage and delivery are final, for any number of processes: one verdict is
\* written, stages go forward, and delivered files give way only to a newer attempt's
\* (Transition, AdvanceFinalization, deliverLockedExecutionManifest).
THEOREM NothingUndone == FinalizationSpec => NothingIsUndone
<1>1. FinalizationInv /\ [FinalizationNext]_finalizationVars => [OneVerdict /\ StagesOnlyForward /\ DeliveryIsReplaced]_finalizationVars
  BY StepInv DEF Irrevocable
<1> QED
  BY FinalizationInvariance, <1>1, PTL DEF FinalizationSpec, NothingIsUndone
=============================================================================
