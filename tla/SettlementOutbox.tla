--------------------------- MODULE SettlementOutbox ---------------------------
(***************************************************************************)
(* The billing settlement outbox: charges and reversals that a task, a plan *)
(* or a design wrote down in its own transaction, and the maintenance       *)
(* workers of the servers that claim them in batches, apply them to the     *)
(* wallet one by one and mark them.  A claim is a lease on the row, fenced  *)
(* by the row's attempts counter.                                           *)
(*                                                                          *)
(* Time is abstract: a row's backoff or lease is over when the row becomes  *)
(* ready.  That a lease runs out under a live worker, a crash, and an error *)
(* of the database are faults, of which there are finitely many.            *)
(***************************************************************************)
EXTENDS Naturals, FiniteSets

CONSTANTS
  Workers,      \* servers running a BillingMaintenanceWorker
  Settlements,  \* the settlements, numbered in the order they are written
  Refusable,    \* those the wallet may refuse for good
  BatchSize,    \* OutboxBatchSize
  MaxFaults     \* bound on the faults

ASSUME OutboxAssumption ==
  /\ Settlements \subseteq Nat /\ Refusable \subseteq Settlements
  /\ BatchSize \in Nat \ {0} /\ MaxFaults \in Nat

VARIABLES
  row,      \* settlement -> status, attempts and whether its time has come
  posted,   \* settlement -> how often the wallet posted it
  batch,    \* worker -> settlements claimed and not yet marked
  token,    \* worker -> settlement -> the attempts it was claimed with
  result,   \* worker -> what to mark the oldest of its batch with, or "none"
  faults    \* faults so far

outboxVars == <<row, posted, batch, token, result, faults>>

Settled == {"processed", "failed"}
Status  == {"none", "pending", "processing", "retry"} \cup Settled
Row     == [status : Status, attempts : Nat, ready : BOOLEAN]

OutboxTypeOK ==
  /\ row \in [Settlements -> Row] /\ posted \in [Settlements -> Nat]
  /\ batch \in [Workers -> SUBSET Settlements]
  /\ token \in [Workers -> [Settlements -> Nat]]
  /\ result \in [Workers -> {"none", "retry"} \cup Settled] /\ faults \in 0..MaxFaults

OutboxInit ==
  /\ row = [s \in Settlements |-> [status |-> "none", attempts |-> 0, ready |-> FALSE]]
  /\ posted = [s \in Settlements |-> 0]
  /\ batch = [w \in Workers |-> {}]
  /\ token = [w \in Workers |-> [s \in Settlements |-> 0]]
  /\ result = [w \in Workers |-> "none"] /\ faults = 0

Fault == faults < MaxFaults /\ faults' = faults + 1

\* EnqueueSettlementInTx, inside the transaction that decided on the settlement.
\* The idempotency key admits one row however often it is repeated.
Enqueue(s) ==
  /\ row[s].status = "none" /\ \A t \in Settlements : t < s => row[t].status # "none"
  /\ row' = [row EXCEPT ![s].status = "pending"]
  /\ UNCHANGED <<posted, batch, token, result, faults>>

-----------------------------------------------------------------------------
(* Claiming a batch                                                          *)

\* Mutant: a row left in processing by a dead worker is never taken over.
ClaimableOnce(s) ==
  row[s].status = "pending" \/ (row[s].status = "retry" /\ row[s].ready)

Claimable(s) ==
  \/ row[s].status = "pending"
  \/ (row[s].status \in {"retry", "processing"} /\ row[s].ready)

\* ORDER BY created_at LIMIT n
Oldest(S, n) == {s \in S : Cardinality({t \in S : t < s}) < n}

\* Mutant: a takeover keeps the attempts of the claim before it.
ClaimedAgain(r) ==
  [status |-> "processing", ready |-> FALSE,
   attempts |-> IF r.status = "processing" THEN r.attempts ELSE r.attempts + 1]

Claimed(r) == [status |-> "processing", attempts |-> r.attempts + 1, ready |-> FALSE]

\* ClaimSettlements: one transaction (MySQL, SKIP LOCKED) or one statement (SQLite).
ClaimSettlements(w) ==
  LET claimed == Oldest({s \in Settlements : Claimable(s)}, BatchSize)
  IN /\ batch[w] = {} /\ claimed # {}
     /\ row' = [s \in Settlements |-> IF s \in claimed THEN Claimed(row[s]) ELSE row[s]]
     /\ batch' = [batch EXCEPT ![w] = claimed]
     /\ token' = [token EXCEPT ![w] = [s \in Settlements |->
                    IF s \in claimed THEN Claimed(row[s]).attempts ELSE @[s]]]
     /\ UNCHANGED <<posted, result, faults>>

\* next_attempt_at passes.
BackoffEnds(s) ==
  /\ row[s].status = "retry" /\ ~row[s].ready
  /\ row' = [row EXCEPT ![s].ready = TRUE]
  /\ UNCHANGED <<posted, batch, token, result, faults>>

Held(s) == \E w \in Workers : s \in batch[w] /\ token[w][s] = row[s].attempts

\* billingSettlementClaimLease passes after the claim: its worker is gone, or slow.
LeaseEnds(s) ==
  /\ row[s].status = "processing" /\ ~row[s].ready
  /\ \/ ~Held(s) /\ UNCHANGED faults
     \/ Held(s) /\ Fault
  /\ row' = [row EXCEPT ![s].ready = TRUE]
  /\ UNCHANGED <<posted, batch, token, result>>

-----------------------------------------------------------------------------
(* Applying and marking one settlement                                       *)

\* The batch is worked off in the order of creation.
AtHead(w, s) == s \in batch[w] /\ \A t \in batch[w] : s <= t

\* Mutant: every attempt has an identity of its own downstream.
PostAnew(s) == posted' = [posted EXCEPT ![s] = @ + 1]

\* The wallet under the settlement's ID as the key: an earlier posting is replayed.
Post(s) == posted' = [posted EXCEPT ![s] = IF @ = 0 THEN 1 ELSE @]

\* applySettlement: ChargeAcceptedOperation, Reverse or ReverseStandaloneOperation
\* posts or replays, or refuses for good.
ApplySettlement(w, s) ==
  /\ AtHead(w, s) /\ result[w] = "none"
  /\ \/ Post(s) /\ result' = [result EXCEPT ![w] = "processed"]
     \/ /\ s \in Refusable /\ posted[s] = 0
        /\ result' = [result EXCEPT ![w] = "failed"] /\ UNCHANGED posted
  /\ UNCHANGED <<row, batch, token, faults>>

\* An error of the database, before or after the commit: retried if it is one of
\* isRetryableBillingDBError, otherwise taken for a permanent failure.
ApplyErrs(w, s) ==
  /\ AtHead(w, s) /\ result[w] = "none" /\ Fault
  /\ Post(s) \/ UNCHANGED posted
  /\ \E r \in {"retry", "failed"} : result' = [result EXCEPT ![w] = r]
  /\ UNCHANGED <<row, batch, token>>

\* Mutant: the mark looks at neither the status nor the attempts.
OwnsAnything(w, s) == TRUE

\* WHERE status = 'processing' AND attempts = ?
Owns(w, s) == row[s].status = "processing" /\ row[s].attempts = token[w][s]

\* MarkSettlementProcessed, MarkSettlementRetry, MarkSettlementFailed; a row that
\* was taken over is skipped.
MarkSettlement(w, s) ==
  /\ AtHead(w, s) /\ result[w] # "none"
  /\ \/ Owns(w, s) /\ row' = [row EXCEPT ![s].status = result[w], ![s].ready = FALSE]
     \/ ~Owns(w, s) /\ UNCHANGED row
  /\ batch' = [batch EXCEPT ![w] = @ \ {s}]
  /\ result' = [result EXCEPT ![w] = "none"]
  /\ UNCHANGED <<posted, token, faults>>

\* A crash, a shutdown (context.Canceled) or a mark that fails ends the batch.
AbandonBatch(w) ==
  /\ batch[w] # {} /\ Fault
  /\ batch' = [batch EXCEPT ![w] = {}] /\ result' = [result EXCEPT ![w] = "none"]
  /\ UNCHANGED <<row, posted, token>>

OutboxNext ==
  \/ \E s \in Settlements : Enqueue(s) \/ BackoffEnds(s) \/ LeaseEnds(s)
  \/ \E w \in Workers :
       \/ ClaimSettlements(w) \/ AbandonBatch(w)
       \/ \E s \in Settlements :
            ApplySettlement(w, s) \/ ApplyErrs(w, s) \/ MarkSettlement(w, s)

OutboxSpec == OutboxInit /\ [][OutboxNext]_outboxVars

\* The workers' tickers and loops run, and time passes; that settlements are
\* written and that faults happen is nobody's duty.
Fairness ==
  /\ \A s \in Settlements : WF_outboxVars(BackoffEnds(s)) /\ WF_outboxVars(LeaseEnds(s) /\ ~Held(s))
  /\ \A w \in Workers :
       /\ WF_outboxVars(ClaimSettlements(w))
       /\ WF_outboxVars(\E s \in Settlements : ApplySettlement(w, s))
       /\ WF_outboxVars(\E s \in Settlements : MarkSettlement(w, s))

FairSpec == OutboxSpec /\ Fairness

-----------------------------------------------------------------------------
(* Properties                                                                *)

\* However many workers, takeovers, crashes and lost replies: the wallet posts a
\* settlement at most once, and one that is marked processed was posted.
AppliedOnce ==
  \A s \in Settlements :
    posted[s] <= 1 /\ (row[s].status = "processed" => posted[s] = 1)

\* At most one worker can mark a row: the attempts counter tells the claims of a
\* row apart (claimSQLiteSettlements, "a row cannot be returned twice").
OneOwner ==
  \A s \in Settlements : \A v, w \in Workers :
    s \in batch[v] \cap batch[w] /\ Owns(v, s) /\ Owns(w, s) => v = w

\* A settled row is never claimed or marked again: a late worker neither revives it
\* nor turns a failure into a success or back.
SettledIsFinal ==
  [][\A s \in Settlements : row[s].status \in Settled => row'[s] = row[s]]_outboxVars

\* Every settlement that was written down is processed or failed in the end.
EventuallySettled ==
  \A s \in Settlements : row[s].status = "pending" ~> row[s].status \in Settled
=============================================================================
