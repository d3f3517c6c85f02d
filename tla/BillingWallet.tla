---------------------------- MODULE BillingWallet ----------------------------
(***************************************************************************)
(* The credit wallet of ONE user (BillingWalletService and the reward half  *)
(* of BillingReferralService): the account row, which is a projection of    *)
(* the append-only entries, the credit lots, the charges with their lot     *)
(* allocations, and the repayment of debt.                                  *)
(*                                                                          *)
(* A mutation is a database transaction in two steps: what it reads before  *)
(* it owns the account row (Begin...), and everything from LockAccount to   *)
(* the commit (Commit...), which the row lock makes one step.  Locking      *)
(* reads return the current rows.  A plain read returns the transaction's   *)
(* snapshot, taken by its first plain read: on MySQL (REPEATABLE READ, the  *)
(* default, which the code never changes) that is the one taken before the  *)
(* lock; SQLite refuses to write from an old snapshot, so it is current.    *)
(***************************************************************************)
EXTENDS Integers, FiniteSets, Functions, FiniteSetsExt

CONSTANTS
  Servers,          \* transactions that may be open at the same time
  None,             \* no reversal yet
  Tasks,            \* charges of policy task_admission
  Accepted,         \* operations in an accepted task, accepted_task_operation
  Images,           \* operations in an accepted task, image_operation
  Standalone,       \* operations outside a task, with a quote
  Price,            \* charge -> its price in credits
  QuoteOf,          \* task or standalone charge -> the quote it presents
  QuoteExpires,     \* quote -> the time it expires at
  PromotionOK,      \* the charges whose SKU promotional credits may pay
  TopUps, Rewards,  \* external sources of paid and of promotional credits
  Qualifying,       \* top-ups large enough to earn a referral reward
  Welcome,          \* the reward due with the user's own first qualifying top-up,
                    \* if somebody invited the user: at most one
  Credits,          \* source -> its credits
  Validity,         \* reward -> ticks until its lot expires
  Keys,             \* idempotency keys reversals are requested under
  MaxClock,         \* bound on the clock
  SnapshotReads     \* TRUE: MySQL; FALSE: SQLite

Quoted    == Tasks \cup Standalone
Charges   == Quoted \cup Accepted \cup Images
Sources   == TopUps \cup Rewards
LotIds    == Sources     \* a lot is identified by its source (unique index)
Quotes    == Range(QuoteOf)

ASSUME ChargeAssumption ==
  /\ IsFiniteSet(Charges) /\ IsFiniteSet(Sources)
  /\ Tasks \cap (Standalone \cup Accepted \cup Images) = {}
  /\ Standalone \cap (Accepted \cup Images) = {} /\ Accepted \cap Images = {}
  /\ Price \in [Charges -> Nat] /\ QuoteOf \in [Quoted -> Quotes]
  /\ QuoteExpires \in [Quotes -> Nat] /\ PromotionOK \subseteq Charges
ASSUME SourceAssumption ==
  /\ TopUps \cap Rewards = {} /\ Qualifying \subseteq TopUps
  /\ Welcome \subseteq Rewards /\ \A r, q \in Welcome : r = q
  /\ Credits \in [Sources -> Nat \ {0}] /\ Validity \in [Rewards -> Nat]
ASSUME EnvironmentAssumption ==
  MaxClock \in Nat /\ SnapshotReads \in BOOLEAN /\ None \notin Keys

VARIABLES
  account,    \* the account row: paid, promotional and debt credits
  booked,     \* lot -> the sum of the deltas of the wallet entries naming it
  owed,       \* charge -> the sum of the debt deltas of the entries naming it
  lots,       \* the credit lots; created = 0 for one that does not exist yet
  charges,    \* the charges; created = 0 for one that does not exist yet
  used,       \* sources of top-ups and rewards that were applied
  swept,      \* lots with an entry under the key ("expiry", lot)
  consumed,   \* quotes that were consumed
  tx,         \* server -> its open transaction
  clock,      \* the time
  alarm       \* ErrBillingLedgerInvalid, "billing ledger is not conserved", was returned

rows == <<account, booked, owed, lots, charges, used, swept, consumed>>
vars == <<rows, tx, clock, alarm>>

Lot     == [created : Nat, original : Nat, available : Nat, spent : Nat, expired : Nat,
            expires : Nat]
Charge  == [created : Nat, from : [LotIds -> Nat], debt : Nat, repaid : Nat,
            reversal : Keys \cup {None}]
Idle == [op |-> "idle"]
Transaction ==
  {Idle} \cup [op : {"charge"}, charge : Charges]
         \cup [op : {"reverse"}, charge : Charges, key : Keys]
         \cup [op : {"topup"}, source : TopUps, owed : [Charges -> Nat]]
         \cup [op : {"expire"}, lot : Rewards, now : 0..MaxClock]

TypeOK ==
  /\ account \in [paid : Nat, promo : Nat, debt : Nat]
  /\ booked \in [LotIds -> Int] /\ owed \in [Charges -> Int]
  /\ lots \in [LotIds -> Lot] /\ charges \in [Charges -> Charge]
  /\ used \subseteq Sources /\ swept \subseteq Rewards /\ consumed \subseteq Quotes
  /\ tx \in [Servers -> Transaction] /\ clock \in 0..MaxClock /\ alarm \in BOOLEAN

NoLot    == [created |-> 0, original |-> 0, available |-> 0, spent |-> 0, expired |-> 0,
             expires |-> 0]
NoCharge == [created |-> 0, from |-> [l \in LotIds |-> 0], debt |-> 0, repaid |-> 0,
             reversal |-> None]

\* A provisioned user: an account row of zeros (user_provisioning.go).
Init ==
  /\ account = [paid |-> 0, promo |-> 0, debt |-> 0]
  /\ booked = [l \in LotIds |-> 0] /\ owed = [c \in Charges |-> 0]
  /\ lots = [l \in LotIds |-> NoLot] /\ charges = [c \in Charges |-> NoCharge]
  /\ used = {} /\ swept = {} /\ consumed = {}
  /\ tx = [s \in Servers |-> Idle] /\ clock = 0 /\ alarm = FALSE

-----------------------------------------------------------------------------
(* Building blocks                                                          *)

Min2(a, b) == IF a < b THEN a ELSE b
Exists(c)  == charges[c].created # 0

\* created_at: the rank of the next row of a table.
NextRank(table) == 1 + Max({0} \cup {table[x].created : x \in DOMAIN table})

\* Going through the rows of S, x after those of earlier[x], each gives up to have[x]
\* until amount is reached: what each of them gives.
Draw(S, have, earlier, amount) ==
  [x \in DOMAIN have |->
     LET before == SumFunctionOnSet(have, S \cap earlier[x])
     IN IF x \in S /\ before < amount THEN Min2(have[x], amount - before) ELSE 0]

\* ListSpendableLots and promotionEligible.
Spendable(c, now) ==
  {l \in LotIds : /\ lots[l].available > 0
                  /\ l \in Rewards => c \in PromotionOK /\ lots[l].expires > now}

\* Promotional lots by expiry and age, then paid lots by age.
SpentBefore(l, m) ==
  IF l \in Rewards /\ m \in Rewards /\ lots[l].expires # lots[m].expires
  THEN lots[l].expires < lots[m].expires
  ELSE IF (l \in Rewards) # (m \in Rewards) THEN l \in Rewards
  ELSE lots[l].created < lots[m].created
EarlierLots == [m \in LotIds |-> {l \in LotIds : SpentBefore(l, m)}]

Available == [l \in LotIds |-> lots[l].available]

\* ListOutstandingDebtCharges
Outstanding == [c \in Charges |-> charges[c].debt - charges[c].repaid]
OlderDebt(c, d) == charges[c].created < charges[d].created
EarlierDebts == [d \in Charges |-> {c \in Charges : OlderDebt(c, d)}]

\* updateBillingAccount
ChangeAccount(paid, promo, debt) ==
  account' = [paid |-> account.paid + paid, promo |-> account.promo + promo,
              debt |-> account.debt + debt]

Total(f, S) == SumFunctionOnSet(f, S)

End(s) == tx' = [tx EXCEPT ![s] = Idle]
\* The transaction is refused, or replays an earlier one: nothing is written.
Refuse(s) == End(s) /\ UNCHANGED <<rows, clock, alarm>>
\* Mutant: a replay is answered like a broken ledger.
RefuseAsInvalid(s, conserved) == End(s) /\ alarm' = TRUE /\ UNCHANGED <<rows, clock>>

\* The same, answering ErrBillingLedgerInvalid when the ledger looks broken.
RefuseUnless(s, conserved) ==
  End(s) /\ alarm' = (alarm \/ ~conserved) /\ UNCHANGED <<rows, clock>>

-----------------------------------------------------------------------------
(* Charges                                                                  *)

\* The replay found before the lock ends the call; otherwise the transaction
\* goes on to wait for the account row.
BeginCharge(s, c) ==
  /\ tx[s] = Idle /\ ~Exists(c)
  /\ tx' = [tx EXCEPT ![s] = [op |-> "charge", charge |-> c]]
  /\ UNCHANGED <<rows, clock, alarm>>

\* consumeForCharge, CreateCharge, the entries and the account.
Consume(c, now) ==
  LET give == Draw(Spendable(c, now), Available, EarlierLots, Price[c])
      debt == Price[c] - Total(give, LotIds)
  IN /\ lots' = [l \in LotIds |->
                  [lots[l] EXCEPT !.available = @ - give[l], !.spent = @ + give[l]]]
     /\ charges' = [charges EXCEPT ![c] =
                     [created |-> NextRank(charges), from |-> give, debt |-> debt,
                      repaid |-> 0, reversal |-> None]]
     /\ booked' = [l \in LotIds |-> booked[l] - give[l]]
     /\ owed' = [owed EXCEPT ![c] = @ + debt]
     /\ ChangeAccount(-Total(give, TopUps), -Total(give, Rewards), debt)

CanPay(c, now) == Total(Available, Spendable(c, now)) >= Price[c]

\* Mutant: a consumed quote is accepted until it expires.
QuoteIsUnexpired(q, now) == QuoteExpires[q] > now

\* validateQuoteAvailability and MarkQuoteConsumed
QuoteIsAvailable(q, now) == q \notin consumed /\ QuoteExpires[q] > now

\* ChargeTaskAdmissionInTx and chargeOperationInTx without acceptance: once per
\* charge and per quote, never in debt and never into debt.
CommitQuotedCharge(s) ==
  LET c == tx[s].charge
      allowed == /\ ~Exists(c) /\ QuoteIsAvailable(QuoteOf[c], clock)
                 /\ account.debt = 0 /\ CanPay(c, clock)
  IN /\ tx[s].op = "charge" /\ c \in Quoted
     /\ \/ ~allowed /\ Refuse(s)
        \/ /\ allowed /\ Consume(c, clock) /\ consumed' = consumed \cup {QuoteOf[c]}
           /\ End(s) /\ UNCHANGED <<used, swept, clock, alarm>>

\* chargeOperationInTx for an operation the task already performed: what the lots
\* do not cover becomes debt, which BillingCharge.Validate allows to one policy.
CommitAcceptedOperation(s) ==
  LET c == tx[s].charge
      allowed == ~Exists(c) /\ (c \in Accepted \/ CanPay(c, clock))
  IN /\ tx[s].op = "charge" /\ c \in Accepted \cup Images
     /\ \/ ~allowed /\ Refuse(s)
        \/ /\ allowed /\ Consume(c, clock)
           /\ End(s) /\ UNCHANGED <<used, swept, consumed, clock, alarm>>

-----------------------------------------------------------------------------
(* Credits                                                                  *)

NewLot(credits, expires) ==
  [created |-> NextRank(lots), original |-> credits, available |-> credits, spent |-> 0,
   expired |-> 0, expires |-> expires]

\* topUpInTx locks the user row, which admits one top-up at a time, and then reads
\* the catalog, which fixes the snapshot.
BeginTopUp(s, u) ==
  /\ tx[s] = Idle /\ \A r \in Servers : tx[r].op # "topup"
  /\ tx' = [tx EXCEPT ![s] = [op |-> "topup", source |-> u, owed |-> Outstanding]]
  /\ UNCHANGED <<rows, clock, alarm>>

\* What each debt position gets of the credits.
Repayments(positions, credits) ==
  Draw({c \in Charges : positions[c] > 0}, positions, EarlierDebts, credits)

\* appendReward
NewReward(r) == NewLot(Credits[r], clock + Validity[r])

\* topUpInTxAfterUserLock: the debt positions must explain the account's debt;
\* they are repaid oldest first, and the rest is a new paid lot.  In the same
\* transaction issueOrReplay grants the invitee's reward, unless the inviter's
\* rewards are used up (capped), which depends on other users.
CommitTopUp(s) ==
  LET u == tx[s].source
      positions == IF SnapshotReads THEN tx[s].owed ELSE Outstanding
      attributed == Total(positions, Charges) = account.debt
      repaid == Repayments(positions, Min2(Credits[u], account.debt))
      added == Credits[u] - Min2(Credits[u], account.debt)
      due == IF u \in Qualifying THEN Welcome \ used ELSE {}
  IN /\ tx[s].op = "topup"
     /\ \/ ~(u \notin used /\ attributed) /\ RefuseUnless(s, u \in used \/ attributed)
        \/ \E granted \in SUBSET due :
           /\ u \notin used /\ attributed
           /\ used' = used \cup {u} \cup due
           /\ lots' = [l \in LotIds |->
                        IF l = u /\ added > 0 THEN NewLot(added, 0)
                        ELSE IF l \in granted THEN NewReward(l) ELSE lots[l]]
           /\ booked' = [l \in LotIds |->
                          booked[l] + (IF l = u THEN added
                                       ELSE IF l \in granted THEN Credits[l] ELSE 0)]
           /\ charges' = [c \in Charges |-> [charges[c] EXCEPT !.repaid = @ + repaid[c]]]
           /\ owed' = [c \in Charges |-> owed[c] - repaid[c]]
           /\ ChangeAccount(added, Total(Credits, granted), -Min2(Credits[u], account.debt))
           /\ End(s) /\ UNCHANGED <<swept, consumed, clock, alarm>>

\* issueOrReplay in the top-up of somebody this user invited: the inviter's reward.
IssueReward(r) ==
  /\ r \notin used \cup Welcome /\ used' = used \cup {r}
  /\ lots' = [lots EXCEPT ![r] = NewReward(r)]
  /\ booked' = [booked EXCEPT ![r] = @ + Credits[r]]
  /\ ChangeAccount(0, Credits[r], 0)
  /\ UNCHANGED <<owed, charges, swept, consumed, tx, clock, alarm>>

-----------------------------------------------------------------------------
(* Reversal and expiry                                                      *)

\* reverseCharge up to the lock: only a posted charge that was quoted (a task, or
\* a standalone operation) and not reversed yet.
BeginReverse(s, c, k) ==
  /\ tx[s] = Idle /\ c \in Quoted /\ Exists(c) /\ charges[c].debt = 0
  /\ charges[c].reversal = None
  /\ tx' = [tx EXCEPT ![s] = [op |-> "reverse", charge |-> c, key |-> k]]
  /\ UNCHANGED <<rows, clock, alarm>>

\* Mutant: the search before the lock is trusted.
AssumeUnreversed(c) == TRUE

\* findLockedReversalChargeReplay: a reversal committed meanwhile is seen.
Unreversed(c) == charges[c].reversal = None

\* Mutant: credits return to their lot whether it expired or not.
ReturnAll(c, now) == charges[c].from

\* Credits go back to the lots they came from; those of an expired promotional lot
\* expire on the spot.
Returned(c, now) ==
  [l \in LotIds |->
     IF l \in Rewards /\ lots[l].expires <= now THEN 0 ELSE charges[c].from[l]]

\* reverseCharge under the account's lock.
CommitReverse(s) ==
  LET c == tx[s].charge
      from == charges[c].from
      new == Unreversed(c)
      covered == \A l \in LotIds : lots[l].spent >= from[l]
      back == Returned(c, clock)
  IN /\ tx[s].op = "reverse"
     /\ \/ ~(new /\ covered) /\ RefuseUnless(s, ~new \/ covered)
        \/ /\ new /\ covered
           /\ charges' = [charges EXCEPT ![c].reversal = tx[s].key]
           /\ lots' = [l \in LotIds |->
                        [lots[l] EXCEPT !.spent = @ - from[l], !.available = @ + back[l],
                                        !.expired = @ + (from[l] - back[l])]]
           /\ booked' = [l \in LotIds |-> booked[l] + back[l]]
           /\ ChangeAccount(Total(back, TopUps), Total(back, Rewards), 0)
           /\ End(s) /\ UNCHANGED <<owed, used, swept, consumed, clock, alarm>>

\* ListExpiredPromotionalLotsForUpdate, in a transaction of its own.
BeginExpire(s, l) ==
  /\ tx[s] = Idle /\ lots[l].available > 0 /\ lots[l].expires <= clock
  /\ tx' = [tx EXCEPT ![s] = [op |-> "expire", lot |-> l, now |-> clock]]
  /\ UNCHANGED <<rows, clock, alarm>>

\* ExpirePromotionalCredits, for one candidate: rechecked under the locks.
CommitExpire(s) ==
  LET l == tx[s].lot
      credits == lots[l].available
      due == l \notin swept /\ credits > 0 /\ lots[l].expires <= tx[s].now
      covered == account.promo >= credits
  IN /\ tx[s].op = "expire"
     /\ \/ ~(due /\ covered) /\ RefuseUnless(s, ~due \/ covered)
        \/ /\ due /\ covered
           /\ lots' = [lots EXCEPT ![l].available = 0, ![l].expired = @ + credits]
           /\ booked' = [booked EXCEPT ![l] = @ - credits]
           /\ swept' = swept \cup {l}
           /\ ChangeAccount(0, -credits, 0)
           /\ End(s) /\ UNCHANGED <<owed, charges, used, consumed, clock, alarm>>

-----------------------------------------------------------------------------
\* RebuildProjection
RebuildProjection ==
  /\ account' = [paid |-> Total(booked, TopUps), promo |-> Total(booked, Rewards),
                 debt |-> Total(owed, Charges)]
  /\ UNCHANGED <<booked, owed, lots, charges, used, swept, consumed, tx, clock, alarm>>

\* A deadlock, a lost connection or a crash rolls an open transaction back.
Abort(s) == tx[s] # Idle /\ Refuse(s)

Tick == clock < MaxClock /\ clock' = clock + 1 /\ UNCHANGED <<rows, tx, alarm>>

Next ==
  \/ \E s \in Servers :
       \/ \E c \in Charges : BeginCharge(s, c) \/ \E k \in Keys : BeginReverse(s, c, k)
       \/ \E u \in TopUps : BeginTopUp(s, u)
       \/ \E l \in Rewards : BeginExpire(s, l)
       \/ CommitQuotedCharge(s) \/ CommitAcceptedOperation(s) \/ CommitTopUp(s)
       \/ CommitReverse(s) \/ CommitExpire(s) \/ Abort(s)
  \/ \E r \in Rewards : IssueReward(r)
  \/ RebuildProjection \/ Tick

Spec == Init /\ [][Next]_vars

-----------------------------------------------------------------------------
(* Properties                                                               *)

\* Every credit of a lot is available, spent by a charge that was not reversed,
\* or expired: no credit is created, lost or returned twice (BillingCreditLot).
LotsAreConserved ==
  \A l \in LotIds :
    /\ lots[l].original = lots[l].available + lots[l].spent + lots[l].expired
    /\ lots[l].spent = Total([c \in Charges |-> charges[c].from[l]],
                             {c \in Charges : charges[c].reversal = None})

\* The account row is what RebuildProjection would compute from the entries, and
\* the credits it shows are the credits of the lots.
ProjectionIsExact ==
  /\ account = [paid |-> Total(booked, TopUps), promo |-> Total(booked, Rewards),
                debt |-> Total(owed, Charges)]
  /\ \A l \in LotIds : booked[l] = lots[l].available

\* The debt of the account is the sum of what its charges still owe, so that a
\* top-up can attribute every credit it repays (ListOutstandingDebtCharges).
DebtIsAttributed == account.debt = Total(Outstanding, Charges)

\* The books balance after every commit of overlapping transactions: lots, charges,
\* entries, debts and the account row agree (consumeForCharge,
\* topUpInTxAfterUserLock, reverseCharge, ExpirePromotionalCredits, RebuildProjection).
BooksBalance == TypeOK /\ LotsAreConserved /\ ProjectionIsExact /\ DebtIsAttributed

\* A promotional lot whose expiry was booked never holds credits again, whichever
\* reversal comes later: its expiry key is used up and it would not be swept.
ExpiredStaysExpired == \A l \in swept : lots[l].available = 0

\* A quote pays for at most one charge.
QuoteIsSpentOnce ==
  \A c, d \in Quoted : Exists(c) /\ Exists(d) /\ QuoteOf[c] = QuoteOf[d] => c = d

\* "billing ledger is not conserved" (ErrBillingLedgerInvalid) is answered only to a
\* top-up whose snapshot is older than the debts (topUpInTxAfterUserLock on MySQL):
\* never to a reversal or an expiry, and to nobody when reads are current (SQLite).
AlarmMeansOldSnapshot ==
  [][~alarm /\ alarm' =>
       \E s \in Servers : /\ SnapshotReads /\ tx[s].op = "topup" /\ tx'[s] = Idle
                         /\ tx[s].owed # Outstanding]_vars
=============================================================================
