-------------------------- MODULE WechatDraftProofs --------------------------
(***************************************************************************)
(* Proofs about WechatDraft, for any number of callers, executions,         *)
(* articles and faults.  What makes the second draft/add impossible is a    *)
(* chain over the row: a call is made with the evidence on the row and      *)
(* without the authorization to retry (AddInv); the authorization comes     *)
(* back only with a definitive refusal, which means that no draft was       *)
(* added; and the row, evidence included, is deleted only by the call that  *)
(* created it and has not made its attempt (CallOK).                        *)
(***************************************************************************)
EXTENDS WechatDraft, TLAPS

\* What a call relies on: a row it created is unattempted while the claim is its own; what
\* it reports as a success is known to the row; what it takes back it had read.
CallOK(c) ==
  LET k == call[c] IN
  /\ k.prev.st = "failed" => k.prev.n < 2
  /\ k.fresh \/ k.claimed => k.pc \in {"gate", "list", "mark", "add", "save"}
  /\ k.fresh => k.seen.tok = c
  /\ k.fresh /\ k.pc \in {"gate", "list", "mark"} /\ row.tok = c => ~row.att
  /\ k.claimed /\ k.pc \in {"gate", "list"} => k.out \in {"", "48001", "other"}
  /\ k.pc = "finish" => k.err # None
  /\ k.pc = "record" /\ k.err = None => k.out \in {"failed", "blocked", "ambiguous", "succeeded"}
  /\ k.err = "nil" => row.media
  /\ k.out = "succeeded" => k.pc = "record" /\ (row.media \/ rec.taken)

RowInv ==
  /\ row.st = "none" => row = NoRow
  /\ row.att => row.n > 0
  /\ TakenFor(row) => rec.taken
  /\ same["reconciler"] => row.st # "none"
  /\ budget \in [callers : SUBSET Callers, execs : 1..LastExec, calls : Nat, errors : Nat,
                 articles : Nat, faults : Nat]

Adding(c) == call[c].pc \in {"add", "save"}

\* One call at a time is out, on a row that says so and authorizes no other; a draft in
\* the box came from a call whose answer, if it is still to be saved, is no refusal.
AddInv ==
  /\ \A c \in Callers : Adding(c) => row.att /\ ~row.auth
  /\ \A c, d \in Callers : Adding(c) /\ Adding(d) => c = d
  /\ \A e \in Execs : box[e] > 0 =>
       /\ row.att /\ ~row.auth /\ box[e] = 1
       /\ \A f \in Execs : f # e => box[f] = 0
       /\ \A c \in Callers : Adding(c) => call[c].pc = "save" /\ call[c].out \in {"media", "lost"}

IInv == TypeOK /\ SucceededHasDraft /\ RowInv /\ AddInv /\ \A c \in Callers : CallOK(c)

\* What no step does: a known draft is not forgotten, a success is not taken back.
Kept ==
  /\ row.media => row'.media
  /\ \A e \in Execs : delivery[e].st = "succeeded" => delivery'[e].st = "succeeded"

LEMMA RestFacts ==
  /\ NoRow \in Publication /\ NoDelivery \in Delivery /\ Idle \in CallState /\ 1 \in Execs
  /\ NoDelivery.st = "" /\ NoRow.st = "none" /\ NoRow.att = FALSE /\ NoRow.media = FALSE
  /\ NoRow.auth = FALSE /\ NoRow.tok = None
<1>1. 1 \in Execs
  BY DraftAssumption DEF Execs
<1>2. NoRow \in Publication /\ NoDelivery \in Delivery /\ Idle \in CallState
  BY <1>1 DEF NoRow, NoDelivery, Idle, Publication, Delivery, CallState, None
<1> QED
  BY <1>1, <1>2 DEF NoRow, NoDelivery

LEMMA InitInv == Init => IInv
<1> SUFFICES ASSUME Init PROVE IInv
    OBVIOUS
<1>1. 1 \in Execs
  BY RestFacts
<1>2. NoRow \in Publication /\ NoDelivery \in Delivery /\ Idle \in CallState
  BY RestFacts
<1>3. PICK b \in Budgets : budget = b
  BY DEF Init
<1>4. /\ b \in [callers : SUBSET Callers, execs : 1..LastExec, calls : Nat, errors : Nat,
                articles : Nat, faults : Nat]
      /\ b.calls \in 0..b.calls /\ b.errors \in 0..b.errors /\ b.faults \in 0..b.faults
      /\ b.articles \in 0..b.articles
  BY DraftAssumption
<1>5. TypeOK
  BY <1>1, <1>2, <1>3, <1>4 DEF Init, TypeOK
<1>6. RowInv
  BY <1>3, <1>4 DEF Init, RowInv, NoRow, Procs, TakenFor
<1>7. AddInv /\ SucceededHasDraft
  <2>1. \A c \in Callers : ~Adding(c)
    BY DEF Init, Adding, Idle
  <2>2. \A e \in Execs : ~(box[e] > 0) /\ delivery[e].st # "succeeded"
    <3>1. box = [e \in Execs |-> 0] /\ delivery = [e \in Execs |-> NoDelivery]
      BY DEF Init
    <3>2. NoDelivery.st # "succeeded"
      BY DEF NoDelivery
    <3>3. \A e \in Execs : delivery[e] = NoDelivery
      BY <3>1
    <3>4. \A e \in Execs : ~(box[e] > 0)
      BY <3>1
    <3> QED
      BY <3>2, <3>3, <3>4
  <2> QED
    BY <2>1, <2>2 DEF AddInv, SucceededHasDraft
<1>8. \A c \in Callers : CallOK(c)
  BY DEF Init, CallOK, Idle, NoDelivery, None
<1> QED
  BY <1>5, <1>6, <1>7, <1>8 DEF IInv

-----------------------------------------------------------------------------
(* Steps that neither make a call to draft/add nor change what is known of   *)
(* one: all but Mark, AddDraft and the saving of an answer                   *)

RowKept(r) ==
  /\ r \in Publication
  /\ r.st = "none" => r = NoRow
  /\ r.att = row.att
  /\ r.att => r.n > 0
  /\ r.auth => row.auth
  /\ row.media => r.media
  /\ TakenFor(r) => TakenFor(row) \/ rec'.taken

DeliveryKept ==
  /\ delivery' \in [Execs -> Delivery]
  /\ \A e \in Execs :
       /\ delivery[e].st = "succeeded" => delivery'[e].st = "succeeded"
       /\ delivery'[e].st = "succeeded" =>
            delivery[e].st = "succeeded" \/ row.media \/ rec.taken

RecType == [pc : {"idle", "list", "publishes", "sync"}, att : BOOLEAN, taken : BOOLEAN]
RecKept == rec' \in RecType /\ (rec.taken => rec'.taken)

BudgetKept == UNCHANGED budget \/ \E what \in {"calls", "errors", "articles", "faults"} : Spend(what)

\* The call went on, or neither it nor its claim was touched.
Moved(c)       == call'[c].pc \notin {"add", "save"} /\ CallOK(c)'
Undisturbed(c) == call'[c] = call[c] /\ (row'.tok = c => row.tok = c)

BudgetType == [callers : SUBSET Callers, execs : 1..LastExec, calls : Nat, errors : Nat,
               articles : Nat, faults : Nat]

LEMMA BudgetInv ==
  ASSUME TypeOK, budget \in BudgetType, BudgetKept
  PROVE  /\ budget' \in BudgetType
         /\ \E b \in Budgets : /\ budget'.callers = b.callers /\ budget'.execs = b.execs
                               /\ budget'.calls \in 0..b.calls
                               /\ budget'.errors \in 0..b.errors
                               /\ budget'.articles \in 0..b.articles
                               /\ budget'.faults \in 0..b.faults
<1>1. PICK b \in Budgets : /\ budget.callers = b.callers /\ budget.execs = b.execs
                           /\ budget.calls \in 0..b.calls /\ budget.errors \in 0..b.errors
                           /\ budget.articles \in 0..b.articles
                           /\ budget.faults \in 0..b.faults
  BY DEF TypeOK
<1>2. b \in BudgetType
  BY DraftAssumption DEF BudgetType
<1>3. CASE UNCHANGED budget
  BY <1>1, <1>3
<1>4. CASE Spend("calls")
  BY <1>1, <1>2, <1>4 DEF Spend, BudgetType
<1>5. CASE Spend("errors")
  BY <1>1, <1>2, <1>5 DEF Spend, BudgetType
<1>6. CASE Spend("faults")
  BY <1>1, <1>2, <1>6 DEF Spend, BudgetType
<1>7. CASE Spend("articles")
  BY <1>1, <1>2, <1>7 DEF Spend, BudgetType
<1> QED
  BY <1>3, <1>4, <1>5, <1>6, <1>7 DEF BudgetKept

\* What a call relies on depends on little of the row.
LEMMA CallStays ==
  ASSUME NEW c \in Callers, CallOK(c), call'[c] = call[c],
         row'.tok = c => row.tok = c /\ (row'.att <=> row.att), row.media => row'.media,
         rec.taken => rec'.taken
  PROVE  CallOK(c)'
<1> DEFINE k == call[c]
<1>1. /\ k.prev.st = "failed" => k.prev.n < 2
      /\ k.fresh \/ k.claimed => k.pc \in {"gate", "list", "mark", "add", "save"}
      /\ k.fresh => k.seen.tok = c
      /\ k.claimed /\ k.pc \in {"gate", "list"} => k.out \in {"", "48001", "other"}
      /\ k.pc = "finish" => k.err # None
      /\ k.pc = "record" /\ k.err = None => k.out \in {"failed", "blocked", "ambiguous", "succeeded"}
  BY DEF CallOK
<1>2. /\ k.fresh /\ k.pc \in {"gate", "list", "mark"} /\ row'.tok = c => ~row'.att
      /\ k.err = "nil" => row'.media
      /\ k.out = "succeeded" => k.pc = "record" /\ (row'.media \/ rec'.taken)
  BY DEF CallOK
<1>3. call'[c] = k
  OBVIOUS
<1> HIDE DEF k
<1> QED
  BY <1>1, <1>2, <1>3 DEF CallOK

LEMMA QuietInv ==
  ASSUME IInv, RowKept(row'), DeliveryKept, BudgetKept, UNCHANGED <<content, box>>,
         same' \in [Procs -> BOOLEAN], same'["reconciler"] => row'.st # "none",
         call' \in [Callers -> CallState], final' \in [Execs -> BOOLEAN], cur' \in Execs,
         RecKept,
         \A c \in Callers : Moved(c) \/ Undisturbed(c)
  PROVE  IInv' /\ Kept
<1>1. TypeOK /\ SucceededHasDraft /\ RowInv /\ AddInv /\ \A c \in Callers : CallOK(c)
  BY DEF IInv
<1>2. budget \in BudgetType
  BY <1>1 DEF RowInv, BudgetType
<1>3. TypeOK'
  <2>1. row' \in Publication /\ delivery' \in [Execs -> Delivery]
    BY DEF RowKept, DeliveryKept
  <2>2. content' \in [Execs -> Contents] /\ box' \in [Execs -> 0..2]
    BY <1>1 DEF TypeOK
  <2> QED
    BY <1>1, <1>2, <2>1, <2>2, BudgetInv DEF TypeOK, RecKept, RecType
<1>4. RowInv'
  BY <1>1, <1>2, BudgetInv DEF RowInv, RowKept, BudgetType, RecKept, TakenFor
<1>5. SucceededHasDraft'
  BY <1>1 DEF SucceededHasDraft, DeliveryKept, RowKept, RecKept
<1>6. \A c \in Callers : Adding(c)' => Adding(c) /\ call'[c] = call[c]
  BY DEF Adding, Moved, Undisturbed
<1>7. AddInv'
  <2>1. row'.att = row.att /\ (row'.auth => row.auth)
    BY DEF RowKept
  <2>2. \A c \in Callers : Adding(c)' => row'.att /\ ~row'.auth
    BY <1>1, <1>6, <2>1 DEF AddInv
  <2>3. \A c, d \in Callers : Adding(c)' /\ Adding(d)' => c = d
    BY <1>1, <1>6 DEF AddInv
  <2>4. ASSUME NEW e \in Execs, box'[e] > 0
        PROVE  /\ row'.att /\ ~row'.auth /\ box'[e] = 1
               /\ \A f \in Execs : f # e => box'[f] = 0
               /\ \A c \in Callers :
                    Adding(c)' => call'[c].pc = "save" /\ call'[c].out \in {"media", "lost"}
    BY <1>1, <1>6, <2>1, <2>4 DEF AddInv
  <2> QED
    BY <2>2, <2>3, <2>4 DEF AddInv
<1>8. ASSUME NEW c \in Callers PROVE CallOK(c)'
  <2>1. CASE Moved(c)
    BY <2>1 DEF Moved
  <2>2. CASE Undisturbed(c)
    BY <1>1, <2>2, CallStays DEF Undisturbed, RowKept, RecKept
  <2> QED
    BY <2>1, <2>2
<1>9. Kept
  BY DEF Kept, RowKept, DeliveryKept
<1> QED
  BY <1>3, <1>4, <1>5, <1>7, <1>8, <1>9 DEF IInv

Errs  == {"nil", "pending", "mismatch", "conflict", "config", "db", "unsupported", "rejected",
          "expired"}

\* A call returns, having said "nil" only of a draft that the row knows.
LEMMA ReturnMoves ==
  ASSUME IInv, NEW c \in Callers, NEW err \in Errs, NEW att \in BOOLEAN, NEW media \in BOOLEAN,
         Return(c, err, att, media), err = "nil" => row'.media
  PROVE  /\ call' \in [Callers -> CallState] /\ Moved(c)
         /\ \A d \in Callers \ {c} : call'[d] = call[d]
<1> DEFINE r == Returned(c, err, att, media)
<1>1. call \in [Callers -> CallState]
  BY DEF IInv, TypeOK
<1>2. call[c].kind \in {None, "final", "user"} /\ call[c].e \in Execs /\ call[c].n \in 0..2
  BY <1>1 DEF CallState
<1>3. Idle \in CallState /\ NoDelivery.st = ""
  BY RestFacts
<1>4. /\ r.pc \in {"finish", "record"} /\ r.err = err /\ r.out = None
      /\ r.prev = NoDelivery /\ r.fresh = FALSE /\ r.claimed = FALSE
  BY DEF Returned, Idle
<1>5. r \in CallState
  <2>1. r = [Idle EXCEPT !.kind = call[c].kind, !.e = call[c].e, !.n = call[c].n, !.err = err,
                         !.att = att, !.media = media, !.pc = r.pc]
    BY DEF Returned
  <2> HIDE DEF r
  <2> QED
    BY <1>2, <1>3, <1>4, <2>1 DEF CallState, Errs
<1> HIDE DEF r
<1>6. call' = [call EXCEPT ![c] = r]
  BY DEF Return, r
<1>7. call'[c] = r
  BY <1>1, <1>6
<1>8. CallOK(c)'
  BY <1>3, <1>4, <1>7 DEF CallOK, None, Errs
<1> QED
  BY <1>1, <1>4, <1>5, <1>6, <1>7, <1>8 DEF Moved

LEMMA ConcurrentReturns ==
  ASSUME IInv, NEW c \in Callers, ReturnConcurrent(c), row.media => row'.media
  PROVE  /\ call' \in [Callers -> CallState] /\ Moved(c)
         /\ \A d \in Callers \ {c} : call'[d] = call[d]
<1>1. row \in Publication
  BY DEF IInv, TypeOK
<1>2. Concurrent \in Errs /\ (Concurrent = "nil" => row.media)
  BY <1>1 DEF Concurrent, Refused, Errs, Publication
<1>3. row.att \in BOOLEAN /\ row.media \in BOOLEAN
  BY <1>1 DEF Publication
<1> QED
  BY <1>2, <1>3, ReturnMoves DEF ReturnConcurrent

\* What is written is the writer's own version: the reconciler's copy is out of date.
LEMMA WriteFacts ==
  ASSUME NEW c \in Callers, NEW r, Write(c, r)
  PROVE  row' = r /\ same' \in [Procs -> BOOLEAN] /\ same'["reconciler"] = FALSE
BY DraftAssumption DEF Write, Procs

\* The row as it is
LEMMA RowAsItIs == ASSUME IInv PROVE RowKept(row) /\ (row.st = "none" => ~row.media)
<1>1. row \in Publication
  BY DEF IInv, TypeOK
<1>2. row.st = "none" => row = NoRow
  BY DEF IInv, RowInv
<1>3. row.att => row.n > 0
  BY DEF IInv, RowInv
<1>4. NoRow.media = FALSE
  BY DEF NoRow
<1> QED
  BY <1>1, <1>2, <1>3, <1>4 DEF RowKept

LEMMA KeepFacts ==
  ASSUME IInv, Keep
  PROVE  RowKept(row') /\ same' \in [Procs -> BOOLEAN]
         /\ (same'["reconciler"] => row'.st # "none") /\ (row.media => row'.media)
BY RowAsItIs DEF IInv, TypeOK, RowInv, Keep

\* The steps from one part of a call to the next that change nothing else of it
Moves == {<<"resolve", "load">>, <<"find", "create">>, <<"gate", "list">>, <<"list", "mark">>,
          <<"list", "reclaim">>, <<"finish", "record">>}

LEMMA GotoMoves ==
  ASSUME IInv, NEW c \in Callers, NEW pc, <<call[c].pc, pc>> \in Moves,
         pc = "reclaim" => ~call[c].fresh /\ ~call[c].claimed, Goto(c, pc), row' = row
  PROVE  /\ call' \in [Callers -> CallState] /\ Moved(c)
         /\ \A d \in Callers \ {c} : call'[d] = call[d]
<1> DEFINE r == [call[c] EXCEPT !.pc = pc]
<1>1. call \in [Callers -> CallState]
  BY DEF IInv, TypeOK
<1>2. call[c] \in CallState
  BY <1>1
<1>3. CallOK(c)
  BY DEF IInv
<1>4. \/ call[c].pc = "resolve" /\ pc = "load"
      \/ call[c].pc = "find" /\ pc = "create"
      \/ call[c].pc = "gate" /\ pc = "list"
      \/ call[c].pc = "list" /\ pc \in {"mark", "reclaim"}
      \/ call[c].pc = "finish" /\ pc = "record"
  BY DEF Moves
<1>5. r \in CallState
  BY <1>2, <1>4 DEF CallState
<1>6. /\ r.pc = pc /\ r.prev = call[c].prev /\ r.fresh = call[c].fresh /\ r.seen = call[c].seen
      /\ r.claimed = call[c].claimed /\ r.out = call[c].out /\ r.err = call[c].err
  BY <1>2 DEF CallState
<1>7. call' = [call EXCEPT ![c] = r]
  BY DEF Goto
<1> HIDE DEF r
<1>8. /\ call'[c] = r /\ call' \in [Callers -> CallState]
      /\ \A d \in Callers \ {c} : call'[d] = call[d]
  BY <1>1, <1>5, <1>7
<1>9. CallOK(c)'
  BY <1>3, <1>4, <1>6, <1>8 DEF CallOK
<1> QED
  BY <1>4, <1>6, <1>8, <1>9 DEF Moved

\* A call begins, or ends.
LEMMA BeginMoves ==
  ASSUME IInv, NEW c \in Callers, NEW pc \in {"idle", "resolve", "load"},
         NEW kind \in {None, "final", "user"}, NEW e \in Execs,
         call' = [call EXCEPT ![c] = [Idle EXCEPT !.pc = pc, !.kind = kind, !.e = e]]
  PROVE  /\ call' \in [Callers -> CallState] /\ Moved(c)
         /\ \A d \in Callers \ {c} : call'[d] = call[d]
<1> DEFINE r == [Idle EXCEPT !.pc = pc, !.kind = kind, !.e = e]
<1>1. call \in [Callers -> CallState]
  BY DEF IInv, TypeOK
<1>2. Idle \in CallState /\ NoDelivery.st = ""
  BY RestFacts
<1>3. r \in CallState
  BY <1>2 DEF CallState
<1>4. /\ r.pc = pc /\ r.prev = NoDelivery /\ r.fresh = FALSE /\ r.claimed = FALSE
      /\ r.out = None /\ r.err = None
  BY DEF Idle
<1>5. call' = [call EXCEPT ![c] = r]
  OBVIOUS
<1> HIDE DEF r
<1>6. /\ call'[c] = r /\ call' \in [Callers -> CallState]
      /\ \A d \in Callers \ {c} : call'[d] = call[d]
  BY <1>1, <1>3, <1>5
<1>7. CallOK(c)'
  BY <1>2, <1>4, <1>6 DEF CallOK, None
<1> QED
  BY <1>4, <1>6, <1>7 DEF Moved

\* A step of one call leaves the others alone.
LEMMA CallInv ==
  ASSUME IInv, NEW c \in Callers, RowKept(row'), DeliveryKept, BudgetKept,
         UNCHANGED <<cur, content, box, rec>>, final' \in [Execs -> BOOLEAN],
         same' \in [Procs -> BOOLEAN], same'["reconciler"] => row'.st # "none",
         call' \in [Callers -> CallState], Moved(c),
         \A d \in Callers \ {c} : call'[d] = call[d] /\ (row'.tok = d => row.tok = d)
  PROVE  IInv' /\ Kept
<1>1. cur' \in Execs /\ RecKept
  BY DEF IInv, TypeOK, RecKept, RecType
<1>2. \A d \in Callers : Moved(d) \/ Undisturbed(d)
  BY DEF Undisturbed
<1> QED
  BY <1>1, <1>2, QuietInv

\* A step that leaves the calls alone
LEMMA OtherInv ==
  ASSUME IInv, RowKept(row'), row'.tok = row.tok, DeliveryKept, BudgetKept,
         UNCHANGED <<content, box, call, final>>, cur' \in Execs,
         same' \in [Procs -> BOOLEAN], same'["reconciler"] => row'.st # "none",
         RecKept
  PROVE  IInv' /\ Kept
<1>1. call' \in [Callers -> CallState] /\ final' \in [Execs -> BOOLEAN]
  BY DEF IInv, TypeOK
<1>2. \A d \in Callers : Undisturbed(d)
  BY DEF Undisturbed
<1> QED
  BY <1>1, <1>2, QuietInv

\* What a step that leaves the row, or the delivery, alone leaves true
LEMMA Unchanged ==
  ASSUME IInv
  PROVE  /\ UNCHANGED <<row, same>> => Keep
         /\ UNCHANGED delivery => DeliveryKept
         /\ UNCHANGED final => final' \in [Execs -> BOOLEAN]
         /\ UNCHANGED cur => cur' \in Execs
         /\ UNCHANGED rec => RecKept
BY DEF IInv, TypeOK, DeliveryKept, Keep, RecKept, RecType

-----------------------------------------------------------------------------
(* The actions, one by one                                                   *)

LEMMA FinalizeInv == ASSUME IInv, NEW c \in Callers, Finalize(c) PROVE IInv' /\ Kept
<1>1. cur \in Execs /\ final \in [Execs -> BOOLEAN] /\ call \in [Callers -> CallState]
  BY DEF IInv, TypeOK
<1>2. Keep /\ DeliveryKept /\ BudgetKept
  BY Unchanged DEF Finalize, BudgetKept, Keep
<1>3. CASE UNCHANGED final
  <2>1. call' = [call EXCEPT ![c] = [Idle EXCEPT !.pc = "resolve", !.kind = "final", !.e = cur]]
        \/ UNCHANGED call
    BY DEF Finalize
  <2>2. CASE call' =
          [call EXCEPT ![c] = [Idle EXCEPT !.pc = "resolve", !.kind = "final", !.e = cur]]
    BY <1>1, <1>2, <1>3, <2>2, BeginMoves, KeepFacts, CallInv DEF Finalize
  <2>3. CASE UNCHANGED call
    BY <1>1, <1>2, <1>3, <2>3, KeepFacts, OtherInv, Unchanged DEF Finalize
  <2> QED
    BY <2>1, <2>2, <2>3
<1>4. CASE final' = [final EXCEPT ![cur] = TRUE] /\ UNCHANGED call
  <2>1. final' \in [Execs -> BOOLEAN] /\ call' \in [Callers -> CallState] /\ cur' \in Execs
    BY <1>1, <1>4 DEF Finalize
  <2>2. \A d \in Callers : Undisturbed(d)
    BY <1>4 DEF Undisturbed, Finalize
  <2> QED
    BY <1>2, <2>1, <2>2, KeepFacts, QuietInv, Unchanged DEF Finalize
<1> QED
  BY <1>3, <1>4 DEF Finalize

LEMMA RecoverInv == ASSUME IInv, NEW c \in Callers, Recover(c) PROVE IInv' /\ Kept
<1>1. cur \in Execs /\ delivery \in [Execs -> Delivery]
  BY DEF IInv, TypeOK
<1>2. /\ delivery' = [delivery EXCEPT ![cur].st = ""] /\ delivery[cur].st # "succeeded"
  BY DEF Recover
<1>3. DeliveryKept
  BY <1>1, <1>2 DEF DeliveryKept, Delivery
<1>4. Keep /\ BudgetKept /\ final' \in [Execs -> BOOLEAN]
  BY Unchanged DEF Recover, BudgetKept, Keep
<1>5. call' = [call EXCEPT ![c] = [Idle EXCEPT !.pc = "resolve", !.kind = "final", !.e = cur]]
  BY DEF Recover
<1> QED
  BY <1>1, <1>3, <1>4, <1>5, BeginMoves, KeepFacts, CallInv DEF Recover

LEMMA UserDraftInv == ASSUME IInv, NEW c \in Callers, UserDraft(c) PROVE IInv' /\ Kept
<1>1. cur \in Execs
  BY DEF IInv, TypeOK
<1>2. Keep /\ BudgetKept /\ final' \in [Execs -> BOOLEAN] /\ DeliveryKept
  BY Unchanged DEF UserDraft, BudgetKept, Keep
<1>3. call' = [call EXCEPT ![c] = [Idle EXCEPT !.pc = "load", !.kind = "user", !.e = cur]]
  BY DEF UserDraft
<1> QED
  BY <1>1, <1>2, <1>3, BeginMoves, KeepFacts, CallInv DEF UserDraft

LEMMA NewExecutionInv == ASSUME IInv, NewExecution PROVE IInv' /\ Kept
<1>1. cur \in 1..LastExec /\ budget.execs \in 1..LastExec /\ LastExec \in Nat
  BY DraftAssumption DEF IInv, TypeOK, RowInv, Execs
<1>2. cur' \in Execs
  BY <1>1 DEF NewExecution, Execs
<1>3. Keep /\ BudgetKept /\ DeliveryKept
  BY Unchanged DEF NewExecution, BudgetKept, Keep
<1> QED
  BY <1>2, <1>3, KeepFacts, OtherInv, Unchanged DEF NewExecution

LEMMA ResolveInv == ASSUME IInv, NEW c \in Callers, Resolve(c) PROVE IInv' /\ Kept
<1>1. call \in [Callers -> CallState]
  BY DEF IInv, TypeOK
<1>2. Keep /\ BudgetKept /\ final' \in [Execs -> BOOLEAN] /\ DeliveryKept /\ row' = row
  BY Unchanged DEF Resolve, BudgetKept, Keep
<1>3. CASE call' = [call EXCEPT ![c] = [@ EXCEPT !.pc = "load"]]
  <2>1. Goto(c, "load")
    BY <1>3 DEF Goto
  <2>2. <<call[c].pc, "load">> \in Moves
    BY DEF Resolve, Moves
  <2> QED
    BY <1>2, <2>1, <2>2, GotoMoves, KeepFacts, CallInv DEF Resolve
<1>4. CASE call' = [call EXCEPT ![c] = [@ EXCEPT !.pc = "record", !.out = FromPublication]]
  <2> DEFINE r == [call[c] EXCEPT !.pc = "record", !.out = FromPublication]
  <2>1. FromPublication \in {"failed", "blocked", "ambiguous", "succeeded"}
        /\ (FromPublication = "succeeded" => row.media \/ rec.taken)
    BY DEF FromPublication, IInv, RowInv
  <2>2. call[c] \in CallState /\ CallOK(c) /\ call[c].pc = "resolve"
    BY <1>1 DEF IInv, Resolve
  <2>3. r \in CallState
    BY <2>1, <2>2 DEF CallState
  <2>4. /\ r.pc = "record" /\ r.prev = call[c].prev /\ r.fresh = call[c].fresh
        /\ r.claimed = call[c].claimed
        /\ r.out = FromPublication /\ r.err = call[c].err
    BY <2>2 DEF CallState
  <2>5. call' = [call EXCEPT ![c] = r]
    BY <1>4
  <2> HIDE DEF r
  <2>6. /\ call'[c] = r /\ call' \in [Callers -> CallState]
        /\ \A d \in Callers \ {c} : call'[d] = call[d]
    BY <1>1, <2>3, <2>5
  <2>7. Moved(c)
    BY <1>2, <2>1, <2>2, <2>4, <2>6 DEF Moved, CallOK, Resolve
  <2> QED
    BY <1>2, <2>6, <2>7, KeepFacts, CallInv DEF Resolve
<1> QED
  BY <1>3, <1>4 DEF Resolve

LEMMA LoadInv == ASSUME IInv, NEW c \in Callers, Load(c) PROVE IInv' /\ Kept
<1>1. call \in [Callers -> CallState] /\ delivery \in [Execs -> Delivery]
  BY DEF IInv, TypeOK
<1>2. Keep /\ BudgetKept /\ final' \in [Execs -> BOOLEAN] /\ DeliveryKept /\ row' = row
  BY Unchanged DEF Load, BudgetKept, Keep
<1>3. ASSUME NEW err \in {"mismatch", "conflict"}, Return(c, err, FALSE, FALSE)
      PROVE  IInv' /\ Kept
  <2>1. err \in Errs /\ err # "nil"
    BY DEF Errs
  <2>2. /\ call' \in [Callers -> CallState] /\ Moved(c)
        /\ \A d \in Callers \ {c} : call'[d] = call[d]
    BY <1>3, <2>1, ReturnMoves
  <2> QED
    BY <1>2, <2>2, KeepFacts, CallInv DEF Load
<1>4. CASE /\ delivery[call[c].e].st = "failed" => delivery[call[c].e].n < 2
           /\ call' = [call EXCEPT ![c].pc = "find", ![c].prev = delivery[call[c].e]]
  <2> DEFINE r == [call[c] EXCEPT !.pc = "find", !.prev = delivery[call[c].e]]
  <2>1. call[c] \in CallState /\ CallOK(c) /\ call[c].pc = "load"
    BY <1>1 DEF IInv, Load
  <2>2. delivery[call[c].e] \in Delivery
    BY <1>1, <2>1 DEF CallState
  <2>3. r \in CallState
    BY <2>1, <2>2 DEF CallState
  <2>4. /\ r.pc = "find" /\ r.prev = delivery[call[c].e] /\ r.fresh = call[c].fresh
        /\ r.out = call[c].out /\ r.err = call[c].err
    BY <2>1 DEF CallState
  <2>5. call' = [call EXCEPT ![c] = r]
    BY <1>1, <1>4
  <2> HIDE DEF r
  <2>6. /\ call'[c] = r /\ call' \in [Callers -> CallState]
        /\ \A d \in Callers \ {c} : call'[d] = call[d]
    BY <1>1, <2>3, <2>5
  <2>7. Moved(c)
    BY <1>2, <1>4, <2>1, <2>4, <2>6 DEF Moved, CallOK
  <2> QED
    BY <1>2, <2>6, <2>7, KeepFacts, CallInv DEF Load
<1> QED
  BY <1>3, <1>4 DEF Load

LEMMA PreflightKeeps ==
  ASSUME IInv, NEW c \in Callers, Preflight(c) PROVE DeliveryKept
<1> DEFINE k == call[c]
           again == k.prev.st = "failed"
           d == [st |-> "failed", code |-> "provider", n |-> IF again THEN k.prev.n + 1 ELSE 1,
                 act |-> "retry_draft"]
           x == IF delivery[k.e].st = (IF again THEN "failed" ELSE "") THEN d ELSE delivery[k.e]
<1>1. delivery \in [Execs -> Delivery] /\ k \in CallState /\ CallOK(c)
  BY DEF IInv, TypeOK
<1>2. k.prev \in Delivery /\ k.e \in Execs /\ delivery[k.e] \in Delivery
  BY <1>1 DEF CallState
<1>3. again => k.prev.n \in {0, 1}
  <2>1. k.prev.n \in 0..2 /\ (again => k.prev.n < 2)
    BY <1>1, <1>2 DEF CallOK, Delivery
  <2> QED
    BY <2>1
<1>4. d \in Delivery /\ d.st = "failed"
  BY <1>3 DEF Delivery
<1>5. x \in Delivery /\ (x.st = "succeeded" <=> delivery[k.e].st = "succeeded")
  BY <1>2, <1>4
<1>6. delivery' = [delivery EXCEPT ![k.e] = x]
  BY DEF Preflight
<1> HIDE DEF k, again, d, x
<1> QED
  BY <1>1, <1>2, <1>5, <1>6 DEF DeliveryKept

\* A call looks at a row of its execution: the row as it is, or as it has just taken it over.
LEMMA FoundInv ==
  ASSUME IInv, NEW c \in Callers, NEW r, RowKept(r), r.tok = row.tok, row' = r, Found(c, r),
         call[c].pc = "find", DeliveryKept, BudgetKept, r.st # "none",
         UNCHANGED <<final, cur, content, box, rec>>, same' \in [Procs -> BOOLEAN]
  PROVE  IInv' /\ Kept
<1>1. call \in [Callers -> CallState] /\ call[c] \in CallState /\ CallOK(c)
      /\ final' \in [Execs -> BOOLEAN]
  BY Unchanged DEF IInv, TypeOK
<1>2. r \in Publication /\ r.att \in BOOLEAN /\ r.media \in BOOLEAN
  BY DEF RowKept, Publication
<1>3. ASSUME NEW err \in {"pending", "conflict", "nil"}, err = "nil" => r.media,
             Return(c, err, r.att, r.media)
      PROVE  IInv' /\ Kept
  <2>1. err \in Errs
    BY DEF Errs
  <2>2. /\ call' \in [Callers -> CallState] /\ Moved(c)
        /\ \A d \in Callers \ {c} : call'[d] = call[d]
    BY <1>2, <1>3, <2>1, ReturnMoves
  <2> QED
    BY <1>1, <2>2, CallInv
<1>4. ASSUME NEW pc \in {"claim", "gate"}, call' = [call EXCEPT ![c].pc = pc, ![c].seen = r]
      PROVE  IInv' /\ Kept
  <2> DEFINE s == [call[c] EXCEPT !.pc = pc, !.seen = r]
  <2>1. s \in CallState
    BY <1>1, <1>2 DEF CallState
  <2>2. /\ s.pc = pc /\ s.prev = call[c].prev /\ s.fresh = call[c].fresh
        /\ s.claimed = call[c].claimed /\ s.out = call[c].out /\ s.err = call[c].err
    BY <1>1 DEF CallState
  <2>3. call' = [call EXCEPT ![c] = s]
    BY <1>1, <1>4
  <2> HIDE DEF s
  <2>4. /\ call'[c] = s /\ call' \in [Callers -> CallState]
        /\ \A d \in Callers \ {c} : call'[d] = call[d]
    BY <1>1, <2>1, <2>3
  <2>5. ~s.fresh /\ ~s.claimed
    BY <1>1, <2>2 DEF CallOK
  <2>6. Moved(c)
    BY <1>1, <2>2, <2>4, <2>5 DEF Moved, CallOK, RowKept
  <2> QED
    BY <1>1, <2>4, <2>6, CallInv
<1> QED
  BY <1>3, <1>4 DEF Found

LEMMA FindInv == ASSUME IInv, NEW c \in Callers, Find(c) PROVE IInv' /\ Kept
<1> DEFINE e == call[c].e
<1>1. /\ row \in Publication /\ same \in [Procs -> BOOLEAN] /\ call[c] \in CallState
      /\ call[c].pc = "find" /\ CallOK(c) /\ (UNCHANGED delivery => DeliveryKept)
      /\ RowKept(row)
  BY Unchanged, RowAsItIs DEF IInv, TypeOK, Find
<1>2. /\ e \in Execs /\ ~call[c].fresh /\ row.att \in BOOLEAN /\ row.media \in BOOLEAN
      /\ UNCHANGED <<final, cur, content, box, rec>> /\ final' \in [Execs -> BOOLEAN]
  BY <1>1, Unchanged DEF CallState, CallOK, Publication, Find
<1>3. BudgetKept
  BY DEF Find, BudgetKept, ReadFails
<1> HIDE DEF e
<1>4. CASE Goto(c, "create") /\ Keep /\ UNCHANGED delivery
  <2>1. <<call[c].pc, "create">> \in Moves
    BY <1>1 DEF Moves
  <2>2. row' = row
    BY <1>4 DEF Keep
  <2> QED
    BY <1>1, <1>2, <1>3, <1>4, <2>1, <2>2, GotoMoves, KeepFacts, CallInv
<1>5. CASE Preflight(c) /\ Return(c, "config", FALSE, FALSE) /\ Keep
  <2>1. /\ call' \in [Callers -> CallState] /\ Moved(c)
        /\ \A d \in Callers \ {c} : call'[d] = call[d]
    BY <1>5, ReturnMoves DEF Errs
  <2>2. row' = row
    BY <1>5 DEF Keep
  <2> QED
    BY <1>2, <1>3, <1>5, <2>1, <2>2, PreflightKeeps, KeepFacts, CallInv
<1>6. CASE row.st # "none" /\ Found(c, row) /\ same' = [same EXCEPT ![c] = TRUE]
           /\ UNCHANGED <<row, delivery>>
  BY <1>1, <1>2, <1>3, <1>6, FoundInv
<1>7. CASE Return(c, "mismatch", row.att, row.media) /\ Keep /\ UNCHANGED delivery
  <2>1. /\ call' \in [Callers -> CallState] /\ Moved(c)
        /\ \A d \in Callers \ {c} : call'[d] = call[d]
    BY <1>2, <1>7, ReturnMoves DEF Errs
  <2>2. row' = row
    BY <1>7 DEF Keep
  <2> QED
    BY <1>1, <1>2, <1>3, <1>7, <2>1, <2>2, KeepFacts, CallInv
<1>8. CASE /\ row.st # "none" /\ Write(c, [row EXCEPT !.exec = e])
           /\ Found(c, [row EXCEPT !.exec = e]) /\ UNCHANGED delivery
  <2> DEFINE r == [row EXCEPT !.exec = e]
  <2>1. r \in Publication
    BY <1>1, <1>2 DEF Publication
  <2>2. /\ r.st = row.st /\ r.tok = row.tok /\ r.att = row.att /\ r.n = row.n
        /\ r.auth = row.auth /\ r.media = row.media
    BY <1>1 DEF Publication
  <2>3. Found(c, r) /\ Write(c, r)
    BY <1>8
  <2> HIDE DEF r
  <2>4. RowKept(r)
    BY <1>1, <1>8, <2>1, <2>2 DEF RowKept, TakenFor
  <2> QED
    BY <1>1, <1>2, <1>3, <1>8, <2>2, <2>3, <2>4, WriteFacts, FoundInv
<1> QED
  BY <1>4, <1>5, <1>6, <1>7, <1>8 DEF Find, e

\* An edit of the row that touches neither the evidence nor what is known
LEMMA EditKeeps ==
  ASSUME IInv, row.st # "none", NEW r \in Publication, r.st # "none", r.att = row.att,
         r.n = row.n, r.auth = row.auth \/ ~r.auth, row.media => r.media,
         TakenFor(r) => TakenFor(row) \/ rec'.taken
  PROVE  RowKept(r)
BY RowAsItIs DEF RowKept

\* Giving the row back, or deleting it: only an unattempted row is deleted.
LEMMA UnclaimKeeps ==
  ASSUME IInv, NEW c \in Callers, call[c].pc \in {"gate", "list"}, NEW fresh \in BOOLEAN,
         fresh => call[c].fresh, Unclaim(c, fresh)
  PROVE  /\ RowKept(row') /\ same' \in [Procs -> BOOLEAN]
         /\ same'["reconciler"] => row'.st # "none"
         /\ \A d \in Callers : row'.tok = d => row.tok = d
<1> DEFINE k == call[c]
           given == [row EXCEPT !.st = "unsupported", !.due = FALSE, !.tok = None,
                       !.stale = FALSE, !.code = IF k.claimed THEN k.out ELSE ""]
<1>1. k \in CallState /\ CallOK(c) /\ row \in Publication
  BY DEF IInv, TypeOK
<1>2. \A d \in Callers : d # None
  BY DraftAssumption DEF None
<1>3. CASE Keep
  <2>1. row' = row
    BY <1>3 DEF Keep
  <2> QED
    BY <1>3, <2>1, KeepFacts
<1>4. CASE row.st = "drafting" /\ row.tok = k.seen.tok /\ ~row.media /\ fresh /\ Write(c, NoRow)
  <2>1. ~row.att
    BY <1>1, <1>4 DEF CallOK
  <2>2. RowKept(NoRow) /\ NoRow.tok = None
    BY <1>1, <1>4, <2>1, RestFacts DEF RowKept, Publication, TakenFor
  <2> QED
    BY <1>2, <1>4, <2>2, WriteFacts
<1>5. CASE row.st = "drafting" /\ Write(c, given)
  <2>1. (IF k.claimed THEN k.out ELSE "") \in {"", "48001", "other"}
    BY <1>1 DEF CallOK
  <2>2. given \in Publication
    BY <1>1, <2>1 DEF Publication, None
  <2>3. /\ given.st = "unsupported" /\ given.att = row.att /\ given.n = row.n
        /\ given.auth = row.auth /\ given.media = row.media /\ given.tok = None
    BY <1>1 DEF Publication
  <2> HIDE DEF given
  <2>4. RowKept(given)
    BY <1>5, <2>2, <2>3, EditKeeps DEF TakenFor
  <2> QED
    BY <1>2, <1>5, <2>3, <2>4, WriteFacts
<1> QED
  BY <1>3, <1>4, <1>5 DEF Unclaim

\* A call that writes r over the row and claims it
LEMMA ClaimsInv ==
  ASSUME IInv, NEW c \in Callers, NEW r, RowKept(r), r.tok = c, r.st # "none", Write(c, r),
         NEW s \in CallState, call' = [call EXCEPT ![c] = s], s.pc \in {"gate", "mark"},
         s.prev = call[c].prev, s.err = call[c].err, call[c].err # "nil", s.out # "succeeded",
         s.pc = "gate" => s.out \in {"", "48001", "other"} \/ ~s.claimed,
         s.fresh => s.seen.tok = c /\ ~r.att,
         UNCHANGED <<delivery, final, cur, content, box, rec, budget>>
  PROVE  IInv' /\ Kept
<1>1. call \in [Callers -> CallState] /\ CallOK(c)
  BY DEF IInv, TypeOK
<1>2. /\ call'[c] = s /\ call' \in [Callers -> CallState]
      /\ \A d \in Callers \ {c} : call'[d] = call[d]
  BY <1>1
<1>3. row' = r /\ same' \in [Procs -> BOOLEAN] /\ same'["reconciler"] = FALSE
  BY WriteFacts
<1>4. Moved(c)
  BY <1>1, <1>2, <1>3 DEF Moved, CallOK
<1>5. DeliveryKept /\ final' \in [Execs -> BOOLEAN] /\ BudgetKept
  BY Unchanged DEF BudgetKept
<1> QED
  BY <1>2, <1>3, <1>4, <1>5, CallInv

\* A call that has lost the row to another one, and leaves it
LEMMA LeavesInv ==
  ASSUME IInv, NEW c \in Callers, ReturnConcurrent(c), Keep, BudgetKept,
         UNCHANGED <<delivery, final, cur, content, box, rec>>
  PROVE  IInv' /\ Kept
<1>1. row' = row /\ DeliveryKept /\ final' \in [Execs -> BOOLEAN]
  BY Unchanged DEF Keep
<1>2. /\ call' \in [Callers -> CallState] /\ Moved(c)
      /\ \A d \in Callers \ {c} : call'[d] = call[d]
  BY <1>1, ConcurrentReturns
<1> QED
  BY <1>1, <1>2, KeepFacts, CallInv

\* A call that fails, having touched the row as rows are kept
LEMMA FailsInv ==
  ASSUME IInv, NEW c \in Callers, NEW err \in Errs, NEW att \in BOOLEAN, NEW media \in BOOLEAN,
         Return(c, err, att, media), err = "nil" => row'.media, RowKept(row'),
         same' \in [Procs -> BOOLEAN], same'["reconciler"] => row'.st # "none",
         \A d \in Callers : row'.tok = d => row.tok = d, DeliveryKept, BudgetKept,
         UNCHANGED <<final, cur, content, box, rec>>
  PROVE  IInv' /\ Kept
<1>1. final' \in [Execs -> BOOLEAN]
  BY Unchanged
<1>2. /\ call' \in [Callers -> CallState] /\ Moved(c)
      /\ \A d \in Callers \ {c} : call'[d] = call[d]
  BY ReturnMoves
<1> QED
  BY <1>1, <1>2, CallInv

LEMMA CreateInv == ASSUME IInv, NEW c \in Callers, Create(c) PROVE IInv' /\ Kept
<1>1. /\ row \in Publication /\ call \in [Callers -> CallState] /\ call[c] \in CallState
      /\ CallOK(c) /\ call[c].pc = "create" /\ RowKept(row)
      /\ UNCHANGED <<delivery, final, cur, content, box, rec, budget>>
  BY RowAsItIs DEF IInv, TypeOK, Create
<1>2. row.att \in BOOLEAN /\ row.media \in BOOLEAN /\ call[c].e \in Execs
  BY <1>1 DEF Publication, CallState
<1>3. CASE Return(c, "pending", row.att, row.media) /\ Keep
  <2>1. row' = row /\ DeliveryKept /\ BudgetKept
    BY <1>1, <1>3, Unchanged DEF Keep, BudgetKept
  <2> QED
    BY <1>1, <1>2, <1>3, <2>1, KeepFacts, FailsInv DEF Errs
<1>4. CASE row.st = "none"
  <2> DEFINE r == [NoRow EXCEPT !.st = "drafting", !.tok = c, !.exec = call[c].e]
             s == [call[c] EXCEPT !.pc = "gate", !.seen = r, !.fresh = TRUE]
  <2>1. r \in Publication
    BY <1>2, RestFacts DEF Publication
  <2>2. /\ r.st = "drafting" /\ r.tok = c /\ r.att = FALSE /\ r.auth = FALSE
        /\ r.media = FALSE
    BY DEF NoRow
  <2> HIDE DEF r
  <2>3. s \in CallState
    BY <1>1, <2>1 DEF CallState
  <2>4. /\ s.pc = "gate" /\ s.prev = call[c].prev /\ s.err = call[c].err /\ s.out = call[c].out
        /\ s.claimed = call[c].claimed /\ s.seen = r
    BY <1>1 DEF CallState
  <2>5. Write(c, r) /\ call' = [call EXCEPT ![c] = s]
    BY <1>1, <1>4 DEF Create, r
  <2> HIDE DEF s
  <2>6. row.att = FALSE /\ row.media = FALSE
    BY <1>4, RestFacts DEF IInv, RowInv
  <2>7. RowKept(r)
    BY <2>1, <2>2, <2>6 DEF RowKept, TakenFor
  <2>8. call[c].err # "nil" /\ call[c].out # "succeeded" /\ ~call[c].claimed
    BY <1>1, <2>6 DEF CallOK
  <2> QED
    BY <1>1, <2>2, <2>3, <2>4, <2>5, <2>7, <2>8, ClaimsInv
<1> QED
  BY <1>3, <1>4 DEF Create

LEMMA ClaimInv == ASSUME IInv, NEW c \in Callers, Claim(c) PROVE IInv' /\ Kept
<1>1. /\ row \in Publication /\ call \in [Callers -> CallState] /\ call[c] \in CallState
      /\ CallOK(c) /\ call[c].pc = "claim"
      /\ UNCHANGED <<delivery, final, cur, content, box, rec, budget>>
  BY DEF IInv, TypeOK, Claim
<1>2. CASE ReturnConcurrent(c) /\ Keep
  BY <1>1, <1>2, LeavesInv DEF BudgetKept
<1>3. CASE RetryEligible
           /\ LET r == [row EXCEPT !.st = "drafting", !.code = "", !.due = FALSE, !.tok = c,
                                   !.stale = FALSE] IN
                /\ Write(c, r)
                /\ call' = [call EXCEPT ![c].pc = "gate", ![c].seen = r, ![c].claimed = TRUE,
                                        ![c].out = row.code]
  <2> DEFINE r == [row EXCEPT !.st = "drafting", !.code = "", !.due = FALSE, !.tok = c,
                              !.stale = FALSE]
             s == [call[c] EXCEPT !.pc = "gate", !.seen = r, !.claimed = TRUE, !.out = row.code]
  <2>1. r \in Publication
    BY <1>1 DEF Publication
  <2>2. /\ r.st = "drafting" /\ r.tok = c /\ r.att = row.att /\ r.n = row.n
        /\ r.auth = row.auth /\ r.media = row.media
    BY <1>1 DEF Publication
  <2>3. Write(c, r) /\ call' = [call EXCEPT ![c].pc = "gate", ![c].seen = r,
                                            ![c].claimed = TRUE, ![c].out = row.code]
    BY <1>3
  <2> HIDE DEF r
  <2>4. row.code \in {"", "48001", "other"} /\ row.st # "none" /\ ~row.media
    BY <1>1, <1>3 DEF Publication, RetryEligible
  <2>5. s \in CallState
    BY <1>1, <2>1, <2>4 DEF CallState
  <2>6. /\ s.pc = "gate" /\ s.prev = call[c].prev /\ s.err = call[c].err /\ s.out = row.code
        /\ s.fresh = call[c].fresh
    BY <1>1 DEF CallState
  <2>7. call' = [call EXCEPT ![c] = s]
    BY <1>1, <2>3
  <2> HIDE DEF s
  <2>8. RowKept(r)
    BY <2>1, <2>2, <2>4, EditKeeps DEF TakenFor
  <2>9. call[c].err # "nil" /\ ~call[c].fresh
    BY <1>1, <2>4 DEF CallOK
  <2>10. s.out \in {"", "48001", "other"} /\ s.out # "succeeded"
    BY <2>4, <2>6
  <2> QED
    BY <1>1, <2>2, <2>3, <2>4, <2>5, <2>6, <2>7, <2>8, <2>9, <2>10, ClaimsInv
<1> QED
  BY <1>2, <1>3 DEF Claim

LEMMA ReclaimInv == ASSUME IInv, NEW c \in Callers, Reclaim(c) PROVE IInv' /\ Kept
<1>1. /\ row \in Publication /\ call \in [Callers -> CallState] /\ call[c] \in CallState
      /\ CallOK(c) /\ call[c].pc = "reclaim"
      /\ UNCHANGED <<delivery, final, cur, content, box, rec, budget>>
  BY DEF IInv, TypeOK, Reclaim
<1>2. CASE ReturnConcurrent(c) /\ Keep
  BY <1>1, <1>2, LeavesInv DEF BudgetKept
<1>3. CASE row.st = "drafting" /\ ~row.media
           /\ LET r == [row EXCEPT !.tok = c, !.stale = FALSE] IN
                /\ Write(c, r)
                /\ call' = [call EXCEPT ![c].pc = "mark", ![c].seen = r, ![c].claimed = TRUE]
  <2> DEFINE r == [row EXCEPT !.tok = c, !.stale = FALSE]
             s == [call[c] EXCEPT !.pc = "mark", !.seen = r, !.claimed = TRUE]
  <2>1. r \in Publication
    BY <1>1 DEF Publication
  <2>2. /\ r.st = "drafting" /\ r.tok = c /\ r.att = row.att /\ r.n = row.n
        /\ r.auth = row.auth /\ r.media = row.media
    BY <1>1, <1>3 DEF Publication
  <2>3. Write(c, r) /\ call' = [call EXCEPT ![c].pc = "mark", ![c].seen = r, ![c].claimed = TRUE]
    BY <1>3
  <2> HIDE DEF r
  <2>4. s \in CallState
    BY <1>1, <2>1 DEF CallState
  <2>5. /\ s.pc = "mark" /\ s.prev = call[c].prev /\ s.err = call[c].err /\ s.out = call[c].out
        /\ s.fresh = call[c].fresh
    BY <1>1 DEF CallState
  <2>6. call' = [call EXCEPT ![c] = s]
    BY <1>1, <2>3
  <2> HIDE DEF s
  <2>7. RowKept(r)
    BY <1>3, <2>1, <2>2, EditKeeps DEF TakenFor
  <2>8. call[c].err # "nil" /\ s.out # "succeeded" /\ ~s.fresh
    BY <1>1, <1>3, <2>5 DEF CallOK
  <2> QED
    BY <1>1, <2>2, <2>3, <2>4, <2>5, <2>6, <2>7, <2>8, ClaimsInv
<1> QED
  BY <1>2, <1>3 DEF Reclaim

LEMMA GateInv == ASSUME IInv, NEW c \in Callers, Gate(c) PROVE IInv' /\ Kept
<1>1. /\ call[c] \in CallState /\ call[c].pc = "gate" /\ CallOK(c)
      /\ UNCHANGED <<final, cur, content, box, rec>> /\ final' \in [Execs -> BOOLEAN]
  BY Unchanged DEF IInv, TypeOK, Gate
<1>2. call[c].seen.att \in BOOLEAN /\ call[c].seen.media \in BOOLEAN
  BY <1>1 DEF CallState, Publication
<1>3. CASE Return(c, "pending", call[c].seen.att, call[c].seen.media) /\ Keep
           /\ UNCHANGED <<delivery, budget>>
  <2>1. row' = row /\ DeliveryKept /\ BudgetKept
    BY <1>3, Unchanged DEF Keep, BudgetKept
  <2> QED
    BY <1>1, <1>2, <1>3, <2>1, KeepFacts, FailsInv DEF Errs
<1>4. CASE Goto(c, "list") /\ Keep /\ UNCHANGED <<delivery, budget>>
  <2>1. row' = row /\ DeliveryKept /\ BudgetKept
    BY <1>4, Unchanged DEF Keep, BudgetKept
  <2>2. <<call[c].pc, "list">> \in Moves
    BY <1>1 DEF Moves
  <2> QED
    BY <1>1, <1>4, <2>1, <2>2, GotoMoves, KeepFacts, CallInv
<1>5. CASE ReadFails /\ Unclaim(c, FALSE) /\ Preflight(c)
           /\ Return(c, "config", call[c].seen.att, call[c].seen.media)
  <2>1. BudgetKept
    BY <1>5 DEF BudgetKept, ReadFails
  <2>2. "config" \in Errs /\ FALSE \in BOOLEAN
    BY DEF Errs
  <2>3. /\ RowKept(row') /\ same' \in [Procs -> BOOLEAN]
        /\ same'["reconciler"] => row'.st # "none"
        /\ \A d \in Callers : row'.tok = d => row.tok = d
    BY <1>1, <1>5, <2>2, UnclaimKeeps
  <2>4. DeliveryKept
    BY <1>5, PreflightKeeps
  <2> QED
    BY <1>1, <1>2, <1>5, <2>1, <2>2, <2>3, <2>4, FailsInv
<1> QED
  BY <1>3, <1>4, <1>5 DEF Gate

\* The draft that is found in the box
LEMMA RecoveredKeeps ==
  ASSUME IInv, row.st # "none"
  PROVE  LET r == Recovered(row) IN
         RowKept(r) /\ r.st = "drafted" /\ r.media = TRUE /\ r.tok = None
<1> DEFINE r == Recovered(row)
<1>1. row \in Publication
  BY DEF IInv, TypeOK
<1>2. r \in Publication
  BY <1>1 DEF Recovered, Publication
<1>3. /\ r.st = "drafted" /\ r.att = row.att /\ r.n = row.n /\ r.auth = FALSE
      /\ r.media = TRUE /\ r.tok = None
  BY <1>1 DEF Recovered, Publication
<1> HIDE DEF r
<1>4. RowKept(r)
  BY <1>2, <1>3, EditKeeps DEF TakenFor
<1> QED
  BY <1>3, <1>4 DEF r

LEMMA ListInv == ASSUME IInv, NEW c \in Callers, List(c) PROVE IInv' /\ Kept
<1>1. /\ call[c] \in CallState /\ call[c].pc = "list" /\ CallOK(c) /\ row \in Publication
      /\ UNCHANGED <<delivery, final, cur, content, box, rec>> /\ final' \in [Execs -> BOOLEAN]
      /\ DeliveryKept
  BY Unchanged DEF IInv, TypeOK, List
<1>2. /\ call[c].seen.att \in BOOLEAN /\ call[c].seen.media \in BOOLEAN /\ row.att \in BOOLEAN
      /\ call[c].fresh \in BOOLEAN
  BY <1>1 DEF CallState, Publication
<1>3. BudgetKept /\ \A d \in Callers : d # None
  BY DraftAssumption DEF List, BudgetKept, ReadFails, None
<1>4. CASE row.st = "drafting" /\ Write(c, Recovered(row)) /\ Return(c, "nil", row.att, TRUE)
  <2> DEFINE r == Recovered(row)
  <2>1. RowKept(r) /\ r.st # "none" /\ r.media = TRUE /\ r.tok = None
    BY <1>4, RecoveredKeeps
  <2>2. row' = r /\ same' \in [Procs -> BOOLEAN] /\ same'["reconciler"] = FALSE
    BY <1>4, WriteFacts
  <2> HIDE DEF r
  <2>3. "nil" \in Errs /\ TRUE \in BOOLEAN
    BY DEF Errs
  <2> QED
    BY <1>1, <1>2, <1>3, <1>4, <2>1, <2>2, <2>3, FailsInv
<1>5. CASE ReturnConcurrent(c) /\ Keep
  BY <1>1, <1>3, <1>5, LeavesInv
<1>6. ASSUME NEW pc \in {"mark", "reclaim"}, Goto(c, pc), Keep,
             pc = "reclaim" => ~call[c].fresh /\ ~call[c].claimed
      PROVE  IInv' /\ Kept
  <2>1. row' = row
    BY <1>6 DEF Keep
  <2>2. <<call[c].pc, pc>> \in Moves
    BY <1>1 DEF Moves
  <2> QED
    BY <1>1, <1>3, <1>6, <2>1, <2>2, GotoMoves, KeepFacts, CallInv
<1>7. CASE row.st # "none" /\ Return(c, "unsupported", call[c].seen.att, call[c].seen.media)
           /\ Write(c, [row EXCEPT !.st = "unsupported", !.code = "48001", !.due = FALSE])
  <2> DEFINE r == [row EXCEPT !.st = "unsupported", !.code = "48001", !.due = FALSE]
  <2>1. r \in Publication
    BY <1>1 DEF Publication
  <2>2. /\ r.st = "unsupported" /\ r.att = row.att /\ r.n = row.n /\ r.auth = row.auth
        /\ r.media = row.media /\ r.tok = row.tok
    BY <1>1 DEF Publication
  <2>3. row' = r /\ same' \in [Procs -> BOOLEAN] /\ same'["reconciler"] = FALSE
    BY <1>7, WriteFacts
  <2> HIDE DEF r
  <2>4. RowKept(r)
    BY <1>7, <2>1, <2>2, EditKeeps DEF TakenFor
  <2>5. "unsupported" \in Errs
    BY DEF Errs
  <2> QED
    BY <1>1, <1>2, <1>3, <1>7, <2>2, <2>3, <2>4, <2>5, FailsInv
<1>8. CASE /\ Return(c, "config", call[c].seen.att, call[c].seen.media)
           /\ Unclaim(c, call[c].fresh) \/ Keep
  <2>1. "config" \in Errs
    BY DEF Errs
  <2>2. /\ RowKept(row') /\ same' \in [Procs -> BOOLEAN]
        /\ same'["reconciler"] => row'.st # "none"
        /\ \A d \in Callers : row'.tok = d => row.tok = d
    <3>1. CASE Unclaim(c, call[c].fresh)
      BY <1>1, <1>2, <3>1, UnclaimKeeps
    <3>2. CASE Keep
      BY <3>2, KeepFacts DEF Keep
    <3> QED
      BY <1>8, <3>1, <3>2
  <2> QED
    BY <1>1, <1>2, <1>3, <1>8, <2>1, <2>2, FailsInv
<1> QED
  BY <1>4, <1>5, <1>6, <1>7, <1>8 DEF List

\* The attempt is written before the call: nobody else is out, and nothing is in the box.
LEMMA MarkInv == ASSUME IInv, NEW c \in Callers, Mark(c) PROVE IInv' /\ Kept
<1> DEFINE k == call[c]
           m == Marked(row)
           g == [st |-> "in_flight", code |-> "", n |-> Attempt(delivery[k.e]), act |-> ""]
           s == [k EXCEPT !.pc = "add", !.n = Attempt(delivery[k.e])]
<1>1. /\ TypeOK /\ SucceededHasDraft /\ RowInv /\ AddInv /\ \A d \in Callers : CallOK(d)
      /\ k.pc = "mark" /\ UNCHANGED <<final, cur, content, box, rec, budget>>
  BY DEF IInv, Mark
<1>2. /\ row \in Publication /\ call \in [Callers -> CallState] /\ k \in CallState
      /\ delivery \in [Execs -> Delivery] /\ budget \in BudgetType
      /\ final' \in [Execs -> BOOLEAN]
  BY <1>1 DEF TypeOK, RowInv, BudgetType
<1>3. k.e \in Execs /\ k.seen.att \in BOOLEAN /\ k.seen.media \in BOOLEAN
  BY <1>2 DEF CallState, Publication
<1>4. CASE ~(Attempt(delivery[k.e]) # 0 /\ MayAttempt(c))
  <2> DEFINE err == IF Attempt(delivery[k.e]) = 0 THEN NotBegun(delivery[k.e]) ELSE "conflict"
  <2>1. /\ Return(c, err, k.seen.att, k.seen.media) /\ Keep /\ UNCHANGED delivery
    BY <1>4 DEF Mark
  <2>2. err \in Errs /\ err # "nil"
    BY DEF NotBegun, Errs
  <2> HIDE DEF err, k
  <2>3. row' = row /\ DeliveryKept /\ BudgetKept
    BY <1>1, <2>1, Unchanged DEF Keep, BudgetKept
  <2> QED
    BY <1>1, <1>3, <2>1, <2>2, <2>3, KeepFacts, FailsInv
<1>5. CASE Attempt(delivery[k.e]) # 0 /\ MayAttempt(c)
  <2>1. /\ delivery' = [delivery EXCEPT ![k.e] = g] /\ Write(c, m)
        /\ call' = [call EXCEPT ![c].pc = "add", ![c].n = Attempt(delivery[k.e])]
    BY <1>5 DEF Mark
  <2>2. Attempt(delivery[k.e]) \in 0..2
    BY DEF Attempt
  <2>3. g \in Delivery /\ g.st = "in_flight"
    BY <2>2 DEF Delivery
  <2>4. delivery[k.e].st # "succeeded"
    BY <1>5 DEF Attempt
  <2>5. row.st = "drafting" /\ row.tok = c /\ ~row.media /\ row.n < 2 /\ (row.att => row.auth)
    BY <1>5 DEF MayAttempt
  <2>6. m \in Publication
    <3>1. row.n \in 0..2
      BY <1>2 DEF Publication
    <3>2. row.n + 1 \in 0..2
      BY <2>5, <3>1
    <3> QED
      BY <1>2, <3>2 DEF Marked, Publication
  <2>7. /\ m.st = "drafting" /\ m.att = TRUE /\ m.n = row.n + 1 /\ m.auth = FALSE
        /\ m.media = row.media /\ m.tok = c
    BY <1>2, <2>5 DEF Marked, Publication
  <2>8. s \in CallState
    BY <1>2, <2>2 DEF CallState
  <2>9. /\ s.pc = "add" /\ s.prev = k.prev /\ s.fresh = k.fresh /\ s.claimed = k.claimed
        /\ s.seen = k.seen /\ s.err = k.err /\ s.out = k.out
    BY <1>2 DEF CallState
  <2>10. call' = [call EXCEPT ![c] = s]
    BY <1>2, <2>1
  <2>11. CallOK(c)
    BY <1>1
  <2>12. \A d \in Callers : ~Adding(d)
    BY <1>1, <2>5 DEF AddInv
  <2>13. \A e \in Execs : ~(box[e] > 0)
    BY <1>1, <2>5 DEF AddInv
  <2> HIDE DEF m, g, s
  <2>14. row' = m /\ same' \in [Procs -> BOOLEAN] /\ same'["reconciler"] = FALSE
    BY <2>1, WriteFacts
  <2>15. /\ call'[c] = s /\ call' \in [Callers -> CallState]
         /\ \A d \in Callers \ {c} : call'[d] = call[d]
    BY <1>2, <2>8, <2>10
  <2>16. /\ delivery' \in [Execs -> Delivery]
         /\ \A e \in Execs : delivery'[e].st = "succeeded" <=> delivery[e].st = "succeeded"
    BY <1>2, <1>3, <2>1, <2>3, <2>4
  <2>17. TypeOK'
    BY <1>1, <2>6, <2>14, <2>15, <2>16 DEF TypeOK
  <2>18. SucceededHasDraft' /\ Kept
    BY <1>1, <2>5, <2>16 DEF SucceededHasDraft, Kept
  <2>19. RowInv'
    <3>1. row.n \in 0..2
      BY <1>2 DEF Publication
    <3>2. row'.st # "none" /\ row'.n > 0
      BY <2>7, <2>14, <3>1
    <3> QED
      BY <1>1, <1>2, <2>7, <2>14, <3>2 DEF RowInv, BudgetType, TakenFor
  <2>20. AddInv'
    <3>1. \A d \in Callers : Adding(d)' => d = c
      BY <2>12, <2>15 DEF Adding
    <3>2. \A e \in Execs : ~(box'[e] > 0)
      BY <1>1, <2>13
    <3> QED
      BY <2>7, <2>14, <3>1, <3>2 DEF AddInv
  <2>21. ASSUME NEW d \in Callers PROVE CallOK(d)'
    <3>1. CASE d = c
      BY <1>1, <2>5, <2>9, <2>11, <2>15, <3>1 DEF CallOK
    <3>2. CASE d # c
      <4>1. CallOK(d) /\ call'[d] = call[d] /\ row'.tok # d /\ ~row.media /\ rec' = rec
        BY <1>1, <2>5, <2>7, <2>14, <2>15, <3>2
      <4> QED
        BY <4>1, CallStays
    <3> QED
      BY <3>1, <3>2
  <2> QED
    BY <2>17, <2>18, <2>19, <2>20, <2>21 DEF IInv
<1> QED
  BY <1>4, <1>5

\* The call itself: the box was empty, and nobody else calls.
LEMMA AddDraftInv == ASSUME IInv, NEW c \in Callers, AddDraft(c) PROVE IInv' /\ Kept
<1> DEFINE k == call[c]
<1>1. /\ TypeOK /\ SucceededHasDraft /\ RowInv /\ AddInv /\ \A d \in Callers : CallOK(d)
      /\ k.pc = "add" /\ UNCHANGED <<row, delivery, final, cur, content, rec, same, budget>>
  BY DEF IInv, AddDraft
<1>2. call \in [Callers -> CallState] /\ k \in CallState /\ box \in [Execs -> 0..2]
  BY <1>1 DEF TypeOK
<1>3. k.e \in Execs
  BY <1>2 DEF CallState
<1>4. PICK out \in {"media", "lost", "unknown", "48001", "other"} :
        /\ call' = [call EXCEPT ![c].pc = "save", ![c].out = out]
        /\ box' = [box EXCEPT ![k.e] = IF out \in {"media", "lost"} THEN @ + 1 ELSE @]
  BY DEF AddDraft
<1> DEFINE s == [k EXCEPT !.pc = "save", !.out = out]
<1>5. s \in CallState
  BY <1>2 DEF CallState
<1>6. /\ s.pc = "save" /\ s.prev = k.prev /\ s.fresh = k.fresh /\ s.claimed = k.claimed
      /\ s.seen = k.seen /\ s.err = k.err /\ s.out = out
  BY <1>2 DEF CallState
<1>7. call' = [call EXCEPT ![c] = s]
  BY <1>2, <1>4
<1> HIDE DEF s
<1>8. /\ call'[c] = s /\ call' \in [Callers -> CallState]
      /\ \A d \in Callers \ {c} : call'[d] = call[d]
  BY <1>2, <1>5, <1>7
<1>9. Adding(c) /\ \A e \in Execs : ~(box[e] > 0)
  BY <1>1 DEF AddInv, Adding
<1>10. \A e \in Execs : box[e] = 0
  BY <1>2, <1>9
<1>11. /\ box' \in [Execs -> 0..2] /\ \A e \in Execs : e # k.e => box'[e] = 0
       /\ box'[k.e] = IF out \in {"media", "lost"} THEN 1 ELSE 0
  BY <1>2, <1>3, <1>4, <1>10
<1>12. \A d \in Callers : Adding(d)' => d = c
  BY <1>1, <1>8, <1>9 DEF AddInv, Adding
<1>13. TypeOK' /\ RowInv' /\ SucceededHasDraft' /\ Kept
  BY <1>1, <1>8, <1>11 DEF TypeOK, RowInv, SucceededHasDraft, Kept
<1>14. AddInv'
  <2>1. row'.att /\ ~row'.auth
    BY <1>1, <1>9 DEF AddInv
  <2>2. ASSUME NEW e \in Execs, box'[e] > 0
        PROVE  /\ e = k.e /\ box'[e] = 1 /\ out \in {"media", "lost"}
               /\ \A f \in Execs : f # e => box'[f] = 0
    BY <1>11, <2>2
  <2> QED
    BY <1>6, <1>8, <1>12, <2>1, <2>2 DEF AddInv
<1>15. ASSUME NEW d \in Callers PROVE CallOK(d)'
  <2>1. CallOK(d) /\ CallOK(c) /\ row' = row /\ rec' = rec
    BY <1>1
  <2>2. CASE d = c
    <3>1. s.out # "succeeded"
      BY <1>6
    <3>2. ~(k.pc \in {"gate", "list", "mark", "finish", "record"})
      BY <1>1
    <3> HIDE DEF k
    <3>3. call'[c] = s /\ row' = row /\ call[c] = k
      BY <1>8, <2>1 DEF k
    <3> QED
      BY <1>6, <2>1, <2>2, <3>1, <3>2, <3>3 DEF CallOK
  <2>3. CASE d # c
    BY <1>8, <2>1, <2>3, CallStays
  <2> QED
    BY <2>2, <2>3
<1> QED
  BY <1>13, <1>14, <1>15 DEF IInv

\* A definitive answer may authorize another attempt: it says that the box has no draft.
LEMMA RefusedInv ==
  ASSUME IInv, NEW c \in Callers, call[c].pc = "save", row.st = "drafting", row.tok = c,
         call[c].out \in {"48001", "other"}, Write(c, Answered(call[c].out)),
         Return(c, Refused(call[c].out), TRUE, FALSE),
         UNCHANGED <<delivery, final, cur, content, box, rec, budget>>
  PROVE  IInv' /\ Kept
<1> DEFINE r == Answered(call[c].out)
<1>1. /\ TypeOK /\ SucceededHasDraft /\ RowInv /\ AddInv /\ \A d \in Callers : CallOK(d)
      /\ row \in Publication /\ Adding(c)
  BY DEF IInv, TypeOK, Adding
<1>2. (row.n < 2) \in BOOLEAN /\ call[c].out # "media"
  OBVIOUS
<1>3. r \in Publication
  BY <1>1, <1>2 DEF Answered, Publication, None
<1>4. /\ r.st = "unsupported" /\ r.att = row.att /\ r.n = row.n /\ r.media = row.media
      /\ r.tok = None
  BY <1>1, <1>2 DEF Answered, Publication
<1>5. Refused(call[c].out) \in Errs /\ Refused(call[c].out) # "nil"
  BY DEF Refused, Errs
<1>6. /\ call' \in [Callers -> CallState] /\ Moved(c)
      /\ \A d \in Callers \ {c} : call'[d] = call[d]
  BY <1>5, ReturnMoves
<1> HIDE DEF r
<1>7. row' = r /\ same' \in [Procs -> BOOLEAN] /\ same'["reconciler"] = FALSE
  BY WriteFacts DEF r
<1>8. TypeOK'
  BY <1>1, <1>3, <1>6, <1>7 DEF TypeOK
<1>9. RowInv' /\ SucceededHasDraft' /\ Kept
  BY <1>1, <1>4, <1>7 DEF RowInv, SucceededHasDraft, Kept, TakenFor
<1>10. AddInv'
  <2>1. \A d \in Callers : ~Adding(d)'
    BY <1>1, <1>6 DEF AddInv, Adding, Moved
  <2>2. \A e \in Execs : ~(box'[e] > 0)
    BY <1>1 DEF AddInv
  <2> QED
    BY <2>1, <2>2 DEF AddInv
<1>11. ASSUME NEW d \in Callers PROVE CallOK(d)'
  <2>1. CASE d = c
    BY <1>6, <2>1 DEF Moved
  <2>2. CASE d # c
    <3>1. d # None /\ CallOK(d) /\ call'[d] = call[d] /\ row'.tok = None
      BY <1>1, <1>4, <1>6, <1>7, <2>2, DraftAssumption DEF None
    <3>2. row.media => row'.media
      BY <1>4, <1>7
    <3> QED
      BY <3>1, <3>2, CallStays
  <2> QED
    BY <2>1, <2>2
<1> QED
  BY <1>8, <1>9, <1>10, <1>11 DEF IInv

LEMMA SaveInv == ASSUME IInv, NEW c \in Callers, Save(c) PROVE IInv' /\ Kept
<1> DEFINE k == call[c]
<1>1. /\ k.pc = "save" /\ row \in Publication /\ (k.out # "media") \in BOOLEAN
      /\ UNCHANGED <<delivery, final, cur, content, box, rec>> /\ DeliveryKept
      /\ TRUE \in BOOLEAN /\ FALSE \in BOOLEAN
  BY Unchanged DEF IInv, TypeOK, Save
<1>2. row.att = TRUE
  BY <1>1 DEF IInv, AddInv, Adding, Publication
<1>3. BudgetKept
  BY DEF Save, BudgetKept, Fault
<1>4. CASE ReturnConcurrent(c) /\ Keep
  BY <1>1, <1>3, <1>4, LeavesInv
<1>5. CASE Keep /\ Return(c, "db", k.out # "media", FALSE)
  <2>1. "db" \in Errs /\ row' = row
    BY <1>5 DEF Errs, Keep
  <2> HIDE DEF k
  <2> QED
    BY <1>1, <1>3, <1>5, <2>1, KeepFacts, FailsInv
<1>6. CASE /\ row.st = "drafting" /\ row.tok = c /\ Write(c, Answered(k.out)) /\ UNCHANGED budget
           /\ Return(c, CASE k.out = "media" -> "nil"
                          [] k.out \in {"lost", "unknown"} -> "pending"
                          [] OTHER -> Refused(k.out), TRUE, k.out = "media")
  <2>1. CASE k.out \in {"48001", "other"}
    <3>1. Return(c, Refused(k.out), TRUE, FALSE)
      BY <1>6, <2>1
    <3> QED
      BY <1>1, <1>6, <2>1, <3>1, RefusedInv
  <2>2. CASE k.out \notin {"48001", "other"}
    <3> DEFINE r   == Answered(k.out)
               err == CASE k.out = "media" -> "nil"
                        [] k.out \in {"lost", "unknown"} -> "pending"
                        [] OTHER -> Refused(k.out)
    <3>1. r \in Publication
      BY <1>1, <2>2 DEF Answered, Publication, None
    <3>2. /\ r.st # "none" /\ r.att = row.att /\ r.n = row.n /\ r.auth = FALSE /\ r.tok = None
          /\ row.media => r.media
          /\ k.out = "media" => r.media
          /\ r.st = "drafting" \/ (r.st = "drafted" /\ r.media)
      BY <1>1, <1>6, <2>2 DEF Answered, Publication
    <3>3. err \in Errs /\ (err = "nil" => k.out = "media") /\ (k.out = "media") \in BOOLEAN
      BY DEF Refused, Errs
    <3>4. row' = r /\ same' \in [Procs -> BOOLEAN] /\ same'["reconciler"] = FALSE
      BY <1>6, WriteFacts
    <3>5. Return(c, err, TRUE, k.out = "media")
      BY <1>6
    <3> HIDE DEF r, err, k
    <3>6. RowKept(r)
      BY <1>6, <3>1, <3>2, EditKeeps DEF TakenFor
    <3>7. \A d \in Callers : row'.tok = d => row.tok = d
      BY <3>2, <3>4, DraftAssumption DEF None
    <3> QED
      BY <1>1, <1>3, <3>2, <3>3, <3>4, <3>5, <3>6, <3>7, FailsInv
  <2> QED
    BY <2>1, <2>2
<1> QED
  BY <1>4, <1>5, <1>6 DEF Save

LEMMA FinishInv == ASSUME IInv, NEW c \in Callers, Finish(c) PROVE IInv' /\ Kept
<1> DEFINE k == call[c]
           d == [n |-> k.n,
                 st |-> CASE k.err = "nil" -> "succeeded"
                          [] k.err = "pending" -> IF k.att THEN "ambiguous" ELSE "blocked"
                          [] OTHER -> "failed",
                 code |-> IF k.err = "nil" THEN "" ELSE FailureCode(k.err),
                 act |-> CASE k.err = "nil" -> ""
                           [] k.err # "nil" /\ (k.err \in {"rejected", "unsupported"} \/ ~k.att) ->
                                "retry_draft"
                           [] OTHER -> "check_wechat"]
           x == IF delivery[k.e].st = "in_flight" THEN d ELSE delivery[k.e]
<1>1. /\ k.pc = "finish" /\ k \in CallState /\ delivery \in [Execs -> Delivery] /\ CallOK(c)
      /\ UNCHANGED <<row, final, cur, content, box, rec, same, budget>>
      /\ final' \in [Execs -> BOOLEAN]
  BY Unchanged DEF IInv, TypeOK, Finish
<1>2. /\ k.e \in Execs /\ k.n \in 0..2 /\ delivery[k.e] \in Delivery
      /\ FailureCode(k.err) \in {"provider", "unsupported", "other"}
  BY <1>1 DEF CallState, FailureCode
<1>3. d \in Delivery /\ (d.st = "succeeded" => row.media)
  <2>1. /\ d.st \in {"succeeded", "ambiguous", "blocked", "failed"}
        /\ d.st = "succeeded" => k.err = "nil"
    OBVIOUS
  <2>2. d.act \in {"", "retry_draft", "check_wechat"} /\ d.n = k.n
        /\ d.code \in {"", "provider", "unsupported", "other"}
    BY <1>2
  <2>3. k.err = "nil" => row.media
    BY <1>1 DEF CallOK
  <2>4. d = [st |-> d.st, code |-> d.code, n |-> d.n, act |-> d.act]
    OBVIOUS
  <2> HIDE DEF d
  <2> QED
    BY <1>2, <2>1, <2>2, <2>3, <2>4 DEF Delivery
<1>4. delivery' = [delivery EXCEPT ![k.e] = x]
  BY DEF Finish
<1> HIDE DEF d
<1>5. /\ x \in Delivery /\ (delivery[k.e].st = "succeeded" => x.st = "succeeded")
      /\ x.st = "succeeded" => delivery[k.e].st = "succeeded" \/ row.media
  BY <1>2, <1>3
<1>6. Goto(c, "record") /\ <<call[c].pc, "record">> \in Moves
  BY <1>1 DEF Finish, Moves
<1> HIDE DEF k, x
<1>7. DeliveryKept
  BY <1>1, <1>2, <1>4, <1>5 DEF DeliveryKept
<1>8. Keep /\ BudgetKept /\ row' = row
  BY <1>1 DEF Keep, BudgetKept
<1> QED
  BY <1>1, <1>6, <1>7, <1>8, GotoMoves, KeepFacts, CallInv

\* The call is gone; a claim that it held stays on the row.
LEMMA EndedInv ==
  ASSUME IInv, NEW c \in Callers, call' = [call EXCEPT ![c] = Idle],
         same' = [same EXCEPT ![c] = FALSE],
         row' = [row EXCEPT !.tok = IF @ = c THEN Gone ELSE @],
         final' \in [Execs -> BOOLEAN], DeliveryKept, BudgetKept,
         UNCHANGED <<cur, content, box, rec>>
  PROVE  IInv' /\ Kept
<1>1. /\ row \in Publication /\ RowKept(row) /\ call \in [Callers -> CallState]
      /\ same \in [Procs -> BOOLEAN] /\ (row.st = "none" => row = NoRow)
      /\ (same["reconciler"] => row.st # "none")
  BY RowAsItIs DEF IInv, TypeOK, RowInv
<1>2. c # "reconciler" /\ Gone \notin Callers /\ None \notin Callers
  BY DraftAssumption DEF Gone, None
<1>3. row' \in Publication
  BY <1>1 DEF Publication
<1>4. /\ row'.st = row.st /\ row'.att = row.att /\ row'.n = row.n /\ row'.auth = row.auth
      /\ row'.media = row.media /\ row'.tok = (IF row.tok = c THEN Gone ELSE row.tok)
  BY <1>1 DEF Publication
<1>5. row.st = "none" => row' = row
  <2>1. row.st = "none" => row.tok # c
    BY <1>1, <1>2, RestFacts
  <2>2. row.tok # c => row' = [row EXCEPT !.tok = row.tok]
    OBVIOUS
  <2>3. [row EXCEPT !.tok = row.tok] = row
    BY <1>1 DEF Publication
  <2> QED
    BY <2>1, <2>2, <2>3
<1>6. RowKept(row')
  BY <1>1, <1>3, <1>4, <1>5 DEF RowKept, TakenFor
<1>7. \A d \in Callers : row'.tok = d => row.tok = d
  BY <1>2, <1>4
<1>8. same' \in [Procs -> BOOLEAN] /\ (same'["reconciler"] => row'.st # "none")
  BY <1>1, <1>2, <1>4 DEF Procs
<1>9. /\ call' \in [Callers -> CallState] /\ call'[c] = Idle
      /\ \A d \in Callers \ {c} : call'[d] = call[d]
  BY <1>1, RestFacts
<1>10. Moved(c)
  BY <1>9 DEF Moved, CallOK, Idle, NoDelivery, None
<1> QED
  BY <1>6, <1>7, <1>8, <1>9, <1>10, CallInv

LEMMA FailureTypes ==
  ASSUME NEW st \in {"ambiguous", "failed", "blocked"}, NEW act \in {"retry_draft", "check_wechat"},
         NEW code \in {"provider", "unsupported", "other"}
  PROVE  [st |-> st, code |-> code, n |-> 0, act |-> act] \in Delivery
<1>1. st \in {"", "in_flight", "failed", "blocked", "ambiguous", "succeeded"}
  OBVIOUS
<1>2. code \in {"", "provider", "unsupported", "other"}
  OBVIOUS
<1>3. act \in {"", "retry_draft", "check_wechat"}
  OBVIOUS
<1>4. 0 \in 0..2
  OBVIOUS
<1> QED
  BY <1>1, <1>2, <1>3, <1>4, Zenon DEF Delivery

LEMMA RecordInv == ASSUME IInv, NEW c \in Callers, Record(c) PROVE IInv' /\ Kept
<1> DEFINE k == call[c]
           x == IF delivery[k.e].st = "" THEN Outcome(k) ELSE delivery[k.e]
<1>1. /\ k.pc = "record" /\ k \in CallState /\ delivery \in [Execs -> Delivery] /\ CallOK(c)
      /\ final \in [Execs -> BOOLEAN] /\ UNCHANGED <<cur, content, box, rec, budget>>
  BY DEF IInv, TypeOK, Record
<1>2. /\ k.e \in Execs /\ delivery[k.e] \in Delivery
      /\ FailureCode(k.err) \in {"provider", "unsupported", "other"}
  BY <1>1 DEF CallState, FailureCode
<1>3. Outcome(k) \in Delivery /\ (Outcome(k).st = "succeeded" => row.media \/ rec.taken)
  <2> DEFINE o == [st |-> "ambiguous", code |-> "other", n |-> 0, act |-> "check_wechat"]
             f == [st |-> "failed", code |-> FailureCode(k.err), n |-> 0,
                   act |-> IF k.err \in {"rejected", "unsupported"} THEN "retry_draft"
                           ELSE "check_wechat"]
             b == [st |-> "blocked", code |-> FailureCode(k.err), n |-> 0, act |-> "retry_draft"]
  <2>1. CASE k.err = None
    <3>1. k.out \in {"failed", "blocked", "ambiguous", "succeeded"}
          /\ (k.out = "succeeded" => row.media \/ rec.taken)
      BY <1>1, <2>1 DEF CallOK
    <3>2. Outcome(k) = [NoDelivery EXCEPT !.st = k.out]
      BY <2>1 DEF Outcome, None
    <3> QED
      BY <3>1, <3>2, RestFacts DEF Delivery
  <2>2. CASE k.err = "nil"
    <3>1. row.media
      BY <1>1, <2>2 DEF CallOK
    <3>2. Outcome(k) = [NoDelivery EXCEPT !.st = "succeeded"]
      BY <2>2 DEF Outcome, None
    <3> QED
      BY <3>1, <3>2, RestFacts DEF Delivery
  <2>3. CASE k.err \notin {None, "nil"}
    <3>1. Outcome(k) \in {o, f, b}
      BY <2>3 DEF Outcome
    <3>2. o \in Delivery /\ f \in Delivery /\ b \in Delivery
      <4>1. (IF k.err \in {"rejected", "unsupported"} THEN "retry_draft" ELSE "check_wechat")
            \in {"retry_draft", "check_wechat"}
        OBVIOUS
      <4> QED
        BY <1>2, <4>1, FailureTypes
    <3>3. o.st # "succeeded" /\ f.st # "succeeded" /\ b.st # "succeeded"
      OBVIOUS
    <3> HIDE DEF o, f, b
    <3> QED
      BY <3>1, <3>2, <3>3
  <2> QED
    BY <2>1, <2>2, <2>3
<1>4. /\ x \in Delivery /\ (delivery[k.e].st = "succeeded" => x.st = "succeeded")
      /\ x.st = "succeeded" => delivery[k.e].st = "succeeded" \/ row.media \/ rec.taken
  BY <1>2, <1>3
<1>5. \/ UNCHANGED <<delivery, final>>
      \/ delivery' = [delivery EXCEPT ![k.e] = x] /\ final' = [final EXCEPT ![k.e] = TRUE]
  BY DEF Record
<1>6. /\ call' = [call EXCEPT ![c] = Idle] /\ same' = [same EXCEPT ![c] = FALSE]
      /\ row' = [row EXCEPT !.tok = IF @ = c THEN Gone ELSE @]
  BY DEF Record
<1> HIDE DEF k, x
<1>7. DeliveryKept /\ final' \in [Execs -> BOOLEAN]
  BY <1>1, <1>2, <1>4, <1>5, Unchanged DEF DeliveryKept
<1> QED
  BY <1>1, <1>6, <1>7, EndedInv DEF BudgetKept

LEMMA CrashInv == ASSUME IInv, NEW c \in Callers, Crash(c) PROVE IInv' /\ Kept
<1>1. BudgetKept /\ DeliveryKept /\ final' \in [Execs -> BOOLEAN]
  BY Unchanged DEF Crash, BudgetKept, Fault
<1> QED
  BY <1>1, EndedInv DEF Crash

LEMMA StepCallInv == ASSUME IInv, NEW c \in Callers, Step(c) PROVE IInv' /\ Kept
BY ResolveInv, LoadInv, FindInv, CreateInv, ClaimInv, GateInv, ListInv, ReclaimInv, MarkInv,
   AddDraftInv, SaveInv, FinishInv, RecordInv DEF Step

-----------------------------------------------------------------------------
(* The reconciler, time                                                      *)

\* The reconciler writes its own version of the row, or nothing.
LEMMA CASKeeps ==
  ASSUME IInv, NEW r, CAS(r),
         same["reconciler"] /\ row.st # "none" =>
           RowKept(r) /\ r.st # "none" /\ r.tok \in {None, row.tok}
  PROVE  /\ RowKept(row') /\ same' \in [Procs -> BOOLEAN]
         /\ same'["reconciler"] => row'.st # "none"
         /\ \A d \in Callers : row'.tok = d => row.tok = d
<1>1. CASE same["reconciler"] /\ Write("reconciler", r)
  <2>1. row.st # "none"
    BY <1>1 DEF IInv, RowInv
  <2>2. row' = r /\ same' \in [Procs -> BOOLEAN]
    BY <1>1 DEF Write, Procs
  <2> QED
    BY <1>1, <2>1, <2>2, DraftAssumption DEF None
<1>2. CASE Keep
  BY <1>2, KeepFacts DEF Keep
<1> QED
  BY <1>1, <1>2 DEF CAS

LEMMA ReconcilerInv ==
  ASSUME IInv, RowKept(row'), \A d \in Callers : row'.tok = d => row.tok = d, DeliveryKept,
         BudgetKept, UNCHANGED <<final, cur, content, box, call>>, same' \in [Procs -> BOOLEAN],
         same'["reconciler"] => row'.st # "none",
         RecKept
  PROVE  IInv' /\ Kept
<1>1. call' \in [Callers -> CallState] /\ final' \in [Execs -> BOOLEAN] /\ cur' \in Execs
  BY Unchanged DEF IInv, TypeOK
<1>2. \A d \in Callers : Undisturbed(d)
  BY DEF Undisturbed
<1> QED
  BY <1>1, <1>2, QuietInv

\* An edit by the reconciler: the state, the error and the time of the next check
Edit(r) ==
  /\ r \in Publication /\ r.st # "none" /\ r.tok = row.tok
  /\ r.att = row.att /\ r.n = row.n /\ r.auth = row.auth /\ r.media = row.media
  /\ TakenFor(r) => TakenFor(row) \/ rec'.taken

LEMMA EditFacts ==
  ASSUME IInv, row.st # "none", NEW code \in {"", "48001", "other"}
  PROVE  /\ Edit(row) /\ Edit([row EXCEPT !.code = code])
         /\ Edit([row EXCEPT !.code = code, !.st = "drafting"])
         /\ Edit([row EXCEPT !.st = "unsupported", !.code = code, !.due = FALSE])
<1>1. row \in Publication
  BY DEF IInv, TypeOK
<1>2. Edit(row)
  BY <1>1 DEF Edit
<1>3. Edit([row EXCEPT !.code = code])
  BY <1>1 DEF Edit, Publication, TakenFor
<1>4. Edit([row EXCEPT !.code = code, !.st = "drafting"])
  BY <1>1 DEF Edit, Publication, TakenFor
<1>5. Edit([row EXCEPT !.st = "unsupported", !.code = code, !.due = FALSE])
  BY <1>1 DEF Edit, Publication, TakenFor
<1> QED
  BY <1>2, <1>3, <1>4, <1>5

LEMMA CheckedFacts == ASSUME NEW r, Edit(r) PROVE Edit(CheckAgain(r))
<1>1. CASE r.old
  BY <1>1 DEF CheckAgain, Edit, Publication, TakenFor
<1>2. CASE ~r.old
  BY <1>2 DEF CheckAgain, Edit, Publication, TakenFor
<1> QED
  BY <1>1, <1>2

LEMMA EditedKeeps ==
  ASSUME IInv, NEW r, CAS(r), same["reconciler"] /\ row.st # "none" => Edit(r)
  PROVE  /\ RowKept(row') /\ same' \in [Procs -> BOOLEAN]
         /\ same'["reconciler"] => row'.st # "none"
         /\ \A d \in Callers : row'.tok = d => row.tok = d
<1>1. same["reconciler"] /\ row.st # "none" =>
        RowKept(r) /\ r.st # "none" /\ r.tok \in {None, row.tok}
  BY EditKeeps DEF Edit
<1> QED
  BY <1>1, CASKeeps

\* The search for an article ends with the row as it is, or taken for the article.
LEMMA TakenFacts ==
  ASSUME IInv, row.st # "none", NEW due \in BOOLEAN
  PROVE  /\ Edit([row EXCEPT !.due = due, !.st = IF @ = "needs_selection" THEN "drafted" ELSE @])
         /\ rec'.taken => /\ Edit([row EXCEPT !.st = "published", !.due = due])
                          /\ Edit([row EXCEPT !.st = "needs_selection", !.due = due])
<1>1. row \in Publication
  BY DEF IInv, TypeOK
<1>2. Edit([row EXCEPT !.due = due, !.st = IF @ = "needs_selection" THEN "drafted" ELSE @])
  BY <1>1 DEF Edit, Publication, TakenFor
<1>3. rec'.taken => /\ Edit([row EXCEPT !.st = "published", !.due = due])
                    /\ Edit([row EXCEPT !.st = "needs_selection", !.due = due])
  BY <1>1 DEF Edit, Publication
<1> QED
  BY <1>2, <1>3

\* The reconciler goes on.
LEMMA RecGoesKeeps ==
  ASSUME IInv, NEW pc \in {"idle", "list", "publishes", "sync"}, NEW att \in BOOLEAN,
         RecGoes(pc, att)
  PROVE  RecKept /\ rec'.taken = rec.taken
<1>1. rec \in RecType
  BY DEF IInv, TypeOK, RecType
<1> QED
  BY <1>1 DEF RecGoes, RecKept, RecType

LEMMA ListDraftsInv == ASSUME IInv, ListDrafts PROVE IInv' /\ Kept
<1> DEFINE found == [Recovered(row) EXCEPT !.due = ~row.old]
           again == CheckAgain([row EXCEPT !.code = ""])
           Good  == /\ RowKept(row') /\ same' \in [Procs -> BOOLEAN]
                    /\ same'["reconciler"] => row'.st # "none"
                    /\ \A d \in Callers : row'.tok = d => row.tok = d
<1>1. /\ rec \in RecType /\ row \in Publication /\ same \in [Procs -> BOOLEAN]
      /\ DeliveryKept /\ BudgetKept /\ (same["reconciler"] => row.st # "none")
      /\ UNCHANGED <<delivery, final, cur, content, box, call>>
  BY Unchanged DEF IInv, TypeOK, RowInv, ListDrafts, BudgetKept, ReadFails, RecType
<1>2. ASSUME row.st # "none"
      PROVE  RowKept(found) /\ found.st # "none" /\ found.tok \in {None, row.tok}
  <2>1. RowKept(Recovered(row)) /\ Recovered(row).st = "drafted" /\ Recovered(row).tok = None
        /\ Recovered(row).media = TRUE
    BY <1>2, RecoveredKeeps
  <2>2. found \in Publication
    BY <1>1, <2>1 DEF RowKept, Publication
  <2>3. /\ found.st = "drafted" /\ found.att = Recovered(row).att /\ found.n = Recovered(row).n
        /\ found.auth = Recovered(row).auth /\ found.media = Recovered(row).media
        /\ found.tok = None
    BY <2>1 DEF RowKept, Publication
  <2> HIDE DEF found
  <2> QED
    BY <2>1, <2>2, <2>3 DEF RowKept, TakenFor
<1>3. ASSUME CAS(found) PROVE Good
  <2> HIDE DEF found
  <2> QED
    BY <1>2, <1>3, CASKeeps
<1>4. ASSUME CAS(CheckAgain([row EXCEPT !.code = "48001"])) PROVE Good
  BY <1>4, EditFacts, CheckedFacts, EditedKeeps
<1>5. ASSUME CAS([row EXCEPT !.st = "unsupported", !.code = "48001", !.due = FALSE]) PROVE Good
  BY <1>5, EditFacts, EditedKeeps
<1>6. ASSUME CAS(CheckAgain(row)) PROVE Good
  BY <1>6, EditFacts, CheckedFacts, EditedKeeps
<1>7. CASE \/ CAS(found) \/ CAS(CheckAgain(row)) \/ CAS(CheckAgain([row EXCEPT !.code = "48001"]))
           \/ CAS([row EXCEPT !.st = "unsupported", !.code = "48001", !.due = FALSE])
  <2>1. Good
    BY <1>3, <1>4, <1>5, <1>6, <1>7
  <2> HIDE DEF Good
  <2> QED
    <3>1. ASSUME RecGoes("sync", FALSE) PROVE IInv' /\ Kept
      BY <1>1, <2>1, <3>1, RecGoesKeeps, ReconcilerInv DEF Good
    <3>2. CASE RecGoes("sync", FALSE)
      BY <3>1, <3>2
    <3>3. CASE ~RecGoes("sync", FALSE)
      <4>1. /\ row' = IF same["reconciler"] THEN again ELSE row
            /\ IF Pending(row') THEN RecGoes("publishes", row'.att) ELSE RecGoes("idle", FALSE)
        BY <3>3 DEF ListDrafts
      <4>2. row'.att \in BOOLEAN
        BY <2>1 DEF Good, RowKept, Publication
      <4>3. RecKept
        BY <4>1, <4>2, RecGoesKeeps
      <4> QED
        BY <1>1, <2>1, <4>3, ReconcilerInv DEF Good
    <3> QED
      BY <3>2, <3>3
<1>8. CASE /\ row' = IF same["reconciler"] THEN again ELSE row
           /\ same' = [q \in Procs |->
                         (q = "reconciler" /\ Pending(row')) \/ (same[q] /\ ~same["reconciler"])]
           /\ IF Pending(row') THEN RecGoes("publishes", row'.att) ELSE RecGoes("idle", FALSE)
  <2>1. same["reconciler"] => Edit(again)
    BY <1>1, EditFacts, CheckedFacts
  <2> HIDE DEF again
  <2>2. same["reconciler"] => RowKept(again) /\ again.st # "none" /\ again.tok = row.tok
    BY <1>1, <2>1, EditKeeps DEF Edit
  <2>3. RowKept(row') /\ row'.tok = row.tok
    BY <1>8, <2>2, RowAsItIs
  <2>4. row'.att \in BOOLEAN
    BY <2>3 DEF RowKept, Publication
  <2>5. RecKept
    BY <1>8, <2>4, RecGoesKeeps
  <2>6. same' \in [Procs -> BOOLEAN]
    BY <1>1, <1>8
  <2>7. same'["reconciler"] => row'.st # "none"
    BY <1>1, <1>8 DEF Procs, Pending, TakenFor
  <2> QED
    BY <1>1, <2>3, <2>5, <2>6, <2>7, ReconcilerInv
<1> QED
  BY <1>7, <1>8 DEF ListDrafts

LEMMA ListPublishesInv == ASSUME IInv, ListPublishes PROVE IInv' /\ Kept
<1> DEFINE Good == /\ RowKept(row') /\ same' \in [Procs -> BOOLEAN]
                   /\ same'["reconciler"] => row'.st # "none"
                   /\ \A d \in Callers : row'.tok = d => row.tok = d
           due  == ~row.old
           none == [row EXCEPT !.due = due, !.st = IF @ = "needs_selection" THEN "drafted" ELSE @]
           its  == [row EXCEPT !.st = "published", !.due = FALSE]
           ask  == [row EXCEPT !.st = "needs_selection", !.due = due]
<1>1. /\ BudgetKept /\ DeliveryKept /\ row \in Publication /\ rec \in RecType
      /\ UNCHANGED <<delivery, final, cur, content, box, call>>
  BY Unchanged DEF ListPublishes, TakeArticle, BudgetKept, ReadFails, IInv, TypeOK, RecType
<1>2. due \in BOOLEAN /\ FALSE \in BOOLEAN
  BY <1>1 DEF Publication
<1> HIDE DEF due
<1>3. ASSUME CAS(CheckAgain([row EXCEPT !.code = "other", !.st = "drafting"])) PROVE Good
  BY <1>3, EditFacts, CheckedFacts, EditedKeeps
<1>4. ASSUME CAS([row EXCEPT !.st = "unsupported", !.code = "other", !.due = FALSE]) PROVE Good
  BY <1>4, EditFacts, EditedKeeps
<1>5. ASSUME CAS(CheckAgain(row)) PROVE Good
  BY <1>5, EditFacts, CheckedFacts, EditedKeeps
<1>6. ASSUME CAS(none) PROVE Good
  BY <1>2, <1>6, TakenFacts, EditedKeeps
<1>7. ASSUME TakeArticle(its) \/ TakeArticle(ask) PROVE Good /\ RecKept
  <2>1. /\ rec' = [rec EXCEPT !.pc = "sync", !.att = FALSE, !.taken = @ \/ same["reconciler"]]
        /\ same["reconciler"] \in BOOLEAN
    BY <1>7 DEF TakeArticle, IInv, TypeOK, Procs
  <2>2. RecKept /\ (same["reconciler"] => rec'.taken)
    BY <1>1, <2>1 DEF RecKept, RecType
  <2>3. same["reconciler"] /\ row.st # "none" => Edit(its) /\ Edit(ask)
    BY <1>2, <2>2, TakenFacts
  <2>4. CAS(its) \/ CAS(ask)
    BY <1>7 DEF TakeArticle
  <2> HIDE DEF its, ask
  <2>5. Good
    BY <2>3, <2>4, EditedKeeps
  <2> QED
    BY <2>2, <2>5
<1>8. Good /\ RecKept
  <2>1. CASE RecGoes("sync", FALSE)
    <3>1. RecKept
      BY <1>2, <2>1, RecGoesKeeps
    <3> QED
      BY <1>3, <1>4, <1>5, <1>6, <1>7, <3>1 DEF ListPublishes, due
  <2>2. CASE ~RecGoes("sync", FALSE)
    BY <1>7, <2>2 DEF ListPublishes, due
  <2> QED
    BY <2>1, <2>2
<1> QED
  BY <1>1, <1>8, ReconcilerInv

\* The row's end is brought to the delivery: a success only of a draft that is known, and
\* over no success.
LEMMA SyncDeliveryInv == ASSUME IInv, SyncDelivery PROVE IInv' /\ Kept
<1> DEFINE e == row.exec
           x == IF /\ row.st # "none" /\ e = cur /\ Terminal # NoDelivery
                   /\ delivery[e].st # Terminal.st
                   /\ delivery[e].st \in {"ambiguous", "in_flight", "failed"}
                THEN Terminal ELSE delivery[e]
<1>1. row \in Publication /\ delivery \in [Execs -> Delivery]
      /\ UNCHANGED <<row, final, cur, content, box, call, same, budget>>
  BY DEF IInv, TypeOK, SyncDelivery
<1>2. e \in Execs /\ delivery[e] \in Delivery
  BY <1>1 DEF Publication
<1>3. Terminal \in Delivery /\ (Terminal.st = "succeeded" => row.media)
  <2>1. CASE row.media
    <3>1. Terminal = [NoDelivery EXCEPT !.st = "succeeded"]
      BY <2>1 DEF Terminal
    <3> QED
      BY <2>1, <3>1, RestFacts DEF Delivery
  <2>2. CASE ~row.media
    <3> DEFINE Ends == [st : {"failed"}, code : {"unsupported", "other"}, n : 0..2,
                        act : {"retry_draft", "check_wechat"}]
    <3>1. Terminal \in Ends \cup {NoDelivery}
      BY <2>2 DEF Terminal
    <3>2. \A t \in Ends : t \in Delivery /\ t.st = "failed"
      BY DEF Delivery
    <3> HIDE DEF Ends
    <3> QED
      BY <3>1, <3>2, RestFacts
  <2> QED
    BY <2>1, <2>2
<1>4. /\ x \in Delivery /\ (delivery[e].st = "succeeded" => x.st = "succeeded")
      /\ x.st = "succeeded" => delivery[e].st = "succeeded" \/ row.media
  BY <1>2, <1>3
<1>5. delivery' = [delivery EXCEPT ![e] = x]
  BY DEF SyncDelivery
<1>6. RecKept
  BY RecGoesKeeps DEF SyncDelivery
<1> HIDE DEF e, x
<1>7. DeliveryKept /\ Keep /\ BudgetKept
  BY <1>1, <1>2, <1>4, <1>5 DEF DeliveryKept, Keep, BudgetKept
<1> QED
  BY <1>1, <1>6, <1>7, KeepFacts, ReconcilerInv

LEMMA LoadPendingInv == ASSUME IInv, LoadPending PROVE IInv' /\ Kept
<1>1. row \in Publication /\ same \in [Procs -> BOOLEAN] /\ RowKept(row)
  BY RowAsItIs DEF IInv, TypeOK
<1>2. /\ same' \in [Procs -> BOOLEAN] /\ row' = row /\ row.st # "none"
      /\ row.att \in BOOLEAN
  BY <1>1 DEF LoadPending, Publication, Pending, TakenFor
<1>3. DeliveryKept /\ BudgetKept
  BY Unchanged DEF LoadPending, BudgetKept
<1>4. RecKept
  BY <1>2, RecGoesKeeps DEF LoadPending
<1> QED
  BY <1>1, <1>2, <1>3, <1>4, ReconcilerInv DEF LoadPending

\* Time: the claim becomes stale, the draft old.
LEMMA TimeInv == ASSUME IInv, LeaseExpires \/ Old PROVE IInv' /\ Kept
<1>1. /\ row \in Publication /\ same \in [Procs -> BOOLEAN] /\ (row.st = "none" => row = NoRow)
      /\ (row.att => row.n > 0) /\ (same["reconciler"] => row.st # "none")
  BY DEF IInv, TypeOK, RowInv
<1>2. row.st # "none"
  BY <1>1, RestFacts DEF LeaseExpires, Old, Pending, TakenFor
<1>3. Edit(row')
  BY <1>1, <1>2 DEF LeaseExpires, Old, Edit, Publication, TakenFor
<1>4. RowKept(row') /\ row'.st # "none" /\ row'.tok = row.tok
  BY <1>2, <1>3, EditKeeps DEF Edit
<1>5. DeliveryKept /\ BudgetKept /\ UNCHANGED <<final, cur, content, box, call, rec, same>>
  BY Unchanged DEF LeaseExpires, Old, BudgetKept
<1> QED
  BY <1>1, <1>4, <1>5, Unchanged, ReconcilerInv

LEMMA CrashReconcilerInv == ASSUME IInv, CrashReconciler PROVE IInv' /\ Kept
<1>1. Keep /\ DeliveryKept /\ BudgetKept /\ RecKept
  BY Unchanged, RecGoesKeeps DEF CrashReconciler, Keep, BudgetKept, Fault
<1> QED
  BY <1>1, KeepFacts, ReconcilerInv DEF CrashReconciler

-----------------------------------------------------------------------------
(* The theorems                                                              *)

LEMMA StepInv == IInv /\ Next => IInv' /\ Kept
<1> SUFFICES ASSUME IInv, Next PROVE IInv' /\ Kept
    OBVIOUS
<1>1. ASSUME NEW c \in Callers, Finalize(c) \/ Recover(c) \/ UserDraft(c) \/ Step(c) \/ Crash(c)
      PROVE  IInv' /\ Kept
  BY <1>1, FinalizeInv, RecoverInv, UserDraftInv, StepCallInv, CrashInv
<1>2. CASE NewExecution
  BY <1>2, NewExecutionInv
<1>3. CASE ReconcileProject \/ Reconciling
  BY <1>3, LoadPendingInv, ListDraftsInv, ListPublishesInv, SyncDeliveryInv
     DEF ReconcileProject, Reconciling
<1>4. CASE LeaseExpires \/ Old \/ CrashReconciler
  BY <1>4, TimeInv, CrashReconcilerInv
<1> QED
  BY <1>1, <1>2, <1>3, <1>4 DEF Next

LEMMA StutterInv == IInv /\ UNCHANGED vars => IInv' /\ Kept
<1> SUFFICES ASSUME IInv, UNCHANGED vars PROVE IInv' /\ Kept
    OBVIOUS
<1>1. Keep /\ BudgetKept
  BY DEF vars, Keep, BudgetKept
<1> QED
  BY <1>1, KeepFacts, Unchanged, ReconcilerInv DEF vars

\* The inductive invariant holds in every behaviour.
THEOREM Invariance == Spec => []IInv
<1>1. IInv /\ [Next]_vars => IInv'
  BY StepInv, StutterInv
<1> QED
  BY <1>1, InitInv, PTL DEF Spec

\* At most one draft/add of an article is accepted, whatever is lost, retried, taken over or
\* run again (MarkDraftAddAttempted, RetryUnsupportedDraft).
THEOREM OneDraftOnly == Spec => []OneDraft
<1>1. IInv => OneDraft
  <2> SUFFICES ASSUME IInv, NEW e \in Execs, NEW f \in Execs
               PROVE  box[e] <= 1 /\ (e # f /\ content[e] = content[f] => box[e] + box[f] <= 1)
    BY DEF OneDraft
  <2>1. box[e] \in 0..2 /\ box[f] \in 0..2
    BY DEF IInv, TypeOK
  <2>2. box[e] > 0 => box[e] = 1 /\ (f # e => box[f] = 0)
    BY DEF IInv, AddInv
  <2>3. box[f] > 0 => box[f] = 1
    BY DEF IInv, AddInv
  <2> QED
    BY <2>1, <2>2, <2>3
<1> QED
  BY <1>1, Invariance, PTL

\* An attempt is on record before it is made, and a success only of a draft that is known, or
\* after a published article was taken for the row's (MarkDraftAddAttempted,
\* finishDraftDelivery, syncReconciledDraftDelivery, draftDeliveryStatusFromPublication).
THEOREM RecordIsTrue == Spec => []RecordMatchesWechat
<1>1. IInv => RecordMatchesWechat
  <2> SUFFICES ASSUME IInv PROVE EvidenceFirst
    BY DEF RecordMatchesWechat, IInv
  <2>1. \A c \in Callers : call[c].pc \in {"add", "save"} => row.att /\ row.n > 0
    BY DEF IInv, AddInv, Adding, RowInv
  <2>2. (\E e \in Execs : box[e] > 0) => row.att
    BY DEF IInv, AddInv
  <2> QED
    BY <2>1, <2>2 DEF EvidenceFirst
<1> QED
  BY <1>1, Invariance, PTL

\* No late answer, listing or recovery takes back a draft that is known or a delivery that
\* succeeded (UpdateDraftClaimed, TransitionDraftRecovered, finishDraftDelivery).
THEOREM DraftKept == Spec => DraftIsKept
<1>1. IInv /\ [Next]_vars => [Kept]_vars
  BY StepInv
<1>2. [Kept]_vars => [ (row.media => row'.media) /\
        \A e \in Execs : delivery[e].st = "succeeded" => delivery'[e].st = "succeeded" ]_vars
  BY DEF Kept
<1> QED
  BY <1>1, <1>2, Invariance, PTL DEF Spec, DraftIsKept
=============================================================================
