---------------------------- MODULE WechatDraft ----------------------------
(***************************************************************************)
(* The WeChat draft of one task.  The finalizer of an execution, a recovery *)
(* or a user calls CreateDraft: it claims the task's publication row, looks *)
(* in WeChat's draft box for a draft that is there already, writes that it  *)
(* is about to call draft/add, calls it, and writes what came back.  The    *)
(* call may be accepted although its answer is lost, so a reconciler looks  *)
(* for the draft later.  The row guards the call across executions of the   *)
(* task, the draft delivery of the execution guards it within one.          *)
(*                                                                          *)
(* Two encodings keep the state finite.  updated_at is one flag per process *)
(* (same): the row is still the one it loaded.  The claim token is the name *)
(* of the call that holds it, Gone once that call ended without clearing it.*)
(* While the draft is looked for, the project's published articles are      *)
(* listed too, and one that is like this row's ends the search, draft or    *)
(* none.  What a user selects then, and formal publication after the draft, *)
(* are module WechatPublish's subject.                                      *)
(***************************************************************************)
EXTENDS Integers, FiniteSets

CONSTANTS
  Callers,    \* concurrent CreateDraft calls
  LastExec,   \* the task's executions are 1..LastExec
  Contents,   \* articles, as told apart by their fingerprints
  Budgets     \* bounds on what happens: the callers and the executions there are, calls by
              \* users, errors of WeChat's read calls and of the configuration, listings with
              \* an article like this one, and crashes and failed updates

ASSUME DraftAssumption ==
  /\ LastExec \in Nat \ {0}
  /\ {"reconciler", "none", "gone"} \cap Callers = {}
  /\ Budgets \subseteq [callers : SUBSET Callers, execs : 1..LastExec, calls : Nat, errors : Nat,
                        articles : Nat, faults : Nat]

VARIABLES
  row,       \* the task's publication
  delivery,  \* execution -> its draft delivery status and evidence
  final,     \* execution -> its finalizer is past the draft stage
  cur,       \* CurrentExecutionID
  content,   \* execution -> the article it delivered
  box,       \* WeChat's draft box: execution -> drafts it added
  call,      \* caller -> its local state
  rec,       \* the reconciler's local state, with a history that no action reads: it has
             \* taken a published article for the row's (taken)
  same,      \* process -> updated_at is still the one it loaded
  budget     \* what is left of the budget of this behaviour

vars == <<row, delivery, final, cur, content, box, call, rec, same, budget>>

None  == "none"
Gone  == "gone"
Execs == 1..LastExec
Procs == Callers \cup {"reconciler"}

NoRow == [st |-> "none", tok |-> None, stale |-> FALSE, att |-> FALSE, n |-> 0, auth |-> FALSE,
          media |-> FALSE, code |-> "", exec |-> 1, due |-> FALSE, old |-> FALSE]
NoDelivery == [st |-> "", code |-> "", n |-> 0, act |-> ""]
Idle == [pc |-> "idle", kind |-> None, e |-> 1, seen |-> NoRow, prev |-> NoDelivery,
         fresh |-> FALSE, claimed |-> FALSE, n |-> 0, out |-> None, err |-> None,
         att |-> FALSE, media |-> FALSE]

\* The columns of the publication and of a draft delivery, and a call's local state: what
\* it goes to do next (pc), the row and the delivery it has seen, whether it created or
\* claimed the row, what WeChat answered and what it returns
Publication ==
  [st : {"none", "drafting", "unsupported", "drafted", "publish_failed", "needs_selection",
         "published"},
   tok : Callers \cup {None, Gone}, stale : BOOLEAN, att : BOOLEAN, n : 0..2, auth : BOOLEAN,
   media : BOOLEAN, code : {"", "48001", "other"}, exec : Execs, due : BOOLEAN, old : BOOLEAN]
Delivery ==
  [st : {"", "in_flight", "failed", "blocked", "ambiguous", "succeeded"},
   code : {"", "provider", "unsupported", "other"}, n : 0..2,
   act : {"", "retry_draft", "check_wechat"}]
CallState ==
  [pc : {"idle", "resolve", "load", "find", "claim", "create", "gate", "list", "reclaim", "mark",
         "add", "save", "finish", "record"},
   kind : {None, "final", "user"}, e : Execs, seen : Publication, prev : Delivery,
   fresh : BOOLEAN, claimed : BOOLEAN, n : 0..2,
   out : {None, "", "48001", "other", "media", "lost", "unknown", "succeeded", "failed",
          "blocked", "ambiguous"},
   err : {None, "nil", "pending", "mismatch", "conflict", "config", "db", "unsupported",
          "rejected", "expired"},
   att : BOOLEAN, media : BOOLEAN]

TypeOK ==
  /\ row \in Publication /\ delivery \in [Execs -> Delivery]
  /\ final \in [Execs -> BOOLEAN] /\ cur \in Execs /\ content \in [Execs -> Contents]
  /\ box \in [Execs -> 0..2] /\ same \in [Procs -> BOOLEAN]
  /\ call \in [Callers -> CallState]
  /\ rec \in [pc : {"idle", "list", "publishes", "sync"}, att : BOOLEAN, taken : BOOLEAN]
  /\ \E b \in Budgets : /\ budget.callers = b.callers /\ budget.execs = b.execs
                        /\ budget.calls \in 0..b.calls /\ budget.errors \in 0..b.errors
                        /\ budget.articles \in 0..b.articles /\ budget.faults \in 0..b.faults

Init ==
  /\ row = NoRow /\ delivery = [e \in Execs |-> NoDelivery] /\ cur = 1
  /\ final = [e \in Execs |-> FALSE]
  /\ budget \in Budgets
  /\ content \in {f \in [Execs -> Contents] :
                    /\ f[1] = CHOOSE a \in Contents : TRUE     \* the names do not matter
                    /\ \A e \in Execs : e > budget.execs => f[e] = f[1]}
  /\ box = [e \in Execs |-> 0] /\ call = [c \in Callers |-> Idle]
  /\ rec = [pc |-> "idle", att |-> FALSE, taken |-> FALSE] /\ same = [p \in Procs |-> FALSE]

Spend(what) == budget[what] > 0 /\ budget' = [budget EXCEPT ![what] = @ - 1]
Fault     == Spend("faults")
ReadFails == Spend("errors")

\* A write of the row changes updated_at: every copy but the writer's is out of date.
Write(p, r) == row' = r /\ same' = [q \in Procs |-> q = p]
Keep        == UNCHANGED <<row, same>>

\* exactWechatDraftMatch: exactly one draft with the article's fingerprint
InBox(e) == {f \in Execs : content[f] = content[e] /\ box[f] > 0}
ExactMatch == \E f \in Execs : InBox(row.exec) = {f} /\ box[f] = 1

\* draftRetryEligible
RetryEligible ==
  row.st = "unsupported" /\ ~row.media /\ row.code # "" /\ row.n < 2 /\ (row.att => row.auth)

Refused(code) == IF code = "48001" THEN "unsupported" ELSE "rejected"

\* finishConcurrentDraftRecovery: what the row says now
Concurrent ==
  CASE row.media -> "nil"
    [] ~row.media /\ row.st = "unsupported" -> Refused(row.code)
    [] ~row.media /\ row.st = "publish_failed" -> "expired"
    [] OTHER -> "pending"

\* A call returns: through the deferred finishDraftDelivery once it began a delivery, then
\* to the finalizer or to the user.
Returned(c, err, att, media) ==
  [Idle EXCEPT !.kind = call[c].kind, !.e = call[c].e, !.n = call[c].n, !.err = err, !.att = att,
               !.media = media, !.pc = IF call[c].n > 0 THEN "finish" ELSE "record"]
Return(c, err, att, media) == call' = [call EXCEPT ![c] = Returned(c, err, att, media)]
ReturnConcurrent(c) == Return(c, Concurrent, row.att, row.media)
Goto(c, pc) == call' = [call EXCEPT ![c].pc = pc]

-----------------------------------------------------------------------------
(* Who calls                                                                 *)

\* finalizeCloudDraftDelivery: a delivery that has a status is not touched
Finalize(c) ==
  /\ c \in budget.callers /\ call[c].pc = "idle" /\ ~final[cur]
  /\ \/ /\ delivery[cur].st = ""
        /\ call' = [call EXCEPT ![c] = [Idle EXCEPT !.pc = "resolve", !.kind = "final", !.e = cur]]
        /\ UNCHANGED final
     \/ /\ delivery[cur].st # ""
        /\ final' = [final EXCEPT ![cur] = TRUE] /\ UNCHANGED call
  /\ UNCHANGED <<row, delivery, cur, content, box, rec, same, budget>>

\* retryServerOwnedArticlePublication, offered by the outcome's action; the evidence stays
Recover(c) ==
  /\ c \in budget.callers /\ call[c].pc = "idle" /\ final[cur] /\ Spend("calls")
  /\ delivery[cur].act = "retry_draft" /\ delivery[cur].st \in {"", "blocked", "failed"}
  /\ delivery' = [delivery EXCEPT ![cur].st = ""]
  /\ call' = [call EXCEPT ![c] = [Idle EXCEPT !.pc = "resolve", !.kind = "final", !.e = cur]]
  /\ UNCHANGED <<row, final, cur, content, box, rec, same>>

\* CreateDraftInteractive
UserDraft(c) ==
  /\ c \in budget.callers /\ call[c].pc = "idle" /\ Spend("calls")
  /\ call' = [call EXCEPT ![c] = [Idle EXCEPT !.pc = "load", !.kind = "user", !.e = cur]]
  /\ UNCHANGED <<row, delivery, final, cur, content, box, rec, same>>

\* The task gets another execution (a retry, an edit, new images).
NewExecution ==
  /\ final[cur] /\ cur < budget.execs /\ cur' = cur + 1
  /\ UNCHANGED <<row, delivery, final, content, box, call, rec, same, budget>>

\* The row was taken for a published article, and knows no draft.
TakenFor(r) == r.st \in {"needs_selection", "published"} \/ (r.st = "drafted" /\ ~r.media)

\* resolveCloudDraftDelivery, draftDeliveryStatusFromPublication: a publication of this
\* execution that may not be retried is reported as it is
FromPublication ==
  CASE row.media \/ TakenFor(row) -> "succeeded"
    [] ~row.media /\ row.st \in {"unsupported", "publish_failed"} -> "failed"
    [] ~row.media /\ row.st = "drafting" /\ ~row.att -> "blocked"
    [] OTHER -> "ambiguous"

Resolve(c) ==
  /\ call[c].pc = "resolve"
  /\ call' = [call EXCEPT ![c] =
       IF row.st # "none" /\ row.exec = @.e /\ ~RetryEligible
       THEN [@ EXCEPT !.pc = "record", !.out = FromPublication]
       ELSE [@ EXCEPT !.pc = "load"]]
  /\ UNCHANGED <<row, delivery, final, cur, content, box, rec, same, budget>>

\* wechatDraftDeliveryFailureCode, as far as beginDraftDelivery tells the codes apart
FailureCode(err) ==
  CASE err \in {"config", "db"} -> "provider"
    [] err = "unsupported" -> "unsupported"
    [] OTHER -> "other"

\* finalizeArticlePublication: what CreateDraft's return is to the finalizer
Outcome(k) ==
  CASE k.err = None -> [NoDelivery EXCEPT !.st = k.out]
    [] k.err = "nil" -> [NoDelivery EXCEPT !.st = "succeeded"]
    [] k.err = "pending" /\ k.att ->
         [st |-> "ambiguous", code |-> "other", n |-> 0, act |-> "check_wechat"]
    [] k.err \notin {None, "nil", "pending"} /\ k.att ->
         [st |-> "failed", code |-> FailureCode(k.err), n |-> 0,
          act |-> IF k.err \in {"rejected", "unsupported"} THEN "retry_draft" ELSE "check_wechat"]
    [] OTHER -> [st |-> "blocked", code |-> FailureCode(k.err), n |-> 0, act |-> "retry_draft"]

\* The end of finalizeCloudDraftDelivery: its result only where CreateDraft left none
Record(c) ==
  /\ call[c].pc = "record"
  /\ LET k == call[c] IN
       IF k.kind = "user" THEN UNCHANGED <<delivery, final>>
       ELSE /\ delivery' = [delivery EXCEPT ![k.e] = IF @.st = "" THEN Outcome(k) ELSE @]
            /\ final' = [final EXCEPT ![k.e] = TRUE]
  /\ call' = [call EXCEPT ![c] = Idle] /\ same' = [same EXCEPT ![c] = FALSE]
  /\ row' = [row EXCEPT !.tok = IF @ = c THEN Gone ELSE @]
  /\ UNCHANGED <<cur, content, box, rec, budget>>

-----------------------------------------------------------------------------
(* CreateDraft                                                               *)

\* The execution must be the task's, and a failed delivery one of the provider's
Load(c) ==
  /\ call[c].pc = "load"
  /\ LET k == call[c]  d == delivery[k.e] IN
       \/ cur # k.e /\ Return(c, "mismatch", FALSE, FALSE)
       \/ /\ cur = k.e /\ d.st = "failed" /\ ~(d.code = "provider" /\ d.n < 2)
          /\ Return(c, "conflict", FALSE, FALSE)
       \/ /\ cur = k.e /\ (d.st = "failed" => d.code = "provider" /\ d.n < 2)
          /\ call' = [call EXCEPT ![c].pc = "find", ![c].prev = d]
  /\ UNCHANGED <<row, delivery, final, cur, content, box, rec, same, budget>>

\* recordDraftPreflightFailure: from the status that was loaded, else a conflict
Preflight(c) ==
  LET k == call[c]  again == k.prev.st = "failed" IN
  delivery' = [delivery EXCEPT ![k.e] =
    IF @.st = (IF again THEN "failed" ELSE "")
    THEN [st |-> "failed", code |-> "provider", n |-> IF again THEN k.prev.n + 1 ELSE 1,
          act |-> "retry_draft"]
    ELSE @]

\* What CreateDraft does with a publication it found, r
Found(c, r) ==
  \/ /\ r.st = "drafting" /\ r.att /\ r.tok = None
     /\ Return(c, "pending", r.att, r.media)
  \/ /\ r.st = "unsupported" /\ r.code # "" /\ ~r.media
     /\ IF r.n >= 2 \/ (r.att /\ ~r.auth)
        THEN Return(c, "conflict", r.att, r.media)
        ELSE call' = [call EXCEPT ![c].pc = "claim", ![c].seen = r]
  \/ r.media /\ Return(c, "nil", r.att, r.media)
  \/ /\ ~r.media /\ ~(r.st = "drafting" /\ r.att /\ r.tok = None)
     /\ ~(r.st = "unsupported" /\ r.code # "")
     /\ IF r.tok # None /\ ~r.stale
        THEN Return(c, "pending", r.att, r.media)
        ELSE call' = [call EXCEPT ![c].pc = "gate", ![c].seen = r]

\* FindByTaskID.  Without a row the configuration is read first.  A row of an earlier
\* execution, which has ended, is taken over if the article is the same (RebindExecution).
Find(c) ==
  /\ call[c].pc = "find"
  /\ LET e == call[c].e IN
       \/ /\ row.st = "none" /\ Goto(c, "create")
          /\ Keep /\ UNCHANGED <<delivery, budget>>
       \/ /\ row.st = "none" /\ ReadFails
          /\ Preflight(c) /\ Return(c, "config", FALSE, FALSE) /\ Keep
       \/ /\ row.st # "none" /\ row.exec = e /\ Found(c, row)
          /\ same' = [same EXCEPT ![c] = TRUE] /\ UNCHANGED <<row, delivery, budget>>
       \/ /\ row.st # "none" /\ row.exec # e /\ content[row.exec] # content[e]
          /\ Return(c, "mismatch", row.att, row.media)
          /\ Keep /\ UNCHANGED <<delivery, budget>>
       \/ /\ row.st # "none" /\ row.exec # e /\ content[row.exec] = content[e]
          /\ Write(c, [row EXCEPT !.exec = e]) /\ Found(c, [row EXCEPT !.exec = e])
          /\ UNCHANGED <<delivery, budget>>
  /\ UNCHANGED <<final, cur, content, box, rec>>

\* The row is created with its claim; the task has one row at most
Create(c) ==
  /\ call[c].pc = "create"
  /\ IF row.st = "none"
     THEN LET r == [NoRow EXCEPT !.st = "drafting", !.tok = c, !.exec = call[c].e] IN
            /\ Write(c, r)
            /\ call' = [call EXCEPT ![c].pc = "gate", ![c].seen = r, ![c].fresh = TRUE]
     ELSE Return(c, "pending", row.att, row.media) /\ Keep
  /\ UNCHANGED <<delivery, final, cur, content, box, rec, budget>>

\* RetryUnsupportedDraft
Claim(c) ==
  /\ call[c].pc = "claim"
  /\ IF same[c] /\ RetryEligible
     THEN LET r == [row EXCEPT !.st = "drafting", !.code = "", !.due = FALSE, !.tok = c,
                               !.stale = FALSE] IN
            /\ Write(c, r)
            /\ call' = [call EXCEPT ![c].pc = "gate", ![c].seen = r, ![c].claimed = TRUE,
                                    ![c].out = row.code]
     ELSE ReturnConcurrent(c) /\ Keep
  /\ UNCHANGED <<delivery, final, cur, content, box, rec, budget>>

\* resolveReadOnlyDraftClaimFailure: RestoreUnsupportedDraftClaimed (DeleteDraftClaimed for
\* a row of its own), by the token that was loaded
Unclaim(c, fresh) ==
  LET k == call[c] IN
  IF row.st = "drafting" /\ row.tok = k.seen.tok /\ ~row.media
  THEN IF fresh THEN Write(c, NoRow)
       ELSE Write(c, [row EXCEPT !.st = "unsupported", !.due = FALSE, !.tok = None,
                        !.stale = FALSE, !.code = IF k.claimed THEN k.out ELSE ""])
  ELSE Keep

\* A delivery under way or ambiguous ends the call; then the configuration is read
Gate(c) ==
  /\ call[c].pc = "gate"
  /\ LET k == call[c]
         wait == \/ delivery[k.e].st = "in_flight"
                 \/ delivery[k.e].st = "ambiguous" /\ ~k.seen.att IN
       \/ wait /\ Return(c, "pending", k.seen.att, k.seen.media) /\ Keep /\ UNCHANGED <<delivery, budget>>
       \/ ~wait /\ Goto(c, "list") /\ Keep /\ UNCHANGED <<delivery, budget>>
       \/ /\ ~wait /\ ~k.fresh /\ ReadFails
          /\ Unclaim(c, FALSE) /\ Preflight(c) /\ Return(c, "config", k.seen.att, k.seen.media)
  /\ UNCHANGED <<final, cur, content, box, rec>>

\* recoverDraftByListing and what follows it
Recovered(r) == [r EXCEPT !.st = "drafted", !.media = TRUE, !.code = "", !.due = FALSE,
                          !.tok = None, !.stale = FALSE, !.auth = FALSE]

List(c) ==
  /\ call[c].pc = "list"
  /\ LET k == call[c] IN
       \/ /\ ExactMatch /\ same[c] /\ row.st = "drafting"
          /\ Write(c, Recovered(row)) /\ Return(c, "nil", row.att, TRUE) /\ UNCHANGED budget
       \/ /\ ExactMatch /\ ~(same[c] /\ row.st = "drafting")
          /\ ReturnConcurrent(c) /\ Keep /\ UNCHANGED budget
       \/ /\ ~ExactMatch /\ Keep /\ UNCHANGED budget
          /\ CASE k.fresh \/ k.claimed -> Goto(c, "mark")
               [] ~k.fresh /\ ~k.claimed /\ k.seen.st = "drafting" /\ ~k.seen.att ->
                    Goto(c, "reclaim")
               [] OTHER -> ReturnConcurrent(c)
       \/ /\ ReadFails /\ same[c] /\ row.st # "none"  \* 48001
          /\ Write(c, [row EXCEPT !.st = "unsupported", !.code = "48001", !.due = FALSE])
          /\ Return(c, "unsupported", k.seen.att, k.seen.media)
       \/ ReadFails /\ ~same[c] /\ ReturnConcurrent(c) /\ Keep
       \/ /\ ReadFails  \* any other error
          /\ IF k.fresh \/ k.claimed THEN Unclaim(c, k.fresh) ELSE Keep
          /\ Return(c, "config", k.seen.att, k.seen.media)
  /\ UNCHANGED <<delivery, final, cur, content, box, rec>>

\* ReclaimUnattemptedDraft
Reclaim(c) ==
  /\ call[c].pc = "reclaim"
  /\ IF same[c] /\ row.st = "drafting" /\ ~row.media /\ ~row.att /\ (row.tok = None \/ row.stale)
     THEN LET r == [row EXCEPT !.tok = c, !.stale = FALSE] IN
            /\ Write(c, r)
            /\ call' = [call EXCEPT ![c].pc = "mark", ![c].seen = r, ![c].claimed = TRUE]
     ELSE ReturnConcurrent(c) /\ Keep
  /\ UNCHANGED <<delivery, final, cur, content, box, rec, budget>>

\* beginDraftDelivery: the attempt that the delivery allows, or 0 and why not
Attempt(d) ==
  CASE d.st = "" -> 1
    [] d.st = "failed" /\ d.code \in {"provider", "unsupported"} /\ d.n < 2 -> 2
    [] OTHER -> 0
NotBegun(d) == IF d.st \in {"succeeded", "in_flight", "ambiguous"} THEN "pending" ELSE "conflict"

\* Mutants: the mark asks neither for the claim nor for an earlier attempt; the row gets no
\* evidence; the row gets no time to be checked at.
MayAttemptAnyhow(c) == row.st = "drafting" /\ ~row.media /\ row.n < 2
MarkedWithout(r) == [r EXCEPT !.n = @ + 1, !.auth = FALSE, !.due = TRUE, !.old = FALSE]
MarkedUnchecked(r) == [r EXCEPT !.att = TRUE, !.n = @ + 1, !.auth = FALSE, !.old = FALSE]

\* MarkDraftAddAttempted
MayAttempt(c) ==
  row.st = "drafting" /\ row.tok = c /\ ~row.media /\ row.n < 2 /\ (row.att => row.auth)

\* The row with the evidence of the attempt and the time of its first check
Marked(r) == [r EXCEPT !.att = TRUE, !.n = @ + 1, !.auth = FALSE, !.due = TRUE, !.old = FALSE]

\* One transaction: the delivery in flight and the evidence on the row, before the call
Mark(c) ==
  /\ call[c].pc = "mark"
  /\ LET k == call[c]  d == delivery[k.e] IN
       IF Attempt(d) # 0 /\ MayAttempt(c)
       THEN /\ delivery' = [delivery EXCEPT ![k.e] =
                 [st |-> "in_flight", code |-> "", n |-> Attempt(d), act |-> ""]]
            /\ Write(c, Marked(row))
            /\ call' = [call EXCEPT ![c].pc = "add", ![c].n = Attempt(d)]
       ELSE /\ Return(c, IF Attempt(d) = 0 THEN NotBegun(d) ELSE "conflict", k.seen.att, k.seen.media)
            /\ Keep /\ UNCHANGED delivery
  /\ UNCHANGED <<final, cur, content, box, rec, budget>>

\* draft/add: accepted and answered, accepted and not (or without a media id), not accepted
\* and no answer, or a definitive refusal
AddDraft(c) ==
  /\ call[c].pc = "add"
  /\ \E out \in {"media", "lost", "unknown", "48001", "other"} :
       /\ call' = [call EXCEPT ![c].pc = "save", ![c].out = out]
       /\ box' = [box EXCEPT ![call[c].e] = IF out \in {"media", "lost"} THEN @ + 1 ELSE @]
  /\ UNCHANGED <<row, delivery, final, cur, content, rec, same, budget>>

\* The row after the answer: a definitive refusal authorizes one retry, silence none
Answered(out) ==
  LET r == [row EXCEPT !.tok = None, !.stale = FALSE, !.auth = FALSE] IN
  CASE out = "media" -> [r EXCEPT !.st = "drafted", !.media = TRUE, !.due = FALSE, !.old = FALSE]
    [] out \in {"48001", "other"} ->
         [r EXCEPT !.st = "unsupported", !.code = out, !.due = FALSE, !.auth = row.n < 2]
    [] OTHER -> [r EXCEPT !.due = ~row.old]

\* UpdateDraftClaimed: by the claim, while the row is still drafting
Save(c) ==
  /\ call[c].pc = "save"
  /\ LET k == call[c] IN
       \/ /\ row.st = "drafting" /\ row.tok = c
          /\ Write(c, Answered(k.out)) /\ UNCHANGED budget
          /\ Return(c, CASE k.out = "media" -> "nil"
                         [] k.out \in {"lost", "unknown"} -> "pending"
                         [] OTHER -> Refused(k.out), TRUE, k.out = "media")
       \/ /\ ~(row.st = "drafting" /\ row.tok = c)
          /\ ReturnConcurrent(c) /\ Keep /\ UNCHANGED budget
       \/ Fault /\ Keep /\ Return(c, "db", k.out # "media", FALSE)
  /\ UNCHANGED <<delivery, final, cur, content, box, rec>>

\* Mutant: the result is written without looking at the delivery.
FinishAlways(c) ==
  /\ call[c].pc = "finish"
  /\ delivery' = [delivery EXCEPT ![call[c].e].st = IF call[c].err = "nil" THEN "succeeded" ELSE "failed"]
  /\ Goto(c, "record")
  /\ UNCHANGED <<row, final, cur, content, box, rec, same, budget>>

\* finishDraftDelivery: out of in_flight only
Finish(c) ==
  /\ call[c].pc = "finish"
  /\ LET k == call[c]
         d == [n |-> k.n,
               st |-> CASE k.err = "nil" -> "succeeded"
                        [] k.err = "pending" -> IF k.att THEN "ambiguous" ELSE "blocked"
                        [] OTHER -> "failed",
               code |-> IF k.err = "nil" THEN "" ELSE FailureCode(k.err),
               act |-> CASE k.err = "nil" -> ""
                         [] k.err # "nil" /\ (k.err \in {"rejected", "unsupported"} \/ ~k.att) ->
                              "retry_draft"
                         [] OTHER -> "check_wechat"] IN
       delivery' = [delivery EXCEPT ![k.e] = IF @.st = "in_flight" THEN d ELSE @]
  /\ Goto(c, "record")
  /\ UNCHANGED <<row, final, cur, content, box, rec, same, budget>>

-----------------------------------------------------------------------------
(* The reconciler                                                            *)

\* FindPendingByProject; a drafted row is among them when it is for direct publishing.
Pending(r) == r.st = "drafting" \/ (TakenFor(r) /\ r.st # "published")

RecGoes(pc, att) == rec' = [rec EXCEPT !.pc = pc, !.att = att]

\* It loads the project's pending publications: RecoverDue enqueues it for a row whose
\* check is due; a user, or another publication of the project, may start it any time.
LoadPending ==
  /\ rec.pc = "idle" /\ Pending(row)
  /\ RecGoes(IF row.st = "drafting" THEN "list" ELSE "publishes", row.att)
  /\ same' = [same EXCEPT !["reconciler"] = TRUE]
  /\ UNCHANGED <<row, delivery, final, cur, content, box, call, budget>>

RecoverDue == row.due /\ row.st # "drafted" /\ LoadPending
ReconcileProject == LoadPending

\* UpdateReconciliation, TransitionDraftRecovered: on the version that was loaded
CAS(r) == IF same["reconciler"] THEN Write("reconciler", r) ELSE Keep

\* nextWechatManualCheck: another check, or none after 72 hours
CheckAgain(r) ==
  IF row.old THEN [r EXCEPT !.st = "publish_failed", !.due = FALSE] ELSE [r EXCEPT !.due = TRUE]

\* reconcileProject lists the drafts.  What it goes on with, and brings the deliveries of up
\* to date, it loads again after the list: a row that timed out is not among it.
ListDrafts ==
  /\ rec.pc = "list"
  /\ \/ /\ ExactMatch /\ UNCHANGED budget
        /\ CAS([Recovered(row) EXCEPT !.due = ~row.old]) /\ RecGoes("sync", FALSE)
     \/ /\ ~ExactMatch /\ UNCHANGED budget
        /\ row' = IF same["reconciler"] THEN CheckAgain([row EXCEPT !.code = ""]) ELSE row
        /\ same' = [q \in Procs |->
                      (q = "reconciler" /\ Pending(row')) \/ (same[q] /\ ~same["reconciler"])]
        /\ IF Pending(row') THEN RecGoes("publishes", row'.att) ELSE RecGoes("idle", FALSE)
     \/ /\ ReadFails  \* 48001: what was attempted stays drafting
        /\ CAS(IF rec.att THEN CheckAgain([row EXCEPT !.code = "48001"])
               ELSE [row EXCEPT !.st = "unsupported", !.code = "48001", !.due = FALSE])
        /\ RecGoes("sync", FALSE)
     \/ ReadFails /\ CAS(CheckAgain(row)) /\ RecGoes("sync", FALSE)
  /\ UNCHANGED <<delivery, final, cur, content, box, call>>

\* Then it lists the published articles.  matchPublished asks for one younger than the row
\* and bound to no other: with the same fingerprint, or title, digest and cover, it is this
\* row's (bindPublished); with some of that, or when there are several, a user must select.
TakeArticle(r) ==
  /\ Spend("articles") /\ CAS(r)
  /\ rec' = [rec EXCEPT !.pc = "sync", !.att = FALSE, !.taken = @ \/ same["reconciler"]]

ListPublishes ==
  /\ rec.pc = "publishes"
  /\ \/ /\ ReadFails /\ RecGoes("sync", FALSE)  \* a definitive refusal
        /\ CAS(IF rec.att THEN CheckAgain([row EXCEPT !.code = "other", !.st = "drafting"])
               ELSE [row EXCEPT !.st = "unsupported", !.code = "other", !.due = FALSE])
     \/ ReadFails /\ CAS(CheckAgain(row)) /\ RecGoes("sync", FALSE)
     \/ /\ CAS([row EXCEPT !.due = ~row.old, !.st = IF @ = "needs_selection" THEN "drafted" ELSE @])
        /\ RecGoes("sync", FALSE) /\ UNCHANGED budget
     \/ TakeArticle([row EXCEPT !.st = "published", !.due = FALSE])
     \/ TakeArticle([row EXCEPT !.st = "needs_selection", !.due = ~row.old])
  /\ UNCHANGED <<delivery, final, cur, content, box, call>>

\* reconciledDraftDeliveryResult; NoDelivery: not terminal
Terminal ==
  CASE row.media -> [NoDelivery EXCEPT !.st = "succeeded"]
    [] ~row.media /\ row.st = "unsupported" /\ RetryEligible ->
         [st |-> "failed", code |-> IF row.code = "48001" THEN "unsupported" ELSE "other", n |-> 0,
          act |-> "retry_draft"]
    [] ~row.media /\ (row.st = "publish_failed" \/ (row.st = "unsupported" /\ ~RetryEligible)) ->
         [st |-> "failed", code |-> "other", n |-> 0, act |-> "check_wechat"]
    [] OTHER -> NoDelivery

\* syncReconciledDraftDelivery: the row as it is now, the current execution only
SyncDelivery ==
  /\ rec.pc = "sync" /\ RecGoes("idle", FALSE)
  /\ delivery' = [delivery EXCEPT ![row.exec] =
       IF /\ row.st # "none" /\ row.exec = cur /\ Terminal # NoDelivery /\ @.st # Terminal.st
          /\ @.st \in {"ambiguous", "in_flight", "failed"}
       THEN Terminal ELSE @]
  /\ UNCHANGED <<row, final, cur, content, box, call, same, budget>>

-----------------------------------------------------------------------------
(* Time and crashes                                                          *)

\* wechatPublicationClaimLease; the holder may be alive
LeaseExpires ==
  /\ row.tok # None /\ ~row.stale
  /\ row' = [row EXCEPT !.stale = TRUE]
  /\ UNCHANGED <<delivery, final, cur, content, box, call, rec, same, budget>>

\* 72 hours since draft_created_at; no call takes that long
Old ==
  /\ Pending(row) /\ ~row.old /\ rec.pc = "idle" /\ \A c \in Callers : call[c].pc = "idle"
  /\ row' = [row EXCEPT !.old = TRUE]
  /\ UNCHANGED <<delivery, final, cur, content, box, call, rec, same, budget>>

Crash(c) ==
  /\ call[c].pc # "idle" /\ Fault
  /\ call' = [call EXCEPT ![c] = Idle] /\ same' = [same EXCEPT ![c] = FALSE]
  /\ row' = [row EXCEPT !.tok = IF @ = c THEN Gone ELSE @]
  /\ UNCHANGED <<delivery, final, cur, content, box, rec>>

CrashReconciler ==
  /\ rec.pc # "idle" /\ Fault /\ RecGoes("idle", FALSE)
  /\ UNCHANGED <<row, delivery, final, cur, content, box, call, same>>

Step(c) ==
  \/ Resolve(c) \/ Load(c) \/ Find(c) \/ Create(c) \/ Claim(c) \/ Gate(c) \/ List(c)
  \/ Reclaim(c) \/ Mark(c) \/ AddDraft(c) \/ Save(c) \/ Finish(c) \/ Record(c)

Reconciling == ListDrafts \/ ListPublishes \/ SyncDelivery

Next ==
  \/ \E c \in Callers : Finalize(c) \/ Recover(c) \/ UserDraft(c) \/ Step(c) \/ Crash(c)
  \/ NewExecution \/ ReconcileProject \/ Reconciling \/ LeaseExpires \/ Old \/ CrashReconciler

Spec == Init /\ [][Next]_vars

\* Calls that have begun go on, and the recovery loop enqueues every due row.
FairSpec ==
  Spec /\ (\A c \in Callers : WF_vars(Step(c))) /\ WF_vars(RecoverDue) /\ WF_vars(Reconciling)

-----------------------------------------------------------------------------
(* Properties                                                                *)

\* WeChat never gets the article twice: whatever is lost, retried, taken over or run again
\* in another execution, at most one draft/add of the task is accepted
\* (MarkDraftAddAttempted, RetryUnsupportedDraft).
OneDraft ==
  \A e, f \in Execs : box[e] <= 1 /\ (e # f /\ content[e] = content[f] => box[e] + box[f] <= 1)

\* A call to WeChat in progress, and a draft it accepted, are on record: the row says that
\* draft/add was attempted (the evidence is written before the call).
EvidenceFirst ==
  /\ \A c \in Callers : call[c].pc \in {"add", "save"} => row.att /\ row.n > 0
  /\ (\E e \in Execs : box[e] > 0) => row.att

\* A delivery is reported as succeeded only when the task's row knows the draft, or after a
\* published article was taken for the row's, whether or not there is a draft.
SucceededHasDraft == \A e \in Execs : delivery[e].st = "succeeded" => row.media \/ rec.taken

\* The database never claims less than WeChat has done, and more only after a published
\* article was mistaken for the row's: an attempt is on record before it is made, and a
\* success only once the draft is known or such an article was.
RecordMatchesWechat == TypeOK /\ EvidenceFirst /\ SucceededHasDraft

\* A draft that is known stays known, and a succeeded delivery succeeded: no late answer,
\* listing or recovery takes it back.
DraftIsKept ==
  [][ (row.media => row'.media) /\
      \A e \in Execs : delivery[e].st = "succeeded" => delivery'[e].st = "succeeded" ]_vars

\* A draft that WeChat accepted is found, whatever became of the answer and whoever died;
\* otherwise the search ends, after the third day, because a read of WeChat's failed
\* (recoverDraftByListing, resolveReadOnlyDraftClaimFailure), or with a published article
\* that was taken for it (matchPublished): a row does not stay drafting for ever.
AcceptedIsFound ==
  (\E e \in Execs : box[e] > 0) ~>
    (row.media \/ TakenFor(row) \/ row.st \in {"publish_failed", "unsupported"})
=============================================================================
