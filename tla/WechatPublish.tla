--------------------------- MODULE WechatPublish ---------------------------
(***************************************************************************)
(* The formal publication of a WeChat draft.  Publish looks for the article *)
(* among those already published, then for the draft, claims the row and    *)
(* submits it; the submission is accepted, refused or in doubt.  A poller   *)
(* asks what became of an accepted one, a reconciler looks for the article  *)
(* of one in doubt, both for 72 hours at most.  Meanwhile the user may      *)
(* publish from WeChat's console, keep the draft, skip it, select one of    *)
(* several candidates or report the publication by hand.                    *)
(*                                                                          *)
(* The draft exists when a behavior starts: how it came about is module     *)
(* WechatDraft's subject, and so are the two encodings used here as well:   *)
(* updated_at is one flag per process (same), and the claim token is the    *)
(* name of the call that holds it, Gone once that call has ended.           *)
(***************************************************************************)
EXTENDS Integers, FiniteSets

CONSTANTS
  Callers,     \* concurrent calls by users and finalizers
  MaxPolls,    \* polls of one submission (17 in the code)
  Budgets      \* bounds on what happens: the callers there are, their calls, errors of
               \* WeChat's read calls, refusals of an interface (48001) in any call, crashes
               \* and failed updates, what others do in WeChat's console and in the project,
               \* and articles that another task's publication binds

ASSUME PublishAssumption ==
  /\ {"reconciler", "poller", "none", "gone"} \cap Callers = {}
  /\ MaxPolls \in Nat \ {0}
  /\ Budgets \subseteq [callers : SUBSET Callers, calls : Nat, errors : Nat, denials : Nat,
                        faults : Nat, events : Nat, rivals : Nat]

VARIABLES
  row,       \* the publication
  owner,     \* article -> the publication it is bound to: none, this one or another
  denied,    \* interfaces the project's account was refused, as cached
  old,       \* 72 hours have passed since the submission (since the draft without one)
  reuse,     \* the task belongs to a reuse run that publishes automatically
  draft,     \* the draft is in WeChat's box
  live,      \* published articles that WeChat lists
  wx,        \* what became of the submission that WeChat accepted
  accepted,  \* number of submissions that WeChat accepted
  proc,      \* process -> its local state
  same,      \* process -> updated_at is still the one it loaded
  calls, errors, denials, faults, events,
  budget     \* the budget of this behaviour

wechat == <<draft, live, wx, accepted>>
bounds == <<calls, errors, denials, faults, events, budget>>
vars == <<row, owner, denied, old, reuse, wechat, proc, same, bounds>>

None == "none"
Gone == "gone"
Procs == Callers \cup {"reconciler", "poller"}

\* The article of the submission, the one published from the console, one that is similar.
Articles == {"api", "console", "similar"}

Row0(m) == [st |-> "drafted", mode |-> m, tok |-> None, sub |-> FALSE, pid |-> FALSE, code |-> "",
            manual |-> FALSE, due |-> FALSE, art |-> None, polls |-> 0, cand |-> {}]
Idle == [pc |-> "idle", auto |-> FALSE, st |-> "", out |-> None, art |-> None, copy |-> Row0("draft")]

\* hasWechatSubmissionEvidence
Evidence(r) == r.sub \/ r.pid

\* The columns of the publication, and a call's local state: what it goes to do next (pc),
\* whether it publishes automatically, the status it has seen, what WeChat answered, the
\* article it binds and the row it has read
Publication ==
  [st : {"drafted", "publish_submitting", "publishing", "needs_selection", "published",
         "publish_failed", "unsupported", "awaiting_manual", "skipped"},
   mode : {"draft", "direct"}, tok : Procs \cup {None, Gone}, sub : BOOLEAN, pid : BOOLEAN,
   code : {"", "48001", "other"}, manual : BOOLEAN, due : BOOLEAN, art : Articles \cup {None},
   polls : 0..MaxPolls, cand : SUBSET Articles]
CallState ==
  [pc : {"idle", "load", "deny", "list", "drafts", "claim", "submit", "save", "bind", "manual",
         "write", "defer", "poll", "match"},
   auto : BOOLEAN,
   st : {"", "drafted", "publish_submitting", "publishing", "needs_selection", "publish_failed"},
   out : {None, "accepted", "lost", "unknown", "48001", "other"},
   art : Articles \cup {None}, copy : Publication]

TypeOK ==
  /\ row \in Publication /\ owner \in [Articles -> {None, "this", "another"}]
  /\ denied \subseteq {"submit", "query"}
  /\ old \in BOOLEAN /\ reuse \in BOOLEAN /\ draft \in BOOLEAN /\ live \subseteq Articles
  /\ wx \in {None, "auditing", "success", "rejected"} /\ accepted \in 0..2
  /\ proc \in [Procs -> CallState] /\ same \in [Procs -> BOOLEAN]
  /\ budget \in Budgets
  /\ calls \in 0..budget.calls /\ errors \in 0..budget.errors /\ denials \in 0..budget.denials
  /\ faults \in 0..budget.faults /\ events \in 0..budget.events

Init ==
  /\ \E m \in {"draft", "direct"} : row = Row0(m)
  /\ owner = [a \in Articles |-> None] /\ denied = {} /\ old = FALSE /\ reuse \in BOOLEAN
  /\ draft = TRUE /\ live = {} /\ wx = None /\ accepted = 0
  /\ proc = [p \in Procs |-> Idle] /\ same = [p \in Procs |-> FALSE]
  /\ budget \in Budgets /\ calls = 0 /\ errors = 0 /\ denials = 0 /\ faults = 0 /\ events = 0

ReadFails == errors < budget.errors /\ errors' = errors + 1 /\ UNCHANGED denials
Denied48001 == denials < budget.denials /\ denials' = denials + 1 /\ UNCHANGED errors
Fault == faults < budget.faults /\ faults' = faults + 1
NoError == UNCHANGED <<errors, denials>>

\* A write of the row changes updated_at: every copy is out of date (no call compares it
\* again after a write of its own).
Write(r) == row' = r /\ same' = [q \in Procs |-> FALSE]
Keep     == UNCHANGED <<row, same>>
Leave(p) == UNCHANGED row /\ same' = [same EXCEPT ![p] = FALSE]
\* UpdateReconciliation and the transitions that expect the version that was loaded
CAS(p, r) == IF same[p] THEN Write(r) ELSE Leave(p)

Goto(p, pc) == proc' = [proc EXCEPT ![p].pc = pc]

\* The end of a call; autoPublishDraft defers what Publish reported as an error.
End(p, ok) ==
  proc' = [proc EXCEPT ![p] = IF @.auto /\ ~ok THEN [Idle EXCEPT !.pc = "defer", !.auto = TRUE] ELSE Idle]

\* What a call that ends leaves in claim_token is nobody's
Release(p, r) == [r EXCEPT !.tok = IF @ = p THEN Gone ELSE @]

\* applyWechatManualPublishFallback
ManualFallback(r) == [r EXCEPT !.st = "awaiting_manual", !.manual = TRUE, !.code = "48001", !.due = FALSE]
UnsupportedRow(r, c) == [r EXCEPT !.st = "unsupported", !.code = c, !.due = FALSE]

\* reloadWechatPublicationAfterCASLoss: no error only if the publication got published
Settled == row.st = "published"

\* matchPublished, over the articles that no other publication owns
Matches    == {a \in live \ {"similar"} : owner[a] # "another"}
Candidates == IF Cardinality(Matches) = 1 THEN {} ELSE {a \in live : owner[a] # "another"}

-----------------------------------------------------------------------------
(* Calls                                                                     *)

Call(c) ==
  /\ c \in budget.callers /\ proc[c].pc = "idle" /\ calls < budget.calls /\ calls' = calls + 1
  /\ UNCHANGED <<owner, denied, old, reuse, wechat, errors, denials, faults, events, budget>>

UserPublish(c) == Call(c) /\ Goto(c, "load") /\ Keep

\* CreateDraft ends with autoPublishDraft
AutoPublish(c) ==
  /\ row.st = "drafted" /\ row.mode = "direct" /\ reuse
  /\ Call(c) /\ proc' = [proc EXCEPT ![c] = [Idle EXCEPT !.pc = "load", !.auto = TRUE]] /\ Keep

\* Mutant: what was submitted and refused by a query is submitted again.
RetryTargetDrafted == "drafted"

\* RetryPublish: what was accepted or is in doubt is observed, not submitted again
RetryTarget ==
  CASE row.pid -> "publishing"
    [] ~row.pid /\ row.sub -> "publish_submitting"
    [] OTHER -> "drafted"

RetryPublish(c) ==
  /\ Call(c) /\ row.st = "unsupported" /\ row.code # ""
  /\ Write([row EXCEPT !.st = RetryTarget, !.code = "", !.due = TRUE, !.polls = 0, !.tok = None])
  /\ IF RetryTarget = "drafted" THEN Goto(c, "load") ELSE UNCHANGED proc

KeepDraft(c) ==
  /\ Call(c) /\ row.st = "drafted" /\ row.mode # "draft" /\ ~Evidence(row) /\ row.tok = None
  /\ Write([row EXCEPT !.mode = "draft", !.due = FALSE]) /\ UNCHANGED proc

Skip(c) ==
  /\ Call(c) /\ row.st \in {"drafted", "awaiting_manual"} /\ ~Evidence(row)
  /\ Write([row EXCEPT !.st = "skipped", !.due = FALSE, !.cand = {}]) /\ UNCHANGED proc

RestoreSkipped(c) ==
  /\ Call(c) /\ row.st = "skipped"
  /\ Write([row EXCEPT !.st = IF row.manual THEN "awaiting_manual" ELSE "drafted"])
  /\ UNCHANGED proc

\* A candidate that is still published and that no other publication owns
Select(c) ==
  /\ Call(c) /\ row.st = "needs_selection"
  /\ \E a \in row.cand \cap live :
       /\ owner[a] # "another"
       /\ proc' = [proc EXCEPT ![c] = [Idle EXCEPT !.pc = "bind", !.art = a]]
  /\ same' = [same EXCEPT ![c] = TRUE] /\ UNCHANGED row

\* BindManualPublication: the row is read, compared in a transaction, and saved whole
BindManual(c) ==
  /\ Call(c) /\ row.st \in {"awaiting_manual", "drafted"}
  /\ proc' = [proc EXCEPT ![c] = [Idle EXCEPT !.pc = "manual", !.copy = row]]
  /\ same' = [same EXCEPT ![c] = TRUE] /\ UNCHANGED row

CheckManual(c) ==
  /\ proc[c].pc = "manual"
  /\ IF same[c] THEN Goto(c, "write") ELSE End(c, TRUE)
  /\ Leave(c) /\ UNCHANGED <<owner, denied, old, reuse, wechat, bounds>>

SaveManual(c) ==
  /\ proc[c].pc = "write" /\ End(c, TRUE)
  /\ Write([proc[c].copy EXCEPT !.st = "published", !.manual = FALSE, !.code = "", !.due = FALSE])
  /\ UNCHANGED <<owner, denied, old, reuse, wechat, bounds>>

-----------------------------------------------------------------------------
(* Publish                                                                   *)

Load(p) ==
  /\ proc[p].pc = "load"
  /\ LET final == row.st \in {"published", "unsupported", "awaiting_manual", "skipped"} IN
       \/ final /\ End(p, TRUE) /\ NoError /\ UNCHANGED same
       \/ /\ ~final /\ denied # {} /\ NoError
          /\ proc' = [proc EXCEPT ![p].pc = "deny", ![p].copy = row] /\ UNCHANGED same
       \/ /\ ~final /\ denied = {} /\ NoError
          /\ proc' = [proc EXCEPT ![p].pc = "list", ![p].st = row.st]
          /\ same' = [same EXCEPT ![p] = TRUE]
       \/ ~final /\ ReadFails /\ End(p, FALSE) /\ UNCHANGED same  \* no connector, no scope
  /\ UNCHANGED <<row, owner, denied, old, reuse, wechat, calls, faults, events, budget>>

\* The cached refusal: the copy is saved whole, whatever became of the row
Deny(p) ==
  /\ proc[p].pc = "deny"
  /\ \/ Write(ManualFallback(proc[p].copy)) /\ End(p, TRUE) /\ UNCHANGED faults
     \/ Fault /\ Keep /\ End(p, FALSE)
  /\ UNCHANGED <<owner, denied, old, reuse, wechat, calls, errors, denials, events, budget>>

\* listAllWechatPublishes; with one match the binding is another step
ListPublishes(p) ==
  /\ proc[p].pc = "list" /\ denied' = denied \ {"query"}
  /\ \/ /\ Cardinality(Matches) = 1 /\ Keep
        /\ \E a \in Matches : proc' = [proc EXCEPT ![p].pc = "bind", ![p].art = a]
     \/ /\ Candidates # {} /\ End(p, FALSE)
        /\ CAS(p, [row EXCEPT !.st = "needs_selection", !.cand = Candidates, !.due = ~old])
     \/ Cardinality(Matches) = 0 /\ Candidates = {} /\ Goto(p, "drafts") /\ Keep
  /\ UNCHANGED <<owner, old, reuse, wechat, bounds>>

\* handleFormalPublishProviderError, of either list
ListFails(p) ==
  /\ proc[p].pc \in {"list", "drafts"}
  /\ \/ /\ Denied48001 /\ denied' = denied \cup {"query"}
        /\ CAS(p, ManualFallback(row)) /\ End(p, same[p] \/ Settled)
     \/ /\ ReadFails /\ UNCHANGED denied
        /\ CAS(p, UnsupportedRow(row, "other")) /\ End(p, same[p] \/ Settled)
     \/ ReadFails /\ denied' = denied \ {"query"} /\ Leave(p) /\ End(p, FALSE)
  /\ UNCHANGED <<owner, old, reuse, wechat, calls, faults, events, budget>>

\* listAllWechatDrafts: the draft must be there, and only a drafted row is submitted.  A
\* drafted row with evidence of a submission would be observed instead; there is none
\* (ResubmitIsSafe).
ListDrafts(p) ==
  /\ proc[p].pc = "drafts"
  /\ \/ /\ ~draft /\ End(p, IF same[p] THEN old ELSE Settled)
        /\ CAS(p, IF old THEN [row EXCEPT !.st = "publish_failed", !.due = FALSE]
                  ELSE [row EXCEPT !.st = "publish_submitting", !.due = TRUE])
     \/ draft /\ proc[p].st # "drafted" /\ End(p, FALSE) /\ Leave(p)
     \/ draft /\ proc[p].st = "drafted" /\ Goto(p, "claim") /\ Leave(p)
  /\ UNCHANGED <<owner, denied, old, reuse, wechat, bounds>>

\* Mutants: the claim does not ask for the status; the row gets no time to be checked at.
MayClaimAnyhow == row.tok = None
ClaimedUnchecked(p) == [row EXCEPT !.st = "publish_submitting", !.mode = "direct", !.tok = p,
                                   !.sub = TRUE, !.due = FALSE, !.polls = 0, !.code = ""]

\* ClaimPublish: of the status, not of the version; an expired claim cannot be in its way,
\* for a drafted row has none
MayClaim == row.st = "drafted" /\ row.tok = None
Claimed(p) == [row EXCEPT !.st = "publish_submitting", !.mode = "direct", !.tok = p, !.sub = TRUE,
                          !.due = TRUE, !.polls = 0, !.code = ""]

ClaimPublish(p) ==
  /\ proc[p].pc = "claim"
  /\ \/ MayClaim /\ Write(Claimed(p)) /\ old' = FALSE /\ Goto(p, "submit") /\ UNCHANGED faults
     \/ ~MayClaim /\ Keep /\ End(p, Settled) /\ UNCHANGED <<old, faults>>
     \/ /\ MayClaim /\ Fault /\ End(p, FALSE) /\ old' = FALSE  \* CreateAttempt failed
        /\ Write(Release(p, Claimed(p)))
  /\ UNCHANGED <<owner, denied, reuse, wechat, calls, errors, denials, events, budget>>

\* SubmitFreePublish: accepted with an id; accepted, but the answer or the id is missing;
\* no answer; a definitive refusal
SubmitFreePublish(p) ==
  /\ proc[p].pc = "submit"
  /\ \E out \in {"accepted", "lost", "unknown", "48001", "other"} :
       /\ (out \in {"accepted", "lost"} => draft) /\ (out = "other" => errors < budget.errors)
       /\ IF out = "48001" THEN Denied48001
          ELSE errors' = errors + (IF out = "other" THEN 1 ELSE 0) /\ UNCHANGED denials
       /\ proc' = [proc EXCEPT ![p].pc = "save", ![p].out = out]
       /\ IF out \in {"accepted", "lost"} THEN accepted' = accepted + 1 /\ wx' = "auditing"
          ELSE UNCHANGED <<accepted, wx>>
       /\ denied' = CASE out = "48001" -> denied \cup {"submit"}
                      [] out \in {"accepted", "lost", "unknown"} -> denied \ {"submit"}
                      [] OTHER -> denied
  /\ UNCHANGED <<row, owner, old, reuse, draft, live, same, calls, faults, events, budget>>

\* The row after the answer: only a definitive refusal takes the evidence back
Answered(out) ==
  LET r == [row EXCEPT !.tok = None] IN
  CASE out = "accepted" -> [r EXCEPT !.st = "publishing", !.pid = TRUE, !.due = TRUE]
    [] out = "48001" -> [ManualFallback(r) EXCEPT !.sub = FALSE]
    [] out = "other" -> [UnsupportedRow(r, "other") EXCEPT !.sub = FALSE]
    [] OTHER -> [r EXCEPT !.due = TRUE]

\* UpdateClaimed
SaveSubmit(p) ==
  /\ proc[p].pc = "save"
  /\ LET held == row.tok = p /\ row.st = "publish_submitting" IN
       \/ /\ held /\ Write(Answered(proc[p].out)) /\ UNCHANGED faults
          /\ End(p, proc[p].out \in {"accepted", "48001", "other"})
       \/ ~held /\ row' = Release(p, row) /\ End(p, FALSE) /\ UNCHANGED <<same, faults>>
       \/ Fault /\ row' = Release(p, row) /\ End(p, FALSE) /\ UNCHANGED same
  /\ UNCHANGED <<owner, denied, old, reuse, wechat, calls, errors, denials, events, budget>>

\* ClaimArticleBinding: free, or this publication's already
MayBind(a) == owner[a] # "another"

\* bindPublished: the binding and the transition, one transaction on the version loaded
Bind(p) ==
  /\ proc[p].pc = "bind"
  /\ LET a == proc[p].art IN
       IF MayBind(a) /\ same[p]
       THEN /\ owner' = [owner EXCEPT ![a] = IF @ = None THEN "this" ELSE @] /\ End(p, TRUE)
            /\ Write([row EXCEPT !.st = "published", !.art = a, !.due = FALSE, !.cand = {}])
       ELSE Leave(p) /\ End(p, MayBind(a) /\ Settled) /\ UNCHANGED owner
  /\ UNCHANGED <<denied, old, reuse, wechat, bounds>>

\* deferAutomaticPublish: the row as it is now
Defer(p) ==
  /\ proc[p].pc = "defer" /\ proc' = [proc EXCEPT ![p] = Idle]
  /\ IF row.st = "drafted" /\ ~Evidence(row)
     THEN Write([row EXCEPT !.mode = "direct", !.due = TRUE]) ELSE Keep
  /\ UNCHANGED <<owner, denied, old, reuse, wechat, bounds>>

-----------------------------------------------------------------------------
(* The poller                                                                *)

LoadPublishing ==
  /\ proc["poller"].pc = "idle" /\ row.st = "publishing" /\ row.pid
  /\ Goto("poller", "poll") /\ same' = [same EXCEPT !["poller"] = TRUE]
  /\ UNCHANGED <<row, owner, denied, old, reuse, wechat, bounds>>

\* scheduleNextPollOrReconcile
NextPoll ==
  LET r == [row EXCEPT !.polls = @ + 1] IN
  IF row.polls + 1 < MaxPolls THEN [r EXCEPT !.due = TRUE]
  ELSE [r EXCEPT !.st = "publish_submitting", !.due = ~old]

\* GetFreePublish, then the list of articles where it says the submission succeeded
Poll ==
  /\ proc["poller"].pc = "poll"
  /\ \/ /\ wx = "success" /\ "api" \in live /\ NoError /\ Keep
        /\ proc' = [proc EXCEPT !["poller"].pc = "bind", !["poller"].art = "api"]
     \/ /\ wx \in {"auditing", "success"} /\ "api" \notin live /\ NoError
        /\ CAS("poller", NextPoll) /\ End("poller", TRUE)
     \/ /\ wx = "rejected" /\ NoError /\ End("poller", TRUE)
        /\ CAS("poller", [row EXCEPT !.st = "publish_failed", !.due = FALSE])
     \/ ReadFails /\ CAS("poller", NextPoll) /\ End("poller", TRUE)
     \/ Denied48001 /\ CAS("poller", ManualFallback(row)) /\ End("poller", TRUE)
  /\ UNCHANGED <<owner, denied, old, reuse, wechat, calls, faults, events, budget>>

-----------------------------------------------------------------------------
(* The reconciler                                                            *)

\* FindPendingByProject
Pending ==
  \/ row.st \in {"publish_submitting", "needs_selection"}
  \/ row.st = "drafted" /\ (row.mode = "direct" \/ Evidence(row))

\* A draft that the cached refusal keeps from being published is handed to the user
LoadPending ==
  /\ proc["reconciler"].pc = "idle" /\ Pending
  /\ IF row.st = "drafted" /\ ~Evidence(row) /\ denied # {}
     THEN Write(ManualFallback(row)) /\ UNCHANGED proc
     ELSE /\ Goto("reconciler", "match") /\ UNCHANGED row
          /\ same' = [same EXCEPT !["reconciler"] = TRUE]
  /\ UNCHANGED <<owner, denied, old, reuse, wechat, bounds>>

\* What a list without a single match makes of the row
Reconciled ==
  LET st == CASE Candidates # {} -> "needs_selection"
              [] Candidates = {} /\ row.st = "needs_selection" ->
                   IF Evidence(row) THEN "publish_submitting" ELSE "drafted"
              [] OTHER -> row.st
  IN [row EXCEPT !.due = ~old, !.cand = Candidates,
                 !.st = IF old /\ st = "publish_submitting" THEN "publish_failed" ELSE st]

\* autoPublishDraft, when the row is still drafted: Publish, or the next publish window
Automatic(r) == same["reconciler"] /\ r.st = "drafted" /\ ~Evidence(r) /\ r.mode = "direct" /\ reuse

Reconcile ==
  /\ proc["reconciler"].pc = "match"
  /\ \/ /\ Cardinality(Matches) = 1 /\ NoError /\ Keep
        /\ \E a \in Matches : proc' = [proc EXCEPT !["reconciler"].pc = "bind", !["reconciler"].art = a]
     \/ /\ Cardinality(Matches) # 1 /\ NoError /\ ~Automatic(Reconciled)
        /\ CAS("reconciler", Reconciled) /\ End("reconciler", TRUE)
     \/ /\ Cardinality(Matches) # 1 /\ NoError /\ Automatic(Reconciled)
        /\ \/ /\ CAS("reconciler", Reconciled)
              /\ proc' = [proc EXCEPT !["reconciler"] = [Idle EXCEPT !.pc = "load", !.auto = TRUE]]
           \/ /\ CAS("reconciler", [Reconciled EXCEPT !.due = TRUE])
              /\ End("reconciler", TRUE)
     \/ \E code \in {"48001", "other"} :
          /\ IF code = "48001" THEN Denied48001 ELSE ReadFails
          /\ CAS("reconciler", UnsupportedRow(row, code)) /\ End("reconciler", TRUE)
     \/ /\ ReadFails /\ End("reconciler", TRUE)  \* persistFormalReconciliationFailure
        /\ CAS("reconciler", IF old THEN [row EXCEPT !.st = "publish_failed", !.due = FALSE]
                             ELSE [row EXCEPT !.due = TRUE])
  /\ UNCHANGED <<owner, denied, old, reuse, wechat, calls, faults, events, budget>>

-----------------------------------------------------------------------------
(* WeChat, the rest of the project, time and crashes                         *)

\* The submission is audited; the article is listed after that and the draft removed.
Audit ==
  /\ \/ wx = "auditing" /\ wx' \in {"success", "rejected"} /\ UNCHANGED <<live, draft>>
     \/ wx = "success" /\ "api" \notin live /\ live' = live \cup {"api"} /\ draft' = FALSE /\ UNCHANGED wx
  /\ UNCHANGED <<row, owner, denied, old, reuse, accepted, proc, same, bounds>>

Event ==
  /\ events < budget.events /\ events' = events + 1
  /\ UNCHANGED <<row, old, reuse, wx, accepted, proc, same, calls, errors, denials, faults, budget>>

\* The user publishes the draft from the console, or deletes it
Console ==
  /\ Event /\ draft /\ draft' = FALSE
  /\ (live' = live \cup {"console"} \/ live' = live) /\ UNCHANGED <<owner, denied>>

Similar == Event /\ live' = live \cup {"similar"} /\ UNCHANGED <<owner, denied, draft>>

\* Another task's publication binds an article
Rival ==
  /\ Cardinality({a \in Articles : owner[a] = "another"}) < budget.rivals
  /\ \E a \in live : owner[a] = None /\ owner' = [owner EXCEPT ![a] = "another"]
  /\ UNCHANGED <<row, denied, old, reuse, wechat, proc, same, bounds>>

\* Another task's publication is refused an interface, or is not any more
OtherDenied ==
  /\ Event /\ budget.denials > 0 /\ denied' \in SUBSET {"submit", "query"} /\ denied' # denied
  /\ UNCHANGED <<owner, draft, live>>

\* 72 hours; no call takes that long, and a submission is polled for two hours
Old ==
  /\ ~old /\ old' = TRUE /\ row.st # "publishing" /\ \A p \in Procs : proc[p].pc = "idle"
  /\ UNCHANGED <<row, owner, denied, reuse, wechat, proc, same, bounds>>

Crash(p) ==
  /\ proc[p].pc # "idle" /\ Fault
  /\ proc' = [proc EXCEPT ![p] = Idle] /\ row' = Release(p, row) /\ same' = [same EXCEPT ![p] = FALSE]
  /\ UNCHANGED <<owner, denied, old, reuse, wechat, calls, errors, denials, events, budget>>

PublishStep(p) ==
  \/ Load(p) \/ Deny(p) \/ ListPublishes(p) \/ ListFails(p) \/ ListDrafts(p) \/ ClaimPublish(p)
  \/ SubmitFreePublish(p) \/ SaveSubmit(p) \/ Bind(p) \/ Defer(p)

UserCall(c) ==
  \/ UserPublish(c) \/ AutoPublish(c) \/ RetryPublish(c) \/ KeepDraft(c) \/ Skip(c)
  \/ RestoreSkipped(c) \/ Select(c) \/ BindManual(c)

Next ==
  \/ \E c \in Callers : UserCall(c) \/ CheckManual(c) \/ SaveManual(c)
  \/ \E p \in Procs : PublishStep(p) \/ Crash(p)
  \/ LoadPublishing \/ Poll \/ LoadPending \/ Reconcile
  \/ Audit \/ Console \/ Similar \/ Rival \/ OtherDenied \/ Old

Spec == Init /\ [][Next]_vars

\* RecoverDue enqueues what is due, by the status; calls that have begun go on, the queue's
\* workers among them; the third day passes.
FairSpec ==
  /\ Spec
  /\ \A p \in Procs : WF_vars(PublishStep(p) \/ CheckManual(p) \/ SaveManual(p))
  /\ WF_vars(row.due /\ LoadPublishing) /\ WF_vars(Poll)
  /\ WF_vars(row.due /\ LoadPending) /\ WF_vars(Reconcile) /\ SF_vars(Old)

-----------------------------------------------------------------------------
(* Properties                                                                *)

\* WeChat never gets the article twice: at most one submission of a draft is accepted,
\* whatever is lost, retried, skipped and restored, or submitted by several callers at once
\* (ClaimPublish, RetryPublish).
OneSubmission == accepted <= 1

\* A row that may be submitted stands for a draft whose earlier submissions were all refused:
\* nothing accepted and nothing in doubt leads back to drafted.
ResubmitIsSafe ==
  row.st = "drafted" =>
    /\ ~Evidence(row) /\ row.tok = None /\ accepted = 0
    /\ \A p \in Procs : proc[p].pc \notin {"submit", "save"}

\* A published publication stays published: no late answer, list or retry takes it back.  (In
\* a project that is never refused an interface: the cached refusal saves a copy of the row
\* that may be out of date, see Deny.)
PublishedStays == [][budget.denials = 0 /\ row.st = "published" => row'.st = "published"]_vars

\* Whatever WeChat accepted can be traced from the row, or the user has been asked to see to
\* the publication, which only a refused interface makes of it.
AcceptedIsOnRecord ==
  accepted > 0 => \/ Evidence(row) \/ row.st = "published"
                  \/ row.manual /\ budget.denials > 0

\* An article belongs to one publication: the row names an article only while the binding is
\* its own (ClaimArticleBinding in bindPublished).
ArticleIsOwned == row.art # None => owner[row.art] = "this"

\* The record of a submission can be relied on: nothing is submitted twice, everything
\* accepted can be traced, and only own articles are named.
SubmissionsAreSound == TypeOK /\ OneSubmission /\ ResubmitIsSafe /\ AcceptedIsOnRecord /\ ArticleIsOwned

\* A submission does not stay open: it is found, refused, handed to the user or given up,
\* whoever dies.  (Unless its article belongs to another publication, or a read that failed
\* or was refused lets the user retry it after the third day.)
Open == row.st \in {"publish_submitting", "publishing"}
SubmissionIsSettled ==
  (budget.errors = 0 /\ budget.denials = 0 /\ budget.rivals = 0 /\ Open) ~> ~Open
=============================================================================
