-------------------------- MODULE UploadSessions --------------------------
(***************************************************************************)
(* Direct uploads.  A client writes a staging object with a signed PUT; a   *)
(* call then copies it to an immutable final key: FinalizeUploadSession for *)
(* media, which ends with an asset, FinalizeTaskArtifactManifest for task   *)
(* artifacts, which ends with a task file.  CleanupExpiredUploadSessions    *)
(* removes the staging object of a session that expired, after it has       *)
(* completed a finalization that died with its final object in place.       *)
(*                                                                          *)
(* An object is its content, and an ETag is the content it was computed     *)
(* from.  The token of a claim is the name of the call that took it, Gone   *)
(* once that call has ended without giving it back.  Times are compared     *)
(* with the moment a call or a pass of the cleanup began (its Now: req.Now, *)
(* before), which is also the time of the claims it takes.  A duration is   *)
(* 0 below a minute, 1 below five, and 2.                                    *)
(***************************************************************************)
EXTENDS Integers, FiniteSets

CONSTANTS
  Media,      \* sessions that become assets
  Artifacts,  \* sessions of task artifacts
  Users,      \* concurrent calls by clients
  Cleaners,   \* cleanup loops, one per server
  Good,       \* contents with the declared size and type
  Bad,        \* contents without
  Budgets     \* what a behaviour may use: which sessions, calls, cleaners and contents, which of
              \* the calls are of a list of URLs and which passes last a minute or more (slow), how
              \* many PUTs, calls by clients, and faults (crashes and failed operations), and
              \* whether a copy may end after the call that asked for it was told it failed

ASSUME UploadAssumption ==
  /\ Media \cap Artifacts = {} /\ {"none", "gone"} \cap (Users \cup Cleaners) = {}
  /\ Users \cap Cleaners = {} /\ (Users \cup Cleaners) \cap (Media \cup Artifacts) = {} /\ Good \cap Bad = {} /\ "none" \notin Good \cup Bad
  /\ Budgets \subseteq [sessions : SUBSET (Media \cup Artifacts), users : SUBSET Users,
                        cleaners : SUBSET Cleaners, slow : SUBSET (Users \cup Cleaners),
                        contents : SUBSET (Good \cup Bad), puts : Nat, calls : Nat, faults : Nat,
                        late : BOOLEAN]

VARIABLES
  row,      \* session -> its row
  phase,    \* session -> 0 before expires_at, 1 after it, 2 after the hour of grace
  staging, final,  \* session -> the object under the key, or None
  copying,  \* session -> the copy that the store is still working on, or None
  asset,    \* session -> ETag of its asset, or None
  filed,    \* artifact sessions whose final object a task file names
  ahead,    \* session -> the expired sessions that FindForCleanup lists before it
  age,      \* process or session -> how long ago its Now was, or the claim on it was taken
  gap,      \* process -> process or session -> how long before its own Now that was
  call,     \* process -> its call of a finalization
  clean,    \* cleaner -> its pass
  budget    \* what is left of the budget

store  == <<staging, final, copying>>
time   == <<phase, ahead, age, gap>>
vars   == <<row, time, store, asset, filed, call, clean, budget>>

None == "none"
Gone == "gone"
Sessions == Media \cup Artifacts
Contents == Good \cup Bad
Procs == Users \cup Cleaners
Timed == Procs \cup Sessions

NoCall == [pc |-> "idle"]
NoPass == [pc |-> "idle"]

\* What is left is what a budget allows, less what was used.
WithinBudget ==
  \E b \in Budgets : \E x \in 0..b.puts, y \in 0..b.calls, z \in 0..b.faults :
    budget = [b EXCEPT !.puts = x, !.calls = y, !.faults = z]

TypeOK ==
  /\ row \in [Sessions -> [st : {"pending", "finalizing", "finalized", "expiring", "expired"},
                           tok : Procs \cup {None, Gone}, src : Contents \cup {None},
                           etag : Contents \cup {None}, cc : Cleaners \cup {None, Gone},
                           next : BOOLEAN]]
  /\ phase \in [Sessions -> 0..2] /\ age \in [Timed -> 0..2] /\ gap \in [Procs -> [Timed -> 0..2]]
  /\ {staging, final, copying} \subseteq [Sessions -> Contents \cup {None}]
  /\ asset \in [Sessions -> Contents \cup {None}] /\ filed \subseteq Artifacts
  /\ \A p \in Procs : call[p].pc \in {"idle", "find", "stat", "claim", "recover", "staging", "recordS", "promote",
       "statF", "recordE", "persist", "delete", "release", "mstat", "mclaim", "mvalid", "record",
       "done", "failed"}
  /\ \A k \in Cleaners : clean[k].pc \in {"idle", "next", "stat", "recover", "claim", "delete",
                                          "reopen", "finish"}
  /\ WithinBudget

\* PrepareDirectUpload, PrepareTaskArtifact
Init ==
  /\ row = [s \in Sessions |-> [st |-> "pending", tok |-> None, src |-> None, etag |-> None,
                                cc |-> None, next |-> FALSE]]
  /\ phase = [s \in Sessions |-> 0] /\ ahead = [s \in Sessions |-> {}]
  /\ age = [x \in Timed |-> 0] /\ gap = [p \in Procs |-> age]
  /\ staging = [s \in Sessions |-> None] /\ final = staging /\ copying = staging /\ asset = staging
  /\ filed = {} /\ call = [p \in Procs |-> NoCall] /\ clean = [k \in Cleaners |-> NoPass]
  /\ budget \in Budgets

Fault   == budget.faults > 0 /\ budget' = [budget EXCEPT !.faults = @ - 1]
NoFault == UNCHANGED budget

Goto(p, pc) == call' = [call EXCEPT ![p].pc = pc]

\* A client's call ends with its answer; a cleaner looks at it.
End(p, ok) ==
  call' = [call EXCEPT ![p] = IF p \in Users THEN NoCall
                              ELSE [NoCall EXCEPT !.pc = IF ok THEN "done" ELSE "failed"]]

\* The Now of p, and a claim that p takes on s
ReadsClock(p) ==
  /\ age' = [age EXCEPT ![p] = 0]
  /\ gap' = [q \in Procs |-> IF q = p THEN age' ELSE [gap[q] EXCEPT ![p] = 0]]
TakesClaim(p, s) ==
  /\ age' = [age EXCEPT ![s] = age[p]]
  /\ gap' = [q \in Procs |-> [gap[q] EXCEPT ![s] = gap[q][p]]]

\* A call that died, or a pass that ended, with a claim
Orphan(p) ==
  row' = [s \in Sessions |-> [row[s] EXCEPT !.tok = IF @ = p THEN Gone ELSE @,
                                            !.cc = IF @ = p THEN Gone ELSE @]]

\* s is due now: of the expired sessions it is the last in the list.
GoesLast(s) ==
  ahead' = [x \in Sessions |-> IF x = s THEN {y \in Sessions \ {s} : phase[y] > 0} ELSE ahead[x] \ {s}]

-----------------------------------------------------------------------------
(* The client                                                                *)

\* A signed PUT; one that began before the URL expired may end within the hour after.
Put(s) ==
  /\ s \in budget.sessions /\ phase[s] < 2
  /\ budget.puts > 0 /\ budget' = [budget EXCEPT !.puts = @ - 1]
  /\ \E x \in budget.contents : staging' = [staging EXCEPT ![s] = x]
  /\ UNCHANGED <<row, time, final, copying, asset, filed, call, clean>>

Call(pc, s, exp) ==
  [pc |-> pc, s |-> s, st |-> "", src |-> None, etag |-> None, exp |-> exp, fin |-> None, v |-> None,
   prom |-> FALSE, ok |-> FALSE]

\* A call of FinalizeUploadSession, which may be a later one of a list of URLs with one Now, or
\* of FinalizeTaskArtifactManifest
UserCall(u, s) ==
  /\ s \in budget.sessions /\ u \in budget.users /\ call[u].pc = "idle"
  /\ budget.calls > 0 /\ budget' = [budget EXCEPT !.calls = @ - 1]
  /\ call' = [call EXCEPT ![u] = Call(IF s \in Media THEN "find" ELSE "mstat", s, phase[s] > 0)]
  /\ ReadsClock(u) /\ UNCHANGED <<row, phase, ahead, store, asset, filed, clean>>

-----------------------------------------------------------------------------
(* FinalizeUploadSession and FinalizeTaskArtifactManifest                    *)

\* The conditions of the updates: the claim is still this call's.
Holds(p) == row[call[p].s].st = "finalizing" /\ row[call[p].s].tok = p

\* The claim was a minute old at the Now of the call.
Lapsed(p) == gap[p][call[p].s] >= 1

SetRow(s, r) == row' = [row EXCEPT ![s] = r]

\* The step's operation failed: what holds a claim gives it back.
Fail(p) ==
  /\ call[p].pc \in {"find", "stat", "claim", "recover", "staging", "recordS", "statF", "recordE", "persist",
                     "mstat", "mclaim", "mvalid", "record"}
  /\ Fault
  /\ IF call[p].pc \in {"find", "stat", "claim", "mstat", "mclaim"} THEN End(p, FALSE) ELSE Goto(p, "release")
  /\ UNCHANGED <<row, time, store, asset, filed, clean>>

\* FindByID; a session that is finalized is answered from its asset.
Find(p) ==
  /\ call[p].pc = "find"
  /\ LET r == row[call[p].s] IN
     IF r.st = "finalized" THEN End(p, TRUE)
     ELSE call' = [call EXCEPT ![p] = [@ EXCEPT !.pc = "stat", !.st = r.st, !.src = r.src, !.etag = r.etag]]
  /\ NoFault /\ UNCHANGED <<row, time, store, asset, filed, clean>>

FinalAcceptable(p, f) ==
  LET k == call[p] IN
  f \in Good /\ (k.etag # None \/ k.src # None) /\ (k.etag # None => k.etag = f)

StatFinal(p) ==
  /\ call[p].pc = "stat"
  /\ LET f == final[call[p].s] IN
     IF f = None \/ FinalAcceptable(p, f)
     THEN call' = [call EXCEPT ![p].pc = "claim", ![p].fin = f, ![p].v = f] ELSE End(p, FALSE)
  /\ NoFault /\ UNCHANGED <<row, time, store, asset, filed, clean>>

MayFinalize(p) ==
  LET r == row[call[p].s] IN
  (r.st = "pending" /\ ~call[p].exp) \/ (r.st = "finalizing" /\ Lapsed(p))

\* ClaimFinalizationRecovery
MayRecover(p) ==
  LET r == row[call[p].s] IN
  /\ r.etag # None \/ r.src # None
  /\ \/ r.st = "expired"
     \/ r.st = "pending" /\ call[p].exp
     \/ r.st = "finalizing" /\ Lapsed(p)

Claimed(r, p) == [r EXCEPT !.st = "finalizing", !.tok = p]

Claim(p) ==
  /\ call[p].pc = "claim"
  /\ LET k == call[p]  r == row[k.s]
         recovery == k.fin # None /\ ~(k.st = "pending" /\ ~k.exp)
         work == CASE k.fin = None -> "staging" [] k.fin # None /\ k.etag = None -> "recover"
                   [] OTHER -> "persist"
     IN \/ /\ recovery /\ MayRecover(p)
           /\ SetRow(k.s, [Claimed(r, p) EXCEPT !.cc = None]) /\ TakesClaim(p, k.s) /\ Goto(p, work)
        \/ /\ ~recovery /\ k.st \in {"pending", "finalizing"} /\ ~k.exp /\ MayFinalize(p)
           /\ SetRow(k.s, Claimed(r, p)) /\ TakesClaim(p, k.s) /\ Goto(p, work)
        \/ /\ IF recovery THEN ~MayRecover(p)
              ELSE k.st \notin {"pending", "finalizing"} \/ k.exp \/ ~MayFinalize(p)
           /\ End(p, r.st = "finalized") /\ UNCHANGED <<row, age, gap>>
  /\ NoFault /\ UNCHANGED <<phase, ahead, store, asset, filed, clean>>

\* A final object whose ETag was not recorded is taken if the staging object is still its source.
Recover(p) ==
  /\ call[p].pc = "recover"
  /\ LET k == call[p] IN Goto(p, IF staging[k.s] \in Good /\ staging[k.s] = k.src THEN "recordE" ELSE "release")
  /\ NoFault /\ UNCHANGED <<row, time, store, asset, filed, clean>>

AfterStaging(s) == IF s \in Media THEN "recordS" ELSE "promote"

StatStaging(p) ==
  /\ call[p].pc = "staging"
  /\ LET x == staging[call[p].s] IN
     call' = [call EXCEPT ![p].v = x, ![p].pc = IF x \in Good THEN AfterStaging(call[p].s) ELSE "release"]
  /\ NoFault /\ UNCHANGED <<row, time, store, asset, filed, clean>>

RecordPromotionSourceETag(p) ==
  /\ call[p].pc = "recordS"
  /\ LET s == call[p].s IN
     IF Holds(p) THEN SetRow(s, [row[s] EXCEPT !.src = call[p].v]) /\ Goto(p, "promote")
     ELSE UNCHANGED row /\ Goto(p, "release")
  /\ NoFault /\ UNCHANGED <<time, store, asset, filed, clean>>

SourceMatches(p) == staging[call[p].s] = call[p].v

\* PromoteObject: a copy of the version that was verified, onto a key that must be free.  An
\* error tells nothing about the copy.
Promote(p) ==
  /\ call[p].pc = "promote"
  /\ LET k == call[p]  free == final[k.s] = None
         Copy == final' = [final EXCEPT ![k.s] = k.v]
     IN \/ /\ free /\ SourceMatches(p) /\ Copy /\ NoFault /\ UNCHANGED copying
           /\ call' = [call EXCEPT ![p].pc = "statF", ![p].prom = TRUE]
        \/ ~free /\ Goto(p, "statF") /\ NoFault /\ UNCHANGED <<final, copying>>
        \/ ~SourceMatches(p) /\ Goto(p, "release") /\ NoFault /\ UNCHANGED <<final, copying>>
        \/ /\ Fault /\ Goto(p, "release")
           /\ \/ UNCHANGED <<final, copying>>
              \/ free /\ SourceMatches(p) /\ Copy /\ UNCHANGED copying
              \/ /\ budget.late /\ free /\ SourceMatches(p) /\ UNCHANGED final
                 /\ copying' = [copying EXCEPT ![k.s] = k.v]
  /\ UNCHANGED <<row, time, staging, asset, filed, clean>>

\* Mutant: the ETag of the source is recorded for the target.
TargetSource(p) == call[p].v

\* The ETag to record: the one the copy returned, or that of the object that was there.
Target(p) ==
  LET k == call[p]  f == final[k.s]  tag == IF k.prom THEN k.v ELSE f IN
  IF f \in Good /\ f = tag THEN tag ELSE None

StatPromoted(p) ==
  /\ call[p].pc = "statF"
  /\ LET k == call[p]  tag == Target(p) IN
     IF tag # None
     THEN call' = [call EXCEPT ![p].v = tag, ![p].pc = IF k.s \in Media THEN "recordE" ELSE "record"]
     ELSE Goto(p, "release")
  /\ NoFault /\ UNCHANGED <<row, time, store, asset, filed, clean>>

RecordFinalizationETag(p) ==
  /\ call[p].pc = "recordE"
  /\ LET s == call[p].s IN
     IF Holds(p) THEN SetRow(s, [row[s] EXCEPT !.etag = call[p].v]) /\ Goto(p, "persist")
     ELSE UNCHANGED row /\ Goto(p, "release")
  /\ NoFault /\ UNCHANGED <<time, store, asset, filed, clean>>

\* Assets().Create or the same asset already there, and CompleteFinalization, in one transaction
MayPersist(p) == Holds(p) /\ asset[call[p].s] \in {None, call[p].v}

Persist(p) ==
  /\ call[p].pc = "persist"
  /\ LET s == call[p].s IN
     IF MayPersist(p)
     THEN /\ asset' = [asset EXCEPT ![s] = call[p].v]
          /\ SetRow(s, [row[s] EXCEPT !.st = "finalized", !.tok = None])
          /\ \/ NoFault /\ Goto(p, "delete")
             \/ Fault /\ Goto(p, "release")   \* committed, and reported as an error
     ELSE Goto(p, "release") /\ NoFault /\ UNCHANGED <<row, asset>>
  /\ UNCHANGED <<time, store, filed, clean>>

\* The staging object is no longer needed; an error is ignored.
DeleteStaging(p) ==
  /\ call[p].pc = "delete" /\ End(p, TRUE)
  /\ \/ NoFault /\ staging' = [staging EXCEPT ![call[p].s] = None]
     \/ Fault /\ UNCHANGED staging
  /\ UNCHANGED <<row, time, final, copying, asset, filed, clean>>

MayRelease(p) == Holds(p)

\* ReleaseFinalization, best effort; a manifest that was recorded then deletes the staging object
Release(p) ==
  /\ call[p].pc = "release"
  /\ LET s == call[p].s IN
     \/ /\ NoFault
        /\ IF MayRelease(p) THEN SetRow(s, [row[s] EXCEPT !.st = "pending", !.tok = None])
           ELSE UNCHANGED row
     \/ Fault /\ Orphan(p)
  /\ IF call[p].ok THEN Goto(p, "delete") ELSE End(p, FALSE)
  /\ UNCHANGED <<time, store, asset, filed, clean>>

ManifestStat(p) ==
  /\ call[p].pc = "mstat"
  /\ LET f == final[call[p].s] IN
     IF f = None THEN Goto(p, "mclaim") ELSE IF f \in Good THEN Goto(p, "record") ELSE End(p, FALSE)
  /\ NoFault /\ UNCHANGED <<row, time, store, asset, filed, clean>>

\* claimTaskArtifactStagingSession
ManifestClaim(p) ==
  /\ call[p].pc = "mclaim"
  /\ LET s == call[p].s IN
     IF MayFinalize(p) THEN SetRow(s, Claimed(row[s], p)) /\ TakesClaim(p, s) /\ Goto(p, "mvalid")
     ELSE End(p, FALSE) /\ UNCHANGED <<row, age, gap>>
  /\ NoFault /\ UNCHANGED <<phase, ahead, store, asset, filed, clean>>

\* validateTaskArtifactStagingClaim reads the row again.
ManifestValidate(p) ==
  /\ call[p].pc = "mvalid"
  /\ Goto(p, IF Holds(p) /\ ~call[p].exp THEN "staging" ELSE "release")
  /\ NoFault /\ UNCHANGED <<row, time, store, asset, filed, clean>>

\* ReplacePendingCurrentExecutionPreservingMCPArtifacts
ManifestRecord(p) ==
  /\ call[p].pc = "record" /\ filed' = filed \cup {call[p].s}
  /\ call' = [call EXCEPT ![p].pc = "release", ![p].ok = TRUE]
  /\ NoFault /\ UNCHANGED <<row, time, store, asset, clean>>

\* ScheduleTaskArtifactExpiration: a failed stream or the deletion of the task ends the session early.
ExpireArtifact(s) ==
  /\ s \in Artifacts /\ s \in budget.sessions /\ row[s].st = "pending" /\ phase[s] = 0
  /\ phase' = [phase EXCEPT ![s] = 1] /\ GoesLast(s)
  /\ NoFault /\ UNCHANGED <<row, age, gap, store, asset, filed, call, clean>>

FinalizeStep(p) ==
  \/ Find(p) \/ StatFinal(p) \/ Claim(p) \/ Recover(p) \/ StatStaging(p) \/ RecordPromotionSourceETag(p)
  \/ Promote(p) \/ StatPromoted(p) \/ RecordFinalizationETag(p) \/ Persist(p) \/ DeleteStaging(p)
  \/ Release(p) \/ ManifestStat(p) \/ ManifestClaim(p) \/ ManifestValidate(p) \/ ManifestRecord(p)

-----------------------------------------------------------------------------
(* CleanupExpiredUploadSessions                                              *)

\* Mutant: the claim of a finalization that died is never taken over.
DueNotFinalizing(s) ==
  LET r == row[s] IN
  \/ r.st = "pending" /\ phase[s] > 0 /\ ~r.next
  \/ r.st = "expiring" /\ age[s] = 2

\* FindForCleanup
Due(s) ==
  LET r == row[s] IN
  \/ r.st = "pending" /\ phase[s] > 0 /\ ~r.next
  \/ r.st = "expiring" /\ age[s] = 2
  \/ r.st = "finalizing" /\ phase[s] > 0 /\ age[s] = 2

To(k, pc) == clean' = [clean EXCEPT ![k].pc = pc]
Abort(k)  == clean' = [clean EXCEPT ![k] = NoPass]

\* The rest of the list, or the end of the pass
Proceed(k) ==
  LET rest == [s \in DOMAIN clean[k].list \ {clean[k].cur} |-> clean[k].list[s]] IN
  clean' = [clean EXCEPT ![k] = IF DOMAIN rest = {} THEN NoPass
                                ELSE [pc |-> "next", list |-> rest, cur |-> None]]

List(k) ==
  /\ k \in budget.cleaners /\ clean[k].pc = "idle" /\ \E s \in Sessions : Due(s)
  /\ clean' = [clean EXCEPT ![k] =
       [pc |-> "next", cur |-> None,
        list |-> [s \in {x \in Sessions : Due(x)} |->
          [src |-> row[s].src, etag |-> row[s].etag, grace |-> phase[s] = 1,
           after |-> {y \in Sessions : Due(y) /\ y \in ahead[s]}]]]]
  /\ ReadsClock(k)
  /\ NoFault /\ UNCHANGED <<row, phase, ahead, store, asset, filed, call>>

\* The next session of the list; one with a fingerprint may have its final object.
Pick(k) ==
  /\ clean[k].pc = "next"
  /\ \E s \in DOMAIN clean[k].list :
       LET l == clean[k].list[s] IN
       /\ l.after \cap DOMAIN clean[k].list = {}
       /\ clean' = [clean EXCEPT ![k].cur = s,
            ![k].pc = IF s \in Media /\ (l.etag # None \/ l.src # None) THEN "stat" ELSE "claim"]
  /\ NoFault /\ UNCHANGED <<row, time, store, asset, filed, call>>

CleanStat(k) ==
  /\ clean[k].pc = "stat"
  /\ LET s == clean[k].cur IN
     IF final[s] # None THEN call' = [call EXCEPT ![k] = Call("find", s, TRUE)] /\ To(k, "recover")
     ELSE To(k, "claim") /\ UNCHANGED call
  /\ NoFault /\ UNCHANGED <<row, time, store, asset, filed>>

\* The finalization it asked for has ended; its error ends the pass.
CleanRecovered(k) ==
  /\ clean[k].pc = "recover" /\ call[k].pc \in {"done", "failed"}
  /\ call' = [call EXCEPT ![k] = NoCall]
  /\ IF call[k].pc = "done" THEN Proceed(k) ELSE Abort(k)
  /\ NoFault /\ UNCHANGED <<row, time, store, asset, filed>>

\* Mutant: the claim does not look at the age of a finalization.
MayExpireFinalizing(k, s) == row[s].st \in {"pending", "expiring", "finalizing"} /\ ~row[s].next

\* ClaimExpiration: the conditions of the list, at the Now of the pass, on the row as it is now
MayExpire(k, s) ==
  \/ row[s].st = "pending" /\ ~row[s].next
  \/ row[s].st \in {"expiring", "finalizing"} /\ gap[k][s] = 2

ClaimExpiration(k) ==
  /\ clean[k].pc = "claim"
  /\ LET s == clean[k].cur IN
     IF MayExpire(k, s)
     THEN /\ SetRow(s, [row[s] EXCEPT !.st = "expiring", !.cc = k, !.tok = None])
          /\ TakesClaim(k, s) /\ To(k, "delete")
     ELSE Proceed(k) /\ UNCHANGED <<row, age, gap>>
  /\ NoFault /\ UNCHANGED <<phase, ahead, store, asset, filed, call>>

CleanDelete(k) ==
  /\ clean[k].pc = "delete"
  /\ \/ staging' = [staging EXCEPT ![clean[k].cur] = None] /\ To(k, "finish") /\ NoFault
     \/ UNCHANGED staging /\ To(k, "reopen") /\ Fault
  /\ UNCHANGED <<row, time, final, copying, asset, filed, call>>

Expiring(k) == row[clean[k].cur].st = "expiring" /\ row[clean[k].cur].cc = k

\* ReopenExpiration; the error of the delete ends the pass.
Reopen(k) ==
  /\ clean[k].pc = "reopen" /\ Abort(k)
  /\ LET s == clean[k].cur IN
     \/ /\ NoFault
        /\ IF Expiring(k) THEN SetRow(s, [row[s] EXCEPT !.st = "pending", !.cc = None])
           ELSE UNCHANGED row
     \/ Fault /\ Orphan(k)
  /\ UNCHANGED <<time, store, asset, filed, call>>

\* A task artifact is swept again until the hour of grace has passed.
SweepAgain(k) == clean[k].cur \in Artifacts /\ clean[k].list[clean[k].cur].grace

\* RescheduleExpiration, CompleteExpiration
Finish(k) ==
  /\ clean[k].pc = "finish"
  /\ LET s == clean[k].cur  r == [row[s] EXCEPT !.cc = None] IN
     \/ /\ NoFault
        /\ IF Expiring(k)
           THEN /\ Proceed(k)
                /\ SetRow(s, IF SweepAgain(k) THEN [r EXCEPT !.st = "pending", !.next = TRUE]
                             ELSE [r EXCEPT !.st = "expired", !.next = FALSE])
           ELSE Abort(k) /\ UNCHANGED row
     \/ Fault /\ Abort(k) /\ Orphan(k)
  /\ UNCHANGED <<time, store, asset, filed, call>>

\* An operation of the pass fails, which ends it.
CleanFail(k) ==
  /\ clean[k].pc \in {"stat", "claim"} /\ Abort(k) /\ Fault
  /\ UNCHANGED <<row, time, store, asset, filed, call>>

CleanStep(k) ==
  \/ List(k) \/ Pick(k) \/ CleanStat(k) \/ CleanRecovered(k) \/ ClaimExpiration(k) \/ CleanDelete(k)
  \/ Reopen(k) \/ Finish(k)

-----------------------------------------------------------------------------
(* Time, the store and crashes                                               *)

Expire(s) ==
  /\ s \in budget.sessions /\ phase[s] = 0 /\ phase' = [phase EXCEPT ![s] = 1] /\ GoesLast(s)
  /\ NoFault /\ UNCHANGED <<row, age, gap, store, asset, filed, call, clean>>

\* next_cleanup_at, after which a session is due again and which then is its place in the list
NextComes(s) ==
  IF row[s].next THEN SetRow(s, [row[s] EXCEPT !.next = FALSE]) /\ GoesLast(s) ELSE UNCHANGED <<row, ahead>>

\* It is never after the end of the grace.
GraceEnds(s) ==
  /\ s \in Artifacts /\ phase[s] = 1 /\ phase' = [phase EXCEPT ![s] = 2] /\ NextComes(s)
  /\ NoFault /\ UNCHANGED <<age, gap, store, asset, filed, call, clean>>

\* taskArtifactCleanupRetryDelay
RetryDue(s) ==
  /\ row[s].next /\ NextComes(s)
  /\ NoFault /\ UNCHANGED <<phase, age, gap, store, asset, filed, call, clean>>

\* The calls of a single session that began before it expired are over: they end within 45
\* seconds (and give their claim back within 5 more).
CallsAreOver(s) ==
  \A u \in Users \ budget.slow : call[u].pc # "idle" => call[u].s # s \/ call[u].exp

Grows(X) == age' = [x \in Timed |-> IF x \in X /\ age[x] < 2 THEN age[x] + 1 ELSE age[x]]

\* A minute, then five, since the Now of a pass, or of a call for a list of URLs, each with 45
\* seconds of its own; and since its claims.
AgeCall(p) ==
  /\ p \in budget.slow /\ age[p] < 2
  /\ IF p \in Users THEN call[p].pc # "idle" /\ call[p].s \in Media ELSE clean[p].pc # "idle"
  /\ \A s \in Sessions : row[s].cc = p => CallsAreOver(s)
  /\ Grows({p} \cup {s \in Sessions : p \in {row[s].tok, row[s].cc}})
  /\ NoFault /\ UNCHANGED <<row, phase, ahead, gap, store, asset, filed, call, clean>>

\* The claim of a call or a pass that is no more: uploadFinalizationLease, uploadSessionCleanupLease
AgeClaim(s) ==
  /\ age[s] < 2
  /\ \/ row[s].st = "finalizing" /\ row[s].tok = Gone
     \/ row[s].st = "expiring" /\ row[s].cc = Gone /\ CallsAreOver(s)
  /\ Grows({s})
  /\ NoFault /\ UNCHANGED <<row, phase, ahead, gap, store, asset, filed, call, clean>>

CopyEnds(s) ==
  /\ copying[s] # None /\ copying' = [copying EXCEPT ![s] = None]
  /\ final' = [final EXCEPT ![s] = IF @ = None THEN copying[s] ELSE @]
  /\ NoFault /\ UNCHANGED <<row, time, staging, asset, filed, call, clean>>

Crash(p) ==
  /\ call[p].pc # "idle" \/ (p \in Cleaners /\ clean[p].pc # "idle")
  /\ Fault
  /\ call' = [call EXCEPT ![p] = NoCall] /\ Orphan(p)
  /\ clean' = IF p \in Cleaners THEN [clean EXCEPT ![p] = NoPass] ELSE clean
  /\ UNCHANGED <<time, store, asset, filed>>

Clock(s) == Expire(s) \/ GraceEnds(s) \/ RetryDue(s) \/ AgeClaim(s) \/ CopyEnds(s)

Next ==
  \/ \E s \in Sessions : Put(s) \/ ExpireArtifact(s) \/ Clock(s)
  \/ \E u \in Users, s \in Sessions : UserCall(u, s)
  \/ \E p \in Procs : FinalizeStep(p) \/ Fail(p) \/ AgeCall(p) \/ Crash(p)
  \/ \E k \in Cleaners : CleanStep(k) \/ CleanFail(k)

Spec == Init /\ [][Next]_vars

\* Calls end, time passes and the loops run: a ticker every half hour, whatever a pass returned.
FairSpec ==
  /\ Spec
  /\ \A p \in Procs : WF_vars(FinalizeStep(p))
  /\ \A k \in Cleaners : WF_vars(CleanStep(k))
  /\ \A s \in Sessions : WF_vars(Expire(s) \/ GraceEnds(s)) /\ WF_vars(RetryDue(s) \/ AgeClaim(s) \/ CopyEnds(s))

-----------------------------------------------------------------------------
(* Properties                                                                *)

(* A finalized session has its asset, and the asset's ETag is that of the     *)
(* final object, which has the declared size and type; a task file names a    *)
(* final object that is there (CompleteFinalization, PromoteObject).          *)
FinalizedIsBacked ==
  /\ \A s \in Media : row[s].st = "finalized" =>
       asset[s] \in Good /\ final[s] = asset[s] /\ row[s].etag = asset[s]
  /\ \A s \in filed : final[s] \in Good

(* The source of a copy is on record before there can be a copy: no final     *)
(* object is without a fingerprint, which FinalizeUploadSession would refuse  *)
(* for ever.                                                                  *)
PromotionIsOnRecord ==
  \A s \in Media : final[s] # None \/ copying[s] # None => row[s].src # None

(* The claim protects the staging object: while a client's call, whose Now is *)
(* less than a minute ago, works on its source, nobody deletes it, unless a   *)
(* task file already names the final object, or a cleaner was so slow that    *)
(* its own claim on the session lapsed before its delete came through.  (A    *)
(* later URL of FinalizeUploadSessionURLAssets may work longer than that.)    *)
ClaimProtectsSource ==
  \A u \in Users : LET s == call[u].s IN
    age[u] = 0 /\ call[u].pc \in {"staging", "recordS", "promote", "recover"} /\ staging[s] # None /\ staging'[s] = None =>
      s \in filed \/ \E k \in Cleaners : clean[k].pc = "delete" /\ clean[k].cur = s /\ ~Expiring(k)

(* The cleanup of task artifacts removes what a delayed PUT recreated: once   *)
(* the session is expired its staging object is gone for good.                *)
ArtifactStagingSwept ==
  \A s \in Artifacts : row[s].st = "expired" => staging[s] = None

(* A finalized session stays finalized: no late release, no cleanup undoes    *)
(* it, and its asset never changes.                                           *)
FinalizedStays ==
  \A s \in Media : row[s].st = "finalized" => row'[s].st = "finalized" /\ asset'[s] = asset[s]

(* Rows, staging objects, final objects and assets agree, whatever calls,     *)
(* cleaners and late PUTs overlap (FinalizeUploadSession,                     *)
(* CleanupExpiredUploadSessions).                                             *)
UploadsAreBacked == TypeOK /\ FinalizedIsBacked /\ PromotionIsOnRecord /\ ArtifactStagingSwept

(* Nobody undoes a finalized session or takes the source from under a claim.  *)
ClaimsAreRespected == [][FinalizedStays /\ ClaimProtectsSource]_vars

Ended(s) == row[s].st \in {"finalized", "expired"}

\* The final object is there and FinalizeUploadSession will not take it: its ETag is not on
\* record and the staging object is not its source, or a cleaner has claimed the session.
Stuck(s) ==
  /\ s \in Media /\ final[s] # None
  /\ (row[s].etag = None /\ staging[s] # row[s].src) \/ row[s].st = "expiring"

\* A recovery that is refused ends the pass, before the sessions that expired later.
Blocked(s) == \E x \in ahead[s] : Stuck(x)

(* Whatever crashes and fails, a session that expired ends, unless it, or one *)
(* that the list puts before it, is caught with a final object that the       *)
(* recovery refuses: each pass ends there.  (Of two cleaners each could for   *)
(* ever take the claim of the other, if every delete took longer than the     *)
(* lease of five minutes.)                                                    *)
SessionEndsOrIsStuck ==
  Cardinality(budget.cleaners) = 1 =>
    \A s \in Sessions : (phase[s] > 0) ~> (Ended(s) \/ Stuck(s) \/ Blocked(s))
=============================================================================
